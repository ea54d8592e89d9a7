----------------------------- MODULE AtomicApply -----------------------------
(***************************************************************************)
(* What the daemon may rely on when it calls Platform::apply: the call     *)
(* works on the machine for a while and then returns once.  It may answer  *)
(* that it rolled back only if the settings it accounts for are what they  *)
(* were before and no driver was installed; the other answers promise      *)
(* nothing about the machine.  After the answer the machine is left alone. *)
(***************************************************************************)
VARIABLES
  outcome,   \* what the call returned, "none" while it runs
  restored,  \* whether the settings the call accounts for are the original ones
  installed  \* whether a driver package was installed

vars == <<outcome, restored, installed>>

Init == outcome = "none" /\ restored = TRUE /\ installed = FALSE

Work ==
  /\ outcome = "none"
  /\ restored' \in BOOLEAN
  /\ installed' \in {installed, TRUE}
  /\ UNCHANGED outcome

Succeed ==
  /\ outcome = "none"
  /\ outcome' = "succeeded"
  /\ UNCHANGED <<restored, installed>>

RollBack ==
  /\ outcome = "none"
  /\ restored
  /\ ~installed
  /\ outcome' = "rolled_back"
  /\ UNCHANGED <<restored, installed>>

GiveUp ==
  /\ outcome = "none"
  /\ outcome' = "failed"
  /\ UNCHANGED <<restored, installed>>

Next == Work \/ Succeed \/ RollBack \/ GiveUp

Spec == Init /\ [][Next]_vars
=============================================================================
