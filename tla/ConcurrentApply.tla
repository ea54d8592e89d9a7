--------------------------- MODULE ConcurrentApply ---------------------------
(***************************************************************************)
(* Two live applies on one machine: apply_live of netpland/main.rs hands   *)
(* every live apply to a thread of its own, and nothing keeps the second   *)
(* from starting while the first one runs.                                 *)
(*                                                                         *)
(* The transactions share the machine and nothing else: each has its own   *)
(* inventory, its own stack and its own answer.  The second one has the    *)
(* variables that end in 2.  Either may be the one that began earlier.     *)
(***************************************************************************)
CONSTANTS Targets, Drives, Scenarios

VARIABLES os, config, orig, inventoried, seen, phase, at, drv, rollback, irreversible, had,
          errors, installed, outcome

VARIABLES config2, orig2, inventoried2, seen2, phase2, at2, drv2, rollback2,
          irreversible2, had2, errors2, installed2, outcome2

own  == <<config, orig, inventoried, seen, phase, at, drv, rollback,
          irreversible, had, errors, installed, outcome>>
own2 == <<config2, orig2, inventoried2, seen2, phase2, at2, drv2, rollback2,
          irreversible2, had2, errors2, installed2, outcome2>>

First == INSTANCE ApplyTransaction

Second == INSTANCE ApplyTransaction WITH
            config <- config2, orig <- orig2, inventoried <- inventoried2, seen <- seen2,
            phase <- phase2, at <- at2, drv <- drv2, rollback <- rollback2,
            irreversible <- irreversible2, had <- had2, errors <- errors2,
            installed <- installed2, outcome <- outcome2

\* Both apply one of the scenarios.
ASSUME BothAssumption == First!ScenariosAssumption /\ First!StepsAssumption

BothBegin == First!Init /\ Second!Init

\* The blocking threads run one apply each, call by call.
FirstRuns  == First!Next /\ UNCHANGED own2
SecondRuns == Second!Next /\ UNCHANGED own

BothRun == FirstRuns \/ SecondRuns

machine == <<os, own, own2>>

Both == BothBegin /\ [][BothRun]_machine

-----------------------------------------------------------------------------
(* Properties.                                                             *)

\* An apply keeps the promises of ApplyTransaction for every setting the other apply
\* does not write, whatever that one does, whenever it begins, fails or rolls back:
\* its stack can take these settings back until it answers, after a rollback they are
\* as they were, and after success they are as asked.
OwnSettingsKept ==
  First!KeepsOutside(First!Footprint(config2)) /\ Second!KeepsOutside(Second!Footprint(config))
=============================================================================
