---------------------------- MODULE MCLifecycle -----------------------------
(***************************************************************************)
(* Instances of DaemonLifecycle for a few commands and processes.  Nothing *)
(* tells one process from another: they are taken in order.                *)
(***************************************************************************)
EXTENDS DaemonLifecycle

CONSTANTS p1, p2, p3

MCProcs == {p1, p2, p3}

InOrder == /\ proc[p2] # Unused => proc[p1] # Unused
           /\ proc[p3] # Unused => proc[p2] # Unused

MCInit == Init /\ InOrder
MCNext == Next /\ InOrder'

MCSpec == MCInit /\ [][MCNext]_vars /\ Fairness
=============================================================================
