------------------------ MODULE ConcurrentApply_proofs ------------------------
(***************************************************************************)
(* Proofs about two applies on one machine, for every set of targets and   *)
(* every pair of scenarios.  Each apply writes the settings of its own     *)
(* footprint only, and keeps its promises for every setting the other one  *)
(* leaves alone: the guarantee of one is what the other relies on.         *)
(***************************************************************************)
EXTENDS ConcurrentApply, TLAPS

F == INSTANCE ApplyTransaction_proofs

S == INSTANCE ApplyTransaction_proofs WITH
       config <- config2, orig <- orig2, inventoried <- inventoried2, seen <- seen2,
       phase <- phase2, at <- at2, drv <- drv2, rollback <- rollback2,
       irreversible <- irreversible2, had <- had2, errors <- errors2,
       installed <- installed2, outcome <- outcome2

-----------------------------------------------------------------------------
(* The two transactions.  First and F are the same transaction, once with  *)
(* the definitions and once with the lemmas about them, and so are Second  *)
(* and S: expanded, their definitions are the same formulas.               *)

\* The first transaction is a transaction of ApplyTransaction_proofs: its steps,
LEMMA FirstSteps == First!Next => F!Next
  BY DEF First!Next, First!Work, First!Hooks, First!Reversible, First!FinishReversible,
         First!InstallDriver, First!RestartAdapter, First!FinishDrivers, First!UndoLast,
         First!FinishRollback, First!RunBeforeHooks, First!RunAfterHooks,
         First!RunAfterRollbackHooks, First!SetIdentity, First!TakeInventory,
         First!SetAdapterEnabled, First!SetMac, First!SetIpv4, First!SetWifiProfile,
         First!ScanWifi, First!SetLink, First!SetService, First!AddAccount,
         First!ApplyShare, First!MapDrive, First!ConnectShare, First!SetFirewall,
         First!DriverTurn, First!DriverDone, First!Restart, First!UndoResults, First!Top,
         First!HookResults, First!Turn, First!Holds, First!Step1, First!Refused, First!Skip,
         First!RecordAfter, First!AdapterTurn, First!Admin, First!Write, First!CellsOf,
         First!EnabledDuringApply, First!Attempt, First!EntryFor, First!Ok, First!HeldBy,
         First!RecordBefore, First!Partly, First!Failed, First!Relinked, First!Running,
         First!ServiceMoved, First!AsBoolean, First!RestartsOnUndo, First!UndoMac,
         First!UndoIpv4, First!HalfUndone, First!TwoSided, First!UndoFirewall,
         First!UndoShare, First!UndoService, First!UndoLink, First!UndoSimple, First!Cell,
         First!PartsOf, First!Advance, First!Abort, First!PartUndone, First!Undone,
         First!FirstProfiles, First!Parts, First!Copy, First!ProfileOrder, First!Ops,
         F!Next, F!Work, F!Hooks, F!Reversible, F!FinishReversible, F!InstallDriver,
         F!RestartAdapter, F!FinishDrivers, F!UndoLast, F!FinishRollback, F!RunBeforeHooks,
         F!RunAfterHooks, F!RunAfterRollbackHooks, F!SetIdentity, F!TakeInventory,
         F!SetAdapterEnabled, F!SetMac, F!SetIpv4, F!SetWifiProfile, F!ScanWifi, F!SetLink,
         F!SetService, F!AddAccount, F!ApplyShare, F!MapDrive, F!ConnectShare,
         F!SetFirewall, F!DriverTurn, F!DriverDone, F!Restart, F!UndoResults, F!Top,
         F!HookResults, F!Turn, F!Holds, F!Step1, F!Refused, F!Skip, F!RecordAfter,
         F!AdapterTurn, F!Admin, F!Write, F!CellsOf, F!EnabledDuringApply, F!Attempt,
         F!EntryFor, F!Ok, F!HeldBy, F!RecordBefore, F!Partly, F!Failed, F!Relinked,
         F!Running, F!ServiceMoved, F!AsBoolean, F!RestartsOnUndo, F!UndoMac, F!UndoIpv4,
         F!HalfUndone, F!TwoSided, F!UndoFirewall, F!UndoShare, F!UndoService, F!UndoLink,
         F!UndoSimple, F!Cell, F!PartsOf, F!Advance, F!Abort, F!PartUndone, F!Undone,
         F!FirstProfiles, F!Parts, F!Copy, F!ProfileOrder, F!Ops

\* its initial states,
LEMMA FirstBegins == First!Init => F!Init
  BY DEF First!Init, F!Init

\* and what it promises.
LEMMA FirstPromises == ASSUME NEW O, F!KeepsOutside(O) PROVE First!KeepsOutside(O)
  BY DEF First!KeepsOutside, First!RecordedOutside, First!Cell, First!Unrecorded,
         First!Passed, First!TwoSided, First!Same, First!CellsOf, First!Conforms,
         First!Admin, First!Recoverable, First!Parts, First!RestartReached, First!Step1,
         First!Running, First!PartsOf, First!CoveredBy, First!Ops, F!KeepsOutside,
         F!RecordedOutside, F!Cell, F!Unrecorded, F!Passed, F!TwoSided, F!Same, F!CellsOf,
         F!Conforms, F!Admin, F!Recoverable, F!Parts, F!RestartReached, F!Step1, F!Running,
         F!PartsOf, F!CoveredBy, F!Ops


\* The second transaction is a transaction of ApplyTransaction_proofs: its steps,
LEMMA SecondSteps == Second!Next => S!Next
  BY DEF Second!Next, Second!Work, Second!Hooks, Second!Reversible, Second!FinishReversible,
         Second!InstallDriver, Second!RestartAdapter, Second!FinishDrivers, Second!UndoLast,
         Second!FinishRollback, Second!RunBeforeHooks, Second!RunAfterHooks,
         Second!RunAfterRollbackHooks, Second!SetIdentity, Second!TakeInventory,
         Second!SetAdapterEnabled, Second!SetMac, Second!SetIpv4, Second!SetWifiProfile,
         Second!ScanWifi, Second!SetLink, Second!SetService, Second!AddAccount,
         Second!ApplyShare, Second!MapDrive, Second!ConnectShare, Second!SetFirewall,
         Second!DriverTurn, Second!DriverDone, Second!Restart, Second!UndoResults,
         Second!Top, Second!HookResults, Second!Turn, Second!Holds, Second!Step1,
         Second!Refused, Second!Skip, Second!RecordAfter, Second!AdapterTurn, Second!Admin,
         Second!Write, Second!CellsOf, Second!EnabledDuringApply, Second!Attempt,
         Second!EntryFor, Second!Ok, Second!HeldBy, Second!RecordBefore, Second!Partly,
         Second!Failed, Second!Relinked, Second!Running, Second!ServiceMoved,
         Second!AsBoolean, Second!RestartsOnUndo, Second!UndoMac, Second!UndoIpv4,
         Second!HalfUndone, Second!TwoSided, Second!UndoFirewall, Second!UndoShare,
         Second!UndoService, Second!UndoLink, Second!UndoSimple, Second!Cell,
         Second!PartsOf, Second!Advance, Second!Abort, Second!PartUndone, Second!Undone,
         Second!FirstProfiles, Second!Parts, Second!Copy, Second!ProfileOrder, Second!Ops,
         S!Next, S!Work, S!Hooks, S!Reversible, S!FinishReversible, S!InstallDriver,
         S!RestartAdapter, S!FinishDrivers, S!UndoLast, S!FinishRollback, S!RunBeforeHooks,
         S!RunAfterHooks, S!RunAfterRollbackHooks, S!SetIdentity, S!TakeInventory,
         S!SetAdapterEnabled, S!SetMac, S!SetIpv4, S!SetWifiProfile, S!ScanWifi, S!SetLink,
         S!SetService, S!AddAccount, S!ApplyShare, S!MapDrive, S!ConnectShare,
         S!SetFirewall, S!DriverTurn, S!DriverDone, S!Restart, S!UndoResults, S!Top,
         S!HookResults, S!Turn, S!Holds, S!Step1, S!Refused, S!Skip, S!RecordAfter,
         S!AdapterTurn, S!Admin, S!Write, S!CellsOf, S!EnabledDuringApply, S!Attempt,
         S!EntryFor, S!Ok, S!HeldBy, S!RecordBefore, S!Partly, S!Failed, S!Relinked,
         S!Running, S!ServiceMoved, S!AsBoolean, S!RestartsOnUndo, S!UndoMac, S!UndoIpv4,
         S!HalfUndone, S!TwoSided, S!UndoFirewall, S!UndoShare, S!UndoService, S!UndoLink,
         S!UndoSimple, S!Cell, S!PartsOf, S!Advance, S!Abort, S!PartUndone, S!Undone,
         S!FirstProfiles, S!Parts, S!Copy, S!ProfileOrder, S!Ops

\* its initial states,
LEMMA SecondBegins == Second!Init => S!Init
  BY DEF Second!Init, S!Init

\* and what it promises.
LEMMA SecondPromises == ASSUME NEW O, S!KeepsOutside(O) PROVE Second!KeepsOutside(O)
  BY DEF Second!KeepsOutside, Second!RecordedOutside, Second!Cell, Second!Unrecorded,
         Second!Passed, Second!TwoSided, Second!Same, Second!CellsOf, Second!Conforms,
         Second!Admin, Second!Recoverable, Second!Parts, Second!RestartReached,
         Second!Step1, Second!Running, Second!PartsOf, Second!CoveredBy, Second!Ops,
         S!KeepsOutside, S!RecordedOutside, S!Cell, S!Unrecorded, S!Passed, S!TwoSided,
         S!Same, S!CellsOf, S!Conforms, S!Admin, S!Recoverable, S!Parts, S!RestartReached,
         S!Step1, S!Running, S!PartsOf, S!CoveredBy, S!Ops


\* The footprint of a configuration is the same for both.
LEMMA Footprints ==
  \A c : First!Footprint(c) = S!Footprint(c) /\ Second!Footprint(c) = F!Footprint(c)
  BY DEF First!Footprint, First!CellsOf, First!PartsOf, First!Admin, Second!Footprint,
         Second!CellsOf, Second!PartsOf, Second!Admin, F!Footprint, F!CellsOf, F!PartsOf,
         F!Admin, S!Footprint, S!CellsOf, S!PartsOf, S!Admin

\* Both have scenarios that an apply may have.
LEMMA Fit == /\ F!ScenariosAssumption /\ F!StepsAssumption
             /\ S!ScenariosAssumption /\ S!StepsAssumption
  BY BothAssumption
     DEF First!Config, First!Machine, First!EnableFirst, First!AdaptersOnce,
         First!Askable, First!Step, First!Driver, First!Stages, First!Cell,
         First!Values, First!Ops, First!Parts, First!PartsOf,
         F!Config, F!Machine, F!EnableFirst, F!AdaptersOnce, F!Askable, F!Step,
         F!Driver, F!Stages, F!Cell, F!Values, F!Ops, F!Parts, F!PartsOf,
         S!Config, S!Machine, S!EnableFirst, S!AdaptersOnce, S!Askable, S!Step,
         S!Driver, S!Stages, S!Cell, S!Values, S!Ops, S!Parts, S!PartsOf

-----------------------------------------------------------------------------
(* The invariant of the two.                                               *)

\* Each transaction satisfies its invariant outside the footprint of the other, and its
\* stack covers settings of its own footprint only.
JointInv ==
  /\ F!ConformOutside(S!Footprint(config2)) /\ F!StackInFootprint
  /\ S!ConformOutside(F!Footprint(config)) /\ S!StackInFootprint

\* A step of the first keeps the invariant: it is a step of its own transaction, and one
\* of another writer for the second.
LEMMA FirstRunsKeeps == ASSUME JointInv, FirstRuns PROVE JointInv'
<1>1. PICK O, G : O = S!Footprint(config2) /\ G = F!Footprint(config)
  OBVIOUS
<1>2. F!Next /\ UNCHANGED own2
  BY FirstSteps DEF FirstRuns
<1>3. F!ConformOutside(O) /\ F!StackInFootprint /\ S!ConformOutside(G) /\ S!StackInFootprint
  BY <1>1 DEF JointInv
<1>4. /\ F!ConformOutside(O)' /\ F!StackInFootprint'
      /\ os' \in F!Machine /\ \A c \in F!Cell \ G : os'[c] = os[c]
      /\ F!Footprint(config)' = G
  BY <1>1, <1>2, <1>3, Fit, F!OwnStep
<1>5. S!AnotherWrites(G)
  BY <1>2, <1>4 DEF S!AnotherWrites, own2, F!Machine, F!Cell, F!Values, F!Parts, F!Ops,
         F!PartsOf, S!Machine, S!Cell, S!Values, S!Parts, S!Ops, S!PartsOf
<1>6. /\ S!ConformOutside(G)' /\ S!StackInFootprint'
      /\ S!Footprint(config2)' = O
  BY <1>1, <1>3, <1>5, Fit, S!AnotherStep
<1> QED
  BY <1>4, <1>6 DEF JointInv

\* A step of the second keeps the invariant: it is a step of its own transaction, and one
\* of another writer for the first.
LEMMA SecondRunsKeeps == ASSUME JointInv, SecondRuns PROVE JointInv'
<1>1. PICK O, G : O = F!Footprint(config) /\ G = S!Footprint(config2)
  OBVIOUS
<1>2. S!Next /\ UNCHANGED own
  BY SecondSteps DEF SecondRuns
<1>3. S!ConformOutside(O) /\ S!StackInFootprint /\ F!ConformOutside(G) /\ F!StackInFootprint
  BY <1>1 DEF JointInv
<1>4. /\ S!ConformOutside(O)' /\ S!StackInFootprint'
      /\ os' \in S!Machine /\ \A c \in S!Cell \ G : os'[c] = os[c]
      /\ S!Footprint(config2)' = G
  BY <1>1, <1>2, <1>3, Fit, S!OwnStep
<1>5. F!AnotherWrites(G)
  BY <1>2, <1>4 DEF F!AnotherWrites, own, S!Machine, S!Cell, S!Values, S!Parts, S!Ops,
         S!PartsOf, F!Machine, F!Cell, F!Values, F!Parts, F!Ops, F!PartsOf
<1>6. /\ F!ConformOutside(G)' /\ F!StackInFootprint'
      /\ F!Footprint(config)' = O
  BY <1>1, <1>3, <1>5, Fit, F!AnotherStep
<1> QED
  BY <1>4, <1>6 DEF JointInv

\* A step of neither keeps it.
LEMMA RestKeeps == ASSUME JointInv, UNCHANGED machine PROVE JointInv'
<1>1. PICK O, G : O = S!Footprint(config2) /\ G = F!Footprint(config)
  OBVIOUS
<1>2. UNCHANGED F!vars /\ UNCHANGED S!vars
  BY DEF machine, own, own2, F!vars, S!vars
<1>3. F!ConformOutside(O) /\ F!StackInFootprint /\ S!ConformOutside(G) /\ S!StackInFootprint
  BY <1>1 DEF JointInv
<1>4. F!ConformOutside(O)' /\ F!StackInFootprint' /\ F!Footprint(config)' = G
  BY <1>1, <1>2, <1>3, Fit, F!OwnStep
<1>5. S!ConformOutside(G)' /\ S!StackInFootprint' /\ S!Footprint(config2)' = O
  BY <1>1, <1>2, <1>3, Fit, S!OwnStep
<1> QED
  BY <1>4, <1>5 DEF JointInv

\* Two applies that begin with empty stacks satisfy it.
LEMMA BothBeginJoint == BothBegin => JointInv
<1> SUFFICES ASSUME BothBegin PROVE JointInv
  OBVIOUS
<1>1. F!Init /\ S!Init
  BY FirstBegins, SecondBegins DEF BothBegin
<1>2. F!StackInFootprint /\ S!StackInFootprint
  BY <1>1 DEF F!Init, S!Init, F!StackInFootprint, S!StackInFootprint
<1>3. \A O : F!ConformOutside(O) /\ S!ConformOutside(O)
  <2>1. \A O : F!ConformOutside(O)
    BY <1>1, Fit, F!InitConforms
  <2>2. \A O : S!ConformOutside(O)
    BY <1>1, Fit, S!InitConforms
  <2> QED
    BY <2>1, <2>2
<1> QED
  BY <1>2, <1>3 DEF JointInv

\* Each of two applies that run at the same time keeps its promises for every setting the
\* other one does not write, whatever the other one does, whenever it begins, fails or
\* rolls back: the applies of main.rs need no lock between them for these settings.
THEOREM OwnSettingsKeptHolds == Both => []OwnSettingsKept
<1>1. JointInv /\ [BothRun]_machine => JointInv'
  BY FirstRunsKeeps, SecondRunsKeeps, RestKeeps DEF BothRun
<1>2. ASSUME JointInv PROVE OwnSettingsKept
  <2>1. PICK O, G : O = S!Footprint(config2) /\ G = F!Footprint(config)
    OBVIOUS
  <2>2. F!ConformOutside(O) /\ S!ConformOutside(G)
    BY <1>2, <2>1 DEF JointInv
  <2>3. F!KeepsOutside(O) /\ S!KeepsOutside(G)
    <3>1. F!KeepsOutside(O)
      BY <2>2, Fit, F!ConformKeeps
    <3>2. S!KeepsOutside(G)
      BY <2>2, Fit, S!ConformKeeps
    <3> QED
      BY <3>1, <3>2
  <2>4. First!KeepsOutside(O) /\ Second!KeepsOutside(G)
    BY <2>3, FirstPromises, SecondPromises
  <2>5. First!Footprint(config2) = O /\ Second!Footprint(config) = G
    BY <2>1, Footprints
  <2> QED
    BY <2>4, <2>5 DEF OwnSettingsKept
<1> QED
  BY <1>1, <1>2, BothBeginJoint, PTL DEF Both
=============================================================================
