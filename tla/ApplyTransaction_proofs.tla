----------------------- MODULE ApplyTransaction_proofs -----------------------
(***************************************************************************)
(* Proofs about ApplyTransaction for every set of targets, configurations  *)
(* and machines: IInv is inductive, the invariants the runs check follow   *)
(* from it, and every step is a step or a stutter of AtomicApply.          *)
(***************************************************************************)
EXTENDS ApplyTransaction, TLAPS

-----------------------------------------------------------------------------
(* Machines and cells.                                                     *)

\* The cells of a step are cells.
LEMMA CellsOfType == ASSUME NEW s \in Step PROVE CellsOf(s) \subseteq Cell
  BY DEF CellsOf, Cell, Step, Ops, Parts

\* The administrative state of a target is a cell.
LEMMA AdminType == ASSUME NEW a \in Targets PROVE Admin(a) \in Cell
  BY DEF Admin, Cell, Parts, Ops, PartsOf

\* Write changes the given cells only, to the given value.
LEMMA WriteFacts ==
  ASSUME NEW m \in Machine, NEW C, NEW v \in Values
  PROVE  /\ Write(m, C, v) \in Machine
         /\ \A c \in Cell : c \notin C => Write(m, C, v)[c] = m[c]
         /\ \A c \in Cell : c \in C => Write(m, C, v)[c] = v
  BY DEF Write, Machine

\* Copy takes the given cells, and no others, from the second machine.
LEMMA CopyFacts ==
  ASSUME NEW m \in Machine, NEW C, NEW n \in Machine
  PROVE  /\ Copy(m, C, n) \in Machine
         /\ \A c \in Cell : c \notin C => Copy(m, C, n)[c] = m[c]
         /\ \A c \in Cell : c \in C => Copy(m, C, n)[c] = n[c]
  BY DEF Copy, Machine

\* A restart leaves the adapter on when it returns Ok and touches nothing else.
LEMMA RestartFacts ==
  ASSUME NEW m \in Machine, NEW a \in Targets, NEW r \in Restart(m, a)
  PROVE  /\ r \in Result
         /\ \A c \in Cell : c # Admin(a) => r.os[c] = m[c]
         /\ r.ok => r.os[Admin(a)] = "on"
<1> "on" \in Values /\ "off" \in Values
  BY DEF Values
<1> Admin(a) \in Cell
  BY AdminType
<1>1. /\ Write(m, {Admin(a)}, "on") \in Machine
      /\ \A c \in Cell : c # Admin(a) => Write(m, {Admin(a)}, "on")[c] = m[c]
      /\ Write(m, {Admin(a)}, "on")[Admin(a)] = "on"
  BY WriteFacts
<1>2. /\ Write(m, {Admin(a)}, "off") \in Machine
      /\ \A c \in Cell : c # Admin(a) => Write(m, {Admin(a)}, "off")[c] = m[c]
  BY WriteFacts
<1>3. \/ r = Ok(Write(m, {Admin(a)}, "on"))
      \/ r = Failed(m)
      \/ r = Failed(Write(m, {Admin(a)}, "on"))
      \/ r = Failed(Write(m, {Admin(a)}, "off"))
  BY DEF Restart
<1>4. CASE r = Ok(Write(m, {Admin(a)}, "on"))
  BY <1>1, <1>4 DEF Result, Ok
<1>5. CASE r = Failed(m)
  BY <1>5 DEF Result, Failed
<1>6. CASE r = Failed(Write(m, {Admin(a)}, "on"))
  BY <1>1, <1>6 DEF Result, Failed
<1>7. CASE r = Failed(Write(m, {Admin(a)}, "off"))
  BY <1>2, <1>7 DEF Result, Failed
<1> QED
  BY <1>3, <1>4, <1>5, <1>6, <1>7

-----------------------------------------------------------------------------
(* The stack: what a push and a pop do to the cells it can take back.      *)

\* Registering an entry keeps a cell recoverable if the machine changed only
\* under the entry, and the entry holds the original value of what it covers
\* first.
LEMMA PushRecoverable ==
  ASSUME NEW m, NEW m2, NEW n, NEW stack \in Seq(Entry), NEW e \in Entry, NEW c,
         Recoverable(m, n, stack, c),
         c \notin e.cells => m2[c] = m[c],
         (c \in e.cells /\ ~CoveredBy(stack, c)) => Same(e.saved, n, c)
  PROVE  Recoverable(m2, n, Append(stack, e), c)
<1> DEFINE s2 == Append(stack, e)
<1>1. /\ Len(s2) = Len(stack) + 1 /\ s2 \in Seq(Entry)
      /\ \A i \in 1..Len(stack) : s2[i] = stack[i]
      /\ s2[Len(stack) + 1] = e
      /\ DOMAIN stack = 1..Len(stack) /\ DOMAIN s2 = 1..(Len(stack) + 1)
      /\ Len(stack) \in Nat
  OBVIOUS
<1>2. CASE CoveredBy(stack, c)
  <2>1. PICK i \in DOMAIN stack : /\ c \in stack[i].cells
                                  /\ \A j \in 1..(i - 1) : c \notin stack[j].cells
                                  /\ Same(stack[i].saved, n, c)
    BY <1>2 DEF Recoverable
  <2>2. /\ i \in DOMAIN s2 /\ c \in s2[i].cells
        /\ \A j \in 1..(i - 1) : c \notin s2[j].cells
        /\ Same(s2[i].saved, n, c)
    BY <1>1, <2>1
  <2> QED
    BY <2>2 DEF Recoverable
<1>3. CASE ~CoveredBy(stack, c) /\ c \in e.cells
  <2>1. /\ Len(stack) + 1 \in DOMAIN s2 /\ c \in s2[Len(stack) + 1].cells
        /\ \A j \in 1..(Len(stack) + 1 - 1) : c \notin s2[j].cells
        /\ Same(s2[Len(stack) + 1].saved, n, c)
    BY <1>1, <1>3 DEF CoveredBy
  <2> QED
    BY <2>1 DEF Recoverable
<1>4. CASE ~CoveredBy(stack, c) /\ c \notin e.cells
  <2>1. ~CoveredBy(s2, c)
    BY <1>1, <1>4 DEF CoveredBy
  <2>2. Same(m, n, c)
    BY <1>4 DEF Recoverable, CoveredBy
  <2>3. Same(m2, n, c)
    BY <2>2, <1>4 DEF Same, Running
  <2> QED
    BY <2>1, <2>3 DEF Recoverable
<1> QED
  BY <1>2, <1>3, <1>4

\* Executing the top entry and dropping it keeps every cell recoverable.
LEMMA PopRecoverable ==
  ASSUME NEW m, NEW m2, NEW n, NEW stack \in Seq(Entry), stack # <<>>, NEW c,
         Recoverable(m, n, stack, c),
         c \notin stack[Len(stack)].cells => m2[c] = m[c],
         c \in stack[Len(stack)].cells => m2[c] = stack[Len(stack)].saved[c]
  PROVE  Recoverable(m2, n, SubSeq(stack, 1, Len(stack) - 1), c)
<1> DEFINE s2 == SubSeq(stack, 1, Len(stack) - 1)
           top == stack[Len(stack)]
<1>1. /\ Len(stack) \in Nat /\ Len(stack) > 0
      /\ DOMAIN stack = 1..Len(stack) /\ DOMAIN s2 = 1..(Len(stack) - 1)
      /\ \A i \in 1..(Len(stack) - 1) : s2[i] = stack[i]
  OBVIOUS
<1>2. CASE ~CoveredBy(stack, c)
  <2>1. ~CoveredBy(s2, c) /\ c \notin top.cells
    BY <1>1, <1>2 DEF CoveredBy
  <2>2. Same(m, n, c)
    BY <1>2 DEF Recoverable, CoveredBy
  <2>3. Same(m2, n, c)
    BY <2>1, <2>2 DEF Same, Running
  <2> QED
    BY <2>1, <2>3 DEF Recoverable
<1>3. CASE CoveredBy(stack, c)
  <2>1. PICK i \in DOMAIN stack : /\ c \in stack[i].cells
                                  /\ \A j \in 1..(i - 1) : c \notin stack[j].cells
                                  /\ Same(stack[i].saved, n, c)
    BY <1>3 DEF Recoverable
  <2>2. CASE i < Len(stack)
    <3>1. /\ i \in DOMAIN s2 /\ c \in s2[i].cells
          /\ \A j \in 1..(i - 1) : c \notin s2[j].cells
          /\ Same(s2[i].saved, n, c)
      BY <1>1, <2>1, <2>2
    <3> QED
      BY <3>1 DEF Recoverable
  <2>3. CASE i = Len(stack)
    <3>1. ~CoveredBy(s2, c)
      BY <1>1, <2>1, <2>3 DEF CoveredBy
    <3>2. Same(m2, n, c)
      BY <2>1, <2>3 DEF Same, Running
    <3> QED
      BY <3>1, <3>2 DEF Recoverable
  <2> QED
    BY <1>1, <2>1, <2>2, <2>3
<1> QED
  BY <1>2, <1>3

\* What an older entry covers as well stays recoverable whatever the top one left.
LEMMA PopCovered ==
  ASSUME NEW m, NEW m2, NEW n, NEW stack \in Seq(Entry), stack # <<>>, NEW c,
         Recoverable(m, n, stack, c),
         CoveredBy(SubSeq(stack, 1, Len(stack) - 1), c)
  PROVE  Recoverable(m2, n, SubSeq(stack, 1, Len(stack) - 1), c)
<1> DEFINE s2 == SubSeq(stack, 1, Len(stack) - 1)
<1>1. /\ Len(stack) \in Nat /\ Len(stack) > 0
      /\ DOMAIN stack = 1..Len(stack) /\ DOMAIN s2 = 1..(Len(stack) - 1)
      /\ \A i \in 1..(Len(stack) - 1) : s2[i] = stack[i]
  OBVIOUS
<1>2. PICK j \in DOMAIN s2 : c \in s2[j].cells
  BY DEF CoveredBy
<1>3. CoveredBy(stack, c)
  BY <1>1, <1>2 DEF CoveredBy
<1>4. PICK i \in DOMAIN stack : /\ c \in stack[i].cells
                                /\ \A k \in 1..(i - 1) : c \notin stack[k].cells
                                /\ Same(stack[i].saved, n, c)
  BY <1>3 DEF Recoverable
<1>5. i <= j
  <2>1. i \in Nat /\ j \in Nat /\ 1 <= j /\ c \in stack[j].cells
    BY <1>1, <1>2
  <2> QED
    BY <1>4, <2>1
<1>6. i \in DOMAIN s2 /\ s2[i] = stack[i]
  BY <1>1, <1>2, <1>4, <1>5
<1>7. \A k \in 1..(i - 1) : s2[k] = stack[k]
  BY <1>1, <1>6
<1> HIDE DEF s2
<1>8. /\ i \in DOMAIN s2 /\ c \in s2[i].cells
      /\ \A k \in 1..(i - 1) : c \notin s2[k].cells
      /\ Same(s2[i].saved, n, c)
  BY <1>4, <1>6, <1>7
<1>9. Recoverable(m2, n, s2, c)
  BY <1>8 DEF Recoverable
<1> QED
  BY <1>9 DEF s2

\* Undoing an entry touches only its cells, and restores them when it returns Ok, the
\* mixed ones perhaps in part.
LEMMA UndoFacts ==
  ASSUME os \in Machine, NEW e \in Entry, RestartsToOn(e), NEW r \in UndoResults(e)
  PROVE  /\ r \in Result
         /\ \A c \in Cell : c \notin e.cells => r.os[c] = os[c]
         /\ \A c \in Cell : (r.ok /\ c \in e.cells /\ c \notin HalfUndone(e))
                            => r.os[c] = e.saved[c]
<1>1. e.saved \in Machine /\ e.cells \subseteq Cell
  BY DEF Entry
<1>2. /\ Undone(e) \in Machine
      /\ \A c \in Cell : c \notin e.cells => Undone(e)[c] = os[c]
      /\ \A c \in Cell : c \in e.cells => Undone(e)[c] = e.saved[c]
  BY <1>1, CopyFacts DEF Undone
<1>3. \A P : /\ PartUndone(e, P) \in Machine
             /\ \A c \in Cell : c \notin e.cells => PartUndone(e, P)[c] = os[c]
  BY <1>1, CopyFacts DEF PartUndone
<1>4. \A v \in Values : /\ Write(os, e.cells, v) \in Machine
                        /\ \A c \in Cell : c \notin e.cells => Write(os, e.cells, v)[c] = os[c]
  BY WriteFacts
<1>5. CASE r = Ok(Undone(e))
  BY <1>2, <1>5 DEF Ok, Result
<1>6. CASE \E m \in Machine : r = Failed(m) /\ \A c \in Cell : c \notin e.cells => m[c] = os[c]
  BY <1>6 DEF Failed, Result
<1>7. CASE RestartsOnUndo(e)
  <2>1. PICK a \in Targets : /\ e.cells = {[part |-> "mac", on |-> a], Admin(a)}
                             /\ e.saved[Admin(a)] = "on"
    BY <1>7 DEF RestartsToOn
  <2>2. \A d \in e.cells : d.part = "admin" => d = Admin(a)
    BY <2>1 DEF Admin
  <2>3. r = Failed(os) \/ r \in Restart(PartUndone(e, {"mac"}), a)
    <3>1. r \in {Failed(os)} \cup
               UNION {Restart(PartUndone(e, {"mac"}), c.on) : c \in {d \in e.cells : d.part = "admin"}}
      <4>1. UndoResults(e) = UndoMac(e)
        BY <1>7 DEF UndoResults, RestartsOnUndo
      <4> QED
        BY <4>1 DEF UndoMac
    <3>2. Admin(a).on = a
      BY DEF Admin
    <3> QED
      BY <3>1, <3>2, <2>2
  <2>4. CASE r = Failed(os)
    BY <2>4, <1>6
  <2>5. CASE r \in Restart(PartUndone(e, {"mac"}), a)
    <3>1. /\ r \in Result
          /\ \A c \in Cell : c # Admin(a) => r.os[c] = PartUndone(e, {"mac"})[c]
          /\ r.ok => r.os[Admin(a)] = "on"
      BY <2>5, <1>3, RestartFacts
    <3>2. PartUndone(e, {"mac"})[[part |-> "mac", on |-> a]] = e.saved[[part |-> "mac", on |-> a]]
      BY <1>1, <2>1, CopyFacts DEF PartUndone
    <3>3. Admin(a) # [part |-> "mac", on |-> a]
      BY DEF Admin
    <3>4. \A c \in Cell : c \notin e.cells => r.os[c] = os[c]
      BY <3>1, <1>3, <2>1
    <3>5. \A c \in Cell : (r.ok /\ c \in e.cells) => r.os[c] = e.saved[c]
      BY <3>1, <3>2, <3>3, <2>1
    <3> QED
      BY <3>1, <3>4, <3>5
  <2> QED
    BY <2>3, <2>4, <2>5
<1>8. CASE ~RestartsOnUndo(e)
  <2>1. {"running", "stopped", "paused", "down"} \subseteq Values
    BY DEF Values
  <2>2. CASE e.op = "ipv4"
    <3>1. "part" \in Values /\ HalfUndone(e) \subseteq e.cells
      BY DEF Values, HalfUndone
    <3>2. ASSUME NEW m \in Machine, \A c \in Cell : c \notin e.cells => m[c] = os[c],
                 NEW D \in SUBSET HalfUndone(e)
          PROVE  /\ Write(m, D, "part") \in Machine
                 /\ \A c \in Cell : c \notin e.cells => Write(m, D, "part")[c] = os[c]
                 /\ \A c \in Cell : c \notin HalfUndone(e) => Write(m, D, "part")[c] = m[c]
      BY <3>1, <3>2, WriteFacts
    <3>3. \/ \E D \in SUBSET HalfUndone(e) : r = Ok(Write(Undone(e), D, "part"))
          \/ \E D \in SUBSET HalfUndone(e) : \E P : r = Failed(Write(PartUndone(e, P), D, "part"))
      BY <2>2 DEF UndoResults, RestartsOnUndo, UndoIpv4
    <3>4. CASE \E D \in SUBSET HalfUndone(e) : r = Ok(Write(Undone(e), D, "part"))
      <4>1. PICK D \in SUBSET HalfUndone(e) : r = Ok(Write(Undone(e), D, "part"))
        BY <3>4
      <4>2. /\ Write(Undone(e), D, "part") \in Machine
            /\ \A c \in Cell : c \notin e.cells => Write(Undone(e), D, "part")[c] = os[c]
            /\ \A c \in Cell : c \notin HalfUndone(e) => Write(Undone(e), D, "part")[c] = Undone(e)[c]
        BY <1>2, <3>2
      <4> QED
        BY <1>2, <4>1, <4>2 DEF Ok, Result
    <3>5. CASE \E D \in SUBSET HalfUndone(e) : \E P : r = Failed(Write(PartUndone(e, P), D, "part"))
      BY <1>3, <1>6, <3>2, <3>5
    <3> QED
      BY <3>3, <3>4, <3>5
  <2>3. CASE e.op = "firewall"
    <3>1. r = Ok(Undone(e)) \/ \E P : r = Failed(PartUndone(e, P))
      BY <2>3 DEF UndoResults, RestartsOnUndo, UndoFirewall
    <3> QED
      BY <3>1, <1>3, <1>5, <1>6
  <2>4. CASE e.op = "share"
    <3>1. r = Ok(Undone(e)) \/ r = Failed(os) \/ r = Failed(PartUndone(e, {"share"}))
      BY <2>4 DEF UndoResults, RestartsOnUndo, UndoShare, UndoSimple
    <3> QED
      BY <3>1, <1>3, <1>5, <1>6
  <2>5. CASE e.op = "service"
    <3>1. r = Ok(Undone(e)) \/ \E v \in Values : r = Failed(Write(os, e.cells, v))
      BY <2>1, <2>5 DEF UndoResults, RestartsOnUndo, UndoService
    <3> QED
      BY <3>1, <1>4, <1>5, <1>6
  <2>6. CASE e.op = "link"
    <3>1. r \in {Ok(Undone(e)), Failed(os), Failed(Write(os, e.cells, "down")), Failed(Undone(e))}
      BY <2>6 DEF UndoResults, RestartsOnUndo, UndoLink, UndoSimple
    <3> QED
      BY <3>1, <1>2, <1>4, <1>5, <1>6, <2>1
  <2>7. CASE e.op \notin {"ipv4", "firewall", "share", "service", "link"}
    <3>1. r \in {Ok(Undone(e)), Failed(os)}
      BY <1>8, <2>7 DEF UndoResults, UndoSimple
    <3> QED
      BY <3>1, <1>5, <1>6
  <2> QED
    BY <2>2, <2>3, <2>4, <2>5, <2>6, <2>7
<1> QED
  BY <1>7, <1>8
-----------------------------------------------------------------------------
(* A reversible step: what keeps the invariant when a step returns.        *)

\* No setting but a connection is left out of the account while steps remain.
LEMMA AllAccounted ==
  ASSUME NEW O, IInvOutside(O), phase = "reversible", at <= Len(config.steps),
         NEW c, c.part # "connection"
  PROVE  ~Unrecorded(c)
  BY DEF Unrecorded, RestartReached, IInvOutside, TypeOK

\* While reversible steps run, every other cell is recoverable.
LEMMA ReversibleRecoverable ==
  ASSUME NEW O, IInvOutside(O), phase = "reversible", at <= Len(config.steps), NEW c \in Cell \ O,
         ~Unrecorded(c)
  PROVE  /\ Recoverable(os, orig, rollback, c)
         /\ ~CoveredBy(rollback, c) => Same(os, orig, c)
<1>1. ~errors
  BY DEF IInvOutside, Control
<1>2. Recoverable(os, orig, rollback, c)
  BY <1>1 DEF IInvOutside, RecordedOutside
<1> QED
  BY <1>2 DEF Recoverable, CoveredBy

\* The step that runs is a step.
LEMMA StepType ==
  ASSUME TypeOK, at <= Len(config.steps)
  PROVE  Step1 \in Step /\ at \in DOMAIN config.steps
  BY DEF TypeOK, Config, Step1

\* What the entry of the present step does not put back.
Lost(c) ==
  \/ Unrecorded(c)
  \/ /\ c.part = "connection" /\ c.on \notin Drives /\ orig[c] # "absent"
     /\ c \in CellsOf(Step1)

\* A step that returns was made, and leaves no setting to the account that was not in it.
LEMMA AttemptPasses ==
  ASSUME TypeOK, phase = "reversible", at <= Len(config.steps), NEW R, NEW stack,
         Attempt(R, stack), NEW c
  PROVE  /\ Passed(c) => Passed(c)'
         /\ c \in CellsOf(Step1) => Passed(c)'
         /\ Lost(c) => Unrecorded(c)'
<1>1. /\ config' = config /\ orig' = orig
      /\ \/ at' = at + 1
         \/ at' = at /\ phase' = "rollback"
  BY DEF Attempt, Advance, Abort
<1>2. /\ at \in DOMAIN config.steps /\ DOMAIN config.steps \subseteq Nat /\ at \in Nat
      /\ Step1 = config.steps[at]
  BY DEF TypeOK, Config, Step1
<1>3. Passed(c) => Passed(c)'
  BY <1>1, <1>2 DEF Passed, CellsOf
<1>4. c \in CellsOf(Step1) => Passed(c)'
  BY <1>1, <1>2 DEF Passed, CellsOf
<1>5. Unrecorded(c) => c.part = "connection" /\ c.on \notin Drives /\ orig[c] # "absent" /\ Passed(c)
  BY DEF Unrecorded, RestartReached, TypeOK
<1>6. (c.part = "connection" /\ c.on \notin Drives /\ orig[c] # "absent" /\ Passed(c)')
        => Unrecorded(c)'
  BY <1>1 DEF Unrecorded
<1> QED
  BY <1>3, <1>4, <1>5, <1>6 DEF Lost

\* A step that leaves the machine, the stack and the position in the lists as
\* they are, or moves forward in them, keeps the stack able to take it back.
LEMMA SameStackKeeps ==
  ASSUME NEW O, IInvOutside(O), config' = config, orig' = orig, rollback' = rollback,
         errors' = errors,
         \A c \in Cell : Unrecorded(c) => Unrecorded(c)',
         \A c \in Cell \ O : ~Unrecorded(c)' => os'[c] = os[c]
  PROVE  RecordedOutside(O)'
<1> SUFFICES ASSUME ~errors, NEW c \in Cell \ O, ~Unrecorded(c)'
             PROVE  Recoverable(os', orig, rollback, c)
  BY DEF RecordedOutside
<1>1. Recoverable(os, orig, rollback, c) /\ os'[c] = os[c]
  BY DEF IInvOutside, RecordedOutside
<1> QED
  BY <1>1 DEF Recoverable, Same, Running

\* A step that registers nothing keeps the invariant if it changed nothing, or
\* failed and changed cells of a share.
LEMMA AttemptKeep ==
  ASSUME NEW O, IInvOutside(O), phase = "reversible", at <= Len(config.steps), NEW R,
         \A r \in R : /\ r \in Result
                     /\ \A c \in Cell : \/ r.os[c] = os[c]
                                        \/ ~r.ok /\ Step1.op = "share" /\ c \in CellsOf(Step1),
         \A r \in R : (r.ok /\ Step1.op = "admin" /\ Step1.to = "on")
                       => inventoried /\ \/ seen[Admin(Step1.on)] = "on"
                                         \/ CoveredBy(rollback, Admin(Step1.on)),
         Attempt(R, rollback)
  PROVE  IInvOutside(O)'
<1>1. PICK r \in R : /\ os' = r.os
                     /\ IF r.ok THEN Advance ELSE Abort(rollback)
  BY DEF Attempt
<1>2. /\ rollback' = rollback
      /\ UNCHANGED <<config, orig, inventoried, seen, drv, irreversible, errors,
                     installed, outcome>>
  BY DEF Attempt
<1>3. r \in Result /\ os' \in Machine /\ r.ok \in BOOLEAN
  BY <1>1 DEF Result
<1>4. Step1 \in Step /\ at \in Nat /\ Len(config.steps) \in Nat
  BY StepType DEF IInvOutside, TypeOK, Config
<1>5. \/ r.ok /\ at' = at + 1 /\ phase' = "reversible" /\ had' = had
      \/ ~r.ok /\ at' = at /\ phase' = "rollback" /\ had' = (rollback # <<>>)
  BY <1>1 DEF Advance, Abort
<1>6. TypeOK'
  <2>1. had' \in BOOLEAN
    BY <1>5 DEF IInvOutside, TypeOK
  <2>2. at' \in 1..(Len(config.steps) + 1) /\ phase' \in Phases
    BY <1>4, <1>5 DEF IInvOutside, TypeOK, Phases
  <2> QED
    BY <1>2, <1>3, <2>1, <2>2 DEF IInvOutside, TypeOK
<1>7. Control'
  BY <1>2, <1>5 DEF IInvOutside, Control
<1>8. InventoryIsOriginal(O)'
  BY <1>2 DEF IInvOutside, InventoryIsOriginal, CoveredBy
<1>9. EnabledStepsCovered'
  <2>1. CASE r.ok
    <3> SUFFICES ASSUME NEW k \in DOMAIN config.steps, k < at + 1,
                        config.steps[k].op = "admin", config.steps[k].to = "on"
                 PROVE  inventoried /\ \/ seen[Admin(config.steps[k].on)] = "on"
                                       \/ CoveredBy(rollback, Admin(config.steps[k].on))
      BY <1>2, <1>5, <2>1 DEF EnabledStepsCovered, CoveredBy
    <3>1. k \in Nat
      BY DEF IInvOutside, TypeOK, Config
    <3>2. CASE k < at
      BY <3>2 DEF IInvOutside, EnabledStepsCovered
    <3>3. CASE k = at
      BY <2>1, <3>3 DEF Step1
    <3> QED
      BY <1>4, <3>1, <3>2, <3>3
  <2>2. CASE ~r.ok
    BY <1>5, <2>2 DEF EnabledStepsCovered
  <2> QED
    BY <2>1, <2>2
<1>10. (\A i \in DOMAIN rollback : RestartsToOn(rollback[i]))'
  BY <1>2 DEF IInvOutside, RestartsToOn, RestartsOnUndo
<1>11. RecordedOutside(O)'
  <2> SUFFICES ASSUME NEW c \in Cell \ O, ~Unrecorded(c)'
               PROVE  Recoverable(os', orig, rollback, c)
    BY <1>2 DEF RecordedOutside
  <2>1. Recoverable(os, orig, rollback, c)
    <3>1. ~Unrecorded(c)
      BY AttemptPasses DEF Lost, IInvOutside
    <3> QED
      BY <3>1, ReversibleRecoverable
  <2>2. os'[c] = os[c]
    <3>1. CASE r.os[c] = os[c]
      BY <1>1, <3>1
    <3>2. CASE ~r.ok /\ Step1.op = "share" /\ c \in CellsOf(Step1)
      <4>1. phase' = "rollback" /\ at' = at /\ config' = config
        BY <1>2, <1>5, <3>2
      <4> QED
        BY <4>1, <3>2 DEF Unrecorded, Step1, CellsOf
    <3> QED
      BY <3>1, <3>2
  <2> QED
    BY <2>1, <2>2 DEF Recoverable, Same, Running
<1>12. EnableFirst(config.steps)'
  BY <1>2 DEF IInvOutside
<1>13. MixedWerePassed'
  <2>1. \A c \in Cell : c.part \in TwoSided /\ CoveredBy(rollback, c) => Passed(c)'
    BY AttemptPasses DEF IInvOutside, MixedWerePassed
  <2> QED
    BY <1>2, <2>1 DEF MixedWerePassed, CoveredBy
<1> QED
  BY <1>6, <1>7, <1>8, <1>9, <1>10, <1>11, <1>12, <1>13 DEF IInvOutside

\* A step that registers an entry keeps the invariant if it changed only cells of
\* the entry and the entry saved the current value of those it covers first.
LEMMA AttemptPush ==
  ASSUME NEW O, IInvOutside(O), phase = "reversible", at <= Len(config.steps), NEW R, NEW e \in Entry,
         RestartsToOn(e),
         \A r \in R : r \in Result /\ \A c \in Cell : c \notin e.cells => r.os[c] = os[c],
         \A c \in Cell \ O :
           (c \in e.cells /\ ~CoveredBy(rollback, c)) => Same(e.saved, orig, c) \/ Lost(c),
         \A c \in e.cells : c.part \in TwoSided => c \in CellsOf(Step1),
         ~inventoried => \A c \in e.cells : c.part \notin FromInventory,
         (Step1.op = "admin" /\ Step1.to = "on") => Admin(Step1.on) \in e.cells,
         Attempt(R, Append(rollback, e))
  PROVE  IInvOutside(O)'
<1> DEFINE stack == Append(rollback, e)
<1>1. PICK r \in R : /\ os' = r.os
                     /\ IF r.ok THEN Advance ELSE Abort(stack)
  BY DEF Attempt
<1>2. /\ rollback' = stack
      /\ UNCHANGED <<config, orig, inventoried, seen, drv, irreversible, errors,
                     installed, outcome>>
  BY DEF Attempt
<1>3. r \in Result /\ os' \in Machine /\ r.ok \in BOOLEAN
  BY <1>1 DEF Result
<1>4. Step1 \in Step /\ at \in Nat /\ Len(config.steps) \in Nat /\ rollback \in Seq(Entry)
  BY StepType DEF IInvOutside, TypeOK, Config
<1>5. \/ r.ok /\ at' = at + 1 /\ phase' = "reversible" /\ had' = had
      \/ ~r.ok /\ at' = at /\ phase' = "rollback" /\ had' = (stack # <<>>)
  BY <1>1 DEF Advance, Abort
<1>6. /\ stack \in Seq(Entry)
      /\ DOMAIN rollback = 1..Len(rollback) /\ DOMAIN stack = 1..(Len(rollback) + 1)
      /\ Len(rollback) \in Nat
      /\ \A i \in DOMAIN rollback : stack[i] = rollback[i]
      /\ stack[Len(rollback) + 1] = e
  BY <1>4
<1>7. \A c : CoveredBy(stack, c) <=> CoveredBy(rollback, c) \/ c \in e.cells
  BY <1>6 DEF CoveredBy
<1>8. TypeOK'
  <2>1. had' \in BOOLEAN
    BY <1>5 DEF IInvOutside, TypeOK
  <2> QED
    BY <1>2, <1>3, <1>4, <1>5, <1>6, <2>1 DEF IInvOutside, TypeOK, Phases
<1>9. Control'
  BY <1>2, <1>5 DEF IInvOutside, Control
<1>10. InventoryIsOriginal(O)'
  <2>1. ~inventoried => \A c \in Cell : c.part \in FromInventory => ~CoveredBy(stack, c)
    BY <1>7 DEF IInvOutside, InventoryIsOriginal
  <2> QED
    BY <1>2, <2>1 DEF IInvOutside, InventoryIsOriginal
<1>11. EnabledStepsCovered'
  <2>1. CASE r.ok
    <3> SUFFICES ASSUME NEW k \in DOMAIN config.steps, k < at + 1,
                        config.steps[k].op = "admin", config.steps[k].to = "on"
                 PROVE  inventoried /\ \/ seen[Admin(config.steps[k].on)] = "on"
                                       \/ CoveredBy(stack, Admin(config.steps[k].on))
      BY <1>2, <1>5, <2>1 DEF EnabledStepsCovered, CoveredBy
    <3>1. k \in Nat
      BY DEF IInvOutside, TypeOK, Config
    <3>2. CASE k < at
      BY <1>7, <3>2 DEF IInvOutside, EnabledStepsCovered
    <3>3. CASE k = at
      <4>1. Admin(Step1.on) \in e.cells /\ config.steps[k] = Step1
        BY <3>3 DEF Step1
      <4>2. inventoried
        BY <4>1 DEF Admin, FromInventory
      <4> QED
        BY <1>7, <4>1, <4>2
    <3> QED
      BY <1>4, <3>1, <3>2, <3>3
  <2>2. CASE ~r.ok
    BY <1>5, <2>2 DEF EnabledStepsCovered
  <2> QED
    BY <2>1, <2>2
<1>12. (\A i \in DOMAIN rollback : RestartsToOn(rollback[i]))'
  <2>1. \A i \in DOMAIN stack : RestartsToOn(stack[i])
    BY <1>6 DEF IInvOutside
  <2> QED
    BY <1>2, <2>1 DEF RestartsToOn, RestartsOnUndo
<1>13. RecordedOutside(O)'
  <2> SUFFICES ASSUME NEW c \in Cell \ O, ~Unrecorded(c)'
               PROVE  Recoverable(os', orig, stack, c)
    BY <1>2 DEF RecordedOutside
  <2>1. ~Lost(c) /\ ~Unrecorded(c)
    BY AttemptPasses DEF Lost, IInvOutside
  <2>2. Recoverable(os, orig, rollback, c)
    BY <2>1, ReversibleRecoverable
  <2>3. c \notin e.cells => os'[c] = os[c]
    BY <1>1
  <2> QED
    BY <1>4, <2>1, <2>2, <2>3, PushRecoverable
<1>14. EnableFirst(config.steps)'
  BY <1>2 DEF IInvOutside
<1>15. MixedWerePassed'
  <2>1. \A c \in Cell : c.part \in TwoSided /\ CoveredBy(stack, c) => Passed(c)'
    BY <1>7, AttemptPasses DEF IInvOutside, MixedWerePassed
  <2> QED
    BY <1>2, <2>1 DEF MixedWerePassed, CoveredBy
<1> QED
  BY <1>8, <1>9, <1>10, <1>11, <1>12, <1>13, <1>14, <1>15 DEF IInvOutside
-----------------------------------------------------------------------------
(* The reversible steps, one by one.                                       *)

\* A query that fails before anything is written keeps the invariant.
LEMMA RefusedKeeps ==
  ASSUME NEW O, IInvOutside(O), phase = "reversible", at <= Len(config.steps), Refused
  PROVE  IInvOutside(O)'
<1>1. Failed(os) \in Result /\ Failed(os).os = os /\ ~Failed(os).ok
  BY DEF Failed, Result, IInvOutside, TypeOK
<1> QED
  BY <1>1, AttemptKeep DEF Refused

\* So does a step with nothing to do; an adapter it leaves on must be on.
LEMMA SkipKeeps ==
  ASSUME NEW O, IInvOutside(O), phase = "reversible", at <= Len(config.steps), Skip,
         (Step1.op = "admin" /\ Step1.to = "on") => inventoried /\ seen[Admin(Step1.on)] = "on"
  PROVE  IInvOutside(O)'
<1>1. Ok(os) \in Result /\ Ok(os).os = os
  BY DEF Ok, Result, IInvOutside, TypeOK
<1> QED
  BY <1>1, AttemptKeep DEF Skip

\* The entry of a step is an entry, and it saves what it covers first.
LEMMA EntryOfStep ==
  ASSUME NEW O, IInvOutside(O), phase = "reversible", at <= Len(config.steps)
  PROVE  /\ EntryFor(Step1, CellsOf(Step1), os) \in Entry
         /\ EntryFor(Step1, CellsOf(Step1), os).cells = CellsOf(Step1)
         /\ EntryFor(Step1, CellsOf(Step1), os).saved = os
         /\ \A c \in Cell \ O : ~CoveredBy(rollback, c) => Same(os, orig, c) \/ Lost(c)
         /\ \A c \in CellsOf(Step1) : c.part \in PartsOf[Step1.op] /\ c.on = Step1.on
<1>1. Step1 \in Step
  BY StepType DEF IInvOutside
<1>2. CellsOf(Step1) \subseteq Cell
  BY <1>1, CellsOfType
<1> QED
  BY <1>1, <1>2, ReversibleRecoverable DEF EntryFor, Entry, Step, IInvOutside, TypeOK, CellsOf, Lost

\* Restarting is only asked of entries that cover the state of an adapter.
LEMMA NoRestart ==
  ASSUME NEW s \in Step, NEW m, s.op # "admin"
  PROVE  RestartsToOn(EntryFor(s, CellsOf(s), m))
<1>1. CASE s.op = "mac"
  <2>1. PartsOf["mac"] = {"mac"}
    BY DEF PartsOf
  <2>2. \A c \in CellsOf(s) : c.part = "mac"
    BY <1>1, <2>1 DEF CellsOf
  <2> QED
    BY <2>2 DEF RestartsToOn, RestartsOnUndo, EntryFor
<1>2. CASE s.op # "mac"
  BY <1>2 DEF RestartsToOn, RestartsOnUndo, EntryFor
<1> QED
  BY <1>1, <1>2

\* Only adapter steps, which wait for the inventory, touch what it reads.
LEMMA OutsideInventory ==
  ASSUME NEW s \in Step, s.op \notin {"admin", "ipv4"}
  PROVE  \A c \in CellsOf(s) : c.part \notin FromInventory
<1>1. \A op \in Ops \ {"admin", "ipv4"} : PartsOf[op] \cap FromInventory = {}
  BY DEF Ops, PartsOf, FromInventory
<1> QED
  BY <1>1 DEF CellsOf, Step

\* A step that registers its entry after the call keeps the invariant.
LEMMA RecordAfterKeeps ==
  ASSUME NEW O, IInvOutside(O), phase = "reversible", at <= Len(config.steps),
         RecordAfter(Step1), Step1.op # "mac",
         ~inventoried => Step1.op \notin {"admin", "ipv4"}
  PROVE  IInvOutside(O)'
<1> DEFINE e == EntryFor(Step1, CellsOf(Step1), os)
           m == Write(os, CellsOf(Step1), Step1.to)
<1>1. CASE Refused
  BY <1>1, RefusedKeeps
<1>2. CASE Attempt({Ok(m)}, Append(rollback, e))
  <2>1. Step1 \in Step
    BY StepType DEF IInvOutside
  <2>2. m \in Machine /\ \A c \in Cell : c \notin CellsOf(Step1) => m[c] = os[c]
    BY <2>1, WriteFacts DEF Step, IInvOutside, TypeOK
  <2>3. Ok(m) \in Result /\ Ok(m).os = m
    BY <2>2 DEF Ok, Result
  <2>4. RestartsToOn(e)
    BY DEF RestartsToOn, RestartsOnUndo, EntryFor
  <2>5. ~inventoried => \A c \in e.cells : c.part \notin FromInventory
    BY <2>1, OutsideInventory, EntryOfStep
  <2>6. Step1.op = "admin" => Admin(Step1.on) \in e.cells
    <3>1. PartsOf["admin"] = {"admin"}
      BY DEF PartsOf
    <3> QED
      BY <3>1 DEF Admin, EntryFor, CellsOf
  <2> QED
    BY <1>2, <2>2, <2>3, <2>4, <2>5, <2>6, EntryOfStep, AttemptPush
<1> QED
  BY <1>1, <1>2 DEF RecordAfter

\* A step that registers its entry before the call keeps the invariant.
LEMMA RecordBeforeKeeps ==
  ASSUME NEW O, IInvOutside(O), phase = "reversible", at <= Len(config.steps), NEW R,
         NEW saved \in Machine,
         RecordBefore(Step1, R, saved),
         Step1.op \notin {"mac", "admin"},
         ~inventoried => Step1.op # "ipv4",
         \A r \in R : r \in Result /\ \A c \in Cell : c \notin CellsOf(Step1) => r.os[c] = os[c],
         \A c \in CellsOf(Step1) \ O :
           ~CoveredBy(rollback, c) => Same(saved, orig, c) \/ Lost(c)
  PROVE  IInvOutside(O)'
<1> DEFINE e == EntryFor(Step1, CellsOf(Step1), saved)
<1>1. Step1 \in Step
  BY StepType DEF IInvOutside
<1>2. e \in Entry /\ e.cells = CellsOf(Step1) /\ e.saved = saved
  BY <1>1, CellsOfType DEF EntryFor, Entry, Step
<1>3. RestartsToOn(e)
  BY <1>1, NoRestart
<1>4. ~inventoried => \A c \in e.cells : c.part \notin FromInventory
  BY <1>1, <1>2, OutsideInventory
<1> QED
  BY <1>2, <1>3, <1>4, AttemptPush DEF RecordBefore
\* A call that writes several cells of a step, or some of them, writes no others.
LEMMA PartlyFacts ==
  ASSUME os \in Machine, NEW C, NEW v \in Values, NEW r \in Partly(C, v)
  PROVE  r \in Result /\ \A c \in Cell : c \notin C => r.os[c] = os[c]
<1>1. r = Ok(Write(os, C, v)) \/ \E D \in SUBSET C : r = Failed(Write(os, D, v))
  BY DEF Partly
<1>2. CASE r = Ok(Write(os, C, v))
  BY <1>2, WriteFacts DEF Ok, Result
<1>3. CASE \E D \in SUBSET C : r = Failed(Write(os, D, v))
  <2>1. PICK D \in SUBSET C : r = Failed(Write(os, D, v))
    BY <1>3
  <2>2. /\ Write(os, D, v) \in Machine
        /\ \A c \in Cell : c \notin D => Write(os, D, v)[c] = os[c]
    BY WriteFacts
  <2>3. r.os = Write(os, D, v) /\ r \in Result
    BY <2>1, <2>2 DEF Failed, Result
  <2> QED
    BY <2>2, <2>3
<1> QED
  BY <1>1, <1>2, <1>3

\* A name that is set keeps the invariant.
LEMMA SetIdentityKeeps == ASSUME NEW O, IInvOutside(O), SetIdentity PROVE IInvOutside(O)'
<1>1. PICK op \in {"computer_name", "workgroup", "dns_suffix"} :
         /\ phase = "reversible" /\ at <= Len(config.steps) /\ Step1.op = op
         /\ IF Holds(Step1) THEN Refused \/ Skip ELSE RecordAfter(Step1)
  BY DEF SetIdentity, Turn
<1> QED
  BY <1>1, RefusedKeeps, SkipKeeps, RecordAfterKeeps

\* Taking the inventory does: no entry covers yet what it reads.
LEMMA TakeInventoryKeeps == ASSUME NEW O, IInvOutside(O), TakeInventory PROVE IInvOutside(O)'
<1>1. /\ phase = "reversible" /\ at <= Len(config.steps) /\ ~inventoried
      /\ UNCHANGED <<config, orig, os, at, drv, rollback, irreversible, errors,
                     installed, outcome>>
  BY DEF TakeInventory, AdapterTurn, Turn
<1>2. \/ inventoried' = TRUE /\ seen' = os /\ phase' = phase /\ had' = had
      \/ phase' = "rollback" /\ had' = (rollback # <<>>) /\ inventoried' = inventoried /\ seen' = seen
  BY DEF TakeInventory
<1>3. TypeOK'
  <2>1. had' \in BOOLEAN /\ inventoried' \in BOOLEAN
    BY <1>2 DEF IInvOutside, TypeOK
  <2> QED
    BY <1>1, <1>2, <2>1 DEF IInvOutside, TypeOK, Phases
<1>4. Control'
  BY <1>1, <1>2 DEF IInvOutside, Control
<1>5. \A c \in Cell \ O : c.part \in FromInventory => os[c] = orig[c]
  <2>1. \A c \in Cell \ O : c.part \in FromInventory => Same(os, orig, c)
    BY <1>1, AllAccounted, ReversibleRecoverable DEF IInvOutside, InventoryIsOriginal, FromInventory
  <2> QED
    BY <2>1 DEF Same, FromInventory
<1>6. InventoryIsOriginal(O)'
  BY <1>1, <1>2, <1>5 DEF IInvOutside, InventoryIsOriginal, CoveredBy
<1>7. EnabledStepsCovered'
  <2>1. CASE phase' = "rollback"
    BY <2>1 DEF EnabledStepsCovered
  <2>2. CASE inventoried' = TRUE /\ seen' = os /\ phase' = phase
    <3>1. \A k \in DOMAIN config.steps :
            ~(k < at /\ config.steps[k].op = "admin" /\ config.steps[k].to = "on")
      BY <1>1 DEF IInvOutside, EnabledStepsCovered
    <3> QED
      BY <1>1, <3>1 DEF EnabledStepsCovered
  <2> QED
    BY <1>2, <2>1, <2>2
<1>8. (\A i \in DOMAIN rollback : RestartsToOn(rollback[i]))'
  BY <1>1 DEF IInvOutside, RestartsToOn, RestartsOnUndo
<1>9. RecordedOutside(O)'
  <2>1. \A c \in Cell : Unrecorded(c) => Unrecorded(c)'
    BY <1>1, <1>2 DEF Unrecorded, RestartReached, Passed, Step1, IInvOutside, TypeOK
  <2> QED
    BY <1>1, <2>1, SameStackKeeps
<1>10. EnableFirst(config.steps)'
  BY <1>1 DEF IInvOutside
<1>11. MixedWerePassed'
  BY <1>1, <1>2 DEF IInvOutside, MixedWerePassed, Passed, CoveredBy
<1> QED
  BY <1>3, <1>4, <1>6, <1>7, <1>8, <1>9, <1>10, <1>11 DEF IInvOutside

\* Enabling or disabling an adapter does.
LEMMA SetAdapterEnabledKeeps == ASSUME NEW O, IInvOutside(O), SetAdapterEnabled PROVE IInvOutside(O)'
<1>1. /\ phase = "reversible" /\ at <= Len(config.steps) /\ Step1.op = "admin" /\ inventoried
      /\ IF seen[Admin(Step1.on)] = Step1.to THEN Refused \/ Skip ELSE RecordAfter(Step1)
  BY DEF SetAdapterEnabled, Turn
<1> QED
  BY <1>1, RefusedKeeps, SkipKeeps, RecordAfterKeeps

\* Writing a MAC address does: the entry of an adapter that is restarted says it
\* was on, which is the original state unless an earlier entry covers it.
LEMMA SetMacKeeps == ASSUME NEW O, IInvOutside(O), SetMac PROVE IInvOutside(O)'
<1> DEFINE a == Step1.on
           C == CellsOf(Step1)
           wrote == Write(os, C, Step1.to)
           e == EntryFor(Step1, C \cup {Admin(a)}, Write(os, {Admin(a)}, "on"))
<1>1. phase = "reversible" /\ at <= Len(config.steps) /\ Step1.op = "mac" /\ inventoried
  BY DEF SetMac, Turn
<1>2. Step1 \in Step /\ a \in Targets /\ Step1.to \in Values /\ at \in DOMAIN config.steps
  BY <1>1, StepType DEF IInvOutside, Step
<1>3. C = {[part |-> "mac", on |-> a]} /\ C \subseteq Cell
  <2>1. PartsOf["mac"] = {"mac"}
    BY DEF PartsOf
  <2>2. C = [part : {"mac"}, on : {a}]
    BY <1>1, <2>1 DEF CellsOf
  <2>3. C \subseteq Cell
    BY <1>2, CellsOfType
  <2>4. [part : {"mac"}, on : {a}] = {[part |-> "mac", on |-> a]}
    <3>1. \A x \in [part : {"mac"}, on : {a}] : x = [part |-> "mac", on |-> a]
      OBVIOUS
    <3>2. [part |-> "mac", on |-> a] \in [part : {"mac"}, on : {a}]
      OBVIOUS
    <3> QED
      BY <3>1, <3>2, Zenon
  <2> HIDE DEF C
  <2> QED
    BY <2>2, <2>3, <2>4
<1>4. wrote \in Machine /\ \A c \in Cell : c \notin C => wrote[c] = os[c]
  BY <1>2, WriteFacts DEF IInvOutside, TypeOK
<1>5. Admin(a) \in Cell /\ Admin(a).part = "admin"
  BY <1>2, AdminType DEF Admin
<1>6. CASE Refused
  BY <1>1, <1>6, RefusedKeeps
<1>7. CASE /\ EnabledDuringApply(a)
           /\ Attempt(Restart(wrote, a), Append(rollback, e))
  <2>1. /\ Write(os, {Admin(a)}, "on") \in Machine
        /\ \A c \in Cell : c # Admin(a) => Write(os, {Admin(a)}, "on")[c] = os[c]
        /\ Write(os, {Admin(a)}, "on")[Admin(a)] = "on"
    BY <1>5, WriteFacts DEF IInvOutside, TypeOK, Values
  <2>2. /\ e \in Entry /\ e.cells = {[part |-> "mac", on |-> a], Admin(a)}
        /\ e.saved = Write(os, {Admin(a)}, "on")
    BY <1>2, <1>3, <1>5, <2>1 DEF EntryFor, Entry, Step
  <2>3. RestartsToOn(e)
    BY <1>2, <2>1, <2>2 DEF RestartsToOn
  <2>4. ASSUME NEW r \in Restart(wrote, a)
        PROVE  r \in Result /\ \A c \in Cell : c \notin e.cells => r.os[c] = os[c]
    <3>1. r \in Result /\ \A c \in Cell : c # Admin(a) => r.os[c] = wrote[c]
      BY <1>2, <1>4, RestartFacts
    <3>2. Admin(a) \in e.cells /\ C \subseteq e.cells
      BY <1>3, <2>2
    <3> QED
      BY <1>4, <3>1, <3>2
  <2>5. (Admin(a) \notin O /\ ~CoveredBy(rollback, Admin(a))) => orig[Admin(a)] = "on"
    <3>1. CASE seen[Admin(a)] = "on"
      BY <1>5, <3>1 DEF IInvOutside, InventoryIsOriginal, FromInventory
    <3>2. CASE \E k \in DOMAIN config.steps :
                 config.steps[k] = [op |-> "admin", on |-> a, to |-> "on"]
      <4>1. PICK k \in DOMAIN config.steps :
              config.steps[k] = [op |-> "admin", on |-> a, to |-> "on"]
        BY <3>2
      <4>2. k < at
        BY <1>1, <1>2, <4>1 DEF IInvOutside, EnableFirst, Step1
      <4>3. seen[Admin(a)] = "on" \/ CoveredBy(rollback, Admin(a))
        BY <1>1, <4>1, <4>2 DEF IInvOutside, EnabledStepsCovered
      <4> QED
        BY <1>5, <4>3 DEF IInvOutside, InventoryIsOriginal, FromInventory
    <3> QED
      BY <1>7, <3>1, <3>2 DEF EnabledDuringApply
  <2>6. \A c \in Cell \ O : (c \in e.cells /\ ~CoveredBy(rollback, c)) => Same(e.saved, orig, c)
    <3>1. TAKE c \in Cell \ O
    <3>2. HAVE c \in e.cells /\ ~CoveredBy(rollback, c)
    <3>3. CASE c = Admin(a)
      BY <1>5, <2>1, <2>2, <2>5, <3>2, <3>3 DEF Same
    <3>4. CASE c # Admin(a)
      <4>1. Same(os, orig, c)
        BY <1>1, <1>3, <2>2, <3>2, <3>4, AllAccounted, ReversibleRecoverable
      <4> QED
        BY <2>1, <2>2, <3>4, <4>1 DEF Same, Running
    <3> QED
      BY <3>3, <3>4
  <2>7. \A c \in e.cells : c.part \notin TwoSided
    BY <1>5, <2>2 DEF TwoSided
  <2> QED
    BY <1>1, <1>7, <2>2, <2>3, <2>4, <2>6, <2>7, AttemptPush
<1>8. CASE Attempt({Ok(wrote)}, Append(rollback, EntryFor(Step1, C, os)))
  <2>1. Ok(wrote) \in Result /\ Ok(wrote).os = wrote
    BY <1>4 DEF Ok, Result
  <2>2. RestartsToOn(EntryFor(Step1, C, os))
    BY <1>1, <1>2, NoRestart
  <2> QED
    BY <1>1, <1>4, <1>8, <2>1, <2>2, EntryOfStep, AttemptPush
<1> QED
  BY <1>6, <1>7, <1>8 DEF SetMac

\* Setting IPv4 does: what the inventory showed is the original machine.
LEMMA SetIpv4Keeps == ASSUME NEW O, IInvOutside(O), SetIpv4 PROVE IInvOutside(O)'
<1>1. phase = "reversible" /\ at <= Len(config.steps) /\ Step1.op = "ipv4" /\ inventoried
  BY DEF SetIpv4, Turn
<1>2. \/ Refused \/ Skip
      \/ RecordBefore(Step1, Partly(CellsOf(Step1), Step1.to), seen)
  BY DEF SetIpv4
<1>3. CASE RecordBefore(Step1, Partly(CellsOf(Step1), Step1.to), seen)
  <2>1. Step1 \in Step /\ Step1.to \in Values
    BY <1>1, StepType DEF IInvOutside, Step
  <2>2. \A r \in Partly(CellsOf(Step1), Step1.to) :
           r \in Result /\ \A c \in Cell : c \notin CellsOf(Step1) => r.os[c] = os[c]
    BY <2>1, PartlyFacts DEF IInvOutside, TypeOK
  <2>3. \A c \in CellsOf(Step1) \ O : Same(seen, orig, c)
    <3>1. \A c \in CellsOf(Step1) : c \in Cell /\ c.part \in FromInventory
      BY <1>1, <2>1, CellsOfType DEF CellsOf, PartsOf, FromInventory
    <3> QED
      BY <3>1 DEF IInvOutside, InventoryIsOriginal, Same, Running
  <2>4. seen \in Machine
    BY DEF IInvOutside, TypeOK
  <2> QED
    BY <1>1, <1>3, <2>2, <2>3, <2>4, RecordBeforeKeeps
<1> QED
  BY <1>1, <1>2, <1>3, RefusedKeeps, SkipKeeps

\* Writing a Wi-Fi profile does.
LEMMA SetWifiProfileKeeps == ASSUME NEW O, IInvOutside(O), SetWifiProfile PROVE IInvOutside(O)'
<1> DEFINE m == Write(os, CellsOf(Step1), Step1.to)
<1>1. phase = "reversible" /\ at <= Len(config.steps) /\ Step1.op = "profile"
  BY DEF SetWifiProfile, Turn
<1>2. CASE RecordBefore(Step1, {Ok(m), Failed(os)}, os)
  <2>1. os \in Machine /\ Step1.to \in Values
    BY <1>1, StepType DEF IInvOutside, TypeOK, Step
  <2>2. m \in Machine /\ \A c \in Cell : c \notin CellsOf(Step1) => m[c] = os[c]
    BY <2>1, WriteFacts
  <2>3. /\ Ok(m) \in Result /\ Ok(m).os = m
        /\ Failed(os) \in Result /\ Failed(os).os = os
    BY <2>1, <2>2 DEF Ok, Failed, Result
  <2>4. \A c \in CellsOf(Step1) \ O : ~CoveredBy(rollback, c) => Same(os, orig, c) \/ Lost(c)
    BY <1>1, StepType, CellsOfType, ReversibleRecoverable DEF IInvOutside, Lost
  <2> QED
    BY <1>1, <1>2, <2>1, <2>2, <2>3, <2>4, RecordBeforeKeeps
<1> QED
  BY <1>1, <1>2, RefusedKeeps DEF SetWifiProfile

\* A scan does: it changes nothing.
LEMMA ScanWifiKeeps == ASSUME NEW O, IInvOutside(O), ScanWifi PROVE IInvOutside(O)'
<1>1. phase = "reversible" /\ at <= Len(config.steps) /\ Step1.op = "scan" /\ (Refused \/ Skip)
  BY DEF ScanWifi, Turn
<1> QED
  BY <1>1, RefusedKeeps, SkipKeeps

\* Connecting or disconnecting does, a late or unwanted connection included.
LEMMA SetLinkKeeps == ASSUME NEW O, IInvOutside(O), SetLink PROVE IInvOutside(O)'
<1> DEFINE C == CellsOf(Step1)
<1>1. phase = "reversible" /\ at <= Len(config.steps) /\ Step1.op = "link"
  BY DEF SetLink, Turn
<1>2. CASE RecordBefore(Step1, Relinked(C, Step1.to), os)
  <2>1. os \in Machine /\ Step1.to \in Values /\ "down" \in Values
    BY <1>1, StepType DEF IInvOutside, TypeOK, Step, Values
  <2>2. \A v \in Values : /\ Write(os, C, v) \in Machine
                          /\ \A c \in Cell : c \notin C => Write(os, C, v)[c] = os[c]
    BY <2>1, WriteFacts
  <2>3. ASSUME NEW r \in Relinked(C, Step1.to)
        PROVE  r \in Result /\ \A c \in Cell : c \notin C => r.os[c] = os[c]
    <3>1. \/ r = Ok(Write(os, C, Step1.to)) \/ r = Failed(os)
          \/ r = Failed(Write(os, C, "down")) \/ r = Failed(Write(os, C, Step1.to))
      BY DEF Relinked
    <3>2. CASE r = Failed(os)
      BY <2>1, <3>2 DEF Failed, Result
    <3>3. CASE r = Ok(Write(os, C, Step1.to))
      BY <2>1, <2>2, <3>3 DEF Ok, Result
    <3>4. CASE \E v \in Values : r = Failed(Write(os, C, v))
      BY <2>2, <3>4 DEF Failed, Result
    <3> QED
      BY <2>1, <3>1, <3>2, <3>3, <3>4
  <2>4. \A c \in C \ O : ~CoveredBy(rollback, c) => Same(os, orig, c) \/ Lost(c)
    BY <1>1, StepType, CellsOfType, ReversibleRecoverable DEF IInvOutside, Lost
  <2> QED
    BY <1>1, <1>2, <2>1, <2>3, <2>4, RecordBeforeKeeps
<1> QED
  BY <1>1, <1>2, RefusedKeeps DEF SetLink

\* Moving a service does: the Boolean it saves is the one Same compares.
LEMMA SetServiceKeeps == ASSUME NEW O, IInvOutside(O), SetService PROVE IInvOutside(O)'
<1> DEFINE C == CellsOf(Step1)
           saved == AsBoolean(os, C)
<1>1. phase = "reversible" /\ at <= Len(config.steps) /\ Step1.op = "service"
  BY DEF SetService, Turn
<1>2. \/ Refused \/ Skip
      \/ RecordBefore(Step1, ServiceMoved(C, Step1.to), saved)
  BY DEF SetService
<1>3. CASE RecordBefore(Step1, ServiceMoved(C, Step1.to), saved)
  <2>1. os \in Machine /\ Step1 \in Step /\ Step1.to \in Values
    BY <1>1, StepType DEF IInvOutside, TypeOK, Step
  <2>2. \A v \in Values : /\ Write(os, C, v) \in Machine
                          /\ \A c \in Cell : c \notin C => Write(os, C, v)[c] = os[c]
    BY <2>1, WriteFacts
  <2>3. ASSUME NEW r \in ServiceMoved(C, Step1.to)
        PROVE  r \in Result /\ \A c \in Cell : c \notin C => r.os[c] = os[c]
    <3>1. {"running", "stopped", "paused"} \subseteq Values
      BY DEF Values
    <3>2. \/ r = Ok(Write(os, C, Step1.to))
          \/ \E v \in Values : r = Failed(Write(os, C, v))
      BY <3>1 DEF ServiceMoved
    <3>3. CASE r = Ok(Write(os, C, Step1.to))
      BY <2>1, <2>2, <3>3 DEF Ok, Result
    <3>4. CASE \E v \in Values : r = Failed(Write(os, C, v))
      BY <2>2, <3>4 DEF Failed, Result
    <3> QED
      BY <3>2, <3>3, <3>4
  <2>4. saved \in Machine
    BY <2>1 DEF AsBoolean, Machine, Values
  <2>5. \A c \in C \ O : ~CoveredBy(rollback, c) => Same(saved, orig, c)
    <3>1. \A c \in C : c \in Cell /\ c.part = "service"
      BY <1>1, <2>1, CellsOfType DEF CellsOf, PartsOf
    <3>2. \A c \in C \ O : ~CoveredBy(rollback, c) => Same(os, orig, c)
      BY <1>1, <3>1, AllAccounted, ReversibleRecoverable
    <3>3. \A c \in C : Running(saved, c) = Running(os, c)
      BY <3>1 DEF AsBoolean, Running
    <3> QED
      BY <3>1, <3>2, <3>3 DEF Same
  <2> QED
    BY <1>1, <1>3, <2>3, <2>4, <2>5, RecordBeforeKeeps
<1> QED
  BY <1>1, <1>2, <1>3, RefusedKeeps, SkipKeeps

\* Creating an account does.
LEMMA AddAccountKeeps == ASSUME NEW O, IInvOutside(O), AddAccount PROVE IInvOutside(O)'
<1>1. /\ phase = "reversible" /\ at <= Len(config.steps) /\ Step1.op = "account"
      /\ RecordAfter(Step1) \/ Refused \/ Skip
  BY DEF AddAccount, Turn
<1> QED
  BY <1>1, RefusedKeeps, SkipKeeps, RecordAfterKeeps

\* Creating or changing a share does: a share put back at once and not fully is
\* one of the cells the invariant leaves out.
LEMMA ApplyShareKeeps == ASSUME NEW O, IInvOutside(O), ApplyShare PROVE IInvOutside(O)'
<1> DEFINE info == [part |-> "share", on |-> Step1.on]
           m == Write(os, {info}, Step1.to)
<1>1. phase = "reversible" /\ at <= Len(config.steps) /\ Step1.op = "share"
  BY DEF ApplyShare, Turn
<1>2. CASE RecordAfter(Step1)
  BY <1>1, <1>2, RecordAfterKeeps
<1>3. CASE Attempt({Failed(os), Failed(m)}, rollback)
  <2>1. Step1 \in Step /\ Step1.to \in Values /\ os \in Machine
    BY <1>1, StepType DEF IInvOutside, TypeOK, Step
  <2>2. m \in Machine /\ \A c \in Cell : c # info => m[c] = os[c]
    BY <2>1, WriteFacts
  <2>3. info \in CellsOf(Step1)
    BY <1>1 DEF CellsOf, PartsOf
  <2>4. /\ Failed(os) \in Result /\ Failed(os).os = os /\ ~Failed(os).ok
        /\ Failed(m) \in Result /\ Failed(m).os = m /\ ~Failed(m).ok
    BY <2>1, <2>2 DEF Failed, Result
  <2> QED
    BY <1>1, <1>3, <2>2, <2>3, <2>4, AttemptKeep
<1> QED
  BY <1>2, <1>3 DEF ApplyShare

\* Mapping a drive does.
LEMMA MapDriveKeeps == ASSUME NEW O, IInvOutside(O), MapDrive PROVE IInvOutside(O)'
<1>1. /\ phase = "reversible" /\ at <= Len(config.steps) /\ Step1.op = "mapping"
      /\ RecordAfter(Step1) \/ Refused \/ Skip
  BY DEF MapDrive, Turn
<1> QED
  BY <1>1, RefusedKeeps, SkipKeeps, RecordAfterKeeps

\* Connecting without a drive letter does: the entry takes the connection away, so one
\* that existed before is left out of the account from here on.
LEMMA ConnectShareKeeps == ASSUME NEW O, IInvOutside(O), ConnectShare PROVE IInvOutside(O)'
<1> DEFINE C == CellsOf(Step1)
           m == Write(os, C, Step1.to)
           gone == Write(os, C, "absent")
           e == EntryFor(Step1, C, gone)
<1>1. /\ phase = "reversible" /\ at <= Len(config.steps) /\ Step1.op = "mapping"
      /\ Step1.on \notin Drives
  BY DEF ConnectShare, Turn
<1>2. Refused \/ Attempt({Ok(m)}, Append(rollback, e))
  BY DEF ConnectShare
<1>3. CASE Attempt({Ok(m)}, Append(rollback, e))
  <2>1. Step1 \in Step /\ Step1.to \in Values /\ "absent" \in Values /\ os \in Machine
    BY <1>1, StepType DEF IInvOutside, TypeOK, Step, Values
  <2>2. /\ m \in Machine /\ \A c \in Cell : c \notin C => m[c] = os[c]
        /\ gone \in Machine /\ \A c \in Cell : c \in C => gone[c] = "absent"
    BY <2>1, WriteFacts
  <2>3. Ok(m) \in Result /\ Ok(m).os = m
    BY <2>2 DEF Ok, Result
  <2>4. e \in Entry /\ e.cells = C /\ e.saved = gone
    BY <2>1, <2>2, CellsOfType DEF EntryFor, Entry, Step
  <2>5. RestartsToOn(e)
    BY <1>1, <2>1, NoRestart
  <2>6. \A c \in C : c \in Cell /\ c.part = "connection" /\ c.on = Step1.on
    BY <1>1, <2>1, CellsOfType DEF CellsOf, PartsOf
  <2>7. \A c \in C : c.part \notin FromInventory
    BY <2>6 DEF FromInventory
  <2>8. \A c \in C : Same(gone, orig, c) \/ Lost(c)
    BY <1>1, <2>2, <2>6 DEF Same, Lost
  <2> HIDE DEF e, m, gone, C
  <2>9. \A c \in e.cells : c.part \in TwoSided => c \in CellsOf(Step1)
    BY <2>4 DEF C
  <2> QED
    BY <1>1, <1>3, <2>2, <2>3, <2>4, <2>5, <2>7, <2>8, <2>9, AttemptPush
<1> QED
  BY <1>1, <1>2, <1>3, RefusedKeeps

\* Setting the firewall profiles does, wherever the loop over them ends.
LEMMA SetFirewallKeeps == ASSUME NEW O, IInvOutside(O), SetFirewall PROVE IInvOutside(O)'
<1>1. phase = "reversible" /\ at <= Len(config.steps) /\ Step1.op = "firewall"
  BY DEF SetFirewall, Turn
<1>2. \/ Refused \/ Skip
      \/ RecordBefore(Step1, Partly(CellsOf(Step1), Step1.to), os)
  BY DEF SetFirewall
<1>3. CASE RecordBefore(Step1, Partly(CellsOf(Step1), Step1.to), os)
  <2>1. os \in Machine /\ Step1.to \in Values
    BY <1>1, StepType DEF IInvOutside, TypeOK, Step
  <2>2. \A r \in Partly(CellsOf(Step1), Step1.to) :
           r \in Result /\ \A c \in Cell : c \notin CellsOf(Step1) => r.os[c] = os[c]
    BY <2>1, PartlyFacts
  <2>3. \A c \in CellsOf(Step1) \ O : ~CoveredBy(rollback, c) => Same(os, orig, c) \/ Lost(c)
    BY <1>1, StepType, CellsOfType, ReversibleRecoverable DEF IInvOutside, Lost
  <2> QED
    BY <1>1, <1>3, <2>1, <2>2, <2>3, RecordBeforeKeeps
<1> QED
  BY <1>1, <1>2, <1>3, RefusedKeeps, SkipKeeps

\* Every reversible step keeps the invariant.
LEMMA ReversibleKeeps == ASSUME NEW O, IInvOutside(O), Reversible PROVE IInvOutside(O)'
  BY SetIdentityKeeps, TakeInventoryKeeps, SetAdapterEnabledKeeps, SetMacKeeps,
     SetIpv4Keeps, SetWifiProfileKeeps, ScanWifiKeeps, SetLinkKeeps, SetServiceKeeps,
     AddAccountKeeps, ApplyShareKeeps, MapDriveKeeps, ConnectShareKeeps, SetFirewallKeeps
     DEF Reversible

-----------------------------------------------------------------------------
(* The other phases.                                                       *)

\* What a driver operation that returns does to the control variables.
LEMMA DriverDoneFacts ==
  ASSUME NEW O, IInvOutside(O), phase = "drivers", drv <= Len(config.drivers), NEW ok, DriverDone(ok),
         os' \in Machine, installed' \in BOOLEAN, installed' => irreversible,
         \A c \in Cell \ O : ~Unrecorded(c)' => os'[c] = os[c]
  PROVE  IInvOutside(O)'
<1>1. /\ UNCHANGED <<config, orig, inventoried, seen, at, rollback, irreversible,
                     errors, outcome>>
      /\ \/ drv' = drv + 1 /\ phase' = phase /\ had' = had
         \/ drv' = drv /\ phase' = "rollback" /\ had' = (rollback # <<>>)
  BY DEF DriverDone
<1>2. drv \in Nat /\ Len(config.drivers) \in Nat /\ Len(config.steps) \in Nat
  BY DEF IInvOutside, TypeOK, Config
<1>3. TypeOK'
  <2>1. had' \in BOOLEAN
    BY <1>1 DEF IInvOutside, TypeOK
  <2> QED
    BY <1>1, <1>2, <2>1 DEF IInvOutside, TypeOK, Phases
<1>4. Control'
  BY <1>1 DEF IInvOutside, Control
<1>5. EnabledStepsCovered'
  BY <1>1 DEF EnabledStepsCovered
<1>6. InventoryIsOriginal(O)' /\ (\A i \in DOMAIN rollback : RestartsToOn(rollback[i]))'
  BY <1>1 DEF IInvOutside, InventoryIsOriginal, RestartsToOn, RestartsOnUndo, CoveredBy
<1>7. RecordedOutside(O)'
  <2>1. at > Len(config.steps)
    BY DEF IInvOutside, Control
  <2>2. \A c \in Cell : Unrecorded(c) => Unrecorded(c)'
    <3>1. \A k \in DOMAIN config.drivers : RestartReached(k) => RestartReached(k)'
      BY <1>1, <1>2 DEF RestartReached, IInvOutside, TypeOK, Config
    <3> QED
      BY <1>1, <2>1, <3>1 DEF Unrecorded, Passed, IInvOutside, TypeOK
  <2> QED
    BY <1>1, <2>2, SameStackKeeps
<1>8. MixedWerePassed'
  BY <1>1 DEF IInvOutside, MixedWerePassed, Passed, CoveredBy
<1> QED
  BY <1>1, <1>3, <1>4, <1>5, <1>6, <1>7, <1>8 DEF IInvOutside

\* A step that moves to another phase and leaves the machine, the stack and the
\* lists alone keeps the invariant, if the control variables stay consistent.
LEMMA MoveKeeps ==
  ASSUME NEW O, IInvOutside(O), UNCHANGED <<config, orig, os, inventoried, seen, at, drv, rollback,
                           errors, installed>>,
         TypeOK', Control',
         phase = "before" \/ phase' \notin {"before", "reversible"}
  PROVE  IInvOutside(O)'
<1>1. EnabledStepsCovered'
  <2>1. CASE phase' = "reversible"
    <3>1. at = 1
      BY <2>1 DEF IInvOutside, Control
    <3>2. \A k \in DOMAIN config.steps : ~(k < 1)
      BY DEF IInvOutside, TypeOK, Config
    <3> QED
      BY <3>1, <3>2 DEF EnabledStepsCovered
  <2>2. CASE phase' # "reversible"
    BY <2>2 DEF EnabledStepsCovered
  <2> QED
    BY <2>1, <2>2
<1>2. InventoryIsOriginal(O)' /\ (\A i \in DOMAIN rollback : RestartsToOn(rollback[i]))'
  BY DEF IInvOutside, InventoryIsOriginal, RestartsToOn, RestartsOnUndo, CoveredBy
<1>3. \A c \in Cell : Unrecorded(c) => Unrecorded(c)'
  BY DEF Unrecorded, RestartReached, Passed, Step1
<1>4. RecordedOutside(O)'
  BY <1>3, SameStackKeeps
<1>5. MixedWerePassed'
  BY DEF IInvOutside, MixedWerePassed, Passed, CoveredBy
<1> QED
  BY <1>1, <1>2, <1>4, <1>5 DEF IInvOutside

\* The hooks before the apply move on or end it.
LEMMA RunBeforeHooksKeeps == ASSUME NEW O, IInvOutside(O), RunBeforeHooks PROVE IInvOutside(O)'
<1>1. /\ phase = "before"
      /\ \/ phase' = "reversible" /\ outcome' = "none"
         \/ phase' = "done" /\ outcome' = "failed"
      /\ UNCHANGED <<config, orig, os, inventoried, seen, at, drv, rollback,
                     irreversible, had, errors, installed>>
  BY DEF RunBeforeHooks
<1>2. TypeOK'
  BY <1>1 DEF IInvOutside, TypeOK, Phases, Outcomes
<1>3. Control'
  BY <1>1 DEF IInvOutside, Control
<1> QED
  BY <1>1, <1>2, <1>3, MoveKeeps

\* After the last reversible step the flag irreversible is set.
LEMMA FinishReversibleKeeps == ASSUME NEW O, IInvOutside(O), FinishReversible PROVE IInvOutside(O)'
<1>1. /\ phase = "reversible" /\ at > Len(config.steps) /\ phase' = "drivers"
      /\ irreversible' = \E k \in DOMAIN config.drivers : config.drivers[k].op = "install"
      /\ UNCHANGED <<config, orig, os, inventoried, seen, at, drv, rollback, had,
                     errors, installed, outcome>>
  BY DEF FinishReversible
<1>2. TypeOK'
  <2>1. irreversible' \in BOOLEAN
    BY <1>1
  <2> QED
    BY <1>1, <2>1 DEF IInvOutside, TypeOK, Phases
<1>3. Control'
  BY <1>1 DEF IInvOutside, Control
<1> QED
  BY <1>1, <1>2, <1>3, MoveKeeps

\* Installing a package happens only after the flag was set.
LEMMA InstallDriverKeeps == ASSUME NEW O, IInvOutside(O), InstallDriver PROVE IInvOutside(O)'
<1>1. PICK ok \in BOOLEAN, done \in BOOLEAN :
         installed' = (installed \/ done) /\ DriverDone(ok)
  BY DEF InstallDriver
<1>2. /\ phase = "drivers" /\ drv <= Len(config.drivers)
      /\ config.drivers[drv].op = "install" /\ os' = os
  BY DEF InstallDriver, DriverTurn
<1>3. drv \in DOMAIN config.drivers
  BY <1>2 DEF IInvOutside, TypeOK, Config
<1>4. irreversible
  BY <1>2, <1>3 DEF IInvOutside, Control
<1>5. os' \in Machine /\ installed' \in BOOLEAN
  BY <1>1, <1>2 DEF IInvOutside, TypeOK
<1> QED
  BY <1>1, <1>2, <1>4, <1>5, DriverDoneFacts

\* Restarting an adapter changes only a cell the invariant leaves out.
LEMMA RestartAdapterKeeps == ASSUME NEW O, IInvOutside(O), RestartAdapter PROVE IInvOutside(O)'
<1>1. /\ phase = "drivers" /\ drv <= Len(config.drivers)
      /\ config.drivers[drv].op = "restart_adapter" /\ installed' = installed
  BY DEF RestartAdapter, DriverTurn
<1>2. PICK r \in Restart(os, config.drivers[drv].on) : os' = r.os /\ DriverDone(r.ok)
  BY DEF RestartAdapter
<1>3. config.drivers \in Seq(Driver) /\ drv \in DOMAIN config.drivers /\ drv \in Nat
  BY <1>1 DEF IInvOutside, TypeOK, Config
<1>4. config.drivers[drv].on \in Targets
  <2>1. config.drivers[drv] \in Driver
    BY <1>3
  <2> QED
    BY <2>1 DEF Driver
<1>5. PICK a \in Targets, k \in Nat : k = drv /\ a = config.drivers[k].on
  BY <1>3, <1>4
<1>6. r \in Result /\ \A c \in Cell : c # Admin(a) => r.os[c] = os[c]
  BY <1>2, <1>5, RestartFacts DEF IInvOutside, TypeOK
<1>7. at > Len(config.steps)
  BY <1>1 DEF IInvOutside, Control
<1>8. \A c \in Cell : c = Admin(a) => Unrecorded(c)'
  <2>1. config' = config /\ at' = at /\ drv' \in {drv, drv + 1}
    BY <1>2 DEF DriverDone
  <2>2. k \in DOMAIN config'.drivers /\ RestartReached(k)' /\ config'.drivers[k].on = a
    BY <1>1, <1>3, <1>5, <1>7, <2>1 DEF RestartReached
  <2> QED
    BY <2>2 DEF Unrecorded, Admin
<1>9. \A c \in Cell \ O : ~Unrecorded(c)' => os'[c] = os[c]
  BY <1>2, <1>6, <1>8
<1>10. os' \in Machine /\ installed' \in BOOLEAN /\ (installed' => irreversible)
  BY <1>1, <1>2, <1>6 DEF IInvOutside, TypeOK, Result, Control
<1> QED
  BY <1>1, <1>2, <1>9, <1>10, DriverDoneFacts

\* After the last driver operation the hooks run.
LEMMA FinishDriversKeeps == ASSUME NEW O, IInvOutside(O), FinishDrivers PROVE IInvOutside(O)'
<1>1. /\ phase = "drivers" /\ phase' = "after"
      /\ UNCHANGED <<config, orig, os, inventoried, seen, at, drv, rollback,
                     irreversible, had, errors, installed, outcome>>
  BY DEF FinishDrivers
<1>2. TypeOK' /\ Control'
  BY <1>1 DEF IInvOutside, TypeOK, Phases, Control
<1> QED
  BY <1>1, <1>2, MoveKeeps

\* The hooks after the apply end it or start the rollback.
LEMMA RunAfterHooksKeeps == ASSUME NEW O, IInvOutside(O), RunAfterHooks PROVE IInvOutside(O)'
<1>1. /\ phase = "after"
      /\ \/ phase' = "done" /\ outcome' = "succeeded" /\ had' = had
         \/ phase' = "rollback" /\ had' = (rollback # <<>>) /\ outcome' = outcome
      /\ UNCHANGED <<config, orig, os, inventoried, seen, at, drv, rollback,
                     irreversible, errors, installed>>
  BY DEF RunAfterHooks
<1>2. TypeOK'
  <2>1. had' \in BOOLEAN
    BY <1>1 DEF IInvOutside, TypeOK
  <2> QED
    BY <1>1, <2>1 DEF IInvOutside, TypeOK, Phases, Outcomes
<1>3. Control'
  BY <1>1 DEF IInvOutside, Control
<1> QED
  BY <1>1, <1>2, <1>3, MoveKeeps

\* Undoing the top entry keeps the invariant: when it worked, the entry is no
\* longer needed, and when it failed, the error is remembered.
LEMMA UndoLastKeeps == ASSUME NEW O, IInvOutside(O), UndoLast PROVE IInvOutside(O)'
<1> DEFINE rest == SubSeq(rollback, 1, Len(rollback) - 1)
<1>1. PICK r \in UndoResults(Top) : os' = r.os /\ errors' = (errors \/ ~r.ok)
  BY DEF UndoLast
<1>2. /\ phase = "rollback" /\ rollback # <<>> /\ rollback' = rest
      /\ UNCHANGED <<config, orig, inventoried, seen, phase, at, drv, irreversible,
                     had, installed, outcome>>
  BY DEF UndoLast
<1>3. /\ rollback \in Seq(Entry) /\ Len(rollback) \in Nat /\ Len(rollback) > 0
      /\ Top \in Entry /\ RestartsToOn(Top) /\ os \in Machine
  BY <1>2 DEF IInvOutside, TypeOK, Top
<1>4. /\ r \in Result
      /\ \A c \in Cell : c \notin Top.cells => r.os[c] = os[c]
      /\ \A c \in Cell : (r.ok /\ c \in Top.cells /\ c \notin HalfUndone(Top))
                         => r.os[c] = Top.saved[c]
  BY <1>1, <1>3, UndoFacts
<1>5. /\ rest \in Seq(Entry) /\ DOMAIN rest = 1..(Len(rollback) - 1)
      /\ DOMAIN rest \subseteq DOMAIN rollback
      /\ \A i \in DOMAIN rest : rest[i] = rollback[i]
  BY <1>3
<1>6. TypeOK'
  <2>1. errors' \in BOOLEAN /\ os' \in Machine
    BY <1>1, <1>4 DEF IInvOutside, TypeOK, Result
  <2> QED
    BY <1>2, <1>5, <2>1 DEF IInvOutside, TypeOK
<1>7. Control'
  BY <1>2 DEF IInvOutside, Control
<1>8. InventoryIsOriginal(O)'
  <2>1. \A c : CoveredBy(rest, c) => CoveredBy(rollback, c)
    BY <1>5 DEF CoveredBy
  <2> QED
    BY <1>2, <2>1 DEF IInvOutside, InventoryIsOriginal
<1>9. EnabledStepsCovered'
  BY <1>2 DEF EnabledStepsCovered
<1>10. (\A i \in DOMAIN rollback : RestartsToOn(rollback[i]))'
  <2>1. \A i \in DOMAIN rest : RestartsToOn(rest[i])
    BY <1>5 DEF IInvOutside
  <2> QED
    BY <1>2, <2>1 DEF RestartsToOn, RestartsOnUndo
<1>11. RecordedOutside(O)'
  <2> SUFFICES ASSUME ~errors', NEW c \in Cell \ O, ~Unrecorded(c)'
               PROVE  Recoverable(os', orig, rest, c)
    BY <1>2 DEF RecordedOutside
  <2>1. ~errors /\ r.ok
    BY <1>1, <1>4 DEF Result
  <2>2. ~Unrecorded(c)
    BY <1>2 DEF Unrecorded, RestartReached, Passed, Step1
  <2>3. Recoverable(os, orig, rollback, c)
    BY <2>1, <2>2 DEF IInvOutside, RecordedOutside
  <2>4. CASE CoveredBy(rest, c)
    BY <1>3, <2>3, <2>4, PopCovered
  <2>5. CASE ~CoveredBy(rest, c) /\ c \notin Top.cells
    <3>1. c \notin rollback[Len(rollback)].cells
      BY <2>5 DEF Top
    <3> QED
      BY <1>1, <1>2, <1>3, <1>4, <2>3, <2>5, <3>1, PopRecoverable
  <2>6. CASE ~CoveredBy(rest, c) /\ c \in Top.cells
    <3>1. Same(Top.saved, orig, c)
      <4>1. Len(rollback) \in DOMAIN rollback /\ DOMAIN rollback = 1..Len(rollback)
        BY <1>3
      <4>2. CoveredBy(rollback, c)
        BY <2>6, <4>1 DEF CoveredBy, Top
      <4>3. PICK i \in DOMAIN rollback : c \in rollback[i].cells /\ Same(rollback[i].saved, orig, c)
        BY <2>3, <4>2 DEF Recoverable
      <4>4. i \notin DOMAIN rest
        BY <1>5, <2>6, <4>3 DEF CoveredBy
      <4>5. i = Len(rollback)
        BY <1>3, <1>5, <4>1, <4>4
      <4> QED
        BY <4>3, <4>5 DEF Top
    <3>2. CoveredBy(rollback, c)
      BY <1>3, <2>6 DEF CoveredBy, Top
    <3>3. c \notin HalfUndone(Top)
      <4> SUFFICES ASSUME c \in HalfUndone(Top) PROVE FALSE
        OBVIOUS
      <4>1. c.part \in TwoSided /\ Top.saved[c] = "mixed"
        BY DEF HalfUndone
      <4>2. orig[c] = "mixed"
        BY <3>1, <4>1 DEF Same, TwoSided
      <4>3. Passed(c)
        BY <3>2, <4>1 DEF IInvOutside, MixedWerePassed
      <4> QED
        BY <1>2, <2>2, <4>1, <4>2, <4>3 DEF Unrecorded
    <3>4. /\ c \notin rollback[Len(rollback)].cells => os'[c] = os[c]
          /\ c \in rollback[Len(rollback)].cells => os'[c] = rollback[Len(rollback)].saved[c]
      BY <1>1, <1>4, <2>1, <3>3 DEF Top
    <3> QED
      BY <1>2, <1>3, <2>3, <3>4, PopRecoverable
  <2> QED
    BY <2>4, <2>5, <2>6
<1>12. EnableFirst(config.steps)'
  BY <1>2 DEF IInvOutside
<1>13. MixedWerePassed'
  <2>1. \A c : CoveredBy(rest, c) => CoveredBy(rollback, c)
    BY <1>5 DEF CoveredBy
  <2>2. \A c : Passed(c) => Passed(c)'
    BY <1>2 DEF Passed
  <2> QED
    BY <1>2, <2>1, <2>2 DEF IInvOutside, MixedWerePassed
<1> QED
  BY <1>6, <1>7, <1>8, <1>9, <1>10, <1>11, <1>12, <1>13 DEF IInvOutside

\* With an empty stack the hooks after the rollback run,
LEMMA FinishRollbackKeeps == ASSUME NEW O, IInvOutside(O), FinishRollback PROVE IInvOutside(O)'
<1>1. /\ phase = "rollback" /\ rollback = <<>> /\ phase' = "cleanup"
      /\ UNCHANGED <<config, orig, os, inventoried, seen, at, drv, rollback,
                     irreversible, had, errors, installed, outcome>>
  BY DEF FinishRollback
<1>2. TypeOK' /\ Control'
  BY <1>1 DEF IInvOutside, TypeOK, Phases, Control
<1> QED
  BY <1>1, <1>2, MoveKeeps

\* and the answer is given.
LEMMA RunAfterRollbackHooksKeeps == ASSUME NEW O, IInvOutside(O), RunAfterRollbackHooks PROVE IInvOutside(O)'
<1>1. /\ phase = "cleanup" /\ phase' = "done"
      /\ \/ outcome' = "rolled_back" /\ ~irreversible /\ ~errors
         \/ outcome' = "failed"
      /\ UNCHANGED <<config, orig, os, inventoried, seen, at, drv, rollback,
                     irreversible, had, errors, installed>>
  BY DEF RunAfterRollbackHooks
<1>2. TypeOK' /\ Control'
  BY <1>1 DEF IInvOutside, TypeOK, Phases, Outcomes, Control
<1> QED
  BY <1>1, <1>2, MoveKeeps

-----------------------------------------------------------------------------
(* The theorems.                                                           *)

\* An apply starts with an empty stack on the original machine.
LEMMA InitIInv == ASSUME NEW O, Init PROVE IInvOutside(O)
<1>1. PICK s \in Scenarios :
        /\ config = s.config /\ os = s.os /\ orig = s.os /\ seen = s.os
        /\ inventoried = FALSE /\ phase = "before" /\ at = 1 /\ drv = 1
        /\ rollback = <<>> /\ irreversible = FALSE /\ had = FALSE /\ errors = FALSE
        /\ installed = FALSE /\ outcome = "none"
  BY DEF Init
<1>2. config \in Config /\ os \in Machine /\ EnableFirst(config.steps)
  BY <1>1, ScenariosAssumption
<1>3. TypeOK
  <2>1. Len(config.steps) \in Nat /\ Len(config.drivers) \in Nat
    BY <1>2 DEF Config
  <2>2. rollback \in Seq(Entry)
    BY <1>1
  <2>3. orig \in Machine /\ seen \in Machine
    BY <1>1, <1>2
  <2>4. at \in 1..(Len(config.steps) + 1) /\ drv \in 1..(Len(config.drivers) + 1)
    BY <1>1, <2>1
  <2>5. /\ inventoried \in BOOLEAN /\ irreversible \in BOOLEAN /\ had \in BOOLEAN
        /\ errors \in BOOLEAN /\ installed \in BOOLEAN
    BY <1>1
  <2>6. phase \in Phases /\ outcome \in Outcomes
    BY <1>1 DEF Phases, Outcomes
  <2> QED
    BY <1>2, <2>2, <2>3, <2>4, <2>5, <2>6 DEF TypeOK
<1>4. Control
  BY <1>1 DEF Control
<1>5. InventoryIsOriginal(O) /\ EnabledStepsCovered /\ MixedWerePassed
  BY <1>1 DEF InventoryIsOriginal, EnabledStepsCovered, MixedWerePassed, CoveredBy
<1>6. RecordedOutside(O)
  BY <1>1 DEF RecordedOutside, Recoverable, CoveredBy, Same
<1> QED
  BY <1>1, <1>2, <1>3, <1>4, <1>5, <1>6 DEF IInvOutside

\* A step that changes no variable keeps the invariant.
LEMMA StutterKeeps == ASSUME NEW O, IInvOutside(O), UNCHANGED vars PROVE IInvOutside(O)'
<1>1. TypeOK' /\ EnableFirst(config.steps)' /\ Control'
  BY DEF vars, IInvOutside, TypeOK, EnableFirst, Control
<1>2. InventoryIsOriginal(O)' /\ EnabledStepsCovered' /\ MixedWerePassed'
  BY DEF vars, IInvOutside, InventoryIsOriginal, EnabledStepsCovered, MixedWerePassed, Passed,
         CoveredBy
<1>3. (\A i \in DOMAIN rollback : RestartsToOn(rollback[i]))'
  BY DEF vars, IInvOutside, RestartsToOn, RestartsOnUndo
<1>4. RecordedOutside(O)'
  BY DEF vars, IInvOutside, RecordedOutside, Unrecorded, RestartReached, Passed, Recoverable, CoveredBy, Step1
<1> QED
  BY <1>1, <1>2, <1>3, <1>4 DEF IInvOutside

\* Every step of apply() keeps the invariant.
LEMMA NextKeeps == ASSUME NEW O, IInvOutside(O), [Next]_vars PROVE IInvOutside(O)'
  BY ReversibleKeeps, FinishReversibleKeeps, InstallDriverKeeps, RestartAdapterKeeps,
     FinishDriversKeeps, UndoLastKeeps, FinishRollbackKeeps, RunBeforeHooksKeeps,
     RunAfterHooksKeeps, RunAfterRollbackHooksKeeps, StutterKeeps DEF Next, Work, Hooks

\* The strengthened invariant holds in every state of every apply.
THEOREM Inductive == Spec => []IInv
<1>1. Init => IInv
  BY InitIInv DEF IInv
<1>2. IInv /\ [Next]_vars => IInv'
  BY NextKeeps DEF IInv
<1> QED
  BY <1>1, <1>2, PTL DEF Spec

\* Every variable of a transaction keeps its type, for all targets, configurations
\* and machines.
THEOREM TypeCorrect == Spec => []TypeOK
<1>1. IInv => TypeOK
  BY DEF IInv, IInvOutside
<1> QED
  BY <1>1, Inductive, PTL

\* The rollback stack can take every setting it accounts for back, at every step
\* of apply(), whatever has failed.
THEOREM RecordedChangesHold == Spec => []RecordedChanges
<1>1. IInv => RecordedChanges
  BY DEF IInv, IInvOutside, RecordedChanges
<1> QED
  BY <1>1, Inductive, PTL

\* Once the stack is empty, no error means that the original machine is back.
LEMMA EmptyRestores ==
  ASSUME RecordedChanges, ~errors, rollback = <<>>
  PROVE  Restored
  BY DEF RecordedChanges, RecordedOutside, Recoverable, CoveredBy, Restored

\* An apply that did not succeed and had no rollback error left every setting it
\* accounts for as it found it.
THEOREM AbortRestoresHolds == Spec => []AbortRestores
<1>1. IInv => AbortRestores
  <2> SUFFICES ASSUME IInv, outcome \in {"failed", "rolled_back"}, ~errors
               PROVE  Restored
    BY DEF AbortRestores
  <2>1. rollback = <<>>
    BY DEF IInv, IInvOutside, Control
  <2> QED
    BY <2>1, EmptyRestores DEF IInv, IInvOutside, RecordedChanges
<1> QED
  BY <1>1, Inductive, PTL

\* The answer rolled_back is given only for a machine that was taken back and to
\* which no driver package was added.
THEOREM RolledBackIsCleanHolds == Spec => []RolledBackIsClean
<1>1. IInv => RolledBackIsClean
  <2> SUFFICES ASSUME IInv, outcome = "rolled_back"
               PROVE  ~installed /\ Restored
    BY DEF RolledBackIsClean
  <2>1. rollback = <<>> /\ ~errors /\ ~installed
    BY DEF IInv, IInvOutside, Control
  <2> QED
    BY <2>1, EmptyRestores DEF IInv, IInvOutside, RecordedChanges
<1> QED
  BY <1>1, Inductive, PTL

-----------------------------------------------------------------------------
(* Refinement of AtomicApply.                                              *)

\* A step of apply() that returns nothing yet is work of the abstract apply.
LEMMA WorkStep ==
  ASSUME outcome = "none", outcome' = "none",
         installed \in BOOLEAN, installed' \in BOOLEAN, installed => installed'
  PROVE  Atomic!Work
<1>1. Restored' \in BOOLEAN
  BY DEF Restored
<1>2. installed' \in {installed, TRUE}
  OBVIOUS
<1> QED
  BY <1>1, <1>2 DEF Atomic!Work

\* The last step of apply() leaves the machine alone, and so what is restored.
LEMMA ReturnKeepsRestored ==
  ASSUME UNCHANGED <<config, orig, os, at, drv>>,
         phase \notin {"before", "reversible"}, phase' \notin {"before", "reversible"}
  PROVE  Restored' = Restored
<1>1. \A c \in Cell : (Unrecorded(c)' <=> Unrecorded(c)) /\ (Same(os, orig, c)' <=> Same(os, orig, c))
  BY DEF Unrecorded, RestartReached, Passed, Step1, Same, Running
<1>2. Restored' <=> Restored
  BY <1>1 DEF Restored
<1> QED
  BY <1>2 DEF Restored

\* Every step of apply() is a step of the abstract apply or a stutter.
LEMMA StepImplements == ASSUME IInv, Next PROVE Atomic!Next
<1>1. outcome = "none" /\ installed \in BOOLEAN
  BY DEF IInv, IInvOutside, TypeOK, Control, Next, Work, Hooks, Reversible, SetIdentity, Turn,
         TakeInventory, AdapterTurn, SetAdapterEnabled, SetMac, SetIpv4, SetWifiProfile,
         ScanWifi, SetLink, SetService, AddAccount, ApplyShare, MapDrive, ConnectShare, SetFirewall,
         FinishReversible, InstallDriver, RestartAdapter, DriverTurn, FinishDrivers,
         UndoLast, FinishRollback, RunBeforeHooks, RunAfterHooks, RunAfterRollbackHooks
<1>2. CASE outcome' = outcome
  <2>1. installed' \in BOOLEAN /\ (installed => installed')
    <3>1. CASE UNCHANGED installed
      BY <1>1, <3>1
    <3>2. CASE InstallDriver
      <4>1. \E done \in BOOLEAN : installed' = (installed \/ done)
        BY <3>2 DEF InstallDriver
      <4> QED
        BY <1>1, <4>1
    <3> QED
      BY <3>1, <3>2 DEF Next, Work, Hooks, Reversible, SetIdentity, TakeInventory,
         SetAdapterEnabled, SetMac, SetIpv4, SetWifiProfile, ScanWifi, SetLink,
         SetService, AddAccount, ApplyShare, MapDrive, ConnectShare, SetFirewall, RecordAfter,
         RecordBefore, Refused, Skip, Attempt, FinishReversible, RestartAdapter,
         FinishDrivers, UndoLast, FinishRollback, RunBeforeHooks, RunAfterHooks,
         RunAfterRollbackHooks
  <2> QED
    BY <1>1, <1>2, <2>1, WorkStep DEF Atomic!Next
<1>3. CASE RunBeforeHooks /\ outcome' # outcome
  <2>1. outcome' = "failed" /\ installed' = installed
    BY <1>1, <1>3 DEF RunBeforeHooks
  <2>2. Restored
    BY <1>3, EmptyRestores DEF IInv, IInvOutside, RecordedChanges, Control, RunBeforeHooks
  <2>3. Restored'
    <3>1. \A c \in Cell : Unrecorded(c) => Unrecorded(c)'
      BY <1>3 DEF RunBeforeHooks, Unrecorded, RestartReached, Passed, Step1
    <3>2. os' = os /\ orig' = orig
      BY <1>3 DEF RunBeforeHooks
    <3> QED
      BY <2>2, <3>1, <3>2 DEF Restored, Same, Running
  <2>4. Restored' = Restored
    BY <2>2, <2>3 DEF Restored
  <2> QED
    BY <1>1, <2>1, <2>4 DEF Atomic!Next, Atomic!GiveUp
<1>4. CASE RunAfterHooks /\ outcome' # outcome
  <2>1. outcome' = "succeeded" /\ installed' = installed
    BY <1>1, <1>4 DEF RunAfterHooks
  <2>2. Restored' = Restored
    BY <1>4, <2>1, ReturnKeepsRestored DEF RunAfterHooks
  <2> QED
    BY <1>1, <2>1, <2>2 DEF Atomic!Next, Atomic!Succeed
<1>5. CASE RunAfterRollbackHooks /\ outcome' # outcome
  <2>1. /\ phase = "cleanup" /\ installed' = installed
        /\ \/ outcome' = "rolled_back" /\ ~irreversible /\ ~errors
           \/ outcome' = "failed"
    BY <1>5 DEF RunAfterRollbackHooks
  <2>2. Restored' = Restored
    BY <1>5, ReturnKeepsRestored DEF RunAfterRollbackHooks
  <2>3. (~irreversible /\ ~errors) => Restored /\ ~installed
    BY <2>1, EmptyRestores DEF IInv, IInvOutside, RecordedChanges, Control
  <2> QED
    BY <1>1, <2>1, <2>2, <2>3 DEF Atomic!Next, Atomic!GiveUp, Atomic!RollBack
<1> QED
  BY <1>2, <1>3, <1>4, <1>5
     DEF Next, Work, Hooks, Reversible, SetIdentity, TakeInventory,
         SetAdapterEnabled, SetMac, SetIpv4, SetWifiProfile, ScanWifi, SetLink,
         SetService, AddAccount, ApplyShare, MapDrive, ConnectShare, SetFirewall, RecordAfter,
         RecordBefore, Refused, Skip, Attempt, FinishReversible, InstallDriver,
         DriverDone, RestartAdapter, FinishDrivers, UndoLast, FinishRollback

\* The transaction implements the abstract apply the daemon relies on.
THEOREM Implements == Spec => ImplementsAtomic
<1>1. Init => Atomic!Init
  <2> SUFFICES ASSUME Init PROVE Atomic!Init
    OBVIOUS
  <2>1. outcome = "none" /\ installed = FALSE /\ os = orig
    BY DEF Init
  <2>2. Restored = TRUE
    BY <2>1 DEF Restored, Same
  <2> QED
    BY <2>1, <2>2 DEF Atomic!Init
<1>2. ASSUME IInv, [Next]_vars PROVE [Atomic!Next]_(Atomic!vars)
  <2>1. CASE Next
    BY <1>2, <2>1, StepImplements
  <2>2. CASE UNCHANGED vars
    <3>1. \A c \in Cell : (Unrecorded(c)' <=> Unrecorded(c)) /\ (Same(os, orig, c)' <=> Same(os, orig, c))
      BY <2>2 DEF vars, Unrecorded, RestartReached, Passed, Step1, Same, Running
    <3>2. Restored' <=> Restored
      BY <3>1 DEF Restored
    <3>3. Restored' = Restored
      BY <3>2 DEF Restored
    <3> QED
      BY <2>2, <3>3 DEF vars, Atomic!vars
  <2> QED
    BY <1>2, <2>1, <2>2
<1> QED
  BY <1>1, <1>2, Inductive, PTL DEF Spec, ImplementsAtomic, Atomic!Spec

-----------------------------------------------------------------------------
(* What a successful apply leaves in force.                                *)

\* The operation a part belongs to.
OpOf(p) ==
  IF p \in {"address", "dns", "wins"} THEN "ipv4"
  ELSE IF p \in {"share", "acl"} THEN "share"
  ELSE IF p = "connection" THEN "mapping"
  ELSE IF p \in {"domain", "private", "public"} THEN "firewall"
  ELSE p

\* No part belongs to two operations.
LEMMA PartsAreApart == \A op \in Ops : \A p \in PartsOf[op] : OpOf(p) = op
  BY DEF Ops, PartsOf, OpOf

\* Two steps that share a cell are about the same target and ask the same question.
LEMMA CellsAreApart ==
  ASSUME NEW s \in Step, NEW t \in Step, NEW c, c \in CellsOf(s), c \in CellsOf(t)
  PROVE  s.op = t.op /\ s.on = t.on /\ CellsOf(s) = CellsOf(t)
<1>1. s.op \in Ops /\ t.op \in Ops
  BY DEF Step
<1>2. /\ c.part \in PartsOf[s.op] /\ c.on = s.on
      /\ c.part \in PartsOf[t.op] /\ c.on = t.on
  BY DEF CellsOf
<1>3. s.op = OpOf(c.part) /\ t.op = OpOf(c.part)
  BY <1>1, <1>2, PartsAreApart
<1> QED
  BY <1>2, <1>3 DEF CellsOf

\* A later step asks for the cells of step k again.
Superseded(k) ==
  \E l \in DOMAIN config.steps : l > k /\ CellsOf(config.steps[l]) = CellsOf(config.steps[k])

InForce(others, k) ==
  \/ CellsOf(config.steps[k]) \cap others # {}
  \/ Superseded(k)
  \/ Conforms(config.steps[k])

\* Until the rollback begins, every passed step is in force or superseded, or asks for
\* settings that somebody else may write.
PassedInForce(others) ==
  /\ phase \in {"reversible", "drivers", "after"} =>
       \A k \in DOMAIN config.steps : k < at => InForce(others, k)
  /\ outcome = "succeeded" => \A k \in DOMAIN config.steps : InForce(others, k)

NotYet(c) == \A k \in DOMAIN config.steps : k < at => c \notin CellsOf(config.steps[k])

\* What the inventory shows of a setting no step has asked for is still so; only
\* a restart may have enabled an adapter, and then the document allows it.
InventoryIsCurrent(others) ==
  (phase = "reversible" /\ inventoried) =>
    \A c \in Cell \ others : (c.part \in FromInventory /\ NotYet(c)) =>
      \/ os[c] = seen[c]
      \/ c.part = "admin" /\ os[c] = "on" /\ EnabledDuringApply(c.on)

ConformOutside(others) ==
  /\ IInvOutside(others)
  /\ AdaptersOnce(config.steps) /\ Askable(config.steps)
  /\ PassedInForce(others)
  /\ InventoryIsCurrent(others)

\* What a step asks of one cell.
Meets(m, s, c) ==
  CASE s.op = "service" -> Running(m, c) = (s.to = "running")
    [] s.op = "account" -> m[c] # "absent"
    [] OTHER            -> m[c] = s.to

\* A machine that meets a step in each of its cells conforms to it.
LEMMA MeetsConforms ==
  ASSUME NEW s, \A c \in CellsOf(s) : Meets(os, s, c)
  PROVE  Conforms(s)
  BY DEF Meets, Conforms

\* There, a step is in force when the machine meets it.
LEMMA ConformsMeets ==
  ASSUME NEW O, IInvOutside(O), phase = "reversible", at <= Len(config.steps), NEW s, Conforms(s)
  PROVE  \A c \in CellsOf(s) : Meets(os, s, c)
<1>1. s.op = "admin" => \A c \in CellsOf(s) : ~Unrecorded(c)
  BY AllAccounted DEF CellsOf, PartsOf
<1> QED
  BY <1>1 DEF Meets, Conforms

\* A reversible step that returns Ok is in force and spoils no earlier one, if it
\* changed its own cells only, apart from the adapter it restarted, and left in
\* them what was asked for.
LEMMA AttemptConforms ==
  ASSUME NEW O, ConformOutside(O), phase = "reversible", at <= Len(config.steps),
         NEW R, NEW stack,
         Attempt(R, stack),
         \A r \in R : r.ok =>
           /\ \A c \in Cell : c \notin CellsOf(Step1) =>
                \/ r.os[c] = os[c]
                \/ /\ Step1.op = "mac" /\ c = Admin(Step1.on) /\ EnabledDuringApply(Step1.on)
                   /\ r.os[c] = "on"
           /\ CellsOf(Step1) \cap O = {} => \A c \in CellsOf(Step1) : Meets(r.os, Step1, c)
  PROVE  PassedInForce(O)' /\ InventoryIsCurrent(O)'
<1>1. PICK r \in R : /\ os' = r.os
                     /\ IF r.ok THEN Advance ELSE Abort(stack)
  BY DEF Attempt
<1>2. UNCHANGED <<config, orig, inventoried, seen, drv, irreversible, errors,
                  installed, outcome>>
  BY DEF Attempt
<1>3. outcome = "none"
  BY DEF ConformOutside, IInvOutside, Control
<1>4. CASE ~r.ok
  <2>1. phase' = "rollback"
    BY <1>1, <1>4 DEF Abort
  <2> QED
    BY <1>2, <1>3, <2>1 DEF PassedInForce, InventoryIsCurrent
<1>5. CASE r.ok
  <2>1. at' = at + 1 /\ phase' = "reversible"
    BY <1>1, <1>5 DEF Advance
  <2>2. /\ at \in Nat /\ at \in DOMAIN config.steps /\ DOMAIN config.steps \subseteq Nat
        /\ \A k \in DOMAIN config.steps : config.steps[k] \in Step
        /\ Step1 = config.steps[at]
    BY DEF ConformOutside, IInvOutside, TypeOK, Config, Step1
  <2>3. /\ \A c \in Cell : c \notin CellsOf(Step1) =>
             \/ os'[c] = os[c]
             \/ /\ Step1.op = "mac" /\ c = Admin(Step1.on) /\ EnabledDuringApply(Step1.on)
                /\ os'[c] = "on"
        /\ CellsOf(Step1) \cap O = {} => \A c \in CellsOf(Step1) : Meets(os', Step1, c)
    BY <1>1, <1>5
  <2>4. ASSUME NEW k \in DOMAIN config.steps, k < at, ~Superseded(k),
               CellsOf(config.steps[k]) \cap O = {}, NEW c \in CellsOf(config.steps[k])
        PROVE  Meets(os', config.steps[k], c)
    <3> DEFINE s == config.steps[k]
    <3>1. s \in Step /\ Step1 \in Step /\ c \in Cell
      BY <2>2, CellsOfType
    <3>2. Meets(os, s, c)
      <4>1. Conforms(s)
        BY <2>4 DEF ConformOutside, PassedInForce, InForce
      <4> QED
        BY <2>4, <4>1, ConformsMeets DEF ConformOutside
    <3>3. c \notin CellsOf(Step1)
      <4> SUFFICES ASSUME c \in CellsOf(Step1) PROVE FALSE
        OBVIOUS
      <4>1. CellsOf(Step1) = CellsOf(s)
        BY <2>4, <3>1, CellsAreApart
      <4>2. at > k
        BY <2>2, <2>4
      <4> QED
        BY <2>2, <2>4, <4>1, <4>2 DEF Superseded
    <3>4. CASE os'[c] = os[c]
      BY <3>2, <3>4 DEF Meets, Running
    <3>5. CASE Step1.op = "mac" /\ c = Admin(Step1.on) /\ os'[c] = "on"
      <4>1. c.part = "admin" /\ c.on = Step1.on
        BY <3>5 DEF Admin
      <4>2. s.op = "admin" /\ s.on = Step1.on
        <5>1. s.op \in Ops /\ c.part \in PartsOf[s.op] /\ c.on = s.on
          BY <2>4, <3>1 DEF CellsOf, Step
        <5> QED
          BY <4>1, <5>1, PartsAreApart DEF OpOf
      <4>3. s.to \in {"on", "off"}
        BY <4>2 DEF ConformOutside, Askable
      <4>4. s.to # "off"
        <5> SUFFICES ASSUME s.to = "off" PROVE FALSE
          OBVIOUS
        <5>1. at < k
          BY <2>2, <3>5, <4>2 DEF ConformOutside, AdaptersOnce
        <5> QED
          BY <2>2, <2>4, <5>1
      <4> QED
        BY <3>5, <4>2, <4>3, <4>4 DEF Meets
    <3> QED
      BY <2>3, <3>1, <3>3, <3>4, <3>5
  <2>5. ASSUME NEW k \in DOMAIN config.steps, k < at + 1
        PROVE  InForce(O, k)'
    <3>1. CASE Superseded(k) \/ CellsOf(config.steps[k]) \cap O # {}
      BY <1>2, <3>1 DEF InForce, Superseded, CellsOf
    <3>2. CASE ~Superseded(k) /\ CellsOf(config.steps[k]) \cap O = {}
      <4>1. \A c \in CellsOf(config.steps[k]) : Meets(os', config.steps[k], c)
        <5>1. CASE k = at
          BY <2>2, <2>3, <3>2, <5>1
        <5>2. CASE k < at
          BY <2>4, <3>2, <5>2
        <5> QED
          BY <2>2, <2>5, <5>1, <5>2
      <4>2. Conforms(config.steps[k])'
        BY <1>2, <4>1 DEF Meets, Conforms, CellsOf, Running
      <4> QED
        BY <4>2 DEF InForce
    <3> QED
      BY <3>1, <3>2
  <2>6. PassedInForce(O)'
    BY <1>2, <1>3, <2>1, <2>5 DEF PassedInForce
  <2>7. InventoryIsCurrent(O)'
    <3> SUFFICES ASSUME inventoried, NEW c \in Cell \ O, c.part \in FromInventory, NotYet(c)'
                 PROVE  \/ os'[c] = seen[c]
                        \/ c.part = "admin" /\ os'[c] = "on" /\ EnabledDuringApply(c.on)
      BY <1>2 DEF InventoryIsCurrent, EnabledDuringApply
    <3>1. NotYet(c) /\ c \notin CellsOf(Step1)
      BY <1>2, <2>1, <2>2 DEF NotYet, CellsOf
    <3>2. \/ os[c] = seen[c]
          \/ c.part = "admin" /\ os[c] = "on" /\ EnabledDuringApply(c.on)
      BY <3>1 DEF ConformOutside, InventoryIsCurrent
    <3>3. CASE os'[c] = os[c]
      BY <3>2, <3>3
    <3>4. CASE c = Admin(Step1.on) /\ EnabledDuringApply(Step1.on) /\ os'[c] = "on"
      BY <3>4 DEF Admin
    <3> QED
      BY <2>3, <3>1, <3>3, <3>4
  <2> QED
    BY <2>6, <2>7
<1> QED
  BY <1>4, <1>5

\* A query that fails ends the steps.
LEMMA RefusedConforms ==
  ASSUME NEW O, ConformOutside(O), phase = "reversible", at <= Len(config.steps), Refused
  PROVE  PassedInForce(O)' /\ InventoryIsCurrent(O)'
<1>1. ~Failed(os).ok
  BY DEF Failed
<1> QED
  BY <1>1, AttemptConforms DEF Refused

\* A step is skipped where the machine already meets it.
LEMMA SkipConforms ==
  ASSUME NEW O, ConformOutside(O), phase = "reversible", at <= Len(config.steps), Skip,
         CellsOf(Step1) \cap O = {} => \A c \in CellsOf(Step1) : Meets(os, Step1, c)
  PROVE  PassedInForce(O)' /\ InventoryIsCurrent(O)'
<1>1. Ok(os).os = os
  BY DEF Ok
<1> QED
  BY <1>1, AttemptConforms DEF Skip

\* Writing what a step asks for meets it and touches nothing else.
LEMMA WriteMeets ==
  ASSUME NEW O, ConformOutside(O), phase = "reversible", at <= Len(config.steps)
  PROVE  LET m == Write(os, CellsOf(Step1), Step1.to)
         IN  /\ \A c \in Cell : c \notin CellsOf(Step1) => m[c] = os[c]
             /\ \A c \in CellsOf(Step1) : Meets(m, Step1, c)
<1> DEFINE m == Write(os, CellsOf(Step1), Step1.to)
<1>1. Step1 \in Step /\ Step1.to \in Values /\ os \in Machine /\ CellsOf(Step1) \subseteq Cell
  BY StepType, CellsOfType DEF ConformOutside, IInvOutside, TypeOK, Step
<1>2. /\ \A c \in Cell : c \notin CellsOf(Step1) => m[c] = os[c]
      /\ \A c \in Cell : c \in CellsOf(Step1) => m[c] = Step1.to
  BY <1>1, WriteFacts
<1>3. Step1.op = "account" => Step1.to # "absent"
  BY StepType DEF ConformOutside, IInvOutside, Askable, Step1
<1>4. \A c \in CellsOf(Step1) : Meets(m, Step1, c)
  <2> HIDE DEF m
  <2> QED
    BY <1>1, <1>2, <1>3 DEF Meets, Running
<1> QED
  BY <1>2, <1>4

\* So does a call whose only successful result is that machine.
LEMMA WritingConforms ==
  ASSUME NEW O, ConformOutside(O), phase = "reversible", at <= Len(config.steps),
         NEW R, NEW stack,
         Attempt(R, stack),
         \A r \in R : r.ok => r.os = Write(os, CellsOf(Step1), Step1.to)
  PROVE  PassedInForce(O)' /\ InventoryIsCurrent(O)'
<1> DEFINE m == Write(os, CellsOf(Step1), Step1.to)
<1>1. /\ \A c \in Cell : c \notin CellsOf(Step1) => m[c] = os[c]
      /\ \A c \in CellsOf(Step1) : Meets(m, Step1, c)
  BY WriteMeets
<1> HIDE DEF m
<1>2. \A r \in R : r.ok => r.os = m
  BY DEF m
<1> QED
  BY <1>1, <1>2, AttemptConforms

\* A step whose entry is registered after the call is such a call.
LEMMA RecordAfterConforms ==
  ASSUME NEW O, ConformOutside(O), phase = "reversible", at <= Len(config.steps), RecordAfter(Step1)
  PROVE  PassedInForce(O)' /\ InventoryIsCurrent(O)'
<1>1. Ok(Write(os, CellsOf(Step1), Step1.to)).os = Write(os, CellsOf(Step1), Step1.to)
  BY DEF Ok
<1> QED
  BY <1>1, RefusedConforms, WritingConforms DEF RecordAfter

\* The names are compared with the machine before they are set.
LEMMA SetIdentityConforms ==
  ASSUME NEW O, ConformOutside(O), SetIdentity PROVE PassedInForce(O)' /\ InventoryIsCurrent(O)'
<1>1. /\ phase = "reversible" /\ at <= Len(config.steps)
      /\ Step1.op \in {"computer_name", "workgroup", "dns_suffix"}
      /\ IF Holds(Step1) THEN Refused \/ Skip ELSE RecordAfter(Step1)
  BY DEF SetIdentity, Turn
<1>2. Holds(Step1) => \A c \in CellsOf(Step1) : Meets(os, Step1, c)
  BY <1>1 DEF Holds, HeldBy, Meets
<1> QED
  BY <1>1, <1>2, RefusedConforms, SkipConforms, RecordAfterConforms

\* The cell of an adapter's state.
LEMMA AdminCells ==
  ASSUME NEW s \in Step, s.op = "admin"
  PROVE  \A c \in CellsOf(s) : c = Admin(s.on)
<1>1. PartsOf["admin"] = {"admin"}
  BY DEF PartsOf
<1> QED
  BY <1>1 DEF CellsOf, Admin

\* When the inventory is taken it shows the machine.
LEMMA TakeInventoryConforms ==
  ASSUME NEW O, ConformOutside(O), TakeInventory PROVE PassedInForce(O)' /\ InventoryIsCurrent(O)'
<1>1. /\ UNCHANGED <<config, os, at, drv, outcome>> /\ phase = "reversible"
      /\ at <= Len(config.steps)
      /\ \/ inventoried' = TRUE /\ seen' = os /\ phase' = phase
         \/ phase' = "rollback"
  BY DEF TakeInventory, AdapterTurn, Turn
<1>2. outcome = "none"
  BY <1>1 DEF ConformOutside, IInvOutside, Control
<1>3. InventoryIsCurrent(O)'
  BY <1>1 DEF InventoryIsCurrent
<1>4. \A k \in DOMAIN config.steps : config.steps[k].op = "admin" =>
        \A c \in CellsOf(config.steps[k]) : ~Unrecorded(c)
  <2> SUFFICES ASSUME NEW k \in DOMAIN config.steps, config.steps[k].op = "admin",
                      NEW c \in CellsOf(config.steps[k])
               PROVE  ~Unrecorded(c)
    OBVIOUS
  <2>1. config.steps[k] \in Step
    BY DEF ConformOutside, IInvOutside, TypeOK, Config
  <2>2. c.part # "connection"
    BY <2>1, AdminCells DEF Admin
  <2> QED
    BY <1>1, <2>2, AllAccounted DEF ConformOutside
<1>5. \A k \in DOMAIN config.steps : InForce(O, k) => InForce(O, k)'
  BY <1>1, <1>4 DEF InForce, Superseded, Conforms, CellsOf, Running
<1>6. PassedInForce(O)'
  BY <1>1, <1>2, <1>5 DEF ConformOutside, PassedInForce
<1> QED
  BY <1>3, <1>6

\* No step before the only one that asks for a setting of an adapter has asked
\* for it.
LEMMA OnlyOneAsks ==
  ASSUME NEW O, ConformOutside(O), phase = "reversible", at <= Len(config.steps),
         Step1.op \in {"admin", "ipv4"}, NEW c \in CellsOf(Step1)
  PROVE  NotYet(c) /\ c \in Cell /\ c.part \in FromInventory /\ c.on = Step1.on
<1>1. Step1 \in Step /\ at \in DOMAIN config.steps /\ Step1 = config.steps[at]
  BY StepType DEF ConformOutside, IInvOutside, Step1
<1>2. NotYet(c)
  <2> SUFFICES ASSUME NEW k \in DOMAIN config.steps, k < at, c \in CellsOf(config.steps[k])
               PROVE  FALSE
    BY DEF NotYet
  <2>1. config.steps[k] \in Step /\ k \in Nat /\ at \in Nat
    BY <1>1 DEF ConformOutside, IInvOutside, TypeOK, Config
  <2>2. config.steps[k].op = Step1.op /\ config.steps[k].on = Step1.on
    BY <1>1, <2>1, CellsAreApart
  <2>3. k = at
    BY <1>1, <2>2 DEF ConformOutside, AdaptersOnce
  <2> QED
    BY <2>1, <2>3
<1>3. PartsOf["admin"] \subseteq FromInventory /\ PartsOf["ipv4"] \subseteq FromInventory
  BY DEF PartsOf, FromInventory
<1>4. c.part \in PartsOf[Step1.op] /\ c.on = Step1.on
  BY DEF CellsOf
<1> QED
  BY <1>1, <1>2, <1>3, <1>4, CellsOfType

\* An adapter the inventory shows as asked for is so still: had a restart enabled
\* one that is to be disabled, the document would ask for both.
LEMMA SetAdapterEnabledConforms ==
  ASSUME NEW O, ConformOutside(O), SetAdapterEnabled PROVE PassedInForce(O)' /\ InventoryIsCurrent(O)'
<1>1. /\ phase = "reversible" /\ at <= Len(config.steps) /\ Step1.op = "admin" /\ inventoried
      /\ IF seen[Admin(Step1.on)] = Step1.to THEN Refused \/ Skip ELSE RecordAfter(Step1)
  BY DEF SetAdapterEnabled, Turn
<1>2. ASSUME seen[Admin(Step1.on)] = Step1.to, NEW c \in CellsOf(Step1), c \notin O
      PROVE  Meets(os, Step1, c)
  <2>1. Step1 \in Step /\ at \in DOMAIN config.steps /\ Step1 = config.steps[at]
    BY <1>1, StepType DEF ConformOutside, IInvOutside, Step1
  <2>2. c = Admin(Step1.on)
    BY <1>1, <1>2, <2>1, AdminCells
  <2>3. NotYet(c) /\ c \in Cell /\ c.part \in FromInventory /\ c.on = Step1.on
    BY <1>1, <1>2, OnlyOneAsks
  <2>4. \/ os[c] = seen[c]
        \/ os[c] = "on" /\ EnabledDuringApply(Step1.on)
    BY <1>1, <1>2, <2>3 DEF ConformOutside, InventoryIsCurrent
  <2>5. os[c] = Step1.to
    <3>1. CASE os[c] = seen[c]
      BY <1>2, <2>2, <3>1
    <3>2. CASE os[c] = "on" /\ EnabledDuringApply(Step1.on)
      <4>1. CASE seen[Admin(Step1.on)] = "on"
        BY <1>2, <3>2, <4>1
      <4>2. CASE \E k \in DOMAIN config.steps :
                   config.steps[k] = [op |-> "admin", on |-> Step1.on, to |-> "on"]
        <5>1. PICK k \in DOMAIN config.steps :
                config.steps[k] = [op |-> "admin", on |-> Step1.on, to |-> "on"]
          BY <4>2
        <5>2. k = at
          BY <1>1, <2>1, <5>1 DEF ConformOutside, AdaptersOnce
        <5> QED
          BY <2>1, <3>2, <5>1, <5>2
      <4> QED
        BY <3>2, <4>1, <4>2 DEF EnabledDuringApply
    <3> QED
      BY <2>4, <3>1, <3>2
  <2> QED
    BY <1>1, <2>5 DEF Meets
<1> QED
  BY <1>1, <1>2, RefusedConforms, SkipConforms, RecordAfterConforms

\* The restart after a MAC address was written leaves the adapter on.
LEMMA SetMacConforms ==
  ASSUME NEW O, ConformOutside(O), SetMac PROVE PassedInForce(O)' /\ InventoryIsCurrent(O)'
<1> DEFINE wrote == Write(os, CellsOf(Step1), Step1.to)
           a == Step1.on
<1>1. phase = "reversible" /\ at <= Len(config.steps) /\ Step1.op = "mac"
  BY DEF SetMac, Turn
<1>2. Step1 \in Step /\ a \in Targets /\ Step1.to \in Values /\ os \in Machine
  BY <1>1, StepType DEF ConformOutside, IInvOutside, TypeOK, Step
<1>3. PICK R, stack :
        /\ Attempt(R, stack)
        /\ \/ R = {Failed(os)} \/ R = {Ok(wrote)}
           \/ R = Restart(wrote, a) /\ EnabledDuringApply(a)
  <2>1. \/ Refused
        \/ EnabledDuringApply(a) /\ \E stack : Attempt(Restart(wrote, a), stack)
        \/ \E stack : Attempt({Ok(wrote)}, stack)
    BY DEF SetMac
  <2> QED
    BY <2>1 DEF Refused
<1>4. wrote \in Machine
  BY <1>2, WriteFacts
<1>5. /\ \A c \in Cell : c \notin CellsOf(Step1) => wrote[c] = os[c]
      /\ \A c \in CellsOf(Step1) : Meets(wrote, Step1, c)
  BY <1>1, WriteMeets
<1>6. \A c \in CellsOf(Step1) : c \in Cell /\ c # Admin(a)
  <2>1. PartsOf["mac"] = {"mac"}
    BY DEF PartsOf
  <2> QED
    BY <1>1, <1>2, <2>1, CellsOfType DEF CellsOf, Admin
<1>7. \A r \in Restart(wrote, a) :
        /\ \A c \in Cell : c # Admin(a) => r.os[c] = wrote[c]
        /\ r.ok => r.os[Admin(a)] = "on"
  BY <1>2, <1>4, RestartFacts
<1>8. ~Failed(os).ok /\ Ok(wrote).os = wrote
  BY DEF Failed, Ok
<1> HIDE DEF wrote, a
<1>9. ASSUME NEW r \in R, r.ok
      PROVE  /\ \A c \in Cell : c \notin CellsOf(Step1) =>
                  \/ r.os[c] = os[c]
                  \/ c = Admin(a) /\ EnabledDuringApply(a) /\ r.os[c] = "on"
             /\ \A c \in CellsOf(Step1) : Meets(r.os, Step1, c)
  <2>1. CASE r = Ok(wrote)
    BY <1>5, <1>8, <2>1
  <2>2. CASE r \in Restart(wrote, a) /\ EnabledDuringApply(a)
    <3>1. \A c \in CellsOf(Step1) : r.os[c] = wrote[c]
      BY <1>6, <1>7, <2>2
    <3>2. \A c \in CellsOf(Step1) : Meets(r.os, Step1, c)
      BY <1>5, <3>1 DEF Meets, Running
    <3> QED
      BY <1>5, <1>7, <1>9, <2>2, <3>2
  <2> QED
    BY <1>3, <1>8, <1>9, <2>1, <2>2
<1> QED
  BY <1>1, <1>3, <1>9, AttemptConforms DEF a

\* The addresses the inventory shows are those of the machine.
LEMMA SetIpv4Conforms ==
  ASSUME NEW O, ConformOutside(O), SetIpv4 PROVE PassedInForce(O)' /\ InventoryIsCurrent(O)'
<1> DEFINE R == Partly(CellsOf(Step1), Step1.to)
<1>1. phase = "reversible" /\ at <= Len(config.steps) /\ Step1.op = "ipv4" /\ inventoried
  BY DEF SetIpv4, Turn
<1>2. CASE HeldBy(seen, Step1) /\ Skip
  <2>1. ASSUME NEW c \in CellsOf(Step1), c \notin O PROVE Meets(os, Step1, c)
    <3>1. c.part # "admin"
      BY <1>1 DEF CellsOf, PartsOf
    <3>2. os[c] = seen[c]
      BY <1>1, <2>1, <3>1, OnlyOneAsks DEF ConformOutside, InventoryIsCurrent
    <3> QED
      BY <1>1, <1>2, <3>2 DEF HeldBy, Meets
  <2> QED
    BY <1>1, <1>2, <2>1, SkipConforms
<1>3. CASE RecordBefore(Step1, R, seen)
  <2>1. \A r \in R : r.ok => r.os = Write(os, CellsOf(Step1), Step1.to)
    BY DEF Partly, Ok, Failed
  <2> QED
    BY <1>1, <1>3, <2>1, WritingConforms DEF RecordBefore
<1> QED
  BY <1>1, <1>2, <1>3, RefusedConforms DEF SetIpv4

\* A profile that was stored is the one asked for.
LEMMA SetWifiProfileConforms ==
  ASSUME NEW O, ConformOutside(O), SetWifiProfile PROVE PassedInForce(O)' /\ InventoryIsCurrent(O)'
<1> DEFINE R == {Ok(Write(os, CellsOf(Step1), Step1.to)), Failed(os)}
<1>1. /\ phase = "reversible" /\ at <= Len(config.steps)
      /\ Refused \/ RecordBefore(Step1, R, os)
  BY DEF SetWifiProfile, Turn
<1>2. \A r \in R : r.ok => r.os = Write(os, CellsOf(Step1), Step1.to)
  BY DEF Ok, Failed
<1> QED
  BY <1>1, <1>2, RefusedConforms, WritingConforms DEF RecordBefore

\* A scan asks for no setting.
LEMMA ScanWifiConforms ==
  ASSUME NEW O, ConformOutside(O), ScanWifi PROVE PassedInForce(O)' /\ InventoryIsCurrent(O)'
<1>1. /\ phase = "reversible" /\ at <= Len(config.steps) /\ Step1.op = "scan"
      /\ Refused \/ Skip
  BY DEF ScanWifi, Turn
<1>2. CellsOf(Step1) = {}
  <2>1. PartsOf["scan"] = {}
    BY DEF PartsOf
  <2> QED
    BY <1>1, <2>1 DEF CellsOf
<1> QED
  BY <1>1, <1>2, RefusedConforms, SkipConforms

\* The polls end with Ok only when the link is as asked for.
LEMMA SetLinkConforms ==
  ASSUME NEW O, ConformOutside(O), SetLink PROVE PassedInForce(O)' /\ InventoryIsCurrent(O)'
<1> DEFINE R == Relinked(CellsOf(Step1), Step1.to)
<1>1. /\ phase = "reversible" /\ at <= Len(config.steps)
      /\ Refused \/ RecordBefore(Step1, R, os)
  BY DEF SetLink, Turn
<1>2. \A r \in R : r.ok => r.os = Write(os, CellsOf(Step1), Step1.to)
  BY DEF Relinked, Ok, Failed
<1> QED
  BY <1>1, <1>2, RefusedConforms, WritingConforms DEF RecordBefore

\* A service is left alone when it runs as asked for.
LEMMA SetServiceConforms ==
  ASSUME NEW O, ConformOutside(O), SetService PROVE PassedInForce(O)' /\ InventoryIsCurrent(O)'
<1> DEFINE R == ServiceMoved(CellsOf(Step1), Step1.to)
<1>1. /\ phase = "reversible" /\ at <= Len(config.steps) /\ Step1.op = "service"
      /\ \/ Refused
         \/ (\A c \in CellsOf(Step1) : Running(os, c) = (Step1.to = "running")) /\ Skip
         \/ RecordBefore(Step1, R, AsBoolean(os, CellsOf(Step1)))
  BY DEF SetService, Turn
<1>2. \A r \in R : r.ok => r.os = Write(os, CellsOf(Step1), Step1.to)
  BY DEF ServiceMoved, Ok, Failed
<1>3. CASE (\A c \in CellsOf(Step1) : Running(os, c) = (Step1.to = "running")) /\ Skip
  BY <1>1, <1>3, SkipConforms DEF Meets
<1> QED
  BY <1>1, <1>2, <1>3, RefusedConforms, WritingConforms DEF RecordBefore

\* An account that is not created exists.
LEMMA AddAccountConforms ==
  ASSUME NEW O, ConformOutside(O), AddAccount PROVE PassedInForce(O)' /\ InventoryIsCurrent(O)'
<1>1. /\ phase = "reversible" /\ at <= Len(config.steps) /\ Step1.op = "account"
      /\ \/ RecordAfter(Step1) \/ Refused
         \/ ~(\A c \in CellsOf(Step1) : os[c] = "absent") /\ Skip
  BY DEF AddAccount, Turn
<1>2. \A c, d \in CellsOf(Step1) : c = d
  <2>1. PartsOf["account"] = {"account"}
    BY DEF PartsOf
  <2> QED
    BY <1>1, <2>1 DEF CellsOf
<1>3. CASE ~(\A c \in CellsOf(Step1) : os[c] = "absent") /\ Skip
  <2>1. \A c \in CellsOf(Step1) : os[c] # "absent"
    BY <1>2, <1>3
  <2> QED
    BY <1>1, <1>3, <2>1, SkipConforms DEF Meets
<1> QED
  BY <1>1, <1>3, RefusedConforms, RecordAfterConforms

\* A share that was written has its information and its ACL.
LEMMA ApplyShareConforms ==
  ASSUME NEW O, ConformOutside(O), ApplyShare PROVE PassedInForce(O)' /\ InventoryIsCurrent(O)'
<1> DEFINE R == {Failed(os), Failed(Write(os, {[part |-> "share", on |-> Step1.on]}, Step1.to))}
<1>1. /\ phase = "reversible" /\ at <= Len(config.steps)
      /\ RecordAfter(Step1) \/ Attempt(R, rollback)
  BY DEF ApplyShare, Turn
<1>2. \A r \in R : ~r.ok
  BY DEF Failed
<1>3. CASE Attempt(R, rollback)
  <2> HIDE DEF R
  <2> QED
    BY <1>1, <1>2, <1>3, AttemptConforms
<1> QED
  BY <1>1, <1>3, RecordAfterConforms

\* A drive is left alone when it is mapped as asked for.
LEMMA MapDriveConforms ==
  ASSUME NEW O, ConformOutside(O), MapDrive PROVE PassedInForce(O)' /\ InventoryIsCurrent(O)'
<1>1. /\ phase = "reversible" /\ at <= Len(config.steps) /\ Step1.op = "mapping"
      /\ Refused \/ (Holds(Step1) /\ Skip) \/ RecordAfter(Step1)
  BY DEF MapDrive, Turn
<1>2. Holds(Step1) => \A c \in CellsOf(Step1) : Meets(os, Step1, c)
  BY <1>1 DEF Holds, HeldBy, Meets
<1> QED
  BY <1>1, <1>2, RefusedConforms, SkipConforms, RecordAfterConforms

\* A share that was connected without a letter is the one asked for.
LEMMA ConnectShareConforms ==
  ASSUME NEW O, ConformOutside(O), ConnectShare PROVE PassedInForce(O)' /\ InventoryIsCurrent(O)'
<1> DEFINE R == {Ok(Write(os, CellsOf(Step1), Step1.to))}
           e == EntryFor(Step1, CellsOf(Step1), Write(os, CellsOf(Step1), "absent"))
<1>1. /\ phase = "reversible" /\ at <= Len(config.steps)
      /\ Refused \/ Attempt(R, Append(rollback, e))
  BY DEF ConnectShare, Turn
<1>2. \A r \in R : r.ok => r.os = Write(os, CellsOf(Step1), Step1.to)
  BY DEF Ok
<1> HIDE DEF R, e
<1> QED
  BY <1>1, <1>2, RefusedConforms, WritingConforms

\* So are the firewall profiles.
LEMMA SetFirewallConforms ==
  ASSUME NEW O, ConformOutside(O), SetFirewall PROVE PassedInForce(O)' /\ InventoryIsCurrent(O)'
<1> DEFINE R == Partly(CellsOf(Step1), Step1.to)
<1>1. /\ phase = "reversible" /\ at <= Len(config.steps) /\ Step1.op = "firewall"
      /\ Refused \/ (Holds(Step1) /\ Skip) \/ RecordBefore(Step1, R, os)
  BY DEF SetFirewall, Turn
<1>2. Holds(Step1) => \A c \in CellsOf(Step1) : Meets(os, Step1, c)
  BY <1>1 DEF Holds, HeldBy, Meets
<1>3. \A r \in R : r.ok => r.os = Write(os, CellsOf(Step1), Step1.to)
  BY DEF Partly, Ok, Failed
<1> QED
  BY <1>1, <1>2, <1>3, RefusedConforms, SkipConforms, WritingConforms DEF RecordBefore

\* Every reversible step leaves what was asked for.
LEMMA ReversibleConforms ==
  ASSUME NEW O, ConformOutside(O), Reversible PROVE PassedInForce(O)' /\ InventoryIsCurrent(O)'
  BY SetIdentityConforms, TakeInventoryConforms, SetAdapterEnabledConforms, SetMacConforms,
     SetIpv4Conforms, SetWifiProfileConforms, ScanWifiConforms, SetLinkConforms,
     SetServiceConforms, AddAccountConforms, ApplyShareConforms, MapDriveConforms,
     ConnectShareConforms, SetFirewallConforms DEF Reversible

\* After the steps, a cell may change only once it is left out of the account, and
\* it stays left out.
LEMMA StaysInForce ==
  ASSUME NEW O, ConformOutside(O), config' = config,
         \A c \in Cell \ O : os'[c] = os[c] \/ (c.part = "admin" /\ Unrecorded(c)'),
         \A c \in Cell : Unrecorded(c) => Unrecorded(c)',
         NEW k \in DOMAIN config.steps, InForce(O, k)
  PROVE  InForce(O, k)'
<1> DEFINE s == config.steps[k]
<1>1. CASE Superseded(k) \/ CellsOf(s) \cap O # {}
  BY <1>1 DEF InForce, Superseded, CellsOf
<1>2. CASE Conforms(s) /\ CellsOf(s) \cap O = {}
  <2>1. s \in Step
    BY DEF ConformOutside, IInvOutside, TypeOK, Config
  <2>2. ASSUME NEW c \in CellsOf(s)
        PROVE  CASE s.op = "service" -> Running(os', c) = (s.to = "running")
                 [] s.op = "account" -> os'[c] # "absent"
                 [] s.op = "admin"   -> os'[c] = s.to \/ Unrecorded(c)'
                 [] OTHER            -> os'[c] = s.to
    <3>1. c \in Cell \ O
      BY <1>2, <2>1, CellsOfType
    <3>2. CASE s.op = "admin"
      BY <1>2, <3>1, <3>2 DEF Conforms
    <3>3. CASE s.op # "admin"
      <4>1. c.part # "admin"
        <5>1. s.op \in Ops /\ c.part \in PartsOf[s.op]
          BY <2>1 DEF CellsOf, Step
        <5> QED
          BY <3>3, <5>1, PartsAreApart DEF OpOf
      <4>2. os'[c] = os[c]
        BY <3>1, <4>1
      <4> QED
        BY <1>2, <3>3, <4>2 DEF Conforms, Running
    <3> QED
      BY <3>2, <3>3
  <2>3. Conforms(s)'
    BY <2>2 DEF Conforms, CellsOf, Running
  <2> QED
    BY <2>3 DEF InForce
<1> QED
  BY <1>1, <1>2 DEF InForce

\* A step that only moves to another phase changes nothing of this.
LEMMA MoveConforms ==
  ASSUME NEW O, ConformOutside(O), UNCHANGED <<config, orig, os, at, drv>>,
         phase \in {"reversible", "drivers", "after"},
         at > Len(config.steps), phase' \notin {"before", "reversible"},
         outcome' \in {outcome, "succeeded"}
  PROVE  PassedInForce(O)' /\ InventoryIsCurrent(O)'
<1>2. \A k \in DOMAIN config.steps : k < at
  BY DEF ConformOutside, IInvOutside, TypeOK, Config
<1>1. \A c \in Cell : Unrecorded(c) => Unrecorded(c)'
  BY <1>2 DEF Unrecorded, RestartReached, Passed, Step1
<1>3. \A k \in DOMAIN config.steps : InForce(O, k)
  BY <1>2 DEF ConformOutside, PassedInForce
<1>4. \A k \in DOMAIN config.steps : InForce(O, k)'
  BY <1>1, <1>3, StaysInForce
<1> QED
  BY <1>4 DEF PassedInForce, InventoryIsCurrent

\* A driver operation changes no setting that is accounted for.
LEMMA DriverConforms ==
  ASSUME NEW O, ConformOutside(O), phase = "drivers", drv <= Len(config.drivers), NEW ok, DriverDone(ok),
         \A c \in Cell : os'[c] = os[c] \/ (c.part = "admin" /\ Unrecorded(c)')
  PROVE  PassedInForce(O)' /\ InventoryIsCurrent(O)'
<1>1. /\ UNCHANGED <<config, orig, at, outcome>>
      /\ phase' \in {phase, "rollback"} /\ drv' \in {drv, drv + 1}
  BY DEF DriverDone
<1>2. at > Len(config.steps) /\ outcome = "none"
  BY DEF ConformOutside, IInvOutside, Control
<1>3. \A c \in Cell : Unrecorded(c) => Unrecorded(c)'
  <2>1. \A k \in DOMAIN config.drivers : RestartReached(k) => RestartReached(k)'
    BY <1>1 DEF RestartReached, ConformOutside, IInvOutside, TypeOK, Config
  <2>2. \A c : Passed(c) <=> Passed(c)'
    BY <1>1 DEF Passed, CellsOf
  <2> QED
    BY <1>1, <1>2, <2>1, <2>2 DEF Unrecorded, ConformOutside, IInvOutside, TypeOK
<1>4. \A k \in DOMAIN config.steps : InForce(O, k) => InForce(O, k)'
  BY <1>1, <1>3, StaysInForce
<1> QED
  BY <1>1, <1>2, <1>4 DEF ConformOutside, PassedInForce, InventoryIsCurrent

\* An adapter that was restarted is left out of the account.
LEMMA RestartAdapterConforms ==
  ASSUME NEW O, ConformOutside(O), RestartAdapter PROVE PassedInForce(O)' /\ InventoryIsCurrent(O)'
<1>1. /\ phase = "drivers" /\ drv <= Len(config.drivers)
      /\ config.drivers[drv].op = "restart_adapter"
  BY DEF RestartAdapter, DriverTurn
<1>2. PICK r \in Restart(os, config.drivers[drv].on) : os' = r.os /\ DriverDone(r.ok)
  BY DEF RestartAdapter
<1>3. drv \in DOMAIN config.drivers /\ drv \in Nat /\ config.drivers[drv].on \in Targets
  <2>1. config.drivers \in Seq(Driver) /\ drv \in DOMAIN config.drivers /\ drv \in Nat
    BY <1>1 DEF ConformOutside, IInvOutside, TypeOK, Config
  <2>2. config.drivers[drv] \in Driver
    BY <2>1
  <2> QED
    BY <2>1, <2>2 DEF Driver
<1>4. PICK a \in Targets, k \in Nat : k = drv /\ a = config.drivers[k].on
  BY <1>3
<1>5. \A c \in Cell : c # Admin(a) => os'[c] = os[c]
  BY <1>2, <1>4, RestartFacts DEF ConformOutside, IInvOutside, TypeOK
<1>6. Admin(a).part = "admin" /\ Unrecorded(Admin(a))'
  <2>1. config' = config /\ at' = at /\ drv' \in {drv, drv + 1} /\ at > Len(config.steps)
    BY <1>1, <1>2 DEF DriverDone, ConformOutside, IInvOutside, Control
  <2>2. k \in DOMAIN config'.drivers /\ RestartReached(k)' /\ config'.drivers[k].on = a
    BY <1>1, <1>3, <1>4, <2>1 DEF RestartReached
  <2> QED
    BY <2>2 DEF Unrecorded, Admin
<1> QED
  BY <1>1, <1>2, <1>5, <1>6, DriverConforms

\* Once the rollback has begun there is nothing left to promise.
LEMMA OverConforms ==
  ASSUME NEW O, phase' \notin {"reversible", "drivers", "after"}, outcome' # "succeeded"
  PROVE  PassedInForce(O)' /\ InventoryIsCurrent(O)'
  BY DEF PassedInForce, InventoryIsCurrent

\* Before the first step nothing has been passed.
LEMMA RunBeforeHooksConforms ==
  ASSUME NEW O, ConformOutside(O), RunBeforeHooks PROVE PassedInForce(O)' /\ InventoryIsCurrent(O)'
<1>1. /\ phase = "before" /\ outcome' # "succeeded"
      /\ UNCHANGED <<config, at, inventoried>>
  BY DEF RunBeforeHooks
<1>2. at = 1 /\ ~inventoried
  BY <1>1 DEF ConformOutside, IInvOutside, Control
<1>3. \A k \in DOMAIN config.steps : ~(k < 1)
  BY DEF ConformOutside, IInvOutside, TypeOK, Config
<1>4. PassedInForce(O)'
  BY <1>1, <1>2, <1>3 DEF PassedInForce
<1>5. InventoryIsCurrent(O)'
  BY <1>1, <1>2 DEF InventoryIsCurrent
<1> QED
  BY <1>4, <1>5

\* The initial state satisfies the invariant, and every step keeps it.
LEMMA InitConforms == ASSUME NEW O, Init PROVE ConformOutside(O)
<1>1. IInvOutside(O)
  BY InitIInv
<1>2. AdaptersOnce(config.steps) /\ Askable(config.steps)
  BY StepsAssumption DEF Init
<1>3. PassedInForce(O) /\ InventoryIsCurrent(O)
  BY DEF Init, PassedInForce, InventoryIsCurrent
<1> QED
  BY <1>1, <1>2, <1>3 DEF ConformOutside

LEMMA ConfigStays == ASSUME [Next]_vars PROVE config' = config
  BY DEF Next, Work, Hooks, vars, Reversible, SetIdentity, TakeInventory,
         SetAdapterEnabled, SetMac, SetIpv4, SetWifiProfile, ScanWifi, SetLink,
         SetService, AddAccount, ApplyShare, MapDrive, ConnectShare, SetFirewall, RecordAfter,
         RecordBefore, Refused, Skip, Attempt, FinishReversible, InstallDriver,
         DriverDone, RestartAdapter, FinishDrivers, UndoLast, FinishRollback,
         RunBeforeHooks, RunAfterHooks, RunAfterRollbackHooks

LEMMA NextConforms == ASSUME NEW O, ConformOutside(O), [Next]_vars PROVE ConformOutside(O)'
<1>1. IInvOutside(O)'
  BY NextKeeps DEF ConformOutside
<1>2. config' = config
  BY ConfigStays
<1>3. PassedInForce(O)' /\ InventoryIsCurrent(O)'
  <2>1. CASE Reversible
    BY <2>1, ReversibleConforms
  <2>2. CASE FinishReversible
    <3>1. /\ phase = "reversible" /\ at > Len(config.steps) /\ phase' = "drivers"
          /\ UNCHANGED <<config, orig, os, at, drv, outcome>>
      BY <2>2 DEF FinishReversible
    <3> QED
      BY <3>1, MoveConforms
  <2>3. CASE InstallDriver
    <3>1. PICK ok \in BOOLEAN : DriverDone(ok)
      BY <2>3 DEF InstallDriver
    <3>2. phase = "drivers" /\ drv <= Len(config.drivers) /\ os' = os
      BY <2>3 DEF InstallDriver, DriverTurn
    <3> QED
      BY <3>1, <3>2, DriverConforms
  <2>4. CASE RestartAdapter
    BY <2>4, RestartAdapterConforms
  <2>5. CASE FinishDrivers
    <3>1. /\ phase = "drivers" /\ phase' = "after" /\ UNCHANGED <<config, orig, os, at, drv, outcome>>
          /\ at > Len(config.steps)
      BY <2>5 DEF FinishDrivers, ConformOutside, IInvOutside, Control
    <3> QED
      BY <3>1, MoveConforms
  <2>6. CASE UndoLast \/ FinishRollback \/ RunAfterRollbackHooks
    <3>1. /\ phase' \notin {"reversible", "drivers", "after"}
          /\ outcome = "none" /\ outcome' \in {outcome, "rolled_back", "failed"}
      BY <2>6 DEF UndoLast, FinishRollback, RunAfterRollbackHooks, ConformOutside, IInvOutside, Control
    <3> QED
      BY <3>1, OverConforms
  <2>7. CASE RunBeforeHooks
    BY <2>7, RunBeforeHooksConforms
  <2>8. CASE RunAfterHooks
    <3>1. /\ phase = "after" /\ phase' \notin {"before", "reversible"}
          /\ outcome' \in {outcome, "succeeded"}
          /\ UNCHANGED <<config, orig, os, at, drv>> /\ at > Len(config.steps)
      BY <2>8 DEF RunAfterHooks, ConformOutside, IInvOutside, Control
    <3> QED
      BY <3>1, MoveConforms
  <2>9. CASE UNCHANGED vars
    <3>1. UNCHANGED <<config, orig, os, seen, inventoried, phase, at, drv, outcome>>
      BY <2>9 DEF vars
    <3>2. \A c : Unrecorded(c) <=> Unrecorded(c)'
      BY <3>1 DEF Unrecorded, RestartReached, Passed, Step1
    <3>3. \A k \in DOMAIN config.steps : InForce(O, k) => InForce(O, k)'
      BY <3>1, <3>2, StaysInForce
    <3>4. PassedInForce(O)'
      BY <3>1, <3>3 DEF ConformOutside, PassedInForce
    <3>5. InventoryIsCurrent(O)'
      BY <3>1 DEF ConformOutside, InventoryIsCurrent, NotYet, EnabledDuringApply
    <3> QED
      BY <3>4, <3>5
  <2> QED
    BY <2>1, <2>2, <2>3, <2>4, <2>5, <2>6, <2>7, <2>8, <2>9 DEF Next, Work, Hooks
<1>4. AdaptersOnce(config'.steps) /\ Askable(config'.steps)
  BY <1>2 DEF ConformOutside
<1> QED
  BY <1>1, <1>3, <1>4 DEF ConformOutside

\* After a successful apply every requested setting is in force, for the last
\* step that asked for it.
THEOREM SucceededConformsHolds == Spec => []SucceededConforms
<1>1. Init => ConformOutside({})
  BY InitConforms
<1>2. ConformOutside({}) /\ [Next]_vars => ConformOutside({})'
  BY NextConforms
<1>3. ConformOutside({}) => SucceededConforms
  BY DEF ConformOutside, PassedInForce, InForce, Superseded, SucceededConforms
<1> QED
  BY <1>1, <1>2, <1>3, PTL DEF Spec
-----------------------------------------------------------------------------
(* What an apply writes.                                                   *)

\* The entries of the stack cover settings of the footprint only.
StackInFootprint == \A i \in DOMAIN rollback : rollback[i].cells \subseteq Footprint(config)

\* A step that writes within the footprint, and registers nothing beyond it.
StaysInFootprint ==
  /\ \A c \in Cell \ Footprint(config) : os'[c] = os[c]
  /\ StackInFootprint'

\* What the footprint of a configuration contains.
LEMMA FootprintFacts ==
  /\ \A k \in DOMAIN config.steps : CellsOf(config.steps[k]) \subseteq Footprint(config)
  /\ \A k \in DOMAIN config.steps :
       config.steps[k].op = "mac" => Admin(config.steps[k].on) \in Footprint(config)
  /\ \A k \in DOMAIN config.drivers :
       config.drivers[k].op = "restart_adapter" => Admin(config.drivers[k].on) \in Footprint(config)
<1> DEFINE A == UNION {CellsOf(config.steps[k]) : k \in DOMAIN config.steps}
           B == {Admin(config.steps[k].on) : k \in {i \in DOMAIN config.steps :
                                                     config.steps[i].op = "mac"}}
           D == {Admin(config.drivers[k].on) : k \in {i \in DOMAIN config.drivers :
                                              config.drivers[i].op = "restart_adapter"}}
<1>1. Footprint(config) = A \cup B \cup D
  BY DEF Footprint
<1>2. \A k \in DOMAIN config.steps : CellsOf(config.steps[k]) \subseteq A
  OBVIOUS
<1>3. \A k \in DOMAIN config.steps : config.steps[k].op = "mac" => Admin(config.steps[k].on) \in B
  OBVIOUS
<1>4. \A k \in DOMAIN config.drivers :
        config.drivers[k].op = "restart_adapter" => Admin(config.drivers[k].on) \in D
  OBVIOUS
<1> HIDE DEF A, B, D
<1> QED
  BY <1>1, <1>2, <1>3, <1>4

\* The cells of a step belong to the footprint, and for a MAC step the state of its
\* adapter does.
LEMMA StepInFootprint ==
  ASSUME TypeOK, at <= Len(config.steps)
  PROVE  /\ CellsOf(Step1) \subseteq Footprint(config)
         /\ Step1.op = "mac" => Admin(Step1.on) \in Footprint(config)
<1>1. at \in DOMAIN config.steps
  BY StepType
<1> QED
  BY <1>1, FootprintFacts DEF Step1

\* Nor does a driver operation restart an adapter outside it.
LEMMA DriverInFootprint ==
  ASSUME TypeOK, DriverTurn("restart_adapter")
  PROVE  /\ Admin(config.drivers[drv].on) \in Footprint(config)
         /\ config.drivers[drv].on \in Targets
<1>1. /\ drv \in DOMAIN config.drivers /\ config.drivers[drv].op = "restart_adapter"
      /\ config.drivers[drv] \in Driver
  BY DEF TypeOK, Config, DriverTurn
<1> QED
  BY <1>1, FootprintFacts DEF Driver

\* A step stays in the footprint if its results do and the entry it registers does.
LEMMA AttemptStays ==
  ASSUME TypeOK, StackInFootprint, NEW R, NEW stack, Attempt(R, stack),
         \A r \in R : \A c \in Cell \ Footprint(config) : r.os[c] = os[c],
         \/ stack = rollback
         \/ \E e \in Entry : stack = Append(rollback, e) /\ e.cells \subseteq Footprint(config)
  PROVE  StaysInFootprint
<1>1. PICK r \in R : os' = r.os /\ rollback' = stack /\ config' = config
  BY DEF Attempt
<1>2. Footprint(config)' = Footprint(config)
  BY <1>1 DEF Footprint, CellsOf, Admin
<1>3. \A i \in DOMAIN stack : stack[i].cells \subseteq Footprint(config)
  <2>1. CASE stack = rollback
    BY <2>1 DEF StackInFootprint
  <2>2. CASE \E e \in Entry : stack = Append(rollback, e) /\ e.cells \subseteq Footprint(config)
    <3>1. PICK e \in Entry : stack = Append(rollback, e) /\ e.cells \subseteq Footprint(config)
      BY <2>2
    <3>2. rollback \in Seq(Entry)
      BY DEF TypeOK
    <3>3. /\ DOMAIN stack = 1..(Len(rollback) + 1)
          /\ \A i \in DOMAIN rollback : stack[i] = rollback[i]
          /\ stack[Len(rollback) + 1] = e
          /\ DOMAIN rollback = 1..Len(rollback) /\ Len(rollback) \in Nat
      BY <3>1, <3>2
    <3>4. \A i \in DOMAIN stack : i \in DOMAIN rollback \/ i = Len(rollback) + 1
      BY <3>3
    <3> QED
      BY <3>1, <3>3, <3>4 DEF StackInFootprint
  <2> QED
    BY <2>1, <2>2
<1>4. StackInFootprint'
  BY <1>1, <1>2, <1>3 DEF StackInFootprint
<1> QED
  BY <1>1, <1>4 DEF StaysInFootprint

\* A step that is refused or has nothing to do writes nothing.
LEMMA NothingStays ==
  ASSUME TypeOK, StackInFootprint, Refused \/ Skip
  PROVE  StaysInFootprint
<1>1. Ok(os).os = os /\ Failed(os).os = os
  BY DEF Ok, Failed
<1>2. CASE Refused
  BY <1>1, <1>2, AttemptStays DEF Refused
<1>3. CASE Skip
  BY <1>1, <1>3, AttemptStays DEF Skip
<1> QED
  BY <1>2, <1>3

\* The entry of a step belongs to the footprint.
LEMMA EntryInFootprint ==
  ASSUME TypeOK, at <= Len(config.steps), NEW saved \in Machine
  PROVE  LET e == EntryFor(Step1, CellsOf(Step1), saved)
         IN e \in Entry /\ e.cells \subseteq Footprint(config)
<1>1. Step1 \in Step /\ CellsOf(Step1) \subseteq Cell
  BY StepType, CellsOfType
<1> QED
  BY <1>1, StepInFootprint DEF EntryFor, Entry, Step

\* A step that registers after its call stays in the footprint.
LEMMA RecordAfterStays ==
  ASSUME TypeOK, StackInFootprint, at <= Len(config.steps), RecordAfter(Step1)
  PROVE  StaysInFootprint
<1> DEFINE m == Write(os, CellsOf(Step1), Step1.to)
           e == EntryFor(Step1, CellsOf(Step1), os)
           R == {Ok(m)}
<1>1. CASE Refused
  BY <1>1, NothingStays
<1>2. CASE Attempt(R, Append(rollback, e))
  <2>1. \A c \in Cell \ Footprint(config) : m[c] = os[c]
    <3>1. Step1.to \in Values /\ os \in Machine
      BY StepType DEF Step, TypeOK
    <3> QED
      BY <3>1, WriteFacts, StepInFootprint
  <2>2. Ok(m).os = m
    BY DEF Ok
  <2>3. e \in Entry /\ e.cells \subseteq Footprint(config)
    BY EntryInFootprint DEF TypeOK
  <2>4. \A r \in R : \A c \in Cell \ Footprint(config) : r.os[c] = os[c]
    BY <2>1, <2>2
  <2> HIDE DEF R, m, e
  <2> QED
    BY <1>2, <2>3, <2>4, AttemptStays
<1> QED
  BY <1>1, <1>2 DEF RecordAfter

\* So does one that registers before its call.
LEMMA RecordBeforeStays ==
  ASSUME TypeOK, StackInFootprint, at <= Len(config.steps), NEW R, NEW saved \in Machine,
         RecordBefore(Step1, R, saved),
         \A r \in R : \A c \in Cell : c \notin CellsOf(Step1) => r.os[c] = os[c]
  PROVE  StaysInFootprint
<1> DEFINE e == EntryFor(Step1, CellsOf(Step1), saved)
<1>1. e \in Entry /\ e.cells \subseteq Footprint(config)
  BY EntryInFootprint
<1>2. \A r \in R : \A c \in Cell \ Footprint(config) : r.os[c] = os[c]
  BY StepInFootprint
<1>3. Attempt(R, Append(rollback, e))
  BY DEF RecordBefore
<1> HIDE DEF e
<1> QED
  BY <1>1, <1>2, <1>3, AttemptStays

\* Where at most the cells C were written, the other settings are as before.
LEMMA WrittenOutside ==
  ASSUME os \in Machine, NEW C, NEW r,
         \/ r.os = os
         \/ \E D \in SUBSET C, v \in Values : r.os = Write(os, D, v)
  PROVE  \A c \in Cell : c \notin C => r.os[c] = os[c]
<1> SUFFICES ASSUME NEW D \in SUBSET C, NEW v \in Values, r.os = Write(os, D, v)
             PROVE  \A c \in Cell : c \notin C => r.os[c] = os[c]
  OBVIOUS
<1>1. \A c \in Cell : c \notin D => Write(os, D, v)[c] = os[c]
  BY WriteFacts
<1> QED
  BY <1>1

\* A MAC step stays in the footprint: the adapter it restarts belongs to it.
LEMMA MacStays ==
  ASSUME TypeOK, StackInFootprint, SetMac
  PROVE  StaysInFootprint
<1> DEFINE a == Step1.on
           C == CellsOf(Step1)
           wrote == Write(os, C, Step1.to)
           e == EntryFor(Step1, C \cup {Admin(a)}, Write(os, {Admin(a)}, "on"))
           f == EntryFor(Step1, C, os)
           R == {Ok(wrote)}
           F == Footprint(config)
<1>1. at <= Len(config.steps) /\ Step1.op = "mac"
  BY DEF SetMac, Turn
<1>2. Step1 \in Step /\ a \in Targets /\ Step1.to \in Values /\ os \in Machine /\ "on" \in Values
  BY <1>1, StepType DEF Step, TypeOK, Values
<1>3. C \subseteq F /\ Admin(a) \in F /\ C \subseteq Cell /\ Admin(a) \in Cell
  BY <1>1, <1>2, StepInFootprint, CellsOfType, AdminType
<1>4. wrote \in Machine /\ \A c \in Cell : c \notin C => wrote[c] = os[c]
  BY <1>2, WriteFacts
<1>5. CASE Attempt(Restart(wrote, a), Append(rollback, e))
  <2>1. Write(os, {Admin(a)}, "on") \in Machine
    BY <1>2, WriteFacts
  <2>2. e \in Entry /\ e.cells = C \cup {Admin(a)}
    BY <1>2, <1>3, <2>1 DEF EntryFor, Entry, Step
  <2>3. ASSUME NEW r \in Restart(wrote, a), NEW c \in Cell \ F PROVE r.os[c] = os[c]
    <3>1. \A d \in Cell : d # Admin(a) => r.os[d] = wrote[d]
      BY <1>2, <1>4, RestartFacts
    <3> QED
      BY <1>3, <1>4, <3>1
  <2>4. e.cells \subseteq F
    BY <1>3, <2>2
  <2> HIDE DEF e, wrote, a, C
  <2> QED
    BY <1>5, <2>2, <2>3, <2>4, AttemptStays
<1>6. CASE Attempt(R, Append(rollback, f))
  <2>1. f \in Entry /\ f.cells \subseteq F
    BY <1>1, <1>2, EntryInFootprint
  <2>2. Ok(wrote).os = wrote
    BY DEF Ok
  <2>3. \A c \in Cell \ F : wrote[c] = os[c]
    BY <1>3, <1>4
  <2>4. \A r \in R : \A c \in Cell \ F : r.os[c] = os[c]
    BY <2>2, <2>3
  <2> HIDE DEF R, f, wrote, a, C
  <2> QED
    BY <1>6, <2>1, <2>4, AttemptStays
<1> QED
  BY <1>5, <1>6, NothingStays DEF SetMac

\* Every reversible step stays in the footprint.
LEMMA ReversibleStays ==
  ASSUME TypeOK, StackInFootprint, Reversible
  PROVE  StaysInFootprint
<1> DEFINE C == CellsOf(Step1)
<1>1. os \in Machine /\ seen \in Machine
  BY DEF TypeOK
<1>2. at <= Len(config.steps) \/ TakeInventory
  BY DEF Reversible, SetIdentity, SetAdapterEnabled, SetMac, SetIpv4, SetWifiProfile, ScanWifi,
         SetLink, SetService, AddAccount, ApplyShare, MapDrive, ConnectShare, SetFirewall, Turn
<1>3. CASE TakeInventory
  <2>1. UNCHANGED <<config, os, rollback>>
    BY <1>3 DEF TakeInventory
  <2> QED
    BY <2>1 DEF StaysInFootprint, StackInFootprint, Footprint, CellsOf, Admin
<1>4. CASE at <= Len(config.steps) /\ ~TakeInventory
  <2>1. Step1.to \in Values /\ {"down", "running", "stopped", "paused"} \subseteq Values
    BY <1>4, StepType DEF Step, Values
  <2>2. CASE Refused \/ Skip
    BY <2>2, NothingStays
  <2>3. CASE RecordAfter(Step1)
    BY <1>4, <2>3, RecordAfterStays
  <2>4. CASE SetMac
    BY <2>4, MacStays
  <2>5. ASSUME NEW saved \in Machine, RecordBefore(Step1, Partly(C, Step1.to), saved)
        PROVE  StaysInFootprint
    <3>1. \A r \in Partly(C, Step1.to) : \A c \in Cell : c \notin C => r.os[c] = os[c]
      BY <1>1, <2>1, PartlyFacts
    <3> QED
      BY <1>4, <2>5, <3>1, RecordBeforeStays
  <2>6. CASE SetWifiProfile
    <3> DEFINE R == {Ok(Write(os, C, Step1.to)), Failed(os)}
    <3>1. \A r \in R : r.os = os \/ \E D \in SUBSET C, v \in Values : r.os = Write(os, D, v)
      BY <2>1 DEF Ok, Failed
    <3>2. \A r \in R : \A c \in Cell : c \notin C => r.os[c] = os[c]
      BY <1>1, <3>1, WrittenOutside
    <3>3. Refused \/ RecordBefore(Step1, R, os)
      BY <2>6 DEF SetWifiProfile
    <3> HIDE DEF R
    <3> QED
      BY <1>1, <1>4, <2>2, <3>2, <3>3, RecordBeforeStays
  <2>7. CASE SetLink
    <3>1. \A r \in Relinked(C, Step1.to) :
            r.os = os \/ \E D \in SUBSET C, v \in Values : r.os = Write(os, D, v)
      BY <2>1 DEF Ok, Failed, Relinked
    <3>2. \A r \in Relinked(C, Step1.to) : \A c \in Cell : c \notin C => r.os[c] = os[c]
      BY <1>1, <3>1, WrittenOutside
    <3>3. Refused \/ RecordBefore(Step1, Relinked(C, Step1.to), os)
      BY <2>7 DEF SetLink
    <3> QED
      BY <1>1, <1>4, <2>2, <3>2, <3>3, RecordBeforeStays
  <2>8. CASE SetService
    <3>1. \A r \in ServiceMoved(C, Step1.to) :
            r.os = os \/ \E D \in SUBSET C, v \in Values : r.os = Write(os, D, v)
      BY <2>1 DEF Ok, Failed, ServiceMoved
    <3>2. \A r \in ServiceMoved(C, Step1.to) : \A c \in Cell : c \notin C => r.os[c] = os[c]
      BY <1>1, <3>1, WrittenOutside
    <3>3. Refused \/ Skip \/ RecordBefore(Step1, ServiceMoved(C, Step1.to), AsBoolean(os, C))
      BY <2>8 DEF SetService
    <3>4. AsBoolean(os, C) \in Machine
      BY <1>1 DEF AsBoolean, Machine, Values
    <3> QED
      BY <1>4, <2>2, <3>2, <3>3, <3>4, RecordBeforeStays
  <2>9. CASE ApplyShare
    <3> DEFINE info == [part |-> "share", on |-> Step1.on]
               R == {Failed(os), Failed(Write(os, {info}, Step1.to))}
    <3>1. RecordAfter(Step1) \/ Attempt(R, rollback)
      BY <2>9 DEF ApplyShare
    <3>2. info \in C
      BY <2>9 DEF ApplyShare, Turn, CellsOf, PartsOf
    <3>3. ASSUME NEW r \in R
          PROVE  r.os = os \/ \E D \in SUBSET C, v \in Values : r.os = Write(os, D, v)
      <4>1. r.os = os \/ r.os = Write(os, {info}, Step1.to)
        <5>1. CASE r = Failed(os)
          BY <5>1 DEF Failed
        <5>2. CASE r = Failed(Write(os, {info}, Step1.to))
          <6> HIDE DEF info
          <6> QED
            BY <5>2 DEF Failed
        <5> QED
          BY <5>1, <5>2
      <4>2. {info} \in SUBSET C
        BY <3>2
      <4> HIDE DEF info, R, C
      <4> QED
        BY <2>1, <4>1, <4>2
    <3>4. \A r \in R : \A c \in Cell : c \notin C => r.os[c] = os[c]
      <4> HIDE DEF info, R, C
      <4> QED
        BY <1>1, <3>3, WrittenOutside
    <3>5. \A r \in R : \A c \in Cell \ Footprint(config) : r.os[c] = os[c]
      BY <1>4, <3>4, StepInFootprint
    <3> HIDE DEF R
    <3> QED
      BY <2>3, <3>1, <3>5, AttemptStays
  <2>10. CASE SetIdentity \/ SetAdapterEnabled \/ ScanWifi \/ AddAccount \/ MapDrive
    <3>1. Refused \/ Skip \/ RecordAfter(Step1)
      BY <2>10 DEF SetIdentity, SetAdapterEnabled, ScanWifi, AddAccount, MapDrive
    <3> QED
      BY <2>2, <2>3, <3>1
  <2>11. CASE SetIpv4
    <3>1. Refused \/ Skip \/ RecordBefore(Step1, Partly(C, Step1.to), seen)
      BY <2>11 DEF SetIpv4
    <3> QED
      BY <1>1, <2>2, <2>5, <3>1
  <2>12. CASE SetFirewall
    <3>1. Refused \/ Skip \/ RecordBefore(Step1, Partly(C, Step1.to), os)
      BY <2>12 DEF SetFirewall
    <3> QED
      BY <1>1, <2>2, <2>5, <3>1
  <2>13. CASE ConnectShare
    <3> DEFINE m == Write(os, C, Step1.to)
               saved == Write(os, C, "absent")
               e == EntryFor(Step1, C, saved)
               R == {Ok(m)}
    <3>1. Refused \/ Attempt(R, Append(rollback, e))
      BY <2>13 DEF ConnectShare
    <3>2. saved \in Machine
      BY <1>1, WriteFacts DEF Values
    <3>3. e \in Entry /\ e.cells \subseteq Footprint(config)
      BY <1>4, <3>2, EntryInFootprint
    <3>4. \A c \in Cell \ Footprint(config) : m[c] = os[c]
      BY <1>1, <1>4, <2>1, WriteFacts, StepInFootprint
    <3>5. \A r \in R : \A c \in Cell \ Footprint(config) : r.os[c] = os[c]
      BY <3>4 DEF Ok
    <3> HIDE DEF R, e, m
    <3> QED
      BY <2>2, <3>1, <3>3, <3>5, AttemptStays
  <2> QED
    BY <1>4, <2>4, <2>6, <2>7, <2>8, <2>9, <2>10, <2>11, <2>12, <2>13 DEF Reversible
<1> QED
  BY <1>2, <1>3, <1>4

\* An entry that is undone stays in the footprint, since it did when it was pushed.
LEMMA UndoStays ==
  ASSUME NEW O, IInvOutside(O), StackInFootprint, UndoLast
  PROVE  StaysInFootprint
<1>1. /\ rollback # <<>> /\ config' = config
      /\ rollback' = SubSeq(rollback, 1, Len(rollback) - 1)
  BY DEF UndoLast
<1>2. PICK r \in UndoResults(Top) : os' = r.os
  BY DEF UndoLast
<1>3. rollback \in Seq(Entry)
  BY DEF IInvOutside, TypeOK
<1>4. Len(rollback) \in DOMAIN rollback /\ Top \in Entry /\ Top = rollback[Len(rollback)]
  BY <1>1, <1>3 DEF Top
<1>5. RestartsToOn(Top) /\ Top.cells \subseteq Footprint(config)
  BY <1>4 DEF IInvOutside, StackInFootprint
<1>6. \A c \in Cell : c \notin Top.cells => os'[c] = os[c]
  BY <1>2, <1>4, <1>5, UndoFacts DEF IInvOutside, TypeOK
<1>7. \A i \in DOMAIN rollback' : i \in DOMAIN rollback /\ rollback'[i] = rollback[i]
  BY <1>1, <1>3
<1>8. Footprint(config)' = Footprint(config)
  BY <1>1 DEF Footprint, CellsOf, Admin
<1>9. StackInFootprint'
  BY <1>7, <1>8 DEF StackInFootprint
<1> QED
  BY <1>5, <1>6, <1>9 DEF StaysInFootprint

\* Every step stays in the footprint.
LEMMA NextStays ==
  ASSUME NEW O, IInvOutside(O), StackInFootprint, [Next]_vars
  PROVE  StaysInFootprint
<1>1. TypeOK
  BY DEF IInvOutside
<1>2. CASE Reversible
  BY <1>1, <1>2, ReversibleStays
<1>3. CASE UndoLast
  BY <1>3, UndoStays
<1>4. CASE RestartAdapter
  <2> DEFINE a == config.drivers[drv].on
  <2>1. UNCHANGED <<config, rollback>>
    BY <1>4 DEF RestartAdapter, DriverDone
  <2>2. PICK r \in Restart(os, a) : os' = r.os
    BY <1>4 DEF RestartAdapter
  <2>3. Admin(a) \in Footprint(config) /\ a \in Targets
    BY <1>1, <1>4, DriverInFootprint DEF RestartAdapter
  <2>4. \A c \in Cell : c # Admin(a) => os'[c] = os[c]
    BY <1>1, <2>2, <2>3, RestartFacts DEF TypeOK
  <2>5. Footprint(config)' = Footprint(config)
    BY <2>1 DEF Footprint, CellsOf, Admin
  <2> QED
    BY <2>1, <2>3, <2>4, <2>5 DEF StaysInFootprint, StackInFootprint
<1>5. ASSUME UNCHANGED <<config, os, rollback>> PROVE StaysInFootprint
  BY <1>5 DEF StaysInFootprint, StackInFootprint, Footprint, CellsOf, Admin
<1>6. CASE FinishReversible \/ InstallDriver \/ FinishDrivers \/ FinishRollback
  BY <1>5, <1>6 DEF FinishReversible, InstallDriver, DriverDone, FinishDrivers, FinishRollback
<1>7. CASE Hooks
  BY <1>5, <1>7 DEF Hooks, RunBeforeHooks, RunAfterHooks, RunAfterRollbackHooks
<1>8. CASE UNCHANGED vars
  BY <1>5, <1>8 DEF vars
<1> QED
  BY <1>2, <1>3, <1>4, <1>6, <1>7, <1>8 DEF Next, Work

\* Whatever fails and whatever is rolled back, an apply leaves every setting alone that
\* its configuration does not name: two applies meet only where their footprints do.
THEOREM WritesOnlyItsFootprintHolds == Spec => WritesOnlyItsFootprint
<1>1. Init => StackInFootprint
  BY DEF Init, StackInFootprint
<1>2. IInv /\ StackInFootprint /\ [Next]_vars =>
        StackInFootprint' /\ \A c \in Cell \ Footprint(config) : os'[c] = os[c]
  BY NextStays DEF IInv, StaysInFootprint
<1>3. IInv /\ StackInFootprint /\ [Next]_vars =>
        [\A c \in Cell \ Footprint(config) : os'[c] = os[c]]_vars
  BY <1>2
<1> QED
  BY <1>1, <1>2, <1>3, Inductive, PTL DEF Spec, WritesOnlyItsFootprint
-----------------------------------------------------------------------------
(* An apply beside other writers.                                          *)

\* A step of somebody else, who writes settings in others only.
AnotherWrites(others) ==
  /\ os' \in Machine
  /\ \A c \in Cell \ others : os'[c] = os[c]
  /\ UNCHANGED <<config, orig, inventoried, seen, phase, at, drv, rollback,
                 irreversible, had, errors, installed, outcome>>

\* Such a step keeps the strengthened invariant for the other settings: what the
\* inventory shows, what the stack saved and what the passed steps asked for is about
\* settings that did not change.
LEMMA AnotherKeeps ==
  ASSUME NEW O, ConformOutside(O), AnotherWrites(O)
  PROVE  ConformOutside(O)'
<1>1. \A c : Unrecorded(c)' <=> Unrecorded(c)
  BY DEF AnotherWrites, Unrecorded, RestartReached, Passed, Step1
<1>2. IInvOutside(O)'
  <2>1. TypeOK' /\ EnableFirst(config.steps)' /\ Control'
    BY DEF AnotherWrites, ConformOutside, IInvOutside, TypeOK, EnableFirst, Control
  <2>2. InventoryIsOriginal(O)' /\ EnabledStepsCovered' /\ MixedWerePassed'
    BY DEF AnotherWrites, ConformOutside, IInvOutside, InventoryIsOriginal,
           EnabledStepsCovered, MixedWerePassed, Passed, CoveredBy
  <2>3. (\A i \in DOMAIN rollback : RestartsToOn(rollback[i]))'
    BY DEF AnotherWrites, ConformOutside, IInvOutside, RestartsToOn, RestartsOnUndo
  <2>4. RecordedOutside(O)'
    BY <1>1, SameStackKeeps DEF AnotherWrites, ConformOutside
  <2> QED
    BY <2>1, <2>2, <2>3, <2>4 DEF IInvOutside
<1>3. AdaptersOnce(config.steps)' /\ Askable(config.steps)'
  BY DEF AnotherWrites, ConformOutside, AdaptersOnce, Askable
<1>4. PassedInForce(O)'
  <2>1. \A k \in DOMAIN config.steps : InForce(O, k) => InForce(O, k)'
    BY <1>1, StaysInForce DEF AnotherWrites
  <2> QED
    BY <2>1 DEF AnotherWrites, ConformOutside, PassedInForce
<1>5. InventoryIsCurrent(O)'
  BY DEF AnotherWrites, ConformOutside, InventoryIsCurrent, NotYet, EnabledDuringApply
<1> QED
  BY <1>2, <1>3, <1>4, <1>5 DEF ConformOutside

\* What a step of this apply keeps, and what it guarantees to another writer.
LEMMA OwnStep ==
  ASSUME NEW O, ConformOutside(O), StackInFootprint, [Next]_vars
  PROVE  /\ ConformOutside(O)' /\ StackInFootprint'
         /\ os' \in Machine /\ \A c \in Cell \ Footprint(config) : os'[c] = os[c]
         /\ Footprint(config)' = Footprint(config)
<1>1. ConformOutside(O)' /\ config' = config
  BY NextConforms, ConfigStays
<1>2. StaysInFootprint
  BY NextStays DEF ConformOutside
<1>3. os' \in Machine
  BY <1>1 DEF ConformOutside, IInvOutside, TypeOK
<1>4. Footprint(config)' = Footprint(config)
  BY <1>1 DEF Footprint, CellsOf, Admin
<1> QED
  BY <1>1, <1>2, <1>3, <1>4 DEF StaysInFootprint

\* What a step of another writer keeps.
LEMMA AnotherStep ==
  ASSUME NEW O, ConformOutside(O), StackInFootprint, AnotherWrites(O)
  PROVE  /\ ConformOutside(O)' /\ StackInFootprint'
         /\ Footprint(config)' = Footprint(config)
<1>1. ConformOutside(O)'
  BY AnotherKeeps
<1>2. Footprint(config)' = Footprint(config)
  BY DEF AnotherWrites, Footprint, CellsOf, Admin
<1> QED
  BY <1>1, <1>2 DEF AnotherWrites, StackInFootprint

\* The strengthened invariant is what an apply promises.
LEMMA ConformKeeps ==
  ASSUME NEW O, ConformOutside(O)
  PROVE  KeepsOutside(O)
<1>1. RecordedOutside(O)
  BY DEF ConformOutside, IInvOutside
<1>2. ASSUME outcome = "rolled_back", NEW c \in Cell \ O
      PROVE  Unrecorded(c) \/ Same(os, orig, c)
  <2>1. ~errors /\ rollback = <<>>
    BY <1>2 DEF ConformOutside, IInvOutside, Control
  <2>2. Unrecorded(c) \/ Recoverable(os, orig, rollback, c)
    BY <1>1, <1>2, <2>1 DEF RecordedOutside
  <2> QED
    BY <2>1, <2>2 DEF Recoverable, CoveredBy
<1>3. outcome = "succeeded" => \A k \in DOMAIN config.steps : InForce(O, k)
  BY DEF ConformOutside, PassedInForce
<1> QED
  BY <1>1, <1>2, <1>3 DEF KeepsOutside, InForce, Superseded

\* Whoever writes settings in others while an apply runs, and whenever, the apply keeps
\* its promises for every other setting: the stack can take it back until the answer is
\* given, after rolled_back it is as it was, after succeeded it is as asked.
THEOREM KeepsOutsideHolds ==
  ASSUME NEW O
  PROVE  Init /\ [][Next \/ AnotherWrites(O)]_vars => []KeepsOutside(O)
<1>1. Init => ConformOutside(O)
  BY InitConforms
<1>2. ConformOutside(O) /\ [Next \/ AnotherWrites(O)]_vars => ConformOutside(O)'
  BY NextConforms, AnotherKeeps
<1>3. ConformOutside(O) => KeepsOutside(O)
  BY ConformKeeps
<1> QED
  BY <1>1, <1>2, <1>3, PTL
=============================================================================
