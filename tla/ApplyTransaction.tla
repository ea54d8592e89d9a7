--------------------------- MODULE ApplyTransaction ---------------------------
(***************************************************************************)
(* One live apply on Windows: apply() of platform/windows/apply.rs and the *)
(* backend calls it makes in smb.rs and wifi.rs.                           *)
(*                                                                         *)
(* The machine is a function from cells to values.  A cell is one setting  *)
(* of one target: the administrative state of an adapter, the ACL of a     *)
(* share, the run state of a service.  A reversible step of the            *)
(* configuration asks for a value of the cells of its operation.  Every    *)
(* native call may fail, and a call that writes several cells may fail     *)
(* after it wrote some of them.  The transaction keeps a stack of          *)
(* rollback entries, which is the Vec<RollbackAction> of the code.         *)
(*                                                                         *)
(* An operator whose name ends in an underscore and a word, such as        *)
(* UndoLast_OldestFirst, is the definition of that name with a bug a       *)
(* careless change could put into the code; no other definition uses it.   *)
(***************************************************************************)
EXTENDS Naturals, Sequences

CONSTANTS
  Targets,     \* the names of adapters, services, shares, connections and profiles
  Drives,      \* the connections that have a drive letter
  Scenarios    \* configurations, each with the machine it is applied to

PartsOf == [ computer_name |-> {"computer_name"},
             workgroup     |-> {"workgroup"},
             dns_suffix    |-> {"dns_suffix"},
             admin         |-> {"admin"},
             mac           |-> {"mac"},
             ipv4          |-> {"address", "dns", "wins"},
             profile       |-> {"profile"},
             scan          |-> {},
             link          |-> {"link"},
             service       |-> {"service"},
             account       |-> {"account"},
             share         |-> {"share", "acl"},
             mapping       |-> {"connection"},
             firewall      |-> {"domain", "private", "public"} ]

Ops     == DOMAIN PartsOf
Parts   == UNION {PartsOf[op] : op \in Ops}
Cell    == [part : Parts, on : Targets]
Values  == {"old", "new", "absent", "mixed", "part", "on", "off", "down",
            "running", "stopped", "paused"}
Machine == [Cell -> Values]

Step   == [op : Ops, on : Targets, to : Values]
Driver == [op : {"install", "restart_adapter"}, on : Targets]
Stages == {"before_apply", "after_apply", "after_rollback"}
Config == [steps : Seq(Step), drivers : Seq(Driver), hooks : SUBSET Stages]

\* The step that enables an adapter comes before the one that sets its MAC.
EnableFirst(steps) ==
  \A i, k \in DOMAIN steps :
    (steps[i].op = "mac" /\ steps[k] = [op |-> "admin", on |-> steps[i].on, to |-> "on"])
      => k < i

ASSUME ScenariosAssumption ==
  /\ Scenarios \subseteq [config : Config, os : Machine]
  /\ \A s \in Scenarios : EnableFirst(s.config.steps)

\* The preflight refuses two entries for one adapter, and an entry disables its
\* adapter last.  An adapter is asked to be on or off, an account to exist.
AdaptersOnce(steps) ==
  \A i, k \in DOMAIN steps :
    steps[i].on = steps[k].on =>
      /\ steps[i].op \in {"admin", "ipv4"} /\ steps[k].op = steps[i].op => i = k
      /\ steps[i].op = "mac" /\ steps[k].op = "admin" /\ steps[k].to = "off" => i < k
Askable(steps) ==
  \A k \in DOMAIN steps :
    /\ steps[k].op = "admin" => steps[k].to \in {"on", "off"}
    /\ steps[k].op = "account" => steps[k].to # "absent"

ASSUME StepsAssumption ==
  \A s \in Scenarios : AdaptersOnce(s.config.steps) /\ Askable(s.config.steps)

VARIABLES
  config,       \* the configuration being applied
  orig,         \* the machine when the apply started
  os,           \* the machine now
  inventoried,  \* whether the adapter inventory of this apply was taken
  seen,         \* the machine as that inventory recorded it
  phase,        \* the part of apply() that runs
  at,           \* the index of the reversible step that runs next
  drv,          \* the index of the driver operation that runs next
  rollback,     \* the stack of rollback entries
  irreversible, \* the flag irreversible_change
  had,          \* the flag had_mutations
  errors,       \* whether some rollback action failed
  installed,    \* whether a driver package was installed
  outcome       \* what apply() returned

vars == <<config, orig, os, inventoried, seen, phase, at, drv, rollback,
          irreversible, had, errors, installed, outcome>>

Phases   == {"before", "reversible", "drivers", "after", "rollback", "cleanup", "done"}
Outcomes == {"none", "succeeded", "failed", "rolled_back"}

-----------------------------------------------------------------------------
(* Cells, results of native calls, rollback entries.                       *)

CellsOf(s)   == [part : PartsOf[s.op], on : {s.on}]
Admin(a)     == [part |-> "admin", on |-> a]

Write(m, C, v) == [c \in Cell |-> IF c \in C THEN v ELSE m[c]]
Copy(m, C, n)  == [c \in Cell |-> IF c \in C THEN n[c] ELSE m[c]]

\* What a native call, or a handler made of such calls, leaves behind.
Ok(m)     == [os |-> m, ok |-> TRUE]
Failed(m) == [os |-> m, ok |-> FALSE]

\* The cells C are written one by one; the first failure ends the call.
Partly(C, v) == {Ok(Write(os, C, v))} \cup {Failed(Write(os, D, v)) : D \in SUBSET C}

\* restart_adapter: disable, then enable, and enable again when that failed.
Restart(m, a) ==
  {Ok(Write(m, {Admin(a)}, "on")),
   Failed(m),                           \* the disable failed
   Failed(Write(m, {Admin(a)}, "on")),  \* the second enable succeeded
   Failed(Write(m, {Admin(a)}, "off"))} \* both enables failed

Result == [os : Machine, ok : BOOLEAN]
Entry  == [op : Ops, cells : SUBSET Cell, saved : Machine]

EntryFor(s, C, m) == [op |-> s.op, cells |-> C, saved |-> m]

Step1 == config.steps[at]
Turn(op) == phase = "reversible" /\ at <= Len(config.steps) /\ Step1.op = op
HeldBy_Some(m, s) == \E c \in CellsOf(s) : m[c] = s.to  \* any() for all()
HeldBy(m, s) == \A c \in CellsOf(s) : m[c] = s.to
Holds(s) == HeldBy(os, s)

-----------------------------------------------------------------------------
(* Control: a step that returns Ok is followed by the next one, an error   *)
(* leaves apply_reversible and starts the rollback.                        *)

Advance == /\ at' = at + 1
           /\ UNCHANGED <<phase, had>>

Abort(stack) == /\ phase' = "rollback"
                /\ had' = (stack # <<>>)
                /\ UNCHANGED at

Attempt(results, stack) ==
  \E r \in results :
    /\ os' = r.os
    /\ rollback' = stack
    /\ IF r.ok THEN Advance ELSE Abort(stack)
    /\ UNCHANGED <<config, orig, inventoried, seen, drv, irreversible, errors,
                   installed, outcome>>

\* A query, a selector or a resolution fails before anything is written.
Refused == Attempt({Failed(os)}, rollback)

\* Nothing to do: the machine already is as requested.
Skip == Attempt({Ok(os)}, rollback)

\* The old value is queried when the call has returned.
RecordAfter_CapturedLate(s) ==
  LET wrote == Write(os, CellsOf(s), s.to)
  IN \/ Refused
     \/ Attempt({Ok(wrote)}, Append(rollback, EntryFor(s, CellsOf(s), wrote)))

\* The entry is registered only after the call returned Ok.
RecordAfter(s) ==
  \/ Refused
  \/ Attempt({Ok(Write(os, CellsOf(s), s.to))},
             Append(rollback, EntryFor(s, CellsOf(s), os)))

\* The entry is registered before the first call.
RecordBefore(s, results, saved) ==
  Attempt(results, Append(rollback, EntryFor(s, CellsOf(s), saved)))

-----------------------------------------------------------------------------
(* The reversible steps.                                                   *)

SetIdentity ==
  \E op \in {"computer_name", "workgroup", "dns_suffix"} :
    /\ Turn(op)
    /\ IF Holds(Step1) THEN Refused \/ Skip ELSE RecordAfter(Step1)

AdapterTurn == Turn("admin") \/ Turn("mac") \/ Turn("ipv4")

\* One inventory serves every adapter of the configuration.
TakeInventory ==
  /\ AdapterTurn
  /\ ~inventoried
  /\ \/ /\ inventoried' = TRUE
        /\ seen' = os
        /\ UNCHANGED <<phase, had>>
     \/ /\ phase' = "rollback"
        /\ had' = (rollback # <<>>)
        /\ UNCHANGED <<inventoried, seen>>
  /\ UNCHANGED <<config, orig, os, at, drv, rollback, irreversible, errors,
                 installed, outcome>>

SetAdapterEnabled ==
  /\ Turn("admin")
  /\ inventoried
  /\ IF seen[Admin(Step1.on)] = Step1.to THEN Refused \/ Skip ELSE RecordAfter(Step1)

\* enabled.is_some() for enabled == Some(true).
EnabledDuringApply_AnyRequest(a) ==
  \/ seen[Admin(a)] = "on"
  \/ \E k \in DOMAIN config.steps : config.steps[k].op = "admin" /\ config.steps[k].on = a

EnabledDuringApply(a) ==
  \/ seen[Admin(a)] = "on"
  \/ \E k \in DOMAIN config.steps : config.steps[k] = [op |-> "admin", on |-> a, to |-> "on"]

\* The registry value is written and registered, then the adapter restarts.
\* Undoing the entry of an enabled adapter restarts it too, which leaves it on.
SetMac ==
  /\ Turn("mac")
  /\ inventoried
  /\ LET wrote == Write(os, CellsOf(Step1), Step1.to)
         a     == Step1.on
     IN \/ Refused
        \/ /\ EnabledDuringApply(a)
           /\ Attempt(Restart(wrote, a),
                      Append(rollback, EntryFor(Step1, CellsOf(Step1) \cup {Admin(a)},
                                                Write(os, {Admin(a)}, "on"))))
        \/ /\ ~EnabledDuringApply(a)
           /\ Attempt({Ok(wrote)}, Append(rollback, EntryFor(Step1, CellsOf(Step1), os)))

\* The restore is registered first and popped again when nothing had to change.
SetIpv4 ==
  /\ Turn("ipv4")
  /\ inventoried
  /\ \/ Refused
     \/ HeldBy(seen, Step1) /\ Skip
     \/ /\ ~HeldBy(seen, Step1)
        /\ RecordBefore(Step1, Partly(CellsOf(Step1), Step1.to), seen)

SetWifiProfile ==
  /\ Turn("profile")
  /\ \/ Refused
     \/ RecordBefore(Step1, {Ok(Write(os, CellsOf(Step1), Step1.to)), Failed(os)}, os)

ScanWifi == Turn("scan") /\ (Refused \/ Skip)

\* Connect or disconnect, then poll until the link is as requested.  After an
\* error or a timeout the link is where it was, down, or as requested.
Relinked(m, v) ==
  {Ok(Write(os, m, v))} \cup {Failed(Write(os, m, w)) : w \in {"down", v}} \cup {Failed(os)}

SetLink ==
  /\ Turn("link")
  /\ Refused \/ RecordBefore(Step1, Relinked(CellsOf(Step1), Step1.to), os)

\* service_is_running knows two states only: a paused or pending service
\* counts as not running, and the entry keeps that Boolean.
Running(m, c) == m[c] = "running"
AsBoolean(m, C) ==
  [c \in Cell |-> IF c \in C THEN (IF Running(m, c) THEN "running" ELSE "stopped") ELSE m[c]]

ServiceMoved(C, v) ==
  {Ok(Write(os, C, v))} \cup {Failed(Write(os, C, w)) : w \in {"running", "stopped", "paused"}}

SetService ==
  /\ Turn("service")
  /\ LET asked == \A c \in CellsOf(Step1) : Running(os, c) = (Step1.to = "running")
     IN \/ Refused
        \/ asked /\ Skip
        \/ /\ ~asked
           /\ RecordBefore(Step1, ServiceMoved(CellsOf(Step1), Step1.to),
                           AsBoolean(os, CellsOf(Step1)))

\* An account that exists is left unchanged.
AddAccount ==
  /\ Turn("account")
  /\ IF \A c \in CellsOf(Step1) : os[c] = "absent"
     THEN RecordAfter(Step1)
     ELSE Refused \/ Skip

\* An existing share takes two calls, information and ACL.  When the second
\* fails the share is put back at once, outside the rollback stack, and that
\* may fail as well.
ApplyShare ==
  /\ Turn("share")
  /\ LET info == [part |-> "share", on |-> Step1.on]
     IN \/ RecordAfter(Step1)
        \/ /\ os[info] # "absent"
           /\ Attempt({Failed(os), Failed(Write(os, {info}, Step1.to))}, rollback)

\* A drive mapped to the requested share is kept, one mapped elsewhere is an error.
MapDrive ==
  /\ Turn("mapping")
  /\ Step1.on \in Drives
  /\ \/ Refused
     \/ Holds(Step1) /\ Skip
     \/ (\A c \in CellsOf(Step1) : os[c] = "absent") /\ RecordAfter(Step1)

\* Without a drive letter nothing is asked first: the share is connected, again if it
\* was connected, and undoing the entry cancels the connection.
ConnectShare ==
  /\ Turn("mapping")
  /\ Step1.on \notin Drives
  /\ LET C == CellsOf(Step1)
     IN \/ Refused
        \/ Attempt({Ok(Write(os, C, Step1.to))},
                   Append(rollback, EntryFor(Step1, C, Write(os, C, "absent"))))

SetFirewall ==
  /\ Turn("firewall")
  /\ \/ Refused
     \/ Holds(Step1) /\ Skip
     \/ ~Holds(Step1) /\ RecordBefore(Step1, Partly(CellsOf(Step1), Step1.to), os)

-----------------------------------------------------------------------------
(* Hooks and drivers.                                                      *)

\* The hooks of a stage run one after the other; the first failure ends them.
HookResults(stage) == IF stage \in config.hooks THEN BOOLEAN ELSE {TRUE}

\* An error here leaves apply() before the rollback stack is looked at.
RunBeforeHooks ==
  /\ phase = "before"
  /\ \E ok \in HookResults("before_apply") :
       /\ phase'   = IF ok THEN "reversible" ELSE "done"
       /\ outcome' = IF ok THEN "none" ELSE "failed"
  /\ UNCHANGED <<config, orig, os, inventoried, seen, at, drv, rollback,
                 irreversible, had, errors, installed>>

\* Drivers are taken for reversible steps.
FinishReversible_ForgetsDrivers ==
  /\ phase = "reversible"
  /\ at > Len(config.steps)
  /\ phase' = "drivers"
  /\ UNCHANGED <<config, orig, os, inventoried, seen, at, drv, rollback, irreversible,
                 had, errors, installed, outcome>>

FinishReversible ==
  /\ phase = "reversible"
  /\ at > Len(config.steps)
  /\ phase' = "drivers"
  /\ irreversible' = \E k \in DOMAIN config.drivers : config.drivers[k].op = "install"
  /\ UNCHANGED <<config, orig, os, inventoried, seen, at, drv, rollback, had,
                 errors, installed, outcome>>

DriverTurn(op) ==
  phase = "drivers" /\ drv <= Len(config.drivers) /\ config.drivers[drv].op = op

DriverDone(ok) ==
  /\ IF ok THEN drv' = drv + 1 /\ UNCHANGED <<phase, had>>
           ELSE phase' = "rollback" /\ had' = (rollback # <<>>) /\ UNCHANGED drv
  /\ UNCHANGED <<config, orig, inventoried, seen, at, rollback, irreversible,
                 errors, outcome>>

\* The package may be in place although the restart of the device failed.
InstallDriver ==
  /\ DriverTurn("install")
  /\ \E ok \in BOOLEAN, done \in BOOLEAN :
       /\ ok => done
       /\ installed' = (installed \/ done)
       /\ DriverDone(ok)
  /\ UNCHANGED os

RestartAdapter ==
  /\ DriverTurn("restart_adapter")
  /\ \E r \in Restart(os, config.drivers[drv].on) :
       os' = r.os /\ DriverDone(r.ok)
  /\ UNCHANGED installed

FinishDrivers ==
  /\ phase = "drivers"
  /\ drv > Len(config.drivers)
  /\ phase' = "after"
  /\ UNCHANGED <<config, orig, os, inventoried, seen, at, drv, rollback,
                 irreversible, had, errors, installed, outcome>>

RunAfterHooks ==
  /\ phase = "after"
  /\ \E ok \in HookResults("after_apply") :
       IF ok THEN phase' = "done" /\ outcome' = "succeeded" /\ UNCHANGED had
             ELSE phase' = "rollback" /\ had' = (rollback # <<>>) /\ UNCHANGED outcome
  /\ UNCHANGED <<config, orig, os, inventoried, seen, at, drv, rollback,
                 irreversible, errors, installed>>

-----------------------------------------------------------------------------
(* Rollback: every entry is executed, last registered first; an error is   *)
(* collected and the remaining entries still run.                          *)

Top == rollback[Len(rollback)]

\* Firewall profiles are restored in this order.
ProfileOrder == <<"domain", "private", "public">>
FirstProfiles(n) == {ProfileOrder[k] : k \in 1..n}

\* An entry restores everything its capture has seen.
Undone_Everything(e) == Copy(os, Cell, e.saved)

Undone(e)        == Copy(os, e.cells, e.saved)
PartUndone(e, P) == Copy(os, {c \in e.cells : c.part \in P}, e.saved)

UndoSimple(e) == {Ok(Undone(e)), Failed(os)}

\* The registry value comes first; then the adapter restarts.
RestartsOnUndo(e) == e.op = "mac" /\ \E c \in e.cells : c.part = "admin"
UndoMac(e) ==
  {Failed(os)} \cup
  UNION {Restart(PartUndone(e, {"mac"}), c.on) : c \in {d \in e.cells : d.part = "admin"}}

\* Addresses, DNS and WINS are restored one by one and then verified.  A mixed setting
\* comes back in part, unseen by the verification: IPv6 servers beside IPv4 servers from
\* DHCP, and gateways by hand beside no address by hand.
TwoSided      == {"address", "dns"}
HalfUndone(e) == {c \in e.cells : c.part \in TwoSided /\ e.saved[c] = "mixed"}
UndoIpv4(e) ==
  LET Halves(m) == {Write(m, D, "part") : D \in SUBSET HalfUndone(e)}
  IN {Ok(m) : m \in Halves(Undone(e))}
       \cup {Failed(m) : m \in UNION {Halves(PartUndone(e, P)) : P \in SUBSET PartsOf.ipv4}}

UndoFirewall(e) == {Ok(Undone(e))} \cup {Failed(PartUndone(e, FirstProfiles(n))) : n \in 0..2}

\* A share that existed gets its information back, then its ACL.
UndoShare(e) ==
  UndoSimple(e) \cup {Failed(PartUndone(e, {"share"})) : c \in {d \in e.cells : e.saved[d] # "absent"}}

UndoService(e) ==
  {Ok(Undone(e))} \cup {Failed(Write(os, e.cells, w)) : w \in {"running", "stopped", "paused"}}

UndoLink(e) == UndoSimple(e) \cup {Failed(Write(os, e.cells, "down")), Failed(Undone(e))}

UndoResults(e) ==
  CASE RestartsOnUndo(e)   -> UndoMac(e)
    [] e.op = "ipv4"       -> UndoIpv4(e)
    [] e.op = "firewall"   -> UndoFirewall(e)
    [] e.op = "share"      -> UndoShare(e)
    [] e.op = "service"    -> UndoService(e)
    [] e.op = "link"       -> UndoLink(e)
    [] OTHER               -> UndoSimple(e)

\* The entries are executed in the order they were registered.
UndoLast_OldestFirst ==
  /\ phase = "rollback"
  /\ rollback # <<>>
  /\ \E r \in UndoResults(Head(rollback)) :
       os' = r.os /\ errors' = (errors \/ ~r.ok)
  /\ rollback' = Tail(rollback)
  /\ UNCHANGED <<config, orig, inventoried, seen, phase, at, drv, irreversible,
                 had, installed, outcome>>

\* An action that fails is retried until it works.
UndoLast_Retries ==
  /\ phase = "rollback"
  /\ rollback # <<>>
  /\ \E r \in UndoResults(Top) :
       /\ os' = r.os
       /\ errors' = (errors \/ ~r.ok)
       /\ rollback' = IF r.ok THEN SubSeq(rollback, 1, Len(rollback) - 1) ELSE rollback
  /\ UNCHANGED <<config, orig, inventoried, seen, phase, at, drv, irreversible,
                 had, installed, outcome>>

UndoLast ==
  /\ phase = "rollback"
  /\ rollback # <<>>
  /\ \E r \in UndoResults(Top) :
       os' = r.os /\ errors' = (errors \/ ~r.ok)
  /\ rollback' = SubSeq(rollback, 1, Len(rollback) - 1)
  /\ UNCHANGED <<config, orig, inventoried, seen, phase, at, drv, irreversible,
                 had, installed, outcome>>

FinishRollback ==
  /\ phase = "rollback"
  /\ rollback = <<>>
  /\ phase' = "cleanup"
  /\ UNCHANGED <<config, orig, os, inventoried, seen, at, drv, rollback,
                 irreversible, had, errors, installed, outcome>>

\* The collected errors are logged only.
RunAfterRollbackHooks_IgnoresErrors ==
  /\ phase = "cleanup"
  /\ \E ok \in HookResults("after_rollback") :
       outcome' = IF had /\ ~irreversible /\ ok THEN "rolled_back" ELSE "failed"
  /\ phase' = "done"
  /\ UNCHANGED <<config, orig, os, inventoried, seen, at, drv, rollback,
                 irreversible, had, errors, installed>>

\* The after_rollback hooks always run, and their error counts.
RunAfterRollbackHooks ==
  /\ phase = "cleanup"
  /\ \E ok \in HookResults("after_rollback") :
       outcome' = IF had /\ ~irreversible /\ ~errors /\ ok THEN "rolled_back" ELSE "failed"
  /\ phase' = "done"
  /\ UNCHANGED <<config, orig, os, inventoried, seen, at, drv, rollback,
                 irreversible, had, errors, installed>>

-----------------------------------------------------------------------------
Init ==
  \E s \in Scenarios :
    /\ config = s.config
    /\ os = s.os
    /\ orig = s.os
    /\ seen = s.os
    /\ inventoried = FALSE
    /\ phase = "before"
    /\ at = 1
    /\ drv = 1
    /\ rollback = <<>>
    /\ irreversible = FALSE
    /\ had = FALSE
    /\ errors = FALSE
    /\ installed = FALSE
    /\ outcome = "none"

Reversible ==
  \/ SetIdentity \/ TakeInventory \/ SetAdapterEnabled \/ SetMac \/ SetIpv4
  \/ SetWifiProfile \/ ScanWifi \/ SetLink \/ SetService \/ AddAccount
  \/ ApplyShare \/ MapDrive \/ ConnectShare \/ SetFirewall

Work ==
  \/ Reversible \/ FinishReversible
  \/ InstallDriver \/ RestartAdapter \/ FinishDrivers
  \/ UndoLast \/ FinishRollback

Hooks == RunBeforeHooks \/ RunAfterHooks \/ RunAfterRollbackHooks

Next == Work \/ Hooks

Spec == Init /\ [][Next]_vars

\* Native calls return and waits have deadlines, so the work goes on.  A hook
\* that is waited for has no deadline: only a stage without hooks must pass.
StageOf == [before |-> "before_apply", after |-> "after_apply", cleanup |-> "after_rollback"]
InHook == phase \in DOMAIN StageOf /\ StageOf[phase] \in config.hooks

FairSpec == Spec /\ WF_vars(Work) /\ WF_vars(~InHook /\ Hooks)

-----------------------------------------------------------------------------
(* Properties.                                                             *)

\* Every variable keeps its type and both loops stop at the end of their list.
TypeOK ==
  /\ config \in Config
  /\ orig \in Machine /\ os \in Machine /\ seen \in Machine
  /\ inventoried \in BOOLEAN
  /\ phase \in Phases
  /\ at \in 1..(Len(config.steps) + 1)
  /\ drv \in 1..(Len(config.drivers) + 1)
  /\ rollback \in Seq(Entry)
  /\ irreversible \in BOOLEAN /\ had \in BOOLEAN /\ errors \in BOOLEAN
  /\ installed \in BOOLEAN
  /\ outcome \in Outcomes

\* A service is captured as a Boolean, every other setting by its value.
Same(m, n, c) ==
  IF c.part = "service" THEN Running(m, c) = Running(n, c) ELSE m[c] = n[c]

RestartReached(k) ==
  at > Len(config.steps) /\ k <= drv /\ config.drivers[k].op = "restart_adapter"

\* A step that asks for c was made, or failed.
Passed(c) ==
  \E k \in DOMAIN config.steps :
    /\ c \in CellsOf(config.steps[k])
    /\ k < at \/ (k = at /\ phase \notin {"before", "reversible"})

\* The two changes the code makes without an entry on the stack: an adapter
\* restart among the drivers, and a share whose immediate restore failed; and the
\* two whose entry does not put back what was there: a connection without a drive
\* letter that existed before, and a mixed setting of an adapter.
Unrecorded(c) ==
  \/ /\ c.part = "admin"
     /\ \E k \in DOMAIN config.drivers : RestartReached(k) /\ config.drivers[k].on = c.on
  \/ /\ phase \notin {"before", "reversible"}
     /\ at <= Len(config.steps)
     /\ Step1.op = "share"
     /\ c \in CellsOf(Step1)
  \/ c.part = "connection" /\ c.on \notin Drives /\ orig[c] # "absent" /\ Passed(c)
  \/ /\ c.part \in TwoSided /\ orig[c] = "mixed"
     /\ phase \notin {"before", "reversible"} /\ Passed(c)

CoveredBy(stack, c) == \E i \in DOMAIN stack : c \in stack[i].cells

\* Emptying the stack from its top takes the cell c of the machine m back to n.
Recoverable(m, n, stack, c) ==
  \/ ~CoveredBy(stack, c) /\ Same(m, n, c)
  \/ \E i \in DOMAIN stack :
       /\ c \in stack[i].cells
       /\ \A j \in 1..(i - 1) : c \notin stack[j].cells
       /\ Same(stack[i].saved, n, c)

\* At every moment, a setting that no rollback entry covers is the original one, and
\* for a covered setting the entry that will be undone last, which is the oldest one,
\* holds the original value.  So the stack can always take the machine back, whatever
\* call fails next and however often a setting was written (MAC restarts, connect after
\* connect).  The settings in others are the ones somebody else may write meanwhile.
RecordedOutside(others) ==
  ~errors => \A c \in Cell \ others : Unrecorded(c) \/ Recoverable(os, orig, rollback, c)
RecordedChanges == RecordedOutside({})

\* What makes RecordedOutside inductive, whatever somebody else writes to the settings
\* in others meanwhile: which flags and stacks go with which phase,
Control ==
  /\ phase = "before" => rollback = <<>> /\ at = 1
  /\ phase = "before" => ~inventoried
  /\ phase \in {"before", "reversible", "drivers", "after"} => ~errors
  /\ phase \in {"before", "reversible"} => ~installed
  /\ phase \in {"drivers", "after"} => at > Len(config.steps)
  /\ phase = "drivers" =>
       irreversible = \E k \in DOMAIN config.drivers : config.drivers[k].op = "install"
  /\ phase = "cleanup" => rollback = <<>>
  /\ phase # "done" => outcome = "none"
  /\ phase = "done" => outcome = "succeeded" \/ (outcome # "none" /\ rollback = <<>>)
  /\ installed => irreversible
  /\ outcome = "rolled_back" => ~errors /\ ~irreversible

\* what the inventory reads is the original machine, since it is taken before any
\* adapter setting is recorded,
FromInventory == {"admin", "address", "dns", "wins"}
InventoryIsOriginal(others) ==
  /\ \A c \in Cell \ others : c.part \in FromInventory => seen[c] = orig[c]
  /\ ~inventoried => \A c \in Cell : c.part \in FromInventory => ~CoveredBy(rollback, c)

\* an adapter that a passed step enabled was in the inventory, and was enabled there or
\* is on the stack,
EnabledStepsCovered ==
  phase = "reversible" =>
    \A k \in DOMAIN config.steps :
      LET s == config.steps[k]
      IN (k < at /\ s.op = "admin" /\ s.to = "on") =>
           inventoried /\ (seen[Admin(s.on)] = "on" \/ CoveredBy(rollback, Admin(s.on)))

\* an entry for a mixed setting is the one of a step that was made,
MixedWerePassed ==
  \A c \in Cell : c.part \in TwoSided /\ CoveredBy(rollback, c) => Passed(c)

\* and an entry whose undo restarts an adapter restores the state "on".
RestartsToOn(e) ==
  RestartsOnUndo(e) =>
    \E a \in Targets : /\ e.cells = {[part |-> "mac", on |-> a], Admin(a)}
                       /\ e.saved[Admin(a)] = "on"

IInvOutside(others) ==
  /\ TypeOK
  /\ EnableFirst(config.steps)
  /\ Control
  /\ InventoryIsOriginal(others)
  /\ EnabledStepsCovered
  /\ MixedWerePassed
  /\ \A i \in DOMAIN rollback : RestartsToOn(rollback[i])
  /\ RecordedOutside(others)
IInv == IInvOutside({})

Restored == \A c \in Cell : Unrecorded(c) \/ Same(os, orig, c)

\* An apply that did not succeed and reports no rollback error left every
\* setting it accounts for as it found it, wherever the failure struck.
AbortRestores ==
  (outcome \in {"failed", "rolled_back"} /\ ~errors) => Restored

\* The answer rolled_back is never given when a driver package was installed,
\* and only when every accounted setting is the original one.
RolledBackIsClean ==
  outcome = "rolled_back" => ~installed /\ Restored

Conforms(s) ==
  \A c \in CellsOf(s) :
    CASE s.op = "service" -> Running(os, c) = (s.to = "running")
      [] s.op = "account" -> os[c] # "absent"
      [] s.op = "admin"   -> os[c] = s.to \/ Unrecorded(c)
      [] OTHER            -> os[c] = s.to

\* After a successful apply every requested setting is in force, for the last
\* step that asked for it: later steps (the restart after a MAC change, a
\* second Wi-Fi action, the drivers) have not undone an earlier one.
SucceededConforms ==
  outcome = "succeeded" =>
    \A k \in DOMAIN config.steps :
      \/ \E l \in DOMAIN config.steps :
           l > k /\ CellsOf(config.steps[l]) = CellsOf(config.steps[k])
      \/ Conforms(config.steps[k])

\* The settings an apply of cfg may write: what its steps ask for, and the state
\* of the adapters it restarts.
Footprint(cfg) ==
  (UNION {CellsOf(cfg.steps[k]) : k \in DOMAIN cfg.steps})
    \cup {Admin(cfg.steps[k].on) : k \in {i \in DOMAIN cfg.steps : cfg.steps[i].op = "mac"}}
    \cup {Admin(cfg.drivers[k].on) : k \in {i \in DOMAIN cfg.drivers :
                                              cfg.drivers[i].op = "restart_adapter"}}

\* No call of an apply, the ones of its rollback included, changes a setting outside
\* the footprint of its configuration.
WritesOnlyItsFootprint == [][\A c \in Cell \ Footprint(config) : os'[c] = os[c]]_vars

\* RecordedChanges, RolledBackIsClean and SucceededConforms for the settings outside
\* others, the ones that somebody else may write while the apply runs.
KeepsOutside(others) ==
  /\ RecordedOutside(others)
  /\ outcome = "rolled_back" => \A c \in Cell \ others : Unrecorded(c) \/ Same(os, orig, c)
  /\ outcome = "succeeded" =>
       \A k \in DOMAIN config.steps :
         \/ CellsOf(config.steps[k]) \cap others # {}
         \/ \E l \in DOMAIN config.steps :
              l > k /\ CellsOf(config.steps[l]) = CellsOf(config.steps[k])
         \/ Conforms(config.steps[k])

\* Every apply returns, unless it waits for the process of a hook.
EndsOrWaitsOnHook == <>[](outcome # "none" \/ InHook)

Atomic == INSTANCE AtomicApply WITH restored <- Restored

\* The transaction implements the abstract apply the daemon relies on.
ImplementsAtomic == Atomic!Spec

\* The field rolled_back says "whether every completed mutation was successfully
\* rolled back" (platform/mod.rs), so nothing at all may differ.
RolledBackRestoresAll ==
  outcome = "rolled_back" => \A c \in Cell : Same(os, orig, c)
=============================================================================
