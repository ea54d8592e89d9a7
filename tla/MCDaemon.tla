------------------------------ MODULE MCDaemon ------------------------------
(***************************************************************************)
(* Instances of DaemonJobs, chosen with the initial state: a restart under *)
(* the eyes of one client while another shuts daemons down, two clients of *)
(* one process, and two applies at once; and of ConcurrentApply, which is  *)
(* what two applies at once do to the machine.  A behaviour belongs to one *)
(* of the two modules, and the other one rests.                            *)
(***************************************************************************)
EXTENDS DaemonJobs, ConcurrentApply

CONSTANTS d1, d2, c1, c2, j1, j2, a1, a2

MCDaemons == {d1, d2}
MCClients == {c1, c2}
MCJobs    == {j1, j2}

VARIABLE instance

-----------------------------------------------------------------------------
(* Jobs.                                                                   *)

Instances ==
  {[daemons |-> MCDaemons, clients |-> MCClients, stoppers |-> {c2}, jobs |-> {j1}],
   [daemons |-> {d1}, clients |-> MCClients, stoppers |-> {}, jobs |-> {j1}],
   [daemons |-> {d1}, clients |-> {c1}, stoppers |-> {}, jobs |-> MCJobs]}

\* Nobody asks the daemon for anything.
Resting == [daemons |-> {}, clients |-> {}, stoppers |-> {}, jobs |-> {}]

\* Identifiers that are not part of the instance are used up.
UsedUp == [NoCall EXCEPT !.at = "dropped"]

JobsInit ==
  /\ Init!1 /\ Init!2 /\ Init!3 /\ Init!4 /\ Init!5
  /\ call = [j \in Jobs |-> IF j \in instance.jobs THEN NoCall ELSE UsedUp]
  /\ Init!7 /\ Init!8

\* Where some clients stop daemons they do nothing else, and the others ask for applies and jobs.
MCRequest(c) ==
  /\ Request(c)
  /\ instance.stoppers # {} =>
       conn'[c].kind \in (IF c \in instance.stoppers THEN {"none", "shutdown"}
                                                    ELSE {"none", "apply", "status", "list"})

-----------------------------------------------------------------------------
(* Applies.                                                                *)

Ask(op, on, to) == [op |-> op, on |-> on, to |-> to]
Cfg(steps, drivers) == [steps |-> steps, drivers |-> drivers, hooks |-> {}]

MCTargets == {a1, a2}
MCDrives  == {}

\* A MAC address, which disables and enables its adapter, beside the address of the same
\* adapter, a service and a driver operation.
Nothing == Cfg(<<>>, <<>>)
Mac     == Cfg(<<Ask("admin", a1, "on"), Ask("mac", a1, "new")>>, <<>>)
Others  == {Cfg(<<Ask("ipv4", a1, "new"), Ask("service", a1, "stopped")>>, <<>>),
            Cfg(<<Ask("service", a1, "stopped")>>, <<[op |-> "restart_adapter", on |-> a2]>>)}

\* The adapters are disabled, the service runs.
Before == [computer_name |-> "old", workgroup |-> "old", dns_suffix |-> "old", admin |-> "off",
           mac |-> "old", address |-> "old", dns |-> "old", wins |-> "old", profile |-> "old",
           link |-> "old", service |-> "running", account |-> "old", share |-> "old",
           acl |-> "old", connection |-> "absent", domain |-> "old", private |-> "old",
           public |-> "old"]
Found == [c \in [part : DOMAIN Before, on : MCTargets] |-> Before[c.part]]

MCScenarios == [config : {Nothing, Mac} \cup Others, os : {Found}]

\* Neither apply has anything to do, and neither begins.
AppliesRest ==
  BothBegin /\ config = Nothing /\ config2 = Nothing

-----------------------------------------------------------------------------
MCInit ==
  /\ instance \in Instances \cup {Resting}
  /\ JobsInit
  /\ IF instance = Resting
       THEN BothBegin /\ config = Mac /\ config2 \in Others
       ELSE AppliesRest

InJobs ==
  /\ \/ \E d \in instance.daemons : Process(d)
     \/ \E c \in instance.clients : MCRequest(c)
     \/ \E j \in instance.jobs : Background(j)
  /\ UNCHANGED <<instance, machine>>
InApplies == instance = Resting /\ BothRun /\ UNCHANGED <<instance, vars>>

MCNext == InJobs \/ InApplies

MCSpec == MCInit /\ [][MCNext]_<<vars, instance, machine>> /\ Fairness
=============================================================================
