--------------------------- MODULE DaemonLifecycle ---------------------------
(***************************************************************************)
(* Who runs the daemon: the commands enable, disable, start and stop, the  *)
(* autostart of a request, the service control manager (SCM) and the       *)
(* processes that compete for the endpoint, on Windows                     *)
(* (netplan-cli/service.rs, netplan-cli/main.rs, windows_service.rs).      *)
(*                                                                         *)
(* A command is a list of stages; a stage is one call to the SCM or to the *)
(* endpoint, or one wait, and may put further stages in front of the list. *)
(* Every call may fail and every wait may reach its limit, but a call of a *)
(* daemon has no deadline.  A request is a live apply.  Operators with a   *)
(* suffix such as Answer_Impatient are plausible bugs, as in               *)
(* ApplyTransaction.                                                       *)
(***************************************************************************)
EXTENDS Naturals, Sequences, SequencesExt

CONSTANTS
  Clients,  \* invocations of the command line, one command each
  Procs,    \* daemon processes
  Attempts  \* how often a request is sent after an autostart; the code has 40

ASSUME AttemptsAssumption == Attempts \in Nat

VARIABLES
  scm,    \* the service: installed, marked for deletion, and its state
  proc,   \* the processes
  cli,    \* the command of each client and the stages it has left
  ran,    \* the processes that ran the request of each client, in order
  alone,  \* whether no other command began, and no daemon failed, since this one began
  missed  \* the clients that found the endpoint absent although a daemon served it

vars == <<scm, proc, cli, ran, alone, missed>>

Unused == [kind |-> "none", at |-> "unused", stop |-> FALSE]
NoCommand == [cmd |-> "none", todo |-> <<>>, failed |-> FALSE, long |-> FALSE]

Commands == {"enable", "disable", "start", "stop", "request"}

Program == [ enable  |-> <<"look", "shutdown", "install", "launch", "ready">>,
             disable |-> <<"look", "shutdown">>,
             start   |-> <<"look">>,
             stop    |-> <<"look", "shutdown">>,
             request |-> <<"call">> ]

\* The processes in serve().  One that has handed its pipe instance to the task of a
\* connection has none until it creates the next.
InServe   == {"serving", "between"}
Serving   == {p \in Procs : proc[p].at \in InServe}
Listening == {p \in Procs : proc[p].at = "serving"}

\* The process the SCM counts as the service.
Hosts == {p \in Procs : /\ proc[p].kind = "service"
                        /\ proc[p].at \in InServe \cup {"starting", "opening", "returned"}}

-----------------------------------------------------------------------------
(* Stages.                                                                 *)

Stage(c, s) == cli[c].todo # <<>> /\ Head(cli[c].todo) = s
Goto(c, stages) == cli' = [cli EXCEPT ![c].todo = stages \o Tail(@)]
Proceed(c) == Goto(c, <<>>)
Fail(c) == cli' = [cli EXCEPT ![c].todo = <<>>, ![c].failed = TRUE]

\* No command is under way and no process is about to open or close the endpoint.
Quiet == /\ \A c \in Clients : cli[c].todo = <<>>
         /\ \A p \in Procs : /\ proc[p].at \notin {"starting", "opening"}
                             /\ proc[p].at \in InServe => ~proc[p].stop

\* The answer to a request may be longer than a frame, which the daemon does not send.
Begin(c) ==
  /\ cli[c] = NoCommand
  /\ \E cmd \in Commands, long \in BOOLEAN :
       /\ long => cmd = "request"
       /\ cli' = [cli EXCEPT ![c] = [cmd |-> cmd, todo |-> Program[cmd], failed |-> FALSE,
                                     long |-> long]]
  /\ alone' = [x \in Clients |-> x = c /\ Quiet]
  /\ UNCHANGED <<scm, proc, ran, missed>>

\* is_installed, and what it decides.
Installed == [ enable  |-> <<"query_stop">>,
               disable |-> <<"query_stop", "delete">>,
               start   |-> <<"launch", "ready">>,
               stop    |-> <<"query_stop">>,
               request |-> <<"launch", "retry">> ]
Missing == [ enable |-> <<>>, disable |-> <<>>, start |-> <<"probe">>, stop |-> <<>>,
             request |-> <<"spawn", "retry">> ]

Look(c) ==
  /\ Stage(c, "look")
  /\ \/ Fail(c)
     \/ Goto(c, IF scm.installed THEN Installed[cli[c].cmd] ELSE Missing[cli[c].cmd])
  /\ UNCHANGED <<scm, proc, ran, alone, missed>>

\* stop_handle asks for the state first.  A service that disappeared is an error
\* for stop and enable and nothing to do for disable.
QueryStop(c) ==
  /\ Stage(c, "query_stop")
  /\ \/ Fail(c)
     \/ /\ ~scm.installed
        /\ cli[c].cmd = "disable"
        /\ cli' = [cli EXCEPT ![c].todo = <<"shutdown">>]
     \/ /\ scm.installed
        /\ Goto(c, CASE scm.state = "stopped"      -> <<>>
                     [] scm.state = "stop_pending" -> <<"await_stopped">>
                     [] OTHER                      -> <<"control">>)
  /\ UNCHANGED <<scm, proc, ran, alone, missed>>

\* The handler reports STOPPED itself.
Control_ReportsStopped(c) ==
  /\ Stage(c, "control")
  /\ scm.state = "running"
  /\ scm' = [scm EXCEPT !.state = "stopped"]
  /\ proc' = [p \in Procs |-> IF p \in Hosts THEN [proc[p] EXCEPT !.stop = TRUE] ELSE proc[p]]
  /\ Goto(c, <<"await_stopped">>)
  /\ UNCHANGED <<ran, alone, missed>>

\* A running service gets the control: its handler reports STOP_PENDING and raises
\* the shutdown flag.  One that has stopped meanwhile is as good; a service that
\* is starting or stopping accepts no control.
Control(c) ==
  /\ Stage(c, "control")
  /\ \/ Fail(c) /\ UNCHANGED <<scm, proc>>
     \/ scm.state = "stopped" /\ Goto(c, <<"await_stopped">>) /\ UNCHANGED <<scm, proc>>
     \/ /\ scm.state = "running"
        /\ scm' = [scm EXCEPT !.state = "stop_pending"]
        /\ proc' = [p \in Procs |-> IF p \in Hosts THEN [proc[p] EXCEPT !.stop = TRUE] ELSE proc[p]]
        /\ Goto(c, <<"await_stopped">>)
  /\ UNCHANGED <<ran, alone, missed>>

Awaits(c)  == Stage(c, "await_stopped") \/ Stage(c, "await_running")
Awaited(c) == IF Stage(c, "await_stopped") THEN "stopped" ELSE "running"

\* wait_for_state without its deadline.
AwaitState_Forever(c) ==
  /\ Awaits(c)
  /\ scm.state = Awaited(c) /\ Proceed(c)
  /\ UNCHANGED <<scm, proc, ran, alone, missed>>

AwaitState(c) ==
  /\ Awaits(c)
  /\ Fail(c) \/ (scm.state = Awaited(c) /\ Proceed(c))
  /\ UNCHANGED <<scm, proc, ran, alone, missed>>

\* A service that is not stopped is removed when it stops.
Delete(c) ==
  /\ Stage(c, "delete")
  /\ \/ Fail(c) /\ UNCHANGED scm
     \/ /\ Proceed(c)
        /\ scm' = IF scm.state = "stopped" THEN [scm EXCEPT !.installed = FALSE]
                                           ELSE [scm EXCEPT !.doomed = scm.installed]
  /\ UNCHANGED <<proc, ran, alone, missed>>

Install(c) ==
  /\ Stage(c, "install")
  /\ \/ Fail(c) /\ UNCHANGED scm
     \/ ~scm.doomed /\ Proceed(c) /\ scm' = [scm EXCEPT !.installed = TRUE]
  /\ UNCHANGED <<proc, ran, alone, missed>>

\* start_handle asks for the state first.
Launch(c) ==
  /\ Stage(c, "launch")
  /\ \/ Fail(c)
     \/ /\ scm.installed
        /\ Goto(c, CASE scm.state = "running"       -> <<>>
                     [] scm.state = "start_pending" -> <<"await_running">>
                     [] scm.state = "stop_pending"  -> <<"await_stopped", "start_service">>
                     [] scm.state = "stopped"       -> <<"start_service">>)
  /\ UNCHANGED <<scm, proc, ran, alone, missed>>

Run(p, kind) ==
  proc[p] = Unused /\ proc' = [proc EXCEPT ![p] = [Unused EXCEPT !.kind = kind, !.at = "starting"]]

\* StartServiceW; a service that is not stopped counts as started.
StartService(c) ==
  /\ Stage(c, "start_service")
  /\ \/ Fail(c) /\ UNCHANGED <<scm, proc>>
     \/ scm.state # "stopped" /\ Goto(c, <<"await_running">>) /\ UNCHANGED <<scm, proc>>
     \/ /\ scm.state = "stopped" /\ scm.installed /\ ~scm.doomed
        /\ scm' = [scm EXCEPT !.state = "start_pending"]
        /\ \E p \in Procs : Run(p, "service")
        /\ Goto(c, <<"await_running">>)
  /\ UNCHANGED <<ran, alone, missed>>

\* The pipe has no instance: nobody serves it, or who does is between two of them.
FindsAbsent(c) ==
  /\ Listening = {}
  /\ missed' = IF Serving = {} THEN missed ELSE missed \cup {c}

\* Shutdown is sent and nobody waits for its effect.
ShutdownIfRunning_NoWait(c) ==
  /\ Stage(c, "shutdown")
  /\ \E p \in Listening : proc' = [proc EXCEPT ![p].stop = TRUE] /\ Proceed(c)
  /\ UNCHANGED <<scm, ran, alone, missed>>

\* An absent endpoint needs no shutdown; the daemon that answers accepts it.
ShutdownIfRunning(c) ==
  /\ Stage(c, "shutdown")
  /\ \/ Fail(c) /\ UNCHANGED <<proc, missed>>
     \/ FindsAbsent(c) /\ Proceed(c) /\ UNCHANGED proc
     \/ /\ \E p \in Listening : proc' = [proc EXCEPT ![p].stop = TRUE]
        /\ Goto(c, <<"await_gone">>) /\ UNCHANGED missed
  /\ UNCHANGED <<scm, ran, alone>>

\* A ping that finds no endpoint ends the wait.
WaitUntilStopped(c) ==
  /\ Stage(c, "await_gone")
  /\ \/ Fail(c) /\ UNCHANGED missed
     \/ FindsAbsent(c) /\ Proceed(c)
  /\ UNCHANGED <<scm, proc, ran, alone>>

WaitUntilReady(c) ==
  /\ Stage(c, "ready")
  /\ Fail(c) \/ (Listening # {} /\ Proceed(c))
  /\ UNCHANGED <<scm, proc, ran, alone, missed>>

\* start without a service: a daemon that answers the ping will do.
Probe(c) ==
  /\ Stage(c, "probe")
  /\ \/ Fail(c) /\ UNCHANGED missed
     \/ FindsAbsent(c) /\ Goto(c, <<"spawn", "ready">>)
     \/ Listening # {} /\ Proceed(c) /\ UNCHANGED missed
  /\ UNCHANGED <<scm, proc, ran, alone>>

Spawn(c) ==
  /\ Stage(c, "spawn")
  /\ \/ Fail(c) /\ UNCHANGED proc
     \/ \E p \in Procs : Run(p, "background") /\ Proceed(c)
  /\ UNCHANGED <<scm, ran, alone, missed>>

\* The daemon that takes the request starts the apply, and answers later.
Take(c, next) ==
  /\ \E p \in Listening : ran' = [ran EXCEPT ![c] = Append(@, p)]
  /\ Goto(c, next)

\* The first attempt: only an absent endpoint leads to the autostart.
Call(c) ==
  /\ Stage(c, "call")
  /\ \/ Fail(c) /\ UNCHANGED <<ran, missed>>
     \/ FindsAbsent(c) /\ Goto(c, <<"look">>) /\ UNCHANGED ran
     \/ Take(c, <<"answer">>) /\ UNCHANGED missed
  /\ UNCHANGED <<scm, proc, alone>>

\* An attempt after the autostart; all of them may find the endpoint absent.
Retry(c) ==
  /\ Stage(c, "retry")
  /\ \/ Fail(c) /\ UNCHANGED ran
     \/ Len(ran[c]) < Attempts /\ Take(c, <<"answer_or_retry">>)
  /\ UNCHANGED <<scm, proc, alone, missed>>

Answering(c) == Stage(c, "answer") \/ Stage(c, "answer_or_retry")
Asked(c)     == Last(ran[c])

\* An answer that takes long is given up.
Answer_Impatient(c) ==
  /\ \/ Answering(c) /\ Proceed(c)
     \/ Stage(c, "answer_or_retry") /\ Goto(c, <<"retry">>)
  /\ UNCHANGED <<scm, proc, ran, alone, missed>>

\* The connection is closed without an answer when the answer is too long, and breaks
\* when its process leaves serve(): an error of the first attempt, and after the
\* autostart a reason to send the request again.
Broken(c) == cli[c].long \/ Asked(c) \notin Serving
Answer(c) ==
  /\ \/ /\ Answering(c) /\ ~cli[c].long
        /\ proc[Asked(c)].at \in InServe \cup {"returned"}
        /\ Proceed(c)
     \/ Stage(c, "answer") /\ Broken(c) /\ Fail(c)
     \/ Stage(c, "answer_or_retry") /\ Broken(c) /\ Goto(c, <<"retry">>)
  /\ UNCHANGED <<scm, proc, ran, alone, missed>>

-----------------------------------------------------------------------------
(* Processes.                                                              *)

Move(p, at) == proc' = [proc EXCEPT ![p].at = at]

\* The service reports RUNNING before it opens the endpoint.
ReportRunning(p) ==
  /\ proc[p].kind = "service" /\ proc[p].at = "starting"
  /\ scm' = [scm EXCEPT !.state = "running"]
  /\ Move(p, "opening")
  /\ UNCHANGED <<cli, ran, alone, missed>>

\* Where a process is when its serve() has returned.
AfterServe(p) == IF proc[p].kind = "service" THEN "returned" ELSE "draining"

\* The first instance of the pipe cannot be created while there is another one, and
\* serve() returns an error.  Of a process between two instances a connection may be
\* left or not.
OpenEndpoint(p) ==
  /\ \/ proc[p].kind = "background" /\ proc[p].at = "starting"
     \/ proc[p].kind = "service" /\ proc[p].at = "opening"
  /\ \/ Listening = {} /\ Move(p, "serving")
     \/ Serving # {} /\ Move(p, AfterServe(p))
  /\ UNCHANGED <<scm, cli, ran, alone, missed>>

\* A client, one of these or one that asks for something else, has connected, and its
\* task ends before the next instance is created.
HandOver(p) ==
  /\ proc[p].at = "serving"
  /\ \A c \in Clients : Answering(c) => Asked(c) # p
  /\ Move(p, "between")
  /\ UNCHANGED <<scm, cli, ran, alone, missed>>

NextInstance(p) ==
  /\ proc[p].at = "between"
  /\ Move(p, "serving")
  /\ UNCHANGED <<scm, cli, ran, alone, missed>>

\* The next instance cannot be created and serve() returns the error.
LoseEndpoint(p) ==
  /\ proc[p].at = "between"
  /\ Move(p, AfterServe(p))
  /\ alone' = [c \in Clients |-> FALSE]
  /\ UNCHANGED <<scm, cli, ran, missed>>

ServeReturns(p) ==
  /\ proc[p].at = "serving" /\ proc[p].stop
  /\ Move(p, AfterServe(p))
  /\ UNCHANGED <<scm, cli, ran, alone, missed>>

\* STOPPED is reported while the runtime, and an apply, may still run.
ReportStopped(p) ==
  /\ proc[p].kind = "service" /\ proc[p].at = "returned"
  /\ scm' = [installed |-> scm.installed /\ ~scm.doomed, doomed |-> FALSE, state |-> "stopped"]
  /\ Move(p, "leaving")
  /\ UNCHANGED <<cli, ran, alone, missed>>

\* main() of a background daemon waits for the applies that still run; the dispatcher
\* of a service returns after STOPPED whatever they do.
Exit(p) ==
  /\ proc[p].at \in {"draining", "leaving"}
  /\ Move(p, "gone")
  /\ UNCHANGED <<scm, cli, ran, alone, missed>>

-----------------------------------------------------------------------------
\* The service is there or not; a service runs, is being started by the system,
\* or a daemon started by hand runs, or none.
Init ==
  /\ \E p \in Procs, i \in BOOLEAN, first \in {"none", "boot", "service", "background"} :
       /\ first \in {"boot", "service"} => i
       /\ scm = [installed |-> i, doomed |-> FALSE,
                 state |-> CASE first = "boot"    -> "start_pending"
                             [] first = "service" -> "running"
                             [] OTHER             -> "stopped"]
       /\ proc = [q \in Procs |->
                    IF q # p \/ first = "none" THEN Unused
                    ELSE [Unused EXCEPT !.kind = IF first = "background" THEN first ELSE "service",
                                        !.at   = IF first = "boot" THEN "starting" ELSE "serving"]]
  /\ cli    = [c \in Clients |-> NoCommand]
  /\ ran    = [c \in Clients |-> <<>>]
  /\ alone  = [c \in Clients |-> FALSE]
  /\ missed = {}

Execute(c) ==
  \/ Look(c) \/ QueryStop(c) \/ Control(c) \/ AwaitState(c) \/ Delete(c) \/ Install(c)
  \/ Launch(c) \/ StartService(c) \/ ShutdownIfRunning(c) \/ WaitUntilStopped(c)
  \/ WaitUntilReady(c) \/ Probe(c) \/ Spawn(c) \/ Call(c) \/ Retry(c) \/ Answer(c)

Live(p) == \/ ReportRunning(p) \/ OpenEndpoint(p) \/ HandOver(p) \/ NextInstance(p)
           \/ LoseEndpoint(p) \/ ServeReturns(p) \/ ReportStopped(p) \/ Exit(p)

Next == \/ \E c \in Clients : Begin(c) \/ Execute(c)
        \/ \E p \in Procs : Live(p)

Spec == Init /\ [][Next]_vars

\* A call of a daemon waits as long as the process that may have accepted the
\* connection exists.
Calls == {"shutdown", "await_gone", "ready", "probe", "call", "retry"}
AwaitsDaemon(c) ==
  \/ /\ \E s \in Calls : Stage(c, s)
     /\ \E p \in Procs : proc[p].at \in InServe \cup {"returned", "draining", "leaving"}
  \/ Answering(c) /\ proc[Asked(c)].at # "gone"

\* Everything else a command does ends.  Nothing makes a daemon answer or go on, and
\* nothing makes a command begin.
Fairness == \A c \in Clients : WF_vars(~AwaitsDaemon(c) /\ Execute(c))

FairSpec == Spec /\ Fairness

-----------------------------------------------------------------------------
(* Properties.                                                             *)

Stages == {"look", "query_stop", "control", "await_stopped", "await_running", "delete", "install",
           "launch", "start_service", "shutdown", "await_gone", "ready", "probe", "spawn", "call",
           "retry", "answer", "answer_or_retry"}

\* Every variable keeps its type.
TypeOK ==
  /\ scm \in [installed : BOOLEAN, doomed : BOOLEAN,
              state : {"stopped", "start_pending", "running", "stop_pending"}]
  /\ proc \in [Procs -> [kind : {"none", "service", "background"}, stop : BOOLEAN,
                         at : {"unused", "starting", "opening", "serving", "between", "returned",
                               "leaving", "draining", "gone"}]]
  /\ cli \in [Clients -> [cmd : Commands \cup {"none"}, todo : Seq(Stages), failed : BOOLEAN,
                           long : BOOLEAN]]
  /\ ran \in [Clients -> Seq(Procs)]
  /\ alone \in [Clients -> BOOLEAN]
  /\ missed \subseteq Clients

Succeeded(c, cmd) == cli[c].cmd = cmd /\ cli[c].todo = <<>> /\ ~cli[c].failed

\* What the four commands tell their user is so, when nothing else interfered and no
\* call of theirs came between two instances of the pipe: after enable the service is
\* installed and owns the endpoint, after disable it is gone, after disable and stop no
\* daemon serves, after start one does.
LifecyclePromises ==
  \A c \in Clients : (alone[c] /\ c \notin missed) =>
    /\ Succeeded(c, "enable") => /\ scm.installed /\ scm.state = "running"
                                 /\ \E p \in Serving : proc[p].kind = "service"
    /\ Succeeded(c, "disable") => ~scm.installed
    /\ Succeeded(c, "disable") \/ Succeeded(c, "stop") => Serving = {} /\ scm.state = "stopped"
    /\ Succeeded(c, "start") => Serving # {}

\* stop says that the background daemon is stopped, so none is left to serve.
StopLeavesNoDaemon ==
  \A c \in Clients : alone[c] /\ Succeeded(c, "stop") => Serving = {}

\* The SCM knows of one service process at most, and a service that is reported as
\* stopped does not own the endpoint any more.
ScmAgrees ==
  /\ \A p, q \in Hosts : p = q
  /\ (scm.state = "stopped") <=> (Hosts = {})

\* A request whose answer fits into a frame runs a second time only after the process
\* that ran it before was stopped, so one daemon never applies one command twice.
RepeatsInAnotherProcess ==
  \A c \in Clients : ~cli[c].long =>
    \A i, k \in DOMAIN ran[c] : i < k => ran[c][i] # ran[c][k] /\ ran[c][i] \notin Serving

\* Every command ends or waits for the answer of one daemon for good, whatever the
\* other commands, the daemons and the SCM do: nothing else can hold it.
CommandsEnd == \A c \in Clients : <>[](cli[c].todo = <<>> \/ AwaitsDaemon(c))

\* start says "Windows service is running" when a service is installed.
StartedServiceRuns ==
  \A c \in Clients :
    (Succeeded(c, "start") /\ alone[c] /\ scm.installed) => scm.state = "running"
=============================================================================
