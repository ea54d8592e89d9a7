----------------------------- MODULE DaemonJobs -----------------------------
(***************************************************************************)
(* netpland as its clients see it: requests, background jobs, the registry *)
(* of jobs in memory and the shutdown of the process (netpland/main.rs).   *)
(*                                                                         *)
(* A daemon is one process; a machine runs several, one after the other    *)
(* or, between two instances of the pipe, one beside the other. A process  *)
(* that was told to stop lives on until the apply calls it started have    *)
(* returned. Platform::apply is seen from outside: a call on a blocking    *)
(* thread that returns a result or panics, at any time. Operators with a   *)
(* suffix such as Fresh_InProcess are plausible bugs, as in                *)
(* ApplyTransaction.                                                       *)
(***************************************************************************)
EXTENDS Naturals

CONSTANTS
  Daemons,  \* daemon processes
  Clients,  \* clients, each with one request under way at a time
  Jobs,     \* job identifiers
  NoDaemon, \* no process
  NoJob     \* no identifier

ASSUME NullsAssumption == NoDaemon \notin Daemons /\ NoJob \notin Jobs

VARIABLES
  proc,   \* the life of each process
  beside, \* whether a process began to serve while another one did
  stop,   \* the shutdown channel of each process
  acked,  \* the processes that wrote ShutdownAccepted to some client
  jobs,   \* the registry of each process: a function from job to state
  call,   \* the apply call of each job
  conn,   \* the connection of each client
  told    \* what each client last read about each job

vars == <<proc, beside, stop, acked, jobs, call, conn, told>>

Terminal  == {"succeeded", "failed", "rolled_back"}
JobStates == {"running"} \cup Terminal
Views     == JobStates \cup {"unknown", "not_found"}
Results   == Terminal \cup {"panicked"}

NoRecords == [j \in {} |-> "running"]
Idle      == [at |-> "idle", to |-> NoDaemon, kind |-> "none", job |-> NoJob, says |-> NoRecords]
NoCall    == [by |-> NoDaemon, at |-> "none", result |-> "none"]

-----------------------------------------------------------------------------
(* Processes.                                                              *)

\* The first instance of the pipe cannot be created while there is another one.  A
\* process that serves has none after its connections ended and before it creates the
\* next, so that a second one may come to serve beside it.
Start(d) ==
  /\ proc[d] = "new"
  /\ \A c \in Clients : conn[c] = Idle
  /\ proc' = [proc EXCEPT ![d] = "serving"]
  /\ beside' = (beside \/ \E e \in Daemons : proc[e] = "serving")
  /\ UNCHANGED <<stop, acked, jobs, call, conn, told>>

\* What goes with the runtime: connections, and jobs no thread has taken up.
Drop(d) ==
  /\ jobs' = [jobs EXCEPT ![d] = NoRecords]
  /\ conn' = [c \in Clients |-> IF conn[c].to = d THEN Idle ELSE conn[c]]

\* serve() returns on shutdown, and on any error of the listener.
ServeReturns(d) ==
  /\ proc[d] = "serving"
  /\ proc' = [proc EXCEPT ![d] = "dropping"]
  /\ Drop(d)
  /\ call' = [j \in Jobs |-> IF call[j].by = d /\ call[j].at = "queued"
                               THEN [call[j] EXCEPT !.at = "dropped"] ELSE call[j]]
  /\ UNCHANGED <<beside, stop, acked, told>>

Stopped(d) == stop[d] /\ ServeReturns(d)

\* The process waits for the job records too.
Exit_AfterRecords(d) ==
  /\ proc[d] = "dropping"
  /\ \A j \in Jobs : call[j].by = d => call[j].at \in {"recorded", "dropped", "dry"}
  /\ proc' = [proc EXCEPT ![d] = "gone"]
  /\ UNCHANGED <<beside, stop, acked, jobs, call, conn, told>>

\* Dropping the runtime waits for the blocking threads.
Exit(d) ==
  /\ proc[d] = "dropping"
  /\ \A j \in Jobs : ~(call[j].by = d /\ call[j].at = "applying")
  /\ proc' = [proc EXCEPT ![d] = "gone"]
  /\ UNCHANGED <<beside, stop, acked, jobs, call, conn, told>>

Crash(d) ==
  /\ proc[d] \in {"serving", "dropping"}
  /\ proc' = [proc EXCEPT ![d] = "gone"]
  /\ Drop(d)
  /\ call' = [j \in Jobs |-> IF call[j].by = d /\ call[j].at \in {"queued", "applying"}
                               THEN [call[j] EXCEPT !.at = "dropped"] ELSE call[j]]
  /\ UNCHANGED <<beside, stop, acked, told>>

-----------------------------------------------------------------------------
(* Requests.                                                               *)

\* A client asks only about identifiers that some answer contained.
Known(j) == \E c \in Clients : told[c][j] # "unknown"

Open(c, d) ==
  /\ conn[c] = Idle
  /\ proc[d] = "serving"
  /\ \/ \E kind \in {"apply", "dry_run", "list", "shutdown"} :
          conn' = [conn EXCEPT ![c] = [Idle EXCEPT !.at = "sent", !.to = d, !.kind = kind]]
     \/ \E j \in {k \in Jobs : Known(k)} :
          conn' = [conn EXCEPT ![c] =
                     [Idle EXCEPT !.at = "sent", !.to = d, !.kind = "status", !.job = j]]
  /\ UNCHANGED <<proc, beside, stop, acked, jobs, call, told>>

Sent(c, kind) == conn[c].at = "sent" /\ conn[c].kind = kind

Answer(c, says) ==
  conn' = [conn EXCEPT ![c].at = "answering", ![c].says = says]

\* A sequence number that starts anew with the process.
Fresh_InProcess(d, j) == j \notin DOMAIN jobs[d]

\* A new UUID is no identifier of any process.
Fresh(d, j) == call[j] = NoCall

Insert(d, j, state) ==
  jobs' = [jobs EXCEPT ![d] = [k \in DOMAIN jobs[d] \cup {j} |->
                                 IF k = j THEN state ELSE jobs[d][k]]]

Says(j, view) == [k \in {j} |-> view]

\* Preflight refuses the configuration, or the record is inserted and the task
\* that will call apply is spawned.
ApplyLive(c) ==
  LET d == conn[c].to
  IN /\ Sent(c, "apply")
     /\ \/ Answer(c, NoRecords) /\ UNCHANGED <<jobs, call>>
        \/ \E j \in {k \in Jobs : Fresh(d, k)} :
             /\ Insert(d, j, "running")
             /\ call' = [call EXCEPT ![j] = [by |-> d, at |-> "queued", result |-> "none"]]
             /\ Answer(c, Says(j, "running"))
     /\ UNCHANGED <<proc, beside, stop, acked, told>>

DryRun(c) ==
  LET d == conn[c].to
  IN /\ Sent(c, "dry_run")
     /\ \E j \in {k \in Jobs : Fresh(d, k)} :
          /\ Insert(d, j, "succeeded")
          /\ call' = [call EXCEPT ![j] = [by |-> d, at |-> "dry", result |-> "succeeded"]]
          /\ Answer(c, Says(j, "succeeded"))
     /\ UNCHANGED <<proc, beside, stop, acked, told>>

\* The registry is read under its lock; the answer is written later.
JobStatus(c) ==
  LET d == conn[c].to
      j == conn[c].job
  IN /\ Sent(c, "status")
     /\ Answer(c, Says(j, IF j \in DOMAIN jobs[d] THEN jobs[d][j] ELSE "not_found"))
     /\ UNCHANGED <<proc, beside, stop, acked, jobs, call, told>>

ListJobs(c) ==
  /\ Sent(c, "list")
  /\ Answer(c, jobs[conn[c].to])
  /\ UNCHANGED <<proc, beside, stop, acked, jobs, call, told>>

\* The flag is raised by the handler of the request, before the answer.
Shutdown_AtOnce(c) ==
  /\ Sent(c, "shutdown")
  /\ Answer(c, NoRecords)
  /\ stop' = [stop EXCEPT ![conn[c].to] = TRUE]
  /\ UNCHANGED <<proc, beside, acked, jobs, call, told>>

Shutdown(c) ==
  /\ Sent(c, "shutdown")
  /\ Answer(c, NoRecords)
  /\ UNCHANGED <<proc, beside, stop, acked, jobs, call, told>>

\* The answer reaches the client.
Write(c) ==
  LET k == conn[c]
  IN /\ k.at = "answering"
     /\ told' = [told EXCEPT ![c] = [j \in Jobs |-> IF j \in DOMAIN k.says THEN k.says[j] ELSE @[j]]]
     /\ IF k.kind = "shutdown"
          THEN /\ conn' = [conn EXCEPT ![c].at = "written"]
               /\ acked' = acked \cup {k.to}
          ELSE conn' = [conn EXCEPT ![c] = Idle] /\ UNCHANGED acked
     /\ UNCHANGED <<proc, beside, stop, jobs, call>>

\* The connection breaks: no answer, and no shutdown.
HangUp(c) ==
  /\ conn[c].at \in {"sent", "answering"}
  /\ conn' = [conn EXCEPT ![c] = Idle]
  /\ UNCHANGED <<proc, beside, stop, acked, jobs, call, told>>

RequestShutdown(c) ==
  /\ conn[c].at = "written"
  /\ stop' = [stop EXCEPT ![conn[c].to] = TRUE]
  /\ conn' = [conn EXCEPT ![c] = Idle]
  /\ UNCHANGED <<proc, beside, acked, jobs, call, told>>

-----------------------------------------------------------------------------
(* Background tasks.                                                       *)

Served(j, at) == call[j].at = at /\ proc[call[j].by] = "serving"

StartCall(j) ==
  /\ Served(j, "queued")
  /\ call' = [call EXCEPT ![j].at = "applying"]
  /\ UNCHANGED <<proc, beside, stop, acked, jobs, conn, told>>

\* The thread goes on while its process waits to exit.
ApplyReturns(j) ==
  /\ call[j].at = "applying"
  /\ \E r \in Results : call' = [call EXCEPT ![j].at = "returned", ![j].result = r]
  /\ UNCHANGED <<proc, beside, stop, acked, jobs, conn, told>>

\* A panic counts as restored, since nothing reported a mutation.
StateOf_PanicRestores(r) == IF r = "panicked" THEN "rolled_back" ELSE r

StateOf(r) == IF r = "panicked" THEN "failed" ELSE r

\* Only a returned result is looked at.
Record_LosesPanic(j) ==
  /\ Served(j, "returned")
  /\ IF call[j].result = "panicked" THEN UNCHANGED jobs
     ELSE jobs' = [jobs EXCEPT ![call[j].by][j] = StateOf(call[j].result)]
  /\ call' = [call EXCEPT ![j].at = "recorded"]
  /\ UNCHANGED <<proc, beside, stop, acked, conn, told>>

\* A job that has ended leaves the registry.
Record_Removes(j) ==
  /\ Served(j, "returned")
  /\ jobs' = [jobs EXCEPT ![call[j].by] = [k \in DOMAIN @ \ {j} |-> @[k]]]
  /\ call' = [call EXCEPT ![j].at = "recorded"]
  /\ UNCHANGED <<proc, beside, stop, acked, conn, told>>

Record(j) ==
  /\ Served(j, "returned")
  /\ jobs' = [jobs EXCEPT ![call[j].by][j] = StateOf(call[j].result)]
  /\ call' = [call EXCEPT ![j].at = "recorded"]
  /\ UNCHANGED <<proc, beside, stop, acked, conn, told>>

-----------------------------------------------------------------------------
Init ==
  /\ proc  = [d \in Daemons |-> "new"]
  /\ beside = FALSE
  /\ stop  = [d \in Daemons |-> FALSE]
  /\ acked = {}
  /\ jobs  = [d \in Daemons |-> NoRecords]
  /\ call  = [j \in Jobs |-> NoCall]
  /\ conn  = [c \in Clients |-> Idle]
  /\ told  = [c \in Clients |-> [j \in Jobs |-> "unknown"]]

Process(d) == Start(d) \/ ServeReturns(d) \/ Exit(d) \/ Crash(d)

Handle(c) == ApplyLive(c) \/ DryRun(c) \/ JobStatus(c) \/ ListJobs(c) \/ Shutdown(c)

Request(c) == (\E d \in Daemons : Open(c, d)) \/ Handle(c) \/ Write(c) \/ HangUp(c) \/ RequestShutdown(c)

Background(j) == StartCall(j) \/ ApplyReturns(j) \/ Record(j)

Next == \/ \E d \in Daemons : Process(d)
        \/ \E c \in Clients : Request(c)
        \/ \E j \in Jobs : Background(j)

Spec == Init /\ [][Next]_vars

\* The runtime polls its tasks and the shutdown channel.  Nothing makes an apply
\* return (a hook may be waited for), a client send or a process start.
Fairness ==
  /\ \A d \in Daemons : WF_vars(Stopped(d) \/ Exit(d))
  /\ \A c \in Clients : WF_vars(Handle(c) \/ Write(c) \/ RequestShutdown(c))
  /\ \A j \in Jobs : WF_vars(StartCall(j) \/ Record(j))

FairSpec == Spec /\ Fairness

-----------------------------------------------------------------------------
(* Properties.                                                             *)

Records == UNION {[S -> JobStates] : S \in SUBSET Jobs}
Call == [by : Daemons \cup {NoDaemon},
         at : {"none", "queued", "applying", "returned", "recorded", "dropped", "dry"},
         result : Results \cup {"none"}]
Conn == [at : {"idle", "sent", "answering", "written"}, to : Daemons \cup {NoDaemon},
         kind : {"none", "apply", "dry_run", "list", "shutdown", "status"},
         job : Jobs \cup {NoJob}, says : UNION {[S -> Views] : S \in SUBSET Jobs}]

\* Every variable keeps its type.
TypeOK ==
  /\ proc \in [Daemons -> {"new", "serving", "dropping", "gone"}]
  /\ beside \in BOOLEAN
  /\ stop \in [Daemons -> BOOLEAN]
  /\ acked \subseteq Daemons
  /\ jobs \in [Daemons -> Records]
  /\ call \in [Jobs -> Call]
  /\ conn \in [Clients -> Conn]
  /\ told \in [Clients -> [Jobs -> Views]]

\* In a process that serves, the jobs recorded as running are exactly the calls
\* that have not been recorded, so ListJobs shows every apply that may still
\* change the machine, and a record that ended belongs to a call that ended.
RecordsMatchCalls ==
  \A d \in Daemons : proc[d] = "serving" =>
    \A j \in Jobs :
      /\ (call[j].by = d /\ call[j].at \in {"queued", "applying", "returned"})
           <=> (j \in DOMAIN jobs[d] /\ jobs[d][j] = "running")
      /\ (call[j].by = d /\ call[j].at \in {"recorded", "dry"})
           <=> (j \in DOMAIN jobs[d] /\ jobs[d][j] \in Terminal)

\* A client is told that a job succeeded or was rolled back only if its apply
\* returned that; a panic is never reported as restored.
ToldTheTruth ==
  \A c \in Clients, j \in Jobs :
    /\ told[c][j] \in {"succeeded", "rolled_back"} => call[j].result = told[c][j]
    /\ told[c][j] = "failed" => call[j].result \in {"failed", "panicked"}

\* A client that got an identifier is told not_found only when the process that
\* gave it has stopped serving (jobs do not survive a restart), or two served at once.
NotFoundOnlyAfterRestart ==
  ~beside => \A c \in Clients, j \in Jobs :
    told[c][j] = "not_found" => proc[call[j].by] # "serving"

\* A process leaves its listener because of a Shutdown request only after the
\* answer ShutdownAccepted reached the client that asked.
StopIsAcknowledged == \A d \in Daemons : stop[d] => d \in acked

\* What a client is told of a job moves forward: from running to one final state,
\* and from any state to not_found for good, across restarts too, unless
\* two processes served at once.
Follows(v, w) ==
  \/ v = w \/ v = "unknown"
  \/ v = "running" /\ w \in Terminal
  \/ v # "unknown" /\ w = "not_found"
ViewsMoveForward ==
  [][beside \/ \A c \in Clients, j \in Jobs : Follows(told[c][j], told'[c][j])]_told

\* A job whose apply returned, or panicked, becomes final, unless the process stops.
JobsEnd ==
  \A j \in Jobs :
    call[j].at \in {"queued", "returned"} ~>
      (\/ call[j].at = "applying"
       \/ \E d \in Daemons :
            /\ call[j].by = d
            /\ proc[d] # "serving" \/ (j \in DOMAIN jobs[d] /\ jobs[d][j] \in Terminal))

\* An acknowledged shutdown ends the process, unless an apply never returns.
StopEnds ==
  \A d \in Daemons :
    d \in acked ~> (proc[d] = "gone" \/ \E j \in Jobs : call[j].by = d /\ call[j].at = "applying")
=============================================================================
