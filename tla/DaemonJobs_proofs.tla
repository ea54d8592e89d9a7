------------------------- MODULE DaemonJobs_proofs -------------------------
(***************************************************************************)
(* Proofs about DaemonJobs: with any number of processes, clients and jobs *)
(* the registry of a serving process says which applies run, and what a    *)
(* client is told of a job is true and moves forward.                      *)
(***************************************************************************)
EXTENDS DaemonJobs, TLAPS

\* A view that once was true of a job stays true.
Holds(v, j) ==
  /\ v # "unknown" => call[j].at # "none"
  /\ v \in Terminal => call[j].at \in {"recorded", "dry"} /\ v = StateOf(call[j].result)
  /\ v = "not_found" => beside \/ proc[call[j].by] \in {"dropping", "gone"}

\* An apply belongs to a process that has started; it is given up with its process only.
CallsMatchProcesses ==
  \A j \in Jobs :
    /\ call[j].at = "none" => call[j] = NoCall
    /\ call[j].at # "none" => call[j].by \in Daemons /\ proc[call[j].by] # "new"
    /\ call[j].at \in {"returned", "recorded", "dry"} => call[j].result \in Results
    /\ call[j].at = "dropped" => proc[call[j].by] # "serving"

\* A process that does not serve has no records, and a final record is the result of the apply.
RecordsAreResults ==
  \A d \in Daemons :
    /\ proc[d] # "serving" => DOMAIN jobs[d] = {}
    /\ \A j \in DOMAIN jobs[d] :
         jobs[d][j] \in Terminal => jobs[d][j] = StateOf(call[j].result)

OneServes == beside \/ \A d, e \in Daemons : proc[d] = "serving" /\ proc[e] = "serving" => d = e

\* An open connection leads to a process that serves; the answer on its way is true, and news.
AnswersAreTrue ==
  \A c \in Clients :
    /\ conn[c].at # "idle" => conn[c].to \in Daemons /\ proc[conn[c].to] = "serving"
    /\ Sent(c, "status") => conn[c].job \in Jobs /\ call[conn[c].job].at # "none"
    /\ conn[c].at = "answering" =>
         \A j \in DOMAIN conn[c].says :
           /\ conn[c].says[j] # "unknown" /\ Holds(conn[c].says[j], j)
           /\ beside \/ Follows(told[c][j], conn[c].says[j])
    /\ conn[c].at = "written" => conn[c].to \in acked

ViewsHold == \A c \in Clients, j \in Jobs : Holds(told[c][j], j)

JobInv == /\ TypeOK /\ CallsMatchProcesses /\ RecordsMatchCalls /\ RecordsAreResults /\ OneServes
          /\ AnswersAreTrue /\ ViewsHold /\ StopIsAcknowledged

-----------------------------------------------------------------------------
(* Types.                                                                  *)

\* A registry is a function on some jobs.
LEMMA RegistryIsFunction ==
  ASSUME NEW f
  PROVE  f \in Records <=> DOMAIN f \subseteq Jobs /\ f \in [DOMAIN f -> JobStates]
BY DEF Records

\* An answer is a function on some jobs.
LEMMA AnswerIsFunction ==
  ASSUME NEW c \in Clients, conn \in [Clients -> Conn]
  PROVE  /\ DOMAIN conn[c].says \subseteq Jobs
         /\ conn[c].says \in [DOMAIN conn[c].says -> Views]
BY DEF Conn

\* No records at all are a registry and an answer.
LEMMA NoRecordsType ==
  NoRecords \in Records /\ NoRecords \in UNION {[S -> Views] : S \in SUBSET Jobs} /\ DOMAIN NoRecords = {}
<1>1. NoRecords \in [{} -> JobStates] /\ NoRecords \in [{} -> Views]
  BY DEF NoRecords
<1> QED BY <1>1 DEF Records

\* A new record makes a registry of a registry.
LEMMA InsertType ==
  ASSUME jobs \in [Daemons -> Records], NEW d \in Daemons, NEW j \in Jobs, NEW v \in JobStates,
         Insert(d, j, v)
  PROVE  /\ jobs' \in [Daemons -> Records]
         /\ DOMAIN jobs'[d] = DOMAIN jobs[d] \cup {j} /\ jobs'[d][j] = v
         /\ \A k \in DOMAIN jobs[d] \ {j} : jobs'[d][k] = jobs[d][k]
         /\ \A e \in Daemons \ {d} : jobs'[e] = jobs[e]
<1> DEFINE f == [k \in DOMAIN jobs[d] \cup {j} |-> IF k = j THEN v ELSE jobs[d][k]]
<1>1. DOMAIN jobs[d] \subseteq Jobs /\ jobs[d] \in [DOMAIN jobs[d] -> JobStates]
  BY RegistryIsFunction
<1>2. f \in [DOMAIN jobs[d] \cup {j} -> JobStates] /\ DOMAIN f = DOMAIN jobs[d] \cup {j}
  BY <1>1
<1>3. f \in Records
  BY <1>1, <1>2, RegistryIsFunction
<1>4. jobs' = [jobs EXCEPT ![d] = f]
  BY DEF Insert
<1> QED BY <1>3, <1>4

\* What an answer says of one job.
LEMMA SaysType ==
  ASSUME NEW j \in Jobs, NEW v \in Views
  PROVE  Says(j, v) \in UNION {[S -> Views] : S \in SUBSET Jobs} /\ DOMAIN Says(j, v) = {j} /\ Says(j, v)[j] = v
<1>1. Says(j, v) \in [{j} -> Views]
  BY DEF Says
<1> QED BY <1>1 DEF Says

\* A registry can be told as it is.
LEMMA RecordsAreViews ==
  ASSUME NEW f \in Records
  PROVE  f \in UNION {[S -> Views] : S \in SUBSET Jobs}
<1>1. DOMAIN f \subseteq Jobs /\ f \in [DOMAIN f -> JobStates]
  BY RegistryIsFunction
<1>2. f \in [DOMAIN f -> Views]
  BY <1>1 DEF Views
<1> QED BY <1>1, <1>2

LEMMA TypeInit == Init => TypeOK
<1> SUFFICES ASSUME Init PROVE TypeOK
  OBVIOUS
<1>1. NoCall \in Call
  BY DEF NoCall, Call
<1>2. Idle \in Conn
  BY NoRecordsType DEF Idle, Conn
<1> QED BY <1>1, <1>2, NoRecordsType DEF Init, TypeOK, Views

\* Processes.
LEMMA ProcessTypes ==
  ASSUME TypeOK, NEW d \in Daemons, Process(d)
  PROVE  TypeOK'
<1>1. Idle \in Conn
  BY NoRecordsType DEF Idle, Conn
<1>2. ASSUME Drop(d) PROVE (jobs \in [Daemons -> Records])' /\ (conn \in [Clients -> Conn])'
  BY <1>1, <1>2, NoRecordsType DEF Drop, TypeOK
<1>3. \A j \in Jobs : [call[j] EXCEPT !.at = "dropped"] \in Call
  BY DEF TypeOK, Call
<1>4. CASE Start(d)
  BY <1>4 DEF Start, TypeOK
<1>5. CASE ServeReturns(d)
  BY <1>2, <1>3, <1>5 DEF ServeReturns, TypeOK
<1>6. CASE Exit(d)
  BY <1>6 DEF Exit, TypeOK
<1>7. CASE Crash(d)
  BY <1>2, <1>3, <1>7 DEF Crash, TypeOK
<1> QED BY <1>4, <1>5, <1>6, <1>7 DEF Process

\* Answers.
LEMMA AnswerTypes ==
  ASSUME TypeOK, NEW c \in Clients, NEW s \in UNION {[S -> Views] : S \in SUBSET Jobs}, Answer(c, s)
  PROVE  /\ (conn \in [Clients -> Conn])'
         /\ conn'[c].at = "answering" /\ conn'[c].says = s /\ conn'[c].to = conn[c].to
         /\ \A e \in Clients \ {c} : conn'[e] = conn[e]
<1>1. conn[c] \in Conn
  BY DEF TypeOK
<1>2. [conn[c] EXCEPT !.at = "answering", !.says = s] \in Conn
  BY <1>1 DEF Conn
<1> QED BY <1>1, <1>2 DEF Answer, TypeOK, Conn

\* Requests and their answers.
LEMMA RequestTypes ==
  ASSUME TypeOK, NEW c \in Clients, Request(c),
         conn[c].at # "idle" => conn[c].to \in Daemons,
         Sent(c, "status") => conn[c].job \in Jobs
  PROVE  TypeOK'
<1> DEFINE d == conn[c].to
<1>1. conn[c] \in Conn /\ Idle \in Conn
  BY NoRecordsType DEF TypeOK, Idle, Conn
<1>2. CASE \E e \in Daemons : Open(c, e)
  <2>1. PICK e \in Daemons : Open(c, e)
    BY <1>2
  <2>2. \A kind \in {"apply", "dry_run", "list", "shutdown"} :
          [Idle EXCEPT !.at = "sent", !.to = e, !.kind = kind] \in Conn
    BY NoRecordsType DEF Idle, Conn
  <2>3. \A j \in Jobs : [Idle EXCEPT !.at = "sent", !.to = e, !.kind = "status", !.job = j] \in Conn
    BY NoRecordsType DEF Idle, Conn
  <2>4. conn' \in [Clients -> Conn]
    BY <2>1, <2>2, <2>3 DEF Open, TypeOK
  <2> QED BY <2>1, <2>4 DEF Open, TypeOK
<1>3. CASE ApplyLive(c)
  <2>1. d \in Daemons
    BY <1>3 DEF ApplyLive, Sent
  <2>2. CASE Answer(c, NoRecords) /\ UNCHANGED <<jobs, call>>
    BY <1>3, <2>2, AnswerTypes, NoRecordsType DEF ApplyLive, TypeOK
  <2>3. ASSUME NEW j \in Jobs, Insert(d, j, "running"),
               call' = [call EXCEPT ![j] = [by |-> d, at |-> "queued", result |-> "none"]],
               Answer(c, Says(j, "running"))
        PROVE  TypeOK'
    <3>1. jobs' \in [Daemons -> Records]
      BY <2>1, <2>3, InsertType DEF TypeOK, JobStates
    <3>2. [by |-> d, at |-> "queued", result |-> "none"] \in Call
      BY <2>1 DEF Call
    <3>3. conn' \in [Clients -> Conn]
      BY <2>3, SaysType, AnswerTypes DEF Views, JobStates
    <3> QED BY <1>3, <2>3, <3>1, <3>2, <3>3 DEF ApplyLive, TypeOK
  <2> QED BY <1>3, <2>2, <2>3 DEF ApplyLive
<1>4. CASE DryRun(c)
  <2>1. d \in Daemons
    BY <1>4 DEF DryRun, Sent
  <2>2. PICK j \in Jobs :
          /\ Insert(d, j, "succeeded")
          /\ call' = [call EXCEPT ![j] = [by |-> d, at |-> "dry", result |-> "succeeded"]]
          /\ Answer(c, Says(j, "succeeded"))
    BY <1>4 DEF DryRun
  <2>3. jobs' \in [Daemons -> Records]
    BY <2>1, <2>2, InsertType DEF TypeOK, JobStates, Terminal
  <2>4. [by |-> d, at |-> "dry", result |-> "succeeded"] \in Call
    BY <2>1 DEF Call, Results, Terminal
  <2>5. conn' \in [Clients -> Conn]
    BY <2>2, SaysType, AnswerTypes DEF Views, JobStates, Terminal
  <2> QED BY <1>4, <2>2, <2>3, <2>4, <2>5 DEF DryRun, TypeOK
<1>5. CASE JobStatus(c)
  <2> DEFINE j == conn[c].job
             v == IF j \in DOMAIN jobs[d] THEN jobs[d][j] ELSE "not_found"
  <2>1. d \in Daemons /\ j \in Jobs
    BY <1>5 DEF JobStatus, Sent
  <2>2. jobs[d] \in [DOMAIN jobs[d] -> JobStates]
    BY <2>1, RegistryIsFunction DEF TypeOK
  <2>3. v \in Views
    BY <2>2 DEF Views
  <2>4. Answer(c, Says(j, v))
    BY <1>5 DEF JobStatus
  <2>5. conn' \in [Clients -> Conn]
    BY <2>1, <2>3, <2>4, SaysType, AnswerTypes
  <2> QED BY <1>5, <2>5 DEF JobStatus, TypeOK
<1>6. CASE ListJobs(c)
  <2>1. jobs[d] \in Records
    BY <1>6 DEF ListJobs, Sent, TypeOK
  <2>2. conn' \in [Clients -> Conn]
    BY <1>6, <2>1, RecordsAreViews, AnswerTypes DEF ListJobs
  <2> QED BY <1>6, <2>2 DEF ListJobs, TypeOK
<1>7. CASE Shutdown(c)
  <2>1. conn' \in [Clients -> Conn]
    BY <1>7, NoRecordsType, AnswerTypes DEF Shutdown
  <2> QED BY <1>7, <2>1 DEF Shutdown, TypeOK
<1>8. CASE Write(c)
  <2>1. conn[c].says \in [DOMAIN conn[c].says -> Views]
    BY AnswerIsFunction DEF TypeOK
  <2>2. told' \in [Clients -> [Jobs -> Views]]
    BY <1>8, <2>1 DEF Write, TypeOK
  <2>3. [conn[c] EXCEPT !.at = "written"] \in Conn
    BY <1>1 DEF Conn
  <2>4. conn' \in [Clients -> Conn] /\ acked' \subseteq Daemons
    BY <1>1, <1>8, <2>3 DEF Write, TypeOK
  <2> QED BY <1>8, <2>2, <2>4 DEF Write, TypeOK
<1>9. CASE HangUp(c)
  BY <1>1, <1>9 DEF HangUp, TypeOK
<1>10. CASE RequestShutdown(c)
  BY <1>1, <1>10 DEF RequestShutdown, TypeOK
<1> QED BY <1>2, <1>3, <1>4, <1>5, <1>6, <1>7, <1>8, <1>9, <1>10 DEF Request, Handle

\* Background tasks.
LEMMA BackgroundTypes ==
  ASSUME TypeOK, NEW j \in Jobs, Background(j), RecordsMatchCalls, CallsMatchProcesses
  PROVE  TypeOK'
<1>1. call[j] \in Call
  BY DEF TypeOK
<1>2. CASE StartCall(j)
  <2>1. [call[j] EXCEPT !.at = "applying"] \in Call
    BY <1>1 DEF Call
  <2> QED BY <1>2, <2>1 DEF StartCall, TypeOK
<1>3. CASE ApplyReturns(j)
  <2>1. \A r \in Results : [call[j] EXCEPT !.at = "returned", !.result = r] \in Call
    BY <1>1 DEF Call
  <2> QED BY <1>3, <2>1 DEF ApplyReturns, TypeOK
<1>4. CASE Record(j)
  <2> DEFINE d == call[j].by
  <2>1. d \in Daemons /\ proc[d] = "serving" /\ call[j].at = "returned" /\ call[j].result \in Results
    BY <1>4 DEF Record, Served, CallsMatchProcesses
  <2>2. j \in DOMAIN jobs[d] /\ DOMAIN jobs[d] \subseteq Jobs /\ jobs[d] \in [DOMAIN jobs[d] -> JobStates]
    BY <2>1, RegistryIsFunction DEF RecordsMatchCalls, TypeOK
  <2>3. StateOf(call[j].result) \in JobStates
    BY <2>1 DEF StateOf, Results, JobStates, Terminal
  <2>4. [jobs[d] EXCEPT ![j] = StateOf(call[j].result)] \in Records
    BY <2>2, <2>3, RegistryIsFunction
  <2>5. [call[j] EXCEPT !.at = "recorded"] \in Call
    BY <1>1 DEF Call
  <2> QED BY <1>4, <2>1, <2>4, <2>5 DEF Record, TypeOK
<1> QED BY <1>2, <1>3, <1>4 DEF Background

-----------------------------------------------------------------------------
(* How calls and processes move.                                           *)

\* A call keeps its process, and is not touched any more once it is recorded.
LEMMA CallMoves ==
  ASSUME TypeOK, Next, NEW j \in Jobs
  PROVE  /\ call[j].at # "none" => call'[j].at # "none" /\ call'[j].by = call[j].by
         /\ call[j].at \in {"recorded", "dry"} => call'[j] = call[j]
<1>1. call[j] \in Call
  BY DEF TypeOK
<1>2. CASE \E d \in Daemons : Process(d)
  BY <1>1, <1>2 DEF Process, Start, ServeReturns, Exit, Crash, Call
<1>3. CASE \E c \in Clients : Request(c)
  <2>1. PICK c \in Clients : Request(c)
    BY <1>3
  <2>2. CASE ApplyLive(c) \/ DryRun(c)
    <3> DEFINE New(at, result) == [by |-> conn[c].to, at |-> at, result |-> result]
    <3>1. ASSUME NEW k \in Jobs, Fresh(conn[c].to, k),
                 \/ call' = [call EXCEPT ![k] = New("queued", "none")]
                 \/ call' = [call EXCEPT ![k] = New("dry", "succeeded")]
          PROVE  /\ call[j].at # "none" => call'[j].at # "none" /\ call'[j].by = call[j].by
                 /\ call[j].at \in {"recorded", "dry"} => call'[j] = call[j]
      BY <1>1, <3>1 DEF TypeOK, Fresh, NoCall
    <3>2. CASE ApplyLive(c)
      BY <3>1, <3>2 DEF ApplyLive
    <3>3. CASE DryRun(c)
      BY <3>1, <3>3 DEF DryRun
    <3> QED BY <2>2, <3>2, <3>3
  <2>3. CASE ~(ApplyLive(c) \/ DryRun(c))
    BY <2>1, <2>3 DEF Request, Handle, Open, JobStatus, ListJobs, Shutdown, Write, HangUp, RequestShutdown
  <2> QED BY <2>2, <2>3
<1>4. CASE \E k \in Jobs : Background(k)
  BY <1>1, <1>4 DEF Background, StartCall, ApplyReturns, Record, Served, TypeOK, Call
<1> QED BY <1>2, <1>3, <1>4 DEF Next

\* A process that stopped serving does not serve again.
LEMMA ProcessMoves ==
  ASSUME TypeOK, Next, NEW d \in Daemons
  PROVE  /\ proc[d] \in {"dropping", "gone"} => proc'[d] \in {"dropping", "gone"}
         /\ proc[d] # "new" => proc'[d] # "new"
<1>1. CASE \E e \in Daemons : Process(e)
  BY <1>1 DEF TypeOK, Process, Start, ServeReturns, Exit, Crash
<1>2. CASE \E c \in Clients : Request(c)
  BY <1>2 DEF Request, Handle, Open, ApplyLive, DryRun, JobStatus, ListJobs, Shutdown, Write, HangUp,
              RequestShutdown
<1>3. CASE \E k \in Jobs : Background(k)
  BY <1>3 DEF Background, StartCall, ApplyReturns, Record
<1> QED BY <1>1, <1>2, <1>3 DEF Next

\* Two processes that served at once are not forgotten.
LEMMA BesideStays ==
  ASSUME Next, beside
  PROVE  beside'
<1>1. CASE \E d \in Daemons : Start(d)
  BY <1>1 DEF Start
<1>2. CASE UNCHANGED beside
  BY <1>2
<1>3. CASE \E d \in Daemons : Process(d)
  BY <1>1, <1>2, <1>3 DEF Process, ServeReturns, Exit, Crash
<1>4. CASE \E c \in Clients : Request(c)
  BY <1>2, <1>4 DEF Request, Handle, Open, ApplyLive, DryRun, JobStatus, ListJobs, Shutdown, Write, HangUp,
                    RequestShutdown
<1>5. CASE \E j \in Jobs : Background(j)
  BY <1>2, <1>5 DEF Background, StartCall, ApplyReturns, Record
<1> QED BY <1>3, <1>4, <1>5 DEF Next

\* So what is true of a job stays true.
LEMMA HoldsKept ==
  ASSUME JobInv, Next, NEW j \in Jobs, NEW v, Holds(v, j)
  PROVE  Holds(v, j)'
<1>1. call[j].at # "none" => call[j].by \in Daemons
  BY DEF JobInv, CallsMatchProcesses
<1>2. v \in Terminal \/ v = "not_found" => call[j].at # "none"
  BY DEF Holds, Terminal
<1> QED BY <1>1, <1>2, CallMoves, ProcessMoves, BesideStays DEF Holds, JobInv

LEMMA ViewsKept ==
  ASSUME JobInv, Next, UNCHANGED told
  PROVE  ViewsHold'
BY HoldsKept DEF JobInv, ViewsHold

\* A connection that nobody works on keeps what is true of it.
LEMMA ConnectionKept ==
  ASSUME JobInv, Next, NEW c \in Clients, conn'[c] = conn[c], told'[c] = told[c],
         acked \subseteq acked', conn[c].at # "idle" => proc'[conn[c].to] = "serving"
  PROVE  AnswersAreTrue!(c)'
<1>1. AnswersAreTrue!(c)
  BY DEF JobInv, AnswersAreTrue
<1>2. DOMAIN conn[c].says \subseteq Jobs
  BY AnswerIsFunction DEF JobInv, TypeOK
<1>3. conn[c].at # "idle" => conn[c].to \in Daemons
  BY <1>1
<1>4. Sent(c, "status") => conn[c].job \in Jobs /\ call'[conn[c].job].at # "none"
  BY <1>1, CallMoves DEF JobInv
<1>5. ASSUME conn[c].at = "answering", NEW j \in DOMAIN conn[c].says
      PROVE  (/\ conn[c].says[j] # "unknown" /\ Holds(conn[c].says[j], j)
              /\ beside \/ Follows(told[c][j], conn[c].says[j]))'
  <2>1. j \in Jobs /\ conn[c].says[j] # "unknown" /\ Holds(conn[c].says[j], j)
        /\ (beside \/ Follows(told[c][j], conn[c].says[j]))
    BY <1>1, <1>2, <1>5
  <2>2. PICK v : v = conn[c].says[j]
    OBVIOUS
  <2>3. Holds(v, j)'
    BY <2>1, <2>2, HoldsKept
  <2> QED BY <2>1, <2>2, <2>3, BesideStays DEF Follows
<1> QED BY <1>1, <1>3, <1>4, <1>5 DEF Sent

-----------------------------------------------------------------------------
(* Processes.                                                              *)

LEMMA ProcessStep ==
  ASSUME JobInv, NEW d \in Daemons, Process(d)
  PROVE  JobInv'
<1>1. Next
  BY DEF Next
<1>2. TypeOK /\ TypeOK'
  BY ProcessTypes DEF JobInv
<1>3. ViewsHold'
  BY <1>1, ViewsKept DEF Process, Start, ServeReturns, Exit, Crash
<1>4. StopIsAcknowledged'
  BY DEF Process, Start, ServeReturns, Exit, Crash, JobInv, StopIsAcknowledged
<1>5. OneServes'
  BY <1>2 DEF Process, Start, ServeReturns, Exit, Crash, JobInv, OneServes, TypeOK
<1>6. CallsMatchProcesses'
  <2> SUFFICES ASSUME NEW j \in Jobs PROVE CallsMatchProcesses!(j)'
    BY DEF CallsMatchProcesses
  <2>1. call[j] \in Call /\ CallsMatchProcesses!(j)
    BY <1>2 DEF TypeOK, JobInv, CallsMatchProcesses
  <2>2. CASE Start(d) \/ Exit(d)
    BY <1>2, <2>1, <2>2 DEF Start, Exit, TypeOK, Call
  <2>3. CASE ServeReturns(d) \/ Crash(d)
    <3>1. proc' = [proc EXCEPT ![d] = proc'[d]] /\ proc'[d] \in {"dropping", "gone"}
      BY <1>2, <2>3 DEF ServeReturns, Crash, TypeOK
    <3>2. \/ call'[j] = call[j]
          \/ call[j].by = d /\ call[j].at # "none" /\ call'[j] = [call[j] EXCEPT !.at = "dropped"]
      BY <2>1, <2>3 DEF ServeReturns, Crash
    <3>3. CASE call'[j] = call[j]
      BY <1>2, <2>1, <3>1, <3>3 DEF TypeOK
    <3>4. CASE /\ call[j].by = d /\ call[j].at # "none"
               /\ call'[j] = [call[j] EXCEPT !.at = "dropped"]
      BY <1>2, <2>1, <3>1, <3>4 DEF TypeOK, Call, NoCall
    <3> QED BY <3>2, <3>3, <3>4
  <2> QED BY <2>2, <2>3 DEF Process
<1>7. RecordsAreResults'
  <2>1. CASE Start(d) \/ Exit(d)
    BY <1>2, <2>1 DEF Start, Exit, JobInv, RecordsAreResults, TypeOK
  <2>2. CASE ServeReturns(d) \/ Crash(d)
    <3>1. jobs' = [jobs EXCEPT ![d] = NoRecords] /\ proc' = [proc EXCEPT ![d] = proc'[d]]
      BY <1>2, <2>2 DEF ServeReturns, Crash, Drop, TypeOK
    <3>2. ASSUME NEW j \in Jobs PROVE call'[j].result = call[j].result
      <4>1. call[j] \in Call
        BY <1>2 DEF TypeOK
      <4>2. call'[j] = call[j] \/ call'[j] = [call[j] EXCEPT !.at = "dropped"]
        BY <2>2 DEF ServeReturns, Crash
      <4> QED BY <4>1, <4>2 DEF Call
    <3>3. \A e \in Daemons : DOMAIN jobs[e] \subseteq Jobs
      BY <1>2, RegistryIsFunction DEF TypeOK
    <3> QED BY <1>2, <3>1, <3>2, <3>3, NoRecordsType DEF JobInv, RecordsAreResults, TypeOK, StateOf
  <2> QED BY <2>1, <2>2 DEF Process
<1>8. RecordsMatchCalls'
  <2>1. CASE Start(d)
    BY <1>2, <2>1 DEF Start, JobInv, RecordsMatchCalls, RecordsAreResults, CallsMatchProcesses, TypeOK
  <2>2. CASE Exit(d)
    BY <1>2, <2>2 DEF Exit, JobInv, RecordsMatchCalls, TypeOK
  <2>3. CASE ServeReturns(d) \/ Crash(d)
    <3>1. \A e \in Daemons : proc'[e] = "serving" => e # d /\ proc[e] = "serving" /\ jobs'[e] = jobs[e]
      BY <1>2, <2>3 DEF ServeReturns, Crash, Drop, TypeOK
    <3>2. \A j \in Jobs : call[j].by # d => call'[j] = call[j]
      BY <1>2, <2>3 DEF ServeReturns, Crash, TypeOK
    <3>3. \A j \in Jobs : call'[j].by = call[j].by
      BY <1>2, <2>3 DEF ServeReturns, Crash, TypeOK, Call
    <3> QED BY <3>1, <3>2, <3>3 DEF JobInv, RecordsMatchCalls
  <2> QED BY <2>1, <2>2, <2>3 DEF Process
<1>9. AnswersAreTrue'
  <2> SUFFICES ASSUME NEW c \in Clients PROVE AnswersAreTrue!(c)'
    BY DEF AnswersAreTrue
  <2>1. CASE conn'[c] = Idle
    BY <2>1 DEF Idle, Sent
  <2>2. CASE conn'[c] # Idle
    <3>1. conn'[c] = conn[c] /\ UNCHANGED <<told, acked>>
      BY <2>2 DEF Process, Start, ServeReturns, Exit, Crash, Drop
    <3>2. ASSUME conn[c].at # "idle" PROVE proc'[conn[c].to] = "serving"
      <4>1. conn[c].to \in Daemons /\ proc[conn[c].to] = "serving"
        BY <3>2 DEF JobInv, AnswersAreTrue
      <4>2. CASE Start(d) \/ Exit(d)
        BY <1>2, <4>1, <4>2 DEF Start, Exit, TypeOK
      <4>3. CASE ServeReturns(d) \/ Crash(d)
        BY <1>2, <2>2, <4>1, <4>3 DEF ServeReturns, Crash, Drop, TypeOK
      <4> QED BY <4>2, <4>3 DEF Process
    <3> QED BY <1>1, <3>1, <3>2, ConnectionKept
  <2> QED BY <2>1, <2>2
<1> QED BY <1>2, <1>3, <1>4, <1>5, <1>6, <1>7, <1>8, <1>9 DEF JobInv

-----------------------------------------------------------------------------
(* Requests.                                                               *)

\* What the registry of a serving process says is true, and news for every client.
LEMMA RegistryIsTrue ==
  ASSUME JobInv, NEW d \in Daemons, proc[d] = "serving", NEW c \in Clients, NEW j \in DOMAIN jobs[d]
  PROVE  /\ j \in Jobs /\ jobs[d][j] # "unknown" /\ Holds(jobs[d][j], j)
         /\ beside \/ Follows(told[c][j], jobs[d][j])
<1>1. j \in Jobs /\ jobs[d][j] \in JobStates
  BY RegistryIsFunction DEF JobInv, TypeOK
<1>2. Holds(told[c][j], j) /\ told[c][j] \in Views
  BY <1>1 DEF JobInv, ViewsHold, TypeOK
<1>3. /\ jobs[d][j] = "running" => call[j].by = d /\ call[j].at \in {"queued", "applying", "returned"}
      /\ jobs[d][j] \in Terminal => /\ call[j].by = d /\ call[j].at \in {"recorded", "dry"}
                                    /\ jobs[d][j] = StateOf(call[j].result)
  BY <1>1 DEF JobInv, RecordsMatchCalls, RecordsAreResults
<1>4. Holds(jobs[d][j], j) /\ jobs[d][j] # "unknown"
  BY <1>1, <1>3 DEF Holds, JobStates, Terminal
<1>5. beside \/ Follows(told[c][j], jobs[d][j])
  BY <1>1, <1>2, <1>3 DEF Holds, Follows, Views, JobStates, Terminal
<1> QED BY <1>1, <1>4, <1>5

\* A job some client heard of and a serving process does not know belonged to another one.
LEMMA NotFoundIsTrue ==
  ASSUME JobInv, NEW d \in Daemons, proc[d] = "serving", NEW j \in Jobs, call[j].at # "none",
         j \notin DOMAIN jobs[d]
  PROVE  Holds("not_found", j)
<1>1. call[j].by \in Daemons /\ proc[call[j].by] # "new" /\ call[j] \in Call
  BY DEF JobInv, CallsMatchProcesses, TypeOK
<1>2. call[j].by # d
  BY <1>1 DEF JobInv, CallsMatchProcesses, RecordsMatchCalls, Call
<1>3. beside \/ proc[call[j].by] \in {"dropping", "gone"}
  BY <1>1, <1>2 DEF JobInv, OneServes, TypeOK
<1> QED BY <1>3 DEF Holds, Terminal

\* Requests of c touch the connection of c only.
LEMMA OtherConnections ==
  ASSUME JobInv, NEW c \in Clients, Request(c), NEW e \in Clients, e # c
  PROVE  AnswersAreTrue!(e)'
<1>1. Next /\ UNCHANGED proc /\ acked \subseteq acked'
  BY DEF Next, Request, Handle, Open, ApplyLive, DryRun, JobStatus, ListJobs, Shutdown, Write, HangUp,
         RequestShutdown
<1>2. conn'[e] = conn[e]
  BY DEF JobInv, TypeOK, Request, Handle, Open, ApplyLive, DryRun, JobStatus, ListJobs, Shutdown, Write,
         HangUp, RequestShutdown, Answer
<1>3. told'[e] = told[e]
  BY DEF JobInv, TypeOK, Request, Handle, Open, ApplyLive, DryRun, JobStatus, ListJobs, Shutdown, Write,
         HangUp, RequestShutdown
<1>4. conn[e].at # "idle" => proc[conn[e].to] = "serving"
  BY DEF JobInv, AnswersAreTrue
<1> QED BY <1>1, <1>2, <1>3, <1>4, ConnectionKept

\* Requests that change the connection only.
LEMMA ConnectionSteps ==
  ASSUME JobInv, NEW c \in Clients, Request(c), UNCHANGED <<proc, beside, stop, acked, jobs, call, told>>,
         TypeOK', AnswersAreTrue!(c)'
  PROVE  JobInv'
<1>1. AnswersAreTrue'
  BY OtherConnections DEF AnswersAreTrue
<1>2. CallsMatchProcesses' /\ RecordsMatchCalls' /\ RecordsAreResults' /\ OneServes'
  BY DEF JobInv, CallsMatchProcesses, RecordsMatchCalls, RecordsAreResults, OneServes
<1>3. ViewsHold' /\ StopIsAcknowledged'
  BY DEF JobInv, ViewsHold, Holds, StopIsAcknowledged
<1> QED BY <1>1, <1>2, <1>3 DEF JobInv

\* A job is created: an apply that is queued, or a dry run that is done.
LEMMA NewJob ==
  ASSUME JobInv, TypeOK', NEW c \in Clients, Request(c), conn[c].at = "sent", NEW j \in Jobs,
         Fresh(conn[c].to, j), NEW at, NEW result, NEW state,
         \/ at = "queued" /\ result = "none" /\ state = "running"
         \/ at = "dry" /\ result = "succeeded" /\ state = "succeeded",
         Insert(conn[c].to, j, state), Answer(c, Says(j, state)),
         call' = [call EXCEPT ![j] = [by |-> conn[c].to, at |-> at, result |-> result]],
         UNCHANGED <<proc, beside, stop, acked, told>>
  PROVE  JobInv'
<1> DEFINE d == conn[c].to
<1>1. TypeOK /\ d \in Daemons /\ proc[d] = "serving"
  BY DEF JobInv, AnswersAreTrue
<1>2. /\ state \in JobStates /\ state \in Views
      /\ state # "not_found" /\ state # "unknown" /\ state \in {"running"} \cup Terminal
  BY DEF JobStates, Views, Terminal
<1>3. call'[j].by = d /\ call'[j].at = at /\ call'[j].result = result
      /\ \A k \in Jobs \ {j} : call'[k] = call[k]
  BY <1>1 DEF TypeOK
<1>4. /\ DOMAIN jobs'[d] = DOMAIN jobs[d] \cup {j} /\ jobs'[d][j] = state
      /\ \A k \in DOMAIN jobs[d] \ {j} : jobs'[d][k] = jobs[d][k]
      /\ \A e \in Daemons \ {d} : jobs'[e] = jobs[e]
  BY <1>1, <1>2, InsertType DEF TypeOK
<1>5. call[j].at = "none" /\ call[j].by \notin Daemons
  BY NullsAssumption DEF Fresh, NoCall
<1>6. \A e \in Daemons : DOMAIN jobs[e] \subseteq Jobs /\ j \notin DOMAIN jobs[e]
  <2> SUFFICES ASSUME NEW e \in Daemons PROVE DOMAIN jobs[e] \subseteq Jobs /\ j \notin DOMAIN jobs[e]
    OBVIOUS
  <2>1. DOMAIN jobs[e] \subseteq Jobs /\ \A k \in DOMAIN jobs[e] : jobs[e][k] \in {"running"} \cup Terminal
    BY <1>1, RegistryIsFunction DEF TypeOK, JobStates
  <2>2. CASE proc[e] = "serving"
    BY <1>5, <2>1, <2>2 DEF JobInv, RecordsMatchCalls
  <2>3. CASE proc[e] # "serving"
    BY <2>1, <2>3 DEF JobInv, RecordsAreResults
  <2> QED BY <2>2, <2>3
<1>7. CallsMatchProcesses'
  BY <1>1, <1>3 DEF JobInv, CallsMatchProcesses, Results, Terminal
<1>8. RecordsAreResults'
  <2> SUFFICES ASSUME NEW e \in Daemons PROVE RecordsAreResults!(e)'
    BY DEF RecordsAreResults
  <2>1. RecordsAreResults!(e)
    BY DEF JobInv, RecordsAreResults
  <2>2. state \in Terminal => state = StateOf(call'[j].result)
    BY <1>3 DEF Terminal, StateOf
  <2>3. CASE e = d
    BY <1>1, <1>3, <1>4, <1>6, <2>1, <2>2, <2>3 DEF StateOf
  <2>4. CASE e # d
    BY <1>3, <1>4, <1>6, <2>1, <2>4 DEF StateOf
  <2> QED BY <2>3, <2>4
<1>9. RecordsMatchCalls'
  <2> SUFFICES ASSUME NEW e \in Daemons, proc[e] = "serving", NEW k \in Jobs
               PROVE  /\ (call'[k].by = e /\ call'[k].at \in {"queued", "applying", "returned"})
                           <=> (k \in DOMAIN jobs'[e] /\ jobs'[e][k] = "running")
                      /\ (call'[k].by = e /\ call'[k].at \in {"recorded", "dry"})
                           <=> (k \in DOMAIN jobs'[e] /\ jobs'[e][k] \in Terminal)
    BY DEF RecordsMatchCalls
  <2>1. CASE k = j /\ e = d
    BY <1>3, <1>4, <2>1 DEF Terminal
  <2>2. CASE k = j /\ e # d
    BY <1>3, <1>4, <1>6, <2>2
  <2>3. CASE k # j
    <3>1. (k \in DOMAIN jobs'[e] <=> k \in DOMAIN jobs[e]) /\ (k \in DOMAIN jobs[e] => jobs'[e][k] = jobs[e][k])
      BY <1>4, <2>3
    <3> QED BY <1>3, <2>3, <3>1 DEF JobInv, RecordsMatchCalls
  <2> QED BY <2>1, <2>2, <2>3
<1>10. AnswersAreTrue'
  <2>1. /\ conn'[c].at = "answering" /\ conn'[c].to = d
        /\ DOMAIN conn'[c].says = {j} /\ conn'[c].says[j] = state
    <3>1. /\ Says(j, state) \in UNION {[S -> Views] : S \in SUBSET Jobs}
          /\ DOMAIN Says(j, state) = {j} /\ Says(j, state)[j] = state
      BY <1>2, SaysType
    <3>2. /\ conn'[c].at = "answering" /\ conn'[c].says = Says(j, state)
          /\ conn'[c].to = conn[c].to
      BY <1>1, <3>1, AnswerTypes
    <3> QED BY <3>1, <3>2
  <2>2. Holds(state, j)'
    BY <1>2, <1>3 DEF Holds, Terminal, StateOf
  <2>3. told[c][j] = "unknown"
    BY <1>1, <1>5 DEF JobInv, ViewsHold, Holds
  <2>4. Follows(told'[c][j], state)
    BY <2>3 DEF Follows
  <2>5. AnswersAreTrue!(c)'
    BY <1>1, <1>2, <2>1, <2>2, <2>4 DEF Sent
  <2> QED BY <2>5, OtherConnections DEF AnswersAreTrue
<1>11. OneServes' /\ StopIsAcknowledged'
  BY DEF JobInv, OneServes, StopIsAcknowledged
<1>12. ViewsHold'
  BY ViewsKept DEF Next
<1> QED BY <1>7, <1>8, <1>9, <1>10, <1>11, <1>12 DEF JobInv

LEMMA RequestStep ==
  ASSUME JobInv, NEW c \in Clients, Request(c)
  PROVE  JobInv'
<1>1. TypeOK /\ TypeOK'
  BY RequestTypes DEF JobInv, AnswersAreTrue
<1>2. conn[c].at # "idle" => conn[c].to \in Daemons /\ proc[conn[c].to] = "serving"
  BY DEF JobInv, AnswersAreTrue
<1>3. Next
  BY DEF Next
<1>4. CASE \E d \in Daemons : Open(c, d)
  <2>1. PICK d \in Daemons : Open(c, d)
    BY <1>4
  <2>2. conn'[c].at = "sent" /\ conn'[c].to = d /\ proc'[d] = "serving"
    BY <1>1, <2>1 DEF Open, TypeOK, Idle
  <2>3. Sent(c, "status")' => conn'[c].job \in Jobs /\ Known(conn'[c].job)
    BY <1>1, <2>1 DEF Open, TypeOK, Idle, Sent
  <2>4. Sent(c, "status")' => call'[conn'[c].job].at # "none"
    BY <2>1, <2>3 DEF Open, Known, JobInv, ViewsHold, Holds
  <2>5. AnswersAreTrue!(c)'
    BY <2>2, <2>3, <2>4
  <2> QED BY <1>1, <2>1, <2>5, ConnectionSteps DEF Open
<1>5. CASE ApplyLive(c)
  <2>1. CASE Answer(c, NoRecords) /\ UNCHANGED <<jobs, call>>
    <3>1. conn'[c].at = "answering" /\ DOMAIN conn'[c].says = {} /\ conn'[c].to = conn[c].to
      BY <1>1, <2>1, NoRecordsType, AnswerTypes
    <3>2. AnswersAreTrue!(c)'
      BY <1>2, <1>5, <3>1 DEF ApplyLive, Sent
    <3> QED BY <1>1, <1>5, <2>1, <3>2, ConnectionSteps DEF ApplyLive
  <2>2. ASSUME NEW j \in Jobs, Fresh(conn[c].to, j), Insert(conn[c].to, j, "running"),
               call' = [call EXCEPT ![j] = [by |-> conn[c].to, at |-> "queued", result |-> "none"]],
               Answer(c, Says(j, "running"))
        PROVE  JobInv'
    BY <1>1, <1>5, <2>2, NewJob DEF ApplyLive, Sent
  <2> QED BY <1>5, <2>1, <2>2 DEF ApplyLive
<1>6. CASE DryRun(c)
  <2>1. PICK j \in Jobs :
          /\ Fresh(conn[c].to, j) /\ Insert(conn[c].to, j, "succeeded")
          /\ call' = [call EXCEPT ![j] = [by |-> conn[c].to, at |-> "dry", result |-> "succeeded"]]
          /\ Answer(c, Says(j, "succeeded"))
    BY <1>6 DEF DryRun
  <2> QED BY <1>1, <1>6, <2>1, NewJob DEF DryRun, Sent
<1>7. CASE JobStatus(c)
  <2>1. PICK d \in Daemons, j \in Jobs : d = conn[c].to /\ j = conn[c].job
    BY <1>2, <1>7 DEF JobStatus, JobInv, AnswersAreTrue, Sent
  <2>2. proc[d] = "serving" /\ call[j].at # "none"
    BY <1>2, <1>7, <2>1 DEF JobStatus, JobInv, AnswersAreTrue, Sent
  <2>3. PICK v : v = IF j \in DOMAIN jobs[d] THEN jobs[d][j] ELSE "not_found"
    OBVIOUS
  <2>5. v # "unknown" /\ Holds(v, j) /\ (beside \/ Follows(told[c][j], v)) /\ v \in Views
    <3>1. CASE j \in DOMAIN jobs[d]
      <4>1. jobs[d][j] \in JobStates
        BY <1>1, <3>1, RegistryIsFunction DEF TypeOK
      <4> QED BY <2>2, <2>3, <3>1, <4>1, RegistryIsTrue DEF Views
    <3>2. CASE j \notin DOMAIN jobs[d]
      BY <2>2, <2>3, <3>2, NotFoundIsTrue DEF Follows, Views
    <3> QED BY <3>1, <3>2
  <2>6. Answer(c, Says(j, v))
    BY <1>7, <2>1, <2>3 DEF JobStatus
  <2>7. conn'[c].at = "answering" /\ conn'[c].to = d /\ DOMAIN conn'[c].says = {j} /\ conn'[c].says[j] = v
    <3>1. /\ Says(j, v) \in UNION {[S -> Views] : S \in SUBSET Jobs}
          /\ DOMAIN Says(j, v) = {j} /\ Says(j, v)[j] = v
      BY <2>5, SaysType
    <3>2. conn'[c].at = "answering" /\ conn'[c].says = Says(j, v) /\ conn'[c].to = conn[c].to
      BY <1>1, <2>6, <3>1, AnswerTypes
    <3> QED BY <2>1, <3>1, <3>2
  <2>8. Holds(v, j)' /\ told' = told /\ proc' = proc /\ beside' = beside
    BY <1>3, <1>7, <2>5, HoldsKept DEF JobStatus
  <2>9. AnswersAreTrue!(c)'
    BY <2>2, <2>5, <2>7, <2>8 DEF Sent
  <2> QED BY <1>1, <1>7, <2>9, ConnectionSteps DEF JobStatus
<1>8. CASE ListJobs(c)
  <2>1. PICK d \in Daemons : d = conn[c].to
    BY <1>2, <1>8 DEF ListJobs, Sent
  <2>2. proc[d] = "serving" /\ jobs[d] \in Records
    BY <1>1, <1>2, <1>8, <2>1 DEF ListJobs, Sent, TypeOK
  <2>3. conn'[c].at = "answering" /\ conn'[c].to = d /\ conn'[c].says = jobs[d]
    BY <1>1, <1>8, <2>1, <2>2, RecordsAreViews, AnswerTypes DEF ListJobs
  <2>4. UNCHANGED <<proc, beside, told, jobs>>
    BY <1>8 DEF ListJobs
  <2>5. ASSUME NEW j \in DOMAIN jobs[d]
        PROVE  (/\ jobs[d][j] # "unknown" /\ Holds(jobs[d][j], j)
                /\ beside \/ Follows(told[c][j], jobs[d][j]))'
    <3>1. PICK v : v = jobs[d][j]
      OBVIOUS
    <3>2. j \in Jobs /\ v # "unknown" /\ Holds(v, j) /\ (beside \/ Follows(told[c][j], v))
      BY <2>2, <3>1, RegistryIsTrue
    <3>3. Holds(v, j)'
      BY <1>3, <3>2, HoldsKept
    <3>4. v = jobs'[d][j]
      BY <2>4, <3>1
    <3> QED BY <2>4, <3>2, <3>3, <3>4
  <2>6. AnswersAreTrue!(c)'
    BY <2>2, <2>3, <2>4, <2>5 DEF Sent
  <2> QED BY <1>1, <1>8, <2>6, ConnectionSteps DEF ListJobs
<1>9. CASE Shutdown(c)
  <2>1. conn'[c].at = "answering" /\ DOMAIN conn'[c].says = {} /\ conn'[c].to = conn[c].to
    BY <1>1, <1>9, NoRecordsType, AnswerTypes DEF Shutdown
  <2>2. AnswersAreTrue!(c)'
    BY <1>2, <1>9, <2>1 DEF Shutdown, Sent
  <2> QED BY <1>1, <1>9, <2>2, ConnectionSteps DEF Shutdown
<1>10. CASE HangUp(c)
  <2>1. conn'[c].at = "idle"
    BY <1>1, <1>10 DEF HangUp, TypeOK, Idle
  <2>2. AnswersAreTrue!(c)'
    BY <2>1 DEF Sent
  <2> QED BY <1>1, <1>10, <2>2, ConnectionSteps DEF HangUp
<1>11. CASE Write(c)
  <2>1. /\ conn[c].at = "answering" /\ conn[c].to \in Daemons /\ UNCHANGED <<proc, beside, stop, jobs, call>>
        /\ DOMAIN conn[c].says \subseteq Jobs
    BY <1>1, <1>2, <1>11, AnswerIsFunction DEF Write, TypeOK
  <2>2. \/ conn'[c] = [conn[c] EXCEPT !.at = "written"] /\ acked' = acked \cup {conn[c].to}
        \/ conn'[c] = Idle /\ acked' = acked
    BY <1>1, <1>11 DEF Write, TypeOK
  <2>3. AnswersAreTrue!(c)'
    <3>1. CASE conn'[c] = Idle
      BY <3>1 DEF Idle, Sent
    <3>2. CASE conn'[c] = [conn[c] EXCEPT !.at = "written"] /\ acked' = acked \cup {conn[c].to}
      <4>1. conn'[c].at = "written" /\ conn'[c].to = conn[c].to
        BY <1>1, <3>2 DEF TypeOK, Conn
      <4> QED BY <1>2, <2>1, <3>2, <4>1 DEF Sent
    <3> QED BY <2>2, <3>1, <3>2
  <2>4. AnswersAreTrue'
    BY <2>3, OtherConnections DEF AnswersAreTrue
  <2>5. ViewsHold'
    <3> SUFFICES ASSUME NEW e \in Clients, NEW j \in Jobs PROVE Holds(told[e][j], j)'
      BY DEF ViewsHold
    <3>1. PICK v : v = told'[e][j]
      OBVIOUS
    <3>2. Holds(v, j)
      BY <1>1, <1>11, <2>1, <3>1 DEF Write, TypeOK, JobInv, ViewsHold, AnswersAreTrue
    <3>3. Holds(v, j)'
      BY <1>3, <3>2, HoldsKept
    <3> QED BY <3>1, <3>3
  <2>6. CallsMatchProcesses' /\ RecordsMatchCalls' /\ RecordsAreResults' /\ OneServes'
    BY <2>1 DEF JobInv, CallsMatchProcesses, RecordsMatchCalls, RecordsAreResults, OneServes
  <2>7. StopIsAcknowledged'
    BY <2>1, <2>2 DEF JobInv, StopIsAcknowledged
  <2> QED BY <1>1, <2>4, <2>5, <2>6, <2>7 DEF JobInv
<1>12. CASE RequestShutdown(c)
  <2>1. conn[c].at = "written" /\ conn[c].to \in acked /\ UNCHANGED <<proc, beside, acked, jobs, call, told>>
    BY <1>12 DEF RequestShutdown, JobInv, AnswersAreTrue
  <2>2. conn'[c].at = "idle"
    BY <1>1, <1>12 DEF RequestShutdown, TypeOK, Idle
  <2>3. AnswersAreTrue!(c)'
    BY <2>2 DEF Sent
  <2>4. AnswersAreTrue'
    BY <2>3, OtherConnections DEF AnswersAreTrue
  <2>5. StopIsAcknowledged'
    BY <1>1, <1>12, <2>1 DEF RequestShutdown, JobInv, StopIsAcknowledged, TypeOK
  <2>6. CallsMatchProcesses' /\ RecordsMatchCalls' /\ RecordsAreResults' /\ OneServes'
    BY <2>1 DEF JobInv, CallsMatchProcesses, RecordsMatchCalls, RecordsAreResults, OneServes
  <2>7. ViewsHold'
    BY <1>3, <2>1, ViewsKept
  <2> QED BY <1>1, <2>4, <2>5, <2>6, <2>7 DEF JobInv
<1> QED BY <1>4, <1>5, <1>6, <1>7, <1>8, <1>9, <1>10, <1>11, <1>12 DEF Request, Handle

-----------------------------------------------------------------------------
(* Background tasks.                                                       *)

LEMMA BackgroundStep ==
  ASSUME JobInv, NEW j \in Jobs, Background(j)
  PROVE  JobInv'
<1>1. TypeOK /\ TypeOK' /\ call[j] \in Call
  BY BackgroundTypes DEF JobInv, TypeOK
<1>2. Next /\ UNCHANGED <<proc, beside, stop, acked, conn, told>>
  BY DEF Next, Background, StartCall, ApplyReturns, Record
<1>3. ViewsHold' /\ StopIsAcknowledged' /\ OneServes'
  BY <1>2, ViewsKept DEF JobInv, StopIsAcknowledged, OneServes
<1>4. AnswersAreTrue'
  <2> SUFFICES ASSUME NEW c \in Clients PROVE AnswersAreTrue!(c)'
    BY DEF AnswersAreTrue
  <2>1. conn[c].at # "idle" => proc'[conn[c].to] = "serving"
    BY <1>2 DEF JobInv, AnswersAreTrue
  <2> QED BY <1>2, <2>1, ConnectionKept
<1>5. CallsMatchProcesses!(j) /\ call[j].at # "none"
  BY DEF JobInv, CallsMatchProcesses, Background, StartCall, ApplyReturns, Record, Served
<1>6. call'[j].by = call[j].by /\ \A k \in Jobs \ {j} : call'[k] = call[k]
  BY <1>1 DEF Background, StartCall, ApplyReturns, Record, TypeOK, Call
<1>7. PICK d \in Daemons : d = call[j].by
  BY <1>5
<1>8. CASE StartCall(j) \/ ApplyReturns(j)
  <2>1. /\ call[j].at \in {"queued", "applying"} /\ call'[j].at \in {"applying", "returned"}
        /\ call'[j].at = "returned" => call'[j].result \in Results
        /\ jobs' = jobs
    BY <1>1, <1>8 DEF StartCall, ApplyReturns, Served, TypeOK, Call
  <2>2. CallsMatchProcesses'
    BY <1>2, <1>5, <1>6, <2>1 DEF JobInv, CallsMatchProcesses
  <2>3. RecordsMatchCalls'
    <3> SUFFICES ASSUME NEW e \in Daemons, proc[e] = "serving", NEW k \in Jobs
                 PROVE  RecordsMatchCalls!(e)!2!(k)'
      BY <1>2 DEF RecordsMatchCalls
    <3>1. RecordsMatchCalls!(e)!2!(k)
      BY DEF JobInv, RecordsMatchCalls
    <3> QED BY <1>6, <2>1, <3>1
  <2>4. RecordsAreResults'
    <3> SUFFICES ASSUME NEW e \in Daemons, NEW k \in DOMAIN jobs[e], jobs[e][k] \in Terminal
                 PROVE  jobs[e][k] = StateOf(call'[k].result)
      BY <1>2, <2>1 DEF JobInv, RecordsAreResults, StateOf
    <3>1. k \in Jobs /\ proc[e] = "serving"
      BY <1>1, RegistryIsFunction DEF TypeOK, JobInv, RecordsAreResults
    <3>2. call[k].at \in {"recorded", "dry"}
      BY <3>1 DEF JobInv, RecordsMatchCalls
    <3> QED BY <1>6, <2>1, <3>1, <3>2 DEF JobInv, RecordsAreResults, StateOf
  <2> QED BY <1>1, <1>3, <1>4, <2>2, <2>3, <2>4 DEF JobInv
<1>9. CASE Record(j)
  <2>1. /\ call[j].at = "returned" /\ call[j].result \in Results /\ proc[d] = "serving"
        /\ call'[j].at = "recorded" /\ call'[j].result = call[j].result
    BY <1>1, <1>5, <1>7, <1>9 DEF Record, Served, TypeOK, Call
  <2>2. StateOf(call[j].result) \in Terminal
    BY <2>1 DEF StateOf, Results, Terminal
  <2>3. j \in DOMAIN jobs[d] /\ DOMAIN jobs[d] \subseteq Jobs
    BY <1>1, <1>7, <2>1, RegistryIsFunction DEF JobInv, RecordsMatchCalls, TypeOK
  <2>4. /\ \A e \in Daemons : DOMAIN jobs'[e] = DOMAIN jobs[e]
        /\ jobs'[d][j] = StateOf(call[j].result)
        /\ \A k \in DOMAIN jobs[d] \ {j} : jobs'[d][k] = jobs[d][k]
        /\ \A e \in Daemons \ {d} : jobs'[e] = jobs[e]
    BY <1>1, <1>7, <1>9, <2>3 DEF Record, TypeOK
  <2>5. CallsMatchProcesses'
    BY <1>2, <1>5, <1>6, <2>1 DEF JobInv, CallsMatchProcesses
  <2>6. RecordsMatchCalls'
    <3> SUFFICES ASSUME NEW e \in Daemons, proc[e] = "serving", NEW k \in Jobs
                 PROVE  /\ (call'[k].by = e /\ call'[k].at \in {"queued", "applying", "returned"})
                             <=> (k \in DOMAIN jobs'[e] /\ jobs'[e][k] = "running")
                        /\ (call'[k].by = e /\ call'[k].at \in {"recorded", "dry"})
                             <=> (k \in DOMAIN jobs'[e] /\ jobs'[e][k] \in Terminal)
      BY <1>2 DEF RecordsMatchCalls
    <3>1. /\ (call[k].by = e /\ call[k].at \in {"queued", "applying", "returned"})
               <=> (k \in DOMAIN jobs[e] /\ jobs[e][k] = "running")
          /\ (call[k].by = e /\ call[k].at \in {"recorded", "dry"})
               <=> (k \in DOMAIN jobs[e] /\ jobs[e][k] \in Terminal)
      BY DEF JobInv, RecordsMatchCalls
    <3>2. CASE k # j
      BY <1>6, <2>4, <3>1, <3>2
    <3>3. CASE k = j /\ e = d
      BY <1>6, <1>7, <2>1, <2>2, <2>3, <2>4, <3>3 DEF Terminal
    <3>4. CASE k = j /\ e # d
      <4>1. k \notin DOMAIN jobs[e] \/ jobs[e][k] \notin {"running"} \cup Terminal
        BY <1>7, <3>1, <3>4
      <4> QED BY <1>6, <1>7, <2>4, <3>4, <4>1
    <3> QED BY <3>2, <3>3, <3>4
  <2>7. RecordsAreResults'
    <3>1. \A k \in Jobs : call'[k].result = call[k].result
      BY <1>6, <2>1
    <3>2. \A e \in Daemons : DOMAIN jobs[e] \subseteq Jobs
      BY <1>1, RegistryIsFunction DEF TypeOK
    <3> SUFFICES ASSUME NEW e \in Daemons
                 PROVE  /\ proc[e] # "serving" => DOMAIN jobs'[e] = {}
                        /\ \A k \in DOMAIN jobs'[e] :
                             jobs'[e][k] \in Terminal => jobs'[e][k] = StateOf(call'[k].result)
      BY <1>2 DEF RecordsAreResults, StateOf
    <3>3. /\ proc[e] # "serving" => DOMAIN jobs[e] = {}
          /\ \A k \in DOMAIN jobs[e] : jobs[e][k] \in Terminal => jobs[e][k] = StateOf(call[k].result)
      BY DEF JobInv, RecordsAreResults
    <3> QED BY <2>3, <2>4, <3>1, <3>2, <3>3 DEF StateOf
  <2> QED BY <1>1, <1>3, <1>4, <2>5, <2>6, <2>7 DEF JobInv
<1> QED BY <1>8, <1>9 DEF Background

-----------------------------------------------------------------------------
(* The invariant, and what follows from it.                                *)

LEMMA JobInit == Init => JobInv
<1> SUFFICES ASSUME Init PROVE JobInv
  OBVIOUS
<1>1. \A j \in Jobs : call[j] = NoCall
  BY DEF Init
<1>2. CallsMatchProcesses /\ ViewsHold
  BY <1>1 DEF Init, CallsMatchProcesses, ViewsHold, Holds, NoCall, Terminal
<1>3. RecordsMatchCalls /\ RecordsAreResults /\ OneServes /\ StopIsAcknowledged
  BY NoRecordsType DEF Init, RecordsMatchCalls, RecordsAreResults, OneServes, StopIsAcknowledged
<1>4. AnswersAreTrue
  BY DEF Init, AnswersAreTrue, Idle, Sent
<1> QED BY <1>2, <1>3, <1>4, TypeInit DEF JobInv

LEMMA JobStep == JobInv /\ [Next]_vars => JobInv'
<1> SUFFICES ASSUME JobInv, [Next]_vars PROVE JobInv'
  OBVIOUS
<1>1. CASE UNCHANGED vars
  BY <1>1 DEF vars, JobInv, TypeOK, CallsMatchProcesses, RecordsMatchCalls, RecordsAreResults, OneServes,
              AnswersAreTrue, ViewsHold, StopIsAcknowledged, Holds, Sent
<1> QED BY <1>1, ProcessStep, RequestStep, BackgroundStep DEF Next

LEMMA JobInvAlways == Spec => []JobInv
BY JobInit, JobStep, PTL DEF Spec

\* Every variable keeps its type (the state of netpland/main.rs and ipc.rs).
THEOREM JobTypes == Spec => []TypeOK
<1>1. JobInv => TypeOK
  BY DEF JobInv
<1> QED BY <1>1, JobInvAlways, PTL

\* The registry of a serving process shows every apply that may still change the
\* machine as running, and no other one (DaemonState::apply_live, main.rs).
THEOREM RegistryShowsApplies == Spec => []RecordsMatchCalls
<1>1. JobInv => RecordsMatchCalls
  BY DEF JobInv
<1> QED BY <1>1, JobInvAlways, PTL

\* No client is told an outcome that the apply did not have; a panic is told as failed.
THEOREM ClientsAreToldTheTruth == Spec => []ToldTheTruth
<1>1. JobInv => ToldTheTruth
  <2> SUFFICES ASSUME JobInv, NEW c \in Clients, NEW j \in Jobs
               PROVE  /\ told[c][j] \in {"succeeded", "rolled_back"} => call[j].result = told[c][j]
                      /\ told[c][j] = "failed" => call[j].result \in {"failed", "panicked"}
    BY DEF ToldTheTruth
  <2>1. Holds(told[c][j], j)
    BY DEF JobInv, ViewsHold
  <2> QED BY <2>1 DEF Holds, Terminal, StateOf
<1> QED BY <1>1, JobInvAlways, PTL

\* A job is not found only once the process that runs it has stopped serving, as long as
\* no two processes served at once.
THEOREM NotFoundMeansRestarted == Spec => []NotFoundOnlyAfterRestart
<1>1. JobInv => NotFoundOnlyAfterRestart
  BY DEF JobInv, ViewsHold, Holds, NotFoundOnlyAfterRestart
<1> QED BY <1>1, JobInvAlways, PTL

\* The shutdown flag is raised only after its answer was written.
THEOREM ShutdownIsAcknowledged == Spec => []StopIsAcknowledged
<1>1. JobInv => StopIsAcknowledged
  BY DEF JobInv
<1> QED BY <1>1, JobInvAlways, PTL

\* What a client is told of a job moves forward, over restarts and with other
\* clients asking at the same time, as long as no two processes served at once.
THEOREM ViewsOnlyMoveForward == Spec => ViewsMoveForward
<1>1. ASSUME JobInv, [Next]_vars
      PROVE  [beside \/ \A c \in Clients, j \in Jobs : Follows(told[c][j], told'[c][j])]_told
  <2>1. CASE told' = told
    BY <2>1
  <2>2. CASE told' # told
    <3>1. PICK e \in Clients : Write(e)
      BY <1>1, <2>2 DEF Next, vars, Process, Start, ServeReturns, Exit, Crash, Request, Handle, Open,
           ApplyLive, DryRun, JobStatus, ListJobs, Shutdown, HangUp, RequestShutdown,
           Background, StartCall, ApplyReturns, Record
    <3>2. DOMAIN conn[e].says \subseteq Jobs
      BY <1>1, AnswerIsFunction DEF JobInv, TypeOK
    <3>3. ASSUME NEW c \in Clients, NEW j \in Jobs PROVE beside \/ Follows(told[c][j], told'[c][j])
      <4>1. CASE c = e /\ j \in DOMAIN conn[e].says
        <5>1. told'[c][j] = conn[e].says[j]
          BY <1>1, <3>1, <4>1 DEF Write, JobInv, TypeOK
        <5>2. beside \/ Follows(told[e][j], conn[e].says[j])
          BY <1>1, <3>1, <4>1 DEF Write, JobInv, AnswersAreTrue
        <5> QED BY <4>1, <5>1, <5>2
      <4>2. CASE ~(c = e /\ j \in DOMAIN conn[e].says)
        <5>1. told'[c][j] = told[c][j]
          BY <1>1, <3>1, <4>2 DEF Write, JobInv, TypeOK
        <5> QED BY <5>1 DEF Follows
      <4> QED BY <4>1, <4>2
    <3> QED BY <3>3
  <2> QED BY <2>1, <2>2
<1> QED BY <1>1, JobInvAlways, PTL DEF Spec, ViewsMoveForward
=============================================================================
