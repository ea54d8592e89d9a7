----------------------- MODULE DaemonLifecycle_proofs -----------------------
(***************************************************************************)
(* Proofs about DaemonLifecycle: with any number of commands and processes *)
(* at once the SCM and the processes agree, no process runs a request      *)
(* twice whose answer fits into a frame, and a command that nobody         *)
(* disturbed, and that did not take the gap between two pipe instances for *)
(* an absent daemon, has brought about what it reports.                    *)
(***************************************************************************)
EXTENDS DaemonLifecycle, SequenceTheorems, TLAPS

\* Where a process is that serves or served, and where it is that served.
Beyond == InServe \cup {"returned", "leaving", "draining", "gone"}
Behind == Beyond \ InServe

\* The stages of the commands, and what a request may have left.
CommandStages == Stages \ {"call", "retry", "answer", "answer_or_retry"}
Asking == {<<"answer">>, <<"answer_or_retry">>}
RequestPlans ==
  {<<>>, <<"call">>, <<"look">>, <<"launch", "retry">>, <<"spawn", "retry">>, <<"retry">>,
   <<"await_running", "retry">>, <<"start_service", "retry">>,
   <<"await_stopped", "start_service", "retry">>} \cup Asking

\* Only requests are taken; a request whose answer fits is about to be sent again only
\* when the processes that took it have left.
CommandShape(c) ==
  /\ cli[c].cmd = "none" => cli[c].todo = <<>>
  /\ cli[c].cmd # "request" => cli[c].todo \in Seq(CommandStages) /\ ran[c] = <<>>
  /\ cli[c].cmd = "request" => cli[c].todo \in RequestPlans
RanBefore(c) ==
  /\ \A i \in DOMAIN ran[c] : proc[ran[c][i]].at \in Beyond
  /\ ~cli[c].long =>
       /\ \A i, k \in DOMAIN ran[c] : i < k => ran[c][i] # ran[c][k] /\ proc[ran[c][i]].at \in Behind
       /\ cli[c].todo \notin Asking \cup {<<>>} =>
            \A i \in DOMAIN ran[c] : proc[ran[c][i]].at \in Behind

LifeInv == /\ TypeOK /\ ScmAgrees
           /\ \A c \in Clients : CommandShape(c) /\ RanBefore(c)

-----------------------------------------------------------------------------
(* Types and lists of stages.                                              *)

Scm == [installed : BOOLEAN, doomed : BOOLEAN, state : {"stopped", "start_pending", "running", "stop_pending"}]
Proc == [kind : {"none", "service", "background"}, stop : BOOLEAN,
         at : {"unused", "starting", "opening", "serving", "between", "returned", "leaving", "draining", "gone"}]
Cli == [cmd : Commands \cup {"none"}, todo : Seq(Stages), failed : BOOLEAN, long : BOOLEAN]

LEMMA LifeTypes ==
  TypeOK <=> /\ scm \in Scm /\ proc \in [Procs -> Proc] /\ cli \in [Clients -> Cli]
             /\ ran \in [Clients -> Seq(Procs)] /\ alone \in [Clients -> BOOLEAN] /\ missed \subseteq Clients
BY DEF TypeOK, Scm, Proc, Cli

\* Short lists put in front of one more stage.
LEMMA Fronts ==
  ASSUME NEW S, NEW a \in S, NEW b \in S, NEW e \in S
  PROVE  /\ <<a>> \o <<b>> = <<a, b>>
         /\ <<a, b>> \o <<e>> = <<a, b, e>>
         /\ <<>> \o <<a>> = <<a>> /\ <<a>> \o <<>> = <<a>> /\ <<a, b>> \o <<>> = <<a, b>> /\ <<>> \o <<>> = <<>>
<1>1. /\ <<>> \in Seq(S) /\ <<a>> \in Seq(S) /\ <<b>> \in Seq(S) /\ <<e>> \in Seq(S)
      /\ <<a, b>> \in Seq(S) /\ <<a, b, e>> \in Seq(S)
  OBVIOUS
<1>2. <<a>> \o <<b>> = <<a, b>>
  <2>1. <<a>> \o <<b>> \in Seq(S) /\ Len(<<a>> \o <<b>>) = 2
    BY <1>1
  <2>2. (<<a>> \o <<b>>)[1] = a /\ (<<a>> \o <<b>>)[2] = b
    BY <1>1
  <2>3. \A i \in 1..2 : (<<a>> \o <<b>>)[i] = <<a, b>>[i]
    BY <2>2
  <2> QED BY <1>1, <2>1, <2>3, SeqEqual
<1>3. <<a, b>> \o <<e>> = <<a, b, e>>
  <2>1. <<a, b>> \o <<e>> \in Seq(S) /\ Len(<<a, b>> \o <<e>>) = 3
    BY <1>1
  <2>2. (<<a, b>> \o <<e>>)[1] = a /\ (<<a, b>> \o <<e>>)[2] = b /\ (<<a, b>> \o <<e>>)[3] = e
    BY <1>1
  <2>3. \A i \in 1..3 : (<<a, b>> \o <<e>>)[i] = <<a, b, e>>[i]
    BY <2>2
  <2> QED BY <1>1, <2>1, <2>3, SeqEqual
<1> QED BY <1>1, <1>2, <1>3, ConcatEmptySeq

\* The command of c has the stages t left, and no other command has moved.
Becomes(c, t) ==
  /\ cli' \in [Clients -> Cli] /\ cli'[c].cmd = cli[c].cmd /\ cli'[c].todo = t
  /\ cli'[c].long = cli[c].long
  /\ \A e \in Clients \ {c} : cli'[e] = cli[e]

LEMMA GotoBecomes ==
  ASSUME TypeOK, NEW c \in Clients, cli[c].todo # <<>>, NEW s \in Seq(Stages), Goto(c, s)
  PROVE  Becomes(c, s \o Tail(cli[c].todo))
<1>1. cli \in [Clients -> Cli] /\ cli[c] \in Cli /\ cli[c].todo \in Seq(Stages)
  BY LifeTypes DEF Cli
<1>2. s \o Tail(cli[c].todo) \in Seq(Stages)
  BY <1>1, HeadTailProperties, ConcatProperties
<1>3. PICK t \in Seq(Stages) : t = s \o Tail(cli[c].todo)
  BY <1>2
<1>4. cli' = [cli EXCEPT ![c] = [cli[c] EXCEPT !.todo = t]]
  BY <1>1, <1>3 DEF Goto
<1>5. [cli[c] EXCEPT !.todo = t] \in Cli
  BY <1>1 DEF Cli
<1>6. cli' \in [Clients -> Cli] /\ cli'[c] = [cli[c] EXCEPT !.todo = t] /\ \A e \in Clients \ {c} : cli'[e] = cli[e]
  BY <1>1, <1>4, <1>5
<1>7. cli'[c].cmd = cli[c].cmd /\ cli'[c].todo = t /\ cli'[c].long = cli[c].long
  BY <1>1, <1>6 DEF Cli
<1> QED BY <1>3, <1>6, <1>7 DEF Becomes

LEMMA FailBecomes ==
  ASSUME TypeOK, NEW c \in Clients, Fail(c)
  PROVE  Becomes(c, <<>>)
<1>1. cli \in [Clients -> Cli] /\ cli[c] \in Cli /\ <<>> \in Seq(Stages)
  BY LifeTypes DEF Cli
<1>2. cli' = [cli EXCEPT ![c] = [cli[c] EXCEPT !.todo = <<>>, !.failed = TRUE]]
  BY <1>1 DEF Fail
<1>3. [cli[c] EXCEPT !.todo = <<>>, !.failed = TRUE] \in Cli
  BY <1>1 DEF Cli
<1>4. /\ cli' \in [Clients -> Cli] /\ \A e \in Clients \ {c} : cli'[e] = cli[e]
      /\ cli'[c] = [cli[c] EXCEPT !.todo = <<>>, !.failed = TRUE]
  BY <1>1, <1>2, <1>3
<1>5. cli'[c].cmd = cli[c].cmd /\ cli'[c].todo = <<>> /\ cli'[c].long = cli[c].long
  BY <1>1, <1>4 DEF Cli
<1> QED BY <1>4, <1>5 DEF Becomes

\* Stages other than those of a request do not take one.
LEMMA PlainStep ==
  ASSUME LifeInv, NEW c \in Clients, Execute(c), cli[c].cmd # "request"
  PROVE  cli' \in [Clients -> Cli] /\ CommandShape(c)' /\ UNCHANGED ran
         /\ \A e \in Clients \ {c} : cli'[e] = cli[e]
<1> DEFINE todo == cli[c].todo
<1>1. /\ TypeOK /\ cli[c] \in Cli /\ todo \in Seq(CommandStages) /\ ran[c] = <<>>
      /\ CommandStages \subseteq Stages
  BY LifeTypes DEF LifeInv, CommandShape, CommandStages
<1>2. todo # <<>> /\ Head(todo) \in CommandStages /\ Tail(todo) \in Seq(CommandStages)
  <2>1. todo # <<>>
    BY DEF Execute, Look, QueryStop, Control, AwaitState, Awaits, Delete, Install, Launch, StartService,
           ShutdownIfRunning, WaitUntilStopped, WaitUntilReady, Probe, Spawn, Call, Retry, Answer, Answering, Stage
  <2> QED BY <1>1, <2>1, HeadTailProperties
<1>3. cli[c].cmd \in {"enable", "disable", "start", "stop"}
  BY <1>1, <1>2 DEF LifeInv, CommandShape, Cli, Commands
<1> DEFINE F == {<<>>, <<"query_stop">>, <<"query_stop", "delete">>, <<"launch", "ready">>, <<"probe">>,
                 <<"control">>, <<"await_stopped">>, <<"await_running">>,
                 <<"await_stopped", "start_service">>, <<"start_service">>, <<"await_gone">>,
                 <<"spawn", "ready">>, <<"shutdown">>}
<1>4. F \subseteq Seq(CommandStages)
  BY DEF CommandStages, Stages
<1>5. ~(Call(c) \/ Retry(c) \/ Answer(c))
  BY <1>2 DEF Call, Retry, Answer, Answering, Stage, CommandStages
<1>6. Fail(c) \/ (\E s \in F : Goto(c, s)) \/ cli' = [cli EXCEPT ![c].todo = <<"shutdown">>]
  <2>1. CASE Look(c)
    BY <1>3, <2>1 DEF Look, Installed, Missing
  <2>2. CASE QueryStop(c)
    BY <2>2 DEF QueryStop
  <2>3. CASE Launch(c)
    <3>1. scm.state \in {"stopped", "start_pending", "running", "stop_pending"}
      BY <1>1, LifeTypes DEF Scm
    <3> QED BY <2>3, <3>1 DEF Launch
  <2>4. CASE ~(Look(c) \/ QueryStop(c) \/ Launch(c))
    BY <1>5, <2>4 DEF Execute, Control, AwaitState, Delete, Install, StartService,
           ShutdownIfRunning, WaitUntilStopped, WaitUntilReady, Probe, Spawn, Proceed
  <2> QED BY <2>1, <2>2, <2>3, <2>4
<1>7. UNCHANGED ran
  BY <1>5 DEF Execute, Look, QueryStop, Control, AwaitState, Delete, Install, Launch, StartService,
           ShutdownIfRunning, WaitUntilStopped, WaitUntilReady, Probe, Spawn
<1>8. \E t \in Seq(CommandStages) : Becomes(c, t)
  <2>1. CASE Fail(c)
    BY <1>1, <2>1, FailBecomes, EmptySeq
  <2>2. ASSUME NEW s \in F, Goto(c, s) PROVE \E t \in Seq(CommandStages) : Becomes(c, t)
    <3>1. s \in Seq(CommandStages) /\ s \in Seq(Stages)
      BY <1>1, <1>4, SeqMonotonic
    <3> QED BY <1>1, <1>2, <2>2, <3>1, GotoBecomes, ConcatProperties
  <2>3. CASE cli' = [cli EXCEPT ![c].todo = <<"shutdown">>]
    <3>1. <<"shutdown">> \in Seq(CommandStages) /\ <<"shutdown">> \in Seq(Stages)
      BY DEF CommandStages, Stages
    <3>2. [cli[c] EXCEPT !.todo = <<"shutdown">>] \in Cli
      BY <1>1, <3>1 DEF Cli
    <3>3. /\ cli' \in [Clients -> Cli] /\ \A e \in Clients \ {c} : cli'[e] = cli[e]
          /\ cli'[c] = [cli[c] EXCEPT !.todo = <<"shutdown">>]
      BY <1>1, <2>3, <3>2, LifeTypes
    <3>4. cli'[c].cmd = cli[c].cmd /\ cli'[c].todo = <<"shutdown">> /\ cli'[c].long = cli[c].long
      BY <1>1, <3>3 DEF Cli
    <3> QED BY <3>1, <3>3, <3>4 DEF Becomes
  <2> QED BY <1>6, <2>1, <2>2, <2>3
<1> QED BY <1>1, <1>3, <1>7, <1>8 DEF Becomes, CommandShape

\* Taking the first stage off a short list.
LEMMA ShortTails ==
  ASSUME NEW a, NEW b, NEW e
  PROVE  /\ Tail(<<a>>) = <<>> /\ Tail(<<a, b>>) = <<b>> /\ Tail(<<a, b, e>>) = <<b, e>>
         /\ Head(<<a>>) = a /\ Head(<<a, b>>) = a /\ Head(<<a, b, e>>) = a
OBVIOUS

LEMMA AskingLists ==
  ASSUME NEW t \in Asking
  PROVE  Tail(t) = <<>> /\ Head(t) \in {"answer", "answer_or_retry"} /\ t # <<>>
<1>1. t = <<"answer">> \/ t = <<"answer_or_retry">>
  BY DEF Asking
<1>2. CASE t = <<"answer">>
  BY <1>2, ShortTails
<1>3. CASE t = <<"answer_or_retry">>
  BY <1>3, ShortTails
<1> QED BY <1>1, <1>2, <1>3

\* The lists a request comes to, one stage at a time.
LEMMA RequestStep ==
  ASSUME LifeInv, NEW c \in Clients, Execute(c), cli[c].cmd = "request"
  PROVE  /\ cli' \in [Clients -> Cli] /\ cli'[c].cmd = "request" /\ cli'[c].todo \in RequestPlans
         /\ cli'[c].long = cli[c].long
         /\ \A e \in Clients \ {c} : cli'[e] = cli[e]
         /\ \/ UNCHANGED ran /\ cli'[c].todo \notin Asking /\ cli[c].todo \notin Asking
            \/ UNCHANGED ran /\ cli'[c].todo = <<>>
            \/ UNCHANGED ran /\ UNCHANGED proc /\ Broken(c) /\ cli[c].todo \in Asking
            \/ /\ \E p \in Listening : ran' = [ran EXCEPT ![c] = Append(ran[c], p)]
               /\ cli[c].todo \notin Asking /\ cli[c].todo # <<>> /\ cli'[c].todo \in Asking
<1> DEFINE todo == cli[c].todo
<1>1. TypeOK /\ todo \in RequestPlans /\ scm.state \in {"stopped", "start_pending", "running", "stop_pending"}
  BY LifeTypes DEF LifeInv, CommandShape, Scm
<1>2. todo # <<>>
  BY DEF Execute, Look, QueryStop, Control, AwaitState, Awaits, Delete, Install, Launch, StartService,
         ShutdownIfRunning, WaitUntilStopped, WaitUntilReady, Probe, Spawn, Call, Retry, Answer, Answering, Stage
<1> DEFINE Moves(t) == cli' \in [Clients -> Cli] /\ cli'[c].cmd = "request" /\ cli'[c].todo = t
                       /\ cli'[c].long = cli[c].long
                       /\ \A e \in Clients \ {c} : cli'[e] = cli[e]
<1>3. ASSUME Fail(c) PROVE Moves(<<>>)
  BY <1>1, <1>3, FailBecomes DEF Becomes
<1>4. ASSUME NEW s \in Seq(Stages), Goto(c, s) PROVE Moves(s \o Tail(todo))
  BY <1>1, <1>2, <1>4, GotoBecomes DEF Becomes
<1>5. /\ <<>> \in Seq(Stages) /\ <<"look">> \in Seq(Stages) /\ <<"answer">> \in Seq(Stages)
      /\ <<"answer_or_retry">> \in Seq(Stages) /\ <<"retry">> \in Seq(Stages)
      /\ <<"launch", "retry">> \in Seq(Stages) /\ <<"spawn", "retry">> \in Seq(Stages)
      /\ <<"await_running">> \in Seq(Stages) /\ <<"start_service">> \in Seq(Stages)
      /\ <<"await_stopped", "start_service">> \in Seq(Stages)
  BY DEF Stages
<1>6. ASSUME NEW s \in Seq(Stages), Goto(c, s), Tail(todo) = <<>> PROVE Moves(s)
  <2>1. Moves(s \o Tail(todo))
    BY <1>4, <1>6
  <2>2. s \o Tail(todo) = s
    BY <1>6, ConcatEmptySeq
  <2> QED BY <2>1, <2>2
<1>7. CASE todo = <<"call">>
  <2>1. Call(c)
    BY <1>7 DEF Execute, Look, QueryStop, Control, AwaitState, Awaits, Delete, Install, Launch, StartService,
         ShutdownIfRunning, WaitUntilStopped, WaitUntilReady, Probe, Spawn, Retry, Answer, Answering, Stage
  <2>2. Tail(todo) = <<>>
    BY <1>7
  <2>3. CASE Fail(c) /\ UNCHANGED ran
    BY <1>3, <2>3 DEF RequestPlans
  <2>4. CASE Goto(c, <<"look">>) /\ UNCHANGED ran
    <3>1. Moves(<<"look">>)
      BY <1>5, <1>6, <2>2, <2>4
    <3> QED BY <1>7, <2>4, <3>1 DEF RequestPlans, Asking
  <2>5. CASE Take(c, <<"answer">>)
    <3>1. Moves(<<"answer">>)
      BY <1>5, <1>6, <2>2, <2>5 DEF Take
    <3>2. Head(todo) = "call" /\ todo \notin Asking
      <4>1. Head(todo) = "call"
        BY <1>7, ShortTails
      <4> QED BY <4>1, AskingLists
    <3> QED BY <1>2, <2>5, <3>1, <3>2 DEF Take, RequestPlans, Asking
  <2> QED BY <2>1, <2>3, <2>4, <2>5 DEF Call
<1>8. CASE todo = <<"retry">>
  <2>1. Retry(c)
    BY <1>8 DEF Execute, Look, QueryStop, Control, AwaitState, Awaits, Delete, Install, Launch, StartService,
         ShutdownIfRunning, WaitUntilStopped, WaitUntilReady, Probe, Spawn, Call, Answer, Answering, Stage
  <2>2. Tail(todo) = <<>>
    BY <1>8
  <2>3. CASE Fail(c) /\ UNCHANGED ran
    BY <1>3, <2>3 DEF RequestPlans
  <2>4. CASE Take(c, <<"answer_or_retry">>)
    <3>1. Moves(<<"answer_or_retry">>)
      BY <1>5, <1>6, <2>2, <2>4 DEF Take
    <3>2. Head(todo) = "retry" /\ todo \notin Asking
      <4>1. Head(todo) = "retry"
        BY <1>8, ShortTails
      <4> QED BY <4>1, AskingLists
    <3> QED BY <1>2, <2>4, <3>1, <3>2 DEF Take, RequestPlans, Asking
  <2> QED BY <2>1, <2>3, <2>4 DEF Retry
<1>9. CASE todo \in Asking
  <2>1. Answer(c)
    BY <1>9 DEF Execute, Look, QueryStop, Control, AwaitState, Awaits, Delete, Install, Launch, StartService,
         ShutdownIfRunning, WaitUntilStopped, WaitUntilReady, Probe, Spawn, Call, Retry, Stage, Asking
  <2>2. Tail(todo) = <<>> /\ UNCHANGED <<proc, ran>>
    BY <1>9, <2>1, AskingLists DEF Answer
  <2>3. CASE Proceed(c)
    <3>1. Moves(<<>>)
      BY <1>5, <1>6, <2>2, <2>3 DEF Proceed
    <3> QED BY <2>2, <3>1 DEF RequestPlans
  <2>4. CASE Fail(c)
    BY <1>3, <2>2, <2>4 DEF RequestPlans
  <2>5. CASE Broken(c) /\ Goto(c, <<"retry">>)
    <3>1. Moves(<<"retry">>)
      BY <1>5, <1>6, <2>2, <2>5
    <3> QED BY <1>9, <2>2, <2>5, <3>1 DEF RequestPlans
  <2> QED BY <2>1, <2>3, <2>4, <2>5 DEF Answer
<1>10. CASE todo \notin Asking \cup {<<"call">>, <<"retry">>}
  <2>1. todo \in {<<"look">>, <<"launch", "retry">>, <<"spawn", "retry">>, <<"await_running", "retry">>,
                  <<"start_service", "retry">>, <<"await_stopped", "start_service", "retry">>}
    BY <1>1, <1>2, <1>10 DEF RequestPlans
  <2>2. /\ Head(todo) \in {"look", "launch", "spawn", "await_running", "start_service", "await_stopped"}
        /\ Head(todo) = "look" => Tail(todo) = <<>>
        /\ Head(todo) \in {"launch", "spawn", "await_running", "start_service"} => Tail(todo) = <<"retry">>
        /\ Head(todo) = "await_stopped" => Tail(todo) = <<"start_service", "retry">>
    <3>1. CASE todo = <<"look">>
      BY <3>1, ShortTails
    <3>2. CASE todo = <<"await_stopped", "start_service", "retry">>
      BY <3>2, ShortTails
    <3>3. ASSUME NEW a \in {"launch", "spawn", "await_running", "start_service"}, todo = <<a, "retry">>
          PROVE  Head(todo) = a /\ Tail(todo) = <<"retry">>
      BY <3>3, ShortTails
    <3> QED BY <2>1, <3>1, <3>2, <3>3
  <2>3. Look(c) \/ Launch(c) \/ Spawn(c) \/ AwaitState(c) \/ StartService(c)
    BY <2>2 DEF Execute, QueryStop, Control, Delete, Install, ShutdownIfRunning, WaitUntilStopped,
         WaitUntilReady, Probe, Call, Retry, Answer, Answering, Stage
  <2>4. UNCHANGED ran
    BY <2>3 DEF Look, Launch, Spawn, AwaitState, StartService
  <2> DEFINE Remaining == {<<>>, <<"retry">>, <<"launch", "retry">>, <<"spawn", "retry">>,
                           <<"await_running", "retry">>, <<"start_service", "retry">>,
                           <<"await_stopped", "start_service", "retry">>}
  <2>5. <<>> \o <<"retry">> = <<"retry">> /\ <<>> \o <<"start_service", "retry">> = <<"start_service", "retry">>
        /\ <<"await_running">> \o <<"retry">> = <<"await_running", "retry">>
        /\ <<"start_service">> \o <<"retry">> = <<"start_service", "retry">>
        /\ <<"await_stopped", "start_service">> \o <<"retry">> = <<"await_stopped", "start_service", "retry">>
        /\ <<"launch", "retry">> \o <<>> = <<"launch", "retry">>
        /\ <<"spawn", "retry">> \o <<>> = <<"spawn", "retry">>
    <3>1. "retry" \in Stages /\ "start_service" \in Stages /\ "await_running" \in Stages
          /\ "await_stopped" \in Stages /\ "launch" \in Stages /\ "spawn" \in Stages
      BY DEF Stages
    <3>2. <<"start_service", "retry">> \in Seq(Stages)
      BY <3>1
    <3>3. /\ <<>> \o <<"retry">> = <<"retry">>
          /\ <<"await_running">> \o <<"retry">> = <<"await_running", "retry">>
          /\ <<"start_service">> \o <<"retry">> = <<"start_service", "retry">>
      BY <3>1, Fronts
    <3>4. <<"await_stopped", "start_service">> \o <<"retry">> = <<"await_stopped", "start_service", "retry">>
      BY <3>1, Fronts
    <3>5. <<"launch", "retry">> \o <<>> = <<"launch", "retry">>
      BY <3>1, Fronts
    <3>6. <<"spawn", "retry">> \o <<>> = <<"spawn", "retry">>
      BY <3>1, Fronts
    <3>7. <<>> \o <<"start_service", "retry">> = <<"start_service", "retry">>
      BY <3>2, ConcatEmptySeq
    <3> QED BY <3>3, <3>4, <3>5, <3>6, <3>7
  <2>6. \E t \in Remaining : Moves(t)
    <3>1. CASE Fail(c)
      BY <1>3, <3>1
    <3>2. CASE Look(c) /\ ~Fail(c)
      <4>1. Head(todo) = "look" /\ (Goto(c, <<"launch", "retry">>) \/ Goto(c, <<"spawn", "retry">>))
        BY <3>2 DEF Look, Stage, Installed, Missing
      <4> QED BY <1>4, <1>5, <2>2, <2>5, <4>1
    <3>3. CASE Launch(c) /\ ~Fail(c)
      <4>1. /\ Head(todo) = "launch"
            /\ \/ Goto(c, <<>>) \/ Goto(c, <<"await_running">>) \/ Goto(c, <<"start_service">>)
               \/ Goto(c, <<"await_stopped", "start_service">>)
        BY <1>1, <3>3 DEF Launch, Stage
      <4> QED BY <1>4, <1>5, <2>2, <2>5, <4>1
    <3>4. CASE (Spawn(c) \/ AwaitState(c)) /\ ~Fail(c)
      <4>1. Goto(c, <<>>) /\ Head(todo) \in {"spawn", "await_running", "await_stopped"}
        BY <3>4 DEF Spawn, AwaitState, Awaits, Proceed, Stage
      <4> QED BY <1>4, <1>5, <2>2, <2>5, <4>1
    <3>5. CASE StartService(c) /\ ~Fail(c)
      <4>1. Goto(c, <<"await_running">>) /\ Head(todo) = "start_service"
        BY <3>5 DEF StartService, Stage
      <4> QED BY <1>4, <1>5, <2>2, <2>5, <4>1
    <3> QED BY <2>3, <3>1, <3>2, <3>3, <3>4, <3>5
  <2>7. \A t \in Remaining : t \in RequestPlans /\ t \notin Asking
    BY DEF RequestPlans, Asking
  <2> HIDE DEF Remaining
  <2> QED BY <1>10, <2>4, <2>6, <2>7
<1> QED BY <1>7, <1>8, <1>9, <1>10

-----------------------------------------------------------------------------
(* Processes.                                                              *)

\* Commands stop processes and start them, and move none.
LEMMA CommandsMoveNone ==
  ASSUME TypeOK, NEW c \in Clients, Begin(c) \/ Execute(c)
  PROVE  /\ proc' \in [Procs -> Proc] /\ (missed' = missed \/ missed' = missed \cup {c})
         /\ \A p \in Procs : \/ proc'[p].at = proc[p].at /\ proc'[p].kind = proc[p].kind
                             \/ proc[p] = Unused /\ proc'[p].at = "starting"
<1>1. proc \in [Procs -> Proc]
  BY LifeTypes
<1>2. \/ UNCHANGED proc
      \/ proc' = [p \in Procs |-> IF p \in Hosts THEN [proc[p] EXCEPT !.stop = TRUE] ELSE proc[p]]
      \/ \E p \in Listening : proc' = [proc EXCEPT ![p].stop = TRUE]
      \/ \E p \in Procs, kind \in {"service", "background"} : Run(p, kind)
  BY DEF Begin, Execute, Look, QueryStop, Control, AwaitState, Delete, Install, Launch, StartService,
         ShutdownIfRunning, WaitUntilStopped, WaitUntilReady, Probe, Spawn, Call, Retry, Answer, Take
<1>3. \A p \in Procs : /\ [proc[p] EXCEPT !.stop = TRUE] \in Proc
                       /\ [proc[p] EXCEPT !.stop = TRUE].at = proc[p].at
                       /\ [proc[p] EXCEPT !.stop = TRUE].kind = proc[p].kind
  BY <1>1 DEF Proc
<1>4. \A kind \in {"service", "background"} :
        /\ [Unused EXCEPT !.kind = kind, !.at = "starting"] \in Proc
        /\ [Unused EXCEPT !.kind = kind, !.at = "starting"].at = "starting"
  BY DEF Unused, Proc
<1>5. missed' = missed \/ missed' = missed \cup {c}
  BY DEF Begin, Execute, Look, QueryStop, Control, AwaitState, Delete, Install, Launch, StartService,
         ShutdownIfRunning, WaitUntilStopped, WaitUntilReady, Probe, Spawn, Call, Retry, Answer, FindsAbsent
<1>6. CASE UNCHANGED proc
  BY <1>1, <1>5, <1>6
<1>7. CASE proc' = [p \in Procs |-> IF p \in Hosts THEN [proc[p] EXCEPT !.stop = TRUE] ELSE proc[p]]
  BY <1>1, <1>3, <1>5, <1>7
<1>8. ASSUME NEW p \in Listening, proc' = [proc EXCEPT ![p].stop = TRUE]
      PROVE  proc' \in [Procs -> Proc]
             /\ \A q \in Procs : proc'[q].at = proc[q].at /\ proc'[q].kind = proc[q].kind
  <2>1. p \in Procs
    BY DEF Listening
  <2> QED BY <1>1, <1>3, <1>8, <2>1
<1>9. ASSUME NEW p \in Procs, NEW kind \in {"service", "background"}, Run(p, kind)
      PROVE  proc' \in [Procs -> Proc] /\ proc[p] = Unused /\ proc'[p].at = "starting"
             /\ \A q \in Procs \ {p} : proc'[q] = proc[q]
  BY <1>1, <1>4, <1>9 DEF Run
<1> QED BY <1>2, <1>5, <1>6, <1>7, <1>8, <1>9

\* A process moves forward, and keeps its kind.
LEMMA ProcessesMoveForward ==
  ASSUME TypeOK, NEW p \in Procs, Live(p)
  PROVE  /\ proc' \in [Procs -> Proc] /\ UNCHANGED <<cli, ran, missed>>
         /\ alone' \in [Clients -> BOOLEAN]
         /\ \A q \in Procs \ {p} : proc'[q] = proc[q]
         /\ proc'[p].kind = proc[p].kind
         /\ proc[p].at \in Behind => proc'[p].at \in Behind
         /\ proc[p].at \in Beyond => proc'[p].at \in Beyond
<1>1. proc \in [Procs -> Proc] /\ proc[p] \in Proc /\ alone \in [Clients -> BOOLEAN]
  BY LifeTypes
<1>2. \A at \in {"opening", "serving", "between", "returned", "leaving", "draining", "gone"} :
        [proc[p] EXCEPT !.at = at] \in Proc /\ [proc[p] EXCEPT !.at = at].at = at
        /\ [proc[p] EXCEPT !.at = at].kind = proc[p].kind
  BY <1>1 DEF Proc
<1>3. CASE ReportRunning(p)
  BY <1>1, <1>2, <1>3 DEF ReportRunning, Move, Beyond, Behind, InServe
<1>4. CASE OpenEndpoint(p)
  BY <1>1, <1>2, <1>4 DEF OpenEndpoint, AfterServe, Move, Beyond, Behind, InServe
<1>5. CASE HandOver(p)
  BY <1>1, <1>2, <1>5 DEF HandOver, Move, Beyond, Behind, InServe
<1>6. CASE NextInstance(p)
  BY <1>1, <1>2, <1>6 DEF NextInstance, Move, Beyond, Behind, InServe
<1>7. CASE LoseEndpoint(p)
  BY <1>1, <1>2, <1>7 DEF LoseEndpoint, AfterServe, Move, Beyond, Behind, InServe
<1>8. CASE ServeReturns(p)
  BY <1>1, <1>2, <1>8 DEF ServeReturns, AfterServe, Move, Beyond, Behind, InServe
<1>9. CASE ReportStopped(p)
  BY <1>1, <1>2, <1>9 DEF ReportStopped, Move, Beyond, Behind, InServe
<1>10. CASE Exit(p)
  BY <1>1, <1>2, <1>10 DEF Exit, Move, Beyond, Behind, InServe
<1> QED BY <1>3, <1>4, <1>5, <1>6, <1>7, <1>8, <1>9, <1>10 DEF Live

\* The SCM hears of every process it starts, and of no other one.
LEMMA CommandsKeepScm ==
  ASSUME LifeInv, NEW c \in Clients, Begin(c) \/ Execute(c)
  PROVE  scm' \in Scm /\ ScmAgrees'
<1>1. TypeOK /\ scm \in Scm /\ proc \in [Procs -> Proc] /\ ScmAgrees
  BY LifeTypes DEF LifeInv
<1>2. ASSUME scm' \in Scm, scm'.state = scm.state,
             \A p \in Procs : \/ proc'[p].at = proc[p].at /\ proc'[p].kind = proc[p].kind
                              \/ proc[p].at = "unused" /\ proc'[p].kind = "background"
      PROVE  scm' \in Scm /\ ScmAgrees'
  <2>1. Hosts' = Hosts
    BY <1>2 DEF Hosts, InServe
  <2> QED BY <1>1, <1>2, <2>1 DEF ScmAgrees
<1>3. CASE Control(c)
  <2>1. CASE UNCHANGED <<scm, proc>>
    BY <1>1, <1>2, <2>1
  <2>2. CASE /\ scm.state = "running" /\ scm' = [scm EXCEPT !.state = "stop_pending"]
             /\ proc' = [p \in Procs |-> IF p \in Hosts THEN [proc[p] EXCEPT !.stop = TRUE] ELSE proc[p]]
    <3>1. scm' \in Scm /\ scm'.state = "stop_pending"
      BY <1>1, <2>2 DEF Scm
    <3>2. \A p \in Procs : proc'[p].at = proc[p].at /\ proc'[p].kind = proc[p].kind
      BY <1>1, <2>2 DEF Proc
    <3>3. Hosts' = Hosts
      BY <3>2 DEF Hosts, InServe
    <3> QED BY <1>1, <2>2, <3>1, <3>3 DEF ScmAgrees
  <2> QED BY <1>3, <2>1, <2>2 DEF Control
<1>4. CASE StartService(c)
  <2>1. CASE UNCHANGED <<scm, proc>>
    BY <1>1, <1>2, <2>1
  <2>2. ASSUME scm.state = "stopped", scm' = [scm EXCEPT !.state = "start_pending"],
               NEW p \in Procs, Run(p, "service")
        PROVE  scm' \in Scm /\ ScmAgrees'
    <3>1. scm' \in Scm /\ scm'.state = "start_pending"
      BY <1>1, <2>2 DEF Scm
    <3>2. /\ \A q \in Procs \ {p} : proc'[q] = proc[q]
          /\ proc'[p].at = "starting" /\ proc'[p].kind = "service"
      BY <1>1, <2>2 DEF Run, Unused
    <3>3. Hosts = {}
      BY <1>1, <2>2 DEF ScmAgrees
    <3>4. Hosts' = {p}
      BY <3>2, <3>3 DEF Hosts, InServe
    <3> QED BY <3>1, <3>4 DEF ScmAgrees
  <2> QED BY <1>4, <2>1, <2>2 DEF StartService
<1>5. CASE Delete(c) \/ Install(c)
  <2>1. UNCHANGED proc
    BY <1>5 DEF Delete, Install
  <2>2. /\ [scm EXCEPT !.installed = FALSE] \in Scm /\ [scm EXCEPT !.installed = FALSE].state = scm.state
        /\ [scm EXCEPT !.installed = TRUE] \in Scm /\ [scm EXCEPT !.installed = TRUE].state = scm.state
        /\ [scm EXCEPT !.doomed = scm.installed] \in Scm
        /\ [scm EXCEPT !.doomed = scm.installed].state = scm.state
    BY <1>1 DEF Scm
  <2>3. scm' \in Scm /\ scm'.state = scm.state
    BY <1>1, <1>5, <2>2 DEF Delete, Install
  <2> QED BY <1>2, <2>1, <2>3
<1>6. CASE Spawn(c)
  <2>1. UNCHANGED scm /\ (UNCHANGED proc \/ \E p \in Procs : Run(p, "background"))
    BY <1>6 DEF Spawn
  <2>2. \A p \in Procs : \/ proc'[p].at = proc[p].at /\ proc'[p].kind = proc[p].kind
                         \/ proc[p].at = "unused" /\ proc'[p].kind = "background"
    <3>1. ASSUME NEW p \in Procs, Run(p, "background")
          PROVE  /\ proc[p].at = "unused" /\ proc'[p].kind = "background"
                 /\ \A q \in Procs \ {p} : proc'[q] = proc[q]
      BY <1>1, <3>1 DEF Run, Unused
    <3> QED BY <2>1, <3>1
  <2> QED BY <1>1, <1>2, <2>1, <2>2
<1>7. CASE ~(Control(c) \/ StartService(c) \/ Delete(c) \/ Install(c) \/ Spawn(c))
  <2>1. UNCHANGED scm
    BY <1>7 DEF Begin, Execute, Look, QueryStop, AwaitState, Launch, ShutdownIfRunning, WaitUntilStopped,
           WaitUntilReady, Probe, Call, Retry, Answer
  <2>2. \/ UNCHANGED proc
        \/ \E p \in Listening : proc' = [proc EXCEPT ![p].stop = TRUE]
    BY <1>7 DEF Begin, Execute, Look, QueryStop, AwaitState, Launch, ShutdownIfRunning, WaitUntilStopped,
           WaitUntilReady, Probe, Call, Retry, Answer, Take
  <2>3. \A p \in Procs : proc'[p].at = proc[p].at /\ proc'[p].kind = proc[p].kind
    BY <1>1, <2>2 DEF Proc, Listening
  <2> QED BY <1>1, <1>2, <2>1, <2>3
<1> QED BY <1>3, <1>4, <1>5, <1>6, <1>7

\* Who ran a request is not moved by a command.
LEMMA RanBeforeKept ==
  ASSUME LifeInv, NEW c \in Clients, ran'[c] = ran[c],
         \A p \in Procs : /\ proc[p].at \in Behind => proc'[p].at \in Behind
                          /\ proc[p].at \in Beyond => proc'[p].at \in Beyond,
         DOMAIN ran[c] # {} => cli'[c].long = cli[c].long,
         ~cli[c].long /\ cli'[c].todo \notin Asking \cup {<<>>} =>
           \A i \in DOMAIN ran[c] : proc[ran[c][i]].at \in Behind
  PROVE  RanBefore(c)'
<1>1. \A i \in DOMAIN ran[c] : ran[c][i] \in Procs /\ proc[ran[c][i]].at \in Beyond
  BY LifeTypes, ElementOfSeq, LenProperties DEF LifeInv, RanBefore
<1>2. \A i \in DOMAIN ran[c] : /\ proc'[ran[c][i]].at \in Beyond
                               /\ proc[ran[c][i]].at \in Behind => proc'[ran[c][i]].at \in Behind
  BY <1>1
<1> QED BY <1>1, <1>2 DEF LifeInv, RanBefore

LEMMA CommandStep ==
  ASSUME LifeInv, NEW c \in Clients, Begin(c) \/ Execute(c)
  PROVE  LifeInv'
<1>1. TypeOK /\ cli \in [Clients -> Cli] /\ ran \in [Clients -> Seq(Procs)] /\ CommandShape(c) /\ RanBefore(c)
  BY LifeTypes DEF LifeInv
<1>2. proc' \in [Procs -> Proc] /\ scm' \in Scm /\ missed' \subseteq Clients /\ ScmAgrees'
  BY <1>1, LifeTypes, CommandsMoveNone, CommandsKeepScm
<1>3. \A p \in Procs : /\ proc[p].at \in Behind => proc'[p].at \in Behind
                       /\ proc[p].at \in Beyond => proc'[p].at \in Beyond
  BY <1>1, CommandsMoveNone DEF Unused, Beyond, Behind, InServe
<1>4. alone' \in [Clients -> BOOLEAN]
  BY <1>1, LifeTypes DEF Begin, Execute, Look, QueryStop, Control, AwaitState, Delete, Install, Launch,
         StartService, ShutdownIfRunning, WaitUntilStopped, WaitUntilReady, Probe, Spawn, Call, Retry, Answer
<1>5. SUFFICES cli' \in [Clients -> Cli] /\ ran' \in [Clients -> Seq(Procs)]
               /\ CommandShape(c)' /\ RanBefore(c)'
               /\ \A e \in Clients \ {c} : cli'[e] = cli[e] /\ ran'[e] = ran[e]
  <2>1. ASSUME NEW e \in Clients \ {c} PROVE CommandShape(e)' /\ RanBefore(e)'
    BY <1>3, <1>5, <2>1, RanBeforeKept DEF LifeInv, CommandShape, RanBefore
  <2>2. \A e \in Clients : CommandShape(e)' /\ RanBefore(e)'
    BY <1>5, <2>1
  <2>3. TypeOK'
    BY <1>2, <1>4, <1>5, <1>1, LifeTypes DEF TypeOK, Scm, Proc, Cli
  <2> QED BY <1>2, <2>2, <2>3 DEF LifeInv
<1>6. CASE Begin(c)
  <2>1. PICK cmd \in Commands, long \in BOOLEAN :
          cli' = [cli EXCEPT ![c] = [cmd |-> cmd, todo |-> Program[cmd], failed |-> FALSE, long |-> long]]
    BY <1>6 DEF Begin
  <2>2. cli[c] = NoCommand /\ UNCHANGED ran
    BY <1>6 DEF Begin
  <2>3. ran[c] = <<>> /\ DOMAIN ran[c] = {}
    BY <1>1, <2>2 DEF CommandShape, NoCommand
  <2>4. /\ cmd = "request" => Program[cmd] = <<"call">>
        /\ cmd # "request" => Program[cmd] \in Seq(CommandStages)
        /\ cmd \in Commands /\ cmd # "none"
    <3>1. /\ <<"look", "shutdown", "install", "launch", "ready">> \in Seq(CommandStages)
          /\ <<"look", "shutdown">> \in Seq(CommandStages) /\ <<"look">> \in Seq(CommandStages)
      BY DEF CommandStages, Stages
    <3>2. /\ Program["enable"] = <<"look", "shutdown", "install", "launch", "ready">>
          /\ Program["disable"] = <<"look", "shutdown">> /\ Program["stop"] = <<"look", "shutdown">>
          /\ Program["start"] = <<"look">> /\ Program["request"] = <<"call">>
      BY DEF Program
    <3> QED BY <3>1, <3>2 DEF Commands
  <2>5. <<"call">> \in RequestPlans /\ <<"call">> \in Seq(Stages) /\ CommandStages \subseteq Stages
    BY DEF RequestPlans, Stages, CommandStages
  <2>6. Program[cmd] \in Seq(Stages)
    BY <2>4, <2>5, SeqMonotonic
  <2>7. [cmd |-> cmd, todo |-> Program[cmd], failed |-> FALSE, long |-> long] \in Cli
    BY <2>6 DEF Cli
  <2>8. cli' \in [Clients -> Cli] /\ \A e \in Clients \ {c} : cli'[e] = cli[e]
    BY <1>1, <2>1, <2>7
  <2>9. cli'[c].cmd = cmd /\ cli'[c].todo = Program[cmd]
    BY <1>1, <2>1
  <2>10. CommandShape(c)'
    BY <2>2, <2>3, <2>4, <2>5, <2>9 DEF CommandShape
  <2>11. RanBefore(c)'
    BY <1>3, <2>2, <2>3, RanBeforeKept
  <2> QED BY <1>1, <2>2, <2>8, <2>10, <2>11
<1>7. CASE Execute(c) /\ cli[c].cmd # "request"
  <2>1. cli' \in [Clients -> Cli] /\ CommandShape(c)' /\ UNCHANGED ran /\ \A e \in Clients \ {c} : cli'[e] = cli[e]
    BY <1>7, PlainStep
  <2>2. DOMAIN ran[c] = {}
    BY <1>1, <1>7 DEF CommandShape
  <2>3. RanBefore(c)'
    BY <1>3, <2>1, <2>2, RanBeforeKept
  <2> QED BY <1>1, <2>1, <2>3
<1>8. CASE Execute(c) /\ cli[c].cmd = "request"
  <2>1. /\ cli' \in [Clients -> Cli] /\ cli'[c].cmd = "request" /\ cli'[c].todo \in RequestPlans
        /\ cli'[c].long = cli[c].long /\ \A e \in Clients \ {c} : cli'[e] = cli[e]
    BY <1>8, RequestStep
  <2>2. CommandShape(c)'
    BY <2>1 DEF CommandShape
  <2>3. cli[c].todo # <<>>
    BY <1>8 DEF Execute, Look, QueryStop, Control, AwaitState, Awaits, Delete, Install, Launch, StartService,
         ShutdownIfRunning, WaitUntilStopped, WaitUntilReady, Probe, Spawn, Call, Retry, Answer, Answering, Stage
  <2>4. CASE UNCHANGED ran /\ cli'[c].todo \notin Asking /\ cli[c].todo \notin Asking
    <3>1. RanBefore(c)'
      BY <1>1, <1>3, <2>1, <2>3, <2>4, RanBeforeKept DEF RanBefore
    <3> QED BY <1>1, <2>1, <2>2, <2>4, <3>1
  <2>5. CASE UNCHANGED ran /\ cli'[c].todo = <<>>
    <3>1. RanBefore(c)'
      BY <1>3, <2>1, <2>5, RanBeforeKept
    <3> QED BY <1>1, <2>1, <2>2, <2>5, <3>1
  <2>6. CASE UNCHANGED ran /\ UNCHANGED proc /\ Broken(c) /\ cli[c].todo \in Asking
    <3>1. \A i \in DOMAIN ran[c] : i = Len(ran[c]) \/ (i < Len(ran[c]) /\ Len(ran[c]) \in DOMAIN ran[c])
      BY <1>1, LenProperties
    <3>2. \A i \in DOMAIN ran[c] : ran[c][i] \in Procs /\ proc[ran[c][i]].at \in Beyond
      BY <1>1, ElementOfSeq, LenProperties DEF RanBefore
    <3>3. ASSUME ~cli[c].long PROVE \A i \in DOMAIN ran[c] : proc[ran[c][i]].at \in Behind
      <4>1. ran[c][Len(ran[c])] \notin Serving
        BY <2>6, <3>3 DEF Broken, Asked, Last
      <4>2. Len(ran[c]) \in DOMAIN ran[c] => proc[ran[c][Len(ran[c])]].at \in Behind
        BY <3>2, <4>1 DEF Serving, Behind
      <4> QED BY <1>1, <3>1, <3>3, <4>2 DEF RanBefore
    <3>4. RanBefore(c)'
      BY <1>3, <2>1, <2>6, <3>3, RanBeforeKept
    <3> QED BY <1>1, <2>1, <2>2, <2>6, <3>4
  <2>7. ASSUME NEW p \in Listening, ran' = [ran EXCEPT ![c] = Append(ran[c], p)],
               cli[c].todo \notin Asking, cli'[c].todo \in Asking
        PROVE  ran' \in [Clients -> Seq(Procs)] /\ RanBefore(c)' /\ \A e \in Clients \ {c} : ran'[e] = ran[e]
    <3>1. p \in Procs /\ proc[p].at \in Beyond /\ proc[p].at \notin Behind
      BY DEF Listening, Beyond, Behind, InServe
    <3> DEFINE s == ran[c]
               t == Append(s, p)
               n == Len(s) + 1
    <3>2. s \in Seq(Procs) /\ Len(s) \in Nat /\ DOMAIN s = 1..Len(s)
      BY <1>1, LenProperties
    <3>3. /\ t \in Seq(Procs) /\ DOMAIN t = 1..n /\ t[n] = p /\ \A i \in 1..Len(s) : t[i] = s[i]
      BY <3>1, <3>2
    <3>4. /\ ran' \in [Clients -> Seq(Procs)] /\ ran'[c] = t /\ \A e \in Clients \ {c} : ran'[e] = ran[e]
      BY <1>1, <2>7, <3>3
    <3>5. \A i \in 1..Len(s) : s[i] \in Procs /\ proc[s[i]].at \in Beyond
      BY <1>1, <3>2, ElementOfSeq DEF RanBefore
    <3>6. proc'[p].at \in Beyond
      BY <1>3, <3>1
    <3>7. \A i \in 1..n : i = n \/ i \in 1..Len(s)
      BY <3>2
    <3>8. \A i \in 1..n : proc'[t[i]].at \in Beyond
      BY <1>3, <3>3, <3>5, <3>6, <3>7
    <3>9. ASSUME ~cli[c].long, NEW i \in 1..n, NEW k \in 1..n, i < k
          PROVE  t[i] # t[k] /\ proc'[t[i]].at \in Behind
      <4>1. i \in 1..Len(s)
        BY <3>2, <3>9
      <4>2. s[i] # p /\ s[i] \in Procs /\ proc[s[i]].at \in Behind
        BY <1>1, <2>3, <2>7, <3>1, <3>2, <3>5, <3>9, <4>1 DEF RanBefore
      <4>3. t[i] = s[i] /\ proc'[t[i]].at \in Behind
        BY <1>3, <3>3, <4>1, <4>2
      <4>4. CASE k = n
        BY <3>3, <4>2, <4>3, <4>4
      <4>5. CASE k \in 1..Len(s)
        BY <1>1, <3>2, <3>3, <3>9, <4>1, <4>3, <4>5 DEF RanBefore
      <4> QED BY <3>7, <4>3, <4>4, <4>5
    <3>10. cli'[c].todo \in Asking \cup {<<>>} /\ cli'[c].long = cli[c].long
      BY <2>1, <2>7
    <3> HIDE DEF t, n
    <3>11. RanBefore(c)'
      BY <3>3, <3>4, <3>8, <3>9, <3>10 DEF RanBefore
    <3> QED BY <3>4, <3>11
  <2> QED BY <1>8, <2>1, <2>2, <2>4, <2>5, <2>6, <2>7, RequestStep
<1> QED BY <1>6, <1>7, <1>8

LEMMA ProcessStep ==
  ASSUME LifeInv, NEW p \in Procs, Live(p)
  PROVE  LifeInv'
<1>1. /\ TypeOK /\ scm \in Scm /\ proc \in [Procs -> Proc] /\ proc[p] \in Proc
      /\ missed \subseteq Clients /\ ScmAgrees
  BY LifeTypes DEF LifeInv
<1>2. /\ proc' \in [Procs -> Proc] /\ UNCHANGED <<cli, ran, missed>>
      /\ alone' \in [Clients -> BOOLEAN]
      /\ \A q \in Procs \ {p} : proc'[q] = proc[q]
      /\ proc'[p].kind = proc[p].kind
      /\ proc[p].at \in Behind => proc'[p].at \in Behind
      /\ proc[p].at \in Beyond => proc'[p].at \in Beyond
  BY <1>1, ProcessesMoveForward
<1>5. scm' \in Scm /\ ScmAgrees'
  <2>1. CASE ReportRunning(p)
    <3>1. scm' \in Scm /\ scm'.state = "running"
      BY <1>1, <2>1 DEF ReportRunning, Scm
    <3>2. proc[p].at = "starting" /\ proc'[p].at = "opening" /\ proc[p].kind = "service"
      BY <1>1, <2>1 DEF ReportRunning, Move, Proc
    <3>3. Hosts' = Hosts /\ p \in Hosts
      BY <1>2, <3>2 DEF Hosts, InServe
    <3> QED BY <1>1, <3>1, <3>3 DEF ScmAgrees
  <2>2. CASE ReportStopped(p)
    <3>1. scm' \in Scm /\ scm'.state = "stopped"
      BY <1>1, <2>2 DEF ReportStopped, Scm
    <3>2. proc[p].at = "returned" /\ proc'[p].at = "leaving" /\ proc[p].kind = "service"
      BY <1>1, <2>2 DEF ReportStopped, Move, Proc
    <3>3. p \in Hosts /\ p \notin Hosts' /\ Hosts' \subseteq Hosts
      BY <1>2, <3>2 DEF Hosts, InServe
    <3>4. Hosts' = {}
      BY <1>1, <3>3 DEF ScmAgrees
    <3> QED BY <3>1, <3>4 DEF ScmAgrees
  <2>3. CASE OpenEndpoint(p) \/ HandOver(p) \/ NextInstance(p) \/ LoseEndpoint(p) \/ ServeReturns(p)
             \/ Exit(p)
    <3>1. UNCHANGED scm
      BY <2>3 DEF OpenEndpoint, HandOver, NextInstance, LoseEndpoint, ServeReturns, Exit
    <3>2. \/ proc[p].kind # "service"
          \/ /\ proc[p].at \in {"opening", "serving", "between"}
             /\ proc'[p].at \in {"serving", "between", "returned"}
          \/ proc[p].at \in {"leaving", "draining"} /\ proc'[p].at = "gone"
      BY <1>1, <2>3 DEF OpenEndpoint, HandOver, NextInstance, LoseEndpoint, ServeReturns, Exit,
                        AfterServe, Move, Proc
    <3>3. Hosts' = Hosts
      BY <1>2, <3>2 DEF Hosts, InServe
    <3> QED BY <1>1, <3>1, <3>3 DEF ScmAgrees
  <2> QED BY <2>1, <2>2, <2>3 DEF Live
<1>6. ASSUME NEW c \in Clients PROVE CommandShape(c)' /\ RanBefore(c)'
  <2>1. CommandShape(c)'
    BY <1>2 DEF LifeInv, CommandShape
  <2>2. \A q \in Procs : /\ proc[q].at \in Behind => proc'[q].at \in Behind
                         /\ proc[q].at \in Beyond => proc'[q].at \in Beyond
    BY <1>2
  <2>3. RanBefore(c)'
    BY <1>2, <2>2, RanBeforeKept DEF LifeInv, RanBefore
  <2> QED BY <2>1, <2>3
<1>7. TypeOK'
  BY <1>1, <1>2, <1>5 DEF TypeOK, Scm, Proc
<1> QED BY <1>5, <1>6, <1>7 DEF LifeInv

LEMMA LifeInit == Init => LifeInv
<1> SUFFICES ASSUME Init PROVE LifeInv
  OBVIOUS
<1>1. PICK p \in Procs, i \in BOOLEAN, first \in {"none", "boot", "service", "background"} :
        /\ first \in {"boot", "service"} => i
        /\ scm = [installed |-> i, doomed |-> FALSE,
                  state |-> CASE first = "boot"    -> "start_pending"
                              [] first = "service" -> "running"
                              [] OTHER             -> "stopped"]
        /\ proc = [q \in Procs |->
                     IF q # p \/ first = "none" THEN Unused
                     ELSE [Unused EXCEPT !.kind = IF first = "background" THEN first ELSE "service",
                                         !.at   = IF first = "boot" THEN "starting" ELSE "serving"]]
  BY DEF Init
<1>2. scm \in Scm /\ (scm.state = "stopped" <=> first \in {"none", "background"})
  BY <1>1 DEF Scm
<1>3. /\ proc \in [Procs -> Proc] /\ \A q \in Procs \ {p} : proc[q] = Unused
      /\ first = "none" => proc[p] = Unused
      /\ first # "none" => /\ proc[p].kind = IF first = "background" THEN "background" ELSE "service"
                           /\ proc[p].at = IF first = "boot" THEN "starting" ELSE "serving"
  BY <1>1 DEF Unused, Proc
<1>4. Unused.at = "unused" /\ Unused.kind = "none"
  BY DEF Unused
<1>6. ScmAgrees
  <2>1. Hosts = IF first \in {"boot", "service"} THEN {p} ELSE {}
    BY <1>3, <1>4 DEF Hosts, InServe
  <2> QED BY <1>2, <2>1 DEF ScmAgrees
<1>7. /\ <<>> \in Seq(Stages) /\ <<>> \in Seq(CommandStages) /\ <<>> \in Seq(Procs)
      /\ NoCommand \in Cli /\ NoCommand.todo = <<>> /\ NoCommand.cmd = "none"
  BY DEF NoCommand, Cli
<1>8. TypeOK
  BY <1>2, <1>3, <1>7, LifeTypes DEF Init
<1>9. ASSUME NEW c \in Clients PROVE CommandShape(c) /\ RanBefore(c)
  <2>1. cli[c].todo = <<>> /\ cli[c].cmd = "none" /\ ran[c] = <<>> /\ DOMAIN ran[c] = {}
    BY <1>7 DEF Init
  <2> QED BY <1>7, <2>1 DEF CommandShape, RanBefore
<1> QED BY <1>6, <1>8, <1>9 DEF LifeInv

LEMMA LifeStep == LifeInv /\ [Next]_vars => LifeInv'
<1> SUFFICES ASSUME LifeInv, [Next]_vars PROVE LifeInv'
  OBVIOUS
<1>1. CASE UNCHANGED vars
  BY <1>1 DEF vars, LifeInv, TypeOK, ScmAgrees, CommandShape, RanBefore, Hosts, InServe
<1> QED BY <1>1, CommandStep, ProcessStep DEF Next

LEMMA LifeInvAlways == Spec => []LifeInv
BY LifeInit, LifeStep, PTL DEF Spec

-----------------------------------------------------------------------------
(* What follows.                                                           *)

\* Every variable keeps its type (service.rs and windows_service.rs).
THEOREM LifecycleTypes == Spec => []TypeOK
<1>1. LifeInv => TypeOK
  BY DEF LifeInv
<1> QED BY <1>1, LifeInvAlways, PTL

\* The SCM counts one service process at most, and says stopped exactly when none is left
\* that may own the endpoint (windows_service.rs).
THEOREM ScmAlwaysAgrees == Spec => []ScmAgrees
<1>1. LifeInv => ScmAgrees
  BY DEF LifeInv
<1> QED BY <1>1, LifeInvAlways, PTL

\* The retries after an autostart never run a request twice in one process when its
\* answer fits into a frame (call_with_autostart, netplan-cli/main.rs).
THEOREM RequestsRepeatElsewhere == Spec => []RepeatsInAnotherProcess
<1>1. ASSUME LifeInv PROVE RepeatsInAnotherProcess
  <2>1. SUFFICES ASSUME NEW c \in Clients, ~cli[c].long,
                        NEW i \in DOMAIN ran[c], NEW k \in DOMAIN ran[c], i < k
                 PROVE  ran[c][i] # ran[c][k] /\ ran[c][i] \notin Serving
    BY DEF RepeatsInAnotherProcess
  <2>2. ran[c][i] # ran[c][k] /\ proc[ran[c][i]].at \in Behind
    BY <1>1, <2>1 DEF LifeInv, RanBefore
  <2> QED BY <2>2 DEF Serving, Behind
<1> QED BY <1>1, LifeInvAlways, PTL

-----------------------------------------------------------------------------
(* What a command that nobody disturbed has brought about.                 *)

\* A service that is not installed, or marked for deletion, is not stopped or is.
ScmKeepsRunning == /\ ~scm.installed => scm.state = "stopped"
                   /\ scm.doomed => scm.state # "stopped"

\* No process is about to open the endpoint; none that has it, or will, is to leave.
Settled   == \A p \in Procs : proc[p].at \notin {"starting", "opening"}
Unstopped == \A p \in Procs : proc[p].at \in {"starting", "opening", "serving", "between"} => ~proc[p].stop

\* The service is the only process that has the endpoint or is about to.
Up == /\ scm.installed
      /\ \E p \in Procs :
           /\ proc[p].kind = "service" /\ ~proc[p].stop
           /\ \/ proc[p].at = "starting" /\ scm.state = "start_pending"
              \/ proc[p].at \in {"opening", "serving", "between"} /\ scm.state = "running"
           /\ \A q \in Procs \ {p} : proc[q].at \notin {"starting", "opening", "serving", "between"}

\* What is left of enable, disable and start at their stages.
ThenReady    == <<"ready">>
ThenLaunch   == <<"launch">> \o ThenReady
ThenInstall  == <<"install">> \o ThenLaunch
ThenShutdown == <<"shutdown">> \o ThenInstall
OnlyShutdown == <<"shutdown">>
ThenDelete   == <<"delete">> \o OnlyShutdown

Stopping == {"query_stop", "control", "await_stopped"}
Before(S, rest) == {<<s>> \o rest : s \in S}

Enabling(t) ==
  \/ t \in Before(Stopping \cup {"look"}, ThenShutdown) /\ Settled
  \/ t \in {ThenShutdown} \cup Before({"await_gone"}, ThenInstall)
       /\ Settled /\ scm.state = "stopped"
  \/ t = ThenInstall /\ Settled /\ scm.state = "stopped" /\ Serving = {}
  \/ t \in {ThenLaunch} \cup Before({"start_service"}, ThenReady)
       /\ Settled /\ scm.state = "stopped" /\ Serving = {} /\ scm.installed
  \/ t \in Before({"await_running"}, ThenReady) /\ Up
  \/ t = ThenReady /\ Up /\ scm.state = "running"
  \/ t = <<>> /\ Up /\ scm.state = "running" /\ Serving # {}

Disabling(t) ==
  /\ Settled
  /\ \/ t \in Before({"look"}, OnlyShutdown) \cup Before(Stopping, ThenDelete)
     \/ t = ThenDelete /\ scm.state = "stopped"
     \/ t \in {OnlyShutdown, <<"await_gone">>} /\ scm.state = "stopped" /\ ~scm.installed
     \/ t = <<>> /\ scm.state = "stopped" /\ ~scm.installed /\ Serving = {}

StoppingAll(t) ==
  /\ Settled
  /\ \/ t \in Before(Stopping \cup {"look"}, OnlyShutdown)
     \/ t \in {OnlyShutdown, <<"await_gone">>} /\ scm.state = "stopped"
     \/ t = <<>> /\ scm.state = "stopped" /\ Serving = {}

Starting(t) ==
  /\ Unstopped
  /\ \/ t \in {<<"look">>, <<"probe">>, ThenLaunch, ThenReady}
     \/ t \in Before({"await_running", "start_service", "spawn"}, ThenReady)
     \/ t \in Before({"await_stopped"}, <<"start_service">> \o ThenReady)
     \/ t = <<>> /\ Serving # {}

\* While c is alone the other commands are over, and as long as it does not fail and
\* no gap misleads it, its command is where its plan says, with the machine as that
\* stage needs it.
OnPlan(c) ==
  (alone[c] /\ c \notin missed) =>
    /\ \A d \in Clients \ {c} : cli[d].todo = <<>>
    /\ ~cli[c].failed =>
         /\ cli[c].cmd = "enable"  => Enabling(cli[c].todo)
         /\ cli[c].cmd = "disable" => Disabling(cli[c].todo)
         /\ cli[c].cmd = "stop"    => StoppingAll(cli[c].todo)
         /\ cli[c].cmd = "start"   => Starting(cli[c].todo)

PromiseInv == LifeInv /\ ScmKeepsRunning /\ \A c \in Clients : OnPlan(c)

\* Putting a stage in front of a list, and taking it off again.
LEMMA FirstStage ==
  ASSUME NEW s \in Stages, NEW r \in Seq(Stages)
  PROVE  /\ <<s>> \o r \in Seq(Stages) /\ <<s>> \o r # <<>>
         /\ Head(<<s>> \o r) = s /\ Tail(<<s>> \o r) = r
         /\ <<>> \o r = r
<1>1. <<s>> \in Seq(Stages) /\ Len(<<s>>) = 1 /\ <<s>>[1] = s /\ Len(r) \in Nat
  OBVIOUS
<1> DEFINE t == <<s>> \o r
<1>2. /\ t \in Seq(Stages) /\ Len(t) = Len(r) + 1 /\ t[1] = s
      /\ \A i \in 1..Len(r) : t[i + 1] = r[i]
  BY <1>1
<1>3. t # <<>>
  BY <1>1, <1>2
<1> HIDE DEF t
<1>4. Head(t) = s
  BY <1>2, <1>3
<1>5. Tail(t) \in Seq(Stages) /\ Len(Tail(t)) = Len(r) /\ \A i \in 1..Len(r) : Tail(t)[i] = r[i]
  BY <1>1, <1>2, <1>3, HeadTailProperties
<1>6. Tail(t) = r
  BY <1>5, SeqEqual
<1>7. <<>> \o r = r
  BY ConcatEmptySeq
<1> QED BY <1>2, <1>3, <1>4, <1>6, <1>7 DEF t

\* Where the stages are afterwards.
LEMMA FirstStagePlaces ==
  ASSUME NEW s \in Stages, NEW r \in Seq(Stages)
  PROVE  /\ Len(<<s>> \o r) = Len(r) + 1 /\ (<<s>> \o r)[1] = s
         /\ \A i \in 1..Len(r) : (<<s>> \o r)[i + 1] = r[i]
<1>1. <<s>> \in Seq(Stages) /\ Len(<<s>>) = 1 /\ <<s>>[1] = s /\ Len(r) \in Nat
  OBVIOUS
<1> QED BY <1>1

\* Two stages in front of a list.
LEMMA FirstStages ==
  ASSUME NEW a \in Stages, NEW b \in Stages, NEW r \in Seq(Stages)
  PROVE  <<a, b>> \o r = <<a>> \o (<<b>> \o r)
<1>1. <<a>> \in Seq(Stages) /\ <<b>> \in Seq(Stages)
  OBVIOUS
<1>2. <<a>> \o <<b>> = <<a, b>>
  BY Fronts
<1>3. (<<a>> \o <<b>>) \o r = <<a>> \o (<<b>> \o r)
  BY <1>1, ConcatAssociative
<1> QED BY <1>2, <1>3

\* The plans are lists of stages.
LEMMA PlanTypes ==
  /\ ThenReady \in Seq(Stages) /\ ThenLaunch \in Seq(Stages) /\ ThenInstall \in Seq(Stages)
  /\ ThenShutdown \in Seq(Stages) /\ OnlyShutdown \in Seq(Stages) /\ ThenDelete \in Seq(Stages)
  /\ <<"start_service">> \o ThenReady \in Seq(Stages)
<1>1. "ready" \in Stages /\ "launch" \in Stages /\ "install" \in Stages /\ "shutdown" \in Stages
      /\ "delete" \in Stages /\ "start_service" \in Stages
  BY DEF Stages
<1>2. ThenReady \in Seq(Stages) /\ OnlyShutdown \in Seq(Stages)
  BY <1>1 DEF ThenReady, OnlyShutdown
<1>3. ThenLaunch \in Seq(Stages) /\ <<"start_service">> \o ThenReady \in Seq(Stages)
  BY <1>1, <1>2, FirstStage DEF ThenLaunch
<1>4. ThenInstall \in Seq(Stages)
  BY <1>1, <1>3, FirstStage DEF ThenInstall
<1>5. ThenShutdown \in Seq(Stages) /\ ThenDelete \in Seq(Stages)
  BY <1>1, <1>2, <1>4, FirstStage DEF ThenShutdown, ThenDelete
<1> QED BY <1>2, <1>3, <1>4, <1>5

\* The commands begin with their plans, and the decisions of look and launch lead
\* back to them.
LEMMA PlansBegin ==
  /\ Program["enable"] = <<"look">> \o ThenShutdown
  /\ Program["disable"] = <<"look">> \o OnlyShutdown /\ Program["stop"] = <<"look">> \o OnlyShutdown
  /\ Program["start"] = <<"look">>
  /\ Installed["enable"] = <<"query_stop">> /\ Installed["stop"] = <<"query_stop">>
  /\ Missing["enable"] = <<>> /\ Missing["disable"] = <<>> /\ Missing["stop"] = <<>>
  /\ Installed["disable"] \o OnlyShutdown = <<"query_stop">> \o ThenDelete
  /\ Installed["start"] \o <<>> = ThenLaunch /\ Missing["start"] \o <<>> = <<"probe">>
  /\ <<"spawn", "ready">> \o <<>> = <<"spawn">> \o ThenReady
  /\ <<"await_stopped", "start_service">> \o ThenReady
       = <<"await_stopped">> \o (<<"start_service">> \o ThenReady)
<1>1. /\ "query_stop" \in Stages /\ "delete" \in Stages /\ "launch" \in Stages /\ "ready" \in Stages
      /\ "probe" \in Stages /\ "spawn" \in Stages /\ "await_stopped" \in Stages
      /\ "start_service" \in Stages /\ "look" \in Stages /\ "shutdown" \in Stages /\ "install" \in Stages
  BY DEF Stages
<1>2. Program["enable"] = <<"look">> \o ThenShutdown
  <2>1. ThenLaunch = <<"launch", "ready">>
    BY <1>1, Fronts DEF ThenLaunch, ThenReady
  <2>2. /\ ThenShutdown \in Seq(Stages) /\ ThenInstall \in Seq(Stages)
        /\ <<"look">> \o ThenShutdown \in Seq(Stages) /\ <<"launch", "ready">> \in Seq(Stages)
        /\ <<"look", "shutdown", "install", "launch", "ready">> \in Seq(Stages)
    BY <1>1, PlanTypes, FirstStage
  <2>3. /\ Len(ThenInstall) = 3 /\ ThenInstall[1] = "install" /\ ThenInstall[2] = "launch"
        /\ ThenInstall[3] = "ready"
    BY <2>1, <2>2 DEF ThenInstall
  <2>4. /\ Len(ThenShutdown) = 4 /\ ThenShutdown[1] = "shutdown" /\ ThenShutdown[2] = "install"
        /\ ThenShutdown[3] = "launch" /\ ThenShutdown[4] = "ready"
    <3>1. /\ Len(ThenShutdown) = Len(ThenInstall) + 1 /\ ThenShutdown[1] = "shutdown"
          /\ \A i \in 1..Len(ThenInstall) : ThenShutdown[i + 1] = ThenInstall[i]
      BY <1>1, <2>2, FirstStagePlaces DEF ThenShutdown
    <3>2. ThenShutdown[1 + 1] = "install" /\ ThenShutdown[2 + 1] = "launch" /\ ThenShutdown[3 + 1] = "ready"
      BY <2>3, <3>1
    <3> QED BY <2>3, <3>1, <3>2
  <2> DEFINE t == <<"look">> \o ThenShutdown
  <2>5. /\ Len(t) = 5 /\ t[1] = "look" /\ t[2] = "shutdown" /\ t[3] = "install"
        /\ t[4] = "launch" /\ t[5] = "ready"
    <3>1. /\ Len(t) = Len(ThenShutdown) + 1 /\ t[1] = "look"
          /\ \A i \in 1..Len(ThenShutdown) : t[i + 1] = ThenShutdown[i]
      BY <1>1, <2>2, FirstStagePlaces
    <3> HIDE DEF t
    <3>2. /\ t[1 + 1] = "shutdown" /\ t[2 + 1] = "install"
          /\ t[3 + 1] = "launch" /\ t[4 + 1] = "ready"
      BY <2>4, <3>1
    <3> QED BY <2>4, <3>1, <3>2
  <2>6. Program["enable"] = <<"look", "shutdown", "install", "launch", "ready">>
    BY DEF Program
  <2> HIDE DEF t
  <2>7. <<"look", "shutdown", "install", "launch", "ready">> = t
    <3>1. \A i \in 1..5 : <<"look", "shutdown", "install", "launch", "ready">>[i] = t[i]
      BY <2>5
    <3>2. t \in Seq(Stages)
      BY <2>2 DEF t
    <3> QED BY <2>2, <2>5, <3>1, <3>2, SeqEqual
  <2> QED BY <2>6, <2>7 DEF t
<1>3. Program["disable"] = <<"look">> \o OnlyShutdown /\ Program["stop"] = <<"look">> \o OnlyShutdown
      /\ Program["start"] = <<"look">>
  <2>1. <<"look">> \o <<"shutdown">> = <<"look", "shutdown">>
    BY <1>1, Fronts
  <2> QED BY <2>1 DEF Program, OnlyShutdown
<1>4. Installed["enable"] = <<"query_stop">> /\ Installed["stop"] = <<"query_stop">>
      /\ Missing["enable"] = <<>> /\ Missing["disable"] = <<>> /\ Missing["stop"] = <<>>
      /\ Installed["disable"] = <<"query_stop", "delete">>
      /\ Installed["start"] = <<"launch", "ready">> /\ Missing["start"] = <<"probe">>
  BY DEF Installed, Missing
<1>5. Installed["disable"] \o OnlyShutdown = <<"query_stop">> \o ThenDelete
  <2>1. <<"query_stop", "delete">> \o OnlyShutdown = <<"query_stop">> \o (<<"delete">> \o OnlyShutdown)
    <3>1. OnlyShutdown \in Seq(Stages)
      BY PlanTypes
    <3> QED BY <1>1, <3>1, FirstStages
  <2> QED BY <1>4, <2>1 DEF ThenDelete
<1>6. Installed["start"] \o <<>> = ThenLaunch /\ Missing["start"] \o <<>> = <<"probe">>
  <2>1. <<"launch", "ready">> \o <<>> = <<"launch", "ready">> /\ <<"probe">> \o <<>> = <<"probe">>
    BY <1>1, Fronts
  <2>2. <<"launch">> \o <<"ready">> = <<"launch", "ready">>
    BY <1>1, Fronts
  <2> QED BY <1>4, <2>1, <2>2 DEF ThenLaunch, ThenReady
<1>7. <<"spawn", "ready">> \o <<>> = <<"spawn">> \o ThenReady
  <2>1. <<"spawn", "ready">> \o <<>> = <<"spawn", "ready">> /\ <<"spawn">> \o <<"ready">> = <<"spawn", "ready">>
    BY <1>1, Fronts
  <2> QED BY <2>1 DEF ThenReady
<1>8. <<"await_stopped", "start_service">> \o ThenReady
        = <<"await_stopped">> \o (<<"start_service">> \o ThenReady)
  <2>1. ThenReady \in Seq(Stages)
    BY PlanTypes
  <2> QED BY <1>1, <2>1, FirstStages
<1> QED BY <1>2, <1>3, <1>4, <1>5, <1>6, <1>7, <1>8

\* The stage at the head of the list says which call is next.
LEMMA CallOfStage ==
  ASSUME NEW c \in Clients, Execute(c)
  PROVE  /\ cli[c].todo # <<>>
         /\ Head(cli[c].todo) = "look" => Look(c)
         /\ Head(cli[c].todo) = "query_stop" => QueryStop(c)
         /\ Head(cli[c].todo) = "control" => Control(c)
         /\ Head(cli[c].todo) \in {"await_stopped", "await_running"} => AwaitState(c)
         /\ Head(cli[c].todo) = "delete" => Delete(c)
         /\ Head(cli[c].todo) = "install" => Install(c)
         /\ Head(cli[c].todo) = "launch" => Launch(c)
         /\ Head(cli[c].todo) = "start_service" => StartService(c)
         /\ Head(cli[c].todo) = "shutdown" => ShutdownIfRunning(c)
         /\ Head(cli[c].todo) = "await_gone" => WaitUntilStopped(c)
         /\ Head(cli[c].todo) = "ready" => WaitUntilReady(c)
         /\ Head(cli[c].todo) = "probe" => Probe(c)
         /\ Head(cli[c].todo) = "spawn" => Spawn(c)
  BY DEF Execute, Look, QueryStop, Control, AwaitState, Awaits, Delete, Install, Launch, StartService,
         ShutdownIfRunning, WaitUntilStopped, WaitUntilReady, Probe, Spawn, Call, Retry, Answer, Answering, Stage

\* A step of the command either fails it or leaves the stages s in front of the rest.
LEMMA GotoKeepsFailed ==
  ASSUME TypeOK, NEW c \in Clients
  PROVE  /\ \A s : Goto(c, s) => cli'[c].failed = cli[c].failed
         /\ Fail(c) => cli'[c].failed
<1>1. cli \in [Clients -> Cli] /\ cli[c] \in Cli
  BY LifeTypes
<1>2. ASSUME NEW s, Goto(c, s) PROVE cli'[c].failed = cli[c].failed
  <2>1. PICK t : t = s \o Tail(cli[c].todo)
    OBVIOUS
  <2>2. cli' = [cli EXCEPT ![c] = [cli[c] EXCEPT !.todo = t]]
    BY <1>1, <1>2, <2>1 DEF Goto
  <2> QED BY <1>1, <2>2 DEF Cli
<1>3. ASSUME Fail(c) PROVE cli'[c].failed
  <2>1. cli' = [cli EXCEPT ![c] = [cli[c] EXCEPT !.todo = <<>>, !.failed = TRUE]]
    BY <1>1, <1>3 DEF Fail
  <2>2. cli'[c] = [cli[c] EXCEPT !.todo = <<>>, !.failed = TRUE]
    BY <1>1, <2>1
  <2>3. cli'[c].failed = TRUE
    BY <1>1, <2>2 DEF Cli
  <2> QED BY <2>3
<1> QED BY <1>2, <1>3

-----------------------------------------------------------------------------
(* The SCM and the processes, as the plans see them.                       *)

\* The service is removed only when it is stopped, and it is stopped only without
\* a mark.
LEMMA ScmStaysKept ==
  ASSUME LifeInv, ScmKeepsRunning, [Next]_vars
  PROVE  ScmKeepsRunning'
<1>1. scm \in Scm /\ ScmAgrees
  BY LifeTypes DEF LifeInv
<1>2. CASE UNCHANGED scm
  BY <1>2 DEF ScmKeepsRunning
<1>3. ASSUME NEW c \in Clients, Control(c) \/ Delete(c) \/ Install(c) \/ StartService(c)
      PROVE  ScmKeepsRunning'
  <2>1. CASE Control(c)
    <3>1. UNCHANGED scm \/ (scm.state = "running" /\ scm' = [scm EXCEPT !.state = "stop_pending"])
      BY <2>1 DEF Control
    <3> QED BY <1>1, <1>2, <3>1 DEF ScmKeepsRunning, Scm
  <2>2. CASE Delete(c)
    <3>1. \/ UNCHANGED scm
          \/ scm.state = "stopped" /\ scm' = [scm EXCEPT !.installed = FALSE]
          \/ scm.state # "stopped" /\ scm' = [scm EXCEPT !.doomed = scm.installed]
      BY <2>2 DEF Delete
    <3> QED BY <1>1, <1>2, <3>1 DEF ScmKeepsRunning, Scm
  <2>3. CASE Install(c)
    <3>1. UNCHANGED scm \/ scm' = [scm EXCEPT !.installed = TRUE]
      BY <2>3 DEF Install
    <3> QED BY <1>1, <1>2, <3>1 DEF ScmKeepsRunning, Scm
  <2>4. CASE StartService(c)
    <3>1. \/ UNCHANGED scm
          \/ scm.installed /\ ~scm.doomed /\ scm' = [scm EXCEPT !.state = "start_pending"]
      BY <2>4 DEF StartService
    <3> QED BY <1>1, <1>2, <3>1 DEF ScmKeepsRunning, Scm
  <2> QED BY <1>3, <2>1, <2>2, <2>3, <2>4
<1>4. ASSUME NEW p \in Procs, ReportRunning(p) \/ ReportStopped(p)
      PROVE  ScmKeepsRunning'
  <2>1. CASE ReportRunning(p)
    <3>1. p \in Hosts /\ scm' = [scm EXCEPT !.state = "running"]
      BY <2>1 DEF ReportRunning, Hosts, InServe
    <3>2. scm.state # "stopped"
      BY <1>1, <3>1 DEF ScmAgrees
    <3> QED BY <1>1, <3>1, <3>2 DEF ScmKeepsRunning, Scm
  <2>2. CASE ReportStopped(p)
    <3>1. scm'.state = "stopped" /\ scm'.doomed = FALSE
      BY <2>2 DEF ReportStopped
    <3> QED BY <3>1 DEF ScmKeepsRunning
  <2> QED BY <1>4, <2>1, <2>2
<1>5. \/ UNCHANGED scm
      \/ \E c \in Clients : Control(c) \/ Delete(c) \/ Install(c) \/ StartService(c)
      \/ \E p \in Procs : ReportRunning(p) \/ ReportStopped(p)
  BY DEF Next, vars, Begin, Execute, Look, QueryStop, AwaitState, Launch,
         ShutdownIfRunning, WaitUntilStopped, WaitUntilReady, Probe, Spawn, Call, Retry, Answer,
         Live, OpenEndpoint, HandOver, NextInstance, LoseEndpoint, ServeReturns, Exit
<1> QED BY <1>2, <1>3, <1>4, <1>5

\* Moving a process changes its place and nothing else.
LEMMA MoveEffect ==
  ASSUME proc \in [Procs -> Proc], NEW p \in Procs, NEW at, proc' = [proc EXCEPT ![p].at = at]
  PROVE  /\ proc'[p].at = at /\ proc'[p].kind = proc[p].kind /\ proc'[p].stop = proc[p].stop
         /\ \A q \in Procs \ {p} : proc'[q] = proc[q]
<1>1. proc[p] \in Proc /\ proc'[p] = [proc[p] EXCEPT !.at = at]
  OBVIOUS
<1>2. proc'[p].at = at /\ proc'[p].kind = proc[p].kind /\ proc'[p].stop = proc[p].stop
  BY <1>1 DEF Proc
<1> QED BY <1>2

\* What one process does to itself and to the SCM, as long as it can create the pipe.
LEMMA ProcessMoves ==
  ASSUME TypeOK, NEW p \in Procs, Live(p), ~LoseEndpoint(p)
  PROVE  /\ UNCHANGED <<cli, alone, missed>>
         /\ \A q \in Procs \ {p} : proc'[q] = proc[q]
         /\ proc'[p].kind = proc[p].kind /\ proc'[p].stop = proc[p].stop
         /\ \/ /\ proc[p].at = "starting" /\ proc[p].kind = "service"
               /\ proc'[p].at = "opening" /\ scm' = [scm EXCEPT !.state = "running"]
            \/ /\ \/ proc[p].at = "starting" /\ proc[p].kind = "background"
                  \/ proc[p].at = "opening" /\ proc[p].kind = "service"
               /\ \/ proc'[p].at = "serving"
                  \/ Serving # {} /\ proc'[p].at \in {"returned", "draining"}
               /\ scm' = scm
            \/ proc[p].at \in InServe /\ proc'[p].at \in InServe /\ scm' = scm
            \/ /\ proc[p].at = "serving" /\ proc[p].stop
               /\ proc'[p].at \in {"returned", "draining"} /\ scm' = scm
            \/ /\ proc[p].at = "returned" /\ proc[p].kind = "service" /\ proc'[p].at = "leaving"
               /\ scm' = [installed |-> scm.installed /\ ~scm.doomed, doomed |-> FALSE,
                          state |-> "stopped"]
            \/ /\ proc[p].at \in {"draining", "leaving"} /\ proc'[p].at = "gone" /\ scm' = scm
<1>1. ASSUME NEW at, Move(p, at)
      PROVE  /\ proc'[p].at = at /\ proc'[p].kind = proc[p].kind /\ proc'[p].stop = proc[p].stop
             /\ \A q \in Procs \ {p} : proc'[q] = proc[q]
  BY <1>1, LifeTypes, MoveEffect DEF Move
<1> HIDE DEF Move
<1>3. CASE ReportRunning(p)
  BY <1>1, <1>3 DEF ReportRunning
<1>4. CASE OpenEndpoint(p)
  BY <1>1, <1>4 DEF OpenEndpoint, AfterServe
<1>5. CASE HandOver(p)
  BY <1>1, <1>5 DEF HandOver, InServe
<1>6. CASE NextInstance(p)
  BY <1>1, <1>6 DEF NextInstance, InServe
<1>7. CASE ServeReturns(p)
  BY <1>1, <1>7 DEF ServeReturns, AfterServe
<1>8. CASE ReportStopped(p)
  BY <1>1, <1>8 DEF ReportStopped
<1>9. CASE Exit(p)
  BY <1>1, <1>9 DEF Exit
<1> QED BY <1>3, <1>4, <1>5, <1>6, <1>7, <1>8, <1>9 DEF Live

\* When nobody is about to open the endpoint, processes only leave it, and a stopped
\* service stays as it is.
LEMMA ProcessesKeepSettled ==
  ASSUME LifeInv, NEW p \in Procs, Live(p), ~LoseEndpoint(p), Settled
  PROVE  /\ Settled' /\ Serving' \subseteq Serving
         /\ scm.state = "stopped" => UNCHANGED scm
<1>1. TypeOK /\ ScmAgrees
  BY DEF LifeInv
<1>2. /\ \A q \in Procs \ {p} : proc'[q] = proc[q]
      /\ \/ proc[p].at \in InServe /\ proc'[p].at \in InServe \cup {"returned", "draining"} /\ scm' = scm
         \/ proc[p].at = "returned" /\ proc[p].kind = "service" /\ proc'[p].at = "leaving"
         \/ proc[p].at \in {"draining", "leaving"} /\ proc'[p].at = "gone" /\ scm' = scm
  BY <1>1, ProcessMoves DEF Settled, InServe
<1>3. Settled' /\ Serving' \subseteq Serving
  BY <1>2 DEF Settled, Serving, InServe
<1>4. scm.state = "stopped" => ~(proc[p].at = "returned" /\ proc[p].kind = "service")
  BY <1>1 DEF ScmAgrees, Hosts, InServe
<1> QED BY <1>2, <1>3, <1>4

\* A service that is up and nobody stops opens the endpoint and keeps it.
LEMMA ProcessesKeepUp ==
  ASSUME LifeInv, NEW p \in Procs, Live(p), ~LoseEndpoint(p), Up
  PROVE  /\ Up'
         /\ scm.state = "running" => scm'.state = "running"
         /\ Serving # {} => Serving' # {}
<1>1. TypeOK /\ ScmAgrees /\ scm \in Scm
  BY LifeTypes DEF LifeInv
<1>2. PICK h \in Procs :
        /\ proc[h].kind = "service" /\ ~proc[h].stop
        /\ \/ proc[h].at = "starting" /\ scm.state = "start_pending"
           \/ proc[h].at \in {"opening", "serving", "between"} /\ scm.state = "running"
        /\ \A q \in Procs \ {h} : proc[q].at \notin {"starting", "opening", "serving", "between"}
  BY DEF Up
<1>3. Serving \subseteq {h} /\ (proc[h].at \notin InServe => Serving = {})
  BY <1>2 DEF Serving, InServe
<1>4. CASE p = h
  <2>1. /\ \A q \in Procs \ {h} : proc'[q] = proc[q]
        /\ proc'[h].kind = "service" /\ ~proc'[h].stop
        /\ \/ proc[h].at \in InServe /\ proc'[h].at \in InServe /\ scm' = scm
           \/ proc[h].at = "starting" /\ proc'[h].at = "opening" /\ scm' = [scm EXCEPT !.state = "running"]
           \/ proc[h].at = "opening" /\ proc'[h].at = "serving" /\ scm' = scm
    BY <1>1, <1>2, <1>3, <1>4, ProcessMoves DEF InServe
  <2>2. scm'.installed = scm.installed /\ (scm' = scm \/ scm'.state = "running")
    BY <1>1, <2>1 DEF Scm
  <2>3. \/ proc'[h].at = "starting" /\ scm'.state = "start_pending"
        \/ proc'[h].at \in {"opening", "serving", "between"} /\ scm'.state = "running"
    BY <1>1, <1>2, <2>1 DEF Scm, InServe
  <2>4. Up'
    BY <1>2, <2>1, <2>2, <2>3 DEF Up
  <2>5. Serving # {} => Serving' # {}
    BY <1>2, <1>3, <2>1 DEF Serving, InServe
  <2> QED BY <2>2, <2>4, <2>5
<1>5. CASE p # h
  <2>1. h \in Hosts /\ p \notin Hosts
    BY <1>1, <1>2, <1>5 DEF Hosts, InServe, ScmAgrees
  <2>2. ~(proc[p].at = "returned" /\ proc[p].kind = "service")
    BY <2>1 DEF Hosts, InServe
  <2>3. /\ \A q \in Procs \ {p} : proc'[q] = proc[q]
        /\ scm' = scm /\ proc'[p].at \notin {"starting", "opening", "serving", "between"}
    BY <1>1, <1>2, <1>5, <2>2, ProcessMoves DEF InServe
  <2>4. Up'
    BY <1>2, <1>5, <2>3 DEF Up
  <2>5. Serving' = Serving
    BY <1>2, <1>5, <2>3 DEF Serving, InServe
  <2> QED BY <2>3, <2>4, <2>5
<1> QED BY <1>4, <1>5

\* A process that nobody stops does not leave the endpoint.
LEMMA ProcessesKeepUnstopped ==
  ASSUME LifeInv, NEW p \in Procs, Live(p), ~LoseEndpoint(p), Unstopped
  PROVE  Unstopped' /\ (Serving # {} => Serving' # {})
<1>1. TypeOK
  BY DEF LifeInv
<1>2. /\ \A q \in Procs \ {p} : proc'[q] = proc[q]
      /\ proc'[p].stop = proc[p].stop
      /\ proc[p].at \in InServe => proc'[p].at \in InServe
      /\ proc'[p].at \in {"starting", "opening", "serving", "between"}
           => proc[p].at \in {"starting", "opening", "serving", "between"}
  BY <1>1, ProcessMoves DEF Unstopped, InServe
<1> QED BY <1>2 DEF Unstopped, Serving

\* So a process leaves the plan of the command that is alone as it is.
LEMMA ProcessKeepsPlan ==
  ASSUME PromiseInv, NEW p \in Procs, Live(p), NEW c \in Clients
  PROVE  OnPlan(c)'
<1>1. LifeInv /\ TypeOK /\ OnPlan(c) /\ ScmKeepsRunning /\ scm \in Scm
  BY LifeTypes DEF PromiseInv, LifeInv
<1>2. CASE LoseEndpoint(p)
  BY <1>2 DEF LoseEndpoint, OnPlan
<1>3. SUFFICES ASSUME ~LoseEndpoint(p) PROVE OnPlan(c)'
  BY <1>2
<1>4. UNCHANGED <<cli, alone, missed>>
  BY <1>1, <1>3, ProcessMoves
<1> DEFINE t == cli[c].todo
<1>5. Settled => /\ Settled' /\ (Serving = {} => Serving' = {})
                 /\ scm.state = "stopped" => UNCHANGED scm
  BY <1>1, <1>3, ProcessesKeepSettled
<1>6. Up => /\ Up' /\ (scm.state = "running" => scm'.state = "running")
            /\ Serving # {} => Serving' # {}
  BY <1>1, <1>3, ProcessesKeepUp
<1>7. Unstopped => Unstopped' /\ (Serving # {} => Serving' # {})
  BY <1>1, <1>3, ProcessesKeepUnstopped
<1>8. Enabling(t) => Enabling(t)'
  BY <1>4, <1>5, <1>6 DEF Enabling
<1>9. Disabling(t) => Disabling(t)'
  BY <1>4, <1>5 DEF Disabling
<1>10. StoppingAll(t) => StoppingAll(t)'
  BY <1>4, <1>5 DEF StoppingAll
<1>11. Starting(t) => Starting(t)'
  BY <1>4, <1>7 DEF Starting
<1> QED BY <1>1, <1>4, <1>8, <1>9, <1>10, <1>11 DEF OnPlan

-----------------------------------------------------------------------------
(* The calls, as the plans see them.                                       *)

\* A call that changes nothing outside the command.
Idle == UNCHANGED <<scm, proc>>

LEMMA GotoLeaves ==
  ASSUME TypeOK, NEW c \in Clients, NEW s \in Stages, NEW r \in Seq(Stages),
         cli[c].todo = <<s>> \o r
  PROVE  /\ \A f \in Seq(Stages) : Goto(c, f) => cli'[c].todo = f \o r
         /\ Proceed(c) => cli'[c].todo = r
<1>1. cli[c].todo # <<>> /\ Tail(cli[c].todo) = r /\ <<>> \o r = r /\ <<>> \in Seq(Stages)
  BY FirstStage
<1>2. ASSUME NEW f \in Seq(Stages), Goto(c, f) PROVE cli'[c].todo = f \o r
  BY <1>1, <1>2, GotoBecomes DEF Becomes
<1> QED BY <1>1, <1>2 DEF Proceed

\* The decisions put lists of stages in front.
LEMMA FrontTypes ==
  /\ \A s \in Stages : <<s>> \in Seq(Stages)
  /\ <<"await_stopped", "start_service">> \in Seq(Stages) /\ <<"spawn", "ready">> \in Seq(Stages)
  /\ \A cmd \in Commands : Installed[cmd] \in Seq(Stages) /\ Missing[cmd] \in Seq(Stages)
<1>1. /\ \A s \in Stages : <<s>> \in Seq(Stages)
      /\ \A a, b \in Stages : <<a, b>> \in Seq(Stages)
      /\ <<>> \in Seq(Stages)
  OBVIOUS
<1>2. {"query_stop", "delete", "launch", "ready", "retry", "probe", "spawn", "await_stopped",
       "start_service"} \subseteq Stages
  BY DEF Stages
<1>3. \A cmd \in Commands :
        /\ Installed[cmd] \in {<<"query_stop">>, <<"query_stop", "delete">>, <<"launch", "ready">>,
                               <<"launch", "retry">>}
        /\ Missing[cmd] \in {<<>>, <<"probe">>, <<"spawn", "retry">>}
  BY DEF Installed, Missing, Commands
<1> QED BY <1>1, <1>2, <1>3

\* Who has an instance of the pipe is in serve().
LEMMA ListeningServe == Listening \subseteq Serving
BY DEF Listening, Serving, InServe

\* Calls that only ask.
LEMMA AskingCalls ==
  ASSUME TypeOK, NEW c \in Clients, Execute(c), NEW s \in Stages, NEW r \in Seq(Stages),
         cli[c].todo = <<s>> \o r, ~cli'[c].failed, c \notin missed'
  PROVE  /\ s = "look" /\ cli[c].cmd \in Commands =>
              /\ Idle
              /\ cli'[c].todo = (IF scm.installed THEN Installed[cli[c].cmd]
                                                  ELSE Missing[cli[c].cmd]) \o r
         /\ s = "query_stop" =>
              /\ Idle
              /\ \/ ~scm.installed /\ cli[c].cmd = "disable" /\ cli'[c].todo = OnlyShutdown
                 \/ scm.state = "stopped" /\ cli'[c].todo = r
                 \/ cli'[c].todo \in Before({"control", "await_stopped"}, r)
         /\ s = "await_stopped" => Idle /\ scm.state = "stopped" /\ cli'[c].todo = r
         /\ s = "await_running" => Idle /\ scm.state = "running" /\ cli'[c].todo = r
         /\ s = "launch" =>
              /\ Idle /\ scm.installed
              /\ \/ scm.state = "running" /\ cli'[c].todo = r
                 \/ scm.state = "stopped" /\ cli'[c].todo = <<"start_service">> \o r
                 \/ scm.state = "start_pending" /\ cli'[c].todo = <<"await_running">> \o r
                 \/ /\ scm.state = "stop_pending"
                    /\ cli'[c].todo = <<"await_stopped", "start_service">> \o r
         /\ s = "await_gone" => Idle /\ Serving = {} /\ cli'[c].todo = r
         /\ s = "ready" => Idle /\ Serving # {} /\ cli'[c].todo = r
         /\ s = "probe" =>
              /\ Idle
              /\ \/ cli'[c].todo = <<"spawn", "ready">> \o r
                 \/ Serving # {} /\ cli'[c].todo = r
<1>1. Head(cli[c].todo) = s /\ cli[c].todo # <<>> /\ <<>> \o r = r
  BY FirstStage
<1>2. ~Fail(c)
  BY GotoKeepsFailed
<1>3. /\ \A f \in Seq(Stages) : Goto(c, f) => cli'[c].todo = f \o r
      /\ Proceed(c) => cli'[c].todo = r
  BY GotoLeaves
<1>4. /\ <<"control">> \in Seq(Stages) /\ <<"await_stopped">> \in Seq(Stages)
      /\ <<"start_service">> \in Seq(Stages) /\ <<"await_running">> \in Seq(Stages)
      /\ <<>> \in Seq(Stages)
  BY FrontTypes DEF Stages
<1>5. s = "look" /\ cli[c].cmd \in Commands =>
        /\ Idle
        /\ cli'[c].todo = (IF scm.installed THEN Installed[cli[c].cmd] ELSE Missing[cli[c].cmd]) \o r
  BY <1>1, <1>2, <1>3, FrontTypes, CallOfStage DEF Look, Idle
<1>6. s = "query_stop" =>
        /\ Idle
        /\ \/ ~scm.installed /\ cli[c].cmd = "disable" /\ cli'[c].todo = OnlyShutdown
           \/ scm.state = "stopped" /\ cli'[c].todo = r
           \/ cli'[c].todo \in Before({"control", "await_stopped"}, r)
  <2>1. SUFFICES ASSUME s = "query_stop" PROVE /\ Idle
        /\ \/ ~scm.installed /\ cli[c].cmd = "disable" /\ cli'[c].todo = OnlyShutdown
           \/ scm.state = "stopped" /\ cli'[c].todo = r
           \/ cli'[c].todo \in Before({"control", "await_stopped"}, r)
    OBVIOUS
  <2>2. QueryStop(c)
    BY <1>1, <2>1, CallOfStage
  <2>3. Idle
    BY <2>2 DEF QueryStop, Idle
  <2>4. CASE ~scm.installed /\ cli[c].cmd = "disable" /\ cli' = [cli EXCEPT ![c].todo = <<"shutdown">>]
    <3>1. cli'[c].todo = <<"shutdown">>
      <4>1. cli \in [Clients -> Cli] /\ cli[c] \in Cli
        BY LifeTypes
      <4>2. cli'[c] = [cli[c] EXCEPT !.todo = <<"shutdown">>]
        BY <2>4, <4>1
      <4> QED BY <4>1, <4>2 DEF Cli
    <3> QED BY <2>3, <2>4, <3>1 DEF OnlyShutdown
  <2>5. CASE Goto(c, CASE scm.state = "stopped"      -> <<>>
                       [] scm.state = "stop_pending" -> <<"await_stopped">>
                       [] OTHER                      -> <<"control">>)
    <3>1. \/ scm.state = "stopped" /\ Goto(c, <<>>)
          \/ Goto(c, <<"await_stopped">>)
          \/ Goto(c, <<"control">>)
      BY <2>5
    <3>2. \/ scm.state = "stopped" /\ cli'[c].todo = r
          \/ cli'[c].todo = <<"await_stopped">> \o r
          \/ cli'[c].todo = <<"control">> \o r
      BY <1>1, <1>3, <1>4, <3>1
    <3> QED BY <2>3, <3>2 DEF Before
  <2> QED BY <1>2, <2>2, <2>4, <2>5 DEF QueryStop
<1>7. s = "await_stopped" => Idle /\ scm.state = "stopped" /\ cli'[c].todo = r
  BY <1>1, <1>2, <1>3, CallOfStage DEF AwaitState, Awaited, Stage, Idle
<1>8. s = "await_running" => Idle /\ scm.state = "running" /\ cli'[c].todo = r
  BY <1>1, <1>2, <1>3, CallOfStage DEF AwaitState, Awaited, Stage, Idle
<1>9. s = "launch" =>
        /\ Idle /\ scm.installed
        /\ \/ scm.state = "running" /\ cli'[c].todo = r
           \/ scm.state = "stopped" /\ cli'[c].todo = <<"start_service">> \o r
           \/ scm.state = "start_pending" /\ cli'[c].todo = <<"await_running">> \o r
           \/ /\ scm.state = "stop_pending"
              /\ cli'[c].todo = <<"await_stopped", "start_service">> \o r
  <2>1. scm.state \in {"stopped", "start_pending", "running", "stop_pending"}
    BY LifeTypes DEF Scm
  <2>2. s = "launch" =>
          /\ Idle /\ scm.installed
          /\ \/ scm.state = "running" /\ Goto(c, <<>>)
             \/ scm.state = "stopped" /\ Goto(c, <<"start_service">>)
             \/ scm.state = "start_pending" /\ Goto(c, <<"await_running">>)
             \/ scm.state = "stop_pending" /\ Goto(c, <<"await_stopped", "start_service">>)
    BY <1>1, <1>2, <2>1, CallOfStage DEF Launch, Idle
  <2> QED BY <1>1, <1>3, <1>4, <2>2, FrontTypes
<1>10. s = "await_gone" => Idle /\ Serving = {} /\ cli'[c].todo = r
  BY <1>1, <1>2, <1>3, CallOfStage DEF WaitUntilStopped, FindsAbsent, Idle
<1>11. s = "ready" => Idle /\ Serving # {} /\ cli'[c].todo = r
  BY <1>1, <1>2, <1>3, CallOfStage, ListeningServe DEF WaitUntilReady, Idle
<1>12. s = "probe" =>
         /\ Idle
         /\ \/ cli'[c].todo = <<"spawn", "ready">> \o r
            \/ Serving # {} /\ cli'[c].todo = r
  BY <1>1, <1>2, <1>3, <1>4, FrontTypes, CallOfStage, ListeningServe DEF Probe, Idle
<1> QED BY <1>5, <1>6, <1>7, <1>8, <1>9, <1>10, <1>11, <1>12

\* Calls that change something.
LEMMA ChangingCalls ==
  ASSUME TypeOK, NEW c \in Clients, Execute(c), NEW s \in Stages, NEW r \in Seq(Stages),
         cli[c].todo = <<s>> \o r, ~cli'[c].failed, c \notin missed'
  PROVE  /\ s = "control" =>
              /\ cli'[c].todo = <<"await_stopped">> \o r
              /\ \A p \in Procs : proc'[p].at = proc[p].at
         /\ s = "delete" =>
              /\ UNCHANGED proc /\ cli'[c].todo = r
              /\ scm.state = "stopped" => scm' = [scm EXCEPT !.installed = FALSE]
         /\ s = "install" =>
              /\ UNCHANGED proc /\ cli'[c].todo = r /\ scm' = [scm EXCEPT !.installed = TRUE]
         /\ s = "start_service" =>
              /\ cli'[c].todo = <<"await_running">> \o r
              /\ \/ scm.state # "stopped" /\ Idle
                 \/ /\ scm.state = "stopped" /\ scm.installed
                    /\ scm' = [scm EXCEPT !.state = "start_pending"]
                    /\ \E p \in Procs : Run(p, "service")
         /\ s = "shutdown" =>
              /\ UNCHANGED scm /\ \A p \in Procs : proc'[p].at = proc[p].at
              /\ \/ Serving = {} /\ cli'[c].todo = r
                 \/ cli'[c].todo = <<"await_gone">> \o r
         /\ s = "spawn" =>
              /\ UNCHANGED scm /\ cli'[c].todo = r
              /\ \E p \in Procs : Run(p, "background")
<1>1. Head(cli[c].todo) = s
  BY FirstStage
<1>2. ~Fail(c)
  BY GotoKeepsFailed
<1>3. /\ \A f \in Seq(Stages) : Goto(c, f) => cli'[c].todo = f \o r
      /\ Proceed(c) => cli'[c].todo = r
  BY GotoLeaves
<1>4. /\ <<"await_stopped">> \in Seq(Stages) /\ <<"await_running">> \in Seq(Stages)
      /\ <<"await_gone">> \in Seq(Stages)
  BY FrontTypes DEF Stages
<1>5. proc \in [Procs -> Proc] /\ \A p \in Procs : [proc[p] EXCEPT !.stop = TRUE].at = proc[p].at
  BY LifeTypes DEF Proc
<1>6. s = "control" => /\ cli'[c].todo = <<"await_stopped">> \o r
                       /\ \A p \in Procs : proc'[p].at = proc[p].at
  <2>1. s = "control" =>
          /\ Goto(c, <<"await_stopped">>)
          /\ UNCHANGED proc \/ proc' = [p \in Procs |-> IF p \in Hosts THEN [proc[p] EXCEPT !.stop = TRUE]
                                                                       ELSE proc[p]]
    BY <1>1, <1>2, CallOfStage DEF Control
  <2> QED BY <1>3, <1>4, <1>5, <2>1
<1>7. s = "delete" =>
        /\ UNCHANGED proc /\ cli'[c].todo = r
        /\ scm.state = "stopped" => scm' = [scm EXCEPT !.installed = FALSE]
  BY <1>1, <1>2, <1>3, CallOfStage DEF Delete
<1>8. s = "install" =>
        /\ UNCHANGED proc /\ cli'[c].todo = r /\ scm' = [scm EXCEPT !.installed = TRUE]
  BY <1>1, <1>2, <1>3, CallOfStage DEF Install
<1>9. s = "start_service" =>
        /\ cli'[c].todo = <<"await_running">> \o r
        /\ \/ scm.state # "stopped" /\ Idle
           \/ /\ scm.state = "stopped" /\ scm.installed
              /\ scm' = [scm EXCEPT !.state = "start_pending"]
              /\ \E p \in Procs : Run(p, "service")
  BY <1>1, <1>2, <1>3, <1>4, CallOfStage DEF StartService, Idle
<1>10. s = "shutdown" =>
         /\ UNCHANGED scm /\ \A p \in Procs : proc'[p].at = proc[p].at
         /\ \/ Serving = {} /\ cli'[c].todo = r
            \/ cli'[c].todo = <<"await_gone">> \o r
  <2>1. s = "shutdown" =>
          /\ UNCHANGED scm
          /\ \/ Serving = {} /\ Proceed(c) /\ UNCHANGED proc
             \/ /\ \E p \in Listening : proc' = [proc EXCEPT ![p].stop = TRUE]
                /\ Goto(c, <<"await_gone">>)
    BY <1>1, <1>2, CallOfStage DEF ShutdownIfRunning, FindsAbsent
  <2>2. ASSUME NEW p \in Listening, proc' = [proc EXCEPT ![p].stop = TRUE]
        PROVE  \A q \in Procs : proc'[q].at = proc[q].at
    BY <1>5, <2>2 DEF Listening
  <2> QED BY <1>3, <1>4, <2>1, <2>2
<1>11. s = "spawn" =>
         /\ UNCHANGED scm /\ cli'[c].todo = r
         /\ \E p \in Procs : Run(p, "background")
  BY <1>1, <1>2, <1>3, CallOfStage DEF Spawn
<1> QED BY <1>6, <1>7, <1>8, <1>9, <1>10, <1>11

\* A stop that was asked for moves no process; what is as it was, stays as it is.
LEMMA PlacesKept ==
  /\ (\A p \in Procs : proc'[p].at = proc[p].at) => (Settled => Settled') /\ Serving' = Serving
  /\ UNCHANGED proc => Settled' = Settled /\ Unstopped' = Unstopped /\ Serving' = Serving
  /\ Idle => Up' = Up
<1>1. (\A p \in Procs : proc'[p].at = proc[p].at) => (Settled => Settled') /\ Serving' = Serving
  BY DEF Settled, Serving
<1>2. UNCHANGED proc => Settled' = Settled /\ Unstopped' = Unstopped /\ Serving' = Serving
  BY DEF Settled, Unstopped, Serving
<1>3. Idle => Up' = Up
  BY DEF Up, Idle
<1> QED BY <1>1, <1>2, <1>3

\* Starting a process.
LEMMA RunStarts ==
  ASSUME TypeOK, NEW p \in Procs, NEW kind \in {"service", "background"}, Run(p, kind)
  PROVE  /\ proc'[p].at = "starting" /\ proc'[p].kind = kind /\ ~proc'[p].stop
         /\ \A q \in Procs \ {p} : proc'[q] = proc[q]
         /\ Serving' = Serving
<1>1. proc \in [Procs -> Proc] /\ proc[p].at = "unused"
  BY LifeTypes DEF Run, Unused
<1>2. proc' = [proc EXCEPT ![p] = [Unused EXCEPT !.kind = kind, !.at = "starting"]]
  BY DEF Run
<1>3. proc'[p] = [Unused EXCEPT !.kind = kind, !.at = "starting"]
      /\ \A q \in Procs \ {p} : proc'[q] = proc[q]
  BY <1>1, <1>2
<1>4. proc'[p].at = "starting" /\ proc'[p].kind = kind /\ proc'[p].stop = FALSE
  BY <1>3 DEF Unused
<1>5. Serving' = Serving
  BY <1>1, <1>3, <1>4 DEF Serving, InServe
<1> QED BY <1>3, <1>4, <1>5

-----------------------------------------------------------------------------
(* Each command stays on its plan.                                         *)

\* Which stages the plans wait in front of.
LEMMA PlanStages ==
  /\ Stopping \cup {"look", "await_gone", "start_service", "await_running", "spawn", "ready", "probe",
                    "launch", "install", "shutdown", "delete"} \subseteq Stages
  /\ ThenReady = <<"ready">> \o <<>> /\ OnlyShutdown = <<"shutdown">> \o <<>>
  /\ <<"look">> = <<"look">> \o <<>> /\ <<"probe">> = <<"probe">> \o <<>>
  /\ <<"await_gone">> = <<"await_gone">> \o <<>>
  /\ <<>> \in Seq(Stages)
<1>1. \A a \in Stages : <<a>> = <<a>> \o <<>>
  BY Fronts
<1> QED BY <1>1 DEF Stopping, Stages, ThenReady, OnlyShutdown

LEMMA EnablingStep ==
  ASSUME TypeOK, ScmKeepsRunning, NEW c \in Clients, Execute(c), cli[c].cmd = "enable",
         ~cli'[c].failed, c \notin missed', Enabling(cli[c].todo)
  PROVE  Enabling(cli[c].todo)'
<1> DEFINE t == cli[c].todo
           u == cli'[c].todo
<1>1. /\ ThenReady \in Seq(Stages) /\ ThenLaunch \in Seq(Stages) /\ ThenInstall \in Seq(Stages)
      /\ ThenShutdown \in Seq(Stages) /\ cli[c].cmd \in Commands /\ cli[c].cmd # "disable" /\ t # <<>>
  BY PlanTypes, CallOfStage DEF Commands
<1>2. CASE t \in Before(Stopping \cup {"look"}, ThenShutdown) /\ Settled
  <2>1. PICK s \in Stopping \cup {"look"} : t = <<s>> \o ThenShutdown
    BY <1>2 DEF Before
  <2>2. s \in Stages /\ <<>> \o ThenShutdown = ThenShutdown
    BY <1>1, PlanStages, FirstStage
  <2>3. CASE s = "look"
    <3>1. Idle /\ u = (IF scm.installed THEN <<"query_stop">> ELSE <<>>) \o ThenShutdown
      <4>1. Idle /\ u = (IF scm.installed THEN Installed["enable"] ELSE Missing["enable"]) \o ThenShutdown
        <5>1. t = <<"look">> \o ThenShutdown /\ "look" \in Stages
          BY <2>1, <2>2, <2>3
        <5> QED BY <1>1, <5>1, AskingCalls
      <4>2. Installed["enable"] = <<"query_stop">> /\ Missing["enable"] = <<>>
        BY PlansBegin
      <4> QED BY <4>1, <4>2
    <3>2. CASE scm.installed
      BY <1>2, <3>1, <3>2, PlacesKept DEF Enabling, Before, Stopping, Idle
    <3>3. CASE ~scm.installed
      BY <1>2, <2>2, <3>1, <3>3, PlacesKept DEF Enabling, ScmKeepsRunning, Idle
    <3> QED BY <3>2, <3>3
  <2>4. CASE s = "query_stop"
    <3>1. Idle /\ (\/ scm.state = "stopped" /\ u = ThenShutdown
                   \/ u \in Before({"control", "await_stopped"}, ThenShutdown))
      BY <1>1, <2>1, <2>2, <2>4, AskingCalls
    <3> QED BY <1>2, <3>1, PlacesKept DEF Enabling, Before, Stopping, Idle
  <2>5. CASE s = "control"
    <3>1. u = <<"await_stopped">> \o ThenShutdown /\ Settled'
      BY <1>1, <1>2, <2>1, <2>2, <2>5, ChangingCalls, PlacesKept
    <3> QED BY <3>1 DEF Enabling, Before, Stopping
  <2>6. CASE s = "await_stopped"
    <3>1. Idle /\ scm.state = "stopped" /\ u = ThenShutdown
      BY <1>1, <2>1, <2>2, <2>6, AskingCalls
    <3> QED BY <1>2, <3>1, PlacesKept DEF Enabling, Idle
  <2> QED BY <2>3, <2>4, <2>5, <2>6 DEF Stopping
<1>3. CASE t = ThenShutdown /\ Settled /\ scm.state = "stopped"
  <2>1. /\ UNCHANGED scm /\ Settled' /\ Serving' = Serving
        /\ (Serving = {} /\ u = ThenInstall) \/ u = <<"await_gone">> \o ThenInstall
    BY <1>1, <1>3, PlanStages, ChangingCalls, PlacesKept DEF ThenShutdown
  <2> QED BY <1>3, <2>1 DEF Enabling, Before
<1>4. CASE t \in Before({"await_gone"}, ThenInstall) /\ Settled /\ scm.state = "stopped"
  <2>1. t = <<"await_gone">> \o ThenInstall
    BY <1>4 DEF Before
  <2>2. Idle /\ Serving = {} /\ u = ThenInstall
    BY <1>1, <2>1, PlanStages, AskingCalls
  <2> QED BY <1>4, <2>2, PlacesKept DEF Enabling, Idle
<1>5. CASE t = ThenInstall /\ Settled /\ scm.state = "stopped" /\ Serving = {}
  <2>1. UNCHANGED proc /\ u = ThenLaunch /\ scm' = [scm EXCEPT !.installed = TRUE]
    BY <1>1, <1>5, PlanStages, ChangingCalls DEF ThenInstall
  <2>2. scm'.installed /\ scm'.state = "stopped"
    BY <1>5, <2>1, LifeTypes DEF Scm
  <2> QED BY <1>5, <2>1, <2>2, PlacesKept DEF Enabling
<1>6. CASE t = ThenLaunch /\ Settled /\ scm.state = "stopped" /\ Serving = {} /\ scm.installed
  <2>1. Idle /\ u = <<"start_service">> \o ThenReady
    BY <1>1, <1>6, PlanStages, AskingCalls DEF ThenLaunch
  <2> QED BY <1>6, <2>1, PlacesKept DEF Enabling, Before, Idle
<1>7. CASE /\ t \in Before({"start_service"}, ThenReady)
           /\ Settled /\ scm.state = "stopped" /\ Serving = {} /\ scm.installed
  <2>1. t = <<"start_service">> \o ThenReady
    BY <1>7 DEF Before
  <2>2. /\ u = <<"await_running">> \o ThenReady /\ scm' = [scm EXCEPT !.state = "start_pending"]
        /\ \E p \in Procs : Run(p, "service")
    BY <1>1, <1>7, <2>1, PlanStages, ChangingCalls
  <2>3. PICK p \in Procs : Run(p, "service")
    BY <2>2
  <2>4. /\ proc'[p].at = "starting" /\ proc'[p].kind = "service" /\ ~proc'[p].stop
        /\ \A q \in Procs \ {p} : proc'[q] = proc[q]
    BY <2>3, RunStarts
  <2>5. scm'.installed /\ scm'.state = "start_pending"
    BY <1>7, <2>2, LifeTypes DEF Scm
  <2>6. \A q \in Procs \ {p} : proc'[q].at \notin {"starting", "opening", "serving", "between"}
    BY <1>7, <2>4 DEF Settled, Serving, InServe
  <2>7. Up'
    BY <2>4, <2>5, <2>6 DEF Up
  <2> QED BY <2>2, <2>7 DEF Enabling, Before
<1>8. CASE t \in Before({"await_running"}, ThenReady) /\ Up
  <2>1. t = <<"await_running">> \o ThenReady
    BY <1>8 DEF Before
  <2>2. Idle /\ scm.state = "running" /\ u = ThenReady
    BY <1>1, <2>1, PlanStages, AskingCalls
  <2> QED BY <1>8, <2>2, PlacesKept DEF Enabling, Idle
<1>9. CASE t = ThenReady /\ Up /\ scm.state = "running"
  <2>1. t = <<"ready">> \o <<>>
    BY <1>9, PlanStages
  <2>2. Idle /\ Serving # {} /\ u = <<>>
    BY <2>1, PlanStages, AskingCalls
  <2> QED BY <1>9, <2>2, PlacesKept DEF Enabling, Idle
<1> QED BY <1>1, <1>2, <1>3, <1>4, <1>5, <1>6, <1>7, <1>8, <1>9 DEF Enabling

LEMMA DisablingStep ==
  ASSUME TypeOK, ScmKeepsRunning, NEW c \in Clients, Execute(c), cli[c].cmd = "disable",
         ~cli'[c].failed, c \notin missed', Disabling(cli[c].todo)
  PROVE  Disabling(cli[c].todo)'
<1> DEFINE t == cli[c].todo
           u == cli'[c].todo
<1>1. /\ OnlyShutdown \in Seq(Stages) /\ ThenDelete \in Seq(Stages)
      /\ cli[c].cmd \in Commands /\ t # <<>> /\ Settled
  BY PlanTypes, CallOfStage DEF Commands, Disabling
<1>2. CASE t \in Before({"look"}, OnlyShutdown)
  <2>1. t = <<"look">> \o OnlyShutdown
    BY <1>2 DEF Before
  <2>2. Idle /\ u = (IF scm.installed THEN Installed["disable"] ELSE Missing["disable"]) \o OnlyShutdown
    <3>1. "look" \in Stages
      BY PlanStages
    <3> QED BY <1>1, <2>1, <3>1, AskingCalls
  <2>3. CASE scm.installed
    <3>1. u = <<"query_stop">> \o ThenDelete
      BY <2>2, <2>3, PlansBegin
    <3> QED BY <1>1, <2>2, <3>1, PlacesKept DEF Disabling, Before, Stopping, Idle
  <2>4. CASE ~scm.installed
    <3>1. u = OnlyShutdown
      BY <1>1, <2>2, <2>4, PlansBegin, PlanStages, FirstStage
    <3> QED BY <1>1, <2>2, <2>4, <3>1, PlacesKept DEF Disabling, ScmKeepsRunning, Idle
  <2> QED BY <2>3, <2>4
<1>3. CASE t \in Before(Stopping, ThenDelete)
  <2>1. PICK s \in Stopping : t = <<s>> \o ThenDelete
    BY <1>3 DEF Before
  <2>2. s \in Stages
    BY PlanStages
  <2>3. CASE s = "query_stop"
    <3>1. Idle /\ (\/ ~scm.installed /\ u = OnlyShutdown
                   \/ scm.state = "stopped" /\ u = ThenDelete
                   \/ u \in Before({"control", "await_stopped"}, ThenDelete))
      BY <1>1, <2>1, <2>2, <2>3, AskingCalls
    <3> QED BY <1>1, <3>1, PlacesKept DEF Disabling, Before, Stopping, ScmKeepsRunning, Idle
  <2>4. CASE s = "control"
    <3>1. u = <<"await_stopped">> \o ThenDelete /\ Settled'
      BY <1>1, <2>1, <2>2, <2>4, ChangingCalls, PlacesKept
    <3> QED BY <3>1 DEF Disabling, Before, Stopping
  <2>5. CASE s = "await_stopped"
    <3>1. Idle /\ scm.state = "stopped" /\ u = ThenDelete
      BY <1>1, <2>1, <2>2, <2>5, AskingCalls
    <3> QED BY <1>1, <3>1, PlacesKept DEF Disabling, Idle
  <2> QED BY <2>3, <2>4, <2>5 DEF Stopping
<1>4. CASE t = ThenDelete /\ scm.state = "stopped"
  <2>1. UNCHANGED proc /\ u = OnlyShutdown /\ scm' = [scm EXCEPT !.installed = FALSE]
    BY <1>1, <1>4, PlanStages, ChangingCalls DEF ThenDelete
  <2>2. ~scm'.installed /\ scm'.state = "stopped"
    BY <1>4, <2>1, LifeTypes DEF Scm
  <2> QED BY <1>1, <2>1, <2>2, PlacesKept DEF Disabling
<1>5. CASE t = OnlyShutdown /\ scm.state = "stopped" /\ ~scm.installed
  <2>1. /\ UNCHANGED scm /\ Settled' /\ Serving' = Serving
        /\ (Serving = {} /\ u = <<>>) \/ u = <<"await_gone">>
    <3>1. t = <<"shutdown">> \o <<>> /\ <<"await_gone">> \o <<>> = <<"await_gone">> /\ "shutdown" \in Stages
      BY <1>5, PlanStages
    <3>2. /\ UNCHANGED scm /\ \A p \in Procs : proc'[p].at = proc[p].at
          /\ (Serving = {} /\ u = <<>>) \/ u = <<"await_gone">>
      BY <3>1, EmptySeq, ChangingCalls
    <3> QED BY <1>1, <3>2, PlacesKept
  <2> QED BY <1>5, <2>1 DEF Disabling
<1>6. CASE t = <<"await_gone">> /\ scm.state = "stopped" /\ ~scm.installed
  <2>1. Idle /\ Serving = {} /\ u = <<>>
    <3>1. t = <<"await_gone">> \o <<>> /\ "await_gone" \in Stages /\ <<>> \in Seq(Stages)
      BY <1>6, PlanStages
    <3> QED BY <3>1, AskingCalls
  <2> QED BY <1>1, <1>6, <2>1, PlacesKept DEF Disabling, Idle
<1> QED BY <1>1, <1>2, <1>3, <1>4, <1>5, <1>6 DEF Disabling

LEMMA StoppingStep ==
  ASSUME TypeOK, ScmKeepsRunning, NEW c \in Clients, Execute(c), cli[c].cmd = "stop",
         ~cli'[c].failed, c \notin missed', StoppingAll(cli[c].todo)
  PROVE  StoppingAll(cli[c].todo)'
<1> DEFINE t == cli[c].todo
           u == cli'[c].todo
<1>1. /\ OnlyShutdown \in Seq(Stages) /\ cli[c].cmd \in Commands /\ cli[c].cmd # "disable"
      /\ t # <<>> /\ Settled
  BY PlanTypes, CallOfStage DEF Commands, StoppingAll
<1>2. CASE t \in Before(Stopping \cup {"look"}, OnlyShutdown)
  <2>1. PICK s \in Stopping \cup {"look"} : t = <<s>> \o OnlyShutdown
    BY <1>2 DEF Before
  <2>2. s \in Stages /\ <<>> \o OnlyShutdown = OnlyShutdown
    BY <1>1, PlanStages, FirstStage
  <2>3. CASE s = "look"
    <3>1. Idle /\ u = (IF scm.installed THEN <<"query_stop">> ELSE <<>>) \o OnlyShutdown
      <4>1. Idle /\ u = (IF scm.installed THEN Installed["stop"] ELSE Missing["stop"]) \o OnlyShutdown
        <5>1. t = <<"look">> \o OnlyShutdown /\ "look" \in Stages
          BY <2>1, <2>2, <2>3
        <5> QED BY <1>1, <5>1, AskingCalls
      <4>2. Installed["stop"] = <<"query_stop">> /\ Missing["stop"] = <<>>
        BY PlansBegin
      <4> QED BY <4>1, <4>2
    <3>2. CASE scm.installed
      BY <1>1, <3>1, <3>2, PlacesKept DEF StoppingAll, Before, Stopping, Idle
    <3>3. CASE ~scm.installed
      BY <1>1, <2>2, <3>1, <3>3, PlacesKept DEF StoppingAll, ScmKeepsRunning, Idle
    <3> QED BY <3>2, <3>3
  <2>4. CASE s = "query_stop"
    <3>1. Idle /\ (\/ scm.state = "stopped" /\ u = OnlyShutdown
                   \/ u \in Before({"control", "await_stopped"}, OnlyShutdown))
      BY <1>1, <2>1, <2>2, <2>4, AskingCalls
    <3> QED BY <1>1, <3>1, PlacesKept DEF StoppingAll, Before, Stopping, Idle
  <2>5. CASE s = "control"
    <3>1. u = <<"await_stopped">> \o OnlyShutdown /\ Settled'
      BY <1>1, <2>1, <2>2, <2>5, ChangingCalls, PlacesKept
    <3> QED BY <3>1 DEF StoppingAll, Before, Stopping
  <2>6. CASE s = "await_stopped"
    <3>1. Idle /\ scm.state = "stopped" /\ u = OnlyShutdown
      BY <1>1, <2>1, <2>2, <2>6, AskingCalls
    <3> QED BY <1>1, <3>1, PlacesKept DEF StoppingAll, Idle
  <2> QED BY <2>3, <2>4, <2>5, <2>6 DEF Stopping
<1>3. CASE t = OnlyShutdown /\ scm.state = "stopped"
  <2>1. t = <<"shutdown">> \o <<>> /\ <<"await_gone">> \o <<>> = <<"await_gone">> /\ "shutdown" \in Stages
    BY <1>3, PlanStages
  <2>2. /\ UNCHANGED scm /\ \A p \in Procs : proc'[p].at = proc[p].at
        /\ (Serving = {} /\ u = <<>>) \/ u = <<"await_gone">>
    BY <2>1, EmptySeq, ChangingCalls
  <2>3. Settled' /\ Serving' = Serving
    BY <1>1, <2>2, PlacesKept
  <2> QED BY <1>3, <2>2, <2>3 DEF StoppingAll
<1>4. CASE t = <<"await_gone">> /\ scm.state = "stopped"
  <2>1. Idle /\ Serving = {} /\ u = <<>>
    <3>1. t = <<"await_gone">> \o <<>> /\ "await_gone" \in Stages /\ <<>> \in Seq(Stages)
      BY <1>4, PlanStages
    <3> QED BY <3>1, AskingCalls
  <2> QED BY <1>1, <1>4, <2>1, PlacesKept DEF StoppingAll, Idle
<1> QED BY <1>1, <1>2, <1>3, <1>4 DEF StoppingAll

LEMMA StartingStep ==
  ASSUME TypeOK, NEW c \in Clients, Execute(c), cli[c].cmd = "start",
         ~cli'[c].failed, c \notin missed', Starting(cli[c].todo)
  PROVE  Starting(cli[c].todo)'
<1> DEFINE t == cli[c].todo
           u == cli'[c].todo
           Restart == <<"start_service">> \o ThenReady
<1>1. /\ ThenReady \in Seq(Stages) /\ ThenLaunch \in Seq(Stages) /\ Restart \in Seq(Stages)
      /\ cli[c].cmd \in Commands /\ t # <<>> /\ Unstopped
  BY PlanTypes, CallOfStage DEF Commands, Starting
<1>2. CASE t = <<"look">>
  <2>1. Idle /\ u = (IF scm.installed THEN Installed["start"] ELSE Missing["start"]) \o <<>>
    <3>1. t = <<"look">> \o <<>> /\ "look" \in Stages /\ <<>> \in Seq(Stages)
      BY <1>2, PlanStages
    <3>2. Idle /\ u = (IF scm.installed THEN Installed[cli[c].cmd] ELSE Missing[cli[c].cmd]) \o <<>>
      BY <1>1, <3>1, AskingCalls
    <3> QED BY <3>2
  <2>2. u = ThenLaunch \/ u = <<"probe">>
    <3>1. Installed["start"] \o <<>> = ThenLaunch /\ Missing["start"] \o <<>> = <<"probe">>
      BY PlansBegin
    <3> QED BY <2>1, <3>1
  <2> QED BY <1>1, <2>1, <2>2, PlacesKept DEF Starting, Idle
<1>3. CASE t = <<"probe">>
  <2>1. Idle /\ (u = <<"spawn", "ready">> \o <<>> \/ (Serving # {} /\ u = <<>>))
    <3>1. t = <<"probe">> \o <<>> /\ "probe" \in Stages /\ <<>> \in Seq(Stages)
      BY <1>3, PlanStages
    <3> QED BY <1>1, <3>1, AskingCalls
  <2>2. u = <<"spawn">> \o ThenReady \/ (u = <<>> /\ Serving # {})
    BY <2>1, PlansBegin
  <2> QED BY <1>1, <2>1, <2>2, PlacesKept DEF Starting, Before, Idle
<1>4. CASE t = ThenLaunch
  <2>1. /\ Idle
        /\ \/ u \in {ThenReady, <<"start_service">> \o ThenReady, <<"await_running">> \o ThenReady}
           \/ u = <<"await_stopped", "start_service">> \o ThenReady
    <3>1. t = <<"launch">> \o ThenReady /\ "launch" \in Stages
      BY <1>4, PlanStages DEF ThenLaunch
    <3> QED BY <1>1, <3>1, AskingCalls
  <2>2. \/ u = ThenReady
        \/ u \in Before({"await_running", "start_service", "spawn"}, ThenReady)
        \/ u \in Before({"await_stopped"}, <<"start_service">> \o ThenReady)
    BY <2>1, PlansBegin DEF Before
  <2> QED BY <1>1, <2>1, <2>2, PlacesKept DEF Starting, Idle
<1>5. CASE t = ThenReady
  <2>1. Idle /\ Serving # {} /\ u = <<>>
    BY <1>1, <1>5, PlanStages, AskingCalls
  <2> QED BY <1>1, <2>1, PlacesKept DEF Starting, Idle
<1>6. CASE t \in Before({"await_running", "start_service", "spawn"}, ThenReady)
  <2>1. PICK s \in {"await_running", "start_service", "spawn"} : t = <<s>> \o ThenReady
    BY <1>6 DEF Before
  <2>2. s \in Stages
    BY PlanStages
  <2>3. CASE s = "await_running"
    <3>1. Idle /\ u = ThenReady
      BY <1>1, <2>1, <2>2, <2>3, AskingCalls
    <3> QED BY <1>1, <3>1, PlacesKept DEF Starting, Idle
  <2>4. ASSUME NEW p \in Procs, NEW kind \in {"service", "background"}, Run(p, kind)
        PROVE  Unstopped'
    <3>1. ~proc'[p].stop /\ \A q \in Procs \ {p} : proc'[q] = proc[q]
      BY <2>4, RunStarts
    <3> QED BY <1>1, <3>1 DEF Unstopped
  <2>5. CASE s = "start_service"
    <3>1. u = <<"await_running">> \o ThenReady /\ (Idle \/ \E p \in Procs : Run(p, "service"))
      BY <1>1, <2>1, <2>2, <2>5, ChangingCalls
    <3>2. Unstopped'
      BY <1>1, <2>4, <3>1, PlacesKept DEF Idle
    <3> QED BY <3>1, <3>2 DEF Starting, Before
  <2>6. CASE s = "spawn"
    <3>1. u = ThenReady /\ \E p \in Procs : Run(p, "background")
      BY <1>1, <2>1, <2>2, <2>6, ChangingCalls
    <3> QED BY <2>4, <3>1 DEF Starting
  <2> QED BY <2>3, <2>5, <2>6
<1>7. CASE t \in Before({"await_stopped"}, Restart)
  <2>1. t = <<"await_stopped">> \o Restart
    BY <1>7 DEF Before
  <2>2. "await_stopped" \in Stages
    BY DEF Stages
  <2> HIDE DEF Restart
  <2>3. Idle /\ u = Restart
    BY <1>1, <2>1, <2>2, AskingCalls
  <2> USE DEF Restart
  <2> QED BY <1>1, <2>3, PlacesKept DEF Starting, Before, Idle
<1> QED BY <1>1, <1>2, <1>3, <1>4, <1>5, <1>6, <1>7 DEF Starting

-----------------------------------------------------------------------------
(* The plans hold in every reachable state.                                *)

\* A call keeps the name of its command, undoes no failure and concerns no other
\* command.
LEMMA CallsKeepCommand ==
  ASSUME TypeOK, NEW c \in Clients, Execute(c)
  PROVE  /\ cli'[c].cmd = cli[c].cmd /\ (cli[c].failed => cli'[c].failed)
         /\ \A e \in Clients \ {c} : cli'[e] = cli[e]
         /\ UNCHANGED alone /\ missed \subseteq missed'
<1>1. cli \in [Clients -> Cli] /\ cli[c] \in Cli
  BY LifeTypes
<1>2. UNCHANGED alone /\ missed \subseteq missed'
  BY DEF Execute, Look, QueryStop, Control, AwaitState, Delete, Install, Launch, StartService,
         ShutdownIfRunning, WaitUntilStopped, WaitUntilReady, Probe, Spawn, Call, Retry, Answer, FindsAbsent
<1>3. Fail(c) \/ \E t : cli' = [cli EXCEPT ![c].todo = t]
  BY DEF Execute, Look, QueryStop, Control, AwaitState, Delete, Install, Launch, StartService,
         ShutdownIfRunning, WaitUntilStopped, WaitUntilReady, Probe, Spawn, Call, Retry, Answer,
         Take, Proceed, Goto
<1>4. CASE Fail(c)
  <2>1. cli' = [cli EXCEPT ![c] = [cli[c] EXCEPT !.todo = <<>>, !.failed = TRUE]]
    BY <1>1, <1>4 DEF Fail
  <2>2. /\ cli'[c] = [cli[c] EXCEPT !.todo = <<>>, !.failed = TRUE]
        /\ \A e \in Clients \ {c} : cli'[e] = cli[e]
    BY <1>1, <2>1
  <2>3. cli'[c].cmd = cli[c].cmd /\ cli'[c].failed = TRUE
    BY <1>1, <2>2 DEF Cli
  <2> QED BY <1>2, <2>2, <2>3
<1>5. ASSUME NEW t, cli' = [cli EXCEPT ![c].todo = t]
      PROVE  /\ cli'[c].cmd = cli[c].cmd /\ cli'[c].failed = cli[c].failed
             /\ \A e \in Clients \ {c} : cli'[e] = cli[e]
  <2>1. cli'[c] = [cli[c] EXCEPT !.todo = t] /\ \A e \in Clients \ {c} : cli'[e] = cli[e]
    BY <1>1, <1>5
  <2> QED BY <1>1, <2>1 DEF Cli
<1> QED BY <1>2, <1>3, <1>4, <1>5

LEMMA BeginKeepsPlans ==
  ASSUME PromiseInv, NEW c \in Clients, Begin(c), NEW d \in Clients
  PROVE  OnPlan(d)'
<1>1. cli \in [Clients -> Cli] /\ alone'[d] = (d = c /\ Quiet) /\ UNCHANGED <<scm, proc>>
  BY LifeTypes DEF PromiseInv, LifeInv, Begin
<1>2. CASE ~(d = c /\ Quiet)
  BY <1>1, <1>2 DEF OnPlan
<1>3. CASE d = c /\ Quiet
  <2>1. Settled' /\ Unstopped' /\ \A e \in Clients : cli[e].todo = <<>>
    BY <1>1, <1>3 DEF Quiet, Settled, Unstopped, InServe
  <2>2. PICK cmd \in Commands, long \in BOOLEAN :
          cli' = [cli EXCEPT ![c] = [cmd |-> cmd, todo |-> Program[cmd], failed |-> FALSE, long |-> long]]
    BY DEF Begin
  <2>3. cli'[c].cmd = cmd /\ cli'[c].todo = Program[cmd] /\ \A e \in Clients \ {c} : cli'[e] = cli[e]
    BY <1>1, <2>2
  <2>4. cmd = "enable" => Enabling(cli[c].todo)'
    <3>1. cmd = "enable" => cli'[c].todo \in Before(Stopping \cup {"look"}, ThenShutdown)
      BY <2>3, PlansBegin DEF Before
    <3> QED BY <2>1, <3>1 DEF Enabling
  <2>5. cmd = "disable" => Disabling(cli[c].todo)'
    <3>1. cmd = "disable" => cli'[c].todo \in Before({"look"}, OnlyShutdown)
      BY <2>3, PlansBegin DEF Before
    <3> QED BY <2>1, <3>1 DEF Disabling
  <2>6. cmd = "stop" => StoppingAll(cli[c].todo)'
    <3>1. cmd = "stop" => cli'[c].todo \in Before(Stopping \cup {"look"}, OnlyShutdown)
      BY <2>3, PlansBegin DEF Before
    <3> QED BY <2>1, <3>1 DEF StoppingAll
  <2>7. cmd = "start" => Starting(cli[c].todo)'
    BY <2>1, <2>3, PlansBegin DEF Starting
  <2> QED BY <1>3, <2>1, <2>3, <2>4, <2>5, <2>6, <2>7 DEF OnPlan
<1> QED BY <1>2, <1>3

LEMMA ExecuteKeepsPlans ==
  ASSUME PromiseInv, NEW c \in Clients, Execute(c), NEW d \in Clients
  PROVE  OnPlan(d)'
<1>1. TypeOK /\ ScmKeepsRunning /\ OnPlan(d)
  BY DEF PromiseInv, LifeInv
<1>2. /\ cli'[c].cmd = cli[c].cmd /\ (cli[c].failed => cli'[c].failed)
      /\ \A e \in Clients \ {c} : cli'[e] = cli[e]
      /\ UNCHANGED alone /\ missed \subseteq missed'
  BY <1>1, CallsKeepCommand
<1>3. CASE ~alone[d] \/ d \in missed'
  BY <1>2, <1>3 DEF OnPlan
<1>4. alone[d] /\ d \notin missed' => d = c
  BY <1>1, <1>2, CallOfStage DEF OnPlan
<1>5. CASE alone[d] /\ d \notin missed' /\ d = c
  <2>1. /\ cli[c].cmd = "enable" /\ ~cli'[c].failed => Enabling(cli[c].todo)'
        /\ cli[c].cmd = "disable" /\ ~cli'[c].failed => Disabling(cli[c].todo)'
        /\ cli[c].cmd = "stop" /\ ~cli'[c].failed => StoppingAll(cli[c].todo)'
        /\ cli[c].cmd = "start" /\ ~cli'[c].failed => Starting(cli[c].todo)'
    BY <1>1, <1>2, <1>5, EnablingStep, DisablingStep, StoppingStep, StartingStep DEF OnPlan
  <2>2. \A e \in Clients \ {c} : cli'[e].todo = <<>>
    BY <1>1, <1>2, <1>5 DEF OnPlan
  <2> QED BY <1>2, <1>5, <2>1, <2>2 DEF OnPlan
<1> QED BY <1>3, <1>4, <1>5

LEMMA PromiseStep == PromiseInv /\ [Next]_vars => PromiseInv'
<1> SUFFICES ASSUME PromiseInv, [Next]_vars PROVE PromiseInv'
  OBVIOUS
<1>1. LifeInv' /\ ScmKeepsRunning'
  BY LifeStep, ScmStaysKept DEF PromiseInv
<1>2. ASSUME NEW d \in Clients PROVE OnPlan(d)'
  <2>1. CASE UNCHANGED vars
    BY <1>2, <2>1 DEF vars, PromiseInv, OnPlan, Enabling, Disabling, StoppingAll, Starting, Settled,
                      Unstopped, Up, Serving
  <2>2. ASSUME NEW c \in Clients, Begin(c) \/ Execute(c) PROVE OnPlan(d)'
    BY <1>2, <2>2, BeginKeepsPlans, ExecuteKeepsPlans
  <2>3. ASSUME NEW p \in Procs, Live(p) PROVE OnPlan(d)'
    BY <1>2, <2>3, ProcessKeepsPlan
  <2> QED BY <2>1, <2>2, <2>3 DEF Next
<1> QED BY <1>1, <1>2 DEF PromiseInv

LEMMA PromiseInit == Init => PromiseInv
<1> SUFFICES ASSUME Init PROVE PromiseInv
  OBVIOUS
<1>1. ScmKeepsRunning
  <2>1. PICK i \in BOOLEAN, first \in {"none", "boot", "service", "background"} :
          /\ first \in {"boot", "service"} => i
          /\ scm = [installed |-> i, doomed |-> FALSE,
                    state |-> CASE first = "boot"    -> "start_pending"
                                [] first = "service" -> "running"
                                [] OTHER             -> "stopped"]
    BY DEF Init
  <2> QED BY <2>1 DEF ScmKeepsRunning
<1>2. \A c \in Clients : OnPlan(c)
  BY DEF Init, OnPlan
<1> QED BY <1>1, <1>2, LifeInit DEF PromiseInv

\* A command that succeeded has no stage left, so it is at the end of its plan.
LEMMA PlansDeliver == PromiseInv => LifecyclePromises
<1> SUFFICES ASSUME PromiseInv, NEW c \in Clients, alone[c], c \notin missed, cli[c].todo = <<>>, ~cli[c].failed
             PROVE  /\ cli[c].cmd = "enable" => /\ scm.installed /\ scm.state = "running"
                                                /\ \E p \in Serving : proc[p].kind = "service"
                    /\ cli[c].cmd = "disable" => ~scm.installed
                    /\ cli[c].cmd \in {"disable", "stop"} => Serving = {} /\ scm.state = "stopped"
                    /\ cli[c].cmd = "start" => Serving # {}
  BY DEF LifecyclePromises, Succeeded
<1>1. /\ cli[c].cmd = "enable" => Enabling(<<>>)
      /\ cli[c].cmd = "disable" => Disabling(<<>>)
      /\ cli[c].cmd = "stop" => StoppingAll(<<>>)
      /\ cli[c].cmd = "start" => Starting(<<>>)
  BY DEF PromiseInv, OnPlan
<1>2. ASSUME NEW S \in SUBSET Stages, NEW r \in Seq(Stages) PROVE <<>> \notin Before(S, r)
  BY <1>2, FirstStage DEF Before
<1>3. /\ ThenReady # <<>> /\ ThenLaunch # <<>> /\ ThenInstall # <<>> /\ ThenShutdown # <<>>
      /\ OnlyShutdown # <<>> /\ ThenDelete # <<>> /\ <<"await_gone">> # <<>>
      /\ <<"look">> # <<>> /\ <<"probe">> # <<>>
  BY PlanTypes, PlanStages, FirstStage DEF ThenLaunch, ThenInstall, ThenShutdown, ThenDelete
<1>4. CASE cli[c].cmd = "enable"
  <2>1. Up /\ scm.state = "running" /\ Serving # {}
    BY <1>1, <1>2, <1>3, <1>4, PlanTypes, PlanStages DEF Enabling
  <2>2. PICK p \in Procs : /\ proc[p].kind = "service"
                           /\ \A q \in Procs \ {p} : proc[q].at \notin {"starting", "opening", "serving", "between"}
    BY <2>1 DEF Up
  <2>3. p \in Serving /\ scm.installed
    BY <2>1, <2>2 DEF Serving, InServe, Up
  <2> QED BY <1>4, <2>1, <2>2, <2>3
<1>5. CASE cli[c].cmd = "disable"
  BY <1>1, <1>2, <1>3, <1>5, PlanTypes, PlanStages DEF Disabling
<1>6. CASE cli[c].cmd = "stop"
  BY <1>1, <1>2, <1>3, <1>6, PlanTypes, PlanStages DEF StoppingAll
<1>7. CASE cli[c].cmd = "start"
  BY <1>1, <1>2, <1>3, <1>7, PlanTypes, PlanStages DEF Starting, Stopping
<1>8. CASE cli[c].cmd \notin {"enable", "disable", "stop", "start"}
  BY <1>8
<1> QED BY <1>4, <1>5, <1>6, <1>7, <1>8

\* What enable, disable, start and stop report as done is so, when no other command
\* began meanwhile, no process was coming or going when it began, no daemon failed to
\* create its next pipe instance, and no call came between two instances
\* (enable_and_start, disable, start and stop in netplan-cli/service.rs and main.rs).
THEOREM PromisesAreKept == Spec => []LifecyclePromises
BY PromiseInit, PromiseStep, PlansDeliver, PTL DEF Spec
=============================================================================
