---------------------------- MODULE Gateway_proofs ----------------------------
(***************************************************************************)
(* Proofs about Gateway: whatever lines come and however the daemon        *)
(* behaves, every line that needs an answer has one, in order, and a wait  *)
(* tells the truth and goes beyond its deadline only to start a daemon.    *)
(***************************************************************************)
EXTENDS Gateway, TLAPS

\* What the gateway does belongs to the line it is at.
PlaceMatchesLine ==
  /\ does \notin {"read", "broken"} => at \in DOMAIN input
  /\ does \in {"calling", "validating"} => L.kind \in {"call", "inspect"}
  /\ Waiting => L.kind = "wait"

\* The clock runs in a wait only, and no sleep goes past the deadline.
ClockIsBounded ==
  /\ ~Waiting => now = 0
  /\ Waiting /\ does # "starting" => now <= Timeout
  /\ does = "sleeping" => wake <= Timeout

\* A final state on its way is the state of the job, which nothing changes any more.
ReplyIsFinal == reply \in Final => reply = job

\* Answers belong to lines that are done.
AnswersAreBehind == out \in Seq([line : Nat, result : Results]) /\ \A k \in DOMAIN out : out[k].line < at

GatewayInv == /\ TypeOK /\ PlaceMatchesLine /\ ClockIsBounded /\ ReplyIsFinal /\ AnswersAreBehind
              /\ AnsweredInOrder /\ WaitIsTruthful

-----------------------------------------------------------------------------
(* An answer.                                                              *)

\* A sequence holds what it was made of.
LEMMA ElementType ==
  ASSUME NEW S, NEW s \in Seq(S), NEW k \in DOMAIN s
  PROVE  s[k] \in S
OBVIOUS

\* The lines of answers.
LEMMA LinesType ==
  ASSUME AnswersAreBehind, NEW k \in DOMAIN out
  PROVE  out[k].line \in Nat /\ out[k].line < at
<1>1. out[k] \in [line : Nat, result : Results]
  BY ElementType DEF AnswersAreBehind
<1> QED BY <1>1 DEF AnswersAreBehind

\* Appending adds one answer, and keeps the others.
LEMMA AnswerAppends ==
  ASSUME GatewayInv, NEW result \in Results,
         out' = Append(out, [line |-> at, result |-> result])
  PROVE  /\ out' \in Seq([line : Nat, result : Results])
         /\ DOMAIN out' = DOMAIN out \cup {Len(out) + 1} /\ DOMAIN out = 1..Len(out) /\ Len(out) \in Nat
         /\ \A k \in DOMAIN out : out'[k] = out[k]
         /\ out'[Len(out) + 1].line = at /\ out'[Len(out) + 1].result = result
<1>1. at \in Nat /\ out \in Seq([line : Nat, result : Results])
  BY DEF GatewayInv, TypeOK, AnswersAreBehind
<1>2. [line |-> at, result |-> result] \in [line : Nat, result : Results]
  BY <1>1
<1> HIDE DEF Results
<1> QED BY <1>1, <1>2

\* Reply ends the line: with an answer when it needs one.
LEMMA ReplyStep ==
  ASSUME GatewayInv, NEW result \in Results, at \in DOMAIN input, L.kind \notin {"blank", "bytes"},
         Reply(result),
         L.kind = "wait" => result \in {"-32000", "-32002", "-32004", "-32010"} \/ (result = job /\ job \in Final)
  PROVE  GatewayInv'
<1> DEFINE needs == L.id \/ L.kind \in {"garbage", "shape"}
<1>1. /\ at' = at + 1 /\ does' = "read" /\ reply' = "none" /\ now' = 0 /\ wake' = 0
      /\ UNCHANGED <<input, job, lost>>
      /\ IF needs THEN out' = Append(out, [line |-> at, result |-> result]) ELSE out' = out
  BY DEF Reply, Answered
<1>2. /\ at \in Nat /\ at \in 1..Len(input) /\ input \in Seq(Line) /\ DOMAIN input = 1..Len(input)
      /\ Len(input) \in Nat
  BY DEF GatewayInv, TypeOK
<1>3. NeedsAnswer(input[at]) <=> needs
  BY DEF NeedsAnswer, L
<1>4. PlaceMatchesLine' /\ ClockIsBounded' /\ ReplyIsFinal'
  BY <1>1 DEF PlaceMatchesLine, ClockIsBounded, ReplyIsFinal, Waiting, Asking, Final
<1>5. CASE ~needs
  <2>1. out' = out
    BY <1>1, <1>5
  <2>2. TypeOK' /\ AnswersAreBehind'
    BY <1>1, <1>2, <2>1 DEF GatewayInv, TypeOK, AnswersAreBehind, Results
  <2>3. {k \in 1..at : NeedsAnswer(input[k])} = {k \in 1..(at - 1) : NeedsAnswer(input[k])}
    BY <1>2, <1>3, <1>5
  <2>4. AnsweredInOrder'
    BY <1>1, <1>2, <2>1, <2>3 DEF GatewayInv, AnsweredInOrder, NeedsAnswer
  <2>5. WaitIsTruthful'
    BY <1>1, <2>1 DEF GatewayInv, WaitIsTruthful
  <2> QED BY <1>4, <2>2, <2>4, <2>5 DEF GatewayInv
<1>6. CASE needs
  <2> DEFINE n == Len(out) + 1
  <2>1. /\ out' \in Seq([line : Nat, result : Results])
        /\ DOMAIN out' = DOMAIN out \cup {n} /\ DOMAIN out = 1..Len(out) /\ Len(out) \in Nat
        /\ \A k \in DOMAIN out : out'[k] = out[k]
        /\ out'[n].line = at /\ out'[n].result = result
    BY <1>1, <1>6, AnswerAppends
  <2>2. \A k \in DOMAIN out : out[k].line < at /\ out[k].line \in Nat
    BY LinesType DEF GatewayInv
  <2>3. AnswersAreBehind'
    BY <1>1, <1>2, <2>1, <2>2 DEF AnswersAreBehind, Results, Final
  <2>4. TypeOK'
    BY <1>1, <1>2, <2>1 DEF GatewayInv, TypeOK, Results
  <2>5. AnsweredInOrder'
    <3>1. {k \in 1..at : NeedsAnswer(input[k])} = {k \in 1..(at - 1) : NeedsAnswer(input[k])} \cup {at}
      BY <1>2, <1>3, <1>6
    <3>2. {out'[k].line : k \in DOMAIN out'} = {out[k].line : k \in DOMAIN out} \cup {at}
      BY <2>1
    <3>3. \A j, k \in DOMAIN out' : j < k => out'[j].line < out'[k].line
      BY <2>1, <2>2 DEF GatewayInv, AnsweredInOrder
    <3>4. at' - 1 = at /\ {out[k].line : k \in DOMAIN out} = {k \in 1..(at - 1) : NeedsAnswer(input[k])}
      BY <1>1, <1>2 DEF GatewayInv, AnsweredInOrder
    <3>5. {k \in 1..(at' - 1) : NeedsAnswer(input'[k])} = {k \in 1..at : NeedsAnswer(input[k])}
      BY <1>1, <3>4
    <3>6. {out'[k].line : k \in DOMAIN out'} = {k \in 1..(at' - 1) : NeedsAnswer(input'[k])}
      BY <3>1, <3>2, <3>4, <3>5
    <3> QED BY <3>3, <3>6 DEF AnsweredInOrder, NeedsAnswer
  <2>6. WaitIsTruthful'
    <3> SUFFICES ASSUME NEW k \in DOMAIN out', input[out'[k].line].kind = "wait",
                        out'[k].result \notin {"-32000", "-32002", "-32004", "-32010"}
                 PROVE  out'[k].result = job /\ job \in Final
      BY <1>1 DEF WaitIsTruthful, Final
    <3>1. CASE k \in DOMAIN out
      BY <2>1, <3>1 DEF GatewayInv, WaitIsTruthful
    <3>2. CASE k = n
      BY <2>1, <3>2 DEF L
    <3> QED BY <2>1, <3>1, <3>2
  <2> QED BY <1>4, <2>3, <2>4, <2>5, <2>6 DEF GatewayInv
<1> QED BY <1>5, <1>6

-----------------------------------------------------------------------------
(* Steps.                                                                  *)

\* What does not touch lines and answers keeps what is true of them.
LEMMA AnswersKept ==
  ASSUME GatewayInv, UNCHANGED <<input, at, job, out>>
  PROVE  AnswersAreBehind' /\ AnsweredInOrder' /\ WaitIsTruthful'
BY DEF GatewayInv, AnswersAreBehind, AnsweredInOrder, WaitIsTruthful, NeedsAnswer, Results, Final

\* Lines.
LEMMA LineStep ==
  ASSUME GatewayInv, Break \/ Blank \/ Refuse \/ Execute \/ DaemonAnswers
  PROVE  GatewayInv'
<1>1. TypeOK /\ PlaceMatchesLine /\ ClockIsBounded /\ ReplyIsFinal
  BY DEF GatewayInv
<1>2. at \in DOMAIN input => L \in Line
  BY <1>1 DEF TypeOK, L
<1>3. CASE Break
  <2>1. PlaceMatchesLine' /\ ClockIsBounded' /\ ReplyIsFinal' /\ TypeOK'
    BY <1>1, <1>3 DEF Break, PlaceMatchesLine, ClockIsBounded, ReplyIsFinal, TypeOK, Waiting, Asking, Final, Results
  <2> QED BY <1>3, <2>1, AnswersKept DEF Break, GatewayInv
<1>4. CASE Blank
  <2>1. /\ at' = at + 1 /\ UNCHANGED <<input, does, reply, now, wake, job, lost, out>>
        /\ L.kind = "blank" /\ does = "read"
        /\ at \in Nat /\ at \in 1..Len(input) /\ Len(input) \in Nat
    BY <1>1, <1>4 DEF Blank, TypeOK
  <2>2. TypeOK' /\ PlaceMatchesLine' /\ ClockIsBounded' /\ ReplyIsFinal'
    BY <1>1, <2>1 DEF PlaceMatchesLine, ClockIsBounded, ReplyIsFinal, TypeOK, Waiting, Asking, Final, Results
  <2>3. {k \in 1..at : NeedsAnswer(input[k])} = {k \in 1..(at - 1) : NeedsAnswer(input[k])}
    BY <2>1 DEF NeedsAnswer, L
  <2>4. AnsweredInOrder'
    BY <2>1, <2>3 DEF GatewayInv, AnsweredInOrder, NeedsAnswer
  <2>5. AnswersAreBehind'
    BY <2>1, LinesType DEF GatewayInv, AnswersAreBehind, Results, Final
  <2>6. WaitIsTruthful'
    BY <2>1 DEF GatewayInv, WaitIsTruthful, Final
  <2> QED BY <2>2, <2>4, <2>5, <2>6 DEF GatewayInv
<1>5. CASE Refuse
  <2>1. /\ at \in DOMAIN input /\ L.kind \in {"garbage", "shape", "id", "version", "method", "params"}
        /\ Refusal[L.kind] \in Results
    BY <1>5 DEF Refuse, Refusal, Results
  <2> QED BY <1>5, <2>1, ReplyStep DEF Refuse
<1>6. CASE Execute
  <2>1. CASE L.kind = "local" /\ Reply("ok")
    BY <1>6, <2>1, ReplyStep DEF Execute, Results
  <2>2. CASE /\ L.kind \in {"call", "inspect", "wait"}
             /\ does' = [call |-> "calling", inspect |-> "validating", wait |-> "poll"][L.kind]
             /\ UNCHANGED <<input, at, reply, now, wake, job, lost, out>>
    <3>1. /\ L.kind = "call" => does' = "calling"
          /\ L.kind = "inspect" => does' = "validating"
          /\ L.kind = "wait" => does' = "poll"
      BY <2>2
    <3>2. L' = L /\ at \in DOMAIN input /\ does = "read" /\ now = 0
      BY <1>1, <1>6, <2>2 DEF L, Execute, ClockIsBounded, Waiting, Asking
    <3>3. PlaceMatchesLine' /\ ClockIsBounded' /\ ReplyIsFinal' /\ TypeOK'
      BY <1>1, <2>2, <3>1, <3>2, GatewayAssumption
         DEF PlaceMatchesLine, ClockIsBounded, ReplyIsFinal, TypeOK, Waiting, Asking, Final, Results
    <3> QED BY <2>2, <3>3, AnswersKept DEF GatewayInv
  <2> QED BY <1>6, <2>1, <2>2 DEF Execute
<1>7. CASE DaemonAnswers
  <2>1. at \in DOMAIN input /\ L.kind \in {"call", "inspect"} /\ does \in {"calling", "validating"}
    BY <1>1, <1>7 DEF DaemonAnswers, PlaceMatchesLine
  <2>2. ASSUME NEW result \in {"ok", "-32000", "-32004", "-32009", "-32010"}, Reply(result)
        PROVE  GatewayInv'
    BY <2>1, <2>2, ReplyStep DEF Results
  <2>3. CASE /\ does = "validating" /\ does' = "calling"
             /\ UNCHANGED <<input, at, reply, now, wake, job, lost, out>>
    <3>1. L' = L /\ now = 0
      BY <1>1, <2>1, <2>3 DEF L, ClockIsBounded, Waiting, Asking
    <3>2. PlaceMatchesLine' /\ ClockIsBounded' /\ ReplyIsFinal' /\ TypeOK'
      BY <1>1, <2>1, <2>3, <3>1
         DEF PlaceMatchesLine, ClockIsBounded, ReplyIsFinal, TypeOK, Waiting, Asking, Final, Results
    <3> QED BY <2>3, <3>2, AnswersKept DEF GatewayInv
  <2> QED BY <1>7, <2>2, <2>3 DEF DaemonAnswers
<1> QED BY <1>3, <1>4, <1>5, <1>6, <1>7

\* The wait, and what passes meanwhile.
LEMMA WaitingStep ==
  ASSUME GatewayInv, WaitStep \/ LookUp \/ Tick \/ JobMoves \/ Restart
  PROVE  GatewayInv'
<1>1. TypeOK /\ PlaceMatchesLine /\ ClockIsBounded /\ ReplyIsFinal
  BY DEF GatewayInv
<1>2. Timeout \in Nat \ {0} /\ Interval \in Nat \ {0} /\ Overrun \in Nat
  BY GatewayAssumption
<1>3. now \in Nat /\ wake \in Nat
  BY <1>1 DEF TypeOK
<1>4. ASSUME Waiting, NEW result \in Results, Reply(result),
             result \in {"-32000", "-32002", "-32004", "-32010"} \/ (result = job /\ job \in Final)
      PROVE  GatewayInv'
  BY <1>1, <1>4, ReplyStep DEF PlaceMatchesLine, Waiting, Asking
<1>5. ASSUME Reply("-32002"), Waiting PROVE GatewayInv'
  BY <1>4, <1>5 DEF Results
<1>6. ASSUME UNCHANGED <<input, at, job, lost, out>>, Waiting, Waiting', now' \in Nat, wake' \in Nat,
             does' # "starting" => now' <= Timeout, does' = "sleeping" => wake' <= Timeout, ReplyIsFinal',
             reply' \in {"none", "not_found", "queued", "running"} \cup Final
      PROVE  GatewayInv'
  <2>1. L' = L
    BY <1>6 DEF L
  <2>2. PlaceMatchesLine' /\ ClockIsBounded'
    BY <1>1, <1>6, <2>1 DEF PlaceMatchesLine, ClockIsBounded, Waiting, Asking
  <2>3. TypeOK'
    BY <1>1, <1>6 DEF TypeOK, Waiting, Asking, Results, Final
  <2> QED BY <1>6, <2>2, <2>3, AnswersKept DEF GatewayInv
<1>7. CASE Poll
  BY <1>1, <1>3, <1>5, <1>6, <1>7 DEF Poll, Waiting, Asking, ClockIsBounded, ReplyIsFinal, TypeOK, Final
<1>8. CASE LookUp
  <2>1. reply' \in {"not_found", "queued", "running"} \cup Final
    BY <1>1, <1>8 DEF LookUp, TypeOK
  <2>2. ReplyIsFinal'
    BY <1>8 DEF LookUp, ReplyIsFinal, Final
  <2> QED BY <1>1, <1>3, <1>6, <1>8, <2>1, <2>2 DEF LookUp, Waiting, Asking, ClockIsBounded
<1>9. CASE Receive
  <2>1. Waiting /\ does # "starting"
    BY <1>9 DEF Receive, Waiting, Asking
  <2>2. ASSUME NEW result \in {"-32000", "-32010", "-32004"}, Reply(result) PROVE GatewayInv'
    BY <1>4, <2>1, <2>2 DEF Results
  <2>3. CASE IsTerminal(reply) /\ Reply(reply)
    BY <1>1, <1>4, <2>1, <2>3 DEF IsTerminal, ReplyIsFinal, Results
  <2>4. CASE does' = "polled" /\ reply' = "none" /\ UNCHANGED <<input, at, now, wake, job, lost, out>>
    BY <1>1, <1>3, <1>6, <2>1, <2>4 DEF Waiting, Asking, ClockIsBounded, ReplyIsFinal, Final
  <2> QED BY <1>9, <2>2, <2>3, <2>4 DEF Receive
<1>10. CASE Expire
  BY <1>5, <1>10 DEF Expire, Waiting, Asking
<1>11. CASE Sleep
  <2>1. CASE Reply("-32002")
    BY <1>5, <1>11, <2>1 DEF Sleep, Waiting, Asking
  <2>2. CASE /\ now < Timeout /\ does' = "sleeping" /\ wake' = now + Pause(Timeout - now)
             /\ UNCHANGED <<input, at, reply, now, job, lost, out>>
    <3>1. wake' \in Nat /\ wake' <= Timeout
      BY <1>2, <1>3, <2>2 DEF Pause, LesserOf
    <3> QED BY <1>1, <1>2, <1>3, <1>6, <1>11, <2>2, <3>1 DEF Sleep, Waiting, Asking, ReplyIsFinal, TypeOK, Final
  <2> QED BY <1>11, <2>1, <2>2 DEF Sleep
<1>12. CASE Wake
  BY <1>1, <1>3, <1>6, <1>12 DEF Wake, Waiting, Asking, ClockIsBounded, ReplyIsFinal, TypeOK, Final
<1>13. CASE Tick
  BY <1>1, <1>2, <1>3, <1>6, <1>13 DEF Tick, Waiting, Asking, ClockIsBounded, ReplyIsFinal, TypeOK, Final
<1>14. CASE JobMoves
  <2>1. L' = L /\ UNCHANGED <<input, at, does, reply, now, wake, lost, out>>
    BY <1>14 DEF JobMoves, L
  <2>2. job \notin Final /\ job' \in {"running"} \cup Final
    BY <1>14 DEF JobMoves
  <2>3. TypeOK' /\ PlaceMatchesLine' /\ ClockIsBounded' /\ ReplyIsFinal'
    BY <1>1, <2>1, <2>2 DEF TypeOK, PlaceMatchesLine, ClockIsBounded, ReplyIsFinal, Waiting, Asking, Results, Final
  <2>4. AnswersAreBehind' /\ AnsweredInOrder'
    BY <2>1 DEF GatewayInv, AnswersAreBehind, AnsweredInOrder, NeedsAnswer, Results, Final
  <2>5. WaitIsTruthful'
    BY <2>1, <2>2 DEF GatewayInv, WaitIsTruthful, Final
  <2> QED BY <2>3, <2>4, <2>5 DEF GatewayInv
<1>15. CASE Restart
  <2>1. TypeOK' /\ PlaceMatchesLine' /\ ClockIsBounded' /\ ReplyIsFinal'
    BY <1>1, <1>15 DEF Restart, TypeOK, PlaceMatchesLine, ClockIsBounded, ReplyIsFinal, Waiting, Asking, L, Results, Final
  <2> QED BY <1>15, <2>1, AnswersKept DEF Restart, GatewayInv
<1>16. CASE Autostart
  BY <1>1, <1>3, <1>6, <1>16 DEF Autostart, Waiting, Asking, ClockIsBounded, ReplyIsFinal, Final
<1>17. CASE Started
  <2>1. Waiting
    BY <1>17 DEF Started, Waiting
  <2>2. CASE Reply("-32000")
    BY <1>4, <2>1, <2>2 DEF Results
  <2>3. CASE Reply("-32002")
    BY <1>5, <2>1, <2>3
  <2>4. CASE /\ now < Timeout /\ does' = "retrying"
             /\ UNCHANGED <<input, at, reply, now, wake, job, lost, out>>
    <3>1. ReplyIsFinal' /\ reply' \in {"none", "not_found", "queued", "running"} \cup Final
      BY <1>1, <2>4 DEF ReplyIsFinal, TypeOK, Final
    <3>2. now' <= Timeout /\ now' \in Nat /\ wake' \in Nat /\ Waiting' /\ does' # "sleeping"
      BY <1>2, <1>3, <2>4 DEF Waiting, Asking
    <3> QED BY <1>6, <2>1, <2>4, <3>1, <3>2
  <2> QED BY <1>17, <2>2, <2>3, <2>4 DEF Started
<1>18. CASE Repeat
  BY <1>1, <1>3, <1>6, <1>18 DEF Repeat, Waiting, Asking, ClockIsBounded, ReplyIsFinal, Final
<1> QED BY <1>7, <1>8, <1>9, <1>10, <1>11, <1>12, <1>13, <1>14, <1>15, <1>16, <1>17, <1>18 DEF WaitStep

LEMMA GatewayInit == Init => GatewayInv
<1> SUFFICES ASSUME Init PROVE GatewayInv
  OBVIOUS
<1>1. input \in Seq(Line) /\ Len(input) \in Nat
  BY GatewayAssumption DEF Init
<1>2. out = <<>> /\ DOMAIN out = {} /\ out \in Seq([line : Nat, result : Results])
  BY DEF Init
<1>3. TypeOK
  <2>1. at \in 1..(Len(input) + 1)
    BY <1>1 DEF Init
  <2>2. \A k \in DOMAIN out : out[k].line \in DOMAIN input /\ out[k].result \in Results
    BY <1>2
  <2> QED BY <1>1, <2>1, <2>2 DEF Init, TypeOK, Final
<1>4. AnsweredInOrder
  BY <1>2 DEF Init, AnsweredInOrder
<1> QED BY <1>2, <1>3, <1>4, GatewayAssumption
        DEF Init, GatewayInv, PlaceMatchesLine, ClockIsBounded, ReplyIsFinal, AnswersAreBehind, WaitIsTruthful,
            Waiting, Asking, Final

LEMMA GatewayStep == GatewayInv /\ [Next]_vars => GatewayInv'
<1> SUFFICES ASSUME GatewayInv, [Next]_vars PROVE GatewayInv'
  OBVIOUS
<1>1. CASE UNCHANGED vars
  <2>1. TypeOK' /\ PlaceMatchesLine' /\ ClockIsBounded' /\ ReplyIsFinal'
    BY <1>1 DEF vars, GatewayInv, TypeOK, PlaceMatchesLine, ClockIsBounded, ReplyIsFinal, Waiting, Asking, L, Results, Final
  <2> QED BY <1>1, <2>1, AnswersKept DEF vars, GatewayInv
<1> QED BY <1>1, LineStep, WaitingStep DEF Next

LEMMA GatewayInvAlways == Spec => []GatewayInv
BY GatewayInit, GatewayStep, PTL DEF Spec

-----------------------------------------------------------------------------
(* What follows.                                                           *)

\* Every variable keeps its type (the loop of run_stdio and wait_for_job, jsonrpc.rs).
THEOREM GatewayTypes == Spec => []TypeOK
<1>1. GatewayInv => TypeOK
  BY DEF GatewayInv
<1> QED BY <1>1, GatewayInvAlways, PTL

\* However many lines there are, each that needs an answer has exactly one, in the
\* order of the lines, and no notification has any (run_stdio and handle, jsonrpc.rs).
THEOREM EveryLineIsAnsweredInOrder == Spec => []AnsweredInOrder
<1>1. GatewayInv => AnsweredInOrder
  BY DEF GatewayInv
<1> QED BY <1>1, GatewayInvAlways, PTL

\* For every timeout and interval a wait is over at its deadline, unless the call it
\* waits for is starting a daemon (wait_for_job, jsonrpc.rs).
THEOREM OnlyStartsEverOverrun == Spec => []OnlyStartsOverrun
<1>1. GatewayInv => OnlyStartsOverrun
  BY GatewayAssumption DEF GatewayInv, TypeOK, ClockIsBounded, OnlyStartsOverrun
<1> QED BY <1>1, GatewayInvAlways, PTL

\* A wait answers only the final state of the job, over restarts of the daemon and
\* with the answer to a poll on its way (wait_for_job, jsonrpc.rs).
THEOREM WaitIsAlwaysTruthful == Spec => []WaitIsTruthful
<1>1. GatewayInv => WaitIsTruthful
  BY DEF GatewayInv
<1> QED BY <1>1, GatewayInvAlways, PTL
==============================================================================
