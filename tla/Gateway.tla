------------------------------- MODULE Gateway -------------------------------
(***************************************************************************)
(* netplan rpc: the JSON-RPC gateway (netplan-cli/jsonrpc.rs).  It reads   *)
(* one line after the other, runs what the line asks for and writes the    *)
(* answer before it reads the next; netplan.job.wait polls the daemon for  *)
(* one job against a deadline.                                             *)
(*                                                                         *)
(* A line is a record [kind, id]: what it holds, after a byte order mark   *)
(* was dropped, and whether it carries an id.  The clock runs only during  *)
(* a wait.  A poll that finds no daemon starts one, and blocks the thread  *)
(* that would notice the deadline.  Operators with a suffix are plausible  *)
(* bugs.                                                                   *)
(***************************************************************************)
EXTENDS Integers, Sequences

CONSTANTS
  Inputs,    \* the sequences of lines an instance looks at
  Timeout,   \* timeout_ms of a wait
  Interval,  \* interval_ms of a wait
  Overrun    \* how far the clock goes beyond the deadline while a daemon is started

Kinds == {"blank",    \* nothing but white space
          "garbage",  \* no JSON
          "shape",    \* JSON that is no RpcRequest: a batch, a missing or an unknown member
          "id",       \* an id that is no string, number or null
          "version",  \* another version than 2.0
          "method",   \* an unknown method
          "params",   \* parameters that are missing, malformed or out of range
          "local",    \* discover, describe, example: no daemon needed
          "call",     \* one request to the daemon
          "inspect",  \* validate and then plan
          "wait",
          "bytes"}    \* no UTF-8
Line == [kind : Kinds, id : BOOLEAN]

ASSUME GatewayAssumption ==
  /\ Inputs \subseteq Seq(Line)
  /\ \A lines \in Inputs : \A k \in DOMAIN lines : lines[k].kind = "id" => lines[k].id
  /\ Timeout \in Nat \ {0} /\ Interval \in Nat \ {0} /\ Overrun \in Nat

VARIABLES
  input,  \* the lines on stdin
  at,     \* the line that is next, or being worked on
  does,   \* what the gateway is doing
  reply,  \* the state of the job in the daemon's answer that is on its way
  now,    \* the clock
  wake,   \* when the sleep between two polls ends
  job,    \* the state of the job that is waited for
  lost,   \* whether the daemon was restarted and forgot the job
  out     \* the answers on stdout: the line and the code or result

vars == <<input, at, does, reply, now, wake, job, lost, out>>

L == input[at]
Final == {"succeeded", "failed", "rolled_back"}
Asking  == does \in {"asking", "retrying"}
Waiting == Asking \/ does \in {"poll", "starting", "polled", "sleeping"}

-----------------------------------------------------------------------------
(* Lines and their answers.                                                *)

\* Every answer but those of lines that could not be read needs an id.
Answered_Always(result) == Append(out, [line |-> at, result |-> result])
Answered(result) ==
  IF L.id \/ L.kind \in {"garbage", "shape"}
  THEN Append(out, [line |-> at, result |-> result]) ELSE out

Reply(result) ==
  /\ out' = Answered(result)
  /\ at' = at + 1
  /\ does' = "read"
  /\ reply' = "none" /\ now' = 0 /\ wake' = 0
  /\ UNCHANGED <<input, job, lost>>

\* Bytes that are no UTF-8 end the gateway.
Break ==
  /\ does = "read" /\ at \in DOMAIN input /\ L.kind = "bytes"
  /\ does' = "broken"
  /\ UNCHANGED <<input, at, reply, now, wake, job, lost, out>>

\* A blank line is skipped.
Blank ==
  /\ does = "read" /\ at \in DOMAIN input /\ L.kind = "blank"
  /\ at' = at + 1
  /\ UNCHANGED <<input, does, reply, now, wake, job, lost, out>>

\* serde_json reads a whole RpcRequest; then handle looks at the id and the version,
\* and map_command at method and parameters.
Refusal == [garbage |-> "-32700", shape |-> "-32700", id |-> "-32600", version |-> "-32600",
            method |-> "-32601", params |-> "-32602"]

Refuse ==
  /\ does = "read" /\ at \in DOMAIN input /\ L.kind \in DOMAIN Refusal
  /\ Reply(Refusal[L.kind])

\* execute_command
Execute ==
  /\ does = "read" /\ at \in DOMAIN input
  /\ \/ L.kind = "local" /\ Reply("ok")
     \/ /\ L.kind \in {"call", "inspect", "wait"}
        /\ does' = [call |-> "calling", inspect |-> "validating", wait |-> "poll"][L.kind]
        /\ UNCHANGED <<input, at, reply, now, wake, job, lost, out>>

\* The transport fails, the daemon refuses, or it answers; nothing limits how long it
\* takes.
DaemonAnswers ==
  /\ does \in {"calling", "validating"}
  /\ \/ \E result \in {"ok", "-32000", "-32004", "-32009", "-32010"} : Reply(result)
     \/ /\ does = "validating" /\ does' = "calling"
        /\ UNCHANGED <<input, at, reply, now, wake, job, lost, out>>

-----------------------------------------------------------------------------
(* wait_for_job.  The deadline is Timeout on the clock.                    *)

Poll ==
  /\ does = "poll"
  /\ \/ now >= Timeout /\ Reply("-32002")
     \/ /\ now < Timeout
        /\ does' = "asking"
        /\ UNCHANGED <<input, at, reply, now, wake, job, lost, out>>

\* call_with_autostart: the endpoint is absent, and the daemon or the service is started
\* while the thread waits for it.
Autostart ==
  /\ does = "asking"
  /\ does' = "starting" /\ reply' = "none"
  /\ UNCHANGED <<input, at, now, wake, job, lost, out>>

\* The start fails, or the request is tried again; only then is the deadline looked at.
Started ==
  /\ does = "starting"
  /\ \/ Reply("-32000")
     \/ now >= Timeout /\ Reply("-32002")
     \/ /\ now < Timeout
        /\ does' = "retrying"
        /\ UNCHANGED <<input, at, reply, now, wake, job, lost, out>>

\* The attempt fails after the daemon looked the job up, and is repeated.
Repeat ==
  /\ does = "retrying" /\ reply # "none"
  /\ reply' = "none"
  /\ UNCHANGED <<input, at, does, now, wake, job, lost, out>>

\* The daemon looks the job up, and the answer takes its time.
LookUp ==
  /\ Asking /\ reply = "none"
  /\ reply' = IF lost THEN "not_found" ELSE job
  /\ UNCHANGED <<input, at, does, now, wake, job, lost, out>>

IsTerminal_NotQueued(state) == state # "queued"
IsTerminal(state) == state \in Final

Receive ==
  /\ Asking
  /\ \/ \E result \in {"-32000", "-32010"} : Reply(result)
     \/ reply = "not_found" /\ Reply("-32004")
     \/ IsTerminal(reply) /\ Reply(reply)
     \/ /\ reply \in {"queued", "running"} /\ ~IsTerminal(reply)
        /\ does' = "polled" /\ reply' = "none"
        /\ UNCHANGED <<input, at, now, wake, job, lost, out>>

\* tokio::time::timeout around the call.
Expire_OnlyAsleep ==
  /\ does = "sleeping" /\ now >= Timeout /\ Reply("-32002")
Expire ==
  /\ Asking /\ now >= Timeout
  /\ Reply("-32002")

LesserOf(a, b) == IF a < b THEN a ELSE b
Pause_WholeInterval(remaining) == Interval
Pause(remaining) == LesserOf(Interval, remaining)

Sleep ==
  /\ does = "polled"
  /\ \/ now >= Timeout /\ Reply("-32002")
     \/ /\ now < Timeout
        /\ does' = "sleeping"
        /\ wake' = now + Pause(Timeout - now)
        /\ UNCHANGED <<input, at, reply, now, job, lost, out>>

Wake ==
  /\ does = "sleeping" /\ now >= wake
  /\ does' = "poll"
  /\ UNCHANGED <<input, at, reply, now, wake, job, lost, out>>

\* Time passes while a call or a sleep is pending, and a timer that is due comes first;
\* no timer fires while a daemon is being started.
Tick ==
  /\ \/ Asking /\ now < Timeout
     \/ does = "starting" /\ now < Timeout + Overrun
     \/ does = "sleeping" /\ now < wake
  /\ now' = now + 1
  /\ UNCHANGED <<input, at, does, reply, wake, job, lost, out>>

\* The daemon's side: the job goes on, or a restart forgets it.
JobMoves ==
  /\ job \notin Final
  /\ job' \in {"running"} \cup Final
  /\ UNCHANGED <<input, at, does, reply, now, wake, lost, out>>

Restart ==
  /\ ~lost /\ lost' = TRUE
  /\ UNCHANGED <<input, at, does, reply, now, wake, job, out>>

-----------------------------------------------------------------------------
Init ==
  /\ input \in Inputs
  /\ at = 1 /\ does = "read" /\ reply = "none"
  /\ now = 0 /\ wake = 0
  /\ job \in {"queued", "running"} \cup Final
  /\ lost = FALSE
  /\ out = <<>>

WaitStep == Poll \/ Autostart \/ Started \/ Repeat \/ Receive \/ Expire \/ Sleep \/ Wake
Next == Break \/ Blank \/ Refuse \/ Execute \/ DaemonAnswers \/ WaitStep \/ LookUp \/ Tick
        \/ JobMoves \/ Restart

Spec == Init /\ [][Next]_vars

\* The gateway works, time passes and timers fire.  Nothing makes the daemon answer, nor
\* the start of a daemon or a job end.
FairSpec == Spec /\ WF_vars(Break \/ Blank \/ Refuse \/ Execute) /\ WF_vars(Tick)
                 /\ WF_vars(Poll \/ Expire \/ Sleep \/ Wake)

-----------------------------------------------------------------------------
(* Properties.                                                             *)

Results == {"ok", "-32000", "-32002", "-32004", "-32009", "-32010", "-32600", "-32601", "-32602", "-32700"} \cup Final

\* Every variable keeps its type.
TypeOK ==
  /\ input \in Seq(Line)
  /\ at \in 1..(Len(input) + 1)
  /\ does \in {"read", "calling", "validating", "poll", "asking", "starting", "retrying", "polled",
              "sleeping", "broken"}
  /\ reply \in {"none", "not_found", "queued", "running"} \cup Final
  /\ now \in Nat /\ wake \in Nat
  /\ job \in {"queued", "running"} \cup Final
  /\ lost \in BOOLEAN
  /\ \A k \in DOMAIN out : /\ out[k].line \in DOMAIN input
                           /\ out[k].result \in Results

\* Every line that was read, and that is no notification, has exactly one answer, in the
\* order of the lines; a notification that could be read has none, even if it failed.
NeedsAnswer(line) == line.kind # "blank" /\ (line.kind \in {"garbage", "shape"} \/ line.id)
AnsweredInOrder ==
  /\ {out[k].line : k \in DOMAIN out} = {k \in 1..(at - 1) : NeedsAnswer(input[k])}
  /\ \A j, k \in DOMAIN out : j < k => out[j].line < out[k].line

\* A wait is over at its deadline, whether it asks or sleeps; only the start of a daemon
\* takes it further.
OnlyStartsOverrun == Waiting /\ now > Timeout => does = "starting"

\* What a wait answers is the final state of the job, which nothing changes any more.
WaitIsTruthful ==
  \A k \in DOMAIN out :
    (input[out[k].line].kind = "wait" /\ out[k].result \notin {"-32000", "-32002", "-32004", "-32010"})
      => out[k].result = job /\ job \in Final

\* A wait ends, even if the daemon never answers and the job never ends: only the start
\* of a daemon that never returns can hold it.
WaitsEnd == <>[](~Waiting \/ does = "starting")
=============================================================================
