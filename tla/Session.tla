------------------------------ MODULE Session -------------------------------
(***************************************************************************)
(* Calls over the local endpoint: Client::call and the C ABI's call_frame  *)
(* on one side, handle_connection and dispatch of netpland on the other,   *)
(* one connection per call.  The daemon and the callers may end at any     *)
(* step, a call into the system may never return, and either side may be   *)
(* of another version of the schema.                                       *)
(***************************************************************************)
EXTENDS Wire, FiniteSets

CONSTANTS Calls,               \* calls of one process, which share one Client
          Requests,            \* what a caller may ask, by kind
          Responses,           \* what the platform and the registry may hold, by kind of response
          ForeignRequests,     \* frames of callers that bring their own
          ForeignResponses,    \* frames of a daemon of another version
          Workers              \* worker threads of the daemon's runtime, one per processor

IsFrame(f) == f.declared \in Nat /\ f.total \in Nat /\ DOMAIN f.envelope \subseteq Nat

HaveLengths(Kinds, Bodies) ==
  \A kind \in DOMAIN Kinds : \A b \in Bodies[kind] : BodyLength([kind |-> kind, body |-> b]) \in Nat

\* What the types of model.rs let a field hold: None only in an Option, and only names of enumerators.
Fits(f, v) ==
  /\ v = None => f.flag # "" \/ (f.type = "text" /\ f.absent = None /\ ~f.required)
  /\ f.type = "enum" /\ v # None => v \in Known(f.of)

HasType(Row(_, _), T, value) ==
  /\ value = [n \in Fields(T) |-> value[n]]
  /\ \A n \in Fields(T) :
       LET f == T[SlotOf(T, n)]
           v == value[n]
       IN  /\ Fits(f, v)
           /\ f.type = "rows" => v = [k \in DOMAIN v |-> v[k]] /\ \A k \in DOMAIN v : Row(f.of, v[k])

IsAnything(T, x)         == TRUE
HasLeafType(T, value)    == HasType(IsAnything, T, value)
HasInnerType(T, value)   == HasType(HasLeafType, T, value)
HasMessageType(T, value) == HasType(HasInnerType, T, value)

AreTyped(Kinds, Bodies) ==
  \A kind \in DOMAIN Kinds : \A b \in Bodies[kind] : HasMessageType(TableOf(Kinds, kind), b)

ASSUME SessionAssumption ==
  /\ Workers \in Nat \ {0} /\ MaxFrame \in Nat \ {0}
  /\ None \notin Nat /\ None \notin BOOLEAN /\ None \notin DOMAIN ConfigAction /\ None \notin Calls
  /\ HaveLengths(RequestPayload, Requests) /\ HaveLengths(ResponsePayload, Responses)
  /\ AreTyped(RequestPayload, Requests) /\ AreTyped(ResponsePayload, Responses)
  /\ \A f \in ForeignRequests \cup ForeignResponses : IsFrame(f)

VARIABLES
  caller,    \* where the caller's side of each call is
  server,    \* where the daemon's side of its connection is
  via,       \* how it was made: "call", "frame" (C ABI), "peer" (a client of another version)
  id,        \* its correlation identifier
  asked,     \* the request the caller means
  sent,      \* the frame on its way to the daemon
  ran,       \* the request dispatch() was given
  computed,  \* the response it computed
  reply,     \* the frame on its way back
  got,       \* the response the caller was given
  nextId,    \* Client.next_request_id
  handle,    \* the call that holds the runtime of the C handle
  daemon     \* "serving", "stopping", "ended", or "foreign": another version answers

vars == <<caller, server, via, id, asked, sent, ran, computed, reply, got, nextId, handle, daemon>>

NoMessage == [kind |-> "none", body |-> <<>>]
NoFrame   == [declared |-> 0, total |-> 0, identifier |-> "", envelope |-> <<>>]

Init ==
  /\ caller = [c \in Calls |-> "idle"]
  /\ server = [c \in Calls |-> "none"]
  /\ via = [c \in Calls |-> "none"]
  /\ id = [c \in Calls |-> 0]
  /\ asked = [c \in Calls |-> NoMessage]
  /\ sent = [c \in Calls |-> NoFrame]
  /\ ran = [c \in Calls |-> NoMessage]
  /\ computed = [c \in Calls |-> NoMessage]
  /\ reply = [c \in Calls |-> NoFrame]
  /\ got = [c \in Calls |-> NoMessage]
  /\ nextId = 1
  /\ handle = None
  /\ daemon \in {"serving", "foreign"}

-----------------------------------------------------------------------------
(* What dispatch() may answer. *)

Error(r, codes) == r.kind = "Error" /\ r.body.code \in codes

\* platform_error_code: what a PlatformError can turn into.
PlatformCodes == {"InvalidConfig", "Unsupported", "PermissionDenied", "NotFound", "Internal"}

\* limit of list_jobs(): 0 asks for the default.
JobLimit(limit) == IF limit = 0 THEN 100 ELSE IF limit > 1000 THEN 1000 ELSE limit

IsJobList(q, b) ==
  /\ Len(b.jobs) <= JobLimit(q.limit) /\ Len(b.jobs) <= b.total
  /\ Len(b.jobs) < b.total => Len(b.jobs) = JobLimit(q.limit)
  /\ \A k \in DOMAIN b.jobs : q.state # None => b.jobs[k].state = q.state
  /\ \A j, k \in DOMAIN b.jobs :
       j < k => b.jobs[j].created_at_unix_ms >= b.jobs[k].created_at_unix_ms

IsStatus(b) ==
  /\ b.protocol_version = PROTOCOL_VERSION
  /\ b.total_jobs = b.queued_jobs + b.running_jobs + b.succeeded_jobs + b.failed_jobs
                      + b.rolled_back_jobs

ConfigAnswer(q, r) ==
  CASE q.action = "Validate" ->
         r.kind = "Validation" /\ IF r.body.valid THEN r.body.issues = <<>>
                                  ELSE Len(r.body.issues) = 1 /\ r.body.issues[1].path = None
    [] q.action = "Plan" -> r.kind = "Plan" \/ Error(r, {"InvalidConfig"})
    [] q.action = "Apply" ->
         \/ r.kind = "Apply" /\ r.body.state = (IF q.dry_run THEN "Succeeded" ELSE "Running")
         \/ Error(r, IF q.dry_run THEN {"InvalidConfig"} ELSE PlatformCodes)

\* m answers r: the arms of dispatch().
Answers(m, r) ==
  LET q == m.body IN
  CASE m.kind = "Ping" -> r.kind = "Pong" /\ r.body.protocol_version = PROTOCOL_VERSION
    [] m.kind = "DaemonStatus" -> r.kind = "DaemonStatus" /\ IsStatus(r.body)
    [] m.kind = "Capabilities" -> r.kind = "Capabilities"
    [] m.kind = "ListAdapters" -> r.kind = "Adapters" \/ Error(r, {"Internal"})
    [] m.kind = "Config" -> ConfigAnswer(q, r)
    [] m.kind = "JobStatus" ->
         (r.kind = "JobStatus" /\ r.body.job_id = q.job_id) \/ Error(r, {"NotFound"})
    [] m.kind = "ListJobs" -> r.kind = "Jobs" /\ IsJobList(q, r.body)
    [] m.kind = "NetworkStatus" ->
         \/ r.kind = "NetworkStatus" /\ (r.body.wifi_error # None => r.body.wifi_interfaces = <<>>)
         \/ Error(r, {"Internal"})
    [] m.kind = "WifiStatus" -> r.kind = "WifiStatus" \/ Error(r, PlatformCodes)
    [] m.kind = "WifiScan" -> IF q.timeout_ms \in 250..15000
                                THEN r.kind = "WifiNetworks" \/ Error(r, PlatformCodes)
                                ELSE Error(r, {"InvalidRequest"})
    [] m.kind = "Shutdown" -> r.kind = "ShutdownAccepted"

\* dispatch() calls the platform on the worker thread itself, except for a scan.
HoldsWorker(m) ==
  \/ m.kind \in {"Capabilities", "ListAdapters", "NetworkStatus", "WifiStatus"}
  \/ m.kind = "Config" /\ m.body.action = "Apply" /\ ~m.body.dry_run

\* Such a call, and a scan, lasts as long as the system takes.
MayHang(m) == HoldsWorker(m) \/ (m.kind = "WifiScan" /\ m.body.timeout_ms \in 250..15000)

FreeWorker == Cardinality({c \in Calls : server[c] = "running" /\ HoldsWorker(ran[c])}) < Workers

-----------------------------------------------------------------------------
(* The caller. *)

\* Client::call takes an identifier and encodes the request.
Call(c) ==
  \E kind \in DOMAIN RequestPayload : \E b \in Requests[kind] :
    LET m == [kind |-> kind, body |-> b] IN
    /\ caller[c] = "idle"
    /\ caller' = [caller EXCEPT ![c] = "encoded"]
    /\ via' = [via EXCEPT ![c] = "call"]
    /\ id' = [id EXCEPT ![c] = nextId]
    /\ nextId' = nextId + 1
    /\ asked' = [asked EXCEPT ![c] = m]
    /\ sent' = [sent EXCEPT ![c] = EncodeRequest(nextId, m)]
    /\ UNCHANGED <<server, ran, computed, reply, got, handle, daemon>>

\* netplan_client_call waits for the runtime of its handle.
CallHandle(c) ==
  /\ caller[c] = "idle"
  /\ \E f \in ForeignRequests : sent' = [sent EXCEPT ![c] = f]
  /\ caller' = [caller EXCEPT ![c] = "queued"]
  /\ via' = [via EXCEPT ![c] = "frame"]
  /\ UNCHANGED <<server, id, asked, ran, computed, reply, got, nextId, handle, daemon>>

\* call_frame: the frame of a C caller is verified before anything is sent.
CallFrame(c) ==
  /\ caller[c] = "queued" /\ handle = None
  /\ IF IsRequest(sent[c])
       THEN /\ caller' = [caller EXCEPT ![c] = "encoded"]
            /\ handle' = c
            /\ asked' = [asked EXCEPT ![c] = RequestIn(sent[c])]
       ELSE /\ caller' = [caller EXCEPT ![c] = "failed"]
            /\ UNCHANGED <<handle, asked>>
  /\ UNCHANGED <<server, via, id, sent, ran, computed, reply, got, nextId, daemon>>

\* A client of another version of the schema writes its frame itself.
PeerCall(c) ==
  /\ caller[c] = "idle" /\ daemon = "serving"
  /\ \E f \in ForeignRequests :
       /\ ValidFrameLength(f)
       /\ sent' = [sent EXCEPT ![c] = f]
  /\ caller' = [caller EXCEPT ![c] = "waiting"]
  /\ server' = [server EXCEPT ![c] = "connected"]
  /\ via' = [via EXCEPT ![c] = "peer"]
  /\ UNCHANGED <<id, asked, ran, computed, reply, got, nextId, handle, daemon>>

\* Mutant of Return: a failed call keeps the handle.
Return_KeepsHandle(c, how) ==
  /\ caller' = [caller EXCEPT ![c] = how]
  /\ handle' = IF handle = c /\ how = "answered" THEN None ELSE handle

\* Returning from a call gives the handle back.
Return(c, how) ==
  /\ caller' = [caller EXCEPT ![c] = how]
  /\ handle' = IF handle = c THEN None ELSE handle

\* call_endpoint: connect, then write_frame.
Send(c) ==
  /\ caller[c] = "encoded"
  /\ IF daemon \in {"serving", "foreign"} /\ ValidFrameLength(sent[c])
       THEN /\ caller' = [caller EXCEPT ![c] = "waiting"]
            /\ server' = [server EXCEPT ![c] = "connected"]
            /\ UNCHANGED handle
       ELSE Return(c, "failed") /\ UNCHANGED server
  /\ UNCHANGED <<via, id, asked, sent, ran, computed, reply, got, nextId, daemon>>

\* read_frame and decode_response; only Client::call compares the identifiers.
Receive(c) ==
  /\ caller[c] = "waiting" /\ server[c] = "replied" /\ via[c] # "peer"
  /\ IF ReadableLength(reply[c]) /\ IsResponse(reply[c])
          /\ (via[c] = "call" => IdIn(reply[c]) = id[c])
       THEN Return(c, "answered") /\ got' = [got EXCEPT ![c] = ResponseIn(reply[c])]
       ELSE Return(c, "failed") /\ UNCHANGED got
  /\ UNCHANGED <<server, via, id, asked, sent, ran, computed, reply, nextId, daemon>>

\* The connection ends before a whole frame has come.
LoseConnection(c) ==
  /\ caller[c] = "waiting" /\ server[c] = "closed" /\ via[c] # "peer"
  /\ Return(c, "failed")
  /\ UNCHANGED <<server, via, id, asked, sent, ran, computed, reply, got, nextId, daemon>>

\* The future of Client::call is dropped: job.wait at its deadline, a program that ends.
Abandon(c) ==
  /\ caller[c] \in {"encoded", "waiting"} /\ via[c] # "frame"
  /\ caller' = [caller EXCEPT ![c] = "gone"]
  /\ UNCHANGED <<server, via, id, asked, sent, ran, computed, reply, got, nextId, handle, daemon>>

-----------------------------------------------------------------------------
(* The daemon: handle_connection. *)

Alive == daemon \in {"serving", "stopping"}

\* read_frame and decode_request; a connection whose frame is refused is closed without an answer.
ReadRequest(c) ==
  /\ Alive /\ server[c] = "connected" /\ FreeWorker
  /\ IF ReadableLength(sent[c]) /\ IsRequest(sent[c])
       THEN /\ server' = [server EXCEPT ![c] = "running"]
            /\ ran' = [ran EXCEPT ![c] = RequestIn(sent[c])]
       ELSE /\ server' = [server EXCEPT ![c] = "closed"]
            /\ UNCHANGED ran
  /\ UNCHANGED <<caller, via, id, asked, sent, computed, reply, got, nextId, handle, daemon>>

\* dispatch() returns.
Dispatch(c) ==
  /\ Alive /\ server[c] = "running"
  /\ HoldsWorker(ran[c]) \/ FreeWorker
  /\ server' = [server EXCEPT ![c] = "computed"]
  /\ \E kind \in DOMAIN ResponsePayload : \E b \in Responses[kind] :
       LET r == [kind |-> kind, body |-> b] IN
       computed' = [computed EXCEPT ![c] = r] /\ Answers(ran[c], r)
  /\ UNCHANGED <<caller, via, id, asked, sent, ran, reply, got, nextId, handle, daemon>>

\* encode_response and write_frame; only an acknowledged shutdown is requested.
WriteResponse(c) ==
  LET f == EncodeResponse(IdIn(sent[c]), computed[c]) IN
  /\ Alive /\ server[c] = "computed" /\ FreeWorker
  /\ IF ValidFrameLength(f) /\ caller[c] # "gone"
       THEN /\ server' = [server EXCEPT ![c] = "replied"]
            /\ reply' = [reply EXCEPT ![c] = f]
            /\ daemon' = IF ran[c].kind = "Shutdown" THEN "stopping" ELSE daemon
       ELSE /\ server' = [server EXCEPT ![c] = "closed"]
            /\ UNCHANGED <<reply, daemon>>
  /\ UNCHANGED <<caller, via, id, asked, sent, ran, computed, got, nextId, handle>>

\* The process ends, asked to or not: connections without a whole reply are cut.
End ==
  /\ daemon # "ended"
  /\ daemon' = "ended"
  /\ server' = [c \in Calls |-> IF server[c] \in {"none", "replied"} THEN server[c] ELSE "closed"]
  /\ UNCHANGED <<caller, via, id, asked, sent, ran, computed, reply, got, nextId, handle>>

\* A daemon of another version answers, or closes the connection.
ForeignAnswer(c) ==
  /\ daemon = "foreign" /\ server[c] = "connected"
  /\ \/ server' = [server EXCEPT ![c] = "closed"] /\ UNCHANGED reply
     \/ /\ server' = [server EXCEPT ![c] = "replied"]
        /\ \E f \in ForeignResponses : reply' = [reply EXCEPT ![c] = f]
  /\ UNCHANGED <<caller, via, id, asked, sent, ran, computed, got, nextId, handle, daemon>>

-----------------------------------------------------------------------------
Step(c) ==
  \/ Call(c) \/ CallHandle(c) \/ CallFrame(c) \/ PeerCall(c) \/ Send(c) \/ Receive(c)
  \/ LoseConnection(c) \/ Abandon(c) \/ ReadRequest(c) \/ Dispatch(c) \/ WriteResponse(c)
  \/ ForeignAnswer(c)

Next == End \/ \E c \in Calls : Step(c)

Spec == Init /\ [][Next]_vars

CallerPlaces == {"idle", "queued", "encoded", "waiting", "answered", "failed", "gone"}
ServerPlaces == {"none", "connected", "running", "computed", "replied", "closed"}

\* The caller can go on with its call: it has the handle, a frame to send, or a reply to take.
CallerDue(c) ==
  \/ caller[c] = "queued" /\ handle = None
  \/ caller[c] = "encoded"
  \/ caller[c] = "waiting" /\ server[c] \in {"replied", "closed"} /\ via[c] # "peer"

\* The daemon can go on with the connection; from inside the system it may never come back.
ServerDue(c) ==
  \/ Alive /\ FreeWorker /\ server[c] \in {"connected", "computed"}
  \/ Alive /\ FreeWorker /\ server[c] = "running" /\ ~MayHang(ran[c])
  \/ daemon = "foreign" /\ server[c] = "connected"

(* What the code keeps doing: a caller and the daemon leave the place they *)
(* are in when they can, and a daemon asked to stop ends.                  *)
Fairness ==
  /\ \A c \in Calls :
       /\ WF_caller(CallerDue(c) /\ \E p \in CallerPlaces : caller' = [caller EXCEPT ![c] = p])
       /\ WF_server(ServerDue(c) /\ \E p \in ServerPlaces : server' = [server EXCEPT ![c] = p])
  /\ WF_daemon(daemon = "stopping" /\ daemon' = "ended")

FairSpec == Spec /\ Fairness

-----------------------------------------------------------------------------
(* Properties. *)

\* Every side of every call is in a place the code has, with a frame once it has been sent.
TypeOK ==
  /\ caller \in [Calls -> CallerPlaces]
  /\ server \in [Calls -> ServerPlaces]
  /\ via \in [Calls -> {"none", "call", "frame", "peer"}]
  /\ id \in [Calls -> Nat] /\ nextId \in Nat
  /\ \A c \in Calls : IsFrame(sent[c]) /\ IsFrame(reply[c])
  /\ handle \in Calls \cup {None}
  /\ daemon \in {"serving", "stopping", "ended", "foreign"}

(* Whoever is answered by this daemon, over whichever of the two clients,  *)
(* is given what dispatch() computed, and dispatch() computed it for the   *)
(* request the caller meant: nothing is lost, defaulted or taken for       *)
(* another value on either way, and no answer goes to another call.        *)
AnswersAreOwn ==
  \A c \in Calls :
    /\ server[c] \in {"running", "computed", "replied"} /\ ran[c] # NoMessage /\ via[c] # "peer"
         => ran[c] = asked[c]
    /\ caller[c] = "answered" /\ ran[c] # NoMessage
         => got[c] = computed[c] /\ Answers(asked[c], got[c])

(* A live apply runs only for a frame that says so in so many words: its   *)
(* action and its dry_run are both written, so a client that leaves either *)
(* out, of whichever version, gets a validation or a dry run.              *)
LiveOnlyWhenSaid ==
  \A c \in Calls :
    ran[c].kind = "Config" /\ ran[c].body.action = "Apply" /\ ran[c].body.dry_run = FALSE =>
      LET cells == sent[c].envelope[4]
      IN  {1, 4} \subseteq DOMAIN cells /\ cells[1] = ConfigAction.Apply /\ cells[4] = FALSE

(* What one side's write_frame lets out, the other side's read_frame takes *)
(* in: no message is long enough to be sent and too long to be read.       *)
LimitsAgree ==
  \A c \in Calls :
    /\ server[c] # "none" => ReadableLength(sent[c])
    /\ server[c] = "replied" /\ ran[c] # NoMessage => ReadableLength(reply[c])

\* The bytes of an enumeration a table's cells hold are all in this version's schema.
KnowsBytes(T, cells) ==
  \A i \in 1..Len(T) :
    T[i].type = "enum" /\ i \in DOMAIN cells /\ (T[i].flag = "" \/ Read(T, cells, T[i].flag))
      => \E n \in DOMAIN T[i].of : T[i].of[n] = cells[i]

Understood(Kinds, f) ==
  /\ 1 \in DOMAIN f.envelope => f.envelope[1] = PROTOCOL_VERSION
  /\ \E kind \in DOMAIN Kinds : Payload[Kinds[kind]] = f.envelope[3]
                                /\ KnowsBytes(TableOf(Kinds, kind), f.envelope[4])

(* What another version of the schema sends is acted on only when both     *)
(* mean the same by it: no newer enumerator, payload or protocol version   *)
(* is taken for one this version knows.                                    *)
UnderstoodOrRefused ==
  \A c \in Calls :
    /\ ran[c] # NoMessage => Understood(RequestPayload, sent[c])
    /\ caller[c] = "answered" => Understood(ResponsePayload, reply[c])

Ended(c) == caller[c] \in {"answered", "failed", "gone"}

(* A call ends, however the daemon ends, unless a call into the system     *)
(* never returns: its own, one that keeps the last worker thread, or the   *)
(* one whose caller holds the C handle.                                    *)
CallsEnd ==
  \A c \in Calls :
    caller[c] \in {"queued", "encoded", "waiting"} /\ via[c] # "peer"
      ~> \/ Ended(c)
         \/ \E d \in Calls : [](server[d] = "running" /\ MayHang(ran[d])
                                /\ (d = c \/ ~FreeWorker \/ handle = d))
=============================================================================
