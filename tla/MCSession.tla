----------------------------- MODULE MCSession ------------------------------
(***************************************************************************)
(* Instances of Session.  "one": a single call, with every request and,    *)
(* for each response, every change of one field of a bare and of a filled  *)
(* body, and frames of other versions.  "two": two calls at once that      *)
(* share identifiers, the C handle and the worker thread.                  *)
(***************************************************************************)
EXTENDS Session, TLC

CONSTANTS c1, c2

MCCalls == {c1, c2}

\* A message of more than one frame needs only its longest text.
MCBodyLength(m) ==
  LET text == CASE m.kind = "Config" -> m.body.document
                [] m.kind = "Error"  -> m.body.message
                [] OTHER -> ""
  IN  IF text = "limit" THEN MaxFrame ELSE IF text = "beyond" THEN MaxFrame + 1 ELSE 1

-----------------------------------------------------------------------------
(* Bodies of a table, from its fields. *)

Scalars(f) ==
  CASE f.type = "bool"   -> BOOLEAN
    [] f.type = "number" -> {0, 1, 2}
    [] f.type = "enum"   -> Known(f.of)
    [] f.type = "text"   -> {"", "a"}
    [] f.type = "rows"   -> {<<>>}

Bare(T) ==
  [n \in Fields(T) |->
     LET f == T[SlotOf(T, n)] IN
     IF f.flag # "" THEN None
     ELSE CASE f.type = "bool" -> FALSE
            [] f.type = "number" -> 0
            [] f.type = "enum" -> CHOOSE e \in Known(f.of) : \A d \in Known(f.of) : f.of[e] <= f.of[d]
            [] f.type = "text" -> IF f.required THEN "" ELSE f.absent
            [] f.type = "rows" -> <<>>]

FilledWith(Elem(_), T) ==
  [n \in Fields(T) |->
     LET f == T[SlotOf(T, n)] IN
     CASE f.type = "bool" -> TRUE
       [] f.type = "number" -> 1
       [] f.type = "enum" -> CHOOSE e \in Known(f.of) : \A d \in Known(f.of) : f.of[e] >= f.of[d]
       [] f.type = "text" -> "a"
       [] f.type = "rows" -> <<Elem(f.of)>>]

FilledLeaf(T)  == FilledWith(Bare, T)
FilledInner(T) == FilledWith(FilledLeaf, T)
Filled(T)      == FilledWith(FilledInner, T)

\* Vectors: none, each element alone, and two elements that differ.
Choices(f, Elems(_)) ==
  IF f.type = "rows"
    THEN {<<>>} \cup {<<e>> : e \in Elems(f.of)} \cup {<<Filled(f.of), Bare(f.of)>>}
    ELSE Scalars(f) \cup (IF f.flag # "" \/ (~f.required /\ f.type = "text") THEN {f.absent} ELSE {})

BodiesWith(Elems(_), T) ==
  {Bare(T), Filled(T)} \cup
  UNION {{[base EXCEPT ![n] = v] : v \in Choices(T[SlotOf(T, n)], Elems), base \in {Bare(T), Filled(T)}}
           : n \in Fields(T)}

NoElems(T)     == {}
LeafBodies(T)  == BodiesWith(NoElems, T)
InnerBodies(T) == BodiesWith(LeafBodies, T)
AllBodies(T)   == BodiesWith(InnerBodies, T)

-----------------------------------------------------------------------------
MCRequests ==
 [kind \in DOMAIN RequestPayload |->
  CASE kind = "Config" ->
         {[action |-> a, format |-> f, document |-> "a", dry_run |-> d]
            : a \in DOMAIN ConfigAction, f \in DOMAIN ConfigFormat, d \in BOOLEAN}
         \cup {[action |-> "Apply", format |-> "Auto", document |-> t, dry_run |-> FALSE]
            : t \in {"", "limit", "beyond"}}
    [] kind = "ListJobs" ->
         [state : {None} \cup DOMAIN JobState, limit : {0, 1, 100, 1001}]
    [] kind = "WifiScan" ->
         [if_index : {None, 0, 1}, refresh : BOOLEAN, timeout_ms : {0, 249, 250, 4000, 15000, 15001}]
    [] kind = "WifiStatus" -> [if_index : {None, 0, 1}]
    [] OTHER -> AllBodies(TableOf(RequestPayload, kind))]

MCResponses ==
 [kind \in DOMAIN ResponsePayload |->
  CASE kind = "DaemonStatus" ->
         {[b EXCEPT !.total_jobs = b.queued_jobs + b.running_jobs + b.succeeded_jobs + b.failed_jobs
                                     + b.rolled_back_jobs]
            : b \in AllBodies(DaemonStatusResponse)}
    [] kind = "Error" -> [code : Known(ErrorCode), message : {"", "a", "limit", "beyond"}]
    [] OTHER -> AllBodies(TableOf(ResponsePayload, kind))]

-----------------------------------------------------------------------------
(* Frames of other versions.  The lengths tell them apart. *)

\* A frame of the given payload type, with the cells of its table.
FrameOf(n, type, cells) ==
  [declared |-> n, total |-> n + 4, identifier |-> "PNET",
   envelope |-> (2 :> 9) @@ (3 :> type) @@ (4 :> cells)]

MCForeignRequests ==
  LET config(n, cells) == FrameOf(n, Payload.ConfigRequest, cells)
      ping(n) == FrameOf(n, Payload.PingRequest, <<>>)
  IN {config(1, (3 :> "a")),                                          \* all defaults left out
      config(2, (1 :> 2) @@ (3 :> "a")),                              \* dry_run left out
      config(3, (3 :> "a") @@ (4 :> FALSE)),                          \* action left out
      config(4, (1 :> 2) @@ (3 :> "a") @@ (4 :> FALSE)),
      config(5, (1 :> 2) @@ (2 :> 0) @@ (3 :> "a") @@ (4 :> TRUE)),   \* defaults written
      config(6, (1 :> 3) @@ (3 :> "a") @@ (4 :> FALSE)),              \* a newer action
      config(7, (2 :> 3) @@ (3 :> "a")),                              \* a newer format
      config(8, (1 :> 2) @@ (4 :> FALSE)),                            \* no document
      config(9, (1 :> 2) @@ (3 :> "a") @@ (4 :> FALSE) @@ (5 :> 1)),  \* a newer field
      FrameOf(10, Payload.ListJobsRequest, (1 :> TRUE) @@ (2 :> 5)),  \* a newer job state
      FrameOf(11, Payload.ListJobsRequest, (2 :> 5)),                 \* one that is not asked for
      FrameOf(12, 26, (1 :> "a")),                                    \* a newer payload
      FrameOf(13, Payload.PingResponse, (1 :> "a")),                  \* not a request
      [ping(14) EXCEPT !.envelope = (1 :> 2) @@ @],                   \* a newer protocol
      [ping(15) EXCEPT !.envelope = (1 :> 1) @@ @],
      [ping(16) EXCEPT !.envelope = (3 :> 1)],                        \* no payload
      [ping(17) EXCEPT !.envelope = (2 :> 9)],
      [ping(18) EXCEPT !.identifier = "XNET"],
      [ping(19) EXCEPT !.total = 22],
      FrameOf(20, Payload.WifiScanRequest, <<>>),
      ping(0),
      ping(MaxFrame), ping(MaxFrame + 1)}

MCForeignResponses ==
  LET adapter(n, cells) == FrameOf(n, Payload.ListAdaptersResponse, (1 :> <<cells>>))
      pong(n) == FrameOf(n, Payload.PingResponse, (1 :> "a") @@ (2 :> 1))
  IN {pong(1),
      [pong(2) EXCEPT !.envelope = (2 :> 1) @@ @],                    \* the identifier of a first call
      [pong(3) EXCEPT !.envelope = (1 :> 2) @@ (2 :> 1) @@ @],        \* a newer protocol
      [pong(4) EXCEPT !.identifier = "XNET"],
      FrameOf(5, Payload.PingResponse, (2 :> 1)),
      [adapter(6, (2 :> "a")) EXCEPT !.envelope[2] = 1],              \* an older adapter
      [adapter(7, (1 :> 1)) EXCEPT !.envelope[2] = 1],                \* one without a name
      [adapter(8, (2 :> "a") @@ (8 :> <<(2 :> 1)>>)) EXCEPT !.envelope[2] = 1],
      [FrameOf(9, Payload.JobStatusResponse, (1 :> "a") @@ (2 :> 5)) EXCEPT !.envelope[2] = 1],
      [FrameOf(10, Payload.PlanConfigResponse,
               (1 :> <<(1 :> "a") @@ (2 :> "a") @@ (3 :> "a") @@ (4 :> 4)>>)) EXCEPT !.envelope[2] = 1],
      [FrameOf(11, Payload.ErrorResponse, (2 :> "a")) EXCEPT !.envelope[2] = 1],
      [FrameOf(12, Payload.ErrorResponse, (1 :> 7) @@ (2 :> "a")) EXCEPT !.envelope[2] = 1],
      [FrameOf(13, 26, (1 :> "a")) EXCEPT !.envelope[2] = 1],
      [FrameOf(14, Payload.PingRequest, <<>>) EXCEPT !.envelope[2] = 1],
      [FrameOf(15, Payload.JobStatusResponse, (1 :> "a") @@ (9 :> 5)) EXCEPT !.envelope[2] = 1],
      pong(MaxFrame + 1)}

-----------------------------------------------------------------------------
VARIABLE instance

MCInit ==
  /\ instance \in {"one", "two"}
  /\ caller = [c \in Calls |-> IF instance = "one" /\ c = c2 THEN "gone" ELSE "idle"]
  /\ Init!2 /\ Init!3 /\ Init!4 /\ Init!5 /\ Init!6 /\ Init!7 /\ Init!8 /\ Init!9 /\ Init!10
  /\ Init!11 /\ Init!12 /\ Init!13

\* Two calls at once: a call that keeps the worker, one that does not, a shutdown, and frames.
Few(c) ==
  /\ asked'[c].kind \in {"none", "Shutdown", "ListAdapters", "JobStatus", "Config",
                           "WifiScan"}
  /\ via'[c] = "call" => asked'[c] # [kind |-> "JobStatus", body |-> [job_id |-> ""]]
                         /\ asked'[c].kind \notin {"Config", "WifiScan"}
  /\ sent'[c].declared \in {0, 1, 4, 14, 20}
  /\ computed'[c].kind \in {"none", "ShutdownAccepted", "Adapters", "JobStatus", "Validation", "Apply",
                              "WifiNetworks"}
  /\ computed'[c].kind \in {"Adapters", "JobStatus", "Validation", "Apply", "WifiNetworks"} =>
       computed'[c].body = Filled(TableOf(ResponsePayload, computed'[c].kind))
  /\ reply'[c].declared \in {0, 1, 2}

MCNext ==
  /\ \/ End
     \/ \E c \in Calls : Step(c) /\ (instance = "two" => Few(c))
  /\ UNCHANGED instance

MCSpec == MCInit /\ [][MCNext]_<<vars, instance>> /\ Fairness
=============================================================================
