-------------------------------- MODULE Wire --------------------------------
(***************************************************************************)
(* The frames netplan clients and netpland exchange: the tables of the     *)
(* schema, the FlatBuffers rules that decide which slots of a table are on *)
(* the wire and what an absent slot reads as, and the typed messages of    *)
(* protocol/mod.rs on top of them.                                         *)
(*                                                                         *)
(* A table is the sequence of its fields in slot order: field i owns the   *)
(* vtable entry VT = 4 + 2(i - 1).  A table on the wire is a function from *)
(* the slots that were written to their contents.  Strings, byte vectors   *)
(* and numbers are opaque values; positions inside a buffer are left out.  *)
(***************************************************************************)
EXTENDS Naturals, Sequences

CONSTANTS None,            \* an absent string, vector or Option
          MaxFrame,        \* MAX_FRAME_SIZE
          BodyLength(_)    \* the bytes a message takes after its length prefix

-----------------------------------------------------------------------------
(* Fields.  default: what an absent slot reads as, never written.          *)
(* required: the verifier refuses a table without the slot.  of: the table *)
(* of a vector's elements, or the bytes of an enumeration.  flag: the      *)
(* field that says whether this one is there, when the typed message has   *)
(* an Option of a scalar.  absent: what the typed message has for None.    *)

Field(n, t, d) == [name |-> n, type |-> t, default |-> d, required |-> FALSE,
                   of |-> <<>>, flag |-> "", absent |-> None]

Bool(n, d)      == Field(n, "bool", d)
Number(n, d)    == Field(n, "number", d)
Enum(n, E)      == [Field(n, "enum", 0) EXCEPT !.of = E]
OptText(n)      == Field(n, "text", None)
Text(n)         == [OptText(n) EXCEPT !.required = TRUE]
OptRows(n, T)   == [Field(n, "rows", None) EXCEPT !.of = T, !.absent = <<>>]
Rows(n, T)      == [OptRows(n, T) EXCEPT !.required = TRUE]
Given(f, has)   == [f EXCEPT !.flag = has]

-----------------------------------------------------------------------------
(* Enumerations: the byte of every name. *)

ErrorCode == [None |-> 0, InvalidRequest |-> 1, InvalidConfig |-> 2, Unsupported |-> 3,
              PermissionDenied |-> 4, NotFound |-> 5, Internal |-> 6]

CapabilityState == [Unavailable |-> 0, ReadOnly |-> 1, DryRun |-> 2, Available |-> 3]

ConfigFormat == [Auto |-> 0, Yaml |-> 1, Json |-> 2]

ConfigAction == [Validate |-> 0, Plan |-> 1, Apply |-> 2]

OperationRisk == [ReadOnly |-> 0, Low |-> 1, Connectivity |-> 2, Destructive |-> 3]

JobState == [Queued |-> 0, Running |-> 1, Succeeded |-> 2, Failed |-> 3, RolledBack |-> 4]

\* The union discriminators.  NONE is 0.
Payload ==
  [PingRequest |-> 1, PingResponse |-> 2, CapabilitiesRequest |-> 3, CapabilitiesResponse |-> 4,
   ListAdaptersRequest |-> 5, ListAdaptersResponse |-> 6, ConfigRequest |-> 7,
   ValidateConfigResponse |-> 8, PlanConfigResponse |-> 9, ApplyConfigResponse |-> 10,
   JobStatusRequest |-> 11, JobStatusResponse |-> 12, ErrorResponse |-> 13,
   DaemonStatusRequest |-> 14, DaemonStatusResponse |-> 15, ListJobsRequest |-> 16,
   ListJobsResponse |-> 17, NetworkStatusRequest |-> 18, NetworkStatusResponse |-> 19,
   WifiStatusRequest |-> 20, WifiStatusResponse |-> 21, WifiScanRequest |-> 22,
   WifiScanResponse |-> 23, ShutdownRequest |-> 24, ShutdownResponse |-> 25]

-----------------------------------------------------------------------------
(* Tables. *)

PingRequest == <<>>

PingResponse == <<Text("daemon_version"), Number("protocol_version", 0)>>

CapabilitiesRequest == <<>>

Capability == <<Text("name"), Enum("state", CapabilityState), OptText("reason")>>

CapabilitiesResponse == <<Rows("capabilities", Capability)>>

ListAdaptersRequest == <<>>

IpAddress == <<Text("address"), Number("prefix_length", 0)>>

Adapter ==
  <<Number("if_index", 0), Text("name"), OptText("description"), OptText("guid"),
    OptText("mac_address"), [OptText("status") EXCEPT !.absent = "unknown"],
    Bool("hardware", FALSE), OptRows("ipv4", IpAddress), OptRows("ipv6", IpAddress)>>

ListAdaptersResponse == <<Rows("adapters", Adapter)>>

\* Mutant of ConfigRequest: a frame without dry_run asks for a live apply.
ConfigRequest_LiveByDefault ==
  <<Enum("action", ConfigAction), Enum("format", ConfigFormat), Text("document"),
    Bool("dry_run", FALSE)>>

ConfigRequest ==
  <<Enum("action", ConfigAction), Enum("format", ConfigFormat), Text("document"),
    Bool("dry_run", TRUE)>>

ValidationIssue == <<OptText("path"), Text("message")>>

ValidateConfigResponse == <<Bool("valid", FALSE), Rows("issues", ValidationIssue)>>

Operation ==
  <<Text("id"), Text("capability"), Text("summary"), Enum("risk", OperationRisk),
    OptText("target")>>

PlanConfigResponse == <<Rows("operations", Operation)>>

ApplyConfigResponse == <<Text("job_id"), Enum("state", JobState), Rows("operations", Operation)>>

JobStatusRequest == <<Text("job_id")>>

JobStatusResponse == <<Text("job_id"), Enum("state", JobState), OptText("message")>>

DaemonStatusRequest == <<>>

DaemonStatusResponse ==
  <<Text("daemon_version"), Number("protocol_version", 0), Number("started_at_unix_ms", 0),
    Number("uptime_ms", 0), Number("total_jobs", 0), Number("queued_jobs", 0),
    Number("running_jobs", 0), Number("succeeded_jobs", 0), Number("failed_jobs", 0),
    Number("rolled_back_jobs", 0)>>

ListJobsRequest ==
  <<Bool("has_state", FALSE), Given(Enum("state", JobState), "has_state"), Number("limit", 100)>>

JobSummary ==
  <<Text("job_id"), Enum("state", JobState), OptText("message"),
    Number("created_at_unix_ms", 0), Number("updated_at_unix_ms", 0)>>

ListJobsResponse == <<Rows("jobs", JobSummary), Number("total", 0)>>

NetworkStatusRequest == <<>>

WifiStatusRequest ==
  <<Bool("has_if_index", FALSE), Given(Number("if_index", 0), "has_if_index")>>

WifiScanRequest ==
  <<Bool("has_if_index", FALSE), Given(Number("if_index", 0), "has_if_index"),
    Bool("refresh", TRUE), Number("timeout_ms", 4000)>>

WifiInterfaceStatus ==
  <<Number("if_index", 0), Text("name"), OptText("guid"), Text("state"),
    OptText("profile_name"), OptText("ssid"), OptText("ssid_hex"),
    Bool("has_signal_quality", FALSE), Given(Number("signal_quality", 0), "has_signal_quality"),
    Bool("has_security_enabled", FALSE),
    Given(Bool("security_enabled", FALSE), "has_security_enabled"),
    OptText("authentication"), OptText("cipher"),
    Bool("has_rx_rate_kbps", FALSE), Given(Number("rx_rate_kbps", 0), "has_rx_rate_kbps"),
    Bool("has_tx_rate_kbps", FALSE), Given(Number("tx_rate_kbps", 0), "has_tx_rate_kbps")>>

WifiNetwork ==
  <<Number("interface_if_index", 0), Text("interface_name"), Text("ssid"), Text("ssid_hex"),
    OptText("profile_name"), Number("signal_quality", 0), Bool("security_enabled", FALSE),
    Text("authentication"), Text("cipher"), Bool("connectable", FALSE),
    Bool("has_not_connectable_reason", FALSE),
    Given(Number("not_connectable_reason", 0), "has_not_connectable_reason"),
    Bool("connected", FALSE), Number("bss_count", 0)>>

NetworkStatusResponse ==
  <<Number("captured_at_unix_ms", 0), Rows("adapters", Adapter),
    Rows("wifi_interfaces", WifiInterfaceStatus), OptText("wifi_error")>>

WifiStatusResponse == <<Rows("interfaces", WifiInterfaceStatus)>>

WifiScanResponse == <<Bool("refreshed", FALSE), Rows("networks", WifiNetwork)>>

ShutdownRequest == <<>>

ShutdownResponse == <<>>

ErrorResponse == <<Enum("code", ErrorCode), Text("message")>>

\* The table a discriminator stands for.
PayloadTable ==
  [PingRequest |-> PingRequest, PingResponse |-> PingResponse,
   CapabilitiesRequest |-> CapabilitiesRequest, CapabilitiesResponse |-> CapabilitiesResponse,
   ListAdaptersRequest |-> ListAdaptersRequest, ListAdaptersResponse |-> ListAdaptersResponse,
   ConfigRequest |-> ConfigRequest, ValidateConfigResponse |-> ValidateConfigResponse,
   PlanConfigResponse |-> PlanConfigResponse, ApplyConfigResponse |-> ApplyConfigResponse,
   JobStatusRequest |-> JobStatusRequest, JobStatusResponse |-> JobStatusResponse,
   ErrorResponse |-> ErrorResponse, DaemonStatusRequest |-> DaemonStatusRequest,
   DaemonStatusResponse |-> DaemonStatusResponse, ListJobsRequest |-> ListJobsRequest,
   ListJobsResponse |-> ListJobsResponse, NetworkStatusRequest |-> NetworkStatusRequest,
   NetworkStatusResponse |-> NetworkStatusResponse, WifiStatusRequest |-> WifiStatusRequest,
   WifiStatusResponse |-> WifiStatusResponse, WifiScanRequest |-> WifiScanRequest,
   WifiScanResponse |-> WifiScanResponse, ShutdownRequest |-> ShutdownRequest,
   ShutdownResponse |-> ShutdownResponse]

\* The envelope.  Its payload is a table of its own, always written.
Envelope ==
  <<Number("protocol_version", 1), Number("request_id", 0), Number("payload_type", 0),
    Field("payload", "table", None)>>

-----------------------------------------------------------------------------
(* Typed values and cells.  The structures of model.rs, plan.rs and        *)
(* protocol/mod.rs have no has_ fields, names in place of bytes, and None  *)
(* where a flag is cleared.  The cells of a table are the slots that were  *)
(* written, each with its contents.                                        *)

Names(T) == {T[i].name : i \in 1..Len(T)}
Flags(T) == {T[i].flag : i \in 1..Len(T)}

\* The fields of the typed value.
Fields(T) == Names(T) \ Flags(T)

\* The slot of a name.
SlotOf(T, n) == CHOOSE i \in 1..Len(T) : T[i].name = n

\* The field a flag speaks of.
FlaggedBy(T, has) == T[CHOOSE i \in 1..Len(T) : T[i].flag = has].name

\* The enumerators typed values have: all but ErrorCode::None.
Known(E) == DOMAIN E \ {"None"}

IsKnown(E, byte) == \E n \in Known(E) : E[n] = byte
NameOf(E, byte)  == CHOOSE n \in Known(E) : E[n] = byte

\* What goes into the slot of n: is_some() for a flag, unwrap_or_default() for an Option.
WireValue(T, value, n) ==
  LET f == T[SlotOf(T, n)] IN
  IF n \in Flags(T) THEN value[FlaggedBy(T, n)] # None
  ELSE IF value[n] = None THEN f.default
  ELSE IF f.type = "enum" THEN f.of[value[n]] ELSE value[n]

\* push_slot leaves a slot out when it would hold its default.
Written(T, value) == {i \in 1..Len(T) : WireValue(T, value, T[i].name) # T[i].default}

\* An accessor: the contents of the slot, or the default.  Slots the table does not have are not read.
Read(T, cells, n) ==
  LET i == SlotOf(T, n) IN IF i \in DOMAIN cells THEN cells[i] ELSE T[i].default

\* Mutant of IsGiven: the flag is not read, so a given 0 or FALSE is absent.
IsGiven_BySlot(T, cells, n) == Read(T, cells, n) # T[SlotOf(T, n)].default \/ T[SlotOf(T, n)].flag = ""

\* A flag says whether its field is there; without one, a field without a default is there when its slot is.
IsGiven(T, cells, n) ==
  LET i == SlotOf(T, n)
  IN  IF T[i].flag # "" THEN Read(T, cells, T[i].flag) ELSE T[i].default # None \/ i \in DOMAIN cells

TypedValue(T, cells, n) ==
  LET f == T[SlotOf(T, n)] IN
  IF ~IsGiven(T, cells, n) THEN f.absent
  ELSE IF f.type = "enum" THEN NameOf(f.of, Read(T, cells, n)) ELSE Read(T, cells, n)

\* Every byte a typed value takes its name from is the byte of a known enumerator.
HasKnownBytes(T, cells) ==
  \A i \in 1..Len(T) :
    T[i].type = "enum" /\ IsGiven(T, cells, T[i].name) =>
      IsKnown(T[i].of, Read(T, cells, T[i].name))

\* The verifier wants every required slot.
HasRequired(T, cells) == \A i \in 1..Len(T) : T[i].required => i \in DOMAIN cells

-----------------------------------------------------------------------------
(* Tables with their vectors.  Elem does the same for the elements; tables *)
(* nest at most twice below a payload (the addresses of an adapter).       *)

EncodeWith(Elem(_, _), T, value) ==
  [i \in Written(T, value) |->
     LET v == WireValue(T, value, T[i].name)
     IN  IF T[i].type = "rows" THEN [k \in DOMAIN v |-> Elem(T[i].of, v[k])] ELSE v]

DecodeWith(Elem(_, _), T, cells) ==
  [n \in Fields(T) |->
     LET f == T[SlotOf(T, n)]
         v == TypedValue(T, cells, n)
     IN  IF f.type = "rows" THEN [k \in DOMAIN v |-> Elem(f.of, v[k])] ELSE v]

\* The slot i holds a vector of tables, and Elem is true of each of them.
EachRow(Elem(_, _), T, cells) ==
  \A i \in 1..Len(T) :
    T[i].type = "rows" /\ i \in DOMAIN cells => \A k \in DOMAIN cells[i] : Elem(T[i].of, cells[i][k])

NoRows(T, x) == x

EncodeLeaf(T, value)  == EncodeWith(NoRows, T, value)
EncodeInner(T, value) == EncodeWith(EncodeLeaf, T, value)
EncodeTable(T, value) == EncodeWith(EncodeInner, T, value)

DecodeLeaf(T, cells)  == DecodeWith(NoRows, T, cells)
DecodeInner(T, cells) == DecodeWith(DecodeLeaf, T, cells)
DecodeTable(T, cells) == DecodeWith(DecodeInner, T, cells)

VerifyInner(T, cells) == HasRequired(T, cells) /\ EachRow(HasRequired, T, cells)
VerifyTable(T, cells) == HasRequired(T, cells) /\ EachRow(VerifyInner, T, cells)

ReadableInner(T, cells) == HasKnownBytes(T, cells) /\ EachRow(HasKnownBytes, T, cells)
ReadableTable(T, cells) == HasKnownBytes(T, cells) /\ EachRow(ReadableInner, T, cells)

-----------------------------------------------------------------------------
(* Frames: the declared length, the bytes there are, the file identifier   *)
(* and the cells of the envelope.                                          *)

PROTOCOL_VERSION == 1

PayloadName(byte) == CHOOSE p \in DOMAIN Payload : Payload[p] = byte

\* A payload the schema does not name is not looked into; type and table come together.
VerifyEnvelope(cells) ==
  /\ (3 \in DOMAIN cells) <=> (4 \in DOMAIN cells)
  /\ (\E p \in DOMAIN Payload : 3 \in DOMAIN cells /\ Payload[p] = cells[3]) =>
       VerifyTable(PayloadTable[PayloadName(cells[3])], cells[4])

EncodeEnvelope(id, payload, cells, length) ==
  LET row == [protocol_version |-> PROTOCOL_VERSION, request_id |-> id,
              payload_type |-> Payload[payload], payload |-> cells]
  IN  [declared |-> length, total |-> length + 4, identifier |-> "PNET",
       envelope |-> EncodeWith(NoRows, Envelope, row)]

\* validate_frame_length, before a frame is written and again before one is decoded.
ValidFrameLength(frame) ==
  /\ frame.total >= 4
  /\ frame.declared # 0
  /\ frame.declared <= MaxFrame
  /\ frame.declared + 4 = frame.total

\* Mutant of ReadableLength: the limit itself is refused.
ReadableLength_BelowMax(frame) == frame.declared # 0 /\ frame.declared < MaxFrame

\* read_frame's own limits, checked before the buffer is made.
ReadableLength(frame) == frame.declared # 0 /\ frame.declared <= MaxFrame

\* Mutant of EnvelopeAccepted: the protocol version is not compared.
EnvelopeAccepted_AnyVersion(frame) ==
  /\ ValidFrameLength(frame)
  /\ frame.identifier = "PNET"
  /\ VerifyEnvelope(frame.envelope)

\* decode_envelope accepts the frame.
EnvelopeAccepted(frame) ==
  /\ ValidFrameLength(frame)
  /\ frame.identifier = "PNET"
  /\ VerifyEnvelope(frame.envelope)
  /\ Read(Envelope, frame.envelope, "protocol_version") = PROTOCOL_VERSION

-----------------------------------------------------------------------------
(* Typed messages: a kind and the typed value of its table. *)

RequestPayload ==
  [Ping |-> "PingRequest", DaemonStatus |-> "DaemonStatusRequest",
   Capabilities |-> "CapabilitiesRequest", ListAdapters |-> "ListAdaptersRequest",
   Config |-> "ConfigRequest", JobStatus |-> "JobStatusRequest", ListJobs |-> "ListJobsRequest",
   NetworkStatus |-> "NetworkStatusRequest", WifiStatus |-> "WifiStatusRequest",
   WifiScan |-> "WifiScanRequest", Shutdown |-> "ShutdownRequest"]

ResponsePayload ==
  [Pong |-> "PingResponse", DaemonStatus |-> "DaemonStatusResponse",
   Capabilities |-> "CapabilitiesResponse", Adapters |-> "ListAdaptersResponse",
   Validation |-> "ValidateConfigResponse", Plan |-> "PlanConfigResponse",
   Apply |-> "ApplyConfigResponse", JobStatus |-> "JobStatusResponse",
   Jobs |-> "ListJobsResponse", NetworkStatus |-> "NetworkStatusResponse",
   WifiStatus |-> "WifiStatusResponse", WifiNetworks |-> "WifiScanResponse",
   ShutdownAccepted |-> "ShutdownResponse", Error |-> "ErrorResponse"]

TableOf(Kinds, kind) == PayloadTable[Kinds[kind]]

\* encode_request and encode_response differ only in the kinds they know.
EncodeMessage(Kinds, id, m) ==
  EncodeEnvelope(id, Kinds[m.kind], EncodeTable(TableOf(Kinds, m.kind), m.body), BodyLength(m))

EncodeRequest(id, m)  == EncodeMessage(RequestPayload, id, m)
EncodeResponse(id, m) == EncodeMessage(ResponsePayload, id, m)

\* Which of the kinds the payload of an accepted frame is.
Carries(Kinds, frame, kind) ==
  Payload[Kinds[kind]] = Read(Envelope, frame.envelope, "payload_type")

KindIn(Kinds, frame) == CHOOSE kind \in DOMAIN Kinds : Carries(Kinds, frame, kind)

DecodesAs(Kinds, frame) ==
  /\ EnvelopeAccepted(frame)
  /\ \E kind \in DOMAIN Kinds :
       /\ Carries(Kinds, frame, kind)
       /\ ReadableTable(TableOf(Kinds, kind), frame.envelope[4])

MessageIn(Kinds, frame) ==
  LET kind == KindIn(Kinds, frame)
  IN  [kind |-> kind, body |-> DecodeTable(TableOf(Kinds, kind), frame.envelope[4])]

IdIn(frame) == Read(Envelope, frame.envelope, "request_id")

\* decode_request and decode_response: whether they accept the frame, and what they make of it.
IsRequest(frame)  == DecodesAs(RequestPayload, frame)
RequestIn(frame)  == MessageIn(RequestPayload, frame)
IsResponse(frame) == DecodesAs(ResponsePayload, frame)
ResponseIn(frame) == MessageIn(ResponsePayload, frame)
=============================================================================
