# A TLA+ verification of PE Netplan

PE Netplan configures the network of a Windows PE (or full Windows) machine from a
declarative document. A daemon, `netpland`, owns every privileged change; the command
line `netplan`, a JSON-RPC gateway and a C library are clients of it. This directory
holds TLA+ models of the parts whose correctness depends on order, failure and
interleaving, the TLC configurations that check them, and proofs of the most important
facts.

Paths below are relative to `src/crates/`.

## Contents

1. [Inventory of the system](#1-inventory-of-the-system)
2. [The modules](#2-the-modules)
3. [Runs](#3-runs)
4. [Fairness](#4-fairness)
5. [What is proved](#5-what-is-proved)
6. [Where the code and its documents disagree](#6-where-the-code-and-its-documents-disagree)
7. [What is not modelled](#7-what-is-not-modelled)
8. [Plan](#8-plan)

## 1. Inventory of the system

| Component | Source | State | Operations | What makes it hard |
|---|---|---|---|---|
| Apply transaction | `netpland/src/platform/windows/apply.rs` | the machine itself, a stack of rollback entries on the call stack, `irreversible_change` | `apply`, `apply_reversible`, `apply_wifi`, `apply_drivers`, `run_hooks`, `rollback_all` | every native call may fail; some calls write several settings; some settings are written more than once |
| Daemon jobs | `netpland/src/main.rs` | map from job identifier to `JobRecord`, shutdown channel | `dispatch`, `apply_live`, `handle_connection`, `serve`, `request_shutdown` | concurrent connections and applies, panics, shutdown while an apply runs, restarts, jobs in memory only |
| Preflight and protection | `netpland/src/platform/windows.rs`, `platform/mod.rs` | none of its own; reads an adapter inventory | `preflight`, `validate_runtime_protection`, `resolve_adapter`, `resolve_wifi_interface` | checked against one inventory, used against another |
| SMB backend | `netpland/src/platform/windows/smb.rs` | accounts, shares and mappings of the machine | `apply_account`, `apply_share`, `apply_mapping`, `Rollback::execute` | a share takes two calls, an inner restore outside the stack; a mapping without a drive letter is not looked up |
| Wi-Fi backend | `netpland/src/platform/windows/wifi.rs`, `wifi_scan` in `windows.rs` | a WLAN handle, a notification callback | `scan_and_wait`, `connect`, `disconnect`, `set_profile`, `Rollback::execute` | callback against timeout, connection that comes up late |
| IPv4 restore | `apply.rs` 544-1036 | the adapter, a captured snapshot, targets recorded before the change | `NetworkRestore::capture`, `apply_ipv4`, `restore`, `verify_restored` | partial application, leases that arrive between two calls, verification after the restore |
| Planner | `netplan/src/plan.rs` | none | `build_plan` | the plan shown to the user against what runs |
| Configuration | `netplan/src/config.rs` | none | `parse`, `validate` | cross references between sections |
| Protocol and framing | `netplan/src/protocol/mod.rs`, the schema's code in `ipc_generated.rs` | none | `encode_*`, `decode_*`, `read_frame`, `write_frame` | slots that hold a default are not on the wire; peers of another version; length limits on both sides |
| Shared types | `netplan/src/model.rs`, `plan.rs` | none | | an `Option` of a scalar needs a second field on the wire |
| Client | `netplan/src/client.rs` | the next identifier, one connection per call | `call`, `call_frame` | correlation; no deadline on the answer |
| CLI autostart | `netplan-cli/src/main.rs` | none | `call_with_autostart` | a request sent again after the daemon was started; a start that blocks the thread |
| Service lifecycle | `netplan-cli/src/service.rs`, `netpland/src/windows_service.rs` | the service in the service control manager | `enable`, `disable`, `start`, `stop`; the control handler | polling against other clients, with calls that have no deadline; `STOPPED` reported early; no pipe between two instances of it |
| JSON-RPC gateway | `netplan-cli/src/jsonrpc.rs` | none | `handle`, `wait_for_job` | polling a job against a deadline |
| C ABI | `netplan-ffi/src/lib.rs` | a handle with a runtime behind a lock | `netplan_client_call` | calls of one handle wait for each other; memory ownership |
| Shell, output, elevation, portable backend, generated code | | | | |

How they interact. A client opens a connection, sends one framed request and reads one
framed answer (`client.rs`). The daemon spawns a task per connection (`serve`), which
reads the request, calls `dispatch` and writes the answer. A live apply is answered
at once: `apply_live` runs the preflight, inserts a record in state running, spawns
a background task and returns the identifier. The task calls `Platform::apply` on a
blocking thread and writes the final state into the record. Clients learn it by polling
(`GetJobStatus`, `ListJobs`). A `Shutdown` request is answered first; then the connection's
task raises the shutdown flag and `serve` returns; dropping the runtime waits for the
blocking threads. `Platform::apply` never talks to the daemon: its result is the only thing
that comes back.

What makes each component correct:

- *Apply transaction*: a failure at any point leaves a stack of entries that takes the
  machine back, but for what it never recorded; `rolled_back` is only answered for a machine that was taken back; a success
  means that every requested setting is in force.
- *Daemon jobs*: the registry says what runs; a final state is what the apply returned and
  never changes; an identifier is known as long as its process serves; a shutdown that was
  acknowledged takes place, after its answer.
- *Preflight*: a protected adapter is never written.
- *Protocol*: what is meant is what runs, what is computed is what is told, and nothing is taken for more than it says, above all
  a live apply.
- *IPv4, SMB, Wi-Fi backends*: each handler keeps the promise the transaction relies on,
  "after an error the entry restores what I wrote".
- *Planner*: the plan lists the operations in the order they run.
- *Autostart, service lifecycle, job wait*: what a command reports is so; one daemon runs a request once; a wait ends, or
  waits for one thing that is named.

The list of hazards in `PROJECT.json` gives the source line of each of these and the
properties that watch it.

## 2. The modules

| Module | What it is |
|---|---|
| `ApplyTransaction` | one live apply on Windows, from the `before_apply` hooks to the answer |
| `AtomicApply` | what a caller of `Platform::apply` may rely on |
| `ApplyProgram` | from a configuration document to the sequence of steps `apply_reversible` runs |
| `MCApply` | configurations and machines for TLC |
| `ConcurrentApply` | two applies on one machine |
| `DaemonJobs` | requests, background jobs, shutdown and restarts of the daemon |
| `DaemonLifecycle` | the commands that manage the daemon, autostart, the service control manager and the processes |
| `WifiScan` | scan requests, the notification callback and the WLAN service |
| `Protection` | selectors: validation, preflight and the inventories of an apply |
| `Documents` | validation of a document, the plan, the capability check, against what runs |
| `Gateway` | the JSON-RPC gateway and its wait for a job |
| `Wire` | tables, defaults and typed messages of the protocol, and its frames (operators only) |
| `Session` | calls over the endpoint: `Client`, the C ABI, `handle_connection` and `dispatch` |
| `Ipv4Step` | the IPv4 step of an adapter and its rollback entry, `netsh` call by call |
| `MCDaemon` | `DaemonJobs` and `ConcurrentApply` for TLC |
| `MCLifecycle`, `MCGateway`, `MCSession` | instances of these for TLC |
| `MCNative` | `WifiScan` and `Ipv4Step` for TLC |
| `MCPreflight` | `Protection` and `Documents` for TLC |
| `X_proofs` | theorems about `X`: `ApplyTransaction`, `DaemonJobs`, `DaemonLifecycle`, `Gateway`, `Session`, `ConcurrentApply` |
| `Native_proofs` | theorems about `WifiScan` and `Ipv4Step` |
| `Preflight_proofs` | theorems about `Protection` and `Documents`, with `ApplyProgram` |

Composition: `ApplyTransaction` and `Ipv4Step` instantiate `AtomicApply` (refinement); `Session` extends `Wire`; `Documents` extends `ApplyProgram`, so the
plan is compared with the very sequence that `MCApply` hands to the transaction; `DaemonJobs` uses the answers of
`AtomicApply`; `DaemonLifecycle` sees a process of `DaemonJobs` as serving, draining or gone; `Protection` follows one
accepted document through the same sections as `ApplyProgram`. `ConcurrentApply` is two instances of `ApplyTransaction` on one machine.
`MCNative`, `MCPreflight` and `MCDaemon` hold two parts that share nothing:
a behaviour belongs to one of them (`Parts`, or `instance`, says to which), and the variables of the other keep their initial values.

In all modules a definition with a suffix (`UndoLast_OldestFirst`) is not part of the specification: it is a plausible
bug in the definition without the suffix, kept to show that a property would notice it.

### ApplyTransaction

The machine `os` is a function from *cells* to values; a cell is one setting of one target
(`[part |-> "acl", on |-> x1]`). The values are abstract: what a setting was (`"old"`), what the
configuration asks for (`"new"`), that the thing does not exist (`"absent"`), and the states
of adapters, links and services, which the code tells apart. `PartsOf` says which cells an
operation owns: an IPv4 step owns addresses, DNS and WINS, a share its information and its ACL,
the firewall three profiles, a MAC step the registry value (and, on an enabled adapter, the
administrative state, because the adapter is restarted). `Drives` are the connections that have a drive letter. One value,
`"mixed"`, stands for what `restore` puts back in part without noticing: IPv6 servers beside IPv4 servers from DHCP, and gateways
by hand beside no address by hand; `"part"` is what is left of it (`HalfUndone`).

| Variable | Code |
|---|---|
| `config` | the `NetplanConfig`, as the steps it asks for, its drivers and the stages that have hooks |
| `os`, `orig` | the machine now, and when `apply` was called |
| `inventoried`, `seen` | `inventory` of `apply_reversible`, taken once before the first adapter |
| `phase`, `at`, `drv` | how far `apply`, the loops of `apply_reversible` and `apply_drivers` have come |
| `rollback` | the `Vec<RollbackAction>`: entries with the cells they restore and the machine they captured |
| `irreversible`, `had`, `errors` | `irreversible_change`, `had_mutations`, `!rollback_errors.is_empty()` |
| `installed` | whether a driver package is on the machine because of this apply (no variable of the code) |
| `outcome` | the return value: `Ok`, or `Err` with `rolled_back` |

Each step of `apply_reversible` is an action, and so are the parts of `apply` around it. The
actions differ in the order of the two things that matter, the native call and
`rollback.push`: `RecordAfter` for names, adapter states, accounts, shares and mappings,
`RecordBefore` for IPv4, Wi-Fi, services and the firewall, and between the registry write and the
restart for a MAC. `Attempt` ties the result of the call to what follows: Ok goes to
the next step, an error leaves `apply_reversible` with `?` and starts the rollback. What a call
may leave behind is a set of results: `Partly` for calls that write several settings one by one,
`Restart` for the four ways `restart_adapter` ends, `Relinked` for a connection attempt that is
polled, `ServiceMoved` for a service that did not arrive at the requested state. A mapping has two actions: `MapDrive` asks what
the drive is mapped to, skips what is as requested and refuses what is not; `ConnectShare`, without a drive letter, asks nothing, connects and pushes an entry that
cancels the connection, whoever made it.

The rollback (`UndoLast`) pops the newest entry and executes it; `UndoResults` says what each kind
of entry may leave behind. A failed entry sets `errors` and the loop goes on.

`Unrecorded` names what the account does not count, and why: an adapter that drivers restart, a share whose immediate restore failed, a connection without
a drive letter that existed before, and a mixed setting of an adapter whose step was made. Each of them is a line of code that restores less than it
changed (sections 6 and 7); all properties of the restore are about the rest.

Selectors that match nothing, queries that fail and malformed values end a step before it
writes: `Refused`, which every step has.

### AtomicApply

Three facts: `outcome`, whether the accounted settings are the original ones, and whether a
driver was installed. The abstract call works for a while, then answers once; `rolled_back` needs
a restored machine without a new driver; nothing happens after the answer.
`ApplyTransaction` instantiates it with `restored <- Restored` and checks, and proves, that it is
an implementation (`ImplementsAtomic`). `DaemonJobs` relies on it: there an apply is a
call that returns one of three results, or panics.

### ApplyProgram

Pure operators: the sections of a document in the order of `apply_reversible`, with enable before
MAC and IPv4 and disable last for each adapter, and profiles before actions for Wi-Fi. `Each` makes one step of each entry, `ForEach`
none or several, and the sections are joined in the order of the code. `MCApply`
builds its configurations through it, so TLC's instances are programs the code can run and no
hand-made sequences.

### ConcurrentApply

`apply_live` gives every live apply a blocking thread of its own, and nothing makes the second one wait for the first. The
module instantiates `ApplyTransaction` twice: `os` is shared, everything else, from the inventory to the stack, is there
twice (the variables that end in 2, and `own`, `own2`). `FirstRuns` and `SecondRuns` interleave them call by call. `OwnSettingsKept` asks of each
apply what it promises alone (`KeepsOutside`), for the settings that are not in the `Footprint` of the other.

### DaemonJobs

| Variable | Code |
|---|---|
| `proc` | the life of a process: not started, in `serve`, dropping its runtime, gone |
| `beside` | whether a process began to serve while another one did (no variable of the code) |
| `stop` | the `watch` channel of `request_shutdown` |
| `acked` | processes whose `ShutdownAccepted` was written (no variable of the code) |
| `jobs` | `Daemon::jobs`, the states of the records |
| `call` | the background task of a job: queued, inside `apply`, returned, recorded, or dropped with its runtime |
| `conn` | the connection of a client: request sent, answer computed, answer written |
| `told` | what each client last read of each job (no variable of the code) |

One action per step at which another task may run: accepting and reading a request (`Open`),
`dispatch` (`ApplyLive`, `DryRun`, `JobStatus`, `ListJobs`, `Shutdown`, each under the lock of the
registry or without it), the write of the answer (`Write`), `request_shutdown` after it
(`RequestShutdown`), the blocking thread (`StartCall`, `ApplyReturns`) and the record (`Record`).
A connection may break at any point (`HangUp`), a process may end at any point (`Crash`), and
`serve` may return because of an error of the listener (`ServeReturns`). A process that left `serve`
waits for the blocking threads before it ends (`Exit`), while a second process may already listen on
the same endpoint (`Start`): that is the restart that clients see. A second process may also come while the first one is between two instances of its pipe,
with no connection left (`main.rs` 542-555); then two registries answer under one name, and `NotFoundOnlyAfterRestart` and `ViewsMoveForward` say nothing any more (`beside`).
The other properties hold of both.

### DaemonLifecycle

| Variable | Code |
|---|---|
| `scm` | the service in the service control manager: installed, marked for deletion, its state |
| `proc` | daemon processes: started by the SCM or in the background, before, at and after `serve`; in `serve` with a pipe instance that clients can find, or between two |
| `cli` | the command of each client, the calls and waits it still has to make, and whether its answer will be longer than a frame |
| `ran`, `alone`, `missed` | no variables of the code: which processes ran a request, in order; whether a command was undisturbed; which clients found no pipe although a daemon served |

`Program` is the straight line of each command of `service.rs`; a stage such as `look` (`is_installed`) replaces itself by what the
answer decides (`Installed`, `Missing`). `QueryStop` and `Control` are two steps because `stop_handle` makes two calls;
`AwaitState`, `WaitUntilReady` and `WaitUntilStopped` are polling loops that may give up at any time after their
deadline, which the model does not count. The side of the process is `ReportRunning`, `OpenEndpoint`, `HandOver`, `NextInstance`, `LoseEndpoint`, `ServeReturns`,
`ReportStopped` and `Exit`: `service_main_inner` reports running before `serve` opens the pipe, and stopped before the runtime waits
for its blocking threads. `HandOver` gives the pipe instance to the task of a connection; when that task is done before `NextInstance`
there is no pipe, though the daemon serves (`Serving` and `Listening`), and a call finds the endpoint absent (`FindsAbsent`). Another process may open the endpoint
then, and the next instance may fail, which ends `serve` (`LoseEndpoint`). `Call`, `Retry` and
`Answer` are `call_with_autostart`: after an autostart *any* error leads to the next of `Attempts`, be it a process that left `serve` or a connection that was closed
because the answer is too long (`Broken`). Windows only: on Unix a reset connection counts as a missing endpoint, too. Crashes
and handles of other programs on the service are left out.

### WifiScan

`req` is a request inside `wifi_scan` (`at`, the interfaces left to query, those that can be scanned, `refreshed`); `inbox` the first
event in the `mpsc` channel of `scan_and_wait` (only the first is ever received); `hears` and `context` say whether the callback is registered
and its `ScanContext` allocated; `calling` is the notification a callback runs for. `fresh` and `dangling` are no
variables of the code. `Receive` is `recv_timeout`: with no event in the channel it is the timeout. The WLAN service, which is external, ends a scan
for every registered handle (`Notify`), other programs scan and switch radios (`Elsewhere`) and notifications of other kinds pass
through the same callback (`OtherNews`). Unregistering waits for a running callback, as the comment in `wifi.rs:422` says of Windows, or fails.

### Protection

A selector is a key (index, name, GUID, description: nothing an apply changes) and a MAC address (which it changes); every
matcher that is given must match (`Matches`), while validation compares matchers one by one (`Shares`). `inv` is the machine, `seen` the
inventory and interface list that were read last, `protected` and `intended` what the preflight resolved, `hit` what each
entry then wrote. `PreflightInventory` and `PreflightInterfaces` are two steps, as the two calls are; `TakeInventory` reads again
for the adapters section, for the Wi-Fi sections and for every restart in the drivers section. `Move` changes any adapter from outside,
which is also what a second apply looks like.

### Documents

`Parse` is `validate` (the rules that relate parts of a document; a name has a spelling, as the code compares
without regard to case), `Plan` is `build_plan`, and `RequireCapabilities` the check of the plan against the tools and libraries of the image.
`Runs` is what `apply` then does: `ApplyProgram` on the same document. `Needs` gives the tools that each step calls.
Hooks run around the steps and not among them; the planner lists them moment by moment (`PlanHooks`), and
`PlanIsWhatRuns` says that a plan is exactly the names of the steps and drivers that run, in order, between as many hooks of each moment as the document has
(`HookOps`). Documents come from `Incoming`, which `IncomingAssumption` types: lists of any length and any content.

### Gateway

`input` and `out` are stdin and stdout; `does` where `serve`, `inspect_config` and `wait_for_job` are. Lines are classes
(`Kinds`) rather than text; what a method maps to is whether it needs the daemon, twice or until a job ends. `LookUp` and `Receive` are two steps: the daemon's
answer is computed before it arrives, and the job moves on, or is forgotten by a restart, in between. `Tick` advances the clock in a wait;
a timer that is due fires before the clock goes on. `Autostart`, `Started` and `Repeat` are `call_with_autostart` inside the timed call: while a daemon is started the
thread is blocked (`starting`), no timer fires and the clock may run beyond the deadline.

### Wire

A table is the sequence of its fields in slot order (`Adapter`, `ConfigRequest`, ...), an encoded table a function from the slots that were
written to their contents. `Written` leaves out a slot that would hold its default, as `push_slot` does; `Read` answers the default for a slot that is not
there, as an accessor does; `HasRequired` is what the verifier asks. The typed messages of `protocol/mod.rs` are on top: an `Option` of a
scalar has a `has_` flag (`Given`, `IsGiven`), a byte that names no enumerator makes a message unreadable (`HasKnownBytes`), a text or vector that is absent
reads as `None` or as nothing. `EncodeRequest`/`RequestIn` and `EncodeResponse`/`ResponseIn` are `encode_*` and `decode_*`. `ValidFrameLength` is
`validate_frame_length`, `ReadableLength` the limit of `read_frame`, `EnvelopeAccepted` the rest of `decode_envelope`. Strings
and numbers are opaque; offsets, alignment and the bytes of a buffer are the library's.

### Session

| Variable | Code |
|---|---|
| `caller`, `server` | where the two sides of each call are |
| `via`, `id`, `nextId` | `Client::call`, `netplan_client_call` or a client of another version; the identifier and `Client.next_request_id` |
| `sent`, `reply` | the frames on the connection |
| `ran`, `computed`, `got` | the request `dispatch` was given, the response it computed, the response the caller was given |
| `asked` | the request the caller means (no variable of the code) |
| `handle` | the call that holds the runtime of the C handle |
| `daemon` | serving, stopping, ended, or a daemon of another version |

The caller's side is `Call`, `Send`, `Receive`; `CallHandle` waits for the lock of a C handle and `CallFrame` verifies the frame before it is sent. The daemon's is `ReadRequest`,
`Dispatch` and `WriteResponse`; `Answers` says which responses each arm of `dispatch` may give. A synchronous call of the platform keeps a worker
thread of the runtime (`HoldsWorker`, `FreeWorker`), which is what makes one hanging call the trouble of another. A client may be dropped (`Abandon`), a connection ends
with its process (`End`), and frames of another version come from `ForeignRequests` and `ForeignResponses`.

### Ipv4Step

`nic` is one adapter: DHCP or not, the lease, and the lists set by hand (`Values` are addresses, gateways and servers; an IPv6 server is one of `Servers6`). `Capture` is what
`NetworkRestore::capture` reads of it, `Recorded` adds what `record_targets` notes, and `calls` is the list of `netsh` calls the current part still has to make; `Netsh` makes
one, `Fail` ends the part at it. `Begin` and `Cleanup` are `apply_ipv4` with `remove_captured_network`; `Restore`, `Tidy` and `Verify` are `NetworkRestore::restore` and
`verify_restored`, each with an inventory of its own. What a call does to the adapter (`Effects`) and the arrival of a lease (`Bind`) are Windows, hence external. `Kept` picks the
elements of a list that are in a set, by rank: a filter of the code as a function instead of a recursion, so that it can be reasoned about. `AsFound` is the abstract apply's
"restored", so `AdapterAsFound`, the refinement of `AtomicApply`, is the promise `ApplyTransaction` takes from this step: after `rolled_back` the adapter is as it was found.
`StepSpec` is the step of one adapter by itself; `MCNative` has it beside `WifiScan`, and `part` says which of the two moves.

## 3. Runs

TLC checks each of these; `expect` is *pass* unless noted.

| Run | Instance | Question |
|---|---|---|
| `apply` | one or two adapters with every mix of enable/disable/keep, MAC and IPv4, drivers in several orders and all hooks; a Wi-Fi profile, up to three actions on one or two interfaces and two services; names, accounts, a share, mappings with and without a drive letter and the firewall | Does every failure point leave a stack that restores the machine (`RecordedChanges`, `IInv`), and does the rollback do it (`AbortRestores`, `RolledBackIsClean`)? Does success mean conformance (`SucceededConforms`)? Is the transaction an atomic apply (`ImplementsAtomic`), and does it end (`EndsOrWaitsOnHook`)? |
| `apply_restart_unrecorded` | a driver restart of an adapter | *violation*, see section 6 |
| `daemon_jobs` | one process, one client and two jobs; one process and two clients; two processes, one client and another that shuts daemons down; a MAC change beside an apply of three settings or of a service and a driver operation | The registry agrees with what runs (`RecordsMatchCalls`), clients are told the truth (`ToldTheTruth`), a stop is acknowledged first (`StopIsAcknowledged`); as long as no two processes serve at once, `not_found` only for a process that stopped (`NotFoundOnlyAfterRestart`), and what a client is told moves forward only (`ViewsMoveForward`); jobs end, and an acknowledged shutdown ends the process. Two applies at once keep their promises for what only one of them writes (`OwnSettingsKept`) |
| `lifecycle` | two commands of any kind, three processes, a machine with any history | Do commands keep their promises when undisturbed (`LifecyclePromises`)? Do SCM and processes agree (`ScmAgrees`), is a request whose answer fits never run twice by one process (`RepeatsInAnotherProcess`), and does every command end, unless a daemon keeps it waiting for an answer (`CommandsEnd`)? |
| `start_beside_background` | one command, three processes | *violation*, see section 6 |
| `stop_in_the_gap` | one command, three processes | *violation*, see section 6 |
| `native` | one scan request, two interfaces, scans of other programs; the IPv4 step of every adapter on DHCP or with 0 to 2 addresses by hand, gateways, servers of both families and WINS, with every wish | `refreshed` is only answered for complete scans of every interface; callbacks find their context (`CallbacksFindContext`); requests end. The IPv4 step keeps the promise of an apply (`AdapterAsFound`), its rollback succeeds when no call of it fails (`RollbackSucceeds`), and success means what was asked (`AppliedIsAsAsked`) |
| `wifi_context` | one request, one interface | *violation*, see section 6 |
| `preflight` | two adapters, two keys, two MAC addresses, two entries, one adapter changed from outside; documents with up to two entries per section, images that lack one tool, all, or none | An apply by itself never writes a protected adapter, nor an adapter twice from the adapters section. Accepted documents are coherent, the plan is what runs, jobs find their tools |
| `protection_targets` | two MAC addresses exchanged, an adapter restart | *violation*, see section 6 |
| `gateway` | two lines of any kind, with and without a wait between them, timeout 5, interval 2 | Answers in order and only where due; a wait tells the truth, ends, and goes beyond its deadline only to start a daemon (`OnlyStartsOverrun`) |
| `session` | one call with every request and, for each response, every change of one field of a bare and of a filled body, and 23 frames of other clients and 16 of other daemons; two calls that share identifiers, the C handle and the only worker thread | What is meant runs and what is computed is told (`AnswersAreOwn`); a live apply is said in so many words (`LiveOnlyWhenSaid`); what may be written can be read (`LimitsAgree`); nothing of another version is misread (`UnderstoodOrRefused`); every call ends unless the system keeps one of them (`CallsEnd`) |

Types are proved where there is a `_proofs` module; the documents of `preflight` are typed by `DocumentsAssumption` and `IncomingAssumption`, which TLC evaluates, and `Wire` has no state.

Bounds. An instance of `ApplyTransaction` is a set of scenarios: a configuration and a machine.
For each configuration `MCApply` takes *every* machine that differs in the cells the
configuration touches (`Machines`), with the values of `Initial`: an adapter on or off, addresses and servers that are as asked for or mixed, a service running,
stopped or paused, a drive free, mapped as requested or mapped elsewhere, a share connected or not, and so on. Cells that no
step touches never change. Two adapters are enough to have an inventory that is stale for
the second one, and an adapter that drivers restart but the configuration leaves alone; three actions
on a link are enough for an entry that is neither the oldest nor the newest of its cell. The transaction
has no counters, so nothing else is cut off. `DaemonJobs` needs two jobs for two applies at
once, two clients for an answer that is overtaken by a change of the record, and two processes for
a restart during an apply. Identifiers are used up by a run of the model, as UUIDs are never reused; each process
is started once. In `ConcurrentApply` a MAC step, which disables and enables its adapter, meets an apply with a step of three settings and one of
a service, or with a driver operation: a stack that holds several entries, an inventory that goes stale, and entries of both applies on neighbouring settings
of one adapter. `DaemonLifecycle` starts with any history (a service installed or not, running or not, a background
daemon or none), so two commands are one that runs and one that interferes; three processes are a service, a background daemon and
a replacement. `Attempts` is 2 for the 40 of the code: a request that is sent again, and one that is sent no more; the theorems have no bound. Nothing tells one process from another, so `MCLifecycle` takes them in the order of their names (`InOrder`). A second scan request would be one more program that scans the same interface: `Elsewhere` is that program.
In `Protection`, `MaxMoves` bounds the adapters that are changed from outside: one in `preflight`, where it may be any adapter and
change any number of times, none in `protection_targets`; the proof has no bound. A wait of the gateway with timeout 5 and interval 2
ends in a sleep that is cut short, which is where a deadline could be missed. `Overrun` bounds how far the clock goes on while a daemon is started: past the deadline and beyond the end of a poll or a sleep that could have been due; the code has up to 30 seconds for a service, and none for elevation. Two entries of a section are enough for duplicates and for two spellings of one name.
In `session` one call is enough for what a message becomes, since each is encoded on its own; fields are changed one by one because no rule of the schema relates two fields except a flag and its value.
Two calls are what identifiers, a handle or a thread can be mixed up between; they use the kinds that differ in what they hold. `MaxFrame` is 100 and lengths are numbers that `BodyLength` gives, among them the limit and the
limit plus one. In `Ipv4Step` a list of two is a first element, which is a call of its own in the code, and a rest. The lease offers an address and a gateway that the document and the adapter may have by hand,
so equal values of different origin occur.
Each run takes less than four minutes. `CHECK_DEADLOCK FALSE` is set everywhere because a
transaction ends and the last process of an instance stops for good.

What the properties say that a test would hardly reach:

- `RecordedChanges` and `IInv`: after every single native call, of every failure combination, each
  setting is either untouched and uncovered, or its *oldest* entry holds the original value.
- `SucceededConforms`: later steps of the same apply do not undo earlier ones; for an adapter that is
  restarted by drivers the promise is limited to the other settings (the run would fail
  without that exception: `restart_adapter` enables an adapter the configuration disabled).
- `RecordsMatchCalls`: there is no moment at which an apply runs without a running record, including
  panics and the time between the spawn and the first poll of the task.
- `OwnSettingsKept`: the capture, the failure or the rollback of one apply between any two calls of the other.
- `NotFoundOnlyAfterRestart`, `ViewsMoveForward`: answers computed under the lock and written later,
  while the record changes or the process is replaced.
- `LifecyclePromises`, `RepeatsInAnotherProcess`: polls of two commands, of the SCM and of a pipe that comes and goes against each other.
- `CommandsEnd`: a daemon that stops going on at any point, with each of the calls a command may be in.
- `RefreshedIsFresh`: an event of an earlier or a foreign scan, a timeout, and a radio that is off.
- `ProtectedStaysUntouched`: a selector that names a MAC address after that address has moved.
- `AcceptedIsCoherent`: rules of different sections of `validate` together, over every pair of entries.
- `AdapterAsFound`: a lease that arrives between the change and its undoing, and a call that fails in either.
- `AnswersAreOwn`: a 0, a FALSE or an empty text that looks like nothing on the wire.
- `LiveOnlyWhenSaid`: a client that leaves `dry_run` or `action` out, and relies on another default than the daemon has.
- `CallsEnd`: a call into the system that hangs, and what else it holds up.
- `WaitIsTruthful`: the job ends, or is forgotten, while an answer is on its way and a deadline passes.

## 4. Fairness

`ApplyTransaction!FairSpec` has weak fairness on `Work`: native calls return, and the loops that poll
(`wait_for_profile`, `wait_for_service_state`, Wi-Fi connect) have deadlines of 30 seconds, after which the
step is an error. Hooks have none: `run_hook` calls `Command::status` and waits as long as the program runs.
So a hook is only required to pass when its stage has no hooks, and the liveness property says that
an apply returns or waits for a hook.

`DaemonJobs!FairSpec` has weak fairness on what the Tokio runtime does by itself: it polls spawned tasks
(`StartCall`, `Record`, `Handle`, `Write`, `RequestShutdown`), notices the shutdown channel (`Stopped`), and ends
when the last blocking thread has returned (`Exit`). There is no fairness on `ApplyReturns`, because of the hooks, nor
on what clients, administrators or crashes do.

`DaemonLifecycle!FairSpec`: calls of the SCM return, every polling loop counts its attempts or has a deadline (`service.rs`, `main.rs`), and so a stage of a command is left at some time. A call of
a daemon is the exception (`AwaitsDaemon`): `Client::call` has no deadline (`client.rs` 99-105), so there is no fairness as long as a process exists that may have accepted the connection, or may yet answer. Nothing makes
a process go on. `CommandsEnd` says that nothing but such a call keeps a command.

`WifiScan!FairSpec`: native calls return, `recv_timeout` has a timeout, and a callback that runs returns. Nothing makes a scan end.

`Session!Fairness`: a caller and the daemon leave the place they are in whenever they can (`CallerDue`, `ServerDue`), as tasks that are ready are polled, and a daemon
that was asked to stop ends. A synchronous call into the system, or a scan, may never come back (`MayHang`): there is no deadline on it, and none on a `Client::call`. `CallsEnd` says that only this keeps a call from ending.

`Gateway!FairSpec`: the gateway works off what it can, time passes and timers fire, except while a daemon is started. Nothing makes the daemon answer, its start return or the job end: `WaitsEnd` excepts a wait whose
start of a daemon never comes back (the elevation prompt has no deadline).

## 5. What is proved

`ApplyTransaction_proofs` proves, for every set of targets and every set of scenarios that satisfies
`ScenariosAssumption`, `SucceededConformsHolds` and `KeepsOutsideHolds` also `StepsAssumption`:

| Theorem | Statement |
|---|---|
| `Inductive` | `Spec => []IInv` |
| `TypeCorrect` | `Spec => []TypeOK` |
| `RecordedChangesHold` | `Spec => []RecordedChanges` |
| `AbortRestoresHolds` | `Spec => []AbortRestores` |
| `RolledBackIsCleanHolds` | `Spec => []RolledBackIsClean` |
| `Implements` | `Spec => ImplementsAtomic` |
| `SucceededConformsHolds` | `Spec => []SucceededConforms` |
| `WritesOnlyItsFootprintHolds` | `Spec => WritesOnlyItsFootprint` |
| `KeepsOutsideHolds` | for every set `O` of cells, `Init /\ [][Next \/ AnotherWrites(O)]_vars => []KeepsOutside(O)` |

`ConcurrentApply_proofs` proves, for every two sets of scenarios that satisfy these assumptions (`BothAssumption`):

| Theorem | Statement |
|---|---|
| `OwnSettingsKeptHolds` | `Both => []OwnSettingsKept` |

`Preflight_proofs` proves, the first three for every set of documents and machines that satisfies `DocumentsAssumption`, the others
for every set of documents and images that satisfies `IncomingAssumption`:

| Theorem | Statement |
|---|---|
| `TypeCorrect` | `Spec => []TypeOK` |
| `ProtectedStaysUntouchedHolds` | `Spec => []ProtectedStaysUntouched` |
| `AdaptersOnceEachHolds` | `Spec => []AdaptersOnceEach` |
| `DocumentInvariant` | `DocSpec => []DocInv` |
| `PlansAreWhatRuns` | `DocSpec => []PlanIsWhatRuns` |
| `AcceptedDocuments` | `DocSpec => []AcceptedIsCoherent` |
| `PermittedJobs` | `DocSpec => []PermittedStepsHaveTools` |

The other modules have an invariant each, and their theorems hold for any number of processes, clients, jobs, interfaces, lines and calls, and lists of any length:

| Module | Theorems |
|---|---|
| `DaemonJobs_proofs` | `JobTypes` (`TypeOK`), `RegistryShowsApplies` (`RecordsMatchCalls`), `ClientsAreToldTheTruth` (`ToldTheTruth`), `NotFoundMeansRestarted` (`NotFoundOnlyAfterRestart`), `ShutdownIsAcknowledged` (`StopIsAcknowledged`), `ViewsOnlyMoveForward` (`ViewsMoveForward`) |
| `DaemonLifecycle_proofs` | `LifecycleTypes` (`TypeOK`), `ScmAlwaysAgrees` (`ScmAgrees`), `RequestsRepeatElsewhere` (`RepeatsInAnotherProcess`), `PromisesAreKept` (`LifecyclePromises`) |
| `Native_proofs` | of `WifiScan`: `WifiTypes` (`TypeOK`), `RefreshedIsAlwaysFresh` (`RefreshedIsFresh`), `CallbacksAlwaysFindContext` (`CallbacksFindContext`); of `Ipv4Step`, for `StepSpec`: `StepTypesHold` (`StepTypes`), `StepKeepsThePromise` (`AdapterAsFound`, the refinement of `AtomicApply`), `RollbackSucceedsHolds` (`RollbackSucceeds`), `AppliedIsAsAskedHolds` (`AppliedIsAsAsked`) |
| `Gateway_proofs` | `GatewayTypes` (`TypeOK`), `EveryLineIsAnsweredInOrder` (`AnsweredInOrder`), `OnlyStartsEverOverrun` (`OnlyStartsOverrun`), `WaitIsAlwaysTruthful` (`WaitIsTruthful`) |
| `Session_proofs` | `SessionTypes` (`TypeOK`), `LimitsAlwaysAgree` (`LimitsAgree`), `LiveIsAlwaysSaid` (`LiveOnlyWhenSaid`), `UnderstoodOrAlwaysRefused` (`UnderstoodOrRefused`), `AnswersAreAlwaysOwn` (`AnswersAreOwn`) |

`ScenariosAssumption` says that configurations and machines have their types and that, for an adapter, the
enabling step comes before the MAC step (`EnableFirst`), which is the order of the code in
`apply.rs` 118-161. Neither the length of the configuration nor the number of writes to one cell is bounded, so the
theorems cover configurations that list an adapter, an interface or a service many times. `StepsAssumption` is used where
success is: an adapter is enabled or disabled by one entry and configured by one, since the preflight refuses two entries
for one adapter (`windows.rs` 338-346, and `Protection` proves that the apply resolves them as the preflight did); it is disabled after its MAC step
(`AdaptersOnce`); and a step asks for states that can be asked for (`Askable`).

The argument. `RecordedChanges` says of the present machine that the stack can take it back. It is not
inductive as it stands:

- The IPv4 step captures from the inventory, not from the machine. `InventoryIsOriginal`: the inventory is the
  original machine for adapter settings, because no such setting is on the stack when it is taken.
- A MAC change restarts the adapter if it is enabled *or asked to be enabled*; the entry then puts the adapter
  back to "on", which is right only if it was on before or an older entry covers it. `EnabledStepsCovered`: each passed
  enabling step left the adapter on in the inventory or on the stack.
- Undoing a MAC entry restarts the adapter. `RestartsToOn`: such an entry saved the state "on".
- Undoing an IPv4 entry may put a mixed setting back in part. `MixedWerePassed`: an entry for such a setting belongs to a step that was made, so the
  setting is out of the account by then.
- `Control` ties flags, stack and answer to the phase; `EnableFirst` is carried along for the configuration.

`IInv` is the conjunction of these. Each action has a lemma; the actions that only move through the program share
one (nothing of the machine or the stack changes), those that write share lemmas on the stack: pushing an entry that
saves the present value keeps every cell recoverable (`Recoverable`), and popping the top after it was executed keeps
it recoverable from the rest (`PopCovered`: what an older entry covers as well, whatever the top one left). A mapping without a drive letter saves `"absent"` whatever there was: its step moves the connection out of the account
in the same step in which it makes the entry (`AttemptPasses`).

At the end of the rollback the stack is empty, so `RecordedChanges` is `Restored`, which gives `AbortRestores` and
`RolledBackIsClean`; the refinement follows action by action, with `RunAfterRollbackHooks` as the only step that may
map to `RollBack`.

`SucceededConforms` needs an invariant of its own, `ConformOutside`, beside `IInv`. `PassedInForce`: a step that was passed is in force or a later one asks for the same cells. A step
changes its own cells, and the cells of two steps are equal or apart (`CellsAreApart`), so only the restart after a MAC step can spoil another: it enables the adapter, and the one
step that could mind, the disabling one, comes after it. A step may also be skipped because the *inventory* shows what it asks for, though the machine has moved on since: `InventoryIsCurrent` says that for a setting no
step has asked for yet the inventory is still right, or a restart enabled the adapter and the document allows that. The drivers change only states that are left out of the account (`Unrecorded`).

`WritesOnlyItsFootprint` says that an apply and its rollback change no setting outside the footprint of the configuration. Results of calls stay in the cells of their step, but for
the adapter a MAC step or a driver operation restarts; an entry is undone long after it was pushed, so `StackInFootprint` carries the same for the stack.

Two applies at once are a rely and a guarantee. What an apply may rely on is that nobody else writes outside a set `O` (`AnotherWrites(O)`), and every lemma about a step is stated for an arbitrary `O`: `IInvOutside(O)` is `IInv`
said of the cells outside `O` only, and `IInv` is the case of the empty set. One part changed its form for it: `EnabledStepsCovered` now speaks of the inventory only once there is one. `KeepsOutsideHolds` follows, and so does everything that is said of an apply alone.
The guarantee is `WritesOnlyItsFootprint`. In `ConcurrentApply` each apply is the other one of `AnotherWrites`, with the other's footprint for `O` (`JointInv`); the footprints are fixed by the two configurations, so the two invariants hold together, step by step, and
neither needs to know how far the other has come.

`Protection`. `DocumentsAssumption` gives documents their types, puts the adapters section before the others (the order of
`apply_reversible`) and makes `Nothing` no adapter and no selector. `ProtectionInv` says that no entry `Reaches` a *guarded* adapter,
one that is protected and was not moved: the preflight found exactly one other candidate for every entry, and whether an adapter matches
depends on its own record only, which nothing changes while it is guarded. What was read last is what a guarded adapter is
(`BeforeJob`, `DuringJob`), so it is never the adapter a step resolves. For `AdaptersOnceEach`, `AdaptersAsIntended` adds that the one
inventory of the adapters section gives every entry the adapter the preflight gave it. Neither holds across sections
for unprotected adapters, which is the finding `protection_targets`.

`Documents` (`DocInv`). `IncomingAssumption` says that a document has the types of `NetplanConfig`, with lists of any length, and an image tools that exist; nothing else is assumed, not even that `None` is no name.
The invariant is short: a document beyond `validate` is `Valid`, one beyond `build_plan` has the plan `BuildPlan`, and a permitted one was checked. The work is in what follows from it for lists
nobody bounded. `ForEach` flattens a list of lists, which the library defines by recursion; its recursive function is the one chosen by its equation, and what `FlattenJoins` takes from it is one function
from positions to the lists joined so far. Everything else about flattened lists (their elements, their names, how many there are, that no two clash) is shown over those positions, by the least position where it would fail (`Positions`).

- `PlansAreWhatRuns`. Each section of the plan has the names of the section that runs (`AdaptersPart`, `AccountsPart`, `HooksPart`, ...), and both sides join their sections in one order; `Associate` makes one chain of the two ways of setting parentheses, since the planner
  writes one chain where `Program` joins groups (`PlanRuns`).
- `PermittedJobs`. For each step that runs the plan holds an operation whose capability stands for the step's tools (`StepsPlanned`, `DriversPlanned`); a capability that is available because of a tool names that tool (`ToolBehind`).
- `AcceptedDocuments`. `Apart` says of a list that no two of its steps have one owner. A section is apart because `validate` found no repeated name in it, a joined list if both parts are and no step of one clashes with a step of the other (`ApartJoin`),
  and sections clash with none but themselves. Accounts stand before shares by the order of the sections (`AccountsFirst`), and the account that `find_smb_account` finds for a grant is local, so it has a step there. Services do not repeat and are not both stopped and needed (`NeededServices`).

`DaemonJobs` (`JobInv`). Clients are told what a record said at an earlier moment, so the truth of an answer needs a history: a final record is what the call returned
(`RecordsAreResults`), which no step changes; an answer on its way was true when it was computed and can only be overtaken by a later state (`AnswersAreTrue`, `ViewsHold`); a call belongs to a process that
has not ended, or is dropped (`CallsMatchProcesses`); and one process serves at a time unless one came in the gap between two pipe instances (`OneServes`, `beside`), so *not found* does not come from a process beside the job's.

`DaemonLifecycle` (`LifeInv`). `ScmAgrees` is inductive with the types: that two processes may serve at once does not touch it, since only the SCM makes a process a service, and only of a stopped one. A request is run again only
where its first process does not serve any more, if its answer fits into a frame: `CommandShape` says which calls a command may still make after it was sent, and `RanBefore` that every process which ran it has left `serve`
unless it is the one that is still to answer.
`LifecyclePromises` needs a second invariant, `PromiseInv`: as long as a command is alone and has not failed, `OnPlan` says which stages it may have left and, for each, what the machine is like by then. `Enabling`, for one, goes from
"nobody is about to open the endpoint" (`Settled`) over "the SCM says stopped" and "nobody serves" to `Up`: one service process, asked by no one to stop, is all there is. Each plan has a lemma for the calls of its command, and one lemma
(`ProcessKeepsPlan`) shows that what processes do by themselves in the meantime leaves the plan as it is. A service that is not installed is stopped (`ScmKeepsRunning`), which is why a command may skip stopping it.

`WifiScan` (`WifiInv`). `RequestInv` says at each place of a request what its flags and lists mean: while `refreshed` stands, each interface that was asked for and is no longer to be scanned is in `fresh`, an event in the channel is from a
notification that arrived while the request listened, and the callback is registered only while its context is there or unregistering failed.

`Gateway` (`GatewayInv`). The answers are those of the lines before the present one (`AnswersAreBehind`), the place is one the line's kind has (`PlaceMatchesLine`), a reply on its way that says final is the state of the job, which is final then
(`ReplyIsFinal`), and a sleep ends at the deadline at the latest (`ClockIsBounded`).

`Session` (`SessionInv`). A frame does not change once a connection has it, and what `dispatch` was given is what that frame decodes to (`Connection`). `LiveIsWritten` is about `Wire` alone: whatever frame is accepted, if the request it decodes to is a live
apply then the slots of `action` and `dry_run` are written, because the default of the first is *validate* and that of the second is TRUE. `SessionAssumption` asks that lengths are numbers and that `None` is no action.

`AnswerInv` is `SessionInv` with what each call has said and heard (`Conversation`): a typed caller's frame is the encoding of what it means, a reply the encoding of what was computed, an answer what the reply decodes to. The rest is that decoding undoes encoding, for
each of the 25 payloads. It is shown once, for tables in general, and then of each table that it is such a table. A table is *sound* (`SoundTable`) if its names are distinct, a scalar that may be `None` has a flag of its own that no other field shares, and a field without a flag whose absence
is read as a default writes everything that differs from it (`SoundField`). In a sound table each field reads back what was written to it (`ReadBack`), though it was left out of the buffer because it was the default (`RowsAreWritten`, `LeafBack`, `InnerBack` and
`MessageBack` take this from fields to rows, to vectors of rows, to messages). `XSound` is one lemma for each table. `SessionAssumption` asks that lengths are numbers, that `None` is no number and no Boolean, and that requests and responses have the types of
`netplan/src/model.rs`, without a bound on their content (`AreTyped`): a number where the table has a number, a name of the enumeration, a list of rows.

`Ipv4Step`. `StepAssumption` gives adapters, wishes and the lease their types, with the two facts of Windows that an adapter waits for a lease or has one exactly when it is on DHCP, and that its servers are kept by family; `None`, the
missing gateway, is no value. Lists of addresses, gateways and servers have any length, also those of the lease, and may repeat a value.
A part of the step computes a list of calls and the calls are made one by one, so a statement about the end of a part speaks of calls yet to be made. `Leads(f, v, C, t)` says that the calls `C`, each with its effect `After` on the list `f`, lead from its
value `v` to `t`; the values in between are the witness. Each part has a lemma on where its calls lead (`StaticCallsOf`, `RestoreListsOf`, ...), each call moves one step along (`LeadsStep`), and when no call is left the list is `t`: no induction over the
calls is needed. `Kept` needs one, over the ranks of the elements it keeps; it is done by least elements (`Least`, from `NatLessThanWellFounded`).
Three invariants beside `StepTypes`:

- `RestoreInv`, for the refinement. `verify_restored` compares what an inventory shows, where the values of a lease and those set by hand are one list. `KnownAddresses`: an address set by hand, now or by a call that is left, is one of before or one that `saved` notes as added;
  `GatewaysOrLost` that for an adapter which had DHCP and addresses by hand the gateways set by hand are those of before whenever the addresses are. With it an accepted comparison is `RolledBackIsAsFound`, whatever failed or arrived before it.
- `RollbackInv`, for `RollbackSucceeds`. As long as no call failed, `RestoreLeads` and `TidyLeads` say that the calls which are left lead each list to what it was; what `Tidy` deletes is never what `Restore` put back. The three exceptions of the property are where this fails.
- `StepInv`, for `AppliedIsAsAsked`. `BeforeTheStep`, `StaticLeads`, `DhcpLeads` and `CleanupLeads` say the same of the step: its calls lead to what was asked, with the lease arriving in between.

Only model-checked: the liveness properties, since fairness is outside the prover's reach. Every invariant and every other action property that a passing run checks is a theorem above.

## 6. Where the code and its documents disagree

- `apply_restart_unrecorded`. `PlatformError::rolled_back` is documented as "Whether every completed mutation was
  successfully rolled back." (`netpland/src/platform/mod.rs:82`). A `restart_adapter` driver operation
  (`apply.rs:421`) disables and enables an adapter, pushes no entry and does not set `irreversible_change`. When a later
  step fails, the answer is `rolled_back` although an adapter that was disabled is now enabled (or the reverse, when both
  enables failed).
- `start_beside_background`. The service reports running before it opens the endpoint (`windows_service.rs:78`). With a
  background daemon on the endpoint, `start` gets its answer from that daemon and says "Windows service is running"
  (`service.rs:119`) while the service has stopped, because the pipe was taken.
- `stop_in_the_gap`. `serve` hands its pipe instance to a task and creates the next one afterwards (`main.rs` 542-555). A `stop` that asks in between, when no connection is left, gets *not found*, takes the daemon for absent
  (`service.rs:198`, or `service.rs:224` in its wait) and says "background daemon is stopped" (`service.rs:166`) of a daemon that serves on. `missed` keeps such commands out of `LifecyclePromises`.
- `wifi_context`. "The callback context remains alive until notifications are unregistered below." (`wifi.rs:392`). If unregistering fails the
  context is dropped all the same (`wifi.rs:437`), and the callback stays registered until the handle is closed.
- `protection_targets`. "protected and target selectors resolve to actual indexes before mutation" (`docs/PORTING.md:13`). A document that exchanges two MAC
  addresses and then restarts an adapter by MAC address restarts another one than the preflight resolved.

Met while reading, without a run of their own:

- For a mapping without `local` (`netplan/src/config.rs:280`) `apply_mapping` asks for no existing connection (`smb.rs:221`), always connects, and always pushes an entry that cancels the
  connection to that remote. If the share was connected before the apply, a later failure disconnects it, and the answer is `rolled_back` (the same sentence of `mod.rs:82`; "Reversible live operations are rolled back in reverse order after failure
  and the job reports `rolled_back` only after state verification succeeds.", `README.md:149`).
- "explicit cleanup of stale manual active-store addresses" (`docs/PORTING.md:14`). When an adapter with addresses by hand is changed to DHCP, `remove_captured_network` (`apply.rs:703`) deletes each address it captured and still finds, by value.
  If the lease has arrived by then and brings one of these addresses, as a reservation would, the leased address is deleted, and the step returns without an error. The same holds for gateways.
- `netplan.job.wait` returns "terminal job state or bounded timeout" (`docs/JSONRPC.md:36`). The timed call is `call_with_autostart` (`jsonrpc.rs:621`), which starts a missing daemon with calls that block the thread: an elevated child
  that is waited for, or `wait_for_state` with `thread::sleep` for up to 30 seconds (`service.rs:442`). The timeout cannot fire meanwhile, so a wait with a timeout of a second may take half a minute.
- An adapter with DHCP *and* addresses by hand, or with neither, cannot be put back with the calls `restore` makes (`Mixed`). `restore` compares addresses and not the mode, so if those set by hand survive the change to
  DHCP it leaves DHCP on and `verify_restored` fails (`ModeOverlooked`, `apply.rs:907`). A leased address that equals a wanted one is deleted by `restore`, or fails its verification (`LeaseGivesWanted`). The apply is then
  answered as not rolled back, which is true; `RollbackSucceeds` names the three cases.
- `verify_restored` does not look at the IPv6 servers of an adapter whose IPv4 servers came from DHCP, nor at gateways by hand beside no address by hand; neither is put back. `AsFound` leaves both out, and in `ApplyTransaction` they are the mixed settings
  that `UndoIpv4` may put back in part and `Unrecorded` names.
- A share whose ACL cannot be set is put back on the spot and outside the stack (`smb.rs:189`); if that fails too, the share stays changed, and `rolled_back` may still be answered. The text of the error mentions it; `Unrecorded` names it.
- `static_network_matches` (`apply.rs:608`) ignores the mode: an adapter on DHCP with exactly the wanted addresses by hand stays on DHCP, and the apply succeeds (`AppliedIsAsAsked`).
- A response that is longer than a frame closes the connection without an answer (`main.rs:418`); the client sees a lost connection. `CallsEnd` covers it, no property denies it.
- After an autostart the client sends a request again whatever the error was (`netplan-cli/src/main.rs:301`). If the answer of a live apply were longer than a frame, one daemon would run the apply up to 40 times.
  `Answer` has this case (`long`), `RepeatsInAnotherProcess` excepts it: no document promises that a request is sent once.
- A service reports STOPPED while an apply may still run (`windows_service.rs:96`), and its process may end then (`Exit`).
- `force` without `hardware_id` passes `validate` (`config.rs:747`) and fails in `apply_drivers`, after every reversible step: the machine is rolled back for a document that could have been refused.
- A share without a security descriptor: `smb.rs:398` hands an empty one back; `ApplyTransaction` assumes there is one.
- The rollback of a link reconnects to a profile before the XML of that profile is restored (`apply.rs:1457`).
- Records of jobs are never removed (`main.rs:341`), so the registry grows as long as the daemon lives.

- "The service must be stopped." (`netplan/src/config.rs:306`). `service_is_running` (`apply.rs:1313`) is true for running services
  only, so a paused one counts as stopped already and a successful apply leaves it paused. `Running` models what the code asks.
- "interfaces that must never be modified" (`README.md:105`). `apply` resolves every selector again and does not look at the protection any more:
  if two MAC addresses change from outside after the preflight, the protected adapter is restarted. `ProtectedStaysUntouched` is what does
  hold: it takes a change of that very adapter.
- "A UTF-8 BOM is accepted only at the start of the first input line" (`docs/JSONRPC.md:146`); the code strips it from every line (`jsonrpc.rs:185`).
- "The gateway uses the standard JSON-RPC codes" (`docs/JSONRPC.md:162`); JSON that is no request object fails in the same `from_str` as no
  JSON at all and is answered with -32700 instead of -32600 (`jsonrpc.rs:190`).
- "`pnputil.exe`, or `newdev.dll` for forced driver updates." (`docs/USER_GUIDE.md:84`). A forced update with a restart policy also runs
  `pnputil` (`apply.rs:409`), for which no capability was checked: `Unchecked` in `Documents` names this exception of `PermittedStepsHaveTools`.

## 7. What is not modelled

- Syntax: parsing, scalar validation (MAC, CIDR, SSID), the layout of a FlatBuffers buffer, text output, the interactive shell.
- What read-only requests (`ListAdapters`, `DaemonStatus`, status of networks) read from Windows; their messages are in `Wire` and `Session`.
- The contents of settings: descriptors, XML, and addresses outside `Ipv4Step`, which leaves out prefix lengths and looks at one adapter.
- Settings that two applies write at the same time. Nothing serialises applies, so either may undo what the other reported, and no document promises
  otherwise; `ConcurrentApply` covers the settings that one of them leaves alone.
- A machine changed by others while an apply runs, except for adapters and their selectors (`Protection`).
- The text of JSON-RPC messages and the parameters of each method; the calls of the gateway other than the wait have no deadline, so a
  silent daemon stops a session, and no property denies it. Neither have the calls of a command, where `CommandsEnd` names them.
- Two accounts of a document with different identifiers and one user name: `validate` and `Documents` compare identifiers.
- Links whose connection comes up after `connect` gave up, while or after the rollback restores the link (`wifi.rs:644`), and the order of profile and connection on rollback. The restore promises are about a machine
  on which no connection attempt is left.
- What a crash in the middle of an apply leaves on the machine: nothing in the code recovers from it.
- C ABI memory ownership, UAC elevation, the portable backend (which offers no operation), and of the generated code the mutable accessors, builders' debug output and unchecked entry points, which the program does not use.

## 8. Plan

Done, in this order: `ApplyTransaction` with its proofs, `AtomicApply`, `ApplyProgram`, `DaemonJobs`, `DaemonLifecycle`, `WifiScan`, `Protection` with its proofs, `Documents`,
`Gateway`, then `Wire` with `Session`, `Ipv4Step`, the proofs of `DaemonJobs`, `DaemonLifecycle`, `WifiScan`, `Gateway` and `Session`, `ConcurrentApply` with its proof, the proofs of `Ipv4Step`, and those of `Documents`.

Left:

1. `ShareStep`: `smb.rs`'s two calls and its immediate restore, shown to implement the step of `ApplyTransaction`. Its content is the security descriptor, which is abstract here.
2. `LinkRestore`: the connection that comes up after `connect` gave up, and the profile that is restored after the connection that uses it. It needs the link and its profile as one setting.
