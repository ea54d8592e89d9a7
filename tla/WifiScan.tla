------------------------------ MODULE WifiScan ------------------------------
(***************************************************************************)
(* WifiScan requests of the Windows backend: wifi_scan in windows.rs, and  *)
(* scan_and_wait with its notification callback in windows/wifi.rs.        *)
(*                                                                         *)
(* Requests run on blocking threads, each with a WLAN handle of its own.   *)
(* A scan belongs to the interface and not to who asked for it: its end is *)
(* reported to every handle that is registered at that moment, and other   *)
(* programs scan too.  Operators with a suffix are plausible bugs.         *)
(***************************************************************************)
EXTENDS Naturals, Sequences, FiniteSets, SequencesExt

CONSTANTS Requests, Interfaces

ASSUME InterfacesAssumption == IsFiniteSet(Interfaces)

VARIABLES
  radio,     \* the radio of each interface: on or not
  scanning,  \* the interfaces that scan
  req,       \* the requests: their place, their lists and their answer
  inbox,     \* the first event in the channel of each request
  hears,     \* the requests whose callback is registered
  calling,   \* for each request the notification its callback is running for
  context,   \* the requests whose ScanContext is allocated
  fresh,     \* interfaces that completed a scan while the request listened
  broken,    \* requests whose callback could not be unregistered
  dangling   \* whether a callback read a context that was dropped

vars == <<radio, scanning, req, inbox, hears, calling, context, fresh, broken, dangling>>
air  == <<radio, scanning>>
port == <<inbox, hears, calling, context, fresh, broken, dangling>>

Silent == [on |-> "none", event |-> "none"]
Idle == [at |-> "idle", asked |-> {}, refresh |-> FALSE, left |-> <<>>, found |-> <<>>,
         refreshed |-> FALSE, failing |-> FALSE]

At(r, place) == req[r].at = place
Here(r) == Head(req[r].found)

-----------------------------------------------------------------------------
(* wifi_scan.                                                              *)

\* One interface or all of them; an index that no interface has is an error.
Request(r) ==
  /\ At(r, "idle")
  /\ \E refresh \in BOOLEAN, all \in SetToSeqs(Interfaces) :
       \E chosen \in {all} \cup {<<i>> : i \in Interfaces} :
         req' = [req EXCEPT ![r] = [Idle EXCEPT !.at = "radios", !.refresh = refresh,
                                                !.left = chosen, !.asked = ToSet(chosen)]]
  /\ UNCHANGED <<air, port>>

\* The handle is closed when the request ends, and with it the registration.
End(r, place) ==
  /\ req' = [req EXCEPT ![r].at = place]
  /\ UNCHANGED air

\* Radios are queried one after the other before the first scan.
QueryRadio(r) ==
  /\ At(r, "radios") /\ req[r].left # <<>>
  /\ LET i == Head(req[r].left) IN
       \/ End(r, "failed")
       \/ /\ req' = [req EXCEPT ![r].left = Tail(@),
                                ![r].found = IF radio[i] THEN Append(@, i) ELSE @]
          /\ UNCHANGED air
  /\ UNCHANGED port

\* An interface whose radio is off makes the whole answer a cached one.
AfterRadios_Optimistic(r) ==
  /\ At(r, "radios") /\ req[r].left = <<>>
  /\ IF req[r].found = <<>> THEN End(r, "failed")
     ELSE /\ req' = [req EXCEPT ![r].at = "next", ![r].refreshed = req[r].refresh]
          /\ UNCHANGED air
  /\ UNCHANGED port

AfterRadios(r) ==
  /\ At(r, "radios") /\ req[r].left = <<>>
  /\ IF req[r].found = <<>> THEN End(r, "failed")
     ELSE /\ req' = [req EXCEPT ![r].at = "next",
                       ![r].refreshed = req[r].refresh /\ ToSet(req[r].found) = req[r].asked]
          /\ UNCHANGED air
  /\ UNCHANGED port

\* The loop over the interfaces that can scan.
NextInterface(r) ==
  /\ At(r, "next")
  /\ req' = [req EXCEPT ![r].at = IF req[r].found = <<>> THEN "answered"
                                  ELSE IF req[r].refresh THEN "register" ELSE "list"]
  /\ UNCHANGED <<air, port>>

ListNetworks(r) ==
  /\ At(r, "list")
  /\ \/ End(r, "failed")
     \/ req' = [req EXCEPT ![r].at = "next", ![r].found = Tail(@)] /\ UNCHANGED air
  /\ UNCHANGED port

\* Answer and error drop the client; WlanCloseHandle ends what is registered,
\* and no callback runs after it.
CloseHandle(r) ==
  /\ At(r, "answered") \/ At(r, "failed")
  /\ calling[r] = Silent
  /\ hears' = hears \ {r}
  /\ UNCHANGED <<air, req, inbox, calling, context, fresh, broken, dangling>>

-----------------------------------------------------------------------------
(* scan_and_wait.                                                          *)

Register(r) ==
  /\ At(r, "register")
  /\ \/ End(r, "failed") /\ UNCHANGED <<hears, context, inbox>>
     \/ /\ req' = [req EXCEPT ![r].at = "scan", ![r].failing = FALSE]
        /\ hears' = hears \cup {r}
        /\ context' = context \cup {r}
        /\ inbox' = [inbox EXCEPT ![r] = "none"]
        /\ UNCHANGED air
  /\ UNCHANGED <<calling, fresh, broken, dangling>>

\* scan() asks for the radio again.  A scan that is under way serves this request
\* as well.
Scan(r) ==
  /\ At(r, "scan")
  /\ \/ /\ req' = [req EXCEPT ![r].at = "unregister", ![r].failing = TRUE]
        /\ UNCHANGED scanning
     \/ /\ radio[Here(r)]
        /\ req' = [req EXCEPT ![r].at = "wait"]
        /\ scanning' = scanning \cup {Here(r)}
  /\ UNCHANGED <<radio, port>>

\* recv_timeout: the first event, or the end of the timeout when there is none.
Receive_NoTimeout(r) ==
  /\ At(r, "wait") /\ inbox[r] # "none"
  /\ req' = [req EXCEPT ![r].at = "unregister", ![r].failing = inbox[r] = "fail"]
  /\ UNCHANGED <<air, port>>

Receive(r) ==
  /\ At(r, "wait")
  /\ req' = [req EXCEPT ![r].at = "unregister", ![r].failing = inbox[r] = "fail",
                        ![r].refreshed = @ /\ inbox[r] = "complete"]
  /\ UNCHANGED <<air, port>>

\* Unregistering waits for a running callback and may fail; the context is
\* dropped in either case.
Unregister_WithoutWaiting(r) ==
  /\ At(r, "unregister")
  /\ hears' = hears \ {r} /\ broken' = broken
  /\ req' = [req EXCEPT ![r].at = IF req[r].failing THEN "failed" ELSE "list"]
  /\ context' = context \ {r}
  /\ UNCHANGED <<air, inbox, calling, fresh, dangling>>

Unregister(r) ==
  /\ At(r, "unregister")
  /\ \/ /\ calling[r] = Silent
        /\ hears' = hears \ {r} /\ broken' = broken
        /\ req' = [req EXCEPT ![r].at = IF req[r].failing THEN "failed" ELSE "list"]
     \/ /\ broken' = broken \cup {r} /\ hears' = hears
        /\ req' = [req EXCEPT ![r].at = "failed"]
  /\ context' = context \ {r}
  /\ UNCHANGED <<air, inbox, calling, fresh, dangling>>

\* scan_notification reads the context, drops what is about another interface or no end
\* of a scan, and sends the rest.
Accepts(r) == calling[r].on = Here(r) /\ calling[r].event \in {"complete", "fail"}

Callback(r) ==
  /\ calling[r] # Silent
  /\ calling' = [calling EXCEPT ![r] = Silent]
  /\ dangling' = (dangling \/ r \notin context)
  /\ inbox' = [inbox EXCEPT ![r] =
       IF r \in context /\ @ = "none" /\ Accepts(r) THEN calling[r].event ELSE @]
  /\ UNCHANGED <<air, req, hears, context, fresh, broken>>

-----------------------------------------------------------------------------
(* The WLAN service.                                                       *)

\* The registered callbacks are called, one notification at a time.
Notify(i, event) ==
  /\ \A r \in hears : calling[r] = Silent
  /\ calling' = [r \in Requests |-> IF r \in hears THEN [on |-> i, event |-> event] ELSE calling[r]]
  /\ fresh' = [r \in Requests |-> IF r \in hears /\ event = "complete"
                                  THEN fresh[r] \cup {i} ELSE fresh[r]]
  /\ UNCHANGED <<radio, req, inbox, hears, context, broken, dangling>>

ScanEnds(i) ==
  /\ i \in scanning
  /\ \E event \in {"complete", "fail"} : Notify(i, event)
  /\ scanning' = scanning \ {i}

\* Connections and lists are reported through the same callback.
OtherNews(i) == Notify(i, "other") /\ UNCHANGED scanning

\* Another program scans, or somebody turns a radio on or off.
Elsewhere(i) ==
  /\ \/ radio[i] /\ scanning' = scanning \cup {i} /\ UNCHANGED radio
     \/ radio' = [radio EXCEPT ![i] = ~@] /\ UNCHANGED scanning
  /\ UNCHANGED <<req, port>>

-----------------------------------------------------------------------------
Init ==
  /\ radio \in [Interfaces -> BOOLEAN]
  /\ scanning = {}
  /\ req      = [r \in Requests |-> Idle]
  /\ inbox    = [r \in Requests |-> "none"]
  /\ hears    = {}
  /\ calling  = [r \in Requests |-> Silent]
  /\ context  = {}
  /\ fresh    = [r \in Requests |-> {}]
  /\ broken   = {}
  /\ dangling = FALSE

Work(r) == \/ QueryRadio(r) \/ AfterRadios(r) \/ NextInterface(r) \/ ListNetworks(r)
           \/ Register(r) \/ Scan(r) \/ Receive(r) \/ Unregister(r)

Next == \/ \E r \in Requests : Request(r) \/ Work(r) \/ CloseHandle(r) \/ Callback(r)
        \/ \E i \in Interfaces : ScanEnds(i) \/ OtherNews(i) \/ Elsewhere(i)

Spec == Init /\ [][Next]_vars

\* Native calls return, the wait has a timeout and a callback that runs returns;
\* nothing makes a scan end.
Fairness == \A r \in Requests : WF_vars(Work(r)) /\ WF_vars(Callback(r))
FairSpec == Spec /\ Fairness

-----------------------------------------------------------------------------
(* Properties.                                                             *)

\* Every variable keeps its type.
TypeOK ==
  /\ radio \in [Interfaces -> BOOLEAN]
  /\ scanning \subseteq Interfaces
  /\ req \in [Requests ->
       [at : {"idle", "radios", "next", "register", "scan", "wait", "unregister", "list",
              "answered", "failed"},
        asked : SUBSET Interfaces, refresh : BOOLEAN, left : Seq(Interfaces),
        found : Seq(Interfaces), refreshed : BOOLEAN, failing : BOOLEAN]]
  /\ inbox \in [Requests -> {"none", "complete", "fail"}]
  /\ calling \in [Requests -> [on : Interfaces \cup {"none"}, event : {"none", "complete", "fail", "other"}]]
  /\ hears \subseteq Requests /\ context \subseteq Requests /\ broken \subseteq Requests
  /\ fresh \in [Requests -> SUBSET Interfaces]
  /\ dangling \in BOOLEAN

\* refreshed is answered only if every interface that was asked for completed a
\* scan while the request listened; a scan that timed out, failed or ended on another
\* interface does not count.
RefreshedIsFresh ==
  \A r \in Requests :
    (At(r, "answered") /\ req[r].refreshed) => req[r].refresh /\ req[r].asked \subseteq fresh[r]

\* A callback finds its context, however scans end, unless unregistering failed.
CallbacksFindContext == dangling => broken # {}

\* "The callback context remains alive until notifications are unregistered."
ContextOutlivesCallback == ~dangling

\* A request that runs ends, even if no scan ever completes.
RequestsEnd ==
  \A r \in Requests :
    At(r, "radios") ~> (At(r, "answered") \/ At(r, "failed"))
=============================================================================
