----------------------------- MODULE Protection -----------------------------
(***************************************************************************)
(* Which adapters a live apply touches: the selectors of a document, the   *)
(* checks of config.rs and of the preflight in windows.rs against          *)
(* protect.management_interfaces, and the inventories apply.rs resolves    *)
(* the same selectors in later.                                            *)
(*                                                                         *)
(* Index, name, GUID and description of an adapter are one matcher here,   *)
(* the key: no step of an apply changes them.  A MAC address is the other: *)
(* an apply changes it.  Operators with a suffix are plausible bugs.       *)
(***************************************************************************)
EXTENDS Naturals, Sequences, FiniteSets

CONSTANTS
  Adapters, Keys, Macs,
  Unset,      \* in a selector: this matcher is not given; in an entry: nothing to set
  Nothing,    \* no selector, no adapter
  Documents,  \* the documents an instance looks at
  Machines,   \* the inventories an apply may start with
  MaxMoves    \* bound on the adapters changed from outside during one apply

Record   == [key : Keys, mac : Macs, wlan : {"none", "off", "on"}]
Selector == [key : Keys \cup {Unset}, mac : Macs \cup {Unset}]
Entry    == [op : {"adapter", "profile", "link", "scan", "restart"},
             sel : Selector \cup {Nothing}, mac : Macs \cup {Unset}, enabled : {"on", "off", Unset}]
Document == [protect : SUBSET Selector, entries : Seq(Entry)]

ASSUME DocumentsAssumption ==
  /\ Documents \subseteq Document
  /\ \A d \in Documents : \A i, k \in DOMAIN d.entries :  \* the adapters section comes first
       i < k /\ d.entries[k].op = "adapter" => d.entries[i].op = "adapter"
  /\ Machines \subseteq [Adapters -> Record]
  /\ Nothing \notin Adapters \cup Selector
  /\ MaxMoves \in Nat

VARIABLES
  doc,        \* the document
  inv,        \* the adapters as they are
  phase,      \* how far the request has come
  at,         \* the entry that is next
  look,       \* what has been read for the present section
  seen,       \* the inventory and the Wi-Fi interfaces that were read
  protected,  \* the adapters the preflight found protected
  intended,   \* the adapter of each entry according to the preflight
  hit,        \* the adapter each entry wrote
  moved       \* the adapters changed from outside since the preflight began

vars == <<doc, inv, phase, at, look, seen, protected, intended, hit, moved>>

Entries == DOMAIN doc.entries
E(k)    == doc.entries[k]
Section(k) == CASE E(k).op = "adapter" -> "adapters"
                [] E(k).op = "restart" -> "drivers"
                [] OTHER               -> "wifi"

-----------------------------------------------------------------------------
(* Selectors.                                                              *)

\* selector_matches: every matcher that is given has to match.
Matches(s, a) == s.key \in {Unset, a.key} /\ s.mac \in {Unset, a.mac}

\* selectors_share_stable_matcher, in config.rs: one equal matcher is enough.
Shares(s, t) == (s.key # Unset /\ s.key = t.key) \/ (s.mac # Unset /\ s.mac = t.mac)

Unique(S) == \E a \in S : S = {a}
The(S)    == CHOOSE a \in S : TRUE

\* resolve_adapter: the candidates; it fails unless there is exactly one.
Candidates(m, s) == {a \in Adapters : Matches(s, m[a])}

\* resolve_wifi_interface: without a selector the only interface there is.
WlanCandidates(m, wlan, s) ==
  IF s = Nothing THEN wlan
  ELSE IF Unique(Candidates(m, s)) THEN Candidates(m, s) \cap wlan ELSE {}

Wlan == {a \in Adapters : inv[a].wlan = "on"}

Targets(k) == IF Section(k) = "wifi" THEN WlanCandidates(seen.inv, seen.wlan, E(k).sel)
                                     ELSE Candidates(seen.inv, E(k).sel)

-----------------------------------------------------------------------------
(* The request, up to the job.                                             *)

\* validate() compares selectors as they are written, except those of actions.
Validate ==
  /\ phase = "received"
  /\ phase' = IF \E k \in Entries, p \in doc.protect :
                   /\ E(k).op \in {"adapter", "profile", "restart"} /\ E(k).sel # Nothing
                   /\ Shares(p, E(k).sel)
              THEN "rejected" ELSE "valid"
  /\ UNCHANGED <<doc, inv, at, look, seen, protected, intended, hit, moved>>

\* preflight() reads the inventory and then asks for the Wi-Fi interfaces.
PreflightInventory ==
  /\ phase = "valid"
  /\ phase' = "preflight"
  /\ seen' = [seen EXCEPT !.inv = inv]
  /\ UNCHANGED <<doc, inv, at, look, protected, intended, hit, moved>>

PreflightInterfaces ==
  /\ phase = "preflight" /\ look = "nothing"
  /\ look' = "interfaces"
  /\ seen' = [seen EXCEPT !.wlan = Wlan]
  /\ UNCHANGED <<doc, inv, phase, at, protected, intended, hit, moved>>

Resolved  == /\ \A p \in doc.protect : Unique(Candidates(seen.inv, p))
             /\ \A k \in Entries : Unique(Targets(k))
Distinct  == \A i, k \in Entries : (Section(i) = "adapters" /\ Section(k) = "adapters" /\ i # k)
                                      => Targets(i) # Targets(k)
Untargeted == \A p \in doc.protect, k \in Entries : Candidates(seen.inv, p) # Targets(k)

Accepts_AdaptersOnly ==
  /\ Resolved /\ Distinct
  /\ \A p \in doc.protect, k \in Entries :
       Section(k) = "adapters" => Candidates(seen.inv, p) # Targets(k)
Accepts_Duplicates == Resolved /\ Untargeted
Accepts == Resolved /\ Distinct /\ Untargeted

\* validate_runtime_protection; a document that passes becomes a job.
PreflightCheck ==
  /\ phase = "preflight" /\ look = "interfaces"
  /\ look' = "nothing"
  /\ IF Accepts
     THEN /\ phase' = "applying"
          /\ protected' = {The(Candidates(seen.inv, p)) : p \in doc.protect}
          /\ intended' = [k \in Entries |-> The(Targets(k))]
     ELSE phase' = "rejected" /\ UNCHANGED <<protected, intended>>
  /\ UNCHANGED <<doc, inv, at, seen, hit, moved>>

-----------------------------------------------------------------------------
(* apply(): a new inventory for the adapters, one for Wi-Fi, and one for   *)
(* each adapter the drivers section restarts.                              *)

TakeInventory ==
  /\ phase = "applying" /\ at \in Entries /\ look = "nothing"
  /\ seen' = [seen EXCEPT !.inv = inv]
  /\ look' = IF Section(at) = "wifi" THEN "inventory" ELSE "ready"
  /\ UNCHANGED <<doc, inv, phase, at, protected, intended, hit, moved>>

ListInterfaces ==
  /\ phase = "applying" /\ look = "inventory"
  /\ seen' = [seen EXCEPT !.wlan = Wlan]
  /\ look' = "ready"
  /\ UNCHANGED <<doc, inv, phase, at, protected, intended, hit, moved>>

\* What a step does to the adapter: a MAC that is set may show at once or later, an
\* adapter that is enabled or disabled appears or disappears as a Wi-Fi interface, and
\* a restart enables.
Switched(wlan, to) == IF wlan = "none" \/ to = Unset THEN wlan ELSE to
Results(a, e) ==
  CASE e.op = "adapter" ->
         {[inv[a] EXCEPT !.mac = m, !.wlan = Switched(@, e.enabled)] :
            m \in {inv[a].mac} \cup ({e.mac} \ {Unset})}
    [] e.op = "restart" -> {[inv[a] EXCEPT !.wlan = Switched(@, "on")]}
    [] OTHER            -> {inv[a]}

Write(a) == /\ hit' = IF E(at).op = "scan" THEN hit ELSE [hit EXCEPT ![at] = a]
            /\ \E r \in Results(a, E(at)) : inv' = [inv EXCEPT ![a] = r]

\* An entry that does not resolve, or whose step fails, ends the apply.
Step ==
  /\ phase = "applying" /\ look = "ready"
  /\ \/ phase' = "failed" /\ UNCHANGED <<inv, at, look, hit>>
     \/ /\ Unique(Targets(at))
        /\ Write(The(Targets(at)))
        /\ at' = at + 1
        /\ look' = IF at + 1 \in Entries /\ Section(at + 1) = Section(at)
                      /\ Section(at) # "drivers"
                   THEN look ELSE "nothing"
        /\ UNCHANGED phase
  /\ UNCHANGED <<doc, seen, protected, intended, moved>>

Finish ==
  /\ phase = "applying" /\ at \notin Entries
  /\ phase' = "done"
  /\ UNCHANGED <<doc, inv, at, look, seen, protected, intended, hit, moved>>

\* Somebody, or another apply, changes an adapter.
Move(a) ==
  /\ phase \in {"preflight", "applying"}
  /\ a \in moved \/ Cardinality(moved) < MaxMoves
  /\ \E r \in Record : inv' = [inv EXCEPT ![a] = r]
  /\ moved' = moved \cup {a}
  /\ UNCHANGED <<doc, phase, at, look, seen, protected, intended, hit>>

-----------------------------------------------------------------------------
Init ==
  /\ doc \in Documents
  /\ inv \in Machines
  /\ phase = "received"
  /\ at = 1
  /\ look = "nothing"
  /\ seen = [inv |-> inv, wlan |-> {}]
  /\ protected = {}
  /\ intended = [k \in Entries |-> Nothing]
  /\ hit = [k \in Entries |-> Nothing]
  /\ moved = {}

Next == \/ Validate \/ PreflightInventory \/ PreflightInterfaces \/ PreflightCheck
        \/ TakeInventory \/ ListInterfaces \/ Step \/ Finish
        \/ \E a \in Adapters : Move(a)

Spec == Init /\ [][Next]_vars

-----------------------------------------------------------------------------
(* Properties.                                                             *)

\* Every variable keeps its type.
TypeOK ==
  /\ doc \in Document
  /\ inv \in [Adapters -> Record]
  /\ phase \in {"received", "valid", "rejected", "preflight", "applying", "failed", "done"}
  /\ at \in Nat \ {0}
  /\ look \in {"nothing", "interfaces", "inventory", "ready"}
  /\ seen \in [inv : [Adapters -> Record], wlan : SUBSET Adapters]
  /\ protected \subseteq Adapters
  /\ intended \in [Entries -> Adapters \cup {Nothing}]
  /\ hit \in [Entries -> Adapters \cup {Nothing}]
  /\ moved \subseteq Adapters

\* An adapter the preflight found protected is written only if it was itself changed
\* from outside in the meantime: nothing an apply does to other adapters makes one
\* of its later selectors resolve to a protected one.
ProtectedStaysUntouched == \A k \in Entries : hit[k] \in protected => hit[k] \in moved

\* Two entries of the adapters section never write the same adapter, unless adapters
\* were changed from outside.
AdaptersOnceEach ==
  \A i, k \in Entries :
    (/\ Section(i) = "adapters" /\ Section(k) = "adapters" /\ i # k
     /\ hit[i] # Nothing /\ hit[i] = hit[k]) => moved # {}

\* "target selectors resolve to actual indexes before mutation"
TargetsFixed == \A k \in Entries : hit[k] \in {Nothing, intended[k]}
=============================================================================
