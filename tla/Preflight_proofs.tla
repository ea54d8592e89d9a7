-------------------------- MODULE Preflight_proofs --------------------------
(***************************************************************************)
(* Proofs about the two parts between a document and its apply.            *)
(*                                                                         *)
(* Protection: for every set of documents, every machine and any number of *)
(* adapters changed from outside, variables keep their types and an apply  *)
(* on its own never writes a protected adapter.                            *)
(*                                                                         *)
(* Documents: for every document of any length, a plan is what runs, an    *)
(* accepted document is coherent and a permitted job has its tools.        *)
(***************************************************************************)
EXTENDS Protection, Documents, FiniteSetTheorems, WellFoundedInduction, TLAPS

\* Whether an inventory with record r leaves the adapter of r a candidate for entry k.
Reaches(k, r) ==
  IF Section(k) = "wifi" THEN r.wlan = "on" /\ (E(k).sel = Nothing \/ Matches(E(k).sel, r))
                         ELSE Matches(E(k).sel, r)

Guarded == protected \ moved

\* What was read of the adapters in S is what they are.
InventoryIsNow(S)  == \A a \in S : seen.inv[a] = inv[a]
InterfacesAreNow(S) == \A a \in S : a \in seen.wlan <=> inv[a].wlan = "on"

\* Before the job nothing is protected yet, nothing was written, and the readings of
\* the preflight are out of date for moved adapters only.
BeforeJob ==
  phase \in {"received", "valid", "rejected", "preflight"} =>
    /\ protected = {} /\ \A k \in Entries : hit[k] = Nothing
    /\ phase # "preflight" => look = "nothing"
    /\ phase = "preflight" =>
         /\ InventoryIsNow(Adapters \ moved)
         /\ look = "interfaces" => InterfacesAreNow(Adapters \ moved)

\* While the job runs, what was read last still holds of guarded adapters.
DuringJob ==
  phase = "applying" =>
    /\ look # "nothing" => at \in Entries /\ InventoryIsNow(Guarded)
    /\ look = "inventory" => Section(at) = "wifi"
    /\ (look = "ready" /\ Section(at) = "wifi") => InterfacesAreNow(Guarded)
    /\ look # "interfaces"

\* No entry has a guarded adapter among its candidates.
OutOfReach == \A p \in Guarded, k \in Entries : ~Reaches(k, inv[p])

ProtectionInv == TypeOK /\ BeforeJob /\ DuringJob /\ OutOfReach /\ ProtectedStaysUntouched

-----------------------------------------------------------------------------
(* Facts about selectors.                                                  *)

\* A set with one element is the singleton of the element CHOOSE takes.
LEMMA UniqueElement ==
  ASSUME NEW S, Unique(S)
  PROVE  S = {The(S)}
BY DEF Unique, The

\* An adapter whose record was read as it is, and that entry k does not reach, is not
\* a candidate of k.
LEMMA NotATarget ==
  ASSUME TypeOK, NEW k \in Entries, NEW p \in Adapters,
         seen.inv[p] = inv[p], ~Reaches(k, inv[p]),
         Section(k) = "wifi" => (p \in seen.wlan <=> inv[p].wlan = "on")
  PROVE  p \notin Targets(k)
BY DEF Targets, WlanCandidates, Candidates, Reaches

\* If the only target of k is another adapter than p, both as they are, k does not reach p.
LEMMA AnotherTarget ==
  ASSUME TypeOK, NEW k \in Entries, NEW p \in Adapters, Unique(Targets(k)), p \notin Targets(k),
         seen.inv[p] = inv[p], p \in seen.wlan <=> inv[p].wlan = "on"
  PROVE  ~Reaches(k, inv[p])
<1>1. CASE Section(k) # "wifi"
  BY <1>1 DEF Targets, Candidates, Reaches
<1>2. CASE Section(k) = "wifi" /\ E(k).sel = Nothing
  BY <1>2 DEF Targets, WlanCandidates, Reaches
<1>3. CASE Section(k) = "wifi" /\ E(k).sel # Nothing
  <2>1. Unique(Candidates(seen.inv, E(k).sel))
    BY <1>3 DEF Targets, WlanCandidates, Unique
  <2>2. PICK a \in Candidates(seen.inv, E(k).sel) : Candidates(seen.inv, E(k).sel) = {a}
    BY <2>1 DEF Unique
  <2>3. a \in seen.wlan
    BY <1>3, <2>1, <2>2 DEF Targets, WlanCandidates, Unique
  <2>4. CASE p = a
    BY <1>3, <2>1, <2>2, <2>3, <2>4 DEF Targets, WlanCandidates
  <2>5. CASE p # a
    BY <1>3, <2>2, <2>5 DEF Candidates, Reaches
  <2> QED BY <2>4, <2>5
<1> QED BY <1>1, <1>2, <1>3

\* The targets of an entry are adapters.
LEMMA TargetsAreAdapters ==
  ASSUME TypeOK, NEW k \in Entries
  PROVE  Targets(k) \subseteq Adapters
BY DEF TypeOK, Targets, WlanCandidates, Candidates

\* What a step makes of an adapter is a record again.
LEMMA ResultsAreRecords ==
  ASSUME TypeOK, NEW a \in Adapters, NEW k \in Entries, NEW r \in Results(a, E(k))
  PROVE  r \in Record
<1>1. E(k) \in Entry
  BY DEF TypeOK, Document, E, Entries
<1>2. inv[a] \in Record
  BY DEF TypeOK
<1>3. \A to \in {"on", "off", Unset} : Switched(inv[a].wlan, to) \in {"none", "off", "on"}
  BY <1>2 DEF Switched, Record
<1>4. CASE E(k).op = "adapter"
  <2>1. PICK m \in {inv[a].mac} \cup ({E(k).mac} \ {Unset}) :
           r = [inv[a] EXCEPT !.mac = m, !.wlan = Switched(@, E(k).enabled)]
    BY <1>4 DEF Results
  <2>2. m \in Macs
    BY <1>1, <1>2, <2>1 DEF Entry, Record
  <2>3. Switched(inv[a].wlan, E(k).enabled) \in {"none", "off", "on"}
    BY <1>1, <1>3 DEF Entry
  <2> QED BY <1>2, <2>1, <2>2, <2>3 DEF Record
<1>5. CASE E(k).op = "restart"
  BY <1>2, <1>3, <1>5 DEF Results, Record
<1>6. CASE E(k).op \notin {"adapter", "restart"}
  BY <1>2, <1>6 DEF Results
<1> QED BY <1>4, <1>5, <1>6

-----------------------------------------------------------------------------
(* The invariant holds at the start and is kept by every action.           *)

\* The invariant holds at the start, before anything was read or protected.
LEMMA ProtectionInit == Init => ProtectionInv
<1> SUFFICES ASSUME Init PROVE ProtectionInv
  OBVIOUS
<1>1. TypeOK
  BY DocumentsAssumption DEF Init, TypeOK, Document, Entries
<1>2. BeforeJob /\ DuringJob /\ OutOfReach /\ ProtectedStaysUntouched
  BY DEF Init, BeforeJob, DuringJob, OutOfReach, ProtectedStaysUntouched, Guarded
<1> QED BY <1>1, <1>2 DEF ProtectionInv

\* Validation and the two readings of the preflight.
LEMMA RequestSteps ==
  ASSUME ProtectionInv, Validate \/ PreflightInventory \/ PreflightInterfaces
  PROVE  ProtectionInv'
<1> USE DEF ProtectionInv
<1>0. UNCHANGED <<doc, inv, at, protected, intended, hit, moved>>
  BY DEF Validate, PreflightInventory, PreflightInterfaces
<1>1. TypeOK'
  BY <1>0 DEF Validate, PreflightInventory, PreflightInterfaces, TypeOK, Entries, Wlan
<1>2. BeforeJob'
  <2>1. CASE Validate
    BY <1>0, <2>1 DEF Validate, BeforeJob, Entries
  <2>2. CASE PreflightInventory
    BY <1>0, <2>2 DEF PreflightInventory, BeforeJob, Entries, InventoryIsNow, InterfacesAreNow,
                      TypeOK
  <2>3. CASE PreflightInterfaces
    <3>1. InventoryIsNow(Adapters \ moved)'
      BY <1>0, <2>3 DEF PreflightInterfaces, BeforeJob, InventoryIsNow, TypeOK
    <3>2. InterfacesAreNow(Adapters \ moved)'
      BY <1>0, <2>3 DEF PreflightInterfaces, InterfacesAreNow, Wlan, TypeOK
    <3> QED BY <1>0, <2>3, <3>1, <3>2 DEF PreflightInterfaces, BeforeJob, Entries
  <2> QED BY <2>1, <2>2, <2>3
<1>3. DuringJob'
  BY DEF Validate, PreflightInventory, PreflightInterfaces, DuringJob
<1>4. (OutOfReach /\ ProtectedStaysUntouched)'
  BY <1>0 DEF OutOfReach, Guarded, Reaches, Section, E, Entries, ProtectedStaysUntouched
<1> QED BY <1>1, <1>2, <1>3, <1>4

\* The check of the preflight: a document it accepts reaches no protected adapter that
\* was not moved since.
LEMMA CheckStep ==
  ASSUME ProtectionInv, PreflightCheck
  PROVE  ProtectionInv'
<1> USE DEF ProtectionInv
<1>0. UNCHANGED <<doc, inv, at, seen, hit, moved>> /\ phase = "preflight" /\ look = "interfaces"
      /\ look' = "nothing"
  BY DEF PreflightCheck
<1>1. CASE ~Accepts
  <2>1. phase' = "rejected" /\ UNCHANGED <<protected, intended>>
    BY <1>1 DEF PreflightCheck
  <2> QED
    BY <1>0, <2>1 DEF TypeOK, Entries, BeforeJob, DuringJob, OutOfReach, Guarded, Reaches, Section, E,
                      ProtectedStaysUntouched
<1>2. CASE Accepts
  <2>1. /\ phase' = "applying"
        /\ protected' = {The(Candidates(seen.inv, p)) : p \in doc.protect}
        /\ intended' = [k \in Entries |-> The(Targets(k))]
    BY <1>2 DEF PreflightCheck
  <2>2. \A q \in doc.protect : Candidates(seen.inv, q) = {The(Candidates(seen.inv, q))}
    BY <1>2, UniqueElement DEF Accepts, Resolved
  <2>3. \A k \in Entries : Targets(k) = {The(Targets(k))} /\ The(Targets(k)) \in Adapters
    BY <1>2, UniqueElement, TargetsAreAdapters DEF Accepts, Resolved
  <2>4. protected' \subseteq Adapters
    BY <2>1, <2>2 DEF Candidates
  <2>5. \A p \in protected', k \in Entries : p \notin Targets(k)
    <3> TAKE p \in protected', k \in Entries
    <3>1. PICK q \in doc.protect : p = The(Candidates(seen.inv, q))
      BY <2>1
    <3>2. Candidates(seen.inv, q) # Targets(k)
      BY <1>2 DEF Accepts, Untargeted
    <3> QED BY <2>2, <2>3, <3>1, <3>2
  <2>6. TypeOK'
    BY <1>0, <2>1, <2>3, <2>4 DEF TypeOK, Entries
  <2>7. OutOfReach'
    <3>1. SUFFICES ASSUME NEW p \in protected' \ moved, NEW k \in Entries
                   PROVE  ~Reaches(k, inv[p])
      BY <1>0 DEF OutOfReach, Guarded, Reaches, Section, E, Entries
    <3>2. /\ p \in Adapters /\ Unique(Targets(k)) /\ p \notin Targets(k)
          /\ seen.inv[p] = inv[p]
          /\ p \in seen.wlan <=> inv[p].wlan = "on"
      BY <1>0, <1>2, <2>4, <2>5 DEF Accepts, Resolved, BeforeJob, InventoryIsNow, InterfacesAreNow
    <3> QED BY <3>2, AnotherTarget
  <2>8. (BeforeJob /\ DuringJob)'
    BY <1>0, <2>1 DEF BeforeJob, DuringJob
  <2>9. ProtectedStaysUntouched'
    BY <1>0, <2>4, DocumentsAssumption DEF BeforeJob, ProtectedStaysUntouched, Entries
  <2> QED BY <2>6, <2>7, <2>8, <2>9
<1> QED BY <1>1, <1>2

\* The readings of an apply, and its end.
LEMMA ReadingSteps ==
  ASSUME ProtectionInv, TakeInventory \/ ListInterfaces \/ Finish
  PROVE  ProtectionInv'
<1> USE DEF ProtectionInv
<1>0. UNCHANGED <<doc, inv, at, protected, intended, hit, moved>> /\ phase = "applying"
  BY DEF TakeInventory, ListInterfaces, Finish
<1>1. TypeOK'
  BY <1>0 DEF TakeInventory, ListInterfaces, Finish, TypeOK, Entries, Wlan
<1>2. BeforeJob'
  BY <1>0 DEF TakeInventory, ListInterfaces, Finish, BeforeJob
<1>3. DuringJob'
  <2>1. CASE TakeInventory
    BY <1>0, <2>1 DEF TakeInventory, DuringJob, InventoryIsNow, Guarded, Section, E, Entries, TypeOK
  <2>2. CASE ListInterfaces
    <3>1. InterfacesAreNow(Guarded)'
      BY <1>0, <2>2 DEF ListInterfaces, InterfacesAreNow, Guarded, Wlan, TypeOK
    <3>2. InventoryIsNow(Guarded)'
      BY <1>0, <2>2 DEF ListInterfaces, DuringJob, InventoryIsNow, Guarded, TypeOK
    <3> QED BY <1>0, <2>2, <3>1, <3>2 DEF ListInterfaces, DuringJob, Entries
  <2>3. CASE Finish
    BY <2>3 DEF Finish, DuringJob
  <2> QED BY <2>1, <2>2, <2>3
<1>4. (OutOfReach /\ ProtectedStaysUntouched)'
  BY <1>0 DEF OutOfReach, Guarded, Reaches, Section, E, Entries, ProtectedStaysUntouched
<1> QED BY <1>1, <1>2, <1>3, <1>4

\* A step of an apply writes an adapter that is not guarded, and no other.
LEMMA WritingStep ==
  ASSUME ProtectionInv, Step
  PROVE  ProtectionInv'
<1> USE DEF ProtectionInv
<1>0. UNCHANGED <<doc, seen, protected, intended, moved>> /\ phase = "applying" /\ look = "ready"
      /\ at \in Entries
  BY DEF Step, DuringJob
<1>1. CASE phase' = "failed" /\ UNCHANGED <<inv, at, look, hit>>
  BY <1>0, <1>1 DEF TypeOK, Entries, BeforeJob, DuringJob, OutOfReach, Guarded, Reaches, Section, E,
                    ProtectedStaysUntouched
<1>2. CASE /\ Unique(Targets(at)) /\ Write(The(Targets(at))) /\ at' = at + 1
           /\ look' = IF at + 1 \in Entries /\ Section(at + 1) = Section(at)
                         /\ Section(at) # "drivers"
                      THEN look ELSE "nothing"
           /\ UNCHANGED phase
  <2> DEFINE a == The(Targets(at))
  <2>1. a \in Targets(at) /\ a \in Adapters
    BY <1>0, <1>2, UniqueElement, TargetsAreAdapters
  <2>2. PICK r \in Results(a, E(at)) : inv' = [inv EXCEPT ![a] = r]
    BY <1>2 DEF Write
  <2>3. hit' = hit \/ hit' = [hit EXCEPT ![at] = a]
    BY <1>2 DEF Write
  <2>4. a \notin Guarded
    <3>1. SUFFICES ASSUME a \in Guarded PROVE FALSE
      OBVIOUS
    <3>2. seen.inv[a] = inv[a] /\ (Section(at) = "wifi" => (a \in seen.wlan <=> inv[a].wlan = "on"))
      BY <1>0, <3>1 DEF DuringJob, InventoryIsNow, InterfacesAreNow
    <3>3. ~Reaches(at, inv[a])
      BY <1>0, <3>1 DEF OutOfReach
    <3> QED BY <1>0, <2>1, <3>2, <3>3, NotATarget
  <2>5. \A p \in Guarded : inv'[p] = inv[p]
    BY <2>2, <2>4 DEF TypeOK, Guarded
  <2>6. TypeOK'
    <3>1. r \in Record
      BY <1>0, <2>1, <2>2, ResultsAreRecords
    <3>2. inv' \in [Adapters -> Record]
      BY <2>1, <2>2, <3>1 DEF TypeOK
    <3>3. hit' \in [Entries -> Adapters \cup {Nothing}]
      BY <1>0, <2>1, <2>3 DEF TypeOK
    <3>4. at' \in Nat \ {0} /\ look' \in {"nothing", "ready"}
      BY <1>0, <1>2 DEF TypeOK
    <3> QED BY <1>0, <1>2, <3>2, <3>3, <3>4 DEF TypeOK, Entries
  <2>7. DuringJob'
    BY <1>0, <1>2, <2>5 DEF DuringJob, InventoryIsNow, InterfacesAreNow, Guarded, Section, E, Entries
  <2>8. OutOfReach'
    BY <1>0, <2>5 DEF OutOfReach, Guarded, Reaches, Section, E, Entries
  <2>9. ProtectedStaysUntouched'
    BY <1>0, <2>1, <2>3, <2>4 DEF ProtectedStaysUntouched, Guarded, Entries, TypeOK
  <2>10. BeforeJob'
    BY <1>0, <1>2 DEF BeforeJob
  <2> QED BY <2>6, <2>7, <2>8, <2>9, <2>10
<1> QED BY <1>1, <1>2 DEF Step

\* A change from outside takes the adapter out of the guarded ones.
LEMMA MoveStep ==
  ASSUME ProtectionInv, NEW a \in Adapters, Move(a)
  PROVE  ProtectionInv'
<1> USE DEF ProtectionInv
<1>0. UNCHANGED <<doc, phase, at, look, seen, protected, intended, hit>> /\ moved' = moved \cup {a}
  BY DEF Move
<1>1. PICK r \in Record : inv' = [inv EXCEPT ![a] = r]
  BY DEF Move
<1>2. \A p \in Adapters \ moved' : inv'[p] = inv[p]
  BY <1>0, <1>1 DEF TypeOK
<1>3. Guarded' \subseteq Guarded /\ Guarded' \subseteq Adapters \ moved'
  BY <1>0 DEF Guarded, TypeOK
<1>4. TypeOK'
  BY <1>0, <1>1 DEF TypeOK, Entries
<1>5. BeforeJob'
  BY <1>0, <1>2 DEF BeforeJob, InventoryIsNow, InterfacesAreNow, Entries
<1>6. DuringJob'
  BY <1>0, <1>2, <1>3 DEF DuringJob, InventoryIsNow, InterfacesAreNow, Section, E, Entries
<1>7. OutOfReach'
  BY <1>0, <1>2, <1>3 DEF OutOfReach, Reaches, Section, E, Entries
<1>8. ProtectedStaysUntouched'
  BY <1>0 DEF ProtectedStaysUntouched, Entries
<1> QED BY <1>4, <1>5, <1>6, <1>7, <1>8

\* In every state: types, what the readings are worth, and what is out of reach.
THEOREM ProtectionInductive == Spec => []ProtectionInv
<1>1. Init => ProtectionInv
  BY ProtectionInit
<1>2. ProtectionInv /\ [Next]_vars => ProtectionInv'
  <2> SUFFICES ASSUME ProtectionInv, [Next]_vars PROVE ProtectionInv'
    OBVIOUS
  <2>1. CASE Validate \/ PreflightInventory \/ PreflightInterfaces
    BY <2>1, RequestSteps
  <2>2. CASE PreflightCheck
    BY <2>2, CheckStep
  <2>3. CASE TakeInventory \/ ListInterfaces \/ Finish
    BY <2>3, ReadingSteps
  <2>4. CASE Step
    BY <2>4, WritingStep
  <2>5. CASE \E a \in Adapters : Move(a)
    BY <2>5, MoveStep
  <2>6. CASE UNCHANGED vars
    BY <2>6 DEF vars, ProtectionInv, TypeOK, BeforeJob, DuringJob, OutOfReach, Guarded, Reaches,
                Section, E, Entries, ProtectedStaysUntouched, InventoryIsNow, InterfacesAreNow
  <2> QED BY <2>1, <2>2, <2>3, <2>4, <2>5, <2>6 DEF Next
<1> QED BY <1>1, <1>2, PTL DEF Spec

-----------------------------------------------------------------------------
(* The adapters section resolves its selectors as the preflight did.       *)

IsAdapter(k) == Section(k) = "adapters"

\* As long as nothing is changed from outside, the inventory of the adapters section
\* gives every entry the adapter the preflight gave it.
AdaptersAsIntended ==
  (moved = {} /\ phase \in {"applying", "failed", "done"}) =>
    /\ \A i, k \in Entries : (IsAdapter(i) /\ IsAdapter(k) /\ i # k) => intended[i] # intended[k]
    /\ \A k \in Entries : IsAdapter(k) => hit[k] \in {Nothing, intended[k]}
    /\ (phase = "applying" /\ at \in Entries /\ IsAdapter(at)) =>
         /\ at = 1 => seen.inv = inv
         /\ at # 1 => look = "ready"
         /\ \A k \in Entries : IsAdapter(k) =>
               Candidates(seen.inv, E(k).sel) = {intended[k]}

OnceInv == ProtectionInv /\ doc \in Documents /\ AdaptersAsIntended
           /\ (phase \in {"received", "valid", "rejected", "preflight"} => at = 1)

\* Steps that leave the document, the machine and the entries alone.
LEMMA OnceQuietly ==
  ASSUME OnceInv, UNCHANGED <<doc, inv, at, intended, hit, moved>>,
         phase' = phase \/ (phase = "applying" /\ phase' \in {"failed", "done"}),
         look' = look /\ seen' = seen
  PROVE  AdaptersAsIntended'
BY DEF OnceInv, AdaptersAsIntended, IsAdapter, Section, E, Entries, Candidates

\* The check of the preflight fixes the adapters of the entries.
LEMMA OnceCheck ==
  ASSUME OnceInv, PreflightCheck
  PROVE  AdaptersAsIntended'
<1> USE DEF OnceInv, ProtectionInv
<1>1. CASE ~Accepts
  BY <1>1 DEF PreflightCheck, AdaptersAsIntended
<1>2. CASE Accepts
  <2>1. /\ UNCHANGED <<doc, inv, at, seen, hit, moved>> /\ phase = "preflight" /\ at = 1
        /\ intended' = [k \in Entries |-> The(Targets(k))]
    BY <1>2 DEF PreflightCheck
  <2>2. \A k \in Entries : Targets(k) = {intended'[k]}
    BY <1>2, <2>1, UniqueElement DEF Accepts, Resolved
  <2>3. \A k \in Entries : IsAdapter(k) => Candidates(seen.inv, E(k).sel) = {intended'[k]}
    BY <2>2 DEF Targets, IsAdapter
  <2>4. \A i, k \in Entries : (IsAdapter(i) /\ IsAdapter(k) /\ i # k) => intended'[i] # intended'[k]
    BY <1>2, <2>2 DEF Accepts, Distinct, IsAdapter
  <2>5. \A k \in Entries : hit[k] = Nothing
    BY <2>1 DEF BeforeJob
  <2>6. moved = {} => seen.inv = inv
    BY <2>1 DEF BeforeJob, InventoryIsNow, TypeOK
  <2> HIDE DEF OnceInv, ProtectionInv
  <2>7. \A k : IsAdapter(k)' = IsAdapter(k) /\ E(k)' = E(k)
    BY <2>1 DEF IsAdapter, Section, E
  <2>8. \A k : Candidates(seen.inv, E(k).sel)' = Candidates(seen.inv, E(k).sel)
    BY <2>1, <2>7 DEF Candidates
  <2>9. Entries' = Entries
    BY <2>1 DEF Entries
  <2> QED BY <2>1, <2>3, <2>4, <2>5, <2>6, <2>7, <2>8, <2>9 DEF AdaptersAsIntended
<1> QED BY <1>1, <1>2

\* Only the first entry of the adapters section takes an inventory.
LEMMA OnceReading ==
  ASSUME OnceInv, TakeInventory \/ ListInterfaces
  PROVE  AdaptersAsIntended'
<1> USE DEF OnceInv, ProtectionInv
<1>1. UNCHANGED <<doc, inv, phase, at, intended, hit, moved>> /\ phase = "applying"
  BY DEF TakeInventory, ListInterfaces
<1>2. CASE moved # {} \/ ~(at \in Entries /\ IsAdapter(at))
  BY <1>1, <1>2 DEF AdaptersAsIntended, IsAdapter, Section, E, Entries
<1>3. CASE moved = {} /\ at \in Entries /\ IsAdapter(at)
  <2>1. TakeInventory
    BY <1>3 DEF ListInterfaces, DuringJob, IsAdapter
  <2>2. at = 1 /\ seen.inv = inv
    BY <1>1, <1>3, <2>1 DEF TakeInventory, AdaptersAsIntended
  <2>3. seen' = seen
    BY <2>1, <2>2 DEF TakeInventory, TypeOK
  <2> QED BY <1>1, <1>3, <2>2, <2>3 DEF AdaptersAsIntended, IsAdapter, Section, E, Entries, Candidates
<1> QED BY <1>2, <1>3

\* A step of the section writes the adapter the preflight resolved.
LEMMA OnceWriting ==
  ASSUME OnceInv, Step
  PROVE  AdaptersAsIntended'
<1> USE DEF OnceInv, ProtectionInv
<1>0. UNCHANGED <<doc, seen, protected, intended, moved>> /\ phase = "applying" /\ look = "ready"
      /\ at \in Entries /\ at \in Nat \ {0}
  BY DEF Step, DuringJob, TypeOK
<1>1. CASE phase' = "failed" /\ UNCHANGED <<inv, at, look, hit>>
  BY <1>0, <1>1, OnceQuietly
<1>2. CASE moved # {}
  BY <1>0, <1>2 DEF AdaptersAsIntended
<1>3. CASE /\ moved = {} /\ Unique(Targets(at)) /\ Write(The(Targets(at))) /\ at' = at + 1
           /\ look' = IF at + 1 \in Entries /\ Section(at + 1) = Section(at)
                         /\ Section(at) # "drivers"
                      THEN look ELSE "nothing"
           /\ UNCHANGED phase
  <2>1. hit' = hit \/ hit' = [hit EXCEPT ![at] = The(Targets(at))]
    BY <1>3 DEF Write
  <2>2. IsAdapter(at) => The(Targets(at)) = intended[at]
    <3>1. IsAdapter(at) => Targets(at) = {intended[at]}
      BY <1>0, <1>3 DEF AdaptersAsIntended, Targets, IsAdapter
    <3> QED BY <1>3, <3>1, UniqueElement
  <2>3. \A k \in Entries : IsAdapter(k) => hit'[k] \in {Nothing, intended[k]}
    BY <1>0, <1>3, <2>1, <2>2 DEF AdaptersAsIntended, TypeOK
  <2>4. (at + 1 \in Entries /\ IsAdapter(at + 1)) => IsAdapter(at)
    BY <1>0, DocumentsAssumption DEF IsAdapter, Section, E, Entries
  <2>5. (at + 1 \in Entries /\ IsAdapter(at + 1)) =>
           /\ look' = "ready"
           /\ \A k \in Entries : IsAdapter(k) => Candidates(seen.inv, E(k).sel) = {intended[k]}
    BY <1>0, <1>3, <2>4 DEF AdaptersAsIntended, IsAdapter
  <2>6. at + 1 # 1
    BY <1>0
  <2>7. \A i, k \in Entries : (IsAdapter(i) /\ IsAdapter(k) /\ i # k) => intended[i] # intended[k]
    BY <1>0, <1>3 DEF AdaptersAsIntended
  <2> HIDE DEF OnceInv, ProtectionInv
  <2>8. \A k : IsAdapter(k)' = IsAdapter(k) /\ E(k)' = E(k)
    BY <1>0 DEF IsAdapter, Section, E
  <2>9. \A k : Candidates(seen.inv, E(k).sel)' = Candidates(seen.inv, E(k).sel)
    BY <1>0, <2>8 DEF Candidates
  <2>10. Entries' = Entries
    BY <1>0 DEF Entries
  <2>11. IsAdapter(at)' = IsAdapter(at + 1)
    BY <1>0, <1>3 DEF IsAdapter, Section, E
  <2> QED BY <1>0, <1>3, <2>3, <2>5, <2>6, <2>7, <2>8, <2>9, <2>10, <2>11 DEF AdaptersAsIntended
<1> QED BY <1>1, <1>2, <1>3 DEF Step

\* Two entries of the adapters section never write the same adapter, unless adapters were
\* changed from outside: for every number of entries and adapters.
THEOREM AdaptersOnceEachHolds == Spec => []AdaptersOnceEach
<1>1. Init => AdaptersAsIntended /\ doc \in Documents /\ at = 1
  BY DEF Init, AdaptersAsIntended
<1>2. ProtectionInv /\ Init => OnceInv
  BY <1>1 DEF OnceInv
<1>3. ProtectionInv' /\ OnceInv /\ [Next]_vars => OnceInv'
  <2> SUFFICES ASSUME ProtectionInv', OnceInv, [Next]_vars PROVE OnceInv'
    OBVIOUS
  <2>1. doc' \in Documents /\ (phase' \in {"received", "valid", "rejected", "preflight"} => at' = 1)
    BY DEF OnceInv, Next, Validate, PreflightInventory, PreflightInterfaces, PreflightCheck,
           TakeInventory, ListInterfaces, Step, Finish, Move, vars
  <2>2. AdaptersAsIntended'
    <3>1. CASE Validate \/ PreflightInventory \/ PreflightInterfaces
      BY <3>1 DEF Validate, PreflightInventory, PreflightInterfaces, AdaptersAsIntended
    <3>2. CASE PreflightCheck
      BY <3>2, OnceCheck
    <3>3. CASE TakeInventory \/ ListInterfaces
      BY <3>3, OnceReading
    <3>4. CASE Finish \/ UNCHANGED vars
      BY <3>4, OnceQuietly DEF Finish, vars
    <3>5. CASE Step
      BY <3>5, OnceWriting
    <3>6. CASE \E a \in Adapters : Move(a)
      BY <3>6 DEF Move, AdaptersAsIntended
    <3> QED BY <3>1, <3>2, <3>3, <3>4, <3>5, <3>6 DEF Next
  <2> QED BY <2>1, <2>2 DEF OnceInv
<1>4. OnceInv => AdaptersOnceEach
  <2> SUFFICES ASSUME OnceInv, moved = {},
                      NEW i \in Entries, NEW k \in Entries, IsAdapter(i), IsAdapter(k), i # k,
                      hit[i] # Nothing, hit[i] = hit[k]
               PROVE  FALSE
    BY DEF AdaptersOnceEach, IsAdapter
  <2>1. phase \in {"applying", "failed", "done"}
    BY DEF OnceInv, ProtectionInv, TypeOK, BeforeJob
  <2>2. intended[i] # intended[k] /\ hit[i] = intended[i] /\ hit[k] = intended[k]
    BY <2>1 DEF OnceInv, AdaptersAsIntended
  <2> QED BY <2>2
<1> QED BY <1>2, <1>3, <1>4, ProtectionInductive, PTL DEF Spec

\* Every variable keeps its type.
THEOREM TypeCorrect == Spec => []TypeOK
<1>1. ProtectionInv => TypeOK
  BY DEF ProtectionInv
<1> QED BY <1>1, ProtectionInductive, PTL

\* Nothing an apply does makes one of its selectors resolve to a protected adapter,
\* whatever the documents, the machines, and the number of adapters changed from outside.
THEOREM ProtectedStaysUntouchedHolds == Spec => []ProtectedStaysUntouched
<1>1. ProtectionInv => ProtectedStaysUntouched
  BY DEF ProtectionInv
<1> QED BY <1>1, ProtectionInductive, PTL

-----------------------------------------------------------------------------
(* Lists.                                                                  *)

\* Induction over the positions of a list, for a set of positions.
LEMMA Positions ==
  ASSUME NEW N \in Nat, NEW S, N >= 1 => 1 \in S, \A n \in 2..N : n - 1 \in S => n \in S
  PROVE  1..N \subseteq S
<1> SUFFICES ASSUME NEW x \in 1..N, x \notin S PROVE FALSE
  OBVIOUS
<1> DEFINE T == {n \in 1..N : n \notin S}
           R == OpToRel(<, Nat)
<1>1. T \in SUBSET Nat /\ T # {}
  OBVIOUS
<1>2. \E m \in T : \A n \in T : ~ (<<n, m>> \in R)
  BY <1>1, NatLessThanWellFounded, WFMin
<1>3. R = {p \in Nat \X Nat : p[1] < p[2]}
  BY DEF OpToRel
<1>4. PICK m \in T : \A n \in T : ~ (<<n, m>> \in R)
  BY <1>2
<1> HIDE DEF R
<1>5. m \in 1..N /\ m \notin S /\ m # 1
  BY <1>4
<1>6. m - 1 \in 1..N /\ m \in 2..N
  BY <1>5
<1>7. m - 1 \in T
  BY <1>5, <1>6
<1>8. <<m - 1, m>> \in R
  BY <1>3, <1>5, <1>6
<1> QED
  BY <1>4, <1>7, <1>8

\* A list, element by element.
LEMMA Elements ==
  ASSUME NEW V, NEW s \in Seq(V), NEW t \in Seq(V)
  PROVE  /\ s \o t \in Seq(V) /\ Len(s) \in Nat /\ Len(t) \in Nat
         /\ DOMAIN s = 1..Len(s) /\ DOMAIN (s \o t) = 1..(Len(s) + Len(t))
         /\ \A k \in 1..Len(s) : (s \o t)[k] = s[k]
         /\ \A k \in 1..Len(t) : (s \o t)[Len(s) + k] = t[k]
         /\ \A k \in (Len(s) + 1)..(Len(s) + Len(t)) :
              k - Len(s) \in 1..Len(t) /\ (s \o t)[k] = t[k - Len(s)]
         /\ ToSet(s \o t) = ToSet(s) \cup ToSet(t)
<1>1. /\ s \o t \in Seq(V) /\ Len(s) \in Nat /\ Len(t) \in Nat
      /\ DOMAIN s = 1..Len(s) /\ DOMAIN t = 1..Len(t) /\ DOMAIN (s \o t) = 1..(Len(s) + Len(t))
  OBVIOUS
<1>2. \A k \in 1..Len(s) : (s \o t)[k] = s[k]
  OBVIOUS
<1>3. \A k \in 1..Len(t) : (s \o t)[Len(s) + k] = t[k]
  OBVIOUS
<1>4. \A k \in (Len(s) + 1)..(Len(s) + Len(t)) :
        k - Len(s) \in 1..Len(t) /\ (s \o t)[k] = t[k - Len(s)]
  OBVIOUS
<1>5. ToSet(s \o t) \subseteq ToSet(s) \cup ToSet(t)
  <2> SUFFICES ASSUME NEW k \in 1..(Len(s) + Len(t))
               PROVE  (s \o t)[k] \in ToSet(s) \cup ToSet(t)
    BY <1>1 DEF ToSet
  <2>1. CASE k \in 1..Len(s)
    BY <1>1, <1>2, <2>1 DEF ToSet
  <2>2. CASE k \in (Len(s) + 1)..(Len(s) + Len(t))
    BY <1>1, <1>4, <2>2 DEF ToSet
  <2> QED
    BY <1>1, <2>1, <2>2
<1>6. ToSet(s) \subseteq ToSet(s \o t)
  <2> SUFFICES ASSUME NEW k \in 1..Len(s) PROVE s[k] \in ToSet(s \o t)
    BY <1>1 DEF ToSet
  <2>1. k \in 1..(Len(s) + Len(t))
    BY <1>1
  <2> QED
    BY <1>1, <1>2, <2>1 DEF ToSet
<1>7. ToSet(t) \subseteq ToSet(s \o t)
  <2> SUFFICES ASSUME NEW k \in 1..Len(t) PROVE t[k] \in ToSet(s \o t)
    BY <1>1 DEF ToSet
  <2>1. Len(s) + k \in 1..(Len(s) + Len(t))
    BY <1>1
  <2> QED
    BY <1>1, <1>3, <2>1 DEF ToSet
<1> QED
  BY <1>1, <1>2, <1>3, <1>4, <1>5, <1>6, <1>7

\* Lists of the same length with the same elements are the same.
LEMMA SameList ==
  ASSUME NEW V, NEW s \in Seq(V), NEW t \in Seq(V), NEW n \in Nat,
         DOMAIN s = 1..n, DOMAIN t = 1..n, \A k \in 1..n : s[k] = t[k]
  PROVE  s = t
OBVIOUS

\* The positions say how long a list is.
LEMMA SameLength ==
  ASSUME NEW m \in Nat, NEW n \in Nat, 1..m = 1..n
  PROVE  m = n
<1>1. ASSUME m < n PROVE FALSE
  <2>1. n \in 1..n /\ n \notin 1..m
    BY <1>1
  <2> QED
    BY <2>1
<1>2. ASSUME n < m PROVE FALSE
  <2>1. m \in 1..m /\ m \notin 1..n
    BY <1>2
  <2> QED
    BY <2>1
<1> QED
  BY <1>1, <1>2

\* The lists that FlattenSeq goes through: each is the one before with the next list at its end.
Joins(V, ss, n, g) ==
  /\ g \in [1..n -> Seq(V)]
  /\ g[1] = ss[1]
  /\ \A i \in 2..n : g[i] = g[i - 1] \o ss[i]

\* FlattenSeq is the last of them.
LEMMA FlattenJoins ==
  ASSUME NEW V, NEW ss \in Seq(Seq(V)), ss # <<>>
  PROVE  \E g : Joins(V, ss, Len(ss), g) /\ FlattenSeq(ss) = g[Len(ss)]
<1> DEFINE N == Len(ss)
<1>1. N \in Nat /\ N >= 1 /\ \A i \in 1..N : ss[i] \in Seq(V)
  OBVIOUS
<1>2. \A n \in 1..N : \E g : Joins(V, ss, n, g)
  <2> DEFINE S == {n \in 1..N : \E g : Joins(V, ss, n, g)}
  <2>1. 1 \in S
    <3>1. Joins(V, ss, 1, [i \in 1..1 |-> ss[1]])
      BY <1>1 DEF Joins
    <3> QED
      BY <1>1, <3>1
  <2>2. ASSUME NEW n \in 2..N, n - 1 \in S PROVE n \in S
    <3>1. PICK g : Joins(V, ss, n - 1, g)
      BY <2>2
    <3> DEFINE h == [i \in 1..n |-> IF i = n THEN g[n - 1] \o ss[n] ELSE g[i]]
    <3>2. /\ n \in Nat /\ n >= 2 /\ n - 1 \in 1..(n - 1) /\ ss[n] \in Seq(V)
          /\ 1..n = 1..(n - 1) \cup {n}
      BY <1>1
    <3>3. g[n - 1] \in Seq(V) /\ \A i \in 1..(n - 1) : g[i] \in Seq(V)
      BY <3>1, <3>2 DEF Joins
    <3>4. g[n - 1] \o ss[n] \in Seq(V)
      BY <3>2, <3>3
    <3>5. h \in [1..n -> Seq(V)]
      BY <3>2, <3>3, <3>4
    <3>6. h[1] = ss[1]
      BY <3>1, <3>2 DEF Joins
    <3>9. \A i \in 1..n : h[i] = IF i = n THEN g[n - 1] \o ss[n] ELSE g[i]
      OBVIOUS
    <3> HIDE DEF h
    <3>7. ASSUME NEW i \in 2..n PROVE h[i] = h[i - 1] \o ss[i]
      <4>0. i \in 1..n /\ i - 1 \in 1..n
        BY <3>2
      <4>1. CASE i = n
        <5>1. i - 1 # n
          BY <3>2, <4>1
        <5>2. h[i - 1] = g[n - 1]
          BY <3>9, <4>0, <4>1, <5>1
        <5>3. h[i] = g[n - 1] \o ss[n]
          BY <3>9, <4>0, <4>1
        <5> QED
          BY <4>1, <5>2, <5>3
      <4>2. CASE i # n
        <5>1. i \in 2..(n - 1) /\ i - 1 \in 1..(n - 1) /\ i - 1 # n
          BY <3>2, <4>2
        <5>2. g[i] = g[i - 1] \o ss[i]
          BY <3>1, <5>1 DEF Joins
        <5> QED
          BY <3>9, <4>0, <4>2, <5>1, <5>2
      <4> QED
        BY <4>1, <4>2
    <3>8. Joins(V, ss, n, h)
      BY <3>5, <3>6, <3>7 DEF Joins
    <3> QED
      BY <1>1, <3>8
  <2> HIDE DEF S
  <2>3. 1..N \subseteq S
    BY <1>1, <2>1, <2>2, Positions
  <2> QED
    BY <2>3 DEF S
<1>3. PICK g : Joins(V, ss, N, g)
  BY <1>1, <1>2
<1>4. g = [i \in 1..N |-> IF i = 1 THEN ss[i] ELSE g[i - 1] \o ss[i]]
  <2>1. ASSUME NEW i \in 1..N PROVE g[i] = IF i = 1 THEN ss[i] ELSE g[i - 1] \o ss[i]
    <3>1. i = 1 \/ i \in 2..N
      BY <1>1
    <3> QED
      BY <1>3, <3>1 DEF Joins
  <2>2. g = [i \in 1..N |-> g[i]]
    BY <1>3 DEF Joins
  <2> QED
    BY <2>1, <2>2
<1> DEFINE F == CHOOSE f : f = [i \in 1..N |-> IF i = 1 THEN ss[i] ELSE f[i - 1] \o ss[i]]
<1>5. F = [i \in 1..N |-> IF i = 1 THEN ss[i] ELSE F[i - 1] \o ss[i]]
  BY <1>4
<1>6. FlattenSeq(ss) = F[N]
  BY <1>1 DEF FlattenSeq
<1> HIDE DEF F
<1>7. \A n \in 1..N : F[n] = g[n]
  <2> DEFINE S == {n \in 1..N : F[n] = g[n]}
  <2>1. 1 \in S
    <3>1. F[1] = ss[1]
      BY <1>1, <1>5
    <3> QED
      BY <1>1, <1>3, <3>1 DEF Joins
  <2>2. ASSUME NEW n \in 2..N, n - 1 \in S PROVE n \in S
    <3>1. n \in 1..N /\ n # 1
      BY <1>1
    <3>2. F[n] = F[n - 1] \o ss[n]
      BY <1>5, <3>1
    <3>3. g[n] = g[n - 1] \o ss[n]
      BY <1>3 DEF Joins
    <3> QED
      BY <2>2, <3>1, <3>2, <3>3
  <2> HIDE DEF S
  <2>3. 1..N \subseteq S
    BY <1>1, <2>1, <2>2, Positions
  <2> QED
    BY <2>3 DEF S
<1> QED
  BY <1>1, <1>3, <1>6, <1>7

\* The elements of a flattened list are those of its lists.
LEMMA FlattenElements ==
  ASSUME NEW V, NEW ss \in Seq(Seq(V))
  PROVE  /\ FlattenSeq(ss) \in Seq(V)
         /\ ToSet(FlattenSeq(ss)) = UNION {ToSet(ss[k]) : k \in DOMAIN ss}
<1>1. CASE ss = <<>>
  <2>1. FlattenSeq(ss) = <<>>
    BY <1>1 DEF FlattenSeq
  <2>2. DOMAIN ss = {} /\ DOMAIN FlattenSeq(ss) = {}
    BY <1>1, <2>1
  <2> QED
    BY <2>1, <2>2 DEF ToSet
<1>2. CASE ss # <<>>
  <2> DEFINE N == Len(ss)
             Of(n) == UNION {ToSet(ss[k]) : k \in 1..n}
  <2>1. N \in Nat /\ N >= 1 /\ DOMAIN ss = 1..N /\ \A i \in 1..N : ss[i] \in Seq(V)
    BY <1>2
  <2>2. PICK g : Joins(V, ss, N, g) /\ FlattenSeq(ss) = g[N]
    BY <1>2, FlattenJoins
  <2> DEFINE S == {n \in 1..N : ToSet(g[n]) = Of(n)}
  <2>3. 1 \in S
    <3>1. g[1] = ss[1] /\ Of(1) = ToSet(ss[1])
      BY <2>2 DEF Joins
    <3> QED
      BY <2>1, <3>1
  <2>4. ASSUME NEW n \in 2..N, n - 1 \in S PROVE n \in S
    <3>1. n \in 1..N /\ n - 1 \in 1..N /\ 1..n = 1..(n - 1) \cup {n}
      BY <2>1
    <3>2. g[n] = g[n - 1] \o ss[n] /\ g[n - 1] \in Seq(V)
      BY <2>2, <3>1 DEF Joins
    <3>3. ToSet(g[n]) = ToSet(g[n - 1]) \cup ToSet(ss[n])
      BY <2>1, <3>1, <3>2, Elements
    <3>4. Of(n) = Of(n - 1) \cup ToSet(ss[n])
      BY <3>1
    <3> QED
      BY <2>4, <3>1, <3>3, <3>4
  <2> HIDE DEF S
  <2>5. 1..N \subseteq S
    BY <2>1, <2>3, <2>4, Positions
  <2>8. N \in S
    BY <2>1, <2>5
  <2> HIDE DEF Of
  <2>6. ToSet(g[N]) = Of(N)
    BY <2>8 DEF S
  <2>7. g[N] \in Seq(V)
    BY <2>1, <2>2 DEF Joins
  <2> QED
    BY <2>1, <2>2, <2>6, <2>7 DEF Of
<1> QED
  BY <1>1, <1>2

\* The names of operations.
OpNames == {"hook", "computer_name", "workgroup", "dns_suffix", "admin", "mac", "ipv4", "profile",
            "scan", "link", "service", "account", "share", "mapping", "firewall",
            "restart_adapter", "install"}

\* What an operation is called, in a list of one or none.
LEMMA OpsOfOne ==
  /\ OpsOf(<<>>) = <<>>
  /\ \A x : OpsOf(<<x>>) = <<x.op>>
<1>1. OpsOf(<<>>) = <<>>
  BY DEF OpsOf
<1>2. ASSUME NEW x PROVE OpsOf(<<x>>) = <<x.op>>
  <2>1. DOMAIN <<x>> = 1..1 /\ <<x>>[1] = x
    OBVIOUS
  <2> QED
    BY <2>1 DEF OpsOf
<1> QED
  BY <1>1, <1>2

\* The names of a list of operations are a list of names.
LEMMA OpsOfList ==
  ASSUME NEW V, NEW s \in Seq(V), \A v \in V : v.op \in OpNames
  PROVE  /\ OpsOf(s) \in Seq(OpNames) /\ Len(OpsOf(s)) = Len(s) /\ DOMAIN OpsOf(s) = DOMAIN s
         /\ \A k \in DOMAIN s : OpsOf(s)[k] = s[k].op
<1>1. DOMAIN s = 1..Len(s) /\ Len(s) \in Nat /\ \A k \in 1..Len(s) : s[k] \in V
  OBVIOUS
<1>2. OpsOf(s) = [k \in 1..Len(s) |-> s[k].op]
  BY <1>1 DEF OpsOf
<1> QED
  BY <1>1, <1>2

\* Joined lists of operations have joined names.
LEMMA OpsOfJoined ==
  ASSUME NEW V, NEW s \in Seq(V), NEW t \in Seq(V), \A v \in V : v.op \in OpNames
  PROVE  OpsOf(s \o t) = OpsOf(s) \o OpsOf(t)
<1> DEFINE a == OpsOf(s)
           b == OpsOf(t)
           j == OpsOf(s \o t)
<1>1. /\ a \in Seq(OpNames) /\ Len(a) = Len(s) /\ DOMAIN a = DOMAIN s
      /\ \A k \in DOMAIN s : a[k] = s[k].op
  BY OpsOfList
<1>2. /\ b \in Seq(OpNames) /\ Len(b) = Len(t) /\ DOMAIN b = DOMAIN t
      /\ \A k \in DOMAIN t : b[k] = t[k].op
  BY OpsOfList
<1>3. /\ s \o t \in Seq(V) /\ Len(s) \in Nat /\ Len(t) \in Nat
      /\ DOMAIN s = 1..Len(s) /\ DOMAIN t = 1..Len(t) /\ DOMAIN (s \o t) = 1..(Len(s) + Len(t))
      /\ \A k \in 1..Len(s) : (s \o t)[k] = s[k]
      /\ \A k \in (Len(s) + 1)..(Len(s) + Len(t)) :
           k - Len(s) \in 1..Len(t) /\ (s \o t)[k] = t[k - Len(s)]
  BY Elements
<1>4. /\ j \in Seq(OpNames) /\ DOMAIN j = 1..(Len(s) + Len(t))
      /\ \A k \in 1..(Len(s) + Len(t)) : j[k] = (s \o t)[k].op
  BY <1>3, OpsOfList
<1> HIDE DEF a, b, j
<1>5. /\ a \o b \in Seq(OpNames) /\ DOMAIN (a \o b) = 1..(Len(s) + Len(t))
      /\ \A k \in 1..Len(s) : (a \o b)[k] = a[k]
      /\ \A k \in (Len(s) + 1)..(Len(s) + Len(t)) : (a \o b)[k] = b[k - Len(s)]
  <2>1. /\ a \o b \in Seq(OpNames) /\ DOMAIN (a \o b) = 1..(Len(a) + Len(b))
        /\ \A k \in 1..Len(a) : (a \o b)[k] = a[k]
        /\ \A k \in (Len(a) + 1)..(Len(a) + Len(b)) : (a \o b)[k] = b[k - Len(a)]
    <3>1. a \in Seq(OpNames) /\ b \in Seq(OpNames)
      BY <1>1, <1>2
    <3> QED
      BY <3>1, Elements
  <2> QED
    BY <1>1, <1>2, <2>1
<1>6. ASSUME NEW k \in 1..(Len(s) + Len(t)) PROVE j[k] = (a \o b)[k]
  <2>0. j[k] = (s \o t)[k].op
    BY <1>4
  <2>1. CASE k \in 1..Len(s)
    <3>1. (s \o t)[k] = s[k] /\ k \in DOMAIN s
      BY <1>3, <2>1
    <3>2. (a \o b)[k] = a[k]
      BY <1>5, <2>1
    <3>3. a[k] = s[k].op
      BY <1>1, <3>1
    <3> QED
      BY <2>0, <3>1, <3>2, <3>3
  <2>2. CASE k \in (Len(s) + 1)..(Len(s) + Len(t))
    <3>1. (s \o t)[k] = t[k - Len(s)] /\ k - Len(s) \in DOMAIN t
      BY <1>3, <2>2
    <3>2. (a \o b)[k] = b[k - Len(s)]
      BY <1>5, <2>2
    <3>3. b[k - Len(s)] = t[k - Len(s)].op
      BY <1>2, <3>1
    <3> QED
      BY <2>0, <3>1, <3>2, <3>3
  <2>3. k \in 1..Len(s) \/ k \in (Len(s) + 1)..(Len(s) + Len(t))
    BY <1>3
  <2> QED
    BY <2>1, <2>2, <2>3
<1>7. j = a \o b
  <2>1. Len(s) + Len(t) \in Nat
    BY <1>3
  <2> QED
    BY <1>4, <1>5, <1>6, <2>1, SameList
<1> QED
  BY <1>7 DEF a, b, j

\* Lists with the same names, one by one, have the same names in all.
LEMMA FlattenOps ==
  ASSUME NEW V, NEW W, NEW ss \in Seq(Seq(V)), NEW tt \in Seq(Seq(W)),
         \A v \in V : v.op \in OpNames, \A w \in W : w.op \in OpNames,
         DOMAIN ss = DOMAIN tt, \A k \in DOMAIN ss : OpsOf(ss[k]) = OpsOf(tt[k])
  PROVE  OpsOf(FlattenSeq(ss)) = OpsOf(FlattenSeq(tt))
<1>1. CASE ss = <<>>
  <2>1. tt = <<>>
    <3>1. DOMAIN ss = {} /\ DOMAIN tt = 1..Len(tt) /\ Len(tt) \in Nat
      BY <1>1
    <3>2. 1 \notin 1..Len(tt)
      BY <3>1
    <3>3. Len(tt) = 0
      BY <3>1, <3>2
    <3> QED
      BY <3>3
  <2> QED
    BY <1>1, <2>1 DEF FlattenSeq
<1>2. CASE ss # <<>>
  <2> DEFINE N == Len(ss)
  <2>1. /\ N \in Nat /\ N >= 1 /\ DOMAIN ss = 1..N /\ \A i \in 1..N : ss[i] \in Seq(V)
        /\ Len(tt) = N /\ tt # <<>> /\ \A i \in 1..N : tt[i] \in Seq(W)
    <3>1. /\ N \in Nat /\ N >= 1 /\ DOMAIN ss = 1..N /\ \A i \in 1..N : ss[i] \in Seq(V)
          /\ DOMAIN tt = 1..Len(tt) /\ Len(tt) \in Nat
      BY <1>2
    <3>2. Len(tt) = N
      BY <3>1, SameLength
    <3>3. tt # <<>>
      BY <3>1, <3>2
    <3>4. \A i \in 1..Len(tt) : tt[i] \in Seq(W)
      OBVIOUS
    <3> QED
      BY <3>1, <3>2, <3>3, <3>4
  <2>2. PICK g : Joins(V, ss, N, g) /\ FlattenSeq(ss) = g[N]
    BY <1>2, FlattenJoins
  <2>3. PICK h : Joins(W, tt, N, h) /\ FlattenSeq(tt) = h[N]
    BY <2>1, FlattenJoins
  <2> DEFINE S == {n \in 1..N : OpsOf(g[n]) = OpsOf(h[n])}
  <2>4. 1 \in S
    <3>1. g[1] = ss[1] /\ h[1] = tt[1] /\ 1 \in DOMAIN ss
      BY <2>1, <2>2, <2>3 DEF Joins
    <3> QED
      BY <2>1, <3>1
  <2>5. ASSUME NEW n \in 2..N, n - 1 \in S PROVE n \in S
    <3>1. n \in 1..N /\ n - 1 \in 1..N
      BY <2>1
    <3>2. g[n] = g[n - 1] \o ss[n] /\ g[n - 1] \in Seq(V)
      BY <2>2, <3>1 DEF Joins
    <3>3. h[n] = h[n - 1] \o tt[n] /\ h[n - 1] \in Seq(W)
      BY <2>3, <3>1 DEF Joins
    <3>4. OpsOf(g[n]) = OpsOf(g[n - 1]) \o OpsOf(ss[n])
      BY <2>1, <3>1, <3>2, OpsOfJoined
    <3>5. OpsOf(h[n]) = OpsOf(h[n - 1]) \o OpsOf(tt[n])
      BY <2>1, <3>1, <3>3, OpsOfJoined
    <3>6. OpsOf(ss[n]) = OpsOf(tt[n])
      BY <2>1, <3>1
    <3> QED
      BY <2>5, <3>1, <3>4, <3>5, <3>6
  <2> HIDE DEF S
  <2>6. N \in S
    <3>1. 1..N \subseteq S
      BY <2>1, <2>4, <2>5, Positions
    <3>2. N \in 1..N
      BY <2>1
    <3> QED
      BY <3>1, <3>2
  <2> QED
    BY <2>2, <2>3, <2>6 DEF S
<1> QED
  BY <1>1, <1>2

\* ss has one c for each entry of hs that is h.
Marks(hs, h, c, ss) ==
  /\ DOMAIN ss = DOMAIN hs
  /\ ss = [k \in DOMAIN hs |-> ss[k]]
  /\ \A k \in DOMAIN hs : ss[k] = IF hs[k] = h THEN <<c>> ELSE <<>>

\* As many operations as entries of hs that are h.
LEMMA FlattenCounts ==
  ASSUME NEW H, NEW hs \in Seq(H), NEW h, NEW V, NEW c \in V, NEW ss, Marks(hs, h, c, ss)
  PROVE  /\ ss \in Seq(Seq(V))
         /\ Len(FlattenSeq(ss)) = Cardinality({k \in DOMAIN hs : hs[k] = h})
<1> DEFINE Is(n) == {k \in 1..n : hs[k] = h}
           N == Len(hs)
<1>1. N \in Nat /\ DOMAIN hs = 1..N
  OBVIOUS
<1>2. <<c>> \in Seq(V) /\ Len(<<c>>) = 1 /\ <<>> \in Seq(V)
  OBVIOUS
<1>3. /\ \A k \in 1..N : ss[k] = IF hs[k] = h THEN <<c>> ELSE <<>>
      /\ DOMAIN ss = 1..N
  BY <1>1 DEF Marks
<1>4. ss \in Seq(Seq(V)) /\ Len(ss) = N
  <2>1. ss = [k \in 1..N |-> ss[k]]
    BY <1>1 DEF Marks
  <2>2. \A k \in 1..N : ss[k] \in Seq(V)
    BY <1>2, <1>3
  <2> QED
    BY <1>1, <2>1, <2>2
<1>5. CASE N = 0
  <2>1. ss = <<>>
    BY <1>4, <1>5
  <2>2. FlattenSeq(ss) = <<>>
    BY <2>1 DEF FlattenSeq
  <2>3. Len(FlattenSeq(ss)) = 0
    BY <2>2
  <2>4. {k \in DOMAIN hs : hs[k] = h} = {}
    BY <1>1, <1>5
  <2>5. Cardinality({}) = 0
    BY FS_EmptySet
  <2> QED
    BY <1>4, <2>3, <2>4, <2>5
<1>6. CASE N # 0
  <2>1. ss # <<>>
    BY <1>1, <1>4, <1>6
  <2>2. PICK g : Joins(V, ss, N, g) /\ FlattenSeq(ss) = g[N]
    BY <1>4, <2>1, FlattenJoins
  <2> DEFINE S == {n \in 1..N : IsFiniteSet(Is(n)) /\ Len(g[n]) = Cardinality(Is(n))}
  <2>3. Is(0) = {} /\ IsFiniteSet({}) /\ Cardinality({}) = 0
    BY FS_EmptySet
  <2>4. ASSUME NEW n \in 1..N, IsFiniteSet(Is(n - 1)), NEW m, m = Cardinality(Is(n - 1)),
               NEW s \in Seq(V), Len(s) = m
        PROVE  IsFiniteSet(Is(n)) /\ Len(s \o ss[n]) = Cardinality(Is(n))
    <3>1. n \in Nat /\ n >= 1 /\ 1..n = 1..(n - 1) \cup {n} /\ n \notin 1..(n - 1)
      BY <1>1
    <3>2. Len(s) \in Nat
      OBVIOUS
    <3>3. CASE hs[n] = h
      <4>1. Is(n) = Is(n - 1) \cup {n} /\ n \notin Is(n - 1)
        BY <3>1, <3>3
      <4>2. /\ IsFiniteSet(Is(n - 1) \cup {n})
            /\ Cardinality(Is(n - 1) \cup {n}) = Cardinality(Is(n - 1)) + 1
        <5> HIDE DEF Is
        <5> QED
          BY <2>4, <4>1, FS_AddElement
      <4>5. IsFiniteSet(Is(n)) /\ Cardinality(Is(n)) = Cardinality(Is(n - 1)) + 1
        BY <4>1, <4>2
      <4>3. ss[n] = <<c>>
        BY <1>3, <3>3
      <4>4. Len(s \o ss[n]) = Len(s) + 1
        <5>1. Len(s \o <<c>>) = Len(s) + 1
          BY <1>2
        <5> QED
          BY <4>3, <5>1
      <4> QED
        BY <2>4, <4>4, <4>5
    <3>4. CASE hs[n] # h
      <4>1. Is(n) = Is(n - 1)
        BY <3>1, <3>4
      <4>2. ss[n] = <<>>
        BY <1>3, <3>4
      <4>3. s \o ss[n] = s
        BY <4>2
      <4> QED
        BY <2>4, <4>1, <4>3
    <3> QED
      BY <3>3, <3>4
  <2> HIDE DEF Is
  <2>5. 1 \in S
    <3>1. /\ IsFiniteSet(Is(1)) /\ Len(<<>> \o ss[1]) = Cardinality(Is(1))
      <4>1. 1 \in 1..N /\ 1 - 1 = 0
        BY <1>1, <1>6
      <4>2. Len(<<>>) = 0 /\ <<>> \in Seq(V)
        OBVIOUS
      <4> QED
        BY <2>3, <2>4, <4>1, <4>2
    <3>2. g[1] = ss[1] /\ ss[1] \in Seq(V)
      BY <1>1, <1>4, <1>6, <2>2 DEF Joins
    <3>3. <<>> \o ss[1] = ss[1]
      BY <3>2
    <3> QED
      BY <1>1, <1>6, <3>1, <3>2, <3>3
  <2>6. ASSUME NEW n \in 2..N, n - 1 \in S PROVE n \in S
    <3>1. n \in 1..N /\ n - 1 \in 1..N
      BY <1>1
    <3>2. g[n] = g[n - 1] \o ss[n] /\ g[n - 1] \in Seq(V)
      BY <2>2, <3>1 DEF Joins
    <3>3. IsFiniteSet(Is(n)) /\ Len(g[n - 1] \o ss[n]) = Cardinality(Is(n))
      BY <2>4, <2>6, <3>1, <3>2
    <3> QED
      BY <3>1, <3>2, <3>3
  <2> HIDE DEF S
  <2>7. 1..N \subseteq S
    BY <1>1, <1>6, <2>5, <2>6, Positions
  <2>8. Len(g[N]) = Cardinality(Is(N))
    BY <1>1, <1>6, <2>7 DEF S
  <2>9. Is(N) = {k \in DOMAIN hs : hs[k] = h}
    BY <1>1 DEF Is
  <2> QED
    BY <1>4, <2>2, <2>8, <2>9
<1> QED
  BY <1>5, <1>6


-----------------------------------------------------------------------------
(* The entries of a document, the operations of its plan and its steps.    *)

OneAdapter == [on : Names, enabled : {"on", "off", "keep"}, mac : BOOLEAN, ipv4 : BOOLEAN]
OneProfile == [name : Name, auth : {"open", "wpa2", "wpa3"}, psk : {"none", "env", "raw"}]
OneAction  == [action : {"scan", "connect", "disconnect"}, on : Names, profile : Name \cup {None}]
OneService == [name : Name, to : {"running", "stopped"}]
OneAccount == [id : Name, kind : {"local", "credential"}]
OneShare   == [name : Name, accounts : Seq(Name)]
OneMapping == [local : Name \cup {None}, account : Name \cup {None},
               inline : SUBSET {"username", "password"}]
OneDriver  == [op : {"install", "restart_adapter"}, on : Names, hardware : BOOLEAN,
               force : BOOLEAN, restart : {"never", "if_required", "always"}]
HookStages == {"before_apply", "after_apply", "after_rollback"}

\* The operations a plan can have.
PlanOps ==
  { Op("hook", "hook.execute"), Op("computer_name", "identity.computer_name.apply"),
    Op("workgroup", "identity.workgroup.apply"), Op("dns_suffix", "identity.dns_suffix.apply"),
    Op("admin", "adapter.state.apply"), Op("mac", "adapter.mac.apply"),
    Op("ipv4", "adapter.ipv4.apply"), Op("profile", "wifi.profile.apply"),
    Op("scan", "wifi.scan"), Op("link", "wifi.connect"), Op("link", "wifi.disconnect"),
    Op("service", "service.apply"), Op("account", "smb.account.apply"),
    Op("share", "smb.share.apply"), Op("mapping", "smb.mapping.apply"),
    Op("firewall", "firewall.apply"), Op("restart_adapter", "adapter.restart"),
    Op("install", "driver.install"), Op("install", "driver.force_install") }

Things == Names \cup {Server, Workstation, None, HostName}
Values == {"new", "on", "off", "down", "running", "stopped"}
StepOf(ops) == [op : ops, on : Things, to : Values]
IdentityOps == {"computer_name", "workgroup", "dns_suffix"}
AdapterOps == {"admin", "mac", "ipv4"}

\* The parts of the steps of a document, and of its plan.
RunIdentity == IdentitySteps(Sections)
RunAdapters == ForEach(Sections.adapters, AdapterSteps)
RunProfiles == Each(Sections.wifi, LAMBDA p : Ask("profile", p, "new"))
RunActions  == Each(Sections.actions, WifiStep)
RunServices == Each(Sections.services, LAMBDA s : Ask("service", s.on, s.to))
RunAccounts ==
  ForEach(Sections.accounts, LAMBDA a : When(a.kind = "local", Ask("account", a.on, "new")))
RunShares   == Each(Sections.shares, LAMBDA s : Ask("share", s, "new"))
RunMappings == Each(Sections.mappings, LAMBDA d : Ask("mapping", d, "new"))
RunFirewall == When(Sections.firewall, Ask("firewall", HostName, "new"))

PlanAdapters == ForEach(document.adapters, PlanAdapter)
PlanProfiles == Each(document.wifi, LAMBDA w : Op("profile", "wifi.profile.apply"))
PlanActions  == Each(document.actions, PlanAction)
PlanServices == Each(document.services, LAMBDA s : Op("service", "service.apply"))
PlanAccounts ==
  ForEach(document.accounts, LAMBDA a : When(a.kind = "local", Op("account", "smb.account.apply")))
PlanShares   == Each(document.shares, LAMBDA s : Op("share", "smb.share.apply"))
PlanMappings == Each(document.mappings, LAMBDA m : Op("mapping", "smb.mapping.apply"))
PlanFirewall == When(document.firewall, Op("firewall", "firewall.apply"))
PlanDrivers  == Each(document.drivers, PlanDriver)

\* The steps and the plan are their parts, in the order of the code.
LEMMA RunParts ==
  /\ Runs.steps = ((((RunIdentity \o RunAdapters) \o (RunProfiles \o RunActions)) \o RunServices)
                     \o ((RunAccounts \o RunShares) \o RunMappings)) \o RunFirewall
  /\ Runs.drivers = document.drivers
<1>1. Sections.drivers = document.drivers
  BY DEF Sections
<1>2. Runs.drivers = Sections.drivers
  BY DEF Runs, Program
<1>3. Runs.steps = IdentitySteps(Sections)
                  \o ForEach(Sections.adapters, AdapterSteps)
                  \o WifiSteps(Sections)
                  \o Each(Sections.services, LAMBDA s : Ask("service", s.on, s.to))
                  \o SmbSteps(Sections)
                  \o When(Sections.firewall, Ask("firewall", HostName, "new"))
  BY DEF Runs, Program
<1> QED
  BY <1>1, <1>2, <1>3 DEF WifiSteps, SmbSteps, RunIdentity, RunAdapters, RunProfiles, RunActions,
     RunServices, RunAccounts, RunShares, RunMappings, RunFirewall

\* The plan is its parts, in the order of build_plan.
LEMMA PlanParts ==
  BuildPlan = (((((((((PlanHooks("before_apply") \o PlanIdentity) \o PlanAdapters) \o PlanProfiles)
                \o PlanActions) \o PlanServices) \o ((PlanAccounts \o PlanShares) \o PlanMappings))
                \o PlanFirewall) \o PlanDrivers) \o PlanHooks("after_apply"))
                \o PlanHooks("after_rollback")
BY DEF BuildPlan, PlanSmb, PlanAdapters, PlanProfiles, PlanActions, PlanServices, PlanAccounts,
       PlanShares, PlanMappings, PlanFirewall, PlanDrivers

\* What a document consists of.
LEMMA EntryTypes ==
  ASSUME document \in NetplanConfig
  PROVE  /\ document.identity \in SUBSET IdentityOps
         /\ document.adapters \in Seq(OneAdapter)
         /\ document.wifi \in Seq(OneProfile)
         /\ document.actions \in Seq(OneAction)
         /\ document.services \in Seq(OneService)
         /\ document.accounts \in Seq(OneAccount)
         /\ document.shares \in Seq(OneShare)
         /\ document.mappings \in Seq(OneMapping)
         /\ document.firewall \in BOOLEAN
         /\ document.drivers \in Seq(OneDriver)
         /\ document.hooks \in Seq(HookStages)
BY DEF NetplanConfig, OneAdapter, OneProfile, OneAction, OneService, OneAccount, OneShare,
       OneMapping, OneDriver, HookStages, IdentityOps

\* The fields of operations and steps.
LEMMA Fields ==
  /\ \A o, c : Op(o, c).op = o /\ Op(o, c).capability = c
  /\ \A o, x, v : Ask(o, x, v).op = o /\ Ask(o, x, v).on = x /\ Ask(o, x, v).to = v
BY DEF Op, Ask

\* What entries refer to are things that steps can be about.
LEMMA Referents ==
  /\ \A n \in Name : n.is \in Things
  /\ \A e \in OneAdapter : e.on \in Things
  /\ \A e \in OneProfile : e.name \in Name
  /\ \A e \in OneAction : e.on \in Things
  /\ \A e \in OneService : e.name \in Name /\ e.to \in Values
  /\ \A e \in OneAccount : e.id \in Name
  /\ \A e \in OneShare : e.name \in Name
  /\ \A e \in OneMapping : e.local = None \/ e.local \in Name
  /\ None \in Things /\ HostName \in Things
<1>1. \A n \in Name : n.is \in Things
  BY DEF Name, Things
<1>2. \A e \in OneAdapter : e.on \in Things
  BY DEF OneAdapter, Things
<1>3. \A e \in OneProfile : e.name \in Name
  BY DEF OneProfile
<1>4. \A e \in OneAction : e.on \in Things
  BY DEF OneAction, Things
<1>5. \A e \in OneService : e.name \in Name /\ e.to \in Values
  BY DEF OneService, Values
<1>6. \A e \in OneAccount : e.id \in Name
  BY DEF OneAccount
<1>7. \A e \in OneShare : e.name \in Name
  BY DEF OneShare
<1>8. \A e \in OneMapping : e.local = None \/ e.local \in Name
  BY DEF OneMapping
<1>9. None \in Things /\ HostName \in Things
  BY DEF Things
<1> QED
  BY <1>1, <1>2, <1>3, <1>4, <1>5, <1>6, <1>7, <1>8, <1>9

\* Operations of a plan have names a step could have, or are hooks.
LEMMA PlanOpsNamed == \A q \in PlanOps : q.op \in OpNames
BY Fields DEF PlanOps, OpNames

\* A step is typed by its operation.
LEMMA StepsTyped ==
  /\ \A ops : \A o \in ops, x \in Things, v \in Values : Ask(o, x, v) \in StepOf(ops)
  /\ \A ops : \A r \in StepOf(ops) : r.op \in ops
BY DEF Ask, StepOf

\* A list of one or none.
LEMMA WhenList ==
  ASSUME NEW V, NEW x \in V, NEW c \in BOOLEAN
  PROVE  When(c, x) \in Seq(V) /\ OpsOf(When(c, x)) = When(c, x.op)
<1>1. CASE c
  <2>1. When(c, x) = <<x>> /\ When(c, x.op) = <<x.op>>
    BY <1>1 DEF When
  <2> QED
    BY <2>1, OpsOfOne
<1>2. CASE ~c
  <2>1. When(c, x) = <<>> /\ When(c, x.op) = <<>>
    BY <1>2 DEF When
  <2> QED
    BY <2>1, OpsOfOne
<1> QED
  BY <1>1, <1>2

\* A list of one element for each position of another.
LEMMA ListOf ==
  ASSUME NEW V, NEW s \in Seq(V), NEW W, NEW f, f = [k \in DOMAIN s |-> f[k]],
         \A k \in DOMAIN s : f[k] \in W
  PROVE  f \in Seq(W) /\ DOMAIN f = DOMAIN s /\ Len(f) = Len(s)
<1>1. DOMAIN s = 1..Len(s) /\ Len(s) \in Nat
  OBVIOUS
<1>2. f = [k \in 1..Len(s) |-> f[k]]
  BY <1>1
<1>3. \A k \in 1..Len(s) : f[k] \in W
  BY <1>1
<1>4. f \in [1..Len(s) -> W]
  BY <1>2, <1>3
<1>5. f \in Seq(W) /\ Len(f) = Len(s)
  BY <1>1, <1>4
<1> QED
  BY <1>1, <1>2, <1>5

\* Lists of operations with the same names.
LEMMA SameOps ==
  ASSUME NEW V, NEW W, NEW s \in Seq(V), NEW t \in Seq(W), DOMAIN s = DOMAIN t,
         \A k \in DOMAIN s : s[k].op = t[k].op
  PROVE  OpsOf(s) = OpsOf(t)
BY DEF OpsOf

-----------------------------------------------------------------------------
(* Section by section, the plan has the names of the steps.                *)

\* The three names are planned and set in the same order.
LEMMA IdentityPart ==
  ASSUME document \in NetplanConfig
  PROVE  /\ PlanIdentity \in Seq(PlanOps) /\ RunIdentity \in Seq(StepOf(IdentityOps))
         /\ OpsOf(PlanIdentity) = OpsOf(RunIdentity)
<1> DEFINE V == PlanOps
           W == StepOf(IdentityOps)
           p(name, c) == When(name \in document.identity, Op(name, c))
           r(name) == When(name \in document.identity, Ask(name, HostName, "new"))
           p1 == p("computer_name", "identity.computer_name.apply")
           p2 == p("workgroup", "identity.workgroup.apply")
           p3 == p("dns_suffix", "identity.dns_suffix.apply")
           r1 == r("computer_name")
           r2 == r("workgroup")
           r3 == r("dns_suffix")
<1>1. PlanIdentity = p1 \o p2 \o p3
  BY DEF PlanIdentity
<1>2. RunIdentity = r1 \o r2 \o r3
  BY DEF RunIdentity, IdentitySteps, Sections
<1>3. HostName \in Things
  BY DEF Things
<1>4. ASSUME NEW o \in IdentityOps, NEW c, Op(o, c) \in V
      PROVE  p(o, c) \in Seq(V) /\ r(o) \in Seq(W) /\ OpsOf(p(o, c)) = OpsOf(r(o))
  <2>2. Op(o, c) \in V /\ Op(o, c).op = o
    BY <1>4, Fields
  <2>3. Ask(o, HostName, "new") \in W /\ Ask(o, HostName, "new").op = o
    BY <1>3, StepsTyped, Fields DEF Values
  <2>4. (o \in document.identity) \in BOOLEAN
    OBVIOUS
  <2>5. p(o, c) \in Seq(V) /\ OpsOf(p(o, c)) = When(o \in document.identity, o)
    BY <2>2, <2>4, WhenList
  <2>6. r(o) \in Seq(W) /\ OpsOf(r(o)) = When(o \in document.identity, o)
    BY <2>3, <2>4, WhenList
  <2> QED
    BY <2>5, <2>6
<1>5. p1 \in Seq(V) /\ r1 \in Seq(W) /\ OpsOf(p1) = OpsOf(r1)
  BY <1>4 DEF PlanOps, IdentityOps
<1>6. p2 \in Seq(V) /\ r2 \in Seq(W) /\ OpsOf(p2) = OpsOf(r2)
  BY <1>4 DEF PlanOps, IdentityOps
<1>7. p3 \in Seq(V) /\ r3 \in Seq(W) /\ OpsOf(p3) = OpsOf(r3)
  BY <1>4 DEF PlanOps, IdentityOps
<1>8. (\A v \in V : v.op \in OpNames) /\ (\A w \in W : w.op \in OpNames)
  BY PlanOpsNamed, StepsTyped DEF IdentityOps, OpNames
<1> HIDE DEF V, W, p1, p2, p3, r1, r2, r3
<1>9. /\ p1 \o p2 \in Seq(V) /\ p1 \o p2 \o p3 \in Seq(V)
      /\ r1 \o r2 \in Seq(W) /\ r1 \o r2 \o r3 \in Seq(W)
  BY <1>5, <1>6, <1>7
<1>10. OpsOf(p1 \o p2) = OpsOf(p1) \o OpsOf(p2) /\ OpsOf(r1 \o r2) = OpsOf(r1) \o OpsOf(r2)
  BY <1>5, <1>6, <1>8, OpsOfJoined
<1>11. /\ OpsOf(p1 \o p2 \o p3) = OpsOf(p1 \o p2) \o OpsOf(p3)
       /\ OpsOf(r1 \o r2 \o r3) = OpsOf(r1 \o r2) \o OpsOf(r3)
  BY <1>7, <1>8, <1>9, OpsOfJoined
<1> QED
  BY <1>1, <1>2, <1>5, <1>6, <1>7, <1>9, <1>10, <1>11 DEF V, W

\* One adapter: enabled first, disabled last, in both.
LEMMA OneAdapterPart ==
  ASSUME NEW a \in OneAdapter
  PROVE  /\ PlanAdapter(a) \in Seq(PlanOps) /\ AdapterSteps(a) \in Seq(StepOf(AdapterOps))
         /\ OpsOf(PlanAdapter(a)) = OpsOf(AdapterSteps(a))
<1> DEFINE V == PlanOps
           W == StepOf(AdapterOps)
           p1 == When(a.enabled = "on", Op("admin", "adapter.state.apply"))
           p2 == When(a.mac, Op("mac", "adapter.mac.apply"))
           p3 == When(a.ipv4, Op("ipv4", "adapter.ipv4.apply"))
           p4 == When(a.enabled = "off", Op("admin", "adapter.state.apply"))
           r1 == When(a.enabled = "on", Ask("admin", a.on, "on"))
           r2 == When(a.mac, Ask("mac", a.on, "new"))
           r3 == When(a.ipv4, Ask("ipv4", a.on, "new"))
           r4 == When(a.enabled = "off", Ask("admin", a.on, "off"))
<1>1. PlanAdapter(a) = p1 \o p2 \o p3 \o p4
  BY DEF PlanAdapter
<1>2. AdapterSteps(a) = r1 \o r2 \o r3 \o r4
  BY DEF AdapterSteps
<1>3. a.on \in Things /\ a.mac \in BOOLEAN /\ a.ipv4 \in BOOLEAN
  BY Referents DEF OneAdapter
<1>0. /\ "admin" \in AdapterOps /\ "mac" \in AdapterOps /\ "ipv4" \in AdapterOps
      /\ Op("admin", "adapter.state.apply") \in V /\ Op("mac", "adapter.mac.apply") \in V
      /\ Op("ipv4", "adapter.ipv4.apply") \in V
      /\ "on" \in Values /\ "off" \in Values /\ "new" \in Values
  BY DEF PlanOps, AdapterOps, Values
<1>4. ASSUME NEW o \in AdapterOps, NEW c, Op(o, c) \in V, NEW v \in Values, NEW b \in BOOLEAN
      PROVE  /\ When(b, Op(o, c)) \in Seq(V) /\ When(b, Ask(o, a.on, v)) \in Seq(W)
             /\ OpsOf(When(b, Op(o, c))) = OpsOf(When(b, Ask(o, a.on, v)))
  <2>2. Op(o, c) \in V /\ Op(o, c).op = o
    BY <1>4, Fields
  <2>3. Ask(o, a.on, v) \in W /\ Ask(o, a.on, v).op = o
    BY <1>3, StepsTyped, Fields
  <2>5. When(b, Op(o, c)) \in Seq(V) /\ OpsOf(When(b, Op(o, c))) = When(b, o)
    BY <2>2, WhenList
  <2>6. When(b, Ask(o, a.on, v)) \in Seq(W) /\ OpsOf(When(b, Ask(o, a.on, v))) = When(b, o)
    BY <2>3, WhenList
  <2> QED
    BY <2>5, <2>6
<1>5. p1 \in Seq(V) /\ r1 \in Seq(W) /\ OpsOf(p1) = OpsOf(r1)
  <2>1. CASE a.enabled = "on"
    <3>1. /\ p1 = When(TRUE, Op("admin", "adapter.state.apply"))
          /\ r1 = When(TRUE, Ask("admin", a.on, "on"))
      BY <2>1 DEF When
    <3> QED
      BY <1>0, <1>4, <3>1
  <2>2. CASE a.enabled # "on"
    <3>1. /\ p1 = When(FALSE, Op("admin", "adapter.state.apply"))
          /\ r1 = When(FALSE, Ask("admin", a.on, "on"))
      BY <2>2 DEF When
    <3> QED
      BY <1>0, <1>4, <3>1
  <2> QED
    BY <2>1, <2>2
<1>6. p2 \in Seq(V) /\ r2 \in Seq(W) /\ OpsOf(p2) = OpsOf(r2)
  BY <1>0, <1>3, <1>4
<1>7. p3 \in Seq(V) /\ r3 \in Seq(W) /\ OpsOf(p3) = OpsOf(r3)
  BY <1>0, <1>3, <1>4
<1>8. p4 \in Seq(V) /\ r4 \in Seq(W) /\ OpsOf(p4) = OpsOf(r4)
  <2>1. CASE a.enabled = "off"
    <3>1. /\ p4 = When(TRUE, Op("admin", "adapter.state.apply"))
          /\ r4 = When(TRUE, Ask("admin", a.on, "off"))
      BY <2>1 DEF When
    <3> QED
      BY <1>0, <1>4, <3>1
  <2>2. CASE a.enabled # "off"
    <3>1. /\ p4 = When(FALSE, Op("admin", "adapter.state.apply"))
          /\ r4 = When(FALSE, Ask("admin", a.on, "off"))
      BY <2>2 DEF When
    <3> QED
      BY <1>0, <1>4, <3>1
  <2> QED
    BY <2>1, <2>2
<1>9. (\A v \in V : v.op \in OpNames) /\ (\A w \in W : w.op \in OpNames)
  BY PlanOpsNamed, StepsTyped DEF OpNames, AdapterOps
<1> HIDE DEF V, W, p1, p2, p3, p4, r1, r2, r3, r4
<1>10. /\ p1 \o p2 \in Seq(V) /\ p1 \o p2 \o p3 \in Seq(V) /\ p1 \o p2 \o p3 \o p4 \in Seq(V)
       /\ r1 \o r2 \in Seq(W) /\ r1 \o r2 \o r3 \in Seq(W) /\ r1 \o r2 \o r3 \o r4 \in Seq(W)
  BY <1>5, <1>6, <1>7, <1>8
<1>11. OpsOf(p1 \o p2) = OpsOf(p1) \o OpsOf(p2) /\ OpsOf(r1 \o r2) = OpsOf(r1) \o OpsOf(r2)
  BY <1>5, <1>6, <1>9, OpsOfJoined
<1>12. /\ OpsOf(p1 \o p2 \o p3) = OpsOf(p1 \o p2) \o OpsOf(p3)
       /\ OpsOf(r1 \o r2 \o r3) = OpsOf(r1 \o r2) \o OpsOf(r3)
  BY <1>7, <1>9, <1>10, OpsOfJoined
<1>13. /\ OpsOf(p1 \o p2 \o p3 \o p4) = OpsOf(p1 \o p2 \o p3) \o OpsOf(p4)
       /\ OpsOf(r1 \o r2 \o r3 \o r4) = OpsOf(r1 \o r2 \o r3) \o OpsOf(r4)
  BY <1>8, <1>9, <1>10, OpsOfJoined
<1> QED
  BY <1>1, <1>2, <1>5, <1>6, <1>7, <1>8, <1>10, <1>11, <1>12, <1>13 DEF V, W

\* Adapters one after the other, whatever each of them asks for.
LEMMA AdaptersPart ==
  ASSUME document \in NetplanConfig
  PROVE  /\ PlanAdapters \in Seq(PlanOps) /\ RunAdapters \in Seq(StepOf(AdapterOps))
         /\ OpsOf(PlanAdapters) = OpsOf(RunAdapters)
<1> DEFINE s == document.adapters
           ss == [k \in DOMAIN s |-> PlanAdapter(s[k])]
           tt == [k \in DOMAIN s |-> AdapterSteps(s[k])]
<1>1. s \in Seq(OneAdapter) /\ \A k \in DOMAIN s : s[k] \in OneAdapter
  <2>1. s \in Seq(OneAdapter)
    BY EntryTypes
  <2> QED
    BY <2>1
<1>2. PlanAdapters = FlattenSeq(ss)
  BY DEF PlanAdapters, ForEach, Each
<1>3. RunAdapters = FlattenSeq(tt)
  BY DEF RunAdapters, ForEach, Each, Sections
<1>4. /\ ss = [k \in DOMAIN s |-> ss[k]] /\ \A k \in DOMAIN s : ss[k] = PlanAdapter(s[k])
      /\ tt = [k \in DOMAIN s |-> tt[k]] /\ \A k \in DOMAIN s : tt[k] = AdapterSteps(s[k])
  OBVIOUS
<1> HIDE DEF s, ss, tt
<1>5. \A k \in DOMAIN s : ss[k] \in Seq(PlanOps) /\ tt[k] \in Seq(StepOf(AdapterOps))
                            /\ OpsOf(ss[k]) = OpsOf(tt[k])
  BY <1>1, <1>4, OneAdapterPart
<1>6. ss \in Seq(Seq(PlanOps)) /\ DOMAIN ss = DOMAIN s
  BY <1>1, <1>4, <1>5, ListOf
<1>7. tt \in Seq(Seq(StepOf(AdapterOps))) /\ DOMAIN tt = DOMAIN s
  BY <1>1, <1>4, <1>5, ListOf
<1>8. (\A v \in PlanOps : v.op \in OpNames) /\ (\A w \in StepOf(AdapterOps) : w.op \in OpNames)
  BY PlanOpsNamed, StepsTyped DEF OpNames, AdapterOps
<1>9. OpsOf(FlattenSeq(ss)) = OpsOf(FlattenSeq(tt))
  BY <1>5, <1>6, <1>7, <1>8, FlattenOps
<1>10. FlattenSeq(ss) \in Seq(PlanOps) /\ FlattenSeq(tt) \in Seq(StepOf(AdapterOps))
  BY <1>6, <1>7, FlattenElements
<1> QED
  BY <1>2, <1>3, <1>9, <1>10

\* Profiles, one operation and one step each.
LEMMA ProfilesPart ==
  ASSUME document \in NetplanConfig
  PROVE  /\ PlanProfiles \in Seq(PlanOps) /\ RunProfiles \in Seq(StepOf({"profile"}))
         /\ DOMAIN RunProfiles = DOMAIN document.wifi
         /\ \A k \in DOMAIN document.wifi :
              RunProfiles[k] = Ask("profile", document.wifi[k].name.is, "new")
         /\ OpsOf(PlanProfiles) = OpsOf(RunProfiles)
<1> DEFINE s == document.wifi
<1>1. s \in Seq(OneProfile) /\ \A k \in DOMAIN s : s[k] \in OneProfile
  <2>1. s \in Seq(OneProfile)
    BY EntryTypes
  <2> QED
    BY <2>1
<1>2. /\ PlanProfiles = [k \in DOMAIN s |-> PlanProfiles[k]]
      /\ \A k \in DOMAIN s : PlanProfiles[k] = Op("profile", "wifi.profile.apply")
  BY DEF PlanProfiles, Each
<1>3. /\ RunProfiles = [k \in DOMAIN s |-> RunProfiles[k]]
      /\ \A k \in DOMAIN s : RunProfiles[k] = Ask("profile", s[k].name.is, "new")
  BY DEF RunProfiles, Each, Sections
<1>4. \A k \in DOMAIN s : s[k].name.is \in Things
  BY <1>1, Referents
<1> HIDE DEF s
<1>0. Op("profile", "wifi.profile.apply") \in PlanOps /\ "new" \in Values
  BY DEF PlanOps, Values
<1>5. \A k \in DOMAIN s : PlanProfiles[k] \in PlanOps /\ PlanProfiles[k].op = "profile"
  BY <1>0, <1>2, Fields
<1>6. \A k \in DOMAIN s : RunProfiles[k] \in StepOf({"profile"}) /\ RunProfiles[k].op = "profile"
  <2> SUFFICES ASSUME NEW k \in DOMAIN s
               PROVE  RunProfiles[k] \in StepOf({"profile"}) /\ RunProfiles[k].op = "profile"
    OBVIOUS
  <2>1. RunProfiles[k] = Ask("profile", s[k].name.is, "new")
    BY <1>3
  <2>2. "profile" \in {"profile"}
    OBVIOUS
  <2>3. Ask("profile", s[k].name.is, "new") \in StepOf({"profile"})
    BY <1>0, <1>4, <2>2, StepsTyped
  <2> QED
    BY <2>1, <2>3, Fields
<1>7. PlanProfiles \in Seq(PlanOps) /\ DOMAIN PlanProfiles = DOMAIN s
  BY <1>1, <1>2, <1>5, ListOf
<1>8. RunProfiles \in Seq(StepOf({"profile"})) /\ DOMAIN RunProfiles = DOMAIN s
  BY <1>1, <1>3, <1>6, ListOf
<1>9. OpsOf(PlanProfiles) = OpsOf(RunProfiles)
  BY <1>5, <1>6, <1>7, <1>8, SameOps
<1> QED
  BY <1>3, <1>7, <1>8, <1>9 DEF s

\* Services, one operation and one step each.
LEMMA ServicesPart ==
  ASSUME document \in NetplanConfig
  PROVE  /\ PlanServices \in Seq(PlanOps) /\ RunServices \in Seq(StepOf({"service"}))
         /\ DOMAIN RunServices = DOMAIN document.services
         /\ \A k \in DOMAIN document.services :
              RunServices[k] = Ask("service", document.services[k].name.is, document.services[k].to)
         /\ OpsOf(PlanServices) = OpsOf(RunServices)
<1> DEFINE s == document.services
<1>1. s \in Seq(OneService) /\ \A k \in DOMAIN s : s[k] \in OneService
  <2>1. s \in Seq(OneService)
    BY EntryTypes
  <2> QED
    BY <2>1
<1>2. /\ PlanServices = [k \in DOMAIN s |-> PlanServices[k]]
      /\ \A k \in DOMAIN s : PlanServices[k] = Op("service", "service.apply")
  BY DEF PlanServices, Each
<1>3. /\ RunServices = [k \in DOMAIN s |-> RunServices[k]]
      /\ \A k \in DOMAIN s : RunServices[k] = Ask("service", s[k].name.is, s[k].to)
  BY DEF RunServices, Each, Sections
<1>4. \A k \in DOMAIN s : s[k].name.is \in Things /\ s[k].to \in Values
  BY <1>1, Referents
<1> HIDE DEF s
<1>0. Op("service", "service.apply") \in PlanOps /\ "new" \in Values
  BY DEF PlanOps, Values
<1>5. \A k \in DOMAIN s : PlanServices[k] \in PlanOps /\ PlanServices[k].op = "service"
  BY <1>0, <1>2, Fields
<1>6. \A k \in DOMAIN s : RunServices[k] \in StepOf({"service"}) /\ RunServices[k].op = "service"
  <2> SUFFICES ASSUME NEW k \in DOMAIN s
               PROVE  RunServices[k] \in StepOf({"service"}) /\ RunServices[k].op = "service"
    OBVIOUS
  <2>1. RunServices[k] = Ask("service", s[k].name.is, s[k].to)
    BY <1>3
  <2>2. "service" \in {"service"}
    OBVIOUS
  <2>3. Ask("service", s[k].name.is, s[k].to) \in StepOf({"service"})
    BY <1>0, <1>4, <2>2, StepsTyped
  <2> QED
    BY <2>1, <2>3, Fields
<1>7. PlanServices \in Seq(PlanOps) /\ DOMAIN PlanServices = DOMAIN s
  BY <1>1, <1>2, <1>5, ListOf
<1>8. RunServices \in Seq(StepOf({"service"})) /\ DOMAIN RunServices = DOMAIN s
  BY <1>1, <1>3, <1>6, ListOf
<1>9. OpsOf(PlanServices) = OpsOf(RunServices)
  BY <1>5, <1>6, <1>7, <1>8, SameOps
<1> QED
  BY <1>3, <1>7, <1>8, <1>9 DEF s

\* Shares, one operation and one step each.
LEMMA SharesPart ==
  ASSUME document \in NetplanConfig
  PROVE  /\ PlanShares \in Seq(PlanOps) /\ RunShares \in Seq(StepOf({"share"}))
         /\ DOMAIN RunShares = DOMAIN document.shares
         /\ \A k \in DOMAIN document.shares :
              RunShares[k] = Ask("share", document.shares[k].name.is, "new")
         /\ OpsOf(PlanShares) = OpsOf(RunShares)
<1> DEFINE s == document.shares
<1>1. s \in Seq(OneShare) /\ \A k \in DOMAIN s : s[k] \in OneShare
  <2>1. s \in Seq(OneShare)
    BY EntryTypes
  <2> QED
    BY <2>1
<1>2. /\ PlanShares = [k \in DOMAIN s |-> PlanShares[k]]
      /\ \A k \in DOMAIN s : PlanShares[k] = Op("share", "smb.share.apply")
  BY DEF PlanShares, Each
<1>3. /\ RunShares = [k \in DOMAIN s |-> RunShares[k]]
      /\ \A k \in DOMAIN s : RunShares[k] = Ask("share", s[k].name.is, "new")
  BY DEF RunShares, Each, Sections
<1>4. \A k \in DOMAIN s : s[k].name.is \in Things
  BY <1>1, Referents
<1> HIDE DEF s
<1>0. Op("share", "smb.share.apply") \in PlanOps /\ "new" \in Values
  BY DEF PlanOps, Values
<1>5. \A k \in DOMAIN s : PlanShares[k] \in PlanOps /\ PlanShares[k].op = "share"
  BY <1>0, <1>2, Fields
<1>6. \A k \in DOMAIN s : RunShares[k] \in StepOf({"share"}) /\ RunShares[k].op = "share"
  <2> SUFFICES ASSUME NEW k \in DOMAIN s
               PROVE  RunShares[k] \in StepOf({"share"}) /\ RunShares[k].op = "share"
    OBVIOUS
  <2>1. RunShares[k] = Ask("share", s[k].name.is, "new")
    BY <1>3
  <2>2. "share" \in {"share"}
    OBVIOUS
  <2>3. Ask("share", s[k].name.is, "new") \in StepOf({"share"})
    BY <1>0, <1>4, <2>2, StepsTyped
  <2> QED
    BY <2>1, <2>3, Fields
<1>7. PlanShares \in Seq(PlanOps) /\ DOMAIN PlanShares = DOMAIN s
  BY <1>1, <1>2, <1>5, ListOf
<1>8. RunShares \in Seq(StepOf({"share"})) /\ DOMAIN RunShares = DOMAIN s
  BY <1>1, <1>3, <1>6, ListOf
<1>9. OpsOf(PlanShares) = OpsOf(RunShares)
  BY <1>5, <1>6, <1>7, <1>8, SameOps
<1> QED
  BY <1>3, <1>7, <1>8, <1>9 DEF s

\* The drive of a mapping, or none.
DriveOf(m) == IF m.local = None THEN None ELSE m.local.is

\* Mappings, with or without a drive, one operation and one step each.
LEMMA MappingsPart ==
  ASSUME document \in NetplanConfig
  PROVE  /\ PlanMappings \in Seq(PlanOps) /\ RunMappings \in Seq(StepOf({"mapping"}))
         /\ DOMAIN RunMappings = DOMAIN document.mappings
         /\ \A k \in DOMAIN document.mappings :
              RunMappings[k] = Ask("mapping", DriveOf(document.mappings[k]), "new")
         /\ OpsOf(PlanMappings) = OpsOf(RunMappings)
<1> DEFINE s == document.mappings
<1>1. s \in Seq(OneMapping) /\ \A k \in DOMAIN s : s[k] \in OneMapping
  <2>1. s \in Seq(OneMapping)
    BY EntryTypes
  <2> QED
    BY <2>1
<1>2. /\ PlanMappings = [k \in DOMAIN s |-> PlanMappings[k]]
      /\ \A k \in DOMAIN s : PlanMappings[k] = Op("mapping", "smb.mapping.apply")
  BY DEF PlanMappings, Each
<1>3. /\ RunMappings = [k \in DOMAIN s |-> RunMappings[k]]
      /\ \A k \in DOMAIN s : RunMappings[k] = Ask("mapping", DriveOf(s[k]), "new")
  BY DEF RunMappings, Each, Sections, DriveOf
<1>4. \A k \in DOMAIN s : DriveOf(s[k]) \in Things
  BY <1>1, Referents DEF DriveOf
<1> HIDE DEF s
<1>0. Op("mapping", "smb.mapping.apply") \in PlanOps /\ "new" \in Values
  BY DEF PlanOps, Values
<1>5. \A k \in DOMAIN s : PlanMappings[k] \in PlanOps /\ PlanMappings[k].op = "mapping"
  BY <1>0, <1>2, Fields
<1>6. \A k \in DOMAIN s : RunMappings[k] \in StepOf({"mapping"}) /\ RunMappings[k].op = "mapping"
  <2> SUFFICES ASSUME NEW k \in DOMAIN s
               PROVE  RunMappings[k] \in StepOf({"mapping"}) /\ RunMappings[k].op = "mapping"
    OBVIOUS
  <2>1. RunMappings[k] = Ask("mapping", DriveOf(s[k]), "new")
    BY <1>3
  <2>2. "mapping" \in {"mapping"}
    OBVIOUS
  <2>3. Ask("mapping", DriveOf(s[k]), "new") \in StepOf({"mapping"})
    BY <1>0, <1>4, <2>2, StepsTyped
  <2> QED
    BY <2>1, <2>3, Fields
<1>7. PlanMappings \in Seq(PlanOps) /\ DOMAIN PlanMappings = DOMAIN s
  BY <1>1, <1>2, <1>5, ListOf
<1>8. RunMappings \in Seq(StepOf({"mapping"})) /\ DOMAIN RunMappings = DOMAIN s
  BY <1>1, <1>3, <1>6, ListOf
<1>9. OpsOf(PlanMappings) = OpsOf(RunMappings)
  BY <1>5, <1>6, <1>7, <1>8, SameOps
<1> QED
  BY <1>3, <1>7, <1>8, <1>9 DEF s

\* A Wi-Fi action is a scan, or changes the link.
LEMMA ActionsPart ==
  ASSUME document \in NetplanConfig
  PROVE  /\ PlanActions \in Seq(PlanOps) /\ RunActions \in Seq(StepOf({"scan", "link"}))
         /\ OpsOf(PlanActions) = OpsOf(RunActions)
<1> DEFINE s == document.actions
<1>1. s \in Seq(OneAction) /\ \A k \in DOMAIN s : s[k] \in OneAction
  <2>1. s \in Seq(OneAction)
    BY EntryTypes
  <2> QED
    BY <2>1
<1>2. /\ PlanActions = [k \in DOMAIN s |-> PlanActions[k]]
      /\ \A k \in DOMAIN s : PlanActions[k] = PlanAction(s[k])
  BY DEF PlanActions, Each
<1>3. /\ RunActions = [k \in DOMAIN s |-> RunActions[k]]
      /\ \A k \in DOMAIN s : RunActions[k] = WifiStep(s[k])
  BY DEF RunActions, Each, Sections
<1>0. /\ Op("scan", "wifi.scan") \in PlanOps /\ Op("link", "wifi.connect") \in PlanOps
      /\ Op("link", "wifi.disconnect") \in PlanOps /\ "new" \in Values /\ "down" \in Values
  BY DEF PlanOps, Values
<1> DEFINE W == StepOf({"scan", "link"})
<1>9. \A x \in Things, v \in Values : Ask("scan", x, v) \in W /\ Ask("link", x, v) \in W
  <2>1. "scan" \in {"scan", "link"} /\ "link" \in {"scan", "link"}
    OBVIOUS
  <2> QED
    BY <2>1, StepsTyped
<1> HIDE DEF W
<1>4. ASSUME NEW a \in OneAction
      PROVE  /\ PlanAction(a) \in PlanOps /\ WifiStep(a) \in W
             /\ PlanAction(a).op = WifiStep(a).op
  <2>1. a.on \in Things
    BY Referents
  <2>2. CASE a.action = "scan"
    <3>1. PlanAction(a) = Op("scan", "wifi.scan") /\ WifiStep(a) = Ask("scan", a.on, "new")
      BY <2>2 DEF PlanAction, WifiStep
    <3> QED
      BY <1>0, <1>9, <2>1, <3>1, Fields
  <2>3. CASE a.action = "connect"
    <3>1. PlanAction(a) = Op("link", "wifi.connect") /\ WifiStep(a) = Ask("link", a.on, "new")
      BY <2>3 DEF PlanAction, WifiStep
    <3> QED
      BY <1>0, <1>9, <2>1, <3>1, Fields
  <2>4. CASE a.action = "disconnect"
    <3>1. PlanAction(a) = Op("link", "wifi.disconnect") /\ WifiStep(a) = Ask("link", a.on, "down")
      BY <2>4 DEF PlanAction, WifiStep
    <3> QED
      BY <1>0, <1>9, <2>1, <3>1, Fields
  <2> QED
    BY <2>2, <2>3, <2>4 DEF OneAction
<1> HIDE DEF s
<1>5. \A k \in DOMAIN s : /\ PlanActions[k] \in PlanOps /\ RunActions[k] \in W
                          /\ PlanActions[k].op = RunActions[k].op
  BY <1>1, <1>2, <1>3, <1>4
<1>7. PlanActions \in Seq(PlanOps) /\ DOMAIN PlanActions = DOMAIN s
  BY <1>1, <1>2, <1>5, ListOf
<1>8. RunActions \in Seq(W) /\ DOMAIN RunActions = DOMAIN s
  BY <1>1, <1>3, <1>5, ListOf
<1>10. OpsOf(PlanActions) = OpsOf(RunActions)
  BY <1>5, <1>7, <1>8, SameOps
<1> QED
  BY <1>7, <1>8, <1>10 DEF W

\* Credentials are neither planned nor run.
LEMMA AccountsPart ==
  ASSUME document \in NetplanConfig
  PROVE  LET s == document.accounts
             tt == [k \in DOMAIN s |->
                      When(s[k].kind = "local", Ask("account", s[k].id.is, "new"))] IN
         /\ PlanAccounts \in Seq(PlanOps)
         /\ tt \in Seq(Seq(StepOf({"account"}))) /\ DOMAIN tt = DOMAIN s
         /\ RunAccounts = FlattenSeq(tt) /\ RunAccounts \in Seq(StepOf({"account"}))
         /\ ToSet(RunAccounts) = {Ask("account", s[k].id.is, "new") :
                                    k \in {n \in DOMAIN s : s[n].kind = "local"}}
         /\ OpsOf(PlanAccounts) = OpsOf(RunAccounts)
<1> DEFINE s == document.accounts
           W == StepOf({"account"})
           made == Op("account", "smb.account.apply")
           ss == [k \in DOMAIN s |-> When(s[k].kind = "local", made)]
           step(k) == Ask("account", s[k].id.is, "new")
           tt == [k \in DOMAIN s |-> When(s[k].kind = "local", step(k))]
<1>1. s \in Seq(OneAccount) /\ \A k \in DOMAIN s : s[k] \in OneAccount
  <2>1. s \in Seq(OneAccount)
    BY EntryTypes
  <2> QED
    BY <2>1
<1>2. PlanAccounts = FlattenSeq(ss)
  BY DEF PlanAccounts, ForEach, Each
<1>3. RunAccounts = FlattenSeq(tt)
  BY DEF RunAccounts, ForEach, Each, Sections
<1>4. /\ ss = [k \in DOMAIN s |-> ss[k]]
      /\ \A k \in DOMAIN s : ss[k] = When(s[k].kind = "local", made)
      /\ tt = [k \in DOMAIN s |-> tt[k]]
      /\ \A k \in DOMAIN s : tt[k] = When(s[k].kind = "local", step(k))
  OBVIOUS
<1>5. made \in PlanOps /\ made.op = "account"
  BY Fields DEF PlanOps
<1>6. \A k \in DOMAIN s : step(k) \in W /\ step(k).op = "account"
  <2>1. \A k \in DOMAIN s : s[k].id.is \in Things
    BY <1>1, Referents
  <2>2. "new" \in Values /\ "account" \in {"account"}
    BY DEF Values
  <2>3. \A k \in DOMAIN s : Ask("account", s[k].id.is, "new") \in StepOf({"account"})
    BY <2>1, <2>2, StepsTyped
  <2> QED
    BY <2>3, Fields
<1> HIDE DEF s, ss, tt, step, W, made
<1>7. ASSUME NEW k \in DOMAIN s
      PROVE  ss[k] \in Seq(PlanOps) /\ tt[k] \in Seq(W) /\ OpsOf(ss[k]) = OpsOf(tt[k])
  <2> DEFINE b == s[k].kind = "local"
  <2>1. b \in BOOLEAN
    OBVIOUS
  <2>4. ss[k] = When(b, made) /\ tt[k] = When(b, step(k))
    BY <1>4, Zenon
  <2> HIDE DEF b
  <2>2. When(b, made) \in Seq(PlanOps)
        /\ OpsOf(When(b, made)) = When(b, "account")
    BY <1>5, <2>1, WhenList
  <2>3. When(b, step(k)) \in Seq(W) /\ OpsOf(When(b, step(k))) = When(b, "account")
    BY <1>6, <2>1, WhenList
  <2> QED
    BY <2>2, <2>3, <2>4, Zenon
<1>8. ss \in Seq(Seq(PlanOps)) /\ DOMAIN ss = DOMAIN s
  BY <1>1, <1>4, <1>7, ListOf
<1>9. tt \in Seq(Seq(W)) /\ DOMAIN tt = DOMAIN s
  BY <1>1, <1>4, <1>7, ListOf
<1>10. (\A v \in PlanOps : v.op \in OpNames) /\ (\A w \in W : w.op \in OpNames)
  BY PlanOpsNamed, StepsTyped DEF OpNames, W
<1>11. OpsOf(FlattenSeq(ss)) = OpsOf(FlattenSeq(tt))
  BY <1>7, <1>8, <1>9, <1>10, FlattenOps
<1>12. FlattenSeq(ss) \in Seq(PlanOps) /\ FlattenSeq(tt) \in Seq(W)
       /\ ToSet(FlattenSeq(tt)) = UNION {ToSet(tt[k]) : k \in DOMAIN tt}
  BY <1>8, <1>9, FlattenElements
<1>13. \A k \in DOMAIN s : ToSet(tt[k]) = IF s[k].kind = "local" THEN {step(k)} ELSE {}
  <2>1. ASSUME NEW x PROVE ToSet(<<x>>) = {x} /\ ToSet(<<>>) = {}
    <3>1. DOMAIN <<x>> = {1} /\ <<x>>[1] = x /\ DOMAIN <<>> = {}
      OBVIOUS
    <3> QED
      BY <3>1 DEF ToSet
  <2> QED
    BY <1>4, <2>1 DEF When
<1>14. UNION {ToSet(tt[k]) : k \in DOMAIN tt} = {step(k) : k \in {n \in DOMAIN s : s[n].kind = "local"}}
  BY <1>9, <1>13
<1> QED
  BY <1>2, <1>3, <1>9, <1>11, <1>12, <1>14 DEF s, tt, step, W

\* The firewall, if the document has the section.
LEMMA FirewallPart ==
  ASSUME document \in NetplanConfig
  PROVE  /\ PlanFirewall \in Seq(PlanOps) /\ RunFirewall \in Seq(StepOf({"firewall"}))
         /\ OpsOf(PlanFirewall) = OpsOf(RunFirewall)
<1>1. document.firewall \in BOOLEAN
  BY EntryTypes
<1>2. Op("firewall", "firewall.apply") \in PlanOps /\ Op("firewall", "firewall.apply").op = "firewall"
  BY Fields DEF PlanOps
<1>3. /\ Ask("firewall", HostName, "new") \in StepOf({"firewall"})
      /\ Ask("firewall", HostName, "new").op = "firewall"
  BY StepsTyped, Fields DEF Things, Values
<1>4. /\ PlanFirewall \in Seq(PlanOps)
      /\ OpsOf(PlanFirewall) = When(document.firewall, Op("firewall", "firewall.apply").op)
  BY <1>1, <1>2, WhenList DEF PlanFirewall
<1>5. /\ RunFirewall \in Seq(StepOf({"firewall"}))
      /\ OpsOf(RunFirewall) = When(document.firewall, Ask("firewall", HostName, "new").op)
  <2>1. RunFirewall = When(document.firewall, Ask("firewall", HostName, "new"))
    BY DEF RunFirewall, Sections
  <2> QED
    BY <1>1, <1>3, <2>1, WhenList
<1> QED
  BY <1>2, <1>3, <1>4, <1>5

\* Drivers run from the document itself, and are planned one by one.
LEMMA DriversPart ==
  ASSUME document \in NetplanConfig
  PROVE  /\ PlanDrivers \in Seq(PlanOps) /\ document.drivers \in Seq(OneDriver)
         /\ DOMAIN PlanDrivers = DOMAIN document.drivers
         /\ \A k \in DOMAIN document.drivers : PlanDrivers[k] = PlanDriver(document.drivers[k])
         /\ OpsOf(PlanDrivers) = OpsOf(document.drivers)
<1> DEFINE s == document.drivers
<1>1. s \in Seq(OneDriver) /\ \A k \in DOMAIN s : s[k] \in OneDriver
  <2>1. s \in Seq(OneDriver)
    BY EntryTypes
  <2> QED
    BY <2>1
<1>2. /\ PlanDrivers = [k \in DOMAIN s |-> PlanDrivers[k]]
      /\ \A k \in DOMAIN s : PlanDrivers[k] = PlanDriver(s[k])
  BY DEF PlanDrivers, Each
<1>3. ASSUME NEW d \in OneDriver PROVE PlanDriver(d) \in PlanOps /\ PlanDriver(d).op = d.op
  <2>1. CASE d.op = "restart_adapter"
    <3>1. PlanDriver(d) = Op(d.op, "adapter.restart")
      BY <2>1 DEF PlanDriver
    <3> QED
      BY <2>1, <3>1, Fields DEF PlanOps
  <2>2. CASE d.op = "install" /\ d.force
    <3>1. PlanDriver(d) = Op(d.op, "driver.force_install")
      BY <2>2 DEF PlanDriver
    <3> QED
      BY <2>2, <3>1, Fields DEF PlanOps
  <2>3. CASE d.op = "install" /\ ~d.force
    <3>1. PlanDriver(d) = Op(d.op, "driver.install")
      BY <2>3 DEF PlanDriver
    <3> QED
      BY <2>3, <3>1, Fields DEF PlanOps
  <2> QED
    BY <2>1, <2>2, <2>3 DEF OneDriver
<1> HIDE DEF s
<1>5. \A k \in DOMAIN s : PlanDrivers[k] \in PlanOps /\ PlanDrivers[k].op = s[k].op
  BY <1>1, <1>2, <1>3
<1>7. PlanDrivers \in Seq(PlanOps) /\ DOMAIN PlanDrivers = DOMAIN s
  BY <1>1, <1>2, <1>5, ListOf
<1>9. OpsOf(PlanDrivers) = OpsOf(s)
  BY <1>1, <1>5, <1>7, SameOps
<1> QED
  BY <1>1, <1>2, <1>7, <1>9 DEF s

\* As many hooks as the document has of that kind.
LEMMA HooksPart ==
  ASSUME document \in NetplanConfig, NEW h \in HookStages
  PROVE  /\ PlanHooks(h) \in Seq(PlanOps) /\ HookOps(h) \in Seq(OpNames)
         /\ OpsOf(PlanHooks(h)) = HookOps(h)
<1> DEFINE s == document.hooks
           c == Op("hook", "hook.execute")
           Hooks == {q \in PlanOps : q.op = "hook"}
           ss == [k \in DOMAIN s |-> IF s[k] = h THEN <<c>> ELSE <<>>]
           N == Cardinality({k \in DOMAIN s : s[k] = h})
<1>1. s \in Seq(HookStages)
  BY EntryTypes
<1>2. c \in Hooks
  BY Fields DEF PlanOps
<1>3. PlanHooks(h) = FlattenSeq(ss)
  BY DEF PlanHooks, ForEach, Each, When
<1>14. Marks(s, h, c, ss)
  BY DEF Marks
<1> HIDE DEF s, c, ss, Hooks
<1>4. ss \in Seq(Seq(Hooks)) /\ Len(FlattenSeq(ss)) = N
  BY <1>1, <1>2, <1>14, FlattenCounts
<1> HIDE DEF N
<1>5. FlattenSeq(ss) \in Seq(Hooks)
  BY <1>4, FlattenElements
<1>6. PlanHooks(h) \in Seq(Hooks) /\ Len(PlanHooks(h)) = N
  BY <1>3, <1>4, <1>5
<1>7. \A q \in Hooks : q \in PlanOps /\ q.op \in OpNames /\ q.op = "hook"
  BY PlanOpsNamed DEF Hooks
<1>8. N \in Nat /\ DOMAIN PlanHooks(h) = 1..N /\ \A k \in 1..N : PlanHooks(h)[k] \in Hooks
  BY <1>6
<1>9. /\ OpsOf(PlanHooks(h)) \in Seq(OpNames) /\ DOMAIN OpsOf(PlanHooks(h)) = 1..N
      /\ \A k \in 1..N : OpsOf(PlanHooks(h))[k] = PlanHooks(h)[k].op
  BY <1>6, <1>7, <1>8, OpsOfList
<1>10. HookOps(h) = [k \in 1..N |-> "hook"]
  BY DEF HookOps, N, s
<1>11. HookOps(h) \in Seq(OpNames) /\ DOMAIN HookOps(h) = 1..N /\ \A k \in 1..N : HookOps(h)[k] = "hook"
  <2>1. "hook" \in OpNames
    BY DEF OpNames
  <2>2. N \in Nat
    BY <1>8
  <2> QED
    BY <1>10, <2>1, <2>2
<1>12. OpsOf(PlanHooks(h)) = HookOps(h)
  <2>1. \A k \in 1..N : OpsOf(PlanHooks(h))[k] = HookOps(h)[k]
    BY <1>7, <1>8, <1>9, <1>11
  <2> QED
    BY <1>8, <1>9, <1>11, <2>1, SameList
<1>13. PlanHooks(h) \in Seq(PlanOps)
  <2>1. \A k \in 1..N : PlanHooks(h)[k] \in PlanOps
    BY <1>7, <1>8
  <2>2. PlanHooks(h) = [k \in 1..N |-> PlanHooks(h)[k]]
    BY <1>6, <1>8
  <2> QED
    BY <1>8, <2>1, <2>2
<1> QED
  BY <1>11, <1>12, <1>13

-----------------------------------------------------------------------------
(* The plan is what runs.                                                  *)

\* Joining lists is associative.
LEMMA Associate ==
  ASSUME NEW V, NEW a \in Seq(V), NEW b \in Seq(V), NEW c \in Seq(V)
  PROVE  a \o (b \o c) = (a \o b) \o c
<1> DEFINE l == a \o (b \o c)
           r == (a \o b) \o c
           n == Len(a) + Len(b) + Len(c)
<1>1. Len(a) \in Nat /\ Len(b) \in Nat /\ Len(c) \in Nat /\ n \in Nat
  OBVIOUS
<1>2. /\ b \o c \in Seq(V) /\ a \o b \in Seq(V) /\ l \in Seq(V) /\ r \in Seq(V)
      /\ Len(b \o c) = Len(b) + Len(c) /\ Len(a \o b) = Len(a) + Len(b)
      /\ DOMAIN l = 1..n /\ DOMAIN r = 1..n
  OBVIOUS
<1>3. ASSUME NEW k \in 1..n PROVE l[k] = r[k]
  OBVIOUS
<1> HIDE DEF l, r, n
<1>4. l = r
  BY <1>1, <1>2, <1>3, SameList
<1> QED
  BY <1>4 DEF l, r

Associative(S) == \A a \in S, b \in S, c \in S : a \o (b \o c) = (a \o b) \o c

\* In particular for lists of names.
LEMMA NamesAssociative == Associative(Seq(OpNames))
<1> SUFFICES ASSUME NEW a \in Seq(OpNames), NEW b \in Seq(OpNames), NEW c \in Seq(OpNames)
             PROVE  a \o (b \o c) = (a \o b) \o c
  BY DEF Associative
<1> QED
  BY Associate, SMT

\* A list of some values is a list of more values.
LEMMA Widen ==
  ASSUME NEW V, NEW W, V \subseteq W, NEW s \in Seq(V)
  PROVE  s \in Seq(W)
OBVIOUS

StepOps == OpNames \ {"hook", "install", "restart_adapter"}
AnyStep == StepOf(StepOps)

\* All parts of the steps are lists of steps.
LEMMA RunTypes ==
  ASSUME document \in NetplanConfig
  PROVE  /\ RunIdentity \in Seq(AnyStep) /\ RunAdapters \in Seq(AnyStep)
         /\ RunProfiles \in Seq(AnyStep) /\ RunActions \in Seq(AnyStep)
         /\ RunServices \in Seq(AnyStep) /\ RunAccounts \in Seq(AnyStep)
         /\ RunShares \in Seq(AnyStep) /\ RunMappings \in Seq(AnyStep)
         /\ RunFirewall \in Seq(AnyStep) /\ Runs.steps \in Seq(AnyStep)
<1>1. ASSUME NEW ops, ops \subseteq StepOps, NEW s \in Seq(StepOf(ops)) PROVE s \in Seq(AnyStep)
  <2>1. StepOf(ops) \subseteq AnyStep
    BY <1>1 DEF StepOf, AnyStep
  <2> QED
    BY <2>1, Widen
<1>2. /\ IdentityOps \subseteq StepOps /\ AdapterOps \subseteq StepOps /\ {"profile"} \subseteq StepOps
      /\ {"scan", "link"} \subseteq StepOps /\ {"service"} \subseteq StepOps
      /\ {"account"} \subseteq StepOps /\ {"share"} \subseteq StepOps
      /\ {"mapping"} \subseteq StepOps /\ {"firewall"} \subseteq StepOps
  BY DEF StepOps, IdentityOps, AdapterOps, OpNames
<1>3. RunIdentity \in Seq(AnyStep)
  BY <1>1, <1>2, IdentityPart
<1>4. RunAdapters \in Seq(AnyStep)
  BY <1>1, <1>2, AdaptersPart
<1>5. RunProfiles \in Seq(AnyStep)
  BY <1>1, <1>2, ProfilesPart
<1>6. RunActions \in Seq(AnyStep)
  BY <1>1, <1>2, ActionsPart
<1>7. RunServices \in Seq(AnyStep)
  BY <1>1, <1>2, ServicesPart
<1>8. RunAccounts \in Seq(AnyStep)
  BY <1>1, <1>2, AccountsPart
<1>9. RunShares \in Seq(AnyStep)
  BY <1>1, <1>2, SharesPart
<1>10. RunMappings \in Seq(AnyStep)
  BY <1>1, <1>2, MappingsPart
<1>11. RunFirewall \in Seq(AnyStep)
  BY <1>1, <1>2, FirewallPart
<1>12. Runs.steps \in Seq(AnyStep)
  BY <1>3, <1>4, <1>5, <1>6, <1>7, <1>8, <1>9, <1>10, <1>11, RunParts
<1> QED
  BY <1>3, <1>4, <1>5, <1>6, <1>7, <1>8, <1>9, <1>10, <1>11, <1>12

\* The names of joined lists, in lists of one kind of operation.
Joined(V) ==
  \A s \in Seq(V), t \in Seq(V) : s \o t \in Seq(V) /\ OpsOf(s \o t) = OpsOf(s) \o OpsOf(t)
            /\ OpsOf(s) \in Seq(OpNames)

\* Lists of operations join as OpsOf says.
LEMMA JoinedOps ==
  ASSUME NEW V, \A v \in V : v.op \in OpNames
  PROVE  Joined(V)
<1> SUFFICES ASSUME NEW s \in Seq(V), NEW t \in Seq(V)
             PROVE  /\ s \o t \in Seq(V) /\ OpsOf(s \o t) = OpsOf(s) \o OpsOf(t)
                    /\ OpsOf(s) \in Seq(OpNames)
  BY DEF Joined
<1>1. s \o t \in Seq(V)
  OBVIOUS
<1>2. OpsOf(s \o t) = OpsOf(s) \o OpsOf(t)
  BY OpsOfJoined
<1>3. OpsOf(s) \in Seq(OpNames)
  BY OpsOfList
<1> QED
  BY <1>1, <1>2, <1>3

\* A plan is a list of such operations.
LEMMA PlanTyped ==
  ASSUME document \in NetplanConfig
  PROVE  BuildPlan \in Seq(PlanOps)
<1>1. /\ PlanHooks("before_apply") \in Seq(PlanOps) /\ PlanHooks("after_apply") \in Seq(PlanOps)
      /\ PlanHooks("after_rollback") \in Seq(PlanOps)
  BY HooksPart DEF HookStages
<1>2. PlanIdentity \in Seq(PlanOps) /\ PlanAdapters \in Seq(PlanOps)
  BY IdentityPart, AdaptersPart
<1>3. PlanProfiles \in Seq(PlanOps) /\ PlanActions \in Seq(PlanOps) /\ PlanServices \in Seq(PlanOps)
  BY ProfilesPart, ActionsPart, ServicesPart
<1>4. PlanAccounts \in Seq(PlanOps) /\ PlanShares \in Seq(PlanOps) /\ PlanMappings \in Seq(PlanOps)
  BY AccountsPart, SharesPart, MappingsPart
<1>5. PlanFirewall \in Seq(PlanOps) /\ PlanDrivers \in Seq(PlanOps)
  BY FirewallPart, DriversPart
<1> QED
  BY <1>1, <1>2, <1>3, <1>4, <1>5, PlanParts

\* The names of the plan, from those of its sections.
LEMMA PlanNames ==
  ASSUME document \in NetplanConfig
  PROVE  OpsOf(BuildPlan) =
           (((((((((OpsOf(PlanHooks("before_apply")) \o OpsOf(PlanIdentity)) \o OpsOf(PlanAdapters))
             \o OpsOf(PlanProfiles)) \o OpsOf(PlanActions)) \o OpsOf(PlanServices))
             \o ((OpsOf(PlanAccounts) \o OpsOf(PlanShares)) \o OpsOf(PlanMappings)))
             \o OpsOf(PlanFirewall)) \o OpsOf(PlanDrivers)) \o OpsOf(PlanHooks("after_apply")))
             \o OpsOf(PlanHooks("after_rollback"))
<1> DEFINE h == PlanHooks("before_apply")
           y == PlanHooks("after_apply")
           z == PlanHooks("after_rollback")
           c1 == h \o PlanIdentity
           c2 == c1 \o PlanAdapters
           c3 == c2 \o PlanProfiles
           c4 == c3 \o PlanActions
           c5 == c4 \o PlanServices
           q1 == PlanAccounts \o PlanShares
           q2 == q1 \o PlanMappings
           c6 == c5 \o q2
           c7 == c6 \o PlanFirewall
           c8 == c7 \o PlanDrivers
           c9 == c8 \o y
<1>1. BuildPlan = c9 \o z
  BY PlanParts
<1>2. Joined(PlanOps)
  BY JoinedOps, PlanOpsNamed
<1>3. h \in Seq(PlanOps) /\ y \in Seq(PlanOps) /\ z \in Seq(PlanOps)
  BY HooksPart DEF HookStages
<1>4. PlanIdentity \in Seq(PlanOps) /\ PlanAdapters \in Seq(PlanOps)
  BY IdentityPart, AdaptersPart
<1>5. PlanProfiles \in Seq(PlanOps) /\ PlanActions \in Seq(PlanOps) /\ PlanServices \in Seq(PlanOps)
  BY ProfilesPart, ActionsPart, ServicesPart
<1>6. PlanAccounts \in Seq(PlanOps) /\ PlanShares \in Seq(PlanOps) /\ PlanMappings \in Seq(PlanOps)
  BY AccountsPart, SharesPart, MappingsPart
<1>7. PlanFirewall \in Seq(PlanOps) /\ PlanDrivers \in Seq(PlanOps)
  BY FirewallPart, DriversPart
<1> HIDE DEF h, y, z
<1>8. c1 \in Seq(PlanOps) /\ OpsOf(c1) = OpsOf(h) \o OpsOf(PlanIdentity)
  BY <1>2, <1>3, <1>4 DEF Joined
<1> HIDE DEF c1
<1>9. c2 \in Seq(PlanOps) /\ OpsOf(c2) = OpsOf(c1) \o OpsOf(PlanAdapters)
  BY <1>2, <1>8, <1>4 DEF Joined
<1> HIDE DEF c2
<1>10. c3 \in Seq(PlanOps) /\ OpsOf(c3) = OpsOf(c2) \o OpsOf(PlanProfiles)
  BY <1>2, <1>9, <1>5 DEF Joined
<1> HIDE DEF c3
<1>11. c4 \in Seq(PlanOps) /\ OpsOf(c4) = OpsOf(c3) \o OpsOf(PlanActions)
  BY <1>2, <1>10, <1>5 DEF Joined
<1> HIDE DEF c4
<1>12. c5 \in Seq(PlanOps) /\ OpsOf(c5) = OpsOf(c4) \o OpsOf(PlanServices)
  BY <1>2, <1>11, <1>5 DEF Joined
<1> HIDE DEF c5
<1>13. q1 \in Seq(PlanOps) /\ OpsOf(q1) = OpsOf(PlanAccounts) \o OpsOf(PlanShares)
  BY <1>2, <1>6 DEF Joined
<1> HIDE DEF q1
<1>14. q2 \in Seq(PlanOps) /\ OpsOf(q2) = OpsOf(q1) \o OpsOf(PlanMappings)
  BY <1>2, <1>13, <1>6 DEF Joined
<1> HIDE DEF q2
<1>15. c6 \in Seq(PlanOps) /\ OpsOf(c6) = OpsOf(c5) \o OpsOf(q2)
  BY <1>2, <1>12, <1>14 DEF Joined
<1> HIDE DEF c6
<1>16. c7 \in Seq(PlanOps) /\ OpsOf(c7) = OpsOf(c6) \o OpsOf(PlanFirewall)
  BY <1>2, <1>15, <1>7 DEF Joined
<1> HIDE DEF c7
<1>17. c8 \in Seq(PlanOps) /\ OpsOf(c8) = OpsOf(c7) \o OpsOf(PlanDrivers)
  BY <1>2, <1>16, <1>7 DEF Joined
<1> HIDE DEF c8
<1>18. c9 \in Seq(PlanOps) /\ OpsOf(c9) = OpsOf(c8) \o OpsOf(y)
  BY <1>2, <1>17, <1>3 DEF Joined
<1> HIDE DEF c9
<1>19. OpsOf(c9 \o z) = OpsOf(c9) \o OpsOf(z)
  BY <1>2, <1>18, <1>3 DEF Joined
<1> QED
  BY <1>1, <1>8, <1>9, <1>10, <1>11, <1>12, <1>13, <1>14, <1>15, <1>16, <1>17, <1>18, <1>19, Zenon
     DEF h, y, z

\* The names of the steps and drivers, from those of their sections.
LEMMA RunNames ==
  ASSUME document \in NetplanConfig
  PROVE  OpsOf(Runs.steps \o Runs.drivers) =
           (((((OpsOf(RunIdentity) \o OpsOf(RunAdapters)) \o (OpsOf(RunProfiles) \o OpsOf(RunActions)))
             \o OpsOf(RunServices)) \o ((OpsOf(RunAccounts) \o OpsOf(RunShares)) \o OpsOf(RunMappings)))
             \o OpsOf(RunFirewall)) \o OpsOf(document.drivers)
<1> DEFINE V == AnyStep \cup OneDriver
           d == document.drivers
           c1 == RunIdentity \o RunAdapters
           p1 == RunProfiles \o RunActions
           c2 == c1 \o p1
           c3 == c2 \o RunServices
           q1 == RunAccounts \o RunShares
           q2 == q1 \o RunMappings
           c4 == c3 \o q2
           c5 == c4 \o RunFirewall
<1>1. Runs.steps \o Runs.drivers = c5 \o d
  BY RunParts
<1>2. Joined(V)
  <2>1. \A v \in AnyStep : v.op \in OpNames
    BY StepsTyped DEF AnyStep, StepOps
  <2>2. \A v \in OneDriver : v.op \in OpNames
    BY DEF OneDriver, OpNames
  <2> QED
    BY <2>1, <2>2, JoinedOps
<1>3. AnyStep \subseteq V /\ OneDriver \subseteq V
  OBVIOUS
<1> HIDE DEF V
<1>4. /\ RunIdentity \in Seq(V) /\ RunAdapters \in Seq(V) /\ RunProfiles \in Seq(V)
      /\ RunActions \in Seq(V) /\ RunServices \in Seq(V) /\ RunAccounts \in Seq(V)
      /\ RunShares \in Seq(V) /\ RunMappings \in Seq(V) /\ RunFirewall \in Seq(V)
  BY <1>3, RunTypes, Widen
<1>5. d \in Seq(V)
  <2>1. d \in Seq(OneDriver)
    BY EntryTypes
  <2> QED
    BY <1>3, <2>1, Widen
<1> HIDE DEF d
<1>6. c1 \in Seq(V) /\ OpsOf(c1) = OpsOf(RunIdentity) \o OpsOf(RunAdapters)
  BY <1>2, <1>4 DEF Joined
<1>7. p1 \in Seq(V) /\ OpsOf(p1) = OpsOf(RunProfiles) \o OpsOf(RunActions)
  BY <1>2, <1>4 DEF Joined
<1> HIDE DEF c1, p1
<1>8. c2 \in Seq(V) /\ OpsOf(c2) = OpsOf(c1) \o OpsOf(p1)
  BY <1>2, <1>6, <1>7 DEF Joined
<1> HIDE DEF c2
<1>9. c3 \in Seq(V) /\ OpsOf(c3) = OpsOf(c2) \o OpsOf(RunServices)
  BY <1>2, <1>4, <1>8 DEF Joined
<1> HIDE DEF c3
<1>10. q1 \in Seq(V) /\ OpsOf(q1) = OpsOf(RunAccounts) \o OpsOf(RunShares)
  BY <1>2, <1>4 DEF Joined
<1> HIDE DEF q1
<1>11. q2 \in Seq(V) /\ OpsOf(q2) = OpsOf(q1) \o OpsOf(RunMappings)
  BY <1>2, <1>4, <1>10 DEF Joined
<1> HIDE DEF q2
<1>12. c4 \in Seq(V) /\ OpsOf(c4) = OpsOf(c3) \o OpsOf(q2)
  BY <1>2, <1>9, <1>11 DEF Joined
<1> HIDE DEF c4
<1>13. c5 \in Seq(V) /\ OpsOf(c5) = OpsOf(c4) \o OpsOf(RunFirewall)
  BY <1>2, <1>4, <1>12 DEF Joined
<1> HIDE DEF c5
<1>14. OpsOf(c5 \o d) = OpsOf(c5) \o OpsOf(d)
  BY <1>2, <1>5, <1>13 DEF Joined
<1> QED
  BY <1>1, <1>6, <1>7, <1>8, <1>9, <1>10, <1>11, <1>12, <1>13, <1>14, Zenon DEF d

\* What is planned is what runs, in the same order, between the hooks.
LEMMA PlanRuns ==
  ASSUME document \in NetplanConfig
  PROVE  /\ OpsOf(BuildPlan) = HookOps("before_apply") \o OpsOf(Runs.steps \o Runs.drivers)
                                 \o HookOps("after_apply") \o HookOps("after_rollback")
         /\ HookOps("before_apply") \in Seq(OpNames) /\ HookOps("after_apply") \in Seq(OpNames)
         /\ HookOps("after_rollback") \in Seq(OpNames)
         /\ OpsOf(Runs.steps \o Runs.drivers) \in Seq(OpNames)
<1> DEFINE h == HookOps("before_apply")
           i == OpsOf(RunIdentity)
           a == OpsOf(RunAdapters)
           p == OpsOf(RunProfiles)
           l == OpsOf(RunActions)
           v == OpsOf(RunServices)
           q == (OpsOf(RunAccounts) \o OpsOf(RunShares)) \o OpsOf(RunMappings)
           f == OpsOf(RunFirewall)
           d == OpsOf(document.drivers)
           S == Seq(OpNames)
           y == HookOps("after_apply")
           z == HookOps("after_rollback")
           r == OpsOf(Runs.steps \o Runs.drivers)
<1>1. /\ OpsOf(PlanHooks("before_apply")) = h /\ OpsOf(PlanHooks("after_apply")) = y
      /\ OpsOf(PlanHooks("after_rollback")) = z /\ h \in S /\ y \in S /\ z \in S
  BY HooksPart DEF HookStages
<1>2. OpsOf(PlanIdentity) = i /\ OpsOf(PlanAdapters) = a
  BY IdentityPart, AdaptersPart
<1>3. OpsOf(PlanProfiles) = p /\ OpsOf(PlanActions) = l /\ OpsOf(PlanServices) = v
  BY ProfilesPart, ActionsPart, ServicesPart
<1>4. (OpsOf(PlanAccounts) \o OpsOf(PlanShares)) \o OpsOf(PlanMappings) = q
  BY AccountsPart, SharesPart, MappingsPart
<1>5. OpsOf(PlanFirewall) = f /\ OpsOf(PlanDrivers) = d
  BY FirewallPart, DriversPart
<1>6. OpsOf(BuildPlan) = (((((((((h \o i) \o a) \o p) \o l) \o v) \o q) \o f) \o d) \o y) \o z
  BY <1>1, <1>2, <1>3, <1>4, <1>5, PlanNames, Zenon
<1>7. r = (((((i \o a) \o (p \o l)) \o v) \o q) \o f) \o d
  BY RunNames
<1>8. i \in S /\ a \in S /\ p \in S /\ l \in S /\ v \in S /\ q \in S /\ f \in S /\ d \in S
  <2>1. \A s \in Seq(AnyStep) : OpsOf(s) \in S
    <3>1. \A x \in AnyStep : x.op \in OpNames
      BY StepsTyped DEF AnyStep, StepOps
    <3> QED
      BY <3>1, OpsOfList
  <2>2. /\ OpsOf(RunAccounts) \in S /\ OpsOf(RunShares) \in S /\ OpsOf(RunMappings) \in S
        /\ i \in S /\ a \in S /\ p \in S /\ l \in S /\ v \in S /\ f \in S
    BY <2>1, RunTypes
  <2>3. d \in S
    <3>1. \A x \in OneDriver : x.op \in OpNames
      BY DEF OneDriver, OpNames
    <3> QED
      BY <3>1, EntryTypes, OpsOfList
  <2>4. OpsOf(RunAccounts) \o OpsOf(RunShares) \in S
    BY <2>2
  <2>5. q \in S
    BY <2>2, <2>4
  <2> QED
    BY <2>2, <2>3, <2>5
<1> HIDE DEF h, i, a, p, l, v, q, f, d, y, z, r
<1>h. h \in S
  BY <1>1
<1>i. i \in S
  BY <1>8
<1>a. a \in S
  BY <1>8
<1>p. p \in S
  BY <1>8
<1>l. l \in S
  BY <1>8
<1>v. v \in S
  BY <1>8
<1>q. q \in S
  BY <1>8
<1>f. f \in S
  BY <1>8
<1>d. d \in S
  BY <1>8
<1> HIDE DEF S
<1>t. \A s \in S, t \in S : s \o t \in S
  BY DEF S
<1>0. Associative(S)
  BY NamesAssociative DEF S
<1> DEFINE c1 == i \o a
           c2 == c1 \o p
           c3 == c2 \o l
           c4 == c3 \o v
           c5 == c4 \o q
           c6 == c5 \o f
           c7 == c6 \o d
<1>12. c1 \in S
  BY <1>i, <1>a, <1>t
<1>13. h \o c1 = (h \o i) \o a
  BY <1>0, <1>h, <1>i, <1>a DEF Associative
<1> HIDE DEF c1
<1>14. c2 \in S
  BY <1>12, <1>p, <1>t
<1>15. h \o c2 = (h \o c1) \o p
  BY <1>0, <1>h, <1>12, <1>p DEF Associative
<1>16. c3 = c1 \o (p \o l)
  BY <1>0, <1>12, <1>p, <1>l DEF Associative
<1> HIDE DEF c2
<1>17. c3 \in S
  BY <1>14, <1>l, <1>t
<1>18. h \o c3 = (h \o c2) \o l
  BY <1>0, <1>h, <1>14, <1>l DEF Associative
<1> HIDE DEF c3
<1>19. c4 \in S
  BY <1>17, <1>v, <1>t
<1>20. h \o c4 = (h \o c3) \o v
  BY <1>0, <1>h, <1>17, <1>v DEF Associative
<1> HIDE DEF c4
<1>21. c5 \in S
  BY <1>19, <1>q, <1>t
<1>22. h \o c5 = (h \o c4) \o q
  BY <1>0, <1>h, <1>19, <1>q DEF Associative
<1> HIDE DEF c5
<1>23. c6 \in S
  BY <1>21, <1>f, <1>t
<1>24. h \o c6 = (h \o c5) \o f
  BY <1>0, <1>h, <1>21, <1>f DEF Associative
<1> HIDE DEF c6
<1>25. c7 \in S
  BY <1>23, <1>d, <1>t
<1>26. h \o c7 = (h \o c6) \o d
  BY <1>0, <1>h, <1>23, <1>d DEF Associative
<1> HIDE DEF c7
<1>9. (((((((h \o i) \o a) \o p) \o l) \o v) \o q) \o f) \o d = h \o r
  <2>1. h \o c7 = (((((((h \o i) \o a) \o p) \o l) \o v) \o q) \o f) \o d
    BY <1>13, <1>15, <1>18, <1>20, <1>22, <1>24, <1>26
  <2>2. c7 = r
    BY <1>7, <1>16 DEF c1, c4, c5, c6, c7
  <2> QED
    BY <2>1, <2>2
<1>10. r \in S
  <2>1. c7 = r
    BY <1>7, <1>16 DEF c1, c4, c5, c6, c7
  <2> QED
    BY <1>25, <2>1
<1>11. OpsOf(BuildPlan) = ((h \o r) \o y) \o z
  BY <1>6, <1>9
<1> QED
  BY <1>1, <1>10, <1>11 DEF h, y, z, r, S

-----------------------------------------------------------------------------
(* Capabilities and tools.                                                 *)

\* ToolOf, tool by tool.
LEMMA ToolSets ==
  /\ DOMAIN ToolOf = {"netsh", "pnputil", "newdev", "wlan", "accounts", "shares", "mappings"}
  /\ ToolOf["netsh"] = {"adapter.ipv4.apply", "adapter.state.apply", "adapter.mac.apply",
                        "adapter.restart", "firewall.apply"}
  /\ ToolOf["pnputil"] = {"driver.install"} /\ ToolOf["newdev"] = {"driver.force_install"}
  /\ ToolOf["wlan"] = {"wifi.profile.apply", "wifi.scan", "wifi.connect", "wifi.disconnect"}
  /\ ToolOf["accounts"] = {"smb.account.apply"} /\ ToolOf["shares"] = {"smb.share.apply"}
  /\ ToolOf["mappings"] = {"smb.mapping.apply"}
BY DEF ToolOf

\* The planner asks for no capability that the backend does not know.
LEMMA PlanOpsKnown == \A q \in PlanOps : q.capability \in Capabilities
<1>1. \A t \in DOMAIN ToolOf : ToolOf[t] \subseteq Capabilities
  BY DEF Capabilities
<1>2. AlwaysAvailable \subseteq Capabilities
  BY DEF Capabilities
<1>3. {"identity.computer_name.apply", "identity.workgroup.apply",
       "identity.dns_suffix.apply", "service.apply", "hook.execute"} \subseteq Capabilities
  BY <1>2 DEF AlwaysAvailable
<1>4. {"adapter.ipv4.apply", "adapter.state.apply", "adapter.mac.apply", "adapter.restart",
       "firewall.apply"} \subseteq Capabilities
  BY <1>1, ToolSets
<1>5. {"wifi.profile.apply", "wifi.scan", "wifi.connect", "wifi.disconnect"} \subseteq Capabilities
  BY <1>1, ToolSets
<1>6. /\ "driver.install" \in Capabilities /\ "driver.force_install" \in Capabilities
      /\ "smb.account.apply" \in Capabilities /\ "smb.share.apply" \in Capabilities
      /\ "smb.mapping.apply" \in Capabilities
  BY <1>1, ToolSets
<1> QED
  BY <1>3, <1>4, <1>5, <1>6, Fields DEF PlanOps

\* The tool behind each permitted operation.
LEMMA ToolBehind ==
  ASSUME tools \subseteq DOMAIN ToolOf, NEW q \in PlanOps, Permitted(q)
  PROVE  /\ q.op \in {"admin", "mac", "ipv4", "firewall", "restart_adapter"} => "netsh" \in tools
         /\ q.op \in {"profile", "link", "scan"} => "wlan" \in tools
         /\ q.op = "account" => "accounts" \in tools
         /\ q.op = "share" => "shares" \in tools
         /\ q.op = "mapping" => "mappings" \in tools
         /\ q.capability = "driver.install" => "pnputil" \in tools
         /\ q.capability = "driver.force_install" => "newdev" \in tools
<1> DEFINE c == q.capability
<1>1. c \in AlwaysAvailable \/ \E t \in tools : c \in ToolOf[t]
  BY DEF Permitted, Available
<1>2. ASSUME c \notin AlwaysAvailable
      PROVE  \E t \in {"netsh", "pnputil", "newdev", "wlan", "accounts", "shares", "mappings"} :
               t \in tools /\ c \in ToolOf[t]
  BY <1>1, <1>2, ToolSets
<1>3. q.op \in {"admin", "mac", "ipv4", "firewall", "restart_adapter"} =>
        c \in {"adapter.ipv4.apply", "adapter.state.apply", "adapter.mac.apply",
               "adapter.restart", "firewall.apply"}
  BY Fields DEF PlanOps
<1>4. q.op \in {"profile", "link", "scan"} =>
        c \in {"wifi.profile.apply", "wifi.scan", "wifi.connect", "wifi.disconnect"}
  BY Fields DEF PlanOps
<1>5. /\ q.op = "account" => c = "smb.account.apply"
      /\ q.op = "share" => c = "smb.share.apply"
      /\ q.op = "mapping" => c = "smb.mapping.apply"
  BY Fields DEF PlanOps
<1>6. c \in {"adapter.ipv4.apply", "adapter.state.apply", "adapter.mac.apply",
             "adapter.restart", "firewall.apply"} => c \notin AlwaysAvailable
  BY DEF AlwaysAvailable
<1>7. c \in {"wifi.profile.apply", "wifi.scan", "wifi.connect", "wifi.disconnect"}
        => c \notin AlwaysAvailable
  BY DEF AlwaysAvailable
<1>8. c \in {"smb.account.apply", "smb.share.apply", "smb.mapping.apply", "driver.install",
             "driver.force_install"} => c \notin AlwaysAvailable
  BY DEF AlwaysAvailable
<1> HIDE DEF c
<1>9. q.op \in {"admin", "mac", "ipv4", "firewall", "restart_adapter"} => "netsh" \in tools
  BY <1>2, <1>3, <1>6, ToolSets
<1>10. q.op \in {"profile", "link", "scan"} => "wlan" \in tools
  BY <1>2, <1>4, <1>7, ToolSets
<1>11. c = "smb.account.apply" => "accounts" \in tools
  BY <1>2, <1>8, ToolSets
<1>12. c = "smb.share.apply" => "shares" \in tools
  BY <1>2, <1>8, ToolSets
<1>13. c = "smb.mapping.apply" => "mappings" \in tools
  BY <1>2, <1>8, ToolSets
<1>14. c = "driver.install" => "pnputil" \in tools
  BY <1>2, <1>8, ToolSets
<1>15. c = "driver.force_install" => "newdev" \in tools
  BY <1>2, <1>8, ToolSets
<1> QED
  BY <1>5, <1>9, <1>10, <1>11, <1>12, <1>13, <1>14, <1>15 DEF c

\* Joined lists have the elements of both.
LEMMA Within ==
  ASSUME NEW V, NEW s \in Seq(V), NEW t \in Seq(V)
  PROVE  s \o t \in Seq(V) /\ ToSet(s) \subseteq ToSet(s \o t) /\ ToSet(t) \subseteq ToSet(s \o t)
BY Elements

\* What is in the plan of a driver is in the plan.
LEMMA DriversPlanned ==
  ASSUME document \in NetplanConfig, NEW k \in DOMAIN document.drivers
  PROVE  \E j \in DOMAIN BuildPlan : BuildPlan[j] = PlanDriver(document.drivers[k])
<1> DEFINE y == PlanHooks("after_apply")
           z == PlanHooks("after_rollback")
           c == ((((((PlanHooks("before_apply") \o PlanIdentity) \o PlanAdapters) \o PlanProfiles)
                \o PlanActions) \o PlanServices) \o ((PlanAccounts \o PlanShares) \o PlanMappings))
                \o PlanFirewall
           c1 == c \o PlanDrivers
           c2 == c1 \o y
<1>1. BuildPlan = c2 \o z
  BY PlanParts
<1>2. PlanHooks("before_apply") \in Seq(PlanOps) /\ y \in Seq(PlanOps) /\ z \in Seq(PlanOps)
  BY HooksPart DEF HookStages
<1>3. PlanIdentity \in Seq(PlanOps) /\ PlanAdapters \in Seq(PlanOps)
  BY IdentityPart, AdaptersPart
<1>4. PlanProfiles \in Seq(PlanOps) /\ PlanActions \in Seq(PlanOps) /\ PlanServices \in Seq(PlanOps)
  BY ProfilesPart, ActionsPart, ServicesPart
<1>5. PlanAccounts \in Seq(PlanOps) /\ PlanShares \in Seq(PlanOps) /\ PlanMappings \in Seq(PlanOps)
  BY AccountsPart, SharesPart, MappingsPart
<1>6. PlanFirewall \in Seq(PlanOps) /\ PlanDrivers \in Seq(PlanOps)
  BY FirewallPart, DriversPart
<1>7. c \in Seq(PlanOps)
  BY <1>2, <1>3, <1>4, <1>5, <1>6
<1> HIDE DEF c, y, z
<1>8. c1 \in Seq(PlanOps) /\ ToSet(PlanDrivers) \subseteq ToSet(c1)
  BY <1>6, <1>7, Within
<1> HIDE DEF c1
<1>9. c2 \in Seq(PlanOps) /\ ToSet(c1) \subseteq ToSet(c2)
  BY <1>2, <1>8, Within
<1> HIDE DEF c2
<1>10. ToSet(c2) \subseteq ToSet(c2 \o z)
  BY <1>2, <1>9, Within
<1>11. ToSet(PlanDrivers) \subseteq ToSet(BuildPlan)
  BY <1>1, <1>8, <1>9, <1>10
<1>12. PlanDriver(document.drivers[k]) \in ToSet(PlanDrivers)
  BY DriversPart DEF ToSet
<1> QED
  BY <1>11, <1>12 DEF ToSet

\* Every step and driver has an operation of its name in the plan.
LEMMA StepsPlanned ==
  ASSUME document \in NetplanConfig, NEW k \in DOMAIN (Runs.steps \o Runs.drivers)
  PROVE  \E j \in DOMAIN BuildPlan : BuildPlan[j].op = (Runs.steps \o Runs.drivers)[k].op
<1> DEFINE all == Runs.steps \o Runs.drivers
           h == HookOps("before_apply")
           y == HookOps("after_apply")
           z == HookOps("after_rollback")
           r == OpsOf(all)
           b == OpsOf(BuildPlan)
<1>1. /\ b = ((h \o r) \o y) \o z /\ h \in Seq(OpNames) /\ r \in Seq(OpNames)
      /\ y \in Seq(OpNames) /\ z \in Seq(OpNames)
  BY PlanRuns
<1>2. k \in DOMAIN r /\ r[k] = all[k].op
  BY DEF OpsOf
<1>3. \A j \in DOMAIN b : j \in DOMAIN BuildPlan /\ b[j] = BuildPlan[j].op
  BY DEF OpsOf
<1> HIDE DEF all, h, y, z, r, b
<1>4. r[k] \in ToSet(r)
  BY <1>2 DEF ToSet
<1> DEFINE c1 == h \o r
           c2 == c1 \o y
<1>5. c1 \in Seq(OpNames) /\ ToSet(r) \subseteq ToSet(c1)
  BY <1>1, Within
<1>10. b = c2 \o z
  BY <1>1
<1> HIDE DEF c1
<1>6. c2 \in Seq(OpNames) /\ ToSet(c1) \subseteq ToSet(c2)
  BY <1>1, <1>5, Within
<1> HIDE DEF c2
<1>7. ToSet(c2) \subseteq ToSet(c2 \o z)
  BY <1>1, <1>6, Within
<1>8. r[k] \in ToSet(b)
  BY <1>4, <1>5, <1>6, <1>7, <1>10
<1>9. PICK j \in DOMAIN b : b[j] = r[k]
  BY <1>8 DEF ToSet
<1> QED
  BY <1>2, <1>3, <1>9 DEF all

\* A plan whose operations are all permitted has the tools its steps use.
LEMMA PlannedHaveTools ==
  ASSUME document \in NetplanConfig, tools \subseteq DOMAIN ToolOf,
         \A j \in DOMAIN BuildPlan : Permitted(BuildPlan[j]),
         NEW k \in DOMAIN (Runs.steps \o Runs.drivers)
  PROVE  LET all == Runs.steps \o Runs.drivers
         IN  Needs(all[k]) \subseteq tools \cup Unchecked(all[k])
<1> DEFINE all == Runs.steps \o Runs.drivers
           x == all[k]
<1>1. \A j \in DOMAIN BuildPlan : BuildPlan[j] \in PlanOps
  BY PlanTyped
<1>2. PICK j \in DOMAIN BuildPlan : BuildPlan[j].op = x.op
  BY StepsPlanned
<1>3. /\ x.op \in {"admin", "mac", "ipv4", "firewall", "restart_adapter"} => "netsh" \in tools
      /\ x.op \in {"profile", "link", "scan"} => "wlan" \in tools
      /\ x.op = "account" => "accounts" \in tools
      /\ x.op = "share" => "shares" \in tools
      /\ x.op = "mapping" => "mappings" \in tools
  <2> DEFINE q == BuildPlan[j]
  <2>1. q \in PlanOps /\ Permitted(q) /\ q.op = x.op
    BY <1>1, <1>2
  <2> HIDE DEF q
  <2> QED
    BY <2>1, ToolBehind
<1>4. x \in AnyStep \/ \E i \in DOMAIN document.drivers : x = document.drivers[i]
  <2>1. /\ Runs.steps \in Seq(AnyStep) /\ document.drivers \in Seq(OneDriver)
        /\ Runs.drivers = document.drivers
    BY RunTypes, RunParts, EntryTypes
  <2> DEFINE s == Runs.steps
             d == document.drivers
  <2>0. k \in DOMAIN all
    OBVIOUS
  <2>2. all = s \o d /\ s \in Seq(AnyStep) /\ d \in Seq(OneDriver)
    BY <2>1
  <2> HIDE DEF all, s, d
  <2>3. k \in 1..(Len(s) + Len(d)) /\ Len(s) \in Nat /\ Len(d) \in Nat
    BY <2>0, <2>2
  <2>4. CASE k \in 1..Len(s)
    <3>1. all[k] = s[k] /\ s[k] \in AnyStep
      BY <2>2, <2>4
    <3> QED
      BY <3>1
  <2>5. CASE k \notin 1..Len(s)
    <3>1. k - Len(s) \in DOMAIN d /\ all[k] = d[k - Len(s)]
      BY <2>2, <2>3, <2>5
    <3> QED
      BY <3>1 DEF d
  <2> QED
    BY <2>4, <2>5
<1> HIDE DEF all, x
<1>5. CASE x \in AnyStep
  <2>1. x.op \in StepOps
    BY <1>5, StepsTyped DEF AnyStep
  <2>2. x.op # "install"
    BY <2>1 DEF StepOps
  <2>3. Needs(x) \subseteq tools
    BY <1>3, <2>2 DEF Needs
  <2> QED
    BY <2>3 DEF x, all
<1>6. CASE \E i \in DOMAIN document.drivers : x = document.drivers[i]
  <2>1. PICK i \in DOMAIN document.drivers : x = document.drivers[i]
    BY <1>6
  <2>2. x \in OneDriver
    <3>1. document.drivers \in Seq(OneDriver)
      BY EntryTypes
    <3> QED
      BY <2>1, <3>1
  <2>3. PICK m \in DOMAIN BuildPlan : BuildPlan[m] = PlanDriver(x)
    BY <2>1, DriversPlanned
  <2>4. PlanDriver(x) \in PlanOps /\ Permitted(PlanDriver(x))
    BY <1>1, <2>3
  <2>5. CASE x.op = "restart_adapter"
    <3>1. Needs(x) = {"netsh"}
      BY <2>5 DEF Needs
    <3> QED
      BY <1>3, <2>5, <3>1 DEF x, all
  <2>6. CASE x.op = "install" /\ x.force
    <3>1. PlanDriver(x).capability = "driver.force_install"
      BY <2>6, Fields DEF PlanDriver
    <3>2. "newdev" \in tools
      BY <2>4, <3>1, ToolBehind
    <3>3. Needs(x) \subseteq {"newdev", "pnputil"} /\ Unchecked(x) = {"pnputil"}
      BY <2>6 DEF Needs, Unchecked
    <3> QED
      BY <3>2, <3>3 DEF x, all
  <2>7. CASE x.op = "install" /\ ~x.force
    <3>1. PlanDriver(x).capability = "driver.install"
      BY <2>7, Fields DEF PlanDriver
    <3>2. "pnputil" \in tools
      BY <2>4, <3>1, ToolBehind
    <3>3. Needs(x) = {"pnputil"}
      BY <2>7 DEF Needs
    <3> QED
      BY <3>2, <3>3 DEF x, all
  <2> QED
    BY <2>2, <2>5, <2>6, <2>7 DEF OneDriver
<1> QED
  BY <1>4, <1>5, <1>6

-----------------------------------------------------------------------------
(* Steps of an accepted document.                                          *)

\* Two steps would own the same object.
Clash(x, y) == Owner(x) /\ x.op = y.op /\ x.on = y.on

\* No two steps of a list own the same object, and no step of one list owns one of another's.
Apart(s) == \A i, k \in DOMAIN s : Clash(s[i], s[k]) => i = k
Strangers(s, t) == \A x \in ToSet(s), y \in ToSet(t) : ~Clash(x, y)

\* Ownership of the same object is symmetric.
LEMMA ClashBothWays == \A x, y : Clash(x, y) => Clash(y, x)
BY DEF Clash, Owner

\* It is enough to look at earlier and later steps.
LEMMA ApartInOrder ==
  ASSUME NEW V, NEW s \in Seq(V), \A i, k \in DOMAIN s : i < k => ~Clash(s[i], s[k])
  PROVE  Apart(s)
<1> SUFFICES ASSUME NEW i \in DOMAIN s, NEW k \in DOMAIN s, Clash(s[i], s[k]) PROVE i = k
  BY DEF Apart
<1>1. i \in Nat /\ k \in Nat
  OBVIOUS
<1>2. CASE i < k
  BY <1>2
<1>3. CASE k < i
  <2>1. Clash(s[k], s[i])
    BY ClashBothWays
  <2> QED
    BY <1>3, <2>1
<1> QED
  BY <1>1, <1>2, <1>3

\* Two lists that are apart, and strangers, are apart when joined.
LEMMA ApartJoin ==
  ASSUME NEW V, NEW s \in Seq(V), NEW t \in Seq(V), Apart(s), Apart(t), Strangers(s, t)
  PROVE  Apart(s \o t)
<1> DEFINE j == s \o t
<1>1. /\ j \in Seq(V) /\ Len(s) \in Nat /\ Len(t) \in Nat
      /\ DOMAIN s = 1..Len(s) /\ DOMAIN t = 1..Len(t) /\ DOMAIN j = 1..(Len(s) + Len(t))
      /\ \A k \in 1..Len(s) : j[k] = s[k]
      /\ \A k \in (Len(s) + 1)..(Len(s) + Len(t)) :
           k - Len(s) \in 1..Len(t) /\ j[k] = t[k - Len(s)]
  BY Elements
<1> HIDE DEF j
<1>2. SUFFICES ASSUME NEW i \in 1..(Len(s) + Len(t)), NEW k \in 1..(Len(s) + Len(t)), i < k,
                      Clash(j[i], j[k])
               PROVE  FALSE
  BY <1>1, ApartInOrder DEF j
<1>3. CASE k \in 1..Len(s)
  <2>1. i \in 1..Len(s)
    BY <1>1, <1>2, <1>3
  <2>2. Clash(s[i], s[k]) /\ i \in DOMAIN s /\ k \in DOMAIN s
    BY <1>1, <1>2, <1>3, <2>1
  <2>3. i = k
    BY <2>2 DEF Apart
  <2> QED
    BY <1>1, <1>2, <2>3
<1>4. CASE i \in (Len(s) + 1)..(Len(s) + Len(t))
  <2>1. k \in (Len(s) + 1)..(Len(s) + Len(t))
    BY <1>1, <1>2, <1>4
  <2>2. /\ i - Len(s) \in DOMAIN t /\ k - Len(s) \in DOMAIN t
        /\ Clash(t[i - Len(s)], t[k - Len(s)])
    BY <1>1, <1>2, <1>4, <2>1
  <2>3. i - Len(s) = k - Len(s)
    BY <2>2 DEF Apart
  <2> QED
    BY <1>1, <1>2, <2>3
<1>5. CASE i \in 1..Len(s) /\ k \in (Len(s) + 1)..(Len(s) + Len(t))
  <2>1. j[i] = s[i] /\ i \in DOMAIN s /\ j[k] = t[k - Len(s)] /\ k - Len(s) \in DOMAIN t
    BY <1>1, <1>5
  <2>2. j[i] \in ToSet(s) /\ j[k] \in ToSet(t)
    BY <2>1 DEF ToSet
  <2> QED
    BY <1>2, <2>2 DEF Strangers
<1> QED
  BY <1>1, <1>2, <1>3, <1>4, <1>5

\* Lists that are apart, and strangers to each other, are apart when flattened.
LEMMA FlattenApart ==
  ASSUME NEW V, NEW ss \in Seq(Seq(V)), \A k \in DOMAIN ss : Apart(ss[k]),
         \A i, k \in DOMAIN ss : i < k => Strangers(ss[i], ss[k])
  PROVE  Apart(FlattenSeq(ss))
<1>1. CASE ss = <<>>
  <2>1. DOMAIN FlattenSeq(ss) = {}
    BY <1>1 DEF FlattenSeq
  <2> QED
    BY <2>1 DEF Apart
<1>2. CASE ss # <<>>
  <2> DEFINE N == Len(ss)
             Of(n) == UNION {ToSet(ss[k]) : k \in 1..n}
  <2>1. N \in Nat /\ N >= 1 /\ DOMAIN ss = 1..N /\ \A i \in 1..N : ss[i] \in Seq(V)
    BY <1>2
  <2>2. PICK g : Joins(V, ss, N, g) /\ FlattenSeq(ss) = g[N]
    BY <1>2, FlattenJoins
  <2> DEFINE S == {n \in 1..N : Apart(g[n]) /\ ToSet(g[n]) = Of(n)}
  <2>3. 1 \in S
    <3>1. g[1] = ss[1] /\ Of(1) = ToSet(ss[1])
      BY <2>2 DEF Joins
    <3> QED
      BY <2>1, <3>1
  <2>4. ASSUME NEW n \in 2..N, n - 1 \in S PROVE n \in S
    <3>1. /\ n \in 1..N /\ n - 1 \in 1..N /\ 1..n = 1..(n - 1) \cup {n}
          /\ \A k \in 1..(n - 1) : k \in 1..N /\ k < n
      BY <2>1
    <3>2. g[n] = g[n - 1] \o ss[n] /\ g[n - 1] \in Seq(V)
      BY <2>2, <3>1 DEF Joins
    <3>3. ToSet(g[n]) = ToSet(g[n - 1]) \cup ToSet(ss[n])
      BY <2>1, <3>1, <3>2, Elements
    <3>4. Of(n) = Of(n - 1) \cup ToSet(ss[n])
      BY <3>1
    <3>5. Strangers(g[n - 1], ss[n])
      <4>1. \A k \in 1..(n - 1) : Strangers(ss[k], ss[n])
        BY <2>1, <3>1
      <4>2. \A x \in Of(n - 1) : \E k \in 1..(n - 1) : x \in ToSet(ss[k])
        OBVIOUS
      <4>3. ToSet(g[n - 1]) = Of(n - 1)
        BY <2>4
      <4> HIDE DEF Of
      <4> QED
        BY <4>1, <4>2, <4>3 DEF Strangers
    <3>6. Apart(g[n])
      <4>1. Apart(g[n - 1]) /\ Apart(ss[n]) /\ ss[n] \in Seq(V)
        BY <2>1, <2>4, <3>1
      <4> QED
        BY <3>2, <3>5, <4>1, ApartJoin
    <3> QED
      BY <2>4, <3>1, <3>3, <3>4, <3>6
  <2> HIDE DEF S
  <2>5. 1..N \subseteq S
    BY <2>1, <2>3, <2>4, Positions
  <2>6. N \in S
    BY <2>1, <2>5
  <2> QED
    BY <2>2, <2>6 DEF S
<1> QED
  BY <1>1, <1>2

\* Lists of steps with different operations are strangers, and so join apart.
LEMMA OtherOps ==
  ASSUME NEW A, NEW B, A \cap B = {}, NEW s \in Seq(StepOf(A)), NEW t \in Seq(StepOf(B)),
         Apart(s), Apart(t)
  PROVE  s \o t \in Seq(StepOf(A \cup B)) /\ Apart(s \o t)
<1> DEFINE W == StepOf(A \cup B)
<1>1. StepOf(A) \subseteq W /\ StepOf(B) \subseteq W
  BY DEF StepOf
<1> HIDE DEF W
<1>2. s \in Seq(W) /\ t \in Seq(W)
  BY <1>1, Widen
<1>3. (\A k \in DOMAIN s : s[k].op \in A) /\ (\A k \in DOMAIN t : t[k].op \in B)
  BY StepsTyped
<1>4. Strangers(s, t)
  <2> SUFFICES ASSUME NEW i \in DOMAIN s, NEW k \in DOMAIN t PROVE ~Clash(s[i], t[k])
    BY DEF Strangers, ToSet
  <2>1. s[i].op \in A /\ t[k].op \in B
    BY <1>3
  <2> QED
    BY <2>1 DEF Clash
<1>5. Apart(s \o t)
  BY <1>2, <1>4, ApartJoin
<1>6. s \o t \in Seq(W)
  BY <1>2
<1> QED
  BY <1>5, <1>6 DEF W

\* The operations whose steps own something.
OwnerOps == {"profile", "service", "account", "share", "mapping"}

\* Steps that own nothing are apart.
LEMMA NoOwners ==
  ASSUME NEW A, A \cap OwnerOps = {}, NEW s \in Seq(StepOf(A))
  PROVE  Apart(s)
<1> SUFFICES ASSUME NEW i \in DOMAIN s PROVE ~Owner(s[i])
  BY DEF Apart, Clash
<1>1. s[i].op \in A
  BY StepsTyped
<1> QED
  BY <1>1 DEF Owner, OwnerOps

\* No profile is written twice: validate() keeps their names apart, whatever the spelling.
LEMMA ProfilesApart ==
  ASSUME document \in NetplanConfig, WifiValid
  PROVE  Apart(RunProfiles)
<1>1. /\ RunProfiles \in Seq(StepOf({"profile"})) /\ DOMAIN RunProfiles = DOMAIN document.wifi
      /\ \A k \in DOMAIN document.wifi :
           RunProfiles[k] = Ask("profile", document.wifi[k].name.is, "new")
  BY ProfilesPart
<1>2. \A i, k \in DOMAIN document.wifi : i < k => document.wifi[i].name.is # document.wifi[k].name.is
  BY DEF WifiValid, Repeats, Same
<1>3. ASSUME NEW i \in DOMAIN RunProfiles, NEW k \in DOMAIN RunProfiles, i < k
      PROVE  ~Clash(RunProfiles[i], RunProfiles[k])
  BY <1>1, <1>2, <1>3, Fields DEF Clash
<1> QED
  BY <1>1, <1>3, ApartInOrder

\* No service is set twice.
LEMMA ServicesApart ==
  ASSUME document \in NetplanConfig, ServicesValid
  PROVE  Apart(RunServices)
<1>1. /\ RunServices \in Seq(StepOf({"service"})) /\ DOMAIN RunServices = DOMAIN document.services
      /\ \A k \in DOMAIN document.services :
           RunServices[k] = Ask("service", document.services[k].name.is, document.services[k].to)
  BY ServicesPart
<1>2. \A i, k \in DOMAIN document.services :
        i < k => document.services[i].name.is # document.services[k].name.is
  BY DEF ServicesValid, Repeats, Same
<1>3. ASSUME NEW i \in DOMAIN RunServices, NEW k \in DOMAIN RunServices, i < k
      PROVE  ~Clash(RunServices[i], RunServices[k])
  BY <1>1, <1>2, <1>3, Fields DEF Clash
<1> QED
  BY <1>1, <1>3, ApartInOrder

\* No share is created twice.
LEMMA SharesApart ==
  ASSUME document \in NetplanConfig, SharesValid
  PROVE  Apart(RunShares)
<1>1. /\ RunShares \in Seq(StepOf({"share"})) /\ DOMAIN RunShares = DOMAIN document.shares
      /\ \A k \in DOMAIN document.shares :
           RunShares[k] = Ask("share", document.shares[k].name.is, "new")
  BY SharesPart
<1>2. \A i, k \in DOMAIN document.shares :
        i < k => document.shares[i].name.is # document.shares[k].name.is
  BY DEF SharesValid, Repeats, Same
<1>3. ASSUME NEW i \in DOMAIN RunShares, NEW k \in DOMAIN RunShares, i < k
      PROVE  ~Clash(RunShares[i], RunShares[k])
  BY <1>1, <1>2, <1>3, Fields DEF Clash
<1> QED
  BY <1>1, <1>3, ApartInOrder

\* No drive is mapped twice; mappings without a drive own nothing.
LEMMA MappingsApart ==
  ASSUME document \in NetplanConfig, MappingsValid
  PROVE  Apart(RunMappings)
<1> DEFINE m == document.mappings
<1>1. /\ RunMappings \in Seq(StepOf({"mapping"})) /\ DOMAIN RunMappings = DOMAIN m
      /\ \A k \in DOMAIN m : RunMappings[k] = Ask("mapping", DriveOf(m[k]), "new")
  BY MappingsPart
<1>2. \A i, k \in DOMAIN m :
        (i < k /\ m[i].local # None /\ m[k].local # None) => m[i].local.is # m[k].local.is
  BY DEF MappingsValid, Same
<1> HIDE DEF m
<1>3. ASSUME NEW i \in DOMAIN RunMappings, NEW k \in DOMAIN RunMappings, i < k,
             Clash(RunMappings[i], RunMappings[k])
      PROVE  FALSE
  <2>1. DriveOf(m[i]) # None /\ DriveOf(m[i]) = DriveOf(m[k])
    BY <1>1, <1>3, Fields DEF Clash, Owner
  <2>2. m[i].local # None /\ m[k].local # None /\ m[i].local.is = m[k].local.is
    BY <2>1 DEF DriveOf
  <2> QED
    BY <1>1, <1>2, <1>3, <2>2
<1> QED
  BY <1>1, <1>3, ApartInOrder

\* No account is created twice, credentials aside.
LEMMA AccountsApart ==
  ASSUME document \in NetplanConfig, AccountsValid
  PROVE  Apart(RunAccounts)
<1> DEFINE s == document.accounts
           step(k) == Ask("account", s[k].id.is, "new")
           tt == [k \in DOMAIN s |-> When(s[k].kind = "local", step(k))]
           V == StepOf({"account"})
<1>1. tt \in Seq(Seq(V)) /\ DOMAIN tt = DOMAIN s /\ RunAccounts = FlattenSeq(tt)
  BY AccountsPart
<1>2. \A i, k \in DOMAIN s : i < k => s[i].id.is # s[k].id.is
  BY DEF AccountsValid, Repeats, Same
<1>3. \A k \in DOMAIN s : tt[k] = <<step(k)>> \/ tt[k] = <<>>
  BY DEF When
<1>4. \A k \in DOMAIN s : step(k).on = s[k].id.is
  BY Fields
<1> HIDE DEF s, step, tt, V
<1>5. ASSUME NEW k \in DOMAIN tt PROVE Apart(tt[k]) /\ ToSet(tt[k]) \subseteq {step(k)}
  <2>1. (DOMAIN tt[k] = {1} /\ tt[k][1] = step(k)) \/ DOMAIN tt[k] = {}
    BY <1>1, <1>3
  <2> QED
    BY <2>1 DEF Apart, ToSet
<1>6. ASSUME NEW i \in DOMAIN tt, NEW k \in DOMAIN tt, i < k PROVE Strangers(tt[i], tt[k])
  <2>1. step(i).on # step(k).on
    BY <1>1, <1>2, <1>4, <1>6
  <2>2. ToSet(tt[i]) \subseteq {step(i)} /\ ToSet(tt[k]) \subseteq {step(k)}
    BY <1>5
  <2> QED
    BY <2>1, <2>2 DEF Strangers, Clash
<1> QED
  BY <1>1, <1>5, <1>6, FlattenApart

\* No two steps of a valid document own the same object.
LEMMA StepsApart ==
  ASSUME document \in NetplanConfig, Valid
  PROVE  Apart(Runs.steps)
<1> DEFINE O1 == IdentityOps \cup AdapterOps
           O2 == {"profile"} \cup {"scan", "link"}
           O3 == O1 \cup O2
           O4 == O3 \cup {"service"}
           O5 == {"account"} \cup {"share"}
           O6 == O5 \cup {"mapping"}
           O7 == O4 \cup O6
           s1 == RunIdentity \o RunAdapters
           s2 == RunProfiles \o RunActions
           s3 == s1 \o s2
           s4 == s3 \o RunServices
           s5 == RunAccounts \o RunShares
           s6 == s5 \o RunMappings
           s7 == s4 \o s6
<1>1. Runs.steps = s7 \o RunFirewall
  BY RunParts
<1>2. /\ IdentityOps \cap AdapterOps = {} /\ {"profile"} \cap {"scan", "link"} = {}
      /\ O1 \cap O2 = {} /\ O3 \cap {"service"} = {} /\ {"account"} \cap {"share"} = {}
      /\ O5 \cap {"mapping"} = {} /\ O4 \cap O6 = {} /\ O7 \cap {"firewall"} = {}
      /\ IdentityOps \cap OwnerOps = {} /\ AdapterOps \cap OwnerOps = {}
      /\ {"scan", "link"} \cap OwnerOps = {} /\ {"firewall"} \cap OwnerOps = {}
  BY DEF IdentityOps, AdapterOps, OwnerOps
<1>3. /\ RunIdentity \in Seq(StepOf(IdentityOps)) /\ RunAdapters \in Seq(StepOf(AdapterOps))
      /\ RunProfiles \in Seq(StepOf({"profile"})) /\ RunActions \in Seq(StepOf({"scan", "link"}))
  BY IdentityPart, AdaptersPart, ProfilesPart, ActionsPart
<1>4. /\ RunServices \in Seq(StepOf({"service"})) /\ RunAccounts \in Seq(StepOf({"account"}))
      /\ RunShares \in Seq(StepOf({"share"})) /\ RunMappings \in Seq(StepOf({"mapping"}))
      /\ RunFirewall \in Seq(StepOf({"firewall"}))
  BY ServicesPart, AccountsPart, SharesPart, MappingsPart, FirewallPart
<1>5. Apart(RunIdentity) /\ Apart(RunAdapters) /\ Apart(RunActions) /\ Apart(RunFirewall)
  BY <1>2, <1>3, <1>4, NoOwners
<1>6. /\ Apart(RunProfiles) /\ Apart(RunServices) /\ Apart(RunAccounts) /\ Apart(RunShares)
      /\ Apart(RunMappings)
  BY ProfilesApart, ServicesApart, AccountsApart, SharesApart, MappingsApart DEF Valid
<1>7. s1 \in Seq(StepOf(O1)) /\ Apart(s1)
  BY <1>2, <1>3, <1>5, OtherOps
<1>8. s2 \in Seq(StepOf(O2)) /\ Apart(s2)
  BY <1>2, <1>3, <1>5, <1>6, OtherOps
<1>9. s5 \in Seq(StepOf(O5)) /\ Apart(s5)
  BY <1>2, <1>4, <1>6, OtherOps
<1> HIDE DEF O1, O2, O5, s1, s2, s5
<1>10. s3 \in Seq(StepOf(O3)) /\ Apart(s3)
  BY <1>2, <1>7, <1>8, OtherOps
<1>11. s6 \in Seq(StepOf(O6)) /\ Apart(s6)
  BY <1>2, <1>4, <1>6, <1>9, OtherOps
<1> HIDE DEF O3, O6, s3, s6
<1>12. s4 \in Seq(StepOf(O4)) /\ Apart(s4)
  BY <1>2, <1>4, <1>6, <1>10, OtherOps
<1> HIDE DEF O4, s4
<1>13. s7 \in Seq(StepOf(O7)) /\ Apart(s7)
  BY <1>2, <1>11, <1>12, OtherOps
<1> HIDE DEF O7, s7
<1>14. Apart(s7 \o RunFirewall)
  BY <1>2, <1>4, <1>5, <1>13, OtherOps
<1> QED
  BY <1>1, <1>14

\* One step comes somewhere before another.
Before(x, y, s) == \E i, k \in DOMAIN s : i < k /\ s[i] = x /\ s[k] = y

\* A step of the first list comes before one of the second.
LEMMA BeforeJoin ==
  ASSUME NEW V, NEW s \in Seq(V), NEW t \in Seq(V), NEW x \in ToSet(s), NEW y \in ToSet(t)
  PROVE  Before(x, y, s \o t)
<1> DEFINE j == s \o t
<1>1. /\ Len(s) \in Nat /\ Len(t) \in Nat /\ DOMAIN s = 1..Len(s) /\ DOMAIN t = 1..Len(t)
      /\ DOMAIN j = 1..(Len(s) + Len(t)) /\ \A k \in 1..Len(s) : j[k] = s[k]
      /\ \A k \in 1..Len(t) : j[Len(s) + k] = t[k]
  BY Elements
<1> HIDE DEF j
<1>2. PICK i \in 1..Len(s) : s[i] = x
  BY <1>1 DEF ToSet
<1>3. PICK k \in 1..Len(t) : t[k] = y
  BY <1>1 DEF ToSet
<1>4. i \in DOMAIN j /\ Len(s) + k \in DOMAIN j /\ i < Len(s) + k
  BY <1>1
<1> QED
  BY <1>1, <1>2, <1>3, <1>4 DEF Before, j

\* The order within the first of two joined lists remains.
LEMMA BeforeFirst ==
  ASSUME NEW V, NEW s \in Seq(V), NEW t \in Seq(V), NEW x, NEW y, Before(x, y, s)
  PROVE  Before(x, y, s \o t)
<1> DEFINE j == s \o t
<1>1. /\ Len(s) \in Nat /\ Len(t) \in Nat /\ DOMAIN s = 1..Len(s)
      /\ DOMAIN j = 1..(Len(s) + Len(t)) /\ \A k \in 1..Len(s) : j[k] = s[k]
  BY Elements
<1> HIDE DEF j
<1>2. PICK i \in DOMAIN s, k \in DOMAIN s : i < k /\ s[i] = x /\ s[k] = y
  BY DEF Before
<1>3. i \in DOMAIN j /\ k \in DOMAIN j
  BY <1>1
<1> QED
  BY <1>1, <1>2, <1>3 DEF Before, j

\* The order within the second of two joined lists remains.
LEMMA BeforeSecond ==
  ASSUME NEW V, NEW s \in Seq(V), NEW t \in Seq(V), NEW x, NEW y, Before(x, y, t)
  PROVE  Before(x, y, s \o t)
<1> DEFINE j == s \o t
<1>1. /\ Len(s) \in Nat /\ Len(t) \in Nat /\ DOMAIN t = 1..Len(t)
      /\ DOMAIN j = 1..(Len(s) + Len(t)) /\ \A k \in 1..Len(t) : j[Len(s) + k] = t[k]
  BY Elements
<1> HIDE DEF j
<1>2. PICK i \in DOMAIN t, k \in DOMAIN t : i < k /\ t[i] = x /\ t[k] = y
  BY DEF Before
<1>3. Len(s) + i \in DOMAIN j /\ Len(s) + k \in DOMAIN j /\ Len(s) + i < Len(s) + k
  BY <1>1, <1>2
<1> QED
  BY <1>1, <1>2, <1>3 DEF Before, j

\* An account that a share grants is created, and before the share.
LEMMA AccountsFirst ==
  ASSUME document \in NetplanConfig, SharesValid, NEW h \in DOMAIN document.shares,
         NEW a \in DOMAIN document.shares[h].accounts
  PROVE  Before(Ask("account", document.shares[h].accounts[a].is, "new"),
                Ask("share", document.shares[h].name.is, "new"), Runs.steps)
<1> DEFINE id == document.shares[h].accounts[a]
           x == Ask("account", id.is, "new")
           y == Ask("share", document.shares[h].name.is, "new")
<1>1. Grants(id)
  BY DEF SharesValid
<1>2. \E n \in DOMAIN document.accounts :
        document.accounts[n].id.is = id.is /\ document.accounts[n].kind = "local"
  <2> DEFINE n == CHOOSE k \in DOMAIN document.accounts : Same(document.accounts[k].id, id)
  <2>1. n \in DOMAIN document.accounts /\ Same(document.accounts[n].id, id)
    BY <1>1 DEF Grants, Declared
  <2>2. document.accounts[n].kind = "local"
    BY <1>1 DEF Grants, Account
  <2> QED
    BY <2>1, <2>2 DEF Same
<1>3. x \in ToSet(RunAccounts)
  BY <1>2, AccountsPart
<1>4. y \in ToSet(RunShares)
  BY SharesPart DEF ToSet
<1> HIDE DEF id, x, y
<1> DEFINE pre == (((RunIdentity \o RunAdapters) \o (RunProfiles \o RunActions)) \o RunServices)
           s5 == RunAccounts \o RunShares
           s6 == s5 \o RunMappings
           s7 == pre \o s6
<1>5. Runs.steps = s7 \o RunFirewall
  BY RunParts
<1>6. pre \in Seq(AnyStep)
  BY RunTypes
<1>7. s5 \in Seq(AnyStep) /\ Before(x, y, s5)
  BY <1>3, <1>4, RunTypes, BeforeJoin
<1> HIDE DEF pre, s5
<1>8. s6 \in Seq(AnyStep) /\ Before(x, y, s6)
  BY <1>7, RunTypes, BeforeFirst
<1> HIDE DEF s6
<1>9. s7 \in Seq(AnyStep) /\ Before(x, y, s7)
  BY <1>6, <1>8, BeforeSecond
<1> HIDE DEF s7
<1>10. Before(x, y, s7 \o RunFirewall)
  BY <1>9, RunTypes, BeforeFirst
<1> QED
  BY <1>5, <1>10 DEF id, x, y

\* The steps are those of the sections.
LEMMA StepsOfSections ==
  ASSUME document \in NetplanConfig
  PROVE  ToSet(Runs.steps) =
           ToSet(RunIdentity) \cup ToSet(RunAdapters) \cup ToSet(RunProfiles) \cup ToSet(RunActions)
             \cup ToSet(RunServices) \cup ToSet(RunAccounts) \cup ToSet(RunShares)
             \cup ToSet(RunMappings) \cup ToSet(RunFirewall)
<1> DEFINE s1 == RunIdentity \o RunAdapters
           s2 == RunProfiles \o RunActions
           s3 == s1 \o s2
           s4 == s3 \o RunServices
           s5 == RunAccounts \o RunShares
           s6 == s5 \o RunMappings
           s7 == s4 \o s6
<1>1. Runs.steps = s7 \o RunFirewall
  BY RunParts
<1>2. s1 \in Seq(AnyStep) /\ ToSet(s1) = ToSet(RunIdentity) \cup ToSet(RunAdapters)
  BY RunTypes, Elements
<1>3. s2 \in Seq(AnyStep) /\ ToSet(s2) = ToSet(RunProfiles) \cup ToSet(RunActions)
  BY RunTypes, Elements
<1>4. s5 \in Seq(AnyStep) /\ ToSet(s5) = ToSet(RunAccounts) \cup ToSet(RunShares)
  BY RunTypes, Elements
<1> HIDE DEF s1, s2, s5
<1>5. s3 \in Seq(AnyStep) /\ ToSet(s3) = ToSet(s1) \cup ToSet(s2)
  BY <1>2, <1>3, Elements
<1>6. s6 \in Seq(AnyStep) /\ ToSet(s6) = ToSet(s5) \cup ToSet(RunMappings)
  BY <1>4, RunTypes, Elements
<1> HIDE DEF s3, s6
<1>7. s4 \in Seq(AnyStep) /\ ToSet(s4) = ToSet(s3) \cup ToSet(RunServices)
  BY <1>5, RunTypes, Elements
<1> HIDE DEF s4
<1>8. s7 \in Seq(AnyStep) /\ ToSet(s7) = ToSet(s4) \cup ToSet(s6)
  BY <1>6, <1>7, Elements
<1> HIDE DEF s7
<1>9. ToSet(s7 \o RunFirewall) = ToSet(s7) \cup ToSet(RunFirewall)
  BY <1>8, RunTypes, Elements
<1> QED
  BY <1>1, <1>2, <1>3, <1>4, <1>5, <1>6, <1>7, <1>8, <1>9

\* A step that is called a service, a share or a mapping is one of that section.
LEMMA StepsByName ==
  ASSUME document \in NetplanConfig, NEW x \in ToSet(Runs.steps)
  PROVE  /\ x.op = "service" => x \in ToSet(RunServices)
         /\ x.op = "share" => x \in ToSet(RunShares)
         /\ x.op = "mapping" => x \in ToSet(RunMappings)
<1>1. ASSUME NEW A, NEW s \in Seq(StepOf(A)), x \in ToSet(s) PROVE x.op \in A
  BY <1>1, StepsTyped DEF ToSet
<1>2. x \in ToSet(RunIdentity) => x.op \in IdentityOps
  BY <1>1, IdentityPart
<1>3. x \in ToSet(RunAdapters) => x.op \in AdapterOps
  BY <1>1, AdaptersPart
<1>4. x \in ToSet(RunProfiles) => x.op \in {"profile"}
  BY <1>1, ProfilesPart
<1>5. x \in ToSet(RunActions) => x.op \in {"scan", "link"}
  BY <1>1, ActionsPart
<1>6. x \in ToSet(RunServices) => x.op \in {"service"}
  BY <1>1, ServicesPart
<1>7. x \in ToSet(RunAccounts) => x.op \in {"account"}
  BY <1>1, AccountsPart
<1>8. x \in ToSet(RunShares) => x.op \in {"share"}
  BY <1>1, SharesPart
<1>9. x \in ToSet(RunMappings) => x.op \in {"mapping"}
  BY <1>1, MappingsPart
<1>10. x \in ToSet(RunFirewall) => x.op \in {"firewall"}
  BY <1>1, FirewallPart
<1> QED
  BY <1>2, <1>3, <1>4, <1>5, <1>6, <1>7, <1>8, <1>9, <1>10, StepsOfSections
     DEF IdentityOps, AdapterOps

\* The services that shares and mappings need are not stopped by any step.
LEMMA NeededServices ==
  ASSUME document \in NetplanConfig, ServicesValid, NEW x \in ToSet(Runs.steps),
         NEW y \in ToSet(Runs.steps), x.op = "service", x.to = "stopped"
  PROVE  /\ y.op = "share" => x.on # Server
         /\ y.op = "mapping" => x.on # Workstation
<1> DEFINE v == document.services
<1>1. x \in ToSet(RunServices)
  BY StepsByName
<1>2. PICK k \in DOMAIN v : x = Ask("service", v[k].name.is, v[k].to)
  BY <1>1, ServicesPart DEF ToSet
<1>3. Stops(x.on)
  <2>1. v[k].name.is = x.on /\ v[k].to = "stopped"
    BY <1>2, Fields
  <2> QED
    BY <2>1 DEF Stops
<1>4. ASSUME y.op = "share" PROVE x.on # Server
  <2>1. y \in ToSet(RunShares)
    BY <1>4, StepsByName
  <2>2. \E m \in DOMAIN document.shares : TRUE
    BY <2>1, SharesPart DEF ToSet
  <2>3. document.shares # <<>>
    BY <2>2
  <2> QED
    BY <1>3, <2>3 DEF ServicesValid
<1>5. ASSUME y.op = "mapping" PROVE x.on # Workstation
  <2>1. y \in ToSet(RunMappings)
    BY <1>5, StepsByName
  <2>2. \E m \in DOMAIN document.mappings : TRUE
    BY <2>1, MappingsPart DEF ToSet
  <2>3. document.mappings # <<>>
    BY <2>2
  <2> QED
    BY <1>3, <2>3 DEF ServicesValid
<1> QED
  BY <1>4, <1>5

\* The profile of a connection is one of the steps.
LEMMA ProfilesPresent ==
  ASSUME document \in NetplanConfig, ActionsValid, NEW c \in DOMAIN document.actions,
         document.actions[c].action = "connect"
  PROVE  \E i \in DOMAIN Runs.steps :
           Runs.steps[i].op = "profile" /\ Runs.steps[i].on = document.actions[c].profile.is
<1>1. PICK w \in DOMAIN document.wifi : document.wifi[w].name.is = document.actions[c].profile.is
  BY DEF ActionsValid, Same
<1> DEFINE x == Ask("profile", document.wifi[w].name.is, "new")
<1>2. x \in ToSet(RunProfiles)
  BY ProfilesPart DEF ToSet
<1>3. x \in ToSet(Runs.steps)
  BY <1>2, StepsOfSections
<1>4. x.op = "profile" /\ x.on = document.actions[c].profile.is
  BY <1>1, Fields
<1> HIDE DEF x
<1> QED
  BY <1>3, <1>4 DEF ToSet

\* All of AcceptedIsCoherent, of a document that validate() accepts.
LEMMA Coherent ==
  ASSUME document \in NetplanConfig, Valid
  PROVE  AcceptedIsCoherent
<1> DEFINE s == Runs.steps
<1>1. \A i, k \in DOMAIN s : (Owner(s[i]) /\ s[i].op = s[k].op /\ s[i].on = s[k].on) => i = k
  BY StepsApart DEF Apart, Clash
<1>2. ASSUME NEW h \in DOMAIN document.shares, NEW a \in DOMAIN document.shares[h].accounts
      PROVE  \E i, k \in DOMAIN s :
               /\ i < k
               /\ s[i].op = "account" /\ s[i].on = document.shares[h].accounts[a].is
               /\ s[k].op = "share" /\ s[k].on = document.shares[h].name.is
  <2> DEFINE x == Ask("account", document.shares[h].accounts[a].is, "new")
             y == Ask("share", document.shares[h].name.is, "new")
  <2>1. Before(x, y, s)
    BY AccountsFirst DEF Valid
  <2>2. /\ x.op = "account" /\ x.on = document.shares[h].accounts[a].is
        /\ y.op = "share" /\ y.on = document.shares[h].name.is
    BY Fields
  <2> HIDE DEF x, y, s
  <2> QED
    BY <2>1, <2>2 DEF Before
<1>3. \A c \in DOMAIN document.actions : document.actions[c].action = "connect" =>
        \E i \in DOMAIN s : s[i].op = "profile" /\ s[i].on = document.actions[c].profile.is
  BY ProfilesPresent DEF Valid
<1>4. ASSUME NEW i \in DOMAIN s, NEW k \in DOMAIN s, s[i].op = "service", s[i].to = "stopped"
      PROVE  /\ s[k].op = "share" => s[i].on # Server
             /\ s[k].op = "mapping" => s[i].on # Workstation
  <2>1. s[i] \in ToSet(Runs.steps) /\ s[k] \in ToSet(Runs.steps)
    BY DEF ToSet
  <2> QED
    BY <1>4, <2>1, NeededServices DEF Valid
<1> HIDE DEF s
<1> QED
  BY <1>1, <1>2, <1>3, <1>4 DEF AcceptedIsCoherent, s

-----------------------------------------------------------------------------
(* A document on its way to a job.                                         *)

Stages == {"received", "valid", "invalid", "planned", "permitted", "unsupported"}

\* A document beyond validate() is valid, one beyond build_plan has that plan, and a permitted
\* one only asks for what the machine has.
DocInv ==
  /\ document \in Incoming /\ tools \in Images /\ stage \in Stages
  /\ stage \in {"valid", "planned", "permitted", "unsupported"} => Valid
  /\ stage \in {"planned", "permitted", "unsupported"} => plan = BuildPlan
  /\ stage = "permitted" => \A k \in DOMAIN plan : Permitted(plan[k])

\* Valid, BuildPlan and Permitted are about the document and the tools, which no step changes.
LEMMA DocUnchanged ==
  ASSUME UNCHANGED <<document, tools>>
  PROVE  Valid' = Valid /\ BuildPlan' = BuildPlan /\ \A o : Permitted(o)' = Permitted(o)
<1>1. document' = document /\ tools' = tools
  OBVIOUS
<1>2. Valid' = Valid
  <2>1. WifiValid' = WifiValid
    BY <1>1 DEF WifiValid, Repeats, Same
  <2>2. ActionsValid' = ActionsValid
    BY <1>1 DEF ActionsValid, Same
  <2>3. AccountsValid' = AccountsValid
    BY <1>1 DEF AccountsValid, Repeats, Same
  <2>4. SharesValid' = SharesValid
    BY <1>1 DEF SharesValid, Grants, Declared, Account, Repeats, Same
  <2>5. MappingsValid' = MappingsValid
    BY <1>1 DEF MappingsValid, Declared, Same
  <2>6. ServicesValid' = ServicesValid
    BY <1>1 DEF ServicesValid, Stops, Repeats, Same
  <2>7. DriversValid' = DriversValid
    BY <1>1 DEF DriversValid
  <2> QED
    BY <2>1, <2>2, <2>3, <2>4, <2>5, <2>6, <2>7 DEF Valid
<1>3. BuildPlan' = BuildPlan
  <2>1. /\ PlanHooks("before_apply")' = PlanHooks("before_apply")
        /\ PlanHooks("after_apply")' = PlanHooks("after_apply")
        /\ PlanHooks("after_rollback")' = PlanHooks("after_rollback")
    BY <1>1 DEF PlanHooks, ForEach, Each, When
  <2>2. PlanIdentity' = PlanIdentity
    BY <1>1 DEF PlanIdentity, When
  <2>3. PlanAdapters' = PlanAdapters /\ PlanAccounts' = PlanAccounts
    BY <1>1 DEF PlanAdapters, PlanAccounts, ForEach, Each
  <2>4. PlanProfiles' = PlanProfiles /\ PlanActions' = PlanActions /\ PlanServices' = PlanServices
    BY <1>1 DEF PlanProfiles, PlanActions, PlanServices, Each
  <2>5. PlanShares' = PlanShares /\ PlanMappings' = PlanMappings /\ PlanDrivers' = PlanDrivers
    BY <1>1 DEF PlanShares, PlanMappings, PlanDrivers, Each
  <2>6. PlanFirewall' = PlanFirewall
    BY <1>1 DEF PlanFirewall, When
  <2>7. BuildPlan' = ((((((((((PlanHooks("before_apply") \o PlanIdentity) \o PlanAdapters)
                \o PlanProfiles) \o PlanActions) \o PlanServices)
                \o ((PlanAccounts \o PlanShares) \o PlanMappings)) \o PlanFirewall) \o PlanDrivers)
                \o PlanHooks("after_apply")) \o PlanHooks("after_rollback"))'
    BY DEF BuildPlan, PlanSmb, PlanAdapters, PlanProfiles, PlanActions, PlanServices, PlanAccounts,
           PlanShares, PlanMappings, PlanFirewall, PlanDrivers
  <2> QED
    BY <2>1, <2>2, <2>3, <2>4, <2>5, <2>6, <2>7, PlanParts
<1>4. \A o : Permitted(o)' = Permitted(o)
  BY <1>1 DEF Permitted, Available
<1> QED
  BY <1>2, <1>3, <1>4

\* A document that was received has no plan yet.
LEMMA DocInvInit == DocInit => DocInv
BY DEF DocInit, DocInv, Stages

\* Each of the three actions, and a stutter, keeps the invariant.
LEMMA DocInvNext == DocInv /\ [DocNext]_docVars => DocInv'
<1> SUFFICES ASSUME DocInv, [DocNext]_docVars PROVE DocInv'
  OBVIOUS
<1>1. CASE Parse
  <2>1. UNCHANGED <<document, tools, plan>> /\ stage' = IF Valid THEN "valid" ELSE "invalid"
    BY <1>1 DEF Parse
  <2>2. Valid' = Valid
    BY <2>1, DocUnchanged
  <2> QED
    BY <2>1, <2>2 DEF DocInv, Stages
<1>2. CASE Plan
  <2>1. /\ UNCHANGED <<document, tools>> /\ stage = "valid" /\ stage' = "planned"
        /\ plan' = BuildPlan
    BY <1>2 DEF Plan
  <2>2. Valid' = Valid /\ BuildPlan' = BuildPlan
    BY <2>1, DocUnchanged
  <2> QED
    BY <2>1, <2>2 DEF DocInv, Stages
<1>3. CASE RequireCapabilities
  <2>1. /\ UNCHANGED <<document, tools, plan>> /\ stage = "planned"
        /\ stage' = IF \A k \in DOMAIN plan : Permitted(plan[k]) THEN "permitted" ELSE "unsupported"
    BY <1>3 DEF RequireCapabilities
  <2>2. Valid' = Valid /\ BuildPlan' = BuildPlan /\ \A o : Permitted(o)' = Permitted(o)
    BY <2>1, DocUnchanged
  <2>3. (\A k \in DOMAIN plan : Permitted(plan[k])) => \A k \in DOMAIN plan' : Permitted(plan[k])'
    BY <2>1, <2>2
  <2> QED
    BY <2>1, <2>2, <2>3 DEF DocInv, Stages
<1>4. CASE UNCHANGED docVars
  <2>1. UNCHANGED <<document, tools, stage, plan>>
    BY <1>4 DEF docVars
  <2>2. Valid' = Valid /\ BuildPlan' = BuildPlan /\ \A o : Permitted(o)' = Permitted(o)
    BY <2>1, DocUnchanged
  <2> QED
    BY <2>1, <2>2 DEF DocInv
<1> QED
  BY <1>1, <1>2, <1>3, <1>4 DEF DocNext

\* Documents and images are those an instance may have.
LEMMA DocInvTypes == DocInv => document \in NetplanConfig /\ tools \subseteq DOMAIN ToolOf
BY IncomingAssumption DEF DocInv

\* PlanIsWhatRuns, from the invariant.
LEMMA PlannedWhatRuns == DocInv => PlanIsWhatRuns
<1> SUFFICES ASSUME DocInv, stage = "planned"
             PROVE  /\ OpsOf(plan) = HookOps("before_apply") \o OpsOf(Runs.steps \o Runs.drivers)
                                       \o HookOps("after_apply") \o HookOps("after_rollback")
                    /\ \A k \in DOMAIN plan : plan[k].capability \in Capabilities
  BY DEF PlanIsWhatRuns
<1>1. document \in NetplanConfig /\ plan = BuildPlan
  BY DocInvTypes DEF DocInv
<1>2. \A k \in DOMAIN plan : plan[k] \in PlanOps
  BY <1>1, PlanTyped
<1> QED
  BY <1>1, <1>2, PlanRuns, PlanOpsKnown

\* PermittedStepsHaveTools, from the invariant.
LEMMA PermittedHaveTools == DocInv => PermittedStepsHaveTools
<1> SUFFICES ASSUME DocInv, stage = "permitted", NEW k \in DOMAIN (Runs.steps \o Runs.drivers)
             PROVE  LET all == Runs.steps \o Runs.drivers
                    IN  Needs(all[k]) \subseteq tools \cup Unchecked(all[k])
  BY DEF PermittedStepsHaveTools
<1>1. document \in NetplanConfig /\ tools \subseteq DOMAIN ToolOf
  BY DocInvTypes
<1>2. plan = BuildPlan /\ \A j \in DOMAIN BuildPlan : Permitted(BuildPlan[j])
  BY DEF DocInv
<1> QED
  BY <1>1, <1>2, PlannedHaveTools

\* AcceptedIsCoherent, from the invariant.
LEMMA AcceptedCoherent == DocInv => AcceptedIsCoherent
<1> SUFFICES ASSUME DocInv, stage = "valid" PROVE AcceptedIsCoherent
  BY DEF AcceptedIsCoherent
<1> QED
  BY DocInvTypes, Coherent DEF DocInv

\* For every document and every image: what is planned comes from a valid document, and what
\* is permitted was found available (validate, build_plan and require_plan_capabilities).
THEOREM DocumentInvariant == DocSpec => []DocInv
<1>1. DocInit => DocInv
  BY DocInvInit
<1>2. DocInv /\ [DocNext]_docVars => DocInv'
  BY DocInvNext
<1> QED
  BY <1>1, <1>2, PTL DEF DocSpec

\* The plan of plan.rs is what apply.rs runs, in that order, whatever the document.
THEOREM PlansAreWhatRuns == DocSpec => []PlanIsWhatRuns
<1>1. DocInv => PlanIsWhatRuns
  BY PlannedWhatRuns
<1> QED
  BY <1>1, DocumentInvariant, PTL

\* A document of any length that validate() accepts owns nothing twice, creates accounts before
\* the shares that grant them, and stops no service it needs.
THEOREM AcceptedDocuments == DocSpec => []AcceptedIsCoherent
<1>1. DocInv => AcceptedIsCoherent
  BY AcceptedCoherent
<1> QED
  BY <1>1, DocumentInvariant, PTL

\* A job whose plan was permitted has the tools of its steps, the restart after a forced
\* installation aside.
THEOREM PermittedJobs == DocSpec => []PermittedStepsHaveTools
<1>1. DocInv => PermittedStepsHaveTools
  BY PermittedHaveTools
<1> QED
  BY <1>1, DocumentInvariant, PTL
=============================================================================
