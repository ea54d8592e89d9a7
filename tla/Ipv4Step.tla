------------------------------ MODULE Ipv4Step -------------------------------
(***************************************************************************)
(* The IPv4 step of one adapter and its rollback entry, call by call:      *)
(* apply_ipv4, NetworkRestore::restore and verify_restored of apply.rs.    *)
(* Every netsh call may fail and changes nothing then; a lease may arrive  *)
(* between two calls.  ApplyTransaction sees all of it as one step and one *)
(* entry.  Operators with a suffix are plausible bugs.                     *)
(***************************************************************************)
EXTENDS Naturals, Sequences, FiniteSets, SequencesExt

CONSTANTS Values,     \* addresses, gateways and servers
          None,       \* no gateway
          Adapters,   \* what the adapter may be before the apply
          Wanted,     \* the Ipv4Config values
          Servers6,   \* the DNS servers with an IPv6 address
          Lease       \* what the DHCP server offers: address, gateways, dns and wins

VARIABLES
  nic,      \* the adapter: mode and lease ("none", "due", "bound"), lists set by hand, and
            \* whether the address and which gateways of the lease are in force
  orig,     \* what it was
  want,     \* its Ipv4Config
  saved,    \* the NetworkRestore: what capture() and record_targets() read
  calls,    \* the netsh calls left of this part
  at,       \* the part of the step or of the restore
  changed,  \* whether a call was made; an entry of a step that changed nothing is popped
  trouble,  \* whether a call or an inventory of the restore failed
  outcome   \* what the apply with this one step answers

stepVars == <<nic, orig, want, saved, calls, at, changed, trouble, outcome>>

-----------------------------------------------------------------------------
(* An adapter is on DHCP if and only if it has a lease, or waits for one.  *)
(* Servers are kept in one list per family.                                *)

IsAdapter(n) ==
  /\ n \in [dhcp : BOOLEAN, lease : {"none", "due", "bound"}, manual : Seq(Values),
            gateways : Seq(Values), address : BOOLEAN, offered : Seq(Values),
            dns : Seq(Values), dns6 : Seq(Values), wins : Seq(Values)]
  /\ n.dhcp <=> n.lease # "none"
  /\ n.lease # "bound" => ~n.address /\ n.offered = <<>>
  /\ ToSet(n.dns) \cap Servers6 = {} /\ ToSet(n.dns6) \subseteq Servers6

IsWanted(c) ==
  \/ c \in [mode : {"dhcp"}, dns : BOOLEAN]
  \/ /\ c \in [mode : {"static"}, addresses : Seq(Values), gateways : Seq(Values),
               dns : Seq(Values), wins : Seq(Values)]
     /\ c.addresses # <<>>

ASSUME StepAssumption ==
  /\ None \notin Values
  /\ Lease \in [address : Values, gateways : Seq(Values), dns : Seq(Values), wins : Seq(Values)]
  /\ \A n \in Adapters : IsAdapter(n)
  /\ \A c \in Wanted : IsWanted(c)

-----------------------------------------------------------------------------
(* The adapter, and what an inventory shows of it.  An empty list of       *)
(* servers is the registry's for "from DHCP".                              *)

Bound(n) == n.lease = "bound"

\* Gateways are routes: those set by hand, then those of the lease.
ShownGateways(n) == n.gateways \o n.offered
ShownAddresses(n) == ToSet(n.manual) \cup (IF n.address THEN {Lease.address} ELSE {})
ShownDns(n)  == (IF n.dns = <<>> /\ Bound(n) THEN Lease.dns ELSE n.dns) \o n.dns6
ShownWins(n) == IF n.wins = <<>> /\ Bound(n) THEN Lease.wins ELSE n.wins

\* NetworkRestore::capture, on top of the inventory.
Capture(n) ==
  [dhcp |-> n.dhcp, manual |-> n.manual, gateways |-> ShownGateways(n),
   dns |-> ShownDns(n), dnsFromDhcp |-> n.dns = <<>>,
   wins |-> ShownWins(n), winsFromDhcp |-> n.wins = <<>>]

\* The elements of s that are in S, in their order.
Kept(s, S) ==
  LET I == {k \in DOMAIN s : s[k] \in S}
      nth(j) == CHOOSE k \in I : Cardinality({i \in I : i < k}) = j - 1
  IN  [j \in 1..Cardinality(I) |-> s[nth(j)]]

Without(s, seen) == Kept(s, ToSet(s) \ ToSet(seen))
Among(s, shown)  == Kept(s, shown)

\* record_targets: what the step adds and was not there.
Recorded(n, w) ==
  [shown |-> Capture(n),
   addresses |-> IF w.mode = "static" THEN Without(w.addresses, n.manual) ELSE <<>>,
   gateways |-> IF w.mode = "static" THEN Without(w.gateways, ShownGateways(n)) ELSE <<>>]

-----------------------------------------------------------------------------
(* netsh. *)

SourceDhcp       == <<[do |-> "dhcp"]>>
Primary(a, g)    == <<[do |-> "primary", address |-> a, gateway |-> g]>>
SetList(f, s)    == <<[do |-> "set", list |-> f, to |-> s]>>
AddAll(f, s)     == [k \in DOMAIN s |-> [do |-> "add", list |-> f, one |-> s[k]]]
DeleteAll(f, s)  == [k \in DOMAIN s |-> [do |-> "delete", list |-> f, one |-> s[k]]]

\* One call for the first element, one for each of the rest.
Rest(f, s)     == IF s = <<>> THEN <<>> ELSE AddAll(f, Tail(s))
Replace(f, s)  == SetList(f, IF s = <<>> THEN <<>> ELSE <<Head(s)>>) \o Rest(f, s)

FirstOr(s) == IF s = <<>> THEN None ELSE Head(s)

OfIpv4(s) == Kept(s, ToSet(s) \ Servers6)
OfIpv6(s) == Kept(s, Servers6)

\* set_dns: one list per family.
ReplaceDns(s, fromDhcp) ==
  IF fromDhcp THEN SetList("dns", <<>>)
  ELSE Replace("dns", OfIpv4(s)) \o Replace("dns6", OfIpv6(s))

ReplaceWins(s, fromDhcp) == IF fromDhcp THEN SetList("wins", <<>>) ELSE Replace("wins", s)

\* Addresses and gateways set by hand may survive the change to DHCP.
ToDhcp(n) ==
  LET cleared == [n EXCEPT !.dhcp = TRUE, !.lease = "due", !.manual = <<>>, !.gateways = <<>>,
                           !.address = FALSE, !.offered = <<>>]
  IN  {cleared, [cleared EXCEPT !.manual = n.manual, !.gateways = n.gateways]}

ToStatic(n, c) ==
  [n EXCEPT !.dhcp = FALSE, !.lease = "none", !.address = FALSE, !.offered = <<>>,
            !.manual = <<c.address>>, !.gateways = IF c.gateway = None THEN <<>> ELSE <<c.gateway>>]

Removed(n, c) ==
  IF c.list = "manual"
    THEN [n EXCEPT !.manual = Without(@, <<c.one>>), !.address = @ /\ c.one # Lease.address]
    ELSE [n EXCEPT !.gateways = Without(@, <<c.one>>), !.offered = Without(@, <<c.one>>)]

\* What a call makes of the adapter when it succeeds.
Effects(n, c) ==
  CASE c.do = "dhcp"    -> ToDhcp(n)
    [] c.do = "primary" -> {ToStatic(n, c)}
    [] c.do = "set"     -> {[n EXCEPT ![c.list] = c.to]}
    [] c.do = "add"     -> {[n EXCEPT ![c.list] = Append(@, c.one)]}
    [] c.do = "delete"  -> {Removed(n, c)}

-----------------------------------------------------------------------------
(* The step. *)

StepInit ==
  /\ nic \in Adapters /\ orig = nic
  /\ want \in Wanted
  /\ saved = Recorded(nic, want)
  /\ calls = <<>> /\ at = "apply" /\ outcome = "none"
  /\ changed = FALSE /\ trouble = FALSE

Matches_Addresses(s, w) ==
  /\ ~s.dnsFromDhcp /\ ~s.winsFromDhcp
  /\ s.manual = w.addresses /\ s.gateways = w.gateways

\* static_network_matches.
Matches(s, w) ==
  /\ ~s.dnsFromDhcp /\ ~s.winsFromDhcp
  /\ s.manual = w.addresses /\ s.gateways = w.gateways /\ s.dns = w.dns /\ s.wins = w.wins

StaticCalls(w) ==
  Primary(Head(w.addresses), FirstOr(w.gateways))
    \o Rest("manual", w.addresses) \o Rest("gateways", w.gateways)
    \o ReplaceDns(w.dns, FALSE) \o ReplaceWins(w.wins, FALSE)

\* The calls of apply_ipv4 up to its cleanup.
Begin ==
  /\ at = "apply" /\ outcome = "none" /\ calls = <<>>
  /\ LET s == saved.shown
         c == IF want.mode = "static"
                THEN IF Matches(s, want) THEN <<>> ELSE StaticCalls(want)
                ELSE IF s.dhcp THEN <<>> ELSE SourceDhcp
     IN  calls' = c /\ changed' = (c # <<>>)
  /\ at' = IF want.mode = "static" THEN "end" ELSE "cleanup"
  /\ UNCHANGED <<nic, orig, want, saved, trouble, outcome>>

\* remove_captured_network deletes what was set by hand and is still shown, by its value alone.
Cleanup ==
  LET s == saved.shown
      gone == IF s.manual = <<>> THEN <<>>
              ELSE DeleteAll("manual", Among(s.manual, ShownAddresses(nic)))
                     \o DeleteAll("gateways", Among(s.gateways, ToSet(ShownGateways(nic))))
      dns  == IF want.dns /\ ~s.dnsFromDhcp THEN SetList("dns", <<>>) ELSE <<>>
      wins == IF want.dns /\ ~s.winsFromDhcp THEN SetList("wins", <<>>) ELSE <<>>
  IN
  /\ at = "cleanup" /\ calls = <<>>
  /\ calls' = gone \o dns \o wins
  /\ changed' = (changed \/ s.manual # <<>> \/ dns # <<>> \/ wins # <<>>)
  /\ at' = "end"
  /\ UNCHANGED <<nic, orig, want, saved, trouble, outcome>>

\* The step is done: the apply succeeds, or something after this step fails.
Done ==
  /\ at = "end" /\ calls = <<>>
  /\ \/ at' = "done" /\ outcome' = "succeeded"
     \/ IF changed THEN at' = "restore" /\ UNCHANGED outcome
                   ELSE at' = "done" /\ outcome' = "failed"
  /\ UNCHANGED <<nic, orig, want, saved, calls, changed, trouble>>

-----------------------------------------------------------------------------
(* NetworkRestore::restore. *)

RestoreAddresses(s) ==
  IF s.manual # <<>>
    THEN IF nic.manual # s.manual \/ ShownGateways(nic) # s.gateways
           THEN Primary(Head(s.manual), FirstOr(s.gateways))
                  \o Rest("manual", s.manual) \o Rest("gateways", s.gateways)
           ELSE <<>>
    ELSE IF s.dhcp /\ ~nic.dhcp THEN SourceDhcp ELSE <<>>

RestoreLists_Values(s) ==
  LET now == Capture(nic) IN
  (IF ~s.dnsFromDhcp /\ now.dns # s.dns THEN ReplaceDns(s.dns, s.dnsFromDhcp) ELSE <<>>)
  \o (IF ~s.winsFromDhcp /\ now.wins # s.wins THEN ReplaceWins(s.wins, s.winsFromDhcp) ELSE <<>>)

\* The values of a list that comes from DHCP are not compared.
RestoreLists(s) ==
  LET now == Capture(nic) IN
  (IF now.dnsFromDhcp # s.dnsFromDhcp \/ (~s.dnsFromDhcp /\ now.dns # s.dns)
     THEN ReplaceDns(s.dns, s.dnsFromDhcp) ELSE <<>>)
  \o (IF now.winsFromDhcp # s.winsFromDhcp \/ (~s.winsFromDhcp /\ now.wins # s.wins)
     THEN ReplaceWins(s.wins, s.winsFromDhcp) ELSE <<>>)

Restore ==
  /\ at = "restore"
  /\ calls' = RestoreAddresses(saved.shown) \o RestoreLists(saved.shown)
  /\ at' = "tidy"
  /\ UNCHANGED <<nic, orig, want, saved, changed, trouble, outcome>>

\* What the step added and is still shown, in a second inventory.
Tidy ==
  /\ at = "tidy" /\ calls = <<>>
  /\ calls' = DeleteAll("manual", Among(saved.addresses, ShownAddresses(nic)))
                \o DeleteAll("gateways", Among(saved.gateways, ToSet(ShownGateways(nic))))
  /\ at' = "verify"
  /\ UNCHANGED <<nic, orig, want, saved, changed, trouble, outcome>>

\* verify_restored.
Verified_Mode(now, s) ==
  /\ IF s.manual = <<>> THEN Among(saved.addresses, ShownAddresses(nic)) = <<>>
                        ELSE now.manual = s.manual /\ now.gateways = s.gateways
  /\ now.dnsFromDhcp = s.dnsFromDhcp /\ (s.dnsFromDhcp \/ now.dns = s.dns)
  /\ now.winsFromDhcp = s.winsFromDhcp /\ (s.winsFromDhcp \/ now.wins = s.wins)

Verified(now, s) ==
  /\ now.dhcp = s.dhcp
  /\ IF s.manual = <<>> THEN Among(saved.addresses, ShownAddresses(nic)) = <<>>
                        ELSE now.manual = s.manual /\ now.gateways = s.gateways
  /\ now.dnsFromDhcp = s.dnsFromDhcp /\ (s.dnsFromDhcp \/ now.dns = s.dns)
  /\ now.winsFromDhcp = s.winsFromDhcp /\ (s.winsFromDhcp \/ now.wins = s.wins)

Verify ==
  /\ at = "verify" /\ calls = <<>>
  /\ at' = "done"
  /\ outcome' = IF Verified(Capture(nic), saved.shown) THEN "rolled_back" ELSE "failed"
  /\ UNCHANGED <<nic, orig, want, saved, calls, changed, trouble>>

-----------------------------------------------------------------------------
(* Calls and queries. *)

Netsh ==
  /\ calls # <<>>
  /\ nic' \in Effects(nic, Head(calls))
  /\ calls' = Tail(calls)
  /\ UNCHANGED <<orig, want, saved, at, changed, trouble, outcome>>

\* A call, or the inventory a part begins with: the first error ends the part.
Fails == \/ calls # <<>>
         \/ at \in {"restore", "tidy", "verify"}
         \/ at = "cleanup" /\ saved.shown.manual # <<>>

\* An error in the step starts the rollback, an error in the restore is a rollback error.
Fail ==
  /\ Fails
  /\ calls' = <<>>
  /\ IF at \in {"cleanup", "end"}
       THEN at' = "restore" /\ UNCHANGED <<trouble, outcome>>
       ELSE at' = "done" /\ outcome' = "failed" /\ trouble' = TRUE
  /\ UNCHANGED <<nic, orig, want, saved, changed>>

\* The lease arrives.
Bind ==
  /\ nic.lease = "due"
  /\ nic' = [nic EXCEPT !.lease = "bound", !.address = TRUE, !.offered = Lease.gateways]
  /\ UNCHANGED <<orig, want, saved, calls, at, changed, trouble, outcome>>

StepNext == Begin \/ Cleanup \/ Done \/ Restore \/ Tidy \/ Verify \/ Netsh \/ Fail \/ Bind

StepSpec == StepInit /\ [][StepNext]_stepVars

-----------------------------------------------------------------------------
(* Properties.                                                             *)

\* The configuration is the one of before.  Two things are not put back: the IPv6 servers when
\* the IPv4 servers came from DHCP, and gateways set by hand beside no address set by hand.
AsFound ==
  /\ nic.dhcp = orig.dhcp /\ nic.manual = orig.manual
  /\ nic.dns = orig.dns /\ nic.wins = orig.wins
  /\ orig.dns # <<>> => nic.dns6 = orig.dns6
  /\ orig.manual # <<>> => nic.gateways = orig.gateways

Promise == INSTANCE AtomicApply WITH restored <- AsFound, installed <- FALSE

\* The step and its entry on the stack keep the promise of an apply (NetworkRestore of apply.rs):
\* after rolled_back the adapter is as it was found, whichever call failed and whenever the lease
\* arrived.
AdapterAsFound == Promise!Spec

\* An adapter with DHCP and addresses by hand, or with neither, cannot be put back with netsh.
Mixed == orig.dhcp = (orig.manual # <<>>)

\* The lease hands out an address the step configured.
LeaseGivesWanted == want.mode = "static" /\ Lease.address \in ToSet(saved.addresses)

\* The addresses set by hand survived the change to DHCP: restore() has nothing to put back and
\* leaves DHCP on.
ModeOverlooked == ~orig.dhcp /\ nic.dhcp /\ nic.manual = orig.manual

\* A rollback without an error of a call succeeds: verify_restored accepts what restore()
\* leaves, except in the three cases above.
RollbackSucceeds ==
  outcome = "failed" /\ changed => trouble \/ Mixed \/ LeaseGivesWanted \/ ModeOverlooked

\* What a succeeded apply leaves is what the document asks for; only an adapter with DHCP and
\* exactly these addresses by hand is left on DHCP, since static_network_matches ignores the mode.
AppliedIsAsAsked ==
  outcome = "succeeded" =>
    IF want.mode = "static"
      THEN \/ /\ ~nic.dhcp /\ nic.manual = want.addresses /\ ShownGateways(nic) = want.gateways
              /\ nic.dns = OfIpv4(want.dns) /\ nic.dns6 = OfIpv6(want.dns)
              /\ ShownWins(nic) = want.wins
           \/ Mixed /\ ~changed
      ELSE /\ nic.dhcp /\ nic.manual = <<>>
           /\ want.dns => nic.dns = <<>> /\ nic.wins = <<>>
=============================================================================
