---------------------------- MODULE MCPreflight -----------------------------
(***************************************************************************)
(* Instances of the two parts that stand between a document and its apply: *)
(* Protection, over two keys and two MAC addresses, and Documents, for     *)
(* every document over a few entries per section.  A behaviour belongs to  *)
(* one of them, and the other one rests.                                   *)
(***************************************************************************)
EXTENDS Protection, Documents

CONSTANTS Parts, k1, k2, m1, m2, n1, n2, i1

VARIABLE part

-----------------------------------------------------------------------------
(* Protection.                                                             *)

MCKeys == {k1, k2}
MCMacs == {m1, m2}

Sel(k, m) == [key |-> k, mac |-> m]
First  == {Sel(k2, Unset), Sel(Unset, m2)}
Second == {Sel(k2, Unset), Sel(Unset, m1), Sel(k2, m2), Sel(k1, m2)}

AdapterEntries(sels) == [op : {"adapter"}, sel : sels, mac : {m1, Unset}, enabled : {"off", Unset}]
WifiEntries    == [op : {"profile", "link", "scan"}, sel : Second \cup {Nothing}, mac : {Unset},
                   enabled : {Unset}]
RestartEntries == [op : {"restart"}, sel : Second, mac : {Unset}, enabled : {Unset}]

\* One adapter is written, and another, a Wi-Fi interface or a restart follows.
MCDocuments ==
  [protect : {{Sel(k1, Unset)}},
   entries : {<<a, b>> : a \in AdapterEntries(First),
                         b \in AdapterEntries(Second) \cup WifiEntries \cup RestartEntries}]

MCMachines == [Adapters -> [key : MCKeys, mac : MCMacs, wlan : {"none", "on"}]]

\* Two MAC addresses exchanged between two adapters, before one is restarted.
SwapDocuments ==
  {[protect |-> {},
    entries |-> <<[op |-> "adapter", sel |-> Sel(k1, Unset), mac |-> m2, enabled |-> Unset],
                  [op |-> "adapter", sel |-> Sel(k2, Unset), mac |-> m1, enabled |-> Unset],
                  [op |-> "restart", sel |-> Sel(Unset, m1), mac |-> Unset, enabled |-> Unset]>>]}

-----------------------------------------------------------------------------
(* Documents.                                                              *)

N(x, spelling) == [is |-> x, as |-> spelling]
Spelt(names) == {N(x, s) : x \in names, s \in {"lower", "upper"}}
UpTo2(S) == {<<>>} \cup {<<x>> : x \in S} \cup {<<x, y>> : x \in S, y \in S}

Empty == [identity |-> {}, adapters |-> <<>>, wifi |-> <<>>, actions |-> <<>>, services |-> <<>>,
          accounts |-> <<>>, shares |-> <<>>, mappings |-> <<>>, firewall |-> FALSE,
          drivers |-> <<>>, hooks |-> <<>>]

AdapterDocs ==
  {[Empty EXCEPT !.identity = i, !.adapters = a, !.firewall = f, !.hooks = h] :
     i \in SUBSET {"computer_name", "workgroup", "dns_suffix"},
     a \in UpTo2([on : {i1}, enabled : {"on", "off", "keep"}, mac : BOOLEAN, ipv4 : {TRUE}]),
     f \in BOOLEAN, h \in {<<>>, <<"after_apply", "before_apply">>}}

Profiles == {[name |-> N(x, "lower"), auth |-> "wpa2", psk |-> p] : x \in {n1, n2}, p \in {"env", "raw"}}
              \cup {[name |-> N(n1, "upper"), auth |-> a, psk |-> "none"] : a \in {"open", "wpa3"}}
WifiActions == {[action |-> "scan", on |-> i1, profile |-> None],
                [action |-> "disconnect", on |-> i1, profile |-> None]}
                 \cup {[action |-> "connect", on |-> i1, profile |-> n] : n \in Spelt({n1, n2})}
WifiDocs == {[Empty EXCEPT !.wifi = w, !.actions = a] : w \in UpTo2(Profiles), a \in UpTo2(WifiActions)}

Accounts == [id : Spelt({n1}) \cup {N(n2, "lower")}, kind : {"local", "credential"}]
ShareEntries == [name : Spelt({n1}), accounts : {<<>>} \cup {<<N(n1, "lower"), N(x, "upper")>> : x \in {n1, n2}}]
Mappings == [local : {None, N(n1, "lower"), N(n1, "upper")}, account : {None, N(n1, "upper")},
             inline : {{}, {"password"}}]
Services == [name : {N(Server, "lower"), N(Server, "upper"), N(Workstation, "upper")},
             to : {"running", "stopped"}]
SmbDocs ==
  {[Empty EXCEPT !.accounts = a, !.shares = s] : a \in UpTo2(Accounts), s \in UpTo2(ShareEntries)}
    \cup {[Empty EXCEPT !.accounts = <<[id |-> N(n1, "lower"), kind |-> "credential"]>>, !.mappings = m] :
            m \in UpTo2(Mappings)}
    \cup {[Empty EXCEPT !.services = v, !.shares = s, !.mappings = m] :
            v \in UpTo2(Services), s \in {<<>>, <<[name |-> N(n1, "lower"), accounts |-> <<>>]>>},
            m \in {<<>>, <<[local |-> None, account |-> None, inline |-> {}]>>}}

Drivers == {[op |-> "restart_adapter", on |-> i1, hardware |-> FALSE, force |-> FALSE, restart |-> "never"]}
             \cup [op : {"install"}, on : {n1}, hardware : BOOLEAN, force : BOOLEAN,
                   restart : {"never", "if_required", "always"}]
DriverDocs == {[Empty EXCEPT !.drivers = d] : d \in UpTo2(Drivers)}

MCIncoming == AdapterDocs \cup WifiDocs \cup SmbDocs \cup DriverDocs

\* All tools, none, and all but one.
Tools == {"netsh", "pnputil", "newdev", "wlan", "accounts", "shares", "mappings"}
MCImages == {Tools, {}} \cup {Tools \ {t} : t \in Tools}
MCNames == {n1, n2, i1}

-----------------------------------------------------------------------------
TargetsRest ==
  /\ doc = [protect |-> {}, entries |-> <<>>]
  /\ inv = [a \in Adapters |-> [key |-> k1, mac |-> m1, wlan |-> "none"]]
  /\ Init!3 /\ Init!4 /\ Init!5 /\ Init!6 /\ Init!7 /\ Init!8 /\ Init!9 /\ Init!10

PapersRest == document = Empty /\ tools = {} /\ DocInit!3 /\ DocInit!4

MCInit ==
  /\ part \in Parts
  /\ IF part = "targets" THEN Init /\ PapersRest ELSE DocInit /\ TargetsRest

InTargets == part = "targets" /\ Next /\ UNCHANGED <<part, docVars>>
InPapers  == part = "papers" /\ DocNext /\ UNCHANGED <<part, vars>>
MCNext == InTargets \/ InPapers

MCSpec == MCInit /\ [][MCNext]_<<part, vars, docVars>>
=============================================================================
