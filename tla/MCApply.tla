------------------------------- MODULE MCApply -------------------------------
(***************************************************************************)
(* Instances of ApplyTransaction: families of configuration documents, and *)
(* for each document every machine that differs in the cells it touches.   *)
(***************************************************************************)
EXTENDS ApplyTransaction, ApplyProgram, FiniteSetsExt

CONSTANTS a1, a2, x1

MCTargets == {HostName, a1, a2, x1}
MCDrives  == {x1}

\* The values a cell may have before the apply.  A share is connected without a drive
\* letter or it is not.
Initial(c) ==
  LET p == c.part IN
  CASE p = "admin"             -> {"on", "off"}
    [] p = "service"           -> {"running", "stopped", "paused"}
    [] p = "link"              -> {"old", "down"}
    [] p = "connection"        -> {"absent", "new"} \cup (IF c.on \in Drives THEN {"old"} ELSE {})
    [] p = "address"           -> {"old", "new", "mixed"}
    [] p = "dns"               -> {"new", "mixed"}
    [] p = "account"           -> {"absent", "old"}
    [] p \in {"share", "acl"}  -> {"absent", "old"}
    [] p \in {"mac", "profile"} -> {"old"}
    [] OTHER                   -> {"old", "new"}

Idle == [c \in Cell |-> CASE c.part = "admin" -> "on" [] OTHER -> "old"]

\* A share exists with its ACL or not at all.
Sensible(m) == \A c \in Cell : c.part = "share" =>
                 (m[c] = "absent") = (m[[c EXCEPT !.part = "acl"]] = "absent")

Machines(cfg) ==
  {m \in FoldSet(LAMBDA c, ms : {[m EXCEPT ![c] = v] : m \in ms, v \in Initial(c)},
                 {Idle}, Footprint(cfg)) : Sensible(m)}

ScenariosOf(docs) ==
  UNION {LET cfg == Program(doc) IN [config : {cfg}, os : Machines(cfg)] : doc \in docs}

Empty == [identity |-> {}, adapters |-> <<>>, wifi |-> <<>>, actions |-> <<>>,
          services |-> <<>>, accounts |-> <<>>, shares |-> <<>>, mappings |-> <<>>,
          firewall |-> FALSE, drivers |-> <<>>, hooks |-> {}]

Install == [op |-> "install", on |-> x1]
RestartOf(a) == [op |-> "restart_adapter", on |-> a]

\* Adapters, with every order of the drivers and with hooks.
AdapterDocs ==
  {[Empty EXCEPT !.adapters = <<[on |-> a1, enabled |-> e, mac |-> m, ipv4 |-> i]>>,
                 !.drivers = d, !.hooks = Stages] :
     e \in {"on", "off", "keep"}, m \in BOOLEAN, i \in BOOLEAN,
     d \in {<<>>, <<RestartOf(a2)>>, <<RestartOf(a1), Install>>}}

\* Two adapters after one inventory.
TwoAdapterDocs ==
  {[Empty EXCEPT !.adapters = <<[on |-> a1, enabled |-> e, mac |-> TRUE, ipv4 |-> FALSE],
                                [on |-> a2, enabled |-> f, mac |-> TRUE, ipv4 |-> FALSE]>>,
                 !.drivers = <<RestartOf(a1)>>] :
     e \in {"on", "off", "keep"}, f \in {"on", "off"}}

\* Several Wi-Fi actions on one interface, and services.
Act(k, i) == [action |-> k, on |-> i]
LinkDocs ==
  {[Empty EXCEPT !.wifi = <<x1>>, !.actions = acts, !.services = svc,
                 !.hooks = {"after_apply", "after_rollback"}] :
     acts \in {<<Act("scan", a1), Act("connect", a1)>>,
               <<Act("disconnect", a1), Act("connect", a1)>>,
               <<Act("connect", a1), Act("disconnect", a1), Act("connect", a2)>>},
     svc \in {<<>>} \cup {<<[on |-> a1, to |-> s], [on |-> a2, to |-> "running"]>> :
                             s \in {"running", "stopped"}}}

\* The SMB sections, with connections of both kinds.
SmbDocs ==
  {[Empty EXCEPT !.identity = {"computer_name"}, !.accounts = <<[on |-> x1, kind |-> k]>>,
                 !.shares = <<x1>>, !.mappings = <<a2, x1>>, !.hooks = {"after_apply"}] :
     k \in {"local", "credential"}}

\* The other names, a connection and the firewall.
FirewallDocs ==
  {[Empty EXCEPT !.identity = {"workgroup", "dns_suffix"}, !.mappings = <<c>>, !.firewall = TRUE] :
     c \in {a2, x1}}

MCScenarios ==
  ScenariosOf(AdapterDocs \cup TwoAdapterDocs \cup LinkDocs \cup SmbDocs \cup FirewallDocs)

\* A driver operation alone.
RestartDocs ==
  {[Empty EXCEPT !.identity = {"computer_name"}, !.drivers = <<RestartOf(a2)>>]}
RestartScenarios == ScenariosOf(RestartDocs)
=============================================================================
