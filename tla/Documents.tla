------------------------------ MODULE Documents ------------------------------
(***************************************************************************)
(* A configuration document on its way to a job: validate() in config.rs,  *)
(* build_plan in plan.rs, require_plan_capabilities in platform/mod.rs, and*)
(* what apply() then runs (ApplyProgram).                                  *)
(*                                                                         *)
(* A name is a record [is, as]: the name without regard to case, and how it*)
(* is spelled.  The syntax of names, paths, addresses and secrets is left  *)
(* out, and so are selectors (see Protection).  Operators with a suffix    *)
(* are plausible bugs.                                                     *)
(***************************************************************************)
EXTENDS Naturals, Sequences, FiniteSets, SequencesExt, ApplyProgram

CONSTANTS
  Incoming,             \* the documents an instance looks at
  Images,               \* the sets of tools a machine may have
  Server, Workstation,  \* LanmanServer and LanmanWorkstation
  Names,                \* names of other things, and interfaces
  None                  \* an optional name that is absent

Name == [is : Names \cup {Server, Workstation}, as : {"lower", "upper"}]
NetplanConfig ==
  [ identity : SUBSET {"computer_name", "workgroup", "dns_suffix"},
    adapters : Seq([on : Names, enabled : {"on", "off", "keep"}, mac : BOOLEAN, ipv4 : BOOLEAN]),
    wifi     : Seq([name : Name, auth : {"open", "wpa2", "wpa3"}, psk : {"none", "env", "raw"}]),
    actions  : Seq([action : {"scan", "connect", "disconnect"}, on : Names,
                    profile : Name \cup {None}]),
    services : Seq([name : Name, to : {"running", "stopped"}]),
    accounts : Seq([id : Name, kind : {"local", "credential"}]),
    shares   : Seq([name : Name, accounts : Seq(Name)]),
    mappings : Seq([local : Name \cup {None}, account : Name \cup {None},
                    inline : SUBSET {"username", "password"}]),
    firewall : BOOLEAN,
    drivers  : Seq([op : {"install", "restart_adapter"}, on : Names, hardware : BOOLEAN,
                    force : BOOLEAN, restart : {"never", "if_required", "always"}]),
    hooks    : Seq({"before_apply", "after_apply", "after_rollback"}) ]

VARIABLES
  document, \* the document
  tools,    \* the programs, libraries and services of the image
  stage,    \* how far it has come
  plan      \* what the planner answered

docVars == <<document, tools, stage, plan>>

Same(a, b) == a.is = b.is
Repeats(list, Key(_)) == \E i, k \in DOMAIN list : i < k /\ Same(Key(list[i]), Key(list[k]))

-----------------------------------------------------------------------------
(* validate(), the rules that relate parts of the document.                *)

WifiValid ==
  /\ \A k \in DOMAIN document.wifi : LET w == document.wifi[k] IN
       /\ w.auth = "open" <=> w.psk = "none"
       /\ w.psk = "raw" => w.auth = "wpa2"
  /\ ~Repeats(document.wifi, LAMBDA w : w.name)

ActionsValid ==
  \A k \in DOMAIN document.actions :
    document.actions[k].action = "connect" =>
      \E w \in DOMAIN document.wifi : Same(document.wifi[w].name, document.actions[k].profile)

\* find_smb_account: the first account with that identifier.
Account(id) ==
  LET first == CHOOSE k \in DOMAIN document.accounts : Same(document.accounts[k].id, id)
  IN  document.accounts[first]
Declared(id) == \E k \in DOMAIN document.accounts : Same(document.accounts[k].id, id)

AccountsValid == ~Repeats(document.accounts, LAMBDA a : a.id)

Grants_AnyKind(id) == Declared(id)
Grants(id) == Declared(id) /\ Account(id).kind = "local"

SharesValid ==
  /\ ~Repeats(document.shares, LAMBDA s : s.name)
  /\ \A k \in DOMAIN document.shares : LET granted == document.shares[k].accounts IN
       /\ \A a \in DOMAIN granted : Grants(granted[a])
       /\ ~Repeats(granted, LAMBDA a : a)

\* inline is the user name and password given with the mapping itself.
MappingsValid ==
  /\ \A k \in DOMAIN document.mappings : LET m == document.mappings[k] IN
       /\ m.account # None => Declared(m.account) /\ m.inline = {}
       /\ "password" \in m.inline => "username" \in m.inline
  /\ ~\E i, k \in DOMAIN document.mappings :
       LET a == document.mappings[i].local  b == document.mappings[k].local
       IN  i < k /\ a # None /\ b # None /\ Same(a, b)

Stops(service) == \E k \in DOMAIN document.services :
                     document.services[k].name.is = service /\ document.services[k].to = "stopped"

ServicesValid ==
  /\ ~Repeats(document.services, LAMBDA s : s.name)
  /\ document.shares # <<>> => ~Stops(Server)
  /\ document.mappings # <<>> => ~Stops(Workstation)

DriversValid ==
  \A k \in DOMAIN document.drivers : LET d == document.drivers[k] IN
    (d.op = "install" /\ d.restart # "never") => d.hardware

Valid == /\ WifiValid /\ ActionsValid /\ AccountsValid /\ SharesValid /\ MappingsValid
         /\ ServicesValid /\ DriversValid

-----------------------------------------------------------------------------
(* build_plan: operations, each with the capability it needs.              *)

Op(name, capability) == [op |-> name, capability |-> capability]
PlanHooks(s) == ForEach(document.hooks, LAMBDA h : When(h = s, Op("hook", "hook.execute")))

PlanAdapter_StateFirst(a) ==
  When(a.enabled # "keep", Op("admin", "adapter.state.apply"))
    \o When(a.mac, Op("mac", "adapter.mac.apply"))
    \o When(a.ipv4, Op("ipv4", "adapter.ipv4.apply"))
PlanAdapter(a) ==
  When(a.enabled = "on", Op("admin", "adapter.state.apply"))
    \o When(a.mac, Op("mac", "adapter.mac.apply"))
    \o When(a.ipv4, Op("ipv4", "adapter.ipv4.apply"))
    \o When(a.enabled = "off", Op("admin", "adapter.state.apply"))

PlanAction(a) == CASE a.action = "scan"    -> Op("scan", "wifi.scan")
                   [] a.action = "connect" -> Op("link", "wifi.connect")
                   [] OTHER                -> Op("link", "wifi.disconnect")

PlanIdentity ==
  LET set(name, capability) == When(name \in document.identity, Op(name, capability))
  IN set("computer_name", "identity.computer_name.apply")
       \o set("workgroup", "identity.workgroup.apply")
       \o set("dns_suffix", "identity.dns_suffix.apply")

PlanSmb ==
  ForEach(document.accounts, LAMBDA a : When(a.kind = "local", Op("account", "smb.account.apply")))
    \o Each(document.shares, LAMBDA s : Op("share", "smb.share.apply"))
    \o Each(document.mappings, LAMBDA m : Op("mapping", "smb.mapping.apply"))

PlanDriver_NeverForced(d) ==
  Op(d.op, IF d.op = "restart_adapter" THEN "adapter.restart" ELSE "driver.install")
PlanDriver(d) ==
  Op(d.op, IF d.op = "restart_adapter" THEN "adapter.restart"
           ELSE IF d.force THEN "driver.force_install" ELSE "driver.install")

BuildPlan ==
  PlanHooks("before_apply")
    \o PlanIdentity
    \o ForEach(document.adapters, PlanAdapter)
    \o Each(document.wifi, LAMBDA w : Op("profile", "wifi.profile.apply"))
    \o Each(document.actions, PlanAction)
    \o Each(document.services, LAMBDA s : Op("service", "service.apply"))
    \o PlanSmb
    \o When(document.firewall, Op("firewall", "firewall.apply"))
    \o Each(document.drivers, PlanDriver)
    \o PlanHooks("after_apply") \o PlanHooks("after_rollback")

-----------------------------------------------------------------------------
(* Capabilities of the Windows backend, and require_plan_capabilities.     *)

ToolOf == [ netsh    |-> {"adapter.ipv4.apply", "adapter.state.apply", "adapter.mac.apply",
                          "adapter.restart", "firewall.apply"},
            pnputil  |-> {"driver.install"},
            newdev   |-> {"driver.force_install"},
            wlan     |-> {"wifi.profile.apply", "wifi.scan", "wifi.connect", "wifi.disconnect"},
            accounts |-> {"smb.account.apply"},
            shares   |-> {"smb.share.apply"},
            mappings |-> {"smb.mapping.apply"} ]
AlwaysAvailable == {"identity.computer_name.apply", "identity.workgroup.apply",
                    "identity.dns_suffix.apply", "service.apply", "hook.execute"}
Capabilities == AlwaysAvailable \cup UNION {ToolOf[t] : t \in DOMAIN ToolOf}

Available == AlwaysAvailable \cup UNION {ToolOf[t] : t \in tools}

\* What an instance has to respect.
ASSUME IncomingAssumption ==
  /\ Incoming \subseteq NetplanConfig
  /\ \A t \in Images : t \subseteq DOMAIN ToolOf

Permitted(o) == o.capability \in Available

Parse ==
  /\ stage = "received"
  /\ stage' = IF Valid THEN "valid" ELSE "invalid"
  /\ UNCHANGED <<document, tools, plan>>

Plan ==
  /\ stage = "valid"
  /\ plan' = BuildPlan
  /\ stage' = "planned"
  /\ UNCHANGED <<document, tools>>

RequireCapabilities ==
  /\ stage = "planned"
  /\ stage' = IF \A k \in DOMAIN plan : Permitted(plan[k]) THEN "permitted" ELSE "unsupported"
  /\ UNCHANGED <<document, tools, plan>>

DocInit ==
  /\ document \in Incoming
  /\ tools \in Images
  /\ stage = "received"
  /\ plan = <<>>

DocNext == Parse \/ Plan \/ RequireCapabilities

DocSpec == DocInit /\ [][DocNext]_docVars

-----------------------------------------------------------------------------
(* What runs.                                                              *)

Sections ==
  [ identity |-> document.identity, adapters |-> document.adapters,
    wifi     |-> Each(document.wifi, LAMBDA w : w.name.is),
    actions  |-> document.actions,
    services |-> Each(document.services, LAMBDA s : [on |-> s.name.is, to |-> s.to]),
    accounts |-> Each(document.accounts, LAMBDA a : [on |-> a.id.is, kind |-> a.kind]),
    shares   |-> Each(document.shares, LAMBDA s : s.name.is),
    mappings |-> Each(document.mappings, LAMBDA m : IF m.local = None THEN None ELSE m.local.is),
    firewall |-> document.firewall, drivers |-> document.drivers, hooks |-> ToSet(document.hooks) ]

Runs == Program(Sections)

\* The tools the native calls of a step use; a device is restarted through pnputil,
\* whatever installed its driver.
Needs(step) ==
  CASE step.op \in {"admin", "mac", "ipv4", "firewall", "restart_adapter"} -> {"netsh"}
    [] step.op \in {"profile", "link", "scan"} -> {"wlan"}
    [] step.op = "account" -> {"accounts"}
    [] step.op = "share"   -> {"shares"}
    [] step.op = "mapping" -> {"mappings"}
    [] step.op = "install" -> {IF step.force THEN "newdev" ELSE "pnputil"}
                                \cup (IF step.restart = "never" THEN {} ELSE {"pnputil"})
    [] OTHER -> {}

-----------------------------------------------------------------------------
(* Properties.                                                             *)

OpsOf(list) == [k \in DOMAIN list |-> list[k].op]

\* The plan a user is shown (plan.rs) is what an apply runs (apply.rs), in that order, between
\* the hooks: planner and transaction walk through the document separately. It asks for
\* capabilities the backend knows.
HookOps(s) ==
  [k \in 1..Cardinality({h \in DOMAIN document.hooks : document.hooks[h] = s}) |-> "hook"]
PlanIsWhatRuns ==
  stage = "planned" =>
    /\ OpsOf(plan) = HookOps("before_apply") \o OpsOf(Runs.steps \o Runs.drivers)
                       \o HookOps("after_apply") \o HookOps("after_rollback")
    /\ \A k \in DOMAIN plan : plan[k].capability \in Capabilities

\* In a document that validate() of config.rs accepted no two steps own the same profile,
\* service, account, share or drive, however names are spelled; accounts come before the shares
\* that grant them, profiles before the connections that use them; and the services that shares
\* and mappings need are not stopped by an earlier step of the same apply.
Owner(step) == step.op \in {"profile", "service", "account", "share"}
                 \/ (step.op = "mapping" /\ step.on # None)
AcceptedIsCoherent ==
  stage = "valid" => LET s == Runs.steps IN
    /\ \A i, k \in DOMAIN s : (Owner(s[i]) /\ s[i].op = s[k].op /\ s[i].on = s[k].on) => i = k
    /\ \A h \in DOMAIN document.shares : LET share == document.shares[h] IN
         \A a \in DOMAIN share.accounts : \E i, k \in DOMAIN s :
           /\ i < k
           /\ s[i].op = "account" /\ s[i].on = share.accounts[a].is
           /\ s[k].op = "share" /\ s[k].on = share.name.is
    /\ \A c \in DOMAIN document.actions : document.actions[c].action = "connect" =>
         \E i \in DOMAIN s : s[i].op = "profile" /\ s[i].on = document.actions[c].profile.is
    /\ \A i, k \in DOMAIN s : (i < k /\ s[i].op = "service" /\ s[i].to = "stopped") =>
         /\ s[k].op = "share" => s[i].on # Server
         /\ s[k].op = "mapping" => s[i].on # Workstation

\* A job that starts (require_plan_capabilities of platform/mod.rs) finds the tools its steps
\* use, with one exception: the restart after a forced installation.
Unchecked(step) == IF step.op = "install" /\ step.force THEN {"pnputil"} ELSE {}
PermittedStepsHaveTools ==
  stage = "permitted" =>
    LET all == Runs.steps \o Runs.drivers
    IN \A k \in DOMAIN all : Needs(all[k]) \subseteq tools \cup Unchecked(all[k])
=============================================================================
