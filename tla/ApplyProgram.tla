---------------------------- MODULE ApplyProgram ----------------------------
(***************************************************************************)
(* The order of a transaction: from the sections of a configuration to the *)
(* steps apply_reversible and apply_wifi run and the drivers that follow.  *)
(*                                                                         *)
(* A configuration document is a record                                    *)
(*   identity : the subset of the three names it sets                      *)
(*   adapters : sequence of [on, enabled, mac, ipv4], enabled being "on",  *)
(*              "off" or "keep"                                            *)
(*   wifi     : sequence of profile names                                  *)
(*   actions  : sequence of [action, on], a Wi-Fi action and its interface *)
(*   services : sequence of [on, to]                                       *)
(*   accounts : sequence of [on, kind]                                     *)
(*   shares, mappings : sequences of names                                 *)
(*   firewall : whether the section is present                             *)
(*   drivers, hooks   : as in ApplyTransaction                             *)
(***************************************************************************)
EXTENDS Sequences, SequencesExt

HostName == "host"

Ask(op, on, to) == [op |-> op, on |-> on, to |-> to]

Each(list, Make(_)) == [k \in DOMAIN list |-> Make(list[k])]

\* The steps of each entry in turn, none or several for one entry.
ForEach(list, Steps(_)) == FlattenSeq(Each(list, Steps))

When(condition, step) == IF condition THEN <<step>> ELSE <<>>

IdentitySteps(doc) ==
  LET set(name) == When(name \in doc.identity, Ask(name, HostName, "new"))
  IN set("computer_name") \o set("workgroup") \o set("dns_suffix")

\* Enable first, then MAC and IPv4, and disable last.
AdapterSteps(a) ==
  When(a.enabled = "on", Ask("admin", a.on, "on"))
    \o When(a.mac, Ask("mac", a.on, "new"))
    \o When(a.ipv4, Ask("ipv4", a.on, "new"))
    \o When(a.enabled = "off", Ask("admin", a.on, "off"))

WifiStep(a) ==
  CASE a.action = "scan"       -> Ask("scan", a.on, "new")
    [] a.action = "connect"    -> Ask("link", a.on, "new")
    [] a.action = "disconnect" -> Ask("link", a.on, "down")

WifiSteps(doc) ==
  Each(doc.wifi, LAMBDA p : Ask("profile", p, "new")) \o Each(doc.actions, WifiStep)

\* Only local accounts are created; credentials are left to the mappings.
SmbSteps(doc) ==
  ForEach(doc.accounts, LAMBDA a : When(a.kind = "local", Ask("account", a.on, "new")))
    \o Each(doc.shares, LAMBDA s : Ask("share", s, "new"))
    \o Each(doc.mappings, LAMBDA d : Ask("mapping", d, "new"))

Program(doc) ==
  [ steps   |-> IdentitySteps(doc)
                  \o ForEach(doc.adapters, AdapterSteps)
                  \o WifiSteps(doc)
                  \o Each(doc.services, LAMBDA s : Ask("service", s.on, s.to))
                  \o SmbSteps(doc)
                  \o When(doc.firewall, Ask("firewall", HostName, "new")),
    drivers |-> doc.drivers,
    hooks   |-> doc.hooks ]
=============================================================================
