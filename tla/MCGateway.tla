------------------------------ MODULE MCGateway ------------------------------
(***************************************************************************)
(* Instances of Gateway: short sessions.                                   *)
(***************************************************************************)
EXTENDS Gateway

Of(kind, id) == [kind |-> kind, id |-> id]
Lines == {Of(k, i) : k \in Kinds \ {"id"}, i \in BOOLEAN} \cup {Of("id", TRUE)}

\* Any two lines, a wait between them.
Sessions == {<<a, Of("wait", TRUE), b>> : a \in Lines, b \in Lines} \cup {<<a, b>> : a, b \in Lines}
=============================================================================
