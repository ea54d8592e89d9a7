------------------------------ MODULE MCNative ------------------------------
(***************************************************************************)
(* Instances of two parts of the Windows backend that work through calls   *)
(* of the system one by one, WifiScan and Ipv4Step.  They share nothing:   *)
(* a behaviour belongs to one of them, and the other one rests.            *)
(***************************************************************************)
EXTENDS WifiScan, Ipv4Step

CONSTANTS Parts, a1, a2, g1, g2, d4, d6, w4

VARIABLE part

\* The DHCP server hands out an address and a gateway that are also set by hand elsewhere.
MCLease == [address |-> a1, gateways |-> <<g1>>, dns |-> <<d4>>, wins |-> <<w4>>]

OnDhcp == [dhcp : {TRUE}, lease : {"due", "bound"}, manual : {<<>>, <<a2>>}, gateways : {<<>>, <<g2>>}]
ByHand == [dhcp : {FALSE}, lease : {"none"}, manual : {<<>>, <<a1>>, <<a2>>, <<a2, a1>>},
           gateways : {<<>>, <<g1>>, <<g2, g1>>}]
Servers == [dns : {<<>>, <<d4>>}, dns6 : {<<>>, <<d6>>}, wins : {<<>>, <<w4>>}]

MCAdapters ==
  {[dhcp |-> a.dhcp, lease |-> a.lease, manual |-> a.manual, gateways |-> a.gateways,
    address |-> a.lease = "bound", offered |-> IF a.lease = "bound" THEN <<g1>> ELSE <<>>,
    dns |-> s.dns, dns6 |-> s.dns6, wins |-> s.wins] : a \in OnDhcp \cup ByHand, s \in Servers}

MCWanted ==
  [mode : {"dhcp"}, dns : BOOLEAN]
    \cup [mode : {"static"}, addresses : {<<a1>>, <<a2>>, <<a1, a2>>},
          gateways : {<<>>, <<g1>>, <<g2, g1>>}, dns : {<<>>, <<d4>>, <<d6, d4>>}, wins : {<<>>, <<w4>>}]

ScanRests == radio = [i \in Interfaces |-> TRUE] /\ Init
StepRests == nic = (CHOOSE n \in Adapters : TRUE) /\ want = (CHOOSE c \in Wanted : TRUE) /\ StepInit

MCInit ==
  /\ part \in Parts
  /\ IF part = "scan" THEN Init /\ StepRests ELSE StepInit /\ ScanRests

InScan == part = "scan" /\ Next /\ UNCHANGED <<part, stepVars>>
InStep == part = "ipv4" /\ StepNext /\ UNCHANGED <<part, vars>>
MCNext == InScan \/ InStep

MCSpec == MCInit /\ [][MCNext]_<<part, vars, stepVars>> /\ Fairness
=============================================================================
