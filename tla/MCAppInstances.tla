--------------------------- MODULE MCAppInstances ---------------------------
(***************************************************************************)
(* Small instances of AppInstances for TLC.                                *)
(***************************************************************************)
EXTENDS AppInstances, TLC

CONSTANTS h1, h2, i1, i2, i3

\* every instance is for the same host
OneHost == [i \in Id |-> h1]

ProxySymmetry == Permutations(Proxy)
=============================================================================
