---------------------------- MODULE MCLocalHost ----------------------------
(* One client or two, and one other machine. *)
EXTENDS LocalHost, TLC

CONSTANTS k1, k2, here, there

OneClient  == {k1}
TwoClients == {k1, k2}
Others     == {there}
=============================================================================
