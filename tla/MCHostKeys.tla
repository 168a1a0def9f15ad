----------------------------- MODULE MCHostKeys -----------------------------
(* Instances of HostKeys for TLC: two rival keys and one of an algorithm of *)
(* its own.                                                                 *)
EXTENDS HostKeys, TLC

CONSTANTS c1, c2, c3, ed1, ed2, rsa

MCClients == {c1, c2, c3}
MCKeys == {ed1, ed2, rsa}
MCAlgorithm == (ed1 :> "ed25519") @@ (ed2 :> "ed25519") @@ (rsa :> "rsa")

ClientSymmetry == Permutations(MCClients)
=============================================================================
