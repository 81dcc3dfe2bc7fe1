--------------------------- MODULE MCRelayPairing ---------------------------
(* Instances of RelayPairing for TLC.                                      *)
EXTENDS RelayPairing, TLC

Symmetry == UNION {Permutations(S) : S \in {Conns, Uuids, Hosts, Ports}}
=============================================================================
