------------------------ MODULE MCRendezvousRouting ------------------------
(* Instances of RendezvousRouting for TLC.                                 *)
EXTENDS RendezvousRouting, TLC

Symmetry == UNION {Permutations(S) : S \in {Conns, Addrs, Ids, Tokens}}
=============================================================================
