--------------------------- MODULE MCPeerRegistry ---------------------------
(* Small instances of PeerRegistry for TLC.                                *)
EXTENDS PeerRegistry, TLC

\* Every one of these sets is only compared for equality.
Symmetry ==
  UNION {Permutations(S) : S \in {Handlers, Objs, Ids, Uuids, Pks, Ips \ Loopback}}
=============================================================================
