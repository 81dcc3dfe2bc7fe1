---------------------------- MODULE RelayService ----------------------------
(***************************************************************************)
(* What the relay server promises: the first connection that names a uuid  *)
(* waits under it, the next one that names it is joined to it, nobody else *)
(* ever is, and a connection belongs to at most one of these.              *)
(***************************************************************************)
EXTENDS Naturals, FiniteSets

CONSTANTS Conns, Uuids, None

VARIABLES
  offers,    \* the connection that waits under each uuid
  sessions   \* the pairs <<second, first>> being relayed

svars == <<offers, sessions>>

Engaged == {offers[u] : u \in Uuids} \cup UNION {{s[1], s[2]} : s \in sessions}

Init ==
  /\ offers = [u \in Uuids |-> None]
  /\ sessions = {}

Offer(c, u) ==
  /\ offers[u] = None
  /\ c \notin Engaged
  /\ offers' = [offers EXCEPT ![u] = c]
  /\ UNCHANGED sessions

\* The offer is taken by the connection that names its uuid.
Join(c, u) ==
  /\ offers[u] # None
  /\ c \notin Engaged
  /\ sessions' = sessions \cup {<<c, offers[u]>>}
  /\ offers' = [offers EXCEPT ![u] = None]

Expire(u) ==
  /\ offers[u] # None
  /\ offers' = [offers EXCEPT ![u] = None]
  /\ UNCHANGED sessions

End(s) ==
  /\ s \in sessions
  /\ sessions' = sessions \ {s}
  /\ UNCHANGED offers

Next ==
  \/ \E c \in Conns, u \in Uuids : Offer(c, u) \/ Join(c, u)
  \/ \E u \in Uuids : Expire(u)
  \/ \E s \in sessions : End(s)

Spec == Init /\ [][Next]_svars
=============================================================================
