------------------------- MODULE PeerRegistryClaims -------------------------
(***************************************************************************)
(* What is stored of an identity.  Without a management API the first uuid *)
(* of an id is final.  When no handler stalls, an answered registration is *)
(* stored, a stored key changes only at its address, and a cache with room *)
(* for every id says what the table says.                                  *)
(***************************************************************************)
EXTENDS PeerRegistryCache

\* What a step of a registration that holds its Peer leaves alone.
OthersKeep(h) ==
  /\ UNCHANGED <<map, hold>>
  /\ \A g \in Handlers : g # h => /\ pc'[g] = pc[g] /\ req'[g] = req[g]
                                  /\ roll'[g] = roll[g] /\ fill'[g] = fill[g]
  /\ \A o \in Objs : o # hold[h] => peer'[o] = peer[o]

LEMMA StageClaim ==
  ASSUME AllowUnmanaged, SafeState, ClaimInv, NEW h \in Handlers, StagePersist(h)
  PROVE  ClaimInv' /\ StableUuids
<1> DEFINE p == peer[hold[h]]
<1>1. /\ hold[h] \in Objs /\ map[req[h].id] = hold[h] /\ req[h] \in Request /\ req[h].id \in Ids
      /\ req[h].uuid \in Uuids /\ req[h].pk \in Pks /\ req[h].ip \in Ips
  BY HandlerFacts, Zenon DEF StagePersist, Holding, SafeState, ControlInv, Control
<1>2. p \in Peer
  BY <1>1, Zenon DEF SafeState, TypeOK
<1>3. /\ peer'[hold[h]].guid = p.guid /\ peer'[hold[h]].uuid = req[h].uuid
      /\ roll'[h].uuid = p.uuid
  <2>1. ~(p.regs > RegPkLimit)
    BY Zenon DEF StagePersist, TooFrequent, Me
  <2>2. Staged(p, req[h]).guid = p.guid /\ Staged(p, req[h]).uuid = req[h].uuid
    BY <1>1, <1>2, <2>1, StagedPeer, Zenon
  <2>3. peer'[hold[h]] = Staged(p, req[h]) /\ roll'[h] = RollbackOf(p)
    BY <1>1, Zenon DEF StagePersist, Me, SafeState, TypeOK
  <2> QED
    BY <1>2, <2>2, <2>3, SavedPeer, Zenon
<1>4. UNCHANGED <<db, req, fill>> /\ OthersKeep(h) /\ pc'[h] = "persist"
  BY <1>1, Zenon DEF StagePersist, OthersKeep, Goto, SafeState, TypeOK, Evictors
<1>5. p.guid => p.uuid = req[h].uuid
  <2> SUFFICES ASSUME p.guid PROVE p.uuid = req[h].uuid
    BY Zenon
  <2>1. db[req[h].id] # None /\ p.uuid = db[req[h].id].uuid
    BY <1>1, NoneAssumption, Zenon DEF ClaimInv, CachedClaim
  <2>2. p.uuid # None
    BY <1>1, <2>1, NoneAssumption DEF SafeState, TypeOK, Row, Opt
  <2> QED
    BY <2>2, Zenon DEF StagePersist, UuidMismatch, Me
<1>6. \A g \in Handlers : g # h /\ InDatabase(g) => hold[g] # hold[h] /\ hold[g] \in Objs
  BY HandlerFacts, Zenon DEF StagePersist, Busy, Me, SafeState, WriterInv
<1>7. ASSUME NEW i \in Ids, map'[i] # None, peer'[map'[i]].guid
      PROVE  db'[i] # None /\ peer'[map'[i]].uuid = db'[i].uuid
  BY <1>3, <1>4, <1>5, <1>7 DEF ClaimInv, CachedClaim, OthersKeep, SafeState, TypeOK, Opt
<1>8. ASSUME NEW g \in Handlers, InDatabase(g)'
      PROVE  /\ peer'[hold'[g]].uuid = req'[g].uuid
             /\ peer'[hold'[g]].guid => roll'[g].uuid = req'[g].uuid
  <2>1. CASE g = h
    BY <1>3, <1>4, <1>5, <2>1, Zenon DEF OthersKeep
  <2>2. CASE g # h
    BY <1>4, <1>6, <1>8, <2>2 DEF OthersKeep, ClaimInv, StoringClaim, InDatabase
  <2> QED
    BY <2>1, <2>2, Zenon
<1>9. StableUuids /\ KeepsCommit /\ KeepsFill
  BY <1>4, Zenon DEF StableUuids, KeepsCommit, KeepsFill, OthersKeep
<1>10. CachedClaim' /\ StoringClaim'
  BY <1>7, <1>8, Zenon DEF CachedClaim, StoringClaim
<1> QED
  BY <1>9, <1>10, ClaimParts, Zenon DEF ClaimInv

LEMMA PersistClaim ==
  ASSUME AllowUnmanaged, SafeState, ClaimInv, NEW h \in Handlers, Persist(h)
  PROVE  ClaimInv' /\ StableUuids
<1> DEFINE i0 == req[h].id
<1>1. /\ InDatabase(h) /\ hold[h] \in Objs /\ map[i0] = hold[h] /\ i0 \in Ids
      /\ req[h].uuid \in Uuids /\ req[h].pk \in Pks /\ req[h].ip \in Ips
  BY HandlerFacts, Zenon DEF Persist, InDatabase, Storing, SafeState, ControlInv, Control
<1>2. UNCHANGED <<map, peer, req, hold, fill, roll>>
  BY Zenon DEF Persist
<1>3. \A g \in Handlers : g # h => pc'[g] = pc[g]
  BY Zenon DEF Persist, Goto, SafeState, TypeOK, Evictors
<1>4. peer[hold[h]].uuid = req[h].uuid
  BY <1>1, Zenon DEF ClaimInv, StoringClaim
<1>5. CASE UNCHANGED db /\ pc'[h] = "rollback"
  <2>1. StableUuids /\ KeepsCached /\ KeepsFill
    BY <1>2, <1>5, Zenon DEF StableUuids, KeepsCached, KeepsFill
  <2>2. KeepsStoring /\ KeepsCommit
    BY <1>1, <1>2, <1>3, <1>5, Zenon DEF KeepsStoring, KeepsCommit, InDatabase
  <2> QED
    BY <2>1, <2>2, ClaimFrame, Zenon
<1>6. CASE /\ Me(h).guid \/ db[i0] = None
           /\ db' = [db EXCEPT ![i0] = Persisted(h)] /\ pc'[h] = "commit"
  <2>1. peer[hold[h]].guid => db[i0] # None /\ db[i0].uuid = req[h].uuid
    BY <1>1, <1>4, NoneAssumption, Zenon DEF ClaimInv, CachedClaim
  <2>2. db'[i0] = [uuid |-> req[h].uuid, pk |-> req[h].pk, ip |-> req[h].ip]
    BY <1>1, <1>6, <2>1, Zenon DEF Persisted, Me, SafeState, TypeOK
  <2>3. db'[i0] # None /\ db'[i0].uuid = req[h].uuid
    <3>1. [uuid |-> req[h].uuid, pk |-> req[h].pk, ip |-> req[h].ip] \in Row
      BY <1>1, Zenon DEF Row
    <3> QED
      BY <2>2, <3>1, NoneIsNoRow
  <2>4. \A i \in Ids : i # i0 => db'[i] = db[i]
    BY <1>6, Zenon DEF SafeState, TypeOK
  <2>5. StableUuids
    BY <1>6, <2>1, <2>3, <2>4, Zenon DEF StableUuids, Me
  <2>6. CachedClaim'
    <3> SUFFICES ASSUME NEW i \in Ids, map'[i] # None, peer'[map'[i]].guid
                 PROVE  db'[i] # None /\ peer'[map'[i]].uuid = db'[i].uuid
      BY Zenon DEF CachedClaim
    <3>1. CASE i = i0
      BY <1>1, <1>2, <1>4, <2>3, <3>1, Zenon
    <3>2. CASE i # i0
      BY <1>2, <2>4, <3>2, Zenon DEF ClaimInv, CachedClaim
    <3> QED
      BY <3>1, <3>2, Zenon
  <2>7. StoringClaim'
    <3>1. KeepsStoring
      BY <1>1, <1>2, <1>3, Zenon DEF KeepsStoring, InDatabase
    <3> QED
      BY <2>5, <3>1, ClaimParts, Zenon
  <2>8. CommitClaim'
    <3> SUFFICES ASSUME NEW g \in Handlers, pc'[g] = "commit"
                 PROVE  db'[req'[g].id] # None /\ db'[req'[g].id].uuid = req'[g].uuid
      BY Zenon DEF CommitClaim
    <3>1. CASE g = h
      BY <1>2, <2>3, <3>1, Zenon
    <3>2. CASE g # h
      BY <1>2, <1>3, <2>5, <3>2, HandlerFacts, Zenon DEF ClaimInv, CommitClaim, StableUuids
    <3> QED
      BY <3>1, <3>2, Zenon
  <2>9. KeepsFill
    BY <1>2, Zenon DEF KeepsFill
  <2> QED
    BY <2>5, <2>6, <2>7, <2>8, <2>9, ClaimParts, Zenon DEF ClaimInv
<1> QED
  BY <1>5, <1>6, Zenon DEF Persist, Goto, SafeState, TypeOK, Evictors

LEMMA FinishClaim ==
  ASSUME AllowUnmanaged, SafeState, ClaimInv, NEW h \in Handlers,
         FinishCommit(h) \/ FinishRollback(h)
  PROVE  ClaimInv' /\ StableUuids
<1> DEFINE p == peer[hold[h]]
<1>1. /\ InDatabase(h) /\ hold[h] \in Objs /\ map[req[h].id] = hold[h] /\ req[h].id \in Ids
      /\ p \in Peer /\ roll[h] \in Rollback
  BY HandlerFacts, Zenon DEF FinishCommit, FinishRollback, InDatabase, Storing, SafeState, ControlInv,
                      Control, TypeOK
<1>2. UNCHANGED <<map, db>> /\ pc'[h] \in {"ok", "idle"}
  BY Zenon DEF FinishCommit, FinishRollback, Return, Goto, SafeState, TypeOK, Evictors
<1>3. \A g \in Handlers : g # h => /\ pc'[g] = pc[g] /\ req'[g] = req[g] /\ hold'[g] = hold[g]
                                   /\ roll'[g] = roll[g] /\ fill'[g] = fill[g]
  BY Zenon DEF FinishCommit, FinishRollback, Return, Goto, SafeState, TypeOK, Evictors
<1>4. \A o \in Objs : o # hold[h] => peer'[o] = peer[o]
  BY Zenon DEF FinishCommit, FinishRollback, SafeState, TypeOK
<1>5. fill[h] = None /\ fill'[h] = None
  BY Zenon DEF FinishCommit, FinishRollback, Return, SafeState, ControlInv, Control, Caching, TypeOK
<1>6. \A g \in Handlers : g # h /\ InDatabase(g) => hold[g] # hold[h] /\ hold[g] \in Objs
  BY <1>1, HandlerFacts, Zenon DEF SafeState, WriterInv
<1>7. KeepsStoring /\ KeepsCommit /\ KeepsFill /\ StableUuids
  BY <1>2, <1>3, <1>4, <1>5, <1>6, Zenon
  DEF KeepsStoring, KeepsCommit, KeepsFill, StableUuids, InDatabase
<1>8. peer'[hold[h]].guid => /\ db[req[h].id] # None
                             /\ peer'[hold[h]].uuid = db[req[h].id].uuid
  <2>1. CASE FinishCommit(h)
    <3>1. peer'[hold[h]] = Committed(p)
      BY <1>1, <2>1, Zenon DEF FinishCommit, SafeState, TypeOK
    <3>2. peer'[hold[h]].uuid = p.uuid
      BY <1>1, <3>1, CommittedPeer, Zenon
    <3> QED
      BY <1>1, <2>1, <3>2, Zenon DEF FinishCommit, ClaimInv, StoringClaim, CommitClaim
  <2>2. CASE FinishRollback(h)
    <3>1. PICK a \in {FALSE, roll[h].active}, v \in {FALSE, roll[h].verified} :
            peer' = [peer EXCEPT ![hold[h]] = RolledBack(@, roll[h], a, v)]
      BY <2>2, Zenon DEF FinishRollback
    <3>2. peer'[hold[h]] = RolledBack(p, roll[h], a, v)
      BY <1>1, <3>1, Zenon DEF SafeState, TypeOK
    <3>3. peer'[hold[h]].guid = p.guid /\ peer'[hold[h]].uuid = roll[h].uuid
      <4>1. a \in BOOLEAN /\ v \in BOOLEAN
        BY <1>1, SavedTimes, Zenon
      <4> QED
        BY <1>1, <3>2, <4>1, RolledBackPeer
    <3>4. p.guid => db[req[h].id] # None /\ p.uuid = db[req[h].id].uuid
      BY <1>1, NoneAssumption, Zenon DEF ClaimInv, CachedClaim
    <3>5. p.uuid = req[h].uuid /\ (p.guid => roll[h].uuid = req[h].uuid)
      BY <1>1, Zenon DEF ClaimInv, StoringClaim
    <3> QED
      BY <3>3, <3>4, <3>5, Zenon
  <2> QED
    BY <2>1, <2>2, Zenon
<1>9. ASSUME NEW i \in Ids, map'[i] # None, peer'[map'[i]].guid
      PROVE  db'[i] # None /\ peer'[map'[i]].uuid = db'[i].uuid
  <2>1. CASE map[i] = hold[h]
    <3>1. i = req[h].id
      BY <1>1, <1>2, <1>9, <2>1, Zenon DEF SafeState, RefInv
    <3> QED
      BY <1>2, <1>8, <1>9, <2>1, <3>1, Zenon
  <2>2. CASE map[i] # hold[h]
    BY <1>2, <1>4, <1>9, <2>2 DEF ClaimInv, CachedClaim, SafeState, TypeOK, Opt
  <2> QED
    BY <2>1, <2>2, Zenon
<1>10. CachedClaim'
  BY <1>9, Zenon DEF CachedClaim
<1> QED
  BY <1>7, <1>10, ClaimParts, Zenon DEF ClaimInv

LEMMA NextClaim ==
  ASSUME AllowUnmanaged, SafeState, ClaimInv, [Next]_vars
  PROVE  ClaimInv' /\ StableUuids
<1>1. ASSUME NEW h \in Handlers, CachePeer(h) PROVE ClaimInv' /\ StableUuids
  <2>1. /\ UNCHANGED <<db, req, roll>> /\ pc[h] \in {"cache", "insert"}
        /\ UNCHANGED <<map, peer>> \/ InsertNew(h)
    BY <1>1, Zenon DEF CachePeer, UseExisting
  <2>2. pc'[h] \notin Storing /\ (fill'[h] # None => fill'[h] = fill[h])
    BY <1>1, Zenon DEF CachePeer, UseExisting, InsertNew, Goto, Storing, SafeState, TypeOK, Evictors
  <2>3. \A g \in Handlers : g # h => pc'[g] = pc[g] /\ hold'[g] = hold[g] /\ fill'[g] = fill[g]
    BY <1>1, Zenon DEF CachePeer, UseExisting, InsertNew, Goto, SafeState, TypeOK, Evictors
  <2> QED
    BY <2>1, <2>2, <2>3, CacheClaim, Zenon
<1>2. ASSUME NEW h \in Handlers, CacheAfterEvict(h) PROVE ClaimInv' /\ StableUuids
  <2>1. /\ UNCHANGED db /\ pc[h] \in {"cache", "insert"}
        /\ UNCHANGED <<map, peer>> \/ InsertNew(h)
    BY <1>2, Zenon DEF CacheAfterEvict, UseExisting
  <2>2. pc'[h] \notin Storing /\ (fill'[h] # None => fill'[h] = fill[h] /\ req'[h] = req[h])
    BY <1>2, Zenon DEF CacheAfterEvict, UseExisting, InsertNew, Return, Goto, Storing, SafeState, TypeOK,
                Evictors
  <2>3. \A g \in Handlers : g # h => /\ pc'[g] = pc[g] /\ req'[g] = req[g]
                                     /\ hold'[g] = hold[g] /\ roll'[g] = roll[g]
                                     /\ fill'[g] = fill[g]
    BY <1>2, Zenon DEF CacheAfterEvict, UseExisting, InsertNew, Return, Goto, SafeState, TypeOK, Evictors
  <2> QED
    BY <2>1, <2>2, <2>3, CacheClaim, Zenon
<1>3. ASSUME Crash PROVE ClaimInv' /\ StableUuids
  BY <1>3, Zenon DEF Crash, ClaimInv, CachedClaim, StoringClaim, CommitClaim, FillClaim, StableUuids,
              InDatabase, Evictors
<1>4. Quiet \/ Loud
  BY QuietOrLoud, Zenon DEF SafeState
<1> QED
  BY <1>1, <1>2, <1>3, <1>4, QuietClaim, GetPeerClaim, EvictClaim, StageClaim, PersistClaim,
     FinishClaim, Zenon DEF Loud, Evictors

\* Whatever handlers, evictions, failures and crashes do, an id keeps the uuid
\* that was stored first when no management API decides
\* (stage_peer_registration, insert_peer, update_identity).
THEOREM ClaimsArePermanent == Spec => ClaimIsPermanent
<1>1. Init => RefInv /\ WriterInv /\ ClaimInv
  BY DEF Init, RefInv, NoOrphan, WriterInv, ClaimInv, CachedClaim, StoringClaim, CommitClaim,
         FillClaim, InDatabase, Evictors
<1> DEFINE Inv == SafeState /\ (AllowUnmanaged => ClaimInv)
<1>2. Init => Inv
  BY <1>1, InitType, Zenon DEF SafeState
<1>3. Inv /\ [Next]_vars => Inv'
  BY NextType, NextControl, NextRef, NextWriter, NextClaim, Zenon DEF SafeState
<1>4. Inv /\ [Next]_vars =>
        [\A i \in Ids : AllowUnmanaged /\ db[i] # None =>
           /\ db'[i] # None
           /\ db'[i].uuid = db[i].uuid]_vars
  BY NextClaim, Zenon DEF StableUuids
<1> HIDE DEF Inv
<1> QED
  BY <1>2, <1>3, <1>4, PTL DEF Spec, ClaimIsPermanent

-----------------------------------------------------------------------------
(* The cache and the table.                                                *)

\* A set of ids that fills the cache is the set of all ids: for finitely many
\* ids, there are no more of them than places.
RoomForAll == \A S \in SUBSET Ids : Cardinality(S) >= MaxCachedPeers => S = Ids

RowOf(r) == [uuid |-> r.uuid, pk |-> r.pk, ip |-> r.ip]

\* An identity, with or without a guid, that agrees with a row.  A full cache
\* may hold a default Peer for an id that has a row.
Says(g, u, k, a, row) ==
  IF g THEN row # None /\ u = row.uuid /\ k = row.pk /\ a = row.ip
  ELSE u = None /\ k = None /\ a = None /\ (RoomForAll => row = None)
PeerSays(p, row) == Says(p.guid, p.uuid, p.pk, p.ip, row)
SavedSays(p, r, row) == Says(p.guid, r.uuid, r.pk, r.ip, row)

CachedAgree ==
  \A i \in Ids : map[i] # None /\ ~peer[map[i]].busy => PeerSays(peer[map[i]], db[i])

SavedAgree == \A h \in Handlers :
  pc[h] \in {"persist", "rollback"} => SavedSays(peer[hold[h]], roll[h], db[req[h].id])

StagedAsked == \A h \in Handlers : InDatabase(h) =>
  /\ peer[hold[h]].uuid = req[h].uuid
  /\ peer[hold[h]].pk = req[h].pk
  /\ peer[hold[h]].ip = req[h].ip

CommitStored == \A h \in Handlers : pc[h] = "commit" => db[req[h].id] = RowOf(req[h])

\* A key about to be stored is the saved one or comes from the saved address.
KeyAtAddress == \A h \in Handlers :
  pc[h] = "persist" /\ peer[hold[h]].guid /\ AllowUnmanaged =>
    roll[h].ip = req[h].ip \/ roll[h].pk = req[h].pk

\* What a handler has loaded is still the row when it inserts it: nobody
\* writes the row of an id without holding its cached Peer.
FillCurrent == \A h \in Handlers :
  pc[h] \in Caching /\ map[req[h].id] = None =>
    fill[h] = db[req[h].id] \/ (fill[h] = None /\ ~RoomForAll)

StoreInv == /\ CachedAgree /\ SavedAgree /\ StagedAsked
            /\ CommitStored /\ KeyAtAddress /\ FillCurrent

LEMMA SaysSame ==
  ASSUME NEW p, NEW q, SameIdentity(p, q), NEW row
  PROVE  /\ PeerSays(p, row) => PeerSays(q, row)
         /\ \A r, s : s.uuid = r.uuid /\ s.pk = r.pk /\ s.ip = r.ip /\ SavedSays(p, r, row) =>
              SavedSays(q, s, row)
  BY Zenon DEF SameIdentity, PeerSays, SavedSays, Says

\* The parts of a step that keep StoreInv.
EntriesKeep == \A i \in Ids : map'[i] # None =>
  map'[i] = map[i] /\ SameIdentity(peer[map[i]], peer'[map[i]])

StoringKeep == \A g \in Handlers : InDatabase(g)' =>
  /\ pc'[g] = pc[g] /\ req'[g] = req[g] /\ hold'[g] = hold[g]
  /\ roll'[g].uuid = roll[g].uuid /\ roll'[g].pk = roll[g].pk /\ roll'[g].ip = roll[g].ip
  /\ SameIdentity(peer[hold[g]], peer'[hold[g]])

FillKeep == \A g \in Handlers :
  pc'[g] \in Caching /\ map'[req'[g].id] = None =>
    pc[g] \in Caching /\ map[req[g].id] = None /\ fill'[g] = fill[g] /\ req'[g] = req[g]

LEMMA EntriesFrame ==
  ASSUME CachedAgree, UNCHANGED db, EntriesKeep
  PROVE  CachedAgree'
<1> SUFFICES ASSUME NEW i \in Ids, map'[i] # None, ~peer'[map'[i]].busy
             PROVE  PeerSays(peer'[map'[i]], db'[i])
  BY Zenon DEF CachedAgree, PeerSays, Says
<1>1. map'[i] = map[i] /\ SameIdentity(peer[map[i]], peer'[map[i]])
  BY Zenon DEF EntriesKeep
<1>2. map[i] # None /\ ~peer[map[i]].busy
  BY <1>1, Zenon DEF SameIdentity
<1>3. PeerSays(peer[map[i]], db[i])
  BY <1>2, Zenon DEF CachedAgree
<1>4. PeerSays(peer'[map[i]], db[i])
  BY <1>1, <1>3, SaysSame, Zenon
<1> QED
  BY <1>1, <1>4, Zenon

LEMMA StoringFrame ==
  ASSUME SavedAgree, StagedAsked, CommitStored, KeyAtAddress, UNCHANGED db, StoringKeep
  PROVE  SavedAgree' /\ StagedAsked' /\ CommitStored' /\ KeyAtAddress'
<1>1. ASSUME NEW g \in Handlers, pc'[g] \in {"persist", "rollback"}
      PROVE  SavedSays(peer'[hold'[g]], roll'[g], db'[req'[g].id])
  <2>1. InDatabase(g)'
    BY <1>1, Zenon DEF InDatabase
  <2>2. /\ pc'[g] = pc[g] /\ req'[g] = req[g] /\ hold'[g] = hold[g]
        /\ roll'[g].uuid = roll[g].uuid /\ roll'[g].pk = roll[g].pk /\ roll'[g].ip = roll[g].ip
        /\ SameIdentity(peer[hold[g]], peer'[hold[g]])
    BY <2>1, Zenon DEF StoringKeep
  <2>3. SavedSays(peer[hold[g]], roll[g], db[req[g].id])
    BY <1>1, <2>2, Zenon DEF SavedAgree
  <2>4. SavedSays(peer'[hold[g]], roll'[g], db[req[g].id])
    <3>1. peer'[hold[g]].guid = peer[hold[g]].guid
      BY <2>2, Zenon DEF SameIdentity
    <3> QED
      BY <2>2, <2>3, <3>1, Zenon DEF SavedSays
  <2> QED
    BY <2>2, <2>4, Zenon
<1>2. ASSUME NEW g \in Handlers, InDatabase(g)'
      PROVE  /\ peer'[hold'[g]].uuid = req'[g].uuid
             /\ peer'[hold'[g]].pk = req'[g].pk /\ peer'[hold'[g]].ip = req'[g].ip
  <2>1. /\ pc'[g] = pc[g] /\ req'[g] = req[g] /\ hold'[g] = hold[g]
        /\ SameIdentity(peer[hold[g]], peer'[hold[g]])
    BY <1>2, Zenon DEF StoringKeep
  <2>2. InDatabase(g)
    BY <1>2, <2>1, Zenon DEF InDatabase
  <2> QED
    BY <2>1, <2>2, Zenon DEF StagedAsked, SameIdentity
<1>3. ASSUME NEW g \in Handlers, pc'[g] = "commit"
      PROVE  db'[req'[g].id] = RowOf(req'[g])
  <2>1. pc[g] = "commit" /\ req'[g] = req[g]
    BY <1>3, Zenon DEF StoringKeep, InDatabase
  <2> QED
    BY <2>1, Zenon DEF CommitStored
<1>4. ASSUME NEW g \in Handlers, pc'[g] = "persist", peer'[hold'[g]].guid, AllowUnmanaged
      PROVE  roll'[g].ip = req'[g].ip \/ roll'[g].pk = req'[g].pk
  <2>1. /\ pc[g] = "persist" /\ req'[g] = req[g] /\ hold'[g] = hold[g]
        /\ roll'[g].pk = roll[g].pk /\ roll'[g].ip = roll[g].ip
        /\ peer'[hold[g]].guid = peer[hold[g]].guid
    BY <1>4, Zenon DEF StoringKeep, InDatabase, SameIdentity
  <2>2. peer[hold[g]].guid
    BY <1>4, <2>1, Zenon
  <2> QED
    BY <1>4, <2>1, <2>2, Zenon DEF KeyAtAddress
<1>5. SavedAgree'
  BY <1>1, Zenon DEF SavedAgree, SavedSays, Says
<1> QED
  BY <1>2, <1>3, <1>4, <1>5, Zenon DEF StagedAsked, CommitStored, KeyAtAddress

LEMMA FillFrame ==
  ASSUME FillCurrent, UNCHANGED db, FillKeep
  PROVE  FillCurrent'
  BY Zenon DEF FillCurrent, FillKeep, RoomForAll

LEMMA StoreFrame ==
  ASSUME StoreInv, UNCHANGED db, EntriesKeep, StoringKeep, FillKeep
  PROVE  StoreInv'
  BY EntriesFrame, StoringFrame, FillFrame, Zenon DEF StoreInv

LEMMA QuietStore ==
  ASSUME SafeState, StoreInv, Quiet
  PROVE  StoreInv'
<1>1. UNCHANGED <<map, db>> /\ \A o \in Objs : SameIdentity(peer[o], peer'[o])
  BY Zenon DEF Quiet
<1>2. EntriesKeep
  <2> SUFFICES ASSUME NEW i \in Ids, map'[i] # None
               PROVE  map'[i] = map[i] /\ SameIdentity(peer[map[i]], peer'[map[i]])
    BY Zenon DEF EntriesKeep
  <2>1. map[i] \in Objs
    BY <1>1, Zenon DEF SafeState, TypeOK, Opt
  <2> QED
    BY <1>1, <2>1, Zenon
<1>3. StoringKeep
  <2> SUFFICES ASSUME NEW g \in Handlers, InDatabase(g)'
               PROVE  /\ pc'[g] = pc[g] /\ req'[g] = req[g] /\ hold'[g] = hold[g]
                      /\ roll'[g].uuid = roll[g].uuid /\ roll'[g].pk = roll[g].pk
                      /\ roll'[g].ip = roll[g].ip
                      /\ SameIdentity(peer[hold[g]], peer'[hold[g]])
    BY Zenon DEF StoringKeep
  <2>1. /\ pc'[g] = pc[g] /\ req'[g] = req[g] /\ hold'[g] = hold[g] /\ pc[g] \in Storing
        /\ roll'[g].uuid = roll[g].uuid /\ roll'[g].pk = roll[g].pk /\ roll'[g].ip = roll[g].ip
    BY Zenon DEF Quiet, InDatabase, Storing
  <2>2. hold[g] \in Objs
    BY <2>1, HandlerFacts, Zenon DEF Storing, Holding
  <2> QED
    BY <1>1, <2>1, <2>2, Zenon
<1>4. FillKeep
  BY <1>1, Zenon DEF Quiet, FillKeep
<1> QED
  BY <1>1, <1>2, <1>3, <1>4, StoreFrame, Zenon

\* A handler outside the database moves and only cache_peer's insert touches
\* the entries.
LEMMA OutsideKeeps ==
  ASSUME SafeState, NEW h \in Handlers, pc[h] \notin Storing, pc'[h] \notin Storing,
         \A g \in Handlers : g # h => /\ pc'[g] = pc[g] /\ req'[g] = req[g]
                                      /\ hold'[g] = hold[g] /\ roll'[g] = roll[g],
         \A g \in Handlers : hold[g] # None => peer'[hold[g]] = peer[hold[g]]
  PROVE  StoringKeep
<1> SUFFICES ASSUME NEW g \in Handlers, InDatabase(g)'
             PROVE  /\ pc'[g] = pc[g] /\ req'[g] = req[g] /\ hold'[g] = hold[g]
                    /\ roll'[g] = roll[g] /\ peer'[hold[g]] = peer[hold[g]]
  BY Zenon DEF StoringKeep, SameIdentity
<1>1. g # h /\ pc'[g] = pc[g]
  BY Zenon DEF InDatabase, Storing
<1>2. InDatabase(g)
  BY <1>1, Zenon DEF InDatabase
<1>3. hold[g] # None
  BY <1>2, HandlerFacts, NoneAssumption, Zenon
<1> QED
  BY <1>1, <1>3, Zenon

LEMMA GetPeerStore ==
  ASSUME SafeState, StoreInv, NEW h \in Handlers, GetPeer(h)
  PROVE  StoreInv'
<1>1. UNCHANGED <<map, peer, db>> /\ pc[h] = "load"
  BY Zenon DEF GetPeer
<1>2. \A g \in Handlers : g # h => /\ pc'[g] = pc[g] /\ req'[g] = req[g] /\ hold'[g] = hold[g]
                                   /\ roll'[g] = roll[g] /\ fill'[g] = fill[g]
  BY Zenon DEF GetPeer, Return, Goto, SafeState, TypeOK, Evictors
<1>3. \/ pc'[h] = "cache" /\ fill'[h] = db[req[h].id] /\ req'[h] = req[h]
      \/ pc'[h] = "idle"
  BY Zenon DEF GetPeer, Return, Goto, SafeState, TypeOK, Evictors
<1>4. EntriesKeep
  BY <1>1, Zenon DEF EntriesKeep, SameIdentity
<1>5. StoringKeep
  BY <1>1, <1>2, <1>3, OutsideKeeps, Zenon DEF Storing
<1>6. FillCurrent'
  <2> SUFFICES ASSUME NEW g \in Handlers, pc'[g] \in Caching, map'[req'[g].id] = None
               PROVE  fill'[g] = db'[req'[g].id] \/ (fill'[g] = None /\ ~RoomForAll)
    BY Zenon DEF FillCurrent, RoomForAll
  <2>1. CASE g = h
    BY <1>1, <1>3, <2>1, Zenon DEF Caching
  <2>2. CASE g # h
    BY <1>1, <1>2, <2>2, Zenon DEF StoreInv, FillCurrent
  <2> QED
    BY <2>1, <2>2, Zenon
<1> QED
  BY <1>1, <1>4, <1>5, <1>6, EntriesFrame, StoringFrame, Zenon DEF StoreInv

\* With a place for every id the map is full only when every id is in it.
LEMMA NeverFull ==
  ASSUME RoomForAll, NEW i \in Ids, map[i] = None
  PROVE  ~(Cardinality(Cached) >= MaxCachedPeers)
<1>1. Cached \in SUBSET Ids /\ Cached # Ids
  BY Zenon DEF Cached
<1> QED
  BY <1>1, Zenon DEF RoomForAll

\* The Peer that cache_peer inserts says what the table says.
LEMMA InsertedSays ==
  ASSUME SafeState, NEW h \in Handlers, NEW row \in Opt(Row),
         fill[h] = row \/ (fill[h] = None /\ ~RoomForAll)
  PROVE  PeerSays(PeerOf(fill[h]), row)
<1>1. CASE fill[h] = None
  <2>1. ~DefaultPeer.guid /\ DefaultPeer.uuid = None /\ DefaultPeer.pk = None
        /\ DefaultPeer.ip = None
    BY Zenon DEF DefaultPeer
  <2>2. RoomForAll => row = None
    BY <1>1, Zenon
  <2> QED
    BY <1>1, <2>1, <2>2, PeerOfNone, Zenon DEF PeerSays, Says
<1>2. CASE fill[h] # None
  <2>1. fill[h] \in Row /\ fill[h] = row
    BY <1>2, HandlerFacts, Zenon
  <2>2. /\ PeerOf(row).guid /\ PeerOf(row).uuid = row.uuid /\ PeerOf(row).pk = row.pk
        /\ PeerOf(row).ip = row.ip
    BY <2>1, LoadedPeers, Zenon
  <2> QED
    BY <1>2, <2>1, <2>2, Zenon DEF PeerSays, Says
<1> QED
  BY <1>1, <1>2, Zenon

\* cache_peer: an entry appears or none changes; a row that found no place is
\* dropped only when the cache is full.
LEMMA CacheStore ==
  ASSUME SafeState, StoreInv, NEW h \in Handlers, pc[h] \in {"cache", "insert"},
         UNCHANGED db, pc'[h] \notin Storing,
         \A g \in Handlers : g # h => /\ pc'[g] = pc[g] /\ req'[g] = req[g]
                                      /\ hold'[g] = hold[g] /\ roll'[g] = roll[g]
                                      /\ fill'[g] = fill[g],
         pc'[h] \in Caching => /\ UNCHANGED <<map, peer>> /\ req'[h] = req[h]
                               /\ fill'[h] = fill[h] \/ (fill'[h] = None /\ MapFull(h)),
         UNCHANGED <<map, peer>> \/ InsertNew(h)
  PROVE  StoreInv'
<1>1. req[h].id \in Ids
  BY HandlerFacts, Zenon
<1>2. StoringKeep
  <2>1. \A g \in Handlers : hold[g] # None => peer'[hold[g]] = peer[hold[g]]
    BY InsertSpares, Zenon DEF SafeState
  <2>2. pc[h] \notin Storing
    BY Zenon DEF Storing
  <2> QED
    BY <2>1, <2>2, OutsideKeeps, Zenon
<1>3. \A i \in Ids : map'[i] = None => map[i] = None
  BY <1>1, NoneAssumption, Zenon DEF InsertNew, SafeState, TypeOK
<1>4. FillCurrent'
  <2> SUFFICES ASSUME NEW g \in Handlers, pc'[g] \in Caching, map'[req'[g].id] = None
               PROVE  fill'[g] = db'[req'[g].id] \/ (fill'[g] = None /\ ~RoomForAll)
    BY Zenon DEF FillCurrent, RoomForAll
  <2>1. CASE g = h
    <3>1. map[req[h].id] = None /\ req'[h] = req[h]
      BY <2>1, Zenon
    <3>2. fill[h] = db[req[h].id] \/ (fill[h] = None /\ ~RoomForAll)
      BY <3>1, Zenon DEF StoreInv, FillCurrent, Caching
    <3>3. MapFull(h) => ~RoomForAll
      BY <1>1, <3>1, NeverFull, Zenon DEF MapFull
    <3> QED
      BY <2>1, <3>1, <3>2, <3>3, Zenon
  <2>2. CASE g # h
    <3>1. pc[g] \in Caching /\ req'[g] = req[g] /\ fill'[g] = fill[g]
      BY <2>2, Zenon
    <3>2. req[g].id \in Ids
      BY <3>1, HandlerFacts, Zenon DEF Caching
    <3>3. map[req[g].id] = None
      BY <1>3, <3>1, <3>2, Zenon
    <3> QED
      BY <3>1, <3>3, Zenon DEF StoreInv, FillCurrent
  <2> QED
    BY <2>1, <2>2, Zenon
<1>5. CachedAgree'
  <2>1. CASE UNCHANGED <<map, peer>>
    BY <2>1, EntriesFrame, Zenon DEF StoreInv, EntriesKeep, SameIdentity
  <2>2. CASE InsertNew(h)
    <3>1. PICK o \in Objs : /\ Unreferenced(o)
                            /\ map' = [map EXCEPT ![req[h].id] = o]
                            /\ peer' = [peer EXCEPT ![o] = PeerOf(fill[h])]
      BY <2>2, Zenon DEF InsertNew
    <3>2. peer'[o] = PeerOf(fill[h]) /\ map'[req[h].id] = o
      BY <1>1, <3>1, Zenon DEF SafeState, TypeOK
    <3>3. map[req[h].id] = None /\ db[req[h].id] \in Opt(Row)
      BY <1>1, <2>2, Zenon DEF InsertNew, SafeState, TypeOK
    <3>4. fill[h] = db[req[h].id] \/ (fill[h] = None /\ ~RoomForAll)
      BY <3>3, Zenon DEF StoreInv, FillCurrent, Caching
    <3>5. PeerSays(PeerOf(fill[h]), db[req[h].id])
      BY <3>3, <3>4, InsertedSays, Zenon
    <3> SUFFICES ASSUME NEW i \in Ids, map'[i] # None, ~peer'[map'[i]].busy
                 PROVE  PeerSays(peer'[map'[i]], db'[i])
      BY Zenon DEF CachedAgree, PeerSays, Says
    <3>6. CASE i = req[h].id
      BY <3>2, <3>5, <3>6, Zenon
    <3>7. CASE i # req[h].id
      <4>1. map'[i] = map[i] /\ map[i] \in Objs
        BY <3>1, <3>7, Zenon DEF SafeState, TypeOK, Opt
      <4>2. map[i] # o
        BY <3>1, Zenon DEF Unreferenced
      <4>3. peer'[map[i]] = peer[map[i]]
        BY <3>1, <4>1, <4>2, Zenon DEF SafeState, TypeOK
      <4>4. PeerSays(peer[map[i]], db[i])
        BY <4>1, <4>3, Zenon DEF StoreInv, CachedAgree
      <4> QED
        BY <4>1, <4>3, <4>4, Zenon
    <3> QED
      BY <3>6, <3>7, Zenon
  <2> QED
    BY <2>1, <2>2, Zenon
<1> QED
  BY <1>2, <1>4, <1>5, StoringFrame, Zenon DEF StoreInv

\* An eviction takes no entry from under a handler that has loaded its row.
LEMMA EvictStore ==
  ASSUME SafeState, FreshInv, StoreInv, NEW e \in Evictors, Evict(e)
  PROVE  StoreInv'
<1>1. UNCHANGED <<db, req, hold, fill, roll>> /\ pc[e] = "remove" /\ pc'[e] = "return"
      /\ \A d \in Evictors : d # e => pc'[d] = pc[d]
  BY Zenon DEF Evict, Goto, SafeState, TypeOK
<1>2. EntriesKeep
  <2> SUFFICES ASSUME NEW i \in Ids, map'[i] # None
               PROVE  map'[i] = map[i] /\ SameIdentity(peer[map[i]], peer'[map[i]])
    BY Zenon DEF EntriesKeep
  <2>1. map'[i] = map[i] /\ map[i] \in Objs /\ ~ShouldRemove(e, map[i])
    BY Zenon DEF Evict, SafeState, TypeOK, Opt
  <2>2. peer'[map[i]] = peer[map[i]]
    BY <2>1, Zenon DEF Evict
  <2> QED
    BY <2>1, <2>2, Zenon DEF SameIdentity
<1>3. StoringKeep
  <2> SUFFICES ASSUME NEW g \in Handlers, InDatabase(g)'
               PROVE  pc'[g] = pc[g] /\ peer'[hold[g]] = peer[hold[g]]
    BY <1>1, Zenon DEF StoringKeep, SameIdentity
  <2>1. pc'[g] = pc[g]
    BY <1>1, Zenon DEF InDatabase, Evictors
  <2>2. InDatabase(g)
    BY <2>1, Zenon DEF InDatabase
  <2>3. hold[g] # None
    BY <2>2, HandlerFacts, NoneAssumption, Zenon
  <2> QED
    BY <2>1, <2>3, EvictSpares, Zenon DEF SafeState
<1>4. FillKeep
  <2> SUFFICES ASSUME NEW g \in Handlers, pc'[g] \in Caching, map'[req'[g].id] = None
               PROVE  pc[g] \in Caching /\ map[req[g].id] = None
    BY <1>1, Zenon DEF FillKeep
  <2>1. pc[g] \in Caching
    BY <1>1, Zenon DEF Caching, Evictors
  <2>2. req[g].id \in Ids
    BY <2>1, HandlerFacts, Zenon DEF Caching
  <2>3. Underway(req[g].id)
    BY <2>1, Zenon DEF Underway, Caching
  <2>4. ASSUME map[req[g].id] # None PROVE FALSE
    <3>1. peer[map[req[g].id]].idle = 0
      BY <2>2, <2>3, <2>4, Zenon DEF FreshInv, FreshEntries
    <3>2. map[req[g].id] \in cand[e]
      BY <1>1, <2>2, <2>4, Zenon DEF Evict, ShouldRemove
    <3> QED
      BY <3>1, <3>2, Zenon DEF FreshInv, CandidatesIdle
  <2> QED
    BY <2>1, <2>4, Zenon
<1> QED
  BY <1>1, <1>2, <1>3, <1>4, StoreFrame, Zenon

\* stage_peer_registration saves what the cache said and stages the request.
LEMMA StageStore ==
  ASSUME SafeState, StoreInv, NEW h \in Handlers, StagePersist(h)
  PROVE  StoreInv'
<1> DEFINE p == peer[hold[h]]
           i0 == req[h].id
           q == Staged(p, req[h])
<1>1. /\ hold[h] \in Objs /\ map[i0] = hold[h] /\ req[h] \in Request /\ i0 \in Ids
      /\ req[h].uuid \in Uuids /\ req[h].pk \in Pks /\ req[h].ip \in Ips
  BY HandlerFacts, Zenon DEF StagePersist, Holding, SafeState, ControlInv, Control
<1>2. p \in Peer
  BY <1>1, Zenon DEF SafeState, TypeOK
<1>3. /\ q.guid = p.guid /\ q.busy
      /\ q.uuid = req[h].uuid /\ q.pk = req[h].pk /\ q.ip = req[h].ip
  <2>1. ~(p.regs > RegPkLimit)
    BY Zenon DEF StagePersist, TooFrequent, Me
  <2> QED
    BY <1>1, <1>2, <2>1, StagedPeer, Zenon
<1>4. peer'[hold[h]] = q /\ roll'[h] = RollbackOf(p)
  BY <1>1, Zenon DEF StagePersist, Me, SafeState, TypeOK
<1>5. UNCHANGED <<db, req, fill>> /\ OthersKeep(h) /\ pc[h] = "use" /\ pc'[h] = "persist"
  BY <1>1, Zenon DEF StagePersist, OthersKeep, Goto, SafeState, TypeOK, Evictors
<1>6. /\ roll'[h].uuid = p.uuid /\ roll'[h].pk = p.pk /\ roll'[h].ip = p.ip
  BY <1>2, <1>4, SavedPeer, Zenon
<1> HIDE DEF p, q
<1>7. PeerSays(p, db[i0])
  <2>1. ~p.busy /\ map[i0] # None
    BY <1>1, NoneAssumption, Zenon DEF StagePersist, Busy, Me, p
  <2> QED
    BY <1>1, <2>1, Zenon DEF StoreInv, CachedAgree, p
<1>8. \A g \in Handlers : g # h /\ InDatabase(g)' =>
        /\ InDatabase(g) /\ pc'[g] = pc[g] /\ req'[g] = req[g] /\ hold'[g] = hold[g]
        /\ roll'[g] = roll[g] /\ peer'[hold[g]] = peer[hold[g]] /\ hold[g] \in Objs
  <2> SUFFICES ASSUME NEW g \in Handlers, g # h, InDatabase(g)'
               PROVE  /\ InDatabase(g) /\ pc'[g] = pc[g] /\ req'[g] = req[g]
                      /\ hold'[g] = hold[g] /\ roll'[g] = roll[g]
                      /\ peer'[hold[g]] = peer[hold[g]] /\ hold[g] \in Objs
    BY Zenon
  <2>1. InDatabase(g)
    BY <1>5, Zenon DEF OthersKeep, InDatabase
  <2>2. hold[g] \in Objs /\ hold[g] # hold[h]
    BY <2>1, HandlerFacts, Zenon DEF StagePersist, Busy, Me, SafeState, WriterInv
  <2> QED
    BY <1>5, <2>1, <2>2, Zenon DEF OthersKeep
<1>9. CachedAgree'
  <2> SUFFICES ASSUME NEW i \in Ids, map'[i] # None, ~peer'[map'[i]].busy
               PROVE  PeerSays(peer'[map'[i]], db'[i])
    BY Zenon DEF CachedAgree, PeerSays, Says
  <2>1. map'[i] = map[i] /\ map[i] \in Objs
    BY <1>5, Zenon DEF OthersKeep, SafeState, TypeOK, Opt
  <2>2. map[i] # hold[h]
    BY <1>3, <1>4, <2>1, Zenon
  <2>3. peer'[map[i]] = peer[map[i]]
    BY <1>5, <2>1, <2>2, Zenon DEF OthersKeep
  <2>4. PeerSays(peer[map[i]], db[i])
    BY <2>1, <2>3, Zenon DEF StoreInv, CachedAgree
  <2> QED
    BY <1>5, <2>1, <2>3, <2>4, Zenon
<1>10. SavedAgree'
  <2> SUFFICES ASSUME NEW g \in Handlers, pc'[g] \in {"persist", "rollback"}
               PROVE  SavedSays(peer'[hold'[g]], roll'[g], db'[req'[g].id])
    BY Zenon DEF SavedAgree, SavedSays, Says
  <2>1. CASE g = h
    <3>1. SavedSays(q, roll'[h], db[i0])
      BY <1>3, <1>6, <1>7, Zenon DEF PeerSays, SavedSays, Says
    <3> QED
      BY <1>4, <1>5, <2>1, <3>1, Zenon DEF OthersKeep
  <2>2. CASE g # h
    <3>1. InDatabase(g)'
      BY Zenon DEF InDatabase
    <3> QED
      BY <1>5, <1>8, <2>2, <3>1, Zenon DEF StoreInv, SavedAgree
  <2> QED
    BY <2>1, <2>2, Zenon
<1>11. StagedAsked'
  <2> SUFFICES ASSUME NEW g \in Handlers, InDatabase(g)'
               PROVE  /\ peer'[hold'[g]].uuid = req'[g].uuid
                      /\ peer'[hold'[g]].pk = req'[g].pk /\ peer'[hold'[g]].ip = req'[g].ip
    BY Zenon DEF StagedAsked
  <2>1. CASE g = h
    BY <1>3, <1>4, <1>5, <2>1, Zenon DEF OthersKeep
  <2>2. CASE g # h
    <3>1. /\ InDatabase(g) /\ req'[g] = req[g] /\ hold'[g] = hold[g]
          /\ peer'[hold[g]] = peer[hold[g]]
      BY <1>8, <2>2, Zenon
    <3>2. /\ peer[hold[g]].uuid = req[g].uuid
          /\ peer[hold[g]].pk = req[g].pk /\ peer[hold[g]].ip = req[g].ip
      BY <3>1, Zenon DEF StoreInv, StagedAsked
    <3> QED
      BY <3>1, <3>2, Zenon
  <2> QED
    BY <2>1, <2>2, Zenon
<1>12. CommitStored' /\ FillCurrent'
  BY <1>5, Zenon DEF OthersKeep, StoreInv, CommitStored, FillCurrent, Caching, RoomForAll
<1>13. KeyAtAddress'
  <2> SUFFICES ASSUME NEW g \in Handlers, pc'[g] = "persist", peer'[hold'[g]].guid,
                      AllowUnmanaged
               PROVE  roll'[g].ip = req'[g].ip \/ roll'[g].pk = req'[g].pk
    BY Zenon DEF KeyAtAddress
  <2>1. CASE g = h
    <3>1. p.guid
      BY <1>3, <1>4, <1>5, <2>1, Zenon DEF OthersKeep
    <3>2. db[i0] # None /\ p.uuid = db[i0].uuid
      BY <1>7, <3>1, Zenon DEF PeerSays, Says
    <3>3. p.uuid # None
      <4>1. db[i0] \in Row
        BY <1>1, <3>2, Zenon DEF SafeState, TypeOK, Opt
      <4>2. db[i0].uuid \in Uuids
        BY <4>1, Zenon DEF Row
      <4> QED
        BY <3>2, <4>2, NoneAssumption, Zenon
    <3>4. p.ip = req[h].ip \/ p.pk = req[h].pk
      BY <3>3, Zenon DEF StagePersist, UuidMismatch, Me, p
    <3> QED
      BY <1>5, <1>6, <2>1, <3>4, Zenon
  <2>2. CASE g # h
    <3>1. InDatabase(g)'
      BY Zenon DEF InDatabase
    <3>2. /\ pc[g] = "persist" /\ req'[g] = req[g] /\ hold'[g] = hold[g]
          /\ roll'[g] = roll[g] /\ peer'[hold[g]] = peer[hold[g]]
      BY <1>8, <2>2, <3>1, Zenon
    <3> QED
      BY <3>2, Zenon DEF StoreInv, KeyAtAddress
  <2> QED
    BY <2>1, <2>2, Zenon
<1> QED
  BY <1>9, <1>10, <1>11, <1>12, <1>13, Zenon DEF StoreInv

LEMMA RequestedRow ==
  ASSUME SafeState, NEW h \in Handlers, InDatabase(h)
  PROVE  RowOf(req[h]) \in Row /\ RowOf(req[h]) # None
<1>1. req[h].uuid \in Uuids /\ req[h].pk \in Pks /\ req[h].ip \in Ips
  BY Zenon DEF InDatabase, Storing, SafeState, ControlInv, Control
<1>2. RowOf(req[h]) \in Row
  BY <1>1, Zenon DEF RowOf, Row
<1> QED
  BY <1>2, NoneIsNoRow, Zenon

\* What insert_peer and update_identity leave in the table.
LEMMA PersistWrites ==
  ASSUME SafeState, StoreInv, NEW h \in Handlers, Persist(h)
  PROVE  /\ pc[h] = "persist" /\ UNCHANGED <<map, peer, req, hold, fill, roll>>
         /\ \A g \in Handlers : g # h => pc'[g] = pc[g]
         /\ \/ UNCHANGED db /\ pc'[h] = "rollback"
            \/ /\ peer[hold[h]].guid \/ db[req[h].id] = None
               /\ db' = [db EXCEPT ![req[h].id] = RowOf(req[h])] /\ pc'[h] = "commit"
<1>1. pc[h] = "persist" /\ UNCHANGED <<map, peer, req, hold, fill, roll>>
  BY Zenon DEF Persist
<1>2. \A g \in Handlers : g # h => pc'[g] = pc[g]
  BY Zenon DEF Persist, Goto, SafeState, TypeOK, Evictors
<1>3. peer[hold[h]].guid => db[req[h].id] # None
  BY <1>1, Zenon DEF StoreInv, SavedAgree, SavedSays, Says
<1>4. Persisted(h) = RowOf(req[h])
  BY <1>3, Zenon DEF Persisted, RowOf, Me
<1> QED
  BY <1>1, <1>2, <1>4, Zenon DEF Persist, Goto, Me, SafeState, TypeOK, Evictors

\* Only the writer of an id has it in the database, and no handler that still
\* has to insert an entry loaded this row: the entry is in the map.
LEMMA PersistStore ==
  ASSUME SafeState, StoreInv, NEW h \in Handlers, Persist(h)
  PROVE  StoreInv'
<1> DEFINE i0 == req[h].id
<1>1. /\ pc[h] = "persist" /\ UNCHANGED <<map, peer, req, hold, fill, roll>>
      /\ \A g \in Handlers : g # h => pc'[g] = pc[g]
  BY PersistWrites, Zenon
<1>2. InDatabase(h) /\ hold[h] \in Objs /\ map[i0] = hold[h] /\ i0 \in Ids /\ map[i0] # None
  BY <1>1, HandlerFacts, NoneAssumption, Zenon DEF InDatabase
<1>3. peer[map[i0]].busy
  BY <1>2, Zenon DEF SafeState, WriterInv
<1>4. \A g \in Handlers : g # h /\ InDatabase(g) => req[g].id # i0 /\ req[g].id \in Ids
  BY <1>2, HandlerFacts, Zenon DEF SafeState, WriterInv
<1>5. \A i \in Ids : i # i0 => db'[i] = db[i]
  BY <1>2, PersistWrites, Zenon DEF SafeState, TypeOK
<1> HIDE DEF i0
<1>6. CachedAgree'
  <2> SUFFICES ASSUME NEW i \in Ids, map[i] # None, ~peer[map[i]].busy
               PROVE  PeerSays(peer[map[i]], db'[i])
    BY <1>1, Zenon DEF CachedAgree, PeerSays, Says
  <2>1. i # i0
    BY <1>3, Zenon
  <2> QED
    BY <1>5, <2>1, Zenon DEF StoreInv, CachedAgree
<1>7. SavedAgree'
  <2> SUFFICES ASSUME NEW g \in Handlers, pc'[g] \in {"persist", "rollback"}
               PROVE  SavedSays(peer[hold[g]], roll[g], db'[req[g].id])
    BY <1>1, Zenon DEF SavedAgree, SavedSays, Says
  <2>1. CASE g = h
    <3>1. UNCHANGED db
      BY <2>1, PersistWrites, Zenon
    <3> QED
      BY <1>1, <2>1, <3>1, Zenon DEF StoreInv, SavedAgree
  <2>2. CASE g # h
    <3>1. pc[g] \in {"persist", "rollback"} /\ InDatabase(g)
      BY <1>1, <2>2, Zenon DEF InDatabase
    <3>2. db'[req[g].id] = db[req[g].id]
      BY <1>4, <1>5, <2>2, <3>1, Zenon
    <3> QED
      BY <3>1, <3>2, Zenon DEF StoreInv, SavedAgree
  <2> QED
    BY <2>1, <2>2, Zenon
<1>8. StagedAsked' /\ KeyAtAddress'
  <2>1. \A g \in Handlers : InDatabase(g)' => InDatabase(g)
    BY <1>1, <1>2, Zenon DEF InDatabase
  <2>2. \A g \in Handlers : pc'[g] = "persist" => pc[g] = "persist"
    BY <1>1, Zenon
  <2> QED
    BY <1>1, <2>1, <2>2, Zenon DEF StoreInv, StagedAsked, KeyAtAddress
<1>9. CommitStored'
  <2> SUFFICES ASSUME NEW g \in Handlers, pc'[g] = "commit"
               PROVE  db'[req[g].id] = RowOf(req[g])
    BY <1>1, Zenon DEF CommitStored, RowOf
  <2>1. CASE g = h
    <3>1. db' = [db EXCEPT ![i0] = RowOf(req[h])]
      BY <2>1, PersistWrites, Zenon DEF i0
    <3> QED
      BY <1>2, <2>1, <3>1, Zenon DEF SafeState, TypeOK, i0
  <2>2. CASE g # h
    <3>1. pc[g] = "commit" /\ InDatabase(g)
      BY <1>1, <2>2, Zenon DEF InDatabase
    <3>2. db'[req[g].id] = db[req[g].id]
      BY <1>4, <1>5, <2>2, <3>1, Zenon
    <3> QED
      BY <3>1, <3>2, Zenon DEF StoreInv, CommitStored
  <2> QED
    BY <2>1, <2>2, Zenon
<1>10. FillCurrent'
  <2> SUFFICES ASSUME NEW g \in Handlers, pc'[g] \in Caching, map[req[g].id] = None
               PROVE  fill[g] = db'[req[g].id] \/ (fill[g] = None /\ ~RoomForAll)
    BY <1>1, Zenon DEF FillCurrent, RoomForAll
  <2>1. pc'[h] \notin Caching
    BY PersistWrites, Zenon DEF Caching
  <2>2. g # h /\ pc[g] \in Caching
    BY <1>1, <2>1, Zenon
  <2>3. req[g].id \in Ids /\ req[g].id # i0
    BY <1>2, <2>2, HandlerFacts, Zenon DEF Caching
  <2> QED
    BY <1>5, <2>2, <2>3, Zenon DEF StoreInv, FillCurrent
<1> QED
  BY <1>6, <1>7, <1>8, <1>9, <1>10, Zenon DEF StoreInv

\* finish_peer_registration: the Peer says what was stored, or what it said
\* before it was staged.
LEMMA FinishStore ==
  ASSUME SafeState, StoreInv, NEW h \in Handlers, FinishCommit(h) \/ FinishRollback(h)
  PROVE  StoreInv'
<1> DEFINE p == peer[hold[h]]
           i0 == req[h].id
<1>1. /\ InDatabase(h) /\ hold[h] \in Objs /\ map[i0] = hold[h] /\ i0 \in Ids
      /\ p \in Peer /\ roll[h] \in Rollback
  BY HandlerFacts, Zenon DEF FinishCommit, FinishRollback, InDatabase, Storing, SafeState, ControlInv,
                      Control, TypeOK
<1>2. UNCHANGED <<map, db>> /\ pc'[h] \in {"ok", "idle"}
  BY Zenon DEF FinishCommit, FinishRollback, Return, Goto, SafeState, TypeOK, Evictors
<1>3. \A g \in Handlers : g # h => /\ pc'[g] = pc[g] /\ req'[g] = req[g] /\ hold'[g] = hold[g]
                                   /\ roll'[g] = roll[g] /\ fill'[g] = fill[g]
  BY Zenon DEF FinishCommit, FinishRollback, Return, Goto, SafeState, TypeOK, Evictors
<1>4. \A o \in Objs : o # hold[h] => peer'[o] = peer[o]
  BY Zenon DEF FinishCommit, FinishRollback, SafeState, TypeOK
<1>5. PeerSays(peer'[hold[h]], db[i0])
  <2>1. CASE FinishCommit(h)
    <3>1. peer'[hold[h]] = Committed(p)
      BY <1>1, <2>1, Zenon DEF FinishCommit, SafeState, TypeOK
    <3>2. /\ Committed(p).guid
          /\ Committed(p).uuid = p.uuid /\ Committed(p).pk = p.pk /\ Committed(p).ip = p.ip
      BY <1>1, CommittedPeer, Zenon
    <3>3. db[i0] = RowOf(req[h]) /\ db[i0] # None
      BY <1>1, <2>1, RequestedRow, Zenon DEF FinishCommit, StoreInv, CommitStored
    <3>4. p.uuid = req[h].uuid /\ p.pk = req[h].pk /\ p.ip = req[h].ip
      BY <1>1, Zenon DEF StoreInv, StagedAsked
    <3>5. p.uuid = db[i0].uuid /\ p.pk = db[i0].pk /\ p.ip = db[i0].ip
      BY <3>3, <3>4 DEF RowOf
    <3> QED
      BY <3>1, <3>2, <3>3, <3>5, Zenon DEF PeerSays, Says
  <2>2. CASE FinishRollback(h)
    <3>1. PICK a \in {FALSE, roll[h].active}, v \in {FALSE, roll[h].verified} :
            peer' = [peer EXCEPT ![hold[h]] = RolledBack(@, roll[h], a, v)]
      BY <2>2, Zenon DEF FinishRollback
    <3>2. peer'[hold[h]] = RolledBack(p, roll[h], a, v)
      BY <1>1, <3>1, Zenon DEF SafeState, TypeOK
    <3>3. a \in BOOLEAN /\ v \in BOOLEAN
      BY <1>1, SavedTimes, Zenon
    <3>4. /\ peer'[hold[h]].guid = p.guid
          /\ peer'[hold[h]].uuid = roll[h].uuid /\ peer'[hold[h]].pk = roll[h].pk
          /\ peer'[hold[h]].ip = roll[h].ip
      <4> HIDE DEF p
      <4>1. p \in Peer /\ roll[h] \in Rollback
        BY <1>1, Zenon
      <4>2. /\ RolledBack(p, roll[h], a, v).guid = p.guid
            /\ RolledBack(p, roll[h], a, v).uuid = roll[h].uuid
            /\ RolledBack(p, roll[h], a, v).pk = roll[h].pk
            /\ RolledBack(p, roll[h], a, v).ip = roll[h].ip
        BY <3>3, <4>1, RolledBackPeer
      <4> QED
        BY <3>2, <4>2, Zenon
    <3>5. SavedSays(p, roll[h], db[i0])
      BY <2>2, Zenon DEF FinishRollback, StoreInv, SavedAgree
    <3> HIDE DEF p
    <3> QED
      BY <3>4, <3>5, Zenon DEF PeerSays, SavedSays, Says
  <2> QED
    BY <2>1, <2>2, Zenon
<1>6. CachedAgree'
  <2> SUFFICES ASSUME NEW i \in Ids, map[i] # None, ~peer'[map[i]].busy
               PROVE  PeerSays(peer'[map[i]], db[i])
    BY <1>2, Zenon DEF CachedAgree, PeerSays, Says
  <2>1. CASE map[i] = hold[h]
    <3>1. i = i0
      BY <1>1, <2>1, Zenon DEF SafeState, RefInv
    <3> QED
      BY <1>5, <2>1, <3>1, Zenon
  <2>2. CASE map[i] # hold[h]
    <3>1. map[i] \in Objs
      BY Zenon DEF SafeState, TypeOK, Opt
    <3>2. peer'[map[i]] = peer[map[i]]
      BY <1>4, <2>2, <3>1, Zenon
    <3> QED
      BY <3>2, Zenon DEF StoreInv, CachedAgree
  <2> QED
    BY <2>1, <2>2, Zenon
<1>7. StoringKeep
  <2> SUFFICES ASSUME NEW g \in Handlers, InDatabase(g)'
               PROVE  /\ pc'[g] = pc[g] /\ req'[g] = req[g] /\ hold'[g] = hold[g]
                      /\ roll'[g] = roll[g] /\ peer'[hold[g]] = peer[hold[g]]
    BY Zenon DEF StoringKeep, SameIdentity
  <2>1. g # h
    BY <1>2, Zenon DEF InDatabase
  <2>2. InDatabase(g)
    BY <1>3, <2>1, Zenon DEF InDatabase
  <2>3. hold[g] \in Objs /\ hold[g] # hold[h]
    BY <1>1, <2>1, <2>2, HandlerFacts, Zenon DEF SafeState, WriterInv
  <2> QED
    BY <1>3, <1>4, <2>1, <2>3, Zenon
<1>8. FillKeep
  BY <1>2, <1>3, Zenon DEF FillKeep, Caching
<1> QED
  BY <1>2, <1>6, <1>7, <1>8, StoringFrame, FillFrame, Zenon DEF StoreInv

LEMMA NextStore ==
  ASSUME SafeState, FreshInv, StoreInv, [Next]_vars
  PROVE  StoreInv'
<1>1. ASSUME NEW h \in Handlers, CachePeer(h) PROVE StoreInv'
  <2>1. /\ UNCHANGED <<db, req, roll>> /\ pc[h] \in {"cache", "insert"}
        /\ UNCHANGED <<map, peer>> \/ InsertNew(h)
    BY <1>1, Zenon DEF CachePeer, UseExisting
  <2>2. \/ pc'[h] = "use"
        \/ pc'[h] = "remove" /\ UNCHANGED <<map, peer>> /\ fill'[h] = fill[h]
    BY <1>1, Zenon DEF CachePeer, UseExisting, InsertNew, Goto, SafeState, TypeOK, Evictors
  <2>3. \A g \in Handlers : g # h => pc'[g] = pc[g] /\ hold'[g] = hold[g] /\ fill'[g] = fill[g]
    BY <1>1, Zenon DEF CachePeer, UseExisting, InsertNew, Goto, SafeState, TypeOK, Evictors
  <2>4. /\ pc'[h] \notin Storing
        /\ pc'[h] \in Caching => UNCHANGED <<map, peer>> /\ fill'[h] = fill[h]
    BY <2>2, Zenon DEF Storing, Caching
  <2> QED
    BY <2>1, <2>3, <2>4, CacheStore, Zenon
<1>2. ASSUME NEW h \in Handlers, CacheAfterEvict(h) PROVE StoreInv'
  <2>1. /\ UNCHANGED db /\ pc[h] \in {"cache", "insert"}
        /\ UNCHANGED <<map, peer>> \/ InsertNew(h)
    BY <1>2, Zenon DEF CacheAfterEvict, UseExisting
  <2>2. \/ pc'[h] \in {"use", "idle"}
        \/ /\ pc'[h] = "cache" /\ UNCHANGED <<map, peer>> /\ req'[h] = req[h]
           /\ fill'[h] = None /\ MapFull(h)
    BY <1>2, Zenon DEF CacheAfterEvict, UseExisting, InsertNew, Return, Goto, SafeState, TypeOK, Evictors
  <2>3. \A g \in Handlers : g # h => /\ pc'[g] = pc[g] /\ req'[g] = req[g]
                                     /\ hold'[g] = hold[g] /\ roll'[g] = roll[g]
                                     /\ fill'[g] = fill[g]
    BY <1>2, Zenon DEF CacheAfterEvict, UseExisting, InsertNew, Return, Goto, SafeState, TypeOK, Evictors
  <2>4. /\ pc'[h] \notin Storing
        /\ pc'[h] \in Caching => /\ UNCHANGED <<map, peer>> /\ req'[h] = req[h]
                                 /\ fill'[h] = None /\ MapFull(h)
    BY <2>2, Zenon DEF Storing, Caching
  <2> QED
    BY <2>1, <2>3, <2>4, CacheStore, Zenon
<1>3. ASSUME Crash PROVE StoreInv'
  <2>1. (\A i \in Ids : map'[i] = None) /\ (\A h \in Handlers : pc'[h] = "idle")
    BY <1>3, Zenon DEF Crash, Evictors
  <2> QED
    BY <2>1, Zenon DEF StoreInv, CachedAgree, SavedAgree, StagedAsked, CommitStored, KeyAtAddress,
                FillCurrent, InDatabase, Caching
<1>4. Quiet \/ Loud
  BY QuietOrLoud, Zenon DEF SafeState
<1> QED
  BY <1>1, <1>2, <1>3, <1>4, QuietStore, GetPeerStore, EvictStore, StageStore, PersistStore,
     FinishStore, Zenon DEF Loud, Evictors

LEMMA InitStore == Init => StoreInv
  BY Zenon DEF Init, StoreInv, CachedAgree, SavedAgree, StagedAsked, CommitStored, KeyAtAddress,
         FillCurrent, InDatabase, Caching, Evictors

\* The invariant under which the cache can be relied on.
TableInv == CacheInv /\ StoreInv

LEMMA NextTable ==
  ASSUME StallBounded, TableInv, [Next]_vars
  PROVE  TableInv'
  BY NextCache, NextStore, Zenon DEF TableInv, CacheInv

\* RegisterPk is answered OK after stage_peer_registration found nothing to
\* change or finish_peer_registration committed.
LEMMA AckSteps ==
  ASSUME TypeOK, [Next]_vars, NEW h \in Handlers,
         pc[h] \in {"use", "commit", "rollback"}, pc'[h] \in {"refresh", "ok"}
  PROVE  StageUnchanged(h) \/ FinishCommit(h)
<1> USE CleanerAssumption
<1> USE DEF TypeOK, Goto, Return, Evictors
<1>1. ASSUME NEW g \in Handlers, g # h, Recv(g) \/ HandlerStep(g) PROVE pc'[h] = pc[h]
  <2>1. CASE Recv(g)
    BY <1>1, <2>1, Zenon DEF Recv, RecvRegisterPk, RecvRegisterPeer, RecvGet
  <2>2. CASE VerifyDeployment(g) \/ GetHit(g) \/ GetMiss(g) \/ GetPeer(g)
    BY <1>1, <2>2, Zenon DEF VerifyDeployment, GetHit, GetMiss, GetPeer
  <2>3. CASE CachePeer(g) \/ Evict(g) \/ EvictReturn(g) \/ CacheAfterEvict(g)
    BY <1>1, <2>3, Zenon DEF CachePeer, Evict, EvictReturn, CacheAfterEvict, UseExisting, InsertNew
  <2>4. CASE StageRefused(g) \/ StageUnchanged(g) \/ StagePersist(g) \/ Persist(g)
    BY <1>1, <2>4, Zenon DEF StageRefused, StageUnchanged, StagePersist, Persist
  <2>5. CASE FinishCommit(g) \/ FinishRollback(g) \/ RefreshVerified(g) \/ RespondOk(g)
             \/ Heartbeat(g) \/ UseGet(g)
    BY <1>1, <2>5, Zenon DEF FinishCommit, FinishRollback, RefreshVerified, RespondOk, Heartbeat, UseGet
  <2> QED
    BY <1>1, <2>1, <2>2, <2>3, <2>4, <2>5, Zenon DEF HandlerStep
<1>2. ASSUME Recv(h) \/ HandlerStep(h) PROVE StageUnchanged(h) \/ FinishCommit(h)
  <2>1. ~Recv(h)
    BY Zenon DEF Recv, RecvRegisterPk, RecvRegisterPeer, RecvGet
  <2>2. ~VerifyDeployment(h) /\ ~GetHit(h) /\ ~GetMiss(h) /\ ~GetPeer(h)
    BY Zenon DEF VerifyDeployment, GetHit, GetMiss, GetPeer
  <2>3. ~CachePeer(h) /\ ~Evict(h) /\ ~EvictReturn(h) /\ ~CacheAfterEvict(h)
    BY Zenon DEF CachePeer, Evict, EvictReturn, CacheAfterEvict
  <2>4. ~StageRefused(h) /\ ~StagePersist(h) /\ ~Persist(h) /\ ~FinishRollback(h)
    BY Zenon DEF StageRefused, StagePersist, Persist, FinishRollback
  <2>5. ~RefreshVerified(h) /\ ~RespondOk(h) /\ ~Heartbeat(h) /\ ~UseGet(h)
    BY Zenon DEF RefreshVerified, RespondOk, Heartbeat, UseGet
  <2> QED
    BY <1>2, <2>1, <2>2, <2>3, <2>4, <2>5, Zenon DEF HandlerStep
<1>3. ~CleanupTick /\ ~Evict(Cleaner) /\ ~EvictReturn(Cleaner)
  BY Zenon DEF CleanupTick, Evict, EvictReturn
<1>4. \A i \in Ids : ~GetInMemory(i) /\ ~TimePasses(i)
  BY Zenon DEF GetInMemory, TimePasses, GrowIdle, RegistrationLapses, VerificationLapses,
         RegPkWindowLapses
<1>5. ~Crash /\ ~UNCHANGED vars
  BY Zenon DEF Crash, vars
<1>6. \A i \in Ids, ident \in Identity : ~ApiApproves(i, ident)
  BY Zenon DEF ApiApproves
<1> QED
  BY <1>1, <1>2, <1>3, <1>4, <1>5, <1>6, Zenon DEF Next

\* RegisterPk is answered OK only for what the table holds at that moment, so
\* an answered registration survives a crash (register_pk_common), for any
\* capacity of the cache, provided that no handler stalls for 60 s.
THEOREM AnsweredIsStored == ASSUME StallBounded PROVE Spec => AckMeansStored
<1>1. TableInv /\ [Next]_vars =>
        [\A h \in Handlers :
           /\ pc[h] \in {"use", "commit", "rollback"}
           /\ pc'[h] \in {"refresh", "ok"}
           => db[req[h].id] = [uuid |-> req[h].uuid, pk |-> req[h].pk, ip |-> req[h].ip]]_vars
  <2> SUFFICES ASSUME TableInv, [Next]_vars, NEW h \in Handlers,
                      pc[h] \in {"use", "commit", "rollback"}, pc'[h] \in {"refresh", "ok"}
               PROVE  db[req[h].id] = RowOf(req[h])
    BY Zenon DEF RowOf
  <2>1. CASE FinishCommit(h)
    BY <2>1, Zenon DEF FinishCommit, TableInv, StoreInv, CommitStored
  <2>2. CASE StageUnchanged(h)
    <3> DEFINE p == peer[hold[h]]
               row == db[req[h].id]
    <3>1. /\ hold[h] \in Objs /\ map[req[h].id] = hold[h] /\ req[h].id \in Ids
          /\ req[h].uuid \in Uuids
      BY <2>2, HandlerFacts, Zenon DEF StageUnchanged, Holding, TableInv, CacheInv, SafeState, ControlInv,
                                Control
    <3>2. ~p.busy /\ p.uuid = req[h].uuid /\ p.pk = req[h].pk /\ p.ip = req[h].ip
      BY <2>2, Zenon DEF StageUnchanged, Busy, Changed, Me
    <3>3. PeerSays(p, row)
      BY <3>1, <3>2, NoneAssumption, Zenon DEF TableInv, StoreInv, CachedAgree
    <3>4. p.uuid # None
      BY <3>1, <3>2, NoneAssumption, Zenon
    <3>5. row # None /\ p.uuid = row.uuid /\ p.pk = row.pk /\ p.ip = row.ip
      BY <3>3, <3>4, Zenon DEF PeerSays, Says
    <3>6. row \in Row
      BY <3>1, <3>5, Zenon DEF TableInv, CacheInv, SafeState, TypeOK, Opt
    <3> HIDE DEF p, row
    <3>7. row = RowOf(req[h])
      BY <3>2, <3>5, <3>6, Zenon DEF Row, RowOf
    <3> QED
      BY <3>7, Zenon DEF row
  <2> QED
    BY <2>1, <2>2, AckSteps, Zenon DEF TableInv, CacheInv, SafeState
<1>2. TableInv /\ [Next]_vars => TableInv'
  BY NextTable, Zenon
<1>3. Init => TableInv
  BY InitCache, InitStore, Zenon DEF TableInv
<1> QED
  BY <1>1, <1>2, <1>3, PTL DEF Spec, AckMeansStored

\* A step that changes a row is Persist.
LEMMA RowsWritten ==
  ASSUME TypeOK, [Next]_vars, NEW i \in Ids, db'[i] # db[i]
  PROVE  \E h \in Handlers : Persist(h) /\ i = req[h].id
<1>1. ASSUME NEW h \in Handlers, Persist(h) PROVE i = req[h].id
  BY <1>1, Zenon DEF Persist, TypeOK
<1>2. \A h \in Handlers : Recv(h) => UNCHANGED db
  BY Zenon DEF Recv, RecvRegisterPk, RecvRegisterPeer, RecvGet
<1>3. \A h \in Handlers : HandlerStep(h) => UNCHANGED db \/ Persist(h)
  BY Zenon DEF HandlerStep, VerifyDeployment, GetHit, GetMiss, GetPeer, CachePeer, Evict, EvictReturn,
         CacheAfterEvict, StageRefused, StageUnchanged, StagePersist, FinishCommit,
         FinishRollback, RefreshVerified, RespondOk, Heartbeat, UseGet
<1>4. CleanupTick \/ Evict(Cleaner) \/ EvictReturn(Cleaner) \/ Crash \/ UNCHANGED vars
        => UNCHANGED db
  BY Zenon DEF CleanupTick, Evict, EvictReturn, Crash, vars
<1>5. \A j \in Ids : GetInMemory(j) \/ TimePasses(j) => UNCHANGED db
  BY Zenon DEF GetInMemory, TimePasses, GrowIdle, RegistrationLapses, VerificationLapses,
         RegPkWindowLapses
<1>6. \A j \in Ids, ident \in Identity : ApiApproves(j, ident) => UNCHANGED db
  BY Zenon DEF ApiApproves
<1> QED
  BY <1>1, <1>2, <1>3, <1>4, <1>5, <1>6, Zenon DEF Next

\* Without a management API the stored key of an id changes only in a
\* registration from the stored address: the cached address that
\* stage_peer_registration compares is the stored one when the row is written.
THEOREM KeysChangeAtTheirAddress == ASSUME StallBounded PROVE Spec => KeyChangesAtRecordedIp
<1>1. TableInv /\ [Next]_vars =>
        [\A i \in Ids : AllowUnmanaged /\ db[i] # None =>
           db'[i].pk = db[i].pk \/ db'[i].ip = db[i].ip]_vars
  <2> SUFFICES ASSUME TableInv, [Next]_vars, NEW i \in Ids, AllowUnmanaged, db[i] # None,
                      db'[i] # db[i]
               PROVE  db'[i].pk = db[i].pk \/ db'[i].ip = db[i].ip
    BY Zenon
  <2>1. TypeOK /\ SafeState /\ StoreInv
    BY Zenon DEF TableInv, CacheInv, SafeState
  <2>2. PICK h \in Handlers : Persist(h) /\ i = req[h].id
    BY <2>1, RowsWritten, Zenon
  <2>3. pc[h] = "persist" /\ peer[hold[h]].guid /\ db' = [db EXCEPT ![i] = RowOf(req[h])]
    BY <2>1, <2>2, PersistWrites, Zenon
  <2>4. db'[i].pk = req[h].pk /\ db'[i].ip = req[h].ip
    BY <2>1, <2>3, Zenon DEF TypeOK, RowOf
  <2>5. roll[h].pk = db[i].pk /\ roll[h].ip = db[i].ip
    BY <2>1, <2>2, <2>3, Zenon DEF StoreInv, SavedAgree, SavedSays, Says
  <2>6. roll[h].ip = req[h].ip \/ roll[h].pk = req[h].pk
    BY <2>1, <2>3, Zenon DEF StoreInv, KeyAtAddress
  <2> QED
    BY <2>4, <2>5, <2>6, Zenon
<1>2. TableInv /\ [Next]_vars => TableInv'
  BY NextTable, Zenon
<1>3. Init => TableInv
  BY InitCache, InitStore, Zenon DEF TableInv
<1> QED
  BY <1>1, <1>2, <1>3, PTL DEF Spec, KeyChangesAtRecordedIp

LEMMA SaysMatches ==
  ASSUME RoomForAll, NEW o, peer[o] \in Peer, NEW row, PeerSays(peer[o], row)
  PROVE  Matches(o, row)
<1>1. peer[o].guid \in BOOLEAN
  BY Zenon DEF Peer
<1>2. CASE peer[o].guid
  BY <1>2, Zenon DEF PeerSays, Says, Matches
<1>3. CASE ~peer[o].guid
  BY <1>1, <1>3, Zenon DEF PeerSays, Says, Matches
<1> QED
  BY <1>2, <1>3, Zenon

\* Between registrations the cache says what the table says, through commits,
\* rollbacks, loads, evictions and crashes, when no handler stalls and the
\* cache has a place for every id (max_cached_peers).
THEOREM CacheFollowsTable == ASSUME StallBounded, RoomForAll PROVE Spec => []CacheMatchesDb
<1>1. TableInv => CacheMatchesDb
  <2> SUFFICES ASSUME TableInv, NEW i \in Ids, map[i] # None, ~peer[map[i]].busy
               PROVE  Matches(map[i], db[i])
    BY Zenon DEF CacheMatchesDb
  <2>1. map[i] \in Objs /\ peer[map[i]] \in Peer
    BY Zenon DEF TableInv, CacheInv, SafeState, TypeOK, Opt
  <2>2. PeerSays(peer[map[i]], db[i])
    BY Zenon DEF TableInv, StoreInv, CachedAgree
  <2> QED
    BY <2>1, <2>2, SaysMatches, Zenon
<1>2. TableInv /\ [Next]_vars => TableInv'
  BY NextTable, Zenon
<1>3. Init => TableInv
  BY InitCache, InitStore, Zenon DEF TableInv
<1> QED
  BY <1>1, <1>2, <1>3, PTL DEF Spec

\* An id with a row is never taken for an unregistered one while the cache has
\* a place for every id: stage_peer_registration's test of an empty uuid is
\* wrong only at capacity.
THEOREM EmptyOnlyAtCapacity ==
  ASSUME StallBounded, RoomForAll PROVE Spec => []EmptyMeansUnregistered
<1>1. TableInv => EmptyMeansUnregistered
  <2> SUFFICES ASSUME TableInv, NEW i \in Ids, map[i] # None, peer[map[i]].uuid = None
               PROVE  db[i] = None
    BY Zenon DEF EmptyMeansUnregistered
  <2>1. map[i] \in Objs /\ db[i] \in Opt(Row) /\ SafeState
    BY Zenon DEF TableInv, CacheInv, SafeState, TypeOK, Opt
  <2>2. ASSUME peer[map[i]].busy PROVE FALSE
    <3>1. PICK h \in Handlers : InDatabase(h) /\ hold[h] = map[i]
      BY <2>1, <2>2, Zenon DEF TableInv, CacheInv, BusyHeld
    <3>2. req[h].uuid = None
      BY <3>1, Zenon DEF TableInv, StoreInv, StagedAsked
    <3>3. req[h].uuid \in Uuids
      BY <2>1, <3>1, Zenon DEF InDatabase, Storing, SafeState, ControlInv, Control
    <3> QED
      BY <3>2, <3>3, NoneAssumption, Zenon
  <2>3. PeerSays(peer[map[i]], db[i])
    BY <2>2, Zenon DEF TableInv, StoreInv, CachedAgree
  <2>4. db[i] # None => db[i].uuid # None
    BY <2>1, NoneAssumption, Zenon DEF Opt, Row
  <2> QED
    BY <2>3, <2>4, Zenon DEF PeerSays, Says
<1>2. TableInv /\ [Next]_vars => TableInv'
  BY NextTable, Zenon
<1>3. Init => TableInv
  BY InitCache, InitStore, Zenon DEF TableInv
<1> QED
  BY <1>1, <1>2, <1>3, PTL DEF Spec
=============================================================================
