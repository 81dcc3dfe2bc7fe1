------------------------- MODULE PeerRegistryProofs -------------------------
(***************************************************************************)
(* Proofs about PeerRegistry, for any number of ids, handlers and cached   *)
(* peers: the updates of a Peer, the types, what a handler carries at each *)
(* of its program points, one live copy of a Peer (the references that     *)
(* handlers hold), one writer of a row (persistence_in_progress), and the  *)
(* steps that leave claimed identities alone.                              *)
(***************************************************************************)
EXTENDS PeerRegistry, TLAPS

-----------------------------------------------------------------------------
(* The updates of a Peer: what each of them leaves alone.                  *)

SameIdentity(p, q) ==
  q.guid = p.guid /\ q.uuid = p.uuid /\ q.pk = p.pk /\ q.ip = p.ip /\ q.busy = p.busy

\* DefaultPeer and PeerOf: a Peer built from nothing or from a stored row.
LEMMA NewPeers ==
  /\ DefaultPeer \in Peer
  /\ ~DefaultPeer.guid /\ ~DefaultPeer.busy /\ DefaultPeer.uuid = None
  /\ DefaultPeer.idle = 0
  BY BoundAssumption DEF DefaultPeer, Peer, Opt, Idle

LEMMA LoadedPeers ==
  ASSUME NEW row \in Row
  PROVE  /\ PeerOf(row) \in Peer
         /\ PeerOf(row).guid /\ ~PeerOf(row).busy /\ PeerOf(row).idle = 0
         /\ PeerOf(row).uuid = row.uuid /\ PeerOf(row).pk = row.pk /\ PeerOf(row).ip = row.ip
<1>1. PeerOf(row) = [DefaultPeer EXCEPT !.guid = TRUE, !.uuid = row.uuid, !.pk = row.pk,
                                        !.ip = row.ip]
  BY NoneIsNoRow, Zenon DEF PeerOf
<1>2. QED
  BY <1>1, NewPeers, Zenon DEF Peer, Row, Opt

LEMMA PeerOfNone == PeerOf(None) = DefaultPeer
  BY Zenon DEF PeerOf

\* The updates that only concern times and counters.
LEMMA MinorUpdates ==
  ASSUME NEW p \in Peer
  PROVE  /\ Accessed(p) \in Peer /\ SameIdentity(p, Accessed(p)) /\ Accessed(p).idle = 0
         /\ Lapsed(p) \in Peer /\ SameIdentity(p, Lapsed(p)) /\ Lapsed(p).idle = p.idle
         /\ Unverified(p) \in Peer /\ SameIdentity(p, Unverified(p)) /\ Unverified(p).idle = p.idle
         /\ Uncounted(p) \in Peer /\ SameIdentity(p, Uncounted(p)) /\ Uncounted(p).idle = p.idle
         /\ Verified(p, TRUE) \in Peer /\ SameIdentity(p, Verified(p, TRUE))
         /\ Verified(p, TRUE).idle = p.idle
<1>1. Accessed(p) \in Peer /\ SameIdentity(p, Accessed(p)) /\ Accessed(p).idle = 0
  BY DEF Accessed, SameIdentity, Peer, Idle
<1>2. Lapsed(p) \in Peer /\ SameIdentity(p, Lapsed(p)) /\ Lapsed(p).idle = p.idle
  BY Zenon DEF Lapsed, SameIdentity, Peer
<1>3. Unverified(p) \in Peer /\ SameIdentity(p, Unverified(p)) /\ Unverified(p).idle = p.idle
  BY Zenon DEF Unverified, Verified, SameIdentity, Peer
<1>4. Uncounted(p) \in Peer /\ SameIdentity(p, Uncounted(p)) /\ Uncounted(p).idle = p.idle
  BY BoundAssumption DEF Uncounted, SameIdentity, Peer
<1>5. /\ Verified(p, TRUE) \in Peer /\ SameIdentity(p, Verified(p, TRUE))
      /\ Verified(p, TRUE).idle = p.idle
  BY Zenon DEF Verified, SameIdentity, Peer
<1> QED
  BY <1>1, <1>2, <1>3, <1>4, <1>5, Zenon

LEMMA AgedPeer ==
  ASSUME NEW p \in Peer, p.idle < 2
  PROVE  Aged(p) \in Peer /\ SameIdentity(p, Aged(p))
  BY DEF Aged, SameIdentity, Peer, Idle

LEMMA HeardPeer ==
  ASSUME NEW p \in Peer, NEW a \in Ips
  PROVE  /\ HeardFrom(p, a) \in Peer /\ SameIdentity(p, HeardFrom(p, a))
         /\ HeardFrom(p, a).idle = p.idle
  BY Zenon DEF HeardFrom, SameIdentity, Peer, Opt

LEMMA CountedPeer ==
  ASSUME NEW p \in Peer, ~(p.regs > RegPkLimit)
  PROVE  Counted(p) \in Peer /\ SameIdentity(p, Counted(p)) /\ Counted(p).idle = p.idle
  BY BoundAssumption DEF Counted, SameIdentity, Peer

\* stage_peer_registration puts the requested identity in place.
LEMMA StagedPeer ==
  ASSUME NEW p \in Peer, ~(p.regs > RegPkLimit),
         NEW r \in Request, r.uuid \in Uuids, r.pk \in Pks, r.ip \in Ips
  PROVE  /\ Staged(p, r) \in Peer
         /\ Staged(p, r).guid = p.guid /\ Staged(p, r).busy /\ Staged(p, r).idle = p.idle
         /\ Staged(p, r).uuid = r.uuid /\ Staged(p, r).pk = r.pk /\ Staged(p, r).ip = r.ip
<1> DEFINE c == Counted(p)
<1>1. c \in Peer /\ c.guid = p.guid /\ c.idle = p.idle
  BY CountedPeer, Zenon DEF SameIdentity
<1> HIDE DEF c
<1>2. QED
  <2>1. Staged(p, r) = [c EXCEPT !.addr = r.ip, !.active = TRUE, !.uuid = r.uuid,
                                 !.pk = r.pk, !.ip = r.ip, !.busy = TRUE]
    BY Zenon DEF Staged, c
  <2>2. QED
    BY <1>1, <2>1, Zenon DEF Peer, Opt

LEMMA SavedPeer ==
  ASSUME NEW p \in Peer
  PROVE  /\ RollbackOf(p) \in Rollback
         /\ RollbackOf(p).uuid = p.uuid /\ RollbackOf(p).pk = p.pk /\ RollbackOf(p).ip = p.ip
  BY Zenon DEF RollbackOf, Rollback, Peer

LEMMA LapsedRollback ==
  ASSUME NEW r \in Rollback
  PROVE  /\ Lapsed(r) \in Rollback
         /\ Lapsed(r).uuid = r.uuid /\ Lapsed(r).pk = r.pk /\ Lapsed(r).ip = r.ip
         /\ Unverified(r) \in Rollback
         /\ Unverified(r).uuid = r.uuid /\ Unverified(r).pk = r.pk /\ Unverified(r).ip = r.ip
  BY Zenon DEF Lapsed, Unverified, Verified, Rollback

LEMMA CommittedPeer ==
  ASSUME NEW p \in Peer
  PROVE  /\ Committed(p) \in Peer
         /\ Committed(p).guid /\ ~Committed(p).busy /\ Committed(p).idle = p.idle
         /\ Committed(p).uuid = p.uuid /\ Committed(p).pk = p.pk /\ Committed(p).ip = p.ip
  BY Zenon DEF Committed, Peer

LEMMA RolledBackPeer ==
  ASSUME NEW p \in Peer, NEW r \in Rollback, NEW a \in BOOLEAN, NEW v \in BOOLEAN
  PROVE  /\ RolledBack(p, r, a, v) \in Peer
         /\ RolledBack(p, r, a, v).guid = p.guid /\ ~RolledBack(p, r, a, v).busy
         /\ RolledBack(p, r, a, v).idle = p.idle
         /\ RolledBack(p, r, a, v).uuid = r.uuid /\ RolledBack(p, r, a, v).pk = r.pk
         /\ RolledBack(p, r, a, v).ip = r.ip
  BY Zenon DEF RolledBack, Peer, Rollback

LEMMA SavedTimes ==
  ASSUME NEW r \in Rollback
  PROVE  r.active \in BOOLEAN /\ r.verified \in BOOLEAN
  BY Zenon DEF Rollback

-----------------------------------------------------------------------------
(* Type correctness.                                                       *)

\* Where a handler is determines what it carries.
Holding == {"use", "persist", "commit", "rollback", "refresh", "ok"}
Storing == {"persist", "commit", "rollback"}
Caching == {"cache", "remove", "return", "insert"}

Control(h) ==
  /\ pc[h] # "idle" => req[h] \in Request
  /\ pc[h] \in Storing \cup {"verify", "refresh", "ok"} => req[h].kind = "RegisterPk"
  /\ pc[h] # "idle" /\ req[h].kind = "RegisterPk" =>
       req[h].uuid \in Uuids /\ req[h].pk \in Pks /\ req[h].ip \in Ips
  /\ pc[h] # "idle" /\ req[h].kind = "RegisterPeer" => req[h].ip \in Ips
  /\ hold[h] # None <=> pc[h] \in Holding
  /\ pc[h] \in Storing => roll[h] \in Rollback
  /\ fill[h] # None => pc[h] \in Caching

ControlInv == \A h \in Handlers : Control(h)

LEMMA InitType == Init => TypeOK /\ ControlInv
  BY NewPeers DEF Init, TypeOK, ControlInv, Control, Opt, PcValues, Holding, Storing, Caching,
                  Evictors

LEMMA NextType == TypeOK /\ ControlInv /\ [Next]_vars => TypeOK'
<1> SUFFICES ASSUME TypeOK, ControlInv, [Next]_vars PROVE TypeOK'
  BY Zenon
<1> USE NoneAssumption, CleanerAssumption, NoneIsNoRow
<1> USE DEF TypeOK, Opt, Goto, Return, evictVars, apiVars, Evictors, PcValues
<1>1. ASSUME NEW h \in Handlers, NEW i \in Ids, NEW u \in Uuids, NEW k \in Pks, NEW a \in Ips,
            RecvRegisterPk(h, i, u, k, a)
     PROVE  TypeOK'
  BY <1>1, Zenon DEF RecvRegisterPk, Request
<1>2. ASSUME NEW h \in Handlers, NEW i \in Ids, NEW a \in Ips,
            RecvRegisterPeer(h, i, a)
     PROVE  TypeOK'
  BY <1>2, Zenon DEF RecvRegisterPeer, Request
<1>3. ASSUME NEW h \in Handlers, NEW i \in Ids,
            RecvGet(h, i)
     PROVE  TypeOK'
  BY <1>3, Zenon DEF RecvGet, Request
<1>4. ASSUME NEW h \in Handlers, VerifyDeployment(h) PROVE TypeOK'
  BY <1>4, SMTT(30) DEF VerifyDeployment
<1>5. ASSUME NEW h \in Handlers, GetHit(h) PROVE TypeOK'
  BY <1>5, MinorUpdates, Zenon DEF GetHit, Touch, ControlInv, Control, Request
<1>6. ASSUME NEW h \in Handlers, GetMiss(h) PROVE TypeOK'
  BY <1>6, Zenon DEF GetMiss
<1>7. ASSUME NEW h \in Handlers, GetPeer(h) PROVE TypeOK'
  BY <1>7, SMTT(30) DEF GetPeer, ControlInv, Control, Request
<1>8. ASSUME NEW h \in Handlers, CachePeer(h) PROVE TypeOK'
  <2>1. req[h].id \in Ids /\ PeerOf(fill[h]) \in Peer
    BY <1>8, NewPeers, LoadedPeers, PeerOfNone DEF CachePeer, ControlInv, Control, Request
  <2>2. CASE UseExisting(h) /\ UNCHANGED evictVars
    BY <1>8, <2>1, <2>2, Zenon DEF CachePeer, UseExisting
  <2>3. CASE InsertNew(h) /\ UNCHANGED evictVars
    BY <1>8, <2>1, <2>3 DEF CachePeer, InsertNew
  <2>4. CASE MapFull(h) /\ Snapshot(h, PEER_CACHE_ACTIVE_GRACE) /\ Goto(h, "remove")
             /\ UNCHANGED <<map, peer, hold, fill>>
    BY <1>8, <2>4 DEF CachePeer, Snapshot, Cached
  <2> QED
    BY <1>8, <2>2, <2>3, <2>4, Zenon DEF CachePeer
<1>9. ASSUME NEW h \in Handlers, Evict(h) PROVE TypeOK'
  BY <1>9, NewPeers, Zenon DEF Evict
<1>10. ASSUME NEW h \in Handlers, EvictReturn(h) PROVE TypeOK'
  BY <1>10, Zenon DEF EvictReturn
<1>11. ASSUME NEW h \in Handlers, CacheAfterEvict(h) PROVE TypeOK'
  <2>1. req[h].id \in Ids /\ PeerOf(fill[h]) \in Peer
    BY <1>11, NewPeers, LoadedPeers, PeerOfNone DEF CacheAfterEvict, ControlInv, Control, Request
  <2>2. CASE UseExisting(h) /\ UNCHANGED <<req, roll>>
    BY <1>11, <2>1, <2>2, Zenon DEF CacheAfterEvict, UseExisting
  <2>3. CASE InsertNew(h) /\ UNCHANGED <<req, roll>>
    BY <1>11, <2>1, <2>3, SMTT(30) DEF CacheAfterEvict, InsertNew
  <2>4. CASE MapFull(h) /\ UNCHANGED <<map, peer>>
    BY <1>11, <2>4, SMTT(30) DEF CacheAfterEvict, UseExisting, InsertNew, MapFull
  <2> QED
    BY <1>11, <2>2, <2>3, <2>4, Zenon DEF CacheAfterEvict
<1>12. ASSUME NEW h \in Handlers, StageRefused(h) PROVE TypeOK'
  BY <1>12, Zenon DEF StageRefused
<1>13. ASSUME NEW h \in Handlers, StageUnchanged(h) PROVE TypeOK'
  BY <1>13, CountedPeer, Zenon DEF StageUnchanged, Me, TooFrequent, ControlInv, Control, Holding
<1>14. ASSUME NEW h \in Handlers, StagePersist(h) PROVE TypeOK'
  BY <1>14, StagedPeer, SavedPeer, SMTT(30) DEF StagePersist, Me, TooFrequent, ControlInv, Control, Holding
<1>15. ASSUME NEW h \in Handlers, Persist(h) PROVE TypeOK'
  <2>1. req[h].id \in Ids
    BY <1>15, Zenon DEF Persist, ControlInv, Control, Request
  <2>2. Persisted(h) \in Opt(Row)
    BY <1>15, Zenon DEF Persist, Persisted, Row, ControlInv, Control, Storing
  <2> QED
    BY <1>15, <2>1, <2>2 DEF Persist
<1>16. ASSUME NEW h \in Handlers, FinishCommit(h) PROVE TypeOK'
  BY <1>16, CommittedPeer, Zenon DEF FinishCommit, ControlInv, Control, Holding
<1>17. ASSUME NEW h \in Handlers, FinishRollback(h) PROVE TypeOK'
  <2>1. hold[h] \in Objs /\ roll[h] \in Rollback
    BY <1>17, Zenon DEF FinishRollback, ControlInv, Control, Holding, Storing
  <2>2. PICK a \in {FALSE, roll[h].active}, v \in {FALSE, roll[h].verified} :
          peer' = [peer EXCEPT ![hold[h]] = RolledBack(@, roll[h], a, v)]
    BY <1>17, Zenon DEF FinishRollback
  <2>3. RolledBack(peer[hold[h]], roll[h], a, v) \in Peer
    BY <2>1, SavedTimes, RolledBackPeer, Zenon
  <2> QED
    BY <1>17, <2>1, <2>2, <2>3, Zenon DEF FinishRollback
<1>18. ASSUME NEW h \in Handlers, RefreshVerified(h) PROVE TypeOK'
  BY <1>18, MinorUpdates, Zenon DEF RefreshVerified, ControlInv, Control, Holding
<1>19. ASSUME NEW h \in Handlers, RespondOk(h) PROVE TypeOK'
  BY <1>19, Zenon DEF RespondOk
<1>20. ASSUME NEW h \in Handlers, Heartbeat(h) PROVE TypeOK'
  <2>1. hold[h] \in Objs /\ req[h].ip \in Ips
    BY <1>20, Zenon DEF Heartbeat, ControlInv, Control, Holding
  <2>2. HeardFrom(peer[hold[h]], req[h].ip) \in Peer
    BY <2>1, HeardPeer, Zenon
  <2> QED
    BY <1>20, <2>1, <2>2 DEF Heartbeat
<1>21. ASSUME NEW h \in Handlers, UseGet(h) PROVE TypeOK'
  BY <1>21, Zenon DEF UseGet
<1>22. ASSUME CleanupTick PROVE TypeOK'
  BY <1>22 DEF CleanupTick, Snapshot, Cached
<1>23. ASSUME Evict(Cleaner) PROVE TypeOK'
  BY <1>23, NewPeers, Zenon DEF Evict
<1>24. ASSUME EvictReturn(Cleaner) PROVE TypeOK'
  BY <1>24, Zenon DEF EvictReturn
<1>25. ASSUME NEW i \in Ids, GetInMemory(i) PROVE TypeOK'
  BY <1>25, MinorUpdates, Zenon DEF GetInMemory, Touch
<1>26. ASSUME NEW i \in Ids, GrowIdle(i) PROVE TypeOK'
  BY <1>26, AgedPeer, Zenon DEF GrowIdle
<1>27. ASSUME NEW i \in Ids, RegistrationLapses(i) PROVE TypeOK'
  BY <1>27, MinorUpdates, LapsedRollback, Zenon DEF RegistrationLapses, SavedLapses
<1>28. ASSUME NEW i \in Ids, VerificationLapses(i) PROVE TypeOK'
  BY <1>28, MinorUpdates, LapsedRollback, Zenon DEF VerificationLapses, SavedLapses
<1>29. ASSUME NEW i \in Ids, RegPkWindowLapses(i) PROVE TypeOK'
  BY <1>29, MinorUpdates, Zenon DEF RegPkWindowLapses
<1>30. ASSUME NEW i \in Ids, NEW ident \in Identity, ApiApproves(i, ident) PROVE TypeOK'
  BY <1>30, Zenon DEF ApiApproves
<1>31. ASSUME Crash PROVE TypeOK'
  BY <1>31, NewPeers, Zenon DEF Crash
<1>32. ASSUME UNCHANGED vars PROVE TypeOK'
  BY <1>32, Zenon DEF vars
<1> QED
  BY <1>1, <1>2, <1>3, <1>4, <1>5, <1>6, <1>7, <1>8, <1>9, <1>10, <1>11, <1>12, <1>13, <1>14, <1>15, <1>16, <1>17, <1>18, <1>19, <1>20, <1>21, <1>22, <1>23, <1>24, <1>25, <1>26, <1>27, <1>28, <1>29, <1>30, <1>31, <1>32, Zenon
  DEF Next, Recv, HandlerStep, TimePasses

-----------------------------------------------------------------------------
(* What a handler carries at each of its program points: the invariant that*)
(* the proofs about PeerRegistry rest on.                                  *)

\* A step of one handler, and the steps that are the same for all of them.
LEMMA ControlFrame ==
  ASSUME ControlInv, NEW h \in Handlers, Control(h)',
         \A g \in Handlers : g # h => /\ pc'[g] = pc[g] /\ req'[g] = req[g] /\ hold'[g] = hold[g]
                                      /\ fill'[g] = fill[g] /\ roll'[g] = roll[g]
  PROVE  ControlInv'
  BY DEF ControlInv, Control

LEMMA ControlMove ==
  ASSUME TypeOK, ControlInv, NEW h \in Handlers, NEW label, Goto(h, label), Control(h)',
         UNCHANGED <<req, hold, fill, roll>>
  PROVE  ControlInv'
<1>1. \A g \in Handlers : g # h => pc'[g] = pc[g]
  BY Zenon DEF Goto, TypeOK, Evictors
<1> QED
  BY <1>1, ControlFrame, Zenon

LEMMA ControlReturn ==
  ASSUME TypeOK, ControlInv, NEW h \in Handlers, Return(h)
  PROVE  ControlInv'
<1>1. /\ pc'[h] = "idle" /\ hold'[h] = None /\ fill'[h] = None
      /\ \A g \in Handlers : g # h => /\ pc'[g] = pc[g] /\ req'[g] = req[g] /\ hold'[g] = hold[g]
                                      /\ fill'[g] = fill[g] /\ roll'[g] = roll[g]
  BY Zenon DEF Return, Goto, TypeOK, Evictors
<1>2. Control(h)'
  BY <1>1, Zenon DEF Control, Holding, Storing
<1> QED
  BY <1>1, <1>2, ControlFrame, Zenon

\* get and cache_peer end with an Arc in hand.
LEMMA ControlUse ==
  ASSUME TypeOK, ControlInv, NEW h \in Handlers, pc[h] \in {"get", "cache", "insert"},
         NEW o \in Objs, hold' = [hold EXCEPT ![h] = o], Goto(h, "use"), UNCHANGED <<req, roll>>,
         fill'[h] = None, \A g \in Handlers : g # h => fill'[g] = fill[g]
  PROVE  ControlInv'
<1>1. /\ pc'[h] = "use" /\ hold'[h] = o
      /\ \A g \in Handlers : g # h => pc'[g] = pc[g] /\ hold'[g] = hold[g]
  BY Zenon DEF Goto, TypeOK, Evictors
<1>2. pc[h] # "idle" /\ o # None
  BY NoneAssumption, Zenon
<1>3. Control(h)'
  BY <1>1, <1>2, Zenon DEF ControlInv, Control, Holding, Storing
<1> QED
  BY <1>1, <1>3, ControlFrame, Zenon

LEMMA ControlCached ==
  ASSUME TypeOK, ControlInv, NEW h \in Handlers, pc[h] \in {"cache", "insert"},
         UNCHANGED <<req, roll>>, UseExisting(h) \/ InsertNew(h)
  PROVE  ControlInv'
<1>1. req[h].id \in Ids
  BY Zenon DEF ControlInv, Control, Request
<1>2. fill'[h] = None /\ (\A g \in Handlers : g # h => fill'[g] = fill[g])
  BY Zenon DEF UseExisting, InsertNew, TypeOK
<1>3. Goto(h, "use") /\ (\E o \in Objs : hold' = [hold EXCEPT ![h] = o])
  BY <1>1, Zenon DEF UseExisting, InsertNew, TypeOK, Opt
<1> QED
  BY <1>2, <1>3, ControlUse, Zenon

LEMMA ControlSame ==
  ASSUME ControlInv, UNCHANGED <<pc, req, hold, fill>>,
         \A g \in Handlers : pc[g] \in Storing => roll'[g] \in Rollback
  PROVE  ControlInv'
  BY Zenon DEF ControlInv, Control

LEMMA NextControl == TypeOK /\ ControlInv /\ [Next]_vars => ControlInv'
<1> SUFFICES ASSUME TypeOK, ControlInv, [Next]_vars PROVE ControlInv'
  BY Zenon
<1> USE NoneAssumption, CleanerAssumption
<1>1. ASSUME NEW h \in Handlers, Recv(h) PROVE ControlInv'
  <2>1. /\ pc[h] = "idle" /\ pc'[h] \in {"get", "verify"}
        /\ \A g \in Handlers : g # h => pc'[g] = pc[g] /\ req'[g] = req[g]
        /\ UNCHANGED <<hold, fill, roll>>
    BY <1>1, Zenon DEF Recv, RecvRegisterPk, RecvRegisterPeer, RecvGet, Goto, TypeOK, Evictors
  <2>2. /\ req'[h] \in Request
        /\ pc'[h] = "verify" => req'[h].kind = "RegisterPk"
        /\ req'[h].kind = "RegisterPk" =>
             req'[h].uuid \in Uuids /\ req'[h].pk \in Pks /\ req'[h].ip \in Ips
        /\ req'[h].kind = "RegisterPeer" => req'[h].ip \in Ips
    BY <1>1 DEF Recv, RecvRegisterPk, RecvRegisterPeer, RecvGet, Goto, TypeOK, Evictors,
                Request, Opt
  <2>3. hold[h] = None /\ fill[h] = None
    BY <2>1, Zenon DEF ControlInv, Control, Holding, Caching
  <2>4. Control(h)'
    BY <2>1, <2>2, <2>3, Zenon DEF Control, Holding, Storing
  <2> QED
    BY <2>1, <2>4, ControlFrame, Zenon
<1>2. ASSUME NEW h \in Handlers, VerifyDeployment(h) \/ GetMiss(h) PROVE ControlInv'
  <2>1. CASE Return(h)
    BY <2>1, ControlReturn, Zenon
  <2>2. CASE \E label \in {"get", "load"} : Goto(h, label) /\ UNCHANGED <<req, hold, fill, roll>>
    <3>1. Control(h)'
      BY <1>2, <2>2, Zenon DEF VerifyDeployment, GetMiss, ControlInv, Control, Goto, TypeOK, Evictors,
                        Holding, Storing, Caching
    <3> QED
      BY <2>2, <3>1, ControlMove, Zenon
  <2> QED
    BY <1>2, <2>1, <2>2, Zenon DEF VerifyDeployment, GetMiss
<1>3. ASSUME NEW h \in Handlers, GetHit(h) PROVE ControlInv'
  <2>1. map[req[h].id] \in Objs
    BY <1>3 DEF GetHit, ControlInv, Control, Request, TypeOK, Opt
  <2>2. fill[h] = None
    BY <1>3, Zenon DEF GetHit, ControlInv, Control, Caching
  <2> QED
    BY <1>3, <2>1, <2>2, ControlUse, Zenon DEF GetHit
<1>4. ASSUME NEW h \in Handlers, GetPeer(h) PROVE ControlInv'
  <2>1. CASE Return(h)
    BY <2>1, ControlReturn, Zenon
  <2>2. CASE ~Return(h)
    <3>1. /\ pc[h] = "load" /\ pc'[h] = "cache"
          /\ \A g \in Handlers : g # h => pc'[g] = pc[g] /\ fill'[g] = fill[g]
          /\ UNCHANGED <<req, hold, roll>>
      BY <1>4, <2>2, Zenon DEF GetPeer, Goto, TypeOK, Evictors
    <3>2. Control(h)'
      BY <3>1, Zenon DEF ControlInv, Control, Holding, Storing, Caching
    <3> QED
      BY <3>1, <3>2, ControlFrame, Zenon
  <2> QED
    BY <2>1, <2>2, Zenon
<1>5. ASSUME NEW h \in Handlers, CachePeer(h) PROVE ControlInv'
  <2>1. CASE UseExisting(h) \/ InsertNew(h)
    BY <1>5, <2>1, ControlCached, Zenon DEF CachePeer
  <2>2. CASE Goto(h, "remove") /\ UNCHANGED <<hold, fill>>
    <3>1. Control(h)'
      BY <1>5, <2>2, Zenon DEF CachePeer, ControlInv, Control, Goto, TypeOK, Evictors, Holding, Storing,
                        Caching
    <3> QED
      BY <1>5, <2>2, <3>1, ControlMove, Zenon DEF CachePeer
  <2> QED
    BY <1>5, <2>1, <2>2, Zenon DEF CachePeer
<1>6. ASSUME NEW e \in Evictors, Evict(e) \/ EvictReturn(e) PROVE ControlInv'
  <2>1. /\ pc[e] \in {"remove", "return"} /\ UNCHANGED <<req, hold, fill, roll>>
        /\ \A g \in Handlers : pc'[g] = pc[g] \/ (g = e /\ pc'[g] \in {"return", "insert"})
    BY <1>6, Zenon DEF Evict, EvictReturn, Goto, TypeOK, Evictors
  <2> SUFFICES ASSUME NEW g \in Handlers PROVE Control(g)'
    BY Zenon DEF ControlInv
  <2>2. Control(g)
    BY Zenon DEF ControlInv
  <2>3. CASE pc'[g] = pc[g]
    BY <2>1, <2>2, <2>3, Zenon DEF Control
  <2>4. CASE pc[g] \in {"remove", "return"} /\ pc'[g] \in {"return", "insert"}
    BY <2>1, <2>2, <2>4, Zenon DEF Control, Holding, Storing, Caching
  <2> QED
    BY <2>1, <2>3, <2>4, Zenon
<1>7. ASSUME NEW h \in Handlers, CacheAfterEvict(h) PROVE ControlInv'
  <2>1. CASE Return(h)
    BY <2>1, ControlReturn, Zenon
  <2>2. CASE UseExisting(h) \/ InsertNew(h)
    BY <1>7, <2>2, ControlCached, ControlReturn, Zenon DEF CacheAfterEvict, MapFull, UseExisting, InsertNew
  <2>3. CASE fill' = [fill EXCEPT ![h] = None] /\ Goto(h, "cache") /\ UNCHANGED <<req, hold, roll>>
    <3>1. /\ pc[h] = "insert" /\ pc'[h] = "cache" /\ fill'[h] = None
          /\ \A g \in Handlers : g # h => pc'[g] = pc[g] /\ fill'[g] = fill[g]
      BY <1>7, <2>3, Zenon DEF CacheAfterEvict, Goto, TypeOK, Evictors
    <3>2. Control(h)'
      BY <2>3, <3>1, Zenon DEF ControlInv, Control, Holding, Storing
    <3> QED
      BY <2>3, <3>1, <3>2, ControlFrame, Zenon
  <2> QED
    BY <1>7, <2>1, <2>2, <2>3, Zenon DEF CacheAfterEvict
<1>8. ASSUME NEW h \in Handlers,
             \/ StageRefused(h) \/ RespondOk(h) \/ UseGet(h) \/ Heartbeat(h)
             \/ FinishRollback(h)
      PROVE  ControlInv'
  BY <1>8, ControlReturn, Zenon DEF StageRefused, RespondOk, UseGet, Heartbeat, FinishRollback
<1>9. ASSUME NEW h \in Handlers, StageUnchanged(h) \/ RefreshVerified(h) \/ Persist(h)
      PROVE  ControlInv'
  <2>1. Control(h)'
    BY <1>9, Zenon DEF StageUnchanged, RefreshVerified, Persist, TypeOK, ControlInv, Control, Goto,
                Evictors, Holding, Storing, Caching
  <2> QED
    BY <1>9, <2>1, ControlMove, Zenon DEF StageUnchanged, RefreshVerified, Persist
<1>10. ASSUME NEW h \in Handlers, StagePersist(h) PROVE ControlInv'
  <2>1. RollbackOf(Me(h)) \in Rollback
    <3>1. pc[h] \in Holding
      BY <1>10, Zenon DEF StagePersist, Holding
    <3>2. hold[h] # None
      BY <3>1, Zenon DEF ControlInv, Control
    <3>3. hold[h] \in Objs
      BY <3>2, Zenon DEF TypeOK, Opt
    <3>4. Me(h) \in Peer
      BY <3>3, Zenon DEF Me, TypeOK
    <3> QED
      BY <3>4, SavedPeer, Zenon
  <2>2. /\ pc[h] = "use" /\ pc'[h] = "persist" /\ req[h].kind = "RegisterPk"
        /\ roll'[h] = RollbackOf(Me(h))
        /\ \A g \in Handlers : g # h => pc'[g] = pc[g] /\ roll'[g] = roll[g]
        /\ UNCHANGED <<req, hold, fill>>
    BY <1>10, Zenon DEF StagePersist, Goto, TypeOK, Evictors
  <2>3. Control(h)'
    BY <2>1, <2>2, Zenon DEF ControlInv, Control, Holding, Caching
  <2> QED
    BY <2>2, <2>3, ControlFrame, Zenon
<1>11. ASSUME NEW h \in Handlers, FinishCommit(h) PROVE ControlInv'
  <2>1. /\ pc[h] = "commit" /\ pc'[h] = "ok" /\ UNCHANGED <<req, hold, fill>>
        /\ \A g \in Handlers : g # h => pc'[g] = pc[g] /\ roll'[g] = roll[g]
    BY <1>11, Zenon DEF FinishCommit, Goto, TypeOK, Evictors
  <2>2. Control(h)'
    BY <2>1, Zenon DEF ControlInv, Control, Holding, Storing, Caching
  <2> QED
    BY <2>1, <2>2, ControlFrame, Zenon
<1>12. ASSUME CleanupTick PROVE ControlInv'
  <2>1. UNCHANGED <<req, hold, fill, roll>> /\ (\A g \in Handlers : pc'[g] = pc[g])
    BY <1>12, Zenon DEF CleanupTick, Goto, TypeOK, Evictors
  <2> QED
    BY <2>1, Zenon DEF ControlInv, Control
<1>13. ASSUME NEW i \in Ids, GetInMemory(i) \/ GrowIdle(i) \/ RegPkWindowLapses(i)
       PROVE  ControlInv'
  BY <1>13, ControlSame, Zenon DEF GetInMemory, GrowIdle, RegPkWindowLapses, ControlInv, Control
<1>14. ASSUME NEW i \in Ids, RegistrationLapses(i) \/ VerificationLapses(i) PROVE ControlInv'
  <2>1. \A g \in Handlers : pc[g] \in Storing => roll'[g] \in Rollback
    BY <1>14, LapsedRollback, Zenon DEF RegistrationLapses, VerificationLapses, SavedLapses,
                                 ControlInv, Control
  <2> QED
    BY <1>14, <2>1, ControlSame, Zenon DEF RegistrationLapses, VerificationLapses
<1>15. ASSUME NEW i \in Ids, NEW ident \in Identity, ApiApproves(i, ident) PROVE ControlInv'
  BY <1>15, ControlSame, Zenon DEF ApiApproves, ControlInv, Control
<1>16. ASSUME Crash PROVE ControlInv'
  BY <1>16, Zenon DEF Crash, ControlInv, Control, Evictors, Holding, Storing
<1>17. ASSUME UNCHANGED vars PROVE ControlInv'
  BY <1>17, ControlSame, Zenon DEF vars, ControlInv, Control
<1> QED
  BY <1>1, <1>2, <1>3, <1>4, <1>5, <1>6, <1>7, <1>8, <1>9, <1>10, <1>11, <1>12, <1>13, <1>14,
     <1>15, <1>16, <1>17, Zenon
  DEF Next, HandlerStep, TimePasses, Evictors

\* Every variable keeps its type and every handler carries what its program
\* point needs, for any number of handlers (all handlers of the registry).
THEOREM TypeCorrect == Spec => []TypeOK
<1>1. TypeOK /\ ControlInv /\ [Next]_vars => (TypeOK /\ ControlInv)'
  BY NextType, NextControl, Zenon
<1> QED
  BY InitType, <1>1, PTL DEF Spec

-----------------------------------------------------------------------------
(* References.                                                             *)

RefInv ==
  /\ NoOrphan
  /\ \A i, j \in Ids : map[i] # None /\ map[i] = map[j] => i = j

\* A step that only drops or takes references found in the map.
LEMMA RefFrame ==
  ASSUME RefInv, UNCHANGED map,
         \A g \in Handlers :
           \/ hold'[g] = None
           \/ hold'[g] = hold[g] /\ req'[g] = req[g]
           \/ hold'[g] = map[req'[g].id]
  PROVE  RefInv'
  BY Zenon DEF RefInv, NoOrphan

\* cache_peer inserts an object nobody refers to.
LEMMA RefInsert ==
  ASSUME TypeOK, RefInv, NEW h \in Handlers, req[h].id \in Ids, InsertNew(h), UNCHANGED req
  PROVE  RefInv'
<1>1. PICK o \in Objs :
         /\ Unreferenced(o)
         /\ map' = [map EXCEPT ![req[h].id] = o]
         /\ hold' = [hold EXCEPT ![h] = o]
  BY Zenon DEF InsertNew
<1>2. map[req[h].id] = None /\ o # None
  BY NoneAssumption, Zenon DEF InsertNew
<1>3. \A i \in Ids : map'[i] = IF i = req[h].id THEN o ELSE map[i]
  BY <1>1, Zenon DEF TypeOK
<1>4. \A g \in Handlers : hold'[g] = IF g = h THEN o ELSE hold[g]
  BY <1>1, Zenon DEF TypeOK
<1>5. \A i \in Ids : map[i] # o
  BY <1>1, Zenon DEF Unreferenced
<1>6. ASSUME NEW g \in Handlers, hold'[g] # None PROVE map'[req'[g].id] = hold'[g]
  <2>1. CASE g = h
    BY <1>1, <1>4, <2>1, Zenon DEF TypeOK
  <2>2. CASE g # h
    <3>1. map[req[g].id] = hold[g] /\ hold[g] # None
      BY <1>4, <1>6, <2>2, Zenon DEF RefInv, NoOrphan
    <3>2. req[g].id # req[h].id
      BY <1>2, <3>1, Zenon
    <3>3. map'[req[g].id] = map[req[g].id]
      BY <1>1, <3>2
    <3> QED
      BY <1>4, <2>2, <3>1, <3>3, Zenon
  <2> QED
    BY <2>1, <2>2, Zenon
<1>7. \A i, j \in Ids : map'[i] # None /\ map'[i] = map'[j] => i = j
  BY <1>3, <1>5, Zenon DEF RefInv
<1> QED
  BY <1>6, <1>7, Zenon DEF RefInv, NoOrphan

\* The steps that RefFrame covers: no reference changes, a handler returns, a
\* handler clones the cached Arc, a request arrives at an idle handler.
LEMMA RefSame ==
  ASSUME RefInv, UNCHANGED <<map, req, hold>>
  PROVE  RefInv'
  BY RefFrame, Zenon

LEMMA RefReturn ==
  ASSUME TypeOK, RefInv, UNCHANGED map, NEW h \in Handlers, Return(h)
  PROVE  RefInv'
<1>1. \A g \in Handlers : hold'[g] = None \/ (hold'[g] = hold[g] /\ req'[g] = req[g])
  BY Zenon DEF Return, TypeOK
<1> QED
  BY <1>1, RefFrame, Zenon

LEMMA RefTake ==
  ASSUME TypeOK, RefInv, UNCHANGED <<map, req>>, NEW h \in Handlers,
         hold' = [hold EXCEPT ![h] = map[req[h].id]]
  PROVE  RefInv'
<1>1. \A g \in Handlers :
        (hold'[g] = hold[g] /\ req'[g] = req[g]) \/ hold'[g] = map[req'[g].id]
  BY Zenon DEF TypeOK
<1> QED
  BY <1>1, RefFrame, Zenon

LEMMA RefRecv ==
  ASSUME TypeOK, ControlInv, RefInv, NEW h \in Handlers, Recv(h)
  PROVE  RefInv'
<1>1. pc[h] = "idle" /\ UNCHANGED <<map, hold>>
  BY Zenon DEF Recv, RecvRegisterPk, RecvRegisterPeer, RecvGet
<1>2. hold[h] = None
  BY <1>1, Zenon DEF ControlInv, Control, Holding
<1>3. \A g \in Handlers : g # h => req'[g] = req[g]
  BY Zenon DEF Recv, RecvRegisterPk, RecvRegisterPeer, RecvGet, TypeOK
<1> QED
  BY <1>1, <1>2, <1>3, RefFrame, Zenon

\* evict_inactive leaves the entries that a handler refers to.
LEMMA RefEvict ==
  ASSUME TypeOK, ControlInv, RefInv, NEW e \in Evictors, Evict(e)
  PROVE  RefInv'
<1>1. UNCHANGED <<req, hold>>
  BY Zenon DEF Evict
<1>2. \A i \in Ids : map'[i] = None \/ map'[i] = map[i]
  BY Zenon DEF Evict
<1>3. ASSUME NEW g \in Handlers, hold[g] # None PROVE map'[req[g].id] = hold[g]
  <2>1. map[req[g].id] = hold[g]
    BY <1>3, Zenon DEF RefInv, NoOrphan
  <2>2. ~ShouldRemove(e, hold[g])
    BY Zenon DEF ShouldRemove, HeldBy
  <2>3. req[g].id \in Ids
    BY <1>3, Zenon DEF ControlInv, Control, Holding, Request
  <2> QED
    BY <2>1, <2>2, <2>3, Zenon DEF Evict
<1> QED
  BY <1>1, <1>2, <1>3, Zenon DEF RefInv, NoOrphan

LEMMA NextRef == TypeOK /\ ControlInv /\ RefInv /\ [Next]_vars => RefInv'
<1> SUFFICES ASSUME TypeOK, ControlInv, RefInv, [Next]_vars PROVE RefInv'
  BY Zenon
<1>1. ASSUME NEW h \in Handlers, VerifyDeployment(h) PROVE RefInv'
  BY <1>1, RefSame, RefReturn, Zenon DEF VerifyDeployment
<1>2. ASSUME NEW h \in Handlers, GetHit(h) PROVE RefInv'
  BY <1>2, RefTake, Zenon DEF GetHit
<1>3. ASSUME NEW h \in Handlers, GetMiss(h) \/ EvictReturn(h) PROVE RefInv'
  BY <1>3, RefSame, Zenon DEF GetMiss, EvictReturn
<1>4. ASSUME NEW h \in Handlers, GetPeer(h) PROVE RefInv'
  BY <1>4, RefSame, RefReturn, Zenon DEF GetPeer
<1>5. ASSUME NEW h \in Handlers, CachePeer(h) PROVE RefInv'
  <2>1. req[h].id \in Ids
    BY <1>5, Zenon DEF CachePeer, ControlInv, Control, Request
  <2> QED
    BY <1>5, <2>1, RefSame, RefTake, RefInsert, Zenon DEF CachePeer, UseExisting
<1>6. ASSUME NEW h \in Handlers, CacheAfterEvict(h) PROVE RefInv'
  <2>1. req[h].id \in Ids
    BY <1>6, Zenon DEF CacheAfterEvict, ControlInv, Control, Request
  <2>2. \/ (UseExisting(h) \/ InsertNew(h)) /\ UNCHANGED req
        \/ UNCHANGED <<map, req, hold>>
        \/ Return(h) /\ UNCHANGED map
    BY <1>6, Zenon DEF CacheAfterEvict
  <2> QED
    BY <2>1, <2>2, RefSame, RefReturn, RefTake, RefInsert, Zenon DEF UseExisting
<1>7. ASSUME NEW h \in Handlers, StageRefused(h) \/ RespondOk(h) \/ UseGet(h) PROVE RefInv'
  BY <1>7, RefReturn, Zenon DEF StageRefused, RespondOk, UseGet
<1>8. ASSUME NEW h \in Handlers, StageUnchanged(h) \/ StagePersist(h) \/ Persist(h) PROVE RefInv'
  BY <1>8, RefSame, Zenon DEF StageUnchanged, StagePersist, Persist
<1>9. ASSUME NEW h \in Handlers, FinishCommit(h) \/ RefreshVerified(h) PROVE RefInv'
  BY <1>9, RefSame, Zenon DEF FinishCommit, RefreshVerified
<1>10. ASSUME NEW h \in Handlers, FinishRollback(h) \/ Heartbeat(h) PROVE RefInv'
  BY <1>10, RefReturn, Zenon DEF FinishRollback, Heartbeat
<1>11. ASSUME CleanupTick \/ EvictReturn(Cleaner) PROVE RefInv'
  BY <1>11, RefSame, Zenon DEF CleanupTick, EvictReturn
<1>12. ASSUME NEW i \in Ids, GetInMemory(i) \/ TimePasses(i) PROVE RefInv'
  BY <1>12, RefSame, Zenon DEF GetInMemory, TimePasses, GrowIdle, RegistrationLapses,
                        VerificationLapses, RegPkWindowLapses
<1>13. ASSUME NEW i \in Ids, NEW ident \in Identity, ApiApproves(i, ident) PROVE RefInv'
  BY <1>13, RefSame, Zenon DEF ApiApproves
<1>14. ASSUME Crash PROVE RefInv'
  BY <1>14, Zenon DEF Crash, RefInv, NoOrphan
<1>15. ASSUME UNCHANGED vars PROVE RefInv'
  BY <1>15, RefSame, Zenon DEF vars
<1> QED
  BY <1>1, <1>2, <1>3, <1>4, <1>5, <1>6, <1>7, <1>8, <1>9, <1>10, <1>11, <1>12, <1>13, <1>14,
     <1>15, RefRecv, RefEvict, Zenon
  DEF Next, HandlerStep, Evictors

\* The identity that a handler works on is the one the map serves: eviction
\* never removes a Peer that somebody holds (evict_inactive).
THEOREM HeldPeersStayCached == Spec => []NoOrphan
<1>1. Init => RefInv
  BY Zenon DEF Init, RefInv, NoOrphan
<1>2. TypeOK /\ ControlInv /\ [Next]_vars => (TypeOK /\ ControlInv)'
  BY NextType, NextControl, Zenon
<1>3. RefInv => NoOrphan
  BY Zenon DEF RefInv
<1> QED
  BY <1>1, <1>2, <1>3, InitType, NextRef, PTL DEF Spec

-----------------------------------------------------------------------------
\* The steps that leave every identity, every row and every running database
\* write alone; only times, counters and program points change.
Quiet ==
  /\ UNCHANGED <<map, db>>
  /\ \A o \in Objs : SameIdentity(peer[o], peer'[o])
  /\ \A g \in Handlers :
       /\ \/ /\ pc'[g] = pc[g] /\ req'[g] = req[g] /\ hold'[g] = hold[g]
             /\ pc[g] \in Storing =>
                  /\ roll'[g].uuid = roll[g].uuid
                  /\ roll'[g].pk = roll[g].pk
                  /\ roll'[g].ip = roll[g].ip
          \/ pc[g] \notin Storing /\ pc'[g] \notin Storing
       /\ fill'[g] = None \/ (fill'[g] = fill[g] /\ req'[g] = req[g])
       /\ pc'[g] \in Caching => /\ pc[g] \in Caching
                                /\ fill'[g] = fill[g] /\ req'[g] = req[g]

LEMMA PeerWrite ==
  ASSUME TypeOK, NEW o \in Objs, NEW q, SameIdentity(peer[o], q),
         peer' = [peer EXCEPT ![o] = q]
  PROVE  \A x \in Objs : SameIdentity(peer[x], peer'[x])
  BY Zenon DEF TypeOK, SameIdentity

LEMMA QuietHandlerSteps ==
  ASSUME TypeOK, ControlInv, NEW h \in Handlers
  PROVE  /\ Recv(h) => Quiet
         /\ VerifyDeployment(h) \/ GetMiss(h) \/ EvictReturn(h) => Quiet
         /\ StageRefused(h) \/ RespondOk(h) \/ UseGet(h) => Quiet
         /\ GetHit(h) \/ StageUnchanged(h) \/ RefreshVerified(h) \/ Heartbeat(h) => Quiet
<1> USE CleanerAssumption
<1> USE DEF TypeOK, Goto, Return, evictVars, apiVars, Evictors, Storing, Caching
<1>1. ASSUME Recv(h) PROVE Quiet
  <2>1. pc[h] = "idle" /\ fill[h] = None
    BY <1>1, Zenon DEF Recv, RecvRegisterPk, RecvRegisterPeer, RecvGet, ControlInv, Control, Caching
  <2>2. UNCHANGED <<map, peer, db, hold, fill, roll>>
    BY <1>1, Zenon DEF Recv, RecvRegisterPk, RecvRegisterPeer, RecvGet
  <2>3. /\ pc'[h] \in {"get", "verify"}
        /\ \A g \in Handlers : g # h => pc'[g] = pc[g] /\ req'[g] = req[g]
    BY <1>1, Zenon DEF Recv, RecvRegisterPk, RecvRegisterPeer, RecvGet
  <2>4. \A o \in Objs : SameIdentity(peer[o], peer'[o])
    BY <2>2, Zenon DEF SameIdentity
  <2> QED
    BY <2>1, <2>2, <2>3, <2>4, Zenon DEF Quiet
<1>2. ASSUME VerifyDeployment(h) \/ GetMiss(h) \/ EvictReturn(h) PROVE Quiet
  BY <1>2, Zenon DEF Quiet, VerifyDeployment, GetMiss, EvictReturn, SameIdentity
<1>3. ASSUME StageRefused(h) \/ RespondOk(h) \/ UseGet(h) PROVE Quiet
  BY <1>3, Zenon DEF Quiet, StageRefused, RespondOk, UseGet, SameIdentity
<1>4. ASSUME GetHit(h) PROVE Quiet
  <2>0. pc[h] # "idle" /\ map[req[h].id] # None
    BY <1>4, Zenon DEF GetHit
  <2>1. map[req[h].id] \in Objs
    <3>1. req[h] \in Request
      BY <2>0, Zenon DEF ControlInv, Control
    <3>2. req[h].id \in Ids
      BY <3>1, Zenon DEF Request
    <3>3. map \in [Ids -> Opt(Objs)]
      BY Zenon
    <3> QED
      BY <2>0, <3>2, <3>3, Zenon DEF Opt
  <2>2. \A o \in Objs : SameIdentity(peer[o], peer'[o])
    BY <1>4, <2>1, MinorUpdates, PeerWrite, Zenon DEF GetHit, Touch
  <2> QED
    BY <1>4, <2>2, Zenon DEF Quiet, GetHit
<1>5. ASSUME StageUnchanged(h) PROVE Quiet
  <2>1. hold[h] \in Objs
    BY <1>5, Zenon DEF StageUnchanged, ControlInv, Control, Holding, Opt
  <2>2. \A o \in Objs : SameIdentity(peer[o], peer'[o])
    <3>1. SameIdentity(peer[hold[h]], Counted(peer[hold[h]]))
      BY <1>5, <2>1, CountedPeer, Zenon DEF StageUnchanged, TooFrequent, Me
    <3> QED
      BY <1>5, <2>1, <3>1, PeerWrite, Zenon DEF StageUnchanged
  <2> QED
    BY <1>5, <2>2, Zenon DEF Quiet, StageUnchanged
<1>6. ASSUME RefreshVerified(h) PROVE Quiet
  <2>1. hold[h] \in Objs
    BY <1>6, Zenon DEF RefreshVerified, ControlInv, Control, Holding, Opt
  <2>2. \A o \in Objs : SameIdentity(peer[o], peer'[o])
    BY <1>6, <2>1, MinorUpdates, PeerWrite, Zenon DEF RefreshVerified
  <2> QED
    BY <1>6, <2>2, Zenon DEF Quiet, RefreshVerified
<1>7. ASSUME Heartbeat(h) PROVE Quiet
  <2>1. hold[h] \in Objs /\ req[h].ip \in Ips
    BY <1>7, Zenon DEF Heartbeat, ControlInv, Control, Holding, Opt
  <2>2. SameIdentity(peer[hold[h]], HeardFrom(peer[hold[h]], req[h].ip))
    BY <2>1, HeardPeer, Zenon
  <2>3. \A o \in Objs : SameIdentity(peer[o], peer'[o])
    BY <1>7, <2>1, <2>2, PeerWrite, Zenon DEF Heartbeat, SameIdentity
  <2> QED
    BY <1>7, <2>3, Zenon DEF Quiet, Heartbeat
<1> QED
  BY <1>1, <1>2, <1>3, <1>4, <1>5, <1>6, <1>7, Zenon

LEMMA QuietOtherSteps ==
  ASSUME TypeOK, ControlInv
  PROVE  /\ CleanupTick \/ EvictReturn(Cleaner) \/ UNCHANGED vars => Quiet
         /\ \A i \in Ids : GetInMemory(i) \/ TimePasses(i) => Quiet
         /\ \A i \in Ids, ident \in Identity : ApiApproves(i, ident) => Quiet
<1> USE CleanerAssumption
<1> USE DEF TypeOK, Goto, evictVars, apiVars, Evictors, Storing
<1>1. ASSUME CleanupTick \/ EvictReturn(Cleaner) \/ UNCHANGED vars PROVE Quiet
  BY <1>1, Zenon DEF Quiet, CleanupTick, EvictReturn, vars, SameIdentity
<1>2. ASSUME NEW i \in Ids, NEW ident \in Identity, ApiApproves(i, ident) PROVE Quiet
  BY <1>2, Zenon DEF Quiet, ApiApproves, SameIdentity
<1>3. ASSUME NEW i \in Ids, GetInMemory(i) \/ TimePasses(i) PROVE Quiet
  <2>1. map[i] \in Objs
    BY <1>3, Zenon DEF GetInMemory, TimePasses, GrowIdle, RegistrationLapses, VerificationLapses,
                RegPkWindowLapses, Opt
  <2>2. \A o \in Objs : SameIdentity(peer[o], peer'[o])
    <3>1. CASE GetInMemory(i)
      BY <2>1, <3>1, MinorUpdates, PeerWrite, Zenon DEF GetInMemory, Touch
    <3>2. CASE GrowIdle(i)
      BY <2>1, <3>2, AgedPeer, PeerWrite, Zenon DEF GrowIdle
    <3>3. CASE RegistrationLapses(i)
      BY <2>1, <3>3, MinorUpdates, PeerWrite, Zenon DEF RegistrationLapses
    <3>4. CASE VerificationLapses(i)
      BY <2>1, <3>4, MinorUpdates, PeerWrite, Zenon DEF VerificationLapses
    <3>5. CASE RegPkWindowLapses(i)
      BY <2>1, <3>5, MinorUpdates, PeerWrite, Zenon DEF RegPkWindowLapses
    <3> QED
      BY <1>3, <3>1, <3>2, <3>3, <3>4, <3>5, Zenon DEF TimePasses
  <2>3. \A g \in Handlers : pc[g] \in Storing =>
          roll'[g].uuid = roll[g].uuid /\ roll'[g].pk = roll[g].pk /\ roll'[g].ip = roll[g].ip
    <3>1. CASE RegistrationLapses(i)
      BY <3>1, LapsedRollback, Zenon DEF RegistrationLapses, SavedLapses, ControlInv, Control
    <3>2. CASE VerificationLapses(i)
      BY <3>2, LapsedRollback, Zenon DEF VerificationLapses, SavedLapses, ControlInv, Control
    <3>3. CASE UNCHANGED roll
      BY <3>3, Zenon
    <3> QED
      BY <1>3, <3>1, <3>2, <3>3, Zenon DEF TimePasses, GetInMemory, GrowIdle, RegPkWindowLapses
  <2>4. UNCHANGED <<map, db, pc, req, hold, fill>>
    BY <1>3, Zenon DEF GetInMemory, TimePasses, GrowIdle, RegistrationLapses, VerificationLapses,
                RegPkWindowLapses
  <2> QED
    BY <2>2, <2>3, <2>4, Zenon DEF Quiet
<1> QED
  BY <1>1, <1>2, <1>3, Zenon

\* The other steps of Next.
Loud ==
  \/ \E h \in Handlers :
       \/ GetPeer(h) \/ CachePeer(h) \/ Evict(h) \/ CacheAfterEvict(h)
       \/ StagePersist(h) \/ Persist(h) \/ FinishCommit(h) \/ FinishRollback(h)
  \/ Evict(Cleaner) \/ Crash

LEMMA QuietOrLoud ==
  ASSUME TypeOK, ControlInv, [Next]_vars
  PROVE  Quiet \/ Loud
  BY QuietHandlerSteps, QuietOtherSteps, Zenon DEF Next, HandlerStep, Loud

-----------------------------------------------------------------------------
(* Writers.                                                                *)

\* A handler that stores an identity has set persistence_in_progress, and no
\* other handler that stores holds the same Peer.
WriterInv ==
  /\ \A h \in Handlers : InDatabase(h) => peer[hold[h]].busy
  /\ \A g, h \in Handlers :
       InDatabase(g) /\ InDatabase(h) /\ hold[g] = hold[h] => g = h

\* What a step does to the Peer objects that some handler is storing.
LEMMA QuietWriter ==
  ASSUME TypeOK, ControlInv, WriterInv, Quiet
  PROVE  WriterInv'
<1>1. \A g \in Handlers : InDatabase(g)' => InDatabase(g) /\ hold'[g] = hold[g]
  BY Zenon DEF Quiet, InDatabase, Storing
<1>2. \A g \in Handlers : InDatabase(g) => hold[g] \in Objs
  BY Zenon DEF InDatabase, TypeOK, ControlInv, Control, Holding, Opt
<1> QED
  BY <1>1, <1>2 DEF WriterInv, Quiet, SameIdentity

\* A step in which the Peers that handlers are storing stay what they are.
LEMMA WriterFrame ==
  ASSUME WriterInv,
         \A g \in Handlers :
           InDatabase(g)' => /\ InDatabase(g)
                             /\ hold'[g] = hold[g]
                             /\ peer'[hold[g]].busy = peer[hold[g]].busy
  PROVE  WriterInv'
  BY Zenon DEF WriterInv

LEMMA EvictSpares ==
  ASSUME TypeOK, ControlInv, NEW e \in Evictors, Evict(e), NEW g \in Handlers, hold[g] # None
  PROVE  peer'[hold[g]] = peer[hold[g]]
<1>1. hold[g] \in Objs
  BY Zenon DEF TypeOK, Opt
<1>2. ~ShouldRemove(e, hold[g])
  BY Zenon DEF ShouldRemove, HeldBy
<1> QED
  BY <1>1, <1>2, Zenon DEF Evict

LEMMA InsertSpares ==
  ASSUME TypeOK, NEW h \in Handlers, InsertNew(h), NEW g \in Handlers, hold[g] # None
  PROVE  peer'[hold[g]] = peer[hold[g]]
<1>1. hold[g] \in Objs
  BY Zenon DEF TypeOK, Opt
<1>2. PICK o \in Objs : Unreferenced(o) /\ peer' = [peer EXCEPT ![o] = PeerOf(fill[h])]
  BY Zenon DEF InsertNew
<1>3. hold[g] # o
  BY <1>2, Zenon DEF Unreferenced, HeldBy
<1> QED
  BY <1>1, <1>2, <1>3, Zenon DEF TypeOK

LEMMA NextWriter == TypeOK /\ ControlInv /\ WriterInv /\ [Next]_vars => WriterInv'
<1> SUFFICES ASSUME TypeOK, ControlInv, WriterInv, [Next]_vars PROVE WriterInv'
  BY Zenon
<1> USE CleanerAssumption
<1>0. \A g \in Handlers : /\ InDatabase(g) => hold[g] # None
                          /\ hold[g] # None => hold[g] \in Objs
  BY Zenon DEF InDatabase, ControlInv, Control, Holding, TypeOK, Opt
<1>1. ASSUME NEW h \in Handlers, GetPeer(h) PROVE WriterInv'
  BY <1>1, WriterFrame, Zenon DEF GetPeer, Return, Goto, InDatabase, TypeOK, Evictors
<1>2. ASSUME NEW h \in Handlers, CachePeer(h) PROVE WriterInv'
  <2>1. CASE InsertNew(h)
    <3>1. \A g \in Handlers : InDatabase(g)' => InDatabase(g) /\ hold'[g] = hold[g]
      BY <1>2, <2>1, Zenon DEF CachePeer, InsertNew, Goto, InDatabase, TypeOK, Evictors
    <3> QED
      BY <1>0, <2>1, <3>1, InsertSpares, WriterFrame, Zenon
  <2>2. CASE UseExisting(h)
    BY <1>2, <2>2, WriterFrame, Zenon DEF CachePeer, UseExisting, Goto, InDatabase, TypeOK, Evictors
  <2>3. CASE Goto(h, "remove") /\ UNCHANGED <<map, peer, hold, fill>>
    BY <1>2, <2>3, WriterFrame, Zenon DEF Goto, InDatabase, TypeOK, Evictors
  <2> QED
    BY <1>2, <2>1, <2>2, <2>3, Zenon DEF CachePeer
<1>3. ASSUME NEW e \in Evictors, Evict(e) PROVE WriterInv'
  <2>1. \A g \in Handlers : InDatabase(g)' => InDatabase(g) /\ hold'[g] = hold[g]
    BY <1>3, Zenon DEF Evict, Goto, InDatabase, TypeOK, Evictors
  <2> QED
    BY <1>0, <1>3, <2>1, EvictSpares, WriterFrame, Zenon
<1>4. ASSUME NEW h \in Handlers, CacheAfterEvict(h) PROVE WriterInv'
  <2>1. CASE InsertNew(h)
    <3>1. \A g \in Handlers : InDatabase(g)' => InDatabase(g) /\ hold'[g] = hold[g]
      BY <1>4, <2>1, Zenon DEF CacheAfterEvict, InsertNew, UseExisting, MapFull, Return, Goto,
                        InDatabase, TypeOK, Evictors
    <3> QED
      BY <1>0, <2>1, <3>1, InsertSpares, WriterFrame, Zenon
  <2>2. CASE ~InsertNew(h)
    <3>1. UNCHANGED peer
      BY <1>4, <2>2, Zenon DEF CacheAfterEvict, UseExisting
    <3>2. \A g \in Handlers : InDatabase(g)' => InDatabase(g) /\ hold'[g] = hold[g]
      BY <1>4, <2>2, Zenon DEF CacheAfterEvict, UseExisting, Return, Goto, InDatabase, TypeOK, Evictors
    <3> QED
      BY <3>1, <3>2, WriterFrame, Zenon
  <2> QED
    BY <2>1, <2>2, Zenon
<1>5. ASSUME NEW h \in Handlers, StagePersist(h) PROVE WriterInv'
  <2>1. hold[h] \in Objs /\ req[h] \in Request /\ req[h].kind = "RegisterPk"
    BY <1>5, Zenon DEF StagePersist, ControlInv, Control, Holding, TypeOK, Opt
  <2>2. Staged(peer[hold[h]], req[h]).busy /\ Staged(peer[hold[h]], req[h]) \in Peer
    BY <1>5, <2>1, StagedPeer, Zenon DEF StagePersist, ControlInv, Control, TypeOK, TooFrequent, Me
  <2>3. \A g \in Handlers : InDatabase(g) => hold[g] # hold[h]
    BY <1>5, Zenon DEF StagePersist, WriterInv, Busy, Me
  <2>4. UNCHANGED hold /\ (\A g \in Handlers : InDatabase(g)' <=> (g = h \/ InDatabase(g)))
    BY <1>5, Zenon DEF StagePersist, Goto, InDatabase, TypeOK, Evictors
  <2>5. \A o \in Objs : peer'[o] = IF o = hold[h] THEN Staged(peer[hold[h]], req[h]) ELSE peer[o]
    BY <1>5, <2>1, Zenon DEF StagePersist, TypeOK
  <2> QED
    BY <1>0, <2>1, <2>2, <2>3, <2>4, <2>5, Zenon DEF WriterInv
<1>6. ASSUME NEW h \in Handlers, Persist(h) PROVE WriterInv'
  BY <1>6, WriterFrame, Zenon DEF Persist, Goto, InDatabase, TypeOK, Evictors
<1>7. ASSUME NEW h \in Handlers, FinishCommit(h) \/ FinishRollback(h) PROVE WriterInv'
  <2>1. hold[h] \in Objs /\ InDatabase(h)
    BY <1>0, <1>7, Zenon DEF FinishCommit, FinishRollback, InDatabase
  <2>2. \A g \in Handlers : InDatabase(g)' => InDatabase(g) /\ hold'[g] = hold[g] /\ g # h
    BY <1>7, Zenon DEF FinishCommit, FinishRollback, Return, Goto, InDatabase, TypeOK, Evictors
  <2>3. \A o \in Objs : o # hold[h] => peer'[o] = peer[o]
    BY <1>7, Zenon DEF FinishCommit, FinishRollback, TypeOK
  <2> QED
    BY <1>0, <2>1, <2>2, <2>3, WriterFrame, Zenon DEF WriterInv
<1>8. ASSUME Crash PROVE WriterInv'
  BY <1>8, Zenon DEF Crash, WriterInv, InDatabase, Evictors
<1> QED
  BY <1>1, <1>2, <1>3, <1>4, <1>5, <1>6, <1>7, <1>8, QuietOrLoud, QuietWriter, Zenon DEF Loud, Evictors

\* At most one registration of an id is in the database at any time
\* (persistence_in_progress in stage_peer_registration).
THEOREM OneWriterPerId == Spec => []SingleWriter
<1>1. Init => RefInv /\ WriterInv
  BY Zenon DEF Init, RefInv, NoOrphan, WriterInv, InDatabase, Evictors
<1>2. TypeOK /\ ControlInv /\ [Next]_vars => (TypeOK /\ ControlInv)'
  BY NextType, NextControl, Zenon
<1>3. TypeOK /\ ControlInv /\ RefInv /\ WriterInv => SingleWriter
  <2> SUFFICES ASSUME TypeOK, ControlInv, RefInv, WriterInv,
                      NEW g \in Handlers, NEW h \in Handlers,
                      InDatabase(g), InDatabase(h), req[g].id = req[h].id
               PROVE  g = h
    BY Zenon DEF SingleWriter
  <2>1. hold[g] # None /\ hold[h] # None
    BY Zenon DEF InDatabase, ControlInv, Control, Holding
  <2>2. hold[g] = hold[h]
    BY <2>1, Zenon DEF RefInv, NoOrphan
  <2> QED
    BY <2>2, Zenon DEF WriterInv
<1> QED
  BY <1>1, <1>2, <1>3, InitType, NextRef, NextWriter, PTL DEF Spec

-----------------------------------------------------------------------------
(* The uuid that the database, the cache and the handlers agree on.        *)

CachedClaim ==
  \A i \in Ids : map[i] # None /\ peer[map[i]].guid =>
    db[i] # None /\ peer[map[i]].uuid = db[i].uuid

StoringClaim ==
  \A h \in Handlers : InDatabase(h) =>
    /\ peer[hold[h]].uuid = req[h].uuid
    /\ peer[hold[h]].guid => roll[h].uuid = req[h].uuid

CommitClaim ==
  \A h \in Handlers : pc[h] = "commit" =>
    db[req[h].id] # None /\ db[req[h].id].uuid = req[h].uuid

FillClaim ==
  \A h \in Handlers : fill[h] # None =>
    db[req[h].id] # None /\ fill[h].uuid = db[req[h].id].uuid

ClaimInv == CachedClaim /\ StoringClaim /\ CommitClaim /\ FillClaim

StableUuids ==
  \A i \in Ids : db[i] # None => db'[i] # None /\ db'[i].uuid = db[i].uuid

\* The parts of a step that keep ClaimInv.
KeepsCached ==
  \A i \in Ids : map'[i] # None =>
    /\ map'[i] = map[i]
    /\ peer'[map[i]].guid = peer[map[i]].guid
    /\ peer'[map[i]].uuid = peer[map[i]].uuid

KeepsStoring ==
  \A g \in Handlers : InDatabase(g)' =>
    /\ InDatabase(g) /\ req'[g] = req[g] /\ hold'[g] = hold[g]
    /\ roll'[g].uuid = roll[g].uuid
    /\ peer'[hold[g]].guid = peer[hold[g]].guid
    /\ peer'[hold[g]].uuid = peer[hold[g]].uuid

KeepsCommit == \A g \in Handlers : pc'[g] = "commit" => pc[g] = "commit" /\ req'[g] = req[g]

KeepsFill == \A g \in Handlers : fill'[g] # None => fill'[g] = fill[g] /\ req'[g] = req[g]

\* Everything a proof about one step starts from.
SafeState == TypeOK /\ ControlInv /\ RefInv /\ WriterInv

LEMMA HandlerFacts ==
  ASSUME SafeState, NEW h \in Handlers
  PROVE  /\ pc[h] # "idle" => req[h] \in Request /\ req[h].id \in Ids
         /\ pc[h] \in Holding => hold[h] \in Objs /\ map[req[h].id] = hold[h]
         /\ InDatabase(h) => pc[h] \in Holding /\ pc[h] # "idle"
         /\ fill[h] # None => fill[h] \in Row /\ pc[h] # "idle"
<1>1. pc[h] # "idle" => req[h] \in Request /\ req[h].id \in Ids
  BY Zenon DEF SafeState, ControlInv, Control, Request
<1>2. pc[h] \in Holding => hold[h] \in Objs /\ map[req[h].id] = hold[h]
  BY Zenon DEF SafeState, ControlInv, Control, TypeOK, Opt, RefInv, NoOrphan
<1>3. InDatabase(h) => pc[h] \in Holding /\ pc[h] # "idle"
  BY Zenon DEF InDatabase, Holding
<1>4. fill[h] # None => fill[h] \in Row /\ pc[h] # "idle"
  BY Zenon DEF SafeState, ControlInv, Control, TypeOK, Opt, Caching
<1> QED
  BY <1>1, <1>2, <1>3, <1>4, Zenon

LEMMA ClaimParts ==
  ASSUME SafeState, ClaimInv, StableUuids
  PROVE  /\ KeepsCached => CachedClaim'
         /\ KeepsStoring => StoringClaim'
         /\ KeepsCommit => CommitClaim'
         /\ KeepsFill => FillClaim'
<1>1. ASSUME KeepsCached PROVE CachedClaim'
  <2> SUFFICES ASSUME NEW i \in Ids, map'[i] # None, peer'[map'[i]].guid
               PROVE  db'[i] # None /\ peer'[map'[i]].uuid = db'[i].uuid
    BY Zenon DEF CachedClaim
  <2>1. /\ map'[i] = map[i] /\ peer'[map[i]].guid = peer[map[i]].guid
        /\ peer'[map[i]].uuid = peer[map[i]].uuid
    BY <1>1, Zenon DEF KeepsCached
  <2>2. map[i] # None /\ peer[map[i]].guid
    BY <2>1, Zenon
  <2>3. db[i] # None /\ peer[map[i]].uuid = db[i].uuid
    BY <2>2, Zenon DEF ClaimInv, CachedClaim
  <2> QED
    BY <2>1, <2>3, Zenon DEF StableUuids
<1>2. ASSUME KeepsStoring PROVE StoringClaim'
  <2> SUFFICES ASSUME NEW h \in Handlers, InDatabase(h)'
               PROVE  /\ peer'[hold'[h]].uuid = req'[h].uuid
                      /\ peer'[hold'[h]].guid => roll'[h].uuid = req'[h].uuid
    BY Zenon DEF StoringClaim
  <2>1. /\ InDatabase(h) /\ req'[h] = req[h] /\ hold'[h] = hold[h]
        /\ roll'[h].uuid = roll[h].uuid
        /\ peer'[hold[h]].guid = peer[hold[h]].guid
        /\ peer'[hold[h]].uuid = peer[hold[h]].uuid
    BY <1>2, Zenon DEF KeepsStoring
  <2>2. peer[hold[h]].uuid = req[h].uuid /\ (peer[hold[h]].guid => roll[h].uuid = req[h].uuid)
    BY <2>1, Zenon DEF ClaimInv, StoringClaim
  <2> QED
    BY <2>1, <2>2, Zenon
<1>3. ASSUME KeepsCommit PROVE CommitClaim'
  <2> SUFFICES ASSUME NEW h \in Handlers, pc'[h] = "commit"
               PROVE  db'[req'[h].id] # None /\ db'[req'[h].id].uuid = req'[h].uuid
    BY Zenon DEF CommitClaim
  <2>1. pc[h] = "commit" /\ req'[h] = req[h]
    BY <1>3, Zenon DEF KeepsCommit
  <2>2. db[req[h].id] # None /\ db[req[h].id].uuid = req[h].uuid
    BY <2>1, Zenon DEF ClaimInv, CommitClaim
  <2>3. req[h].id \in Ids
    BY <2>1, HandlerFacts, Zenon
  <2> QED
    BY <2>1, <2>2, <2>3, Zenon DEF StableUuids
<1>4. ASSUME KeepsFill PROVE FillClaim'
  <2> SUFFICES ASSUME NEW h \in Handlers, fill'[h] # None
               PROVE  db'[req'[h].id] # None /\ fill'[h].uuid = db'[req'[h].id].uuid
    BY Zenon DEF FillClaim
  <2>1. fill[h] # None /\ fill'[h] = fill[h] /\ req'[h] = req[h]
    BY <1>4, Zenon DEF KeepsFill
  <2>2. db[req[h].id] # None /\ fill[h].uuid = db[req[h].id].uuid
    BY <2>1, Zenon DEF ClaimInv, FillClaim
  <2>3. req[h].id \in Ids
    BY <2>1, HandlerFacts, Zenon
  <2> QED
    BY <2>1, <2>2, <2>3, Zenon DEF StableUuids
<1> QED
  BY <1>1, <1>2, <1>3, <1>4, Zenon

LEMMA ClaimFrame ==
  ASSUME SafeState, ClaimInv, StableUuids, KeepsCached, KeepsStoring, KeepsCommit, KeepsFill
  PROVE  ClaimInv'
  BY ClaimParts, Zenon DEF ClaimInv

LEMMA QuietClaim ==
  ASSUME SafeState, ClaimInv, Quiet
  PROVE  ClaimInv' /\ StableUuids
<1>1. StableUuids
  BY Zenon DEF Quiet, StableUuids
<1>2. KeepsCached
  <2> SUFFICES ASSUME NEW i \in Ids, map'[i] # None
               PROVE  /\ map'[i] = map[i]
                      /\ peer'[map[i]].guid = peer[map[i]].guid
                      /\ peer'[map[i]].uuid = peer[map[i]].uuid
    BY Zenon DEF KeepsCached
  <2>1. map'[i] = map[i] /\ \A o \in Objs : SameIdentity(peer[o], peer'[o])
    BY Zenon DEF Quiet
  <2>2. map[i] \in Objs
    BY <2>1, Zenon DEF SafeState, TypeOK, Opt
  <2> QED
    BY <2>1, <2>2, Zenon DEF SameIdentity
<1>3. KeepsStoring
  <2>1. ASSUME NEW g \in Handlers, InDatabase(g)'
        PROVE  /\ pc'[g] = pc[g] /\ req'[g] = req[g] /\ hold'[g] = hold[g]
               /\ pc[g] \in Storing /\ roll'[g].uuid = roll[g].uuid
    BY <2>1, Zenon DEF Quiet, InDatabase, Storing
  <2>2. \A g \in Handlers : InDatabase(g) => hold[g] \in Objs
    BY HandlerFacts, Zenon
  <2> QED
    BY <2>1, <2>2, Zenon DEF Quiet, KeepsStoring, SameIdentity, InDatabase, Storing
<1>4. KeepsCommit /\ KeepsFill
  BY Zenon DEF Quiet, KeepsCommit, KeepsFill, Storing
<1> QED
  BY <1>1, <1>2, <1>3, <1>4, ClaimFrame, Zenon

\* Database::get_peer: the loaded row has the uuid of the stored one.
LEMMA GetPeerClaim ==
  ASSUME SafeState, ClaimInv, NEW h \in Handlers, GetPeer(h)
  PROVE  ClaimInv' /\ StableUuids
<1>1. UNCHANGED <<map, peer, db>> /\ pc[h] = "load"
  BY Zenon DEF GetPeer
<1>2. StableUuids /\ KeepsCached
  BY <1>1, Zenon DEF StableUuids, KeepsCached
<1>3. \A g \in Handlers : g # h => /\ pc'[g] = pc[g] /\ req'[g] = req[g] /\ hold'[g] = hold[g]
                                   /\ roll'[g] = roll[g] /\ fill'[g] = fill[g]
  BY Zenon DEF GetPeer, Return, Goto, SafeState, TypeOK, Evictors
<1>4. pc'[h] \in {"cache", "idle"}
  BY Zenon DEF GetPeer, Return, Goto, SafeState, TypeOK, Evictors
<1>5. fill'[h] # None => fill'[h] = db[req[h].id] /\ req'[h] = req[h]
  BY Zenon DEF GetPeer, Return, SafeState, TypeOK
<1>6. KeepsStoring /\ KeepsCommit
  BY <1>1, <1>3, <1>4, Zenon DEF KeepsStoring, KeepsCommit, InDatabase
<1>7. FillClaim'
  <2> SUFFICES ASSUME NEW g \in Handlers, fill'[g] # None
               PROVE  db'[req'[g].id] # None /\ fill'[g].uuid = db'[req'[g].id].uuid
    BY Zenon DEF FillClaim
  <2>1. CASE g = h
    BY <1>1, <1>5, <2>1, Zenon
  <2>2. CASE g # h
    <3>1. fill[g] # None /\ fill'[g] = fill[g] /\ req'[g] = req[g]
      BY <1>3, <2>2, Zenon
    <3>2. db[req[g].id] # None /\ fill[g].uuid = db[req[g].id].uuid
      BY <3>1, Zenon DEF ClaimInv, FillClaim
    <3> QED
      BY <1>1, <3>1, <3>2, Zenon
  <2> QED
    BY <2>1, <2>2, Zenon
<1> QED
  BY <1>2, <1>6, <1>7, ClaimParts, Zenon DEF ClaimInv

\* The three ways in which cache_peer ends.
LEMMA CacheClaim ==
  ASSUME SafeState, ClaimInv, NEW h \in Handlers, pc[h] \in {"cache", "insert"},
         UNCHANGED db,
         \A g \in Handlers : g # h => /\ pc'[g] = pc[g] /\ req'[g] = req[g]
                                      /\ hold'[g] = hold[g] /\ roll'[g] = roll[g]
                                      /\ fill'[g] = fill[g],
         pc'[h] \notin Storing,
         fill'[h] # None => fill'[h] = fill[h] /\ req'[h] = req[h],
         UNCHANGED <<map, peer>> \/ InsertNew(h)
  PROVE  ClaimInv' /\ StableUuids
<1>1. StableUuids
  BY Zenon DEF StableUuids
<1>2. KeepsCommit /\ KeepsFill
  BY Zenon DEF KeepsCommit, KeepsFill, Storing
<1>3. KeepsStoring
  <2>1. \A g \in Handlers : hold[g] # None => peer'[hold[g]] = peer[hold[g]]
    BY InsertSpares, Zenon DEF SafeState
  <2>2. \A g \in Handlers : InDatabase(g)' => g # h /\ InDatabase(g) /\ hold[g] # None
    BY Zenon DEF InDatabase, Storing, SafeState, ControlInv, Control, Holding
  <2> QED
    BY <2>1, <2>2, Zenon DEF KeepsStoring
<1>4. CASE UNCHANGED <<map, peer>>
  BY <1>1, <1>2, <1>3, <1>4, ClaimFrame, Zenon DEF KeepsCached
<1>5. CASE InsertNew(h)
  <2>1. PICK o \in Objs : /\ Unreferenced(o)
                          /\ map' = [map EXCEPT ![req[h].id] = o]
                          /\ peer' = [peer EXCEPT ![o] = PeerOf(fill[h])]
    BY <1>5, Zenon DEF InsertNew
  <2>2. req[h].id \in Ids
    BY HandlerFacts, Zenon
  <2>3. peer'[o] = PeerOf(fill[h]) /\ map'[req[h].id] = o
    BY <2>1, <2>2, Zenon DEF SafeState, TypeOK
  <2>4. PeerOf(fill[h]).guid => /\ db[req[h].id] # None
                                /\ PeerOf(fill[h]).uuid = db[req[h].id].uuid
    <3>1. CASE fill[h] = None
      BY <3>1, PeerOfNone, NewPeers, Zenon
    <3>2. CASE fill[h] # None
      <4>1. db[req[h].id] # None /\ fill[h].uuid = db[req[h].id].uuid
        BY <3>2, Zenon DEF ClaimInv, FillClaim
      <4>2. PeerOf(fill[h]).uuid = fill[h].uuid
        BY <3>2, HandlerFacts, LoadedPeers, Zenon
      <4> QED
        BY <4>1, <4>2, Zenon
    <3> QED
      BY <3>1, <3>2, Zenon
  <2>5. \A i \in Ids : i # req[h].id /\ map[i] # None =>
          map'[i] = map[i] /\ peer'[map[i]] = peer[map[i]]
    <3> SUFFICES ASSUME NEW i \in Ids, i # req[h].id, map[i] # None
                 PROVE  map'[i] = map[i] /\ peer'[map[i]] = peer[map[i]]
      BY Zenon
    <3>1. map \in [Ids -> Opt(Objs)] /\ peer \in [Objs -> Peer]
      BY Zenon DEF SafeState, TypeOK
    <3>2. map[i] \in Objs /\ map[i] # o
      BY <2>1, <3>1, Zenon DEF Opt, Unreferenced
    <3> QED
      BY <2>1, <3>1, <3>2, Zenon
  <2>6. CachedClaim'
    <3> SUFFICES ASSUME NEW i \in Ids, map'[i] # None, peer'[map'[i]].guid
                 PROVE  db'[i] # None /\ peer'[map'[i]].uuid = db'[i].uuid
      BY Zenon DEF CachedClaim
    <3>1. CASE i = req[h].id
      BY <2>3, <2>4, <3>1, Zenon
    <3>2. CASE i # req[h].id
      <4>1. map'[i] = map[i]
        BY <2>1, <3>2, Zenon DEF SafeState, TypeOK
      <4>2. map[i] # None /\ peer'[map[i]] = peer[map[i]]
        BY <2>5, <3>2, <4>1, Zenon
      <4>3. peer[map[i]].guid
        BY <4>1, <4>2, Zenon
      <4>4. db[i] # None /\ peer[map[i]].uuid = db[i].uuid
        BY <4>2, <4>3, Zenon DEF ClaimInv, CachedClaim
      <4> QED
        BY <4>1, <4>2, <4>4, Zenon
    <3> QED
      BY <3>1, <3>2, Zenon
  <2> QED
    BY <1>1, <1>2, <1>3, <2>6, ClaimParts, Zenon DEF ClaimInv
<1> QED
  BY <1>4, <1>5, Zenon

LEMMA EvictClaim ==
  ASSUME SafeState, ClaimInv, NEW e \in Evictors, Evict(e)
  PROVE  ClaimInv' /\ StableUuids
<1>1. StableUuids /\ KeepsFill
  BY Zenon DEF Evict, StableUuids, KeepsFill
<1>2. KeepsCached
  BY NoneAssumption, Zenon DEF Evict, KeepsCached, SafeState, TypeOK, Opt
<1>3. KeepsCommit /\ (\A g \in Handlers : InDatabase(g)' => InDatabase(g))
  BY Zenon DEF Evict, Goto, KeepsCommit, InDatabase, SafeState, TypeOK, Evictors
<1>4. KeepsStoring
  <2>1. \A g \in Handlers : hold[g] # None => peer'[hold[g]] = peer[hold[g]]
    BY EvictSpares, Zenon DEF SafeState
  <2>2. \A g \in Handlers : InDatabase(g) => hold[g] # None
    BY Zenon DEF InDatabase, SafeState, ControlInv, Control, Holding
  <2> QED
    BY <1>3, <2>1, <2>2, Zenon DEF KeepsStoring, Evict
<1> QED
  BY <1>1, <1>2, <1>3, <1>4, ClaimFrame, Zenon
=============================================================================
