------------------------- MODULE PeerRegistryCache --------------------------
(***************************************************************************)
(* What the management API granted, and evictions.  With an API only       *)
(* identities that it approved are stored.  When a handler uses an entry   *)
(* within 60 s of looking for it (StallBounded), the times of an entry that*)
(* a handler is working on keep it out of every candidate list, so only    *)
(* inactive entries are evicted.                                           *)
(***************************************************************************)
EXTENDS PeerRegistryProofs

-----------------------------------------------------------------------------
(* The argument follows the identity from the approval to the row: what the*)
(* API approves is recorded for ever in granted, a handler that got past   *)
(* its verification carries such an identity, and Persist writes the one   *)
(* that the handler carries.                                               *)

Ident(r) == [uuid |-> r.uuid, pk |-> r.pk]
Unchecked == {"idle", "verify"}

ApprovalGranted == \A i \in Ids : approved[i] \in Identity => approved[i] \in granted[i]
RequestGranted == \A h \in Handlers :
  pc[h] \notin Unchecked /\ req[h].kind = "RegisterPk" => Ident(req[h]) \in granted[req[h].id]
RowGranted == \A i \in Ids : db[i] # None => Ident(db[i]) \in granted[i]

GrantInv == ApprovalGranted /\ RequestGranted /\ RowGranted

\* A handler goes on with the request it had, or is not past the verification.
Proceeds(h) ==
  \/ pc'[h] \in Unchecked
  \/ req'[h] = req[h] /\ pc[h] \notin Unchecked

LEMMA GrantFrame ==
  ASSUME GrantInv, UNCHANGED <<db, apiVars>>,
         \A h \in Handlers : Proceeds(h) \/ UNCHANGED <<pc[h], req[h]>>
  PROVE  GrantInv'
<1>1. ApprovalGranted' /\ RowGranted'
  BY Zenon DEF GrantInv, ApprovalGranted, RowGranted, apiVars
<1>2. RequestGranted'
  BY Zenon DEF GrantInv, RequestGranted, Proceeds, apiVars
<1> QED
  BY <1>1, <1>2, Zenon DEF GrantInv

\* One handler moves and the others stay.
LEMMA GrantMove ==
  ASSUME TypeOK, GrantInv, UNCHANGED <<db, apiVars>>, NEW h \in Handlers, NEW label \in PcValues,
         pc[h] \notin Unchecked, Goto(h, label), UNCHANGED req
  PROVE  GrantInv'
<1>1. \A g \in Handlers : Proceeds(g) \/ UNCHANGED <<pc[g], req[g]>>
  BY Zenon DEF Proceeds, Goto, TypeOK, Evictors
<1> QED
  BY <1>1, GrantFrame, Zenon

LEMMA GrantReturn ==
  ASSUME TypeOK, GrantInv, UNCHANGED <<db, apiVars>>, NEW h \in Handlers, Return(h)
  PROVE  GrantInv'
<1>1. pc'[h] = "idle" /\ \A g \in Handlers : g # h => UNCHANGED <<pc[g], req[g]>>
  BY Zenon DEF Return, Goto, TypeOK, Evictors
<1> QED
  BY <1>1, GrantFrame, Zenon DEF Proceeds, Unchecked

\* The management API only adds to what it has granted.
LEMMA ApiGrants ==
  ASSUME TypeOK, GrantInv, NEW i \in Ids, NEW ident \in Identity, ApiApproves(i, ident)
  PROVE  GrantInv'
<1>1. /\ approved'[i] = ident /\ granted'[i] = granted[i] \cup {ident}
      /\ \A j \in Ids : j # i => approved'[j] = approved[j] /\ granted'[j] = granted[j]
      /\ UNCHANGED <<db, pc, req>>
  BY Zenon DEF ApiApproves, TypeOK
<1>2. \A j \in Ids : granted[j] \subseteq granted'[j]
  BY <1>1, Zenon
<1>3. ApprovalGranted'
  BY <1>1, Zenon DEF GrantInv, ApprovalGranted
<1>4. RowGranted'
  BY <1>1, <1>2, Zenon DEF GrantInv, RowGranted
<1>5. ASSUME NEW h \in Handlers, pc[h] \notin Unchecked, req[h].kind = "RegisterPk",
             req[h].id \notin Ids
      PROVE  Ident(req[h]) \in granted'[req[h].id]
  BY <1>1, <1>5 DEF GrantInv, RequestGranted, ApiApproves, TypeOK
<1>6. RequestGranted'
  BY <1>1, <1>2, <1>5, Zenon DEF GrantInv, RequestGranted
<1> QED
  BY <1>3, <1>4, <1>6, Zenon DEF GrantInv

\* A verified handler carries the identity that the API approves now.
LEMMA VerifyGrants ==
  ASSUME TypeOK, ControlInv, GrantInv, NEW h \in Handlers, VerifyDeployment(h)
  PROVE  GrantInv'
<1>1. UNCHANGED <<db, apiVars>>
  BY Zenon DEF VerifyDeployment
<1>2. CASE Return(h)
  BY <1>1, <1>2, GrantReturn, Zenon
<1>3. CASE /\ approved[req[h].id] = Ident(req[h])
           /\ Goto(h, "get") /\ UNCHANGED req
  <2>1. req[h].id \in Ids /\ Ident(req[h]) \in Identity
    BY Zenon DEF VerifyDeployment, ControlInv, Control, Request, Ident, Identity, Storing
  <2>2. Ident(req[h]) \in granted[req[h].id]
    BY <1>3, <2>1, Zenon DEF GrantInv, ApprovalGranted
  <2>3. \A g \in Handlers : g # h => pc'[g] = pc[g]
    BY <1>3, Zenon DEF Goto, TypeOK, Evictors
  <2>4. RequestGranted'
    BY <1>1, <1>3, <2>2, <2>3, Zenon DEF GrantInv, RequestGranted, apiVars
  <2> QED
    BY <1>1, <2>4, Zenon DEF GrantInv, ApprovalGranted, RowGranted, apiVars
<1> QED
  BY <1>2, <1>3, Zenon DEF VerifyDeployment, Ident

\* What is stored is what the handler carries.
LEMMA PersistGrants ==
  ASSUME TypeOK, ControlInv, GrantInv, NEW h \in Handlers, Persist(h)
  PROVE  GrantInv'
<1>1. /\ pc[h] = "persist" /\ UNCHANGED <<apiVars, req>>
      /\ \A g \in Handlers : g # h => pc'[g] = pc[g]
  BY Zenon DEF Persist, Goto, TypeOK, Evictors
<1>2. req[h].id \in Ids /\ req[h].kind = "RegisterPk"
  BY <1>1, Zenon DEF ControlInv, Control, Request, Storing
<1>3. Ident(req[h]) \in granted[req[h].id]
  BY <1>1, <1>2, Zenon DEF GrantInv, RequestGranted, Unchecked
<1>4. ApprovalGranted'
  BY <1>1, Zenon DEF GrantInv, ApprovalGranted, apiVars
<1>5. RequestGranted'
  BY <1>1, <1>3, Zenon DEF GrantInv, RequestGranted, apiVars
<1>6. ASSUME NEW i \in Ids, db'[i] # None PROVE Ident(db'[i]) \in granted[i]
  <2>1. CASE db'[i] = db[i]
    BY <1>6, <2>1, Zenon DEF GrantInv, RowGranted
  <2>2. CASE i = req[h].id /\ db'[i] = Persisted(h)
    <3>1. Ident(Persisted(h)) = Ident(req[h])
      BY <1>6, <2>2, Zenon DEF Persisted, Ident
    <3> QED
      BY <1>3, <2>2, <3>1, Zenon
  <2> QED
    BY <1>2, <2>1, <2>2, Zenon DEF Persist, TypeOK
<1>7. RowGranted'
  BY <1>1, <1>6, Zenon DEF RowGranted, apiVars
<1> QED
  BY <1>4, <1>5, <1>7, Zenon DEF GrantInv

LEMMA NextGrants ==
  ASSUME ~AllowUnmanaged, TypeOK, ControlInv, GrantInv, [Next]_vars
  PROVE  GrantInv'
<1>1. ASSUME NEW h \in Handlers, Recv(h) PROVE GrantInv'
  <2>0. \E r, label : /\ UNCHANGED <<db, apiVars>> /\ req' = [req EXCEPT ![h] = r] /\ Goto(h, label)
                      /\ label = "verify" \/ r.kind # "RegisterPk"
    BY <1>1, Zenon DEF Recv, RecvRegisterPk, RecvRegisterPeer, RecvGet
  <2>1. UNCHANGED <<db, apiVars>> /\ \A g \in Handlers : g # h => UNCHANGED <<pc[g], req[g]>>
    BY <2>0, Zenon DEF Goto, TypeOK, Evictors
  <2>2. pc'[h] = "verify" \/ req'[h].kind # "RegisterPk"
    BY <2>0, Zenon DEF Goto, TypeOK, Evictors
  <2>3. RequestGranted'
    BY <2>1, <2>2, Zenon DEF GrantInv, RequestGranted, Unchecked, apiVars
  <2> QED
    BY <2>1, <2>3, Zenon DEF GrantInv, ApprovalGranted, RowGranted, apiVars
<1>2. ASSUME NEW h \in Handlers,
             \/ GetHit(h) \/ GetMiss(h) \/ CachePeer(h) \/ Evict(h) \/ EvictReturn(h)
             \/ StageUnchanged(h) \/ StagePersist(h) \/ FinishCommit(h) \/ RefreshVerified(h)
      PROVE  GrantInv'
  <2>1. /\ UNCHANGED <<db, apiVars, req>> /\ pc[h] \notin Unchecked
        /\ \E label \in PcValues : Goto(h, label)
    <3>1. CASE GetHit(h) \/ GetMiss(h)
      BY <3>1, Zenon DEF GetHit, GetMiss, Unchecked, PcValues
    <3>2. CASE CachePeer(h)
      BY <3>2, Zenon DEF CachePeer, UseExisting, InsertNew, Unchecked, PcValues
    <3>3. CASE Evict(h) \/ EvictReturn(h)
      BY <3>3, Zenon DEF Evict, EvictReturn, Unchecked, PcValues
    <3>4. CASE StageUnchanged(h) \/ StagePersist(h)
      BY <3>4, Zenon DEF StageUnchanged, StagePersist, Unchecked, PcValues
    <3>5. CASE FinishCommit(h) \/ RefreshVerified(h)
      BY <3>5, Zenon DEF FinishCommit, RefreshVerified, Unchecked, PcValues
    <3> QED
      BY <1>2, <3>1, <3>2, <3>3, <3>4, <3>5, Zenon
  <2> QED
    BY <2>1, GrantMove, Zenon
<1>3. ASSUME NEW h \in Handlers,
             \/ StageRefused(h) \/ FinishRollback(h) \/ RespondOk(h) \/ Heartbeat(h) \/ UseGet(h)
      PROVE  GrantInv'
  BY <1>3, GrantReturn, Zenon DEF StageRefused, FinishRollback, RespondOk, Heartbeat, UseGet
<1>4. ASSUME NEW h \in Handlers, GetPeer(h) \/ CacheAfterEvict(h) PROVE GrantInv'
  <2>1. UNCHANGED <<db, apiVars>> /\ pc[h] \notin Unchecked
    BY <1>4, Zenon DEF GetPeer, CacheAfterEvict, Unchecked
  <2>2. Return(h) \/ (UNCHANGED req /\ \E label \in PcValues : Goto(h, label))
    BY <1>4, Zenon DEF GetPeer, CacheAfterEvict, UseExisting, InsertNew, PcValues
  <2> QED
    BY <2>1, <2>2, GrantMove, GrantReturn, Zenon
<1>5. ASSUME CleanupTick \/ Evict(Cleaner) \/ EvictReturn(Cleaner) PROVE GrantInv'
  <2>1. UNCHANGED <<db, apiVars, req>> /\ \A g \in Handlers : pc'[g] = pc[g]
    BY <1>5, CleanerAssumption, Zenon DEF CleanupTick, Evict, EvictReturn, Goto, TypeOK, Evictors
  <2> QED
    BY <2>1, GrantFrame, Zenon
<1>6. ASSUME NEW i \in Ids, GetInMemory(i) \/ TimePasses(i) PROVE GrantInv'
  <2>1. UNCHANGED <<db, apiVars, pc, req>>
    BY <1>6, Zenon DEF GetInMemory, TimePasses, GrowIdle, RegistrationLapses, VerificationLapses,
                RegPkWindowLapses
  <2> QED
    BY <2>1, GrantFrame, Zenon
<1>7. ASSUME Crash PROVE GrantInv'
  <2>1. UNCHANGED <<db, apiVars>> /\ \A g \in Handlers : pc'[g] = "idle"
    BY <1>7, Zenon DEF Crash, Evictors
  <2> QED
    BY <2>1, GrantFrame, Zenon DEF Proceeds, Unchecked
<1>8. ASSUME UNCHANGED vars PROVE GrantInv'
  BY <1>8, GrantFrame, Zenon DEF vars, apiVars
<1> QED
  BY <1>1, <1>2, <1>3, <1>4, <1>5, <1>6, <1>7, <1>8, ApiGrants, VerifyGrants, PersistGrants, Zenon
  DEF Next, HandlerStep

\* However late a registration is stored and whoever verified it, with a
\* management API the table holds only identities that the API approved for
\* that id (verify_device_deployment, register_pk_common).
THEOREM StoredIdentitiesWereGranted == Spec => []StoredWasGranted
<1> DEFINE Inv == TypeOK /\ ControlInv /\ (~AllowUnmanaged => GrantInv)
<1>1. Init => Inv
  <2>1. Init => GrantInv
    BY NoneIsNoRow, Zenon DEF Init, GrantInv, ApprovalGranted, RequestGranted, RowGranted, Unchecked,
                       Evictors
  <2> QED
    BY <2>1, InitType, Zenon
<1>2. Inv /\ [Next]_vars => Inv'
  BY NextType, NextControl, NextGrants, Zenon
<1>3. Inv => StoredWasGranted
  BY Zenon DEF GrantInv, RowGranted, Ident, StoredWasGranted
<1> HIDE DEF Inv
<1> QED
  BY <1>1, <1>2, <1>3, PTL DEF Spec

-----------------------------------------------------------------------------
(* Times.  An entry that a handler is looking for or has just found is     *)
(* younger than 60 s, so no eviction has it as a candidate.                *)

FreshEntries == \A i \in Ids : Underway(i) /\ map[i] # None => peer[map[i]].idle = 0

CandidatesIdle == \A e \in Evictors :
  /\ pc[e] # "remove" => cand[e] = {}
  /\ cand[e] \subseteq snap[e]
  /\ \A o \in cand[e] : peer[o].idle # 0 /\ ~peer[o].active

\* A saved registration time is no younger than the one it would replace.
SavedActive == \A h \in Handlers : InDatabase(h) /\ roll[h].active => peer[hold[h]].active

FreshInv == FreshEntries /\ CandidatesIdle /\ SavedActive

\* Whether a Peer is active after each of its updates.
LEMMA ActivePeers ==
  ASSUME NEW p \in Peer
  PROVE  /\ Accessed(p).active = p.active /\ Lapsed(p).active = FALSE
         /\ Unverified(p).active = p.active /\ Uncounted(p).active = p.active
         /\ Verified(p, TRUE).active = p.active /\ Counted(p).active = p.active
         /\ Committed(p).active = p.active /\ Aged(p).active = p.active
         /\ RollbackOf(p).active = p.active
  BY Zenon DEF Accessed, Lapsed, Unverified, Uncounted, Verified, Counted, Committed, Aged, RollbackOf,
         Peer

LEMMA ActiveUpdates ==
  ASSUME NEW p \in Peer
  PROVE  /\ \A r \in Rollback : Lapsed(r).active = FALSE /\ Unverified(r).active = r.active
         /\ \A r : Staged(p, r).active = TRUE
         /\ \A a : HeardFrom(p, a).active = TRUE
         /\ p.idle < 2 => Aged(p).idle = p.idle + 1
<1>1. \A r \in Rollback : Lapsed(r).active = FALSE /\ Unverified(r).active = r.active
  BY Zenon DEF Lapsed, Unverified, Verified, Rollback
<1>2. \A a : HeardFrom(p, a).active = TRUE
  BY Zenon DEF HeardFrom, Peer
<1>3. \A r : Staged(p, r).active = TRUE
  BY Zenon DEF Staged, Counted, Peer
<1>4. p.idle < 2 => Aged(p).idle = p.idle + 1
  BY Zenon DEF Aged, Peer
<1> QED
  BY <1>1, <1>2, <1>3, <1>4, Zenon

LEMMA RolledBackActive ==
  ASSUME NEW p \in Peer, NEW r, NEW a \in BOOLEAN, NEW v
  PROVE  RolledBack(p, r, a, v).active = a
  BY Zenon DEF RolledBack, Peer

UnderwayAt == {"load", "cache", "remove", "return", "insert", "use"}

\* One handler moves: it was under way before, or it is not now.
LEMMA UnderwayFrame ==
  ASSUME NEW h \in Handlers,
         \A g \in Handlers : g # h => pc'[g] = pc[g] /\ req'[g] = req[g],
         pc'[h] \in UnderwayAt => pc[h] \in UnderwayAt /\ req'[h] = req[h]
  PROVE  \A i \in Ids : Underway(i)' => Underway(i)
  BY Zenon DEF Underway, UnderwayAt

\* The steps that touch, insert and remove no entry.
LEMMA FreshFrame ==
  ASSUME SafeState, FreshInv, UNCHANGED <<map, snap, cand>>,
         \A o \in Objs : peer'[o].idle = peer[o].idle,
         \A o \in Objs : peer[o].idle # 0 => (peer'[o].active => peer[o].active),
         \A e \in Evictors : pc[e] = "remove" => pc'[e] = "remove",
         \A i \in Ids : Underway(i)' => Underway(i) \/ map[i] = None
  PROVE  FreshEntries' /\ CandidatesIdle'
<1>1. map \in [Ids -> Opt(Objs)] /\ cand \in [Evictors -> SUBSET Objs]
  BY Zenon DEF SafeState, TypeOK
<1>2. FreshEntries'
  <2> SUFFICES ASSUME NEW i \in Ids, Underway(i)', map'[i] # None
               PROVE  peer'[map'[i]].idle = 0
    BY Zenon DEF FreshEntries
  <2>1. map[i] \in Objs /\ map'[i] = map[i] /\ Underway(i)
    BY <1>1, Zenon DEF Opt
  <2> QED
    BY <2>1, Zenon DEF FreshInv, FreshEntries
<1>3. CandidatesIdle'
  <2> SUFFICES ASSUME NEW e \in Evictors
               PROVE  /\ pc'[e] # "remove" => cand[e] = {}
                      /\ cand[e] \subseteq snap[e]
                      /\ \A o \in cand[e] : peer'[o].idle # 0 /\ ~peer'[o].active
    BY Zenon DEF CandidatesIdle
  <2>1. (pc'[e] # "remove" => cand[e] = {}) /\ cand[e] \subseteq snap[e]
    BY Zenon DEF FreshInv, CandidatesIdle
  <2>2. ASSUME NEW o \in cand[e] PROVE peer'[o].idle # 0 /\ ~peer'[o].active
    <3>1. o \in Objs /\ peer[o].idle # 0 /\ ~peer[o].active
      BY <1>1, Zenon DEF FreshInv, CandidatesIdle
    <3> QED
      BY <3>1, Zenon
  <2> QED
    BY <2>1, <2>2, Zenon
<1> QED
  BY <1>2, <1>3, Zenon

LEMMA SavedFrame ==
  ASSUME SavedActive,
         \A g \in Handlers : InDatabase(g)' =>
           /\ InDatabase(g) /\ hold'[g] = hold[g]
           /\ roll'[g].active =>
                roll[g].active /\ (peer[hold[g]].active => peer'[hold[g]].active)
  PROVE  SavedActive'
<1> SUFFICES ASSUME NEW g \in Handlers, InDatabase(g)', roll'[g].active
             PROVE  peer'[hold'[g]].active
  BY Zenon DEF SavedActive
<1>1. /\ InDatabase(g) /\ hold'[g] = hold[g] /\ roll[g].active
      /\ peer[hold[g]].active => peer'[hold[g]].active
  BY Zenon
<1>2. peer[hold[g]].active
  BY <1>1, Zenon DEF SavedActive
<1> QED
  BY <1>1, <1>2, Zenon

\* One handler moves and no Peer changes.
LEMMA FreshMove ==
  ASSUME SafeState, FreshInv, UNCHANGED <<map, peer, snap, cand>>, NEW h \in Handlers,
         pc[h] # "remove", pc'[Cleaner] = pc[Cleaner], ~InDatabase(h)' \/ InDatabase(h),
         \A g \in Handlers : g # h => /\ pc'[g] = pc[g] /\ req'[g] = req[g]
                                      /\ hold'[g] = hold[g] /\ roll'[g] = roll[g],
         InDatabase(h)' => hold'[h] = hold[h] /\ roll'[h] = roll[h],
         pc'[h] \in UnderwayAt =>
           /\ req'[h] = req[h]
           /\ pc[h] \in UnderwayAt \/ map[req[h].id] = None
  PROVE  FreshInv'
<1>1. \A i \in Ids : Underway(i)' => Underway(i) \/ map[i] = None
  BY DEF Underway, UnderwayAt
<1>2. \A e \in Evictors : pc[e] = "remove" => pc'[e] = "remove"
  BY Zenon DEF Evictors
<1>3. FreshEntries' /\ CandidatesIdle'
  BY <1>1, <1>2, FreshFrame, Zenon
<1>4. SavedActive'
  BY SavedFrame, Zenon DEF FreshInv, InDatabase
<1> QED
  BY <1>3, <1>4, Zenon DEF FreshInv

LEMMA MovingSteps ==
  ASSUME SafeState, FreshInv, NEW h \in Handlers,
         \/ Recv(h) \/ VerifyDeployment(h) \/ GetMiss(h) \/ GetPeer(h) \/ StageRefused(h)
         \/ Persist(h) \/ RespondOk(h) \/ UseGet(h)
  PROVE  FreshInv'
<1> USE CleanerAssumption
<1> USE DEF SafeState, TypeOK, Goto, Return, Evictors, evictVars, UnderwayAt, InDatabase
<1>1. CASE Recv(h)
  BY <1>1, FreshMove, Zenon DEF Recv, RecvRegisterPk, RecvRegisterPeer, RecvGet
<1>2. CASE VerifyDeployment(h)
  BY <1>2, FreshMove, Zenon DEF VerifyDeployment
<1>3. CASE GetMiss(h)
  BY <1>3, FreshMove, Zenon DEF GetMiss
<1>4. CASE GetPeer(h)
  BY <1>4, FreshMove, Zenon DEF GetPeer
<1>5. CASE StageRefused(h) \/ RespondOk(h) \/ UseGet(h)
  BY <1>5, FreshMove, Zenon DEF StageRefused, RespondOk, UseGet
<1>6. CASE Persist(h)
  BY <1>6, FreshMove, Zenon DEF Persist
<1> QED
  BY <1>1, <1>2, <1>3, <1>4, <1>5, <1>6, Zenon

\* A handler writes the Peer it holds; it makes it active only right after it
\* has found it.
LEMMA FreshWrite ==
  ASSUME SafeState, FreshInv, UNCHANGED <<map, snap, cand>>, NEW h \in Handlers,
         pc[h] \in Holding, NEW q, peer' = [peer EXCEPT ![hold[h]] = q],
         q.idle = peer[hold[h]].idle,
         pc[h] = "use" \/ (q.active => peer[hold[h]].active),
         \/ peer[hold[h]].active => q.active
         \/ InDatabase(h) /\ ~InDatabase(h)',
         InDatabase(h)' => (roll'[h].active => q.active) /\ hold'[h] = hold[h],
         pc'[Cleaner] = pc[Cleaner], pc'[h] \notin UnderwayAt,
         \A g \in Handlers : g # h => /\ pc'[g] = pc[g] /\ req'[g] = req[g]
                                      /\ hold'[g] = hold[g] /\ roll'[g] = roll[g]
  PROVE  FreshInv'
<1>1. /\ hold[h] \in Objs /\ map[req[h].id] = hold[h] /\ req[h].id \in Ids
      /\ pc[h] # "remove"
  BY HandlerFacts, Zenon DEF Holding
<1>2. peer'[hold[h]] = q /\ \A o \in Objs : o # hold[h] => peer'[o] = peer[o]
  BY <1>1, Zenon DEF SafeState, TypeOK
<1>3. \A i \in Ids : Underway(i)' => Underway(i)
  BY UnderwayFrame, Zenon
<1>4. \A e \in Evictors : pc[e] = "remove" => pc'[e] = "remove"
  BY <1>1, Zenon DEF Evictors
<1>5. pc[h] = "use" => peer[hold[h]].idle = 0
  <2> SUFFICES ASSUME pc[h] = "use" PROVE peer[hold[h]].idle = 0
    BY Zenon
  <2>1. Underway(req[h].id) /\ hold[h] # None
    BY <1>1, NoneAssumption, Zenon DEF Underway
  <2> QED
    BY <1>1, <2>1, Zenon DEF FreshInv, FreshEntries
<1>6. \A o \in Objs : peer'[o].idle = peer[o].idle
  BY <1>2, Zenon
<1>7. ASSUME NEW o \in Objs, peer[o].idle # 0, peer'[o].active PROVE peer[o].active
  BY <1>2, <1>5, <1>7, Zenon
<1>8. FreshEntries' /\ CandidatesIdle'
  BY <1>3, <1>4, <1>6, <1>7, FreshFrame, Zenon
<1>9. SavedActive'
  <2> SUFFICES ASSUME NEW g \in Handlers, InDatabase(g)', roll'[g].active
               PROVE  peer'[hold'[g]].active
    BY Zenon DEF SavedActive
  <2>1. CASE g = h
    BY <1>2, <2>1
  <2>2. CASE g # h
    <3>1. InDatabase(g) /\ hold'[g] = hold[g] /\ roll[g].active
      BY <2>2, Zenon DEF InDatabase
    <3>2. hold[g] \in Objs /\ peer[hold[g]].active
      BY <3>1, HandlerFacts, Zenon DEF FreshInv, SavedActive
    <3>3. CASE hold[g] # hold[h]
      BY <1>2, <3>1, <3>2, <3>3, Zenon
    <3>4. CASE hold[g] = hold[h]
      <4>1. ~InDatabase(h)
        BY <2>2, <3>1, <3>4, Zenon DEF SafeState, WriterInv
      <4> QED
        BY <1>2, <3>1, <3>2, <3>4, <4>1
    <3> QED
      BY <3>3, <3>4, Zenon
  <2> QED
    BY <2>1, <2>2, Zenon
<1> QED
  BY <1>8, <1>9, Zenon DEF FreshInv

LEMMA WritingSteps ==
  ASSUME SafeState, FreshInv, NEW h \in Handlers,
         \/ StageUnchanged(h) \/ StagePersist(h) \/ FinishCommit(h) \/ FinishRollback(h)
         \/ RefreshVerified(h) \/ Heartbeat(h)
  PROVE  FreshInv'
<1> DEFINE p == peer[hold[h]]
<1>1. pc[h] \in Holding
  BY Zenon DEF StageUnchanged, StagePersist, FinishCommit, FinishRollback, RefreshVerified, Heartbeat,
         Holding
<1>2. hold[h] \in Objs /\ p \in Peer
  BY <1>1, HandlerFacts, Zenon DEF SafeState, TypeOK
<1>3. pc \in [Evictors -> PcValues] /\ Handlers \subseteq Evictors /\ Cleaner \in Evictors
      /\ Cleaner \notin Handlers
  BY CleanerAssumption, Zenon DEF SafeState, TypeOK, Evictors
<1>4. /\ req \in [Handlers -> Opt(Request)] /\ hold \in [Handlers -> Opt(Objs)]
      /\ roll \in [Handlers -> Opt(Rollback)]
  BY Zenon DEF SafeState, TypeOK
<1> USE DEF Goto, Return, evictVars, UnderwayAt, InDatabase
<1>5. CASE StageUnchanged(h)
  <2>1. Counted(p).idle = p.idle /\ (Counted(p).active = p.active)
    BY <1>2, <1>5, CountedPeer, ActivePeers, Zenon DEF StageUnchanged, TooFrequent, Me
  <2>2. peer' = [peer EXCEPT ![hold[h]] = Counted(p)]
    BY <1>5, Zenon DEF StageUnchanged
  <2>3. /\ UNCHANGED <<map, snap, cand, req, hold, roll>> /\ pc[h] = "use"
        /\ pc'[h] \in {"ok", "refresh"} /\ pc'[Cleaner] = pc[Cleaner]
        /\ \A g \in Handlers : g # h => pc'[g] = pc[g]
    BY <1>3, <1>5, Zenon DEF StageUnchanged
  <2> QED
    BY <1>1, <2>1, <2>2, <2>3, FreshWrite, Zenon
<1>6. CASE RefreshVerified(h)
  <2>1. Verified(p, TRUE).idle = p.idle /\ (Verified(p, TRUE).active = p.active)
    BY <1>2, MinorUpdates, ActivePeers, Zenon
  <2>2. peer' = [peer EXCEPT ![hold[h]] = Verified(p, TRUE)]
    BY <1>6, Zenon DEF RefreshVerified
  <2> QED
    BY <1>1, <1>3, <1>4, <1>6, <2>1, <2>2, FreshWrite, Zenon DEF RefreshVerified
<1>7. CASE FinishCommit(h)
  <2>1. Committed(p).idle = p.idle /\ (Committed(p).active = p.active)
    BY <1>2, CommittedPeer, ActivePeers, Zenon
  <2>2. peer' = [peer EXCEPT ![hold[h]] = Committed(p)]
    BY <1>7, Zenon DEF FinishCommit
  <2> QED
    BY <1>1, <1>3, <1>4, <1>7, <2>1, <2>2, FreshWrite, Zenon DEF FinishCommit
<1>8. CASE FinishRollback(h)
  <2>1. PICK a \in {FALSE, roll[h].active}, v \in {FALSE, roll[h].verified} :
          peer' = [peer EXCEPT ![hold[h]] = RolledBack(@, roll[h], a, v)]
    BY <1>8, Zenon DEF FinishRollback
  <2>2. roll[h] \in Rollback
    BY <1>8, Zenon DEF FinishRollback, SafeState, ControlInv, Control, Storing
  <2>3. a \in BOOLEAN /\ v \in BOOLEAN
    BY <2>2, SavedTimes, Zenon
  <2>4. a => p.active
    BY <1>8, Zenon DEF FinishRollback, FreshInv, SavedActive
  <2>5. /\ RolledBack(p, roll[h], a, v).idle = p.idle
        /\ RolledBack(p, roll[h], a, v).active = a
    <3>1. RolledBack(p, roll[h], a, v).idle = p.idle
      BY <1>2, <2>2, <2>3, RolledBackPeer, Zenon
    <3>2. RolledBack(p, roll[h], a, v).active = a
      BY <1>2, <2>3, RolledBackActive
    <3> QED
      BY <3>1, <3>2, Zenon
  <2>6. peer' = [peer EXCEPT ![hold[h]] = RolledBack(p, roll[h], a, v)]
    BY <2>1, Zenon
  <2> QED
    BY <1>1, <1>3, <1>4, <1>8, <2>4, <2>5, <2>6, FreshWrite, Zenon DEF FinishRollback
<1>9. CASE StagePersist(h)
  <2>1. Staged(p, req[h]).idle = p.idle /\ Staged(p, req[h]).active
    <3>1. ~(p.regs > RegPkLimit)
      BY <1>9, Zenon DEF StagePersist, TooFrequent, Me
    <3>2. req[h] \in Request /\ req[h].uuid \in Uuids /\ req[h].pk \in Pks /\ req[h].ip \in Ips
      BY <1>9, Zenon DEF StagePersist, SafeState, ControlInv, Control
    <3>3. Staged(p, req[h]).idle = p.idle
      BY <1>2, <3>1, <3>2, StagedPeer, Zenon
    <3>4. Staged(p, req[h]).active
      BY <1>2, ActiveUpdates, Zenon
    <3> QED
      BY <3>3, <3>4, Zenon
  <2>2. peer' = [peer EXCEPT ![hold[h]] = Staged(p, req[h])]
    BY <1>9, Zenon DEF StagePersist
  <2>3. /\ UNCHANGED <<map, snap, cand, req, hold>> /\ pc[h] = "use"
        /\ pc'[h] = "persist" /\ pc'[Cleaner] = pc[Cleaner]
        /\ \A g \in Handlers : g # h => pc'[g] = pc[g] /\ roll'[g] = roll[g]
    BY <1>3, <1>4, <1>9, Zenon DEF StagePersist
  <2> QED
    BY <1>1, <2>1, <2>2, <2>3, FreshWrite, Zenon
<1>10. CASE Heartbeat(h)
  <2>1. req[h].ip \in Ips
    BY <1>10, Zenon DEF Heartbeat, SafeState, ControlInv, Control
  <2>2. HeardFrom(p, req[h].ip).idle = p.idle /\ HeardFrom(p, req[h].ip).active
    BY <1>2, <2>1, HeardPeer, ActiveUpdates, Zenon
  <2>3. CASE UNCHANGED peer
    BY <1>1, <1>3, <1>4, <1>10, <2>3, FreshMove, Zenon DEF Heartbeat
  <2>4. CASE peer' = [peer EXCEPT ![hold[h]] = HeardFrom(p, req[h].ip)]
    BY <1>1, <1>3, <1>4, <1>10, <2>2, <2>4, FreshWrite, Zenon DEF Heartbeat
  <2> QED
    BY <1>10, <2>3, <2>4, Zenon DEF Heartbeat
<1> QED
  BY <1>5, <1>6, <1>7, <1>8, <1>9, <1>10, Zenon

\* A time lapses: the saved copy with it.
LEMMA LapsingSteps ==
  ASSUME SafeState, FreshInv, NEW i \in Ids,
         RegistrationLapses(i) \/ VerificationLapses(i) \/ RegPkWindowLapses(i)
  PROVE  FreshInv'
<1> DEFINE p == peer[map[i]]
<1>1. map[i] \in Objs /\ p \in Peer
  BY Zenon DEF RegistrationLapses, VerificationLapses, RegPkWindowLapses, SafeState, TypeOK, Opt
<1>2. UNCHANGED <<map, pc, req, hold, snap, cand>>
  BY Zenon DEF RegistrationLapses, VerificationLapses, RegPkWindowLapses, evictVars
<1>3. \E q : /\ peer' = [peer EXCEPT ![map[i]] = q] /\ q.idle = p.idle
             /\ q.active => p.active
  <2>1. CASE RegistrationLapses(i)
    <3>1. Lapsed(p).idle = p.idle /\ (Lapsed(p).active => p.active)
      BY <1>1, MinorUpdates, ActivePeers, Zenon
    <3>2. peer' = [peer EXCEPT ![map[i]] = Lapsed(p)]
      BY <2>1, Zenon DEF RegistrationLapses
    <3> QED
      BY <3>1, <3>2, Zenon
  <2>2. CASE VerificationLapses(i)
    <3>1. Unverified(p).idle = p.idle /\ (Unverified(p).active => p.active)
      BY <1>1, MinorUpdates, ActivePeers, Zenon
    <3>2. peer' = [peer EXCEPT ![map[i]] = Unverified(p)]
      BY <2>2, Zenon DEF VerificationLapses
    <3> QED
      BY <3>1, <3>2, Zenon
  <2>3. CASE RegPkWindowLapses(i)
    <3>1. Uncounted(p).idle = p.idle /\ (Uncounted(p).active => p.active)
      BY <1>1, MinorUpdates, ActivePeers, Zenon
    <3>2. peer' = [peer EXCEPT ![map[i]] = Uncounted(p)]
      BY <2>3, Zenon DEF RegPkWindowLapses
    <3> QED
      BY <3>1, <3>2, Zenon
  <2> QED
    BY <2>1, <2>2, <2>3, Zenon
<1>4. /\ \A o \in Objs : peer'[o].idle = peer[o].idle
      /\ \A o \in Objs : peer'[o].active => peer[o].active
  BY <1>1, <1>3, Zenon DEF SafeState, TypeOK
<1>5. \A j \in Ids : Underway(j)' => Underway(j)
  BY <1>2, Zenon DEF Underway
<1>6. FreshEntries' /\ CandidatesIdle'
  BY <1>2, <1>4, <1>5, FreshFrame, Zenon
<1>7. ASSUME NEW g \in Handlers, InDatabase(g), roll'[g].active
      PROVE  roll[g].active /\ (peer[hold[g]].active => peer'[hold[g]].active)
  <2>1. hold[g] \in Objs /\ roll[g] \in Rollback /\ roll[g] # None
    BY <1>7, HandlerFacts, NoneIsNoRow, Zenon DEF InDatabase, SafeState, ControlInv, Control, Storing
  <2>2. CASE RegistrationLapses(i)
    <3>1. roll'[g] = IF hold[g] = map[i] THEN Lapsed(roll[g]) ELSE roll[g]
      BY <2>1, <2>2, Zenon DEF RegistrationLapses, SavedLapses
    <3>2. hold[g] # map[i]
      <4>1. ~Lapsed(roll[g]).active
        BY <1>1, <2>1, ActiveUpdates, Zenon
      <4> QED
        BY <1>7, <3>1, <4>1, Zenon
    <3>3. peer'[hold[g]] = peer[hold[g]]
      BY <1>3, <2>1, <3>2, Zenon DEF SafeState, TypeOK
    <3> QED
      BY <1>7, <3>1, <3>2, <3>3, Zenon
  <2>3. CASE VerificationLapses(i)
    <3>1. roll'[g] \in {Unverified(roll[g]), roll[g]}
      BY <2>1, <2>3, Zenon DEF VerificationLapses, SavedLapses
    <3>2. roll[g].active
      BY <1>1, <1>7, <2>1, <3>1, ActiveUpdates, Zenon
    <3>3. peer'[hold[g]].active = peer[hold[g]].active
      <4>1. peer' = [peer EXCEPT ![map[i]] = Unverified(p)] /\ peer \in [Objs -> Peer]
        BY <2>3, Zenon DEF VerificationLapses, SafeState, TypeOK
      <4>2. Unverified(p).active = p.active
        BY <1>1, ActivePeers, Zenon
      <4> QED
        BY <2>1, <4>1, <4>2, Zenon
    <3> QED
      BY <3>2, <3>3, Zenon
  <2>4. CASE RegPkWindowLapses(i)
    <3>1. peer'[hold[g]].active = peer[hold[g]].active /\ roll'[g] = roll[g]
      <4>1. /\ peer' = [peer EXCEPT ![map[i]] = Uncounted(p)] /\ peer \in [Objs -> Peer]
            /\ roll' = roll
        BY <2>4, Zenon DEF RegPkWindowLapses, SafeState, TypeOK
      <4>2. Uncounted(p).active = p.active
        BY <1>1, ActivePeers, Zenon
      <4> QED
        BY <2>1, <4>1, <4>2, Zenon
    <3> QED
      BY <1>7, <3>1, Zenon
  <2> QED
    BY <2>2, <2>3, <2>4, Zenon
<1>8. SavedActive'
  BY <1>2, <1>7, SavedFrame, Zenon DEF FreshInv, InDatabase
<1> QED
  BY <1>6, <1>8, Zenon DEF FreshInv

\* An entry that no handler is looking for ages.
LEMMA AgingStep ==
  ASSUME StallBounded, SafeState, FreshInv, NEW i \in Ids, GrowIdle(i)
  PROVE  FreshInv'
<1> DEFINE p == peer[map[i]]
<1>1. map[i] \in Objs /\ p \in Peer /\ p.idle < 2 /\ ~Underway(i)
  BY Zenon DEF GrowIdle, SafeState, TypeOK, Opt
<1>2. UNCHANGED <<map, pc, req, hold, roll, snap, cand>>
  BY Zenon DEF GrowIdle, evictVars
<1>3. /\ peer'[map[i]] = Aged(p)
      /\ \A o \in Objs : o # map[i] => peer'[o] = peer[o]
  BY <1>1, Zenon DEF GrowIdle, SafeState, TypeOK
<1>4. Aged(p).idle # 0 /\ (Aged(p).active = p.active)
  <2>1. p.idle \in Nat
    BY <1>1 DEF Peer, Idle
  <2>2. Aged(p).idle = p.idle + 1
    BY <1>1, ActiveUpdates, Zenon
  <2>3. Aged(p).active = p.active
    BY <1>1, ActivePeers, Zenon
  <2> QED
    BY <2>1, <2>2, <2>3
<1>5. FreshEntries'
  <2> SUFFICES ASSUME NEW j \in Ids, Underway(j)', map'[j] # None
               PROVE  peer'[map'[j]].idle = 0
    BY Zenon DEF FreshEntries
  <2>1. Underway(j) /\ map[j] # None /\ map'[j] = map[j]
    BY <1>2, Zenon DEF Underway
  <2>2. map[j] \in Objs /\ map[j] # map[i]
    BY <1>1, <2>1, Zenon DEF SafeState, TypeOK, Opt, RefInv
  <2> QED
    BY <1>3, <2>1, <2>2, Zenon DEF FreshInv, FreshEntries
<1>6. CandidatesIdle'
  <2> SUFFICES ASSUME NEW e \in Evictors, NEW o \in cand[e]
               PROVE  peer'[o].idle # 0 /\ ~peer'[o].active
    BY <1>2, Zenon DEF FreshInv, CandidatesIdle
  <2>1. o \in Objs /\ peer[o].idle # 0 /\ ~peer[o].active
    BY Zenon DEF FreshInv, CandidatesIdle, SafeState, TypeOK
  <2> QED
    BY <1>3, <1>4, <2>1, Zenon
<1>7. SavedActive'
  <2>1. \A o \in Objs : peer[o].active => peer'[o].active
    BY <1>3, <1>4, Zenon
  <2>2. \A g \in Handlers : InDatabase(g) => hold[g] \in Objs
    BY HandlerFacts, Zenon
  <2> QED
    BY <1>2, <2>1, <2>2, SavedFrame, Zenon DEF FreshInv, InDatabase
<1> QED
  BY <1>5, <1>6, <1>7, Zenon DEF FreshInv

\* get and get_in_memory touch the entry they find.
LEMMA TouchingSteps ==
  ASSUME SafeState, FreshInv, NEW i \in Ids, map[i] # None, Touch(map[i]),
         UNCHANGED <<map, snap>>, \A e \in Evictors : pc[e] = "remove" => pc'[e] = "remove",
         \A j \in Ids : Underway(j)' => Underway(j) \/ j = i,
         \A g \in Handlers : InDatabase(g)' =>
           InDatabase(g) /\ hold'[g] = hold[g] /\ roll'[g] = roll[g]
  PROVE  FreshInv'
<1> DEFINE p == peer[map[i]]
<1>1. map[i] \in Objs /\ p \in Peer
  BY Zenon DEF SafeState, TypeOK, Opt
<1>2. /\ peer'[map[i]] = Accessed(p)
      /\ \A o \in Objs : o # map[i] => peer'[o] = peer[o]
  BY <1>1, Zenon DEF Touch, SafeState, TypeOK
<1>3. Accessed(p).idle = 0 /\ (Accessed(p).active = p.active)
  BY <1>1, MinorUpdates, ActivePeers, Zenon
<1>4. FreshEntries'
  <2> SUFFICES ASSUME NEW j \in Ids, Underway(j)', map[j] # None
               PROVE  peer'[map[j]].idle = 0
    BY Zenon DEF FreshEntries
  <2>1. CASE map[j] = map[i]
    BY <1>2, <1>3, <2>1, Zenon
  <2>2. CASE map[j] # map[i]
    <3>1. Underway(j) /\ map[j] \in Objs
      BY <2>2, Zenon DEF SafeState, TypeOK, Opt
    <3> QED
      BY <1>2, <2>2, <3>1, Zenon DEF FreshInv, FreshEntries
  <2> QED
    BY <2>1, <2>2, Zenon
<1>5. CandidatesIdle'
  <2> SUFFICES ASSUME NEW e \in Evictors
               PROVE  /\ pc'[e] # "remove" => cand'[e] = {}
                      /\ cand'[e] \subseteq snap[e]
                      /\ \A o \in cand'[e] : peer'[o].idle # 0 /\ ~peer'[o].active
    BY Zenon DEF CandidatesIdle
  <2>1. cand'[e] = cand[e] \ {map[i]}
    BY Zenon DEF Touch
  <2>2. ASSUME NEW o \in cand'[e] PROVE peer'[o].idle # 0 /\ ~peer'[o].active
    <3>1. o \in Objs /\ o # map[i] /\ peer[o].idle # 0 /\ ~peer[o].active
      BY <2>1, Zenon DEF FreshInv, CandidatesIdle, SafeState, TypeOK
    <3> QED
      BY <1>2, <3>1, Zenon
  <2> QED
    BY <2>1, <2>2, Zenon DEF FreshInv, CandidatesIdle
<1>6. SavedActive'
  <2>1. \A o \in Objs : peer[o].active => peer'[o].active
    BY <1>2, <1>3, Zenon
  <2>2. \A g \in Handlers : InDatabase(g) => hold[g] \in Objs
    BY HandlerFacts, Zenon
  <2> QED
    BY <2>1, <2>2, SavedFrame, Zenon DEF FreshInv
<1> QED
  BY <1>4, <1>5, <1>6, Zenon DEF FreshInv

\* evict_inactive notes entries that are idle and not active.
LEMMA SnapshotStep ==
  ASSUME SafeState, FreshInv, NEW e \in Evictors, NEW grace \in {1, 2}, Snapshot(e, grace),
         Goto(e, "remove"), UNCHANGED <<map, peer, req, hold, roll>>,
         e \in Handlers => pc[e] = "cache"
  PROVE  FreshInv'
<1>1. /\ pc'[e] = "remove" /\ \A d \in Evictors : d # e => pc'[d] = pc[d]
      /\ snap'[e] = {map[i] : i \in Cached} /\ cand'[e] = snap'[e] \cap IdleFor(grace)
      /\ \A d \in Evictors : d # e => snap'[d] = snap[d] /\ cand'[d] = cand[d]
  BY Zenon DEF Snapshot, Goto, SafeState, TypeOK
<1>2. \A i \in Ids : Underway(i)' => Underway(i)
  BY <1>1, Zenon DEF Underway, Evictors
<1>3. FreshEntries'
  BY <1>2, Zenon DEF FreshInv, FreshEntries
<1>4. CandidatesIdle'
  <2> SUFFICES ASSUME NEW d \in Evictors
               PROVE  /\ pc'[d] # "remove" => cand'[d] = {}
                      /\ cand'[d] \subseteq snap'[d]
                      /\ \A o \in cand'[d] : peer'[o].idle # 0 /\ ~peer'[o].active
    BY Zenon DEF CandidatesIdle
  <2>1. CASE d = e
    <3>1. \A o \in IdleFor(grace) : peer[o].idle # 0 /\ ~peer[o].active
      BY DEF IdleFor
    <3> QED
      BY <1>1, <2>1, <3>1, Zenon
  <2>2. CASE d # e
    BY <1>1, <2>2, Zenon DEF FreshInv, CandidatesIdle
  <2> QED
    BY <2>1, <2>2, Zenon
<1>5. SavedActive'
  <2>1. \A g \in Handlers : InDatabase(g)' => InDatabase(g)
    BY <1>1, Zenon DEF InDatabase, Evictors
  <2> QED
    BY <2>1, Zenon DEF FreshInv, SavedActive
<1> QED
  BY <1>3, <1>4, <1>5, Zenon DEF FreshInv

\* A new entry is no candidate: nobody referred to its object.
LEMMA InsertStep ==
  ASSUME SafeState, FreshInv, NEW h \in Handlers, pc[h] \in {"cache", "insert"}, InsertNew(h),
         UNCHANGED <<req, roll, snap, cand>>
  PROVE  FreshInv'
<1>1. PICK o \in Objs : /\ Unreferenced(o)
                        /\ map' = [map EXCEPT ![req[h].id] = o]
                        /\ peer' = [peer EXCEPT ![o] = PeerOf(fill[h])]
                        /\ hold' = [hold EXCEPT ![h] = o]
  BY Zenon DEF InsertNew
<1>2. req[h].id \in Ids /\ (fill[h] = None \/ fill[h] \in Row)
  BY HandlerFacts, Zenon
<1>3. PeerOf(fill[h]).idle = 0
  BY <1>2, NewPeers, LoadedPeers, PeerOfNone, Zenon
<1>4. /\ pc'[h] = "use" /\ \A e \in Evictors : e # h => pc'[e] = pc[e]
      /\ \A g \in Handlers : g # h => hold'[g] = hold[g]
  BY <1>1, Zenon DEF InsertNew, Goto, SafeState, TypeOK, Evictors
<1>5. /\ peer'[o] = PeerOf(fill[h]) /\ map'[req[h].id] = o
      /\ \A x \in Objs : x # o => peer'[x] = peer[x]
      /\ \A i \in Ids : i # req[h].id => map'[i] = map[i]
  BY <1>1, <1>2, Zenon DEF SafeState, TypeOK
<1>6. FreshEntries'
  <2> SUFFICES ASSUME NEW i \in Ids, Underway(i)', map'[i] # None
               PROVE  peer'[map'[i]].idle = 0
    BY Zenon DEF FreshEntries
  <2>1. CASE i = req[h].id
    BY <1>3, <1>5, <2>1, Zenon
  <2>2. CASE i # req[h].id
    <3>1. map'[i] = map[i] /\ map[i] \in Objs /\ map[i] # o
      BY <1>1, <1>5, <2>2 DEF Unreferenced, SafeState, TypeOK, Opt
    <3>2. Underway(i)
      BY <1>4, <2>2, Zenon DEF Underway, Evictors
    <3> QED
      BY <1>5, <3>1, <3>2, Zenon DEF FreshInv, FreshEntries
  <2> QED
    BY <2>1, <2>2, Zenon
<1>7. CandidatesIdle'
  <2> SUFFICES ASSUME NEW e \in Evictors
               PROVE  /\ pc'[e] # "remove" => cand[e] = {}
                      /\ cand[e] \subseteq snap[e]
                      /\ \A x \in cand[e] : peer'[x].idle # 0 /\ ~peer'[x].active
    BY Zenon DEF CandidatesIdle
  <2>1. (pc'[e] # "remove" => cand[e] = {}) /\ cand[e] \subseteq snap[e]
    BY <1>4, Zenon DEF FreshInv, CandidatesIdle
  <2>2. ASSUME NEW x \in cand[e] PROVE peer'[x].idle # 0 /\ ~peer'[x].active
    <3>1. x \in Objs /\ x # o
      BY <1>1, <2>1, Zenon DEF Unreferenced, SnappedBy, SafeState, TypeOK
    <3>2. peer[x].idle # 0 /\ ~peer[x].active
      BY Zenon DEF FreshInv, CandidatesIdle
    <3> QED
      BY <1>5, <3>1, <3>2, Zenon
  <2> QED
    BY <2>1, <2>2, Zenon
<1>8. SavedActive'
  <2>1. \A g \in Handlers : InDatabase(g)' => g # h /\ InDatabase(g) /\ hold[g] # None
    BY <1>4, Zenon DEF InDatabase, Evictors, SafeState, ControlInv, Control, Holding
  <2>2. \A g \in Handlers : hold[g] # None => peer'[hold[g]] = peer[hold[g]]
    BY InsertSpares, Zenon DEF SafeState
  <2> QED
    BY <1>4, <2>1, <2>2, SavedFrame, Zenon DEF FreshInv
<1> QED
  BY <1>6, <1>7, <1>8, Zenon DEF FreshInv

LEMMA CachingSteps ==
  ASSUME SafeState, FreshInv, NEW h \in Handlers, CachePeer(h) \/ CacheAfterEvict(h)
  PROVE  FreshInv'
<1>1. /\ pc[h] \in {"cache", "insert"}
      /\ pc \in [Evictors -> PcValues] /\ Handlers \subseteq Evictors
      /\ Cleaner \in Evictors /\ Cleaner \notin Handlers
  BY CleanerAssumption, Zenon DEF CachePeer, CacheAfterEvict, SafeState, TypeOK, Evictors
<1>2. /\ req \in [Handlers -> Opt(Request)] /\ hold \in [Handlers -> Opt(Objs)]
      /\ roll \in [Handlers -> Opt(Rollback)]
  BY Zenon DEF SafeState, TypeOK
<1>3. \/ InsertNew(h) /\ UNCHANGED <<req, roll, snap, cand>>
      \/ UseExisting(h) /\ UNCHANGED <<req, roll, snap, cand>>
      \/ /\ Snapshot(h, 1) /\ Goto(h, "remove") /\ pc[h] = "cache"
         /\ UNCHANGED <<map, peer, req, hold, roll>>
      \/ Goto(h, "cache") /\ UNCHANGED <<map, peer, req, hold, roll, snap, cand>>
      \/ Return(h) /\ UNCHANGED <<map, peer, snap, cand>>
  BY Zenon DEF CachePeer, CacheAfterEvict, evictVars, PEER_CACHE_ACTIVE_GRACE
<1>4. CASE InsertNew(h) /\ UNCHANGED <<req, roll, snap, cand>>
  BY <1>1, <1>4, InsertStep, Zenon
<1>5. CASE UseExisting(h) /\ UNCHANGED <<req, roll, snap, cand>>
  BY <1>1, <1>2, <1>5, FreshMove, Zenon DEF UseExisting, Goto, UnderwayAt, InDatabase
<1>6. CASE /\ Snapshot(h, 1) /\ Goto(h, "remove") /\ pc[h] = "cache"
           /\ UNCHANGED <<map, peer, req, hold, roll>>
  BY <1>1, <1>6, SnapshotStep, Zenon
<1>7. CASE Goto(h, "cache") /\ UNCHANGED <<map, peer, req, hold, roll, snap, cand>>
  BY <1>1, <1>7, FreshMove, Zenon DEF Goto, UnderwayAt, InDatabase
<1>8. CASE Return(h) /\ UNCHANGED <<map, peer, snap, cand>>
  BY <1>1, <1>2, <1>8, FreshMove, Zenon DEF Return, Goto, UnderwayAt, InDatabase
<1> QED
  BY <1>3, <1>4, <1>5, <1>6, <1>7, <1>8, Zenon

\* The removed objects were in no other snapshot.
LEMMA EvictStep ==
  ASSUME SafeState, FreshInv, NEW e \in Evictors, Evict(e)
  PROVE  FreshInv'
<1>1. /\ pc[e] = "remove" /\ pc'[e] = "return"
      /\ \A d \in Evictors : d # e => pc'[d] = pc[d] /\ cand'[d] = cand[d]
      /\ cand'[e] = {} /\ UNCHANGED <<snap, req, hold, roll>>
  BY Zenon DEF Evict, Goto, SafeState, TypeOK
<1>2. \A o \in Objs : ~ShouldRemove(e, o) => peer'[o] = peer[o]
  BY Zenon DEF Evict
<1>3. \A i \in Ids : map'[i] # None => map'[i] = map[i] /\ ~ShouldRemove(e, map[i])
  BY Zenon DEF Evict, SafeState, TypeOK, Opt
<1>4. FreshEntries'
  <2> SUFFICES ASSUME NEW i \in Ids, Underway(i)', map'[i] # None
               PROVE  peer'[map'[i]].idle = 0
    BY Zenon DEF FreshEntries
  <2>1. map'[i] = map[i] /\ map[i] \in Objs /\ peer'[map[i]] = peer[map[i]]
    BY <1>2, <1>3, Zenon DEF SafeState, TypeOK, Opt
  <2>2. Underway(i)
    BY <1>1, Zenon DEF Underway, Evictors
  <2> QED
    BY <2>1, <2>2, Zenon DEF FreshInv, FreshEntries
<1>5. CandidatesIdle'
  <2> SUFFICES ASSUME NEW d \in Evictors
               PROVE  /\ pc'[d] # "remove" => cand'[d] = {}
                      /\ cand'[d] \subseteq snap'[d]
                      /\ \A o \in cand'[d] : peer'[o].idle # 0 /\ ~peer'[o].active
    BY Zenon DEF CandidatesIdle
  <2>1. CASE d = e
    BY <1>1, <2>1, Zenon
  <2>2. CASE d # e
    <3>1. cand'[d] = cand[d] /\ cand[d] \subseteq snap[d] /\ pc'[d] = pc[d]
      BY <1>1, <2>2, Zenon DEF FreshInv, CandidatesIdle
    <3>2. ASSUME NEW o \in cand[d] PROVE peer'[o].idle # 0 /\ ~peer'[o].active
      <4>1. o \in Objs /\ ~ShouldRemove(e, o)
        BY <2>2, <3>1, Zenon DEF ShouldRemove, SnappedBy, SafeState, TypeOK
      <4>2. peer[o].idle # 0 /\ ~peer[o].active
        BY Zenon DEF FreshInv, CandidatesIdle
      <4> QED
        BY <1>2, <4>1, <4>2, Zenon
    <3> QED
      BY <1>1, <3>1, <3>2, Zenon DEF FreshInv, CandidatesIdle
  <2> QED
    BY <2>1, <2>2, Zenon
<1>6. SavedActive'
  <2>1. \A g \in Handlers : InDatabase(g)' => InDatabase(g) /\ hold[g] # None
    BY <1>1, Zenon DEF InDatabase, Evictors, SafeState, ControlInv, Control, Holding
  <2>2. \A g \in Handlers : hold[g] # None => peer'[hold[g]] = peer[hold[g]]
    BY EvictSpares, Zenon DEF SafeState
  <2> QED
    BY <1>1, <2>1, <2>2, SavedFrame, Zenon DEF FreshInv
<1> QED
  BY <1>4, <1>5, <1>6, Zenon DEF FreshInv

LEMMA EvictReturnStep ==
  ASSUME SafeState, FreshInv, NEW e \in Evictors, EvictReturn(e)
  PROVE  FreshInv'
<1>1. /\ pc[e] = "return" /\ pc'[e] \in {"idle", "insert"}
      /\ \A d \in Evictors : d # e => pc'[d] = pc[d] /\ snap'[d] = snap[d]
      /\ UNCHANGED <<map, peer, req, hold, roll, cand>>
  BY Zenon DEF EvictReturn, Goto, SafeState, TypeOK
<1>2. \A i \in Ids : Underway(i)' => Underway(i)
  BY <1>1, Zenon DEF Underway, Evictors
<1>3. FreshEntries'
  BY <1>1, <1>2, Zenon DEF FreshInv, FreshEntries
<1>4. CandidatesIdle'
  <2> SUFFICES ASSUME NEW d \in Evictors
               PROVE  /\ pc'[d] # "remove" => cand[d] = {}
                      /\ cand[d] \subseteq snap'[d]
                      /\ \A o \in cand[d] : peer[o].idle # 0 /\ ~peer[o].active
    BY <1>1, Zenon DEF CandidatesIdle
  <2>1. d = e => cand[d] = {}
    BY <1>1, Zenon DEF FreshInv, CandidatesIdle
  <2> QED
    BY <1>1, <2>1, Zenon DEF FreshInv, CandidatesIdle
<1>5. SavedActive'
  <2>1. \A g \in Handlers : InDatabase(g)' => InDatabase(g)
    BY <1>1, Zenon DEF InDatabase, Evictors
  <2> QED
    BY <1>1, <2>1, Zenon DEF FreshInv, SavedActive
<1> QED
  BY <1>3, <1>4, <1>5, Zenon DEF FreshInv

LEMMA NextFresh ==
  ASSUME StallBounded, SafeState, FreshInv, [Next]_vars
  PROVE  FreshInv'
<1>1. ASSUME NEW h \in Handlers, GetHit(h) PROVE FreshInv'
  <2> DEFINE i == req[h].id
  <2>1. /\ i \in Ids /\ map[i] # None /\ Touch(map[i]) /\ UNCHANGED <<map, snap, req, roll>>
        /\ pc[h] = "get"
    BY <1>1, HandlerFacts, Zenon DEF GetHit
  <2>2. /\ pc'[h] = "use" /\ \A e \in Evictors : e # h => pc'[e] = pc[e]
        /\ \A g \in Handlers : g # h => hold'[g] = hold[g]
    BY <1>1, Zenon DEF GetHit, Goto, SafeState, TypeOK, Evictors
  <2>3. \A j \in Ids : Underway(j)' => Underway(j) \/ j = i
    BY <2>1, <2>2, Zenon DEF Underway, Evictors
  <2>4. \A g \in Handlers : InDatabase(g)' =>
          InDatabase(g) /\ hold'[g] = hold[g] /\ roll'[g] = roll[g]
    BY <2>1, <2>2, Zenon DEF InDatabase, Evictors
  <2>5. \A e \in Evictors : pc[e] = "remove" => pc'[e] = "remove"
    BY <2>1, <2>2, Zenon
  <2> HIDE DEF i
  <2> QED
    BY <2>1, <2>3, <2>4, <2>5, TouchingSteps, Zenon
<1>2. ASSUME NEW i \in Ids, GetInMemory(i) PROVE FreshInv'
  <2>1. map[i] # None /\ Touch(map[i]) /\ UNCHANGED <<map, snap, pc, req, hold, roll>>
    BY <1>2, Zenon DEF GetInMemory
  <2>2. \A j \in Ids : Underway(j)' => Underway(j)
    BY <2>1, Zenon DEF Underway
  <2>3. \A g \in Handlers : InDatabase(g)' => InDatabase(g)
    BY <2>1, Zenon DEF InDatabase
  <2> QED
    BY <2>1, <2>2, <2>3, TouchingSteps, Zenon
<1>3. ASSUME CleanupTick PROVE FreshInv'
  <2>1. Cleaner \in Evictors /\ Cleaner \notin Handlers
    BY CleanerAssumption, Zenon DEF Evictors
  <2> QED
    BY <1>3, <2>1, SnapshotStep, Zenon DEF CleanupTick, PEER_CACHE_IDLE
<1>4. ASSUME \/ UNCHANGED vars
             \/ \E i \in Ids, ident \in Identity : ApiApproves(i, ident)
      PROVE FreshInv'
  <2>1. UNCHANGED <<map, peer, pc, req, hold, roll, snap, cand>>
    BY <1>4, Zenon DEF vars, ApiApproves, evictVars
  <2> QED
    BY <2>1, Zenon DEF FreshInv, FreshEntries, CandidatesIdle, SavedActive, Underway, InDatabase
<1>5. ASSUME Crash PROVE FreshInv'
  <2>1. /\ \A i \in Ids : map'[i] = None
        /\ \A e \in Evictors : cand'[e] = {}
        /\ \A h \in Handlers : ~InDatabase(h)'
    BY <1>5, Zenon DEF Crash, InDatabase, Evictors
  <2> QED
    BY <2>1, Zenon DEF FreshInv, FreshEntries, CandidatesIdle, SavedActive
<1> QED
  BY <1>1, <1>2, <1>3, <1>4, <1>5, MovingSteps, WritingSteps, LapsingSteps, AgingStep,
     CachingSteps, EvictStep, EvictReturnStep, Zenon
  DEF Next, HandlerStep, TimePasses, Evictors
-----------------------------------------------------------------------------
(* Eviction.                                                               *)

\* persistence_in_progress is set only while a handler stores the Peer.
BusyHeld == \A o \in Objs : peer[o].busy => \E h \in Handlers : InDatabase(h) /\ hold[h] = o

LEMMA BusyFrame ==
  ASSUME BusyHeld,
         \A o \in Objs : peer'[o].busy => peer[o].busy,
         \A g \in Handlers : InDatabase(g) => InDatabase(g)' /\ hold'[g] = hold[g]
  PROVE  BusyHeld'
  BY Zenon DEF BusyHeld

\* What cache_peer and evict_inactive put in place of a Peer is not busy.
LEMMA InsertedIdle ==
  ASSUME SafeState, NEW h \in Handlers, InsertNew(h), NEW o \in Objs, peer'[o].busy
  PROVE  peer[o].busy
<1>1. PICK x \in Objs : peer' = [peer EXCEPT ![x] = PeerOf(fill[h])]
  BY Zenon DEF InsertNew
<1>2. ~PeerOf(fill[h]).busy
  BY HandlerFacts, LoadedPeers, PeerOfNone, NewPeers, Zenon
<1>3. peer'[o] = IF o = x THEN PeerOf(fill[h]) ELSE peer[o]
  BY <1>1, Zenon DEF SafeState, TypeOK
<1> QED
  BY <1>2, <1>3, Zenon

LEMMA NextBusy ==
  ASSUME SafeState, BusyHeld, [Next]_vars
  PROVE  BusyHeld'
<1> USE CleanerAssumption
<1>1. ASSUME Quiet PROVE BusyHeld'
  <2>1. \A o \in Objs : peer'[o].busy => peer[o].busy
    BY <1>1, Zenon DEF Quiet, SameIdentity
  <2>2. \A g \in Handlers : InDatabase(g) => InDatabase(g)' /\ hold'[g] = hold[g]
    BY <1>1, Zenon DEF Quiet, InDatabase, Storing
  <2> QED
    BY <2>1, <2>2, BusyFrame, Zenon
<1>2. ASSUME NEW h \in Handlers, GetPeer(h) \/ CachePeer(h) \/ CacheAfterEvict(h) PROVE BusyHeld'
  <2>1. UNCHANGED peer \/ InsertNew(h)
    BY <1>2, Zenon DEF GetPeer, CachePeer, CacheAfterEvict, UseExisting
  <2>2. \A o \in Objs : peer'[o].busy => peer[o].busy
    BY <2>1, InsertedIdle, Zenon
  <2>3. ~InDatabase(h) /\ \A g \in Handlers : g # h => pc'[g] = pc[g] /\ hold'[g] = hold[g]
    BY <1>2, Zenon DEF GetPeer, CachePeer, CacheAfterEvict, UseExisting, InsertNew, Return, Goto,
                InDatabase, SafeState, TypeOK, Evictors
  <2> QED
    BY <2>2, <2>3, BusyFrame, Zenon DEF InDatabase
<1>3. ASSUME NEW e \in Evictors, Evict(e) PROVE BusyHeld'
  <2>1. \A o \in Objs : peer'[o] = peer[o] \/ peer'[o] = DefaultPeer
    BY <1>3, Zenon DEF Evict
  <2>2. \A o \in Objs : peer'[o].busy => peer[o].busy
    BY <2>1, NewPeers, Zenon
  <2>3. \A g \in Handlers : InDatabase(g) => InDatabase(g)' /\ hold'[g] = hold[g]
    BY <1>3, Zenon DEF Evict, Goto, InDatabase, SafeState, TypeOK, Evictors
  <2> QED
    BY <2>2, <2>3, BusyFrame, Zenon
<1>4. ASSUME NEW h \in Handlers, StagePersist(h) PROVE BusyHeld'
  <2>1. UNCHANGED hold /\ pc'[h] = "persist" /\ \A g \in Handlers : g # h => pc'[g] = pc[g]
    BY <1>4, Zenon DEF StagePersist, Goto, SafeState, TypeOK, Evictors
  <2>2. \A o \in Objs : o # hold[h] => peer'[o] = peer[o]
    BY <1>4, Zenon DEF StagePersist, SafeState, TypeOK
  <2>3. InDatabase(h)' /\ pc[h] = "use"
    BY <1>4, <2>1, Zenon DEF StagePersist, InDatabase
  <2>4. \A g \in Handlers : InDatabase(g) => InDatabase(g)'
    BY <2>1, <2>3, Zenon DEF InDatabase
  <2> QED
    BY <2>1, <2>2, <2>3, <2>4, Zenon DEF BusyHeld
<1>5. ASSUME NEW h \in Handlers, Persist(h) PROVE BusyHeld'
  BY <1>5, BusyFrame, Zenon DEF Persist, Goto, InDatabase, SafeState, TypeOK, Evictors
<1>6. ASSUME NEW h \in Handlers, FinishCommit(h) \/ FinishRollback(h) PROVE BusyHeld'
  <2> DEFINE p == peer[hold[h]]
  <2>1. hold[h] \in Objs /\ p \in Peer /\ roll[h] \in Rollback
    BY <1>6, HandlerFacts, Zenon DEF FinishCommit, FinishRollback, Holding, Storing, SafeState, TypeOK,
                              ControlInv, Control
  <2>2. \A o \in Objs : o # hold[h] => peer'[o] = peer[o]
    BY <1>6, Zenon DEF FinishCommit, FinishRollback, SafeState, TypeOK
  <2>3. \A g \in Handlers : g # h => pc'[g] = pc[g] /\ hold'[g] = hold[g]
    BY <1>6, Zenon DEF FinishCommit, FinishRollback, Return, Goto, SafeState, TypeOK, Evictors
  <2>4. ~peer'[hold[h]].busy
    <3>1. CASE FinishCommit(h)
      <4>1. peer'[hold[h]] = Committed(p)
        BY <2>1, <3>1, Zenon DEF FinishCommit, SafeState, TypeOK
      <4> QED
        BY <2>1, <4>1, CommittedPeer, Zenon
    <3>2. CASE FinishRollback(h)
      <4>1. PICK a \in {FALSE, roll[h].active}, v \in {FALSE, roll[h].verified} :
              peer' = [peer EXCEPT ![hold[h]] = RolledBack(@, roll[h], a, v)]
        BY <3>2, Zenon DEF FinishRollback
      <4>2. peer'[hold[h]] = RolledBack(p, roll[h], a, v)
        BY <2>1, <4>1, Zenon DEF SafeState, TypeOK
      <4>3. a \in BOOLEAN /\ v \in BOOLEAN
        BY <2>1, SavedTimes, Zenon
      <4>4. ~RolledBack(p, roll[h], a, v).busy
        BY <2>1, <4>3, RolledBackPeer, Zenon
      <4> QED
        BY <4>2, <4>4, Zenon
    <3> QED
      BY <1>6, <3>1, <3>2, Zenon
  <2> SUFFICES ASSUME NEW o \in Objs, peer'[o].busy
               PROVE  \E g \in Handlers : InDatabase(g)' /\ hold'[g] = o
    BY Zenon DEF BusyHeld
  <2>5. o # hold[h] /\ peer[o].busy
    BY <2>2, <2>4, Zenon
  <2>6. PICK g \in Handlers : InDatabase(g) /\ hold[g] = o
    BY <2>5, Zenon DEF BusyHeld
  <2>7. pc'[g] = pc[g] /\ hold'[g] = o
    BY <2>3, <2>5, <2>6, Zenon
  <2> QED
    BY <2>6, <2>7, Zenon DEF InDatabase
<1>7. ASSUME Crash PROVE BusyHeld'
  BY <1>7, NewPeers, Zenon DEF Crash, BusyHeld
<1> QED
  BY <1>1, <1>2, <1>3, <1>4, <1>5, <1>6, <1>7, QuietOrLoud, Zenon DEF Loud, Evictors, SafeState

\* An entry leaves the map only by an eviction or with the process.
LEMMA GoneByEviction ==
  ASSUME SafeState, [Next]_vars, ~Crash, NEW i \in Ids, map[i] # None, map'[i] = None
  PROVE  \E e \in Evictors : Evict(e) /\ ShouldRemove(e, map[i])
<1>1. \A h \in Handlers : GetPeer(h) \/ StagePersist(h) \/ Persist(h) \/ FinishCommit(h)
                          \/ FinishRollback(h) => UNCHANGED map
  BY Zenon DEF GetPeer, StagePersist, Persist, FinishCommit, FinishRollback
<1>2. ASSUME NEW h \in Handlers, CachePeer(h) \/ CacheAfterEvict(h) PROVE FALSE
  <2>1. UNCHANGED map \/ \E o \in Objs : map' = [map EXCEPT ![req[h].id] = o]
    BY <1>2, Zenon DEF CachePeer, CacheAfterEvict, UseExisting, InsertNew
  <2> QED
    BY <2>1, NoneAssumption, Zenon DEF SafeState, TypeOK
<1>3. ~Quiet
  BY Zenon DEF Quiet
<1>4. \A e \in Evictors : Evict(e) => ShouldRemove(e, map[i])
  BY Zenon DEF Evict
<1> QED
  BY <1>1, <1>2, <1>3, <1>4, QuietOrLoud, Zenon DEF Loud, Evictors, SafeState

\* The state that every step keeps when no handler stalls.
CacheInv == SafeState /\ BusyHeld /\ FreshInv

LEMMA InitCache == Init => CacheInv
<1> SUFFICES ASSUME Init PROVE CacheInv
  BY Zenon
<1>1. SafeState
  BY InitType, Zenon DEF Init, SafeState, RefInv, NoOrphan, WriterInv, InDatabase, Evictors
<1>2. BusyHeld
  BY NewPeers, Zenon DEF Init, BusyHeld
<1>3. FreshInv
  BY Zenon DEF Init, FreshInv, FreshEntries, CandidatesIdle, SavedActive, InDatabase, Evictors
<1> QED
  BY <1>1, <1>2, <1>3, Zenon DEF CacheInv

LEMMA NextCache ==
  ASSUME StallBounded, CacheInv, [Next]_vars
  PROVE  CacheInv'
<1>1. SafeState'
  BY NextType, NextControl, NextRef, NextWriter, Zenon DEF CacheInv, SafeState
<1> QED
  BY <1>1, NextBusy, NextFresh, Zenon DEF CacheInv

\* evict_inactive forgets no device that registered within the grace period
\* and none whose registration is being stored, provided that handlers use an
\* entry within 60 s of finding it.
THEOREM OnlyInactiveEvicted == ASSUME StallBounded PROVE Spec => EvictsOnlyInactive
<1>1. CacheInv /\ [Next]_vars =>
        [\A e \in Evictors, i \in Ids :
           /\ pc[e] = "remove" /\ pc'[e] = "return"
           /\ map[i] # None /\ map'[i] = None
           => ~peer[map[i]].active /\ ~peer[map[i]].busy]_vars
  <2> SUFFICES ASSUME CacheInv, [Next]_vars, NEW e \in Evictors, NEW i \in Ids,
                      pc'[e] = "return", map[i] # None, map'[i] = None
               PROVE  ~peer[map[i]].active /\ ~peer[map[i]].busy
    BY Zenon
  <2>1. ~Crash
    BY Zenon DEF Crash
  <2>2. PICK d \in Evictors : ShouldRemove(d, map[i])
    BY <2>1, GoneByEviction, Zenon DEF CacheInv
  <2>3. ~peer[map[i]].active
    BY <2>2, Zenon DEF ShouldRemove, CacheInv, FreshInv, CandidatesIdle
  <2>4. map[i] \in Objs
    BY Zenon DEF CacheInv, SafeState, TypeOK, Opt
  <2>5. ~peer[map[i]].busy
    BY <2>2, <2>4, Zenon DEF ShouldRemove, HeldBy, CacheInv, BusyHeld
  <2> QED
    BY <2>3, <2>5, Zenon
<1>2. CacheInv /\ [Next]_vars => CacheInv'
  BY NextCache, Zenon
<1> QED
  BY <1>1, <1>2, InitCache, PTL DEF Spec, EvictsOnlyInactive
=============================================================================
