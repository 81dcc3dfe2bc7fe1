---------------------------- MODULE PeerRegistry ----------------------------
(***************************************************************************)
(* The peer registry of the rendezvous server: the in-memory PeerMap in    *)
(* front of the SQLite `peer' table, the RegisterPk and RegisterPeer       *)
(* handlers that stage, persist and roll back an identity, the lookups of  *)
(* the other handlers, and the eviction of inactive cache entries.         *)
(*                                                                         *)
(* A handler is one invocation of register_pk_common, register_peer_common *)
(* or PeerMap::get.  Every await at which another task can observe or      *)
(* change the registry separates two actions.  An Arc<RwLock<Peer>> is an  *)
(* object of Objs; Arc::strong_count is the number of places in this state *)
(* that refer to it.                                                       *)
(***************************************************************************)
EXTENDS Naturals, FiniteSets

CONSTANTS
  Ids, Uuids, Pks, Ips,
  Loopback,        \* the addresses of Ips for which is_loopback() holds
  Objs,            \* heap cells for cached Peer objects
  Handlers,        \* concurrent handler invocations
  Cleaner,         \* the periodic cleanup of io_loop
  MaxCachedPeers,  \* max_cached_peers
  RegPkLimit,      \* 2 in `peer.reg_pk.0 > 2'
  AllowUnmanaged,  \* inner.allow_unmanaged_devices
  StallBounded,    \* assumed of the load: a handler uses its Peer within 60 s
                   \* of looking it up (pool.get() waits without a limit)
  CrashPossible,   \* whether the process may be killed and restarted
  None             \* an empty field, an absent row, no object

ASSUME NoneAssumption ==
  /\ None \notin Ids /\ None \notin Uuids /\ None \notin Pks
  /\ None \notin Ips /\ None \notin Objs
ASSUME CleanerAssumption == Cleaner \notin Handlers
ASSUME BoundAssumption == MaxCachedPeers \in Nat \ {0} /\ RegPkLimit \in Nat
ASSUME ModeAssumption ==
  AllowUnmanaged \in BOOLEAN /\ StallBounded \in BOOLEAN /\ CrashPossible \in BOOLEAN

VARIABLES
  map,       \* PeerMap.map
  peer,      \* the Peer behind each object
  db,        \* the peer table, one row per id (index_peer_id is unique)
  approved,  \* the identity the management API vouches for
  granted,   \* history: every identity it ever vouched for
  pc, req, hold,
  fill,      \* what cache_peer is asked to insert: a loaded row or a default
  roll,      \* PeerRegistrationRollback
  snap,      \* the Arcs cloned by evict_inactive
  cand       \* its candidates, minus those accessed since

vars == <<map, peer, db, approved, granted, pc, req, hold, fill, roll, snap, cand>>
evictVars == <<snap, cand>>
apiVars == <<approved, granted>>

Evictors == Handlers \cup {Cleaner}
Identity == [uuid : Uuids, pk : Pks]
Row == [uuid : Uuids, pk : Pks, ip : Ips]
Opt(S) == S \cup {None}

\* Last access: younger than 60 s, at least 60 s, at least 600 s.
Idle == 0 .. 2
PEER_CACHE_ACTIVE_GRACE == 1
PEER_CACHE_IDLE == 2

Peer ==
  [guid : BOOLEAN, uuid : Opt(Uuids), pk : Opt(Pks), ip : Opt(Ips),
   addr : Opt(Ips), active : BOOLEAN, verified : BOOLEAN, busy : BOOLEAN,
   idle : Idle, regs : 0 .. RegPkLimit + 1]

Rollback ==
  [addr : Opt(Ips), active : BOOLEAN, uuid : Opt(Uuids), pk : Opt(Pks),
   ip : Opt(Ips), verified : BOOLEAN]

ASSUME NoneIsNoRow == None \notin Row /\ None \notin Identity /\ None \notin Rollback

DefaultPeer ==
  [guid |-> FALSE, uuid |-> None, pk |-> None, ip |-> None,
   addr |-> None, active |-> FALSE, verified |-> FALSE, busy |-> FALSE,
   idle |-> 0, regs |-> 0]

PeerOf(row) ==
  IF row = None THEN DefaultPeer
  ELSE [DefaultPeer EXCEPT !.guid = TRUE, !.uuid = row.uuid, !.pk = row.pk, !.ip = row.ip]

Request ==
  [kind : {"RegisterPk", "RegisterPeer", "Get"}, id : Ids,
   uuid : Opt(Uuids), pk : Opt(Pks), ip : Opt(Ips)]

PcValues ==
  {"idle", "verify", "get", "load", "cache", "remove", "return", "insert",
   "use", "persist", "commit", "rollback", "refresh", "ok"}

TypeOK ==
  /\ map \in [Ids -> Opt(Objs)]
  /\ peer \in [Objs -> Peer]
  /\ db \in [Ids -> Opt(Row)]
  /\ approved \in [Ids -> Opt(Identity)]
  /\ granted \in [Ids -> SUBSET Identity]
  /\ pc \in [Evictors -> PcValues]
  /\ req \in [Handlers -> Opt(Request)]
  /\ hold \in [Handlers -> Opt(Objs)]
  /\ fill \in [Handlers -> Opt(Row)]
  /\ roll \in [Handlers -> Opt(Rollback)]
  /\ snap \in [Evictors -> SUBSET Objs]
  /\ cand \in [Evictors -> SUBSET Objs]

Init ==
  /\ map = [i \in Ids |-> None]
  /\ peer = [o \in Objs |-> DefaultPeer]
  /\ db = [i \in Ids |-> None]
  /\ approved = [i \in Ids |-> None]
  /\ granted = [i \in Ids |-> {}]
  /\ pc = [e \in Evictors |-> "idle"]
  /\ req = [h \in Handlers |-> None]
  /\ hold = [h \in Handlers |-> None]
  /\ fill = [h \in Handlers |-> None]
  /\ roll = [h \in Handlers |-> None]
  /\ snap = [e \in Evictors |-> {}]
  /\ cand = [e \in Evictors |-> {}]

-----------------------------------------------------------------------------
(* References to an object: the map, the handlers that hold it, and the    *)
(* snapshots of running evictions.                                         *)

Cached == {i \in Ids : map[i] # None}
HeldBy(o) == {h \in Handlers : hold[h] = o}
SnappedBy(o) == {e \in Evictors : o \in snap[e]}
Unreferenced(o) ==
  /\ \A i \in Ids : map[i] # o
  /\ HeldBy(o) = {}
  /\ SnappedBy(o) = {}

\* Writing last_access_time: it is no longer what any candidate list recorded.
Accessed(p) == [p EXCEPT !.idle = 0]

Touch(o) ==
  /\ peer' = [peer EXCEPT ![o] = Accessed(@)]
  /\ cand' = [e \in Evictors |-> cand[e] \ {o}]

Goto(h, label) == pc' = [pc EXCEPT ![h] = label]

\* The handler returns and drops everything it holds.
Return(h) ==
  /\ Goto(h, "idle")
  /\ req' = [req EXCEPT ![h] = None]
  /\ hold' = [hold EXCEPT ![h] = None]
  /\ fill' = [fill EXCEPT ![h] = None]
  /\ roll' = [roll EXCEPT ![h] = None]

-----------------------------------------------------------------------------
(* Requests.  Requests that register_pk_common rejects before it touches   *)
(* the registry (malformed, over the per-IP limit) change nothing here.    *)

RecvRegisterPk(h, i, u, k, a) ==
  /\ pc[h] = "idle"
  /\ req' = [req EXCEPT ![h] =
               [kind |-> "RegisterPk", id |-> i, uuid |-> u, pk |-> k, ip |-> a]]
  /\ Goto(h, IF AllowUnmanaged THEN "get" ELSE "verify")
  /\ UNCHANGED <<map, peer, db, apiVars, hold, fill, roll, evictVars>>

RecvRegisterPeer(h, i, a) ==
  /\ pc[h] = "idle"
  /\ req' = [req EXCEPT ![h] =
               [kind |-> "RegisterPeer", id |-> i, uuid |-> None, pk |-> None, ip |-> a]]
  /\ Goto(h, "get")
  /\ UNCHANGED <<map, peer, db, apiVars, hold, fill, roll, evictVars>>

\* The lookup of a punch-hole request or of get_pk.
RecvGet(h, i) ==
  /\ pc[h] = "idle"
  /\ req' = [req EXCEPT ![h] =
               [kind |-> "Get", id |-> i, uuid |-> None, pk |-> None, ip |-> None]]
  /\ Goto(h, "get")
  /\ UNCHANGED <<map, peer, db, apiVars, hold, fill, roll, evictVars>>

\* Variant: a refusal of the API is taken for an approval.
VerifyAlways(h) ==
  /\ pc[h] = "verify"
  /\ Goto(h, "get")
  /\ UNCHANGED <<map, peer, db, apiVars, req, hold, fill, roll, evictVars>>

\* verify_device_deployment: 204 lets the registration go on; a refusal
\* (NOT_DEPLOYED) or an error (SERVER_ERROR) ends it.
VerifyDeployment(h) ==
  /\ pc[h] = "verify"
  /\ \/ /\ approved[req[h].id] = [uuid |-> req[h].uuid, pk |-> req[h].pk]
        /\ Goto(h, "get")
        /\ UNCHANGED <<req, hold, fill, roll>>
     \/ Return(h)
  /\ UNCHANGED <<map, peer, db, apiVars, evictVars>>

\* The management API (external) vouches for another identity of a device.
ApiApproves(i, ident) ==
  /\ ~AllowUnmanaged
  /\ approved' = [approved EXCEPT ![i] = ident]
  /\ granted' = [granted EXCEPT ![i] = @ \cup {ident}]
  /\ UNCHANGED <<map, peer, db, pc, req, hold, fill, roll, evictVars>>

-----------------------------------------------------------------------------
(* PeerMap::get and get_or.                                                *)

\* The read of the map.  A hit is touched; the Arc is held from here on, so
\* the two steps of the code cannot be told apart by an eviction.
GetHit(h) ==
  /\ pc[h] = "get"
  /\ map[req[h].id] # None
  /\ hold' = [hold EXCEPT ![h] = map[req[h].id]]
  /\ Touch(map[req[h].id])
  /\ Goto(h, "use")
  /\ UNCHANGED <<map, db, apiVars, req, fill, roll, snap>>

GetMiss(h) ==
  /\ pc[h] = "get"
  /\ map[req[h].id] = None
  /\ Goto(h, "load")
  /\ UNCHANGED <<map, peer, db, apiVars, req, hold, fill, roll, evictVars>>

\* Database::get_peer.  Without a row only get_or goes on, with a default
\* Peer; an error ends every caller.
GetPeer(h) ==
  /\ pc[h] = "load"
  /\ \/ /\ db[req[h].id] # None \/ req[h].kind = "RegisterPk"
        /\ fill' = [fill EXCEPT ![h] = db[req[h].id]]
        /\ Goto(h, "cache")
        /\ UNCHANGED <<req, hold, roll>>
     \/ Return(h)
  /\ UNCHANGED <<map, peer, db, apiVars, evictVars>>

\* cache_peer under the map lock: another task's entry wins; otherwise the new
\* Peer is inserted when there is room.  cache_peer does not touch the entry
\* it finds.
UseExisting(h) ==
  /\ map[req[h].id] # None
  /\ hold' = [hold EXCEPT ![h] = map[req[h].id]]
  /\ fill' = [fill EXCEPT ![h] = None]
  /\ Goto(h, "use")
  /\ UNCHANGED <<map, peer>>

InsertNew(h) ==
  /\ map[req[h].id] = None
  /\ Cardinality(Cached) < MaxCachedPeers
  /\ \E o \in Objs :
       /\ Unreferenced(o)
       /\ map' = [map EXCEPT ![req[h].id] = o]
       /\ peer' = [peer EXCEPT ![o] = PeerOf(fill[h])]
       /\ hold' = [hold EXCEPT ![h] = o]
  /\ fill' = [fill EXCEPT ![h] = None]
  /\ Goto(h, "use")

MapFull(h) ==
  /\ map[req[h].id] = None
  /\ Cardinality(Cached) >= MaxCachedPeers

\* Variant: a recent registration does not protect the entry.
IdleForIgnoringActive(grace) == {o \in Objs : peer[o].idle >= grace}

IdleFor(grace) ==
  {o \in Objs : peer[o].idle >= grace /\ ~peer[o].active}

\* evict_inactive clones every Arc of the map and notes the inactive ones.
Snapshot(e, grace) ==
  LET all == {map[i] : i \in Cached}
  IN /\ snap' = [snap EXCEPT ![e] = all]
     /\ cand' = [cand EXCEPT ![e] = all \cap IdleFor(grace)]

CachePeer(h) ==
  /\ pc[h] = "cache"
  /\ \/ (UseExisting(h) \/ InsertNew(h)) /\ UNCHANGED evictVars
     \/ /\ MapFull(h)
        /\ Snapshot(h, PEER_CACHE_ACTIVE_GRACE)
        /\ Goto(h, "remove")
        /\ UNCHANGED <<map, peer, hold, fill>>
  /\ UNCHANGED <<db, apiVars, req, roll>>

\* Variant: cache_peer evicts again until there is room.
CacheRetrying(h) ==
  /\ pc[h] = "insert"
  /\ \/ (UseExisting(h) \/ InsertNew(h)) /\ UNCHANGED <<req, roll>>
     \/ MapFull(h) /\ Goto(h, "cache") /\ UNCHANGED <<map, peer, req, hold, fill, roll>>
  /\ UNCHANGED <<db, apiVars, evictVars>>

\* After its eviction cache_peer tries once more.  When the map is still full
\* `get' returns Ok(None), and get_or then tries again with a default Peer
\* even if `get' had loaded a row.
CacheAfterEvict(h) ==
  /\ pc[h] = "insert"
  /\ \/ (UseExisting(h) \/ InsertNew(h)) /\ UNCHANGED <<req, roll>>
     \/ /\ MapFull(h)
        /\ IF req[h].kind = "RegisterPk" /\ fill[h] # None
             THEN /\ fill' = [fill EXCEPT ![h] = None]
                  /\ Goto(h, "cache")
                  /\ UNCHANGED <<req, hold, roll>>
             ELSE Return(h)
        /\ UNCHANGED <<map, peer>>
  /\ UNCHANGED <<db, apiVars, evictVars>>

-----------------------------------------------------------------------------
(* evict_inactive, run by cache_peer at capacity and by the cleanup timer. *)

CleanupTick ==
  /\ pc[Cleaner] = "idle"
  /\ Snapshot(Cleaner, PEER_CACHE_IDLE)
  /\ Goto(Cleaner, "remove")
  /\ UNCHANGED <<map, peer, db, apiVars, req, hold, fill, roll>>

\* Variant: the reference count is not looked at.
ShouldRemoveIgnoringRefs(e, o) == o \in cand[e]

\* Arc::strong_count(cached) <= 2: the map's Arc and this snapshot's.
ShouldRemove(e, o) ==
  /\ o \in cand[e]
  /\ HeldBy(o) = {}
  /\ SnappedBy(o) \subseteq {e}

Evict(e) ==
  /\ pc[e] = "remove"
  /\ LET gone == {o \in Objs : ShouldRemove(e, o)}
     IN /\ map' = [i \in Ids |-> IF map[i] \in gone THEN None ELSE map[i]]
        /\ peer' = [o \in Objs |-> IF o \in gone THEN DefaultPeer ELSE peer[o]]
  /\ cand' = [cand EXCEPT ![e] = {}]
  /\ Goto(e, "return")
  /\ UNCHANGED <<db, apiVars, req, hold, fill, roll, snap>>

\* The snapshot's Arcs are dropped only after the map lock is released.
EvictReturn(e) ==
  /\ pc[e] = "return"
  /\ snap' = [snap EXCEPT ![e] = {}]
  /\ Goto(e, IF e = Cleaner THEN "idle" ELSE "insert")
  /\ UNCHANGED <<map, peer, db, apiVars, req, hold, fill, roll, cand>>

-----------------------------------------------------------------------------
(* register_pk_common once it has the peer.                                *)

Me(h) == peer[hold[h]]

\* Variant: persistence_in_progress is not looked at.
NeverBusy(h) == FALSE

\* stage_peer_registration: a refusal ends the handler.
Busy(h) == Me(h).busy

\* Variant: the stored uuid is not compared.
PkMismatchOnly(h) ==
  /\ Me(h).uuid # None
  /\ AllowUnmanaged
  /\ Me(h).ip # req[h].ip /\ Me(h).pk # req[h].pk

\* Variant: any address may change the public key.
UuidOnlyMismatch(h) ==
  /\ Me(h).uuid # None
  /\ AllowUnmanaged
  /\ Me(h).uuid # req[h].uuid

\* Unmanaged: the uuid is fixed by the first registration, and the public key
\* may change only from the recorded address.  Managed: the API decides.
UuidMismatch(h) ==
  /\ Me(h).uuid # None
  /\ AllowUnmanaged
  /\ \/ Me(h).uuid # req[h].uuid
     \/ Me(h).ip # req[h].ip /\ Me(h).pk # req[h].pk

\* Variant: the rate of key registrations is not limited.
NeverTooFrequent(h) == FALSE

TooFrequent(h) == Me(h).regs > RegPkLimit

Changed(h) ==
  \/ Me(h).uuid # req[h].uuid
  \/ Me(h).pk # req[h].pk
  \/ Me(h).ip # req[h].ip

\* reg_pk counts the registration whether or not it changes anything.
Counted(p) == [p EXCEPT !.regs = p.regs + 1]

Staged(p, r) ==
  [Counted(p) EXCEPT !.addr = r.ip, !.active = TRUE, !.uuid = r.uuid, !.pk = r.pk,
                     !.ip = r.ip, !.busy = TRUE]

RollbackOf(p) ==
  [addr |-> p.addr, active |-> p.active, uuid |-> p.uuid, pk |-> p.pk, ip |-> p.ip,
   verified |-> p.verified]

StageRefused(h) ==
  /\ pc[h] = "use" /\ req[h].kind = "RegisterPk"
  /\ Busy(h) \/ UuidMismatch(h) \/ TooFrequent(h)
  /\ Return(h)
  /\ UNCHANGED <<map, peer, db, apiVars, evictVars>>

StageUnchanged(h) ==
  /\ pc[h] = "use" /\ req[h].kind = "RegisterPk"
  /\ ~Busy(h) /\ ~UuidMismatch(h) /\ ~TooFrequent(h)
  /\ ~Changed(h)
  /\ peer' = [peer EXCEPT ![hold[h]] = Counted(@)]
  /\ Goto(h, IF AllowUnmanaged THEN "ok" ELSE "refresh")
  /\ UNCHANGED <<map, db, apiVars, req, hold, fill, roll, evictVars>>

StagePersist(h) ==
  /\ pc[h] = "use" /\ req[h].kind = "RegisterPk"
  /\ ~Busy(h) /\ ~UuidMismatch(h) /\ ~TooFrequent(h)
  /\ Changed(h)
  /\ roll' = [roll EXCEPT ![h] = RollbackOf(Me(h))]
  /\ peer' = [peer EXCEPT ![hold[h]] = Staged(@, req[h])]
  /\ Goto(h, "persist")
  /\ UNCHANGED <<map, db, apiVars, req, hold, fill, evictVars>>

\* The spawned persistence task: insert_peer when the staged Peer had no guid
\* (refused by the unique index when the id has a row), else update_identity
\* (which succeeds without effect when no row has the guid).
Persisted(h) ==
  IF Me(h).guid /\ db[req[h].id] = None THEN None
  ELSE [uuid |-> req[h].uuid, pk |-> req[h].pk, ip |-> req[h].ip]

\* Variant: the result of the database call is dropped.
PersistIgnoringErrors(h) ==
  /\ pc[h] = "persist"
  /\ \/ /\ Me(h).guid \/ db[req[h].id] = None
        /\ db' = [db EXCEPT ![req[h].id] = Persisted(h)]
     \/ UNCHANGED db
  /\ Goto(h, "commit")
  /\ UNCHANGED <<map, peer, apiVars, req, hold, fill, roll, evictVars>>

Persist(h) ==
  /\ pc[h] = "persist"
  /\ \/ /\ Me(h).guid \/ db[req[h].id] = None
        /\ db' = [db EXCEPT ![req[h].id] = Persisted(h)]
        /\ Goto(h, "commit")
     \/ UNCHANGED db /\ Goto(h, "rollback")
  /\ UNCHANGED <<map, peer, apiVars, req, hold, fill, roll, evictVars>>

Committed(p) ==
  [p EXCEPT !.guid = TRUE, !.busy = FALSE, !.verified = p.verified \/ ~AllowUnmanaged]

FinishCommit(h) ==
  /\ pc[h] = "commit"
  /\ peer' = [peer EXCEPT ![hold[h]] = Committed(@)]
  /\ roll' = [roll EXCEPT ![h] = None]
  /\ Goto(h, "ok")
  /\ UNCHANGED <<map, db, apiVars, req, hold, fill, evictVars>>

\* Variant: the staged identity stays in memory after a failure.
FinishKeepingIdentity(h) ==
  /\ pc[h] = "rollback"
  /\ peer' = [peer EXCEPT ![hold[h]] = [@ EXCEPT !.addr = roll[h].addr, !.busy = FALSE]]
  /\ Return(h)
  /\ UNCHANGED <<map, db, apiVars, evictVars>>

\* Variant: a failure leaves persistence_in_progress set.
FinishLeavingBusy(h) ==
  /\ pc[h] = "rollback"
  /\ Return(h)
  /\ UNCHANGED <<map, peer, db, apiVars, evictVars>>

RolledBack(p, r, a, v) ==
  [p EXCEPT !.addr = r.addr, !.active = a, !.uuid = r.uuid, !.pk = r.pk, !.ip = r.ip,
            !.verified = v, !.busy = FALSE]

\* The saved times may have lapsed while the database was tried.
FinishRollback(h) ==
  /\ pc[h] = "rollback"
  /\ \E a \in {FALSE, roll[h].active}, v \in {FALSE, roll[h].verified} :
       peer' = [peer EXCEPT ![hold[h]] = RolledBack(@, roll[h], a, v)]
  /\ Return(h)
  /\ UNCHANGED <<map, db, apiVars, evictVars>>

\* deployment_verified_at after an unchanged managed registration.
Verified(p, v) == [p EXCEPT !.verified = v]

RefreshVerified(h) ==
  /\ pc[h] = "refresh"
  /\ peer' = [peer EXCEPT ![hold[h]] = Verified(@, TRUE)]
  /\ Goto(h, "ok")
  /\ UNCHANGED <<map, db, apiVars, req, hold, fill, roll, evictVars>>

RespondOk(h) ==
  /\ pc[h] = "ok"
  /\ Return(h)
  /\ UNCHANGED <<map, peer, db, apiVars, evictVars>>

-----------------------------------------------------------------------------
(* The other users of a Peer.                                              *)

\* register_peer_common: a heartbeat counts unless the device has to register
\* its key (again) first.
RequestPk(h) ==
  \/ Me(h).pk = None
  \/ /\ req[h].ip # (IF Me(h).addr # None THEN Me(h).addr ELSE Me(h).ip)
     /\ req[h].ip \notin Loopback
  \/ ~AllowUnmanaged /\ ~Me(h).verified

HeardFrom(p, a) == [p EXCEPT !.addr = a, !.active = TRUE]

Heartbeat(h) ==
  /\ pc[h] = "use" /\ req[h].kind = "RegisterPeer"
  /\ IF RequestPk(h) THEN UNCHANGED peer
     ELSE peer' = [peer EXCEPT ![hold[h]] = HeardFrom(@, req[h].ip)]
  /\ Return(h)
  /\ UNCHANGED <<map, db, apiVars, evictVars>>

UseGet(h) ==
  /\ pc[h] = "use" /\ req[h].kind = "Get"
  /\ Return(h)
  /\ UNCHANGED <<map, peer, db, apiVars, evictVars>>

\* get_in_memory, for an online query or a relay request.
GetInMemory(i) ==
  /\ map[i] # None
  /\ Touch(map[i])
  /\ UNCHANGED <<map, db, apiVars, pc, req, hold, fill, roll, snap>>

-----------------------------------------------------------------------------
(* Time and crashes.                                                       *)

Underway(i) ==
  \E h \in Handlers :
    /\ pc[h] \in {"load", "cache", "remove", "return", "insert", "use"}
    /\ req[h].id = i

Aged(p) == [p EXCEPT !.idle = p.idle + 1]

\* A handler looks an id up no later than its entry was last accessed; with
\* StallBounded it has used the entry before that is 60 s ago.  Nothing in the
\* code enforces this: between the lookup and the use get_peer waits in
\* pool.get() for a connection, by default the only one, behind all other
\* handlers, and only the statement itself has a time limit (busy_timeout).
GrowIdle(i) ==
  /\ map[i] # None
  /\ peer[map[i]].idle < 2
  /\ StallBounded => ~Underway(i)
  /\ peer' = [peer EXCEPT ![map[i]] = Aged(@)]
  /\ UNCHANGED <<map, db, apiVars, pc, req, hold, fill, roll, evictVars>>

\* A time saved for a rollback is no younger than the one it would replace.
SavedLapses(i, Lapse(_)) ==
  roll' = [h \in Handlers |->
             IF hold[h] = map[i] /\ roll[h] # None THEN Lapse(roll[h]) ELSE roll[h]]

Lapsed(p) == [p EXCEPT !.active = FALSE]

RegistrationLapses(i) ==
  /\ map[i] # None
  /\ peer[map[i]].active
  /\ peer' = [peer EXCEPT ![map[i]] = Lapsed(@)]
  /\ SavedLapses(i, Lapsed)
  /\ UNCHANGED <<map, db, apiVars, pc, req, hold, fill, evictVars>>

Unverified(p) == Verified(p, FALSE)

VerificationLapses(i) ==
  /\ map[i] # None
  /\ peer[map[i]].verified
  /\ peer' = [peer EXCEPT ![map[i]] = Unverified(@)]
  /\ SavedLapses(i, Unverified)
  /\ UNCHANGED <<map, db, apiVars, pc, req, hold, fill, evictVars>>

Uncounted(p) == [p EXCEPT !.regs = 0]

\* More than 6 s since the last RegisterPk: the next one starts from zero.
RegPkWindowLapses(i) ==
  /\ map[i] # None
  /\ peer[map[i]].regs > 0
  /\ peer' = [peer EXCEPT ![map[i]] = Uncounted(@)]
  /\ UNCHANGED <<map, db, apiVars, pc, req, hold, fill, roll, evictVars>>

\* The process dies and starts again: only the database is left.
Crash ==
  /\ CrashPossible
  /\ map' = [i \in Ids |-> None]
  /\ peer' = [o \in Objs |-> DefaultPeer]
  /\ pc' = [e \in Evictors |-> "idle"]
  /\ req' = [h \in Handlers |-> None]
  /\ hold' = [h \in Handlers |-> None]
  /\ fill' = [h \in Handlers |-> None]
  /\ roll' = [h \in Handlers |-> None]
  /\ snap' = [e \in Evictors |-> {}]
  /\ cand' = [e \in Evictors |-> {}]
  /\ UNCHANGED <<db, apiVars>>

-----------------------------------------------------------------------------
(* The specification.                                                      *)

Recv(h) ==
  \E i \in Ids :
    \/ \E u \in Uuids, k \in Pks, a \in Ips : RecvRegisterPk(h, i, u, k, a)
    \/ \E a \in Ips : RecvRegisterPeer(h, i, a)
    \/ RecvGet(h, i)

\* The steps of a handler that has a request.
HandlerStep(h) ==
  \/ VerifyDeployment(h) \/ GetHit(h) \/ GetMiss(h) \/ GetPeer(h)
  \/ CachePeer(h) \/ Evict(h) \/ EvictReturn(h) \/ CacheAfterEvict(h)
  \/ StageRefused(h) \/ StageUnchanged(h) \/ StagePersist(h)
  \/ Persist(h) \/ FinishCommit(h) \/ FinishRollback(h)
  \/ RefreshVerified(h) \/ RespondOk(h) \/ Heartbeat(h) \/ UseGet(h)

TimePasses(i) ==
  GrowIdle(i) \/ RegistrationLapses(i) \/ VerificationLapses(i) \/ RegPkWindowLapses(i)

Next ==
  \/ \E h \in Handlers : Recv(h) \/ HandlerStep(h)
  \/ CleanupTick \/ Evict(Cleaner) \/ EvictReturn(Cleaner)
  \/ \E i \in Ids : GetInMemory(i) \/ TimePasses(i)
  \/ \E i \in Ids, ident \in Identity : ApiApproves(i, ident)
  \/ Crash

Spec == Init /\ [][Next]_vars

\* The runtime runs every ready task, and every database and API call returns:
\* a statement and a request have time limits, and pool.get(), which has none,
\* serves its waiters in order.  Nothing obliges a client to send.
Fairness == \A h \in Handlers : WF_vars(HandlerStep(h))
FairSpec == Spec /\ Fairness

-----------------------------------------------------------------------------
(* Properties.                                                             *)

\* A handler works on the Peer that the map serves to everyone else: eviction
\* never removes an entry somebody still holds (evict_inactive's strong_count
\* test), so no handler stages an identity on a forgotten copy.
NoOrphan ==
  \A h \in Handlers : hold[h] # None => map[req[h].id] = hold[h]

InDatabase(h) == pc[h] \in {"persist", "commit", "rollback"}

\* At most one registration of an id is being written to the database
\* (persistence_in_progress), whatever was evicted and reloaded meanwhile.
SingleWriter ==
  \A g, h \in Handlers :
    InDatabase(g) /\ InDatabase(h) /\ req[g].id = req[h].id => g = h

Matches(o, row) ==
  /\ peer[o].guid = (row # None)
  /\ peer[o].uuid = (IF row = None THEN None ELSE row.uuid)
  /\ peer[o].pk = (IF row = None THEN None ELSE row.pk)
  /\ peer[o].ip = (IF row = None THEN None ELSE row.ip)

\* Between registrations the cache says what the database says: commits,
\* failures with rollback, loads and evictions never leave them apart, as long
\* as a loaded row is cached within 60 s (StallBounded).
CacheMatchesDb ==
  \A i \in Ids :
    map[i] # None /\ ~peer[map[i]].busy => Matches(map[i], db[i])

\* A cached Peer with an empty uuid, which stage_peer_registration takes for a
\* first registration, stands for an id that has no row.
EmptyMeansUnregistered ==
  \A i \in Ids :
    map[i] # None /\ peer[map[i]].uuid = None => db[i] = None

\* Without a management API the first uuid stored for an id stays, however
\* registrations, failures, evictions and crashes interleave
\* (stage_peer_registration's uuid test against a cache that may be stale).
ClaimIsPermanent ==
  [][\A i \in Ids :
       AllowUnmanaged /\ db[i] # None =>
         /\ db'[i] # None
         /\ db'[i].uuid = db[i].uuid]_vars

\* Without a management API the stored public key of an id changes only in a
\* registration from the stored address (its ip/pk test), given StallBounded.
KeyChangesAtRecordedIp ==
  [][\A i \in Ids :
       AllowUnmanaged /\ db[i] # None =>
         db'[i].pk = db[i].pk \/ db'[i].ip = db[i].ip]_vars

\* RegisterPk is answered OK only for the identity and address that the
\* database holds at that moment, so an answered registration survives a crash,
\* given StallBounded.
AckMeansStored ==
  [][\A h \in Handlers :
       /\ pc[h] \in {"use", "commit", "rollback"}
       /\ pc'[h] \in {"refresh", "ok"}
       => db[req[h].id] = [uuid |-> req[h].uuid, pk |-> req[h].pk, ip |-> req[h].ip]]_vars

\* With a management API every stored identity was approved for that id at
\* some time, whichever handler verified it and however late it was stored.
StoredWasGranted ==
  \A i \in Ids :
    ~AllowUnmanaged /\ db[i] # None =>
      [uuid |-> db[i].uuid, pk |-> db[i].pk] \in granted[i]

\* Eviction never forgets a device that registered within the grace period or
\* whose registration is being stored, given StallBounded: an entry that
\* cache_peer finds already cached is not touched, and a handler that waited
\* 60 s for the database could make a candidate active after the snapshot.
EvictsOnlyInactive ==
  [][\A e \in Evictors, i \in Ids :
       /\ pc[e] = "remove" /\ pc'[e] = "return"
       /\ map[i] # None /\ map'[i] = None
       => ~peer[map[i]].active /\ ~peer[map[i]].busy]_vars

BusyAt(i) == map[i] # None /\ peer[map[i]].busy

\* persistence_in_progress does not stay set: a device is not locked out by a
\* registration that failed.
BusyClears == \A i \in Ids : BusyAt(i) ~> ~BusyAt(i)

\* Every request is answered or refused; no handler waits for another.
HandlersReturn == \A h \in Handlers : pc[h] # "idle" ~> pc[h] = "idle"
=============================================================================
