# Verification of the Camellia remote servers

This directory holds TLA+ models of the two servers of this repository, the
identity (rendezvous) server and the relay server, the TLC configurations that
check them, and TLAPS proofs of all safety properties that the runs check.
`PROJECT.json` lists the components, the runs, the mutants, the source lines
that each definition models, the findings, the hazards and the theorems. Paths
below are relative to the repository (`src/rendezvous_server.rs` and so on).

## 1. The system

**Identity server** (`camellia-remote-identity`). Devices keep a control
connection (TCP or WebSocket, encrypted after a handshake) to it. They register
a public key (`RegisterPk`), send heartbeats (`RegisterPeer`), ask for another
device (`PunchHoleRequest`, `RequestRelay`) and answer such requests
(`PunchHoleSent`, `LocalAddr`, `RelayResponse`; the first also over UDP).

| part | state | operations | concurrency |
|---|---|---|---|
| peer registry (`peer.rs`, `rendezvous_server.rs` 283-358, 952-1139) | `PeerMap.map`, one `Arc<RwLock<Peer>>` per cached device, the `peer` table | `get`, `get_or`, `get_in_memory`, `cache_peer`, `evict_inactive`, staging, persistence, commit, rollback | a task per connection, a task per persistence, a cleanup timer; every `await` is a switch |
| database (`database.rs`) | the `peer` table with a unique index on `id` | `get_peer`, `insert_peer`, `update_identity` | SQLite in WAL mode with a pool |
| routing (`rendezvous_server.rs` 102-155, 650-949, 1142-1437, 1798-1870, 2128-2478) | `tcp_punch` (address to queue), `pending_rendezvous` (one-time tokens), a bounded queue per connection | the handlers above, `send_to_tcp`, `send_to_tcp_sync`, keep-alive, connection start and end | a task per connection, a writer task per WebSocket connection, the UDP loop |
| per-address limits (`peer.rs` 37-155), rate of the HTTP proxy | tables of counters with time windows | `allow_ip_request`, `record_ip_change`, `allow_http_proxy_request`, `cleanup_transient_state` | under one lock each |
| relay list and main loop (`rendezvous_server.rs` 505-647, 1872-1925, 2072-2126, 2541-2573) | `relay_servers`, `relay_servers0`, the event queue, `RELAY_CHECK_RUNNING` | health check every 3 s, console command, NAT-test connections, rebinding of a failed listener | `io_loop`, a check task with a probe per server, a task per connection |
| key files (`common.rs` 331-531) | secret and public key on disk | `load_or_create_keypair` | identity and relay server on one directory, kills, power losses |

**Relay server** (`camellia-remote-relay`). Two clients that name the same uuid
are joined and their bytes copied both ways.

| part | state | operations | concurrency |
|---|---|---|---|
| pairing (`relay_server.rs` 520-772) | `PEERS`, `NEXT_PENDING_GENERATION`, permits | `handle_connection`, `make_pair`, `make_pair_`, `remove_pending_if_generation` | a task per connection |
| relay loop (774-876) | `USAGE`, local state of the loop | forward, tick, check of the lists | the task of the second connection |
| lists and console (81-133, 296-518) | `BLOCKLIST`, `BLACKLIST`, bandwidth parameters | files at start, console commands | a task per console connection |

Not state machines: option parsing, `utils.rs`, the release scripts, packaging.
`PROJECT.json` lists every part with its status.

## 2. Modules

| module | content |
|---|---|
| `PeerRegistry` | the registry with its cache, table, handlers, evictions, crashes |
| `PeerRegistryProofs` | what each step does to a Peer; types, references, one writer per id |
| `PeerRegistryCache` | stored identities were approved; times of cached entries; only inactive entries are evicted |
| `PeerRegistryClaims` | what is stored of an identity, and what the cache says of it |
| `RelayService` | abstract: what pairing promises |
| `RelayPairing` | the relay server; implements `RelayService` |
| `RelayPairingProofs` | streams have one owner, timers, pairs, and the refinement |
| `RendezvousRouting` | requests, answers, tokens, queues and sinks |
| `RendezvousRoutingProofs` | tasks, connections, queues, sinks and pending tokens |
| `RendezvousRoutingAnswers` | a token leads to one answer, and to the right one |
| `KeyStore` | the key files of several servers that start, stop and die |
| `RelayList` | the list of relay servers, its health check, the main loop and its NAT-test port |
| `IpLimits` | the tables of requests per address, address changes per peer, proxied requests per address |
| `ServerParts` | `KeyStore`, `RelayList` and `IpLimits` side by side, for one run |
| `ServerPartsProofs` | one key, a matching public file, no failed start, the served key on the disk; a relay is offered; shown address changes are recent |
| `IpLimitsProofs` | no address gets more than two windows allow |
| `MCPeerRegistry`, `MCRelayPairing`, `MCRendezvousRouting` | symmetry sets for TLC |

Operators whose comment says *variant* or *mutant* are broken versions of the
definition below them. No specification uses them; they show that a property
notices the error (`mutants` in `PROJECT.json`).

### PeerRegistry

A handler `h` is one call of `register_pk_common`, `register_peer_common` or
`PeerMap::get`; `pc[h]` is the await it stands at. `hold[h]` is the `Arc` it has
cloned, so `Arc::strong_count` is the number of holders, snapshots and map
entries of an object. `req`, `fill` and `roll` are its local variables: the
request, the row on its way into the cache, and the rollback record. `snap` and
`cand` are the local variables of `evict_inactive`; a candidate leaves `cand`
when its entry is accessed, which is what the comparison of `last_access_time`
amounts to. Times are classes: `idle` is below 60 s, below 600 s, or above;
`active` is "registered within 60 s"; `verified` is "verified within 30 s".
Time passes by actions that move an entry to the next class.

Steps that are atomic in the model: a hit in `get` with its touch (the `Arc` is
already held), the two attempts under the read and the write lock of
`cache_peer`, each section under the write lock of a `Peer`, each database call.
Database and API calls may fail without effect. `Crash` loses everything except
the table.

### RelayPairing

A connection is a socket and the task that accepted it. `conn[c]` is the stream,
`task[c]` where the task stands. The task of the first connection puts the
stream into `peers` and sleeps (`wait[c]`: what its timer will remove); the
task of the second takes it out (`with[c]`). One turn of the relay loop is
`relay`, then an arm of `select!`, then `loop` (the part that runs every
second). An address is a host and whether it is in the mapped IPv6 form:
`handle_connection` converts it, `relay` does not. Payload, limiter and counters
are left out; `downgraded` may become true at any check.

`relay` gets one address, that of the second connection. The lists are compared with
it alone: an entry for the first connection's address neither ends nor slows a relay
that runs, and `BlockedRelaysEnd` and `BlackListedSlowDown` say nothing of it
(`SecondBlocked`, `SecondUnslowed`). `MappedTexts` says whether list entries may
have the mapped IPv6 form, which the parser accepts. A console connection holds a
permit until its command is read, within 1 s, and its answer written, for which
there is no limit.

### RendezvousRouting

`pc[p]` is where the task of a connection, or the UDP loop, stands; every place
where a handler releases a lock and later uses what it read is a step of its
own (`tx[p]` is the sender it cloned or took out of `tcp_punch`). `queue[c]` is
the channel of a connection; `conn[c].rx` says whether it still has a reader,
which for WebSocket is a task that can die or be aborted separately. `reg` is
the registry reduced to the addresses of fresh registrations: routing reads
`socket_addr` only when `last_reg_time` is younger than 30 s, and both are always written
together. `asked`, `sent` and `displaced` are
history variables: which request a token was issued for, which tokens have
been handed out, and which connections lost their place in `tcp_punch` to a later
connection of their address or to an answer that took the sink, and have not
registered since. A token of 32 random bytes cannot be guessed: an answer names
a token that has been sent.

### KeyStore

`secret` and `pub` are the files `id_ed25519` and `id_ed25519.pub` as the
processes see them; `secretDisk` and `pubDisk` are the contents that a power
loss may leave, which `sync_parent_directory` narrows to one. The contents are
synced before `hard_link` gives them a name, so a name never shows half a key.
`pc[p]` is the system call a process is about to make: every one of them can be
followed by a step of another process. `Kill` stands for a signal and for any
file operation that fails. `torn` is history: a process was killed after it had
given a file its name and before it synced the directory, and nobody has synced it
since. At the start the directory is empty or holds files of
an earlier installation, matching or not; nobody else removes them.

### RelayList

`events` is the bounded channel from the console and the health check to
`io_loop`. A check holds the list it was started with, one probe per server may
come at any time, and the answer is posted when all are in. `conn[c]` is a
connection to the NAT-test port; one from this host is a console, and its `rs`
command keeps its permit until there is room in the channel. Writes to a client are
steps of their own (`Written`): they have no time limit. `loop` is the listener
whose failure made `io_loop` return, until it is bound again; lists, events and
the running check survive that.

### IpLimits

Entries hold the age of their windows in ticks instead of the time they began; an
age stops growing where no test of the code can tell it from a larger one. Each
operation runs under the lock of its table and is one action, the console commands
`ib` and `ic` included. `granted`, `named`, `proxied` and `seen` are history: what
was let through, and when. The command `ib <ip> -` removes the entry of an address
so that it starts afresh; its history starts afresh with it. `granted` and `proxied`
keep the ages of an address's last `2 * limit + 1` grants, latest first; that more
than two windows' worth fell into 60 s would show as a last one younger than that.

## 3. Runs

`tlc -config <run>.cfg <module>`; all numbers are distinct states.

| run | bounds | what it shows |
|---|---|---|
| `registry_claims` | 1 id, 2 uuids, keys, addresses, handlers; crash | 326,284 states. Types; nobody works on an evicted entry; one writer; cache equals table; uuid permanent; key changes only at the recorded address; OK means stored |
| `registry_live` | 2 ids, cache of 1, 1 handler, management API, fair | 79,929. Stored identities were approved; only inactive entries are evicted; `persistence_in_progress` is cleared; every handler returns, also when the cache is full |
| `registry_cold_cache` | 2 ids, cache of 1 | finding 1 |
| `relay_pairing` | 3 connections, 2 uuids, limits 2 and 1, console, WebSocket, proxy headers | 268,787. Types, limits of `PEERS` and permits, one owner per stream, timers, pairs, usage, refinement of `RelayService` |
| `relay_live` | 2 connections, console, no mapped list entries, fair | 27,840. Waiting and idle connections end; relays obey the lists as far as their second connection's address goes |
| `relay_mapped` | the same with a dual-stack listener and mapped list entries | finding 2 |
| `routing_tcp` | 2 connections, 2 addresses, 2 tokens, queue and table of 1 | 973,894. Tokens used once, answers match, undelivered tokens withdrawn, no silent request |
| `routing_ws` | 2 connections, 1 token, TCP and WebSocket, local and relay requests | 503,645. Types and limits, answers match, sinks live, clients stay reachable, no silent request |
| `routing_nat` | as `routing_tcp` | finding 3 |
| `routing_second_answer` | distinct addresses, table of 2 | finding 4 |
| `server_parts` | keys: 2 servers, 4 keys, 1 kill, 1 power loss; list: 3 servers, 1 connection, 1 update, queue of 1; limits: 2 addresses, 3 ids, tables of 1 | 130,461. One key for both servers, a matching public file, no failed start, the served key survives; some relay server is always offered, a healthy one for good, permits return; allowances hold, shown address changes are recent |
| `relay_list_stale` | 3 servers, 1 update to a list of one | finding 5 |

**Why the bounds are enough.** Every property speaks of one id, token or uuid
and of at most two tasks at odds over it. The registry has two handlers and the
cleaner; `registry_live` and `registry_cold_cache` have two ids with room for
one, so that every insertion contends for space (the safety properties under that
pressure are proved for all sizes). The
relay has three connections, so that a uuid is used, paired and used again while
the first timer is pending. Queues and tables have capacity one, so that "full"
happens at once. `RegPkLimit` is 0 instead of 2, so that the rate limit bites
with the second registration. The lists of `relay_pairing` stay empty
(`MaxListEntries` is 0), so it says nothing about their limit; `relay_live` edits
them, and `RelayTypes` proves the limit. `MaxGeneration` and the set of tokens are bounds
of the model: the code's counter and its random tokens do not run out.

The three parts of `server_parts` share no state, so a behaviour exercises one of
them and their state counts add up.

* Keys: the deployment has two servers. Four keys are enough for a server that
  creates one to find a fresh one: then the public file and the other server
  hold at most two. With three servers `KeysAgree`, `PublicMatches` and
  `NoFailedStart` still hold (one kill, one power loss), but `ServedKeyIsOnDisk` fails
  without any fault: the first has linked the secret file, the second the
  public one, neither has synced the directory yet, and the third finds
  both, has nothing to write and serves.
* List: no server, and two lists with one server in common.
* Limits: windows of 2, 5 and 1 ticks; one entry per table, so that a second
  address or peer meets a full one.

In `registry_live` the management API approves one identity per device. That a
registration is under way while its approval is replaced is covered by the theorem
`StoredIdentitiesWereGranted`.

**StallBounded.** `CacheMatchesDb`, `AckMeansStored`, `KeyChangesAtRecordedIp` and
`EvictsOnlyInactive` need that a handler uses an entry within 60 s of looking for
it; without the assumption TLC refutes each of them. A row read from the database and cached
after more than 60 s may be older than one that was stored, evicted and
forgotten meanwhile; and an entry that `cache_peer` finds already cached is not
touched, so after such a wait it may be evicted although its device has just been
heard. This is an assumption about the load and not something the code enforces.
A statement is limited by `busy_timeout` (10 s), but before it `get_peer`,
`insert_peer` and `update_identity` wait in `pool.get()`, without a limit, behind
everybody else who needs one of the pool's connections, of which there is one by default
(`MAX_DATABASE_CONNECTIONS`). The theorems about these properties, and
`EmptyOnlyAtCapacity`, assume it as well; all other proofs about the registry do without.

**Fairness.** Registry: weak fairness of every handler's steps; the runtime runs
ready tasks, statements have `busy_timeout`, API calls a timeout, and `pool.get()`,
which has no limit, serves its waiters in order. Relay: weak fairness of the steps
that have a time limit; strong fairness of the tick, of noticing a closed connection
and of the check every second, because `select!` picks among ready arms at random.
Clients owe nothing: a relay whose receiver does not read may stay in `send_raw` for
ever, and the liveness properties except exactly that (`Stuck`). Relay list: strong
fairness of the arms of `io_loop` that a failing listener can interrupt (`select!`
is random) and of the two senders to the channel, which serves its waiting senders
in order; weak fairness of probes and connection tasks, as far as they have time
limits, and of rebinding, which succeeds or ends the server. Nothing is assumed of
writes to a client or console, in the relay or here: `PermitsReturn` excepts a
client that does not read (`Unread`). `HealthyServerStays` is about a server that
stays reachable and in a list of several, while the main loop goes on.

## 4. Findings

1. `get_or` takes the rejection of a loaded row at capacity for an unknown id and
   may cache an empty `Peer` for a registered device (`registry_cold_cache`). The
   unique index keeps the table right.
2. `relay` compares the unconverted address with the block list, so on a
   dual-stack listener running relays of a newly blocked IPv4 address go on
   (`relay_mapped`).
3. A NAT test on the main port is answered into a queue that is dropped
   (`routing_nat`).
4. The first answer removes the requester's sink; a second accepted answer on the
   same connection is lost (`routing_second_answer`).
5. The result of a health check of the old list overwrites a list that the
   operator has set meanwhile; with one server in the new list no check repairs it
   (`relay_list_stale`). With several servers the next check does
   (`HealthyServerStays`).

## 5. Proofs

All theorems hold for arbitrary values of the constants; the assumptions are the
named `ASSUME`s of the modules: `None` is no value and no record, bounds are
naturals, modes Booleans, some server exists, consoles are no relay connections, the
UDP loop is no connection, there are finitely many hosts, and `IP_REQUEST_LIMIT`
(30) is not 0. TLC evaluates them in the runs. A theorem that needs more says so in
its own `ASSUME`:

| assumption | theorems | why it is made |
|---|---|---|
| `StallBounded` | `OnlyInactiveEvicted`, `AnsweredIsStored`, `KeysChangeAtTheirAddress`, `CacheFollowsTable`, `EmptyOnlyAtCapacity` | not enforced by the code: an assumption about the load, see section 3 |
| `RoomForAll`: only the set of all ids can fill the cache | `CacheFollowsTable`, `EmptyOnlyAtCapacity` | finding 1 shows that a full cache breaks both |
| `TwoServers` | `ServedKeySurvives`, `StartsSucceed` | an installation has an identity and a relay server; section 3 says what a third one does |
| `Attempts >= 2` | `StartsSucceed` | `write_public_key` has 3 |

**Registry, without further assumptions** (`PeerRegistryProofs`, and the first
parts of `PeerRegistryCache` and `PeerRegistryClaims`).

* `TypeCorrect`: `Spec => []TypeOK`. Needs the control invariant that ties `pc`
  to the local variables (a handler at `use` holds an object, one at `persist`
  has a rollback record).
* `HeldPeersStayCached`: `Spec => []NoOrphan`. Not inductive alone: two ids could
  share an object. The strengthening adds that `map` is injective; the eviction
  step uses the reference count.
* `OneWriterPerId`: `Spec => []SingleWriter`. A handler in the database has set
  `busy` on its object; by `NoOrphan` another handler of the id holds the same
  object and is refused.
* `ClaimsArePermanent`: `Spec => ClaimIsPermanent`. The invariant relates the uuid
  of a cached entry that has a guid, the staged one, and the stored one; an
  insertion cannot hit an existing row, an update keeps the uuid.
* `StoredIdentitiesWereGranted`: `Spec => []StoredWasGranted`. The invariant
  follows an approval: what the API vouches for now was granted, a registration
  past the verification carries a granted identity, and so does every row.

**Registry, when no handler stalls.** `PeerRegistryCache` is about times:
`FreshEntries` says that the entry of an id that some handler is looking for is
younger than 60 s, `CandidatesIdle` that candidates are older and inactive,
`SavedActive` that a rollback makes no Peer active. `BusyHeld` adds that
`persistence_in_progress` is set only while a handler stores the Peer. So an
evicted entry is inactive and not busy (`OnlyInactiveEvicted`).

`StoreInv` in `PeerRegistryClaims` then relates cache, table and handlers. Its key
conjunct is `FillCurrent`: a row that a handler has read is still the row when the
handler inserts it, because a row is written only through its cached Peer, and an
eviction that would remove that Peer in between finds it too young. The other
conjuncts say that an idle entry agrees with its row, that the rollback record
agrees with it while the database is tried, and that the staged identity is the
requested one. A default Peer may stand for a row only in a full cache; this is
how finding 1 enters the invariant. `AnsweredIsStored` and
`KeysChangeAtTheirAddress` hold for any capacity, `CacheFollowsTable` and
`EmptyOnlyAtCapacity` when every id has room.

**Routing.** `RouteInv` says what a task carries at each program point, which
connections have a queue, that queues and `pending_rendezvous` are within their
capacities, that a sink belongs to a connection that is served, and that the token
of an undelivered request is withdrawn. `RoutingTypes`, `SinksOfTheLiving` and
`NoTokenLeftBehind` are its parts; `NoRequestSwallowed` is about single steps from
it. `ClientsStayReachable` has its own invariant on top (`ReachInv`): whoever has a
queue and was not displaced is found under its address, which needs that a
connection keeps its address and that `Cleanup` removes its own sink only.
`TokenInv` (`RendezvousRoutingAnswers`) follows a token from the table to the
handler of an answer and into a queue: in each place it agrees with the request it
was issued for, and it is in one place at a time. What is delicate is the sender
that a handler has taken out of `tcp_punch`: it stays that of its connection, and
the connection keeps its address. From this come `RightAnswer` and `TokenUsedOnce`.

**Relay server** (`RelayPairingProofs`). `RelayInv` follows a stream from its own
task to `PEERS` and on to the task that relays it: timers have different
generations, a stream in `PEERS` sleeps with its timer, a stream that was taken is
in neither of the other places, and two takers never share one. Most steps leave
every stream where it is (`Quiet`); the six that do not are treated one by one.

* `StreamsHaveOneOwner`, `PendingStreamsHaveTimers`, `PairsShareTheirUuid` follow
  from `RelayInv`; `LateTimersAreHarmless` from `ExpiredIsOwn`: a timer finds its
  own entry or none.
* `RelayImplementsService`: `Spec => ImplementsService`. `Wait` is an offer, `Pair`
  a join, `TimerFires` an expiry or a stutter, `Finish` an end.
* `RelayTypes`: no more connections and consoles hold a permit than there are, and
  `PEERS` and the lists stay within their limits, by counting holders and entries;
  `UsageShowsRelays`: an entry of `USAGE` goes with the relay that put it there.

**Key files** (`ServerPartsProofs`): `ServersShareTheKey` and `PublishedKeyMatches`, for
any number of servers, attempts, kills and power losses. The invariant says that
all servers past the second read of the secret file hold what it holds, and that
the public file belongs to it whenever every server is past `write_public_key`'s last
check or link. A server that may still remove the file is not; it links again or
fails. With two servers: a link that is not on the disk yet is about to be synced by
a server that has not served (`ServedKeySurvives`; it holds for any number of kills
and power losses except while `torn`: after a kill between link and sync the other
server finds the file, serves its key and syncs nothing), and a server in its second
attempt meets no other that is about to remove the file (`StartsSucceed`).

**Relay list and address changes** (`ServerPartsProofs`). `ARelayIsOffered`:
`PartsSpec => []NeverWithoutRelay`. No result of a health check in the queue is
empty, and neither is the list offered while one is configured.
`ShownChangesAreRecent`: `PartsSpec => []ChangesAreRecent`. An address in an entry is
no older than the window of the entry. A behaviour of `PartsSpec` is one of each
part, and the proofs use no more of it than that: they hold for `RelayList` and
`IpLimits` with all operations interleaved.

**Limits** (`IpLimitsProofs`). `AllowancesAreKept`: `PartsSpec => []AllowancesHold`,
for every limit, table size and number of addresses. What makes it hard is that the
entry forgets: a new window, the purge of a full table and the cleanup
all drop the count of a window whose grants may be seconds old. What the operator
removes with `ib <ip> -` is meant to be forgotten and is not counted. The invariant gives
the missing part back as a witness.

* Requests (`Fits`, shared by `IP_BLOCKER` and `http_proxy_rates`): of the last
  grants, some `c <= limit` belong to the present window and are counted in its
  entry; all others are older than that window; all but `limit` of those are 60 s
  old. Without an entry all but `limit` are. An entry goes only when its window is
  over, which makes the first case the second one.
* Ids (`Counted`): the ids granted within a day are in the present entry, or in a set
  of the day before that has at most `IdLimit` members and whose grants are older
  than the present day.

**Only model-checked.**

* Liveness, which is out of the prover's reach: `BusyClears`, `HandlersReturn`,
  the relay's three (`WaitingEnds`, `BlockedRelaysEnd`, `QuietRelaysEnd`),
  `BlackListedSlowDown`, `HealthyServerStays`, `PermitsReturn`.
* The findings: TLC's counterexamples are the result.

## 6. Not modelled

* The protocol library (external), cryptography, message formats and their
  validation, option parsing, `utils.rs`: sequential code without shared state.
* The HTTP exchange with the management API and of the proxy: one call with a
  time limit; its outcomes are choices of `VerifyDeployment` and `Query`.
* The relay's bandwidth parameters (`dt`, `t`, `ls`, `tb`, `sb`) and the limiter's
  arithmetic: rates do not exist in `RelayPairing`. `ls` and `sb` compare with each
  other's value before they store their own, so two commands at the same instant can
  leave a limit above the bandwidth; the hazard is listed without a property.
* The rotation of `get_relay_server` and the punch request log: a counter and a
  list that no decision depends on.
* Panics, and an SQLite error reported after the commit: the code states nothing
  for them.
* Routing over the registry: `RendezvousRouting` chooses what the registry may
  answer (`reg`) instead of composing the two; `routing_tcp` alone has a million
  states. A staged address that routing reads before its registration is rolled
  back is therefore left out.
