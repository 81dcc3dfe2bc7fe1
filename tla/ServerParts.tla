---------------------------- MODULE ServerParts -----------------------------
(***************************************************************************)
(* Three parts of the servers that share no state: the key files, the      *)
(* relay list of the main loop, and the tables of limits (each table on    *)
(* its own).  A behaviour exercises one of them, chosen at the start, so   *)
(* their state counts add instead of multiplying.                          *)
(***************************************************************************)
EXTENDS KeyStore, Sequences, FiniteSets

CONSTANTS
  Servers, Lists, Conns, Slots, QueueCapacity, Listeners, MaxUpdates,
  Ips, Ids, BlockDur, DayDur, ChangeDur, RequestLimit, IdLimit, ProxyLimit, ChangeLimit,
  MaxTracked

VARIABLES
  part,
  configured, offered, events, check, alive, loop, conn, updates,
  blockers, changes, rates, granted, named, proxied, seen

R == INSTANCE RelayList
L == INSTANCE IpLimits

\* Durations and limits are numbers, and None is no entry of a table.
\* IP_REQUEST_LIMIT is positive: the first request of a window is not refused.
ASSUME LimitBounds ==
  /\ {BlockDur, DayDur, ChangeDur, RequestLimit, IdLimit, ProxyLimit} \subseteq Nat
  /\ RequestLimit # 0
ASSUME NoneIsNoEntry ==
  /\ None \notin [requests : Nat, since : Nat, ids : SUBSET Ids, idsSince : Nat]
  /\ None \notin [requests : Nat, since : Nat]

keyVars == vars
relayVars == <<configured, offered, events, check, alive, loop, conn, updates>>
limitVars == <<blockers, changes, rates, granted, named, proxied, seen>>
allVars == <<part, keyVars, relayVars, limitVars>>

PartsInit ==
  /\ part \in {"keys", "relays", "requests", "changes", "proxying"}
  /\ Init /\ R!Init /\ L!Init
  /\ part # "keys" => secret = None /\ pub = None
  /\ part # "relays" => configured = {} /\ alive = {}

KeysNext == part = "keys" /\ Next /\ UNCHANGED <<relayVars, limitVars>>
RelaysNext == part = "relays" /\ R!Next /\ UNCHANGED <<keyVars, limitVars>>
RequestsNext ==
  /\ part = "requests"
  /\ L!Requests \/ L!CleanupTransientState \/ L!Tick
  /\ UNCHANGED <<keyVars, relayVars>>
ChangesNext ==
  /\ part = "changes"
  /\ L!Changes \/ L!CleanupTransientState \/ L!Tick
  /\ UNCHANGED <<keyVars, relayVars>>
ProxyingNext == part = "proxying" /\ (L!Proxying \/ L!Tick) /\ UNCHANGED <<keyVars, relayVars>>

PartsNext ==
  /\ KeysNext \/ RelaysNext \/ RequestsNext \/ ChangesNext \/ ProxyingNext
  /\ UNCHANGED part

\* In the other parts no action that R!Fairness names is ever enabled.
PartsSpec == PartsInit /\ [][PartsNext]_allVars /\ R!Fairness

\* The properties of RelayList and IpLimits, stated there.
NeverWithoutRelay == R!NeverWithoutRelay
HealthyServerStays == R!HealthyServerStays
PermitsReturn == R!PermitsReturn
AllowancesHold == L!AllowancesHold
ChangesAreRecent == L!ChangesAreRecent
=============================================================================
