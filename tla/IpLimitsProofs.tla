--------------------------- MODULE IpLimitsProofs ---------------------------
(***************************************************************************)
(* Proofs about the tables that limit an address: IP_BLOCKER and           *)
(* http_proxy_rates.                                                       *)
(*                                                                         *)
(* A window that a purge forgets, or that begins while requests of the one *)
(* before are less than a minute old, must not add up to more than two     *)
(* allowances.  The invariant therefore relates an entry to the ages of    *)
(* what the address was granted: Counted for ids, Fits for requests.       *)
(***************************************************************************)
EXTENDS ServerParts, TLAPS, FiniteSetTheorems

LEMMA StartOfLimits == PartsInit => L!Init
  BY Zenon DEF PartsInit

LEMMA StepsOfLimits == [PartsNext]_allVars => [L!Next]_(L!vars)
  BY Zenon DEF PartsNext, KeysNext, RelaysNext, RequestsNext, ChangesNext, ProxyingNext, L!Next,
         allVars, limitVars, L!vars

-----------------------------------------------------------------------------
(* IP_BLOCKER: the ids of an address belong to its present day or to the   *)
(* one before.                                                             *)

Blocker == [requests : Nat, since : Nat, ids : SUBSET Ids, idsSince : Nat]

LEMMA NoneIsNoBlocker == None \notin Blocker
  BY NoneIsNoEntry, Zenon DEF Blocker

BlockerTypes ==
  blockers \in [Ips -> Blocker \cup {None}] /\ named \in [Ips -> [Ids -> Nat]]

Few(S) == S \subseteq Ids /\ IsFiniteSet(S) /\ Cardinality(S) <= IdLimit

\* The ids of the day before, if b is the entry of an address and ages are the
\* ages of its ids: those that b does not hold, granted before its day began.
DayBefore(b, ages, P) ==
  /\ Few(P)
  /\ \A id \in Ids : ages[id] < DayDur =>
       \/ b # None /\ id \in b.ids
       \/ id \in P /\ (b # None => b.idsSince <= ages[id])
Counted(b, ages) == (b # None => Few(b.ids)) /\ \E P : DayBefore(b, ages, P)

BlockerInv == BlockerTypes /\ \A ip \in Ips : Counted(blockers[ip], named[ip])

\* An entry whose day is over may go: its ids are those of the day before.
LEMMA EndedDay ==
  ASSUME NEW b \in Blocker, b # None, NEW ages \in [Ids -> Nat], Counted(b, ages),
         b.idsSince >= DayDur
  PROVE  /\ Few(b.ids)
         /\ \A id \in Ids : ages[id] < DayDur => id \in b.ids
<1>1. Few(b.ids)
  BY Zenon DEF Counted
<1>2. PICK P : DayBefore(b, ages, P)
  BY Zenon DEF Counted
<1>3. b.idsSince \in Nat /\ DayDur \in Nat
  BY LimitBounds, NoneIsNoBlocker, Zenon DEF Blocker
<1>4. ASSUME NEW id \in Ids, ages[id] < DayDur PROVE id \in b.ids
  BY <1>2, <1>3, <1>4 DEF DayBefore
<1> QED
  BY <1>1, <1>4, Zenon

LEMMA EntryMayGo ==
  ASSUME NEW b \in Blocker, b # None, NEW ages \in [Ids -> Nat], Counted(b, ages),
         b.idsSince >= DayDur
  PROVE  Counted(None, ages)
<1>1. DayBefore(None, ages, b.ids)
  BY EndedDay, Zenon DEF DayBefore
<1> QED
  BY <1>1, Zenon DEF Counted

\* The purge, the cleanup and the console remove no entry whose day runs.
LEMMA Retained ==
  ASSUME BlockerInv, NEW kept,
         \A ip \in Ips : blockers[ip] # None /\ ip \notin kept => blockers[ip].idsSince >= DayDur
  PROVE  /\ L!Retain(blockers, kept) \in [Ips -> Blocker \cup {None}]
         /\ \A ip \in Ips :
              /\ Counted(L!Retain(blockers, kept)[ip], named[ip])
              /\ L!Retain(blockers, kept)[ip] \in {blockers[ip], None}
<1>1. /\ L!Retain(blockers, kept) = [ip \in Ips |-> IF ip \in kept THEN blockers[ip] ELSE None]
      /\ blockers \in [Ips -> Blocker \cup {None}] /\ named \in [Ips -> [Ids -> Nat]]
  BY Zenon DEF BlockerInv, BlockerTypes, L!Retain
<1>2. ASSUME NEW ip \in Ips PROVE Counted(L!Retain(blockers, kept)[ip], named[ip])
  <2>1. CASE ip \in kept \/ blockers[ip] = None
    BY <1>1, <2>1, Zenon DEF BlockerInv
  <2>2. CASE ip \notin kept /\ blockers[ip] # None
    <3>1. /\ blockers[ip] \in Blocker /\ named[ip] \in [Ids -> Nat]
          /\ Counted(blockers[ip], named[ip]) /\ blockers[ip].idsSince >= DayDur
      BY <1>1, <2>2, Zenon DEF BlockerInv
    <3>2. Counted(None, named[ip])
      BY <2>2, <3>1, EntryMayGo, Zenon
    <3> QED
      BY <1>1, <2>2, <3>2, Zenon
  <2> QED
    BY <2>1, <2>2, Zenon
<1> QED
  BY <1>1, <1>2, Zenon

\* An entry that is not live has both windows over.
LEMMA LiveAreKept ==
  ASSUME BlockerTypes, NEW ip \in Ips, blockers[ip] # None, ip \notin L!LiveBlockers
  PROVE  blockers[ip].since >= BlockDur /\ blockers[ip].idsSince >= DayDur
<1>1. blockers[ip] \in Blocker /\ DOMAIN blockers = Ips
  BY Zenon DEF BlockerTypes
<1>2. ~(blockers[ip].since < BlockDur) /\ ~(blockers[ip].idsSince < DayDur)
  BY <1>1, Zenon DEF L!LiveBlockers, L!Tracked, L!BlockerLive
<1> QED
  BY <1>1, <1>2, LimitBounds DEF Blocker

\* A request that is counted keeps the count of ids: of the present day if it
\* runs on, and of a new one otherwise.
CountsId(old, b, e, id, ages, now) ==
  /\ b = old \/ (old = None /\ b.ids = {} /\ b.idsSince = 0)
  /\ e.idsSince = (IF b.idsSince >= DayDur THEN 0 ELSE b.idsSince)
  /\ \/ /\ Cardinality(L!DayIds(b) \cup {id}) <= IdLimit
        /\ e.ids = L!DayIds(b) \cup {id} /\ now = [ages EXCEPT ![id] = 0]
     \/ e.ids = L!DayIds(b) /\ now = ages

LEMMA RequestCounted ==
  ASSUME NEW old \in Blocker \cup {None}, NEW ages \in [Ids -> Nat],
         Counted(old, ages), NEW id \in Ids, NEW b \in Blocker, NEW e \in Blocker,
         NEW now \in [Ids -> Nat], CountsId(old, b, e, id, ages, now)
  PROVE  Counted(e, now)
<1> USE DEF CountsId
<1>1. IdLimit \in Nat /\ DayDur \in Nat /\ b.idsSince \in Nat /\ b.ids \subseteq Ids
      /\ e # None /\ b # None
  BY LimitBounds, NoneIsNoBlocker, Zenon DEF Blocker
<1>2. Few({})
  BY <1>1, FS_EmptySet DEF Few
<1>3. Few(b.ids)
  BY <1>1, <1>2, Zenon DEF Counted
<1>4. Few(L!DayIds(b))
  BY <1>2, <1>3, Zenon DEF L!DayIds
<1>5. Few(e.ids) /\ L!DayIds(b) \subseteq e.ids
  <2>1. IsFiniteSet(L!DayIds(b) \cup {id})
    BY <1>4, FS_AddElement, Zenon DEF Few
  <2>2. L!DayIds(b) \cup {id} \subseteq Ids
    BY <1>4, Zenon DEF Few
  <2> QED
    BY <1>4, <2>1, <2>2, Zenon DEF Few
<1>6. \A i \in Ids : now[i] < DayDur => i \in e.ids \/ (now[i] = ages[i] /\ ages[i] < DayDur)
  BY <1>5, Zenon
<1>7. CASE old # None /\ b.idsSince >= DayDur
  <2>1. old = b
    BY <1>7, Zenon
  <2>2. DayBefore(e, now, b.ids)
    BY <1>1, <1>6, <1>7, <2>1, EndedDay DEF DayBefore
  <2> QED
    BY <1>5, <2>2, Zenon DEF Counted
<1>8. CASE old = None \/ b.idsSince < DayDur
  <2>1. PICK P : DayBefore(old, ages, P)
    BY Zenon DEF Counted
  <2>2. old # None => b = old /\ L!DayIds(b) = b.ids /\ e.idsSince = b.idsSince
    BY <1>1, <1>8 DEF L!DayIds
  <2>3. old = None => e.idsSince = 0
    BY <1>1, Zenon DEF Blocker
  <2>4. ASSUME NEW i \in Ids, now[i] < DayDur, i \notin e.ids
        PROVE  i \in P /\ e.idsSince <= now[i]
    <3>1. now[i] = ages[i] /\ ages[i] < DayDur /\ ages[i] \in Nat
      BY <1>6, <2>4, Zenon
    <3>2. ~(old # None /\ i \in old.ids)
      BY <1>5, <2>2, <2>4, Zenon
    <3>3. i \in P /\ (old # None => old.idsSince <= ages[i])
      BY <2>1, <3>1, <3>2, Zenon DEF DayBefore
    <3> QED
      BY <2>2, <2>3, <3>1, <3>3
  <2>5. DayBefore(e, now, P)
    BY <1>1, <2>1, <2>4, Zenon DEF DayBefore
  <2> QED
    BY <1>5, <2>5, Zenon DEF Counted
<1> QED
  BY <1>1, <1>7, <1>8

LEMMA SameCount == ASSUME NEW S PROVE L!Cardinality(S) = Cardinality(S)
BY Zenon DEF L!Cardinality, Cardinality

\* The entry of an address after a counted request.
EntryAfter(b, ids, since) == [L!CountRequest(b) EXCEPT !.ids = ids, !.idsSince = since]
\* Its window, and the requests counted in it before.
SinceAfter(b) == IF b.since >= BlockDur THEN 0 ELSE b.since
CountAfter(b) == IF b.since >= BlockDur THEN 0 ELSE b.requests

LEMMA CountedEntry ==
  ASSUME NEW b \in Blocker, NEW ids \in SUBSET Ids, NEW since \in Nat
  PROVE  /\ EntryAfter(b, ids, since) \in Blocker
         /\ EntryAfter(b, ids, since).ids = ids
         /\ EntryAfter(b, ids, since).idsSince = since
         /\ EntryAfter(b, ids, since).requests = CountAfter(b) + 1
         /\ EntryAfter(b, ids, since).since = SinceAfter(b)
<1>1. LET c == [b EXCEPT !.requests = 1, !.since = 0]
      IN  c \in Blocker /\ c.requests = 1 /\ c.since = 0
  BY Zenon DEF Blocker
<1>2. LET c == [b EXCEPT !.requests = b.requests + 1]
      IN  c \in Blocker /\ c.requests = b.requests + 1 /\ c.since = b.since
  BY DEF Blocker
<1>3. /\ L!CountRequest(b) \in Blocker
      /\ L!CountRequest(b).requests = CountAfter(b) + 1 /\ L!CountRequest(b).since = SinceAfter(b)
  BY <1>1, <1>2 DEF L!CountRequest, CountAfter, SinceAfter
<1>4. ASSUME NEW c \in Blocker
      PROVE  /\ [c EXCEPT !.ids = ids, !.idsSince = since] \in Blocker
             /\ [c EXCEPT !.ids = ids, !.idsSince = since].ids = ids
             /\ [c EXCEPT !.ids = ids, !.idsSince = since].idsSince = since
             /\ [c EXCEPT !.ids = ids, !.idsSince = since].requests = c.requests
             /\ [c EXCEPT !.ids = ids, !.idsSince = since].since = c.since
  BY Zenon DEF Blocker
<1> QED
  BY <1>3, <1>4, Zenon DEF EntryAfter

\* allow_ip_request counts the request in the entry b of the address, which
\* becomes e, and then grants it or not.
Counts(table, ip, id, b, e) ==
  /\ b = table[ip] \/ (table[ip] = None /\ b.ids = {} /\ b.idsSince = 0 /\ b.since = 0)
  /\ ~L!Exhausted(b)
  /\ e.requests = CountAfter(b) + 1 /\ e.since = SinceAfter(b)
  /\ e.idsSince = (IF b.idsSince >= DayDur THEN 0 ELSE b.idsSince)
  /\ blockers' = [table EXCEPT ![ip] = e]
  /\ \/ /\ Cardinality(L!DayIds(b) \cup {id}) <= IdLimit
        /\ e.ids = L!DayIds(b) \cup {id}
        /\ named' = [named EXCEPT ![ip][id] = 0]
        /\ granted' = [granted EXCEPT ![ip] = L!Granted(@)]
     \/ e.ids = L!DayIds(b) /\ UNCHANGED <<named, granted>>

\* Otherwise it leaves the purged table as it is.
LEMMA RequestHandled ==
  ASSUME BlockerTypes, NEW ip \in Ips, NEW id \in Ids, L!AllowIpRequest(ip, id),
         NEW table, table = L!Purged(blockers, ip, L!LiveBlockers)
  PROVE  \/ blockers' = table /\ UNCHANGED <<named, granted>>
         \/ \E b, e \in Blocker : Counts(table, ip, id, b, e)
<1> DEFINE b == IF table[ip] # None THEN table[ip]
                ELSE [requests |-> 0, since |-> 0, ids |-> {}, idsSince |-> 0]
           known == Cardinality(L!DayIds(b) \cup {id}) <= IdLimit
           ids == IF known THEN L!DayIds(b) \cup {id} ELSE L!DayIds(b)
           since == IF b.idsSince >= DayDur THEN 0 ELSE b.idsSince
           e == EntryAfter(b, ids, since)
<1>1. \/ blockers' = table /\ UNCHANGED <<named, granted>>
      \/ /\ ~L!Exhausted(b) /\ blockers' = [table EXCEPT ![ip] = e]
         /\ named' = IF known THEN [named EXCEPT ![ip][id] = 0] ELSE named
         /\ granted' = IF known THEN [granted EXCEPT ![ip] = L!Granted(@)] ELSE granted
  BY SameCount, Zenon DEF L!AllowIpRequest, EntryAfter
<1>2. /\ b \in Blocker
      /\ b = table[ip] \/ (table[ip] = None /\ b.ids = {} /\ b.idsSince = 0 /\ b.since = 0)
  <2>1. table[ip] \in Blocker \cup {None}
    BY Zenon DEF BlockerTypes, L!Purged, L!Retain
  <2> QED
    BY <2>1, Zenon DEF Blocker
<1> HIDE DEF b
<1>3. ids \in SUBSET Ids /\ since \in Nat
  BY <1>2, Zenon DEF Blocker, L!DayIds
<1>4. /\ e \in Blocker /\ e.ids = ids /\ e.idsSince = since
      /\ e.requests = CountAfter(b) + 1 /\ e.since = SinceAfter(b)
  <2> HIDE DEF known, ids, since
  <2> QED
    BY <1>2, <1>3, CountedEntry
<1> HIDE DEF e
<1>5. CASE known
  BY <1>1, <1>2, <1>4, <1>5, Zenon DEF Counts
<1>6. CASE ~known
  BY <1>1, <1>2, <1>4, <1>6, Zenon DEF Counts
<1> QED
  BY <1>5, <1>6, Zenon

LEMMA AllowKeeps ==
  ASSUME BlockerInv, NEW ip \in Ips, NEW id \in Ids, L!AllowIpRequest(ip, id)
  PROVE  BlockerInv'
<1> DEFINE table == L!Purged(blockers, ip, L!LiveBlockers)
<1>1. /\ table \in [Ips -> Blocker \cup {None}]
      /\ \A a \in Ips : Counted(table[a], named[a])
  BY LiveAreKept, Retained, Zenon DEF L!Purged, BlockerInv, BlockerTypes
<1> HIDE DEF table
<1>2. CASE blockers' = table /\ UNCHANGED named
  BY <1>1, <1>2, Zenon DEF BlockerInv, BlockerTypes
<1>3. ASSUME NEW b \in Blocker, NEW e \in Blocker, Counts(table, ip, id, b, e)
      PROVE  BlockerInv'
  <2>1. named[ip] \in [Ids -> Nat] /\ named \in [Ips -> [Ids -> Nat]]
    BY Zenon DEF BlockerInv, BlockerTypes
  <2>2. /\ blockers' \in [Ips -> Blocker \cup {None}] /\ blockers'[ip] = e
        /\ \A a \in Ips \ {ip} : blockers'[a] = table[a]
    BY <1>1, <1>3, Zenon DEF Counts
  <2>3. /\ named' \in [Ips -> [Ids -> Nat]]
        /\ \A a \in Ips \ {ip} : named'[a] = named[a]
    BY <1>3, <2>1 DEF Counts
  <2>4. \/ /\ Cardinality(L!DayIds(b) \cup {id}) <= IdLimit
           /\ e.ids = L!DayIds(b) \cup {id} /\ named'[ip] = [named[ip] EXCEPT ![id] = 0]
        \/ e.ids = L!DayIds(b) /\ named'[ip] = named[ip]
    BY <1>3, <2>1, Zenon DEF Counts
  <2>5. /\ named'[ip] \in [Ids -> Nat] /\ table[ip] \in Blocker \cup {None}
        /\ Counted(table[ip], named[ip])
    BY <1>1, <2>3, Zenon
  <2>6. CountsId(table[ip], b, e, id, named[ip], named'[ip])
    BY <1>3, <2>4, Zenon DEF Counts, CountsId
  <2>7. Counted(e, named'[ip])
    BY <2>1, <2>5, <2>6, RequestCounted, Zenon
  <2> QED
    BY <1>1, <2>2, <2>3, <2>7, Zenon DEF BlockerInv, BlockerTypes
<1>4. BlockerTypes /\ table = L!Purged(blockers, ip, L!LiveBlockers)
  BY Zenon DEF BlockerInv, table
<1> QED
  BY <1>2, <1>3, <1>4, RequestHandled, Zenon

\* The console forgets the ids of an address only with its entry.
LEMMA ShowKeeps ==
  ASSUME BlockerInv, NEW removed, L!ShowIpBlockers(removed)
  PROVE  BlockerInv'
<1> DEFINE kept == L!ShownBlockers \cup {removed}
<1>1. /\ blockers \in [Ips -> Blocker \cup {None}] /\ named \in [Ips -> [Ids -> Nat]]
      /\ DayDur \in Nat /\ IdLimit \in Nat
  BY LimitBounds, NoneIsNoBlocker, Zenon DEF BlockerInv, BlockerTypes
<1>2. /\ L!Retain(blockers, kept) \in [Ips -> Blocker \cup {None}]
      /\ \A ip \in Ips : Counted(L!Retain(blockers, kept)[ip], named[ip])
  <2>1. ASSUME NEW ip \in Ips, blockers[ip] # None, ip \notin kept
        PROVE  blockers[ip].idsSince >= DayDur
    <3>1. blockers[ip] \in Blocker /\ DOMAIN blockers = Ips
      BY <1>1, <2>1, Zenon
    <3>2. ~(blockers[ip].idsSince <= DayDur)
      BY <2>1, <3>1, Zenon DEF L!ShownBlockers, L!Tracked, L!ShownBlocker
    <3> QED
      BY <1>1, <3>1, <3>2 DEF Blocker
  <2> QED
    BY <2>1, Retained, Zenon
<1>3. /\ blockers' = [ip \in Ips |->
           IF ip \in L!ShownBlockers \ {removed} THEN blockers[ip] ELSE None]
      /\ named' = [ip \in Ips |->
           [id \in Ids |-> IF ip = removed THEN DayDur ELSE named[ip][id]]]
  BY <1>1, Zenon DEF L!ShowIpBlockers, L!Retain
<1>4. BlockerTypes'
  BY <1>1, <1>3, Zenon DEF BlockerTypes
<1>5. ASSUME NEW ip \in Ips, ip # removed PROVE Counted(blockers'[ip], named'[ip])
  <2>1. named'[ip] = named[ip]
    BY <1>1, <1>3, <1>5, Zenon
  <2>2. blockers'[ip] = L!Retain(blockers, kept)[ip]
    BY <1>1, <1>3, <1>5, Zenon DEF L!Retain
  <2> QED
    BY <1>2, <2>1, <2>2, Zenon
<1>6. ASSUME NEW ip \in Ips, ip = removed PROVE Counted(blockers'[ip], named'[ip])
  <2>1. blockers'[ip] = None /\ \A id \in Ids : named'[ip][id] = DayDur
    BY <1>3, <1>6, Zenon
  <2>2. Few({})
    BY <1>1, FS_EmptySet DEF Few
  <2>3. DayBefore(None, named'[ip], {})
    BY <1>1, <2>1, <2>2 DEF DayBefore
  <2> QED
    BY <2>1, <2>3, Zenon DEF Counted
<1> QED
  BY <1>4, <1>5, <1>6, Zenon DEF BlockerInv

\* The entry of an address one tick later.
Ticked(b) ==
  [[b EXCEPT !.since = L!Older(b.since, BlockDur + 1)] EXCEPT
     !.idsSince = L!Older(b.idsSince, DayDur + 1)]

LEMMA TickedEntry ==
  ASSUME NEW b \in Blocker
  PROVE  /\ Ticked(b) \in Blocker /\ Ticked(b).ids = b.ids
         /\ Ticked(b).idsSince <= b.idsSince + 1
         /\ Ticked(b).requests = b.requests /\ Ticked(b).since <= b.since + 1
<1>1. /\ L!Older(b.since, BlockDur + 1) \in Nat /\ L!Older(b.idsSince, DayDur + 1) \in Nat
      /\ b.idsSince < DayDur + 1 => L!Older(b.idsSince, DayDur + 1) = b.idsSince + 1
      /\ ~(b.idsSince < DayDur + 1) => L!Older(b.idsSince, DayDur + 1) = DayDur + 1
  BY LimitBounds, NoneIsNoBlocker DEF Blocker, L!Older
<1>2. ASSUME NEW x \in Nat, NEW y \in Nat
      PROVE  /\ [[b EXCEPT !.since = x] EXCEPT !.idsSince = y] \in Blocker
             /\ [[b EXCEPT !.since = x] EXCEPT !.idsSince = y].ids = b.ids
             /\ [[b EXCEPT !.since = x] EXCEPT !.idsSince = y].idsSince = y
             /\ [[b EXCEPT !.since = x] EXCEPT !.idsSince = y].requests = b.requests
             /\ [[b EXCEPT !.since = x] EXCEPT !.idsSince = y].since = x
  BY Zenon DEF Blocker
<1>3. /\ Ticked(b) \in Blocker /\ Ticked(b).ids = b.ids
      /\ Ticked(b).idsSince = L!Older(b.idsSince, DayDur + 1)
      /\ Ticked(b).requests = b.requests /\ Ticked(b).since = L!Older(b.since, BlockDur + 1)
  BY <1>1, <1>2, ZenonT(30) DEF Ticked
<1>4. b.idsSince \in Nat /\ DayDur \in Nat
  BY LimitBounds, NoneIsNoBlocker, Zenon DEF Blocker
<1>5. L!Older(b.since, BlockDur + 1) <= b.since + 1
  BY LimitBounds DEF Blocker, L!Older
<1> QED
  BY <1>1, <1>3, <1>4, <1>5

LEMMA TickedTable ==
  ASSUME L!Tick
  PROVE  blockers' = [ip \in Ips |-> IF blockers[ip] = None THEN None ELSE Ticked(blockers[ip])]
<1>1. ASSUME NEW ip \in Ips, blockers[ip] # None
      PROVE  [L!OlderEntry(blockers[ip], BlockDur + 1) EXCEPT
                !.idsSince = L!Older(blockers[ip].idsSince, DayDur + 1)] = Ticked(blockers[ip])
  BY <1>1, Zenon DEF L!OlderEntry, Ticked
<1> QED
  BY <1>1, Zenon DEF L!Tick

LEMMA TickKeeps ==
  ASSUME BlockerInv, L!Tick
  PROVE  BlockerInv'
<1>1. /\ blockers \in [Ips -> Blocker \cup {None}] /\ named \in [Ips -> [Ids -> Nat]]
      /\ DayDur \in Nat
  BY LimitBounds, NoneIsNoBlocker, Zenon DEF BlockerInv, BlockerTypes
<1>2. /\ blockers' = [ip \in Ips |-> IF blockers[ip] = None THEN None ELSE Ticked(blockers[ip])]
      /\ named' = [ip \in Ips |-> [id \in Ids |-> L!Older(named[ip][id], DayDur)]]
  BY TickedTable, Zenon DEF L!Tick
<1>3. BlockerTypes'
  <2>1. \A n \in Nat : L!Older(n, DayDur) \in Nat
    BY <1>1 DEF L!Older
  <2> QED
    BY <1>1, <1>2, <2>1, TickedEntry, Zenon DEF BlockerTypes
<1>4. ASSUME NEW ip \in Ips PROVE Counted(blockers'[ip], named'[ip])
  <2>1. /\ (blockers[ip] = None) = (blockers'[ip] = None)
        /\ blockers[ip] # None => /\ blockers'[ip].ids = blockers[ip].ids
                                  /\ blockers[ip].idsSince \in Nat /\ blockers'[ip].idsSince \in Nat
                                  /\ blockers'[ip].idsSince <= blockers[ip].idsSince + 1
    <3>1. CASE blockers[ip] = None
      BY <1>2, <3>1, Zenon
    <3>2. CASE blockers[ip] # None
      <4>1. blockers[ip] \in Blocker /\ blockers'[ip] = Ticked(blockers[ip])
        BY <1>1, <1>2, <3>2, Zenon
      <4>2. blockers'[ip] \in Blocker
        BY <4>1, TickedEntry, Zenon
      <4> QED
        BY <3>2, <4>1, <4>2, TickedEntry, LimitBounds, NoneIsNoBlocker, Zenon DEF Blocker
    <3> QED
      BY <3>1, <3>2, Zenon
  <2>2. PICK P : DayBefore(blockers[ip], named[ip], P)
    BY Zenon DEF BlockerInv, Counted
  <2>3. ASSUME NEW id \in Ids, named'[ip][id] < DayDur
        PROVE  /\ named[ip][id] \in Nat /\ named[ip][id] < DayDur
               /\ named'[ip][id] = named[ip][id] + 1
    BY <1>1, <1>2, <2>3 DEF L!Older
  <2>4. ASSUME NEW id \in Ids, named'[ip][id] < DayDur
        PROVE  \/ blockers'[ip] # None /\ id \in blockers'[ip].ids
               \/ /\ id \in P
                  /\ blockers'[ip] # None => blockers'[ip].idsSince <= named'[ip][id]
    <3>1. \/ blockers[ip] # None /\ id \in blockers[ip].ids
          \/ id \in P /\ (blockers[ip] # None => blockers[ip].idsSince <= named[ip][id])
      BY <2>2, <2>3, <2>4, Zenon DEF DayBefore
    <3> QED
      BY <2>1, <2>3, <2>4, <3>1
  <2>5. DayBefore(blockers'[ip], named'[ip], P)
    BY <2>2, <2>4, Zenon DEF DayBefore
  <2>6. blockers'[ip] # None => Few(blockers'[ip].ids)
    BY <2>1, Zenon DEF BlockerInv, Counted
  <2> QED
    BY <2>5, <2>6, Zenon DEF Counted
<1> QED
  BY <1>3, <1>4, Zenon DEF BlockerInv

LEMMA NextBlockers ==
  ASSUME BlockerInv, [L!Next]_(L!vars)
  PROVE  BlockerInv'
<1>1. ASSUME NEW ip \in Ips, NEW id \in Ids, L!AllowIpRequest(ip, id) PROVE BlockerInv'
  BY <1>1, AllowKeeps, Zenon
<1>2. ASSUME NEW ip, L!ShowIpBlockers(ip) PROVE BlockerInv'
  BY <1>2, ShowKeeps, Zenon
<1>3. CASE L!CleanupTransientState
  <2>1. blockers' = L!Retain(blockers, L!LiveBlockers) /\ named' = named
    BY <1>3, Zenon DEF L!CleanupTransientState
  <2> QED
    BY <2>1, LiveAreKept, Retained, Zenon DEF BlockerInv, BlockerTypes
<1>4. CASE L!Tick
  BY <1>4, TickKeeps, Zenon
<1>5. CASE L!Changes \/ L!Proxying \/ UNCHANGED L!vars
  <2>1. UNCHANGED <<blockers, named>>
    BY <1>5, Zenon DEF L!Changes, L!RecordIpChange, L!ShowIpChanges, L!Proxying,
                L!AllowHttpProxyRequest, L!requestVars, L!vars
  <2> QED
    BY <2>1, Zenon DEF BlockerInv, BlockerTypes
<1> QED
  BY <1>1, <1>2, <1>3, <1>4, <1>5, Zenon DEF L!Next, L!Requests

LEMMA IdsWithinTwoDays ==
  ASSUME BlockerInv
  PROVE  \A ip \in Ips : Cardinality(L!NamedIds(ip)) <= 2 * IdLimit
<1> SUFFICES ASSUME NEW ip \in Ips
             PROVE  Cardinality(L!NamedIds(ip)) <= 2 * IdLimit
  BY Zenon
<1>1. PICK P : DayBefore(blockers[ip], named[ip], P)
  BY Zenon DEF BlockerInv, Counted
<1> DEFINE Q == IF blockers[ip] = None THEN {} ELSE blockers[ip].ids
<1>2. Few(P) /\ Few(Q)
  <2>1. Few({})
    BY FS_EmptySet, LimitBounds DEF Few
  <2> QED
    BY <1>1, <2>1, Zenon DEF DayBefore, BlockerInv, Counted
<1>3. L!NamedIds(ip) \subseteq P \cup Q
  BY <1>1, Zenon DEF DayBefore, L!NamedIds
<1> HIDE DEF Q
<1>4. /\ IsFiniteSet(P \cup Q)
      /\ Cardinality(P \cup Q) = Cardinality(P) + Cardinality(Q) - Cardinality(P \cap Q)
  BY <1>2, FS_Union, Zenon DEF Few
<1>5. /\ Cardinality(P) \in Nat /\ Cardinality(Q) \in Nat /\ Cardinality(P \cap Q) \in Nat
      /\ Cardinality(P) <= IdLimit /\ Cardinality(Q) <= IdLimit
  BY <1>2, FS_CardinalityType, FS_Intersection, Zenon DEF Few
<1>6. /\ Cardinality(L!NamedIds(ip)) \in Nat
      /\ Cardinality(L!NamedIds(ip)) <= Cardinality(P \cup Q)
  BY <1>3, <1>4, FS_Subset, FS_CardinalityType, Zenon
<1> QED
  BY <1>4, <1>5, <1>6, LimitBounds

-----------------------------------------------------------------------------
(* Requests per window, of IP_BLOCKER and of http_proxy_rates: the last    *)
(* grants belong to the present window or to the one before, and no window *)
(* has more of them than the limit.                                        *)

Ages(limit) == [L!Grants(limit) -> Nat]

\* Of a window that began s ticks ago and has counted r requests, the last c
\* grants; the others are older than the window, and all but limit of those
\* belong to windows that were over when the one before began.
Spent(r, s, ages, limit) == \E c \in 0..limit :
  /\ c <= r
  /\ \A n \in L!Grants(limit) :
       /\ n > c => ages[n] >= s \/ ages[n] >= BlockDur
       /\ n > c + limit => ages[n] >= BlockDur

\* Without an entry, the same of the window before.
Rested(ages, limit) == \A n \in L!Grants(limit) : n > limit => ages[n] >= BlockDur

Fits(e, ages, limit) ==
  IF e = None THEN Rested(ages, limit) ELSE Spent(e.requests, e.since, ages, limit)

LEMMA WindowEnds ==
  ASSUME NEW limit \in Nat, NEW ages \in Ages(limit), NEW r \in Nat, NEW s \in Nat,
         Spent(r, s, ages, limit), s >= BlockDur
  PROVE  Rested(ages, limit)
<1>1. PICK c \in 0..limit : \A n \in L!Grants(limit) : n > c => ages[n] >= s \/ ages[n] >= BlockDur
  BY Zenon DEF Spent
<1> SUFFICES ASSUME NEW n \in L!Grants(limit), n > limit PROVE ages[n] >= BlockDur
  BY Zenon DEF Rested
<1>2. n \in Nat /\ ages[n] \in Nat
  BY DEF L!Grants, Ages
<1>3. ages[n] >= s \/ ages[n] >= BlockDur
  BY <1>1, <1>2
<1> QED
  BY <1>2, <1>3, LimitBounds

LEMMA WindowOpens ==
  ASSUME NEW limit \in Nat, NEW ages \in Ages(limit), NEW r \in Nat, Rested(ages, limit)
  PROVE  Spent(r, 0, ages, limit)
<1>1. \A n \in L!Grants(limit) : ages[n] \in Nat /\ ages[n] >= 0
  BY DEF Ages
<1>2. \A n \in L!Grants(limit) : n > 0 + limit => ages[n] >= BlockDur
  BY DEF Rested
<1> QED
  BY <1>1, <1>2 DEF Spent

LEMMA CountsOn ==
  ASSUME NEW limit \in Nat, NEW ages, NEW r \in Nat, NEW s, NEW q \in Nat, q >= r,
         Spent(r, s, ages, limit)
  PROVE  Spent(q, s, ages, limit)
<1>1. \A c \in 0..limit : c <= r => c <= q
  OBVIOUS
<1> QED
  BY <1>1, Zenon DEF Spent

\* A request that is granted while the window has room.
LEMMA GrantCounts ==
  ASSUME NEW limit \in Nat, NEW ages \in Ages(limit), NEW r \in Nat, NEW s \in Nat,
         Spent(r, s, ages, limit), r < limit
  PROVE  L!Granted(ages) \in Ages(limit) /\ Spent(r + 1, s, L!Granted(ages), limit)
<1> DEFINE now == L!Granted(ages)
<1>1. /\ now \in Ages(limit)
      /\ \A n \in L!Grants(limit) : n > 1 => now[n] = ages[n - 1] /\ n - 1 \in L!Grants(limit)
  BY DEF L!Granted, Ages, L!Grants
<1>2. PICK c \in 0..limit :
        /\ c <= r
        /\ \A n \in L!Grants(limit) : /\ n > c => ages[n] >= s \/ ages[n] >= BlockDur
                                      /\ n > c + limit => ages[n] >= BlockDur
  BY Zenon DEF Spent
<1>3. c + 1 \in 0..limit /\ c + 1 <= r + 1
  BY <1>2
<1> HIDE DEF now
<1>4. ASSUME NEW n \in L!Grants(limit)
      PROVE  /\ n > c + 1 => now[n] >= s \/ now[n] >= BlockDur
             /\ n > (c + 1) + limit => now[n] >= BlockDur
  <2>1. n \in Nat
    BY DEF L!Grants
  <2>2. n > c + 1 => n > 1 /\ n - 1 > c /\ (n > (c + 1) + limit => n - 1 > c + limit)
    BY <2>1
  <2>3. n > (c + 1) + limit => n > c + 1
    BY <2>1
  <2> QED
    BY <1>1, <1>2, <2>2, <2>3, Zenon
<1>5. Spent(r + 1, s, now, limit)
  BY <1>3, <1>4, Zenon DEF Spent
<1> QED
  BY <1>1, <1>5, Zenon DEF now

LEMMA GrantsAge ==
  ASSUME NEW limit \in Nat, NEW ages \in Ages(limit)
  PROVE  /\ L!OlderGrants(ages) \in Ages(limit)
         /\ \A n \in L!Grants(limit) :
              /\ ages[n] \in Nat /\ L!OlderGrants(ages)[n] \in Nat
              /\ L!OlderGrants(ages)[n] >= BlockDur \/ L!OlderGrants(ages)[n] = ages[n] + 1
              /\ ages[n] >= BlockDur => L!OlderGrants(ages)[n] >= BlockDur
<1>1. ASSUME NEW a \in Nat
      PROVE  /\ L!Older(a, BlockDur) \in Nat
             /\ L!Older(a, BlockDur) >= BlockDur \/ L!Older(a, BlockDur) = a + 1
             /\ a >= BlockDur => L!Older(a, BlockDur) >= BlockDur
  <2>1. BlockDur \in Nat
    BY LimitBounds, Zenon
  <2> QED
    BY <2>1 DEF L!Older
<1>2. \A n \in L!Grants(limit) : ages[n] \in Nat
  BY Zenon DEF Ages
<1>3. L!OlderGrants(ages) = [n \in L!Grants(limit) |-> L!Older(ages[n], BlockDur)]
  BY Zenon DEF L!OlderGrants, Ages
<1> QED
  BY <1>1, <1>2, <1>3, Zenon DEF Ages

\* One tick: the window and the grants in it age together.
LEMMA WindowAges ==
  ASSUME NEW limit \in Nat, NEW ages \in Ages(limit), NEW r \in Nat, NEW s \in Nat,
         NEW t \in Nat, t <= s + 1, Spent(r, s, ages, limit)
  PROVE  Spent(r, t, L!OlderGrants(ages), limit)
<1> DEFINE now == L!OlderGrants(ages)
<1>1. PICK c \in 0..limit :
        /\ c <= r
        /\ \A n \in L!Grants(limit) : /\ n > c => ages[n] >= s \/ ages[n] >= BlockDur
                                      /\ n > c + limit => ages[n] >= BlockDur
  BY Zenon DEF Spent
<1>2. \A n \in L!Grants(limit) :
        /\ ages[n] \in Nat /\ now[n] \in Nat
        /\ now[n] >= BlockDur \/ now[n] = ages[n] + 1
        /\ ages[n] >= BlockDur => now[n] >= BlockDur
  BY GrantsAge, Zenon
<1> HIDE DEF now
<1>3. ASSUME NEW n \in L!Grants(limit)
      PROVE  /\ n > c => now[n] >= t \/ now[n] >= BlockDur
             /\ n > c + limit => now[n] >= BlockDur
  BY <1>1, <1>2
<1>4. Spent(r, t, now, limit)
  BY <1>1, <1>3, Zenon DEF Spent
<1> QED
  BY <1>4, Zenon DEF now

LEMMA RestAges ==
  ASSUME NEW limit \in Nat, NEW ages \in Ages(limit), Rested(ages, limit)
  PROVE  Rested(L!OlderGrants(ages), limit)
  BY GrantsAge, Zenon DEF Rested

LEMMA NothingGranted ==
  ASSUME NEW limit \in Nat
  PROVE  L!NoGrants(limit) \in Ages(limit) /\ Rested(L!NoGrants(limit), limit)
  BY LimitBounds DEF L!NoGrants, L!Grants, Ages, Rested

LEMMA TwoWindows ==
  ASSUME NEW limit \in Nat, NEW ages \in Ages(limit), NEW e, Fits(e, ages, limit)
  PROVE  ages[2 * limit + 1] >= BlockDur
<1>1. 2 * limit + 1 \in L!Grants(limit) /\ 2 * limit + 1 > limit
  BY DEF L!Grants
<1>2. \A c \in 0..limit : 2 * limit + 1 > c + limit
  OBVIOUS
<1>3. CASE e = None
  BY <1>1, <1>3, Zenon DEF Fits, Rested
<1>4. CASE e # None
  BY <1>1, <1>2, <1>4, Zenon DEF Fits, Spent
<1> QED
  BY <1>3, <1>4, Zenon
-----------------------------------------------------------------------------
(* The requests of IP_BLOCKER.                                             *)

GrantInv ==
  /\ granted \in [Ips -> Ages(RequestLimit)]
  /\ \A ip \in Ips : Fits(blockers[ip], granted[ip], RequestLimit)

\* An entry whose window is over may go.
LEMMA WindowMayGo ==
  ASSUME NEW b \in Blocker, NEW ages \in Ages(RequestLimit), Fits(b, ages, RequestLimit),
         b.since >= BlockDur
  PROVE  Rested(ages, RequestLimit)
<1>1. b.requests \in Nat /\ b.since \in Nat /\ b # None /\ RequestLimit \in Nat
  BY LimitBounds, NoneIsNoBlocker, Zenon DEF Blocker
<1>2. Spent(b.requests, b.since, ages, RequestLimit)
  BY <1>1, Zenon DEF Fits
<1> QED
  BY <1>1, <1>2, WindowEnds, Zenon

\* The purge, the cleanup and the console remove no entry whose window runs.
LEMMA RetainedGrants ==
  ASSUME BlockerTypes, GrantInv, NEW kept,
         \A ip \in Ips : blockers[ip] # None /\ ip \notin kept => blockers[ip].since >= BlockDur
  PROVE  /\ L!Retain(blockers, kept) \in [Ips -> Blocker \cup {None}]
         /\ \A ip \in Ips : Fits(L!Retain(blockers, kept)[ip], granted[ip], RequestLimit)
<1>1. /\ L!Retain(blockers, kept) = [ip \in Ips |-> IF ip \in kept THEN blockers[ip] ELSE None]
      /\ blockers \in [Ips -> Blocker \cup {None}] /\ granted \in [Ips -> Ages(RequestLimit)]
  BY Zenon DEF BlockerTypes, GrantInv, L!Retain
<1>2. ASSUME NEW ip \in Ips PROVE Fits(L!Retain(blockers, kept)[ip], granted[ip], RequestLimit)
  <2>1. CASE ip \in kept \/ blockers[ip] = None
    <3>1. L!Retain(blockers, kept)[ip] = blockers[ip]
      BY <1>1, <2>1, Zenon
    <3> QED
      BY <3>1, Zenon DEF GrantInv
  <2>2. CASE ip \notin kept /\ blockers[ip] # None
    <3>1. /\ blockers[ip] \in Blocker /\ granted[ip] \in Ages(RequestLimit)
          /\ Fits(blockers[ip], granted[ip], RequestLimit) /\ blockers[ip].since >= BlockDur
      BY <1>1, <2>2, Zenon DEF GrantInv
    <3>2. Rested(granted[ip], RequestLimit)
      BY <3>1, WindowMayGo, Zenon
    <3>3. L!Retain(blockers, kept)[ip] = None
      BY <1>1, <2>2, Zenon
    <3> QED
      BY <3>2, <3>3, Zenon DEF Fits
  <2> QED
    BY <2>1, <2>2, Zenon
<1>3. L!Retain(blockers, kept) \in [Ips -> Blocker \cup {None}]
  BY <1>1, Zenon
<1> QED
  BY <1>2, <1>3, Zenon

\* A request that is counted, and granted or not.
LEMMA RequestGranted ==
  ASSUME NEW old \in Blocker \cup {None}, NEW ages \in Ages(RequestLimit),
         Fits(old, ages, RequestLimit), NEW b \in Blocker, b = old \/ (old = None /\ b.since = 0),
         ~L!Exhausted(b), NEW e \in Blocker,
         e.requests = CountAfter(b) + 1, e.since = SinceAfter(b),
         NEW now, now = ages \/ now = L!Granted(ages)
  PROVE  now \in Ages(RequestLimit) /\ Fits(e, now, RequestLimit)
<1>1. /\ RequestLimit \in Nat /\ 0 < RequestLimit /\ BlockDur \in Nat
      /\ b.requests \in Nat /\ b.since \in Nat /\ b # None /\ e # None
  BY LimitBounds, NoneIsNoBlocker DEF Blocker
<1>2. Spent(b.requests, b.since, ages, RequestLimit)
  <2>1. CASE old = None
    <3>1. b.since = 0 /\ Rested(ages, RequestLimit)
      BY <1>1, <2>1, Zenon DEF Fits
    <3> QED
      BY <1>1, <3>1, WindowOpens, Zenon
  <2>2. CASE old # None
    BY <2>2, Zenon DEF Fits
  <2> QED
    BY <2>1, <2>2, Zenon
<1>3. /\ CountAfter(b) \in Nat /\ SinceAfter(b) \in Nat /\ CountAfter(b) < RequestLimit
      /\ Spent(CountAfter(b), SinceAfter(b), ages, RequestLimit)
  <2>1. CASE b.since >= BlockDur
    <3>1. CountAfter(b) = 0 /\ SinceAfter(b) = 0
      BY <2>1, Zenon DEF CountAfter, SinceAfter
    <3>2. Rested(ages, RequestLimit)
      BY <1>1, <1>2, <2>1, WindowEnds, Zenon
    <3>3. Spent(0, 0, ages, RequestLimit)
      BY <1>1, <3>2, WindowOpens, Zenon
    <3> QED
      BY <1>1, <3>1, <3>3
  <2>2. CASE ~(b.since >= BlockDur)
    <3>1. CountAfter(b) = b.requests /\ SinceAfter(b) = b.since
      BY <2>2, Zenon DEF CountAfter, SinceAfter
    <3>2. b.requests < RequestLimit
      BY <1>1, <2>2 DEF L!Exhausted
    <3> QED
      BY <1>1, <1>2, <3>1, <3>2, Zenon
  <2> QED
    BY <2>1, <2>2, Zenon
<1>4. CountAfter(b) + 1 \in Nat /\ CountAfter(b) + 1 >= CountAfter(b)
  BY <1>3
<1>5. now \in Ages(RequestLimit) /\ Spent(CountAfter(b) + 1, SinceAfter(b), now, RequestLimit)
  <2>1. CASE now = ages
    BY <1>1, <1>3, <1>4, <2>1, CountsOn, Zenon
  <2>2. CASE now = L!Granted(ages)
    BY <1>1, <1>3, <2>2, GrantCounts, Zenon
  <2> QED
    BY <2>1, <2>2, Zenon
<1> QED
  BY <1>1, <1>5, Zenon DEF Fits
LEMMA AllowGrants ==
  ASSUME BlockerTypes, GrantInv, NEW ip \in Ips, NEW id \in Ids, L!AllowIpRequest(ip, id)
  PROVE  GrantInv'
<1> DEFINE table == L!Purged(blockers, ip, L!LiveBlockers)
<1>1. /\ table \in [Ips -> Blocker \cup {None}]
      /\ \A a \in Ips : Fits(table[a], granted[a], RequestLimit)
  BY LiveAreKept, RetainedGrants, Zenon DEF L!Purged, BlockerTypes, GrantInv
<1> HIDE DEF table
<1>2. CASE blockers' = table /\ UNCHANGED <<named, granted>>
  BY <1>1, <1>2, Zenon DEF GrantInv
<1>3. ASSUME NEW b \in Blocker, NEW e \in Blocker, Counts(table, ip, id, b, e)
      PROVE  GrantInv'
  <2>1. granted[ip] \in Ages(RequestLimit) /\ granted \in [Ips -> Ages(RequestLimit)]
    BY Zenon DEF GrantInv
  <2>2. blockers'[ip] = e /\ \A a \in Ips \ {ip} : blockers'[a] = table[a]
    BY <1>1, <1>3, Zenon DEF Counts
  <2>3. /\ granted' = granted \/ granted' = [granted EXCEPT ![ip] = L!Granted(@)]
        /\ b = table[ip] \/ (table[ip] = None /\ b.since = 0)
        /\ ~L!Exhausted(b)
        /\ e.requests = CountAfter(b) + 1 /\ e.since = SinceAfter(b)
    BY <1>3, Zenon DEF Counts
  <2>4. /\ granted'[ip] = granted[ip] \/ granted'[ip] = L!Granted(granted[ip])
        /\ \A a \in Ips \ {ip} : granted'[a] = granted[a]
    BY <2>1, <2>3, Zenon
  <2>5. table[ip] \in Blocker \cup {None} /\ Fits(table[ip], granted[ip], RequestLimit)
    BY <1>1, Zenon
  <2>6. granted'[ip] \in Ages(RequestLimit) /\ Fits(e, granted'[ip], RequestLimit)
    BY <2>1, <2>3, <2>4, <2>5, RequestGranted, ZenonT(30)
  <2>7. granted' \in [Ips -> Ages(RequestLimit)]
    BY <2>1, <2>3, <2>6, Zenon
  <2> QED
    BY <1>1, <2>2, <2>4, <2>6, <2>7, Zenon DEF GrantInv
<1>4. BlockerTypes /\ table = L!Purged(blockers, ip, L!LiveBlockers)
  BY Zenon DEF table
<1> QED
  BY <1>2, <1>3, <1>4, RequestHandled, Zenon

LEMMA ShowGrants ==
  ASSUME BlockerTypes, GrantInv, NEW removed, L!ShowIpBlockers(removed)
  PROVE  GrantInv'
<1> DEFINE kept == L!ShownBlockers \cup {removed}
<1>1. /\ blockers \in [Ips -> Blocker \cup {None}] /\ granted \in [Ips -> Ages(RequestLimit)]
      /\ BlockDur \in Nat /\ RequestLimit \in Nat
  BY LimitBounds, Zenon DEF BlockerTypes, GrantInv
<1>2. \A ip \in Ips : Fits(L!Retain(blockers, kept)[ip], granted[ip], RequestLimit)
  <2>1. ASSUME NEW ip \in Ips, blockers[ip] # None, ip \notin kept
        PROVE  blockers[ip].since >= BlockDur
    <3>1. blockers[ip] \in Blocker /\ DOMAIN blockers = Ips
      BY <1>1, <2>1, Zenon
    <3>2. ~(blockers[ip].since <= BlockDur)
      BY <2>1, <3>1, Zenon DEF L!ShownBlockers, L!Tracked, L!ShownBlocker
    <3> QED
      BY <1>1, <3>1, <3>2 DEF Blocker
  <2> QED
    BY <2>1, RetainedGrants, Zenon
<1>3. /\ blockers' = [ip \in Ips |->
           IF ip \in L!ShownBlockers \ {removed} THEN blockers[ip] ELSE None]
      /\ granted' = [ip \in Ips |->
           IF ip = removed THEN L!NoGrants(RequestLimit) ELSE granted[ip]]
  BY <1>1, Zenon DEF L!ShowIpBlockers, L!Retain
<1>4. /\ L!NoGrants(RequestLimit) \in Ages(RequestLimit)
      /\ Rested(L!NoGrants(RequestLimit), RequestLimit)
  BY <1>1, NothingGranted, Zenon
<1>5. granted' \in [Ips -> Ages(RequestLimit)]
  BY <1>1, <1>3, <1>4, Zenon
<1>6. ASSUME NEW ip \in Ips PROVE Fits(blockers'[ip], granted'[ip], RequestLimit)
  <2>1. CASE ip = removed
    <3>1. blockers'[ip] = None /\ granted'[ip] = L!NoGrants(RequestLimit)
      BY <1>3, <2>1, Zenon
    <3> QED
      BY <1>4, <3>1, Zenon DEF Fits
  <2>2. CASE ip # removed
    <3>1. granted'[ip] = granted[ip]
      BY <1>3, <2>2, Zenon
    <3>2. blockers'[ip] = L!Retain(blockers, kept)[ip]
      BY <1>1, <1>3, <2>2, Zenon DEF L!Retain
    <3> QED
      BY <1>2, <3>1, <3>2, Zenon
  <2> QED
    BY <2>1, <2>2, Zenon
<1> QED
  BY <1>5, <1>6, Zenon DEF GrantInv

LEMMA TickGrants ==
  ASSUME BlockerTypes, GrantInv, L!Tick
  PROVE  GrantInv'
<1>1. /\ blockers \in [Ips -> Blocker \cup {None}] /\ granted \in [Ips -> Ages(RequestLimit)]
      /\ RequestLimit \in Nat
  BY LimitBounds, Zenon DEF BlockerTypes, GrantInv
<1>2. /\ blockers' = [ip \in Ips |-> IF blockers[ip] = None THEN None ELSE Ticked(blockers[ip])]
      /\ granted' = [ip \in Ips |-> L!OlderGrants(granted[ip])]
  BY TickedTable, Zenon DEF L!Tick
<1>3. granted' \in [Ips -> Ages(RequestLimit)]
  BY <1>1, <1>2, GrantsAge, Zenon
<1>4. ASSUME NEW ip \in Ips PROVE Fits(blockers'[ip], granted'[ip], RequestLimit)
  <2>1. /\ granted'[ip] = L!OlderGrants(granted[ip]) /\ granted[ip] \in Ages(RequestLimit)
        /\ Fits(blockers[ip], granted[ip], RequestLimit)
    BY <1>1, <1>2, Zenon DEF GrantInv
  <2>2. CASE blockers[ip] = None
    <3>1. blockers'[ip] = None /\ Rested(granted[ip], RequestLimit)
      BY <1>2, <2>1, <2>2, Zenon DEF Fits
    <3>2. Rested(granted'[ip], RequestLimit)
      BY <1>1, <2>1, <3>1, RestAges, Zenon
    <3> QED
      BY <3>1, <3>2, Zenon DEF Fits
  <2>3. CASE blockers[ip] # None
    <3> DEFINE b == blockers[ip]
               e == blockers'[ip]
    <3>1. b \in Blocker /\ e = Ticked(b) /\ Spent(b.requests, b.since, granted[ip], RequestLimit)
      BY <1>1, <1>2, <2>1, <2>3, Zenon DEF Fits
    <3>2. e \in Blocker /\ e.requests = b.requests /\ e.since <= b.since + 1
      BY <3>1, TickedEntry, Zenon
    <3> HIDE DEF b, e
    <3>3. b.requests \in Nat /\ b.since \in Nat /\ e.since \in Nat /\ e # None
      BY <3>1, <3>2, NoneIsNoBlocker, Zenon DEF Blocker
    <3>4. Spent(b.requests, e.since, granted'[ip], RequestLimit)
      BY <1>1, <2>1, <3>1, <3>2, <3>3, WindowAges, Zenon
    <3> QED
      BY <3>2, <3>3, <3>4, Zenon DEF Fits, e
  <2> QED
    BY <2>2, <2>3, Zenon
<1> QED
  BY <1>3, <1>4, Zenon DEF GrantInv
LEMMA NextGrants ==
  ASSUME BlockerTypes, GrantInv, [L!Next]_(L!vars)
  PROVE  GrantInv'
<1>1. ASSUME NEW ip \in Ips, NEW id \in Ids, L!AllowIpRequest(ip, id) PROVE GrantInv'
  BY <1>1, AllowGrants, Zenon
<1>2. ASSUME NEW ip, L!ShowIpBlockers(ip) PROVE GrantInv'
  BY <1>2, ShowGrants, Zenon
<1>3. CASE L!CleanupTransientState
  <2>1. blockers' = L!Retain(blockers, L!LiveBlockers) /\ granted' = granted
    BY <1>3, Zenon DEF L!CleanupTransientState
  <2> QED
    BY <2>1, LiveAreKept, RetainedGrants, Zenon DEF GrantInv
<1>4. CASE L!Tick
  BY <1>4, TickGrants, Zenon
<1>5. CASE L!Changes \/ L!Proxying \/ UNCHANGED L!vars
  <2>1. UNCHANGED <<blockers, granted>>
    BY <1>5, Zenon DEF L!Changes, L!RecordIpChange, L!ShowIpChanges, L!Proxying,
                L!AllowHttpProxyRequest, L!requestVars, L!vars
  <2> QED
    BY <2>1, Zenon DEF GrantInv
<1> QED
  BY <1>1, <1>2, <1>3, <1>4, <1>5, Zenon DEF L!Next, L!Requests

-----------------------------------------------------------------------------
(* The requests of http_proxy_rates.                                       *)

Rate == [requests : Nat, since : Nat]
ProxyInv ==
  /\ rates \in [Ips -> Rate \cup {None}] /\ proxied \in [Ips -> Ages(ProxyLimit)]
  /\ \A ip \in Ips : Fits(rates[ip], proxied[ip], ProxyLimit)

LEMMA NoneIsNoRate == None \notin Rate
  BY NoneIsNoEntry, Zenon DEF Rate

\* An entry whose window is over may go.
LEMMA RateMayGo ==
  ASSUME NEW r \in Rate, NEW ages \in Ages(ProxyLimit), Fits(r, ages, ProxyLimit),
         ~L!RateLive(r)
  PROVE  Rested(ages, ProxyLimit)
<1>1. /\ r.requests \in Nat /\ r.since \in Nat /\ r # None
      /\ ProxyLimit \in Nat /\ r.since >= BlockDur
  BY LimitBounds, NoneIsNoRate DEF Rate, L!RateLive
<1>2. Spent(r.requests, r.since, ages, ProxyLimit)
  BY <1>1, Zenon DEF Fits
<1> QED
  BY <1>1, <1>2, WindowEnds, Zenon

LEMMA PurgedRates ==
  ASSUME ProxyInv, NEW ip \in Ips
  PROVE  LET table == L!Purged(rates, ip, L!LiveRates)
         IN  /\ table \in [Ips -> Rate \cup {None}]
             /\ \A a \in Ips : Fits(table[a], proxied[a], ProxyLimit)
<1> DEFINE few == L!Retain(rates, L!LiveRates)
<1>1. rates \in [Ips -> Rate \cup {None}] /\ proxied \in [Ips -> Ages(ProxyLimit)]
  BY Zenon DEF ProxyInv
<1>2. few = [a \in Ips |-> IF a \in L!LiveRates THEN rates[a] ELSE None]
  BY <1>1, Zenon DEF L!Retain
<1>3. ASSUME NEW a \in Ips PROVE Fits(few[a], proxied[a], ProxyLimit)
  <2>1. CASE a \in L!LiveRates \/ rates[a] = None
    <3>1. few[a] = rates[a]
      BY <1>2, <2>1, Zenon
    <3> QED
      BY <3>1, Zenon DEF ProxyInv
  <2>2. CASE a \notin L!LiveRates /\ rates[a] # None
    <3>1. rates[a] \in Rate /\ ~L!RateLive(rates[a]) /\ proxied[a] \in Ages(ProxyLimit)
      BY <1>1, <2>2, Zenon DEF L!LiveRates, L!Tracked
    <3>2. Rested(proxied[a], ProxyLimit)
      BY <3>1, RateMayGo, Zenon DEF ProxyInv
    <3>3. few[a] = None
      BY <1>2, <2>2, Zenon
    <3> QED
      BY <3>2, <3>3, Zenon DEF Fits
  <2> QED
    BY <2>1, <2>2, Zenon
<1>4. few \in [Ips -> Rate \cup {None}]
  BY <1>1, <1>2, Zenon
<1> HIDE DEF few
<1>5. L!Purged(rates, ip, L!LiveRates) \in {few, rates}
  BY Zenon DEF L!Purged, few
<1>6. \A a \in Ips : Fits(rates[a], proxied[a], ProxyLimit)
  BY Zenon DEF ProxyInv
<1> QED
  BY <1>1, <1>3, <1>4, <1>5, <1>6, Zenon

\* A request that is counted and let through, or neither.
LEMMA RequestProxied ==
  ASSUME NEW old \in Rate \cup {None}, NEW ages \in Ages(ProxyLimit), Fits(old, ages, ProxyLimit),
         NEW r \in Rate, r = IF old # None /\ L!RateLive(old) THEN old
                             ELSE [requests |-> 0, since |-> 0],
         NEW e \in Rate, e.since = r.since, NEW now,
         \/ r.requests < ProxyLimit /\ e.requests = r.requests + 1 /\ now = L!Granted(ages)
         \/ e.requests = r.requests /\ now = ages
  PROVE  now \in Ages(ProxyLimit) /\ Fits(e, now, ProxyLimit)
<1>1. /\ ProxyLimit \in Nat /\ r.requests \in Nat /\ r.since \in Nat /\ e # None
  BY LimitBounds, NoneIsNoRate, Zenon DEF Rate
<1>2. Spent(r.requests, r.since, ages, ProxyLimit)
  <2>1. CASE old # None /\ L!RateLive(old)
    BY <2>1, Zenon DEF Fits
  <2>2. CASE ~(old # None /\ L!RateLive(old))
    <3>1. Rested(ages, ProxyLimit)
      BY <2>2, RateMayGo, Zenon DEF Fits
    <3>2. r.since = 0 /\ r.requests = 0
      BY <2>2, Zenon
    <3>3. Spent(0, 0, ages, ProxyLimit)
      BY <1>1, <3>1, WindowOpens, Zenon
    <3> QED
      BY <3>2, <3>3, Zenon
  <2> QED
    BY <2>1, <2>2, Zenon
<1>3. now \in Ages(ProxyLimit) /\ Spent(e.requests, e.since, now, ProxyLimit)
  <2>1. CASE e.requests = r.requests /\ now = ages
    BY <1>2, <2>1, Zenon
  <2>2. CASE r.requests < ProxyLimit /\ e.requests = r.requests + 1 /\ now = L!Granted(ages)
    BY <1>1, <1>2, <2>2, GrantCounts, Zenon
  <2> QED
    BY <2>1, <2>2, Zenon
<1> QED
  BY <1>1, <1>3, Zenon DEF Fits
LEMMA ProxyKeeps ==
  ASSUME ProxyInv, NEW ip \in Ips, L!AllowHttpProxyRequest(ip)
  PROVE  ProxyInv'
<1> DEFINE table == L!Purged(rates, ip, L!LiveRates)
           r == IF table[ip] # None /\ L!RateLive(table[ip]) THEN table[ip]
                ELSE [requests |-> 0, since |-> 0]
           allowed == r.requests < ProxyLimit
           e == [r EXCEPT !.requests = IF allowed THEN r.requests + 1 ELSE r.requests]
<1>1. \/ rates' = table /\ UNCHANGED proxied
      \/ /\ rates' = [table EXCEPT ![ip] = e]
         /\ proxied' = IF allowed THEN [proxied EXCEPT ![ip] = L!Granted(@)] ELSE proxied
  BY Zenon DEF L!AllowHttpProxyRequest
<1>2. /\ table \in [Ips -> Rate \cup {None}]
      /\ \A a \in Ips : Fits(table[a], proxied[a], ProxyLimit)
  BY PurgedRates, Zenon
<1> HIDE DEF table
<1>3. r \in Rate
  BY <1>2, Zenon DEF Rate
<1>4. r = IF table[ip] # None /\ L!RateLive(table[ip]) THEN table[ip]
          ELSE [requests |-> 0, since |-> 0]
  BY Zenon
<1> HIDE DEF r
<1>5. /\ e \in Rate /\ e.since = r.since
      /\ e.requests = IF allowed THEN r.requests + 1 ELSE r.requests
  BY <1>3 DEF Rate
<1> HIDE DEF e
<1>6. CASE rates' = table /\ UNCHANGED proxied
  BY <1>2, <1>6, Zenon DEF ProxyInv
<1>7. CASE /\ rates' = [table EXCEPT ![ip] = e]
           /\ proxied' = IF allowed THEN [proxied EXCEPT ![ip] = L!Granted(@)] ELSE proxied
  <2>1. proxied \in [Ips -> Ages(ProxyLimit)] /\ proxied[ip] \in Ages(ProxyLimit)
    BY Zenon DEF ProxyInv
  <2>2. /\ rates' \in [Ips -> Rate \cup {None}] /\ rates'[ip] = e
        /\ \A a \in Ips \ {ip} : rates'[a] = table[a]
    BY <1>2, <1>5, <1>7, Zenon
  <2>3. /\ proxied'[ip] = IF allowed THEN L!Granted(proxied[ip]) ELSE proxied[ip]
        /\ \A a \in Ips \ {ip} : proxied'[a] = proxied[a]
    BY <1>7, <2>1, Zenon
  <2>4. \/ /\ r.requests < ProxyLimit /\ e.requests = r.requests + 1
           /\ proxied'[ip] = L!Granted(proxied[ip])
        \/ e.requests = r.requests /\ proxied'[ip] = proxied[ip]
    BY <1>5, <2>3, Zenon
  <2>5. table[ip] \in Rate \cup {None} /\ Fits(table[ip], proxied[ip], ProxyLimit)
    BY <1>2, Zenon
  <2>6. proxied'[ip] \in Ages(ProxyLimit) /\ Fits(e, proxied'[ip], ProxyLimit)
    BY <1>3, <1>4, <1>5, <2>1, <2>4, <2>5, RequestProxied, ZenonT(30)
  <2>7. proxied' \in [Ips -> Ages(ProxyLimit)]
    BY <1>7, <2>1, <2>6, Zenon
  <2> QED
    BY <1>2, <2>2, <2>3, <2>6, <2>7, Zenon DEF ProxyInv
<1> QED
  BY <1>1, <1>6, <1>7, Zenon

LEMMA TickProxied ==
  ASSUME ProxyInv, L!Tick
  PROVE  ProxyInv'
<1>1. /\ rates \in [Ips -> Rate \cup {None}] /\ proxied \in [Ips -> Ages(ProxyLimit)]
      /\ ProxyLimit \in Nat
  BY LimitBounds, Zenon DEF ProxyInv
<1>2. /\ rates' = [ip \in Ips |-> L!OlderEntry(rates[ip], BlockDur)]
      /\ proxied' = [ip \in Ips |-> L!OlderGrants(proxied[ip])]
  BY Zenon DEF L!Tick
<1>3. ASSUME NEW r \in Rate
      PROVE  /\ L!OlderEntry(r, BlockDur) \in Rate /\ L!OlderEntry(r, BlockDur).requests = r.requests
             /\ L!OlderEntry(r, BlockDur).since <= r.since + 1
  <2>1. L!OlderEntry(r, BlockDur) = [r EXCEPT !.since = L!Older(r.since, BlockDur)]
    BY NoneIsNoRate, Zenon DEF L!OlderEntry
  <2>2. L!Older(r.since, BlockDur) \in Nat /\ L!Older(r.since, BlockDur) <= r.since + 1
    BY LimitBounds DEF Rate, L!Older
  <2> QED
    BY <2>1, <2>2, Zenon DEF Rate
<1>4. L!OlderEntry(None, BlockDur) = None
  BY Zenon DEF L!OlderEntry
<1>5. rates' \in [Ips -> Rate \cup {None}] /\ proxied' \in [Ips -> Ages(ProxyLimit)]
  BY <1>1, <1>2, <1>3, <1>4, GrantsAge, Zenon
<1>6. ASSUME NEW ip \in Ips PROVE Fits(rates'[ip], proxied'[ip], ProxyLimit)
  <2>1. /\ proxied'[ip] = L!OlderGrants(proxied[ip]) /\ proxied[ip] \in Ages(ProxyLimit)
        /\ Fits(rates[ip], proxied[ip], ProxyLimit)
    BY <1>1, <1>2, Zenon DEF ProxyInv
  <2>2. CASE rates[ip] = None
    <3>1. rates'[ip] = None /\ Rested(proxied[ip], ProxyLimit)
      BY <1>2, <1>4, <2>1, <2>2, Zenon DEF Fits
    <3>2. Rested(proxied'[ip], ProxyLimit)
      BY <1>1, <2>1, <3>1, RestAges, Zenon
    <3> QED
      BY <3>1, <3>2, Zenon DEF Fits
  <2>3. CASE rates[ip] # None
    <3> DEFINE r == rates[ip]
               e == rates'[ip]
    <3>1. /\ r \in Rate /\ e = L!OlderEntry(r, BlockDur)
          /\ Spent(r.requests, r.since, proxied[ip], ProxyLimit)
      BY <1>1, <1>2, <2>1, <2>3, Zenon DEF Fits
    <3>2. e \in Rate /\ e.requests = r.requests /\ e.since <= r.since + 1
      BY <1>3, <3>1, Zenon
    <3> HIDE DEF r, e
    <3>3. r.requests \in Nat /\ r.since \in Nat /\ e.since \in Nat /\ e # None
      BY <3>1, <3>2, NoneIsNoRate, Zenon DEF Rate
    <3>4. Spent(r.requests, e.since, proxied'[ip], ProxyLimit)
      BY <1>1, <2>1, <3>1, <3>2, <3>3, WindowAges, Zenon
    <3> QED
      BY <3>2, <3>3, <3>4, Zenon DEF Fits, e
  <2> QED
    BY <2>2, <2>3, Zenon
<1> QED
  BY <1>5, <1>6, Zenon DEF ProxyInv

LEMMA NextProxied ==
  ASSUME ProxyInv, [L!Next]_(L!vars)
  PROVE  ProxyInv'
<1>1. CASE L!Proxying
  BY <1>1, ProxyKeeps, Zenon DEF L!Proxying
<1>2. CASE L!Requests \/ L!Changes \/ L!CleanupTransientState \/ UNCHANGED L!vars
  <2>1. UNCHANGED <<rates, proxied>>
    BY <1>2, Zenon DEF L!Requests, L!AllowIpRequest, L!ShowIpBlockers, L!Changes, L!RecordIpChange,
                L!ShowIpChanges, L!CleanupTransientState, L!proxyVars, L!vars
  <2> QED
    BY <2>1, Zenon DEF ProxyInv
<1> QED
  BY <1>1, <1>2, TickProxied, Zenon DEF L!Next

-----------------------------------------------------------------------------
(* All tables of limits.                                                   *)

LimitInv == BlockerInv /\ GrantInv /\ ProxyInv

LEMMA NoEntriesYet == L!Init => LimitInv
<1> SUFFICES ASSUME L!Init PROVE LimitInv
  BY Zenon
<1>1. BlockerInv
  <2>1. DayDur \in Nat /\ IdLimit \in Nat
    BY LimitBounds, Zenon
  <2>2. BlockerTypes
    BY <2>1, Zenon DEF L!Init, BlockerTypes
  <2>3. ASSUME NEW ip \in Ips PROVE Counted(blockers[ip], named[ip])
    <3>1. blockers[ip] = None /\ \A id \in Ids : named[ip][id] = DayDur
      BY Zenon DEF L!Init
    <3>2. Few({})
      BY <2>1, FS_EmptySet DEF Few
    <3>3. DayBefore(None, named[ip], {})
      BY <2>1, <3>1, <3>2 DEF DayBefore
    <3> QED
      BY <3>1, <3>3, Zenon DEF Counted
  <2> QED
    BY <2>2, <2>3, Zenon DEF BlockerInv
<1>2. GrantInv
  BY NothingGranted, LimitBounds, Zenon DEF L!Init, GrantInv, Fits
<1>3. ProxyInv
  BY NothingGranted, LimitBounds, Zenon DEF L!Init, ProxyInv, Fits
<1> QED
  BY <1>1, <1>2, <1>3, Zenon DEF LimitInv

\* In any 60 s no more than twice IP_REQUEST_LIMIT requests of an address get
\* past allow_ip_request, and no more than twice HTTP_PROXY_RATE_PER_IP past
\* allow_http_proxy_request; in any day it names no more than twice
\* IP_DISTINCT_ID_LIMIT ids.  This holds for every limit and table size and any
\* number of addresses, wherever the windows begin and whenever the purge or the
\* cleanup drops an entry or the console shows the table.  What was granted
\* before the console last removed the entry of the address does not count.
THEOREM AllowancesAreKept == PartsSpec => []AllowancesHold
<1>1. LimitInv /\ [L!Next]_(L!vars) => LimitInv'
  BY NextBlockers, NextGrants, NextProxied, Zenon DEF LimitInv, BlockerInv
<1>2. LimitInv => AllowancesHold
  <2> SUFFICES ASSUME LimitInv, NEW ip \in Ips
               PROVE  /\ granted[ip][2 * RequestLimit + 1] >= BlockDur
                      /\ proxied[ip][2 * ProxyLimit + 1] >= BlockDur
                      /\ Cardinality(L!NamedIds(ip)) <= 2 * IdLimit
    BY SameCount, Zenon DEF AllowancesHold, L!AllowancesHold
  <2>1. RequestLimit \in Nat /\ ProxyLimit \in Nat
    BY LimitBounds, Zenon
  <2>2. granted[ip][2 * RequestLimit + 1] >= BlockDur
    BY <2>1, TwoWindows, Zenon DEF LimitInv, GrantInv
  <2>3. proxied[ip][2 * ProxyLimit + 1] >= BlockDur
    BY <2>1, TwoWindows, Zenon DEF LimitInv, ProxyInv
  <2> QED
    BY <2>2, <2>3, IdsWithinTwoDays, Zenon DEF LimitInv
<1> QED
  BY <1>1, <1>2, NoEntriesYet, StartOfLimits, StepsOfLimits, PTL DEF PartsSpec
=============================================================================
