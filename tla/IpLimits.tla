------------------------------ MODULE IpLimits ------------------------------
(***************************************************************************)
(* The tables that limit and record what one address or one peer does: the *)
(* registration requests of an address (IP_BLOCKER), the address changes of*)
(* a peer (IP_CHANGES) and the proxied HTTP requests of an address         *)
(* (http_proxy_rates).  Each is read and written under its own lock, so an *)
(* operation is one step, and no operation uses two of them at once.       *)
(*                                                                         *)
(* Times are kept as ages in ticks, cut off where the code stops telling   *)
(* them apart.                                                             *)
(***************************************************************************)
EXTENDS Naturals, FiniteSets

CONSTANTS
  Ips, Ids,
  BlockDur,      \* IP_BLOCK_DUR, and HTTP_PROXY_RATE_WINDOW_SECS: 60 s both
  DayDur,        \* DAY_SECONDS
  ChangeDur,     \* IP_CHANGE_DUR
  RequestLimit,  \* IP_REQUEST_LIMIT
  IdLimit,       \* IP_DISTINCT_ID_LIMIT
  ProxyLimit,    \* HTTP_PROXY_RATE_PER_IP
  ChangeLimit,   \* MAX_IPS_PER_CHANGE_ENTRY
  MaxTracked,    \* capacity of each table
  None

VARIABLES
  blockers,  \* IP_BLOCKER: requests since the window began, ids since the day began
  changes,   \* IP_CHANGES: the addresses of a peer since the window began
  rates,     \* http_proxy_rates: requests since the window began
  granted,   \* history: the ages of the last requests granted to an address since
             \* the console last removed its entry
  named,     \* history: the age of the last request granted to an address for an
             \* id, since then
  proxied,   \* history: the ages of the last HTTP requests let through for one
  seen       \* history: the age of the last change recorded for a peer and an address

vars == <<blockers, changes, rates, granted, named, proxied, seen>>
requestVars == <<blockers, granted, named>>
changeVars == <<changes, seen>>
proxyVars == <<rates, proxied>>

\* No grant yet; the history is as long as two windows, and one grant more.
Grants(limit) == 1..(2 * limit + 1)
NoGrants(limit) == [n \in Grants(limit) |-> BlockDur]

Init ==
  /\ blockers = [ip \in Ips |-> None]
  /\ changes = [id \in Ids |-> None]
  /\ rates = [ip \in Ips |-> None]
  /\ granted = [ip \in Ips |-> NoGrants(RequestLimit)]
  /\ named = [ip \in Ips |-> [id \in Ids |-> DayDur]]
  /\ proxied = [ip \in Ips |-> NoGrants(ProxyLimit)]
  /\ seen = [id \in Ids |-> [ip \in Ips |-> 2 * ChangeDur]]

Tracked(table) == {k \in DOMAIN table : table[k] # None}
Full(table, k) == table[k] = None /\ Cardinality(Tracked(table)) >= MaxTracked
Retain(table, kept) == [k \in DOMAIN table |-> IF k \in kept THEN table[k] ELSE None]
\* A full table is purged before an address or peer it does not hold is refused.
Purged(table, k, live) == IF Full(table, k) THEN Retain(table, live) ELSE table

Older(age, max) == IF age < max THEN age + 1 ELSE max
OlderEntry(e, max) == IF e = None THEN None ELSE [e EXCEPT !.since = Older(e.since, max)]
\* A history of grants, latest first, with one more, and one tick later.
Granted(ages) == [n \in DOMAIN ages |-> IF n = 1 THEN 0 ELSE ages[n - 1]]
OlderGrants(ages) == [n \in DOMAIN ages |-> Older(ages[n], BlockDur)]

-----------------------------------------------------------------------------
(* Registration requests.                                                  *)

\* Mutant of BlockerLive: an entry goes as soon as one of its windows is over.
BothWindowsLive(b) == b.since < BlockDur /\ b.idsSince < DayDur

\* The test of retain, in allow_ip_request_in and in cleanup_transient_state.
BlockerLive(b) == b.since < BlockDur \/ b.idsSince < DayDur
LiveBlockers == {ip \in Tracked(blockers) : BlockerLive(blockers[ip])}

\* The request is counted, in a new window if the last one is over.
CountRequest(b) ==
  IF b.since >= BlockDur THEN [b EXCEPT !.requests = 1, !.since = 0]
                         ELSE [b EXCEPT !.requests = b.requests + 1]

\* The ids of the day so far.
DayIds(b) == IF b.idsSince >= DayDur THEN {} ELSE b.ids

Exhausted(b) == b.since < BlockDur /\ b.requests >= RequestLimit

\* allow_ip_request: the request counts before the id is looked at.
AllowIpRequest(ip, id) ==
  LET table == Purged(blockers, ip, LiveBlockers)
      b == IF table[ip] # None THEN table[ip]
           ELSE [requests |-> 0, since |-> 0, ids |-> {}, idsSince |-> 0]
      ids == DayIds(b) \cup {id}
      known == Cardinality(ids) <= IdLimit
      counted == [CountRequest(b) EXCEPT
                    !.ids = IF known THEN ids ELSE DayIds(b),
                    !.idsSince = IF b.idsSince >= DayDur THEN 0 ELSE b.idsSince]
  IN /\ \/ /\ Full(table, ip) \/ Exhausted(b)
           /\ blockers' = table
           /\ UNCHANGED <<granted, named>>
        \/ /\ ~Full(table, ip) /\ ~Exhausted(b)
           /\ blockers' = [table EXCEPT ![ip] = counted]
           /\ granted' = IF known THEN [granted EXCEPT ![ip] = Granted(@)] ELSE granted
           /\ named' = IF known THEN [named EXCEPT ![ip][id] = 0] ELSE named
     /\ UNCHANGED <<changeVars, proxyVars>>

\* The test of the console, which keeps an entry one second longer.
ShownBlocker(b) == b.since <= BlockDur \/ b.idsSince <= DayDur
ShownBlockers == {ip \in Tracked(blockers) : ShownBlocker(blockers[ip])}

\* Console "ib": old entries go before the list is shown; with an address and
\* "-" that entry goes too.  The operator thereby grants the address a fresh
\* allowance, so its history starts anew.
ShowIpBlockers(removed) ==
  /\ blockers' = Retain(blockers, ShownBlockers \ {removed})
  /\ granted' = [ip \in Ips |-> IF ip = removed THEN NoGrants(RequestLimit) ELSE granted[ip]]
  /\ named' = [ip \in Ips |->
       [id \in Ids |-> IF ip = removed THEN DayDur ELSE named[ip][id]]]
  /\ UNCHANGED <<changeVars, proxyVars>>

-----------------------------------------------------------------------------
(* Address changes.                                                        *)

ChangeLive(c) == c.since < 2 * ChangeDur
LiveChanges == {id \in Tracked(changes) : ChangeLive(changes[id])}

\* Mutant of CurrentChange: a new window keeps the addresses of the last.
CurrentChangeKept(c) == IF c.since >= ChangeDur THEN [since |-> 0, ips |-> c.ips] ELSE c

\* The window of the entry, or a new and empty one.
CurrentChange(c) == IF c.since >= ChangeDur THEN [since |-> 0, ips |-> {}] ELSE c

\* record_ip_change, when a peer registers from another address.
RecordIpChange(id, ip) ==
  LET table == Purged(changes, id, LiveChanges)
      c == IF table[id] = None THEN [since |-> 0, ips |-> {}] ELSE CurrentChange(table[id])
      fits == ip \in c.ips \/ Cardinality(c.ips) < ChangeLimit
  IN /\ \/ Full(table, id) /\ changes' = table /\ UNCHANGED seen
        \/ /\ ~Full(table, id)
           /\ changes' = [table EXCEPT ![id] =
                            [c EXCEPT !.ips = IF fits THEN c.ips \cup {ip} ELSE c.ips]]
           /\ seen' = IF fits THEN [seen EXCEPT ![id][ip] = 0] ELSE seen
     /\ UNCHANGED <<requestVars, proxyVars>>

\* Console "ic": entries of one address are dropped before the list is shown;
\* with an id and "-" that entry goes too.
ShownChanges == {id \in LiveChanges : Cardinality(changes[id].ips) > 1}
ShowIpChanges(removed) ==
  /\ changes' = Retain(changes, ShownChanges \ {removed})
  /\ UNCHANGED <<seen, requestVars, proxyVars>>

-----------------------------------------------------------------------------
(* Proxied HTTP requests.                                                  *)

RateLive(r) == r.since < BlockDur
LiveRates == {ip \in Tracked(rates) : RateLive(rates[ip])}

\* allow_http_proxy_request.
AllowHttpProxyRequest(ip) ==
  LET table == Purged(rates, ip, LiveRates)
      r == IF table[ip] # None /\ RateLive(table[ip]) THEN table[ip]
           ELSE [requests |-> 0, since |-> 0]
      allowed == r.requests < ProxyLimit
  IN /\ \/ Full(table, ip) /\ rates' = table /\ UNCHANGED proxied
        \/ /\ ~Full(table, ip)
           /\ rates' = [table EXCEPT ![ip] =
                          [r EXCEPT !.requests = IF allowed THEN r.requests + 1 ELSE r.requests]]
           /\ proxied' = IF allowed THEN [proxied EXCEPT ![ip] = Granted(@)] ELSE proxied
     /\ UNCHANGED <<requestVars, changeVars>>

-----------------------------------------------------------------------------
\* The periodic cleanup of both peer tables.
CleanupTransientState ==
  /\ blockers' = Retain(blockers, LiveBlockers)
  /\ changes' = Retain(changes, LiveChanges)
  /\ UNCHANGED <<rates, granted, named, proxied, seen>>

Tick ==
  /\ blockers' = [ip \in Ips |->
                    IF blockers[ip] = None THEN None
                    ELSE [OlderEntry(blockers[ip], BlockDur + 1) EXCEPT
                            !.idsSince = Older(blockers[ip].idsSince, DayDur + 1)]]
  /\ changes' = [id \in Ids |-> OlderEntry(changes[id], 2 * ChangeDur)]
  /\ rates' = [ip \in Ips |-> OlderEntry(rates[ip], BlockDur)]
  /\ granted' = [ip \in Ips |-> OlderGrants(granted[ip])]
  /\ named' = [ip \in Ips |-> [id \in Ids |-> Older(named[ip][id], DayDur)]]
  /\ proxied' = [ip \in Ips |-> OlderGrants(proxied[ip])]
  /\ seen' = [id \in Ids |-> [ip \in Ips |-> Older(seen[id][ip], 2 * ChangeDur)]]

Requests ==
  \/ \E ip \in Ips, id \in Ids : AllowIpRequest(ip, id)
  \/ \E ip \in Ips \cup {None} : ShowIpBlockers(ip)
Changes ==
  \/ \E ip \in Ips, id \in Ids : RecordIpChange(id, ip)
  \/ \E id \in Ids \cup {None} : ShowIpChanges(id)
Proxying == \E ip \in Ips : AllowHttpProxyRequest(ip)

Next == Requests \/ Changes \/ Proxying \/ CleanupTransientState \/ Tick

Spec == Init /\ [][Next]_vars

-----------------------------------------------------------------------------
(* Properties.                                                             *)

\* The ids that an address was granted requests for within a day.
NamedIds(ip) == {id \in Ids : named[ip][id] < DayDur}

\* However the windows lie, no more requests of an address get past
\* allow_ip_request or allow_http_proxy_request in any stretch of 60 s, and no
\* more ids in any stretch of a day, than two windows allow: neither the purge
\* of a full table nor the cleanup, nor the console when it shows the table,
\* gives an address a fresh allowance while one of its windows runs.  Requests
\* from before the console last removed the entry of the address do not
\* count.  The grant before the last 2 * limit is 60 s old.
AllowancesHold == \A ip \in Ips :
  /\ granted[ip][2 * RequestLimit + 1] >= BlockDur
  /\ proxied[ip][2 * ProxyLimit + 1] >= BlockDur
  /\ Cardinality(NamedIds(ip)) <= 2 * IdLimit

\* What the console shows of a peer's addresses was recorded within the last
\* two windows: record_ip_change clears an entry before it uses it again.
ChangesAreRecent == \A id \in Ids :
  changes[id] # None /\ ChangeLive(changes[id])
    => \A ip \in changes[id].ips : seen[id][ip] < 2 * ChangeDur
=============================================================================
