---------------------------- MODULE RelayPairing ----------------------------
(***************************************************************************)
(* The relay server: the connections it accepts, the table PEERS in which  *)
(* the first connection of a session waits for the second, the timers that *)
(* clean it up, the relay loop, the block list and black list that the     *)
(* console edits, and the USAGE table.                                     *)
(*                                                                         *)
(* A connection of Conns is a socket together with the task that accepted  *)
(* it.  The two have different lives: the task of the first connection     *)
(* moves its stream into PEERS and keeps only a 30 s timer, and the task   *)
(* of the second one takes the stream out and drops it when the relay      *)
(* ends.                                                                   *)
(***************************************************************************)
EXTENDS Naturals, FiniteSets

CONSTANTS
  Conns, Uuids, Ports,
  Consoles,         \* connections to the runtime console
  Hosts,            \* client machines other than this one, each with an IPv4 address
  DualStack,        \* whether the listeners report IPv4 sources as mapped IPv6
  Slots,            \* permits of connection_slots
  MaxPending,       \* MAX_PENDING_RELAYS
  MaxPendingPerIp,  \* MAX_PENDING_RELAYS_PER_IP
  MaxListEntries,   \* MAX_IP_LIST_ENTRIES
  MappedTexts,      \* whether the operator also lists addresses in mapped form
  MaxGeneration,    \* bound on NEXT_PENDING_GENERATION
  WebSocket,        \* whether clients use the WebSocket listener
  TrustProxy,       \* trust_proxy_headers
  None

ASSUME RelayNone == None \notin Conns \cup Uuids /\ Conns \cap Consoles = {}
ASSUME RelayBounds ==
  {Slots, MaxPending, MaxPendingPerIp, MaxListEntries, MaxGeneration} \subseteq Nat
ASSUME RelayModes == {DualStack, MappedTexts, WebSocket, TrustProxy} \subseteq BOOLEAN
\* There are finitely many IPv4 addresses.
ASSUME RelayHosts == IsFiniteSet(Hosts)

VARIABLES
  conn,        \* the open stream of a connection and its address
  task,        \* where its task is
  wait,        \* uuid and generation that a sleeping task will remove
  peers,       \* PEERS
  with,        \* the pending stream that a relaying task has taken
  nextGen,     \* NEXT_PENDING_GENERATION
  usage,       \* the keys of USAGE
  block, black,         \* BLOCKLIST, BLACKLIST: addresses as text
  blacked, downgraded,  \* local state of the relay loops
  quiet                 \* relays that received nothing for more than 30 s

vars == <<conn, task, wait, peers, with, nextGen, usage, block, black, blacked,
          downgraded, quiet>>
listVars == <<block, black>>
loopVars == <<blacked, downgraded, quiet>>

Opt(S) == S \cup {None}
Ip == [host : Hosts, mapped : BOOLEAN]
Plain(host) == [host |-> host, mapped |-> FALSE]
Stream == [ip : Ip, port : Ports, ws : BOOLEAN, uuid : Opt(Uuids), open : BOOLEAN]
Pending == [conn : Conns, ip : Ip, gen : Nat]
Timer == [uuid : Uuids, gen : Nat]

ASSUME NoneIsNoRecord == None \notin Stream /\ None \notin Pending /\ None \notin Timer

Tasks ==
  {"none", "upgrade", "request", "waiting", "paired", "relay", "toPeer", "toStream", "loop", "finish",
   "console", "reply"}
Sending == {"toPeer", "toStream"}
Relaying == Sending \cup {"relay", "loop", "finish"}
\* The tasks that own the stream they accepted.
Owning == Tasks \ {"none", "waiting", "console", "reply"}
\* The tasks that hold a permit.
Busy == {c \in Conns \cup Consoles : task[c] # "none"}
Held == {u \in Uuids : peers[u] # None}
HeldFor(ip) == {u \in Held : peers[u].ip = ip}

\* The limits of the permits, of PEERS and of the lists hold whoever comes or
\* inserts (handle_connection, make_pair_, check_cmd and load_ip_list).
TypeOK ==
  /\ conn \in [Conns -> Opt(Stream)]
  /\ task \in [Conns \cup Consoles -> Tasks] /\ Cardinality(Busy) <= Slots
  /\ wait \in [Conns -> Opt(Timer)]
  /\ peers \in [Uuids -> Opt(Pending)] /\ Cardinality(Held) <= MaxPending
  /\ \A ip \in Ip : Cardinality(HeldFor(ip)) <= MaxPendingPerIp
  /\ with \in [Conns -> Opt(Conns)]
  /\ nextGen \in Nat
  /\ usage \subseteq Ip \X Ports
  /\ \A list \in {block, black} :
       list \subseteq Ip /\ Cardinality(list) <= MaxListEntries
  /\ blacked \subseteq Conns /\ downgraded \subseteq Conns /\ quiet \subseteq Conns

\* The texts that parse as an address, as the operator writes them.
Texts == {ip \in Ip : ip.mapped => MappedTexts}

\* load_ip_list: what the files of the working directory hold; a file with
\* too many entries keeps the server from starting.
LoadedLists == {list \in SUBSET Texts : Cardinality(list) <= MaxListEntries}

Init ==
  /\ conn = [c \in Conns |-> None]
  /\ task = [c \in Conns \cup Consoles |-> "none"]
  /\ wait = [c \in Conns |-> None]
  /\ peers = [u \in Uuids |-> None]
  /\ with = [c \in Conns |-> None]
  /\ nextGen = 1
  /\ usage = {}
  /\ block \in LoadedLists /\ black \in LoadedLists
  /\ blacked = {} /\ downgraded = {} /\ quiet = {}

Goto(c, label) == task' = [task EXCEPT ![c] = label]

\* The key of USAGE: address and port, whichever listener accepted it.
Key(c) == <<conn[c].ip, conn[c].port>>

\* try_into_v4: what a mapped address becomes.
V4(ip) == Plain(ip.host)

-----------------------------------------------------------------------------
(* handle_connection and make_pair.  A connection that finds no permit or  *)
(* is on the block list is dropped at once and leaves no trace.            *)

Permit(c) == task[c] = "none" /\ Cardinality(Busy) < Slots

\* The address is converted before the block list is asked.
Admitted(ip) == V4(ip) \notin block

\* Two sockets that clients hold open on one listener differ in their source.
Accept(c, ip, port, ws) ==
  /\ conn[c] = None /\ Permit(c)
  /\ Admitted(ip)
  /\ ip.mapped = DualStack /\ (ws => WebSocket)
  /\ \A d \in Conns : conn[d] # None /\ conn[d].open =>
       <<conn[d].ip, conn[d].port, conn[d].ws>> # <<ip, port, ws>>
  /\ conn' = [conn EXCEPT ![c] =
       [ip |-> ip, port |-> port, ws |-> ws, uuid |-> None, open |-> TRUE]]
  /\ Goto(c, IF ws THEN "upgrade" ELSE "request")
  /\ UNCHANGED <<wait, peers, with, nextGen, usage, listVars, loopVars>>

\* The task returns and drops its stream.
Drop(c) ==
  /\ conn' = [conn EXCEPT ![c] = None]
  /\ Goto(c, "none")
  /\ UNCHANGED <<wait, peers, with, nextGen, usage, listVars, loopVars>>

\* The WebSocket upgrade; a trusted proxy's header replaces the address (a
\* proxy writes a mapped address only where its listener is dual-stack too).
Upgraded(c, ip) ==
  /\ task[c] = "upgrade"
  /\ ip = conn[c].ip \/ (TrustProxy /\ (ip.mapped => DualStack))
  /\ conn' = [conn EXCEPT ![c].ip = ip]
  /\ Goto(c, "request")
  /\ UNCHANGED <<wait, peers, with, nextGen, usage, listVars, loopVars>>

\* The upgrade fails or takes 10 s; the first frame does not come within 30 s,
\* is not a relay request, has a wrong key or a malformed uuid.
GiveUp(c) == task[c] \in {"upgrade", "request"} /\ Drop(c)

\* Mutant of Pair: the entry is read and not removed.
PairKeepingEntry(c, u) ==
  /\ task[c] = "request"
  /\ peers[u] # None
  /\ with' = [with EXCEPT ![c] = peers[u].conn]
  /\ conn' = [conn EXCEPT ![c].uuid = u]
  /\ Goto(c, "paired")
  /\ UNCHANGED <<wait, peers, nextGen, usage, listVars, loopVars>>

\* Mutant of Pair: any entry of the table will do.
PairWithAny(c, u) ==
  /\ task[c] = "request"
  /\ \E v \in Held :
       /\ peers' = [peers EXCEPT ![v] = None]
       /\ with' = [with EXCEPT ![c] = peers[v].conn]
  /\ conn' = [conn EXCEPT ![c].uuid = u]
  /\ Goto(c, "paired")
  /\ UNCHANGED <<wait, nextGen, usage, listVars, loopVars>>

\* The second connection of a session takes the stream of the first.
Pair(c, u) ==
  /\ task[c] = "request"
  /\ peers[u] # None
  /\ peers' = [peers EXCEPT ![u] = None]
  /\ with' = [with EXCEPT ![c] = peers[u].conn]
  /\ conn' = [conn EXCEPT ![c].uuid = u]
  /\ Goto(c, "paired")
  /\ UNCHANGED <<wait, nextGen, usage, listVars, loopVars>>

\* Mutant of PendingFull: one entry too many.
PendingFullLate(ip) ==
  \/ Cardinality(Held) > MaxPending
  \/ Cardinality(HeldFor(ip)) > MaxPendingPerIp

PendingFull(ip) ==
  \/ Cardinality(Held) >= MaxPending
  \/ Cardinality(HeldFor(ip)) >= MaxPendingPerIp

RejectRequest(c, u) ==
  /\ task[c] = "request"
  /\ peers[u] = None
  /\ PendingFull(conn[c].ip)
  /\ Drop(c)

\* Mutant of Wait: the task returns without a timer.
WaitReturning(c, u) ==
  /\ task[c] = "request"
  /\ peers[u] = None
  /\ ~PendingFull(conn[c].ip)
  /\ nextGen <= MaxGeneration
  /\ peers' = [peers EXCEPT ![u] = [conn |-> c, ip |-> conn[c].ip, gen |-> nextGen]]
  /\ nextGen' = nextGen + 1
  /\ conn' = [conn EXCEPT ![c].uuid = u]
  /\ Goto(c, "none")
  /\ UNCHANGED <<wait, with, usage, listVars, loopVars>>

\* The first connection leaves its stream in PEERS and sleeps 30 s.
Wait(c, u) ==
  /\ task[c] = "request"
  /\ peers[u] = None
  /\ ~PendingFull(conn[c].ip)
  /\ nextGen <= MaxGeneration
  /\ peers' = [peers EXCEPT ![u] = [conn |-> c, ip |-> conn[c].ip, gen |-> nextGen]]
  /\ wait' = [wait EXCEPT ![c] = [uuid |-> u, gen |-> nextGen]]
  /\ nextGen' = nextGen + 1
  /\ conn' = [conn EXCEPT ![c].uuid = u]
  /\ Goto(c, "waiting")
  /\ UNCHANGED <<with, usage, listVars, loopVars>>

\* Mutant of Expired: the generation is not compared.
ExpiredAnyGeneration(c) == {u \in {wait[c].uuid} : peers[u] # None}

\* remove_pending_if_generation: what the timer of c would remove.
Expired(c) ==
  {u \in {wait[c].uuid} : peers[u] # None /\ peers[u].gen = wait[c].gen}

\* Mutant of TimerFires: the task waits for its own entry to be there.
TimerNeedsEntry(c) ==
  /\ task[c] = "waiting"
  /\ Expired(c) # {}
  /\ peers' = [u \in Uuids |-> IF u \in Expired(c) THEN None ELSE peers[u]]
  /\ conn' = [conn EXCEPT ![c] = None]
  /\ wait' = [wait EXCEPT ![c] = None]
  /\ Goto(c, "none")
  /\ UNCHANGED <<with, nextGen, usage, listVars, loopVars>>

\* The timer fires; a removed stream is dropped and the permit released.
TimerFires(c) ==
  /\ task[c] = "waiting"
  /\ peers' = [u \in Uuids |-> IF u \in Expired(c) THEN None ELSE peers[u]]
  /\ conn' = [d \in Conns |->
       IF \E u \in Expired(c) : peers[u].conn = d THEN None ELSE conn[d]]
  /\ wait' = [wait EXCEPT ![c] = None]
  /\ Goto(c, "none")
  /\ UNCHANGED <<with, nextGen, usage, listVars, loopVars>>

-----------------------------------------------------------------------------
(* relay.  One turn of the loop goes from "relay" over an arm of the       *)
(* select to "loop", and back when the part that runs every second is      *)
(* done or not yet due.                                                    *)

StartRelay(c) ==
  /\ task[c] = "paired"
  /\ usage' = usage \cup {Key(c)}
  /\ Goto(c, "relay")
  /\ UNCHANGED <<conn, wait, peers, with, nextGen, listVars, loopVars>>

RelayGoto(c, from, label) ==
  /\ task[c] = from
  /\ Goto(c, label)
  /\ UNCHANGED <<conn, wait, peers, with, nextGen, usage, listVars, blacked, downgraded>>

\* A frame of either side; an empty one is not sent on.
Receive(c) ==
  /\ task[c] = "relay"
  /\ \/ conn[c].open /\ \E label \in {"toPeer", "loop"} : RelayGoto(c, "relay", label)
     \/ conn[with[c]].open /\ \E label \in {"toStream", "loop"} : RelayGoto(c, "relay", label)
  /\ quiet' = quiet \ {c}

\* Either side has closed its connection.
ReceiveEnds(c) ==
  /\ task[c] = "relay"
  /\ \E d \in {c, with[c]} : ~conn[d].open
  /\ RelayGoto(c, "relay", "finish")
  /\ UNCHANGED quiet

\* send_raw has no time limit: while the receiver does not read, the loop
\* stays here.
SendDone(c) == \E label \in Sending : RelayGoto(c, label, "loop") /\ UNCHANGED quiet

Receiver(c) == IF task[c] = "toPeer" THEN with[c] ELSE c

SendFails(c) ==
  /\ task[c] \in Sending
  /\ ~conn[Receiver(c)].open
  /\ RelayGoto(c, task[c], "finish")
  /\ UNCHANGED quiet

\* Mutant of TimerTick: the time of the last frame is not looked at.
TickWithoutTimeout(c) == RelayGoto(c, "relay", "loop") /\ UNCHANGED quiet

TimerTick(c) ==
  /\ RelayGoto(c, "relay", IF c \in quiet THEN "finish" ELSE "loop")
  /\ UNCHANGED quiet

LoopSkip(c) == RelayGoto(c, "loop", "relay") /\ UNCHANGED quiet

\* Mutant of LoopCheck: the block list is consulted on acceptance only.
CheckNotBlocking(c) ==
  /\ task[c] = "loop"
  /\ Goto(c, "relay")
  /\ blacked' = IF conn[c].ip \in black THEN blacked \cup {c} ELSE blacked \ {c}
  /\ usage' = usage \cup {Key(c)}
  /\ UNCHANGED <<conn, wait, peers, with, nextGen, listVars, quiet, downgraded>>

\* Mutant of LoopCheck: the black list is not read again.
CheckNotSlowing(c) ==
  /\ task[c] = "loop"
  /\ Goto(c, IF conn[c].ip \in block THEN "finish" ELSE "relay")
  /\ UNCHANGED <<conn, wait, peers, with, nextGen, usage, listVars, loopVars>>

\* The address of the second connection as the socket or header reported it.
LoopCheck(c) ==
  /\ task[c] = "loop"
  /\ IF conn[c].ip \in block
     THEN Goto(c, "finish") /\ UNCHANGED <<blacked, usage, downgraded>>
     ELSE /\ Goto(c, "relay")
          /\ blacked' = IF conn[c].ip \in black THEN blacked \cup {c} ELSE blacked \ {c}
          /\ usage' = usage \cup {Key(c)}
          /\ downgraded' \in {downgraded, downgraded \cup {c}}
  /\ UNCHANGED <<conn, wait, peers, with, nextGen, listVars, quiet>>

\* Mutant of Finish: USAGE keeps the entry.
FinishKeepingUsage(c) ==
  /\ task[c] = "finish"
  /\ conn' = [conn EXCEPT ![c] = None, ![with[c]] = None]
  /\ with' = [with EXCEPT ![c] = None]
  /\ blacked' = blacked \ {c} /\ downgraded' = downgraded \ {c} /\ quiet' = quiet \ {c}
  /\ Goto(c, "none")
  /\ UNCHANGED <<wait, peers, nextGen, usage, listVars>>

\* relay returns: USAGE forgets it and both streams are dropped.
Finish(c) ==
  /\ task[c] = "finish"
  /\ usage' = usage \ {Key(c)}
  /\ conn' = [conn EXCEPT ![c] = None, ![with[c]] = None]
  /\ with' = [with EXCEPT ![c] = None]
  /\ blacked' = blacked \ {c} /\ downgraded' = downgraded \ {c} /\ quiet' = quiet \ {c}
  /\ Goto(c, "none")
  /\ UNCHANGED <<wait, peers, nextGen, listVars>>

-----------------------------------------------------------------------------
(* The console, the clients and time.                                      *)

ConsoleAccept(c) ==
  /\ Permit(c)
  /\ Goto(c, "console")
  /\ UNCHANGED <<conn, wait, peers, with, nextGen, usage, listVars, loopVars>>

\* The add commands refuse what would exceed the limit, the remove commands
\* take some entries or all.
Edited(list) ==
  {list \cup S : S \in {T \in SUBSET Texts : Cardinality(list \cup T) <= MaxListEntries}}
    \cup SUBSET list

\* ba, br, Ba, Br, or a command that changes neither list; or none within 1 s.
ConsoleCommand(c) ==
  /\ task[c] = "console"
  /\ \/ block' \in Edited(block) /\ UNCHANGED black /\ Goto(c, "reply")
     \/ black' \in Edited(black) /\ UNCHANGED block /\ Goto(c, "reply")
     \/ UNCHANGED listVars /\ Goto(c, "none")
  /\ UNCHANGED <<conn, wait, peers, with, nextGen, usage, loopVars>>

\* write_all of the answer, without a time limit, and the permit is released.
ConsoleReply(c) ==
  /\ task[c] = "reply"
  /\ Goto(c, "none")
  /\ UNCHANGED <<conn, wait, peers, with, nextGen, usage, listVars, loopVars>>

\* A client closes, or its connection breaks.
Disconnect(c) ==
  /\ conn[c] # None /\ conn[c].open
  /\ conn' = [conn EXCEPT ![c].open = FALSE]
  /\ UNCHANGED <<task, wait, peers, with, nextGen, usage, listVars, loopVars>>

\* More than 30 s since the last frame.
FallQuiet(c) ==
  /\ task[c] \in Relaying /\ c \notin quiet
  /\ quiet' = quiet \cup {c}
  /\ UNCHANGED <<conn, task, wait, peers, with, nextGen, usage, listVars, blacked, downgraded>>

MakePair(c) ==
  \/ \E ip \in Ip : Upgraded(c, ip)
  \/ GiveUp(c)
  \/ \E u \in Uuids : Pair(c, u) \/ RejectRequest(c, u) \/ Wait(c, u)
  \/ TimerFires(c)

Relay(c) ==
  \/ StartRelay(c) \/ Receive(c) \/ ReceiveEnds(c) \/ SendDone(c) \/ SendFails(c)
  \/ TimerTick(c) \/ LoopSkip(c) \/ LoopCheck(c) \/ Finish(c)

Environment(c) == Disconnect(c) \/ FallQuiet(c)

Console(c) == ConsoleAccept(c) \/ ConsoleCommand(c) \/ ConsoleReply(c)

Next ==
  \/ \E c \in Conns :
       \/ \E ip \in Ip, port \in Ports, ws \in BOOLEAN : Accept(c, ip, port, ws)
       \/ MakePair(c)
       \/ Relay(c)
       \/ Environment(c)
  \/ \E c \in Consoles : Console(c)

Spec == Init /\ [][Next]_vars

\* Every wait of make_pair has a time limit, the runtime runs every ready
\* task, and select! takes its ready arms at random, so a tick every 3 s is
\* not put off for ever and the part due every second comes again and again.
\* Nothing is assumed of the clients: not that they send, read or close.
RelayFairness(c) ==
  /\ WF_vars(MakePair(c))
  /\ WF_vars(StartRelay(c))
  /\ SF_vars(ReceiveEnds(c))
  /\ SF_vars(TimerTick(c))
  /\ WF_vars(LoopSkip(c) \/ LoopCheck(c))
  /\ SF_vars(LoopCheck(c))
  /\ WF_vars(SendFails(c))
  /\ WF_vars(Finish(c))

Fairness ==
  /\ \A c \in Conns : RelayFairness(c)
  /\ \A c \in Consoles : WF_vars(ConsoleCommand(c))

FairSpec == Spec /\ Fairness

-----------------------------------------------------------------------------
(* Properties.                                                             *)

Owners(c) ==
  {<<"task", c>> : t \in {task[c]} \cap Owning}
    \cup {<<"pending", u>> : u \in {v \in Held : peers[v].conn = c}}
    \cup {<<"relay", d>> : d \in {e \in Conns : with[e] = c}}

\* A stream is never in two places and never lost: it is open as long as
\* exactly one of its task, PEERS and a relaying task holds it, although
\* three tasks hand it on (make_pair_, remove_pending_if_generation, relay).
OneOwner == \A c \in Conns :
  Cardinality(Owners(c)) = (IF conn[c] = None THEN 0 ELSE 1)

\* The entry of PEERS that a waiting stream sits in always has the timer that
\* will remove it: no stream is stranded in the table (make_pair_ inserts
\* before it sleeps, and the uuid may be taken and reused meanwhile).
PendingHasTimer == \A u \in Held :
  LET c == peers[u].conn
  IN  task[c] = "waiting" /\ wait[c] = [uuid |-> u, gen |-> peers[u].gen]

\* A timer that outlives its own entry leaves the later entry with the same
\* uuid alone: only the timer of the waiting connection itself, or the
\* connection that pairs with it, takes a stream out of PEERS.
StaleTimersHarmless ==
  [][\A u \in Held : peers'[u] # peers[u] =>
       \/ task[peers[u].conn] = "waiting" /\ task'[peers[u].conn] = "none"
       \/ \E d \in Conns : with[d] = None /\ with'[d] = peers[u].conn
    ]_vars

\* The usage command never shows a relay that has ended, also when a later
\* connection used the same address and port (USAGE in make_pair_ and relay).
UsageOnlyRelays ==
  usage \subseteq {Key(c) : c \in {d \in Conns : task[d] \in Relaying}}

Service == INSTANCE RelayService WITH
  offers <- [u \in Uuids |-> IF peers[u] = None THEN None ELSE peers[u].conn],
  sessions <- {<<c, with[c]>> : c \in {d \in Conns : with[d] # None}}

\* The relay server implements the pairing service: connections are joined
\* two by two under one uuid, each at most once.
ImplementsService == Service!Spec

\* Both ends of a relay asked for the same uuid, though the first one's task
\* may be gone and its uuid in use again (Pair takes the entry by uuid).
PairsAgree == \A c \in Conns :
  with[c] # None => conn[with[c]].uuid = conn[c].uuid

\* A connection that waits for its partner is paired or dropped, and its
\* permit comes back (the 30 s timer of make_pair_).
WaitingEnds == \A c \in Conns : (task[c] = "waiting") ~> (task[c] = "none")

Stuck(c) == <>[](task[c] \in Sending)
QuietNow(c) == task[c] \in Relaying /\ c \in quiet

\* The relay of c compares the lists with one address: that of c, the second of
\* the two connections.  The first one, with[c], is not looked at once it is
\* in PEERS, so an entry for its address changes nothing in this relay.
SecondBlocked(c) == task[c] \in Relaying /\ V4(conn[c].ip) \in block
SecondUnslowed(c) == task[c] \in Relaying /\ V4(conn[c].ip) \in black /\ c \notin blacked

\* When the operator puts an address on the block list, and leaves it there,
\* the relays end in which it is the second connection, unless a send to a
\* client that does not read holds up the loop (relay checks BLOCKLIST every
\* second, for the address of the connection that found its partner waiting).
BlockedRelaysEnd == \A c \in Conns : Stuck(c) \/ (SecondBlocked(c) ~> ~SecondBlocked(c))

\* A relay in which nothing arrives for 30 s ends, with the same exception
\* (the tick of relay).
QuietRelaysEnd == \A c \in Conns : Stuck(c) \/ (QuietNow(c) ~> ~QuietNow(c))

\* A running relay is slowed down when the address of its second connection is
\* put on the black list, and stays there, with the same exception (relay
\* reads BLACKLIST every second, for that address).
BlackListedSlowDown ==
  \A c \in Conns : Stuck(c) \/ (SecondUnslowed(c) ~> ~SecondUnslowed(c))
=============================================================================
