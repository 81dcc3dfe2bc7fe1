------------------------- MODULE RelayPairingProofs -------------------------
(***************************************************************************)
(* Proofs about RelayPairing, for any number of connections, uuids, slots  *)
(* and generations.                                                        *)
(*                                                                         *)
(* The invariant follows a stream on its way: its own task, then PEERS,    *)
(* then the task that relays it.  It needs to know that timers have        *)
(* different generations (or a late timer would drop a stream that another *)
(* task waits for), that a stream in PEERS sleeps with its timer, and that *)
(* a stream that was taken is in neither of the other places.              *)
(***************************************************************************)
EXTENDS RelayPairing, TLAPS, FiniteSetTheorems

Serving == Relaying \cup {"paired"}

Types ==
  /\ conn \in [Conns -> Opt(Stream)]
  /\ task \in [Conns \cup Consoles -> Tasks]
  /\ wait \in [Conns -> Opt(Timer)]
  /\ peers \in [Uuids -> Opt(Pending)]
  /\ with \in [Conns -> Opt(Conns)]
  /\ nextGen \in Nat

TimersRun == \A c \in Conns :
  /\ wait[c] # None <=> task[c] = "waiting"
  /\ wait[c] # None => wait[c].gen < nextGen
TimersDiffer == \A c, d \in Conns :
  wait[c] # None /\ wait[d] # None /\ wait[c].gen = wait[d].gen => c = d
PendingOpen == \A u \in Held : conn[peers[u].conn] # None /\ conn[peers[u].conn].uuid = u
OwnedOpen == \A c \in Conns : task[c] \in Owning => conn[c] # None
Partners == \A c \in Conns : with[c] # None <=> task[c] \in Serving
Taken == \A c \in Conns : with[c] # None =>
  /\ task[with[c]] \notin Owning
  /\ conn[with[c]] # None /\ conn[with[c]].uuid = conn[c].uuid
  /\ \A u \in Held : peers[u].conn # with[c]
TakenOnce == \A c, d \in Conns : with[c] # None /\ with[c] = with[d] => c = d
StreamsHeld == \A c \in Conns : conn[c] # None =>
  \/ task[c] \in Owning
  \/ \E u \in Held : peers[u].conn = c
  \/ \E d \in Conns : with[d] = c

RelayInv ==
  /\ Types /\ TimersRun /\ TimersDiffer /\ PendingHasTimer /\ PendingOpen /\ OwnedOpen
  /\ Partners /\ Taken /\ TakenOnce /\ StreamsHeld

-----------------------------------------------------------------------------
LEMMA InitRelay == Init => RelayInv
  BY DEF Init, RelayInv, Types, TimersRun, TimersDiffer, PendingHasTimer, PendingOpen, OwnedOpen,
         Partners, Taken, TakenOnce, StreamsHeld, Held, Owning, Serving, Relaying, Sending, Tasks, Opt

\* A stream keeps its place and its uuid.
SameStream(c) ==
  /\ conn'[c] = None <=> conn[c] = None
  /\ conn[c] # None => conn'[c].uuid = conn[c].uuid

\* A task goes on without handing a stream to anyone.
SameStage(c) ==
  \/ task'[c] = task[c]
  \/ task[c] \in {"upgrade", "request"} /\ task'[c] \in {"upgrade", "request"}
  \/ task[c] \in Serving /\ task'[c] \in Serving

Quiet ==
  /\ UNCHANGED <<wait, peers, with, nextGen>>
  /\ \A c \in Conns : SameStream(c) /\ SameStage(c)
  /\ conn' \in [Conns -> Opt(Stream)] /\ task' \in [Conns \cup Consoles -> Tasks]

LEMMA QuietKeeps ==
  ASSUME RelayInv, Quiet
  PROVE  RelayInv'
<1>1. Types'
  BY Zenon DEF RelayInv, Types, Quiet
<1>2. \A c \in Conns : /\ task[c] = "waiting" <=> task'[c] = "waiting"
                       /\ task[c] \in Owning <=> task'[c] \in Owning
                       /\ task[c] \in Serving <=> task'[c] \in Serving
  BY Zenon DEF Quiet, SameStage, Owning, Serving, Relaying, Sending, Tasks
<1>3. Held' = Held /\ \A u \in Held : peers[u].conn \in Conns
  BY Zenon DEF Quiet, Held, RelayInv, Types, Opt, Pending
<1>4. TimersRun' /\ TimersDiffer' /\ TakenOnce'
  BY <1>2, Zenon DEF RelayInv, Quiet, TimersRun, TimersDiffer, TakenOnce
<1>5. PendingHasTimer' /\ PendingOpen'
  BY <1>2, <1>3, Zenon DEF RelayInv, Quiet, PendingHasTimer, PendingOpen, SameStream
<1>6. OwnedOpen' /\ Partners'
  BY <1>2, Zenon DEF RelayInv, Quiet, OwnedOpen, Partners, SameStream
<1>7. Taken'
  <2> SUFFICES ASSUME NEW c \in Conns, with[c] # None
               PROVE  /\ task'[with[c]] \notin Owning
                      /\ conn'[with[c]] # None /\ conn'[with[c]].uuid = conn'[c].uuid
                      /\ \A u \in Held : peers[u].conn # with[c]
    BY <1>3, Zenon DEF Taken, Quiet
  <2>1. with[c] \in Conns /\ conn[c] # None
    BY Zenon DEF RelayInv, Types, Opt, Partners, OwnedOpen, Serving, Relaying, Sending, Owning, Tasks
  <2> QED
    BY <1>2, <2>1, Zenon DEF RelayInv, Taken, Quiet, SameStream
<1>8. StreamsHeld'
  BY <1>2, <1>3, Zenon DEF RelayInv, StreamsHeld, Quiet, SameStream
<1> QED
  BY <1>1, <1>4, <1>5, <1>6, <1>7, <1>8, Zenon DEF RelayInv

-----------------------------------------------------------------------------
(* The steps that leave every stream where it is.                          *)

LEMMA QuietSteps ==
  ASSUME RelayInv, NEW c \in Conns,
         \/ \E ip \in Ip : Upgraded(c, ip)
         \/ StartRelay(c) \/ Receive(c) \/ ReceiveEnds(c) \/ SendDone(c) \/ SendFails(c)
         \/ TimerTick(c) \/ LoopSkip(c) \/ LoopCheck(c)
         \/ Disconnect(c) \/ FallQuiet(c)
  PROVE  Quiet
<1>1. /\ conn \in [Conns -> Opt(Stream)] /\ task \in [Conns \cup Consoles -> Tasks]
      /\ task[c] \in Owning => conn[c] # None
  BY Zenon DEF RelayInv, Types, OwnedOpen
<1>2. ASSUME UNCHANGED <<conn, wait, peers, with, nextGen>>,
             NEW label \in Serving, task[c] \in Serving, Goto(c, label)
      PROVE  Quiet
  BY <1>1, <1>2, Zenon DEF Quiet, SameStream, SameStage, Goto, Serving, Relaying, Sending, Tasks
<1>3. CASE \E ip \in Ip : Upgraded(c, ip)
  <2> PICK ip \in Ip : Upgraded(c, ip)
    BY <1>3, Zenon
  <2>1. conn[c] \in Stream
    BY <1>1, Zenon DEF Upgraded, Owning, Tasks, Opt
  <2>2. conn' \in [Conns -> Opt(Stream)] /\ \A d \in Conns : SameStream(d)
    BY <1>1, <2>1, NoneIsNoRecord, Zenon DEF Upgraded, SameStream, Opt, Stream
  <2>3. task' \in [Conns \cup Consoles -> Tasks] /\ \A d \in Conns : SameStage(d)
    BY <1>1, Zenon DEF Upgraded, SameStage, Goto, Tasks
  <2> QED
    BY <2>2, <2>3, Zenon DEF Upgraded, Quiet
<1>4. CASE Disconnect(c)
  <2>1. conn[c] \in Stream
    BY <1>1, <1>4, Zenon DEF Disconnect, Opt
  <2>2. conn' \in [Conns -> Opt(Stream)] /\ \A d \in Conns : SameStream(d)
    BY <1>1, <1>4, <2>1, NoneIsNoRecord, Zenon DEF Disconnect, SameStream, Opt, Stream
  <2> QED
    BY <1>1, <1>4, <2>2, Zenon DEF Disconnect, Quiet, SameStage
<1>5. CASE FallQuiet(c)
  BY <1>1, <1>5, Zenon DEF FallQuiet, Quiet, SameStream, SameStage
<1>6. CASE StartRelay(c)
  BY <1>2, <1>6, Zenon DEF StartRelay, Serving, Relaying
<1>7. CASE Receive(c) \/ ReceiveEnds(c)
  BY <1>2, <1>7, Zenon DEF Receive, ReceiveEnds, RelayGoto, Serving, Relaying, Sending
<1>8. CASE SendDone(c) \/ SendFails(c)
  BY <1>2, <1>8, Zenon DEF SendDone, SendFails, RelayGoto, Serving, Relaying, Sending
<1>9. CASE TimerTick(c) \/ LoopSkip(c)
  BY <1>2, <1>9, Zenon DEF TimerTick, LoopSkip, RelayGoto, Serving, Relaying, Sending
<1>10. CASE LoopCheck(c)
  BY <1>2, <1>10, Zenon DEF LoopCheck, Serving, Relaying
<1> QED
  BY <1>3, <1>4, <1>5, <1>6, <1>7, <1>8, <1>9, <1>10, Zenon

LEMMA ConsoleQuiet ==
  ASSUME RelayInv, NEW c \in Consoles, Console(c)
  PROVE  Quiet
<1>1. c \notin Conns
  BY RelayNone, Zenon
<1> QED
  BY <1>1, Zenon DEF RelayInv, Types, Console, ConsoleAccept, ConsoleCommand, ConsoleReply, Goto,
              Quiet, SameStream, SameStage, Tasks

LEMMA StutterQuiet == RelayInv /\ UNCHANGED vars => Quiet
  BY Zenon DEF RelayInv, Types, vars, Quiet, SameStream, SameStage

-----------------------------------------------------------------------------
(* The steps that move a stream.                                           *)

\* A stream that its own task holds is in no other place.
LEMMA OwnedElsewhereNot ==
  ASSUME RelayInv, NEW c \in Conns, task[c] \in Owning
  PROVE  /\ conn[c] \in Stream
         /\ wait[c] = None
         /\ \A u \in Held : peers[u].conn # c
         /\ \A d \in Conns : with[d] # c
<1>1. task[c] # "waiting" /\ conn[c] # None
  BY Zenon DEF RelayInv, OwnedOpen, Owning
<1>2. conn[c] \in Stream /\ wait[c] = None
  BY <1>1, Zenon DEF RelayInv, Types, TimersRun, Opt
<1>3. \A u \in Held : peers[u].conn # c
  BY <1>1, Zenon DEF RelayInv, PendingHasTimer
<1>4. \A d \in Conns : with[d] # c
  BY RelayNone, Zenon DEF RelayInv, Taken
<1> QED
  BY <1>2, <1>3, <1>4, Zenon

LEMMA HeldTyped ==
  ASSUME RelayInv, NEW u \in Held
  PROVE  u \in Uuids /\ peers[u] \in Pending /\ peers[u].conn \in Conns /\ peers[u].gen \in Nat
  BY Zenon DEF RelayInv, Types, Held, Opt, Pending

LEMMA AcceptKeeps ==
  ASSUME RelayInv, NEW c \in Conns, NEW ip \in Ip, NEW port \in Ports, NEW ws \in BOOLEAN,
         Accept(c, ip, port, ws)
  PROVE  RelayInv'
<1>1. /\ conn[c] = None /\ task[c] = "none"
      /\ UNCHANGED <<wait, peers, with, nextGen>> /\ Held' = Held
  BY Zenon DEF Accept, Permit, Held
<1>2. /\ conn' \in [Conns -> Opt(Stream)] /\ conn'[c] # None
      /\ \A d \in Conns \ {c} : conn'[d] = conn[d]
  <2> DEFINE r == [ip |-> ip, port |-> port, ws |-> ws, uuid |-> None, open |-> TRUE]
  <2>1. r \in Stream
    BY Zenon DEF Stream, Opt
  <2>2. conn' = [conn EXCEPT ![c] = r]
    BY Zenon DEF Accept
  <2> HIDE DEF r
  <2> QED
    BY <2>1, <2>2, NoneIsNoRecord, Zenon DEF RelayInv, Types, Opt
<1>3. /\ task' \in [Conns \cup Consoles -> Tasks] /\ task'[c] \in {"upgrade", "request"}
      /\ \A d \in Conns \ {c} : task'[d] = task[d]
  BY Zenon DEF RelayInv, Types, Accept, Goto, Tasks
<1>4. /\ \A u \in Held : peers[u].conn # c
      /\ \A d \in Conns : with[d] # c
      /\ with[c] = None /\ wait[c] = None
  <2>1. \A u \in Held : peers[u].conn # c
    BY <1>1, Zenon DEF RelayInv, PendingHasTimer
  <2>2. \A d \in Conns : with[d] # c
    BY <1>1, RelayNone, Zenon DEF RelayInv, Taken
  <2>3. with[c] = None /\ wait[c] = None
    BY <1>1, Zenon DEF RelayInv, Partners, TimersRun, Serving, Relaying, Sending
  <2> QED
    BY <2>1, <2>2, <2>3, Zenon
<1>5. Types' /\ TimersRun' /\ TimersDiffer' /\ TakenOnce'
  BY <1>1, <1>2, <1>3, <1>4, Zenon DEF RelayInv, Types, TimersRun, TimersDiffer, TakenOnce
<1>6. PendingHasTimer' /\ PendingOpen'
  BY <1>1, <1>2, <1>3, <1>4, HeldTyped, Zenon DEF RelayInv, PendingHasTimer, PendingOpen
<1>7. OwnedOpen' /\ Partners'
  BY <1>1, <1>2, <1>3, <1>4, Zenon DEF RelayInv, OwnedOpen, Partners, Serving, Relaying, Sending
<1>8. Taken'
  BY <1>1, <1>2, <1>3, <1>4 DEF RelayInv, Types, Opt, Taken
<1>9. StreamsHeld'
  BY <1>1, <1>2, <1>3, Zenon DEF RelayInv, StreamsHeld, Owning, Tasks
<1> QED
  BY <1>5, <1>6, <1>7, <1>8, <1>9, Zenon DEF RelayInv

LEMMA DropKeeps ==
  ASSUME RelayInv, NEW c \in Conns, task[c] \in {"upgrade", "request"}, Drop(c)
  PROVE  RelayInv'
<1>1. UNCHANGED <<wait, peers, with, nextGen>> /\ Held' = Held
  BY Zenon DEF Drop, Held
<1>2. /\ conn' \in [Conns -> Opt(Stream)] /\ conn'[c] = None
      /\ \A d \in Conns \ {c} : conn'[d] = conn[d]
  BY Zenon DEF RelayInv, Types, Drop, Opt
<1>3. /\ task' \in [Conns \cup Consoles -> Tasks] /\ task'[c] = "none"
      /\ \A d \in Conns \ {c} : task'[d] = task[d]
  BY Zenon DEF RelayInv, Types, Drop, Goto, Tasks
<1>4. /\ \A u \in Held : peers[u].conn # c
      /\ \A d \in Conns : with[d] # c
      /\ with[c] = None /\ wait[c] = None
  BY OwnedElsewhereNot, Zenon DEF RelayInv, Partners, Owning, Tasks, Serving, Relaying, Sending
<1>5. Types' /\ TimersRun' /\ TimersDiffer' /\ TakenOnce'
  BY <1>1, <1>2, <1>3, <1>4, Zenon DEF RelayInv, Types, TimersRun, TimersDiffer, TakenOnce
<1>6. PendingHasTimer' /\ PendingOpen'
  BY <1>1, <1>2, <1>3, <1>4, HeldTyped DEF RelayInv, PendingHasTimer, PendingOpen
<1>7. OwnedOpen' /\ Partners'
  BY <1>1, <1>2, <1>3, <1>4, Zenon DEF RelayInv, OwnedOpen, Partners, Serving, Relaying, Sending, Owning
<1>8. Taken'
  BY <1>1, <1>2, <1>3, <1>4 DEF RelayInv, Types, Opt, Taken
<1>9. StreamsHeld'
  BY <1>1, <1>2, <1>3, Zenon DEF RelayInv, StreamsHeld, Owning, Tasks
<1> QED
  BY <1>5, <1>6, <1>7, <1>8, <1>9, Zenon DEF RelayInv

\* No two entries of PEERS hold one stream, and what PEERS holds nobody has taken.
LEMMA HeldOnce ==
  ASSUME RelayInv, NEW u \in Held
  PROVE  /\ \A v \in Held : peers[v].conn = peers[u].conn => v = u
         /\ \A d \in Conns : with[d] # peers[u].conn
<1>1. ASSUME NEW v \in Held, peers[v].conn = peers[u].conn
      PROVE  v = u
  <2>1. [uuid |-> u, gen |-> peers[u].gen] = [uuid |-> v, gen |-> peers[v].gen]
    BY <1>1, Zenon DEF RelayInv, PendingHasTimer
  <2> QED
    BY <2>1, Zenon
<1>2. peers[u].conn # None
  BY HeldTyped, RelayNone, Zenon
<1>3. \A d \in Conns : with[d] # peers[u].conn
  BY <1>2, Zenon DEF RelayInv, Taken
<1> QED
  BY <1>1, <1>3, Zenon

\* The uuid of a stream is set when its request is read.
LEMMA NameStream ==
  ASSUME RelayInv, NEW c \in Conns, NEW u \in Uuids, task[c] = "request",
         conn' = [conn EXCEPT ![c].uuid = u]
  PROVE  /\ conn' \in [Conns -> Opt(Stream)]
         /\ conn'[c] # None /\ conn'[c].uuid = u
         /\ \A d \in Conns \ {c} : conn'[d] = conn[d]
<1>1. conn[c] \in Stream
  BY OwnedElsewhereNot, Zenon DEF Owning, Tasks
<1>2. [conn[c] EXCEPT !.uuid = u] \in Stream /\ [conn[c] EXCEPT !.uuid = u].uuid = u
  BY <1>1, Zenon DEF Stream, Opt
<1> QED
  BY <1>2, NoneIsNoRecord, Zenon DEF RelayInv, Types, Opt

LEMMA PairKeeps ==
  ASSUME RelayInv, NEW c \in Conns, NEW u \in Uuids, Pair(c, u)
  PROVE  RelayInv'
<1> DEFINE e == peers[u].conn
<1>1. /\ task[c] = "request" /\ u \in Held
      /\ UNCHANGED <<wait, nextGen>>
  BY Zenon DEF Pair, Held
<1>2. /\ conn' \in [Conns -> Opt(Stream)] /\ conn'[c] # None /\ conn'[c].uuid = u
      /\ \A d \in Conns \ {c} : conn'[d] = conn[d]
  BY <1>1, NameStream, Zenon DEF Pair
<1>3. /\ task' \in [Conns \cup Consoles -> Tasks] /\ task'[c] = "paired"
      /\ \A d \in Conns \ {c} : task'[d] = task[d]
  BY Zenon DEF RelayInv, Types, Pair, Goto, Tasks
<1>4. /\ peers' \in [Uuids -> Opt(Pending)] /\ Held' = Held \ {u}
      /\ \A v \in Held' : peers'[v] = peers[v]
  BY Zenon DEF RelayInv, Types, Pair, Held, Opt
<1>5. e \in Conns /\ e # None
  BY <1>1, HeldTyped, RelayNone, Zenon
<1>6. /\ with' \in [Conns -> Opt(Conns)] /\ with'[c] = e
      /\ \A d \in Conns \ {c} : with'[d] = with[d]
  BY <1>5, Zenon DEF RelayInv, Types, Pair, Opt
<1>7. /\ wait[c] = None /\ with[c] = None
      /\ \A v \in Held : peers[v].conn # c
      /\ \A d \in Conns : with[d] # c
  BY <1>1, OwnedElsewhereNot, Zenon DEF RelayInv, Partners, Owning, Tasks, Serving, Relaying, Sending
<1>8. /\ task[e] = "waiting" /\ conn[e] # None /\ conn[e].uuid = u /\ e # c
      /\ \A v \in Held' : peers[v].conn # e
      /\ \A d \in Conns : with[d] # e
  BY <1>1, <1>4, <1>7, HeldOnce, Zenon DEF RelayInv, PendingHasTimer, PendingOpen
<1> HIDE DEF e
<1>9. Types' /\ TimersRun' /\ TimersDiffer'
  BY <1>1, <1>2, <1>3, <1>4, <1>6, <1>7, Zenon DEF RelayInv, Types, TimersRun, TimersDiffer
<1>10. PendingHasTimer' /\ PendingOpen'
  BY <1>1, <1>2, <1>3, <1>4, <1>7, HeldTyped, SMTT(30) DEF RelayInv, PendingHasTimer, PendingOpen
<1>11. OwnedOpen' /\ Partners'
  BY <1>1, <1>2, <1>3, <1>5, <1>6, Zenon DEF RelayInv, OwnedOpen, Partners, Serving
<1>12. Taken'
  <2> SUFFICES ASSUME NEW d \in Conns, with'[d] # None
               PROVE  /\ task'[with'[d]] \notin Owning
                      /\ conn'[with'[d]] # None /\ conn'[with'[d]].uuid = conn'[d].uuid
                      /\ \A v \in Held' : peers'[v].conn # with'[d]
    BY Zenon DEF Taken
  <2>1. CASE d = c
    BY <1>2, <1>3, <1>4, <1>5, <1>6, <1>8, <2>1, Zenon DEF Owning
  <2>2. CASE d # c
    <3>1. with[d] # None /\ with'[d] = with[d] /\ with[d] \in Conns \ {c}
      BY <1>6, <1>7, <2>2, Zenon DEF RelayInv, Types, Opt
    <3> QED
      BY <1>2, <1>3, <1>4, <2>2, <3>1, SMTT(30) DEF RelayInv, Taken
  <2> QED
    BY <2>1, <2>2, Zenon
<1>13. TakenOnce'
  BY <1>6, <1>8 DEF RelayInv, TakenOnce
<1>14. StreamsHeld'
  <2> SUFFICES ASSUME NEW d \in Conns, conn'[d] # None
               PROVE  \/ task'[d] \in Owning
                      \/ \E v \in Held' : peers'[v].conn = d
                      \/ \E f \in Conns : with'[f] = d
    BY Zenon DEF StreamsHeld
  <2>1. CASE d = c
    BY <1>3, <2>1, Zenon DEF Owning, Tasks
  <2>2. CASE d = e
    BY <1>6, <2>2, Zenon
  <2>3. CASE d # c /\ d # e
    <3>1. conn[d] # None /\ task'[d] = task[d]
      BY <1>2, <1>3, <2>3, Zenon
    <3>2. \A v \in Held : peers[v].conn = d => v \in Held' /\ peers'[v].conn = d
      BY <1>4, <2>3, Zenon DEF e
    <3>3. \A f \in Conns : with[f] = d => with'[f] = d
      BY <1>6, <1>7, RelayNone, Zenon
    <3> QED
      BY <3>1, <3>2, <3>3, Zenon DEF RelayInv, StreamsHeld
  <2> QED
    BY <2>1, <2>2, <2>3, Zenon
<1> QED
  BY <1>9, <1>10, <1>11, <1>12, <1>13, <1>14, Zenon DEF RelayInv

LEMMA WaitKeeps ==
  ASSUME RelayInv, NEW c \in Conns, NEW u \in Uuids, Wait(c, u)
  PROVE  RelayInv'
<1> DEFINE t == [uuid |-> u, gen |-> nextGen]
<1>1. /\ task[c] = "request" /\ u \notin Held /\ conn[c] \in Stream
      /\ UNCHANGED with /\ nextGen \in Nat /\ nextGen' = nextGen + 1
  BY OwnedElsewhereNot, Zenon DEF RelayInv, Types, Wait, Held, Owning, Tasks
<1>2. /\ conn' \in [Conns -> Opt(Stream)] /\ conn'[c] # None /\ conn'[c].uuid = u
      /\ \A d \in Conns \ {c} : conn'[d] = conn[d]
  BY <1>1, NameStream, Zenon DEF Wait
<1>3. /\ task' \in [Conns \cup Consoles -> Tasks] /\ task'[c] = "waiting"
      /\ \A d \in Conns \ {c} : task'[d] = task[d]
  BY Zenon DEF RelayInv, Types, Wait, Goto, Tasks
<1>4. /\ peers' \in [Uuids -> Opt(Pending)] /\ Held' = Held \cup {u}
      /\ peers'[u].conn = c /\ peers'[u].gen = nextGen
      /\ \A v \in Held : peers'[v] = peers[v]
  <2> DEFINE r == [conn |-> c, ip |-> conn[c].ip, gen |-> nextGen]
  <2>1. r \in Pending /\ r.conn = c /\ r.gen = nextGen
    BY <1>1, Zenon DEF Pending, Stream
  <2>2. peers' = [peers EXCEPT ![u] = r]
    BY Zenon DEF Wait
  <2> HIDE DEF r
  <2> QED
    BY <1>1, <2>1, <2>2, NoneIsNoRecord, SMTT(30) DEF RelayInv, Types, Held, Opt
<1>5. t \in Timer /\ t # None /\ t.uuid = u /\ t.gen = nextGen
  BY <1>1, NoneIsNoRecord DEF Timer
<1>6. /\ wait' \in [Conns -> Opt(Timer)] /\ wait'[c] = t
      /\ \A d \in Conns \ {c} : wait'[d] = wait[d]
  BY <1>5, Zenon DEF RelayInv, Types, Wait, Opt
<1>7. /\ wait[c] = None /\ with[c] = None
      /\ \A v \in Held : peers[v].conn # c
      /\ \A d \in Conns : with[d] # c
  BY <1>1, OwnedElsewhereNot, Zenon DEF RelayInv, Partners, Owning, Tasks, Serving, Relaying, Sending
<1>8. PendingHasTimer'
  <2>1. wait'[c] = [uuid |-> u, gen |-> peers'[u].gen]
    BY <1>4, <1>6, Zenon
  <2>2. ASSUME NEW v \in Held
        PROVE  LET d == peers'[v].conn
               IN  task'[d] = "waiting" /\ wait'[d] = [uuid |-> v, gen |-> peers'[v].gen]
    BY <1>3, <1>4, <1>6, <1>7, HeldTyped DEF RelayInv, PendingHasTimer
  <2> QED
    BY <1>3, <1>4, <2>1, <2>2, Zenon DEF PendingHasTimer
<1> HIDE DEF t
<1>9. Types' /\ TakenOnce'
  BY <1>1, <1>2, <1>3, <1>4, <1>6 DEF RelayInv, Types, TakenOnce
<1>10. TimersRun' /\ TimersDiffer'
  <2>1. \A d \in Conns \ {c} : wait[d] # None => wait[d].gen \in Nat /\ wait[d].gen < nextGen
    BY Zenon DEF RelayInv, Types, Opt, Timer, TimersRun
  <2>2. ASSUME NEW d \in Conns
        PROVE  /\ wait'[d] # None <=> task'[d] = "waiting"
               /\ wait'[d] # None => wait'[d].gen < nextGen'
    <3>1. CASE d = c
      BY <1>1, <1>3, <1>5, <1>6, <3>1
    <3>2. CASE d # c
      <4>1. wait'[d] = wait[d] /\ task'[d] = task[d]
        BY <1>3, <1>6, <3>2, Zenon
      <4>2. wait[d] # None <=> task[d] = "waiting"
        BY Zenon DEF RelayInv, TimersRun
      <4> QED
        BY <1>1, <2>1, <3>2, <4>1, <4>2
    <3> QED
      BY <3>1, <3>2, Zenon
  <2>3. ASSUME NEW d \in Conns, NEW e \in Conns, wait'[d] # None, wait'[e] # None,
               wait'[d].gen = wait'[e].gen
        PROVE  d = e
    <3>1. CASE d # c /\ e # c
      BY <1>6, <2>3, <3>1, Zenon DEF RelayInv, TimersDiffer
    <3>2. CASE d = c /\ e # c
      BY <1>1, <1>5, <1>6, <2>1, <2>3, <3>2
    <3>3. CASE d # c /\ e = c
      BY <1>1, <1>5, <1>6, <2>1, <2>3, <3>3
    <3> QED
      BY <3>1, <3>2, <3>3, Zenon
  <2> QED
    BY <2>2, <2>3, Zenon DEF TimersRun, TimersDiffer
<1>11. PendingOpen'
  <2>1. ASSUME NEW v \in Held
        PROVE  conn'[peers'[v].conn] # None /\ conn'[peers'[v].conn].uuid = v
    <3>1. peers'[v] = peers[v] /\ peers[v].conn \in Conns \ {c}
      BY <1>4, <1>7, HeldTyped, Zenon
    <3> QED
      BY <1>2, <3>1, Zenon DEF RelayInv, PendingOpen
  <2> QED
    BY <1>2, <1>4, <2>1, Zenon DEF PendingOpen
<1>12. OwnedOpen' /\ Partners'
  BY <1>1, <1>2, <1>3, <1>7, Zenon DEF RelayInv, OwnedOpen, Partners, Owning, Serving, Relaying, Sending
<1>13. Taken'
  <2> SUFFICES ASSUME NEW d \in Conns, with[d] # None
               PROVE  /\ task'[with[d]] \notin Owning
                      /\ conn'[with[d]] # None /\ conn'[with[d]].uuid = conn'[d].uuid
                      /\ \A v \in Held' : peers'[v].conn # with[d]
    BY <1>1, Zenon DEF Taken
  <2>1. d # c /\ with[d] \in Conns \ {c}
    BY <1>7, Zenon DEF RelayInv, Types, Opt
  <2>2. /\ task[with[d]] \notin Owning
        /\ conn[with[d]] # None /\ conn[with[d]].uuid = conn[d].uuid
        /\ \A v \in Held : peers[v].conn # with[d]
    BY Zenon DEF RelayInv, Taken
  <2>3. \A v \in Held' : peers'[v].conn # with[d]
    BY <1>4, <2>1, <2>2, Zenon
  <2> QED
    BY <1>2, <1>3, <2>1, <2>2, <2>3, Zenon
<1>14. ASSUME NEW d \in Conns, conn'[d] # None
       PROVE  \/ task'[d] \in Owning
              \/ \E v \in Held' : peers'[v].conn = d
              \/ \E e \in Conns : with'[e] = d
  <2>1. CASE d = c
    BY <1>4, <2>1, Zenon
  <2>2. CASE d # c
    <3>1. conn[d] # None /\ task'[d] = task[d]
      BY <1>2, <1>3, <1>14, <2>2, Zenon
    <3>2. \A v \in Held : v \in Held' /\ peers'[v].conn = peers[v].conn
      BY <1>4, Zenon
    <3> QED
      BY <1>1, <3>1, <3>2 DEF RelayInv, StreamsHeld
  <2> QED
    BY <2>1, <2>2, Zenon
<1> QED
  BY <1>8, <1>9, <1>10, <1>11, <1>12, <1>13, <1>14, Zenon DEF RelayInv, StreamsHeld

\* A timer removes the stream of its own connection or nothing.
LEMMA ExpiredIsOwn ==
  ASSUME RelayInv, NEW c \in Conns, task[c] = "waiting"
  PROVE  /\ Expired(c) = {u \in Held : peers[u].conn = c}
         /\ \A u, v \in Expired(c) : u = v
<1>1. wait[c] \in Timer /\ wait[c] # None
  BY Zenon DEF RelayInv, TimersRun, Types, Opt
<1>2. ASSUME NEW u \in Expired(c)
      PROVE  u \in Held /\ peers[u].conn = c
  <2>1. u = wait[c].uuid /\ u \in Held /\ peers[u].gen = wait[c].gen
    BY <1>1, <1>2, Zenon DEF Expired, Held, Timer
  <2>2. peers[u].conn \in Conns /\ wait[peers[u].conn] = [uuid |-> u, gen |-> peers[u].gen]
    BY <2>1, HeldTyped, Zenon DEF RelayInv, PendingHasTimer
  <2>3. wait[peers[u].conn] # None
    BY <2>1, HeldTyped, Zenon DEF RelayInv, PendingHasTimer, TimersRun
  <2> QED
    BY <1>1, <2>1, <2>2, <2>3, SMTT(30) DEF RelayInv, TimersDiffer
<1>3. ASSUME NEW u \in Held, peers[u].conn = c
      PROVE  u \in Expired(c)
  <2>1. wait[c] = [uuid |-> u, gen |-> peers[u].gen]
    BY <1>3, Zenon DEF RelayInv, PendingHasTimer
  <2> QED
    BY <2>1 DEF Expired, Held
<1> QED
  BY <1>2, <1>3, Zenon DEF Expired

LEMMA TimerKeeps ==
  ASSUME RelayInv, NEW c \in Conns, TimerFires(c)
  PROVE  RelayInv'
<1>1. task[c] = "waiting" /\ UNCHANGED <<with, nextGen>>
  BY Zenon DEF TimerFires
<1>2. Expired(c) = {u \in Held : peers[u].conn = c}
  BY <1>1, ExpiredIsOwn, Zenon
<1>3. /\ peers' \in [Uuids -> Opt(Pending)]
      /\ Held' = {u \in Held : peers[u].conn # c}
      /\ \A u \in Held' : peers'[u] = peers[u]
  BY <1>2, Zenon DEF RelayInv, Types, TimerFires, Held, Opt
<1>4. /\ conn' \in [Conns -> Opt(Stream)]
      /\ conn'[c] = IF \E u \in Held : peers[u].conn = c THEN None ELSE conn[c]
      /\ \A d \in Conns \ {c} : conn'[d] = conn[d]
  BY <1>2, Zenon DEF RelayInv, Types, TimerFires, Opt
<1>5. /\ task' \in [Conns \cup Consoles -> Tasks] /\ task'[c] = "none"
      /\ \A d \in Conns \ {c} : task'[d] = task[d]
  BY Zenon DEF RelayInv, Types, TimerFires, Goto, Tasks
<1>6. /\ wait' \in [Conns -> Opt(Timer)] /\ wait'[c] = None
      /\ \A d \in Conns \ {c} : wait'[d] = wait[d]
  BY Zenon DEF RelayInv, Types, TimerFires, Opt
<1>7. with[c] = None
  BY <1>1, Zenon DEF RelayInv, Partners, Serving, Relaying, Sending
<1>8. Types' /\ TimersRun' /\ TimersDiffer' /\ TakenOnce'
  BY <1>1, <1>3, <1>4, <1>5, <1>6, SMTT(30) DEF RelayInv, Types, TimersRun, TimersDiffer, TakenOnce
<1>9. PendingHasTimer' /\ PendingOpen'
  BY <1>3, <1>4, <1>5, <1>6, HeldTyped, SMTT(30) DEF RelayInv, PendingHasTimer, PendingOpen
<1>10. OwnedOpen' /\ Partners'
  BY <1>1, <1>4, <1>5, <1>7, Zenon DEF RelayInv, OwnedOpen, Partners, Owning, Serving, Relaying, Sending
<1>11. Taken'
  <2> SUFFICES ASSUME NEW d \in Conns, with[d] # None
               PROVE  /\ task'[with[d]] \notin Owning
                      /\ conn'[with[d]] # None /\ conn'[with[d]].uuid = conn'[d].uuid
                      /\ \A v \in Held' : peers'[v].conn # with[d]
    BY <1>1, Zenon DEF Taken
  <2>1. d # c /\ with[d] \in Conns /\ conn'[with[d]] = conn[with[d]]
    BY <1>4, <1>7, SMTT(30) DEF RelayInv, Types, Opt, Taken
  <2>2. task'[with[d]] \notin Owning
    BY <1>5, <2>1, Zenon DEF RelayInv, Taken, Owning
  <2> QED
    BY <1>3, <1>4, <2>1, <2>2, SMTT(30) DEF RelayInv, Taken
<1>12. StreamsHeld'
  <2> SUFFICES ASSUME NEW d \in Conns, conn'[d] # None
               PROVE  \/ task'[d] \in Owning
                      \/ \E v \in Held' : peers'[v].conn = d
                      \/ \E f \in Conns : with[f] = d
    BY <1>1, Zenon DEF StreamsHeld
  <2>1. conn[d] # None
    BY <1>4, Zenon
  <2>2. CASE d = c
    BY <1>1, <1>4, <2>1, <2>2, Zenon DEF RelayInv, StreamsHeld, Owning
  <2>3. CASE d # c
    BY <1>3, <1>5, <2>1, <2>3, Zenon DEF RelayInv, StreamsHeld
  <2> QED
    BY <2>2, <2>3, Zenon
<1> QED
  BY <1>8, <1>9, <1>10, <1>11, <1>12, Zenon DEF RelayInv

LEMMA FinishKeeps ==
  ASSUME RelayInv, NEW c \in Conns, Finish(c)
  PROVE  RelayInv'
<1> DEFINE e == with[c]
<1>1. task[c] = "finish" /\ task[c] \in Owning /\ UNCHANGED <<wait, peers, nextGen>> /\ Held' = Held
  BY Zenon DEF Finish, Held, Owning, Tasks
<1>2. e \in Conns /\ with[c] # None
  BY <1>1, Zenon DEF RelayInv, Types, Partners, Opt, Serving, Relaying
<1>3. /\ wait[c] = None
      /\ \A u \in Held : peers[u].conn # c /\ peers[u].conn # e
      /\ \A d \in Conns : with[d] # c
      /\ \A d \in Conns \ {c} : with[d] # e
      /\ task[e] \notin Owning
  BY <1>1, <1>2, OwnedElsewhereNot, Zenon DEF RelayInv, Taken, TakenOnce
<1>4. /\ conn' \in [Conns -> Opt(Stream)] /\ conn'[c] = None /\ conn'[e] = None
      /\ \A d \in Conns \ {c, e} : conn'[d] = conn[d]
  BY <1>2, Zenon DEF RelayInv, Types, Finish, Opt
<1>5. /\ with' \in [Conns -> Opt(Conns)] /\ with'[c] = None
      /\ \A d \in Conns \ {c} : with'[d] = with[d]
  BY Zenon DEF RelayInv, Types, Finish, Opt
<1>6. /\ task' \in [Conns \cup Consoles -> Tasks] /\ task'[c] = "none"
      /\ \A d \in Conns \ {c} : task'[d] = task[d]
  BY Zenon DEF RelayInv, Types, Finish, Goto, Tasks
<1> HIDE DEF e
<1>7. Types' /\ TimersRun' /\ TimersDiffer' /\ TakenOnce'
  <2>1. Types'
    BY <1>1, <1>4, <1>5, <1>6, Zenon DEF RelayInv, Types
  <2>2. TimersRun' /\ TimersDiffer'
    BY <1>1, <1>3, <1>6, Zenon DEF RelayInv, TimersRun, TimersDiffer
  <2>3. TakenOnce'
    BY <1>5, Zenon DEF RelayInv, TakenOnce
  <2> QED
    BY <2>1, <2>2, <2>3, Zenon
<1>8. PendingHasTimer' /\ PendingOpen'
  <2>1. \A u \in Held : peers[u].conn \in Conns \ {c, e}
    BY <1>3, HeldTyped, Zenon
  <2>2. PendingHasTimer'
    BY <1>1, <1>6, <2>1, Zenon DEF RelayInv, PendingHasTimer
  <2>3. PendingOpen'
    BY <1>1, <1>4, <2>1, Zenon DEF RelayInv, PendingOpen
  <2> QED
    BY <2>2, <2>3, Zenon
<1>9. OwnedOpen' /\ Partners'
  BY <1>3, <1>4, <1>5, <1>6, SMTT(30) DEF RelayInv, OwnedOpen, Partners, Owning, Serving, Relaying, Sending
<1>10. Taken'
  <2> SUFFICES ASSUME NEW d \in Conns, with'[d] # None
               PROVE  /\ task'[with'[d]] \notin Owning
                      /\ conn'[with'[d]] # None /\ conn'[with'[d]].uuid = conn'[d].uuid
                      /\ \A v \in Held' : peers'[v].conn # with'[d]
    BY Zenon DEF Taken
  <2>1. d # c /\ with'[d] = with[d] /\ with[d] # None /\ with[d] \in Conns \ {c, e}
    BY <1>3, <1>5, Zenon DEF RelayInv, Types, Opt
  <2>2. task[d] \in Owning
    BY <2>1, Zenon DEF RelayInv, Partners, Owning, Serving, Relaying, Sending, Tasks
  <2>3. conn'[d] = conn[d]
    BY <1>3, <1>4, <2>1, <2>2, Zenon
  <2>4. /\ task[with[d]] \notin Owning
        /\ conn[with[d]] # None /\ conn[with[d]].uuid = conn[d].uuid
        /\ \A v \in Held : peers[v].conn # with[d]
    BY <2>1, Zenon DEF RelayInv, Taken
  <2> QED
    BY <1>1, <1>4, <1>6, <2>1, <2>3, <2>4, Zenon
<1>11. StreamsHeld'
  <2> SUFFICES ASSUME NEW d \in Conns, conn'[d] # None
               PROVE  \/ task'[d] \in Owning
                      \/ \E v \in Held : peers[v].conn = d
                      \/ \E f \in Conns : with'[f] = d
    BY <1>1, Zenon DEF StreamsHeld
  <2>1. d # c /\ d # e /\ conn[d] # None /\ task'[d] = task[d]
    BY <1>4, <1>6, Zenon
  <2>2. \A f \in Conns : with[f] = d => with'[f] = d
    BY <1>5, <2>1, Zenon DEF e
  <2> QED
    BY <2>1, <2>2, Zenon DEF RelayInv, StreamsHeld
<1> QED
  BY <1>7, <1>8, <1>9, <1>10, <1>11, Zenon DEF RelayInv

\* Every step of the server is one of these.
LEMMA StepKinds ==
  ASSUME RelayInv, [Next]_vars
  PROVE  \/ Quiet
         \/ \E c \in Conns :
              \/ \E ip \in Ip, port \in Ports, ws \in BOOLEAN : Accept(c, ip, port, ws)
              \/ task[c] \in {"upgrade", "request"} /\ Drop(c)
              \/ \E u \in Uuids : Pair(c, u) \/ Wait(c, u)
              \/ TimerFires(c) \/ Finish(c)
<1>1. CASE UNCHANGED vars
  BY <1>1, StutterQuiet, Zenon
<1>2. CASE \E c \in Consoles : Console(c)
  BY <1>2, ConsoleQuiet, Zenon
<1>3. ASSUME NEW c \in Conns, MakePair(c) \/ Relay(c) \/ Environment(c)
      PROVE  \/ Quiet
             \/ task[c] \in {"upgrade", "request"} /\ Drop(c)
             \/ \E u \in Uuids : Pair(c, u) \/ Wait(c, u)
             \/ TimerFires(c) \/ Finish(c)
  BY <1>3, QuietSteps, Zenon DEF MakePair, Relay, Environment, GiveUp, RejectRequest
<1> QED
  BY <1>1, <1>2, <1>3, Zenon DEF Next

LEMMA NextRelay ==
  ASSUME RelayInv, [Next]_vars
  PROVE  RelayInv'
  BY StepKinds, QuietKeeps, AcceptKeeps, DropKeeps, PairKeeps, WaitKeeps, TimerKeeps, FinishKeeps, Zenon

THEOREM RelayInvariant == Spec => []RelayInv
  BY InitRelay, NextRelay, PTL DEF Spec

\* Every stream that is in PEERS has the timer that will take it out, however
\* often uuids are reused (make_pair_, remove_pending_if_generation).
THEOREM PendingStreamsHaveTimers == Spec => []PendingHasTimer
<1>1. RelayInv => PendingHasTimer
  BY Zenon DEF RelayInv
<1> QED
  BY <1>1, RelayInvariant, PTL

\* The two streams that relay joins were accepted for one uuid.
THEOREM PairsShareTheirUuid == Spec => []PairsAgree
<1>1. RelayInv => PairsAgree
  BY Zenon DEF RelayInv, Taken, PairsAgree
<1> QED
  BY <1>1, RelayInvariant, PTL

\* A stream has one owner while it is open and none afterwards: make_pair_,
\* the timer and relay hand it on without losing or sharing it.
THEOREM StreamsHaveOneOwner == Spec => []OneOwner
<1>1. ASSUME RelayInv
      PROVE  OneOwner
  <2> SUFFICES ASSUME NEW c \in Conns
               PROVE  Cardinality(Owners(c)) = (IF conn[c] = None THEN 0 ELSE 1)
    BY Zenon DEF OneOwner
  <2> USE <1>1
  <2>1. CASE conn[c] = None
    <3>1. /\ task[c] \notin Owning
          /\ \A u \in Held : peers[u].conn # c
          /\ \A d \in Conns : with[d] # c
      BY <2>1, RelayNone, Zenon DEF RelayInv, OwnedOpen, PendingOpen, Taken
    <3>2. Owners(c) = {}
      BY <3>1, Zenon DEF Owners
    <3> QED
      BY <2>1, <3>2, FS_EmptySet, Zenon
  <2>2. CASE conn[c] # None /\ task[c] \in Owning
    <3>1. Owners(c) = {<<"task", c>>}
      BY <2>2, OwnedElsewhereNot, Zenon DEF Owners
    <3> QED
      BY <2>2, <3>1, FS_Singleton, Zenon
  <2>3. ASSUME conn[c] # None, NEW u \in Held, peers[u].conn = c
        PROVE  Cardinality(Owners(c)) = 1
    <3>1. task[c] \notin Owning
      BY <2>3, Zenon DEF RelayInv, PendingHasTimer, Owning
    <3>2. Owners(c) = {<<"pending", u>>}
      BY <2>3, <3>1, HeldOnce, Zenon DEF Owners
    <3> QED
      BY <3>2, FS_Singleton, Zenon
  <2>4. ASSUME conn[c] # None, NEW d \in Conns, with[d] = c
        PROVE  Cardinality(Owners(c)) = 1
    <3>1. /\ task[c] \notin Owning
          /\ \A u \in Held : peers[u].conn # c
          /\ \A f \in Conns : with[f] = c => f = d
      BY <2>4, RelayNone, Zenon DEF RelayInv, Taken, TakenOnce
    <3>2. Owners(c) = {<<"relay", d>>}
      BY <2>4, <3>1, Zenon DEF Owners
    <3> QED
      BY <3>2, FS_Singleton, Zenon
  <2> QED
    BY <2>1, <2>2, <2>3, <2>4, Zenon DEF RelayInv, StreamsHeld
<1> QED
  BY <1>1, RelayInvariant, PTL

\* Only its own timer or its partner takes a stream out of PEERS: a timer that
\* outlived its entry finds another generation (remove_pending_if_generation).
THEOREM LateTimersAreHarmless == Spec => StaleTimersHarmless
<1> DEFINE Removal ==
      \A u \in Held : peers'[u] # peers[u] =>
        \/ task[peers[u].conn] = "waiting" /\ task'[peers[u].conn] = "none"
        \/ \E d \in Conns : with[d] = None /\ with'[d] = peers[u].conn
<1>1. ASSUME RelayInv, [Next]_vars
      PROVE  Removal
  <2> SUFFICES ASSUME NEW u \in Held, peers'[u] # peers[u]
               PROVE  \/ task[peers[u].conn] = "waiting" /\ task'[peers[u].conn] = "none"
                      \/ \E d \in Conns : with[d] = None /\ with'[d] = peers[u].conn
    BY Zenon
  <2> USE <1>1
  <2>1. u \in Uuids /\ peers \in [Uuids -> Opt(Pending)] /\ peers[u] # None
    BY Zenon DEF RelayInv, Types, Held
  <2>2. ASSUME NEW c \in Conns, NEW v \in Uuids, Pair(c, v)
        PROVE  with[c] = None /\ with'[c] = peers[u].conn
    <3>1. v = u
      BY <2>1, <2>2, Zenon DEF Pair
    <3> QED
      BY <2>2, <3>1, Zenon DEF Pair, RelayInv, Types, Partners, Serving, Relaying, Sending
  <2>3. ASSUME NEW c \in Conns, TimerFires(c)
        PROVE  task[peers[u].conn] = "waiting" /\ task'[peers[u].conn] = "none"
    <3>1. u \in Expired(c) /\ task[c] = "waiting"
      BY <2>1, <2>3, Zenon DEF TimerFires
    <3>2. peers[u].conn = c
      BY <3>1, ExpiredIsOwn
    <3> QED
      BY <2>3, <3>1, <3>2, Zenon DEF TimerFires, Goto, RelayInv, Types
  <2>4. ASSUME NEW c \in Conns, NEW v \in Uuids, Wait(c, v)
        PROVE  FALSE
    BY <2>1, <2>4, Zenon DEF Wait
  <2> QED
    BY StepKinds, <2>2, <2>3, <2>4, Zenon DEF Quiet, Accept, Drop, Finish
<1>2. RelayInv /\ [Next]_vars => [Removal]_vars
  BY <1>1, Zenon
<1> HIDE DEF Removal
<1>3. Spec => [][Removal]_vars
  BY <1>2, RelayInvariant, PTL DEF Spec
<1> QED
  BY <1>3, Zenon DEF StaleTimersHarmless, Removal

-----------------------------------------------------------------------------
(* The refinement of RelayService.                                         *)

Offers == [u \in Uuids |-> IF peers[u] = None THEN None ELSE peers[u].conn]
Sessions == {<<c, with[c]>> : c \in {d \in Conns : with[d] # None}}

\* What one task holds, the service has not engaged.
LEMMA OwnedNotEngaged ==
  ASSUME RelayInv, NEW c \in Conns, task[c] = "request"
  PROVE  c \notin Service!Engaged
<1>1. /\ \A u \in Held : peers[u].conn # c
      /\ \A d \in Conns : with[d] # c
      /\ with[c] = None
  BY OwnedElsewhereNot, Zenon DEF RelayInv, Partners, Owning, Tasks, Serving, Relaying, Sending
<1>2. c \notin {Offers[u] : u \in Uuids}
  BY <1>1, RelayNone, Zenon DEF Offers, Held
<1>3. \A s \in Sessions : s[1] # c /\ s[2] # c
  BY <1>1 DEF Sessions
<1> QED
  BY <1>2, <1>3, Zenon DEF Service!Engaged, Offers, Sessions

LEMMA ServiceStutters ==
  ASSUME UNCHANGED <<peers, with>>
  PROVE  UNCHANGED Service!svars
  BY Zenon DEF Service!svars

LEMMA PairIsJoin ==
  ASSUME RelayInv, NEW c \in Conns, NEW u \in Uuids, Pair(c, u)
  PROVE  Service!Join(c, u)
<1>1. task[c] = "request" /\ u \in Held /\ with[c] = None
  BY Zenon DEF RelayInv, Partners, Pair, Held, Serving, Relaying, Sending
<1>2. peers[u].conn \in Conns /\ peers[u].conn # None
  BY <1>1, HeldTyped, RelayNone, Zenon
<1>3. Offers[u] = peers[u].conn
  BY <1>1, Zenon DEF Offers, Held
<1>4. Offers' = [Offers EXCEPT ![u] = None]
  BY Zenon DEF RelayInv, Types, Pair, Offers
<1>5. Sessions' = Sessions \cup {<<c, peers[u].conn>>}
  <2>1. with'[c] = peers[u].conn /\ \A d \in Conns \ {c} : with'[d] = with[d]
    BY Zenon DEF RelayInv, Types, Pair
  <2> QED
    BY <1>1, <1>2, <2>1, Zenon DEF Sessions
<1>6. c \notin Service!Engaged
  BY <1>1, OwnedNotEngaged, Zenon
<1> QED
  BY <1>2, <1>3, <1>4, <1>5, <1>6, Zenon DEF Service!Join, Offers, Sessions

LEMMA WaitIsOffer ==
  ASSUME RelayInv, NEW c \in Conns, NEW u \in Uuids, Wait(c, u)
  PROVE  Service!Offer(c, u)
<1>1. task[c] = "request" /\ peers[u] = None /\ UNCHANGED with
  BY Zenon DEF Wait
<1>2. Offers[u] = None
  BY <1>1, Zenon DEF Offers
<1>3. Offers' = [Offers EXCEPT ![u] = c]
  <2> DEFINE r == [conn |-> c, ip |-> conn[c].ip, gen |-> nextGen]
  <2>1. r \in Pending /\ r.conn = c
    BY <1>1, OwnedElsewhereNot, Zenon DEF RelayInv, Types, Pending, Stream, Owning, Tasks
  <2>2. peers' = [peers EXCEPT ![u] = r]
    BY Zenon DEF Wait
  <2> HIDE DEF r
  <2> QED
    BY <2>1, <2>2, NoneIsNoRecord, Zenon DEF RelayInv, Types, Offers
<1>4. Sessions' = Sessions
  BY <1>1, Zenon DEF Sessions
<1>5. c \notin Service!Engaged
  BY <1>1, OwnedNotEngaged, Zenon
<1> QED
  BY <1>2, <1>3, <1>4, <1>5, Zenon DEF Service!Offer, Offers, Sessions

LEMMA TimerIsExpire ==
  ASSUME RelayInv, NEW c \in Conns, TimerFires(c)
  PROVE  UNCHANGED Service!svars \/ \E u \in Uuids : Service!Expire(u)
<1>1. /\ task[c] = "waiting" /\ UNCHANGED with /\ peers \in [Uuids -> Opt(Pending)]
      /\ peers' = [u \in Uuids |-> IF u \in Expired(c) THEN None ELSE peers[u]]
  BY Zenon DEF RelayInv, Types, TimerFires
<1>2. CASE Expired(c) = {}
  <2>1. peers' = peers
    BY <1>1, <1>2, Zenon
  <2> QED
    BY <1>1, <2>1, ServiceStutters, Zenon
<1>3. ASSUME NEW u \in Expired(c)
      PROVE  u \in Uuids /\ Service!Expire(u)
  <2>1. u \in Held /\ u \in Uuids /\ Expired(c) = {u}
    BY <1>1, <1>3, ExpiredIsOwn DEF Held
  <2>2. Offers[u] # None
    BY <2>1, HeldTyped, RelayNone, Zenon DEF Offers, Held
  <2>3. Offers' = [Offers EXCEPT ![u] = None]
    BY <1>1, <2>1, Zenon DEF Offers
  <2>4. Sessions' = Sessions
    BY <1>1, Zenon DEF Sessions
  <2> QED
    BY <2>1, <2>2, <2>3, <2>4, Zenon DEF Service!Expire, Offers, Sessions
<1> QED
  BY <1>2, <1>3, Zenon

LEMMA FinishIsEnd ==
  ASSUME RelayInv, NEW c \in Conns, Finish(c)
  PROVE  \E s \in Sessions : Service!End(s)
<1>1. with[c] # None /\ UNCHANGED peers
  BY Zenon DEF RelayInv, Partners, Finish, Serving, Relaying
<1>2. <<c, with[c]>> \in Sessions
  BY <1>1, Zenon DEF Sessions
<1>3. Sessions' = Sessions \ {<<c, with[c]>>}
  <2>1. with'[c] = None /\ \A d \in Conns \ {c} : with'[d] = with[d]
    BY Zenon DEF RelayInv, Types, Finish
  <2> QED
    BY <2>1 DEF Sessions
<1>4. Offers' = Offers
  BY <1>1, Zenon DEF Offers
<1> QED
  BY <1>2, <1>3, <1>4, Zenon DEF Service!End, Offers, Sessions

\* The relay server implements the pairing service, for any number of clients
\* and whatever the timers do (make_pair, relay and their tasks).
THEOREM RelayImplementsService == Spec => ImplementsService
<1>1. Init => Service!Init
  BY Zenon DEF Init, Service!Init
<1>2. ASSUME RelayInv, [Next]_vars
      PROVE  [Service!Next]_(Service!svars)
  <2> USE <1>2
  <2>1. ASSUME NEW c \in Conns, NEW u \in Uuids, Pair(c, u) \/ Wait(c, u)
        PROVE  Service!Next
    BY <2>1, PairIsJoin, WaitIsOffer, Zenon DEF Service!Next
  <2>2. ASSUME NEW c \in Conns, TimerFires(c)
        PROVE  [Service!Next]_(Service!svars)
    BY <2>2, TimerIsExpire, Zenon DEF Service!Next
  <2>3. ASSUME NEW c \in Conns, Finish(c)
        PROVE  Service!Next
    BY <2>3, FinishIsEnd, Zenon DEF Service!Next, Sessions
  <2>4. CASE UNCHANGED <<peers, with>>
    BY <2>4, ServiceStutters, Zenon
  <2> QED
    BY StepKinds, <2>1, <2>2, <2>3, <2>4, Zenon DEF Quiet, Accept, Drop
<1> QED
  BY <1>1, <1>2, RelayInvariant, PTL DEF Spec, ImplementsService, Service!Spec

-----------------------------------------------------------------------------
(* The USAGE table.                                                        *)

\* A relay goes on under the same key.
GoesOn(d) == task'[d] \in Relaying /\ Key(d)' = Key(d)

\* A step of any task but relay's last one lets every relay go on.
LEMMA RelaysGoOn ==
  ASSUME RelayInv, [Next]_vars, NEW d \in Conns, task[d] \in Relaying, ~Finish(d)
  PROVE  GoesOn(d)
<1>1. /\ conn \in [Conns -> Opt(Stream)] /\ task \in [Conns \cup Consoles -> Tasks]
      /\ with \in [Conns -> Opt(Conns)]
      /\ conn[d] \in Stream /\ \A u \in Held : peers[u].conn # d
      /\ \A c \in Conns : with[c] # d
  BY OwnedElsewhereNot, Zenon DEF RelayInv, Types, Relaying, Sending, Owning, Tasks
<1>2. CASE UNCHANGED <<conn, task>>
  BY <1>2, Zenon DEF GoesOn, Key
<1>3. ASSUME NEW c \in Conns, c # d, NEW label, Goto(c, label), conn'[d] = conn[d]
      PROVE  GoesOn(d)
  BY <1>1, <1>3, Zenon DEF GoesOn, Key, Goto
<1>4. ASSUME NEW label \in Relaying, Goto(d, label), UNCHANGED conn PROVE GoesOn(d)
  BY <1>1, <1>4, Zenon DEF GoesOn, Key, Goto
<1>5. ASSUME NEW c \in Conns, NEW ip \in Ip, NEW port \in Ports, NEW ws \in BOOLEAN,
             Accept(c, ip, port, ws)
      PROVE  GoesOn(d)
  <2>1. c # d
    BY <1>5, Zenon DEF Accept, Permit, Relaying, Sending
  <2>2. conn'[d] = conn[d]
    BY <1>1, <1>5, <2>1, Zenon DEF Accept
  <2> QED
    BY <1>3, <1>5, <2>1, <2>2, Zenon DEF Accept
<1>6. ASSUME NEW c \in Conns, MakePair(c) PROVE GoesOn(d)
  <2>1. c # d
    BY <1>6, Zenon DEF MakePair, Upgraded, GiveUp, Pair, RejectRequest, Wait, TimerFires, Relaying, Sending
  <2>2. CASE TimerFires(c)
    <3>1. \A u \in Expired(c) : u \in Held
      BY <2>2, ExpiredIsOwn DEF TimerFires
    <3>2. conn'[d] = conn[d]
      BY <1>1, <2>2, <3>1, Zenon DEF TimerFires
    <3> QED
      BY <1>3, <2>1, <2>2, <3>2, Zenon DEF TimerFires
  <2>3. CASE ~TimerFires(c)
    <3>1. \/ \E r : conn' = [conn EXCEPT ![c] = r]
          \/ \E ip : conn' = [conn EXCEPT ![c].ip = ip]
          \/ \E u : conn' = [conn EXCEPT ![c].uuid = u]
      BY <1>6, <2>3, Zenon DEF MakePair, Upgraded, GiveUp, Pair, RejectRequest, Wait, Drop
    <3>2. conn'[d] = conn[d]
      BY <1>1, <2>1, <3>1, Zenon
    <3>3. \E label : Goto(c, label)
      BY <1>6, <2>3, Zenon DEF MakePair, Upgraded, GiveUp, Pair, RejectRequest, Wait, Drop
    <3> QED
      BY <1>3, <2>1, <3>2, <3>3, Zenon
  <2> QED
    BY <2>2, <2>3, Zenon
<1>7. ASSUME NEW c \in Conns, Relay(c) PROVE GoesOn(d)
  <2>1. CASE Finish(c)
    <3>1. c # d
      BY <2>1, Zenon
    <3>2. conn'[d] = conn[d]
      BY <1>1, <2>1, <3>1, Zenon DEF Finish
    <3> QED
      BY <1>3, <2>1, <3>1, <3>2, Zenon DEF Finish
  <2>2. CASE ~Finish(c)
    <3>1. UNCHANGED conn /\ \E label \in Relaying : Goto(c, label)
      BY <1>7, <2>2, Zenon DEF Relay, StartRelay, Receive, ReceiveEnds, SendDone, SendFails, TimerTick,
                        LoopSkip, LoopCheck, RelayGoto, Relaying, Sending
    <3> QED
      BY <1>3, <1>4, <1>7, <3>1, Zenon
  <2> QED
    BY <2>1, <2>2, Zenon
<1>8. ASSUME NEW c \in Conns, Disconnect(c) PROVE GoesOn(d)
  <2>1. conn'[d].ip = conn[d].ip /\ conn'[d].port = conn[d].port /\ UNCHANGED task
    BY <1>1, <1>8, Zenon DEF Disconnect, Stream
  <2> QED
    BY <2>1, Zenon DEF GoesOn, Key
<1>9. ASSUME NEW c \in Consoles, Console(c) PROVE GoesOn(d)
  <2>1. c # d /\ UNCHANGED conn /\ \E label : Goto(c, label)
    BY <1>9, RelayNone, Zenon DEF Console, ConsoleAccept, ConsoleCommand, ConsoleReply
  <2> QED
    BY <1>1, <2>1, Zenon DEF GoesOn, Key, Goto
<1> QED
  BY <1>2, <1>5, <1>6, <1>7, <1>8, <1>9, Zenon DEF Next, vars, Environment, FallQuiet

\* What a step does to USAGE.
LEMMA UsageSteps ==
  ASSUME RelayInv, [Next]_vars
  PROVE  \/ usage' = usage /\ \A c \in Conns : ~Finish(c)
         \/ \E c \in Conns : /\ usage' = usage \cup {Key(c)}
                             /\ task'[c] \in Relaying /\ UNCHANGED conn
                             /\ \A d \in Conns : ~Finish(d)
         \/ \E c \in Conns : Finish(c)
<1>1. task \in [Conns \cup Consoles -> Tasks]
  BY Zenon DEF RelayInv, Types
<1>2. ASSUME NEW c \in Conns, StartRelay(c) \/ LoopCheck(c)
      PROVE  \/ usage' = usage
             \/ usage' = usage \cup {Key(c)} /\ task'[c] \in Relaying /\ UNCHANGED conn
  BY <1>1, <1>2, Zenon DEF StartRelay, LoopCheck, Goto, Relaying
<1>3. ASSUME NEW c \in Conns, MakePair(c) \/ Environment(c)
      PROVE  UNCHANGED usage
  BY <1>3, Zenon DEF MakePair, Upgraded, GiveUp, Pair, RejectRequest, Wait, TimerFires, Drop, Environment,
              Disconnect, FallQuiet
<1>4. ASSUME NEW c \in Conns, Relay(c), ~StartRelay(c), ~LoopCheck(c), ~Finish(c)
      PROVE  UNCHANGED usage
  BY <1>4, Zenon DEF Relay, Receive, ReceiveEnds, SendDone, SendFails, TimerTick, LoopSkip, RelayGoto
<1>5. ASSUME NEW c \in Conns, NEW ip, NEW port, NEW ws, Accept(c, ip, port, ws)
      PROVE  UNCHANGED usage
  BY <1>5, Zenon DEF Accept
<1>6. ASSUME NEW c \in Consoles, Console(c)
      PROVE  UNCHANGED usage
  BY <1>6, Zenon DEF Console, ConsoleAccept, ConsoleCommand, ConsoleReply
<1>7. \/ usage' = usage
      \/ \E c \in Conns : usage' = usage \cup {Key(c)} /\ task'[c] \in Relaying /\ UNCHANGED conn
      \/ \E c \in Conns : Finish(c)
  BY <1>2, <1>3, <1>4, <1>5, <1>6, Zenon DEF Next, vars
<1> QED
  BY <1>7, Zenon

LEMMA NextUsage ==
  ASSUME RelayInv, UsageOnlyRelays, [Next]_vars
  PROVE  UsageOnlyRelays'
<1> SUFFICES ASSUME NEW k \in usage'
             PROVE  \E d \in Conns : task'[d] \in Relaying /\ k = Key(d)'
  BY Zenon DEF UsageOnlyRelays
<1>1. ASSUME NEW d \in Conns, task[d] \in Relaying, k = Key(d), ~Finish(d)
      PROVE  \E e \in Conns : task'[e] \in Relaying /\ k = Key(e)'
  BY <1>1, RelaysGoOn, Zenon DEF GoesOn
<1>2. CASE k \in usage /\ \A c \in Conns : ~Finish(c)
  <2> PICK d \in Conns : task[d] \in Relaying /\ k = Key(d)
    BY <1>2, Zenon DEF UsageOnlyRelays
  <2> QED
    BY <1>1, <1>2, Zenon
<1>3. ASSUME NEW c \in Conns, task'[c] \in Relaying, UNCHANGED conn, k = Key(c)
      PROVE  \E e \in Conns : task'[e] \in Relaying /\ k = Key(e)'
  BY <1>3, Zenon DEF Key
<1>4. ASSUME NEW c \in Conns, Finish(c)
      PROVE  \E e \in Conns : task'[e] \in Relaying /\ k = Key(e)'
  <2>1. k \in usage /\ k # Key(c)
    BY <1>4, Zenon DEF Finish
  <2> PICK d \in Conns : task[d] \in Relaying /\ k = Key(d)
    BY <2>1, Zenon DEF UsageOnlyRelays
  <2>2. task'[d] = task[d] /\ d # c
    BY <1>4, <2>1, Zenon DEF Finish, Goto, RelayInv, Types
  <2>3. ~Finish(d)
    BY <1>4, <2>2, Zenon DEF Finish, Goto, RelayInv, Types, Relaying, Sending
  <2> QED
    BY <1>1, <2>3, Zenon
<1> QED
  BY UsageSteps, <1>2, <1>3, <1>4, Zenon

\* The usage command never shows a relay that has ended, for any number of
\* connections that share addresses and ports (USAGE in make_pair_ and relay).
THEOREM UsageShowsRelays == Spec => []UsageOnlyRelays
<1>1. Init => UsageOnlyRelays
  BY Zenon DEF Init, UsageOnlyRelays
<1> QED
  BY <1>1, NextUsage, RelayInvariant, PTL DEF Spec

-----------------------------------------------------------------------------
(* The limits of the permits, of PEERS and of the lists.                   *)

PermitLimits == IsFiniteSet(Busy) /\ Cardinality(Busy) <= Slots

TableLimits ==
  /\ IsFiniteSet(Held) /\ Cardinality(Held) <= MaxPending
  /\ \A ip \in Ip : Cardinality(HeldFor(ip)) <= MaxPendingPerIp
ListLimits == \A list \in {block, black} :
  list \subseteq Ip /\ Cardinality(list) <= MaxListEntries
LoopSets == blacked \subseteq Conns /\ downgraded \subseteq Conns /\ quiet \subseteq Conns

\* A permit is taken only while one is left, and a task that has one keeps it
\* until it ends.
LEMMA NextPermits ==
  ASSUME RelayInv, PermitLimits, [Next]_vars
  PROVE  PermitLimits'
<1>1. task \in [Conns \cup Consoles -> Tasks]
  BY Zenon DEF RelayInv, Types
<1>2. IsFiniteSet(Busy) /\ Cardinality(Busy) \in Nat /\ Cardinality(Busy) <= Slots /\ Slots \in Nat
  BY FS_CardinalityType, RelayBounds, Zenon DEF PermitLimits
<1>3. ASSUME Busy' \subseteq Busy PROVE PermitLimits'
  <2>1. IsFiniteSet(Busy') /\ Cardinality(Busy') <= Cardinality(Busy)
    BY <1>2, <1>3, FS_Subset, Zenon
  <2>2. Cardinality(Busy') \in Nat
    BY <2>1, FS_CardinalityType, Zenon
  <2>3. Cardinality(Busy') <= Slots
    BY <1>2, <2>1, <2>2
  <2> QED
    BY <2>1, <2>3, Zenon DEF PermitLimits
<1>4. ASSUME NEW c \in Conns \cup Consoles, Permit(c), NEW label, Goto(c, label) PROVE PermitLimits'
  <2>1. c \notin Busy /\ Busy' \subseteq Busy \cup {c}
    BY <1>1, <1>4, Zenon DEF Permit, Goto, Busy
  <2>2. IsFiniteSet(Busy \cup {c}) /\ Cardinality(Busy \cup {c}) = Cardinality(Busy) + 1
    BY <1>2, <2>1, FS_AddElement, Zenon
  <2>3. IsFiniteSet(Busy') /\ Cardinality(Busy') <= Cardinality(Busy \cup {c})
    BY <2>1, <2>2, FS_Subset, Zenon
  <2>4. Cardinality(Busy') \in Nat
    BY <2>3, FS_CardinalityType, Zenon
  <2>5. Cardinality(Busy) < Slots
    BY <1>4, Zenon DEF Permit
  <2>6. Cardinality(Busy') <= Slots
    BY <1>2, <2>2, <2>3, <2>4, <2>5
  <2> QED
    BY <2>3, <2>6, Zenon DEF PermitLimits
<1>5. ASSUME NEW c \in Conns \cup Consoles, task[c] # "none", NEW label, Goto(c, label)
      PROVE  PermitLimits'
  <2>1. Busy' \subseteq Busy
    BY <1>1, <1>5, Zenon DEF Goto, Busy
  <2> QED
    BY <1>3, <2>1, Zenon
<1>6. CASE UNCHANGED task
  BY <1>3, <1>6, Zenon DEF Busy
<1>7. ASSUME NEW c \in Conns, MakePair(c) PROVE task[c] # "none" /\ \E label : Goto(c, label)
  BY <1>7, Zenon DEF MakePair, Upgraded, GiveUp, Drop, Pair, RejectRequest, Wait, TimerFires
<1>8. ASSUME NEW c \in Conns, Relay(c) PROVE task[c] # "none" /\ \E label : Goto(c, label)
  BY <1>8, Zenon DEF Relay, StartRelay, Receive, ReceiveEnds, SendDone, SendFails, TimerTick, LoopSkip,
              LoopCheck, Finish, RelayGoto, Sending
<1>9. ASSUME NEW c \in Conns, NEW ip, NEW port, NEW ws, Accept(c, ip, port, ws)
      PROVE  Permit(c) /\ \E label : Goto(c, label)
  BY <1>9, Zenon DEF Accept
<1>10. ASSUME NEW c \in Consoles, Console(c)
       PROVE  (Permit(c) \/ task[c] # "none") /\ \E label : Goto(c, label)
  BY <1>10, Zenon DEF Console, ConsoleAccept, ConsoleCommand, ConsoleReply
<1> QED
  BY <1>4, <1>5, <1>6, <1>7, <1>8, <1>9, <1>10, Zenon DEF Next, vars, Environment, Disconnect, FallQuiet

\* Whatever takes entries out of PEERS keeps the table within its limits.
LEMMA FewerPending ==
  ASSUME TableLimits, Held' \subseteq Held, \A u \in Held' : peers'[u] = peers[u]
  PROVE  TableLimits'
<1>1. IsFiniteSet(Held') /\ Cardinality(Held') <= Cardinality(Held)
      /\ Cardinality(Held) \in Nat /\ Cardinality(Held') \in Nat
  BY FS_Subset, FS_CardinalityType, Zenon DEF TableLimits
<1>2. ASSUME NEW ip \in Ip PROVE Cardinality(HeldFor(ip)') <= MaxPendingPerIp
  <2>1. IsFiniteSet(HeldFor(ip)) /\ HeldFor(ip)' \subseteq HeldFor(ip)
    BY FS_Subset, Zenon DEF TableLimits, HeldFor
  <2>2. Cardinality(HeldFor(ip)') <= Cardinality(HeldFor(ip)) /\ IsFiniteSet(HeldFor(ip)')
    BY <2>1, FS_Subset, Zenon
  <2>3. Cardinality(HeldFor(ip)) \in Nat /\ Cardinality(HeldFor(ip)') \in Nat
    BY <2>1, <2>2, FS_CardinalityType, Zenon
  <2> QED
    BY <2>2, <2>3, RelayBounds DEF TableLimits
<1> QED
  BY <1>1, <1>2, RelayBounds DEF TableLimits

LEMMA WaitWithinLimits ==
  ASSUME RelayInv, TableLimits, NEW c \in Conns, NEW u \in Uuids, Wait(c, u)
  PROVE  TableLimits'
<1> DEFINE own == conn[c].ip
<1>1. /\ peers \in [Uuids -> Opt(Pending)] /\ own \in Ip /\ nextGen \in Nat
      /\ ~PendingFull(own)
  BY OwnedElsewhereNot, Zenon DEF RelayInv, Types, Wait, Owning, Tasks, Stream
<1>2. /\ peers' \in [Uuids -> Opt(Pending)] /\ peers'[u] # None /\ peers'[u].ip = own
      /\ \A v \in Uuids \ {u} : peers'[v] = peers[v]
  <2> DEFINE r == [conn |-> c, ip |-> own, gen |-> nextGen]
  <2>1. r \in Pending /\ r # None
    BY <1>1, NoneIsNoRecord DEF Pending
  <2> QED
    BY <1>1, <2>1, Zenon DEF Wait, Opt
<1>3. Held' = Held \cup {u} /\ u \notin Held
  BY <1>1, <1>2, Zenon DEF Held, Wait
<1>4. /\ IsFiniteSet(Held') /\ Cardinality(Held') = Cardinality(Held) + 1
      /\ Cardinality(Held) \in Nat /\ Cardinality(Held) < MaxPending
  BY <1>1, <1>3, FS_AddElement, FS_CardinalityType, RelayBounds DEF TableLimits, PendingFull
<1>5. ASSUME NEW ip \in Ip PROVE Cardinality(HeldFor(ip)') <= MaxPendingPerIp
  <2>1. IsFiniteSet(HeldFor(ip)) /\ Cardinality(HeldFor(ip)) \in Nat
    BY FS_Subset, FS_CardinalityType, Zenon DEF TableLimits, HeldFor
  <2>2. CASE ip = own
    <3>1. HeldFor(ip)' = HeldFor(ip) \cup {u} /\ u \notin HeldFor(ip)
      BY <1>2, <1>3, <2>2, Zenon DEF HeldFor, Held
    <3>2. Cardinality(HeldFor(ip)) < MaxPendingPerIp
      BY <1>1, <2>1, <2>2, RelayBounds DEF PendingFull
    <3>3. Cardinality(HeldFor(ip)') = Cardinality(HeldFor(ip)) + 1
      BY <2>1, <3>1, FS_AddElement, Zenon
    <3> QED
      BY <2>1, <3>2, <3>3, RelayBounds
  <2>3. CASE ip # own
    <3>1. HeldFor(ip)' = HeldFor(ip)
      BY <1>2, <1>3, <2>3, Zenon DEF HeldFor, Held
    <3> QED
      BY <3>1, Zenon DEF TableLimits
  <2> QED
    BY <2>2, <2>3, Zenon
<1> QED
  BY <1>4, <1>5, RelayBounds DEF TableLimits

LEMMA NextTable ==
  ASSUME RelayInv, TableLimits, [Next]_vars
  PROVE  TableLimits'
<1>1. CASE UNCHANGED peers
  BY <1>1, FewerPending, Zenon DEF Held
<1>2. ASSUME NEW c \in Conns, NEW u \in Uuids, Pair(c, u) PROVE TableLimits'
  BY <1>2, FewerPending, Zenon DEF Held, Pair, RelayInv, Types
<1>3. ASSUME NEW c \in Conns, TimerFires(c) PROVE TableLimits'
  BY <1>3, FewerPending, Zenon DEF Held, TimerFires
<1> QED
  BY StepKinds, WaitWithinLimits, <1>1, <1>2, <1>3, Zenon DEF Quiet, Accept, Drop, Finish

\* No console command takes a list over its limit.
LEMMA NextLists ==
  ASSUME ListLimits, [Next]_vars
  PROVE  ListLimits'
<1>1. IsFiniteSet(Ip)
  <2> DEFINE Form(m) == {[host |-> h, mapped |-> m] : h \in Hosts}
  <2>1. ASSUME NEW m \in BOOLEAN PROVE IsFiniteSet(Form(m))
    <3>1. [h \in Hosts |-> [host |-> h, mapped |-> m]] \in Surjection(Hosts, Form(m))
      BY Zenon DEF Surjection
    <3> QED
      BY <3>1, FS_Surjection, RelayHosts, Zenon
  <2>2. IsFiniteSet(Form(TRUE) \cup Form(FALSE))
    BY <2>1, FS_Union, Zenon
  <2>3. Ip \subseteq Form(TRUE) \cup Form(FALSE)
    BY DEF Ip
  <2> QED
    BY <2>2, <2>3, FS_Subset, Zenon
<1>2. ASSUME NEW list, list \subseteq Ip, Cardinality(list) <= MaxListEntries,
             NEW new \in Edited(list)
      PROVE  new \subseteq Ip /\ Cardinality(new) <= MaxListEntries
  <2>1. CASE new \in SUBSET list
    <3>1. IsFiniteSet(list) /\ IsFiniteSet(new) /\ Cardinality(new) <= Cardinality(list)
      BY <1>1, <1>2, <2>1, FS_Subset, Zenon
    <3>2. Cardinality(list) \in Nat /\ Cardinality(new) \in Nat
      BY <3>1, FS_CardinalityType, Zenon
    <3> QED
      <4>1. new \subseteq Ip
        BY <1>2, <2>1, Zenon
      <4>2. Cardinality(new) <= MaxListEntries
        BY <1>2, <3>1, <3>2, RelayBounds
      <4> QED
        BY <4>1, <4>2, Zenon
  <2>2. CASE \E S \in SUBSET Ip : new = list \cup S /\ Cardinality(list \cup S) <= MaxListEntries
    BY <1>2, <2>2, Zenon
  <2> QED
    BY <1>2, <2>1, <2>2, Zenon DEF Edited, Texts
<1>3. CASE UNCHANGED <<block, black>>
  BY <1>3, Zenon DEF ListLimits
<1>4. ASSUME NEW c \in Consoles, ConsoleCommand(c) PROVE ListLimits'
  <2>1. /\ block \subseteq Ip /\ Cardinality(block) <= MaxListEntries
        /\ black \subseteq Ip /\ Cardinality(black) <= MaxListEntries
    BY Zenon DEF ListLimits
  <2>2. \/ block' \in Edited(block) /\ black' = black
        \/ black' \in Edited(black) /\ block' = block
        \/ black' = black /\ block' = block
    BY <1>4, Zenon DEF ConsoleCommand, listVars
  <2>3. /\ block' \subseteq Ip /\ Cardinality(block') <= MaxListEntries
        /\ black' \subseteq Ip /\ Cardinality(black') <= MaxListEntries
    BY <1>2, <2>1, <2>2, Zenon
  <2> QED
    BY <2>3, Zenon DEF ListLimits
<1>5. ASSUME NEW c \in Conns, MakePair(c) \/ Environment(c)
      PROVE  UNCHANGED <<block, black>>
  BY <1>5, Zenon DEF MakePair, Upgraded, GiveUp, Pair, RejectRequest, Wait, TimerFires, Drop, Environment,
              Disconnect, FallQuiet, listVars
<1>6. ASSUME NEW c \in Conns, Relay(c)
      PROVE  UNCHANGED <<block, black>>
  BY <1>6, Zenon DEF Relay, StartRelay, Receive, ReceiveEnds, SendDone, SendFails, TimerTick, LoopSkip,
              LoopCheck, Finish, RelayGoto, listVars
<1> QED
  BY <1>3, <1>4, <1>5, <1>6, Zenon DEF Next, vars, Accept, Console, ConsoleAccept, ConsoleReply,
                                         listVars

LEMMA NextLoopSets ==
  ASSUME LoopSets, [Next]_vars
  PROVE  LoopSets'
<1>1. CASE UNCHANGED loopVars
  BY <1>1, Zenon DEF LoopSets, loopVars
<1>2. ASSUME NEW c \in Conns, Relay(c) PROVE LoopSets'
  BY <1>2, Zenon DEF Relay, StartRelay, Receive, ReceiveEnds, SendDone, SendFails, TimerTick, LoopSkip,
              LoopCheck, Finish, RelayGoto, LoopSets, loopVars
<1>3. ASSUME NEW c \in Conns, MakePair(c) PROVE UNCHANGED loopVars
  BY <1>3, Zenon DEF MakePair, Upgraded, GiveUp, Pair, RejectRequest, Wait, TimerFires, Drop, loopVars
<1>4. ASSUME NEW c \in Conns, Environment(c) PROVE LoopSets'
  BY <1>4, Zenon DEF Environment, Disconnect, FallQuiet, LoopSets, loopVars
<1> QED
  BY <1>1, <1>2, <1>3, <1>4, Zenon
  DEF Next, vars, Accept, Console, ConsoleAccept, ConsoleCommand, ConsoleReply, loopVars

\* The permits, PEERS and the two lists stay within their limits, whatever
\* connections and commands arrive together (handle_connection, make_pair_,
\* check_cmd and load_ip_list), and every table has its type.
THEOREM RelayTypes == Spec => []TypeOK
<1>1. Init => PermitLimits /\ TableLimits /\ ListLimits /\ LoopSets
  <2>1. Init => Held = {} /\ \A ip \in Ip : HeldFor(ip) = {}
    BY Zenon DEF Init, Held, HeldFor
  <2>2. Init => TableLimits
    <3>1. Cardinality({}) = 0 /\ IsFiniteSet({})
      BY FS_EmptySet, Zenon
    <3>2. Cardinality({}) <= MaxPending /\ Cardinality({}) <= MaxPendingPerIp
      BY <3>1, RelayBounds
    <3> QED
      BY <2>1, <3>1, <3>2, Zenon DEF TableLimits
  <2>3. Init => ListLimits
    BY Zenon DEF Init, ListLimits, LoadedLists, Texts
  <2>4. Init => LoopSets
    BY Zenon DEF Init, LoopSets
  <2>5. Init => PermitLimits
    <3>1. Init => Busy = {}
      BY Zenon DEF Init, Busy
    <3>2. Cardinality({}) <= Slots /\ IsFiniteSet({})
      BY FS_EmptySet, RelayBounds
    <3> QED
      BY <3>1, <3>2, Zenon DEF PermitLimits
  <2> QED
    BY <2>2, <2>3, <2>4, <2>5, Zenon
<1>2. ASSUME RelayInv, UsageOnlyRelays, PermitLimits, TableLimits, ListLimits, LoopSets
      PROVE  TypeOK
  <2>1. ASSUME NEW c \in Conns, task[c] \in Relaying PROVE Key(c) \in Ip \X Ports
    <3>1. conn[c] \in Stream
      BY <2>1, <1>2, OwnedElsewhereNot, Zenon DEF Relaying, Sending, Owning, Tasks
    <3> QED
      BY <3>1, Zenon DEF Key, Stream
  <2>2. usage \subseteq Ip \X Ports
    BY <1>2, <2>1, Zenon DEF UsageOnlyRelays
  <2> QED
    BY <1>2, <2>2, Zenon
    DEF TypeOK, RelayInv, Types, PermitLimits, TableLimits, ListLimits, LoopSets
<1> QED
  BY <1>1, <1>2, NextPermits, NextTable, NextLists, NextLoopSets, RelayInvariant, UsageShowsRelays,
     PTL DEF Spec
=============================================================================
