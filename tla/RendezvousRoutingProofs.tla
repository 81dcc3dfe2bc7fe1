---------------------- MODULE RendezvousRoutingProofs ----------------------
(***************************************************************************)
(* Proofs about RendezvousRouting, for any number of connections,          *)
(* addresses, peers and tokens and any capacity: the tasks, the connections*)
(* and their queues, then the sinks of tcp_punch and the tokens of         *)
(* pending_rendezvous.  RendezvousRoutingAnswers follows a token to its    *)
(* answer.                                                                 *)
(*                                                                         *)
(* The invariant says what a task carries at each of its program points    *)
(* (Control), which connections have a queue that takes messages (Links),  *)
(* and that the queues and the table of tokens stay within their bounds    *)
(* (Limits).                                                               *)
(***************************************************************************)
EXTENDS RendezvousRouting, TLAPS, FiniteSetTheorems

\* The steps of a request that holds a token, and of an answer.
Delivering == {"deliver", "send", "undo"}
Answering == {"answer", "push"}
\* The steps before a connection has a queue.
Outside == {"none", "handshake"}
Awaited == {t \in Tokens : pending[t] # None}

Types ==
  /\ conn \in [Conns -> Opt(Link)]
  /\ pc \in [Tasks -> Steps] /\ work \in [Tasks -> Opt(Work)] /\ tx \in [Tasks -> Opt(Conns)]
  /\ queue \in [Conns -> Seq(Message)]
  /\ sinks \in [Addrs -> Opt(Conns)] /\ pending \in [Tokens -> Opt(Entry)]
  /\ reg \in [Ids -> Opt(Addrs)] /\ asked \in [Tokens -> Opt(Entry)] /\ sent \subseteq Tokens

Limits ==
  /\ \A c \in Conns : Len(queue[c]) <= QueueCapacity
  /\ IsFiniteSet(Awaited) /\ Cardinality(Awaited) <= PendingCapacity

Control(p) ==
  /\ pc[p] \in {"register", "reserve"} \cup Delivering \cup Answering => work[p] # None
  /\ pc[p] \in Delivering \cup Answering => work[p].token # None
  /\ pc[p] \in {"send", "failing"} => tx[p] # None
  /\ p = Udp => pc[p] \in {"serving"} \cup Answering

Links == \A c \in Conns :
  /\ conn[c] = None <=> pc[c] = "none"
  /\ pc[c] \in Outside => queue[c] = <<>> /\ (conn[c] # None => ~conn[c].rx)

TaskInv == \A p \in Tasks : Control(p)
RouteInv == Types /\ Limits /\ TaskInv /\ Links /\ SinksLive /\ UndeliveredForgotten
-----------------------------------------------------------------------------
LEMMA InitRoute == Init => RouteInv
<1> SUFFICES ASSUME Init PROVE RouteInv
  BY Zenon
<1>1. Types
  BY RoutingNames DEF Init, Types, Tasks, Steps, Opt
<1>2. Awaited = {}
  BY Zenon DEF Init, Awaited
<1>3. Limits
  BY <1>2, FS_EmptySet, RoutingBounds DEF Init, Limits
<1>4. TaskInv /\ Links
  BY RoutingNames, Zenon DEF Init, TaskInv, Control, Links, Tasks, Delivering, Answering, Outside
<1> QED
  BY <1>1, <1>3, <1>4, Zenon DEF RouteInv, Init, SinksLive, UndeliveredForgotten

-----------------------------------------------------------------------------
(* The tasks.  A step moves one task and leaves the others alone.          *)

TaskTypes == pc \in [Tasks -> Steps] /\ work \in [Tasks -> Opt(Work)] /\ tx \in [Tasks -> Opt(Conns)]

Alone(p) == \A q \in Tasks : q # p => pc'[q] = pc[q] /\ work'[q] = work[q] /\ tx'[q] = tx[q]

\* What a task is after a step of p, for p and for the others.
Moves(p) == TaskTypes' /\ Alone(p) /\ Control(p)'

LEMMA MovesKeep ==
  ASSUME TaskInv, NEW p \in Tasks, Moves(p)
  PROVE  TaskInv'
  BY Zenon DEF TaskInv, Moves, Alone, Control

LEMMA GotoTask ==
  ASSUME TaskTypes, NEW p \in Tasks, NEW label \in Steps, Goto(p, label)
  PROVE  pc' \in [Tasks -> Steps] /\ pc'[p] = label /\ \A q \in Tasks : q # p => pc'[q] = pc[q]
  BY Zenon DEF TaskTypes, Goto

LEMMA HangUpMoves ==
  ASSUME TaskTypes, NEW c \in Conns, HangUp(c), tx' \in [Tasks -> Opt(Conns)],
         \A q \in Tasks : q # c => tx'[q] = tx[q]
  PROVE  Moves(c) /\ pc'[c] = "closing"
<1>1. c \in Tasks /\ c # Udp
  BY RoutingNames, Zenon DEF Tasks
<1>2. /\ pc' \in [Tasks -> Steps] /\ pc'[c] = "closing"
      /\ \A q \in Tasks : q # c => pc'[q] = pc[q]
  BY <1>1, GotoTask, Zenon DEF HangUp, Steps
<1>3. work' \in [Tasks -> Opt(Work)] /\ \A q \in Tasks : q # c => work'[q] = work[q]
  BY <1>1, Zenon DEF HangUp, TaskTypes, Opt
<1> QED
  BY <1>1, <1>2, <1>3, Zenon DEF Moves, TaskTypes, Alone, Control, Delivering, Answering

LEMMA DoneMoves ==
  ASSUME TaskTypes, NEW p \in Tasks, Done(p), tx' \in [Tasks -> Opt(Conns)],
         \A q \in Tasks : q # p => tx'[q] = tx[q]
  PROVE  Moves(p) /\ pc'[p] = "serving"
<1>1. /\ pc' \in [Tasks -> Steps] /\ pc'[p] = "serving"
      /\ \A q \in Tasks : q # p => pc'[q] = pc[q]
  BY GotoTask, Zenon DEF Done, Steps
<1>2. work' \in [Tasks -> Opt(Work)] /\ \A q \in Tasks : q # p => work'[q] = work[q]
  BY Zenon DEF Done, TaskTypes, Opt
<1> QED
  BY <1>1, <1>2, Zenon DEF Moves, TaskTypes, Alone, Control, Delivering, Answering

LEMMA ReplyMoves ==
  ASSUME TaskTypes, NEW c \in Conns, NEW m, ReplyOrHangUp(c, m), UNCHANGED tx
  PROVE  Moves(c) /\ pc'[c] \in {"serving", "closing"}
<1>1. c \in Tasks /\ tx' \in [Tasks -> Opt(Conns)] /\ \A q \in Tasks : q # c => tx'[q] = tx[q]
  BY Zenon DEF Tasks, TaskTypes
<1> QED
  BY <1>1, DoneMoves, HangUpMoves, Zenon DEF ReplyOrHangUp

LEMMA HoldTask ==
  ASSUME TaskTypes, NEW p \in Tasks, NEW d \in Opt(Conns), Hold(p, d)
  PROVE  tx' \in [Tasks -> Opt(Conns)] /\ tx'[p] = d /\ \A q \in Tasks : q # p => tx'[q] = tx[q]
  BY Zenon DEF TaskTypes, Hold

\* A task that goes on with what it carries.
LEMMA GotoMoves ==
  ASSUME TaskTypes, NEW p \in Tasks, NEW label \in Steps, Goto(p, label),
         UNCHANGED <<work, tx>>, Control(p)'
  PROVE  Moves(p)
  BY GotoTask, Zenon DEF Moves, TaskTypes, Alone

\* The steps of a connection that is being served.
Inside(p) == p \in Conns => pc[p] \notin Outside /\ pc'[p] \notin Outside

LEMMA ConnectionMoves ==
  ASSUME Types, TaskInv, NEW c \in Conns, Connection(c)
  PROVE  Moves(c)
<1>1. TaskTypes /\ c \in Tasks /\ c # Udp
  BY RoutingNames, Zenon DEF Types, TaskTypes, Tasks
<1>2. ASSUME NEW label \in {"none", "handshake", "serving", "closing"}, Goto(c, label),
             UNCHANGED <<work, tx>>
      PROVE  Moves(c)
  <2>1. pc'[c] = label /\ label \in Steps
    BY <1>1, <1>2, GotoTask, Zenon DEF Steps
  <2>2. Control(c)'
    BY <1>1, <1>2, <2>1, Zenon DEF Control, Delivering, Answering
  <2> QED
    BY <1>1, <1>2, <2>1, <2>2, GotoMoves, Zenon
<1>3. CASE UNCHANGED <<pc, work, tx>>
  BY <1>1, <1>3, Zenon DEF Moves, TaskTypes, Alone, TaskInv, Control
<1>4. CASE Break(c)
  BY <1>1, <1>4, HangUpMoves, Zenon DEF Break, TaskTypes
<1>5. CASE HandshakeFails(c) \/ HandshakeDone(c) \/ Cleanup(c)
  BY <1>2, <1>5, Zenon DEF HandshakeFails, HandshakeDone, Cleanup
<1>6. CASE \E a \in Addrs, ws \in BOOLEAN : Accept(c, a, ws)
  BY <1>2, <1>6, Zenon DEF Accept
<1>7. CASE Write(c) \/ WriterDies(c)
  BY <1>3, <1>7, Zenon DEF Write, WriterDies
<1> QED
  BY <1>4, <1>5, <1>6, <1>7, Zenon DEF Connection

LEMMA AnswersMove ==
  ASSUME Types, TaskInv, NEW p \in Tasks, Answers(p)
  PROVE  Moves(p) /\ Inside(p)
<1>1. TaskTypes /\ pc[p] \in Steps
  BY Zenon DEF Types, TaskTypes
<1>2. ASSUME NEW t \in Tokens, NEW i \in Ids, NEW a \in Addrs, NEW kind \in Kinds,
             Consume(p, t, i, a, kind)
      PROVE  Moves(p) /\ Inside(p)
  <2>1. /\ pc' \in [Tasks -> Steps] /\ pc'[p] = "answer"
        /\ \A q \in Tasks : q # p => pc'[q] = pc[q]
    BY <1>1, <1>2, GotoTask, Zenon DEF Consume, Steps
  <2>2. [id |-> i, kind |-> kind, to |-> a, token |-> t] \in Work /\ t # None
    BY RoutingNames, Zenon DEF Work, Opt
  <2>3. /\ work' \in [Tasks -> Opt(Work)] /\ work'[p] \in Work /\ work'[p].token = t
        /\ \A q \in Tasks : q # p => work'[q] = work[q]
    BY <1>1, <1>2, <2>2, Zenon DEF Consume, TaskTypes, Opt
  <2> QED
    BY <1>1, <1>2, <2>1, <2>2, <2>3, NoneIsNoRecord, Zenon
    DEF Consume, Moves, TaskTypes, Alone, Control, Delivering, Answering, Inside, Outside
<1>3. ASSUME NEW t \in Tokens, ConsumeExpired(p, t) PROVE Moves(p) /\ Inside(p)
  <2>1. CASE p = Udp
    BY <1>1, <1>3, <2>1, RoutingNames, Zenon
    DEF ConsumeExpired, Moves, TaskTypes, Alone, TaskInv, Control, Inside
  <2>2. CASE p # Udp
    <3>1. p \in Conns /\ HangUp(p) /\ UNCHANGED tx /\ pc[p] = "serving"
      BY <1>3, <2>2, Zenon DEF ConsumeExpired, Tasks
    <3> QED
      BY <1>1, <3>1, HangUpMoves, Zenon DEF TaskTypes, Inside, Outside
  <2> QED
    BY <2>1, <2>2, Zenon
<1>4. CASE TakeSink(p)
  <2>1. work[p] \in Work /\ work[p].token # None
    BY <1>1, <1>4, Zenon DEF TakeSink, TaskInv, Control, Answering, TaskTypes, Opt
  <2>2. sinks[work[p].to] \in Opt(Conns)
    BY <2>1, Zenon DEF Types, Work
  <2>3. tx' \in [Tasks -> Opt(Conns)] /\ \A q \in Tasks : q # p => tx'[q] = tx[q]
    BY <1>1, <1>4, <2>2, HoldTask, Zenon DEF TakeSink
  <2>4. /\ pc' \in [Tasks -> Steps] /\ pc'[p] = "push"
        /\ \A q \in Tasks : q # p => pc'[q] = pc[q]
    BY <1>1, <1>4, GotoTask, Zenon DEF TakeSink, Steps
  <2> QED
    BY <1>1, <1>4, <2>1, <2>3, <2>4, NoneIsNoRecord, Zenon
    DEF TakeSink, Moves, TaskTypes, Alone, Control, Delivering, Answering, Inside, Outside
<1>5. CASE SendAnswer(p)
  <2> DEFINE label == IF p = Udp THEN "serving" ELSE "closing"
  <2>1. label \in Steps /\ pc[p] = "push" /\ Goto(p, label) /\ Hold(p, None)
        /\ work' = [work EXCEPT ![p] = None]
    BY <1>5, Zenon DEF SendAnswer, Steps
  <2>2. tx' \in [Tasks -> Opt(Conns)] /\ \A q \in Tasks : q # p => tx'[q] = tx[q]
    BY <1>1, <2>1, HoldTask, Zenon DEF Opt
  <2>3. pc' \in [Tasks -> Steps] /\ pc'[p] = label /\ \A q \in Tasks : q # p => pc'[q] = pc[q]
    BY <1>1, <2>1, GotoTask, Zenon
  <2>4. work' \in [Tasks -> Opt(Work)] /\ \A q \in Tasks : q # p => work'[q] = work[q]
    BY <1>1, <2>1, Zenon DEF TaskTypes, Opt
  <2> QED
    BY <2>1, <2>2, <2>3, <2>4, Zenon
    DEF Moves, TaskTypes, Alone, Control, Delivering, Answering, Inside, Outside
<1> QED
  BY <1>2, <1>3, <1>4, <1>5, Zenon DEF Answers

\* Replies, and the steps that end a request on the connection's own queue.
LEMMA PlainRequestsMove ==
  ASSUME Types, TaskInv, NEW c \in Conns,
         \/ Query(c) \/ KeepAlive(c) \/ NatTest(c) \/ RegisterDone(c) \/ ReserveFails(c)
         \/ Undo(c) \/ \E i \in Ids, kind \in Requested : RequestRefused(c, i, kind)
  PROVE  Moves(c) /\ Inside(c)
<1>1. TaskTypes /\ c \in Tasks /\ c # Udp
  BY RoutingNames, Zenon DEF Types, TaskTypes, Tasks
<1>2. ASSUME NEW m, ReplyOrHangUp(c, m), UNCHANGED tx, pc[c] \notin Outside
      PROVE  Moves(c) /\ Inside(c)
  BY <1>1, <1>2, ReplyMoves, Zenon DEF Inside, Outside
<1>3. ASSUME HangUp(c), UNCHANGED tx, pc[c] \notin Outside
      PROVE  Moves(c) /\ Inside(c)
  BY <1>1, <1>3, HangUpMoves, Zenon DEF TaskTypes, Inside, Outside
<1>4. ASSUME NEW label \in {"leaving", "fail"}, Goto(c, label), UNCHANGED <<work, tx>>,
             pc[c] \notin Outside
      PROVE  Moves(c) /\ Inside(c)
  <2>1. pc'[c] = label /\ label \in Steps
    BY <1>1, <1>4, GotoTask, Zenon DEF Steps
  <2>2. Control(c)'
    BY <1>1, <1>4, <2>1, Zenon DEF Control, Delivering, Answering
  <2> QED
    BY <1>1, <1>4, <2>1, <2>2, GotoMoves, Zenon DEF Inside, Outside
<1>5. CASE Query(c)
  BY <1>2, <1>5, Zenon DEF Query, Outside
<1>6. CASE KeepAlive(c)
  BY <1>1, <1>6, Zenon DEF KeepAlive, Moves, TaskTypes, Alone, TaskInv, Control, Inside, Outside
<1>7. CASE NatTest(c)
  BY <1>4, <1>7, Zenon DEF NatTest, Outside
<1>8. CASE RegisterDone(c)
  <2>1. UNCHANGED tx /\ pc[c] \notin Outside /\ (Done(c) \/ HangUp(c))
    BY <1>8, Zenon DEF RegisterDone, Outside
  <2> QED
    BY <1>1, <1>3, <2>1, DoneMoves, Zenon DEF TaskTypes, Inside, Outside
<1>9. CASE ReserveFails(c)
  BY <1>2, <1>3, <1>9, Zenon DEF ReserveFails, Outside
<1>10. CASE Undo(c)
  BY <1>2, <1>4, <1>10, Zenon DEF Undo, Outside
<1>11. CASE \E i \in Ids, kind \in Requested : RequestRefused(c, i, kind)
  BY <1>2, <1>4, <1>11, Zenon DEF RequestRefused, Outside
<1> QED
  BY <1>5, <1>6, <1>7, <1>8, <1>9, <1>10, <1>11, Zenon

\* The steps that take up a request, or give it its token.
LEMMA WorkMoves ==
  ASSUME Types, TaskInv, Links, NEW c \in Conns,
         \/ \E i \in Ids : Register(c, i)
         \/ \E i \in Ids, kind \in Requested : Request(c, i, kind)
         \/ \E t \in Tokens : Reserve(c, t)
  PROVE  Moves(c) /\ Inside(c)
<1>1. TaskTypes /\ c \in Tasks /\ c # Udp
  BY RoutingNames, Zenon DEF Types, TaskTypes, Tasks
<1>2. ASSUME NEW w \in Work, work' = [work EXCEPT ![c] = w],
             NEW label \in {"register", "reserve", "deliver"}, Goto(c, label),
             label = "deliver" => w.token # None, UNCHANGED tx, pc[c] \notin Outside
      PROVE  Moves(c) /\ Inside(c)
  <2>1. /\ pc' \in [Tasks -> Steps] /\ pc'[c] = label
        /\ \A q \in Tasks : q # c => pc'[q] = pc[q]
    BY <1>1, <1>2, GotoTask, Zenon DEF Steps
  <2>2. /\ work' \in [Tasks -> Opt(Work)] /\ work'[c] = w
        /\ \A q \in Tasks : q # c => work'[q] = work[q]
    BY <1>1, <1>2, Zenon DEF TaskTypes, Opt
  <2> QED
    BY <1>1, <1>2, <2>1, <2>2, NoneIsNoRecord, Zenon
    DEF Moves, TaskTypes, Alone, Control, Delivering, Answering, Inside, Outside
<1>3. ASSUME NEW i \in Ids, Register(c, i) PROVE Moves(c) /\ Inside(c)
  <2>1. conn[c].addr \in Addrs
    BY <1>3, Zenon DEF Register, Links, Types, Opt, Link
  <2>2. [id |-> i, kind |-> "direct", to |-> conn[c].addr, token |-> None] \in Work
    BY <2>1, Zenon DEF Work, Kinds, Opt
  <2> QED
    BY <1>2, <1>3, <2>2, Zenon DEF Register, Outside
<1>4. ASSUME NEW i \in Ids, NEW kind \in Requested, Request(c, i, kind)
      PROVE  Moves(c) /\ Inside(c)
  <2>1. [id |-> i, kind |-> kind, to |-> reg[i], token |-> None] \in Work
    BY <1>4, RoutingKinds, Zenon DEF Request, Online, Types, Work, Opt
  <2> QED
    BY <1>2, <1>4, <2>1, Zenon DEF Request, Outside
<1>5. ASSUME NEW t \in Tokens, Reserve(c, t) PROVE Moves(c) /\ Inside(c)
  <2> DEFINE w == [work[c] EXCEPT !.token = t]
  <2>1. work[c] \in Work
    BY <1>1, <1>5, Zenon DEF Reserve, TaskInv, Control, TaskTypes, Opt
  <2>2. w \in Work /\ w.token = t /\ t # None
    BY <2>1, RoutingNames, Zenon DEF Work, Opt
  <2>3. work' = [work EXCEPT ![c] = w]
    BY <1>5, Zenon DEF Reserve
  <2> QED
    BY <1>2, <1>5, <2>2, <2>3, Zenon DEF Reserve, Outside
<1> QED
  BY <1>3, <1>4, <1>5, Zenon

\* The steps that look up a sender, and those that use it.
LEMMA SenderMoves ==
  ASSUME Types, TaskInv, Links, NEW c \in Conns,
         \/ FindPeer(c) \/ Deliver(c) \/ DeliverFails(c)
         \/ FindSelf(c) \/ FailReply(c) \/ FailReplyFails(c)
  PROVE  Moves(c) /\ Inside(c)
<1>1. TaskTypes /\ c \in Tasks /\ c # Udp
  BY RoutingNames, Zenon DEF Types, TaskTypes, Tasks
<1>2. ASSUME NEW d \in Opt(Conns), Hold(c, d), UNCHANGED work, pc[c] \notin Outside,
             NEW label \in {"send", "undo", "failing"}, Goto(c, label),
             label \in {"send", "failing"} => d # None,
             label \in {"send", "undo"} => pc[c] \in Delivering
      PROVE  Moves(c) /\ Inside(c)
  <2>1. /\ pc' \in [Tasks -> Steps] /\ pc'[c] = label
        /\ \A q \in Tasks : q # c => pc'[q] = pc[q]
    BY <1>1, <1>2, GotoTask, Zenon DEF Steps
  <2>2. tx' \in [Tasks -> Opt(Conns)] /\ tx'[c] = d /\ \A q \in Tasks : q # c => tx'[q] = tx[q]
    BY <1>1, <1>2, HoldTask, Zenon
  <2>3. Control(c)'
    BY <1>1, <1>2, <2>1, <2>2, Zenon DEF TaskInv, Control, Delivering, Answering
  <2> QED
    BY <1>1, <1>2, <2>1, <2>2, <2>3, Zenon DEF Moves, TaskTypes, Alone, Inside, Outside
<1>3. ASSUME Hold(c, None), Done(c) \/ HangUp(c), pc[c] \notin Outside
      PROVE  Moves(c) /\ Inside(c)
  <2>1. tx' \in [Tasks -> Opt(Conns)] /\ \A q \in Tasks : q # c => tx'[q] = tx[q]
    BY <1>1, <1>3, HoldTask, Zenon DEF Opt
  <2> QED
    BY <1>1, <1>3, <2>1, DoneMoves, HangUpMoves, Zenon DEF Inside, Outside
<1>4. CASE FindPeer(c)
  <2>1. work[c] \in Work
    BY <1>1, <1>4, Zenon DEF FindPeer, TaskInv, Control, Delivering, TaskTypes, Opt
  <2>2. sinks[work[c].to] \in Opt(Conns)
    BY <2>1, Zenon DEF Types, Work
  <2> QED
    BY <1>2, <1>4, <2>2, Zenon DEF FindPeer, Outside, Delivering
<1>5. CASE DeliverFails(c)
  BY <1>2, <1>5, Zenon DEF DeliverFails, Outside, Delivering, Opt
<1>6. CASE FindSelf(c)
  <2>1. conn[c].addr \in Addrs
    BY <1>6, Zenon DEF FindSelf, Links, Types, Opt, Link
  <2>2. sinks[conn[c].addr] \in Opt(Conns)
    BY <2>1, Zenon DEF Types
  <2> QED
    BY <1>2, <1>6, <2>2, Zenon DEF FindSelf, Outside
<1>7. CASE Deliver(c) \/ FailReply(c) \/ FailReplyFails(c)
  BY <1>3, <1>7, Zenon DEF Deliver, FailReply, FailReplyFails, Outside
<1> QED
  BY <1>4, <1>5, <1>6, <1>7, Zenon

LEMMA RequestsMove ==
  ASSUME Types, TaskInv, Links, NEW c \in Conns, Requests(c)
  PROVE  Moves(c) /\ Inside(c)
<1>1. \/ \/ Query(c) \/ KeepAlive(c) \/ NatTest(c) \/ RegisterDone(c) \/ ReserveFails(c)
         \/ Undo(c) \/ \E i \in Ids, kind \in Requested : RequestRefused(c, i, kind)
      \/ \/ \E i \in Ids : Register(c, i)
         \/ \E i \in Ids, kind \in Requested : Request(c, i, kind)
         \/ \E t \in Tokens : Reserve(c, t)
      \/ \/ FindPeer(c) \/ Deliver(c) \/ DeliverFails(c)
         \/ FindSelf(c) \/ FailReply(c) \/ FailReplyFails(c)
  BY Zenon DEF Requests
<1> QED
  BY <1>1, PlainRequestsMove, WorkMoves, SenderMoves, Zenon

LEMMA NextTasks ==
  ASSUME Types, TaskInv, Links, [Next]_vars
  PROVE  TaskTypes' /\ TaskInv'
<1>1. CASE UNCHANGED <<pc, work, tx>>
  BY <1>1, Zenon DEF Types, TaskTypes, TaskInv, Control
<1>2. ASSUME NEW p \in Tasks, Moves(p) PROVE TaskTypes' /\ TaskInv'
  BY <1>2, MovesKeep, Zenon DEF Moves
<1>3. ASSUME NEW c \in Conns, Connection(c) \/ Requests(c) PROVE TaskTypes' /\ TaskInv'
  BY <1>2, <1>3, ConnectionMoves, RequestsMove, Zenon DEF Tasks
<1>4. ASSUME NEW p \in Tasks, Answers(p) PROVE TaskTypes' /\ TaskInv'
  BY <1>2, <1>4, AnswersMove, Zenon
<1> QED
  BY <1>1, <1>3, <1>4, Zenon DEF Next, vars, RegistrationLapses, TokenExpires
-----------------------------------------------------------------------------
(* The connections and their queues.                                       *)

IsQueues(q) == q \in [Conns -> Seq(Message)] /\ \A c \in Conns : Len(q[c]) <= QueueCapacity
LinkInv == conn \in [Conns -> Opt(Link)] /\ IsQueues(queue) /\ Links

\* No connection gets a queue or loses it.
Stays == \A c \in Conns : pc'[c] = pc[c] \/ (pc[c] \notin Outside /\ pc'[c] \notin Outside)

LEMMA InsideStays ==
  ASSUME NEW p \in Tasks, Moves(p), Inside(p)
  PROVE  Stays
  BY Zenon DEF Moves, Alone, Inside, Stays, Tasks

LEMMA Replies == \A type \in {"failure", "reply", "nat"} : Reply(type) \in Message
  BY Zenon DEF Reply, Message

LEMMA RoomInside ==
  ASSUME LinkInv, NEW d \in Conns, Room(d)
  PROVE  pc[d] \notin Outside
  BY Zenon DEF LinkInv, Links, Room

\* try_send: the queue stays within RENDEZVOUS_CONNECTION_QUEUE_CAPACITY.
LEMMA PushQueues ==
  ASSUME LinkInv, NEW d \in Conns, Room(d), NEW m \in Message
  PROVE  IsQueues([queue EXCEPT ![d] = Append(@, m)])
<1> DEFINE q == [queue EXCEPT ![d] = Append(@, m)]
<1>1. queue \in [Conns -> Seq(Message)] /\ Len(queue[d]) < QueueCapacity /\ QueueCapacity \in Nat
  BY RoutingBounds, Zenon DEF LinkInv, IsQueues, Room
<1>2. q[d] = Append(queue[d], m) /\ \A c \in Conns : c # d => q[c] = queue[c]
  BY <1>1, Zenon
<1>3. q[d] \in Seq(Message) /\ Len(q[d]) = Len(queue[d]) + 1 /\ Len(queue[d]) \in Nat
  BY <1>1, <1>2
<1>4. \A c \in Conns : Len(q[c]) <= QueueCapacity
  BY <1>1, <1>2, <1>3 DEF LinkInv, IsQueues
<1>5. q \in [Conns -> Seq(Message)]
  BY <1>1, <1>3, Zenon
<1> QED
  BY <1>4, <1>5, Zenon DEF IsQueues

LEMMA ClearQueues ==
  ASSUME NEW q, IsQueues(q), NEW d \in Conns
  PROVE  IsQueues([q EXCEPT ![d] = <<>>]) /\ [q EXCEPT ![d] = <<>>][d] = <<>>
  BY RoutingBounds DEF IsQueues

LEMMA SameLinks ==
  ASSUME LinkInv, UNCHANGED <<conn, queue>>, Stays
  PROVE  LinkInv'
  BY Zenon DEF LinkInv, IsQueues, Links, Stays, Outside

LEMMA PushLinks ==
  ASSUME LinkInv, Stays, UNCHANGED conn, NEW d \in Conns, Room(d), NEW m \in Message, Push(d, m)
  PROVE  LinkInv'
<1>1. IsQueues(queue')
  BY PushQueues, Zenon DEF Push
<1>2. \A c \in Conns : c # d => queue'[c] = queue[c]
  BY Zenon DEF Push, LinkInv, IsQueues
<1> QED
  BY <1>1, <1>2, RoomInside, Zenon DEF LinkInv, IsQueues, Links, Stays, Outside

\* The connection is told to stop: what is left is its writer, if any.
LEMMA StopLink ==
  ASSUME LinkInv, NEW c \in Conns, pc[c] \notin Outside,
         NEW rx \in {FALSE, conn[c].ws /\ conn[c].rx}
  PROVE  /\ [conn EXCEPT ![c].rx = rx] \in [Conns -> Opt(Link)]
         /\ [conn EXCEPT ![c].rx = rx][c] \in Link
         /\ \A d \in Conns : d # c => [conn EXCEPT ![c].rx = rx][d] = conn[d]
<1>1. conn \in [Conns -> Opt(Link)] /\ conn[c] \in Link
  BY Zenon DEF LinkInv, Links, Outside, Opt
<1>2. rx \in BOOLEAN
  BY <1>1, Zenon DEF Link
<1>3. [conn[c] EXCEPT !.rx = rx] \in Link
  BY <1>1, <1>2, Zenon DEF Link
<1> QED
  BY <1>1, <1>3, Zenon DEF Opt

LEMMA HangUpLinks ==
  ASSUME LinkInv, Stays, NEW c \in Conns, HangUp(c), pc[c] \notin Outside
  PROVE  LinkInv'
<1>1. IsQueues(queue') /\ \A d \in Conns : d # c => queue'[d] = queue[d]
  BY ClearQueues, Zenon DEF HangUp, LinkInv, IsQueues
<1>2. /\ conn' \in [Conns -> Opt(Link)] /\ conn'[c] \in Link
      /\ \A d \in Conns : d # c => conn'[d] = conn[d]
  <2>1. PICK rx \in {FALSE, conn[c].ws /\ conn[c].rx} : conn' = [conn EXCEPT ![c].rx = rx]
    BY Zenon DEF HangUp
  <2> QED
    BY <2>1, StopLink, Zenon
<1> QED
  BY <1>1, <1>2, NoneIsNoRecord, Zenon DEF LinkInv, IsQueues, Links, Stays, Outside

LEMMA ReplyLinks ==
  ASSUME LinkInv, Stays, NEW c \in Conns, NEW m \in Message, ReplyOrHangUp(c, m),
         pc[c] \notin Outside
  PROVE  LinkInv'
  BY PushLinks, HangUpLinks, Zenon DEF ReplyOrHangUp

LEMMA ConnectionLinks ==
  ASSUME Types, TaskInv, LinkInv, NEW c \in Conns, Connection(c)
  PROVE  LinkInv'
<1>1. Moves(c) /\ c \in Tasks
  BY ConnectionMoves, Zenon DEF Tasks
<1>2. /\ conn \in [Conns -> Opt(Link)] /\ queue \in [Conns -> Seq(Message)] /\ IsQueues(queue)
      /\ pc \in [Tasks -> Steps]
  BY Zenon DEF LinkInv, IsQueues, Types
<1>3. \A d \in Conns : d # c => pc'[d] = pc[d]
  BY <1>1, Zenon DEF Moves, Alone, Tasks
<1>4. ASSUME IsQueues(queue'), conn' \in [Conns -> Opt(Link)],
             \A d \in Conns : d # c => queue'[d] = queue[d] /\ conn'[d] = conn[d],
             conn'[c] = None <=> pc'[c] = "none",
             pc'[c] \in Outside => queue'[c] = <<>> /\ (conn'[c] # None => ~conn'[c].rx)
      PROVE  LinkInv'
  BY <1>3, <1>4, Zenon DEF LinkInv, IsQueues, Links
<1>5. ASSUME NEW label, Goto(c, label) PROVE pc'[c] = label
  BY <1>1, <1>2, <1>5, Zenon DEF Goto
<1>6. ASSUME NEW a \in Addrs, NEW ws \in BOOLEAN, Accept(c, a, ws) PROVE LinkInv'
  <2>1. conn' \in [Conns -> Opt(Link)] /\ conn'[c] \in Link /\ ~conn'[c].rx
    BY <1>2, <1>6, Zenon DEF Accept, Link, Opt
  <2>2. queue[c] = <<>> /\ UNCHANGED queue /\ pc'[c] = "handshake"
    BY <1>5, <1>6, Zenon DEF Accept, LinkInv, Links, Outside
  <2> QED
    BY <1>2, <1>4, <1>6, <2>1, <2>2, NoneIsNoRecord, Zenon DEF Accept, IsQueues
<1>7. CASE HandshakeFails(c)
  <2>1. conn' \in [Conns -> Opt(Link)] /\ conn'[c] = None
    BY <1>2, <1>7, Zenon DEF HandshakeFails, Opt
  <2>2. queue[c] = <<>> /\ UNCHANGED queue /\ pc'[c] = "none"
    BY <1>5, <1>7, Zenon DEF HandshakeFails, LinkInv, Links, Outside
  <2> QED
    BY <1>2, <1>4, <1>7, <2>1, <2>2, Zenon DEF HandshakeFails, IsQueues
<1>8. CASE HandshakeDone(c)
  <2>1. conn[c] \in Link
    BY <1>2, <1>8, Zenon DEF HandshakeDone, LinkInv, Links, Opt
  <2>2. conn' \in [Conns -> Opt(Link)] /\ conn'[c] \in Link
    BY <1>2, <1>8, <2>1, Zenon DEF HandshakeDone, Link, Opt
  <2>3. UNCHANGED queue /\ pc'[c] = "serving"
    BY <1>5, <1>8, Zenon DEF HandshakeDone
  <2> QED
    BY <1>2, <1>4, <1>8, <2>2, <2>3, NoneIsNoRecord, Zenon DEF HandshakeDone, IsQueues, Outside
<1>9. CASE Write(c)
  <2>1. queue[c] \in Seq(Message) /\ queue[c] # <<>>
    BY <1>2, <1>9, Zenon DEF Write
  <2>2. Tail(queue[c]) \in Seq(Message) /\ Len(Tail(queue[c])) <= Len(queue[c])
    BY <2>1
  <2>3. /\ queue' \in [Conns -> Seq(Message)] /\ queue'[c] = Tail(queue[c])
        /\ \A d \in Conns : d # c => queue'[d] = queue[d]
    BY <1>2, <1>9, <2>2, Zenon DEF Write
  <2>4. IsQueues(queue')
    <3>1. Len(queue[c]) \in Nat /\ Len(Tail(queue[c])) \in Nat /\ QueueCapacity \in Nat
      BY <2>1, <2>2, RoutingBounds
    <3>2. Len(queue'[c]) <= QueueCapacity
      BY <1>2, <2>2, <2>3, <3>1 DEF IsQueues
    <3> QED
      BY <1>2, <2>3, <3>2, Zenon DEF IsQueues
  <2> QED
    BY <1>2, <1>4, <1>9, <2>1, <2>3, <2>4, Zenon DEF Write, LinkInv, Links
<1>10. CASE WriterDies(c)
  <2>1. IsQueues(queue') /\ \A d \in Conns : d # c => queue'[d] = queue[d]
    BY <1>2, <1>10, ClearQueues, Zenon DEF WriterDies
  <2>2. conn[c] \in Link /\ pc[c] \notin Outside
    BY <1>2, <1>10, Zenon DEF WriterDies, LinkInv, Links, Outside, Opt
  <2>3. conn' \in [Conns -> Opt(Link)] /\ conn'[c] \in Link
    BY <1>2, <1>10, <2>2, Zenon DEF WriterDies, Link, Opt
  <2> QED
    BY <1>2, <1>4, <1>10, <2>1, <2>2, <2>3, NoneIsNoRecord, Zenon DEF WriterDies, Outside
<1>11. CASE Break(c)
  <2>1. pc[c] \notin Outside /\ HangUp(c) /\ pc'[c] = "closing"
    BY <1>5, <1>11, Zenon DEF Break, HangUp, Outside
  <2> QED
    BY <1>3, <2>1, HangUpLinks, Zenon DEF Stays, Outside
<1>12. CASE Cleanup(c)
  <2>1. IsQueues(queue') /\ queue'[c] = <<>> /\ \A d \in Conns : d # c => queue'[d] = queue[d]
    BY <1>2, <1>12, ClearQueues, Zenon DEF Cleanup
  <2>2. conn' \in [Conns -> Opt(Link)] /\ conn'[c] = None /\ pc'[c] = "none"
    BY <1>2, <1>5, <1>12, Zenon DEF Cleanup, Opt
  <2> QED
    BY <1>2, <1>4, <1>12, <2>1, <2>2, Zenon DEF Cleanup
<1> QED
  BY <1>6, <1>7, <1>8, <1>9, <1>10, <1>11, <1>12, Zenon DEF Connection

LEMMA RequestsLinks ==
  ASSUME Types, TaskInv, LinkInv, NEW c \in Conns, Requests(c)
  PROVE  LinkInv'
<1>1. Stays /\ pc[c] \notin Outside
  BY RequestsMove, InsideStays, Zenon DEF LinkInv, Tasks, Inside
<1>2. \A type \in {"failure", "reply", "nat"} : Reply(type) \in Message
  BY Replies, Zenon
<1>3. CASE Query(c)
  BY <1>1, <1>2, <1>3, ReplyLinks, Zenon DEF Query
<1>4. CASE KeepAlive(c)
  BY <1>1, <1>2, <1>4, PushLinks, Zenon DEF KeepAlive
<1>5. CASE NatTest(c)
  BY <1>1, <1>2, <1>5, PushLinks, SameLinks, Zenon DEF NatTest
<1>6. CASE RegisterDone(c)
  <2>1. CASE HangUp(c)
    BY <1>1, <2>1, HangUpLinks, Zenon
  <2>2. CASE ~HangUp(c)
    <3>1. PICK replies \in {<<>>, <<Reply("reply")>>, <<Reply("reply"), Reply("reply")>>} :
            /\ Len(queue[c] \o replies) <= QueueCapacity
            /\ queue' = [queue EXCEPT ![c] = @ \o replies]
            /\ UNCHANGED conn
      BY <1>6, <2>2, Zenon DEF RegisterDone
    <3>2. replies \in Seq(Message)
      <4> DEFINE r == Reply("reply")
      <4>1. r \in Message
        BY <1>2, Zenon
      <4> HIDE DEF r
      <4>2. <<>> \in Seq(Message) /\ <<r>> \in Seq(Message) /\ <<r, r>> \in Seq(Message)
        BY <4>1
      <4> QED
        BY <3>1, <4>2, Zenon DEF r
    <3>3. queue[c] \o replies \in Seq(Message)
      BY <3>2 DEF LinkInv, IsQueues
    <3>4. IsQueues(queue') /\ \A d \in Conns : d # c => queue'[d] = queue[d]
      BY <3>1, <3>3, Zenon DEF LinkInv, IsQueues
    <3> QED
      BY <1>1, <3>1, <3>4, Zenon DEF LinkInv, Links, Stays, Outside
  <2> QED
    BY <2>1, <2>2, Zenon
<1>7. CASE ReserveFails(c)
  BY <1>1, <1>2, <1>7, ReplyLinks, HangUpLinks, Zenon DEF ReserveFails
<1>8. CASE Undo(c)
  BY <1>1, <1>2, <1>8, ReplyLinks, SameLinks, Zenon DEF Undo
<1>9. CASE \E i \in Ids, kind \in Requested : RequestRefused(c, i, kind)
  BY <1>1, <1>2, <1>9, ReplyLinks, SameLinks, Zenon DEF RequestRefused
<1>10. CASE Deliver(c)
  <2>1. tx[c] \in Conns
    BY <1>10, Zenon DEF Deliver, TaskInv, Control, Types, Tasks, Opt
  <2>2. work[c] \in Work /\ work[c].token \in Tokens
    BY <1>10, Zenon DEF Deliver, TaskInv, Control, Delivering, Types, Tasks, Opt, Work
  <2>3. Carrying("request", work[c]) \in Message
    BY <2>2, Zenon DEF Carrying, Work, Message
  <2> QED
    BY <1>1, <1>10, <2>1, <2>3, PushLinks, Zenon DEF Deliver
<1>11. CASE FailReply(c)
  <2>1. tx[c] \in Conns
    BY <1>11, Zenon DEF FailReply, TaskInv, Control, Types, Tasks, Opt
  <2> QED
    BY <1>1, <1>2, <1>11, <2>1, PushLinks, Zenon DEF FailReply
<1>12. CASE FailReplyFails(c)
  BY <1>1, <1>12, HangUpLinks, Zenon DEF FailReplyFails
<1>13. CASE \/ \E i \in Ids : Register(c, i)
            \/ \E i \in Ids, kind \in Requested : Request(c, i, kind)
            \/ \E t \in Tokens : Reserve(c, t)
            \/ FindPeer(c) \/ DeliverFails(c) \/ FindSelf(c)
  <2>1. UNCHANGED <<conn, queue>>
    BY <1>13, Zenon DEF Register, Request, Reserve, FindPeer, DeliverFails, FindSelf
  <2> QED
    BY <1>1, <2>1, SameLinks, Zenon
<1> QED
  BY <1>3, <1>4, <1>5, <1>6, <1>7, <1>8, <1>9, <1>10, <1>11, <1>12, <1>13, Zenon DEF Requests

LEMMA AnswersLinks ==
  ASSUME Types, TaskInv, LinkInv, NEW p \in Tasks, Answers(p)
  PROVE  LinkInv'
<1>1. Stays /\ (p \in Conns => pc[p] \notin Outside) /\ (p # Udp => p \in Conns)
  BY AnswersMove, InsideStays, Zenon DEF Inside, Tasks
<1>2. ASSUME NEW t \in Tokens, ConsumeExpired(p, t) PROVE LinkInv'
  BY <1>1, <1>2, SameLinks, HangUpLinks, Zenon DEF ConsumeExpired
<1>3. ASSUME NEW t \in Tokens, NEW i \in Ids, NEW a \in Addrs, NEW kind \in Kinds,
             Consume(p, t, i, a, kind)
      PROVE  LinkInv'
  BY <1>1, <1>3, SameLinks, Zenon DEF Consume
<1>4. CASE TakeSink(p)
  BY <1>1, <1>4, SameLinks, Zenon DEF TakeSink
<1>5. CASE SendAnswer(p)
  <2> DEFINE full == IF tx[p] # None /\ Room(tx[p])
                     THEN [queue EXCEPT ![tx[p]] = Append(@, Carrying("answer", work[p]))]
                     ELSE queue
  <2>1. work[p] \in Work /\ work[p].token \in Tokens
    BY <1>5, Zenon DEF SendAnswer, TaskInv, Control, Answering, Types, Opt, Work
  <2>2. Carrying("answer", work[p]) \in Message
    BY <2>1, Zenon DEF Carrying, Work, Message
  <2>3. IsQueues(full) /\ \A c \in Conns : pc[c] \in Outside => full[c] = <<>>
    <3>1. CASE tx[p] # None /\ Room(tx[p])
      <4>1. tx[p] \in Conns
        BY <3>1, Zenon DEF Types, Opt
      <4>2. pc[tx[p]] \notin Outside
        BY <3>1, <4>1, RoomInside, Zenon
      <4>3. full = [queue EXCEPT ![tx[p]] = Append(@, Carrying("answer", work[p]))]
        BY <3>1, Zenon
      <4>4. \A c \in Conns : c # tx[p] => full[c] = queue[c]
        BY <4>3, Zenon DEF LinkInv, IsQueues
      <4>5. IsQueues(full)
        BY <2>2, <3>1, <4>1, <4>3, PushQueues, Zenon
      <4> QED
        BY <4>2, <4>4, <4>5, Zenon DEF LinkInv, Links
    <3>2. CASE ~(tx[p] # None /\ Room(tx[p]))
      BY <3>2, Zenon DEF LinkInv, Links
    <3> QED
      BY <3>1, <3>2, Zenon
  <2>4. CASE p = Udp
    <3>1. queue' = full /\ UNCHANGED conn
      BY <1>5, <2>4, Zenon DEF SendAnswer
    <3> HIDE DEF full
    <3> QED
      BY <1>1, <2>3, <3>1, Zenon DEF LinkInv, IsQueues, Links, Stays, Outside
  <2>5. CASE p # Udp
    <3>1. PICK rx \in {FALSE, conn[p].ws /\ conn[p].rx} : conn' = [conn EXCEPT ![p].rx = rx]
      BY <1>5, <2>5, Zenon DEF SendAnswer
    <3>2. /\ conn' \in [Conns -> Opt(Link)] /\ conn'[p] \in Link
          /\ \A d \in Conns : d # p => conn'[d] = conn[d]
      BY <1>1, <2>5, <3>1, StopLink, Zenon
    <3>3. queue' = [full EXCEPT ![p] = <<>>]
      BY <1>5, <2>5, Zenon DEF SendAnswer
    <3> HIDE DEF full
    <3>4. IsQueues(queue') /\ \A d \in Conns : d # p => queue'[d] = full[d]
      BY <1>1, <2>3, <2>5, <3>3, ClearQueues, Zenon DEF IsQueues
    <3> QED
      BY <1>1, <2>3, <2>5, <3>2, <3>4, NoneIsNoRecord, Zenon DEF LinkInv, IsQueues, Links, Stays, Outside
  <2> QED
    BY <2>4, <2>5, Zenon
<1> QED
  BY <1>2, <1>3, <1>4, <1>5, Zenon DEF Answers

LEMMA NextLinks ==
  ASSUME Types, TaskInv, LinkInv, [Next]_vars
  PROVE  LinkInv'
<1>1. CASE UNCHANGED <<conn, pc, queue>>
  BY <1>1, SameLinks, Zenon DEF Stays
<1> QED
  BY <1>1, ConnectionLinks, RequestsLinks, AnswersLinks, Zenon
  DEF Next, vars, RegistrationLapses, TokenExpires

-----------------------------------------------------------------------------
(* The tables.                                                             *)

\* While a connection lives its address does not change.
KeepsAddr == \A d \in Conns : conn[d] # None /\ conn'[d] # None => conn'[d].addr = conn[d].addr

LEMMA LinkShapes ==
  ASSUME LinkInv, NEW c \in Conns,
         \/ UNCHANGED conn
         \/ conn' = [conn EXCEPT ![c] = None]
         \/ \E rx : conn' = [conn EXCEPT ![c].rx = rx]
         \/ conn[c] = None /\ \E l : conn' = [conn EXCEPT ![c] = l]
  PROVE  KeepsAddr
<1>1. conn \in [Conns -> Opt(Link)]
  BY Zenon DEF LinkInv
<1>2. CASE UNCHANGED conn \/ conn' = [conn EXCEPT ![c] = None]
  BY <1>1, <1>2, Zenon DEF KeepsAddr
<1>3. ASSUME NEW rx, conn' = [conn EXCEPT ![c].rx = rx] PROVE KeepsAddr
  <2>1. conn[c] # None => conn'[c].addr = conn[c].addr
    BY <1>1, <1>3, Zenon DEF Opt, Link
  <2> QED
    BY <1>1, <1>3, <2>1, Zenon DEF KeepsAddr
<1>4. ASSUME NEW l, conn[c] = None, conn' = [conn EXCEPT ![c] = l] PROVE KeepsAddr
  BY <1>1, <1>4, Zenon DEF KeepsAddr
<1> QED
  BY <1>2, <1>3, <1>4, Zenon

LEMMA NextKeepsAddr ==
  ASSUME LinkInv, [Next]_vars
  PROVE  KeepsAddr
<1>1. CASE UNCHANGED conn
  BY <1>1, Zenon DEF KeepsAddr
<1>2. ASSUME NEW c \in Conns, HangUp(c) PROVE KeepsAddr
  BY <1>2, LinkShapes, Zenon DEF HangUp
<1>3. ASSUME NEW c \in Conns, Connection(c) PROVE KeepsAddr
  <2>1. ASSUME NEW a \in Addrs, NEW ws \in BOOLEAN, Accept(c, a, ws) PROVE KeepsAddr
    <3>1. conn[c] = None
      BY <2>1, Zenon DEF Accept, LinkInv, Links
    <3> QED
      BY <2>1, <3>1, LinkShapes, Zenon DEF Accept
  <2>2. CASE HandshakeFails(c) \/ HandshakeDone(c) \/ WriterDies(c) \/ Cleanup(c)
    BY <2>2, LinkShapes, Zenon DEF HandshakeFails, HandshakeDone, WriterDies, Cleanup
  <2>3. CASE Write(c) \/ Break(c)
    BY <1>1, <1>2, <2>3, Zenon DEF Write, Break
  <2> QED
    BY <1>3, <2>1, <2>2, <2>3, Zenon DEF Connection
<1>4. ASSUME NEW c \in Conns, Requests(c) PROVE KeepsAddr
  <2>1. UNCHANGED conn \/ HangUp(c)
    BY <1>4, Zenon DEF Requests, Query, KeepAlive, NatTest, Register, RegisterDone, Request,
                RequestRefused, Reserve, ReserveFails, FindPeer, Deliver, DeliverFails, Undo,
                FindSelf, FailReply, FailReplyFails, ReplyOrHangUp
  <2> QED
    BY <1>1, <1>2, <1>4, <2>1, Zenon
<1>5. ASSUME NEW p \in Tasks, Answers(p) PROVE KeepsAddr
  <2>1. UNCHANGED conn \/ (p \in Conns /\ (HangUp(p) \/ \E rx : conn' = [conn EXCEPT ![p].rx = rx]))
    BY <1>5, Zenon DEF Answers, Consume, ConsumeExpired, TakeSink, SendAnswer, Tasks
  <2> QED
    BY <1>1, <1>2, <1>5, <2>1, LinkShapes, Zenon
<1> QED
  BY <1>1, <1>3, <1>4, <1>5, Zenon DEF Next, vars, RegistrationLapses, TokenExpires

LEMMA SinkFrame ==
  ASSUME sinks \in [Addrs -> Opt(Conns)], SinksLive, LinkInv', KeepsAddr,
         \A a \in Addrs : sinks'[a] # None /\ sinks'[a] = sinks[a] => pc'[sinks[a]] \notin Outside,
         \A a \in Addrs : sinks'[a] # None /\ sinks'[a] # sinks[a] =>
           /\ sinks'[a] \in Conns /\ pc'[sinks'[a]] \notin Outside
           /\ conn'[sinks'[a]] # None => conn'[sinks'[a]].addr = a
  PROVE  SinksLive'
<1> SUFFICES ASSUME NEW a \in Addrs, sinks'[a] # None
             PROVE  /\ conn'[sinks'[a]] # None /\ conn'[sinks'[a]].addr = a
                    /\ pc'[sinks'[a]] \notin Outside
  BY Zenon DEF SinksLive, Outside
<1>1. sinks'[a] \in Conns /\ pc'[sinks'[a]] \notin Outside
  BY Zenon DEF Opt
<1>2. conn'[sinks'[a]] # None
  BY <1>1, Zenon DEF LinkInv, Links, Outside
<1> QED
  BY <1>1, <1>2, Zenon DEF SinksLive, KeepsAddr

\* UndeliveredForgotten is kept where no token is added and no delivery ends.
LEMMA DeliveryFrame ==
  ASSUME UndeliveredForgotten, Awaited' \subseteq Awaited, sent \subseteq sent',
         \A c \in Conns : pc[c] \in Delivering =>
           pc'[c] \in Delivering /\ work'[c] = work[c]
  PROVE  UndeliveredForgotten'
  BY DEF UndeliveredForgotten, Awaited, Delivering

\* Removing tokens.
LEMMA ShrinkLimits ==
  ASSUME Limits, Awaited' \subseteq Awaited, IsQueues(queue')
  PROVE  Limits'
<1>1. IsFiniteSet(Awaited') /\ Cardinality(Awaited') <= Cardinality(Awaited)
  BY FS_Subset, Zenon DEF Limits
<1>2. Cardinality(Awaited) \in Nat /\ Cardinality(Awaited') \in Nat /\ PendingCapacity \in Nat
  BY <1>1, FS_CardinalityType, RoutingBounds, Zenon DEF Limits
<1> QED
  BY <1>1, <1>2 DEF Limits, IsQueues
TableTypes ==
  /\ sinks \in [Addrs -> Opt(Conns)] /\ pending \in [Tokens -> Opt(Entry)]
  /\ reg \in [Ids -> Opt(Addrs)] /\ asked \in [Tokens -> Opt(Entry)] /\ sent \subseteq Tokens
TableInv == TableTypes /\ Limits /\ SinksLive /\ UndeliveredForgotten

LEMMA RouteParts == RouteInv <=> TaskTypes /\ TaskInv /\ LinkInv /\ TableInv
  BY Zenon DEF RouteInv, Types, Limits, TaskTypes, LinkInv, IsQueues, TableInv, TableTypes

\* What every step keeps of the tasks and connections.
LEMMA StepFacts ==
  ASSUME RouteInv, [Next]_vars
  PROVE  /\ Types /\ TaskTypes' /\ TaskInv' /\ LinkInv /\ LinkInv' /\ IsQueues(queue')
         /\ KeepsAddr /\ TableInv
<1>1. Types /\ TaskInv /\ Links /\ LinkInv /\ TableInv
  BY RouteParts, Zenon DEF RouteInv
<1> QED
  BY <1>1, NextTasks, NextLinks, NextKeepsAddr, Zenon DEF LinkInv, IsQueues

\* A step that adds no token and ends no delivery.
LEMMA TableFrame ==
  ASSUME RouteInv, [Next]_vars, Awaited' \subseteq Awaited, TableTypes', SinksLive',
         sent \subseteq sent',
         \A c \in Conns : pc[c] \in Delivering => pc'[c] \in Delivering /\ work'[c] = work[c]
  PROVE  TableInv'
  BY StepFacts, ShrinkLimits, DeliveryFrame, Zenon DEF TableInv

LEMMA SinksStay ==
  ASSUME RouteInv, [Next]_vars, Stays, \A a \in Addrs : sinks'[a] \in {sinks[a], None}
  PROVE  SinksLive'
<1>1. sinks \in [Addrs -> Opt(Conns)] /\ SinksLive
  BY Zenon DEF RouteInv, Types
<1>2. \A a \in Addrs : sinks[a] # None => sinks[a] \in Conns /\ pc[sinks[a]] \notin Outside
  BY <1>1, Zenon DEF SinksLive, Opt, Outside
<1> QED
  BY <1>1, <1>2, StepFacts, SinkFrame, Zenon DEF Stays

LEMMA ConnectionTables ==
  ASSUME RouteInv, [Next]_vars, NEW c \in Conns, Connection(c)
  PROVE  TableInv'
<1>1. /\ Types /\ LinkInv /\ LinkInv' /\ KeepsAddr /\ sinks \in [Addrs -> Opt(Conns)] /\ SinksLive
      /\ c \in Tasks /\ pc \in [Tasks -> Steps]
  BY StepFacts, Zenon DEF Types, TableInv, Tasks
<1>2. UNCHANGED <<pending, reg, asked, sent>>
  BY Zenon DEF Connection, Accept, HandshakeFails, HandshakeDone, Write, WriterDies, Break, Cleanup,
         history
<1>3. Moves(c) /\ \A d \in Conns : d # c => pc'[d] = pc[d] /\ work'[d] = work[d]
  BY <1>1, ConnectionMoves, Zenon DEF Moves, Alone, Tasks, RouteInv
<1>4. pc[c] \in Delivering => UNCHANGED <<pc, work>>
  BY Zenon DEF Connection, Accept, HandshakeFails, HandshakeDone, Write, WriterDies, Break, Cleanup,
         Delivering
<1>5. \A a \in Addrs : sinks[a] # None => /\ sinks[a] \in Conns /\ pc[sinks[a]] \notin Outside
                                          /\ conn[sinks[a]] # None /\ conn[sinks[a]].addr = a
  BY <1>1, Zenon DEF SinksLive, Opt, Outside
<1>6. ASSUME NEW a \in Addrs, NEW ws \in BOOLEAN, Accept(c, a, ws)
      PROVE  sinks' \in [Addrs -> Opt(Conns)] /\ SinksLive'
  <2>1. UNCHANGED sinks /\ pc[c] = "none"
    BY <1>6, Zenon DEF Accept
  <2> QED
    BY <1>1, <1>3, <1>5, <2>1, SinkFrame, Zenon DEF Outside
<1>7. ASSUME HandshakeFails(c) PROVE sinks' \in [Addrs -> Opt(Conns)] /\ SinksLive'
  <2>1. UNCHANGED sinks /\ pc[c] = "handshake"
    BY <1>7, Zenon DEF HandshakeFails
  <2> QED
    BY <1>1, <1>3, <1>5, <2>1, SinkFrame, Zenon DEF Outside
<1>8. ASSUME HandshakeDone(c) PROVE sinks' \in [Addrs -> Opt(Conns)] /\ SinksLive'
  <2>1. /\ pc[c] = "handshake" /\ pc'[c] = "serving" /\ conn[c] # None /\ conn[c].addr \in Addrs
    BY <1>1, <1>8, Zenon DEF HandshakeDone, Goto, LinkInv, Links, Opt, Link
  <2>2. /\ sinks' \in [Addrs -> Opt(Conns)] /\ sinks'[conn[c].addr] = c
        /\ \A a \in Addrs : a # conn[c].addr => sinks'[a] = sinks[a]
    BY <1>1, <1>8, <2>1, Zenon DEF HandshakeDone, SetSink, Opt
  <2>3. \A a \in Addrs : sinks'[a] # None /\ sinks'[a] = sinks[a] => pc'[sinks[a]] \notin Outside
    BY <1>3, <1>5, <2>1, Zenon DEF Outside
  <2>4. \A a \in Addrs : sinks'[a] # None /\ sinks'[a] # sinks[a] =>
          /\ sinks'[a] \in Conns /\ pc'[sinks'[a]] \notin Outside
          /\ conn'[sinks'[a]] # None => conn'[sinks'[a]].addr = a
    BY <1>1, <2>1, <2>2 DEF Outside, KeepsAddr
  <2> QED
    BY <1>1, <2>2, <2>3, <2>4, SinkFrame, Zenon
<1>9. ASSUME Write(c) \/ WriterDies(c) \/ Break(c)
      PROVE sinks' \in [Addrs -> Opt(Conns)] /\ SinksLive'
  <2>1. UNCHANGED sinks
    BY <1>9, Zenon DEF Write, WriterDies, Break
  <2>2. Stays
    <3>1. pc'[c] = pc[c] \/ (pc[c] \notin Outside /\ pc'[c] \notin Outside)
      BY <1>1, <1>9, Zenon DEF Write, WriterDies, Break, HangUp, Goto, Outside
    <3> QED
      BY <1>3, <3>1, Zenon DEF Stays
  <2> QED
    BY <1>1, <2>1, <2>2, SinksStay, Zenon
<1>10. ASSUME Cleanup(c) PROVE sinks' \in [Addrs -> Opt(Conns)] /\ SinksLive'
  <2>1. sinks' \in [Addrs -> Opt(Conns)] /\ \A a \in Addrs : sinks'[a] \in {sinks[a], None}
    BY <1>1, <1>10, Zenon DEF Cleanup, Opt
  <2>2. \A a \in Addrs : sinks'[a] # None => sinks'[a] = sinks[a] /\ sinks[a] # c
    BY <1>5, <1>10, Zenon DEF Cleanup
  <2> QED
    BY <1>1, <1>3, <1>5, <2>1, <2>2, SinkFrame, Zenon
<1>11. TableTypes' /\ SinksLive'
  BY <1>1, <1>2, <1>6, <1>7, <1>8, <1>9, <1>10, Zenon DEF TableTypes, Types, Connection
<1> QED
  BY <1>2, <1>3, <1>4, <1>11, TableFrame, Zenon DEF Awaited

\* reserve_pending_rendezvous: what has expired is dropped.
LEMMA RetainedTypes ==
  ASSUME pending \in [Tokens -> Opt(Entry)]
  PROVE  /\ Retained \in [Tokens -> Opt(Entry)]
         /\ {t \in Tokens : Retained[t] # None} = Current
         /\ Current \subseteq Awaited
  BY Zenon DEF Retained, Current, Awaited, Opt

LEMMA RequestsTables ==
  ASSUME RouteInv, [Next]_vars, NEW c \in Conns, Requests(c)
  PROVE  TableInv'
<1>1. /\ Types /\ LinkInv /\ LinkInv' /\ KeepsAddr /\ sinks \in [Addrs -> Opt(Conns)] /\ SinksLive
      /\ TableTypes /\ TaskInv /\ TaskTypes' /\ c \in Tasks /\ IsQueues(queue')
  BY StepFacts, Zenon DEF Types, TableInv, Tasks, RouteInv
<1>2. /\ Stays /\ pc[c] \notin Outside /\ pc'[c] \notin Outside
      /\ \A d \in Conns : d # c => pc'[d] = pc[d] /\ work'[d] = work[d]
  BY <1>1, RequestsMove, InsideStays, Zenon DEF LinkInv, Inside, Moves, Alone, Tasks
<1>3. conn[c] \in Link /\ conn[c].addr \in Addrs
  BY <1>1, <1>2, Zenon DEF LinkInv, Links, Outside, Opt, Link
<1>4. UNCHANGED sinks => SinksLive'
  BY <1>2, SinksStay, Zenon
<1>5. ASSUME \/ Query(c) \/ KeepAlive(c) \/ NatTest(c) \/ RegisterDone(c)
             \/ \E i \in Ids, kind \in Requested : Request(c, i, kind) \/ RequestRefused(c, i, kind)
             \/ FindPeer(c) \/ DeliverFails(c) \/ FindSelf(c) \/ FailReply(c) \/ FailReplyFails(c)
      PROVE  TableInv'
  <2>1. UNCHANGED <<sinks, pending, asked, sent>>
    BY <1>5, Zenon DEF Query, KeepAlive, NatTest, RegisterDone, Request, RequestRefused, FindPeer,
                DeliverFails, FindSelf, FailReply, FailReplyFails, history
  <2>2. reg' \in [Ids -> Opt(Addrs)]
    <3>1. CASE RegisterDone(c)
      <4>1. work[c] \in Work
        BY <1>1, <3>1, Zenon DEF RegisterDone, TaskInv, Control, Types, Opt
      <4> QED
        BY <1>1, <1>3, <3>1, <4>1, Zenon DEF RegisterDone, TableTypes, Work, Opt
    <3>2. CASE ~RegisterDone(c)
      <4>1. UNCHANGED reg
        BY <1>5, <3>2, Zenon DEF Query, KeepAlive, NatTest, Request, RequestRefused, FindPeer,
                          DeliverFails, FindSelf, FailReply, FailReplyFails
      <4> QED
        BY <1>1, <4>1, Zenon DEF TableTypes
    <3> QED
      BY <3>1, <3>2, Zenon
  <2>3. pc[c] \in Delivering => pc'[c] \in Delivering /\ work'[c] = work[c]
    BY <1>1, <1>5, Zenon DEF Query, KeepAlive, NatTest, RegisterDone, Request, RequestRefused, FindPeer,
                DeliverFails, FindSelf, FailReply, FailReplyFails, Delivering, Goto, Types
  <2> QED
    BY <1>1, <1>2, <1>4, <2>1, <2>2, <2>3, TableFrame, Zenon DEF TableTypes, Awaited
<1>6. ASSUME NEW i \in Ids, Register(c, i) PROVE TableInv'
  <2>1. /\ UNCHANGED <<pending, reg, asked, sent>> /\ pc[c] = "serving"
        /\ sinks' = [sinks EXCEPT ![conn[c].addr] = c]
    BY <1>6, Zenon DEF Register, SetSink
  <2>2. /\ sinks' \in [Addrs -> Opt(Conns)] /\ sinks'[conn[c].addr] = c
        /\ \A a \in Addrs : a # conn[c].addr => sinks'[a] = sinks[a]
    BY <1>1, <1>3, <2>1, Zenon DEF Opt
  <2>3. \A a \in Addrs : sinks'[a] # None /\ sinks'[a] = sinks[a] => pc'[sinks[a]] \notin Outside
    BY <1>1, <1>2 DEF SinksLive, Opt, Outside, Stays
  <2>4. \A a \in Addrs : sinks'[a] # None /\ sinks'[a] # sinks[a] =>
          /\ sinks'[a] \in Conns /\ pc'[sinks'[a]] \notin Outside
          /\ conn'[sinks'[a]] # None => conn'[sinks'[a]].addr = a
    BY <1>1, <1>2, <1>3, <2>2, NoneIsNoRecord, SMTT(30) DEF KeepsAddr
  <2>5. SinksLive'
    BY <1>1, <2>3, <2>4, SinkFrame, Zenon
  <2> QED
    BY <1>1, <1>2, <2>1, <2>2, <2>5, TableFrame, Zenon DEF TableTypes, Awaited, Delivering
<1>7. ASSUME NEW t \in Tokens, Reserve(c, t) PROVE TableInv'
  <2> DEFINE e == [requester |-> conn[c].addr, id |-> work[c].id, kind |-> work[c].kind,
                   old |-> FALSE]
  <2>1. /\ pc[c] = "reserve" /\ Cardinality(Current) < PendingCapacity /\ asked[t] = None
        /\ pending' = [Retained EXCEPT ![t] = e] /\ asked' = [asked EXCEPT ![t] = e]
        /\ work' = [work EXCEPT ![c].token = t] /\ Goto(c, "deliver")
        /\ UNCHANGED <<sinks, reg, sent>>
    BY <1>7, Zenon DEF Reserve
  <2>2. work[c] \in Work
    BY <1>1, <2>1, Zenon DEF TaskInv, Control, Types, Opt
  <2>3. e \in Entry
    BY <1>3, <2>2, Zenon DEF Entry, Work
  <2> HIDE DEF e
  <2>4. /\ Retained \in [Tokens -> Opt(Entry)] /\ Current \subseteq Awaited
        /\ {s \in Tokens : Retained[s] # None} = Current
    BY <1>1, RetainedTypes, Zenon DEF TableTypes
  <2>5. TableTypes'
    BY <1>1, <2>1, <2>3, <2>4, Zenon DEF TableTypes, Opt
  <2>6. Awaited' = Current \cup {t}
    BY <2>1, <2>3, <2>4, NoneIsNoRecord, Zenon DEF Awaited
  <2>7. Limits'
    <3>1. IsFiniteSet(Current) /\ Cardinality(Current) \in Nat /\ PendingCapacity \in Nat
      BY <2>4, FS_Subset, FS_CardinalityType, RoutingBounds, Zenon DEF RouteInv, Limits
    <3>2. IsFiniteSet(Current \cup {t}) /\ Cardinality(Current \cup {t}) <= Cardinality(Current) + 1
      BY <3>1, FS_AddElement
    <3>3. Cardinality(Current \cup {t}) \in Nat
      BY <3>2, FS_CardinalityType, Zenon
    <3> QED
      BY <1>1, <2>1, <2>6, <3>1, <3>2, <3>3 DEF Limits, IsQueues
  <2>8. pc'[c] = "deliver" /\ work'[c].token = t
    BY <1>1, <2>1, <2>2, Zenon DEF Types, Goto, Work
  <2>9. UndeliveredForgotten'
    <3> SUFFICES ASSUME NEW s \in Tokens, pending'[s] # None
                 PROVE  \/ s \in sent'
                        \/ \E d \in Conns : pc'[d] \in Delivering /\ work'[d].token = s
      BY Zenon DEF UndeliveredForgotten, Delivering
    <3>1. CASE s = t
      BY <2>8, <3>1, Zenon DEF Delivering
    <3>2. CASE s # t
      <4>1. pending[s] # None
        BY <2>4, <2>6, <3>2, Zenon DEF Awaited
      <4>2. s \in sent \/ \E d \in Conns : pc[d] \in Delivering /\ work[d].token = s
        BY <4>1, Zenon DEF RouteInv, UndeliveredForgotten, Delivering
      <4> QED
        BY <1>2, <2>1, <4>2, Zenon DEF Delivering
    <3> QED
      BY <3>1, <3>2, Zenon
  <2> QED
    BY <1>4, <2>1, <2>5, <2>7, <2>9, Zenon DEF TableInv
<1>8. ASSUME ReserveFails(c) PROVE TableInv'
  <2>1. pending' = Retained /\ UNCHANGED <<sinks, reg, asked, sent>> /\ pc[c] = "reserve"
    BY <1>8, Zenon DEF ReserveFails, history
  <2>2. pending' \in [Tokens -> Opt(Entry)] /\ Awaited' \subseteq Awaited
    BY <1>1, <2>1, RetainedTypes, Zenon DEF TableTypes, Awaited
  <2> QED
    BY <1>1, <1>2, <1>4, <2>1, <2>2, TableFrame, Zenon DEF TableTypes, Delivering
<1>9. ASSUME Deliver(c) PROVE TableInv'
  <2>1. /\ UNCHANGED <<sinks, pending, reg, asked>> /\ sent' = sent \cup {work[c].token}
        /\ pc[c] = "send"
    BY <1>9, Zenon DEF Deliver
  <2>2. work[c] \in Work /\ work[c].token \in Tokens
    BY <1>1, <2>1, Zenon DEF TaskInv, Control, Types, Opt, Delivering, Work
  <2>3. TableTypes' /\ Awaited' = Awaited
    BY <1>1, <2>1, <2>2, Zenon DEF TableTypes, Awaited
  <2>4. Limits'
    BY <1>1, <2>3, ShrinkLimits, Zenon DEF RouteInv
  <2>5. UndeliveredForgotten'
    <3> SUFFICES ASSUME NEW t \in Tokens, pending'[t] # None, t \notin sent'
                 PROVE  \E d \in Conns : pc'[d] \in Delivering /\ work'[d].token = t
      BY Zenon DEF UndeliveredForgotten, Delivering
    <3>1. pending[t] # None /\ t \notin sent /\ t # work[c].token
      BY <2>1, Zenon
    <3>2. PICK d \in Conns : pc[d] \in Delivering /\ work[d].token = t
      BY <3>1, Zenon DEF RouteInv, UndeliveredForgotten, Delivering
    <3>3. d # c
      BY <3>1, <3>2, Zenon
    <3> QED
      BY <1>2, <3>2, <3>3, Zenon
  <2> QED
    BY <1>4, <2>1, <2>3, <2>4, <2>5, Zenon DEF TableInv
<1>10. ASSUME Undo(c) PROVE TableInv'
  <2>1. /\ pending' = [pending EXCEPT ![work[c].token] = None] /\ pc[c] = "undo"
        /\ UNCHANGED <<sinks, reg, asked, sent>>
    BY <1>10, Zenon DEF Undo, history
  <2>2. work[c] \in Work /\ work[c].token \in Tokens
    BY <1>1, <2>1, Zenon DEF TaskInv, Control, Types, Opt, Delivering, Work
  <2>3. TableTypes' /\ Awaited' = Awaited \ {work[c].token}
    BY <1>1, <2>1, <2>2, Zenon DEF TableTypes, Awaited, Opt
  <2>4. Limits'
    BY <1>1, <2>3, ShrinkLimits, Zenon DEF RouteInv
  <2>5. UndeliveredForgotten'
    BY <1>2, <2>1, <2>3 DEF RouteInv, UndeliveredForgotten, Awaited
  <2> QED
    BY <1>4, <2>1, <2>3, <2>4, <2>5, Zenon DEF TableInv
<1> QED
  BY <1>5, <1>6, <1>7, <1>8, <1>9, <1>10, Zenon DEF Requests

\* Answers and the passing of time only remove sinks and tokens.
LEMMA AnswersTables ==
  ASSUME RouteInv, [Next]_vars, NEW p \in Tasks, Answers(p)
  PROVE  TableInv'
<1>1. Types /\ TaskInv /\ TableTypes
  BY StepFacts, Zenon DEF TableInv, RouteInv
<1>2. /\ Stays
      /\ \A d \in Conns : d # p => pc'[d] = pc[d] /\ work'[d] = work[d]
  BY <1>1, AnswersMove, InsideStays, Zenon DEF Moves, Alone, Tasks
<1>3. pc[p] \notin Delivering
  BY Zenon DEF Answers, Consume, ConsumeExpired, TakeSink, SendAnswer, Delivering
<1>4. UNCHANGED <<reg, asked, sent>>
  BY Zenon DEF Answers, Consume, ConsumeExpired, TakeSink, SendAnswer, history
<1>5. UNCHANGED pending \/ \E t \in Tokens : pending' = [pending EXCEPT ![t] = None]
  BY Zenon DEF Answers, Consume, ConsumeExpired, TakeSink, SendAnswer
<1>6. pending' \in [Tokens -> Opt(Entry)] /\ Awaited' \subseteq Awaited
  BY <1>1, <1>5, Zenon DEF TableTypes, Awaited, Opt
<1>7. sinks' \in [Addrs -> Opt(Conns)] /\ \A a \in Addrs : sinks'[a] \in {sinks[a], None}
  <2>1. CASE TakeSink(p)
    BY <1>1, <2>1, Zenon DEF TakeSink, SetSink, TableTypes, Opt
  <2>2. CASE ~TakeSink(p)
    <3>1. UNCHANGED sinks
      BY <2>2, Zenon DEF Answers, Consume, ConsumeExpired, SendAnswer
    <3> QED
      BY <1>1, <3>1, Zenon DEF TableTypes
  <2> QED
    BY <2>1, <2>2, Zenon
<1>8. SinksLive'
  BY <1>2, <1>7, SinksStay, Zenon
<1> QED
  BY <1>1, <1>2, <1>3, <1>4, <1>6, <1>7, <1>8, TableFrame, Zenon DEF TableTypes

LEMMA TimeTables ==
  ASSUME RouteInv, [Next]_vars,
         \/ \E i \in Ids : RegistrationLapses(i)
         \/ \E t \in Tokens : TokenExpires(t)
         \/ UNCHANGED vars
  PROVE  TableInv'
<1>1. TableTypes
  BY StepFacts, Zenon DEF TableInv
<1>2. UNCHANGED <<conn, pc, work, sinks, asked, sent>>
  BY Zenon DEF RegistrationLapses, TokenExpires, vars, history
<1>3. reg' \in [Ids -> Opt(Addrs)]
  BY <1>1, Zenon DEF RegistrationLapses, TokenExpires, vars, TableTypes, Opt
<1>4. pending' \in [Tokens -> Opt(Entry)] /\ Awaited' \subseteq Awaited
  <2>1. CASE UNCHANGED pending
    BY <1>1, <2>1, Zenon DEF TableTypes, Awaited
  <2>2. ASSUME NEW t \in Tokens, TokenExpires(t)
        PROVE  pending' \in [Tokens -> Opt(Entry)] /\ Awaited' \subseteq Awaited
    <3>1. pending[t] \in Entry /\ t \in Awaited
      BY <1>1, <2>2, Zenon DEF TokenExpires, Current, TableTypes, Opt, Awaited
    <3>2. [pending[t] EXCEPT !.old = TRUE] \in Entry
      BY <3>1, Zenon DEF Entry
    <3> QED
      BY <1>1, <2>2, <3>1, <3>2, Zenon DEF TokenExpires, TableTypes, Opt, Awaited
  <2> QED
    BY <2>1, <2>2, Zenon DEF RegistrationLapses, vars
<1>5. SinksLive'
  BY <1>2, SinksStay, Zenon DEF Stays
<1> QED
  BY <1>1, <1>2, <1>3, <1>4, <1>5, TableFrame, Zenon DEF TableTypes

LEMMA NextRoute == RouteInv /\ [Next]_vars => RouteInv'
<1> SUFFICES ASSUME RouteInv, [Next]_vars PROVE RouteInv'
  BY Zenon
<1>1. TableInv'
  BY ConnectionTables, RequestsTables, AnswersTables, TimeTables, Zenon DEF Next
<1>2. (TaskTypes /\ TaskInv /\ LinkInv)'
  BY StepFacts, Zenon
<1>3. (RouteInv <=> TaskTypes /\ TaskInv /\ LinkInv /\ TableInv)'
  BY RouteParts, PTL
<1> QED
  BY <1>1, <1>2, <1>3, Zenon

LEMMA AlwaysRoute == Spec => []RouteInv
  BY InitRoute, NextRoute, PTL DEF Spec

\* Every sink in tcp_punch belongs to a connection of that address that is still
\* being served: handle_listener_inner removes its sink when it ends.
THEOREM SinksOfTheLiving == Spec => []SinksLive
<1>1. RouteInv => SinksLive
  BY Zenon DEF RouteInv
<1> QED
  BY <1>1, AlwaysRoute, PTL

\* A token whose request reached no queue leaves pending_rendezvous with the
\* handler that reserved it (handle_tcp_punch_hole_request, RequestRelay).
THEOREM NoTokenLeftBehind == Spec => []UndeliveredForgotten
<1>1. RouteInv => UndeliveredForgotten
  BY Zenon DEF RouteInv
<1> QED
  BY <1>1, AlwaysRoute, PTL
-----------------------------------------------------------------------------
(* Clients stay reachable.                                                 *)

ReachInv == displaced \subseteq Conns /\ StaysReachable

\* A connection keeps its address while it has a queue.
LEMMA SameAddr ==
  ASSUME RouteInv, [Next]_vars, NEW d \in Conns, pc[d] \notin Outside, pc'[d] \notin Outside
  PROVE  conn[d].addr \in Addrs /\ conn'[d].addr = conn[d].addr
<1>1. LinkInv /\ LinkInv' /\ KeepsAddr
  BY StepFacts, Zenon
<1>2. conn[d] # None /\ conn'[d] # None
  BY <1>1, Zenon DEF LinkInv, Links, Outside
<1>3. conn[d] \in Link
  BY <1>1, <1>2, Zenon DEF LinkInv, Opt
<1> QED
  BY <1>1, <1>2, <1>3, Zenon DEF KeepsAddr, Link

LEMMA SinksKept ==
  ASSUME RouteInv, ReachInv, [Next]_vars, UNCHANGED <<sinks, displaced>>,
         \A d \in Conns : pc'[d] \notin Outside => pc[d] \notin Outside
  PROVE  ReachInv'
  BY SameAddr, Zenon DEF ReachInv, StaysReachable, Outside

\* Whoever is replaced is displaced, and whoever puts its sink in is found.
LEMMA SinkSet ==
  ASSUME RouteInv, ReachInv, [Next]_vars, NEW a \in Addrs, NEW new \in Opt(Conns), SetSink(a, new),
         new # None => conn'[new].addr = a,
         \A d \in Conns : d # new /\ pc'[d] \notin Outside => pc[d] \notin Outside
  PROVE  ReachInv'
<1>1. sinks \in [Addrs -> Opt(Conns)] /\ None \notin Conns
  BY RoutingNames, Zenon DEF RouteInv, Types
<1>2. /\ sinks'[a] = new /\ \A b \in Addrs : b # a => sinks'[b] = sinks[b]
      /\ displaced' = (displaced \cup ({sinks[a]} \cap Conns)) \ {new}
  BY <1>1, Zenon DEF SetSink
<1>3. displaced' \subseteq Conns
  BY <1>2, Zenon DEF ReachInv
<1>4. ASSUME NEW d \in Conns, pc'[d] \notin Outside
      PROVE  sinks'[conn'[d].addr] = d \/ d \in displaced'
  <2>1. CASE d = new
    BY <1>1, <1>2, <2>1, Zenon
  <2>2. CASE d # new
    <3>1. pc[d] \notin Outside
      BY <1>4, <2>2, Zenon
    <3>2. conn[d].addr \in Addrs /\ conn'[d].addr = conn[d].addr
      BY <1>4, <3>1, SameAddr, Zenon
    <3>3. sinks[conn[d].addr] = d \/ d \in displaced
      BY <3>1, Zenon DEF ReachInv, StaysReachable, Outside
    <3> QED
      BY <1>2, <2>2, <3>2, <3>3, Zenon
  <2> QED
    BY <2>1, <2>2, Zenon
<1> QED
  BY <1>3, <1>4, Zenon DEF ReachInv, StaysReachable, Outside

LEMMA ConnectionReach ==
  ASSUME RouteInv, ReachInv, [Next]_vars, NEW c \in Conns, Connection(c)
  PROVE  ReachInv'
<1>1. Types /\ TaskInv /\ Links /\ LinkInv /\ LinkInv' /\ KeepsAddr /\ c \in Tasks
  BY StepFacts, Zenon DEF RouteInv, Tasks
<1>2. pc \in [Tasks -> Steps] /\ \A d \in Conns : d # c => pc'[d] = pc[d]
  BY <1>1, ConnectionMoves, Zenon DEF Moves, Alone, Tasks, Types
<1>3. ASSUME NEW a \in Addrs, NEW ws \in BOOLEAN, Accept(c, a, ws) PROVE ReachInv'
  <2>1. UNCHANGED <<sinks, displaced>> /\ pc'[c] \in Outside
    BY <1>1, <1>2, <1>3, Zenon DEF Accept, history, Goto, Outside
  <2> QED
    BY <1>2, <2>1, SinksKept, Zenon
<1>4. CASE HandshakeFails(c)
  <2>1. UNCHANGED <<sinks, displaced>> /\ pc'[c] \in Outside
    BY <1>1, <1>2, <1>4, Zenon DEF HandshakeFails, history, Goto, Outside
  <2> QED
    BY <1>2, <2>1, SinksKept, Zenon
<1>5. CASE HandshakeDone(c)
  <2>1. /\ pc[c] = "handshake" /\ pc'[c] = "serving" /\ conn[c] # None /\ conn[c].addr \in Addrs
    BY <1>1, <1>2, <1>5, Zenon DEF HandshakeDone, Goto, LinkInv, Links, Opt, Link
  <2>2. conn'[c] # None
    BY <1>1, <2>1, Zenon DEF LinkInv, Links
  <2>3. conn'[c].addr = conn[c].addr
    BY <1>1, <2>1, <2>2, Zenon DEF KeepsAddr
  <2>4. SetSink(conn[c].addr, c) /\ c \in Opt(Conns)
    BY <1>5, Zenon DEF HandshakeDone, Opt
  <2> QED
    BY <1>2, <2>1, <2>3, <2>4, SinkSet, Zenon
<1>6. CASE Write(c) \/ WriterDies(c) \/ Break(c)
  <2>1. UNCHANGED <<sinks, displaced>>
    BY <1>6, Zenon DEF Write, WriterDies, Break, history
  <2>2. pc'[c] = pc[c] \/ pc[c] \notin Outside
    BY <1>6, Zenon DEF Write, WriterDies, Break, Outside
  <2> QED
    BY <1>2, <2>1, <2>2, SinksKept, Zenon
<1>7. CASE Cleanup(c)
  <2>1. /\ pc'[c] = "none" /\ displaced' = displaced \ {c}
        /\ \A a \in Addrs : sinks[a] # c => sinks'[a] = sinks[a]
    BY <1>1, <1>2, <1>7, Zenon DEF Cleanup, Goto
  <2>2. displaced' \subseteq Conns
    BY <2>1, Zenon DEF ReachInv
  <2>3. ASSUME NEW d \in Conns, pc'[d] \notin Outside
        PROVE  sinks'[conn'[d].addr] = d \/ d \in displaced'
    <3>1. d # c /\ pc[d] \notin Outside
      BY <1>2, <2>1, <2>3, Zenon DEF Outside
    <3>2. conn[d].addr \in Addrs /\ conn'[d].addr = conn[d].addr
      BY <2>3, <3>1, SameAddr, Zenon
    <3>3. sinks[conn[d].addr] = d \/ d \in displaced
      BY <3>1, Zenon DEF ReachInv, StaysReachable, Outside
    <3> QED
      BY <2>1, <3>1, <3>2, <3>3, Zenon
  <2> QED
    BY <2>2, <2>3, Zenon DEF ReachInv, StaysReachable, Outside
<1> QED
  BY <1>3, <1>4, <1>5, <1>6, <1>7, Zenon DEF Connection

LEMMA RequestsReach ==
  ASSUME RouteInv, ReachInv, [Next]_vars, NEW c \in Conns, Requests(c)
  PROVE  ReachInv'
<1>1. Types /\ TaskInv /\ Links /\ c \in Tasks
  BY StepFacts, Zenon DEF RouteInv, Tasks
<1>2. /\ pc[c] \notin Outside /\ pc'[c] \notin Outside
      /\ \A d \in Conns : pc'[d] \notin Outside => pc[d] \notin Outside
  BY <1>1, RequestsMove, InsideStays, Zenon DEF Inside, Stays
<1>3. ASSUME NEW i \in Ids, Register(c, i) PROVE ReachInv'
  <2>1. SetSink(conn[c].addr, c) /\ c \in Opt(Conns)
    BY <1>3, Zenon DEF Register, Opt
  <2> QED
    BY <1>2, <2>1, SameAddr, SinkSet, Zenon
<1>4. ASSUME \A i \in Ids : ~Register(c, i) PROVE UNCHANGED <<sinks, displaced>>
  BY <1>4, Zenon DEF Requests, Query, KeepAlive, NatTest, RegisterDone, Request, RequestRefused, Reserve,
              ReserveFails, FindPeer, Deliver, DeliverFails, Undo, FindSelf, FailReply, FailReplyFails,
              history
<1> QED
  BY <1>2, <1>3, <1>4, SinksKept, Zenon

LEMMA AnswersReach ==
  ASSUME RouteInv, ReachInv, [Next]_vars, NEW p \in Tasks, Answers(p)
  PROVE  ReachInv'
<1>1. Types /\ TaskInv
  BY StepFacts, Zenon DEF RouteInv
<1>2. \A d \in Conns : pc'[d] \notin Outside => pc[d] \notin Outside
  BY <1>1, AnswersMove, InsideStays, Zenon DEF Stays
<1>3. CASE TakeSink(p)
  <2>1. work[p] \in Work
    BY <1>1, <1>3, Zenon DEF TakeSink, TaskInv, Control, Answering, Types, Opt
  <2>2. work[p].to \in Addrs /\ SetSink(work[p].to, None) /\ None \in Opt(Conns)
    BY <1>3, <2>1, Zenon DEF TakeSink, Work, Opt
  <2> QED
    BY <1>2, <2>2, SinkSet, Zenon
<1>4. CASE ~TakeSink(p)
  <2>1. UNCHANGED <<sinks, displaced>>
    BY <1>4, Zenon DEF Answers, Consume, ConsumeExpired, SendAnswer, history
  <2> QED
    BY <1>2, <2>1, SinksKept, Zenon
<1> QED
  BY <1>3, <1>4, Zenon

LEMMA NextReach == RouteInv /\ ReachInv /\ [Next]_vars => ReachInv'
<1> SUFFICES ASSUME RouteInv, ReachInv, [Next]_vars PROVE ReachInv'
  BY Zenon
<1>1. CASE \/ \E i \in Ids : RegistrationLapses(i)
           \/ \E t \in Tokens : TokenExpires(t)
           \/ UNCHANGED vars
  <2>1. UNCHANGED <<sinks, displaced, pc>>
    BY <1>1, Zenon DEF RegistrationLapses, TokenExpires, vars, history
  <2> QED
    BY <2>1, SinksKept, Zenon
<1> QED
  BY <1>1, ConnectionReach, RequestsReach, AnswersReach, Zenon DEF Next

LEMMA AlwaysReach == Spec => []ReachInv
<1>1. Init => ReachInv
  BY RoutingNames, Zenon DEF Init, ReachInv, StaysReachable, Tasks
<1> QED
  BY <1>1, NextReach, AlwaysRoute, PTL DEF Spec

\* As long as a connection lives, tcp_punch leads from its address to it, unless
\* a later connection of the address replaced it or an answer went through it
\* since it last registered: the ends of any number of other connections of
\* the address, in any order, never cut it off (still_current in
\* handle_listener_inner).
THEOREM ClientsStayReachable == Spec => []StaysReachable
<1>1. ReachInv => StaysReachable
  BY Zenon DEF ReachInv
<1> QED
  BY <1>1, AlwaysReach, PTL

\* The queues never hold more than RENDEZVOUS_CONNECTION_QUEUE_CAPACITY messages
\* and pending_rendezvous never more than PENDING_RENDEZVOUS_CAPACITY tokens,
\* whatever handlers run between two of its locks.
THEOREM RoutingTypes == Spec => []TypeOK
<1>1. RouteInv /\ ReachInv => TypeOK
  BY Zenon DEF RouteInv, Types, Limits, ReachInv, TypeOK, Awaited
<1> QED
  BY <1>1, AlwaysRoute, AlwaysReach, PTL

-----------------------------------------------------------------------------
(* Steps.                                                                  *)

\* Only a step of its own moves a task.
LEMMA OwnStep ==
  ASSUME RouteInv, [Next]_vars, NEW c \in Conns, pc'[c] # pc[c]
  PROVE  Connection(c) \/ Requests(c) \/ Answers(c)
<1>1. Types /\ TaskInv /\ Links
  BY Zenon DEF RouteInv
<1>2. ASSUME NEW d \in Conns, Connection(d) \/ Requests(d) PROVE d = c
  <2>1. Moves(d)
    BY <1>1, <1>2, ConnectionMoves, RequestsMove, Zenon
  <2> QED
    BY <2>1, Zenon DEF Moves, Alone, Tasks
<1>3. ASSUME NEW p \in Tasks, Answers(p) PROVE p = c
  <2>1. Moves(p)
    BY <1>1, <1>3, AnswersMove, Zenon
  <2> QED
    BY <2>1, Zenon DEF Moves, Alone, Tasks
<1> QED
  BY <1>2, <1>3, Zenon DEF Next, vars, RegistrationLapses, TokenExpires

Requesting == {"reserve", "deliver", "send", "undo", "fail", "failing"}
Told == \E d \in Conns : queue'[d] = Append(queue[d], Reply("failure"))

LEMMA PushTells ==
  ASSUME LinkInv, NEW d \in Conns, Push(d, Reply("failure"))
  PROVE  Told
  BY Zenon DEF Push, Told, LinkInv, IsQueues

LEMMA RequestEnds ==
  ASSUME RouteInv, [Next]_vars, NEW c \in Conns, pc[c] \in Requesting, pc'[c] = "serving"
  PROVE  (work[c] # None /\ work[c].token \in sent') \/ Told
<1>1. Types /\ TaskInv /\ LinkInv /\ c \in Tasks /\ pc \in [Tasks -> Steps]
  BY StepFacts, Zenon DEF RouteInv, Types, Tasks
<1>2. \A label : Goto(c, label) => pc'[c] = label
  BY <1>1, Zenon DEF Goto
<1>3. Requests(c)
  <2>1. Connection(c) \/ Requests(c) \/ Answers(c)
    BY OwnStep, Zenon DEF Requesting
  <2>2. ~Connection(c) /\ ~Answers(c)
    BY <1>2, Zenon DEF Requesting, Connection, Accept, HandshakeFails, HandshakeDone, Write, WriterDies,
                Break, Cleanup, Answers, Consume, ConsumeExpired, TakeSink, SendAnswer
  <2> QED
    BY <2>1, <2>2, Zenon
<1>4. \/ ReserveFails(c) \/ Deliver(c) \/ Undo(c) \/ FailReply(c)
  <2>1. ~HangUp(c)
    BY <1>2, Zenon DEF HangUp
  <2> QED
    BY <1>2, <1>3, <2>1, Zenon
    DEF Requesting, Requests, Query, KeepAlive, NatTest, Register, RegisterDone, Request,
        RequestRefused, Reserve, FindPeer, DeliverFails, FindSelf, FailReplyFails
<1>5. ASSUME ReplyOrHangUp(c, Reply("failure")) PROVE Told
  BY <1>1, <1>2, <1>5, PushTells, Zenon DEF ReplyOrHangUp, HangUp
<1>6. CASE ReserveFails(c) \/ Undo(c)
  BY <1>2, <1>5, <1>6, Zenon DEF ReserveFails, Undo, HangUp
<1>7. CASE Deliver(c)
  BY <1>1, <1>7, Zenon DEF Deliver, TaskInv, Control, Delivering
<1>8. CASE FailReply(c)
  <2>1. tx[c] \in Conns
    BY <1>1, <1>8, Zenon DEF FailReply, TaskInv, Control, Types, Opt
  <2> QED
    BY <1>1, <1>8, <2>1, PushTells, Zenon DEF FailReply
<1> QED
  BY <1>4, <1>6, <1>7, <1>8, Zenon

\* A connection goes on to serve its client only when the request it handled was
\* handed to the queue of the peer or a failure put into a queue: every
\* other way out of handle_punch_hole_request and RequestRelay closes it.
THEOREM NoRequestSwallowed == Spec => RequestNeverSilent
<1>1. RouteInv /\ [Next]_vars =>
        [\A c \in Conns :
           pc[c] \in {"reserve", "deliver", "send", "undo", "fail", "failing"} /\ pc'[c] = "serving" =>
             \/ work[c] # None /\ work[c].token \in sent'
             \/ \E d \in Conns : queue'[d] = Append(queue[d], Reply("failure"))]_vars
  BY RequestEnds, Zenon DEF Requesting, Told
<1> QED
  BY <1>1, AlwaysRoute, PTL DEF Spec, RequestNeverSilent
=============================================================================
