------------------------- MODULE RendezvousRouting -------------------------
(***************************************************************************)
(* How the identity server routes connection requests: the control         *)
(* connections and their bounded queues, the table tcp_punch that leads    *)
(* from an address to a queue, and the one-time tokens of                  *)
(* pending_rendezvous that tie the answer of a peer to the request.        *)
(*                                                                         *)
(* Every handler is cut where it gives up the lock it holds: between the   *)
(* steps of one connection any other connection, the UDP socket and time   *)
(* may act.  The registry of peers is reduced to the addresses of the      *)
(* fresh registrations; PeerRegistry models the rest of it.                *)
(***************************************************************************)
EXTENDS Naturals, Sequences, FiniteSets

CONSTANTS
  Conns, Addrs, Ids, Tokens,
  Udp,              \* the task that reads the UDP socket
  Slots,            \* permits of connection_slots
  QueueCapacity,    \* RENDEZVOUS_CONNECTION_QUEUE_CAPACITY
  PendingCapacity,  \* PENDING_RENDEZVOUS_CAPACITY
  WebSocket,        \* whether clients use the WebSocket listener
  SharedAddrs,      \* whether live connections may have one address: two listeners,
                    \* a proxy, a client that came back before the old one timed out
  Requested,        \* the kinds of requests that clients make
  None

ASSUME RoutingNames == Udp \notin Conns /\ None \notin Conns \cup Addrs \cup Tokens
ASSUME RoutingBounds ==
  {Slots, QueueCapacity, PendingCapacity} \subseteq Nat /\ {WebSocket, SharedAddrs} \subseteq BOOLEAN

Kinds == {"direct", "local", "relay"}
ASSUME RoutingKinds == Requested \subseteq Kinds

VARIABLES
  conn,     \* address and listener of a connection; rx: its queue has a reader
  pc,       \* where the task of a connection, or the UDP task, is
  work,     \* the request or answer that it is handling
  tx,       \* the sender that it has cloned or taken out of tcp_punch
  queue,    \* messages to be written to the client
  sinks,    \* tcp_punch
  pending,  \* pending_rendezvous
  reg,      \* socket_addr of the peers that registered within 30 s; that of the others
            \* is never read before last_reg_time
  asked,    \* history: the request each token was issued for
  sent,     \* history: tokens whose request was handed to the peer's queue
  displaced \* history: connections whose sink was replaced or used since they last
            \* put it into tcp_punch

vars == <<conn, pc, work, tx, queue, sinks, pending, reg, asked, sent, displaced>>
history == <<asked, sent, displaced>>

Opt(S) == S \cup {None}
Link == [addr : Addrs, ws : BOOLEAN, rx : BOOLEAN]
Entry == [requester : Addrs, id : Ids, kind : Kinds, old : BOOLEAN]
Work == [id : Ids, kind : Kinds, to : Addrs, token : Opt(Tokens)]
Message == [type : {"request", "answer"}, id : Ids, kind : Kinds, token : Tokens]
             \cup [type : {"failure", "reply", "nat"}]

ASSUME NoneIsNoRecord == None \notin Link /\ None \notin Entry /\ None \notin Work

Steps == {"none", "handshake", "serving", "register", "reserve", "deliver", "send", "undo",
          "fail", "failing", "answer", "push", "leaving", "closing"}
Tasks == Conns \cup {Udp}

TypeOK ==
  /\ conn \in [Conns -> Opt(Link)]
  /\ pc \in [Tasks -> Steps]
  /\ work \in [Tasks -> Opt(Work)]
  /\ tx \in [Tasks -> Opt(Conns)]
  /\ queue \in [Conns -> Seq(Message)]
  /\ \A c \in Conns : Len(queue[c]) <= QueueCapacity
  /\ sinks \in [Addrs -> Opt(Conns)]
  /\ pending \in [Tokens -> Opt(Entry)]
  /\ Cardinality({t \in Tokens : pending[t] # None}) <= PendingCapacity
  /\ reg \in [Ids -> Opt(Addrs)]
  /\ asked \in [Tokens -> Opt(Entry)]
  /\ sent \subseteq Tokens /\ displaced \subseteq Conns

Init ==
  /\ conn = [c \in Conns |-> None]
  /\ pc = [p \in Tasks |-> IF p = Udp THEN "serving" ELSE "none"]
  /\ work = [p \in Tasks |-> None]
  /\ tx = [p \in Tasks |-> None]
  /\ queue = [c \in Conns |-> <<>>]
  /\ sinks = [a \in Addrs |-> None]
  /\ pending = [t \in Tokens |-> None]
  /\ reg = [i \in Ids |-> None]
  /\ asked = [t \in Tokens |-> None]
  /\ sent = {} /\ displaced = {}

Reply(type) == [type |-> type]
Carrying(type, w) == [type |-> type, id |-> w.id, kind |-> w.kind, token |-> w.token]

\* Mutant of Room: the queue is taken to be unbounded.
RoomUnbounded(c) == conn[c] # None /\ conn[c].rx

\* try_send succeeds: the queue has a reader and a free place.
Room(c) == conn[c] # None /\ conn[c].rx /\ Len(queue[c]) < QueueCapacity

Push(c, m) == queue' = [queue EXCEPT ![c] = Append(@, m)]
Goto(p, label) == pc' = [pc EXCEPT ![p] = label]
Hold(p, c) == tx' = [tx EXCEPT ![p] = c]
Done(p) == Goto(p, "serving") /\ work' = [work EXCEPT ![p] = None]

\* tcp_punch gets, for an address, another sink or none.
SetSink(a, c) ==
  /\ sinks' = [sinks EXCEPT ![a] = c]
  /\ displaced' = (displaced \cup ({sinks[a]} \cap Conns)) \ {c}

\* The loop of the connection ends.  Its queue is dropped; the writer of a
\* WebSocket connection is only told to stop and may still take messages.
\* What it takes then is lost with the queue.
HangUp(c) ==
  /\ Goto(c, "closing")
  /\ work' = [work EXCEPT ![c] = None]
  /\ queue' = [queue EXCEPT ![c] = <<>>]
  /\ \E rx \in {FALSE, conn[c].ws /\ conn[c].rx} : conn' = [conn EXCEPT ![c].rx = rx]

-----------------------------------------------------------------------------
(* handle_listener and handle_listener_inner.                              *)

\* The name of a past connection is used again once nobody holds its sender.
Accept(c, a, ws) ==
  /\ pc[c] = "none"
  /\ \A p \in Tasks : tx[p] # c
  /\ Cardinality({d \in Conns : pc[d] # "none"}) < Slots
  /\ ws => WebSocket
  /\ ~SharedAddrs => \A d \in Conns : conn[d] # None => conn[d].addr # a
  /\ conn' = [conn EXCEPT ![c] = [addr |-> a, ws |-> ws, rx |-> FALSE]]
  /\ Goto(c, "handshake")
  /\ UNCHANGED <<work, queue, sinks, pending, reg, tx, history>>

\* The upgrade or the key exchange fails or takes longer than 8 s.
HandshakeFails(c) ==
  /\ pc[c] = "handshake"
  /\ conn' = [conn EXCEPT ![c] = None]
  /\ Goto(c, "none")
  /\ UNCHANGED <<work, queue, sinks, pending, reg, tx, history>>

HandshakeDone(c) ==
  /\ pc[c] = "handshake"
  /\ conn' = [conn EXCEPT ![c].rx = TRUE]
  /\ SetSink(conn[c].addr, c)
  /\ Goto(c, "serving")
  /\ UNCHANGED <<work, queue, pending, reg, tx, asked, sent>>

\* A TCP connection writes between two messages it reads, a WebSocket
\* connection has a task that writes.
Write(c) ==
  /\ queue[c] # <<>>
  /\ pc[c] = "serving" \/ (conn[c].ws /\ conn[c].rx)
  /\ queue' = [queue EXCEPT ![c] = Tail(@)]
  /\ UNCHANGED <<conn, pc, work, sinks, pending, reg, tx, history>>

\* The writing task of a WebSocket connection ends at an error; the loop that
\* reads does not notice.
WriterDies(c) ==
  /\ pc[c] \notin {"none", "handshake"} /\ conn[c].ws /\ conn[c].rx
  /\ conn' = [conn EXCEPT ![c].rx = FALSE]
  /\ queue' = [queue EXCEPT ![c] = <<>>]
  /\ UNCHANGED <<pc, work, sinks, pending, reg, tx, history>>

\* 30 s without a message, a read or write error, a message that cannot be
\* parsed or is refused.
Break(c) ==
  /\ pc[c] \in {"serving", "leaving"}
  /\ HangUp(c)
  /\ UNCHANGED <<sinks, pending, reg, tx, history>>

\* Mutant of Cleanup: the sink is removed whoever owns it.
CleanupAnySink(c) ==
  /\ pc[c] = "closing"
  /\ sinks' = [sinks EXCEPT ![conn[c].addr] = None]
  /\ conn' = [conn EXCEPT ![c] = None]
  /\ queue' = [queue EXCEPT ![c] = <<>>]
  /\ displaced' = displaced \ {c}
  /\ Goto(c, "none")
  /\ UNCHANGED <<work, pending, reg, tx, asked, sent>>

\* Mutant of Cleanup: the sink is left in the table.
CleanupNoSink(c) ==
  /\ pc[c] = "closing"
  /\ conn' = [conn EXCEPT ![c] = None]
  /\ queue' = [queue EXCEPT ![c] = <<>>]
  /\ displaced' = displaced \ {c}
  /\ Goto(c, "none")
  /\ UNCHANGED <<work, sinks, pending, reg, tx, asked, sent>>

\* The last step of handle_listener_inner: still_current.
Cleanup(c) ==
  /\ pc[c] = "closing"
  /\ sinks' = [a \in Addrs |->
       IF a = conn[c].addr /\ sinks[a] = c THEN None ELSE sinks[a]]
  /\ conn' = [conn EXCEPT ![c] = None]
  /\ queue' = [queue EXCEPT ![c] = <<>>]
  /\ displaced' = displaced \ {c}
  /\ Goto(c, "none")
  /\ UNCHANGED <<work, pending, reg, tx, asked, sent>>

-----------------------------------------------------------------------------
(* handle_tcp_msg: requests.                                               *)

\* send_to_sink on the connection's own queue; if it fails, the loop ends.
ReplyOrHangUp(c, m) ==
  \/ Room(c) /\ Push(c, m) /\ Done(c) /\ UNCHANGED conn
  \/ ~Room(c) /\ HangUp(c)

\* OnlineRequest, HttpProxyRequest: one reply.
Query(c) ==
  /\ pc[c] = "serving"
  /\ ReplyOrHangUp(c, Reply("reply"))
  /\ UNCHANGED <<sinks, pending, reg, tx, history>>

\* start_health_check_keepalive: a task of its own that holds a sender, for
\* every client that asked for it.
KeepAlive(c) ==
  /\ pc[c] \notin {"none", "handshake"} /\ Room(c)
  /\ Push(c, Reply("reply"))
  /\ UNCHANGED <<conn, pc, work, sinks, pending, reg, tx, history>>

\* TestNatRequest: the reply is put into the queue, and the handler returns
\* false.
NatTest(c) ==
  /\ pc[c] = "serving"
  /\ \/ Room(c) /\ Push(c, Reply("nat"))
     \/ ~Room(c) /\ UNCHANGED queue
  /\ Goto(c, "leaving")
  /\ UNCHANGED <<conn, work, sinks, pending, reg, tx, history>>

\* RegisterPeer and RegisterPk first put the sink back into tcp_punch.
Register(c, i) ==
  /\ pc[c] = "serving"
  /\ SetSink(conn[c].addr, c)
  /\ work' = [work EXCEPT ![c] =
       [id |-> i, kind |-> "direct", to |-> conn[c].addr, token |-> None]]
  /\ Goto(c, "register")
  /\ UNCHANGED <<conn, queue, pending, reg, tx, asked, sent>>

\* The registry records the address, or not (PeerRegistry says when).  The
\* reply to RegisterPk may be none, that to RegisterPeer may have a second
\* message with a newer configuration; an error, or no room, ends the loop.
RegisterDone(c) ==
  /\ pc[c] = "register"
  /\ reg' \in {reg, [reg EXCEPT ![work[c].id] = conn[c].addr]}
  /\ \/ \E replies \in {<<>>, <<Reply("reply")>>, <<Reply("reply"), Reply("reply")>>} :
          /\ replies # <<>> => Room(c)
          /\ Len(queue[c] \o replies) <= QueueCapacity
          /\ queue' = [queue EXCEPT ![c] = @ \o replies]
          /\ Done(c) /\ UNCHANGED conn
     \/ HangUp(c)
  /\ UNCHANGED <<sinks, pending, tx, history>>

Online(i) == reg[i] # None

\* Bound: the model has a fresh token for every request it lets in.
TokenLeft ==
  Cardinality({t \in Tokens : asked[t] = None}) > Cardinality({c \in Conns : pc[c] = "reserve"})

\* PunchHoleRequest and RequestRelay look the peer up.  Which of the first
\* two kinds is used depends on the networks of both; a WebSocket client is
\* never asked for its local address.
Request(c, i, kind) ==
  /\ pc[c] = "serving"
  /\ Online(i) /\ TokenLeft
  /\ kind = "local" => ~conn[c].ws
  /\ work' = [work EXCEPT ![c] =
       [id |-> i, kind |-> kind, to |-> reg[i], token |-> None]]
  /\ Goto(c, "reserve")
  /\ UNCHANGED <<conn, queue, sinks, pending, reg, tx, history>>

\* The peer is unknown or offline, or a PunchHoleRequest is malformed or has a
\* wrong key.  The two requests tell a failure on different ways: through
\* tcp_punch, and on the connection's own queue.
RequestRefused(c, i, kind) ==
  /\ pc[c] = "serving"
  /\ \/ kind = "relay" /\ ~Online(i) /\ ReplyOrHangUp(c, Reply("failure"))
     \/ kind # "relay" /\ Goto(c, "fail") /\ UNCHANGED <<conn, queue, work>>
  /\ UNCHANGED <<sinks, pending, reg, tx, history>>

\* reserve_pending_rendezvous drops what has expired before it counts.
Current == {t \in Tokens : pending[t] # None /\ ~pending[t].old}
Retained == [t \in Tokens |-> IF t \in Current THEN pending[t] ELSE None]

\* A token of 32 random bytes has not been used before.
Reserve(c, t) ==
  /\ pc[c] = "reserve"
  /\ Cardinality(Current) < PendingCapacity
  /\ asked[t] = None
  /\ LET e == [requester |-> conn[c].addr, id |-> work[c].id, kind |-> work[c].kind,
               old |-> FALSE]
     IN  /\ pending' = [Retained EXCEPT ![t] = e]
         /\ asked' = [asked EXCEPT ![t] = e]
  /\ work' = [work EXCEPT ![c].token = t]
  /\ Goto(c, "deliver")
  /\ UNCHANGED <<conn, queue, sinks, reg, tx, sent, displaced>>

ReserveFails(c) ==
  /\ pc[c] = "reserve"
  /\ Cardinality(Current) >= PendingCapacity
  /\ pending' = Retained
  /\ \/ work[c].kind = "relay" /\ ReplyOrHangUp(c, Reply("failure"))
     \/ work[c].kind # "relay" /\ HangUp(c)
  /\ UNCHANGED <<sinks, reg, tx, history>>

\* send_to_tcp_sync to the peer clones the sender under the lock and uses it
\* after.
FindPeer(c) ==
  /\ pc[c] = "deliver"
  /\ sinks[work[c].to] # None
  /\ Hold(c, sinks[work[c].to])
  /\ Goto(c, "send")
  /\ UNCHANGED <<conn, work, queue, sinks, pending, reg, history>>

Deliver(c) ==
  /\ pc[c] = "send"
  /\ Room(tx[c])
  /\ Push(tx[c], Carrying("request", work[c]))
  /\ sent' = sent \cup {work[c].token}
  /\ Hold(c, None)
  /\ Done(c)
  /\ UNCHANGED <<conn, sinks, pending, reg, asked, displaced>>

DeliverFails(c) ==
  /\ \/ pc[c] = "deliver" /\ sinks[work[c].to] = None
     \/ pc[c] = "send" /\ ~Room(tx[c])
  /\ Hold(c, None)
  /\ Goto(c, "undo")
  /\ UNCHANGED <<conn, work, queue, sinks, pending, reg, history>>

\* Mutant of Undo: the token stays.
UndoKeepingToken(c) ==
  /\ pc[c] = "undo"
  /\ \/ work[c].kind = "relay" /\ ReplyOrHangUp(c, Reply("failure"))
     \/ work[c].kind # "relay" /\ Goto(c, "fail") /\ UNCHANGED <<conn, queue, work>>
  /\ UNCHANGED <<sinks, pending, reg, tx, history>>

\* The token is withdrawn and the requester told.
Undo(c) ==
  /\ pc[c] = "undo"
  /\ pending' = [pending EXCEPT ![work[c].token] = None]
  /\ \/ work[c].kind = "relay" /\ ReplyOrHangUp(c, Reply("failure"))
     \/ work[c].kind # "relay" /\ Goto(c, "fail") /\ UNCHANGED <<conn, queue, work>>
  /\ UNCHANGED <<sinks, reg, tx, history>>

\* send_to_tcp_sync to the requester's own address.
FindSelf(c) ==
  /\ pc[c] = "fail"
  /\ sinks[conn[c].addr] # None
  /\ Hold(c, sinks[conn[c].addr])
  /\ Goto(c, "failing")
  /\ UNCHANGED <<conn, work, queue, sinks, pending, reg, history>>

FailReply(c) ==
  /\ pc[c] = "failing"
  /\ Room(tx[c])
  /\ Push(tx[c], Reply("failure"))
  /\ Hold(c, None)
  /\ Done(c)
  /\ UNCHANGED <<conn, sinks, pending, reg, history>>

\* Mutant of FailReplyFails: a failure that cannot be queued is ignored.
FailReplyIgnored(c) ==
  /\ \/ pc[c] = "fail" /\ sinks[conn[c].addr] = None
     \/ pc[c] = "failing" /\ ~Room(tx[c])
  /\ Hold(c, None)
  /\ Done(c)
  /\ UNCHANGED <<conn, queue, sinks, pending, reg, history>>

FailReplyFails(c) ==
  /\ \/ pc[c] = "fail" /\ sinks[conn[c].addr] = None
     \/ pc[c] = "failing" /\ ~Room(tx[c])
  /\ Hold(c, None)
  /\ HangUp(c)
  /\ UNCHANGED <<sinks, pending, reg, history>>

-----------------------------------------------------------------------------
(* RelayResponse, PunchHoleSent and LocalAddr, the second also over UDP.   *)

\* Mutant of Matches: the claimed requester is not compared.
MatchesAnyRequester(t, i, a, kind) == pending[t].id = i /\ pending[t].kind = kind

\* consume_pending_rendezvous_in: responder, kind and requester must match.
Matches(t, i, a, kind) ==
  /\ pending[t].id = i
  /\ pending[t].kind = kind
  /\ pending[t].requester = a

\* Mutant of Consume: the token is left in the table until it expires.
ConsumeKeepingToken(p, t, i, a, kind) ==
  /\ pc[p] = "serving"
  /\ t \in sent
  /\ p = Udp => kind = "direct"
  /\ t \in Current
  /\ Matches(t, i, a, kind)
  /\ work' = [work EXCEPT ![p] = [id |-> i, kind |-> kind, to |-> a, token |-> t]]
  /\ Goto(p, "answer")
  /\ UNCHANGED <<conn, queue, sinks, pending, reg, tx, history>>

\* Nobody can name a token that has not been handed out.
Consume(p, t, i, a, kind) ==
  /\ pc[p] = "serving"
  /\ t \in sent
  /\ p = Udp => kind = "direct"
  /\ t \in Current
  /\ Matches(t, i, a, kind)
  /\ pending' = [pending EXCEPT ![t] = None]
  /\ work' = [work EXCEPT ![p] = [id |-> i, kind |-> kind, to |-> a, token |-> t]]
  /\ Goto(p, "answer")
  /\ UNCHANGED <<conn, queue, sinks, reg, tx, history>>

\* An expired token is removed and the answer refused.
ConsumeExpired(p, t) ==
  /\ pc[p] = "serving"
  /\ t \in sent
  /\ pending[t] # None /\ t \notin Current
  /\ pending' = [pending EXCEPT ![t] = None]
  /\ IF p = Udp THEN UNCHANGED <<conn, pc, work, queue>> ELSE HangUp(p)
  /\ UNCHANGED <<sinks, reg, tx, history>>

\* send_to_tcp, after get_pk: the requester's sink is taken out of tcp_punch
\* under the lock and used after.
TakeSink(p) ==
  /\ pc[p] = "answer"
  /\ Hold(p, sinks[work[p].to])
  /\ SetSink(work[p].to, None)
  /\ Goto(p, "push")
  /\ UNCHANGED <<conn, work, queue, pending, reg, asked, sent>>

\* The connection that answered is closed, whether the answer could be queued
\* or not.
SendAnswer(p) ==
  LET full == IF tx[p] # None /\ Room(tx[p])
              THEN [queue EXCEPT ![tx[p]] = Append(@, Carrying("answer", work[p]))]
              ELSE queue
  IN  /\ pc[p] = "push"
      /\ queue' = IF p = Udp THEN full ELSE [full EXCEPT ![p] = <<>>]
      /\ work' = [work EXCEPT ![p] = None]
      /\ Hold(p, None)
      /\ Goto(p, IF p = Udp THEN "serving" ELSE "closing")
      /\ IF p = Udp
         THEN UNCHANGED conn
         ELSE \E rx \in {FALSE, conn[p].ws /\ conn[p].rx} : conn' = [conn EXCEPT ![p].rx = rx]
      /\ UNCHANGED <<sinks, pending, reg, history>>

-----------------------------------------------------------------------------
(* Time: 30 s after a registration, more than 30 s after a reservation.    *)

RegistrationLapses(i) ==
  /\ Online(i)
  /\ reg' = [reg EXCEPT ![i] = None]
  /\ UNCHANGED <<conn, pc, work, queue, sinks, pending, tx, history>>

TokenExpires(t) ==
  /\ t \in Current
  /\ pending' = [pending EXCEPT ![t].old = TRUE]
  /\ UNCHANGED <<conn, pc, work, queue, sinks, reg, tx, history>>

Connection(c) ==
  \/ \E a \in Addrs, ws \in BOOLEAN : Accept(c, a, ws)
  \/ HandshakeFails(c) \/ HandshakeDone(c)
  \/ Write(c) \/ WriterDies(c) \/ Break(c) \/ Cleanup(c)

Requests(c) ==
  \/ Query(c) \/ KeepAlive(c) \/ NatTest(c)
  \/ \E i \in Ids : Register(c, i)
  \/ RegisterDone(c)
  \/ \E i \in Ids, kind \in Requested : Request(c, i, kind) \/ RequestRefused(c, i, kind)
  \/ \E t \in Tokens : Reserve(c, t)
  \/ ReserveFails(c)
  \/ FindPeer(c) \/ Deliver(c) \/ DeliverFails(c) \/ Undo(c)
  \/ FindSelf(c) \/ FailReply(c) \/ FailReplyFails(c)

Answers(p) ==
  \/ \E t \in Tokens, i \in Ids, a \in Addrs, kind \in Kinds : Consume(p, t, i, a, kind)
  \/ \E t \in Tokens : ConsumeExpired(p, t)
  \/ TakeSink(p) \/ SendAnswer(p)

Next ==
  \/ \E c \in Conns : Connection(c) \/ Requests(c)
  \/ \E p \in Tasks : Answers(p)
  \/ \E i \in Ids : RegistrationLapses(i)
  \/ \E t \in Tokens : TokenExpires(t)

Spec == Init /\ [][Next]_vars

-----------------------------------------------------------------------------
(* Properties.                                                             *)

AnswersIn(c, t) ==
  {k \in 1..Len(queue[c]) : queue[c][k].type = "answer" /\ queue[c][k].token = t}

\* Where a token can still lead to an answer, or has.
Places(t) ==
  {<<"pending", t>> : e \in {pending[t]} \ {None}}
    \cup {<<"handler", p>> : p \in {q \in Tasks : pc[q] \in {"answer", "push"} /\ work[q].token = t}}
    \cup UNION {{<<"queue", c, k>> : k \in AnswersIn(c, t)} : c \in Conns}

\* A token is used once: whatever connections and the UDP socket answer
\* concurrently or again, it is in the table, or in the hands of one handler,
\* or once in one queue (consume_pending_rendezvous_in removes what it accepts).
TokenOneShot == \A t \in Tokens : Cardinality(Places(t)) <= 1

\* An answer that is queued for a client was given by the peer and in the form
\* that the request asked for, and the queue is one of the requester's
\* address, though sinks are replaced between request and answer.
AnswersMatch == \A c \in Conns : \A k \in 1..Len(queue[c]) :
  LET m == queue[c][k]
  IN  m.type = "answer" =>
        /\ asked[m.token].id = m.id /\ asked[m.token].kind = m.kind
        /\ asked[m.token].requester = conn[c].addr

\* A token whose request reached nobody does not stay in the table when the
\* handler has finished with it (handle_tcp_punch_hole_request and
\* RequestRelay remove it when the delivery fails).
UndeliveredForgotten == \A t \in Tokens :
  pending[t] # None =>
    \/ t \in sent
    \/ \E c \in Conns : pc[c] \in {"deliver", "send", "undo"} /\ work[c].token = t

\* Every sink in tcp_punch leads to a connection of that very address whose
\* task has not ended: the table never keeps the queue of a past connection.
SinksLive == \A a \in Addrs : sinks[a] # None =>
  /\ conn[sinks[a]] # None /\ conn[sinks[a]].addr = a
  /\ pc[sinks[a]] \notin {"none", "handshake"}

\* A client stays reachable: as long as its connection lives, tcp_punch leads
\* from its address to that connection, unless a later connection of the
\* address took its place or an answer was sent through it, and neither lasts
\* beyond its next registration.  The ends of other connections of the
\* address, in whatever order they come, never cut it off (still_current).
StaysReachable == \A c \in Conns :
  pc[c] \notin {"none", "handshake"} => sinks[conn[c].addr] = c \/ c \in displaced

\* A request is never swallowed: when its handler is through, the peer's
\* queue has got it, or a failure is on its way, or the connection is closed.
RequestNeverSilent ==
  [][\A c \in Conns :
       pc[c] \in {"reserve", "deliver", "send", "undo", "fail", "failing"} /\ pc'[c] = "serving" =>
         \/ work[c] # None /\ work[c].token \in sent'
         \/ \E d \in Conns : queue'[d] = Append(queue[d], Reply("failure"))]_vars

\* The answer to a NAT test is written to the client before the connection is
\* closed.
NatTestAnswered ==
  [][\A c \in Conns : pc[c] = "leaving" /\ pc'[c] = "closing" =>
       \A k \in 1..Len(queue[c]) : queue[c][k].type # "nat"]_vars

\* An accepted answer goes to the requester's connection, if the requester has
\* one connection and it is being served.
AnswerForwarded ==
  [][\A p \in Tasks : \A c \in Conns \ {p} :
       /\ pc[p] = "answer" /\ pc'[p] = "push"
       /\ pc[c] = "serving"
       /\ {d \in Conns : conn[d] # None /\ conn[d].addr = work[p].to} = {c}
       => tx'[p] = c]_vars
=============================================================================
