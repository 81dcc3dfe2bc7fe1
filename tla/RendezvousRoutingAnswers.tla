---------------------- MODULE RendezvousRoutingAnswers ---------------------
(***************************************************************************)
(* Proofs that a token leads to one answer, and to the right one.          *)
(*                                                                         *)
(* The invariant follows a token from pending_rendezvous to the handler of *)
(* an answer and on to a queue.  In each of the three places it agrees with*)
(* the request it was issued for, and it is in one place at a time.  The   *)
(* sender that a handler has taken out of tcp_punch must not become that of*)
(* another connection: FreshNames says why it cannot.                      *)
(***************************************************************************)
EXTENDS RendezvousRoutingProofs

Issued(t, id, kind, to) ==
  asked[t] # None /\ asked[t].id = id /\ asked[t].kind = kind /\ asked[t].requester = to

\* What is said about a token is what the request said for which it was issued.
PendingKnown == \A t \in Tokens : pending[t] # None =>
  Issued(t, pending[t].id, pending[t].kind, pending[t].requester)
HandlerKnown == \A p \in Tasks : pc[p] \in Answering =>
  Issued(work[p].token, work[p].id, work[p].kind, work[p].to)
QueueKnown == \A c \in Conns, t \in Tokens : \A k \in AnswersIn(c, t) :
  Issued(t, queue[c][k].id, queue[c][k].kind, conn[c].addr)
SenderKnown == \A p \in Tasks : pc[p] = "push" /\ tx[p] # None /\ conn[tx[p]] # None =>
  conn[tx[p]].addr = work[p].to

Handles(p, t) == pc[p] \in Answering /\ work[p].token = t

\* The places of a token exclude each other.
OnePlace(t) ==
  /\ pending[t] # None => /\ \A p \in Tasks : ~Handles(p, t)
                          /\ \A c \in Conns : AnswersIn(c, t) = {}
  /\ \A p, q \in Tasks : Handles(p, t) /\ Handles(q, t) => p = q
  /\ \A p \in Tasks : Handles(p, t) => \A c \in Conns : AnswersIn(c, t) = {}
  /\ \A c, d \in Conns : \A k \in AnswersIn(c, t), j \in AnswersIn(d, t) : c = d /\ k = j

TokenInv ==
  /\ PendingKnown /\ HandlerKnown /\ QueueKnown /\ SenderKnown
  /\ \A t \in Tokens : OnePlace(t)

-----------------------------------------------------------------------------
(* Queues that get no answer.                                              *)

\* Every answer in the queue was there before, and the order is the same.
Older(c) == \E s \in {0, 1} : \A k \in 1..Len(queue'[c]) : queue'[c][k].type = "answer" =>
  k + s \in 1..Len(queue[c]) /\ queue'[c][k] = queue[c][k + s]

OlderFor(c, t) == \E s \in {0, 1} : \A k \in AnswersIn(c, t)' :
  k + s \in AnswersIn(c, t) /\ queue'[c][k] = queue[c][k + s]

LEMMA OlderAnswers ==
  ASSUME NEW c \in Conns, Older(c), NEW t
  PROVE  OlderFor(c, t)
<1>1. PICK s \in {0, 1} : \A k \in 1..Len(queue'[c]) : queue'[c][k].type = "answer" =>
        k + s \in 1..Len(queue[c]) /\ queue'[c][k] = queue[c][k + s]
  BY Zenon DEF Older
<1>2. \A k \in AnswersIn(c, t)' : k + s \in AnswersIn(c, t) /\ queue'[c][k] = queue[c][k + s]
  BY <1>1, Zenon DEF AnswersIn
<1> QED
  BY <1>2, Zenon DEF OlderFor

LEMMA OlderSame ==
  ASSUME LinkInv, NEW c \in Conns, queue'[c] = queue[c] \/ queue'[c] = <<>>
  PROVE  Older(c)
<1>1. CASE queue'[c] = <<>>
  BY <1>1 DEF Older
<1>2. CASE queue'[c] = queue[c]
  <2>1. \A k \in 1..Len(queue[c]) : k + 0 = k
    OBVIOUS
  <2>2. \A k \in 1..Len(queue'[c]) : queue'[c][k].type = "answer" =>
          k + 0 \in 1..Len(queue[c]) /\ queue'[c][k] = queue[c][k + 0]
    BY <1>2, <2>1, Zenon
  <2> QED
    BY <2>2, Zenon DEF Older
<1> QED
  BY <1>1, <1>2, Zenon

\* Messages that are no answers.
LEMMA OlderConcat ==
  ASSUME LinkInv, NEW c \in Conns, NEW r \in Seq(Message), queue'[c] = queue[c] \o r,
         \A k \in 1..Len(r) : r[k].type # "answer"
  PROVE  Older(c)
<1>1. queue[c] \in Seq(Message)
  BY Zenon DEF LinkInv, IsQueues
<1>2. /\ Len(queue[c]) \in Nat /\ Len(r) \in Nat /\ Len(queue'[c]) = Len(queue[c]) + Len(r)
      /\ \A k \in 1..Len(queue[c]) + Len(r) :
           queue'[c][k] = IF k <= Len(queue[c]) THEN queue[c][k] ELSE r[k - Len(queue[c])]
  BY <1>1
<1>3. \A k \in 1..Len(queue'[c]) : queue'[c][k].type = "answer" =>
        k + 0 \in 1..Len(queue[c]) /\ queue'[c][k] = queue[c][k + 0]
  <2> SUFFICES ASSUME NEW k \in 1..Len(queue'[c]), queue'[c][k].type = "answer"
               PROVE  k \in 1..Len(queue[c]) /\ queue'[c][k] = queue[c][k]
    OBVIOUS
  <2>1. CASE k <= Len(queue[c])
    BY <1>2, <2>1
  <2>2. CASE ~(k <= Len(queue[c]))
    <3>1. k - Len(queue[c]) \in 1..Len(r) /\ queue'[c][k] = r[k - Len(queue[c])]
      BY <1>2, <2>2
    <3> QED
      BY <3>1, Zenon
  <2> QED
    BY <2>1, <2>2, Zenon
<1> QED
  BY <1>3, Zenon DEF Older

LEMMA OlderPush ==
  ASSUME LinkInv, NEW d \in Conns, NEW m \in Message, m.type # "answer", Push(d, m)
  PROVE  \A c \in Conns : Older(c)
<1>1. queue'[d] = Append(queue[d], m) /\ \A c \in Conns : c # d => queue'[c] = queue[c]
  BY Zenon DEF Push, LinkInv, IsQueues
<1>2. Append(queue[d], m) = queue[d] \o <<m>> /\ <<m>> \in Seq(Message)
  BY DEF LinkInv, IsQueues
<1>3. \A k \in 1..Len(<<m>>) : <<m>>[k].type # "answer"
  OBVIOUS
<1>4. Older(d)
  BY <1>1, <1>2, <1>3, OlderConcat, Zenon
<1> QED
  BY <1>1, <1>4, OlderSame, Zenon

LEMMA OlderWrite ==
  ASSUME LinkInv, NEW c \in Conns, queue[c] # <<>>, queue'[c] = Tail(queue[c])
  PROVE  Older(c)
<1>1. /\ queue[c] \in Seq(Message) /\ Len(queue[c]) \in Nat
      /\ Len(queue'[c]) = Len(queue[c]) - 1
      /\ \A k \in 1..Len(queue'[c]) : queue'[c][k] = queue[c][k + 1]
  BY DEF LinkInv, IsQueues
<1>2. \A k \in 1..Len(queue'[c]) : k + 1 \in 1..Len(queue[c])
  BY <1>1
<1> QED
  BY <1>1, <1>2, Zenon DEF Older

LEMMA OlderHangUp ==
  ASSUME LinkInv, NEW c \in Conns, HangUp(c)
  PROVE  \A d \in Conns : Older(d)
<1>1. \A d \in Conns : queue'[d] = queue[d] \/ queue'[d] = <<>>
  BY Zenon DEF HangUp, LinkInv, IsQueues
<1> QED
  BY <1>1, OlderSame, Zenon

LEMMA OlderReply ==
  ASSUME LinkInv, NEW c \in Conns, NEW type \in {"failure", "reply", "nat"},
         ReplyOrHangUp(c, Reply(type))
  PROVE  \A d \in Conns : Older(d)
<1>1. Reply(type) \in Message /\ Reply(type).type # "answer"
  BY Replies, Zenon DEF Reply
<1> QED
  BY <1>1, OlderPush, OlderHangUp, Zenon DEF ReplyOrHangUp
-----------------------------------------------------------------------------
(* Steps that bring no token to another place.                             *)

\* Names are used again only when nobody holds the sender.
LEMMA FreshNames ==
  ASSUME RouteInv, [Next]_vars, NEW d \in Conns, conn[d] = None, conn'[d] # None
  PROVE  \A p \in Tasks : tx[p] # d
<1>1. LinkInv /\ LinkInv' /\ Types /\ TaskInv /\ Links
  BY StepFacts, Zenon DEF RouteInv
<1>2. pc[d] = "none" /\ pc'[d] # "none"
  BY <1>1, Zenon DEF LinkInv, Links
<1>3. Connection(d) \/ Requests(d) \/ Answers(d)
  BY <1>2, OwnStep, Zenon
<1>4. ~Requests(d) /\ ~Answers(d)
  BY <1>1, <1>2, RequestsMove, AnswersMove, Zenon DEF Inside, Outside, Tasks
<1>5. Write(d) => FALSE
  BY <1>1, <1>2, Zenon DEF Write, LinkInv, Links, Outside
<1> QED
  BY <1>2, <1>3, <1>4, <1>5, Zenon
  DEF Connection, Accept, HandshakeFails, HandshakeDone, WriterDies, Break, Cleanup

SameTokens == \A t \in Tokens : pending'[t] # None =>
  /\ pending[t] # None
  /\ pending'[t].id = pending[t].id /\ pending'[t].kind = pending[t].kind
  /\ pending'[t].requester = pending[t].requester

\* An answer that is being handled has been handled before.
SameAnswer(p) == pc'[p] \in Answering =>
  /\ pc[p] \in Answering /\ work'[p] = work[p]
  /\ pc'[p] = "push" => pc[p] = "push" /\ tx'[p] = tx[p]

TokenQuiet ==
  /\ UNCHANGED asked /\ SameTokens
  /\ \A p \in Tasks : SameAnswer(p)
  /\ \A c \in Conns : Older(c)

\* The parts of TokenInv, each with what it takes to keep it.
LEMMA KeepPending ==
  ASSUME PendingKnown, UNCHANGED asked, SameTokens
  PROVE  PendingKnown'
  BY Zenon DEF PendingKnown, SameTokens, Issued

LEMMA KeepHandlers ==
  ASSUME HandlerKnown, UNCHANGED asked,
         \A p \in Tasks : pc'[p] \in Answering => pc[p] \in Answering /\ work'[p] = work[p]
  PROVE  HandlerKnown'
  BY Zenon DEF HandlerKnown, Issued

LEMMA QueueLinks ==
  ASSUME LinkInv, NEW c \in Conns, NEW t, NEW k \in AnswersIn(c, t)
  PROVE  conn[c] # None
<1>1. queue[c] # <<>>
  BY DEF AnswersIn
<1> QED
  BY <1>1, Zenon DEF LinkInv, Links, Outside

LEMMA QueueLinksNext ==
  ASSUME LinkInv', NEW c \in Conns, NEW t, NEW k \in AnswersIn(c, t)'
  PROVE  conn'[c] # None
<1>1. queue'[c] # <<>>
  BY DEF AnswersIn
<1> QED
  BY <1>1, Zenon DEF LinkInv, Links, Outside

LEMMA KeepQueue ==
  ASSUME RouteInv, [Next]_vars, NEW c \in Conns, NEW t \in Tokens, OlderFor(c, t),
         asked'[t] = asked[t],
         \A k \in AnswersIn(c, t) : Issued(t, queue[c][k].id, queue[c][k].kind, conn[c].addr)
  PROVE  \A k \in AnswersIn(c, t)' :
           Issued(t, queue[c][k].id, queue[c][k].kind, conn[c].addr)'
<1>1. LinkInv /\ LinkInv' /\ KeepsAddr
  BY StepFacts, Zenon
<1>2. PICK s \in {0, 1} : \A k \in AnswersIn(c, t)' :
        k + s \in AnswersIn(c, t) /\ queue'[c][k] = queue[c][k + s]
  BY Zenon DEF OlderFor
<1> SUFFICES ASSUME NEW k \in AnswersIn(c, t)'
             PROVE  Issued(t, queue[c][k].id, queue[c][k].kind, conn[c].addr)'
  BY Zenon
<1>3. k + s \in AnswersIn(c, t) /\ queue'[c][k] = queue[c][k + s]
  BY <1>2, Zenon
<1>4. conn[c] # None /\ conn'[c] # None
  BY <1>1, <1>3, QueueLinks, QueueLinksNext, Zenon
<1>5. conn'[c].addr = conn[c].addr
  BY <1>1, <1>4, Zenon DEF KeepsAddr
<1> QED
  BY <1>3, <1>5, Zenon DEF Issued

LEMMA KeepSenders ==
  ASSUME RouteInv, [Next]_vars, SenderKnown, NEW p \in Tasks, pc[p] = "push", tx'[p] = tx[p],
         work'[p] = work[p], tx'[p] # None, conn'[tx'[p]] # None
  PROVE  conn'[tx'[p]].addr = work'[p].to
<1>1. tx[p] \in Conns /\ KeepsAddr
  BY StepFacts, Zenon DEF Types, Opt
<1>2. conn[tx[p]] # None
  BY <1>1, FreshNames, Zenon
<1> QED
  BY <1>1, <1>2, Zenon DEF KeepsAddr, SenderKnown

\* Places are only left.
LEMMA KeepPlaces ==
  ASSUME NEW t \in Tokens, OnePlace(t), pending'[t] # None => pending[t] # None,
         \A p \in Tasks : Handles(p, t)' => Handles(p, t),
         \A c \in Conns : OlderFor(c, t)
  PROVE  OnePlace(t)'
<1>1. \A c \in Conns : \E s \in {0, 1} : \A k \in AnswersIn(c, t)' : k + s \in AnswersIn(c, t)
  BY Zenon DEF OlderFor
<1>2. \A c \in Conns : AnswersIn(c, t) = {} => AnswersIn(c, t)' = {}
  BY <1>1, Zenon
<1>3. ASSUME NEW c \in Conns, NEW d \in Conns, NEW k \in AnswersIn(c, t)', NEW j \in AnswersIn(d, t)'
      PROVE  c = d /\ k = j
  <2>1. c = d
    BY <1>1 DEF OnePlace
  <2>2. PICK s \in {0, 1} : \A i \in AnswersIn(c, t)' : i + s \in AnswersIn(c, t)
    BY <1>1, Zenon
  <2>3. k + s = j + s
    BY <1>3, <2>1, <2>2, Zenon DEF OnePlace
  <2>4. k \in Int /\ j \in Int
    BY <1>3 DEF AnswersIn
  <2> QED
    BY <2>1, <2>3, <2>4
<1> QED
  BY <1>2, <1>3, Zenon DEF OnePlace

LEMMA QuietTokens ==
  ASSUME RouteInv, [Next]_vars, TokenInv, TokenQuiet
  PROVE  TokenInv'
<1>1. PendingKnown' /\ HandlerKnown'
  BY KeepPending, KeepHandlers, Zenon DEF TokenInv, TokenQuiet, SameAnswer
<1>2. QueueKnown'
  BY KeepQueue, OlderAnswers, Zenon DEF TokenInv, TokenQuiet, QueueKnown
<1>3. SenderKnown'
  BY KeepSenders, Zenon DEF TokenInv, TokenQuiet, SameAnswer, SenderKnown, Answering
<1>4. ASSUME NEW t \in Tokens PROVE OnePlace(t)'
  BY KeepPlaces, OlderAnswers, Zenon DEF TokenInv, TokenQuiet, SameTokens, SameAnswer, Handles
<1> QED
  BY <1>1, <1>2, <1>3, <1>4, Zenon DEF TokenInv

LEMMA AloneAnswers ==
  ASSUME NEW p \in Tasks, Moves(p), SameAnswer(p)
  PROVE  \A q \in Tasks : SameAnswer(q)
  BY Zenon DEF Moves, Alone, SameAnswer

LEMMA ConnectionQuiet ==
  ASSUME RouteInv, [Next]_vars, NEW c \in Conns, Connection(c)
  PROVE  TokenQuiet
<1>1. LinkInv /\ Types /\ TaskInv /\ c \in Tasks /\ pc \in [Tasks -> Steps] /\ Moves(c)
  BY StepFacts, ConnectionMoves, Zenon DEF RouteInv, Types, Tasks
<1>2. UNCHANGED <<pending, asked>>
  BY Zenon DEF Connection, Accept, HandshakeFails, HandshakeDone, Write, WriterDies, Break, Cleanup,
         history
<1>3. UNCHANGED <<pc, work, tx>> \/ pc'[c] \notin Answering
  BY <1>1, Zenon DEF Connection, Accept, HandshakeFails, HandshakeDone, Write, WriterDies, Break, Cleanup,
              HangUp, Goto, Answering
<1>4. \A p \in Tasks : SameAnswer(p)
  BY <1>1, <1>3, AloneAnswers, Zenon DEF SameAnswer
<1>5. ASSUME NEW d \in Conns PROVE Older(d)
  <2>1. CASE Write(c)
    <3>1. queue[c] # <<>> /\ queue'[c] = Tail(queue[c]) /\ (d # c => queue'[d] = queue[d])
      BY <1>1, <1>5, <2>1, Zenon DEF Write, LinkInv, IsQueues
    <3> QED
      BY <1>1, <1>5, <3>1, OlderWrite, OlderSame, Zenon
  <2>2. CASE ~Write(c)
    <3>1. queue'[d] = queue[d] \/ queue'[d] = <<>>
      BY <1>1, <1>5, <2>2, Zenon
      DEF Connection, Accept, HandshakeFails, HandshakeDone, WriterDies, Break, Cleanup, HangUp,
          LinkInv, IsQueues
    <3> QED
      BY <1>1, <1>5, <3>1, OlderSame, Zenon
  <2> QED
    BY <2>1, <2>2, Zenon
<1> QED
  BY <1>2, <1>4, <1>5, Zenon DEF TokenQuiet, SameTokens

LEMMA RequestsOlder ==
  ASSUME RouteInv, NEW c \in Conns, Requests(c)
  PROVE  \A d \in Conns : Older(d)
<1>1. LinkInv /\ Types /\ TaskInv /\ c \in Tasks
  BY RouteParts, Zenon DEF RouteInv, Tasks
<1>2. UNCHANGED queue => \A d \in Conns : Older(d)
  BY <1>1, OlderSame, Zenon
<1>3. HangUp(c) => \A d \in Conns : Older(d)
  BY <1>1, OlderHangUp, Zenon
<1>4. \A type \in {"failure", "reply", "nat"} :
        ReplyOrHangUp(c, Reply(type)) => \A d \in Conns : Older(d)
  BY <1>1, OlderReply, Zenon
<1>5. \A type \in {"failure", "reply", "nat"}, e \in Conns :
        Push(e, Reply(type)) => \A d \in Conns : Older(d)
  BY <1>1, OlderPush, Replies, Zenon DEF Reply
<1>6. CASE Query(c) \/ KeepAlive(c) \/ NatTest(c)
  BY <1>2, <1>4, <1>5, <1>6, Zenon DEF Query, KeepAlive, NatTest
<1>7. CASE RegisterDone(c)
  <2>1. CASE HangUp(c)
    BY <1>3, <2>1, Zenon
  <2>2. CASE ~HangUp(c)
    <3> DEFINE r == Reply("reply")
    <3>1. r \in Message /\ r.type # "answer"
      BY Replies, Zenon DEF Reply
    <3>2. \E replies \in {<<>>, <<r>>, <<r, r>>} : queue' = [queue EXCEPT ![c] = @ \o replies]
      BY <1>7, <2>2, Zenon DEF RegisterDone
    <3> HIDE DEF r
    <3>3. PICK replies \in {<<>>, <<r>>, <<r, r>>} : queue' = [queue EXCEPT ![c] = @ \o replies]
      BY <3>2, Zenon
    <3>4. replies \in Seq(Message) /\ \A k \in 1..Len(replies) : replies[k].type # "answer"
      <4>1. <<>> \in Seq(Message) /\ <<r>> \in Seq(Message) /\ <<r, r>> \in Seq(Message)
        BY <3>1
      <4>2. /\ \A k \in 1..Len(<<r>>) : <<r>>[k] = r
            /\ \A k \in 1..Len(<<r, r>>) : <<r, r>>[k] = r
        OBVIOUS
      <4>3. CASE replies = <<>>
        BY <4>1, <4>3
      <4>4. CASE replies = <<r>>
        BY <3>1, <4>1, <4>2, <4>4, Zenon
      <4>5. CASE replies = <<r, r>>
        BY <3>1, <4>1, <4>2, <4>5, Zenon
      <4> QED
        BY <4>3, <4>4, <4>5, Zenon
    <3>5. queue'[c] = queue[c] \o replies /\ \A d \in Conns : d # c => queue'[d] = queue[d]
      BY <1>1, <3>3, Zenon DEF LinkInv, IsQueues
    <3>6. Older(c)
      BY <1>1, <3>4, <3>5, OlderConcat, Zenon
    <3> QED
      BY <1>1, <3>5, <3>6, OlderSame, Zenon
  <2> QED
    BY <2>1, <2>2, Zenon
<1>8. CASE ReserveFails(c) \/ Undo(c) \/ FailReplyFails(c)
  BY <1>2, <1>3, <1>4, <1>8, Zenon DEF ReserveFails, Undo, FailReplyFails
<1>9. CASE \E i \in Ids, kind \in Requested : Request(c, i, kind) \/ RequestRefused(c, i, kind)
  BY <1>2, <1>4, <1>9, Zenon DEF Request, RequestRefused
<1>10. CASE Deliver(c)
  <2>1. tx[c] \in Conns /\ work[c] \in Work /\ work[c].token \in Tokens
    BY <1>1, <1>10, Zenon DEF Deliver, TaskInv, Control, Types, Opt, Delivering, Work
  <2>2. Carrying("request", work[c]) \in Message /\ Carrying("request", work[c]).type # "answer"
    BY <2>1, Zenon DEF Carrying, Work, Message
  <2> QED
    BY <1>1, <1>10, <2>1, <2>2, OlderPush, Zenon DEF Deliver
<1>11. CASE FailReply(c)
  <2>1. tx[c] \in Conns
    BY <1>1, <1>11, Zenon DEF FailReply, TaskInv, Control, Types, Opt
  <2> QED
    BY <1>5, <1>11, <2>1, Zenon DEF FailReply
<1>12. CASE \/ \E i \in Ids : Register(c, i)
            \/ \E t \in Tokens : Reserve(c, t)
            \/ FindPeer(c) \/ DeliverFails(c) \/ FindSelf(c)
  BY <1>2, <1>12, Zenon DEF Register, Reserve, FindPeer, DeliverFails, FindSelf
<1> QED
  BY <1>6, <1>7, <1>8, <1>9, <1>10, <1>11, <1>12, Zenon DEF Requests

\* No step of a request makes its task one that answers.
LEMMA RequestsNoAnswer ==
  ASSUME RouteInv, [Next]_vars, NEW c \in Conns, Requests(c)
  PROVE  \A p \in Tasks : SameAnswer(p)
<1>1. LinkInv /\ Types /\ TaskInv /\ c \in Tasks /\ pc \in [Tasks -> Steps] /\ Moves(c)
  BY StepFacts, RequestsMove, Zenon DEF RouteInv, Types, Tasks
<1>2. \A label : Goto(c, label) => pc'[c] = label
  BY <1>1, Zenon DEF Goto
<1>3. HangUp(c) \/ Done(c) => pc'[c] \notin Answering
  BY <1>2, Zenon DEF HangUp, Done, Answering
<1>4. UNCHANGED <<pc, work, tx>> \/ pc'[c] \notin Answering
  BY <1>2, <1>3, Zenon
  DEF Requests, Query, KeepAlive, NatTest, Register, RegisterDone, Request, RequestRefused, Reserve,
      ReserveFails, FindPeer, Deliver, DeliverFails, Undo, FindSelf, FailReply, FailReplyFails,
      ReplyOrHangUp, Answering
<1> QED
  BY <1>1, <1>4, AloneAnswers, Zenon DEF SameAnswer
-----------------------------------------------------------------------------
(* The way of a token.                                                     *)

\* reserve_pending_rendezvous: a token that was never issued is nowhere.
LEMMA ReserveTokens ==
  ASSUME RouteInv, [Next]_vars, TokenInv, NEW c \in Conns, NEW t \in Tokens, Reserve(c, t)
  PROVE  TokenInv'
<1> DEFINE e == [requester |-> conn[c].addr, id |-> work[c].id, kind |-> work[c].kind, old |-> FALSE]
<1>1. /\ asked[t] = None /\ pending' = [Retained EXCEPT ![t] = e] /\ asked' = [asked EXCEPT ![t] = e]
      /\ UNCHANGED queue /\ Requests(c) /\ pc[c] = "reserve"
  BY Zenon DEF Reserve, Requests
<1>2. LinkInv /\ Types /\ TaskInv /\ TableTypes /\ LinkInv'
  BY StepFacts, Zenon DEF RouteInv, TableInv
<1>3. \A p \in Tasks : SameAnswer(p)
  BY <1>1, RequestsNoAnswer, Zenon
<1>4. e \in Entry
  <2>1. work[c] \in Work
    BY <1>1, <1>2, Zenon DEF TaskInv, Control, Types, Opt, Tasks
  <2>2. conn[c].addr \in Addrs
    BY <1>1, <1>2, Zenon DEF LinkInv, Links, Opt, Link
  <2> QED
    BY <2>1, <2>2, Zenon DEF Entry, Work
<1>5. asked'[t] = e /\ pending'[t] = e /\ e # None
  BY <1>1, <1>2, <1>4, NoneIsNoRecord, Zenon DEF TableTypes, Retained
<1>6. ASSUME NEW s \in Tokens, s # t
      PROVE  asked'[s] = asked[s] /\ (pending'[s] # None => pending'[s] = pending[s])
  BY <1>1, <1>2, <1>6, Zenon DEF TableTypes, Retained
<1>7. (\A p \in Tasks : ~Handles(p, t)) /\ \A d \in Conns : AnswersIn(d, t) = {}
  BY <1>1, Zenon DEF TokenInv, HandlerKnown, QueueKnown, Issued, Handles
<1>8. PendingKnown'
  BY <1>5, <1>6, Zenon DEF PendingKnown, TokenInv, Issued
<1>9. HandlerKnown'
  <2> SUFFICES ASSUME NEW p \in Tasks, pc'[p] \in Answering
               PROVE  Issued(work[p].token, work[p].id, work[p].kind, work[p].to)'
    BY Zenon DEF HandlerKnown
  <2>1. pc[p] \in Answering /\ work'[p] = work[p]
    BY <1>3, Zenon DEF SameAnswer
  <2>2. work[p].token \in Tokens /\ work[p].token # t
    BY <1>2, <1>7, <2>1, Zenon DEF TaskInv, Control, Types, Opt, Work, Handles
  <2> QED
    BY <1>6, <2>1, <2>2 DEF TokenInv, HandlerKnown, Issued
<1>10. \A d \in Conns, s \in Tokens : OlderFor(d, s)
  BY <1>1, <1>2, OlderSame, OlderAnswers, Zenon
<1>11. QueueKnown'
  <2> SUFFICES ASSUME NEW d \in Conns, NEW s \in Tokens, NEW k \in AnswersIn(d, s)'
               PROVE  Issued(s, queue[d][k].id, queue[d][k].kind, conn[d].addr)'
    BY Zenon DEF QueueKnown
  <2>1. s # t
    BY <1>1, <1>7, Zenon DEF AnswersIn
  <2> QED
    BY <1>6, <1>10, <2>1, KeepQueue, Zenon DEF TokenInv, QueueKnown
<1>12. SenderKnown'
  BY <1>3, KeepSenders, Zenon DEF TokenInv, SameAnswer, SenderKnown, Answering
<1>13. ASSUME NEW s \in Tokens PROVE OnePlace(s)'
  <2>1. \A p \in Tasks : Handles(p, s)' => Handles(p, s)
    BY <1>3, Zenon DEF Handles, SameAnswer
  <2>2. CASE s = t
    <3>1. \A d \in Conns : AnswersIn(d, s)' = {}
      BY <1>1, <1>7, <2>2, Zenon DEF AnswersIn
    <3> QED
      BY <1>7, <2>1, <2>2, <3>1, Zenon DEF OnePlace
  <2>3. CASE s # t
    BY <1>6, <1>10, <2>1, <2>3, KeepPlaces, Zenon DEF TokenInv
  <2> QED
    BY <2>2, <2>3, Zenon
<1> QED
  BY <1>8, <1>9, <1>11, <1>12, <1>13, Zenon DEF TokenInv

LEMMA RequestsTokens ==
  ASSUME RouteInv, [Next]_vars, TokenInv, NEW c \in Conns, Requests(c)
  PROVE  TokenInv'
<1>1. TableTypes /\ \A d \in Conns : Older(d)
  BY StepFacts, RequestsOlder, Zenon DEF TableInv
<1>2. \A p \in Tasks : SameAnswer(p)
  BY RequestsNoAnswer, Zenon
<1>3. CASE \E t \in Tokens : Reserve(c, t)
  BY <1>3, ReserveTokens, Zenon
<1>4. CASE ~\E t \in Tokens : Reserve(c, t)
  <2>1. UNCHANGED asked /\ (UNCHANGED pending \/ ReserveFails(c) \/ Undo(c))
    BY <1>4, Zenon DEF Requests, Query, KeepAlive, NatTest, Register, RegisterDone, Request,
                RequestRefused, ReserveFails, FindPeer, Deliver, DeliverFails, Undo, FindSelf,
                FailReply, FailReplyFails, history
  <2>2. SameTokens
    BY <1>1, <2>1, Zenon DEF SameTokens, ReserveFails, Retained, Undo, TableTypes
  <2> QED
    BY <1>1, <1>2, <2>1, <2>2, QuietTokens, Zenon DEF TokenQuiet
<1> QED
  BY <1>3, <1>4, Zenon

\* consume_pending_rendezvous_in: from the table to the handler of the answer.
LEMMA ConsumeTokens ==
  ASSUME RouteInv, [Next]_vars, TokenInv, NEW p \in Tasks, NEW t \in Tokens, NEW i \in Ids,
         NEW a \in Addrs, NEW kind \in Kinds, Consume(p, t, i, a, kind)
  PROVE  TokenInv'
<1>1. LinkInv /\ Types /\ TaskInv /\ TableTypes /\ Moves(p)
  <2>1. Answers(p)
    BY Zenon DEF Answers
  <2> QED
    BY <2>1, StepFacts, AnswersMove, Zenon DEF RouteInv, TableInv
<1>2. /\ UNCHANGED <<conn, queue, tx, asked>> /\ pending[t] # None
      /\ pending[t].id = i /\ pending[t].kind = kind /\ pending[t].requester = a
      /\ pending' = [pending EXCEPT ![t] = None]
      /\ work' = [work EXCEPT ![p] = [id |-> i, kind |-> kind, to |-> a, token |-> t]]
      /\ pc' = [pc EXCEPT ![p] = "answer"]
  BY Zenon DEF Consume, Current, Matches, history, Goto
<1>3. /\ pc'[p] = "answer"
      /\ work'[p].id = i /\ work'[p].kind = kind /\ work'[p].to = a /\ work'[p].token = t
      /\ \A q \in Tasks : q # p => pc'[q] = pc[q] /\ work'[q] = work[q]
  BY <1>1, <1>2, Zenon DEF Types
<1>4. pending'[t] = None /\ \A s \in Tokens : s # t => pending'[s] = pending[s]
  BY <1>1, <1>2, Zenon DEF TableTypes
<1>5. PendingKnown'
  BY <1>2, <1>4, KeepPending, Zenon DEF TokenInv, SameTokens
<1>6. Issued(t, i, kind, a)'
  BY <1>2, Zenon DEF TokenInv, PendingKnown, Issued
<1>7. HandlerKnown'
  <2> SUFFICES ASSUME NEW q \in Tasks, pc'[q] \in Answering
               PROVE  Issued(work[q].token, work[q].id, work[q].kind, work[q].to)'
    BY Zenon DEF HandlerKnown
  <2>1. CASE q = p
    BY <1>3, <1>6, <2>1, Zenon DEF Issued
  <2>2. CASE q # p
    BY <1>2, <1>3, <2>2, SMTT(30) DEF TokenInv, HandlerKnown, Issued
  <2> QED
    BY <2>1, <2>2, Zenon
<1>8. \A d \in Conns, s \in Tokens : OlderFor(d, s)
  BY <1>1, <1>2, OlderSame, OlderAnswers, Zenon
<1>9. QueueKnown'
  BY <1>2, <1>8, KeepQueue, Zenon DEF TokenInv, QueueKnown
<1>10. SenderKnown'
  <2> SUFFICES ASSUME NEW q \in Tasks, pc'[q] = "push", tx'[q] # None, conn'[tx'[q]] # None
               PROVE  conn'[tx'[q]].addr = work'[q].to
    BY Zenon DEF SenderKnown
  <2>1. q # p /\ pc[q] = "push" /\ work'[q] = work[q]
    BY <1>3, Zenon
  <2> QED
    BY <1>2, <2>1, Zenon DEF TokenInv, SenderKnown
<1>11. ASSUME NEW s \in Tokens PROVE OnePlace(s)'
  <2>1. CASE s = t
    <3>1. /\ \A q \in Tasks : ~Handles(q, t)
          /\ \A d \in Conns : AnswersIn(d, t) = {}
      BY <1>2, Zenon DEF TokenInv, OnePlace
    <3>2. \A q \in Tasks : Handles(q, t)' => q = p
      BY <1>3, <3>1, Zenon DEF Handles
    <3>3. \A d \in Conns : AnswersIn(d, t)' = {}
      BY <1>2, <3>1, Zenon DEF AnswersIn
    <3> QED
      BY <1>4, <2>1, <3>2, <3>3, Zenon DEF OnePlace
  <2>2. CASE s # t
    <3>1. \A q \in Tasks : Handles(q, s)' => Handles(q, s)
      BY <1>3, <2>2, Zenon DEF Handles
    <3> QED
      BY <1>4, <1>8, <2>2, <3>1, KeepPlaces, Zenon DEF TokenInv
  <2> QED
    BY <2>1, <2>2, Zenon
<1> QED
  BY <1>5, <1>7, <1>9, <1>10, <1>11, Zenon DEF TokenInv

\* send_to_tcp takes the sink of the requester's address.
LEMMA TakeSinkTokens ==
  ASSUME RouteInv, [Next]_vars, TokenInv, NEW p \in Tasks, TakeSink(p)
  PROVE  TokenInv'
<1>1. LinkInv /\ Types /\ TaskInv /\ TableTypes /\ SinksLive
  BY StepFacts, Zenon DEF RouteInv, TableInv
<1>2. /\ UNCHANGED <<conn, work, queue, pending, asked>> /\ pc[p] = "answer"
      /\ tx' = [tx EXCEPT ![p] = sinks[work[p].to]] /\ pc' = [pc EXCEPT ![p] = "push"]
  BY Zenon DEF TakeSink, Hold, history, Goto
<1>3. /\ pc'[p] = "push" /\ tx'[p] = sinks[work[p].to]
      /\ \A q \in Tasks : q # p => pc'[q] = pc[q] /\ tx'[q] = tx[q]
  BY <1>1, <1>2, Zenon DEF Types
<1>4. \A q \in Tasks : pc'[q] \in Answering => pc[q] \in Answering /\ work'[q] = work[q]
  BY <1>2, <1>3, Zenon DEF Answering
<1>5. PendingKnown' /\ HandlerKnown'
  BY <1>2, <1>4, KeepPending, KeepHandlers, Zenon DEF TokenInv, SameTokens
<1>6. \A d \in Conns, s \in Tokens : OlderFor(d, s)
  BY <1>1, <1>2, OlderSame, OlderAnswers, Zenon
<1>7. QueueKnown'
  BY <1>2, <1>6, KeepQueue, Zenon DEF TokenInv, QueueKnown
<1>8. SenderKnown'
  <2>1. work[p].to \in Addrs
    BY <1>1, <1>2, Zenon DEF TaskInv, Control, Answering, Types, Opt, Work
  <2>2. tx'[p] # None => conn[tx'[p]].addr = work[p].to
    BY <1>1, <1>3, <2>1, Zenon DEF SinksLive
  <2> QED
    BY <1>2, <1>3, <2>2, SMTT(30) DEF TokenInv, SenderKnown
<1>9. ASSUME NEW s \in Tokens PROVE OnePlace(s)'
  <2>1. \A q \in Tasks : Handles(q, s)' => Handles(q, s)
    BY <1>4, Zenon DEF Handles
  <2> QED
    BY <1>2, <1>6, <2>1, KeepPlaces, Zenon DEF TokenInv
<1> QED
  BY <1>5, <1>7, <1>8, <1>9, Zenon DEF TokenInv

\* An expired token is dropped.
LEMMA ExpiredTokens ==
  ASSUME RouteInv, [Next]_vars, TokenInv, NEW p \in Tasks, NEW t \in Tokens, ConsumeExpired(p, t)
  PROVE  TokenInv'
<1>1. LinkInv /\ Types /\ TaskInv /\ TableTypes /\ Moves(p) /\ pc[p] = "serving"
  <2>1. Answers(p)
    BY Zenon DEF Answers
  <2> QED
    BY <2>1, StepFacts, AnswersMove, Zenon DEF RouteInv, TableInv, ConsumeExpired
<1>2. UNCHANGED asked /\ SameTokens
  BY <1>1, Zenon DEF ConsumeExpired, SameTokens, TableTypes, history
<1>3. pc'[p] \notin Answering
  BY <1>1, Zenon DEF ConsumeExpired, HangUp, Goto, Types, Answering
<1>4. \A q \in Tasks : SameAnswer(q)
  BY <1>1, <1>3, AloneAnswers, Zenon DEF SameAnswer
<1>5. \A d \in Conns : Older(d)
  <2>1. UNCHANGED queue \/ (p \in Conns /\ HangUp(p))
    BY Zenon DEF ConsumeExpired, Tasks
  <2> QED
    BY <1>1, <2>1, OlderSame, OlderHangUp, Zenon
<1> QED
  BY <1>2, <1>4, <1>5, QuietTokens, Zenon DEF TokenQuiet

LEMMA AppendedAnswers ==
  ASSUME LinkInv, NEW c \in Conns, NEW m \in Message, queue'[c] = Append(queue[c], m), NEW s,
         NEW k \in AnswersIn(c, s)'
  PROVE  \/ k \in AnswersIn(c, s) /\ queue'[c][k] = queue[c][k]
         \/ k = Len(queue[c]) + 1 /\ queue'[c][k] = m /\ m.token = s
<1>1. queue[c] \in Seq(Message) /\ Len(queue[c]) \in Nat
  BY DEF LinkInv, IsQueues
<1>2. /\ Len(queue'[c]) = Len(queue[c]) + 1
      /\ \A j \in 1..Len(queue[c]) : queue'[c][j] = queue[c][j]
      /\ queue'[c][Len(queue[c]) + 1] = m
  BY <1>1
<1>3. k \in 1..Len(queue'[c]) /\ queue'[c][k].type = "answer" /\ queue'[c][k].token = s
  BY Zenon DEF AnswersIn
<1>4. CASE k = Len(queue[c]) + 1
  BY <1>2, <1>3, <1>4, Zenon
<1>5. CASE k # Len(queue[c]) + 1
  BY <1>1, <1>2, <1>3, <1>5, SMTT(30) DEF AnswersIn
<1> QED
  BY <1>4, <1>5, Zenon

\* The answer goes into the queue whose sender the handler has taken, if it
\* goes anywhere.
LEMMA AnswerQueues ==
  ASSUME RouteInv, NEW p \in Tasks, SendAnswer(p), NEW c \in Conns
  PROVE  \/ queue'[c] = queue[c] \/ queue'[c] = <<>>
         \/ /\ c = tx[p] /\ conn[c] # None
            /\ queue'[c] = Append(queue[c], Carrying("answer", work[p]))
<1>1. queue \in [Conns -> Seq(Message)]
  BY Zenon DEF RouteInv, Types
<1> DEFINE m == Carrying("answer", work[p])
           full == IF tx[p] # None /\ Room(tx[p])
                   THEN [queue EXCEPT ![tx[p]] = Append(@, m)] ELSE queue
<1>2. queue' = IF p = Udp THEN full ELSE [full EXCEPT ![p] = <<>>]
  BY Zenon DEF SendAnswer
<1>3. \/ full[c] = queue[c]
      \/ c = tx[p] /\ conn[c] # None /\ full[c] = Append(queue[c], m)
  BY <1>1, Zenon DEF Room
<1>4. c \in DOMAIN full
  BY <1>1, Zenon
<1>5. queue'[c] = full[c] \/ queue'[c] = <<>>
  <2> HIDE DEF full
  <2> QED
    BY <1>2, <1>4, Zenon
<1> QED
  BY <1>3, <1>5, Zenon

LEMMA SendTokens ==
  ASSUME RouteInv, [Next]_vars, TokenInv, NEW p \in Tasks, SendAnswer(p)
  PROVE  TokenInv'
<1> DEFINE m == Carrying("answer", work[p])
<1>1. /\ LinkInv /\ LinkInv' /\ Types /\ TaskInv /\ TableTypes /\ Moves(p) /\ KeepsAddr
      /\ pc[p] = "push" /\ UNCHANGED <<pending, asked>>
  <2>1. Answers(p)
    BY Zenon DEF Answers
  <2> QED
    BY <2>1, StepFacts, AnswersMove, Zenon DEF RouteInv, TableInv, SendAnswer, history
<1>1a. work[p] \in Work /\ work[p].token \in Tokens
  BY <1>1, Zenon DEF TaskInv, Control, Answering, Types, Opt, Work
<1>2. PICK t \in Tokens : t = work[p].token
  BY <1>1a, Zenon
<1>3. m \in Message /\ m.token = t /\ m.id = work[p].id /\ m.kind = work[p].kind
  BY <1>1a, <1>2, Zenon DEF Carrying, Work, Message
<1>4. pc'[p] \notin Answering
  BY <1>1, Zenon DEF SendAnswer, Goto, Types, Answering
<1>5. \A q \in Tasks : SameAnswer(q)
  BY <1>1, <1>4, AloneAnswers, Zenon DEF SameAnswer
<1>6. /\ Handles(p, t) /\ pending[t] = None
      /\ \A q \in Tasks : Handles(q, t) => q = p
      /\ \A c \in Conns : AnswersIn(c, t) = {}
  <2>1. Handles(p, t)
    BY <1>1, <1>2, Zenon DEF Handles, Answering
  <2> QED
    BY <1>2, <2>1, Zenon DEF TokenInv, OnePlace
<1>7. ASSUME NEW c \in Conns
      PROVE  \/ Older(c)
             \/ c = tx[p] /\ conn[c] # None /\ queue'[c] = Append(queue[c], m)
  BY <1>1, <1>7, AnswerQueues, OlderSame, Zenon
<1> HIDE DEF m
<1>8. ASSUME NEW c \in Conns, NEW s \in Tokens, s # t PROVE OlderFor(c, s)
  <2>1. CASE Older(c)
    BY <1>8, <2>1, OlderAnswers, Zenon
  <2>2. CASE queue'[c] = Append(queue[c], m)
    <3>1. ASSUME NEW k \in AnswersIn(c, s)'
          PROVE  k \in AnswersIn(c, s) /\ queue'[c][k] = queue[c][k]
      <4>1. \/ k \in AnswersIn(c, s) /\ queue'[c][k] = queue[c][k]
            \/ k = Len(queue[c]) + 1 /\ queue'[c][k] = m /\ m.token = s
        BY <1>1, <1>3, <1>8, <2>2, <3>1, AppendedAnswers, Zenon
      <4> QED
        BY <1>3, <1>8, <4>1, Zenon
    <3>2. \A k \in AnswersIn(c, s)' : k + 0 = k
      BY DEF AnswersIn
    <3>3. \A k \in AnswersIn(c, s)' : k + 0 \in AnswersIn(c, s) /\ queue'[c][k] = queue[c][k + 0]
      BY <3>1, <3>2, Zenon
    <3> QED
      BY <3>3, Zenon DEF OlderFor
  <2> QED
    BY <1>7, <1>8, <2>1, <2>2, Zenon

\* Where the token is after the step.
<1>9. ASSUME NEW c \in Conns, NEW k \in AnswersIn(c, t)'
      PROVE  /\ c = tx[p] /\ conn[c] # None
             /\ k = Len(queue[c]) + 1 /\ queue'[c][k] = m
  <2>1. ~Older(c)
    BY <1>6, <1>9, OlderAnswers, Zenon DEF OlderFor
  <2>2. c = tx[p] /\ conn[c] # None /\ queue'[c] = Append(queue[c], m)
    BY <1>7, <1>9, <2>1, Zenon
  <2>3. \/ k \in AnswersIn(c, t) /\ queue'[c][k] = queue[c][k]
        \/ k = Len(queue[c]) + 1 /\ queue'[c][k] = m /\ m.token = t
    <3>1. LinkInv /\ m \in Message /\ queue'[c] = Append(queue[c], m)
      BY <1>1, <1>3, <2>2, Zenon
    <3> QED
      BY <1>9, <3>1, AppendedAnswers, ZenonT(30)
  <2> QED
    BY <1>6, <2>2, <2>3, Zenon
<1>10. PendingKnown' /\ HandlerKnown'
  BY <1>1, <1>5, KeepPending, KeepHandlers, Zenon DEF TokenInv, SameTokens, SameAnswer
<1>11. QueueKnown'
  <2> SUFFICES ASSUME NEW c \in Conns, NEW s \in Tokens, NEW k \in AnswersIn(c, s)'
               PROVE  Issued(s, queue[c][k].id, queue[c][k].kind, conn[c].addr)'
    BY Zenon DEF QueueKnown
  <2>1. CASE s # t
    BY <1>1, <1>8, <2>1, KeepQueue, Zenon DEF TokenInv, QueueKnown
  <2>2. CASE s = t
    <3>1. c = tx[p] /\ conn[c] # None /\ queue'[c][k] = m
      BY <1>9, <2>2, Zenon
    <3>2. conn'[c] # None
      BY <1>1, QueueLinksNext, Zenon
    <3>3. conn'[c].addr = work[p].to
      BY <1>1, <3>1, <3>2, RoutingNames, Zenon DEF TokenInv, SenderKnown, KeepsAddr
    <3>4. Issued(t, work[p].id, work[p].kind, work[p].to)
      BY <1>1, <1>2, Zenon DEF TokenInv, HandlerKnown, Answering
    <3> QED
      BY <1>1, <1>3, <2>2, <3>1, <3>3, <3>4, Zenon DEF Issued
  <2> QED
    BY <2>1, <2>2, Zenon
<1>12. SenderKnown'
  BY <1>5, KeepSenders, Zenon DEF TokenInv, SameAnswer, SenderKnown, Answering
<1>13. ASSUME NEW s \in Tokens PROVE OnePlace(s)'
  <2>1. \A q \in Tasks : Handles(q, s)' => Handles(q, s)
    BY <1>5, Zenon DEF Handles, SameAnswer
  <2>2. CASE s # t
    BY <1>1, <1>8, <2>1, <2>2, KeepPlaces, Zenon DEF TokenInv
  <2>3. CASE s = t
    <3>1. \A q \in Tasks : ~Handles(q, t)'
      BY <1>4, <1>6, <2>1, <2>3, Zenon DEF Handles
    <3>2. \A c, d \in Conns : \A k \in AnswersIn(c, t)', j \in AnswersIn(d, t)' : c = d /\ k = j
      BY <1>9, Zenon
    <3>3. pending'[t] = None
      BY <1>1, <1>6, Zenon
    <3> QED
      BY <2>3, <3>1, <3>2, <3>3, Zenon DEF OnePlace
  <2> QED
    BY <2>2, <2>3, Zenon
<1> QED
  BY <1>10, <1>11, <1>12, <1>13, Zenon DEF TokenInv

LEMMA TimeTokens ==
  ASSUME RouteInv, [Next]_vars, TokenInv,
         \/ \E i \in Ids : RegistrationLapses(i)
         \/ \E t \in Tokens : TokenExpires(t)
         \/ UNCHANGED vars
  PROVE  TokenInv'
<1>1. UNCHANGED <<pc, work, tx, queue, asked>>
  BY Zenon DEF RegistrationLapses, TokenExpires, vars, history
<1>2. SameTokens
  <2>1. CASE UNCHANGED pending
    BY <2>1, Zenon DEF SameTokens
  <2>2. ASSUME NEW t \in Tokens, TokenExpires(t) PROVE SameTokens
    <3>1. pending \in [Tokens -> Opt(Entry)] /\ pending[t] \in Entry
      BY <2>2, Zenon DEF RouteInv, Types, TokenExpires, Current, Opt
    <3> QED
      BY <2>2, <3>1, NoneIsNoRecord, Zenon DEF SameTokens, TokenExpires, Entry
  <2> QED
    BY <2>1, <2>2, Zenon DEF RegistrationLapses, vars
<1>3. \A c \in Conns : Older(c)
  BY <1>1, OlderSame, StepFacts, Zenon
<1> QED
  BY <1>1, <1>2, <1>3, QuietTokens, Zenon DEF TokenQuiet, SameAnswer

LEMMA InitTokens == Init => TokenInv
<1> SUFFICES ASSUME Init PROVE TokenInv
  BY Zenon
<1>1. \A p \in Tasks : pc[p] \notin Answering
  BY RoutingNames, Zenon DEF Init, Answering, Tasks
<1>2. \A c \in Conns : \A t \in Tokens : AnswersIn(c, t) = {}
  BY DEF Init, AnswersIn
<1>3. \A t \in Tokens : pending[t] = None
  BY Zenon DEF Init
<1>4. PendingKnown /\ HandlerKnown /\ QueueKnown /\ SenderKnown
  BY <1>1, <1>2, <1>3, Zenon DEF PendingKnown, HandlerKnown, QueueKnown, SenderKnown, Answering
<1>5. \A t \in Tokens : OnePlace(t)
  BY <1>1, <1>2, <1>3, Zenon DEF OnePlace, Handles
<1> QED
  BY <1>4, <1>5, Zenon DEF TokenInv

LEMMA NextTokens == RouteInv /\ TokenInv /\ [Next]_vars => TokenInv'
<1> SUFFICES ASSUME RouteInv, TokenInv, [Next]_vars PROVE TokenInv'
  BY Zenon
<1>1. ASSUME NEW c \in Conns, Connection(c) \/ Requests(c) PROVE TokenInv'
  BY <1>1, ConnectionQuiet, QuietTokens, RequestsTokens, Zenon
<1>2. ASSUME NEW p \in Tasks, Answers(p) PROVE TokenInv'
  BY <1>2, ConsumeTokens, ExpiredTokens, TakeSinkTokens, SendTokens, Zenon DEF Answers
<1> QED
  BY <1>1, <1>2, TimeTokens, Zenon DEF Next

LEMMA AlwaysTokens == Spec => [](RouteInv /\ TokenInv)
  BY AlwaysRoute, InitTokens, NextTokens, PTL DEF Spec

\* An answer in a queue was given by the peer and in the form that the request
\* named, and the queue is that of a connection from the requester's address:
\* consume_pending_rendezvous_in compares all three, and a sender taken out of
\* tcp_punch stays that of its connection.
THEOREM RightAnswer == Spec => []AnswersMatch
<1>1. ASSUME RouteInv, TokenInv, NEW c \in Conns, NEW k \in 1..Len(queue[c]),
             queue[c][k].type = "answer"
      PROVE  /\ asked[queue[c][k].token].id = queue[c][k].id
             /\ asked[queue[c][k].token].kind = queue[c][k].kind
             /\ asked[queue[c][k].token].requester = conn[c].addr
  <2>1. queue[c] \in Seq(Message)
    BY <1>1, Zenon DEF RouteInv, Types
  <2>2. queue[c][k] \in Message
    BY <1>1, <2>1
  <2>3. queue[c][k].token \in Tokens
    BY <1>1, <2>2, Zenon DEF Message
  <2>4. k \in AnswersIn(c, queue[c][k].token)
    BY <1>1, Zenon DEF AnswersIn
  <2> QED
    BY <1>1, <2>3, <2>4, Zenon DEF TokenInv, QueueKnown, Issued
<1>2. RouteInv /\ TokenInv => AnswersMatch
  BY <1>1, Zenon DEF AnswersMatch
<1> QED
  BY <1>2, AlwaysTokens, PTL

LEMMA AtMostOne ==
  ASSUME NEW S, \A x, y \in S : x = y
  PROVE  Cardinality(S) <= 1
<1>1. CASE S = {}
  BY <1>1, FS_EmptySet
<1>2. CASE S # {}
  <2>1. PICK x \in S : S = {x}
    BY <1>2, Zenon
  <2> QED
    BY <2>1, FS_Singleton
<1> QED
  BY <1>1, <1>2, Zenon

\* A token is in pending_rendezvous, in the hands of one handler, or once in one
\* queue, however many connections and the UDP socket answer at the same time:
\* consume_pending_rendezvous_in removes it under the lock under which it was
\* compared, and send_to_tcp queues it once.
THEOREM TokenUsedOnce == Spec => []TokenOneShot
<1>1. ASSUME TokenInv, NEW t \in Tokens PROVE Cardinality(Places(t)) <= 1
  <2>1. \A x \in Places(t) :
          \/ x = <<"pending", t>> /\ pending[t] # None
          \/ \E p \in Tasks : x = <<"handler", p>> /\ Handles(p, t)
          \/ \E c \in Conns : \E k \in AnswersIn(c, t) : x = <<"queue", c, k>>
    BY Zenon DEF Places, Handles, Answering
  <2>2. OnePlace(t)
    BY <1>1, Zenon DEF TokenInv
  <2> SUFFICES ASSUME NEW x \in Places(t), NEW y \in Places(t) PROVE x = y
    BY AtMostOne, Zenon
  <2>3. CASE x = <<"pending", t>> /\ pending[t] # None
    BY <2>1, <2>2, <2>3, Zenon DEF OnePlace
  <2>4. ASSUME NEW p \in Tasks, x = <<"handler", p>>, Handles(p, t) PROVE x = y
    BY <2>1, <2>2, <2>4, Zenon DEF OnePlace
  <2>5. ASSUME NEW c \in Conns, NEW k \in AnswersIn(c, t), x = <<"queue", c, k>> PROVE x = y
    BY <2>1, <2>2, <2>5 DEF OnePlace
  <2> QED
    BY <2>1, <2>3, <2>4, <2>5, Zenon
<1>2. RouteInv /\ TokenInv => TokenOneShot
  BY <1>1, Zenon DEF TokenOneShot
<1> QED
  BY <1>2, AlwaysTokens, PTL
=============================================================================
