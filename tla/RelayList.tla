----------------------------- MODULE RelayList ------------------------------
(***************************************************************************)
(* The main loop of the identity server as far as the list of relay        *)
(* servers goes: the list that clients are offered, the health check that  *)
(* probes the configured servers every three seconds, the console command  *)
(* that replaces the list, the tasks of the NAT-test port that also serve  *)
(* the console, and the failure and rebinding of a listener.               *)
(*                                                                         *)
(* get_servers drops duplicates and the order only matters for the         *)
(* rotation, so a list is a set.                                           *)
(***************************************************************************)
EXTENDS Naturals, Sequences, FiniteSets

CONSTANTS
  Servers,
  Lists,         \* the lists that the operator uses
  Conns,         \* connections to the NAT-test port
  Slots,         \* permits of connection_slots
  QueueCapacity, \* RENDEZVOUS_EVENT_QUEUE_CAPACITY
  Listeners,     \* the sockets whose failure ends io_loop
  MaxUpdates,    \* bound on the updates of the list
  None

VARIABLES
  configured,  \* relay_servers0
  offered,     \* relay_servers
  events,      \* the channel from consoles and health check to the loop
  check,       \* the running health check (RELAY_CHECK_RUNNING), or None:
               \* the servers left to probe and those found
  alive,       \* the servers that accept connections
  loop,        \* "select", the listener that failed, or "exited"
  conn,        \* where the task of a connection is, and the list it posts
  updates

vars == <<configured, offered, events, check, alive, loop, conn, updates>>
listVars == <<configured, offered>>

Running == loop = "select"
At(label) == [at |-> label, servers |-> {}]

\* parse_relay_servers of the option, then the loop starts.
Init ==
  /\ configured \in Lists /\ offered = configured
  /\ events = <<>>
  /\ check = None
  /\ alive \in SUBSET Servers
  /\ loop = "select"
  /\ conn = [c \in Conns |-> At("none")]
  /\ updates = 0

Room == Len(events) < QueueCapacity
Post(set, servers) == events' = Append(events, [set |-> set, servers |-> servers])

-----------------------------------------------------------------------------
(* The arms of io_loop.                                                    *)

\* The timer: at most one check runs, and none for a single server.
StartCheck ==
  /\ Running /\ Cardinality(configured) > 1 /\ check = None
  /\ check' = [left |-> configured, found |-> {}]
  /\ UNCHANGED <<listVars, events, alive, loop, conn, updates>>

\* RelayServers0 replaces both lists, RelayServers the offered one.
TakeEvent ==
  /\ Running /\ events # <<>>
  /\ offered' = Head(events).servers
  /\ configured' = IF Head(events).set THEN Head(events).servers ELSE configured
  /\ events' = Tail(events)
  /\ UNCHANGED <<check, alive, loop, conn, updates>>

\* handle_listener2: a connection from this host is the console, if enabled.
Accept(c, kind) ==
  /\ Running /\ conn[c].at = "none"
  /\ Cardinality({d \in Conns : conn[d].at # "none"}) < Slots
  /\ conn' = [conn EXCEPT ![c] = At(kind)]
  /\ UNCHANGED <<listVars, events, check, alive, loop, updates>>

\* accept or the UDP socket reports an error and io_loop returns.
ListenerFails(l) ==
  /\ Running
  /\ loop' = l
  /\ UNCHANGED <<listVars, events, check, alive, conn, updates>>

\* start_with_bind binds that socket again; the state of the server is kept.
Rebind ==
  /\ loop \in Listeners
  /\ loop' = "select"
  /\ UNCHANGED <<listVars, events, check, alive, conn, updates>>

\* The port cannot be bound: the server ends, and its tasks with it.
RebindFails ==
  /\ loop \in Listeners
  /\ loop' = "exited"
  /\ events' = <<>> /\ check' = None /\ conn' = [c \in Conns |-> At("none")]
  /\ UNCHANGED <<listVars, alive, updates>>

-----------------------------------------------------------------------------
(* check_relay_servers: one task per server, joined at the end.            *)

Probe(s) ==
  /\ check # None /\ s \in check.left
  /\ check' = [left |-> check.left \ {s}, found |-> check.found \cup ({s} \cap alive)]
  /\ UNCHANGED <<listVars, events, alive, loop, conn, updates>>

\* Mutant of EndCheck: a result without servers is posted as well.
EndCheckAlways ==
  /\ check # None /\ check.left = {}
  /\ Room /\ Post(FALSE, check.found)
  /\ check' = None
  /\ UNCHANGED <<listVars, alive, loop, conn, updates>>

\* Mutant of EndCheck: the flag is not cleared after an empty result.
EndCheckKeepingFlag ==
  /\ check # None /\ check.left = {} /\ check.found # {}
  /\ Room /\ Post(FALSE, check.found)
  /\ check' = None
  /\ UNCHANGED <<listVars, alive, loop, conn, updates>>

\* A result without servers is not posted; the send waits for room.
EndCheck ==
  /\ check # None /\ check.left = {}
  /\ \/ check.found = {} /\ UNCHANGED events
     \/ check.found # {} /\ Room /\ Post(FALSE, check.found)
  /\ check' = None
  /\ UNCHANGED <<listVars, alive, loop, conn, updates>>

-----------------------------------------------------------------------------
(* The tasks of handle_listener2.                                          *)

\* Where a task waits for its client to read; none of these waits has a limit.
Writing == {"greeting", "reply"}

Turn(c, label) == conn' = [conn EXCEPT ![c] = At(label)]

\* check_cmd "rs": get_servers accepts the text of the command.
ConsoleSet(c, servers) ==
  /\ conn[c].at = "console" /\ updates < MaxUpdates
  /\ conn' = [conn EXCEPT ![c] = [at |-> "posting", servers |-> servers]]
  /\ updates' = updates + 1
  /\ UNCHANGED <<listVars, events, check, alive, loop>>

\* The send waits for room, and the permit with it; then the answer is written.
ConsolePost(c) ==
  /\ conn[c].at = "posting"
  /\ Room /\ Post(TRUE, conn[c].servers)
  /\ Turn(c, "reply")
  /\ UNCHANGED <<listVars, check, alive, loop, updates>>

\* Any other command, which is answered, or none within a second.
ConsoleOther(c) ==
  /\ conn[c].at = "console"
  /\ \E label \in {"reply", "none"} : Turn(c, label)
  /\ UNCHANGED <<listVars, events, check, alive, loop, updates>>

\* attempt_handshake after its first send: the client's key, within its time
\* limit, or a failure.
Handshake(c) ==
  /\ conn[c].at = "handshake"
  /\ \E label \in {"message", "none"} : Turn(c, label)
  /\ UNCHANGED <<listVars, events, check, alive, loop, updates>>

\* Mutant of Message: the wait for the message has no limit.
MessageAwaited(c) ==
  /\ conn[c].at = "message"
  /\ UNCHANGED vars

\* One message within 30 s: a NAT test or online request, which is answered, or
\* anything else, or nothing.
Message(c) ==
  /\ conn[c].at = "message"
  /\ \E label \in {"reply", "none"} : Turn(c, label)
  /\ UNCHANGED <<listVars, events, check, alive, loop, updates>>

\* A write ends: the client has read enough, or its connection broke.  The
\* connection ends with the answer, and goes on after the first message of
\* attempt_handshake.
Written(c) ==
  /\ \/ conn[c].at = "greeting" /\ \E label \in {"handshake", "none"} : Turn(c, label)
     \/ conn[c].at = "reply" /\ Turn(c, "none")
  /\ UNCHANGED <<listVars, events, check, alive, loop, updates>>

-----------------------------------------------------------------------------
\* A relay server stops or comes back.
Flip(s) ==
  /\ alive' \in {alive \cup {s}, alive \ {s}} \ {alive}
  /\ UNCHANGED <<listVars, events, check, loop, conn, updates>>

Task(c) ==
  \/ \E servers \in Lists : ConsoleSet(c, servers)
  \/ ConsolePost(c) \/ ConsoleOther(c) \/ Handshake(c) \/ Message(c)

HealthCheck == (\E s \in Servers : Probe(s)) \/ EndCheck

Next ==
  \/ StartCheck \/ TakeEvent \/ HealthCheck \/ Rebind \/ RebindFails
  \/ \E l \in Listeners : ListenerFails(l)
  \/ \E c \in Conns, kind \in {"console", "greeting"} : Accept(c, kind)
  \/ \E c \in Conns : Task(c) \/ Written(c)
  \/ \E s \in Servers : Flip(s)

Spec == Init /\ [][Next]_vars

\* select! picks among its ready arms at random, so an arm that is ready again
\* and again is taken although listeners fail and connections arrive; the
\* channel serves its waiting senders in order; probes, reads and the rebinding
\* end by their time limits or by an error.  Nothing is assumed of a write:
\* it has no limit, and a client that does not read holds it up.
Fairness ==
  /\ SF_vars(StartCheck) /\ SF_vars(TakeEvent)
  /\ WF_vars(\E s \in Servers : Probe(s))
  /\ SF_vars(EndCheck)
  /\ WF_vars(Rebind \/ RebindFails)
  /\ \A c \in Conns : WF_vars(Task(c)) /\ SF_vars(ConsolePost(c))

FairSpec == Spec /\ Fairness

-----------------------------------------------------------------------------
(* Properties.                                                             *)

\* While relay servers are configured the clients are offered some, however
\* many fail (check_relay_servers posts no empty result, and an update
\* replaces both lists).
NeverWithoutRelay == configured # {} => offered # {}

\* If the operator has configured several servers and one of them stays
\* reachable, it is offered for good, and with it only configured ones: results
\* of checks of an older list, failing listeners and a full event queue only
\* delay that (RELAY_CHECK_RUNNING is cleared whatever the check finds).
HealthyServerStays == \A s \in Servers :
  (<>[](Cardinality(configured) > 1 /\ s \in configured \cap alive /\ loop # "exited"))
    => <>[](s \in offered /\ offered \subseteq configured)

\* A client that never reads what is written to it.
Unread(c) == <>[](conn[c].at \in Writing)

\* A connection to the NAT-test port gives its permit back, unless its client
\* does not read: neither a console command that waits for room in the queue
\* nor a client that sends nothing keeps it (handle_listener2 and its time
\* limits, which cover every read and no write).
PermitsReturn == \A c \in Conns :
  Unread(c) \/ (conn[c].at # "none" ~> conn[c].at = "none")

\* What CAMELLIA_REMOTE_RELAY_SERVERS and the console command configure is what
\* clients end up being offered (README: "public relay `host:port` values
\* advertised to clients"), once the operator has made the last change.
ConfiguredIsOffered == <>[](offered \subseteq configured \/ loop = "exited")
=============================================================================
