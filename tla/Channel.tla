------------------------------- MODULE Channel -------------------------------
(***************************************************************************)
(* The logical channel between two userver nodes: class remote             *)
(* (app/userver/remote.cpp) at both ends, the NetServer code that feeds it *)
(* (app/userver/netserver.cpp: do_accept, onSessionCreated,                *)
(* onSessionClosed, auth, handlePriorityMsg, handleRemoteMsg) and a pair   *)
(* of sessions (SessionCore) per TCP connection.                           *)
(*                                                                         *)
(* Node "hi" has the greater name: it is the boss, the one that gives the  *)
(* sessions their priorities.  All sessions with the peer share one IP     *)
(* address, so m_ipToSession is one set per node.                          *)
(*                                                                         *)
(* TCP is two FIFO streams of lines per connection.  Closing an end        *)
(* discards what it has not read, and its peer meets an error sooner or    *)
(* later; with Faults, connections also break by themselves.               *)
(***************************************************************************)
EXTENDS SessionCore, FiniteSets

CONSTANTS
  Conns,      \* TCP connections that may ever be opened
  Data,       \* application messages
  MaxAddrs,   \* the values of MaxConnectionsWithAddr to consider
  Wanted,     \* wantedConnections
  Dialers,    \* the nodes whose configuration lists the other one
  Faults,     \* BOOLEAN: established connections may break
  None        \* no session

VARIABLES
  limit,   \* MaxConnectionsWithAddr
  node,    \* the state of each node, a record:
           \*   ss[c]    its session object on connection c
           \*   H, L, C  m_sessionH, m_sessionL, m_sessionC of its remote
           \*   wait     m_sessionWaitForRemote
           \*   high     m_outHighQueue
           \*   ips      m_ipToSession of the peer's address
  backlog, \* backlog[n]: established connections that node n has not accepted
  wire,    \* wire[n][c]: the lines on their way to node n on connection c
  fresh,   \* the application messages not yet sent
  got      \* got[m]: how often message m was dispatched at the receiver

vars == <<limit, node, backlog, wire, fresh, got>>

Nodes == {"lo", "hi"}
Peer(n) == IF n = "lo" THEN "hi" ELSE "lo"

Priorities == {"high", "low", "control"}
Service == {"auth", "bye", "garbage"}
Lines == Service \cup Priorities \cup Data

\* Data are the messages of the other classes, and a null pointer is neither a
\* connection nor a session.
ASSUME ChannelAssumption ==
  /\ IsFiniteSet(Conns) /\ None \notin Conns
  /\ None \notin SessionType(Lines)
  /\ Data \cap (Service \cup Priorities) = {}
  /\ MaxAddrs \subseteq Nat /\ Wanted \in Nat
  /\ Faults \in BOOLEAN /\ Dialers \subseteq {"lo", "hi"}

NewNode ==
  [ss |-> [c \in Conns |-> None], H |-> None, L |-> None, C |-> None,
   wait |-> {}, high |-> <<>>, ips |-> {}]

Init ==
  /\ limit \in MaxAddrs
  /\ node = [n \in Nodes |-> NewNode]
  /\ backlog = [n \in Nodes |-> {}]
  /\ wire = [n \in Nodes |-> [c \in Conns |-> <<>>]]
  /\ fresh = Data
  /\ got = [m \in Data |-> 0]

-----------------------------------------------------------------------------
(* What the methods of NetServer and remote do to the state of a node.     *)

With(N, c, s) == [N EXCEPT !.ss[c] = s]

Exists(n, c) == node[n].ss[c] # None

\* onSessionCreated(): the session enters m_ipToSession.
OnSessionCreated(N, c, s) == [With(N, c, s) EXCEPT !.ips = @ \cup {c}]

\* remote::onSessionClosed(), connected by addSession().
RemoteForgetsKeepsQueue(N, c) ==
  [N EXCEPT !.wait = @ \ {c}, !.H = IF @ = c THEN None ELSE @,
            !.L = IF @ = c THEN None ELSE @, !.C = IF @ = c THEN None ELSE @,
            !.high = IF N.H = c THEN N.ss[c].q \o @ ELSE @]
RemoteForgets(N, c) ==
  [N EXCEPT !.wait = @ \ {c}, !.H = IF @ = c THEN None ELSE @,
            !.L = IF @ = c THEN None ELSE @, !.C = IF @ = c THEN None ELSE @]

\* stop() on session s, with the slots of s_closed: NetServer::onSessionClosed()
\* and, once the session is authenticated, remote::onSessionClosed().
StopSessionLeaks(N, c, s, unread) ==
  { IF s.stopped \/ ~s.auth THEN With(N, c, t)
    ELSE RemoteForgets([With(N, c, t) EXCEPT !.ips = @ \ {c}], c) :
      t \in Stop(s, IF unread THEN {"late"} ELSE {}) }
StopSession(N, c, s, unread) ==
  { LET M == [With(N, c, t) EXCEPT !.ips = @ \ {c}]
    IN  IF s.stopped THEN With(N, c, t)
        ELSE IF s.auth THEN RemoteForgets(M, c) ELSE M :
      t \in Stop(s, IF unread THEN {"late"} ELSE {}) }

CloseIn(N, c) == IF c = None THEN N ELSE With(N, c, GracefullClose(N.ss[c]))

\* remote::addSession() on the boss: the first free slot, or out.
AssignSlotSaysHigh(N, c) ==
  LET s == PutOutQueue(N.ss[c], "high")
  IN  IF N.H = None THEN { [With(N, c, s) EXCEPT !.H = c] }
      ELSE IF N.L = None THEN { [With(N, c, s) EXCEPT !.L = c] }
      ELSE { CloseIn(N, c) }
AssignSlotCopiesQueue(N, c) ==
  IF N.H = None
    THEN { [With(N, c, t) EXCEPT !.H = c] :
             t \in TakeOverMessages(PutOutQueue(N.ss[c], "high"), N.high) }
    ELSE { [With(N, c, PutOutQueue(N.ss[c], "low")) EXCEPT !.L = c] }
AssignSlotKeepsDuplicate(N, c) ==
  LET s == N.ss[c]
  IN  IF N.H = None
        THEN { [With(N, c, PutOutQueue(s, "high")) EXCEPT !.H = c] }
      ELSE IF N.L = None
        THEN { [With(N, c, PutOutQueue(s, "low")) EXCEPT !.L = c] }
      ELSE { N }
AssignSlot(N, c) ==
  LET s == N.ss[c]
  IN  CASE N.H = None ->
             { [With(N, c, t) EXCEPT !.H = c, !.high = <<>>] :
                 t \in TakeOverMessages(PutOutQueue(s, "high"), N.high) }
        [] N.H # None /\ N.L = None ->
             { [With(N, c, PutOutQueue(s, "low")) EXCEPT !.L = c] }
        [] /\ N.H # None /\ N.L # None /\ N.C = None
           /\ N.ss[N.H].dir = "incoming" /\ N.ss[N.L].dir = "incoming"
           /\ s.dir = "outgoing" ->
             { [With(N, c, PutOutQueue(s, "control")) EXCEPT !.C = c] }
        [] OTHER -> { CloseIn(N, c) }

\* remote::addSession(), reached from s_auth through NetServer::auth().
AddSession(n, N, c) ==
  IF n = "lo" THEN { [N EXCEPT !.wait = @ \cup {c}] } ELSE AssignSlot(N, c)

\* remote::handlePriorityMsg(): the newest session takes the slot and the one
\* it overtakes is closed.
HandlePriorityKeepsWaiting(N, c, prio) ==
  CASE prio = "high" -> CloseIn([N EXCEPT !.H = c], N.H)
    [] prio = "low" -> CloseIn([N EXCEPT !.L = c], N.L)
    [] prio = "control" -> CloseIn([N EXCEPT !.C = c], N.C)
HandlePriority(N, c, prio) ==
  LET M == [N EXCEPT !.wait = @ \ {c}]
  IN  CASE c \in {M.H, M.L} -> M
        [] c \notin {M.H, M.L} /\ prio = "high" -> CloseIn([M EXCEPT !.H = c], M.H)
        [] c \notin {M.H, M.L} /\ prio = "low" -> CloseIn([M EXCEPT !.L = c], M.L)
        [] c \notin {M.H, M.L} /\ prio = "control" ->
             CloseIn([M EXCEPT !.C = c], M.C)

RemoteConnected(N) == N.H # None /\ N.L # None

\* remote::send(): on the H session once connected, until then in the remote.
RemoteSend(N, m) ==
  IF RemoteConnected(N) THEN With(N, N.H, PutOutQueue(N.ss[N.H], m))
  ELSE [N EXCEPT !.high = Append(@, m)]

Outgoing(N) == {c \in N.ips : N.ss[c].dir = "outgoing"}

\* What OutgoingManager::connectResolved() asks before it creates sessions, and
\* how many it creates.
WantsOutgoing(N) ==
  LET out == Outgoing(N)
  IN  /\ ~(RemoteConnected(N) /\ \E c \in out : N.ss[c].auth)
      /\ Cardinality(out) < Wanted \/ \A c \in out : N.ss[c].auth

SessionsToCreate(N) ==
  LET k == Cardinality(Outgoing(N)) IN IF k < Wanted THEN Wanted - k ELSE 1

-----------------------------------------------------------------------------
(* The handlers.                                                           *)

Gone(n, c) == Exists(n, c) /\ node[n].ss[c].stopped

\* The lines in transit once node n puts line m on connection c.
Sent(n, c, m) ==
  IF Gone(Peer(n), c) THEN wire ELSE [wire EXCEPT ![Peer(n)][c] = Append(@, m)]

\* Node n becomes N in a step of its session on c, with w in transit.  What a
\* dead session has not read will never be read.
Becomes(n, c, N, w) ==
  /\ node' = [node EXCEPT ![n] = N]
  /\ wire' = IF N.ss[c].stopped /\ N.ss[c].rd = "off"
               THEN [w EXCEPT ![n][c] = <<>>] ELSE w

StopStep(n, c, s, w) ==
  \E N \in StopSession(node[n], c, s, w[n][c] # <<>>) : Becomes(n, c, N, w)

\* connectResolved() creates the outgoing sessions that are missing, or as many
\* as the bound Conns leaves.
Dial(n) ==
  LET free == {c \in Conns : ~Exists("lo", c) /\ ~Exists("hi", c)}
      want == SessionsToCreate(node[n])
  IN  /\ n \in Dialers /\ free # {}
      /\ WantsOutgoing(node[n])
      /\ \E D \in SUBSET free :
           /\ \/ Cardinality(D) = want
              \/ D = free /\ Cardinality(free) < want
           /\ node' = [node EXCEPT
                ![n].ss = [c \in Conns |-> IF c \in D THEN NewSession("outgoing")
                                                       ELSE @[c]],
                ![n].ips = @ \cup D]
      /\ UNCHANGED <<backlog, wire, fresh, got>>

\* do_accept() with a new socket.
AcceptIntoTestsFirst(N, c) ==
  LET M == OnSessionCreated(N, c, NewSession("incoming"))
  IN  IF Cardinality(N.ips) > limit THEN CloseIn(M, c)
      ELSE With(M, c, Start(M.ss[c], "auth"))
AcceptInto(N, c) ==
  LET M == OnSessionCreated(N, c, NewSession("incoming"))
  IN  IF Cardinality(M.ips) > limit THEN CloseIn(M, c)
      ELSE With(M, c, Start(M.ss[c], "auth"))

\* connectHandler() without an error.
ConnectOk(n, c) ==
  /\ Exists(n, c) /\ node[n].ss[c].sock = "connecting"
  /\ Becomes(n, c,
       With(node[n], c, Start([node[n].ss[c] EXCEPT !.sock = "open"], "auth")),
       wire)
  /\ backlog' = [backlog EXCEPT ![Peer(n)] = @ \cup {c}]
  /\ UNCHANGED <<fresh, got>>

Accept(n, c) ==
  /\ c \in backlog[n]
  /\ backlog' = [backlog EXCEPT ![n] = @ \ {c}]
  /\ Becomes(n, c, AcceptInto(node[n], c), wire)
  /\ UNCHANGED <<fresh, got>>

ConnectErr(n, c) ==
  /\ Faults
  /\ Exists(n, c) /\ node[n].ss[c].sock = "connecting"
  /\ StopStep(n, c, node[n].ss[c], wire)
  /\ UNCHANGED <<backlog, fresh, got>>

Transmit(n, c) ==
  /\ Exists(n, c) /\ node[n].ss[c].wr = "started" /\ ~node[n].ss[c].stopped
  /\ Becomes(n, c, With(node[n], c, Transmitted(node[n].ss[c])),
             Sent(n, c, Head(node[n].ss[c].q)))
  /\ UNCHANGED <<backlog, fresh, got>>

WriteOk(n, c) ==
  /\ Exists(n, c) /\ node[n].ss[c].wr = "sent"
  /\ \E s \in WriteDone(node[n].ss[c]) :
       Becomes(n, c, With(node[n], c, s), wire)
  /\ UNCHANGED <<backlog, fresh, got>>

Broken(n, c) == Faults \/ node[n].ss[c].stopped \/ Gone(Peer(n), c)

WriteErr(n, c) ==
  /\ Exists(n, c) /\ node[n].ss[c].wr = "started" /\ Broken(n, c)
  /\ StopStep(n, c, [node[n].ss[c] EXCEPT !.wr = "none"], wire)
  /\ UNCHANGED <<backlog, fresh, got>>

\* The buffer of the bye message is gone before the write may use it: what the
\* peer receives is the message, something else, or nothing.
ByeDone(n, c) ==
  /\ Exists(n, c) /\ node[n].ss[c].bye > 0
  /\ \E w \in {wire} \cup (IF node[n].ss[c].stopped THEN {}
                           ELSE {Sent(n, c, "bye"), Sent(n, c, "garbage")}) :
       StopStep(n, c, [node[n].ss[c] EXCEPT !.bye = @ - 1], w)
  /\ UNCHANGED <<backlog, fresh, got>>

\* A line arrives.  The first one authenticates the session and is not
\* dispatched; the others are, and only priorities and application messages do
\* anything there.
ReadLine(n, c, s, m) ==
  CASE ~s.auth -> AddSession(n, With(node[n], c, [s EXCEPT !.auth = TRUE]), c)
    [] s.auth /\ m \in Priorities -> {HandlePriority(node[n], c, m)}
    [] OTHER -> {node[n]}

Read(n, c) ==
  /\ Exists(n, c) /\ node[n].ss[c].rd # "off" /\ wire[n][c] # <<>>
  /\ LET s == node[n].ss[c]
         m == Head(wire[n][c])
         w == [wire EXCEPT ![n][c] = Tail(@)]
     IN  /\ m # "garbage"
         /\ \E N \in ReadLine(n, c, s, m) : \E t \in LineDone(N.ss[c]) :
              Becomes(n, c, With(N, c, t), w)
         /\ got' = IF s.auth /\ m \in Data THEN [got EXCEPT ![m] = @ + 1] ELSE got
  /\ UNCHANGED <<backlog, fresh>>

\* A read error, or a line that InputProcessor cannot parse.
ReadErr(n, c) ==
  /\ Exists(n, c) /\ node[n].ss[c].rd # "off"
  /\ \/ node[n].ss[c].rd = "on" /\ Broken(n, c)
     \/ wire[n][c] # <<>> /\ Head(wire[n][c]) = "garbage"
  /\ StopStep(n, c, [node[n].ss[c] EXCEPT !.rd = "off"], wire)
  /\ UNCHANGED <<backlog, fresh, got>>

\* handleRemoteMsg() hands the message to remote::send().
Send(n, m) ==
  /\ m \in fresh
  /\ fresh' = fresh \ {m}
  /\ node' = [node EXCEPT ![n] = RemoteSend(@, m)]
  /\ UNCHANGED <<backlog, wire, got>>

Next ==
  /\ UNCHANGED limit
  /\ \/ \E n \in Nodes, c \in Conns :
          \/ ConnectOk(n, c) \/ ConnectErr(n, c) \/ Accept(n, c)
          \/ Transmit(n, c) \/ WriteOk(n, c) \/ WriteErr(n, c) \/ ByeDone(n, c)
          \/ Read(n, c) \/ ReadErr(n, c)
     \/ \E n \in Nodes : Dial(n)
     \/ \E n \in Nodes, m \in Data : Send(n, m)

Spec == Init /\ [][Next]_vars

-----------------------------------------------------------------------------

SlotsOf(N) == {N.H, N.L, N.C} \ {None}

TypeOK ==
  /\ limit \in MaxAddrs
  /\ \A n \in Nodes :
       /\ DOMAIN node[n].ss = Conns
       /\ \A c \in Conns : Exists(n, c) => node[n].ss[c] \in SessionType(Lines)
       /\ {node[n].H, node[n].L, node[n].C} \subseteq Conns \cup {None}
       /\ node[n].wait \subseteq Conns /\ node[n].ips \subseteq Conns
       /\ node[n].high \in Seq(Data)
  /\ backlog \in [Nodes -> SUBSET Conns]
  /\ wire \in [Nodes -> [Conns -> Seq(Lines)]]
  /\ fresh \subseteq Data
  /\ got \in [Data -> Nat]

\* A session has at most one place in its remote: it is waiting for the boss's
\* decision, or it holds one of the three slots, never two of them, whatever
\* the order in which priorities arrive and sessions die (remote.cpp:73-148).
OnePlaceEach ==
  \A n \in Nodes :
    LET N == node[n]
    IN  /\ N.H # None => N.H \notin {N.L, N.C}
        /\ N.L # None => N.L # N.C
        /\ SlotsOf(N) \cap N.wait = {}

\* The two ends never give one connection different priorities: a priority
\* that arrives late never contradicts the boss's tables (remote.cpp:43-47).
SamePriorityOrNone ==
  \A c \in Conns :
    /\ node["lo"].H = c => node["hi"].L # c /\ node["hi"].C # c
    /\ node["lo"].L = c => node["hi"].H # c /\ node["hi"].C # c
    /\ node["lo"].C = c => node["hi"].H # c /\ node["hi"].L # c

\* The places where an application message is still to be sent or received: in
\* the queue of a remote, on a connection, in the queue of a session.
At(place, s, m) == {<<place, i>> : i \in {i \in DOMAIN s : s[i] = m}}

Unsent(s) == IF s.wr = "sent" THEN Tail(s.q) ELSE s.q

InRemotes(m) == UNION { At(<<n, None, "high">>, node[n].high, m) : n \in Nodes }
OnWire(n, c, m) == At(<<n, c, "wire">>, wire[n][c], m)
InSession(n, c, m) ==
  IF Exists(n, c) THEN At(<<n, c, "q">>, Unsent(node[n].ss[c]), m) ELSE {}
OnWires(m) == UNION { OnWire(n, c, m) : n \in Nodes, c \in Conns }
InSessions(m) == UNION { InSession(n, c, m) : n \in Nodes, c \in Conns }

Places(m) == InRemotes(m) \cup OnWires(m) \cup InSessions(m)

\* How far an application message has come.
Stage(m) ==
  IF m \in fresh THEN "new"
  ELSE LET p == Cardinality(Places(m))
           g == got[m]
       IN  CASE p = 1 /\ g = 0 -> "transit"
             [] p = 0 /\ g = 1 -> "delivered"
             [] p = 0 /\ g = 0 -> "lost"
             [] OTHER -> "duplicated"

\* The channel implements Delivery: queueing in the remote, take-over, priority
\* changes, closes, broken connections and reads that complete after the close
\* neither duplicate an application message, on its way or on arrival, nor
\* bring back one that was delivered or lost (remote.cpp:73-168,
\* session.cpp:168-189, 258-300).
D == INSTANCE Delivery WITH Msgs <- Data, stage <- [m \in Data |-> Stage(m)]
ImplementsDelivery == D!Spec

\* m_ipToSession holds exactly the sessions that have not stopped: nothing
\* leaks and no live session is missing (the counts of do_accept() and
\* connectResolved() rely on it).
IpTableExact ==
  \A n \in Nodes :
    node[n].ips = {c \in Conns : Exists(n, c) /\ ~node[n].ss[c].stopped}

\* At most MaxConnectionsWithAddr incoming sessions of an address are served.
ServedLimit ==
  \A n \in Nodes :
    Cardinality({c \in node[n].ips : /\ node[n].ss[c].dir = "incoming"
                                     /\ node[n].ss[c].rd # "off"}) <= limit

\* A session the boss turned away is on its way out: its bye is being written,
\* or the write in flight whose handler will say bye, so that no duplicate
\* connection stays open without a slot (remote.cpp:65-69, session.cpp:137-147).
DuplicateLeaves ==
  \A c \in Conns :
    LET s == node["hi"].ss[c]
    IN  (Exists("hi", c) /\ s.auth /\ c \notin SlotsOf(node["hi"]))
          => s.stopped \/ (s.closeFlag /\ (s.bye > 0 \/ s.wr # "none"))

-----------------------------------------------------------------------------
(* What comments in the repository say and the code does not do.           *)

\* "If remote node is completely connected, e.g. all necessary connections are
\* established, authenticated and initialized, then returned value is set to
\* true" (OutgoingManager.h:71-73), said of remote::connected().
ConnectedMeansEstablished ==
  \A n \in Nodes : RemoteConnected(node[n]) =>
    ~node[n].ss[node[n].H].stopped /\ ~node[n].ss[node[n].L].stopped

\* "messages from queue will be taken over by the next session"
\* (session.cpp:276-277): once the remote has its next high priority session,
\* no application message is left behind in one that stopped.
NextSessionTakesOver ==
  \A n \in Nodes, c \in Conns :
    (/\ node[n].H \notin {None, c} /\ ~Gone(n, node[n].H)
     /\ Gone(n, c) /\ node[n].ss[c].wr = "none")
      => \A i \in DOMAIN node[n].ss[c].q : node[n].ss[c].q[i] \notin Data
=============================================================================
