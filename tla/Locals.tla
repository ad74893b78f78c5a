------------------------------- MODULE Locals -------------------------------
(***************************************************************************)
(* A userver and one local application across restarts of both: NetClient  *)
(* (src/uzel/netclient.cpp) in the application, the local branch of        *)
(* NetServer::auth() and handleLocalMsg() (app/userver/netserver.cpp) in   *)
(* the server, and a pair of sessions (SessionCore) per TCP connection.    *)
(* The application is uecho: it answers every message it gets.             *)
(*                                                                         *)
(* A new process of the application starts after the previous one has      *)
(* exited ("currently only single-instance applications are allowed",      *)
(* netserver.cpp:221), but the server may not have noticed yet.  NetClient *)
(* never connects again once a connection was established, so a process    *)
(* has one connection in its life and Conns bounds the processes.          *)
(***************************************************************************)
EXTENDS SessionCore, FiniteSets

CONSTANTS
  Conns,       \* TCP connections that may ever be established
  MaxMsgs,     \* bound on the messages for the application: 1 .. MaxMsgs
  MaxExits,    \* bound on the exits of the server
  MaxErrs,     \* bound on the failures to resolve "localhost"
  None         \* no session

VARIABLES
  sess,     \* sess[p][c]: the session of process p on connection c, or None
  gone,     \* gone[p]: connections whose end at p went with the process
  wire,     \* wire[p][c]: the lines on their way to p
  backlog,  \* established connections that the server has not accepted
  srv,      \* the server: its state (up, down, hung in a loop, or after
            \* undefined behaviour), m_locals of the application, and exits
  app,      \* the application: whether it runs, its pending resolutions and
            \* waits of m_reconnectTimer, m_locals of "userver", the messages
            \* this process got, a call through a null session, errors so far
  next,     \* the next message for the application
  seen,     \* seen[m]: how often processes of the application got message m
  raced     \* history: a queue was taken over from a session that was writing

vars == <<sess, gone, wire, backlog, srv, app, next, seen, raced>>

Procs == {"srv", "app"}
Peer(p) == IF p = "srv" THEN "app" ELSE "srv"
Data == 1..MaxMsgs
Auth == 0
Pong == MaxMsgs + 1
Lines == Auth..Pong

ASSUME LocalsAssumption ==
  /\ IsFiniteSet(Conns) /\ None \notin Conns
  /\ {MaxMsgs, MaxExits, MaxErrs} \subseteq Nat
  /\ None \notin SessionType(Lines)

Init ==
  /\ sess = [p \in Procs |-> [c \in Conns |-> None]]
  /\ gone = [p \in Procs |-> {}]
  /\ wire = [p \in Procs |-> [c \in Conns |-> <<>>]]
  /\ backlog = {}
  /\ srv = [is |-> "down", local |-> None, exits |-> 0]
  /\ app = [up |-> FALSE, resolves |-> 0, waits |-> 0, local |-> None,
            got |-> <<>>, nullSend |-> FALSE, errs |-> 0]
  /\ next = 1 /\ seen = [m \in Data |-> 0] /\ raced = FALSE

-----------------------------------------------------------------------------

Exists(p, c) == sess[p][c] # None
Runs(p) == IF p = "srv" THEN srv.is = "up" ELSE app.up
Gone(p, c) == c \in gone[p] \/ (Exists(p, c) /\ sess[p][c].stopped)

\* Sessions S of process p replace those it has, with w in transit; what a dead
\* session has not read is lost.
Becomes(p, c, S, w) ==
  /\ sess' = [sess EXCEPT ![p] = S]
  /\ wire' = IF S[c] = None \/ (S[c].stopped /\ S[c].rd = "off")
               THEN [w EXCEPT ![p][c] = <<>>] ELSE w

With(p, c, s) == [sess[p] EXCEPT ![c] = s]

Sent(p, c, m) ==
  IF Gone(Peer(p), c) THEN wire ELSE [wire EXCEPT ![Peer(p)][c] = Append(@, m)]

StopStep(p, c, s) ==
  \E t \in Stop(s, IF wire[p][c] # <<>> THEN {"late"} ELSE {}) :
    Becomes(p, c, With(p, c, t), wire)

\* Process p is gone: the kernel closes its sockets.
Vanish(p) ==
  LET open == {c \in Conns : Exists(p, c) /\ sess[p][c].sock # "connecting"}
  IN  /\ sess' = [sess EXCEPT ![p] = [c \in Conns |-> None]]
      /\ gone' = [gone EXCEPT ![p] = @ \cup open \cup
                                     (IF p = "srv" THEN backlog ELSE {})]
      /\ wire' = [wire EXCEPT ![p] = [c \in Conns |-> <<>>]]

-----------------------------------------------------------------------------
(* NetClient.                                                              *)

Unused == {c \in Conns : ~Exists("app", c) /\ c \notin gone["app"]}

\* The constructor calls start().
AppStart ==
  /\ ~app.up /\ Unused # {}
  /\ app' = [app EXCEPT !.up = TRUE, !.resolves = 1, !.waits = 0,
                        !.local = None, !.got = <<>>]
  /\ UNCHANGED <<sess, gone, wire, backlog, srv, next, seen, raced>>

AppExit ==
  /\ app.up
  /\ Vanish("app")
  /\ app' = [app EXCEPT !.up = FALSE, !.resolves = 0, !.waits = 0]
  /\ UNCHANGED <<backlog, srv, next, seen, raced>>

\* reconnectAfterDelay(): a wait that is already pending is cancelled, which
\* makes its handler run: it does not look at the error code.
ReconnectAfterDelay(a) == [a EXCEPT !.waits = @ + 1]

TimerFires ==
  /\ app.up /\ app.waits > 0
  /\ app' = [app EXCEPT !.waits = @ - 1, !.resolves = @ + 1]
  /\ UNCHANGED <<sess, gone, wire, backlog, srv, next, seen, raced>>

\* connectResolved().
ResolveErr ==
  /\ app.up /\ app.resolves > 0 /\ app.errs < MaxErrs
  /\ app' = ReconnectAfterDelay([app EXCEPT !.resolves = @ - 1, !.errs = @ + 1])
  /\ UNCHANGED <<sess, gone, wire, backlog, srv, next, seen, raced>>

ConnectResolved(c) ==
  /\ app.up /\ app.resolves > 0 /\ c \in Unused
  /\ app' = [app EXCEPT !.resolves = @ - 1]
  /\ Becomes("app", c, With("app", c, NewSession("outgoing")), wire)
  /\ UNCHANGED <<gone, backlog, srv, next, seen, raced>>

Connecting(c) == Exists("app", c) /\ sess["app"][c].sock = "connecting"

\* connectHandler(); a server that hangs still has its listening socket.
ConnectOk(c) ==
  /\ Connecting(c) /\ srv.is # "down"
  /\ Becomes("app", c, With("app", c,
       Start([sess["app"][c] EXCEPT !.sock = "open"], Auth)), wire)
  /\ backlog' = backlog \cup {c}
  /\ UNCHANGED <<gone, srv, app, next, seen, raced>>

\* Connection refused: s_connect_error, and the session is stopped and dropped.
RefusedClosesToo(c) ==
  /\ Connecting(c) /\ srv.is = "down"
  /\ Becomes("app", c, With("app", c, None), wire)
  /\ app' = ReconnectAfterDelay(ReconnectAfterDelay(app))
  /\ UNCHANGED <<gone, backlog, srv, next, seen, raced>>
RefusedGivesUp(c) ==
  /\ Connecting(c) /\ srv.is = "down"
  /\ Becomes("app", c, With("app", c, None), wire)
  /\ UNCHANGED <<gone, backlog, srv, app, next, seen, raced>>
Refused(c) ==
  /\ Connecting(c) /\ srv.is = "down"
  /\ Becomes("app", c, With("app", c, None), wire)
  /\ app' = ReconnectAfterDelay(app)
  /\ UNCHANGED <<gone, backlog, srv, next, seen, raced>>

\* NetClient::auth() on session c: nothing was there to take over.
ClientAuthForgets(c, s) == [s |-> [s EXCEPT !.auth = TRUE], a |-> app]
ClientAuthDispatches(c, s) ==
  [s |-> [s EXCEPT !.auth = TRUE],
   a |-> [app EXCEPT !.local = c, !.got = Append(@, Auth)]]
ClientAuth(c, s) == [s |-> [s EXCEPT !.auth = TRUE], a |-> [app EXCEPT !.local = c]]

\* The handler of uecho: NetClient::send() puts the answer on m_locals["userver"],
\* which is this session.
Answer(s, m) ==
  [s |-> IF app.local = None THEN s ELSE PutOutQueue(s, Pong),
   a |-> [app EXCEPT !.got = Append(@, m), !.nullSend = @ \/ app.local = None]]

AppRead(c) ==
  /\ app.up /\ Exists("app", c) /\ sess["app"][c].rd # "off" /\ wire["app"][c] # <<>>
  /\ LET s == sess["app"][c]
         m == Head(wire["app"][c])
         r == CASE ~s.auth -> ClientAuth(c, s)
                [] s.auth /\ m \in Data -> Answer(s, m)
                [] OTHER -> [s |-> s, a |-> app]
     IN  /\ app' = r.a
         /\ \E t \in LineDone(r.s) :
              Becomes("app", c, With("app", c, t), [wire EXCEPT !["app"][c] = Tail(@)])
         /\ seen' = IF s.auth /\ m \in Data THEN [seen EXCEPT ![m] = @ + 1] ELSE seen
  /\ UNCHANGED <<gone, backlog, srv, next, raced>>

-----------------------------------------------------------------------------
(* NetServer.                                                              *)

SrvStart ==
  /\ srv.is = "down" /\ srv.exits < MaxExits + 1
  /\ srv' = [srv EXCEPT !.is = "up"]
  /\ UNCHANGED <<sess, gone, wire, backlog, app, next, seen, raced>>

\* The server exits or is killed; all that m_locals held is lost.
SrvExit ==
  /\ srv.is # "down" /\ srv.exits < MaxExits
  /\ Vanish("srv")
  /\ srv' = [is |-> "down", local |-> None, exits |-> srv.exits + 1]
  /\ backlog' = {}
  /\ UNCHANGED <<app, next, seen, raced>>

\* do_accept(), without the limit per address, which is in Channel: an application
\* has one connection at a time.  When the peer has gone, remote_endpoint() may throw, which ends
\* the server: that is SrvExit.
Accept(c) ==
  /\ srv.is = "up" /\ c \in backlog
  /\ backlog' = backlog \ {c}
  /\ Becomes("srv", c, With("srv", c, Start(NewSession("incoming"), Auth)), wire)
  /\ UNCHANGED <<gone, srv, app, next, seen, raced>>

\* takeOverMessages(session &) by s of the queue of session o: a pair of the two
\* sessions after it.
TakeOver(s, o) ==
  { <<t, [o EXCEPT !.q = <<>>]>> : t \in TakeOverMessages(s, o.q) }

\* The loop of takeOverMessages() does not get past a service message.
LoopsNever(o) == FALSE
Loops(o) == o.q # <<>> /\ Head(o.q) = Auth

\* NetServer::auth() for the first line on connection c.
ServerAuth(c) ==
  LET s == [sess["srv"][c] EXCEPT !.auth = TRUE]
      w == [wire EXCEPT !["srv"][c] = Tail(@)]
      old == srv.local
      o == sess["srv"][old]
  IN  \/ /\ old = None
         /\ \E t \in LineDone(s) : Becomes("srv", c, With("srv", c, t), w)
         /\ srv' = [srv EXCEPT !.local = c]
         /\ UNCHANGED raced
      \/ /\ old # None /\ Loops(o)
         /\ Becomes("srv", c, With("srv", c, s), w)
         /\ srv' = [srv EXCEPT !.is = "hung"]
         /\ UNCHANGED raced
      \/ /\ old # None /\ ~Loops(o)
         /\ \E r \in TakeOver(s, o) : \E t \in LineDone(r[1]) :
              Becomes("srv", c, [With("srv", c, t) EXCEPT ![old] = r[2]], w)
         /\ srv' = [srv EXCEPT !.local = c]
         /\ raced' = (raced \/ (o.wr # "none" /\ o.q # <<>>))

\* Later lines go to the router.
SrvRead(c) ==
  /\ srv.is = "up" /\ Exists("srv", c) /\ sess["srv"][c].rd # "off"
  /\ wire["srv"][c] # <<>>
  /\ \/ ~sess["srv"][c].auth /\ ServerAuth(c)
     \/ /\ sess["srv"][c].auth
        /\ \E t \in LineDone(sess["srv"][c]) :
             Becomes("srv", c, With("srv", c, t), [wire EXCEPT !["srv"][c] = Tail(@)])
        /\ UNCHANGED <<srv, raced>>
  /\ UNCHANGED <<gone, backlog, app, next, seen>>

\* handleLocalMsg(): the session may have stopped long ago.
HandleLocalMsg ==
  /\ srv.is = "up" /\ next <= MaxMsgs
  /\ next' = next + 1
  /\ sess' = IF srv.local = None THEN sess
             ELSE [sess EXCEPT !["srv"][srv.local] = PutOutQueue(@, next)]
  /\ UNCHANGED <<gone, wire, backlog, srv, app, seen, raced>>

-----------------------------------------------------------------------------
(* The completion handlers of the sessions of both.                        *)

Transmit(p, c) ==
  /\ Runs(p) /\ Exists(p, c)
  /\ LET s == sess[p][c]
     IN  /\ s.wr = "started" /\ ~s.stopped
         /\ Becomes(p, c, With(p, c, Transmitted(s)),
                    IF s.q = <<>> THEN wire ELSE Sent(p, c, Head(s.q)))
  /\ UNCHANGED <<gone, backlog, srv, app, next, seen, raced>>

\* The handler pops the front of m_outQueue.  When the queue was taken over in
\* the meantime there is none.
WriteOk(p, c) ==
  /\ Runs(p) /\ Exists(p, c) /\ sess[p][c].wr = "sent"
  /\ \/ /\ sess[p][c].q # <<>>
        /\ \E t \in WriteDone(sess[p][c]) : Becomes(p, c, With(p, c, t), wire)
        /\ UNCHANGED srv
     \/ /\ sess[p][c].q = <<>>
        /\ srv' = [srv EXCEPT !.is = "undefined"]
        /\ UNCHANGED <<sess, wire>>
  /\ UNCHANGED <<gone, backlog, app, next, seen, raced>>

WriteErr(p, c) ==
  /\ Runs(p) /\ Exists(p, c) /\ sess[p][c].wr = "started" /\ (Gone(p, c) \/ Gone(Peer(p), c))
  /\ StopStep(p, c, [sess[p][c] EXCEPT !.wr = "none"])
  /\ UNCHANGED <<gone, backlog, srv, app, next, seen, raced>>

ReadErr(p, c) ==
  /\ Runs(p) /\ Exists(p, c) /\ sess[p][c].rd = "on" /\ Gone(Peer(p), c)
  /\ StopStep(p, c, [sess[p][c] EXCEPT !.rd = "off"])
  /\ UNCHANGED <<gone, backlog, srv, app, next, seen, raced>>

SessionStep(p, c) ==
  Transmit(p, c) \/ WriteOk(p, c) \/ WriteErr(p, c) \/ ReadErr(p, c)

ClientStep ==
  TimerFires \/ \E c \in Conns :
    ConnectResolved(c) \/ ConnectOk(c) \/ Refused(c)

Next ==
  \/ AppStart \/ AppExit \/ ResolveErr \/ ClientStep
  \/ SrvStart \/ SrvExit \/ HandleLocalMsg
  \/ \E c \in Conns : AppRead(c) \/ Accept(c) \/ SrvRead(c)
  \/ \E p \in Procs, c \in Conns : SessionStep(p, c)

Spec == Init /\ [][Next]_vars

\* The timer fires, resolutions and connects end, reads and accepts that can
\* complete do, and the io_context runs their handlers.
Fairness ==
  /\ WF_vars(ClientStep)
  /\ \A c \in Conns :
       /\ WF_vars(Accept(c))
       /\ \A p \in Procs : WF_vars(Transmit(p, c) \/ WriteErr(p, c))
       /\ WF_vars(AppRead(c) \/ ReadErr("app", c))

FairSpec == Spec /\ Fairness

-----------------------------------------------------------------------------

TypeOK ==
  /\ sess \in [Procs -> [Conns -> SessionType(Lines) \cup {None}]]
  /\ gone \in [Procs -> SUBSET Conns] /\ backlog \subseteq Conns
  /\ wire \in [Procs -> [Conns -> Seq(Lines)]]
  /\ srv \in [is : {"up", "down", "hung", "undefined"},
              local : Conns \cup {None}, exits : 0..MaxExits]
  /\ app \in [up : BOOLEAN, resolves : Nat, waits : Nat,
              local : Conns \cup {None}, got : Seq(Data),
              nullSend : BOOLEAN, errs : 0..MaxErrs]
  /\ next \in 1..(MaxMsgs + 1) /\ seen \in [Data -> Nat] /\ raced \in BOOLEAN

\* NetClient is engaged in one thing at a time: a resolution, a wait or a
\* session.  No error path starts a second attempt beside the first
\* (netclient.cpp:45-65).
OneAttempt ==
  app.resolves + app.waits + Cardinality({c \in Conns : Exists("app", c)}) <= 1

\* A process of the application gets messages in the order in which the server
\* accepted them, those it takes over from its predecessor's session included
\* (netserver.cpp:222-226, session.cpp:168-189).
InOrder ==
  \A i, j \in DOMAIN app.got : i < j => app.got[i] < app.got[j]

\* A message reaches two processes only when its queue was taken over between
\* the write of the message and the handler that would have popped it.
OnceUnlessRaced == ~raced => \A m \in Data : seen[m] <= 1

\* The server's auth message is never passed on: it is the first one in the
\* queue of its own session, and while it is there its write is pending or the
\* session has stopped.  A live predecessor that has written it does not make
\* the take-over loop (session.cpp:172-176).
AuthStaysHome ==
  \A c \in Conns : Exists("srv", c) =>
    LET s == sess["srv"][c]
    IN  \A i \in DOMAIN s.q : s.q[i] = Auth =>
          i = 1 /\ (s.wr # "none" \/ s.stopped)

\* A take-over is the only thing that breaks the server, and only at these moments.
\* It hangs on a predecessor whose auth message is still being written, or stuck in
\* a stopped session; and a write handler finds no message to pop only after some
\* queue was taken over during a write: no expiry, close, late read or restart
\* empties the queue of a session that is writing (session.cpp:172-176, 273-274).
BreaksOnlyByTakeOver ==
  /\ srv.is = "hung" =>
       /\ srv.local # None
       /\ LET o == sess["srv"][srv.local]
          IN  Loops(o) /\ (o.wr # "none" \/ o.stopped)
  /\ srv.is = "undefined" => raced

\* NetClient::send() is never called before auth() has stored the session it
\* uses without a test (netclient.cpp:88-91).
NoNullSend == ~app.nullSend

\* A process that is trying to connect gets in, or loses its connection, or the
\* server goes away: no path ends without the next attempt being armed.
GetsIn ==
  (app.up /\ srv.is = "up") ~>
    \/ app.local # None
    \/ \E c \in Conns : Exists("app", c) /\ sess["app"][c].stopped
    \/ ~app.up \/ srv.is # "up"

-----------------------------------------------------------------------------
(* What comments in the repository say and the code does not do.           *)

\* "take over processing of the messages from another (old) session"
\* (session.h:87): the new session goes on with what the old one had queued.  The
\* call does not return while the queue starts with a service message, which the
\* loop neither moves nor removes (session.cpp:172-176).
TakeOverReturns == srv.is # "hung"

\* The same comment from the side of the old session, which has nothing to process
\* any more: the handler of its write in flight reads and pops the front of a
\* queue that has been emptied (session.cpp:273-274).
OldSessionIsDone == srv.is # "undefined"
=============================================================================
