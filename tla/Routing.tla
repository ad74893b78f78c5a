------------------------------- MODULE Routing -------------------------------
(***************************************************************************)
(* Where a message goes: the address a sender writes (Msg::setDest), what  *)
(* each process on the way makes of it (Msg::updateDest), the dispatcher   *)
(* of every process, and the router of a userver (NetServer::handleAny).   *)
(* The applications are those of the repository: they send "ping"s, and    *)
(* the ones in Echo answer them with "pong"s (app/uecho).                  *)
(*                                                                         *)
(* A process is a pair <<node, application>>.  All userver nodes are       *)
(* connected to each other.  A link may keep a message for ever (Stall);   *)
(* what else it does to the messages it carries is the subject of Session, *)
(* Channel and Locals.                                                     *)
(***************************************************************************)
EXTENDS Naturals, FiniteSets, Bags

CONSTANTS
  Nodes,     \* node names
  Running,   \* the applications that run: pairs <<node, application>>
  Echo,      \* names of the applications that answer pings
  Ids,       \* pings that may be sent
  Serials,   \* values that m_serial of a sender may have
  UIntMax,   \* the largest unsigned, as which usender reads a serial
  MaxHops    \* bound on the hops of a broadcast: the code has none

Server(n) == <<n, "userver">>

Apps == {p[2] : p \in Running}

ASSUME RoutingAssumption ==
  /\ IsFiniteSet(Running) /\ Running \subseteq Nodes \X Apps /\ "userver" \notin Apps
  /\ {"", "*", "localhost"} \cap (Nodes \cup Apps) = {}
  /\ MaxHops \in Nat \ {0} /\ Serials \subseteq Nat /\ UIntMax \in Nat

\* What the constructor of Addr makes of "app", "app@node", "" and "@node".
Addresses ==
  [a : Apps \cup {"", "*"}, n : Nodes \cup {"", "*", "localhost"}]

VARIABLES
  asked,   \* asked[i]: who sent ping i, to which address, its serial; or Unsent
  wire,    \* messages queued at a process, a bag of records:
           \*   at     the process it is queued at
           \*   id, cname, from, to   of its header
           \*   body   of form "tree", or characters ("raw", "line"); its
           \*          serial, and json: how often it was encoded
           \*   hops   how often it went from one node to another
  stalled, \* the part of wire that will never be written
  got,     \* got[p]: a bag of <<id, cname>>, one copy for each time the
           \* dispatcher of p gave such a message to the handlers of its cname
  printed  \* the ids and serials of the pongs that usender reported

vars == <<asked, wire, stalled, got, printed>>

Unsent == <<>>

Init ==
  /\ asked = [i \in Ids |-> Unsent]
  /\ wire = EmptyBag /\ stalled = EmptyBag
  /\ got = [p \in Running |-> EmptyBag]
  /\ printed = {}

-----------------------------------------------------------------------------

\* Msg::setDest() in process p: only a complete address enters the header, whose
\* destination was to.
SetDestKeepsLocalhost(p, to, dest) ==
  IF dest.a # "" /\ dest.n # "" THEN dest ELSE to
SetDest(p, to, dest) ==
  IF dest.a # "" /\ dest.n # ""
    THEN [a |-> dest.a, n |-> IF dest.n = "localhost" THEN p[1] ELSE dest.n]
    ELSE to

\* Msg::updateDest() in process p, for the header of a message.
DestTypeIgnoresNode(p, to) ==
  CASE to.a = "" /\ to.n = "" -> "service"
    [] to.n = "" /\ to.a # "" -> "local"
    [] to.n \in Nodes -> IF to.a = "*" THEN "localbroadcast" ELSE "local"
    [] OTHER -> "broadcast"
DestType(p, to) ==
  CASE to.a = "" /\ to.n = "" -> "service"
    [] to.n = "" /\ to.a # "" -> "local"
    [] to.n = p[1] -> IF to.a = "*" THEN "localbroadcast" ELSE "local"
    [] to.n = "*" -> "broadcast"
    [] OTHER -> "remote"

ToMeByName(p, to) ==
  DestType(p, to) = "service" \/ (DestType(p, to) # "remote" /\ to.a = p[2])
ToMe(p, to) ==
  CASE DestType(p, to) = "service" -> TRUE
    [] DestType(p, to) \in {"local", "localbroadcast", "broadcast"} ->
         to.a = p[2] \/ (to.a = "*" /\ to.n # "")
    [] DestType(p, to) = "remote" -> FALSE

\* The body of a new message, m_body of type ptree.
Tree(n) == [form |-> "tree", json |-> 0, serial |-> n]

\* str() and charvec(): a tree is encoded, characters are written as they are.
StrEncodesAll(body) == [body EXCEPT !.form = "line", !.json = @ + 1]
Str(body) ==
  [body EXCEPT !.form = "line", !.json = IF body.form = "tree" THEN @ + 1 ELSE @]

\* The constructor of an incoming message takes the characters of the line.
Incoming(line) == [line EXCEPT !.form = "raw"]

\* session::putOutQueue() queues the message as text for the process at.
Queue(m, at) == [m EXCEPT !.at = at, !.body = Incoming(Str(@))]

\* pbody(): what a handler sees of the body, decoded by read_json() if need be.
\* That never fails here: all bodies were written by write_json().
PBody(m) ==
  [m.body EXCEPT !.form = "tree", !.json = IF m.body.form = "raw" THEN @ - 1 ELSE @]

\* get<unsigned>("serial", 0): the default for a tree without such an entry, as is
\* the one made of text that was encoded twice, and for a number that is too large.
Get(tree) == IF tree.json = 0 /\ tree.serial <= UIntMax THEN tree.serial ELSE 0

\* The node a message for target is sent to next: always the target itself.
Route(target) == target

\* NetServer::handleAny() of the userver that message m is queued at: the copies
\* it passes on.
HandleAnyFloods(m) ==
  LET n == m.at[1]
      Hop(k) == [Queue(m, Server(k)) EXCEPT !.hops = @ + 1]
  IN  CASE DestType(m.at, m.to) = "service" -> {}
        [] DestType(m.at, m.to) = "local" ->
             {Queue(m, p) : p \in Running \cap {<<n, m.to.a>>}}
        [] DestType(m.at, m.to) = "localbroadcast" ->
             {Queue(m, p) : p \in {q \in Running : q[1] = n}}
        [] DestType(m.at, m.to) \in {"remote", "broadcast"} ->
             {Hop(k) : k \in {k \in Nodes \ {n} : m.hops < MaxHops}}
HandleAny(m) ==
  LET n == m.at[1]
      Hop(k) == [Queue(m, Server(k)) EXCEPT !.hops = @ + 1]
  IN  CASE DestType(m.at, m.to) = "service" -> {}
        [] DestType(m.at, m.to) = "local" ->
             {Queue(m, p) : p \in Running \cap {<<n, m.to.a>>}}
        [] DestType(m.at, m.to) = "localbroadcast" ->
             {Queue(m, p) : p \in {q \in Running : q[1] = n}}
        [] DestType(m.at, m.to) = "remote" ->
             {Hop(k) : k \in {k \in Nodes : k = Route(m.to.n)}}
        [] DestType(m.at, m.to) = "broadcast" ->
             {Hop(k) : k \in {k \in Nodes \ {n} : m.hops < MaxHops}}

\* The constructor of an outgoing message.
NewMsg(p, dest, cname, id, serial) ==
  [at |-> p, id |-> id, cname |-> cname, from |-> p, body |-> Tree(serial),
   to |-> SetDest(p, [a |-> "", n |-> ""], dest), hops |-> 0]

\* The handler of "ping" in uecho: the forwarding constructor makes a copy of the
\* ping for its sender.
Reply(p, m) ==
  [m EXCEPT !.cname = "pong", !.from = p, !.hops = 0,
            !.to = SetDest(p, m.to, [a |-> m.from[2], n |-> m.from[1]])]

\* usender sends a ping; NetClient::send() gives it to the local userver.
Send(p, i, dest, n) ==
  /\ asked[i] = Unsent
  /\ asked' = [asked EXCEPT ![i] = <<p, dest, n>>]
  /\ wire' = wire (+) SetToBag({Queue(NewMsg(p, dest, "ping", i, n), Server(p[1]))})
  /\ UNCHANGED <<stalled, got, printed>>

\* The dispatcher of a userver: none of its own handlers is for pings or pongs,
\* so all that happens is the handler for any message, the router.
AtServer(m) ==
  /\ m.at = Server(m.at[1])
  /\ wire' = (wire (-) SetToBag({m})) (+) SetToBag(HandleAny(m))
  /\ UNCHANGED <<asked, stalled, got, printed>>

\* The dispatcher of an application, with the handlers of uecho and usender.
AtApp(m) ==
  /\ m.at \in Running
  /\ LET p == m.at
         rest == wire (-) SetToBag({m})
         answers == ToMe(p, m.to) /\ m.cname = "ping" /\ p[2] \in Echo
         reports == ToMe(p, m.to) /\ m.cname = "pong" /\ p[2] \notin Echo
     IN  /\ wire' = IF answers
                      THEN rest (+) SetToBag({Queue(Reply(p, m), Server(p[1]))})
                      ELSE rest
         /\ printed' = IF reports THEN printed \cup {<<m.id, Get(PBody(m))>>}
                       ELSE printed
         /\ got' = IF ToMe(p, m.to)
                     THEN [got EXCEPT ![p] = @ (+) SetToBag({<<m.id, m.cname>>})]
                     ELSE got
  /\ UNCHANGED <<asked, stalled>>

Handle(i) ==
  \E m \in BagToSet(wire (-) stalled) : m.id = i /\ (AtServer(m) \/ AtApp(m))

\* A message that was put behind a write in flight: the handler of that write
\* returns without starting the next one, so it stays in the queue.
Stall(m) ==
  /\ stalled' = stalled (+) SetToBag({m})
  /\ UNCHANGED <<asked, wire, got, printed>>

Next ==
  \/ \E p \in Running, i \in Ids, dest \in Addresses, n \in Serials :
       Send(p, i, dest, n)
  \/ \E i \in Ids : Handle(i)
  \/ \E m \in BagToSet(wire (-) stalled) : Stall(m)

Spec == Init /\ [][Next]_vars

\* A message that does not stall is written, and every process goes on reading.
FairSpec == Spec /\ \A i \in Ids : WF_vars(Handle(i))

-----------------------------------------------------------------------------

Messages ==
  [at : Running \cup {Server(n) : n \in Nodes}, id : Ids,
   cname : {"ping", "pong"}, from : Running,
   body : [form : {"raw"}, json : Nat, serial : Nat],
   to : [a : Apps \cup {"", "*"}, n : Nodes \cup {"", "*"}], hops : 0..MaxHops]

TypeOK ==
  /\ asked \in [Ids -> (Running \X Addresses \X Serials) \cup {Unsent}]
  /\ IsABag(wire) /\ BagToSet(wire) \subseteq Messages
  /\ IsABag(stalled) /\ BagToSet(stalled) \subseteq Messages
  /\ DOMAIN got = Running
  /\ \A p \in Running :
       IsABag(got[p]) /\ BagToSet(got[p]) \subseteq Ids \X {"ping", "pong"}
  /\ printed \subseteq Ids \X Nat

\* The applications an address stands for, written in process p, as tz.md
\* defines addresses.
Addressees(p, dest) ==
  {q \in Running : /\ dest.a \in {q[2], "*"}
                   /\ \/ dest.n \in {q[1], "*"}
                      \/ dest.n \in {"", "localhost"} /\ q[1] = p[1]}

Count(p, i, cname) ==
  IF BagIn(<<i, cname>>, got[p]) THEN got[p][<<i, cname>>] ELSE 0

\* Whatever an address is, a ping is handled by applications the address stands
\* for, by each at most once; and a pong only by the sender, at most once for
\* each application that answers (msg.cpp:171-219, netserver.cpp:66-140).
OnlyAddressees ==
  \A i \in Ids, q \in Running :
    /\ Count(q, i, "ping") > 0 => /\ q \in Addressees(asked[i][1], asked[i][2])
                                  /\ Count(q, i, "ping") = 1
    /\ Count(q, i, "pong") > 0 =>
         /\ q = asked[i][1]
         /\ Count(q, i, "pong") <=
              Cardinality({r \in Addressees(asked[i][1], asked[i][2]) :
                             r[2] \in Echo})

\* What usender reports for a pong is the serial of its own ping, after up to
\* four processes wrote the body as a line and uecho copied it without reading it
\* (msg.cpp:18-55, 98-140, 262-278); or 0 for a serial, a size_t, that an unsigned
\* does not hold (usender/main.cpp:28, 46).
SerialComesBack ==
  \A r \in printed : LET n == asked[r[1]][3]
                      IN  r[2] = IF n <= UIntMax THEN n ELSE 0

\* A ping to named nodes makes at most one hop, so it cannot circulate.
OneHop ==
  \A m \in BagToSet(wire) : m.to.n # "*" => m.hops <= 1

\* Every application ping i was addressed to has handled it, or a ping that would
\* have come to it is stalled; and the sender has the answer of every application
\* that gave one, or that answer is stalled.
Served(i) ==
  LET p == asked[i][1]
      qs == Addressees(p, asked[i][2])
      stuck == {m \in BagToSet(stalled) : m.id = i}
  IN  /\ asked[i] # Unsent
      /\ \A q \in qs :
           \/ Count(q, i, "ping") = 1
           \/ \E m \in stuck : m.cname = "ping" /\ m.at \in {q, Server(p[1]), Server(q[1])}
      /\ Count(p, i, "pong") + Cardinality({m \in stuck : m.cname = "pong"}) =
           Cardinality({q \in qs : q[2] \in Echo /\ Count(q, i, "ping") = 1})

\* A ping to a node by its name, or to localhost, reaches all its addressees,
\* and the answers find their way back: nothing but the stall of a message that
\* is still queued keeps one of them away.
PingIsAnswered ==
  \A i \in Ids :
    (asked[i] # Unsent /\ asked[i][2].n \in Nodes \cup {"localhost"}) ~> Served(i)

\* tz.md:23, `"myapp" приложения myapp на локальном узле`: an address without a
\* node stands for the applications of that name on the sender's own node.
ShortAddressIsLocal ==
  \A i \in Ids : (asked[i] # Unsent /\ asked[i][2].n = "") ~> Served(i)

\* tz.md:25, `"myapp@*" все приложения myapp в сети`: "*" stands for all nodes.
StarReachesNetwork ==
  \A i \in Ids : (asked[i] # Unsent /\ asked[i][2].n = "*") ~> Served(i)
=============================================================================
