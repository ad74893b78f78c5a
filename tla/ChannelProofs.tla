---------------------------- MODULE ChannelProofs ----------------------------
(***************************************************************************)
(* The invariants of Channel, for every set of connections and messages.   *)
(***************************************************************************)
EXTENDS Channel, SessionCoreProofs, FiniteSetTheorems

-----------------------------------------------------------------------------
(* The inductive invariant.                                                *)

NodeType ==
  [ss : [Conns -> SessionType(Lines) \cup {None}],
   H : Conns \cup {None}, L : Conns \cup {None}, C : Conns \cup {None},
   wait : SUBSET Conns, high : Seq(Data), ips : SUBSET Conns]

\* A session on its own: a write in flight has its message at the front of the
\* queue; before authentication nothing but the auth message is queued, and it
\* is being written; while connecting, nothing has happened.
SessOK(s) ==
  /\ s \in SessionType(Lines)
  /\ s.wr # "none" => s.q # <<>>
  /\ s.auth \/ (Len(s.q) <= 1 /\ (s.stopped \/ s.q = <<>> \/ s.wr # "none"))
  /\ s.sock = "connecting" =>
       ~s.auth /\ ~s.stopped /\ s.q = <<>> /\ s.rd = "off" /\ s.dir = "outgoing"

\* A node on its own: the address table is exact, and a session with a place in
\* the remote exists and is authenticated.
NodeOK(N) ==
  /\ N \in NodeType
  /\ \A c \in Conns : N.ss[c] # None => SessOK(N.ss[c])
  /\ N.ips = {c \in Conns : N.ss[c] # None /\ ~N.ss[c].stopped}
  /\ \A c \in SlotsOf(N) \cup N.wait : N.ss[c] # None /\ N.ss[c].auth

OnePlace(N) ==
  /\ N.H # None => N.H \notin {N.L, N.C}
  /\ N.L # None => N.L # N.C
  /\ SlotsOf(N) \cap N.wait = {}

Served(N) == {c \in N.ips : N.ss[c].dir = "incoming" /\ N.ss[c].rd # "off"}

\* What is still to be sent of a session, when there is one.
UnsentAt(N, c) == IF N.ss[c] = None THEN <<>> ELSE Unsent(N.ss[c])

\* No element of a sequence is in K; at most one position holds one.
Quiet(K, s) == \A i \in 1..Len(s) : s[i] \notin K
AtMostOne(K, s) ==
  \A i \in 1..Len(s), j \in 1..Len(s) : s[i] \in K /\ s[j] \in K => i = j

\* A pipe is one direction of a connection: w in transit, u to be sent.
OneInPipe(K, w, u) ==
  AtMostOne(K, w) /\ AtMostOne(K, u) /\ (Quiet(K, w) \/ Quiet(K, u))
InPipe(x, w, u) == (\E i \in 1..Len(w) : w[i] = x) \/ (\E i \in 1..Len(u) : u[i] = x)

\* In a step that only moves on or drops what is in a pipe.
Flows(K, w, u, w2, u2) ==
  /\ OneInPipe(K, w, u) => OneInPipe(K, w2, u2)
  /\ \A x \in K : InPipe(x, w2, u2) => InPipe(x, w, u)

SuffixOf(t, s) ==
  \E k \in 0..Len(s) : /\ Len(t) = Len(s) - k
                       /\ \A i \in 1..Len(t) : t[i] = s[i + k]

\* The address table, the backlog and the two ends of a connection.
Links ==
  \A n \in Nodes, c \in Conns :
    /\ c \in backlog[n] =>
         /\ ~Exists(n, c) /\ Exists(Peer(n), c)
         /\ node[Peer(n)].ss[c].sock # "connecting"
    /\ Exists(n, c) /\ node[n].ss[c].sock = "connecting" => ~Exists(Peer(n), c)

\* A session of the boss whose close flag is set has its bye under way.
Leaving(s) == s.closeFlag /\ ~s.stopped => s.bye > 0 \/ s.wr # "none"
BossCloses ==
  \A c \in Conns : Exists("hi", c) =>
    /\ Leaving(node["hi"].ss[c])
    /\ (node["hi"].ss[c].auth /\ c \notin SlotsOf(node["hi"])
          /\ ~node["hi"].ss[c].stopped)
         => node["hi"].ss[c].closeFlag

\* Priority p for connection c contradicts no slot of N.
Agrees(p, c, N) ==
  /\ p = "high" => c \notin {N.L, N.C}
  /\ p = "low" => c \notin {N.H, N.C}
  /\ p = "control" => c \notin {N.H, N.L}

\* The priority of connection c is one message of the boss, sent after it has
\* authenticated the session and received by a session that has no slot yet.
OneDecision(c) ==
  LET lo == node["lo"]
      hi == node["hi"]
      w == wire["lo"][c]
      u == UnsentAt(hi, c)
  IN  /\ \A p \in Priorities : ~InPipe(p, wire["hi"][c], UnsentAt(lo, c))
      /\ OneInPipe(Priorities, w, u)
      /\ \A p \in Priorities : InPipe(p, w, u) =>
           /\ Exists("hi", c) /\ hi.ss[c].auth
           /\ c \notin SlotsOf(lo) /\ Agrees(p, c, hi)
      /\ c \in SlotsOf(lo) => Exists("hi", c) /\ hi.ss[c].auth
      /\ lo.H = c => Agrees("high", c, hi)
      /\ lo.L = c => Agrees("low", c, hi)
      /\ lo.C = c => Agrees("control", c, hi)

NodesOK ==
  /\ limit \in MaxAddrs
  /\ node \in [Nodes -> NodeType] /\ \A n \in Nodes : NodeOK(node[n])
  /\ wire \in [Nodes -> [Conns -> Seq(Lines)]]
  /\ fresh \subseteq Data /\ got \in [Data -> Nat]
  /\ ServedLimit
  /\ BossCloses
  /\ \A n \in Nodes : OnePlace(node[n])
  /\ \A c \in Conns : OneDecision(c)

LinksOK == backlog \in [Nodes -> SUBSET Conns] /\ Links

IInv == NodesOK /\ LinksOK

-----------------------------------------------------------------------------
(* Pipes.                                                                  *)

LEMMA SuffixFlows ==
  ASSUME NEW S, NEW K, NEW w \in Seq(S), NEW u \in Seq(S), NEW v \in Seq(S),
         SuffixOf(v, u)
  PROVE  /\ Flows(K, w, u, w, v)
         /\ Flows(K, u, w, v, w)
<1>1. PICK k \in 0..Len(u) :
        Len(v) = Len(u) - k /\ \A i \in 1..Len(v) : v[i] = u[i + k]
  BY DEF SuffixOf
<1>2. Len(u) \in Nat /\ Len(v) \in Nat
  BY LenProperties
<1>3. \A i \in 1..Len(v) : i + k \in 1..Len(u) /\ v[i] = u[i + k]
  BY <1>1, <1>2
<1>4. AtMostOne(K, u) => AtMostOne(K, v)
  BY <1>3, <1>2 DEF AtMostOne
<1>5. Quiet(K, u) => Quiet(K, v)
  BY <1>3 DEF Quiet
<1>6. \A x : (\E i \in 1..Len(v) : v[i] = x) => (\E i \in 1..Len(u) : u[i] = x)
  BY <1>3
<1> QED
  BY <1>4, <1>5, <1>6 DEF Flows, OneInPipe, InPipe

\* A queue grows by elements that are not in K.
LEMMA ConcatFlows ==
  ASSUME NEW S, NEW K, NEW w \in Seq(S), NEW u \in Seq(S), NEW v \in Seq(S),
         Quiet(K, v)
  PROVE  /\ Flows(K, w, u, w, u \o v)
         /\ Flows(K, u, w, u \o v, w)
<1> DEFINE z == u \o v
<1>1. /\ Len(u) \in Nat /\ Len(v) \in Nat
      /\ Len(z) = Len(u) + Len(v)
      /\ \A i \in 1..Len(z) : z[i] = IF i <= Len(u) THEN u[i] ELSE v[i - Len(u)]
  BY ConcatProperties, LenProperties
<1> HIDE DEF z
<1>2. \A i \in 1..Len(z) : z[i] \in K => i \in 1..Len(u) /\ z[i] = u[i]
  BY <1>1 DEF Quiet
<1>3. AtMostOne(K, u) => AtMostOne(K, z)
  BY <1>2 DEF AtMostOne
<1>4. Quiet(K, u) => Quiet(K, z)
  BY <1>2 DEF Quiet
<1>5. \A x \in K : (\E i \in 1..Len(z) : z[i] = x) => (\E i \in 1..Len(u) : u[i] = x)
  BY <1>2
<1>6. Flows(K, w, u, w, z) /\ Flows(K, u, w, z, w)
  BY <1>3, <1>4, <1>5 DEF Flows, OneInPipe, InPipe
<1> QED
  BY <1>6 DEF z

LEMMA AppendFlows ==
  ASSUME NEW S, NEW K, NEW w \in Seq(S), NEW u \in Seq(S), NEW x \in S,
         x \notin K
  PROVE  /\ Flows(K, w, u, w, Append(u, x))
         /\ Flows(K, u, w, Append(u, x), w)
<1> DEFINE z == Append(u, x)
<1>1. /\ Len(u) \in Nat
      /\ Len(z) = Len(u) + 1
      /\ \A i \in 1..Len(u) : z[i] = u[i]
      /\ z[Len(u) + 1] = x
  BY AppendProperties, LenProperties
<1> HIDE DEF z
<1>2. \A i \in 1..Len(z) : z[i] \in K => i \in 1..Len(u) /\ z[i] = u[i]
  BY <1>1
<1>3. AtMostOne(K, u) => AtMostOne(K, z)
  BY <1>2 DEF AtMostOne
<1>4. Quiet(K, u) => Quiet(K, z)
  BY <1>2 DEF Quiet
<1>5. \A y \in K : (\E i \in 1..Len(z) : z[i] = y) => (\E i \in 1..Len(u) : u[i] = y)
  BY <1>2
<1>6. Flows(K, w, u, w, z) /\ Flows(K, u, w, z, w)
  BY <1>3, <1>4, <1>5 DEF Flows, OneInPipe, InPipe
<1> QED
  BY <1>6 DEF z

\* The front of the queue goes on the wire.
LEMMA MoveFlows ==
  ASSUME NEW S, NEW K, NEW w \in Seq(S), NEW u \in Seq(S), u # <<>>
  PROVE  Flows(K, w, u, Append(w, Head(u)), Tail(u))
<1> DEFINE z == Append(w, Head(u))
           v == Tail(u)
<1>1. /\ Head(u) \in S /\ Head(u) = u[1] /\ Len(u) \in Nat \ {0}
      /\ v \in Seq(S)
      /\ Len(v) = Len(u) - 1
      /\ \A i \in 1..Len(v) : v[i] = u[i + 1]
  BY HeadTailProperties, EmptySeq
<1>2. /\ Len(w) \in Nat
      /\ Len(z) = Len(w) + 1
      /\ \A i \in 1..Len(w) : z[i] = w[i]
      /\ z[Len(w) + 1] = u[1]
  BY <1>1, AppendProperties, LenProperties
<1> HIDE DEF z, v
<1>3. ASSUME OneInPipe(K, w, u) PROVE OneInPipe(K, z, v)
  <2>1. AtMostOne(K, z)
    <3>1. CASE u[1] \in K
      <4>1. Quiet(K, w)
        BY <3>1, <1>3, <1>1 DEF OneInPipe, Quiet
      <4> QED
        BY <4>1, <1>2 DEF AtMostOne, Quiet
    <3>2. CASE u[1] \notin K
      BY <3>2, <1>2, <1>3 DEF AtMostOne, OneInPipe
    <3> QED
      BY <3>1, <3>2
  <2>2. AtMostOne(K, v)
    <3>1. \A i \in 1..Len(v) : i + 1 \in 1..Len(u) /\ v[i] = u[i + 1]
      BY <1>1
    <3> SUFFICES ASSUME NEW i \in 1..Len(v), NEW j \in 1..Len(v),
                        v[i] \in K, v[j] \in K
                 PROVE  i = j
      BY DEF AtMostOne
    <3>2. i + 1 = j + 1
      BY <3>1, <1>3 DEF AtMostOne, OneInPipe
    <3> QED
      BY <3>2, <1>1
  <2>3. Quiet(K, z) \/ Quiet(K, v)
    <3>1. CASE Quiet(K, u)
      BY <3>1, <1>1 DEF Quiet
    <3>2. CASE Quiet(K, w) /\ u[1] \notin K
      BY <3>2, <1>2 DEF Quiet
    <3>3. CASE u[1] \in K
      <4> SUFFICES ASSUME NEW i \in 1..Len(v) PROVE v[i] \notin K
        BY DEF Quiet
      <4>1. i + 1 \in 1..Len(u) /\ 1 \in 1..Len(u) /\ v[i] = u[i + 1] /\ i + 1 # 1
        BY <1>1
      <4> QED
        BY <4>1, <3>3, <1>3 DEF AtMostOne, OneInPipe
    <3> QED
      BY <3>1, <3>2, <3>3, <1>3 DEF OneInPipe
  <2> QED
    BY <2>1, <2>2, <2>3 DEF OneInPipe
<1>4. ASSUME NEW x \in K, InPipe(x, z, v) PROVE InPipe(x, w, u)
  <2>1. CASE \E i \in 1..Len(v) : v[i] = x
    <3>1. \A i \in 1..Len(v) : i + 1 \in 1..Len(u) /\ v[i] = u[i + 1]
      BY <1>1
    <3> QED
      BY <2>1, <3>1 DEF InPipe
  <2>2. CASE \E i \in 1..Len(z) : z[i] = x
    <3>1. PICK i \in 1..Len(z) : z[i] = x
      BY <2>2
    <3>2. CASE i = Len(w) + 1
      BY <3>1, <3>2, <1>1, <1>2 DEF InPipe
    <3>3. CASE i \in 1..Len(w)
      BY <3>1, <3>3, <1>2 DEF InPipe
    <3> QED
      BY <3>2, <3>3, <1>2
  <2> QED
    BY <2>1, <2>2, <1>4 DEF InPipe
<1> QED
  BY <1>3, <1>4 DEF Flows, z, v

LEMMA EmptyFlows ==
  ASSUME NEW S, NEW K, NEW w \in Seq(S), NEW u
  PROVE  Flows(K, w, u, <<>>, u)
<1>1. Len(<<>>) = 0
  BY EmptySeq
<1>2. Quiet(K, <<>>) /\ AtMostOne(K, <<>>)
  BY <1>1 DEF Quiet, AtMostOne
<1>3. \A x : ~\E i \in 1..Len(<<>>) : <<>>[i] = x
  BY <1>1
<1> QED
  BY <1>2, <1>3 DEF Flows, OneInPipe, InPipe

LEMMA SameFlows == \A K, w, u : Flows(K, w, u, w, u)
  BY DEF Flows

LEMMA FlowsTransitive ==
  ASSUME NEW K, NEW w, NEW u, NEW w1, NEW u1, NEW w2, NEW u2,
         Flows(K, w, u, w1, u1), Flows(K, w1, u1, w2, u2)
  PROVE  Flows(K, w, u, w2, u2)
  BY DEF Flows

-----------------------------------------------------------------------------
(* Sessions.                                                               *)

\* The tail of a concatenation.
LEMMA TailConcat ==
  ASSUME NEW S, NEW u \in Seq(S), NEW v \in Seq(S), u # <<>>
  PROVE  Tail(u \o v) = Tail(u) \o v
<1> DEFINE z == u \o v
           y == Tail(u) \o v
<1>1. /\ Len(u) \in Nat \ {0} /\ Len(v) \in Nat
      /\ Tail(u) \in Seq(S) /\ Len(Tail(u)) = Len(u) - 1
      /\ \A i \in 1..(Len(u) - 1) : Tail(u)[i] = u[i + 1]
  BY HeadTailProperties, EmptySeq, LenProperties
<1>2. /\ z \in Seq(S) /\ Len(z) = Len(u) + Len(v)
      /\ \A i \in 1..(Len(u) + Len(v)) :
           z[i] = IF i <= Len(u) THEN u[i] ELSE v[i - Len(u)]
  BY ConcatProperties
<1>3. /\ y \in Seq(S) /\ Len(y) = (Len(u) - 1) + Len(v)
      /\ \A i \in 1..((Len(u) - 1) + Len(v)) :
           y[i] = IF i <= Len(u) - 1 THEN Tail(u)[i] ELSE v[i - (Len(u) - 1)]
  BY <1>1, ConcatProperties
<1> HIDE DEF z, y
<1>4. z # <<>>
  BY <1>1, <1>2, EmptySeq
<1>5. /\ Tail(z) \in Seq(S) /\ Len(Tail(z)) = Len(z) - 1
      /\ \A i \in 1..Len(Tail(z)) : Tail(z)[i] = z[i + 1]
  BY <1>2, <1>4, HeadTailProperties
<1>6. Len(Tail(z)) = Len(y)
  BY <1>1, <1>2, <1>3, <1>5
<1>7. ASSUME NEW i \in 1..Len(y) PROVE Tail(z)[i] = y[i]
  <2>1. /\ i \in Int /\ i + 1 \in 1..(Len(u) + Len(v))
        /\ i \in 1..((Len(u) - 1) + Len(v)) /\ i \in 1..Len(Tail(z))
        /\ i + 1 - Len(u) = i - (Len(u) - 1)
        /\ (i + 1 <= Len(u)) <=> (i <= Len(u) - 1)
    BY <1>1, <1>3, <1>6
  <2>2. Tail(z)[i] = z[i + 1]
    BY <2>1, <1>5
  <2>3. CASE i <= Len(u) - 1
    <3>1. z[i + 1] = u[i + 1] /\ y[i] = Tail(u)[i] /\ i \in 1..(Len(u) - 1)
      BY <2>1, <2>3, <1>1, <1>2, <1>3
    <3> QED
      BY <3>1, <2>2, <1>1
  <2>4. CASE ~(i <= Len(u) - 1)
    <3>1. z[i + 1] = v[i + 1 - Len(u)] /\ y[i] = v[i - (Len(u) - 1)]
      BY <2>1, <2>4, <1>2, <1>3
    <3> QED
      BY <3>1, <2>1, <2>2
  <2> QED
    BY <2>3, <2>4
<1> QED
  BY <1>3, <1>5, <1>6, <1>7, SeqEqual DEF z, y

LEMMA UnsentType ==
  ASSUME NEW s, SessOK(s)
  PROVE  Unsent(s) \in Seq(Lines) /\ s.q \in Seq(Lines)
<1>1. s.q \in Seq(Lines) /\ (s.wr = "sent" => s.q # <<>>)
  BY DEF SessOK, SessionType
<1> QED
  BY <1>1, HeadTailProperties DEF Unsent

LEMMA NewSessionOK ==
  ASSUME NEW d \in Directions
  PROVE  /\ SessOK(NewSession(d)) /\ Leaving(NewSession(d))
         /\ Unsent(NewSession(d)) = <<>>
         /\ NewSession(d).dir = d
         /\ ~NewSession(d).auth /\ ~NewSession(d).stopped
         /\ NewSession(d).rd = "off"
         /\ NewSession(d).sock = IF d = "incoming" THEN "open" ELSE "connecting"
<1>1. <<>> \in Seq(Lines) /\ Len(<<>>) = 0
  BY EmptySeq
<1> QED
  BY <1>1
     DEF SessOK, SessionType, NewSession, Leaving, Unsent, Directions

\* start() on a session that has just got its connection.
LEMMA StartOK ==
  ASSUME NEW s, SessOK(s), s.sock = "open", ~s.auth, ~s.stopped, s.q = <<>>
  PROVE  LET t == Start(s, "auth")
         IN  /\ SessOK(t) /\ Leaving(t)
             /\ Unsent(t) = Append(Unsent(s), "auth")
             /\ ~t.auth /\ ~t.stopped /\ t.sock = "open" /\ t.dir = s.dir
<1> DEFINE t == Start(s, "auth")
<1>1. s \in SessionType(Lines) /\ "auth" \in Lines /\ s.wr = "none"
  BY DEF SessOK, Lines, Service
<1>2. /\ t \in SessionType(Lines)
      /\ \A f \in {"dir", "sock", "bye", "auth", "closeFlag", "stopped",
                   "nullDeref"} : t[f] = s[f]
      /\ t.q = Append(s.q, "auth")
      /\ t.wr = "started"
  BY <1>1, StartFacts
<1> HIDE DEF t
<1>3. Len(t.q) = 1 /\ t.q # <<>>
  <2>1. Len(Append(s.q, "auth")) = Len(s.q) + 1 /\ Len(<<>>) = 0
    BY <1>1, AppendProperties, EmptySeq DEF SessionType
  <2>2. Len(t.q) = 1
    BY <2>1, <1>2
  <2>3. Len(t.q) # Len(<<>>)
    BY <2>1, <2>2
  <2> QED
    BY <2>2, <2>3, Zenon
<1>4. Unsent(t) = Append(Unsent(s), "auth")
  BY <1>1, <1>2 DEF Unsent
<1>5. SessOK(t) /\ Leaving(t)
  BY <1>2, <1>3 DEF SessOK, Leaving
<1> QED
  BY <1>2, <1>4, <1>5 DEF t

LEMMA OpenOK ==
  ASSUME NEW s, SessOK(s), s.sock = "connecting"
  PROVE  LET t == [s EXCEPT !.sock = "open"]
         IN  /\ SessOK(t) /\ t.sock = "open" /\ ~t.auth /\ ~t.stopped
             /\ t.q = <<>> /\ t.dir = "outgoing" /\ Unsent(t) = Unsent(s)
  BY DEF SessOK, SessionType, Unsent

\* What the handlers hand to stop().
Stoppable(s) ==
  /\ s \in SessionType(Lines)
  /\ s.wr # "none" => s.q # <<>>
  /\ s.auth \/ Len(s.q) <= 1
  /\ s.sock = "connecting" => ~s.stopped

LEMMA StopOK ==
  ASSUME NEW s, Stoppable(s), NEW b \in BOOLEAN,
         NEW t \in Stop(s, IF b THEN {"late"} ELSE {})
  PROVE  /\ SessOK(t) /\ t.stopped /\ t.auth = s.auth /\ t.dir = s.dir
         /\ Unsent(t) = Unsent(s)
         /\ t.sock # "connecting"
         /\ t.rd # "off" => s.rd # "off"
<1>1. t \in Stop(s, {"late"}) /\ (t.rd # "off" => s.rd # "off")
  BY DEF Stop, Stoppable, SessionType
<1>2. /\ t \in SessionType(Lines)
      /\ \A f \in {"dir", "q", "wr", "bye", "auth", "nullDeref"} : t[f] = s[f]
      /\ t.stopped
      /\ s.stopped => t = s
      /\ ~s.stopped => t.closeFlag /\ t.sock = "closed"
  BY <1>1, StopFacts DEF Stoppable
<1>3. SessOK(t) /\ t.sock # "connecting"
  BY <1>2 DEF SessOK, Stoppable
<1> QED
  BY <1>1, <1>2, <1>3 DEF Unsent

LEMMA StoppableFacts ==
  ASSUME NEW s, SessOK(s)
  PROVE  /\ Stoppable(s)
         /\ s.wr = "started" =>
              LET t == [s EXCEPT !.wr = "none"]
              IN  Stoppable(t) /\ Unsent(t) = Unsent(s) /\ t.auth = s.auth
                  /\ t.dir = s.dir /\ t.stopped = s.stopped /\ t.rd = s.rd
         /\ s.bye > 0 =>
              LET t == [s EXCEPT !.bye = @ - 1]
              IN  Stoppable(t) /\ Unsent(t) = Unsent(s) /\ t.auth = s.auth
                  /\ t.dir = s.dir /\ t.stopped = s.stopped /\ t.rd = s.rd
         /\ LET t == [s EXCEPT !.rd = "off"]
            IN  Stoppable(t) /\ Unsent(t) = Unsent(s) /\ t.auth = s.auth
                  /\ t.dir = s.dir /\ t.stopped = s.stopped /\ t.rd = "off"
<1>1. Stoppable(s)
  BY DEF SessOK, Stoppable
<1>2. ASSUME s.wr = "started"
      PROVE  LET t == [s EXCEPT !.wr = "none"]
             IN  Stoppable(t) /\ Unsent(t) = Unsent(s) /\ t.auth = s.auth
                  /\ t.dir = s.dir /\ t.stopped = s.stopped /\ t.rd = s.rd
  BY <1>1, <1>2 DEF Stoppable, Unsent, SessionType
<1>3. ASSUME s.bye > 0
      PROVE  LET t == [s EXCEPT !.bye = @ - 1]
             IN  Stoppable(t) /\ Unsent(t) = Unsent(s) /\ t.auth = s.auth
                  /\ t.dir = s.dir /\ t.stopped = s.stopped /\ t.rd = s.rd
  <2> DEFINE k == s.bye - 1
             t == [s EXCEPT !.bye = k]
  <2>1. k \in Nat
    BY <1>1, <1>3 DEF Stoppable, SessionType
  <2> HIDE DEF k
  <2>2. Stoppable(t) /\ Unsent(t) = Unsent(s) /\ t.auth = s.auth
          /\ t.dir = s.dir /\ t.stopped = s.stopped /\ t.rd = s.rd
    BY <2>1, <1>1 DEF Stoppable, Unsent, SessionType
  <2> QED
    BY <2>2 DEF k
<1>4. LET t == [s EXCEPT !.rd = "off"]
      IN  Stoppable(t) /\ Unsent(t) = Unsent(s) /\ t.auth = s.auth
            /\ t.dir = s.dir /\ t.stopped = s.stopped /\ t.rd = "off"
  BY <1>1 DEF Stoppable, Unsent, SessionType
<1> QED
  BY <1>1, <1>2, <1>3, <1>4

\* The frame of the handlers that neither stop nor authenticate a session.
SameSession(s, t) ==
  /\ t.auth = s.auth /\ t.stopped = s.stopped /\ t.dir = s.dir /\ t.sock = s.sock
  /\ t.rd # "off" => s.rd # "off"
  /\ s.closeFlag => t.closeFlag
  /\ t \in SessionType(Lines)

LEMMA TransmittedOK ==
  ASSUME NEW s, SessOK(s), s.wr = "started"
  PROVE  LET t == Transmitted(s)
         IN  /\ SessOK(t) /\ SameSession(s, t) /\ (Leaving(s) => Leaving(t))
             /\ Unsent(s) # <<>> /\ Head(s.q) = Head(Unsent(s))
             /\ Unsent(t) = Tail(Unsent(s))
  BY DEF SessOK, SessionType, Transmitted, SameSession, Leaving, Unsent

LEMMA WriteDoneOK ==
  ASSUME NEW s, SessOK(s), s.wr = "sent", NEW t \in WriteDone(s)
  PROVE  /\ SessOK(t) /\ SameSession(s, t) /\ Leaving(t)
         /\ SuffixOf(Unsent(t), Unsent(s))
<1>1. /\ s \in SessionType(Lines) /\ s.q # <<>>
      /\ s.auth \/ Len(s.q) <= 1
  BY DEF SessOK
<1>2. /\ t \in SessionType(Lines)
      /\ \A f \in {"dir", "sock", "auth", "closeFlag", "stopped", "rd",
                   "nullDeref"} : t[f] = s[f]
      /\ \E k \in 1..Len(s.q) :
           /\ Len(t.q) = Len(s.q) - k
           /\ \A i \in 1..Len(t.q) : t.q[i] = s.q[i + k]
      /\ t.wr = "none"
  BY <1>1, WriteDoneFacts
<1>3. /\ s.q \in Seq(Lines) /\ t.q \in Seq(Lines)
      /\ Len(s.q) \in Nat \ {0} /\ Len(t.q) \in Nat
      /\ Len(Tail(s.q)) = Len(s.q) - 1
      /\ \A i \in 1..Len(Tail(s.q)) : Tail(s.q)[i] = s.q[i + 1]
  BY <1>1, <1>2, HeadTailProperties, EmptySeq, LenProperties DEF SessionType
<1>4. PICK k \in 1..Len(s.q) :
        /\ Len(t.q) = Len(s.q) - k
        /\ \A i \in 1..Len(t.q) : t.q[i] = s.q[i + k]
  BY <1>2
<1>5. SuffixOf(t.q, Tail(s.q))
  <2>1. k - 1 \in 0..Len(Tail(s.q)) /\ Len(t.q) = Len(Tail(s.q)) - (k - 1)
    BY <1>3, <1>4
  <2>2. ASSUME NEW i \in 1..Len(t.q)
        PROVE  t.q[i] = Tail(s.q)[i + (k - 1)]
    <3>1. i + (k - 1) \in 1..Len(Tail(s.q)) /\ (i + (k - 1)) + 1 = i + k
      BY <1>3, <1>4
    <3> QED
      BY <3>1, <1>3, <1>4
  <2> QED
    BY <2>1, <2>2 DEF SuffixOf
<1>6. SessOK(t)
  <2>1. ~s.auth => t.q = <<>>
    <3>1. ASSUME ~s.auth PROVE Len(t.q) = 0
      BY <3>1, <1>1, <1>3, <1>4
    <3> QED
      BY <3>1, <1>3, EmptySeq
  <2>2. s.sock # "connecting"
    BY <1>1 DEF SessOK
  <2> QED
    BY <2>1, <2>2, <1>2, <1>3, EmptySeq DEF SessOK
<1>7. Leaving(t)
  <2>1. PICK y \in DeleteOld([s EXCEPT !.q = Tail(@), !.wr = "none"]) :
          t = IF y.closeFlag THEN SendByeAndClose(y) ELSE y
    BY DEF WriteDone
  <2> DEFINE p == [s EXCEPT !.q = Tail(@), !.wr = "none"]
  <2>2. p \in SessionType(Lines)
    BY <1>1, HeadTailProperties DEF SessionType
  <2>3. y \in SessionType(Lines)
    BY <2>2, DeleteOldFacts
  <2>4. y.bye \in Nat /\ DOMAIN y = DOMAIN p
    BY <2>2, <2>3 DEF SessionType
  <2>5. t.closeFlag => t.bye > 0
    BY <2>1, <2>3, <2>4 DEF SendByeAndClose, SessionType
  <2> QED
    BY <2>5 DEF Leaving
<1> QED
  BY <1>2, <1>5, <1>6, <1>7 DEF SameSession, Unsent

\* putOutQueue() and takeOverMessages() on an authenticated session.
LEMMA PutOutQueueOK ==
  ASSUME NEW s, SessOK(s), s.auth, NEW m \in Lines
  PROVE  LET t == PutOutQueue(s, m)
         IN  /\ SessOK(t) /\ SameSession(s, t) /\ (Leaving(s) => Leaving(t))
             /\ t.q # <<>>
             /\ t.closeFlag = s.closeFlag
             /\ Unsent(t) = Append(Unsent(s), m)
<1> DEFINE t == PutOutQueue(s, m)
<1>1. s \in SessionType(Lines) /\ s.q \in Seq(Lines)
  BY DEF SessOK, SessionType
<1>2. /\ t \in SessionType(Lines)
      /\ \A f \in {"dir", "sock", "bye", "auth", "closeFlag", "stopped", "rd",
                   "nullDeref"} : t[f] = s[f]
      /\ t.q = Append(s.q, m)
      /\ t.wr = IF s.q = <<>> THEN "started" ELSE s.wr
  BY <1>1, PutOutQueueFacts
<1> HIDE DEF t
<1>3. t.q # <<>>
  <2>1. Len(t.q) = Len(s.q) + 1 /\ Len(s.q) \in Nat /\ Len(<<>>) = 0
    BY <1>1, <1>2, AppendProperties, LenProperties, EmptySeq
  <2> QED
    BY <2>1
<1>4. SessOK(t) /\ SameSession(s, t) /\ (Leaving(s) => Leaving(t))
  BY <1>1, <1>2, <1>3 DEF SessOK, SameSession, Leaving
<1>5. Unsent(t) = Append(Unsent(s), m)
  <2>1. CASE s.wr = "sent"
    <3>1. s.q # <<>> /\ t.wr = "sent"
      BY <2>1, <1>2 DEF SessOK
    <3>2. Tail(Append(s.q, m)) = Append(Tail(s.q), m)
      BY <3>1, <1>1
    <3> QED
      BY <3>1, <3>2, <2>1, <1>2 DEF Unsent
  <2>2. CASE s.wr # "sent"
    BY <2>2, <1>2 DEF Unsent
  <2> QED
    BY <2>1, <2>2
<1>6. t.closeFlag = s.closeFlag
  BY <1>2
<1> QED
  BY <1>3, <1>4, <1>5, <1>6 DEF t

LEMMA TakeOverOK ==
  ASSUME NEW s, SessOK(s), s.auth, s.q # <<>>, NEW oq \in Seq(Data),
         NEW t \in TakeOverMessages(s, oq)
  PROVE  /\ SessOK(t) /\ SameSession(s, t) /\ (Leaving(s) => Leaving(t))
         /\ t.closeFlag = s.closeFlag
         /\ Unsent(t) = Unsent(s) \o oq
<1>1. t = [s EXCEPT !.q = s.q \o oq]
  BY DEF TakeOverMessages
<1>2. s \in SessionType(Lines) /\ s.q \in Seq(Lines) /\ oq \in Seq(Lines)
  <2>1. Data \subseteq Lines
    BY DEF Lines
  <2> QED
    BY <2>1, SeqMonotonic DEF SessOK, SessionType
<1>3. s.q \o oq \in Seq(Lines) /\ s.q \o oq # <<>>
  BY <1>2, ConcatProperties, ConcatEqualIffEmpty
<1>4. /\ t \in SessionType(Lines) /\ t.q = s.q \o oq
      /\ \A f \in {"dir", "sock", "wr", "bye", "auth", "closeFlag", "stopped",
                   "rd", "nullDeref"} : t[f] = s[f]
  BY <1>1, <1>2, <1>3 DEF SessionType
<1>5. SessOK(t) /\ SameSession(s, t) /\ (Leaving(s) => Leaving(t))
  BY <1>3, <1>4 DEF SessOK, SameSession, Leaving
<1>6. Tail(s.q \o oq) = Tail(s.q) \o oq
  BY <1>2, TailConcat
<1> QED
  BY <1>4, <1>5, <1>6 DEF Unsent

\* gracefullClose(): the boss's bye gets under way when no write is pending, as
\* long as an idle session has nothing queued.
LEMMA GracefullCloseOK ==
  ASSUME NEW s, SessOK(s)
  PROVE  LET t == GracefullClose(s)
         IN  /\ (s.sock # "connecting" => SessOK(t)) /\ SameSession(s, t)
             /\ Unsent(t) = Unsent(s)
             /\ t.closeFlag
             /\ t.rd = s.rd
             /\ (Leaving(s) /\ (s.stopped \/ s.q = <<>> \/ s.wr # "none")
                   => Leaving(t))
<1> DEFINE t == GracefullClose(s)
<1>1. s \in SessionType(Lines)
  BY DEF SessOK
<1>2. /\ t \in SessionType(Lines)
      /\ \A f \in {"dir", "sock", "q", "wr", "auth", "stopped", "rd",
                   "nullDeref"} : t[f] = s[f]
      /\ t.closeFlag
  BY <1>1, GracefullCloseFacts
<1>3. ~s.closeFlag /\ s.q = <<>> => t.bye > 0
  BY <1>1 DEF GracefullClose, SendByeAndClose, SessionType
<1>4. s.closeFlag => t = s
  BY DEF GracefullClose
<1> HIDE DEF t
<1>5. (s.sock # "connecting" => SessOK(t)) /\ SameSession(s, t)
        /\ Unsent(t) = Unsent(s) /\ t.rd = s.rd
  BY <1>2 DEF SessOK, SameSession, Unsent
<1>6. ASSUME Leaving(s), s.stopped \/ s.q = <<>> \/ s.wr # "none"
      PROVE  Leaving(t)
  BY <1>2, <1>3, <1>4, <1>6 DEF Leaving
<1> QED
  BY <1>2, <1>5, <1>6 DEF t

LEMMA LineDoneOK ==
  ASSUME NEW s, SessOK(s), s.rd # "off", NEW t \in LineDone(s)
  PROVE  /\ SessOK(t) /\ SameSession(s, t) /\ (Leaving(s) => Leaving(t))
         /\ t.closeFlag = s.closeFlag
         /\ Unsent(t) = Unsent(s)
<1>1. s \in SessionType(Lines) /\ s.sock # "connecting"
  BY DEF SessOK
<1>2. /\ t \in SessionType(Lines)
      /\ \A f \in {"dir", "sock", "q", "wr", "bye", "auth", "closeFlag",
                   "stopped", "nullDeref"} : t[f] = s[f]
  BY <1>1, LineDoneFacts
<1> QED
  BY <1>1, <1>2 DEF SessOK, SameSession, Leaving, Unsent

\* The first message authenticates.
LEMMA AuthOK ==
  ASSUME NEW s, SessOK(s), ~s.auth, s.rd # "off"
  PROVE  LET t == [s EXCEPT !.auth = TRUE]
         IN  /\ SessOK(t) /\ t.auth /\ t.stopped = s.stopped /\ t.dir = s.dir
             /\ t.sock = s.sock /\ t.rd = s.rd /\ t.closeFlag = s.closeFlag
             /\ t.sock # "connecting"
             /\ (Leaving(s) => Leaving(t))
             /\ Unsent(t) = Unsent(s)
             /\ t.stopped \/ t.q = <<>> \/ t.wr # "none"
  BY DEF SessOK, SessionType, Leaving, Unsent

-----------------------------------------------------------------------------
(* Nodes.                                                                  *)

\* One session of a node changes, and what the node records of it.
Changes(N, M, c, t) ==
  /\ M \in NodeType
  /\ M.ss = [N.ss EXCEPT ![c] = t]
  /\ M.ips = IF t.stopped THEN N.ips \ {c} ELSE N.ips \cup {c}
  /\ SlotsOf(M) \cup M.wait \subseteq SlotsOf(N) \cup N.wait \cup {c}
  /\ c \in SlotsOf(M) \cup M.wait => t.auth

LEMMA NodeFrame ==
  ASSUME NEW N, NodeOK(N), NEW M, NEW c \in Conns, NEW t,
         SessOK(t), Changes(N, M, c, t)
  PROVE  NodeOK(M) /\ M.ss[c] = t /\ \A d \in Conns \ {c} : M.ss[d] = N.ss[d]
<1> USE DEF Changes
<1>1. t # None
  BY ChannelAssumption DEF SessOK
<1>2. N.ss \in [Conns -> SessionType(Lines) \cup {None}]
  BY DEF NodeOK, NodeType
<1>3. M.ss[c] = t /\ \A d \in Conns \ {c} : M.ss[d] = N.ss[d]
  BY <1>2
<1>4. \A d \in Conns : M.ss[d] # None => SessOK(M.ss[d])
  BY <1>3 DEF NodeOK
<1>5. M.ips = {d \in Conns : M.ss[d] # None /\ ~M.ss[d].stopped}
  <2>1. N.ips = {d \in Conns : N.ss[d] # None /\ ~N.ss[d].stopped}
    BY DEF NodeOK
  <2>2. \A d \in Conns \ {c} : d \in M.ips <=> M.ss[d] # None /\ ~M.ss[d].stopped
    BY <2>1, <1>3
  <2>3. c \in M.ips <=> M.ss[c] # None /\ ~M.ss[c].stopped
    BY <1>1, <1>3
  <2>4. M.ips \subseteq Conns
    BY DEF NodeType
  <2> QED
    BY <2>2, <2>3, <2>4
<1>6. \A d \in SlotsOf(M) \cup M.wait : M.ss[d] # None /\ M.ss[d].auth
  <2>1. \A d \in SlotsOf(M) \cup M.wait : d \in Conns
    BY DEF NodeType, SlotsOf
  <2>2. \A d \in SlotsOf(N) \cup N.wait : N.ss[d] # None /\ N.ss[d].auth
    BY DEF NodeOK
  <2> QED
    BY <2>1, <2>2, <1>1, <1>3
<1> QED
  BY <1>3, <1>4, <1>5, <1>6 DEF NodeOK

\* Node N becomes M in a step of its session on c that gives no slot away.
Advances(N, M, c) ==
  /\ NodeOK(M)
  /\ N.ss[c] # None /\ M.ss[c] # None
  /\ \A d \in Conns \ {c} : M.ss[d] = N.ss[d]
  /\ M.ss[c].dir = N.ss[c].dir /\ M.ss[c].auth = N.ss[c].auth
  /\ N.ss[c].stopped => M.ss[c].stopped
  /\ N.ss[c].closeFlag => M.ss[c].closeFlag
  /\ M.ss[c].sock = "connecting" => N.ss[c].sock = "connecting"
  /\ M.ss[c].dir = "incoming" /\ M.ss[c].rd # "off" => N.ss[c].rd # "off"
  /\ M.H = N.H \/ (M.H = None /\ N.H = c /\ M.ss[c].stopped)
  /\ M.L = N.L \/ (M.L = None /\ N.L = c /\ M.ss[c].stopped)
  /\ M.C = N.C \/ (M.C = None /\ N.C = c /\ M.ss[c].stopped)
  /\ M.wait \subseteq N.wait
  /\ M.high = N.high

LEMMA WithType ==
  ASSUME NEW N \in NodeType, NEW c \in Conns, NEW t \in SessionType(Lines)
  PROVE  /\ With(N, c, t) \in NodeType
         /\ With(N, c, t).ss = [N.ss EXCEPT ![c] = t]
         /\ \A f \in {"H", "L", "C", "wait", "high", "ips"} :
              With(N, c, t)[f] = N[f]
         /\ SlotsOf(With(N, c, t)) = SlotsOf(N)
<1> DEFINE S == SessionType(Lines)
<1> HIDE DEF S
<1>1. N \in NodeType /\ t \in S
  BY DEF S
<1>2. With(N, c, t) \in NodeType
  BY <1>1 DEF With, NodeType, S
<1>3. /\ With(N, c, t).ss = [N.ss EXCEPT ![c] = t]
      /\ \A f \in {"H", "L", "C", "wait", "high", "ips"} :
              With(N, c, t)[f] = N[f]
  BY <1>1 DEF With, NodeType, S
<1> QED
  BY <1>2, <1>3 DEF SlotsOf

\* A step of a session that neither stops nor authenticates it.
Follows(s, t) ==
  /\ t.dir = s.dir /\ t.auth = s.auth /\ t.stopped = s.stopped
  /\ s.closeFlag => t.closeFlag
  /\ t.sock = "connecting" => s.sock = "connecting"
  /\ t.dir = "incoming" /\ t.rd # "off" => s.rd # "off"

LEMMA WithAdvances ==
  ASSUME NEW N, NodeOK(N), NEW c \in Conns, N.ss[c] # None, NEW t, SessOK(t),
         Follows(N.ss[c], t)
  PROVE  Advances(N, With(N, c, t), c) /\ With(N, c, t).ss[c] = t
<1> DEFINE M == With(N, c, t)
<1>1. t \in SessionType(Lines) /\ N \in NodeType
  BY DEF SessOK, NodeOK
<1>2. /\ M \in NodeType
      /\ M.ss = [N.ss EXCEPT ![c] = t]
      /\ \A f \in {"H", "L", "C", "wait", "high", "ips"} : M[f] = N[f]
      /\ SlotsOf(M) = SlotsOf(N)
  BY <1>1, WithType
<1> HIDE DEF M
<1>3. M.ips = IF t.stopped THEN N.ips \ {c} ELSE N.ips \cup {c}
  <2>1. t.stopped = N.ss[c].stopped
    BY DEF Follows
  <2>2. N.ips = {d \in Conns : N.ss[d] # None /\ ~N.ss[d].stopped}
    BY DEF NodeOK
  <2> QED
    BY <2>1, <2>2, <1>2
<1>4. c \in SlotsOf(M) \cup M.wait => t.auth
  <2>1. t.auth = N.ss[c].auth
    BY DEF Follows
  <2>2. c \in SlotsOf(N) \cup N.wait => N.ss[c].auth
    BY DEF NodeOK
  <2> QED
    BY <2>1, <2>2, <1>2
<1>5. SlotsOf(M) \cup M.wait \subseteq SlotsOf(N) \cup N.wait \cup {c}
  BY <1>2
<1>6. NodeOK(M) /\ M.ss[c] = t /\ \A d \in Conns \ {c} : M.ss[d] = N.ss[d]
  <2>1. Changes(N, M, c, t)
    BY <1>2, <1>3, <1>4, <1>5 DEF Changes
  <2> QED
    BY <2>1, NodeFrame
<1>7. t # None
  BY <1>1, ChannelAssumption
<1>8. M.wait \subseteq N.wait /\ M.high = N.high /\ M.H = N.H /\ M.L = N.L /\ M.C = N.C
  BY <1>2
<1>9. Advances(N, M, c)
  BY <1>6, <1>7, <1>8 DEF Advances, Follows
<1> QED
  BY <1>6, <1>9 DEF M

\* What a handler leaves of session x before it calls stop().
HandedToStop(x, s) ==
  /\ Stoppable(s)
  /\ s.dir = x.dir /\ s.auth = x.auth /\ s.stopped = x.stopped
  /\ s.closeFlag = x.closeFlag
  /\ s.rd # "off" => x.rd # "off"
  /\ Unsent(s) = Unsent(x)

LEMMA StopAdvances ==
  ASSUME NEW N, NodeOK(N), NEW c \in Conns, N.ss[c] # None,
         NEW s, HandedToStop(N.ss[c], s),
         NEW b \in BOOLEAN, NEW M \in StopSession(N, c, s, b)
  PROVE  /\ Advances(N, M, c) /\ M.ss[c].stopped
         /\ Unsent(M.ss[c]) = Unsent(N.ss[c])
<1> USE DEF HandedToStop
<1>1. PICK t \in Stop(s, IF b THEN {"late"} ELSE {}) :
        M = LET P == [With(N, c, t) EXCEPT !.ips = @ \ {c}]
            IN  IF s.stopped THEN With(N, c, t)
                ELSE IF s.auth THEN RemoteForgets(P, c) ELSE P
  BY DEF StopSession
<1>2. /\ SessOK(t) /\ t.stopped /\ t.auth = s.auth /\ t.dir = s.dir
      /\ Unsent(t) = Unsent(s)
      /\ t.sock # "connecting"
      /\ t.rd # "off" => s.rd # "off"
  BY StopOK
<1>3. s.closeFlag => t.closeFlag
  BY DEF Stop, Stoppable, SessionType
<1> DEFINE W == With(N, c, t)
<1>4. t \in SessionType(Lines) /\ N \in NodeType
  BY <1>2 DEF SessOK, NodeOK
<1>5. /\ W \in NodeType
      /\ W.ss = [N.ss EXCEPT ![c] = t]
      /\ \A f \in {"H", "L", "C", "wait", "high", "ips"} : W[f] = N[f]
      /\ SlotsOf(W) = SlotsOf(N)
  BY <1>4, WithType
<1> HIDE DEF W
<1>6. CASE s.stopped
  <2>1. M = W
    BY <1>1, <1>6 DEF W
  <2>2. Advances(N, W, c) /\ W.ss[c] = t
    <3>1. Follows(N.ss[c], t)
      BY <1>2, <1>3, <1>6 DEF Follows
    <3> QED
      BY <3>1, <1>2, WithAdvances DEF W
  <2> QED
    BY <2>1, <2>2, <1>2
<1>7. CASE ~s.stopped
  <2> DEFINE P == [W EXCEPT !.ips = @ \ {c}]
  <2>1. M = IF s.auth THEN RemoteForgets(P, c) ELSE P
    BY <1>1, <1>7 DEF W
  <2>2. /\ P \in NodeType /\ P.ss = W.ss /\ P.ips = N.ips \ {c}
        /\ \A f \in {"H", "L", "C", "wait", "high"} : P[f] = N[f]
    BY <1>5 DEF NodeType
  <2> HIDE DEF P
  <2>3. /\ M \in NodeType /\ M.ss = W.ss /\ M.ips = N.ips \ {c} /\ M.high = N.high
        /\ M.wait \subseteq N.wait
        /\ M.H = N.H \/ (M.H = None /\ N.H = c)
        /\ M.L = N.L \/ (M.L = None /\ N.L = c)
        /\ M.C = N.C \/ (M.C = None /\ N.C = c)
    <3>1. CASE s.auth
      BY <3>1, <2>1, <2>2 DEF RemoteForgets, NodeType
    <3>2. CASE ~s.auth
      BY <3>2, <2>1, <2>2
    <3> QED
      BY <3>1, <3>2
  <2>4. SlotsOf(M) \cup M.wait \subseteq SlotsOf(N) \cup N.wait \cup {c}
    BY <2>3 DEF SlotsOf
  <2>5. c \in SlotsOf(M) \cup M.wait => t.auth
    <3>1. c \in SlotsOf(N) \cup N.wait => N.ss[c].auth
      BY DEF NodeOK
    <3>2. c \in SlotsOf(M) => c \in SlotsOf(N)
      BY <2>3 DEF SlotsOf
    <3> QED
      BY <3>1, <3>2, <2>3, <1>2
  <2>6. M.ips = IF t.stopped THEN N.ips \ {c} ELSE N.ips \cup {c}
    BY <2>3, <1>2
  <2>7. NodeOK(M) /\ M.ss[c] = t /\ \A d \in Conns \ {c} : M.ss[d] = N.ss[d]
    <3>1. Changes(N, M, c, t)
      BY <2>3, <2>4, <2>5, <2>6, <1>5 DEF Changes
    <3> QED
      BY <3>1, <1>2, NodeFrame
  <2>8. t # None
    BY <1>4, ChannelAssumption
  <2>9. Advances(N, M, c)
    BY <2>3, <2>7, <2>8, <1>2, <1>3, <1>7 DEF Advances
  <2> QED
    BY <2>7, <2>9, <1>2
<1> QED
  BY <1>6, <1>7

-----------------------------------------------------------------------------
(* Steps.                                                                  *)

\* In every direction of every connection the messages of K flow.
FlowStep(K) ==
  \A n \in Nodes, c \in Conns :
    Flows(K, wire[Peer(n)][c], UnsentAt(node[n], c),
             wire'[Peer(n)][c], UnsentAt(node'[n], c))

LEMMA PeerFacts ==
  /\ Nodes = {"lo", "hi"} /\ Peer("lo") = "hi" /\ Peer("hi") = "lo"
  /\ \A n \in Nodes : Peer(n) \in Nodes /\ Peer(n) # n /\ Peer(Peer(n)) = n
  BY DEF Nodes, Peer

LEMMA AdvanceStep ==
  ASSUME IInv, limit' = limit,
         NEW n \in Nodes, NEW c \in Conns, NEW M, Advances(node[n], M, c),
         node' = [node EXCEPT ![n] = M],
         n = "hi" => Leaving(M.ss[c])
  PROVE  /\ node' \in [Nodes -> NodeType] /\ \A p \in Nodes : NodeOK(node'[p])
         /\ ServedLimit' /\ BossCloses'
         /\ \A p \in Nodes : OnePlace(node'[p])
<1> DEFINE N == node[n]
<1>0. node \in [Nodes -> NodeType] /\ NodeOK(N)
  BY DEF IInv, NodesOK, LinksOK
<1>1. node'[n] = M /\ \A p \in Nodes \ {n} : node'[p] = node[p]
  BY <1>0
<1>2. node' \in [Nodes -> NodeType] /\ \A p \in Nodes : NodeOK(node'[p])
  <2>1. NodeOK(M) /\ M \in NodeType
    BY DEF Advances, NodeOK
  <2> QED
    BY <2>1, <1>0, <1>1 DEF IInv, NodesOK, LinksOK
<1>3. ServedLimit'
  <2>1. Served(M) \subseteq Served(N)
    <3> SUFFICES ASSUME NEW d \in Served(M) PROVE d \in Served(N)
      OBVIOUS
    <3>1. d \in M.ips /\ M.ss[d].dir = "incoming" /\ M.ss[d].rd # "off"
      BY DEF Served
    <3>2. d \in Conns /\ M.ss[d] # None /\ ~M.ss[d].stopped
      BY <3>1 DEF Advances, NodeOK
    <3>3. N.ss[d] # None /\ ~N.ss[d].stopped /\ N.ss[d].dir = "incoming"
            /\ N.ss[d].rd # "off"
      BY <3>1, <3>2 DEF Advances
    <3>4. d \in N.ips
      BY <3>2, <3>3, <1>0 DEF NodeOK
    <3> QED
      BY <3>3, <3>4 DEF Served
  <2>2. Served(N) \subseteq Conns /\ IsFiniteSet(Conns)
    BY <1>0, ChannelAssumption DEF Served, NodeOK
  <2>3. Cardinality(Served(M)) <= Cardinality(Served(N))
        /\ Cardinality(Served(M)) \in Nat /\ Cardinality(Served(N)) \in Nat
    <3>1. IsFiniteSet(Served(N)) /\ IsFiniteSet(Served(M))
      BY <2>1, <2>2, FS_Subset
    <3> QED
      BY <3>1, <2>1, FS_Subset, FS_CardinalityType
  <2>4. limit \in Nat
    BY ChannelAssumption DEF IInv, NodesOK, LinksOK
  <2>5. \A p \in Nodes : Cardinality(Served(node[p])) <= limit
    BY DEF IInv, NodesOK, LinksOK, ServedLimit, Served
  <2>6. \A p \in Nodes : Cardinality(Served(node'[p])) <= limit'
    <3> SUFFICES ASSUME NEW p \in Nodes
                 PROVE  Cardinality(Served(node'[p])) <= limit'
      OBVIOUS
    <3>1. CASE p = n
      BY <3>1, <2>3, <2>4, <2>5, <1>1
    <3>2. CASE p # n
      BY <3>2, <2>5, <1>1
    <3> QED
      BY <3>1, <3>2
  <2> QED
    BY <2>6 DEF ServedLimit, Served
<1>4. BossCloses'
  <2>1. CASE n = "lo"
    <3>1. node'["hi"] = node["hi"]
      BY <2>1, <1>1, PeerFacts
    <3> QED
      BY <3>1 DEF IInv, NodesOK, LinksOK, BossCloses, Exists
  <2>2. CASE n = "hi"
    <3> SUFFICES ASSUME NEW d \in Conns, M.ss[d] # None
                 PROVE  /\ Leaving(M.ss[d])
                        /\ M.ss[d].auth /\ d \notin SlotsOf(M) /\ ~M.ss[d].stopped
                             => M.ss[d].closeFlag
      BY <2>2, <1>1 DEF BossCloses, Exists
    <3>1. N.ss[d] # None =>
            /\ Leaving(N.ss[d])
            /\ N.ss[d].auth /\ d \notin SlotsOf(N) /\ ~N.ss[d].stopped
                 => N.ss[d].closeFlag
      BY <2>2 DEF IInv, NodesOK, LinksOK, BossCloses, Exists
    <3>2. CASE d = c
      <4>1. Leaving(M.ss[d])
        BY <3>2, <2>2
      <4>2. ASSUME M.ss[d].auth, d \notin SlotsOf(M), ~M.ss[d].stopped
            PROVE  M.ss[d].closeFlag
        <5>1. d \notin SlotsOf(N)
          BY <4>2, <3>2 DEF Advances, SlotsOf
        <5> QED
          BY <5>1, <4>2, <3>1, <3>2 DEF Advances
      <4> QED
        BY <4>1, <4>2
    <3>3. CASE d # c
      <4>1. M.ss[d] = N.ss[d]
        BY <3>3 DEF Advances
      <4>2. d \notin SlotsOf(M) => d \notin SlotsOf(N)
        BY <3>3 DEF Advances, SlotsOf
      <4> QED
        BY <4>1, <4>2, <3>1
    <3> QED
      BY <3>2, <3>3
  <2> QED
    BY <2>1, <2>2, PeerFacts
<1>5. \A p \in Nodes : OnePlace(node'[p])
  <2>1. OnePlace(N)
    BY DEF IInv, NodesOK, LinksOK
  <2>2. OnePlace(M)
    BY <2>1 DEF Advances, OnePlace, SlotsOf
  <2> QED
    BY <2>2, <1>1 DEF IInv, NodesOK, LinksOK
<1> QED
  BY <1>2, <1>3, <1>4, <1>5

\* A session that exists goes on existing, and is not connecting again.
LEMMA LinkStep ==
  ASSUME IInv, backlog' = backlog,
         NEW n \in Nodes, NEW c \in Conns, NEW M, Advances(node[n], M, c),
         node' = [node EXCEPT ![n] = M]
  PROVE  Links'
<1>0. node \in [Nodes -> NodeType] /\ Links
  BY DEF IInv, NodesOK, LinksOK
<1>1. node'[n] = M /\ \A p \in Nodes \ {n} : node'[p] = node[p]
  BY <1>0
<1>2. \A p \in Nodes, d \in Conns :
        /\ node'[p].ss[d] # None <=> node[p].ss[d] # None
        /\ node[p].ss[d] # None /\ node'[p].ss[d].sock = "connecting" =>
             node[p].ss[d].sock = "connecting"
  BY <1>1 DEF Advances
<1> QED
  BY <1>0, <1>2, PeerFacts DEF Links, Exists

\* A connection enters no slot and its pipes flow: its decision stands.
LEMMA DecisionKeeps ==
  ASSUME IInv, NEW c \in Conns,
         \A n \in Nodes : Flows(Priorities,
                            wire[Peer(n)][c], UnsentAt(node[n], c),
                            wire'[Peer(n)][c], UnsentAt(node'[n], c)),
         \A n \in Nodes : /\ node'[n].H = c => node[n].H = c
                          /\ node'[n].L = c => node[n].L = c
                          /\ node'[n].C = c => node[n].C = c,
         node["hi"].ss[c] # None =>
           /\ node'["hi"].ss[c] # None
           /\ node["hi"].ss[c].auth => node'["hi"].ss[c].auth
  PROVE  OneDecision(c)'
<1> DEFINE lo == node["lo"]
           hi == node["hi"]
           w == wire["lo"][c]
           u == UnsentAt(hi, c)
           w2 == wire'["lo"][c]
           u2 == UnsentAt(node'["hi"], c)
<1>1. /\ \A p \in Priorities : ~InPipe(p, wire["hi"][c], UnsentAt(lo, c))
      /\ OneInPipe(Priorities, w, u)
      /\ \A p \in Priorities : InPipe(p, w, u) =>
           /\ Exists("hi", c) /\ hi.ss[c].auth
           /\ c \notin SlotsOf(lo) /\ Agrees(p, c, hi)
      /\ c \in SlotsOf(lo) => Exists("hi", c) /\ hi.ss[c].auth
      /\ lo.H = c => Agrees("high", c, hi)
      /\ lo.L = c => Agrees("low", c, hi)
      /\ lo.C = c => Agrees("control", c, hi)
  BY DEF IInv, NodesOK, LinksOK, OneDecision
<1>2. /\ Flows(Priorities, w, u, w2, u2)
      /\ Flows(Priorities, wire["hi"][c], UnsentAt(lo, c),
                           wire'["hi"][c], UnsentAt(node'["lo"], c))
  BY PeerFacts
<1>3. c # None
  BY ChannelAssumption
<1>4. \A n \in Nodes : /\ node'[n].H = c => node[n].H = c
                       /\ node'[n].L = c => node[n].L = c
                       /\ node'[n].C = c => node[n].C = c
                       /\ c \in SlotsOf(node'[n]) => c \in SlotsOf(node[n])
  BY <1>3 DEF SlotsOf
<1>5. \A p : Agrees(p, c, hi) => Agrees(p, c, node'["hi"])
  BY <1>4, PeerFacts DEF Agrees
<1>6. \A p \in Priorities : ~InPipe(p, wire'["hi"][c], UnsentAt(node'["lo"], c))
  BY <1>1, <1>2 DEF Flows
<1>7. OneInPipe(Priorities, w2, u2)
  BY <1>1, <1>2 DEF Flows
<1>8. \A p \in Priorities : InPipe(p, w2, u2) => InPipe(p, w, u)
  BY <1>2 DEF Flows
<1>9. Exists("hi", c) /\ hi.ss[c].auth =>
        node'["hi"].ss[c] # None /\ node'["hi"].ss[c].auth
  BY DEF Exists
<1> HIDE DEF lo, hi, w, u, w2, u2
<1>10. \A p \in Priorities : InPipe(p, w2, u2) =>
           /\ node'["hi"].ss[c] # None /\ node'["hi"].ss[c].auth
           /\ c \notin SlotsOf(node'["lo"]) /\ Agrees(p, c, node'["hi"])
  BY <1>1, <1>4, <1>5, <1>8, <1>9, PeerFacts DEF lo
<1>11. c \in SlotsOf(node'["lo"]) =>
         node'["hi"].ss[c] # None /\ node'["hi"].ss[c].auth
  BY <1>1, <1>4, <1>9, PeerFacts DEF lo
<1>12. /\ node'["lo"].H = c => Agrees("high", c, node'["hi"])
       /\ node'["lo"].L = c => Agrees("low", c, node'["hi"])
       /\ node'["lo"].C = c => Agrees("control", c, node'["hi"])
  BY <1>1, <1>4, <1>5, PeerFacts DEF lo
<1> QED
  BY <1>6, <1>7, <1>10, <1>11, <1>12 DEF OneDecision, Exists, w2, u2

\* The slots lose sessions and the pipes flow: the decisions stand.
LEMMA DecisionStep ==
  ASSUME IInv, FlowStep(Priorities),
         \A n \in Nodes : /\ node'[n].H \in {node[n].H, None}
                          /\ node'[n].L \in {node[n].L, None}
                          /\ node'[n].C \in {node[n].C, None},
         \A c \in Conns : node["hi"].ss[c] # None =>
                            /\ node'["hi"].ss[c] # None
                            /\ node["hi"].ss[c].auth => node'["hi"].ss[c].auth
  PROVE  \A c \in Conns : OneDecision(c)'
<1> SUFFICES ASSUME NEW c \in Conns PROVE OneDecision(c)'
  OBVIOUS
<1>1. c # None
  BY ChannelAssumption
<1>2. \A n \in Nodes : /\ node'[n].H = c => node[n].H = c
                       /\ node'[n].L = c => node[n].L = c
                       /\ node'[n].C = c => node[n].C = c
  BY <1>1
<1>3. \A n \in Nodes : Flows(Priorities,
                         wire[Peer(n)][c], UnsentAt(node[n], c),
                         wire'[Peer(n)][c], UnsentAt(node'[n], c))
  BY DEF FlowStep
<1> QED
  BY <1>2, <1>3, DecisionKeeps

\* In a step on connection c, w is what is in transit before a dead session
\* discards it; a session may have read a line.
WireStep(n, c, w) ==
  /\ w \in [Nodes -> [Conns -> Seq(Lines)]]
  /\ \A p \in Nodes, d \in Conns \ {c} : w[p][d] = wire[p][d]
  /\ SuffixOf(w[n][c], wire[n][c])

\* No message outside X is repeated: the pipes flow and the queues of the
\* remotes stay.
Flowing(X) ==
  /\ \A K : K \cap X = {} => FlowStep(K)
  /\ \A n \in Nodes : node'[n].high = node[n].high

Moves(n, c, M, w) ==
  /\ node' = [node EXCEPT ![n] = M]
  /\ wire' \in {w, [w EXCEPT ![n][c] = <<>>]}

LEMMA UnsentAtType ==
  ASSUME NEW N, NodeOK(N), NEW c \in Conns
  PROVE  UnsentAt(N, c) \in Seq(Lines)
<1>1. CASE N.ss[c] = None
  BY <1>1, EmptySeq DEF UnsentAt
<1>2. CASE N.ss[c] # None
  BY <1>2, UnsentType DEF UnsentAt, NodeOK
<1> QED
  BY <1>1, <1>2

LEMMA OtherPipes ==
  ASSUME IInv, NEW n \in Nodes, NEW c \in Conns, NEW M, NEW w,
         Moves(n, c, M, w), WireStep(n, c, w),
         \A d \in Conns \ {c} : UnsentAt(M, d) = UnsentAt(node[n], d)
  PROVE  /\ wire' \in [Nodes -> [Conns -> Seq(Lines)]]
         /\ node'[n] = M /\ wire'[Peer(n)][c] = w[Peer(n)][c]
         /\ \A K : \A p \in Nodes, d \in Conns : p # n \/ d # c =>
              Flows(K, wire[Peer(p)][d], UnsentAt(node[p], d),
                       wire'[Peer(p)][d], UnsentAt(node'[p], d))
<1>1. /\ node' = [node EXCEPT ![n] = M]
      /\ wire' = w \/ wire' = [w EXCEPT ![n][c] = <<>>]
  BY DEF Moves
<1>2. /\ node \in [Nodes -> NodeType] /\ \A p \in Nodes : NodeOK(node[p])
      /\ wire \in [Nodes -> [Conns -> Seq(Lines)]]
      /\ w \in [Nodes -> [Conns -> Seq(Lines)]]
  BY DEF IInv, NodesOK, WireStep
<1>3. node'[n] = M /\ \A p \in Nodes \ {n} : node'[p] = node[p]
  BY <1>1, <1>2
<1>4. /\ wire' \in [Nodes -> [Conns -> Seq(Lines)]]
      /\ \A p \in Nodes, d \in Conns \ {c} : wire'[p][d] = wire[p][d]
      /\ wire'[Peer(n)][c] = w[Peer(n)][c]
      /\ wire'[n][c] = w[n][c] \/ wire'[n][c] = <<>>
  <2>1. CASE wire' = w
    BY <2>1, <1>2 DEF WireStep
  <2>2. CASE wire' = [w EXCEPT ![n][c] = <<>>]
    <3>1. <<>> \in Seq(Lines)
      BY EmptySeq
    <3> QED
      BY <2>2, <3>1, <1>2, PeerFacts DEF WireStep
  <2> QED
    BY <2>1, <2>2, <1>1
<1>5. ASSUME NEW K, NEW p \in Nodes, NEW d \in Conns, p # n \/ d # c
      PROVE  Flows(K, wire[Peer(p)][d], UnsentAt(node[p], d),
                      wire'[Peer(p)][d], UnsentAt(node'[p], d))
  <2>1. CASE d # c
    <3>1. UnsentAt(node'[p], d) = UnsentAt(node[p], d)
      BY <2>1, <1>3
    <3>2. wire'[Peer(p)][d] = wire[Peer(p)][d]
      BY <2>1, <1>4, PeerFacts
    <3> QED
      BY <3>1, <3>2, SameFlows
  <2>3. CASE d = c /\ p # n
    <3>1. Peer(p) = n /\ node'[p] = node[p]
      BY <2>3, <1>3, PeerFacts
    <3> DEFINE x == wire[n][c]
               y == w[n][c]
               u == UnsentAt(node[p], c)
    <3>2. x \in Seq(Lines) /\ y \in Seq(Lines) /\ u \in Seq(Lines)
      BY <1>2, UnsentAtType
    <3>3. SuffixOf(y, x)
      BY DEF WireStep
    <3> HIDE DEF x, y, u
    <3>4. Flows(K, x, u, y, u) /\ Flows(K, x, u, <<>>, u)
      BY <3>2, <3>3, SuffixFlows, EmptyFlows
    <3> QED
      BY <3>1, <3>4, <2>3, <1>4 DEF x, y, u
  <2> QED
    BY <2>1, <2>3, <1>5
<1> QED
  BY <1>3, <1>4, <1>5

LEMMA PipeStep ==
  ASSUME IInv, NEW K, NEW n \in Nodes, NEW c \in Conns, NEW M, NEW w,
         Moves(n, c, M, w), WireStep(n, c, w),
         \A d \in Conns \ {c} : UnsentAt(M, d) = UnsentAt(node[n], d),
         Flows(K, wire[Peer(n)][c], UnsentAt(node[n], c),
                  w[Peer(n)][c], UnsentAt(M, c))
  PROVE  FlowStep(K) /\ wire' \in [Nodes -> [Conns -> Seq(Lines)]]
<1>1. /\ wire' \in [Nodes -> [Conns -> Seq(Lines)]]
      /\ node'[n] = M /\ wire'[Peer(n)][c] = w[Peer(n)][c]
      /\ \A J : \A p \in Nodes, d \in Conns : p # n \/ d # c =>
           Flows(J, wire[Peer(p)][d], UnsentAt(node[p], d),
                    wire'[Peer(p)][d], UnsentAt(node'[p], d))
  BY OtherPipes
<1> QED
  BY <1>1 DEF FlowStep

\* The generic step: one session advances.
LEMMA SessionStep ==
  ASSUME IInv, limit' = limit, fresh' \subseteq Data, got' \in [Data -> Nat],
         NEW n \in Nodes, NEW c \in Conns, NEW M, NEW w,
         Advances(node[n], M, c),
         Moves(n, c, M, w), WireStep(n, c, w),
         n = "hi" => Leaving(M.ss[c]),
         NEW X, Priorities \cap X = {},
         \A K : K \cap X = {} =>
            Flows(K, wire[Peer(n)][c], UnsentAt(node[n], c),
                     w[Peer(n)][c], UnsentAt(M, c))
  PROVE  NodesOK' /\ Flowing(X) /\ (backlog' = backlog => IInv')
<1>1. node' = [node EXCEPT ![n] = M]
  BY DEF Moves
<1>2. node \in [Nodes -> NodeType]
  BY DEF IInv, NodesOK
<1>3. node'[n] = M /\ \A p \in Nodes \ {n} : node'[p] = node[p]
  BY <1>1, <1>2
<1>4. \A d \in Conns \ {c} : UnsentAt(M, d) = UnsentAt(node[n], d)
  BY DEF Advances, UnsentAt
<1>5. ASSUME NEW K, K \cap X = {}
      PROVE  FlowStep(K) /\ wire' \in [Nodes -> [Conns -> Seq(Lines)]]
  BY <1>4, <1>5, PipeStep
<1>6. Priorities \cap X = {}
  OBVIOUS
<1>7. Flowing(X)
  BY <1>3, <1>5 DEF Flowing, Advances
<1>8. \A c1 \in Conns : OneDecision(c1)'
  <2>1. FlowStep(Priorities)
    BY <1>5, <1>6
  <2>2. \A p \in Nodes : /\ node'[p].H \in {node[p].H, None}
                         /\ node'[p].L \in {node[p].L, None}
                         /\ node'[p].C \in {node[p].C, None}
    BY <1>3 DEF Advances
  <2>3. \A d \in Conns : node["hi"].ss[d] # None =>
                            /\ node'["hi"].ss[d] # None
                            /\ node["hi"].ss[d].auth => node'["hi"].ss[d].auth
    BY <1>3, PeerFacts DEF Advances
  <2> QED
    BY <2>1, <2>2, <2>3, DecisionStep
<1>9. /\ node' \in [Nodes -> NodeType] /\ \A p \in Nodes : NodeOK(node'[p])
      /\ ServedLimit' /\ BossCloses'
      /\ \A p \in Nodes : OnePlace(node'[p])
  BY <1>1, AdvanceStep
<1>10. NodesOK'
  BY <1>5, <1>6, <1>8, <1>9 DEF IInv, NodesOK
<1>11. ASSUME backlog' = backlog PROVE LinksOK'
  BY <1>1, <1>11, LinkStep DEF IInv, LinksOK
<1> QED
  BY <1>7, <1>10, <1>11 DEF IInv

LEMMA SuffixRefl ==
  ASSUME NEW S, NEW s \in Seq(S)
  PROVE  SuffixOf(s, s) /\ (s # <<>> => SuffixOf(Tail(s), s))
<1>1. Len(s) \in Nat
  BY LenProperties
<1>2. SuffixOf(s, s)
  <2>1. 0 \in 0..Len(s) /\ Len(s) = Len(s) - 0 /\ \A i \in 1..Len(s) : s[i] = s[i + 0]
    BY <1>1
  <2> QED
    BY <2>1 DEF SuffixOf
<1>3. ASSUME s # <<>> PROVE SuffixOf(Tail(s), s)
  <2>1. /\ Len(s) \in Nat \ {0} /\ Len(Tail(s)) = Len(s) - 1
        /\ \A i \in 1..Len(Tail(s)) : Tail(s)[i] = s[i + 1]
    BY <1>3, HeadTailProperties, EmptySeq
  <2>2. 1 \in 0..Len(s)
    BY <2>1
  <2> QED
    BY <2>1, <2>2 DEF SuffixOf
<1> QED
  BY <1>2, <1>3

\* What is in transit when node n sends line m, and when it sends nothing.
LEMMA WireFacts ==
  ASSUME IInv, NEW n \in Nodes, NEW c \in Conns
  PROVE  /\ WireStep(n, c, wire)
         /\ \A m \in Lines :
              /\ WireStep(n, c, Sent(n, c, m))
              /\ Sent(n, c, m)[Peer(n)][c] \in
                   {wire[Peer(n)][c], Append(wire[Peer(n)][c], m)}
         /\ wire[n][c] # <<>> =>
              /\ WireStep(n, c, [wire EXCEPT ![n][c] = Tail(@)])
              /\ [wire EXCEPT ![n][c] = Tail(@)][Peer(n)][c] = wire[Peer(n)][c]
<1>1. wire \in [Nodes -> [Conns -> Seq(Lines)]]
  BY DEF IInv, NodesOK
<1>2. \A p \in Nodes, d \in Conns : wire[p][d] \in Seq(Lines)
  BY <1>1
<1>3. WireStep(n, c, wire)
  BY <1>1, <1>2, SuffixRefl DEF WireStep
<1>4. ASSUME NEW m \in Lines
      PROVE  /\ WireStep(n, c, Sent(n, c, m))
             /\ Sent(n, c, m)[Peer(n)][c] \in
                   {wire[Peer(n)][c], Append(wire[Peer(n)][c], m)}
  <2> DEFINE q == Peer(n)
             a == Append(wire[q][c], m)
             v == [wire EXCEPT ![q][c] = a]
  <2>1. Sent(n, c, m) = wire \/ Sent(n, c, m) = v
    BY DEF Sent
  <2>2. q \in Nodes /\ q # n
    BY PeerFacts
  <2>3. a \in Seq(Lines)
    BY <2>2, <1>2, AppendProperties
  <2> HIDE DEF q, a
  <2>4. /\ v \in [Nodes -> [Conns -> Seq(Lines)]]
        /\ \A p \in Nodes, d \in Conns \ {c} : v[p][d] = wire[p][d]
        /\ v[n][c] = wire[n][c]
        /\ v[q][c] = a
    BY <2>2, <2>3, <1>1
  <2> HIDE DEF v
  <2>5. WireStep(n, c, v)
    BY <2>4, <1>3 DEF WireStep
  <2> QED
    BY <2>1, <2>4, <2>5, <1>3 DEF q, a
<1>5. ASSUME wire[n][c] # <<>>
      PROVE  /\ WireStep(n, c, [wire EXCEPT ![n][c] = Tail(@)])
             /\ [wire EXCEPT ![n][c] = Tail(@)][Peer(n)][c] = wire[Peer(n)][c]
  <2> DEFINE a == Tail(wire[n][c])
             v == [wire EXCEPT ![n][c] = a]
  <2>1. a \in Seq(Lines) /\ SuffixOf(a, wire[n][c])
    BY <1>2, <1>5, HeadTailProperties, SuffixRefl
  <2> HIDE DEF a
  <2>2. /\ v \in [Nodes -> [Conns -> Seq(Lines)]]
        /\ \A p \in Nodes, d \in Conns \ {c} : v[p][d] = wire[p][d]
        /\ v[Peer(n)][c] = wire[Peer(n)][c]
        /\ v[n][c] = a
    BY <2>1, <1>1, PeerFacts
  <2>3. WireStep(n, c, v)
    <3> HIDE DEF v
    <3> QED
      BY <2>1, <2>2 DEF WireStep
  <2> QED
    BY <2>2, <2>3 DEF a
<1> QED
  BY <1>3, <1>4, <1>5

\* A session exists and is as it should be.
LEMMA SessionFacts ==
  ASSUME IInv, NEW n \in Nodes, NEW c \in Conns, Exists(n, c)
  PROVE  /\ NodeOK(node[n]) /\ node[n].ss[c] # None /\ SessOK(node[n].ss[c])
         /\ UnsentAt(node[n], c) = Unsent(node[n].ss[c])
         /\ Unsent(node[n].ss[c]) \in Seq(Lines)
         /\ wire[Peer(n)][c] \in Seq(Lines) /\ wire[n][c] \in Seq(Lines)
         /\ n = "hi" => Leaving(node[n].ss[c])
<1>1. NodeOK(node[n]) /\ node[n].ss[c] # None /\ SessOK(node[n].ss[c])
  BY DEF IInv, NodesOK, NodeOK, Exists
<1>2. UnsentAt(node[n], c) = Unsent(node[n].ss[c])
  BY <1>1 DEF UnsentAt
<1>3. Unsent(node[n].ss[c]) \in Seq(Lines)
  BY <1>1, UnsentType
<1>4. wire[Peer(n)][c] \in Seq(Lines) /\ wire[n][c] \in Seq(Lines)
  BY PeerFacts DEF IInv, NodesOK
<1>5. n = "hi" => Leaving(node[n].ss[c])
  BY DEF IInv, NodesOK, BossCloses
<1> QED
  BY <1>1, <1>2, <1>3, <1>4, <1>5

\* stop(), whichever handler calls it and whatever it has put on the wire.
LEMMA StopStepOK ==
  ASSUME IInv, limit' = limit, UNCHANGED <<backlog, fresh, got>>,
         NEW n \in Nodes, NEW c \in Conns, Exists(n, c),
         NEW s, HandedToStop(node[n].ss[c], s), NEW w, WireStep(n, c, w),
         \/ w[Peer(n)][c] = wire[Peer(n)][c]
         \/ \E m \in Service : w[Peer(n)][c] = Append(wire[Peer(n)][c], m),
         StopStep(n, c, s, w)
  PROVE  IInv' /\ Flowing(Service)
<1>1. /\ NodeOK(node[n]) /\ node[n].ss[c] # None
      /\ UnsentAt(node[n], c) = Unsent(node[n].ss[c])
      /\ Unsent(node[n].ss[c]) \in Seq(Lines)
      /\ wire[Peer(n)][c] \in Seq(Lines)
  BY SessionFacts
<1>2. PICK M \in StopSession(node[n], c, s, w[n][c] # <<>>) : Becomes(n, c, M, w)
  BY DEF StopStep
<1>3. /\ Advances(node[n], M, c) /\ M.ss[c].stopped
      /\ Unsent(M.ss[c]) = Unsent(node[n].ss[c])
  <2> DEFINE b == w[n][c] # <<>>
  <2>1. b \in BOOLEAN /\ M \in StopSession(node[n], c, s, b)
    BY <1>2
  <2> HIDE DEF b
  <2> QED
    BY <2>1, <1>1, StopAdvances
<1>4. n = "hi" => Leaving(M.ss[c])
  BY <1>3 DEF Leaving
<1>5. UnsentAt(M, c) = Unsent(node[n].ss[c])
  BY <1>3 DEF UnsentAt, Advances
<1>6. ASSUME NEW K, K \cap Service = {}
      PROVE  Flows(K, wire[Peer(n)][c], UnsentAt(node[n], c),
                      w[Peer(n)][c], UnsentAt(M, c))
  <2>1. CASE w[Peer(n)][c] = wire[Peer(n)][c]
    BY <2>1, <1>1, <1>5, SameFlows
  <2>2. CASE \E m \in Service : w[Peer(n)][c] = Append(wire[Peer(n)][c], m)
    <3>1. PICK m \in Service : w[Peer(n)][c] = Append(wire[Peer(n)][c], m)
      BY <2>2
    <3>2. m \in Lines /\ m \notin K
      BY <1>6 DEF Lines
    <3>3. Flows(K, wire[Peer(n)][c], Unsent(node[n].ss[c]),
                   Append(wire[Peer(n)][c], m), Unsent(node[n].ss[c]))
      BY <3>2, <1>1, AppendFlows
    <3> QED
      BY <3>1, <3>3, <1>1, <1>5
  <2> QED
    BY <2>1, <2>2
<1>7. /\ got' \in [Data -> Nat] /\ fresh' \subseteq Data /\ backlog' = backlog
      /\ Priorities \cap Service = {}
  BY DEF IInv, NodesOK, Priorities, Service
<1>8. Moves(n, c, M, w)
  BY <1>2 DEF Becomes, Moves
<1> QED
  BY <1>3, <1>4, <1>6, <1>7, <1>8, SessionStep

LEMMA ConnectErrOK ==
  ASSUME IInv, limit' = limit, NEW n \in Nodes, NEW c \in Conns, ConnectErr(n, c)
  PROVE  IInv' /\ Flowing(Service)
<1>1. Exists(n, c) /\ StopStep(n, c, node[n].ss[c], wire)
      /\ UNCHANGED <<backlog, fresh, got>>
  BY DEF ConnectErr
<1>2. HandedToStop(node[n].ss[c], node[n].ss[c])
  BY <1>1, SessionFacts, StoppableFacts DEF HandedToStop
<1>3. WireStep(n, c, wire)
  BY WireFacts
<1> QED
  BY <1>1, <1>2, <1>3, StopStepOK

LEMMA WriteErrOK ==
  ASSUME IInv, limit' = limit, NEW n \in Nodes, NEW c \in Conns, WriteErr(n, c)
  PROVE  IInv' /\ Flowing(Service)
<1> DEFINE s == node[n].ss[c]
           t == [s EXCEPT !.wr = "none"]
<1>1. /\ Exists(n, c) /\ s.wr = "started" /\ StopStep(n, c, t, wire)
      /\ UNCHANGED <<backlog, fresh, got>>
  BY DEF WriteErr
<1>2. SessOK(s)
  BY <1>1, SessionFacts
<1>3. Stoppable(t) /\ Unsent(t) = Unsent(s) /\ t.auth = s.auth
        /\ t.dir = s.dir /\ t.stopped = s.stopped /\ t.rd = s.rd
  BY <1>1, <1>2, StoppableFacts
<1>4. t.closeFlag = s.closeFlag
  BY <1>2 DEF SessOK, SessionType
<1>5. WireStep(n, c, wire)
  BY WireFacts
<1> HIDE DEF t
<1>6. HandedToStop(s, t)
  BY <1>3, <1>4 DEF HandedToStop
<1> QED
  BY <1>1, <1>5, <1>6, StopStepOK

LEMMA ReadErrOK ==
  ASSUME IInv, limit' = limit, NEW n \in Nodes, NEW c \in Conns, ReadErr(n, c)
  PROVE  IInv' /\ Flowing(Service)
<1> DEFINE s == node[n].ss[c]
           t == [s EXCEPT !.rd = "off"]
<1>1. /\ Exists(n, c) /\ StopStep(n, c, t, wire)
      /\ UNCHANGED <<backlog, fresh, got>>
  BY DEF ReadErr
<1>2. SessOK(s)
  BY <1>1, SessionFacts
<1>3. Stoppable(t) /\ Unsent(t) = Unsent(s) /\ t.auth = s.auth
        /\ t.dir = s.dir /\ t.stopped = s.stopped /\ t.rd = "off"
  BY <1>2, StoppableFacts
<1>4. t.closeFlag = s.closeFlag
  BY <1>2 DEF SessOK, SessionType
<1>5. WireStep(n, c, wire)
  BY WireFacts
<1> HIDE DEF t
<1>6. HandedToStop(s, t)
  BY <1>3, <1>4 DEF HandedToStop
<1> QED
  BY <1>1, <1>5, <1>6, StopStepOK

LEMMA ByeDoneOK ==
  ASSUME IInv, limit' = limit, NEW n \in Nodes, NEW c \in Conns, ByeDone(n, c)
  PROVE  IInv' /\ Flowing(Service)
<1> DEFINE s == node[n].ss[c]
           t == [s EXCEPT !.bye = @ - 1]
<1>1. /\ Exists(n, c) /\ s.bye > 0
      /\ UNCHANGED <<backlog, fresh, got>>
  BY DEF ByeDone
<1>2. PICK w \in {wire, Sent(n, c, "bye"), Sent(n, c, "garbage")} :
        StopStep(n, c, t, w)
  BY DEF ByeDone
<1>3. SessOK(s)
  BY <1>1, SessionFacts
<1>4. Stoppable(t) /\ Unsent(t) = Unsent(s) /\ t.auth = s.auth
        /\ t.dir = s.dir /\ t.stopped = s.stopped /\ t.rd = s.rd
  BY <1>1, <1>3, StoppableFacts
<1>5. t.closeFlag = s.closeFlag
  BY <1>3 DEF SessOK, SessionType
<1>6. WireStep(n, c, w)
      /\ (\/ w[Peer(n)][c] = wire[Peer(n)][c]
          \/ \E m \in Service : w[Peer(n)][c] = Append(wire[Peer(n)][c], m))
  <2>1. "bye" \in Lines /\ "garbage" \in Lines /\ "bye" \in Service
          /\ "garbage" \in Service
    BY DEF Lines, Service
  <2> QED
    BY <2>1, <1>2, WireFacts
<1> HIDE DEF t
<1>7. HandedToStop(s, t)
  BY <1>4, <1>5 DEF HandedToStop
<1> QED
  BY <1>1, <1>2, <1>6, <1>7, StopStepOK

\* The steps of a session that stop nothing: it becomes t.
LEMMA WithStepOK ==
  ASSUME IInv, limit' = limit, fresh' \subseteq Data, got' \in [Data -> Nat],
         NEW n \in Nodes, NEW c \in Conns, Exists(n, c),
         NEW t, SessOK(t), Follows(node[n].ss[c], t),
         n = "hi" => Leaving(t),
         NEW w, WireStep(n, c, w), Moves(n, c, With(node[n], c, t), w),
         NEW X, Priorities \cap X = {},
         \A K : K \cap X = {} =>
            Flows(K, wire[Peer(n)][c], Unsent(node[n].ss[c]),
                     w[Peer(n)][c], Unsent(t))
  PROVE  NodesOK' /\ Flowing(X) /\ (backlog' = backlog => IInv')
<1>1. PICK M : M = With(node[n], c, t)
  OBVIOUS
<1>2. /\ NodeOK(node[n]) /\ node[n].ss[c] # None
      /\ UnsentAt(node[n], c) = Unsent(node[n].ss[c])
  BY SessionFacts
<1>3. Advances(node[n], M, c) /\ M.ss[c] = t
  BY <1>1, <1>2, WithAdvances
<1>4. UnsentAt(M, c) = Unsent(t)
  BY <1>3 DEF UnsentAt, Advances
<1>5. n = "hi" => Leaving(M.ss[c])
  BY <1>3
<1>6. Moves(n, c, M, w)
  BY <1>1
<1>7. \A K : K \cap X = {} =>
            Flows(K, wire[Peer(n)][c], UnsentAt(node[n], c),
                     w[Peer(n)][c], UnsentAt(M, c))
  BY <1>2, <1>4
<1> QED
  BY <1>3, <1>5, <1>6, <1>7, SessionStep

LEMMA ServiceFacts ==
  /\ Priorities \cap Service = {} /\ "auth" \in Service /\ Service \subseteq Lines
  /\ \A m \in Data : m \in Lines /\ m \notin Service /\ m \notin Priorities
  /\ Priorities \subseteq Lines
  BY ChannelAssumption DEF Priorities, Service, Lines

LEMMA TransmitOK ==
  ASSUME IInv, limit' = limit, NEW n \in Nodes, NEW c \in Conns, Transmit(n, c)
  PROVE  IInv' /\ Flowing(Service)
<1> DEFINE s == node[n].ss[c]
           m == Head(s.q)
           w == Sent(n, c, m)
           t == Transmitted(s)
<1>1. /\ Exists(n, c) /\ s.wr = "started"
      /\ Becomes(n, c, With(node[n], c, t), w)
      /\ UNCHANGED <<backlog, fresh, got>>
  BY DEF Transmit
<1>2. /\ SessOK(s) /\ Unsent(s) \in Seq(Lines)
      /\ wire[Peer(n)][c] \in Seq(Lines) /\ (n = "hi" => Leaving(s))
  BY <1>1, SessionFacts
<1>3. /\ SessOK(t) /\ SameSession(s, t) /\ (Leaving(s) => Leaving(t))
      /\ Unsent(s) # <<>> /\ m = Head(Unsent(s))
      /\ Unsent(t) = Tail(Unsent(s))
  BY <1>1, <1>2, TransmittedOK
<1>4. m \in Lines
  BY <1>2, <1>3, HeadTailProperties
<1>5. /\ WireStep(n, c, w)
      /\ w[Peer(n)][c] \in {wire[Peer(n)][c], Append(wire[Peer(n)][c], m)}
  BY <1>4, WireFacts
<1>6. Follows(s, t)
  BY <1>3 DEF SameSession, Follows
<1>7. Moves(n, c, With(node[n], c, t), w)
  BY <1>1 DEF Moves, Becomes
<1>8. got' \in [Data -> Nat] /\ fresh' \subseteq Data /\ backlog' = backlog
  BY <1>1 DEF IInv, NodesOK
<1> HIDE DEF w, t, m, s
<1>9. ASSUME NEW K
      PROVE  Flows(K, wire[Peer(n)][c], Unsent(s), w[Peer(n)][c], Unsent(t))
  <2>1. Flows(K, wire[Peer(n)][c], Unsent(s), wire[Peer(n)][c], Tail(Unsent(s)))
    <3>1. SuffixOf(Tail(Unsent(s)), Unsent(s)) /\ Tail(Unsent(s)) \in Seq(Lines)
      BY <1>2, <1>3, SuffixRefl, HeadTailProperties
    <3> QED
      BY <3>1, <1>2, SuffixFlows
  <2>2. Flows(K, wire[Peer(n)][c], Unsent(s),
                 Append(wire[Peer(n)][c], Head(Unsent(s))), Tail(Unsent(s)))
    BY <1>2, <1>3, MoveFlows
  <2> QED
    BY <2>1, <2>2, <1>3, <1>5
<1> QED
  BY <1>1, <1>2, <1>3, <1>5, <1>6, <1>7, <1>8, <1>9, ServiceFacts, WithStepOK DEF s

LEMMA WriteOkOK ==
  ASSUME IInv, limit' = limit, NEW n \in Nodes, NEW c \in Conns, WriteOk(n, c)
  PROVE  IInv' /\ Flowing(Service)
<1> DEFINE s == node[n].ss[c]
<1>1. /\ Exists(n, c) /\ s.wr = "sent"
      /\ UNCHANGED <<backlog, fresh, got>>
  BY DEF WriteOk
<1>2. PICK t \in WriteDone(s) : Becomes(n, c, With(node[n], c, t), wire)
  BY DEF WriteOk
<1>3. /\ SessOK(s) /\ Unsent(s) \in Seq(Lines)
      /\ wire[Peer(n)][c] \in Seq(Lines)
  BY <1>1, SessionFacts
<1>4. /\ SessOK(t) /\ SameSession(s, t) /\ Leaving(t)
      /\ SuffixOf(Unsent(t), Unsent(s))
  BY <1>1, <1>3, WriteDoneOK
<1>5. Follows(s, t)
  BY <1>4 DEF SameSession, Follows
<1>6. Moves(n, c, With(node[n], c, t), wire)
  BY <1>2 DEF Moves, Becomes
<1>7. got' \in [Data -> Nat] /\ fresh' \subseteq Data /\ backlog' = backlog
  BY <1>1 DEF IInv, NodesOK
<1> HIDE DEF s
<1>8. ASSUME NEW K
      PROVE  Flows(K, wire[Peer(n)][c], Unsent(s), wire[Peer(n)][c], Unsent(t))
  BY <1>3, <1>4, UnsentType, SuffixFlows
<1>9. WireStep(n, c, wire)
  BY WireFacts
<1> QED
  BY <1>1, <1>4, <1>5, <1>6, <1>7, <1>8, <1>9, ServiceFacts, WithStepOK DEF s

LEMMA ConnectOkOK ==
  ASSUME IInv, limit' = limit, NEW n \in Nodes, NEW c \in Conns, ConnectOk(n, c)
  PROVE  IInv' /\ Flowing(Service)
<1> DEFINE s == node[n].ss[c]
           o == [s EXCEPT !.sock = "open"]
           t == Start(o, "auth")
<1>1. /\ Exists(n, c) /\ s.sock = "connecting"
      /\ Becomes(n, c, With(node[n], c, t), wire)
      /\ backlog' = [backlog EXCEPT ![Peer(n)] = @ \cup {c}]
      /\ UNCHANGED <<fresh, got>>
  BY DEF ConnectOk
<1>2. /\ SessOK(s) /\ Unsent(s) \in Seq(Lines) /\ NodeOK(node[n])
      /\ wire[Peer(n)][c] \in Seq(Lines) /\ (n = "hi" => Leaving(s))
      /\ node[n].ss[c] # None
  BY <1>1, SessionFacts
<1>3. /\ SessOK(o) /\ o.sock = "open" /\ ~o.auth /\ ~o.stopped
      /\ o.q = <<>> /\ o.dir = "outgoing" /\ Unsent(o) = Unsent(s)
  BY <1>1, <1>2, OpenOK
<1>4. o.closeFlag = s.closeFlag
  BY <1>2 DEF SessOK, SessionType
<1> HIDE DEF o
<1>5. /\ SessOK(t) /\ Leaving(t)
      /\ Unsent(t) = Append(Unsent(o), "auth")
      /\ ~t.auth /\ ~t.stopped /\ t.sock = "open" /\ t.dir = o.dir
  BY <1>3, StartOK
<1>6. t.closeFlag = o.closeFlag /\ t \in SessionType(Lines)
  <2>1. o \in SessionType(Lines) /\ "auth" \in Lines
    BY <1>3, ServiceFacts DEF SessOK
  <2> QED
    BY <2>1, StartFacts
<1> HIDE DEF t
<1>7. Follows(s, t)
  <2>1. /\ ~s.auth /\ ~s.stopped /\ s.dir = "outgoing"
        /\ s.auth \in BOOLEAN /\ s.stopped \in BOOLEAN
        /\ t.auth \in BOOLEAN /\ t.stopped \in BOOLEAN
    BY <1>1, <1>2, <1>6 DEF SessOK, SessionType
  <2>2. s.closeFlag => t.closeFlag
    BY <1>4, <1>6
  <2>3. t.dir = "outgoing" /\ t.sock = "open"
    BY <1>3, <1>5
  <2> QED
    BY <2>1, <2>2, <2>3, <1>5 DEF Follows
<1>8. Moves(n, c, With(node[n], c, t), wire)
  BY <1>1 DEF Moves, Becomes
<1>9. got' \in [Data -> Nat] /\ fresh' \subseteq Data
  BY <1>1 DEF IInv, NodesOK
<1> HIDE DEF s
<1>10. ASSUME NEW K, K \cap Service = {}
       PROVE  Flows(K, wire[Peer(n)][c], Unsent(s), wire[Peer(n)][c], Unsent(t))
  <2>1. "auth" \in Lines /\ "auth" \notin K /\ Unsent(t) = Append(Unsent(s), "auth")
    BY <1>3, <1>5, <1>10, ServiceFacts
  <2> QED
    BY <2>1, <1>2, AppendFlows
<1>11. WireStep(n, c, wire)
  BY WireFacts
<1>12. NodesOK' /\ Flowing(Service)
  BY <1>1, <1>5, <1>7, <1>8, <1>9, <1>10, <1>11, ServiceFacts, WithStepOK DEF s
<1>13. LinksOK'
  <2>1. backlog' \in [Nodes -> SUBSET Conns]
        /\ backlog'[Peer(n)] = backlog[Peer(n)] \cup {c}
        /\ backlog'[n] = backlog[n]
    BY <1>1, PeerFacts DEF IInv, LinksOK
  <2>2. Links /\ node \in [Nodes -> NodeType]
    BY DEF IInv, LinksOK, NodesOK
  <2>3. PICK M : M = With(node[n], c, t)
    OBVIOUS
  <2>4. Advances(node[n], M, c) /\ M.ss[c] = t
    BY <2>3, <1>2, <1>5, <1>7, WithAdvances DEF s
  <2>5. node'[n] = M /\ \A p \in Nodes \ {n} : node'[p] = node[p]
    BY <2>2, <2>3, <1>8 DEF Moves
  <2>6. /\ \A d \in Conns \ {c} : node'[n].ss[d] = node[n].ss[d]
        /\ node'[n].ss[c] = t /\ t # None
    BY <2>4, <2>5 DEF Advances
  <2>7. node[Peer(n)].ss[c] = None /\ node'[Peer(n)] = node[Peer(n)]
    BY <2>2, <2>5, <1>1, PeerFacts DEF Links, Exists, s
  <2>8. \A d \in Conns :
          /\ d \in backlog'[n] =>
               /\ node'[n].ss[d] = None /\ node'[Peer(n)].ss[d] # None
               /\ node'[Peer(n)].ss[d].sock # "connecting"
          /\ node'[n].ss[d] # None /\ node'[n].ss[d].sock = "connecting" =>
               node'[Peer(n)].ss[d] = None
    BY <2>1, <2>2, <2>6, <2>7, <1>2, <1>5, PeerFacts DEF Links, Exists, s
  <2>9. \A d \in Conns :
          /\ d \in backlog'[Peer(n)] =>
               /\ node'[Peer(n)].ss[d] = None /\ node'[n].ss[d] # None
               /\ node'[n].ss[d].sock # "connecting"
          /\ node'[Peer(n)].ss[d] # None /\ node'[Peer(n)].ss[d].sock = "connecting" =>
               node'[n].ss[d] = None
    BY <2>1, <2>2, <2>6, <2>7, <1>2, <1>5, PeerFacts DEF Links, Exists, s
  <2>10. \A p \in Nodes : p = n \/ p = Peer(n)
    BY PeerFacts
  <2> QED
    BY <2>1, <2>8, <2>9, <2>10, PeerFacts DEF LinksOK, Links, Exists
<1> QED
  BY <1>12, <1>13 DEF IInv

-----------------------------------------------------------------------------
(* E sessions, and messages that wait in the remote.                     *)

Grows(N, M, E) ==
  /\ NodeOK(M)
  /\ \A d \in Conns \ E : M.ss[d] = N.ss[d]
  /\ \A d \in E : /\ N.ss[d] = None /\ M.ss[d] # None
                  /\ ~M.ss[d].auth /\ Leaving(M.ss[d])
                  /\ Unsent(M.ss[d]) \in {<<>>, Append(<<>>, "auth")}
  /\ M.H = N.H /\ M.L = N.L /\ M.C = N.C /\ M.wait = N.wait

LEMMA GrowStep ==
  ASSUME IInv, limit' = limit, fresh' \subseteq Data, got' \in [Data -> Nat],
         wire' = wire,
         NEW n \in Nodes, NEW E, NEW M, Grows(node[n], M, E),
         node' = [node EXCEPT ![n] = M],
         Cardinality(Served(M)) <= limit
  PROVE  NodesOK' /\ \A K : K \cap Service = {} => FlowStep(K)
<1> DEFINE N == node[n]
<1>0. /\ node \in [Nodes -> NodeType] /\ NodeOK(N)
      /\ wire \in [Nodes -> [Conns -> Seq(Lines)]]
  BY DEF IInv, NodesOK
<1>1. node'[n] = M /\ \A p \in Nodes \ {n} : node'[p] = node[p]
  BY <1>0
<1>2. node' \in [Nodes -> NodeType] /\ \A p \in Nodes : NodeOK(node'[p])
  <2>1. NodeOK(M) /\ M \in NodeType
    BY DEF Grows, NodeOK
  <2> QED
    BY <2>1, <1>0, <1>1 DEF IInv, NodesOK
<1>3. ServedLimit'
  <2>1. \A p \in Nodes : Cardinality(Served(node[p])) <= limit
    BY DEF IInv, NodesOK, ServedLimit, Served
  <2>2. \A p \in Nodes : Cardinality(Served(node'[p])) <= limit'
    BY <2>1, <1>1
  <2> QED
    BY <2>2 DEF ServedLimit, Served
<1>4. BossCloses'
  <2> SUFFICES ASSUME NEW d \in Conns, node'["hi"].ss[d] # None
               PROVE  /\ Leaving(node'["hi"].ss[d])
                      /\ node'["hi"].ss[d].auth /\ d \notin SlotsOf(node'["hi"])
                           /\ ~node'["hi"].ss[d].stopped
                           => node'["hi"].ss[d].closeFlag
    BY DEF BossCloses, Exists
  <2>1. CASE n = "hi" /\ d \in E
    BY <2>1, <1>1 DEF Grows
  <2>2. CASE n # "hi" \/ d \notin E
    <3>1. node'["hi"].ss[d] = node["hi"].ss[d]
      BY <2>2, <1>1, PeerFacts DEF Grows
    <3>2. SlotsOf(node'["hi"]) = SlotsOf(node["hi"])
      BY <1>1, PeerFacts DEF Grows, SlotsOf
    <3> QED
      BY <3>1, <3>2 DEF IInv, NodesOK, BossCloses, Exists
  <2> QED
    BY <2>1, <2>2
<1>5. \A p \in Nodes : OnePlace(node'[p])
  <2>1. OnePlace(N)
    BY DEF IInv, NodesOK
  <2>2. OnePlace(M)
    BY <2>1 DEF Grows, OnePlace, SlotsOf
  <2> QED
    BY <2>2, <1>1 DEF IInv, NodesOK
<1>6. ASSUME NEW K, K \cap Service = {}
      PROVE  FlowStep(K)
  <2> SUFFICES ASSUME NEW p \in Nodes, NEW d \in Conns
               PROVE  Flows(K, wire[Peer(p)][d], UnsentAt(node[p], d),
                               wire[Peer(p)][d], UnsentAt(node'[p], d))
    BY DEF FlowStep
  <2>1. CASE p = n /\ d \in E
    <3>1. UnsentAt(node[p], d) = <<>>
          /\ UnsentAt(node'[p], d) \in {<<>>, Append(<<>>, "auth")}
      BY <2>1, <1>1 DEF Grows, UnsentAt
    <3>2. wire[Peer(p)][d] \in Seq(Lines)
      BY <1>0, PeerFacts
    <3>3. "auth" \in Lines /\ "auth" \notin K /\ <<>> \in Seq(Lines)
      BY <1>6, ServiceFacts, EmptySeq
    <3>4. Flows(K, wire[Peer(p)][d], <<>>, wire[Peer(p)][d], Append(<<>>, "auth"))
      BY <3>2, <3>3, AppendFlows
    <3> QED
      BY <3>1, <3>4, SameFlows
  <2>2. CASE p # n \/ d \notin E
    <3>1. UnsentAt(node'[p], d) = UnsentAt(node[p], d)
      BY <2>2, <1>1 DEF Grows, UnsentAt
    <3> QED
      BY <3>1, SameFlows
  <2> QED
    BY <2>1, <2>2
<1>7. \A c \in Conns : OneDecision(c)'
  <2>1. FlowStep(Priorities)
    BY <1>6, ServiceFacts
  <2>2. \A p \in Nodes : /\ node'[p].H \in {node[p].H, None}
                         /\ node'[p].L \in {node[p].L, None}
                         /\ node'[p].C \in {node[p].C, None}
    BY <1>1 DEF Grows
  <2>3. \A d \in Conns : node["hi"].ss[d] # None =>
                            /\ node'["hi"].ss[d] # None
                            /\ node["hi"].ss[d].auth => node'["hi"].ss[d].auth
    <3>1. CASE n = "hi"
      BY <3>1, <1>1 DEF Grows
    <3>2. CASE n # "hi"
      BY <3>2, <1>1, PeerFacts
    <3> QED
      BY <3>1, <3>2
  <2> QED
    BY <2>1, <2>2, <2>3, DecisionStep
<1> QED
  BY <1>0, <1>2, <1>3, <1>4, <1>5, <1>6, <1>7 DEF IInv, NodesOK

LEMMA ServedFacts ==
  ASSUME IInv, NEW n \in Nodes
  PROVE  /\ IsFiniteSet(Served(node[n])) /\ limit \in Nat
         /\ Cardinality(Served(node[n])) <= limit
         /\ \A S : S \subseteq Served(node[n]) => Cardinality(S) <= limit
<1>1. NodeOK(node[n]) /\ limit \in Nat
  BY ChannelAssumption DEF IInv, NodesOK
<1>2. Served(node[n]) \subseteq Conns
  BY <1>1 DEF Served, NodeOK
<1>3. IsFiniteSet(Served(node[n]))
  BY <1>2, ChannelAssumption, FS_Subset
<1>4. Cardinality(Served(node[n])) <= limit
  BY DEF IInv, NodesOK, ServedLimit, Served
<1>5. ASSUME NEW S, S \subseteq Served(node[n]) PROVE Cardinality(S) <= limit
  <2>1. IsFiniteSet(S) /\ Cardinality(S) <= Cardinality(Served(node[n]))
    BY <1>3, <1>5, FS_Subset
  <2>2. Cardinality(S) \in Nat /\ Cardinality(Served(node[n])) \in Nat
    BY <2>1, <1>3, FS_CardinalityType
  <2> QED
    BY <2>1, <2>2, <1>1, <1>4
<1> QED
  BY <1>1, <1>3, <1>4, <1>5

\* Connections whose ends both change only where no end was, or whose new end
\* is the one the backlog announced.
LEMMA NewLinks ==
  ASSUME IInv, NEW n \in Nodes, NEW E \in SUBSET Conns, NEW M,
         node' = [node EXCEPT ![n] = M],
         \A d \in Conns \ E : M.ss[d] = node[n].ss[d],
         \A d \in E : node[n].ss[d] = None /\ M.ss[d] # None,
         \/ /\ backlog' = backlog
            /\ \A d \in E : node[Peer(n)].ss[d] = None
         \/ /\ backlog' = [backlog EXCEPT ![n] = @ \ E]
            /\ E \subseteq backlog[n]
            /\ \A d \in E : M.ss[d].sock # "connecting"
  PROVE  LinksOK'
<1>0. /\ node \in [Nodes -> NodeType] /\ Links
      /\ backlog \in [Nodes -> SUBSET Conns]
  BY DEF IInv, NodesOK, LinksOK
<1> DEFINE q == Peer(n)
<1>1. node'[n] = M /\ node'[q] = node[q] /\ q \in Nodes /\ Peer(q) = n /\ q # n
  BY <1>0, PeerFacts
<1>2. /\ backlog' \in [Nodes -> SUBSET Conns]
      /\ backlog'[q] = backlog[q] /\ backlog'[n] \subseteq backlog[n]
      /\ \A d \in E : node[q].ss[d] # None => d \notin backlog'[n]
  BY <1>0, <1>1
<1> HIDE DEF q
<1>3. \A d \in Conns :
        /\ d \in backlog[n] =>
             /\ node[n].ss[d] = None /\ node[q].ss[d] # None
             /\ node[q].ss[d].sock # "connecting"
        /\ node[n].ss[d] # None /\ node[n].ss[d].sock = "connecting" =>
             node[q].ss[d] = None
        /\ d \in backlog[q] =>
             /\ node[q].ss[d] = None /\ node[n].ss[d] # None
             /\ node[n].ss[d].sock # "connecting"
        /\ node[q].ss[d] # None /\ node[q].ss[d].sock = "connecting" =>
             node[n].ss[d] = None
  BY <1>0, <1>1 DEF Links, Exists, q
<1>4. \A d \in E : node[q].ss[d] = None \/
        (M.ss[d].sock # "connecting" /\ node[q].ss[d].sock # "connecting")
  BY <1>3 DEF q
<1>5. ASSUME NEW d \in Conns
      PROVE  /\ d \in backlog'[n] =>
                  /\ node'[n].ss[d] = None /\ node'[q].ss[d] # None
                  /\ node'[q].ss[d].sock # "connecting"
             /\ node'[n].ss[d] # None /\ node'[n].ss[d].sock = "connecting" =>
                  node'[q].ss[d] = None
             /\ d \in backlog'[q] =>
                  /\ node'[q].ss[d] = None /\ node'[n].ss[d] # None
                  /\ node'[n].ss[d].sock # "connecting"
             /\ node'[q].ss[d] # None /\ node'[q].ss[d].sock = "connecting" =>
                  node'[n].ss[d] = None
  <2>1. CASE d \in E
    BY <2>1, <1>1, <1>2, <1>3, <1>4
  <2>2. CASE d \notin E
    BY <2>2, <1>1, <1>2, <1>3
  <2> QED
    BY <2>1, <2>2
<1>6. \A p \in Nodes : p = n \/ p = q
  BY PeerFacts DEF q
<1>7. Links'
  BY <1>1, <1>5, <1>6 DEF Links, Exists, q
<1> QED
  BY <1>2, <1>7 DEF LinksOK

LEMMA DialOK ==
  ASSUME IInv, limit' = limit, NEW n \in Nodes, Dial(n)
  PROVE  IInv' /\ Flowing(Service)
<1> DEFINE N == node[n]
           new == NewSession("outgoing")
<1>1. PICK E \in SUBSET {c \in Conns : ~Exists("lo", c) /\ ~Exists("hi", c)} :
        node' = [node EXCEPT
                ![n].ss = [c \in Conns |-> IF c \in E THEN new ELSE @[c]],
                ![n].ips = @ \cup E]
  BY DEF Dial
<1>2. UNCHANGED <<backlog, wire, fresh, got>>
  BY DEF Dial
<1>3. E \in SUBSET Conns /\ \A d \in E : N.ss[d] = None /\ node[Peer(n)].ss[d] = None
  BY <1>1, PeerFacts DEF Exists
<1>4. node \in [Nodes -> NodeType] /\ N \in NodeType /\ NodeOK(N)
  BY DEF IInv, NodesOK
<1>5. /\ SessOK(new) /\ Leaving(new) /\ Unsent(new) = <<>>
      /\ new.dir = "outgoing" /\ ~new.auth /\ ~new.stopped /\ new.rd = "off"
  BY NewSessionOK DEF Directions
<1>6. new \in SessionType(Lines) /\ new # None
  BY <1>5, ChannelAssumption DEF SessOK
<1> HIDE DEF new
<1> DEFINE f == [c \in Conns |-> IF c \in E THEN new ELSE N.ss[c]]
<1>7. PICK M : M = [N EXCEPT !.ss = f, !.ips = N.ips \cup E]
  OBVIOUS
<1>8. node' = [node EXCEPT ![n] = M]
  BY <1>1, <1>4, <1>7
<1>9. f \in [Conns -> SessionType(Lines) \cup {None}]
  <2> DEFINE S == SessionType(Lines)
  <2>1. N.ss \in [Conns -> S \cup {None}] /\ new \in S
    BY <1>4, <1>6 DEF NodeType
  <2> HIDE DEF S
  <2>2. f \in [Conns -> S \cup {None}]
    BY <2>1
  <2> QED
    BY <2>2 DEF S
<1>10. \A d \in Conns : f[d] = IF d \in E THEN new ELSE N.ss[d]
  OBVIOUS
<1> HIDE DEF f
<1>11. /\ M \in NodeType /\ M.ss = f /\ M.ips = N.ips \cup E
       /\ \A g \in {"H", "L", "C", "wait", "high"} : M[g] = N[g]
  <2> DEFINE T == [Conns -> SessionType(Lines) \cup {None}]
  <2>1. f \in T /\ N \in [ss : T, H : Conns \cup {None}, L : Conns \cup {None},
                          C : Conns \cup {None}, wait : SUBSET Conns,
                          high : Seq(Data), ips : SUBSET Conns]
    BY <1>4, <1>9 DEF NodeType
  <2> HIDE DEF T
  <2>2. M \in [ss : T, H : Conns \cup {None}, L : Conns \cup {None},
               C : Conns \cup {None}, wait : SUBSET Conns,
               high : Seq(Data), ips : SUBSET Conns]
    BY <2>1, <1>3, <1>7
  <2>3. M.ss = f /\ M.ips = N.ips \cup E
        /\ \A g \in {"H", "L", "C", "wait", "high"} : M[g] = N[g]
    BY <2>1, <1>7
  <2> QED
    BY <2>2, <2>3 DEF NodeType, T
<1>12. NodeOK(M)
  <2>1. \A d \in Conns : M.ss[d] # None => SessOK(M.ss[d])
    BY <1>4, <1>5, <1>10, <1>11 DEF NodeOK
  <2>2. M.ips = {d \in Conns : M.ss[d] # None /\ ~M.ss[d].stopped}
    <3>1. N.ips = {d \in Conns : N.ss[d] # None /\ ~N.ss[d].stopped}
      BY <1>4 DEF NodeOK
    <3> QED
      BY <3>1, <1>3, <1>5, <1>6, <1>10, <1>11
  <2>3. SlotsOf(M) = SlotsOf(N) /\ M.wait = N.wait
    BY <1>11 DEF SlotsOf
  <2>4. \A d \in SlotsOf(N) \cup N.wait : N.ss[d] # None /\ N.ss[d].auth
    BY <1>4 DEF NodeOK
  <2>5. SlotsOf(N) \cup N.wait \subseteq Conns
    BY <1>4 DEF NodeType, SlotsOf
  <2>6. \A d \in SlotsOf(M) \cup M.wait : M.ss[d] # None /\ M.ss[d].auth
    BY <2>3, <2>4, <2>5, <1>3, <1>10, <1>11
  <2> QED
    BY <2>1, <2>2, <2>6, <1>11 DEF NodeOK
<1>13. Grows(N, M, E)
  BY <1>3, <1>5, <1>6, <1>10, <1>11, <1>12 DEF Grows
<1>14. Served(M) \subseteq Served(N)
  <2> SUFFICES ASSUME NEW d \in Served(M) PROVE d \in Served(N)
    OBVIOUS
  <2>1. d \in Conns /\ d \in M.ips /\ M.ss[d].dir = "incoming" /\ M.ss[d].rd # "off"
    BY <1>11 DEF Served, NodeType
  <2>2. d \notin E
    BY <2>1, <1>5, <1>10, <1>11
  <2> QED
    BY <2>1, <2>2, <1>10, <1>11 DEF Served
<1>15. Cardinality(Served(M)) <= limit
  BY <1>14, ServedFacts
<1>16. fresh' \subseteq Data /\ got' \in [Data -> Nat] /\ wire' = wire /\ backlog' = backlog
  BY <1>2 DEF IInv, NodesOK
<1>17. NodesOK' /\ \A K : K \cap Service = {} => FlowStep(K)
  BY <1>8, <1>13, <1>15, <1>16, GrowStep
<1>18. LinksOK'
  <2>1. \A d \in Conns \ E : M.ss[d] = node[n].ss[d]
    BY <1>13 DEF Grows
  <2>2. \A d \in E : node[n].ss[d] = None /\ M.ss[d] # None
    BY <1>13 DEF Grows
  <2> QED
    BY <2>1, <2>2, <1>3, <1>8, <1>16, NewLinks
<1>19. \A p \in Nodes : node'[p].high = node[p].high
  BY <1>4, <1>8, <1>11
<1> QED
  BY <1>17, <1>18, <1>19 DEF IInv, Flowing

\* do_accept(): the node with its new session, closed or started.
LEMMA AcceptIntoOK ==
  ASSUME IInv, NEW n \in Nodes, NEW c \in Conns, node[n].ss[c] = None,
         NEW M, M = AcceptInto(node[n], c)
  PROVE  /\ Grows(node[n], M, {c}) /\ M.high = node[n].high
         /\ Cardinality(Served(M)) <= limit
         /\ ~M.ss[c].stopped /\ M.ss[c].sock # "connecting"
<1> DEFINE N == node[n]
           new == NewSession("incoming")
           O == OnSessionCreated(N, c, new)
<1>1. N \in NodeType /\ NodeOK(N)
  BY DEF IInv, NodesOK
<1>2. /\ SessOK(new) /\ Leaving(new) /\ Unsent(new) = <<>> /\ new.q = <<>>
      /\ new.dir = "incoming" /\ ~new.auth /\ ~new.stopped /\ new.rd = "off"
      /\ new.sock = "open"
  BY NewSessionOK DEF Directions, NewSession
<1>3. new \in SessionType(Lines) /\ new # None
  BY <1>2, ChannelAssumption DEF SessOK
<1> HIDE DEF new
<1> DEFINE W == With(N, c, new)
<1>4. /\ W \in NodeType
      /\ W.ss = [N.ss EXCEPT ![c] = new]
      /\ \A f \in {"H", "L", "C", "wait", "high", "ips"} : W[f] = N[f]
  BY <1>1, <1>3, WithType
<1> HIDE DEF W
<1>5. O = [W EXCEPT !.ips = @ \cup {c}]
  BY DEF OnSessionCreated, W
<1>6. /\ O \in NodeType
      /\ O.ss = W.ss /\ O.ips = N.ips \cup {c}
      /\ \A f \in {"H", "L", "C", "wait", "high"} : O[f] = N[f]
  BY <1>4, <1>5 DEF NodeType
<1> HIDE DEF O
<1>7. SlotsOf(O) = SlotsOf(N) /\ O.wait = N.wait
  BY <1>6 DEF SlotsOf
<1>8. c \notin SlotsOf(N) \cup N.wait
  BY <1>1 DEF NodeOK
<1>9. NodeOK(O) /\ O.ss[c] = new /\ \A d \in Conns \ {c} : O.ss[d] = N.ss[d]
  <2>1. Changes(N, O, c, new)
    BY <1>2, <1>4, <1>6, <1>7, <1>8 DEF Changes
  <2> QED
    BY <2>1, <1>1, <1>2, NodeFrame
<1>10. ASSUME NEW t, SessOK(t), Leaving(t), ~t.auth, ~t.stopped,
              Unsent(t) \in {<<>>, Append(<<>>, "auth")},
              M = With(O, c, t)
       PROVE  /\ Grows(N, M, {c}) /\ M.high = N.high /\ M.ips = O.ips
              /\ M.ss[c] = t /\ \A d \in Conns \ {c} : M.ss[d] = N.ss[d]
  <2>1. t \in SessionType(Lines) /\ t # None
    BY <1>10, ChannelAssumption DEF SessOK
  <2>2. /\ M \in NodeType
        /\ M.ss = [O.ss EXCEPT ![c] = t]
        /\ \A f \in {"H", "L", "C", "wait", "high", "ips"} : M[f] = O[f]
        /\ SlotsOf(M) = SlotsOf(O)
    BY <2>1, <1>6, <1>10, WithType
  <2>3. NodeOK(M) /\ M.ss[c] = t /\ \A d \in Conns \ {c} : M.ss[d] = O.ss[d]
    <3>1. M.ips = IF t.stopped THEN O.ips \ {c} ELSE O.ips \cup {c}
      BY <2>2, <1>6, <1>10
    <3>2. Changes(O, M, c, t)
      BY <3>1, <2>2, <1>7, <1>8 DEF Changes
    <3>3. SessOK(t) /\ NodeOK(O)
      BY <1>9, <1>10
    <3> QED
      BY <3>2, <3>3, NodeFrame
  <2>4. \A d \in Conns \ {c} : M.ss[d] = N.ss[d]
    BY <2>3, <1>9
  <2>5. M.H = N.H /\ M.L = N.L /\ M.C = N.C /\ M.wait = N.wait
        /\ M.high = N.high /\ M.ips = O.ips
    BY <2>2, <1>6
  <2>6. Grows(N, M, {c})
    BY <2>1, <2>3, <2>4, <2>5, <1>10 DEF Grows
  <2> QED
    BY <2>3, <2>4, <2>5, <2>6
<1>11. M = IF Cardinality(O.ips) > limit THEN CloseIn(O, c)
           ELSE With(O, c, Start(O.ss[c], "auth"))
  BY DEF AcceptInto, O, new
<1>12. CASE Cardinality(O.ips) > limit
  <2> DEFINE t == GracefullClose(new)
  <2>1. M = With(O, c, t)
    <3>1. c # None
      BY ChannelAssumption
    <3> QED
      BY <3>1, <1>9, <1>11, <1>12 DEF CloseIn
  <2>2. /\ SessOK(t) /\ SameSession(new, t) /\ Unsent(t) = Unsent(new)
        /\ t.rd = new.rd /\ Leaving(t)
    BY <1>2, GracefullCloseOK
  <2> HIDE DEF t
  <2>3. ~t.auth /\ ~t.stopped /\ t.sock = "open" /\ t.rd = "off"
    BY <2>2, <1>2 DEF SameSession
  <2>4. /\ Grows(N, M, {c}) /\ M.high = N.high /\ M.ips = O.ips
        /\ M.ss[c] = t /\ \A d \in Conns \ {c} : M.ss[d] = N.ss[d]
    BY <2>1, <2>2, <2>3, <1>2, <1>10
  <2>5. Served(M) \subseteq Served(N)
    BY <2>3, <2>4, <1>1, <1>6 DEF Served, NodeType
  <2> QED
    BY <2>3, <2>4, <2>5, ServedFacts
<1>13. CASE ~(Cardinality(O.ips) > limit)
  <2> DEFINE t == Start(new, "auth")
  <2>1. M = With(O, c, t)
    BY <1>9, <1>11, <1>13
  <2>2. /\ SessOK(t) /\ Leaving(t)
        /\ Unsent(t) = Append(Unsent(new), "auth")
        /\ ~t.auth /\ ~t.stopped /\ t.sock = "open"
    BY <1>2, StartOK
  <2> HIDE DEF t
  <2>3. /\ Grows(N, M, {c}) /\ M.high = N.high /\ M.ips = O.ips /\ M.ss[c] = t
    BY <2>1, <2>2, <1>2, <1>10
  <2>4. Served(M) \subseteq O.ips /\ IsFiniteSet(O.ips)
    <3>1. O.ips \subseteq Conns
      BY <1>6 DEF NodeType
    <3> QED
      BY <3>1, <2>3, ChannelAssumption, FS_Subset DEF Served
  <2>5. /\ Cardinality(Served(M)) <= Cardinality(O.ips)
        /\ Cardinality(Served(M)) \in Nat /\ Cardinality(O.ips) \in Nat
    <3>1. IsFiniteSet(Served(M)) /\ Cardinality(Served(M)) <= Cardinality(O.ips)
      BY <2>4, FS_Subset
    <3> QED
      BY <3>1, <2>4, FS_CardinalityType
  <2>6. limit \in Nat
    BY ServedFacts
  <2>7. Cardinality(Served(M)) <= limit
    BY <2>5, <2>6, <1>13
  <2> QED
    BY <2>2, <2>3, <2>7
<1> QED
  BY <1>12, <1>13

LEMMA AcceptOK ==
  ASSUME IInv, limit' = limit, NEW n \in Nodes, NEW c \in Conns, Accept(n, c)
  PROVE  IInv' /\ Flowing(Service)
<1>1. /\ c \in backlog[n]
      /\ backlog' = [backlog EXCEPT ![n] = @ \ {c}]
      /\ UNCHANGED <<fresh, got>>
  BY DEF Accept
<1>2. PICK M : M = AcceptInto(node[n], c) /\ Becomes(n, c, M, wire)
  BY DEF Accept
<1>3. node[n].ss[c] = None
  BY <1>1 DEF IInv, LinksOK, Links, Exists
<1>4. /\ Grows(node[n], M, {c}) /\ M.high = node[n].high
      /\ Cardinality(Served(M)) <= limit
      /\ ~M.ss[c].stopped /\ M.ss[c].sock # "connecting"
  BY <1>2, <1>3, AcceptIntoOK
<1>5. node' = [node EXCEPT ![n] = M] /\ wire' = wire
  BY <1>2, <1>4 DEF Becomes
<1>6. fresh' \subseteq Data /\ got' \in [Data -> Nat]
  BY <1>1 DEF IInv, NodesOK
<1>7. NodesOK' /\ \A K : K \cap Service = {} => FlowStep(K)
  BY <1>4, <1>5, <1>6, GrowStep
<1>8. LinksOK'
  <2>1. \A d \in Conns \ {c} : M.ss[d] = node[n].ss[d]
    BY <1>4 DEF Grows
  <2>2. \A d \in {c} : node[n].ss[d] = None /\ M.ss[d] # None
    BY <1>4 DEF Grows
  <2>3. {c} \in SUBSET Conns /\ {c} \subseteq backlog[n]
        /\ \A d \in {c} : M.ss[d].sock # "connecting"
    BY <1>1, <1>4
  <2> QED
    BY <2>1, <2>2, <2>3, <1>1, <1>5, NewLinks
<1>9. \A p \in Nodes : node'[p].high = node[p].high
  BY <1>4, <1>5 DEF IInv, NodesOK
<1> QED
  BY <1>7, <1>8, <1>9 DEF IInv, Flowing

\* remote::send() through the high priority session.
LEMMA SendOnSession ==
  ASSUME IInv, limit' = limit, NEW n \in Nodes, NEW m \in Data, Send(n, m),
         RemoteConnected(node[n])
  PROVE  IInv' /\ Flowing(Service \cup {m})
<1> DEFINE c == node[n].H
           s == node[n].ss[c]
           t == PutOutQueue(s, m)
<1>1. /\ UNCHANGED <<backlog, wire, got>> /\ fresh' = fresh \ {m}
      /\ node' = [node EXCEPT ![n] = With(node[n], c, t)]
  BY DEF Send, RemoteSend
<1>2. c \in Conns /\ c # None /\ NodeOK(node[n])
  BY DEF RemoteConnected, IInv, NodesOK, NodeOK, NodeType
<1>3. Exists(n, c) /\ s.auth
  BY <1>2 DEF NodeOK, SlotsOf, Exists
<1>4. /\ SessOK(s) /\ Unsent(s) \in Seq(Lines)
      /\ wire[Peer(n)][c] \in Seq(Lines) /\ (n = "hi" => Leaving(s))
  BY <1>2, <1>3, SessionFacts
<1>5. m \in Lines /\ Priorities \cap (Service \cup {m}) = {}
  BY ServiceFacts
<1>6. /\ SessOK(t) /\ SameSession(s, t) /\ (Leaving(s) => Leaving(t))
      /\ Unsent(t) = Append(Unsent(s), m)
  BY <1>3, <1>4, <1>5, PutOutQueueOK
<1>7. Follows(s, t)
  BY <1>6 DEF SameSession, Follows
<1>8. Moves(n, c, With(node[n], c, t), wire)
  BY <1>1 DEF Moves
<1>9. got' \in [Data -> Nat] /\ fresh' \subseteq Data /\ backlog' = backlog
  BY <1>1 DEF IInv, NodesOK
<1>10. WireStep(n, c, wire)
  BY <1>2, WireFacts
<1> HIDE DEF s, t, c
<1>11. ASSUME NEW K, K \cap (Service \cup {m}) = {}
       PROVE  Flows(K, wire[Peer(n)][c], Unsent(s), wire[Peer(n)][c], Unsent(t))
  <2>1. m \notin K
    BY <1>11
  <2> QED
    BY <2>1, <1>4, <1>5, <1>6, AppendFlows
<1> QED
  BY <1>2, <1>3, <1>4, <1>5, <1>6, <1>7, <1>8, <1>9, <1>10, <1>11, WithStepOK DEF s

LEMMA SendInRemote ==
  ASSUME IInv, limit' = limit, NEW n \in Nodes, NEW m \in Data, Send(n, m),
         ~RemoteConnected(node[n])
  PROVE  /\ IInv'
         /\ \A K : K \cap Service = {} => FlowStep(K)
         /\ node'[n].high = Append(node[n].high, m)
         /\ \A p \in Nodes \ {n} : node'[p].high = node[p].high
<1> DEFINE N == node[n]
           h == Append(N.high, m)
<1>1. /\ UNCHANGED <<backlog, wire, got>> /\ fresh' = fresh \ {m}
      /\ node' = [node EXCEPT ![n] = [N EXCEPT !.high = h]]
  BY DEF Send, RemoteSend
<1>2. /\ node \in [Nodes -> NodeType] /\ N \in NodeType /\ NodeOK(N)
      /\ N.high \in Seq(Data)
  BY DEF IInv, NodesOK, NodeOK, NodeType
<1>3. h \in Seq(Data)
  BY <1>2, AppendProperties
<1> HIDE DEF h
<1>4. PICK M : M = [N EXCEPT !.high = h]
  OBVIOUS
<1>5. /\ M \in NodeType /\ M.high = h
      /\ \A f \in {"ss", "H", "L", "C", "wait", "ips"} : M[f] = N[f]
  <2> DEFINE T == [Conns -> SessionType(Lines) \cup {None}]
  <2>1. N \in [ss : T, H : Conns \cup {None}, L : Conns \cup {None},
               C : Conns \cup {None}, wait : SUBSET Conns,
               high : Seq(Data), ips : SUBSET Conns]
    BY <1>2 DEF NodeType
  <2> HIDE DEF T
  <2>2. M \in [ss : T, H : Conns \cup {None}, L : Conns \cup {None},
               C : Conns \cup {None}, wait : SUBSET Conns,
               high : Seq(Data), ips : SUBSET Conns]
    BY <2>1, <1>3, <1>4
  <2>3. M.high = h /\ \A f \in {"ss", "H", "L", "C", "wait", "ips"} : M[f] = N[f]
    BY <2>1, <1>4
  <2> QED
    BY <2>2, <2>3 DEF NodeType, T
<1>6. /\ M.ss = N.ss /\ M.ips = N.ips /\ M.wait = N.wait /\ M.H = N.H /\ M.L = N.L
      /\ M.C = N.C /\ SlotsOf(M) = SlotsOf(N)
  BY <1>5 DEF SlotsOf
<1>7. NodeOK(M)
  BY <1>2, <1>5, <1>6 DEF NodeOK
<1>8. Grows(N, M, {}) /\ Served(M) = Served(N)
  BY <1>6, <1>7 DEF Grows, Served
<1>9. node' = [node EXCEPT ![n] = M]
  BY <1>1, <1>4
<1>10. /\ got' \in [Data -> Nat] /\ fresh' \subseteq Data /\ wire' = wire
       /\ backlog' = backlog
  BY <1>1 DEF IInv, NodesOK
<1>11. Cardinality(Served(M)) <= limit
  BY <1>8, ServedFacts
<1>12. NodesOK' /\ \A K : K \cap Service = {} => FlowStep(K)
  BY <1>8, <1>9, <1>10, <1>11, GrowStep
<1>13. LinksOK'
  <2>1. {} \in SUBSET Conns /\ \A d \in Conns \ {} : M.ss[d] = node[n].ss[d]
    BY <1>6
  <2>2. \A d \in {} : node[n].ss[d] = None /\ M.ss[d] # None
    OBVIOUS
  <2>3. \A d \in {} : node[Peer(n)].ss[d] = None
    OBVIOUS
  <2>4. backlog' = backlog
    BY <1>10
  <2> QED
    BY <2>1, <2>2, <2>3, <2>4, <1>9, NewLinks
<1>14. node'[n].high = h /\ \A p \in Nodes \ {n} : node'[p].high = node[p].high
  BY <1>2, <1>5, <1>9
<1> QED
  BY <1>12, <1>13, <1>14 DEF IInv, h

-----------------------------------------------------------------------------
(* Reading: the remotes at work.                                           *)

\* A session before and after a step in which others decide about it.
Like(N, M, d) ==
  /\ M.ss[d] # None <=> N.ss[d] # None
  /\ N.ss[d] # None => /\ Follows(N.ss[d], M.ss[d])
                       /\ Unsent(M.ss[d]) = Unsent(N.ss[d])

LEMMA CloseInOK ==
  ASSUME NEW N, NodeOK(N), NEW d \in Conns, N.ss[d] # None, N.ss[d].auth,
         NEW M, M = CloseIn(N, d)
  PROVE  /\ NodeOK(M)
         /\ \A f \in {"H", "L", "C", "wait", "high", "ips"} : M[f] = N[f]
         /\ \A e \in Conns \ {d} : M.ss[e] = N.ss[e]
         /\ Like(N, M, d)
         /\ M.ss[d] = GracefullClose(N.ss[d])
<1> DEFINE s == N.ss[d]
           t == GracefullClose(s)
<1>1. M = With(N, d, t)
  <2>1. d # None
    BY ChannelAssumption
  <2> QED
    BY <2>1 DEF CloseIn
<1>2. SessOK(s) /\ s.sock # "connecting" /\ N \in NodeType
  BY DEF NodeOK, SessOK
<1>3. SessOK(t) /\ SameSession(s, t) /\ Unsent(t) = Unsent(s) /\ t.closeFlag
        /\ t.rd = s.rd
  BY <1>2, GracefullCloseOK
<1>4. Follows(s, t)
  BY <1>3 DEF SameSession, Follows
<1> HIDE DEF t
<1>5. Advances(N, M, d) /\ M.ss[d] = t
  BY <1>1, <1>3, <1>4, WithAdvances
<1>6. t \in SessionType(Lines)
  BY <1>3 DEF SessOK
<1>7. \A f \in {"H", "L", "C", "wait", "high", "ips"} : M[f] = N[f]
  <2>1. N \in NodeType
    BY <1>2
  <2>2. \A f \in {"H", "L", "C", "wait", "high", "ips"} : With(N, d, t)[f] = N[f]
    BY <2>1, <1>6, WithType
  <2> QED
    BY <2>2, <1>1
<1>8. NodeOK(M) /\ M.ss[d] # None /\ \A e \in Conns \ {d} : M.ss[e] = N.ss[e]
  BY <1>5 DEF Advances
<1>9. Like(N, M, d)
  BY <1>3, <1>4, <1>5, <1>8 DEF Like
<1> QED
  BY <1>5, <1>7, <1>8, <1>9 DEF t

\* Only the places in the remote change.
LEMMA PlacesOK ==
  ASSUME NEW N, NodeOK(N), NEW M, M \in NodeType, M.ss = N.ss, M.ips = N.ips,
         \A d \in SlotsOf(M) \cup M.wait : N.ss[d] # None /\ N.ss[d].auth
  PROVE  NodeOK(M)
  BY DEF NodeOK

\* handlePriorityMsg() gives a session without a slot the slot of the message
\* and closes the session that had it.
LEMMA HandlePriorityOK ==
  ASSUME NEW N, NodeOK(N), OnePlace(N), NEW c \in Conns, N.ss[c] # None,
         N.ss[c].auth, c \notin SlotsOf(N), NEW p \in Priorities,
         NEW M, M = HandlePriority(N, c, p)
  PROVE  /\ NodeOK(M) /\ OnePlace(M) /\ M.high = N.high
         /\ M.ss[c] = N.ss[c]
         /\ \A d \in Conns \ {c} : Like(N, M, d)
         /\ M.H = IF p = "high" THEN c ELSE N.H
         /\ M.L = IF p = "low" THEN c ELSE N.L
         /\ M.C = IF p = "control" THEN c ELSE N.C
<1> DEFINE W == [N EXCEPT !.wait = @ \ {c}]
<1>1. N \in NodeType /\ c # None
  BY ChannelAssumption DEF NodeOK
<1>2. /\ W \in NodeType /\ W.wait = N.wait \ {c}
      /\ \A f \in {"ss", "H", "L", "C", "high", "ips"} : W[f] = N[f]
  BY <1>1 DEF NodeType
<1>3. c \notin {N.H, N.L, N.C}
  BY <1>1 DEF SlotsOf
<1> HIDE DEF W
<1>4. \A d \in SlotsOf(N) \cup N.wait : N.ss[d] # None /\ N.ss[d].auth
  BY DEF NodeOK
<1>5. ASSUME NEW P, NEW old, P \in NodeType,
             \A f \in {"ss", "high", "ips", "wait"} : P[f] = W[f],
             SlotsOf(P) \subseteq SlotsOf(N) \cup {c},
             old \in {N.H, N.L, N.C}, OnePlace(P),
             M = CloseIn(P, old)
      PROVE  /\ NodeOK(M) /\ OnePlace(M) /\ M.high = N.high
             /\ M.ss[c] = N.ss[c]
             /\ \A d \in Conns \ {c} : Like(N, M, d)
             /\ M.H = P.H /\ M.L = P.L /\ M.C = P.C
  <2>1. P.ss = N.ss /\ P.high = N.high /\ P.ips = N.ips /\ P.wait = N.wait \ {c}
    BY <1>2, <1>5
  <2>2. NodeOK(P)
    <3>1. \A d \in SlotsOf(P) \cup P.wait : N.ss[d] # None /\ N.ss[d].auth
      BY <2>1, <1>4, <1>5
    <3> QED
      BY <3>1, <2>1, <1>5, PlacesOK
  <2>3. \A d \in Conns : Like(N, P, d)
    BY <2>1 DEF Like, Follows
  <2>4. CASE old = None
    BY <2>1, <2>2, <2>3, <2>4, <1>5 DEF CloseIn
  <2>5. CASE old # None
    <3>1. old \in SlotsOf(N) /\ old # c
      BY <2>5, <1>3, <1>5 DEF SlotsOf
    <3>2. old \in Conns /\ P.ss[old] # None /\ P.ss[old].auth
      BY <3>1, <2>1, <1>1, <1>4 DEF SlotsOf, NodeType
    <3>3. /\ NodeOK(M)
          /\ \A f \in {"H", "L", "C", "wait", "high", "ips"} : M[f] = P[f]
          /\ \A e \in Conns \ {old} : M.ss[e] = P.ss[e]
          /\ Like(P, M, old)
      BY <3>2, <2>2, <1>5, CloseInOK
    <3>4. OnePlace(M)
      BY <3>3, <1>5 DEF OnePlace, SlotsOf
    <3>5. \A d \in Conns \ {c} : Like(N, M, d)
      BY <3>3, <2>1, <2>3 DEF Like
    <3>6. M.ss[c] = N.ss[c] /\ M.H = P.H /\ M.L = P.L /\ M.C = P.C /\ M.high = N.high
      BY <3>1, <3>3, <2>1
    <3> QED
      BY <3>3, <3>4, <3>5, <3>6
  <2> QED
    BY <2>4, <2>5
<1>6. CASE p = "high"
  <2> DEFINE P == [W EXCEPT !.H = c]
  <2>1. M = CloseIn(P, N.H)
    BY <1>2, <1>3, <1>6 DEF HandlePriority, W
  <2>2. /\ P \in NodeType /\ P.H = c /\ P.L = N.L /\ P.C = N.C
        /\ \A f \in {"ss", "high", "ips", "wait"} : P[f] = W[f]
    BY <1>2 DEF NodeType
  <2> HIDE DEF P
  <2>3. SlotsOf(P) \subseteq SlotsOf(N) \cup {c} /\ OnePlace(P)
    BY <2>2, <1>2, <1>3 DEF SlotsOf, OnePlace
  <2> QED
    BY <2>1, <2>2, <2>3, <1>5, <1>6
<1>7. CASE p = "low"
  <2> DEFINE P == [W EXCEPT !.L = c]
  <2>1. M = CloseIn(P, N.L)
    BY <1>2, <1>3, <1>7 DEF HandlePriority, W
  <2>2. /\ P \in NodeType /\ P.H = N.H /\ P.L = c /\ P.C = N.C
        /\ \A f \in {"ss", "high", "ips", "wait"} : P[f] = W[f]
    BY <1>2 DEF NodeType
  <2> HIDE DEF P
  <2>3. SlotsOf(P) \subseteq SlotsOf(N) \cup {c} /\ OnePlace(P)
    BY <2>2, <1>2, <1>3 DEF SlotsOf, OnePlace
  <2> QED
    BY <2>1, <2>2, <2>3, <1>5, <1>7
<1>8. CASE p = "control"
  <2> DEFINE P == [W EXCEPT !.C = c]
  <2>1. M = CloseIn(P, N.C)
    BY <1>2, <1>3, <1>8 DEF HandlePriority, W
  <2>2. /\ P \in NodeType /\ P.H = N.H /\ P.L = N.L /\ P.C = c
        /\ \A f \in {"ss", "high", "ips", "wait"} : P[f] = W[f]
    BY <1>2 DEF NodeType
  <2> HIDE DEF P
  <2>3. SlotsOf(P) \subseteq SlotsOf(N) \cup {c} /\ OnePlace(P)
    BY <2>2, <1>2, <1>3 DEF SlotsOf, OnePlace
  <2> QED
    BY <2>1, <2>2, <2>3, <1>5, <1>8
<1> QED
  BY <1>6, <1>7, <1>8 DEF Priorities

\* The first free slot, and the message that announces it; or out.
Assigned(N, M, c) ==
  \/ /\ N.H = None /\ M.H = c /\ M.L = N.L /\ M.C = N.C /\ M.high = <<>>
     /\ Unsent(M.ss[c]) = Append(Unsent(N.ss[c]), "high") \o N.high
  \/ /\ N.L = None /\ M.H = N.H /\ M.L = c /\ M.C = N.C /\ M.high = N.high
     /\ Unsent(M.ss[c]) = Append(Unsent(N.ss[c]), "low")
  \/ /\ N.C = None /\ M.H = N.H /\ M.L = N.L /\ M.C = c /\ M.high = N.high
     /\ Unsent(M.ss[c]) = Append(Unsent(N.ss[c]), "control")
  \/ /\ M.H = N.H /\ M.L = N.L /\ M.C = N.C /\ M.high = N.high
     /\ Unsent(M.ss[c]) = Unsent(N.ss[c]) /\ M.ss[c].closeFlag

\* A session enters a slot as t.
EntersSlot(N, M, c, t) ==
  /\ t.auth /\ t.stopped = N.ss[c].stopped
  /\ M \in NodeType /\ M.ss = [N.ss EXCEPT ![c] = t]
  /\ M.ips = N.ips /\ M.wait = N.wait
  /\ \/ N.H = None /\ M.H = c /\ M.L = N.L /\ M.C = N.C
     \/ N.L = None /\ M.H = N.H /\ M.L = c /\ M.C = N.C
     \/ N.C = None /\ M.H = N.H /\ M.L = N.L /\ M.C = c

LEMMA SlotOK ==
  ASSUME NEW N, NodeOK(N), OnePlace(N), NEW c \in Conns, N.ss[c] # None,
         c \notin SlotsOf(N) \cup N.wait,
         NEW t, SessOK(t), NEW M, EntersSlot(N, M, c, t)
  PROVE  /\ NodeOK(M) /\ OnePlace(M) /\ M.ss[c] = t
         /\ \A d \in Conns \ {c} : M.ss[d] = N.ss[d]
<1>1. SlotsOf(M) \subseteq SlotsOf(N) \cup {c} /\ OnePlace(M)
  BY DEF SlotsOf, OnePlace, EntersSlot
<1>2. M.ips = IF t.stopped THEN N.ips \ {c} ELSE N.ips \cup {c}
  BY DEF NodeOK, EntersSlot
<1>3. SlotsOf(M) \cup M.wait \subseteq SlotsOf(N) \cup N.wait \cup {c}
  BY <1>1 DEF EntersSlot
<1>4. Changes(N, M, c, t)
  BY <1>2, <1>3 DEF Changes, EntersSlot
<1>5. NodeOK(M) /\ M.ss[c] = t /\ \A d \in Conns \ {c} : M.ss[d] = N.ss[d]
  BY <1>4, NodeFrame
<1> QED
  BY <1>1, <1>5

LEMMA AssignSlotOK ==
  ASSUME NEW N, NodeOK(N), OnePlace(N), NEW c \in Conns, N.ss[c] # None,
         c \notin SlotsOf(N) \cup N.wait,
         N.ss[c].auth, Leaving(N.ss[c]),
         N.ss[c].stopped \/ N.ss[c].q = <<>> \/ N.ss[c].wr # "none",
         NEW M \in AssignSlot(N, c)
  PROVE  /\ NodeOK(M) /\ OnePlace(M)
         /\ \A d \in Conns \ {c} : M.ss[d] = N.ss[d]
         /\ SessOK(M.ss[c]) /\ Follows(N.ss[c], M.ss[c]) /\ Leaving(M.ss[c])
         /\ M.ss[c] # None
         /\ Assigned(N, M, c)
<1> DEFINE s == N.ss[c]
<1>1. SessOK(s) /\ N \in NodeType /\ N.high \in Seq(Data)
  BY DEF NodeOK, NodeType
<1>2. ASSUME NEW p \in Priorities
      PROVE  /\ SessOK(PutOutQueue(s, p)) /\ SameSession(s, PutOutQueue(s, p))
             /\ Leaving(PutOutQueue(s, p)) /\ PutOutQueue(s, p).q # <<>>
             /\ PutOutQueue(s, p).auth
             /\ Unsent(PutOutQueue(s, p)) = Append(Unsent(s), p)
  <2>1. p \in Lines
    BY ServiceFacts
  <2>2. /\ SessOK(PutOutQueue(s, p)) /\ SameSession(s, PutOutQueue(s, p))
        /\ Leaving(PutOutQueue(s, p)) /\ PutOutQueue(s, p).q # <<>>
        /\ Unsent(PutOutQueue(s, p)) = Append(Unsent(s), p)
    BY <2>1, <1>1, PutOutQueueOK
  <2> QED
    BY <2>2 DEF SameSession
<1>3. {"high", "low", "control"} \subseteq Priorities
  BY DEF Priorities
<1>4. CASE N.H = None
  <2> DEFINE x == PutOutQueue(s, "high")
  <2>1. PICK t \in TakeOverMessages(x, N.high) :
          M = [With(N, c, t) EXCEPT !.H = c, !.high = <<>>]
    BY <1>4 DEF AssignSlot
  <2>2. /\ SessOK(x) /\ SameSession(s, x) /\ Leaving(x) /\ x.q # <<>> /\ x.auth
        /\ Unsent(x) = Append(Unsent(s), "high")
    BY <1>2, <1>3
  <2> HIDE DEF x
  <2>3. /\ SessOK(t) /\ SameSession(x, t) /\ Leaving(t)
        /\ Unsent(t) = Unsent(x) \o N.high
    BY <2>1, <2>2, <1>1, TakeOverOK
  <2>4. t.auth /\ t.stopped = s.stopped /\ Follows(s, t) /\ t \in SessionType(Lines)
    BY <2>2, <2>3 DEF SameSession, Follows, SessOK
  <2> DEFINE W == With(N, c, t)
  <2>5. /\ W \in NodeType /\ W.ss = [N.ss EXCEPT ![c] = t]
        /\ \A f \in {"H", "L", "C", "wait", "high", "ips"} : W[f] = N[f]
    BY <2>4, <1>1, WithType
  <2>6. M = [W EXCEPT !.H = c, !.high = <<>>]
    BY <2>1
  <2> HIDE DEF W
  <2>7. /\ M \in NodeType /\ M.ss = [N.ss EXCEPT ![c] = t] /\ M.ips = N.ips
        /\ M.wait = N.wait /\ M.H = c /\ M.L = N.L /\ M.C = N.C /\ M.high = <<>>
    <3>1. <<>> \in Seq(Data)
      BY EmptySeq
    <3> QED
      BY <3>1, <2>5, <2>6 DEF NodeType
  <2>8. /\ NodeOK(M) /\ OnePlace(M) /\ M.ss[c] = t
        /\ \A d \in Conns \ {c} : M.ss[d] = N.ss[d]
    <3>1. EntersSlot(N, M, c, t)
      BY <2>2, <2>4, <2>7, <1>4 DEF EntersSlot
    <3>2. SessOK(t)
      BY <2>3
    <3> QED
      BY <3>1, <3>2, SlotOK
  <2>9. Assigned(N, M, c)
    BY <2>2, <2>3, <2>7, <2>8, <1>4 DEF Assigned
  <2>10. t # None
    BY <2>4, ChannelAssumption
  <2> QED
    BY <2>3, <2>4, <2>8, <2>9, <2>10
<1>5. CASE N.H # None /\ N.L = None
  <2> DEFINE t == PutOutQueue(s, "low")
  <2>1. M = [With(N, c, t) EXCEPT !.L = c]
    BY <1>5 DEF AssignSlot
  <2>2. /\ SessOK(t) /\ SameSession(s, t) /\ Leaving(t) /\ t.auth
        /\ Unsent(t) = Append(Unsent(s), "low")
    BY <1>2, <1>3
  <2> HIDE DEF t
  <2>4. t.stopped = s.stopped /\ Follows(s, t) /\ t \in SessionType(Lines)
    BY <2>2 DEF SameSession, Follows, SessOK
  <2> DEFINE W == With(N, c, t)
  <2>5. /\ W \in NodeType /\ W.ss = [N.ss EXCEPT ![c] = t]
        /\ \A f \in {"H", "L", "C", "wait", "high", "ips"} : W[f] = N[f]
    BY <2>4, <1>1, WithType
  <2>6. M = [W EXCEPT !.L = c]
    BY <2>1
  <2> HIDE DEF W
  <2>7. /\ M \in NodeType /\ M.ss = [N.ss EXCEPT ![c] = t] /\ M.ips = N.ips
        /\ M.wait = N.wait /\ M.H = N.H /\ M.L = c /\ M.C = N.C /\ M.high = N.high
    BY <2>5, <2>6 DEF NodeType
  <2>8. /\ NodeOK(M) /\ OnePlace(M) /\ M.ss[c] = t
        /\ \A d \in Conns \ {c} : M.ss[d] = N.ss[d]
    <3>1. EntersSlot(N, M, c, t)
      BY <2>2, <2>4, <2>7, <1>5 DEF EntersSlot
    <3>2. SessOK(t)
      BY <2>2
    <3> QED
      BY <3>1, <3>2, SlotOK
  <2>9. Assigned(N, M, c)
    BY <2>2, <2>7, <2>8, <1>5 DEF Assigned
  <2>10. t # None
    BY <2>4, ChannelAssumption
  <2> QED
    BY <2>2, <2>4, <2>8, <2>9, <2>10
<1>6. CASE N.H # None /\ N.L # None /\ N.C = None
             /\ M = [With(N, c, PutOutQueue(s, "control")) EXCEPT !.C = c]
  <2> DEFINE t == PutOutQueue(s, "control")
  <2>1. M = [With(N, c, t) EXCEPT !.C = c]
    BY <1>6
  <2>2. /\ SessOK(t) /\ SameSession(s, t) /\ Leaving(t) /\ t.auth
        /\ Unsent(t) = Append(Unsent(s), "control")
    BY <1>2, <1>3
  <2> HIDE DEF t
  <2>4. t.stopped = s.stopped /\ Follows(s, t) /\ t \in SessionType(Lines)
    BY <2>2 DEF SameSession, Follows, SessOK
  <2> DEFINE W == With(N, c, t)
  <2>5. /\ W \in NodeType /\ W.ss = [N.ss EXCEPT ![c] = t]
        /\ \A f \in {"H", "L", "C", "wait", "high", "ips"} : W[f] = N[f]
    BY <2>4, <1>1, WithType
  <2>6. M = [W EXCEPT !.C = c]
    BY <2>1
  <2> HIDE DEF W
  <2>7. /\ M \in NodeType /\ M.ss = [N.ss EXCEPT ![c] = t] /\ M.ips = N.ips
        /\ M.wait = N.wait /\ M.H = N.H /\ M.L = N.L /\ M.C = c /\ M.high = N.high
    BY <2>5, <2>6 DEF NodeType
  <2>8. /\ NodeOK(M) /\ OnePlace(M) /\ M.ss[c] = t
        /\ \A d \in Conns \ {c} : M.ss[d] = N.ss[d]
    <3>1. EntersSlot(N, M, c, t)
      BY <2>2, <2>4, <2>7, <1>6 DEF EntersSlot
    <3>2. SessOK(t)
      BY <2>2
    <3> QED
      BY <3>1, <3>2, SlotOK
  <2>9. Assigned(N, M, c)
    BY <2>2, <2>7, <2>8, <1>6 DEF Assigned
  <2>10. t # None
    BY <2>4, ChannelAssumption
  <2> QED
    BY <2>2, <2>4, <2>8, <2>9, <2>10
<1>7. CASE M = CloseIn(N, c)
  <2>1. /\ NodeOK(M)
        /\ \A f \in {"H", "L", "C", "wait", "high", "ips"} : M[f] = N[f]
        /\ \A e \in Conns \ {c} : M.ss[e] = N.ss[e]
        /\ Like(N, M, c)
        /\ M.ss[c] = GracefullClose(s)
    BY <1>7, CloseInOK
  <2>2. Leaving(M.ss[c]) /\ M.ss[c].closeFlag
    BY <2>1, <1>1, GracefullCloseOK
  <2>3. OnePlace(M)
    BY <2>1 DEF OnePlace, SlotsOf
  <2>4. M.ss[c] # None /\ Follows(s, M.ss[c]) /\ Unsent(M.ss[c]) = Unsent(s)
    BY <2>1 DEF Like
  <2>5. SessOK(M.ss[c])
    BY <2>1, <2>4 DEF NodeOK
  <2>6. Assigned(N, M, c)
    BY <2>1, <2>2, <2>4 DEF Assigned
  <2> QED
    BY <2>1, <2>2, <2>3, <2>4, <2>5, <2>6
<1>8. CASE N.H # None /\ N.L # None
  <2>1. \/ N.C = None /\ M = [With(N, c, PutOutQueue(s, "control")) EXCEPT !.C = c]
        \/ M = CloseIn(N, c)
    BY <1>8 DEF AssignSlot
  <2> QED
    BY <2>1, <1>6, <1>7, <1>8
<1> QED
  BY <1>4, <1>5, <1>8

\* What a node keeps of its sessions when it reads.
Continues(x, y) ==
  /\ y.dir = x.dir /\ y.stopped = x.stopped
  /\ y.sock = "connecting" => x.sock = "connecting"
  /\ y.dir = "incoming" /\ y.rd # "off" => x.rd # "off"
Keeps(N, M) ==
  \A d \in Conns : /\ M.ss[d] # None <=> N.ss[d] # None
                   /\ N.ss[d] # None => Continues(N.ss[d], M.ss[d])

Boss(M) ==
  \A d \in Conns : M.ss[d] # None =>
    /\ Leaving(M.ss[d])
    /\ M.ss[d].auth /\ d \notin SlotsOf(M) /\ ~M.ss[d].stopped => M.ss[d].closeFlag

LEMMA LocalStep ==
  ASSUME IInv, limit' = limit, backlog' = backlog, NEW n \in Nodes, NEW M,
         node' = [node EXCEPT ![n] = M],
         NodeOK(M), OnePlace(M), Keeps(node[n], M), n = "hi" => Boss(M)
  PROVE  /\ node' \in [Nodes -> NodeType] /\ \A p \in Nodes : NodeOK(node'[p])
         /\ ServedLimit' /\ BossCloses' /\ LinksOK'
         /\ \A p \in Nodes : OnePlace(node'[p])
<1> DEFINE N == node[n]
<1>0. node \in [Nodes -> NodeType] /\ NodeOK(N)
  BY DEF IInv, NodesOK
<1>1. node'[n] = M /\ \A p \in Nodes \ {n} : node'[p] = node[p]
  BY <1>0
<1>2. node' \in [Nodes -> NodeType] /\ \A p \in Nodes : NodeOK(node'[p])
  <2>1. M \in NodeType
    BY DEF NodeOK
  <2> QED
    BY <2>1, <1>0, <1>1 DEF IInv, NodesOK
<1>3. ServedLimit'
  <2>1. Served(M) \subseteq Served(N)
    <3> SUFFICES ASSUME NEW d \in Served(M) PROVE d \in Served(N)
      OBVIOUS
    <3>1. d \in M.ips /\ M.ss[d].dir = "incoming" /\ M.ss[d].rd # "off"
      BY DEF Served
    <3>2. d \in Conns /\ M.ss[d] # None /\ ~M.ss[d].stopped
      BY <3>1 DEF NodeOK
    <3>3. N.ss[d] # None /\ ~N.ss[d].stopped /\ N.ss[d].dir = "incoming"
            /\ N.ss[d].rd # "off"
      BY <3>1, <3>2 DEF Keeps, Continues
    <3>4. d \in N.ips
      BY <3>2, <3>3, <1>0 DEF NodeOK
    <3> QED
      BY <3>3, <3>4 DEF Served
  <2>2. \A p \in Nodes : Cardinality(Served(node'[p])) <= limit'
    BY <2>1, <1>1, ServedFacts
  <2> QED
    BY <2>2 DEF ServedLimit, Served
<1>4. BossCloses'
  <2>1. CASE n = "lo"
    <3>1. node'["hi"] = node["hi"]
      BY <2>1, <1>1, PeerFacts
    <3> QED
      BY <3>1 DEF IInv, NodesOK, BossCloses, Exists
  <2>2. CASE n = "hi"
    BY <2>2, <1>1 DEF BossCloses, Boss, Exists
  <2> QED
    BY <2>1, <2>2, PeerFacts
<1>5. \A p \in Nodes : OnePlace(node'[p])
  BY <1>1 DEF IInv, NodesOK
<1>6. LinksOK'
  <2>1. \A p \in Nodes, d \in Conns :
          /\ node'[p].ss[d] # None <=> node[p].ss[d] # None
          /\ node[p].ss[d] # None /\ node'[p].ss[d].sock = "connecting" =>
               node[p].ss[d].sock = "connecting"
    BY <1>1 DEF Keeps, Continues
  <2> QED
    BY <2>1, PeerFacts DEF IInv, LinksOK, Links, Exists
<1> QED
  BY <1>2, <1>3, <1>4, <1>5, <1>6

\* The rest of the read handler, once a line has been acted on.
LEMMA FinishLine ==
  ASSUME NEW N, NodeOK(N), OnePlace(N), NEW c \in Conns, N.ss[c] # None,
         N.ss[c].rd # "off", NEW t \in LineDone(N.ss[c]),
         NEW M, M = With(N, c, t)
  PROVE  /\ NodeOK(M) /\ OnePlace(M) /\ M.ss[c] = t /\ t # None
         /\ \A f \in {"H", "L", "C", "wait", "high"} : M[f] = N[f]
         /\ SlotsOf(M) = SlotsOf(N)
         /\ \A d \in Conns \ {c} : M.ss[d] = N.ss[d]
         /\ Follows(N.ss[c], t) /\ t.closeFlag = N.ss[c].closeFlag
         /\ Unsent(t) = Unsent(N.ss[c])
         /\ Leaving(N.ss[c]) => Leaving(t)
<1> DEFINE s == N.ss[c]
<1>1. SessOK(s) /\ N \in NodeType
  BY DEF NodeOK
<1>2. /\ SessOK(t) /\ SameSession(s, t) /\ (Leaving(s) => Leaving(t))
      /\ t.closeFlag = s.closeFlag
      /\ Unsent(t) = Unsent(s)
  BY <1>1, LineDoneOK
<1>3. Follows(s, t) /\ t \in SessionType(Lines)
  BY <1>2 DEF SameSession, Follows
<1>4. Advances(N, M, c) /\ M.ss[c] = t
  BY <1>2, <1>3, WithAdvances
<1>5. /\ \A f \in {"H", "L", "C", "wait", "high"} : M[f] = N[f]
      /\ SlotsOf(M) = SlotsOf(N)
  <2>1. N \in NodeType
    BY <1>1
  <2>2. /\ \A f \in {"H", "L", "C", "wait", "high", "ips"} : With(N, c, t)[f] = N[f]
        /\ SlotsOf(With(N, c, t)) = SlotsOf(N)
    BY <2>1, <1>3, WithType
  <2> QED
    BY <2>2
<1>6. OnePlace(M)
  BY <1>5 DEF OnePlace
<1>7. NodeOK(M) /\ M.ss[c] # None /\ \A d \in Conns \ {c} : M.ss[d] = N.ss[d]
  BY <1>4 DEF Advances
<1> QED
  BY <1>2, <1>3, <1>4, <1>5, <1>6, <1>7

\* The lines in transit once node n has read one on connection c.
Unread(n, c) == [wire EXCEPT ![n][c] = Tail(@)]

LEMMA ReadFacts ==
  ASSUME IInv, NEW n \in Nodes, NEW c \in Conns, Read(n, c)
  PROVE  /\ Exists(n, c) /\ node[n].ss[c].rd # "off" /\ wire[n][c] # <<>>
         /\ Head(wire[n][c]) \in Lines /\ Head(wire[n][c]) = wire[n][c][1]
         /\ Len(wire[n][c]) \in Nat \ {0}
         /\ fresh' \subseteq Data /\ got' \in [Data -> Nat] /\ backlog' = backlog
         /\ WireStep(n, c, Unread(n, c))
         /\ Unread(n, c)[Peer(n)][c] = wire[Peer(n)][c]
         /\ Unread(n, c)[n][c] = Tail(wire[n][c])
         /\ \E N \in ReadLine(n, c, node[n].ss[c], Head(wire[n][c])) :
              \E t \in LineDone(N.ss[c]) :
                Becomes(n, c, With(N, c, t), Unread(n, c))
<1>1. /\ Exists(n, c) /\ node[n].ss[c].rd # "off" /\ wire[n][c] # <<>>
      /\ backlog' = backlog /\ fresh' = fresh
  BY DEF Read
<1>2. \E N \in ReadLine(n, c, node[n].ss[c], Head(wire[n][c])) :
              \E t \in LineDone(N.ss[c]) :
                Becomes(n, c, With(N, c, t), Unread(n, c))
  BY DEF Read, Unread
<1>3. wire[n][c] \in Seq(Lines)
  BY DEF IInv, NodesOK
<1>4. /\ Head(wire[n][c]) \in Lines /\ Head(wire[n][c]) = wire[n][c][1]
      /\ Len(wire[n][c]) \in Nat \ {0}
  BY <1>1, <1>3, HeadTailProperties, EmptySeq
<1>5. fresh' \subseteq Data /\ got' \in [Data -> Nat]
  <2>1. fresh \subseteq Data /\ got \in [Data -> Nat]
    BY DEF IInv, NodesOK
  <2>2. got' = got \/ \E m \in Data : got' = [got EXCEPT ![m] = @ + 1]
    BY DEF Read
  <2> QED
    BY <2>1, <2>2, <1>1
<1>6. /\ WireStep(n, c, Unread(n, c))
      /\ Unread(n, c)[Peer(n)][c] = wire[Peer(n)][c]
  BY <1>1, WireFacts DEF Unread
<1>7. Unread(n, c)[n][c] = Tail(wire[n][c])
  <2>1. wire \in [Nodes -> [Conns -> Seq(Lines)]]
    BY DEF IInv, NodesOK
  <2> QED
    BY <2>1 DEF Unread
<1> QED
  BY <1>1, <1>2, <1>4, <1>5, <1>6, <1>7

\* A line after the first that is no priority changes no table.
LEMMA ReadPlainOK ==
  ASSUME IInv, limit' = limit, NEW n \in Nodes, NEW c \in Conns, Read(n, c),
         node[n].ss[c].auth, Head(wire[n][c]) \notin Priorities
  PROVE  IInv' /\ Flowing(Service)
<1> DEFINE s == node[n].ss[c]
           w == Unread(n, c)
<1>1. /\ Exists(n, c) /\ s.rd # "off"
      /\ fresh' \subseteq Data /\ got' \in [Data -> Nat] /\ backlog' = backlog
      /\ WireStep(n, c, w)
      /\ w[Peer(n)][c] = wire[Peer(n)][c]
      /\ \E N \in ReadLine(n, c, s, Head(wire[n][c])) :
           \E t \in LineDone(N.ss[c]) : Becomes(n, c, With(N, c, t), w)
  BY ReadFacts
<1>2. ReadLine(n, c, s, Head(wire[n][c])) = {node[n]}
  BY DEF ReadLine
<1>3. PICK t \in LineDone(s) : Becomes(n, c, With(node[n], c, t), w)
  BY <1>1, <1>2
<1>4. SessOK(s) /\ (n = "hi" => Leaving(s))
  BY <1>1, SessionFacts
<1>5. /\ SessOK(t) /\ SameSession(s, t) /\ (Leaving(s) => Leaving(t))
      /\ Unsent(t) = Unsent(s)
  BY <1>1, <1>4, LineDoneOK
<1>6. Follows(s, t) /\ (n = "hi" => Leaving(t))
  BY <1>4, <1>5 DEF SameSession, Follows
<1>7. Moves(n, c, With(node[n], c, t), w)
  BY <1>3 DEF Moves, Becomes
<1> HIDE DEF w, s
<1>8. \A K : Flows(K, wire[Peer(n)][c], Unsent(s), w[Peer(n)][c], Unsent(t))
  BY <1>1, <1>5, SameFlows
<1> QED
  BY <1>1, <1>5, <1>6, <1>7, <1>8, ServiceFacts, WithStepOK DEF s

\* The boss gives the session of the other node a slot.
LEMMA ReadPriorityOK ==
  ASSUME IInv, limit' = limit, NEW n \in Nodes, NEW c \in Conns, Read(n, c),
         node[n].ss[c].auth, Head(wire[n][c]) \in Priorities
  PROVE  IInv' /\ Flowing(Service)
<1> DEFINE N == node[n]
           s == node[n].ss[c]
           m == Head(wire[n][c])
           w == Unread(n, c)
<1>1. /\ Exists(n, c) /\ s.rd # "off" /\ m = wire[n][c][1]
      /\ Len(wire[n][c]) \in Nat \ {0} /\ wire[n][c] # <<>>
      /\ fresh' \subseteq Data /\ got' \in [Data -> Nat] /\ backlog' = backlog
      /\ WireStep(n, c, w)
      /\ w[Peer(n)][c] = wire[Peer(n)][c] /\ w[n][c] = Tail(wire[n][c])
      /\ \E N1 \in ReadLine(n, c, s, m) :
           \E t \in LineDone(N1.ss[c]) : Becomes(n, c, With(N1, c, t), w)
  BY ReadFacts
<1>2. \A x, v, u : 1 \in 1..Len(v) /\ v[1] = x => InPipe(x, v, u)
  BY DEF InPipe
<1>3. 1 \in 1..Len(wire[n][c])
  BY <1>1
<1>4. InPipe(m, wire[n][c], UnsentAt(node[Peer(n)], c))
  BY <1>1, <1>2, <1>3
<1>5. n = "lo"
  <2>1. n # "hi"
    BY <1>4, PeerFacts DEF IInv, NodesOK, OneDecision
  <2> QED
    BY <2>1, PeerFacts
<1>6. /\ OneInPipe(Priorities, wire["lo"][c], UnsentAt(node["hi"], c))
      /\ Exists("hi", c) /\ node["hi"].ss[c].auth
      /\ c \notin SlotsOf(N) /\ Agrees(m, c, node["hi"])
      /\ \A p \in Priorities : ~InPipe(p, wire["hi"][c], UnsentAt(N, c))
  BY <1>4, <1>5, PeerFacts DEF IInv, NodesOK, OneDecision
<1>7. PICK N1 : N1 = HandlePriority(N, c, m)
  OBVIOUS
<1>8. PICK t \in LineDone(N1.ss[c]) : Becomes(n, c, With(N1, c, t), w)
  <2>1. ReadLine(n, c, s, m) = {N1}
    BY <1>7 DEF ReadLine
  <2> QED
    BY <2>1, <1>1
<1>9. NodeOK(N) /\ OnePlace(N) /\ N.ss[c] # None
  BY <1>1 DEF IInv, NodesOK, Exists
<1>10. /\ NodeOK(N1) /\ OnePlace(N1) /\ N1.high = N.high
       /\ N1.ss[c] = s
       /\ \A d \in Conns \ {c} : Like(N, N1, d)
       /\ N1.H = IF m = "high" THEN c ELSE N.H
       /\ N1.L = IF m = "low" THEN c ELSE N.L
       /\ N1.C = IF m = "control" THEN c ELSE N.C
  BY <1>6, <1>7, <1>9, HandlePriorityOK
<1>11. PICK M : M = With(N1, c, t)
  OBVIOUS
<1>12. /\ NodeOK(M) /\ OnePlace(M) /\ M.ss[c] = t /\ t # None
       /\ \A f \in {"H", "L", "C", "wait", "high"} : M[f] = N1[f]
       /\ \A d \in Conns \ {c} : M.ss[d] = N1.ss[d]
       /\ Follows(s, t) /\ Unsent(t) = Unsent(s)
  <2>1. N1.ss[c] # None /\ N1.ss[c].rd # "off"
    BY <1>1, <1>9, <1>10
  <2> QED
    BY <2>1, <1>8, <1>10, <1>11, FinishLine
<1>13. \A d \in Conns : Like(N, M, d)
  BY <1>9, <1>10, <1>12 DEF Like
<1>14. Moves(n, c, M, w) /\ node' = [node EXCEPT ![n] = M]
  BY <1>8, <1>11 DEF Moves, Becomes
<1>15. Keeps(N, M)
  BY <1>13 DEF Like, Keeps, Follows, Continues
<1>16. /\ node' \in [Nodes -> NodeType] /\ \A p \in Nodes : NodeOK(node'[p])
       /\ ServedLimit' /\ BossCloses' /\ LinksOK'
       /\ \A p \in Nodes : OnePlace(node'[p])
  BY <1>1, <1>5, <1>12, <1>14, <1>15, LocalStep
<1>17. \A d \in Conns : UnsentAt(M, d) = UnsentAt(N, d)
  BY <1>13 DEF Like, UnsentAt
<1>18. ASSUME NEW K
       PROVE  FlowStep(K) /\ wire' \in [Nodes -> [Conns -> Seq(Lines)]]
  <2>1. Flows(K, wire[Peer(n)][c], UnsentAt(N, c), w[Peer(n)][c], UnsentAt(M, c))
    BY <1>1, <1>17, SameFlows
  <2>2. \A d \in Conns \ {c} : UnsentAt(M, d) = UnsentAt(N, d)
    BY <1>17
  <2> QED
    BY <2>1, <2>2, <1>1, <1>14, PipeStep
<1>19. /\ node'["lo"] = M /\ node'["hi"] = node["hi"]
       /\ M.H = N1.H /\ M.L = N1.L /\ M.C = N1.C /\ M.high = N.high
  BY <1>5, <1>10, <1>12, <1>14, PeerFacts DEF IInv, NodesOK
<1>20. ASSUME NEW d \in Conns \ {c} PROVE OneDecision(d)'
  <2>1. \A p \in Nodes : Flows(Priorities,
                            wire[Peer(p)][d], UnsentAt(node[p], d),
                            wire'[Peer(p)][d], UnsentAt(node'[p], d))
    BY <1>18 DEF FlowStep
  <2>2. \A p \in Nodes : /\ node'[p].H = d => node[p].H = d
                         /\ node'[p].L = d => node[p].L = d
                         /\ node'[p].C = d => node[p].C = d
    BY <1>5, <1>10, <1>19, <1>20, PeerFacts
  <2> QED
    BY <2>1, <2>2, <1>19, DecisionKeeps
<1>21. OneDecision(c)'
  <2> DEFINE v == wire'["lo"][c]
             u == UnsentAt(node["hi"], c)
  <2>1. \A p \in Priorities : ~InPipe(p, v, u)
    <3>1. v = Tail(wire["lo"][c]) \/ v = <<>>
      BY <1>1, <1>5, <1>14 DEF Moves, WireStep
    <3>2. wire["lo"][c] \in Seq(Lines)
      BY <1>5 DEF IInv, NodesOK
    <3>3. OneInPipe(Priorities, wire["lo"][c], u) /\ wire["lo"][c][1] \in Priorities
          /\ wire["lo"][c] # <<>> /\ Len(wire["lo"][c]) \in Nat \ {0}
      BY <1>1, <1>5, <1>6
    <3> DEFINE z == wire["lo"][c]
    <3> HIDE DEF z, u, v
    <3>4. z \in Seq(Lines) /\ z # <<>> /\ Len(z) \in Nat \ {0} /\ z[1] \in Priorities
      BY <3>2, <3>3 DEF z
    <3>5. AtMostOne(Priorities, z) /\ (Quiet(Priorities, z) \/ Quiet(Priorities, u))
      BY <3>3 DEF OneInPipe, z
    <3>6. Quiet(Priorities, u)
      BY <3>4, <3>5 DEF Quiet
    <3>7. /\ Len(Tail(z)) = Len(z) - 1
          /\ \A i \in 1..Len(Tail(z)) : Tail(z)[i] = z[i + 1]
      BY <3>4, HeadTailProperties
    <3>8. Quiet(Priorities, Tail(z))
      <4> SUFFICES ASSUME NEW i \in 1..Len(Tail(z)) PROVE Tail(z)[i] \notin Priorities
        BY DEF Quiet
      <4>1. i + 1 \in 1..Len(z) /\ 1 \in 1..Len(z) /\ i + 1 # 1
        BY <3>4, <3>7
      <4> QED
        BY <4>1, <3>4, <3>5, <3>7 DEF AtMostOne
    <3>9. Quiet(Priorities, <<>>)
      BY EmptySeq DEF Quiet
    <3>10. Quiet(Priorities, v)
      BY <3>1, <3>8, <3>9 DEF z
    <3> QED
      BY <3>6, <3>10 DEF Quiet, InPipe
  <2>2. OneInPipe(Priorities, v, u)
    BY <1>6, <1>18, <1>19, PeerFacts DEF FlowStep, Flows
  <2>3. \A p \in Priorities : ~InPipe(p, wire'["hi"][c], UnsentAt(M, c))
    <3>1. Flows(Priorities, wire["hi"][c], UnsentAt(N, c),
                            wire'["hi"][c], UnsentAt(M, c))
      BY <1>5, <1>18, <1>19, PeerFacts DEF FlowStep
    <3> QED
      BY <3>1, <1>6 DEF Flows
  <2>4. c # None
    BY ChannelAssumption
  <2>5. /\ M.H = c => Agrees("high", c, node["hi"])
        /\ M.L = c => Agrees("low", c, node["hi"])
        /\ M.C = c => Agrees("control", c, node["hi"])
    BY <2>4, <1>6, <1>10, <1>19 DEF SlotsOf
  <2> HIDE DEF v, u
  <2>6. node["hi"].ss[c] # None /\ node["hi"].ss[c].auth
    BY <1>6 DEF Exists
  <2> QED
    BY <2>1, <2>2, <2>3, <2>5, <2>6, <1>19 DEF OneDecision, Exists, v, u
<1>22. NodesOK'
  BY <1>1, <1>16, <1>18, <1>20, <1>21 DEF IInv, NodesOK
<1>23. Flowing(Service)
  BY <1>5, <1>18, <1>19, PeerFacts DEF Flowing
<1> QED
  BY <1>16, <1>22, <1>23 DEF IInv

\* The first line authenticates the session: it has no place in the remote yet.
LEMMA FirstLine ==
  ASSUME IInv, NEW n \in Nodes, NEW c \in Conns, Exists(n, c),
         node[n].ss[c].rd # "off", ~node[n].ss[c].auth,
         NEW A, A = With(node[n], c, [node[n].ss[c] EXCEPT !.auth = TRUE])
  PROVE  /\ NodeOK(A) /\ OnePlace(A)
         /\ \A f \in {"H", "L", "C", "wait", "high"} : A[f] = node[n][f]
         /\ SlotsOf(A) = SlotsOf(node[n])
         /\ c \notin SlotsOf(A) \cup A.wait
         /\ \A d \in Conns \ {c} : A.ss[d] = node[n].ss[d]
         /\ A.ss[c] # None /\ A.ss[c].auth /\ A.ss[c].rd # "off"
         /\ Continues(node[n].ss[c], A.ss[c])
         /\ Unsent(A.ss[c]) = Unsent(node[n].ss[c])
         /\ n = "hi" => Leaving(A.ss[c])
         /\ A.ss[c].stopped \/ A.ss[c].q = <<>> \/ A.ss[c].wr # "none"
<1> DEFINE N == node[n]
           s == node[n].ss[c]
           t == [s EXCEPT !.auth = TRUE]
<1>1. /\ NodeOK(N) /\ s # None /\ SessOK(s) /\ (n = "hi" => Leaving(s))
      /\ OnePlace(N)
  BY SessionFacts DEF IInv, NodesOK
<1>2. /\ SessOK(t) /\ t.auth /\ t.stopped = s.stopped /\ t.dir = s.dir
      /\ t.sock = s.sock /\ t.rd = s.rd
      /\ (Leaving(s) => Leaving(t)) /\ Unsent(t) = Unsent(s)
      /\ t.stopped \/ t.q = <<>> \/ t.wr # "none"
  BY <1>1, AuthOK
<1>3. N \in NodeType /\ t \in SessionType(Lines)
  BY <1>1, <1>2 DEF NodeOK, SessOK
<1>4. A = With(N, c, t)
  OBVIOUS
<1>5. c \notin SlotsOf(N) \cup N.wait
  BY <1>1 DEF NodeOK
<1>6. c \in N.ips <=> ~s.stopped
  BY <1>1 DEF NodeOK
<1> HIDE DEF N, s, t
<1>7. /\ A \in NodeType /\ A.ss = [N.ss EXCEPT ![c] = t]
      /\ \A f \in {"H", "L", "C", "wait", "high", "ips"} : A[f] = N[f]
      /\ SlotsOf(A) = SlotsOf(N)
  BY <1>3, <1>4, WithType
<1>8. A.ips = IF t.stopped THEN N.ips \ {c} ELSE N.ips \cup {c}
  BY <1>2, <1>6, <1>7
<1>9. Changes(N, A, c, t)
  BY <1>2, <1>7, <1>8 DEF Changes
<1>10. NodeOK(A) /\ A.ss[c] = t /\ \A d \in Conns \ {c} : A.ss[d] = N.ss[d]
  <2>1. NodeOK(N) /\ SessOK(t) /\ Changes(N, A, c, t)
    BY <1>1, <1>2, <1>9
  <2> QED
    BY ONLY <2>1, NodeFrame, c \in Conns
<1>11. OnePlace(A)
  BY <1>1, <1>7 DEF OnePlace
<1>12. t # None
  BY <1>3, ChannelAssumption
<1>13. Continues(s, t) /\ t.rd # "off" /\ (n = "hi" => Leaving(t))
  BY <1>1, <1>2 DEF Continues, s
<1>14. /\ \A f \in {"H", "L", "C", "wait", "high"} : A[f] = N[f]
       /\ SlotsOf(A) = SlotsOf(N)
       /\ c \notin SlotsOf(A) \cup A.wait
  BY <1>5, <1>7
<1>15. /\ A.ss[c] # None /\ A.ss[c].auth /\ A.ss[c].rd # "off"
       /\ Continues(s, A.ss[c]) /\ Unsent(A.ss[c]) = Unsent(s)
       /\ (n = "hi" => Leaving(A.ss[c]))
       /\ A.ss[c].stopped \/ A.ss[c].q = <<>> \/ A.ss[c].wr # "none"
  BY <1>2, <1>10, <1>12, <1>13
<1> QED
  BY <1>10, <1>11, <1>14, <1>15 DEF N, s

\* A session of the node that is not the boss waits for the boss's decision.
LEMMA ReadWaitOK ==
  ASSUME IInv, limit' = limit, NEW c \in Conns, Read("lo", c),
         ~node["lo"].ss[c].auth
  PROVE  IInv' /\ Flowing(Service)
<1> DEFINE N == node["lo"]
           s == N.ss[c]
           w == Unread("lo", c)
<1>0. "lo" \in Nodes
  BY PeerFacts
<1>1. /\ Exists("lo", c) /\ s.rd # "off"
      /\ fresh' \subseteq Data /\ got' \in [Data -> Nat] /\ backlog' = backlog
      /\ WireStep("lo", c, w)
      /\ w[Peer("lo")][c] = wire[Peer("lo")][c]
      /\ \E N1 \in ReadLine("lo", c, s, Head(wire["lo"][c])) :
           \E t \in LineDone(N1.ss[c]) : Becomes("lo", c, With(N1, c, t), w)
  BY <1>0, ReadFacts
<1>2. PICK A : A = With(N, c, [s EXCEPT !.auth = TRUE])
  OBVIOUS
<1>3. PICK B : B = [A EXCEPT !.wait = @ \cup {c}]
  OBVIOUS
<1>4. PICK t \in LineDone(B.ss[c]) : Becomes("lo", c, With(B, c, t), w)
  <2>1. ReadLine("lo", c, s, Head(wire["lo"][c])) = {B}
    BY <1>2, <1>3 DEF ReadLine, AddSession
  <2> QED
    BY <2>1, <1>1
<1>5. /\ NodeOK(A) /\ OnePlace(A)
      /\ \A f \in {"H", "L", "C", "wait", "high"} : A[f] = N[f]
      /\ SlotsOf(A) = SlotsOf(N)
      /\ c \notin SlotsOf(A) \cup A.wait
      /\ \A d \in Conns \ {c} : A.ss[d] = N.ss[d]
      /\ A.ss[c] # None /\ A.ss[c].auth /\ A.ss[c].rd # "off"
      /\ Continues(s, A.ss[c])
      /\ Unsent(A.ss[c]) = Unsent(s)
  BY <1>0, <1>1, <1>2, FirstLine
<1>6. /\ B \in NodeType /\ B.wait = A.wait \cup {c}
      /\ \A f \in {"ss", "H", "L", "C", "high", "ips"} : B[f] = A[f]
  BY <1>3, <1>5 DEF NodeOK, NodeType
<1>7. SlotsOf(B) = SlotsOf(A) /\ B.ss = A.ss /\ B.ips = A.ips
  BY <1>6 DEF SlotsOf
<1>8. NodeOK(B)
  <2>1. \A d \in SlotsOf(B) \cup B.wait : A.ss[d] # None /\ A.ss[d].auth
    BY <1>5, <1>6, <1>7 DEF NodeOK
  <2> QED
    BY <2>1, <1>5, <1>6, <1>7, PlacesOK
<1>9. OnePlace(B)
  BY <1>5, <1>6, <1>7 DEF OnePlace
<1>10. PICK M : M = With(B, c, t)
  OBVIOUS
<1>11. /\ NodeOK(M) /\ OnePlace(M) /\ M.ss[c] = t /\ t # None
       /\ \A f \in {"H", "L", "C", "wait", "high"} : M[f] = B[f]
       /\ \A d \in Conns \ {c} : M.ss[d] = B.ss[d]
       /\ Follows(A.ss[c], t) /\ Unsent(t) = Unsent(s)
  <2>1. B.ss[c] # None /\ B.ss[c].rd # "off"
    BY <1>5, <1>7
  <2>2. t \in LineDone(B.ss[c]) /\ M = With(B, c, t)
    BY <1>4, <1>10
  <2>3. /\ NodeOK(M) /\ OnePlace(M) /\ M.ss[c] = t /\ t # None
        /\ \A f \in {"H", "L", "C", "wait", "high"} : M[f] = B[f]
        /\ \A d \in Conns \ {c} : M.ss[d] = B.ss[d]
        /\ Follows(B.ss[c], t) /\ Unsent(t) = Unsent(B.ss[c])
    BY <2>1, <2>2, <1>8, <1>9, FinishLine
  <2> QED
    BY <2>3, <1>5, <1>7
<1>12. Moves("lo", c, M, w) /\ node' = [node EXCEPT !["lo"] = M]
  BY <1>4, <1>10 DEF Moves, Becomes
<1>13. s # None /\ \A d \in Conns \ {c} : M.ss[d] = N.ss[d]
  BY <1>1, <1>5, <1>7, <1>11 DEF Exists
<1>14. Keeps(N, M)
  <2>1. Continues(s, M.ss[c])
    BY <1>5, <1>11 DEF Continues, Follows
  <2>2. \A x : Continues(x, x)
    BY DEF Continues
  <2>3. \A d \in Conns : d = c \/ d \in Conns \ {c}
    OBVIOUS
  <2> QED
    BY <2>1, <2>2, <2>3, <1>11, <1>13 DEF Keeps
<1>15. /\ node' \in [Nodes -> NodeType] /\ \A p \in Nodes : NodeOK(node'[p])
       /\ ServedLimit' /\ BossCloses' /\ LinksOK'
       /\ \A p \in Nodes : OnePlace(node'[p])
  BY <1>0, <1>1, <1>11, <1>12, <1>14, LocalStep
<1>16. \A d \in Conns : UnsentAt(M, d) = UnsentAt(N, d)
  BY <1>11, <1>13 DEF UnsentAt
<1>17. ASSUME NEW K
       PROVE  FlowStep(K) /\ wire' \in [Nodes -> [Conns -> Seq(Lines)]]
  <2>1. Flows(K, wire[Peer("lo")][c], UnsentAt(N, c), w[Peer("lo")][c], UnsentAt(M, c))
    BY <1>1, <1>16, SameFlows
  <2>2. \A d \in Conns \ {c} : UnsentAt(M, d) = UnsentAt(N, d)
    BY <1>16
  <2> QED
    BY <2>1, <2>2, <1>0, <1>1, <1>12, PipeStep
<1>18. node'["lo"] = M /\ node'["hi"] = node["hi"]
  BY <1>12, PeerFacts DEF IInv, NodesOK
<1>19. M.H = N.H /\ M.L = N.L /\ M.C = N.C /\ M.high = N.high
  BY <1>5, <1>6, <1>11
<1>20. \A d \in Conns : OneDecision(d)'
  <2>1. \A p \in Nodes : /\ node'[p].H \in {node[p].H, None}
                         /\ node'[p].L \in {node[p].L, None}
                         /\ node'[p].C \in {node[p].C, None}
    BY <1>18, <1>19, PeerFacts
  <2>2. \A d \in Conns : node["hi"].ss[d] # None =>
                            /\ node'["hi"].ss[d] # None
                            /\ node["hi"].ss[d].auth => node'["hi"].ss[d].auth
    BY <1>18
  <2> QED
    BY <2>1, <2>2, <1>17, DecisionStep
<1>21. NodesOK'
  BY <1>1, <1>15, <1>17, <1>20 DEF IInv, NodesOK
<1>22. Flowing(Service)
  BY <1>17, <1>18, <1>19, PeerFacts DEF Flowing
<1> QED
  BY <1>15, <1>21, <1>22 DEF IInv

\* A priority, and what the remote had queued, enter a pipe without one.
Undecided(w, u) == \A q \in Priorities : ~InPipe(q, w, u)
Announces(v, u, p, h) == v = Append(u, p) \/ v = Append(u, p) \o h

LEMMA AnnounceFlows ==
  ASSUME NEW w \in Seq(Lines), NEW u \in Seq(Lines), NEW h \in Seq(Data),
         NEW p \in Priorities, Undecided(w, u), NEW v, Announces(v, u, p, h)
  PROVE  /\ OneInPipe(Priorities, w, v)
         /\ \A q \in Priorities : InPipe(q, w, v) => q = p
<1> DEFINE a == Append(u, p)
<1>1. p \in Lines /\ h \in Seq(Lines) /\ Quiet(Priorities, h)
  <2>1. p \in Lines /\ Data \subseteq Lines /\ Data \cap Priorities = {}
    BY ChannelAssumption DEF Lines
  <2>2. Len(h) \in Nat /\ \A i \in 1..Len(h) : h[i] \in Data
    BY LenProperties, ElementOfSeq
  <2> QED
    BY <2>1, <2>2 DEF Quiet
<1>2. Len(u) \in Nat /\ Len(w) \in Nat
  BY LenProperties
<1>3. a \in Seq(Lines) /\ Len(a) = Len(u) + 1 /\ a[Len(u) + 1] = p
      /\ \A i \in 1..Len(u) : a[i] = u[i]
  BY <1>1, AppendProperties
<1> HIDE DEF a
<1>4. Quiet(Priorities, w) /\ Quiet(Priorities, u)
  BY DEF Quiet, InPipe, Undecided
<1>5. \A i \in 1..Len(a) : a[i] \in Priorities => i = Len(u) + 1 /\ a[i] = p
  BY <1>2, <1>3, <1>4 DEF Quiet
<1>6. OneInPipe(Priorities, w, a)
  BY <1>4, <1>5 DEF OneInPipe, Quiet, AtMostOne
<1>7. \A q \in Priorities : InPipe(q, w, a) => q = p
  BY <1>4, <1>5 DEF InPipe, Quiet
<1>8. Flows(Priorities, w, a, w, a \o h)
  BY <1>1, <1>3, ConcatFlows
<1> QED
  BY <1>6, <1>7, <1>8 DEF Flows, Announces, a

LEMMA AnnounceOthers ==
  ASSUME NEW w \in Seq(Lines), NEW u \in Seq(Lines), NEW p \in Priorities,
         NEW v, v = u \/ v = Append(u, p)
  PROVE  \A K : K \cap (Service \cup Priorities) = {} => Flows(K, w, u, w, v)
<1> SUFFICES ASSUME NEW K, K \cap (Service \cup Priorities) = {}
             PROVE  Flows(K, w, u, w, v)
  OBVIOUS
<1>1. p \notin K /\ p \in Lines
  BY DEF Lines
<1>2. Flows(K, w, u, w, u)
  BY SameFlows
<1>3. Flows(K, w, u, w, Append(u, p))
  BY <1>1, AppendFlows
<1> QED
  BY <1>2, <1>3

\* Giving a session its slot leaves its read alone.
LEMMA AssignKeepsReading ==
  ASSUME NEW N, NodeOK(N), NEW c \in Conns, N.ss[c] # None, NEW M \in AssignSlot(N, c)
  PROVE  M.ss[c].rd = N.ss[c].rd
<1> DEFINE s == N.ss[c]
<1>1. N \in NodeType /\ s \in SessionType(Lines) /\ N.high \in Seq(Data)
  BY DEF NodeOK, NodeType, SessOK
<1>2. ASSUME NEW p \in Priorities
      PROVE  /\ PutOutQueue(s, p).rd = s.rd
             /\ PutOutQueue(s, p) \in SessionType(Lines)
             /\ PutOutQueue(s, p).q # <<>>
  <2>1. p \in Lines
    BY DEF Lines
  <2>2. /\ \A f \in {"dir", "sock", "bye", "auth", "closeFlag", "stopped", "rd",
                     "nullDeref"} : PutOutQueue(s, p)[f] = s[f]
        /\ PutOutQueue(s, p) \in SessionType(Lines)
        /\ PutOutQueue(s, p).q = Append(s.q, p)
    BY <2>1, <1>1, PutOutQueueFacts
  <2>3. s.q \in Seq(Lines)
    BY <1>1 DEF SessionType
  <2> HIDE DEF s
  <2>4. Len(Append(s.q, p)) = Len(s.q) + 1 /\ Len(s.q) \in Nat /\ Len(<<>>) = 0
    BY <2>1, <2>3, AppendProperties, LenProperties, EmptySeq
  <2>5. Append(s.q, p) # <<>>
    <3>1. Len(Append(s.q, p)) # Len(<<>>)
      BY <2>4
    <3> QED
      BY <3>1, Zenon
  <2> QED
    BY <2>2, <2>5
<1>3. ASSUME NEW t \in SessionType(Lines), t.rd = s.rd,
             NEW W, W = With(N, c, t),
             M \in {[W EXCEPT !.H = c, !.high = <<>>], [W EXCEPT !.L = c],
                    [W EXCEPT !.C = c], W}
      PROVE  M.ss[c].rd = s.rd
  <2>1. W \in NodeType /\ W.ss = [N.ss EXCEPT ![c] = t]
    BY <1>1, <1>3, WithType
  <2>2. M.ss = W.ss
    BY <2>1, <1>3 DEF NodeType
  <2>3. N.ss \in [Conns -> SessionType(Lines) \cup {None}]
    BY <1>1 DEF NodeType
  <2> HIDE DEF s
  <2> QED
    BY <2>1, <2>2, <2>3, <1>3
<1> DEFINE x == PutOutQueue(s, "high")
           g == GracefullClose(s)
<1>4. {"high", "low", "control"} \subseteq Priorities
  BY DEF Priorities
<1>5. CASE N.H = None
  <2>1. PICK t \in TakeOverMessages(x, N.high) :
          M = [With(N, c, t) EXCEPT !.H = c, !.high = <<>>]
    BY <1>5 DEF AssignSlot
  <2>2. x.rd = s.rd /\ x \in SessionType(Lines) /\ x.q # <<>>
    BY <1>2, <1>4
  <2> HIDE DEF x
  <2>3. t = [x EXCEPT !.q = x.q \o N.high]
    BY <2>1, <2>2 DEF TakeOverMessages
  <2>4. x.q \o N.high \in Seq(Lines)
    <3>1. x.q \in Seq(Lines)
      BY <2>2 DEF SessionType
    <3>2. N.high \in Seq(Lines)
      <4>1. Data \subseteq Lines
        BY DEF Lines
      <4> QED
        BY <4>1, <1>1
    <3> QED
      BY <3>1, <3>2, ConcatProperties
  <2>5. t \in SessionType(Lines) /\ t.rd = s.rd
    BY <2>2, <2>3, <2>4 DEF SessionType
  <2> QED
    BY <2>1, <2>5, <1>3
<1>6. CASE N.H # None
  <2>1. \/ \E p \in Priorities :
             M \in {[With(N, c, PutOutQueue(s, p)) EXCEPT !.L = c],
                    [With(N, c, PutOutQueue(s, p)) EXCEPT !.C = c]}
        \/ M = With(N, c, g)
    BY <1>4, <1>6, ChannelAssumption DEF AssignSlot, CloseIn
  <2>2. g \in SessionType(Lines) /\ g.rd = s.rd
    BY <1>1, GracefullCloseFacts
  <2> HIDE DEF g
  <2>3. CASE M = With(N, c, g)
    BY <2>2, <2>3, <1>3
  <2>4. CASE M # With(N, c, g)
    <3>1. PICK p \in Priorities :
             M \in {[With(N, c, PutOutQueue(s, p)) EXCEPT !.L = c],
                    [With(N, c, PutOutQueue(s, p)) EXCEPT !.C = c]}
      BY <2>1, <2>4
    <3>2. PutOutQueue(s, p) \in SessionType(Lines) /\ PutOutQueue(s, p).rd = s.rd
      BY <1>2
    <3> QED
      BY <3>1, <3>2, <1>3
  <2> QED
    BY <2>3, <2>4
<1> QED
  BY <1>5, <1>6

\* The H session of the boss takes the queue of the remote over.
TakesOver(c) ==
  /\ node'["hi"].high = <<>> /\ node'["lo"].high = node["lo"].high
  /\ UnsentAt(node'["hi"], c) =
       Append(UnsentAt(node["hi"], c), "high") \o node["hi"].high
  /\ wire'["lo"][c] = wire["lo"][c]
  /\ \A K : \A p \in Nodes, d \in Conns : p # "hi" \/ d # c =>
       Flows(K, wire[Peer(p)][d], UnsentAt(node[p], d),
                wire'[Peer(p)][d], UnsentAt(node'[p], d))

\* A session of the boss gets its slot, and its priority is announced; or it is
\* a duplicate and is closed.
LEMMA ReadAssignOK ==
  ASSUME IInv, limit' = limit, NEW c \in Conns, Read("hi", c),
         ~node["hi"].ss[c].auth
  PROVE  IInv' /\ (Flowing(Service \cup Priorities) \/ TakesOver(c))
<1> DEFINE N == node["hi"]
           s == N.ss[c]
           w == Unread("hi", c)
<1>0. "hi" \in Nodes /\ "lo" \in Nodes /\ Peer("hi") = "lo" /\ Peer("lo") = "hi"
  BY PeerFacts
<1>1. /\ Exists("hi", c) /\ s.rd # "off"
      /\ fresh' \subseteq Data /\ got' \in [Data -> Nat] /\ backlog' = backlog
      /\ WireStep("hi", c, w)
      /\ w[Peer("hi")][c] = wire[Peer("hi")][c]
      /\ \E N1 \in ReadLine("hi", c, s, Head(wire["hi"][c])) :
           \E t \in LineDone(N1.ss[c]) : Becomes("hi", c, With(N1, c, t), w)
  BY <1>0, ReadFacts
<1>2. PICK A : A = With(N, c, [s EXCEPT !.auth = TRUE])
  OBVIOUS
<1>3. PICK B \in AssignSlot(A, c) :
        \E t \in LineDone(B.ss[c]) : Becomes("hi", c, With(B, c, t), w)
  <2>1. ReadLine("hi", c, s, Head(wire["hi"][c])) = AssignSlot(A, c)
    BY <1>2 DEF ReadLine, AddSession
  <2> QED
    BY <2>1, <1>1
<1>4. PICK t \in LineDone(B.ss[c]) : Becomes("hi", c, With(B, c, t), w)
  BY <1>3
<1>5. /\ NodeOK(A) /\ OnePlace(A)
      /\ \A f \in {"H", "L", "C", "wait", "high"} : A[f] = N[f]
      /\ SlotsOf(A) = SlotsOf(N)
      /\ c \notin SlotsOf(A) \cup A.wait
      /\ \A d \in Conns \ {c} : A.ss[d] = N.ss[d]
      /\ A.ss[c] # None /\ A.ss[c].auth /\ A.ss[c].rd # "off"
      /\ Continues(s, A.ss[c])
      /\ Unsent(A.ss[c]) = Unsent(s)
      /\ Leaving(A.ss[c])
      /\ A.ss[c].stopped \/ A.ss[c].q = <<>> \/ A.ss[c].wr # "none"
  BY <1>0, <1>1, <1>2, FirstLine
<1>6. /\ NodeOK(B) /\ OnePlace(B)
      /\ \A d \in Conns \ {c} : B.ss[d] = A.ss[d]
      /\ Follows(A.ss[c], B.ss[c]) /\ Leaving(B.ss[c])
      /\ B.ss[c] # None
      /\ Assigned(A, B, c)
  BY <1>3, <1>5, AssignSlotOK
<1>7. B.ss[c].rd # "off"
  <2>1. B.ss[c].rd = A.ss[c].rd
    BY <1>3, <1>5, AssignKeepsReading
  <2> QED
    BY <2>1, <1>5
<1>8. PICK M : M = With(B, c, t)
  OBVIOUS
<1>9. /\ NodeOK(M) /\ OnePlace(M) /\ M.ss[c] = t /\ t # None
      /\ \A f \in {"H", "L", "C", "wait", "high"} : M[f] = B[f]
      /\ SlotsOf(M) = SlotsOf(B)
      /\ \A d \in Conns \ {c} : M.ss[d] = B.ss[d]
      /\ Follows(B.ss[c], t) /\ t.closeFlag = B.ss[c].closeFlag
      /\ Unsent(t) = Unsent(B.ss[c])
      /\ Leaving(t)
  BY <1>4, <1>6, <1>7, <1>8, FinishLine
<1>10. Moves("hi", c, M, w) /\ node' = [node EXCEPT !["hi"] = M]
  BY <1>4, <1>8 DEF Moves, Becomes
<1>11. s # None /\ \A d \in Conns \ {c} : M.ss[d] = N.ss[d]
  BY <1>1, <1>5, <1>6, <1>9 DEF Exists
<1>12. t.auth /\ Continues(s, t)
  BY <1>5, <1>6, <1>9 DEF Continues, Follows
<1>13. Keeps(N, M)
  <2>1. \A x : Continues(x, x)
    BY DEF Continues
  <2>2. \A d \in Conns : d = c \/ d \in Conns \ {c}
    OBVIOUS
  <2> QED
    BY <2>1, <2>2, <1>9, <1>11, <1>12 DEF Keeps
<1> DEFINE u == Unsent(s)
           v == Unsent(t)
<1>14. \/ /\ N.H = None /\ M.H = c /\ M.L = N.L /\ M.C = N.C
          /\ M.high = <<>> /\ v = Append(u, "high") \o N.high
       \/ /\ N.L = None /\ M.H = N.H /\ M.L = c /\ M.C = N.C
          /\ M.high = N.high /\ v = Append(u, "low")
       \/ /\ N.C = None /\ M.H = N.H /\ M.L = N.L /\ M.C = c
          /\ M.high = N.high /\ v = Append(u, "control")
       \/ /\ M.H = N.H /\ M.L = N.L /\ M.C = N.C
          /\ M.high = N.high /\ v = u /\ t.closeFlag
  <2>1. /\ M.H = B.H /\ M.L = B.L /\ M.C = B.C /\ M.high = B.high
        /\ A.H = N.H /\ A.L = N.L /\ A.C = N.C /\ A.high = N.high
    BY <1>5, <1>9
  <2>2. Unsent(B.ss[c]) = v /\ Unsent(A.ss[c]) = u /\ t.closeFlag = B.ss[c].closeFlag
    BY <1>5, <1>9
  <2> HIDE DEF u, v, N
  <2>3. Assigned(A, B, c)
    BY <1>6
  <2> QED
    BY <2>1, <2>2, <2>3 DEF Assigned
<1>15. c # None /\ c \notin {N.H, N.L, N.C}
  BY <1>5, ChannelAssumption DEF SlotsOf
<1>16. Boss(M)
  <2> SUFFICES ASSUME NEW d \in Conns, M.ss[d] # None
               PROVE  /\ Leaving(M.ss[d])
                      /\ M.ss[d].auth /\ d \notin SlotsOf(M) /\ ~M.ss[d].stopped
                           => M.ss[d].closeFlag
    BY DEF Boss
  <2>1. CASE d = c
    <3>1. c \in SlotsOf(M) \/ t.closeFlag
      BY <1>14, <1>15 DEF SlotsOf
    <3> QED
      BY <2>1, <3>1, <1>9
  <2>2. CASE d # c
    <3>1. M.ss[d] = N.ss[d]
      BY <2>2, <1>11
    <3>2. d \notin SlotsOf(M) => d \notin SlotsOf(N)
      BY <2>2, <1>14, <1>15 DEF SlotsOf
    <3>3. /\ Leaving(N.ss[d])
          /\ N.ss[d].auth /\ d \notin SlotsOf(N) /\ ~N.ss[d].stopped
               => N.ss[d].closeFlag
      BY <3>1 DEF IInv, NodesOK, BossCloses, Exists
    <3> QED
      BY <3>1, <3>2, <3>3
  <2> QED
    BY <2>1, <2>2
<1>17. /\ node' \in [Nodes -> NodeType] /\ \A p \in Nodes : NodeOK(node'[p])
       /\ ServedLimit' /\ BossCloses' /\ LinksOK'
       /\ \A p \in Nodes : OnePlace(node'[p])
  BY <1>0, <1>1, <1>9, <1>10, <1>13, <1>16, LocalStep
<1>18. /\ UnsentAt(N, c) = u /\ UnsentAt(M, c) = v
       /\ \A d \in Conns \ {c} : UnsentAt(M, d) = UnsentAt(N, d)
  BY <1>9, <1>11 DEF UnsentAt
<1>19. /\ wire' \in [Nodes -> [Conns -> Seq(Lines)]]
       /\ node'["hi"] = M /\ wire'["lo"][c] = wire["lo"][c]
       /\ \A K : \A p \in Nodes, d \in Conns : p # "hi" \/ d # c =>
            Flows(K, wire[Peer(p)][d], UnsentAt(node[p], d),
                     wire'[Peer(p)][d], UnsentAt(node'[p], d))
  <2>1. \A d \in Conns \ {c} : UnsentAt(M, d) = UnsentAt(N, d)
    BY <1>18
  <2>2. /\ wire' \in [Nodes -> [Conns -> Seq(Lines)]]
        /\ node'["hi"] = M /\ wire'[Peer("hi")][c] = w[Peer("hi")][c]
        /\ \A K : \A p \in Nodes, d \in Conns : p # "hi" \/ d # c =>
             Flows(K, wire[Peer(p)][d], UnsentAt(node[p], d),
                      wire'[Peer(p)][d], UnsentAt(node'[p], d))
    <3>1. PICK n \in Nodes : n = "hi"
      BY <1>0
    <3>2. /\ Moves(n, c, M, w) /\ WireStep(n, c, w)
          /\ \A d \in Conns \ {c} : UnsentAt(M, d) = UnsentAt(node[n], d)
      BY <2>1, <3>1, <1>1, <1>10
    <3> HIDE DEF w, N
    <3>3. /\ wire' \in [Nodes -> [Conns -> Seq(Lines)]]
          /\ node'[n] = M /\ wire'[Peer(n)][c] = w[Peer(n)][c]
          /\ \A K : \A p \in Nodes, d \in Conns : p # n \/ d # c =>
               Flows(K, wire[Peer(p)][d], UnsentAt(node[p], d),
                        wire'[Peer(p)][d], UnsentAt(node'[p], d))
      BY <3>2, OtherPipes
    <3> QED
      BY <3>1, <3>3
  <2> QED
    BY <2>2, <1>0, <1>1
<1>20. node'["lo"] = node["lo"]
  BY <1>10, PeerFacts DEF IInv, NodesOK
<1>21. wire["lo"][c] \in Seq(Lines) /\ u \in Seq(Lines) /\ N.high \in Seq(Data)
  BY <1>0, <1>1, SessionFacts DEF NodeOK, NodeType
<1>22. ASSUME NEW d \in Conns \ {c} PROVE OneDecision(d)'
  <2>1. \A p \in Nodes : Flows(Priorities,
                            wire[Peer(p)][d], UnsentAt(node[p], d),
                            wire'[Peer(p)][d], UnsentAt(node'[p], d))
    BY <1>19
  <2>2. \A p \in Nodes : /\ node'[p].H = d => node[p].H = d
                         /\ node'[p].L = d => node[p].L = d
                         /\ node'[p].C = d => node[p].C = d
    <3>1. M.H \in {N.H, c} /\ M.L \in {N.L, c} /\ M.C \in {N.C, c}
      BY <1>14
    <3> QED
      BY <3>1, <1>19, <1>20, <1>22, PeerFacts
  <2>3. node'["hi"].ss[d] = node["hi"].ss[d]
    BY <1>11, <1>19
  <2> QED
    BY <2>1, <2>2, <2>3, DecisionKeeps
<1>23. /\ \A p \in Priorities : ~InPipe(p, wire["lo"][c], u)
       /\ \A p \in Priorities : ~InPipe(p, wire["hi"][c], UnsentAt(node["lo"], c))
       /\ c \notin SlotsOf(node["lo"])
  BY <1>18 DEF IInv, NodesOK, OneDecision
<1> HIDE DEF u, v
<1>24. /\ OneInPipe(Priorities, wire["lo"][c], v)
       /\ \A p \in Priorities : InPipe(p, wire["lo"][c], v) => Agrees(p, c, M)
  <2>1. CASE v = u
    BY <2>1, <1>18, <1>23 DEF IInv, NodesOK, OneDecision
  <2>2. CASE v # u
    <3> DEFINE z == wire["lo"][c]
               h == N.high
    <3>1. PICK p \in Priorities : Announces(v, u, p, h) /\ Agrees(p, c, M)
      BY <2>2, <1>14, <1>15 DEF Priorities, Agrees, Announces
    <3>2. /\ h \in Seq(Data) /\ u \in Seq(Lines) /\ z \in Seq(Lines)
          /\ Undecided(z, u)
      BY <1>21, <1>23 DEF Undecided
    <3> HIDE DEF z, h
    <3>3. /\ OneInPipe(Priorities, z, v)
          /\ \A q \in Priorities : InPipe(q, z, v) => q = p
      BY <3>1, <3>2, AnnounceFlows
    <3> QED
      BY <3>1, <3>3 DEF z
  <2> QED
    BY <2>1, <2>2
<1>25. OneDecision(c)'
  <2>1. \A p \in Priorities : ~InPipe(p, wire'["hi"][c], UnsentAt(node'["lo"], c))
    <3>1. Flows(Priorities, wire["hi"][c], UnsentAt(node["lo"], c),
                            wire'["hi"][c], UnsentAt(node'["lo"], c))
      BY <1>0, <1>19
    <3> QED
      BY <3>1, <1>23 DEF Flows
  <2>2. UnsentAt(node'["hi"], c) = v /\ wire'["lo"][c] = wire["lo"][c]
    BY <1>18, <1>19
  <2>3. node'["hi"].ss[c] # None /\ node'["hi"].ss[c].auth
    BY <1>9, <1>12, <1>19
  <2>4. /\ c \notin SlotsOf(node'["lo"])
        /\ node'["lo"].H # c /\ node'["lo"].L # c /\ node'["lo"].C # c
    BY <1>15, <1>20, <1>23 DEF SlotsOf
  <2> QED
    BY <2>1, <2>2, <2>3, <2>4, <1>19, <1>24 DEF OneDecision, Exists
<1>26. NodesOK'
  BY <1>1, <1>17, <1>19, <1>22, <1>25 DEF IInv, NodesOK
<1>27. CASE M.high = <<>> /\ v = Append(u, "high") \o N.high
  <2>1. TakesOver(c)
    BY <1>18, <1>19, <1>20, <1>27 DEF TakesOver
  <2> QED
    BY <2>1, <1>17, <1>26 DEF IInv
<1>28. CASE M.high = N.high /\ (v = u \/ \E p \in Priorities : v = Append(u, p))
  <2>1. \A K : K \cap (Service \cup Priorities) = {} =>
          Flows(K, wire["lo"][c], u, wire["lo"][c], v)
    <3>1. "low" \in Priorities
      BY DEF Priorities
    <3> QED
      BY <3>1, <1>21, <1>28, AnnounceOthers
  <2>2. ASSUME NEW K, K \cap (Service \cup Priorities) = {}
        PROVE  FlowStep(K)
    <3> SUFFICES ASSUME NEW p \in Nodes, NEW d \in Conns
                 PROVE  Flows(K, wire[Peer(p)][d], UnsentAt(node[p], d),
                                 wire'[Peer(p)][d], UnsentAt(node'[p], d))
      BY DEF FlowStep
    <3>1. CASE p # "hi" \/ d # c
      BY <3>1, <1>19
    <3>2. CASE p = "hi" /\ d = c
      <4>1. Flows(K, wire["lo"][c], u, wire["lo"][c], v)
        BY <2>1, <2>2
      <4> QED
        BY <4>1, <3>2, <1>0, <1>18, <1>19
    <3> QED
      BY <3>1, <3>2
  <2>3. Flowing(Service \cup Priorities)
    BY <2>2, <1>19, <1>20, <1>28, PeerFacts DEF Flowing
  <2> QED
    BY <2>3, <1>17, <1>26 DEF IInv
<1> QED
  BY <1>14, <1>27, <1>28 DEF Priorities

LEMMA ReadOK ==
  ASSUME IInv, limit' = limit, NEW n \in Nodes, NEW c \in Conns, Read(n, c)
  PROVE  IInv'
<1>1. CASE node[n].ss[c].auth /\ Head(wire[n][c]) \in Priorities
  BY <1>1, ReadPriorityOK
<1>2. CASE node[n].ss[c].auth /\ Head(wire[n][c]) \notin Priorities
  BY <1>2, ReadPlainOK
<1>3. CASE ~node[n].ss[c].auth /\ n = "lo"
  BY <1>3, ReadWaitOK
<1>4. CASE ~node[n].ss[c].auth /\ n = "hi"
  BY <1>4, ReadAssignOK
<1> QED
  BY <1>1, <1>2, <1>3, <1>4, PeerFacts

-----------------------------------------------------------------------------
(* The theorems.                                                           *)

LEMMA InitOK == Init => IInv
<1> SUFFICES ASSUME Init PROVE IInv
  OBVIOUS
<1>1. /\ limit \in MaxAddrs /\ node = [n \in Nodes |-> NewNode]
      /\ backlog = [n \in Nodes |-> {}]
      /\ wire = [n \in Nodes |-> [c \in Conns |-> <<>>]]
      /\ fresh = Data /\ got = [m \in Data |-> 0]
  BY DEF Init
<1>2. <<>> \in Seq(Data) /\ <<>> \in Seq(Lines) /\ Len(<<>>) = 0
  BY EmptySeq
<1>3. NewNode \in NodeType /\ \A c \in Conns : NewNode.ss[c] = None
  BY <1>2 DEF NewNode, NodeType
<1>4. /\ NewNode.H = None /\ NewNode.L = None /\ NewNode.C = None
      /\ NewNode.wait = {} /\ NewNode.ips = {} /\ SlotsOf(NewNode) = {}
  BY DEF NewNode, SlotsOf
<1>5. NodeOK(NewNode) /\ OnePlace(NewNode)
  BY <1>3, <1>4 DEF NodeOK, OnePlace
<1>6. \A n \in Nodes, c \in Conns : node[n] = NewNode /\ wire[n][c] = <<>> /\ ~Exists(n, c)
  BY <1>1, <1>3 DEF Exists
<1>7. ServedLimit
  <2>1. \A n \in Nodes : {c \in node[n].ips : /\ node[n].ss[c].dir = "incoming"
                                              /\ node[n].ss[c].rd # "off"} = {}
    BY <1>1, <1>4
  <2>2. Cardinality({}) <= limit
    BY <1>1, FS_EmptySet, ChannelAssumption
  <2> QED
    BY <2>1, <2>2 DEF ServedLimit
<1>8. BossCloses
  BY <1>6, PeerFacts DEF BossCloses
<1>9. \A c \in Conns : OneDecision(c)
  <2> SUFFICES ASSUME NEW c \in Conns PROVE OneDecision(c)
    OBVIOUS
  <2>1. /\ node["lo"] = NewNode /\ node["hi"] = NewNode
        /\ wire["lo"][c] = <<>> /\ wire["hi"][c] = <<>>
    BY <1>6, PeerFacts
  <2>2. UnsentAt(NewNode, c) = <<>>
    BY <1>3 DEF UnsentAt
  <2>3. \A p : ~InPipe(p, <<>>, <<>>)
    BY <1>2 DEF InPipe
  <2>4. OneInPipe(Priorities, <<>>, <<>>)
    BY <1>2 DEF OneInPipe, Quiet, AtMostOne
  <2>5. c # None
    BY ChannelAssumption
  <2> QED
    BY <2>1, <2>2, <2>3, <2>4, <2>5, <1>4 DEF OneDecision
<1>10. Links /\ backlog \in [Nodes -> SUBSET Conns]
  BY <1>1, <1>6 DEF Links
<1>11. wire \in [Nodes -> [Conns -> Seq(Lines)]] /\ got \in [Data -> Nat]
       /\ node \in [Nodes -> NodeType]
  BY <1>1, <1>2, <1>3
<1> QED
  BY <1>1, <1>5, <1>6, <1>7, <1>8, <1>9, <1>10, <1>11 DEF IInv, NodesOK, LinksOK

LEMMA NextOK == IInv /\ [Next]_vars => IInv'
<1> SUFFICES ASSUME IInv, [Next]_vars PROVE IInv'
  OBVIOUS
<1>1. CASE UNCHANGED vars
  BY <1>1 DEF vars, IInv, NodesOK, LinksOK, ServedLimit, BossCloses, Links,
              OneDecision, Exists
<1>2. CASE Next
  <2>0. limit' = limit
    BY <1>2 DEF Next
  <2>1. ASSUME NEW n \in Nodes, NEW c \in Conns, ConnectOk(n, c) PROVE IInv'
    BY <2>0, <2>1, ConnectOkOK
  <2>2. ASSUME NEW n \in Nodes, NEW c \in Conns, ConnectErr(n, c) PROVE IInv'
    BY <2>0, <2>2, ConnectErrOK
  <2>3. ASSUME NEW n \in Nodes, NEW c \in Conns, Accept(n, c) PROVE IInv'
    BY <2>0, <2>3, AcceptOK
  <2>4. ASSUME NEW n \in Nodes, NEW c \in Conns, Transmit(n, c) PROVE IInv'
    BY <2>0, <2>4, TransmitOK
  <2>5. ASSUME NEW n \in Nodes, NEW c \in Conns, WriteOk(n, c) PROVE IInv'
    BY <2>0, <2>5, WriteOkOK
  <2>6. ASSUME NEW n \in Nodes, NEW c \in Conns, WriteErr(n, c) PROVE IInv'
    BY <2>0, <2>6, WriteErrOK
  <2>7. ASSUME NEW n \in Nodes, NEW c \in Conns, ByeDone(n, c) PROVE IInv'
    BY <2>0, <2>7, ByeDoneOK
  <2>8. ASSUME NEW n \in Nodes, NEW c \in Conns, Read(n, c) PROVE IInv'
    BY <2>0, <2>8, ReadOK
  <2>9. ASSUME NEW n \in Nodes, NEW c \in Conns, ReadErr(n, c) PROVE IInv'
    BY <2>0, <2>9, ReadErrOK
  <2>10. ASSUME NEW n \in Nodes, Dial(n) PROVE IInv'
    BY <2>0, <2>10, DialOK
  <2>11. ASSUME NEW n \in Nodes, NEW m \in Data, Send(n, m) PROVE IInv'
    <3>1. CASE RemoteConnected(node[n])
      BY <2>0, <2>11, <3>1, SendOnSession
    <3>2. CASE ~RemoteConnected(node[n])
      BY <2>0, <2>11, <3>2, SendInRemote
    <3> QED
      BY <3>1, <3>2
  <2> QED
    BY <1>2, <2>1, <2>2, <2>3, <2>4, <2>5, <2>6, <2>7, <2>8, <2>9, <2>10, <2>11
       DEF Next
<1> QED
  BY <1>1, <1>2

\* Two userver nodes keep, through every interleaving of dials, accepts, reads,
\* writes, closes and broken connections, the inductive invariant of the module:
\* each node's tables fit its sessions, the boss has said bye to every session
\* it turned away, and the priority of a connection is one message of the boss
\* (remote.cpp:33-160, netserver.cpp do_accept, onSessionClosed).
THEOREM ChannelInvariant == Spec => []IInv
  BY InitOK, NextOK, PTL DEF Spec

\* Types are kept: in particular only application messages enter m_outHighQueue
\* (remote.cpp:151-160), so that no priority is taken over with it.
THEOREM ChannelTypeOK == Spec => []TypeOK
<1>1. IInv => TypeOK
  BY DEF IInv, NodesOK, LinksOK, NodeOK, NodeType, TypeOK, Exists
<1> QED
  BY <1>1, ChannelInvariant, PTL

\* A session has one place in its remote, whatever the order in which
\* priorities arrive and sessions die (remote.cpp:73-148).
THEOREM ChannelOnePlaceEach == Spec => []OnePlaceEach
<1>1. IInv => OnePlaceEach
  BY DEF IInv, NodesOK, OnePlace, OnePlaceEach
<1> QED
  BY <1>1, ChannelInvariant, PTL

\* The two ends of a connection never give it different priorities
\* (remote.cpp:43-47), however late the boss's priority message is read.
THEOREM ChannelSamePriorityOrNone == Spec => []SamePriorityOrNone
<1>1. IInv => SamePriorityOrNone
  <2> SUFFICES ASSUME IInv, NEW c \in Conns
               PROVE  /\ node["lo"].H = c => node["hi"].L # c /\ node["hi"].C # c
                      /\ node["lo"].L = c => node["hi"].H # c /\ node["hi"].C # c
                      /\ node["lo"].C = c => node["hi"].H # c /\ node["hi"].L # c
    BY DEF SamePriorityOrNone
  <2>1. OneDecision(c)
    BY DEF IInv, NodesOK
  <2> QED
    BY <2>1 DEF OneDecision, Agrees
<1> QED
  BY <1>1, ChannelInvariant, PTL

\* m_ipToSession holds exactly the sessions that have not stopped, so that the
\* counts of do_accept() and connectResolved() are right.
THEOREM ChannelIpTableExact == Spec => []IpTableExact
<1>1. IInv => IpTableExact
  BY DEF IInv, NodesOK, NodeOK, IpTableExact, Exists
<1> QED
  BY <1>1, ChannelInvariant, PTL

\* do_accept() serves at most MaxConnectionsWithAddr incoming sessions of an
\* address, for every limit and any number of connections.
THEOREM ChannelServedLimit == Spec => []ServedLimit
<1>1. IInv => ServedLimit
  BY DEF IInv, NodesOK
<1> QED
  BY <1>1, ChannelInvariant, PTL

\* A session the boss turned away is on its way out: no duplicate connection
\* stays open without a slot (remote.cpp:65-69, session.cpp:137-147).
THEOREM ChannelDuplicateLeaves == Spec => []DuplicateLeaves
<1>1. IInv => DuplicateLeaves
  <2> SUFFICES ASSUME IInv, NEW c \in Conns, Exists("hi", c),
                      node["hi"].ss[c].auth, c \notin SlotsOf(node["hi"]),
                      ~node["hi"].ss[c].stopped
               PROVE  LET s == node["hi"].ss[c]
                      IN  s.closeFlag /\ (s.bye > 0 \/ s.wr # "none")
    BY DEF DuplicateLeaves
  <2> QED
    BY DEF IInv, NodesOK, BossCloses, Leaving
<1> QED
  BY <1>1, ChannelInvariant, PTL

-----------------------------------------------------------------------------
(* What becomes of one application message.                                *)

Has(x, s) == \E i \in 1..Len(s) : s[i] = x

InHigh(k, n) == Has(k, node[n].high)
InConn(k, n, c) == InPipe(k, wire[Peer(n)][c], UnsentAt(node[n], c))
Somewhere(k) ==
  \/ \E n \in Nodes : InHigh(k, n)
  \/ \E n \in Nodes, c \in Conns : InConn(k, n, c)

\* Message k has at most one place.
Single(k) ==
  /\ \A n \in Nodes : AtMostOne({k}, node[n].high)
  /\ \A n \in Nodes, c \in Conns :
       OneInPipe({k}, wire[Peer(n)][c], UnsentAt(node[n], c))
  /\ \A n \in Nodes, p \in Nodes : InHigh(k, n) /\ InHigh(k, p) => n = p
  /\ \A n \in Nodes, c \in Conns, p \in Nodes : InConn(k, n, c) => ~InHigh(k, p)
  /\ \A n \in Nodes, c \in Conns, p \in Nodes, d \in Conns :
       InConn(k, n, c) /\ InConn(k, p, d) => n = p /\ c = d

Fate(k) ==
  /\ Single(k)
  /\ got[k] \in {0, 1}
  /\ k \in fresh => got[k] = 0 /\ ~Somewhere(k)
  /\ got[k] = 1 => ~Somewhere(k)

DInv == IInv /\ \A k \in Data : Fate(k)

Status(k) ==
  IF k \in fresh THEN "new"
  ELSE IF Somewhere(k) THEN "transit"
  ELSE IF got[k] = 1 THEN "delivered" ELSE "lost"

\* Message k moves on within its place or is lost.
Shrinks(k) ==
  /\ \A n \in Nodes : /\ AtMostOne({k}, node[n].high) => AtMostOne({k}, node'[n].high)
                      /\ InHigh(k, n)' => InHigh(k, n)
  /\ \A n \in Nodes, c \in Conns :
       Flows({k}, wire[Peer(n)][c], UnsentAt(node[n], c),
                  wire'[Peer(n)][c], UnsentAt(node'[n], c))

LEMMA ShrinkStep ==
  ASSUME NEW k, Single(k), Shrinks(k)
  PROVE  Single(k)' /\ (Somewhere(k)' => Somewhere(k))
<1>1. \A n \in Nodes : AtMostOne({k}, node'[n].high) /\ (InHigh(k, n)' => InHigh(k, n))
  BY DEF Single, Shrinks
<1>2. \A n \in Nodes, c \in Conns :
        /\ OneInPipe({k}, wire'[Peer(n)][c], UnsentAt(node'[n], c))
        /\ InConn(k, n, c)' => InConn(k, n, c)
  <2> SUFFICES ASSUME NEW n \in Nodes, NEW c \in Conns
               PROVE  /\ OneInPipe({k}, wire'[Peer(n)][c], UnsentAt(node'[n], c))
                      /\ InConn(k, n, c)' => InConn(k, n, c)
    OBVIOUS
  <2>1. /\ OneInPipe({k}, wire[Peer(n)][c], UnsentAt(node[n], c))
        /\ Flows({k}, wire[Peer(n)][c], UnsentAt(node[n], c),
                      wire'[Peer(n)][c], UnsentAt(node'[n], c))
    BY DEF Single, Shrinks
  <2> QED
    BY <2>1 DEF Flows, InConn
<1>3. Single(k)'
  BY <1>1, <1>2 DEF Single
<1>4. Somewhere(k)' => Somewhere(k)
  BY <1>1, <1>2 DEF Somewhere
<1> QED
  BY <1>3, <1>4

\* Every step but those that hand over or deliver k.
LEMMA FateKeeps ==
  ASSUME NEW k, Fate(k), Shrinks(k), k \in fresh' <=> k \in fresh, got'[k] = got[k]
  PROVE  /\ Fate(k)'
         /\ Status(k)' = Status(k) \/ (Status(k) = "transit" /\ Status(k)' = "lost")
<1>1. Single(k)' /\ (Somewhere(k)' => Somewhere(k))
  BY ShrinkStep DEF Fate
<1>2. Fate(k)'
  BY <1>1 DEF Fate
<1>3. Somewhere(k) => got[k] = 0
  BY DEF Fate
<1> QED
  BY <1>1, <1>2, <1>3 DEF Status

LEMMA FlowingShrinks ==
  ASSUME NEW k, NEW X, k \notin X, Flowing(X)
  PROVE  Shrinks(k)
<1>1. {k} \cap X = {}
  OBVIOUS
<1>2. FlowStep({k}) /\ \A n \in Nodes : node'[n].high = node[n].high
  BY <1>1 DEF Flowing
<1> QED
  BY <1>2 DEF Shrinks, FlowStep, InHigh

LEMMA DataFacts == \A k \in Data : k \notin Service /\ k \notin Priorities /\ k \in Lines
  BY ChannelAssumption DEF Lines

-----------------------------------------------------------------------------
(* Counting the places.                                                    *)

\* The i-th line of a queue or of a wire is m.
AtHigh(m, n, i) == n \in Nodes /\ i \in 1..Len(node[n].high) /\ node[n].high[i] = m
AtWire(m, n, c, i) ==
  n \in Nodes /\ c \in Conns /\ i \in 1..Len(wire[n][c]) /\ wire[n][c][i] = m
AtQueue(m, n, c, i) ==
  /\ n \in Nodes /\ c \in Conns
  /\ i \in 1..Len(UnsentAt(node[n], c)) /\ UnsentAt(node[n], c)[i] = m

LEMMA PlaceFacts ==
  ASSUME IInv, NEW m, NEW x
  PROVE  x \in Places(m) <=>
           \/ \E n, i : AtHigh(m, n, i) /\ x = <<<<n, None, "high">>, i>>
           \/ \E n, c, i : AtWire(m, n, c, i) /\ x = <<<<n, c, "wire">>, i>>
           \/ \E n, c, i : AtQueue(m, n, c, i) /\ x = <<<<n, c, "q">>, i>>
<1>1. \A S : \A s \in Seq(S) : DOMAIN s = 1..Len(s)
  BY LenProperties
<1>2. \A n \in Nodes : node[n].high \in Seq(Data)
  BY DEF IInv, NodesOK, NodeOK, NodeType
<1>3. \A n \in Nodes, c \in Conns :
        wire[n][c] \in Seq(Lines) /\ UnsentAt(node[n], c) \in Seq(Lines)
  BY UnsentAtType DEF IInv, NodesOK
<1>4. \A p, S : \A s \in Seq(S) :
        At(p, s, m) = {<<p, i>> : i \in {i \in 1..Len(s) : s[i] = m}}
  BY <1>1 DEF At
<1>5. \A p, S : \A s \in Seq(S) :
        x \in At(p, s, m) <=> \E i \in 1..Len(s) : s[i] = m /\ x = <<p, i>>
  BY <1>4
<1>6. \A n \in Nodes, c \in Conns :
        x \in InSession(n, c, m) <=>
          \E i : AtQueue(m, n, c, i) /\ x = <<<<n, c, "q">>, i>>
  <2> SUFFICES ASSUME NEW n \in Nodes, NEW c \in Conns
               PROVE  x \in InSession(n, c, m) <=>
                        \E i : AtQueue(m, n, c, i) /\ x = <<<<n, c, "q">>, i>>
    OBVIOUS
  <2>1. CASE Exists(n, c)
    <3>1. UnsentAt(node[n], c) = Unsent(node[n].ss[c])
      BY <2>1 DEF UnsentAt, Exists
    <3> QED
      BY <2>1, <3>1, <1>3, <1>5 DEF AtQueue, InSession
  <2>2. CASE ~Exists(n, c)
    <3>1. UnsentAt(node[n], c) = <<>> /\ Len(<<>>) = 0
      BY <2>2, EmptySeq DEF UnsentAt, Exists
    <3> QED
      BY <2>2, <3>1 DEF AtQueue, InSession
  <2> QED
    BY <2>1, <2>2
<1>7. \A n \in Nodes, c \in Conns :
        x \in OnWire(n, c, m) <=>
          \E i : AtWire(m, n, c, i) /\ x = <<<<n, c, "wire">>, i>>
  BY <1>3, <1>5 DEF AtWire, OnWire
<1>8. \A n \in Nodes :
        x \in At(<<n, None, "high">>, node[n].high, m) <=>
          \E i : AtHigh(m, n, i) /\ x = <<<<n, None, "high">>, i>>
  BY <1>2, <1>5 DEF AtHigh
<1>9. x \in Places(m) <=>
        \/ \E n \in Nodes : x \in At(<<n, None, "high">>, node[n].high, m)
        \/ \E n \in Nodes, c \in Conns : x \in OnWire(n, c, m)
        \/ \E n \in Nodes, c \in Conns : x \in InSession(n, c, m)
  <2>1. x \in InRemotes(m) <=>
          \E n \in Nodes : x \in At(<<n, None, "high">>, node[n].high, m)
    BY DEF InRemotes
  <2>2. x \in OnWires(m) <=>
          \E n \in Nodes, c \in Conns : x \in OnWire(n, c, m)
    BY DEF OnWires
  <2>3. x \in InSessions(m) <=>
          \E n \in Nodes, c \in Conns : x \in InSession(n, c, m)
    BY DEF InSessions
  <2> QED
    BY <2>1, <2>2, <2>3 DEF Places
<1>10. /\ \A n, i : AtHigh(m, n, i) => n \in Nodes
       /\ \A n, c, i : AtWire(m, n, c, i) \/ AtQueue(m, n, c, i) => n \in Nodes /\ c \in Conns
  BY DEF AtHigh, AtWire, AtQueue
<1> QED
  BY <1>6, <1>7, <1>8, <1>9, <1>10

LEMMA AtFacts ==
  ASSUME NEW m, Single(m)
  PROVE  /\ \A n, i : AtHigh(m, n, i) => n \in Nodes /\ InHigh(m, n)
         /\ \A n, c, i : AtWire(m, n, c, i) =>
              n \in Nodes /\ c \in Conns /\ Peer(n) \in Nodes /\ InConn(m, Peer(n), c)
         /\ \A n, c, i : AtQueue(m, n, c, i) =>
              n \in Nodes /\ c \in Conns /\ InConn(m, n, c)
<1>1. \A n, i : AtHigh(m, n, i) => n \in Nodes /\ InHigh(m, n)
  BY DEF AtHigh, InHigh, Has
<1>2. ASSUME NEW n, NEW c, NEW i, AtWire(m, n, c, i)
      PROVE  n \in Nodes /\ c \in Conns /\ Peer(n) \in Nodes /\ InConn(m, Peer(n), c)
  <2>1. n \in Nodes /\ c \in Conns /\ Peer(n) \in Nodes /\ Peer(Peer(n)) = n
    BY <1>2, PeerFacts DEF AtWire
  <2>2. \E j \in 1..Len(wire[n][c]) : wire[n][c][j] = m
    BY <1>2 DEF AtWire
  <2> QED
    BY <2>1, <2>2 DEF InConn, InPipe
<1>3. \A n, c, i : AtQueue(m, n, c, i) => n \in Nodes /\ c \in Conns /\ InConn(m, n, c)
  BY DEF AtQueue, InConn, InPipe
<1> QED
  BY <1>1, <1>2, <1>3

LEMMA SomewhereFacts ==
  ASSUME NEW m, Single(m)
  PROVE  Somewhere(m) <=> \/ \E n, i : AtHigh(m, n, i)
                          \/ \E n, c, i : AtWire(m, n, c, i)
                          \/ \E n, c, i : AtQueue(m, n, c, i)
<1>1. ASSUME NEW n \in Nodes, InHigh(m, n) PROVE \E p, i : AtHigh(m, p, i)
  BY <1>1 DEF InHigh, Has, AtHigh
<1>2. ASSUME NEW n \in Nodes, NEW c \in Conns, InConn(m, n, c)
      PROVE  (\E p, d, i : AtWire(m, p, d, i)) \/ (\E p, d, i : AtQueue(m, p, d, i))
  <2>1. Peer(n) \in Nodes
    BY PeerFacts
  <2> QED
    BY <2>1, <1>2 DEF InConn, InPipe, AtWire, AtQueue
<1> QED
  BY <1>1, <1>2, AtFacts DEF Somewhere

LEMMA OnePlaceOrNone ==
  ASSUME IInv, NEW m, Single(m)
  PROVE  Cardinality(Places(m)) = IF Somewhere(m) THEN 1 ELSE 0
<1>1. /\ \A n, i : AtHigh(m, n, i) => n \in Nodes /\ InHigh(m, n)
      /\ \A n, c, i : AtWire(m, n, c, i) =>
           n \in Nodes /\ c \in Conns /\ Peer(n) \in Nodes /\ InConn(m, Peer(n), c)
      /\ \A n, c, i : AtQueue(m, n, c, i) =>
           n \in Nodes /\ c \in Conns /\ InConn(m, n, c)
  BY AtFacts
<1>2. /\ \A n \in Nodes, p \in Nodes : InHigh(m, n) /\ InHigh(m, p) => n = p
      /\ \A n \in Nodes, c \in Conns, p \in Nodes : InConn(m, n, c) => ~InHigh(m, p)
      /\ \A n \in Nodes, c \in Conns, p \in Nodes, d \in Conns :
           InConn(m, n, c) /\ InConn(m, p, d) => n = p /\ c = d
  BY DEF Single
<1>3. ASSUME NEW n, NEW i, NEW p, NEW j, AtHigh(m, n, i), AtHigh(m, p, j)
      PROVE  n = p /\ i = j
  <2>1. n = p /\ n \in Nodes
    BY <1>1, <1>2, <1>3
  <2>2. AtMostOne({m}, node[n].high)
    BY <2>1 DEF Single
  <2> QED
    BY <2>1, <2>2, <1>3 DEF AtHigh, AtMostOne
<1>4. ASSUME NEW n, NEW c, NEW i, NEW p, NEW d, NEW j,
             AtWire(m, n, c, i), AtWire(m, p, d, j)
      PROVE  n = p /\ c = d /\ i = j
  <2>1. n \in Nodes /\ p \in Nodes /\ Peer(n) = Peer(p) /\ c = d /\ c \in Conns
    BY <1>1, <1>2, <1>4
  <2>2. n = p /\ Peer(n) \in Nodes /\ Peer(Peer(n)) = n
    BY <2>1, PeerFacts
  <2>3. AtMostOne({m}, wire[n][c])
    BY <2>1, <2>2 DEF Single, OneInPipe
  <2> QED
    BY <2>1, <2>2, <2>3, <1>4 DEF AtWire, AtMostOne
<1>5. ASSUME NEW n, NEW c, NEW i, NEW p, NEW d, NEW j,
             AtQueue(m, n, c, i), AtQueue(m, p, d, j)
      PROVE  n = p /\ c = d /\ i = j
  <2>1. n = p /\ c = d /\ n \in Nodes /\ c \in Conns
    BY <1>1, <1>2, <1>5
  <2>2. AtMostOne({m}, UnsentAt(node[n], c))
    BY <2>1 DEF Single, OneInPipe
  <2> QED
    BY <2>1, <2>2, <1>5 DEF AtQueue, AtMostOne
<1>6. ASSUME NEW n, NEW i, NEW p, NEW d, NEW j, AtHigh(m, n, i)
      PROVE  ~AtWire(m, p, d, j) /\ ~AtQueue(m, p, d, j)
  BY <1>1, <1>2, <1>6
<1>7. ASSUME NEW n, NEW c, NEW i, NEW p, NEW d, NEW j,
             AtWire(m, n, c, i), AtQueue(m, p, d, j)
      PROVE  FALSE
  <2>1. Peer(n) = p /\ c = d /\ n \in Nodes /\ p \in Nodes /\ c \in Conns
    BY <1>1, <1>2, <1>7
  <2>2. n = Peer(p)
    BY <2>1, PeerFacts
  <2>3. Quiet({m}, wire[n][c]) \/ Quiet({m}, UnsentAt(node[p], c))
    BY <2>1, <2>2 DEF Single, OneInPipe
  <2> QED
    BY <2>1, <2>3, <1>7 DEF Quiet, AtWire, AtQueue
<1>8. ASSUME NEW x, NEW y, x \in Places(m), y \in Places(m) PROVE x = y
  <2>1. \/ \E n, i : AtHigh(m, n, i) /\ x = <<<<n, None, "high">>, i>>
        \/ \E n, c, i : AtWire(m, n, c, i) /\ x = <<<<n, c, "wire">>, i>>
        \/ \E n, c, i : AtQueue(m, n, c, i) /\ x = <<<<n, c, "q">>, i>>
    BY <1>8, PlaceFacts
  <2>2. \/ \E n, i : AtHigh(m, n, i) /\ y = <<<<n, None, "high">>, i>>
        \/ \E n, c, i : AtWire(m, n, c, i) /\ y = <<<<n, c, "wire">>, i>>
        \/ \E n, c, i : AtQueue(m, n, c, i) /\ y = <<<<n, c, "q">>, i>>
    BY <1>8, PlaceFacts
  <2> QED
    BY <2>1, <2>2, <1>3, <1>4, <1>5, <1>6, <1>7
<1>9. CASE Somewhere(m)
  <2>1. PICK x : x \in Places(m)
    <3>1. \A x :
            (\/ \E n, i : AtHigh(m, n, i) /\ x = <<<<n, None, "high">>, i>>
             \/ \E n, c, i : AtWire(m, n, c, i) /\ x = <<<<n, c, "wire">>, i>>
             \/ \E n, c, i : AtQueue(m, n, c, i) /\ x = <<<<n, c, "q">>, i>>)
            => x \in Places(m)
      BY PlaceFacts
    <3>2. \A n, i : AtHigh(m, n, i) => <<<<n, None, "high">>, i>> \in Places(m)
      BY <3>1
    <3>3. \A n, c, i : AtWire(m, n, c, i) => <<<<n, c, "wire">>, i>> \in Places(m)
      BY <3>1
    <3>4. \A n, c, i : AtQueue(m, n, c, i) => <<<<n, c, "q">>, i>> \in Places(m)
      BY <3>1
    <3>5. \/ \E n, i : AtHigh(m, n, i)
          \/ \E n, c, i : AtWire(m, n, c, i)
          \/ \E n, c, i : AtQueue(m, n, c, i)
      BY <1>9, SomewhereFacts
    <3> QED
      BY <3>2, <3>3, <3>4, <3>5
  <2>2. Places(m) = {x}
    BY <2>1, <1>8
  <2> QED
    BY <2>2, <1>9, FS_Singleton
<1>10. CASE ~Somewhere(m)
  <2>1. \A x : x \notin Places(m)
    BY <1>10, SomewhereFacts, PlaceFacts
  <2>2. Places(m) = {}
    BY <2>1
  <2> QED
    BY <2>2, <1>10, FS_EmptySet
<1> QED
  BY <1>9, <1>10

LEMMA StageIsStatus ==
  ASSUME IInv, NEW m, Fate(m)
  PROVE  Stage(m) = Status(m)
<1>1. Cardinality(Places(m)) = IF Somewhere(m) THEN 1 ELSE 0
  BY OnePlaceOrNone DEF Fate
<1> QED
  BY <1>1 DEF Stage, Status, Fate

LEMMA StageAll == \A k \in Data : IInv /\ Fate(k) => Stage(k) = Status(k)
  BY StageIsStatus

-----------------------------------------------------------------------------
(* The steps of Delivery.                                                  *)

Staged == [m \in Data |-> Stage(m)]

\* Nothing happens to k, or it is lost.
Fades(k) ==
  /\ Fate(k)'
  /\ Status(k)' = Status(k) \/ (Status(k) = "transit" /\ Status(k)' = "lost")

LEMMA StagedFacts ==
  ASSUME DInv, DInv'
  PROVE  /\ Staged = [k \in Data |-> Status(k)]
         /\ Staged' = [k \in Data |-> Status(k)']
<1>1. (\A k \in Data : IInv /\ Fate(k) => Stage(k) = Status(k))'
  BY StageAll, PTL
<1>2. \A k \in Data : Stage(k) = Status(k)
  BY StageAll DEF DInv
<1>3. \A k \in Data : Stage(k)' = Status(k)'
  BY <1>1 DEF DInv
<1>4. Staged = [k \in Data |-> Status(k)]
  BY <1>2 DEF Staged
<1>5. Staged' = [k \in Data |-> Status(k)']
  BY <1>3 DEF Staged
<1> QED
  BY <1>4, <1>5

LEMMA LossStep ==
  ASSUME DInv, IInv', \A k \in Data : Fades(k)
  PROVE  DInv' /\ (D!Next \/ Staged' = Staged)
<1>1. DInv'
  BY DEF DInv, Fades
<1>2. /\ Staged = [k \in Data |-> Status(k)]
      /\ Staged' = [k \in Data |-> Status(k)']
  BY <1>1, StagedFacts
<1> DEFINE L == {k \in Data : Status(k) = "transit" /\ Status(k)' = "lost"}
<1>3. \A k \in Data : Status(k)' = IF k \in L THEN "lost" ELSE Status(k)
  BY DEF Fades
<1>4. L \in SUBSET {k \in Data : Staged[k] = "transit"}
  BY <1>2
<1>5. Staged' = [k \in Data |-> IF k \in L THEN "lost" ELSE Staged[k]]
  BY <1>2, <1>3
<1>6. D!InTransit = {k \in Data : Staged[k] = "transit"}
  BY DEF D!InTransit, Staged
<1>7. D!Lose(L)
  BY <1>5 DEF D!Lose, Staged
<1> HIDE DEF L
<1>8. Staged' # Staged => D!Next
  BY <1>4, <1>6, <1>7 DEF D!Next, Staged
<1> QED
  BY <1>1, <1>8

LEMMA DeliverStep ==
  ASSUME DInv, IInv', NEW m \in Data, Fate(m)',
         Status(m) = "transit", Status(m)' = "delivered",
         \A k \in Data \ {m} : Fades(k)
  PROVE  DInv' /\ D!Next
<1>1. DInv'
  BY DEF DInv, Fades
<1>2. /\ Staged = [k \in Data |-> Status(k)]
      /\ Staged' = [k \in Data |-> Status(k)']
  BY <1>1, StagedFacts
<1> DEFINE L == {k \in Data \ {m} : Status(k) = "transit" /\ Status(k)' = "lost"}
<1>3. \A k \in Data : Status(k)' = IF k = m THEN "delivered"
                                   ELSE IF k \in L THEN "lost" ELSE Status(k)
  BY DEF Fades
<1>4. L \in SUBSET ({k \in Data : Staged[k] = "transit"} \ {m})
  BY <1>2
<1>5. Staged' = [k \in Data |-> IF k = m THEN "delivered"
                                ELSE IF k \in L THEN "lost" ELSE Staged[k]]
  BY <1>2, <1>3
<1>6. D!InTransit = {k \in Data : Staged[k] = "transit"}
  BY DEF D!InTransit, Staged
<1>7. D!Deliver(m, L)
  BY <1>5 DEF D!Deliver, Staged
<1>8. Staged' # Staged /\ m \in {k \in Data : Staged[k] = "transit"}
  BY <1>2
<1> HIDE DEF L
<1>9. D!Next
  BY <1>4, <1>6, <1>7, <1>8 DEF D!Next, Staged
<1> QED
  BY <1>1, <1>9

LEMMA HandOverStep ==
  ASSUME DInv, IInv', NEW m \in Data, Fate(m)',
         Status(m) = "new", Status(m)' = "transit",
         \A k \in Data \ {m} : Fate(k)' /\ Status(k)' = Status(k)
  PROVE  DInv' /\ D!Next
<1>1. DInv'
  BY DEF DInv
<1>2. /\ Staged = [k \in Data |-> Status(k)]
      /\ Staged' = [k \in Data |-> Status(k)']
  BY <1>1, StagedFacts
<1>3. Staged' = [Staged EXCEPT ![m] = "transit"] /\ Staged[m] = "new" /\ Staged' # Staged
  BY <1>2
<1>4. D!HandOver(m)
  BY <1>3 DEF D!HandOver, Staged
<1>5. D!Next
  BY <1>3, <1>4 DEF D!Next, Staged
<1> QED
  BY <1>1, <1>5

-----------------------------------------------------------------------------
(* The steps of Channel.                                                   *)

LEMMA HasFacts ==
  ASSUME NEW S, NEW s \in Seq(S), NEW x \in S
  PROVE  /\ \A y : Has(y, Append(s, x)) <=> Has(y, s) \/ y = x
         /\ ~Has(x, s) => AtMostOne({x}, Append(s, x))
         /\ \A y : y # x /\ AtMostOne({y}, s) => AtMostOne({y}, Append(s, x))
<1> DEFINE a == Append(s, x)
<1>1. /\ Len(s) \in Nat /\ Len(a) = Len(s) + 1 /\ a[Len(s) + 1] = x
      /\ \A i \in 1..Len(s) : a[i] = s[i]
  BY AppendProperties, LenProperties
<1> HIDE DEF a
<1>2. \A i \in 1..Len(a) : i = Len(s) + 1 \/ i \in 1..Len(s)
  BY <1>1
<1>3. Len(s) + 1 \in 1..Len(a) /\ \A i \in 1..Len(s) : i \in 1..Len(a)
  BY <1>1
<1>4. \A y : Has(y, a) <=> Has(y, s) \/ y = x
  BY <1>1, <1>2, <1>3 DEF Has
<1>5. ~Has(x, s) => AtMostOne({x}, a)
  BY <1>1, <1>2 DEF Has, AtMostOne
<1>6. \A y : y # x /\ AtMostOne({y}, s) => AtMostOne({y}, a)
  BY <1>1, <1>2 DEF AtMostOne
<1> QED
  BY <1>4, <1>5, <1>6 DEF a

LEMMA QuietIsNotHas == \A x, s : Quiet({x}, s) <=> ~Has(x, s)
  BY DEF Quiet, Has

LEMMA QuietIsAtMostOne == \A K, s : Quiet(K, s) => AtMostOne(K, s)
  BY DEF Quiet, AtMostOne

LEMMA InPipeIsHas == \A x, w, u : InPipe(x, w, u) <=> Has(x, w) \/ Has(x, u)
  BY DEF InPipe, Has

\* The message was queued in the remote of the boss: now it is in the queue of
\* the H session.
LEMMA TakeOverFades ==
  ASSUME DInv, NEW c \in Conns, TakesOver(c), fresh' = fresh, got' = got,
         NEW k \in Data
  PROVE  Fades(k)
<1> DEFINE u == UnsentAt(node["hi"], c)
           h == node["hi"].high
           w == wire["lo"][c]
           a == Append(u, "high")
           v == a \o h
<1>0. Fate(k) /\ IInv /\ "hi" \in Nodes /\ "lo" \in Nodes
      /\ Peer("hi") = "lo" /\ Peer("lo") = "hi" /\ k \notin Priorities
  BY PeerFacts, DataFacts DEF DInv
<1>1. w \in Seq(Lines) /\ u \in Seq(Lines) /\ h \in Seq(Data) /\ h \in Seq(Lines)
  <2>1. NodeOK(node["hi"]) /\ wire["lo"][c] \in Seq(Lines)
    BY <1>0 DEF IInv, NodesOK
  <2>2. Data \subseteq Lines
    BY DEF Lines
  <2>3. h \in Seq(Data)
    BY <2>1 DEF NodeOK, NodeType
  <2>4. h \in Seq(Lines)
    BY <2>2, <2>3
  <2> QED
    BY <2>1, <2>3, <2>4, UnsentAtType
<1>2. "high" \in Lines /\ "high" # k /\ "high" \notin {k}
  BY <1>0 DEF Lines, Priorities
<1>3. a \in Seq(Lines) /\ Flows({k}, w, u, w, a)
  BY <1>1, <1>2, AppendProperties, AppendFlows
<1>4. /\ UnsentAt(node'["hi"], c) = v /\ wire'["lo"][c] = w
      /\ node'["hi"].high = <<>> /\ node'["lo"].high = node["lo"].high
      /\ \A K : \A p \in Nodes, d \in Conns : p # "hi" \/ d # c =>
           Flows(K, wire[Peer(p)][d], UnsentAt(node[p], d),
                    wire'[Peer(p)][d], UnsentAt(node'[p], d))
  BY DEF TakesOver
<1>5. ~Has(k, <<>>) /\ AtMostOne({k}, <<>>)
  BY EmptySeq DEF Has, AtMostOne
<1>6. CASE ~InHigh(k, "hi")
  <2>1. Quiet({k}, h)
    BY <1>6, QuietIsNotHas DEF InHigh
  <2>2. Flows({k}, w, a, w, v)
    BY <2>1, <1>1, <1>3, ConcatFlows
  <2>3. Flows({k}, w, u, w, v)
    BY <2>2, <1>3, FlowsTransitive
  <2>4. \A p \in Nodes, d \in Conns :
          Flows({k}, wire[Peer(p)][d], UnsentAt(node[p], d),
                     wire'[Peer(p)][d], UnsentAt(node'[p], d))
    <3> SUFFICES ASSUME NEW p \in Nodes, NEW d \in Conns
                 PROVE  Flows({k}, wire[Peer(p)][d], UnsentAt(node[p], d),
                                   wire'[Peer(p)][d], UnsentAt(node'[p], d))
      OBVIOUS
    <3>1. CASE p # "hi" \/ d # c
      BY <3>1, <1>4
    <3>2. CASE p = "hi" /\ d = c
      BY <3>2, <2>3, <1>0, <1>4
    <3> QED
      BY <3>1, <3>2
  <2>5. \A n \in Nodes :
          /\ AtMostOne({k}, node[n].high) => AtMostOne({k}, node'[n].high)
          /\ InHigh(k, n)' => InHigh(k, n)
    BY <1>4, <1>5, PeerFacts DEF InHigh
  <2>6. Shrinks(k)
    BY <2>4, <2>5 DEF Shrinks
  <2> QED
    BY <2>6, <1>0, FateKeeps DEF Fades
<1>7. CASE InHigh(k, "hi")
  <2>1. /\ AtMostOne({k}, h) /\ ~InHigh(k, "lo")
        /\ \A n \in Nodes, d \in Conns : ~InConn(k, n, d)
        /\ \A n \in Nodes, d \in Conns :
             OneInPipe({k}, wire[Peer(n)][d], UnsentAt(node[n], d))
        /\ AtMostOne({k}, node["lo"].high)
    BY <1>0, <1>7 DEF Fate, Single
  <2>2. Quiet({k}, w) /\ Quiet({k}, u)
    <3>1. ~InPipe(k, w, u)
      BY <2>1, <1>0 DEF InConn
    <3> QED
      BY <3>1, InPipeIsHas, QuietIsNotHas
  <2>3. Quiet({k}, a)
    <3>1. ~Has(k, a)
      BY <2>2, <1>1, <1>2, HasFacts, QuietIsNotHas
    <3> QED
      BY <3>1, QuietIsNotHas
  <2> HIDE DEF a
  <2>4. /\ Len(a) \in Nat /\ Len(h) \in Nat /\ Len(v) = Len(a) + Len(h)
        /\ \A i \in 1..Len(v) : v[i] = IF i <= Len(a) THEN a[i] ELSE h[i - Len(a)]
    BY <1>1, <1>3, ConcatProperties, LenProperties
  <2> HIDE DEF h, v
  <2>5. \A i \in 1..Len(v) : v[i] = k => i - Len(a) \in 1..Len(h) /\ h[i - Len(a)] = k
    BY <2>3, <2>4 DEF Quiet
  <2>6. AtMostOne({k}, v)
    <3> SUFFICES ASSUME NEW i \in 1..Len(v), NEW j \in 1..Len(v), v[i] = k, v[j] = k
                 PROVE  i = j
      BY DEF AtMostOne
    <3>1. i - Len(a) = j - Len(a)
      BY <2>1, <2>5 DEF AtMostOne
    <3> QED
      BY <3>1, <2>4
  <2>7. OneInPipe({k}, w, v) /\ Has(k, v)
    <3>1. PICK j \in 1..Len(h) : h[j] = k
      BY <1>7 DEF InHigh, Has, h
    <3>2. Len(a) + j \in 1..Len(v) /\ v[Len(a) + j] = k
      BY <2>4, <3>1
    <3> QED
      BY <3>2, <2>2, <2>6, QuietIsAtMostOne DEF OneInPipe, Has
  <2>8. \A n \in Nodes, d \in Conns : n # "hi" \/ d # c =>
          /\ OneInPipe({k}, wire'[Peer(n)][d], UnsentAt(node'[n], d))
          /\ ~InConn(k, n, d)'
    <3> SUFFICES ASSUME NEW n \in Nodes, NEW d \in Conns, n # "hi" \/ d # c
                 PROVE  /\ OneInPipe({k}, wire'[Peer(n)][d], UnsentAt(node'[n], d))
                        /\ ~InConn(k, n, d)'
      OBVIOUS
    <3>1. Flows({k}, wire[Peer(n)][d], UnsentAt(node[n], d),
                     wire'[Peer(n)][d], UnsentAt(node'[n], d))
      BY <1>4
    <3> QED
      BY <3>1, <2>1 DEF Flows, InConn
  <2>9. OneInPipe({k}, wire'[Peer("hi")][c], UnsentAt(node'["hi"], c)) /\ InConn(k, "hi", c)'
    BY <2>7, <1>0, <1>4, InPipeIsHas DEF InConn
  <2>10. \A n \in Nodes : AtMostOne({k}, node'[n].high) /\ ~InHigh(k, n)'
    BY <2>1, <1>4, <1>5, PeerFacts DEF InHigh
  <2>11. Single(k)'
    BY <2>8, <2>9, <2>10 DEF Single
  <2>12. Somewhere(k)' /\ Somewhere(k)
    BY <2>9, <1>0, <1>7 DEF Somewhere
  <2>13. k \notin fresh /\ got[k] = 0
    BY <2>12, <1>0 DEF Fate
  <2> QED
    BY <2>11, <2>12, <2>13 DEF Fades, Fate, Status
<1> QED
  BY <1>6, <1>7

\* The front of a pipe is taken out: nothing of it stays.
LEMMA PopFacts ==
  ASSUME NEW S, NEW z \in Seq(S), z # <<>>, NEW u, NEW m, z[1] = m,
         OneInPipe({m}, z, u)
  PROVE  ~Has(m, Tail(z)) /\ ~Has(m, <<>>) /\ ~Has(m, u) /\ Has(m, z)
<1>1. /\ Len(z) \in Nat \ {0} /\ Len(Tail(z)) = Len(z) - 1
      /\ \A i \in 1..Len(Tail(z)) : Tail(z)[i] = z[i + 1]
  BY HeadTailProperties, EmptySeq
<1>2. Has(m, z)
  BY <1>1 DEF Has
<1>3. ~Has(m, u)
  BY <1>2, QuietIsNotHas DEF OneInPipe
<1>4. ~Has(m, <<>>)
  BY EmptySeq DEF Has
<1>5. ASSUME NEW i \in 1..Len(Tail(z)), Tail(z)[i] = m PROVE FALSE
  <2>1. i + 1 \in 1..Len(z) /\ 1 \in 1..Len(z) /\ i + 1 # 1 /\ z[i + 1] = m
    BY <1>1, <1>5
  <2> QED
    BY <2>1 DEF OneInPipe, AtMostOne
<1> QED
  BY <1>2, <1>3, <1>4, <1>5 DEF Has

LEMMA ReadDelivers ==
  ASSUME DInv, IInv', NEW n \in Nodes, NEW c \in Conns, Read(n, c), Flowing(Service),
         node[n].ss[c].auth, NEW m \in Data, m = Head(wire[n][c])
  PROVE  Fate(m)' /\ Status(m) = "transit" /\ Status(m)' = "delivered"
<1>1. IInv /\ Fate(m) /\ got \in [Data -> Nat] /\ m \notin Service
  BY DataFacts DEF DInv, IInv, NodesOK
<1>2. /\ got' = [got EXCEPT ![m] = @ + 1] /\ fresh' = fresh
  BY DEF Read
<1>3. PICK p \in Nodes : p = Peer(n) /\ Peer(p) = n /\ p # n
  BY PeerFacts
<1> DEFINE z == wire[n][c]
           u == UnsentAt(node[p], c)
<1>4. /\ z # <<>> /\ z[1] = m /\ z \in Seq(Lines)
      /\ \E N \in ReadLine(n, c, node[n].ss[c], m) : \E t \in LineDone(N.ss[c]) :
           Becomes(n, c, With(N, c, t), Unread(n, c))
      /\ Unread(n, c)[n][c] = Tail(z)
      /\ WireStep(n, c, Unread(n, c))
  BY <1>1, ReadFacts DEF IInv, NodesOK
<1>5. /\ node'[p] = node[p]
      /\ wire'[n][c] = Tail(z) \/ wire'[n][c] = <<>>
  <2>1. PICK N : /\ node' = [node EXCEPT ![n] = N]
                 /\ wire' = Unread(n, c) \/ wire' = [Unread(n, c) EXCEPT ![n][c] = <<>>]
    BY <1>4 DEF Becomes
  <2>2. Unread(n, c) \in [Nodes -> [Conns -> Seq(Lines)]]
    BY <1>4 DEF WireStep
  <2>3. node'[p] = node[p]
    BY <2>1, <1>1, <1>3 DEF IInv, NodesOK
  <2> QED
    BY <2>1, <2>2, <2>3, <1>4
<1>6. OneInPipe({m}, z, u)
  BY <1>1, <1>3 DEF Fate, Single
<1> HIDE DEF z, u
<1>7. ~Has(m, Tail(z)) /\ ~Has(m, <<>>) /\ ~Has(m, u) /\ Has(m, z)
  BY <1>4, <1>6, PopFacts
<1>8. InConn(m, p, c)
  BY <1>3, <1>7, InPipeIsHas DEF InConn, z
<1>9. ~InConn(m, p, c)'
  BY <1>3, <1>5, <1>7, InPipeIsHas DEF InConn, u
<1>10. Shrinks(m)
  BY <1>1, FlowingShrinks
<1>11. Single(m) /\ Single(m)'
  BY <1>1, <1>10, ShrinkStep DEF Fate
<1>12. ~Somewhere(m)'
  <2>1. ASSUME NEW q \in Nodes, InHigh(m, q)' PROVE FALSE
    BY <2>1, <1>8, <1>10, <1>11 DEF Shrinks, Single
  <2>2. ASSUME NEW q \in Nodes, NEW d \in Conns, InConn(m, q, d)' PROVE FALSE
    <3>1. InConn(m, q, d)
      <4>1. Flows({m}, wire[Peer(q)][d], UnsentAt(node[q], d),
                       wire'[Peer(q)][d], UnsentAt(node'[q], d))
        BY <1>10 DEF Shrinks
      <4> QED
        BY <4>1, <2>2 DEF Flows, InConn
    <3>2. q = p /\ d = c
      BY <3>1, <1>8, <1>11 DEF Single
    <3> QED
      BY <3>2, <2>2, <1>9
  <2> QED
    BY <2>1, <2>2 DEF Somewhere
<1>13. Somewhere(m)
  BY <1>8 DEF Somewhere
<1>14. m \notin fresh /\ got[m] = 0
  BY <1>1, <1>13 DEF Fate
<1>15. got'[m] = 1 /\ m \notin fresh'
  BY <1>1, <1>2, <1>14
<1> QED
  BY <1>11, <1>12, <1>13, <1>14, <1>15 DEF Fate, Status

LEMMA FlowingFades ==
  ASSUME DInv, NEW k \in Data, Flowing(Service) \/ Flowing(Service \cup Priorities),
         fresh' = fresh, got'[k] = got[k]
  PROVE  Fades(k)
<1>1. k \notin Service /\ k \notin Service \cup Priorities /\ Fate(k)
  BY DataFacts DEF DInv
<1>2. Shrinks(k)
  BY <1>1, FlowingShrinks
<1> QED
  BY <1>1, <1>2, FateKeeps DEF Fades

LEMMA ReadStep ==
  ASSUME DInv, limit' = limit, NEW n \in Nodes, NEW c \in Conns, Read(n, c)
  PROVE  DInv' /\ (D!Next \/ Staged' = Staged)
<1> DEFINE m == Head(wire[n][c])
<1>0. IInv
  BY DEF DInv
<1>1. IInv'
  BY <1>0, ReadOK
<1>2. /\ fresh' = fresh
      /\ got' = IF node[n].ss[c].auth /\ m \in Data THEN [got EXCEPT ![m] = @ + 1] ELSE got
  BY DEF Read
<1>3. CASE ~node[n].ss[c].auth
  <2>1. \A k \in Data : got'[k] = got[k]
    BY <1>2, <1>3
  <2>2. CASE n = "lo"
    <3>1. Flowing(Service)
      BY <2>2, <1>0, <1>3, ReadWaitOK
    <3>2. \A k \in Data : Fades(k)
      BY <3>1, <2>1, <1>2, FlowingFades
    <3> QED
      BY <3>2, <1>1, LossStep
  <2>3. CASE n = "hi"
    <3>1. Flowing(Service \cup Priorities) \/ TakesOver(c)
      BY <2>3, <1>0, <1>3, ReadAssignOK
    <3>2. got' = got
      BY <1>2, <1>3
    <3>3. CASE TakesOver(c)
      <4>1. \A k \in Data : Fades(k)
        BY <3>2, <3>3, <1>2, TakeOverFades
      <4> QED
        BY <4>1, <1>1, LossStep
    <3>4. CASE Flowing(Service \cup Priorities)
      <4>1. \A k \in Data : Fades(k)
        BY <3>4, <2>1, <1>2, FlowingFades
      <4> QED
        BY <4>1, <1>1, LossStep
    <3> QED
      BY <3>1, <3>3, <3>4
  <2> QED
    BY <2>2, <2>3, PeerFacts
<1>4. CASE node[n].ss[c].auth
  <2>1. Flowing(Service)
    BY <1>0, <1>4, ReadPlainOK, ReadPriorityOK
  <2>2. CASE m \notin Data
    <3>1. \A k \in Data : got'[k] = got[k]
      BY <2>2, <1>2
    <3>2. \A k \in Data : Fades(k)
      BY <2>1, <3>1, <1>2, FlowingFades
    <3> QED
      BY <3>2, <1>1, LossStep
  <2>3. CASE m \in Data
    <3>1. got \in [Data -> Nat]
      BY <1>0 DEF IInv, NodesOK
    <3>2. PICK x \in Data : x = m
      BY <2>3
    <3>3. \A k \in Data \ {x} : got'[k] = got[k]
      BY <3>1, <3>2, <1>2, <1>4
    <3>4. \A k \in Data \ {x} : Fades(k)
      BY <3>3, <2>1, <1>2, FlowingFades
    <3>5. Fate(x)' /\ Status(x) = "transit" /\ Status(x)' = "delivered"
      BY <2>1, <3>2, <1>1, <1>4, ReadDelivers
    <3> QED
      BY <3>4, <3>5, <1>1, DeliverStep
  <2> QED
    BY <2>2, <2>3
<1> QED
  BY <1>3, <1>4

\* Message m enters one place, and nothing else changes.
Enters(n, m) ==
  /\ wire' = wire
  /\ \/ /\ \E c \in Conns :
             /\ UnsentAt(node'[n], c) = Append(UnsentAt(node[n], c), m)
             /\ \A p \in Nodes, d \in Conns : p # n \/ d # c =>
                  UnsentAt(node'[p], d) = UnsentAt(node[p], d)
        /\ \A p \in Nodes : node'[p].high = node[p].high
     \/ /\ \A p \in Nodes, d \in Conns : UnsentAt(node'[p], d) = UnsentAt(node[p], d)
        /\ node'[n].high = Append(node[n].high, m)
        /\ \A p \in Nodes \ {n} : node'[p].high = node[p].high

LEMMA SendEnters ==
  ASSUME IInv, limit' = limit, NEW n \in Nodes, NEW m \in Data, Send(n, m)
  PROVE  Enters(n, m)
<1>1. /\ wire' = wire /\ node' = [node EXCEPT ![n] = RemoteSend(node[n], m)]
  BY DEF Send
<1>2. /\ node \in [Nodes -> NodeType] /\ node[n] \in NodeType /\ NodeOK(node[n])
  BY DEF IInv, NodesOK
<1>3. /\ node'[n] = RemoteSend(node[n], m)
      /\ \A p \in Nodes \ {n} : node'[p] = node[p]
  BY <1>1, <1>2
<1>4. CASE RemoteConnected(node[n])
  <2> DEFINE c == node[n].H
             s == node[n].ss[c]
             t == PutOutQueue(s, m)
  <2>1. c \in Conns /\ c # None /\ s # None /\ s.auth /\ SessOK(s)
    BY <1>2, <1>4 DEF RemoteConnected, NodeOK, NodeType, SlotsOf
  <2>2. SessOK(t) /\ Unsent(t) = Append(Unsent(s), m)
    BY <2>1, DataFacts, PutOutQueueOK
  <2>3. t \in SessionType(Lines) /\ t # None
    BY <2>2, ChannelAssumption DEF SessOK
  <2>4. node'[n] = With(node[n], c, t)
    BY <1>3, <1>4 DEF RemoteSend
  <2> HIDE DEF t, s, c
  <2>5. /\ node'[n].ss = [node[n].ss EXCEPT ![c] = t] /\ node'[n].high = node[n].high
    BY <2>1, <2>3, <2>4, <1>2, WithType
  <2>6. node[n].ss \in [Conns -> SessionType(Lines) \cup {None}]
    BY <1>2 DEF NodeType
  <2>7. node'[n].ss[c] = t /\ \A d \in Conns \ {c} : node'[n].ss[d] = node[n].ss[d]
    BY <2>1, <2>5, <2>6
  <2>8. UnsentAt(node'[n], c) = Append(UnsentAt(node[n], c), m)
    BY <2>1, <2>2, <2>3, <2>7 DEF UnsentAt, s
  <2>9. \A p \in Nodes, d \in Conns : p # n \/ d # c =>
                  UnsentAt(node'[p], d) = UnsentAt(node[p], d)
    BY <2>7, <1>3 DEF UnsentAt
  <2>10. \A p \in Nodes : node'[p].high = node[p].high
    BY <2>5, <1>3
  <2> QED
    BY <2>1, <2>8, <2>9, <2>10, <1>1 DEF Enters
<1>5. CASE ~RemoteConnected(node[n])
  <2> DEFINE h == Append(node[n].high, m)
  <2>1. node'[n] = [node[n] EXCEPT !.high = h]
    BY <1>3, <1>5 DEF RemoteSend
  <2> HIDE DEF h
  <2>2. node'[n].high = h /\ node'[n].ss = node[n].ss
    BY <2>1, <1>2 DEF NodeType
  <2>3. \A p \in Nodes, d \in Conns : UnsentAt(node'[p], d) = UnsentAt(node[p], d)
    BY <2>2, <1>3 DEF UnsentAt
  <2> QED
    BY <2>2, <2>3, <1>1, <1>3 DEF Enters, h
<1> QED
  BY <1>4, <1>5

\* The fate of a message that another one passes.
LEMMA EntersOthers ==
  ASSUME DInv, NEW n \in Nodes, NEW m \in Data, Enters(n, m), NEW k \in Data, k # m,
         got' = got, k \in fresh' <=> k \in fresh
  PROVE  Fate(k)' /\ Status(k)' = Status(k)
<1>1. /\ \A p \in Nodes : node[p].high \in Seq(Data)
      /\ \A p \in Nodes, d \in Conns : UnsentAt(node[p], d) \in Seq(Lines)
      /\ \A p \in Nodes, d \in Conns : wire[p][d] \in Seq(Lines)
      /\ Fate(k) /\ m \in Lines /\ m \notin {k}
  <2>1. \A p \in Nodes : NodeOK(node[p])
    BY DEF DInv, IInv, NodesOK
  <2>2. /\ \A p \in Nodes : node[p].high \in Seq(Data)
        /\ \A p \in Nodes, d \in Conns : UnsentAt(node[p], d) \in Seq(Lines)
    BY <2>1, UnsentAtType DEF NodeOK, NodeType
  <2>3. \A p \in Nodes, d \in Conns : wire[p][d] \in Seq(Lines)
    BY DEF DInv, IInv, NodesOK
  <2>4. Fate(k) /\ m \in Lines /\ m \notin {k}
    BY DataFacts DEF DInv
  <2> QED
    BY <2>2, <2>3, <2>4
<1>2. ASSUME NEW p \in Nodes
      PROVE  /\ AtMostOne({k}, node[p].high) => AtMostOne({k}, node'[p].high)
             /\ InHigh(k, p)' <=> InHigh(k, p)
  <2>1. node'[p].high = node[p].high \/ node'[p].high = Append(node[p].high, m)
    BY DEF Enters
  <2> DEFINE h == node[p].high
             g == node'[p].high
  <2>2. h \in Seq(Data) /\ (g = h \/ g = Append(h, m))
    BY <2>1, <1>1
  <2> HIDE DEF h, g
  <2>3. /\ AtMostOne({k}, h) => AtMostOne({k}, Append(h, m))
        /\ Has(k, Append(h, m)) <=> Has(k, h)
    BY <2>2, HasFacts
  <2>4. (AtMostOne({k}, h) => AtMostOne({k}, g)) /\ (Has(k, g) <=> Has(k, h))
    BY <2>2, <2>3
  <2> QED
    BY <2>4 DEF InHigh, h, g
<1>3. ASSUME NEW p \in Nodes, NEW d \in Conns
      PROVE  /\ Flows({k}, wire[Peer(p)][d], UnsentAt(node[p], d),
                           wire'[Peer(p)][d], UnsentAt(node'[p], d))
             /\ InConn(k, p, d)' <=> InConn(k, p, d)
  <2> DEFINE w == wire[Peer(p)][d]
             u == UnsentAt(node[p], d)
             v == UnsentAt(node'[p], d)
  <2>1. v = u \/ v = Append(u, m)
    BY DEF Enters
  <2>2. w \in Seq(Lines) /\ u \in Seq(Lines) /\ wire'[Peer(p)][d] = w
    BY <1>1, PeerFacts DEF Enters
  <2> HIDE DEF w, u, v
  <2>3. Flows({k}, w, u, w, Append(u, m)) /\ Flows({k}, w, u, w, u)
    <3>1. m \in Lines /\ m \notin {k}
      BY <1>1
    <3>2. Flows({k}, w, u, w, Append(u, m))
      BY <3>1, <2>2, AppendFlows
    <3> QED
      BY <3>2, SameFlows
  <2>4. Has(k, v) <=> Has(k, u)
    <3>1. m \in Lines /\ u \in Seq(Lines)
      BY <1>1, <2>2
    <3>2. Has(k, Append(u, m)) <=> Has(k, u) \/ k = m
      BY ONLY <3>1, HasFacts
    <3> QED
      BY <2>1, <3>2
  <2>5. InPipe(k, w, v) <=> InPipe(k, w, u)
    BY <2>4, InPipeIsHas
  <2> QED
    BY <2>1, <2>2, <2>3, <2>5 DEF InConn, w, u, v
<1>4. Shrinks(k)
  BY <1>2, <1>3 DEF Shrinks
<1>5. Somewhere(k)' <=> Somewhere(k)
  BY <1>2, <1>3 DEF Somewhere
<1>6. Fate(k)'
  BY <1>1, <1>4, FateKeeps
<1> QED
  BY <1>5, <1>6 DEF Status

\* The fate of the message that is handed over.
LEMMA EntersOnce ==
  ASSUME DInv, NEW n \in Nodes, NEW m \in Data, Enters(n, m),
         got' = got, m \in fresh, m \notin fresh'
  PROVE  Fate(m)' /\ Status(m) = "new" /\ Status(m)' = "transit"
<1>1. /\ \A p \in Nodes : node[p].high \in Seq(Data)
      /\ \A p \in Nodes, d \in Conns : UnsentAt(node[p], d) \in Seq(Lines)
      /\ Fate(m) /\ m \in Lines
  BY UnsentAtType, DataFacts DEF DInv, IInv, NodesOK, NodeOK, NodeType
<1>2. got[m] = 0 /\ ~Somewhere(m) /\ Single(m)
  BY <1>1 DEF Fate
<1>3. /\ \A p \in Nodes : ~Has(m, node[p].high) /\ AtMostOne({m}, node[p].high)
      /\ \A p \in Nodes, d \in Conns :
           /\ ~Has(m, wire[Peer(p)][d]) /\ ~Has(m, UnsentAt(node[p], d))
           /\ OneInPipe({m}, wire[Peer(p)][d], UnsentAt(node[p], d))
  BY <1>2, InPipeIsHas DEF Somewhere, Single, InHigh, InConn
<1>4. wire' = wire
  BY DEF Enters
<1>5. CASE \A p \in Nodes : node'[p].high = node[p].high
  <2>1. PICK c \in Conns :
           \/ /\ UnsentAt(node'[n], c) = Append(UnsentAt(node[n], c), m)
              /\ \A p \in Nodes, d \in Conns : p # n \/ d # c =>
                   UnsentAt(node'[p], d) = UnsentAt(node[p], d)
    <3>1. node[n].high # Append(node[n].high, m)
      BY <1>1, HasFacts, <1>3
    <3> QED
      BY <3>1, <1>5 DEF Enters
  <2> DEFINE u == UnsentAt(node[n], c)
             w == wire[Peer(n)][c]
  <2>2. u \in Seq(Lines) /\ ~Has(m, u) /\ ~Has(m, w)
    BY <1>1, <1>3
  <2> HIDE DEF u, w
  <2>3. AtMostOne({m}, Append(u, m)) /\ Has(m, Append(u, m))
    BY <2>2, <1>1, HasFacts
  <2>4. OneInPipe({m}, w, Append(u, m)) /\ InPipe(m, w, Append(u, m))
    BY <2>2, <2>3, QuietIsNotHas, QuietIsAtMostOne, InPipeIsHas DEF OneInPipe
  <2>5. /\ OneInPipe({m}, wire'[Peer(n)][c], UnsentAt(node'[n], c)) /\ InConn(m, n, c)'
    BY <2>1, <2>4, <1>4 DEF InConn, u, w
  <2>6. \A p \in Nodes, d \in Conns : p # n \/ d # c =>
          /\ OneInPipe({m}, wire'[Peer(p)][d], UnsentAt(node'[p], d))
          /\ ~InConn(m, p, d)'
    BY <2>1, <1>3, <1>4, InPipeIsHas DEF InConn
  <2>7. \A p \in Nodes : AtMostOne({m}, node'[p].high) /\ ~InHigh(m, p)'
    BY <1>3, <1>5 DEF InHigh
  <2>8. Single(m)'
    BY <2>5, <2>6, <2>7 DEF Single
  <2>9. Somewhere(m)'
    BY <2>5 DEF Somewhere
  <2> QED
    BY <2>8, <2>9, <1>2 DEF Fate, Status
<1>6. CASE /\ \A p \in Nodes, d \in Conns : UnsentAt(node'[p], d) = UnsentAt(node[p], d)
           /\ node'[n].high = Append(node[n].high, m)
           /\ \A p \in Nodes \ {n} : node'[p].high = node[p].high
  <2>1. AtMostOne({m}, node'[n].high) /\ InHigh(m, n)'
    <3>1. node[n].high \in Seq(Data) /\ ~Has(m, node[n].high)
      BY <1>1, <1>3
    <3>2. AtMostOne({m}, Append(node[n].high, m)) /\ Has(m, Append(node[n].high, m))
      BY <3>1, HasFacts
    <3> QED
      BY <3>2, <1>6 DEF InHigh
  <2>2. \A p \in Nodes \ {n} : AtMostOne({m}, node'[p].high) /\ ~InHigh(m, p)'
    BY <1>3, <1>6 DEF InHigh
  <2>3. \A p \in Nodes, d \in Conns :
          /\ OneInPipe({m}, wire'[Peer(p)][d], UnsentAt(node'[p], d))
          /\ ~InConn(m, p, d)'
    BY <1>3, <1>4, <1>6, InPipeIsHas DEF InConn
  <2>4. Single(m)'
    BY <2>1, <2>2, <2>3 DEF Single
  <2>5. Somewhere(m)'
    BY <2>1 DEF Somewhere
  <2> QED
    BY <2>4, <2>5, <1>2 DEF Fate, Status
<1> QED
  BY <1>5, <1>6 DEF Enters

LEMMA SendStep ==
  ASSUME DInv, limit' = limit, NEW n \in Nodes, NEW m \in Data, Send(n, m)
  PROVE  DInv' /\ D!Next
<1>1. IInv
  BY DEF DInv
<1>2. IInv'
  BY <1>1, SendOnSession, SendInRemote
<1>3. m \in fresh /\ fresh' = fresh \ {m} /\ got' = got
  BY DEF Send
<1>4. Enters(n, m)
  BY <1>1, SendEnters
<1>5. Fate(m)' /\ Status(m) = "new" /\ Status(m)' = "transit"
  BY <1>3, <1>4, EntersOnce
<1>6. \A k \in Data \ {m} : Fate(k)' /\ Status(k)' = Status(k)
  BY <1>3, <1>4, EntersOthers
<1> QED
  BY <1>2, <1>5, <1>6, HandOverStep

\* A step of a session: at most messages are lost.
LEMMA QuietStep ==
  ASSUME DInv, IInv', Flowing(Service), fresh' = fresh, got' = got
  PROVE  DInv' /\ (D!Next \/ Staged' = Staged)
<1>1. \A k \in Data : Fades(k)
  BY FlowingFades
<1> QED
  BY <1>1, LossStep

LEMMA DeliveryInit == Init => DInv /\ D!Init
<1> SUFFICES ASSUME Init PROVE DInv /\ D!Init
  OBVIOUS
<1>1. IInv /\ fresh = Data /\ got = [k \in Data |-> 0]
  BY InitOK DEF Init
<1>2. \A n \in Nodes, c \in Conns :
        node[n].high = <<>> /\ wire[n][c] = <<>> /\ UnsentAt(node[n], c) = <<>>
  BY DEF Init, NewNode, UnsentAt
<1>3. Len(<<>>) = 0
  BY EmptySeq
<1>4. \A k : /\ ~Has(k, <<>>) /\ AtMostOne({k}, <<>>) /\ ~InPipe(k, <<>>, <<>>)
             /\ OneInPipe({k}, <<>>, <<>>)
  BY <1>3 DEF Has, AtMostOne, InPipe, OneInPipe, Quiet
<1>5. \A k : /\ \A n \in Nodes : ~InHigh(k, n) /\ AtMostOne({k}, node[n].high)
             /\ \A n \in Nodes, c \in Conns :
                  /\ ~InConn(k, n, c)
                  /\ OneInPipe({k}, wire[Peer(n)][c], UnsentAt(node[n], c))
  <2> SUFFICES ASSUME NEW k
               PROVE  /\ \A n \in Nodes : ~InHigh(k, n) /\ AtMostOne({k}, node[n].high)
                      /\ \A n \in Nodes, c \in Conns :
                           /\ ~InConn(k, n, c)
                           /\ OneInPipe({k}, wire[Peer(n)][c], UnsentAt(node[n], c))
    OBVIOUS
  <2>1. ASSUME NEW n \in Nodes
        PROVE  ~InHigh(k, n) /\ AtMostOne({k}, node[n].high)
    <3>1. node[n].high = <<>>
      BY DEF Init, NewNode
    <3> QED
      BY <3>1, <1>4 DEF InHigh
  <2>2. ASSUME NEW n \in Nodes, NEW c \in Conns
        PROVE  ~InConn(k, n, c) /\ OneInPipe({k}, wire[Peer(n)][c], UnsentAt(node[n], c))
    <3>1. wire[Peer(n)][c] = <<>> /\ UnsentAt(node[n], c) = <<>>
      BY <1>2, PeerFacts
    <3> QED
      BY <3>1, <1>4 DEF InConn
  <2> QED
    BY <2>1, <2>2
<1>6. \A k : Single(k) /\ ~Somewhere(k)
  BY <1>5 DEF Single, Somewhere
<1>7. DInv
  BY <1>1, <1>6 DEF DInv, Fate
<1>8. \A k \in Data : Stage(k) = "new"
  BY <1>1 DEF Stage
<1>9. D!Init
  BY <1>8 DEF D!Init
<1> QED
  BY <1>7, <1>9

LEMMA DeliveryNext == DInv /\ [Next]_vars => DInv' /\ (D!Next \/ Staged' = Staged)
<1> SUFFICES ASSUME DInv, [Next]_vars
             PROVE  DInv' /\ (D!Next \/ Staged' = Staged)
  OBVIOUS
<1>0. IInv
  BY DEF DInv
<1>1. CASE UNCHANGED vars
  <2>1. IInv'
    BY <1>0, <1>1, NextOK
  <2>2. Flowing(Service) /\ fresh' = fresh /\ got' = got
    BY <1>1, SameFlows DEF vars, Flowing, FlowStep
  <2> QED
    BY <2>1, <2>2, QuietStep
<1>2. CASE Next
  <2>0. limit' = limit
    BY <1>2 DEF Next
  <2>1. ASSUME NEW n \in Nodes, NEW c \in Conns,
               \/ ConnectOk(n, c) \/ ConnectErr(n, c) \/ Accept(n, c)
               \/ Transmit(n, c) \/ WriteOk(n, c) \/ WriteErr(n, c)
               \/ ByeDone(n, c) \/ ReadErr(n, c)
        PROVE  DInv' /\ (D!Next \/ Staged' = Staged)
    <3>1. fresh' = fresh /\ got' = got
      BY <2>1 DEF ConnectOk, ConnectErr, Accept, Transmit, WriteOk, WriteErr,
                  ByeDone, ReadErr
    <3>2. IInv' /\ Flowing(Service)
      BY <2>0, <2>1, <1>0, ConnectOkOK, ConnectErrOK, AcceptOK, TransmitOK,
         WriteOkOK, WriteErrOK, ByeDoneOK, ReadErrOK
    <3> QED
      BY <3>1, <3>2, QuietStep
  <2>2. ASSUME NEW n \in Nodes, Dial(n)
        PROVE  DInv' /\ (D!Next \/ Staged' = Staged)
    <3>1. fresh' = fresh /\ got' = got
      BY <2>2 DEF Dial
    <3>2. IInv' /\ Flowing(Service)
      BY <2>0, <2>2, <1>0, DialOK
    <3> QED
      BY <3>1, <3>2, QuietStep
  <2>3. ASSUME NEW n \in Nodes, NEW c \in Conns, Read(n, c)
        PROVE  DInv' /\ (D!Next \/ Staged' = Staged)
    BY <2>0, <2>3, ReadStep
  <2>4. ASSUME NEW n \in Nodes, NEW m \in Data, Send(n, m)
        PROVE  DInv' /\ (D!Next \/ Staged' = Staged)
    BY <2>0, <2>4, SendStep
  <2> QED
    BY <1>2, <2>1, <2>2, <2>3, <2>4 DEF Next
<1> QED
  BY <1>1, <1>2

\* The channel implements Delivery, for any connections and messages: queueing
\* in the remote, take-over, priority changes, closes, broken connections and
\* reads that complete after the close neither duplicate an application message
\* nor bring back one that was delivered or lost (remote.cpp:73-168,
\* session.cpp:168-189, 258-300).
THEOREM ChannelImplementsDelivery == Spec => ImplementsDelivery
<1>1. Init => DInv /\ D!Init
  BY DeliveryInit
<1>2. DInv /\ [Next]_vars => DInv'
  BY DeliveryNext
<1>3. DInv /\ [Next]_vars => [D!Next]_[m \in Data |-> Stage(m)]
  BY DeliveryNext DEF Staged
<1>4. Spec => []DInv
  BY <1>1, <1>2, PTL DEF Spec
<1> QED
  BY <1>1, <1>3, <1>4, PTL DEF Spec, ImplementsDelivery, D!Spec
=============================================================================
