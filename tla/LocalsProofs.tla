---------------------------- MODULE LocalsProofs ----------------------------
(***************************************************************************)
(* The invariants of Locals, for any number of connections, messages,      *)
(* exits and errors.                                                       *)
(***************************************************************************)
EXTENDS Locals, SessionCoreProofs, FiniteSetTheorems

-----------------------------------------------------------------------------
(* The inductive invariant.                                                *)

\* A session on its own: the auth message is the first one in its queue and is
\* being written, or the session has stopped; before authentication nothing
\* else is queued; while connecting, nothing has happened.
SessOK(s) ==
  /\ s \in SessionType(Lines)
  /\ \A i \in 1..Len(s.q) : s.q[i] = Auth => i = 1 /\ (s.wr # "none" \/ s.stopped)
  /\ ~s.auth => /\ Len(s.q) <= 1
                /\ s.wr # "none" => s.q # <<>>
                /\ \A i \in 1..Len(s.q) : s.q[i] = Auth
  /\ s.sock = "connecting" =>
       ~s.auth /\ ~s.stopped /\ s.q = <<>> /\ s.wr = "none" /\ s.rd = "off"

SessionsOK == \A p \in Procs, c \in Conns : Exists(p, c) => SessOK(sess[p][c])

\* The client does one thing at a time, and uses m_locals only after auth().
ClientOK ==
  /\ ~app.up => app.resolves = 0 /\ app.waits = 0 /\ \A c \in Conns : ~Exists("app", c)
  /\ app.resolves + app.waits <= 1
  /\ \A c \in Conns : Exists("app", c) =>
       /\ app.resolves = 0 /\ app.waits = 0 /\ c \notin gone["app"]
       /\ sess["app"][c].auth => app.local # None
       /\ \A d \in Conns : Exists("app", d) => d = c
  /\ ~app.nullSend

\* A connection that is not established yet, and one that the server has not
\* authenticated yet.
Fresh(c) == c \notin gone["app"] /\ (Exists("app", c) => Connecting(c))
Waiting(c) ==
  \/ Fresh(c) \/ c \in backlog
  \/ Exists("srv", c) /\ ~sess["srv"][c].auth

ServerOK ==
  /\ \A c \in Conns : Fresh(c) => ~Exists("srv", c) /\ c \notin backlog
  /\ \A c \in backlog : ~Exists("srv", c)
  /\ srv.local # None => Exists("srv", srv.local) /\ sess["srv"][srv.local].auth

ControlOK == TypeOK /\ SessionsOK /\ ClientOK /\ ServerOK

\* The messages on their way to the application by connection c: on the wire
\* and in the queue of the server's session.  The front of the queue is already
\* on the wire when its write has been sent.
Unsent(s) == IF s.wr = "sent" /\ s.q # <<>> THEN Tail(s.q) ELSE s.q
UnsentAt(c) == IF sess["srv"][c] = None THEN <<>> ELSE Unsent(sess["srv"][c])
QueueAt(c) == IF sess["srv"][c] = None THEN <<>> ELSE sess["srv"][c].q

Has(m, s) == \E i \in 1..Len(s) : s[i] = m
InPipe(m, c) == Has(m, wire["app"][c]) \/ Has(m, UnsentAt(c))

Rising(s) ==
  \A i, j \in 1..Len(s) : i < j /\ s[i] \in Data /\ s[j] \in Data => s[i] < s[j]
Ordered(w, u) ==
  /\ Rising(w) /\ Rising(u)
  /\ \A m, k \in Data : Has(m, w) /\ Has(k, u) => m < k

PipeOK(c) ==
  /\ Ordered(wire["app"][c], UnsentAt(c)) /\ Rising(QueueAt(c))
  /\ \A m \in Data : InPipe(m, c) \/ Has(m, QueueAt(c)) => m < next
  /\ Exists("app", c) =>
       \A m, k \in Data : InPipe(m, c) /\ Has(k, app.got) => k < m
  /\ Waiting(c) => /\ \A m \in Data : ~InPipe(m, c) /\ ~Has(m, QueueAt(c))
                   /\ Exists("app", c) => app.got = <<>>

StreamOK ==
  /\ Rising(app.got) /\ \A m \in Data : Has(m, app.got) => m < next
  /\ app.resolves > 0 \/ app.waits > 0 => app.got = <<>>
  /\ \A c \in Conns : PipeOK(c)

OnceOK ==
  ~raced => \A m \in Data :
    /\ seen[m] <= 1
    /\ m >= next => seen[m] = 0
    /\ \A c \in Conns : InPipe(m, c) => /\ seen[m] = 0
                                        /\ \A d \in Conns : InPipe(m, d) => d = c

IInv == ControlOK /\ StreamOK /\ OnceOK

-----------------------------------------------------------------------------
(* Sequences.                                                              *)

SuffixOf(t, s) ==
  \E k \in 0..Len(s) : /\ Len(t) = Len(s) - k
                       /\ \A i \in 1..Len(t) : t[i] = s[i + k]

\* What drops the front of a sequence keeps its order and adds nothing.
LEMMA SuffixFacts ==
  ASSUME NEW S, NEW s \in Seq(S), NEW t \in Seq(S), SuffixOf(t, s)
  PROVE  /\ Rising(s) => Rising(t)
         /\ \A m : Has(m, t) => Has(m, s)
<1>1. PICK k \in 0..Len(s) : /\ Len(t) = Len(s) - k
                             /\ \A i \in 1..Len(t) : t[i] = s[i + k]
  BY DEF SuffixOf
<1>2. Len(s) \in Nat /\ Len(t) \in Nat /\ k \in Nat
  BY LenProperties
<1>3. \A i \in 1..Len(t) : i + k \in 1..Len(s) /\ i \in Nat
  BY <1>1, <1>2
<1>4. Rising(s) => Rising(t)
  <2> SUFFICES ASSUME Rising(s), NEW i \in 1..Len(t), NEW j \in 1..Len(t), i < j,
                      t[i] \in Data, t[j] \in Data
               PROVE  t[i] < t[j]
    BY DEF Rising
  <2>1. i + k \in 1..Len(s) /\ j + k \in 1..Len(s) /\ i + k < j + k
    BY <1>2, <1>3
  <2>2. t[i] = s[i + k] /\ t[j] = s[j + k]
    BY <1>1
  <2> QED
    BY <2>1, <2>2 DEF Rising
<1>5. \A m : Has(m, t) => Has(m, s)
  BY <1>1, <1>3 DEF Has
<1> QED
  BY <1>4, <1>5

LEMMA SuffixCases ==
  ASSUME NEW S, NEW s \in Seq(S)
  PROVE  /\ SuffixOf(s, s) /\ SuffixOf(<<>>, s)
         /\ s # <<>> => SuffixOf(Tail(s), s) /\ Tail(s) \in Seq(S)
<1>1. Len(s) \in Nat /\ Len(<<>>) = 0
  BY LenProperties, EmptySeq
<1>2. SuffixOf(s, s)
  <2>1. 0 \in 0..Len(s) /\ Len(s) = Len(s) - 0 /\ \A i \in 1..Len(s) : s[i] = s[i + 0]
    BY <1>1
  <2> QED
    BY <2>1 DEF SuffixOf
<1>3. SuffixOf(<<>>, s)
  <2>1. Len(s) \in 0..Len(s) /\ Len(<<>>) = Len(s) - Len(s)
        /\ \A i \in 1..Len(<<>>) : <<>>[i] = s[i + Len(s)]
    BY <1>1
  <2> QED
    BY <2>1 DEF SuffixOf
<1>4. ASSUME s # <<>> PROVE SuffixOf(Tail(s), s) /\ Tail(s) \in Seq(S)
  <2>1. /\ Tail(s) \in Seq(S) /\ Len(Tail(s)) = Len(s) - 1
        /\ \A i \in 1..Len(Tail(s)) : Tail(s)[i] = s[i + 1]
        /\ Len(s) # 0
    BY <1>4, HeadTailProperties, EmptySeq
  <2>2. 1 \in 0..Len(s)
    BY <1>1, <2>1
  <2> QED
    BY <2>1, <2>2 DEF SuffixOf
<1> QED
  BY <1>2, <1>3, <1>4

LEMMA EmptyFacts ==
  Rising(<<>>) /\ (\A m : ~Has(m, <<>>)) /\ \A s : Rising(s) => Ordered(<<>>, s) /\ Ordered(s, <<>>)
<1>1. Len(<<>>) = 0
  BY EmptySeq
<1>2. Rising(<<>>) /\ \A m : ~Has(m, <<>>)
  BY <1>1 DEF Rising, Has
<1> QED
  BY <1>2 DEF Ordered

LEMMA AppendFacts ==
  ASSUME NEW S, NEW s \in Seq(S), NEW x \in S
  PROVE  /\ Append(s, x) \in Seq(S) /\ Len(Append(s, x)) = Len(s) + 1
         /\ \A m : Has(m, Append(s, x)) <=> Has(m, s) \/ m = x
         /\ Rising(s) /\ (x \in Data => \A m \in Data : Has(m, s) => m < x)
              => Rising(Append(s, x))
<1> DEFINE a == Append(s, x)
<1>1. /\ Len(s) \in Nat /\ Len(a) = Len(s) + 1 /\ a[Len(s) + 1] = x
      /\ \A i \in 1..Len(s) : a[i] = s[i]
      /\ a \in Seq(S)
  BY AppendProperties, LenProperties
<1> HIDE DEF a
<1>2. \A i \in 1..Len(a) : i = Len(s) + 1 \/ i \in 1..Len(s)
  BY <1>1
<1>3. Len(s) + 1 \in 1..Len(a) /\ \A i \in 1..Len(s) : i \in 1..Len(a)
  BY <1>1
<1>4. \A m : Has(m, a) <=> Has(m, s) \/ m = x
  BY <1>1, <1>2, <1>3 DEF Has
<1>5. ASSUME Rising(s), x \in Data => \A m \in Data : Has(m, s) => m < x
      PROVE  Rising(a)
  <2> SUFFICES ASSUME NEW i \in 1..Len(a), NEW j \in 1..Len(a), i < j,
                      a[i] \in Data, a[j] \in Data
               PROVE  a[i] < a[j]
    BY DEF Rising
  <2>1. i \in 1..Len(s)
    BY <1>1, <1>2
  <2>2. a[i] = s[i] /\ Has(a[i], s)
    BY <2>1, <1>1 DEF Has
  <2>3. CASE j = Len(s) + 1
    BY <2>2, <2>3, <1>1, <1>5
  <2>4. CASE j \in 1..Len(s)
    BY <2>1, <2>2, <2>4, <1>1, <1>5 DEF Rising
  <2> QED
    BY <2>3, <2>4, <1>2
<1> QED
  BY <1>1, <1>4, <1>5 DEF a

LEMMA HeadFacts ==
  ASSUME NEW S, NEW s \in Seq(S), s # <<>>
  PROVE  /\ Head(s) \in S /\ Tail(s) \in Seq(S)
         /\ \A m : Has(m, s) <=> m = Head(s) \/ Has(m, Tail(s))
         /\ Rising(s) =>
              /\ Rising(Tail(s))
              /\ Head(s) \in Data => \A m \in Data : Has(m, Tail(s)) => Head(s) < m
<1>1. /\ Head(s) \in S /\ Head(s) = s[1] /\ Tail(s) \in Seq(S)
      /\ Len(Tail(s)) = Len(s) - 1 /\ Len(s) # 0 /\ Len(s) \in Nat
      /\ \A i \in 1..Len(Tail(s)) : Tail(s)[i] = s[i + 1]
  BY HeadTailProperties, EmptySeq, LenProperties
<1>2. /\ 1 \in 1..Len(s)
      /\ \A i \in 1..Len(Tail(s)) : i + 1 \in 1..Len(s) /\ 1 < i + 1
      /\ \A i \in 1..Len(s) : i = 1 \/ (i - 1 \in 1..Len(Tail(s)) /\ (i - 1) + 1 = i)
  BY <1>1
<1>3. \A m : Has(m, s) <=> m = Head(s) \/ Has(m, Tail(s))
  <2> SUFFICES ASSUME NEW m PROVE Has(m, s) <=> m = Head(s) \/ Has(m, Tail(s))
    OBVIOUS
  <2>1. ASSUME Has(m, s) PROVE m = Head(s) \/ Has(m, Tail(s))
    <3>1. PICK i \in 1..Len(s) : s[i] = m
      BY <2>1 DEF Has
    <3>2. CASE i = 1
      BY <3>1, <3>2, <1>1
    <3>3. CASE i # 1
      <4>1. i - 1 \in 1..Len(Tail(s)) /\ (i - 1) + 1 = i
        BY <3>3, <1>2
      <4>2. Tail(s)[i - 1] = m
        BY <4>1, <3>1, <1>1
      <4> QED
        BY <4>1, <4>2 DEF Has
    <3> QED
      BY <3>2, <3>3
  <2>2. ASSUME m = Head(s) \/ Has(m, Tail(s)) PROVE Has(m, s)
    BY <2>2, <1>1, <1>2 DEF Has
  <2> QED
    BY <2>1, <2>2
<1>4. ASSUME Rising(s), Head(s) \in Data, NEW m \in Data, Has(m, Tail(s))
      PROVE  Head(s) < m
  BY <1>4, <1>1, <1>2 DEF Rising, Has
<1>5. Rising(s) => Rising(Tail(s))
  BY SuffixCases, SuffixFacts
<1> QED
  BY <1>1, <1>3, <1>4, <1>5

LEMMA ConcatRising ==
  ASSUME NEW S, NEW s \in Seq(S), NEW t \in Seq(S)
  PROVE  /\ s \o t \in Seq(S)
         /\ \A m : Has(m, s \o t) <=> Has(m, s) \/ Has(m, t)
         /\ Ordered(s, t) => Rising(s \o t)
<1> DEFINE z == s \o t
<1>1. /\ Len(s) \in Nat /\ Len(t) \in Nat /\ z \in Seq(S) /\ Len(z) = Len(s) + Len(t)
      /\ \A i \in 1..(Len(s) + Len(t)) :
           z[i] = IF i <= Len(s) THEN s[i] ELSE t[i - Len(s)]
  BY ConcatProperties, LenProperties
<1> HIDE DEF z
<1>2. \A i \in 1..Len(s) : i \in 1..Len(z) /\ z[i] = s[i]
  BY <1>1
<1>3. \A i \in 1..Len(t) : i + Len(s) \in 1..Len(z) /\ z[i + Len(s)] = t[i]
  <2> SUFFICES ASSUME NEW i \in 1..Len(t)
               PROVE  i + Len(s) \in 1..Len(z) /\ z[i + Len(s)] = t[i]
    OBVIOUS
  <2>1. i + Len(s) \in 1..(Len(s) + Len(t)) /\ ~(i + Len(s) <= Len(s))
        /\ (i + Len(s)) - Len(s) = i
    BY <1>1
  <2> QED
    BY <2>1, <1>1
<1>4. \A i \in 1..Len(z) : \/ i \in 1..Len(s)
                           \/ i - Len(s) \in 1..Len(t) /\ z[i] = t[i - Len(s)]
  BY <1>1
<1>5. \A m : Has(m, z) <=> Has(m, s) \/ Has(m, t)
  BY <1>2, <1>3, <1>4 DEF Has
<1>6. ASSUME Ordered(s, t) PROVE Rising(z)
  <2> SUFFICES ASSUME NEW i \in 1..Len(z), NEW j \in 1..Len(z), i < j,
                      z[i] \in Data, z[j] \in Data
               PROVE  z[i] < z[j]
    BY DEF Rising
  <2>1. CASE j \in 1..Len(s)
    <3>1. i \in 1..Len(s)
      BY <2>1, <1>1
    <3> QED
      BY <2>1, <3>1, <1>2, <1>6 DEF Ordered, Rising
  <2>2. CASE i \in 1..Len(s) /\ j \notin 1..Len(s)
    <3>1. Has(z[i], s) /\ Has(z[j], t)
      BY <2>2, <1>2, <1>4 DEF Has
    <3> QED
      BY <3>1, <1>6 DEF Ordered
  <2>3. CASE i \notin 1..Len(s) /\ j \notin 1..Len(s)
    <3>1. /\ i - Len(s) \in 1..Len(t) /\ j - Len(s) \in 1..Len(t)
          /\ i - Len(s) < j - Len(s)
          /\ z[i] = t[i - Len(s)] /\ z[j] = t[j - Len(s)]
      BY <2>3, <1>1, <1>4
    <3> QED
      BY <3>1, <1>6 DEF Ordered, Rising
  <2> QED
    BY <2>1, <2>2, <2>3
<1> QED
  BY <1>1, <1>5, <1>6 DEF z

-----------------------------------------------------------------------------
(* Sessions.                                                               *)

LEMMA ConstantFacts ==
  /\ MaxMsgs \in Nat /\ MaxExits \in Nat /\ MaxErrs \in Nat
  /\ Auth \in Lines /\ Pong \in Lines /\ Data \subseteq Lines
  /\ Auth \notin Data /\ Pong \notin Data /\ Pong # Auth /\ Data \subseteq Nat
  /\ None \notin Conns /\ None \notin SessionType(Lines)
<1>1. MaxMsgs \in Nat /\ MaxExits \in Nat /\ MaxErrs \in Nat
  BY LocalsAssumption
<1>2. /\ Auth \in Lines /\ Pong \in Lines /\ Data \subseteq Lines
      /\ Auth \notin Data /\ Pong \notin Data /\ Pong # Auth /\ Data \subseteq Nat
  BY <1>1 DEF Auth, Pong, Lines, Data
<1> QED
  BY <1>1, <1>2, LocalsAssumption

\* No application message is in s.
Silent(s) == \A m \in Data : ~Has(m, s)

LEMMA UnsentFacts ==
  ASSUME NEW s \in SessionType(Lines)
  PROVE  /\ s.q \in Seq(Lines) /\ Unsent(s) \in Seq(Lines)
         /\ SuffixOf(Unsent(s), s.q)
         /\ Rising(s.q) => Rising(Unsent(s))
         /\ \A m : Has(m, Unsent(s)) => Has(m, s.q)
<1>1. s.q \in Seq(Lines)
  BY DEF SessionType
<1>2. Unsent(s) \in Seq(Lines) /\ SuffixOf(Unsent(s), s.q)
  BY <1>1, SuffixCases DEF Unsent
<1> QED
  BY <1>1, <1>2, SuffixFacts

LEMMA NewSessionOK ==
  ASSUME NEW d \in Directions
  PROVE  LET s == NewSession(d)
         IN  /\ SessOK(s) /\ ~s.auth /\ ~s.stopped /\ s.q = <<>> /\ s.wr = "none"
             /\ s.sock = IF d = "incoming" THEN "open" ELSE "connecting"
             /\ s # None
<1>1. <<>> \in Seq(Lines) /\ Len(<<>>) = 0
  BY EmptySeq
<1>2. NewSession(d) \in SessionType(Lines)
  BY <1>1 DEF SessionType, NewSession, Directions
<1>3. /\ ~NewSession(d).auth /\ ~NewSession(d).stopped /\ NewSession(d).q = <<>>
      /\ NewSession(d).wr = "none" /\ NewSession(d).rd = "off"
      /\ NewSession(d).sock = IF d = "incoming" THEN "open" ELSE "connecting"
  BY DEF NewSession
<1>4. SessOK(NewSession(d))
  BY <1>1, <1>2, <1>3 DEF SessOK
<1> QED
  BY <1>2, <1>3, <1>4, ConstantFacts

\* A queue with the auth message alone.
LEMMA OneAuth ==
  ASSUME NEW q \in Seq(Lines), Len(q) <= 1, \A i \in 1..Len(q) : q[i] = Auth
  PROVE  Silent(q) /\ Rising(q)
<1>1. Len(q) \in Nat
  BY LenProperties
<1> QED
  BY <1>1, ConstantFacts DEF Silent, Has, Rising

\* start() on a session that has just got its connection.
LEMMA StartOK ==
  ASSUME NEW s, SessOK(s), s.sock = "open", ~s.auth, ~s.stopped, s.q = <<>>
  PROVE  LET t == Start(s, Auth)
         IN  /\ SessOK(t) /\ ~t.auth /\ t.sock = "open" /\ t # None
             /\ Silent(t.q) /\ Rising(t.q)
<1> DEFINE t == Start(s, Auth)
<1>1. s \in SessionType(Lines) /\ Auth \in Lines
  BY ConstantFacts DEF SessOK
<1>2. /\ t \in SessionType(Lines)
      /\ \A f \in {"dir", "sock", "bye", "auth", "closeFlag", "stopped",
                   "nullDeref"} : t[f] = s[f]
      /\ t.q = Append(s.q, Auth)
      /\ t.wr = "started"
  BY <1>1, StartFacts
<1> HIDE DEF t
<1>3. t.q \in Seq(Lines) /\ Len(t.q) = 1 /\ t.q # <<>> /\ \A i \in 1..Len(t.q) : t.q[i] = Auth
  <2>1. /\ s.q \in Seq(Lines) /\ Len(<<>>) = 0
        /\ Len(Append(s.q, Auth)) = Len(s.q) + 1
        /\ Append(s.q, Auth)[Len(s.q) + 1] = Auth
        /\ Append(s.q, Auth) \in Seq(Lines)
    BY <1>1, AppendProperties, EmptySeq DEF SessionType
  <2>2. t.q \in Seq(Lines) /\ Len(t.q) = 1 /\ t.q[1] = Auth
    BY <2>1, <1>2
  <2>3. Len(t.q) # Len(<<>>)
    BY <2>1, <2>2
  <2>4. t.q # <<>>
    BY <2>3, Zenon
  <2> QED
    BY <2>2, <2>4
<1>4. SessOK(t)
  BY <1>2, <1>3 DEF SessOK
<1>5. Silent(t.q) /\ Rising(t.q)
  <2>1. t.q \in Seq(Lines) /\ Len(t.q) <= 1 /\ \A i \in 1..Len(t.q) : t.q[i] = Auth
    BY <1>3
  <2> QED
    BY ONLY <2>1, OneAuth
<1>6. t # None /\ ~t.auth /\ t.sock = "open"
  BY <1>2, ConstantFacts
<1> QED
  BY <1>4, <1>5, <1>6 DEF t

LEMMA OpenOK ==
  ASSUME NEW s, SessOK(s), s.sock = "connecting"
  PROVE  LET t == [s EXCEPT !.sock = "open"]
         IN  SessOK(t) /\ t.sock = "open" /\ ~t.auth /\ ~t.stopped /\ t.q = <<>>
  BY DEF SessOK, SessionType

\* What the handlers that neither authenticate nor queue do to a session.
Goes(s, t) ==
  /\ SessOK(t) /\ t.auth = s.auth /\ t.sock # "connecting" /\ t # None
  /\ SuffixOf(t.q, s.q) /\ SuffixOf(Unsent(t), Unsent(s))

\* stop(), called by the handlers of failed operations.
LEMMA StopOK ==
  ASSUME NEW s, SessOK(s), s.sock # "connecting", NEW b \in BOOLEAN,
         NEW x, \/ s.wr = "started" /\ x = [s EXCEPT !.wr = "none"]
                \/ x = [s EXCEPT !.rd = "off"],
         NEW t \in Stop(x, IF b THEN {"late"} ELSE {})
  PROVE  Goes(s, t)
<1>1. /\ x \in SessionType(Lines) /\ x.auth = s.auth /\ x.q = s.q /\ x.sock = s.sock
      /\ x.wr # "none" => x.wr = s.wr
      /\ x.wr = "none" => s.wr # "sent"
  BY DEF SessOK, SessionType
<1>2. t \in Stop(x, {"late"})
  BY DEF Stop
<1>3. /\ t \in SessionType(Lines)
      /\ \A f \in {"dir", "q", "wr", "bye", "auth", "nullDeref"} : t[f] = x[f]
      /\ t.stopped
      /\ x.stopped => t = x
      /\ ~x.stopped => t.sock = "closed"
  BY <1>1, <1>2, StopFacts
<1>4. SessOK(t) /\ t.auth = s.auth /\ t.sock # "connecting"
  BY <1>1, <1>3 DEF SessOK
<1>5. t.q = s.q /\ Unsent(t) = Unsent(s)
  BY <1>1, <1>3 DEF Unsent
<1>6. s \in SessionType(Lines)
  BY DEF SessOK
<1>7. SuffixOf(t.q, s.q) /\ SuffixOf(Unsent(t), Unsent(s))
  BY <1>5, <1>6, UnsentFacts, SuffixCases
<1> QED
  BY <1>3, <1>4, <1>7, ConstantFacts DEF Goes

LEMMA TransmittedOK ==
  ASSUME NEW s, SessOK(s), s.wr = "started"
  PROVE  LET t == Transmitted(s)
         IN  /\ Goes(s, t) /\ t.q = s.q
             /\ Unsent(s) = s.q /\ (s.q # <<>> => Unsent(t) = Tail(s.q))
<1> DEFINE t == Transmitted(s)
<1>1. s \in SessionType(Lines) /\ s.sock # "connecting"
  BY DEF SessOK
<1>2. /\ t \in SessionType(Lines) /\ t.wr = "sent" /\ t.q = s.q
      /\ t.auth = s.auth /\ t.sock = s.sock /\ t.stopped = s.stopped
  BY <1>1 DEF Transmitted, SessionType
<1> HIDE DEF t
<1>3. SessOK(t)
  BY <1>1, <1>2 DEF SessOK
<1>4. Unsent(s) = s.q /\ (s.q # <<>> => Unsent(t) = Tail(s.q)) /\ (s.q = <<>> => Unsent(t) = s.q)
  BY <1>2 DEF Unsent
<1>5. SuffixOf(t.q, s.q) /\ SuffixOf(Unsent(t), Unsent(s))
  BY <1>1, <1>2, <1>4, UnsentFacts, SuffixCases
<1> QED
  BY <1>1, <1>2, <1>3, <1>4, <1>5, ConstantFacts DEF Goes, t

LEMMA WriteDoneOK ==
  ASSUME NEW s, SessOK(s), s.wr = "sent", s.q # <<>>, NEW t \in WriteDone(s)
  PROVE  Goes(s, t)
<1>1. /\ s \in SessionType(Lines) /\ s.sock # "connecting"
      /\ s.auth \/ Len(s.q) <= 1
  BY DEF SessOK
<1>2. /\ t \in SessionType(Lines)
      /\ \A f \in {"dir", "sock", "auth", "closeFlag", "stopped", "rd",
                   "nullDeref"} : t[f] = s[f]
      /\ \E k \in 1..Len(s.q) :
           /\ Len(t.q) = Len(s.q) - k
           /\ \A i \in 1..Len(t.q) : t.q[i] = s.q[i + k]
      /\ t.wr = "none"
  BY <1>1, WriteDoneFacts
<1>3. /\ s.q \in Seq(Lines) /\ t.q \in Seq(Lines)
      /\ Len(s.q) \in Nat \ {0} /\ Len(t.q) \in Nat
      /\ Len(Tail(s.q)) = Len(s.q) - 1
      /\ \A i \in 1..Len(Tail(s.q)) : Tail(s.q)[i] = s.q[i + 1]
  BY <1>1, <1>2, HeadTailProperties, EmptySeq, LenProperties DEF SessionType
<1>4. PICK k \in 1..Len(s.q) :
        /\ Len(t.q) = Len(s.q) - k
        /\ \A i \in 1..Len(t.q) : t.q[i] = s.q[i + k]
  BY <1>2
<1>5. SuffixOf(t.q, Tail(s.q))
  <2>1. k - 1 \in 0..Len(Tail(s.q)) /\ Len(t.q) = Len(Tail(s.q)) - (k - 1)
    BY <1>3, <1>4
  <2>2. ASSUME NEW i \in 1..Len(t.q)
        PROVE  t.q[i] = Tail(s.q)[i + (k - 1)]
    <3>1. i + (k - 1) \in 1..Len(Tail(s.q)) /\ (i + (k - 1)) + 1 = i + k
      BY <1>3, <1>4
    <3> QED
      BY <3>1, <1>3, <1>4
  <2> QED
    BY <2>1, <2>2 DEF SuffixOf
<1>6. SuffixOf(t.q, s.q)
  <2>1. k \in 0..Len(s.q)
    BY <1>3
  <2> QED
    BY <2>1, <1>4 DEF SuffixOf
<1>7. SessOK(t)
  <2>1. \A i \in 1..Len(t.q) : t.q[i] # Auth
    <3> SUFFICES ASSUME NEW i \in 1..Len(t.q), t.q[i] = Auth PROVE FALSE
      OBVIOUS
    <3>1. i + k \in 1..Len(s.q) /\ i + k # 1
      BY <1>3, <1>4
    <3>2. s.q[i + k] = Auth
      BY <1>4
    <3> QED
      BY <3>1, <3>2 DEF SessOK
  <2>2. ~s.auth => Len(t.q) = 0
    BY <1>1, <1>3, <1>4
  <2> QED
    BY <2>1, <2>2, <1>1, <1>2 DEF SessOK
<1>8. Unsent(t) = t.q /\ Unsent(s) = Tail(s.q)
  BY <1>2 DEF Unsent
<1> QED
  BY <1>1, <1>2, <1>5, <1>6, <1>7, <1>8, ConstantFacts DEF Goes

LEMMA LineDoneOK ==
  ASSUME NEW s, SessOK(s), s.sock # "connecting", NEW t \in LineDone(s)
  PROVE  Goes(s, t) /\ t.q = s.q /\ Unsent(t) = Unsent(s)
<1>1. s \in SessionType(Lines)
  BY DEF SessOK
<1>2. /\ t \in SessionType(Lines)
      /\ \A f \in {"dir", "sock", "q", "wr", "bye", "auth", "closeFlag",
                   "stopped", "nullDeref"} : t[f] = s[f]
  BY <1>1, LineDoneFacts
<1>3. SessOK(t) /\ Unsent(t) = Unsent(s)
  BY <1>2 DEF SessOK, Unsent
<1>4. SuffixOf(t.q, s.q) /\ SuffixOf(Unsent(t), Unsent(s))
  BY <1>1, <1>2, <1>3, UnsentFacts, SuffixCases
<1> QED
  BY <1>2, <1>3, <1>4, ConstantFacts DEF Goes

\* putOutQueue() on an authenticated session.
LEMMA PutOutQueueOK ==
  ASSUME NEW s, SessOK(s), s.auth, NEW m \in Lines, m # Auth
  PROVE  LET t == PutOutQueue(s, m)
         IN  /\ SessOK(t) /\ t.auth /\ t.sock = s.sock /\ t # None
             /\ t.q = Append(s.q, m) /\ Unsent(t) = Append(Unsent(s), m)
<1> DEFINE t == PutOutQueue(s, m)
<1>1. s \in SessionType(Lines) /\ s.q \in Seq(Lines) /\ s.sock # "connecting"
  BY DEF SessOK, SessionType
<1>2. /\ t \in SessionType(Lines)
      /\ \A f \in {"dir", "sock", "bye", "auth", "closeFlag", "stopped", "rd",
                   "nullDeref"} : t[f] = s[f]
      /\ t.q = Append(s.q, m)
      /\ t.wr = IF s.q = <<>> THEN "started" ELSE s.wr
  BY <1>1, PutOutQueueFacts
<1> HIDE DEF t
<1>3. /\ Len(t.q) = Len(s.q) + 1 /\ Len(s.q) \in Nat /\ t.q[Len(s.q) + 1] = m
      /\ \A i \in 1..Len(s.q) : t.q[i] = s.q[i]
  BY <1>1, <1>2, AppendProperties, LenProperties
<1>4. \A i \in 1..Len(t.q) : t.q[i] = Auth => i = 1 /\ (t.wr # "none" \/ t.stopped)
  <2> SUFFICES ASSUME NEW i \in 1..Len(t.q), t.q[i] = Auth
               PROVE  i = 1 /\ (t.wr # "none" \/ t.stopped)
    OBVIOUS
  <2>1. i \in 1..Len(s.q)
    BY <1>3
  <2>2. i = 1 /\ (s.wr # "none" \/ s.stopped)
    BY <2>1, <1>3 DEF SessOK
  <2> QED
    BY <2>2, <1>2
<1>5. SessOK(t)
  BY <1>1, <1>2, <1>4 DEF SessOK
<1>6. t.q # <<>>
  <2>1. Len(t.q) # Len(<<>>)
    BY <1>3, EmptySeq
  <2> QED
    BY <2>1, Zenon
<1>7. Unsent(t) = Append(Unsent(s), m)
  <2>1. CASE s.wr = "sent" /\ s.q # <<>>
    <3>1. t.wr = "sent"
      BY <2>1, <1>2
    <3>2. Tail(Append(s.q, m)) = Append(Tail(s.q), m)
      BY <2>1, <1>1
    <3> QED
      BY <3>1, <3>2, <2>1, <1>2, <1>6 DEF Unsent
  <2>2. CASE s.wr # "sent"
    BY <2>2, <1>2 DEF Unsent
  <2>3. CASE s.q = <<>>
    BY <2>3, <1>2 DEF Unsent
  <2> QED
    BY <2>1, <2>2, <2>3
<1> QED
  BY <1>2, <1>5, <1>7, ConstantFacts DEF t

LEMMA AuthOK ==
  ASSUME NEW s, SessOK(s), s.sock # "connecting"
  PROVE  LET t == [s EXCEPT !.auth = TRUE]
         IN  /\ SessOK(t) /\ t.auth /\ t.sock = s.sock /\ t.q = s.q
             /\ Unsent(t) = Unsent(s) /\ t.wr = s.wr /\ t # None
<1>1. [s EXCEPT !.auth = TRUE] \in SessionType(Lines)
  BY DEF SessOK, SessionType
<1> QED
  BY <1>1, ConstantFacts DEF SessOK, SessionType, Unsent

\* takeOverMessages() by a session that has just been authenticated.
LEMMA TakeOverOK ==
  ASSUME NEW s, SessOK(s), s.auth, s.sock # "connecting",
         Len(s.q) <= 1, \A i \in 1..Len(s.q) : s.q[i] = Auth,
         s.wr # "none" => s.q # <<>>,
         NEW oq \in Seq(Lines), ~Has(Auth, oq), Rising(oq),
         NEW t \in TakeOverMessages(s, oq)
  PROVE  /\ SessOK(t) /\ t.auth /\ t.sock # "connecting"
         /\ Rising(t.q) /\ \A m \in Data : Has(m, t.q) => Has(m, oq)
<1>1. s \in SessionType(Lines) /\ s.q \in Seq(Lines) /\ Silent(s.q) /\ Rising(s.q)
  BY OneAuth DEF SessOK, SessionType
<1>2. CASE oq # <<>> /\ s.q = <<>>
  <2> DEFINE x == [s EXCEPT !.q = oq]
  <2>1. x \in SessionType(Lines) /\ x.auth /\ x.wr = "none" /\ x.q = oq /\ x.sock = s.sock
    BY <1>1, <1>2 DEF SessionType
  <2>2. t \in DoWrite(x)
    BY <1>2 DEF TakeOverMessages
  <2> HIDE DEF x
  <2>3. /\ t \in SessionType(Lines)
        /\ \A f \in {"dir", "sock", "bye", "auth", "closeFlag", "stopped",
                     "rd", "nullDeref"} : t[f] = x[f]
        /\ \E k \in 0..Len(x.q) :
             /\ Len(t.q) = Len(x.q) - k
             /\ \A i \in 1..Len(t.q) : t.q[i] = x.q[i + k]
    BY <2>1, <2>2, DoWriteFacts
  <2>4. SuffixOf(t.q, oq) /\ t.q \in Seq(Lines)
    BY <2>1, <2>3 DEF SuffixOf, SessionType
  <2>5. Rising(t.q) /\ \A m : Has(m, t.q) => Has(m, oq)
    BY <2>4, SuffixFacts
  <2>6. \A i \in 1..Len(t.q) : t.q[i] # Auth
    BY <2>5 DEF Has
  <2> QED
    BY <2>1, <2>3, <2>5, <2>6 DEF SessOK
<1>3. CASE ~(oq # <<>> /\ s.q = <<>>)
  <2>1. t = [s EXCEPT !.q = s.q \o oq]
    BY <1>3 DEF TakeOverMessages
  <2>2. /\ s.q \o oq \in Seq(Lines)
        /\ \A m : Has(m, s.q \o oq) <=> Has(m, s.q) \/ Has(m, oq)
        /\ Ordered(s.q, oq) => Rising(s.q \o oq)
    BY <1>1, ConcatRising
  <2>3. /\ t \in SessionType(Lines) /\ t.q = s.q \o oq
        /\ t.auth = s.auth /\ t.sock = s.sock /\ t.wr = s.wr /\ t.stopped = s.stopped
    BY <2>1, <2>2, <1>1 DEF SessionType
  <2>4. Rising(t.q) /\ \A m \in Data : Has(m, t.q) => Has(m, oq)
    BY <2>2, <2>3, <1>1 DEF Ordered, Silent
  <2>5. /\ Len(s.q) \in Nat /\ Len(oq) \in Nat /\ Len(t.q) = Len(s.q) + Len(oq)
        /\ \A i \in 1..Len(t.q) : i <= Len(s.q) => t.q[i] = s.q[i]
        /\ \A i \in 1..Len(t.q) : i > Len(s.q) =>
             i - Len(s.q) \in 1..Len(oq) /\ t.q[i] = oq[i - Len(s.q)]
    BY <1>1, <2>3, ConcatProperties, LenProperties
  <2>6. ASSUME NEW i \in 1..Len(t.q), t.q[i] = Auth
        PROVE  i = 1 /\ (t.wr # "none" \/ t.stopped)
    <3>1. i <= Len(s.q)
      BY <2>5, <2>6 DEF Has
    <3>2. s.q[i] = Auth /\ i \in 1..Len(s.q)
      BY <3>1, <2>5, <2>6
    <3> QED
      BY <3>2, <2>3 DEF SessOK
  <2> QED
    BY <2>3, <2>4, <2>6 DEF SessOK
<1> QED
  BY <1>2, <1>3

-----------------------------------------------------------------------------
(* Steps.                                                                  *)

SessType == [Conns -> SessionType(Lines) \cup {None}]
WireType == [Procs -> [Conns -> Seq(Lines)]]
SrvType ==
  [is : {"up", "down", "hung", "undefined"}, local : Conns \cup {None},
   exits : 0..MaxExits]
AppType ==
  [up : BOOLEAN, resolves : Nat, waits : Nat, local : Conns \cup {None},
   got : Seq(Data), nullSend : BOOLEAN, errs : 0..MaxErrs]

LEMMA TypeFacts ==
  TypeOK <=> /\ sess \in [Procs -> SessType] /\ wire \in WireType
             /\ gone \in [Procs -> SUBSET Conns] /\ backlog \subseteq Conns
             /\ srv \in SrvType /\ app \in AppType
             /\ next \in 1..(MaxMsgs + 1) /\ seen \in [Data -> Nat] /\ raced \in BOOLEAN
  BY DEF TypeOK, SessType, WireType, SrvType, AppType

\* What is on its way by connection c moves on or is dropped.
Flows(c) ==
  /\ Ordered(wire["app"][c], UnsentAt(c)) => Ordered(wire'["app"][c], UnsentAt(c)')
  /\ Rising(QueueAt(c)) => Rising(QueueAt(c)')
  /\ \A m \in Data : /\ InPipe(m, c)' => InPipe(m, c)
                     /\ Has(m, QueueAt(c)') => Has(m, QueueAt(c))

LEMMA PipeStep ==
  ASSUME NEW c \in Conns, PipeOK(c), Flows(c), Waiting(c)' => Waiting(c),
         \A m \in Data : m < next => m < next',
         app'.got = app.got \/ app'.got = <<>>,
         Exists("app", c)' => Exists("app", c) \/ app'.got = <<>>
  PROVE  PipeOK(c)'
<1>1. Ordered(wire'["app"][c], UnsentAt(c)') /\ Rising(QueueAt(c)')
  BY DEF PipeOK, Flows
<1>2. \A m \in Data : (InPipe(m, c)' => InPipe(m, c)) /\ (Has(m, QueueAt(c)') => Has(m, QueueAt(c)))
  BY DEF Flows
<1>3. \A m \in Data : InPipe(m, c)' \/ Has(m, QueueAt(c)') => m < next'
  BY <1>2 DEF PipeOK
<1>4. ASSUME Exists("app", c)', NEW m \in Data, NEW k \in Data,
             InPipe(m, c)', Has(k, app'.got)
      PROVE  k < m
  <2>1. app'.got = app.got /\ Exists("app", c)
    BY <1>4, EmptyFacts
  <2> QED
    BY <1>2, <1>4, <2>1 DEF PipeOK
<1>5. ASSUME Waiting(c)'
      PROVE  /\ \A m \in Data : ~InPipe(m, c)' /\ ~Has(m, QueueAt(c)')
             /\ Exists("app", c)' => app'.got = <<>>
  <2>1. /\ \A m \in Data : ~InPipe(m, c) /\ ~Has(m, QueueAt(c))
        /\ Exists("app", c) => app.got = <<>>
    BY <1>5 DEF PipeOK
  <2> QED
    BY <1>2, <2>1
<1> QED
  BY <1>1, <1>3, <1>4, <1>5 DEF PipeOK

LEMMA StreamStep ==
  ASSUME StreamOK, OnceOK, next' = next, seen' = seen, raced' = raced,
         \A c \in Conns : Flows(c) /\ (Waiting(c)' => Waiting(c)),
         app'.got = app.got \/ app'.got = <<>>,
         \A c \in Conns : Exists("app", c)' => Exists("app", c) \/ app'.got = <<>>,
         app'.resolves > 0 \/ app'.waits > 0 => app'.got = <<>>
  PROVE  StreamOK' /\ OnceOK'
<1>1. Rising(app'.got) /\ \A m \in Data : Has(m, app'.got) => m < next'
  BY EmptyFacts DEF StreamOK
<1>2. ASSUME NEW c \in Conns PROVE PipeOK(c)'
  BY PipeStep DEF StreamOK
<1>3. StreamOK'
  BY <1>1, <1>2 DEF StreamOK
<1>4. OnceOK'
  BY DEF OnceOK, Flows
<1> QED
  BY <1>3, <1>4

LEMMA SuffixFlows ==
  ASSUME NEW c \in Conns, NEW w \in Seq(Lines), NEW u \in Seq(Lines), NEW q \in Seq(Lines),
         wire["app"][c] \in Seq(Lines), UnsentAt(c) \in Seq(Lines), QueueAt(c) \in Seq(Lines),
         wire'["app"][c] = w, UnsentAt(c)' = u, QueueAt(c)' = q,
         SuffixOf(w, wire["app"][c]), SuffixOf(u, UnsentAt(c)), SuffixOf(q, QueueAt(c))
  PROVE  Flows(c)
<1>1. /\ Rising(wire["app"][c]) => Rising(w)
      /\ \A m : Has(m, w) => Has(m, wire["app"][c])
  BY SuffixFacts
<1>2. /\ Rising(UnsentAt(c)) => Rising(u)
      /\ \A m : Has(m, u) => Has(m, UnsentAt(c))
  BY SuffixFacts
<1>3. /\ Rising(QueueAt(c)) => Rising(q)
      /\ \A m : Has(m, q) => Has(m, QueueAt(c))
  BY SuffixFacts
<1>4. Ordered(wire["app"][c], UnsentAt(c)) => Ordered(w, u)
  BY <1>1, <1>2 DEF Ordered
<1>5. \A m : InPipe(m, c)' => InPipe(m, c)
  BY <1>1, <1>2 DEF InPipe
<1> QED
  BY <1>3, <1>4, <1>5 DEF Flows

LEMMA PipeTypes ==
  ASSUME TypeOK, NEW c \in Conns
  PROVE  /\ wire["app"][c] \in Seq(Lines) /\ wire["srv"][c] \in Seq(Lines)
         /\ UnsentAt(c) \in Seq(Lines) /\ QueueAt(c) \in Seq(Lines)
<1>1. "app" \in Procs /\ "srv" \in Procs
  BY DEF Procs
<1>2. sess["srv"][c] # None => sess["srv"][c] \in SessionType(Lines)
  BY <1>1, TypeFacts DEF SessType
<1>3. UnsentAt(c) \in Seq(Lines) /\ QueueAt(c) \in Seq(Lines)
  BY <1>2, UnsentFacts, EmptySeq DEF UnsentAt, QueueAt
<1> QED
  BY <1>1, <1>3, TypeFacts DEF WireType

LEMMA BecomesFacts ==
  ASSUME TypeOK, NEW p \in Procs, NEW c \in Conns, NEW S \in SessType, NEW w \in WireType,
         Becomes(p, c, S, w)
  PROVE  /\ sess' \in [Procs -> SessType] /\ wire' \in WireType
         /\ sess'[p] = S /\ \A r \in Procs \ {p} : sess'[r] = sess[r]
         /\ \A r \in Procs, d \in Conns : wire'[r][d] = w[r][d] \/ wire'[r][d] = <<>>
<1>1. sess \in [Procs -> SessType] /\ sess' = [sess EXCEPT ![p] = S]
  BY TypeFacts DEF Becomes
<1>2. <<>> \in Seq(Lines)
  BY EmptySeq
<1>3. wire' = w \/ wire' = [w EXCEPT ![p][c] = <<>>]
  BY DEF Becomes
<1> DEFINE v == [w[p] EXCEPT ![c] = <<>>]
<1>4. wire' = w \/ wire' = [w EXCEPT ![p] = v]
  BY <1>3
<1>5. w[p] \in [Conns -> Seq(Lines)] /\ w \in [Procs -> [Conns -> Seq(Lines)]]
  BY DEF WireType
<1>6. v \in [Conns -> Seq(Lines)] /\ \A d \in Conns : v[d] = w[p][d] \/ v[d] = <<>>
  BY <1>2, <1>5
<1> HIDE DEF v
<1>7. wire' \in WireType
  BY <1>4, <1>5, <1>6 DEF WireType
<1>8. \A r \in Procs, d \in Conns : wire'[r][d] = w[r][d] \/ wire'[r][d] = <<>>
  BY <1>4, <1>5, <1>6
<1> QED
  BY <1>1, <1>7, <1>8

\* Sessions neither appear nor go, and at most become authenticated.
Still ==
  /\ sess' \in [Procs -> SessType] /\ wire' \in WireType /\ SessionsOK'
  /\ \A r \in Procs, d \in Conns :
       /\ Exists(r, d)' <=> Exists(r, d)
       /\ Exists(r, d) =>
            /\ sess[r][d].auth => sess'[r][d].auth
            /\ sess'[r][d].sock = "connecting" <=> sess[r][d].sock = "connecting"

LEMMA StillStep ==
  ASSUME ControlOK, Still, gone' = gone, backlog' = backlog, app' \in AppType,
         app'.up = app.up, app'.resolves = app.resolves, app'.waits = app.waits,
         ~app'.nullSend,
         \A d \in Conns : Exists("app", d) /\ sess'["app"][d].auth => app'.local # None,
         srv' \in SrvType,
         \/ srv'.local = srv.local
         \/ srv'.local \in Conns /\ Exists("srv", srv'.local) /\ sess'["srv"][srv'.local].auth,
         next' \in 1..(MaxMsgs + 1), seen' \in [Data -> Nat], raced' \in BOOLEAN
  PROVE  /\ ControlOK'
         /\ \A c \in Conns : /\ Exists("app", c)' => Exists("app", c)
                             /\ Waiting(c)' => Waiting(c)
<1>0. "app" \in Procs /\ "srv" \in Procs
  BY DEF Procs
<1>1. TypeOK'
  <2>1. gone \in [Procs -> SUBSET Conns] /\ backlog \subseteq Conns
    BY TypeFacts DEF ControlOK
  <2>2. /\ sess' \in [Procs -> SessType] /\ wire' \in WireType
        /\ gone' \in [Procs -> SUBSET Conns] /\ backlog' \subseteq Conns
        /\ srv' \in SrvType /\ app' \in AppType
        /\ next' \in 1..(MaxMsgs + 1) /\ seen' \in [Data -> Nat] /\ raced' \in BOOLEAN
    BY <2>1 DEF Still
  <2> QED
    BY <2>2 DEF TypeOK, SessType, WireType, SrvType, AppType
<1>2. \A c \in Conns :
        /\ Exists("app", c)' <=> Exists("app", c)
        /\ Exists("srv", c)' <=> Exists("srv", c)
        /\ Exists("srv", c) /\ sess["srv"][c].auth => sess'["srv"][c].auth
        /\ Connecting(c)' <=> Connecting(c)
  BY <1>0 DEF Still, Connecting
<1>3. \A c \in Conns : (Fresh(c)' <=> Fresh(c)) /\ (Waiting(c)' => Waiting(c))
  BY <1>2 DEF Fresh, Waiting
<1>4. ClientOK'
  BY <1>2 DEF ControlOK, ClientOK
<1>5. ServerOK'
  <2>1. srv.local # None => srv.local \in Conns
    BY TypeFacts DEF ControlOK, SrvType
  <2>2. \A c \in Conns : Fresh(c)' => ~Exists("srv", c)' /\ c \notin backlog'
    BY <1>2, <1>3 DEF ControlOK, ServerOK
  <2>3. \A c \in backlog' : ~Exists("srv", c)'
    BY <1>2, TypeFacts DEF ControlOK, ServerOK
  <2>4. srv'.local # None =>
          sess'["srv"][srv'.local] # None /\ sess'["srv"][srv'.local].auth
    <3>1. CASE srv'.local = srv.local
      BY <2>1, <3>1, <1>2 DEF ControlOK, ServerOK, Exists
    <3>2. CASE /\ srv'.local \in Conns /\ Exists("srv", srv'.local)
               /\ sess'["srv"][srv'.local].auth
      BY <3>2, <1>2 DEF Exists
    <3> QED
      BY <3>1, <3>2
  <2> QED
    BY <2>2, <2>3, <2>4 DEF ServerOK, Exists
<1> QED
  BY <1>1, <1>2, <1>3, <1>4, <1>5 DEF ControlOK, Still

LEMMA OneBecomes ==
  ASSUME TypeOK, NEW p \in Procs, NEW c \in Conns,
         NEW t \in SessionType(Lines) \cup {None}, NEW w \in WireType,
         Becomes(p, c, With(p, c, t), w)
  PROVE  /\ sess' \in [Procs -> SessType] /\ wire' \in WireType
         /\ sess'[p][c] = t
         /\ \A r \in Procs, d \in Conns : r # p \/ d # c => sess'[r][d] = sess[r][d]
         /\ \A r \in Procs, d \in Conns : wire'[r][d] = w[r][d] \/ wire'[r][d] = <<>>
<1> DEFINE S == With(p, c, t)
<1>1. sess[p] \in SessType
  BY TypeFacts
<1>2. S \in SessType /\ S[c] = t /\ \A d \in Conns \ {c} : S[d] = sess[p][d]
  <2> DEFINE T == SessionType(Lines) \cup {None}
  <2>1. sess[p] \in [Conns -> T] /\ t \in T
    BY <1>1 DEF SessType
  <2> HIDE DEF T
  <2>2. S \in [Conns -> T] /\ S[c] = t /\ \A d \in Conns \ {c} : S[d] = sess[p][d]
    BY <2>1 DEF With
  <2> QED
    BY <2>2 DEF SessType, T
<1> HIDE DEF S
<1>3. Becomes(p, c, S, w)
  BY DEF S
<1>4. /\ sess' \in [Procs -> SessType] /\ wire' \in WireType
      /\ sess'[p] = S /\ \A r \in Procs \ {p} : sess'[r] = sess[r]
      /\ \A r \in Procs, d \in Conns : wire'[r][d] = w[r][d] \/ wire'[r][d] = <<>>
  BY <1>2, <1>3, BecomesFacts
<1> QED
  BY <1>2, <1>4

\* One session moves on.
LEMMA GoesStill ==
  ASSUME ControlOK, NEW p \in Procs, NEW c \in Conns, Exists(p, c),
         sess[p][c].sock # "connecting", NEW t, Goes(sess[p][c], t),
         NEW w \in WireType, Becomes(p, c, With(p, c, t), w)
  PROVE  /\ Still
         /\ \A r \in Procs, d \in Conns :
              Exists(r, d) => sess'[r][d].auth = sess[r][d].auth
         /\ \A r \in Procs, d \in Conns : wire'[r][d] = w[r][d] \/ wire'[r][d] = <<>>
         /\ \A d \in Conns : /\ SuffixOf(UnsentAt(d)', UnsentAt(d))
                             /\ SuffixOf(QueueAt(d)', QueueAt(d))
         /\ p = "srv" => sess'["srv"][c] = t
         /\ \A d \in Conns : p # "srv" \/ d # c => sess'["srv"][d] = sess["srv"][d]
<1>0. TypeOK /\ SessionsOK /\ "srv" \in Procs
  BY DEF ControlOK, Procs
<1>1. t \in SessionType(Lines) /\ t # None /\ SessOK(t) /\ t.auth = sess[p][c].auth
      /\ t.sock # "connecting"
  BY DEF Goes, SessOK
<1>2. /\ sess' \in [Procs -> SessType] /\ wire' \in WireType
      /\ sess'[p][c] = t
      /\ \A r \in Procs, d \in Conns : r # p \/ d # c => sess'[r][d] = sess[r][d]
      /\ \A r \in Procs, d \in Conns : wire'[r][d] = w[r][d] \/ wire'[r][d] = <<>>
  BY <1>0, <1>1, OneBecomes
<1>3. ASSUME NEW r \in Procs, NEW d \in Conns
      PROVE  /\ Exists(r, d)' <=> Exists(r, d)
             /\ Exists(r, d) => /\ sess'[r][d].auth = sess[r][d].auth
                                /\ SessOK(sess'[r][d])
                                /\ sess'[r][d].sock = "connecting" <=> sess[r][d].sock = "connecting"
  <2>1. CASE r = p /\ d = c
    BY <2>1, <1>1, <1>2 DEF Exists
  <2>2. CASE r # p \/ d # c
    BY <2>2, <1>0, <1>2 DEF Exists, SessionsOK
  <2> QED
    BY <2>1, <2>2
<1>4. SessionsOK'
  BY <1>3 DEF SessionsOK
<1>5. Still
  BY <1>2, <1>3, <1>4 DEF Still
<1>6. ASSUME NEW d \in Conns
      PROVE  SuffixOf(UnsentAt(d)', UnsentAt(d)) /\ SuffixOf(QueueAt(d)', QueueAt(d))
  <2>1. CASE p = "srv" /\ d = c
    <3>1. sess'["srv"][d] = t /\ sess["srv"][d] # None /\ Goes(sess["srv"][d], t)
      BY <2>1, <1>2 DEF Exists
    <3> QED
      BY <3>1, <1>1 DEF Goes, UnsentAt, QueueAt
  <2>2. CASE p # "srv" \/ d # c
    <3>1. sess'["srv"][d] = sess["srv"][d]
      BY <2>2, <1>0, <1>2
    <3>2. UnsentAt(d)' = UnsentAt(d) /\ QueueAt(d)' = QueueAt(d)
      BY <3>1 DEF UnsentAt, QueueAt
    <3> QED
      BY <3>2, <1>0, PipeTypes, SuffixCases
  <2> QED
    BY <2>1, <2>2
<1> QED
  BY <1>0, <1>2, <1>3, <1>5, <1>6

LEMMA StillFlows ==
  ASSUME TypeOK, Still, NEW d \in Conns,
         SuffixOf(wire'["app"][d], wire["app"][d]),
         SuffixOf(UnsentAt(d)', UnsentAt(d)), SuffixOf(QueueAt(d)', QueueAt(d))
  PROVE  Flows(d)
<1>1. /\ wire["app"][d] \in Seq(Lines) /\ UnsentAt(d) \in Seq(Lines)
      /\ QueueAt(d) \in Seq(Lines)
  BY PipeTypes
<1>2. "app" \in Procs /\ "srv" \in Procs
  BY DEF Procs
<1>3. wire'["app"][d] \in Seq(Lines)
  BY <1>2 DEF Still, WireType
<1>4. sess'["srv"][d] # None => sess'["srv"][d] \in SessionType(Lines)
  BY <1>2 DEF Still, SessType
<1>5. UnsentAt(d)' \in Seq(Lines) /\ QueueAt(d)' \in Seq(Lines)
  <2> DEFINE t == sess'["srv"][d]
  <2>1. t # None => t.q \in Seq(Lines) /\ Unsent(t) \in Seq(Lines)
    BY <1>4, UnsentFacts
  <2> QED
    BY <2>1, EmptySeq DEF UnsentAt, QueueAt
<1>6. PICK w, u, q : w = wire'["app"][d] /\ u = UnsentAt(d)' /\ q = QueueAt(d)'
  OBVIOUS
<1> QED
  BY <1>1, <1>3, <1>5, <1>6, SuffixFlows

LEMMA FlowGoes ==
  ASSUME IInv, NEW p \in Procs, NEW c \in Conns, Exists(p, c),
         sess[p][c].sock # "connecting", NEW t, Goes(sess[p][c], t),
         NEW w \in WireType, Becomes(p, c, With(p, c, t), w),
         \A d \in Conns : Flows(d),
         gone' = gone, backlog' = backlog, app' = app, next' = next, seen' = seen,
         raced' = raced, srv' \in SrvType, srv'.local = srv.local
  PROVE  IInv'
<1>1. ControlOK /\ TypeOK /\ StreamOK /\ OnceOK
  BY DEF IInv, ControlOK
<1>2. /\ Still
      /\ \A r \in Procs, d \in Conns :
           Exists(r, d) => sess'[r][d].auth = sess[r][d].auth
  BY <1>1, GoesStill
<1>3. "app" \in Procs
  BY DEF Procs
<1>4. \A d \in Conns : Exists("app", d) /\ sess'["app"][d].auth => app'.local # None
  BY <1>1, <1>2, <1>3 DEF ControlOK, ClientOK
<1>5. /\ app' \in AppType /\ ~app'.nullSend /\ next' \in 1..(MaxMsgs + 1)
      /\ seen' \in [Data -> Nat] /\ raced' \in BOOLEAN
  BY <1>1, TypeFacts DEF ControlOK, ClientOK
<1>6. /\ ControlOK'
      /\ \A d \in Conns : /\ Exists("app", d)' => Exists("app", d)
                          /\ Waiting(d)' => Waiting(d)
  BY <1>1, <1>2, <1>4, <1>5, StillStep
<1>7. app'.resolves > 0 \/ app'.waits > 0 => app'.got = <<>>
  BY <1>1 DEF StreamOK
<1>8. StreamOK' /\ OnceOK'
  BY <1>1, <1>6, <1>7, StreamStep
<1> QED
  BY <1>6, <1>8 DEF IInv

LEMMA QuietGoes ==
  ASSUME IInv, NEW p \in Procs, NEW c \in Conns, Exists(p, c),
         sess[p][c].sock # "connecting", NEW t, Goes(sess[p][c], t),
         NEW w \in WireType, Becomes(p, c, With(p, c, t), w),
         \A d \in Conns : SuffixOf(w["app"][d], wire["app"][d]),
         gone' = gone, backlog' = backlog, app' = app, next' = next, seen' = seen,
         raced' = raced, srv' \in SrvType, srv'.local = srv.local
  PROVE  IInv'
<1>1. ControlOK /\ TypeOK
  BY DEF IInv, ControlOK
<1>2. /\ Still
      /\ \A r \in Procs, d \in Conns : wire'[r][d] = w[r][d] \/ wire'[r][d] = <<>>
      /\ \A d \in Conns : /\ SuffixOf(UnsentAt(d)', UnsentAt(d))
                          /\ SuffixOf(QueueAt(d)', QueueAt(d))
  BY <1>1, GoesStill
<1>3. "app" \in Procs
  BY DEF Procs
<1>4. \A d \in Conns : SuffixOf(wire'["app"][d], wire["app"][d])
  BY <1>1, <1>2, <1>3, PipeTypes, SuffixCases
<1>5. \A d \in Conns : Flows(d)
  BY <1>1, <1>2, <1>4, StillFlows
<1> QED
  BY <1>5, FlowGoes

\* The session of a handler.
LEMMA SessionFacts ==
  ASSUME IInv, NEW p \in Procs, NEW c \in Conns, Exists(p, c)
  PROVE  /\ SessOK(sess[p][c]) /\ sess[p][c] \in SessionType(Lines)
         /\ sess[p][c].wr # "none" \/ sess[p][c].rd # "off" =>
              sess[p][c].sock # "connecting"
  BY DEF IInv, ControlOK, SessionsOK, SessOK

LEMMA SameWire ==
  ASSUME IInv
  PROVE  /\ wire \in WireType /\ srv \in SrvType
         /\ \A d \in Conns : SuffixOf(wire["app"][d], wire["app"][d])
  BY PipeTypes, SuffixCases, TypeFacts DEF IInv, ControlOK

LEMMA PutWire ==
  ASSUME NEW w \in WireType, NEW r \in Procs, NEW c \in Conns, NEW z \in Seq(Lines)
  PROVE  /\ [w EXCEPT ![r][c] = z] \in WireType
         /\ [w EXCEPT ![r][c] = z][r][c] = z
         /\ \A p \in Procs, d \in Conns :
              p # r \/ d # c => [w EXCEPT ![r][c] = z][p][d] = w[p][d]
<1> DEFINE v == [w[r] EXCEPT ![c] = z]
<1>1. w[r] \in [Conns -> Seq(Lines)] /\ w \in [Procs -> [Conns -> Seq(Lines)]]
  BY DEF WireType
<1>2. /\ v \in [Conns -> Seq(Lines)] /\ v[c] = z
      /\ \A d \in Conns : d # c => v[d] = w[r][d]
  BY <1>1
<1>3. [w EXCEPT ![r][c] = z] = [w EXCEPT ![r] = v]
  OBVIOUS
<1> HIDE DEF v
<1>4. /\ [w EXCEPT ![r] = v] \in WireType
      /\ [w EXCEPT ![r] = v][r][c] = z
      /\ \A p \in Procs, d \in Conns :
           p # r \/ d # c => [w EXCEPT ![r] = v][p][d] = w[p][d]
  BY <1>1, <1>2 DEF WireType
<1> QED
  BY <1>3, <1>4

LEMMA WriteErrStep ==
  ASSUME IInv, NEW p \in Procs, NEW c \in Conns, WriteErr(p, c)
  PROVE  IInv'
<1> DEFINE s == sess[p][c]
           x == [s EXCEPT !.wr = "none"]
<1>1. Exists(p, c) /\ s.wr = "started" /\ SessOK(s) /\ s.sock # "connecting"
  BY SessionFacts DEF WriteErr
<1>2. PICK t \in Stop(x, IF wire[p][c] # <<>> THEN {"late"} ELSE {}) :
        Becomes(p, c, With(p, c, t), wire)
  BY DEF WriteErr, StopStep
<1>3. Goes(s, t)
  <2>1. (wire[p][c] # <<>>) \in BOOLEAN
    OBVIOUS
  <2> HIDE DEF s
  <2> QED
    BY <1>1, <1>2, <2>1, StopOK
<1> QED
  BY <1>1, <1>2, <1>3, SameWire, QuietGoes DEF WriteErr

LEMMA ReadErrStep ==
  ASSUME IInv, NEW p \in Procs, NEW c \in Conns, ReadErr(p, c)
  PROVE  IInv'
<1> DEFINE s == sess[p][c]
           x == [s EXCEPT !.rd = "off"]
<1>1. Exists(p, c) /\ s.rd = "on" /\ SessOK(s) /\ s.sock # "connecting"
  BY SessionFacts DEF ReadErr
<1>2. PICK t \in Stop(x, IF wire[p][c] # <<>> THEN {"late"} ELSE {}) :
        Becomes(p, c, With(p, c, t), wire)
  BY DEF ReadErr, StopStep
<1>3. Goes(s, t)
  <2>1. (wire[p][c] # <<>>) \in BOOLEAN
    OBVIOUS
  <2> HIDE DEF s
  <2> QED
    BY <1>1, <1>2, <2>1, StopOK
<1> QED
  BY <1>1, <1>2, <1>3, SameWire, QuietGoes DEF ReadErr

LEMMA StutterStep == IInv /\ UNCHANGED vars => IInv'
<1> SUFFICES ASSUME IInv, UNCHANGED vars PROVE IInv'
  OBVIOUS
<1>1. ControlOK'
  BY DEF vars, IInv, ControlOK, TypeOK, SessionsOK, ClientOK, ServerOK, Exists, Fresh,
         Connecting
<1>2. \A c : /\ Exists("app", c)' = Exists("app", c) /\ Waiting(c)' = Waiting(c)
             /\ UnsentAt(c)' = UnsentAt(c) /\ QueueAt(c)' = QueueAt(c)
             /\ \A m : InPipe(m, c)' = InPipe(m, c)
  BY DEF vars, Exists, Waiting, Fresh, Connecting, UnsentAt, QueueAt, InPipe
<1>3. StreamOK' /\ OnceOK'
  BY <1>2 DEF vars, IInv, StreamOK, OnceOK, PipeOK
<1> QED
  BY <1>1, <1>3 DEF IInv

\* Only the state of the server's process changes.
LEMMA ServerStateStep ==
  ASSUME IInv, sess' = sess, gone' = gone, wire' = wire, backlog' = backlog, app' = app,
         next' = next, seen' = seen, raced' = raced,
         srv' \in SrvType, srv'.local = srv.local
  PROVE  IInv'
<1>1. ControlOK'
  BY TypeFacts DEF IInv, ControlOK, TypeOK, SessionsOK, ClientOK, ServerOK, Exists, Fresh,
         Connecting, SrvType
<1>2. \A c : /\ Exists("app", c)' = Exists("app", c) /\ Waiting(c)' = Waiting(c)
             /\ UnsentAt(c)' = UnsentAt(c) /\ QueueAt(c)' = QueueAt(c)
             /\ \A m : InPipe(m, c)' = InPipe(m, c)
  BY DEF Exists, Waiting, Fresh, Connecting, UnsentAt, QueueAt, InPipe
<1>3. StreamOK' /\ OnceOK'
  BY <1>2 DEF IInv, StreamOK, OnceOK, PipeOK
<1> QED
  BY <1>1, <1>3 DEF IInv

LEMMA WriteOkStep ==
  ASSUME IInv, NEW p \in Procs, NEW c \in Conns, WriteOk(p, c)
  PROVE  IInv'
<1> DEFINE s == sess[p][c]
<1>1. Exists(p, c) /\ s.wr = "sent" /\ SessOK(s) /\ s.sock # "connecting"
  BY SessionFacts DEF WriteOk
<1>2. CASE s.q # <<>>
  <2>1. PICK t \in WriteDone(s) : Becomes(p, c, With(p, c, t), wire)
    BY <1>2 DEF WriteOk
  <2>2. Goes(s, t)
    <3> HIDE DEF s
    <3> QED
      BY <1>1, <1>2, <2>1, WriteDoneOK
  <2>3. srv' = srv
    BY <1>2 DEF WriteOk
  <2> QED
    BY <1>1, <2>1, <2>2, <2>3, SameWire, QuietGoes DEF WriteOk
<1>3. CASE s.q = <<>>
  <2>1. srv' = [srv EXCEPT !.is = "undefined"] /\ sess' = sess /\ wire' = wire
    BY <1>3 DEF WriteOk
  <2>2. srv' \in SrvType /\ srv'.local = srv.local
    BY <2>1, SameWire DEF SrvType
  <2> QED
    BY <2>1, <2>2, ServerStateStep DEF WriteOk
<1> QED
  BY <1>2, <1>3

\* The front of the queue goes on the wire.
LEMMA MoveOrdered ==
  ASSUME NEW w \in Seq(Lines), NEW q \in Seq(Lines), q # <<>>
  PROVE  /\ Ordered(w, q) => Ordered(Append(w, Head(q)), Tail(q)) /\ Ordered(w, Tail(q))
                             /\ Ordered(<<>>, Tail(q))
         /\ \A m : Has(m, Append(w, Head(q))) => Has(m, w) \/ Has(m, q)
         /\ \A m : Has(m, Tail(q)) => Has(m, q)
<1>1. /\ Head(q) \in Lines /\ Tail(q) \in Seq(Lines)
      /\ \A m : Has(m, q) <=> m = Head(q) \/ Has(m, Tail(q))
      /\ Rising(q) => /\ Rising(Tail(q))
                      /\ Head(q) \in Data => \A m \in Data : Has(m, Tail(q)) => Head(q) < m
  BY HeadFacts
<1>2. /\ \A m : Has(m, Append(w, Head(q))) <=> Has(m, w) \/ m = Head(q)
      /\ Rising(w) /\ (Head(q) \in Data => \A m \in Data : Has(m, w) => m < Head(q))
           => Rising(Append(w, Head(q)))
  BY <1>1, AppendFacts
<1>3. ASSUME Ordered(w, q)
      PROVE  Ordered(Append(w, Head(q)), Tail(q)) /\ Ordered(w, Tail(q)) /\ Ordered(<<>>, Tail(q))
  <2>1. Rising(Append(w, Head(q)))
    BY <1>1, <1>2, <1>3 DEF Ordered
  <2>2. Ordered(Append(w, Head(q)), Tail(q))
    BY <2>1, <1>1, <1>2, <1>3 DEF Ordered
  <2>3. Ordered(w, Tail(q))
    BY <1>1, <1>3 DEF Ordered
  <2> QED
    BY <2>2, <2>3, EmptyFacts DEF Ordered
<1> QED
  BY <1>1, <1>2, <1>3

LEMMA TransmitStep ==
  ASSUME IInv, NEW p \in Procs, NEW c \in Conns, Transmit(p, c)
  PROVE  IInv'
<1> DEFINE s == sess[p][c]
           t == Transmitted(s)
           w == IF s.q = <<>> THEN wire ELSE Sent(p, c, Head(s.q))
<1>1. Exists(p, c) /\ s.wr = "started" /\ SessOK(s) /\ s.sock # "connecting"
  BY SessionFacts DEF Transmit
<1>2. Becomes(p, c, With(p, c, t), w)
  BY DEF Transmit
<1>3. /\ Goes(s, t) /\ t.q = s.q
      /\ Unsent(s) = s.q /\ (s.q # <<>> => Unsent(t) = Tail(s.q))
  <2> HIDE DEF s
  <2> QED
    BY <1>1, TransmittedOK
<1>4. /\ gone' = gone /\ backlog' = backlog /\ app' = app /\ next' = next /\ seen' = seen
      /\ raced' = raced /\ srv' = srv
  BY DEF Transmit
<1>5. Peer(p) \in Procs /\ (p = "app" => Peer(p) = "srv") /\ (p = "srv" => Peer(p) = "app")
      /\ (p = "app" \/ p = "srv") /\ "app" \in Procs /\ "srv" \in Procs
  BY DEF Procs, Peer
<1>6. s.q \in Seq(Lines) /\ wire \in WireType /\ wire[Peer(p)][c] \in Seq(Lines)
  BY <1>1, <1>5, SameWire DEF SessOK, SessionType, WireType
<1>7. CASE s.q = <<>>
  <2>1. w = wire
    BY <1>7
  <2> HIDE DEF s, t, w
  <2>2. srv' \in SrvType /\ srv'.local = srv.local
    BY <1>4, SameWire
  <2>3. Becomes(p, c, With(p, c, t), wire)
    BY <1>2, <2>1
  <2> QED
    BY <1>1, <1>3, <1>4, <2>2, <2>3, SameWire, QuietGoes DEF s
<1>8. CASE s.q # <<>>
  <2> DEFINE z == Append(wire[Peer(p)][c], Head(s.q))
  <2>1. z \in Seq(Lines)
    BY <1>6, <1>8, HeadFacts, AppendFacts
  <2>2. w = wire \/ w = [wire EXCEPT ![Peer(p)][c] = z]
    BY <1>8 DEF Sent
  <2> HIDE DEF w
  <2>3. /\ w \in WireType /\ (w[Peer(p)][c] = wire[Peer(p)][c] \/ w[Peer(p)][c] = z)
        /\ \A r \in Procs, d \in Conns : r # Peer(p) \/ d # c => w[r][d] = wire[r][d]
    <3> HIDE DEF z
    <3>1. PICK r \in Procs : r = Peer(p)
      BY <1>5
    <3>2. /\ [wire EXCEPT ![r][c] = z] \in WireType
          /\ [wire EXCEPT ![r][c] = z][r][c] = z
          /\ \A o \in Procs, d \in Conns :
               o # r \/ d # c => [wire EXCEPT ![r][c] = z][o][d] = wire[o][d]
      BY <2>1, <1>6, PutWire
    <3> QED
      BY <2>2, <1>6, <3>1, <3>2
  <2>4. CASE p = "app"
    <3>1. \A d \in Conns : SuffixOf(w["app"][d], wire["app"][d])
      BY <2>3, <2>4, <1>5, SameWire
    <3>2. srv' \in SrvType /\ srv'.local = srv.local
      BY <1>4, SameWire
    <3> QED
      BY <1>1, <1>2, <1>3, <1>4, <2>3, <3>1, <3>2, QuietGoes
  <2>5. CASE p = "srv"
    <3>1. ControlOK /\ TypeOK
      BY DEF IInv, ControlOK
    <3>2. /\ Still
          /\ \A r \in Procs, d \in Conns : wire'[r][d] = w[r][d] \/ wire'[r][d] = <<>>
          /\ \A d \in Conns : /\ SuffixOf(UnsentAt(d)', UnsentAt(d))
                              /\ SuffixOf(QueueAt(d)', QueueAt(d))
          /\ sess'["srv"][c] = t
      BY <1>1, <1>2, <1>3, <2>3, <2>5, <3>1, GoesStill
    <3>3. ASSUME NEW d \in Conns \ {c} PROVE Flows(d)
      <4>1. SuffixOf(wire'["app"][d], wire["app"][d])
        BY <3>1, <3>2, <2>3, <1>5, PipeTypes, SuffixCases
      <4> QED
        BY <3>1, <3>2, <4>1, StillFlows
    <3>4. Flows(c)
      <4> DEFINE v == wire["app"][c]
                 q == s.q
                 v2 == wire'["app"][c]
      <4>1. /\ sess["srv"][c] = s /\ s # None /\ t # None
            /\ v \in Seq(Lines) /\ q \in Seq(Lines) /\ q # <<>>
            /\ v2 \in {v, Append(v, Head(q)), <<>>}
        BY <1>1, <1>3, <1>5, <1>6, <1>8, <2>3, <2>5, <3>2 DEF Exists, Goes
      <4>2. /\ UnsentAt(c) = q /\ UnsentAt(c)' = Tail(q)
            /\ QueueAt(c) = q /\ QueueAt(c)' = q
        BY <4>1, <3>2, <1>3, <1>8 DEF UnsentAt, QueueAt
      <4> HIDE DEF v, q, v2, s, t
      <4>3. /\ Ordered(v, q) => Ordered(v2, Tail(q))
            /\ \A m : Has(m, v2) \/ Has(m, Tail(q)) => Has(m, v) \/ Has(m, q)
        <5>1. v \in Seq(Lines) /\ q \in Seq(Lines) /\ q # <<>>
          BY <4>1
        <5>2. /\ Ordered(v, q) => Ordered(Append(v, Head(q)), Tail(q)) /\ Ordered(v, Tail(q))
                                  /\ Ordered(<<>>, Tail(q))
              /\ \A m : Has(m, Append(v, Head(q))) => Has(m, v) \/ Has(m, q)
              /\ \A m : Has(m, Tail(q)) => Has(m, q)
          BY ONLY <5>1, MoveOrdered
        <5> QED
          BY <4>1, <5>2, EmptyFacts
      <4>4. \A m : InPipe(m, c)' => InPipe(m, c)
        BY <4>2, <4>3 DEF InPipe, v, v2
      <4> QED
        BY <4>2, <4>3, <4>4 DEF Flows, v, v2
    <3>5. \A d \in Conns : Flows(d)
      BY <3>3, <3>4
    <3>6. srv' \in SrvType /\ srv'.local = srv.local
      BY <1>4, SameWire
    <3> QED
      BY <1>1, <1>2, <1>3, <1>4, <2>3, <3>5, <3>6, FlowGoes
  <2> QED
    BY <2>4, <2>5, <1>5
<1> QED
  BY <1>7, <1>8

\* The server reads a line that the router gets.
LEMMA RouterReadStep ==
  ASSUME IInv, NEW c \in Conns, SrvRead(c), sess["srv"][c].auth
  PROVE  IInv'
<1> DEFINE s == sess["srv"][c]
           z == Tail(wire["srv"][c])
<1>1. /\ "srv" \in Procs /\ "app" \in Procs /\ Exists("srv", c) /\ s.rd # "off"
      /\ wire["srv"][c] # <<>>
  BY DEF SrvRead, Procs
<1>2. SessOK(s) /\ s.sock # "connecting"
  BY <1>1, SessionFacts
<1>3. PICK t \in LineDone(s) :
        Becomes("srv", c, With("srv", c, t), [wire EXCEPT !["srv"][c] = z])
  BY DEF SrvRead
<1>4. /\ gone' = gone /\ backlog' = backlog /\ app' = app /\ next' = next /\ seen' = seen
      /\ raced' = raced /\ srv' = srv
  BY DEF SrvRead
<1>5. Goes(s, t)
  <2> HIDE DEF s
  <2> QED
    BY <1>2, <1>3, LineDoneOK
<1>6. z \in Seq(Lines) /\ wire \in WireType
  BY <1>1, HeadFacts, SameWire DEF WireType
<1> DEFINE w == [wire EXCEPT !["srv"][c] = z]
<1>7. w \in WireType /\ \A d \in Conns : w["app"][d] = wire["app"][d]
  <2> HIDE DEF z
  <2>1. PICK r \in Procs : r = "srv"
    BY <1>1
  <2>2. /\ [wire EXCEPT ![r][c] = z] \in WireType
        /\ \A p \in Procs, d \in Conns :
              p # r \/ d # c => [wire EXCEPT ![r][c] = z][p][d] = wire[p][d]
    BY <1>6, PutWire
  <2> QED
    BY <1>1, <2>1, <2>2
<1> HIDE DEF w, s, z
<1>8. \A d \in Conns : SuffixOf(w["app"][d], wire["app"][d])
  BY <1>7, SameWire
<1>9. srv' \in SrvType /\ srv'.local = srv.local
  BY <1>4, SameWire
<1>10. Becomes("srv", c, With("srv", c, t), w)
  BY <1>3 DEF w
<1>11. PICK p \in Procs : p = "srv"
  BY <1>1
<1> QED
  BY <1>1, <1>2, <1>4, <1>5, <1>7, <1>8, <1>9, <1>10, <1>11, QuietGoes DEF s

-----------------------------------------------------------------------------
(* The client.                                                             *)

\* The server's session stays as it is.
LEMMA SameFlows ==
  ASSUME TypeOK, NEW c \in Conns, sess'["srv"][c] = sess["srv"][c],
         wire'["app"][c] = wire["app"][c] \/ wire'["app"][c] = <<>>
  PROVE  Flows(c)
<1>1. UnsentAt(c)' = UnsentAt(c) /\ QueueAt(c)' = QueueAt(c)
  BY DEF UnsentAt, QueueAt
<1>2. Ordered(wire["app"][c], UnsentAt(c)) => Ordered(<<>>, UnsentAt(c))
  BY EmptyFacts DEF Ordered
<1>3. \A m : InPipe(m, c)' => InPipe(m, c)
  BY <1>1, EmptyFacts DEF InPipe
<1> QED
  BY <1>1, <1>2, <1>3 DEF Flows

LEMMA InvFacts ==
  ASSUME IInv
  PROVE  /\ TypeOK /\ ControlOK /\ SessionsOK /\ ClientOK /\ ServerOK /\ StreamOK /\ OnceOK
         /\ sess \in [Procs -> SessType] /\ wire \in WireType
         /\ gone \in [Procs -> SUBSET Conns] /\ backlog \subseteq Conns
         /\ srv \in SrvType /\ app \in AppType
         /\ next \in 1..(MaxMsgs + 1) /\ seen \in [Data -> Nat] /\ raced \in BOOLEAN
         /\ "app" \in Procs /\ "srv" \in Procs
  BY TypeFacts DEF IInv, ControlOK, Procs

\* Only the client's own state changes.
LEMMA ClientStateStep ==
  ASSUME IInv, sess' = sess, gone' = gone, wire' = wire, backlog' = backlog, srv' = srv,
         next' = next, seen' = seen, raced' = raced,
         app' \in AppType, app'.up, app'.resolves + app'.waits = 1, ~app'.nullSend,
         \A c \in Conns : ~Exists("app", c),
         app'.got = <<>>
  PROVE  IInv'
<1>1. TypeOK'
  BY InvFacts DEF TypeOK, SessType, WireType, SrvType, AppType
<1>2. \A c \in Conns : /\ Exists("app", c)' = Exists("app", c)
                       /\ Exists("srv", c)' = Exists("srv", c)
                       /\ Connecting(c)' = Connecting(c)
  BY DEF Exists, Connecting
<1>3. \A c \in Conns : Fresh(c)' = Fresh(c) /\ (Waiting(c)' => Waiting(c))
  BY <1>2 DEF Fresh, Waiting
<1>4. SessionsOK'
  BY InvFacts DEF SessionsOK, Exists
<1>5. ClientOK'
  BY <1>2 DEF ClientOK
<1>6. ServerOK'
  BY <1>2, <1>3, InvFacts DEF ServerOK, Exists
<1>7. \A c \in Conns : Flows(c)
  BY SameFlows, InvFacts
<1>8. StreamOK' /\ OnceOK'
  BY <1>2, <1>3, <1>7, InvFacts, StreamStep
<1> QED
  BY <1>1, <1>4, <1>5, <1>6, <1>8 DEF IInv, ControlOK

LEMMA AppStartStep ==
  ASSUME IInv, AppStart PROVE IInv'
<1>1. /\ app' = [app EXCEPT !.up = TRUE, !.resolves = 1, !.waits = 0,
                            !.local = None, !.got = <<>>]
      /\ ~app.up
  BY DEF AppStart
<1>2. app' \in AppType
  BY <1>1, InvFacts, EmptySeq DEF AppType
<1>3. app'.up /\ app'.resolves = 1 /\ app'.waits = 0 /\ app'.nullSend = app.nullSend /\ app'.got = <<>>
  BY <1>1, InvFacts DEF AppType
<1>4. ~app.nullSend /\ \A c \in Conns : ~Exists("app", c)
  BY <1>1, InvFacts DEF ClientOK
<1> QED
  BY <1>2, <1>3, <1>4, ClientStateStep DEF AppStart

\* While the client resolves or waits, it has no session and got nothing.
LEMMA IdleFacts ==
  ASSUME IInv, app.resolves > 0 \/ app.waits > 0
  PROVE  /\ app.resolves \in Nat /\ app.waits \in Nat /\ app.resolves + app.waits = 1
         /\ \A c \in Conns : ~Exists("app", c)
         /\ app.got = <<>> /\ ~app.nullSend
<1>1. app.resolves \in Nat /\ app.waits \in Nat /\ app.resolves + app.waits <= 1
  BY InvFacts DEF AppType, ClientOK
<1>2. app.resolves + app.waits = 1 /\ ~(app.resolves = 0 /\ app.waits = 0)
  BY <1>1
<1>3. (\A c \in Conns : ~Exists("app", c)) /\ ~app.nullSend
  BY <1>2, InvFacts DEF ClientOK
<1>4. app.got = <<>>
  BY InvFacts DEF StreamOK
<1> QED
  BY <1>1, <1>2, <1>3, <1>4

LEMMA TimerFiresStep ==
  ASSUME IInv, TimerFires PROVE IInv'
<1> DEFINE a == app.waits - 1
           b == app.resolves + 1
<1>1. app' = [app EXCEPT !.waits = a, !.resolves = b] /\ app.up /\ app.waits > 0
  BY DEF TimerFires
<1>2. /\ app.resolves \in Nat /\ app.waits \in Nat /\ app.resolves + app.waits = 1
      /\ (\A c \in Conns : ~Exists("app", c)) /\ app.got = <<>> /\ ~app.nullSend
  BY <1>1, IdleFacts
<1>3. a \in Nat /\ b \in Nat /\ b + a = 1
  BY <1>1, <1>2
<1> HIDE DEF a, b
<1>4. app' \in AppType /\ app'.up /\ app'.resolves = b /\ app'.waits = a
        /\ app'.nullSend = app.nullSend /\ app'.got = app.got
  BY <1>1, <1>3, InvFacts DEF AppType
<1>5. app'.resolves + app'.waits = 1 /\ ~app'.nullSend /\ app'.got = <<>>
  BY <1>2, <1>3, <1>4
<1> QED
  BY <1>2, <1>4, <1>5, ClientStateStep DEF TimerFires

LEMMA ResolveErrStep ==
  ASSUME IInv, ResolveErr PROVE IInv'
<1> DEFINE a == app.resolves - 1
           b == app.waits + 1
           e == app.errs + 1
<1>1. app' = ReconnectAfterDelay([app EXCEPT !.resolves = a, !.errs = e])
      /\ app.up /\ app.resolves > 0 /\ app.errs < MaxErrs
  BY DEF ResolveErr
<1>2. /\ app.resolves \in Nat /\ app.waits \in Nat /\ app.resolves + app.waits = 1
      /\ (\A c \in Conns : ~Exists("app", c)) /\ app.got = <<>> /\ ~app.nullSend
  BY <1>1, IdleFacts
<1>3. app \in AppType /\ app.errs \in 0..MaxErrs
  BY InvFacts DEF AppType
<1>4. a \in Nat /\ b \in Nat /\ a + b = 1 /\ e \in 0..MaxErrs
  <2>1. MaxErrs \in Nat /\ app.errs \in 0..MaxErrs /\ app.errs < MaxErrs
    BY <1>1, <1>3, ConstantFacts
  <2>2. e \in 0..MaxErrs
    BY ONLY <2>1
  <2>3. a \in Nat /\ b \in Nat /\ a + b = 1
    BY <1>1, <1>2
  <2> QED
    BY <2>2, <2>3
<1>5. app' = [app EXCEPT !.resolves = a, !.errs = e, !.waits = b]
  BY <1>1, <1>3 DEF ReconnectAfterDelay, AppType
<1> HIDE DEF a, b, e
<1>6. app' \in AppType /\ app'.up /\ app'.resolves = a /\ app'.waits = b
        /\ app'.nullSend = app.nullSend /\ app'.got = app.got
  BY <1>1, <1>3, <1>4, <1>5 DEF AppType
<1>7. app'.resolves + app'.waits = 1 /\ ~app'.nullSend /\ app'.got = <<>>
  BY <1>2, <1>4, <1>6
<1> QED
  BY <1>2, <1>6, <1>7, ClientStateStep DEF ResolveErr

LEMMA AppExitStep ==
  ASSUME IInv, AppExit PROVE IInv'
<1> DEFINE open == {c \in Conns : Exists("app", c) /\ sess["app"][c].sock # "connecting"}
           none == [c \in Conns |-> None]
           empty == [c \in Conns |-> <<>>]
<1>1. /\ sess' = [sess EXCEPT !["app"] = none]
      /\ gone' = [gone EXCEPT !["app"] = @ \cup open \cup {}]
      /\ wire' = [wire EXCEPT !["app"] = empty]
      /\ app' = [app EXCEPT !.up = FALSE, !.resolves = 0, !.waits = 0]
      /\ backlog' = backlog /\ srv' = srv /\ next' = next /\ seen' = seen /\ raced' = raced
  BY DEF AppExit, Vanish
<1>2. none \in SessType /\ empty \in [Conns -> Seq(Lines)] /\ open \subseteq Conns
  BY EmptySeq DEF SessType
<1>3. /\ \A c \in Conns : none[c] = None /\ empty[c] = <<>>
      /\ \A c \in Conns : c \in open <=> Exists("app", c) /\ sess["app"][c].sock # "connecting"
  OBVIOUS
<1> HIDE DEF none, empty, open
<1>4. /\ sess' \in [Procs -> SessType] /\ sess'["app"] = none /\ sess'["srv"] = sess["srv"]
      /\ wire' \in WireType /\ wire'["app"] = empty
      /\ gone' \in [Procs -> SUBSET Conns] /\ gone'["app"] = gone["app"] \cup open
  BY <1>1, <1>2, InvFacts DEF WireType
<1>5. /\ app' \in AppType /\ ~app'.up /\ app'.resolves = 0 /\ app'.waits = 0
      /\ app'.got = app.got /\ app'.nullSend = app.nullSend
  BY <1>1, InvFacts DEF AppType
<1>6. TypeOK'
  BY <1>1, <1>4, <1>5, InvFacts DEF TypeOK, SessType, WireType, SrvType, AppType
<1>7. \A c \in Conns : ~Exists("app", c)' /\ (Exists("srv", c)' <=> Exists("srv", c))
  BY <1>3, <1>4 DEF Exists
<1>8. \A c \in Conns : Fresh(c)' => Fresh(c)
  BY <1>3, <1>4, <1>7 DEF Fresh, Connecting
<1>9. \A c \in Conns : Waiting(c)' => Waiting(c)
  BY <1>1, <1>4, <1>7, <1>8 DEF Waiting
<1>10. SessionsOK'
  <2>1. \A p \in Procs : p = "app" \/ p = "srv"
    BY DEF Procs
  <2> QED
    BY <2>1, <1>3, <1>4, InvFacts DEF SessionsOK, Exists
<1>11. ClientOK'
  BY <1>5, <1>7, InvFacts DEF ClientOK
<1>12. ServerOK'
  BY <1>1, <1>4, <1>7, <1>8, InvFacts DEF ServerOK, Exists
<1>13. \A c \in Conns : Flows(c)
  BY <1>3, <1>4, InvFacts, SameFlows
<1>14. StreamOK' /\ OnceOK'
  BY <1>1, <1>5, <1>7, <1>9, <1>13, InvFacts, StreamStep
<1> QED
  BY <1>6, <1>10, <1>11, <1>12, <1>14 DEF IInv, ControlOK

\* The client's session on connection c appears, changes or goes.
LEMMA AppBecomes ==
  ASSUME IInv, NEW c \in Conns, NEW t \in SessionType(Lines) \cup {None},
         Becomes("app", c, With("app", c, t), wire)
  PROVE  /\ sess' \in [Procs -> SessType] /\ wire' \in WireType
         /\ sess'["app"][c] = t
         /\ \A d \in Conns : d # c => sess'["app"][d] = sess["app"][d]
         /\ \A d \in Conns : sess'["srv"][d] = sess["srv"][d] /\ Flows(d)
<1>1. PICK p \in Procs : p = "app"
  BY InvFacts
<1>2. Becomes(p, c, With(p, c, t), wire)
  BY <1>1
<1>3. /\ sess' \in [Procs -> SessType] /\ wire' \in WireType
      /\ sess'[p][c] = t
      /\ \A r \in Procs, d \in Conns : r # p \/ d # c => sess'[r][d] = sess[r][d]
      /\ \A r \in Procs, d \in Conns : wire'[r][d] = wire[r][d] \/ wire'[r][d] = <<>>
  BY <1>2, InvFacts, OneBecomes
<1>4. \A d \in Conns : /\ sess'["srv"][d] = sess["srv"][d]
                       /\ wire'["app"][d] = wire["app"][d] \/ wire'["app"][d] = <<>>
  BY <1>1, <1>3, InvFacts
<1>5. \A d \in Conns : Flows(d)
  BY <1>4, InvFacts, SameFlows
<1> QED
  BY <1>1, <1>3, <1>4, <1>5

LEMMA ConnectResolvedStep ==
  ASSUME IInv, NEW c \in Conns, ConnectResolved(c) PROVE IInv'
<1> DEFINE t == NewSession("outgoing")
           a == app.resolves - 1
<1>1. /\ app.up /\ app.resolves > 0 /\ ~Exists("app", c) /\ c \notin gone["app"]
      /\ app' = [app EXCEPT !.resolves = a]
      /\ Becomes("app", c, With("app", c, t), wire)
      /\ gone' = gone /\ backlog' = backlog /\ srv' = srv /\ next' = next
      /\ seen' = seen /\ raced' = raced
  BY DEF ConnectResolved, Unused
<1>2. SessOK(t) /\ ~t.auth /\ t.sock = "connecting" /\ t # None /\ t \in SessionType(Lines)
  BY NewSessionOK DEF Directions, SessOK
<1>3. /\ app.resolves \in Nat /\ app.waits \in Nat /\ app.resolves + app.waits = 1
      /\ (\A d \in Conns : ~Exists("app", d)) /\ app.got = <<>> /\ ~app.nullSend
  BY <1>1, IdleFacts
<1> HIDE DEF t
<1>4. /\ sess' \in [Procs -> SessType] /\ wire' \in WireType
      /\ sess'["app"][c] = t
      /\ \A d \in Conns : d # c => sess'["app"][d] = sess["app"][d]
      /\ \A d \in Conns : sess'["srv"][d] = sess["srv"][d] /\ Flows(d)
  BY <1>1, <1>2, AppBecomes
<1>5. a = 0 /\ app.waits = 0
  BY <1>1, <1>3
<1> HIDE DEF a
<1>6. /\ app' \in AppType /\ app'.up /\ app'.resolves = 0 /\ app'.waits = 0
      /\ app'.got = <<>> /\ ~app'.nullSend
  BY <1>1, <1>3, <1>5, InvFacts DEF AppType
<1>7. TypeOK'
  BY <1>1, <1>4, <1>6, InvFacts DEF TypeOK, SessType, WireType, SrvType, AppType
<1>8. \A d \in Conns : /\ Exists("app", d)' <=> d = c
                       /\ Exists("srv", d)' <=> Exists("srv", d)
                       /\ Connecting(d)' <=> d = c
  BY <1>2, <1>3, <1>4 DEF Exists, Connecting
<1>9. \A d \in Conns : Fresh(d)' => Fresh(d)
  BY <1>1, <1>3, <1>8 DEF Fresh
<1>10. \A d \in Conns : Waiting(d)' => Waiting(d)
  BY <1>1, <1>4, <1>8, <1>9 DEF Waiting
<1>11. SessionsOK'
  <2>1. \A p \in Procs : p = "app" \/ p = "srv"
    BY DEF Procs
  <2> QED
    BY <2>1, <1>2, <1>3, <1>4, InvFacts DEF SessionsOK, Exists
<1>12. ClientOK'
  BY <1>1, <1>2, <1>4, <1>6, <1>8 DEF ClientOK
<1>13. ServerOK'
  <2>1. srv.local # None => srv.local \in Conns
    BY InvFacts DEF SrvType
  <2> QED
    BY <2>1, <1>1, <1>4, <1>8, <1>9, InvFacts DEF ServerOK, Exists
<1>14. StreamOK' /\ OnceOK'
  BY <1>1, <1>4, <1>6, <1>8, <1>10, InvFacts, StreamStep
<1> QED
  BY <1>7, <1>11, <1>12, <1>13, <1>14 DEF IInv, ControlOK

\* What a session that is connecting says of its client.
LEMMA ConnectingFacts ==
  ASSUME IInv, NEW c \in Conns, Connecting(c)
  PROVE  /\ SessOK(sess["app"][c]) /\ sess["app"][c].sock = "connecting"
         /\ Fresh(c) /\ ~Exists("srv", c) /\ c \notin backlog /\ c \notin gone["app"]
         /\ app.up /\ app.resolves = 0 /\ app.waits = 0 /\ app.got = <<>> /\ ~app.nullSend
         /\ \A d \in Conns : Exists("app", d) <=> d = c
<1>1. Exists("app", c) /\ sess["app"][c].sock = "connecting"
  BY DEF Connecting
<1>2. SessOK(sess["app"][c])
  BY <1>1, InvFacts DEF SessionsOK
<1>3. /\ c \notin gone["app"] /\ app.up /\ app.resolves = 0 /\ app.waits = 0 /\ ~app.nullSend
      /\ \A d \in Conns : Exists("app", d) <=> d = c
  BY <1>1, InvFacts DEF ClientOK
<1>4. Fresh(c) /\ ~Exists("srv", c) /\ c \notin backlog
  BY <1>3, InvFacts DEF Fresh, ServerOK
<1>5. app.got = <<>>
  BY <1>1, <1>4, InvFacts DEF StreamOK, PipeOK, Waiting
<1> QED
  BY <1>1, <1>2, <1>3, <1>4, <1>5

LEMMA ConnectOkStep ==
  ASSUME IInv, NEW c \in Conns, ConnectOk(c) PROVE IInv'
<1> DEFINE s == sess["app"][c]
           x == [s EXCEPT !.sock = "open"]
           t == Start(x, Auth)
<1>1. /\ Connecting(c) /\ Becomes("app", c, With("app", c, t), wire)
      /\ backlog' = backlog \cup {c}
      /\ gone' = gone /\ app' = app /\ srv' = srv /\ next' = next
      /\ seen' = seen /\ raced' = raced
  BY DEF ConnectOk
<1>2. /\ SessOK(s) /\ s.sock = "connecting"
      /\ Fresh(c) /\ ~Exists("srv", c) /\ c \notin backlog /\ c \notin gone["app"]
      /\ app.up /\ app.resolves = 0 /\ app.waits = 0 /\ app.got = <<>> /\ ~app.nullSend
      /\ \A d \in Conns : Exists("app", d) <=> d = c
  BY <1>1, ConnectingFacts
<1> HIDE DEF s
<1>3. SessOK(x) /\ x.sock = "open" /\ ~x.auth /\ ~x.stopped /\ x.q = <<>>
  BY <1>2, OpenOK
<1> HIDE DEF x
<1>4. SessOK(t) /\ ~t.auth /\ t.sock = "open" /\ t # None
  BY <1>3, StartOK
<1>5. t \in SessionType(Lines)
  BY <1>4 DEF SessOK
<1> HIDE DEF t
<1>6. /\ sess' \in [Procs -> SessType] /\ wire' \in WireType
      /\ sess'["app"][c] = t
      /\ \A d \in Conns : d # c => sess'["app"][d] = sess["app"][d]
      /\ \A d \in Conns : sess'["srv"][d] = sess["srv"][d] /\ Flows(d)
  BY <1>1, <1>5, AppBecomes
<1>7. TypeOK'
  BY <1>1, <1>6, InvFacts DEF TypeOK, SessType, WireType, SrvType, AppType
<1>8. \A d \in Conns : /\ Exists("app", d)' <=> d = c
                       /\ Exists("srv", d)' <=> Exists("srv", d)
                       /\ ~Connecting(d)'
  BY <1>2, <1>4, <1>6 DEF Exists, Connecting
<1>9. \A d \in Conns : (Fresh(d)' => Fresh(d)) /\ (Fresh(d)' => d # c)
  BY <1>1, <1>2, <1>8 DEF Fresh
<1>10. \A d \in Conns : Waiting(d)' => Waiting(d)
  BY <1>1, <1>2, <1>6, <1>8, <1>9 DEF Waiting
<1>11. SessionsOK'
  <2>1. \A p \in Procs : p = "app" \/ p = "srv"
    BY DEF Procs
  <2> QED
    BY <2>1, <1>4, <1>6, <1>8, InvFacts DEF SessionsOK, Exists
<1>12. ClientOK'
  BY <1>1, <1>2, <1>4, <1>6, <1>8 DEF ClientOK
<1>13. ServerOK'
  <2>1. srv.local # None => srv.local \in Conns
    BY InvFacts DEF SrvType
  <2>2. \A d \in backlog' : d \in Conns /\ ~Exists("srv", d)'
    BY <1>1, <1>2, <1>8, InvFacts DEF ServerOK
  <2>3. \A d \in Conns : Fresh(d)' => ~Exists("srv", d)' /\ d \notin backlog'
    BY <1>1, <1>8, <1>9, InvFacts DEF ServerOK
  <2> QED
    BY <2>1, <2>2, <2>3, <1>1, <1>6, InvFacts DEF ServerOK, Exists
<1>14. StreamOK' /\ OnceOK'
  BY <1>1, <1>2, <1>6, <1>8, <1>10, InvFacts, StreamStep
<1> QED
  BY <1>7, <1>11, <1>12, <1>13, <1>14 DEF IInv, ControlOK

LEMMA RefusedStep ==
  ASSUME IInv, NEW c \in Conns, Refused(c) PROVE IInv'
<1>1. /\ Connecting(c) /\ Becomes("app", c, With("app", c, None), wire)
      /\ app' = ReconnectAfterDelay(app)
      /\ gone' = gone /\ backlog' = backlog /\ srv' = srv /\ next' = next
      /\ seen' = seen /\ raced' = raced
  BY DEF Refused
<1>2. /\ Fresh(c) /\ ~Exists("srv", c) /\ c \notin backlog /\ c \notin gone["app"]
      /\ app.up /\ app.resolves = 0 /\ app.waits = 0 /\ app.got = <<>> /\ ~app.nullSend
      /\ \A d \in Conns : Exists("app", d) <=> d = c
  BY <1>1, ConnectingFacts
<1>3. /\ sess' \in [Procs -> SessType] /\ wire' \in WireType
      /\ sess'["app"][c] = None
      /\ \A d \in Conns : d # c => sess'["app"][d] = sess["app"][d]
      /\ \A d \in Conns : sess'["srv"][d] = sess["srv"][d] /\ Flows(d)
  BY <1>1, AppBecomes
<1>4. app' = [app EXCEPT !.waits = 1]
  BY <1>1, <1>2 DEF ReconnectAfterDelay
<1>5. /\ app' \in AppType /\ app'.up /\ app'.resolves = 0 /\ app'.waits = 1
      /\ app'.got = <<>> /\ ~app'.nullSend
  BY <1>2, <1>4, InvFacts DEF AppType
<1>6. TypeOK'
  BY <1>1, <1>3, <1>5, InvFacts DEF TypeOK, SessType, WireType, SrvType, AppType
<1>7. \A d \in Conns : /\ ~Exists("app", d)'
                       /\ Exists("srv", d)' <=> Exists("srv", d)
  BY <1>2, <1>3 DEF Exists
<1>8. \A d \in Conns : Fresh(d)' => Fresh(d)
  BY <1>1, <1>2 DEF Fresh
<1>9. \A d \in Conns : Waiting(d)' => Waiting(d)
  BY <1>1, <1>3, <1>7, <1>8 DEF Waiting
<1>10. SessionsOK'
  <2>1. \A p \in Procs : p = "app" \/ p = "srv"
    BY DEF Procs
  <2> QED
    BY <2>1, <1>3, <1>7, InvFacts DEF SessionsOK, Exists
<1>11. ClientOK'
  BY <1>5, <1>7 DEF ClientOK
<1>12. ServerOK'
  <2>1. srv.local # None => srv.local \in Conns
    BY InvFacts DEF SrvType
  <2> QED
    BY <2>1, <1>1, <1>3, <1>7, <1>8, InvFacts DEF ServerOK, Exists
<1>13. StreamOK' /\ OnceOK'
  BY <1>1, <1>3, <1>5, <1>7, <1>9, InvFacts, StreamStep
<1> QED
  BY <1>6, <1>10, <1>11, <1>12, <1>13 DEF IInv, ControlOK

-----------------------------------------------------------------------------
(* The server.                                                             *)

LEMMA SrvStartStep ==
  ASSUME IInv, SrvStart PROVE IInv'
<1>1. srv' = [srv EXCEPT !.is = "up"]
  BY DEF SrvStart
<1>2. srv' \in SrvType /\ srv'.local = srv.local
  BY <1>1, InvFacts DEF SrvType
<1> QED
  BY <1>2, ServerStateStep DEF SrvStart

LEMMA SrvExitStep ==
  ASSUME IInv, SrvExit PROVE IInv'
<1> DEFINE open == {c \in Conns : Exists("srv", c) /\ sess["srv"][c].sock # "connecting"}
           none == [c \in Conns |-> None]
           empty == [c \in Conns |-> <<>>]
           e == srv.exits + 1
<1>1. /\ sess' = [sess EXCEPT !["srv"] = none]
      /\ gone' = [gone EXCEPT !["srv"] = @ \cup open \cup backlog]
      /\ wire' = [wire EXCEPT !["srv"] = empty]
      /\ srv' = [is |-> "down", local |-> None, exits |-> e] /\ srv.exits < MaxExits
      /\ backlog' = {} /\ app' = app /\ next' = next /\ seen' = seen /\ raced' = raced
  BY DEF SrvExit, Vanish
<1>2. none \in SessType /\ empty \in [Conns -> Seq(Lines)] /\ open \subseteq Conns
  BY EmptySeq DEF SessType
<1>3. \A c \in Conns : none[c] = None
  OBVIOUS
<1>4. e \in 0..MaxExits
  <2>1. srv.exits \in 0..MaxExits
    BY InvFacts DEF SrvType
  <2> QED
    BY <2>1, <1>1, ConstantFacts
<1> HIDE DEF none, empty, open, e
<1>5. /\ sess' \in [Procs -> SessType] /\ sess'["srv"] = none /\ sess'["app"] = sess["app"]
      /\ wire' \in WireType /\ wire'["app"] = wire["app"]
      /\ gone' \in [Procs -> SUBSET Conns] /\ gone'["app"] = gone["app"]
  BY <1>1, <1>2, InvFacts DEF WireType
<1>6. srv' \in SrvType /\ srv'.local = None
  BY <1>1, <1>4 DEF SrvType
<1>7. TypeOK'
  BY <1>1, <1>5, <1>6, InvFacts DEF TypeOK, SessType, WireType, SrvType, AppType
<1>8. \A c \in Conns : ~Exists("srv", c)' /\ (Exists("app", c)' <=> Exists("app", c))
        /\ (Fresh(c)' <=> Fresh(c))
  BY <1>3, <1>5 DEF Exists, Fresh, Connecting
<1>9. \A c \in Conns : Waiting(c)' => Waiting(c)
  BY <1>1, <1>8 DEF Waiting
<1>10. SessionsOK'
  <2>1. \A p \in Procs : p = "app" \/ p = "srv"
    BY DEF Procs
  <2> QED
    BY <2>1, <1>3, <1>5, InvFacts DEF SessionsOK, Exists
<1>11. ClientOK'
  BY <1>1, <1>5, <1>8, InvFacts DEF ClientOK
<1>12. ServerOK'
  BY <1>1, <1>6, <1>8 DEF ServerOK
<1>13. ASSUME NEW c \in Conns PROVE Flows(c)
  <2>1. UnsentAt(c)' = <<>> /\ QueueAt(c)' = <<>> /\ wire'["app"][c] = wire["app"][c]
    BY <1>3, <1>5 DEF UnsentAt, QueueAt
  <2>2. Ordered(wire["app"][c], UnsentAt(c)) => Ordered(wire["app"][c], <<>>)
    BY EmptyFacts DEF Ordered
  <2>3. \A m : (InPipe(m, c)' => InPipe(m, c)) /\ ~Has(m, <<>>)
    BY <2>1, EmptyFacts DEF InPipe
  <2> QED
    BY <2>1, <2>2, <2>3, EmptyFacts DEF Flows
<1>14. app'.resolves > 0 \/ app'.waits > 0 => app'.got = <<>>
  BY <1>1, InvFacts DEF StreamOK
<1>15. StreamOK' /\ OnceOK'
  BY <1>1, <1>8, <1>9, <1>13, <1>14, InvFacts, StreamStep
<1> QED
  BY <1>7, <1>10, <1>11, <1>12, <1>15 DEF IInv, ControlOK

LEMMA AcceptStep ==
  ASSUME IInv, NEW c \in Conns, Accept(c) PROVE IInv'
<1> DEFINE x == NewSession("incoming")
           t == Start(x, Auth)
<1>1. /\ c \in backlog /\ backlog' = backlog \ {c}
      /\ Becomes("srv", c, With("srv", c, t), wire)
      /\ gone' = gone /\ srv' = srv /\ app' = app /\ next' = next
      /\ seen' = seen /\ raced' = raced
  BY DEF Accept
<1>2. SessOK(x) /\ x.sock = "open" /\ ~x.auth /\ ~x.stopped /\ x.q = <<>>
  BY NewSessionOK DEF Directions
<1> HIDE DEF x
<1>3. SessOK(t) /\ ~t.auth /\ t.sock = "open" /\ t # None /\ Silent(t.q) /\ Rising(t.q)
  BY <1>2, StartOK
<1>4. t \in SessionType(Lines)
  BY <1>3 DEF SessOK
<1> HIDE DEF t
<1>5. PICK p \in Procs : p = "srv"
  BY InvFacts
<1>6. Becomes(p, c, With(p, c, t), wire)
  BY <1>1, <1>5
<1>7. /\ sess' \in [Procs -> SessType] /\ wire' \in WireType
      /\ sess'[p][c] = t
      /\ \A r \in Procs, d \in Conns : r # p \/ d # c => sess'[r][d] = sess[r][d]
      /\ \A r \in Procs, d \in Conns : wire'[r][d] = wire[r][d] \/ wire'[r][d] = <<>>
  BY <1>4, <1>6, InvFacts, OneBecomes
<1>8. /\ sess'["srv"][c] = t
      /\ \A d \in Conns : d # c => sess'["srv"][d] = sess["srv"][d]
      /\ \A d \in Conns : sess'["app"][d] = sess["app"][d]
      /\ \A d \in Conns : wire'["app"][d] = wire["app"][d] \/ wire'["app"][d] = <<>>
  BY <1>5, <1>7, InvFacts
<1>9. TypeOK'
  BY <1>1, <1>7, InvFacts DEF TypeOK, SessType, WireType, SrvType, AppType
<1>10. ~Exists("srv", c) /\ ~Fresh(c)
  BY <1>1, InvFacts DEF ServerOK
<1>11. \A d \in Conns : /\ Exists("app", d)' <=> Exists("app", d)
                        /\ Exists("srv", d)' <=> Exists("srv", d) \/ d = c
                        /\ Fresh(d)' <=> Fresh(d)
  BY <1>1, <1>3, <1>8 DEF Exists, Fresh, Connecting
<1>12. \A d \in Conns : Waiting(d)' => Waiting(d)
  BY <1>1, <1>8, <1>11 DEF Waiting
<1>13. SessionsOK'
  <2>1. \A r \in Procs : r = "app" \/ r = "srv"
    BY DEF Procs
  <2> QED
    BY <2>1, <1>3, <1>8, InvFacts DEF SessionsOK, Exists
<1>14. ClientOK'
  BY <1>1, <1>8, <1>11, InvFacts DEF ClientOK
<1>15. ServerOK'
  <2>1. srv.local # None => srv.local \in Conns /\ srv.local # c
    BY <1>10, InvFacts DEF SrvType, ServerOK
  <2>2. \A d \in Conns : Fresh(d)' => ~Exists("srv", d)' /\ d \notin backlog'
    BY <1>1, <1>10, <1>11, InvFacts DEF ServerOK
  <2>3. \A d \in backlog' : ~Exists("srv", d)'
    BY <1>1, <1>11, InvFacts DEF ServerOK
  <2>4. srv'.local # None => Exists("srv", srv.local)' /\ sess'["srv"][srv'.local].auth
    BY <2>1, <1>1, <1>8, InvFacts DEF ServerOK, Exists
  <2> QED
    BY <2>2, <2>3, <2>4, <1>1 DEF ServerOK, Exists
<1>16. ASSUME NEW d \in Conns PROVE Flows(d)
  <2>1. CASE d # c
    BY <2>1, <1>8, InvFacts, SameFlows
  <2>2. CASE d = c
    <3>1. Rising(Unsent(t)) /\ Silent(Unsent(t))
      BY <1>3, <1>4, UnsentFacts DEF Silent
    <3>2. /\ UnsentAt(c) = <<>> /\ QueueAt(c) = <<>>
          /\ UnsentAt(c)' = Unsent(t) /\ QueueAt(c)' = t.q
      BY <1>3, <1>8, <1>10 DEF UnsentAt, QueueAt, Exists
    <3>3. Rising(wire["app"][c]) => Rising(wire'["app"][c])
      BY <1>8, EmptyFacts
    <3>4. \A m : Has(m, wire'["app"][c]) => Has(m, wire["app"][c])
      BY <1>8, EmptyFacts
    <3>5. Ordered(wire["app"][c], UnsentAt(c)) => Ordered(wire'["app"][c], UnsentAt(c)')
      BY <3>1, <3>2, <3>3 DEF Ordered, Silent
    <3>6. \A m \in Data : (InPipe(m, c)' => InPipe(m, c)) /\ ~Has(m, QueueAt(c)')
      BY <3>1, <3>2, <3>4, <1>3 DEF InPipe, Silent
    <3> QED
      BY <2>2, <3>2, <3>5, <3>6, <1>3 DEF Flows
  <2> QED
    BY <2>1, <2>2
<1>17. app'.resolves > 0 \/ app'.waits > 0 => app'.got = <<>>
  BY <1>1, InvFacts DEF StreamOK
<1>18. StreamOK' /\ OnceOK'
  BY <1>1, <1>11, <1>12, <1>16, <1>17, InvFacts, StreamStep
<1> QED
  BY <1>9, <1>13, <1>14, <1>15, <1>18 DEF IInv, ControlOK

\* One session changes and stays.
LEMMA OneStill ==
  ASSUME ControlOK, NEW p \in Procs, NEW c \in Conns, Exists(p, c), NEW t,
         SessOK(t), t # None, sess[p][c].auth => t.auth,
         sess[p][c].sock # "connecting", t.sock # "connecting",
         NEW w \in WireType, Becomes(p, c, With(p, c, t), w)
  PROVE  /\ Still /\ sess'[p][c] = t
         /\ \A r \in Procs, d \in Conns : r # p \/ d # c => sess'[r][d] = sess[r][d]
         /\ \A r \in Procs, d \in Conns : wire'[r][d] = w[r][d] \/ wire'[r][d] = <<>>
<1>1. TypeOK /\ SessionsOK /\ t \in SessionType(Lines)
  BY DEF ControlOK, SessOK
<1>2. /\ sess' \in [Procs -> SessType] /\ wire' \in WireType
      /\ sess'[p][c] = t
      /\ \A r \in Procs, d \in Conns : r # p \/ d # c => sess'[r][d] = sess[r][d]
      /\ \A r \in Procs, d \in Conns : wire'[r][d] = w[r][d] \/ wire'[r][d] = <<>>
  BY <1>1, OneBecomes
<1>3. ASSUME NEW r \in Procs, NEW d \in Conns
      PROVE  /\ Exists(r, d)' <=> Exists(r, d)
             /\ Exists(r, d) => /\ sess[r][d].auth => sess'[r][d].auth
                                /\ SessOK(sess'[r][d])
                                /\ sess'[r][d].sock = "connecting" <=> sess[r][d].sock = "connecting"
  <2>1. CASE r = p /\ d = c
    BY <2>1, <1>2 DEF Exists
  <2>2. CASE r # p \/ d # c
    BY <2>2, <1>1, <1>2 DEF Exists, SessionsOK
  <2> QED
    BY <2>1, <2>2
<1>4. SessionsOK'
  BY <1>3 DEF SessionsOK
<1> QED
  BY <1>2, <1>3, <1>4 DEF Still

\* The server reads the first line, and the queue stays: there is no
\* predecessor, or the loop does not end.
LEMMA ServerAuthKeeps ==
  ASSUME IInv, NEW c \in Conns, Exists("srv", c), sess["srv"][c].rd # "off",
         NEW t, SessOK(t), t # None, t.auth, t.sock # "connecting",
         t.q = sess["srv"][c].q, Unsent(t) = Unsent(sess["srv"][c]),
         NEW w \in WireType, \A d \in Conns : w["app"][d] = wire["app"][d],
         Becomes("srv", c, With("srv", c, t), w),
         srv' \in SrvType, srv'.local = srv.local \/ srv'.local = c,
         gone' = gone, backlog' = backlog, app' = app, next' = next, seen' = seen,
         raced' = raced
  PROVE  IInv'
<1>1. PICK p \in Procs : p = "srv"
  BY InvFacts
<1>2. sess["srv"][c].sock # "connecting"
  BY <1>1, SessionFacts
<1>3. Becomes(p, c, With(p, c, t), w) /\ Exists(p, c) /\ sess[p][c].sock # "connecting"
  BY <1>1, <1>2
<1>4. /\ Still /\ sess'[p][c] = t
      /\ \A r \in Procs, d \in Conns : r # p \/ d # c => sess'[r][d] = sess[r][d]
      /\ \A r \in Procs, d \in Conns : wire'[r][d] = w[r][d] \/ wire'[r][d] = <<>>
  BY <1>3, InvFacts, OneStill
<1>5. /\ sess'["srv"][c] = t
      /\ \A d \in Conns : d # c => sess'["srv"][d] = sess["srv"][d]
      /\ \A d \in Conns : sess'["app"][d] = sess["app"][d]
      /\ \A d \in Conns : wire'["app"][d] = wire["app"][d] \/ wire'["app"][d] = <<>>
  BY <1>1, <1>4, InvFacts
<1>6. ASSUME NEW d \in Conns PROVE Flows(d)
  <2>1. UnsentAt(d)' = UnsentAt(d) /\ QueueAt(d)' = QueueAt(d)
    BY <1>5 DEF UnsentAt, QueueAt, Exists
  <2>2. SuffixOf(UnsentAt(d)', UnsentAt(d)) /\ SuffixOf(QueueAt(d)', QueueAt(d))
    BY <2>1, InvFacts, PipeTypes, SuffixCases
  <2>3. SuffixOf(wire'["app"][d], wire["app"][d])
    BY <1>5, InvFacts, PipeTypes, SuffixCases
  <2> QED
    BY <2>2, <2>3, <1>4, InvFacts, StillFlows
<1>7. \A d \in Conns : Exists("app", d) /\ sess'["app"][d].auth => app'.local # None
  BY <1>5, InvFacts DEF ClientOK
<1>8. /\ app' \in AppType /\ ~app'.nullSend /\ next' \in 1..(MaxMsgs + 1)
      /\ seen' \in [Data -> Nat] /\ raced' \in BOOLEAN
  BY InvFacts DEF ClientOK
<1>9. \/ srv'.local = srv.local
      \/ srv'.local \in Conns /\ Exists("srv", srv'.local) /\ sess'["srv"][srv'.local].auth
  BY <1>5
<1>10. /\ ControlOK'
       /\ \A d \in Conns : /\ Exists("app", d)' => Exists("app", d)
                           /\ Waiting(d)' => Waiting(d)
  BY <1>4, <1>7, <1>8, <1>9, InvFacts, StillStep
<1>11. app'.resolves > 0 \/ app'.waits > 0 => app'.got = <<>>
  BY InvFacts DEF StreamOK
<1>12. StreamOK' /\ OnceOK'
  BY <1>6, <1>10, <1>11, InvFacts, StreamStep
<1> QED
  BY <1>10, <1>12 DEF IInv

\* The queue of the predecessor old goes to the session t of connection c.
LEMMA TakeOverKeeps ==
  ASSUME IInv, NEW c \in Conns, NEW old \in Conns, old = srv.local,
         Exists("srv", c), ~sess["srv"][c].auth, sess["srv"][c].rd # "off",
         NEW o, o = sess["srv"][old],
         NEW t, SessOK(t), t # None, t.auth, t.sock # "connecting",
         Rising(t.q), \A m \in Data : Has(m, t.q) => Has(m, o.q),
         NEW w \in WireType, \A d \in Conns : w["app"][d] = wire["app"][d],
         Becomes("srv", c, [With("srv", c, t) EXCEPT ![old] = [o EXCEPT !.q = <<>>]], w),
         srv' \in SrvType, srv'.local = c,
         gone' = gone, backlog' = backlog, app' = app, next' = next, seen' = seen,
         raced' = (raced \/ (o.wr # "none" /\ o.q # <<>>))
  PROVE  IInv'
<1> DEFINE x == [o EXCEPT !.q = <<>>]
           S == [With("srv", c, t) EXCEPT ![old] = x]
<1>1. old # c /\ Exists("srv", old) /\ o # None /\ o.auth
  <2>1. old # None
    BY ConstantFacts
  <2> QED
    BY <2>1, InvFacts DEF ServerOK, Exists
<1>2. SessOK(o) /\ SessOK(t) /\ o \in SessionType(Lines) /\ t \in SessionType(Lines)
  BY <1>1, InvFacts DEF SessionsOK, SessOK
<1>3. x \in SessionType(Lines) /\ x.q = <<>> /\ x.auth = o.auth /\ x.sock = o.sock /\ Unsent(x) = <<>>
  BY <1>2, EmptySeq DEF SessionType, Unsent
<1>4. SessOK(x) /\ x # None /\ x.sock # "connecting" /\ o.sock # "connecting"
  <2>1. Len(x.q) = 0
    BY <1>3, EmptySeq
  <2>2. x # None
    BY <1>3, ConstantFacts
  <2>3. o.sock # "connecting"
    BY <1>1, <1>2 DEF SessOK
  <2> HIDE DEF x
  <2> QED
    BY <1>1, <1>3, <2>1, <2>2, <2>3 DEF SessOK
<1> HIDE DEF x
<1>5. S \in SessType /\ S[c] = t /\ S[old] = x
      /\ \A d \in Conns : d # c /\ d # old => S[d] = sess["srv"][d]
  <2> DEFINE T == SessionType(Lines) \cup {None}
             R == With("srv", c, t)
  <2>1. sess["srv"] \in [Conns -> T] /\ t \in T /\ x \in T
    BY <1>2, <1>3, InvFacts DEF SessType
  <2> HIDE DEF T
  <2>2. R \in [Conns -> T] /\ R[c] = t /\ \A d \in Conns : d # c => R[d] = sess["srv"][d]
    BY <2>1 DEF With
  <2>3. S = [R EXCEPT ![old] = x]
    OBVIOUS
  <2> HIDE DEF R
  <2>4. S \in [Conns -> T] /\ S[c] = t /\ S[old] = x
        /\ \A d \in Conns : d # c /\ d # old => S[d] = sess["srv"][d]
    <3> HIDE DEF S
    <3> QED
      BY <2>1, <2>2, <2>3, <1>1
  <2> QED
    BY <2>4 DEF SessType, T
<1>6. Becomes("srv", c, S, w)
  BY DEF x
<1> HIDE DEF S
<1>7. PICK p \in Procs : p = "srv"
  BY InvFacts
<1>8. /\ sess' \in [Procs -> SessType] /\ wire' \in WireType
      /\ sess'[p] = S /\ \A r \in Procs \ {p} : sess'[r] = sess[r]
      /\ \A r \in Procs, d \in Conns : wire'[r][d] = w[r][d] \/ wire'[r][d] = <<>>
  BY <1>5, <1>6, <1>7, InvFacts, BecomesFacts
<1>9. /\ sess'["srv"][c] = t /\ sess'["srv"][old] = x
      /\ \A d \in Conns : d # c /\ d # old => sess'["srv"][d] = sess["srv"][d]
      /\ \A d \in Conns : sess'["app"][d] = sess["app"][d]
      /\ \A d \in Conns : wire'["app"][d] = wire["app"][d] \/ wire'["app"][d] = <<>>
  BY <1>5, <1>7, <1>8, InvFacts
<1>10. sess["srv"][c].sock # "connecting" /\ SessOK(sess["srv"][c])
  BY <1>7, SessionFacts
<1>11. Still
  <2>1. ASSUME NEW r \in Procs, NEW d \in Conns
        PROVE  /\ Exists(r, d)' <=> Exists(r, d)
               /\ Exists(r, d) => /\ sess[r][d].auth => sess'[r][d].auth
                                  /\ SessOK(sess'[r][d])
                                  /\ sess'[r][d].sock = "connecting" <=> sess[r][d].sock = "connecting"
    <3>1. CASE r = "srv" /\ d = c
      BY <3>1, <1>2, <1>9, <1>10 DEF Exists
    <3>2. CASE r = "srv" /\ d = old
      BY <3>2, <1>1, <1>3, <1>4, <1>9 DEF Exists
    <3>3. CASE r # "srv" \/ (d # c /\ d # old)
      <4>1. sess'[r][d] = sess[r][d]
        BY <3>3, <1>9 DEF Procs
      <4> QED
        BY <4>1, InvFacts DEF Exists, SessionsOK
    <3> QED
      BY <3>1, <3>2, <3>3
  <2>2. SessionsOK'
    BY <2>1 DEF SessionsOK
  <2> QED
    BY <1>8, <2>1, <2>2 DEF Still
<1>12. \A d \in Conns : Exists("app", d) /\ sess'["app"][d].auth => app'.local # None
  BY <1>9, InvFacts DEF ClientOK
<1>13. /\ app' \in AppType /\ ~app'.nullSend /\ next' \in 1..(MaxMsgs + 1)
       /\ seen' \in [Data -> Nat] /\ raced' \in BOOLEAN
  BY InvFacts DEF ClientOK
<1>14. srv'.local \in Conns /\ Exists("srv", srv'.local) /\ sess'["srv"][srv'.local].auth
  BY <1>9
<1>15. /\ ControlOK'
       /\ \A d \in Conns : /\ Exists("app", d)' => Exists("app", d)
                           /\ Waiting(d)' => Waiting(d)
  BY <1>11, <1>12, <1>13, <1>14, InvFacts, StillStep
<1>16. \A d \in Conns : PipeOK(d)
  BY InvFacts DEF StreamOK
<1>17. /\ UnsentAt(c)' = Unsent(t) /\ QueueAt(c)' = t.q
       /\ UnsentAt(old)' = <<>> /\ QueueAt(old)' = <<>>
       /\ UnsentAt(old) = Unsent(o) /\ QueueAt(old) = o.q
  BY <1>1, <1>3, <1>4, <1>9 DEF UnsentAt, QueueAt
<1>18. ASSUME NEW d \in Conns, d # c PROVE Flows(d)
  <2>1. CASE d # old
    BY <2>1, <1>9, <1>18, InvFacts, SameFlows
  <2>2. CASE d = old
    <3>1. \A m \in Data : /\ InPipe(m, d)' => InPipe(m, d)
                          /\ ~Has(m, QueueAt(d)')
      BY <2>2, <1>9, <1>17, EmptyFacts DEF InPipe
    <3>2. Ordered(wire["app"][d], UnsentAt(d)) => Ordered(wire'["app"][d], UnsentAt(d)')
      BY <2>2, <1>9, <1>17, EmptyFacts DEF Ordered
    <3> QED
      BY <2>2, <3>1, <3>2, <1>17, EmptyFacts DEF Flows
  <2> QED
    BY <2>1, <2>2
\* Before it was authenticated, the connection was silent.
<1>19. /\ Waiting(c) /\ ~Waiting(c)'
       /\ \A m \in Data : ~InPipe(m, c) /\ ~Has(m, QueueAt(c))
       /\ Exists("app", c) => app.got = <<>>
  <2>1. Waiting(c)
    BY DEF Waiting
  <2>2. ~Fresh(c) /\ c \notin backlog
    BY InvFacts DEF ServerOK
  <2>3. ~Waiting(c)'
    <3>1. Fresh(c)' => Fresh(c)
      BY <1>9 DEF Fresh, Exists, Connecting
    <3> QED
      BY <2>2, <3>1, <1>9 DEF Waiting
  <2> QED
    BY <2>1, <2>3, <1>16 DEF PipeOK
<1>20. \A m \in Data : ~Has(m, wire'["app"][c])
  BY <1>9, <1>19, EmptyFacts DEF InPipe
<1>21. Rising(Unsent(t)) /\ \A m \in Data : Has(m, Unsent(t)) => Has(m, t.q)
  BY <1>2, UnsentFacts
<1>22. \A m \in Data : InPipe(m, c)' \/ Has(m, QueueAt(c)') => Has(m, o.q)
  BY <1>17, <1>20, <1>21 DEF InPipe
<1>23. \A m \in Data : Has(m, o.q) => m < next
  BY <1>16, <1>17 DEF PipeOK
<1>24. PipeOK(c)'
  <2>1. Rising(wire'["app"][c])
    BY <1>9, <1>16, EmptyFacts DEF PipeOK, Ordered
  <2>2. Ordered(wire'["app"][c], UnsentAt(c)')
    BY <2>1, <1>17, <1>20, <1>21 DEF Ordered
  <2>3. Exists("app", c)' => \A k \in Data : ~Has(k, app'.got)
    BY <1>15, <1>19, EmptyFacts
  <2> QED
    BY <2>2, <2>3, <1>17, <1>19, <1>22, <1>23 DEF PipeOK
<1>25. \A d \in Conns : d # c => PipeOK(d)'
  BY <1>15, <1>16, <1>18, PipeStep
<1>26. StreamOK'
  BY <1>24, <1>25, InvFacts DEF StreamOK
<1>27. ASSUME ~raced' PROVE ~raced /\ \A m \in Data : InPipe(m, c)' => InPipe(m, old)
  <2>1. ~raced /\ (o.wr = "none" \/ o.q = <<>>)
    BY <1>27
  <2>2. Unsent(o) = o.q
    BY <2>1 DEF Unsent
  <2> QED
    BY <2>1, <2>2, <1>17, <1>22 DEF InPipe
\* The pipe of the predecessor holds only what was sent: its queue is empty.
<1>28. ASSUME ~raced', NEW m \in Data, InPipe(m, c)' PROVE ~InPipe(m, old)'
  <2>1. Has(m, o.q) /\ Unsent(o) = o.q
    BY <1>22, <1>27, <1>28 DEF Unsent
  <2>2. ~Has(m, wire["app"][old])
    <3>1. Ordered(wire["app"][old], o.q) /\ m \in Nat
      BY <2>1, <1>16, <1>17, ConstantFacts DEF PipeOK
    <3> QED
      BY <2>1, <3>1 DEF Ordered
  <2> QED
    BY <2>2, <1>9, <1>17, EmptyFacts DEF InPipe
<1>29. OnceOK'
  <2> SUFFICES ASSUME ~raced', NEW m \in Data
               PROVE  /\ seen[m] <= 1
                      /\ m >= next => seen[m] = 0
                      /\ \A d \in Conns : InPipe(m, d)' =>
                           /\ seen[m] = 0
                           /\ \A e \in Conns : InPipe(m, e)' => e = d
    BY DEF OnceOK
  <2>1. /\ seen[m] <= 1 /\ (m >= next => seen[m] = 0)
        /\ \A d \in Conns : InPipe(m, d) => /\ seen[m] = 0
                                            /\ \A e \in Conns : InPipe(m, e) => e = d
    BY <1>27, InvFacts DEF OnceOK
  <2>2. \A d \in Conns : d # c => (InPipe(m, d)' => InPipe(m, d))
    BY <1>18 DEF Flows
  <2>3. CASE InPipe(m, c)'
    <3>1. InPipe(m, old) /\ ~InPipe(m, old)'
      BY <2>3, <1>27, <1>28
    <3>2. \A d \in Conns : InPipe(m, d)' => d = c
      BY <2>1, <2>2, <3>1
    <3> QED
      BY <2>1, <3>1, <3>2
  <2>4. CASE ~InPipe(m, c)'
    BY <2>1, <2>2, <2>4
  <2> QED
    BY <2>3, <2>4
<1> QED
  BY <1>15, <1>26, <1>29 DEF IInv

\* The server reads the first line of a connection.
LEMMA FirstLineStep ==
  ASSUME IInv, NEW c \in Conns, SrvRead(c), ~sess["srv"][c].auth
  PROVE  IInv'
<1> DEFINE s0 == sess["srv"][c]
           s == [s0 EXCEPT !.auth = TRUE]
           z == Tail(wire["srv"][c])
           w == [wire EXCEPT !["srv"][c] = z]
           old == srv.local
           o == sess["srv"][old]
<1>1. /\ Exists("srv", c) /\ s0.rd # "off" /\ wire["srv"][c] # <<>> /\ ServerAuth(c)
      /\ gone' = gone /\ backlog' = backlog /\ app' = app /\ next' = next /\ seen' = seen
  BY DEF SrvRead
<1>2. SessOK(s0) /\ s0.sock # "connecting" /\ ~s0.auth
  BY <1>1, InvFacts, SessionFacts
<1>3. /\ SessOK(s) /\ s.auth /\ s.sock # "connecting" /\ s.q = s0.q
      /\ Unsent(s) = Unsent(s0) /\ s.wr = s0.wr /\ s # None
  <2> HIDE DEF s0
  <2> QED
    BY <1>2, AuthOK
<1>4. w \in WireType /\ \A d \in Conns : w["app"][d] = wire["app"][d]
  <2>1. z \in Seq(Lines)
    BY <1>1, InvFacts, PipeTypes, HeadFacts
  <2> HIDE DEF z
  <2>2. PICK r \in Procs : r = "srv"
    BY InvFacts
  <2>3. /\ [wire EXCEPT ![r][c] = z] \in WireType
        /\ \A p \in Procs, d \in Conns :
              p # r \/ d # c => [wire EXCEPT ![r][c] = z][p][d] = wire[p][d]
    BY <2>1, InvFacts, PutWire
  <2> QED
    BY <2>2, <2>3, InvFacts
<1>5. \/ /\ old = None
         /\ \E t \in LineDone(s) : Becomes("srv", c, With("srv", c, t), w)
         /\ srv' = [srv EXCEPT !.local = c]
         /\ raced' = raced
      \/ /\ Becomes("srv", c, With("srv", c, s), w)
         /\ srv' = [srv EXCEPT !.is = "hung"]
         /\ raced' = raced
      \/ /\ old # None /\ ~Loops(o)
         /\ \E r \in TakeOver(s, o) : \E t \in LineDone(r[1]) :
              Becomes("srv", c, [With("srv", c, t) EXCEPT ![old] = r[2]], w)
         /\ srv' = [srv EXCEPT !.local = c]
         /\ raced' = (raced \/ (o.wr # "none" /\ o.q # <<>>))
  BY <1>1 DEF ServerAuth
<1> HIDE DEF s, w
<1>6. ASSUME NEW t \in LineDone(s), Becomes("srv", c, With("srv", c, t), w),
             srv' = [srv EXCEPT !.local = c], raced' = raced
      PROVE  IInv'
  <2>1. Goes(s, t) /\ t.q = s.q /\ Unsent(t) = Unsent(s)
    BY <1>3, <1>6, LineDoneOK
  <2>2. SessOK(t) /\ t # None /\ t.auth /\ t.sock # "connecting"
    BY <2>1, <1>3 DEF Goes
  <2>3. srv' \in SrvType /\ srv'.local = c
    BY <1>6, InvFacts DEF SrvType
  <2> QED
    BY <1>1, <1>3, <1>4, <1>6, <2>1, <2>2, <2>3, ServerAuthKeeps
<1>7. ASSUME Becomes("srv", c, With("srv", c, s), w),
             srv' = [srv EXCEPT !.is = "hung"], raced' = raced
      PROVE  IInv'
  <2>1. srv' \in SrvType /\ srv'.local = srv.local
    BY <1>7, InvFacts DEF SrvType
  <2> QED
    BY <1>1, <1>3, <1>4, <1>7, <2>1, ServerAuthKeeps
<1>8. ASSUME old # None, ~Loops(o), NEW r \in TakeOver(s, o), NEW t \in LineDone(r[1]),
             Becomes("srv", c, [With("srv", c, t) EXCEPT ![old] = r[2]], w),
             srv' = [srv EXCEPT !.local = c],
             raced' = (raced \/ (o.wr # "none" /\ o.q # <<>>))
      PROVE  IInv'
  <2>1. old \in Conns /\ Exists("srv", old)
    BY <1>8, InvFacts DEF SrvType, ServerOK
  <2>2. SessOK(o) /\ o.q \in Seq(Lines) /\ Rising(o.q)
    <3>1. SessOK(o) /\ o # None
      BY <2>1, InvFacts DEF SessionsOK, Exists
    <3>2. PipeOK(old)
      BY <2>1, InvFacts DEF StreamOK
    <3>3. QueueAt(old) = o.q
      BY <3>1 DEF QueueAt
    <3> QED
      BY <3>1, <3>2, <3>3 DEF SessOK, SessionType, PipeOK
  <2> HIDE DEF old, o
  <2>3. ~Has(Auth, o.q)
    <3> SUFFICES ASSUME Has(Auth, o.q) PROVE FALSE
      OBVIOUS
    <3>1. PICK i \in 1..Len(o.q) : o.q[i] = Auth
      BY DEF Has
    <3>2. i = 1
      BY <2>2, <3>1 DEF SessOK
    <3>3. o.q # <<>>
      BY <3>1, <2>2, EmptySeq
    <3>4. Head(o.q) = Auth
      BY <3>1, <3>2, <3>3, <2>2, HeadTailProperties
    <3> QED
      BY <1>8, <3>3, <3>4 DEF Loops
  <2>4. PICK u \in TakeOverMessages(s, o.q) : r = <<u, [o EXCEPT !.q = <<>>]>>
    BY <1>8 DEF TakeOver
  <2>5. r[1] = u /\ r[2] = [o EXCEPT !.q = <<>>]
    BY <2>4
  <2>6. /\ Len(s.q) <= 1 /\ (\A i \in 1..Len(s.q) : s.q[i] = Auth)
        /\ s.wr # "none" => s.q # <<>>
    BY <1>2, <1>3 DEF SessOK
  <2>7. /\ SessOK(u) /\ u.auth /\ u.sock # "connecting"
        /\ Rising(u.q) /\ \A m \in Data : Has(m, u.q) => Has(m, o.q)
    BY <1>3, <2>2, <2>3, <2>4, <2>6, TakeOverOK
  <2>8. t \in LineDone(u)
    BY <1>8, <2>5
  <2>9. Goes(u, t) /\ t.q = u.q
    BY <2>7, <2>8, LineDoneOK
  <2>10. /\ SessOK(t) /\ t # None /\ t.auth /\ t.sock # "connecting"
         /\ Rising(t.q) /\ \A m \in Data : Has(m, t.q) => Has(m, o.q)
    BY <2>7, <2>9 DEF Goes
  <2>11. Becomes("srv", c, [With("srv", c, t) EXCEPT ![old] = [o EXCEPT !.q = <<>>]], w)
    BY <1>8, <2>5
  <2>12. srv' \in SrvType /\ srv'.local = c
    BY <1>8, InvFacts DEF SrvType
  <2>13. old = srv.local /\ o = sess["srv"][old]
    BY DEF old, o
  <2> QED
    BY <1>1, <1>2, <1>4, <1>8, <2>1, <2>10, <2>11, <2>12, <2>13, TakeOverKeeps
<1> QED
  BY <1>5, <1>6, <1>7, <1>8

LEMMA SrvReadStep ==
  ASSUME IInv, NEW c \in Conns, SrvRead(c) PROVE IInv'
  BY RouterReadStep, FirstLineStep

\* handleLocalMsg() queues message next, which is above all before it.
LEMMA HandleLocalMsgStep ==
  ASSUME IInv, HandleLocalMsg PROVE IInv'
<1>0. PICK l : l = srv.local
  OBVIOUS
<1> DEFINE s == sess["srv"][l]
           t == PutOutQueue(s, next)
           v == [sess["srv"] EXCEPT ![l] = t]
<1>1. /\ next <= MaxMsgs /\ next' = next + 1
      /\ gone' = gone /\ wire' = wire /\ backlog' = backlog /\ srv' = srv /\ app' = app
      /\ seen' = seen /\ raced' = raced
      /\ sess' = IF l = None THEN sess ELSE [sess EXCEPT !["srv"] = v]
  BY <1>0 DEF HandleLocalMsg
<1>2. /\ next \in Data /\ next \in Nat /\ next' \in 1..(MaxMsgs + 1)
      /\ next \in Lines /\ next # Auth
  <2>1. next \in 1..(MaxMsgs + 1) /\ MaxMsgs \in Nat
    BY InvFacts, ConstantFacts
  <2>2. next \in Data /\ next' \in 1..(MaxMsgs + 1)
    BY ONLY <1>1, <2>1 DEF Data
  <2> QED
    BY <2>2, ConstantFacts
<1>3. \A m \in Data : /\ m \in Nat /\ (m < next => m < next') /\ (m >= next' => m >= next)
                      /\ (m = next => m < next' /\ ~(m < next)) /\ (m >= next' => m # next)
  BY <1>1, <1>2, ConstantFacts
<1>4. l # None => /\ l \in Conns /\ Exists("srv", l) /\ s # None /\ s.auth /\ SessOK(s)
  BY <1>0, InvFacts DEF SrvType, ServerOK, SessionsOK, Exists
<1>5. l # None => /\ SessOK(t) /\ t.auth /\ t.sock = s.sock /\ t # None /\ t \in SessionType(Lines)
                  /\ t.q = Append(s.q, next) /\ Unsent(t) = Append(Unsent(s), next)
  <2> HIDE DEF s
  <2> QED
    BY <1>2, <1>4, PutOutQueueOK DEF SessOK
<1> HIDE DEF t
<1>6. /\ sess' \in [Procs -> SessType]
      /\ l # None => sess'["srv"][l] = t
      /\ \A d \in Conns : d # l => sess'["srv"][d] = sess["srv"][d]
      /\ \A d \in Conns : sess'["app"][d] = sess["app"][d]
  <2>1. CASE l = None
    BY <2>1, <1>1, InvFacts
  <2>2. CASE l # None
    <3> DEFINE T == SessionType(Lines) \cup {None}
    <3>1. sess["srv"] \in [Conns -> T] /\ t \in T /\ l \in Conns
      BY <2>2, <1>4, <1>5, InvFacts DEF SessType
    <3> HIDE DEF T
    <3>2. v \in [Conns -> T] /\ v[l] = t /\ \A d \in Conns : d # l => v[d] = sess["srv"][d]
      BY <3>1
    <3>3. v \in SessType
      BY <3>2 DEF SessType, T
    <3> HIDE DEF v
    <3>4. sess' = [sess EXCEPT !["srv"] = v]
      BY <2>2, <1>1
    <3> QED
      BY <3>2, <3>3, <3>4, InvFacts
  <2> QED
    BY <2>1, <2>2
<1>7. Still
  <2>1. ASSUME NEW r \in Procs, NEW d \in Conns
        PROVE  /\ Exists(r, d)' <=> Exists(r, d)
               /\ Exists(r, d) => /\ sess[r][d].auth => sess'[r][d].auth
                                  /\ SessOK(sess'[r][d])
                                  /\ sess'[r][d].sock = "connecting" <=> sess[r][d].sock = "connecting"
    <3>1. CASE r = "srv" /\ d = l
      <4>1. l # None
        BY <3>1, ConstantFacts
      <4> QED
        BY <3>1, <4>1, <1>4, <1>5, <1>6 DEF Exists
    <3>2. CASE r # "srv" \/ d # l
      <4>1. sess'[r][d] = sess[r][d]
        BY <3>2, <1>6 DEF Procs
      <4> QED
        BY <4>1, InvFacts DEF Exists, SessionsOK
    <3> QED
      BY <3>1, <3>2
  <2>2. SessionsOK'
    BY <2>1 DEF SessionsOK
  <2> QED
    BY <1>1, <1>6, <2>1, <2>2, InvFacts DEF Still
<1>8. \A d \in Conns : Exists("app", d) /\ sess'["app"][d].auth => app'.local # None
  BY <1>1, <1>6, InvFacts DEF ClientOK
<1>9. /\ app' \in AppType /\ ~app'.nullSend /\ srv' \in SrvType
      /\ seen' \in [Data -> Nat] /\ raced' \in BOOLEAN
  BY <1>1, InvFacts DEF ClientOK
<1>10. /\ ControlOK'
       /\ \A d \in Conns : /\ Exists("app", d)' => Exists("app", d)
                           /\ Waiting(d)' => Waiting(d)
  BY <1>1, <1>2, <1>7, <1>8, <1>9, InvFacts, StillStep
<1>11. \A d \in Conns : PipeOK(d)
  BY InvFacts DEF StreamOK
<1>12. \A d \in Conns : d # l => Flows(d)
  BY <1>1, <1>6, InvFacts, SameFlows
<1>13. \A d \in Conns : d # l => PipeOK(d)'
  BY <1>1, <1>3, <1>10, <1>11, <1>12, PipeStep
<1>14. ASSUME l # None
       PROVE  /\ PipeOK(l)'
              /\ \A m \in Data : InPipe(m, l)' <=> InPipe(m, l) \/ m = next
  <2> DEFINE w == wire["app"][l]
             u == Unsent(s)
             q == s.q
  <2>1. /\ UnsentAt(l) = u /\ QueueAt(l) = q
        /\ UnsentAt(l)' = Append(u, next) /\ QueueAt(l)' = Append(q, next)
        /\ wire'["app"][l] = w
    BY <1>1, <1>4, <1>5, <1>6, <1>14 DEF UnsentAt, QueueAt
  <2>2. w \in Seq(Lines) /\ u \in Seq(Lines) /\ q \in Seq(Lines)
    BY <2>1, <1>4, <1>14, InvFacts, PipeTypes
  <2>3. PipeOK(l) /\ l \in Conns
    BY <1>4, <1>11, <1>14
  <2> HIDE DEF w, u, q, s
  <2>4. /\ Ordered(w, u) /\ Rising(q)
        /\ \A m \in Data : Has(m, w) \/ Has(m, u) \/ Has(m, q) => m < next
    BY <2>1, <2>3 DEF PipeOK, InPipe, w
  <2>5. Rising(Append(u, next)) /\ \A m : Has(m, Append(u, next)) <=> Has(m, u) \/ m = next
    BY <2>2, <2>4, <1>2, AppendFacts DEF Ordered
  <2>6. Rising(Append(q, next)) /\ \A m : Has(m, Append(q, next)) <=> Has(m, q) \/ m = next
    BY <2>2, <2>4, <1>2, AppendFacts
  <2>7. Ordered(w, Append(u, next))
    BY <2>4, <2>5 DEF Ordered
  <2>8. \A m \in Data : InPipe(m, l)' <=> InPipe(m, l) \/ m = next
    BY <2>1, <2>5 DEF InPipe, w
  <2>9. \A m \in Data : InPipe(m, l)' \/ Has(m, QueueAt(l)') => m < next'
    BY <2>1, <2>3, <2>6, <2>8, <1>3 DEF PipeOK
  <2>10. ASSUME Exists("app", l)', NEW m \in Data, NEW k \in Data,
                InPipe(m, l)', Has(k, app'.got)
         PROVE  k < m
    <3>1. Exists("app", l) /\ Has(k, app.got)
      BY <2>3, <2>10, <1>1, <1>10
    <3>2. k < next
      BY <3>1, InvFacts DEF StreamOK
    <3>3. InPipe(m, l) => k < m
      BY <3>1, <2>3 DEF PipeOK
    <3> QED
      BY <2>8, <2>10, <3>2, <3>3
  <2>11. ~Waiting(l)'
    <3>1. ~Fresh(l) /\ l \notin backlog /\ Exists("srv", l) /\ sess["srv"][l].auth
      BY <1>4, <1>14, InvFacts DEF ServerOK, s
    <3>2. ~Waiting(l)
      BY <3>1 DEF Waiting
    <3> QED
      BY <3>2, <2>3, <1>10
  <2> QED
    BY <2>1, <2>6, <2>7, <2>8, <2>9, <2>10, <2>11 DEF PipeOK
<1>15. StreamOK'
  <2>1. \A d \in Conns : PipeOK(d)'
    <3>1. CASE l = None
      BY <3>1, <1>13, ConstantFacts
    <3>2. CASE l # None
      BY <3>2, <1>13, <1>14
    <3> QED
      BY <3>1, <3>2
  <2> QED
    BY <2>1, <1>1, <1>3, InvFacts DEF StreamOK
<1>16. OnceOK'
  <2> SUFFICES ASSUME ~raced, NEW m \in Data
               PROVE  /\ seen[m] <= 1
                      /\ m >= next' => seen[m] = 0
                      /\ \A d \in Conns : InPipe(m, d)' =>
                           /\ seen[m] = 0
                           /\ \A e \in Conns : InPipe(m, e)' => e = d
    BY <1>1 DEF OnceOK
  <2>1. /\ seen[m] <= 1 /\ (m >= next => seen[m] = 0)
        /\ \A d \in Conns : InPipe(m, d) => /\ seen[m] = 0
                                            /\ \A e \in Conns : InPipe(m, e) => e = d
    BY InvFacts DEF OnceOK
  <2>2. \A d \in Conns : InPipe(m, d)' => InPipe(m, d) \/ (m = next /\ d = l)
    <3>1. CASE l = None
      BY <3>1, <1>12, ConstantFacts DEF Flows
    <3>2. CASE l # None
      BY <3>2, <1>12, <1>14 DEF Flows
    <3> QED
      BY <3>1, <3>2
  <2>3. m = next => (\A d \in Conns : ~InPipe(m, d)) /\ m >= next
    BY <1>2, <1>3, <1>11 DEF PipeOK
  <2> QED
    BY <2>1, <2>2, <2>3, <1>3
<1> QED
  BY <1>10, <1>15, <1>16 DEF IInv

-----------------------------------------------------------------------------
(* The application reads a line.                                           *)

\* Whatever it does with the line, the line leaves the wire.
LEMMA AppReadFacts ==
  ASSUME IInv, NEW c \in Conns, Exists("app", c), sess["app"][c].rd # "off",
         wire["app"][c] # <<>>,
         NEW t, SessOK(t), t # None, t.auth, t.sock # "connecting",
         Becomes("app", c, With("app", c, t), [wire EXCEPT !["app"][c] = Tail(@)]),
         app' \in AppType, app'.up = app.up, app'.resolves = app.resolves,
         app'.waits = app.waits, ~app'.nullSend, app'.local # None,
         seen' \in [Data -> Nat],
         gone' = gone, backlog' = backlog, srv' = srv, next' = next, raced' = raced
  PROVE  /\ ControlOK'
         /\ \A d \in Conns : /\ Exists("app", d)' => d = c
                             /\ Waiting(d)' => Waiting(d)
                             /\ Flows(d)
         /\ UnsentAt(c)' = UnsentAt(c)
         /\ wire'["app"][c] = Tail(wire["app"][c]) \/ wire'["app"][c] = <<>>
<1> DEFINE z == Tail(wire["app"][c])
<1>1. z \in Seq(Lines) /\ SuffixOf(z, wire["app"][c])
  BY InvFacts, PipeTypes, SuffixCases
<1>2. PICK p \in Procs : p = "app"
  BY InvFacts
<1>3. PICK w : w = [wire EXCEPT ![p][c] = z]
  OBVIOUS
<1> HIDE DEF z
<1>4. /\ w \in WireType /\ w[p][c] = z
      /\ \A r \in Procs, d \in Conns : r # p \/ d # c => w[r][d] = wire[r][d]
  <2>1. z \in Seq(Lines) /\ wire \in WireType
    BY <1>1, InvFacts
  <2>2. /\ [wire EXCEPT ![p][c] = z] \in WireType
        /\ [wire EXCEPT ![p][c] = z][p][c] = z
        /\ \A r \in Procs, d \in Conns :
              r # p \/ d # c => [wire EXCEPT ![p][c] = z][r][d] = wire[r][d]
    BY ONLY <2>1, c \in Conns, p \in Procs, PutWire
  <2> QED
    BY <1>3, <2>2
<1>5. Becomes(p, c, With(p, c, t), w) /\ Exists(p, c) /\ sess[p][c].sock # "connecting"
  <2>1. Becomes(p, c, With(p, c, t), w)
    BY <1>2, <1>3 DEF z
  <2> QED
    BY <2>1, <1>2, SessionFacts
<1>6. /\ Still /\ sess'[p][c] = t
      /\ \A r \in Procs, d \in Conns : r # p \/ d # c => sess'[r][d] = sess[r][d]
      /\ \A r \in Procs, d \in Conns : wire'[r][d] = w[r][d] \/ wire'[r][d] = <<>>
  BY <1>4, <1>5, InvFacts, OneStill
<1>7. \A d \in Conns : sess'["srv"][d] = sess["srv"][d]
  BY <1>2, <1>6, InvFacts
<1>8. \A d \in Conns : UnsentAt(d)' = UnsentAt(d) /\ QueueAt(d)' = QueueAt(d)
  BY <1>7 DEF UnsentAt, QueueAt
<1>9. wire'["app"][c] = z \/ wire'["app"][c] = <<>>
  BY <1>2, <1>4, <1>6
<1>10. ASSUME NEW d \in Conns PROVE Flows(d)
  <2>1. SuffixOf(wire'["app"][d], wire["app"][d])
    <3>1. CASE d = c
      BY <3>1, <1>1, <1>9, InvFacts, PipeTypes, SuffixCases
    <3>2. CASE d # c
      BY <3>2, <1>2, <1>4, <1>6, InvFacts, PipeTypes, SuffixCases
    <3> QED
      BY <3>1, <3>2
  <2>2. SuffixOf(UnsentAt(d)', UnsentAt(d)) /\ SuffixOf(QueueAt(d)', QueueAt(d))
    BY <1>8, InvFacts, PipeTypes, SuffixCases
  <2> QED
    BY <2>1, <2>2, <1>6, InvFacts, StillFlows
<1>11. srv' \in SrvType /\ next' \in 1..(MaxMsgs + 1) /\ raced' \in BOOLEAN
  BY InvFacts
<1>12. /\ ControlOK'
       /\ \A d \in Conns : /\ Exists("app", d)' => Exists("app", d)
                           /\ Waiting(d)' => Waiting(d)
  BY <1>6, <1>11, InvFacts, StillStep
<1>13. \A d \in Conns : Exists("app", d)' => d = c
  BY <1>12, InvFacts DEF ClientOK
<1> QED
  BY <1>8, <1>9, <1>10, <1>12, <1>13 DEF z

\* A line that is no application message, or the first one.
LEMMA AppReadQuiet ==
  ASSUME IInv, NEW c \in Conns, AppRead(c),
         NEW t, SessOK(t), t # None, t.auth, t.sock # "connecting",
         Becomes("app", c, With("app", c, t), [wire EXCEPT !["app"][c] = Tail(@)]),
         app' \in AppType, app'.up = app.up, app'.resolves = app.resolves,
         app'.waits = app.waits, ~app'.nullSend, app'.local # None,
         app'.got = app.got, seen' = seen
  PROVE  IInv'
<1>1. /\ Exists("app", c) /\ sess["app"][c].rd # "off" /\ wire["app"][c] # <<>>
      /\ gone' = gone /\ backlog' = backlog /\ srv' = srv /\ next' = next /\ raced' = raced
  BY DEF AppRead
<1>2. seen' \in [Data -> Nat]
  BY InvFacts
<1>3. /\ ControlOK'
      /\ \A d \in Conns : /\ Exists("app", d)' => d = c
                          /\ Waiting(d)' => Waiting(d)
                          /\ Flows(d)
  BY <1>1, <1>2, AppReadFacts
<1>4. app'.resolves > 0 \/ app'.waits > 0 => app'.got = <<>>
  BY InvFacts DEF StreamOK
<1>5. \A d \in Conns : Exists("app", d)' => Exists("app", d)
  BY <1>1, <1>3
<1>6. StreamOK' /\ OnceOK'
  BY <1>1, <1>3, <1>4, <1>5, InvFacts, StreamStep
<1> QED
  BY <1>3, <1>6 DEF IInv

\* An application message: it is above all that the process got, below all that
\* is still on its way, and in no other pipe.
LEMMA AppReadMessage ==
  ASSUME IInv, NEW c \in Conns, AppRead(c),
         NEW m \in Data, m = Head(wire["app"][c]),
         NEW t, SessOK(t), t # None, t.auth, t.sock # "connecting",
         Becomes("app", c, With("app", c, t), [wire EXCEPT !["app"][c] = Tail(@)]),
         app' \in AppType, app'.up = app.up, app'.resolves = app.resolves,
         app'.waits = app.waits, ~app'.nullSend, app'.local # None,
         app'.got = Append(app.got, m), seen' = [seen EXCEPT ![m] = @ + 1]
  PROVE  IInv'
<1>1. /\ Exists("app", c) /\ sess["app"][c].rd # "off" /\ wire["app"][c] # <<>>
      /\ gone' = gone /\ backlog' = backlog /\ srv' = srv /\ next' = next /\ raced' = raced
  BY DEF AppRead
<1>2. /\ seen' \in [Data -> Nat] /\ seen[m] \in Nat /\ seen'[m] = seen[m] + 1
      /\ \A k \in Data : k # m => seen'[k] = seen[k]
  BY InvFacts
<1>3. /\ ControlOK'
      /\ \A d \in Conns : /\ Exists("app", d)' => d = c
                          /\ Waiting(d)' => Waiting(d)
                          /\ Flows(d)
      /\ UnsentAt(c)' = UnsentAt(c)
      /\ wire'["app"][c] = Tail(wire["app"][c]) \/ wire'["app"][c] = <<>>
  BY <1>1, <1>2, AppReadFacts
<1>4. PipeOK(c) /\ \A d \in Conns : PipeOK(d)
  BY InvFacts DEF StreamOK
<1> DEFINE w == wire["app"][c]
           u == UnsentAt(c)
<1>5. /\ \A k : Has(k, w) <=> k = m \/ Has(k, Tail(w))
      /\ \A k \in Data : Has(k, Tail(w)) => m < k
  <2>1. w \in Seq(Lines) /\ w # <<>> /\ Rising(w)
    BY <1>1, <1>4, InvFacts, PipeTypes DEF PipeOK, Ordered
  <2> HIDE DEF w
  <2>2. /\ \A k : Has(k, w) <=> k = Head(w) \/ Has(k, Tail(w))
        /\ Rising(w) =>
              /\ Rising(Tail(w))
              /\ Head(w) \in Data => \A k \in Data : Has(k, Tail(w)) => Head(w) < k
    BY ONLY <2>1, HeadFacts
  <2>3. m = Head(w)
    BY DEF w
  <2> QED
    BY <2>1, <2>2, <2>3
<1>6. InPipe(m, c) /\ m < next /\ ~Waiting(c)
  <2>1. InPipe(m, c)
    BY <1>5 DEF InPipe
  <2> QED
    BY <2>1, <1>4 DEF PipeOK
<1>7. \A k \in Data : InPipe(k, c)' => m < k
  <2>1. \A k \in Data : Has(k, wire'["app"][c]) => m < k
    BY <1>3, <1>5, EmptyFacts
  <2>2. \A k \in Data : Has(k, u) => m < k
    BY <1>4, <1>5 DEF PipeOK, Ordered
  <2> QED
    BY <2>1, <2>2, <1>3 DEF InPipe
<1>8. \A k \in Data : Has(k, app.got) => k < m
  BY <1>1, <1>4, <1>6 DEF PipeOK
<1>9. Rising(app'.got) /\ \A k : Has(k, app'.got) <=> Has(k, app.got) \/ k = m
  <2>1. app.got \in Seq(Data) /\ Rising(app.got)
    BY InvFacts DEF AppType, StreamOK
  <2> QED
    BY <2>1, <1>8, AppendFacts
<1>10. \A k \in Data : Has(k, app'.got) => k < next'
  BY <1>1, <1>6, <1>9, InvFacts DEF StreamOK
<1>11. ASSUME NEW d \in Conns PROVE PipeOK(d)'
  <2>1. Ordered(wire'["app"][d], UnsentAt(d)') /\ Rising(QueueAt(d)')
    BY <1>3, <1>4 DEF PipeOK, Flows
  <2>2. \A k \in Data : (InPipe(k, d)' => InPipe(k, d)) /\ (Has(k, QueueAt(d)') => Has(k, QueueAt(d)))
    BY <1>3 DEF Flows
  <2>3. \A k \in Data : InPipe(k, d)' \/ Has(k, QueueAt(d)') => k < next'
    BY <2>2, <1>1, <1>4 DEF PipeOK
  <2>4. ASSUME Exists("app", d)', NEW i \in Data, NEW k \in Data,
               InPipe(i, d)', Has(k, app'.got)
        PROVE  k < i
    <3>1. d = c /\ InPipe(i, c) /\ m < i
      BY <2>2, <2>4, <1>3, <1>7
    <3>2. Has(k, app.got) => k < i
      BY <3>1, <1>1, <1>4 DEF PipeOK
    <3> QED
      BY <3>1, <3>2, <2>4, <1>9
  <2>5. ASSUME Waiting(d)'
        PROVE  /\ \A k \in Data : ~InPipe(k, d)' /\ ~Has(k, QueueAt(d)')
               /\ ~Exists("app", d)'
    BY <2>2, <2>5, <1>3, <1>4, <1>6 DEF PipeOK
  <2> QED
    BY <2>1, <2>3, <2>4, <2>5 DEF PipeOK
<1>12. StreamOK'
  <2>1. ~(app'.resolves > 0 \/ app'.waits > 0)
    BY <1>1, InvFacts DEF ClientOK
  <2> QED
    BY <2>1, <1>9, <1>10, <1>11 DEF StreamOK
<1>13. OnceOK'
  <2> SUFFICES ASSUME ~raced, NEW k \in Data
               PROVE  /\ seen'[k] <= 1
                      /\ k >= next => seen'[k] = 0
                      /\ \A d \in Conns : InPipe(k, d)' =>
                           /\ seen'[k] = 0
                           /\ \A e \in Conns : InPipe(k, e)' => e = d
    BY <1>1 DEF OnceOK
  <2>1. /\ seen[k] <= 1 /\ (k >= next => seen[k] = 0)
        /\ \A d \in Conns : InPipe(k, d) => /\ seen[k] = 0
                                            /\ \A e \in Conns : InPipe(k, e) => e = d
    BY InvFacts DEF OnceOK
  <2>2. \A d \in Conns : InPipe(k, d)' => InPipe(k, d)
    BY <1>3 DEF Flows
  <2>3. CASE k = m
    <3>1. seen'[k] = 1
      BY <2>1, <2>3, <1>2, <1>6
    <3>2. ~(k >= next) /\ ~InPipe(k, c)'
      <4>1. m \in Nat /\ next \in Nat
        BY ConstantFacts, InvFacts
      <4> QED
        BY <4>1, <2>3, <1>6, <1>7
    <3>3. \A d \in Conns : ~InPipe(k, d)'
      BY <3>2, <2>1, <2>2, <2>3, <1>6
    <3> QED
      BY <3>1, <3>2, <3>3
  <2>4. CASE k # m
    BY <2>1, <2>2, <2>4, <1>2
  <2> QED
    BY <2>3, <2>4
<1> QED
  BY <1>3, <1>12, <1>13 DEF IInv

LEMMA AppReadStep ==
  ASSUME IInv, NEW c \in Conns, AppRead(c) PROVE IInv'
<1> DEFINE s == sess["app"][c]
           m == Head(wire["app"][c])
           w == [wire EXCEPT !["app"][c] = Tail(@)]
<1>1. /\ Exists("app", c) /\ s.rd # "off" /\ s # None
  BY DEF AppRead, Exists
<1>2. SessOK(s) /\ s.sock # "connecting"
  BY <1>1, InvFacts, SessionFacts
<1>3. /\ app \in AppType /\ ~app.nullSend /\ (s.auth => app.local # None)
  BY <1>1, InvFacts DEF ClientOK
<1>4. ASSUME NEW y, SessOK(y), y.auth, y.sock # "connecting", NEW t \in LineDone(y)
      PROVE  SessOK(t) /\ t # None /\ t.auth /\ t.sock # "connecting"
  BY <1>4, LineDoneOK DEF Goes
<1>5. CASE ~s.auth
  <2> DEFINE y == [s EXCEPT !.auth = TRUE]
  <2>1. /\ app' = [app EXCEPT !.local = c] /\ seen' = seen
        /\ \E t \in LineDone(y) : Becomes("app", c, With("app", c, t), w)
    BY <1>5 DEF AppRead, ClientAuth
  <2>2. SessOK(y) /\ y.auth /\ y.sock # "connecting"
    <3> HIDE DEF s
    <3> QED
      BY <1>2, AuthOK
  <2> HIDE DEF y
  <2>3. PICK t \in LineDone(y) : Becomes("app", c, With("app", c, t), w)
    BY <2>1
  <2>4. SessOK(t) /\ t # None /\ t.auth /\ t.sock # "connecting"
    BY <1>4, <2>2, <2>3
  <2>5. /\ app' \in AppType /\ app'.up = app.up /\ app'.resolves = app.resolves
        /\ app'.waits = app.waits /\ app'.nullSend = app.nullSend /\ app'.local = c
        /\ app'.got = app.got
    BY <2>1, <1>3 DEF AppType
  <2>6. app'.local # None /\ ~app'.nullSend
    BY <2>5, <1>3, ConstantFacts
  <2> QED
    BY <2>1, <2>3, <2>4, <2>5, <2>6, AppReadQuiet
<1>6. CASE s.auth /\ m \in Data
  <2> DEFINE y == PutOutQueue(s, Pong)
  <2>1. app.local # None
    BY <1>3, <1>6
  <2>2. /\ app' = [app EXCEPT !.got = Append(@, m), !.nullSend = @ \/ FALSE]
        /\ seen' = [seen EXCEPT ![m] = @ + 1]
        /\ \E t \in LineDone(y) : Becomes("app", c, With("app", c, t), w)
    BY <1>6, <2>1 DEF AppRead, Answer
  <2>3. SessOK(y) /\ y.auth /\ y.sock # "connecting"
    <3> HIDE DEF s
    <3> QED
      BY <1>2, <1>6, ConstantFacts, PutOutQueueOK
  <2> HIDE DEF y
  <2>4. PICK t \in LineDone(y) : Becomes("app", c, With("app", c, t), w)
    BY <2>2
  <2>5. SessOK(t) /\ t # None /\ t.auth /\ t.sock # "connecting"
    BY <1>4, <2>3, <2>4
  <2> DEFINE g == Append(app.got, m)
  <2>6. g \in Seq(Data)
    BY <1>3, <1>6, AppendProperties DEF AppType
  <2>7. app' = [app EXCEPT !.got = g, !.nullSend = FALSE]
    BY <2>2, <1>3
  <2> HIDE DEF g, m
  <2>8. /\ app' \in AppType /\ app'.up = app.up /\ app'.resolves = app.resolves
        /\ app'.waits = app.waits /\ ~app'.nullSend /\ app'.local = app.local
        /\ app'.got = g
    BY <2>6, <2>7, <1>3 DEF AppType
  <2>9. app'.local # None /\ app'.got = Append(app.got, m)
    BY <2>1, <2>8 DEF g
  <2>10. PICK k \in Data : k = m
    BY <1>6
  <2>11. k = Head(wire["app"][c]) /\ app'.got = Append(app.got, k)
         /\ seen' = [seen EXCEPT ![k] = @ + 1]
    BY <2>2, <2>9, <2>10 DEF m
  <2> QED
    BY <2>4, <2>5, <2>8, <2>9, <2>10, <2>11, AppReadMessage
<1>7. CASE s.auth /\ m \notin Data
  <2>1. app' = app /\ seen' = seen
        /\ \E t \in LineDone(s) : Becomes("app", c, With("app", c, t), w)
    BY <1>7 DEF AppRead
  <2>2. PICK t \in LineDone(s) : Becomes("app", c, With("app", c, t), w)
    BY <2>1
  <2>3. SessOK(t) /\ t # None /\ t.auth /\ t.sock # "connecting"
    BY <1>2, <1>4, <1>7, <2>2
  <2>4. app'.local # None /\ ~app'.nullSend /\ app' \in AppType
    BY <2>1, <1>3, <1>7
  <2> QED
    BY <2>1, <2>2, <2>3, <2>4, AppReadQuiet
<1> QED
  BY <1>5, <1>6, <1>7

-----------------------------------------------------------------------------
(* The invariant.                                                          *)

LEMMA InitOK == Init => IInv
<1> SUFFICES ASSUME Init PROVE IInv
  OBVIOUS
<1>1. \A p \in Procs, c \in Conns : sess[p][c] = None /\ ~Exists(p, c)
  BY DEF Init, Exists
<1>2. "app" \in Procs /\ "srv" \in Procs
  BY DEF Procs
<1>3. TypeOK
  <2>1. sess \in [Procs -> SessType] /\ wire \in WireType
    BY EmptySeq DEF Init, SessType, WireType
  <2>2. gone \in [Procs -> SUBSET Conns] /\ backlog \subseteq Conns
    BY DEF Init
  <2>3. srv \in SrvType
    BY ConstantFacts DEF Init, SrvType
  <2>4. app \in AppType
    BY ConstantFacts, EmptySeq DEF Init, AppType
  <2>5. next \in 1..(MaxMsgs + 1) /\ seen \in [Data -> Nat] /\ raced \in BOOLEAN
    <3>1. MaxMsgs \in Nat /\ next = 1 /\ seen = [m \in Data |-> 0] /\ raced = FALSE
      BY ConstantFacts DEF Init
    <3>2. next \in 1..(MaxMsgs + 1)
      BY ONLY <3>1
    <3> QED
      BY <3>1, <3>2
  <2> QED
    BY <2>1, <2>2, <2>3, <2>4, <2>5, TypeFacts
<1>4. SessionsOK
  BY <1>1 DEF SessionsOK
<1>5. ClientOK
  BY <1>1, <1>2 DEF Init, ClientOK
<1>6. ServerOK
  BY <1>1, <1>2 DEF Init, ServerOK
<1>7. \A c \in Conns : /\ wire["app"][c] = <<>> /\ UnsentAt(c) = <<>> /\ QueueAt(c) = <<>>
                       /\ \A m : ~InPipe(m, c)
  BY <1>1, <1>2, EmptyFacts DEF Init, UnsentAt, QueueAt, InPipe
<1>8. app.got = <<>> /\ seen = [m \in Data |-> 0]
  BY DEF Init
<1>9. \A c \in Conns : PipeOK(c)
  BY <1>7, <1>8, EmptyFacts DEF PipeOK
<1>10. StreamOK
  BY <1>8, <1>9, EmptyFacts DEF StreamOK
<1>11. OnceOK
  BY <1>7, <1>8 DEF OnceOK
<1> QED
  BY <1>3, <1>4, <1>5, <1>6, <1>10, <1>11 DEF IInv, ControlOK

LEMMA NextOK == IInv /\ [Next]_vars => IInv'
<1> SUFFICES ASSUME IInv, [Next]_vars PROVE IInv'
  OBVIOUS
<1>1. CASE AppStart
  BY <1>1, AppStartStep
<1>2. CASE AppExit
  BY <1>2, AppExitStep
<1>3. CASE ResolveErr
  BY <1>3, ResolveErrStep
<1>4. CASE TimerFires
  BY <1>4, TimerFiresStep
<1>5. ASSUME NEW c \in Conns, ConnectResolved(c) PROVE IInv'
  BY <1>5, ConnectResolvedStep
<1>6. ASSUME NEW c \in Conns, ConnectOk(c) PROVE IInv'
  BY <1>6, ConnectOkStep
<1>7. ASSUME NEW c \in Conns, Refused(c) PROVE IInv'
  BY <1>7, RefusedStep
<1>8. CASE SrvStart
  BY <1>8, SrvStartStep
<1>9. CASE SrvExit
  BY <1>9, SrvExitStep
<1>10. CASE HandleLocalMsg
  BY <1>10, HandleLocalMsgStep
<1>11. ASSUME NEW c \in Conns, AppRead(c) PROVE IInv'
  BY <1>11, AppReadStep
<1>12. ASSUME NEW c \in Conns, Accept(c) PROVE IInv'
  BY <1>12, AcceptStep
<1>13. ASSUME NEW c \in Conns, SrvRead(c) PROVE IInv'
  BY <1>13, SrvReadStep
<1>14. ASSUME NEW p \in Procs, NEW c \in Conns, SessionStep(p, c) PROVE IInv'
  BY <1>14, TransmitStep, WriteOkStep, WriteErrStep, ReadErrStep DEF SessionStep
<1>15. CASE UNCHANGED vars
  BY <1>15, StutterStep
<1> QED
  BY <1>1, <1>2, <1>3, <1>4, <1>5, <1>6, <1>7, <1>8, <1>9, <1>10, <1>11, <1>12, <1>13,
     <1>14, <1>15 DEF Next, ClientStep

\* Each process does one thing at a time, each pipe to the application is a
\* rising stream above what it got, and, unless a queue was taken over from a
\* writing session, each message is in at most one pipe.
THEOREM LocalsInvariant == Spec => []IInv
<1>1. Init => IInv
  BY InitOK
<1>2. IInv /\ [Next]_vars => IInv'
  BY NextOK
<1> QED
  BY <1>1, <1>2, PTL DEF Spec

\* The variables of the application and of the server keep their types through
\* every handler, exit and restart.
THEOREM LocalsTypeOK == Spec => []TypeOK
<1>1. IInv => TypeOK
  BY DEF IInv, ControlOK
<1> QED
  BY <1>1, LocalsInvariant, PTL

\* NetClient never has a second attempt beside the first: a resolution, a wait
\* of m_reconnectTimer or a session (netclient.cpp:45-65).
THEOREM LocalsOneAttempt == Spec => []OneAttempt
<1>1. ASSUME IInv PROVE OneAttempt
  <2> DEFINE E == {c \in Conns : Exists("app", c)}
  <2>1. app.resolves \in Nat /\ app.waits \in Nat /\ app.resolves + app.waits <= 1
    BY <1>1, InvFacts DEF AppType, ClientOK
  <2>2. CASE E = {}
    <3>1. Cardinality(E) = 0
      BY <2>2, FS_EmptySet
    <3> QED
      BY <2>1, <3>1 DEF OneAttempt
  <2>3. CASE E # {}
    <3>1. PICK c \in Conns : Exists("app", c)
      BY <2>3
    <3>2. E = {c} /\ app.resolves = 0 /\ app.waits = 0
      BY <3>1, <1>1, InvFacts DEF ClientOK
    <3>3. Cardinality(E) = 1
      BY <3>2, FS_Singleton
    <3> QED
      BY <3>2, <3>3 DEF OneAttempt
  <2> QED
    BY <2>2, <2>3
<1> QED
  BY <1>1, LocalsInvariant, PTL

\* A process of the application gets the messages in the order in which the
\* server accepted them, also those that were taken over from the session of its
\* predecessor (netserver.cpp:222-226, session.cpp:168-189).
THEOREM LocalsInOrder == Spec => []InOrder
<1>1. ASSUME IInv PROVE InOrder
  <2>1. app.got \in Seq(Data) /\ Rising(app.got)
    BY <1>1, InvFacts DEF AppType, StreamOK
  <2>2. DOMAIN app.got = 1..Len(app.got) /\ \A i \in 1..Len(app.got) : app.got[i] \in Data
    BY <2>1, ElementOfSeq, LenProperties
  <2> QED
    BY <2>1, <2>2 DEF InOrder, Rising
<1> QED
  BY <1>1, LocalsInvariant, PTL

\* Two processes of the application get the same message only when its queue was
\* taken over between the write and the handler that pops (session.cpp:178-179,
\* 270-274).
THEOREM LocalsOnceUnlessRaced == Spec => []OnceUnlessRaced
<1>1. IInv => OnceUnlessRaced
  BY DEF IInv, OnceOK, OnceUnlessRaced
<1> QED
  BY <1>1, LocalsInvariant, PTL

\* The auth message of a server's session is never taken over: it is the first in
\* its own queue, with its write pending or the session stopped
\* (session.cpp:172-176).
THEOREM LocalsAuthStaysHome == Spec => []AuthStaysHome
<1>1. ASSUME IInv PROVE AuthStaysHome
  <2> SUFFICES ASSUME NEW c \in Conns, Exists("srv", c), NEW i \in DOMAIN sess["srv"][c].q,
                      sess["srv"][c].q[i] = Auth
               PROVE  i = 1 /\ (sess["srv"][c].wr # "none" \/ sess["srv"][c].stopped)
    BY DEF AuthStaysHome
  <2>1. SessOK(sess["srv"][c])
    BY <1>1, InvFacts, SessionFacts
  <2>2. sess["srv"][c].q \in Seq(Lines)
    BY <2>1 DEF SessOK, SessionType
  <2>3. i \in 1..Len(sess["srv"][c].q)
    BY <2>2, LenProperties
  <2> QED
    BY <2>1, <2>3 DEF SessOK
<1> QED
  BY <1>1, LocalsInvariant, PTL

\* NetClient::send() never dereferences m_locals["userver"] before auth() has
\* stored the session there (netclient.cpp:88-91).
THEOREM LocalsNoNullSend == Spec => []NoNullSend
<1>1. IInv => NoNullSend
  BY DEF IInv, ControlOK, ClientOK, NoNullSend
<1> QED
  BY <1>1, LocalsInvariant, PTL

-----------------------------------------------------------------------------
(* What breaks the server.  That needs one more fact than IInv has: unless *)
(* a queue was taken over from a writing session, a session that writes    *)
(* has something queued.                                                   *)

Writes(s) == s.wr # "none" => s.q # <<>>
AllWrite ==
  ~raced => \A p \in Procs, c \in Conns : Exists(p, c) => Writes(sess[p][c])

BreakInv == IInv /\ AllWrite /\ BreaksOnlyByTakeOver

\* One session changes and still has what it writes.
Replaces(p, c, t) ==
  /\ sess'[p][c] = t /\ (t # None /\ ~raced => Writes(t))
  /\ \A r \in Procs, d \in Conns : r # p \/ d # c => sess'[r][d] = sess[r][d]

LEMMA WithFacts ==
  ASSUME IInv, NEW p \in Procs, NEW c \in Conns, NEW t, NEW w,
         Becomes(p, c, With(p, c, t), w), t # None /\ ~raced => Writes(t)
  PROVE  Replaces(p, c, t)
<1>1. sess \in [Procs -> SessType] /\ sess[p] \in [Conns -> SessionType(Lines) \cup {None}]
  BY InvFacts DEF SessType
<1>2. PICK f : f = [sess[p] EXCEPT ![c] = t]
  OBVIOUS
<1>3. f[c] = t /\ \A d \in Conns : d # c => f[d] = sess[p][d]
  BY <1>1, <1>2
<1>4. sess' = [sess EXCEPT ![p] = f]
  BY <1>2 DEF Becomes, With
<1> QED
  BY <1>1, <1>3, <1>4 DEF Replaces

\* The server's process does not change, and it runs if one of its sessions does.
LEMMA QuietBreaks ==
  ASSUME BreakInv, srv' = srv, raced' = raced,
         srv.is = "hung" => \A d \in Conns : sess'["srv"][d] = sess["srv"][d]
  PROVE  BreaksOnlyByTakeOver'
<1>1. srv.is = "hung" => srv.local # None /\ srv.local \in Conns
  BY InvFacts DEF BreakInv, BreaksOnlyByTakeOver, SrvType
<1> QED
  BY <1>1 DEF BreakInv, BreaksOnlyByTakeOver

LEMMA ReplacesBreaks ==
  ASSUME BreakInv, NEW p \in Procs, NEW c \in Conns, NEW t, Replaces(p, c, t),
         srv' = srv, raced' = raced, p = "app" \/ srv.is = "up"
  PROVE  AllWrite' /\ BreaksOnlyByTakeOver'
<1>1. AllWrite'
  BY DEF BreakInv, AllWrite, Replaces, Exists
<1>2. srv.is = "hung" => \A d \in Conns : sess'["srv"][d] = sess["srv"][d]
  BY DEF Replaces, Procs
<1> QED
  BY <1>1, <1>2, QuietBreaks

\* No session changes.
LEMMA SameSessions ==
  ASSUME BreakInv, sess' = sess, raced' = raced
  PROVE  /\ AllWrite'
         /\ srv' = srv => BreaksOnlyByTakeOver'
<1>1. AllWrite'
  BY DEF BreakInv, AllWrite, Exists
<1> QED
  BY <1>1, QuietBreaks

LEMMA ClientBreaks ==
  ASSUME BreakInv, NEW c \in Conns, ConnectResolved(c) \/ ConnectOk(c) \/ Refused(c)
  PROVE  AllWrite' /\ BreaksOnlyByTakeOver'
<1>0. IInv /\ srv' = srv /\ raced' = raced
  BY DEF BreakInv, ConnectResolved, ConnectOk, Refused
<1>1. PICK p \in Procs : p = "app"
  BY DEF Procs
<1>2. \E t, w : Becomes(p, c, With(p, c, t), w) /\ (t # None => Writes(t))
  <2>1. CASE ConnectResolved(c)
    <3>1. NewSession("outgoing").wr = "none"
      BY DEF NewSession
    <3> QED
      BY <2>1, <3>1, <1>1 DEF ConnectResolved, Writes
  <2>2. CASE ConnectOk(c)
    <3> DEFINE s == [sess["app"][c] EXCEPT !.sock = "open"]
    <3>1. s \in SessionType(Lines) /\ s.q = <<>>
      <4>1. SessOK(sess["app"][c]) /\ sess["app"][c].sock = "connecting"
        BY <2>2, <1>0, <1>1, SessionFacts DEF ConnectOk, Connecting
      <4> QED
        BY <4>1 DEF SessOK, SessionType
    <3> HIDE DEF s
    <3>2. Start(s, Auth).q = Append(s.q, Auth)
      BY <3>1, StartFacts, ConstantFacts
    <3>3. Append(s.q, Auth) # <<>>
      BY <3>1
    <3>4. Becomes(p, c, With(p, c, Start(s, Auth)), wire)
      BY <2>2, <1>1 DEF ConnectOk, s
    <3> QED
      BY <3>2, <3>3, <3>4 DEF Writes
  <2>3. CASE Refused(c)
    BY <2>3, <1>1 DEF Refused
  <2> QED
    BY <2>1, <2>2, <2>3
<1> QED
  BY <1>0, <1>1, <1>2, WithFacts, ReplacesBreaks

LEMMA AcceptBreaks ==
  ASSUME BreakInv, NEW c \in Conns, Accept(c)
  PROVE  AllWrite' /\ BreaksOnlyByTakeOver'
<1>0. IInv /\ srv' = srv /\ raced' = raced /\ srv.is = "up"
  BY DEF BreakInv, Accept
<1>1. PICK p \in Procs : p = "srv"
  BY DEF Procs
<1>2. PICK s : s = NewSession("incoming")
  OBVIOUS
<1>3. s \in SessionType(Lines) /\ s.q = <<>>
  BY <1>2, NewSessionOK DEF Directions, SessOK
<1>4. Start(s, Auth).q = Append(s.q, Auth)
  BY <1>3, StartFacts, ConstantFacts
<1>5. Append(s.q, Auth) # <<>>
  BY <1>3
<1>6. Becomes(p, c, With(p, c, Start(s, Auth)), wire) /\ Writes(Start(s, Auth))
  BY <1>1, <1>2, <1>4, <1>5 DEF Accept, Writes
<1> QED
  BY <1>0, <1>1, <1>6, WithFacts, ReplacesBreaks

\* putOutQueue() leaves a message in the queue.
LEMMA PutWrites ==
  ASSUME NEW s \in SessionType(Lines), NEW m \in Lines
  PROVE  Writes(PutOutQueue(s, m)) /\ PutOutQueue(s, m) \in SessionType(Lines)
<1>1. /\ PutOutQueue(s, m).q = Append(s.q, m)
      /\ PutOutQueue(s, m) \in SessionType(Lines)
  BY PutOutQueueFacts
<1>2. s.q \in Seq(Lines)
  BY DEF SessionType
<1>3. Append(s.q, m) # <<>>
  BY <1>2
<1> QED
  BY <1>1, <1>3 DEF Writes

LEMMA LineWrites ==
  ASSUME NEW s \in SessionType(Lines), NEW t \in LineDone(s)
  PROVE  t # None /\ (Writes(s) => Writes(t))
<1>1. t \in SessionType(Lines) /\ t["q"] = s["q"] /\ t["wr"] = s["wr"]
  BY LineDoneFacts
<1> QED
  BY <1>1, ConstantFacts DEF Writes

LEMMA AppReadBreaks ==
  ASSUME BreakInv, NEW c \in Conns, AppRead(c)
  PROVE  AllWrite' /\ BreaksOnlyByTakeOver'
<1>0. IInv /\ srv' = srv /\ raced' = raced /\ Exists("app", c)
  BY DEF BreakInv, AppRead
<1>1. PICK p \in Procs : p = "app"
  BY DEF Procs
<1>2. PICK s : s = sess["app"][c]
  OBVIOUS
<1>3. s \in SessionType(Lines) /\ (~raced => Writes(s))
  BY <1>0, <1>1, <1>2, SessionFacts DEF BreakInv, AllWrite
<1>4. PICK m : m = Head(wire["app"][c])
  OBVIOUS
<1>5. PICK r : /\ r = CASE ~s.auth -> ClientAuth(c, s)
                        [] s.auth /\ m \in Data -> Answer(s, m)
                        [] OTHER -> [s |-> s, a |-> app]
               /\ \E t \in LineDone(r.s) :
                    Becomes("app", c, With("app", c, t), [wire EXCEPT !["app"][c] = Tail(@)])
  BY <1>2, <1>4 DEF AppRead
<1>6. \/ r.s = s \/ r.s = PutOutQueue(s, Pong)
      \/ r.s = [s EXCEPT !.auth = TRUE]
  <2>1. s.auth \in BOOLEAN
    BY <1>3 DEF SessionType
  <2>2. CASE ~s.auth
    BY <1>5, <2>2 DEF ClientAuth
  <2>3. CASE s.auth /\ m \in Data
    BY <1>5, <2>3 DEF Answer
  <2>4. CASE s.auth /\ m \notin Data
    <3>1. r = [s |-> s, a |-> app]
      BY <1>5, <2>4
    <3> QED
      BY <3>1
  <2> QED
    BY <2>1, <2>2, <2>3, <2>4
<1>7. r.s \in SessionType(Lines) /\ (~raced => Writes(r.s))
  <2>1. CASE r.s = [s EXCEPT !.auth = TRUE]
    BY <1>3, <2>1 DEF SessionType, Writes
  <2> QED
    BY <1>3, <1>6, <2>1, PutWrites, ConstantFacts
<1>8. PICK t \in LineDone(r.s) :
        Becomes(p, c, With(p, c, t), [wire EXCEPT !["app"][c] = Tail(@)])
  BY <1>1, <1>5
<1>9. ~raced => Writes(t)
  BY <1>7, <1>8, LineWrites
<1> QED
  BY <1>0, <1>1, <1>8, <1>9, WithFacts, ReplacesBreaks

LEMMA HandleLocalMsgBreaks ==
  ASSUME BreakInv, HandleLocalMsg
  PROVE  AllWrite' /\ BreaksOnlyByTakeOver'
<1>0. IInv /\ srv' = srv /\ raced' = raced /\ srv.is = "up"
  BY DEF BreakInv, HandleLocalMsg
<1>1. CASE srv.local = None
  BY <1>0, <1>1, SameSessions DEF HandleLocalMsg
<1>2. CASE srv.local # None
  <2>1. PICK p \in Procs : p = "srv"
    BY DEF Procs
  <2>2. PICK c \in Conns : c = srv.local
    BY <1>0, <1>2, InvFacts DEF SrvType
  <2>3. Exists(p, c) /\ next \in Lines
    <3>1. next \in Data
      BY <1>0, InvFacts, ConstantFacts DEF HandleLocalMsg, Data
    <3> QED
      BY <3>1, <1>0, <1>2, <2>1, <2>2, InvFacts, ConstantFacts DEF ServerOK
  <2>4. PICK t : t = PutOutQueue(sess[p][c], next)
    OBVIOUS
  <2>5. Writes(t)
    BY <1>0, <2>3, <2>4, SessionFacts, PutWrites
  <2>6. sess' = [sess EXCEPT ![p] = [sess[p] EXCEPT ![c] = t]]
    BY <1>2, <2>1, <2>2, <2>4 DEF HandleLocalMsg
  <2>7. PICK f : f = [sess[p] EXCEPT ![c] = t]
    OBVIOUS
  <2>8. sess \in [Procs -> SessType] /\ sess[p] \in [Conns -> SessionType(Lines) \cup {None}]
    BY <1>0, InvFacts DEF SessType
  <2>9. f[c] = t /\ \A d \in Conns : d # c => f[d] = sess[p][d]
    BY <2>7, <2>8
  <2>10. Replaces(p, c, t)
    BY <2>5, <2>6, <2>7, <2>8, <2>9 DEF Replaces
  <2> QED
    BY <1>0, <2>10, ReplacesBreaks
<1> QED
  BY <1>1, <1>2

\* A process that vanishes leaves no session behind.
LEMMA ExitBreaks ==
  ASSUME BreakInv, AppExit \/ SrvExit
  PROVE  AllWrite' /\ BreaksOnlyByTakeOver'
<1>0. IInv /\ raced' = raced /\ sess \in [Procs -> SessType]
  BY InvFacts DEF BreakInv, AppExit, SrvExit
<1>1. PICK p \in Procs : Vanish(p) /\ (p = "app" => srv' = srv) /\
                         (p = "srv" => srv'.is = "down")
  BY DEF AppExit, SrvExit, Procs
<1>2. PICK f : f = [c \in Conns |-> None]
  OBVIOUS
<1>3. sess' = [sess EXCEPT ![p] = f] /\ \A c \in Conns : f[c] = None
  BY <1>1, <1>2 DEF Vanish
<1>4. /\ \A c \in Conns : sess'[p][c] = None
      /\ \A r \in Procs : r # p => sess'[r] = sess[r]
  BY <1>0, <1>3
<1>5. AllWrite'
  BY <1>0, <1>4 DEF BreakInv, AllWrite, Exists
<1>6. CASE p = "app"
  <2>1. \A d \in Conns : sess'["srv"][d] = sess["srv"][d]
    BY <1>4, <1>6 DEF Procs
  <2> QED
    BY <1>0, <1>1, <1>5, <1>6, <2>1, QuietBreaks
<1>7. CASE p = "srv"
  BY <1>1, <1>5, <1>7 DEF BreaksOnlyByTakeOver
<1> QED
  BY <1>6, <1>7 DEF Procs

\* A completion handler of a session: what it writes is still queued, and only a
\* queue that was taken over is empty when the handler pops.
LEMMA SessionBreaks ==
  ASSUME BreakInv, NEW p \in Procs, NEW c \in Conns, SessionStep(p, c)
  PROVE  AllWrite' /\ BreaksOnlyByTakeOver'
<1>0. IInv /\ raced' = raced /\ Exists(p, c) /\ (p = "app" \/ srv.is = "up")
  BY DEF BreakInv, SessionStep, Transmit, WriteOk, WriteErr, ReadErr, Runs, Procs
<1>1. PICK s : s = sess[p][c]
  OBVIOUS
<1>2. s \in SessionType(Lines) /\ SessOK(s) /\ (~raced => Writes(s))
  BY <1>0, <1>1, SessionFacts DEF BreakInv, AllWrite
<1>3. CASE WriteOk(p, c) /\ s.q = <<>>
  <2>1. raced
    BY <1>1, <1>2, <1>3 DEF WriteOk, Writes
  <2>2. srv' = [srv EXCEPT !.is = "undefined"] /\ sess' = sess
    BY <1>1, <1>3 DEF WriteOk
  <2>3. srv'.is = "undefined"
    BY <1>0, <2>2, InvFacts DEF SrvType
  <2> QED
    BY <1>0, <2>1, <2>2, <2>3, SameSessions DEF BreaksOnlyByTakeOver
<1>4. CASE ~(WriteOk(p, c) /\ s.q = <<>>)
  <2>1. \E t, w : /\ Becomes(p, c, With(p, c, t), w) /\ srv' = srv
                  /\ Writes(s) => Writes(t)
    <3>1. CASE Transmit(p, c)
      <4>1. Writes(s) => Writes(Transmitted(s))
        BY <1>1, <1>2, <3>1 DEF Transmit, Transmitted, Writes, SessionType
      <4> QED
        BY <1>1, <3>1, <4>1 DEF Transmit
    <3>2. CASE WriteOk(p, c)
      <4>1. PICK t \in WriteDone(s) : Becomes(p, c, With(p, c, t), wire) /\ srv' = srv
        BY <1>1, <1>4, <3>2 DEF WriteOk
      <4>2. s.auth \/ Len(s.q) <= 1
        BY <1>2 DEF SessOK
      <4>3. t.wr = "none"
        BY <1>2, <1>4, <3>2, <4>1, <4>2, WriteDoneFacts
      <4> QED
        BY <4>1, <4>3 DEF Writes
    <3>3. CASE WriteErr(p, c) \/ ReadErr(p, c)
      <4>1. PICK x : /\ StopStep(p, c, x) /\ srv' = srv
                     /\ x = [s EXCEPT !.wr = "none"] \/ x = [s EXCEPT !.rd = "off"]
        BY <1>1, <3>3 DEF WriteErr, ReadErr
      <4>2. x \in SessionType(Lines) /\ (Writes(s) => Writes(x))
        BY <1>2, <4>1 DEF SessionType, Writes
      <4>3. PICK t \in Stop(x, IF wire[p][c] # <<>> THEN {"late"} ELSE {}) :
              Becomes(p, c, With(p, c, t), wire)
        BY <4>1 DEF StopStep
      <4>4. t \in Stop(x, {"late"})
        BY <4>3 DEF Stop
      <4>5. t["q"] = x["q"] /\ t["wr"] = x["wr"]
        BY <4>2, <4>4, StopFacts
      <4> QED
        BY <4>1, <4>2, <4>3, <4>5 DEF Writes
    <3> QED
      BY <3>1, <3>2, <3>3 DEF SessionStep
  <2>2. PICK t, w : /\ Becomes(p, c, With(p, c, t), w) /\ srv' = srv
                    /\ Writes(s) => Writes(t)
    BY <2>1
  <2>3. ~raced => Writes(t)
    BY <1>2, <2>2
  <2> QED
    BY <1>0, <2>2, <2>3, WithFacts, ReplacesBreaks
<1> QED
  BY <1>3, <1>4

\* A session authenticates a second process: the server hangs on the predecessor o
\* only if o still writes its auth message or has stopped with it.
LEMMA LoopsFacts ==
  ASSUME NEW o, SessOK(o), Loops(o)
  PROVE  o.wr # "none" \/ o.stopped
<1>1. o.q \in Seq(Lines) /\ o.q # <<>> /\ Head(o.q) = Auth
  BY DEF Loops, SessOK, SessionType
<1>2. Head(o.q) = o.q[1] /\ Len(o.q) \in Nat /\ Len(o.q) # 0
  BY <1>1, HeadTailProperties, EmptySeq, LenProperties
<1>3. 1 \in 1..Len(o.q)
  BY <1>2
<1> QED
  BY <1>1, <1>2, <1>3 DEF SessOK

\* What takes over a queue writes only if it has something queued.
LEMMA TakeOverWrites ==
  ASSUME NEW s \in SessionType(Lines), s.auth, Writes(s),
         NEW oq \in Seq(Lines), NEW t \in TakeOverMessages(s, oq)
  PROVE  t \in SessionType(Lines) /\ Writes(t)
<1>1. s.q \in Seq(Lines) /\ s.wr \in {"none", "started", "sent"}
  BY DEF SessionType
<1>2. CASE oq # <<>> /\ s.q = <<>>
  <2>1. PICK x : x = [s EXCEPT !.q = oq]
    OBVIOUS
  <2>2. x \in SessionType(Lines) /\ x.auth /\ x.wr = "none"
    BY <1>1, <1>2, <2>1 DEF SessionType, Writes
  <2>3. t \in DoWrite(x)
    BY <1>2, <2>1 DEF TakeOverMessages
  <2>4. t \in SessionType(Lines) /\ t.wr = IF t.q = <<>> THEN "none" ELSE "started"
    BY <2>2, <2>3, DoWriteFacts
  <2> QED
    BY <2>4 DEF Writes
<1>3. CASE ~(oq # <<>> /\ s.q = <<>>)
  <2>1. t = [s EXCEPT !.q = s.q \o oq]
    BY <1>3 DEF TakeOverMessages
  <2>2. s.q \o oq \in Seq(Lines) /\ Len(s.q \o oq) = Len(s.q) + Len(oq)
    BY <1>1, ConcatProperties
  <2>3. t \in SessionType(Lines) /\ t.q = s.q \o oq /\ t.wr = s.wr
    BY <2>1, <2>2 DEF SessionType
  <2>4. s.q # <<>> => s.q \o oq # <<>>
    <3> SUFFICES ASSUME s.q # <<>> PROVE s.q \o oq # <<>>
      OBVIOUS
    <3>1. Len(s.q) # 0 /\ Len(s.q) \in Nat /\ Len(oq) \in Nat /\ Len(<<>>) = 0
      BY <1>1, EmptySeq, LenProperties
    <3>2. Len(s.q \o oq) # Len(<<>>)
      BY <2>2, <3>1
    <3> QED
      BY <3>2, Zenon
  <2> QED
    BY <2>3, <2>4 DEF Writes
<1> QED
  BY <1>2, <1>3

LEMMA ServerAuthBreaks ==
  ASSUME BreakInv, NEW c \in Conns, SrvRead(c), ~sess["srv"][c].auth
  PROVE  AllWrite' /\ BreaksOnlyByTakeOver'
<1>1. /\ IInv /\ srv.is = "up" /\ Exists("srv", c) /\ srv \in SrvType
      /\ sess \in [Procs -> SessType] /\ ServerAuth(c)
  BY InvFacts DEF BreakInv, SrvRead
<1>2. PICK p \in Procs : p = "srv"
  BY DEF Procs
<1>3. PICK s0 : s0 = sess[p][c]
  OBVIOUS
<1>4. s0 \in SessionType(Lines) /\ SessOK(s0) /\ ~s0.auth
  BY <1>1, <1>2, <1>3, SessionFacts
<1>5. PICK s : s = [s0 EXCEPT !.auth = TRUE]
  OBVIOUS
<1>6. s \in SessionType(Lines) /\ s.auth /\ Writes(s) /\ s # None
  <2>1. s \in SessionType(Lines) /\ s.auth /\ s.q = s0.q /\ s.wr = s0.wr
    BY <1>4, <1>5 DEF SessionType
  <2>2. s0.wr # "none" => s0.q # <<>>
    BY <1>4 DEF SessOK
  <2> QED
    BY <2>1, <2>2, ConstantFacts DEF Writes
<1>7. PICK w : w = [wire EXCEPT !["srv"][c] = Tail(@)]
  OBVIOUS
<1>8. PICK old : old = srv.local
  OBVIOUS
<1>9. PICK o : o = sess[p][old]
  OBVIOUS
<1>10. \/ /\ \E t \in LineDone(s) : Becomes(p, c, With(p, c, t), w)
          /\ srv' = [srv EXCEPT !.local = c]
          /\ raced' = raced
       \/ /\ old # None /\ Loops(o)
          /\ Becomes(p, c, With(p, c, s), w)
          /\ srv' = [srv EXCEPT !.is = "hung"]
          /\ raced' = raced
       \/ /\ old # None
          /\ \E r \in TakeOver(s, o) : \E t \in LineDone(r[1]) :
               Becomes(p, c, [With(p, c, t) EXCEPT ![old] = r[2]], w)
          /\ srv' = [srv EXCEPT !.local = c]
          /\ raced' = (raced \/ (o.wr # "none" /\ o.q # <<>>))
  BY <1>1, <1>2, <1>3, <1>5, <1>7, <1>8, <1>9 DEF ServerAuth
<1>11. ASSUME NEW t, Replaces(p, c, t), raced' = raced
       PROVE  AllWrite'
  BY <1>11 DEF BreakInv, AllWrite, Replaces, Exists
<1>12. old # None => /\ old \in Conns /\ old # c /\ SessOK(o) /\ o # None
                     /\ Exists(p, old)
  <2> SUFFICES ASSUME old # None
               PROVE  /\ old \in Conns /\ old # c /\ SessOK(o) /\ o # None
                      /\ Exists(p, old)
    OBVIOUS
  <2>1. old \in Conns /\ Exists(p, old) /\ o.auth
    BY <1>1, <1>2, <1>8, <1>9, InvFacts DEF ServerOK, SrvType
  <2> QED
    BY <1>1, <1>3, <1>4, <1>9, <2>1, SessionFacts DEF Exists
<1>13. CASE /\ \E t \in LineDone(s) : Becomes(p, c, With(p, c, t), w)
            /\ srv' = [srv EXCEPT !.local = c]
            /\ raced' = raced
  <2>1. PICK t \in LineDone(s) : Becomes(p, c, With(p, c, t), w)
    BY <1>13
  <2>2. Writes(t)
    BY <1>6, LineWrites
  <2>3. Replaces(p, c, t)
    BY <1>1, <2>1, <2>2, WithFacts
  <2>4. srv'.is = "up"
    BY <1>1, <1>13 DEF SrvType
  <2> QED
    BY <1>11, <1>13, <2>3, <2>4 DEF BreaksOnlyByTakeOver
<1>14. CASE /\ old # None /\ Loops(o)
            /\ Becomes(p, c, With(p, c, s), w)
            /\ srv' = [srv EXCEPT !.is = "hung"]
            /\ raced' = raced
  <2>1. Replaces(p, c, s)
    BY <1>1, <1>6, <1>14, WithFacts
  <2>2. srv'.is = "hung" /\ srv'.local = old
    BY <1>1, <1>8, <1>14 DEF SrvType
  <2>3. sess'["srv"][srv'.local] = o
    BY <1>2, <1>9, <1>12, <1>14, <2>1, <2>2 DEF Replaces
  <2>4. o.wr # "none" \/ o.stopped
    BY <1>12, <1>14, LoopsFacts
  <2> QED
    BY <1>11, <1>14, <2>1, <2>2, <2>3, <2>4 DEF BreaksOnlyByTakeOver
<1>15. CASE /\ old # None
            /\ \E r \in TakeOver(s, o) : \E t \in LineDone(r[1]) :
                 Becomes(p, c, [With(p, c, t) EXCEPT ![old] = r[2]], w)
            /\ srv' = [srv EXCEPT !.local = c]
            /\ raced' = (raced \/ (o.wr # "none" /\ o.q # <<>>))
  <2>1. PICK r \in TakeOver(s, o) : \E t \in LineDone(r[1]) :
          Becomes(p, c, [With(p, c, t) EXCEPT ![old] = r[2]], w)
    BY <1>15
  <2>2. PICK u \in TakeOverMessages(s, o.q) : r = <<u, [o EXCEPT !.q = <<>>]>>
    BY <2>1 DEF TakeOver
  <2>3. PICK v : v = [o EXCEPT !.q = <<>>]
    OBVIOUS
  <2>4. PICK t \in LineDone(u) : Becomes(p, c, [With(p, c, t) EXCEPT ![old] = v], w)
    BY <2>1, <2>2, <2>3
  <2>5. o \in SessionType(Lines) /\ o.q \in Seq(Lines)
    BY <1>12, <1>15 DEF SessOK, SessionType
  <2>6. u \in SessionType(Lines) /\ Writes(u)
    BY <1>6, <2>2, <2>5, TakeOverWrites
  <2>7. Writes(t)
    BY <2>4, <2>6, LineWrites
  <2>8. ~raced' => Writes(v)
    <3>1. ~raced' => ~raced /\ (o.wr = "none" \/ o.q = <<>>)
      BY <1>15
    <3>2. ~raced => Writes(o)
      BY <1>9, <1>12, <1>15 DEF BreakInv, AllWrite
    <3>3. v.wr = o.wr
      BY <2>3, <2>5 DEF SessionType
    <3> QED
      BY <3>1, <3>2, <3>3 DEF Writes
  <2>9. PICK f : f = [sess[p] EXCEPT ![c] = t]
    OBVIOUS
  <2>10. PICK g : g = [f EXCEPT ![old] = v]
    OBVIOUS
  <2>11. /\ g[c] = t /\ g[old] = v
         /\ \A d \in Conns : d # c /\ d # old => g[d] = sess[p][d]
    <3>1. sess[p] \in [Conns -> SessionType(Lines) \cup {None}]
      BY <1>1 DEF SessType
    <3> QED
      BY <1>12, <1>15, <2>9, <2>10, <3>1
  <2>12. sess' = [sess EXCEPT ![p] = g]
    BY <2>4, <2>9, <2>10 DEF Becomes, With
  <2>13. sess'[p] = g /\ \A q \in Procs : q # p => sess'[q] = sess[q]
    BY <1>1, <2>12
  <2>14. AllWrite'
    <3> SUFFICES ASSUME ~raced', NEW q \in Procs, NEW d \in Conns, sess'[q][d] # None
                 PROVE  Writes(sess'[q][d])
      BY DEF AllWrite, Exists
    <3>1. ~raced
      BY <1>15
    <3>2. sess'[q][d] = sess[q][d] => Writes(sess'[q][d])
      BY <3>1 DEF BreakInv, AllWrite, Exists
    <3> QED
      BY <2>7, <2>8, <2>11, <2>13, <3>2
  <2>15. srv'.is = "up"
    BY <1>1, <1>15 DEF SrvType
  <2> QED
    BY <2>14, <2>15 DEF BreaksOnlyByTakeOver
<1> QED
  BY <1>10, <1>13, <1>14, <1>15

LEMMA SrvReadBreaks ==
  ASSUME BreakInv, NEW c \in Conns, SrvRead(c)
  PROVE  AllWrite' /\ BreaksOnlyByTakeOver'
<1>1. CASE ~sess["srv"][c].auth
  BY <1>1, ServerAuthBreaks
<1>2. CASE sess["srv"][c].auth
  <2>1. IInv /\ srv.is = "up" /\ Exists("srv", c) /\ srv' = srv /\ raced' = raced
    BY <1>2 DEF BreakInv, SrvRead
  <2>2. PICK p \in Procs : p = "srv"
    BY DEF Procs
  <2>3. PICK s : s = sess[p][c]
    OBVIOUS
  <2>4. s \in SessionType(Lines) /\ (~raced => Writes(s))
    BY <2>1, <2>2, <2>3, SessionFacts DEF BreakInv, AllWrite
  <2>5. PICK w : \E t \in LineDone(s) : Becomes(p, c, With(p, c, t), w)
    BY <1>2, <2>2, <2>3 DEF SrvRead
  <2>6. PICK t \in LineDone(s) : Becomes(p, c, With(p, c, t), w)
    BY <2>5
  <2>7. ~raced => Writes(t)
    BY <2>4, <2>6, LineWrites
  <2> QED
    BY <2>1, <2>2, <2>6, <2>7, WithFacts, ReplacesBreaks
<1> QED
  BY <1>1, <1>2

LEMMA BreakInit == Init => BreakInv
<1> SUFFICES ASSUME Init PROVE BreakInv
  OBVIOUS
<1>1. IInv
  BY InitOK
<1>2. srv.is = "down"
  BY DEF Init
<1>3. \A p \in Procs, c \in Conns : ~Exists(p, c)
  BY DEF Init, Exists
<1> QED
  BY <1>1, <1>2, <1>3 DEF BreakInv, AllWrite, BreaksOnlyByTakeOver

LEMMA BreakNext == BreakInv /\ [Next]_vars => BreakInv'
<1> SUFFICES ASSUME BreakInv, [Next]_vars PROVE AllWrite' /\ BreaksOnlyByTakeOver'
  BY NextOK DEF BreakInv
<1>1. CASE AppStart \/ ResolveErr \/ TimerFires
  BY <1>1, SameSessions DEF AppStart, ResolveErr, TimerFires
<1>2. CASE UNCHANGED vars
  BY <1>2, SameSessions DEF vars
<1>3. CASE AppExit \/ SrvExit
  BY <1>3, ExitBreaks
<1>4. CASE SrvStart
  <2>1. sess' = sess /\ raced' = raced /\ srv' = [srv EXCEPT !.is = "up"] /\ srv \in SrvType
    BY <1>4, InvFacts DEF SrvStart, BreakInv
  <2>2. srv'.is = "up"
    BY <2>1 DEF SrvType
  <2> QED
    BY <2>1, <2>2, SameSessions DEF BreaksOnlyByTakeOver
<1>5. CASE HandleLocalMsg
  BY <1>5, HandleLocalMsgBreaks
<1>6. ASSUME NEW c \in Conns, ConnectResolved(c) \/ ConnectOk(c) \/ Refused(c)
      PROVE  AllWrite' /\ BreaksOnlyByTakeOver'
  BY <1>6, ClientBreaks
<1>7. ASSUME NEW c \in Conns, AppRead(c) \/ Accept(c) \/ SrvRead(c)
      PROVE  AllWrite' /\ BreaksOnlyByTakeOver'
  BY <1>7, AppReadBreaks, AcceptBreaks, SrvReadBreaks
<1>8. ASSUME NEW p \in Procs, NEW c \in Conns, SessionStep(p, c)
      PROVE  AllWrite' /\ BreaksOnlyByTakeOver'
  BY <1>8, SessionBreaks
<1> QED
  BY <1>1, <1>2, <1>3, <1>4, <1>5, <1>6, <1>7, <1>8 DEF Next, ClientStep

\* The server breaks only by a take-over: it hangs on a predecessor whose auth
\* message is being written or stuck in a stopped session, and a write handler
\* finds an empty queue only after a queue was taken over during a write
\* (session.cpp:172-176, 273-274).
THEOREM LocalsBreaksOnlyByTakeOver == Spec => []BreaksOnlyByTakeOver
<1>1. Init => BreakInv
  BY BreakInit
<1>2. BreakInv /\ [Next]_vars => BreakInv'
  BY BreakNext
<1>3. BreakInv => BreaksOnlyByTakeOver
  BY DEF BreakInv
<1> QED
  BY <1>1, <1>2, <1>3, PTL DEF Spec
=============================================================================
