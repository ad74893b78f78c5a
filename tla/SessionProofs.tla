---------------------------- MODULE SessionProofs ----------------------------
(***************************************************************************)
(* The safety properties of Session for every MaxMsgs.  IInv is inductive: *)
(* one lemma per action shows that it preserves IInv, from what            *)
(* SessionCoreProofs says of the methods.                                  *)
(***************************************************************************)
EXTENDS Session, SessionCoreProofs

-----------------------------------------------------------------------------
(* The properties of the queue, and the steps that leave the queue alone.  *)

QueueInv ==
  /\ WritesTheFront /\ SentInOrder /\ DropsOnlyAuthenticated
  /\ OnlyAuthQueued

LifeInv == Fresh /\ ConnectingIsNew /\ StoppedFlags

\* A step that keeps the queue, except that its write may have failed.
LEMMA QueueKept ==
  ASSUME TypeOK, QueueInv,
         s'.q = s.q,
         \/ s'.wr = s.wr /\ buf' = buf
         \/ s.wr = "started" /\ s'.wr = "none",
         s'.nullDeref = s.nullDeref, s.auth => s'.auth,
         stream' = stream, next' = next
  PROVE  QueueInv'
<1>1. WritesTheFront'
  BY DEF QueueInv, WritesTheFront
<1>2. SentInOrder'
  BY DEF QueueInv, SentInOrder, Increasing
<1>3. DropsOnlyAuthenticated' /\ OnlyAuthQueued'
  BY DEF QueueInv, DropsOnlyAuthenticated, OnlyAuthQueued
<1> QED
  BY <1>1, <1>2, <1>3 DEF QueueInv

\* A step that ends in stop(): x is the session when stop() is called.
LEMMA StopPreserves ==
  ASSUME IInv, NEW STATE x, x \in SessionType(Serials),
         \E u \in Stop(x, {"late"}) : s' = u,
         \A f \in {"dir", "q", "auth", "nullDeref", "stopped", "closeFlag",
                   "sock"} : x[f] = s[f],
         x.rd \in {s.rd, "off"},
         \/ x.wr = s.wr /\ buf' = buf
         \/ s.wr = "started" /\ x.wr = "none",
         buf' \in Serials \cup {NoMsg},
         closed' = (IF s.stopped THEN closed ELSE closed + 1),
         next' = next, stream' = stream
  PROVE  IInv'
<1>1. /\ s' \in SessionType(Serials)
      /\ \A f \in {"dir", "q", "wr", "auth", "nullDeref"} : s'[f] = x[f]
      /\ s'.stopped
      /\ x.stopped => s' = x
      /\ ~x.stopped => s'.closeFlag /\ s'.sock = "closed"
  <2>1. PICK u \in Stop(x, {"late"}) : s' = u
    OBVIOUS
  <2>2. /\ u \in SessionType(Serials)
        /\ \A f \in {"dir", "q", "wr", "bye", "auth", "nullDeref"} : u[f] = x[f]
        /\ u.stopped
        /\ x.stopped => u = x
        /\ ~x.stopped => u.closeFlag /\ u.sock = "closed"
    BY StopFacts
  <2> QED
    BY <2>1, <2>2
<1>2. TypeOK'
  BY <1>1 DEF IInv, TypeOK
<1>3. QueueInv'
  BY <1>1, QueueKept DEF IInv, QueueInv
<1>4. LifeInv'
  <2>1. CASE s.stopped
    BY <2>1, <1>1 DEF IInv, LifeInv, Fresh, ConnectingIsNew, StoppedFlags
  <2>2. CASE ~s.stopped
    BY <2>2, <1>1 DEF LifeInv, Fresh, ConnectingIsNew, StoppedFlags
  <2> QED
    BY <2>1, <2>2
<1>5. ClosedSignalledOnce'
  BY <1>1 DEF IInv, ClosedSignalledOnce
<1> QED
  BY <1>2, <1>3, <1>4, <1>5 DEF IInv, QueueInv, LifeInv

\* connectHandler() with an error.
LEMMA ConnectFailedPreserves == IInv /\ ConnectFailed => IInv'
<1> SUFFICES ASSUME IInv, ConnectFailed PROVE IInv'
  OBVIOUS
<1> QED
  BY StopPreserves DEF IInv, TypeOK, ConnectFailed, StopAndSignal

\* The read handler with an error or with input it cannot parse.
LEMMA ReadFailedPreserves == IInv /\ ReadFailed => IInv'
<1> SUFFICES ASSUME IInv, ReadFailed PROVE IInv'
  OBVIOUS
<1> DEFINE x == [s EXCEPT !.rd = "off"]
<1>1. /\ x \in SessionType(Serials)
      /\ \A f \in {"dir", "q", "auth", "nullDeref", "stopped", "closeFlag", "sock",
                   "wr"} : x[f] = s[f]
      /\ x.rd = "off"
  BY DEF IInv, TypeOK, SessionType
<1>2. /\ \E u \in Stop(x, {"late"}) : s' = u
      /\ closed' = (IF x.stopped THEN closed ELSE closed + 1)
      /\ buf' = buf /\ next' = next /\ stream' = stream
  BY DEF ReadFailed, StopAndSignal
<1> HIDE DEF x
<1> QED
  BY <1>1, <1>2, StopPreserves DEF IInv, TypeOK

\* The handler of the bye write.
LEMMA ByeDonePreserves == IInv /\ ByeDone => IInv'
<1> SUFFICES ASSUME IInv, ByeDone PROVE IInv'
  OBVIOUS
<1> DEFINE n == s.bye - 1
           x == [s EXCEPT !.bye = n]
<1>1. s \in SessionType(Serials) /\ s.bye \in Nat
  BY DEF IInv, TypeOK, SessionType
<1>2. n \in Nat
  BY <1>1 DEF ByeDone
<1>3. /\ \E u \in Stop(x, {"late"}) : s' = u
      /\ closed' = (IF x.stopped THEN closed ELSE closed + 1)
      /\ buf' = buf /\ next' = next /\ stream' = stream
  BY DEF ByeDone, StopAndSignal
<1> HIDE DEF n
<1>4. /\ x \in SessionType(Serials)
      /\ \A f \in {"dir", "q", "auth", "nullDeref", "stopped", "closeFlag", "sock",
                   "wr", "rd"} : x[f] = s[f]
  BY <1>1, <1>2 DEF SessionType
<1> HIDE DEF x
<1> QED
  BY <1>3, <1>4, StopPreserves DEF IInv, TypeOK

\* The write handler with an error.
LEMMA WriteFailedPreserves == IInv /\ WriteFailed => IInv'
<1> SUFFICES ASSUME IInv, WriteFailed PROVE IInv'
  OBVIOUS
<1> DEFINE x == [s EXCEPT !.wr = "none"]
<1>1. /\ x \in SessionType(Serials)
      /\ \A f \in {"dir", "q", "auth", "nullDeref", "stopped", "closeFlag", "sock",
                   "rd"} : x[f] = s[f]
      /\ x.wr = "none"
  BY DEF IInv, TypeOK, SessionType
<1>2. /\ s.wr = "started"
      /\ \E u \in Stop(x, {"late"}) : s' = u
      /\ closed' = (IF s.stopped THEN closed ELSE closed + 1)
      /\ buf' = NoMsg /\ next' = next /\ stream' = stream
  BY DEF WriteFailed
<1> HIDE DEF x
<1> QED
  BY <1>1, <1>2, StopPreserves

\* The steps that only set flags: a refusal, a close, a line of input.
LEMMA FlagsPreserve ==
  ASSUME IInv,
         s' \in SessionType(Serials),
         \A f \in {"q", "wr", "stopped", "sock", "nullDeref"} : s'[f] = s[f],
         s.auth => s'.auth, s.closeFlag => s'.closeFlag,
         s.sock # "connecting",
         s'.rd = "off" => s'.closeFlag,
         s'.rd = "late" => s.stopped,
         buf' = BufferOf(s'),
         next' = next, stream' = stream, closed' = closed
  PROVE  IInv'
<1>1. buf' = buf
  BY DEF BufferOf
<1>2. TypeOK'
  BY <1>1 DEF IInv, TypeOK
<1>3. QueueInv'
  BY <1>1, QueueKept DEF IInv, QueueInv
<1>4. LifeInv'
  BY DEF IInv, LifeInv, Fresh, ConnectingIsNew, StoppedFlags
<1>5. ClosedSignalledOnce'
  BY DEF IInv, ClosedSignalledOnce
<1> QED
  BY <1>2, <1>3, <1>4, <1>5 DEF IInv, QueueInv, LifeInv

\* gracefullClose() from outside the session.
LEMMA GracefullClosePreserves ==
  ASSUME IInv, s.sock # "connecting", s' = GracefullClose(s),
         buf' = BufferOf(s'), next' = next, stream' = stream, closed' = closed
  PROVE  IInv'
<1>1. s \in SessionType(Serials)
  BY DEF IInv, TypeOK
<1>2. /\ s' \in SessionType(Serials)
      /\ \A f \in {"dir", "sock", "q", "wr", "auth", "stopped", "rd",
                   "nullDeref"} : s'[f] = s[f]
      /\ s'.closeFlag
  BY <1>1, GracefullCloseFacts
<1>3. s'.rd = "late" => s.stopped
  BY <1>2 DEF IInv, StoppedFlags
<1> QED
  BY <1>2, <1>3, FlagsPreserve

\* do_accept() over the limit of sessions.
LEMMA RefusedPreserves == IInv /\ Refused => IInv'
  BY GracefullClosePreserves
  DEF Refused, Becomes, IInv, ConnectingIsNew

\* An owner closes the session.
LEMMA ClosePreserves == IInv /\ Close => IInv'
  BY GracefullClosePreserves
  DEF Close, Becomes, IInv, Fresh

\* A line that authenticates the session or is dispatched.
LEMMA ReadGoodPreserves == IInv /\ ReadGood => IInv'
<1> SUFFICES ASSUME IInv, ReadGood PROVE IInv'
  OBVIOUS
<1> DEFINE x == [s EXCEPT !.auth = TRUE]
<1>1. /\ x \in SessionType(Serials)
      /\ \A f \in {"q", "wr", "stopped", "sock", "nullDeref", "closeFlag"} :
           x[f] = s[f]
      /\ x.auth
  BY DEF IInv, TypeOK, SessionType
<1>2. PICK t \in LineDone(x) : Becomes(t)
  BY DEF ReadGood
<1> HIDE DEF x
<1>3. /\ t \in SessionType(Serials)
      /\ \A f \in {"dir", "sock", "q", "wr", "bye", "auth", "closeFlag",
                      "stopped", "nullDeref"} : t[f] = x[f]
      /\ t.rd = "late" => x.stopped
      /\ ~x.stopped => t.rd = "on"
  BY <1>1, LineDoneFacts
<1>4. s.sock # "connecting" /\ (s.stopped => s.closeFlag)
  BY DEF IInv, ConnectingIsNew, StoppedFlags, ReadGood
<1> QED
  BY <1>1, <1>2, <1>3, <1>4, FlagsPreserve DEF ReadGood, Becomes

\* A first message that authenticate() refuses.
LEMMA ReadRefusedPreserves == IInv /\ ReadRefused => IInv'
<1> SUFFICES ASSUME IInv, ReadRefused PROVE IInv'
  OBVIOUS
<1> DEFINE x == GracefullClose(s)
<1>1. /\ x \in SessionType(Serials)
      /\ \A f \in {"q", "wr", "stopped", "sock", "nullDeref", "auth"} :
           x[f] = s[f]
      /\ x.closeFlag
  BY GracefullCloseFacts DEF IInv, TypeOK
<1>2. PICK t \in LineDone(x) : Becomes(t)
  BY DEF ReadRefused
<1> HIDE DEF x
<1>3. /\ t \in SessionType(Serials)
      /\ \A f \in {"dir", "sock", "q", "wr", "bye", "auth", "closeFlag",
                      "stopped", "nullDeref"} : t[f] = x[f]
      /\ t.rd = "late" => x.stopped
      /\ ~x.stopped => t.rd = "on"
  BY <1>1, LineDoneFacts
<1>4. s.sock # "connecting"
  BY DEF IInv, ConnectingIsNew, ReadRefused
<1> QED
  BY <1>1, <1>2, <1>3, <1>4, FlagsPreserve DEF ReadRefused, Becomes

-----------------------------------------------------------------------------
(* The steps that change the queue.                                        *)

\* start() puts message 0 in the queue of a session that has sent nothing.
LEMMA StartPreserves ==
  ASSUME IInv, NEW STATE x, x \in SessionType(Serials),
         s' = Start(x, 0), buf' = BufferOf(s'),
         s.q = <<>>, s.wr = "none", ~s.auth, ~s.closeFlag, ~s.stopped,
         stream = <<>>, x.sock # "connecting",
         \A f \in {"q", "wr", "auth", "nullDeref", "stopped", "closeFlag"} :
           x[f] = s[f],
         next' = next, stream' = stream, closed' = closed
  PROVE  IInv'
<1>0. 0 \in Serials
  BY MaxMsgsAssumption DEF Serials
<1>1. /\ s' \in SessionType(Serials)
      /\ \A f \in {"sock", "auth", "closeFlag", "stopped", "nullDeref"} :
           s'[f] = x[f]
      /\ s'.q = Append(x.q, 0)
      /\ s'.wr = IF x.q = <<>> THEN "started" ELSE x.wr
      /\ s'.rd = "on"
  BY <1>0, StartFacts
<1>2. /\ Len(s'.q) = 1 /\ s'.q[1] = 0 /\ Head(s'.q) = 0 /\ s'.q # <<>>
      /\ s'.wr = "started" /\ buf' = 0
  <2>1. x.q = <<>> /\ s'.q = Append(<<>>, 0) /\ s'.wr = "started"
    BY <1>1
  <2>2. /\ Len(Append(<<>>, 0)) = 1 /\ Append(<<>>, 0)[1] = 0
        /\ Head(Append(<<>>, 0)) = 0 /\ Append(<<>>, 0) # <<>>
    OBVIOUS
  <2> QED
    BY <2>1, <2>2 DEF BufferOf
<1>3. TypeOK'
  BY <1>0, <1>1, <1>2 DEF IInv, TypeOK
<1>4. 0 < next
  BY DEF IInv, TypeOK
<1>5. WritesTheFront' /\ OnlyAuthQueued'
  <2>1. WritesTheFront'
    BY <1>2, Zenon DEF WritesTheFront
  <2>2. Len(s'.q) <= 1
    <3>1. \A n : n = 1 => n <= 1
      OBVIOUS
    <3> QED
      BY <1>2, <3>1, Zenon
  <2>3. OnlyAuthQueued'
    BY <2>2, Zenon DEF OnlyAuthQueued
  <2> QED
    BY <2>1, <2>3
<1>6. SentInOrder'
  <2>1. Len(stream') = 0
    OBVIOUS
  <2> QED
    BY <2>1, <1>2, <1>4 DEF SentInOrder, Increasing
<1>7. DropsOnlyAuthenticated' /\ ClosedSignalledOnce'
  BY <1>1 DEF IInv, DropsOnlyAuthenticated, ClosedSignalledOnce
<1>8. Fresh' /\ ConnectingIsNew' /\ StoppedFlags'
  BY <1>1 DEF Fresh, ConnectingIsNew, StoppedFlags
<1> QED
  BY <1>3, <1>5, <1>6, <1>7, <1>8 DEF IInv

\* connectHandler() without an error.
LEMMA ConnectedPreserves == IInv /\ Connected => IInv'
<1> SUFFICES ASSUME IInv, Connected PROVE IInv'
  OBVIOUS
<1> DEFINE x == [s EXCEPT !.sock = "open"]
<1>1. /\ x \in SessionType(Serials) /\ x.sock = "open"
      /\ \A f \in {"q", "wr", "auth", "nullDeref", "stopped", "closeFlag"} :
           x[f] = s[f]
  BY DEF IInv, TypeOK, SessionType
<1>2. /\ s' = Start(x, 0) /\ buf' = BufferOf(s')
      /\ next' = next /\ stream' = stream /\ closed' = closed
  BY DEF Connected, Becomes
<1>3. /\ s.q = <<>> /\ s.wr = "none" /\ ~s.auth /\ ~s.closeFlag /\ ~s.stopped
      /\ stream = <<>>
  BY DEF Connected, IInv, Fresh, ConnectingIsNew, StoppedFlags
<1> HIDE DEF x
<1> QED
  BY <1>1, <1>2, <1>3, StartPreserves

\* do_accept() starts the session.
LEMMA AcceptedPreserves == IInv /\ Accepted => IInv'
<1> SUFFICES ASSUME IInv, Accepted PROVE IInv'
  OBVIOUS
<1>1. s \in SessionType(Serials) /\ s.dir = "incoming" /\ s.sock # "connecting"
  BY DEF Accepted, IInv, TypeOK, ConnectingIsNew
<1>2. /\ s.q = <<>> /\ s.wr = "none" /\ ~s.auth /\ ~s.closeFlag /\ ~s.stopped
      /\ stream = <<>>
  BY DEF Accepted, IInv, Fresh, StoppedFlags
<1>3. /\ s' = Start(s, 0) /\ buf' = BufferOf(s')
      /\ next' = next /\ stream' = stream /\ closed' = closed
  BY DEF Accepted, Becomes
<1> QED
  BY <1>1, <1>2, <1>3, StartPreserves DEF SessionType

\* The steps that append messages next .. next' - 1, or what is left of them
\* once the expired ones are dropped from a queue that was empty.
LEMMA QueueGrows ==
  ASSUME IInv, s.auth, s' \in SessionType(Serials),
         \A f \in {"dir", "sock", "auth", "closeFlag", "stopped", "rd",
                   "nullDeref"} : s'[f] = s[f],
         Len(s.q) <= Len(s'.q),
         \A i \in 1..Len(s.q) : s'.q[i] = s.q[i],
         \A i \in (Len(s.q) + 1)..Len(s'.q) :
           next <= s'.q[i] /\ s'.q[i] < next',
         \A i, j \in (Len(s.q) + 1)..Len(s'.q) : i < j => s'.q[i] < s'.q[j],
         s'.wr = (IF s.q # <<>> THEN s.wr
                  ELSE IF s'.q # <<>> THEN "started" ELSE "none"),
         buf' = BufferOf(s'), next' \in 1..(MaxMsgs + 1), next <= next',
         stream' = stream, closed' = closed
  PROVE  IInv'
<1>1. /\ s.q \in Seq(Serials) /\ Len(s.q) \in Nat
      /\ s'.q \in Seq(Serials) /\ Len(s'.q) \in Nat
      /\ stream \in Seq(Serials) /\ Len(stream) \in Nat
      /\ next \in Nat /\ next' \in Nat
      /\ Serials \subseteq Int
  BY LenProperties, MaxMsgsAssumption DEF IInv, TypeOK, SessionType, Serials
<1>2. /\ \A i \in 1..Len(s.q) : s.q[i] \in Int
      /\ \A i \in 1..Len(s'.q) : s'.q[i] \in Int
      /\ \A i \in 1..Len(stream) : stream[i] \in Int
  BY <1>1, ElementOfSeq
<1>3. WritesTheFront'
  <2>1. CASE s.q = <<>>
    <3>1. s.wr = "none"
      BY <2>1 DEF IInv, WritesTheFront
    <3> QED
      BY <2>1, <3>1 DEF WritesTheFront, BufferOf
  <2>2. CASE s.q # <<>>
    <3>1. Len(s.q) >= 1 /\ Len(s'.q) >= 1
      BY <2>2, <1>1, EmptySeq
    <3>2. s'.q # <<>> /\ Head(s'.q) = Head(s.q)
      BY <2>2, <3>1, <1>1, EmptySeq
    <3>3. s'.wr = s.wr /\ buf' = buf
      BY <2>2 DEF BufferOf
    <3> QED
      BY <2>2, <3>2, <3>3 DEF IInv, WritesTheFront
  <2> QED
    BY <2>1, <2>2
<1>4. TypeOK'
  <2>1. buf' \in Serials \cup {NoMsg}
    <3>1. CASE s'.q = <<>> \/ s.wr # "none" \/ s'.wr # "started"
      BY <3>1 DEF IInv, TypeOK, BufferOf, WritesTheFront
    <3>2. CASE s'.q # <<>> /\ s.wr = "none" /\ s'.wr = "started"
      BY <3>2, <1>1, HeadTailProperties DEF BufferOf
    <3> QED
      BY <3>1, <3>2
  <2> QED
    BY <2>1 DEF IInv, TypeOK
<1>5. SentInOrder'
  <2>1. /\ Increasing(stream) /\ Increasing(s.q)
        /\ \A i \in 1..Len(stream), j \in 1..Len(s.q) :
             stream[i] < s.q[j] \/ (j = 1 /\ s.wr = "sent")
        /\ \A i \in 1..Len(stream) : stream[i] < next
        /\ \A j \in 1..Len(s.q) : s.q[j] < next
    BY DEF IInv, SentInOrder
  <2>2. Increasing(stream')
    BY <2>1
  <2>3. Increasing(s'.q)
    <3> SUFFICES ASSUME NEW i \in 1..Len(s'.q), NEW j \in 1..Len(s'.q), i < j
                 PROVE  s'.q[i] < s'.q[j]
      BY DEF Increasing
    <3>1. CASE j <= Len(s.q)
      <4>1. i \in 1..Len(s.q) /\ j \in 1..Len(s.q)
        BY <3>1, <1>1
      <4> QED
        BY <4>1, <2>1 DEF Increasing
    <3>2. CASE i <= Len(s.q) /\ j > Len(s.q)
      <4>1. i \in 1..Len(s.q) /\ j \in (Len(s.q) + 1)..Len(s'.q)
        BY <3>2, <1>1
      <4>2. s'.q[i] < next /\ next <= s'.q[j]
        BY <4>1, <2>1
      <4> QED
        BY <4>2, <1>1, <1>2
    <3>3. CASE i > Len(s.q)
      <4>1. /\ i \in (Len(s.q) + 1)..Len(s'.q)
            /\ j \in (Len(s.q) + 1)..Len(s'.q)
        BY <3>3, <1>1
      <4> QED
        BY <4>1
    <3> QED
      BY <3>1, <3>2, <3>3, <1>1
  <2>4. ASSUME NEW i \in 1..Len(stream), NEW j \in 1..Len(s'.q)
        PROVE  stream[i] < s'.q[j] \/ (j = 1 /\ s'.wr = "sent")
    <3>1. CASE j <= Len(s.q)
      <4>1. s.q # <<>>
        BY <3>1, <1>1, EmptySeq
      <4> QED
        BY <4>1, <3>1, <1>1, <2>1
    <3>2. CASE j > Len(s.q)
      <4>1. j \in (Len(s.q) + 1)..Len(s'.q)
        BY <3>2, <1>1
      <4>2. stream[i] < next /\ next <= s'.q[j]
        BY <4>1, <2>1
      <4> QED
        BY <4>2, <1>1, <1>2
    <3> QED
      BY <3>1, <3>2, <1>1
  <2>5. ASSUME NEW j \in 1..Len(s'.q) PROVE s'.q[j] < next'
    <3>1. CASE j <= Len(s.q)
      <4>1. j \in 1..Len(s.q)
        BY <3>1, <1>1
      <4>2. s'.q[j] < next
        BY <4>1, <2>1
      <4> QED
        BY <4>2, <1>1, <1>2
    <3>2. CASE j > Len(s.q)
      <4>1. j \in (Len(s.q) + 1)..Len(s'.q)
        BY <3>2, <1>1
      <4> QED
        BY <4>1
    <3> QED
      BY <3>1, <3>2, <1>1
  <2>6. ASSUME NEW i \in 1..Len(stream) PROVE stream[i] < next'
    BY <1>1, <1>2, <2>1
  <2> QED
    BY <2>2, <2>3, <2>4, <2>5, <2>6 DEF SentInOrder
<1>6. DropsOnlyAuthenticated' /\ ClosedSignalledOnce' /\ OnlyAuthQueued'
  BY DEF IInv, DropsOnlyAuthenticated, ClosedSignalledOnce, OnlyAuthQueued
<1>7. Fresh' /\ ConnectingIsNew' /\ StoppedFlags'
  BY DEF IInv, Fresh, ConnectingIsNew, StoppedFlags
<1> QED
  BY <1>3, <1>4, <1>5, <1>6, <1>7 DEF IInv

\* An owner puts one message.
LEMMA PutPreserves == IInv /\ Put => IInv'
<1> SUFFICES ASSUME IInv, Put PROVE IInv'
  OBVIOUS
<1>1. /\ s.auth /\ next \in Serials /\ next \in Nat /\ next' = next + 1
      /\ next' \in 1..(MaxMsgs + 1)
      /\ s' = PutOutQueue(s, next) /\ buf' = BufferOf(s')
      /\ stream' = stream /\ closed' = closed
  BY MaxMsgsAssumption DEF Put, Becomes, IInv, TypeOK, Serials
<1>2. /\ s' \in SessionType(Serials)
      /\ \A f \in {"dir", "sock", "bye", "auth", "closeFlag", "stopped",
                   "rd", "nullDeref"} : s'[f] = s[f]
      /\ s'.q = Append(s.q, next)
      /\ s'.wr = IF s.q = <<>> THEN "started" ELSE s.wr
  <2>1. s \in SessionType(Serials)
    BY DEF IInv, TypeOK
  <2> QED
    BY <1>1, <2>1, PutOutQueueFacts
<1>3. /\ s.q \in Seq(Serials) /\ Len(s.q) \in Nat
      /\ Len(s'.q) = Len(s.q) + 1 /\ s'.q # <<>>
      /\ \A i \in 1..Len(s.q) : s'.q[i] = s.q[i]
      /\ s'.q[Len(s.q) + 1] = next
  BY <1>1, <1>2, AppendProperties DEF IInv, TypeOK, SessionType
<1>4. Len(s.q) <= Len(s'.q)
  BY <1>3
<1>5. ASSUME NEW i \in (Len(s.q) + 1)..Len(s'.q)
      PROVE  next <= s'.q[i] /\ s'.q[i] < next'
  <2>1. i = Len(s.q) + 1
    BY <1>3
  <2> QED
    BY <2>1, <1>1, <1>3
<1>6. ASSUME NEW i \in (Len(s.q) + 1)..Len(s'.q),
             NEW j \in (Len(s.q) + 1)..Len(s'.q), i < j
      PROVE  s'.q[i] < s'.q[j]
  BY <1>3, <1>6
<1>7. s'.wr = (IF s.q # <<>> THEN s.wr
               ELSE IF s'.q # <<>> THEN "started" ELSE "none")
  BY <1>2, <1>3
<1>8. next <= next'
  BY <1>1
<1> QED
  BY <1>1, <1>2, <1>3, <1>4, <1>5, <1>6, <1>7, <1>8, QueueGrows

\* An owner has the session take over a queue.
LEMMA TakeOverPreserves == IInv /\ TakeOver => IInv'
<1> SUFFICES ASSUME IInv, TakeOver PROVE IInv'
  OBVIOUS
<1>1. PICK last \in next..MaxMsgs :
        /\ \E t \in TakeOverMessages(s, [i \in 1..(last - next + 1) |->
                                          next + i - 1]) :
             Becomes(t)
        /\ next' = last + 1
  BY DEF TakeOver
<1> DEFINE len == last - next + 1
           oq == [i \in 1..len |-> next + i - 1]
<1>2. PICK t \in TakeOverMessages(s, oq) : Becomes(t)
  BY <1>1
<1>3. /\ s.auth /\ next \in 1..MaxMsgs /\ last \in 1..MaxMsgs
      /\ len \in Nat \ {0} /\ next + len = last + 1
      /\ s' = t /\ buf' = BufferOf(s')
      /\ next' \in 1..(MaxMsgs + 1) /\ next <= next'
      /\ next' = next + len
      /\ stream' = stream /\ closed' = closed
      /\ s \in SessionType(Serials)
  BY <1>1, <1>2, MaxMsgsAssumption DEF TakeOver, Becomes, IInv, TypeOK
<1> HIDE DEF len
<1>4. \A i \in 1..len : next + i - 1 \in Serials
  BY <1>1, <1>3, MaxMsgsAssumption DEF Serials
<1>5. /\ oq \in Seq(Serials) /\ Len(oq) = len
      /\ \A i \in 1..len : oq[i] = next + i - 1
  <2>1. oq \in [1..len -> Serials] /\ DOMAIN oq = 1..len
    BY <1>4
  <2>2. oq \in Seq(Serials)
    BY <2>1, <1>3, SeqDef
  <2>3. DOMAIN oq = 1..Len(oq) /\ Len(oq) \in Nat
    BY <2>2, LenProperties
  <2>4. Len(oq) = len
    BY <2>1, <2>3, <1>3
  <2> QED
    BY <2>2, <2>4
<1> HIDE DEF oq
<1>6. s.q \in Seq(Serials) /\ Len(s.q) \in Nat /\ oq # <<>>
  BY <1>3, <1>5, LenProperties, EmptySeq DEF SessionType
<1>7. CASE s.q = <<>>
  <2> DEFINE x == [s EXCEPT !.q = oq]
  <2>1. /\ x \in SessionType(Serials) /\ x.q = oq
        /\ \A f \in {"dir", "sock", "wr", "auth", "closeFlag", "stopped", "rd",
                     "nullDeref"} : x[f] = s[f]
    BY <1>3, <1>5 DEF SessionType
  <2>2. s.wr = "none"
    BY <1>7 DEF IInv, WritesTheFront
  <2>3. t \in DoWrite(x)
    BY <1>2, <1>6, <1>7 DEF TakeOverMessages
  <2> HIDE DEF x
  <2>4. /\ t \in SessionType(Serials)
        /\ \A f \in {"dir", "sock", "bye", "auth", "closeFlag", "stopped",
                     "rd", "nullDeref"} : t[f] = x[f]
        /\ \E k \in 0..Len(x.q) :
             /\ Len(t.q) = Len(x.q) - k
             /\ \A i \in 1..Len(t.q) : t.q[i] = x.q[i + k]
        /\ t.wr = IF t.q = <<>> THEN "none" ELSE "started"
    BY <1>3, <2>1, <2>2, <2>3, DoWriteFacts
  <2>5. PICK k \in 0..len :
          /\ Len(s'.q) = len - k
          /\ \A i \in 1..Len(s'.q) : s'.q[i] = oq[i + k]
    BY <2>1, <2>4, <1>3, <1>5
  <2>6. Len(s.q) = 0 /\ Len(s'.q) \in Nat
    BY <1>7, <2>5, <1>3, EmptySeq
  <2>7. ASSUME NEW i \in 1..Len(s'.q)
        PROVE  s'.q[i] = next + (i + k) - 1 /\ i + k \in 1..len
    <3>1. i + k \in 1..len
      BY <1>3, <2>5, <2>6
    <3> QED
      BY <3>1, <2>5, <1>5
  <2>8. /\ Len(s.q) <= Len(s'.q)
        /\ \A i \in 1..Len(s.q) : s'.q[i] = s.q[i]
        /\ \A i \in (Len(s.q) + 1)..Len(s'.q) :
             next <= s'.q[i] /\ s'.q[i] < next'
        /\ \A i, j \in (Len(s.q) + 1)..Len(s'.q) : i < j => s'.q[i] < s'.q[j]
    BY <2>6, <2>7, <1>3
  <2> QED
    BY <1>3, <1>7, <2>1, <2>4, <2>8, QueueGrows
<1>8. CASE s.q # <<>>
  <2> DEFINE cat == s.q \o oq
  <2>1. /\ cat \in Seq(Serials) /\ Len(cat) = Len(s.q) + len
        /\ \A i \in 1..(Len(s.q) + len) :
             cat[i] = IF i <= Len(s.q) THEN s.q[i] ELSE oq[i - Len(s.q)]
    BY <1>5, <1>6, ConcatProperties
  <2>2. t = [s EXCEPT !.q = cat]
    BY <1>2, <1>8 DEF TakeOverMessages
  <2> HIDE DEF cat
  <2>3. /\ s' \in SessionType(Serials) /\ s'.q = cat /\ s'.wr = s.wr
        /\ \A f \in {"dir", "sock", "auth", "closeFlag", "stopped", "rd",
                     "nullDeref"} : s'[f] = s[f]
    BY <2>1, <2>2, <1>3 DEF SessionType
  <2>4. /\ Len(s.q) <= Len(s'.q)
        /\ \A i \in 1..Len(s.q) : s'.q[i] = s.q[i]
    BY <2>1, <2>3, <1>3, <1>6
  <2>5. ASSUME NEW i \in (Len(s.q) + 1)..Len(s'.q)
        PROVE  s'.q[i] = next + (i - Len(s.q)) - 1 /\ i - Len(s.q) \in 1..len
    <3>1. i - Len(s.q) \in 1..len /\ i \in 1..(Len(s.q) + len)
      BY <2>1, <2>3, <1>3, <1>6
    <3>2. cat[i] = oq[i - Len(s.q)]
      BY <3>1, <2>1, <1>6
    <3> QED
      BY <3>1, <3>2, <2>3, <1>5
  <2>6. /\ \A i \in (Len(s.q) + 1)..Len(s'.q) :
             next <= s'.q[i] /\ s'.q[i] < next'
        /\ \A i, j \in (Len(s.q) + 1)..Len(s'.q) : i < j => s'.q[i] < s'.q[j]
    <3>1. Len(s.q) \in Int /\ Len(s'.q) \in Int /\ next \in Int
      BY <1>3, <1>6, <2>3, LenProperties DEF SessionType
    <3>2. ASSUME NEW i \in (Len(s.q) + 1)..Len(s'.q)
          PROVE  next <= s'.q[i] /\ s'.q[i] < next'
      <4>1. PICK d \in 1..len : s'.q[i] = next + d - 1
        BY <2>5
      <4> QED
        BY <4>1, <3>1, <1>3
    <3>3. ASSUME NEW i \in (Len(s.q) + 1)..Len(s'.q),
                 NEW j \in (Len(s.q) + 1)..Len(s'.q), i < j
          PROVE  s'.q[i] < s'.q[j]
      <4>1. /\ s'.q[i] = next + (i - Len(s.q)) - 1
            /\ s'.q[j] = next + (j - Len(s.q)) - 1
        BY <2>5
      <4>2. \A l, n \in Int : n + (i - l) - 1 < n + (j - l) - 1
        BY <3>1, <3>3
      <4> QED
        BY <3>1, <4>1, <4>2
    <3> QED
      BY <3>2, <3>3
  <2> QED
    BY <1>3, <1>8, <2>3, <2>4, <2>6, QueueGrows
<1> QED
  BY <1>7, <1>8

\* The bytes of the front message go out.
LEMMA TransmitPreserves == IInv /\ Transmit => IInv'
<1> SUFFICES ASSUME IInv, Transmit PROVE IInv'
  OBVIOUS
<1>1. /\ s.wr = "started" /\ s' = [s EXCEPT !.wr = "sent"]
      /\ stream' = Append(stream, buf)
      /\ next' = next /\ buf' = buf /\ closed' = closed
  BY DEF Transmit, Transmitted
<1>2. /\ s' \in SessionType(Serials) /\ s'.wr = "sent"
      /\ \A f \in {"dir", "sock", "q", "auth", "closeFlag", "stopped", "rd",
                   "nullDeref"} : s'[f] = s[f]
  BY <1>1 DEF IInv, TypeOK, SessionType
<1>3. /\ s.q \in Seq(Serials) /\ Len(s.q) \in Nat \ {0}
      /\ buf = s.q[1] /\ buf \in Serials
      /\ stream \in Seq(Serials) /\ Len(stream) \in Nat
  <2>1. s.q # <<>> /\ buf = Head(s.q)
    BY <1>1 DEF IInv, WritesTheFront
  <2>2. s.q \in Seq(Serials) /\ stream \in Seq(Serials)
    BY DEF IInv, TypeOK, SessionType
  <2>3. Head(s.q) = s.q[1] /\ Head(s.q) \in Serials
    BY <2>1, <2>2, HeadTailProperties
  <2> QED
    BY <2>1, <2>2, <2>3, EmptySeq, LenProperties
<1>4. /\ stream' \in Seq(Serials) /\ Len(stream') = Len(stream) + 1
      /\ \A i \in 1..Len(stream) : stream'[i] = stream[i]
      /\ stream'[Len(stream) + 1] = s.q[1]
  BY <1>1, <1>3, AppendProperties
<1>5. TypeOK'
  BY <1>1, <1>2, <1>4 DEF IInv, TypeOK
<1>6. WritesTheFront'
  BY <1>1, <1>2 DEF IInv, WritesTheFront
<1>7. SentInOrder'
  <2>1. /\ Increasing(stream) /\ Increasing(s.q)
        /\ \A i \in 1..Len(stream), j \in 1..Len(s.q) : stream[i] < s.q[j]
        /\ \A i \in 1..Len(stream) : stream[i] < next
        /\ \A j \in 1..Len(s.q) : s.q[j] < next
    BY <1>1 DEF IInv, SentInOrder
  <2>2. 1 \in 1..Len(s.q)
    BY <1>3
  <2>3. Increasing(stream')
    <3> SUFFICES ASSUME NEW i \in 1..Len(stream'), NEW j \in 1..Len(stream'),
                        i < j
                 PROVE  stream'[i] < stream'[j]
      BY DEF Increasing
    <3>1. i \in 1..Len(stream)
      BY <1>3, <1>4
    <3>2. CASE j = Len(stream) + 1
      BY <3>1, <3>2, <2>1, <2>2, <1>4
    <3>3. CASE j \in 1..Len(stream)
      BY <3>1, <3>3, <2>1, <1>4 DEF Increasing
    <3> QED
      BY <3>2, <3>3, <1>3, <1>4
  <2>4. ASSUME NEW i \in 1..Len(stream'), NEW j \in 1..Len(s.q), j # 1
        PROVE  stream'[i] < s.q[j]
    <3>1. CASE i = Len(stream) + 1
      <4>1. 1 < j
        BY <1>3, <2>4
      <4> QED
        BY <4>1, <3>1, <2>1, <2>2, <1>4 DEF Increasing
    <3>2. CASE i \in 1..Len(stream)
      BY <3>2, <2>1, <1>4
    <3> QED
      BY <3>1, <3>2, <1>3, <1>4
  <2>5. ASSUME NEW i \in 1..Len(stream') PROVE stream'[i] < next'
    <3>1. CASE i = Len(stream) + 1
      BY <3>1, <2>1, <2>2, <1>1, <1>4
    <3>2. CASE i \in 1..Len(stream)
      BY <3>2, <2>1, <1>1, <1>4
    <3> QED
      BY <3>1, <3>2, <1>3, <1>4
  <2>6. s'.q = s.q /\ s'.wr = "sent" /\ next' = next
    BY <1>1, <1>2
  <2> QED
    BY <2>1, <2>3, <2>4, <2>5, <2>6 DEF SentInOrder
<1>8. DropsOnlyAuthenticated' /\ ClosedSignalledOnce' /\ OnlyAuthQueued'
  BY <1>1, <1>2 DEF IInv, DropsOnlyAuthenticated, ClosedSignalledOnce, OnlyAuthQueued
<1>9. Fresh' /\ ConnectingIsNew' /\ StoppedFlags'
  BY <1>1, <1>2 DEF IInv, Fresh, ConnectingIsNew, StoppedFlags
<1> QED
  BY <1>5, <1>6, <1>7, <1>8, <1>9 DEF IInv

\* The handler of a successful write.
LEMMA WriteOkPreserves == IInv /\ WriteOk => IInv'
<1> SUFFICES ASSUME IInv, WriteOk PROVE IInv'
  OBVIOUS
<1>1. /\ s.wr = "sent" /\ s' \in WriteDone(s) /\ buf' = NoMsg
      /\ next' = next /\ stream' = stream /\ closed' = closed
  BY DEF WriteOk
<1>2. s.q # <<>> /\ s \in SessionType(Serials) /\ (s.auth \/ Len(s.q) <= 1)
  BY <1>1 DEF IInv, WritesTheFront, TypeOK, OnlyAuthQueued
<1>3. /\ s' \in SessionType(Serials)
      /\ \A f \in {"dir", "sock", "auth", "closeFlag", "stopped", "rd",
                   "nullDeref"} : s'[f] = s[f]
      /\ \E k \in 1..Len(s.q) :
           /\ Len(s'.q) = Len(s.q) - k
           /\ \A i \in 1..Len(s'.q) : s'.q[i] = s.q[i + k]
      /\ s'.wr = "none"
  BY <1>1, <1>2, WriteDoneFacts
<1>4. PICK k \in 1..Len(s.q) :
        /\ Len(s'.q) = Len(s.q) - k
        /\ \A i \in 1..Len(s'.q) : s'.q[i] = s.q[i + k]
  BY <1>3
<1>5. Len(s.q) \in Nat /\ Len(s'.q) \in Nat
  BY <1>2, <1>3, LenProperties DEF SessionType
<1>6. ASSUME NEW i \in 1..Len(s'.q)
      PROVE  i + k \in 1..Len(s.q) /\ i + k # 1
  BY <1>4, <1>5
<1>7. TypeOK' /\ WritesTheFront'
  BY <1>1, <1>3 DEF IInv, TypeOK, WritesTheFront
<1>8. SentInOrder'
  <2>1. /\ Increasing(stream) /\ Increasing(s.q)
        /\ \A i \in 1..Len(stream), j \in 1..Len(s.q) :
             stream[i] < s.q[j] \/ (j = 1 /\ s.wr = "sent")
        /\ \A i \in 1..Len(stream) : stream[i] < next
        /\ \A j \in 1..Len(s.q) : s.q[j] < next
    BY DEF IInv, SentInOrder
  <2>2. ASSUME NEW i \in 1..Len(s'.q), NEW j \in 1..Len(s'.q), i < j
        PROVE  s'.q[i] < s'.q[j]
    <3>1. i + k \in 1..Len(s.q) /\ j + k \in 1..Len(s.q) /\ i + k < j + k
      BY <1>6, <2>2, <1>5
    <3> QED
      BY <3>1, <2>1, <1>4 DEF Increasing
  <2>3. ASSUME NEW i \in 1..Len(stream), NEW j \in 1..Len(s'.q)
        PROVE  stream[i] < s'.q[j]
    BY <1>4, <1>6, <2>1
  <2>4. ASSUME NEW j \in 1..Len(s'.q) PROVE s'.q[j] < next
    BY <1>4, <1>6, <2>1
  <2> QED
    BY <1>1, <2>1, <2>2, <2>3, <2>4 DEF SentInOrder, Increasing
<1>9. /\ DropsOnlyAuthenticated' /\ ClosedSignalledOnce'
      /\ Fresh' /\ ConnectingIsNew' /\ StoppedFlags'
  <2>1. s.sock # "connecting" /\ (s.rd = "off" => s.closeFlag)
    BY <1>2 DEF IInv, Fresh
  <2> QED
    BY <2>1, <1>1, <1>3 DEF IInv, DropsOnlyAuthenticated, ClosedSignalledOnce,
       Fresh, ConnectingIsNew, StoppedFlags
<1>10. OnlyAuthQueued'
  BY <1>2, <1>3, <1>4, <1>5 DEF OnlyAuthQueued
<1> QED
  BY <1>7, <1>8, <1>9, <1>10 DEF IInv

-----------------------------------------------------------------------------

\* Both kinds of session start empty.
LEMMA InitIInv == Init => IInv
<1> SUFFICES ASSUME Init PROVE IInv
  OBVIOUS
<1>1. PICK dir \in Directions : s = NewSession(dir)
  BY DEF Init
<1>2. /\ s.dir = dir /\ s.sock = (IF dir = "incoming" THEN "open" ELSE "connecting")
      /\ s.q = <<>> /\ s.wr = "none" /\ s.bye = 0 /\ ~s.auth /\ ~s.closeFlag
      /\ ~s.stopped /\ s.rd = "off" /\ ~s.nullDeref
      /\ next = 1 /\ buf = NoMsg /\ stream = <<>> /\ closed = 0
  BY <1>1 DEF NewSession, Init
<1>3. s \in SessionType(Serials)
  <2>1. <<>> \in Seq(Serials)
    BY EmptySeq
  <2> QED
    BY <1>1, <2>1 DEF NewSession, SessionType, Directions
<1>4. TypeOK
  BY <1>2, <1>3, EmptySeq, MaxMsgsAssumption DEF TypeOK
<1>5. WritesTheFront /\ DropsOnlyAuthenticated /\ ClosedSignalledOnce /\ StoppedFlags
  BY <1>2 DEF WritesTheFront, DropsOnlyAuthenticated, ClosedSignalledOnce, StoppedFlags
<1>6. Fresh /\ ConnectingIsNew
  BY <1>1, <1>2 DEF Fresh, ConnectingIsNew, Directions
<1>7. SentInOrder /\ OnlyAuthQueued
  <2>1. Len(s.q) = 0 /\ Len(stream) = 0
    BY <1>2
  <2> QED
    BY <2>1 DEF SentInOrder, Increasing, OnlyAuthQueued
<1> QED
  BY <1>4, <1>5, <1>6, <1>7 DEF IInv

\* A step of some other part of the program.
LEMMA StutterPreserves == IInv /\ UNCHANGED vars => IInv'
  BY DEF IInv, vars, TypeOK, WritesTheFront, SentInOrder, Increasing,
     DropsOnlyAuthenticated, ClosedSignalledOnce, Fresh, ConnectingIsNew,
     StoppedFlags, OnlyAuthQueued

\* The inductive invariant holds in every reachable state of a session, whatever
\* the owners, the peer and the kernel do and however many messages there are.
THEOREM SessionInvariant == Spec => []IInv
<1>1. IInv /\ Next => IInv'
  BY ConnectedPreserves, ConnectFailedPreserves, AcceptedPreserves,
     RefusedPreserves, PutPreserves, TakeOverPreserves, ClosePreserves,
     TransmitPreserves, WriteOkPreserves, WriteFailedPreserves,
     ByeDonePreserves, ReadGoodPreserves, ReadRefusedPreserves,
     ReadFailedPreserves DEF Next, Owner
<1> QED
  BY InitIInv, <1>1, StutterPreserves, PTL DEF Spec

\* Every field of the session keeps its type.
THEOREM SessionTypeOK == Spec => []TypeOK
<1>1. IInv => TypeOK
  BY DEF IInv
<1> QED
  BY <1>1, SessionInvariant, PTL

\* The write handler of session.cpp pops exactly the message that was written
\* and never an empty deque.
THEOREM SessionWritesTheFront == Spec => []WritesTheFront
<1>1. IInv => WritesTheFront
  BY DEF IInv
<1> QED
  BY <1>1, SessionInvariant, PTL

\* A session hands its messages to TCP in the order of acceptance, none twice.
THEOREM SessionSentInOrder == Spec => []SentInOrder
<1>1. IInv => SentInOrder
  BY DEF IInv
<1> QED
  BY <1>1, SessionInvariant, PTL

\* deleteOld() never dereferences a null m_msg1.
THEOREM SessionDropsOnlyAuthenticated == Spec => []DropsOnlyAuthenticated
<1>1. IInv => DropsOnlyAuthenticated
  BY DEF IInv
<1> QED
  BY <1>1, SessionInvariant, PTL

\* s_closed fires once per session, in the step that sets m_stopped.
THEOREM SessionClosedOnce == Spec => []ClosedSignalledOnce
<1>1. IInv => ClosedSignalledOnce
  BY DEF IInv
<1> QED
  BY <1>1, SessionInvariant, PTL
=============================================================================
