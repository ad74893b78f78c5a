-------------------------- MODULE SessionCoreProofs --------------------------
(***************************************************************************)
(* What each method of a session does to the fields of its record: the     *)
(* lemmas that the proofs about Session, Channel and Locals share.         *)
(***************************************************************************)
EXTENDS SessionCore, SequenceTheorems, TLAPS

\* What remains of a sequence once its first k elements are dropped.
LEMMA SuffixProperties ==
  ASSUME NEW S, NEW seq \in Seq(S), NEW k \in 0..Len(seq)
  PROVE  /\ SubSeq(seq, k + 1, Len(seq)) \in Seq(S)
         /\ Len(SubSeq(seq, k + 1, Len(seq))) = Len(seq) - k
         /\ \A i \in 1..(Len(seq) - k) :
              SubSeq(seq, k + 1, Len(seq))[i] = seq[i + k]
<1>1. /\ Len(seq) \in Nat
      /\ \A i \in 1..Len(seq) : seq[i] \in S
  BY ElementOfSeq, LenProperties
<1>2. \A i \in (k + 1)..Len(seq) : seq[i] \in S
  BY <1>1
<1>3. SubSeq(seq, k + 1, Len(seq)) \in Seq(S)
  BY <1>1, <1>2, SubSeqProperties
<1>4. Len(SubSeq(seq, k + 1, Len(seq))) = Len(seq) - k
  BY <1>1, SubSeqProperties
<1>5. \A i \in 1..(Len(seq) - k) :
        SubSeq(seq, k + 1, Len(seq))[i] = seq[i + k]
  BY <1>1, SubSeqProperties
<1> QED
  BY <1>3, <1>4, <1>5

\* deleteOld() keeps a suffix of the queue and nothing else changes, except that
\* dropping something dereferences m_msg1.
LEMMA DeleteOldFacts ==
  ASSUME NEW M, NEW x \in SessionType(M), NEW t \in DeleteOld(x)
  PROVE  /\ t \in SessionType(M)
         /\ \A f \in {"dir", "sock", "wr", "bye", "auth", "closeFlag",
                      "stopped", "rd"} : t[f] = x[f]
         /\ \E k \in 0..Len(x.q) :
              /\ Len(t.q) = Len(x.q) - k
              /\ \A i \in 1..Len(t.q) : t.q[i] = x.q[i + k]
         /\ x.auth \/ x.q = <<>> => t.nullDeref = x.nullDeref
<1>1. PICK k \in 0..Len(x.q) :
        t = [x EXCEPT !.q = SubSeq(x.q, k + 1, Len(x.q)),
                      !.nullDeref = x.nullDeref \/ (k > 0 /\ ~x.auth)]
  BY DEF DeleteOld
<1>2. x.q \in Seq(M) /\ x.nullDeref \in BOOLEAN /\ x.auth \in BOOLEAN
  BY DEF SessionType
<1>3. /\ SubSeq(x.q, k + 1, Len(x.q)) \in Seq(M)
      /\ Len(SubSeq(x.q, k + 1, Len(x.q))) = Len(x.q) - k
      /\ \A i \in 1..(Len(x.q) - k) :
           SubSeq(x.q, k + 1, Len(x.q))[i] = x.q[i + k]
  BY <1>2, SuffixProperties
<1>4. t.q = SubSeq(x.q, k + 1, Len(x.q))
  BY <1>1 DEF SessionType
<1>5. t \in SessionType(M)
  BY <1>1, <1>2, <1>3 DEF SessionType
<1>6. \A f \in {"dir", "sock", "wr", "bye", "auth", "closeFlag",
                "stopped", "rd"} : t[f] = x[f]
  BY <1>1 DEF SessionType
<1>7. ASSUME x.auth \/ x.q = <<>>
      PROVE  t.nullDeref = x.nullDeref
  <2>1. t.nullDeref = (x.nullDeref \/ (k > 0 /\ ~x.auth))
    BY <1>1 DEF SessionType
  <2>2. ~(k > 0 /\ ~x.auth)
    BY <1>7, EmptySeq
  <2> QED
    BY <2>1, <2>2, <1>2
<1> QED
  BY <1>3, <1>4, <1>5, <1>6, <1>7

\* stop() leaves the queue and the pending writes alone.
LEMMA StopFacts ==
  ASSUME NEW M, NEW x \in SessionType(M), NEW u \in Stop(x, {"late"})
  PROVE  /\ u \in SessionType(M)
         /\ \A f \in {"dir", "q", "wr", "bye", "auth", "nullDeref"} : u[f] = x[f]
         /\ u.stopped
         /\ x.stopped => u = x
         /\ ~x.stopped => u.closeFlag /\ u.sock = "closed"
<1>1. CASE x.stopped
  BY <1>1 DEF Stop, SessionType
<1>2. CASE ~x.stopped
  <2>1. PICK r \in {"off", "late"} :
          u = [x EXCEPT !.stopped = TRUE, !.closeFlag = TRUE,
                        !.sock = "closed", !.rd = r]
    BY <1>2 DEF Stop
  <2> QED
    BY <1>2, <2>1 DEF SessionType
<1> QED
  BY <1>1, <1>2

\* putOutQueue() appends, and starts a write only when the queue was empty.
LEMMA PutOutQueueFacts ==
  ASSUME NEW M, NEW x \in SessionType(M), NEW m \in M
  PROVE  /\ PutOutQueue(x, m) \in SessionType(M)
         /\ \A f \in {"dir", "sock", "bye", "auth", "closeFlag", "stopped",
                      "rd", "nullDeref"} : PutOutQueue(x, m)[f] = x[f]
         /\ PutOutQueue(x, m).q = Append(x.q, m)
         /\ PutOutQueue(x, m).wr = IF x.q = <<>> THEN "started" ELSE x.wr
<1>1. x.q \in Seq(M) /\ Append(x.q, m) \in Seq(M)
  BY AppendProperties DEF SessionType
<1> QED
  BY <1>1 DEF PutOutQueue, SessionType

\* start() does what putOutQueue() does and arms the read.
LEMMA StartFacts ==
  ASSUME NEW M, NEW x \in SessionType(M), NEW m \in M
  PROVE  /\ Start(x, m) \in SessionType(M)
         /\ \A f \in {"dir", "sock", "bye", "auth", "closeFlag", "stopped",
                      "nullDeref"} : Start(x, m)[f] = x[f]
         /\ Start(x, m).q = Append(x.q, m)
         /\ Start(x, m).wr = IF x.q = <<>> THEN "started" ELSE x.wr
         /\ Start(x, m).rd = "on"
<1> DEFINE y == PutOutQueue(x, m)
<1>1. /\ y \in SessionType(M)
      /\ \A f \in {"dir", "sock", "bye", "auth", "closeFlag", "stopped",
                      "rd", "nullDeref"} : y[f] = x[f]
      /\ y.q = Append(x.q, m)
      /\ y.wr = IF x.q = <<>> THEN "started" ELSE x.wr
  BY PutOutQueueFacts
<1>2. Start(x, m) = [y EXCEPT !.rd = "on"]
  BY DEF Start
<1> HIDE DEF y
<1> QED
  BY <1>1, <1>2 DEF SessionType

\* sendByeAndClose() adds a pending bye write and nothing else.
LEMMA SendByeAndCloseFacts ==
  ASSUME NEW M, NEW x \in SessionType(M)
  PROVE  /\ SendByeAndClose(x) \in SessionType(M)
         /\ \A f \in {"dir", "sock", "q", "wr", "auth", "closeFlag", "stopped",
                      "rd", "nullDeref"} : SendByeAndClose(x)[f] = x[f]
<1>1. x.bye + 1 \in Nat
  BY DEF SessionType
<1> DEFINE n == x.bye + 1
<1>2. SendByeAndClose(x) = [x EXCEPT !.bye = n]
  BY DEF SendByeAndClose
<1> HIDE DEF n
<1> QED
  BY <1>1, <1>2 DEF SessionType, n

\* gracefullClose() sets the close flag; the queue and its write stay.
LEMMA GracefullCloseFacts ==
  ASSUME NEW M, NEW x \in SessionType(M)
  PROVE  /\ GracefullClose(x) \in SessionType(M)
         /\ \A f \in {"dir", "sock", "q", "wr", "auth", "stopped", "rd",
                      "nullDeref"} : GracefullClose(x)[f] = x[f]
         /\ GracefullClose(x).closeFlag
<1>1. CASE x.closeFlag
  BY <1>1 DEF GracefullClose, SessionType
<1>2. CASE ~x.closeFlag /\ x.q = <<>>
  <2> DEFINE y == [x EXCEPT !.closeFlag = TRUE]
  <2>1. GracefullClose(x) = SendByeAndClose(y)
    BY <1>2 DEF GracefullClose
  <2>2. /\ y \in SessionType(M)
        /\ \A f \in {"dir", "sock", "q", "wr", "auth", "stopped", "rd",
                      "nullDeref"} : y[f] = x[f]
        /\ y.closeFlag
    BY DEF SessionType
  <2> HIDE DEF y
  <2> QED
    BY <2>1, <2>2, SendByeAndCloseFacts
<1>3. CASE ~x.closeFlag /\ x.q # <<>>
  BY <1>3 DEF GracefullClose, SessionType
<1> QED
  BY <1>1, <1>2, <1>3

\* After a line of input only the state of the read differs.
LEMMA LineDoneFacts ==
  ASSUME NEW M, NEW x \in SessionType(M), NEW t \in LineDone(x)
  PROVE  /\ t \in SessionType(M)
         /\ \A f \in {"dir", "sock", "q", "wr", "bye", "auth", "closeFlag",
                      "stopped", "nullDeref"} : t[f] = x[f]
         /\ t.rd = "late" => x.stopped
         /\ ~x.stopped => t.rd = "on"
<1>1. PICK r \in {"late", "off", "on"} :
        /\ t = [x EXCEPT !.rd = r]
        /\ r = "late" => x.stopped
        /\ ~x.stopped => r = "on"
  BY DEF LineDone
<1> QED
  BY <1>1 DEF SessionType

\* do_write() on an authenticated session without a write in flight.
LEMMA DoWriteFacts ==
  ASSUME NEW M, NEW x \in SessionType(M), NEW t \in DoWrite(x),
         x.auth, x.wr = "none"
  PROVE  /\ t \in SessionType(M)
         /\ \A f \in {"dir", "sock", "bye", "auth", "closeFlag", "stopped",
                      "rd", "nullDeref"} : t[f] = x[f]
         /\ \E k \in 0..Len(x.q) :
              /\ Len(t.q) = Len(x.q) - k
              /\ \A i \in 1..Len(t.q) : t.q[i] = x.q[i + k]
         /\ t.wr = IF t.q = <<>> THEN "none" ELSE "started"
<1>1. PICK y \in DeleteOld(x) :
        t = IF y.q = <<>> THEN y ELSE [y EXCEPT !.wr = "started"]
  BY DEF DoWrite
<1>2. /\ y \in SessionType(M)
      /\ \A f \in {"dir", "sock", "wr", "bye", "auth", "closeFlag",
                   "stopped", "rd"} : y[f] = x[f]
      /\ \E k \in 0..Len(x.q) :
           /\ Len(y.q) = Len(x.q) - k
           /\ \A i \in 1..Len(y.q) : y.q[i] = x.q[i + k]
      /\ y.nullDeref = x.nullDeref
  BY DeleteOldFacts
<1>3. /\ t \in SessionType(M)
      /\ \A f \in {"dir", "sock", "bye", "auth", "closeFlag", "stopped",
                   "rd", "nullDeref"} : t[f] = y[f]
      /\ t.q = y.q
      /\ t.wr = IF t.q = <<>> THEN "none" ELSE "started"
  BY <1>1, <1>2 DEF SessionType
<1> QED
  BY <1>2, <1>3

\* The handler of a successful write pops the front and then possibly more.
LEMMA WriteDoneFacts ==
  ASSUME NEW M, NEW x \in SessionType(M), NEW t \in WriteDone(x),
         x.q # <<>>, x.auth \/ Len(x.q) <= 1
  PROVE  /\ t \in SessionType(M)
         /\ \A f \in {"dir", "sock", "auth", "closeFlag", "stopped", "rd",
                      "nullDeref"} : t[f] = x[f]
         /\ \E k \in 1..Len(x.q) :
              /\ Len(t.q) = Len(x.q) - k
              /\ \A i \in 1..Len(t.q) : t.q[i] = x.q[i + k]
         /\ t.wr = "none"
<1> DEFINE p == [x EXCEPT !.q = Tail(x.q), !.wr = "none"]
<1>1. PICK y \in DeleteOld(p) :
        t = IF y.closeFlag THEN SendByeAndClose(y) ELSE y
  BY DEF WriteDone
<1>2. /\ x.q \in Seq(M)
      /\ Tail(x.q) \in Seq(M)
      /\ Len(Tail(x.q)) = Len(x.q) - 1
      /\ \A i \in 1..Len(Tail(x.q)) : Tail(x.q)[i] = x.q[i + 1]
      /\ Len(x.q) \in Nat \ {0}
  BY HeadTailProperties, EmptySeq DEF SessionType
<1>3. /\ p \in SessionType(M)
      /\ p.q = Tail(x.q)
      /\ p.wr = "none"
      /\ \A f \in {"dir", "sock", "auth", "closeFlag", "stopped", "rd",
                   "nullDeref"} : p[f] = x[f]
  BY <1>2 DEF SessionType
<1>4. p.auth \/ p.q = <<>>
  <2>1. CASE x.auth
    BY <2>1, <1>3
  <2>2. CASE Len(x.q) <= 1
    BY <2>2, <1>2, <1>3, EmptySeq
  <2> QED
    BY <2>1, <2>2
<1> HIDE DEF p
<1>5. /\ y \in SessionType(M)
      /\ \A f \in {"dir", "sock", "wr", "bye", "auth", "closeFlag",
                   "stopped", "rd"} : y[f] = p[f]
      /\ \E k \in 0..Len(p.q) :
           /\ Len(y.q) = Len(p.q) - k
           /\ \A i \in 1..Len(y.q) : y.q[i] = p.q[i + k]
      /\ y.nullDeref = p.nullDeref
  BY <1>3, <1>4, DeleteOldFacts
<1>6. /\ t \in SessionType(M)
      /\ \A f \in {"dir", "sock", "wr", "q", "auth", "closeFlag", "stopped",
                   "rd", "nullDeref"} : t[f] = y[f]
  BY <1>1, <1>5, SendByeAndCloseFacts
<1>7. \E k \in 1..Len(x.q) :
        /\ Len(t.q) = Len(x.q) - k
        /\ \A i \in 1..Len(t.q) : t.q[i] = x.q[i + k]
  <2>1. PICK k \in 0..Len(p.q) :
           /\ Len(y.q) = Len(p.q) - k
           /\ \A i \in 1..Len(y.q) : y.q[i] = p.q[i + k]
    BY <1>5
  <2>2. t.q = y.q /\ t.q \in Seq(M) /\ Len(t.q) \in Nat
    BY <1>6, LenProperties DEF SessionType
  <2>3. Len(p.q) = Len(x.q) - 1 /\ Len(t.q) = Len(p.q) - k
    BY <1>2, <1>3, <2>1, <2>2
  <2>4. Len(t.q) = Len(x.q) - (k + 1) /\ k + 1 \in 1..Len(x.q)
    BY <1>2, <2>3
  <2>5. ASSUME NEW i \in 1..Len(t.q) PROVE t.q[i] = x.q[i + (k + 1)]
    <3>1. i + k \in 1..Len(p.q) /\ i + (k + 1) = (i + k) + 1
      BY <2>2, <2>3, <1>2
    <3>2. p.q[i + k] = x.q[(i + k) + 1]
      BY <3>1, <1>2, <1>3
    <3> QED
      BY <3>1, <3>2, <2>1, <2>2
  <2> QED
    BY <2>4, <2>5
<1> QED
  BY <1>3, <1>5, <1>6, <1>7
=============================================================================
