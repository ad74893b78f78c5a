---------------------------- MODULE FramingProofs ----------------------------
(***************************************************************************)
(* The safety properties of Framing for streams and blocks of any length.  *)
(* What Flat computes is shown by induction, which WFMin of the library    *)
(* gives for sets of natural numbers.                                      *)
(***************************************************************************)
EXTENDS Framing, Integers, SequenceTheorems, WellFoundedInduction, TLAPS

\* A non-empty set of natural numbers has a least element.
LEMMA LeastNumber ==
  ASSUME NEW T \in SUBSET Nat, T # {}
  PROVE  \E x \in T : \A y \in T : x <= y
<1> DEFINE R == OpToRel(<, Nat)
<1>1. IsWellFoundedOn(R, Nat)
  BY NatLessThanWellFounded
<1>2. R = {p \in Nat \X Nat : p[1] < p[2]}
  BY DEF OpToRel
<1> HIDE DEF R
<1>3. PICK x \in T : \A y \in T : ~(<<y, x>> \in R)
  BY <1>1, WFMin
<1>4. \A y \in T : ~(y < x)
  BY <1>2, <1>3
<1> QED
  BY <1>4

\* A set with 0 and with the successor of each of its numbers holds all numbers.
LEMMA SetInduction ==
  ASSUME NEW S, 0 \in S, \A n \in Nat : n \in S => n + 1 \in S
  PROVE  \A n \in Nat : n \in S
<1> DEFINE T == Nat \ S
<1>1. SUFFICES ASSUME T # {} PROVE FALSE
  OBVIOUS
<1>2. PICK x \in T : \A y \in T : x <= y
  <2> HIDE DEF T
  <2>1. T \in SUBSET Nat
    BY DEF T
  <2> QED
    BY <1>1, <2>1, LeastNumber
<1>3. x # 0 /\ x - 1 \in Nat /\ x - 1 \notin T
  BY <1>2
<1> QED
  BY <1>3

-----------------------------------------------------------------------------
(* Flat, the concatenation of a sequence of sequences.                     *)

\* f is the function that Flat(ss) defines recursively.
FlatFcn(ss, f) ==
  f = [k \in 0..Len(ss) |-> IF k = 0 THEN <<>> ELSE f[k - 1] \o ss[k]]

LEMMA FlatIsFcn ==
  ASSUME NEW ss, Len(ss) \in Nat
  PROVE  \E f : FlatFcn(ss, f) /\ Flat(ss) = f[Len(ss)]
<1> DEFINE Def(n, f) == f = [k \in 0..n |-> IF k = 0 THEN <<>> ELSE f[k - 1] \o ss[k]]
           S == {n \in Nat : \E f : Def(n, f)}
<1>1. 0 \in S
  <2>1. Def(0, [k \in 0..0 |-> <<>>])
    OBVIOUS
  <2> QED
    BY <2>1
<1>2. ASSUME NEW n \in Nat, n \in S PROVE n + 1 \in S
  <2>1. PICK f : Def(n, f)
    BY <1>2
  <2> DEFINE g == [k \in 0..(n + 1) |-> IF k = n + 1 THEN f[n] \o ss[n + 1] ELSE f[k]]
  <2>2. Def(n + 1, g)
    <3>1. ASSUME NEW k \in 0..(n + 1)
          PROVE  g[k] = IF k = 0 THEN <<>> ELSE g[k - 1] \o ss[k]
      <4>1. CASE k = n + 1
        <5>1. g[k] = f[n] \o ss[n + 1] /\ g[k - 1] = f[n]
          BY <4>1
        <5> QED
          BY <4>1, <5>1
      <4>2. CASE k # n + 1
        <5>1. k \in 0..n /\ g[k] = f[k] /\ (k # 0 => g[k - 1] = f[k - 1])
          BY <4>2
        <5>2. f[k] = IF k = 0 THEN <<>> ELSE f[k - 1] \o ss[k]
          BY <5>1, <2>1
        <5> QED
          BY <5>1, <5>2
      <4> QED
        BY <4>1, <4>2
    <3> HIDE DEF g
    <3>2. g = [k \in 0..(n + 1) |-> g[k]]
      BY DEF g
    <3> QED
      BY <3>1, <3>2
  <2> HIDE DEF g
  <2>3. \E h : Def(n + 1, h)
    BY <2>2
  <2> HIDE DEF Def
  <2> QED
    BY <2>3
<1>3. \A n \in Nat : n \in S
  <2> HIDE DEF S
  <2> QED
    BY <1>1, <1>2, SetInduction
<1>4. \E f : FlatFcn(ss, f)
  BY <1>3 DEF FlatFcn
<1> DEFINE F == CHOOSE f : FlatFcn(ss, f)
<1>5. FlatFcn(ss, F)
  BY <1>4
<1>6. Flat(ss) = F[Len(ss)]
  BY DEF Flat, FlatFcn
<1> QED
  BY <1>5, <1>6

LEMMA FlatEmpty == Flat(<<>>) = <<>>
<1>1. Len(<<>>) = 0
  OBVIOUS
<1>2. PICK f : FlatFcn(<<>>, f) /\ Flat(<<>>) = f[Len(<<>>)]
  BY <1>1, FlatIsFcn
<1> QED
  BY <1>1, <1>2 DEF FlatFcn

\* Flat of sequences is a sequence, and one more at the end goes to its end.
LEMMA FlatAppend ==
  ASSUME NEW S, NEW ss \in Seq(Seq(S)), NEW e \in Seq(S)
  PROVE  /\ Flat(ss) \in Seq(S)
         /\ Flat(Append(ss, e)) = Flat(ss) \o e
<1> DEFINE tt == Append(ss, e)
           n == Len(ss)
<1>1. /\ n \in Nat /\ tt \in Seq(Seq(S)) /\ Len(tt) = n + 1 /\ tt[n + 1] = e
      /\ \A k \in 1..n : ss[k] \in Seq(S) /\ tt[k] = ss[k]
  BY AppendProperties, LenProperties, ElementOfSeq
<1> HIDE DEF tt, n
<1>2. PICK f : FlatFcn(ss, f) /\ Flat(ss) = f[n]
  BY <1>1, FlatIsFcn DEF n
<1>3. PICK g : FlatFcn(tt, g) /\ Flat(tt) = g[n + 1]
  <2>1. Len(tt) \in Nat
    BY <1>1
  <2>2. PICK g : FlatFcn(tt, g) /\ Flat(tt) = g[Len(tt)]
    BY <2>1, FlatIsFcn
  <2> QED
    BY <2>2, <1>1
<1> DEFINE I == {k \in Nat : k <= n => f[k] = g[k] /\ f[k] \in Seq(S)}
<1>4. 0 \in I
  <2>1. f[0] = <<>> /\ g[0] = <<>>
    BY <1>1, <1>2, <1>3 DEF FlatFcn, n
  <2> QED
    BY <2>1, EmptySeq
<1>5. ASSUME NEW k \in Nat, k \in I PROVE k + 1 \in I
  <2> SUFFICES ASSUME k + 1 <= n
               PROVE  f[k + 1] = g[k + 1] /\ f[k + 1] \in Seq(S)
    OBVIOUS
  <2>1. /\ k + 1 \in 0..n /\ k + 1 \in 0..(n + 1) /\ k + 1 # 0 /\ (k + 1) - 1 = k
        /\ k + 1 \in 1..n
    BY <1>1
  <2>2. f[k] = g[k] /\ f[k] \in Seq(S)
    BY <1>5, <2>1, <1>1
  <2>3. f[k + 1] = f[k] \o ss[k + 1] /\ g[k + 1] = g[k] \o tt[k + 1]
    BY <2>1, <1>1, <1>2, <1>3 DEF FlatFcn, n
  <2>4. ss[k + 1] \in Seq(S) /\ tt[k + 1] = ss[k + 1]
    BY <2>1, <1>1
  <2>5. f[k] \o ss[k + 1] \in Seq(S)
    BY <2>2, <2>4, ConcatProperties
  <2> QED
    BY <2>2, <2>3, <2>4, <2>5
<1>6. \A k \in Nat : k \in I
  <2> HIDE DEF I
  <2> QED
    BY <1>4, <1>5, SetInduction
<1>7. f[n] = g[n] /\ f[n] \in Seq(S)
  BY <1>1, <1>6
<1>8. g[n + 1] = g[n] \o tt[n + 1]
  <2>1. n + 1 \in 0..Len(tt) /\ n + 1 # 0 /\ (n + 1) - 1 = n
    BY <1>1
  <2> QED
    BY <2>1, <1>3 DEF FlatFcn
<1> QED
  BY <1>1, <1>2, <1>3, <1>7, <1>8 DEF tt

-----------------------------------------------------------------------------
(* The steps of the input processor.                                       *)

\* The stream with its ends of line, as far as it has been cut into lines.
Cut == [i \in DOMAIN lines |-> Append(lines[i], "n")]

\* A header that is kept for the next line is a header, unless the session stops.
HeaderIsHeader ==
  header # <<>> /\ mode # "failed" => Kind(header[1]) = "header"

IInv == TypeOK /\ LinesAreTheStream /\ MessagesAreTheLines /\ HeaderIsHeader

\* Where getNextCmd() finds the end of the line.
LEMMA EolPosFacts ==
  ASSUME cur \in Seq(Bytes), Complete
  PROVE  /\ EolPos \in 1..Len(cur) /\ cur[EolPos] = "n"
         /\ \A q \in 1..(EolPos - 1) : cur[q] # "n"
<1>1. DOMAIN cur = 1..Len(cur) /\ Len(cur) \in Nat
  BY LenProperties
<1> DEFINE T == {p \in 1..Len(cur) : cur[p] = "n"}
<1>2. T # {} /\ T \in SUBSET Nat
  BY <1>1 DEF Complete
<1>3. PICK x \in T : \A y \in T : x <= y
  <2> HIDE DEF T
  <2> QED
    BY <1>2, LeastNumber
<1>4. x \in DOMAIN cur /\ cur[x] = "n" /\ \A q \in 1..(x - 1) : cur[q] # "n"
  BY <1>1, <1>3
<1>5. /\ EolPos \in DOMAIN cur /\ cur[EolPos] = "n"
      /\ \A q \in 1..(EolPos - 1) : cur[q] # "n"
  BY <1>4 DEF EolPos
<1> QED
  BY <1>1, <1>5

\* A line is cut off the front of the input, and with its end it is what was
\* there.
LEMMA LineFacts ==
  ASSUME cmd \in Lines, cur \in Seq(Bytes), Complete
  PROVE  /\ Line \in Lines
         /\ SubSeq(cur, EolPos + 1, Len(cur)) \in Seq(Bytes)
         /\ Append(Line, "n") \o SubSeq(cur, EolPos + 1, Len(cur)) = cmd \o cur
<1> DEFINE e == EolPos
           a == SubSeq(cur, 1, e - 1)
           b == SubSeq(cur, e + 1, Len(cur))
           NotN == Bytes \ {"n"}
<1>1. /\ Len(cur) \in Nat /\ e \in 1..Len(cur) /\ cur[e] = "n"
      /\ \A q \in 1..(e - 1) : cur[q] # "n"
      /\ \A q \in 1..Len(cur) : cur[q] \in Bytes
  BY EolPosFacts, LenProperties, ElementOfSeq
<1> HIDE DEF e
<1>2. /\ a \in Seq(NotN) /\ Len(a) = e - 1
      /\ \A i \in 1..(e - 1) : a[i] = cur[i]
  <2>1. \A i \in 1..(e - 1) : cur[i] \in NotN
    BY <1>1
  <2> QED
    BY <1>1, <2>1, SubSeqProperties
<1>3. /\ b \in Seq(Bytes) /\ Len(b) = Len(cur) - e
      /\ \A i \in 1..(Len(cur) - e) : b[i] = cur[e + i]
  <2>1. \A i \in (e + 1)..Len(cur) : cur[i] \in Bytes
    BY <1>1
  <2> QED
    BY <1>1, <2>1, SubSeqProperties
<1>4. Line = cmd \o a
  BY DEF Line, e
<1> HIDE DEF a, b
<1>5. cmd \in Seq(NotN) /\ Line \in Seq(NotN)
  BY <1>2, <1>4, ConcatProperties DEF Lines
<1>6. cmd \in Seq(Bytes) /\ a \in Seq(Bytes) /\ Line \in Seq(Bytes) /\ "n" \in Bytes
  <2>1. NotN \subseteq Bytes
    OBVIOUS
  <2> QED
    BY <1>2, <1>5, <2>1, SeqMonotonic DEF Bytes
<1>7. Append(a, "n") \o b = cur
  <2> DEFINE c == Append(a, "n")
  <2>1. c \in Seq(Bytes) /\ Len(c) = e /\ c[e] = "n"
        /\ \A i \in 1..(e - 1) : c[i] = cur[i]
    BY <1>1, <1>2, <1>6, AppendProperties
  <2> HIDE DEF c
  <2>2. /\ c \o b \in Seq(Bytes) /\ Len(c \o b) = Len(cur)
        /\ \A i \in 1..Len(cur) :
             (c \o b)[i] = IF i <= e THEN c[i] ELSE b[i - e]
    <3>1. Len(c) + Len(b) = Len(cur)
      BY <1>1, <1>3, <2>1
    <3>2. /\ c \o b \in Seq(Bytes) /\ Len(c \o b) = Len(c) + Len(b)
          /\ \A i \in 1..(Len(c) + Len(b)) :
               (c \o b)[i] = IF i <= Len(c) THEN c[i] ELSE b[i - Len(c)]
      BY <1>3, <2>1, ConcatProperties
    <3> QED
      BY <2>1, <3>1, <3>2
  <2>3. \A i \in 1..Len(cur) : (c \o b)[i] = cur[i]
    <3> TAKE i \in 1..Len(cur)
    <3>1. CASE i <= e - 1
      BY <3>1, <2>1, <2>2, <1>1
    <3>2. CASE i = e
      BY <3>2, <2>1, <2>2, <1>1
    <3>3. CASE i > e
      <4>1. i - e \in 1..(Len(cur) - e) /\ e + (i - e) = i /\ ~(i <= e)
        BY <3>3, <1>1
      <4> QED
        BY <4>1, <1>3, <2>2
    <3>4. i \in Int /\ e \in Int
      BY <1>1
    <3>5. i <= e - 1 \/ i = e \/ i > e
      BY <3>4
    <3> QED
      BY <3>1, <3>2, <3>3, <3>5
  <2>4. c \o b = cur
    BY <2>2, <2>3, SeqEqual
  <2> QED
    BY <2>4 DEF c
<1>8. Append(Line, "n") = cmd \o Append(a, "n")
  <2>1. <<"n">> \in Seq(Bytes)
    BY <1>6
  <2>2. Append(Line, "n") = Line \o <<"n">> /\ Append(a, "n") = a \o <<"n">>
    BY <1>6, AppendIsConcat
  <2>3. (cmd \o a) \o <<"n">> = cmd \o (a \o <<"n">>)
    BY <1>6, <2>1, ConcatAssociative
  <2> QED
    BY <1>4, <2>2, <2>3
<1>9. Append(a, "n") \in Seq(Bytes)
  BY <1>6, AppendProperties
<1>10. Append(Line, "n") \o b = cmd \o cur
  <2> DEFINE c == Append(a, "n")
  <2>0. c \in Seq(Bytes) /\ b \in Seq(Bytes) /\ cmd \in Seq(Bytes)
    BY <1>3, <1>6, <1>9
  <2> HIDE DEF c
  <2>1. (cmd \o c) \o b = cmd \o (c \o b)
    BY <2>0, ConcatAssociative
  <2> QED
    BY <1>7, <1>8, <2>1 DEF c
<1> QED
  BY <1>3, <1>5, <1>10 DEF Lines, b, e

\* The lines as a sequence of sequences of bytes.
LEMMA CutFacts ==
  ASSUME lines \in Seq(Lines)
  PROVE  /\ Cut \in Seq(Seq(Bytes))
         /\ \A l \in Lines : lines' = Append(lines, l) => Cut' = Append(Cut, Append(l, "n"))
<1>1. Len(lines) \in Nat /\ DOMAIN lines = 1..Len(lines)
  BY LenProperties
<1>2. \A l \in Lines : Append(l, "n") \in Seq(Bytes)
  <2> TAKE l \in Lines
  <2>1. l \in Seq(Bytes) /\ "n" \in Bytes
    BY SeqMonotonic DEF Lines, Bytes
  <2> QED
    BY <2>1, AppendProperties
<1>3. \A i \in 1..Len(lines) : lines[i] \in Lines
  BY ElementOfSeq
<1>4. Cut \in Seq(Seq(Bytes)) /\ Len(Cut) = Len(lines)
  BY <1>1, <1>2, <1>3 DEF Cut
<1>5. ASSUME NEW l \in Lines, lines' = Append(lines, l)
      PROVE  Cut' = Append(Cut, Append(l, "n"))
  <2> DEFINE B == Append(l, "n")
  <2>1. B \in Seq(Bytes)
    BY <1>2
  <2>2. /\ lines' \in Seq(Lines) /\ Len(lines') = Len(lines) + 1
        /\ \A i \in 1..Len(lines) : lines'[i] = lines[i]
        /\ lines'[Len(lines) + 1] = l
    BY <1>5, AppendProperties
  <2>3. DOMAIN lines' = 1..(Len(lines) + 1)
    BY <2>2, LenProperties
  <2>4. Cut' = [i \in 1..(Len(lines) + 1) |-> Append(lines'[i], "n")]
    BY <2>3 DEF Cut
  <2>5. Cut = [i \in 1..Len(lines) |-> Append(lines[i], "n")]
    BY <1>1 DEF Cut
  <2> HIDE DEF B
  <2>6. /\ Append(Cut, B) \in Seq(Seq(Bytes)) /\ Len(Append(Cut, B)) = Len(lines) + 1
        /\ \A i \in 1..Len(lines) : Append(Cut, B)[i] = Cut[i]
        /\ Append(Cut, B)[Len(lines) + 1] = B
    <3>1. /\ Append(Cut, B) \in Seq(Seq(Bytes)) /\ Len(Append(Cut, B)) = Len(Cut) + 1
          /\ \A i \in 1..Len(Cut) : Append(Cut, B)[i] = Cut[i]
          /\ Append(Cut, B)[Len(Cut) + 1] = B
      BY <1>4, <2>1, AppendProperties
    <3> QED
      BY <1>4, <3>1
  <2>7. /\ Cut' \in [1..(Len(lines) + 1) -> Seq(Bytes)]
        /\ \A i \in 1..(Len(lines) + 1) : Cut'[i] = Append(Cut, B)[i]
    <3>1. ASSUME NEW i \in 1..(Len(lines) + 1)
          PROVE  Cut'[i] \in Seq(Bytes) /\ Cut'[i] = Append(Cut, B)[i]
      <4>1. CASE i = Len(lines) + 1
        BY <4>1, <2>1, <2>2, <2>4, <2>6 DEF B
      <4>2. CASE i # Len(lines) + 1
        <5>1. i \in 1..Len(lines)
          BY <4>2, <1>1
        <5> QED
          BY <5>1, <1>2, <1>3, <2>2, <2>4, <2>5, <2>6
      <4> QED
        BY <4>1, <4>2
    <3> QED
      BY <2>4, <3>1
  <2>8. Append(Cut, B) \in [1..(Len(lines) + 1) -> Seq(Bytes)]
    BY <2>6, LenProperties
  <2> QED
    BY <2>7, <2>8 DEF B
<1> QED
  BY <1>4, <1>5

\* One iteration of the loop that returns a line.
LEMMA GetNextCmdPreserves ==
  ASSUME IInv, GetNextCmd
  PROVE  /\ Line \in Lines /\ lines' = Append(lines, Line) /\ lines' \in Seq(Lines)
         /\ cmd' \in Lines /\ cur' \in Seq(Bytes) /\ input' \in Seq(Bytes)
         /\ mode' # "wait" => LinesAreTheStream'
<1>1. /\ cmd \in Lines /\ cur \in Seq(Bytes) /\ Complete /\ lines \in Seq(Lines)
      /\ input \in Seq(Bytes) /\ cmd' = <<>> /\ lines' = Append(lines, Line)
      /\ cur' = SubSeq(cur, EolPos + 1, Len(cur)) /\ input' = input
  BY DEF IInv, TypeOK, GetNextCmd
<1>2. /\ Line \in Lines /\ cur' \in Seq(Bytes)
      /\ Append(Line, "n") \o cur' = cmd \o cur
  BY <1>1, LineFacts
<1>3. cmd' \in Lines /\ lines' \in Seq(Lines)
  BY <1>1, <1>2, EmptySeq, AppendProperties DEF Lines
<1>4. (Flat(Cut) \o cmd) \o cur = input
  BY DEF IInv, LinesAreTheStream, Cut
<1> DEFINE B == Append(Line, "n")
<1>5. Line \in Seq(Bytes) /\ B \in Seq(Bytes) /\ cmd \in Seq(Bytes)
  BY <1>1, <1>2, SeqMonotonic, AppendProperties DEF Lines, Bytes
<1>6. Cut \in Seq(Seq(Bytes)) /\ Cut' = Append(Cut, B)
  BY <1>1, <1>2, CutFacts
<1>7. Flat(Cut) \in Seq(Bytes) /\ Flat(Cut') = Flat(Cut) \o B
  BY <1>5, <1>6, FlatAppend
<1>8. (Flat(Cut') \o cmd') \o cur' = input'
  <2> HIDE DEF B
  <2>1. Flat(Cut') \in Seq(Bytes)
    BY <1>5, <1>7, ConcatProperties
  <2>2. Flat(Cut') \o cmd' = Flat(Cut')
    BY <1>1, <2>1, ConcatEmptySeq
  <2> DEFINE F == Flat(Cut)
  <2>a. F \in Seq(Bytes) /\ B \in Seq(Bytes) /\ cur' \in Seq(Bytes)
    BY <1>2, <1>5, <1>7
  <2>b. F \in Seq(Bytes) /\ cmd \in Seq(Bytes) /\ cur \in Seq(Bytes)
    BY <1>1, <1>5, <1>7
  <2> HIDE DEF F
  <2>3. (F \o B) \o cur' = F \o (B \o cur')
    BY <2>a, ConcatAssociative
  <2>4. (F \o cmd) \o cur = F \o (cmd \o cur)
    BY <2>b, ConcatAssociative
  <2>5. B \o cur' = cmd \o cur
    BY <1>2 DEF B
  <2> QED
    BY <1>1, <1>4, <1>7, <2>2, <2>3, <2>4, <2>5 DEF F
<1>9. \A i \in DOMAIN lines' : lines'[i] \in Lines
  BY <1>3, LenProperties, ElementOfSeq
<1>10. mode' # "wait" => LinesAreTheStream'
  BY <1>8, <1>9 DEF LinesAreTheStream, Cut
<1> QED
  BY <1>1, <1>2, <1>3, <1>10

\* A message has the one or two lines its first line asks for.
GoodMessage(msg) ==
  \/ Len(msg) = 1 /\ Kind(msg[1]) = "whole"
  \/ Len(msg) = 2 /\ Kind(msg[1]) = "header"

\* What the messages and the header are made of, as sequences of lines.
LEMMA MessageFacts ==
  ASSUME IInv
  PROVE  /\ out \in Seq(Seq(Lines)) /\ lines \in Seq(Lines)
         /\ header \in Seq(Lines) /\ Flat(out) \in Seq(Lines)
         /\ header = <<>> => Flat(out) = lines
         /\ header # <<>> => Len(header) = 1
<1>1. out \in Seq(Seq(Lines)) /\ lines \in Seq(Lines) /\ Flat(out) \o header = lines
  BY DEF IInv, TypeOK, MessagesAreTheLines
<1>2. header = <<>> \/ \E i \in 1..Len(lines) : header = <<lines[i]>>
  BY <1>1, LenProperties DEF IInv, TypeOK
<1>3. header \in Seq(Lines) /\ (header # <<>> => Len(header) = 1)
  <2>1. \A i \in 1..Len(lines) : lines[i] \in Lines
    BY <1>1, ElementOfSeq
  <2>2. CASE header = <<>>
    BY <2>2, EmptySeq
  <2>3. CASE header # <<>>
    <3>1. PICK l \in Lines : header = <<l>>
      BY <1>2, <2>1, <2>3
    <3> QED
      BY <3>1
  <2> QED
    BY <2>2, <2>3
<1>4. <<>> \in Seq(Lines)
  BY EmptySeq
<1>5. Flat(out) \in Seq(Lines)
  BY <1>1, <1>4, FlatAppend
<1> QED
  BY <1>1, <1>3, <1>5, ConcatEmptySeq

\* A new message goes to the end of those dispatched.
LEMMA NewMessage ==
  ASSUME IInv, NEW msg \in Seq(Lines), GoodMessage(msg), out' = Append(out, msg)
  PROVE  /\ out' \in Seq(Seq(Lines)) /\ Flat(out') = Flat(out) \o msg
         /\ \A i \in DOMAIN out' : GoodMessage(out'[i])
<1>1. out \in Seq(Seq(Lines))
  BY MessageFacts
<1>2. Flat(out') = Flat(out) \o msg
  BY <1>1, FlatAppend
<1>3. /\ out' \in Seq(Seq(Lines)) /\ Len(out') = Len(out) + 1
      /\ \A i \in 1..Len(out) : out'[i] = out[i]
      /\ out'[Len(out) + 1] = msg
  BY <1>1, AppendProperties
<1>4. /\ Len(out) \in Nat /\ DOMAIN out = 1..Len(out)
      /\ DOMAIN out' = 1..(Len(out) + 1)
  BY <1>1, <1>3, LenProperties
<1>5. \A i \in DOMAIN out : GoodMessage(out[i])
  BY DEF IInv, MessagesAreTheLines, GoodMessage
<1>6. ASSUME NEW i \in DOMAIN out' PROVE GoodMessage(out'[i])
  <2>1. i \in 1..Len(out) \/ i = Len(out) + 1
    BY <1>4
  <2> QED
    BY <2>1, <1>3, <1>4, <1>5
<1> QED
  BY <1>2, <1>3, <1>6

\* The header of the invariant is one of the lines.
LEMMA HeaderType ==
  ASSUME lines \in Seq(Lines), NEW l \in Lines, lines' = Append(lines, l)
  PROVE  <<l>> \in {<<k>> : k \in {lines'[i] : i \in DOMAIN lines'}}
<1>1. /\ lines' \in Seq(Lines) /\ Len(lines') = Len(lines) + 1
      /\ lines'[Len(lines) + 1] = l
  BY AppendProperties
<1>2. DOMAIN lines' = 1..(Len(lines) + 1) /\ Len(lines) \in Nat
  BY <1>1, LenProperties
<1>3. Len(lines) + 1 \in DOMAIN lines'
  BY <1>2
<1> QED
  BY <1>1, <1>3

LEMMA HeaderLinePreserves == IInv /\ HeaderLine => IInv'
<1> SUFFICES ASSUME IInv, HeaderLine PROVE IInv'
  OBVIOUS
<1>1. /\ GetNextCmd /\ header = <<>> /\ Kind(Line) = "header" /\ header' = <<Line>>
      /\ out' = out /\ mode' = mode /\ mode = "loop"
  BY DEF HeaderLine, GetNextCmd
<1>2. /\ Line \in Lines /\ lines' = Append(lines, Line) /\ lines' \in Seq(Lines)
      /\ cmd' \in Lines /\ cur' \in Seq(Bytes) /\ input' \in Seq(Bytes)
      /\ LinesAreTheStream'
  BY <1>1, GetNextCmdPreserves
<1>3. out \in Seq(Seq(Lines)) /\ lines \in Seq(Lines) /\ Flat(out) = lines
  BY <1>1, MessageFacts
<1>4. TypeOK'
  BY <1>1, <1>2, <1>3, HeaderType DEF TypeOK
<1>5. MessagesAreTheLines'
  <2>1. lines' = lines \o <<Line>>
    BY <1>2, <1>3, AppendIsConcat
  <2>2. Flat(out') \o header' = lines'
    BY <1>1, <1>3, <2>1
  <2> QED
    BY <1>1, <2>2 DEF IInv, MessagesAreTheLines
<1>6. HeaderIsHeader'
  BY <1>1 DEF HeaderIsHeader
<1> QED
  BY <1>2, <1>4, <1>5, <1>6 DEF IInv

LEMMA BadLinePreserves == IInv /\ BadLine => IInv'
<1> SUFFICES ASSUME IInv, BadLine PROVE IInv'
  OBVIOUS
<1>1. /\ GetNextCmd /\ header = <<>> /\ header' = <<Line>>
      /\ out' = out /\ mode' = "failed"
  BY DEF BadLine
<1>2. /\ Line \in Lines /\ lines' = Append(lines, Line) /\ lines' \in Seq(Lines)
      /\ cmd' \in Lines /\ cur' \in Seq(Bytes) /\ input' \in Seq(Bytes)
      /\ LinesAreTheStream'
  BY <1>1, GetNextCmdPreserves
<1>3. out \in Seq(Seq(Lines)) /\ lines \in Seq(Lines) /\ Flat(out) = lines
  BY <1>1, MessageFacts
<1>4. TypeOK'
  BY <1>1, <1>2, <1>3, HeaderType DEF TypeOK
<1>5. MessagesAreTheLines'
  <2>1. lines' = lines \o <<Line>>
    BY <1>2, <1>3, AppendIsConcat
  <2>2. Flat(out') \o header' = lines'
    BY <1>1, <1>3, <2>1
  <2> QED
    BY <1>1, <2>2 DEF IInv, MessagesAreTheLines
<1>6. HeaderIsHeader'
  BY <1>1 DEF HeaderIsHeader
<1> QED
  BY <1>2, <1>4, <1>5, <1>6 DEF IInv

LEMMA WholeMessagePreserves == IInv /\ WholeMessage => IInv'
<1> SUFFICES ASSUME IInv, WholeMessage PROVE IInv'
  OBVIOUS
<1>1. /\ GetNextCmd /\ header = <<>> /\ Kind(Line) = "whole" /\ header' = <<>>
      /\ out' = Append(out, <<Line>>) /\ mode' = mode /\ mode = "loop"
  BY DEF WholeMessage, GetNextCmd
<1>2. /\ Line \in Lines /\ lines' = Append(lines, Line) /\ lines' \in Seq(Lines)
      /\ cmd' \in Lines /\ cur' \in Seq(Bytes) /\ input' \in Seq(Bytes)
      /\ LinesAreTheStream'
  BY <1>1, GetNextCmdPreserves
<1>3. out \in Seq(Seq(Lines)) /\ lines \in Seq(Lines) /\ Flat(out) = lines
  BY <1>1, MessageFacts
<1>4. <<Line>> \in Seq(Lines) /\ GoodMessage(<<Line>>)
  BY <1>1, <1>2 DEF GoodMessage
<1>5. /\ out' \in Seq(Seq(Lines)) /\ Flat(out') = Flat(out) \o <<Line>>
      /\ \A i \in DOMAIN out' : GoodMessage(out'[i])
  BY <1>1, <1>4, NewMessage
<1>6. TypeOK'
  BY <1>1, <1>2, <1>5 DEF TypeOK
<1>7. MessagesAreTheLines'
  <2>1. lines' = lines \o <<Line>>
    BY <1>2, <1>3, AppendIsConcat
  <2>2. lines' \o <<>> = lines'
    BY <1>2, ConcatEmptySeq
  <2>3. Flat(out') \o header' = lines'
    BY <1>1, <1>3, <1>5, <2>1, <2>2
  <2> QED
    BY <1>5, <2>3 DEF MessagesAreTheLines, GoodMessage
<1>8. HeaderIsHeader'
  BY <1>1 DEF HeaderIsHeader
<1> QED
  BY <1>2, <1>6, <1>7, <1>8 DEF IInv

LEMMA BodyLinePreserves == IInv /\ BodyLine => IInv'
<1> SUFFICES ASSUME IInv, BodyLine PROVE IInv'
  OBVIOUS
<1>1. /\ GetNextCmd /\ header # <<>> /\ header' = <<>>
      /\ out' = Append(out, Append(header, Line)) /\ mode' = mode /\ mode = "loop"
  BY DEF BodyLine, GetNextCmd
<1>2. /\ Line \in Lines /\ lines' = Append(lines, Line) /\ lines' \in Seq(Lines)
      /\ cmd' \in Lines /\ cur' \in Seq(Bytes) /\ input' \in Seq(Bytes)
      /\ LinesAreTheStream'
  BY <1>1, GetNextCmdPreserves
<1>3. /\ out \in Seq(Seq(Lines)) /\ lines \in Seq(Lines) /\ header \in Seq(Lines)
      /\ Flat(out) \in Seq(Lines) /\ Len(header) = 1
  BY <1>1, MessageFacts
<1> DEFINE msg == Append(header, Line)
<1>4. msg \in Seq(Lines) /\ GoodMessage(msg)
  <2>1. msg \in Seq(Lines) /\ Len(msg) = 2 /\ msg[1] = header[1]
    <3>1. /\ msg \in Seq(Lines) /\ Len(msg) = Len(header) + 1
          /\ \A i \in 1..Len(header) : msg[i] = header[i]
      <4>1. header \in Seq(Lines) /\ Line \in Lines
        BY <1>2, <1>3
      <4> QED
        BY <4>1, AppendProperties
    <3>2. Len(header) = 1
      BY <1>3
    <3> HIDE DEF msg
    <3> QED
      BY <3>1, <3>2
  <2>2. Kind(header[1]) = "header"
    BY <1>1 DEF IInv, HeaderIsHeader
  <2> HIDE DEF msg
  <2> QED
    BY <2>1, <2>2 DEF GoodMessage
<1> HIDE DEF msg
<1>5. /\ out' \in Seq(Seq(Lines)) /\ Flat(out') = Flat(out) \o msg
      /\ \A i \in DOMAIN out' : GoodMessage(out'[i])
  BY <1>1, <1>4, NewMessage DEF msg
<1>6. TypeOK'
  BY <1>1, <1>2, <1>5 DEF TypeOK
<1>7. MessagesAreTheLines'
  <2> DEFINE F == Flat(out)
             L == <<Line>>
  <2>1. lines' = lines \o L /\ msg = header \o L
    BY <1>2, <1>3, AppendIsConcat DEF msg
  <2>2. F \o header = lines
    BY DEF IInv, MessagesAreTheLines
  <2>3. F \in Seq(Lines) /\ header \in Seq(Lines) /\ L \in Seq(Lines)
    BY <1>2, <1>3
  <2>a. Flat(out') = F \o msg
    BY <1>5
  <2> HIDE DEF F, L
  <2>4. (F \o header) \o L = F \o (header \o L)
    BY <2>3, ConcatAssociative
  <2>5. lines' \o <<>> = lines'
    BY <1>2, ConcatEmptySeq
  <2>6. Flat(out') \o header' = lines'
    BY <1>1, <2>a, <2>1, <2>2, <2>4, <2>5
  <2> QED
    BY <1>5, <2>6 DEF MessagesAreTheLines, GoodMessage
<1>8. HeaderIsHeader'
  BY <1>1 DEF HeaderIsHeader
<1> QED
  BY <1>2, <1>6, <1>7, <1>8 DEF IInv

\* A new block comes after everything that was received.
LEMMA NewInputPreserves ==
  ASSUME IInv, NEW block \in Blocks, NewInput(block)
  PROVE  IInv'
<1>1. block \in Seq(Bytes)
  <2>1. PICK k \in 1..MaxBlock : block \in [1..k -> Bytes]
    BY DEF Blocks
  <2>2. k \in Nat
    BY FramingAssumption
  <2> QED
    BY <2>1, <2>2, SeqDef
<1>2. /\ mode = "wait" /\ input' = input \o block /\ cur' = block /\ mode' = "loop"
      /\ cmd' = cmd /\ header' = header /\ out' = out /\ lines' = lines
  BY DEF NewInput
<1>3. TypeOK'
  <2>1. input' \in Seq(Bytes)
    BY <1>1, <1>2, ConcatProperties DEF IInv, TypeOK
  <2> QED
    BY <1>1, <1>2, <2>1 DEF IInv, TypeOK
<1>4. LinesAreTheStream'
  <2> DEFINE F == Flat(Cut) \o cmd
  <2>1. /\ F \o cur = input /\ cur = <<>>
        /\ \A i \in DOMAIN lines : lines[i] \in Lines
    BY <1>2 DEF IInv, LinesAreTheStream, Cut
  <2>2. F \in Seq(Bytes)
    <3>1. cmd \in Seq(Bytes) /\ <<>> \in Seq(Bytes) /\ Cut \in Seq(Seq(Bytes))
      BY SeqMonotonic, EmptySeq, CutFacts DEF IInv, TypeOK, Lines
    <3>2. Flat(Cut) \in Seq(Bytes)
      BY <3>1, FlatAppend
    <3> QED
      BY <3>1, <3>2, ConcatProperties
  <2>3. Cut' = Cut
    BY <1>2 DEF Cut
  <2>4. F \o <<>> = F
    BY <2>2, ConcatEmptySeq
  <2>5. (Flat(Cut') \o cmd') \o cur' = input'
    BY <1>2, <2>1, <2>3, <2>4
  <2> QED
    BY <1>2, <2>1, <2>5 DEF LinesAreTheStream, Cut
<1>5. MessagesAreTheLines' /\ HeaderIsHeader'
  BY <1>2 DEF IInv, MessagesAreTheLines, HeaderIsHeader
<1> QED
  BY <1>3, <1>4, <1>5 DEF IInv

\* The rest of a block without an end of line goes to the unfinished line.
LEMMA NoCmdPreserves == IInv /\ NoCmd => IInv'
<1> SUFFICES ASSUME IInv, NoCmd PROVE IInv'
  OBVIOUS
<1>1. /\ ~Complete /\ cmd' = cmd \o cur /\ cur' = <<>> /\ mode' = "wait"
      /\ mode = "loop" /\ header' = header /\ out' = out /\ input' = input
      /\ lines' = lines
  BY DEF NoCmd
<1>2. cmd \in Lines /\ cur \in Seq(Bytes)
  BY DEF IInv, TypeOK
<1>3. cur \in Lines
  <2>1. Len(cur) \in Nat /\ DOMAIN cur = 1..Len(cur) /\ cur \in [1..Len(cur) -> Bytes]
    BY <1>2, LenProperties
  <2>2. \A i \in 1..Len(cur) : cur[i] \in Bytes \ {"n"}
    BY <1>1, <2>1 DEF Complete
  <2>3. cur \in [1..Len(cur) -> Bytes \ {"n"}]
    BY <2>1, <2>2
  <2> QED
    BY <2>1, <2>3, SeqDef DEF Lines
<1>4. cmd' \in Lines /\ cur' \in Seq(Bytes)
  BY <1>1, <1>2, <1>3, ConcatProperties, EmptySeq DEF Lines
<1>5. TypeOK'
  BY <1>1, <1>4 DEF IInv, TypeOK
<1>6. LinesAreTheStream'
  <2> DEFINE F == Flat(Cut)
  <2>1. (F \o cmd) \o cur = input /\ \A i \in DOMAIN lines : lines[i] \in Lines
    BY DEF IInv, LinesAreTheStream, Cut
  <2>2. cmd \in Seq(Bytes) /\ <<>> \in Seq(Bytes) /\ Cut \in Seq(Seq(Bytes))
    BY SeqMonotonic, EmptySeq, CutFacts DEF IInv, TypeOK, Lines
  <2>3. F \in Seq(Bytes)
    BY <2>2, FlatAppend
  <2>4. Flat(Cut') = F
    BY <1>1 DEF Cut
  <2>a. F \in Seq(Bytes) /\ cmd \in Seq(Bytes) /\ cur \in Seq(Bytes)
    BY <1>2, <2>2, <2>3
  <2> HIDE DEF F
  <2>5. (F \o cmd) \o cur = F \o (cmd \o cur)
    BY <2>a, ConcatAssociative
  <2>6. F \o (cmd \o cur) \in Seq(Bytes)
    BY <2>a, ConcatProperties
  <2>7. (F \o (cmd \o cur)) \o <<>> = F \o (cmd \o cur)
    BY <2>6, ConcatEmptySeq
  <2>8. (Flat(Cut') \o cmd') \o cur' = input'
    BY <1>1, <2>1, <2>4, <2>5, <2>7
  <2> QED
    BY <1>1, <1>4, <2>1, <2>8 DEF LinesAreTheStream, Cut
<1>7. MessagesAreTheLines' /\ HeaderIsHeader'
  BY <1>1 DEF IInv, MessagesAreTheLines, HeaderIsHeader
<1> QED
  BY <1>5, <1>6, <1>7 DEF IInv

LEMMA InitIInv == Init => IInv
<1> SUFFICES ASSUME Init PROVE IInv
  OBVIOUS
<1>1. TypeOK
  BY EmptySeq DEF Init, TypeOK, Lines
<1>2. Cut = <<>> /\ DOMAIN lines = {}
  BY DEF Init, Cut
<1>3. <<>> \o <<>> = <<>>
  BY ConcatEmptySeq, EmptySeq
<1>4. LinesAreTheStream
  <2>1. (Flat(Cut) \o cmd) \o cur = input
    BY <1>2, <1>3, FlatEmpty DEF Init
  <2> QED
    BY <1>1, <1>2, <2>1 DEF Init, LinesAreTheStream, Cut, TypeOK
<1>5. MessagesAreTheLines
  BY <1>3, FlatEmpty DEF Init, MessagesAreTheLines
<1>6. HeaderIsHeader
  BY DEF Init, HeaderIsHeader
<1> QED
  BY <1>1, <1>4, <1>5, <1>6 DEF IInv

-----------------------------------------------------------------------------

\* The inductive invariant of the input processor, for streams and blocks of any
\* length.
THEOREM FramingInvariant == Spec => []IInv
<1>1. IInv /\ UNCHANGED vars => IInv'
  BY DEF IInv, TypeOK, LinesAreTheStream, MessagesAreTheLines, HeaderIsHeader, vars
<1>2. IInv /\ Next => IInv'
  BY NewInputPreserves, NoCmdPreserves, HeaderLinePreserves, WholeMessagePreserves,
     BadLinePreserves, BodyLinePreserves DEF Next
<1> QED
  BY InitIInv, <1>1, <1>2, PTL DEF Spec

\* The state of AccuLine and InputProcessor is always well-typed; a pending
\* header is one of the lines received.
THEOREM FramingTypeOK == Spec => []TypeOK
<1>1. IInv => TypeOK
  BY DEF IInv
<1> QED
  BY FramingInvariant, <1>1, PTL

\* However the stream is cut into blocks, no byte is lost, doubled or moved.
THEOREM FramingLinesAreTheStream == Spec => []LinesAreTheStream
<1>1. IInv => LinesAreTheStream
  BY DEF IInv
<1> QED
  BY FramingInvariant, <1>1, PTL

\* Every line goes into one message, in order, and every message has the lines
\* its header asks for.
THEOREM FramingMessagesAreTheLines == Spec => []MessagesAreTheLines
<1>1. IInv => MessagesAreTheLines
  BY DEF IInv
<1> QED
  BY FramingInvariant, <1>1, PTL
=============================================================================
