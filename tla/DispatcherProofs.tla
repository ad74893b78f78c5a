-------------------------- MODULE DispatcherProofs --------------------------
(***************************************************************************)
(* The invariants of Dispatcher, for any number of handlers, names and     *)
(* messages, and whatever an uninitialised id may be.                      *)
(*                                                                         *)
(* The argument is about the settled table: what the functions that the    *)
(* strand still has to run will make of the present one.  A client does    *)
(* the same to the settled table before run() and after.                   *)
(***************************************************************************)
EXTENDS Dispatcher, Integers, SequenceTheorems, WellFoundedInduction, TLAPS

-----------------------------------------------------------------------------
(* The inductive invariant.                                                *)

\* The functions fs, run one after the other, make T of T0.
Leads(T0, fs, T) ==
  \E R \in [0..Len(fs) -> Tables] :
    /\ R[0] = T0 /\ R[Len(fs)] = T
    /\ \A n \in 1..Len(fs) : R[n] = Run1(R[n - 1], fs[n])
    /\ \A n \in 0..Len(fs) : R[n].mixup => T.mixup

Has(x, s) == \E i \in 1..Len(s) : s[i] = x

\* Registration r can still be disconnected; it was made before run().
Connected(r) == conn[r] # None /\ conn[r].self
IsEarly(r) == <<r, conn[r].key, conn[r].id>> \in early

\* The settled table holds registrations in force, under the key and the id of
\* their connections, and all of them unless there was a mix-up.
Settled(T) ==
  /\ ~T.mixup => \A k \in Keys : HandlersOf(T.list[k]) = active[k]
  /\ \A k \in Keys : \A i \in 1..Len(T.list[k]) :
       LET e == T.list[k][i]
       IN  Has(e.h, active[k]) /\ conn[e.h].id = e.id
  /\ T.nextId >= 1
  /\ \A r \in Regs : Connected(r) /\ ~IsEarly(r) => conn[r].id \in 1..(T.nextId - 1)

\* Two registrations made before run() for one list have the same id; or an id
\* from before run() has been given out again.
Clash == \E e \in early, o \in early : o[1] # e[1] /\ o[2] = e[2] /\ o[3] = e[3]
Reused(n) == \E e \in early : e[3] \in 1..(n - 1)

Pending == phase = "setup" \/ todo # <<>>

SettleOK ==
  \E T \in Tables :
    /\ Leads(tab, todo, T) /\ Settled(T)
    /\ T.mixup => Clash \/ (~Pending /\ Reused(T.nextId))

\* Connections given out by the running dispatcher have different ids.
ConnOK ==
  /\ \A k \in Keys, r \in Regs : Has(r, active[k]) => Connected(r) /\ conn[r].key = k
  /\ \A r, o \in Regs :
       Connected(r) /\ ~IsEarly(r) /\ Connected(o) /\ ~IsEarly(o)
         => (conn[r].id = conn[o].id => r = o)
  /\ Pending => \A r \in Regs : Connected(r) => IsEarly(r)

\* A message is dispatched on a table at rest: what was called and what is still
\* to be called is what was promised.
CurOK ==
  cur # None => /\ phase = "running" /\ todo = <<>>
                /\ ~tab.mixup => called \o cur.rest = promised

IInv == TypeOK /\ ConnOK /\ CurOK /\ SettleOK

-----------------------------------------------------------------------------
(* Sequences and filters.                                                  *)

\* A non-empty set of natural numbers has a least element.
LEMMA LeastNumber ==
  ASSUME NEW T \in SUBSET Nat, T # {}
  PROVE  \E x \in T : \A y \in T : x <= y
<1> DEFINE R == OpToRel(<, Nat)
<1>1. IsWellFoundedOn(R, Nat)
  BY NatLessThanWellFounded
<1>2. R = {p \in Nat \X Nat : p[1] < p[2]}
  BY DEF OpToRel
<1> HIDE DEF R
<1>3. PICK x \in T : \A y \in T : ~(<<y, x>> \in R)
  BY <1>1, WFMin
<1>4. \A y \in T : ~(y < x)
  BY <1>2, <1>3
<1> QED
  BY <1>4

\* A set with 0 and with the successor of each of its numbers holds all numbers.
LEMMA SetInduction ==
  ASSUME NEW S, 0 \in S, \A n \in Nat : n \in S => n + 1 \in S
  PROVE  \A n \in Nat : n \in S
<1> DEFINE T == Nat \ S
<1>1. SUFFICES ASSUME T # {} PROVE FALSE
  OBVIOUS
<1>2. PICK x \in T : \A y \in T : x <= y
  <2> HIDE DEF T
  <2>1. T \in SUBSET Nat
    BY DEF T
  <2> QED
    BY <1>1, <2>1, LeastNumber
<1>3. x # 0 /\ x - 1 \in Nat /\ x - 1 \notin T
  BY <1>2
<1> QED
  BY <1>3

\* What the filter has kept of the first n elements, given what it kept of the
\* ones before.
KeepStep(s, I, n, t) == IF n \in I THEN Append(t, s[n]) ELSE t

\* f is the function that Keep(s, I) defines recursively.
KeepFcn(s, I, m, f) ==
  f = [n \in 0..m |-> IF n = 0 THEN <<>> ELSE KeepStep(s, I, n, f[n - 1])]

LEMMA KeepIsFcn ==
  ASSUME NEW s, NEW I, Len(s) \in Nat
  PROVE  \E f : KeepFcn(s, I, Len(s), f) /\ Keep(s, I) = f[Len(s)]
<1> DEFINE S == {m \in Nat : \E f : KeepFcn(s, I, m, f)}
<1>1. 0 \in S
  <2>1. KeepFcn(s, I, 0, [n \in 0..0 |-> <<>>])
    BY DEF KeepFcn
  <2> QED
    BY <2>1
<1>2. ASSUME NEW m \in Nat, m \in S PROVE m + 1 \in S
  <2>1. PICK f : KeepFcn(s, I, m, f)
    BY <1>2
  <2> DEFINE x == KeepStep(s, I, m + 1, f[m])
             g == [n \in 0..(m + 1) |-> IF n = m + 1 THEN x ELSE f[n]]
  <2>2. ASSUME NEW n \in 0..(m + 1)
        PROVE  g[n] = IF n = 0 THEN <<>> ELSE KeepStep(s, I, n, g[n - 1])
    <3>1. CASE n = m + 1
      <4>1. g[n] = x /\ g[n - 1] = f[m] /\ n # 0
        BY <3>1
      <4> QED
        BY <3>1, <4>1
    <3>2. CASE n # m + 1
      <4>1. n \in 0..m /\ g[n] = f[n] /\ (n # 0 => g[n - 1] = f[n - 1])
        BY <3>2
      <4>2. f[n] = IF n = 0 THEN <<>> ELSE KeepStep(s, I, n, f[n - 1])
        BY <4>1, <2>1 DEF KeepFcn
      <4> QED
        BY <4>1, <4>2
    <3> QED
      BY <3>1, <3>2
  <2>3. g = [n \in 0..(m + 1) |-> g[n]]
    OBVIOUS
  <2> HIDE DEF g
  <2>4. KeepFcn(s, I, m + 1, g)
    BY <2>2, <2>3 DEF KeepFcn
  <2> QED
    BY <2>4
<1>3. \A m \in Nat : m \in S
  <2> HIDE DEF S
  <2> QED
    BY <1>1, <1>2, SetInduction
<1>4. \E f : KeepFcn(s, I, Len(s), f)
  BY <1>3
<1> DEFINE F == CHOOSE f : KeepFcn(s, I, Len(s), f)
<1>5. KeepFcn(s, I, Len(s), F)
  BY <1>4
<1>6. Keep(s, I) = F[Len(s)]
  BY DEF Keep, KeepFcn, KeepStep
<1> QED
  BY <1>5, <1>6

LEMMA AppendHas ==
  ASSUME NEW S, NEW s \in Seq(S), NEW x \in S
  PROVE  /\ Append(s, x) \in Seq(S) /\ Len(Append(s, x)) = Len(s) + 1
         /\ \A y : Has(y, Append(s, x)) <=> Has(y, s) \/ y = x
<1> DEFINE a == Append(s, x)
<1>1. /\ Len(s) \in Nat /\ Len(a) = Len(s) + 1 /\ a[Len(s) + 1] = x
      /\ \A i \in 1..Len(s) : a[i] = s[i]
      /\ a \in Seq(S)
  BY AppendProperties, LenProperties
<1> HIDE DEF a
<1>2. /\ \A i \in 1..Len(a) : i = Len(s) + 1 \/ i \in 1..Len(s)
      /\ Len(s) + 1 \in 1..Len(a) /\ \A i \in 1..Len(s) : i \in 1..Len(a)
  BY <1>1
<1>3. \A y : Has(y, a) <=> Has(y, s) \/ y = x
  BY <1>1, <1>2 DEF Has
<1> QED
  BY <1>1, <1>3 DEF a

\* A filter keeps the elements at the given places and no others.
LEMMA KeepFacts ==
  ASSUME NEW S, NEW s \in Seq(S), NEW I
  PROVE  /\ Keep(s, I) \in Seq(S)
         /\ \A x : Has(x, Keep(s, I)) <=> \E i \in 1..Len(s) : i \in I /\ s[i] = x
<1>1. Len(s) \in Nat /\ \A i \in 1..Len(s) : s[i] \in S
  BY LenProperties, ElementOfSeq
<1>2. PICK f : KeepFcn(s, I, Len(s), f) /\ Keep(s, I) = f[Len(s)]
  BY <1>1, KeepIsFcn
<1> DEFINE P(n) == /\ f[n] \in Seq(S)
                   /\ \A x : Has(x, f[n]) <=> \E i \in 1..n : i \in I /\ s[i] = x
           J == {n \in Nat : n <= Len(s) => P(n)}
<1>3. 0 \in J
  <2>1. f[0] = <<>>
    BY <1>1, <1>2 DEF KeepFcn
  <2>2. \A x : ~Has(x, <<>>)
    BY EmptySeq DEF Has
  <2>3. P(0)
    BY <2>1, <2>2, EmptySeq
  <2> QED
    BY <2>3
<1>4. ASSUME NEW n \in Nat, n \in J PROVE n + 1 \in J
  <2> SUFFICES ASSUME n + 1 <= Len(s) PROVE P(n + 1)
    OBVIOUS
  <2>1. P(n) /\ s[n + 1] \in S
    BY <1>1, <1>4
  <2>2. f[n + 1] = KeepStep(s, I, n + 1, f[n])
    <3>1. n + 1 \in 0..Len(s) /\ n + 1 # 0 /\ (n + 1) - 1 = n
      BY <1>1
    <3> QED
      BY <3>1, <1>2 DEF KeepFcn
  <2>3. \A i : i \in 1..(n + 1) <=> i \in 1..n \/ i = n + 1
    OBVIOUS
  <2>4. CASE n + 1 \in I
    <3>1. f[n + 1] = Append(f[n], s[n + 1])
      BY <2>2, <2>4 DEF KeepStep
    <3>2. /\ f[n + 1] \in Seq(S)
          /\ \A y : Has(y, f[n + 1]) <=> Has(y, f[n]) \/ y = s[n + 1]
      BY <2>1, <3>1, AppendHas
    <3> QED
      BY <2>1, <2>3, <2>4, <3>2
  <2>5. CASE n + 1 \notin I
    <3>1. f[n + 1] = f[n]
      BY <2>2, <2>5 DEF KeepStep
    <3> QED
      BY <2>1, <2>3, <2>5, <3>1
  <2> QED
    BY <2>4, <2>5
<1>5. \A n \in Nat : n \in J
  <2> HIDE DEF J
  <2> QED
    BY <1>3, <1>4, SetInduction
<1>6. P(Len(s))
  <2>1. PICK n \in Nat : n = Len(s)
    BY <1>1
  <2>2. n \in J /\ n <= Len(s)
    BY <1>5, <2>1
  <2>3. P(n)
    BY <2>2
  <2> QED
    BY <2>1, <2>3
<1> QED
  BY <1>2, <1>6

LEMMA HandlersFacts ==
  ASSUME NEW es \in Seq(Entries)
  PROVE  /\ HandlersOf(es) \in Seq(Regs) /\ Len(HandlersOf(es)) = Len(es)
         /\ \A i \in 1..Len(es) : es[i] \in Entries /\ HandlersOf(es)[i] = es[i].h
<1>1. Len(es) \in Nat /\ DOMAIN es = 1..Len(es) /\ \A i \in 1..Len(es) : es[i] \in Entries
  BY LenProperties, ElementOfSeq
<1>2. HandlersOf(es) = [i \in 1..Len(es) |-> es[i].h]
  BY <1>1 DEF HandlersOf
<1>3. \A i \in 1..Len(es) : es[i].h \in Regs
  BY <1>1 DEF Entries
<1>4. HandlersOf(es) \in [1..Len(es) -> Regs]
  BY <1>2, <1>3
<1>5. HandlersOf(es) \in Seq(Regs)
  BY <1>1, <1>4, SeqDef
<1>6. Len(HandlersOf(es)) = Len(es)
  BY <1>1, <1>4, <1>5, LenProperties
<1> QED
  BY <1>1, <1>2, <1>5, <1>6

LEMMA HandlersAppend ==
  ASSUME NEW es \in Seq(Entries), NEW e \in Entries
  PROVE  HandlersOf(Append(es, e)) = Append(HandlersOf(es), e.h)
<1> DEFINE a == Append(es, e)
           b == Append(HandlersOf(es), e.h)
<1>1. HandlersOf(es) \in Seq(Regs) /\ Len(HandlersOf(es)) = Len(es) /\ Len(es) \in Nat
      /\ \A i \in 1..Len(es) : HandlersOf(es)[i] = es[i].h
  BY HandlersFacts, LenProperties
<1>2. e.h \in Regs
  BY DEF Entries
<1>3. a \in Seq(Entries) /\ Len(a) = Len(es) + 1 /\ a[Len(es) + 1] = e
      /\ \A i \in 1..Len(es) : a[i] = es[i]
  BY AppendProperties
<1>4. b \in Seq(Regs) /\ Len(b) = Len(es) + 1 /\ b[Len(es) + 1] = e.h
      /\ \A i \in 1..Len(es) : b[i] = HandlersOf(es)[i]
  BY <1>1, <1>2, AppendProperties
<1> HIDE DEF a, b
<1>5. HandlersOf(a) \in Seq(Regs) /\ Len(HandlersOf(a)) = Len(a)
      /\ \A i \in 1..Len(a) : HandlersOf(a)[i] = a[i].h
  BY <1>3, HandlersFacts
<1>6. \A i \in 1..Len(a) : i = Len(es) + 1 \/ i \in 1..Len(es)
  BY <1>1, <1>3
<1>7. \A i \in 1..Len(a) : HandlersOf(a)[i] = b[i]
  BY <1>1, <1>3, <1>4, <1>5, <1>6
<1> QED
  BY <1>3, <1>4, <1>5, <1>7, SeqEqual DEF a, b

\* A filter by place does not care whether it works on entries or on handlers.
LEMMA KeepHandlers ==
  ASSUME NEW es \in Seq(Entries), NEW I
  PROVE  HandlersOf(Keep(es, I)) = Keep(HandlersOf(es), I)
<1> DEFINE hs == HandlersOf(es)
<1>1. /\ hs \in Seq(Regs) /\ Len(hs) = Len(es) /\ Len(es) \in Nat
      /\ \A i \in 1..Len(es) : es[i] \in Entries /\ hs[i] = es[i].h
  BY HandlersFacts, LenProperties
<1>2. PICK f : KeepFcn(es, I, Len(es), f) /\ Keep(es, I) = f[Len(es)]
  BY <1>1, KeepIsFcn
<1> HIDE DEF hs
<1>3. PICK g : KeepFcn(hs, I, Len(es), g) /\ Keep(hs, I) = g[Len(es)]
  BY <1>1, KeepIsFcn
<1> DEFINE P(n) == f[n] \in Seq(Entries) /\ HandlersOf(f[n]) = g[n]
           J == {n \in Nat : n <= Len(es) => P(n)}
<1>4. 0 \in J
  <2>1. f[0] = <<>> /\ g[0] = <<>>
    BY <1>1, <1>2, <1>3 DEF KeepFcn
  <2>2. <<>> \in Seq(Entries)
    BY EmptySeq
  <2>3. HandlersOf(<<>>) = <<>>
    <3>1. HandlersOf(<<>>) \in Seq(Regs) /\ Len(HandlersOf(<<>>)) = 0
      BY <2>2, HandlersFacts, EmptySeq
    <3> QED
      BY <3>1, EmptySeq
  <2>4. P(0)
    BY <2>1, <2>2, <2>3
  <2> QED
    BY <2>4
<1>5. ASSUME NEW n \in Nat, n \in J PROVE n + 1 \in J
  <2> SUFFICES ASSUME n + 1 <= Len(es) PROVE P(n + 1)
    OBVIOUS
  <2>1. P(n) /\ es[n + 1] \in Entries /\ hs[n + 1] = es[n + 1].h
    BY <1>1, <1>5
  <2>2. f[n + 1] = KeepStep(es, I, n + 1, f[n]) /\ g[n + 1] = KeepStep(hs, I, n + 1, g[n])
    <3>1. n + 1 \in 0..Len(es) /\ n + 1 # 0 /\ (n + 1) - 1 = n
      BY <1>1
    <3> QED
      BY <3>1, <1>2, <1>3 DEF KeepFcn
  <2>3. CASE n + 1 \in I
    <3>1. f[n + 1] = Append(f[n], es[n + 1]) /\ g[n + 1] = Append(g[n], hs[n + 1])
      BY <2>2, <2>3 DEF KeepStep
    <3>2. Append(f[n], es[n + 1]) \in Seq(Entries)
          /\ HandlersOf(Append(f[n], es[n + 1])) = Append(HandlersOf(f[n]), es[n + 1].h)
      BY <2>1, HandlersAppend, AppendProperties
    <3> QED
      BY <2>1, <3>1, <3>2
  <2>4. CASE n + 1 \notin I
    BY <2>1, <2>2, <2>4 DEF KeepStep
  <2> QED
    BY <2>3, <2>4
<1>6. \A n \in Nat : n \in J
  <2> HIDE DEF J
  <2> QED
    BY <1>4, <1>5, SetInduction
<1>7. P(Len(es))
  BY <1>1, <1>6
<1> QED
  BY <1>2, <1>3, <1>7 DEF hs

-----------------------------------------------------------------------------
(* What the functions of the strand make of a table.                       *)

LEMMA IdTable ==
  ASSUME NEW T \in Tables
  PROVE  /\ [do |-> "id"] \in Jobs /\ Run1(T, [do |-> "id"]) = TakeId(T)
         /\ TakeId(T) \in Tables
         /\ TakeId(T).list = T.list /\ TakeId(T).nextId = T.nextId + 1
         /\ TakeId(T).mixup = T.mixup
<1>1. [do |-> "id"] \in Jobs
  BY DEF Jobs
<1>2. Run1(T, [do |-> "id"]) = TakeId(T)
  BY DEF Run1
<1>3. /\ TakeId(T) \in Tables
      /\ TakeId(T).list = T.list /\ TakeId(T).nextId = T.nextId + 1
      /\ TakeId(T).mixup = T.mixup
  BY DEF TakeId, Tables
<1> QED
  BY <1>1, <1>2, <1>3

LEMMA AddTable ==
  ASSUME NEW T \in Tables, NEW f \in Jobs, f.do = "add"
  PROVE  /\ Run1(T, f) = AddEntry(T, f) /\ AddEntry(T, f) \in Tables
         /\ AddEntry(T, f).list =
              [T.list EXCEPT ![f.key] =
                 Append(T.list[f.key], [id |-> f.id, h |-> f.h])]
         /\ AddEntry(T, f).nextId = T.nextId /\ AddEntry(T, f).mixup = T.mixup
<1>1. PICK k \in Keys, id \in Nat, r \in Regs : f.key = k /\ f.id = id /\ f.h = r
  BY DEF Jobs
<1>2. f.do = "add" /\ f.key = k /\ f.id = id /\ f.h = r
  BY <1>1
<1>3. Run1(T, f) = AddEntry(T, f)
  BY <1>2 DEF Run1
<1> DEFINE e == [id |-> id, h |-> r]
           L == [T.list EXCEPT ![k] = Append(T.list[k], e)]
<1>4. T.list \in [Keys -> Seq(Entries)] /\ T.nextId \in Nat /\ T.mixup \in BOOLEAN
      /\ T.list[k] \in Seq(Entries)
  BY DEF Tables
<1>5. e \in Entries
  BY DEF Entries
<1>6. AddEntry(T, f) = [T EXCEPT !.list = L]
  BY <1>2 DEF AddEntry, Tables
<1> HIDE DEF e
<1>7. Append(T.list[k], e) \in Seq(Entries)
  BY <1>4, <1>5, AppendProperties
<1>8. L \in [Keys -> Seq(Entries)]
  BY <1>4, <1>7
<1> HIDE DEF L
<1>9. /\ AddEntry(T, f) \in Tables
      /\ AddEntry(T, f).list = L
      /\ AddEntry(T, f).nextId = T.nextId /\ AddEntry(T, f).mixup = T.mixup
  BY <1>4, <1>6, <1>8 DEF Tables
<1> QED
  BY <1>2, <1>3, <1>9 DEF L, e

\* The places that a disconnect leaves of its list.
Others(T, f) == {i \in 1..Len(T.list[f.key]) : T.list[f.key][i].id # f.id}

\* It takes away another registration.
MixesUp(T, f) ==
  \E i \in 1..Len(T.list[f.key]) :
    T.list[f.key][i].id = f.id /\ T.list[f.key][i].h # f.h

LEMMA DropTable ==
  ASSUME NEW T \in Tables, NEW f \in Jobs, f.do = "drop"
  PROVE  /\ Run1(T, f) = DropEntries(T, f) /\ DropEntries(T, f) \in Tables
         /\ DropEntries(T, f).list =
              [T.list EXCEPT ![f.key] = Keep(T.list[f.key], Others(T, f))]
         /\ DropEntries(T, f).nextId = T.nextId
         /\ T.mixup => DropEntries(T, f).mixup
         /\ DropEntries(T, f).mixup => T.mixup \/ MixesUp(T, f)
         /\ MixesUp(T, f) => DropEntries(T, f).mixup
<1>1. PICK k \in Keys, id \in Nat, r \in Regs : f.key = k /\ f.id = id /\ f.h = r
  BY DEF Jobs
<1>2. f.do = "drop" /\ f.key = k /\ f.id = id /\ f.h = r
  BY <1>1
<1>3. Run1(T, f) = DropEntries(T, f)
  BY <1>2 DEF Run1
<1> DEFINE es == T.list[k]
           others == Others(T, f)
           L == [T.list EXCEPT ![k] = Keep(es, others)]
           m == T.mixup \/ \E i \in DOMAIN es \ others : es[i].h # r
<1>4. T.list \in [Keys -> Seq(Entries)] /\ T.nextId \in Nat /\ T.mixup \in BOOLEAN
      /\ es \in Seq(Entries)
  BY DEF Tables
<1>5. DOMAIN es = 1..Len(es)
  BY <1>4, LenProperties
<1>6. others = {i \in DOMAIN es : es[i].id # f.id}
  BY <1>2, <1>5 DEF Others
<1>7. DropEntries(T, f) = [T EXCEPT !.list = L, !.mixup = m]
  <2>1. DropEntries(T, f) = [T EXCEPT !.list[k] = Keep(es, others), !.mixup = m]
    BY <1>2, <1>6 DEF DropEntries
  <2> QED
    BY <2>1 DEF Tables
<1>8. Keep(es, others) \in Seq(Entries)
  <2> HIDE DEF es
  <2> QED
    BY <1>4, KeepFacts
<1>9. L \in [Keys -> Seq(Entries)]
  BY <1>4, <1>8
<1>10. m \in BOOLEAN
  BY <1>4
<1>11. m <=> T.mixup \/ MixesUp(T, f)
  BY <1>2, <1>5 DEF Others, MixesUp
<1> HIDE DEF L, m
<1>12. /\ DropEntries(T, f) \in Tables
       /\ DropEntries(T, f).list = L
       /\ DropEntries(T, f).nextId = T.nextId /\ DropEntries(T, f).mixup = m
  BY <1>4, <1>7, <1>9, <1>10 DEF Tables
<1> QED
  BY <1>2, <1>3, <1>11, <1>12 DEF L

LEMMA ClearTable ==
  ASSUME NEW T \in Tables, NEW f \in Jobs, f.do = "clear"
  PROVE  /\ Run1(T, f) = ClearList(T, f) /\ ClearList(T, f) \in Tables
         /\ ClearList(T, f).list = [T.list EXCEPT ![f.key] = <<>>]
         /\ ClearList(T, f).nextId = T.nextId /\ ClearList(T, f).mixup = T.mixup
<1>1. PICK k \in Keys : f.key = k
  BY DEF Jobs
<1>2. f.do = "clear" /\ f.key = k
  BY <1>1
<1>3. Run1(T, f) = ClearList(T, f)
  BY <1>2 DEF Run1
<1> DEFINE L == [T.list EXCEPT ![k] = <<>>]
<1>4. T.list \in [Keys -> Seq(Entries)] /\ T.nextId \in Nat /\ T.mixup \in BOOLEAN
  BY DEF Tables
<1>5. <<>> \in Seq(Entries)
  BY EmptySeq
<1>6. L \in [Keys -> Seq(Entries)]
  BY <1>4, <1>5
<1>7. ClearList(T, f) = [T EXCEPT !.list = L]
  BY <1>2 DEF ClearList, Tables
<1> HIDE DEF L
<1>8. /\ ClearList(T, f) \in Tables
      /\ ClearList(T, f).list = L
      /\ ClearList(T, f).nextId = T.nextId /\ ClearList(T, f).mixup = T.mixup
  BY <1>4, <1>6, <1>7 DEF Tables
<1> QED
  BY <1>2, <1>3, <1>8 DEF L

\* No function undoes a mix-up.
LEMMA RunTable ==
  ASSUME NEW T \in Tables, NEW f \in Jobs
  PROVE  Run1(T, f) \in Tables /\ (T.mixup => Run1(T, f).mixup)
<1>1. f.do = "id" => f = [do |-> "id"]
  BY DEF Jobs
<1>2. f.do \in {"id", "clear", "add", "drop"}
  BY DEF Jobs
<1>3. CASE f.do = "id"
  BY <1>1, <1>3, IdTable
<1>4. CASE f.do = "clear"
  BY <1>4, ClearTable
<1>5. CASE f.do = "add"
  BY <1>5, AddTable
<1>6. CASE f.do = "drop"
  <2>1. Run1(T, f) = DropEntries(T, f) /\ DropEntries(T, f) \in Tables
    BY <1>6, DropTable
  <2>2. T.mixup => DropEntries(T, f).mixup
    BY <1>6, DropTable, Zenon
  <2> QED
    BY <2>1, <2>2
<1> QED
  BY <1>2, <1>3, <1>4, <1>5, <1>6

-----------------------------------------------------------------------------
(* The settled table.                                                      *)

LEMMA LeadsNone ==
  ASSUME NEW T0 \in Tables, NEW T
  PROVE  Leads(T0, <<>>, T) <=> T = T0
<1>1. Len(<<>>) = 0
  BY EmptySeq
<1>2. ASSUME Leads(T0, <<>>, T) PROVE T = T0
  BY <1>1, <1>2 DEF Leads
<1>3. ASSUME T = T0 PROVE Leads(T0, <<>>, T)
  <2> DEFINE R == [n \in 0..0 |-> T0]
  <2>1. R \in [0..0 -> Tables] /\ R[0] = T0 /\ \A n \in 0..0 : R[n] = T0
    OBVIOUS
  <2>2. \A n \in 1..0 : FALSE
    OBVIOUS
  <2> HIDE DEF R
  <2> QED
    BY <1>1, <1>3, <2>1, <2>2 DEF Leads
<1> QED
  BY <1>2, <1>3

\* One more function for the strand.
LEMMA LeadsMore ==
  ASSUME NEW T0, NEW fs \in Seq(Jobs), NEW T \in Tables, NEW f \in Jobs,
         Leads(T0, fs, T)
  PROVE  Leads(T0, Append(fs, f), Run1(T, f))
<1> DEFINE m == Len(fs)
           gs == Append(fs, f)
           U == Run1(T, f)
<1>1. m \in Nat /\ Len(gs) = m + 1 /\ gs[m + 1] = f /\ \A n \in 1..m : gs[n] = fs[n]
  BY AppendProperties, LenProperties
<1>2. U \in Tables /\ (T.mixup => U.mixup)
  BY RunTable
<1>3. PICK R \in [0..m -> Tables] :
        /\ R[0] = T0 /\ R[m] = T
        /\ \A n \in 1..m : R[n] = Run1(R[n - 1], fs[n])
        /\ \A n \in 0..m : R[n].mixup => T.mixup
  BY DEF Leads
<1> DEFINE Q == [n \in 0..(m + 1) |-> IF n = m + 1 THEN U ELSE R[n]]
<1> HIDE DEF m, gs
<1>4. Q \in [0..(m + 1) -> Tables] /\ Q[0] = T0 /\ Q[m + 1] = U
      /\ \A n \in 0..m : Q[n] = R[n]
  <2> HIDE DEF U
  <2> QED
    BY <1>1, <1>2, <1>3
<1> HIDE DEF Q
<1>5. ASSUME NEW n \in 1..(m + 1) PROVE Q[n] = Run1(Q[n - 1], gs[n])
  <2>1. n - 1 \in 0..m /\ (n = m + 1 \/ n \in 1..m) /\ n \in 0..(m + 1)
    BY <1>1
  <2>2. CASE n = m + 1
    <3>1. n - 1 = m /\ m \in 0..m
      BY <1>1, <2>2
    <3> QED
      BY <1>1, <1>3, <1>4, <2>2, <3>1
  <2>3. CASE n \in 1..m
    <3>1. n \in 0..m
      BY <2>3
    <3> QED
      BY <1>1, <1>3, <1>4, <2>1, <2>3, <3>1
  <2> QED
    BY <2>1, <2>2, <2>3
<1>6. \A n \in 0..(m + 1) : Q[n].mixup => U.mixup
  <2> HIDE DEF U
  <2>1. \A n \in 0..(m + 1) : n = m + 1 \/ n \in 0..m
    BY <1>1
  <2> QED
    BY <1>2, <1>3, <1>4, <2>1
<1> HIDE DEF U
<1>7. Leads(T0, gs, U)
  BY <1>1, <1>4, <1>5, <1>6 DEF Leads
<1> QED
  BY <1>7 DEF gs, U

\* The strand has run the first function.
LEMMA LeadsOn ==
  ASSUME NEW T0, NEW fs \in Seq(Jobs), fs # <<>>, NEW T \in Tables, Leads(T0, fs, T)
  PROVE  Leads(Run1(T0, Head(fs)), Tail(fs), T)
<1> DEFINE m == Len(fs)
           gs == Tail(fs)
<1>1. m \in Nat /\ m # 0 /\ Len(gs) = m - 1 /\ Head(fs) = fs[1]
      /\ \A n \in 1..(m - 1) : gs[n] = fs[n + 1]
  BY HeadTailProperties, EmptySeq, LenProperties
<1>2. PICK R \in [0..m -> Tables] :
        /\ R[0] = T0 /\ R[m] = T
        /\ \A n \in 1..m : R[n] = Run1(R[n - 1], fs[n])
        /\ \A n \in 0..m : R[n].mixup => T.mixup
  BY DEF Leads
<1> DEFINE Q == [n \in 0..(m - 1) |-> R[n + 1]]
<1> HIDE DEF m, gs
<1>3. Q \in [0..(m - 1) -> Tables] /\ Q[m - 1] = T /\ Q[0] = R[1]
      /\ \A n \in 0..(m - 1) : Q[n] = R[n + 1] /\ n + 1 \in 0..m
  BY <1>1, <1>2
<1> HIDE DEF Q
<1>4. Q[0] = Run1(T0, Head(fs))
  <2>1. 1 \in 1..m /\ 1 - 1 = 0
    BY <1>1
  <2>2. R[1] = Run1(R[1 - 1], fs[1])
    BY <1>2, <2>1
  <2> QED
    BY <1>1, <1>2, <1>3, <2>1, <2>2
<1>5. ASSUME NEW n \in 1..(m - 1) PROVE Q[n] = Run1(Q[n - 1], gs[n])
  <2>1. n - 1 \in 0..(m - 1) /\ n \in 0..(m - 1) /\ n + 1 \in 1..m
        /\ (n - 1) + 1 = n /\ (n + 1) - 1 = n
    BY <1>1
  <2>2. R[n + 1] = Run1(R[(n + 1) - 1], fs[n + 1])
    BY <1>2, <2>1
  <2> QED
    BY <1>1, <1>3, <2>1, <2>2
<1>6. \A n \in 0..(m - 1) : Q[n].mixup => T.mixup
  BY <1>2, <1>3
<1>7. Leads(Run1(T0, Head(fs)), gs, T)
  BY <1>1, <1>3, <1>4, <1>5, <1>6 DEF Leads
<1> QED
  BY <1>7 DEF gs

LEMMA LeadsMixup ==
  ASSUME NEW T0, NEW fs \in Seq(Jobs), NEW T, Leads(T0, fs, T)
  PROVE  T0.mixup => T.mixup
<1>1. Len(fs) \in Nat /\ 0 \in 0..Len(fs)
  BY LenProperties
<1> QED
  BY <1>1 DEF Leads

\* A client does to the settled table what it asks the strand to do, whether run()
\* has begun or not.
LEMMA OneJob ==
  ASSUME TypeOK, ClientTurn, phase' = phase, NEW f \in Jobs,
         OnStrand(<<f>>, Run1(tab, f)), NEW T \in Tables, Leads(tab, todo, T)
  PROVE  /\ todo' \in Seq(Jobs) /\ tab' \in Tables /\ (tab.mixup => tab'.mixup)
         /\ Leads(tab', todo', Run1(T, f))
         /\ Pending' <=> Pending
         /\ Pending <=> phase = "setup"
         /\ ~Pending => tab = T /\ tab' = Run1(T, f) /\ todo' = <<>>
<1>1. todo \in Seq(Jobs) /\ tab \in Tables
  BY DEF TypeOK
<1>2. CASE phase = "setup"
  <2>1. todo' = Append(todo, f) /\ tab' = tab
    BY <1>1, <1>2, AppendIsConcat DEF OnStrand
  <2>2. Append(todo, f) \in Seq(Jobs)
    BY <1>1, AppendProperties
  <2>3. Leads(tab, Append(todo, f), Run1(T, f))
    BY <1>1, LeadsMore
  <2> QED
    BY <1>1, <1>2, <2>1, <2>2, <2>3 DEF Pending
<1>3. CASE phase # "setup"
  <2>1. todo = <<>> /\ todo' = <<>> /\ tab' = Run1(tab, f)
    BY <1>3 DEF ClientTurn, OnStrand
  <2>2. T = tab
    BY <1>1, <2>1, LeadsNone
  <2>3. Run1(T, f) \in Tables /\ (T.mixup => Run1(T, f).mixup)
    BY RunTable
  <2>4. Leads(tab', todo', Run1(T, f))
    BY <2>1, <2>2, <2>3, LeadsNone
  <2>5. <<>> \in Seq(Jobs)
    BY EmptySeq
  <2> QED
    BY <1>1, <1>3, <2>1, <2>2, <2>3, <2>4, <2>5 DEF Pending
<1> QED
  BY <1>2, <1>3

LEMMA TwoJobs ==
  ASSUME TypeOK, ClientTurn, phase' = phase, NEW g \in Jobs, NEW f \in Jobs,
         OnStrand(<<g, f>>, Run1(Run1(tab, g), f)),
         NEW T \in Tables, Leads(tab, todo, T)
  PROVE  /\ todo' \in Seq(Jobs) /\ tab' \in Tables /\ (tab.mixup => tab'.mixup)
         /\ Leads(tab', todo', Run1(Run1(T, g), f))
         /\ Pending' <=> Pending
         /\ Pending <=> phase = "setup"
         /\ ~Pending => tab = T /\ tab' = Run1(Run1(T, g), f) /\ todo' = <<>>
<1>1. todo \in Seq(Jobs) /\ tab \in Tables
  BY DEF TypeOK
<1>2. PICK U \in Tables : U = Run1(T, g) /\ (T.mixup => U.mixup)
  BY RunTable
<1>3. Run1(U, f) \in Tables /\ (T.mixup => Run1(U, f).mixup)
  BY <1>2, RunTable
<1>4. CASE phase = "setup"
  <2>1. todo' = todo \o <<g, f>> /\ tab' = tab
    BY <1>4 DEF OnStrand
  <2>2. Append(todo, g) \in Seq(Jobs) /\ Append(Append(todo, g), f) \in Seq(Jobs)
    BY <1>1, AppendProperties
  <2>3. todo \o <<g, f>> = Append(Append(todo, g), f)
    <3>1. <<g>> \in Seq(Jobs) /\ <<f>> \in Seq(Jobs)
      OBVIOUS
    <3>2. Append(<<g>>, f) = <<g>> \o <<f>>
      BY <3>1, AppendIsConcat
    <3>3. Append(<<g>>, f) = <<g, f>>
      <4>1. <<g, f>> \in Seq(Jobs) /\ Len(<<g, f>>) = 2
            /\ <<g, f>>[1] = g /\ <<g, f>>[2] = f
        OBVIOUS
      <4>2. Len(<<g>>) = 1 /\ <<g>>[1] = g
        OBVIOUS
      <4>3. Append(<<g>>, f) \in Seq(Jobs) /\ Len(Append(<<g>>, f)) = 2
            /\ Append(<<g>>, f)[1] = g /\ Append(<<g>>, f)[2] = f
        BY <3>1, <4>2, AppendProperties
      <4>4. \A i \in 1..2 : Append(<<g>>, f)[i] = <<g, f>>[i]
        <5>1. \A i \in 1..2 : i = 1 \/ i = 2
          OBVIOUS
        <5> QED
          BY <4>1, <4>3, <5>1, Zenon
      <4> QED
        BY <4>1, <4>3, <4>4, SeqEqual
    <3>4. Append(todo, g) = todo \o <<g>>
      BY <1>1, AppendIsConcat
    <3>5. Append(Append(todo, g), f) = Append(todo, g) \o <<f>>
      BY <2>2, AppendIsConcat
    <3>6. (todo \o <<g>>) \o <<f>> = todo \o (<<g>> \o <<f>>)
      BY <1>1, <3>1, ConcatAssociative
    <3> QED
      BY <3>2, <3>3, <3>4, <3>5, <3>6
  <2>4. Leads(tab, Append(todo, g), U)
    BY <1>1, <1>2, LeadsMore
  <2>5. Leads(tab, Append(Append(todo, g), f), Run1(U, f))
    BY <2>2, <2>4, LeadsMore
  <2> QED
    BY <1>1, <1>2, <1>4, <2>1, <2>2, <2>3, <2>5 DEF Pending
<1>5. CASE phase # "setup"
  <2>1. todo = <<>> /\ todo' = <<>> /\ tab' = Run1(Run1(tab, g), f)
    BY <1>5 DEF ClientTurn, OnStrand
  <2>2. T = tab
    BY <1>1, <2>1, LeadsNone
  <2>3. Leads(tab', todo', Run1(U, f))
    BY <1>2, <1>3, <2>1, <2>2, LeadsNone
  <2>4. <<>> \in Seq(Jobs)
    BY EmptySeq
  <2> QED
    BY <1>1, <1>2, <1>3, <1>5, <2>1, <2>2, <2>3, <2>4 DEF Pending
<1> QED
  BY <1>4, <1>5

-----------------------------------------------------------------------------
(* The clients.                                                            *)

LEMMA StartsSettled == Init => IInv
<1> SUFFICES ASSUME Init PROVE IInv
  OBVIOUS
<1>1. /\ \A S : <<>> \in Seq(S)
      /\ Len(<<>>) = 0
  BY EmptySeq
<1>2. /\ phase = "setup" /\ todo = <<>> /\ cur = None /\ early = {}
      /\ tab.list = [k \in Keys |-> <<>>] /\ tab.nextId = 1 /\ tab.mixup = FALSE
      /\ conn = [r \in Regs |-> None] /\ active = [k \in Keys |-> <<>>]
  BY DEF Init
<1>3. tab \in Tables
  BY <1>1 DEF Init, Tables
<1>4. TypeOK
  <2>1. conn \in [Regs -> Connections \cup {None}] /\ active \in [Keys -> Seq(Regs)]
    BY <1>1, <1>2
  <2>2. cur \in Dispatches \cup {None} /\ early \subseteq Regs \X Keys \X Garbage
    BY <1>2
  <2>3. todo \in Seq(Jobs) /\ {promised, called} \subseteq Seq(Regs)
    BY <1>1 DEF Init
  <2>4. phase \in {"setup", "running", "ended"} /\ served \in 0..MaxMsgs
    BY DispatcherAssumption DEF Init
  <2> QED
    BY <1>3, <2>1, <2>2, <2>3, <2>4 DEF TypeOK
<1>5. \A k \in Keys, r \in Regs : ~Has(r, active[k])
  BY <1>1, <1>2 DEF Has
<1>6. \A r \in Regs : ~Connected(r)
  BY <1>2 DEF Connected
<1>7. ConnOK
  BY <1>5, <1>6 DEF ConnOK
<1>8. CurOK
  BY <1>2 DEF CurOK
<1>9. SettleOK
  <2>1. Leads(tab, todo, tab)
    BY <1>2, <1>3, LeadsNone
  <2>2. HandlersOf(<<>>) = <<>>
    <3>1. HandlersOf(<<>>) \in Seq(Regs) /\ Len(HandlersOf(<<>>)) = 0
      BY <1>1, HandlersFacts
    <3> QED
      BY <3>1, EmptySeq
  <2>3. Settled(tab)
    BY <1>1, <1>2, <1>6, <2>2 DEF Settled
  <2> QED
    BY <1>2, <1>3, <2>1, <2>3 DEF SettleOK
<1> QED
  BY <1>4, <1>7, <1>8, <1>9 DEF IInv

\* registerHandler() and registerAnyPost().
LEMMA RegisterSettles ==
  ASSUME IInv, NEW r \in Regs, NEW k \in Keys, Register(r, k)
  PROVE  IInv'
<1>1. TypeOK /\ ConnOK /\ CurOK /\ SettleOK
  BY DEF IInv
<1>2. PICK id \in NextIds :
        /\ LET f == [do |-> "add", key |-> k, id |-> id, h |-> r]
           IN  OnStrand(<< [do |-> "id"], f >>, AddEntry(TakeId(tab), f))
        /\ conn' = [conn EXCEPT ![r] = [self |-> TRUE, key |-> k, id |-> id]]
        /\ early' = IF phase = "setup" THEN early \cup {<<r, k, id>>} ELSE early
  BY DEF Register
<1>3. /\ ClientTurn /\ conn[r] = None
      /\ active' = [active EXCEPT ![k] = Append(@, r)]
      /\ phase' = phase /\ cur' = cur /\ served' = served
      /\ promised' = promised /\ called' = called
  BY DEF Register
<1>4. PICK T \in Tables :
        /\ Leads(tab, todo, T) /\ Settled(T)
        /\ T.mixup => Clash \/ (~Pending /\ Reused(T.nextId))
  BY <1>1 DEF SettleOK
<1>5. PICK g \in Jobs : g = [do |-> "id"]
  BY DEF Jobs
<1>6. id \in Nat /\ (phase = "setup" => id \in Garbage) /\ (phase # "setup" => id = tab.nextId)
  BY <1>1, DispatcherAssumption DEF NextIds, TypeOK, Tables
<1>7. PICK f \in Jobs : f = [do |-> "add", key |-> k, id |-> id, h |-> r]
  BY <1>6 DEF Jobs
<1>8. f.do = "add" /\ f.key = k /\ f.id = id /\ f.h = r
  BY <1>7
<1>9. PICK U \in Tables :
        U = Run1(T, g) /\ U.list = T.list /\ U.nextId = T.nextId + 1 /\ U.mixup = T.mixup
  BY <1>5, IdTable
<1>10. PICK V \in Tables :
         /\ V = Run1(U, f)
         /\ V.list = [T.list EXCEPT ![k] = Append(T.list[k], [id |-> id, h |-> r])]
         /\ V.nextId = T.nextId + 1 /\ V.mixup = T.mixup
  BY <1>8, <1>9, AddTable
<1>11. OnStrand(<<g, f>>, Run1(Run1(tab, g), f))
  <2>1. tab \in Tables
    BY <1>1 DEF TypeOK
  <2>2. Run1(tab, g) = TakeId(tab) /\ TakeId(tab) \in Tables
    BY <1>5, <2>1, IdTable
  <2>3. Run1(TakeId(tab), f) = AddEntry(TakeId(tab), f)
    BY <1>8, <2>2, AddTable
  <2> QED
    BY <1>2, <1>5, <1>7, <2>2, <2>3 DEF OnStrand
<1>12. /\ todo' \in Seq(Jobs) /\ tab' \in Tables /\ (tab.mixup => tab'.mixup)
       /\ Leads(tab', todo', V)
       /\ Pending' <=> Pending
       /\ Pending <=> phase = "setup"
       /\ ~Pending => tab = T /\ tab' = V /\ todo' = <<>>
  BY <1>1, <1>3, <1>4, <1>9, <1>10, <1>11, TwoJobs
<1>13. /\ conn \in [Regs -> Connections \cup {None}] /\ active \in [Keys -> Seq(Regs)]
       /\ early \subseteq Regs \X Keys \X Garbage
  BY <1>1 DEF TypeOK
<1> DEFINE c == [self |-> TRUE, key |-> k, id |-> id]
<1>14. c \in Connections /\ c.self /\ c.key = k /\ c.id = id /\ c # None
  <2>1. c \in Connections
    BY <1>6 DEF Connections
  <2>2. c # None
    BY <2>1, DispatcherAssumption
  <2> QED
    BY <2>1, <2>2
<1>15. conn' = [conn EXCEPT ![r] = c]
  BY <1>2
<1> HIDE DEF c
<1>16. conn'[r] = c /\ \A q \in Regs : q # r => conn'[q] = conn[q]
  BY <1>13, <1>15
<1>17. /\ ~Connected(r)
       /\ Connected(r)' /\ \A q \in Regs : q # r => (Connected(q)' <=> Connected(q))
  BY <1>3, <1>14, <1>16 DEF Connected
<1>18. /\ \A q \in Regs : q # r /\ IsEarly(q) => IsEarly(q)'
       /\ phase = "setup" => IsEarly(r)'
  BY <1>2, <1>14, <1>16 DEF IsEarly
<1>19. /\ active' \in [Keys -> Seq(Regs)] /\ active'[k] = Append(active[k], r)
       /\ \A j \in Keys : j # k => active'[j] = active[j]
       /\ \A q : Has(q, active'[k]) <=> Has(q, active[k]) \/ q = r
  <2>1. active[k] \in Seq(Regs)
    BY <1>13
  <2>2. Append(active[k], r) \in Seq(Regs)
        /\ \A q : Has(q, Append(active[k], r)) <=> Has(q, active[k]) \/ q = r
    BY <2>1, AppendHas
  <2>3. active'[k] = Append(active[k], r) /\ \A j \in Keys : j # k => active'[j] = active[j]
    BY <1>3, <1>13
  <2>4. active' \in [Keys -> Seq(Regs)]
    BY <1>3, <1>13, <2>2
  <2> QED
    BY <2>2, <2>3, <2>4
<1>20. \A j \in Keys, q \in Regs : Has(q, active[j]) => Connected(q) /\ conn[q].key = j /\ q # r
  BY <1>1, <1>17 DEF ConnOK
<1>21. TypeOK'
  <2>1. conn' \in [Regs -> Connections \cup {None}]
    BY <1>13, <1>14, <1>15
  <2>2. early' \subseteq Regs \X Keys \X Garbage
    BY <1>2, <1>6, <1>13
  <2> QED
    BY <1>1, <1>3, <1>12, <1>19, <2>1, <2>2 DEF TypeOK
<1>22. Settled(V)'
  <2>1. T.list \in [Keys -> Seq(Entries)] /\ T.nextId \in Nat /\ T.nextId >= 1
    BY <1>4 DEF Tables, Settled
  <2> DEFINE e == [id |-> id, h |-> r]
  <2>2. e \in Entries /\ e.id = id /\ e.h = r
    BY <1>6 DEF Entries
  <2>3. V.list = [T.list EXCEPT ![k] = Append(T.list[k], e)]
    BY <1>10
  <2> HIDE DEF e
  <2>4. V.list[k] = Append(T.list[k], e) /\ \A j \in Keys : j # k => V.list[j] = T.list[j]
    BY <2>1, <2>3
  <2>5. ASSUME ~V.mixup, NEW j \in Keys PROVE HandlersOf(V.list[j]) = active'[j]
    <3>1. HandlersOf(T.list[j]) = active[j]
      BY <1>4, <1>10, <2>5 DEF Settled
    <3>2. CASE j = k
      <4>1. HandlersOf(Append(T.list[k], e)) = Append(HandlersOf(T.list[k]), e.h)
        BY <2>1, <2>2, HandlersAppend
      <4> QED
        BY <1>19, <2>2, <2>4, <3>1, <3>2, <4>1
    <3> QED
      BY <1>19, <2>4, <3>1, <3>2
  <2>6. ASSUME NEW j \in Keys, NEW i \in 1..Len(V.list[j])
        PROVE  Has(V.list[j][i].h, active'[j]) /\ conn'[V.list[j][i].h].id = V.list[j][i].id
    <3>1. ASSUME i \in 1..Len(T.list[j]), V.list[j][i] = T.list[j][i]
          PROVE  Has(V.list[j][i].h, active'[j]) /\ conn'[V.list[j][i].h].id = V.list[j][i].id
      <4>1. PICK q : q = T.list[j][i].h
        OBVIOUS
      <4>2. q \in Regs
        <5>1. T.list[j] \in Seq(Entries)
          BY <2>1
        <5>2. T.list[j][i] \in Entries
          BY <3>1, <5>1, HandlersFacts
        <5> QED
          BY <4>1, <5>2 DEF Entries
      <4>3. Has(q, active[j]) /\ conn[q].id = T.list[j][i].id
        BY <1>4, <3>1, <4>1 DEF Settled
      <4>4. q # r /\ conn'[q] = conn[q]
        BY <1>16, <1>20, <4>2, <4>3
      <4>5. Has(q, active'[j])
        BY <1>19, <4>3
      <4> QED
        BY <3>1, <4>1, <4>3, <4>4, <4>5
    <3>2. CASE j # k
      BY <2>4, <3>1, <3>2
    <3>3. CASE j = k
      <4>1. T.list[k] \in Seq(Entries)
        BY <2>1
      <4>2. /\ Len(T.list[k]) \in Nat /\ Len(V.list[k]) = Len(T.list[k]) + 1
            /\ V.list[k][Len(T.list[k]) + 1] = e
            /\ \A n \in 1..Len(T.list[k]) : V.list[k][n] = T.list[k][n]
        BY <2>2, <2>4, <4>1, AppendProperties, LenProperties
      <4>3. i \in 1..Len(T.list[k]) \/ i = Len(T.list[k]) + 1
        BY <3>3, <4>2
      <4>4. CASE i \in 1..Len(T.list[k])
        BY <3>1, <3>3, <4>2, <4>4
      <4>5. CASE i = Len(T.list[k]) + 1
        <5>1. V.list[j][i] = e
          BY <3>3, <4>2, <4>5
        <5> QED
          BY <1>14, <1>16, <1>19, <2>2, <3>3, <5>1
      <4> QED
        BY <4>3, <4>4, <4>5
    <3> QED
      BY <3>2, <3>3
  <2>7. V.nextId >= 1 /\ V.nextId = T.nextId + 1
    BY <1>10, <2>1
  <2>8. ASSUME NEW q \in Regs, Connected(q)', ~IsEarly(q)'
        PROVE  conn'[q].id \in 1..(V.nextId - 1)
    <3>1. CASE q = r
      <4>1. id = T.nextId
        BY <1>6, <1>12, <1>18, <2>8, <3>1
      <4> QED
        BY <1>14, <1>16, <2>1, <2>7, <3>1, <4>1
    <3>2. CASE q # r
      <4>1. conn[q].id \in 1..(T.nextId - 1) /\ conn'[q] = conn[q]
        BY <1>4, <1>16, <1>17, <1>18, <2>8, <3>2 DEF Settled
      <4> QED
        BY <2>1, <2>7, <4>1
    <3> QED
      BY <3>1, <3>2
  <2> QED
    BY <2>5, <2>6, <2>7, <2>8 DEF Settled
<1>23. ConnOK'
  <2>1. ASSUME NEW j \in Keys, NEW q \in Regs, Has(q, active'[j])
        PROVE  Connected(q)' /\ conn'[q].key = j
    <3>1. CASE Has(q, active[j])
      BY <1>16, <1>17, <1>20, <3>1
    <3>2. CASE ~Has(q, active[j])
      <4>1. j = k /\ q = r
        BY <1>19, <2>1, <3>2
      <4> QED
        BY <1>14, <1>16, <1>17, <4>1
    <3> QED
      BY <3>1, <3>2
  <2>2. ASSUME NEW q \in Regs, Connected(q)', ~IsEarly(q)', q # r
        PROVE  Connected(q) /\ ~IsEarly(q) /\ conn'[q] = conn[q]
    BY <1>16, <1>17, <1>18, <2>2
  <2>3. ASSUME NEW q \in Regs, Connected(q)', ~IsEarly(q)', q # r, ~IsEarly(r)'
        PROVE  conn'[q].id # conn'[r].id
    <3>1. id = T.nextId
      BY <1>6, <1>12, <1>18, <2>3
    <3>2. conn'[q].id \in 1..(T.nextId - 1)
      BY <1>4, <2>2, <2>3 DEF Settled
    <3>3. T.nextId \in Nat /\ conn'[r].id = T.nextId
      BY <1>14, <1>16, <3>1 DEF Tables
    <3> QED
      BY <3>2, <3>3
  <2>4. ASSUME NEW q \in Regs, NEW o \in Regs, Connected(q)', ~IsEarly(q)',
               Connected(o)', ~IsEarly(o)', conn'[q].id = conn'[o].id
        PROVE  q = o
    <3>1. CASE q # r /\ o # r
      <4>1. Connected(q) /\ ~IsEarly(q) /\ Connected(o) /\ ~IsEarly(o)
            /\ conn[q].id = conn[o].id
        BY <2>2, <2>4, <3>1
      <4> QED
        BY <1>1, <4>1 DEF ConnOK
    <3> QED
      BY <2>3, <2>4, <3>1
  <2>5. ASSUME Pending', NEW q \in Regs, Connected(q)' PROVE IsEarly(q)'
    <3>1. Pending /\ phase = "setup"
      BY <1>12, <2>5
    <3>2. \A o \in Regs : Connected(o) => IsEarly(o)
      BY <1>1, <3>1 DEF ConnOK
    <3> QED
      BY <1>17, <1>18, <2>5, <3>1, <3>2
  <2> QED
    BY <2>1, <2>4, <2>5 DEF ConnOK
<1>24. SettleOK'
  <2>1. Clash => Clash'
    BY <1>2 DEF Clash
  <2>2. T.nextId \in Nat
    BY DEF Tables
  <2>3. Reused(T.nextId) => Reused(V.nextId)'
    <3>1. ASSUME NEW e \in early, e[3] \in 1..(T.nextId - 1)
          PROVE  e \in early' /\ e[3] \in 1..(V.nextId - 1)
      BY <1>2, <1>10, <2>2, <3>1
    <3> QED
      BY <3>1 DEF Reused
  <2>4. V.mixup => Clash' \/ (~Pending' /\ Reused(V.nextId)')
    BY <1>4, <1>10, <1>12, <2>1, <2>3
  <2> QED
    BY <1>12, <1>22, <2>4 DEF SettleOK
<1>25. CurOK'
  <2>1. cur # None => ~Pending /\ todo' = <<>>
    BY <1>1, <1>12 DEF CurOK, Pending
  <2> QED
    BY <1>1, <1>3, <1>12, <2>1 DEF CurOK
<1> QED
  BY <1>21, <1>23, <1>24, <1>25 DEF IInv

\* Connection::disconnect().
LEMMA DisconnectSettles ==
  ASSUME IInv, NEW r \in Regs, Disconnect(r)
  PROVE  IInv'
<1>1. TypeOK /\ ConnOK /\ CurOK /\ SettleOK
  BY DEF IInv
<1>2. /\ ClientTurn /\ conn[r] # None /\ conn[r].self
      /\ LET f == [do |-> "drop", key |-> conn[r].key, id |-> conn[r].id, h |-> r]
         IN  OnStrand(<<f>>, DropEntries(tab, f))
      /\ conn' = [conn EXCEPT ![r].self = FALSE, ![r].id = 0]
      /\ active' = [active EXCEPT ![conn[r].key] = Keep(@, {i \in DOMAIN @ : @[i] # r})]
      /\ phase' = phase /\ cur' = cur /\ served' = served /\ early' = early
      /\ promised' = promised /\ called' = called
  BY DEF Disconnect
<1>3. /\ conn \in [Regs -> Connections \cup {None}] /\ active \in [Keys -> Seq(Regs)]
      /\ tab \in Tables
  BY <1>1 DEF TypeOK
<1>4. PICK k \in Keys, id \in Nat : conn[r].key = k /\ conn[r].id = id
  BY <1>2, <1>3 DEF Connections
<1>5. PICK T \in Tables :
        /\ Leads(tab, todo, T) /\ Settled(T)
        /\ T.mixup => Clash \/ (~Pending /\ Reused(T.nextId))
  BY <1>1 DEF SettleOK
<1>6. PICK f \in Jobs : f = [do |-> "drop", key |-> k, id |-> id, h |-> r]
  BY DEF Jobs
<1>7. f.do = "drop" /\ f.key = k /\ f.id = id /\ f.h = r
  BY <1>6
<1>8. PICK V \in Tables :
        /\ V = Run1(T, f)
        /\ V.list = [T.list EXCEPT ![k] = Keep(T.list[k], Others(T, f))]
        /\ V.nextId = T.nextId
        /\ T.mixup => V.mixup
        /\ V.mixup => T.mixup \/ MixesUp(T, f)
        /\ MixesUp(T, f) => V.mixup
  <2>1. /\ Run1(T, f) = DropEntries(T, f) /\ DropEntries(T, f) \in Tables
        /\ DropEntries(T, f).list =
             [T.list EXCEPT ![f.key] = Keep(T.list[f.key], Others(T, f))]
        /\ DropEntries(T, f).nextId = T.nextId
        /\ T.mixup => DropEntries(T, f).mixup
        /\ DropEntries(T, f).mixup => T.mixup \/ MixesUp(T, f)
        /\ MixesUp(T, f) => DropEntries(T, f).mixup
    BY <1>7, DropTable, Zenon
  <2> QED
    BY <1>7, <2>1
<1>9. OnStrand(<<f>>, Run1(tab, f))
  <2>1. Run1(tab, f) = DropEntries(tab, f)
    BY <1>3, <1>7, DropTable
  <2> QED
    BY <1>2, <1>4, <1>6, <2>1 DEF OnStrand
<1>10. /\ todo' \in Seq(Jobs) /\ tab' \in Tables /\ (tab.mixup => tab'.mixup)
       /\ Leads(tab', todo', V)
       /\ Pending' <=> Pending
       /\ Pending <=> phase = "setup"
       /\ ~Pending => tab = T /\ tab' = V /\ todo' = <<>>
  BY <1>1, <1>2, <1>5, <1>8, <1>9, OneJob
<1> DEFINE c == [conn[r] EXCEPT !.self = FALSE, !.id = 0]
<1>11. c \in Connections /\ ~c.self
  BY <1>2, <1>3 DEF Connections
<1>12. conn' = [conn EXCEPT ![r] = c]
  BY <1>2, <1>3
<1> HIDE DEF c
<1>13. conn'[r] = c /\ \A q \in Regs : q # r => conn'[q] = conn[q]
  BY <1>3, <1>12
<1>14. /\ Connected(r)
       /\ ~Connected(r)' /\ \A q \in Regs : q # r => (Connected(q)' <=> Connected(q))
  BY <1>2, <1>11, <1>13 DEF Connected
<1>15. \A q \in Regs : q # r => (IsEarly(q)' <=> IsEarly(q))
  <2>1. early' = early
    BY <1>2
  <2> QED
    BY <1>13, <2>1 DEF IsEarly
<1> DEFINE a == active[k]
           I == {i \in 1..Len(a) : a[i] # r}
<1>16. a \in Seq(Regs) /\ DOMAIN a = 1..Len(a) /\ Len(a) \in Nat
  <2>1. a \in Seq(Regs)
    BY <1>3
  <2> QED
    BY <2>1, LenProperties
<1>17. active' = [active EXCEPT ![k] = Keep(a, I)]
  BY <1>2, <1>4, <1>16
<1>18. /\ Keep(a, I) \in Seq(Regs)
       /\ \A x : Has(x, Keep(a, I)) <=> \E i \in 1..Len(a) : i \in I /\ a[i] = x
  <2> HIDE DEF a, I
  <2> QED
    BY <1>16, KeepFacts
<1>19. \A x : Has(x, Keep(a, I)) <=> Has(x, a) /\ x # r
  <2>1. ASSUME NEW x PROVE (\E i \in 1..Len(a) : i \in I /\ a[i] = x) <=> Has(x, a) /\ x # r
    BY DEF Has
  <2> HIDE DEF a, I
  <2> QED
    BY <1>18, <2>1
<1>20. /\ active' \in [Keys -> Seq(Regs)] /\ active'[k] = Keep(a, I)
       /\ \A j \in Keys : j # k => active'[j] = active[j]
  <2> HIDE DEF a, I
  <2> QED
    BY <1>3, <1>17, <1>18
<1>21. \A j \in Keys, q \in Regs : Has(q, active[j]) => Connected(q) /\ conn[q].key = j
  BY <1>1 DEF ConnOK
<1>22. \A j \in Keys, q \in Regs : Has(q, active'[j]) <=> Has(q, active[j]) /\ q # r
  <2>1. ASSUME NEW j \in Keys, NEW q \in Regs
        PROVE  Has(q, active'[j]) <=> Has(q, active[j]) /\ q # r
    <3>1. CASE j = k
      BY <1>19, <1>20, <3>1
    <3>2. CASE j # k
      BY <1>4, <1>20, <1>21, <3>2
    <3> QED
      BY <3>1, <3>2
  <2> QED
    BY <2>1
<1> HIDE DEF I
<1>23. TypeOK'
  <2>1. conn' \in [Regs -> Connections \cup {None}]
    BY <1>3, <1>11, <1>12
  <2> QED
    BY <1>1, <1>2, <1>10, <1>20, <2>1 DEF TypeOK
<1> DEFINE es == T.list[k]
           O == Others(T, f)
<1>24. /\ T.list \in [Keys -> Seq(Entries)] /\ es \in Seq(Entries)
       /\ \A i \in 1..Len(es) : es[i] \in Entries /\ HandlersOf(es)[i] = es[i].h
       /\ Len(HandlersOf(es)) = Len(es)
  <2>1. T.list \in [Keys -> Seq(Entries)] /\ es \in Seq(Entries)
    BY DEF Tables
  <2> HIDE DEF es
  <2> QED
    BY <2>1, HandlersFacts
<1>25. V.list[k] = Keep(es, O) /\ \A j \in Keys : j # k => V.list[j] = T.list[j]
  BY <1>8, <1>24
<1>26. \A i : i \in O <=> i \in 1..Len(es) /\ es[i].id # id
  BY <1>7 DEF Others
<1>27. /\ \A i \in 1..Len(es) : Has(es[i].h, a) /\ conn[es[i].h].id = es[i].id
       /\ \A i \in 1..Len(es) : es[i].h \in Regs
  BY <1>5, <1>24 DEF Settled, Entries
<1>28. \A i \in 1..Len(es) : es[i].h = r => es[i].id = id
  BY <1>4, <1>27
<1>29. MixesUp(T, f) <=> \E i \in 1..Len(es) : es[i].id = id /\ es[i].h # r
  BY <1>7 DEF MixesUp
<1> HIDE DEF O
<1>30. /\ Keep(es, O) \in Seq(Entries)
       /\ \A x : Has(x, Keep(es, O)) <=> \E i \in 1..Len(es) : i \in O /\ es[i] = x
  <2> HIDE DEF es
  <2> QED
    BY <1>24, KeepFacts
<1>31. ASSUME NEW j \in Keys, NEW i \in 1..Len(V.list[j])
       PROVE  Has(V.list[j][i].h, active'[j]) /\ conn'[V.list[j][i].h].id = V.list[j][i].id
  <2>1. PICK e : e = V.list[j][i]
    OBVIOUS
  <2>2. e.h \in Regs /\ Has(e.h, active[j]) /\ conn[e.h].id = e.id /\ e.h # r
    <3>1. CASE j = k
      <4>1. Has(e, Keep(es, O))
        BY <1>25, <2>1, <3>1 DEF Has
      <4>2. PICK n \in 1..Len(es) : n \in O /\ es[n] = e
        BY <1>30, <4>1
      <4>3. e.id # id /\ e.h # r
        BY <1>26, <1>28, <4>2
      <4> QED
        BY <1>27, <3>1, <4>2, <4>3
    <3>2. CASE j # k
      <4>1. T.list[j] \in Seq(Entries) /\ e = T.list[j][i] /\ i \in 1..Len(T.list[j])
        BY <1>24, <1>25, <2>1, <3>2
      <4>2. e.h \in Regs
        <5>1. T.list[j][i] \in Entries
          BY <4>1, HandlersFacts
        <5> QED
          BY <4>1, <5>1 DEF Entries
      <4>3. Has(e.h, active[j]) /\ conn[e.h].id = e.id
        BY <1>5, <4>1 DEF Settled
      <4> QED
        BY <1>4, <1>21, <3>2, <4>2, <4>3
    <3> QED
      BY <3>1, <3>2
  <2> QED
    BY <1>13, <1>22, <2>1, <2>2
<1>32. ASSUME ~V.mixup, NEW j \in Keys PROVE HandlersOf(V.list[j]) = active'[j]
  <2>1. HandlersOf(T.list[j]) = active[j]
    BY <1>5, <1>8, <1>32 DEF Settled
  <2>2. CASE j # k
    BY <1>20, <1>25, <2>1, <2>2
  <2>3. CASE j = k
    <3>1. HandlersOf(es) = a /\ Len(es) = Len(a)
      BY <1>24, <2>1, <2>3
    <3>2. \A i : i \in O <=> i \in I
      <4>1. \A i \in 1..Len(es) : a[i] = es[i].h
        BY <1>24, <3>1
      <4>2. \A i \in 1..Len(es) : es[i].id = id => es[i].h = r
        BY <1>8, <1>29, <1>32
      <4>3. \A i : i \in I <=> i \in 1..Len(es) /\ a[i] # r
        BY <3>1 DEF I
      <4> QED
        BY <1>26, <1>28, <4>1, <4>2, <4>3
    <3>3. O = I
      BY <3>2
    <3>4. HandlersOf(Keep(es, O)) = Keep(HandlersOf(es), O)
      <4> HIDE DEF es
      <4> QED
        BY <1>24, KeepHandlers
    <3> QED
      BY <1>20, <1>25, <2>3, <3>1, <3>3, <3>4
  <2> QED
    BY <2>2, <2>3
<1>33. Settled(V)'
  <2>1. V.nextId >= 1
    BY <1>5, <1>8 DEF Settled
  <2>2. ASSUME NEW q \in Regs, Connected(q)', ~IsEarly(q)'
        PROVE  conn'[q].id \in 1..(V.nextId - 1)
    <3>1. q # r /\ Connected(q) /\ ~IsEarly(q) /\ conn'[q] = conn[q]
      BY <1>13, <1>14, <1>15, <2>2
    <3> QED
      BY <1>5, <1>8, <3>1 DEF Settled
  <2> QED
    BY <1>31, <1>32, <2>1, <2>2 DEF Settled
<1>34. ConnOK'
  <2>1. ASSUME NEW j \in Keys, NEW q \in Regs, Has(q, active'[j])
        PROVE  Connected(q)' /\ conn'[q].key = j
    BY <1>13, <1>14, <1>21, <1>22, <2>1
  <2>2. ASSUME NEW q \in Regs, NEW o \in Regs, Connected(q)', ~IsEarly(q)',
               Connected(o)', ~IsEarly(o)', conn'[q].id = conn'[o].id
        PROVE  q = o
    <3>1. Connected(q) /\ ~IsEarly(q) /\ Connected(o) /\ ~IsEarly(o)
          /\ conn[q].id = conn[o].id
      BY <1>13, <1>14, <1>15, <2>2
    <3> QED
      BY <1>1, <3>1 DEF ConnOK
  <2>3. ASSUME Pending', NEW q \in Regs, Connected(q)' PROVE IsEarly(q)'
    <3>1. Pending /\ q # r /\ Connected(q)
      BY <1>10, <1>14, <2>3
    <3>2. IsEarly(q)
      BY <1>1, <3>1 DEF ConnOK
    <3> QED
      BY <1>15, <3>1, <3>2
  <2> QED
    BY <2>1, <2>2, <2>3 DEF ConnOK
\* The registration that goes in r's place has r's id: one of the two is early.
<1>35. MixesUp(T, f) => Clash \/ (~Pending /\ Reused(T.nextId))
  <2>1. SUFFICES ASSUME NEW i \in 1..Len(es), es[i].id = id, es[i].h # r
                 PROVE  Clash \/ (~Pending /\ Reused(T.nextId))
    BY <1>29
  <2>2. PICK o \in Regs : o = es[i].h
    BY <1>27
  <2>3. Connected(o) /\ conn[o].key = k /\ conn[o].id = id /\ o # r
    BY <1>21, <1>27, <2>1, <2>2
  <2>4. CASE IsEarly(o) /\ IsEarly(r)
    <3>1. <<o, k, id>> \in early /\ <<r, k, id>> \in early
      BY <1>4, <2>3, <2>4 DEF IsEarly
    <3> QED
      BY <2>3, <3>1 DEF Clash
  <2>5. CASE IsEarly(o) /\ ~IsEarly(r)
    <3>1. <<o, k, id>> \in early
      BY <2>3, <2>5 DEF IsEarly
    <3>2. id \in 1..(T.nextId - 1)
      BY <1>4, <1>5, <1>14, <2>5 DEF Settled
    <3>3. ~Pending
      BY <1>1, <1>14, <2>5 DEF ConnOK
    <3> QED
      BY <3>1, <3>2, <3>3 DEF Reused
  <2>6. CASE ~IsEarly(o) /\ IsEarly(r)
    <3>1. <<r, k, id>> \in early
      BY <1>4, <2>6 DEF IsEarly
    <3>2. id \in 1..(T.nextId - 1)
      BY <1>5, <2>3, <2>6 DEF Settled
    <3>3. ~Pending
      BY <1>1, <2>3, <2>6 DEF ConnOK
    <3> QED
      BY <3>1, <3>2, <3>3 DEF Reused
  <2>7. CASE ~IsEarly(o) /\ ~IsEarly(r)
    BY <1>1, <1>4, <1>14, <2>3, <2>7 DEF ConnOK
  <2> QED
    BY <2>4, <2>5, <2>6, <2>7
<1>36. SettleOK'
  <2>1. Clash => Clash'
    BY <1>2 DEF Clash
  <2>2. Reused(T.nextId) => Reused(V.nextId)'
    BY <1>2, <1>8 DEF Reused
  <2>3. V.mixup => Clash' \/ (~Pending' /\ Reused(V.nextId)')
    BY <1>5, <1>8, <1>10, <1>35, <2>1, <2>2
  <2> QED
    BY <1>10, <1>33, <2>3 DEF SettleOK
<1>37. CurOK'
  <2>1. cur # None => ~Pending /\ todo' = <<>>
    BY <1>1, <1>10 DEF CurOK, Pending
  <2> QED
    BY <1>1, <1>2, <1>10, <2>1 DEF CurOK
<1> QED
  BY <1>23, <1>34, <1>36, <1>37 DEF IInv

\* unregisterAll() and clearAnyPost().
LEMMA UnregisterSettles ==
  ASSUME IInv, NEW k \in Keys, UnregisterAll(k)
  PROVE  IInv'
<1>1. TypeOK /\ ConnOK /\ CurOK /\ SettleOK
  BY DEF IInv
<1>2. /\ ClientTurn
      /\ LET f == [do |-> "clear", key |-> k] IN OnStrand(<<f>>, ClearList(tab, f))
      /\ active' = [active EXCEPT ![k] = <<>>]
      /\ phase' = phase /\ conn' = conn /\ cur' = cur /\ served' = served
      /\ early' = early /\ promised' = promised /\ called' = called
  BY DEF UnregisterAll
<1>3. active \in [Keys -> Seq(Regs)] /\ tab \in Tables
  BY <1>1 DEF TypeOK
<1>4. PICK T \in Tables :
        /\ Leads(tab, todo, T) /\ Settled(T)
        /\ T.mixup => Clash \/ (~Pending /\ Reused(T.nextId))
  BY <1>1 DEF SettleOK
<1>5. PICK f \in Jobs : f = [do |-> "clear", key |-> k]
  BY DEF Jobs
<1>6. f.do = "clear" /\ f.key = k
  BY <1>5
<1>7. PICK V \in Tables :
        /\ V = Run1(T, f) /\ V.list = [T.list EXCEPT ![k] = <<>>]
        /\ V.nextId = T.nextId /\ V.mixup = T.mixup
  BY <1>6, ClearTable
<1>8. OnStrand(<<f>>, Run1(tab, f))
  <2>1. Run1(tab, f) = ClearList(tab, f)
    BY <1>3, <1>6, ClearTable
  <2> QED
    BY <1>2, <1>5, <2>1 DEF OnStrand
<1>9. /\ todo' \in Seq(Jobs) /\ tab' \in Tables /\ (tab.mixup => tab'.mixup)
      /\ Leads(tab', todo', V)
      /\ Pending' <=> Pending
      /\ Pending <=> phase = "setup"
      /\ ~Pending => tab = T /\ tab' = V /\ todo' = <<>>
  BY <1>1, <1>2, <1>4, <1>7, <1>8, OneJob
<1>10. <<>> \in Seq(Regs) /\ <<>> \in Seq(Entries) /\ Len(<<>>) = 0
  BY EmptySeq
<1>11. /\ active' \in [Keys -> Seq(Regs)] /\ active'[k] = <<>>
       /\ \A j \in Keys : j # k => active'[j] = active[j]
  BY <1>2, <1>3, <1>10
<1>12. V.list[k] = <<>> /\ \A j \in Keys : j # k => V.list[j] = T.list[j]
  BY <1>7 DEF Tables
<1>13. \A j \in Keys, q \in Regs : Has(q, active'[j]) => j # k /\ Has(q, active[j])
  BY <1>10, <1>11 DEF Has
<1>14. \A q \in Regs : (Connected(q)' <=> Connected(q)) /\ (IsEarly(q)' <=> IsEarly(q))
  BY <1>2 DEF Connected, IsEarly
<1>15. TypeOK'
  BY <1>1, <1>2, <1>9, <1>11 DEF TypeOK
<1>16. Settled(V)'
  <2>1. HandlersOf(<<>>) = <<>>
    <3>1. HandlersOf(<<>>) \in Seq(Regs) /\ Len(HandlersOf(<<>>)) = 0
      BY <1>10, HandlersFacts
    <3> QED
      BY <3>1, EmptySeq
  <2>2. ASSUME ~V.mixup, NEW j \in Keys PROVE HandlersOf(V.list[j]) = active'[j]
    <3>1. HandlersOf(T.list[j]) = active[j]
      BY <1>4, <1>7, <2>2 DEF Settled
    <3> QED
      BY <1>11, <1>12, <2>1, <3>1
  <2>3. ASSUME NEW j \in Keys, NEW i \in 1..Len(V.list[j])
        PROVE  Has(V.list[j][i].h, active'[j]) /\ conn'[V.list[j][i].h].id = V.list[j][i].id
    <3>1. j # k
      BY <1>10, <1>12, <2>3
    <3>2. V.list[j] = T.list[j] /\ active'[j] = active[j]
      BY <1>11, <1>12, <3>1
    <3>3. Has(T.list[j][i].h, active[j]) /\ conn[T.list[j][i].h].id = T.list[j][i].id
      BY <1>4, <2>3, <3>2 DEF Settled
    <3> QED
      BY <1>2, <3>2, <3>3
  <2>4. V.nextId >= 1
    BY <1>4, <1>7 DEF Settled
  <2>5. ASSUME NEW q \in Regs, Connected(q)', ~IsEarly(q)'
        PROVE  conn'[q].id \in 1..(V.nextId - 1)
    BY <1>2, <1>4, <1>7, <1>14, <2>5 DEF Settled
  <2> QED
    BY <2>2, <2>3, <2>4, <2>5 DEF Settled
<1>17. ConnOK'
  <2>1. ASSUME NEW j \in Keys, NEW q \in Regs, Has(q, active'[j])
        PROVE  Connected(q)' /\ conn'[q].key = j
    BY <1>1, <1>2, <1>13, <1>14, <2>1 DEF ConnOK
  <2>2. ASSUME NEW q \in Regs, NEW o \in Regs, Connected(q)', ~IsEarly(q)',
               Connected(o)', ~IsEarly(o)', conn'[q].id = conn'[o].id
        PROVE  q = o
    BY <1>1, <1>2, <1>14, <2>2 DEF ConnOK
  <2>3. ASSUME Pending', NEW q \in Regs, Connected(q)' PROVE IsEarly(q)'
    BY <1>1, <1>9, <1>14, <2>3 DEF ConnOK
  <2> QED
    BY <2>1, <2>2, <2>3 DEF ConnOK
<1>18. SettleOK'
  <2>1. (Clash => Clash') /\ (Reused(T.nextId) => Reused(V.nextId)')
    BY <1>2, <1>7 DEF Clash, Reused
  <2>2. V.mixup => Clash' \/ (~Pending' /\ Reused(V.nextId)')
    BY <1>4, <1>7, <1>9, <2>1
  <2> QED
    BY <1>9, <1>16, <2>2 DEF SettleOK
<1>19. CurOK'
  <2>1. cur # None => ~Pending /\ todo' = <<>>
    BY <1>1, <1>9 DEF CurOK, Pending
  <2> QED
    BY <1>1, <1>2, <1>9, <2>1 DEF CurOK
<1> QED
  BY <1>15, <1>17, <1>18, <1>19 DEF IInv

-----------------------------------------------------------------------------
(* run() and dispatch().                                                   *)

\* What is left of the invariant to show when the tables are left alone.
LEMMA SameTable ==
  ASSUME ConnOK, SettleOK, tab' = tab, todo' = todo, conn' = conn, active' = active,
         early' = early, Pending' => Pending, Pending /\ ~Pending' => todo = <<>>
  PROVE  ConnOK' /\ SettleOK'
<1>1. \A r \in Regs : (Connected(r)' <=> Connected(r)) /\ (IsEarly(r)' <=> IsEarly(r))
  BY DEF Connected, IsEarly
<1>2. ConnOK'
  BY <1>1 DEF ConnOK
<1>3. PICK T \in Tables :
        /\ Leads(tab, todo, T) /\ Settled(T)
        /\ T.mixup => Clash \/ (~Pending /\ Reused(T.nextId))
  BY DEF SettleOK
<1>4. Leads(tab', todo', T)
  BY <1>3
<1>5. Settled(T)'
  BY <1>1, <1>3 DEF Settled
<1>6. T.mixup => Clash' \/ (~Pending' /\ Reused(T.nextId)')
  BY <1>3 DEF Clash, Reused
<1>7. SettleOK'
  BY <1>4, <1>5, <1>6 DEF SettleOK
<1> QED
  BY <1>2, <1>7

\* A table at rest is settled.
LEMMA AtRest ==
  ASSUME TypeOK, SettleOK, todo = <<>>
  PROVE  Settled(tab)
<1>1. PICK T \in Tables : Leads(tab, todo, T) /\ Settled(T)
  BY DEF SettleOK
<1>2. tab \in Tables
  BY DEF TypeOK
<1>3. T = tab
  BY <1>1, <1>2, LeadsNone
<1> QED
  BY <1>1, <1>3

LEMMA RunSettles ==
  ASSUME IInv, Run
  PROVE  IInv'
<1>1. TypeOK /\ ConnOK /\ CurOK /\ SettleOK
  BY DEF IInv
<1>2. /\ conn' = conn /\ cur' = cur /\ served' = served /\ active' = active
      /\ early' = early /\ promised' = promised /\ called' = called
  BY DEF Run
<1>3. CASE phase = "setup" /\ phase' = "running" /\ todo' = todo /\ tab' = tab
  <2>1. cur = None
    BY <1>1, <1>3 DEF CurOK
  <2>2. TypeOK'
    BY <1>1, <1>2, <1>3 DEF TypeOK
  <2>3. CurOK'
    BY <1>2, <2>1 DEF CurOK
  <2>4. Pending /\ (~Pending' => todo = <<>>)
    BY <1>3 DEF Pending
  <2>5. ConnOK' /\ SettleOK'
    BY <1>1, <1>2, <1>3, <2>4, SameTable
  <2> QED
    BY <2>2, <2>3, <2>5 DEF IInv
<1>4. CASE /\ phase = "running" /\ todo # <<>> /\ phase' = phase
           /\ tab' = Run1(tab, Head(todo)) /\ todo' = Tail(todo)
  <2>1. todo \in Seq(Jobs) /\ tab \in Tables
    BY <1>1 DEF TypeOK
  <2>2. Head(todo) \in Jobs /\ Tail(todo) \in Seq(Jobs)
    BY <1>4, <2>1, HeadTailProperties
  <2>3. tab' \in Tables
    BY <1>4, <2>1, <2>2, RunTable
  <2>4. TypeOK'
    BY <1>1, <1>2, <1>4, <2>2, <2>3 DEF TypeOK
  <2>5. cur = None
    BY <1>1, <1>4 DEF CurOK
  <2>6. CurOK'
    BY <1>2, <2>5 DEF CurOK
  <2>7. Pending
    BY <1>4 DEF Pending
  <2>8. \A r \in Regs : (Connected(r)' <=> Connected(r)) /\ (IsEarly(r)' <=> IsEarly(r))
    BY <1>2 DEF Connected, IsEarly
  <2>9. ConnOK'
    BY <1>1, <1>2, <2>7, <2>8 DEF ConnOK
  <2>10. PICK T \in Tables :
           Leads(tab, todo, T) /\ Settled(T) /\ (T.mixup => Clash)
    BY <1>1, <2>7 DEF SettleOK
  <2>11. Leads(tab', todo', T)
    BY <1>4, <2>1, <2>10, LeadsOn
  <2>12. Settled(T)' /\ (Clash => Clash')
    BY <1>2, <2>8, <2>10 DEF Settled, Clash
  <2>13. SettleOK'
    BY <2>10, <2>11, <2>12 DEF SettleOK
  <2> QED
    BY <2>4, <2>6, <2>9, <2>13 DEF IInv
<1> QED
  BY <1>3, <1>4 DEF Run

LEMMA DispatchSettles ==
  ASSUME IInv, NEW cname \in Names \cup {NoName}, NEW toMe \in BOOLEAN,
         Dispatch(cname, toMe)
  PROVE  IInv'
<1>1. TypeOK /\ ConnOK /\ CurOK /\ SettleOK
  BY DEF IInv
<1>2. /\ phase = "running" /\ todo = <<>> /\ cur = None /\ served < MaxMsgs
      /\ served' = served + 1
      /\ todo' = todo /\ tab' = tab /\ conn' = conn /\ active' = active /\ early' = early
  BY DEF Dispatch
<1>3. phase' \in {"running", "ended"} /\ served' \in 0..MaxMsgs
  BY <1>1, <1>2, DispatcherAssumption DEF Dispatch, TypeOK
<1>4. ConnOK' /\ SettleOK'
  <2>1. ~Pending /\ ~Pending'
    BY <1>2, <1>3 DEF Pending
  <2> QED
    BY <1>1, <1>2, <2>1, SameTable
<1>5. CASE cname = NoName /\ phase' = "ended" /\ cur' = cur /\ promised' = promised /\ called' = called
  <2>1. TypeOK'
    BY <1>1, <1>2, <1>3, <1>5 DEF TypeOK
  <2>2. CurOK'
    BY <1>2, <1>5 DEF CurOK
  <2> QED
    BY <1>4, <2>1, <2>2 DEF IInv
<1>6. CASE /\ cname # NoName
           /\ cur' = [msg |-> cname, post |-> FALSE, exec |-> None,
                      rest |-> IF toMe THEN HandlersOf(tab.list[cname]) ELSE <<>>]
           /\ promised' = IF toMe THEN active[cname] ELSE <<>>
           /\ called' = <<>> /\ phase' = phase
  <2> DEFINE rest == IF toMe THEN HandlersOf(tab.list[cname]) ELSE <<>>
  <2>1. cname \in Names /\ cname \in Keys
    BY <1>6 DEF Keys
  <2>2. tab.list[cname] \in Seq(Entries) /\ active[cname] \in Seq(Regs)
    BY <1>1, <2>1 DEF TypeOK, Tables
  <2>3. HandlersOf(tab.list[cname]) \in Seq(Regs) /\ <<>> \in Seq(Regs)
    BY <2>2, HandlersFacts, EmptySeq
  <2>4. rest \in Seq(Regs) /\ promised' \in Seq(Regs) /\ called' \in Seq(Regs)
    BY <1>6, <2>2, <2>3
  <2>5. Settled(tab)
    BY <1>1, <1>2, AtRest
  <2>6. ~tab.mixup => rest = promised'
    BY <1>6, <2>1, <2>5 DEF Settled
  <2>7. cur' = [msg |-> cname, post |-> FALSE, exec |-> None, rest |-> rest]
    BY <1>6
  <2> HIDE DEF rest
  <2>8. cur' \in Dispatches /\ cur'.rest = rest
    BY <2>1, <2>4, <2>7 DEF Dispatches
  <2>9. TypeOK'
    BY <1>1, <1>2, <1>3, <2>4, <2>8 DEF TypeOK
  <2>10. <<>> \o rest = rest
    BY <2>4, ConcatEmptySeq
  <2>11. CurOK'
    BY <1>2, <1>6, <2>6, <2>8, <2>10 DEF CurOK
  <2> QED
    BY <1>4, <2>9, <2>11 DEF IInv
<1> QED
  BY <1>5, <1>6 DEF Dispatch

LEMMA CallSettles ==
  ASSUME IInv, Call
  PROVE  IInv'
<1>1. TypeOK /\ ConnOK /\ CurOK /\ SettleOK
  BY DEF IInv
<1>2. /\ cur # None /\ cur.rest # <<>>
      /\ cur' = [cur EXCEPT !.exec = Head(cur.rest), !.rest = Tail(@)]
      /\ called' = Append(called, Head(cur.rest))
      /\ phase' = phase /\ todo' = todo /\ tab' = tab /\ conn' = conn /\ served' = served
      /\ active' = active /\ early' = early /\ promised' = promised
  BY DEF Call
<1>3. cur \in Dispatches /\ cur.rest \in Seq(Regs) /\ called \in Seq(Regs)
  BY <1>1, <1>2 DEF TypeOK, Dispatches
<1>4. Head(cur.rest) \in Regs /\ Tail(cur.rest) \in Seq(Regs)
  BY <1>2, <1>3, HeadTailProperties
<1>5. Append(called, Head(cur.rest)) \in Seq(Regs)
  BY <1>3, <1>4, AppendProperties
<1>6. cur' \in Dispatches /\ cur'.rest = Tail(cur.rest)
  BY <1>2, <1>3, <1>4 DEF Dispatches
<1>7. TypeOK'
  BY <1>1, <1>2, <1>5, <1>6 DEF TypeOK
<1>8. ConnOK' /\ SettleOK'
  <2>1. Pending' <=> Pending
    BY <1>2 DEF Pending
  <2> QED
    BY <1>1, <1>2, <2>1, SameTable
<1>9. Append(called, Head(cur.rest)) \o Tail(cur.rest) = called \o cur.rest
  <2>1. PICK x \in Regs, t \in Seq(Regs), c \in Seq(Regs) :
          x = Head(cur.rest) /\ t = Tail(cur.rest) /\ c = called
    BY <1>3, <1>4
  <2>2. <<x>> \in Seq(Regs)
    OBVIOUS
  <2>3. Append(c, x) = c \o <<x>>
    BY AppendIsConcat
  <2>4. (c \o <<x>>) \o t = c \o (<<x>> \o t)
    BY <2>2, ConcatAssociative
  <2>5. cur.rest = <<x>> \o t
    <3>1. /\ <<x>> \o t \in Seq(Regs) /\ Len(<<x>> \o t) = Len(t) + 1
          /\ Len(t) \in Nat /\ (<<x>> \o t)[1] = x
          /\ \A i \in 1..Len(t) : (<<x>> \o t)[i + 1] = t[i]
      OBVIOUS
    <3>2. /\ Len(cur.rest) = Len(t) + 1 /\ cur.rest[1] = x
          /\ \A i \in 1..Len(t) : cur.rest[i + 1] = t[i]
      BY <1>2, <1>3, <2>1, HeadTailProperties
    <3>3. \A i \in 1..(Len(t) + 1) : i = 1 \/ (i - 1 \in 1..Len(t) /\ (i - 1) + 1 = i)
      BY <3>1
    <3>4. \A i \in 1..(Len(t) + 1) : cur.rest[i] = (<<x>> \o t)[i]
      BY <3>1, <3>2, <3>3
    <3> QED
      BY <1>3, <3>1, <3>2, <3>4, SeqEqual
  <2> QED
    BY <2>1, <2>3, <2>4, <2>5
<1>10. CurOK'
  BY <1>1, <1>2, <1>6, <1>9 DEF CurOK
<1> QED
  BY <1>7, <1>8, <1>10 DEF IInv

LEMMA ReturnSettles ==
  ASSUME IInv, Return
  PROVE  IInv'
<1>1. TypeOK /\ ConnOK /\ CurOK /\ SettleOK
  BY DEF IInv
<1>2. /\ cur # None /\ cur' = [cur EXCEPT !.exec = None]
      /\ phase' = phase /\ todo' = todo /\ tab' = tab /\ conn' = conn /\ served' = served
      /\ active' = active /\ early' = early /\ promised' = promised /\ called' = called
  BY DEF Return
<1>3. cur' \in Dispatches /\ cur'.rest = cur.rest
  BY <1>1, <1>2 DEF TypeOK, Dispatches
<1>4. TypeOK'
  BY <1>1, <1>2, <1>3 DEF TypeOK
<1>5. ConnOK' /\ SettleOK'
  <2>1. Pending' <=> Pending
    BY <1>2 DEF Pending
  <2> QED
    BY <1>1, <1>2, <2>1, SameTable
<1>6. CurOK'
  BY <1>1, <1>2, <1>3 DEF CurOK
<1> QED
  BY <1>4, <1>5, <1>6 DEF IInv

LEMMA AnyPostSettles ==
  ASSUME IInv, AnyPost
  PROVE  IInv'
<1>1. TypeOK /\ ConnOK /\ CurOK /\ SettleOK
  BY DEF IInv
<1>2. /\ cur # None /\ cur.rest = <<>>
      /\ cur' = [cur EXCEPT !.post = TRUE, !.rest = HandlersOf(tab.list[Post])]
      /\ promised' = promised \o active[Post]
      /\ phase' = phase /\ todo' = todo /\ tab' = tab /\ conn' = conn /\ served' = served
      /\ active' = active /\ early' = early /\ called' = called
  BY DEF AnyPost
<1>3. Post \in Keys
  BY DEF Keys
<1>4. /\ tab.list[Post] \in Seq(Entries) /\ active[Post] \in Seq(Regs)
      /\ promised \in Seq(Regs) /\ called \in Seq(Regs)
  BY <1>1, <1>3 DEF TypeOK, Tables
<1>5. HandlersOf(tab.list[Post]) \in Seq(Regs)
  BY <1>4, HandlersFacts
<1>6. promised \o active[Post] \in Seq(Regs)
  BY <1>4, ConcatProperties
<1>7. cur' \in Dispatches /\ cur'.rest = HandlersOf(tab.list[Post])
  BY <1>1, <1>2, <1>5 DEF TypeOK, Dispatches
<1>8. TypeOK'
  BY <1>1, <1>2, <1>6, <1>7 DEF TypeOK
<1>9. ConnOK' /\ SettleOK'
  <2>1. Pending' <=> Pending
    BY <1>2 DEF Pending
  <2> QED
    BY <1>1, <1>2, <2>1, SameTable
<1>10. phase = "running" /\ todo = <<>> /\ (~tab.mixup => called \o cur.rest = promised)
  BY <1>1, <1>2 DEF CurOK
<1>11. Settled(tab)
  BY <1>1, <1>10, AtRest
<1>12. called \o <<>> = called
  BY <1>4, ConcatEmptySeq
<1>13. ~tab.mixup => called \o HandlersOf(tab.list[Post]) = promised \o active[Post]
  BY <1>2, <1>3, <1>10, <1>11, <1>12 DEF Settled
<1>14. CurOK'
  BY <1>2, <1>7, <1>10, <1>13 DEF CurOK
<1> QED
  BY <1>8, <1>9, <1>14 DEF IInv

LEMMA EndSettles ==
  ASSUME IInv, End
  PROVE  IInv'
<1>1. TypeOK /\ ConnOK /\ CurOK /\ SettleOK
  BY DEF IInv
<1>2. /\ cur' = None
      /\ phase' = phase /\ todo' = todo /\ tab' = tab /\ conn' = conn /\ served' = served
      /\ active' = active /\ early' = early /\ promised' = promised /\ called' = called
  BY DEF End
<1>3. TypeOK' /\ CurOK'
  BY <1>1, <1>2 DEF TypeOK, CurOK
<1>4. ConnOK' /\ SettleOK'
  <2>1. Pending' <=> Pending
    BY <1>2 DEF Pending
  <2> QED
    BY <1>1, <1>2, <2>1, SameTable
<1> QED
  BY <1>3, <1>4 DEF IInv

LEMMA StutterSettles ==
  ASSUME IInv, UNCHANGED vars
  PROVE  IInv'
<1>1. TypeOK /\ ConnOK /\ CurOK /\ SettleOK
  BY DEF IInv
<1>2. /\ phase' = phase /\ todo' = todo /\ tab' = tab /\ conn' = conn /\ cur' = cur
      /\ served' = served /\ active' = active /\ early' = early
      /\ promised' = promised /\ called' = called
  BY DEF vars
<1>3. TypeOK' /\ CurOK'
  BY <1>1, <1>2 DEF TypeOK, CurOK
<1>4. ConnOK' /\ SettleOK'
  <2>1. Pending' <=> Pending
    BY <1>2 DEF Pending
  <2> QED
    BY <1>1, <1>2, <2>1, SameTable
<1> QED
  BY <1>3, <1>4 DEF IInv

-----------------------------------------------------------------------------
(* The theorems.                                                           *)

\* MsgDispatcher keeps its books: the table, once the strand has run what it was
\* given, lists the registrations in force under the ids of their connections, and
\* all of them in the order they were made unless an uninitialised id mixed two up.
THEOREM DispatcherInvariant == Spec => []IInv
<1>1. IInv /\ [Next]_vars => IInv'
  <2> SUFFICES ASSUME IInv, [Next]_vars PROVE IInv'
    OBVIOUS
  <2>1. ASSUME NEW r \in Regs, Disconnect(r) PROVE IInv'
    BY <2>1, DisconnectSettles
  <2>2. ASSUME NEW r \in Regs, NEW k \in Keys, Register(r, k) PROVE IInv'
    BY <2>2, RegisterSettles
  <2>3. ASSUME NEW k \in Keys, UnregisterAll(k) PROVE IInv'
    BY <2>3, UnregisterSettles
  <2>4. ASSUME NEW cname \in Names \cup {NoName}, NEW toMe \in BOOLEAN,
               Dispatch(cname, toMe)
        PROVE  IInv'
    BY <2>4, DispatchSettles
  <2>5. CASE Run
    BY <2>5, RunSettles
  <2>6. CASE Call
    BY <2>6, CallSettles
  <2>7. CASE Return
    BY <2>7, ReturnSettles
  <2>8. CASE AnyPost
    BY <2>8, AnyPostSettles
  <2>9. CASE End
    BY <2>9, EndSettles
  <2>10. CASE UNCHANGED vars
    BY <2>10, StutterSettles
  <2> QED
    BY <2>1, <2>2, <2>3, <2>4, <2>5, <2>6, <2>7, <2>8, <2>9, <2>10 DEF Next
<1> QED
  BY <1>1, StartsSettled, PTL DEF Spec

\* The state of MsgDispatcher keeps its shape: the functions queued on the strand,
\* the lists of handlers, the connections and the message being dispatched.
THEOREM DispatcherTypeOK == Spec => []TypeOK
<1>1. IInv => TypeOK
  BY DEF IInv
<1> QED
  BY <1>1, DispatcherInvariant, PTL

\* Whatever the handlers of a message register or disconnect while it is being
\* dispatched, dispatch() calls exactly those that were in force when it took the
\* list, in the order of registration, and then the any-post handlers.
THEOREM DispatcherCallsAsPromised == Spec => []CallsAsPromised
<1>1. IInv => CallsAsPromised
  <2> SUFFICES ASSUME IInv, Done, ~tab.mixup PROVE called = promised
    BY DEF CallsAsPromised
  <2>1. cur # None /\ cur.rest = <<>>
    BY DEF Done
  <2>2. called \o cur.rest = promised /\ called \in Seq(Regs)
    BY <2>1 DEF IInv, CurOK, TypeOK
  <2> QED
    BY <2>1, <2>2, ConcatEmptySeq
<1> QED
  BY <1>1, DispatcherInvariant, PTL

\* A handler that was disconnected, or cleared with its list, is in no list once
\* the strand is idle, even when its id was never initialised.
THEOREM DispatcherDisconnectedIsGone == Spec => []DisconnectedIsGone
<1>1. IInv => DisconnectedIsGone
  <2> SUFFICES ASSUME IInv, todo = <<>>, NEW k \in Keys
               PROVE  Range(HandlersOf(tab.list[k])) \subseteq Range(active[k])
    BY DEF DisconnectedIsGone
  <2>1. Settled(tab) /\ tab.list[k] \in Seq(Entries) /\ active[k] \in Seq(Regs)
    BY AtRest DEF IInv, TypeOK, Tables
  <2> DEFINE es == tab.list[k]
             hs == HandlersOf(es)
             a == active[k]
  <2>2. /\ hs \in Seq(Regs) /\ Len(hs) = Len(es)
        /\ \A i \in 1..Len(es) : hs[i] = es[i].h
    BY <2>1, HandlersFacts
  <2>3. \A i \in 1..Len(es) : Has(es[i].h, a)
    BY <2>1 DEF Settled
  <2> HIDE DEF hs, a
  <2>4. DOMAIN hs = 1..Len(es) /\ DOMAIN a = 1..Len(a)
    BY <2>1, <2>2, LenProperties DEF a
  <2>5. \A i \in DOMAIN hs : \E n \in DOMAIN a : a[n] = hs[i]
    BY <2>2, <2>3, <2>4 DEF Has
  <2>6. Range(hs) \subseteq Range(a)
    BY <2>5 DEF Range
  <2> QED
    BY <2>6 DEF hs, a
<1> QED
  BY <1>1, DispatcherInvariant, PTL

\* Connection::disconnect() takes away another registration only through an id
\* that nextIdOnStrand() left uninitialised before run(): two such ids in one list
\* are the same, or one of them has been given out again since.
THEOREM DispatcherMixupNeedsGarbage == Spec => []MixupNeedsGarbage
<1>1. IInv => MixupNeedsGarbage
  <2> SUFFICES ASSUME IInv, tab.mixup
               PROVE  \E e \in early :
                        \/ e[3] \in 1..(tab.nextId - 1)
                        \/ \E o \in early : o[1] # e[1] /\ o[2] = e[2] /\ o[3] = e[3]
    BY DEF MixupNeedsGarbage
  <2>1. PICK T \in Tables :
          /\ Leads(tab, todo, T)
          /\ T.mixup => Clash \/ (~Pending /\ Reused(T.nextId))
    BY DEF IInv, SettleOK
  <2>2. todo \in Seq(Jobs) /\ tab \in Tables
    BY DEF IInv, TypeOK
  <2>3. T.mixup
    BY <2>1, <2>2, LeadsMixup
  <2>4. CASE Clash
    BY <2>4 DEF Clash
  <2>5. CASE ~Pending /\ Reused(T.nextId)
    <3>1. T = tab
      BY <2>1, <2>2, <2>5, LeadsNone DEF Pending
    <3> QED
      BY <2>5, <3>1 DEF Reused
  <2> QED
    BY <2>1, <2>3, <2>4, <2>5
<1> QED
  BY <1>1, DispatcherInvariant, PTL
=============================================================================
