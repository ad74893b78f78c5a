---------------------------- MODULE RoutingProofs ----------------------------
(***************************************************************************)
(* The safety properties of Routing, for any nodes, applications, pings    *)
(* and serials: who gets a ping, who gets the answers and how often.       *)
(*                                                                         *)
(* Nothing in the model lets two pings meet, so the invariant is stated,   *)
(* and shown to be kept, for one ping at a time.                           *)
(***************************************************************************)
EXTENDS Routing, Integers, FiniteSetTheorems, TLAPS

-----------------------------------------------------------------------------
(* The inductive invariant.                                                *)

Blank == [a |-> "", n |-> ""]

\* The destination in the header of ping i, and in those of its answers.
Header(i) == SetDest(asked[i][1], Blank, asked[i][2])
Back(i) == [a |-> asked[i][1][2], n |-> asked[i][1][1]]

\* The text of a body with serial n, and what usender reads in it.
Encoded(n) == [form |-> "raw", json |-> 1, serial |-> n]
Reported(n) == IF n <= UIntMax THEN n ELSE 0

\* A message of ping i that is queued somewhere: what it says is what was sent, and
\* it is where its destination sends it, after one hop at most unless that is "*".
PingOf(i, m) ==
  /\ m.cname = "ping" /\ m.from = asked[i][1] /\ m.to = Header(i)
PongOf(i, m) ==
  /\ m.cname = "pong" /\ m.to = Back(i)
  /\ m.from \in Addressees(asked[i][1], asked[i][2]) /\ m.from[2] \in Echo
  /\ Count(m.from, i, "ping") = 1
OnItsWay(m) ==
  /\ m.at \in Running => m.at[1] = m.to.n /\ m.to.a \in {m.at[2], "*"}
  /\ m.to.n # "*" =>
       \/ m.at[1] = m.from[1] /\ m.hops = 0
       \/ m.at[1] # m.from[1] /\ m.at[1] = m.to.n /\ m.hops = 1

Queued(i) == {m \in BagToSet(wire) : m.id = i}

QueuedOK(i) ==
  \A m \in Queued(i) :
    /\ asked[i] # Unsent
    /\ m.body = Encoded(asked[i][3])
    /\ PingOf(i, m) \/ PongOf(i, m)
    /\ OnItsWay(m)

\* Except for "*", no message is there twice; a ping is at one userver and nowhere
\* else, or with applications that have not seen it; an answer is at one place.
OnceOK(i) ==
  \A m \in Queued(i) : m.to.n # "*" =>
    /\ wire[m] = 1
    /\ m.cname = "ping" /\ m.at \notin Running =>
         /\ Queued(i) = {m}
         /\ \A q \in Running : Count(q, i, "ping") = 0
    /\ m.cname = "ping" /\ m.at \in Running => Count(m.at, i, "ping") = 0
    /\ m.cname = "pong" =>
         \A o \in Queued(i) : o.cname = "pong" /\ o.from = m.from => o = m

\* The applications whose answer to ping i is on its way, or has come back.
Answering(i) == {r \in Running : \E m \in Queued(i) : m.cname = "pong" /\ m.from = r}
Answered(i) ==
  {r \in Running :
     r[2] \in Echo /\ Count(r, i, "ping") = 1 /\ r \notin Answering(i)}

CountOK(i) ==
  /\ \A q \in Running :
       /\ Count(q, i, "ping") \in {0, 1}
       /\ Count(q, i, "ping") = 1 => /\ asked[i] # Unsent
                                     /\ q \in Addressees(asked[i][1], asked[i][2])
       /\ Count(q, i, "pong") # 0 => asked[i] # Unsent /\ q = asked[i][1]
  /\ asked[i] # Unsent => Count(asked[i][1], i, "pong") = Cardinality(Answered(i))

IdOK(i) == QueuedOK(i) /\ OnceOK(i) /\ CountOK(i)

PrintedOK ==
  \A r \in printed : asked[r[1]] # Unsent /\ r[2] = Reported(asked[r[1]][3])

IInv == TypeOK /\ PrintedOK /\ \A i \in Ids : IdOK(i)

-----------------------------------------------------------------------------
(* Bags.                                                                   *)

LEMMA AddToBag ==
  ASSUME NEW B, IsABag(B), NEW S
  PROVE  /\ IsABag(B (+) SetToBag(S))
         /\ \A x : x \in DOMAIN (B (+) SetToBag(S)) <=> x \in DOMAIN B \/ x \in S
         /\ \A x \in DOMAIN B : x \notin S => (B (+) SetToBag(S))[x] = B[x]
         /\ \A x \in S : x \notin DOMAIN B => (B (+) SetToBag(S))[x] = 1
         /\ \A x \in S : x \in DOMAIN B => (B (+) SetToBag(S))[x] = B[x] + 1
<1> DEFINE C == B (+) SetToBag(S)
<1>1. DOMAIN C = DOMAIN B \cup S
  BY DEF SetToBag, (+)
<1>2. \A x \in DOMAIN B : B[x] \in Nat /\ B[x] > 0
  BY DEF IsABag
<1>3. /\ \A x \in DOMAIN B : x \notin S => C[x] = B[x]
      /\ \A x \in S : x \notin DOMAIN B => C[x] = 1
      /\ \A x \in S : x \in DOMAIN B => C[x] = B[x] + 1
  BY <1>2 DEF SetToBag, (+)
<1>4. C = [x \in DOMAIN C |-> C[x]]
  BY DEF (+)
<1> HIDE DEF C
<1>5. \A x \in DOMAIN C : C[x] \in Nat /\ C[x] > 0
  BY <1>1, <1>2, <1>3
<1>6. IsABag(C)
  BY <1>4, <1>5 DEF IsABag
<1> QED
  BY <1>1, <1>3, <1>6 DEF C

LEMMA TakeFromBag ==
  ASSUME NEW B, IsABag(B), NEW m \in DOMAIN B
  PROVE  /\ IsABag(B (-) SetToBag({m}))
         /\ \A x : x # m => (x \in DOMAIN (B (-) SetToBag({m})) <=> x \in DOMAIN B)
         /\ \A x \in DOMAIN B : x # m => (B (-) SetToBag({m}))[x] = B[x]
         /\ m \in DOMAIN (B (-) SetToBag({m})) => B[m] # 1
<1> DEFINE C == B (-) SetToBag({m})
           A == [e \in DOMAIN B |-> IF e \in DOMAIN SetToBag({m})
                                      THEN B[e] - SetToBag({m})[e] ELSE B[e]]
<1>1. \A x \in DOMAIN B : B[x] \in Nat /\ B[x] > 0
  BY DEF IsABag
<1>2. /\ DOMAIN A = DOMAIN B /\ A[m] = B[m] - 1
      /\ \A x \in DOMAIN B : x # m => A[x] = B[x]
  BY DEF SetToBag
<1>3. C = [e \in {d \in DOMAIN A : A[d] > 0} |-> A[e]]
  BY DEF (-)
<1> HIDE DEF A, C
<1>4. \A x : x \in DOMAIN C <=> x \in DOMAIN B /\ A[x] > 0
  BY <1>2, <1>3
<1>5. \A x \in DOMAIN C : C[x] = A[x] /\ A[x] \in Nat
  BY <1>1, <1>2, <1>3, <1>4
<1>6. IsABag(C)
  BY <1>3, <1>4, <1>5 DEF IsABag
<1>7. \A x : x # m => (x \in DOMAIN C <=> x \in DOMAIN B)
  BY <1>1, <1>2, <1>4
<1>8. \A x \in DOMAIN B : x # m => C[x] = B[x]
  BY <1>2, <1>5, <1>7
<1>9. m \in DOMAIN C => B[m] # 1
  BY <1>2, <1>4
<1> QED
  BY <1>6, <1>7, <1>8, <1>9 DEF C

\* Message m of the bag W was handled and those in H took its place.
Moved(W, m, H, V) ==
  /\ IsABag(V)
  /\ \A x : x # m => (x \in DOMAIN V <=> x \in DOMAIN W \/ x \in H)
  /\ \A x \in DOMAIN W : x # m /\ x \notin H => V[x] = W[x]
  /\ \A x \in H : x \notin DOMAIN W => V[x] = 1
  /\ W[m] = 1 /\ m \notin H => m \notin DOMAIN V

LEMMA TakeMoves ==
  ASSUME NEW W, IsABag(W), NEW m \in DOMAIN W
  PROVE  Moved(W, m, {}, W (-) SetToBag({m}))
<1> DEFINE C == W (-) SetToBag({m})
<1>1. /\ IsABag(C)
      /\ \A x : x # m => (x \in DOMAIN C <=> x \in DOMAIN W)
      /\ \A x \in DOMAIN W : x # m => C[x] = W[x]
      /\ m \in DOMAIN C => W[m] # 1
  BY TakeFromBag
<1> HIDE DEF C
<1>2. Moved(W, m, {}, C)
  BY <1>1 DEF Moved
<1> QED
  BY <1>2 DEF C

LEMMA PassMoves ==
  ASSUME NEW W, IsABag(W), NEW m \in DOMAIN W, NEW H
  PROVE  Moved(W, m, H, (W (-) SetToBag({m})) (+) SetToBag(H))
<1> DEFINE C == W (-) SetToBag({m})
           D == C (+) SetToBag(H)
<1>1. /\ IsABag(C)
      /\ \A x : x # m => (x \in DOMAIN C <=> x \in DOMAIN W)
      /\ \A x \in DOMAIN W : x # m => C[x] = W[x]
      /\ m \in DOMAIN C => W[m] # 1
  BY TakeFromBag
<1> HIDE DEF C
<1>2. /\ IsABag(D)
      /\ \A x : x \in DOMAIN D <=> x \in DOMAIN C \/ x \in H
      /\ \A x \in DOMAIN C : x \notin H => D[x] = C[x]
      /\ \A x \in H : x \notin DOMAIN C => D[x] = 1
  BY <1>1, AddToBag
<1> HIDE DEF D
<1>3. \A x \in H : x \notin DOMAIN W => x \notin DOMAIN C
  BY <1>1
<1>4. Moved(W, m, H, D)
  BY <1>1, <1>2, <1>3 DEF Moved
<1> QED
  BY <1>4 DEF C, D

\* The dispatcher of p gave <<i, c>> to its handlers.
Got(p, i, c) == got' = [got EXCEPT ![p] = @ (+) SetToBag({<<i, c>>})]
Counted(p, i, c) ==
  /\ DOMAIN got' = Running
  /\ IsABag(got'[p])
  /\ \A x : x \in DOMAIN got'[p] <=> x \in DOMAIN got[p] \/ x = <<i, c>>
  /\ \A q \in Running : q # p => got'[q] = got[q]
  /\ Count(p, i, c)' = Count(p, i, c) + 1
  /\ \A q \in Running : \A j, d :
       ~(q = p /\ j = i /\ d = c) => Count(q, j, d)' = Count(q, j, d)

LEMMA CountOne ==
  ASSUME TypeOK, NEW p \in Running, NEW i \in Ids, NEW c, Got(p, i, c)
  PROVE  Counted(p, i, c)
<1> DEFINE B == got[p]
           S == {<<i, c>>}
           C == B (+) SetToBag(S)
<1>1. DOMAIN got = Running /\ IsABag(B)
  BY DEF TypeOK
<1>2. got'[p] = C /\ DOMAIN got' = Running /\ \A q \in Running : q # p => got'[q] = got[q]
  BY <1>1 DEF Got
<1> HIDE DEF B
<1>3. /\ IsABag(C)
      /\ \A x : x \in DOMAIN C <=> x \in DOMAIN B \/ x \in S
      /\ \A x \in DOMAIN B : x \notin S => C[x] = B[x]
      /\ \A x \in S : x \notin DOMAIN B => C[x] = 1
      /\ \A x \in S : x \in DOMAIN B => C[x] = B[x] + 1
  <2> HIDE DEF S
  <2> QED
    BY <1>1, AddToBag
<1> HIDE DEF C
<1>4. \A x : x \in S <=> x = <<i, c>>
  OBVIOUS
<1> HIDE DEF S
<1>5. Count(p, i, c)' = Count(p, i, c) + 1
  <2>1. <<i, c>> \in S /\ <<i, c>> \in DOMAIN C
    BY <1>3, <1>4
  <2>2. Count(p, i, c)' = C[<<i, c>>]
    BY <1>2, <2>1 DEF Count, BagIn, BagToSet
  <2>3. Count(p, i, c) = IF <<i, c>> \in DOMAIN B THEN B[<<i, c>>] ELSE 0
    BY DEF Count, BagIn, BagToSet, B
  <2> QED
    BY <1>3, <2>1, <2>2, <2>3
<1>6. ASSUME NEW q \in Running, NEW j, NEW d, ~(q = p /\ j = i /\ d = c)
      PROVE  Count(q, j, d)' = Count(q, j, d)
  <2>1. CASE q # p
    BY <1>2, <2>1 DEF Count
  <2>2. CASE q = p
    <3>1. <<j, d>> \notin S
      BY <1>4, <1>6, <2>2
    <3>2. (<<j, d>> \in DOMAIN C <=> <<j, d>> \in DOMAIN B)
          /\ (<<j, d>> \in DOMAIN B => C[<<j, d>>] = B[<<j, d>>])
      BY <1>3, <3>1
    <3> QED
      BY <1>2, <2>2, <3>2 DEF Count, BagIn, BagToSet, B
  <2> QED
    BY <2>1, <2>2
<1>7. \A x : x \in DOMAIN got'[p] <=> x \in DOMAIN got[p] \/ x = <<i, c>>
  BY <1>2, <1>3, <1>4 DEF B
<1> QED
  BY <1>2, <1>3, <1>5, <1>6, <1>7 DEF Counted

-----------------------------------------------------------------------------
(* Addresses.                                                              *)

LEMMA RunningFacts ==
  ASSUME NEW p \in Running
  PROVE  /\ p = <<p[1], p[2]>> /\ p[1] \in Nodes /\ p[2] \in Apps
         /\ p[1] \notin {"", "*", "localhost"} /\ p[2] \notin {"", "*", "userver"}
<1>1. p \in Nodes \X Apps
  BY RoutingAssumption
<1>2. p = <<p[1], p[2]>> /\ p[1] \in Nodes /\ p[2] \in Apps
  BY <1>1
<1> QED
  BY <1>2, RoutingAssumption

LEMMA ServerFacts ==
  ASSUME NEW n
  PROVE  Server(n)[1] = n /\ Server(n) \notin Running
<1>1. Server(n)[1] = n /\ Server(n)[2] = "userver"
  BY DEF Server
<1> QED
  BY <1>1, RunningFacts

\* What setDest() puts into a new header: nothing, or a complete address whose node
\* has a name or is "*", and which stands for the same applications.
LEMMA NewHeader ==
  ASSUME NEW p \in Running, NEW dest \in Addresses, NEW h, h = SetDest(p, Blank, dest)
  PROVE  /\ h \in [a : Apps \cup {"", "*"}, n : Nodes \cup {"", "*"}]
         /\ h = Blank \/ (h.a # "" /\ h.n \in Nodes \cup {"*"})
         /\ \A q \in Running :
              q[1] = h.n /\ h.a \in {q[2], "*"} => q \in Addressees(p, dest)
<1>1. dest.a \in Apps \cup {"", "*"} /\ dest.n \in Nodes \cup {"", "*", "localhost"}
  BY DEF Addresses
<1>2. p[1] \in Nodes /\ p[1] \notin {"", "*"}
  BY RunningFacts
<1>3. CASE dest.a # "" /\ dest.n # ""
  <2>1. h = [a |-> dest.a, n |-> IF dest.n = "localhost" THEN p[1] ELSE dest.n]
    BY <1>3 DEF SetDest
  <2>2. h.a = dest.a /\ h.n = (IF dest.n = "localhost" THEN p[1] ELSE dest.n)
    BY <2>1
  <2>3. h.n \in Nodes \cup {"*"}
    BY <1>1, <1>2, <1>3, <2>2
  <2>4. h \in [a : Apps \cup {"", "*"}, n : Nodes \cup {"", "*"}]
    BY <1>1, <2>1, <2>2, <2>3
  <2>5. ASSUME NEW q \in Running, q[1] = h.n, h.a \in {q[2], "*"}
        PROVE  q \in Addressees(p, dest)
    BY <2>2, <2>5 DEF Addressees
  <2> QED
    BY <1>3, <2>2, <2>3, <2>4, <2>5
<1>4. CASE ~(dest.a # "" /\ dest.n # "")
  <2>1. h = Blank
    BY <1>4 DEF SetDest
  <2>2. Blank.n = "" /\ Blank \in [a : Apps \cup {"", "*"}, n : Nodes \cup {"", "*"}]
    BY DEF Blank
  <2>3. \A q \in Running : q[1] # h.n
    BY <2>1, <2>2, RunningFacts
  <2> QED
    BY <2>1, <2>2, <2>3
<1> QED
  BY <1>3, <1>4

\* uecho's answer goes to the sender of the ping.
LEMMA BackHeader ==
  ASSUME NEW q, NEW p \in Running, NEW to
  PROVE  SetDest(q, to, [a |-> p[2], n |-> p[1]]) = [a |-> p[2], n |-> p[1]]
<1>1. p[2] # "" /\ p[1] # "" /\ p[1] # "localhost"
  BY RunningFacts
<1> QED
  BY <1>1 DEF SetDest

LEMMA DestTypes ==
  ASSUME NEW p, p[1] \in Nodes, NEW to
  PROVE  /\ to = Blank => DestType(p, to) = "service"
         /\ to.n = p[1] /\ to.a = "*" => DestType(p, to) = "localbroadcast"
         /\ to.n = p[1] /\ to.a # "*" => DestType(p, to) = "local"
         /\ to.n = "*" => DestType(p, to) = "broadcast"
         /\ to.n \in Nodes /\ to.n # p[1] => DestType(p, to) = "remote"
<1>1. p[1] # "" /\ p[1] # "*" /\ (to.n \in Nodes => to.n # "" /\ to.n # "*")
  BY RoutingAssumption
<1>2. Blank.a = "" /\ Blank.n = ""
  BY DEF Blank
<1> QED
  BY <1>1, <1>2 DEF DestType

\* An application handles every message that is queued for it.
LEMMA AlwaysToMe ==
  ASSUME NEW p \in Running, NEW to, p[1] = to.n, to.a \in {p[2], "*"}
  PROVE  ToMe(p, to)
<1>1. p[1] \in Nodes /\ to.n # ""
  BY RunningFacts
<1>2. DestType(p, to) \in {"local", "localbroadcast"}
  BY <1>1, DestTypes
<1> QED
  BY <1>1, <1>2 DEF ToMe

Places == Running \cup {Server(n) : n \in Nodes}

RawBodies == [form : {"raw"}, json : Nat, serial : Nat]
Bodies == [form : {"raw", "tree"}, json : Nat, serial : Nat]

\* A message that is not queued yet may have a body of either form.
Drafts ==
  [at : Places, id : Ids, cname : {"ping", "pong"}, from : Running,
   body : Bodies,
   to : [a : Apps \cup {"", "*"}, n : Nodes \cup {"", "*"}], hops : 0..MaxHops]

\* A tree is encoded once, and text passes as it is.
LEMMA Encodings ==
  /\ \A b \in RawBodies : Incoming(Str(b)) = b
  /\ \A n \in Nat : Incoming(Str(Tree(n))) = Encoded(n) /\ Encoded(n) \in RawBodies
<1>1. ASSUME NEW b \in RawBodies PROVE Incoming(Str(b)) = b
  <2>1. b = [form |-> "raw", json |-> b.json, serial |-> b.serial]
    BY DEF RawBodies
  <2>2. Str(b) = [form |-> "line", json |-> b.json, serial |-> b.serial]
    <3>1. PICK j : j = IF b.form = "tree" THEN b.json + 1 ELSE b.json
      OBVIOUS
    <3>2. Str(b) = [b EXCEPT !.form = "line", !.json = j]
      BY <3>1 DEF Str
    <3>3. b.form = "raw" /\ j = b.json
      BY <3>1 DEF RawBodies
    <3> QED
      BY ONLY <2>1, <3>2, <3>3
  <2>3. Incoming(Str(b)) = [form |-> "raw", json |-> b.json, serial |-> b.serial]
    BY <2>2 DEF Incoming
  <2> QED
    BY <2>1, <2>3
<1>2. ASSUME NEW n \in Nat
      PROVE  Incoming(Str(Tree(n))) = Encoded(n) /\ Encoded(n) \in RawBodies
  <2>1. Str(Tree(n)) = [form |-> "line", json |-> 1, serial |-> n]
    <3>1. PICK t : t = Tree(n)
      OBVIOUS
    <3>2. t = [form |-> "tree", json |-> 0, serial |-> n]
      BY <3>1 DEF Tree
    <3>3. t.form = "tree" /\ t.json + 1 = 1
      BY <3>2
    <3>4. Str(t) = [t EXCEPT !.form = "line", !.json = 1]
      BY <3>3 DEF Str
    <3>5. Str(t) = [form |-> "line", json |-> 1, serial |-> n]
      BY ONLY <3>2, <3>4
    <3> QED
      BY <3>1, <3>5
  <2> QED
    BY <2>1 DEF Incoming, Encoded, RawBodies
<1> QED
  BY <1>1, <1>2

LEMMA QueueDraft ==
  ASSUME NEW m \in Drafts, NEW at
  PROVE  Queue(m, at) =
           [at |-> at, id |-> m.id, cname |-> m.cname, from |-> m.from,
            body |-> Incoming(Str(m.body)), to |-> m.to, hops |-> m.hops]
<1>1. PICK b : b = Incoming(Str(m.body))
  OBVIOUS
<1>2. Queue(m, at) = [m EXCEPT !.at = at, !.body = b]
  BY <1>1 DEF Queue
<1> QED
  BY <1>1, <1>2 DEF Drafts

LEMMA MessageFields ==
  ASSUME NEW m \in Messages
  PROVE  /\ m.at \in Places /\ m.id \in Ids /\ m.cname \in {"ping", "pong"}
         /\ m.from \in Running /\ m.body \in RawBodies
         /\ m.to \in [a : Apps \cup {"", "*"}, n : Nodes \cup {"", "*"}]
         /\ m.hops \in 0..MaxHops
         /\ m \in Drafts
<1>1. /\ m.at \in Places /\ m.id \in Ids /\ m.cname \in {"ping", "pong"}
      /\ m.from \in Running /\ m.body \in RawBodies
      /\ m.to \in [a : Apps \cup {"", "*"}, n : Nodes \cup {"", "*"}]
      /\ m.hops \in 0..MaxHops
  BY DEF Messages, Places, RawBodies
<1>2. PICK b \in RawBodies : b = m.body
  BY <1>1
<1>3. b \in Bodies
  BY ONLY b \in RawBodies DEF RawBodies, Bodies
<1>4. m = [at |-> m.at, id |-> m.id, cname |-> m.cname, from |-> m.from,
           body |-> m.body, to |-> m.to, hops |-> m.hops]
  BY DEF Messages
<1>5. m \in Drafts
  BY <1>1, <1>2, <1>3, <1>4 DEF Drafts
<1> QED
  BY <1>1, <1>5

LEMMA IsMessage ==
  ASSUME NEW at \in Places, NEW id \in Ids, NEW cname \in {"ping", "pong"},
         NEW from \in Running, NEW body \in RawBodies,
         NEW to \in [a : Apps \cup {"", "*"}, n : Nodes \cup {"", "*"}],
         NEW hops \in 0..MaxHops
  PROVE  [at |-> at, id |-> id, cname |-> cname, from |-> from,
          body |-> body, to |-> to, hops |-> hops] \in Messages
BY DEF Messages, Places, RawBodies

\* o is a copy of m that its userver passed on.
Passed(m, o) ==
  /\ o \in Messages /\ OnItsWay(o) /\ o.at # m.at
  /\ o.id = m.id /\ o.cname = m.cname /\ o.from = m.from /\ o.body = m.body /\ o.to = m.to

\* putOutQueue() for a message that is queued already.
LEMMA QueueMessage ==
  ASSUME NEW m \in Messages, NEW at, NEW o, o = Queue(m, at)
  PROVE  /\ o = [at |-> at, id |-> m.id, cname |-> m.cname, from |-> m.from,
                 body |-> m.body, to |-> m.to, hops |-> m.hops]
         /\ at \in Places => o \in Messages
<1>1. m \in Drafts /\ Incoming(Str(m.body)) = m.body
  BY MessageFields, Encodings
<1>2. o = [at |-> at, id |-> m.id, cname |-> m.cname, from |-> m.from,
           body |-> Incoming(Str(m.body)), to |-> m.to, hops |-> m.hops]
  BY <1>1, QueueDraft
<1>3. o = [at |-> at, id |-> m.id, cname |-> m.cname, from |-> m.from,
           body |-> m.body, to |-> m.to, hops |-> m.hops]
  BY <1>1, <1>2
<1>4. at \in Places => o \in Messages
  <2>1. /\ m.id \in Ids /\ m.cname \in {"ping", "pong"} /\ m.from \in Running
        /\ m.body \in RawBodies
        /\ m.to \in [a : Apps \cup {"", "*"}, n : Nodes \cup {"", "*"}]
        /\ m.hops \in 0..MaxHops
    BY MessageFields
  <2>2. at \in Places =>
          [at |-> at, id |-> m.id, cname |-> m.cname, from |-> m.from,
           body |-> m.body, to |-> m.to, hops |-> m.hops] \in Messages
    BY ONLY <2>1, IsMessage
  <2> QED
    BY ONLY <1>3, <2>2
<1> QED
  BY <1>3, <1>4

\* NetServer::handleAny() for a message that is on its way: what it passes on.
LEMMA PassedOn ==
  ASSUME NEW m \in Messages, m.at = Server(m.at[1]), OnItsWay(m),
         m.to = Blank \/ (m.to.a # "" /\ m.to.n \in Nodes \cup {"*"})
  PROVE  /\ \A o \in HandleAny(m) :
              Passed(m, o) /\ (o.at \in Running \/ HandleAny(m) = {o} \/ m.to.n = "*")
         /\ <<m.to.n, m.to.a>> \in Running => \E o : HandleAny(m) = {o}
<1> DEFINE k == m.at[1]
<1>1. m.at \notin Running
  BY ServerFacts
<1>2. k \in Nodes /\ k # "*" /\ k # ""
  <2>1. PICK n \in Nodes : m.at = Server(n)
    BY <1>1, MessageFields DEF Places
  <2> QED
    BY <2>1, ServerFacts, RoutingAssumption
<1>3. m.hops \in Nat /\ m.hops <= MaxHops /\ MaxHops \in Nat /\ MaxHops >= 1
  <2>1. m.hops \in 0..MaxHops
    BY MessageFields
  <2>2. MaxHops \in Nat /\ MaxHops # 0
    BY RoutingAssumption
  <2> QED
    BY ONLY <2>1, <2>2
<1> DEFINE Hop(n) == [Queue(m, Server(n)) EXCEPT !.hops = @ + 1]
<1>4. ASSUME NEW n \in Nodes, NEW o, o = Hop(n)
      PROVE  o = [at |-> Server(n), id |-> m.id, cname |-> m.cname, from |-> m.from,
                  body |-> m.body, to |-> m.to, hops |-> m.hops + 1]
  <2>1. PICK u : u = Queue(m, Server(n))
    OBVIOUS
  <2>2. u = [at |-> Server(n), id |-> m.id, cname |-> m.cname, from |-> m.from,
             body |-> m.body, to |-> m.to, hops |-> m.hops]
    BY <2>1, QueueMessage
  <2>3. o = [u EXCEPT !.hops = u.hops + 1]
    BY <1>4, <2>1
  <2> QED
    BY ONLY <2>2, <2>3
<1>5. ASSUME NEW n \in Nodes, n # k, m.hops < MaxHops,
             m.to.n # "*" => n = m.to.n /\ m.hops = 0 /\ k = m.from[1],
             NEW o, o = Hop(n)
      PROVE  Passed(m, o) /\ o.at \notin Running
  <2>1. o = [at |-> Server(n), id |-> m.id, cname |-> m.cname, from |-> m.from,
             body |-> m.body, to |-> m.to, hops |-> m.hops + 1]
    BY <1>4, <1>5
  <2>2. /\ o.at = Server(n) /\ o.id = m.id /\ o.cname = m.cname /\ o.from = m.from
        /\ o.body = m.body /\ o.to = m.to /\ o.hops = m.hops + 1
    BY <2>1
  <2>3. Server(n) \notin Running /\ Server(n)[1] = n
    BY ServerFacts
  <2>4. m.hops + 1 \in 0..MaxHops
    <3>1. m.hops \in Nat /\ MaxHops \in Nat /\ m.hops < MaxHops
      BY <1>3, <1>5
    <3> QED
      BY ONLY <3>1
  <2>5. o \in Messages
    <3>1. Server(n) \in Places
      BY DEF Places
    <3> QED
      BY <2>1, <2>4, <3>1, MessageFields, IsMessage
  <2>6. OnItsWay(o)
    <3>1. o.at \notin Running
      BY <2>2, <2>3
    <3>2. ASSUME o.to.n # "*"
          PROVE  o.at[1] # o.from[1] /\ o.at[1] = o.to.n /\ o.hops = 1
      <4>1. n = m.to.n /\ m.hops = 0 /\ k = m.from[1]
        BY <1>5, <2>2, <3>2
      <4>2. o.at[1] = n
        BY <2>2, <2>3
      <4>3. n # m.from[1]
        BY <1>5, <4>1
      <4>4. o.hops = 1
        <5>1. o.hops = m.hops + 1 /\ m.hops = 0
          BY <2>2, <4>1
        <5> QED
          BY ONLY <5>1
      <4> QED
        BY <2>2, <4>1, <4>2, <4>3, <4>4
    <3> QED
      BY <3>1, <3>2 DEF OnItsWay
  <2>7. o.at # m.at
    BY <1>5, <2>2, <2>3
  <2> QED
    BY <2>2, <2>3, <2>5, <2>6, <2>7 DEF Passed
<1>6. ASSUME NEW p \in Running, p[1] = k, m.to.n = k, m.to.a \in {p[2], "*"},
             NEW o, o = Queue(m, p)
      PROVE  Passed(m, o) /\ o.at \in Running
  <2>1. /\ o = [at |-> p, id |-> m.id, cname |-> m.cname, from |-> m.from,
                body |-> m.body, to |-> m.to, hops |-> m.hops]
        /\ o \in Messages
    <3>1. p \in Places
      BY DEF Places
    <3> QED
      BY <1>6, <3>1, QueueMessage
  <2>2. /\ o.at = p /\ o.id = m.id /\ o.cname = m.cname /\ o.from = m.from
        /\ o.body = m.body /\ o.to = m.to /\ o.hops = m.hops
    BY <2>1
  <2>3. OnItsWay(o)
    BY <1>6, <2>2 DEF OnItsWay
  <2>4. o.at # m.at
    BY <1>1, <2>2
  <2> QED
    BY <2>1, <2>2, <2>3, <2>4 DEF Passed
<1>7. HandleAny(m) =
        CASE DestType(m.at, m.to) = "service" -> {}
          [] DestType(m.at, m.to) = "local" ->
               {Queue(m, p) : p \in Running \cap {<<k, m.to.a>>}}
          [] DestType(m.at, m.to) = "localbroadcast" ->
               {Queue(m, p) : p \in {q \in Running : q[1] = k}}
          [] DestType(m.at, m.to) = "remote" ->
               {Hop(n) : n \in {j \in Nodes : j = m.to.n}}
          [] DestType(m.at, m.to) = "broadcast" ->
               {Hop(n) : n \in {j \in Nodes \ {k} : m.hops < MaxHops}}
  BY DEF HandleAny, Route
<1> HIDE DEF Hop
<1>8. CASE m.to = Blank
  <2>1. HandleAny(m) = {}
    <3>1. DestType(m.at, m.to) = "service"
      BY <1>2, <1>8, DestTypes
    <3> QED
      BY <1>7, <3>1
  <2>2. <<m.to.n, m.to.a>> \notin Running
    <3>1. Blank.n = ""
      BY DEF Blank
    <3>2. <<m.to.n, m.to.a>>[1] = ""
      BY <1>8, <3>1
    <3> QED
      BY <3>2, RunningFacts
  <2> QED
    BY <2>1, <2>2
<1>9. CASE m.to.n = k /\ m.to.a # "*"
  <2>1. HandleAny(m) = {Queue(m, p) : p \in Running \cap {<<k, m.to.a>>}}
    <3>1. DestType(m.at, m.to) = "local"
      BY <1>2, <1>9, DestTypes
    <3> QED
      BY <1>7, <3>1
  <2>2. ASSUME NEW o \in HandleAny(m) PROVE Passed(m, o) /\ o.at \in Running
    <3>1. PICK p \in Running : p = <<k, m.to.a>> /\ o = Queue(m, p)
      BY <2>1, <2>2
    <3>2. p[1] = k /\ m.to.a \in {p[2], "*"}
      BY <3>1
    <3> QED
      BY <1>6, <1>9, <3>1, <3>2
  <2>3. ASSUME <<k, m.to.a>> \in Running PROVE HandleAny(m) = {Queue(m, <<k, m.to.a>>)}
    BY <2>1, <2>3
  <2> QED
    BY <1>9, <2>2, <2>3
<1>10. CASE m.to.n = k /\ m.to.a = "*"
  <2>1. HandleAny(m) = {Queue(m, p) : p \in {q \in Running : q[1] = k}}
    <3>1. DestType(m.at, m.to) = "localbroadcast"
      BY <1>2, <1>10, DestTypes
    <3> QED
      BY <1>7, <3>1
  <2>2. ASSUME NEW o \in HandleAny(m) PROVE Passed(m, o) /\ o.at \in Running
    <3>1. PICK p \in Running : p[1] = k /\ o = Queue(m, p)
      BY <2>1, <2>2
    <3> QED
      BY <1>6, <1>10, <3>1
  <2>3. <<m.to.n, m.to.a>> \notin Running
    BY <1>10, RunningFacts
  <2> QED
    BY <2>2, <2>3
<1>11. CASE m.to.n \in Nodes /\ m.to.n # k
  <2>1. HandleAny(m) = {Hop(n) : n \in {j \in Nodes : j = m.to.n}}
    <3>1. DestType(m.at, m.to) = "remote"
      BY <1>2, <1>11, DestTypes
    <3> QED
      BY <1>7, <3>1
  <2>2. HandleAny(m) = {Hop(m.to.n)}
    BY <1>11, <2>1
  <2>3. m.hops = 0 /\ k = m.from[1] /\ m.hops < MaxHops
    <3>1. m.to.n # "*"
      BY <1>11, RoutingAssumption
    <3>2. m.hops = 0 /\ k = m.from[1]
      BY <1>11, <3>1 DEF OnItsWay
    <3> QED
      BY ONLY <1>3, <3>2
  <2>4. PICK n \in Nodes : n = m.to.n
    BY <1>11
  <2>5. PICK o : o = Hop(n)
    OBVIOUS
  <2>6. Passed(m, o)
    BY <1>5, <1>11, <2>3, <2>4, <2>5
  <2>7. HandleAny(m) = {o}
    BY <2>2, <2>4, <2>5
  <2> QED
    BY <2>6, <2>7
<1>12. CASE m.to.n = "*"
  <2>1. HandleAny(m) = {Hop(n) : n \in {j \in Nodes \ {k} : m.hops < MaxHops}}
    <3>1. DestType(m.at, m.to) = "broadcast"
      BY <1>2, <1>12, DestTypes
    <3> QED
      BY <1>7, <3>1
  <2>2. ASSUME NEW o \in HandleAny(m) PROVE Passed(m, o)
    <3>1. PICK n \in Nodes : n # k /\ m.hops < MaxHops /\ o = Hop(n)
      BY <2>1, <2>2
    <3> QED
      BY <1>5, <1>12, <3>1
  <2>3. <<m.to.n, m.to.a>> \notin Running
    BY <1>12, RunningFacts
  <2> QED
    BY <1>12, <2>2, <2>3
<1> QED
  BY <1>2, <1>8, <1>9, <1>10, <1>11, <1>12

-----------------------------------------------------------------------------
(* One ping at a time.                                                     *)

LEMMA AskedFacts ==
  ASSUME TypeOK, NEW i \in Ids, asked[i] # Unsent
  PROVE  asked[i][1] \in Running /\ asked[i][2] \in Addresses /\ asked[i][3] \in Serials
<1>1. asked[i] \in Running \X Addresses \X Serials
  BY DEF TypeOK
<1> QED
  BY <1>1

LEMMA AddresseesRun == \A p, dest : Addressees(p, dest) \subseteq Running
BY DEF Addressees

\* The parts of the invariant for ping i depend on nothing else.
LEMMA Untouched ==
  ASSUME TypeOK, NEW i \in Ids, IdOK(i), asked'[i] = asked[i], Queued(i)' = Queued(i),
         \A m \in Queued(i) : wire'[m] = wire[m],
         \A q \in Running : \A c : Count(q, i, c)' = Count(q, i, c)
  PROVE  IdOK(i)'
<1>1. Header(i)' = Header(i) /\ Back(i)' = Back(i)
  BY DEF Header, Back
<1>2. QueuedOK(i) /\ OnceOK(i) /\ CountOK(i)
  BY DEF IdOK
<1>3. QueuedOK(i)'
  <2>1. ASSUME NEW m \in Queued(i)
        PROVE  /\ asked'[i] # Unsent
               /\ m.body = Encoded(asked'[i][3])
               /\ PingOf(i, m)' \/ PongOf(i, m)'
               /\ OnItsWay(m)
    <3>1. /\ asked[i] # Unsent /\ OnItsWay(m)
          /\ m.body = Encoded(asked[i][3])
          /\ PingOf(i, m) \/ PongOf(i, m)
      BY <1>2, <2>1 DEF QueuedOK
    <3>2. PingOf(i, m) => PingOf(i, m)'
      BY <1>1 DEF PingOf
    <3>3. PongOf(i, m) => PongOf(i, m)'
      BY <1>1, AddresseesRun DEF PongOf
    <3> QED
      BY <3>1, <3>2, <3>3
  <2> QED
    BY <2>1 DEF QueuedOK
<1>4. OnceOK(i)'
  <2>1. ASSUME NEW m \in Queued(i), m.to.n # "*"
        PROVE  /\ wire'[m] = 1
               /\ m.cname = "ping" /\ m.at \notin Running =>
                    Queued(i) = {m} /\ \A q \in Running : Count(q, i, "ping")' = 0
               /\ m.cname = "ping" /\ m.at \in Running => Count(m.at, i, "ping")' = 0
               /\ m.cname = "pong" =>
                    \A o \in Queued(i) : o.cname = "pong" /\ o.from = m.from => o = m
    BY <1>2, <2>1 DEF OnceOK
  <2> QED
    BY <2>1 DEF OnceOK
<1>5. Answered(i)' = Answered(i)
  BY DEF Answered, Answering
<1>6. CountOK(i)'
  <2>1. asked[i] # Unsent => asked[i][1] \in Running
    BY AskedFacts
  <2> QED
    BY <1>2, <1>5, <2>1 DEF CountOK
<1> QED
  BY <1>3, <1>4, <1>6 DEF IdOK

\* The pings that a step is not about.
LEMMA OtherIds ==
  ASSUME TypeOK, NEW m \in BagToSet(wire), NEW H, \A o \in H : o.id = m.id,
         Moved(wire, m, H, wire'), asked' = asked,
         NEW j \in Ids, j # m.id, IdOK(j),
         \A q \in Running : \A c : Count(q, j, c)' = Count(q, j, c)
  PROVE  IdOK(j)'
<1>1. ASSUME NEW x, x.id = j
      PROVE  /\ x \in DOMAIN wire' <=> x \in DOMAIN wire
             /\ x \in DOMAIN wire => wire'[x] = wire[x]
  <2>1. x # m /\ x \notin H
    BY <1>1
  <2> QED
    BY <2>1 DEF Moved
<1>2. Queued(j)' = Queued(j)
  BY <1>1 DEF Queued, BagToSet
<1>3. \A x \in Queued(j) : wire'[x] = wire[x]
  BY <1>1 DEF Queued, BagToSet
<1> QED
  BY <1>2, <1>3, Untouched

\* What is known of a message that is queued.
LEMMA QueuedFacts ==
  ASSUME IInv, NEW m \in BagToSet(wire), NEW i, i = m.id
  PROVE  /\ m \in Messages /\ i \in Ids /\ IdOK(i) /\ m \in Queued(i)
         /\ asked[i] # Unsent /\ asked[i][1] \in Running
         /\ asked[i][2] \in Addresses /\ asked[i][3] \in Serials
         /\ m.body = Encoded(asked[i][3])
         /\ PingOf(i, m) \/ PongOf(i, m)
         /\ OnItsWay(m)
         /\ m.to = Blank \/ (m.to.a # "" /\ m.to.n \in Nodes \cup {"*"})
         /\ m.cname = "pong" => /\ <<m.to.n, m.to.a>> = asked[i][1]
                                /\ m.to.n \in Nodes /\ m.to.n # "*"
<1>1. m \in Messages
  BY DEF IInv, TypeOK
<1>2. i \in Ids
  BY <1>1, MessageFields
<1>3. IdOK(i) /\ m \in Queued(i) /\ TypeOK
  BY <1>2 DEF IInv, Queued
<1>4. /\ asked[i] # Unsent /\ OnItsWay(m)
      /\ m.body = Encoded(asked[i][3])
      /\ PingOf(i, m) \/ PongOf(i, m)
  BY <1>3 DEF IdOK, QueuedOK
<1>5. asked[i][1] \in Running /\ asked[i][2] \in Addresses /\ asked[i][3] \in Serials
  BY <1>2, <1>3, <1>4, AskedFacts
<1>6. CASE PingOf(i, m)
  <2>1. m.cname = "ping" /\ m.to = SetDest(asked[i][1], Blank, asked[i][2])
    BY <1>6 DEF PingOf, Header
  <2>2. m.to = Blank \/ (m.to.a # "" /\ m.to.n \in Nodes \cup {"*"})
    BY <1>5, <2>1, NewHeader
  <2> QED
    BY <1>1, <1>2, <1>3, <1>4, <1>5, <2>1, <2>2
<1>7. CASE PongOf(i, m)
  <2>1. m.cname = "pong" /\ m.to.a = asked[i][1][2] /\ m.to.n = asked[i][1][1]
    BY <1>7 DEF PongOf, Back
  <2>2. /\ asked[i][1] = <<asked[i][1][1], asked[i][1][2]>>
        /\ asked[i][1][1] \in Nodes /\ asked[i][1][1] # "*" /\ asked[i][1][2] # ""
    BY <1>5, RunningFacts
  <2>3. /\ <<m.to.n, m.to.a>> = asked[i][1] /\ m.to.n \in Nodes /\ m.to.n # "*"
        /\ m.to.a # ""
    BY <2>1, <2>2
  <2> QED
    BY <1>1, <1>2, <1>3, <1>4, <1>5, <2>3
<1> QED
  BY <1>4, <1>6, <1>7

\* As many answers are out as before.
LEMMA SameAnswers ==
  ASSUME TypeOK, NEW i \in Ids, CountOK(i), asked' = asked,
         \A q \in Running : \A c : Count(q, i, c)' = Count(q, i, c),
         Answering(i)' = Answering(i)
  PROVE  CountOK(i)'
<1>1. Answered(i)' = Answered(i)
  BY DEF Answered
<1>2. asked[i] # Unsent => asked[i][1] \in Running
  BY AskedFacts
<1> QED
  BY <1>1, <1>2 DEF CountOK

-----------------------------------------------------------------------------
(* The steps.                                                              *)

LEMMA StartsRight == Init => IInv
<1> SUFFICES ASSUME Init PROVE IInv
  OBVIOUS
<1>1. DOMAIN wire = {} /\ IsABag(wire) /\ DOMAIN stalled = {} /\ IsABag(stalled)
  BY DEF Init, EmptyBag, SetToBag, IsABag
<1>2. DOMAIN got = Running /\ \A p \in Running : DOMAIN got[p] = {} /\ IsABag(got[p])
  BY DEF Init, EmptyBag, SetToBag, IsABag
<1>3. asked = [i \in Ids |-> Unsent] /\ printed = {}
  BY DEF Init
<1>4. asked \in [Ids -> (Running \X Addresses \X Serials) \cup {Unsent}]
  BY <1>3
<1>5. TypeOK
  BY <1>1, <1>2, <1>3, <1>4 DEF TypeOK, BagToSet
<1>6. PrintedOK
  BY <1>3 DEF PrintedOK
<1>7. ASSUME NEW i \in Ids PROVE IdOK(i)
  <2>1. Queued(i) = {}
    BY <1>1 DEF Queued, BagToSet
  <2>2. \A q \in Running : \A c : Count(q, i, c) = 0
    BY <1>2 DEF Count, BagIn, BagToSet
  <2>3. asked[i] = Unsent
    BY <1>3
  <2>4. QueuedOK(i) /\ OnceOK(i)
    BY <2>1 DEF QueuedOK, OnceOK
  <2>5. CountOK(i)
    BY <2>2, <2>3 DEF CountOK
  <2> QED
    BY <2>4, <2>5 DEF IdOK
<1> QED
  BY <1>5, <1>6, <1>7 DEF IInv

\* NetServer::handleAny() in a userver.
LEMMA ServerStep ==
  ASSUME IInv, NEW m \in BagToSet(wire), AtServer(m)
  PROVE  IInv'
<1>1. TypeOK /\ PrintedOK /\ \A j \in Ids : IdOK(j)
  BY DEF IInv
<1>2. PICK i : i = m.id
  OBVIOUS
<1>3. /\ m \in Messages /\ i \in Ids /\ IdOK(i) /\ m \in Queued(i)
      /\ asked[i] # Unsent
      /\ m.body = Encoded(asked[i][3])
      /\ PingOf(i, m) \/ PongOf(i, m)
      /\ OnItsWay(m)
      /\ m.to = Blank \/ (m.to.a # "" /\ m.to.n \in Nodes \cup {"*"})
      /\ m.cname = "pong" => <<m.to.n, m.to.a>> \in Running /\ m.to.n # "*"
  BY <1>2, QueuedFacts
<1>4. /\ m.at = Server(m.at[1]) /\ asked' = asked /\ got' = got
      /\ printed' = printed /\ stalled' = stalled
  BY DEF AtServer
<1>5. m.at \notin Running
  BY <1>4, ServerFacts
<1>6. PICK H : H = HandleAny(m)
  OBVIOUS
<1>7. /\ \A o \in H : Passed(m, o) /\ (o.at \in Running \/ H = {o} \/ m.to.n = "*")
      /\ m.cname = "pong" => \E o : H = {o}
  BY <1>3, <1>4, <1>6, PassedOn
<1>8. Moved(wire, m, H, wire')
  <2>1. wire' = (wire (-) SetToBag({m})) (+) SetToBag(H)
    BY <1>6 DEF AtServer
  <2>2. IsABag(wire) /\ m \in DOMAIN wire
    BY <1>1 DEF TypeOK, BagToSet
  <2>3. Moved(wire, m, H, (wire (-) SetToBag({m})) (+) SetToBag(H))
    BY <2>2, PassMoves
  <2> QED
    BY <2>1, <2>3
<1>9. /\ \A x \in H : x \in Messages /\ x.id = i /\ x # m
      /\ \A x \in H : x.cname = m.cname /\ x.to = m.to /\ x.from = m.from /\ x.body = m.body
      /\ \A x \in H : OnItsWay(x)
  BY <1>2, <1>7 DEF Passed
<1>10. \A q \in Running : \A j, c : Count(q, j, c)' = Count(q, j, c)
  BY <1>4 DEF Count
<1>11. TypeOK'
  <2>1. \A x \in DOMAIN wire' : x \in DOMAIN wire \/ x \in H
    BY <1>8 DEF Moved, BagToSet
  <2>2. IsABag(wire') /\ BagToSet(wire') \subseteq Messages
    BY <1>1, <1>8, <1>9, <2>1 DEF TypeOK, BagToSet, Moved
  <2> QED
    BY <1>1, <1>4, <2>2 DEF TypeOK
<1>12. PrintedOK'
  BY <1>1, <1>4 DEF PrintedOK
<1>13. ASSUME NEW j \in Ids, j # i PROVE IdOK(j)'
  BY <1>1, <1>2, <1>4, <1>8, <1>9, <1>10, <1>13, OtherIds
<1>14. QueuedOK(i) /\ OnceOK(i) /\ CountOK(i)
  BY <1>3 DEF IdOK
<1>15. /\ \A x : x \in Queued(i)' => x \in Queued(i) \/ x \in H
       /\ \A x \in Queued(i) : x # m => x \in Queued(i)'
       /\ \A x \in H : x \in Queued(i)'
       /\ \A x \in Queued(i) : x # m /\ x \notin H => wire'[x] = wire[x]
       /\ \A x \in H : x \notin Queued(i) => wire'[x] = 1
       /\ wire[m] = 1 => m \notin Queued(i)'
  BY <1>8, <1>9 DEF Queued, BagToSet, Moved
<1>16. Header(i)' = Header(i) /\ Back(i)' = Back(i)
  BY <1>4 DEF Header, Back
<1>17. \A x : (PingOf(i, x) => PingOf(i, x)') /\ (PongOf(i, x) => PongOf(i, x)')
  BY <1>4, <1>10, <1>16, AddresseesRun DEF PingOf, PongOf
<1>18. QueuedOK(i)'
  <2>1. ASSUME NEW x \in Queued(i)'
        PROVE  /\ asked'[i] # Unsent
               /\ x.body = Encoded(asked'[i][3])
               /\ PingOf(i, x)' \/ PongOf(i, x)'
               /\ OnItsWay(x)
    <3>1. CASE x \in Queued(i)
      BY <1>4, <1>14, <1>17, <3>1 DEF QueuedOK
    <3>2. CASE x \in H
      <4>1. PingOf(i, x) \/ PongOf(i, x)
        BY <1>3, <1>9, <3>2 DEF PingOf, PongOf
      <4> QED
        BY <1>3, <1>4, <1>9, <1>17, <3>2, <4>1
    <3> QED
      BY <1>15, <3>1, <3>2
  <2> QED
    BY <2>1 DEF QueuedOK
<1>19. OnceOK(i)' /\ CountOK(i)'
  \* A broadcast: nothing but its own copies changes.
  <2>1. CASE m.to.n = "*"
    <3>1. PingOf(i, m) /\ m.cname = "ping" /\ m.to = Header(i)
      BY <1>3, <2>1 DEF PingOf, PongOf
    <3>2. \A x \in H : x.cname = "ping" /\ x.to.n = "*"
      BY <1>9, <2>1, <3>1
    <3>3. ASSUME NEW x \in Queued(i)', x.to.n # "*"
          PROVE  /\ x \in Queued(i) /\ x # m /\ x \notin H
                 /\ x.cname = "pong" /\ wire'[x] = wire[x]
      <4>1. x \notin H /\ x # m
        BY <2>1, <3>2, <3>3
      <4>2. x \in Queued(i)
        BY <1>15, <3>3, <4>1
      <4>3. x.cname = "pong"
        <5>1. PingOf(i, x) \/ PongOf(i, x)
          BY <1>14, <4>2 DEF QueuedOK
        <5>2. ~PingOf(i, x)
          BY <2>1, <3>1, <3>3 DEF PingOf
        <5> QED
          BY <5>1, <5>2 DEF PongOf
      <4> QED
        BY <1>15, <4>1, <4>2, <4>3
    <3>4. \A x \in Queued(i)' : x.cname = "pong" => x \in Queued(i)
      BY <1>15, <3>2
    <3>5. OnceOK(i)'
      <4>1. ASSUME NEW x \in Queued(i)', x.to.n # "*"
            PROVE  /\ wire'[x] = 1 /\ x.cname # "ping"
                   /\ \A o \in Queued(i)' : o.cname = "pong" /\ o.from = x.from => o = x
        BY <1>14, <3>3, <3>4, <4>1 DEF OnceOK
      <4> QED
        BY <4>1 DEF OnceOK
    <3>6. \A r : (\E x \in Queued(i)' : x.cname = "pong" /\ x.from = r)
                   <=> (\E x \in Queued(i) : x.cname = "pong" /\ x.from = r)
      <4>1. \A x \in Queued(i) : x.cname = "pong" => x \in Queued(i)'
        BY <1>15, <3>1
      <4> QED
        BY <3>4, <4>1
    <3>7. CountOK(i)'
      <4>1. Answering(i)' = Answering(i)
        BY <3>6 DEF Answering
      <4>2. \A q \in Running : \A c : Count(q, i, c)' = Count(q, i, c)
        BY <1>10
      <4> QED
        BY <1>1, <1>3, <1>4, <1>14, <4>1, <4>2, SameAnswers
    <3> QED
      BY <3>5, <3>7
  \* A ping that is nowhere else.
  <2>2. CASE m.to.n # "*" /\ m.cname = "ping"
    <3>1. /\ wire[m] = 1 /\ Queued(i) = {m}
          /\ \A q \in Running : Count(q, i, "ping") = 0
      BY <1>3, <1>5, <1>14, <2>2 DEF OnceOK
    <3>2. \A x : x \in Queued(i)' <=> x \in H
      BY <1>15, <3>1
    <3>3. \A x \in H : wire'[x] = 1 /\ x.cname = "ping"
      BY <1>9, <1>15, <2>2, <3>1
    <3>4. OnceOK(i)'
      <4>1. ASSUME NEW x \in Queued(i)'
            PROVE  /\ wire'[x] = 1
                   /\ x.at \notin Running => Queued(i)' = {x}
                   /\ \A q \in Running : Count(q, i, "ping")' = 0
                   /\ x.cname = "ping"
        <5>1. x \in H
          BY <3>2, <4>1
        <5>2. x.at \notin Running => H = {x}
          BY <1>7, <2>2, <5>1
        <5>3. Queued(i)' = H
          BY <3>2
        <5> QED
          BY <1>10, <3>1, <3>3, <5>1, <5>2, <5>3
      <4> QED
        BY <4>1 DEF OnceOK
    <3>5. \A r : (\E x \in Queued(i)' : x.cname = "pong" /\ x.from = r)
                   <=> (\E x \in Queued(i) : x.cname = "pong" /\ x.from = r)
      BY <2>2, <3>1, <3>2, <3>3
    <3>6. CountOK(i)'
      <4>1. Answering(i)' = Answering(i)
        BY <3>5 DEF Answering
      <4>2. \A q \in Running : \A c : Count(q, i, c)' = Count(q, i, c)
        BY <1>10
      <4> QED
        BY <1>1, <1>3, <1>4, <1>14, <4>1, <4>2, SameAnswers
    <3> QED
      BY <3>4, <3>6
  \* An answer, which has no other copy.
  <2>3. CASE m.cname = "pong"
    <3>1. /\ m.to.n # "*" /\ wire[m] = 1
          /\ \A x \in Queued(i) : x.cname = "pong" /\ x.from = m.from => x = m
      BY <1>3, <1>14, <2>3 DEF OnceOK
    <3>2. PICK o : H = {o}
      BY <1>7, <2>3
    <3>3. o \in H /\ o.cname = "pong" /\ o.from = m.from /\ o # m /\ o.to.n # "*"
      BY <1>9, <2>3, <3>1, <3>2
    <3>4. o \notin Queued(i) /\ wire'[o] = 1 /\ o \in Queued(i)'
      BY <1>15, <3>1, <3>3
    <3>5. \A x \in Queued(i)' : x # o => x \in Queued(i) /\ x # m /\ wire'[x] = wire[x]
      BY <1>15, <3>1, <3>2
    <3>6. ASSUME NEW x \in Queued(i)', x # o, x.cname = "pong" PROVE x.from # m.from
      BY <3>1, <3>5, <3>6
    <3>7. OnceOK(i)'
      <4>1. ASSUME NEW x \in Queued(i)', x.to.n # "*", x # o
            PROVE  /\ wire'[x] = 1
                   /\ x.cname = "ping" => x.at \in Running
                   /\ x.cname = "ping" => Count(x.at, i, "ping")' = 0
                   /\ \A y \in Queued(i)' :
                        x.cname = "pong" /\ y.cname = "pong" /\ y.from = x.from => y = x
        <5>1. x \in Queued(i) /\ x # m /\ wire'[x] = wire[x]
          BY <3>5, <4>1
        <5>2. wire[x] = 1 /\ (x.cname = "ping" => x.at \in Running)
          BY <1>3, <1>14, <4>1, <5>1 DEF OnceOK
        <5>3. x.cname = "ping" => Count(x.at, i, "ping")' = 0
          BY <1>10, <1>14, <4>1, <5>1, <5>2 DEF OnceOK
        <5>4. ASSUME NEW y \in Queued(i)', x.cname = "pong", y.cname = "pong", y.from = x.from
              PROVE  y = x
          <6>1. y # o
            BY <3>3, <3>6, <4>1, <5>4
          <6>2. y \in Queued(i)
            BY <3>5, <5>4, <6>1
          <6> QED
            BY <1>14, <4>1, <5>1, <5>4, <6>2 DEF OnceOK
        <5> QED
          BY <5>1, <5>2, <5>3, <5>4
      <4>2. /\ wire'[o] = 1 /\ o.cname # "ping"
            /\ \A y \in Queued(i)' : y.cname = "pong" /\ y.from = o.from => y = o
        BY <3>3, <3>4, <3>6
      <4> QED
        BY <4>1, <4>2 DEF OnceOK
    <3>8. ASSUME NEW r
          PROVE  (\E x \in Queued(i)' : x.cname = "pong" /\ x.from = r)
                   <=> (\E x \in Queued(i) : x.cname = "pong" /\ x.from = r)
      <4>1. ASSUME NEW x \in Queued(i)', x.cname = "pong", x.from = r
            PROVE  \E y \in Queued(i) : y.cname = "pong" /\ y.from = r
        BY <1>3, <2>3, <3>3, <3>5, <4>1
      <4>2. ASSUME NEW x \in Queued(i), x.cname = "pong", x.from = r
            PROVE  \E y \in Queued(i)' : y.cname = "pong" /\ y.from = r
        BY <1>15, <3>3, <3>4, <4>2
      <4> QED
        BY <4>1, <4>2
    <3>9. CountOK(i)'
      <4>1. Answering(i)' = Answering(i)
        BY <3>8 DEF Answering
      <4>2. \A q \in Running : \A c : Count(q, i, c)' = Count(q, i, c)
        BY <1>10
      <4> QED
        BY <1>1, <1>3, <1>4, <1>14, <4>1, <4>2, SameAnswers
    <3> QED
      BY <3>7, <3>9
  <2> QED
    BY <1>3, <2>1, <2>2, <2>3 DEF PingOf, PongOf
<1>20. IdOK(i)'
  BY <1>18, <1>19 DEF IdOK
<1> QED
  BY <1>11, <1>12, <1>13, <1>20 DEF IInv

\* Two copies of one ping for one application would be the same message.
LEMMA SamePlace ==
  ASSUME NEW i \in Ids, NEW m \in Messages, NEW o \in Messages, m.id = i, o.id = i,
         PingOf(i, m), PingOf(i, o), OnItsWay(m), OnItsWay(o), m.body = o.body,
         m.at = o.at, m.to.n # "*"
  PROVE  m = o
<1>1. m.cname = o.cname /\ m.from = o.from /\ m.to = o.to
  BY DEF PingOf
<1>2. m.hops = o.hops
  BY <1>1 DEF OnItsWay
<1>3. /\ m = [at |-> m.at, id |-> m.id, cname |-> m.cname, from |-> m.from,
              body |-> m.body, to |-> m.to, hops |-> m.hops]
      /\ o = [at |-> o.at, id |-> o.id, cname |-> o.cname, from |-> o.from,
              body |-> o.body, to |-> o.to, hops |-> o.hops]
  BY DEF Messages
<1> QED
  BY <1>1, <1>2, <1>3

\* The answer of uecho, as it is queued at its userver.
LEMMA Answer ==
  ASSUME IInv, NEW m \in BagToSet(wire), NEW i, i = m.id, PingOf(i, m),
         NEW p \in Running, NEW r, r = Queue(Reply(p, m), Server(p[1]))
  PROVE  /\ r \in Messages /\ r.id = i /\ r.cname = "pong" /\ r.from = p
         /\ r.to = Back(i) /\ r.body = m.body
         /\ r.at = Server(p[1]) /\ r.hops = 0
<1>1. m \in Messages /\ i \in Ids /\ asked[i][1] \in Running
  BY QueuedFacts
<1>2. /\ m.at \in Places /\ m.from \in Running
      /\ m.body \in RawBodies
  BY <1>1, MessageFields
<1>3. m.from = asked[i][1]
  BY DEF PingOf
<1>4. PICK b : b = [a |-> m.from[2], n |-> m.from[1]]
  OBVIOUS
<1>5. b = Back(i) /\ SetDest(p, m.to, b) = b
  BY <1>1, <1>3, <1>4, BackHeader DEF Back
<1>6. b \in [a : Apps \cup {"", "*"}, n : Nodes \cup {"", "*"}]
  <2>1. m.from[2] \in Apps /\ m.from[1] \in Nodes
    BY <1>2, RunningFacts
  <2> QED
    BY <1>4, <2>1
<1>7. 0 \in 0..MaxHops
  <2>1. MaxHops \in Nat
    BY RoutingAssumption
  <2> QED
    BY ONLY <2>1
<1>8. PICK d : d = Reply(p, m)
  OBVIOUS
<1>9. d = [m EXCEPT !.cname = "pong", !.from = p, !.hops = 0, !.to = b]
  BY <1>4, <1>5, <1>8 DEF Reply
<1>10. d = [at |-> m.at, id |-> i, cname |-> "pong", from |-> p,
            body |-> m.body, to |-> b, hops |-> 0]
  BY <1>1, <1>9 DEF Messages
<1>11. d \in Messages
  BY <1>1, <1>2, <1>6, <1>7, <1>10, IsMessage
<1>12. Server(p[1]) \in Places
  BY RunningFacts DEF Places
<1>13. /\ r = [at |-> Server(p[1]), id |-> d.id, cname |-> d.cname, from |-> d.from,
               body |-> d.body, to |-> d.to, hops |-> d.hops]
       /\ r \in Messages
  BY <1>8, <1>11, <1>12, QueueMessage
<1> QED
  BY <1>5, <1>10, <1>13

\* The dispatcher of an application.
LEMMA AppStep ==
  ASSUME IInv, NEW m \in BagToSet(wire), AtApp(m)
  PROVE  IInv'
<1>1. TypeOK /\ PrintedOK /\ \A j \in Ids : IdOK(j)
  BY DEF IInv
<1>2. PICK i : i = m.id
  OBVIOUS
<1>3. /\ m \in Messages /\ i \in Ids /\ IdOK(i) /\ m \in Queued(i)
      /\ asked[i] # Unsent /\ asked[i][1] \in Running /\ asked[i][2] \in Addresses
      /\ asked[i][3] \in Serials
      /\ m.body = Encoded(asked[i][3])
      /\ PingOf(i, m) \/ PongOf(i, m)
      /\ OnItsWay(m)
      /\ m.cname = "pong" => <<m.to.n, m.to.a>> = asked[i][1]
  BY <1>2, QueuedFacts
<1>4. PICK p \in Running : p = m.at
  BY DEF AtApp
<1>5. p[1] = m.to.n /\ m.to.a \in {p[2], "*"} /\ ToMe(p, m.to) /\ m.to.n # "*"
  <2>1. p[1] = m.to.n /\ m.to.a \in {p[2], "*"}
    BY <1>3, <1>4 DEF OnItsWay
  <2>2. ToMe(p, m.to)
    BY <2>1, AlwaysToMe
  <2>3. m.to.n # "*"
    BY <2>1, RunningFacts
  <2> QED
    BY <2>1, <2>2, <2>3
<1>6. PICK r : r = Queue(Reply(p, m), Server(p[1]))
  OBVIOUS
<1>7. /\ wire' = IF m.cname = "ping" /\ p[2] \in Echo
                   THEN (wire (-) SetToBag({m})) (+) SetToBag({r})
                   ELSE wire (-) SetToBag({m})
      /\ printed' = IF m.cname = "pong" /\ p[2] \notin Echo
                      THEN printed \cup {<<i, Get(PBody(m))>>} ELSE printed
      /\ got' = [got EXCEPT ![p] = @ (+) SetToBag({<<i, m.cname>>})]
      /\ asked' = asked /\ stalled' = stalled
  BY <1>2, <1>4, <1>5, <1>6 DEF AtApp
<1>8. PICK H : H = IF m.cname = "ping" /\ p[2] \in Echo THEN {r} ELSE {}
  OBVIOUS
<1>9. Moved(wire, m, H, wire')
  <2>1. IsABag(wire) /\ m \in DOMAIN wire
    BY <1>1 DEF TypeOK, BagToSet
  <2>2. Moved(wire, m, {r}, (wire (-) SetToBag({m})) (+) SetToBag({r}))
        /\ Moved(wire, m, {}, wire (-) SetToBag({m}))
    BY <2>1, PassMoves, TakeMoves
  <2> QED
    BY <1>7, <1>8, <2>2
<1>10. ASSUME NEW x \in H
       PROVE  /\ x \in Messages /\ x.id = i /\ x.cname = "pong" /\ x.from = p
              /\ x.to = Back(i) /\ x.body = m.body /\ x.at = Server(p[1]) /\ x.hops = 0
              /\ x = r /\ m.cname = "ping" /\ p[2] \in Echo
  <2>1. x = r /\ m.cname = "ping" /\ p[2] \in Echo
    BY <1>8, <1>10
  <2>2. PingOf(i, m)
    BY <1>3, <2>1 DEF PongOf
  <2>3. /\ r \in Messages /\ r.id = i /\ r.cname = "pong" /\ r.from = p
        /\ r.to = Back(i) /\ r.body = m.body /\ r.at = Server(p[1]) /\ r.hops = 0
    BY <1>2, <1>6, <2>2, Answer
  <2> QED
    BY <2>1, <2>3
<1>11. m.cname \in {"ping", "pong"}
  BY <1>3, MessageFields
<1>12. /\ DOMAIN got' = Running /\ IsABag(got'[p])
       /\ \A x : x \in DOMAIN got'[p] <=> x \in DOMAIN got[p] \/ x = <<i, m.cname>>
       /\ \A q \in Running : q # p => got'[q] = got[q]
       /\ Count(p, i, m.cname)' = Count(p, i, m.cname) + 1
       /\ \A q \in Running : \A j, d :
            ~(q = p /\ j = i /\ d = m.cname) => Count(q, j, d)' = Count(q, j, d)
  <2>1. PICK c : c = m.cname
    OBVIOUS
  <2>2. Got(p, i, c)
    BY <1>7, <2>1 DEF Got
  <2>3. Counted(p, i, c)
    BY <1>1, <1>3, <2>2, CountOne
  <2> QED
    BY <2>1, <2>3 DEF Counted
<1>13. Get(PBody(m)) = Reported(asked[i][3]) /\ Get(PBody(m)) \in Nat
  <2>1. PICK b : b = m.body
    OBVIOUS
  <2>2. PICK n : n = asked[i][3]
    OBVIOUS
  <2>3. b = Encoded(n) /\ n \in Nat
    BY <1>3, <2>1, <2>2, RoutingAssumption
  <2>4. PBody(m) = [b EXCEPT !.form = "tree",
                             !.json = IF b.form = "raw" THEN b.json - 1 ELSE b.json]
    BY <2>1 DEF PBody
  <2>5. PBody(m) = [form |-> "tree", json |-> 0, serial |-> n]
    <3>1. b = [form |-> "raw", json |-> 1, serial |-> n]
      BY <2>3 DEF Encoded
    <3>2. (IF b.form = "raw" THEN b.json - 1 ELSE b.json) = 0
      BY ONLY <3>1
    <3>3. PBody(m) = [b EXCEPT !.form = "tree", !.json = 0]
      BY ONLY <2>4, <3>2
    <3> QED
      BY ONLY <3>1, <3>3
  <2>6. Get(PBody(m)) = IF n <= UIntMax THEN n ELSE 0
    BY ONLY <2>5 DEF Get
  <2> QED
    BY ONLY <2>2, <2>3, <2>6 DEF Reported
<1>14. TypeOK'
  <2>1. \A x \in DOMAIN wire' : x \in DOMAIN wire \/ x \in H
    BY <1>9 DEF Moved, BagToSet
  <2>2. IsABag(wire') /\ BagToSet(wire') \subseteq Messages
    BY <1>1, <1>9, <1>10, <2>1 DEF TypeOK, BagToSet, Moved
  <2>3. printed' \subseteq Ids \X Nat
    BY <1>1, <1>3, <1>7, <1>13 DEF TypeOK
  <2>4. ASSUME NEW q \in Running
        PROVE  IsABag(got'[q]) /\ BagToSet(got'[q]) \subseteq Ids \X {"ping", "pong"}
    <3>1. <<i, m.cname>> \in Ids \X {"ping", "pong"}
      BY <1>3, <1>11
    <3> QED
      BY <1>1, <1>12, <3>1 DEF TypeOK, BagToSet
  <2> QED
    BY <1>1, <1>7, <1>12, <2>2, <2>3, <2>4 DEF TypeOK
<1>15. PrintedOK'
  <2>1. ASSUME NEW x \in printed', x \notin printed
        PROVE  x[1] = i /\ x[2] = Reported(asked[i][3])
    <3>1. x = <<i, Get(PBody(m))>>
      BY <1>7, <2>1
    <3> QED
      BY <1>13, <3>1
  <2> QED
    BY <1>1, <1>3, <1>7, <2>1 DEF PrintedOK
<1>16. ASSUME NEW j \in Ids, j # i PROVE IdOK(j)'
  <2>1. \A q \in Running : \A c : Count(q, j, c)' = Count(q, j, c)
    BY <1>12, <1>16
  <2>2. \A o \in H : o.id = m.id
    BY <1>2, <1>10
  <2> QED
    BY <1>1, <1>2, <1>7, <1>9, <1>16, <2>1, <2>2, OtherIds
<1>17. QueuedOK(i) /\ OnceOK(i) /\ CountOK(i)
  BY <1>3 DEF IdOK
<1>18. wire[m] = 1 /\ m \notin H
  BY <1>3, <1>5, <1>10, <1>17 DEF OnceOK
<1>19. /\ \A x : x \in Queued(i)' <=> (x \in Queued(i) /\ x # m) \/ x \in H
       /\ \A x \in Queued(i) : x # m /\ x \notin H => wire'[x] = wire[x]
       /\ \A x \in H : x \notin Queued(i) => wire'[x] = 1
  BY <1>9, <1>10, <1>18 DEF Queued, BagToSet, Moved
<1>20. Header(i)' = Header(i) /\ Back(i)' = Back(i)
  BY <1>7 DEF Header, Back
\* A ping: p sees it for the first time.
<1>21. CASE m.cname = "ping"
  <2>1. PingOf(i, m) /\ Count(p, i, "ping") = 0 /\ Count(p, i, "ping")' = 1
    <3>1. PingOf(i, m)
      BY <1>3, <1>21 DEF PongOf
    <3>2. Count(p, i, "ping") = 0
      BY <1>3, <1>4, <1>5, <1>17, <1>21 DEF OnceOK
    <3> QED
      BY <1>12, <1>21, <3>1, <3>2
  <2>2. p \in Addressees(asked[i][1], asked[i][2])
    <3>1. m.to = SetDest(asked[i][1], Blank, asked[i][2])
      BY <2>1 DEF PingOf, Header
    <3> QED
      BY <1>3, <1>5, <3>1, NewHeader
  <2>3. /\ \A q \in Running : q # p => Count(q, i, "ping")' = Count(q, i, "ping")
        /\ \A q \in Running : Count(q, i, "pong")' = Count(q, i, "pong")
    BY <1>12, <1>21
  <2>4. ASSUME NEW x \in Queued(i), x.cname = "pong"
        PROVE  PongOf(i, x) /\ x.from # p /\ x.from \in Running /\ PongOf(i, x)'
    <3>1. PongOf(i, x)
      BY <1>17, <2>4 DEF QueuedOK, PingOf
    <3>2. x.from \in Running /\ x.from # p
      BY <2>1, <3>1, AddresseesRun DEF PongOf
    <3>3. Count(x.from, i, "ping")' = Count(x.from, i, "ping")
      BY <2>3, <3>2
    <3> QED
      BY <1>7, <1>20, <3>1, <3>2, <3>3 DEF PongOf
  <2>5. \A x \in H : x \notin Queued(i)
    BY <1>10, <2>4
  <2>6. QueuedOK(i)'
    <3>1. ASSUME NEW x \in Queued(i)'
          PROVE  /\ asked'[i] # Unsent
                 /\ x.body = Encoded(asked'[i][3])
                 /\ PingOf(i, x)' \/ PongOf(i, x)'
                 /\ OnItsWay(x)
      <4>1. CASE x \in Queued(i)
        <5>1. PingOf(i, x) \/ PongOf(i, x)
          BY <1>17, <4>1 DEF QueuedOK
        <5>2. PingOf(i, x) => PingOf(i, x)'
          BY <1>7, <1>20 DEF PingOf
        <5>3. PongOf(i, x) => PongOf(i, x)'
          BY <2>4, <4>1 DEF PongOf
        <5> QED
          BY <1>7, <1>17, <4>1, <5>1, <5>2, <5>3 DEF QueuedOK
      <4>2. CASE x \in H
        <5>1. PongOf(i, x)'
          BY <1>7, <1>10, <1>20, <2>1, <2>2, <4>2 DEF PongOf
        <5>2. OnItsWay(x)
          BY <1>10, <4>2, ServerFacts DEF OnItsWay
        <5> QED
          BY <1>3, <1>7, <1>10, <4>2, <5>1, <5>2
      <4> QED
        BY <1>19, <4>1, <4>2
    <3> QED
      BY <3>1 DEF QueuedOK
  <2>7. OnceOK(i)'
    <3>1. ASSUME NEW x \in Queued(i), x # m, x.to.n # "*"
          PROVE  /\ wire'[x] = 1
                 /\ x.cname = "ping" => x.at \in Running /\ Count(x.at, i, "ping")' = 0
                 /\ x.cname = "pong" =>
                      \A o \in Queued(i)' : o.cname = "pong" /\ o.from = x.from => o = x
      <4>1. wire[x] = 1 /\ wire'[x] = wire[x]
        BY <1>17, <1>19, <2>5, <3>1 DEF OnceOK
      <4>2. ASSUME x.cname = "ping"
            PROVE  x.at \in Running /\ Count(x.at, i, "ping")' = 0
        <5>1. x.at \in Running /\ Count(x.at, i, "ping") = 0
          BY <1>3, <1>17, <3>1, <4>2 DEF OnceOK
        <5>2. x.at # p
          <6>1. x \in Messages /\ x.id = i
            BY <1>1, <3>1 DEF Queued, TypeOK
          <6>2. PingOf(i, x) /\ OnItsWay(x) /\ x.body = m.body
            BY <1>3, <1>17, <3>1, <4>2 DEF QueuedOK, PongOf
          <6> QED
            BY <1>2, <1>3, <1>4, <1>5, <2>1, <3>1, <6>1, <6>2, SamePlace
        <5> QED
          BY <2>3, <5>1, <5>2
      <4>3. ASSUME x.cname = "pong", NEW o \in Queued(i)', o.cname = "pong", o.from = x.from
            PROVE  o = x
        <5>1. o \notin H
          BY <1>10, <2>4, <3>1, <4>3
        <5>2. o \in Queued(i)
          BY <1>19, <4>3, <5>1
        <5> QED
          BY <1>17, <3>1, <4>3, <5>2 DEF OnceOK
      <4> QED
        BY <4>1, <4>2, <4>3
    <3>2. ASSUME NEW x \in H
          PROVE  /\ wire'[x] = 1 /\ x.cname = "pong"
                 /\ \A o \in Queued(i)' : o.cname = "pong" /\ o.from = x.from => o = x
      <4>1. wire'[x] = 1 /\ x.cname = "pong" /\ x.from = p /\ x = r
        BY <1>10, <1>19, <2>5, <3>2
      <4>2. ASSUME NEW o \in Queued(i)', o.cname = "pong", o.from = p PROVE o = r
        <5>1. o \in H
          BY <1>19, <2>4, <4>2
        <5> QED
          BY <1>10, <5>1
      <4> QED
        BY <4>1, <4>2
    <3> QED
      BY <1>19, <3>1, <3>2 DEF OnceOK
  <2>8. CountOK(i)'
    <3>1. Answered(i)' = Answered(i)
      <4>1. ASSUME NEW q \in Running, q # p
            PROVE  q \in Answering(i)' <=> q \in Answering(i)
        BY <1>10, <1>19, <1>21, <4>1 DEF Answering
      <4>2. p[2] \in Echo => p \in Answering(i)'
        <5>1. p[2] \in Echo => r \in H
          BY <1>8, <1>21
        <5> QED
          BY <1>10, <1>19, <5>1 DEF Answering
      <4>3. p \notin Answered(i) /\ p \notin Answered(i)'
        BY <2>1, <4>2 DEF Answered
      <4>4. ASSUME NEW q \in Running, q # p PROVE q \in Answered(i)' <=> q \in Answered(i)
        BY <2>3, <4>1, <4>4 DEF Answered
      <4>5. \A q : (q \in Answered(i) => q \in Running) /\ (q \in Answered(i)' => q \in Running)
        BY DEF Answered
      <4> QED
        BY <4>3, <4>4, <4>5
    <3> QED
      BY <1>3, <1>7, <1>17, <2>1, <2>2, <2>3, <3>1 DEF CountOK
  <2> QED
    BY <2>6, <2>7, <2>8, <1>14, <1>15, <1>16 DEF IInv, IdOK
\* An answer: it has come back to the sender of the ping.
<1>22. CASE m.cname = "pong"
  <2>1. PongOf(i, m) /\ p = asked[i][1] /\ H = {}
    <3>1. PongOf(i, m)
      BY <1>3, <1>22 DEF PingOf
    <3>2. p = <<p[1], p[2]>> /\ asked[i][1][2] # "*"
      BY <1>3, RunningFacts
    <3>3. m.to.a = asked[i][1][2]
      BY <3>1 DEF PongOf, Back
    <3>4. m.to.a = p[2] /\ m.to.n = p[1]
      BY <1>5, <3>2, <3>3
    <3>5. p = asked[i][1]
      BY <1>3, <1>22, <3>2, <3>4
    <3> QED
      BY <1>8, <1>22, <3>1, <3>5
  <2>2. /\ \A q \in Running : Count(q, i, "ping")' = Count(q, i, "ping")
        /\ \A q \in Running : q # p => Count(q, i, "pong")' = Count(q, i, "pong")
        /\ Count(p, i, "pong")' = Count(p, i, "pong") + 1
    BY <1>12, <1>22
  <2>3. \A x : x \in Queued(i)' <=> x \in Queued(i) /\ x # m
    BY <1>19, <2>1
  <2>4. \A x \in Queued(i)' : wire'[x] = wire[x]
    BY <1>19, <2>1
  <2>5. QueuedOK(i)'
    <3>1. ASSUME NEW x \in Queued(i)'
          PROVE  /\ asked'[i] # Unsent
                 /\ x.body = Encoded(asked'[i][3])
                 /\ PingOf(i, x)' \/ PongOf(i, x)'
                 /\ OnItsWay(x)
      <4>1. x \in Queued(i)
        BY <2>3, <3>1
      <4>2. PingOf(i, x) \/ PongOf(i, x)
        BY <1>17, <4>1 DEF QueuedOK
      <4>3. PingOf(i, x) => PingOf(i, x)'
        BY <1>7, <1>20 DEF PingOf
      <4>4. PongOf(i, x) => PongOf(i, x)'
        BY <1>7, <1>20, <2>2, AddresseesRun DEF PongOf
      <4> QED
        BY <1>7, <1>17, <4>1, <4>2, <4>3, <4>4 DEF QueuedOK
    <3> QED
      BY <3>1 DEF QueuedOK
  <2>6. OnceOK(i)'
    <3>1. ASSUME NEW x \in Queued(i)', x.to.n # "*"
          PROVE  /\ wire'[x] = 1
                 /\ x.cname = "ping" => x.at \in Running /\ Count(x.at, i, "ping")' = 0
                 /\ x.cname = "pong" =>
                      \A o \in Queued(i)' : o.cname = "pong" /\ o.from = x.from => o = x
      <4>1. x \in Queued(i) /\ x # m /\ wire'[x] = wire[x]
        BY <2>3, <2>4, <3>1
      <4>2. x.cname = "ping" => x.at \in Running /\ Count(x.at, i, "ping") = 0
        BY <1>3, <1>17, <3>1, <4>1 DEF OnceOK
      <4>3. /\ wire[x] = 1
            /\ x.cname = "pong" =>
                 \A o \in Queued(i) : o.cname = "pong" /\ o.from = x.from => o = x
        BY <1>17, <3>1, <4>1 DEF OnceOK
      <4> QED
        BY <2>2, <2>3, <4>1, <4>2, <4>3
    <3> QED
      BY <3>1 DEF OnceOK
  <2>7. PICK q : q = m.from
    OBVIOUS
  <2>8. q \in Running /\ q[2] \in Echo /\ Count(q, i, "ping") = 1
    BY <2>1, <2>7, AddresseesRun DEF PongOf
  <2>9. q \in Answering(i) /\ q \notin Answering(i)'
    <3>1. q \in Answering(i)
      BY <1>3, <1>22, <2>7, <2>8 DEF Answering
    <3>2. \A x \in Queued(i) : x.cname = "pong" /\ x.from = q => x = m
      BY <1>3, <1>5, <1>17, <1>22, <2>7 DEF OnceOK
    <3> QED
      BY <2>3, <3>1, <3>2 DEF Answering
  <2>10. ASSUME NEW o \in Running, o # q PROVE o \in Answering(i)' <=> o \in Answering(i)
    BY <2>3, <2>7, <2>10 DEF Answering
  <2>11. Answered(i)' = Answered(i) \cup {q} /\ q \notin Answered(i)
    <3>1. q \in Answered(i)' /\ q \notin Answered(i)
      BY <2>2, <2>8, <2>9 DEF Answered
    <3>2. ASSUME NEW o \in Running, o # q PROVE o \in Answered(i)' <=> o \in Answered(i)
      BY <2>2, <2>10, <3>2 DEF Answered
    <3>3. \A o : (o \in Answered(i) => o \in Running) /\ (o \in Answered(i)' => o \in Running)
      BY DEF Answered
    <3> QED
      BY <3>1, <3>2, <3>3
  <2>12. Cardinality(Answered(i)') = Cardinality(Answered(i)) + 1
    <3>1. IsFiniteSet(Answered(i))
      <4>1. Answered(i) \subseteq Running
        BY DEF Answered
      <4> QED
        BY <4>1, FS_Subset, RoutingAssumption
    <3> QED
      BY <2>11, <3>1, FS_AddElement
  <2>13. CountOK(i)'
    <3>1. Count(p, i, "pong") = Cardinality(Answered(i))
      BY <1>3, <1>17, <2>1 DEF CountOK
    <3>2. Count(p, i, "pong")' = Cardinality(Answered(i)')
      BY <2>2, <2>12, <3>1
    <3> QED
      BY <1>3, <1>7, <1>17, <2>1, <2>2, <3>2 DEF CountOK
  <2> QED
    BY <2>5, <2>6, <2>13, <1>14, <1>15, <1>16 DEF IInv, IdOK
<1> QED
  BY <1>11, <1>21, <1>22

\* The ping that usender gives to its userver.
LEMMA NewPing ==
  ASSUME NEW p \in Running, NEW i \in Ids, NEW dest \in Addresses, NEW n \in Serials,
         NEW o, o = Queue(NewMsg(p, dest, "ping", i, n), Server(p[1]))
  PROVE  /\ o \in Messages /\ o.id = i /\ o.cname = "ping" /\ o.from = p
         /\ o.to = SetDest(p, Blank, dest) /\ o.body = Encoded(n)
         /\ o.at = Server(p[1]) /\ o.hops = 0
<1>1. PICK h : h = SetDest(p, Blank, dest)
  OBVIOUS
<1>2. h \in [a : Apps \cup {"", "*"}, n : Nodes \cup {"", "*"}]
  BY <1>1, NewHeader
<1>3. 0 \in 0..MaxHops
  <2>1. MaxHops \in Nat
    BY RoutingAssumption
  <2> QED
    BY ONLY <2>1
<1>4. n \in Nat
  BY RoutingAssumption
<1>5. PICK d : d = NewMsg(p, dest, "ping", i, n)
  OBVIOUS
<1>6. d = [at |-> p, id |-> i, cname |-> "ping", from |-> p,
           body |-> Tree(n), to |-> h, hops |-> 0]
  BY <1>1, <1>5 DEF NewMsg, Blank
<1>7. Tree(n) \in Bodies /\ Incoming(Str(Tree(n))) = Encoded(n) /\ Encoded(n) \in RawBodies
  <2>1. Tree(n) \in Bodies
    BY ONLY <1>4 DEF Tree, Bodies
  <2> QED
    BY <1>4, <2>1, Encodings
<1>8. d \in Drafts
  <2>1. p \in Places
    BY DEF Places
  <2> QED
    BY <1>2, <1>3, <1>6, <1>7, <2>1 DEF Drafts
<1>9. o = [at |-> Server(p[1]), id |-> d.id, cname |-> d.cname, from |-> d.from,
           body |-> Incoming(Str(d.body)), to |-> d.to, hops |-> d.hops]
  BY <1>5, <1>8, QueueDraft
<1>10. d.body = Tree(n)
  BY <1>6
<1>11. o = [at |-> Server(p[1]), id |-> i, cname |-> "ping", from |-> p,
            body |-> Encoded(n), to |-> h, hops |-> 0]
  BY <1>6, <1>7, <1>9, <1>10
<1>12. Server(p[1]) \in Places
  BY RunningFacts DEF Places
<1>13. o \in Messages
  <2>1. PICK b \in RawBodies : b = Encoded(n)
    BY <1>7
  <2>2. [at |-> Server(p[1]), id |-> i, cname |-> "ping", from |-> p,
         body |-> b, to |-> h, hops |-> 0] \in Messages
    BY <1>2, <1>3, <1>12, IsMessage
  <2> QED
    BY <1>11, <2>1, <2>2
<1> QED
  BY <1>1, <1>11, <1>13

\* usender sends a ping.
LEMMA SendStep ==
  ASSUME IInv, NEW p \in Running, NEW i \in Ids, NEW dest \in Addresses,
         NEW n \in Serials, Send(p, i, dest, n)
  PROVE  IInv'
<1>1. TypeOK /\ PrintedOK /\ \A j \in Ids : IdOK(j)
  BY DEF IInv
<1>2. PICK o : o = Queue(NewMsg(p, dest, "ping", i, n), Server(p[1]))
  OBVIOUS
<1>3. /\ o \in Messages /\ o.id = i /\ o.cname = "ping" /\ o.from = p
      /\ o.to = SetDest(p, Blank, dest) /\ o.body = Encoded(n)
      /\ o.at = Server(p[1]) /\ o.hops = 0
  BY <1>2, NewPing
<1>4. /\ asked[i] = Unsent /\ wire' = wire (+) SetToBag({o})
      /\ asked' = [asked EXCEPT ![i] = <<p, dest, n>>]
      /\ got' = got /\ printed' = printed /\ stalled' = stalled
  BY <1>2 DEF Send
<1>5. asked \in [Ids -> (Running \X Addresses \X Serials) \cup {Unsent}]
  BY <1>1 DEF TypeOK
<1>6. /\ asked' \in [Ids -> (Running \X Addresses \X Serials) \cup {Unsent}]
      /\ asked'[i] = <<p, dest, n>> /\ asked'[i] # Unsent
      /\ \A j \in Ids : j # i => asked'[j] = asked[j]
  BY <1>4, <1>5 DEF Unsent
<1>7. /\ IsABag(wire')
      /\ \A x : x \in DOMAIN wire' <=> x \in DOMAIN wire \/ x = o
      /\ \A x \in DOMAIN wire : x # o => wire'[x] = wire[x]
      /\ o \notin DOMAIN wire => wire'[o] = 1
  <2>1. PICK S : S = {o}
    OBVIOUS
  <2>2. IsABag(wire) /\ wire' = wire (+) SetToBag(S)
    BY <1>1, <1>4, <2>1 DEF TypeOK
  <2>3. /\ IsABag(wire')
        /\ \A x : x \in DOMAIN wire' <=> x \in DOMAIN wire \/ x \in S
        /\ \A x \in DOMAIN wire : x \notin S => wire'[x] = wire[x]
        /\ \A x \in S : x \notin DOMAIN wire => wire'[x] = 1
    BY ONLY <2>2, AddToBag
  <2> QED
    BY <2>1, <2>3
<1>8. TypeOK'
  BY <1>1, <1>3, <1>4, <1>6, <1>7 DEF TypeOK, BagToSet
<1>9. PrintedOK'
  <2>1. ASSUME NEW x \in printed
        PROVE  asked'[x[1]] # Unsent /\ x[2] = Reported(asked'[x[1]][3])
    <3>1. x[1] \in Ids /\ asked[x[1]] # Unsent /\ x[2] = Reported(asked[x[1]][3])
      BY <1>1, <2>1 DEF TypeOK, PrintedOK
    <3> QED
      BY <1>4, <1>6, <3>1
  <2> QED
    BY <1>4, <2>1 DEF PrintedOK
<1>10. \A q, j, c : Count(q, j, c)' = Count(q, j, c)
  BY <1>4 DEF Count
<1>11. ASSUME NEW j \in Ids, j # i PROVE IdOK(j)'
  <2>1. Queued(j)' = Queued(j)
    BY <1>3, <1>7, <1>11 DEF Queued, BagToSet
  <2>2. \A x \in Queued(j) : wire'[x] = wire[x]
    BY <1>3, <1>7, <1>11 DEF Queued, BagToSet
  <2>3. IdOK(j) /\ asked'[j] = asked[j]
    BY <1>1, <1>6, <1>11
  <2> QED
    BY <1>1, <1>10, <2>1, <2>2, <2>3, Untouched
<1>12. QueuedOK(i) /\ CountOK(i)
  BY <1>1 DEF IdOK
\* Nothing of ping i was there before.
<1>13. Queued(i) = {} /\ o \notin DOMAIN wire
  <2>1. Queued(i) = {}
    BY <1>4, <1>12 DEF QueuedOK
  <2> QED
    BY <1>3, <2>1 DEF Queued, BagToSet
<1>14. Queued(i)' = {o} /\ wire'[o] = 1
  <2>1. \A x : x \in Queued(i)' <=> x = o
    BY <1>3, <1>7, <1>13 DEF Queued, BagToSet
  <2> QED
    BY <1>7, <1>13, <2>1
<1>15. \A q \in Running : Count(q, i, "ping") = 0 /\ Count(q, i, "pong") = 0
  BY <1>4, <1>12 DEF CountOK
<1>16. QueuedOK(i)'
  <2>1. Header(i)' = SetDest(p, Blank, dest)
    BY <1>6 DEF Header
  <2>2. PingOf(i, o)'
    BY <1>3, <1>6, <2>1 DEF PingOf
  <2>3. OnItsWay(o)
    BY <1>3, ServerFacts DEF OnItsWay
  <2>4. o.body = Encoded(asked'[i][3])
    BY <1>3, <1>6
  <2> QED
    BY <1>6, <1>14, <2>2, <2>3, <2>4 DEF QueuedOK
<1>17. OnceOK(i)'
  <2>1. \A q \in Running : Count(q, i, "ping")' = 0
    BY <1>10, <1>15
  <2>2. o.at \notin Running
    BY <1>3, ServerFacts
  <2> QED
    BY <1>3, <1>14, <2>1, <2>2 DEF OnceOK
<1>18. CountOK(i)'
  <2>1. \A q \in Running : Count(q, i, "ping")' = 0 /\ Count(q, i, "pong")' = 0
    BY <1>10, <1>15
  <2>2. Answered(i)' = {}
    BY <2>1 DEF Answered
  <2>3. Cardinality(Answered(i)') = 0
    BY <2>2, FS_EmptySet
  <2>4. asked'[i][1] = p
    BY <1>6
  <2> QED
    BY <2>1, <2>3, <2>4 DEF CountOK
<1> QED
  BY <1>8, <1>9, <1>11, <1>16, <1>17, <1>18 DEF IInv, IdOK

\* A step that moves nothing.
LEMMA NothingMoves ==
  ASSUME IInv, UNCHANGED <<asked, wire, got, printed>>, TypeOK'
  PROVE  IInv'
<1>1. TypeOK /\ PrintedOK /\ \A j \in Ids : IdOK(j)
  BY DEF IInv
<1>2. PrintedOK'
  BY <1>1 DEF PrintedOK
<1>3. ASSUME NEW j \in Ids PROVE IdOK(j)'
  <2>1. Queued(j)' = Queued(j) /\ \A q, c : Count(q, j, c)' = Count(q, j, c)
    BY DEF Queued, Count
  <2> QED
    BY <1>1, <2>1, Untouched
<1> QED
  BY <1>2, <1>3 DEF IInv

LEMMA StutterStep == ASSUME IInv, UNCHANGED vars PROVE IInv'
<1>1. TypeOK'
  BY DEF IInv, vars, TypeOK
<1> QED
  BY <1>1, NothingMoves DEF vars

\* What does not stall is queued.
LEMMA StillQueued == BagToSet(wire (-) stalled) \subseteq BagToSet(wire)
BY DEF (-), BagToSet

\* A message stalls.
LEMMA StallStep ==
  ASSUME IInv, NEW m \in BagToSet(wire (-) stalled), Stall(m)
  PROVE  IInv'
<1>1. /\ stalled' = stalled (+) SetToBag({m})
      /\ UNCHANGED <<asked, wire, got, printed>>
  BY DEF Stall
<1>2. TypeOK /\ m \in Messages
  BY StillQueued DEF IInv, TypeOK
<1>3. PICK S : S = {m}
  OBVIOUS
<1>4. IsABag(stalled) /\ stalled' = stalled (+) SetToBag(S)
  BY <1>1, <1>2, <1>3 DEF TypeOK
<1>5. IsABag(stalled') /\ \A x : x \in DOMAIN stalled' <=> x \in DOMAIN stalled \/ x \in S
  BY ONLY <1>4, AddToBag
<1>6. IsABag(stalled') /\ BagToSet(stalled') \subseteq Messages
  BY <1>2, <1>3, <1>5 DEF TypeOK, BagToSet
<1>7. TypeOK'
  BY <1>1, <1>2, <1>6 DEF TypeOK
<1> QED
  BY <1>1, <1>7, NothingMoves

LEMMA EveryStep == IInv /\ [Next]_vars => IInv'
<1> SUFFICES ASSUME IInv, [Next]_vars PROVE IInv'
  OBVIOUS
<1>1. CASE UNCHANGED vars
  BY <1>1, StutterStep
<1>2. ASSUME NEW p \in Running, NEW i \in Ids, NEW dest \in Addresses, NEW n \in Serials,
             Send(p, i, dest, n)
      PROVE  IInv'
  BY <1>2, SendStep
<1>3. ASSUME NEW i \in Ids, Handle(i) PROVE IInv'
  <2>1. PICK m \in BagToSet(wire) : AtServer(m) \/ AtApp(m)
    BY <1>3, StillQueued DEF Handle
  <2> QED
    BY <2>1, ServerStep, AppStep
<1>4. ASSUME NEW m \in BagToSet(wire (-) stalled), Stall(m) PROVE IInv'
  BY <1>4, StallStep
<1> QED
  BY <1>1, <1>2, <1>3, <1>4 DEF Next

-----------------------------------------------------------------------------
(* The theorems.                                                           *)

\* The invariant of the way of one ping: where Msg::updateDest() and
\* NetServer::handleAny() can have brought it, and who has seen it.
THEOREM RoutingInvariant == Spec => []IInv
<1>1. Init => IInv
  BY StartsRight
<1>2. IInv /\ [Next]_vars => IInv'
  BY EveryStep
<1> QED
  BY <1>1, <1>2, PTL DEF Spec

\* Every queued message is an id, a cname and a complete or empty address with a
\* body that is the text of a line: what a process writes with setDest() and
\* putOutQueue() and no more (msg.cpp:64-75, session.cpp:292-300).
THEOREM RoutingTypeOK == Spec => []TypeOK
<1>1. IInv => TypeOK
  BY DEF IInv
<1> QED
  BY <1>1, RoutingInvariant, PTL

LEMMA Addressed == IInv => OnlyAddressees
<1> SUFFICES ASSUME IInv, NEW i \in Ids, NEW q \in Running
             PROVE  /\ Count(q, i, "ping") > 0 =>
                         /\ q \in Addressees(asked[i][1], asked[i][2])
                         /\ Count(q, i, "ping") = 1
                    /\ Count(q, i, "pong") > 0 =>
                         /\ q = asked[i][1]
                         /\ Count(q, i, "pong") <=
                              Cardinality({r \in Addressees(asked[i][1], asked[i][2]) :
                                             r[2] \in Echo})
  BY DEF OnlyAddressees
<1>1. CountOK(i)
  BY DEF IInv, IdOK
<1>2. Count(q, i, "ping") > 0 => /\ q \in Addressees(asked[i][1], asked[i][2])
                                 /\ Count(q, i, "ping") = 1
  BY <1>1 DEF CountOK
<1>3. ASSUME Count(q, i, "pong") > 0
      PROVE  /\ q = asked[i][1]
             /\ Count(q, i, "pong") <=
                  Cardinality({r \in Addressees(asked[i][1], asked[i][2]) :
                                 r[2] \in Echo})
  <2> DEFINE A == {r \in Addressees(asked[i][1], asked[i][2]) : r[2] \in Echo}
  <2>1. Count(q, i, "pong") # 0
    BY <1>3
  <2>2. q = asked[i][1] /\ Count(q, i, "pong") = Cardinality(Answered(i))
    BY <1>1, <2>1 DEF CountOK
  <2>3. Answered(i) \subseteq A
    BY <1>1 DEF CountOK, Answered
  <2>4. IsFiniteSet(A)
    <3>1. A \subseteq Running /\ IsFiniteSet(Running)
      BY RoutingAssumption, AddresseesRun
    <3> QED
      BY <3>1, FS_Subset
  <2> HIDE DEF A
  <2>5. Cardinality(Answered(i)) <= Cardinality(A)
    BY <2>3, <2>4, FS_Subset
  <2> QED
    BY <2>2, <2>5 DEF A
<1> QED
  BY <1>2, <1>3

\* Whatever the nodes, applications and addresses are: a ping is given to the
\* handlers of applications its address stands for, to those of each at most once;
\* a pong only to those of the process that asked, and no more often than there
\* are addressees that answer (Msg::setDest and updateDest, msg.cpp:64-75 and
\* 171-219, and NetServer::handleAny, netserver.cpp:66-140).
THEOREM RoutingOnlyAddressees == Spec => []OnlyAddressees
BY RoutingInvariant, Addressed, PTL

\* Whatever is not for "*" goes from node to node once at most: the route to a node
\* is that node (NetServer::handleAny, netserver.cpp:66-140).
THEOREM RoutingOneHop == Spec => []OneHop
<1>1. ASSUME IInv, NEW m \in BagToSet(wire), m.to.n # "*" PROVE m.hops <= 1
  <2>1. PICK i : i = m.id
    OBVIOUS
  <2>2. OnItsWay(m)
    BY <1>1, <2>1, QueuedFacts
  <2>3. m.hops = 0 \/ m.hops = 1
    BY <1>1, <2>2 DEF OnItsWay
  <2> QED
    BY ONLY <2>3
<1>2. IInv => OneHop
  BY <1>1 DEF OneHop
<1> QED
  BY <1>2, RoutingInvariant, PTL

\* A pong that usender reports carries the serial of its own ping: four processes
\* may have written the body and uecho copied it, and it was encoded once all the
\* same (Msg::str, charvec and pbody, msg.cpp:18-55, 98-140 and 262-278).  A serial
\* above UIntMax is reported as 0 (usender/main.cpp:28).
THEOREM RoutingSerialComesBack == Spec => []SerialComesBack
<1>1. IInv => SerialComesBack
  BY DEF IInv, PrintedOK, SerialComesBack, Reported
<1> QED
  BY <1>1, RoutingInvariant, PTL
=============================================================================
