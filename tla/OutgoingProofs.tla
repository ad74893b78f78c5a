--------------------------- MODULE OutgoingProofs ----------------------------
(***************************************************************************)
(* The safety properties of Outgoing for every set of hosts, whatever      *)
(* addresses they share, and every number of wanted connections.           *)
(***************************************************************************)
EXTENDS Outgoing, FiniteSetTheorems, TLAPS

\* Sets of sessions are finite, and the unauthenticated ones are no more than
\* all of them.
LEMMA SessionSets ==
  ASSUME NEW a
  PROVE  /\ IsFiniteSet(Sessions(a)) /\ IsFiniteSet(Unauth(a))
         /\ Cardinality(Sessions(a)) \in Nat /\ Cardinality(Unauth(a)) \in Nat
         /\ Cardinality(Unauth(a)) <= Cardinality(Sessions(a))
<1>1. Sessions(a) \subseteq Ids /\ Unauth(a) \subseteq Sessions(a)
  BY DEF Sessions, Unauth, Live
<1>2. IsFiniteSet(Sessions(a))
  BY <1>1, OutgoingAssumption, FS_Subset
<1> QED
  BY <1>1, <1>2, FS_Subset, FS_CardinalityType

\* A step that adds no unauthenticated session.
LEMMA UnauthShrinks ==
  ASSUME UnauthBounded, \A a \in Addrs : Unauth(a)' \subseteq Unauth(a)
  PROVE  UnauthBounded'
<1> SUFFICES ASSUME NEW a \in Addrs PROVE Cardinality(Unauth(a)') <= Wanted
  BY DEF UnauthBounded
<1>1. IsFiniteSet(Unauth(a)) /\ Cardinality(Unauth(a)) \in Nat
  BY SessionSets
<1>2. Unauth(a)' \subseteq Unauth(a)
  OBVIOUS
<1>3. /\ Cardinality(Unauth(a)') <= Cardinality(Unauth(a))
      /\ IsFiniteSet(Unauth(a)')
  BY <1>1, <1>2, FS_Subset
<1>4. Cardinality(Unauth(a)') \in Nat
  BY <1>3, FS_CardinalityType
<1>5. Cardinality(Unauth(a)) <= Wanted
  BY DEF UnauthBounded
<1> QED
  BY <1>1, <1>3, <1>4, <1>5, OutgoingAssumption

\* The steps that do not touch the sessions.
LEMMA SessionsKept ==
  ASSUME IInv, sess' = sess
  PROVE  UnauthBounded' /\ OwnAddress' /\ Live' = Live
<1>1. Live' = Live /\ \A a : Unauth(a)' = Unauth(a)
  BY DEF Live, Sessions, Unauth
<1>2. UnauthBounded'
  BY <1>1, UnauthShrinks DEF IInv
<1>3. OwnAddress'
  BY <1>1 DEF IInv, OwnAddress
<1> QED
  BY <1>1, <1>2, <1>3

\* The timer, its handlers and the clock.
LEMMA TimerPreserves ==
  IInv /\ (TimerExpires \/ PokeRuns \/ TickAborted \/ (\E h \in Hosts : Ripens(h)))
    => IInv'
<1> SUFFICES ASSUME IInv,
                    TimerExpires \/ PokeRuns \/ TickAborted
                      \/ (\E h \in Hosts : Ripens(h))
             PROVE  IInv'
  OBVIOUS
<1>1. sess' = sess /\ status' = status /\ resolving' = resolving
  BY DEF TimerExpires, PokeRuns, TickAborted, Ripens
<1>2. UnauthBounded' /\ OwnAddress' /\ Live' = Live
  BY <1>1, SessionsKept
<1>3. TypeOK'
  <2>1. CASE TimerExpires
    BY <1>1, <2>1 DEF IInv, TypeOK, TimerExpires
  <2>2. CASE PokeRuns
    BY <1>1, <2>2 DEF IInv, TypeOK, PokeRuns
  <2>3. CASE TickAborted
    BY <1>1, <2>3 DEF IInv, TypeOK, TickAborted
  <2>4. ASSUME NEW h \in Hosts, Ripens(h) PROVE TypeOK'
    BY <1>1, <2>4 DEF IInv, TypeOK, Ripens
  <2> QED
    BY <2>1, <2>2, <2>3, <2>4
<1>4. NoOrphan' /\ NoLostResolution'
  BY <1>1, <1>2 DEF IInv, NoOrphan, NoLostResolution
<1> QED
  BY <1>2, <1>3, <1>4 DEF IInv

\* A tick moves hosts to "resolving" and counts the resolutions.
LEMMA TickPreserves == IInv /\ Tick => IInv'
<1> SUFFICES ASSUME IInv, Tick PROVE IInv'
  OBVIOUS
<1> DEFINE hs == {h \in Hosts : NeedsResolving(h)}
<1>1. /\ sess' = sess /\ pokes' = pokes /\ timer' = "armed"
      /\ status' = [h \in Hosts |-> IF h \in hs THEN "resolving" ELSE status[h]]
      /\ ripe' = [h \in Hosts |-> ripe[h] /\ h \notin hs]
      /\ resolving' = [h \in Hosts |-> IF h \in hs THEN resolving[h] + 1
                                                   ELSE resolving[h]]
  BY DEF Tick
<1> HIDE DEF hs
<1>2. UnauthBounded' /\ OwnAddress' /\ Live' = Live
  BY <1>1, SessionsKept
<1>3. TypeOK'
  <2>1. /\ status \in [Hosts -> HostStatus] /\ ripe \in [Hosts -> BOOLEAN]
        /\ resolving \in [Hosts -> Nat]
        /\ pokes \in Nat /\ sess \in [Ids -> SessionRecord \cup {Free}]
    BY DEF IInv, TypeOK
  <2>2. status' \in [Hosts -> HostStatus]
    BY <1>1, <2>1 DEF HostStatus
  <2>3. ripe' \in [Hosts -> BOOLEAN]
    BY <1>1
  <2>4. resolving' \in [Hosts -> Nat]
    BY <1>1, <2>1
  <2> QED
    BY <1>1, <2>1, <2>2, <2>3, <2>4 DEF TypeOK
<1>4. NoOrphan'
  BY <1>1, <1>2 DEF IInv, NoOrphan
<1>5. NoLostResolution'
  BY <1>1 DEF IInv, NoLostResolution, TypeOK
<1> QED
  BY <1>2, <1>3, <1>4, <1>5 DEF IInv

\* An answer of the resolver that does not create sessions: it may say
\* "connecting" or "connected" only if the host has a session.
LEMMA AnswerPreserves ==
  ASSUME IInv, NEW h \in Hosts, NEW hs \in HostStatus,
         Answered(h), SetStatus(h, hs), sess' = sess,
         timer' = timer, pokes' \in Nat, hs # "resolving",
         Alone(h) /\ hs \in {"connecting", "connected"} =>
           \E i \in Live : sess[i].owner = h
  PROVE  IInv'
<1>1. UnauthBounded' /\ OwnAddress' /\ Live' = Live
  BY SessionsKept
<1>2. /\ status' = [status EXCEPT ![h] = hs] /\ ripe' = [ripe EXCEPT ![h] = FALSE]
      /\ resolving[h] > 0
      /\ resolving' = [resolving EXCEPT ![h] = resolving[h] - 1]
  BY DEF Answered, SetStatus
<1>3. /\ status \in [Hosts -> HostStatus] /\ ripe \in [Hosts -> BOOLEAN]
      /\ resolving \in [Hosts -> Nat]
  BY DEF IInv, TypeOK
<1>4. TypeOK'
  <2>1. resolving' \in [Hosts -> Nat]
    BY <1>2, <1>3
  <2>2. status' \in [Hosts -> HostStatus] /\ ripe' \in [Hosts -> BOOLEAN]
    BY <1>2, <1>3
  <2> QED
    BY <2>1, <2>2 DEF IInv, TypeOK
<1>5. NoOrphan'
  BY <1>1, <1>2, <1>3 DEF IInv, NoOrphan
<1>6. NoLostResolution'
  BY <1>2, <1>3 DEF IInv, NoLostResolution
<1> QED
  BY <1>1, <1>4, <1>5, <1>6 DEF IInv

\* A failed resolution.
LEMMA ResolveFailsPreserves ==
  ASSUME IInv, NEW h \in Hosts, ResolveFails(h)
  PROVE  IInv'
<1>1. /\ Answered(h) /\ SetStatus(h, "resolving_error")
      /\ sess' = sess /\ timer' = timer /\ pokes' \in Nat
  BY DEF ResolveFails, Poke, IInv, TypeOK
<1>2. "resolving_error" \in HostStatus
  BY DEF HostStatus
<1> QED
  BY <1>1, <1>2, AnswerPreserves

\* The sessions to an address of a host h that shares none were created for h.
LEMMA SessionsAreOwn ==
  ASSUME IInv, NEW h \in Hosts, Alone(h), NEW a \in AddrsOf[h], NEW i \in Sessions(a)
  PROVE  i \in Live /\ sess[i].owner = h
<1>1. i \in Live /\ sess[i].addr = a /\ sess[i] \in SessionRecord
  BY DEF Sessions, Live, IInv, TypeOK
<1>2. sess[i].owner \in Hosts /\ a \in AddrsOf[sess[i].owner]
  BY <1>1 DEF IInv, OwnAddress, SessionRecord
<1> QED
  BY <1>1, <1>2 DEF Alone

\* The host turns out to be connected.
LEMMA ResolvedConnectedPreserves ==
  ASSUME IInv, NEW h \in Hosts, NEW a \in AddrsOf[h], ResolvedConnected(h, a)
  PROVE  IInv'
<1>1. /\ Answered(h) /\ SetStatus(h, "connected")
      /\ sess' = sess /\ timer' = timer /\ pokes' \in Nat
  BY DEF ResolvedConnected, IInv, TypeOK
<1>2. PICK i \in Sessions(a) : TRUE
  BY DEF ResolvedConnected
<1>3. Alone(h) => \E j \in Live : sess[j].owner = h
  BY <1>2, SessionsAreOwn
<1>4. "connected" \in HostStatus
  BY DEF HostStatus
<1> QED
  BY <1>1, <1>3, <1>4, AnswerPreserves

\* The host has to wait for sessions that exist already.
LEMMA ResolvedWaitsPreserves ==
  ASSUME IInv, NEW h \in Hosts, NEW a \in AddrsOf[h], ResolvedWaits(h, a)
  PROVE  IInv'
<1>1. /\ Answered(h) /\ SetStatus(h, "connecting")
      /\ sess' = sess /\ timer' = timer /\ pokes' \in Nat
  BY DEF ResolvedWaits, IInv, TypeOK
<1>2. PICK i \in Sessions(a) : TRUE
  BY DEF ResolvedWaits, MustWait, Unauth
<1>3. Alone(h) => \E j \in Live : sess[j].owner = h
  BY <1>2, SessionsAreOwn
<1>4. "connecting" \in HostStatus
  BY DEF HostStatus
<1> QED
  BY <1>1, <1>3, <1>4, AnswerPreserves

\* The number of sessions to create is what the address can still take.
LEMMA CreationFits ==
  ASSUME IInv, NEW a \in Addrs, ~MustWait(a)
  PROVE  /\ SessionsToCreate(a) \in Nat \ {0}
         /\ Cardinality(Unauth(a)) + SessionsToCreate(a) <= Wanted
<1>1. /\ Cardinality(Sessions(a)) \in Nat /\ Cardinality(Unauth(a)) \in Nat
      /\ Cardinality(Unauth(a)) <= Cardinality(Sessions(a))
      /\ IsFiniteSet(Unauth(a))
  BY SessionSets
<1>2. CASE Cardinality(Sessions(a)) >= Wanted
  <2>1. Unauth(a) = {}
    BY <1>2 DEF MustWait
  <2>2. Cardinality(Unauth(a)) = 0
    BY <2>1, FS_EmptySet
  <2> QED
    BY <1>2, <2>2, OutgoingAssumption DEF SessionsToCreate
<1>3. CASE Cardinality(Sessions(a)) < Wanted
  BY <1>1, <1>3, OutgoingAssumption DEF SessionsToCreate
<1> QED
  BY <1>1, <1>2, <1>3, OutgoingAssumption

\* The missing sessions are created.
LEMMA ResolvedCreatesPreserves ==
  ASSUME IInv, NEW h \in Hosts, NEW a \in AddrsOf[h], ResolvedCreates(h, a)
  PROVE  IInv'
<1> DEFINE r == [owner |-> h, addr |-> a, auth |-> FALSE]
<1>1. PICK new \in SUBSET (Ids \ Live) :
        /\ Cardinality(new) = SessionsToCreate(a)
        /\ sess' = [i \in Ids |-> IF i \in new THEN r ELSE sess[i]]
  BY DEF ResolvedCreates
<1>2. /\ resolving[h] > 0 /\ resolving' = [resolving EXCEPT ![h] = resolving[h] - 1]
      /\ status' = [status EXCEPT ![h] = "connecting"]
      /\ ripe' = [ripe EXCEPT ![h] = FALSE]
      /\ timer' = timer /\ pokes' = pokes /\ ~MustWait(a)
  BY DEF ResolvedCreates, Answered, SetStatus
<1>3. /\ a \in Addrs /\ r \in SessionRecord /\ r # Free
      /\ r.owner = h /\ r.addr = a /\ r.auth = FALSE
  <2>1. a \in Addrs
    BY OutgoingAssumption
  <2>2. r.owner = h /\ r.addr = a
    OBVIOUS
  <2>3. r.auth = FALSE
    BY Zenon
  <2>4. r \in SessionRecord
    BY <2>1 DEF SessionRecord
  <2>5. r # Free
    BY <2>4, OutgoingAssumption
  <2> QED
    BY <2>1, <2>2, <2>3, <2>4, <2>5
<1>4. /\ status \in [Hosts -> HostStatus] /\ ripe \in [Hosts -> BOOLEAN]
      /\ resolving \in [Hosts -> Nat] /\ pokes \in Nat
      /\ timer \in {"armed", "due", "aborted", "none"}
      /\ sess \in [Ids -> SessionRecord \cup {Free}]
  BY DEF IInv, TypeOK
<1> HIDE DEF r
<1>5. TypeOK'
  <2>1. sess' \in [Ids -> SessionRecord \cup {Free}]
    BY <1>1, <1>3, <1>4
  <2>2. resolving' \in [Hosts -> Nat]
    BY <1>2, <1>4
  <2>3. status' \in [Hosts -> HostStatus] /\ ripe' \in [Hosts -> BOOLEAN]
    BY <1>2, <1>4 DEF HostStatus
  <2> QED
    BY <1>2, <1>4, <2>1, <2>2, <2>3 DEF TypeOK
<1>6. /\ \A i \in new : i \in Ids /\ sess'[i] = r /\ i \in Live' /\ i \notin Live
      /\ \A i \in Ids \ new : sess'[i] = sess[i] /\ (i \in Live' <=> i \in Live)
  BY <1>1, <1>3 DEF Live
<1>7. UnauthBounded'
  <2> SUFFICES ASSUME NEW b \in Addrs PROVE Cardinality(Unauth(b)') <= Wanted
    BY DEF UnauthBounded
  <2>1. CASE b = a
    <3>1. Unauth(a)' = Unauth(a) \cup new
      <4>1. ASSUME NEW i \in Unauth(a)' PROVE i \in Unauth(a) \cup new
        BY <1>6 DEF Unauth, Sessions, Live
      <4>2. ASSUME NEW i \in Unauth(a) PROVE i \in Unauth(a)'
        BY <1>6 DEF Unauth, Sessions, Live
      <4>3. ASSUME NEW i \in new PROVE i \in Unauth(a)'
        BY <1>3, <1>6 DEF Unauth, Sessions
      <4> QED
        BY <4>1, <4>2, <4>3
    <3>2. Unauth(a) \cap new = {}
      BY <1>6 DEF Unauth, Sessions
    <3>3. /\ SessionsToCreate(a) \in Nat \ {0}
          /\ Cardinality(Unauth(a)) + SessionsToCreate(a) <= Wanted
      BY <1>2, <1>3, CreationFits
    <3>4. /\ IsFiniteSet(Unauth(a)) /\ Cardinality(Unauth(a)) \in Nat
          /\ IsFiniteSet(new) /\ Cardinality(new) = SessionsToCreate(a)
      <4>1. IsFiniteSet(new)
        BY OutgoingAssumption, FS_Subset
      <4> QED
        BY <1>1, <4>1, SessionSets
    <3>5. Cardinality(Unauth(a) \cup new) =
            Cardinality(Unauth(a)) + Cardinality(new)
              - Cardinality(Unauth(a) \cap new)
      BY <3>4, FS_Union
    <3>6. Cardinality(Unauth(a) \cap new) = 0
      BY <3>2, FS_EmptySet
    <3> QED
      BY <2>1, <3>1, <3>3, <3>4, <3>5, <3>6
  <2>2. CASE b # a
    <3>1. Unauth(b)' = Unauth(b)
      BY <1>3, <1>6, <2>2 DEF Unauth, Sessions, Live
    <3> QED
      BY <3>1 DEF IInv, UnauthBounded
  <2> QED
    BY <2>1, <2>2
<1>8. OwnAddress'
  BY <1>3, <1>6 DEF IInv, OwnAddress, Live
<1>9. NoOrphan'
  <2> SUFFICES ASSUME NEW g \in Hosts, Alone(g),
                      status'[g] \in {"connecting", "connected"}
               PROVE  \E i \in Live' : sess'[i].owner = g
    BY DEF NoOrphan
  <2>1. CASE g = h
    <3>1. new # {}
      <4>1. Cardinality(new) # 0
        BY <1>1, <1>2, <1>3, CreationFits
      <4> QED
        BY <4>1, FS_EmptySet
    <3> QED
      BY <2>1, <3>1, <1>3, <1>6
  <2>2. CASE g # h
    <3>1. PICK i \in Live : sess[i].owner = g
      BY <2>2, <1>2, <1>4 DEF IInv, NoOrphan
    <3>2. i \in Ids \ new
      BY <1>6 DEF Live
    <3> QED
      BY <3>1, <3>2, <1>6
  <2> QED
    BY <2>1, <2>2
<1>10. NoLostResolution'
  BY <1>2, <1>4 DEF IInv, NoLostResolution
<1> QED
  BY <1>5, <1>7, <1>8, <1>9, <1>10 DEF IInv

\* A session is authenticated.
LEMMA AuthenticatedPreserves ==
  ASSUME IInv, NEW i \in Ids, Authenticated(i)
  PROVE  IInv'
<1>1. /\ i \in Live /\ sess[i] \in SessionRecord
      /\ sess' = [sess EXCEPT ![i] = [sess[i] EXCEPT !.auth = TRUE]]
      /\ UNCHANGED <<status, ripe, timer, pokes, resolving>>
  BY DEF Authenticated, Live, IInv, TypeOK
<1> DEFINE r == [sess[i] EXCEPT !.auth = TRUE]
<1>2. /\ r \in SessionRecord /\ r.auth = TRUE
      /\ r.owner = sess[i].owner /\ r.addr = sess[i].addr /\ r # Free
  BY <1>1, OutgoingAssumption DEF SessionRecord
<1>3. sess' = [sess EXCEPT ![i] = r] /\ sess \in [Ids -> SessionRecord \cup {Free}]
  BY <1>1 DEF IInv, TypeOK
<1> HIDE DEF r
<1>4. /\ Live' = Live /\ sess'[i] = r
      /\ \A j \in Ids : j # i => sess'[j] = sess[j]
  BY <1>1, <1>2, <1>3 DEF Live
<1>5. TypeOK'
  BY <1>1, <1>2, <1>3 DEF IInv, TypeOK
<1>6. UnauthBounded'
  <2>1. ASSUME NEW a PROVE Unauth(a)' \subseteq Unauth(a)
    BY <1>2, <1>4 DEF Unauth, Sessions, Live
  <2> QED
    BY <2>1, UnauthShrinks DEF IInv
<1>7. OwnAddress'
  BY <1>1, <1>2, <1>4 DEF IInv, OwnAddress, Live
<1>8. NoOrphan'
  BY <1>1, <1>2, <1>4 DEF IInv, NoOrphan, Live
<1>9. NoLostResolution'
  BY <1>1 DEF IInv, NoLostResolution
<1> QED
  BY <1>5, <1>6, <1>7, <1>8, <1>9 DEF IInv

\* A session closes: its host becomes "closed", which needs no session, and the
\* other hosts keep theirs.
LEMMA SessionClosedPreserves ==
  ASSUME IInv, NEW i \in Ids, SessionClosed(i)
  PROVE  IInv'
<1> DEFINE h == sess[i].owner
<1>1. /\ i \in Live /\ sess[i] \in SessionRecord /\ h \in Hosts
      /\ sess' = [sess EXCEPT ![i] = Free]
      /\ status' = [status EXCEPT ![h] = "closed"]
      /\ ripe' = [ripe EXCEPT ![h] = FALSE]
      /\ timer' = timer /\ resolving' = resolving /\ pokes' = pokes + 1
  BY DEF SessionClosed, SetStatus, Poke, Live, IInv, TypeOK, SessionRecord
<1>2. /\ status \in [Hosts -> HostStatus] /\ ripe \in [Hosts -> BOOLEAN]
      /\ resolving \in [Hosts -> Nat] /\ pokes \in Nat
      /\ timer \in {"armed", "due", "aborted", "none"}
      /\ sess \in [Ids -> SessionRecord \cup {Free}]
  BY DEF IInv, TypeOK
<1>3. /\ Live' = Live \ {i}
      /\ \A j \in Live' : sess'[j] = sess[j]
  BY <1>1, <1>2 DEF Live
<1>4. TypeOK'
  <2>1. status' \in [Hosts -> HostStatus] /\ ripe' \in [Hosts -> BOOLEAN]
    BY <1>1, <1>2 DEF HostStatus
  <2>2. pokes' \in Nat /\ sess' \in [Ids -> SessionRecord \cup {Free}]
    BY <1>1, <1>2
  <2> QED
    BY <1>1, <1>2, <2>1, <2>2 DEF TypeOK
<1>5. UnauthBounded'
  <2>1. ASSUME NEW a PROVE Unauth(a)' \subseteq Unauth(a)
    BY <1>3 DEF Unauth, Sessions
  <2> QED
    BY <2>1, UnauthShrinks DEF IInv
<1>6. OwnAddress'
  BY <1>3 DEF IInv, OwnAddress
<1>7. NoOrphan'
  <2> SUFFICES ASSUME NEW g \in Hosts, Alone(g),
                      status'[g] \in {"connecting", "connected"}
               PROVE  \E j \in Live' : sess'[j].owner = g
    BY DEF NoOrphan
  <2>1. g # h /\ status[g] \in {"connecting", "connected"}
    BY <1>1, <1>2
  <2>2. PICK j \in Live : sess[j].owner = g
    BY <2>1 DEF IInv, NoOrphan
  <2> QED
    BY <2>1, <2>2, <1>3
<1>8. NoLostResolution'
  BY <1>1, <1>2 DEF IInv, NoLostResolution
<1> QED
  BY <1>4, <1>5, <1>6, <1>7, <1>8 DEF IInv

\* The manager starts with no sessions and every host "initial".
LEMMA InitIInv == Init => IInv
<1> SUFFICES ASSUME Init PROVE IInv
  OBVIOUS
<1>1. Live = {}
  BY DEF Init, Live
<1>2. TypeOK
  BY DEF Init, TypeOK, HostStatus
<1>3. UnauthBounded
  <2> SUFFICES ASSUME NEW a \in Addrs PROVE Cardinality(Unauth(a)) <= Wanted
    BY DEF UnauthBounded
  <2>1. Unauth(a) = {}
    BY <1>1 DEF Unauth, Sessions
  <2> QED
    BY <2>1, FS_EmptySet, OutgoingAssumption
<1>4. NoOrphan /\ NoLostResolution /\ OwnAddress
  BY <1>1 DEF Init, NoOrphan, NoLostResolution, OwnAddress
<1> QED
  BY <1>2, <1>3, <1>4 DEF IInv

\* A step of some other part of the program.
LEMMA StutterPreserves == IInv /\ UNCHANGED vars => IInv'
<1> SUFFICES ASSUME IInv, UNCHANGED vars PROVE IInv'
  OBVIOUS
<1>1. UnauthBounded' /\ OwnAddress' /\ Live' = Live
  BY SessionsKept DEF vars
<1> QED
  BY <1>1 DEF IInv, vars, TypeOK, NoOrphan, NoLostResolution

\* The inductive invariant of the manager.
THEOREM OutgoingInvariant == Spec => []IInv
<1>1. IInv /\ Next => IInv'
  BY TimerPreserves, TickPreserves, ResolveFailsPreserves,
     ResolvedConnectedPreserves, ResolvedWaitsPreserves,
     ResolvedCreatesPreserves, AuthenticatedPreserves, SessionClosedPreserves
  DEF Next
<1> QED
  BY InitIInv, <1>1, StutterPreserves, PTL DEF Spec

\* An address never has more than Wanted unauthenticated outgoing sessions.
THEOREM OutgoingUnauthBounded == Spec => []UnauthBounded
<1>1. IInv => UnauthBounded
  BY DEF IInv
<1> QED
  BY <1>1, OutgoingInvariant, PTL

\* A host that is "connecting" or "connected" has a session of its own, provided
\* no two host names resolve to the same address.
THEOREM OutgoingNoOrphan == Spec => []NoOrphan
<1>1. IInv => NoOrphan
  BY DEF IInv
<1> QED
  BY <1>1, OutgoingInvariant, PTL

\* A host that is "resolving" has a resolution outstanding.
THEOREM OutgoingNoLostResolution == Spec => []NoLostResolution
<1>1. IInv => NoLostResolution
  BY DEF IInv
<1> QED
  BY <1>1, OutgoingInvariant, PTL

\* Every variable of the manager keeps its type.
THEOREM OutgoingTypeOK == Spec => []TypeOK
<1>1. IInv => TypeOK
  BY DEF IInv
<1> QED
  BY <1>1, OutgoingInvariant, PTL
=============================================================================
