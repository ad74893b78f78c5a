------------------------------ MODULE Outgoing -------------------------------
(***************************************************************************)
(* OutgoingManager (src/uzel/OutgoingManager.cpp): the component that      *)
(* keeps outgoing connections to the configured hosts open.  A timer ticks *)
(* every RefreshHostStatus_sec; a tick starts the resolution of the hosts  *)
(* that need one; the answer of the resolver pool creates sessions; a      *)
(* session that closes, or a failed resolution, pokes the timer.           *)
(*                                                                         *)
(* Sessions are seen from the manager: they exist in m_ipToSession from    *)
(* their creation to s_closed, are authenticated at some moment in         *)
(* between, and belong to the host that s_closed will mark as closed.      *)
(* Incoming sessions are skipped by connectResolved() and left out.        *)
(***************************************************************************)
EXTENDS Naturals, FiniteSets

CONSTANTS
  Hosts,         \* m_connectTo
  Addrs,         \* IP addresses
  AddrsOf,       \* AddrsOf[h]: what the name of host h may resolve to
  Ids,           \* outgoing sessions that can exist at a time
  Wanted,        \* m_wantedConnections
  MaxPokes,      \* bound on posted pokes
  MaxResolving,  \* bound on the outstanding resolutions of a host
  Free           \* no session

SessionRecord == [owner : Hosts, addr : Addrs, auth : BOOLEAN]

ASSUME OutgoingAssumption ==
  /\ AddrsOf \in [Hosts -> SUBSET Addrs]
  /\ IsFiniteSet(Ids)
  /\ Wanted \in Nat \ {0}
  /\ MaxPokes \in Nat /\ MaxResolving \in Nat
  /\ Free \notin SessionRecord

VARIABLES
  status,      \* status[h]: RemoteHostToConnect::m_status
  ripe,        \* ripe[h]: m_statusChangeTS is more than DelayReconnect_sec ago
  timer,       \* the async_wait of m_timer: "armed", "due" (its handler will
               \* run without an error), "aborted" (with one), or "none"
  pokes,       \* posted poke() calls that have not run
  resolving,   \* resolving[h]: resolutions whose answer has not been handled
  sess         \* sess[i]: Free, or a session: the host it was created for, its
               \* address, and whether it is authenticated

vars == <<status, ripe, timer, pokes, resolving, sess>>

HostStatus ==
  {"initial", "resolving", "resolving_error", "connecting", "connected", "closed"}

Init ==
  /\ status = [h \in Hosts |-> "initial"]
  /\ ripe = [h \in Hosts |-> FALSE]
  /\ timer = "armed"
  /\ pokes = 0
  /\ resolving = [h \in Hosts |-> 0]
  /\ sess = [i \in Ids |-> Free]

-----------------------------------------------------------------------------

SetStatus(h, hs) ==
  /\ status' = [status EXCEPT ![h] = hs]
  /\ ripe' = [ripe EXCEPT ![h] = FALSE]

\* poke(): only posts; the posted function runs later on the strand.
Poke ==
  /\ pokes < MaxPokes
  /\ pokes' = pokes + 1

(* time *)

TimerExpires ==
  /\ timer = "armed"
  /\ timer' = "due"
  /\ UNCHANGED <<status, ripe, pokes, resolving, sess>>

Ripens(h) ==
  /\ status[h] \in {"resolving_error", "closed"} /\ ~ripe[h]
  /\ ripe' = [ripe EXCEPT ![h] = TRUE]
  /\ UNCHANGED <<status, timer, pokes, resolving, sess>>

(* the handlers of the timer *)

\* expires_after(): cancels the wait that is pending, if there is one; a handler
\* that is already queued runs as it would have.
PokeRuns ==
  /\ pokes > 0
  /\ pokes' = pokes - 1
  /\ timer' = IF timer = "armed" THEN "aborted" ELSE timer
  /\ UNCHANGED <<status, ripe, resolving, sess>>

NeedsResolving(h) ==
  \/ status[h] = "initial"
  \/ status[h] \in {"resolving_error", "closed"} /\ ripe[h]

\* The handler without an error: startConnecting() and scheduleNext().
TickForgetsInitial ==
  LET hs == {h \in Hosts : status[h] # "initial" /\ NeedsResolving(h)}
  IN  /\ timer = "due"
      /\ \A h \in hs : resolving[h] < MaxResolving
      /\ status' = [h \in Hosts |-> IF h \in hs THEN "resolving" ELSE status[h]]
      /\ ripe' = [h \in Hosts |-> ripe[h] /\ h \notin hs]
      /\ resolving' = [h \in Hosts |-> IF h \in hs THEN resolving[h] + 1
                                                   ELSE resolving[h]]
      /\ timer' = "armed"
      /\ UNCHANGED <<pokes, sess>>
Tick ==
  LET hs == {h \in Hosts : NeedsResolving(h)}
  IN  /\ timer = "due"
      /\ \A h \in hs : resolving[h] < MaxResolving
      /\ status' = [h \in Hosts |-> IF h \in hs THEN "resolving" ELSE status[h]]
      /\ ripe' = [h \in Hosts |-> ripe[h] /\ h \notin hs]
      /\ resolving' = [h \in Hosts |-> IF h \in hs THEN resolving[h] + 1
                                                   ELSE resolving[h]]
      /\ timer' = "armed"
      /\ UNCHANGED <<pokes, sess>>

\* The handler with operation_aborted: it returns and does not re-arm.
TickAborted ==
  /\ timer = "aborted"
  /\ timer' = "none"
  /\ UNCHANGED <<status, ripe, pokes, resolving, sess>>

(* connectResolved() *)

AnsweredAgain(h) ==
  /\ status[h] # "initial"
  /\ resolving' = [resolving EXCEPT ![h] = @ - 1]
Answered(h) ==
  /\ resolving[h] > 0
  /\ resolving' = [resolving EXCEPT ![h] = @ - 1]

ResolveFails(h) ==
  /\ Answered(h)
  /\ SetStatus(h, "resolving_error")
  /\ Poke
  /\ UNCHANGED <<timer, sess>>

Live == {i \in Ids : sess[i] # Free}
Sessions(a) == {i \in Live : sess[i].addr = a}
Unauth(a) == {i \in Sessions(a) : ~sess[i].auth}

\* An authenticated session to the address, and m_connectedFn() says that its
\* node has all the sessions it needs.
ResolvedConnected(h, a) ==
  /\ Answered(h)
  /\ Sessions(a) \ Unauth(a) # {}
  /\ SetStatus(h, "connected")
  /\ UNCHANGED <<timer, pokes, sess>>

\* Enough sessions, some still to be authenticated: wait for them.
MustWait(a) == Cardinality(Sessions(a)) >= Wanted /\ Unauth(a) # {}

ResolvedWaitsSilently(h, a) ==
  /\ Answered(h)
  /\ MustWait(a)
  /\ UNCHANGED <<status, ripe, timer, pokes, sess>>
ResolvedWaits(h, a) ==
  /\ Answered(h)
  /\ MustWait(a)
  /\ SetStatus(h, "connecting")
  /\ UNCHANGED <<timer, pokes, sess>>

SessionsToCreateIgnoresUnauth(a) == Wanted
SessionsToCreate(a) ==
  IF Cardinality(Sessions(a)) >= Wanted THEN 1
  ELSE Wanted - Cardinality(Sessions(a))

\* The sessions that are missing are created and start to connect.
ResolvedCreates(h, a) ==
  /\ Answered(h)
  /\ ~MustWait(a)
  /\ \E new \in SUBSET (Ids \ Live) :
       /\ Cardinality(new) = SessionsToCreate(a)
       /\ sess' = [i \in Ids |->
                    IF i \in new THEN [owner |-> h, addr |-> a, auth |-> FALSE]
                    ELSE sess[i]]
  /\ SetStatus(h, "connecting")
  /\ UNCHANGED <<timer, pokes>>

(* the life of a session *)

Authenticated(i) ==
  /\ i \in Live /\ ~sess[i].auth
  /\ sess' = [sess EXCEPT ![i].auth = TRUE]
  /\ UNCHANGED <<status, ripe, timer, pokes, resolving>>

\* s_closed: NetServer erases the session, then the manager's slot runs.
SessionClosedIfConnecting(i) ==
  /\ i \in Live
  /\ sess' = [sess EXCEPT ![i] = Free]
  /\ IF status[sess[i].owner] = "connecting"
       THEN SetStatus(sess[i].owner, "closed") ELSE UNCHANGED <<status, ripe>>
  /\ Poke
  /\ UNCHANGED <<timer, resolving>>
SessionClosed(i) ==
  /\ i \in Live
  /\ sess' = [sess EXCEPT ![i] = Free]
  /\ SetStatus(sess[i].owner, "closed")
  /\ Poke
  /\ UNCHANGED <<timer, resolving>>

Next ==
  \/ TimerExpires \/ PokeRuns \/ Tick \/ TickAborted
  \/ \E h \in Hosts :
       \/ Ripens(h) \/ ResolveFails(h)
       \/ \E a \in AddrsOf[h] : \/ ResolvedConnected(h, a)
                                \/ ResolvedWaits(h, a)
                                \/ ResolvedCreates(h, a)
  \/ \E i \in Ids : Authenticated(i) \/ SessionClosed(i)

Spec == Init /\ [][Next]_vars

\* Time passes, the resolver pool answers, the io_context runs what is ready.
\* Nobody has to authenticate or to close anything.
Resolved(h) ==
  \/ ResolveFails(h)
  \/ \E a \in AddrsOf[h] : \/ ResolvedConnected(h, a) \/ ResolvedWaits(h, a)
                           \/ ResolvedCreates(h, a)

Fairness ==
  /\ WF_vars(TimerExpires) /\ WF_vars(PokeRuns)
  /\ WF_vars(Tick) /\ WF_vars(TickAborted)
  /\ \A h \in Hosts : WF_vars(Ripens(h)) /\ WF_vars(Resolved(h))

FairSpec == Spec /\ Fairness

-----------------------------------------------------------------------------

TypeOK ==
  /\ status \in [Hosts -> HostStatus]
  /\ ripe \in [Hosts -> BOOLEAN]
  /\ timer \in {"armed", "due", "aborted", "none"}
  /\ pokes \in Nat
  /\ resolving \in [Hosts -> Nat]
  /\ sess \in [Ids -> SessionRecord \cup {Free}]

\* However resolutions, closes and retries overlap, an address never has more
\* than Wanted unauthenticated outgoing sessions: answers to two resolutions of
\* the same host do not add up (OutgoingManager.cpp:191-211).
UnauthBounded ==
  \A a \in Addrs : Cardinality(Unauth(a)) <= Wanted

\* No other configured name resolves to an address of host h.
Alone(h) == \A g \in Hosts \ {h} : AddrsOf[g] \cap AddrsOf[h] = {}

\* A host that the ticks leave alone because it is "connecting" or "connected"
\* has a session whose close will bring it back, although a session of an
\* earlier attempt may have closed meanwhile (OutgoingManager.cpp:84-88,
\* 226-230).  Only for a host that shares no address: see WaitsForSession.
NoOrphan ==
  \A h \in Hosts : Alone(h) /\ status[h] \in {"connecting", "connected"} =>
    \E i \in Live : sess[i].owner = h

\* A host left alone because it is "resolving" has an answer on its way.
NoLostResolution ==
  \A h \in Hosts : status[h] = "resolving" => resolving[h] > 0

\* A session is connected to an address of the host it was created for; with
\* the three properties above this is inductive (OutgoingProofs).
OwnAddress ==
  \A i \in Live : sess[i].addr \in AddrsOf[sess[i].owner]

IInv == TypeOK /\ UnauthBounded /\ NoOrphan /\ NoLostResolution /\ OwnAddress

\* Every configured host gets a first attempt that ends: it is made by the first
\* tick, and before that there is no session and no answer that could poke.
FirstAttemptEnds ==
  \A h \in Hosts :
    (status[h] = "initial") ~> (status[h] \notin {"initial", "resolving"})

\* "poke, so we will try to reconnect if necessary" (OutgoingManager.cpp:228)
\* and "Pull the next tick forward to now" (OutgoingManager.h:106): a host whose
\* session closed is tried again.
ClosedIsRetried ==
  \A h \in Hosts : (status[h] = "closed") ~> (status[h] # "closed")

\* "wait for connection and authentication" (OutgoingManager.cpp:196): a host
\* that is "connecting" has a session to wait for, its own or one that another
\* name of the same machine created.
WaitsForSession ==
  \A h \in Hosts : status[h] = "connecting" =>
    \E i \in Live : sess[i].addr \in AddrsOf[h]
=============================================================================
