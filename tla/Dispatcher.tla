----------------------------- MODULE Dispatcher -----------------------------
(***************************************************************************)
(* MsgDispatcher (src/uzel/dispatcher.h, dispatcher.cpp): handlers that    *)
(* are registered for a command name or for any message, the Connection    *)
(* objects that disconnect them, and the dispatch of one message after     *)
(* another, against clients that register and disconnect whenever they may *)
(* do so: before io_context::run(), between two messages, and from a       *)
(* handler while a message is being dispatched.                            *)
(*                                                                         *)
(* All table accesses go through a strand.  On the thread that runs the    *)
(* io_context they are done at once; before run() they are queued, so that *)
(* nextIdOnStrand() returns the uninitialised variable it meant to fill:   *)
(* any of the values in Garbage.                                           *)
(***************************************************************************)
EXTENDS Naturals, Sequences, FiniteSets, Functions

CONSTANTS
  Regs,       \* registrations: one handler each, registered at most once
  Names,      \* command names
  Post,       \* the list of the any-post handlers
  NoName,     \* the cname of a message whose header has none
  None,       \* no dispatch, no handler
  Garbage,    \* what an uninitialised id may be
  MaxMsgs     \* bound on the messages dispatched

Keys == Names \cup {Post}

\* The Connection objects, and the message that is being dispatched.
Connections == [self : BOOLEAN, key : Keys, id : Nat]
Dispatches ==
  [msg : Names, post : BOOLEAN, rest : Seq(Regs), exec : Regs \cup {None}]

ASSUME DispatcherAssumption ==
  /\ IsFiniteSet(Regs) /\ None \notin Regs \cup Connections \cup Dispatches
  /\ Post \notin Names /\ NoName \notin Keys
  /\ Garbage \subseteq Nat /\ MaxMsgs \in Nat

VARIABLES
  phase,    \* "setup" before run(), "running", or "ended" by an exception
  todo,     \* the functions the strand has to run, oldest first
  tab,      \* what they work on, a record:
            \*   list[k]  m_handlers[k], or m_anyPost: ids and handlers
            \*   nextId   m_nextId
            \*   mixup    history: a disconnect removed another registration
  conn,     \* conn[r]: the Connection that registration r returned, or None
  cur,      \* the message being dispatched, or None: its msg, whether the
            \* any-post handlers have begun, the handlers still to be called
            \* and the one that is executing
  served,   \* number of messages dispatched
  active,   \* history: active[k], the registrations in force for k, in the order
            \* they were made
  early,    \* history: the registrations made before run(), with their ids
  promised, \* history: the handlers that should see the current message
  called    \* history: the handlers that saw it

vars == <<phase, todo, tab, conn, cur, served, active, early, promised, called>>

Init ==
  /\ phase = "setup" /\ todo = <<>>
  /\ tab = [list |-> [k \in Keys |-> <<>>], nextId |-> 1, mixup |-> FALSE]
  /\ conn = [r \in Regs |-> None]
  /\ cur = None /\ served = 0
  /\ active = [k \in Keys |-> <<>>] /\ early = {} /\ promised = <<>> /\ called = <<>>

-----------------------------------------------------------------------------
(* The strand.                                                             *)

\* What a filter leaves of s: the elements at the places in I.
Keep(s, I) ==
  LET kept[n \in 0..Len(s)] ==
        IF n = 0 THEN <<>>
        ELSE IF n \in I THEN Append(kept[n - 1], s[n]) ELSE kept[n - 1]
  IN  kept[Len(s)]

HandlersOf(es) == [i \in DOMAIN es |-> es[i].h]

\* The function that nextIdOnStrand() hands to the strand.
TakeIdKeeps(T) == T
TakeIdDown(T) == [T EXCEPT !.nextId = @ - 1]
TakeId(T) == [T EXCEPT !.nextId = @ + 1]

\* The functions of registerHandler() and registerAnyPost(): copy, append, swap.
AddEntry(T, f) ==
  [T EXCEPT !.list[f.key] = Append(@, [id |-> f.id, h |-> f.h])]

\* disconnectImpl(): every entry of the list with that id goes.
DropEntriesNamed(T, f) ==
  IF f.key = Post THEN T
  ELSE [T EXCEPT !.list[f.key] = Keep(@, {i \in DOMAIN @ : @[i].id # f.id})]
DropEntries(T, f) ==
  LET es == T.list[f.key]
      others == {i \in DOMAIN es : es[i].id # f.id}
  IN  [T EXCEPT !.list[f.key] = Keep(es, others),
                !.mixup = @ \/ \E i \in DOMAIN es \ others : es[i].h # f.h]

\* The functions of unregisterAll() and clearAnyPost().
ClearList(T, f) == [T EXCEPT !.list[f.key] = <<>>]

Run1(T, f) ==
  CASE f.do = "id" -> TakeId(T)
    [] f.do = "add" -> AddEntry(T, f)
    [] f.do = "drop" -> DropEntries(T, f)
    [] f.do = "clear" -> ClearList(T, f)

\* boost::asio::dispatch(m_strand, f) for each f of fs, which make T of tab.
OnStrand(fs, T) ==
  IF phase = "setup" THEN todo' = todo \o fs /\ UNCHANGED tab
                     ELSE tab' = T /\ UNCHANGED todo

-----------------------------------------------------------------------------
(* The clients: before run(), between two messages, or within a handler.   *)

ClientTurn ==
  /\ phase = "setup" \/ (phase = "running" /\ todo = <<>>)
  /\ cur # None => cur.exec # None

\* What nextIdOnStrand() may return.
NextIds == IF phase = "setup" THEN Garbage ELSE {tab.nextId}

\* registerHandler() and registerAnyPost().
Register(r, k) ==
  /\ ClientTurn /\ conn[r] = None
  /\ \E id \in NextIds :
       /\ LET f == [do |-> "add", key |-> k, id |-> id, h |-> r]
          IN  OnStrand(<< [do |-> "id"], f >>, AddEntry(TakeId(tab), f))
       /\ conn' = [conn EXCEPT ![r] = [self |-> TRUE, key |-> k, id |-> id]]
       /\ early' = IF phase = "setup" THEN early \cup {<<r, k, id>>} ELSE early
  /\ active' = [active EXCEPT ![k] = Append(@, r)]
  /\ UNCHANGED <<phase, cur, served, promised, called>>

\* Connection::disconnect(), which ~ScopedConnection() calls too; the second
\* time the weak pointer is empty and nothing happens.
Disconnect(r) ==
  /\ ClientTurn /\ conn[r] # None
  /\ conn[r].self
  /\ LET f == [do |-> "drop", key |-> conn[r].key, id |-> conn[r].id, h |-> r]
     IN  OnStrand(<<f>>, DropEntries(tab, f))
  /\ conn' = [conn EXCEPT ![r].self = FALSE, ![r].id = 0]
  /\ active' = [active EXCEPT ![conn[r].key] = Keep(@, {i \in DOMAIN @ : @[i] # r})]
  /\ UNCHANGED <<phase, cur, served, early, promised, called>>

\* unregisterAll() and clearAnyPost(); there is nothing to clear in other lists.
UnregisterAll(k) ==
  /\ ClientTurn /\ active[k] # <<>>
  /\ LET f == [do |-> "clear", key |-> k]
     IN  OnStrand(<<f>>, ClearList(tab, f))
  /\ active' = [active EXCEPT ![k] = <<>>]
  /\ UNCHANGED <<phase, conn, cur, served, early, promised, called>>

\* run() begins with what was posted before it.
Run ==
  /\ \/ phase = "setup" /\ phase' = "running" /\ UNCHANGED <<todo, tab>>
     \/ /\ phase = "running" /\ todo # <<>> /\ UNCHANGED phase
        /\ tab' = Run1(tab, Head(todo))
        /\ todo' = Tail(todo)
  /\ UNCHANGED <<conn, cur, served, active, early, promised, called>>

-----------------------------------------------------------------------------
(* dispatch().                                                             *)

\* The message has no cname and nobody catches the exception, or its named
\* handlers are called if it is for this process.
Dispatch(cname, toMe) ==
  /\ phase = "running" /\ todo = <<>> /\ cur = None /\ served < MaxMsgs
  /\ served' = served + 1
  /\ \/ cname = NoName /\ phase' = "ended" /\ UNCHANGED <<cur, promised, called>>
     \/ /\ cname # NoName
        /\ cur' = [msg |-> cname, post |-> FALSE, exec |-> None,
                   rest |-> IF toMe THEN HandlersOf(tab.list[cname]) ELSE <<>>]
        /\ promised' = IF toMe THEN active[cname] ELSE <<>>
        /\ called' = <<>>
        /\ UNCHANGED phase
  /\ UNCHANGED <<todo, tab, conn, active, early>>

Call ==
  /\ cur # None /\ cur.exec = None /\ cur.rest # <<>>
  /\ cur' = [cur EXCEPT !.exec = Head(cur.rest), !.rest = Tail(@)]
  /\ called' = Append(called, Head(cur.rest))
  /\ UNCHANGED <<phase, todo, tab, conn, served, active, early, promised>>

\* The handler returns or throws; the next one is that of the snapshot.
ReturnToLiveList ==
  /\ cur # None /\ cur.exec # None
  /\ cur' = [cur EXCEPT !.exec = None,
       !.rest = IF cur.post THEN @
                ELSE LET hs == HandlersOf(tab.list[cur.msg])
                     IN  SubSeq(hs, Len(called) + 1, Len(hs))]
  /\ UNCHANGED <<phase, todo, tab, conn, served, active, early, promised, called>>
Return ==
  /\ cur # None /\ cur.exec # None
  /\ cur' = [cur EXCEPT !.exec = None]
  /\ UNCHANGED <<phase, todo, tab, conn, served, active, early, promised, called>>

\* The any-post handlers: the list as the named handlers left it.
AnyPost ==
  /\ cur # None /\ cur.exec = None /\ cur.rest = <<>> /\ ~cur.post
  /\ cur' = [cur EXCEPT !.post = TRUE, !.rest = HandlersOf(tab.list[Post])]
  /\ promised' = promised \o active[Post]
  /\ UNCHANGED <<phase, todo, tab, conn, served, active, early, called>>

Done == cur # None /\ cur.exec = None /\ cur.rest = <<>> /\ cur.post

End ==
  /\ Done /\ cur' = None
  /\ UNCHANGED <<phase, todo, tab, conn, served, active, early, promised, called>>

Next ==
  \/ \E r \in Regs : Disconnect(r) \/ \E k \in Keys : Register(r, k)
  \/ \E k \in Keys : UnregisterAll(k)
  \/ \E cname \in Names \cup {NoName}, toMe \in BOOLEAN : Dispatch(cname, toMe)
  \/ Run \/ Call \/ Return \/ AnyPost \/ End

Spec == Init /\ [][Next]_vars

-----------------------------------------------------------------------------

Entries == [id : Nat, h : Regs]

Tables == [list : [Keys -> Seq(Entries)], nextId : Nat, mixup : BOOLEAN]
Jobs ==
  [do : {"id"}] \cup [do : {"clear"}, key : Keys] \cup
  [do : {"add", "drop"}, key : Keys, id : Nat, h : Regs]

TypeOK ==
  /\ phase \in {"setup", "running", "ended"}
  /\ todo \in Seq(Jobs) /\ tab \in Tables
  /\ conn \in [Regs -> Connections \cup {None}]
  /\ cur \in Dispatches \cup {None}
  /\ served \in 0..MaxMsgs
  /\ active \in [Keys -> Seq(Regs)] /\ {promised, called} \subseteq Seq(Regs)
  /\ early \subseteq Regs \X Keys \X Garbage

\* A message is seen by the handlers that were in force when it came up, each
\* exactly once and in the order of registration, and then by the any-post
\* handlers that are in force when the named ones are through: what handlers
\* register and disconnect on the fly neither skips nor repeats nor adds one
\* (dispatcher.cpp:36-38, 71-72).
CallsAsPromised == Done /\ ~tab.mixup => called = promised

\* A registration that was disconnected, or cleared with its list, is in no list
\* any more, whether run() had begun or not.
DisconnectedIsGone ==
  todo = <<>> =>
    \A k \in Keys : Range(HandlersOf(tab.list[k])) \subseteq Range(active[k])

\* A disconnect takes away somebody else's handler only through the ids that
\* nextIdOnStrand() did not set (dispatcher.cpp:22-26): two registrations made
\* before run() in one list, or one whose id happens to be given out later.
MixupNeedsGarbage ==
  tab.mixup =>
    \E e \in early : \/ e[3] \in 1..(tab.nextId - 1)
                     \/ \E o \in early : o[1] # e[1] /\ o[2] = e[2] /\ o[3] = e[3]

-----------------------------------------------------------------------------
(* What a comment in the repository says and the code does not do.         *)

\* "@return Connection object that can be used to disconnect" (dispatcher.h:79):
\* a Connection disconnects the handler it was returned for and no other one.
DisconnectsItsOwn == ~tab.mixup
=============================================================================
