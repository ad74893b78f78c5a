# TLA+ models of uzel

uzel passes messages between applications: every machine runs a `userver`,
local applications connect to it, and the userver processes of different machines
(nodes) connect to each other. This directory holds TLA+ models of its core,
TLC configurations that check them on small instances, and TLAPS proofs for
arbitrary ones. Paths below are relative to the root of the repository.

## 1. Inventory

All handlers run on one `io_context` thread, so each completion handler is
atomic; the resolver's threads only post their answers to it. What interleaves
is the *order* of handlers: completions of writes, reads, connects, timers and
resolutions of many sessions, and the two nodes at the ends of a connection.

| component | state | operations | interacts with |
|---|---|---|---|
| `session` (`src/uzel/session.cpp`) | socket, `m_outQueue`, `m_msg1`, `m_closeFlag`, `m_stopped`, the pending read and write | `start`, `startConnection`, `putOutQueue`, `takeOverMessages`, `gracefullClose`, handlers of connect, read, write and bye, `stop` | owners through `s_auth`, `s_closed`, `s_connect_error`; `MsgDispatcher` with every message after the first |
| `remote` (`app/userver/remote.cpp`) | slots `m_sessionH/L/C`, waiting set, `m_outHighQueue` | `addSession`, `handlePriorityMsg`, `onSessionClosed`, `send`, `connected` | sessions of one peer node; the node with the greater name (the *boss*) gives the priorities and tells the other by message |
| `NetServer` (`app/userver/netserver.cpp`) | `m_ipToSession`, `m_nodeToSession`, `m_locals` | `do_accept` with a limit per address, `onSessionCreated/Closed`, `auth`, routing in `handleAny` | everything above; registers handlers with the dispatcher |
| `OutgoingManager` (`src/uzel/OutgoingManager.cpp`) | status and time stamp per host, the timer | tick, `poke`, `startResolving`, `connectResolved`, slot of `s_closed` | `AResolver`, `m_ipToSession`, `remote::connected()` through a callback |
| `AResolver` (`src/uzel/aresolver.h`) | thread pool | `async_resolve` | posts its answer to the main `io_context` |
| `NetClient` (`src/uzel/netclient.cpp`) | `m_locals`, reconnect timer | connect, `auth`, `send` | a session to the local userver |
| `MsgDispatcher` (`src/uzel/dispatcher.cpp`) | copy-on-write handler lists | register, disconnect, dispatch | sessions call it, `NetServer` and applications register |
| `Msg`, `Addr` | header, body, destination type | `setDest`, `updateDest`, serialisation | read by the dispatcher and by `handleAny` |
| `AccuLine`, `InputProcessor` | partial line, pending header | `processNewInput` | between a session's read and `dispatchMsg` |
| `UConfig`, `NetAppContext`, applications | configuration, references | start-up | constants of the models |

What makes each part correct, and hard:

* **session** - bytes of a pending write stay alive and are the ones popped; order;
  at-most-once; one `s_closed`; a close ends. Hard: owner calls, expiry after 60 s,
  and three kinds of completion in any order, one of them after `stop()`.
* **remote** - one place per session, the two ends agree, surplus connections end,
  queued messages survive and are not duplicated. Hard: two nodes dial at the same
  time, priorities and closes cross on different connections, connections break.
* **NetServer** - the address table is exact, the limit holds; a restarted application gets
  what its predecessor did not, in order. Hard: the predecessor's session may be alive,
  dead, or in the middle of a write.
* **NetClient** - one attempt to connect at a time, never none. Hard: errors of
  resolution, connect and the timer each have their own path back.
* **MsgDispatcher** - every handler in force sees a message once, in order; a disconnect takes
  away what it was for. Hard: handlers that change the lists they are called from, and
  registration before the loop runs.
* **OutgoingManager** - bounded connection attempts, no host forgotten, retries.
  Hard: the timer against `poke()`, sessions and resolutions of several attempts.
* **framing** - the messages are those of the stream, however it is cut. Hard: the
  blocks are the socket's choice, and one misread line shifts every later one.
* **routing** - a message is handled by those it is for, once each. Hard: every process
  on the way classifies it again, relative to its own names.

`PROJECT.json` lists every hazard with its line and the properties aimed at it.

## 2. Modules

| module | models | extends |
|---|---|---|
| `SessionCore` | one session object as a record; one operator per method or handler; no variables | |
| `Session` | that object against an arbitrary environment | `SessionCore` |
| `SessionCoreProofs` | what each method does to the record: the lemmas that three proofs share | `SessionCore`, TLAPS |
| `SessionProofs` | safety of `Session` for every `MaxMsgs` | `Session`, `SessionCoreProofs` |
| `Channel` | two nodes: `remote` at both ends, the `NetServer` code around it, two `SessionCore` records per TCP connection | `SessionCore` |
| `Delivery` | what a channel promises: the abstract specification that `Channel` implements | |
| `MCChannel` | symmetry for TLC | `Channel` |
| `ChannelProofs` | safety of `Channel` and its refinement of `Delivery`, for any connections and messages | `Channel`, `SessionCoreProofs` |
| `Locals` | a userver and a local application: `NetClient`, `m_locals`, the local branch of `auth()`, over restarts of both | `SessionCore` |
| `LocalsProofs` | safety of `Locals` for any connections, messages, exits and errors | `Locals`, `SessionCoreProofs` |
| `Outgoing` | `OutgoingManager`, with the sessions it creates and the resolver seen from it | |
| `MCOutgoing` | values of the constants | `Outgoing` |
| `OutgoingProofs` | safety of `Outgoing` for all hosts and addresses | `Outgoing`, TLAPS |
| `Framing` | `AccuLine` and `InputProcessor` | |
| `FramingProofs` | safety of `Framing` for streams and blocks of any length | `Framing`, TLAPS |
| `Routing` | addresses, the dispatcher of every process and `NetServer::handleAny()`, with the applications usender and uecho | |
| `MCRouting` | values of the constants | `Routing` |
| `RoutingProofs` | safety of `Routing` for any nodes, applications, addresses and pings | `Routing`, TLAPS |
| `Dispatcher` | `MsgDispatcher`: handler lists, ids, connections, the strand | |
| `MCDispatcher` | symmetry for TLC | `Dispatcher` |
| `DispatcherProofs` | safety of `Dispatcher` for any handlers, names, messages and garbage | `Dispatcher`, TLAPS |

### SessionCore and Session

The record has the members of the class that influence control (`q`, `auth`,
`closeFlag`, `stopped`) and the asynchronous operations that are pending: `wr` is the write of the
front of the queue, `bye` counts bye writes, `rd` is the read. A write has two
steps, because the order matters: the kernel takes the bytes (`Transmit`), and later
the handler runs (`WriteOk`). `WriteDone` is the success branch of the
handler in `do_write()`: pop, `deleteOld()`, bye if the close flag is set, and
*return* - the `do_write()` that follows in the source is unreachable, so nothing
starts the next write.

`deleteOld()` drops a prefix of the queue; which prefix depends on the clock, so
every prefix is possible. The exception is the message that `putOutQueue()` has just
stamped. `nullDeref` records that its log line would have dereferenced a null `m_msg1`.

`stop()` closes the socket. A read that had already completed with data keeps its
handler in the run queue (`rd = "late"`) and that handler does not test
`m_stopped`; `LineDone` lets it go on with further lines of its chunk.

In `Session` messages are serial numbers in the order of acceptance; `buf` is the
message whose bytes the pending write refers to and `stream` what TCP was given.
Owners act only once the session is authenticated, because `s_auth` is how
they learn of it. Input is "one message that authenticates", "one that is
refused", "an error or garbage".

### Channel

Each node is one record: its session objects by connection, the slots, waiting set
and high queue of its `remote`, and `m_ipToSession` for the address of the peer.
The operators in the first part (`StopSession`, `AssignSlot`, `HandlePriority`, ...) are the
methods; the actions are the handlers that call them. A step of one node touches
its own record, its `backlog` (connections the kernel completed that `do_accept()` has
not seen) and the `wire`, two FIFO sequences of lines per connection.

* `Dial` is the part of `connectResolved()` that creates sessions, under the conditions it
  reads from `m_ipToSession` and `remote::connected()`; when a retry happens is the
  subject of `Outgoing`, here it may happen whenever these conditions hold.
* A message is one line; the split into header and body lines is the framing's
  (module `Framing`).
* The bye is written from a destroyed string: the peer gets it, gets garbage (which
  its parser refuses), or gets nothing. That the freed memory holds the whole text of another
  message is left out: such a copy could not be told from the original by anything above
  the session.
* With `Faults`, connects fail and connections break at any time; without, an end
  meets errors only after the other has closed.
* `m_outLowQueue` is never filled by the code and is left out, as is the branch of
  `handlePriorityMsg()` for undefined priorities, which no userver sends.
* `limit` is the value of `MaxConnectionsWithAddr`, chosen once from `MaxAddrs`, so that one run
  has both the case in which every connection fits and the one in which one is too many.
* `DuplicateLeaves` says of an authenticated session for which the boss found no slot that
  its close is under way or waits for a write: nothing else would ever end it.

### Delivery

The abstract specification has one variable, the stage of every message: new, in transit,
delivered or lost. `Channel` implements it under the mapping `Stage`: a message is in
transit while it is in exactly one queue or on one wire (`Places`), delivered once the peer's dispatcher has
got it, and lost when it was handed over and is nowhere of this. The front of a queue whose bytes
TCP already has is not another copy (`Unsent`). A message in two places, or one that shows up
again after it was delivered or dropped, is a stage that `Delivery` does not have. Neither order nor
delivery is promised, since the code keeps neither: what a stopped session has queued stays
in transit for ever (run `channel_takeover`), as does what stalls at `session.cpp:283`.

### Locals

`app` and `srv` are the two processes, `sess` the session objects of both. The application
starts again after it has exited; the server may still hold the old session in `m_locals`, and
`ServerAuth` has the three cases: there is none, its queue starts with a service message, or its
queue is taken over. An application has one connection in its life: `NetClient` does not
listen to `s_closed`, so once connected it never connects again. The application is uecho, so
each message it gets makes it call `send()`.

The limit per address in `do_accept()` is in `Channel`; here one application has one connection at a time.

Three states that the code does not want are reachable and part of the model (`LocalsHang.cfg` and
`LocalsPop.cfg`, section 3), which is why the passing properties say when alone they are. The server hangs in `takeOverMessages()` when the queue of the
predecessor starts with its auth message, which it does when that session stopped before
the write completed or is still writing it (`srv.is = "hung"`; `BreaksOnlyByTakeOver` limits it to
these cases). A take-over from a session with a write in flight sends the message again
(`raced`; `OnceUnlessRaced` says that nothing else doubles a message), and the handler of that write
then pops an empty queue (`srv.is = "undefined"`, from which only an exit leads; `BreaksOnlyByTakeOver` again: no expiry, close,
late read or restart empties the queue of a session that is writing).

### Outgoing

`timer` is the pending `async_wait`: `poke()` posts a function that calls
`expires_after()`, which cancels a wait that is still pending ("aborted") and leaves one whose
handler is queued ("due") alone. `ripe` says that `DelayReconnect_sec` have passed since
the last change of status. Sessions are known by the host they were created
for - the one their `s_closed` slot marks as closed -, their address and whether they
are authenticated. Whether the peer of an authenticated session "has all it needs" is
a free choice of the model (`ResolvedConnected` or not).

Names may share addresses: nothing in the code or in `uzel.ini` keeps them apart, and
`connectResolved()` looks sessions up by address only. A host can then wait for the sessions of
another name and stay "connecting" after they have closed (`WaitsForSession`, `OutgoingAlias.cfg`).
So `NoOrphan` is about a host that shares no address (`Alone`), beside others that may;
`UnauthBounded` is per address and needs no such condition.

### Framing

`NewInput` is the read handler's call of `processNewInput()` with any block; the
other actions are the iterations of its loop. `NoCmd` and `GetNextCmd` are the two
outcomes of `getNextCmd()`, and what the iteration does with a line depends on
`m_header` and on what the JSON parser makes of it (`Kind`). `header` and `out` keep the
lines a message was made of, so that the result can be compared with the stream.
`LinesAreTheStream` and `MessagesAreTheLines` determine the result: there is one way to write
a stream as lines, and one way to group lines into messages whose first line says whether
a second one follows. So the result does not depend on the blocks.

### Routing

Queues between processes are one bag, `wire`: the order of messages plays no part, and
what a connection does to them is the subject of `Session` and `Channel`, with one exception that
bears on liveness: `Stall` keeps any queued message for ever, as the return at `session.cpp:283` does with one that was put
behind a write in flight (usender's first ping, sent from `s_authSuccess` while the auth message
is being written, can be one). `m_locals` of every userver
holds the applications that run on its node, and all nodes have met. `SetDest`, `DestType`
and `ToMe` are `Msg::setDest()` and `Msg::updateDest()`, `HandleAny` is the router, `Reply` the handler of
uecho. `got` counts how often the dispatcher of an application gave a message to the
handlers of its `cname`. `Addressees` is the reference: what `tz.md` says an address stands for.
The body of a message has a `form` (the tree a sender builds, the characters of a line, the raw bytes a receiver keeps), and `json` counts how
often it was encoded: `Str` encodes a tree and writes characters as they are, `PBody` decodes once,
and `Get` is `get<unsigned>("serial", 0)`, which finds nothing in a tree whose text is still encoded
and gives 0 for a number above `UIntMax`, since the sender counts in a `size_t`. uecho answers with the body as it is, without
reading it. `printed` is what usender reports. `read_json()` cannot fail here: the
bodies were written by `write_json()`.

### Dispatcher

`tab` is what the strand protects, and `todo` the functions that wait for it: before `run()` everything
that goes to the strand is queued, afterwards it is done at once, because all callers are on the
thread of the `io_context`. So a registration before `run()` gets its id from an uninitialised variable
(`Garbage`); the function that would set it later writes through a reference to a stack
frame that is gone, which the model takes to hit nothing. `Dispatch` takes the snapshot, `Call` and
`Return` are one handler of it, and between them, as before `run()` and between messages, clients
register, disconnect and clear. `active`, `promised` and `called` are history: what the callers may
expect, and what happens; `active` has one sequence per list, as the code's promise is per
list. The programs of the repository register at most one early handler per
list and keep it, so they do not meet the mixed-up ids of `MixupNeedsGarbage`. Any-post handlers are a
list of their own; `disconnectImpl()` takes an empty name for that list, so a handler registered under the
name "" could not be removed, but nobody registers one.

## 3. Runs

Passing runs:

| run | configuration | shows |
|---|---|---|
| `session` | `Session.cfg`: 4 messages besides auth | `WritesTheFront`, `SentInOrder`, `DropsOnlyAuthenticated`, `ClosedSignalledOnce`; and `ClosesUnlessStalled`: closing with a completion still to come ends in `stop()` |
| `channel_slots` | `ChannelSlots.cfg`: 3 connections, either node dials, limit 2 or 3 | `OnePlaceEach`, `SamePriorityOrNone`, `IpTableExact`, `ServedLimit`, `DuplicateLeaves` |
| `channel_data` | `ChannelData.cfg`: 2 connections, 1 message, faults | `ImplementsDelivery` |
| `outgoing` | `Outgoing.cfg`: a host with 2 addresses, fairness | `UnauthBounded`, `NoOrphan`, `NoLostResolution`, `FirstAttemptEnds` |
| `framing` | `Framing.cfg`: streams of up to 10 bytes, blocks of up to 3 | `LinesAreTheStream`, `MessagesAreTheLines` |
| `routing` | `Routing.cfg`: 3 nodes, 5 applications, fairness | `OnlyAddressees`, `OneHop`, `SerialComesBack`, `PingIsAnswered` |
| `locals` | `Locals.cfg`: 2 connections, 2 messages, one exit of the server, fairness | `OneAttempt`, `InOrder`, `OnceUnlessRaced`, `AuthStaysHome`, `BreaksOnlyByTakeOver`, `NoNullSend`, `GetsIn` |
| `dispatcher` | `Dispatcher.cfg`: 3 handlers, a named list and the any-post list, 2 messages | `CallsAsPromised`, `DisconnectedIsGone`, `MixupNeedsGarbage` |

The largest are `channel_slots` (780,000 states) and `channel_data` (630,000), which
take a minute or two.

Runs in which TLC finds the counterexample to something a comment or document states:

| run | statement | what happens |
|---|---|---|
| `session_close` | `gracefullClose()`: "notify peer and shut down" (`session.h:69`) | A message put while the auth write is in flight stays queued after the handler; the close waits for a write that nobody starts. |
| `channel_connected` | "all necessary connections are established" (`OutgoingManager.h:71-73`) | A late read authenticates a stopped session; it takes a slot, and since its `s_closed` has been emitted already nothing frees it. |
| `channel_takeover` | "messages from queue will be taken over by the next session" (`session.cpp:276-277`) | The high session stops with a message in its queue; the next high session does not get it. |
| `outgoing_retry` | "Pull the next tick forward to now" (`OutgoingManager.h:106`), "we will try to reconnect" (`OutgoingManager.cpp:228`) | The cancelled wait's handler returns without re-arming: no tick, ever. |

The cause of the first is the `return` at `session.cpp:283`; the same stall keeps back a
priority message that was queued behind the auth message. The passing properties say what
holds with and without a stall: `ClosesUnlessStalled` and `DuplicateLeaves` name the writes still to come, at-most-once is not
delivery, and `PingIsAnswered` excuses a ping or an answer that is itself stalled in a queue, and no other. `GetsIn` asks only for the
auth message, which is the first in its queue and cannot stall. `DuplicateLeaves` and `ClosesUnlessStalled`
together are what is left of "surplus connections are closed": the close is requested, and a close
that does not meet the stall ends.

Further configurations are kept beside these runs and are not in `PROJECT.json`. `OutgoingShared.cfg`
(module `MCOutgoing`) repeats `UnauthBounded` and `NoOrphan` with two names at one address and a third host at its own, and passes
(1.1 million states). The others show, each by one counterexample, what the passing properties
of their module are stated around:

| configuration: statement | where it is said | what happens |
|---|---|---|
| `OutgoingAlias.cfg`: `WaitsForSession` | "wait for connection and authentication" (`OutgoingManager.cpp:196`) | Two names of one address: the second waits for the sessions of the first; when they close only the first is marked. |
| `RoutingShort.cfg`: `ShortAddressIsLocal` | "myapp": applications on the local node (`tz.md:23`; also the usage line at `app/usender/main.cpp:57`) | `setDest()` writes only complete destinations, so the ping is a service message, which the userver ignores. |
| `RoutingStar.cfg`: `StarReachesNetwork` | "myapp@*": all applications in the network (`tz.md:25`) | `handleBroadcastMsg()` passes it to remote nodes only, and each of them does the same. |
| `LocalsHang.cfg`: `TakeOverReturns` | `takeOverMessages()`: "take over processing of the messages from another (old) session" (`session.h:87`) | The old queue starts with the auth message; the loop neither moves nor removes it. |
| `LocalsPop.cfg`: `OldSessionIsDone` | the same | The old session's write completes after the take-over; its handler pops an empty queue. |
| `DispatcherEarly.cfg`: `DisconnectsItsOwn` | "Connection object that can be used to disconnect" (`dispatcher.h:79`) | The id of an early handler is uninitialised and equals that of a later one; disconnecting one removes both. |

`PingIsAnswered` is about addresses with a named node; the two forms of `tz.md` that it leaves out are
`ShortAddressIsLocal` and `StarReachesNetwork`. Of the early ids of `DisconnectsItsOwn` the programs of the repository have one per
list, as said above: it is a client of the library that would meet them.

Bounds. Four messages let the queue hold a written, an expiring and two waiting
messages around a take-over; the theorems lift this bound. Three connections are one
more than the slots H and L, so the third is a duplicate or the control session; a
limit of two makes the third one surplus. For data two connections are enough to have an
old and a new high session. Ids in `Outgoing` exceed `Wanted`, so sessions of two
attempts overlap. One host is enough for the run `outgoing`, because hosts that share no address share only the timer; for shared
addresses (`OutgoingShared.cfg`) two names and a host beside them are; the theorems are about any number. `MaxResolving = 2` lets two answers of a host be outstanding.
`MaxPokes` only bounds the queue of posted functions. Ten bytes hold a message of two
lines, one of one line and the beginning of a third, and three-byte blocks end before, at and
after an end of line. One ping is enough in `Routing` because no handler relates two
messages; three nodes have one that is neither sender nor addressee. `MaxHops` cuts off a broadcast, which
in the code goes on for ever; every other message makes one hop (`OneHop`). Two serials, with `UIntMax` between
them, are one that an unsigned holds and one that it does not, and tell a body that came back from one that was made up. In `Locals` two connections are a process and its successor, which is
what a take-over relates; two messages are one being written and one waiting. In `Dispatcher` three handlers are
the one that runs, the one it removes and the one behind; the garbage ids are one that is never given
out and one that is, so both ways of colliding occur. Deadlock is not checked: a system
whose connections are used up, or whose timer is lost, stops.

Fairness. Weak fairness only of what the kernel and the event loop owe: a pending
write, connect or read completes in one way or the other, a handler that is ready
runs, time passes, the resolver answers; in `Routing`, every process goes on reading and writes what does not stall; in `Locals`, the
reconnect timer fires, connects end, the running server accepts. Nothing is assumed of owners, of dialling, of
a peer's will to authenticate, or of faults.

## 4. Proofs

Every safety property that a passing run checks is also a theorem about `Spec`, for all values of the
constants that satisfy the named assumptions; so is the refinement of `Delivery`. Each module
of proofs has one inductive invariant `IInv`, which TLC checked on a small instance before it was
proved, one lemma per action for its preservation, and a short theorem per property. The fairness
in the specifications of some runs plays no part: `Spec` has more behaviours.

**Session** (`MaxMsgsAssumption`: `MaxMsgs` is a natural number). `WritesTheFront`, `SentInOrder`,
`DropsOnlyAuthenticated` and `ClosedSignalledOnce`, none inductive alone.
That `start()` puts message 0 into an empty queue needs `Fresh` (nothing queued before `start()`)
and `ConnectingIsNew`; that nothing expires before authentication needs `OnlyAuthQueued` - before
`s_auth` the only message is auth itself, the one the write handler pops before
`deleteOld()` looks; that `start()` cannot run twice needs `StoppedFlags`. The lemmas follow
the code: `DeleteOld`, `DoWrite`, `PutOutQueue` and `TakeOverMessages` keep the queue
increasing and below `next`.

**Outgoing** (`OutgoingAssumption`: finitely many session identities, `Wanted` at least 1). `NoOrphan` needs `OwnAddress`
(a session goes to an address of its owner), so that a live session found by address is the host's own if the
host is `Alone`, and `NoLostResolution`. Hosts may share addresses. `UnauthBounded` is arithmetic on
cardinalities: what `SessionsToCreate` returns fits beside the unauthenticated sessions, because
`MustWait` has excluded the other case.

**Channel** (`ChannelAssumption`: finitely many connections; `None` is neither a connection nor a
session record; application messages differ from service messages and priorities). The invariant
has a part for one session (`SessOK`), one for one node (`NodeOK`: the address table is exact and whoever has a
place is authenticated), and the parts that relate the two ends. `Links`: a connection waits in a backlog
only while the other end is established. `BossCloses`: a session without a slot at the boss is closing and
its bye is under way, which is `DuplicateLeaves`. `OneDecision`: in each connection the boss's
priority is at most one message, on the wire or still queued, present only while the other end has no
slot for that connection, and it contradicts no slot of the boss; `SamePriorityOrNone` follows. Most steps only
move lines forward in a pipe or drop them, and one lemma says that such a step (`Flows`)
keeps `OneDecision`; what remains are the two steps that make and take a priority.

**Channel implements Delivery**. `Fate` adds to the invariant that an application message has at most one place
(`Single`: one position of one queue or wire), that a delivered one has none, and one that is new
has none either. Then `Stage`, which counts places, is the simpler `Status`, and every step is one of
three kinds: nothing enters (each message in transit stays or is lost: a stutter or `Lose`), a line is read and given to the dispatcher
(`Deliver`), or the owner hands a message over (`HandOver`). Also a take-over from one session to
another is of the first kind, since it moves a queue that is then empty.

**Locals** (`LocalsAssumption`: finitely many connections, `None` neither a connection nor a session
record). Three parts. `ControlOK`: the client resolves, waits or has a session, only one of these
(`OneAttempt`, `NoNullSend`), and an auth message is the first in its queue, being written or stuck
in a stopped session (`AuthStaysHome`). `StreamOK`: what is on the wire to the application, and behind it in the queue of the server's session,
rises, lies above everything the application has got and below `next`; a connection the server
has not authenticated carries none (`InOrder`). `OnceOK`: unless a take-over raced with a write,
each message is in one pipe, or was seen, or neither (`OnceUnlessRaced`). The second part is
what makes the third provable over restarts: a new process starts with an empty `got`.
`BreaksOnlyByTakeOver` needs one fact more and has an invariant of its own, `BreakInv`: `IInv` with `AllWrite`, that a session that
writes has something queued unless a take-over raced with a write.

**Dispatcher** (`DispatcherAssumption`: finitely many registrations, distinct names, garbage ids are natural
numbers). The argument is about the *settled* table, what the queued functions will make of the present
one (`Leads`): registering or disconnecting does the same to it before `run()`, when the function is
queued, and after, when it runs at once. The settled table holds only registrations in force, under the
ids of their connections, and all of them unless a disconnect hit the wrong one. That needs
two equal ids for one list: both from before `run()` (`Clash`), or one of them (`Reused`); two from a running
dispatcher differ (`ConnOK`). Hence `MixupNeedsGarbage`, and with `CurOK` (called and still to be called
is what was promised) `CallsAsPromised`.

**Framing** (`FramingAssumption`: the bounds are natural numbers). `LinesAreTheStream` and
`MessagesAreTheLines` are almost inductive; `HeaderIsHeader` adds that `m_header` is set only from a line that
announces a body. What the flattening of a sequence of lines yields for every length is an induction over data: it is done
with the least-number principle for sets of naturals (`WFMin` with `NatLessThanWellFounded`), which
needs no operator parameter. The recursive function behind `Flat` is shown to exist in the same way.

**Routing** (`RoutingAssumption`: finitely many applications, node and application names differ from
"", "*", "localhost" and "userver", `MaxHops` at least 1, `UIntMax` any natural number). No step relates two pings, so the invariant is one
statement per ping, `IdOK`, and a step keeps it for all the others (`OtherIds`). `QueuedOK`: a queued message says what was sent, and is where its
destination sends it (`OnItsWay`: at the sender's node after no hop or at the destination's after one,
with an application only if the address names it). `OnceOK`: except for "*", a ping is at one userver and
nobody has seen it, or at applications each of which has not; an answer is in one place.
`CountOK`: the sender has seen as many pongs as there are applications that have seen the ping, answer, and
have no answer on the way (`Answered`). `OnlyAddressees` follows because these are addressees; without the
equation, that no answer is duplicated between three processes would not be inductive. `MaxHops` only bounds
broadcasts; one hop must be possible.

Only model-checked: the liveness properties `ClosesUnlessStalled`, `FirstAttemptEnds`, `PingIsAnswered` and
`GetsIn` (temporal reasoning under fairness is outside the prover's reach), and the counterexamples of section 3.

## 5. Plan

In this order; all of it exists, except for what item 10 names as left.

1. `SessionCore`, `Session` - everything else is made of sessions.
2. `SessionProofs`.
3. `Channel` - the protocol between two nodes.
4. `Outgoing`, `OutgoingProofs`.
5. `Framing` - the stream against its messages.
6. `Routing` - where a message goes, against the addressing rules of `tz.md`.
7. `Locals` - an application and its userver, take-over, reconnecting.
8. `Dispatcher` - handler lists under registration from handlers, exceptions.
9. `Delivery` and `Channel` as its refinement.
10. Proofs: the safety properties of all modules and the refinement are done. Left are
    the non-temporal facts that the liveness properties rest on (which action every waiting state enables),
    and the two hazards without a property in `PROJECT.json`.

## 6. Not modelled

`NetLeaf` is not compiled. `UConfig`, `NetAppContext`, the `main()` functions, `enum.h`, `dbg.h` and
`dump.h` have no behaviour to check beyond the constants they supply. The threads of `AResolver` show
only as answers that come later; the property-tree translators of `Priority` only as values. A dispatch
from within a handler and the assignment of one `ScopedConnection` over another occur nowhere in the
repository. `NetClient::auth()` for a peer that is not local and `handlePriorityMsg()` with an undefined
priority need a peer that is no userver of this repository. JSON, the wording of log lines and
of reasons are abstracted. An exception that escapes a handler ends the program: in `Dispatcher`
that is the phase "ended" (`cname()`), in `Locals` it is one of the causes of `SrvExit` (`remote_endpoint()` in
`do_accept()`); `Channel` does not have it.
