------------------------------- MODULE Session -------------------------------
(***************************************************************************)
(* One session (src/uzel/session.cpp) against everything that can happen   *)
(* to it: the peer, the kernel, and the owners that call putOutQueue(),    *)
(* takeOverMessages() and gracefullClose() once s_auth gave them the       *)
(* session.  Every action is one completion handler or one such call; the  *)
(* program has a single io_context thread, so each is atomic.              *)
(*                                                                         *)
(* Messages are serial numbers in the order the session accepts them; the  *)
(* auth message of start() is number 0.                                    *)
(***************************************************************************)
EXTENDS SessionCore

CONSTANT MaxMsgs    \* serial numbers the owners may use: 1 .. MaxMsgs

ASSUME MaxMsgsAssumption == MaxMsgs \in Nat

VARIABLES
  s,        \* the session object
  next,     \* the next serial number
  buf,      \* the message whose bytes the pending async_write refers to
  stream,   \* serial numbers handed to TCP, in order
  closed    \* number of times s_closed has been emitted

vars == <<s, next, buf, stream, closed>>

NoMsg == MaxMsgs + 1
Serials == 0..MaxMsgs

Init ==
  /\ \E dir \in Directions : s = NewSession(dir)
  /\ next = 1
  /\ buf = NoMsg
  /\ stream = <<>>
  /\ closed = 0

\* The buffer a newly started write refers to is the front of the queue.
BufferOf(t) == IF s.wr = "none" /\ t.wr = "started" THEN Head(t.q) ELSE buf

\* A step that changes the session and leaves the stream alone.
Becomes(t) ==
  /\ s' = t
  /\ buf' = BufferOf(t)
  /\ UNCHANGED stream

\* Every path to stop(): s_closed is emitted when m_stopped was not yet set.
StopAndSignalTwice(t) ==
  /\ \E u \in Stop(t, {"late"}) : s' = u
  /\ closed' = closed + 1
  /\ buf' = buf
StopAndSignal(t) ==
  /\ \E u \in Stop(t, {"late"}) : s' = u
  /\ closed' = IF t.stopped THEN closed ELSE closed + 1
  /\ buf' = buf

-----------------------------------------------------------------------------
(* connectHandler() and do_accept() *)

Connected ==
  /\ s.sock = "connecting"
  /\ Becomes(Start([s EXCEPT !.sock = "open"], 0))
  /\ UNCHANGED <<next, closed>>

ConnectFailed ==
  /\ s.sock = "connecting"
  /\ StopAndSignal(s)
  /\ UNCHANGED <<next, stream>>

Accepted ==
  /\ s.dir = "incoming" /\ s.rd = "off" /\ ~s.closeFlag
  /\ Becomes(Start(s, 0))
  /\ UNCHANGED <<next, closed>>

Refused ==
  /\ s.dir = "incoming" /\ s.rd = "off" /\ ~s.closeFlag
  /\ Becomes(GracefullClose(s))
  /\ UNCHANGED <<next, closed>>

(* the owners, who know the session only after s_auth *)

Put ==
  /\ s.auth /\ next <= MaxMsgs
  /\ Becomes(PutOutQueue(s, next))
  /\ next' = next + 1
  /\ UNCHANGED closed

TakeOverPastEnd ==
  /\ s.auth
  /\ \E last \in next..MaxMsgs :
       /\ \E t \in TakeOverMessages(s, Append([i \in 1..(last - next + 1) |->
                                                next + i - 1], NoMsg)) :
            Becomes(t)
       /\ next' = last + 1
  /\ UNCHANGED closed
TakeOver ==
  /\ s.auth
  /\ \E last \in next..MaxMsgs :
       /\ \E t \in TakeOverMessages(s, [i \in 1..(last - next + 1) |->
                                         next + i - 1]) :
            Becomes(t)
       /\ next' = last + 1
  /\ UNCHANGED closed

Close ==
  /\ s.auth
  /\ Becomes(GracefullClose(s))
  /\ UNCHANGED <<next, closed>>

(* the write side *)

Transmit ==
  /\ s.wr = "started" /\ ~s.stopped
  /\ s' = Transmitted(s)
  /\ stream' = Append(stream, buf)
  /\ UNCHANGED <<next, buf, closed>>

WriteOk ==
  /\ s.wr = "sent"
  /\ \E t \in WriteDone(s) : s' = t
  /\ buf' = NoMsg
  /\ UNCHANGED <<next, stream, closed>>

WriteFailed ==
  /\ s.wr = "started"
  /\ \E u \in Stop([s EXCEPT !.wr = "none"], {"late"}) : s' = u
  /\ closed' = IF s.stopped THEN closed ELSE closed + 1
  /\ buf' = NoMsg
  /\ UNCHANGED <<next, stream>>

ByeDone ==
  /\ s.bye > 0
  /\ StopAndSignal([s EXCEPT !.bye = @ - 1])
  /\ UNCHANGED <<next, stream>>

(* the read side: one line of input per handler *)

\* The first message that names an acceptable peer authenticates the session;
\* later ones go to the dispatcher and do not touch the session.
ReadGood ==
  /\ s.rd # "off"
  /\ \E t \in LineDone([s EXCEPT !.auth = TRUE]) : Becomes(t)
  /\ UNCHANGED <<next, closed>>

\* A first message that authenticate() refuses.
ReadRefused ==
  /\ s.rd # "off" /\ ~s.auth
  /\ \E t \in LineDone(GracefullClose(s)) : Becomes(t)
  /\ UNCHANGED <<next, closed>>

\* A read error, or input that InputProcessor cannot parse.
ReadFailed ==
  /\ s.rd # "off"
  /\ StopAndSignal([s EXCEPT !.rd = "off"])
  /\ UNCHANGED <<next, stream>>

-----------------------------------------------------------------------------

Owner == Put \/ TakeOver \/ Close

Next ==
  \/ Connected \/ ConnectFailed \/ Accepted \/ Refused
  \/ Owner
  \/ Transmit \/ WriteOk \/ WriteFailed \/ ByeDone
  \/ ReadGood \/ ReadRefused \/ ReadFailed

Spec == Init /\ [][Next]_vars

\* The kernel completes or fails every write it was given, and the io_context
\* runs every handler that is ready; the owners and the peer owe nothing.
Fairness ==
  /\ WF_vars(Transmit \/ WriteFailed)
  /\ WF_vars(WriteOk)
  /\ WF_vars(ByeDone)

FairSpec == Spec /\ Fairness

-----------------------------------------------------------------------------

TypeOK ==
  /\ s \in SessionType(Serials)
  /\ next \in 1..(MaxMsgs + 1)
  /\ buf \in Serials \cup {NoMsg}
  /\ stream \in Seq(Serials)
  /\ closed \in Nat

(***************************************************************************)
(* The safety properties of this module hold for every MaxMsgs; the proofs *)
(* are in SessionProofs.                                                   *)
(***************************************************************************)

\* While a write is in flight its buffer is the front of m_outQueue: the handler
\* pops exactly the message that was written, never pops an empty deque, and
\* the bytes stay alive until the handler runs (session.cpp:262-274).
WritesTheFront ==
  s.wr # "none" => s.q # <<>> /\ buf = Head(s.q)

Increasing(seq) ==
  \A i, j \in 1..Len(seq) : i < j => seq[i] < seq[j]

\* TCP is given the messages in the order they were accepted, none twice, and
\* none of those still queued has been sent (expiry may leave gaps), however
\* puts, take-overs, closes and write completions interleave.
SentInOrder ==
  /\ Increasing(stream)
  /\ Increasing(s.q)
  /\ \A i \in 1..Len(stream), j \in 1..Len(s.q) :
       stream[i] < s.q[j] \/ (j = 1 /\ s.wr = "sent")
  /\ \A i \in 1..Len(stream) : stream[i] < next
  /\ \A j \in 1..Len(s.q) : s.q[j] < next

\* The log line of deleteOld() dereferences m_msg1 only once it is set: a
\* session drops expired messages only when it is authenticated
\* (session.cpp:244, session.cpp:250).
DropsOnlyAuthenticated == ~s.nullDeref

\* s_closed is emitted once, by the first of the read, write and bye handlers
\* to call stop(), so the owners' onSessionClosed slots run exactly once.
ClosedSignalledOnce == closed = IF s.stopped THEN 1 ELSE 0

\* The facts about the objects' life that make the properties above inductive.
\* Nothing is queued or sent before start(), which runs at most once ...
Fresh ==
  s.sock = "connecting" \/ (s.rd = "off" /\ ~s.closeFlag)
    => s.q = <<>> /\ s.wr = "none" /\ ~s.auth /\ stream = <<>>

\* ... a socket that is being connected belongs to an outgoing session that
\* nobody has closed yet ...
ConnectingIsNew ==
  s.sock = "connecting" => s.dir = "outgoing" /\ s.rd = "off" /\ ~s.closeFlag

\* ... stop() sets both flags, and only it leaves a late read behind; and ...
StoppedFlags ==
  /\ s.stopped => s.closeFlag
  /\ s.rd = "late" => s.stopped

\* ... before authentication the queue holds the auth message at most.
OnlyAuthQueued ==
  ~s.auth => Len(s.q) <= 1

\* The inductive invariant.
IInv ==
  /\ TypeOK /\ WritesTheFront /\ SentInOrder
  /\ DropsOnlyAuthenticated /\ ClosedSignalledOnce
  /\ Fresh /\ ConnectingIsNew /\ StoppedFlags /\ OnlyAuthQueued

\* A session that is closing and still has a handler to come ends up stopped.
ClosesUnlessStalled ==
  (s.closeFlag /\ (s.wr # "none" \/ s.bye > 0)) ~> s.stopped

\* gracefullClose() shuts the session down: "notify peer and shut down"
\* (session.h:69).
GracefullCloseStops == s.closeFlag ~> s.stopped
=============================================================================
