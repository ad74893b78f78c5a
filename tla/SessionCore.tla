----------------------------- MODULE SessionCore -----------------------------
(***************************************************************************)
(* One uzel::session object as a record, and what each of its methods and  *)
(* completion handlers does to it (src/uzel/session.cpp).  The module has  *)
(* no variables: Session runs one such object against an arbitrary         *)
(* environment, Channel runs a pair of them per TCP connection.            *)
(*                                                                         *)
(* Fields of the record:                                                   *)
(*   dir        m_direction                                                *)
(*   sock       m_socket: "connecting", "open" or "closed"                 *)
(*   q          m_outQueue                                                 *)
(*   wr         the async_write of m_outQueue.front(): "none", "started",  *)
(*              or "sent" (bytes handed over, handler not yet run)         *)
(*   bye        number of bye writes whose handler has not run             *)
(*   auth       m_msg1 # nullptr                                           *)
(*   closeFlag, stopped   the members of the same name                     *)
(*   rd         the async_read_some: "off", "on", or "late" (it completed  *)
(*              with data before the socket was closed, its handler is     *)
(*              still to run)                                              *)
(*   nullDeref  deleteOld() has dereferenced m_msg1 while it was null      *)
(***************************************************************************)
EXTENDS Naturals, Sequences

Directions == {"incoming", "outgoing"}

\* The constructor; an accepted socket is open, a fresh one is about to be
\* handed to async_connect.
NewSession(dir) ==
  [dir |-> dir, sock |-> IF dir = "incoming" THEN "open" ELSE "connecting",
   q |-> <<>>, wr |-> "none", bye |-> 0, auth |-> FALSE,
   closeFlag |-> FALSE, stopped |-> FALSE, rd |-> "off", nullDeref |-> FALSE]

SessionType(Msg) ==
  [dir : Directions, sock : {"connecting", "open", "closed"},
   q : Seq(Msg), wr : {"none", "started", "sent"}, bye : Nat, auth : BOOLEAN,
   closeFlag : BOOLEAN, stopped : BOOLEAN, rd : {"off", "on", "late"},
   nullDeref : BOOLEAN]

\* deleteOld(): drop the first k messages, those older than MessageTTL_sec.
\* Which ones are is up to the clock, so every k is possible.  When something
\* was dropped the log line dereferences m_msg1.
DeleteOld(s) ==
  { [s EXCEPT !.q = SubSeq(@, k + 1, Len(@)),
              !.nullDeref = @ \/ (k > 0 /\ ~s.auth)] : k \in 0..Len(s.q) }

\* do_write() up to the start of the asynchronous operation.
DoWrite(s) ==
  { IF t.q = <<>> THEN t ELSE [t EXCEPT !.wr = "started"] : t \in DeleteOld(s) }

\* putOutQueue(): only the first message of an empty queue starts a write; it
\* has just been stamped, so deleteOld() inside do_write() cannot drop it.
PutOutQueueAlwaysWrites(s, m) ==
  [s EXCEPT !.q = Append(@, m), !.wr = "started"]
PutOutQueue(s, m) ==
  [s EXCEPT !.q = Append(@, m),
            !.wr = IF s.q = <<>> THEN "started" ELSE @]

\* takeOverMessages(oq) for a queue without service messages.
TakeOverAlwaysWrites(s, oq) ==
  IF oq # <<>> THEN DoWrite([s EXCEPT !.q = @ \o oq]) ELSE {s}
TakeOverMessages(s, oq) ==
  IF oq # <<>> /\ s.q = <<>> THEN DoWrite([s EXCEPT !.q = oq])
                             ELSE {[s EXCEPT !.q = @ \o oq]}

\* sendByeAndClose(): starts the write whose handler calls stop().
SendByeAndClose(s) == [s EXCEPT !.bye = @ + 1]

\* gracefullClose(): with messages queued, the bye is left to the write handler.
GracefullClose(s) ==
  IF s.closeFlag THEN s
  ELSE LET t == [s EXCEPT !.closeFlag = TRUE]
       IN  IF s.q = <<>> THEN SendByeAndClose(t) ELSE t

\* start(): queue the auth message and arm the read.
Start(s, authMsg) == [PutOutQueue(s, authMsg) EXCEPT !.rd = "on"]

\* The bytes of the front message have left; the handler is now queued.
Transmitted(s) == [s EXCEPT !.wr = "sent"]

\* Handler of a successful write: pop, drop what expired, say bye if closing.
\* The handler then returns: it never starts the next write.
WriteDoneExpiresFirst(s) ==
  { LET u == [t EXCEPT !.wr = "none", !.q = IF @ = <<>> THEN @ ELSE Tail(@)]
    IN  IF u.closeFlag THEN SendByeAndClose(u) ELSE u : t \in DeleteOld(s) }
WriteDoneForgetsBye(s) == DeleteOld([s EXCEPT !.q = Tail(@), !.wr = "none"])
WriteDoneIfOpen(s) ==
  IF s.stopped THEN { [s EXCEPT !.wr = "none"] }
  ELSE { IF t.closeFlag THEN SendByeAndClose(t) ELSE t :
           t \in DeleteOld([s EXCEPT !.q = Tail(@), !.wr = "none"]) }
WriteDone(s) ==
  { IF t.closeFlag THEN SendByeAndClose(t) ELSE t :
      t \in DeleteOld([s EXCEPT !.q = Tail(@), !.wr = "none"]) }

\* stop() and shutdown(): cancel and close the socket.  A cancelled read ends
\* in an error handler that finds m_stopped set; but one that already holds
\* data (reads = {"late"}) may have its handler in the run queue by then.
StopClearsQueue(s, reads) ==
  IF s.stopped THEN {s}
  ELSE { [s EXCEPT !.stopped = TRUE, !.closeFlag = TRUE, !.sock = "closed",
                   !.q = <<>>, !.rd = r] :
           r \in {"off"} \cup (IF s.rd = "on" THEN reads ELSE {}) }
Stop(s, reads) ==
  IF s.stopped THEN {s}
  ELSE { [s EXCEPT !.stopped = TRUE, !.closeFlag = TRUE, !.sock = "closed",
                   !.rd = r] :
           r \in {"off"} \cup (IF s.rd = "on" THEN reads ELSE {}) }

\* One line of input has been processed.  The read handler goes on with the
\* lines left in its chunk and then re-arms with do_read(), which fails on a
\* closed socket.
LineDone(s) ==
  { [s EXCEPT !.rd = r] :
      r \in IF s.stopped THEN {"late", "off"} ELSE {"on"} }
=============================================================================
