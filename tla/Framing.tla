------------------------------- MODULE Framing -------------------------------
(***************************************************************************)
(* From the bytes of a TCP stream to messages: AccuLine                    *)
(* (src/uzel/acculine.h) and InputProcessor                                *)
(* (src/uzel/inputprocessor.cpp).  The socket delivers the stream in       *)
(* blocks of its own choosing; AccuLine cuts it into lines; a message is   *)
(* one line that holds header and body, or a header line and a body line.  *)
(*                                                                         *)
(* A byte is "n", the end of a line, or one of three others.  The line     *)
(* "hx" is the header of a message of two lines, "ex" is a message of one  *)
(* line; no other line is JSON, a prefix of these two included, but any    *)
(* line will do as the second line of a message.                           *)
(*                                                                         *)
(* One iteration of the loop of processNewInput() is one action: what      *)
(* dispatchMsg() does with a message is the subject of Session, Channel    *)
(* and Routing.                                                            *)
(***************************************************************************)
EXTENDS Naturals, Sequences

CONSTANTS MaxStream,   \* bound on the length of the stream
          MaxBlock     \* length of the read buffer, session::max_length

ASSUME FramingAssumption == MaxStream \in Nat /\ MaxBlock \in Nat

Bytes == {"n", "h", "e", "x"}

VARIABLES
  cmd,      \* AccuLine::m_cmd
  cur,      \* AccuLine::m_curline
  header,   \* InputProcessor::m_header: empty, or the line it was read from
  out,      \* the messages given to session::dispatchMsg(), each a sequence of
            \* the lines it was made of
  mode,     \* "wait" for a block, "loop" in processNewInput(), "failed" when it
            \* has returned false and the session stops
  input,    \* the stream received so far
  lines     \* the lines getNextCmd() has returned so far

vars == <<cmd, cur, header, out, mode, input, lines>>

Init ==
  /\ cmd = <<>> /\ cur = <<>> /\ header = <<>> /\ out = <<>>
  /\ mode = "wait" /\ input = <<>> /\ lines = <<>>

-----------------------------------------------------------------------------

\* The read handler has a block: addNewInput().
NewInput(block) ==
  /\ mode = "wait"
  /\ Len(input) + Len(block) <= MaxStream
  /\ input' = input \o block
  /\ cur' = block
  /\ mode' = "loop"
  /\ UNCHANGED <<cmd, header, out, lines>>

Complete == \E p \in DOMAIN cur : cur[p] = "n"

EolPos == CHOOSE p \in DOMAIN cur :
            cur[p] = "n" /\ \A q \in 1..(p - 1) : cur[q] # "n"

\* getNextCmd() without a complete line keeps the rest of the block, and the loop
\* ends.
NoCmdForgetsRest ==
  /\ mode = "loop" /\ ~ Complete
  /\ cmd' = cur
  /\ cur' = <<>>
  /\ mode' = "wait"
  /\ UNCHANGED <<header, out, input, lines>>
NoCmd ==
  /\ mode = "loop" /\ ~ Complete
  /\ cmd' = cmd \o cur
  /\ cur' = <<>>
  /\ mode' = "wait"
  /\ UNCHANGED <<header, out, input, lines>>

\* The line that getNextCmd() returns when there is one.
LineWithEol == cmd \o SubSeq(cur, 1, EolPos)
Line == cmd \o SubSeq(cur, 1, EolPos - 1)

GetNextCmd ==
  /\ mode = "loop" /\ Complete
  /\ lines' = Append(lines, Line)
  /\ cur' = SubSeq(cur, EolPos + 1, Len(cur))
  /\ cmd' = <<>>
  /\ UNCHANGED input

\* What read_json() and the search for "body" make of a line.
Kind(line) == CASE line = <<"h", "x">> -> "header"
                [] line = <<"e", "x">> -> "whole"
                [] OTHER -> "bad"

HeaderLine ==
  /\ GetNextCmd
  /\ header = <<>> /\ Kind(Line) = "header"
  /\ header' = <<Line>>
  /\ UNCHANGED <<out, mode>>

\* A header with a body in it: m_header is set, used and reset.
WholeMessageKeepsHeader ==
  /\ GetNextCmd
  /\ header = <<>> /\ Kind(Line) = "whole"
  /\ out' = Append(out, <<Line>>)
  /\ header' = <<Line>>
  /\ UNCHANGED mode
WholeMessage ==
  /\ GetNextCmd
  /\ header = <<>> /\ Kind(Line) = "whole"
  /\ out' = Append(out, <<Line>>)
  /\ UNCHANGED <<header, mode>>

\* read_json() throws: m_header was made before and stays, and the session stops.
BadLine ==
  /\ GetNextCmd
  /\ header = <<>> /\ Kind(Line) = "bad"
  /\ header' = <<Line>>
  /\ mode' = "failed"
  /\ UNCHANGED out

BodyLine ==
  /\ GetNextCmd
  /\ header # <<>>
  /\ out' = Append(out, Append(header, Line))
  /\ header' = <<>>
  /\ UNCHANGED mode

Blocks == UNION {[1..k -> Bytes] : k \in 1..MaxBlock}

Next ==
  \/ \E block \in Blocks : NewInput(block)
  \/ NoCmd \/ HeaderLine \/ WholeMessage \/ BadLine \/ BodyLine

Spec == Init /\ [][Next]_vars

-----------------------------------------------------------------------------

Lines == Seq(Bytes \ {"n"})

TypeOK ==
  /\ cmd \in Lines /\ lines \in Seq(Lines)
  /\ cur \in Seq(Bytes) /\ input \in Seq(Bytes)
  /\ header \in {<<>>} \cup {<<l>> : l \in {lines[i] : i \in DOMAIN lines}}
  /\ out \in Seq(Seq(Lines))
  /\ mode \in {"wait", "loop", "failed"}

Flat(ss) ==
  LET f[k \in 0..Len(ss)] == IF k = 0 THEN <<>> ELSE f[k - 1] \o ss[k]
  IN  f[Len(ss)]

\* However the stream is cut into blocks, the lines returned, the unfinished line
\* and the rest of the block are the stream, in order; no line holds an end of
\* line, and none is held back when the next block is waited for
\* (acculine.h:29-48).
LinesAreTheStream ==
  /\ Flat([i \in DOMAIN lines |-> Append(lines[i], "n")]) \o cmd \o cur = input
  /\ \A i \in DOMAIN lines : lines[i] \in Lines
  /\ mode = "wait" => cmd \in Lines /\ cur = <<>>

\* Every line goes into one message, in order, and every message has the one or
\* two lines its header asks for: no body is taken for a header, and no header is
\* left over from an earlier message (inputprocessor.cpp:11-47).
MessagesAreTheLines ==
  /\ Flat(out) \o header = lines
  /\ \A i \in DOMAIN out :
       \/ Len(out[i]) = 1 /\ Kind(out[i][1]) = "whole"
       \/ Len(out[i]) = 2 /\ Kind(out[i][1]) = "header"
=============================================================================
