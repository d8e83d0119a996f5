------------------------------ MODULE DiagLink ------------------------------
(***************************************************************************)
(* tcp_telemetry_task: one client at a time on port 8080.  Out go a header *)
(* and then a frame for each telemetry record the task gets to see; in     *)
(* come commands, one to a line, in whatever pieces TCP makes of them.     *)
(*                                                                         *)
(* Bytes are grouped: a unit is a newline, a zero byte, or a piece of the  *)
(* text of a command.  Frames are told apart by their tick.  The wait for  *)
(* the profile cache within a command is not a step of its own: the task   *)
(* goes on with the same line after it, and the slot may change before.    *)
(***************************************************************************)
EXTENDS ApiCommands, Saturating, FiniteSets

CONSTANTS
    Streams,   \* what a client may send, as sequences of units
    Texts,     \* the text of each command, as a sequence of units
    LineMax,   \* length of line_buf
    ReadMax,   \* length of read_buf
    MaxTicks   \* bound on the telemetry records published

\* A newline "nl", a zero byte "nul", or a piece of text.
Unit == STRING

ASSUME LinkAssumption ==
    /\ DOMAIN Texts \subseteq ApiCommand
    /\ \A cmd \in DOMAIN Texts : Texts[cmd] \in Seq(Unit)
    /\ Streams \subseteq Seq(Unit)
    /\ LineMax \in Nat \ {0}
    /\ ReadMax \in Nat \ {0}
    /\ MaxTicks \in Nat

VARIABLES
    link,    \* where the task is suspended
    stream,  \* what the client has yet to send
    chunk,   \* what was read and has not been looked at
    line,    \* line_buf[..line_pos]
    tick,    \* the latest record in TELEMETRY_WATCH, 0 before the first
    seen,    \* the latest that the receiver has taken; it outlives connections
    written, \* history: the records written to the client
    heard,   \* history: the units looked at on this connection
    obeyed   \* history: the commands carried out for this connection

linkVars == <<link, stream, chunk, line, tick, seen, written, heard, obeyed>>
diagVars == <<shared, linkVars>>

\* The header is the first record, and is not a tick.
Header == 0

-----------------------------------------------------------------------------
(* One connection *)

LinkAccept ==
    /\ link = "accept"
    /\ link' = "header"
    /\ stream' \in Streams
    /\ UNCHANGED <<shared, chunk, line, tick, seen, written, heard, obeyed>>

WriteHeader ==
    /\ link = "header"
    /\ link' = "select"
    /\ written' = <<Header>>
    /\ UNCHANGED <<shared, stream, chunk, line, tick, seen, heard, obeyed>>

\* Mutant of TakeRecord: whatever the watch holds, new or not.
TakeAnyRecord ==
    /\ link = "select"
    /\ tick # 0
    /\ seen' = tick
    /\ link' = "frame"
    /\ UNCHANGED <<shared, stream, chunk, line, tick, written, heard, obeyed>>

\* select: the watch has changed.
TakeRecord ==
    /\ link = "select"
    /\ tick # seen
    /\ seen' = tick
    /\ link' = "frame"
    /\ UNCHANGED <<shared, stream, chunk, line, tick, written, heard, obeyed>>

\* write_all returns: until then the task does nothing else.
WriteFrame ==
    /\ link = "frame"
    /\ link' = "select"
    /\ written' = Append(written, seen)
    /\ UNCHANGED <<shared, stream, chunk, line, tick, seen, heard, obeyed>>

\* Mutant of Receive: line_buf lives as long as read_buf.
ReceiveAfresh(k) ==
    /\ link = "select"
    /\ tick = seen
    /\ chunk' = SubSeq(stream, 1, k)
    /\ stream' = SubSeq(stream, k + 1, Len(stream))
    /\ link' = "chunk"
    /\ line' = << >>
    /\ UNCHANGED <<shared, tick, seen, written, heard, obeyed>>

\* select: the watch, which is polled first, has nothing new, and k units have
\* come in.
Receive(k) ==
    /\ link = "select"
    /\ tick = seen
    /\ chunk' = SubSeq(stream, 1, k)
    /\ stream' = SubSeq(stream, k + 1, Len(stream))
    /\ link' = "chunk"
    /\ UNCHANGED <<shared, line, tick, seen, written, heard, obeyed>>

ParsesAs(text, cmd) == cmd \in DOMAIN Texts /\ Texts[cmd] = text

\* The end of a line: carry out the command it holds, if it holds one.
EndOfLine ==
    /\ Head(chunk) = "nl"
    /\ line' = << >>
    /\ \/ \E cmd \in ApiCommand :
            ParsesAs(line, cmd) /\ HandleCommand(cmd) /\ obeyed' = Append(obeyed, cmd)
       \/ (\A cmd \in ApiCommand : ~ParsesAs(line, cmd)) /\ UNCHANGED <<shared, obeyed>>

\* Any other byte: zeros are skipped, and so is what no longer fits.
WithinLine ==
    /\ Head(chunk) # "nl"
    /\ line' = IF Head(chunk) # "nul" /\ Len(line) < LineMax THEN Append(line, Head(chunk)) ELSE line
    /\ UNCHANGED <<shared, obeyed>>

\* The loop over what was read.
LookAt ==
    /\ link = "chunk"
    /\ EndOfLine \/ WithinLine
    /\ chunk' = Tail(chunk)
    /\ heard' = Append(heard, Head(chunk))
    /\ link' = IF chunk' = << >> THEN "select" ELSE "chunk"
    /\ UNCHANGED <<stream, tick, seen, written>>

\* The client closes, or reading or writing fails.
LoseClient ==
    /\ link \in {"header", "frame"} \/ (link = "select" /\ tick = seen)
    /\ link' = "close"
    /\ UNCHANGED <<shared, stream, chunk, line, tick, seen, written, heard, obeyed>>

\* graceful_close; sockets and buffers are made anew for the next client.
LinkClose ==
    /\ link = "close"
    /\ link' = "accept"
    /\ stream' = << >>
    /\ line' = << >>
    /\ written' = << >>
    /\ heard' = << >>
    /\ obeyed' = << >>
    /\ UNCHANGED <<shared, chunk, tick, seen>>

\* ac_sync_control_task publishes a record.
Publish ==
    /\ tick < MaxTicks
    /\ tick' = tick + 1
    /\ UNCHANGED <<shared, link, stream, chunk, line, seen, written, heard, obeyed>>

LinkTask ==
    \/ LinkAccept
    \/ WriteHeader
    \/ TakeRecord
    \/ WriteFrame
    \/ \E k \in 1 .. ReadMax : k <= Len(stream) /\ Receive(k)
    \/ LookAt
    \/ LoseClient
    \/ LinkClose

LinkInit ==
    /\ SharedInit
    /\ link = "accept"
    /\ stream = << >>
    /\ chunk = << >>
    /\ line = << >>
    /\ tick = 0
    /\ seen = 0
    /\ written = << >>
    /\ heard = << >>
    /\ obeyed = << >>

LinkNext == LinkTask \/ Publish \/ (Firmware /\ UNCHANGED linkVars)

LinkSpec == LinkInit /\ [][LinkNext]_diagVars

-----------------------------------------------------------------------------
(* Properties *)

\* The rank of a position in a set of positions.
Rank(i, S) == Cardinality({j \in S : j <= i})

\* The positions in h of the units of the line that ends at e: those since the
\* last newline before e, the zero bytes left out.
LineAt(h, e) == {i \in 1 .. e - 1 : h[i] # "nul" /\ \A j \in i .. e - 1 : h[j] # "nl"}

\* The text is what the line that ends at e says, as far as it fits.
Spells(text, h, e) ==
    /\ Len(text) = AtMost(Cardinality(LineAt(h, e)), LineMax)
    /\ \A i \in LineAt(h, e) :
          Rank(i, LineAt(h, e)) <= LineMax => text[Rank(i, LineAt(h, e))] = h[i]

\* The newlines at which a line ends that spells a command.
CommandEnds(h) == {e \in DOMAIN h : h[e] = "nl" /\ \E cmd \in DOMAIN Texts : Spells(Texts[cmd], h, e)}

\* However a client's lines are cut into pieces, and whatever frames go out in
\* between, the commands carried out are the ones its lines spell, in their
\* order, each once, and nothing of an earlier client's line is among them
\* (line_buf, line_pos).
LinesReassembled ==
    /\ Len(obeyed) = Cardinality(CommandEnds(heard))
    /\ \A e \in CommandEnds(heard) :
          Spells(Texts[obeyed[Rank(e, CommandEnds(heard))]], heard, e)

\* "The header must land before any frame": a client reads the header, and then
\* frames of ever later ticks, none of them twice, also when it reconnects or is
\* slow (telemetry_rx is taken once, outside the accept loop).
FramesAdvance ==
    /\ written # << >> => written[1] = Header
    /\ \A i, j \in DOMAIN written : i < j => written[i] < written[j]
=============================================================================
