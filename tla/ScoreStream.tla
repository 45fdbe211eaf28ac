----------------------------- MODULE ScoreStream -----------------------------
(***************************************************************************)
(* The keeper's connection to the TxLINE score stream: a loop that         *)
(* connects, parses server-sent events out of whatever chunks arrive, and  *)
(* connects again when the connection ends or breaks, until it is stopped. *)
(* A frame on the wire is a data line, cut in two where a chunk may end    *)
(* inside it, and the blank line that closes the frame.                    *)
(***************************************************************************)
EXTENDS Integers, Sequences, SequencesExt, FiniteSets

CONSTANTS
  Crlf,          \* the server ends its lines with CR LF
  MaxFrames,     \* bound on the frames of one connection
  MaxBreaks,     \* bound on connections that fail or break
  MaxEnds        \* bound on connections the server ends

ASSUME StreamConstants == Crlf \in BOOLEAN /\ {MaxFrames, MaxBreaks, MaxEnds} \subseteq Nat

VARIABLES
  phase,         \* connect, open, sleep or returned
  closed,        \* stop() was called
  aborted,       \* the AbortController of this round
  backoff,       \* backoffMs, in doublings of a second
  published,     \* frames the server has sent on this connection
  wire,          \* what is on its way
  buffer,        \* the parser's buffer
  emitted,       \* events emitted on this connection
  breaks, ends

streamVars == <<phase, closed, aborted, backoff, published, wire, buffer, emitted, breaks, ends>>

Kinds == {"heartbeat", "goal", "end", "other"}
CR == <<"cr", "">>
LF == <<"lf", "">>
Newline == IF Crlf THEN <<CR, LF>> ELSE <<LF>>
FrameText(kind) == <<<<kind, "head">>, <<kind, "rest">>>> \o Newline \o Newline
Separator == <<LF, LF>>
Texts == Seq({CR, LF} \cup (Kinds \X {"head", "rest"}))
MaxBackoff == 5

StreamInit ==
  /\ phase = "connect" /\ closed = FALSE /\ aborted = FALSE /\ backoff = 0
  /\ published = <<>> /\ wire = <<>> /\ buffer = <<>> /\ emitted = <<>>
  /\ breaks = 0 /\ ends = 0

-----------------------------------------------------------------------------
\* SseFrameParser and handleFrame.

\* push: CR LF becomes LF within a chunk.
Normalized[chunk \in Texts] ==
  IF chunk = <<>> THEN <<>>
  ELSE IF Len(chunk) > 1 /\ SubSeq(chunk, 1, 2) = <<CR, LF>>
       THEN <<LF>> \o Normalized[SubSeq(chunk, 3, Len(chunk))]
       ELSE <<Head(chunk)>> \o Normalized[Tail(chunk)]

\* Where the first closed frame of the text ends, 0 when none does.
FrameEnd(text) ==
  LET closed_ == {i \in 1..(Len(text) - 1) : SubSeq(text, i, i + 1) = Separator}
  IN  IF closed_ = {} THEN 0 ELSE Min(closed_)

\* handleFrame and normalizeMatchEvent: the end of a match is a score as well, a
\* payload without a fixture nothing.
normalizeMatchEvent(kind) ==
  CASE kind = "heartbeat" -> <<"heartbeat">>
    [] kind = "goal"      -> <<"score">>
    [] kind = "end"       -> <<"score", "ended">>
    [] kind = "other"     -> <<>>

\* A frame that is one whole line is JSON.
handleFrame(frame) ==
  LET line == SelectSeq(frame, LAMBDA t : t # CR)
  IN  IF \E kind \in Kinds : line = <<<<kind, "head">>, <<kind, "rest">>>>
      THEN normalizeMatchEvent(line[1][1]) ELSE <<>>

\* All closed frames of the text, and what is left of it.
Parsed[text \in Texts] ==
  LET i == FrameEnd(text)
  IN  IF i = 0 THEN [events |-> <<>>, rest |-> text]
      ELSE LET more == Parsed[SubSeq(text, i + 2, Len(text))]
           IN  [events |-> handleFrame(SubSeq(text, 1, i - 1)) \o more.events, rest |-> more.rest]

\* Broken: every chunk is parsed on its own.
Forgetful(chunk) == Parsed[Normalized[chunk]]
push(chunk) == Parsed[buffer \o Normalized[chunk]]

\* parseSseText, which the history client uses on a whole body.
parseSseText(text) ==
  LET whole == Parsed[Normalized[text]] IN whole.events \o handleFrame(whole.rest)

-----------------------------------------------------------------------------
\* The server.

Publish ==
  /\ phase = "open" /\ Len(published) < MaxFrames
  /\ \E kind \in Kinds :
       /\ published' = Append(published, kind)
       /\ wire' = wire \o FrameText(kind)
  /\ UNCHANGED <<phase, closed, aborted, backoff, buffer, emitted, breaks, ends>>

-----------------------------------------------------------------------------
\* start and connectOnce.

\* What follows the connection that ended or broke: nothing of it is kept.
Forget == published' = <<>> /\ wire' = <<>> /\ buffer' = <<>> /\ emitted' = <<>>

Connects ==
  /\ phase = "connect" /\ ~aborted
  /\ phase' = "open"
  /\ UNCHANGED <<closed, aborted, backoff, published, wire, buffer, emitted, breaks, ends>>

\* A chunk of any size.
Receive ==
  /\ phase = "open" /\ ~aborted /\ wire # <<>>
  /\ \E n \in 1..Len(wire) :
       LET read == push(SubSeq(wire, 1, n))
       IN  /\ emitted' = emitted \o read.events
           /\ buffer' = read.rest
           /\ wire' = SubSeq(wire, n + 1, Len(wire))
  /\ UNCHANGED <<phase, closed, aborted, backoff, published, breaks, ends>>

\* The server ends the stream: flush, and connect again at once.
EndOfBody ==
  /\ phase = "open" /\ ~aborted /\ wire = <<>> /\ ends < MaxEnds
  /\ ends' = ends + 1 /\ backoff' = 0 /\ phase' = "connect"
  /\ Forget
  /\ UNCHANGED <<closed, aborted, breaks>>

\* A call that fails or a connection that breaks: wait, longer every time.
Breaks ==
  /\ phase \in {"connect", "open"} /\ ~aborted /\ breaks < MaxBreaks
  /\ breaks' = breaks + 1 /\ phase' = "sleep"
  /\ backoff' = IF backoff < MaxBackoff THEN backoff + 1 ELSE backoff
  /\ Forget
  /\ UNCHANGED <<closed, aborted, ends>>

Wakes ==
  /\ phase = "sleep" /\ phase' = IF closed THEN "returned" ELSE "connect"
  /\ UNCHANGED <<closed, aborted, backoff, published, wire, buffer, emitted, breaks, ends>>

\* stop() aborts the connection or the call under way, if there is one.
stop ==
  /\ ~closed /\ closed' = TRUE
  /\ aborted' = (phase \in {"connect", "open"})
  /\ UNCHANGED <<phase, backoff, published, wire, buffer, emitted, breaks, ends>>

Aborts ==
  /\ aborted /\ phase' = "returned" /\ aborted' = FALSE
  /\ Forget
  /\ UNCHANGED <<closed, backoff, breaks, ends>>

\* start() again.
start ==
  /\ phase = "returned" /\ phase' = "connect" /\ closed' = FALSE /\ backoff' = 0
  /\ UNCHANGED <<aborted, published, wire, buffer, emitted, breaks, ends>>

StreamStep == Connects \/ Receive \/ Wakes \/ Aborts

StreamNext == Publish \/ EndOfBody \/ Breaks \/ stop \/ start \/ StreamStep

-----------------------------------------------------------------------------
\* However the stream is cut into chunks, the events are those of the frames
\* sent, in order, each as soon as it is complete: what parsing the whole text
\* gives, as the history client does it.
ChunkingIrrelevant ==
  LET text == FlattenSeq([i \in DOMAIN published |-> FrameText(published[i])])
      expected == FlattenSeq([i \in DOMAIN published |-> normalizeMatchEvent(published[i])])
  IN  /\ IsPrefix(emitted, expected)
      /\ wire = <<>> => emitted = parseSseText(text)
=============================================================================
