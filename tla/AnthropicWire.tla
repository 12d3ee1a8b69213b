--------------------------- MODULE AnthropicWire ---------------------------
(***************************************************************************)
(* The Anthropic Messages stream as the client that reads it sees it.      *)
(* src/sse/anthropic.rs builds the frames; each operator below is one      *)
(* builder, taken as the step the frame makes in what the client has       *)
(* received. A frame that the stream contract does not allow at that       *)
(* point leaves the client with a message it can no longer make sense of:  *)
(* phase "broken", which nothing leaves again.                             *)
(***************************************************************************)
EXTENDS Naturals, Sequences

BlockKind == {"text", "tool", "agent"}  \* "agent": a tool_use of the Agent tool
StopReason == {"end_turn", "tool_use", "max_tokens"}
Phase == {"empty", "open", "closing", "stopped", "broken"}

ClientView ==
  [phase   : Phase,
   content : Seq(BlockKind),  \* the blocks announced; block i is content[i + 1]
   open    : SUBSET Nat,      \* announced, not yet stopped
   whole   : SUBSET Nat,      \* Agent blocks whose input arrived, in one piece
   stop    : StopReason,      \* meaningful once phase is "stopped"
   failed  : BOOLEAN]         \* an error frame was received

NothingReceived ==
  [phase |-> "empty", content |-> <<>>, open |-> {}, whole |-> {},
   stop |-> "end_turn", failed |-> FALSE]

Broken(c) == [c EXCEPT !.phase = "broken"]

\* The message is under way and block index is one of its open blocks.
Streaming(c, index) == c.phase = "open" /\ index \in c.open

KindOf(c, index) == c.content[index + 1]

MessageStart(c) ==
  IF c.phase = "empty" THEN [c EXCEPT !.phase = "open"] ELSE Broken(c)

\* Indices are assigned in order, so the next block has the number of blocks.
ContentBlockStart(c, index, kind) ==
  IF c.phase = "open" /\ index = Len(c.content)
  THEN [c EXCEPT !.content = Append(@, kind), !.open = @ \cup {index}]
  ELSE Broken(c)

TextDelta(c, index) ==
  IF Streaming(c, index) /\ KindOf(c, index) = "text" THEN c ELSE Broken(c)

\* A fragment of a tool's input. An Agent's input may not come in pieces; a
\* text block has no input, but its framing survives being sent one.
InputJsonDelta(c, index) ==
  IF Streaming(c, index) /\ KindOf(c, index) # "agent" THEN c ELSE Broken(c)

\* The complete inputs of the Agent blocks in indices, each sent once.
InputJsonWhole(c, indices) ==
  IF \A i \in indices : Streaming(c, i) /\ i \notin c.whole
  THEN [c EXCEPT !.whole = @ \cup indices]
  ELSE Broken(c)

\* The blocks in indices stop. An Agent call without its input is no call.
ContentBlockStops(c, indices) ==
  IF \A i \in indices : /\ Streaming(c, i)
                        /\ KindOf(c, i) = "agent" => i \in c.whole
  THEN [c EXCEPT !.open = @ \ indices]
  ELSE Broken(c)

MessageDelta(c, stop) ==
  IF c.phase = "open" /\ c.open = {}
  THEN [c EXCEPT !.phase = "closing", !.stop = stop]
  ELSE Broken(c)

MessageStop(c) ==
  IF c.phase = "closing" THEN [c EXCEPT !.phase = "stopped"] ELSE Broken(c)

ErrorFrame(c) == [c EXCEPT !.failed = TRUE]
=============================================================================
