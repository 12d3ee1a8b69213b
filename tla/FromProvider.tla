---------------------------- MODULE FromProvider ----------------------------
(***************************************************************************)
(* From a provider's reply to the content of an Anthropic message, in each *)
(* of the ways it can be delivered: one JSON object, an event stream that  *)
(* is passed on as it arrives, and an event stream that is read to its end *)
(* because only the provider streams (responses/response.rs,               *)
(* responses/stream.rs, openai_compat/response.rs,                         *)
(* openai_compat/stream.rs).                                               *)
(*                                                                         *)
(* A reply is a sequence of output items [kind, text, id]: reasoning, a    *)
(* message or a call, whose text is its arguments and whose id may be      *)
(* missing; and a status.  The order of events inside a stream is the      *)
(* matter of ResponsesTurn and OpenAIStream.                               *)
(***************************************************************************)
EXTENDS Messages

Kind == {"reasoning", "message", "call"}
ReplyItem == [kind : Kind, text : Text, id : Id]
Status == {"completed", "incomplete", "failed"}

(* A call without an id gets one made of a position.                       *)
IdOr(id, position) == IF id = NoId THEN FallbackId(position) ELSE id

Calls(items) == LET Is(x) == x.kind = "call" IN Only(Is, items)
Said(items, kind) ==
  LET Is(x) == x.kind = kind
  IN  FlattenSeq(TextsOf(Only(Is, items)))

TextOrNothing(text) == IF text = <<>> THEN <<>> ELSE <<TextBlock(text)>>

-----------------------------------------------------------------------------
(* Responses, one JSON object: a block for each item that says something.  *)
WholeBlocks(items) ==
  LET BlocksOf(i) ==
        IF items[i].kind = "call"
        THEN <<ToolUse(IdOr(items[i].id, i - 1), items[i].text)>>
        ELSE TextOrNothing(items[i].text)
  IN  FlattenSeq([i \in DOMAIN items |-> BlocksOf(i)])

WholeStop(items, status) ==
  IF status = "incomplete" THEN "max_tokens"
  ELSE IF Calls(items) # <<>> THEN "tool_use" ELSE "end_turn"

(* Responses, assembled from the events: the reasoning, the text, then the *)
(* calls by the position of their item.                                    *)
AssembledBlocks(items) ==
  LET CallAt(i) == IF items[i].kind = "call"
                   THEN <<ToolUse(IdOr(items[i].id, i - 1), items[i].text)>>
                   ELSE <<>>
  IN  TextOrNothing(Said(items, "reasoning"))
      \o TextOrNothing(Said(items, "message"))
      \o FlattenSeq([i \in DOMAIN items |-> CallAt(i)])

AssembledStop(items, status) ==
  IF Calls(items) # <<>> THEN "tool_use"
  ELSE IF status = "incomplete" THEN "max_tokens" ELSE "end_turn"

(* Responses, streamed: a block for each item, a reasoning item's only     *)
(* once it says something.  `next` blocks are already out.                 *)
Add(next, out, item) ==
  IF item.kind = "call"
  THEN Append(out, ToolUse(IdOr(item.id, next + Len(out)), item.text))
  ELSE IF item.kind = "reasoning" THEN out \o TextOrNothing(item.text)
  ELSE Append(out, TextBlock(item.text))

StreamedBlocks(items, next) ==
  LET after[i \in 0..Len(items)] ==
        IF i = 0 THEN <<>> ELSE Add(next, after[i - 1], items[i])
  IN  after[Len(items)]

(* A call sets the reason as it is announced, the end of the reply after.  *)
StreamedStop(items, status) ==
  IF status = "incomplete" THEN "max_tokens"
  ELSE IF Calls(items) # <<>> THEN "tool_use" ELSE "end_turn"

-----------------------------------------------------------------------------
(* Chat completions have one reasoning text, one text and the calls.       *)
ChatWholeBlocks(items) ==
  LET calls == Calls(items)
  IN  TextOrNothing(Said(items, "reasoning"))
      \o TextOrNothing(Said(items, "message"))
      \o [i \in DOMAIN calls |-> ToolUse(IdOr(calls[i].id, i - 1), calls[i].text)]

(* Streamed: reasoning and text that follow each other share a block.      *)
ChatAdd(out, item) ==
  IF item.kind = "call"
  THEN Append(out, ToolUse(IdOr(item.id, Len(out)), item.text))
  ELSE IF item.text = <<>> THEN out
  ELSE IF out # <<>> /\ Last(out).type = "text"
  THEN [out EXCEPT ![Len(out)].text = @ \o item.text]
  ELSE Append(out, TextBlock(item.text))

ChatStreamedBlocks(items) ==
  LET after[i \in 0..Len(items)] ==
        IF i = 0 THEN <<>> ELSE ChatAdd(after[i - 1], items[i])
  IN  after[Len(items)]

(* The provider's finish_reason, whatever the message holds.               *)
ChatStop(finishReason) ==
  CASE finishReason = "length" -> "max_tokens"
    [] finishReason = "tool_calls" -> "tool_use"
    [] OTHER -> "end_turn"
=============================================================================
