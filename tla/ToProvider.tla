----------------------------- MODULE ToProvider -----------------------------
(***************************************************************************)
(* From an Anthropic conversation to the input of a Responses request      *)
(* (responses/request.rs, shape_body and set_assistant_prefill of          *)
(* responses/mod.rs) and to the messages of a chat-completions request     *)
(* (openai_compat/request.rs).  The parts of a content array are run       *)
(* together into one text, in their order; an image is its fragment.       *)
(***************************************************************************)
EXTENDS Messages

InputItem ==
  [type : {"message", "function_call", "function_call_output", "trigger"},
   role : {"user", "assistant", "developer", "none"}, text : Text, id : Id]
ChatItem ==
  [role : Role \cup {"tool"}, text : Text,
   calls : Seq([id : Id, text : Text]), id : Id]

Item(type, role, text, id) ==
  [type |-> type, role |-> role, text |-> text, id |-> id]

MessageItem(role, text) == Item("message", role, text, NoId)

(* What a block of a user's message contributes: neither a result nor a    *)
(* thinking block is a part of the message beside it.                      *)
IsPart(b) == b.type \in {"text", "image"}

-----------------------------------------------------------------------------
(* Responses *)

(* The API refuses the system role inside the input.                       *)
ResponsesRole(role) ==
  IF role = "system" THEN "developer" ELSE role

(* All text first, in one message, then the calls.                         *)
ResponsesAssistant(blocks) ==
  LET text == JoinText(blocks)
      calls == OfType(blocks, "tool_use")
  IN  (IF text = <<>> THEN <<>> ELSE <<MessageItem("assistant", text)>>)
      \o [i \in DOMAIN calls |->
            Item("function_call", "none", calls[i].text, calls[i].id)]

(* A message for the parts gathered so far, if there are any.              *)
Flush(role, parts) ==
  IF parts = <<>> THEN <<>>
  ELSE <<MessageItem(role, FlattenSeq(TextsOf(parts)))>>

(* The items so far, and the parts that no item holds yet.                 *)
TakeBlock(role, acc, b) ==
  IF b.type = "tool_result"
  THEN [out |-> acc.out \o Flush(role, acc.parts)
                 \o <<Item("function_call_output", "none", b.text, b.id)>>,
        parts |-> <<>>]
  ELSE IF IsPart(b) THEN [acc EXCEPT !.parts = Append(@, b)] ELSE acc

Gather(role, blocks) ==
  LET after[i \in 0..Len(blocks)] ==
        IF i = 0 THEN [out |-> <<>>, parts |-> <<>>]
        ELSE TakeBlock(role, after[i - 1], blocks[i])
  IN  after[Len(blocks)]

ResponsesUserUnflushed(role, blocks) ==
  LET end == Gather(role, blocks)
  IN  IF end.out = <<>> THEN Flush(role, end.parts) ELSE end.out

(* In source order: the parts before a result, then the result.            *)
ResponsesUser(role, blocks) ==
  LET end == Gather(role, blocks) IN end.out \o Flush(role, end.parts)

ResponsesMessage(m) ==
  LET role == ResponsesRole(m.role)
  IN  IF m.plain THEN <<MessageItem(role, m.blocks[1].text)>>
      ELSE IF role = "assistant" THEN ResponsesAssistant(m.blocks)
      ELSE ResponsesUser(role, m.blocks)

ToResponses(messages) ==
  FlattenSeq([i \in DOMAIN messages |-> ResponsesMessage(messages[i])])

(* The provider's own compaction marker is the last item.                  *)
ShapeBody(trigger, input) ==
  IF trigger THEN Append(input, Item("trigger", "none", <<>>, NoId)) ELSE input

StackPrefill(input, base, text) ==
  IF Trim(text) = <<>>
  THEN input
  ELSE Append(input, MessageItem("assistant", Trim(text)))

(* The answer so far stands behind the input the client sent: it replaces  *)
(* the answer of the round before.                                         *)
SetAssistantPrefill(input, base, text) ==
  IF Trim(text) = <<>>
  THEN input
  ELSE Append(SubSeq(input, 1, base), MessageItem("assistant", Trim(text)))

-----------------------------------------------------------------------------
(* Chat completions *)

ChatMessage(role, text, calls, id) ==
  [role |-> role, text |-> text, calls |-> calls, id |-> id]

ChatAssistant(blocks) ==
  LET calls == OfType(blocks, "tool_use")
  IN  <<ChatMessage("assistant", JoinText(blocks),
          [i \in DOMAIN calls |-> [id |-> calls[i].id, text |-> calls[i].text]],
          NoId)>>

ChatUserInOrder(blocks) ==
  LET Take(b) ==
        IF b.type = "tool_result"
        THEN <<ChatMessage("tool", b.text, <<>>, b.id)>>
        ELSE IF IsPart(b) THEN <<ChatMessage("user", b.text, <<>>, NoId)>>
        ELSE <<>>
  IN  FlattenSeq([i \in DOMAIN blocks |-> Take(blocks[i])])

(* The results first, whatever stood before them; then one message for the *)
(* rest, which is the user's whoever spoke.                                *)
ChatUser(blocks) ==
  LET results == OfType(blocks, "tool_result")
      parts == Only(IsPart, blocks)
  IN  [i \in DOMAIN results |->
         ChatMessage("tool", results[i].text, <<>>, results[i].id)]
      \o IF parts = <<>> THEN <<>>
         ELSE <<ChatMessage("user", FlattenSeq(TextsOf(parts)), <<>>, NoId)>>

ChatConvert(m) ==
  IF m.plain THEN <<ChatMessage(m.role, m.blocks[1].text, <<>>, NoId)>>
  ELSE IF m.role = "assistant" THEN ChatAssistant(m.blocks)
  ELSE ChatUser(m.blocks)

ToChat(messages) ==
  FlattenSeq([i \in DOMAIN messages |-> ChatConvert(messages[i])])
=============================================================================
