------------------------------ MODULE Messages ------------------------------
(***************************************************************************)
(* The Anthropic conversation a request carries, and what the router does  *)
(* to it before any backend is chosen or asked (content.rs,                *)
(* system_prompt.rs, continuation.rs, compact.rs).                         *)
(*                                                                         *)
(* A text is a sequence of fragments.  Fragment Blank is white space,      *)
(* DonePhrase the signal the reminder teaches, CompactPhrase the wording   *)
(* of Claude Code's compaction request; every other fragment is written    *)
(* once, so that it can be recognised wherever it turns up.                *)
(***************************************************************************)
EXTENDS Naturals, Sequences, SequencesExt

Blank == 0
DonePhrase == 1
CompactPhrase == 2

(* A call's id: given by the provider, or made up by the router from a     *)
(* position.                                                               *)
NoId == <<"none", 0>>
CallId(n) == <<"call", n>>
FallbackId(n) == <<"toolu", n>>

Text == Seq(Nat)
Id == {"none", "call", "toolu"} \X Nat
Role == {"user", "system", "assistant"}
ContentBlock ==
  [type : {"text", "image", "thinking", "tool_use", "tool_result"},
   text : Text, id : Id, signed : BOOLEAN]
Message ==
  {m \in [role : Role, plain : BOOLEAN, blocks : Seq(ContentBlock)] :
     m.plain => Len(m.blocks) = 1}

Block(type, text, id, signed) ==
  [type |-> type, text |-> text, id |-> id, signed |-> signed]
TextBlock(text) == Block("text", text, NoId, FALSE)
ImageBlock(text) == Block("image", text, NoId, FALSE)
Thinking(text, signed) == Block("thinking", text, NoId, signed)
ToolUse(id, arguments) == Block("tool_use", arguments, id, FALSE)
ToolResult(id, text) == Block("tool_result", text, id, FALSE)

(* Content is a string (plain: one text block stands for it) or a list of  *)
(* blocks.                                                                 *)
StringMessage(role, text) ==
  [role |-> role, plain |-> TRUE, blocks |-> <<TextBlock(text)>>]
BlockMessage(role, blocks) ==
  [role |-> role, plain |-> FALSE, blocks |-> blocks]

(* SelectSeq, of which the provers know nothing, out of parts they do.     *)
Only(Test(_), seq) ==
  FlattenSeq([i \in DOMAIN seq |-> IF Test(seq[i]) THEN <<seq[i]>> ELSE <<>>])

OfType(blocks, type) ==
  LET Is(b) == b.type = type IN Only(Is, blocks)

TextsOf(blocks) == [i \in DOMAIN blocks |-> blocks[i].text]

(* join_text: the text blocks only.                                        *)
JoinText(blocks) == FlattenSeq(TextsOf(OfType(blocks, "text")))

Words(text) == LET Visible(f) == f # Blank IN Only(Visible, text)

(* str::trim                                                               *)
Trim(text) ==
  LET visible == {i \in DOMAIN text : text[i] # Blank}
  IN  IF visible = {}
      THEN <<>>
      ELSE LET first == CHOOSE i \in visible : \A j \in visible : i <= j
               last == CHOOSE i \in visible : \A j \in visible : j <= i
           IN  SubSeq(text, first, last)

-----------------------------------------------------------------------------
(* Thinking without a signature, or without text, must not reach the       *)
(* Messages API again: its text becomes ordinary text, an empty block      *)
(* disappears. Redacted thinking is left out: the router makes none, and   *)
(* what the API made passes unchanged unless its data is gone.             *)

ValidThinking(b) == b.text # <<>> /\ b.signed

SanitizeBlock(b) ==
  IF b.type # "thinking" \/ ValidThinking(b) THEN <<b>>
  ELSE IF b.text = <<>> THEN <<>> ELSE <<TextBlock(b.text)>>

SanitizeMessage(m) ==
  IF m.plain
  THEN m
  ELSE [m EXCEPT !.blocks =
          FlattenSeq([i \in DOMAIN m.blocks |-> SanitizeBlock(m.blocks[i])])]

Sanitize(messages) ==
  [i \in DOMAIN messages |-> SanitizeMessage(messages[i])]

(* An instruction put in front of the system prompt, a sequence of named   *)
(* parts; <<>> is an instruction that is absent or blank.                  *)
Prepend(instruction, system) == instruction \o system

-----------------------------------------------------------------------------
(* What the continuation policy reads off the replayed conversation.       *)

IsDone(text) == Words(text) = <<DonePhrase>>

LastTextOf(m) ==
  LET texts == OfType(m.blocks, "text")
  IN  IF texts = <<>> THEN <<>> ELSE Last(texts).text

AssistantText(m) == JoinText(m.blocks)

AssistantTurns(messages) ==
  LET Is(m) == m.role = "assistant" IN Only(Is, messages)

NeverSignalled(messages) ==
  \A i \in DOMAIN messages :
    messages[i].role = "assistant" => ~IsDone(AssistantText(messages[i]))

(* A turn with no call and few words; a text of one fragment is short.     *)
IsStall(text, madeToolCall) == ~madeToolCall /\ Len(Words(text)) < 2

LastAssistantStalled(messages) ==
  LET turns == AssistantTurns(messages)
  IN  /\ turns # <<>>
      /\ IsStall(AssistantText(Last(turns)),
                 OfType(Last(turns).blocks, "tool_use") # <<>>)

ReminderMayBeDue(messages) ==
  LastAssistantStalled(messages) \/ NeverSignalled(messages)

(* The text of every block of the last user message holds the pattern.     *)
IsCompaction(messages) ==
  LET Is(m) == m.role = "user"
      users == Only(Is, messages)
  IN  users # <<>> /\ CompactPhrase \in Range(JoinText(Last(users).blocks))
=============================================================================
