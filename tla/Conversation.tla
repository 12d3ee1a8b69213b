---------------------------- MODULE Conversation ----------------------------
(***************************************************************************)
(* A conversation that Claude Code holds with several backends in turn.    *)
(* Claude Code keeps the only copy and replays all of it in every request; *)
(* the router converts it for the backend that the request's model names   *)
(* and converts the reply back, and a reply it converted today is part of  *)
(* the request it converts tomorrow, for another backend perhaps.          *)
(*                                                                         *)
(* One request at a time: other conversations share with it the pacing of  *)
(* reminders and the armed compaction override, which are both Dispatch's. *)
(* When the reminder may go out at all is decided here; a request is taken *)
(* for a compaction by its wording only, never by the override.            *)
(***************************************************************************)
EXTENDS ToProvider, FromProvider, FiniteSets

CONSTANTS
  Backends,       \* the backends of the configuration, Anthropic included
  Api,            \* [Backends -> {"responses", "chat", "anthropic"}]
  HarnessPrompt,  \* [Backends -> the provider's own instructions, or <<>>]
  Continues,      \* the Responses providers with continuation enabled
  AlwaysStream,   \* the Responses providers whose extras say stream = true
  Triggers,       \* the Responses providers with a compaction trigger item
  SignsThinking,  \* the Anthropic backends whose thinking is signed
  MaxRounds,      \* continuation rounds in one turn
  Utterances,     \* the ways the user talks
  ResultPlaces,   \* where text stands beside tool results
  Replies,        \* the replies of a provider, [items, status]
  MaxAsks         \* bound: requests of one conversation, the last of which
                  \* is only looked at

ASSUME ConversationAssumption ==
  /\ Api \in [Backends -> {"responses", "chat", "anthropic"}]
  /\ HarnessPrompt \in [Backends -> {<<>>, <<"harness">>}]
  /\ Continues \cup AlwaysStream \cup Triggers
       \subseteq {b \in Backends : Api[b] = "responses"}
  /\ Replies \subseteq
       [items : Seq([kind : Kind, class : {"prose", "done", "blank", "empty"},
                     named : BOOLEAN]),
        status : Status]
  /\ MaxRounds \in Nat /\ MaxAsks \in Nat

VARIABLES
  history,  \* the messages Claude Code holds
  pc,       \* "user": Claude Code's turn; "ready": about to ask; "asked"
  ask,      \* the request under way: to, streaming, compaction, base
  body,     \* what was sent to the backend: lead (instructions) and items
  blocks,   \* content of the reply that is out
  text,     \* Translator.text: what the model said, without its reasoning
  round,
  stop,     \* stop_reason of the last reply, a compaction given up aside
  asks,     \* requests so far
  fresh,    \* the next fragment
  said,     \* ghost: what user and models said, as they said it
  sent,     \* ghost: the last body each backend got of this conversation
  turn      \* ghost: how the last turn ended, whether this one had reasoning,
            \* and the driver's verdicts on the turns it watched

requestVars == <<ask, body, blocks, text, round>>
vars == <<history, pc, requestVars, stop, asks, fresh, said, sent, turn>>

None == [lead |-> <<>>, items |-> <<>>]
NoAsk == [to |-> "none", streaming |-> FALSE, compaction |-> FALSE, base |-> 0]

StopReason == {"none", "end_turn", "tool_use", "max_tokens"}
Sent == [lead : Seq({"system", "reminder", "harness"}),
         items : Seq(InputItem \cup ChatItem \cup Message)]
SaidEvent == [side : {"user", "model"}, kind : {"words", "call", "result", "thought"},
          text : Text, of : Text]

TypeOK ==
  /\ history \in Seq(Message)
  /\ pc \in {"user", "ready", "asked"}
  /\ ask \in [to : Backends \cup {"none"}, streaming : BOOLEAN,
              compaction : BOOLEAN, base : Nat]
  /\ body \in Sent
  /\ blocks \in Seq(ContentBlock)
  /\ text \in Text
  /\ round \in 0..MaxRounds
  /\ stop \in StopReason
  /\ asks \in 0..MaxAsks
  /\ fresh \in Nat
  /\ said \in Seq(SaidEvent)
  /\ sent \in [Backends -> Sent]
  /\ turn \in [ended : Status \cup {"open"}, reasoned : BOOLEAN,
               verdicts : SUBSET [turn : Nat, done : BOOLEAN]]

Init ==
  /\ history = <<>> /\ pc = "user" /\ ask = NoAsk /\ body = None
  /\ blocks = <<>> /\ text = <<>> /\ round = 0 /\ stop = "none"
  /\ asks = 0 /\ fresh = 10 /\ said = <<>>
  /\ sent = [b \in Backends |-> None]
  /\ turn = [ended |-> "open", reasoned |-> FALSE, verdicts |-> {}]

Event(side, kind, txt, of) ==
  [side |-> side, kind |-> kind, text |-> txt, of |-> of]
WordEvents(side, txt) ==
  [i \in DOMAIN Words(txt) |-> Event(side, "words", <<Words(txt)[i]>>, <<>>)]

-----------------------------------------------------------------------------
(* Claude Code *)

OpenCalls ==
  IF history # <<>> /\ Last(history).role = "assistant"
  THEN OfType(Last(history).blocks, "tool_use") ELSE <<>>

(* The user says something new, with a system message of Claude Code's     *)
(* behind it: as strings, or as blocks with an image among them.           *)
Talk(how) ==
  LET words == <<fresh>>
      picture == <<fresh + 1>>
      notice == <<fresh + 2>>
      strings == how = "strings"
  IN  /\ pc = "user" /\ OpenCalls = <<>> /\ asks < MaxAsks
      /\ history' = history \o
           IF strings
           THEN <<StringMessage("user", words), StringMessage("system", notice)>>
           ELSE <<BlockMessage("user", <<ImageBlock(picture), TextBlock(words)>>),
                  BlockMessage("system", <<TextBlock(notice)>>)>>
      /\ said' = said \o WordEvents("user",
           (IF strings THEN <<>> ELSE picture) \o words \o notice)
      /\ fresh' = fresh + 3
      /\ pc' = "ready"
      /\ UNCHANGED <<requestVars, stop, asks, sent, turn>>

(* The tools answer every call of the last reply, in one message.          *)
ToolsAnswer(place) ==
  LET calls == OpenCalls
      n == Len(calls)
      result(i) == ToolResult(calls[i].id, <<fresh + i>>)
      results == [i \in 1..n |-> result(i)]
      guidance == <<TextBlock(<<fresh>>)>>
      content ==
        CASE place = "none" -> results
          [] place = "before" -> guidance \o results
          [] place = "between" -> <<results[1]>> \o guidance \o Tail(results)
          [] OTHER -> results \o guidance
      Told(b) == IF b.type = "text" THEN WordEvents("user", b.text)
                 ELSE LET call == CHOOSE c \in Range(calls) : c.id = b.id
                      IN  <<Event("user", "result", b.text, call.text)>>
  IN  /\ pc = "user" /\ calls # <<>> /\ asks < MaxAsks
      /\ history' = Append(history, BlockMessage("user", content))
      /\ said' = said \o FlattenSeq([i \in DOMAIN content |-> Told(content[i])])
      /\ fresh' = fresh + n + 1
      /\ pc' = "ready"
      /\ UNCHANGED <<requestVars, stop, asks, sent, turn>>

(* /compact: the instruction is the last user message of an ordinary       *)
(* request.                                                                *)
Compact ==
  /\ pc = "user" /\ history # <<>> /\ OpenCalls = <<>> /\ asks < MaxAsks
  /\ history' = Append(history, StringMessage("user", <<CompactPhrase>>))
  /\ said' = said \o WordEvents("user", <<CompactPhrase>>)
  /\ pc' = "ready"
  /\ UNCHANGED <<requestVars, stop, asks, fresh, sent, turn>>

-----------------------------------------------------------------------------
(* The request *)

Convert(b, messages) ==
  CASE Api[b] = "responses" -> ToResponses(messages)
    [] Api[b] = "chat" -> ToChat(messages)
    [] OTHER -> messages

(* Sanitised before anything looks at it; the reminder goes in front of    *)
(* the client's system prompt, the provider's instructions in front of     *)
(* both.                                                                   *)
Prepare(b, reminder, compaction) ==
  [lead |-> Prepend(HarnessPrompt[b], Prepend(reminder, <<"system">>)),
   items |-> ShapeBody(compaction /\ b \in Triggers,
                       Convert(b, Sanitize(history)))]

(* An Anthropic reply is passed through as it comes, and the last request  *)
(* gets none: whether the client streams makes no difference to them.      *)
StreamingOf(b) ==
  IF Api[b] = "anthropic" \/ asks + 1 = MaxAsks THEN {FALSE} ELSE BOOLEAN

Ask(b, streaming, reminder) ==
  LET clean == Sanitize(history)
      compaction == IsCompaction(clean)
      prepared == Prepare(b, reminder, compaction)
  IN  /\ pc = "ready" /\ asks < MaxAsks
      /\ reminder # <<>> => b \in Continues /\ ReminderMayBeDue(clean)
      /\ ask' = [to |-> b, streaming |-> streaming, compaction |-> compaction,
                 base |-> Len(prepared.items)]
      /\ body' = prepared
      /\ sent' = IF compaction THEN sent ELSE [sent EXCEPT ![b] = prepared]
      /\ blocks' = <<>> /\ text' = <<>> /\ round' = 0
      /\ turn' = [turn EXCEPT !.ended = IF compaction THEN @ ELSE "open",
                               !.reasoned = FALSE]
      /\ asks' = asks + 1
      /\ pc' = "asked"
      /\ UNCHANGED <<history, stop, fresh, said>>

-----------------------------------------------------------------------------
(* The reply *)

(* A reply's items with texts of their own.                                *)
Written(reply) ==
  LET TextOf(i) == CASE reply.items[i].class = "prose" -> <<fresh + i>>
                     [] reply.items[i].class = "done" -> <<DonePhrase>>
                     [] reply.items[i].class = "blank" -> <<Blank>>
                     [] OTHER -> <<>>
  IN  [i \in DOMAIN reply.items |->
         [kind |-> reply.items[i].kind, text |-> TextOf(i),
          id |-> IF reply.items[i].named THEN CallId(fresh + i) ELSE NoId]]

NativeBlocks(b, items) ==
  LET Native(x) ==
        CASE x.kind = "reasoning" -> Thinking(x.text, b \in SignsThinking)
          [] x.kind = "message" -> TextBlock(x.text)
          [] OTHER -> ToolUse(x.id, x.text)
  IN  [i \in DOMAIN items |-> Native(items[i])]

(* How the reply reaches the router.                                       *)
Delivery ==
  CASE Api[ask.to] = "anthropic" -> "native"
    [] Api[ask.to] = "chat" -> IF ask.streaming THEN "chat_stream" ELSE "chat"
    [] ask.streaming -> "stream"
    [] OTHER -> IF ask.to \in AlwaysStream THEN "assembled" ELSE "whole"

(* What this provider may send this way: the Messages API names its calls  *)
(* and says nothing empty; a chat message has one reasoning text and one   *)
(* text before its calls; only a Responses reply has the status failed; a  *)
(* compaction is answered in text.                                         *)
Fits(reply) ==
  LET kinds == [i \in DOMAIN reply.items |-> reply.items[i].kind]
      Order(k) == CASE k = "reasoning" -> 1 [] k = "message" -> 2 [] OTHER -> 3
  IN  /\ Delivery = "native" => \A i \in DOMAIN reply.items :
           /\ reply.items[i].kind = "call" => reply.items[i].named
           /\ reply.items[i].kind = "message" => reply.items[i].class # "empty"
           /\ reply.items[i].kind = "reasoning" /\ ask.to \in SignsThinking
                => reply.items[i].class # "empty"
      /\ Delivery = "chat" => \A i, j \in DOMAIN kinds :
           i < j => \/ Order(kinds[i]) < Order(kinds[j])
                    \/ kinds[i] = "call" /\ kinds[j] = "call"
      /\ reply.status = "failed" => Api[ask.to] = "responses"
      /\ ask.compaction => "call" \notin Range(kinds)

Rendered(items) ==
  CASE Delivery = "native" -> NativeBlocks(ask.to, items)
    [] Delivery = "chat" -> ChatWholeBlocks(items)
    [] Delivery = "chat_stream" -> ChatStreamedBlocks(items)
    [] Delivery = "stream" -> StreamedBlocks(items, Len(blocks))
    [] Delivery = "assembled" -> AssembledBlocks(items)
    [] OTHER -> WholeBlocks(items)

FinishReason(items, status) ==
  IF status = "incomplete" THEN "length"
  ELSE IF Calls(items) # <<>> THEN "tool_calls" ELSE "stop"

Stop(items, status) ==
  CASE Delivery \in {"chat", "chat_stream", "native"} ->
         ChatStop(FinishReason(items, status))
    [] Delivery = "stream" -> StreamedStop(items, status)
    [] Delivery = "assembled" -> AssembledStop(items, status)
    [] OTHER -> WholeStop(items, status)

(* What the reply said.  Read to its end, a stream has lost the order of   *)
(* reasoning and text.                                                     *)
ReplyEvents(items) ==
  LET Signed == Delivery = "native" /\ ask.to \in SignsThinking
      Told(x) == CASE x.kind = "call" -> <<Event("model", "call", x.text, <<>>)>>
                   [] x.kind = "reasoning" /\ Signed ->
                        <<Event("model", "thought", x.text, <<>>)>>
                   [] OTHER -> WordEvents("model", x.text)
      Thought(x) == x.kind = "reasoning"
      Spoken(x) == x.kind # "reasoning"
      inOrder ==
        IF Delivery # "assembled" THEN items
        ELSE Only(Thought, items) \o Only(Spoken, items)
  IN  FlattenSeq([i \in DOMAIN inOrder |-> Told(inOrder[i])])

(* A provider without a protocol of its own treats a compaction as any     *)
(* other turn, and is asked for more of the summary.                       *)
Driven ==
  /\ ask.to \in Continues /\ ask.streaming
  /\ ~(ask.compaction /\ ask.to \in Triggers)

ShouldContinue(items, status) ==
  LET after == text \o Said(items, "message")
  IN  /\ Driven /\ status # "failed" /\ round < MaxRounds
      /\ Len(after) > Len(text)
      /\ Calls(items) = <<>> /\ ~IsDone(after)

Reasoned(items) == turn.reasoned \/ Words(Said(items, "reasoning")) # <<>>

(* The message ends.  A summary replaces the conversation; a message       *)
(* without content is not kept.                                            *)
CloseWith(items, all, reason, status, done) ==
  LET told == said \o ReplyEvents(items)
      summary == Words(JoinText(all))
      kept == all # <<>>
      verdict == [turn |-> Len(history) + 1, done |-> done]
  IN  /\ pc' = "user"
      /\ IF ask.compaction
         THEN IF summary = <<>>
              THEN /\ history' = Front(history) /\ said' = Front(said)
                   /\ UNCHANGED <<stop, sent, turn>>
              ELSE /\ history' = <<StringMessage("user", summary)>>
                   /\ stop' = reason
                   /\ said' = WordEvents("user", summary)
                   /\ sent' = [b \in Backends |-> None]
                   /\ turn' = [turn EXCEPT !.ended = status, !.verdicts = {}]
         ELSE /\ history' = IF kept
                            THEN Append(history, BlockMessage("assistant", all))
                            ELSE history
              /\ stop' = reason
              /\ said' = told
              /\ turn' = [turn EXCEPT !.ended = status, !.verdicts =
                    IF kept /\ Driven /\ ~Reasoned(items)
                    THEN @ \cup {verdict} ELSE @]
              /\ UNCHANGED sent
      /\ ask' = NoAsk /\ body' = None /\ blocks' = <<>> /\ text' = <<>>
      /\ round' = 0

(* The turn is lost with an error; Claude Code asks again, or gives the    *)
(* compaction up.                                                          *)
Lost ==
  /\ IF ask.compaction
     THEN pc' = "user" /\ history' = Front(history) /\ said' = Front(said)
     ELSE pc' = "ready" /\ UNCHANGED <<history, said>>
  /\ ask' = NoAsk /\ body' = None /\ blocks' = <<>> /\ text' = <<>>
  /\ round' = 0

(* The reply that ends the turn.                                           *)
Reply(reply) ==
  LET items == Written(reply)
      after == text \o Said(items, "message")
  IN  /\ pc = "asked" /\ asks < MaxAsks /\ Fits(reply)
      /\ ~ShouldContinue(items, reply.status)
      /\ reply.status = "failed" => ~ask.streaming
      /\ CloseWith(items, blocks \o Rendered(items), Stop(items, reply.status),
                   reply.status,
                   Calls(items) = <<>> /\ IsDone(after))
      /\ fresh' = fresh + Len(items) + 1
      /\ UNCHANGED asks

(* A round that is not the last: the provider is asked again with the      *)
(* answer so far behind the client's input.                                *)
Continue(reply) ==
  LET items == Written(reply)
      after == text \o Said(items, "message")
  IN  /\ pc = "asked" /\ asks < MaxAsks /\ Fits(reply)
      /\ ShouldContinue(items, reply.status)
      /\ blocks' = blocks \o Rendered(items)
      /\ text' = after
      /\ said' = said \o ReplyEvents(items)
      /\ body' = [body EXCEPT !.items = SetAssistantPrefill(@, ask.base, after)]
      /\ round' = round + 1
      /\ turn' = [turn EXCEPT !.reasoned = Reasoned(items)]
      /\ fresh' = fresh + Len(items) + 1
      /\ UNCHANGED <<history, pc, ask, stop, asks, sent>>

(* Refused, or broken off before a round has been passed on: the turn is   *)
(* lost.                                                                   *)
Refuse ==
  /\ pc = "asked" /\ asks < MaxAsks /\ round = 0
  /\ Lost
  /\ UNCHANGED <<stop, asks, fresh, sent, turn>>

(* A continuation that is refused, breaks off or fails: the turn ends with *)
(* what has arrived, nothing of this round when it was refused.            *)
Break(reply) ==
  LET items == Written(reply)
  IN  /\ pc = "asked" /\ asks < MaxAsks /\ round > 0
      /\ Fits(reply) /\ reply.status = "failed"
      /\ CloseWith(items, blocks \o Rendered(items),
                   StreamedStop(items, "completed"), "failed",
                   Calls(items) = <<>> /\ IsDone(text \o Said(items, "message")))
      /\ fresh' = fresh + Len(items) + 1
      /\ UNCHANGED asks

Next ==
  \/ \E how \in Utterances : Talk(how)
  \/ \E place \in ResultPlaces : ToolsAnswer(place)
  \/ Compact
  \/ \E b \in Backends, reminder \in {<<>>, <<"reminder">>} :
       \E streaming \in StreamingOf(b) : Ask(b, streaming, reminder)
  \/ \E reply \in Replies : Reply(reply) \/ Continue(reply) \/ Break(reply)
  \/ Refuse

Spec == Init /\ [][Next]_vars

-----------------------------------------------------------------------------
(* What a backend reads in a request: events again, so that they can be    *)
(* compared with what was said.                                            *)

Utter(side, kind, txt, id) ==
  [side |-> side, kind |-> kind, text |-> txt, id |-> id]

SideOf(role) == IF role = "assistant" THEN "model" ELSE "user"

ReadResponses(x) ==
  CASE x.type = "message" -> <<Utter(SideOf(x.role), "words", x.text, NoId)>>
    [] x.type = "function_call" -> <<Utter("model", "call", x.text, x.id)>>
    [] x.type = "function_call_output" -> <<Utter("user", "result", x.text, x.id)>>
    [] OTHER -> <<>>

ReadChat(m) ==
  IF m.role = "tool" THEN <<Utter("user", "result", m.text, m.id)>>
  ELSE <<Utter(SideOf(m.role), "words", m.text, NoId)>>
       \o [i \in DOMAIN m.calls |->
             Utter("model", "call", m.calls[i].text, m.calls[i].id)]

ReadBlock(role, b) ==
  CASE b.type \in {"text", "image"} -> Utter(SideOf(role), "words", b.text, NoId)
    [] b.type = "tool_use" -> Utter("model", "call", b.text, b.id)
    [] b.type = "tool_result" -> Utter("user", "result", b.text, b.id)
    [] OTHER -> Utter("model", "thought", b.text, NoId)

ReadAnthropic(m) ==
  [i \in DOMAIN m.blocks |-> ReadBlock(m.role, m.blocks[i])]

Read(api, items) ==
  LET One(x) == CASE api = "responses" -> ReadResponses(x)
                  [] api = "chat" -> ReadChat(x)
                  [] OTHER -> ReadAnthropic(x)
  IN  FlattenSeq([i \in DOMAIN items |-> One(items[i])])

(* A result belongs to the last call before it that has its id.            *)
EventsOf(utterances) ==
  LET CallOf(i) ==
        LET calls == {j \in 1..(i - 1) : /\ utterances[j].kind = "call"
                                         /\ utterances[j].id = utterances[i].id}
        IN  IF calls = {} THEN <<>>
            ELSE utterances[CHOOSE j \in calls : \A k \in calls : k <= j].text
      EventAt(i) ==
        LET u == utterances[i]
        IN  CASE u.kind = "words" -> WordEvents(u.side, u.text)
              [] u.kind = "result" -> <<Event("user", "result", u.text, CallOf(i))>>
              [] OTHER -> <<Event(u.side, u.kind, u.text, <<>>)>>
  IN  FlattenSeq([i \in DOMAIN utterances |-> EventAt(i)])

OfKinds(events, kinds) ==
  LET Is(e) == e.kind \in kinds IN Only(Is, events)

(* Only what the user's side said, in its order.                           *)
UserSide(events) ==
  LET Is(e) == e.side = "user" IN Only(Is, events)

-----------------------------------------------------------------------------
ResponsesCalls(items, id) ==
  {i \in DOMAIN items : items[i].type = "function_call" /\ items[i].id = id}

(* An output answers the one call that has its id, which stands before it, *)
(* and no call is answered twice; a made-up id may have been used by an    *)
(* earlier reply too.                                                      *)
AcceptedByResponses(items) ==
  \A i \in DOMAIN items :
    /\ items[i].role # "system"
    /\ items[i].type = "trigger" => i = Len(items)
    /\ items[i].type = "function_call_output" =>
         LET calls == ResponsesCalls(items, items[i].id)
             outputs == {j \in DOMAIN items :
                           /\ items[j].type = "function_call_output"
                           /\ items[j].id = items[i].id}
         IN  /\ \E j \in calls : j < i
             /\ Cardinality(calls) = Cardinality(outputs)
             /\ items[i].id[1] = "call" => Cardinality(calls) = 1

(* The messages right behind an assistant's calls answer exactly them, in  *)
(* their order, and there are no other tool messages.                      *)
AcceptedByChat(items) ==
  LET Answered(i) ==
        \A k \in DOMAIN items[i].calls :
          /\ i + k <= Len(items)
          /\ items[i + k].role = "tool"
          /\ items[i + k].id = items[i].calls[k].id
      Owned(i) == \E j \in 1..(i - 1) : i - j <= Len(items[j].calls)
  IN  \A i \in DOMAIN items : Answered(i) /\ (items[i].role = "tool" => Owned(i))

(* No thinking without a signature.                                        *)
AcceptedByAnthropic(items) ==
  \A i \in DOMAIN items : \A j \in DOMAIN items[i].blocks :
    items[i].blocks[j].type = "thinking" => ValidThinking(items[i].blocks[j])

(* Whatever backends have answered before, and however, the next request   *)
(* keeps the rules of the API it is for: results belong to calls, in the   *)
(* place the API wants them, no role and no thinking that it refuses, and  *)
(* a compaction trigger stays last.                                        *)
RequestsAreAccepted ==
  pc = "asked" =>
    CASE Api[ask.to] = "responses" -> AcceptedByResponses(body.items)
      [] Api[ask.to] = "chat" -> AcceptedByChat(body.items)
      [] OTHER -> AcceptedByAnthropic(body.items)

(* A backend is told all that was said: every word of either side in its   *)
(* order, every call with its arguments and every result with its call;    *)
(* the Responses API also where a result stands among the user's words,    *)
(* the Messages API also signed thinking.                                  *)
NothingIsLost ==
  pc = "asked" /\ round = 0 =>
    LET api == Api[ask.to]
        read == EventsOf(Read(api, body.items))
        Same(kinds) == OfKinds(read, kinds) = OfKinds(said, kinds)
    IN  /\ Same({"words"})
        /\ Same({"call", "result"})
        /\ api = "responses" => UserSide(read) = UserSide(said)
        /\ api = "anthropic" => Same({"thought"})

(* A request to a provider begins with all it was sent before, so that a   *)
(* prompt cache still fits: its instructions with the provider's own,      *)
(* whether the reminder comes or goes, and its input with the last one.  A *)
(* continuation round changes nothing but the one item behind the client's *)
(* input, which is all the model has said.                                 *)
PrefixIsStable ==
  [][/\ asks' = asks + 1 =>
          /\ IsPrefix(HarnessPrompt[ask'.to], body'.lead)
          /\ ask'.compaction \/ IsPrefix(sent[ask'.to].items, body'.items)
     /\ round' = round + 1 =>
          /\ body'.lead = body.lead
          /\ SubSeq(body'.items, 1, ask.base) = SubSeq(body.items, 1, ask.base)
          /\ Words(text') # <<>> =>
               /\ Len(body'.items) = ask.base + 1
               /\ Words(Last(body'.items).text) = Words(text')]_vars

(* How a turn ended is what others make of it.  The next request reads it  *)
(* off the replayed text: a turn that the driver saw end on the done       *)
(* phrase is seen to have, and no other, unless reasoning, which becomes   *)
(* text too, stands beside it.  The client reads it off the stop reason,   *)
(* however the reply was delivered: a reply with calls is not the end of   *)
(* the turn, and one that was cut short is not complete.                   *)
EndIsUnderstood ==
  /\ \A v \in turn.verdicts :
       LET m == SanitizeMessage(history[v.turn])
       IN  v.done <=> /\ OfType(m.blocks, "tool_use") = <<>>
                      /\ IsDone(AssistantText(m))
  /\ pc = "user" /\ history # <<>> /\ Last(history).role = "assistant" =>
       LET calls == OpenCalls # <<>>
       IN  /\ stop = "tool_use" => calls
           /\ calls \/ turn.ended = "incomplete" => stop # "end_turn"
           /\ stop = "max_tokens" => turn.ended = "incomplete"
=============================================================================
