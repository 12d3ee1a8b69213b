---------------------------- MODULE OpenAIStream ----------------------------
(***************************************************************************)
(* One streamed turn served by an OpenAI chat completions provider: the    *)
(* Translator of providers/openai_compat/stream.rs, fed one chunk at a     *)
(* time, with the frames it sends the client (AnthropicWire), and the      *)
(* generator translate around it. At most one block is open at a time.     *)
(*                                                                         *)
(* A chunk that carries several tool calls is several chunks here: their   *)
(* loop does nothing between one and the next. Reasoning is text, as in    *)
(* the code. Ids, usage and the arguments themselves are left out.         *)
(*                                                                         *)
(* A definition that precedes its namesake (EnsureUnclosed, Ensure) is a   *)
(* mistake the code could have had, kept to show which property notices.   *)
(***************************************************************************)
EXTENDS FiniteSets, AnthropicWire

CONSTANTS CallIndex,  \* the provider's tool_calls[].index values
          NoCall,     \* no tool call
          MaxBlocks   \* bound: blocks opened in one turn

ASSUME CallAssumption == NoCall \notin CallIndex
ASSUME BoundsAssumption == MaxBlocks \in Nat

VARIABLES tr,       \* the Translator, with out: the frames sent so far
          pc,       \* where translate is
          current,  \* history: the call announced last, if no text came since
          orderly,  \* history: arguments came only for the current call
          strayed   \* history: arguments were lost or put in another's block

providerVars == <<current, orderly, strayed>>
vars == <<tr, pc, current, orderly, strayed>>

Open == [index : Nat, kind : BlockKind \cup {"none"}, call : CallIndex \cup {NoCall}]
NoBlock == [index |-> 0, kind |-> "none", call |-> NoCall]

Translator ==
  [started : BOOLEAN, done : BOOLEAN, nextIndex : Nat, open : Open,
   stop : StopReason, out : ClientView]

New ==
  [started |-> FALSE, done |-> FALSE, nextIndex |-> 0, open |-> NoBlock,
   stop |-> "end_turn", out |-> NothingReceived]

\* What a chunk may say of one call. One that announces nothing has neither id
\* nor name; "tool" has a name other than Agent.
ToolCall ==
  [call : CallIndex, announces : {"nothing", "tool", "agent"},
   fragment : BOOLEAN]

FinishReason == {"none", "length", "tool_calls", "other"}

stop_reason(reason) ==
  CASE reason = "length" -> "max_tokens"
    [] reason = "tool_calls" -> "tool_use"
    [] OTHER -> "end_turn"

-----------------------------------------------------------------------------
(* The Translator's methods: t is self before the call, the value after.  *)

Start(t) ==
  IF t.started THEN t
  ELSE [t EXCEPT !.started = TRUE, !.out = MessageStart(@)]

\* An Agent's input was buffered and is sent whole.
CloseOpen(t) ==
  LET block == {t.open.index}
  IN  IF t.open.kind = "none" THEN t
      ELSE [t EXCEPT !.open = NoBlock,
                     !.out = ContentBlockStops(IF t.open.kind = "agent"
                                               THEN InputJsonWhole(@, block)
                                               ELSE @, block)]

OpenBlock(t, kind, call) ==
  [t EXCEPT !.nextIndex = @ + 1,
            !.open = [index |-> t.nextIndex, kind |-> kind, call |-> call],
            !.out = ContentBlockStart(@, t.nextIndex, kind)]

EnsureUnclosed(t) ==
  IF t.open.kind = "text" THEN t ELSE OpenBlock(t, "text", NoCall)

Ensure(t) ==
  IF t.open.kind = "text" THEN t ELSE OpenBlock(CloseOpen(t), "text", NoCall)

OnText(t) ==
  LET s == Ensure(t)
  IN  [s EXCEPT !.out = TextDelta(@, s.open.index)]

AnnounceFirstOnly(t, c) ==
  IF c.announces # "nothing" /\ t.open.kind \notin {"tool", "agent"}
  THEN OpenBlock(CloseOpen(t), c.announces, c.call)
  ELSE t

\* A call of its own, unless its block is the open one.
Announce(t, c) ==
  IF c.announces # "nothing" /\ t.open.call # c.call
  THEN OpenBlock(CloseOpen(t), c.announces, c.call)
  ELSE t

\* Arguments go to the open tool block, whichever call it is of.
OnToolCall(t, c) ==
  LET s == Announce(t, c)
  IN  IF c.fragment /\ s.open.kind = "tool"
      THEN [s EXCEPT !.out = InputJsonDelta(@, s.open.index)]
      ELSE s

Finish(t) ==
  IF t.done THEN t
  ELSE LET s == CloseOpen(Start([t EXCEPT !.done = TRUE]))
       IN  [s EXCEPT !.out = MessageStop(MessageDelta(@, s.stop))]

-----------------------------------------------------------------------------
Init ==
  /\ tr = New
  /\ pc = "reading"
  /\ current = NoCall /\ orderly = TRUE /\ strayed = FALSE

(* One line of the provider's stream, as on_line handles it.               *)

Bounded == tr'.nextIndex <= MaxBlocks  \* bound

Ended(t, reason) ==
  IF reason = "none" THEN t ELSE [t EXCEPT !.stop = stop_reason(reason)]

TextChunk(reason) ==
  /\ pc = "reading" /\ ~tr.done
  /\ tr' = Ended(OnText(Start(tr)), reason)
  /\ Bounded
  /\ current' = NoCall
  /\ UNCHANGED <<pc, orderly, strayed>>

\* hasText: the chunk also has content, which is handled before the call.
CallChunk(c, hasText, reason) ==
  LET s == IF hasText THEN OnText(Start(tr)) ELSE Start(tr)
      announced == Announce(s, c)
  IN  /\ pc = "reading" /\ ~tr.done
      /\ tr' = Ended(OnToolCall(s, c), reason)
      /\ Bounded
      /\ current' = IF c.announces # "nothing" THEN c.call
                    ELSE IF hasText THEN NoCall ELSE current
      /\ orderly' = (orderly /\ (c.fragment => current' = c.call))
      /\ strayed' = (strayed \/ (c.fragment /\ announced.open.call # c.call))
      /\ UNCHANGED pc

\* A chunk without content; without choices if reason is "none".
FinishChunk(reason) ==
  /\ pc = "reading" /\ ~tr.done
  /\ tr' = Ended(Start(tr), reason)
  /\ UNCHANGED <<pc, providerVars>>

DoneSentinel ==
  /\ pc = "reading"
  /\ tr' = Finish(tr)
  /\ UNCHANGED <<pc, providerVars>>

-----------------------------------------------------------------------------
(* translate, when the provider's stream breaks or ends.                   *)

TransportError ==
  /\ pc = "reading"
  /\ tr' = [tr EXCEPT !.out = ErrorFrame(@)]
  /\ pc' = "ended"
  /\ UNCHANGED providerVars

StreamEnds ==
  /\ pc = "reading"
  /\ tr' = Finish(tr)
  /\ pc' = "ended"
  /\ UNCHANGED providerVars

HangUp ==
  /\ pc = "reading"
  /\ pc' = "gone"
  /\ UNCHANGED <<tr, providerVars>>

Next ==
  \/ DoneSentinel \/ TransportError \/ StreamEnds \/ HangUp
  \/ \E reason \in FinishReason :
       \/ TextChunk(reason) \/ FinishChunk(reason)
       \/ \E c \in ToolCall, hasText \in BOOLEAN : CallChunk(c, hasText, reason)

Spec == Init /\ [][Next]_vars
-----------------------------------------------------------------------------
TypeOK ==
  /\ tr \in Translator
  /\ pc \in {"reading", "ended", "gone"}
  /\ current \in CallIndex \cup {NoCall}
  /\ orderly \in BOOLEAN /\ strayed \in BOOLEAN

\* However text and tool calls alternate, repeat or come without having been
\* announced, and wherever the stream ends, every frame is one the client can
\* accept, and blocks come one after the other (stream.rs 1-5).
WireContract == tr.out.phase # "broken" /\ Cardinality(tr.out.open) <= 1

\* Arguments are neither lost nor put into the block of another call, as long
\* as the provider finishes one call before it begins the next or says more
\* (stream.rs 185-231, which sends them to whichever block is open).
ArgumentsReachTheirCall == orderly => ~strayed

Turn == INSTANCE AssistantTurn
        WITH phase <- tr.out.phase, content <- tr.out.content,
             open <- tr.out.open, failed <- tr.out.failed,
             gone <- (pc = "gone")

\* The client sees one AssistantTurn: after its message_stop nothing follows,
\* whatever the provider goes on to send, but the report of a broken stream.
ImplementsTurn == Turn!Spec
=============================================================================
