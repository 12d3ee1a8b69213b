--------------------------- MODULE ResponsesTurn ---------------------------
(***************************************************************************)
(* One streamed turn served by an OpenAI Responses provider:               *)
(*   - the Translator of providers/responses/stream.rs, fed one event at a *)
(*     time, and the frames it sends the client (AnthropicWire);           *)
(*   - the driver continued_stream of providers/responses/mod.rs, which    *)
(*     may splice several provider responses into the one message.         *)
(* MaxRounds = 0 is also the plain translate of stream.rs, used when no    *)
(* continuation is configured: it never holds the message open.            *)
(*                                                                         *)
(* Text is kept as its class: what is_done and the prefill can tell apart. *)
(* A fragment stands for a stretch of text of one class, so a done phrase  *)
(* split over several deltas is one "phrase" fragment here. Reasoning      *)
(* text, ids, usage numbers and tool arguments are left out.               *)
(*                                                                         *)
(* A definition that precedes its namesake (EnsureAnyKind, Ensure) is a    *)
(* mistake the code could have had, kept to show which property notices.   *)
(***************************************************************************)
EXTENDS AnthropicWire

CONSTANTS OutputIndex,  \* the provider's output_index values
          MaxRounds,    \* continuation.max_rounds
          MaxBlocks     \* bound: blocks the provider opens in one turn

ASSUME BoundsAssumption == MaxRounds \in Nat /\ MaxBlocks \in Nat

VARIABLES tr,      \* the Translator, with out: the frames sent so far
          round,   \* continuation rounds begun
          said,    \* class of the text this round added (text[text_before..])
          pc,      \* where the driver is
          ending   \* history: status of the newest response's terminal event

vars == <<tr, round, said, pc, ending>>

\* "blank" is white space only, "phrase" the done phrase alone, "other" any
\* other text.
TextClass == {"empty", "blank", "phrase", "other"}

Extend(text, fragment) ==
  IF fragment = "empty" THEN text
  ELSE IF text \in {"empty", "blank"} THEN fragment
  ELSE IF fragment = "blank" THEN text
  ELSE "other"

Kind == BlockKind \cup {"none"}
Open == [index : Nat, kind : Kind]
NoBlock == [index |-> 0, kind |-> "none"]

Translator ==
  [started : BOOLEAN, done : BOOLEAN, nextIndex : Nat,
   open : [OutputIndex -> Open], stop : StopReason, text : TextClass,
   madeToolCall : BOOLEAN, completed : BOOLEAN, holdOpen : BOOLEAN,
   errored : BOOLEAN, out : ClientView]

New ==
  [started |-> FALSE, done |-> FALSE, nextIndex |-> 0,
   open |-> [o \in OutputIndex |-> NoBlock], stop |-> "end_turn",
   text |-> "empty", madeToolCall |-> FALSE, completed |-> FALSE,
   holdOpen |-> FALSE, errored |-> FALSE, out |-> NothingReceived]

IsOpen(t, o) == t.open[o].kind # "none"

-----------------------------------------------------------------------------
(* The Translator's methods: t is self before the call, the value after.  *)

Start(t) ==
  IF t.started THEN t
  ELSE [t EXCEPT !.started = TRUE, !.out = MessageStart(@)]

OpenItem(t, o, kind) ==
  IF IsOpen(t, o) THEN t
  ELSE LET s == Start(t)
       IN  [s EXCEPT !.stop = IF kind = "text" THEN @ ELSE "tool_use",
                     !.madeToolCall = @ \/ kind # "text",
                     !.nextIndex = @ + 1,
                     !.open[o] = [index |-> s.nextIndex, kind |-> kind],
                     !.out = ContentBlockStart(@, s.nextIndex, kind)]

Indices(t, outputs) == {t.open[o].index : o \in outputs}

EmitArguments(t, outputs) ==
  InputJsonWhole(t.out,
                 Indices(t, {o \in outputs : t.open[o].kind = "agent"}))

\* Close the blocks of outputs; those that are not open are left alone.
CloseBlocks(t, outputs) ==
  LET live == {o \in outputs : IsOpen(t, o)}
  IN  [t EXCEPT !.open = [o \in OutputIndex |->
                            IF o \in outputs THEN NoBlock ELSE t.open[o]],
                !.out = ContentBlockStops(EmitArguments(t, live),
                                          Indices(t, live))]

EnsureAnyKind(t, o) == IF IsOpen(t, o) THEN t ELSE OpenItem(t, o, "text")

\* A text block for output o: both callers ask for Kind::Text.
Ensure(t, o) ==
  IF t.open[o].kind = "text" THEN t
  ELSE OpenItem(CloseBlocks(t, {o}), o, "text")

Finish(t) ==
  IF t.done THEN t
  ELSE LET s == CloseBlocks(Start([t EXCEPT !.done = TRUE]), OutputIndex)
       IN  [s EXCEPT !.out = MessageStop(MessageDelta(@, s.stop))]

CloseAfterErrorStillDone(t) ==
  IF t.errored
  THEN Finish([t EXCEPT !.errored = FALSE, !.holdOpen = FALSE])
  ELSE t

CloseAfterError(t) ==
  IF t.errored
  THEN Finish([t EXCEPT !.errored = FALSE, !.done = FALSE, !.holdOpen = FALSE])
  ELSE t

EndRound(t) ==
  [CloseBlocks(t, OutputIndex) EXCEPT !.completed = FALSE,
                                      !.stop = "end_turn"]

\* Leaving the loop: the message is no longer held open, and is closed.
FinishTurn(t) == Finish([t EXCEPT !.holdOpen = FALSE])

-----------------------------------------------------------------------------
Init ==
  /\ tr = [New EXCEPT !.holdOpen = 0 < MaxRounds]
  /\ round = 0
  /\ said = "empty"
  /\ pc = "reading"
  /\ ending = "none"

(* One line of the provider's stream, as on_line handles it. After done    *)
(* every event is ignored.                                                 *)

Reading == pc = "reading" /\ ~tr.done

MayOpen == tr.nextIndex < MaxBlocks  \* bound

Created ==
  /\ Reading
  /\ tr' = Start(tr)
  /\ UNCHANGED <<round, said, pc, ending>>

OutputItemAdded(o) ==
  /\ Reading /\ MayOpen
  /\ \/ tr' = Start(tr)  \* a reasoning item opens at its first delta
     \/ \E kind \in BlockKind : tr' = OpenItem(Start(tr), o, kind)
  /\ UNCHANGED <<round, said, pc, ending>>

OutputTextDelta(o) ==
  /\ Reading /\ (MayOpen \/ tr.open[o].kind = "text")
  /\ LET t == Ensure(tr, o)
     IN  \E fragment \in TextClass :
           /\ tr' = [t EXCEPT !.text = Extend(@, fragment),
                              !.out = TextDelta(@, t.open[o].index)]
           /\ said' = Extend(said, fragment)
  /\ UNCHANGED <<round, pc, ending>>

ReasoningDelta(o) ==
  /\ Reading /\ (MayOpen \/ tr.open[o].kind = "text")
  /\ LET t == Ensure(tr, o)
     IN  tr' = [t EXCEPT !.out = TextDelta(@, t.open[o].index)]
  /\ UNCHANGED <<round, said, pc, ending>>

\* An Agent's fragments are buffered; for an unknown item they are dropped.
ArgumentsDelta(o) ==
  /\ Reading /\ tr.open[o].kind \in {"text", "tool"}
  /\ tr' = [tr EXCEPT !.out = InputJsonDelta(@, tr.open[o].index)]
  /\ UNCHANGED <<round, said, pc, ending>>

OutputItemDone(o) ==
  /\ Reading
  /\ tr' = CloseBlocks(tr, {o})
  /\ UNCHANGED <<round, said, pc, ending>>

\* response.completed and response.incomplete.
Terminal(status) ==
  /\ Reading
  /\ LET t == [tr EXCEPT !.stop = IF status = "incomplete" THEN "max_tokens"
                                                           ELSE @,
                         !.completed = TRUE]
     IN  tr' = IF t.holdOpen THEN t ELSE Finish(t)
  /\ ending' = status
  /\ UNCHANGED <<round, said, pc>>

DoneSentinel ==
  /\ Reading /\ ~tr.holdOpen
  /\ tr' = Finish(tr)
  /\ UNCHANGED <<round, said, pc, ending>>

\* response.failed and error.
Failed ==
  /\ Reading
  /\ tr' = [tr EXCEPT !.out = ErrorFrame(@), !.errored = TRUE, !.done = TRUE]
  /\ UNCHANGED <<round, said, pc, ending>>

-----------------------------------------------------------------------------
(* The driver, when the provider's stream breaks or ends.                  *)

TransportError ==
  /\ pc = "reading"
  /\ tr' = IF round = 0 THEN [tr EXCEPT !.out = ErrorFrame(@)]
                        ELSE FinishTurn(tr)
  /\ pc' = "ended"
  /\ UNCHANGED <<round, said, ending>>

ShouldContinueDespiteTool == tr.text # "phrase"
ShouldContinue == ~tr.madeToolCall /\ tr.text # "phrase"

Continuable ==
  tr.completed /\ round < MaxRounds /\ said # "empty" /\ ShouldContinue

StreamEndsDone ==
  /\ pc = "reading" /\ tr.done
  /\ tr' = IF round > 0 THEN CloseAfterError(tr) ELSE tr
  /\ pc' = "ended"
  /\ UNCHANGED <<round, said, ending>>

AskAgain ==
  /\ pc = "reading" /\ ~tr.done /\ Continuable
  /\ tr' = EndRound(tr)
  /\ round' = round + 1
  /\ pc' = "sending"
  /\ UNCHANGED <<said, ending>>

StreamEndsTurnUnbroken ==
  /\ pc = "reading" /\ ~tr.done /\ ~Continuable
  /\ tr' = [tr EXCEPT !.holdOpen = round < MaxRounds]
  /\ said' = "empty"
  /\ UNCHANGED <<round, pc, ending>>

StreamEndsTurn ==
  /\ pc = "reading" /\ ~tr.done /\ ~Continuable
  /\ tr' = FinishTurn(tr)
  /\ pc' = "ended"
  /\ UNCHANGED <<round, said, ending>>

\* The answer to the next round's request, and the top of the loop.
SendAccepted ==
  /\ pc = "sending"
  /\ tr' = [tr EXCEPT !.holdOpen = round < MaxRounds]
  /\ said' = "empty"
  /\ ending' = "none"
  /\ pc' = "reading"
  /\ UNCHANGED round

\* An HTTP error status or a failed request.
SendRefused ==
  /\ pc = "sending"
  /\ tr' = FinishTurn(tr)
  /\ pc' = "ended"
  /\ UNCHANGED <<round, said, ending>>

\* The client hangs up: the response body and its generator are dropped.
HangUp ==
  /\ pc \in {"reading", "sending"}
  /\ pc' = "gone"
  /\ UNCHANGED <<tr, round, said, ending>>

Event ==
  \/ Created \/ DoneSentinel \/ Failed
  \/ \E status \in {"completed", "incomplete"} : Terminal(status)
  \/ \E o \in OutputIndex :
       \/ OutputItemAdded(o) \/ OutputTextDelta(o) \/ ReasoningDelta(o)
       \/ ArgumentsDelta(o) \/ OutputItemDone(o)

StreamEnds == StreamEndsDone \/ AskAgain \/ StreamEndsTurn
Sent == SendAccepted \/ SendRefused

Next == Event \/ TransportError \/ StreamEnds \/ Sent \/ HangUp

Spec == Init /\ [][Next]_vars

\* Every provider response ends and every request is answered or fails;
\* nothing makes the provider say more, or the client hang up.
FairSpec == Spec /\ WF_vars(StreamEnds) /\ WF_vars(Sent)
-----------------------------------------------------------------------------
TypeOK ==
  /\ tr \in Translator
  /\ round \in 0..MaxRounds
  /\ said \in TextClass
  /\ pc \in {"reading", "sending", "ended", "gone"}
  /\ ending \in {"none", "completed", "incomplete"}

\* In whatever order the provider's events arrive, and whichever way the turn
\* is spliced, refused, broken off or failed, every frame is one the client
\* can accept: one message_start, indices in order, each block stopped exactly
\* once (an Agent call after its whole input, sent once), message_delta and
\* message_stop once and at the end (stream.rs 3-6, sse/anthropic.rs 1-4).
WireContract == tr.out.phase # "broken"

\* A tool call that reached the client is never reported as the end of the
\* turn: across rounds the stop reason is reset (end_round), and a client told
\* end_turn would not run the tool.
ToolCallsAreReported ==
  /\ tr.out.phase = "stopped"
  /\ \E i \in 1..Len(tr.out.content) : tr.out.content[i] # "text"
  => tr.out.stop # "end_turn"

\* When the generator returns, the client has been given an end to wait for:
\* message_stop, or an error that no continuation came before. (A continued
\* turn can still be left with the error only, when the connection breaks after
\* the provider reported an error and before its stream ended.)
EndedTurnsAreTerminated ==
  pc = "ended" =>
    \/ tr.out.phase = "stopped"
    \/ tr.out.failed /\ (round = 0 \/ tr.errored)

\* The provider is never asked again once the client holds a tool call, in any
\* round: re-asking would duplicate the call (continuation.rs 110-111).
NoAskAfterToolCall ==
  [][pc' = "sending" =>
       \A i \in 1..Len(tr'.out.content) : tr'.out.content[i] = "text"]_vars

Turn == INSTANCE AssistantTurn
        WITH phase <- tr.out.phase, content <- tr.out.content,
             open <- tr.out.open, failed <- tr.out.failed,
             gone <- (pc = "gone")

\* However many responses were spliced, the client sees one AssistantTurn.
ImplementsTurn == Turn!Spec

\* Every turn ends: rounds are finite, and no round is waited for after the
\* turn is over.
TurnEnds == <>(pc \in {"ended", "gone"})
=============================================================================
