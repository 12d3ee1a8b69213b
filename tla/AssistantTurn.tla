--------------------------- MODULE AssistantTurn ---------------------------
(***************************************************************************)
(* What one streamed reply promises the client, whichever provider and     *)
(* however many provider responses are behind it: a single message whose   *)
(* blocks are announced in order, never reopened and all stopped before    *)
(* the message is, and after which nothing changes any more except that an *)
(* error may still be reported.                                            *)
(***************************************************************************)
EXTENDS Naturals, Sequences, AnthropicWire

VARIABLES phase,    \* "empty", then "open", then "stopped"
          content,  \* kinds of the blocks announced so far
          open,     \* indices of the blocks not yet stopped
          failed,   \* the client was shown an error
          gone      \* the client hung up

vars == <<phase, content, open, failed, gone>>

Init == /\ phase = "empty"
        /\ content = <<>>
        /\ open = {}
        /\ failed = FALSE
        /\ gone = FALSE

\* Content arrives: blocks are announced after those before, and may stop.
Stream ==
  /\ phase \in {"empty", "open"} /\ ~failed /\ ~gone
  /\ phase' = "open"
  /\ content' \in Seq(BlockKind) /\ Len(content) <= Len(content')
  /\ \A i \in 1..Len(content) : content'[i] = content[i]
  /\ open' \subseteq open \cup Len(content)..(Len(content') - 1)
  /\ UNCHANGED <<failed, gone>>

\* message_delta and message_stop: the end of the message, once. An error
\* shown earlier does not keep it from being closed.
Close ==
  /\ phase \in {"empty", "open"} /\ ~gone
  /\ phase' = "stopped"
  /\ open' = {}
  /\ UNCHANGED <<content, failed, gone>>

Fail ==
  /\ ~gone
  /\ failed' = TRUE
  /\ UNCHANGED <<phase, content, open, gone>>

Leave ==
  /\ gone' = TRUE
  /\ UNCHANGED <<phase, content, open, failed>>

Next == Stream \/ Close \/ Fail \/ Leave

Spec == Init /\ [][Next]_vars
=============================================================================
