------------------------ MODULE ResponsesTurn_proof ------------------------
(***************************************************************************)
(* Proofs about ResponsesTurn, for every set of output indices, every      *)
(* number of rounds and every number of blocks.                            *)
(***************************************************************************)
EXTENDS ResponsesTurn, TLAPS

-----------------------------------------------------------------------------
(* When the client accepts a frame, and what the frame then changes in its *)
(* view: what follows uses the frames only through these lemmas.           *)

\* message_start is accepted by a client that has received nothing.
LEMMA MessageStartAccepted ==
  ASSUME NEW c \in ClientView, c.phase = "empty"
  PROVE  /\ MessageStart(c) \in ClientView
         /\ MessageStart(c).phase = "open"
         /\ MessageStart(c).content = c.content
         /\ MessageStart(c).open = c.open
         /\ MessageStart(c).whole = c.whole
         /\ MessageStart(c).stop = c.stop
         /\ MessageStart(c).failed = c.failed
BY DEF MessageStart, ClientView, Phase

\* content_block_start is accepted with the next index of an open message.
LEMMA ContentBlockStartAccepted ==
  ASSUME NEW c \in ClientView, NEW kind \in BlockKind, NEW index \in Nat,
         c.phase = "open", index = Len(c.content)
  PROVE  /\ ContentBlockStart(c, index, kind) \in ClientView
         /\ ContentBlockStart(c, index, kind).phase = "open"
         /\ ContentBlockStart(c, index, kind).content = Append(c.content, kind)
         /\ ContentBlockStart(c, index, kind).open = c.open \cup {index}
         /\ ContentBlockStart(c, index, kind).whole = c.whole
         /\ ContentBlockStart(c, index, kind).stop = c.stop
         /\ ContentBlockStart(c, index, kind).failed = c.failed
<1>1. Append(c.content, kind) \in Seq(BlockKind)
  BY DEF ClientView
<1>2. c.open \cup {index} \in SUBSET Nat
  BY DEF ClientView
<1> DEFINE content == Append(c.content, kind)
           open == c.open \cup {index}
<1>3. ContentBlockStart(c, index, kind) =
        [[c EXCEPT !.content = content] EXCEPT !.open = open]
  BY DEF ContentBlockStart
<1> HIDE DEF content, open
<1>4. content \in Seq(BlockKind) /\ open \in SUBSET Nat
  BY <1>1, <1>2 DEF content, open
<1>5. /\ ContentBlockStart(c, index, kind) \in ClientView
      /\ ContentBlockStart(c, index, kind).phase = c.phase
      /\ ContentBlockStart(c, index, kind).content = content
      /\ ContentBlockStart(c, index, kind).open = open
      /\ ContentBlockStart(c, index, kind).whole = c.whole
      /\ ContentBlockStart(c, index, kind).stop = c.stop
      /\ ContentBlockStart(c, index, kind).failed = c.failed
  BY <1>3, <1>4 DEF ClientView
<1>. QED BY <1>5 DEF content, open

\* A fragment of a tool's input is accepted while its block is open, and
\* leaves the blocks of the message as they are.
LEMMA InputJsonDeltaAccepted ==
  ASSUME NEW c \in ClientView, NEW index,
         Streaming(c, index), KindOf(c, index) # "agent"
  PROVE  InputJsonDelta(c, index) = c
  BY DEF InputJsonDelta

\* Agent inputs are accepted for open Agent blocks that had none so far.
LEMMA InputJsonWholeAccepted ==
  ASSUME NEW c \in ClientView, NEW indices \in SUBSET Nat,
         \A i \in indices : Streaming(c, i) /\ i \notin c.whole
  PROVE  /\ InputJsonWhole(c, indices) \in ClientView
         /\ InputJsonWhole(c, indices).phase = c.phase
         /\ InputJsonWhole(c, indices).content = c.content
         /\ InputJsonWhole(c, indices).open = c.open
         /\ InputJsonWhole(c, indices).whole = c.whole \cup indices
         /\ InputJsonWhole(c, indices).stop = c.stop
         /\ InputJsonWhole(c, indices).failed = c.failed
<1>1. InputJsonWhole(c, indices) = [c EXCEPT !.whole = c.whole \cup indices]
  BY DEF InputJsonWhole
<1>. QED BY <1>1 DEF ClientView

\* content_block_stop is accepted for open blocks whose input is complete.
LEMMA ContentBlockStopsAccepted ==
  ASSUME NEW c \in ClientView, NEW indices \in SUBSET Nat,
         \A i \in indices : /\ Streaming(c, i)
                            /\ KindOf(c, i) = "agent" => i \in c.whole
  PROVE  /\ ContentBlockStops(c, indices) \in ClientView
         /\ ContentBlockStops(c, indices).phase = c.phase
         /\ ContentBlockStops(c, indices).content = c.content
         /\ ContentBlockStops(c, indices).open = c.open \ indices
         /\ ContentBlockStops(c, indices).whole = c.whole
         /\ ContentBlockStops(c, indices).stop = c.stop
         /\ ContentBlockStops(c, indices).failed = c.failed
<1>1. ContentBlockStops(c, indices) = [c EXCEPT !.open = c.open \ indices]
  BY DEF ContentBlockStops
<1>. QED BY <1>1 DEF ClientView

\* message_delta and message_stop end a message without open blocks.
LEMMA MessageEndAccepted ==
  ASSUME NEW c \in ClientView, NEW stop \in StopReason,
         c.phase = "open", c.open = {}
  PROVE  /\ MessageStop(MessageDelta(c, stop)) \in ClientView
         /\ MessageStop(MessageDelta(c, stop)).phase = "stopped"
         /\ MessageStop(MessageDelta(c, stop)).content = c.content
         /\ MessageStop(MessageDelta(c, stop)).open = {}
         /\ MessageStop(MessageDelta(c, stop)).whole = c.whole
         /\ MessageStop(MessageDelta(c, stop)).stop = stop
         /\ MessageStop(MessageDelta(c, stop)).failed = c.failed
<1> DEFINE d == MessageDelta(c, stop)
<1>1. d = [[c EXCEPT !.phase = "closing"] EXCEPT !.stop = stop]
  BY DEF MessageDelta
<1>2. d \in ClientView /\ d.phase = "closing" /\ d.content = c.content /\ d.open = {}
      /\ d.whole = c.whole /\ d.stop = stop /\ d.failed = c.failed
  BY <1>1 DEF ClientView, Phase
<1>3. MessageStop(d) = [d EXCEPT !.phase = "stopped"]
  BY <1>2 DEF MessageStop
<1> HIDE DEF d
<1>4. /\ MessageStop(d) \in ClientView
      /\ MessageStop(d).phase = "stopped" /\ MessageStop(d).content = d.content
      /\ MessageStop(d).open = d.open /\ MessageStop(d).whole = d.whole
      /\ MessageStop(d).stop = d.stop /\ MessageStop(d).failed = d.failed
  BY <1>2, <1>3 DEF ClientView, Phase
<1>. QED BY <1>2, <1>4 DEF d

\* An error frame is accepted at any point.
LEMMA ErrorFrameAccepted ==
  ASSUME NEW c \in ClientView
  PROVE  /\ ErrorFrame(c) \in ClientView
         /\ ErrorFrame(c).phase = c.phase
         /\ ErrorFrame(c).content = c.content
         /\ ErrorFrame(c).open = c.open
         /\ ErrorFrame(c).whole = c.whole
         /\ ErrorFrame(c).stop = c.stop
         /\ ErrorFrame(c).failed = TRUE
BY DEF ErrorFrame, ClientView

-----------------------------------------------------------------------------
(* The inductive invariant: the translator's book-keeping and the client's *)
(* view of the message are two records of the same blocks.                 *)

LiveOutputs(t) == {o \in OutputIndex : IsOpen(t, o)}

\* Every open block of the translator is one of the client's, of its kind.
BlocksAgree(t) ==
  /\ t.nextIndex = Len(t.out.content)
  /\ t.out.open = Indices(t, LiveOutputs(t))
  /\ \A o \in LiveOutputs(t) :
       /\ t.open[o].index < t.nextIndex
       /\ KindOf(t.out, t.open[o].index) = t.open[o].kind
       /\ t.open[o].index \notin t.out.whole
  /\ \A o, p \in LiveOutputs(t) : t.open[o].index = t.open[p].index => o = p
  /\ \A i \in t.out.whole : i < t.nextIndex

PhaseAgrees(t) ==
  /\ t.out.phase \in {"empty", "open", "stopped"}
  /\ t.started <=> t.out.phase # "empty"
  /\ t.out.phase # "open" => LiveOutputs(t) = {}

HasTool(c) == \E i \in 1..Len(c.content) : c.content[i] # "text"

\* A tool call in the message shows in the stop reason, sent or to be sent.
ToolsAgree(t) ==
  /\ HasTool(t.out) => t.madeToolCall
  /\ t.madeToolCall => t.stop # "end_turn"
  /\ t.out.phase = "stopped" => t.out.stop = t.stop

Sound(t) == /\ t \in Translator
            /\ BlocksAgree(t)
            /\ PhaseAgrees(t)
            /\ ToolsAgree(t)

\* A translator that is done has closed the message, or reported an error.
DoneAgrees(t) ==
  /\ t.errored => t.done
  /\ t.out.phase = "stopped" <=> t.done /\ ~t.errored

\* What an operation leaves alone of the rest of the translator.
SameFlags(s, t) == /\ s.done = t.done /\ s.errored = t.errored
                   /\ s.completed = t.completed /\ s.holdOpen = t.holdOpen
                   /\ s.text = t.text

\* d is c after a burst of frames that neither ends the message nor fails it.
Extended(c, d) ==
  /\ d.failed = c.failed
  /\ \/ d.content = c.content /\ d.open \subseteq c.open
     \/ \E kind \in BlockKind :
          /\ d.content = Append(c.content, kind)
          /\ d.open \subseteq c.open \cup {Len(c.content)}

-----------------------------------------------------------------------------
(* The translator's methods keep the agreement.                            *)

LEMMA StartSound ==
  ASSUME NEW t, Sound(t)
  PROVE  /\ Sound(Start(t))
         /\ SameFlags(Start(t), t)
         /\ Start(t).started
         /\ Start(t).open = t.open
         /\ Start(t).nextIndex = t.nextIndex
         /\ Start(t).stop = t.stop
         /\ Start(t).madeToolCall = t.madeToolCall
         /\ Start(t).out.phase =
              IF t.out.phase = "empty" THEN "open" ELSE t.out.phase
         /\ Start(t).out.content = t.out.content
         /\ Start(t).out.open = t.out.open
         /\ Start(t).out.failed = t.out.failed
<1>1. CASE t.started
  BY <1>1 DEF Start, Sound, SameFlags, PhaseAgrees
<1>2. CASE ~t.started
  <2> DEFINE s == Start(t)
  <2>1. t \in Translator /\ t.out \in ClientView /\ t.out.phase = "empty"
    BY <1>2 DEF Sound, PhaseAgrees, Translator
  <2>2. s = [[t EXCEPT !.started = TRUE] EXCEPT !.out = MessageStart(t.out)]
    BY <1>2 DEF Start
  <2>3. MessageStart(t.out) \in ClientView
    BY <2>1, MessageStartAccepted
  <2>4. /\ s \in Translator /\ s.started = TRUE /\ s.out = MessageStart(t.out)
        /\ s.open = t.open /\ s.nextIndex = t.nextIndex /\ s.stop = t.stop
        /\ s.madeToolCall = t.madeToolCall /\ SameFlags(s, t)
    BY <2>1, <2>2, <2>3 DEF Translator, SameFlags
  <2> HIDE DEF s
  <2>5. /\ s.out.phase = "open" /\ s.out.content = t.out.content
        /\ s.out.open = t.out.open /\ s.out.whole = t.out.whole
        /\ s.out.stop = t.out.stop /\ s.out.failed = t.out.failed
    BY <2>1, <2>4, MessageStartAccepted
  <2>6. LiveOutputs(s) = LiveOutputs(t) /\ Indices(s, LiveOutputs(s)) = Indices(t, LiveOutputs(t))
    BY <2>4 DEF LiveOutputs, IsOpen, Indices
  <2>7. BlocksAgree(s)
    BY <2>4, <2>5, <2>6 DEF Sound, BlocksAgree, KindOf
  <2>8. PhaseAgrees(s)
    BY <2>4, <2>5 DEF PhaseAgrees
  <2>9. ToolsAgree(s)
    BY <2>4, <2>5 DEF Sound, ToolsAgree, HasTool
  <2>. QED BY <2>1, <2>4, <2>5, <2>7, <2>8, <2>9 DEF s, Sound
<1>. QED BY <1>1, <1>2

LEMMA OpenItemSound ==
  ASSUME NEW t, Sound(t), t.out.phase # "stopped",
         NEW o \in OutputIndex, NEW kind \in BlockKind
  PROVE  /\ Sound(OpenItem(t, o, kind))
         /\ SameFlags(OpenItem(t, o, kind), t)
         /\ OpenItem(t, o, kind).out.phase = "open"
         /\ Extended(t.out, OpenItem(t, o, kind).out)
         /\ ~IsOpen(t, o) => OpenItem(t, o, kind).open[o].kind = kind
<1>1. CASE IsOpen(t, o)
  <2>1. t.out.phase = "open"
    BY <1>1 DEF Sound, PhaseAgrees, LiveOutputs
  <2>. QED BY <1>1, <2>1 DEF OpenItem, SameFlags, Extended
<1>2. CASE ~IsOpen(t, o)
  <2> DEFINE s == Start(t)
             u == OpenItem(t, o, kind)
  <2>1. /\ Sound(s) /\ SameFlags(s, t) /\ s.started /\ s.open = t.open
        /\ s.nextIndex = t.nextIndex /\ s.out.phase = "open"
        /\ s.out.content = t.out.content /\ s.out.open = t.out.open
        /\ s.out.failed = t.out.failed
    BY StartSound DEF Sound, PhaseAgrees
  <2> HIDE DEF s
  <2> DEFINE stop == IF kind = "text" THEN s.stop ELSE "tool_use"
             made == s.madeToolCall \/ kind # "text"
             block == [index |-> s.nextIndex, kind |-> kind]
             out == ContentBlockStart(s.out, s.nextIndex, kind)
  <2>2. u = [s EXCEPT !.stop = stop, !.madeToolCall = made,
                      !.nextIndex = s.nextIndex + 1,
                      !.open = [s.open EXCEPT ![o] = block], !.out = out]
    BY <1>2 DEF OpenItem, s
  <2>3. /\ s \in Translator /\ s.out \in ClientView /\ s.nextIndex \in Nat
        /\ s.nextIndex = Len(s.out.content) /\ s.open \in [OutputIndex -> Open]
    BY <2>1 DEF Sound, Translator, BlocksAgree
  <2>4. /\ out \in ClientView /\ out.phase = "open" /\ out.content = Append(s.out.content, kind)
        /\ out.open = s.out.open \cup {s.nextIndex} /\ out.whole = s.out.whole
        /\ out.stop = s.out.stop /\ out.failed = s.out.failed
    <3> DEFINE c == s.out
               index == s.nextIndex
    <3>1. c \in ClientView /\ index \in Nat /\ c.phase = "open" /\ index = Len(c.content)
      BY <2>1, <2>3
    <3> HIDE DEF c, index
    <3>2. /\ ContentBlockStart(c, index, kind) \in ClientView
          /\ ContentBlockStart(c, index, kind).phase = "open"
          /\ ContentBlockStart(c, index, kind).content = Append(c.content, kind)
          /\ ContentBlockStart(c, index, kind).open = c.open \cup {index}
          /\ ContentBlockStart(c, index, kind).whole = c.whole
          /\ ContentBlockStart(c, index, kind).stop = c.stop
          /\ ContentBlockStart(c, index, kind).failed = c.failed
      BY <3>1, ContentBlockStartAccepted
    <3>. QED BY <3>2 DEF c, index
  <2>5. block \in Open /\ block.index = s.nextIndex /\ block.kind = kind
    BY <2>3 DEF Open, Kind
  <2>6. stop \in StopReason /\ made \in BOOLEAN
    BY <2>3 DEF Translator, StopReason
  <2> HIDE DEF stop, made, block, out
  <2>7. [s.open EXCEPT ![o] = block] \in [OutputIndex -> Open]
    BY <2>3, <2>5
  <2> HIDE DEF u
  <2> DEFINE opened == [s.open EXCEPT ![o] = block]
  <2>70. u = [[[[[s EXCEPT !.stop = stop] EXCEPT !.madeToolCall = made]
                  EXCEPT !.nextIndex = s.nextIndex + 1]
                 EXCEPT !.open = opened] EXCEPT !.out = out]
    BY <2>2
  <2> HIDE DEF opened
  <2>71. opened \in [OutputIndex -> Open] /\ s.nextIndex + 1 \in Nat
    BY <2>3, <2>7 DEF opened
  <2>80. u \in Translator
    BY <2>70, <2>71, <2>3, <2>4, <2>6 DEF Translator
  <2>8. /\ u \in Translator /\ u.started = s.started /\ u.stop = stop /\ u.madeToolCall = made
        /\ u.nextIndex = s.nextIndex + 1 /\ u.open = [s.open EXCEPT ![o] = block]
        /\ u.out = out /\ SameFlags(u, s)
    BY <2>80, <2>2, <2>3 DEF Translator, SameFlags
  <2>9. LiveOutputs(u) = LiveOutputs(s) \cup {o} /\ o \notin LiveOutputs(s)
    BY <1>2, <2>1, <2>3, <2>5, <2>8 DEF LiveOutputs, IsOpen, BlockKind
  <2>10. u.open[o] = block /\ \A p \in LiveOutputs(s) : u.open[p] = s.open[p]
    BY <2>3, <2>8, <2>9 DEF LiveOutputs
  <2>11. BlocksAgree(u)
    <3>1. u.nextIndex = Len(u.out.content)
      BY <2>3, <2>4, <2>8 DEF ClientView
    <3>2. u.out.open = Indices(u, LiveOutputs(u))
      BY <2>1, <2>4, <2>5, <2>8, <2>9, <2>10 DEF Sound, BlocksAgree, Indices
    <3>3. ASSUME NEW p \in LiveOutputs(u)
          PROVE  /\ u.open[p].index < u.nextIndex
                 /\ KindOf(u.out, u.open[p].index) = u.open[p].kind
                 /\ u.open[p].index \notin u.out.whole
      <4>1. CASE p = o
        BY <4>1, <2>1, <2>3, <2>4, <2>5, <2>8, <2>10 DEF KindOf, ClientView, Sound, BlocksAgree
      <4>2. CASE p # o
        <5>1. p \in LiveOutputs(s) /\ u.open[p] = s.open[p] /\ s.open[p].index \in Nat
          BY <4>2, <2>3, <2>9, <2>10 DEF LiveOutputs, Open
        <5>2. /\ s.open[p].index < s.nextIndex /\ KindOf(s.out, s.open[p].index) = s.open[p].kind
              /\ s.open[p].index \notin s.out.whole
          BY <5>1, <2>1 DEF Sound, BlocksAgree
        <5>3. s.out.content \in Seq(BlockKind) /\ Len(s.out.content) = s.nextIndex
          BY <2>1, <2>3 DEF ClientView, Sound, BlocksAgree
        <5>4. \A i \in Nat : i < Len(s.out.content) =>
                Append(s.out.content, kind)[i + 1] = s.out.content[i + 1]
          BY <5>3
        <5>5. KindOf(u.out, s.open[p].index) = KindOf(s.out, s.open[p].index)
          BY <5>1, <5>2, <5>3, <5>4, <2>4, <2>8 DEF KindOf
        <5>. QED BY <5>1, <5>2, <5>5, <2>3, <2>4, <2>8
      <4>. QED BY <4>1, <4>2
    <3>4. ASSUME NEW p \in LiveOutputs(u), NEW q \in LiveOutputs(u), u.open[p].index = u.open[q].index
          PROVE  p = q
      <4>1. \A r \in LiveOutputs(s) : s.open[r].index < s.nextIndex /\ s.open[r].index \in Nat
        BY <2>1, <2>3 DEF Sound, BlocksAgree, LiveOutputs, Open
      <4>. QED BY <3>4, <4>1, <2>1, <2>3, <2>5, <2>9, <2>10 DEF Sound, BlocksAgree
    <3>5. \A i \in u.out.whole : i < u.nextIndex
      BY <2>1, <2>3, <2>4, <2>8 DEF Sound, BlocksAgree, ClientView
    <3>. QED BY <3>1, <3>2, <3>3, <3>4, <3>5 DEF BlocksAgree
  <2>12. PhaseAgrees(u)
    BY <2>1, <2>4, <2>8 DEF PhaseAgrees
  <2>13. ToolsAgree(u)
    <3>1. HasTool(u.out) => HasTool(s.out) \/ kind # "text"
      BY <2>3, <2>4, <2>8 DEF HasTool, ClientView
    <3>2. HasTool(u.out) => u.madeToolCall
      BY <3>1, <2>1, <2>8 DEF made, Sound, ToolsAgree
    <3>3. u.madeToolCall => u.stop # "end_turn"
      BY <2>1, <2>8 DEF made, stop, Sound, ToolsAgree
    <3>. QED BY <3>2, <3>3, <2>4, <2>8 DEF ToolsAgree
  <2>14. Extended(t.out, u.out)
    BY <2>1, <2>3, <2>4, <2>8 DEF Extended
  <2>15. SameFlags(u, t)
    BY <2>1, <2>8 DEF SameFlags
  <2>. QED BY <2>4, <2>5, <2>8, <2>10, <2>11, <2>12, <2>13, <2>14, <2>15 DEF u, Sound
<1>. QED BY <1>1, <1>2

LEMMA CloseBlocksSound ==
  ASSUME NEW t, Sound(t), NEW outputs \in SUBSET OutputIndex
  PROVE  /\ Sound(CloseBlocks(t, outputs))
         /\ SameFlags(CloseBlocks(t, outputs), t)
         /\ CloseBlocks(t, outputs).started = t.started
         /\ CloseBlocks(t, outputs).stop = t.stop
         /\ CloseBlocks(t, outputs).madeToolCall = t.madeToolCall
         /\ CloseBlocks(t, outputs).out.phase = t.out.phase
         /\ CloseBlocks(t, outputs).out.content = t.out.content
         /\ CloseBlocks(t, outputs).out.open \subseteq t.out.open
         /\ CloseBlocks(t, outputs).out.failed = t.out.failed
         /\ LiveOutputs(CloseBlocks(t, outputs)) = LiveOutputs(t) \ outputs
         /\ CloseBlocks(t, outputs).nextIndex = t.nextIndex
<1> DEFINE live == {o \in outputs : IsOpen(t, o)}
           agents == {o \in live : t.open[o].kind = "agent"}
           ii == Indices(t, live)
           aa == Indices(t, agents)
           mid == EmitArguments(t, live)
           out == ContentBlockStops(mid, ii)
           closed == [o \in OutputIndex |-> IF o \in outputs THEN NoBlock ELSE t.open[o]]
           u == CloseBlocks(t, outputs)
<1>1. /\ t \in Translator /\ t.out \in ClientView
      /\ t.open \in [OutputIndex -> Open] /\ t.nextIndex \in Nat
      /\ live = LiveOutputs(t) \cap outputs
  BY DEF Sound, Translator, LiveOutputs
<1>2. \A o \in LiveOutputs(t) : t.open[o].index \in Nat
  BY <1>1 DEF LiveOutputs, Open
<1>3. ii \in SUBSET Nat /\ aa \in SUBSET Nat
  BY <1>1, <1>2 DEF Indices
<1>4. \A o \in LiveOutputs(t) : /\ Streaming(t.out, t.open[o].index)
                                /\ t.open[o].index \notin t.out.whole
                                /\ KindOf(t.out, t.open[o].index) = t.open[o].kind
  BY DEF Sound, BlocksAgree, PhaseAgrees, Streaming, Indices
<1>5. mid = InputJsonWhole(t.out, aa)
  BY DEF EmitArguments
<1> HIDE DEF mid, aa, ii
<1>6. /\ mid \in ClientView /\ mid.phase = t.out.phase /\ mid.content = t.out.content
      /\ mid.open = t.out.open /\ mid.whole = t.out.whole \cup aa
      /\ mid.stop = t.out.stop /\ mid.failed = t.out.failed
  <2>1. \A i \in aa : Streaming(t.out, i) /\ i \notin t.out.whole
    BY <1>1, <1>4 DEF aa, Indices
  <2>. QED BY <2>1, <1>1, <1>3, <1>5, InputJsonWholeAccepted
<1>7. \A i \in ii : /\ Streaming(mid, i)
                    /\ KindOf(mid, i) = "agent" => i \in mid.whole
  <2> SUFFICES ASSUME NEW o \in live
               PROVE  LET i == t.open[o].index
                      IN  /\ Streaming(mid, i)
                          /\ KindOf(mid, i) = "agent" => i \in mid.whole
    BY DEF ii, Indices
  <2>1. Streaming(mid, t.open[o].index)
    BY <1>1, <1>4, <1>6 DEF Streaming
  <2>2. KindOf(mid, t.open[o].index) = t.open[o].kind
    BY <1>1, <1>4, <1>6 DEF KindOf
  <2>3. t.open[o].kind = "agent" => t.open[o].index \in aa
    BY DEF aa, Indices
  <2>. QED BY <2>1, <2>2, <2>3, <1>6
<1>8. /\ out \in ClientView /\ out.phase = t.out.phase /\ out.content = t.out.content
      /\ out.open = t.out.open \ ii /\ out.whole = t.out.whole \cup aa
      /\ out.stop = t.out.stop /\ out.failed = t.out.failed
  <2>1. mid \in ClientView
    BY <1>6
  <2>2. /\ out \in ClientView /\ out.phase = mid.phase /\ out.content = mid.content
        /\ out.open = mid.open \ ii /\ out.whole = mid.whole
        /\ out.stop = mid.stop /\ out.failed = mid.failed
    BY <1>3, <1>7, <2>1, ContentBlockStopsAccepted
  <2>. QED BY <2>2, <1>6
<1>9. u = [[t EXCEPT !.open = closed] EXCEPT !.out = out]
  BY DEF CloseBlocks, mid, ii
<1> HIDE DEF out, u, live
<1>10. closed \in [OutputIndex -> Open]
  BY <1>1 DEF NoBlock, Open, Kind
<1> HIDE DEF closed
<1>11. /\ u \in Translator /\ u.open = closed /\ u.out = out /\ SameFlags(u, t)
       /\ u.started = t.started /\ u.stop = t.stop
       /\ u.madeToolCall = t.madeToolCall /\ u.nextIndex = t.nextIndex
  BY <1>1, <1>8, <1>9, <1>10 DEF Translator, SameFlags
<1>12. LiveOutputs(u) = LiveOutputs(t) \ outputs
  BY <1>11 DEF closed, LiveOutputs, IsOpen, NoBlock
<1>13. \A o \in LiveOutputs(u) : o \in LiveOutputs(t) /\ u.open[o] = t.open[o]
  BY <1>11, <1>12 DEF closed, LiveOutputs
<1>14. BlocksAgree(u)
  <2>1. u.nextIndex = Len(u.out.content)
    BY <1>8, <1>11 DEF Sound, BlocksAgree
  <2>2. \A o, p \in LiveOutputs(t) : t.open[o].index = t.open[p].index => o = p
    BY DEF Sound, BlocksAgree
  <2>3. t.out.open \ ii = Indices(u, LiveOutputs(u))
    BY <1>1, <1>12, <1>13, <2>2 DEF Sound, BlocksAgree, Indices, ii
  <2>4. \A o \in LiveOutputs(u) : t.open[o].index \notin aa
    BY <1>1, <1>12, <2>2 DEF aa, Indices, live
  <2>5. \A o \in LiveOutputs(u) :
          /\ u.open[o].index < u.nextIndex
          /\ KindOf(u.out, u.open[o].index) = u.open[o].kind
          /\ u.open[o].index \notin u.out.whole
    BY <1>8, <1>11, <1>13, <2>4 DEF Sound, BlocksAgree, KindOf
  <2>6. \A o, p \in LiveOutputs(u) : u.open[o].index = u.open[p].index => o = p
    BY <1>13, <2>2
  <2>7. \A i \in u.out.whole : i < u.nextIndex
    BY <1>1, <1>8, <1>11 DEF Sound, BlocksAgree, aa, Indices, live
  <2>. QED BY <2>1, <2>3, <2>5, <2>6, <2>7, <1>8, <1>11 DEF BlocksAgree
<1>15. PhaseAgrees(u)
  BY <1>8, <1>11, <1>12 DEF Sound, PhaseAgrees
<1>16. ToolsAgree(u)
  BY <1>8, <1>11 DEF Sound, ToolsAgree, HasTool
<1>. QED BY <1>8, <1>11, <1>12, <1>14, <1>15, <1>16 DEF Sound, u

LEMMA EnsureSound ==
  ASSUME NEW t, Sound(t), t.out.phase # "stopped", NEW o \in OutputIndex
  PROVE  /\ Sound(Ensure(t, o))
         /\ SameFlags(Ensure(t, o), t)
         /\ Ensure(t, o).out.phase = "open"
         /\ Extended(t.out, Ensure(t, o).out)
         /\ Ensure(t, o).open[o].kind = "text"
<1>1. CASE t.open[o].kind = "text"
  <2>1. o \in LiveOutputs(t)
    BY <1>1 DEF LiveOutputs, IsOpen
  <2>2. t.out.phase = "open"
    BY <2>1 DEF Sound, PhaseAgrees
  <2>. QED BY <1>1, <2>2 DEF Ensure, SameFlags, Extended
<1>2. CASE t.open[o].kind # "text"
  <2> DEFINE s == CloseBlocks(t, {o})
  <2>1. /\ Sound(s) /\ SameFlags(s, t) /\ s.out.phase = t.out.phase
        /\ s.out.content = t.out.content /\ s.out.open \subseteq t.out.open
        /\ s.out.failed = t.out.failed /\ o \notin LiveOutputs(s)
    BY CloseBlocksSound
  <2> HIDE DEF s
  <2>2. ~IsOpen(s, o)
    BY <2>1 DEF LiveOutputs
  <2> DEFINE u == OpenItem(s, o, "text")
  <2>3. /\ Sound(u) /\ SameFlags(u, s) /\ u.out.phase = "open"
        /\ Extended(s.out, u.out) /\ u.open[o].kind = "text"
    BY <2>1, <2>2, OpenItemSound DEF BlockKind
  <2>4. u = Ensure(t, o)
    BY <1>2 DEF Ensure, s
  <2> HIDE DEF u
  <2>5. SameFlags(u, t) /\ Extended(t.out, u.out)
    BY <2>1, <2>3 DEF SameFlags, Extended
  <2>. QED BY <2>3, <2>4, <2>5
<1>. QED BY <1>1, <1>2

\* Closing a message that is not stopped yet; FinishAgain is the body of Finish
\* after its check.
LEMMA FinishSound ==
  ASSUME NEW t, Sound(t), t.out.phase # "stopped", ~t.done
  PROVE  /\ Sound(Finish(t))
         /\ Finish(t).done
         /\ Finish(t).errored = t.errored
         /\ Finish(t).out.phase = "stopped"
         /\ Finish(t).out.content = t.out.content
         /\ Finish(t).out.open = {}
         /\ Finish(t).out.failed = t.out.failed
<1> DEFINE r == [t EXCEPT !.done = TRUE]
           s == Start(r)
           v == CloseBlocks(s, OutputIndex)
           out == MessageStop(MessageDelta(v.out, v.stop))
           u == Finish(t)
<1>1. /\ r \in Translator /\ r.done /\ r.started = t.started /\ r.out = t.out /\ r.open = t.open
      /\ r.stop = t.stop /\ r.madeToolCall = t.madeToolCall /\ r.nextIndex = t.nextIndex
      /\ r.errored = t.errored
  BY DEF Sound, Translator
<1>2. u = [v EXCEPT !.out = out]
  BY DEF Finish
<1> HIDE DEF r, u
<1>3. LiveOutputs(r) = LiveOutputs(t) /\ Indices(r, LiveOutputs(r)) = Indices(t, LiveOutputs(t))
  BY <1>1 DEF LiveOutputs, IsOpen, Indices
<1>4. Sound(r)
  <2>1. BlocksAgree(r)
    BY <1>1, <1>3 DEF Sound, BlocksAgree
  <2>2. PhaseAgrees(r) /\ ToolsAgree(r)
    BY <1>1, <1>3 DEF Sound, PhaseAgrees, ToolsAgree
  <2>. QED BY <1>1, <2>1, <2>2 DEF Sound
<1>5. /\ Sound(s) /\ s.done /\ s.started /\ s.errored = t.errored
      /\ s.out.phase = "open" /\ s.out.content = t.out.content
      /\ s.out.failed = t.out.failed
  BY <1>1, <1>4, StartSound DEF Sound, PhaseAgrees, SameFlags
<1> HIDE DEF s
<1>6. /\ Sound(v) /\ v.done /\ v.started /\ v.errored = t.errored
      /\ v.out.phase = "open" /\ v.out.content = t.out.content
      /\ v.out.failed = t.out.failed /\ LiveOutputs(v) = {}
  BY <1>5, CloseBlocksSound DEF SameFlags, LiveOutputs
<1> HIDE DEF v
<1>7. v \in Translator /\ v.out \in ClientView /\ v.stop \in StopReason /\ v.out.open = {}
  BY <1>6 DEF Sound, Translator, BlocksAgree, Indices
<1>8. /\ out \in ClientView /\ out.phase = "stopped" /\ out.content = v.out.content
      /\ out.open = {} /\ out.whole = v.out.whole /\ out.stop = v.stop
      /\ out.failed = v.out.failed
  BY <1>6, <1>7, MessageEndAccepted
<1> HIDE DEF out
<1>9. /\ u \in Translator /\ u.out = out /\ SameFlags(u, v) /\ u.started = v.started
      /\ u.stop = v.stop /\ u.madeToolCall = v.madeToolCall
      /\ u.nextIndex = v.nextIndex /\ u.open = v.open
  BY <1>2, <1>7, <1>8 DEF Translator, SameFlags
<1>10. LiveOutputs(u) = {} /\ Indices(u, {}) = {}
  BY <1>6, <1>9 DEF LiveOutputs, IsOpen, Indices
<1>11. BlocksAgree(u)
  BY <1>6, <1>8, <1>9, <1>10 DEF Sound, BlocksAgree
<1>12. PhaseAgrees(u)
  BY <1>6, <1>8, <1>9, <1>10 DEF PhaseAgrees
<1>13. ToolsAgree(u)
  BY <1>6, <1>8, <1>9 DEF Sound, ToolsAgree, HasTool
<1>. QED BY <1>6, <1>8, <1>9, <1>11, <1>12, <1>13 DEF Sound, SameFlags, u

LEMMA EndRoundSound ==
  ASSUME NEW t, Sound(t), ~t.madeToolCall, t.out.phase # "stopped"
  PROVE  /\ Sound(EndRound(t))
         /\ EndRound(t).done = t.done
         /\ EndRound(t).errored = t.errored
         /\ EndRound(t).madeToolCall = t.madeToolCall
         /\ EndRound(t).out.phase = t.out.phase
         /\ EndRound(t).out.content = t.out.content
         /\ EndRound(t).out.open \subseteq t.out.open
         /\ EndRound(t).out.failed = t.out.failed
<1> DEFINE v == CloseBlocks(t, OutputIndex)
           u == EndRound(t)
<1>1. /\ Sound(v) /\ SameFlags(v, t) /\ v.out.phase = t.out.phase
      /\ v.madeToolCall = t.madeToolCall /\ v.out.content = t.out.content
      /\ v.out.open \subseteq t.out.open /\ v.out.failed = t.out.failed
  BY CloseBlocksSound
<1>2. u = [[v EXCEPT !.completed = FALSE] EXCEPT !.stop = "end_turn"]
  BY DEF EndRound
<1> HIDE DEF u, v
<1>3. /\ u \in Translator /\ u.done = v.done /\ u.errored = v.errored /\ u.out = v.out
      /\ u.open = v.open /\ u.nextIndex = v.nextIndex /\ u.started = v.started
      /\ u.madeToolCall = v.madeToolCall
  BY <1>1, <1>2 DEF Sound, Translator, StopReason
<1>4. LiveOutputs(u) = LiveOutputs(v) /\ Indices(u, LiveOutputs(u)) = Indices(v, LiveOutputs(v))
  BY <1>3 DEF LiveOutputs, IsOpen, Indices
<1>5. BlocksAgree(u)
  BY <1>1, <1>3, <1>4 DEF Sound, BlocksAgree
<1>6. PhaseAgrees(u) /\ ToolsAgree(u)
  BY <1>1, <1>3, <1>4 DEF Sound, PhaseAgrees, ToolsAgree
<1>. QED BY <1>1, <1>3, <1>5, <1>6 DEF Sound, SameFlags, u

\* Sound looks only at the blocks, the phase and the stop reason.
LEMMA SoundDependsOn ==
  ASSUME NEW t, Sound(t), NEW u \in Translator,
         u.started = t.started, u.nextIndex = t.nextIndex, u.open = t.open,
         u.madeToolCall = t.madeToolCall,
         u.stop = t.stop \/ (u.stop # "end_turn" /\ t.out.phase # "stopped"),
         u.out.phase = t.out.phase, u.out.content = t.out.content,
         u.out.open = t.out.open, u.out.whole = t.out.whole,
         u.out.stop = t.out.stop
  PROVE  Sound(u)
<1>1. LiveOutputs(u) = LiveOutputs(t) /\ Indices(u, LiveOutputs(u)) = Indices(t, LiveOutputs(t))
  BY DEF LiveOutputs, IsOpen, Indices
<1>2. BlocksAgree(u)
  BY <1>1 DEF Sound, BlocksAgree, KindOf
<1>3. PhaseAgrees(u)
  BY <1>1 DEF Sound, PhaseAgrees
<1>4. ToolsAgree(u)
  BY DEF Sound, ToolsAgree, HasTool
<1>. QED BY <1>2, <1>3, <1>4 DEF Sound

-----------------------------------------------------------------------------
(* The steps of the turn.                                                  *)

ControlOK ==
  /\ round \in 0..MaxRounds
  /\ said \in TextClass
  /\ pc \in {"reading", "sending", "ended", "gone"}
  /\ ending \in {"none", "completed", "incomplete"}

\* While the turn is under way, an error shown to the client is remembered;
\* a request is only sent for an open message; an ended turn is terminated.
TurnAgrees ==
  /\ pc \in {"reading", "sending"} /\ tr.out.failed => tr.done
  /\ tr.errored => tr.out.failed
  /\ pc = "sending" => ~tr.done /\ ~tr.out.failed
  /\ pc = "ended" => \/ tr.out.phase = "stopped"
                     \/ tr.out.failed /\ (round = 0 \/ tr.errored)

IInv == Sound(tr) /\ DoneAgrees(tr) /\ ControlOK /\ TurnAgrees

TurnStep == [Turn!Next]_(Turn!vars)

\* Frames that extend an open message are a step of the abstract turn.
LEMMA ExtendedStreams ==
  ASSUME tr.out \in ClientView, tr'.out \in ClientView,
         Extended(tr.out, tr'.out), tr.out.failed = FALSE,
         tr.out.phase \in {"empty", "open"}, tr'.out.phase = "open",
         pc # "gone", pc' # "gone"
  PROVE  Turn!Stream
<1> DEFINE content == tr.out.content
           later == tr'.out.content
<1>1. content \in Seq(BlockKind) /\ later \in Seq(BlockKind)
  BY DEF ClientView
<1>2. Len(content) \in Nat /\ Len(later) \in Nat
  BY <1>1
<1>3. CASE later = content /\ tr'.out.open \subseteq tr.out.open
  BY <1>1, <1>2, <1>3 DEF Extended, Turn!Stream, BlockKind, Turn!BlockKind
<1>4. ASSUME NEW kind \in BlockKind, later = Append(content, kind),
             tr'.out.open \subseteq tr.out.open \cup {Len(content)}
      PROVE  Turn!Stream
  <2>1. /\ Len(later) = Len(content) + 1
        /\ \A i \in 1..Len(content) : later[i] = content[i]
    BY <1>1, <1>4
  <2>2. tr'.out.open \subseteq tr.out.open \cup Len(content)..(Len(later) - 1)
    BY <1>2, <1>4, <2>1
  <2>. QED
    BY <1>1, <1>2, <2>1, <2>2 DEF Extended, Turn!Stream, BlockKind, Turn!BlockKind
<1>. QED BY <1>3, <1>4 DEF Extended

\* A step of an unfinished turn that at most adds content to the message.
LEMMA BurstStep ==
  ASSUME IInv, pc = "reading", ~tr.done,
         Sound(tr'), tr'.done = tr.done, tr'.errored = tr.errored,
         \/ tr'.out.phase = "open" /\ Extended(tr.out, tr'.out)
         \/ /\ tr'.out.phase = tr.out.phase /\ tr'.out.content = tr.out.content
            /\ tr'.out.open = tr.out.open /\ tr'.out.failed = tr.out.failed,
         pc' = pc, round' = round, said' \in TextClass,
         ending' \in {"none", "completed", "incomplete"}
  PROVE  IInv' /\ TurnStep
<1>1. ~tr.errored /\ tr.out.phase \in {"empty", "open"} /\ ~tr.out.failed
  BY DEF IInv, DoneAgrees, TurnAgrees, Sound, PhaseAgrees
<1>2. tr.out.failed = FALSE /\ tr'.out.failed = tr.out.failed
  BY <1>1 DEF IInv, Sound, Translator, ClientView, Extended
<1>3. tr'.out.phase \in {"empty", "open"}
  BY <1>1
<1>4. IInv'
  BY <1>1, <1>2, <1>3 DEF IInv, DoneAgrees, ControlOK, TurnAgrees
<1>5. tr.out \in ClientView /\ tr'.out \in ClientView
  BY DEF IInv, Sound, Translator
<1>6. ASSUME tr'.out.phase = "open" /\ Extended(tr.out, tr'.out)
      PROVE  TurnStep
  BY <1>1, <1>2, <1>5, <1>6, ExtendedStreams DEF TurnStep, Turn!Next
<1>7. ASSUME /\ tr'.out.phase = tr.out.phase /\ tr'.out.content = tr.out.content
             /\ tr'.out.open = tr.out.open
      PROVE  TurnStep
  BY <1>2, <1>7 DEF TurnStep, Turn!vars
<1>8. TurnStep
  BY <1>6, <1>7
<1>. QED BY <1>4, <1>8

\* A step that closes the message.
LEMMA CloseStep ==
  ASSUME IInv, pc \in {"reading", "sending"}, tr.out.phase # "stopped",
         Sound(tr'), tr'.done, ~tr'.errored,
         tr'.out.phase = "stopped", tr'.out.content = tr.out.content,
         tr'.out.open = {}, tr'.out.failed = tr.out.failed,
         pc' \in {"reading", "ended"}, round' = round, said' \in TextClass,
         ending' \in {"none", "completed", "incomplete"}
  PROVE  IInv' /\ TurnStep
<1>1. tr.out.phase \in {"empty", "open"}
  BY DEF IInv, Sound, PhaseAgrees
<1>2. IInv'
  BY DEF IInv, DoneAgrees, ControlOK, TurnAgrees
<1>3. TurnStep
  BY <1>1 DEF TurnStep, Turn!Next, Turn!Close, Turn!vars
<1>. QED BY <1>2, <1>3

\* The client was shown an error, and the message is as it was.
LEMMA ErrorStep ==
  ASSUME IInv, pc = "reading",
         Sound(tr'), DoneAgrees(tr'),
         tr'.out.phase = tr.out.phase, tr'.out.content = tr.out.content,
         tr'.out.open = tr.out.open, tr'.out.failed = TRUE,
         (pc' = "ended" /\ round = 0) \/ (pc' = pc /\ tr'.errored), round' = round,
         said' = said, ending' = ending
  PROVE  IInv' /\ TurnStep
<1>1. IInv'
  BY DEF IInv, DoneAgrees, ControlOK, TurnAgrees
<1>2. TurnStep
  BY DEF TurnStep, Turn!Next, Turn!Fail, Turn!vars
<1>. QED BY <1>1, <1>2

LEMMA ExtendType ==
  ASSUME NEW a \in TextClass, NEW b \in TextClass
  PROVE  Extend(a, b) \in TextClass
BY DEF Extend, TextClass

LEMMA EventSteps == ASSUME IInv, Event PROVE IInv' /\ TurnStep
<1> USE BoundsAssumption
<1>1. /\ tr \in Translator /\ tr.out \in ClientView /\ tr.text \in TextClass /\ Sound(tr)
      /\ said \in TextClass /\ ending \in {"none", "completed", "incomplete"}
  BY DEF IInv, Sound, Translator, ControlOK
<1>2. ASSUME Reading
      PROVE  /\ pc = "reading" /\ ~tr.done /\ ~tr.errored
             /\ tr.out.phase \in {"empty", "open"} /\ tr.out.phase # "stopped"
             /\ tr.out.failed = FALSE
  BY <1>1, <1>2 DEF Reading, IInv, DoneAgrees, TurnAgrees, Sound, PhaseAgrees, ClientView
<1>3. CASE Created
  <2>1. Reading /\ tr' = Start(tr) /\ UNCHANGED <<round, said, pc, ending>>
    BY <1>3 DEF Created
  <2>2. Sound(tr') /\ SameFlags(tr', tr) /\ tr'.out.phase = "open" /\ Extended(tr.out, tr'.out)
    BY <1>1, <1>2, <2>1, StartSound DEF Extended
  <2>. QED BY <1>1, <1>2, <2>1, <2>2, BurstStep DEF SameFlags
<1>4. ASSUME NEW o \in OutputIndex, OutputItemAdded(o) PROVE IInv' /\ TurnStep
  <2>1. Reading /\ UNCHANGED <<round, said, pc, ending>>
    BY <1>4 DEF OutputItemAdded
  <2> DEFINE s == Start(tr)
  <2>2. /\ Sound(s) /\ SameFlags(s, tr) /\ s.out.phase = "open"
        /\ s.out.content = tr.out.content /\ s.out.open = tr.out.open
        /\ s.out.failed = tr.out.failed
    BY <1>1, <1>2, <2>1, StartSound
  <2>3. CASE tr' = s
    <3>1. Extended(tr.out, tr'.out)
      BY <2>2, <2>3 DEF Extended
    <3>. QED BY <1>1, <1>2, <2>1, <2>2, <2>3, <3>1, BurstStep DEF SameFlags
  <2>4. ASSUME NEW kind \in BlockKind, tr' = OpenItem(s, o, kind) PROVE IInv' /\ TurnStep
    <3> HIDE DEF s
    <3>1. Sound(tr') /\ SameFlags(tr', s) /\ tr'.out.phase = "open" /\ Extended(s.out, tr'.out)
      BY <2>2, <2>4, OpenItemSound
    <3>2. SameFlags(tr', tr) /\ Extended(tr.out, tr'.out)
      BY <2>2, <3>1 DEF SameFlags, Extended
    <3>. QED BY <1>1, <1>2, <2>1, <3>1, <3>2, BurstStep DEF SameFlags
  <2>. QED BY <1>4, <2>3, <2>4 DEF OutputItemAdded
<1>5. ASSUME NEW o \in OutputIndex, OutputTextDelta(o) PROVE IInv' /\ TurnStep
  <2> DEFINE t == Ensure(tr, o)
  <2>1. Reading /\ UNCHANGED <<round, pc, ending>>
    BY <1>5 DEF OutputTextDelta
  <2>2. /\ Sound(t) /\ SameFlags(t, tr) /\ t.out.phase = "open"
        /\ Extended(tr.out, t.out) /\ t.open[o].kind = "text"
    BY <1>1, <1>2, <2>1, EnsureSound
  <2>3. PICK fragment \in TextClass :
          /\ tr' = [t EXCEPT !.text = Extend(t.text, fragment),
                             !.out = TextDelta(t.out, t.open[o].index)]
          /\ said' = Extend(said, fragment)
    BY <1>5 DEF OutputTextDelta
  <2> HIDE DEF t
  <2>4. t \in Translator /\ t.text \in TextClass /\ o \in LiveOutputs(t)
    BY <2>2 DEF Sound, Translator, LiveOutputs, IsOpen
  <2>5. TextDelta(t.out, t.open[o].index) = t.out
    BY <2>2, <2>4 DEF TextDelta, Streaming, Sound, BlocksAgree, Indices
  <2> DEFINE text == Extend(t.text, fragment)
  <2>6. text \in TextClass /\ said' \in TextClass
    BY <1>1, <2>3, <2>4, ExtendType
  <2>7. tr' = [[t EXCEPT !.text = text] EXCEPT !.out = t.out]
    BY <2>3, <2>5
  <2> HIDE DEF text
  <2>8. /\ tr' \in Translator /\ tr'.out = t.out /\ tr'.started = t.started
        /\ tr'.nextIndex = t.nextIndex /\ tr'.open = t.open
        /\ tr'.madeToolCall = t.madeToolCall /\ tr'.stop = t.stop
        /\ tr'.done = t.done /\ tr'.errored = t.errored
    BY <2>4, <2>6, <2>7 DEF Translator
  <2>9. Sound(tr')
    BY <2>2, <2>8, SoundDependsOn
  <2>. QED BY <1>1, <1>2, <2>1, <2>2, <2>6, <2>8, <2>9, BurstStep DEF SameFlags
<1>6. ASSUME NEW o \in OutputIndex, ReasoningDelta(o) PROVE IInv' /\ TurnStep
  <2> DEFINE t == Ensure(tr, o)
  <2>1. /\ Reading /\ UNCHANGED <<round, said, pc, ending>>
        /\ tr' = [t EXCEPT !.out = TextDelta(t.out, t.open[o].index)]
    BY <1>6 DEF ReasoningDelta
  <2>2. /\ Sound(t) /\ SameFlags(t, tr) /\ t.out.phase = "open"
        /\ Extended(tr.out, t.out) /\ t.open[o].kind = "text"
    BY <1>1, <1>2, <2>1, EnsureSound
  <2> HIDE DEF t
  <2>3. t \in Translator /\ o \in LiveOutputs(t)
    BY <2>2 DEF Sound, LiveOutputs, IsOpen
  <2>4. TextDelta(t.out, t.open[o].index) = t.out
    BY <2>2, <2>3 DEF TextDelta, Streaming, Sound, BlocksAgree, Indices
  <2>5. tr' = t
    BY <2>1, <2>3, <2>4 DEF Translator
  <2>. QED BY <1>1, <1>2, <2>1, <2>2, <2>5, BurstStep DEF SameFlags
<1>7. ASSUME NEW o \in OutputIndex, ArgumentsDelta(o) PROVE IInv' /\ TurnStep
  <2>1. /\ Reading /\ UNCHANGED <<round, said, pc, ending>>
        /\ tr.open[o].kind \in {"text", "tool"}
        /\ tr' = [tr EXCEPT !.out = InputJsonDelta(tr.out, tr.open[o].index)]
    BY <1>7 DEF ArgumentsDelta
  <2>2. o \in LiveOutputs(tr)
    BY <2>1 DEF LiveOutputs, IsOpen
  <2>3. /\ Streaming(tr.out, tr.open[o].index)
        /\ KindOf(tr.out, tr.open[o].index) # "agent"
    BY <1>1, <1>2, <2>1, <2>2 DEF Streaming, Sound, BlocksAgree, PhaseAgrees, Indices
  <2> DEFINE out == InputJsonDelta(tr.out, tr.open[o].index)
  <2>4. /\ out \in ClientView /\ out.phase = tr.out.phase /\ out.content = tr.out.content
        /\ out.open = tr.out.open /\ out.whole = tr.out.whole /\ out.stop = tr.out.stop
        /\ out.failed = tr.out.failed
    BY <1>1, <2>3, InputJsonDeltaAccepted
  <2>5. tr' = [tr EXCEPT !.out = out]
    BY <2>1
  <2> HIDE DEF out
  <2>6. /\ tr' \in Translator /\ tr'.out = out /\ tr'.started = tr.started
        /\ tr'.nextIndex = tr.nextIndex /\ tr'.open = tr.open
        /\ tr'.madeToolCall = tr.madeToolCall /\ tr'.stop = tr.stop
        /\ tr'.done = tr.done /\ tr'.errored = tr.errored
    BY <1>1, <2>4, <2>5 DEF Translator
  <2>7. Sound(tr')
    BY <1>1, <2>4, <2>6, SoundDependsOn
  <2>. QED BY <1>1, <1>2, <2>1, <2>4, <2>6, <2>7, BurstStep
<1>8. ASSUME NEW o \in OutputIndex, OutputItemDone(o) PROVE IInv' /\ TurnStep
  <2>1. Reading /\ UNCHANGED <<round, said, pc, ending>> /\ tr' = CloseBlocks(tr, {o})
    BY <1>8 DEF OutputItemDone
  <2>2. /\ Sound(tr') /\ SameFlags(tr', tr) /\ tr'.out.phase = tr.out.phase
        /\ tr'.out.content = tr.out.content /\ tr'.out.open \subseteq tr.out.open
        /\ tr'.out.failed = tr.out.failed
    BY <1>1, <2>1, CloseBlocksSound
  <2>3. CASE tr.out.phase = "open"
    <3>1. Extended(tr.out, tr'.out)
      BY <2>2 DEF Extended
    <3>. QED BY <1>1, <1>2, <2>1, <2>2, <2>3, <3>1, BurstStep DEF SameFlags
  <2>4. CASE tr.out.phase # "open"
    <3>1. tr.out.open = {} /\ tr'.out.open = {}
      BY <1>1, <2>2, <2>4 DEF Sound, BlocksAgree, PhaseAgrees, Indices
    <3>. QED BY <1>1, <1>2, <2>1, <2>2, <3>1, BurstStep DEF SameFlags
  <2>. QED BY <2>3, <2>4
<1>9. ASSUME NEW status \in {"completed", "incomplete"}, Terminal(status) PROVE IInv' /\ TurnStep
  <2> DEFINE stop == IF status = "incomplete" THEN "max_tokens" ELSE tr.stop
             t == [tr EXCEPT !.stop = stop, !.completed = TRUE]
  <2>1. /\ Reading /\ UNCHANGED <<round, said, pc>> /\ ending' = status
        /\ tr' = IF t.holdOpen THEN t ELSE Finish(t)
    BY <1>9 DEF Terminal
  <2>2. stop \in StopReason /\ (stop = tr.stop \/ stop # "end_turn")
    BY <1>1 DEF Translator, StopReason
  <2>3. t = [[tr EXCEPT !.stop = stop] EXCEPT !.completed = TRUE]
    OBVIOUS
  <2> HIDE DEF stop, t
  <2>4. /\ t \in Translator /\ t.out = tr.out /\ t.started = tr.started
        /\ t.nextIndex = tr.nextIndex /\ t.open = tr.open
        /\ t.madeToolCall = tr.madeToolCall /\ t.stop = stop
        /\ t.done = tr.done /\ t.errored = tr.errored
    BY <1>1, <2>2, <2>3 DEF Translator
  <2>5. Sound(t)
    BY <1>1, <1>2, <2>1, <2>2, <2>4, SoundDependsOn
  <2>6. CASE tr' = t
    BY <1>1, <1>2, <2>1, <2>4, <2>5, <2>6, BurstStep
  <2>7. CASE tr' = Finish(t)
    <3>1. /\ Sound(tr') /\ tr'.done /\ ~tr'.errored /\ tr'.out.phase = "stopped"
          /\ tr'.out.content = tr.out.content /\ tr'.out.open = {}
          /\ tr'.out.failed = tr.out.failed
      BY <1>2, <2>1, <2>4, <2>5, <2>7, FinishSound
    <3>. QED BY <1>1, <1>2, <2>1, <3>1, CloseStep
  <2>. QED BY <2>1, <2>6, <2>7
<1>10. CASE DoneSentinel
  <2>1. Reading /\ tr' = Finish(tr) /\ UNCHANGED <<round, said, pc, ending>>
    BY <1>10 DEF DoneSentinel
  <2>2. /\ Sound(tr') /\ tr'.done /\ ~tr'.errored /\ tr'.out.phase = "stopped"
        /\ tr'.out.content = tr.out.content /\ tr'.out.open = {}
        /\ tr'.out.failed = tr.out.failed
    BY <1>1, <1>2, <2>1, FinishSound
  <2>. QED BY <1>1, <1>2, <2>1, <2>2, CloseStep
<1>11. CASE Failed
  <2>1. /\ Reading /\ UNCHANGED <<round, said, pc, ending>>
        /\ tr' = [tr EXCEPT !.out = ErrorFrame(tr.out), !.errored = TRUE, !.done = TRUE]
    BY <1>11 DEF Failed
  <2> DEFINE out == ErrorFrame(tr.out)
  <2>2. /\ out \in ClientView /\ out.phase = tr.out.phase /\ out.content = tr.out.content
        /\ out.open = tr.out.open /\ out.whole = tr.out.whole /\ out.stop = tr.out.stop
        /\ out.failed = TRUE
    BY <1>1, ErrorFrameAccepted
  <2>3. tr' = [[[tr EXCEPT !.out = out] EXCEPT !.errored = TRUE] EXCEPT !.done = TRUE]
    BY <2>1
  <2> HIDE DEF out
  <2>4. /\ tr' \in Translator /\ tr'.out = out /\ tr'.started = tr.started
        /\ tr'.nextIndex = tr.nextIndex /\ tr'.open = tr.open
        /\ tr'.madeToolCall = tr.madeToolCall /\ tr'.stop = tr.stop
        /\ tr'.done = TRUE /\ tr'.errored = TRUE
    BY <1>1, <2>2, <2>3 DEF Translator
  <2>5. Sound(tr')
    BY <1>1, <2>2, <2>4, SoundDependsOn
  <2>6. DoneAgrees(tr')
    BY <1>2, <2>1, <2>2, <2>4 DEF DoneAgrees
  <2>. QED BY <1>2, <2>1, <2>2, <2>4, <2>5, <2>6, ErrorStep
<1>. QED BY <1>3, <1>4, <1>5, <1>6, <1>7, <1>8, <1>9, <1>10, <1>11 DEF Event

\* Leaving the loop with a message that is not closed yet, or closed already.
LEMMA FinishTurnSound ==
  ASSUME NEW t, Sound(t), t.out.phase # "stopped", ~t.done
  PROVE  /\ Sound(FinishTurn(t))
         /\ FinishTurn(t).done
         /\ FinishTurn(t).errored = t.errored
         /\ FinishTurn(t).out.phase = "stopped"
         /\ FinishTurn(t).out.content = t.out.content
         /\ FinishTurn(t).out.open = {}
         /\ FinishTurn(t).out.failed = t.out.failed
<1> DEFINE r == [t EXCEPT !.holdOpen = FALSE]
<1>1. /\ r \in Translator /\ r.started = t.started /\ r.nextIndex = t.nextIndex
      /\ r.open = t.open /\ r.madeToolCall = t.madeToolCall /\ r.stop = t.stop
      /\ r.out = t.out /\ r.done = t.done /\ r.errored = t.errored
  BY DEF Sound, Translator
<1>2. FinishTurn(t) = Finish(r)
  BY DEF FinishTurn
<1> HIDE DEF r
<1>3. Sound(r)
  BY <1>1, SoundDependsOn
<1>. QED BY <1>1, <1>2, <1>3, FinishSound

LEMMA FinishTurnDone ==
  ASSUME NEW t, Sound(t), t.done
  PROVE  /\ Sound(FinishTurn(t))
         /\ FinishTurn(t).done = t.done
         /\ FinishTurn(t).errored = t.errored
         /\ FinishTurn(t).out = t.out
<1> DEFINE r == [t EXCEPT !.holdOpen = FALSE]
<1>1. /\ r \in Translator /\ r.started = t.started /\ r.nextIndex = t.nextIndex
      /\ r.open = t.open /\ r.madeToolCall = t.madeToolCall /\ r.stop = t.stop
      /\ r.out = t.out /\ r.done = t.done /\ r.errored = t.errored
  BY DEF Sound, Translator
<1>2. FinishTurn(t) = r
  BY <1>1 DEF FinishTurn, Finish
<1> HIDE DEF r
<1>3. Sound(r)
  BY <1>1, SoundDependsOn
<1>. QED BY <1>1, <1>2, <1>3

LEMMA TransportErrorStep == ASSUME IInv, TransportError PROVE IInv' /\ TurnStep
<1>1. /\ tr \in Translator /\ tr.out \in ClientView /\ Sound(tr) /\ DoneAgrees(tr)
      /\ said \in TextClass /\ ending \in {"none", "completed", "incomplete"}
      /\ pc = "reading" /\ pc' = "ended" /\ UNCHANGED <<round, said, ending>>
      /\ tr' = IF round = 0 THEN [tr EXCEPT !.out = ErrorFrame(tr.out)] ELSE FinishTurn(tr)
  BY DEF IInv, Sound, Translator, ControlOK, TransportError
<1>2. CASE round = 0
  <2> DEFINE out == ErrorFrame(tr.out)
  <2>1. /\ out \in ClientView /\ out.phase = tr.out.phase /\ out.content = tr.out.content
        /\ out.open = tr.out.open /\ out.whole = tr.out.whole /\ out.stop = tr.out.stop
        /\ out.failed = TRUE
    BY <1>1, ErrorFrameAccepted
  <2>2. tr' = [tr EXCEPT !.out = out]
    BY <1>1, <1>2
  <2> HIDE DEF out
  <2>3. /\ tr' \in Translator /\ tr'.out = out /\ tr'.started = tr.started
        /\ tr'.nextIndex = tr.nextIndex /\ tr'.open = tr.open
        /\ tr'.madeToolCall = tr.madeToolCall /\ tr'.stop = tr.stop
        /\ tr'.done = tr.done /\ tr'.errored = tr.errored
    BY <1>1, <2>1, <2>2 DEF Translator
  <2>4. Sound(tr') /\ DoneAgrees(tr')
    BY <1>1, <2>1, <2>3, SoundDependsOn DEF DoneAgrees
  <2>. QED BY <1>1, <1>2, <2>1, <2>3, <2>4, ErrorStep
<1>3. CASE round # 0 /\ tr.done
  <2>1. /\ Sound(tr') /\ tr'.done = tr.done /\ tr'.errored = tr.errored /\ tr'.out = tr.out
    BY <1>1, <1>3, FinishTurnDone
  <2>2. tr.out.phase = "stopped" \/ tr.errored
    BY <1>1, <1>3 DEF DoneAgrees
  <2>3. tr.errored => tr.out.failed
    BY DEF IInv, TurnAgrees
  <2>4. IInv'
    BY <1>1, <2>1, <2>2, <2>3 DEF IInv, DoneAgrees, ControlOK, TurnAgrees
  <2>5. TurnStep
    BY <1>1, <2>1 DEF TurnStep, Turn!vars
  <2>. QED BY <2>4, <2>5
<1>4. CASE round # 0 /\ ~tr.done
  <2>1. tr.out.phase # "stopped" /\ ~tr.errored
    BY <1>1, <1>4 DEF DoneAgrees
  <2>2. /\ Sound(tr') /\ tr'.done /\ ~tr'.errored /\ tr'.out.phase = "stopped"
        /\ tr'.out.content = tr.out.content /\ tr'.out.open = {}
        /\ tr'.out.failed = tr.out.failed
    BY <1>1, <1>4, <2>1, FinishTurnSound
  <2>. QED BY <1>1, <2>1, <2>2, CloseStep
<1>. QED BY <1>2, <1>3, <1>4

LEMMA StreamEndsSteps == ASSUME IInv, StreamEnds PROVE IInv' /\ TurnStep
<1> USE BoundsAssumption
<1>1. /\ tr \in Translator /\ tr.out \in ClientView /\ Sound(tr) /\ DoneAgrees(tr)
      /\ said \in TextClass /\ ending \in {"none", "completed", "incomplete"}
      /\ round \in 0..MaxRounds
  BY DEF IInv, Sound, Translator, ControlOK
<1>2. CASE StreamEndsDone
  <2>1. /\ pc = "reading" /\ tr.done /\ pc' = "ended" /\ UNCHANGED <<round, said, ending>>
        /\ tr' = IF round > 0 THEN CloseAfterError(tr) ELSE tr
    BY <1>2 DEF StreamEndsDone
  <2>2. CASE tr' = tr
    <3>1. IInv'
      BY <1>1, <2>1, <2>2 DEF IInv, DoneAgrees, ControlOK, TurnAgrees
    <3>2. TurnStep
      BY <2>1, <2>2 DEF TurnStep, Turn!vars
    <3>. QED BY <3>1, <3>2
  <2>3. CASE tr.errored /\ tr' = CloseAfterError(tr)
    <3> DEFINE r == [tr EXCEPT !.errored = FALSE, !.done = FALSE, !.holdOpen = FALSE]
    <3>1. r = [[[tr EXCEPT !.errored = FALSE] EXCEPT !.done = FALSE] EXCEPT !.holdOpen = FALSE]
      OBVIOUS
    <3>2. tr' = Finish(r)
      BY <2>3 DEF CloseAfterError
    <3> HIDE DEF r
    <3>3. /\ r \in Translator /\ r.started = tr.started /\ r.nextIndex = tr.nextIndex
          /\ r.open = tr.open /\ r.madeToolCall = tr.madeToolCall /\ r.stop = tr.stop
          /\ r.out = tr.out /\ ~r.done /\ ~r.errored
      BY <1>1, <3>1 DEF Translator
    <3>4. Sound(r) /\ tr.out.phase # "stopped"
      BY <1>1, <2>3, <3>3, SoundDependsOn DEF DoneAgrees
    <3>5. /\ Sound(tr') /\ tr'.done /\ ~tr'.errored /\ tr'.out.phase = "stopped"
          /\ tr'.out.content = tr.out.content /\ tr'.out.open = {}
          /\ tr'.out.failed = tr.out.failed
      BY <3>2, <3>3, <3>4, FinishSound
    <3>. QED BY <1>1, <2>1, <3>4, <3>5, CloseStep
  <2>. QED BY <2>1, <2>2, <2>3 DEF CloseAfterError
<1>3. CASE AskAgain
  <2>1. /\ pc = "reading" /\ ~tr.done /\ ~tr.madeToolCall /\ round < MaxRounds
        /\ tr' = EndRound(tr) /\ round' = round + 1 /\ pc' = "sending"
        /\ UNCHANGED <<said, ending>>
    BY <1>3 DEF AskAgain, Continuable, ShouldContinue
  <2>2. tr.out.phase # "stopped" /\ ~tr.errored /\ tr.out.failed = FALSE
    BY <1>1, <2>1 DEF IInv, DoneAgrees, TurnAgrees, ClientView
  <2>3. /\ Sound(tr') /\ tr'.done = tr.done /\ tr'.errored = tr.errored
        /\ tr'.out.phase = tr.out.phase /\ tr'.out.content = tr.out.content
        /\ tr'.out.open \subseteq tr.out.open /\ tr'.out.failed = tr.out.failed
    BY <1>1, <2>1, <2>2, EndRoundSound
  <2>4. IInv'
    BY <1>1, <2>1, <2>2, <2>3 DEF IInv, DoneAgrees, ControlOK, TurnAgrees
  <2>5. CASE tr.out.phase = "open"
    <3>1. tr.out \in ClientView /\ tr'.out \in ClientView
      BY <1>1, <2>3 DEF IInv, Sound, Translator
    <3>2. TurnStep
      BY <2>1, <2>2, <2>3, <2>5, <3>1, ExtendedStreams
         DEF TurnStep, Turn!Next, Extended
    <3>. QED BY <2>4, <3>2
  <2>6. CASE tr.out.phase # "open"
    <3>1. tr.out.open = {} /\ tr'.out.open = {}
      BY <1>1, <2>3, <2>6 DEF Sound, BlocksAgree, PhaseAgrees, Indices
    <3>2. TurnStep
      BY <2>1, <2>3, <3>1 DEF TurnStep, Turn!vars
    <3>. QED BY <2>4, <3>2
  <2>. QED BY <2>5, <2>6
<1>4. CASE StreamEndsTurn
  <2>1. /\ pc = "reading" /\ ~tr.done /\ tr' = FinishTurn(tr) /\ pc' = "ended"
        /\ UNCHANGED <<round, said, ending>>
    BY <1>4 DEF StreamEndsTurn
  <2>2. tr.out.phase # "stopped" /\ ~tr.errored
    BY <1>1, <2>1 DEF DoneAgrees
  <2>3. /\ Sound(tr') /\ tr'.done /\ ~tr'.errored /\ tr'.out.phase = "stopped"
        /\ tr'.out.content = tr.out.content /\ tr'.out.open = {}
        /\ tr'.out.failed = tr.out.failed
    BY <1>1, <2>1, <2>2, FinishTurnSound
  <2>. QED BY <1>1, <2>1, <2>2, <2>3, CloseStep
<1>. QED BY <1>2, <1>3, <1>4 DEF StreamEnds

LEMMA SentSteps == ASSUME IInv, Sent PROVE IInv' /\ TurnStep
<1>1. /\ tr \in Translator /\ tr.out \in ClientView /\ Sound(tr) /\ DoneAgrees(tr)
      /\ said \in TextClass /\ ending \in {"none", "completed", "incomplete"}
      /\ pc = "sending" /\ ~tr.done /\ ~tr.errored /\ tr.out.phase # "stopped"
      /\ tr.out.failed = FALSE
  BY DEF IInv, Sound, Translator, ControlOK, Sent, SendAccepted, SendRefused, TurnAgrees,
         DoneAgrees, ClientView
<1>2. CASE SendAccepted
  <2> DEFINE hold == round < MaxRounds
  <2>1. /\ tr' = [tr EXCEPT !.holdOpen = hold] /\ said' = "empty" /\ ending' = "none"
        /\ pc' = "reading" /\ round' = round
    BY <1>2 DEF SendAccepted
  <2>2. hold \in BOOLEAN
    OBVIOUS
  <2> HIDE DEF hold
  <2>3. /\ tr' \in Translator /\ tr'.started = tr.started /\ tr'.nextIndex = tr.nextIndex
        /\ tr'.open = tr.open /\ tr'.madeToolCall = tr.madeToolCall /\ tr'.stop = tr.stop
        /\ tr'.out = tr.out /\ tr'.done = tr.done /\ tr'.errored = tr.errored
    BY <1>1, <2>1, <2>2 DEF Translator
  <2>4. Sound(tr')
    BY <1>1, <2>3, SoundDependsOn
  <2>5. IInv'
    BY <1>1, <2>1, <2>3, <2>4 DEF IInv, DoneAgrees, ControlOK, TurnAgrees, TextClass
  <2>6. TurnStep
    BY <1>1, <2>1, <2>3 DEF TurnStep, Turn!vars
  <2>. QED BY <2>5, <2>6
<1>3. CASE SendRefused
  <2>1. /\ tr' = FinishTurn(tr) /\ pc' = "ended" /\ UNCHANGED <<round, said, ending>>
    BY <1>3 DEF SendRefused
  <2>2. /\ Sound(tr') /\ tr'.done /\ ~tr'.errored /\ tr'.out.phase = "stopped"
        /\ tr'.out.content = tr.out.content /\ tr'.out.open = {}
        /\ tr'.out.failed = tr.out.failed
    BY <1>1, <2>1, FinishTurnSound
  <2>. QED BY <1>1, <2>1, <2>2, CloseStep
<1>. QED BY <1>2, <1>3, <1>1 DEF Sent

LEMMA HangUpStep == ASSUME IInv, HangUp PROVE IInv' /\ TurnStep
<1>1. pc \in {"reading", "sending"} /\ pc' = "gone" /\ UNCHANGED <<tr, round, said, ending>>
  BY DEF HangUp
<1>2. IInv'
  BY <1>1 DEF IInv, DoneAgrees, ControlOK, TurnAgrees
<1>3. TurnStep
  BY <1>1 DEF TurnStep, Turn!Next, Turn!Leave, Turn!vars
<1>. QED BY <1>2, <1>3

LEMMA InitIInv == Init => IInv /\ Turn!Init
<1> SUFFICES ASSUME Init PROVE IInv /\ Turn!Init
  OBVIOUS
<1> USE BoundsAssumption
<1> DEFINE hold == 0 < MaxRounds
<1>1. /\ tr = [New EXCEPT !.holdOpen = hold] /\ round = 0 /\ said = "empty"
      /\ pc = "reading" /\ ending = "none" /\ hold \in BOOLEAN
  BY DEF Init
<1> HIDE DEF hold
<1>2. NothingReceived \in ClientView
  BY DEF NothingReceived, ClientView, Phase, BlockKind, StopReason
<1>3. /\ tr \in Translator /\ tr.out = NothingReceived /\ tr.nextIndex = 0
      /\ ~tr.started /\ ~tr.done /\ ~tr.errored /\ ~tr.madeToolCall
      /\ tr.open = [o \in OutputIndex |-> NoBlock]
  BY <1>1, <1>2 DEF New, Translator, Open, Kind, NoBlock, StopReason, TextClass
<1>4. LiveOutputs(tr) = {} /\ Indices(tr, LiveOutputs(tr)) = {}
  BY <1>3 DEF LiveOutputs, IsOpen, NoBlock, Indices
<1>5. /\ tr.out.content = <<>> /\ tr.out.open = {} /\ tr.out.whole = {}
      /\ tr.out.phase = "empty" /\ tr.out.failed = FALSE
  BY <1>3 DEF NothingReceived
<1>6. Sound(tr)
  <2>1. BlocksAgree(tr)
    BY <1>3, <1>4, <1>5 DEF BlocksAgree
  <2>2. PhaseAgrees(tr) /\ ToolsAgree(tr)
    BY <1>3, <1>4, <1>5 DEF PhaseAgrees, ToolsAgree, HasTool
  <2>. QED BY <1>3, <2>1, <2>2 DEF Sound
<1>7. IInv
  BY <1>1, <1>3, <1>5, <1>6 DEF IInv, DoneAgrees, ControlOK, TurnAgrees, TextClass
<1>8. Turn!Init
  BY <1>1, <1>5 DEF Turn!Init
<1>. QED BY <1>7, <1>8

LEMMA NextIInv == IInv /\ [Next]_vars => IInv' /\ TurnStep
<1> SUFFICES ASSUME IInv, [Next]_vars PROVE IInv' /\ TurnStep
  OBVIOUS
<1>1. CASE UNCHANGED vars
  <2>1. IInv'
    BY <1>1 DEF vars, IInv, DoneAgrees, ControlOK, TurnAgrees
  <2>2. TurnStep
    BY <1>1 DEF vars, TurnStep, Turn!vars
  <2>. QED BY <2>1, <2>2
<1>. QED BY <1>1, EventSteps, TransportErrorStep, StreamEndsSteps, SentSteps, HangUpStep DEF Next

-----------------------------------------------------------------------------
(* The theorems.                                                           *)

\* The translator and the client keep two agreeing records of the message, in
\* every reachable state of continued_stream and of translate.
THEOREM Invariance == Spec => []IInv
<1>1. Init => IInv
  BY InitIInv
<1>2. IInv /\ [Next]_vars => IInv'
  BY NextIInv
<1>. QED BY <1>1, <1>2, PTL DEF Spec

\* Type correctness of the translator and its driver.
THEOREM TypeCorrect == Spec => []TypeOK
<1>1. IInv => TypeOK
  BY DEF IInv, Sound, ControlOK, TypeOK
<1>. QED BY <1>1, Invariance, PTL

\* No order of provider events makes the translator send a frame the client
\* cannot accept.
THEOREM ContractKept == Spec => []WireContract
<1>1. IInv => WireContract
  BY DEF IInv, Sound, PhaseAgrees, WireContract
<1>. QED BY <1>1, Invariance, PTL

\* A delivered tool call is never reported as end_turn, however many rounds
\* reset the stop reason.
THEOREM ToolCallsReported == Spec => []ToolCallsAreReported
<1>1. IInv => ToolCallsAreReported
  BY DEF IInv, Sound, ToolsAgree, HasTool, ToolCallsAreReported
<1>. QED BY <1>1, Invariance, PTL

\* A turn whose generator returned left the client a message_stop or an error.
THEOREM TurnsTerminated == Spec => []EndedTurnsAreTerminated
<1>1. IInv => EndedTurnsAreTerminated
  BY DEF IInv, TurnAgrees, EndedTurnsAreTerminated
<1>. QED BY <1>1, Invariance, PTL

\* continued_stream and translate implement AssistantTurn: every initial state
\* is one of its own, and every step one of its steps or a stutter.
THEOREM Refinement == Spec => ImplementsTurn
<1>1. Init => Turn!Init
  BY InitIInv
<1>2. IInv /\ [Next]_vars => [Turn!Next]_(Turn!vars)
  BY NextIInv DEF TurnStep
<1>. QED BY <1>1, <1>2, Invariance, PTL DEF Spec, ImplementsTurn, Turn!Spec

\* Once the client holds a tool call, the provider is not asked again.
THEOREM NoCallDuplicated == Spec => NoAskAfterToolCall
<1> DEFINE OnlyText == \A i \in 1..Len(tr'.out.content) : tr'.out.content[i] = "text"
<1>1. ASSUME IInv, Next, pc' = "sending" PROVE OnlyText
  <2>1. AskAgain
    BY <1>1 DEF Next, Event, Created, DoneSentinel, Failed, Terminal, OutputItemAdded,
         OutputTextDelta, ReasoningDelta, ArgumentsDelta, OutputItemDone, Reading,
         TransportError, StreamEnds, StreamEndsDone, StreamEndsTurn, Sent, SendAccepted,
         SendRefused, HangUp
  <2>2. ~tr.madeToolCall /\ ~tr.done /\ tr' = EndRound(tr)
    BY <2>1 DEF AskAgain, Continuable, ShouldContinue
  <2>3. Sound(tr) /\ tr.out.phase # "stopped"
    BY <1>1, <2>2 DEF IInv, DoneAgrees
  <2>4. tr'.out.content = tr.out.content
    BY <2>2, <2>3, EndRoundSound
  <2>. QED BY <2>2, <2>3, <2>4 DEF Sound, ToolsAgree, HasTool
<1>2. IInv /\ [Next]_vars => [pc' = "sending" => OnlyText]_vars
  BY <1>1
<1>. QED BY <1>2, Invariance, PTL DEF Spec, NoAskAfterToolCall
=============================================================================
