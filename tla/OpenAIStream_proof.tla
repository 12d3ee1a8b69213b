------------------------- MODULE OpenAIStream_proof -------------------------
(***************************************************************************)
(* Proofs about OpenAIStream, for every set of call indices and every      *)
(* number of blocks.                                                       *)
(***************************************************************************)
EXTENDS OpenAIStream, TLAPS, FiniteSetTheorems

-----------------------------------------------------------------------------
(* The inductive invariant: the one block the translator has open is the   *)
(* one the client has open.                                                *)

OpenIndices(t) == IF t.open.kind = "none" THEN {} ELSE {t.open.index}

BlockAgrees(t) ==
  /\ t.nextIndex = Len(t.out.content)
  /\ t.out.open = OpenIndices(t)
  /\ \A i \in OpenIndices(t) : /\ i < t.nextIndex /\ i \notin t.out.whole
                               /\ KindOf(t.out, i) = t.open.kind
  /\ \A i \in t.out.whole : i < t.nextIndex
  /\ t.open.call # NoCall <=> t.open.kind \in {"tool", "agent"}

PhaseAgrees(t) ==
  /\ t.out.phase \in {"empty", "open", "stopped"}
  /\ t.started <=> t.out.phase # "empty"
  /\ t.out.phase # "open" => t.open.kind = "none"

Sound(t) == t \in Translator /\ BlockAgrees(t) /\ PhaseAgrees(t)

DoneAgrees == tr.done <=> tr.out.phase = "stopped"

\* The call announced last has the open block, until something else comes.
CallAgrees ==
  /\ ~tr.done /\ current # NoCall => tr.open.call = current
  /\ orderly => ~strayed

TurnAgrees == pc = "reading" => ~tr.out.failed

IInv == TypeOK /\ Sound(tr) /\ DoneAgrees /\ CallAgrees /\ TurnAgrees

\* d is c after frames that neither end the message nor fail it.
Grown(c, d) ==
  /\ d.failed = c.failed
  /\ Len(c.content) <= Len(d.content)
  /\ \A i \in 1..Len(c.content) : d.content[i] = c.content[i]
  /\ d.open \subseteq c.open \cup Len(c.content)..(Len(d.content) - 1)

LEMMA GrownTransitive ==
  ASSUME NEW c \in ClientView, NEW d \in ClientView, NEW e \in ClientView,
         Grown(c, d), Grown(d, e)
  PROVE  Grown(c, e)
<1>1. /\ Len(c.content) \in Nat /\ Len(d.content) \in Nat /\ Len(e.content) \in Nat
      /\ c.open \subseteq Nat /\ d.open \subseteq Nat /\ e.open \subseteq Nat
  BY DEF ClientView
<1>2. \A i \in 1..Len(c.content) : e.content[i] = c.content[i]
  BY <1>1 DEF Grown
<1>3. e.open \subseteq c.open \cup Len(c.content)..(Len(e.content) - 1)
  BY <1>1 DEF Grown
<1>. QED BY <1>1, <1>2, <1>3 DEF Grown

\* What every method keeps.
Keeps(t, s) ==
  /\ s.done = t.done
  /\ t.started => s.started
  /\ t.out.phase = "open" => s.out.phase = "open"
  /\ Grown(t.out, s.out)

LEMMA KeepsTransitive ==
  ASSUME NEW t, NEW s, NEW u, Sound(t), Sound(s), Sound(u), Keeps(t, s), Keeps(s, u)
  PROVE  Keeps(t, u)
<1>1. t.out \in ClientView /\ s.out \in ClientView /\ u.out \in ClientView
  BY DEF Sound, Translator
<1>2. Grown(t.out, u.out)
  BY <1>1, GrownTransitive DEF Keeps
<1>. QED BY <1>2 DEF Keeps

-----------------------------------------------------------------------------
(* The translator's methods.                                               *)

LEMMA StartSound ==
  ASSUME NEW t, Sound(t)
  PROVE  /\ Sound(Start(t)) /\ Keeps(t, Start(t))
         /\ Start(t).open = t.open
         /\ Start(t).out.content = t.out.content
         /\ Start(t).out.phase =
              IF t.out.phase = "empty" THEN "open" ELSE t.out.phase
<1>1. t \in Translator /\ t.out \in ClientView
  BY DEF Sound, Translator
<1>2. CASE t.started
  BY <1>1, <1>2 DEF Start, Sound, Keeps, Grown, PhaseAgrees, ClientView
<1>3. CASE ~t.started
  <2> DEFINE out == MessageStart(t.out)
             s == [[t EXCEPT !.started = TRUE] EXCEPT !.out = out]
  <2>1. t.out.phase = "empty" /\ t.open.kind = "none"
    BY <1>3 DEF Sound, PhaseAgrees
  <2>2. /\ out \in ClientView /\ out.phase = "open" /\ out.content = t.out.content
        /\ out.open = t.out.open /\ out.whole = t.out.whole /\ out.failed = t.out.failed
    BY <1>1, <2>1 DEF MessageStart, ClientView, Phase
  <2> HIDE DEF out
  <2>3. /\ s \in Translator /\ s.started /\ s.done = t.done /\ s.open = t.open
        /\ s.nextIndex = t.nextIndex /\ s.out = out
    BY <1>1, <2>2 DEF Translator
  <2>4. Start(t) = s
    BY <1>3 DEF Start, out
  <2> HIDE DEF s
  <2>5. BlockAgrees(s)
    BY <2>2, <2>3 DEF Sound, BlockAgrees, OpenIndices, KindOf
  <2>6. PhaseAgrees(s)
    BY <2>1, <2>2, <2>3 DEF PhaseAgrees
  <2>7. Grown(t.out, s.out)
    BY <1>1, <2>2, <2>3 DEF Grown, ClientView
  <2>. QED BY <2>1, <2>2, <2>3, <2>4, <2>5, <2>6, <2>7 DEF Sound, Keeps
<1>. QED BY <1>2, <1>3

LEMMA CloseOpenSound ==
  ASSUME NEW t, Sound(t)
  PROVE  /\ Sound(CloseOpen(t)) /\ Keeps(t, CloseOpen(t))
         /\ CloseOpen(t).open.kind = "none"
         /\ CloseOpen(t).started = t.started
         /\ CloseOpen(t).out.phase = t.out.phase
         /\ CloseOpen(t).out.content = t.out.content
<1>1. t \in Translator /\ t.out \in ClientView /\ t.open \in Open /\ t.open.index \in Nat
  BY DEF Sound, Translator, Open
<1>2. CASE t.open.kind = "none"
  <2>1. CloseOpen(t) = t
    BY <1>2 DEF CloseOpen
  <2>. QED BY <1>1, <1>2, <2>1 DEF Keeps, Grown, ClientView
<1>3. CASE t.open.kind # "none"
  <2> DEFINE block == {t.open.index}
             mid == IF t.open.kind = "agent" THEN InputJsonWhole(t.out, block) ELSE t.out
             out == ContentBlockStops(mid, block)
             s == [[t EXCEPT !.open = NoBlock] EXCEPT !.out = out]
  <2>1. /\ block \in SUBSET Nat /\ t.out.open = block /\ t.out.phase = "open"
        /\ \A i \in block : /\ Streaming(t.out, i) /\ i \notin t.out.whole
                            /\ KindOf(t.out, i) = t.open.kind /\ i < t.nextIndex
    BY <1>1, <1>3 DEF Sound, BlockAgrees, PhaseAgrees, OpenIndices, Streaming
  <2> HIDE DEF block
  <2>2. /\ mid \in ClientView /\ mid.phase = t.out.phase /\ mid.content = t.out.content
        /\ mid.open = t.out.open /\ mid.failed = t.out.failed
        /\ mid.whole = t.out.whole \cup (IF t.open.kind = "agent" THEN block ELSE {})
    <3>1. InputJsonWhole(t.out, block) = [t.out EXCEPT !.whole = t.out.whole \cup block]
      BY <2>1 DEF InputJsonWhole
    <3>. QED BY <1>1, <2>1, <3>1 DEF ClientView
  <2> HIDE DEF mid
  <2>3. \A i \in block : Streaming(mid, i) /\ (KindOf(mid, i) = "agent" => i \in mid.whole)
    BY <2>1, <2>2 DEF Streaming, KindOf
  <2>4. /\ out \in ClientView /\ out.phase = t.out.phase /\ out.content = t.out.content
        /\ out.open = {} /\ out.failed = t.out.failed /\ out.whole = mid.whole
    <3>1. out = [mid EXCEPT !.open = mid.open \ block]
      BY <2>3 DEF ContentBlockStops
    <3>. QED BY <2>1, <2>2, <3>1 DEF ClientView
  <2>5. CloseOpen(t) = s
    BY <1>3 DEF CloseOpen, out, mid, block
  <2> HIDE DEF out
  <2>6. /\ s \in Translator /\ s.started = t.started /\ s.done = t.done
        /\ s.open = NoBlock /\ s.nextIndex = t.nextIndex /\ s.out = out
    BY <1>1, <2>4 DEF Translator, NoBlock, Open
  <2> HIDE DEF s
  <2>7. BlockAgrees(s)
    BY <2>1, <2>2, <2>4, <2>6 DEF Sound, BlockAgrees, OpenIndices, NoBlock
  <2>8. PhaseAgrees(s)
    BY <2>4, <2>6 DEF Sound, PhaseAgrees, NoBlock
  <2>9. Grown(t.out, s.out)
    BY <1>1, <2>4, <2>6 DEF Grown, ClientView
  <2>. QED BY <2>4, <2>5, <2>6, <2>7, <2>8, <2>9 DEF Sound, Keeps, NoBlock
<1>. QED BY <1>2, <1>3

LEMMA OpenBlockSound ==
  ASSUME NEW t, Sound(t), t.out.phase = "open", t.open.kind = "none",
         NEW kind \in BlockKind, NEW call \in CallIndex \cup {NoCall},
         call # NoCall <=> kind # "text"
  PROVE  /\ Sound(OpenBlock(t, kind, call)) /\ Keeps(t, OpenBlock(t, kind, call))
         /\ OpenBlock(t, kind, call).open.kind = kind
         /\ OpenBlock(t, kind, call).open.call = call
<1> DEFINE block == [index |-> t.nextIndex, kind |-> kind, call |-> call]
           out == ContentBlockStart(t.out, t.nextIndex, kind)
           s == [[[t EXCEPT !.nextIndex = t.nextIndex + 1] EXCEPT !.open = block]
                   EXCEPT !.out = out]
<1>1. /\ t \in Translator /\ t.out \in ClientView /\ t.nextIndex \in Nat
      /\ t.nextIndex = Len(t.out.content) /\ t.out.open = {}
      /\ t.out.content \in Seq(BlockKind)
  BY DEF Sound, Translator, BlockAgrees, OpenIndices, ClientView
<1>2. /\ out \in ClientView /\ out.phase = "open"
      /\ out.content = Append(t.out.content, kind) /\ out.open = t.out.open \cup {t.nextIndex}
      /\ out.whole = t.out.whole /\ out.failed = t.out.failed
  <2> DEFINE content == Append(t.out.content, kind)
             open == t.out.open \cup {t.nextIndex}
  <2>1. content \in Seq(BlockKind) /\ open \in SUBSET Nat
    BY <1>1 DEF ClientView
  <2>2. out = [[t.out EXCEPT !.content = content] EXCEPT !.open = open]
    BY <1>1 DEF ContentBlockStart
  <2> HIDE DEF content, open
  <2>3. /\ out \in ClientView /\ out.phase = "open" /\ out.content = content
        /\ out.open = open /\ out.whole = t.out.whole /\ out.failed = t.out.failed
    BY <1>1, <2>1, <2>2 DEF ClientView
  <2>. QED BY <2>3 DEF content, open
<1>3. /\ block \in Open /\ block.index = t.nextIndex /\ block.kind = kind /\ block.call = call
  BY <1>1 DEF Open
<1>4. OpenBlock(t, kind, call) = s
  BY DEF OpenBlock
<1> HIDE DEF block, out
<1>4a. t.nextIndex + 1 \in Nat
  BY <1>1
<1>4b. [t EXCEPT !.nextIndex = t.nextIndex + 1] \in Translator
  BY <1>1, <1>4a DEF Translator
<1>5. /\ s \in Translator /\ s.started = t.started /\ s.done = t.done /\ s.open = block
      /\ s.nextIndex = t.nextIndex + 1 /\ s.out = out
  BY <1>1, <1>2, <1>3, <1>4a, <1>4b DEF Translator
<1> HIDE DEF s
<1>6. /\ Len(s.out.content) = Len(t.out.content) + 1
      /\ \A i \in 1..Len(t.out.content) : s.out.content[i] = t.out.content[i]
      /\ s.out.content[t.nextIndex + 1] = kind
  BY <1>1, <1>2, <1>5
<1>7. OpenIndices(s) = {t.nextIndex} /\ s.out.open = {t.nextIndex}
  BY <1>1, <1>2, <1>3, <1>5 DEF OpenIndices, BlockKind
<1>8. \A i \in t.out.whole : i \in Nat /\ i < t.nextIndex
  BY <1>1 DEF Sound, BlockAgrees, ClientView
<1>9. BlockAgrees(s)
  <2>1. s.nextIndex = Len(s.out.content)
    BY <1>1, <1>5, <1>6
  <2>2. t.nextIndex < s.nextIndex /\ t.nextIndex \notin s.out.whole
    BY <1>1, <1>2, <1>5, <1>8
  <2>3. KindOf(s.out, t.nextIndex) = s.open.kind
    BY <1>3, <1>5, <1>6 DEF KindOf
  <2>4. \A i \in s.out.whole : i < s.nextIndex
    BY <1>1, <1>2, <1>5, <1>8
  <2>5. s.open.call # NoCall <=> s.open.kind \in {"tool", "agent"}
    BY <1>3, <1>5 DEF BlockKind
  <2>. QED BY <1>7, <2>1, <2>2, <2>3, <2>4, <2>5 DEF BlockAgrees
<1>10. PhaseAgrees(s)
  BY <1>2, <1>5 DEF Sound, PhaseAgrees
<1>11. Grown(t.out, s.out)
  BY <1>1, <1>2, <1>5, <1>6, <1>7 DEF Grown
<1>. QED BY <1>2, <1>3, <1>4, <1>5, <1>9, <1>10, <1>11 DEF Sound, Keeps

\* A new block after the one that was open.
LEMMA NextBlockSound ==
  ASSUME NEW t, Sound(t), t.out.phase = "open",
         NEW kind \in BlockKind, NEW call \in CallIndex \cup {NoCall},
         call # NoCall <=> kind # "text"
  PROVE  /\ Sound(OpenBlock(CloseOpen(t), kind, call))
         /\ Keeps(t, OpenBlock(CloseOpen(t), kind, call))
         /\ OpenBlock(CloseOpen(t), kind, call).open.kind = kind
         /\ OpenBlock(CloseOpen(t), kind, call).open.call = call
<1>1. /\ Sound(CloseOpen(t)) /\ Keeps(t, CloseOpen(t))
      /\ CloseOpen(t).open.kind = "none" /\ CloseOpen(t).out.phase = "open"
  BY CloseOpenSound
<1>2. /\ Sound(OpenBlock(CloseOpen(t), kind, call))
      /\ Keeps(CloseOpen(t), OpenBlock(CloseOpen(t), kind, call))
      /\ OpenBlock(CloseOpen(t), kind, call).open.kind = kind
      /\ OpenBlock(CloseOpen(t), kind, call).open.call = call
  BY <1>1, OpenBlockSound
<1>. QED BY <1>1, <1>2, KeepsTransitive

LEMMA OnTextSound ==
  ASSUME NEW t, Sound(t), t.out.phase = "open"
  PROVE  /\ Sound(OnText(t)) /\ Keeps(t, OnText(t))
         /\ OnText(t).open.call = NoCall
<1> DEFINE s == Ensure(t)
<1>1. Sound(s) /\ Keeps(t, s) /\ s.open.kind = "text" /\ s.out.phase = "open"
  <2>1. CASE t.open.kind = "text"
    BY <2>1 DEF Ensure, Keeps, Grown, Sound, Translator, ClientView
  <2>2. CASE t.open.kind # "text"
    BY <2>2, NextBlockSound DEF Ensure, BlockKind, Keeps
  <2>. QED BY <2>1, <2>2
<1> HIDE DEF s
<1>2. s.open.index \in s.out.open /\ KindOf(s.out, s.open.index) = "text"
  BY <1>1 DEF Sound, BlockAgrees, OpenIndices
<1>3. TextDelta(s.out, s.open.index) = s.out
  BY <1>1, <1>2 DEF TextDelta, Streaming
<1>4. OnText(t) = s
  BY <1>1, <1>3 DEF OnText, s, Sound, Translator
<1>. QED BY <1>1, <1>4 DEF Sound, BlockAgrees

LEMMA AnnounceSound ==
  ASSUME NEW t, Sound(t), t.out.phase = "open", NEW c \in ToolCall
  PROVE  /\ Sound(Announce(t, c)) /\ Keeps(t, Announce(t, c))
         /\ Announce(t, c).open.call =
              IF c.announces # "nothing" THEN c.call ELSE t.open.call
<1>1. /\ c.call \in CallIndex /\ c.call # NoCall
      /\ c.announces # "nothing" => c.announces \in BlockKind \ {"text"}
  BY CallAssumption DEF ToolCall, BlockKind
<1>2. CASE c.announces # "nothing" /\ t.open.call # c.call
  BY <1>1, <1>2, NextBlockSound DEF Announce
<1>3. CASE ~(c.announces # "nothing" /\ t.open.call # c.call)
  BY <1>3 DEF Announce, Keeps, Grown, Sound, Translator, ClientView
<1>. QED BY <1>2, <1>3

LEMMA OnToolCallSound ==
  ASSUME NEW t, Sound(t), t.out.phase = "open", NEW c \in ToolCall
  PROVE  OnToolCall(t, c) = Announce(t, c)
<1> DEFINE s == Announce(t, c)
<1>1. Sound(s) /\ s.out.phase = "open"
  BY AnnounceSound DEF Keeps
<1> HIDE DEF s
<1>2. CASE c.fragment /\ s.open.kind = "tool"
  <2>1. s.open.index \in s.out.open /\ KindOf(s.out, s.open.index) = "tool"
    BY <1>1, <1>2 DEF Sound, BlockAgrees, OpenIndices
  <2>2. s.out \in ClientView
    BY <1>1 DEF Sound, Translator
  <2>3. InputJsonDelta(s.out, s.open.index) = s.out
    BY <1>1, <2>1, <2>2 DEF InputJsonDelta, Streaming
  <2>. QED BY <1>1, <1>2, <2>3 DEF OnToolCall, s, Sound, Translator
<1>3. CASE ~(c.fragment /\ s.open.kind = "tool")
  BY <1>3 DEF OnToolCall, s
<1>. QED BY <1>2, <1>3

LEMMA EndedSound ==
  ASSUME NEW t, Sound(t), NEW reason \in FinishReason
  PROVE  /\ Sound(Ended(t, reason)) /\ Keeps(t, Ended(t, reason))
         /\ Ended(t, reason).open = t.open
<1> DEFINE s == Ended(t, reason)
<1>1. t \in Translator
  BY DEF Sound
<1>2. stop_reason(reason) \in StopReason
  BY DEF stop_reason, StopReason
<1>3. /\ s \in Translator /\ s.started = t.started /\ s.done = t.done
      /\ s.open = t.open /\ s.nextIndex = t.nextIndex /\ s.out = t.out
  BY <1>1, <1>2 DEF Ended, Translator
<1> HIDE DEF s
<1>4. Sound(s)
  BY <1>3 DEF Sound, BlockAgrees, PhaseAgrees, OpenIndices
<1>5. Keeps(t, s)
  BY <1>1, <1>3 DEF Keeps, Grown, Translator, ClientView
<1>. QED BY <1>3, <1>4, <1>5 DEF s

\* Finish closes the message of a translator that is not done.
LEMMA FinishSound ==
  ASSUME NEW t, Sound(t), ~t.done, t.out.phase # "stopped"
  PROVE  /\ Sound(Finish(t)) /\ Finish(t).done
         /\ Finish(t).out.phase = "stopped"
         /\ Finish(t).out.content = t.out.content
         /\ Finish(t).out.open = {}
         /\ Finish(t).out.failed = t.out.failed
<1> DEFINE d == [t EXCEPT !.done = TRUE]
           s == CloseOpen(Start(d))
           out == MessageStop(MessageDelta(s.out, s.stop))
           f == [s EXCEPT !.out = out]
<1>1. /\ d \in Translator /\ d.done /\ d.started = t.started /\ d.open = t.open
      /\ d.nextIndex = t.nextIndex /\ d.out = t.out
  BY DEF Sound, Translator
<1> HIDE DEF d
<1>2. Sound(d)
  BY <1>1 DEF Sound, BlockAgrees, PhaseAgrees, OpenIndices
<1>3. /\ Sound(Start(d)) /\ Start(d).out.phase = "open" /\ Start(d).done
      /\ Start(d).out.content = t.out.content /\ Start(d).out.failed = t.out.failed
  BY <1>1, <1>2, StartSound DEF Sound, PhaseAgrees, Keeps, Grown
<1>4. /\ Sound(s) /\ s.open.kind = "none" /\ s.out.phase = "open" /\ s.done
      /\ s.out.content = t.out.content /\ s.out.failed = t.out.failed
  BY <1>3, CloseOpenSound DEF Keeps, Grown
<1> HIDE DEF s
<1>5. s \in Translator /\ s.out \in ClientView /\ s.stop \in StopReason /\ s.out.open = {}
  BY <1>4 DEF Sound, Translator, BlockAgrees, OpenIndices
<1>6. /\ out \in ClientView /\ out.phase = "stopped" /\ out.content = s.out.content
      /\ out.open = {} /\ out.whole = s.out.whole /\ out.failed = s.out.failed
  <2> DEFINE closing == MessageDelta(s.out, s.stop)
  <2>1. closing = [[s.out EXCEPT !.phase = "closing"] EXCEPT !.stop = s.stop]
    BY <1>4, <1>5 DEF MessageDelta
  <2>2. /\ closing \in ClientView /\ closing.phase = "closing" /\ closing.open = {}
        /\ closing.content = s.out.content /\ closing.whole = s.out.whole
        /\ closing.failed = s.out.failed
    BY <1>5, <2>1 DEF ClientView, Phase
  <2>3. out = [closing EXCEPT !.phase = "stopped"]
    BY <2>2 DEF MessageStop
  <2> HIDE DEF closing
  <2>. QED BY <2>2, <2>3 DEF ClientView, Phase
<1> HIDE DEF out
<1>7. /\ f \in Translator /\ f.done = s.done /\ f.started = s.started /\ f.open = s.open
      /\ f.nextIndex = s.nextIndex /\ f.out = out
  BY <1>5, <1>6 DEF Translator
<1>8. Finish(t) = f
  BY DEF Finish, s, d, out
<1> HIDE DEF f
<1>9. BlockAgrees(f)
  BY <1>4, <1>5, <1>6, <1>7 DEF Sound, BlockAgrees, OpenIndices, KindOf
<1>10. PhaseAgrees(f)
  BY <1>4, <1>6, <1>7 DEF Sound, PhaseAgrees
<1>. QED BY <1>4, <1>6, <1>7, <1>8, <1>9, <1>10 DEF Sound

-----------------------------------------------------------------------------
(* The actions.                                                            *)

TurnStep == [Turn!Next]_(Turn!vars)

LEMMA InitIInv == Init => IInv /\ Turn!Init
<1> SUFFICES ASSUME Init PROVE IInv /\ Turn!Init
  OBVIOUS
<1>1. /\ tr = New /\ pc = "reading" /\ current = NoCall /\ orderly = TRUE
      /\ strayed = FALSE
  BY DEF Init
<1>2. NothingReceived \in ClientView
  BY DEF NothingReceived, ClientView, Phase, StopReason
<1>3. tr \in Translator
  BY <1>1, <1>2 DEF New, Translator, NoBlock, Open, StopReason
<1>4. BlockAgrees(tr) /\ PhaseAgrees(tr)
  BY <1>1 DEF New, NothingReceived, NoBlock, BlockAgrees, PhaseAgrees, OpenIndices
<1>5. DoneAgrees /\ CallAgrees /\ TurnAgrees
  BY <1>1 DEF New, NothingReceived, DoneAgrees, CallAgrees, TurnAgrees
<1>6. Turn!Init
  BY <1>1 DEF Turn!Init, New, NothingReceived
<1>. QED BY <1>1, <1>3, <1>4, <1>5, <1>6 DEF IInv, TypeOK, Sound

\* A chunk taken by an unfinished translator streams more of the turn.
LEMMA ChunkStep ==
  ASSUME IInv, pc = "reading", ~tr.done,
         Sound(tr'), Keeps(Start(tr), tr'), pc' = pc,
         current' \in CallIndex \cup {NoCall}, orderly' \in BOOLEAN,
         strayed' \in BOOLEAN, CallAgrees'
  PROVE  IInv' /\ TurnStep
<1>1. /\ Sound(tr) /\ tr.out.phase \in {"empty", "open"} /\ tr.out.failed = FALSE
      /\ tr.out \in ClientView /\ tr'.out \in ClientView
  BY DEF IInv, DoneAgrees, TurnAgrees, Sound, PhaseAgrees, Translator, ClientView
<1>2. Sound(Start(tr)) /\ Keeps(tr, Start(tr)) /\ Start(tr).out.phase = "open"
  BY <1>1, StartSound
<1>3. Keeps(tr, tr') /\ tr'.out.phase = "open"
  <2>1. Keeps(tr, tr')
    BY <1>1, <1>2, KeepsTransitive
  <2>. QED BY <1>2, <2>1 DEF Keeps
<1>4. IInv'
  <2>1. tr'.done = tr.done /\ tr'.out.failed = tr.out.failed
    BY <1>3 DEF Keeps, Grown
  <2>2. DoneAgrees' /\ TurnAgrees'
    BY <1>1, <1>3, <2>1 DEF DoneAgrees, TurnAgrees
  <2>3. TypeOK'
    BY DEF TypeOK, IInv, Sound
  <2>. QED BY <2>2, <2>3 DEF IInv
<1>5. TurnStep
  <2>1. Grown(tr.out, tr'.out)
    BY <1>3 DEF Keeps
  <2>2. tr'.out.content \in Seq(Turn!BlockKind)
    BY <1>1 DEF ClientView, BlockKind, Turn!BlockKind
  <2>3. Turn!Stream
    BY <1>1, <1>3, <2>1, <2>2 DEF Turn!Stream, Grown
  <2>. QED BY <2>3 DEF TurnStep, Turn!Next
<1>. QED BY <1>4, <1>5

LEMMA ChunkSteps ==
  ASSUME IInv, NEW reason \in FinishReason,
         \/ TextChunk(reason) \/ FinishChunk(reason)
         \/ \E c \in ToolCall, hasText \in BOOLEAN : CallChunk(c, hasText, reason)
  PROVE  IInv' /\ TurnStep
<1>1. /\ pc = "reading" /\ ~tr.done /\ pc' = pc
  BY DEF TextChunk, FinishChunk, CallChunk
<1>2. /\ current \in CallIndex \cup {NoCall} /\ orderly \in BOOLEAN /\ strayed \in BOOLEAN
      /\ Sound(tr) /\ tr.out.phase # "stopped"
      /\ (current # NoCall => tr.open.call = current) /\ (orderly => ~strayed)
  BY <1>1 DEF IInv, TypeOK, DoneAgrees, CallAgrees
<1> DEFINE s == Start(tr)
<1>3. /\ Sound(s) /\ s.out.phase = "open" /\ s.open = tr.open
      /\ Keeps(s, s)
  <2>1. Sound(s) /\ s.out.phase = "open" /\ s.open = tr.open
    BY <1>2, StartSound DEF Sound, PhaseAgrees
  <2>. QED BY <2>1 DEF Keeps, Grown, Sound, Translator, ClientView
<1> HIDE DEF s
<1>4. CASE TextChunk(reason)
  <2>1. /\ Sound(OnText(s)) /\ Keeps(s, OnText(s))
    BY <1>3, OnTextSound
  <2>2. /\ tr' = Ended(OnText(s), reason) /\ current' = NoCall
        /\ UNCHANGED <<orderly, strayed>>
    BY <1>4 DEF TextChunk, s
  <2>3. Sound(tr') /\ Keeps(OnText(s), tr')
    BY <2>1, <2>2, EndedSound
  <2>4. Keeps(s, tr')
    BY <1>3, <2>1, <2>3, KeepsTransitive
  <2>5. CallAgrees'
    BY <1>2, <2>2 DEF CallAgrees
  <2>. QED BY <1>1, <1>2, <2>2, <2>3, <2>4, <2>5, ChunkStep DEF s
<1>5. CASE FinishChunk(reason)
  <2>1. tr' = Ended(s, reason) /\ UNCHANGED <<current, orderly, strayed>>
    BY <1>5 DEF FinishChunk, providerVars, s
  <2>2. Sound(tr') /\ Keeps(s, tr') /\ tr'.open = s.open
    BY <1>3, <2>1, EndedSound
  <2>3. CallAgrees'
    BY <1>2, <1>3, <2>1, <2>2 DEF CallAgrees
  <2>. QED BY <1>1, <1>2, <2>1, <2>2, <2>3, ChunkStep DEF s
<1>6. ASSUME NEW c \in ToolCall, NEW hasText \in BOOLEAN, CallChunk(c, hasText, reason)
      PROVE  IInv' /\ TurnStep
  <2> DEFINE u == IF hasText THEN OnText(s) ELSE s
             a == Announce(u, c)
  <2>1. /\ Sound(u) /\ u.out.phase = "open" /\ Keeps(s, u)
        /\ u.open.call = IF hasText THEN NoCall ELSE tr.open.call
    BY <1>3, OnTextSound DEF Keeps
  <2>2. /\ tr' = Ended(OnToolCall(u, c), reason)
        /\ current' = IF c.announces # "nothing" THEN c.call
                      ELSE IF hasText THEN NoCall ELSE current
        /\ orderly' = (orderly /\ (c.fragment => current' = c.call))
        /\ strayed' = (strayed \/ (c.fragment /\ a.open.call # c.call))
    BY <1>6 DEF CallChunk, s
  <2> HIDE DEF u
  <2>3. /\ Sound(a) /\ Keeps(u, a)
        /\ a.open.call = IF c.announces # "nothing" THEN c.call ELSE u.open.call
    BY <2>1, AnnounceSound
  <2>4. tr' = Ended(a, reason)
    BY <2>1, <2>2, OnToolCallSound
  <2> HIDE DEF a
  <2>5. Sound(tr') /\ Keeps(a, tr') /\ tr'.open = a.open
    BY <2>3, <2>4, EndedSound
  <2>6. Keeps(s, tr')
    <3>1. Keeps(s, a)
      BY <1>3, <2>1, <2>3, KeepsTransitive
    <3>. QED BY <1>3, <2>3, <2>5, <3>1, KeepsTransitive
  <2>7. c.call \in CallIndex /\ c.call # NoCall
    BY CallAssumption DEF ToolCall
  <2>8. current' # NoCall => a.open.call = current'
    BY <1>2, <2>1, <2>2, <2>3
  <2>9. CallAgrees'
    BY <1>2, <2>2, <2>5, <2>7, <2>8 DEF CallAgrees
  <2>. QED BY <1>1, <1>2, <2>2, <2>5, <2>6, <2>7, <2>9, ChunkStep DEF s
<1>. QED BY <1>4, <1>5, <1>6

LEMMA FinishStep ==
  ASSUME IInv, pc = "reading", tr' = Finish(tr), pc' \in {"reading", "ended"},
         UNCHANGED providerVars
  PROVE  IInv' /\ TurnStep
<1>1. /\ current' = current /\ orderly' = orderly /\ strayed' = strayed
      /\ Sound(tr) /\ tr.out.failed = FALSE
  BY DEF providerVars, IInv, TurnAgrees, Sound, Translator, ClientView
<1>2. CASE tr.done
  <2>1. tr' = tr
    BY <1>2 DEF Finish
  <2>2. IInv'
    BY <1>1, <2>1 DEF IInv, TypeOK, DoneAgrees, CallAgrees, TurnAgrees
  <2>3. TurnStep
    BY <2>1 DEF TurnStep, Turn!vars
  <2>. QED BY <2>2, <2>3
<1>3. CASE ~tr.done
  <2>1. tr.out.phase \in {"empty", "open"}
    BY <1>1, <1>3 DEF IInv, DoneAgrees, Sound, PhaseAgrees
  <2>2. /\ Sound(tr') /\ tr'.done /\ tr'.out.phase = "stopped"
        /\ tr'.out.content = tr.out.content /\ tr'.out.open = {}
        /\ tr'.out.failed = tr.out.failed
    BY <1>1, <1>3, <2>1, FinishSound
  <2>3. IInv'
    BY <1>1, <2>2 DEF IInv, TypeOK, DoneAgrees, CallAgrees, TurnAgrees, Sound
  <2>4. TurnStep
    BY <2>1, <2>2 DEF TurnStep, Turn!Next, Turn!Close
  <2>. QED BY <2>3, <2>4
<1>. QED BY <1>2, <1>3

LEMMA TransportErrorStep == ASSUME IInv, TransportError PROVE IInv' /\ TurnStep
<1> DEFINE out == ErrorFrame(tr.out)
<1>1. /\ pc = "reading" /\ tr' = [tr EXCEPT !.out = out] /\ pc' = "ended"
      /\ current' = current /\ orderly' = orderly /\ strayed' = strayed
      /\ Sound(tr) /\ tr \in Translator /\ tr.out \in ClientView
  BY DEF TransportError, providerVars, IInv, Sound, Translator
<1>2. /\ out \in ClientView /\ out.phase = tr.out.phase /\ out.content = tr.out.content
      /\ out.open = tr.out.open /\ out.whole = tr.out.whole /\ out.failed = TRUE
  BY <1>1 DEF ErrorFrame, ClientView
<1> HIDE DEF out
<1>3. /\ tr' \in Translator /\ tr'.started = tr.started /\ tr'.done = tr.done
      /\ tr'.open = tr.open /\ tr'.nextIndex = tr.nextIndex /\ tr'.out = out
  BY <1>1, <1>2 DEF Translator
<1>4. Sound(tr')
  BY <1>1, <1>2, <1>3 DEF Sound, BlockAgrees, PhaseAgrees, OpenIndices, KindOf
<1>5. IInv'
  BY <1>1, <1>2, <1>3, <1>4 DEF IInv, TypeOK, DoneAgrees, CallAgrees, TurnAgrees
<1>6. TurnStep
  BY <1>1, <1>2, <1>3 DEF TurnStep, Turn!Next, Turn!Fail
<1>. QED BY <1>5, <1>6

LEMMA HangUpStep == ASSUME IInv, HangUp PROVE IInv' /\ TurnStep
<1>1. /\ pc' = "gone" /\ tr' = tr
      /\ current' = current /\ orderly' = orderly /\ strayed' = strayed
  BY DEF HangUp, providerVars
<1>2. IInv'
  BY <1>1 DEF IInv, TypeOK, DoneAgrees, CallAgrees, TurnAgrees
<1>3. TurnStep
  BY <1>1 DEF TurnStep, Turn!Next, Turn!Leave
<1>. QED BY <1>2, <1>3

LEMMA NextIInv == IInv /\ [Next]_vars => IInv' /\ TurnStep
<1> SUFFICES ASSUME IInv, [Next]_vars PROVE IInv' /\ TurnStep
  OBVIOUS
<1>1. CASE UNCHANGED vars
  <2>1. /\ tr' = tr /\ pc' = pc
        /\ current' = current /\ orderly' = orderly /\ strayed' = strayed
    BY <1>1 DEF vars
  <2>2. IInv'
    BY <2>1 DEF IInv, TypeOK, DoneAgrees, CallAgrees, TurnAgrees
  <2>3. TurnStep
    BY <2>1 DEF TurnStep, Turn!vars
  <2>. QED BY <2>2, <2>3
<1>2. CASE DoneSentinel \/ StreamEnds
  BY <1>2, FinishStep DEF DoneSentinel, StreamEnds
<1>3. CASE TransportError
  BY <1>3, TransportErrorStep
<1>4. CASE HangUp
  BY <1>4, HangUpStep
<1>5. ASSUME NEW reason \in FinishReason,
             \/ TextChunk(reason) \/ FinishChunk(reason)
             \/ \E c \in ToolCall, hasText \in BOOLEAN : CallChunk(c, hasText, reason)
      PROVE  IInv' /\ TurnStep
  BY <1>5, ChunkSteps
<1>. QED BY <1>1, <1>2, <1>3, <1>4, <1>5 DEF Next

-----------------------------------------------------------------------------
\* The translator and the client agree on the one open block, always.
THEOREM Invariance == Spec => []IInv
<1>1. Init => IInv
  BY InitIInv
<1>2. IInv /\ [Next]_vars => IInv'
  BY NextIInv
<1>. QED BY <1>1, <1>2, PTL DEF Spec

\* Every reachable state is of the declared type.
THEOREM TypeCorrect == Spec => []TypeOK
<1>1. IInv => TypeOK
  BY DEF IInv
<1>. QED BY <1>1, Invariance, PTL

\* Whatever chunks the provider sends, the client accepts every frame and has
\* at most one block open.
THEOREM ContractKept == Spec => []WireContract
<1>1. IInv => WireContract
  <2> SUFFICES ASSUME IInv PROVE WireContract
    OBVIOUS
  <2>1. tr.out.phase # "broken" /\ tr.out.open = OpenIndices(tr)
    BY DEF IInv, Sound, PhaseAgrees, BlockAgrees
  <2>2. CASE tr.open.kind = "none"
    BY <2>1, <2>2, FS_EmptySet DEF OpenIndices, WireContract
  <2>3. CASE tr.open.kind # "none"
    <3>1. tr.out.open = {tr.open.index}
      BY <2>1, <2>3 DEF OpenIndices
    <3>2. Cardinality({tr.open.index}) = 1
      BY FS_Singleton
    <3>. QED BY <2>1, <3>1, <3>2 DEF WireContract
  <2>. QED BY <2>2, <2>3
<1>. QED BY <1>1, Invariance, PTL

\* A provider that keeps the arguments of its calls together has them
\* delivered to their calls.
THEOREM ArgumentsDelivered == Spec => []ArgumentsReachTheirCall
<1>1. IInv => ArgumentsReachTheirCall
  BY DEF IInv, CallAgrees, ArgumentsReachTheirCall
<1>. QED BY <1>1, Invariance, PTL

\* The translator implements AssistantTurn.
THEOREM Refinement == Spec => ImplementsTurn
<1>1. Init => Turn!Init
  BY InitIInv
<1>2. IInv /\ [Next]_vars => [Turn!Next]_(Turn!vars)
  BY NextIInv DEF TurnStep
<1>. QED BY <1>1, <1>2, Invariance, PTL DEF Spec, ImplementsTurn, Turn!Spec
=============================================================================
