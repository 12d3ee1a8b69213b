---------------------------- MODULE Telling_proof ----------------------------
(***************************************************************************)
(* More about Conversation, on the facts of Conversation_proof: that every *)
(* request tells its backend all that was said so far, and that its API    *)
(* accepts it, whatever the request was made of, for every set of          *)
(* backends, of texts and of ids, and for conversations and replies of any *)
(* length.                                                                 *)
(***************************************************************************)
EXTENDS Conversation_proof

-----------------------------------------------------------------------------
(* Events that are the same on every track, and quiet ones.                *)
EventTracks == {OfKind({"words"}), OfKind({"call", "result"}), OfKind({"thought"}), OfUser}
Alike(a, b) == \A Q \in EventTracks : Selected(Q, a) = Selected(Q, b)

\* The words that make a request a compaction.
Loud == {e \in SaidEvent : e.kind = "words" /\ e.text = <<CompactPhrase>>}
Quiet(events) == ~Has(Loud, events)

LEMMA AlikeIsCongruence ==
  ASSUME NEW a \in Seq(SaidEvent), NEW b \in Seq(SaidEvent),
         NEW c \in Seq(SaidEvent), NEW d \in Seq(SaidEvent), Alike(a, b), Alike(c, d)
  PROVE  Alike(a \o c, b \o d)
<1>1. SUFFICES ASSUME NEW Q \in EventTracks
               PROVE  Selected(Q, a \o c) = Selected(Q, b \o d)
  BY DEF Alike
<1>2. \A s, t \in Seq(SaidEvent) : Selected(Q, s \o t) = Selected(Q, s) \o Selected(Q, t)
  BY SelectedLaws DEF SelectLaws
<1>3. Selected(Q, a) = Selected(Q, b) /\ Selected(Q, c) = Selected(Q, d)
  BY DEF Alike
<1>4. Selected(Q, a \o c) = Selected(Q, a) \o Selected(Q, c)
  BY <1>2
<1>5. Selected(Q, b \o d) = Selected(Q, b) \o Selected(Q, d)
  BY <1>2
<1>. QED BY <1>3, <1>4, <1>5

LEMMA AlikeIsEquivalence ==
  /\ \A a : Alike(a, a)
  /\ \A a, b : Alike(a, b) => Alike(b, a)
  /\ \A a, b, c : Alike(a, b) /\ Alike(b, c) => Alike(a, c)
BY DEF Alike

LEMMA LoudOnTracks ==
  ASSUME NEW a \in Seq(SaidEvent), NEW b \in Seq(SaidEvent), Alike(a, b)
  PROVE  Quiet(a) <=> Quiet(b)
<1> DEFINE W == OfKind({"words"})
<1>1. Loud \subseteq W
  BY DEF Loud, OfKind
<1>2. Selected(W, a) = Selected(W, b)
  BY DEF Alike, EventTracks
<1> HIDE DEF W
<1>3. Count(Loud, a) = Count(Loud, b)
  <2>1. Count(Loud, Selected(W, a)) = Count(Loud, a)
    BY <1>1, CountSelected
  <2>2. Count(Loud, Selected(W, b)) = Count(Loud, b)
    BY <1>1, CountSelected
  <2>. QED BY <1>2, <2>1, <2>2
<1>4. Count(Loud, a) = 0 <=> ~Has(Loud, a)
  BY CountHas
<1>5. Count(Loud, b) = 0 <=> ~Has(Loud, b)
  BY CountHas
<1>. QED BY <1>3, <1>4, <1>5 DEF Quiet

LEMMA QuietProperties ==
  /\ Quiet(<<>>)
  /\ \A a, b \in Seq(SaidEvent) : Quiet(a \o b) <=> Quiet(a) /\ Quiet(b)
  /\ \A e \in SaidEvent : Quiet(<<e>>) <=> e \notin Loud
BY HasProperties DEF Quiet

\* A text has the phrase if and only if its events do.
LEMMA WordsAreLoud ==
  ASSUME NEW side \in Side, NEW s \in Text
  PROVE  Quiet(WordEvents(side, s)) <=> CompactPhrase \notin Range(s)
<1> DEFINE T == {t \in Text : Quiet(WordEvents(side, t)) <=> CompactPhrase \notin Range(t)}
<1>1. /\ WordEvents(side, <<>>) = <<>>
      /\ \A t \in Text : WordEvents(side, t) \in Seq(SaidEvent)
      /\ \A t, r \in Text : WordEvents(side, t \o r) = WordEvents(side, t) \o WordEvents(side, r)
  BY WordEventsConcat
<1>2. <<>> \in T
  <2>1. <<>> \in Text /\ Range(<<>>) = {}
    BY EmptySeq DEF Text, Range
  <2>. QED BY <1>1, <2>1, QuietProperties
<1>3. ASSUME NEW x \in Nat
      PROVE  Quiet(WordEvents(side, <<x>>)) <=> x # CompactPhrase
  <2> DEFINE one == <<x>>
             ev == WordEvents(side, one)
  <2>1. one \in Text /\ Words(one) = IF x # Blank THEN <<x>> ELSE <<>>
    BY WordsProperties, NumbersAreTexts
  <2>2. CASE x = Blank
    <3>1. ev = <<>>
      BY <2>1, <2>2 DEF WordEvents
    <3>. QED BY <2>2, <3>1, QuietProperties DEF Blank, CompactPhrase
  <2>3. CASE x # Blank
    <3> DEFINE e == Event(side, "words", <<x>>, <<>>)
    <3>1. ev = <<e>>
      BY <2>1, <2>3 DEF WordEvents
    <3>2. <<>> \in Text
      BY EmptySeq DEF Text
    <3>3. e \in SaidEvent /\ e.kind = "words" /\ e.text = <<x>>
      BY <2>1, <3>2, EventTyped
    <3>4. e \in Loud <=> x = CompactPhrase
      BY <3>3 DEF Loud
    <3> HIDE DEF e
    <3>. QED BY <3>1, <3>3, <3>4, QuietProperties
  <2>. QED BY <2>2, <2>3
<1>4. ASSUME NEW t \in Seq(Nat), NEW x \in Nat, t \in T
      PROVE  Append(t, x) \in T
  <2> DEFINE one == <<x>>
  <2>1. one \in Text /\ t \in Text /\ Append(t, x) = t \o one /\ Append(t, x) \in Text
    BY SeqSteps DEF SeqLaws, Text
  <2>2. CompactPhrase \in Range(Append(t, x)) <=> CompactPhrase \in Range(t) \/ x = CompactPhrase
    <3>1. /\ Len(Append(t, x)) = Len(t) + 1 /\ Append(t, x)[Len(t) + 1] = x
          /\ \A i \in 1..Len(t) : Append(t, x)[i] = t[i]
          /\ DOMAIN t = 1..Len(t) /\ DOMAIN Append(t, x) = 1..Len(t) + 1 /\ Len(t) \in Nat
      BY AppendProperties
    <3>. QED BY <3>1 DEF Range
  <2>3. Quiet(WordEvents(side, one)) <=> x # CompactPhrase
    BY <1>3
  <2> HIDE DEF one
  <2>4. WordEvents(side, t \o one) = WordEvents(side, t) \o WordEvents(side, one)
    BY <1>1, <2>1
  <2>5. WordEvents(side, t) \in Seq(SaidEvent) /\ WordEvents(side, one) \in Seq(SaidEvent)
    BY <1>1, <2>1
  <2>6. Quiet(WordEvents(side, t) \o WordEvents(side, one))
          <=> Quiet(WordEvents(side, t)) /\ Quiet(WordEvents(side, one))
    BY <2>5, QuietProperties
  <2>. QED BY <1>4, <2>1, <2>2, <2>3, <2>4, <2>6
<1> HIDE DEF T
<1>5. Seq(Nat) \subseteq T
  BY <1>2, <1>4, SequenceInduction
<1>. QED BY <1>5 DEF T, Text

LEMMA MappedHas ==
  ASSUME NEW D, NEW E, NEW g, Maps(g, D, E), NEW P, NEW s \in Seq(D)
  PROVE  Has(P, Mapped(g, s)) <=> \E i \in 1..Len(s) : Has(P, g[s[i]])
<1> DEFINE seqs == [i \in DOMAIN s |-> g[s[i]]]
<1>1. DOMAIN seqs = 1..Len(s) /\ seqs = [i \in DOMAIN seqs |-> seqs[i]] /\ Len(s) \in Nat
      /\ \A i \in 1..Len(s) : seqs[i] = g[s[i]] /\ g[s[i]] \in Seq(E)
  BY DEF Maps
<1> HIDE DEF seqs
<1>2. seqs \in Seq(Seq(E)) /\ Len(seqs) = Len(s)
  BY <1>1, FunctionIsSeq
<1>3. Has(P, FlattenSeq(seqs)) <=> \E i \in 1..Len(seqs) : Has(P, seqs[i])
  BY <1>2, FlattenHas
<1>. QED BY <1>1, <1>2, <1>3 DEF Mapped, seqs

\* What a conversation asks for is heard in what it tells.
LEMMA LoudIsHeard ==
  ASSUME NEW u \in Seq(Utterance), NEW i \in DOMAIN u, u[i].kind = "words",
         CompactPhrase \in Range(u[i].text)
  PROVE  ~Quiet(EventsOf(u))
<1> DEFINE L == {x \in Utterance : x.kind = "words" /\ CompactPhrase \in Range(x.text)}
           T == {v \in Seq(Utterance) : Has(L, v) => ~Quiet(EventsOf(v))}
<1>1. <<>> \in T
  BY EmptySeq, HasProperties
<1>2. ASSUME NEW v \in Seq(Utterance), NEW x \in Utterance, v \in T
      PROVE  Append(v, x) \in T
  <2>1. Append(v, x) \in Seq(Utterance)
    BY AppendProperties
  <2>2. /\ EventsOf(v) \in Seq(SaidEvent) /\ Meaning(v, x) \in Seq(SaidEvent)
        /\ EventsOf(Append(v, x)) = EventsOf(v) \o Meaning(v, x)
    BY EventsOfAppend
  <2>3. Has(L, Append(v, x)) <=> Has(L, v) \/ x \in L
    BY HasProperties
  <2>4. ASSUME x \in L PROVE ~Quiet(Meaning(v, x))
    <3>1. x.side \in Side /\ x.text \in Text
      BY UtteranceParts
    <3>2. Meaning(v, x) = WordEvents(x.side, x.text)
      BY <2>4 DEF Meaning, MeaningAfter
    <3>. QED BY <2>4, <3>1, <3>2, WordsAreLoud
  <2> HIDE DEF L
  <2>. QED BY <1>2, <2>1, <2>2, <2>3, <2>4, QuietProperties
<1>3. Has(L, u)
  BY DEF Has
<1> HIDE DEF T, L
<1>4. Seq(Utterance) \subseteq T
  BY <1>1, <1>2, SequenceInduction
<1>. QED BY <1>3, <1>4 DEF T

-----------------------------------------------------------------------------
(* The client's steps, in what they tell.                                  *)

\* The answers, one for each call, in the order of the calls.
Answers(results, calls) ==
  /\ Len(results) = Len(calls)
  /\ \A i \in 1..Len(calls) : results[i].id = calls[i].id

\* What stands beside the results leaves them as they are.
LEMMA ContentResults ==
  ASSUME NEW results \in Seq(Results), results # <<>>, NEW g \in ContentBlock, g.type = "text",
         NEW place
  PROVE  LET content ==
               CASE place = "none" -> results
                 [] place = "before" -> <<g>> \o results
                 [] place = "between" -> <<results[1]>> \o <<g>> \o Tail(results)
                 [] OTHER -> results \o <<g>>
         IN  OfType(content, "tool_result") = results
<1> DEFINE one == <<g>>
           first == <<results[1]>>
           rest == Tail(results)
<1>1. results \in Seq(ContentBlock)
  BY DEF Results
<1>2. /\ \A s \in Seq(Results) : OfType(s, "tool_result") = s
      /\ \A s \in Seq(Results) : s \in Seq(ContentBlock)
  <2>1. ASSUME NEW s \in Seq(Results)
        PROVE  OfType(s, "tool_result") = s /\ s \in Seq(ContentBlock)
    <3>1. \A i \in DOMAIN s : s[i] \in Results
      OBVIOUS
    <3>2. s \in Seq(ContentBlock)
      BY DEF Results
    <3>3. Selected(Results, s) = s
      BY <3>1, SelectedWhole
    <3>4. [i \in DOMAIN s |-> IF s[i] \in Results THEN <<s[i]>> ELSE <<>>]
            = [i \in DOMAIN s |-> IF s[i].type = "tool_result" THEN <<s[i]>> ELSE <<>>]
      BY DEF Results
    <3>. QED BY <3>2, <3>3, <3>4 DEF Selected, OfType, Only
  <2>. QED BY <2>1
<1>3. results[1] \in Results /\ Len(results) \in Nat \ {0}
  BY EmptySeq
<1>4. one \in Seq(ContentBlock) /\ first \in Seq(Results) /\ rest \in Seq(Results)
  BY <1>3, SeqSteps DEF SeqLaws
<1>5. first \o rest = results
  <2>1. Len(rest) = Len(results) - 1 /\ \A i \in 1..(Len(results) - 1) : rest[i] = results[i + 1]
    BY <1>3
  <2>2. Len(first) = 1 /\ first[1] = results[1]
    OBVIOUS
  <2> HIDE DEF first, rest
  <2>3. /\ first \o rest \in Seq(Results) /\ Len(first \o rest) = Len(results)
        /\ \A i \in 1..Len(results) : (first \o rest)[i] = IF i = 1 THEN results[1] ELSE rest[i - 1]
    <3>1. /\ first \o rest \in Seq(Results) /\ Len(first \o rest) = Len(first) + Len(rest)
          /\ \A i \in 1..Len(first) + Len(rest) :
               (first \o rest)[i] = IF i <= Len(first) THEN first[i] ELSE rest[i - Len(first)]
      BY <1>4, ConcatProperties
    <3>2. Len(first) + Len(rest) = Len(results)
      BY <1>3, <2>1, <2>2
    <3>3. \A i \in 1..Len(results) : i <= 1 <=> i = 1
      BY <1>3
    <3>. QED BY <2>2, <3>1, <3>2, <3>3
  <2>4. \A i \in 1..Len(results) : (first \o rest)[i] = results[i]
    BY <1>3, <2>1, <2>3
  <2>. QED BY <2>3, <2>4, SeqEqual
<1>6. OfType(one, "tool_result") = <<>>
  BY OfTypeProperties
<1> HIDE DEF one, first, rest
<1>7. \A s, t \in Seq(ContentBlock) :
        OfType(s \o t, "tool_result") = OfType(s, "tool_result") \o OfType(t, "tool_result")
  BY OfTypeProperties
<1>8. \A s \in Seq(Results) : s \o <<>> = s /\ <<>> \o s = s
  BY SeqSteps DEF SeqLaws
<1>9. OfType(one \o results, "tool_result") = results
  <2>1. OfType(one \o results, "tool_result") = OfType(one, "tool_result") \o OfType(results, "tool_result")
    BY <1>1, <1>4, <1>7
  <2>. QED BY <1>2, <1>6, <1>8, <2>1
<1>10. OfType(results \o one, "tool_result") = results
  <2>1. OfType(results \o one, "tool_result") = OfType(results, "tool_result") \o OfType(one, "tool_result")
    BY <1>1, <1>4, <1>7
  <2>. QED BY <1>2, <1>6, <1>8, <2>1
<1>11. OfType(first \o one \o rest, "tool_result") = results
  <2>1. first \in Seq(ContentBlock) /\ rest \in Seq(ContentBlock)
    BY <1>2, <1>4
  <2>2. first \o one \in Seq(ContentBlock)
    BY <1>4, <2>1, ConcatProperties
  <2>3. OfType(first \o one, "tool_result") = OfType(first, "tool_result") \o OfType(one, "tool_result")
    BY <1>4, <1>7, <2>1
  <2>4. OfType(first \o one, "tool_result") = first
    BY <1>2, <1>4, <1>6, <1>8, <2>3
  <2>5. OfType(first \o one \o rest, "tool_result")
          = OfType(first \o one, "tool_result") \o OfType(rest, "tool_result")
    BY <1>7, <2>1, <2>2
  <2>. QED BY <1>2, <1>4, <1>5, <2>4, <2>5
<1>12. OfType(results, "tool_result") = results
  BY <1>2
<1>. QED BY <1>9, <1>10, <1>11, <1>12 DEF one, first, rest

\* What a step of Claude Code's puts behind the conversation, and what it says.
Speaks(m, ev) ==
  /\ m \in FitMessage /\ m.role # "assistant" /\ ev \in Seq(SaidEvent)
  /\ EventsOf(Told(Append(history, m))) = EventsOf(Told(history)) \o ev

LEMMA ToolsAnswerTells ==
  ASSUME TypeOK, history \in Seq(FitMessage), Distinct(CallsOf(history)), fresh > 9,
         NEW place, ToolsAnswer(place)
  PROVE  \E m \in FitMessage, ev \in Seq(SaidEvent) :
           /\ history' = Append(history, m) /\ said' = said \o ev
           /\ Speaks(m, ev) /\ Quiet(ev)
           /\ m.role = "user" /\ ~m.plain
           /\ Answers(OfType(m.blocks, "tool_result"), CallsOf(history))
<1> DEFINE calls == OpenCalls
           n == Len(calls)
           result(i) == ToolResult(calls[i].id, <<fresh + i>>)
           results == [i \in 1..n |-> result(i)]
           g == TextBlock(<<fresh>>)
           content ==
             CASE place = "none" -> results
               [] place = "before" -> <<g>> \o results
               [] place = "between" -> <<results[1]>> \o <<g>> \o Tail(results)
               [] OTHER -> results \o <<g>>
           m == BlockMessage("user", content)
           B == {b \in AnswerBlock(calls) : b.type = "text" => CompactPhrase \notin Range(b.text)}
           f == EachAnswers(calls)
           ev == FlattenSeq([i \in DOMAIN content |-> AnswerSays(calls, content[i])])
<1>1. fresh \in Nat /\ said \in Seq(SaidEvent)
  BY DEF TypeOK
<1>2. calls = CallsOf(history) /\ calls \in Seq(Uses) /\ Distinct(calls)
  BY CallsOfTyped DEF OpenCalls, CallsOf
<1>3. /\ calls # <<>>
      /\ history' = Append(history, m)
      /\ said' = said \o ev
  <2>1. calls # <<>>
    BY Zenon DEF ToolsAnswer
  <2>2. history' = Append(history, m)
    BY Zenon DEF ToolsAnswer
  <2>3. said' = said \o ev
    BY Zenon DEF ToolsAnswer, AnswerSays
  <2>. HIDE DEF calls, m, ev
  <2>. QED BY <2>1, <2>2, <2>3
<1> HIDE DEF calls
<1>4. n \in Nat \ {0} /\ DOMAIN calls = 1..n
  BY <1>2, <1>3, EmptySeq
<1>5. ASSUME NEW i \in 1..n
      PROVE  result(i) \in B /\ result(i) \in Results /\ result(i).id = calls[i].id
  <2>1. calls[i] \in ContentBlock /\ i \in Nat /\ i \in DOMAIN calls
    BY <1>2, <1>4 DEF Uses
  <2>2. calls[i].id \in Id /\ fresh + i \in Nat
    BY <1>1, <2>1 DEF ContentBlock
  <2>3. <<fresh + i>> \in Text
    BY <2>2, NumbersAreTexts
  <2>4. result(i) \in ContentBlock
    BY <2>2, <2>3, BlocksTyped
  <2>5. result(i).id = calls[i].id /\ result(i).type = "tool_result"
    BY DEF ToolResult, Block
  <2>. QED BY <2>1, <2>4, <2>5 DEF AnswerBlock, Results
<1>6. g \in B /\ g \in ContentBlock /\ g.type = "text"
  <2>1. <<fresh>> \in Text
    BY <1>1, NumbersAreTexts
  <2>2. g \in ContentBlock
    BY <2>1, TextBlocksTyped
  <2>3. g.type = "text" /\ g.text = <<fresh>>
    BY DEF TextBlock, Block
  <2>4. CompactPhrase \notin Range(<<fresh>>)
    BY <1>1 DEF Range, CompactPhrase
  <2>. QED BY <2>2, <2>3, <2>4 DEF AnswerBlock
<1>7. /\ results \in Seq(B) /\ results \in Seq(Results) /\ Len(results) = n
      /\ \A i \in 1..n : results[i].id = calls[i].id
  <2>1. DOMAIN results = 1..n /\ results = [i \in DOMAIN results |-> results[i]]
        /\ \A i \in 1..n : results[i] = result(i)
    OBVIOUS
  <2>2. \A i \in 1..n : results[i] \in B /\ results[i] \in Results /\ results[i].id = calls[i].id
    BY <1>5, <2>1
  <2> HIDE DEF results, result, B
  <2>3. results \in Seq(B) /\ Len(results) = n
    BY <1>4, <2>1, <2>2, FunctionIsSeq
  <2>4. results \in Seq(Results)
    BY <1>4, <2>1, <2>2, FunctionIsSeq
  <2>. QED BY <2>2, <2>3, <2>4
<1>8. results # <<>>
  <2> HIDE DEF results, B
  <2>. QED BY <1>4, <1>7
<1> HIDE DEF results, result, B, g
<1>9. content \in Seq(B) /\ OfType(content, "tool_result") = results
  BY <1>6, <1>7, <1>8, ContentTyped, ContentResults
<1> HIDE DEF content
<1>10. content \in Seq(AnswerBlock(calls)) /\ content \in Seq(ClientBlock)
  <2>1. B \subseteq AnswerBlock(calls) /\ AnswerBlock(calls) \subseteq ClientBlock
    BY DEF B, AnswerBlock, ClientBlock
  <2>. QED BY <1>9, <2>1, SeqMonotonic
<1>11. m \in FitMessage /\ m.role = "user" /\ ~m.plain /\ m.blocks = content
  <2>1. content \in Seq(ContentBlock)
    <3>1. ClientBlock \subseteq ContentBlock
      BY DEF ClientBlock
    <3>. QED BY <1>10, <3>1, SeqMonotonic
  <2>2. m \in Message /\ m.role = "user"
    BY <2>1, BlockMessageTyped DEF Role
  <2>3. ~m.plain /\ m.blocks = content
    BY DEF BlockMessage
  <2>. QED BY <1>10, <2>2, <2>3 DEF FitMessage, BlocksOf
<1>12. ev = Mapped(f, content)
  <2>1. \A i \in DOMAIN content : f[content[i]] = AnswerSays(calls, content[i])
    BY <1>10 DEF EachAnswers
  <2>2. [i \in DOMAIN content |-> AnswerSays(calls, content[i])]
          = [i \in DOMAIN content |-> f[content[i]]]
    BY <2>1
  <2>. QED BY <2>2 DEF Mapped
<1>13. Maps(f, AnswerBlock(calls), SaidEvent)
  BY <1>2, EachAnswersTyped
<1>14. ev \in Seq(SaidEvent)
  <2>1. MapLaws(AnswerBlock(calls), SaidEvent, f)
    BY <1>13, MappedLaws
  <2>. QED BY <1>10, <1>12, <2>1 DEF MapLaws
<1>15. Quiet(ev)
  <2>1. Has(Loud, Mapped(f, content)) <=> \E i \in 1..Len(content) : Has(Loud, f[content[i]])
    BY <1>10, <1>13, MappedHas
  <2>2. ASSUME NEW i \in 1..Len(content)
        PROVE  ~Has(Loud, f[content[i]])
    <3> DEFINE b == content[i]
    <3>1. b \in B
      BY <1>9
    <3>2. b \in AnswerBlock(calls) /\ (b.type = "text" => CompactPhrase \notin Range(b.text))
      BY <3>1 DEF B
    <3> HIDE DEF b
    <3>3. f[b] = AnswerSays(calls, b) /\ b.text \in Text
      BY <3>2, AnswerParts, <1>2 DEF EachAnswers
    <3>4. CASE b.type = "text"
      <4>1. f[b] = WordEvents("user", b.text)
        BY <3>3, <3>4 DEF AnswerSays
      <4>2. Quiet(WordEvents("user", b.text))
        BY <3>2, <3>3, <3>4, WordsAreLoud DEF Side
      <4>. QED BY <4>1, <4>2 DEF Quiet, b
    <3>5. CASE b.type # "text"
      <4>1. PICK j \in DOMAIN calls :
              AnswerSays(calls, b) = <<Event("user", "result", b.text, calls[j].text)>>
        BY <1>2, <3>2, <3>5, AnswerParts
      <4> DEFINE e == Event("user", "result", b.text, calls[j].text)
      <4>2. calls[j].text \in Text
        BY <1>2, BlockParts DEF Uses
      <4>3. e \in SaidEvent /\ e.kind = "result"
        BY <3>3, <4>2, EventTyped DEF Side
      <4>4. e \notin Loud
        BY <4>3 DEF Loud
      <4> HIDE DEF e
      <4>5. Quiet(<<e>>)
        BY <4>3, <4>4, QuietProperties
      <4>. QED BY <3>3, <4>1, <4>5 DEF Quiet, b, e
    <3>. QED BY <3>4, <3>5
  <2>. QED BY <1>12, <2>1, <2>2 DEF Quiet
<1>16. EventsOf(Told(Append(history, m))) = EventsOf(Told(history)) \o ev
  <2> DEFINE one == <<m>>
  <2>1. one \in Seq(FitMessage) /\ Append(history, m) = history \o one
    BY <1>11, SeqSteps DEF SeqLaws
  <2>2. Told(one) = Image(ReadAs("user"), content)
    <3>1. SanitizeMessage(m) = m
      BY <1>11, CleanTyped
    <3>. QED BY <1>11, <3>1, ToldLaws
  <2> HIDE DEF one, m
  <2>3. Told(history \o one) = Told(history) \o Told(one) /\ Told(history) \in Seq(Utterance)
    BY <2>1, ToldLaws
  <2>4. Latest(Told(history), calls)
    BY <1>2, OpenCallsAreLatest
  <2>5. EventsOf(Told(history) \o Image(ReadAs("user"), content))
          = EventsOf(Told(history)) \o Mapped(f, content)
    BY <1>2, <1>10, <2>3, <2>4, AnswersTell
  <2>. QED BY <1>12, <2>1, <2>2, <2>3, <2>5
<1>17. Answers(OfType(m.blocks, "tool_result"), calls)
  BY <1>7, <1>9, <1>11 DEF Answers
<1> HIDE DEF m, ev
<1>. QED BY <1>2, <1>3, <1>11, <1>14, <1>15, <1>16, <1>17, ZenonT(20) DEF Speaks

Instruction == StringMessage("user", <<CompactPhrase>>)

\* A message of the client's with words only.
Wordy(m) == m \in FitMessage /\ m.role # "assistant" /\ OfType(m.blocks, "tool_result") = <<>>

LEMMA StringIsWordy ==
  ASSUME NEW role \in {"user", "system"}, NEW s \in Text
  PROVE  Wordy(StringMessage(role, s)) /\ StringMessage(role, s).role = role
<1> DEFINE m == StringMessage(role, s)
           b == TextBlock(s)
<1>1. b \in ContentBlock /\ b.type = "text"
  BY TextBlocksTyped DEF TextBlock, Block
<1>2. m.role = role /\ m.blocks = <<b>>
  BY DEF StringMessage
<1>3. m \in FitMessage
  <2>1. <<>> \in Seq(FitMessage)
    BY EmptySeq
  <2>. QED BY <2>1, StringAppended
<1> HIDE DEF m, b
<1>4. OfType(<<b>>, "tool_result") = <<>>
  BY <1>1, OfTypeProperties
<1>. QED BY <1>2, <1>3, <1>4 DEF Wordy, m

LEMMA BlocksAreWordy ==
  ASSUME NEW s \in Text, NEW p \in Text
  PROVE  /\ Wordy(BlockMessage("user", <<ImageBlock(p), TextBlock(s)>>))
         /\ Wordy(BlockMessage("system", <<TextBlock(s)>>))
<1> DEFINE m == BlockMessage("user", <<ImageBlock(p), TextBlock(s)>>)
           n == BlockMessage("system", <<TextBlock(s)>>)
           a == ImageBlock(p)
           b == TextBlock(s)
           aa == <<a>>
           bb == <<b>>
<1>1. b \in ContentBlock /\ b.type = "text" /\ a \in ContentBlock /\ a.type = "image"
  BY TextBlocksTyped DEF TextBlock, ImageBlock, Block
<1>2. m.role = "user" /\ m.blocks = <<a, b>> /\ n.role = "system" /\ n.blocks = <<b>>
  BY DEF BlockMessage
<1>3. m \in FitMessage /\ n \in FitMessage
  <2>1. <<>> \in Seq(FitMessage)
    BY EmptySeq
  <2>. QED BY <2>1, PairAppended
<1> HIDE DEF m, n, a, b
<1>4. OfType(aa, "tool_result") = <<>> /\ OfType(bb, "tool_result") = <<>>
  BY <1>1, OfTypeProperties
<1>5. <<a, b>> = aa \o bb
  BY PairIsConcat
<1>6. aa \in Seq(ContentBlock) /\ bb \in Seq(ContentBlock)
  BY <1>1, SeqSteps DEF SeqLaws
<1> HIDE DEF aa, bb
<1>7. OfType(aa \o bb, "tool_result") = OfType(aa, "tool_result") \o OfType(bb, "tool_result")
  BY <1>6, OfTypeProperties
<1>8. <<>> \o <<>> = <<>>
  BY EmptySeq, ConcatEmptySeq
<1>. QED BY <1>2, <1>3, <1>4, <1>5, <1>7, <1>8 DEF Wordy, m, n, bb

\* Fresh fragments are not the phrase.
LEMMA FreshIsQuiet ==
  ASSUME NEW s \in Text, \A i \in DOMAIN s : s[i] > 9
  PROVE  Quiet(WordEvents("user", s))
<1>1. CompactPhrase \notin Range(s)
  BY DEF Range, CompactPhrase
<1>. QED BY <1>1, WordsAreLoud DEF Side

LEMMA FreshText ==
  ASSUME NEW n \in Nat, n > 9
  PROVE  <<n>> \in Text /\ Quiet(WordEvents("user", <<n>>))
<1> DEFINE s == <<n>>
<1>1. s \in Text /\ \A i \in DOMAIN s : s[i] > 9
  BY NumbersAreTexts
<1> HIDE DEF s
<1>2. Quiet(WordEvents("user", s))
  BY <1>1, FreshIsQuiet
<1>. QED BY <1>1, <1>2 DEF s

\* Two messages behind the others.
TellsMore(h, m, a) == EventsOf(Told(h \o <<m>>)) = EventsOf(Told(h)) \o a
TellsBoth(h, m, n, ev) ==
  /\ h \o <<m, n>> = (h \o <<m>>) \o <<n>>
  /\ EventsOf(Told(h \o <<m, n>>)) = EventsOf(Told(h)) \o ev

LEMMA BothTell ==
  ASSUME NEW h \in Seq(FitMessage), NEW m \in FitMessage, NEW n \in FitMessage,
         NEW a \in Seq(SaidEvent), NEW b \in Seq(SaidEvent),
         TellsMore(h, m, a), TellsMore(h \o <<m>>, n, b)
  PROVE  TellsBoth(h, m, n, a \o b)
<1> DEFINE mm == <<m>>
           nn == <<n>>
<1>1. mm \in Seq(FitMessage) /\ nn \in Seq(FitMessage)
  BY SeqSteps DEF SeqLaws
<1>2. <<m, n>> = mm \o nn
  BY PairIsConcat
<1> HIDE DEF mm, nn
<1>3. h \o (mm \o nn) = (h \o mm) \o nn
  <2>1. h \in Seq(FitMessage)
    OBVIOUS
  <2>2. Regrouped(h, mm, nn)
    BY <1>1, <2>1, Regroup, Zenon
  <2>. QED BY <2>2 DEF Regrouped
<1>4. Told(h) \in Seq(Utterance)
  BY ToldLaws
<1>5. EventsOf(Told(h)) \in Seq(SaidEvent)
  BY <1>4, EventsTyped
<1>6. EventsOf(Told(h)) \o (a \o b) = (EventsOf(Told(h)) \o a) \o b
  <2>1. Regrouped(EventsOf(Told(h)), a, b)
    BY <1>5, Regroup, Zenon
  <2>. QED BY <2>1 DEF Regrouped
<1>. QED BY <1>2, <1>3, <1>6 DEF mm, nn, TellsMore, TellsBoth

LEMMA TalkTells ==
  ASSUME TypeOK, history \in Seq(FitMessage), fresh > 9, NEW how, Talk(how)
  PROVE  \E m \in FitMessage, n \in FitMessage, ev \in Seq(SaidEvent) :
           /\ history' = (history \o <<m>>) \o <<n>> /\ said' = said \o ev
           /\ Wordy(m) /\ Wordy(n) /\ Quiet(ev)
           /\ EventsOf(Told(history')) = EventsOf(Told(history)) \o ev
<1> DEFINE words == <<fresh>>
           picture == <<fresh + 1>>
           notice == <<fresh + 2>>
           WE(s) == WordEvents("user", s)
<1>1. fresh \in Nat /\ fresh + 1 \in Nat /\ fresh + 2 \in Nat
      /\ fresh > 9 /\ fresh + 1 > 9 /\ fresh + 2 > 9
  BY DEF TypeOK
<1>2. /\ words \in Text /\ picture \in Text /\ notice \in Text
      /\ Quiet(WE(words)) /\ Quiet(WE(picture)) /\ Quiet(WE(notice))
  BY <1>1, FreshText
<1>3. IF how = "strings"
      THEN /\ history' = history \o <<StringMessage("user", words), StringMessage("system", notice)>>
           /\ said' = said \o WE(<<>> \o words \o notice)
      ELSE /\ history' = history \o <<BlockMessage("user", <<ImageBlock(picture), TextBlock(words)>>),
                                      BlockMessage("system", <<TextBlock(notice)>>)>>
           /\ said' = said \o WE(picture \o words \o notice)
  BY DEF Talk
<1> HIDE DEF words, picture, notice
<1>4. /\ \A s \in Text : WE(s) \in Seq(SaidEvent)
      /\ \A s, t \in Text : WE(s \o t) = WE(s) \o WE(t)
  BY WordEventsConcat DEF Side
<1>5. \A s, t \in Text : s \o t \in Text
  BY ConcatProperties DEF Text
<1>6. <<>> \o words = words
  BY <1>2, ConcatEmptySeq DEF Text
<1>7. \A a, b \in Seq(SaidEvent) : Quiet(a \o b) <=> Quiet(a) /\ Quiet(b)
  BY QuietProperties
<1> HIDE DEF WE
<1>8. CASE how = "strings"
  <2> DEFINE m == StringMessage("user", words)
             n == StringMessage("system", notice)
             ev == WE(words) \o WE(notice)
  <2>1. /\ m \in FitMessage /\ history \o <<m>> \in Seq(FitMessage)
        /\ EventsOf(Told(history \o <<m>>)) = EventsOf(Told(history)) \o WE(words)
    BY <1>2, StringAppended DEF WE
  <2>2. Wordy(m) /\ Wordy(n)
    BY <1>2, StringIsWordy
  <2> HIDE DEF m
  <2>3. /\ n \in FitMessage
        /\ EventsOf(Told((history \o <<m>>) \o <<n>>)) = EventsOf(Told(history \o <<m>>)) \o WE(notice)
    BY <1>2, <2>1, StringAppended DEF WE
  <2> HIDE DEF n
  <2>4. WE(words) \in Seq(SaidEvent) /\ WE(notice) \in Seq(SaidEvent)
    BY <1>2, <1>4
  <2>5. history \o <<m, n>> = (history \o <<m>>) \o <<n>>
        /\ EventsOf(Told(history \o <<m, n>>)) = EventsOf(Told(history)) \o ev
    <3>1. TellsMore(history, m, WE(words)) /\ TellsMore(history \o <<m>>, n, WE(notice))
      BY <2>1, <2>3, Zenon DEF TellsMore
    <3>2. TellsBoth(history, m, n, ev)
      BY <1>2, <2>1, <2>3, <2>4, <3>1, BothTell, Zenon
    <3>. QED BY <3>2, Zenon DEF TellsBoth
  <2>6. ev \in Seq(SaidEvent) /\ Quiet(ev)
    BY <1>2, <1>7, <2>4, ConcatProperties
  <2>7. said' = said \o ev
    BY <1>2, <1>3, <1>4, <1>6, <1>8
  <2>8. history' = history \o <<m, n>>
    BY <1>3, <1>8 DEF m, n
  <2> HIDE DEF ev
  <2>. QED BY <2>1, <2>2, <2>3, <2>5, <2>6, <2>7, <2>8
<1>9. CASE how # "strings"
  <2> DEFINE m == BlockMessage("user", <<ImageBlock(picture), TextBlock(words)>>)
             n == BlockMessage("system", <<TextBlock(notice)>>)
             a == WE(picture \o words)
             ev == a \o WE(notice)
  <2>1. /\ m \in FitMessage /\ history \o <<m>> \in Seq(FitMessage)
        /\ EventsOf(Told(history \o <<m>>)) = EventsOf(Told(history)) \o a
    BY <1>2, PairAppended DEF WE
  <2>2. Wordy(m) /\ Wordy(n)
    BY <1>2, BlocksAreWordy
  <2> HIDE DEF m
  <2>3. /\ n \in FitMessage
        /\ EventsOf(Told((history \o <<m>>) \o <<n>>)) = EventsOf(Told(history \o <<m>>)) \o WE(notice)
    BY <1>2, <2>1, PairAppended DEF WE
  <2> HIDE DEF n
  <2>4. WE(picture) \in Seq(SaidEvent) /\ WE(words) \in Seq(SaidEvent)
        /\ WE(notice) \in Seq(SaidEvent) /\ a \in Seq(SaidEvent) /\ picture \o words \in Text
        /\ a = WE(picture) \o WE(words)
    BY <1>2, <1>4, <1>5
  <2>5. Quiet(a)
    BY <1>2, <1>7, <2>4
  <2>6. WE((picture \o words) \o notice) = a \o WE(notice)
    BY <1>2, <1>4, <2>4
  <2> HIDE DEF a
  <2>7. history \o <<m, n>> = (history \o <<m>>) \o <<n>>
        /\ EventsOf(Told(history \o <<m, n>>)) = EventsOf(Told(history)) \o ev
    <3>1. TellsMore(history, m, a) /\ TellsMore(history \o <<m>>, n, WE(notice))
      BY <2>1, <2>3, Zenon DEF TellsMore
    <3>2. TellsBoth(history, m, n, ev)
      BY <1>2, <2>1, <2>3, <2>4, <3>1, BothTell, Zenon
    <3>. QED BY <3>2, Zenon DEF TellsBoth
  <2>8. ev \in Seq(SaidEvent) /\ Quiet(ev)
    BY <1>2, <1>7, <2>4, <2>5, ConcatProperties
  <2>9. said' = said \o ev
    BY <1>3, <1>9, <2>6
  <2>10. history' = history \o <<m, n>>
    BY <1>3, <1>9 DEF m, n
  <2> HIDE DEF ev
  <2>. QED BY <2>1, <2>2, <2>3, <2>7, <2>8, <2>9, <2>10
<1>. QED BY <1>8, <1>9

\* The instruction is one word.
LEMMA InstructionTells ==
  ASSUME NEW h \in Seq(FitMessage)
  PROVE  LET ev == WordEvents("user", <<CompactPhrase>>)
         IN  /\ Wordy(Instruction) /\ Instruction.role = "user"
             /\ Instruction.plain /\ JoinText(Instruction.blocks) = <<CompactPhrase>>
             /\ ev = <<Event("user", "words", <<CompactPhrase>>, <<>>)>>
             /\ ev \in Seq(SaidEvent) /\ Len(ev) = 1
             /\ EventsOf(Told(Append(h, Instruction))) = EventsOf(Told(h)) \o ev
<1> DEFINE s == <<CompactPhrase>>
           ev == WordEvents("user", s)
           one == <<Instruction>>
<1>1. s \in Text /\ CompactPhrase \in Nat /\ CompactPhrase # Blank
  BY NumbersAreTexts DEF CompactPhrase, Blank
<1>2. Words(s) = s
  BY <1>1, WordsProperties
<1>3. ev = <<Event("user", "words", s, <<>>)>> /\ Len(ev) = 1
  BY <1>2 DEF WordEvents
<1>4. Instruction = StringMessage("user", s)
  BY DEF Instruction
<1> HIDE DEF s
<1>5. /\ Instruction \in FitMessage
      /\ EventsOf(Told(h \o one)) = EventsOf(Told(h)) \o ev
  BY <1>1, <1>4, StringAppended
<1>6. Wordy(Instruction) /\ Instruction.role = "user"
  BY <1>1, <1>4, StringIsWordy
<1>7. Instruction.plain /\ Instruction.blocks = <<TextBlock(s)>>
  BY <1>4 DEF StringMessage
<1>8. JoinText(<<TextBlock(s)>>) = s
  <2>1. TextBlock(s) \in ContentBlock /\ TextBlock(s).type = "text" /\ TextBlock(s).text = s
    BY <1>1, TextBlocksTyped DEF TextBlock, Block
  <2>. QED BY <2>1, JoinTextProperties
<1>9. ev \in Seq(SaidEvent)
  BY <1>1, WordEventsTyped
<1>10. Append(h, Instruction) = h \o one
  BY <1>5, SeqSteps DEF SeqLaws
<1>. QED BY <1>3, <1>5, <1>6, <1>7, <1>8, <1>9, <1>10 DEF s

-----------------------------------------------------------------------------
(* What a reply says and what its blocks do, and the ids of its calls.     *)
ItemSays(signed, x) ==
  CASE x.kind = "call" -> <<Event("model", "call", x.text, <<>>)>>
    [] x.kind = "reasoning" /\ signed -> <<Event("model", "thought", x.text, <<>>)>>
    [] OTHER -> WordEvents("model", x.text)
EachItem(signed) == [x \in ReplyItem |-> ItemSays(signed, x)]
ItemsSay(signed, items) == Mapped(EachItem(signed), items)

ThoughtItems == {x \in ReplyItem : x.kind = "reasoning"}
SpokenItems == {x \in ReplyItem : x.kind # "reasoning"}

LEMMA ItemSaysTyped ==
  ASSUME NEW signed
  PROVE  /\ Maps(EachItem(signed), ReplyItem, SaidEvent)
         /\ \A x \in ReplyItem : EachItem(signed)[x] = ItemSays(signed, x)
                                 /\ ItemSays(signed, x) \in Seq(SaidEvent)
         /\ MapLaws(ReplyItem, SaidEvent, EachItem(signed))
<1>1. ASSUME NEW x \in ReplyItem
      PROVE  ItemSays(signed, x) \in Seq(SaidEvent)
  <2>1. x.text \in Text /\ <<>> \in Text
    BY ItemParts, EmptySeq DEF Text
  <2>2. Event("model", "call", x.text, <<>>) \in SaidEvent /\ Event("model", "thought", x.text, <<>>) \in SaidEvent
    BY <2>1, EventTyped DEF Side
  <2>3. /\ <<Event("model", "call", x.text, <<>>)>> \in Seq(SaidEvent)
        /\ <<Event("model", "thought", x.text, <<>>)>> \in Seq(SaidEvent)
        /\ WordEvents("model", x.text) \in Seq(SaidEvent)
    BY <2>1, <2>2, SeqSteps, WordEventsTyped DEF SeqLaws
  <2>. QED BY <2>3 DEF ItemSays
<1>2. Maps(EachItem(signed), ReplyItem, SaidEvent)
  BY <1>1 DEF Maps, EachItem
<1>3. MapLaws(ReplyItem, SaidEvent, EachItem(signed))
  BY <1>2, MappedLaws
<1>. QED BY <1>1, <1>2, <1>3 DEF EachItem

LEMMA ReplyEventsAre ==
  ASSUME NEW items \in Seq(ReplyItem)
  PROVE  ReplyEvents(items)
           = ItemsSay(Delivery = "native" /\ ask.to \in SignsThinking,
                      IF Delivery # "assembled" THEN items
                      ELSE Selected(ThoughtItems, items) \o Selected(SpokenItems, items))
<1> DEFINE signed == Delivery = "native" /\ ask.to \in SignsThinking
           inOrder == IF Delivery # "assembled" THEN items
                      ELSE Selected(ThoughtItems, items) \o Selected(SpokenItems, items)
           Thought(x) == x.kind = "reasoning"
           NotThought(x) == x.kind # "reasoning"
<1>1. Only(Thought, items) = Selected(ThoughtItems, items)
      /\ Only(NotThought, items) = Selected(SpokenItems, items)
  <2>1. /\ [i \in DOMAIN items |-> IF items[i].kind = "reasoning" THEN <<items[i]>> ELSE <<>>]
           = [i \in DOMAIN items |-> IF items[i] \in ThoughtItems THEN <<items[i]>> ELSE <<>>]
        /\ [i \in DOMAIN items |-> IF items[i].kind # "reasoning" THEN <<items[i]>> ELSE <<>>]
           = [i \in DOMAIN items |-> IF items[i] \in SpokenItems THEN <<items[i]>> ELSE <<>>]
    BY DEF ThoughtItems, SpokenItems
  <2>. QED BY <2>1 DEF Only, Selected
<1>2. inOrder \in Seq(ReplyItem)
  <2>1. SelectLaws(ReplyItem, ThoughtItems) /\ SelectLaws(ReplyItem, SpokenItems)
    BY SelectedLaws
  <2>2. Selected(ThoughtItems, items) \in Seq(ReplyItem) /\ Selected(SpokenItems, items) \in Seq(ReplyItem)
    BY <2>1 DEF SelectLaws
  <2>. QED BY <2>2, ConcatProperties
<1>3. ReplyEvents(items) = FlattenSeq([i \in DOMAIN inOrder |-> ItemSays(signed, inOrder[i])])
  BY <1>1 DEF ReplyEvents, ItemSays
<1>4. [i \in DOMAIN inOrder |-> ItemSays(signed, inOrder[i])]
        = [i \in DOMAIN inOrder |-> EachItem(signed)[inOrder[i]]]
  <2> HIDE DEF inOrder, signed
  <2>. QED BY <1>2 DEF EachItem
<1>. QED BY <1>3, <1>4 DEF ItemsSay, Mapped

\* The provider's own ids are different, and none that the router makes.
DistinctNames(items) ==
  /\ \A i \in DOMAIN items : items[i].id # NoId => \E n \in Nat : items[i].id = CallId(n)
  /\ \A i, j \in DOMAIN items : items[i].id = items[j].id /\ items[i].id # NoId => i = j

\* The calls of a reply so far: they differ, and have the provider's ids or
\* ones the router makes up from numbers below t.
OwnId(items, t, id) ==
  \/ \E i \in DOMAIN items : items[i].id # NoId /\ id = items[i].id
  \/ \E n \in Nat : n < t /\ id = FallbackId(n)
Named(items, uses, t) ==
  /\ uses \in Seq(Uses) /\ Distinct(uses)
  /\ \A k \in DOMAIN uses : OwnId(items, t, uses[k].id)

UsesOf(bs) == OfType(bs, "tool_use")

\* bs are blocks of a reply, and say what they should.
Renders(items, bs, t, says) ==
  /\ bs \in Seq(ReplyBlock) /\ t \in Nat /\ says \in Seq(SaidEvent)
  /\ BlocksSay(bs) = says
  /\ DistinctNames(items) => Named(items, UsesOf(bs), t)

LEMMA AppendedItem ==
  ASSUME NEW items \in Seq(ReplyItem), NEW x \in ReplyItem
  PROVE  LET more == Append(items, x)
         IN  /\ more \in Seq(ReplyItem) /\ Len(more) = Len(items) + 1
             /\ more[Len(items) + 1] = x /\ Len(items) \in Nat
             /\ DOMAIN items = 1..Len(items) /\ DOMAIN more = 1..Len(items) + 1
             /\ \A i \in DOMAIN items : i \in DOMAIN more /\ more[i] = items[i]
<1> DEFINE more == Append(items, x)
<1>1. /\ more \in Seq(ReplyItem) /\ Len(more) = Len(items) + 1
      /\ more[Len(items) + 1] = x /\ Len(items) \in Nat
      /\ \A i \in 1..Len(items) : more[i] = items[i]
  BY AppendProperties
<1> HIDE DEF more
<1>2. DOMAIN items = 1..Len(items) /\ DOMAIN more = 1..Len(items) + 1
  BY <1>1
<1>. QED BY <1>1, <1>2 DEF more

LEMMA DistinctBefore ==
  ASSUME NEW items \in Seq(ReplyItem), NEW x \in ReplyItem, DistinctNames(Append(items, x))
  PROVE  /\ DistinctNames(items)
         /\ x.id # NoId => /\ \E n \in Nat : x.id = CallId(n)
                           /\ \A i \in DOMAIN items : items[i].id # x.id
<1> DEFINE more == Append(items, x)
<1>1. /\ more[Len(items) + 1] = x /\ Len(items) \in Nat
      /\ DOMAIN items = 1..Len(items) /\ DOMAIN more = 1..Len(items) + 1
      /\ \A i \in DOMAIN items : i \in DOMAIN more /\ more[i] = items[i]
  BY AppendedItem
<1>2. /\ \A i \in DOMAIN more : more[i].id # NoId => \E n \in Nat : more[i].id = CallId(n)
      /\ \A i, j \in DOMAIN more : more[i].id = more[j].id /\ more[i].id # NoId => i = j
  BY DEF DistinctNames
<1> HIDE DEF more
<1>3. DistinctNames(items)
  BY <1>1, <1>2 DEF DistinctNames
<1>4. ASSUME x.id # NoId
      PROVE  /\ \E n \in Nat : x.id = CallId(n)
             /\ \A i \in DOMAIN items : items[i].id # x.id
  <2>1. Len(items) + 1 \in DOMAIN more
    BY <1>1
  <2>2. ASSUME NEW i \in DOMAIN items, items[i].id = x.id
        PROVE  FALSE
    <3>1. i \in DOMAIN more /\ more[i] = items[i] /\ i # Len(items) + 1
      BY <1>1
    <3>2. more[i].id = more[Len(items) + 1].id /\ more[i].id # NoId
      BY <1>1, <1>4, <2>2, <3>1
    <3>. QED BY <1>2, <2>1, <3>1, <3>2
  <2>. QED BY <1>1, <1>2, <1>4, <2>1, <2>2
<1>. QED BY <1>3, <1>4

\* Made up and given ids are never the same.
LEMMA IdsDiffer ==
  ASSUME NEW n \in Nat, NEW m \in Nat
  PROVE  /\ CallId(n) # FallbackId(m) /\ CallId(n) # NoId /\ FallbackId(n) # NoId
         /\ FallbackId(n) = FallbackId(m) => n = m
         /\ CallId(n) = CallId(m) => n = m
BY DEF CallId, FallbackId, NoId

LEMMA OwnIdGrows ==
  ASSUME NEW items \in Seq(ReplyItem), NEW x \in ReplyItem, NEW t \in Nat, NEW r \in Nat, t <= r
  PROVE  \A id : OwnId(items, t, id) => OwnId(Append(items, x), r, id)
<1> DEFINE more == Append(items, x)
<1>1. \A i \in DOMAIN items : i \in DOMAIN more /\ more[i] = items[i]
  BY AppendedItem
<1> HIDE DEF more
<1>2. \A n \in Nat : n < t => n < r
  OBVIOUS
<1>3. ASSUME NEW id, OwnId(items, t, id)
      PROVE  OwnId(more, r, id)
  BY <1>1, <1>2, <1>3 DEF OwnId
<1>. QED BY <1>3 DEF more

UseOf(x, p) == ToolUse(IdOr(x.id, p), x.text)

LEMMA UseOfTyped ==
  ASSUME NEW x \in ReplyItem, NEW p \in Nat
  PROVE  /\ UseOf(x, p) \in ReplyBlock /\ UseOf(x, p) \in Uses
         /\ UseOf(x, p).id = IdOr(x.id, p) /\ UseOf(x, p).text = x.text
         /\ UseOf(x, p).type = "tool_use"
<1>1. x.id \in Id /\ x.text \in Text
  BY ItemParts
<1>2. UseOf(x, p) \in ContentBlock
  BY <1>1, IdOrTyped, ToolUseTyped DEF UseOf
<1>3. UseOf(x, p).type = "tool_use" /\ UseOf(x, p).id = IdOr(x.id, p) /\ UseOf(x, p).text = x.text
  BY DEF UseOf, ToolUse, Block
<1>. QED BY <1>2, <1>3 DEF ReplyBlock, Uses

LEMMA NamedCall ==
  ASSUME NEW items \in Seq(ReplyItem), NEW x \in ReplyItem, DistinctNames(Append(items, x)),
         NEW uses, NEW t \in Nat, NEW p \in Nat, t <= p, Named(items, uses, t)
  PROVE  Named(Append(items, x), Append(uses, UseOf(x, p)), p + 1)
<1> DEFINE more == Append(items, x)
           b == UseOf(x, p)
           u == Append(uses, b)
<1>1. uses \in Seq(Uses) /\ \A k \in DOMAIN uses : OwnId(items, t, uses[k].id)
  BY DEF Named
<1>2. b \in Uses /\ b.id = IdOr(x.id, p)
  BY UseOfTyped
<1>3. /\ u \in Seq(Uses) /\ Len(u) = Len(uses) + 1 /\ Len(uses) \in Nat /\ u[Len(uses) + 1] = b
      /\ \A k \in 1..Len(uses) : u[k] = uses[k]
  BY <1>1, <1>2, AppendProperties
<1>4. /\ more[Len(items) + 1] = x /\ Len(items) + 1 \in DOMAIN more
      /\ \A i \in DOMAIN items : i \in DOMAIN more /\ more[i] = items[i]
  BY AppendedItem
<1>5. x.id # NoId => /\ \E n \in Nat : x.id = CallId(n)
                     /\ \A i \in DOMAIN items : items[i].id # x.id
  BY DistinctBefore
<1>6. DistinctNames(items)
  BY DistinctBefore
<1> HIDE DEF more, b, u
<1>7. ~OwnId(items, t, b.id)
  <2>1. CASE x.id # NoId
    <3>1. b.id = x.id
      BY <1>2, <2>1 DEF IdOr
    <3>2. \A n \in Nat : x.id # FallbackId(n)
      BY <1>5, <2>1, IdsDiffer
    <3>. QED BY <1>5, <2>1, <3>1, <3>2 DEF OwnId
  <2>2. CASE x.id = NoId
    <3>1. b.id = FallbackId(p)
      BY <1>2, <2>2 DEF IdOr
    <3>2. \A i \in DOMAIN items : items[i].id # NoId => items[i].id # FallbackId(p)
      BY <1>6, IdsDiffer DEF DistinctNames
    <3>3. \A n \in Nat : n < t => FallbackId(n) # FallbackId(p)
      BY IdsDiffer
    <3>. QED BY <3>1, <3>2, <3>3 DEF OwnId
  <2>. QED BY <2>1, <2>2
<1>8. OwnId(more, p + 1, b.id)
  <2>1. CASE x.id # NoId
    BY <1>2, <1>4, <2>1 DEF OwnId, IdOr
  <2>2. CASE x.id = NoId
    <3>1. b.id = FallbackId(p) /\ p < p + 1
      BY <1>2, <2>2 DEF IdOr
    <3>. QED BY <3>1 DEF OwnId
  <2>. QED BY <2>1, <2>2
<1>9. \A id : OwnId(items, t, id) => OwnId(more, p + 1, id)
  BY OwnIdGrows DEF more
<1>10. DOMAIN uses = 1..Len(uses) /\ DOMAIN u = 1..Len(uses) + 1
  BY <1>1, <1>3
<1>13. ASSUME NEW k \in DOMAIN u
       PROVE  (k \in DOMAIN uses /\ u[k] = uses[k]) \/ (k = Len(uses) + 1 /\ u[k] = b)
  <2>1. k \in 1..Len(uses) + 1
    BY <1>10
  <2>2. k \in 1..Len(uses) \/ k = Len(uses) + 1
    BY <1>3, <2>1
  <2>3. \A j \in 1..Len(uses) : u[j] = uses[j]
    BY <1>3
  <2>4. CASE k \in 1..Len(uses)
    BY <1>1, <1>3, <2>3, <2>4
  <2>5. CASE k = Len(uses) + 1
    BY <1>3, <2>5
  <2>. QED BY <2>2, <2>4, <2>5
<1>11. Distinct(u)
  <2>1. \A i, j \in DOMAIN uses : uses[i].id = uses[j].id => i = j
    BY DEF Named, Distinct
  <2>2. ASSUME NEW i \in DOMAIN u, NEW j \in DOMAIN u, u[i].id = u[j].id
        PROVE  i = j
    <3>1. (i \in DOMAIN uses /\ u[i] = uses[i]) \/ (i = Len(uses) + 1 /\ u[i] = b)
      BY <1>13
    <3>2. (j \in DOMAIN uses /\ u[j] = uses[j]) \/ (j = Len(uses) + 1 /\ u[j] = b)
      BY <1>13
    <3>. QED BY <1>1, <1>7, <2>1, <2>2, <3>1, <3>2
  <2>. QED BY <2>2 DEF Distinct
<1>12. ASSUME NEW k \in DOMAIN u
       PROVE  OwnId(more, p + 1, u[k].id)
  <2>1. (k \in DOMAIN uses /\ u[k] = uses[k]) \/ (k = Len(uses) + 1 /\ u[k] = b)
    BY <1>13
  <2>. QED BY <1>1, <1>8, <1>9, <2>1
<1>. QED BY <1>3, <1>11, <1>12 DEF Named, more, b, u

LEMMA NamedMore ==
  ASSUME NEW items \in Seq(ReplyItem), NEW x \in ReplyItem,
         NEW uses, NEW t \in Nat, NEW r \in Nat, t <= r, Named(items, uses, t)
  PROVE  Named(Append(items, x), uses, r)
BY OwnIdGrows DEF Named

LEMMA NamedNone ==
  ASSUME NEW items, NEW t
  PROVE  Named(items, <<>>, t)
BY EmptySeq DEF Named, Distinct

LEMMA ReplyBlocksAreBlocks ==
  ASSUME NEW bs \in Seq(ReplyBlock)
  PROVE  bs \in Seq(ContentBlock)
<1>1. ReplyBlock \subseteq ContentBlock
  BY DEF ReplyBlock
<1>. QED BY <1>1, SeqMonotonic

LEMMA BlocksSayLaws == MapLaws(ReplyBlock, SaidEvent, EachSays)
BY EachSaysTyped, MappedLaws

LEMMA UsesOfLaws ==
  /\ UsesOf(<<>>) = <<>>
  /\ \A s, t \in Seq(ReplyBlock) : UsesOf(s \o t) = UsesOf(s) \o UsesOf(t)
  /\ \A s \in Seq(ReplyBlock) : UsesOf(s) \in Seq(Uses)
  /\ \A b \in ReplyBlock : UsesOf(<<b>>) = IF b.type = "tool_use" THEN <<b>> ELSE <<>>
<1>1. \A s, t \in Seq(ReplyBlock) : UsesOf(s \o t) = UsesOf(s) \o UsesOf(t)
  BY ReplyBlocksAreBlocks, OfTypeProperties DEF UsesOf
<1>2. \A s \in Seq(ReplyBlock) : UsesOf(s) \in Seq(Uses)
  BY ReplyBlocksAreBlocks, OfTypeProperties DEF UsesOf, Uses
<1>3. \A b \in ReplyBlock : UsesOf(<<b>>) = IF b.type = "tool_use" THEN <<b>> ELSE <<>>
  BY OfTypeProperties DEF UsesOf, ReplyBlock
<1>. QED BY <1>1, <1>2, <1>3, OfTypeProperties DEF UsesOf

\* A block of text, whatever it says.
LEMMA TextPieces ==
  ASSUME NEW s \in Text
  PROVE  /\ TextBlock(s) \in ReplyBlock /\ TextBlock(s).type = "text" /\ TextBlock(s).text = s
         /\ <<TextBlock(s)>> \in Seq(ReplyBlock) /\ UsesOf(<<TextBlock(s)>>) = <<>>
         /\ BlocksSay(<<TextBlock(s)>>) = WordEvents("model", s)
         /\ TextOrNothing(s) \in Seq(ReplyBlock) /\ UsesOf(TextOrNothing(s)) = <<>>
         /\ BlocksSay(TextOrNothing(s)) = WordEvents("model", s)
<1> DEFINE b == TextBlock(s)
           one == <<b>>
<1>1. b \in ReplyBlock /\ b.type = "text" /\ b.text = s
  BY TextBlocksTyped DEF TextBlock, Block, ReplyBlock
<1> HIDE DEF b
<1>2. one \in Seq(ReplyBlock)
  BY <1>1, SeqSteps DEF SeqLaws
<1>3. UsesOf(one) = <<>>
  BY <1>1, UsesOfLaws
<1>4. BlocksSay(one) = WordEvents("model", s)
  <2>1. Mapped(EachSays, one) = EachSays[b]
    BY <1>1, BlocksSayLaws DEF MapLaws
  <2>. QED BY <1>1, <2>1, EachSaysTyped DEF BlocksSay, BlockSays
<1>5. CASE s = <<>>
  <2>1. TextOrNothing(s) = <<>> /\ WordEvents("model", s) = <<>>
    BY <1>5, WordEventsConcat DEF TextOrNothing, Side
  <2>2. BlocksSay(<<>>) = <<>>
    BY BlocksSayLaws DEF MapLaws, BlocksSay
  <2>3. <<>> \in Seq(ReplyBlock)
    BY EmptySeq
  <2>. QED BY <1>1, <1>2, <1>3, <1>4, <2>1, <2>2, <2>3, UsesOfLaws DEF b
<1>6. CASE s # <<>>
  BY <1>1, <1>2, <1>3, <1>4, <1>6 DEF TextOrNothing, b
<1>. QED BY <1>5, <1>6

LEMMA RendersNothing ==
  ASSUME NEW t \in Nat
  PROVE  Renders(<<>>, <<>>, t, <<>>)
<1>1. BlocksSay(<<>>) = <<>>
  BY BlocksSayLaws DEF MapLaws, BlocksSay
<1>2. UsesOf(<<>>) = <<>>
  BY UsesOfLaws
<1>. QED BY <1>1, <1>2, NamedNone, EmptySeq DEF Renders

LEMMA RendersLater ==
  ASSUME NEW items \in Seq(ReplyItem), NEW bs, NEW t, NEW says, Renders(items, bs, t, says),
         NEW r \in Nat, t <= r
  PROVE  Renders(items, bs, r, says)
<1>1. t \in Nat
  BY DEF Renders
<1>2. \A id : OwnId(items, t, id) => OwnId(items, r, id)
  <2>1. \A n \in Nat : n < t => n < r
    BY <1>1
  <2>. QED BY <2>1 DEF OwnId
<1>. QED BY <1>2 DEF Renders, Named

\* One more item, which is not a call.
LEMMA RendersPiece ==
  ASSUME NEW items \in Seq(ReplyItem), NEW bs, NEW t, NEW says, Renders(items, bs, t, says),
         NEW x \in ReplyItem, NEW piece \in Seq(ReplyBlock), UsesOf(piece) = <<>>
  PROVE  Renders(Append(items, x), bs \o piece, t, says \o BlocksSay(piece))
<1>1. bs \in Seq(ReplyBlock) /\ t \in Nat /\ says \in Seq(SaidEvent) /\ BlocksSay(bs) = says
  BY DEF Renders
<1>2. bs \o piece \in Seq(ReplyBlock)
  BY <1>1, ConcatProperties
<1>3. BlocksSay(bs \o piece) = says \o BlocksSay(piece) /\ BlocksSay(piece) \in Seq(SaidEvent)
  BY <1>1, BlocksSayLaws DEF MapLaws, BlocksSay
<1>4. UsesOf(bs \o piece) = UsesOf(bs)
  <2>1. UsesOf(bs \o piece) = UsesOf(bs) \o <<>>
    BY <1>1, UsesOfLaws
  <2>2. UsesOf(bs) \in Seq(Uses)
    BY <1>1, UsesOfLaws
  <2>. QED BY <2>1, <2>2, ConcatEmptySeq
<1>5. says \o BlocksSay(piece) \in Seq(SaidEvent)
  BY <1>1, <1>3, ConcatProperties
<1>6. ASSUME DistinctNames(Append(items, x))
      PROVE  Named(Append(items, x), UsesOf(bs \o piece), t)
  <2>1. Named(items, UsesOf(bs), t)
    BY <1>6, DistinctBefore DEF Renders
  <2>. QED BY <1>1, <1>4, <2>1, NamedMore
<1>. QED BY <1>1, <1>2, <1>3, <1>5, <1>6 DEF Renders

\* One more item, a call.
LEMMA RendersCall ==
  ASSUME NEW items \in Seq(ReplyItem), NEW bs, NEW t, NEW says, Renders(items, bs, t, says),
         NEW x \in CallItems, NEW p \in Nat, t <= p
  PROVE  /\ Renders(Append(items, x), Append(bs, UseOf(x, p)), p + 1, says \o ItemSays(FALSE, x))
         /\ Append(bs, UseOf(x, p)) = bs \o <<UseOf(x, p)>>
<1> DEFINE b == UseOf(x, p)
           one == <<b>>
<1>1. bs \in Seq(ReplyBlock) /\ t \in Nat /\ says \in Seq(SaidEvent) /\ BlocksSay(bs) = says
  BY DEF Renders
<1>2. x \in ReplyItem /\ x.kind = "call"
  BY DEF CallItems
<1>3. b \in ReplyBlock /\ b \in Uses /\ b.type = "tool_use" /\ b.text = x.text
  BY <1>2, UseOfTyped
<1> HIDE DEF b
<1>4. one \in Seq(ReplyBlock) /\ Append(bs, b) = bs \o one /\ Append(bs, b) \in Seq(ReplyBlock)
  BY <1>1, <1>3, SeqSteps DEF SeqLaws
<1>5. BlocksSay(one) = ItemSays(FALSE, x)
  <2>1. Mapped(EachSays, one) = EachSays[b]
    BY <1>3, BlocksSayLaws DEF MapLaws
  <2>. QED BY <1>2, <1>3, <2>1, EachSaysTyped DEF BlocksSay, BlockSays, ItemSays
<1>6. UsesOf(one) = one
  BY <1>3, UsesOfLaws
<1> HIDE DEF one
<1>7. BlocksSay(bs \o one) = says \o ItemSays(FALSE, x)
  BY <1>1, <1>4, <1>5, BlocksSayLaws DEF MapLaws, BlocksSay
<1>8. says \o ItemSays(FALSE, x) \in Seq(SaidEvent)
  BY <1>1, <1>2, ItemSaysTyped, ConcatProperties
<1>9. UsesOf(Append(bs, b)) = Append(UsesOf(bs), b)
  <2>1. UsesOf(bs \o one) = UsesOf(bs) \o one /\ UsesOf(bs) \in Seq(Uses)
    BY <1>1, <1>4, <1>6, UsesOfLaws
  <2>2. Append(UsesOf(bs), b) = UsesOf(bs) \o one
    BY <1>3, <2>1, SeqSteps DEF SeqLaws, one
  <2>. QED BY <1>4, <2>1, <2>2
<1>10. ASSUME DistinctNames(Append(items, x))
       PROVE  Named(Append(items, x), UsesOf(Append(bs, b)), p + 1)
  <2>1. Named(items, UsesOf(bs), t)
    BY <1>2, <1>10, DistinctBefore DEF Renders
  <2>2. Named(Append(items, x), Append(UsesOf(bs), b), p + 1)
    BY <1>1, <1>2, <1>10, <2>1, NamedCall DEF b
  <2>. QED BY <1>9, <2>2
<1>11. Append(bs, b) = bs \o one /\ p + 1 \in Nat
       /\ BlocksSay(Append(bs, b)) = says \o ItemSays(FALSE, x)
  BY <1>4, <1>7
<1>12. Renders(Append(items, x), Append(bs, b), p + 1, says \o ItemSays(FALSE, x))
  BY <1>4, <1>8, <1>10, <1>11 DEF Renders
<1>13. Append(bs, b) = bs \o <<b>>
  BY <1>11 DEF one
<1>. QED BY <1>12, <1>13 DEF b

LEMMA ItemsSayAppend ==
  ASSUME NEW signed, NEW items \in Seq(ReplyItem), NEW x \in ReplyItem
  PROVE  /\ ItemsSay(signed, Append(items, x)) = ItemsSay(signed, items) \o ItemSays(signed, x)
         /\ ItemsSay(signed, items) \in Seq(SaidEvent)
         /\ ItemsSay(signed, <<>>) = <<>>
         /\ x \notin CallItems => ItemSays(FALSE, x) = WordEvents("model", x.text)
<1>1. MapLaws(ReplyItem, SaidEvent, EachItem(signed)) /\ EachItem(signed)[x] = ItemSays(signed, x)
  BY ItemSaysTyped
<1>2. x \notin CallItems => x.kind # "call"
  BY DEF CallItems
<1>. QED BY <1>1, <1>2 DEF MapLaws, ItemsSay, ItemSays

\* Of a sequence's elements and where they stand.
Indexed(g, s) == FlattenSeq([i \in DOMAIN s |-> g[i][s[i]]])
IndexMaps(g, D, S) == \A i \in Nat \ {0}, x \in D : g[i][x] \in Seq(S)

LEMMA IndexedLaws ==
  ASSUME NEW D, NEW S, NEW g, IndexMaps(g, D, S)
  PROVE  /\ Indexed(g, <<>>) = <<>>
         /\ \A s \in Seq(D), x \in D :
              Indexed(g, Append(s, x)) = Indexed(g, s) \o g[Len(s) + 1][x]
<1> DEFINE F(s) == [i \in DOMAIN s |-> g[i][s[i]]]
<1>1. Indexed(g, <<>>) = <<>>
  <2>1. F(<<>>) = <<>>
    OBVIOUS
  <2>. QED BY <2>1, FlattenSeqOfNothing DEF Indexed
<1>2. ASSUME NEW s \in Seq(D)
      PROVE  F(s) \in Seq(Seq(S)) /\ Len(F(s)) = Len(s) /\ \A i \in 1..Len(s) : F(s)[i] = g[i][s[i]]
  <2>1. DOMAIN F(s) = 1..Len(s) /\ F(s) = [i \in DOMAIN F(s) |-> F(s)[i]] /\ Len(s) \in Nat
        /\ \A i \in 1..Len(s) : F(s)[i] = g[i][s[i]]
    OBVIOUS
  <2>2. \A i \in 1..Len(s) : F(s)[i] \in Seq(S)
    <3>1. \A i \in 1..Len(s) : s[i] \in D /\ i \in Nat \ {0}
      BY <2>1
    <3>. QED BY <2>1, <3>1 DEF IndexMaps
  <2> HIDE DEF F
  <2>. QED BY <2>1, <2>2, FunctionIsSeq
<1>3. ASSUME NEW s \in Seq(D), NEW x \in D
      PROVE  Indexed(g, Append(s, x)) = Indexed(g, s) \o g[Len(s) + 1][x]
  <2> DEFINE t == Append(s, x)
             y == g[Len(s) + 1][x]
  <2>1. /\ t \in Seq(D) /\ Len(t) = Len(s) + 1 /\ t[Len(s) + 1] = x /\ Len(s) \in Nat
        /\ \A i \in 1..Len(s) : t[i] = s[i]
    BY AppendProperties
  <2>2. y \in Seq(S)
    BY <2>1 DEF IndexMaps
  <2> HIDE DEF t, F
  <2>3. F(t) \in Seq(Seq(S)) /\ Len(F(t)) = Len(s) + 1
        /\ \A i \in 1..Len(s) + 1 : F(t)[i] = g[i][t[i]]
    BY <1>2, <2>1
  <2>4. F(s) \in Seq(Seq(S)) /\ Len(F(s)) = Len(s) /\ \A i \in 1..Len(s) : F(s)[i] = g[i][s[i]]
    BY <1>2
  <2>5. F(t) = Append(F(s), y)
    <3> DEFINE a == Append(F(s), y)
    <3>1. /\ a \in Seq(Seq(S)) /\ Len(a) = Len(s) + 1 /\ a[Len(s) + 1] = y
          /\ \A i \in 1..Len(s) : a[i] = F(s)[i]
      BY <2>2, <2>4, AppendProperties
    <3> HIDE DEF a
    <3>2. \A i \in 1..Len(s) + 1 : F(t)[i] = a[i]
      <4> SUFFICES ASSUME NEW i \in 1..Len(s) + 1
                   PROVE  F(t)[i] = a[i]
        OBVIOUS
      <4>1. F(t)[i] = g[i][t[i]]
        BY <2>3
      <4>2. CASE i = Len(s) + 1
        BY <2>1, <3>1, <4>1, <4>2 DEF y
      <4>3. CASE i \in 1..Len(s)
        <5>1. t[i] = s[i] /\ F(s)[i] = g[i][s[i]] /\ a[i] = F(s)[i]
          BY <2>1, <2>4, <3>1, <4>3
        <5>. QED BY <4>1, <5>1
      <4>. QED BY <2>1, <4>2, <4>3
    <3>3. F(t) = a
      BY <2>3, <3>1, <3>2, SeqEqual
    <3>. QED BY <3>3 DEF a
  <2>6. FlattenSeq(Append(F(s), y)) = FlattenSeq(F(s)) \o y
    BY <2>2, <2>4, FlattenSeqOfAppend
  <2>. QED BY <2>5, <2>6, ZenonT(20) DEF Indexed, F, t
<1>. QED BY <1>1, <1>3

-----------------------------------------------------------------------------
(* What each way of rendering a reply keeps of it.                         *)
\* An item that is no call adds its text, or nothing.
LEMMA RendersText ==
  ASSUME NEW items \in Seq(ReplyItem), NEW bs, NEW t, NEW says, Renders(items, bs, t, says),
         NEW x \in ReplyItem, x \notin CallItems
  PROVE  /\ Renders(Append(items, x), bs \o TextOrNothing(x.text), t, says \o ItemSays(FALSE, x))
         /\ Renders(Append(items, x), Append(bs, TextBlock(x.text)), t, says \o ItemSays(FALSE, x))
<1>1. x.text \in Text /\ bs \in Seq(ReplyBlock)
  BY ItemParts DEF Renders
<1>2. ItemSays(FALSE, x) = WordEvents("model", x.text)
  BY ItemsSayAppend
<1> DEFINE b == TextBlock(x.text)
           one == <<b>>
           some == TextOrNothing(x.text)
<1>3. /\ b \in ReplyBlock /\ one \in Seq(ReplyBlock) /\ UsesOf(one) = <<>>
      /\ BlocksSay(one) = WordEvents("model", x.text)
      /\ some \in Seq(ReplyBlock) /\ UsesOf(some) = <<>>
      /\ BlocksSay(some) = WordEvents("model", x.text)
  BY <1>1, TextPieces
<1>4. Append(bs, b) = bs \o one
  BY <1>1, <1>3, SeqSteps DEF SeqLaws
<1> HIDE DEF one, b, some
<1>5. Renders(Append(items, x), bs \o some, t, says \o BlocksSay(some))
  BY <1>3, RendersPiece
<1>6. Renders(Append(items, x), bs \o one, t, says \o BlocksSay(one))
  BY <1>3, RendersPiece
<1>7. Renders(Append(items, x), bs \o some, t, says \o ItemSays(FALSE, x))
  BY <1>2, <1>3, <1>5
<1>8. Renders(Append(items, x), Append(bs, b), t, says \o ItemSays(FALSE, x))
  BY <1>2, <1>3, <1>4, <1>6
<1>. QED BY <1>7, <1>8 DEF b, some

\* One JSON object.
WholePiece ==
  [i \in Nat \ {0} |->
     [x \in ReplyItem |-> IF x.kind = "call" THEN <<UseOf(x, i - 1)>> ELSE TextOrNothing(x.text)]]
LEMMA WholePieceTyped ==
  /\ IndexMaps(WholePiece, ReplyItem, ReplyBlock)
  /\ \A items \in Seq(ReplyItem) : WholeBlocks(items) = Indexed(WholePiece, items)
<1>1. IndexMaps(WholePiece, ReplyItem, ReplyBlock)
  <2>1. SUFFICES ASSUME NEW i \in Nat \ {0}, NEW x \in ReplyItem
                 PROVE  WholePiece[i][x] \in Seq(ReplyBlock)
    BY DEF IndexMaps
  <2> DEFINE b == UseOf(x, i - 1)
  <2>2. i - 1 \in Nat
    OBVIOUS
  <2>3. b \in ReplyBlock
    BY <2>2, UseOfTyped
  <2>4. <<b>> \in Seq(ReplyBlock)
    <3> HIDE DEF b
    <3>. QED BY <2>3, SeqSteps DEF SeqLaws
  <2>5. TextOrNothing(x.text) \in Seq(ReplyBlock)
    BY ItemParts, TextPieces
  <2>6. WholePiece[i][x] = IF x.kind = "call" THEN <<b>> ELSE TextOrNothing(x.text)
    BY DEF WholePiece
  <2>. QED BY <2>4, <2>5, <2>6
<1>2. ASSUME NEW items \in Seq(ReplyItem)
      PROVE  WholeBlocks(items) = Indexed(WholePiece, items)
  <2>1. \A i \in DOMAIN items :
          WholePiece[i][items[i]]
            = IF items[i].kind = "call"
              THEN <<ToolUse(IdOr(items[i].id, i - 1), items[i].text)>>
              ELSE TextOrNothing(items[i].text)
    BY DEF WholePiece, UseOf
  <2>2. [i \in DOMAIN items |-> WholePiece[i][items[i]]]
          = [i \in DOMAIN items |->
               IF items[i].kind = "call"
               THEN <<ToolUse(IdOr(items[i].id, i - 1), items[i].text)>>
               ELSE TextOrNothing(items[i].text)]
    BY <2>1
  <2>. QED BY <2>2 DEF WholeBlocks, Indexed
<1>. QED BY <1>1, <1>2

LEMMA WholeRenders ==
  ASSUME NEW items \in Seq(ReplyItem)
  PROVE  Renders(items, WholeBlocks(items), Len(items), ItemsSay(FALSE, items))
<1> DEFINE F(q) == Indexed(WholePiece, q)
           T == {q \in Seq(ReplyItem) : Renders(q, F(q), Len(q), ItemsSay(FALSE, q))}
<1>1. F(<<>>) = <<>> /\ \A q \in Seq(ReplyItem), x \in ReplyItem :
                          F(Append(q, x)) = F(q) \o WholePiece[Len(q) + 1][x]
  BY WholePieceTyped, IndexedLaws
<1>2. <<>> \in T
  <2>1. ItemsSay(FALSE, <<>>) = <<>>
    BY ItemSaysTyped DEF ItemsSay, MapLaws
  <2>2. Renders(<<>>, <<>>, 0, <<>>)
    BY RendersNothing
  <2>3. Len(<<>>) = 0 /\ <<>> \in Seq(ReplyItem)
    BY EmptySeq
  <2> HIDE DEF F
  <2>. QED BY <1>1, <2>1, <2>2, <2>3
<1>3. ASSUME NEW q \in Seq(ReplyItem), NEW x \in ReplyItem, q \in T
      PROVE  Append(q, x) \in T
  <2>1. Renders(q, F(q), Len(q), ItemsSay(FALSE, q))
    BY <1>3
  <2>2. /\ Append(q, x) \in Seq(ReplyItem) /\ Len(Append(q, x)) = Len(q) + 1
        /\ Len(q) \in Nat /\ Len(q) <= Len(q) + 1 /\ Len(q) <= Len(q)
        /\ Len(q) + 1 \in Nat \ {0} /\ (Len(q) + 1) - 1 = Len(q)
    BY AppendProperties
  <2>3. F(Append(q, x)) = F(q) \o WholePiece[Len(q) + 1][x]
    BY <1>1
  <2>4. WholePiece[Len(q) + 1][x]
          = IF x.kind = "call" THEN <<UseOf(x, Len(q))>> ELSE TextOrNothing(x.text)
    <3> DEFINE k == Len(q) + 1
    <3>1. WholePiece[k][x] = IF x.kind = "call" THEN <<UseOf(x, k - 1)>> ELSE TextOrNothing(x.text)
      BY <2>2 DEF WholePiece
    <3>. QED BY <2>2, <3>1
  <2>5. ItemsSay(FALSE, Append(q, x)) = ItemsSay(FALSE, q) \o ItemSays(FALSE, x)
    BY ItemsSayAppend
  <2> HIDE DEF F
  <2>6. CASE x \in CallItems
    <3>1. Renders(Append(q, x), Append(F(q), UseOf(x, Len(q))), Len(q) + 1,
                  ItemsSay(FALSE, q) \o ItemSays(FALSE, x))
          /\ Append(F(q), UseOf(x, Len(q))) = F(q) \o <<UseOf(x, Len(q))>>
      <4> DEFINE k == Len(q)
                 bs == F(q)
                 says == ItemsSay(FALSE, q)
      <4>1. Renders(q, bs, k, says) /\ k \in Nat /\ k <= k
        BY <2>1, <2>2
      <4> HIDE DEF k, bs, says
      <4>2. Renders(Append(q, x), Append(bs, UseOf(x, k)), k + 1, says \o ItemSays(FALSE, x))
        BY <2>6, <4>1, RendersCall
      <4> DEFINE b == UseOf(x, k)
      <4>3. b \in ReplyBlock /\ bs \in Seq(ReplyBlock)
        BY <4>1, UseOfTyped DEF Renders
      <4>4. Append(bs, b) = bs \o <<b>>
        <5> HIDE DEF b
        <5>. QED BY <4>3, SeqSteps DEF SeqLaws
      <4>. QED BY <4>2, <4>4 DEF k, bs, says
    <3>2. F(Append(q, x)) = Append(F(q), UseOf(x, Len(q)))
      BY <2>3, <2>4, <2>6, <3>1 DEF CallItems
    <3>. QED BY <2>2, <2>5, <3>1, <3>2
  <2>7. CASE x \notin CallItems
    <3>1. Renders(Append(q, x), F(q) \o TextOrNothing(x.text), Len(q),
                  ItemsSay(FALSE, q) \o ItemSays(FALSE, x))
      BY <2>1, <2>7, RendersText
    <3>2. F(Append(q, x)) = F(q) \o TextOrNothing(x.text)
      BY <2>3, <2>4, <2>7 DEF CallItems
    <3>3. Renders(Append(q, x), F(Append(q, x)), Len(q) + 1, ItemsSay(FALSE, Append(q, x)))
      BY <2>2, <2>5, <3>1, <3>2, RendersLater
    <3>. QED BY <2>2, <3>3
  <2>. QED BY <2>6, <2>7
<1> HIDE DEF T
<1>4. items \in T
  BY <1>2, <1>3, SequenceInduction
<1>5. Renders(items, F(items), Len(items), ItemsSay(FALSE, items))
  BY <1>4 DEF T
<1>. QED BY <1>5, WholePieceTyped

\* Streamed: numbered behind the blocks that are out already.
LEMMA StreamedRenders ==
  ASSUME NEW items \in Seq(ReplyItem), NEW next \in Nat
  PROVE  LET bs == StreamedBlocks(items, next)
         IN  Renders(items, bs, next + Len(bs), ItemsSay(FALSE, items))
<1> DEFINE F(q) == StreamedBlocks(q, next)
           T == {q \in Seq(ReplyItem) : Renders(q, F(q), next + Len(F(q)), ItemsSay(FALSE, q))}
<1>1. /\ F(<<>>) = <<>> /\ \A q \in Seq(ReplyItem) : F(q) \in Seq(ContentBlock)
      /\ \A q \in Seq(ReplyItem), x \in ReplyItem : F(Append(q, x)) = Add(next, F(q), x)
  BY StreamedBlocksProperties
<1>2. <<>> \in T
  <2>1. ItemsSay(FALSE, <<>>) = <<>>
    BY ItemSaysTyped DEF ItemsSay, MapLaws
  <2>2. Renders(<<>>, <<>>, next, <<>>)
    BY RendersNothing
  <2>3. next + Len(<<>>) = next /\ <<>> \in Seq(ReplyItem)
    BY EmptySeq
  <2> HIDE DEF F
  <2>. QED BY <1>1, <2>1, <2>2, <2>3
<1>3. ASSUME NEW q \in Seq(ReplyItem), NEW x \in ReplyItem, q \in T
      PROVE  Append(q, x) \in T
  <2> DEFINE bs == F(q)
             more == F(Append(q, x))
             p == next + Len(bs)
  <2>1. /\ Renders(q, bs, p, ItemsSay(FALSE, q)) /\ bs \in Seq(ReplyBlock)
        /\ more = Add(next, bs, x) /\ more \in Seq(ContentBlock)
    <3>1. Append(q, x) \in Seq(ReplyItem)
      BY AppendProperties
    <3>. QED BY <1>1, <1>3, <3>1 DEF Renders
  <2> HIDE DEF F
  <2>2. Append(q, x) \in Seq(ReplyItem) /\ Len(bs) \in Nat /\ p \in Nat /\ p <= p /\ Len(more) \in Nat
    BY <2>1, AppendProperties
  <2>3. ItemsSay(FALSE, Append(q, x)) = ItemsSay(FALSE, q) \o ItemSays(FALSE, x)
    BY ItemsSayAppend
  <2>4. CASE x \in CallItems
    <3>1. more = Append(bs, UseOf(x, p))
      BY <2>1, <2>4 DEF Add, UseOf, CallItems
    <3>2. Renders(Append(q, x), Append(bs, UseOf(x, p)), p + 1,
                  ItemsSay(FALSE, q) \o ItemSays(FALSE, x))
      BY <2>1, <2>2, <2>4, RendersCall
    <3>3. Len(more) = Len(bs) + 1
      BY <2>1, <2>2, <3>1, UseOfTyped, AppendProperties
    <3>4. next + Len(more) = p + 1
      BY <2>2, <3>3
    <3> HIDE DEF more, bs, p
    <3>5. Renders(Append(q, x), more, next + Len(more), ItemsSay(FALSE, Append(q, x)))
      BY <2>3, <3>1, <3>2, <3>4
    <3>. QED BY <2>2, <3>5 DEF more
  <2>5. CASE x \notin CallItems
    <3>1. /\ Renders(Append(q, x), bs \o TextOrNothing(x.text), p,
                     ItemsSay(FALSE, q) \o ItemSays(FALSE, x))
          /\ Renders(Append(q, x), Append(bs, TextBlock(x.text)), p,
                     ItemsSay(FALSE, q) \o ItemSays(FALSE, x))
      BY <2>1, <2>5, RendersText
    <3>2. more = bs \o TextOrNothing(x.text) \/ more = Append(bs, TextBlock(x.text))
      BY <2>1, <2>5 DEF Add, CallItems
    <3>3. Len(bs) <= Len(more)
      <4>1. x.text \in Text
        BY ItemParts
      <4>2. TextOrNothing(x.text) \in Seq(ReplyBlock) /\ TextBlock(x.text) \in ReplyBlock
        BY <4>1, TextPieces
      <4>3. Len(bs \o TextOrNothing(x.text)) = Len(bs) + Len(TextOrNothing(x.text))
            /\ Len(TextOrNothing(x.text)) \in Nat
        BY <2>1, <4>2, ConcatProperties, LenProperties
      <4>4. Len(Append(bs, TextBlock(x.text))) = Len(bs) + 1
        BY <2>1, <4>2, AppendProperties
      <4>. QED BY <2>2, <3>2, <4>3, <4>4
    <3>4. p <= next + Len(more) /\ next + Len(more) \in Nat
      BY <2>2, <3>3
    <3> HIDE DEF more, bs, p
    <3>5. Renders(Append(q, x), more, p, ItemsSay(FALSE, q) \o ItemSays(FALSE, x))
      BY <3>1, <3>2
    <3>6. Renders(Append(q, x), more, next + Len(more), ItemsSay(FALSE, q) \o ItemSays(FALSE, x))
      BY <2>2, <3>4, <3>5, RendersLater
    <3>. QED BY <2>2, <2>3, <3>6 DEF more
  <2>. QED BY <2>4, <2>5
<1> HIDE DEF T
<1>4. items \in T
  BY <1>2, <1>3, SequenceInduction
<1>. QED BY <1>4 DEF T

-----------------------------------------------------------------------------
\* Text that goes on in the last block.
LEMMA LastGrows ==
  ASSUME NEW out \in Seq(ReplyBlock), out # <<>>, Last(out).type = "text", NEW s \in Text
  PROVE  LET new == [out EXCEPT ![Len(out)].text = @ \o s]
         IN  /\ new \in Seq(ReplyBlock) /\ Len(new) = Len(out)
             /\ BlocksSay(new) = BlocksSay(out) \o WordEvents("model", s)
             /\ UsesOf(new) = UsesOf(out)
<1> DEFINE new == [out EXCEPT ![Len(out)].text = @ \o s]
           n == Len(out)
           front == Front(out)
           l == Last(out)
           g == [l EXCEPT !.text = @ \o s]
<1>1. n \in Nat /\ n > 0 /\ l = out[n] /\ l \in ReplyBlock /\ l.type = "text"
  BY DEF Last
<1>2. l.text \in Text /\ l.text \o s \in Text
  BY <1>1, ConcatProperties DEF ReplyBlock, ContentBlock, Text
<1>3. g \in ReplyBlock /\ g.type = "text" /\ g.text = l.text \o s
  BY <1>1, <1>2 DEF ReplyBlock, ContentBlock
<1>4. new \in Seq(ReplyBlock) /\ Len(new) = n /\ new[n] = g
      /\ \A i \in 1..n - 1 : new[i] = out[i]
  <2>1. new = [out EXCEPT ![n] = g]
    BY <1>1
  <2>2. n \in 1..Len(out) /\ out \in Seq(ReplyBlock) /\ DOMAIN out = 1..n
    BY <1>1
  <2> DEFINE more == [out EXCEPT ![n] = g]
  <2>3. more \in Seq(ReplyBlock) /\ Len(more) = Len(out)
        /\ \A i \in 1..Len(out) : more[i] = IF i = n THEN g ELSE out[i]
    <3> HIDE DEF g, n
    <3>1. DOMAIN more = 1..Len(out) /\ Len(out) \in Nat
      BY <2>2
    <3>4. more = [i \in DOMAIN more |-> more[i]]
      OBVIOUS
    <3>2. \A i \in 1..Len(out) : more[i] = IF i = n THEN g ELSE out[i]
      BY <2>2
    <3>3. \A i \in 1..Len(out) : more[i] \in ReplyBlock
      BY <1>3, <3>2
    <3> HIDE DEF more
    <3>. QED BY <3>1, <3>2, <3>3, <3>4, FunctionIsSeq
  <2> HIDE DEF more, g
  <2>4. new = more
    BY <2>1 DEF more
  <2> HIDE DEF new
  <2>5. \A i \in 1..n - 1 : i \in 1..Len(out) /\ i # n
    BY <1>1
  <2>6. n = Len(out)
    OBVIOUS
  <2> HIDE DEF n
  <2>. QED BY <2>2, <2>3, <2>4, <2>5, <2>6, Zenon
<1>5. front \in Seq(ReplyBlock) /\ <<l>> \in Seq(ReplyBlock) /\ out = front \o <<l>>
      /\ Len(front) = n - 1 /\ \A i \in 1..n - 1 : front[i] = out[i]
  <2>1. Len(front) = n - 1 /\ \A i \in 1..n - 1 : front[i] = out[i]
    BY <1>1, FrontTyped
  <2>. QED BY <2>1, FrontAndLast
<1> HIDE DEF g, l, front, new, n
<1> DEFINE one == <<l>>
           two == <<g>>
<1>6. two \in Seq(ReplyBlock) /\ front \o two \in Seq(ReplyBlock) /\ Len(front \o two) = n
      /\ (front \o two)[n] = g /\ \A i \in 1..n - 1 : (front \o two)[i] = out[i]
  <2>1. two \in Seq(ReplyBlock) /\ Len(two) = 1 /\ two[1] = g
    BY <1>3, SeqSteps DEF SeqLaws
  <2> HIDE DEF two
  <2>2. /\ front \o two \in Seq(ReplyBlock) /\ Len(front \o two) = Len(front) + Len(two)
        /\ \A i \in 1..Len(front) + Len(two) :
             (front \o two)[i] = IF i <= Len(front) THEN front[i] ELSE two[i - Len(front)]
    BY <1>5, <2>1, ConcatProperties
  <2>. QED BY <1>1, <1>5, <2>1, <2>2
<1>7. new = front \o two
  <2>1. \A i \in 1..n : new[i] = (front \o two)[i]
    BY <1>1, <1>4, <1>6
  <2>. QED BY <1>4, <1>6, <2>1, SeqEqual
<1>8. UsesOf(one) = <<>> /\ UsesOf(two) = <<>>
  BY <1>1, <1>3, UsesOfLaws
<1>9. BlocksSay(one) = WordEvents("model", l.text)
  <2>1. Mapped(EachSays, one) = EachSays[l]
    BY <1>1, BlocksSayLaws DEF MapLaws
  <2>. QED BY <1>1, <2>1, EachSaysTyped DEF BlocksSay, BlockSays
<1>10. BlocksSay(two) = WordEvents("model", l.text) \o WordEvents("model", s)
  <2>1. Mapped(EachSays, two) = EachSays[g]
    BY <1>3, BlocksSayLaws DEF MapLaws
  <2>2. EachSays[g] = WordEvents("model", l.text \o s)
    BY <1>3, EachSaysTyped DEF BlockSays
  <2>3. WordEvents("model", l.text \o s) = WordEvents("model", l.text) \o WordEvents("model", s)
    BY <1>2, WordEventsConcat DEF Side
  <2>. QED BY <2>1, <2>2, <2>3 DEF BlocksSay
<1>11. one \in Seq(ReplyBlock) /\ out = front \o one
  BY <1>5
<1> HIDE DEF one, two
<1>12. BlocksSay(out) = BlocksSay(front) \o BlocksSay(one) /\ UsesOf(out) = UsesOf(front) \o UsesOf(one)
  <2>1. Mapped(EachSays, front \o one) = Mapped(EachSays, front) \o Mapped(EachSays, one)
    BY <1>5, <1>11, BlocksSayLaws DEF MapLaws
  <2>2. UsesOf(front \o one) = UsesOf(front) \o UsesOf(one)
    BY <1>5, <1>11, UsesOfLaws
  <2>. QED BY <1>11, <2>1, <2>2, Zenon DEF BlocksSay
<1>13. BlocksSay(new) = BlocksSay(front) \o BlocksSay(two) /\ UsesOf(new) = UsesOf(front) \o UsesOf(two)
  BY <1>5, <1>6, <1>7, BlocksSayLaws, UsesOfLaws DEF MapLaws, BlocksSay
<1>14. BlocksSay(front) \o (WordEvents("model", l.text) \o WordEvents("model", s))
         = (BlocksSay(front) \o WordEvents("model", l.text)) \o WordEvents("model", s)
  <2>1. /\ BlocksSay(front) \in Seq(SaidEvent) /\ WordEvents("model", l.text) \in Seq(SaidEvent)
        /\ WordEvents("model", s) \in Seq(SaidEvent)
    BY <1>2, <1>5, BlocksSayLaws, WordEventsConcat DEF MapLaws, BlocksSay, Side
  <2> HIDE DEF l
  <2>2. Regrouped(BlocksSay(front), WordEvents("model", l.text), WordEvents("model", s))
    BY <2>1, Regroup, Zenon
  <2>. QED BY <2>2 DEF Regrouped
<1>15. BlocksSay(new) = BlocksSay(out) \o WordEvents("model", s)
  BY <1>9, <1>10, <1>12, <1>13, <1>14
<1>. QED BY <1>4, <1>8, <1>12, <1>13, <1>15 DEF new, n

LEMMA ChatAddRenders ==
  ASSUME NEW items \in Seq(ReplyItem), NEW out, NEW says, Renders(items, out, Len(out), says),
         NEW x \in ReplyItem
  PROVE  Renders(Append(items, x), ChatAdd(out, x), Len(ChatAdd(out, x)),
                 says \o ItemSays(FALSE, x))
<1> DEFINE n == Len(out)
           new == ChatAdd(out, x)
<1>1. out \in Seq(ReplyBlock) /\ n \in Nat /\ n <= n /\ x.text \in Text /\ says \in Seq(SaidEvent)
  BY ItemParts DEF Renders
<1>2. CASE x \in CallItems
  <2>1. new = Append(out, UseOf(x, n))
    BY <1>2 DEF ChatAdd, UseOf, CallItems
  <2>2. Len(new) = n + 1
    BY <1>1, <2>1, UseOfTyped, AppendProperties
  <2> HIDE DEF n
  <2>3. Renders(Append(items, x), Append(out, UseOf(x, n)), n + 1, says \o ItemSays(FALSE, x))
    BY <1>1, <1>2, RendersCall DEF n
  <2>. QED BY <2>1, <2>2, <2>3
<1>3. CASE x \notin CallItems
  <2>1. ItemSays(FALSE, x) = WordEvents("model", x.text) /\ x.kind # "call"
    BY <1>3, ItemsSayAppend DEF CallItems
  <2>2. CASE x.text = <<>>
    <3>1. new = out
      BY <2>1, <2>2 DEF ChatAdd
    <3>2. out = out \o TextOrNothing(x.text)
      BY <1>1, <2>2, ConcatEmptySeq DEF TextOrNothing
    <3>3. Renders(Append(items, x), out \o TextOrNothing(x.text), n, says \o ItemSays(FALSE, x))
      BY <1>3, RendersText
    <3>. QED BY <3>1, <3>2, <3>3
  <2>3. CASE x.text # <<>> /\ out # <<>> /\ Last(out).type = "text"
    <3>1. new = [out EXCEPT ![Len(out)].text = @ \o x.text]
      BY <2>1, <2>3 DEF ChatAdd
    <3>2. /\ new \in Seq(ReplyBlock) /\ Len(new) = n
          /\ BlocksSay(new) = BlocksSay(out) \o WordEvents("model", x.text)
          /\ UsesOf(new) = UsesOf(out)
      BY <1>1, <2>3, <3>1, LastGrows
    <3> HIDE DEF new, n
    <3>3. BlocksSay(new) = says \o ItemSays(FALSE, x)
      BY <2>1, <3>2 DEF Renders
    <3>4. says \o ItemSays(FALSE, x) \in Seq(SaidEvent)
      BY <1>1, ItemSaysTyped, ConcatProperties
    <3>5. ASSUME DistinctNames(Append(items, x))
          PROVE  Named(Append(items, x), UsesOf(new), n)
      <4>1. Named(items, UsesOf(out), n)
        BY <3>5, DistinctBefore DEF Renders, n
      <4>. QED BY <1>1, <3>2, <4>1, NamedMore
    <3>. QED BY <1>1, <3>2, <3>3, <3>4, <3>5 DEF Renders, new
  <2>4. CASE x.text # <<>> /\ (out = <<>> \/ Last(out).type # "text")
    <3>1. new = Append(out, TextBlock(x.text))
      BY <2>1, <2>4 DEF ChatAdd
    <3>2. Renders(Append(items, x), Append(out, TextBlock(x.text)), n, says \o ItemSays(FALSE, x))
      BY <1>3, RendersText
    <3>3. Len(new) = n + 1
      BY <1>1, <3>1, TextPieces, AppendProperties
    <3>4. n <= n + 1 /\ n + 1 \in Nat /\ Append(items, x) \in Seq(ReplyItem)
      BY <1>1, AppendProperties
    <3> HIDE DEF new, n
    <3>5. Renders(Append(items, x), new, n + 1, says \o ItemSays(FALSE, x))
      BY <3>1, <3>2, <3>4, RendersLater
    <3>. QED BY <3>3, <3>5 DEF new
  <2>. QED BY <2>2, <2>3, <2>4
<1>. QED BY <1>2, <1>3

\* Streamed by the chat API: numbered by the blocks of the message so far.
LEMMA ChatStreamedRenders ==
  ASSUME NEW items \in Seq(ReplyItem)
  PROVE  LET bs == ChatStreamedBlocks(items)
         IN  Renders(items, bs, Len(bs), ItemsSay(FALSE, items))
<1> DEFINE F(q) == ChatStreamedBlocks(q)
           T == {q \in Seq(ReplyItem) : Renders(q, F(q), Len(F(q)), ItemsSay(FALSE, q))}
<1>1. /\ F(<<>>) = <<>>
      /\ \A q \in Seq(ReplyItem), x \in ReplyItem : F(Append(q, x)) = ChatAdd(F(q), x)
  BY ChatStreamedBlocksProperties
<1>2. <<>> \in T
  <2>1. ItemsSay(FALSE, <<>>) = <<>>
    BY ItemSaysTyped DEF ItemsSay, MapLaws
  <2>2. Renders(<<>>, <<>>, 0, <<>>)
    BY RendersNothing
  <2>3. Len(<<>>) = 0 /\ <<>> \in Seq(ReplyItem)
    BY EmptySeq
  <2> HIDE DEF F
  <2>. QED BY <1>1, <2>1, <2>2, <2>3
<1>3. ASSUME NEW q \in Seq(ReplyItem), NEW x \in ReplyItem, q \in T
      PROVE  Append(q, x) \in T
  <2> DEFINE bs == F(q)
             more == F(Append(q, x))
             says == ItemsSay(FALSE, q)
  <2>1. Renders(q, bs, Len(bs), says) /\ more = ChatAdd(bs, x)
    BY <1>1, <1>3
  <2> HIDE DEF F, bs, says, more
  <2>2. Append(q, x) \in Seq(ReplyItem)
    BY AppendProperties
  <2>3. ItemsSay(FALSE, Append(q, x)) = says \o ItemSays(FALSE, x)
    BY ItemsSayAppend DEF says
  <2>4. Renders(Append(q, x), ChatAdd(bs, x), Len(ChatAdd(bs, x)), says \o ItemSays(FALSE, x))
    BY <2>1, ChatAddRenders
  <2>5. Renders(Append(q, x), more, Len(more), ItemsSay(FALSE, Append(q, x)))
    BY <2>1, <2>3, <2>4
  <2>. QED BY <2>2, <2>5 DEF more
<1> HIDE DEF T
<1>4. items \in T
  BY <1>2, <1>3, SequenceInduction
<1>. QED BY <1>4 DEF T

-----------------------------------------------------------------------------
\* What some items of a reply say.
SayOf(T, items) == ItemsSay(FALSE, Selected(T, items))
SayLaws(T) ==
  /\ SayOf(T, <<>>) = <<>>
  /\ \A q \in Seq(ReplyItem) : SayOf(T, q) \in Seq(SaidEvent)
  /\ \A q \in Seq(ReplyItem), x \in ReplyItem :
       SayOf(T, Append(q, x)) = SayOf(T, q) \o (IF x \in T THEN ItemSays(FALSE, x) ELSE <<>>)
LEMMA SayOfLaws ==
  ASSUME NEW T
  PROVE  SayLaws(T)
<1>1. MapLaws(ReplyItem, SaidEvent, EachItem(FALSE)) /\ SelectLaws(ReplyItem, T)
  BY ItemSaysTyped, SelectedLaws
<1>2. SayOf(T, <<>>) = <<>>
  BY <1>1 DEF MapLaws, SelectLaws, SayOf, ItemsSay
<1>3. ASSUME NEW q \in Seq(ReplyItem)
      PROVE  SayOf(T, q) \in Seq(SaidEvent) /\ Selected(T, q) \in Seq(ReplyItem)
  BY <1>1 DEF MapLaws, SelectLaws, SayOf, ItemsSay
<1>4. ASSUME NEW q \in Seq(ReplyItem), NEW x \in ReplyItem
      PROVE  SayOf(T, Append(q, x)) = SayOf(T, q) \o (IF x \in T THEN ItemSays(FALSE, x) ELSE <<>>)
  <2> DEFINE one == <<x>>
             sel == Selected(T, q)
  <2>1. Selected(T, Append(q, x)) = sel \o (IF x \in T THEN one ELSE <<>>)
    BY <1>1 DEF SelectLaws
  <2>2. one \in Seq(ReplyItem) /\ sel \in Seq(ReplyItem)
    BY <1>3, SeqSteps DEF SeqLaws
  <2>3. Mapped(EachItem(FALSE), one) = ItemSays(FALSE, x)
    BY <1>1, ItemSaysTyped DEF MapLaws
  <2> HIDE DEF one
  <2>4. Mapped(EachItem(FALSE), sel \o one) = Mapped(EachItem(FALSE), sel) \o ItemSays(FALSE, x)
    BY <1>1, <2>2, <2>3 DEF MapLaws
  <2>5. Mapped(EachItem(FALSE), sel) \in Seq(SaidEvent)
    BY <1>1, <2>2 DEF MapLaws
  <2>6. sel \o <<>> = sel /\ Mapped(EachItem(FALSE), sel) \o <<>> = Mapped(EachItem(FALSE), sel)
    BY <2>2, <2>5, ConcatEmptySeq
  <2>7. CASE x \in T
    BY <2>1, <2>4, <2>7 DEF SayOf, ItemsSay
  <2>8. CASE x \notin T
    BY <2>1, <2>6, <2>8 DEF SayOf, ItemsSay
  <2>. QED BY <2>7, <2>8
<1>. QED BY <1>2, <1>3, <1>4 DEF SayLaws

\* The calls of a reply alone, numbered by their items or among themselves.
CallPiece ==
  [i \in Nat \ {0} |->
     [x \in ReplyItem |-> IF x.kind = "call" THEN <<UseOf(x, i - 1)>> ELSE <<>>]]
ItemCalls(items) ==
  FlattenSeq([i \in DOMAIN items |->
                IF items[i].kind = "call"
                THEN <<ToolUse(IdOr(items[i].id, i - 1), items[i].text)>> ELSE <<>>])
UsesFrom(calls) == [i \in DOMAIN calls |-> UseOf(calls[i], i - 1)]
LEMMA CallPieceTyped ==
  /\ IndexMaps(CallPiece, ReplyItem, ReplyBlock)
  /\ \A items \in Seq(ReplyItem) : ItemCalls(items) = Indexed(CallPiece, items)
<1>1. IndexMaps(CallPiece, ReplyItem, ReplyBlock)
  <2>1. SUFFICES ASSUME NEW i \in Nat \ {0}, NEW x \in ReplyItem
                 PROVE  CallPiece[i][x] \in Seq(ReplyBlock)
    BY DEF IndexMaps
  <2> DEFINE b == UseOf(x, i - 1)
  <2>2. i - 1 \in Nat
    OBVIOUS
  <2>3. b \in ReplyBlock
    BY <2>2, UseOfTyped
  <2>4. <<b>> \in Seq(ReplyBlock) /\ <<>> \in Seq(ReplyBlock)
    <3> HIDE DEF b
    <3>. QED BY <2>3, SeqSteps DEF SeqLaws
  <2>5. CallPiece[i][x] = IF x.kind = "call" THEN <<b>> ELSE <<>>
    BY DEF CallPiece
  <2>. QED BY <2>4, <2>5
<1>2. ASSUME NEW items \in Seq(ReplyItem)
      PROVE  ItemCalls(items) = Indexed(CallPiece, items)
  <2>1. [i \in DOMAIN items |-> CallPiece[i][items[i]]]
          = [i \in DOMAIN items |->
               IF items[i].kind = "call"
               THEN <<ToolUse(IdOr(items[i].id, i - 1), items[i].text)>> ELSE <<>>]
    BY DEF CallPiece, UseOf
  <2>. QED BY <2>1 DEF ItemCalls, Indexed
<1>. QED BY <1>1, <1>2

LEMMA ItemCallsRender ==
  ASSUME NEW items \in Seq(ReplyItem)
  PROVE  Renders(items, ItemCalls(items), Len(items), SayOf(CallItems, items))
<1> DEFINE F(q) == Indexed(CallPiece, q)
           T == {q \in Seq(ReplyItem) : Renders(q, F(q), Len(q), SayOf(CallItems, q))}
<1>1. F(<<>>) = <<>> /\ \A q \in Seq(ReplyItem), x \in ReplyItem :
                          F(Append(q, x)) = F(q) \o CallPiece[Len(q) + 1][x]
  BY CallPieceTyped, IndexedLaws
<1>2. <<>> \in T
  <2>1. SayOf(CallItems, <<>>) = <<>>
    BY SayOfLaws DEF SayLaws
  <2>2. Renders(<<>>, <<>>, 0, <<>>)
    BY RendersNothing
  <2>3. Len(<<>>) = 0 /\ <<>> \in Seq(ReplyItem)
    BY EmptySeq
  <2> HIDE DEF F
  <2>. QED BY <1>1, <2>1, <2>2, <2>3
<1>3. ASSUME NEW q \in Seq(ReplyItem), NEW x \in ReplyItem, q \in T
      PROVE  Append(q, x) \in T
  <2> DEFINE k == Len(q)
             bs == F(q)
             says == SayOf(CallItems, q)
             b == UseOf(x, k)
  <2>1. Renders(q, bs, k, says)
    BY <1>3
  <2>2. /\ Append(q, x) \in Seq(ReplyItem) /\ Len(Append(q, x)) = k + 1
        /\ k \in Nat /\ k <= k + 1 /\ k <= k /\ k + 1 \in Nat \ {0} /\ (k + 1) - 1 = k
    BY AppendProperties
  <2>3. F(Append(q, x)) = bs \o CallPiece[k + 1][x]
    BY <1>1
  <2>4. CallPiece[k + 1][x] = IF x.kind = "call" THEN <<b>> ELSE <<>>
    <3> DEFINE n == k + 1
    <3>1. CallPiece[n][x] = IF x.kind = "call" THEN <<UseOf(x, n - 1)>> ELSE <<>>
      BY <2>2 DEF CallPiece
    <3>. QED BY <2>2, <3>1
  <2>5. SayOf(CallItems, Append(q, x))
          = says \o (IF x \in CallItems THEN ItemSays(FALSE, x) ELSE <<>>)
    BY SayOfLaws DEF SayLaws
  <2>6. bs \in Seq(ReplyBlock) /\ b \in ReplyBlock /\ says \in Seq(SaidEvent)
    BY <2>1, <2>2, UseOfTyped DEF Renders
  <2> DEFINE more == F(Append(q, x))
  <2>7. more = bs \o CallPiece[k + 1][x]
    BY <2>3
  <2> HIDE DEF F, k, bs, says, b, more
  <2>8. Append(bs, b) = bs \o <<b>> /\ bs \o <<>> = bs /\ says \o <<>> = says
    BY <2>6, SeqSteps DEF SeqLaws
  <2>9. CASE x \in CallItems
    <3>1. Renders(Append(q, x), Append(bs, UseOf(x, k)), k + 1, says \o ItemSays(FALSE, x))
      BY <2>1, <2>2, <2>9, RendersCall
    <3>2. more = Append(bs, b)
      BY <2>4, <2>7, <2>8, <2>9 DEF CallItems
    <3>. QED BY <2>2, <2>5, <2>9, <3>1, <3>2 DEF b, more
  <2>10. CASE x \notin CallItems
    <3>1. more = bs \o <<>>
      BY <2>4, <2>7, <2>10 DEF CallItems
    <3>2. UsesOf(<<>>) = <<>> /\ BlocksSay(<<>>) = <<>> /\ <<>> \in Seq(ReplyBlock)
      BY UsesOfLaws, BlocksSayLaws, EmptySeq DEF BlocksSay, MapLaws
    <3>3. Renders(Append(q, x), bs \o <<>>, k, says \o BlocksSay(<<>>))
      BY <2>1, <3>2, RendersPiece
    <3>4. Renders(Append(q, x), more, k, SayOf(CallItems, Append(q, x)))
      BY <2>5, <2>10, <3>1, <3>2, <3>3
    <3>5. Renders(Append(q, x), more, k + 1, SayOf(CallItems, Append(q, x)))
      BY <2>2, <3>4, RendersLater
    <3>. QED BY <2>2, <3>5 DEF more
  <2>. QED BY <2>9, <2>10
<1> HIDE DEF T
<1>4. items \in T
  BY <1>2, <1>3, SequenceInduction
<1>5. Renders(items, F(items), Len(items), SayOf(CallItems, items))
  BY <1>4 DEF T
<1>. QED BY <1>5, CallPieceTyped

LEMMA CallsAreSelected ==
  ASSUME NEW items \in Seq(ReplyItem)
  PROVE  Calls(items) = Selected(CallItems, items)
<1>1. [i \in DOMAIN items |-> IF items[i].kind = "call" THEN <<items[i]>> ELSE <<>>]
        = [i \in DOMAIN items |-> IF items[i] \in CallItems THEN <<items[i]>> ELSE <<>>]
  BY DEF CallItems
<1>. QED BY <1>1 DEF Calls, Only, Selected

LEMMA UsesFromAppend ==
  /\ UsesFrom(<<>>) = <<>>
  /\ \A calls \in Seq(ReplyItem), x \in ReplyItem :
       /\ UsesFrom(calls) \in Seq(ReplyBlock)
       /\ UsesFrom(Append(calls, x)) = Append(UsesFrom(calls), UseOf(x, Len(calls)))
<1>1. UsesFrom(<<>>) = <<>>
  BY DEF UsesFrom
<1>2. ASSUME NEW calls \in Seq(ReplyItem)
      PROVE  /\ UsesFrom(calls) \in Seq(ReplyBlock) /\ Len(UsesFrom(calls)) = Len(calls)
             /\ \A i \in 1..Len(calls) : UsesFrom(calls)[i] = UseOf(calls[i], i - 1)
  <2> DEFINE f == UsesFrom(calls)
  <2>1. DOMAIN f = 1..Len(calls) /\ Len(calls) \in Nat
        /\ \A i \in 1..Len(calls) : f[i] = UseOf(calls[i], i - 1)
    BY DEF UsesFrom
  <2>2. f = [i \in DOMAIN f |-> f[i]]
    BY DEF UsesFrom
  <2>3. ASSUME NEW i \in 1..Len(calls)
        PROVE  f[i] \in ReplyBlock
    <3>1. calls[i] \in ReplyItem /\ i - 1 \in Nat
      BY <2>1
    <3>. QED BY <2>1, <3>1, UseOfTyped
  <2> HIDE DEF f
  <2>4. f \in Seq(ReplyBlock) /\ Len(f) = Len(calls)
    BY <2>1, <2>2, <2>3, FunctionIsSeq
  <2>. QED BY <2>1, <2>4 DEF f
<1>3. ASSUME NEW calls \in Seq(ReplyItem), NEW x \in ReplyItem
      PROVE  UsesFrom(Append(calls, x)) = Append(UsesFrom(calls), UseOf(x, Len(calls)))
  <2> DEFINE s == Append(calls, x)
             n == Len(calls)
             a == UsesFrom(s)
             u == UsesFrom(calls)
             b == UseOf(x, n)
             c == Append(u, b)
  <2>1. s \in Seq(ReplyItem) /\ Len(s) = n + 1 /\ s[n + 1] = x /\ n \in Nat
        /\ \A i \in 1..n : s[i] = calls[i]
    BY AppendProperties
  <2>2. a \in Seq(ReplyBlock) /\ Len(a) = n + 1 /\ \A i \in 1..n + 1 : a[i] = UseOf(s[i], i - 1)
    BY <1>2, <2>1
  <2>3. u \in Seq(ReplyBlock) /\ Len(u) = n /\ \A i \in 1..n : u[i] = UseOf(calls[i], i - 1)
    BY <1>2
  <2>4. b \in ReplyBlock
    BY <2>1, UseOfTyped
  <2> HIDE DEF s, a, u, b
  <2>5. c \in Seq(ReplyBlock) /\ Len(c) = n + 1 /\ c[n + 1] = b /\ \A i \in 1..n : c[i] = u[i]
    BY <2>3, <2>4, AppendProperties
  <2> HIDE DEF c, n
  <2>6. \A i \in 1..n + 1 : a[i] = c[i]
    <3> SUFFICES ASSUME NEW i \in 1..n + 1
                 PROVE  a[i] = c[i]
      OBVIOUS
    <3>1. CASE i = n + 1
      <4>1. a[i] = UseOf(x, n)
        BY <2>1, <2>2, <3>1
      <4>. QED BY <2>5, <3>1, <4>1 DEF b
    <3>2. CASE i \in 1..n
      BY <2>1, <2>2, <2>3, <2>5, <3>2
    <3>. QED BY <2>1, <3>1, <3>2
  <2>7. a = c
    BY <2>2, <2>5, <2>6, SeqEqual
  <2>. QED BY <2>7 DEF a, c, s, u, b, n
<1>. QED BY <1>1, <1>2, <1>3

LEMMA ChatCallsRender ==
  ASSUME NEW items \in Seq(ReplyItem)
  PROVE  Renders(items, UsesFrom(Calls(items)), Len(Calls(items)), SayOf(CallItems, items))
<1> DEFINE C(q) == Selected(CallItems, q)
           F(q) == UsesFrom(C(q))
           T == {q \in Seq(ReplyItem) : Renders(q, F(q), Len(C(q)), SayOf(CallItems, q))}
<1>1. SelectLaws(ReplyItem, CallItems)
  BY SelectedLaws
<1>2. <<>> \in T
  <2>1. SayOf(CallItems, <<>>) = <<>> /\ C(<<>>) = <<>>
    BY <1>1, SayOfLaws DEF SayLaws, SelectLaws
  <2>2. Renders(<<>>, <<>>, 0, <<>>)
    BY RendersNothing
  <2>3. Len(<<>>) = 0 /\ <<>> \in Seq(ReplyItem)
    BY EmptySeq
  <2>4. F(<<>>) = <<>>
    BY <2>1, UsesFromAppend
  <2> HIDE DEF F, C
  <2>. QED BY <2>1, <2>2, <2>3, <2>4
<1>3. ASSUME NEW q \in Seq(ReplyItem), NEW x \in ReplyItem, q \in T
      PROVE  Append(q, x) \in T
  <2> DEFINE k == Len(C(q))
             bs == F(q)
             says == SayOf(CallItems, q)
             b == UseOf(x, k)
             calls == C(q)
             more == F(Append(q, x))
             next == C(Append(q, x))
  <2>1. Renders(q, bs, k, says)
    BY <1>3
  <2>2. Append(q, x) \in Seq(ReplyItem) /\ calls \in Seq(ReplyItem)
        /\ next = calls \o (IF x \in CallItems THEN <<x>> ELSE <<>>)
    BY <1>1, AppendProperties DEF SelectLaws
  <2>3. SayOf(CallItems, Append(q, x))
          = says \o (IF x \in CallItems THEN ItemSays(FALSE, x) ELSE <<>>)
    BY SayOfLaws DEF SayLaws
  <2>4. k = Len(calls) /\ bs = UsesFrom(calls) /\ more = UsesFrom(next) /\ k \in Nat /\ k <= k
    BY <2>2
  <2>5. bs \in Seq(ReplyBlock) /\ says \in Seq(SaidEvent)
    BY <2>1 DEF Renders
  <2>6. Len(C(Append(q, x))) = Len(next)
    OBVIOUS
  <2>7. Append(q, x) \in T <=> Renders(Append(q, x), more, Len(next), SayOf(CallItems, Append(q, x)))
    BY <2>2
  <2> HIDE DEF C, F, T, k, bs, says, b, calls, more, next
  <2>8. CASE x \in CallItems
    <3>1. next = Append(calls, x)
      BY <2>2, <2>8, SeqSteps DEF SeqLaws
    <3>2. Len(next) = k + 1 /\ more = Append(bs, b)
      <4>1. Len(next) = k + 1
        BY <2>2, <2>4, <3>1, AppendProperties
      <4>2. UsesFrom(Append(calls, x)) = Append(UsesFrom(calls), UseOf(x, Len(calls)))
        BY <2>2, UsesFromAppend
      <4>. QED BY <2>4, <3>1, <4>1, <4>2 DEF b
    <3>3. Renders(Append(q, x), Append(bs, UseOf(x, k)), k + 1, says \o ItemSays(FALSE, x))
      BY <2>1, <2>4, <2>8, RendersCall
    <3>4. Renders(Append(q, x), more, Len(next), SayOf(CallItems, Append(q, x)))
      BY <2>3, <2>8, <3>2, <3>3 DEF b
    <3>. QED BY <2>7, <3>4
  <2>9. CASE x \notin CallItems
    <3>1. next = calls
      BY <2>2, <2>9, SeqSteps DEF SeqLaws
    <3>2. Len(next) = k /\ more = bs
      BY <2>4, <3>1
    <3>3. bs = bs \o <<>>
      BY <2>5, ConcatEmptySeq
    <3>4. UsesOf(<<>>) = <<>> /\ BlocksSay(<<>>) = <<>> /\ <<>> \in Seq(ReplyBlock)
      BY UsesOfLaws, BlocksSayLaws, EmptySeq DEF BlocksSay, MapLaws
    <3>5. Renders(Append(q, x), bs \o <<>>, k, says \o BlocksSay(<<>>))
      BY <2>1, <3>4, RendersPiece
    <3>6. Renders(Append(q, x), more, Len(next), SayOf(CallItems, Append(q, x)))
      BY <2>3, <2>9, <3>2, <3>3, <3>4, <3>5
    <3>. QED BY <2>7, <3>6
  <2>. QED BY <2>8, <2>9
<1> HIDE DEF T
<1>4. items \in T
  BY <1>2, <1>3, SequenceInduction
<1>5. Renders(items, F(items), Len(C(items)), SayOf(CallItems, items))
  BY <1>4 DEF T
<1>. QED BY <1>5, CallsAreSelected

\* The reasoning of a reply in one text.
LEMMA ThoughtsSay ==
  ASSUME NEW items \in Seq(ReplyItem)
  PROVE  SayOf(ThoughtItems, items) = WordEvents("model", Said(items, "reasoning"))
<1> DEFINE T == {q \in Seq(ReplyItem) :
                   SayOf(ThoughtItems, q) = WordEvents("model", Said(q, "reasoning"))}
<1>1. <<>> \in T
  <2>1. Said(<<>>, "reasoning") = <<>> /\ WordEvents("model", <<>>) = <<>>
    BY SaidProperties, WordEventsConcat DEF Side
  <2>2. SayOf(ThoughtItems, <<>>) = <<>>
    BY SayOfLaws DEF SayLaws
  <2>. QED BY <2>1, <2>2, EmptySeq
<1>2. ASSUME NEW q \in Seq(ReplyItem), NEW x \in ReplyItem, q \in T
      PROVE  Append(q, x) \in T
  <2> DEFINE r == Said(q, "reasoning")
             w == WordEvents("model", r)
             v == WordEvents("model", x.text)
  <2>1. r \in Text /\ x.text \in Text
    BY SaidTyped, ItemParts
  <2>2. WordEvents("model", r \o x.text) = w \o v /\ w \in Seq(SaidEvent)
    BY <2>1, WordEventsConcat DEF Side
  <2>3. Said(Append(q, x), "reasoning") = r \o (IF x.kind = "reasoning" THEN x.text ELSE <<>>)
    BY SaidProperties
  <2>4. SayOf(ThoughtItems, Append(q, x))
          = SayOf(ThoughtItems, q) \o (IF x \in ThoughtItems THEN ItemSays(FALSE, x) ELSE <<>>)
    BY SayOfLaws DEF SayLaws
  <2>5. SayOf(ThoughtItems, q) = w
    BY <1>2
  <2>6. r \o <<>> = r /\ w \o <<>> = w
    BY <2>1, <2>2, ConcatEmptySeq DEF Text
  <2>7. x \in ThoughtItems => ItemSays(FALSE, x) = v /\ x.kind = "reasoning"
    BY ItemsSayAppend DEF ThoughtItems, CallItems
  <2>8. x \notin ThoughtItems => x.kind # "reasoning"
    BY DEF ThoughtItems
  <2>9. Append(q, x) \in Seq(ReplyItem)
    BY AppendProperties
  <2> HIDE DEF r, w, v
  <2>10. SayOf(ThoughtItems, Append(q, x)) = WordEvents("model", Said(Append(q, x), "reasoning"))
    <3>1. CASE x \in ThoughtItems
      BY <2>2, <2>3, <2>4, <2>5, <2>7, <3>1
    <3>2. CASE x \notin ThoughtItems
      BY <2>3, <2>4, <2>5, <2>6, <2>8, <3>2 DEF w
    <3>. QED BY <3>1, <3>2
  <2>. QED BY <2>9, <2>10
<1> HIDE DEF T
<1>3. items \in T
  BY <1>1, <1>2, SequenceInduction
<1>. QED BY <1>3 DEF T

-----------------------------------------------------------------------------
\* Events that no track has both of may change places.
LEMMA Commute ==
  ASSUME NEW a \in Seq(SaidEvent), NEW b \in Seq(SaidEvent),
         \A Q \in EventTracks : Selected(Q, a) = <<>> \/ Selected(Q, b) = <<>>
  PROVE  Alike(a \o b, b \o a)
<1> SUFFICES ASSUME NEW Q \in EventTracks
             PROVE  Selected(Q, a \o b) = Selected(Q, b \o a)
  BY DEF Alike
<1>1. SelectLaws(SaidEvent, Q)
  BY SelectedLaws
<1> DEFINE c == Selected(Q, a)
           d == Selected(Q, b)
<1>2. /\ Selected(Q, a \o b) = c \o d /\ Selected(Q, b \o a) = d \o c
      /\ c \in Seq(SaidEvent) /\ d \in Seq(SaidEvent)
  BY <1>1 DEF SelectLaws
<1>3. c = <<>> \/ d = <<>>
  OBVIOUS
<1> HIDE DEF c, d
<1>4. c \o d = d \o c
  <2>1. c \o <<>> = c /\ <<>> \o c = c /\ d \o <<>> = d /\ <<>> \o d = d
    BY <1>2, ConcatEmptySeq
  <2>. QED BY <1>3, <2>1
<1>. QED BY <1>2, <1>4

\* The model's words and its calls are on different tracks.
ModelWords == {e \in SaidEvent : e.side = "model" /\ e.kind = "words"}
ModelCalls == {e \in SaidEvent : e.side = "model" /\ e.kind = "call"}
LEMMA WordsAndCalls ==
  ASSUME NEW w \in Seq(ModelWords), NEW c \in Seq(ModelCalls)
  PROVE  Alike(c \o w, w \o c)
<1>1. w \in Seq(SaidEvent) /\ c \in Seq(SaidEvent)
      /\ (\A i \in DOMAIN w : w[i] \in ModelWords) /\ (\A i \in DOMAIN c : c[i] \in ModelCalls)
  BY DEF ModelWords, ModelCalls
<1>2. ASSUME NEW Q \in EventTracks
      PROVE  Selected(Q, c) = <<>> \/ Selected(Q, w) = <<>>
  <2>1. Q = OfKind({"words"}) \/ (\A e \in ModelWords : e \notin Q)
    BY DEF EventTracks, OfKind, OfUser, ModelWords
  <2>2. \A e \in ModelCalls : e \notin OfKind({"words"})
    BY DEF OfKind, ModelCalls
  <2>3. CASE Q = OfKind({"words"})
    <3>1. \A i \in DOMAIN c : c[i] \notin Q
      BY <1>1, <2>2, <2>3
    <3>. QED BY <1>1, <3>1, SelectedNone
  <2>4. CASE \A e \in ModelWords : e \notin Q
    <3>1. \A i \in DOMAIN w : w[i] \notin Q
      BY <1>1, <2>4
    <3>. QED BY <1>1, <3>1, SelectedNone
  <2>. QED BY <2>1, <2>3, <2>4
<1>. QED BY <1>1, <1>2, Commute

LEMMA ModelWordsTyped ==
  ASSUME NEW s \in Text
  PROVE  WordEvents("model", s) \in Seq(ModelWords)
<1>1. Words(s) \in Seq(Fragment)
  BY WordsAreFragments
<1>2. Sends(OneEvent("model"), Fragment, ModelWords)
  <2>1. SUFFICES ASSUME NEW f \in Fragment
                 PROVE  OneEvent("model")[f] \in ModelWords
    BY DEF Sends, OneEvent
  <2>2. OneEvent("model")[f] = Event("model", "words", <<f>>, <<>>)
        /\ OneEvent("model")[f] \in SaidEvent
    BY FragmentTyped DEF Sends, Side
  <2>. QED BY <2>2 DEF ModelWords, Event
<1>3. WordEvents("model", s) = Image(OneEvent("model"), Words(s))
  BY WordEventsAre DEF Side
<1>. QED BY <1>1, <1>2, <1>3, ImageTyped

LEMMA CallsAreCalls ==
  ASSUME NEW items \in Seq(ReplyItem)
  PROVE  SayOf(CallItems, items) \in Seq(ModelCalls)
<1> DEFINE T == {q \in Seq(ReplyItem) : SayOf(CallItems, q) \in Seq(ModelCalls)}
<1>1. <<>> \in T
  <2>1. SayOf(CallItems, <<>>) = <<>>
    BY SayOfLaws DEF SayLaws
  <2>2. <<>> \in Seq(ModelCalls) /\ <<>> \in Seq(ReplyItem)
    BY EmptySeq
  <2>. QED BY <2>1, <2>2
<1>2. ASSUME NEW q \in Seq(ReplyItem), NEW x \in ReplyItem, q \in T
      PROVE  Append(q, x) \in T
  <2>1. SayOf(CallItems, Append(q, x))
          = SayOf(CallItems, q) \o (IF x \in CallItems THEN ItemSays(FALSE, x) ELSE <<>>)
    BY SayOfLaws DEF SayLaws
  <2>2. Append(q, x) \in Seq(ReplyItem)
    BY AppendProperties
  <2>3. ASSUME x \in CallItems
        PROVE  ItemSays(FALSE, x) \in Seq(ModelCalls)
    <3> DEFINE e == Event("model", "call", x.text, <<>>)
    <3>1. ItemSays(FALSE, x) = <<e>>
      BY <2>3 DEF ItemSays, CallItems
    <3>2. e \in ModelCalls
      <4>1. x.text \in Text /\ <<>> \in Text
        BY ItemParts, EmptySeq DEF Text
      <4>. QED BY <4>1 DEF Event, SaidEvent, ModelCalls
    <3> HIDE DEF e
    <3>3. SeqLaws(ModelCalls)
      BY SeqSteps
    <3>. QED BY <3>1, <3>2, <3>3 DEF SeqLaws
  <2>4. <<>> \in Seq(ModelCalls) /\ SayOf(CallItems, q) \in Seq(ModelCalls)
    BY <1>2, EmptySeq
  <2>5. SayOf(CallItems, Append(q, x)) \in Seq(ModelCalls)
    BY <2>1, <2>3, <2>4, ConcatProperties
  <2>. QED BY <2>2, <2>5
<1> HIDE DEF T
<1>3. items \in T
  BY <1>1, <1>2, SequenceInduction
<1>. QED BY <1>3 DEF T

\* What is spoken, its text and its calls apart.
LEMMA SpokenSays ==
  ASSUME NEW items \in Seq(ReplyItem)
  PROVE  Alike(SayOf(SpokenItems, items),
               WordEvents("model", Said(items, "message")) \o SayOf(CallItems, items))
<1> DEFINE W(q) == WordEvents("model", Said(q, "message"))
           C(q) == SayOf(CallItems, q)
           S(q) == SayOf(SpokenItems, q)
           T == {q \in Seq(ReplyItem) : Alike(S(q), W(q) \o C(q))}
<1>1. <<>> \in T
  <2>1. W(<<>>) = <<>> /\ C(<<>>) = <<>> /\ S(<<>>) = <<>>
    BY SayOfLaws, SaidProperties, WordEventsConcat DEF SayLaws, Side
  <2>2. <<>> \o <<>> = <<>>
    OBVIOUS
  <2>3. Alike(<<>>, <<>>)
    BY AlikeIsEquivalence
  <2> HIDE DEF W, C, S
  <2>. QED BY <2>1, <2>2, <2>3, EmptySeq
<1>2. ASSUME NEW q \in Seq(ReplyItem), NEW x \in ReplyItem, q \in T
      PROVE  Append(q, x) \in T
  <2> DEFINE w == W(q)
             c == C(q)
             s == S(q)
             v == ItemSays(FALSE, x)
             t == Append(q, x)
  <2>1. /\ C(t) = c \o (IF x \in CallItems THEN v ELSE <<>>)
        /\ S(t) = s \o (IF x \in SpokenItems THEN v ELSE <<>>)
        /\ c \in Seq(SaidEvent) /\ s \in Seq(SaidEvent)
    <3>1. SayLaws(CallItems) /\ SayLaws(SpokenItems)
      BY SayOfLaws
    <3>. QED BY <3>1, Zenon DEF SayLaws
  <2>2. /\ w \in Seq(ModelWords) /\ w \in Seq(SaidEvent) /\ v \in Seq(SaidEvent)
        /\ c \in Seq(ModelCalls)
    BY SaidTyped, ModelWordsTyped, CallsAreCalls, ItemSaysTyped, WordEventsConcat DEF Side
  <2>3. W(t) = w \o (IF x.kind = "message" THEN WordEvents("model", x.text) ELSE <<>>)
        /\ (x.kind = "message" => v \in Seq(ModelWords) /\ v = WordEvents("model", x.text))
    <3>1. Said(t, "message") = Said(q, "message") \o (IF x.kind = "message" THEN x.text ELSE <<>>)
      BY SaidProperties
    <3>2. Said(q, "message") \in Text /\ x.text \in Text
      BY SaidTyped, ItemParts
    <3>3. x.kind = "message" => v = WordEvents("model", x.text)
      BY ItemsSayAppend DEF CallItems
    <3>4. WordEvents("model", x.text) \in Seq(ModelWords)
      BY <3>2, ModelWordsTyped
    <3>5. WordEvents("model", Said(q, "message") \o x.text) = w \o WordEvents("model", x.text)
      BY <3>2, WordEventsConcat DEF Side
    <3>6. Said(q, "message") \o <<>> = Said(q, "message") /\ w \o <<>> = w
      BY <2>2, <3>2, ConcatEmptySeq DEF Text
    <3>7. CASE x.kind = "message"
      BY <3>1, <3>3, <3>4, <3>5, <3>7
    <3>8. CASE x.kind # "message"
      BY <3>1, <3>6, <3>8
    <3>. QED BY <3>7, <3>8
  <2>4. Alike(s, w \o c)
    BY <1>2
  <2>5. t \in Seq(ReplyItem)
    BY AppendProperties
  <2>6. x \in CallItems <=> x.kind = "call"
    BY ItemParts
  <2>7. x \in SpokenItems <=> x.kind # "reasoning"
    BY DEF SpokenItems
  <2>8. t \in T <=> Alike(S(t), W(t) \o C(t))
    BY <2>5
  <2> HIDE DEF W, C, S, T, w, c, s, v, t
  <2>9. w \o c \in Seq(SaidEvent) /\ Alike(v, v)
    BY <2>1, <2>2, ConcatProperties, AlikeIsEquivalence
  <2>10. Alike(s \o v, (w \o c) \o v)
    BY <2>1, <2>2, <2>4, <2>9, AlikeIsCongruence
  <2>15. SeqLaws(SaidEvent)
    BY SeqSteps
  <2>11. CASE x.kind = "call"
    <3>1. C(t) = c \o v /\ S(t) = s \o v /\ W(t) = w \o <<>>
      BY <2>1, <2>3, <2>6, <2>7, <2>11
    <3>2. w \o <<>> = w /\ (w \o c) \o v = w \o (c \o v)
      <4>1. Regrouped(w, c, v)
        BY <2>1, <2>2, Regroup, Zenon
      <4>. QED BY <2>2, <4>1, ConcatEmptySeq DEF Regrouped
    <3>. QED BY <2>8, <2>10, <3>1, <3>2 DEF t
  <2>12. CASE x.kind = "message"
    <3>1. C(t) = c \o <<>> /\ S(t) = s \o v /\ W(t) = w \o v /\ v \in Seq(ModelWords)
      BY <2>1, <2>3, <2>6, <2>7, <2>12
    <3>2. c \o <<>> = c /\ (w \o c) \o v = w \o (c \o v) /\ (w \o v) \o c = w \o (v \o c)
      <4>1. Regrouped(w, c, v) /\ Regrouped(w, v, c)
        BY <2>1, <2>2, Regroup, Zenon
      <4>. QED BY <2>1, <4>1, ConcatEmptySeq DEF Regrouped
    <3>3. Alike(c \o v, v \o c)
      BY <2>2, <3>1, WordsAndCalls
    <3>4. Alike(w, w) /\ c \o v \in Seq(SaidEvent) /\ v \o c \in Seq(SaidEvent)
      BY <2>1, <2>2, ConcatProperties, AlikeIsEquivalence
    <3>5. Alike(w \o (c \o v), w \o (v \o c))
      BY <2>2, <3>3, <3>4, AlikeIsCongruence
    <3>6. Alike(s \o v, w \o (v \o c))
      BY <2>10, <3>2, <3>5, AlikeIsEquivalence
    <3>. QED BY <2>8, <3>1, <3>2, <3>6 DEF t
  <2>13. CASE x.kind = "reasoning"
    <3>1. C(t) = c \o <<>> /\ S(t) = s \o <<>> /\ W(t) = w \o <<>>
      BY <2>1, <2>3, <2>6, <2>7, <2>13
    <3>2. c \o <<>> = c /\ s \o <<>> = s /\ w \o <<>> = w
      BY <2>1, <2>2, <2>15 DEF SeqLaws
    <3>. QED BY <2>4, <2>8, <3>1, <3>2 DEF t
  <2>14. x.kind \in {"call", "message", "reasoning"}
    BY ItemParts
  <2>. QED BY <2>11, <2>12, <2>13, <2>14 DEF t
<1> HIDE DEF T
<1>3. items \in T
  BY <1>1, <1>2, SequenceInduction
<1>. QED BY <1>3 DEF T

-----------------------------------------------------------------------------
\* Reasoning, text and calls in this order.
LEMMA PartedRenders ==
  ASSUME NEW items \in Seq(ReplyItem), NEW calls, NEW t,
         Renders(items, calls, t, SayOf(CallItems, items))
  PROVE  LET bs == TextOrNothing(Said(items, "reasoning"))
                   \o TextOrNothing(Said(items, "message")) \o calls
         IN  /\ bs \in Seq(ReplyBlock)
             /\ Alike(SayOf(ThoughtItems, items) \o SayOf(SpokenItems, items), BlocksSay(bs))
             /\ DistinctNames(items) => Named(items, UsesOf(bs), t)
<1> DEFINE r == TextOrNothing(Said(items, "reasoning"))
           m == TextOrNothing(Said(items, "message"))
           w == WordEvents("model", Said(items, "reasoning"))
           v == WordEvents("model", Said(items, "message"))
           c == SayOf(CallItems, items)
           bs == (r \o m) \o calls
<1>1. Said(items, "reasoning") \in Text /\ Said(items, "message") \in Text
  BY SaidTyped
<1>2. /\ r \in Seq(ReplyBlock) /\ m \in Seq(ReplyBlock)
      /\ BlocksSay(r) = w /\ BlocksSay(m) = v /\ UsesOf(r) = <<>> /\ UsesOf(m) = <<>>
  BY <1>1, TextPieces
<1>3. /\ calls \in Seq(ReplyBlock) /\ BlocksSay(calls) = c
      /\ DistinctNames(items) => Named(items, UsesOf(calls), t)
  BY DEF Renders
<1>4. /\ w \in Seq(SaidEvent) /\ v \in Seq(SaidEvent) /\ c \in Seq(SaidEvent)
      /\ SayOf(SpokenItems, items) \in Seq(SaidEvent)
  BY <1>1, SayOfLaws, WordEventsConcat DEF SayLaws, Side
<1>5. SayOf(ThoughtItems, items) = w
  BY ThoughtsSay
<1>6. Alike(SayOf(SpokenItems, items), v \o c)
  BY SpokenSays
<1> HIDE DEF r, m, w, v, c
<1>7. r \o m \in Seq(ReplyBlock) /\ (r \o m) \o calls \in Seq(ReplyBlock)
  BY <1>2, <1>3, ConcatProperties
<1>8. BlocksSay(r \o m) = w \o v
  BY <1>2, BlocksSayLaws DEF MapLaws, BlocksSay
<1>9. BlocksSay((r \o m) \o calls) = (w \o v) \o c
  BY <1>3, <1>7, <1>8, BlocksSayLaws DEF MapLaws, BlocksSay
<1>10. UsesOf(r \o m) = <<>>
  <2>1. UsesOf(r \o m) = <<>> \o <<>>
    BY <1>2, UsesOfLaws
  <2>. QED BY <2>1
<1>11. UsesOf((r \o m) \o calls) = UsesOf(calls)
  <2>1. UsesOf((r \o m) \o calls) = UsesOf(r \o m) \o UsesOf(calls) /\ UsesOf(calls) \in Seq(Uses)
    BY <1>3, <1>7, UsesOfLaws
  <2>. QED BY <1>10, <2>1, ConcatEmptySeq
<1>12. Alike(w \o SayOf(SpokenItems, items), (w \o v) \o c)
  <2>1. Alike(w, w) /\ v \o c \in Seq(SaidEvent)
    BY <1>4, AlikeIsEquivalence, ConcatProperties
  <2>2. Alike(w \o SayOf(SpokenItems, items), w \o (v \o c))
    BY <1>4, <1>6, <2>1, AlikeIsCongruence
  <2>3. w \o (v \o c) = (w \o v) \o c
    <3>1. Regrouped(w, v, c)
      BY <1>4, Regroup, Zenon
    <3>. QED BY <3>1 DEF Regrouped
  <2>. QED BY <2>2, <2>3
<1>. QED BY <1>3, <1>5, <1>7, <1>9, <1>11, <1>12 DEF r, m

\* A chat message's reasoning stands in front.
ReasonsFirst(items) == \A i \in DOMAIN items : items[i].kind = "reasoning" => i = 1
LEMMA FirstIsFirst ==
  ASSUME NEW items \in Seq(ReplyItem), ReasonsFirst(items)
  PROVE  Selected(ThoughtItems, items) \o Selected(SpokenItems, items) = items
<1> DEFINE R(q) == Selected(ThoughtItems, q)
           S(q) == Selected(SpokenItems, q)
           T == {q \in Seq(ReplyItem) : ReasonsFirst(q) => R(q) \o S(q) = q}
<1>1. SelectLaws(ReplyItem, ThoughtItems) /\ SelectLaws(ReplyItem, SpokenItems) /\ SeqLaws(ReplyItem)
  BY SelectedLaws, SeqSteps
<1>2. R(<<>>) = <<>> /\ S(<<>>) = <<>>
  BY <1>1 DEF SelectLaws
<1>3. <<>> \in T
  <2>1. <<>> \o <<>> = <<>> /\ <<>> \in Seq(ReplyItem)
    BY EmptySeq
  <2> HIDE DEF R, S
  <2>. QED BY <1>2, <2>1
<1>4. ASSUME NEW q \in Seq(ReplyItem), NEW x \in ReplyItem, q \in T
      PROVE  Append(q, x) \in T
  <2> DEFINE r == R(q)
             s == S(q)
             t == Append(q, x)
             one == <<x>>
  <2>1. /\ R(t) = r \o (IF x \in ThoughtItems THEN one ELSE <<>>)
        /\ S(t) = s \o (IF x \in SpokenItems THEN one ELSE <<>>)
        /\ r \in Seq(ReplyItem) /\ s \in Seq(ReplyItem)
    BY <1>1 DEF SelectLaws
  <2>2. one \in Seq(ReplyItem) /\ t \in Seq(ReplyItem) /\ t = q \o one
    BY <1>1 DEF SeqLaws
  <2>3. ReasonsFirst(q) => r \o s = q
    BY <1>4
  <2>4. DOMAIN q = 1..Len(q) /\ DOMAIN t = 1..Len(q) + 1 /\ Len(q) \in Nat
        /\ t[Len(q) + 1] = x /\ \A i \in DOMAIN q : t[i] = q[i]
    BY AppendProperties
  <2>5. SUFFICES ASSUME ReasonsFirst(t)
                 PROVE  R(t) \o S(t) = t
    BY <2>2
  <2>6. ReasonsFirst(q)
    <3> SUFFICES ASSUME NEW i \in DOMAIN q, q[i].kind = "reasoning"
                 PROVE  i = 1
      BY DEF ReasonsFirst
    <3>1. i \in DOMAIN t /\ t[i] = q[i]
      BY <2>4
    <3>. QED BY <2>5, <3>1 DEF ReasonsFirst
  <2> HIDE DEF R, S, one
  <2>7. CASE x.kind = "reasoning"
    <3>1. Len(q) + 1 \in DOMAIN t
      BY <2>4
    <3>2. Len(q) = 0
      BY <2>4, <2>5, <2>7, <3>1 DEF ReasonsFirst
    <3>3. q = <<>>
      BY <3>2, EmptySeq
    <3>4. r = <<>> /\ s = <<>>
      BY <1>2, <3>3
    <3>5. R(t) = one /\ S(t) = <<>> /\ t = one
      <4>1. x \in ThoughtItems /\ x \notin SpokenItems
        BY <2>7 DEF ThoughtItems, SpokenItems
      <4>2. R(t) = r \o one /\ S(t) = s \o <<>>
        BY <2>1, <4>1
      <4> HIDE DEF t
      <4>. QED BY <2>2, <3>3, <3>4, <4>2, <1>1 DEF SeqLaws
    <3>. QED BY <2>2, <3>5, ConcatEmptySeq
  <2>8. CASE x.kind # "reasoning"
    <3>1. R(t) = r \o <<>> /\ S(t) = s \o one
      BY <2>1, <2>8 DEF ThoughtItems, SpokenItems
    <3>2. r \o <<>> = r /\ r \o (s \o one) = (r \o s) \o one
      <4>1. Regrouped(r, s, one)
        BY <2>1, <2>2, Regroup, Zenon
      <4>. QED BY <2>1, <4>1, ConcatEmptySeq DEF Regrouped
    <3> HIDE DEF r, s, t
    <3>. QED BY <2>2, <2>3, <2>6, <3>1, <3>2
  <2>. QED BY <2>7, <2>8
<1> HIDE DEF T
<1>5. items \in T
  BY <1>3, <1>4, SequenceInduction
<1>. QED BY <1>5 DEF T

-----------------------------------------------------------------------------
\* What the Messages API sends: its calls have ids, its signed thinking text.
NativeEach(b) ==
  [x \in ReplyItem |->
     CASE x.kind = "reasoning" -> Thinking(x.text, b \in SignsThinking)
       [] x.kind = "message" -> TextBlock(x.text)
       [] OTHER -> ToolUse(x.id, x.text)]
NativeFit(b, x) ==
  /\ x.kind = "call" => x.id # NoId
  /\ x.kind = "reasoning" /\ b \in SignsThinking => x.text # <<>>
NativeFits(b, items) == \A i \in DOMAIN items : NativeFit(b, items[i])
LEMMA NativeTyped ==
  ASSUME NEW b
  PROVE  /\ Sends(NativeEach(b), ReplyItem, ReplyBlock)
         /\ \A items \in Seq(ReplyItem) : NativeBlocks(b, items) = Image(NativeEach(b), items)
<1>1. Sends(NativeEach(b), ReplyItem, ReplyBlock)
  <2>1. SUFFICES ASSUME NEW x \in ReplyItem
                 PROVE  NativeEach(b)[x] \in ReplyBlock
    BY DEF Sends, NativeEach
  <2>2. x.text \in Text /\ x.id \in Id /\ (b \in SignsThinking) \in BOOLEAN
    BY ItemParts
  <2>3. /\ TextBlock(x.text) \in ReplyBlock /\ Thinking(x.text, b \in SignsThinking) \in ReplyBlock
        /\ ToolUse(x.id, x.text) \in ReplyBlock
    BY <2>2, BlocksTyped DEF TextBlock, Thinking, ToolUse, Block, ReplyBlock
  <2>. QED BY <2>3 DEF NativeEach
<1>2. ASSUME NEW items \in Seq(ReplyItem)
      PROVE  NativeBlocks(b, items) = Image(NativeEach(b), items)
  <2>1. \A i \in DOMAIN items : items[i] \in ReplyItem
    OBVIOUS
  <2>. QED BY <2>1 DEF NativeBlocks, Image, NativeEach
<1>. QED BY <1>1, <1>2

LEMMA NativeItemRenders ==
  ASSUME NEW b, NEW items \in Seq(ReplyItem), NEW bs, NEW n \in Nat, NEW says,
         Renders(items, bs, n, says), NEW x \in ReplyItem, NativeFit(b, x)
  PROVE  Renders(Append(items, x), Append(bs, NativeEach(b)[x]), n + 1,
                 says \o ItemSays(b \in SignsThinking, x))
<1> DEFINE g == NativeEach(b)[x]
           one == <<g>>
<1>1. x.text \in Text /\ bs \in Seq(ReplyBlock) /\ g \in ReplyBlock /\ n <= n + 1 /\ n <= n
      /\ n + 1 \in Nat
  BY ItemParts, NativeTyped DEF Renders, Sends
<1>2. CASE x.kind = "call"
  <2>1. g = UseOf(x, n)
    BY <1>2 DEF NativeEach, NativeFit, UseOf, IdOr
  <2>2. x \in CallItems /\ ItemSays(b \in SignsThinking, x) = ItemSays(FALSE, x)
    BY <1>2 DEF CallItems, ItemSays
  <2>3. Renders(Append(items, x), Append(bs, UseOf(x, n)), n + 1, says \o ItemSays(FALSE, x))
    BY <1>1, <2>2, RendersCall
  <2>. QED BY <2>1, <2>2, <2>3
<1>3. CASE x.kind # "call"
  <2>1. g.type # "tool_use" /\ BlockSays(g) = ItemSays(b \in SignsThinking, x)
    <3>1. CASE x.kind = "message"
      <4>1. g = TextBlock(x.text)
        BY <3>1 DEF NativeEach
      <4>. QED BY <3>1, <4>1 DEF TextBlock, Block, BlockSays, ItemSays
    <3>2. CASE x.kind = "reasoning"
      <4>1. g = Thinking(x.text, b \in SignsThinking)
        BY <3>2 DEF NativeEach
      <4>2. g.type = "thinking" /\ g.text = x.text /\ g.signed = (b \in SignsThinking)
        BY <4>1 DEF Thinking, Block
      <4>3. ValidThinking(g) <=> b \in SignsThinking
        BY <3>2, <4>2 DEF ValidThinking, NativeFit
      <4>. QED BY <3>2, <4>2, <4>3 DEF BlockSays, ItemSays
    <3>. QED BY <1>3, <3>1, <3>2, ItemParts
  <2> HIDE DEF g
  <2>2. /\ one \in Seq(ReplyBlock) /\ Append(bs, g) = bs \o one
    <3>1. SeqLaws(ReplyBlock)
      BY SeqSteps
    <3>. QED BY <1>1, <3>1 DEF SeqLaws
  <2>3. UsesOf(one) = <<>>
    BY <1>1, <2>1, UsesOfLaws
  <2>4. BlocksSay(one) = ItemSays(b \in SignsThinking, x)
    <3>1. Mapped(EachSays, one) = EachSays[g]
      BY <1>1, BlocksSayLaws DEF MapLaws
    <3>. QED BY <1>1, <2>1, <3>1, EachSaysTyped DEF BlocksSay
  <2> HIDE DEF one
  <2>5. Renders(Append(items, x), bs \o one, n, says \o BlocksSay(one))
    BY <2>2, <2>3, RendersPiece
  <2>6. Append(items, x) \in Seq(ReplyItem)
    BY AppendProperties
  <2>7. Renders(Append(items, x), bs \o one, n + 1, says \o BlocksSay(one))
    BY <1>1, <2>5, <2>6, RendersLater
  <2>. QED BY <2>2, <2>4, <2>7 DEF g
<1>. QED BY <1>2, <1>3

LEMMA NativeRenders ==
  ASSUME NEW b, NEW items \in Seq(ReplyItem), NativeFits(b, items)
  PROVE  Renders(items, NativeBlocks(b, items), Len(items), ItemsSay(b \in SignsThinking, items))
<1> DEFINE F(q) == Image(NativeEach(b), q)
           S(q) == ItemsSay(b \in SignsThinking, q)
           T == {q \in Seq(ReplyItem) : NativeFits(b, q) => Renders(q, F(q), Len(q), S(q))}
<1>1. /\ F(<<>>) = <<>>
      /\ \A q \in Seq(ReplyItem), x \in ReplyItem : F(Append(q, x)) = Append(F(q), NativeEach(b)[x])
  BY NativeTyped, ImageOfAppend DEF Image
<1>2. <<>> \in T
  <2>1. S(<<>>) = <<>>
    BY ItemSaysTyped DEF ItemsSay, MapLaws
  <2>2. Renders(<<>>, <<>>, 0, <<>>)
    BY RendersNothing
  <2>3. Len(<<>>) = 0 /\ <<>> \in Seq(ReplyItem)
    BY EmptySeq
  <2> HIDE DEF F, S
  <2>. QED BY <1>1, <2>1, <2>2, <2>3
<1>3. ASSUME NEW q \in Seq(ReplyItem), NEW x \in ReplyItem, q \in T
      PROVE  Append(q, x) \in T
  <2> DEFINE t == Append(q, x)
             n == Len(q)
             bs == F(q)
             says == S(q)
  <2>1. /\ t \in Seq(ReplyItem) /\ Len(t) = n + 1 /\ n \in Nat /\ DOMAIN q = 1..n
        /\ DOMAIN t = 1..n + 1 /\ t[n + 1] = x /\ \A i \in DOMAIN q : t[i] = q[i]
    BY AppendProperties
  <2>2. SUFFICES ASSUME NativeFits(b, t)
                 PROVE  Renders(t, F(t), Len(t), S(t))
    BY <2>1
  <2>3. NativeFit(b, x)
    <3>1. n + 1 \in DOMAIN t
      BY <2>1
    <3> HIDE DEF t
    <3>. QED BY <2>1, <2>2, <3>1 DEF NativeFits
  <2>4. NativeFits(b, q)
    <3> SUFFICES ASSUME NEW i \in DOMAIN q
                 PROVE  NativeFit(b, q[i])
      BY DEF NativeFits
    <3>1. i \in DOMAIN t /\ t[i] = q[i]
      BY <2>1
    <3> HIDE DEF t
    <3>2. NativeFit(b, t[i])
      BY <2>2, <3>1 DEF NativeFits
    <3>. QED BY <3>1, <3>2
  <2>5. Renders(q, bs, n, says)
    BY <1>3, <2>4
  <2>6. F(t) = Append(bs, NativeEach(b)[x]) /\ S(t) = says \o ItemSays(b \in SignsThinking, x)
    BY <1>1, ItemsSayAppend
  <2> HIDE DEF F, S, bs, says, n
  <2>7. Renders(Append(q, x), Append(bs, NativeEach(b)[x]), n + 1,
                says \o ItemSays(b \in SignsThinking, x))
    BY <2>1, <2>3, <2>5, NativeItemRenders
  <2>. QED BY <2>1, <2>6, <2>7
<1> HIDE DEF T
<1>4. items \in T
  BY <1>2, <1>3, SequenceInduction
<1>. QED BY <1>4, NativeTyped DEF T

\* However a reply is delivered, its blocks say what it said, on every track,
\* and its calls have ids of their own.
THEOREM RenderedSays ==
  ASSUME NEW items \in Seq(ReplyItem), Len(blocks) \in Nat,
         Delivery = "native" => NativeFits(ask.to, items),
         Delivery = "chat" => ReasonsFirst(items)
  PROVE  /\ Rendered(items) \in Seq(ReplyBlock) /\ ReplyEvents(items) \in Seq(SaidEvent)
         /\ Alike(ReplyEvents(items), BlocksSay(Rendered(items)))
         /\ DistinctNames(items) => \E t \in Nat : Named(items, UsesOf(Rendered(items)), t)
<1> DEFINE signed == Delivery = "native" /\ ask.to \in SignsThinking
           bs == Rendered(items)
           Good(says) == /\ bs \in Seq(ReplyBlock) /\ Alike(says, BlocksSay(bs))
                         /\ DistinctNames(items) => \E t \in Nat : Named(items, UsesOf(bs), t)
<1>1. ASSUME NEW t, NEW says, Renders(items, bs, t, says)
      PROVE  Good(says)
  BY <1>1, AlikeIsEquivalence DEF Renders
<1>2. ASSUME NEW calls, NEW t, Renders(items, calls, t, SayOf(CallItems, items)),
             bs = TextOrNothing(Said(items, "reasoning"))
                  \o TextOrNothing(Said(items, "message")) \o calls
      PROVE  Good(SayOf(ThoughtItems, items) \o SayOf(SpokenItems, items))
  <2>1. t \in Nat
    BY <1>2 DEF Renders
  <2>2. /\ bs \in Seq(ReplyBlock)
        /\ Alike(SayOf(ThoughtItems, items) \o SayOf(SpokenItems, items), BlocksSay(bs))
        /\ DistinctNames(items) => Named(items, UsesOf(bs), t)
    BY <1>2, PartedRenders
  <2> HIDE DEF bs
  <2>. QED BY <2>1, <2>2
<1>3. ReplyEvents(items)
        = ItemsSay(signed, IF Delivery # "assembled" THEN items
                           ELSE Selected(ThoughtItems, items) \o Selected(SpokenItems, items))
  BY ReplyEventsAre
<1>4. ItemsSay(FALSE, Selected(ThoughtItems, items) \o Selected(SpokenItems, items))
        = SayOf(ThoughtItems, items) \o SayOf(SpokenItems, items)
  <2>1. Selected(ThoughtItems, items) \in Seq(ReplyItem) /\ Selected(SpokenItems, items) \in Seq(ReplyItem)
    BY SelectedLaws DEF SelectLaws
  <2>2. MapLaws(ReplyItem, SaidEvent, EachItem(FALSE))
    BY ItemSaysTyped
  <2>. QED BY <2>1, <2>2 DEF MapLaws, SayOf, ItemsSay
<1>5. ReplyEvents(items) \in Seq(SaidEvent)
  <2>1. Selected(ThoughtItems, items) \o Selected(SpokenItems, items) \in Seq(ReplyItem)
    BY SelectedLaws, ConcatProperties DEF SelectLaws
  <2>2. MapLaws(ReplyItem, SaidEvent, EachItem(signed))
    BY ItemSaysTyped
  <2>. QED BY <1>3, <2>1, <2>2 DEF MapLaws, ItemsSay
<1>6. Good(ReplyEvents(items))
  <2> HIDE DEF Good
  <2>1. CASE Delivery = "native"
    <3>1. Renders(items, NativeBlocks(ask.to, items), Len(items),
                  ItemsSay(ask.to \in SignsThinking, items))
      BY <2>1, NativeRenders
    <3>2. bs = NativeBlocks(ask.to, items)
      BY <2>1 DEF Rendered
    <3>3. ReplyEvents(items) = ItemsSay(ask.to \in SignsThinking, items)
      BY <1>3, <2>1
    <3>. QED BY <1>1, <3>1, <3>2, <3>3
  <2>2. CASE Delivery = "chat"
    <3>1. Renders(items, UsesFrom(Calls(items)), Len(Calls(items)), SayOf(CallItems, items))
      BY ChatCallsRender
    <3>2. UsesFrom(Calls(items))
            = [i \in DOMAIN Calls(items) |-> ToolUse(IdOr(Calls(items)[i].id, i - 1), Calls(items)[i].text)]
      BY DEF UsesFrom, UseOf
    <3>3. bs = TextOrNothing(Said(items, "reasoning"))
               \o TextOrNothing(Said(items, "message")) \o UsesFrom(Calls(items))
      BY <2>2, <3>2 DEF Rendered, ChatWholeBlocks
    <3>4. Good(SayOf(ThoughtItems, items) \o SayOf(SpokenItems, items))
      BY <1>2, <3>1, <3>3
    <3>5. ReplyEvents(items) = ItemsSay(FALSE, items)
      BY <1>3, <2>2
    <3>6. Selected(ThoughtItems, items) \o Selected(SpokenItems, items) = items
      BY <2>2, FirstIsFirst
    <3>. QED BY <1>4, <3>4, <3>5, <3>6
  <2>3. CASE Delivery = "chat_stream"
    <3>1. Renders(items, ChatStreamedBlocks(items), Len(ChatStreamedBlocks(items)), ItemsSay(FALSE, items))
      BY ChatStreamedRenders
    <3>2. bs = ChatStreamedBlocks(items)
      BY <2>3 DEF Rendered
    <3>3. ReplyEvents(items) = ItemsSay(FALSE, items)
      BY <1>3, <2>3
    <3>. QED BY <1>1, <3>1, <3>2, <3>3
  <2>4. CASE Delivery = "stream"
    <3> DEFINE n == Len(blocks)
               b == StreamedBlocks(items, n)
    <3>1. Renders(items, b, n + Len(b), ItemsSay(FALSE, items))
      BY StreamedRenders
    <3>2. bs = b
      BY <2>4 DEF Rendered
    <3>3. ReplyEvents(items) = ItemsSay(FALSE, items)
      BY <1>3, <2>4
    <3> HIDE DEF b
    <3>. QED BY <1>1, <3>1, <3>2, <3>3
  <2>5. CASE Delivery = "assembled"
    <3>1. Renders(items, ItemCalls(items), Len(items), SayOf(CallItems, items))
      BY ItemCallsRender
    <3>2. bs = TextOrNothing(Said(items, "reasoning"))
               \o TextOrNothing(Said(items, "message")) \o ItemCalls(items)
      BY <2>5 DEF Rendered, AssembledBlocks, ItemCalls
    <3>3. Good(SayOf(ThoughtItems, items) \o SayOf(SpokenItems, items))
      BY <1>2, <3>1, <3>2
    <3>4. ReplyEvents(items)
            = ItemsSay(FALSE, Selected(ThoughtItems, items) \o Selected(SpokenItems, items))
      BY <1>3, <2>5
    <3>. QED BY <1>4, <3>3, <3>4
  <2>6. CASE Delivery \notin {"native", "chat", "chat_stream", "stream", "assembled"}
    <3>1. Renders(items, WholeBlocks(items), Len(items), ItemsSay(FALSE, items))
      BY WholeRenders
    <3>2. bs = WholeBlocks(items)
      BY <2>6 DEF Rendered
    <3>3. ReplyEvents(items) = ItemsSay(FALSE, items)
      BY <1>3, <2>6
    <3>. QED BY <1>1, <3>1, <3>2, <3>3
  <2>. QED BY <2>1, <2>2, <2>3, <2>4, <2>5, <2>6
<1>. QED BY <1>5, <1>6

-----------------------------------------------------------------------------
(* What a provider writes is new: its texts are not the compaction's, and  *)
(* its ids have not been used.                                             *)
Calm == {x \in ReplyItem : CompactPhrase \notin Range(x.text)}
\* From what is asked for, item by item.
WrittenItem(reply, i, x) ==
  LET asked == reply.items[i]
  IN  /\ x.kind = asked.kind
      /\ x.id = IF asked.named THEN CallId(fresh + i) ELSE NoId
      /\ asked.class # "empty" => x.text # <<>>
      /\ CompactPhrase \notin Range(x.text)
LEMMA WrittenIs ==
  ASSUME NEW reply \in Replies, fresh \in Nat, fresh > 9
  PROVE  /\ Written(reply) \in Seq(ReplyItem)
         /\ DOMAIN Written(reply) = 1..Len(reply.items) /\ Len(reply.items) \in Nat
         /\ DOMAIN reply.items = 1..Len(reply.items)
         /\ \A i \in 1..Len(reply.items) : WrittenItem(reply, i, Written(reply)[i])
<1> DEFINE items == reply.items
           Asked == [kind : Kind, class : {"prose", "done", "blank", "empty"},
                     named : BOOLEAN]
           TextOf(i) == CASE items[i].class = "prose" -> <<fresh + i>>
                          [] items[i].class = "done" -> <<DonePhrase>>
                          [] items[i].class = "blank" -> <<Blank>>
                          [] OTHER -> <<>>
           w == Written(reply)
<1>1. items \in Seq(Asked)
  BY ConversationAssumption
<1>2. /\ w \in Seq(ReplyItem) /\ Len(w) = Len(items) /\ Len(items) \in Nat
      /\ DOMAIN items = 1..Len(items)
  BY WrittenTyped
<1>3. w = [i \in DOMAIN items |->
             [kind |-> items[i].kind, text |-> TextOf(i),
              id |-> IF items[i].named THEN CallId(fresh + i) ELSE NoId]]
  BY DEF Written
<1>4. ASSUME NEW i \in 1..Len(items)
      PROVE  WrittenItem(reply, i, w[i])
  <2>1. items[i] \in Asked /\ fresh + i \in Nat /\ fresh + i # 2
    <3>1. i \in Nat
      BY <1>2
    <3>2. items[i] \in Asked
      <4> HIDE DEF Asked, items
      <4>. QED BY <1>1
    <3>. QED BY <3>1, <3>2
  <2>2. w[i] = [kind |-> items[i].kind, text |-> TextOf(i),
                id |-> IF items[i].named THEN CallId(fresh + i) ELSE NoId]
    BY <1>2, <1>3
  <2>3. items[i].class # "empty" => TextOf(i) # <<>>
    BY <2>1
  <2>4. Range(TextOf(i)) \subseteq {fresh + i, 0, 1}
    <3>1. TextOf(i) \in {<<fresh + i>>, <<1>>, <<0>>, <<>>}
      BY <2>1 DEF DonePhrase, Blank
    <3> HIDE DEF TextOf
    <3>. QED BY <3>1 DEF Range
  <2> HIDE DEF TextOf, w
  <2>5. CompactPhrase \notin Range(TextOf(i))
    BY <2>1, <2>4 DEF CompactPhrase
  <2>. QED BY <2>2, <2>3, <2>5 DEF WrittenItem
<1>. QED BY <1>2, <1>4

LEMMA WrittenFits ==
  ASSUME NEW reply \in Replies, fresh \in Nat, fresh > 9, Fits(reply)
  PROVE  LET items == Written(reply)
         IN  /\ items \in Seq(Calm) /\ DistinctNames(items)
             /\ Delivery = "native" => NativeFits(ask.to, items)
             /\ Delivery = "chat" => ReasonsFirst(items)
<1> DEFINE items == Written(reply)
           n == Len(reply.items)
<1>1. items \in Seq(ReplyItem) /\ DOMAIN items = 1..n /\ n \in Nat /\ DOMAIN reply.items = 1..n
      /\ \A i \in 1..n : WrittenItem(reply, i, items[i])
  BY WrittenIs
<1>2. \A i \in 1..n : items[i] \in ReplyItem /\ i \in Nat
  BY <1>1
<1> HIDE DEF items, n
<1>3. items \in Seq(Calm)
  <2>1. \A i \in 1..n : items[i] \in Calm
    BY <1>1, <1>2 DEF WrittenItem, Calm
  <2>2. Len(items) = n /\ items = [i \in 1..n |-> items[i]]
    BY <1>1
  <2>. QED BY <1>1, <2>1, <2>2
<1>4. DistinctNames(items)
  <2>1. ASSUME NEW i \in 1..n, items[i].id # NoId
        PROVE  items[i].id = CallId(fresh + i) /\ fresh + i \in Nat
    BY <1>1, <1>2, <2>1 DEF WrittenItem
  <2>2. ASSUME NEW i \in 1..n, NEW j \in 1..n, items[i].id = items[j].id, items[i].id # NoId
        PROVE  i = j
    <3>1. CallId(fresh + i) = CallId(fresh + j) /\ fresh + i \in Nat /\ fresh + j \in Nat
      BY <2>1, <2>2
    <3>2. fresh + i = fresh + j
      BY <3>1, IdsDiffer
    <3>. QED BY <1>2, <3>2
  <2>. QED BY <1>1, <2>1, <2>2 DEF DistinctNames
<1>5. ASSUME Delivery = "native"
      PROVE  NativeFits(ask.to, items)
  <2>1. SUFFICES ASSUME NEW i \in 1..n
                 PROVE  NativeFit(ask.to, items[i])
    BY <1>1 DEF NativeFits
  <2>2. WrittenItem(reply, i, items[i]) /\ i \in DOMAIN reply.items /\ fresh + i \in Nat
    BY <1>1, <1>2
  <2>3. /\ reply.items[i].kind = "call" => reply.items[i].named
        /\ reply.items[i].kind = "reasoning" /\ ask.to \in SignsThinking
             => reply.items[i].class # "empty"
    BY <1>5, <2>2 DEF Fits
  <2>4. CallId(fresh + i) # NoId
    BY <2>2, IdsDiffer
  <2>. QED BY <2>2, <2>3, <2>4 DEF NativeFit, WrittenItem
<1>6. ASSUME Delivery = "chat"
      PROVE  ReasonsFirst(items)
  <2>1. SUFFICES ASSUME NEW j \in 1..n, items[j].kind = "reasoning", j # 1
                 PROVE  FALSE
    BY <1>1 DEF ReasonsFirst
  <2> DEFINE kinds == [i \in DOMAIN reply.items |-> reply.items[i].kind]
             Order(k) == CASE k = "reasoning" -> 1 [] k = "message" -> 2 [] OTHER -> 3
  <2>2. 1 \in 1..n /\ 1 < j /\ j \in 1..n /\ DOMAIN kinds = 1..n
    BY <1>1, <1>2, <2>1
  <2>3. kinds[j] = "reasoning"
    BY <1>1, <2>1, <2>2 DEF WrittenItem
  <2>4. Order(kinds[1]) < Order(kinds[j]) \/ (kinds[1] = "call" /\ kinds[j] = "call")
    BY <1>6, <2>2 DEF Fits
  <2>5. Order(kinds[1]) \in {1, 2, 3} /\ Order(kinds[j]) = 1
    BY <2>3
  <2> HIDE DEF Order
  <2>. QED BY <2>3, <2>4, <2>5
<1>. QED BY <1>3, <1>4, <1>5, <1>6 DEF items

\* A reply says nothing of what makes a request a compaction.
LEMMA ReplyIsQuiet ==
  ASSUME NEW items \in Seq(Calm)
  PROVE  Quiet(ReplyEvents(items))
<1> DEFINE signed == Delivery = "native" /\ ask.to \in SignsThinking
           q == IF Delivery # "assembled" THEN items
                ELSE Selected(ThoughtItems, items) \o Selected(SpokenItems, items)
<1>1. items \in Seq(ReplyItem)
  BY DEF Calm
<1>2. q \in Seq(Calm) /\ q \in Seq(ReplyItem)
  <2>1. Selected(ThoughtItems, items) \in Seq(Calm) /\ Selected(SpokenItems, items) \in Seq(Calm)
    BY SelectedLaws DEF SelectLaws
  <2>2. q \in Seq(Calm)
    BY <2>1, ConcatProperties
  <2> HIDE DEF q
  <2>. QED BY <2>2 DEF Calm
<1>3. ReplyEvents(items) = Mapped(EachItem(signed), q)
  BY <1>1, ReplyEventsAre DEF ItemsSay
<1>4. Maps(EachItem(signed), ReplyItem, SaidEvent)
  BY ItemSaysTyped
<1>5. Has(Loud, Mapped(EachItem(signed), q))
        <=> \E i \in 1..Len(q) : Has(Loud, EachItem(signed)[q[i]])
  BY <1>2, <1>4, MappedHas
<1>6. ASSUME NEW x \in Calm
      PROVE  Quiet(EachItem(signed)[x])
  <2>1. x \in ReplyItem /\ x.text \in Text /\ EachItem(signed)[x] = ItemSays(signed, x)
    BY ItemParts, ItemSaysTyped DEF Calm
  <2>2. Quiet(WordEvents("model", x.text))
    BY <2>1, WordsAreLoud DEF Calm, Side
  <2>3. ASSUME NEW kind \in {"call", "thought"}
        PROVE  Quiet(<<Event("model", kind, x.text, <<>>)>>)
    <3> DEFINE e == Event("model", kind, x.text, <<>>)
    <3>1. e \in SaidEvent /\ e \notin Loud
      <4>1. <<>> \in Text
        BY EmptySeq DEF Text
      <4>. QED BY <2>1, <4>1 DEF Event, SaidEvent, Loud
    <3> HIDE DEF e
    <3>2. Quiet(<<e>>)
      BY <3>1, QuietProperties
    <3>. QED BY <3>2 DEF e
  <2>. QED BY <2>1, <2>2, <2>3 DEF ItemSays
<1>7. \A i \in 1..Len(q) : q[i] \in Calm
  BY <1>2
<1> HIDE DEF q, signed
<1>. QED BY <1>3, <1>5, <1>6, <1>7 DEF Quiet

-----------------------------------------------------------------------------
(* A compaction is heard in what the conversation tells.                   *)
\* What is selected was there.
LEMMA SelectedWasThere ==
  ASSUME NEW D, NEW T, NEW s \in Seq(D), NEW k \in DOMAIN Selected(T, s)
  PROVE  \E i \in DOMAIN s : s[i] = Selected(T, s)[k] /\ s[i] \in T
<1> DEFINE v == Selected(T, s)
           P == {v[k]}
<1>1. v = Mapped(Taking(D, T), s)
  BY SelectedIsMapped
<1>2. Maps(Taking(D, T), D, D)
  BY TakingTyped
<1>3. Has(P, Mapped(Taking(D, T), s)) <=> \E i \in 1..Len(s) : Has(P, Taking(D, T)[s[i]])
  BY <1>2, MappedHas
<1>4. Has(P, v)
  BY DEF Has
<1> HIDE DEF v
<1>5. PICK i \in 1..Len(s) : Has(P, Taking(D, T)[s[i]])
  BY <1>1, <1>3, <1>4
<1>6. i \in DOMAIN s /\ s[i] \in D
  OBVIOUS
<1>7. Taking(D, T)[s[i]] = IF s[i] \in T THEN <<s[i]>> ELSE <<>>
  BY <1>6 DEF Taking
<1>8. s[i] \in T /\ s[i] \in P
  BY <1>5, <1>7 DEF Has
<1>. QED BY <1>6, <1>8 DEF v

Phrased(s) == CompactPhrase \in Range(s)
LEMMA PhrasedConcat ==
  /\ ~Phrased(<<>>)
  /\ \A s, t \in Text : Phrased(s \o t) <=> Phrased(s) \/ Phrased(t)
<1>1. \A s \in Text : Phrased(s) <=> Has({CompactPhrase}, s)
  BY DEF Phrased, Range, Has, Text
<1>2. <<>> \in Text
  BY EmptySeq DEF Text
<1>3. \A s, t \in Text : s \o t \in Text
  BY ConcatProperties DEF Text
<1>4. \A s, t \in Text : Has({CompactPhrase}, s \o t) <=> Has({CompactPhrase}, s) \/ Has({CompactPhrase}, t)
  BY HasProperties DEF Text
<1>. QED BY <1>1, <1>2, <1>3, <1>4, HasProperties

\* The text of blocks has the phrase if one of the blocks has.
TextWith == {b \in ContentBlock : b.type = "text" /\ Phrased(b.text)}
LEMMA JoinTextHas ==
  ASSUME NEW bs \in Seq(ContentBlock)
  PROVE  Phrased(JoinText(bs)) => Has(TextWith, bs)
<1> DEFINE T == {q \in Seq(ContentBlock) : Phrased(JoinText(q)) => Has(TextWith, q)}
<1>1. <<>> \in T
  BY JoinTextProperties, PhrasedConcat, EmptySeq
<1>2. ASSUME NEW q \in Seq(ContentBlock), NEW b \in ContentBlock, q \in T
      PROVE  Append(q, b) \in T
  <2>1. JoinText(Append(q, b)) = JoinText(q) \o (IF b.type = "text" THEN b.text ELSE <<>>)
        /\ JoinText(q) \in Text
    BY JoinTextAppend
  <2>2. b.text \in Text /\ <<>> \in Text
    BY BlockParts, EmptySeq DEF Text
  <2>3. Has(TextWith, Append(q, b)) <=> Has(TextWith, q) \/ b \in TextWith
    BY HasProperties
  <2>4. Append(q, b) \in Seq(ContentBlock)
    BY AppendProperties
  <2>5. CASE b.type = "text"
    <3>1. Phrased(JoinText(Append(q, b))) <=> Phrased(JoinText(q)) \/ Phrased(b.text)
      BY <2>1, <2>2, <2>5, PhrasedConcat
    <3>. QED BY <1>2, <2>3, <2>4, <2>5, <3>1 DEF TextWith
  <2>6. CASE b.type # "text"
    <3>1. Phrased(JoinText(Append(q, b))) <=> Phrased(JoinText(q)) \/ Phrased(<<>>)
      BY <2>1, <2>2, <2>6, PhrasedConcat
    <3>. QED BY <1>2, <2>3, <2>4, <3>1, PhrasedConcat
  <2>. QED BY <2>5, <2>6
<1> HIDE DEF T
<1>3. bs \in T
  BY <1>1, <1>2, SequenceInduction
<1>. QED BY <1>3 DEF T

LEMMA SummaryIsQuiet ==
  ASSUME NEW bs \in Seq(ReplyBlock), Quiet(BlocksSay(bs))
  PROVE  /\ JoinText(bs) \in Text /\ Words(JoinText(bs)) \in Text
         /\ Quiet(WordEvents("user", Words(JoinText(bs))))
<1>1. bs \in Seq(ContentBlock) /\ JoinText(bs) \in Text /\ Words(JoinText(bs)) \in Text
  BY ReplyBlocksAreBlocks, JoinTextProperties, WordsProperties
<1>2. ~Phrased(JoinText(bs))
  <2>1. SUFFICES ASSUME NEW i \in DOMAIN bs, bs[i] \in TextWith
                 PROVE  FALSE
    BY <1>1, JoinTextHas DEF Has
  <2> DEFINE b == bs[i]
  <2>2. b \in ReplyBlock /\ b.type = "text" /\ b.text \in Text /\ Phrased(b.text) /\ i \in 1..Len(bs)
    BY <1>1, <2>1, BlockParts DEF TextWith, ReplyBlock
  <2>3. EachSays[b] = WordEvents("model", b.text)
    BY <2>2, EachSaysTyped DEF BlockSays
  <2>4. ~Quiet(EachSays[b])
    BY <2>2, <2>3, WordsAreLoud DEF Phrased, Side
  <2>5. Has(Loud, Mapped(EachSays, bs))
    BY <2>2, <2>4, EachSaysTyped, MappedHas DEF Quiet
  <2>. QED BY <2>5 DEF Quiet, BlocksSay
<1>3. WordEvents("user", Words(JoinText(bs))) = WordEvents("user", JoinText(bs))
  <2>1. \A s \in Text : Words(s) \in Seq(Fragment)
    BY WordsAreFragments
  <2>2. Words(Words(JoinText(bs))) = Words(JoinText(bs))
    <3> DEFINE w == Words(JoinText(bs))
    <3>1. w \in Seq(Fragment) /\ w \in Text
      BY <1>1, <2>1
    <3>2. [i \in DOMAIN w |-> IF w[i] # Blank THEN <<w[i]>> ELSE <<>>]
            = [i \in DOMAIN w |-> IF w[i] \in Fragment THEN <<w[i]>> ELSE <<>>]
      BY <3>1 DEF Fragment
    <3>3. Words(w) = Selected(Fragment, w)
      BY <3>2 DEF Words, Only, Selected
    <3>4. Selected(Fragment, w) = w
      BY <3>1, SelectedAll
    <3>. QED BY <3>3, <3>4
  <2>. QED BY <1>1, <2>2, WordEventsAre DEF Side
<1>4. Quiet(WordEvents("user", JoinText(bs)))
  BY <1>1, <1>2, WordsAreLoud DEF Phrased, Side
<1>. QED BY <1>1, <1>3, <1>4

UserMessages == {m \in FitMessage : m.role = "user"}
LEMMA UsersAre ==
  ASSUME NEW h \in Seq(FitMessage)
  PROVE  IsCompaction(h) <=> LET users == Selected(UserMessages, h)
                             IN  users # <<>> /\ Phrased(JoinText(Last(users).blocks))
<1>1. [i \in DOMAIN h |-> IF h[i].role = "user" THEN <<h[i]>> ELSE <<>>]
        = [i \in DOMAIN h |-> IF h[i] \in UserMessages THEN <<h[i]>> ELSE <<>>]
  BY DEF UserMessages
<1>. QED BY <1>1 DEF IsCompaction, Only, Selected, Phrased

\* What is asked for is heard.
LEMMA CompactionIsLoud ==
  ASSUME NEW h \in Seq(FitMessage), IsCompaction(Sanitize(h))
  PROVE  ~Quiet(EventsOf(Told(h)))
<1> DEFINE s == Sanitize(h)
           users == Selected(UserMessages, s)
           l == Last(users)
           P == {x \in Utterance : x.kind = "words" /\ Phrased(x.text)}
<1>1. s \in Seq(FitMessage) /\ Told(h) = Mapped(ReadM, s) /\ Told(h) \in Seq(Utterance)
  BY SanitizeIsImage, ReadMapped, ToldLaws DEF Told
<1>2. users # <<>> /\ Phrased(JoinText(l.blocks)) /\ users \in Seq(FitMessage)
  BY <1>1, UsersAre, SelectedLaws DEF SelectLaws
<1>3. Len(users) \in DOMAIN users /\ l = users[Len(users)]
  BY <1>2, EmptySeq DEF Last
<1>4. PICK i \in DOMAIN s : s[i] = l
  <2> HIDE DEF l, s
  <2>. QED BY <1>1, <1>3, SelectedWasThere
<1>5. l \in FitMessage /\ i \in 1..Len(s)
  <2> HIDE DEF l, s
  <2>. QED BY <1>1, <1>4
<1> HIDE DEF l, s, users
<1>6. l.blocks \in Seq(ContentBlock)
  BY <1>5, FitParts
<1>7. PICK j \in DOMAIN l.blocks : l.blocks[j] \in TextWith
  BY <1>2, <1>6, JoinTextHas DEF Has
<1> DEFINE b == l.blocks[j]
           r == ReadAs(l.role)
<1>8. b \in ContentBlock /\ b.type = "text" /\ Phrased(b.text) /\ j \in 1..Len(l.blocks)
  BY <1>6, <1>7 DEF TextWith
<1>9. r[b] \in P
  <2>1. r[b] = Utter(SideOf(l.role), "words", b.text, NoId) /\ r[b] \in Utterance
    BY <1>8, ReadAsTyped, ReadBlockIs DEF Sends
  <2>. QED BY <1>8, <2>1 DEF Utter
<1>10. ReadM[l] = Image(r, l.blocks)
  BY <1>5, ReadMTyped
<1>11. Has(P, ReadM[l])
  BY <1>7, <1>9, <1>10 DEF Has, Image
<1>12. Has(P, Mapped(ReadM, s))
  BY <1>1, <1>4, <1>5, <1>11, ReadMTyped, MappedHas
<1>13. PICK k \in DOMAIN Told(h) : Told(h)[k] \in P
  BY <1>1, <1>12 DEF Has
<1>. QED BY <1>1, <1>13, LoudIsHeard DEF Phrased

LEMMA InstructionCompacts ==
  ASSUME NEW h \in Seq(FitMessage)
  PROVE  /\ IsCompaction(Sanitize(Append(h, Instruction)))
         /\ Append(h, Instruction) \in Seq(FitMessage)
         /\ Front(Append(h, Instruction)) = h
<1> DEFINE one == <<Instruction>>
           s == Sanitize(h)
           users == Selected(UserMessages, s \o one)
<1>1. /\ Instruction \in FitMessage /\ Instruction.role = "user" /\ Instruction.plain
      /\ JoinText(Instruction.blocks) = <<CompactPhrase>>
  BY InstructionTells DEF Wordy
<1>2. one \in Seq(FitMessage) /\ Append(h, Instruction) = h \o one
      /\ Append(h, Instruction) \in Seq(FitMessage)
  <2>1. SeqLaws(FitMessage)
    BY SeqSteps
  <2>. QED BY <1>1, <2>1 DEF SeqLaws
<1>3. s \in Seq(FitMessage) /\ Sanitize(one) = one /\ Sanitize(h \o one) = s \o one
  <2>1. h \in Seq(Message) /\ one \in Seq(Message) /\ Instruction \in Message
    BY <1>1, <1>2 DEF FitMessage
  <2>2. SanitizeMessage(Instruction) = Instruction
    BY <1>1, <2>1, SanitizeMessageTyped
  <2>3. Sanitize(one) = <<SanitizeMessage(Instruction)>>
    BY <2>1, SanitizeProperties
  <2>4. Sanitize(h \o one) = s \o Sanitize(one)
    BY <2>1, SanitizeProperties
  <2>. QED BY <2>2, <2>3, <2>4, SanitizeIsImage
<1>4. users = Selected(UserMessages, s) \o one /\ Selected(UserMessages, s) \in Seq(FitMessage)
  <2>1. SelectLaws(FitMessage, UserMessages)
    BY SelectedLaws
  <2>2. Selected(UserMessages, one) = one
    BY <1>1, <2>1 DEF SelectLaws, UserMessages
  <2> HIDE DEF one, s
  <2>3. Selected(UserMessages, s \o one) = Selected(UserMessages, s) \o Selected(UserMessages, one)
        /\ Selected(UserMessages, s) \in Seq(FitMessage)
    BY <1>2, <1>3, <2>1 DEF SelectLaws
  <2>. QED BY <1>3, <2>2, <2>3, Zenon
<1>5. users # <<>> /\ Last(users) = Instruction
  <2>1. one # <<>> /\ one[Len(one)] = Instruction
    BY <1>2
  <2> HIDE DEF one, users
  <2>. QED BY <1>2, <1>4, <2>1, LastOfMore
<1>6. Phrased(<<CompactPhrase>>)
  BY DEF Phrased, Range, CompactPhrase
<1>7. IsCompaction(Sanitize(h \o one))
  <2>1. s \o one \in Seq(FitMessage)
    BY <1>2, <1>3, ConcatProperties
  <2>. QED BY <1>1, <1>3, <1>5, <1>6, <2>1, UsersAre
<1>8. Front(Append(h, Instruction)) = h
  <2> DEFINE a == Append(h, Instruction)
  <2>1. a \in Seq(FitMessage) /\ Len(a) = Len(h) + 1 /\ Len(h) \in Nat /\ a # <<>>
        /\ \A i \in 1..Len(h) : a[i] = h[i]
    BY <1>1, AppendProperties, EmptySeq
  <2> HIDE DEF a
  <2>2. Front(a) \in Seq(FitMessage) /\ Len(Front(a)) = Len(h) /\ \A i \in 1..Len(h) : Front(a)[i] = h[i]
    BY <2>1, FrontTyped
  <2>3. Front(a) = h
    BY <2>2, SeqEqual
  <2>. QED BY <2>3 DEF a
<1>. QED BY <1>2, <1>7, <1>8

-----------------------------------------------------------------------------
\* Blocks of text only say what their texts do.
LEMMA TextsSay ==
  ASSUME NEW bs \in Seq(ReplyBlock), ~Has(Thoughts, bs), OfType(bs, "tool_use") = <<>>
  PROVE  BlocksSay(bs) = WordEvents("model", JoinText(bs))
<1> DEFINE Texts == {b \in ReplyBlock : b.type = "text"}
           T == {q \in Seq(Texts) : BlocksSay(q) = WordEvents("model", JoinText(q))}
<1>1. bs \in Seq(Texts)
  <2>1. bs \in Seq(ContentBlock)
    BY ReplyBlocksAreBlocks
  <2>2. ~Has(Uses, bs)
    BY <2>1, OfTypeHas
  <2>3. \A i \in 1..Len(bs) : bs[i] \in ReplyBlock /\ bs[i] \in ContentBlock
    BY <2>1
  <2>4. \A i \in 1..Len(bs) : bs[i] \in Texts
    <3>1. \A i \in 1..Len(bs) : bs[i] \notin Thoughts /\ bs[i] \notin Uses
      BY <2>2 DEF Has
    <3>. QED BY <2>3, <3>1 DEF Thoughts, Uses, ReplyBlock
  <2> HIDE DEF Texts
  <2>5. Len(bs) \in Nat /\ bs = [i \in 1..Len(bs) |-> bs[i]]
    OBVIOUS
  <2>. QED BY <2>4, <2>5
<1>2. \A q \in Seq(Texts) : q \in Seq(ReplyBlock) /\ q \in Seq(ContentBlock)
  <2> SUFFICES ASSUME NEW q \in Seq(Texts)
               PROVE  q \in Seq(ReplyBlock) /\ q \in Seq(ContentBlock)
    OBVIOUS
  <2>1. q \in Seq(ReplyBlock)
    OBVIOUS
  <2>. QED BY <2>1, ReplyBlocksAreBlocks
<1>3. <<>> \in T
  <2>1. BlocksSay(<<>>) = <<>> /\ JoinText(<<>>) = <<>> /\ WordEvents("model", <<>>) = <<>>
    BY BlocksSayLaws, JoinTextProperties, WordEventsConcat DEF MapLaws, BlocksSay, Side
  <2>. QED BY <2>1, EmptySeq
<1>4. ASSUME NEW q \in Seq(Texts), NEW b \in Texts, q \in T
      PROVE  Append(q, b) \in T
  <2>1. /\ b \in ReplyBlock /\ b \in ContentBlock /\ b.type = "text" /\ b.text \in Text
        /\ q \in Seq(ReplyBlock) /\ q \in Seq(ContentBlock)
    BY <1>2, BlockParts DEF ReplyBlock
  <2>2. Append(q, b) \in Seq(Texts)
    BY AppendProperties
  <2>3. BlocksSay(Append(q, b)) = BlocksSay(q) \o WordEvents("model", b.text)
    <3>1. Mapped(EachSays, Append(q, b)) = Mapped(EachSays, q) \o EachSays[b]
      BY <2>1, BlocksSayLaws DEF MapLaws
    <3>. QED BY <2>1, <3>1, EachSaysTyped DEF BlocksSay, BlockSays
  <2>4. JoinText(Append(q, b)) = JoinText(q) \o b.text /\ JoinText(q) \in Text
    BY <2>1, JoinTextAppend
  <2>5. WordEvents("model", JoinText(q) \o b.text)
          = WordEvents("model", JoinText(q)) \o WordEvents("model", b.text)
    BY <2>1, <2>4, WordEventsConcat DEF Side
  <2>. QED BY <1>4, <2>2, <2>3, <2>4, <2>5
<1> HIDE DEF T, Texts
<1>5. bs \in T
  BY <1>1, <1>3, <1>4, SequenceInduction
<1>. QED BY <1>5 DEF T

\* No words, no events.
LEMMA WordlessSaysNothing ==
  ASSUME NEW side \in Side, NEW s \in Text, Words(s) = <<>>
  PROVE  WordEvents(side, s) = <<>>
<1>1. WordEvents(side, s) = Image(OneEvent(side), Words(s))
  BY WordEventsAre
<1>. QED BY <1>1 DEF Image

\* What is like nothing is nothing.
LEMMA AlikeNothing ==
  ASSUME NEW a \in Seq(SaidEvent), Alike(a, <<>>)
  PROVE  a = <<>>
<1> SUFFICES ASSUME a # <<>>
             PROVE  FALSE
  OBVIOUS
<1>1. 1 \in DOMAIN a /\ a[1] \in SaidEvent
  BY EmptySeq
<1>2. PICK Q \in EventTracks : a[1] \in Q
  <2>1. a[1].kind \in {"words", "call", "result", "thought"}
    BY <1>1 DEF SaidEvent
  <2>. QED BY <1>1, <2>1 DEF EventTracks, OfKind
<1>3. Selected(Q, <<>>) = <<>> /\ Selected(Q, a) = Selected(Q, <<>>)
  BY SelectedLaws DEF SelectLaws, Alike
<1>4. Has(Q, a)
  BY <1>1, <1>2 DEF Has
<1>5. Count(Q, a) = 0
  BY <1>3 DEF Count
<1>. QED BY <1>4, <1>5, CountHas

\* Whichever API it is for, a request tells what the conversation does.
Tells(api, read, told) ==
  /\ Selected(OfKind({"words"}), read) = Selected(OfKind({"words"}), told)
  /\ Selected(OfKind({"call", "result"}), read) = Selected(OfKind({"call", "result"}), told)
  /\ api = "responses" => Selected(OfUser, read) = Selected(OfUser, told)
  /\ api = "anthropic" => Selected(OfKind({"thought"}), read) = Selected(OfKind({"thought"}), told)
LEMMA TriggerIsSilent ==
  ASSUME NEW s \in Seq(InputItem), NEW trigger
  PROVE  Read("responses", ShapeBody(trigger, s)) = Read("responses", s)
<1> DEFINE x == Item("trigger", "none", <<>>, NoId)
<1>1. x \in InputItem /\ x.type = "trigger"
  <2>1. <<>> \in Text
    BY EmptySeq DEF Text
  <2>. QED BY <2>1, NoIdTyped, ItemTyped DEF Item, ItemRole
<1>2. ReadI[x] = <<>>
  BY <1>1, ReadITyped DEF ReadResponses
<1> HIDE DEF x
<1>3. MapLaws(InputItem, Utterance, ReadI)
  BY ReadITyped, MappedLaws
<1>4. Append(s, x) \in Seq(InputItem)
  BY <1>1, AppendProperties
<1>5. Mapped(ReadI, Append(s, x)) = Mapped(ReadI, s) \o <<>> /\ Mapped(ReadI, s) \in Seq(Utterance)
  BY <1>1, <1>2, <1>3 DEF MapLaws
<1>6. Read("responses", Append(s, x)) = Read("responses", s)
  BY <1>4, <1>5, ReadMapped, ConcatEmptySeq
<1>. QED BY <1>6 DEF ShapeBody, x

LEMMA KindsDecided ==
  /\ Decides(Spoken, OfKind({"words"}))
  /\ Decides(Exchange, OfKind({"call", "result"}))
  /\ Decides(Heard, OfUser)
<1>1. Decides(Spoken, OfKind({"words"}))
  BY OfKindDecided DEF Spoken
<1>2. Decides(Exchange, OfKind({"call", "result"}))
  BY OfKindDecided DEF Exchange
<1>. QED BY <1>1, <1>2, OfUserDecided

LEMMA RequestTells ==
  ASSUME NEW h \in Seq(FitMessage), NEW b \in Backends, NEW trigger,
         trigger => Api[b] = "responses"
  PROVE  LET read == Read(Api[b], ShapeBody(trigger, Convert(b, Sanitize(h))))
         IN  read \in Seq(Utterance) /\ Tells(Api[b], EventsOf(read), EventsOf(Told(h)))
<1> DEFINE s == Sanitize(h)
           told == Told(h)
           rr == Read("responses", ToResponses(s))
           rc == Read("chat", ToChat(s))
<1>1. s \in Seq(FitMessage) /\ told = Read("anthropic", s)
  BY SanitizeIsImage DEF Told
<1>2. /\ told \in Seq(Utterance) /\ rr \in Seq(Utterance) /\ rc \in Seq(Utterance)
      /\ \A P \in {Spoken, Exchange, Heard} : Track(P, rr) = Track(P, told)
      /\ \A P \in {Spoken, Exchange} : Track(P, rc) = Track(P, told)
  BY <1>1, ConversationReads
<1>3. ToResponses(s) \in Seq(InputItem)
  BY <1>1, ConvertedMapped
<1>4. Api[b] \in {"responses", "chat", "anthropic"}
  BY ConversationAssumption
<1>5. CASE Api[b] = "responses"
  <2>1. Read(Api[b], ShapeBody(trigger, Convert(b, s))) = rr
    BY <1>3, <1>5, TriggerIsSilent DEF Convert
  <2> HIDE DEF s, told, rr, rc
  <2>2. Tells("responses", EventsOf(rr), EventsOf(told))
    BY <1>2, KindsDecided, ReadAlike DEF Tells
  <2>. QED BY <1>2, <1>5, <2>1, <2>2 DEF told, s
<1>6. CASE Api[b] = "chat"
  <2>1. Read(Api[b], ShapeBody(trigger, Convert(b, s))) = rc
    BY <1>6 DEF Convert, ShapeBody
  <2> HIDE DEF s, told, rr, rc
  <2>2. Tells("chat", EventsOf(rc), EventsOf(told))
    BY <1>2, KindsDecided, ReadAlike DEF Tells
  <2>. QED BY <1>2, <1>6, <2>1, <2>2 DEF told, s
<1>7. CASE Api[b] = "anthropic"
  <2>1. Read(Api[b], ShapeBody(trigger, Convert(b, s))) = told
    BY <1>1, <1>7 DEF Convert, ShapeBody
  <2>2. Tells("anthropic", EventsOf(told), EventsOf(told))
    BY DEF Tells
  <2>. QED BY <1>2, <1>7, <2>1, <2>2
<1>. QED BY <1>4, <1>5, <1>6, <1>7

-----------------------------------------------------------------------------
(* What was said is told by the conversation, whatever step is taken.      *)

\* The conversation h tells s, and nothing in it makes it a compaction.
Faithful(h, s) ==
  /\ h \in Seq(FitMessage) /\ s \in Seq(SaidEvent) /\ Distinct(CallsOf(h))
  /\ Alike(EventsOf(Told(h)), s) /\ Quiet(s)
Phrase == WordEvents("user", <<CompactPhrase>>)
\* What is asked: the conversation, or a summary of it.
Asked(h, base) ==
  \/ Faithful(h, base)
  \/ \E g, s : /\ h = Append(g, Instruction) /\ base = s \o Phrase
               /\ CallsOf(g) = <<>> /\ Faithful(g, s)
\* Behind what was asked, what the rounds of the turn have said so far.
InTurn(h, s, bs, where, rnd) ==
  \E base \in Seq(SaidEvent), ev \in Seq(SaidEvent) :
    /\ s = base \o ev /\ Quiet(ev) /\ Asked(h, base)
    /\ where = "ready" \/ rnd = 0 => ev = <<>>
    /\ where = "asked" => bs \in Seq(ReplyBlock) /\ Alike(ev, BlocksSay(bs))
FirstBody ==
  pc = "asked" /\ round = 0 =>
    body.items = ShapeBody(ask.compaction /\ ask.to \in Triggers,
                           Convert(ask.to, Sanitize(history)))
TellInv ==
  /\ fresh > 9 /\ FirstBody
  /\ IF pc = "user" THEN Faithful(history, said)
     ELSE InTurn(history, said, blocks, pc, round)

LEMMA AskedMeans ==
  ASSUME NEW h, NEW base, Asked(h, base)
  PROVE  /\ h \in Seq(FitMessage) /\ base \in Seq(SaidEvent)
         /\ EventsOf(Told(h)) \in Seq(SaidEvent)
         /\ Alike(EventsOf(Told(h)), base)
         /\ ~IsCompaction(Sanitize(h)) => Faithful(h, base)
         /\ IsCompaction(Sanitize(h)) => Faithful(Front(h), Front(base))
<1>1. \A g \in Seq(FitMessage) : EventsOf(Told(g)) \in Seq(SaidEvent)
  BY ToldLaws, EventsTyped
<1>2. CASE Faithful(h, base)
  <2>1. h \in Seq(FitMessage) /\ base \in Seq(SaidEvent) /\ Alike(EventsOf(Told(h)), base)
        /\ Quiet(base)
    BY <1>2 DEF Faithful
  <2>2. Quiet(EventsOf(Told(h)))
    BY <1>1, <2>1, LoudOnTracks
  <2>3. ~IsCompaction(Sanitize(h))
    BY <2>1, <2>2, CompactionIsLoud
  <2>. QED BY <1>1, <1>2, <2>1, <2>3
<1>3. ASSUME NEW g, NEW s, h = Append(g, Instruction), base = s \o Phrase, Faithful(g, s)
      PROVE  /\ h \in Seq(FitMessage) /\ base \in Seq(SaidEvent)
             /\ Alike(EventsOf(Told(h)), base)
             /\ IsCompaction(Sanitize(h)) /\ Front(h) = g /\ Front(base) = s
  <2>1. g \in Seq(FitMessage) /\ s \in Seq(SaidEvent) /\ Alike(EventsOf(Told(g)), s)
    BY <1>3 DEF Faithful
  <2>2. Phrase \in Seq(SaidEvent) /\ Len(Phrase) = 1
        /\ EventsOf(Told(h)) = EventsOf(Told(g)) \o Phrase
    BY <1>3, <2>1, InstructionTells DEF Phrase
  <2>3. h \in Seq(FitMessage) /\ IsCompaction(Sanitize(h)) /\ Front(h) = g
    BY <1>3, <2>1, InstructionCompacts
  <2>4. Alike(EventsOf(Told(h)), base)
    <3>1. Alike(Phrase, Phrase)
      BY AlikeIsEquivalence
    <3>. QED BY <1>1, <1>3, <2>1, <2>2, <3>1, AlikeIsCongruence
  <2>5. Phrase # <<>>
    <3>1. ASSUME Phrase = <<>>
          PROVE  FALSE
      <4>1. Len(Phrase) = 0
        BY <3>1
      <4>. QED BY <2>2, <4>1
    <3>. QED BY <3>1
  <2>6. Front(base) = s \o Front(Phrase) /\ Front(Phrase) \in Seq(SaidEvent)
    BY <1>3, <2>1, <2>2, <2>5, FrontOfMore
  <2>7. Len(Front(Phrase)) = 0
    BY <2>2, <2>5, FrontTyped
  <2>8. Front(Phrase) = <<>>
    BY <2>6, <2>7
  <2>9. Front(base) = s
    BY <2>1, <2>6, <2>8
  <2>10. base \in Seq(SaidEvent)
    BY <1>3, <2>1, <2>2
  <2>. QED BY <2>3, <2>4, <2>9, <2>10
<1>. QED BY <1>1, <1>2, <1>3 DEF Asked

\* Something quiet is said, and nothing is left to answer.
LEMMA Spoke ==
  ASSUME NEW h, NEW s, Faithful(h, s), NEW r \in Seq(FitMessage),
         NEW a \in Seq(SaidEvent), NEW ev \in Seq(SaidEvent), Alike(a, ev), Quiet(ev),
         EventsOf(Told(r)) = EventsOf(Told(h)) \o a, Distinct(CallsOf(r))
  PROVE  Faithful(r, s \o ev)
<1>1. h \in Seq(FitMessage) /\ s \in Seq(SaidEvent) /\ Alike(EventsOf(Told(h)), s) /\ Quiet(s)
  BY DEF Faithful
<1>2. EventsOf(Told(h)) \in Seq(SaidEvent)
  BY <1>1, ToldLaws, EventsTyped
<1>3. s \o ev \in Seq(SaidEvent)
  BY <1>1
<1>4. Alike(EventsOf(Told(r)), s \o ev)
  BY <1>1, <1>2, AlikeIsCongruence
<1>5. Quiet(s \o ev)
  BY <1>1, QuietProperties
<1>. QED BY <1>3, <1>4, <1>5 DEF Faithful

LEMMA NothingOpen ==
  /\ Distinct(<<>>)
  /\ \A h \in Seq(FitMessage), m \in FitMessage : m.role # "assistant" => CallsOf(h \o <<m>>) = <<>>
<1>1. Distinct(<<>>)
  BY DEF Distinct
<1>2. ASSUME NEW h \in Seq(FitMessage), NEW m \in FitMessage, m.role # "assistant"
      PROVE  CallsOf(h \o <<m>>) = <<>>
  <2>1. <<m>> \in Seq(FitMessage) /\ <<m>> # <<>> /\ Len(<<m>>) = 1 /\ <<m>>[1] = m
    OBVIOUS
  <2>2. Last(h \o <<m>>) = m
    BY <2>1, LastOfMore
  <2>. QED BY <1>2, <2>2 DEF CallsOf
<1>. QED BY <1>1, <1>2

LEMMA NothingFaithful == Faithful(<<>>, <<>>)
<1>1. Told(<<>>) = <<>> /\ EventsOf(<<>>) = <<>>
  BY ToldLaws, EventsOfNothing
<1>2. CallsOf(<<>>) = <<>>
  BY DEF CallsOf
<1>3. Alike(<<>>, <<>>)
  BY AlikeIsEquivalence
<1>4. <<>> \in Seq(FitMessage) /\ <<>> \in Seq(SaidEvent)
  BY EmptySeq
<1>. QED BY <1>1, <1>2, <1>3, <1>4, NothingOpen, QuietProperties DEF Faithful

LEMMA TellInitially == Init => TellInv
<1>. SUFFICES ASSUME Init
              PROVE  TellInv
  OBVIOUS
<1>1. fresh > 9 /\ FirstBody /\ pc = "user" /\ history = <<>> /\ said = <<>>
  BY DEF Init, FirstBody
<1>. QED BY <1>1, NothingFaithful DEF TellInv

-----------------------------------------------------------------------------
\* A request that is about to be made, or to be made again.
LEMMA ReadyTurn ==
  ASSUME NEW h, NEW s, Asked(h, s), NEW bs, NEW rnd
  PROVE  InTurn(h, s, bs, "ready", rnd)
<1>1. s \in Seq(SaidEvent)
  BY AskedMeans
<1>2. <<>> \in Seq(SaidEvent) /\ s = s \o <<>>
  BY <1>1, EmptySeq
<1>3. Quiet(<<>>) /\ "ready" # "asked"
  BY QuietProperties
<1> DEFINE none == <<>>
<1>4. /\ s = s \o none /\ Quiet(none) /\ none = <<>>
  BY <1>2, <1>3
<1>. HIDE DEF none
<1>5. none \in Seq(SaidEvent)
  BY <1>2, <1>4
<1>. QED BY <1>1, <1>3, <1>4, <1>5 DEF InTurn

LEMMA TellTalk ==
  ASSUME TypeOK, TellInv, NEW how, Talk(how)
  PROVE  TellInv'
<1>1. pc = "user" /\ pc' = "ready" /\ fresh' = fresh + 3 /\ fresh \in Nat
  BY DEF Talk, TypeOK
<1>2. fresh > 9 /\ Faithful(history, said) /\ history \in Seq(FitMessage)
  BY <1>1 DEF TellInv, Faithful
<1>3. PICK m \in FitMessage, n \in FitMessage, ev \in Seq(SaidEvent) :
        /\ history' = (history \o <<m>>) \o <<n>> /\ said' = said \o ev
        /\ Wordy(m) /\ Wordy(n) /\ Quiet(ev)
        /\ EventsOf(Told(history')) = EventsOf(Told(history)) \o ev
  BY <1>2, TalkTells
<1>4. SeqLaws(FitMessage)
  BY SeqSteps
<1>5. history \o <<m>> \in Seq(FitMessage) /\ history' \in Seq(FitMessage)
  BY <1>2, <1>3, <1>4 DEF SeqLaws
<1>6. Distinct(CallsOf(history'))
  BY <1>3, <1>5, NothingOpen DEF Wordy
<1>7. Alike(ev, ev)
  BY AlikeIsEquivalence
<1>8. Faithful(history', said')
  BY <1>2, <1>3, <1>5, <1>6, <1>7, Spoke
<1>9. InTurn(history', said', blocks', "ready", round')
  BY <1>8, ReadyTurn DEF Asked
<1>10. fresh' > 9 /\ FirstBody'
  BY <1>1, <1>2 DEF FirstBody
<1>. QED BY <1>1, <1>9, <1>10 DEF TellInv

LEMMA TellTools ==
  ASSUME TypeOK, TellInv, NEW place, ToolsAnswer(place)
  PROVE  TellInv'
<1>1. pc = "user" /\ pc' = "ready" /\ fresh \in Nat
      /\ \E n \in Nat : fresh' = fresh + n + 1
  <2>1. history \in Seq(Message)
    BY DEF TypeOK
  <2>2. Len(OpenCalls) \in Nat
    BY <2>1, OpenCallsTyped
  <2>. QED BY <2>2, ZenonT(20) DEF ToolsAnswer, TypeOK
<1>2. fresh > 9 /\ Faithful(history, said) /\ history \in Seq(FitMessage)
      /\ Distinct(CallsOf(history))
  BY <1>1 DEF TellInv, Faithful
<1>3. PICK m \in FitMessage, ev \in Seq(SaidEvent) :
        /\ history' = Append(history, m) /\ said' = said \o ev
        /\ Speaks(m, ev) /\ Quiet(ev)
  BY <1>2, ToolsAnswerTells
<1>4. SeqLaws(FitMessage)
  BY SeqSteps
<1>5. history' = history \o <<m>> /\ history' \in Seq(FitMessage)
  BY <1>2, <1>3, <1>4 DEF SeqLaws
<1>6. Distinct(CallsOf(history'))
  BY <1>2, <1>3, <1>5, NothingOpen DEF Speaks
<1>7. Alike(ev, ev)
  BY AlikeIsEquivalence
<1>8. EventsOf(Told(history')) = EventsOf(Told(history)) \o ev
  BY <1>3 DEF Speaks
<1>9. Faithful(history', said')
  BY <1>2, <1>3, <1>5, <1>6, <1>7, <1>8, Spoke
<1>10. InTurn(history', said', blocks', "ready", round')
  BY <1>9, ReadyTurn DEF Asked
<1>11. fresh' > 9 /\ FirstBody'
  BY <1>1, <1>2 DEF FirstBody
<1>. QED BY <1>1, <1>10, <1>11 DEF TellInv

LEMMA TellCompact ==
  ASSUME TypeOK, TellInv, Compact
  PROVE  TellInv'
<1>1. /\ pc = "user" /\ pc' = "ready" /\ fresh' = fresh /\ CallsOf(history) = <<>>
      /\ history' = Append(history, Instruction) /\ said' = said \o Phrase
  BY DEF Compact, OpenCalls, CallsOf, Instruction, Phrase
<1>2. fresh > 9 /\ Faithful(history, said)
  BY <1>1 DEF TellInv
<1>3. Asked(history', said')
  BY <1>1, <1>2 DEF Asked
<1>4. InTurn(history', said', blocks', "ready", round')
  BY <1>3, ReadyTurn
<1>5. fresh' > 9 /\ FirstBody'
  BY <1>1, <1>2 DEF FirstBody
<1>. QED BY <1>1, <1>4, <1>5 DEF TellInv

LEMMA TellAsk ==
  ASSUME TypeOK, TellInv, NEW b \in Backends, NEW reminder \in {<<>>, <<"reminder">>},
         NEW streaming, Ask(b, streaming, reminder)
  PROVE  TellInv'
<1>1. /\ pc = "ready" /\ pc' = "asked" /\ blocks' = <<>> /\ round' = 0
      /\ ask'.to = b /\ ask'.compaction = IsCompaction(Sanitize(history))
      /\ body' = Prepare(b, reminder, IsCompaction(Sanitize(history)))
      /\ history' = history /\ said' = said /\ fresh' = fresh
  BY AskMeans
<1>2. fresh > 9 /\ InTurn(history, said, blocks, "ready", round)
  BY <1>1 DEF TellInv
<1>3. PICK base \in Seq(SaidEvent), ev \in Seq(SaidEvent) :
        said = base \o ev /\ Quiet(ev) /\ Asked(history, base) /\ ev = <<>>
  BY <1>2 DEF InTurn
<1>4. <<>> \in Seq(ReplyBlock) /\ BlocksSay(<<>>) = <<>>
  BY EmptySeq, BlocksSayLaws DEF MapLaws, BlocksSay
<1>5. Alike(ev, BlocksSay(blocks'))
  BY <1>1, <1>3, <1>4, AlikeIsEquivalence
<1>6. InTurn(history', said', blocks', "asked", round')
  BY <1>1, <1>3, <1>4, <1>5 DEF InTurn
<1>7. FirstBody'
  BY <1>1 DEF FirstBody, Prepare, Convert, Sanitize
<1>. QED BY <1>1, <1>2, <1>6, <1>7 DEF TellInv

-----------------------------------------------------------------------------
LEMMA TellRefuse ==
  ASSUME PrefixInv, TellInv, Refuse
  PROVE  TellInv'
<1>1. pc = "asked" /\ round = 0 /\ Lost /\ fresh' = fresh
  BY DEF Refuse
<1>2. fresh > 9 /\ InTurn(history, said, blocks, "asked", 0)
  BY <1>1 DEF TellInv
<1>3. ask.compaction = IsCompaction(Sanitize(history))
  BY <1>1 DEF PrefixInv, AskFits
<1>4. Asked(history, said)
  <2>1. PICK base \in Seq(SaidEvent), ev \in Seq(SaidEvent) :
          said = base \o ev /\ Asked(history, base) /\ ev = <<>>
    BY <1>2 DEF InTurn
  <2>2. said = base
    BY <2>1
  <2>. QED BY <2>1, <2>2
<1>5. CASE ask.compaction
  <2>1. pc' = "user" /\ history' = Front(history) /\ said' = Front(said)
    BY <1>1, <1>5 DEF Lost
  <2>2. Faithful(Front(history), Front(said))
    BY <1>3, <1>4, <1>5, AskedMeans
  <2>3. FirstBody'
    BY <2>1 DEF FirstBody
  <2>. QED BY <1>1, <1>2, <2>1, <2>2, <2>3 DEF TellInv
<1>6. CASE ~ask.compaction
  <2>1. pc' = "ready" /\ history' = history /\ said' = said
    BY <1>1, <1>6 DEF Lost
  <2>2. InTurn(history', said', blocks', "ready", round')
    BY <1>4, <2>1, ReadyTurn
  <2>3. FirstBody'
    BY <2>1 DEF FirstBody
  <2>. QED BY <1>1, <1>2, <2>1, <2>2, <2>3 DEF TellInv
<1>. QED BY <1>5, <1>6

\* What a round says is what its blocks do.
LEMMA RoundSays ==
  ASSUME TypeOK, fresh > 9, NEW reply \in Replies, Fits(reply),
         blocks \in Seq(ReplyBlock), NEW ev \in Seq(SaidEvent), Quiet(ev),
         Alike(ev, BlocksSay(blocks))
  PROVE  LET items == Written(reply)
             more == ev \o ReplyEvents(items)
             all == blocks \o Rendered(items)
         IN  /\ items \in Seq(ReplyItem) /\ Rendered(items) \in Seq(ReplyBlock)
             /\ all \in Seq(ReplyBlock) /\ more \in Seq(SaidEvent)
             /\ ReplyEvents(items) \in Seq(SaidEvent)
             /\ BlocksSay(all) \in Seq(SaidEvent)
             /\ Alike(more, BlocksSay(all)) /\ Quiet(more)
             /\ Distinct(UsesOf(Rendered(items)))
<1> DEFINE items == Written(reply)
<1>1. fresh \in Nat /\ Len(blocks) \in Nat
  BY DEF TypeOK
<1>2. /\ items \in Seq(Calm) /\ DistinctNames(items)
      /\ Delivery = "native" => NativeFits(ask.to, items)
      /\ Delivery = "chat" => ReasonsFirst(items)
  BY <1>1, WrittenFits
<1>3. items \in Seq(ReplyItem)
  BY <1>1, WrittenTyped
<1>4. Quiet(ReplyEvents(items))
  BY <1>2, ReplyIsQuiet
<1>. HIDE DEF items
<1>5. /\ Rendered(items) \in Seq(ReplyBlock) /\ ReplyEvents(items) \in Seq(SaidEvent)
      /\ Alike(ReplyEvents(items), BlocksSay(Rendered(items)))
      /\ \E t \in Nat : Named(items, UsesOf(Rendered(items)), t)
  BY <1>1, <1>2, <1>3, RenderedSays
<1> DEFINE re == ReplyEvents(items)
           rd == Rendered(items)
<1>6. rd \in Seq(ReplyBlock) /\ re \in Seq(SaidEvent) /\ Alike(re, BlocksSay(rd)) /\ Quiet(re)
      /\ Distinct(UsesOf(rd))
  BY <1>4, <1>5 DEF Named
<1>. HIDE DEF re, rd
<1>7. blocks \o rd \in Seq(ReplyBlock) /\ ev \o re \in Seq(SaidEvent)
  BY <1>6
<1>8. /\ BlocksSay(blocks \o rd) = BlocksSay(blocks) \o BlocksSay(rd)
      /\ BlocksSay(blocks) \in Seq(SaidEvent) /\ BlocksSay(rd) \in Seq(SaidEvent)
      /\ BlocksSay(blocks \o rd) \in Seq(SaidEvent)
  BY <1>6, <1>7, BlocksSayLaws DEF MapLaws, BlocksSay
<1>9. Alike(ev \o re, BlocksSay(blocks \o rd))
  BY <1>6, <1>8, AlikeIsCongruence
<1>10. Quiet(ev \o re)
  BY <1>6, QuietProperties
<1>. QED BY <1>3, <1>6, <1>7, <1>8, <1>9, <1>10 DEF items, re, rd

LEMMA TellContinue ==
  ASSUME TypeOK, TellInv, NEW reply \in Replies, Continue(reply)
  PROVE  TellInv'
<1> DEFINE items == Written(reply)
<1>1. /\ pc = "asked" /\ pc' = "asked" /\ Fits(reply) /\ round' = round + 1
      /\ blocks' = blocks \o Rendered(items) /\ said' = said \o ReplyEvents(items)
      /\ history' = history /\ fresh' = fresh + Len(items) + 1
  BY DEF Continue
<1>2. fresh > 9 /\ fresh \in Nat /\ round \in Nat /\ InTurn(history, said, blocks, "asked", round)
  BY <1>1 DEF TellInv, TypeOK
<1>3. fresh' > 9
  <2>1. Len(items) \in Nat
    BY <1>2, WrittenTyped
  <2>. HIDE DEF items
  <2>. QED BY <1>1, <1>2, <2>1
<1>4. PICK base \in Seq(SaidEvent), ev \in Seq(SaidEvent) :
        /\ said = base \o ev /\ Quiet(ev) /\ Asked(history, base)
        /\ blocks \in Seq(ReplyBlock) /\ Alike(ev, BlocksSay(blocks))
  BY <1>2 DEF InTurn
<1>5. /\ blocks \o Rendered(items) \in Seq(ReplyBlock)
      /\ ev \o ReplyEvents(items) \in Seq(SaidEvent) /\ ReplyEvents(items) \in Seq(SaidEvent)
      /\ Alike(ev \o ReplyEvents(items), BlocksSay(blocks \o Rendered(items)))
      /\ Quiet(ev \o ReplyEvents(items))
  BY <1>1, <1>2, <1>4, RoundSays
<1>. HIDE DEF items
<1> DEFINE re == ReplyEvents(items)
           more == ev \o re
           all == blocks \o Rendered(items)
<1>6. more \in Seq(SaidEvent) /\ re \in Seq(SaidEvent) /\ all \in Seq(ReplyBlock)
      /\ Alike(more, BlocksSay(all)) /\ Quiet(more) /\ said' = said \o re /\ blocks' = all
  BY <1>1, <1>5
<1>7. said' = base \o more
  <2>1. said' = (base \o ev) \o re
    BY <1>4, <1>6
  <2>. HIDE DEF re
  <2>2. SeqLaws(SaidEvent)
    BY SeqSteps
  <2>3. (base \o ev) \o re = base \o (ev \o re)
    BY <1>6, <2>2 DEF SeqLaws
  <2>. QED BY <2>1, <2>3
<1>8. round' # 0
  BY <1>1, <1>2
<1>. HIDE DEF more, all
<1>9. InTurn(history', said', blocks', "asked", round')
  BY <1>1, <1>4, <1>6, <1>7, <1>8 DEF InTurn
<1>10. FirstBody'
  BY <1>8 DEF FirstBody
<1>. QED BY <1>1, <1>3, <1>9, <1>10 DEF TellInv

-----------------------------------------------------------------------------
\* A summary in which nothing is said leaves the conversation as it was.
LEMMA EmptySummary ==
  ASSUME TypeOK, RoundFits, pc = "asked", blocks \in Seq(ReplyBlock), NEW rd \in Seq(ReplyBlock),
         Words(JoinText(blocks \o rd)) = <<>>,
         NEW ev \in Seq(SaidEvent), Alike(ev, BlocksSay(blocks))
  PROVE  ev = <<>>
<1>1. blocks \in Seq(ContentBlock) /\ rd \in Seq(ContentBlock)
  BY ReplyBlocksAreBlocks
<1>2. /\ JoinText(blocks) \in Text /\ JoinText(rd) \in Text
      /\ JoinText(blocks \o rd) = JoinText(blocks) \o JoinText(rd)
  BY <1>1, JoinTextProperties
<1> DEFINE s == JoinText(blocks)
           t == JoinText(rd)
<1>3. Words(s) \in Text /\ Words(t) \in Text /\ Words(s) \o Words(t) = <<>>
  <2>1. s \in Text /\ t \in Text /\ Words(s \o t) = <<>>
    BY <1>2
  <2>. HIDE DEF s, t
  <2>. QED BY <2>1, WordsProperties
<1>4. Words(s) = <<>>
  <2> DEFINE p == Words(s)
             q == Words(t)
  <2>1. p \in Seq(Nat) /\ q \in Seq(Nat) /\ p \o q = <<>>
    BY <1>3 DEF Text
  <2>. HIDE DEF p, q
  <2>2. Len(p) + Len(q) = 0 /\ Len(p) \in Nat /\ Len(q) \in Nat
    <3>1. Len(p \o q) = Len(p) + Len(q) /\ Len(p) \in Nat /\ Len(q) \in Nat
      BY <2>1
    <3>2. Len(p \o q) = 0
      BY <2>1
    <3>. QED BY <3>1, <3>2
  <2>3. Len(p) = 0
    BY <2>2
  <2>4. p = <<>>
    BY <2>1, <2>3
  <2>. QED BY <2>4 DEF p
<1>5. ~Has(Thoughts, blocks) /\ OfType(blocks, "tool_use") = <<>>
  BY DEF RoundFits
<1>6. BlocksSay(blocks) = WordEvents("model", s)
  BY <1>5, TextsSay
<1>7. WordEvents("model", s) = <<>>
  <2>1. "model" \in Side /\ s \in Text
    BY <1>2 DEF Side
  <2>. HIDE DEF s
  <2>. QED BY <1>4, <2>1, WordlessSaysNothing
<1>. QED BY <1>6, <1>7, AlikeNothing

\* A summary in the place of what it sums up.
LEMMA SummaryFaithful ==
  ASSUME NEW s \in Text, Quiet(WordEvents("user", s))
  PROVE  Faithful(<<StringMessage("user", s)>>, WordEvents("user", s))
<1> DEFINE m == StringMessage("user", s)
           ev == WordEvents("user", s)
           none == <<>>
<1>1. none \in Seq(FitMessage) /\ EventsOf(Told(none)) = <<>> /\ Faithful(none, none)
  BY EmptySeq, NothingFaithful, ToldLaws, EventsOfNothing
<1>2. /\ m \in FitMessage /\ <<m>> \in Seq(FitMessage)
      /\ EventsOf(Told(none \o <<m>>)) = EventsOf(Told(none)) \o ev
  BY <1>1, StringAppended
<1>3. ev \in Seq(SaidEvent) /\ Alike(ev, ev)
  BY WordEventsTyped, AlikeIsEquivalence
<1>4. SeqLaws(FitMessage) /\ SeqLaws(SaidEvent)
  BY SeqSteps
<1>5. none \o <<m>> = <<m>> /\ none \o ev = ev
  BY <1>2, <1>3, <1>4 DEF SeqLaws
<1>6. m.role # "assistant"
  BY DEF StringMessage
<1>7. Distinct(CallsOf(<<m>>))
  <2>. HIDE DEF m, none
  <2>. QED BY <1>1, <1>2, <1>5, <1>6, NothingOpen
<1>8. Faithful(<<m>>, none \o ev)
  <2>1. Quiet(ev)
    OBVIOUS
  <2>. HIDE DEF m, ev, none
  <2>. QED BY <1>1, <1>2, <1>3, <1>5, <1>7, <2>1, Spoke
<1>. QED BY <1>5, <1>8

\* A reply is held, if it has any content.
LEMMA ReplyFaithful ==
  ASSUME NEW h, NEW s, Faithful(h, s), h # <<>>, Last(h).role # "assistant",
         NEW all \in Seq(ReplyBlock), NEW more \in Seq(SaidEvent), Alike(more, BlocksSay(all)),
         BlocksSay(all) \in Seq(SaidEvent), Quiet(more), Distinct(UsesOf(all))
  PROVE  Faithful(IF all # <<>> THEN Append(h, BlockMessage("assistant", all)) ELSE h,
                  s \o more)
<1> DEFINE m == BlockMessage("assistant", all)
           a == BlocksSay(all)
<1>1. h \in Seq(FitMessage) /\ s \in Seq(SaidEvent)
  BY DEF Faithful
<1>2. a \in Seq(SaidEvent) /\ Alike(a, more)
  BY AlikeIsEquivalence
<1>3. EventsOf(Told(h)) \in Seq(SaidEvent)
  BY <1>1, ToldLaws, EventsTyped
<1>4. CASE all = <<>>
  <2>1. a = <<>>
    BY <1>4, BlocksSayLaws DEF MapLaws, BlocksSay
  <2>2. SeqLaws(SaidEvent)
    BY SeqSteps
  <2>3. EventsOf(Told(h)) = EventsOf(Told(h)) \o a
    BY <1>3, <2>1, <2>2 DEF SeqLaws
  <2>4. Distinct(CallsOf(h))
    BY DEF Faithful
  <2>. HIDE DEF a
  <2>5. Faithful(h, s \o more)
    BY <1>1, <1>2, <2>3, <2>4, Spoke
  <2>. QED BY <1>4, <2>5
<1>5. CASE all # <<>>
  <2>1. m \in FitMessage /\ EventsOf(Told(Append(h, m))) = EventsOf(Told(h)) \o a
    BY <1>1, ReplyAppended
  <2>2. m.role = "assistant" /\ m.blocks = all
    BY DEF BlockMessage
  <2>. HIDE DEF m, a
  <2>3. Append(h, m) \in Seq(FitMessage) /\ Append(h, m) # <<>> /\ Last(Append(h, m)) = m
    <3>1. SeqLaws(FitMessage)
      BY SeqSteps
    <3>2. Append(h, m) = h \o <<m>> /\ Append(h, m) \in Seq(FitMessage)
      BY <1>1, <2>1, <3>1 DEF SeqLaws
    <3>3. <<m>> \in Seq(FitMessage) /\ <<m>> # <<>> /\ Len(<<m>>) = 1 /\ <<m>>[1] = m
      BY <2>1
    <3>. QED BY <1>1, <3>2, <3>3, LastOfMore
  <2>4. Distinct(CallsOf(Append(h, m)))
    BY <2>2, <2>3 DEF CallsOf, UsesOf
  <2>5. Faithful(Append(h, m), s \o more)
    BY <1>2, <2>1, <2>3, <2>4, Spoke
  <2>. QED BY <1>5, <2>5 DEF m
<1>. QED BY <1>4, <1>5

LEMMA TellClose ==
  ASSUME PrefixInv, EndInv, TellInv, pc = "asked", NEW reply \in Replies, Fits(reply),
         NEW reason, NEW status, NEW done,
         LET items == Written(reply)
         IN  CloseWith(items, blocks \o Rendered(items), reason, status, done)
  PROVE  Faithful(history', said') /\ pc' = "user"
<1> DEFINE items == Written(reply)
           re == ReplyEvents(items)
           rd == Rendered(items)
           all == blocks \o rd
<1>1. /\ fresh > 9 /\ InTurn(history, said, blocks, "asked", round)
      /\ TypeOK /\ ask.compaction = IsCompaction(Sanitize(history))
      /\ RoundFits /\ history # <<>> /\ Last(history).role # "assistant"
  BY DEF TellInv, PrefixInv, AskFits, EndInv, HistoryFits
<1>2. PICK base \in Seq(SaidEvent), ev \in Seq(SaidEvent) :
        /\ said = base \o ev /\ Quiet(ev) /\ Asked(history, base)
        /\ blocks \in Seq(ReplyBlock) /\ Alike(ev, BlocksSay(blocks))
  BY <1>1 DEF InTurn
<1>3. /\ items \in Seq(ReplyItem) /\ rd \in Seq(ReplyBlock) /\ all \in Seq(ReplyBlock)
      /\ ev \o re \in Seq(SaidEvent) /\ re \in Seq(SaidEvent)
      /\ BlocksSay(all) \in Seq(SaidEvent)
      /\ Alike(ev \o re, BlocksSay(all)) /\ Quiet(ev \o re) /\ Distinct(UsesOf(rd))
  BY <1>1, <1>2, RoundSays
<1>4. /\ pc' = "user"
      /\ ~ask.compaction => /\ history' = IF all # <<>> THEN Append(history, BlockMessage("assistant", all))
                                          ELSE history
                            /\ said' = said \o re
      /\ ask.compaction /\ Words(JoinText(all)) = <<>> =>
           history' = Front(history) /\ said' = Front(said)
      /\ ask.compaction /\ Words(JoinText(all)) # <<>> =>
           /\ history' = <<StringMessage("user", Words(JoinText(all)))>>
           /\ said' = WordEvents("user", Words(JoinText(all)))
  BY DEF CloseWith
<1>5. Distinct(UsesOf(all))
  <2>1. UsesOf(all) = UsesOf(blocks) \o UsesOf(rd)
    BY <1>2, <1>3, UsesOfLaws
  <2>2. UsesOf(blocks) = <<>>
    BY <1>1 DEF RoundFits, UsesOf
  <2>3. UsesOf(rd) \in Seq(Uses)
    BY <1>3, UsesOfLaws
  <2>4. SeqLaws(Uses)
    BY SeqSteps
  <2>5. UsesOf(all) = UsesOf(rd)
    BY <2>1, <2>2, <2>3, <2>4 DEF SeqLaws
  <2>. QED BY <1>3, <2>5
<1>. HIDE DEF items, re, rd, all
<1>6. CASE ~ask.compaction
  <2>1. Faithful(history, base)
    BY <1>1, <1>2, <1>6, AskedMeans
  <2>2. said' = base \o (ev \o re)
    <3>1. Regrouped(base, ev, re)
      BY <1>2, <1>3, Regroup, Zenon
    <3>2. (base \o ev) \o re = base \o (ev \o re)
      BY <3>1 DEF Regrouped
    <3>. QED BY <1>2, <1>4, <1>6, <3>2
  <2> DEFINE more == ev \o re
  <2>3. more \in Seq(SaidEvent) /\ Alike(more, BlocksSay(all)) /\ Quiet(more)
        /\ said' = base \o more
    BY <1>3, <2>2
  <2>. HIDE DEF more
  <2>4. Faithful(IF all # <<>> THEN Append(history, BlockMessage("assistant", all)) ELSE history,
                 base \o more)
    BY <1>1, <1>3, <1>5, <2>1, <2>3, ReplyFaithful
  <2>. QED BY <1>4, <1>6, <2>3, <2>4
<1>7. CASE ask.compaction /\ Words(JoinText(all)) = <<>>
  <2>1. Words(JoinText(blocks \o rd)) = <<>>
    BY <1>7 DEF all
  <2>2. ev = <<>>
    BY <1>1, <1>2, <1>3, <2>1, EmptySummary
  <2>3. said = base
    BY <1>2, <2>2
  <2>. QED BY <1>1, <1>2, <1>4, <1>7, <2>3, AskedMeans
<1>8. CASE ask.compaction /\ Words(JoinText(all)) # <<>>
  <2> DEFINE s == Words(JoinText(all))
             more == ev \o re
  <2>1. Quiet(BlocksSay(all))
    <3>1. more \in Seq(SaidEvent) /\ Alike(more, BlocksSay(all)) /\ Quiet(more)
      BY <1>3
    <3>. HIDE DEF more
    <3>. QED BY <1>3, <3>1, LoudOnTracks
  <2>2. s \in Text /\ Quiet(WordEvents("user", s))
    BY <1>3, <2>1, SummaryIsQuiet
  <2>3. history' = <<StringMessage("user", s)>> /\ said' = WordEvents("user", s)
    BY <1>4, <1>8
  <2>. HIDE DEF s
  <2>. QED BY <1>4, <2>2, <2>3, SummaryFaithful
<1>. QED BY <1>6, <1>7, <1>8

-----------------------------------------------------------------------------
LEMMA TellEnds ==
  ASSUME PrefixInv, EndInv, TellInv, NEW reply \in Replies, Reply(reply) \/ Break(reply)
  PROVE  TellInv'
<1>1. TypeOK /\ fresh > 9 /\ fresh \in Nat
  BY DEF PrefixInv, TypeOK, TellInv
<1>2. /\ pc = "asked" /\ Fits(reply)
      /\ \E reason \in StopReason, status \in Status :
           CloseWith(Written(reply), blocks \o Rendered(Written(reply)), reason, status,
                     Calls(Written(reply)) = <<>> /\ IsDone(text \o Said(Written(reply), "message")))
  BY <1>1, EndsClose
<1>3. Faithful(history', said') /\ pc' = "user"
  BY <1>2, TellClose
<1>4. fresh' > 9
  <2> DEFINE items == Written(reply)
  <2>1. fresh' = fresh + Len(items) + 1
    BY DEF Reply, Break
  <2>2. Len(items) \in Nat
    BY <1>1, WrittenTyped
  <2>. HIDE DEF items
  <2>. QED BY <1>1, <2>1, <2>2
<1>5. FirstBody'
  BY <1>3 DEF FirstBody
<1>. QED BY <1>3, <1>4, <1>5 DEF TellInv

LEMMA TellUnchanged ==
  ASSUME TellInv, UNCHANGED vars
  PROVE  TellInv'
<1>1. UNCHANGED <<history, pc, ask, body, blocks, round, fresh, said>>
  BY DEF vars, requestVars
<1>2. FirstBody'
  BY <1>1 DEF TellInv, FirstBody, Convert, Sanitize
<1>3. fresh' > 9
  BY <1>1 DEF TellInv
<1>4. pc = "user" => Faithful(history', said')
  BY <1>1 DEF TellInv
<1>5. pc # "user" => InTurn(history', said', blocks', pc', round')
  BY <1>1 DEF TellInv
<1>. QED BY <1>1, <1>2, <1>3, <1>4, <1>5 DEF TellInv

\* PrefixInv, EndInv and TellInv hold together in every behaviour: the
\* messages that are held tell what was said, on every track.
THEOREM TellInvariance == Spec => [](PrefixInv /\ EndInv /\ TellInv)
<1>1. ASSUME PrefixInv, EndInv, TellInv, Next
      PROVE  TellInv'
  <2>1. TypeOK
    BY <1>1 DEF PrefixInv
  <2>2. CASE \E how \in Utterances : Talk(how)
    BY <1>1, <2>1, <2>2, TellTalk
  <2>3. CASE \E place \in ResultPlaces : ToolsAnswer(place)
    BY <1>1, <2>1, <2>3, TellTools
  <2>4. CASE Compact
    BY <1>1, <2>1, <2>4, TellCompact
  <2>5. CASE \E b \in Backends, reminder \in {<<>>, <<"reminder">>} :
               \E streaming \in StreamingOf(b) : Ask(b, streaming, reminder)
    BY <1>1, <2>1, <2>5, TellAsk
  <2>6. CASE \E reply \in Replies : Reply(reply) \/ Continue(reply) \/ Break(reply)
    BY <1>1, <2>1, <2>6, TellEnds, TellContinue
  <2>7. CASE Refuse
    BY <1>1, <2>7, TellRefuse
  <2>. QED BY <1>1, <2>2, <2>3, <2>4, <2>5, <2>6, <2>7 DEF Next
<1>2. ASSUME PrefixInv, EndInv, TellInv, [Next]_vars
      PROVE  TellInv'
  BY <1>1, <1>2, TellUnchanged
<1>. QED BY <1>2, TellInitially, EndInvariance, PTL DEF Spec

\* What is compared is what is selected.
LEMMA TracksAre ==
  ASSUME NEW events
  PROVE  /\ events \in Seq(SaidEvent) =>
              \A kinds : OfKinds(events, kinds) = Selected(OfKind(kinds), events)
         /\ events \in Seq(SaidEvent) => UserSide(events) = Selected(OfUser, events)
<1>. SUFFICES ASSUME events \in Seq(SaidEvent)
              PROVE  /\ \A kinds : OfKinds(events, kinds) = Selected(OfKind(kinds), events)
                     /\ UserSide(events) = Selected(OfUser, events)
  OBVIOUS
<1>1. \A i \in DOMAIN events : events[i] \in SaidEvent
  OBVIOUS
<1>2. ASSUME NEW kinds
      PROVE  OfKinds(events, kinds) = Selected(OfKind(kinds), events)
  <2>1. \A i \in DOMAIN events : events[i].kind \in kinds <=> events[i] \in OfKind(kinds)
    BY <1>1 DEF OfKind
  <2>2. [i \in DOMAIN events |-> IF events[i].kind \in kinds THEN <<events[i]>> ELSE <<>>]
          = [i \in DOMAIN events |-> IF events[i] \in OfKind(kinds) THEN <<events[i]>> ELSE <<>>]
    BY <2>1
  <2>. QED BY <2>2 DEF OfKinds, Only, Selected
<1>3. UserSide(events) = Selected(OfUser, events)
  <2>1. \A i \in DOMAIN events : events[i].side = "user" <=> events[i] \in OfUser
    BY <1>1 DEF OfUser
  <2>2. [i \in DOMAIN events |-> IF events[i].side = "user" THEN <<events[i]>> ELSE <<>>]
          = [i \in DOMAIN events |-> IF events[i] \in OfUser THEN <<events[i]>> ELSE <<>>]
    BY <2>1
  <2>. QED BY <2>2 DEF UserSide, Only, Selected
<1>. QED BY <1>2, <1>3

\* However the backends that answered before delivered their replies, the
\* next request tells its backend all that was said: the words of both sides,
\* the calls and the results with their calls; the Responses API also where a
\* result stands among the words, the Messages API also the thinking.
THEOREM NothingLost == Spec => []NothingIsLost
<1>1. ASSUME PrefixInv, TellInv
      PROVE  NothingIsLost
  <2>. SUFFICES ASSUME pc = "asked", round = 0
                PROVE  LET api == Api[ask.to]
                           read == EventsOf(Read(api, body.items))
                           Same(kinds) == OfKinds(read, kinds) = OfKinds(said, kinds)
                       IN  /\ Same({"words"})
                           /\ Same({"call", "result"})
                           /\ api = "responses" => UserSide(read) = UserSide(said)
                           /\ api = "anthropic" => Same({"thought"})
    BY DEF NothingIsLost
  <2> DEFINE trigger == ask.compaction /\ ask.to \in Triggers
             api == Api[ask.to]
             told == EventsOf(Told(history))
  <2>1. /\ body.items = ShapeBody(trigger, Convert(ask.to, Sanitize(history)))
        /\ InTurn(history, said, blocks, "asked", 0)
    BY <1>1 DEF TellInv, FirstBody
  <2>2. Asked(history, said)
    <3>1. PICK base \in Seq(SaidEvent), ev \in Seq(SaidEvent) :
            said = base \o ev /\ Asked(history, base) /\ ev = <<>>
      BY <2>1 DEF InTurn
    <3>2. said = base
      BY <3>1
    <3>. QED BY <3>1, <3>2
  <2>3. /\ history \in Seq(FitMessage) /\ said \in Seq(SaidEvent) /\ told \in Seq(SaidEvent)
        /\ Alike(told, said)
    BY <2>2, AskedMeans
  <2>4. ask.to \in Backends
    BY <1>1 DEF PrefixInv, AskFits
  <2>5. trigger => api = "responses"
    BY ConversationAssumption
  <2> DEFINE read == Read(api, ShapeBody(trigger, Convert(ask.to, Sanitize(history))))
  <2>. HIDE DEF trigger
  <2>6. read \in Seq(Utterance) /\ Tells(api, EventsOf(read), told)
    BY <2>3, <2>4, <2>5, RequestTells
  <2>7. Read(api, body.items) = read
    BY <2>1
  <2>. HIDE DEF read, told
  <2> DEFINE events == EventsOf(read)
  <2>8. events \in Seq(SaidEvent)
    BY <2>6, EventsTyped
  <2>9. Tells(api, events, told)
    BY <2>6
  <2>10. EventsOf(Read(api, body.items)) = events
    BY <2>7
  <2>. HIDE DEF events, api
  <2>11. /\ Selected(OfKind({"words"}), told) = Selected(OfKind({"words"}), said)
         /\ Selected(OfKind({"call", "result"}), told) = Selected(OfKind({"call", "result"}), said)
         /\ Selected(OfKind({"thought"}), told) = Selected(OfKind({"thought"}), said)
         /\ Selected(OfUser, told) = Selected(OfUser, said)
    BY <2>3 DEF Alike, EventTracks
  <2>12. OfKinds(events, {"words"}) = OfKinds(said, {"words"})
    BY <2>3, <2>8, <2>9, <2>11, TracksAre DEF Tells
  <2>13. OfKinds(events, {"call", "result"}) = OfKinds(said, {"call", "result"})
    BY <2>3, <2>8, <2>9, <2>11, TracksAre DEF Tells
  <2>14. api = "responses" => UserSide(events) = UserSide(said)
    BY <2>3, <2>8, <2>9, <2>11, TracksAre DEF Tells
  <2>15. api = "anthropic" => OfKinds(events, {"thought"}) = OfKinds(said, {"thought"})
    BY <2>3, <2>8, <2>9, <2>11, TracksAre DEF Tells
  <2>. QED BY <2>10, <2>12, <2>13, <2>14, <2>15 DEF api
<1>. QED BY <1>1, TellInvariance, PTL

-----------------------------------------------------------------------------
(* Calls and results belong together.                                      *)

Calling(id) == {x \in Utterance : x.kind = "call" /\ x.id = id}
Answering(id) == {x \in Utterance : x.kind = "result" /\ x.id = id}

\* Every result has a call before it, each id has as many calls as results,
\* and the ids that providers give, all below k, are called once.
Matched(r, k) ==
  /\ \A i \in DOMAIN r : r[i].kind = "result" => \E j \in 1..(i - 1) : r[j] \in Calling(r[i].id)
  /\ \A id : Count(Calling(id), r) = Count(Answering(id), r)
  /\ \A n \in Nat : Count(Calling(CallId(n)), r) <= (IF n < k THEN 1 ELSE 0)

\* Calls that can be put behind r.
Opened(calls, r, k) ==
  /\ Distinct(calls)
  /\ \A i \in DOMAIN calls, n \in Nat :
       calls[i].id = CallId(n) => n < k /\ Count(Calling(CallId(n)), r) = 0

LEMMA MatchedNothing ==
  ASSUME NEW k \in Nat
  PROVE  Matched(<<>>, k)
<1>1. \A P : Count(P, <<>>) = 0
  BY Counts DEF CountLaws
<1>. QED BY <1>1 DEF Matched

LEMMA MatchedLater ==
  ASSUME NEW r \in Seq(Utterance), NEW k \in Nat, NEW l \in Nat, k <= l, Matched(r, k)
  PROVE  Matched(r, l)
<1>1. ASSUME NEW n \in Nat
      PROVE  Count(Calling(CallId(n)), r) <= (IF n < l THEN 1 ELSE 0)
  <2>1. Count(Calling(CallId(n)), r) \in Nat
    BY Counts DEF CountLaws
  <2>2. Count(Calling(CallId(n)), r) <= (IF n < k THEN 1 ELSE 0)
    BY DEF Matched
  <2>. QED BY <2>1, <2>2
<1>. QED BY <1>1 DEF Matched

\* Where the elements of a concatenation come from.
Spliced(s, t, u) ==
  /\ Len(u) = Len(s) + Len(t) /\ Len(s) \in Nat /\ Len(t) \in Nat
  /\ \A j \in 1..Len(s) : u[j] = s[j]
  /\ \A j \in 1..Len(t) : u[Len(s) + j] = t[j]

LEMMA SeqPieces ==
  ASSUME NEW D, NEW s \in Seq(D), NEW t \in Seq(D)
  PROVE  s \o t \in Seq(D) /\ Spliced(s, t, s \o t)
BY DEF Spliced

\* What calls and what results count for.
LEMMA CallsCount ==
  ASSUME NEW calls \in Seq(Uses)
  PROVE  LET c == Image(UseAsCall, calls)
         IN  /\ c \in Seq(Utterance) /\ Len(c) = Len(calls)
             /\ \A i \in 1..Len(calls) : /\ c[i] \in Calling(calls[i].id) /\ c[i].kind = "call"
                                         /\ c[i].id = calls[i].id
             /\ \A id : Count(Answering(id), c) = 0
<1> DEFINE c == Image(UseAsCall, calls)
<1>1. /\ c \in Seq(Exchange) /\ Len(c) = Len(calls)
      /\ \A i \in 1..Len(calls) : c[i] = UseAsCall[calls[i]]
  BY UsesTyped, ImageTyped
<1>. HIDE DEF c
<1>2. c \in Seq(Utterance)
  BY <1>1, TracksOfExchange
<1>3. ASSUME NEW i \in 1..Len(calls)
      PROVE  c[i] \in Calling(calls[i].id) /\ c[i].kind = "call" /\ c[i].id = calls[i].id
  <2>1. calls[i] \in Uses
    OBVIOUS
  <2>2. c[i] = Utter("model", "call", calls[i].text, calls[i].id)
    BY <1>1, <2>1, UsesTyped
  <2>3. c[i] \in Utterance
    BY <1>1, <1>2
  <2>. QED BY <2>2, <2>3 DEF Calling, Utter
<1>4. ASSUME NEW id
      PROVE  Count(Answering(id), c) = 0
  <2>1. DOMAIN c = 1..Len(calls)
    BY <1>1
  <2>2. ~Has(Answering(id), c)
    BY <1>3, <2>1 DEF Has, Answering
  <2>. QED BY <1>2, <2>2, CountHas
<1>. QED BY <1>1, <1>2, <1>3, <1>4 DEF c

LEMMA ResultsCount ==
  ASSUME NEW results \in Seq(Results)
  PROVE  LET t == Image(ResultAsHeard, results)
         IN  /\ t \in Seq(Utterance) /\ Len(t) = Len(results)
             /\ \A i \in 1..Len(results) : /\ t[i] \in Answering(results[i].id)
                                           /\ t[i].kind = "result" /\ t[i].id = results[i].id
             /\ \A id : Count(Calling(id), t) = 0
<1> DEFINE t == Image(ResultAsHeard, results)
<1>1. /\ t \in Seq(Exchange) /\ Len(t) = Len(results)
      /\ \A i \in 1..Len(results) : t[i] = ResultAsHeard[results[i]]
  BY UsesTyped, ImageTyped
<1>. HIDE DEF t
<1>2. t \in Seq(Utterance)
  BY <1>1, TracksOfExchange
<1>3. ASSUME NEW i \in 1..Len(results)
      PROVE  t[i] \in Answering(results[i].id) /\ t[i].kind = "result" /\ t[i].id = results[i].id
  <2>1. results[i] \in Results
    OBVIOUS
  <2>2. t[i] = Utter("user", "result", results[i].text, results[i].id)
    BY <1>1, <2>1, UsesTyped
  <2>3. t[i] \in Utterance
    BY <1>1, <1>2
  <2>. QED BY <2>2, <2>3 DEF Answering, Utter
<1>4. ASSUME NEW id
      PROVE  Count(Calling(id), t) = 0
  <2>1. DOMAIN t = 1..Len(results)
    BY <1>1
  <2>2. ~Has(Calling(id), t)
    BY <1>3, <2>1 DEF Has, Calling
  <2>. QED BY <1>2, <2>2, CountHas
<1>. QED BY <1>1, <1>2, <1>3, <1>4 DEF t

\* Calls, and behind them their results.
LEMMA MatchedAnswered ==
  ASSUME NEW r \in Seq(Utterance), NEW k \in Nat, Matched(r, k),
         NEW calls \in Seq(Uses), NEW results \in Seq(Results),
         Answers(results, calls), Opened(calls, r, k)
  PROVE  Matched(r \o (Image(UseAsCall, calls) \o Image(ResultAsHeard, results)), k)
<1> DEFINE c == Image(UseAsCall, calls)
           t == Image(ResultAsHeard, results)
           all == r \o (c \o t)
           n == Len(calls)
<1>1. /\ c \in Seq(Utterance) /\ Len(c) = n /\ n \in Nat
      /\ \A i \in 1..n : c[i] \in Calling(calls[i].id) /\ c[i].kind = "call"
                         /\ c[i].id = calls[i].id
      /\ \A id : Count(Answering(id), c) = 0
  BY CallsCount
<1>2. Len(results) = n /\ \A i \in 1..n : results[i].id = calls[i].id
  BY DEF Answers
<1>3. /\ t \in Seq(Utterance) /\ Len(t) = n
      /\ \A i \in 1..n : t[i] \in Answering(calls[i].id) /\ t[i].kind = "result"
                         /\ t[i].id = calls[i].id
      /\ \A id : Count(Calling(id), t) = 0
  BY <1>2, ResultsCount
<1>. HIDE DEF c, t, n
<1>4. ASSUME NEW id
      PROVE  Count(Calling(id), c) = Count(Answering(id), t)
  <2> DEFINE P == Calling(id)
             Q == Answering(id)
  <2>1. \A i \in 1..Len(c) : c[i] \in P <=> t[i] \in Q
    BY <1>1, <1>3 DEF Calling, Answering
  <2>2. Len(c) = Len(t) /\ c \in Seq(Utterance) /\ t \in Seq(Utterance)
    BY <1>1, <1>3
  <2>. HIDE DEF P, Q
  <2>3. Count(P, c) = Count(Q, t)
    BY <2>1, <2>2, CountByPlace
  <2>. QED BY <2>3 DEF P, Q
<1>5. ASSUME NEW P
      PROVE  /\ Count(P, all) = Count(P, r) + (Count(P, c) + Count(P, t))
             /\ Count(P, r) \in Nat /\ Count(P, c) \in Nat /\ Count(P, t) \in Nat
  <2>1. CountLaws(Utterance, P)
    BY Counts
  <2>2. c \o t \in Seq(Utterance)
    BY <1>1, <1>3
  <2>. QED BY <1>1, <1>3, <2>1, <2>2 DEF CountLaws
<1>6. ASSUME NEW id
      PROVE  Count(Calling(id), all) = Count(Answering(id), all)
  <2>1. Count(Calling(id), r) = Count(Answering(id), r)
    BY DEF Matched
  <2>2. Count(Calling(id), all) = Count(Calling(id), r) + (Count(Calling(id), c) + Count(Calling(id), t))
    BY <1>5
  <2>3. Count(Answering(id), all)
          = Count(Answering(id), r) + (Count(Answering(id), c) + Count(Answering(id), t))
    BY <1>5
  <2>4. Count(Calling(id), t) = 0 /\ Count(Answering(id), c) = 0
    BY <1>1, <1>3
  <2>5. Count(Answering(id), t) \in Nat /\ Count(Calling(id), r) \in Nat
    BY <1>5
  <2>. QED BY <1>4, <2>1, <2>2, <2>3, <2>4, <2>5
<1>7. ASSUME NEW m \in Nat
      PROVE  Count(Calling(CallId(m)), all) <= (IF m < k THEN 1 ELSE 0)
  <2> DEFINE P == Calling(CallId(m))
  <2>1. Count(P, all) = Count(P, r) + Count(P, c) /\ Count(P, r) \in Nat /\ Count(P, c) \in Nat
    BY <1>3, <1>5
  <2>2. Count(P, r) <= (IF m < k THEN 1 ELSE 0)
    BY DEF Matched
  <2>3. CASE \E i \in 1..n : calls[i].id = CallId(m)
    <3>1. m < k /\ Count(P, r) = 0
      BY <2>3 DEF Opened, n
    <3>2. \A i, j \in DOMAIN c : c[i] \in P /\ c[j] \in P => i = j
      <4>1. \A i, j \in 1..n : calls[i].id = calls[j].id => i = j
        BY DEF Opened, Distinct, n
      <4>2. DOMAIN c = 1..n
        BY <1>1
      <4>. QED BY <1>1, <4>1, <4>2 DEF Calling
    <3>3. Count(P, c) <= 1
      BY <1>1, <3>2, CountAtMostOne
    <3>. QED BY <2>1, <3>1, <3>3
  <2>4. CASE ~\E i \in 1..n : calls[i].id = CallId(m)
    <3>1. DOMAIN c = 1..n
      BY <1>1
    <3>2. ~Has(P, c)
      BY <1>1, <2>4, <3>1 DEF Has, Calling
    <3>3. Count(P, c) = 0
      BY <1>1, <3>2, CountHas
    <3>. QED BY <2>1, <2>2, <3>3
  <2>. QED BY <2>3, <2>4
<1>8. ASSUME NEW i \in DOMAIN all, all[i].kind = "result"
      PROVE  \E j \in 1..(i - 1) : all[j] \in Calling(all[i].id)
  <2>1. /\ Len(r) \in Nat /\ Len(all) = Len(r) + (n + n) /\ i \in 1..Len(all)
        /\ \A j \in 1..Len(r) : all[j] = r[j]
        /\ \A j \in 1..n : all[Len(r) + j] = c[j]
        /\ \A j \in 1..n : all[Len(r) + (n + j)] = t[j]
    <3>1. c \o t \in Seq(Utterance) /\ Len(c \o t) = n + n
          /\ (\A j \in 1..n : (c \o t)[j] = c[j])
          /\ (\A j \in 1..n : (c \o t)[n + j] = t[j])
      <4>1. c \o t \in Seq(Utterance) /\ Spliced(c, t, c \o t)
        BY <1>1, <1>3, SeqPieces
      <4>. QED BY <1>1, <1>3, <4>1 DEF Spliced
    <3> DEFINE s == c \o t
    <3>2. s \in Seq(Utterance) /\ Len(s) = n + n
          /\ (\A j \in 1..n : s[j] = c[j]) /\ (\A j \in 1..n : s[n + j] = t[j])
      BY <3>1
    <3>. HIDE DEF s
    <3>3. /\ Len(r) \in Nat /\ Len(r \o s) = Len(r) + (n + n)
          /\ \A j \in 1..Len(r) : (r \o s)[j] = r[j]
          /\ \A j \in 1..(n + n) : (r \o s)[Len(r) + j] = s[j]
      <4>1. Spliced(r, s, r \o s)
        BY <3>2, SeqPieces
      <4>. QED BY <3>2, <4>1 DEF Spliced
    <3>4. all = r \o s /\ i \in 1..Len(r \o s)
      BY <1>1, <1>3, <3>2 DEF s
    <3>5. \A j \in 1..n : j \in 1..(n + n) /\ n + j \in 1..(n + n)
      BY <1>1
    <3>. HIDE DEF all
    <3>. QED BY <3>2, <3>3, <3>4, <3>5
  <2>. HIDE DEF all
  <2>2. CASE i \in 1..Len(r)
    <3>1. i \in DOMAIN r /\ r[i].kind = "result"
      BY <1>8, <2>1, <2>2
    <3>2. PICK j \in 1..(i - 1) : r[j] \in Calling(r[i].id)
      BY <3>1 DEF Matched
    <3>3. j \in 1..Len(r)
      BY <2>1, <2>2
    <3>. QED BY <2>1, <2>2, <3>2, <3>3
  <2>3. CASE i \in (Len(r) + 1)..(Len(r) + n)
    <3>1. i - Len(r) \in 1..n /\ i = Len(r) + (i - Len(r))
      BY <1>1, <2>1, <2>3
    <3>2. all[i] = c[i - Len(r)] /\ c[i - Len(r)].kind = "call"
      BY <1>1, <2>1, <3>1
    <3>. QED BY <1>8, <3>2
  <2>4. CASE i \in (Len(r) + n + 1)..(Len(r) + n + n)
    <3> DEFINE l == Len(r)
    <3>0. l \in Nat /\ n \in Nat /\ i \in (l + n + 1)..(l + n + n)
      BY <1>1, <2>1, <2>4
    <3>. HIDE DEF l
    <3>1. PICK j \in 1..n : i = l + (n + j)
      <4>1. i - (l + n) \in 1..n /\ i = l + (n + (i - (l + n)))
        BY <3>0
      <4>. QED BY <4>1
    <3>4. l + j \in 1..(i - 1)
      BY <3>0, <3>1
    <3>2. all[i] = t[j] /\ all[Len(r) + j] = c[j]
      BY <2>1, <3>1 DEF l
    <3>3. all[i].id = calls[j].id /\ c[j] \in Calling(calls[j].id)
      BY <1>1, <1>3, <3>1, <3>2
    <3>. QED BY <3>2, <3>3, <3>4 DEF l
  <2>5. i \in 1..Len(r) \/ i \in (Len(r) + 1)..(Len(r) + n) \/ i \in (Len(r) + n + 1)..(Len(r) + n + n)
    BY <1>1, <2>1
  <2>. QED BY <2>2, <2>3, <2>4, <2>5
<1>. HIDE DEF all
<1>9. Matched(all, k)
  BY <1>6, <1>7, <1>8 DEF Matched
<1>. QED BY <1>9 DEF all, c, t

-----------------------------------------------------------------------------
(* What the chat-completions API accepts is accepted one after the other.  *)

ChatAnswered(items, i) ==
  \A k \in DOMAIN items[i].calls :
    /\ i + k <= Len(items)
    /\ items[i + k].role = "tool"
    /\ items[i + k].id = items[i].calls[k].id
ChatOwned(items, i) == \E j \in 1..(i - 1) : i - j <= Len(items[j].calls)
ChatFits(items, i) ==
  ChatAnswered(items, i) /\ (items[i].role = "tool" => ChatOwned(items, i))

LEMMA ChatAccepts ==
  ASSUME NEW items
  PROVE  AcceptedByChat(items) <=> \A i \in DOMAIN items : ChatFits(items, i)
BY DEF AcceptedByChat, ChatFits, ChatAnswered, ChatOwned

LEMMA CallsOfChat ==
  ASSUME NEW s \in Seq(ChatItem), NEW i \in 1..Len(s)
  PROVE  /\ s[i] \in ChatItem /\ Len(s[i].calls) \in Nat
         /\ DOMAIN s[i].calls = 1..Len(s[i].calls)
<1>1. s[i] \in ChatItem
  OBVIOUS
<1>2. s[i].calls \in Seq(AChatCall)
  BY <1>1 DEF ChatItem, AChatCall
<1>. QED BY <1>1, <1>2

\* What stands behind a list changes nothing for it.
LEMMA ChatBefore ==
  ASSUME NEW s \in Seq(ChatItem), NEW t \in Seq(ChatItem), NEW u, Spliced(s, t, u),
         NEW i \in 1..Len(s), ChatFits(s, i)
  PROVE  ChatFits(u, i)
<1>1. u[i] = s[i] /\ i \in Nat /\ Len(s) \in Nat /\ Len(t) \in Nat /\ Len(u) = Len(s) + Len(t)
  BY DEF Spliced
<1>2. ASSUME NEW k \in DOMAIN u[i].calls
      PROVE  i + k <= Len(u) /\ u[i + k].role = "tool" /\ u[i + k].id = u[i].calls[k].id
  <2>1. k \in DOMAIN s[i].calls /\ k \in Nat /\ k > 0
    BY <1>1, CallsOfChat
  <2>2. i + k <= Len(s) /\ s[i + k].role = "tool" /\ s[i + k].id = s[i].calls[k].id
    BY <2>1 DEF ChatFits, ChatAnswered
  <2>3. i + k \in 1..Len(s)
    BY <1>1, <2>1, <2>2
  <2>4. u[i + k] = s[i + k]
    BY <2>3 DEF Spliced
  <2>. QED BY <1>1, <2>1, <2>2, <2>4
<1>3. ASSUME u[i].role = "tool"
      PROVE  ChatOwned(u, i)
  <2>1. PICK j \in 1..(i - 1) : i - j <= Len(s[j].calls)
    BY <1>1, <1>3 DEF ChatFits, ChatOwned
  <2>2. j \in 1..Len(s)
    BY <1>1
  <2>3. u[j] = s[j]
    BY <2>2 DEF Spliced
  <2>. QED BY <2>1, <2>3 DEF ChatOwned
<1>. QED BY <1>2, <1>3 DEF ChatFits, ChatAnswered

LEMMA ChatBehind ==
  ASSUME NEW s \in Seq(ChatItem), NEW t \in Seq(ChatItem), NEW u, Spliced(s, t, u),
         NEW p \in 1..Len(t), ChatFits(t, p)
  PROVE  ChatFits(u, Len(s) + p)
<1> DEFINE l == Len(s)
           i == Len(s) + p
<1>1. /\ u[l + p] = t[p] /\ p \in Nat /\ l \in Nat /\ Len(t) \in Nat
      /\ Len(u) = l + Len(t) /\ p <= Len(t)
  BY DEF Spliced
<1>2. \A j \in 1..Len(t) : u[l + j] = t[j]
  BY DEF Spliced
<1>. HIDE DEF l
<1>3. ASSUME NEW k \in DOMAIN u[l + p].calls
      PROVE  /\ (l + p) + k <= Len(u) /\ u[(l + p) + k].role = "tool"
             /\ u[(l + p) + k].id = u[l + p].calls[k].id
  <2>1. k \in DOMAIN t[p].calls /\ k \in Nat /\ k > 0
    BY <1>1, CallsOfChat
  <2>2. p + k <= Len(t) /\ t[p + k].role = "tool" /\ t[p + k].id = t[p].calls[k].id
    BY <2>1 DEF ChatFits, ChatAnswered
  <2>3. p + k \in 1..Len(t) /\ (l + p) + k = l + (p + k)
    BY <1>1, <2>1, <2>2
  <2>4. u[(l + p) + k] = t[p + k]
    BY <1>2, <2>3
  <2>. QED BY <1>1, <2>1, <2>2, <2>4
<1>4. ASSUME u[l + p].role = "tool"
      PROVE  ChatOwned(u, l + p)
  <2>1. PICK j \in 1..(p - 1) : p - j <= Len(t[j].calls)
    BY <1>1, <1>4 DEF ChatFits, ChatOwned
  <2>2. j \in 1..Len(t) /\ l + j \in 1..((l + p) - 1) /\ (l + p) - (l + j) = p - j
    BY <1>1
  <2>3. u[l + j] = t[j]
    BY <1>2, <2>2
  <2>. QED BY <2>1, <2>2, <2>3 DEF ChatOwned
<1>5. ChatAnswered(u, l + p)
  BY <1>3 DEF ChatAnswered
<1>. QED BY <1>4, <1>5 DEF ChatFits, l

LEMMA ChatConcat ==
  ASSUME NEW s \in Seq(ChatItem), NEW t \in Seq(ChatItem),
         AcceptedByChat(s), AcceptedByChat(t)
  PROVE  AcceptedByChat(s \o t)
<1> DEFINE u == s \o t
<1>1. u \in Seq(ChatItem) /\ Spliced(s, t, u)
  BY SeqPieces
<1>. HIDE DEF u
<1>2. DOMAIN u = 1..Len(u) /\ DOMAIN s = 1..Len(s) /\ DOMAIN t = 1..Len(t)
  BY <1>1
<1>3. ASSUME NEW i \in 1..Len(u)
      PROVE  ChatFits(u, i)
  <2>1. Len(u) = Len(s) + Len(t) /\ Len(s) \in Nat /\ Len(t) \in Nat
    BY <1>1 DEF Spliced
  <2>2. CASE i <= Len(s)
    <3>1. i \in 1..Len(s)
      BY <2>1, <2>2
    <3>2. ChatFits(s, i)
      BY <1>2, <3>1, ChatAccepts
    <3>. QED BY <1>1, <3>1, <3>2, ChatBefore
  <2>3. CASE i > Len(s)
    <3>1. i - Len(s) \in 1..Len(t) /\ i = Len(s) + (i - Len(s))
      BY <2>1, <2>3
    <3>2. PICK p \in 1..Len(t) : i = Len(s) + p
      BY <3>1
    <3>3. ChatFits(t, p)
      BY <1>2, <3>2, ChatAccepts
    <3>. QED BY <1>1, <3>2, <3>3, ChatBehind
  <2>. QED BY <2>1, <2>2, <2>3
<1>4. AcceptedByChat(u)
  BY <1>2, <1>3, ChatAccepts
<1>. QED BY <1>4 DEF u

\* One message that neither calls nor answers.
LEMMA ChatAlone ==
  ASSUME NEW c \in ChatItem, c.role # "tool", c.calls = <<>>
  PROVE  <<c>> \in Seq(ChatItem) /\ AcceptedByChat(<<c>>)
<1>1. <<c>> \in Seq(ChatItem) /\ DOMAIN <<c>> = {1} /\ <<c>>[1] = c
  OBVIOUS
<1>2. DOMAIN c.calls = {}
  OBVIOUS
<1>3. ChatFits(<<c>>, 1)
  BY <1>1, <1>2 DEF ChatFits, ChatAnswered
<1>. QED BY <1>1, <1>3, ChatAccepts

LEMMA ChatNothing == AcceptedByChat(<<>>)
BY ChatAccepts

\* A call and what answers it, side by side.
LEMMA ChatPaired ==
  ASSUME NEW c \in ChatItem, c.role # "tool", NEW t \in Seq(ChatItem),
         Len(t) = Len(c.calls),
         \A i \in 1..Len(t) : /\ t[i].role = "tool" /\ t[i].id = c.calls[i].id
                              /\ t[i].calls = <<>>
  PROVE  AcceptedByChat(<<c>> \o t)
<1> DEFINE u == <<c>> \o t
           n == Len(t)
<1>1. <<c>> \in Seq(ChatItem) /\ Len(<<c>>) = 1 /\ <<c>>[1] = c
  OBVIOUS
<1>2. u \in Seq(ChatItem) /\ Spliced(<<c>>, t, u)
  BY <1>1, SeqPieces
<1>. HIDE DEF u
<1>3. Len(u) = 1 + n /\ n \in Nat /\ u[1] = c /\ DOMAIN u = 1..(1 + n)
  BY <1>1, <1>2 DEF Spliced
<1>4. \A j \in 1..n : u[1 + j] = t[j]
  BY <1>1, <1>2 DEF Spliced
<1>5. c.calls \in Seq(AChatCall) /\ DOMAIN c.calls = 1..n
  BY DEF ChatItem, AChatCall
<1>6. ChatFits(u, 1)
  <2>1. ASSUME NEW k \in DOMAIN u[1].calls
        PROVE  1 + k <= Len(u) /\ u[1 + k].role = "tool" /\ u[1 + k].id = u[1].calls[k].id
    <3>1. k \in 1..n /\ u[1 + k] = t[k]
      BY <1>3, <1>4, <1>5
    <3>2. t[k].role = "tool" /\ t[k].id = c.calls[k].id
      BY <3>1
    <3>. QED BY <1>3, <3>1, <3>2
  <2>. QED BY <1>3, <2>1 DEF ChatFits, ChatAnswered
<1>7. ASSUME NEW j \in 1..n
      PROVE  ChatFits(u, 1 + j)
  <2>1. u[1 + j].calls = <<>>
    BY <1>4
  <2>2. ChatAnswered(u, 1 + j)
    BY <2>1 DEF ChatAnswered
  <2>3. 1 \in 1..((1 + j) - 1) /\ (1 + j) - 1 <= Len(u[1].calls)
    BY <1>3
  <2>4. ChatOwned(u, 1 + j)
    BY <2>3 DEF ChatOwned
  <2>. QED BY <2>2, <2>4 DEF ChatFits
<1>8. ASSUME NEW i \in 1..(1 + n)
      PROVE  ChatFits(u, i)
  <2>1. i = 1 \/ (i - 1 \in 1..n /\ i = 1 + (i - 1))
    BY <1>3
  <2>. QED BY <1>6, <1>7, <2>1
<1>9. AcceptedByChat(u)
  BY <1>3, <1>8, ChatAccepts
<1>. QED BY <1>9 DEF u

-----------------------------------------------------------------------------
\* A client's message for the chat API: its answers, and behind them its words.
LEMMA ChatUserParts ==
  ASSUME NEW bs \in Seq(ClientBlock)
  PROVE  LET rs == OfType(bs, "tool_result")
         IN  \E first, rest \in Seq(ChatItem) :
               /\ ChatUser(bs) = first \o rest
               /\ Len(first) = Len(rs) /\ rs \in Seq(Results)
               /\ \A i \in 1..Len(first) : /\ first[i].role = "tool" /\ first[i].id = rs[i].id
                                           /\ first[i].calls = <<>>
               /\ AcceptedByChat(rest)
<1> DEFINE rs == OfType(bs, "tool_result")
           parts == Selected(Parts, bs)
           t == FlattenSeq(TextsOf(parts))
           m == ChatMessage("user", t, <<>>, NoId)
           rest == IF parts = <<>> THEN <<>> ELSE <<m>>
           first == Image(ResultAsTool, rs)
<1>1. bs \in Seq(ContentBlock)
  BY DEF ClientBlock
<1>2. rs \in Seq(Results) /\ parts \in Seq(ContentBlock) /\ t \in Text
  BY <1>1, OfTypeProperties, SelectedParts, PartsFragmentsTyped DEF Results
<1>3. Sends(ResultAsTool, Results, ChatItem)
      /\ \A b \in Results : ResultAsTool[b] = ChatMessage("tool", b.text, <<>>, b.id)
  <2>1. ASSUME NEW b \in Results
        PROVE  ChatMessage("tool", b.text, <<>>, b.id) \in ChatItem
    <3>1. b.text \in Text /\ b.id \in Id /\ "tool" \in Role \cup {"tool"}
      BY BlockParts DEF Results
    <3>2. <<>> \in Seq([id : Id, text : Text])
      BY EmptySeq
    <3>. QED BY <3>1, <3>2, ChatMessageTyped
  <2>. QED BY <2>1 DEF Sends, ResultAsTool
<1>4. ChatUser(bs) = first \o rest
  <2>1. [i \in DOMAIN rs |-> ChatMessage("tool", rs[i].text, <<>>, rs[i].id)] = first
    BY <1>2, <1>3 DEF Image
  <2>2. Only(IsPart, bs) = parts
    BY <1>1, SelectedParts
  <2>. QED BY <2>1, <2>2 DEF ChatUser
<1>. HIDE DEF rs, parts, t
<1>5. /\ first \in Seq(ChatItem) /\ Len(first) = Len(rs)
      /\ \A i \in 1..Len(rs) : first[i] = ResultAsTool[rs[i]]
  BY <1>2, <1>3, ImageTyped
<1>6. ASSUME NEW i \in 1..Len(first)
      PROVE  first[i].role = "tool" /\ first[i].id = rs[i].id /\ first[i].calls = <<>>
  <2>1. rs[i] \in Results /\ first[i] = ResultAsTool[rs[i]]
    BY <1>2, <1>5
  <2>2. first[i] = ChatMessage("tool", rs[i].text, <<>>, rs[i].id)
    BY <1>3, <2>1
  <2>. QED BY <2>2 DEF ChatMessage
<1>7. rest \in Seq(ChatItem) /\ AcceptedByChat(rest)
  <2>1. m \in ChatItem /\ m.role = "user" /\ m.calls = <<>>
    <3>1. <<>> \in Seq([id : Id, text : Text]) /\ "user" \in Role \cup {"tool"}
      BY EmptySeq DEF Role
    <3>2. m \in ChatItem
      BY <1>2, <3>1, ChatMessageTyped, NoIdTyped
    <3>. QED BY <3>2 DEF ChatMessage
  <2>. HIDE DEF m
  <2>2. <<m>> \in Seq(ChatItem) /\ AcceptedByChat(<<m>>)
    BY <2>1, ChatAlone
  <2>3. <<>> \in Seq(ChatItem)
    BY EmptySeq
  <2>. QED BY <2>2, <2>3, ChatNothing
<1>. HIDE DEF first, rest
<1>. QED BY <1>2, <1>4, <1>5, <1>6, <1>7 DEF rs

\* A reply is one message, and its calls are the reply's.
LEMMA ChatAssistantParts ==
  ASSUME NEW bs \in Seq(ReplyBlock)
  PROVE  LET us == OfType(bs, "tool_use")
         IN  \E m \in ChatItem :
               /\ ChatAssistant(bs) = <<m>> /\ m.role = "assistant"
               /\ us \in Seq(Uses) /\ Len(m.calls) = Len(us)
               /\ \A i \in 1..Len(us) : m.calls[i].id = us[i].id
<1> DEFINE us == OfType(bs, "tool_use")
           t == JoinText(bs)
           named == Image(UseAsChatCall, us)
           m == ChatMessage("assistant", t, named, NoId)
<1>1. bs \in Seq(ContentBlock)
  BY DEF ReplyBlock
<1>2. us \in Seq(Uses) /\ t \in Text
  BY <1>1, OfTypeProperties, JoinTextProperties DEF Uses
<1>3. ChatAssistant(bs) = <<m>>
  <2>1. [i \in DOMAIN us |-> [id |-> us[i].id, text |-> us[i].text]] = named
    <3>1. \A i \in DOMAIN us : us[i] \in Uses
      BY <1>2
    <3>. QED BY <3>1 DEF Image, UseAsChatCall
  <2>. QED BY <2>1 DEF ChatAssistant
<1>. HIDE DEF us, t
<1>4. Sends(UseAsChatCall, Uses, AChatCall) /\ \A b \in Uses : UseAsChatCall[b] = [id |-> b.id, text |-> b.text]
  <2>1. ASSUME NEW b \in Uses
        PROVE  [id |-> b.id, text |-> b.text] \in AChatCall
    <3>1. b.text \in Text /\ b.id \in Id
      BY BlockParts DEF Uses
    <3>. QED BY <3>1 DEF AChatCall
  <2>. QED BY <2>1 DEF Sends, UseAsChatCall
<1>5. /\ named \in Seq(AChatCall) /\ Len(named) = Len(us)
      /\ \A i \in 1..Len(us) : named[i] = UseAsChatCall[us[i]]
  BY <1>2, <1>4, ImageTyped
<1>6. m \in ChatItem
  BY <1>2, <1>5, ChatMessageTyped, NoIdTyped DEF Role, AChatCall
<1>7. m.role = "assistant" /\ m.calls = named
  BY DEF ChatMessage
<1>8. \A i \in 1..Len(us) : named[i].id = us[i].id
  <2>1. ASSUME NEW i \in 1..Len(us)
        PROVE  named[i].id = us[i].id
    <3>1. us[i] \in Uses /\ named[i] = UseAsChatCall[us[i]]
      BY <1>2, <1>5
    <3>2. UseAsChatCall[us[i]] = [id |-> us[i].id, text |-> us[i].text]
      BY <1>4, <3>1
    <3>. QED BY <3>1, <3>2
  <2>. QED BY <2>1
<1>. HIDE DEF m, named
<1>. QED BY <1>2, <1>3, <1>5, <1>6, <1>7, <1>8 DEF us

(* A conversation as the chat API gets it.                                 *)
ChatOf(h) == ToChat(Sanitize(h))

LEMMA ChatOfLaws ==
  /\ ChatOf(<<>>) = <<>>
  /\ \A h \in Seq(FitMessage) : ChatOf(h) \in Seq(ChatItem)
  /\ \A h, r \in Seq(FitMessage) : ChatOf(h \o r) = ChatOf(h) \o ChatOf(r)
  /\ \A m \in FitMessage : ChatOf(<<m>>) = ChatConvert(SanitizeMessage(m))
<1>1. ImageLaws(FitMessage, FitMessage, Clean)
  BY SanitizeIsImage, Images
<1>2. MapLaws(FitMessage, ChatItem, ConvC)
  BY ConvTyped, MappedLaws
<1>3. ASSUME NEW h \in Seq(FitMessage)
      PROVE  /\ ChatOf(h) = Mapped(ConvC, Image(Clean, h)) /\ Image(Clean, h) \in Seq(FitMessage)
             /\ ChatOf(h) \in Seq(ChatItem)
  BY SanitizeIsImage, ConvertedMapped DEF ChatOf
<1>4. ChatOf(<<>>) = <<>>
  BY <1>1, <1>2, <1>3, EmptySeq DEF ImageLaws, MapLaws
<1>5. ASSUME NEW h \in Seq(FitMessage), NEW r \in Seq(FitMessage)
      PROVE  ChatOf(h \o r) = ChatOf(h) \o ChatOf(r)
  <2>1. h \o r \in Seq(FitMessage) /\ Image(Clean, h \o r) = Image(Clean, h) \o Image(Clean, r)
    BY <1>1, ConcatProperties DEF ImageLaws
  <2>2. \A p, q \in Seq(FitMessage) : Mapped(ConvC, p \o q) = Mapped(ConvC, p) \o Mapped(ConvC, q)
    BY <1>2 DEF MapLaws
  <2>3. Mapped(ConvC, Image(Clean, h) \o Image(Clean, r)) = Mapped(ConvC, Image(Clean, h)) \o Mapped(ConvC, Image(Clean, r))
    BY <1>3, <2>2
  <2>. QED BY <1>3, <2>1, <2>3
<1>6. ASSUME NEW m \in FitMessage
      PROVE  ChatOf(<<m>>) = ChatConvert(SanitizeMessage(m))
  <2>1. <<m>> \in Seq(FitMessage) /\ Image(Clean, <<m>>) = <<SanitizeMessage(m)>>
    BY <1>1, SanitizeIsImage, SeqSteps DEF ImageLaws, SeqLaws
  <2>2. SanitizeMessage(m) \in FitMessage
    BY CleanTyped
  <2>3. Mapped(ConvC, <<SanitizeMessage(m)>>) = ConvC[SanitizeMessage(m)]
    BY <1>2, <2>2 DEF MapLaws
  <2>. QED BY <1>3, <2>1, <2>2, <2>3 DEF ConvC
<1>. QED BY <1>3, <1>4, <1>5, <1>6

\* A message without calls and results.
LEMMA ChatOfWords ==
  ASSUME NEW m \in FitMessage, Wordy(m)
  PROVE  AcceptedByChat(ChatOf(<<m>>))
<1>1. ChatOf(<<m>>) = ChatConvert(m) /\ m.role # "assistant"
  BY ChatOfLaws, CleanTyped DEF Wordy
<1>2. CASE m.plain
  <2> DEFINE c == ChatMessage(m.role, m.blocks[1].text, <<>>, NoId)
  <2>1. m.blocks \in Seq(ContentBlock) /\ Len(m.blocks) = 1 /\ m.role \in Role
    BY <1>2, FitParts
  <2>2. m.blocks[1].text \in Text
    <3>1. m.blocks[1] \in ContentBlock
      BY <2>1
    <3>. QED BY <3>1, BlockParts
  <2>3. <<>> \in Seq([id : Id, text : Text]) /\ m.role \in Role \cup {"tool"} /\ m.role # "tool"
    BY <2>1, EmptySeq DEF Role
  <2>4. c \in ChatItem /\ c.role # "tool" /\ c.calls = <<>>
    <3>1. c \in ChatItem
      BY <2>2, <2>3, ChatMessageTyped, NoIdTyped
    <3>. QED BY <2>3, <3>1 DEF ChatMessage
  <2>5. ChatConvert(m) = <<c>>
    BY <1>2 DEF ChatConvert
  <2>. HIDE DEF c
  <2>. QED BY <1>1, <2>4, <2>5, ChatAlone
<1>3. CASE ~m.plain
  <2>1. m.blocks \in Seq(ClientBlock)
    BY <1>1, FitParts DEF BlocksOf
  <2>2. ChatConvert(m) = ChatUser(m.blocks)
    BY <1>1, <1>3 DEF ChatConvert
  <2>3. PICK first \in Seq(ChatItem), rest \in Seq(ChatItem) :
          /\ ChatUser(m.blocks) = first \o rest
          /\ Len(first) = Len(OfType(m.blocks, "tool_result")) /\ AcceptedByChat(rest)
    BY <2>1, ChatUserParts
  <2>4. Len(first) = 0
    BY <2>3 DEF Wordy
  <2>5. first = <<>>
    BY <2>4
  <2>6. first \o rest = rest
    BY <2>5, SeqSteps DEF SeqLaws
  <2>. QED BY <1>1, <2>2, <2>3, <2>6
<1>. QED BY <1>2, <1>3

\* What a reply becomes: its calls are still there.
LEMMA ChatOfReply ==
  ASSUME NEW m \in FitMessage, m.role = "assistant"
  PROVE  \E c \in ChatItem :
           /\ ChatOf(<<m>>) = <<c>> /\ c.role = "assistant"
           /\ OfType(m.blocks, "tool_use") \in Seq(Uses)
           /\ Len(c.calls) = Len(OfType(m.blocks, "tool_use"))
           /\ \A i \in 1..Len(c.calls) : c.calls[i].id = OfType(m.blocks, "tool_use")[i].id
<1> DEFINE n == SanitizeMessage(m)
           us == OfType(m.blocks, "tool_use")
<1>1. n \in FitMessage /\ n.role = "assistant" /\ ~m.plain /\ n.plain = m.plain
  BY CleanTyped, FitParts
<1>2. m.blocks \in Seq(ReplyBlock) /\ n.blocks = Mapped(SanitizeEach, m.blocks)
      /\ n.blocks \in Seq(ReplyBlock)
  BY <1>1, CleanTyped, FitParts DEF BlocksOf
<1>3. OfType(n.blocks, "tool_use") = us
  BY <1>2, CleanUses
<1>4. ChatOf(<<m>>) = ChatAssistant(n.blocks)
  BY <1>1, ChatOfLaws DEF ChatConvert
<1>5. PICK c \in ChatItem : /\ ChatAssistant(n.blocks) = <<c>> /\ c.role = "assistant"
                            /\ us \in Seq(Uses) /\ Len(c.calls) = Len(us)
                            /\ \A i \in 1..Len(us) : c.calls[i].id = us[i].id
  BY <1>2, <1>3, ChatAssistantParts
<1>. QED BY <1>4, <1>5

LEMMA ChatOfSpeech ==
  ASSUME NEW m \in FitMessage, m.role = "assistant", OfType(m.blocks, "tool_use") = <<>>
  PROVE  AcceptedByChat(ChatOf(<<m>>))
<1>1. PICK c \in ChatItem : /\ ChatOf(<<m>>) = <<c>> /\ c.role = "assistant"
                            /\ Len(c.calls) = Len(OfType(m.blocks, "tool_use"))
  BY ChatOfReply
<1>2. c.calls \in Seq(AChatCall) /\ Len(c.calls) = 0
  BY <1>1 DEF ChatItem, AChatCall
<1>3. c.calls = <<>>
  BY <1>2
<1>. QED BY <1>1, <1>3, ChatAlone

\* A reply with calls and the message with the answers.
LEMMA ChatOfAnswer ==
  ASSUME NEW m \in FitMessage, m.role = "assistant",
         NEW a \in FitMessage, a.role # "assistant", ~a.plain,
         Answers(OfType(a.blocks, "tool_result"), OfType(m.blocks, "tool_use"))
  PROVE  AcceptedByChat(ChatOf(<<m>> \o <<a>>))
<1> DEFINE us == OfType(m.blocks, "tool_use")
           rs == OfType(a.blocks, "tool_result")
<1>1. PICK c \in ChatItem : /\ ChatOf(<<m>>) = <<c>> /\ c.role = "assistant"
                            /\ us \in Seq(Uses) /\ Len(c.calls) = Len(us)
                            /\ \A i \in 1..Len(c.calls) : c.calls[i].id = us[i].id
  BY ChatOfReply
<1>2. a.blocks \in Seq(ClientBlock)
  BY FitParts DEF BlocksOf
<1>3. ChatOf(<<a>>) = ChatUser(a.blocks)
  BY ChatOfLaws, CleanTyped DEF ChatConvert
<1>4. PICK first \in Seq(ChatItem), rest \in Seq(ChatItem) :
        /\ ChatUser(a.blocks) = first \o rest
        /\ Len(first) = Len(rs)
        /\ \A i \in 1..Len(first) : /\ first[i].role = "tool" /\ first[i].id = rs[i].id
                                    /\ first[i].calls = <<>>
        /\ AcceptedByChat(rest)
  BY <1>2, ChatUserParts
<1>5. Len(rs) = Len(us) /\ \A i \in 1..Len(us) : rs[i].id = us[i].id
  BY DEF Answers
<1>. HIDE DEF us, rs
<1>6. AcceptedByChat(<<c>> \o first)
  <2>1. \A i \in 1..Len(first) : /\ first[i].role = "tool" /\ first[i].id = c.calls[i].id
                                 /\ first[i].calls = <<>>
    BY <1>1, <1>4, <1>5
  <2>. QED BY <1>1, <1>4, <1>5, <2>1, ChatPaired
<1>7. SeqLaws(ChatItem) /\ SeqLaws(FitMessage)
  BY SeqSteps
<1>8. <<c>> \in Seq(ChatItem) /\ <<c>> \o first \in Seq(ChatItem)
  BY <1>1, <1>4, <1>7 DEF SeqLaws
<1>9. AcceptedByChat((<<c>> \o first) \o rest)
  BY <1>4, <1>6, <1>8, ChatConcat
<1>10. (<<c>> \o first) \o rest = <<c>> \o (first \o rest)
  BY <1>4, <1>7, <1>8 DEF SeqLaws
<1>11. <<m>> \in Seq(FitMessage) /\ <<a>> \in Seq(FitMessage)
  BY <1>7 DEF SeqLaws
<1>12. ChatOf(<<m>> \o <<a>>) = ChatOf(<<m>>) \o ChatOf(<<a>>)
  BY <1>11, ChatOfLaws
<1>. QED BY <1>1, <1>3, <1>4, <1>9, <1>10, <1>12

-----------------------------------------------------------------------------
(* Conversations whose calls and results belong together, and how they     *)
(* grow.                                                                   *)

\* Nothing waits for an answer.
Closed(h, k) == Matched(Exchanged(h), k) /\ AcceptedByChat(ChatOf(h))
\* The last reply's calls may wait for theirs.
Orderly(h, k) ==
  IF CallsOf(h) = <<>> THEN Closed(h, k)
  ELSE Closed(Front(h), k) /\ Opened(CallsOf(h), Exchanged(Front(h)), k)

LEMMA ClosedNothing ==
  ASSUME NEW k \in Nat
  PROVE  Closed(<<>>, k)
BY MatchedNothing, ExchangedLaws, ChatOfLaws, ChatNothing DEF Closed

LEMMA ClosedLater ==
  ASSUME NEW h \in Seq(FitMessage), NEW k \in Nat, NEW l \in Nat, k <= l, Closed(h, k)
  PROVE  Closed(h, l)
<1>1. Exchanged(h) \in Seq(Utterance)
  BY ExchangedLaws
<1>. QED BY <1>1, MatchedLater DEF Closed

\* A message that neither calls nor answers.
LEMMA ClosedMore ==
  ASSUME NEW h \in Seq(FitMessage), NEW k \in Nat, Closed(h, k), NEW m \in FitMessage,
         MessageExchange(m) = <<>>, AcceptedByChat(ChatOf(<<m>>))
  PROVE  h \o <<m>> \in Seq(FitMessage) /\ Closed(h \o <<m>>, k)
<1>1. SeqLaws(FitMessage) /\ SeqLaws(Utterance)
  BY SeqSteps
<1>2. <<m>> \in Seq(FitMessage) /\ h \o <<m>> \in Seq(FitMessage)
  BY <1>1 DEF SeqLaws
<1>3. Exchanged(h \o <<m>>) = Exchanged(h)
  <2>1. Exchanged(h \o <<m>>) = Exchanged(h) \o Exchanged(<<m>>)
    BY <1>2, ExchangedLaws
  <2>2. Exchanged(<<m>>) = <<>> /\ Exchanged(h) \in Seq(Utterance)
    BY ExchangedLaws
  <2>3. Exchanged(h) \o <<>> = Exchanged(h)
    BY <1>1, <2>2 DEF SeqLaws
  <2>. QED BY <2>1, <2>2, <2>3
<1>4. ChatOf(h \o <<m>>) = ChatOf(h) \o ChatOf(<<m>>)
  BY <1>2, ChatOfLaws
<1>5. ChatOf(h) \in Seq(ChatItem) /\ ChatOf(<<m>>) \in Seq(ChatItem)
  BY <1>2, ChatOfLaws
<1>6. AcceptedByChat(ChatOf(h \o <<m>>))
  BY <1>4, <1>5, ChatConcat DEF Closed
<1>. QED BY <1>2, <1>3, <1>6 DEF Closed

LEMMA ClosedWords ==
  ASSUME NEW h \in Seq(FitMessage), NEW k \in Nat, Closed(h, k), NEW m, Wordy(m)
  PROVE  h \o <<m>> \in Seq(FitMessage) /\ Closed(h \o <<m>>, k)
<1>1. m \in FitMessage /\ m.role # "assistant" /\ OfType(m.blocks, "tool_result") = <<>>
  BY DEF Wordy
<1>2. MessageExchange(m) = <<>>
  BY <1>1 DEF MessageExchange, ResultsIn, Image
<1>. QED BY <1>1, <1>2, ChatOfWords, ClosedMore

LEMMA ClosedSpeech ==
  ASSUME NEW h \in Seq(FitMessage), NEW k \in Nat, Closed(h, k), NEW m \in FitMessage,
         m.role = "assistant", OfType(m.blocks, "tool_use") = <<>>
  PROVE  h \o <<m>> \in Seq(FitMessage) /\ Closed(h \o <<m>>, k)
<1>1. MessageExchange(m) = <<>>
  BY DEF MessageExchange, CallsIn, Image
<1>. QED BY <1>1, ChatOfSpeech, ClosedMore

\* The calls that wait are answered.
LEMMA ClosedAnswer ==
  ASSUME NEW h \in Seq(FitMessage), NEW k \in Nat, CallsOf(h) # <<>>, Orderly(h, k),
         NEW a \in FitMessage, a.role # "assistant", ~a.plain,
         Answers(OfType(a.blocks, "tool_result"), CallsOf(h))
  PROVE  h \o <<a>> \in Seq(FitMessage) /\ Closed(h \o <<a>>, k)
<1> DEFINE g == Front(h)
           m == Last(h)
           us == CallsOf(h)
           rs == OfType(a.blocks, "tool_result")
           r == Exchanged(g)
<1>1. us \in Seq(Uses) /\ h # <<>> /\ m.role = "assistant" /\ us = OfType(m.blocks, "tool_use")
  BY CallsOfTyped
<1>2. g \in Seq(FitMessage) /\ m \in FitMessage /\ h = g \o <<m>>
  BY <1>1, FrontAndLast
<1>3. Closed(g, k) /\ Opened(us, r, k)
  BY DEF Orderly
<1>4. a.blocks \in Seq(ContentBlock) /\ rs \in Seq(Results)
  <2>1. a.blocks \in Seq(ContentBlock)
    BY FitParts
  <2>. QED BY <2>1, OfTypeProperties DEF Results
<1>5. Answers(rs, us) /\ Answers(rs, OfType(m.blocks, "tool_use"))
  BY <1>1
<1>. HIDE DEF g, m, us
<1>6. SeqLaws(FitMessage)
  BY SeqSteps
<1>7. <<m>> \in Seq(FitMessage) /\ <<a>> \in Seq(FitMessage) /\ <<m>> \o <<a>> \in Seq(FitMessage)
      /\ h \o <<a>> \in Seq(FitMessage)
  BY <1>2, <1>6 DEF SeqLaws
<1>8. h \o <<a>> = g \o (<<m>> \o <<a>>)
  BY <1>2, <1>6, <1>7 DEF SeqLaws
<1>9. Exchanged(h \o <<a>>) = r \o (Image(UseAsCall, us) \o Image(ResultAsHeard, rs))
  <2>1. Exchanged(<<m>>) = Image(UseAsCall, us) /\ Exchanged(<<a>>) = Image(ResultAsHeard, rs)
    BY <1>1, <1>2, ExchangedLaws DEF MessageExchange, CallsIn, ResultsIn, m, us
  <2>2. Exchanged(<<m>> \o <<a>>) = Exchanged(<<m>>) \o Exchanged(<<a>>)
    BY <1>7, ExchangedLaws
  <2>3. Exchanged(g \o (<<m>> \o <<a>>)) = Exchanged(g) \o Exchanged(<<m>> \o <<a>>)
    BY <1>2, <1>7, ExchangedLaws
  <2>. QED BY <1>8, <2>1, <2>2, <2>3
<1>10. r \in Seq(Utterance)
  BY <1>2, ExchangedLaws
<1>. HIDE DEF rs, r
<1>11. Matched(r \o (Image(UseAsCall, us) \o Image(ResultAsHeard, rs)), k)
  <2>1. Matched(r, k)
    BY <1>3 DEF Closed, r
  <2>2. us \in Seq(Uses) /\ rs \in Seq(Results) /\ Answers(rs, us) /\ Opened(us, r, k)
    BY <1>1, <1>3, <1>4, <1>5
  <2>. QED BY <1>10, <2>1, <2>2, MatchedAnswered, Zenon
<1>12. AcceptedByChat(ChatOf(h \o <<a>>))
  <2>1. AcceptedByChat(ChatOf(<<m>> \o <<a>>))
    <3>1. Answers(OfType(a.blocks, "tool_result"), OfType(m.blocks, "tool_use"))
      BY <1>5 DEF rs
    <3>2. m \in FitMessage /\ m.role = "assistant"
      BY <1>1, <1>2
    <3>. QED BY <3>1, <3>2, ChatOfAnswer, Zenon
  <2>2. ChatOf(h \o <<a>>) = ChatOf(g) \o ChatOf(<<m>> \o <<a>>)
    BY <1>2, <1>7, <1>8, ChatOfLaws
  <2>3. ChatOf(g) \in Seq(ChatItem) /\ ChatOf(<<m>> \o <<a>>) \in Seq(ChatItem)
    BY <1>2, <1>7, ChatOfLaws
  <2>. QED BY <1>3, <2>1, <2>2, <2>3, ChatConcat DEF Closed
<1>. QED BY <1>7, <1>9, <1>11, <1>12 DEF Closed

LEMMA FrontOfPut ==
  ASSUME NEW D, NEW h \in Seq(D), NEW m \in D
  PROVE  Append(h, m) # <<>> /\ Last(Append(h, m)) = m /\ Front(Append(h, m)) = h
<1> DEFINE s == Append(h, m)
<1>1. s \in Seq(D) /\ Len(s) = Len(h) + 1 /\ Len(h) \in Nat /\ s[Len(h) + 1] = m
      /\ \A i \in 1..Len(h) : s[i] = h[i]
  OBVIOUS
<1>. HIDE DEF s
<1>2. s # <<>> /\ Last(s) = m
  BY <1>1 DEF Last
<1>3. Front(s) = h
  <2>1. Front(s) = SubSeq(s, 1, Len(h))
    BY <1>1 DEF Front
  <2>2. SubSeq(s, 1, Len(h)) \in Seq(D) /\ Len(SubSeq(s, 1, Len(h))) = Len(h)
        /\ \A i \in 1..Len(h) : SubSeq(s, 1, Len(h))[i] = s[i]
    BY <1>1, SubSeqProperties
  <2>3. SubSeq(s, 1, Len(h)) = h
    BY <1>1, <2>2, SeqEqual
  <2>. QED BY <2>1, <2>3
<1>. QED BY <1>2, <1>3 DEF s

\* A reply is kept.
LEMMA OrderlyReply ==
  ASSUME NEW h \in Seq(FitMessage), NEW k \in Nat, Closed(h, k),
         NEW bs \in Seq(ReplyBlock), Opened(UsesOf(bs), Exchanged(h), k)
  PROVE  Orderly(Append(h, BlockMessage("assistant", bs)), k)
<1> DEFINE m == BlockMessage("assistant", bs)
<1>1. m \in FitMessage /\ m.role = "assistant" /\ m.blocks = bs
  <2>1. m \in FitMessage
    BY ReplyAppended
  <2>. QED BY <2>1 DEF BlockMessage
<1>. HIDE DEF m
<1>2. SeqLaws(FitMessage)
  BY SeqSteps
<1>3. Append(h, m) = h \o <<m>> /\ Append(h, m) \in Seq(FitMessage)
  BY <1>1, <1>2 DEF SeqLaws
<1>4. Append(h, m) # <<>> /\ Last(Append(h, m)) = m /\ Front(Append(h, m)) = h
  BY <1>1, FrontOfPut
<1>5. CallsOf(Append(h, m)) = UsesOf(bs)
  BY <1>1, <1>4 DEF CallsOf, UsesOf
<1>6. CASE UsesOf(bs) = <<>>
  <2>1. Closed(Append(h, m), k)
    BY <1>1, <1>3, <1>6, ClosedSpeech DEF UsesOf
  <2>. QED BY <1>5, <1>6, <2>1 DEF Orderly, m
<1>7. CASE UsesOf(bs) # <<>>
  BY <1>4, <1>5, <1>7 DEF Orderly, m
<1>. QED BY <1>6, <1>7

\* The ids that a provider gives are new.
LEMMA RepliesOpen ==
  ASSUME fresh \in Nat, fresh > 9, NEW reply \in Replies, Fits(reply), NEW r \in Seq(Utterance),
         Matched(r, fresh), NEW us, NEW t \in Nat, Named(Written(reply), us, t)
  PROVE  Opened(us, r, fresh + Len(Written(reply)) + 1)
<1> DEFINE items == Written(reply)
           l == Len(items)
<1>1. /\ items \in Seq(ReplyItem) /\ l \in Nat /\ DOMAIN items = 1..l
      /\ \A i \in 1..l : items[i].id = CallId(fresh + i) \/ items[i].id = NoId
  <2>1. /\ items \in Seq(ReplyItem) /\ DOMAIN items = 1..Len(reply.items)
        /\ Len(reply.items) \in Nat
        /\ \A i \in 1..Len(reply.items) : WrittenItem(reply, i, items[i])
    BY WrittenIs
  <2>. HIDE DEF items
  <2>2. DOMAIN items = 1..Len(items) /\ Len(items) \in Nat
    BY <2>1
  <2>. QED BY <2>1, <2>2 DEF WrittenItem
<1>2. us \in Seq(Uses) /\ Distinct(us) /\ \A j \in DOMAIN us : OwnId(items, t, us[j].id)
  BY DEF Named
<1>. HIDE DEF items, l
<1>3. ASSUME NEW j \in DOMAIN us, NEW n \in Nat, us[j].id = CallId(n)
      PROVE  n < fresh + l + 1 /\ Count(Calling(CallId(n)), r) = 0
  <2>1. OwnId(items, t, CallId(n))
    BY <1>2, <1>3
  <2>2. \A p \in Nat : CallId(n) # FallbackId(p)
    BY IdsDiffer
  <2>3. PICK i \in 1..l : CallId(n) = items[i].id /\ items[i].id # NoId
    BY <1>1, <2>1, <2>2 DEF OwnId
  <2>4. CallId(n) = CallId(fresh + i) /\ fresh + i \in Nat
    BY <1>1, <2>3
  <2>5. n = fresh + i
    BY <2>4, IdsDiffer
  <2>6. Count(Calling(CallId(n)), r) \in Nat
    BY Counts DEF CountLaws
  <2>7. Count(Calling(CallId(n)), r) <= (IF n < fresh THEN 1 ELSE 0)
    BY DEF Matched
  <2>. QED BY <1>1, <2>5, <2>6, <2>7
<1>. QED BY <1>2, <1>3 DEF Opened, l, items

-----------------------------------------------------------------------------
(* Calls and results belong together at every step.                        *)

\* A request: should it be a compaction that is given up, what was there
\* before it is in order as well.
Waiting(h, k) ==
  Closed(h, k) /\ (CallsOf(Front(h)) = <<>> => Closed(Front(h), k))

OrderInv ==
  IF pc = "user" THEN Orderly(history, fresh) ELSE Waiting(history, fresh)

LEMMA CompactionFront ==
  ASSUME NEW h, NEW base, Asked(h, base), IsCompaction(Sanitize(h))
  PROVE  CallsOf(Front(h)) = <<>>
<1>1. ~Faithful(h, base)
  <2>1. ASSUME Faithful(h, base)
        PROVE  FALSE
    <3>1. /\ h \in Seq(FitMessage) /\ base \in Seq(SaidEvent)
          /\ Alike(EventsOf(Told(h)), base) /\ Quiet(base)
      BY <2>1 DEF Faithful
    <3>2. EventsOf(Told(h)) \in Seq(SaidEvent)
      BY <3>1, ToldLaws, EventsTyped
    <3>3. Quiet(EventsOf(Told(h)))
      BY <3>1, <3>2, LoudOnTracks
    <3>. QED BY <3>1, <3>3, CompactionIsLoud
  <2>. QED BY <2>1
<1>2. PICK g, s : h = Append(g, Instruction) /\ CallsOf(g) = <<>> /\ Faithful(g, s)
  BY <1>1 DEF Asked
<1>3. g \in Seq(FitMessage)
  BY <1>2 DEF Faithful
<1>4. Front(h) = g
  BY <1>2, <1>3, InstructionCompacts
<1>. QED BY <1>2, <1>4

LEMMA OrderInitially == Init => OrderInv
<1>1. CallsOf(<<>>) = <<>>
  BY DEF CallsOf
<1>2. Closed(<<>>, 10)
  BY ClosedNothing
<1>3. Orderly(<<>>, 10)
  BY <1>1, <1>2 DEF Orderly
<1>. QED BY <1>3 DEF Init, OrderInv

\* The conversation between turns, once more is said.
LEMMA OrderlyMeans ==
  ASSUME NEW h \in Seq(FitMessage), NEW k \in Nat, NEW l \in Nat, k <= l,
         Orderly(h, k), CallsOf(h) = <<>>
  PROVE  Closed(h, l)
BY ClosedLater DEF Orderly

LEMMA OrderTalk ==
  ASSUME TypeOK, TellInv, OrderInv, NEW how, Talk(how)
  PROVE  OrderInv'
<1>1. pc = "user" /\ pc' = "ready" /\ fresh' = fresh + 3 /\ fresh \in Nat
      /\ CallsOf(history) = <<>>
  BY DEF Talk, TypeOK, OpenCalls, CallsOf
<1>2. fresh > 9 /\ Faithful(history, said) /\ history \in Seq(FitMessage)
  BY <1>1 DEF TellInv, Faithful
<1>3. PICK m \in FitMessage, n \in FitMessage, ev \in Seq(SaidEvent) :
        /\ history' = (history \o <<m>>) \o <<n>> /\ said' = said \o ev
        /\ Wordy(m) /\ Wordy(n) /\ Quiet(ev)
        /\ EventsOf(Told(history')) = EventsOf(Told(history)) \o ev
  BY <1>2, TalkTells
<1>4. fresh' \in Nat /\ Closed(history, fresh')
  BY <1>1, <1>2, OrderlyMeans DEF OrderInv
<1> DEFINE h == history \o <<m>>
<1>5. h \in Seq(FitMessage) /\ Closed(h, fresh')
  BY <1>2, <1>3, <1>4, ClosedWords
<1>6. history' = h \o <<n>>
  BY <1>3
<1>. HIDE DEF h
<1>7. Closed(history', fresh')
  BY <1>3, <1>4, <1>5, <1>6, ClosedWords
<1>8. Front(history') = h
  <2>1. SeqLaws(FitMessage)
    BY SeqSteps
  <2>2. history' = Append(h, n)
    BY <1>5, <1>6, <2>1 DEF SeqLaws
  <2>. QED BY <1>5, <2>2, FrontOfPut
<1>. QED BY <1>1, <1>5, <1>7, <1>8 DEF OrderInv, Waiting

LEMMA OrderTools ==
  ASSUME TypeOK, TellInv, OrderInv, NEW place, ToolsAnswer(place)
  PROVE  OrderInv'
<1>1. pc = "user" /\ pc' = "ready" /\ fresh \in Nat /\ fresh' \in Nat /\ fresh <= fresh'
  <2>1. history \in Seq(Message)
    BY DEF TypeOK
  <2>2. Len(OpenCalls) \in Nat
    BY <2>1, OpenCallsTyped
  <2>3. fresh' = fresh + Len(OpenCalls) + 1 /\ pc = "user" /\ pc' = "ready" /\ fresh \in Nat
    BY Zenon DEF ToolsAnswer, TypeOK
  <2>. QED BY <2>2, <2>3
<1>2. fresh > 9 /\ history \in Seq(FitMessage) /\ Distinct(CallsOf(history))
  BY <1>1 DEF TellInv, Faithful
<1>3. CallsOf(history) # <<>>
  BY Zenon DEF ToolsAnswer, OpenCalls, CallsOf
<1>4. PICK m \in FitMessage, ev \in Seq(SaidEvent) :
        /\ history' = Append(history, m)
        /\ m.role = "user" /\ ~m.plain
        /\ Answers(OfType(m.blocks, "tool_result"), CallsOf(history))
  BY <1>2, ToolsAnswerTells
<1>5. SeqLaws(FitMessage)
  BY SeqSteps
<1>6. history' = history \o <<m>>
  BY <1>2, <1>4, <1>5 DEF SeqLaws
<1>7. Orderly(history, fresh)
  BY <1>1 DEF OrderInv
<1>8. history' \in Seq(FitMessage) /\ Closed(history', fresh)
  BY <1>1, <1>2, <1>3, <1>4, <1>6, <1>7, ClosedAnswer
<1>9. Closed(history', fresh')
  BY <1>1, <1>8, ClosedLater
<1>10. Front(history') = history
  BY <1>2, <1>4, FrontOfPut
<1>. QED BY <1>1, <1>3, <1>9, <1>10 DEF OrderInv, Waiting

LEMMA OrderCompact ==
  ASSUME TypeOK, TellInv, OrderInv, Compact
  PROVE  OrderInv'
<1>1. /\ pc = "user" /\ pc' = "ready" /\ fresh' = fresh /\ fresh \in Nat
      /\ CallsOf(history) = <<>> /\ history' = Append(history, Instruction)
  BY DEF Compact, OpenCalls, CallsOf, Instruction, TypeOK
<1>2. history \in Seq(FitMessage)
  BY <1>1 DEF TellInv, Faithful
<1>3. Closed(history, fresh)
  BY <1>1 DEF OrderInv, Orderly
<1>4. Wordy(Instruction) /\ Instruction \in FitMessage
  BY <1>2, InstructionTells DEF Wordy
<1>5. history' = history \o <<Instruction>>
  <2>1. SeqLaws(FitMessage)
    BY SeqSteps
  <2>. QED BY <1>1, <1>2, <1>4, <2>1 DEF SeqLaws
<1>6. Closed(history', fresh)
  BY <1>1, <1>2, <1>3, <1>4, <1>5, ClosedWords
<1>7. Front(history') = history
  BY <1>1, <1>2, <1>4, FrontOfPut
<1>. QED BY <1>1, <1>3, <1>6, <1>7 DEF OrderInv, Waiting

LEMMA OrderAsk ==
  ASSUME OrderInv, NEW b \in Backends, NEW reminder \in {<<>>, <<"reminder">>},
         NEW streaming, Ask(b, streaming, reminder)
  PROVE  OrderInv'
<1>1. pc = "ready" /\ pc' = "asked" /\ history' = history /\ fresh' = fresh
  BY DEF Ask
<1>. QED BY <1>1 DEF OrderInv

LEMMA OrderRefuse ==
  ASSUME PrefixInv, TellInv, OrderInv, Refuse
  PROVE  OrderInv'
<1>1. pc = "asked" /\ round = 0 /\ Lost /\ fresh' = fresh
  BY DEF Refuse
<1>2. InTurn(history, said, blocks, "asked", 0)
  BY <1>1 DEF TellInv
<1>3. ask.compaction = IsCompaction(Sanitize(history))
  BY <1>1 DEF PrefixInv, AskFits
<1>4. PICK base \in Seq(SaidEvent) : Asked(history, base)
  BY <1>2 DEF InTurn
<1>5. Waiting(history, fresh)
  BY <1>1 DEF OrderInv
<1>6. CASE ask.compaction
  <2>1. pc' = "user" /\ history' = Front(history)
    BY <1>1, <1>6 DEF Lost
  <2>2. CallsOf(Front(history)) = <<>>
    BY <1>3, <1>4, <1>6, CompactionFront
  <2>3. Orderly(Front(history), fresh)
    BY <1>5, <2>2 DEF Waiting, Orderly
  <2>. QED BY <1>1, <2>1, <2>3 DEF OrderInv
<1>7. CASE ~ask.compaction
  <2>1. pc' = "ready" /\ history' = history
    BY <1>1, <1>7 DEF Lost
  <2>. QED BY <1>1, <1>5, <2>1 DEF OrderInv
<1>. QED BY <1>6, <1>7

LEMMA WaitingLater ==
  ASSUME NEW h \in Seq(FitMessage), h # <<>>, NEW k \in Nat, NEW l \in Nat, k <= l, Waiting(h, k)
  PROVE  Waiting(h, l)
<1>1. Front(h) \in Seq(FitMessage)
  BY FrontAndLast
<1>. QED BY <1>1, ClosedLater DEF Waiting

LEMMA FreshGrows ==
  ASSUME TypeOK, fresh > 9, NEW reply \in Replies
  PROVE  LET next == fresh + Len(Written(reply)) + 1
         IN  next \in Nat /\ fresh <= next
<1> DEFINE items == Written(reply)
<1>1. fresh \in Nat /\ Len(items) \in Nat
  <2>1. fresh \in Nat
    BY DEF TypeOK
  <2>. QED BY <2>1, WrittenTyped
<1>. HIDE DEF items
<1>2. fresh + Len(items) + 1 \in Nat /\ fresh <= fresh + Len(items) + 1
  BY <1>1
<1>. QED BY <1>2 DEF items

LEMMA OrderContinue ==
  ASSUME TypeOK, EndInv, TellInv, OrderInv, NEW reply \in Replies, Continue(reply)
  PROVE  OrderInv'
<1>1. /\ pc = "asked" /\ pc' = "asked" /\ history' = history
      /\ fresh' = fresh + Len(Written(reply)) + 1
  BY DEF Continue
<1>2. fresh > 9 /\ fresh \in Nat /\ fresh' \in Nat /\ fresh <= fresh'
  <2>1. fresh > 9 /\ fresh \in Nat
    BY DEF TellInv, TypeOK
  <2>. QED BY <1>1, <2>1, FreshGrows
<1>3. history \in Seq(FitMessage) /\ history # <<>>
  <2>1. PICK base \in Seq(SaidEvent) : Asked(history, base)
    BY <1>1 DEF TellInv, InTurn
  <2>. QED BY <1>1, <2>1, AskedMeans DEF EndInv, HistoryFits
<1>4. Waiting(history, fresh)
  BY <1>1 DEF OrderInv
<1>. QED BY <1>1, <1>2, <1>3, <1>4, WaitingLater DEF OrderInv

\* The turn ends.
LEMMA OrderClose ==
  ASSUME PrefixInv, EndInv, TellInv, OrderInv, pc = "asked", NEW reply \in Replies, Fits(reply),
         NEW reason, NEW status, NEW done,
         LET items == Written(reply)
         IN  CloseWith(items, blocks \o Rendered(items), reason, status, done)
  PROVE  Orderly(history', fresh + Len(Written(reply)) + 1) /\ pc' = "user"
<1> DEFINE items == Written(reply)
           rd == Rendered(items)
           all == blocks \o rd
           next == fresh + Len(items) + 1
<1>1. /\ fresh > 9 /\ InTurn(history, said, blocks, "asked", round) /\ fresh \in Nat
      /\ TypeOK /\ ask.compaction = IsCompaction(Sanitize(history))
      /\ OfType(blocks, "tool_use") = <<>> /\ history # <<>> /\ Last(history).role # "assistant"
  BY DEF TellInv, PrefixInv, AskFits, EndInv, HistoryFits, RoundFits, TypeOK
<1>2. PICK base \in Seq(SaidEvent) : Asked(history, base)
  BY <1>1 DEF InTurn
<1>3. blocks \in Seq(ReplyBlock) /\ history \in Seq(FitMessage)
  BY <1>1, <1>2, AskedMeans DEF InTurn
<1>4. /\ items \in Seq(ReplyItem) /\ rd \in Seq(ReplyBlock)
      /\ \E t \in Nat : Named(items, UsesOf(rd), t)
  <2>1. /\ DistinctNames(items)
        /\ Delivery = "native" => NativeFits(ask.to, items)
        /\ Delivery = "chat" => ReasonsFirst(items)
    BY <1>1, WrittenFits
  <2>2. items \in Seq(ReplyItem) /\ Len(blocks) \in Nat
    BY <1>1, WrittenTyped DEF TypeOK
  <2>. HIDE DEF items
  <2>. QED BY <2>1, <2>2, RenderedSays
<1>5. next \in Nat /\ fresh <= next
  BY <1>1, FreshGrows
<1>6. Waiting(history, fresh) /\ Closed(history, next)
  <2>1. Waiting(history, fresh)
    BY DEF OrderInv
  <2>. QED BY <1>1, <1>3, <1>5, <2>1, ClosedLater DEF Waiting
<1>7. /\ pc' = "user"
      /\ ~ask.compaction => history' = IF all # <<>> THEN Append(history, BlockMessage("assistant", all))
                                       ELSE history
      /\ ask.compaction /\ Words(JoinText(all)) = <<>> => history' = Front(history)
      /\ ask.compaction /\ Words(JoinText(all)) # <<>> =>
           history' = <<StringMessage("user", Words(JoinText(all)))>>
  BY DEF CloseWith
<1>8. Opened(UsesOf(rd), Exchanged(history), next)
  <2>1. PICK t \in Nat : Named(Written(reply), UsesOf(rd), t)
    BY <1>4
  <2>2. Exchanged(history) \in Seq(Utterance) /\ Matched(Exchanged(history), fresh)
    BY <1>3, <1>6, ExchangedLaws DEF Waiting, Closed
  <2>. HIDE DEF rd
  <2>. QED BY <1>1, <2>1, <2>2, RepliesOpen
<1>. HIDE DEF items, rd, next
<1>9. all \in Seq(ReplyBlock) /\ UsesOf(all) = UsesOf(rd)
  <2>1. SeqLaws(ReplyBlock) /\ SeqLaws(Uses)
    BY SeqSteps
  <2>2. UsesOf(blocks) = <<>> /\ UsesOf(rd) \in Seq(Uses)
    BY <1>1, <1>4, UsesOfLaws DEF UsesOf
  <2>3. all \in Seq(ReplyBlock) /\ UsesOf(all) = UsesOf(blocks) \o UsesOf(rd)
    BY <1>3, <1>4, <2>1, UsesOfLaws DEF SeqLaws
  <2>4. <<>> \o UsesOf(rd) = UsesOf(rd)
    BY <2>1, <2>2 DEF SeqLaws
  <2>. QED BY <2>2, <2>3, <2>4
<1>. HIDE DEF all
<1>10. CASE ~ask.compaction /\ all # <<>>
  <2>1. Orderly(Append(history, BlockMessage("assistant", all)), next)
    BY <1>3, <1>5, <1>6, <1>8, <1>9, OrderlyReply
  <2>. QED BY <1>7, <1>10, <2>1 DEF next, items
<1>11. CASE ~ask.compaction /\ all = <<>>
  <2>1. CallsOf(history) = <<>> /\ history' = history
    BY <1>1, <1>7, <1>11 DEF CallsOf
  <2>. QED BY <1>6, <1>7, <2>1 DEF Orderly, next, items
<1>12. CASE ask.compaction /\ Words(JoinText(all)) = <<>>
  <2>1. history' = Front(history) /\ CallsOf(Front(history)) = <<>>
    BY <1>1, <1>2, <1>7, <1>12, CompactionFront
  <2>2. Front(history) \in Seq(FitMessage) /\ Closed(Front(history), fresh)
    BY <1>1, <1>3, <1>6, <2>1, FrontAndLast DEF Waiting
  <2>3. Closed(Front(history), next)
    BY <1>1, <1>5, <2>2, ClosedLater
  <2>. QED BY <1>7, <2>1, <2>3 DEF Orderly, next, items
<1>13. CASE ask.compaction /\ Words(JoinText(all)) # <<>>
  <2> DEFINE s == Words(JoinText(all))
             m == StringMessage("user", s)
  <2>1. s \in Text
    <3>1. all \in Seq(ContentBlock)
      BY <1>9 DEF ReplyBlock
    <3>2. JoinText(all) \in Text
      BY <3>1, JoinTextProperties
    <3>. QED BY <3>2, WordsProperties
  <2>2. history' = <<m>>
    BY <1>7, <1>13
  <2>. HIDE DEF s
  <2>3. Wordy(m) /\ m.role = "user"
    BY <2>1, StringIsWordy
  <2>. HIDE DEF m
  <2>4. m \in FitMessage
    BY <2>3 DEF Wordy
  <2>5. SeqLaws(FitMessage)
    BY SeqSteps
  <2>6. <<>> \o <<m>> = <<m>> /\ <<>> \in Seq(FitMessage) /\ <<m>> \in Seq(FitMessage)
    BY <2>4, <2>5 DEF SeqLaws
  <2>7. Closed(<<m>>, next)
    BY <1>5, <2>3, <2>6, ClosedNothing, ClosedWords
  <2>8. CallsOf(<<m>>) = <<>>
    BY <2>3, <2>4, <2>6, NothingOpen
  <2>. QED BY <1>7, <2>2, <2>7, <2>8 DEF Orderly, next, items
<1>. QED BY <1>10, <1>11, <1>12, <1>13

LEMMA OrderEnds ==
  ASSUME PrefixInv, EndInv, TellInv, OrderInv, NEW reply \in Replies, Reply(reply) \/ Break(reply)
  PROVE  OrderInv'
<1>1. TypeOK /\ fresh > 9 /\ fresh \in Nat
  BY DEF PrefixInv, TypeOK, TellInv
<1>2. /\ pc = "asked" /\ Fits(reply)
      /\ \E reason \in StopReason, status \in Status :
           CloseWith(Written(reply), blocks \o Rendered(Written(reply)), reason, status,
                     Calls(Written(reply)) = <<>> /\ IsDone(text \o Said(Written(reply), "message")))
  BY <1>1, EndsClose
<1>3. Orderly(history', fresh + Len(Written(reply)) + 1) /\ pc' = "user"
  BY <1>2, OrderClose
<1>4. fresh' = fresh + Len(Written(reply)) + 1
  BY DEF Reply, Break
<1>. QED BY <1>3, <1>4 DEF OrderInv

LEMMA OrderUnchanged ==
  ASSUME OrderInv, UNCHANGED vars
  PROVE  OrderInv'
<1>1. UNCHANGED <<history, pc, fresh>>
  BY DEF vars, requestVars
<1>. QED BY <1>1 DEF OrderInv

-----------------------------------------------------------------------------
(* The items of a Responses request.                                       *)

\* No conversation contains a compaction trigger.
Ordinary == {x \in InputItem : x.type # "trigger"}

LEMMA OrdinaryItems ==
  ASSUME NEW role \in ItemRole, NEW s \in Text, NEW id \in Id
  PROVE  /\ MessageItem(role, s) \in Ordinary
         /\ Item("function_call", "none", s, id) \in Ordinary
         /\ Item("function_call_output", "none", s, id) \in Ordinary
<1>1. "none" \in ItemRole
  BY DEF ItemRole
<1>2. /\ MessageItem(role, s) \in InputItem
      /\ Item("function_call", "none", s, id) \in InputItem
      /\ Item("function_call_output", "none", s, id) \in InputItem
  BY <1>1, MessageItemTyped, ItemTyped
<1>. QED BY <1>2 DEF Ordinary, MessageItem, Item

LEMMA OrdinaryFlush ==
  ASSUME NEW role \in ItemRole, NEW parts \in Seq(ContentBlock)
  PROVE  Flush(role, parts) \in Seq(Ordinary)
<1>1. FlattenSeq(TextsOf(parts)) \in Text
  BY TextsProperties DEF ContentBlock
<1>2. MessageItem(role, FlattenSeq(TextsOf(parts))) \in Ordinary
  BY <1>1, NoIdTyped, OrdinaryItems
<1>3. SeqLaws(Ordinary)
  BY SeqSteps
<1>. QED BY <1>2, <1>3 DEF Flush, SeqLaws

LEMMA OrdinaryGather ==
  ASSUME NEW role \in ItemRole
  PROVE  \A bs \in Seq(ContentBlock) : Gather(role, bs).out \in Seq(Ordinary)
<1> DEFINE T == {bs \in Seq(ContentBlock) : Gather(role, bs).out \in Seq(Ordinary)}
<1>1. SeqLaws(Ordinary) /\ SeqLaws(ContentBlock)
  BY SeqSteps
<1>2. <<>> \in T
  <2>1. Gather(role, <<>>).out = <<>>
    BY GatherProperties DEF Nothing
  <2>. QED BY <1>1, <2>1 DEF SeqLaws
<1>3. ASSUME NEW s \in Seq(ContentBlock), NEW b \in ContentBlock, s \in T
      PROVE  Append(s, b) \in T
  <2> DEFINE acc == Gather(role, s)
             y == Item("function_call_output", "none", b.text, b.id)
  <2>1. Gather(role, Append(s, b)) = TakeBlock(role, acc, b) /\ acc \in Gathered
    BY GatherProperties
  <2>2. acc.out \in Seq(Ordinary)
    BY <1>3
  <2>3. acc.parts \in Seq(ContentBlock)
    BY <2>1 DEF Gathered
  <2>4. Append(s, b) \in Seq(ContentBlock)
    BY <1>1 DEF SeqLaws
  <2>5. y \in Ordinary
    <3>1. b.text \in Text /\ b.id \in Id /\ "none" \in ItemRole
      BY BlockParts DEF ItemRole
    <3>. QED BY <3>1, OrdinaryItems
  <2>6. Flush(role, acc.parts) \in Seq(Ordinary)
    BY <2>3, OrdinaryFlush
  <2>7. \/ TakeBlock(role, acc, b).out = (acc.out \o Flush(role, acc.parts)) \o <<y>>
        \/ TakeBlock(role, acc, b).out = acc.out
    BY <2>1 DEF TakeBlock, Gathered
  <2>. HIDE DEF acc, y, T
  <2>8. (acc.out \o Flush(role, acc.parts)) \o <<y>> \in Seq(Ordinary)
    <3>1. <<y>> \in Seq(Ordinary) /\ acc.out \o Flush(role, acc.parts) \in Seq(Ordinary)
      BY <1>1, <2>2, <2>5, <2>6 DEF SeqLaws
    <3>. QED BY <1>1, <3>1 DEF SeqLaws
  <2>9. Gather(role, Append(s, b)).out \in Seq(Ordinary)
    BY <2>1, <2>2, <2>7, <2>8
  <2>. QED BY <2>4, <2>9 DEF T
<1>. HIDE DEF T
<1>4. Seq(ContentBlock) \subseteq T
  BY <1>2, <1>3, SequenceInduction
<1>. QED BY <1>4 DEF T

LEMMA OrdinaryMessage ==
  ASSUME NEW m \in FitMessage
  PROVE  ResponsesMessage(m) \in Seq(Ordinary)
<1> DEFINE role == ResponsesRole(m.role)
<1>1. /\ m.role \in Role /\ m.blocks \in Seq(ContentBlock) /\ role \in ItemRole
      /\ m.plain => Len(m.blocks) = 1
  BY FitParts DEF Role, ResponsesRole, ItemRole
<1>2. SeqLaws(Ordinary)
  BY SeqSteps
<1>. HIDE DEF role
<1>3. CASE m.plain
  <2>1. m.blocks[1] \in ContentBlock
    BY <1>1, <1>3
  <2>2. MessageItem(role, m.blocks[1].text) \in Ordinary
    <3>1. m.blocks[1].text \in Text
      BY <2>1, BlockParts
    <3>. QED BY <1>1, <3>1, NoIdTyped, OrdinaryItems
  <2>3. ResponsesMessage(m) = <<MessageItem(role, m.blocks[1].text)>>
    BY <1>3 DEF ResponsesMessage, role
  <2>. QED BY <1>2, <2>2, <2>3 DEF SeqLaws
<1>4. CASE ~m.plain /\ role = "assistant"
  <2> DEFINE s == JoinText(m.blocks)
             us == OfType(m.blocks, "tool_use")
             head == IF s = <<>> THEN <<>> ELSE <<MessageItem("assistant", s)>>
             tail == Image(UseAsItem, us)
  <2>1. s \in Text /\ us \in Seq(Uses)
    BY <1>1, JoinTextProperties, OfTypeProperties DEF Uses
  <2>2. ResponsesMessage(m) = head \o tail
    <3>1. [i \in DOMAIN us |-> Item("function_call", "none", us[i].text, us[i].id)] = tail
      <4>1. \A i \in DOMAIN us : us[i] \in Uses
        BY <2>1
      <4>. HIDE DEF us
      <4>. QED BY <4>1 DEF Image, UseAsItem
    <3>. QED BY <1>4, <3>1 DEF ResponsesMessage, ResponsesAssistant, role
  <2>. HIDE DEF s, us
  <2>3. head \in Seq(Ordinary)
    <3>1. MessageItem("assistant", s) \in Ordinary
      BY <2>1, NoIdTyped, OrdinaryItems DEF ItemRole
    <3>. QED BY <1>2, <3>1 DEF SeqLaws
  <2>4. Sends(UseAsItem, Uses, Ordinary)
    <3>1. ASSUME NEW b \in Uses
          PROVE  Item("function_call", "none", b.text, b.id) \in Ordinary
      <4>1. b.text \in Text /\ b.id \in Id /\ "none" \in ItemRole
        BY BlockParts DEF Uses, ItemRole
      <4>. QED BY <4>1, OrdinaryItems
    <3>. QED BY <3>1 DEF Sends, UseAsItem
  <2>5. tail \in Seq(Ordinary)
    BY <2>1, <2>4, ImageTyped
  <2>. HIDE DEF head, tail
  <2>. QED BY <1>2, <2>2, <2>3, <2>5 DEF SeqLaws
<1>5. CASE ~m.plain /\ role # "assistant"
  <2> DEFINE end == Gather(role, m.blocks)
  <2>1. ResponsesMessage(m) = end.out \o Flush(role, end.parts)
    BY <1>5 DEF ResponsesMessage, ResponsesUser, role
  <2>2. end.out \in Seq(Ordinary) /\ end.parts \in Seq(ContentBlock)
    BY <1>1, OrdinaryGather, GatherProperties DEF Gathered
  <2>. HIDE DEF end
  <2>3. Flush(role, end.parts) \in Seq(Ordinary)
    BY <1>1, <2>2, OrdinaryFlush
  <2>. QED BY <1>2, <2>1, <2>2, <2>3 DEF SeqLaws
<1>. QED BY <1>3, <1>4, <1>5

LEMMA OrdinaryRequest ==
  ASSUME NEW h \in Seq(FitMessage)
  PROVE  ToResponses(h) \in Seq(Ordinary)
<1>1. Maps(ConvI, FitMessage, Ordinary)
  <2>1. \A m \in FitMessage : ResponsesMessage(m) \in Seq(Ordinary)
    BY OrdinaryMessage
  <2>. QED BY <2>1 DEF Maps, ConvI
<1>2. MapLaws(FitMessage, Ordinary, ConvI)
  BY <1>1, MappedLaws
<1>3. Mapped(ConvI, h) \in Seq(Ordinary)
  BY <1>2 DEF MapLaws
<1>. QED BY <1>3, ConvertedMapped

(* Reading keeps the number of calls and of results, and their order.      *)

\* Where one function makes one element of those in T, and nothing of this
\* kind of the others.
LEMMA CountMapped ==
  ASSUME NEW D, NEW E, NEW g, Maps(g, D, E), NEW T \in SUBSET D, NEW P,
         NEW c, Sends(c, T, E),
         \A x \in T : g[x] = <<c[x]>> /\ c[x] \in P,
         \A x \in D : x \notin T => ~Has(P, g[x])
  PROVE  \A s \in Seq(D) : Count(P, Mapped(g, s)) = Count(T, s)
<1> DEFINE f == [x \in D |-> Selected(P, g[x])]
           k == [x \in D |-> IF x \in T THEN g[x] ELSE <<>>]
<1>1. ASSUME NEW x \in D
      PROVE  f[x] = k[x]
  <2>1. g[x] \in Seq(E)
    BY DEF Maps
  <2>2. CASE x \in T
    <3>1. c[x] \in E /\ g[x] = <<c[x]>> /\ c[x] \in P
      BY <2>2 DEF Sends
    <3>2. SelectLaws(E, P)
      BY SelectedLaws
    <3>3. Selected(P, <<c[x]>>) = <<c[x]>>
      BY <3>1, <3>2 DEF SelectLaws
    <3>. QED BY <2>2, <3>1, <3>3
  <2>3. CASE x \notin T
    <3>1. \A i \in DOMAIN g[x] : g[x][i] \notin P
      BY <2>3 DEF Has
    <3>2. Selected(P, g[x]) = <<>>
      BY <2>1, <3>1, SelectedNone
    <3>. QED BY <2>3, <3>2
  <2>. QED BY <2>2, <2>3
<1>2. ASSUME NEW s \in Seq(D)
      PROVE  Selected(P, Mapped(g, s)) = Mapped(g, Selected(T, s))
  <2>1. Selected(P, Mapped(g, s)) = Mapped(f, s)
    BY SelectedMapped
  <2>2. Mapped(g, Selected(T, s)) = Mapped(k, s)
    BY MappedSelected
  <2>. HIDE DEF f, k
  <2>3. Mapped(f, s) = Mapped(k, s)
    BY <1>1, MappedAgree
  <2>. QED BY <2>1, <2>2, <2>3
<1>. HIDE DEF f, k
<1>3. ASSUME NEW q \in Seq(T)
      PROVE  Len(Mapped(g, q)) = Len(q)
  <2>1. Image(c, q) = Mapped(Ones(T, c), q)
    BY ImageIsMapped
  <2>2. \A x \in T : Ones(T, c)[x] = g[x]
    BY DEF Ones
  <2>3. Mapped(Ones(T, c), q) = Mapped(g, q)
    BY <2>2, MappedAgree
  <2>4. Len(Image(c, q)) = Len(q)
    BY ImageTyped
  <2>. QED BY <2>1, <2>3, <2>4
<1>4. \A s \in Seq(D) : Selected(T, s) \in Seq(T)
  BY SelectedProperties
<1>. QED BY <1>2, <1>3, <1>4 DEF Count

CallItem(id) == {x \in InputItem : x.type = "function_call" /\ x.id = id}
OutItem(id) == {x \in InputItem : x.type = "function_call_output" /\ x.id = id}

LEMMA ItemReads ==
  ASSUME NEW x \in InputItem, NEW id
  PROVE  /\ x \in CallItem(id) => /\ ReadI[x] = <<Utter("model", "call", x.text, x.id)>>
                                  /\ Utter("model", "call", x.text, x.id) \in Calling(id)
         /\ x \in OutItem(id) => /\ ReadI[x] = <<Utter("user", "result", x.text, x.id)>>
                                 /\ Utter("user", "result", x.text, x.id) \in Answering(id)
         /\ x \notin CallItem(id) => ~Has(Calling(id), ReadI[x])
         /\ x \notin OutItem(id) => ~Has(Answering(id), ReadI[x])
<1>1. x.text \in Text /\ x.id \in Id /\ ReadI[x] = ReadResponses(x)
      /\ x.type \in {"message", "function_call", "function_call_output", "trigger"}
  BY ReadITyped DEF InputItem
<1> DEFINE c == Utter("model", "call", x.text, x.id)
           r == Utter("user", "result", x.text, x.id)
           w == Utter(SideOf(x.role), "words", x.text, NoId)
<1>2. c \in Utterance /\ r \in Utterance
  BY <1>1, UtterTyped DEF Side
<1>3. /\ c.kind = "call" /\ c.id = x.id /\ r.kind = "result" /\ r.id = x.id
      /\ w.kind = "words"
  BY DEF Utter
<1>4. /\ x.type = "message" => ReadI[x] = <<w>>
      /\ x.type = "function_call" => ReadI[x] = <<c>>
      /\ x.type = "function_call_output" => ReadI[x] = <<r>>
      /\ x.type = "trigger" => ReadI[x] = <<>>
  BY <1>1 DEF ReadResponses
<1>. HIDE DEF c, r, w
<1>5. ASSUME NEW u, NEW P, u \notin P
      PROVE  ~Has(P, <<u>>)
  BY <1>5 DEF Has
<1>6. \A P : ~Has(P, <<>>)
  BY DEF Has
<1>7. c \notin Answering(id) /\ r \notin Calling(id) /\ w \notin Answering(id) /\ w \notin Calling(id)
  BY <1>3 DEF Calling, Answering
<1>8. /\ x \in CallItem(id) => ReadI[x] = <<c>> /\ c \in Calling(id)
      /\ x \in OutItem(id) => ReadI[x] = <<r>> /\ r \in Answering(id)
  BY <1>2, <1>3, <1>4 DEF CallItem, OutItem, Calling, Answering
<1>9. ASSUME x \notin CallItem(id)
      PROVE  ~Has(Calling(id), ReadI[x])
  <2>1. x.type = "function_call" => c \notin Calling(id)
    BY <1>3, <1>9 DEF CallItem, Calling
  <2>. QED BY <1>1, <1>4, <1>5, <1>6, <1>7, <2>1
<1>10. ASSUME x \notin OutItem(id)
       PROVE  ~Has(Answering(id), ReadI[x])
  <2>1. x.type = "function_call_output" => r \notin Answering(id)
    BY <1>3, <1>10 DEF OutItem, Answering
  <2>. QED BY <1>1, <1>4, <1>5, <1>6, <1>7, <2>1
<1>. QED BY <1>8, <1>9, <1>10 DEF c, r

LEMMA ItemsCount ==
  ASSUME NEW items \in Seq(InputItem), NEW id
  PROVE  LET r == Selected(Exchange, Mapped(ReadI, items))
         IN  /\ Count(Calling(id), r) = Count(CallItem(id), items)
             /\ Count(Answering(id), r) = Count(OutItem(id), items)
<1> DEFINE u == Mapped(ReadI, items)
           c == [x \in CallItem(id) |-> Utter("model", "call", x.text, x.id)]
           o == [x \in OutItem(id) |-> Utter("user", "result", x.text, x.id)]
<1>1. Maps(ReadI, InputItem, Utterance) /\ MapLaws(InputItem, Utterance, ReadI)
  BY ReadITyped, MappedLaws
<1>2. u \in Seq(Utterance)
  BY <1>1 DEF MapLaws
<1>3. Calling(id) \subseteq Utterance /\ Answering(id) \subseteq Utterance
      /\ Calling(id) \subseteq Exchange /\ Answering(id) \subseteq Exchange
  BY DEF Calling, Answering, Exchange
<1>4. CallItem(id) \in SUBSET InputItem /\ OutItem(id) \in SUBSET InputItem
  BY DEF CallItem, OutItem
<1>5. Sends(c, CallItem(id), Utterance) /\ Sends(o, OutItem(id), Utterance)
  <2>1. \A x \in CallItem(id) : Utter("model", "call", x.text, x.id) \in Utterance
    BY <1>3, <1>4, ItemReads
  <2>2. \A x \in OutItem(id) : Utter("user", "result", x.text, x.id) \in Utterance
    BY <1>3, <1>4, ItemReads
  <2>. QED BY <2>1, <2>2 DEF Sends
<1>6. \A x \in CallItem(id) : ReadI[x] = <<c[x]>> /\ c[x] \in Calling(id)
  BY <1>4, ItemReads
<1>7. \A x \in OutItem(id) : ReadI[x] = <<o[x]>> /\ o[x] \in Answering(id)
  BY <1>4, ItemReads
<1>8. \A x \in InputItem : /\ x \notin CallItem(id) => ~Has(Calling(id), ReadI[x])
                           /\ x \notin OutItem(id) => ~Has(Answering(id), ReadI[x])
  BY ItemReads
<1>. HIDE DEF u, c, o
<1>9. Count(Calling(id), u) = Count(CallItem(id), items)
  BY <1>1, <1>4, <1>5, <1>6, <1>8, CountMapped DEF u
<1>10. Count(Answering(id), u) = Count(OutItem(id), items)
  BY <1>1, <1>4, <1>5, <1>7, <1>8, CountMapped DEF u
<1>11. Count(Calling(id), Selected(Exchange, u)) = Count(Calling(id), u)
       /\ Count(Answering(id), Selected(Exchange, u)) = Count(Answering(id), u)
  BY <1>2, <1>3, CountSelected
<1>. QED BY <1>9, <1>10, <1>11 DEF u

-----------------------------------------------------------------------------
\* A list cut before one of its elements.
LEMMA CutBefore ==
  ASSUME NEW D, NEW s \in Seq(D), NEW i \in 1..Len(s)
  PROVE  \E p, q \in Seq(D) :
           /\ s = (p \o <<s[i]>>) \o q
           /\ Len(p) = i - 1 /\ \A j \in 1..(i - 1) : p[j] = s[j]
<1> DEFINE p == SubSeq(s, 1, i - 1)
           q == SubSeq(s, i + 1, Len(s))
           x == s[i]
<1>1. Len(s) \in Nat /\ i \in Nat /\ i >= 1 /\ i <= Len(s) /\ x \in D
  OBVIOUS
<1>2. /\ p \in Seq(D) /\ Len(p) = i - 1
      /\ \A j \in 1..(i - 1) : p[j] = s[j]
  <2>1. /\ p \in Seq(D) /\ Len(p) = (IF 1 <= i - 1 THEN (i - 1) - 1 + 1 ELSE 0)
        /\ \A j \in 1..((i - 1) - 1 + 1) : p[j] = s[1 + j - 1]
    BY SubSeqProperties
  <2>2. (i - 1) - 1 + 1 = i - 1 /\ (i - 1 \in Nat) /\ \A j \in 1..(i - 1) : 1 + j - 1 = j
    BY <1>1
  <2>3. Len(p) = i - 1
    BY <1>1, <2>1
  <2>. HIDE DEF p
  <2>. QED BY <2>1, <2>2, <2>3
<1>3. /\ q \in Seq(D) /\ Len(q) = Len(s) - i
      /\ \A j \in 1..(Len(s) - i) : q[j] = s[i + j]
  <2>1. /\ q \in Seq(D) /\ Len(q) = (IF i + 1 <= Len(s) THEN Len(s) - (i + 1) + 1 ELSE 0)
        /\ \A j \in 1..(Len(s) - (i + 1) + 1) : q[j] = s[(i + 1) + j - 1]
    BY <1>1, SubSeqProperties
  <2>2. /\ Len(s) - (i + 1) + 1 = Len(s) - i /\ Len(s) - i \in Nat
        /\ \A j \in 1..(Len(s) - i) : (i + 1) + j - 1 = i + j
    BY <1>1
  <2>3. Len(q) = Len(s) - i
    BY <1>1, <2>1
  <2>. HIDE DEF q
  <2>. QED BY <2>1, <2>2, <2>3, Zenon
<1>. HIDE DEF p, q
<1> DEFINE a == p \o <<x>>
           t == a \o q
<1>4. /\ a \in Seq(D) /\ Spliced(p, <<x>>, a) /\ <<x>> \in Seq(D) /\ Len(<<x>>) = 1
      /\ <<x>>[1] = x
  <2>1. <<x>> \in Seq(D) /\ Len(<<x>>) = 1 /\ <<x>>[1] = x
    BY <1>1
  <2>. QED BY <1>2, <2>1, SeqPieces
<1>5. t \in Seq(D) /\ Spliced(a, q, t)
  <2>. HIDE DEF a
  <2>. QED BY <1>3, <1>4, SeqPieces
<1>6. Len(a) = i /\ a[i] = x /\ \A j \in 1..(i - 1) : a[j] = s[j]
  <2>. HIDE DEF a, x
  <2>1. Len(a) = i /\ a[Len(p) + 1] = x
    BY <1>1, <1>2, <1>4 DEF Spliced
  <2>2. \A j \in 1..(i - 1) : a[j] = s[j]
    BY <1>1, <1>2, <1>4 DEF Spliced
  <2>. QED BY <1>1, <1>2, <2>1, <2>2
<1>. HIDE DEF a
<1>7. t = s
  <2>1. Len(t) = Len(s)
    BY <1>1, <1>3, <1>5, <1>6 DEF Spliced
  <2>2. ASSUME NEW j \in 1..Len(t)
        PROVE  t[j] = s[j]
    <3>1. j <= i - 1 \/ j = i \/ (j - i \in 1..(Len(s) - i) /\ i + (j - i) = j)
      BY <1>1, <2>1
    <3>2. j <= i => t[j] = a[j]
      BY <1>1, <1>5, <1>6 DEF Spliced
    <3>3. ASSUME NEW l \in 1..(Len(s) - i)
          PROVE  t[i + l] = s[i + l]
      BY <1>3, <1>5, <1>6 DEF Spliced
    <3>4. j <= i - 1 => j \in 1..(i - 1) /\ j <= i
      BY <1>1
    <3>5. CASE j <= i - 1
      BY <1>6, <3>2, <3>4, <3>5
    <3>6. CASE j = i
      <4>1. t[j] = a[i] /\ a[i] = x
        BY <1>1, <1>6, <3>2, <3>6
      <4>. QED BY <3>6, <4>1
    <3>7. CASE j - i \in 1..(Len(s) - i) /\ i + (j - i) = j
      BY <3>3, <3>7
    <3>. QED BY <3>1, <3>5, <3>6, <3>7
  <2>. HIDE DEF t
  <2>. QED BY <1>5, <2>1, <2>2, SeqEqual
<1>. QED BY <1>2, <1>3, <1>7 DEF a, t

\* The call that a result belongs to stands before it.
LEMMA CallsComeFirst ==
  ASSUME NEW items \in Seq(InputItem), NEW k,
         Matched(Selected(Exchange, Mapped(ReadI, items)), k),
         NEW i \in DOMAIN items, items[i].type = "function_call_output"
  PROVE  \E j \in 1..(i - 1) : items[j] \in CallItem(items[i].id)
<1> DEFINE x == items[i]
           id == items[i].id
           u == Utter("user", "result", x.text, x.id)
           r == Selected(Exchange, Mapped(ReadI, items))
<1>1. x \in InputItem /\ i \in 1..Len(items)
  OBVIOUS
<1>2. ReadI[x] = <<u>> /\ u \in Answering(id)
  <2>1. x \in OutItem(id)
    BY <1>1 DEF OutItem
  <2>. QED BY <1>1, <2>1, ItemReads
<1>3. u \in Utterance /\ u.kind = "result" /\ u.id = id /\ u \in Exchange
  BY <1>2 DEF Answering, Exchange
<1>4. PICK p \in Seq(InputItem), q \in Seq(InputItem) :
        /\ items = (p \o <<x>>) \o q
        /\ Len(p) = i - 1 /\ \A j \in 1..(i - 1) : p[j] = items[j]
  BY <1>1, CutBefore
<1> DEFINE a == Mapped(ReadI, p)
           b == Mapped(ReadI, q)
           sa == Selected(Exchange, a)
           sb == Selected(Exchange, b)
<1>5. MapLaws(InputItem, Utterance, ReadI) /\ Maps(ReadI, InputItem, Utterance)
      /\ SelectLaws(Utterance, Exchange) /\ SeqLaws(InputItem) /\ SeqLaws(Utterance)
  BY ReadITyped, MappedLaws, SelectedLaws, SeqSteps
<1>. HIDE DEF x, id, u
<1>6. a \in Seq(Utterance) /\ b \in Seq(Utterance)
  BY <1>4, <1>5 DEF MapLaws
<1>7. r = (sa \o <<u>>) \o sb
  <2>1. <<x>> \in Seq(InputItem) /\ p \o <<x>> \in Seq(InputItem)
    BY <1>1, <1>4, <1>5 DEF SeqLaws
  <2>2. Mapped(ReadI, p \o <<x>>) = a \o <<u>>
    <3>1. Mapped(ReadI, <<x>>) = <<u>>
      BY <1>1, <1>2, <1>5 DEF MapLaws
    <3>2. Mapped(ReadI, p \o <<x>>) = a \o Mapped(ReadI, <<x>>)
      BY <1>4, <1>5, <2>1 DEF MapLaws
    <3>. QED BY <3>1, <3>2
  <2>3. Mapped(ReadI, (p \o <<x>>) \o q) = Mapped(ReadI, p \o <<x>>) \o b
    BY <1>4, <1>5, <2>1 DEF MapLaws
  <2>4. <<u>> \in Seq(Utterance) /\ a \o <<u>> \in Seq(Utterance)
    BY <1>3, <1>5, <1>6 DEF SeqLaws
  <2>5. Selected(Exchange, <<u>>) = <<u>>
    BY <1>3, <1>5 DEF SelectLaws
  <2>. HIDE DEF a, b
  <2>6. Selected(Exchange, a \o <<u>>) = sa \o <<u>>
    <3>1. Selected(Exchange, a \o <<u>>) = sa \o Selected(Exchange, <<u>>)
      BY <1>5, <1>6, <2>4 DEF SelectLaws
    <3>. QED BY <2>5, <3>1, Zenon
  <2>7. Selected(Exchange, (a \o <<u>>) \o b) = Selected(Exchange, a \o <<u>>) \o sb
    BY <1>5, <1>6, <2>4 DEF SelectLaws
  <2>. QED BY <1>4, <2>2, <2>3, <2>6, <2>7
<1>8. sa \in Seq(Utterance) /\ sb \in Seq(Utterance)
  BY <1>5, <1>6 DEF SelectLaws
<1> DEFINE n == Len(sa)
<1>9. n \in Nat /\ n + 1 \in DOMAIN r /\ r[n + 1] = u /\ \A j \in 1..n : r[j] = sa[j]
  <2>. HIDE DEF sa, sb, a, b, r
  <2> DEFINE c == sa \o <<u>>
  <2>1. <<u>> \in Seq(Utterance) /\ Len(<<u>>) = 1 /\ <<u>>[1] = u
    BY <1>3
  <2>2. c \in Seq(Utterance) /\ Spliced(sa, <<u>>, c)
    BY <1>8, <2>1, SeqPieces
  <2>3. Len(c) = n + 1 /\ n \in Nat /\ c[n + 1] = u /\ \A j \in 1..n : c[j] = sa[j]
    BY <2>1, <2>2 DEF Spliced
  <2>. HIDE DEF c, n
  <2>4. r = c \o sb
    BY <1>7 DEF c
  <2>5. r \in Seq(Utterance) /\ Spliced(c, sb, r)
    BY <1>8, <2>2, <2>4, SeqPieces
  <2>6. /\ Len(r) = (n + 1) + Len(sb) /\ Len(sb) \in Nat
        /\ \A j \in 1..(n + 1) : r[j] = c[j]
    BY <2>3, <2>5 DEF Spliced
  <2>7. DOMAIN r = 1..Len(r)
    BY <2>5
  <2>8. n + 1 \in 1..(n + 1) /\ \A j \in 1..n : j \in 1..(n + 1)
    BY <2>3
  <2>. QED BY <2>3, <2>6, <2>7, <2>8
<1>10. PICK j \in 1..((n + 1) - 1) : r[j] \in Calling(id)
  <2>. HIDE DEF r, n
  <2>1. r[n + 1].kind = "result" /\ r[n + 1].id = id
    BY <1>3, <1>9
  <2>2. Matched(r, k)
    BY DEF r
  <2>. QED BY <1>9, <2>1, <2>2 DEF Matched
<1>. HIDE DEF r
<1>11. Has(Calling(id), sa)
  <2>1. j \in 1..n /\ sa[j] \in Calling(id)
    BY <1>9, <1>10
  <2>2. DOMAIN sa = 1..n
    BY <1>8
  <2>. HIDE DEF sa
  <2>. QED BY <2>1, <2>2 DEF Has
<1>. HIDE DEF n
<1>12. Has(Calling(id), a)
  <2>1. Calling(id) \subseteq Exchange
    BY DEF Calling, Exchange
  <2>2. Count(Calling(id), sa) = Count(Calling(id), a)
    BY <1>6, <2>1, CountSelected
  <2>. HIDE DEF a, sa
  <2>. QED BY <1>6, <1>8, <1>11, <2>2, CountHas
<1>13. PICK l \in 1..Len(p) : Has(Calling(id), ReadI[p[l]])
  BY <1>4, <1>5, <1>12, MappedHas
<1>14. p[l] \in InputItem
  BY <1>4
<1>15. p[l] \in CallItem(id)
  BY <1>13, <1>14, ItemReads
<1>16. l \in 1..(i - 1) /\ p[l] = items[l]
  BY <1>4
<1>. QED BY <1>15, <1>16 DEF id

LEMMA ResponsesAccepts ==
  ASSUME NEW items \in Seq(InputItem), NEW k \in Nat,
         Matched(Selected(Exchange, Mapped(ReadI, items)), k),
         \A i \in DOMAIN items : items[i].type = "trigger" => i = Len(items)
  PROVE  AcceptedByResponses(items)
<1> DEFINE r == Selected(Exchange, Mapped(ReadI, items))
<1>1. ASSUME NEW i \in DOMAIN items
      PROVE  items[i] \in InputItem /\ items[i].role # "system"
  <2>1. items[i] \in InputItem
    OBVIOUS
  <2>2. items[i].role \in {"user", "assistant", "developer", "none"}
    BY <2>1 DEF InputItem
  <2>. QED BY <2>1, <2>2
<1>2. ASSUME NEW i \in DOMAIN items, items[i].type = "function_call_output"
      PROVE  LET calls == ResponsesCalls(items, items[i].id)
                 outputs == {j \in DOMAIN items :
                               /\ items[j].type = "function_call_output"
                               /\ items[j].id = items[i].id}
             IN  /\ \E j \in calls : j < i
                 /\ Cardinality(calls) = Cardinality(outputs)
                 /\ items[i].id[1] = "call" => Cardinality(calls) = 1
  <2> DEFINE id == items[i].id
             calls == ResponsesCalls(items, id)
             outputs == {j \in DOMAIN items : /\ items[j].type = "function_call_output"
                                              /\ items[j].id = id}
  <2>1. calls = Places(CallItem(id), items)
    BY <1>1 DEF ResponsesCalls, Places, CallItem
  <2>2. outputs = Places(OutItem(id), items)
    BY <1>1 DEF Places, OutItem
  <2>3. PICK j \in 1..(i - 1) : items[j] \in CallItem(id)
    BY <1>2, CallsComeFirst
  <2>4. id \in Id
    BY <1>1 DEF InputItem
  <2>. HIDE DEF id, calls, outputs
  <2>5. Cardinality(calls) = Count(CallItem(id), items) /\ Count(CallItem(id), items) \in Nat
    BY <2>1, CountIsCardinality, CountHas
  <2>6. Cardinality(outputs) = Count(OutItem(id), items)
    BY <2>2, CountIsCardinality
  <2>7. Count(Calling(id), r) = Count(CallItem(id), items)
        /\ Count(Answering(id), r) = Count(OutItem(id), items)
    BY ItemsCount
  <2>. HIDE DEF r
  <2>8. Matched(r, k)
    BY DEF r
  <2>9. Count(Calling(id), r) = Count(Answering(id), r)
    BY <2>8 DEF Matched
  <2>10. j \in calls /\ j < i
    <3>1. j \in DOMAIN items /\ j < i
      BY <2>3
    <3>. QED BY <2>1, <2>3, <3>1 DEF Places
  <2>11. ASSUME id[1] = "call"
         PROVE  Cardinality(calls) = 1
    <3>1. PICK n \in Nat : id = CallId(n)
      <4>1. id \in {"none", "call", "toolu"} \X Nat
        BY <2>4 DEF Id
      <4>2. id = <<id[1], id[2]>> /\ id[2] \in Nat
        BY <4>1
      <4>. QED BY <2>11, <4>2 DEF CallId
    <3>2. Count(Calling(id), r) <= (IF n < k THEN 1 ELSE 0)
      BY <2>8, <3>1 DEF Matched
    <3>3. Has(CallItem(id), items)
      <4>1. j \in DOMAIN items
        BY <2>3
      <4>. QED BY <2>3, <4>1 DEF Has
    <3>4. Count(CallItem(id), items) # 0
      BY <3>3, CountHas
    <3>. QED BY <2>5, <2>7, <3>2, <3>4
  <2>. QED BY <2>5, <2>6, <2>7, <2>9, <2>10, <2>11 DEF id, calls, outputs
<1>. QED BY <1>1, <1>2 DEF AcceptedByResponses

-----------------------------------------------------------------------------
(* The Messages API: no thinking that it would refuse.                     *)

RefusedThinking == {b \in ContentBlock : b.type = "thinking" /\ ~ValidThinking(b)}

LEMMA BlockIsClean ==
  ASSUME NEW b \in ReplyBlock
  PROVE  ~Has(RefusedThinking, SanitizeEach[b])
<1>1. SanitizeEach[b] = SanitizeBlock(b)
  BY SanitizeEachTyped
<1>2. CASE b.type # "thinking" \/ ValidThinking(b)
  <2>1. b \notin RefusedThinking
    BY <1>2 DEF RefusedThinking
  <2>. QED BY <1>1, <1>2, <2>1 DEF SanitizeBlock, Has
<1>3. CASE ~(b.type # "thinking" \/ ValidThinking(b)) /\ b.text = <<>>
  BY <1>1, <1>3 DEF SanitizeBlock, Has
<1>4. CASE ~(b.type # "thinking" \/ ValidThinking(b)) /\ b.text # <<>>
  <2>1. TextBlock(b.text) \notin RefusedThinking
    BY DEF RefusedThinking, TextBlock, Block
  <2>. QED BY <1>1, <1>4, <2>1 DEF SanitizeBlock, Has
<1>. QED BY <1>2, <1>3, <1>4

LEMMA MessageIsClean ==
  ASSUME NEW m \in FitMessage
  PROVE  ~Has(RefusedThinking, SanitizeMessage(m).blocks)
<1>1. CASE m.plain
  <2>1. /\ SanitizeMessage(m) = m /\ m.blocks[1].type = "text" /\ Len(m.blocks) = 1
        /\ m.blocks \in Seq(ContentBlock)
    BY <1>1, CleanTyped, FitParts
  <2>2. DOMAIN m.blocks = {1}
    BY <2>1
  <2>. QED BY <2>1, <2>2 DEF RefusedThinking, Has
<1>2. CASE ~m.plain /\ m.role # "assistant"
  <2>1. SanitizeMessage(m) = m /\ m.blocks \in Seq(ClientBlock)
    BY <1>2, CleanTyped, FitParts DEF BlocksOf
  <2>. QED BY <2>1 DEF ClientBlock, RefusedThinking, Has
<1>3. CASE ~m.plain /\ m.role = "assistant"
  <2>1. SanitizeMessage(m).blocks = Mapped(SanitizeEach, m.blocks)
        /\ m.blocks \in Seq(ReplyBlock)
    BY <1>3, CleanTyped, FitParts DEF BlocksOf
  <2>2. \A i \in 1..Len(m.blocks) : m.blocks[i] \in ReplyBlock
    BY <2>1
  <2>3. \A i \in 1..Len(m.blocks) : ~Has(RefusedThinking, SanitizeEach[m.blocks[i]])
    BY <2>2, BlockIsClean
  <2>4. Has(RefusedThinking, Mapped(SanitizeEach, m.blocks))
          <=> \E i \in 1..Len(m.blocks) : Has(RefusedThinking, SanitizeEach[m.blocks[i]])
    BY <2>1, SanitizeEachTyped, MappedHas
  <2>. QED BY <2>1, <2>3, <2>4
<1>4. m.plain \in BOOLEAN
  BY FitParts
<1>. QED BY <1>1, <1>2, <1>3, <1>4

LEMMA AnthropicAccepts ==
  ASSUME NEW h \in Seq(FitMessage)
  PROVE  AcceptedByAnthropic(Sanitize(h))
<1>1. DOMAIN Sanitize(h) = DOMAIN h
  BY DEF Sanitize
<1>2. ASSUME NEW i \in DOMAIN h, NEW j \in DOMAIN Sanitize(h)[i].blocks,
             Sanitize(h)[i].blocks[j].type = "thinking"
      PROVE  ValidThinking(Sanitize(h)[i].blocks[j])
  <2> DEFINE m == SanitizeMessage(h[i])
  <2>1. h[i] \in FitMessage /\ Sanitize(h)[i] = m
    BY DEF Sanitize
  <2>2. m \in FitMessage /\ ~Has(RefusedThinking, m.blocks)
    BY <2>1, CleanTyped, MessageIsClean
  <2>. HIDE DEF m
  <2>3. m.blocks \in Seq(ContentBlock)
    BY <2>2, FitParts
  <2>4. j \in DOMAIN m.blocks /\ m.blocks[j] \in ContentBlock /\ m.blocks[j].type = "thinking"
    BY <1>2, <2>1, <2>3
  <2>5. m.blocks[j] \notin RefusedThinking
    BY <2>2, <2>4 DEF Has
  <2>. QED BY <2>1, <2>4, <2>5 DEF RefusedThinking
<1>. QED BY <1>1, <1>2 DEF AcceptedByAnthropic

-----------------------------------------------------------------------------
(* What is asked, and behind it what the rounds before have answered.      *)

Requested ==
  ShapeBody(ask.compaction /\ ask.to \in Triggers, Convert(ask.to, Sanitize(history)))

BodyInv ==
  pc = "asked" =>
    /\ ask.base = Len(Requested)
    /\ \/ body.items = Requested
       \/ Driven /\ \E s \in Text : body.items = Append(Requested, MessageItem("assistant", s))

\* Only a Responses request is continued, and never with a trigger behind it.
LEMMA DrivenAsking ==
  ASSUME Driven
  PROVE  Api[ask.to] = "responses" /\ Requested = ToResponses(Sanitize(history))
<1>1. ask.to \in Continues /\ ~(ask.compaction /\ ask.to \in Triggers)
  BY DEF Driven
<1>2. Api[ask.to] = "responses"
  BY <1>1, ConversationAssumption
<1>. QED BY <1>1, <1>2 DEF Requested, ShapeBody, Convert

LEMMA StartOfPut ==
  ASSUME NEW D, NEW s \in Seq(D), NEW x \in D
  PROVE  SubSeq(s, 1, Len(s)) = s /\ SubSeq(Append(s, x), 1, Len(s)) = s
<1>1. /\ Append(s, x) # <<>> /\ Front(Append(s, x)) = s
      /\ Len(Append(s, x)) = Len(s) + 1 /\ Len(s) \in Nat
  BY FrontOfPut
<1>2. Front(Append(s, x)) = SubSeq(Append(s, x), 1, Len(Append(s, x)) - 1)
  BY DEF Front
<1>3. Len(Append(s, x)) - 1 = Len(s)
  BY <1>1
<1>4. SubSeq(s, 1, Len(s)) = s
  BY SubSeqFull
<1>. QED BY <1>1, <1>2, <1>3, <1>4

LEMMA BodyInitially == Init => BodyInv
BY DEF Init, BodyInv

LEMMA BodyAsk ==
  ASSUME TypeOK, NEW b \in Backends, NEW reminder \in {<<>>, <<"reminder">>},
         NEW streaming, Ask(b, streaming, reminder)
  PROVE  BodyInv'
<1>1. /\ history' = history
      /\ ask' = [to |-> b, streaming |-> streaming,
                 compaction |-> IsCompaction(Sanitize(history)), base |-> Len(body'.items)]
      /\ body' = Prepare(b, reminder, IsCompaction(Sanitize(history)))
  BY AskMeans
<1>2. ask'.to = b /\ ask'.compaction = IsCompaction(Sanitize(history)) /\ ask'.base = Len(body'.items)
  BY <1>1
<1>3. Requested' = ShapeBody(IsCompaction(Sanitize(history)) /\ b \in Triggers,
                          Convert(b, Sanitize(history)))
  BY <1>1, <1>2 DEF Requested
<1>4. body'.items = Requested'
  BY <1>1, <1>3 DEF Prepare
<1>. QED BY <1>2, <1>4 DEF BodyInv

LEMMA BodyContinue ==
  ASSUME TypeOK, TellInv, BodyInv, NEW reply \in Replies, Continue(reply)
  PROVE  BodyInv'
<1> DEFINE items == Written(reply)
           after == text \o Said(items, "message")
<1>1. /\ pc = "asked" /\ UNCHANGED <<history, ask>> /\ Driven
      /\ body' = [body EXCEPT !.items = SetAssistantPrefill(body.items, ask.base, after)]
  BY DEF Continue, ShouldContinue
<1>2. after \in Text
  <2>1. items \in Seq(ReplyItem) /\ text \in Text
    BY WrittenTyped DEF TypeOK
  <2>2. Said(items, "message") \in Text
    BY <2>1, SaidTyped
  <2>. QED BY <2>1, <2>2, ConcatProperties DEF Text
<1>. HIDE DEF after
<1>3. Trim(after) \in Text
  BY <1>2, TrimKeepsWords
<1>4. Requested' = Requested /\ Driven'
  BY <1>1 DEF Requested, Driven
<1>5. body'.items = SetAssistantPrefill(body.items, ask.base, after)
  BY <1>1 DEF TypeOK, Sent
<1>6. Requested \in Seq(InputItem)
  <2>1. PICK base \in Seq(SaidEvent) : Asked(history, base)
    BY <1>1 DEF TellInv, InTurn
  <2>2. Sanitize(history) \in Seq(FitMessage)
    BY <2>1, AskedMeans, SanitizeIsImage
  <2>. QED BY <1>1, <2>2, DrivenAsking, ConvertedMapped
<1>7. /\ ask.base = Len(Requested)
      /\ \/ body.items = Requested
         \/ \E s \in Text : body.items = Append(Requested, MessageItem("assistant", s))
  BY <1>1 DEF BodyInv
<1>8. SubSeq(body.items, 1, ask.base) = Requested
  <2>1. CASE body.items = Requested
    <3>1. SubSeq(Requested, 1, Len(Requested)) = Requested
      BY <1>6, SubSeqFull
    <3>. QED BY <1>7, <2>1, <3>1
  <2>2. ASSUME NEW s \in Text, body.items = Append(Requested, MessageItem("assistant", s))
        PROVE  SubSeq(body.items, 1, ask.base) = Requested
    <3>1. MessageItem("assistant", s) \in InputItem
      BY MessageItemTyped DEF ItemRole
    <3>. QED BY <1>6, <1>7, <2>2, <3>1, StartOfPut
  <2>. QED BY <1>7, <2>1, <2>2
<1>9. \/ body'.items = Requested
      \/ \E s \in Text : body'.items = Append(Requested, MessageItem("assistant", s))
  <2>1. CASE Trim(after) = <<>>
    BY <1>5, <1>7, <2>1 DEF SetAssistantPrefill
  <2>2. CASE Trim(after) # <<>>
    <3>1. body'.items = Append(Requested, MessageItem("assistant", Trim(after)))
      BY <1>5, <1>8, <2>2 DEF SetAssistantPrefill
    <3>. QED BY <1>3, <3>1
  <2>. QED BY <2>1, <2>2
<1>. QED BY <1>1, <1>4, <1>7, <1>9 DEF BodyInv

\* Every other step is the client's, or ends the request.
LEMMA BodyOtherwise ==
  ASSUME BodyInv,
         \/ pc' # "asked"
         \/ UNCHANGED vars
  PROVE  BodyInv'
<1>1. CASE pc' # "asked"
  BY <1>1 DEF BodyInv
<1>2. CASE UNCHANGED vars
  <2>1. UNCHANGED <<history, pc, ask, body>>
    BY <1>2 DEF vars, requestVars
  <2>2. Requested' = Requested /\ Driven' = Driven
    BY <2>1 DEF Requested, Driven
  <2>. QED BY <2>1, <2>2 DEF BodyInv
<1>. QED BY <1>1, <1>2

LEMMA RequestEnds ==
  ASSUME TypeOK, NEW reply \in Replies, Reply(reply) \/ Break(reply)
  PROVE  pc' # "asked"
<1>1. \E reason \in StopReason, status \in Status :
        CloseWith(Written(reply), blocks \o Rendered(Written(reply)), reason, status,
                  Calls(Written(reply)) = <<>> /\ IsDone(text \o Said(Written(reply), "message")))
  BY EndsClose
<1>. QED BY <1>1 DEF CloseWith

-----------------------------------------------------------------------------
\* Every step keeps the conversation in order, and a request what it is for.
THEOREM OrderInvariance == Spec => [](PrefixInv /\ EndInv /\ TellInv /\ OrderInv /\ BodyInv)
<1>1. ASSUME PrefixInv, EndInv, TellInv, OrderInv, BodyInv, Next
      PROVE  OrderInv' /\ BodyInv'
  <2>1. TypeOK
    BY <1>1 DEF PrefixInv
  <2>2. CASE \E how \in Utterances : Talk(how)
    <3>1. pc' # "asked"
      BY <2>2 DEF Talk
    <3>. QED BY <1>1, <2>1, <2>2, <3>1, OrderTalk, BodyOtherwise
  <2>3. CASE \E place \in ResultPlaces : ToolsAnswer(place)
    <3>1. pc' = "ready"
      BY <2>3, Zenon DEF ToolsAnswer
    <3>. QED BY <1>1, <2>1, <2>3, <3>1, OrderTools, BodyOtherwise
  <2>4. CASE Compact
    <3>1. pc' # "asked"
      BY <2>4 DEF Compact
    <3>. QED BY <1>1, <2>1, <2>4, <3>1, OrderCompact, BodyOtherwise
  <2>5. CASE \E b \in Backends, reminder \in {<<>>, <<"reminder">>} :
               \E streaming \in StreamingOf(b) : Ask(b, streaming, reminder)
    BY <1>1, <2>1, <2>5, OrderAsk, BodyAsk
  <2>6. ASSUME NEW reply \in Replies, Reply(reply) \/ Break(reply)
        PROVE  OrderInv' /\ BodyInv'
    <3>1. pc' # "asked"
      BY <2>1, <2>6, RequestEnds
    <3>. QED BY <1>1, <2>6, <3>1, OrderEnds, BodyOtherwise
  <2>7. ASSUME NEW reply \in Replies, Continue(reply)
        PROVE  OrderInv' /\ BodyInv'
    BY <1>1, <2>1, <2>7, OrderContinue, BodyContinue
  <2>8. CASE Refuse
    <3>1. pc' # "asked"
      BY <2>8 DEF Refuse, Lost
    <3>. QED BY <1>1, <2>8, <3>1, OrderRefuse, BodyOtherwise
  <2>. QED BY <1>1, <2>2, <2>3, <2>4, <2>5, <2>6, <2>7, <2>8 DEF Next
<1>2. ASSUME PrefixInv, EndInv, TellInv, OrderInv, BodyInv, [Next]_vars
      PROVE  OrderInv' /\ BodyInv'
  BY <1>1, <1>2, OrderUnchanged, BodyOtherwise
<1>. QED BY <1>2, OrderInitially, BodyInitially, TellInvariance, PTL DEF Spec

\* What stands behind what is asked is no exchange, and what a request to the
\* Responses API exchanges is what the conversation does.
LEMMA AskingExchanges ==
  ASSUME NEW h \in Seq(FitMessage), NEW s \in Text
  PROVE  LET asking == ToResponses(Sanitize(h))
             answer == MessageItem("assistant", s)
             trigger == Item("trigger", "none", <<>>, NoId)
             Exchanges(items) == Selected(Exchange, Mapped(ReadI, items))
         IN  /\ asking \in Seq(Ordinary) /\ asking \in Seq(InputItem)
             /\ answer \in Ordinary /\ answer \in InputItem /\ trigger \in InputItem
             /\ Exchanges(asking) = Exchanged(h)
             /\ Exchanges(Append(asking, answer)) = Exchanged(h)
             /\ Exchanges(Append(asking, trigger)) = Exchanged(h)
<1> DEFINE asking == ToResponses(Sanitize(h))
           answer == MessageItem("assistant", s)
           trigger == Item("trigger", "none", <<>>, NoId)
           heard == Mapped(ReadI, asking)
<1>1. Sanitize(h) \in Seq(FitMessage) /\ asking \in Seq(Ordinary) /\ asking \in Seq(InputItem)
  BY SanitizeIsImage, OrdinaryRequest, ConvertedMapped
<1>2. answer \in Ordinary /\ answer \in InputItem /\ answer.type = "message" /\ answer.role = "assistant"
  <2>1. "assistant" \in ItemRole /\ NoId \in Id
    BY NoIdTyped DEF ItemRole
  <2>2. answer \in Ordinary /\ answer \in InputItem
    BY <2>1, OrdinaryItems, MessageItemTyped
  <2>3. answer.type = "message" /\ answer.role = "assistant"
    BY DEF MessageItem, Item
  <2>. QED BY <2>2, <2>3
<1>3. trigger \in InputItem /\ trigger.type = "trigger"
  <2>1. <<>> \in Text
    BY EmptySeq DEF Text
  <2>. QED BY <2>1, NoIdTyped, ItemTyped DEF Item, ItemRole
<1>4. heard = Read("responses", asking)
  BY <1>1, ReadMapped
<1>5. Track(Exchange, Read("responses", asking)) = Track(Exchange, Told(h))
      /\ Told(h) \in Seq(Utterance) /\ Read("responses", asking) \in Seq(Utterance)
  BY <1>1, ConversationReads DEF Told
<1>. HIDE DEF asking, heard
<1>6. Selected(Exchange, heard) = Exchanged(h) /\ heard \in Seq(Utterance)
  BY <1>4, <1>5, TrackExchange DEF Exchanged
<1>7. MapLaws(InputItem, Utterance, ReadI) /\ SelectLaws(Utterance, Exchange)
  BY ReadITyped, MappedLaws, SelectedLaws
<1>8. ASSUME NEW x \in InputItem, Selected(Exchange, ReadI[x]) = <<>>
      PROVE  Selected(Exchange, Mapped(ReadI, Append(asking, x))) = Exchanged(h)
  <2>1. Mapped(ReadI, Append(asking, x)) = heard \o ReadI[x]
    BY <1>1, <1>7 DEF MapLaws, heard
  <2>2. ReadI[x] \in Seq(Utterance)
    BY ReadITyped DEF Maps
  <2>3. Selected(Exchange, heard \o ReadI[x]) = Selected(Exchange, heard) \o <<>>
    BY <1>6, <1>7, <1>8, <2>2 DEF SelectLaws
  <2>4. Exchanged(h) \in Seq(Utterance)
    BY <1>6, <1>7 DEF SelectLaws
  <2>. QED BY <1>6, <2>1, <2>3, <2>4, ConcatEmptySeq
<1>9. Selected(Exchange, ReadI[answer]) = <<>>
  <2> DEFINE u == Utter("model", "words", answer.text, NoId)
  <2>1. ReadI[answer] = <<u>>
    BY <1>2, ReadITyped DEF ReadResponses, SideOf
  <2>2. u \notin Exchange
    BY DEF Exchange, Utter
  <2>3. ReadI[answer] \in Seq(Utterance)
    BY <1>2, ReadITyped DEF Maps
  <2>. HIDE DEF u
  <2>4. u \in Utterance
    <3>1. <<u>> \in Seq(Utterance)
      BY <2>1, <2>3
    <3>. QED BY <3>1
  <2>. QED BY <1>7, <2>1, <2>2, <2>4 DEF SelectLaws
<1>10. Selected(Exchange, ReadI[trigger]) = <<>>
  <2>1. ReadI[trigger] = <<>>
    BY <1>3, ReadITyped DEF ReadResponses
  <2>. QED BY <1>7, <2>1 DEF SelectLaws
<1>. HIDE DEF answer, trigger
<1>11. /\ Selected(Exchange, Mapped(ReadI, Append(asking, answer))) = Exchanged(h)
       /\ Selected(Exchange, Mapped(ReadI, Append(asking, trigger))) = Exchanged(h)
  BY <1>2, <1>3, <1>8, <1>9, <1>10
<1>. QED BY <1>1, <1>2, <1>3, <1>6, <1>11 DEF asking, answer, trigger, heard

\* A trigger is behind everything else.
LEMMA TriggerIsLast ==
  ASSUME NEW asking \in Seq(Ordinary), NEW x \in InputItem
  PROVE  /\ \A i \in DOMAIN asking : asking[i].type = "trigger" => i = Len(asking)
         /\ \A i \in DOMAIN Append(asking, x) :
              Append(asking, x)[i].type = "trigger" => i = Len(Append(asking, x))
<1>1. \A i \in 1..Len(asking) : asking[i] \in Ordinary
  OBVIOUS
<1>2. \A i \in 1..Len(asking) : asking[i].type # "trigger"
  BY <1>1 DEF Ordinary
<1>3. /\ Len(Append(asking, x)) = Len(asking) + 1 /\ Len(asking) \in Nat
      /\ DOMAIN asking = 1..Len(asking) /\ DOMAIN Append(asking, x) = 1..(Len(asking) + 1)
      /\ \A i \in 1..Len(asking) : Append(asking, x)[i] = asking[i]
  OBVIOUS
<1>. QED BY <1>2, <1>3

\* Whatever backends have answered before and however they delivered their
\* replies, the next request keeps the rules of the API it is for: each result
\* has its call in the place the API wants it, no role and no thinking is one
\* that it refuses, and a compaction trigger stays last.
THEOREM RequestsAccepted == Spec => []RequestsAreAccepted
<1>1. ASSUME PrefixInv, TellInv, OrderInv, BodyInv
      PROVE  RequestsAreAccepted
  <2>. SUFFICES ASSUME pc = "asked"
                PROVE  CASE Api[ask.to] = "responses" -> AcceptedByResponses(body.items)
                         [] Api[ask.to] = "chat" -> AcceptedByChat(body.items)
                         [] OTHER -> AcceptedByAnthropic(body.items)
    BY DEF RequestsAreAccepted
  <2>1. history \in Seq(FitMessage)
    <3>1. PICK base \in Seq(SaidEvent) : Asked(history, base)
      BY <1>1 DEF TellInv, InTurn
    <3>. QED BY <3>1, AskedMeans
  <2>2. Matched(Exchanged(history), fresh) /\ AcceptedByChat(ToChat(Sanitize(history)))
    BY <1>1 DEF OrderInv, Waiting, Closed, ChatOf
  <2>3. fresh \in Nat
    BY <1>1 DEF PrefixInv, TypeOK
  <2>4. \/ body.items = Requested
        \/ Driven /\ \E s \in Text : body.items = Append(Requested, MessageItem("assistant", s))
    BY <1>1 DEF BodyInv
  <2>5. CASE Api[ask.to] = "responses"
    <3> DEFINE asking == ToResponses(Sanitize(history))
               trigger == Item("trigger", "none", <<>>, NoId)
    <3>1. Requested = IF ask.compaction /\ ask.to \in Triggers THEN Append(asking, trigger) ELSE asking
      BY <2>5 DEF Requested, Convert, ShapeBody
    <3>2. PICK s \in Text : \/ body.items = asking
                            \/ body.items = Append(asking, trigger)
                            \/ body.items = Append(asking, MessageItem("assistant", s))
      <4>1. CASE body.items = Requested
        <5>1. <<>> \in Text
          BY EmptySeq DEF Text
        <5>. QED BY <3>1, <4>1, <5>1
      <4>2. CASE Driven /\ \E s \in Text : body.items = Append(Requested, MessageItem("assistant", s))
        BY <4>2, DrivenAsking
      <4>. QED BY <2>4, <4>1, <4>2
    <3> DEFINE answer == MessageItem("assistant", s)
    <3>3. /\ asking \in Seq(Ordinary) /\ asking \in Seq(InputItem)
          /\ answer \in InputItem /\ trigger \in InputItem
          /\ Selected(Exchange, Mapped(ReadI, asking)) = Exchanged(history)
          /\ Selected(Exchange, Mapped(ReadI, Append(asking, answer))) = Exchanged(history)
          /\ Selected(Exchange, Mapped(ReadI, Append(asking, trigger))) = Exchanged(history)
      BY <2>1, AskingExchanges
    <3>4. body.items \in {asking, Append(asking, answer), Append(asking, trigger)}
      BY <3>2
    <3>. HIDE DEF asking, answer, trigger
    <3>5. /\ body.items \in Seq(InputItem)
          /\ Selected(Exchange, Mapped(ReadI, body.items)) = Exchanged(history)
      <4>1. Append(asking, answer) \in Seq(InputItem) /\ Append(asking, trigger) \in Seq(InputItem)
        BY <3>3, AppendProperties
      <4>2. CASE body.items = asking
        BY <3>3, <4>2
      <4>3. CASE body.items = Append(asking, answer)
        BY <3>3, <4>1, <4>3
      <4>4. CASE body.items = Append(asking, trigger)
        BY <3>3, <4>1, <4>4
      <4>. QED BY <3>4, <4>2, <4>3, <4>4
    <3>6. \A i \in DOMAIN body.items : body.items[i].type = "trigger" => i = Len(body.items)
      BY <3>3, <3>4, TriggerIsLast
    <3>7. Matched(Selected(Exchange, Mapped(ReadI, body.items)), fresh)
      BY <2>2, <3>5
    <3>8. AcceptedByResponses(body.items)
      BY <2>3, <3>5, <3>6, <3>7, ResponsesAccepts
    <3>. QED BY <2>5, <3>8
  <2>6. CASE Api[ask.to] # "responses"
    <3>1. body.items = Requested
      BY <2>4, <2>6, DrivenAsking
    <3>2. ask.to \notin Triggers
      BY <2>6, ConversationAssumption
    <3>3. Requested = Convert(ask.to, Sanitize(history))
      BY <3>2 DEF Requested, ShapeBody
    <3>4. CASE Api[ask.to] = "chat"
      <4>1. body.items = ToChat(Sanitize(history))
        BY <2>6, <3>1, <3>3, <3>4 DEF Convert
      <4>. QED BY <2>2, <3>4, <4>1
    <3>5. CASE Api[ask.to] # "chat"
      <4>1. body.items = Sanitize(history)
        BY <2>6, <3>1, <3>3, <3>5 DEF Convert
      <4>. QED BY <2>1, <2>6, <3>5, <4>1, AnthropicAccepts
    <3>. QED BY <3>4, <3>5
  <2>. QED BY <2>5, <2>6
<1>. QED BY <1>1, OrderInvariance, PTL

=============================================================================
