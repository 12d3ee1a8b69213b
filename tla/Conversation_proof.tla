------------------------- MODULE Conversation_proof -------------------------
(***************************************************************************)
(* Proofs about Conversation, for every set of backends and of replies,    *)
(* however long a reply is and however many rounds and requests there are: *)
(* types, what requests share with those before, how a turn's end is       *)
(* understood, and what each API's request reads as. Telling_proof goes on *)
(* from there.                                                             *)
(***************************************************************************)
EXTENDS Conversation, SequenceTheorems, WellFoundedInduction, TLAPS, FiniteSetTheorems

-----------------------------------------------------------------------------
(* Induction. The library's induction rules take a predicate; that the     *)
(* naturals are well founded is a fact about sets, and so is what follows. *)

Less == {p \in Nat \X Nat : p[1] < p[2]}

LEMMA LessIsWellFounded == IsWellFoundedOn(Less, Nat)
<1>1. OpToRel(<, Nat) = Less
  BY DEF OpToRel, Less
<1>. QED BY <1>1, NatLessThanWellFounded

LEMMA SetOfNaturalsHasMin ==
  ASSUME NEW I \in SUBSET Nat, I # {}
  PROVE  Min(I) \in I /\ \A i \in I : Min(I) <= i
<1>1. PICK x \in I : \A y \in I : ~(<<y, x>> \in Less)
  BY WFMin, LessIsWellFounded
<1>2. ASSUME NEW y \in I, ~(x <= y)
      PROVE  FALSE
  <2>1. <<y, x>> \in Nat \X Nat /\ y < x
    BY <1>2
  <2>2. <<y, x>> \in Less
    BY <2>1 DEF Less
  <2>. QED BY <1>1, <2>2
<1>. QED BY <1>1, <1>2 DEF Min

\* What holds of 0, and of every natural behind one it holds of, holds of all.
LEMMA NaturalInduction ==
  ASSUME NEW S, 0 \in S, \A n \in Nat : n \in S => n + 1 \in S
  PROVE  Nat \subseteq S
<1> SUFFICES ASSUME Nat \ S # {} PROVE FALSE
  OBVIOUS
<1> DEFINE x == Min(Nat \ S)
<1>1. x \in Nat \ S /\ \A y \in Nat \ S : x <= y
  BY SetOfNaturalsHasMin
<1> HIDE DEF x
<1>2. x # 0 /\ x - 1 \in Nat /\ ~(x <= x - 1)
  BY <1>1
<1>3. x - 1 \in S
  BY <1>1, <1>2
<1>4. (x - 1) + 1 \in S /\ (x - 1) + 1 = x
  BY <1>1, <1>2, <1>3
<1>. QED BY <1>1, <1>4

-----------------------------------------------------------------------------
(* FlattenSeq, whose recursive function is the limit of its beginnings.    *)

Beginning(seqs, n, f) ==
  f = [i \in 1..n |-> IF i = 1 THEN seqs[i] ELSE f[i - 1] \o seqs[i]]

LEMMA BeginningsExist ==
  ASSUME NEW seqs
  PROVE  \A n \in Nat : \E f : Beginning(seqs, n, f)
<1> DEFINE S == {n \in Nat : \E f : Beginning(seqs, n, f)}
<1>1. 0 \in S
  <2>1. Beginning(seqs, 0, <<>>)
    BY DEF Beginning
  <2>. QED BY <2>1
<1>2. ASSUME NEW n \in Nat, n \in S
      PROVE  n + 1 \in S
  <2>1. PICK f : Beginning(seqs, n, f)
    BY <1>2
  <2> DEFINE last == IF n + 1 = 1 THEN seqs[n + 1] ELSE f[n] \o seqs[n + 1]
             g == [i \in 1..n + 1 |-> IF i = n + 1 THEN last ELSE f[i]]
  <2>2. \A i \in 1..n : f[i] = IF i = 1 THEN seqs[i] ELSE f[i - 1] \o seqs[i]
    BY <2>1 DEF Beginning
  <2>3. \A i \in 1..n + 1 : g[i] = IF i = 1 THEN seqs[i] ELSE g[i - 1] \o seqs[i]
    BY <2>2
  <2>4. Beginning(seqs, n + 1, g)
    BY <2>3 DEF Beginning
  <2>. QED BY <2>4
<1> HIDE DEF S
<1>3. Nat \subseteq S
  BY <1>1, <1>2, NaturalInduction
<1>. QED BY <1>3 DEF S

LEMMA FlattenSeqIsBeginning ==
  ASSUME NEW seqs, Len(seqs) \in Nat \ {0}
  PROVE  \E f : Beginning(seqs, Len(seqs), f) /\ FlattenSeq(seqs) = f[Len(seqs)]
<1> DEFINE f == CHOOSE g : Beginning(seqs, Len(seqs), g)
<1>1. Beginning(seqs, Len(seqs), f)
  BY BeginningsExist
<1>2. FlattenSeq(seqs) = f[Len(seqs)]
  BY DEF FlattenSeq, Beginning
<1>. QED BY <1>1, <1>2

\* Two sequences, or two functions, agree on their first n places.
AgreeUpTo(n, f, g) == \A i \in 1..n : f[i] = g[i]

\* The beginnings of two sequences agree as far as the sequences do.
LEMMA BeginningsAgree ==
  ASSUME NEW n \in Nat, NEW k \in Nat, n <= k,
         NEW seqs, NEW more, AgreeUpTo(n, more, seqs),
         NEW f, NEW g, Beginning(seqs, n, f), Beginning(more, k, g)
  PROVE  AgreeUpTo(n, f, g)
<1> DEFINE T == {i \in Nat : i \in 1..n => f[i] = g[i]}
<1>1. \A i \in 1..n : /\ f[i] = IF i = 1 THEN seqs[i] ELSE f[i - 1] \o seqs[i]
                      /\ g[i] = IF i = 1 THEN seqs[i] ELSE g[i - 1] \o seqs[i]
  <2>1. \A i \in 1..n : i \in 1..k
    OBVIOUS
  <2>. QED BY <2>1 DEF Beginning, AgreeUpTo
<1>2. 0 \in T
  OBVIOUS
<1>3. ASSUME NEW i \in Nat, i \in T
      PROVE  i + 1 \in T
  <2> SUFFICES ASSUME i + 1 \in 1..n PROVE f[i + 1] = g[i + 1]
    OBVIOUS
  <2>1. CASE i = 0
    BY <1>1, <2>1
  <2>2. CASE i # 0
    <3>1. i \in 1..n /\ i + 1 # 1 /\ (i + 1) - 1 = i
      BY <2>2
    <3>2. f[i] = g[i]
      BY <1>3, <3>1
    <3>. QED BY <1>1, <3>1, <3>2
  <2>. QED BY <2>1, <2>2
<1> HIDE DEF T
<1>4. Nat \subseteq T
  BY <1>2, <1>3, NaturalInduction
<1>. QED BY <1>4 DEF T, AgreeUpTo

LEMMA FlattenSeqOfNothing == FlattenSeq(<<>>) = <<>>
BY DEF FlattenSeq

LEMMA FlattenSeqOfAppend ==
  ASSUME NEW S, NEW seqs \in Seq(Seq(S)), NEW s \in Seq(S)
  PROVE  FlattenSeq(Append(seqs, s)) = FlattenSeq(seqs) \o s
<1> DEFINE n == Len(seqs)
           more == Append(seqs, s)
<1>1. /\ n \in Nat /\ Len(more) = n + 1 /\ Len(more) \in Nat \ {0}
      /\ more[n + 1] = s /\ \A i \in 1..n : more[i] = seqs[i]
  BY AppendProperties
<1> HIDE DEF n, more
<1>2. PICK g : Beginning(more, n + 1, g) /\ FlattenSeq(more) = g[n + 1]
  BY <1>1, FlattenSeqIsBeginning
<1>3. g[n + 1] = IF n + 1 = 1 THEN more[n + 1] ELSE g[(n + 1) - 1] \o more[n + 1]
  <2>1. n + 1 \in 1..n + 1
    BY <1>1
  <2>. QED BY <1>2, <2>1 DEF Beginning
<1>4. CASE n = 0
  <2>1. seqs = <<>> /\ <<>> \o s = s
    BY <1>4, ConcatEmptySeq DEF n
  <2>. QED BY <1>1, <1>2, <1>3, <1>4, <2>1, FlattenSeqOfNothing DEF more
<1>5. CASE n # 0
  <2>1. PICK f : Beginning(seqs, n, f) /\ FlattenSeq(seqs) = f[n]
    <3>1. Len(seqs) \in Nat \ {0}
      BY <1>1, <1>5 DEF n
    <3>. QED BY <3>1, FlattenSeqIsBeginning DEF n
  <2>2. f[n] = g[n]
    <3> DEFINE k == n + 1
    <3>1. n \in Nat /\ k \in Nat /\ n <= k /\ n \in 1..n
      BY <1>1, <1>5
    <3>2. AgreeUpTo(n, more, seqs)
      BY <1>1 DEF AgreeUpTo
    <3>3. Beginning(seqs, n, f) /\ Beginning(more, k, g)
      BY <1>2, <2>1
    <3> HIDE DEF k
    <3>4. AgreeUpTo(n, f, g)
      BY <3>1, <3>2, <3>3, BeginningsAgree
    <3>. QED BY <3>1, <3>4 DEF AgreeUpTo
  <2>3. n + 1 # 1 /\ (n + 1) - 1 = n
    BY <1>1, <1>5
  <2>. QED BY <1>1, <1>2, <1>3, <2>1, <2>2, <2>3 DEF more
<1>. QED BY <1>4, <1>5

\* What holds of the empty sequence, and of every sequence with one element more
\* than one it holds of, holds of all.
LEMMA SequenceInduction ==
  ASSUME NEW S, NEW T, <<>> \in T,
         \A s \in Seq(S), x \in S : s \in T => Append(s, x) \in T
  PROVE  Seq(S) \subseteq T
<1> DEFINE N == {n \in Nat : \A s \in Seq(S) : Len(s) = n => s \in T}
<1>1. 0 \in N
  <2>1. \A s \in Seq(S) : Len(s) = 0 => s = <<>>
    OBVIOUS
  <2>. QED BY <2>1
<1>2. ASSUME NEW n \in Nat, n \in N
      PROVE  n + 1 \in N
  <2> SUFFICES ASSUME NEW s \in Seq(S), Len(s) = n + 1
               PROVE  s \in T
    OBVIOUS
  <2>1. s # <<>>
    OBVIOUS
  <2>2. PICK t \in Seq(S), x \in S : s = Append(t, x)
    BY <2>1, SequenceEmptyOrAppend
  <2>3. Len(t) = n
    BY <2>2, AppendProperties
  <2>. QED BY <1>2, <2>2, <2>3
<1> HIDE DEF N
<1>3. Nat \subseteq N
  BY <1>1, <1>2, NaturalInduction
<1>4. ASSUME NEW s \in Seq(S)
      PROVE  s \in T
  <2>1. Len(s) \in N
    BY <1>3
  <2>. QED BY <2>1 DEF N
<1>. QED BY <1>4

LEMMA FlattenSeqTyped ==
  ASSUME NEW S, NEW seqs \in Seq(Seq(S))
  PROVE  FlattenSeq(seqs) \in Seq(S)
<1> DEFINE T == {t \in Seq(Seq(S)) : FlattenSeq(t) \in Seq(S)}
<1>1. <<>> \in T
  <2>1. <<>> \in Seq(Seq(S)) /\ <<>> \in Seq(S)
    OBVIOUS
  <2>. QED BY <2>1, FlattenSeqOfNothing
<1>2. ASSUME NEW t \in Seq(Seq(S)), NEW s \in Seq(S), t \in T
      PROVE  Append(t, s) \in T
  <2>1. FlattenSeq(Append(t, s)) = FlattenSeq(t) \o s
    BY FlattenSeqOfAppend
  <2>2. FlattenSeq(t) \o s \in Seq(S)
    BY <1>2, ConcatProperties
  <2>3. Append(t, s) \in Seq(Seq(S))
    BY AppendProperties
  <2>. QED BY <2>1, <2>2, <2>3
<1> HIDE DEF T
<1>3. Seq(Seq(S)) \subseteq T
  BY <1>1, <1>2, SequenceInduction
<1>. QED BY <1>3 DEF T

LEMMA FlattenSeqOfConcat ==
  ASSUME NEW S, NEW a \in Seq(Seq(S)), NEW b \in Seq(Seq(S))
  PROVE  FlattenSeq(a \o b) = FlattenSeq(a) \o FlattenSeq(b)
<1> DEFINE T == {t \in Seq(Seq(S)) : FlattenSeq(a \o t) = FlattenSeq(a) \o FlattenSeq(t)}
<1>1. <<>> \in T
  <2>1. a \o <<>> = a /\ FlattenSeq(a) \o <<>> = FlattenSeq(a)
    BY ConcatEmptySeq, FlattenSeqTyped
  <2>2. <<>> \in Seq(Seq(S))
    OBVIOUS
  <2>. QED BY <2>1, <2>2, FlattenSeqOfNothing
<1>2. ASSUME NEW u \in Seq(Seq(S)), NEW s \in Seq(S), u \in T
      PROVE  Append(u, s) \in T
  <2>1. Append(u, s) \in Seq(Seq(S)) /\ Append(u, s) = u \o <<s>>
    BY AppendProperties, AppendIsConcat
  <2>2. a \o u \in Seq(Seq(S)) /\ Append(a \o u, s) = (a \o u) \o <<s>>
    BY AppendIsConcat, ConcatProperties
  <2>3. <<s>> \in Seq(Seq(S))
    OBVIOUS
  <2>4. a \o Append(u, s) = Append(a \o u, s)
    BY <2>1, <2>2, <2>3, ConcatAssociative
  <2>5. FlattenSeq(Append(a \o u, s)) = FlattenSeq(a \o u) \o s
    BY <2>2, FlattenSeqOfAppend
  <2>6. FlattenSeq(a \o u) = FlattenSeq(a) \o FlattenSeq(u)
    BY <1>2
  <2>7. FlattenSeq(Append(u, s)) = FlattenSeq(u) \o s
    BY FlattenSeqOfAppend
  <2>8. FlattenSeq(a) \in Seq(S) /\ FlattenSeq(u) \in Seq(S)
    BY FlattenSeqTyped
  <2>9. (FlattenSeq(a) \o FlattenSeq(u)) \o s = FlattenSeq(a) \o (FlattenSeq(u) \o s)
    <3> DEFINE p == FlattenSeq(a)
               q == FlattenSeq(u)
    <3>1. p \in Seq(S) /\ q \in Seq(S)
      BY <2>8
    <3> HIDE DEF T, p, q
    <3>2. (p \o q) \o s = p \o (q \o s)
      BY <3>1, ConcatAssociative
    <3>. QED BY <3>2 DEF p, q
  <2>10. FlattenSeq(a \o Append(u, s)) = FlattenSeq(a) \o FlattenSeq(Append(u, s))
    BY <2>4, <2>5, <2>6, <2>7, <2>9, Zenon
  <2>. QED BY <2>1, <2>10
<1> HIDE DEF T
<1>3. Seq(Seq(S)) \subseteq T
  BY <1>1, <1>2, SequenceInduction
<1>. QED BY <1>3 DEF T

-----------------------------------------------------------------------------
(* Most operators replace each element of a sequence by a sequence, and    *)
(* the result of that is a homomorphism.                                   *)

Mapped(g, s) == FlattenSeq([i \in DOMAIN s |-> g[s[i]]])

LEMMA MappedConcat ==
  ASSUME NEW D, NEW S, NEW g \in [D -> Seq(S)]
  PROVE  \A s, t \in Seq(D) : Mapped(g, s \o t) = Mapped(g, s) \o Mapped(g, t)
<1> DEFINE seqs(s) == [i \in DOMAIN s |-> g[s[i]]]
<1>1. ASSUME NEW s \in Seq(D)
      PROVE  /\ seqs(s) \in Seq(Seq(S)) /\ Len(seqs(s)) = Len(s)
             /\ \A i \in 1..Len(s) : seqs(s)[i] = g[s[i]]
  OBVIOUS
<1>2. ASSUME NEW s \in Seq(D), NEW t \in Seq(D)
      PROVE  seqs(s \o t) = seqs(s) \o seqs(t)
  <2>1. s \o t \in Seq(D) /\ Len(s \o t) = Len(s) + Len(t)
    BY ConcatProperties
  <2>2. /\ seqs(s) \o seqs(t) \in Seq(Seq(S))
        /\ Len(seqs(s) \o seqs(t)) = Len(s) + Len(t)
    <3>1. /\ seqs(s) \in Seq(Seq(S)) /\ Len(seqs(s)) = Len(s)
          /\ seqs(t) \in Seq(Seq(S)) /\ Len(seqs(t)) = Len(t)
      BY <1>1
    <3>2. ASSUME NEW a \in Seq(Seq(S)), NEW b \in Seq(Seq(S))
          PROVE  a \o b \in Seq(Seq(S)) /\ Len(a \o b) = Len(a) + Len(b)
      BY ConcatProperties
    <3> HIDE DEF seqs
    <3>. QED BY <3>1, <3>2
  <2>3. ASSUME NEW i \in 1..Len(s) + Len(t)
        PROVE  seqs(s \o t)[i] = (seqs(s) \o seqs(t))[i]
    BY <1>1, <2>1, ConcatProperties
  <2>4. seqs(s \o t) \in Seq(Seq(S)) /\ Len(seqs(s \o t)) = Len(s) + Len(t)
    BY <1>1, <2>1
  <2> HIDE DEF seqs
  <2>. QED BY <2>2, <2>3, <2>4, SeqEqual
<1>3. \A s : Mapped(g, s) = FlattenSeq(seqs(s))
  BY DEF Mapped
<1> HIDE DEF seqs
<1> SUFFICES ASSUME NEW s \in Seq(D), NEW t \in Seq(D)
             PROVE  FlattenSeq(seqs(s \o t)) = FlattenSeq(seqs(s)) \o FlattenSeq(seqs(t))
  BY <1>3
<1>4. seqs(s) \in Seq(Seq(S)) /\ seqs(t) \in Seq(Seq(S))
  BY <1>1
<1>. QED BY <1>2, <1>4, FlattenSeqOfConcat

LEMMA MappedProperties ==
  ASSUME NEW D, NEW S, NEW g \in [D -> Seq(S)]
  PROVE  /\ Mapped(g, <<>>) = <<>>
         /\ \A s \in Seq(D) : Mapped(g, s) \in Seq(S)
         /\ \A s \in Seq(D), x \in D : Mapped(g, Append(s, x)) = Mapped(g, s) \o g[x]
         /\ \A x \in D : Mapped(g, <<x>>) = g[x]
         /\ \A s, t \in Seq(D) : Mapped(g, s \o t) = Mapped(g, s) \o Mapped(g, t)
<1> DEFINE seqs(s) == [i \in DOMAIN s |-> g[s[i]]]
<1>1. ASSUME NEW s \in Seq(D)
      PROVE  /\ seqs(s) \in Seq(Seq(S)) /\ Len(seqs(s)) = Len(s)
             /\ \A i \in 1..Len(s) : seqs(s)[i] = g[s[i]]
  OBVIOUS
<1>2. seqs(<<>>) = <<>>
  OBVIOUS
<1>3. ASSUME NEW s \in Seq(D), NEW x \in D
      PROVE  seqs(Append(s, x)) = Append(seqs(s), g[x])
  <2>1. Append(s, x) \in Seq(D) /\ Len(Append(s, x)) = Len(s) + 1
    BY AppendProperties
  <2>2. Append(seqs(s), g[x]) \in Seq(Seq(S))
        /\ Len(Append(seqs(s), g[x])) = Len(s) + 1
    <3>1. g[x] \in Seq(S)
      OBVIOUS
    <3>2. seqs(s) \in Seq(Seq(S)) /\ Len(seqs(s)) = Len(s)
      BY <1>1
    <3> HIDE DEF seqs
    <3>. QED BY <3>1, <3>2, AppendProperties
  <2>3. ASSUME NEW i \in 1..Len(s) + 1
        PROVE  seqs(Append(s, x))[i] = Append(seqs(s), g[x])[i]
    BY <1>1, <2>1, AppendProperties
  <2>4. seqs(Append(s, x)) \in Seq(Seq(S)) /\ Len(seqs(Append(s, x))) = Len(s) + 1
    BY <1>1, <2>1
  <2> HIDE DEF seqs
  <2>. QED BY <2>2, <2>3, <2>4, SeqEqual
<1>5. \A s : Mapped(g, s) = FlattenSeq(seqs(s))
  BY DEF Mapped
<1> HIDE DEF seqs
<1>6. \A s \in Seq(D) : Mapped(g, s) \in Seq(S)
  BY <1>1, <1>5, FlattenSeqTyped
<1>7. Mapped(g, <<>>) = <<>>
  BY <1>2, <1>5, FlattenSeqOfNothing
<1>8. \A s \in Seq(D), x \in D : Mapped(g, Append(s, x)) = Mapped(g, s) \o g[x]
  <2> SUFFICES ASSUME NEW s \in Seq(D), NEW x \in D
               PROVE  FlattenSeq(seqs(Append(s, x))) = FlattenSeq(seqs(s)) \o g[x]
    BY <1>5
  <2>1. seqs(s) \in Seq(Seq(S)) /\ g[x] \in Seq(S)
    BY <1>1
  <2>. QED BY <1>3, <2>1, FlattenSeqOfAppend
<1>9. ASSUME NEW x \in D
      PROVE  Mapped(g, <<x>>) = g[x]
  <2>1. <<x>> = Append(<<>>, x) /\ <<>> \in Seq(D)
    OBVIOUS
  <2>2. <<>> \o g[x] = g[x]
    BY ConcatEmptySeq
  <2>. QED BY <1>7, <1>8, <2>1, <2>2
<1>10. \A s, t \in Seq(D) : Mapped(g, s \o t) = Mapped(g, s) \o Mapped(g, t)
  BY MappedConcat
<1>. QED BY <1>6, <1>7, <1>8, <1>9, <1>10

\* The elements that are in T, in their order.
Selected(T, s) == FlattenSeq([i \in DOMAIN s |-> IF s[i] \in T THEN <<s[i]>> ELSE <<>>])

LEMMA MappedOne ==
  ASSUME NEW D, NEW S, NEW g \in [D -> Seq(S)], NEW x \in D
  PROVE  Mapped(g, <<x>>) = g[x]
<1>1. Mapped(g, <<x>>) = FlattenSeq(<<g[x]>>)
  BY DEF Mapped
<1>2. g[x] \in Seq(S) /\ <<>> \in Seq(Seq(S)) /\ <<g[x]>> = Append(<<>>, g[x])
  OBVIOUS
<1>3. FlattenSeq(<<>>) = <<>> /\ <<>> \o g[x] = g[x]
  BY <1>2, FlattenSeqOfNothing, ConcatEmptySeq
<1>4. FlattenSeq(Append(<<>>, g[x])) = FlattenSeq(<<>>) \o g[x]
  BY <1>2, FlattenSeqOfAppend, Zenon
<1>. QED BY <1>1, <1>2, <1>3, <1>4, Zenon

LEMMA SelectedProperties ==
  ASSUME NEW D, NEW T \in SUBSET D
  PROVE  /\ Selected(T, <<>>) = <<>>
         /\ \A s \in Seq(D) : Selected(T, s) \in Seq(T) /\ Selected(T, s) \in Seq(D)
         /\ \A s, t \in Seq(D) : Selected(T, s \o t) = Selected(T, s) \o Selected(T, t)
         /\ \A x \in D : Selected(T, <<x>>) = IF x \in T THEN <<x>> ELSE <<>>
<1> DEFINE g == [x \in D |-> IF x \in T THEN <<x>> ELSE <<>>]
<1>1. g \in [D -> Seq(T)]
  <2>1. ASSUME NEW x \in D
        PROVE  g[x] \in Seq(T)
    <3>1. CASE x \in T
      BY <3>1
    <3>2. CASE x \notin T
      <4>1. g[x] = <<>>
        BY <3>2
      <4>. QED BY <4>1, EmptySeq
    <3>. QED BY <3>1, <3>2
  <2>. QED BY <2>1
<1>2. ASSUME NEW s \in Seq(D)
      PROVE  Selected(T, s) = Mapped(g, s)
  <2>1. \A i \in DOMAIN s : s[i] \in D
    OBVIOUS
  <2>2. [i \in DOMAIN s |-> IF s[i] \in T THEN <<s[i]>> ELSE <<>>]
          = [i \in DOMAIN s |-> g[s[i]]]
    BY <2>1
  <2>. QED BY <2>2 DEF Selected, Mapped
<1>3. \A x \in D : g[x] = IF x \in T THEN <<x>> ELSE <<>>
  OBVIOUS
<1> HIDE DEF g
<1>4. /\ Mapped(g, <<>>) = <<>>
      /\ \A s \in Seq(D) : Mapped(g, s) \in Seq(T)
      /\ \A x \in D : Mapped(g, <<x>>) = g[x]
  BY <1>1, MappedProperties
<1>5. Selected(T, <<>>) = <<>>
  BY <1>2, <1>4, EmptySeq
<1>6. ASSUME NEW s \in Seq(D)
      PROVE  Selected(T, s) \in Seq(T) /\ Selected(T, s) \in Seq(D)
  <2>1. Selected(T, s) \in Seq(T)
    BY <1>2, <1>4
  <2>. QED BY <2>1, SeqMonotonic
<1>7. ASSUME NEW s \in Seq(D), NEW t \in Seq(D)
      PROVE  Selected(T, s \o t) = Selected(T, s) \o Selected(T, t)
  <2>1. Mapped(g, s \o t) = Mapped(g, s) \o Mapped(g, t)
    BY <1>1, MappedConcat
  <2>2. s \o t \in Seq(D)
    BY ConcatProperties
  <2>. QED BY <1>2, <2>1, <2>2
<1>8. ASSUME NEW x \in D
      PROVE  Selected(T, <<x>>) = IF x \in T THEN <<x>> ELSE <<>>
  <2>1. Selected(T, <<x>>) = Mapped(g, <<x>>)
    <3>1. <<x>> \in Seq(D)
      OBVIOUS
    <3>. QED BY <1>2, <3>1
  <2>. QED BY <1>3, <1>4, <2>1
<1>. QED BY <1>5, <1>6, <1>7, <1>8

\* f holds what comes of taking the elements of s one by one.
Folds(A, step, base, s, f) ==
  /\ f \in [0..Len(s) -> A]
  /\ f[0] = base
  /\ \A i \in 1..Len(s) : f[i] = step[f[i - 1]][s[i]]

LEMMA FoldExists ==
  ASSUME NEW D, NEW A, NEW step \in [A -> [D -> A]], NEW base \in A, NEW s \in Seq(D)
  PROVE  \E f : Folds(A, step, base, s, f)
<1> DEFINE Takes(n, f) == /\ f \in [0..n -> A] /\ f[0] = base
                         /\ \A i \in 1..n : f[i] = step[f[i - 1]][s[i]]
           T == {n \in Nat : n <= Len(s) => \E f : Takes(n, f)}
<1> HIDE DEF Takes
<1>1. 0 \in T
  <2>1. Takes(0, [i \in 0..0 |-> base])
    BY DEF Takes
  <2>. QED BY <2>1
<1>2. ASSUME NEW n \in Nat, n \in T
      PROVE  n + 1 \in T
  <2> SUFFICES ASSUME n + 1 <= Len(s) PROVE \E f : Takes(n + 1, f)
    OBVIOUS
  <2>1. n <= Len(s) /\ n + 1 \in 1..Len(s) /\ n \in 0..n
    <3>1. Len(s) \in Nat
      OBVIOUS
    <3> HIDE DEF T
    <3>. QED BY <3>1
  <2>2. PICK f : Takes(n, f)
    BY <1>2, <2>1
  <2> DEFINE last == step[f[n]][s[n + 1]]
             g == [i \in 0..n + 1 |-> IF i = n + 1 THEN last ELSE f[i]]
  <2>3. last \in A
    <3>1. f[n] \in A /\ s[n + 1] \in D
      BY <2>1, <2>2 DEF Takes
    <3>2. step[f[n]] \in [D -> A]
      BY <3>1
    <3>. QED BY <3>1, <3>2
  <2> HIDE DEF last
  <2>4. g \in [0..n + 1 -> A] /\ g[0] = base
    BY <2>2, <2>3 DEF Takes
  <2>5. ASSUME NEW i \in 1..n + 1
        PROVE  g[i] = step[g[i - 1]][s[i]]
    <3>1. CASE i = n + 1
      <4>1. g[i] = last /\ i - 1 = n /\ g[n] = f[n]
        BY <3>1
      <4>. QED BY <3>1, <4>1 DEF last
    <3>2. CASE i # n + 1
      <4>1. i \in 1..n /\ g[i] = f[i] /\ g[i - 1] = f[i - 1]
        BY <3>2
      <4>. QED BY <2>2, <4>1 DEF Takes
    <3>. QED BY <3>1, <3>2
  <2>. QED BY <2>4, <2>5 DEF Takes
<1> HIDE DEF T
<1>3. Nat \subseteq T
  BY <1>1, <1>2, NaturalInduction
<1>4. Len(s) \in T /\ Len(s) <= Len(s)
  BY <1>3
<1>. QED BY <1>4 DEF T, Folds, Takes

\* Two runs over sequences that begin alike agree as long as these do.
LEMMA FoldsAgree ==
  ASSUME NEW D, NEW A, NEW step, NEW base, NEW s \in Seq(D), NEW t \in Seq(D),
         Len(s) <= Len(t), \A i \in 1..Len(s) : t[i] = s[i],
         NEW f, NEW g, Folds(A, step, base, s, f), Folds(A, step, base, t, g)
  PROVE  f[Len(s)] = g[Len(s)]
<1> DEFINE N == {n \in Nat : n <= Len(s) => f[n] = g[n]}
<1>1. 0 \in N
  BY DEF Folds
<1>2. ASSUME NEW n \in Nat, n \in N
      PROVE  n + 1 \in N
  <2> SUFFICES ASSUME n + 1 <= Len(s) PROVE f[n + 1] = g[n + 1]
    OBVIOUS
  <2>1. Len(s) \in Nat /\ Len(t) \in Nat
    OBVIOUS
  <2>2. n <= Len(s) /\ n + 1 \in 1..Len(s) /\ n + 1 \in 1..Len(t) /\ (n + 1) - 1 = n
    BY <2>1
  <2>3. f[n] = g[n]
    BY <1>2, <2>2
  <2>4. f[n + 1] = step[f[n]][s[n + 1]] /\ g[n + 1] = step[g[n]][t[n + 1]]
    BY <2>2 DEF Folds
  <2>. QED BY <2>2, <2>3, <2>4
<1> HIDE DEF N
<1>3. Nat \subseteq N
  BY <1>1, <1>2, NaturalInduction
<1>4. Len(s) \in N /\ Len(s) <= Len(s)
  BY <1>3
<1>. QED BY <1>4 DEF N

IsStep(D, A, step, base) == step \in [A -> [D -> A]] /\ base \in A
Runs(A, step, base, s, after) ==
  /\ after[0] = base
  /\ \A i \in 1..Len(s) : after[i - 1] \in A => after[i] = step[after[i - 1]][s[i]]

\* Where a run over a sequence ends.
FoldOf(A, step, base, s) == (CHOOSE f : Folds(A, step, base, s, f))[Len(s)]

LEMMA FoldOfProperties ==
  ASSUME NEW D, NEW A, NEW step, NEW base, IsStep(D, A, step, base)
  PROVE  /\ FoldOf(A, step, base, <<>>) = base
         /\ \A s \in Seq(D) : FoldOf(A, step, base, s) \in A
         /\ \A s \in Seq(D), x \in D :
              FoldOf(A, step, base, Append(s, x)) = step[FoldOf(A, step, base, s)][x]
<1>1. ASSUME NEW s \in Seq(D)
      PROVE  \E f : Folds(A, step, base, s, f) /\ FoldOf(A, step, base, s) = f[Len(s)]
  <2>1. \E f : Folds(A, step, base, s, f)
    BY FoldExists DEF IsStep
  <2>. QED BY <2>1 DEF FoldOf
<1>2. FoldOf(A, step, base, <<>>) = base
  <2>1. <<>> \in Seq(D) /\ Len(<<>>) = 0
    BY EmptySeq
  <2>2. PICK f : Folds(A, step, base, <<>>, f) /\ FoldOf(A, step, base, <<>>) = f[Len(<<>>)]
    BY <1>1, <2>1
  <2>. QED BY <2>1, <2>2 DEF Folds
<1>3. ASSUME NEW s \in Seq(D)
      PROVE  FoldOf(A, step, base, s) \in A
  <2>1. PICK f : Folds(A, step, base, s, f) /\ FoldOf(A, step, base, s) = f[Len(s)]
    BY <1>1
  <2>2. Len(s) \in 0..Len(s)
    BY LenProperties
  <2>. QED BY <2>1, <2>2 DEF Folds
<1>4. ASSUME NEW s \in Seq(D), NEW x \in D
      PROVE  FoldOf(A, step, base, Append(s, x)) = step[FoldOf(A, step, base, s)][x]
  <2> DEFINE t == Append(s, x)
             n == Len(s)
  <2>1. t \in Seq(D) /\ Len(t) = n + 1 /\ n \in Nat /\ t[n + 1] = x
        /\ \A i \in 1..n : t[i] = s[i]
    BY AppendProperties, LenProperties
  <2>2. PICK f : Folds(A, step, base, s, f) /\ FoldOf(A, step, base, s) = f[n]
    BY <1>1
  <2> HIDE DEF t
  <2>3. PICK g : Folds(A, step, base, t, g) /\ FoldOf(A, step, base, t) = g[Len(t)]
    BY <1>1, <2>1
  <2>4. f[n] = g[n]
    <3>1. n <= Len(t)
      BY <2>1
    <3>. QED BY <2>1, <2>2, <2>3, <3>1, FoldsAgree
  <2>5. n + 1 \in 1..Len(t) /\ (n + 1) - 1 = n
    BY <2>1
  <2>6. g[n + 1] = step[g[n]][t[n + 1]]
    BY <2>3, <2>5 DEF Folds
  <2>. QED BY <2>1, <2>2, <2>3, <2>4, <2>6 DEF t
<1>. QED BY <1>2, <1>3, <1>4

\* A recursion that takes the steps ends where the run does.
LEMMA RunIsFold ==
  ASSUME NEW D, NEW A, NEW step, NEW base, IsStep(D, A, step, base), NEW s \in Seq(D),
         NEW after, Runs(A, step, base, s, after)
  PROVE  after[Len(s)] = FoldOf(A, step, base, s)
<1>1. \E f : Folds(A, step, base, s, f)
  BY FoldExists DEF IsStep
<1>2. PICK f : Folds(A, step, base, s, f) /\ FoldOf(A, step, base, s) = f[Len(s)]
  BY <1>1 DEF FoldOf
<1> DEFINE N == {n \in Nat : n <= Len(s) => after[n] = f[n]}
<1>3. 0 \in N
  BY <1>2 DEF Folds, Runs
<1>4. ASSUME NEW n \in Nat, n \in N
      PROVE  n + 1 \in N
  <2> SUFFICES ASSUME n + 1 <= Len(s) PROVE after[n + 1] = f[n + 1]
    OBVIOUS
  <2>1. Len(s) \in Nat
    OBVIOUS
  <2>2. n <= Len(s) /\ n + 1 \in 1..Len(s) /\ (n + 1) - 1 = n /\ n \in 0..Len(s)
    BY <2>1
  <2>3. after[n] = f[n] /\ f[n] \in A
    BY <1>2, <1>4, <2>2 DEF Folds
  <2>4. after[n + 1] = step[after[n]][s[n + 1]]
    BY <2>2, <2>3 DEF Runs
  <2>5. f[n + 1] = step[f[n]][s[n + 1]]
    BY <1>2, <2>2 DEF Folds
  <2>. QED BY <2>3, <2>4, <2>5
<1> HIDE DEF N
<1>5. Nat \subseteq N
  BY <1>3, <1>4, NaturalInduction
<1>6. Len(s) \in N /\ Len(s) <= Len(s)
  BY <1>5
<1>. QED BY <1>2, <1>6 DEF N

-----------------------------------------------------------------------------
(* Messages: what its operators return, and that they are homomorphisms.   *)

LEMMA BlocksTyped ==
  ASSUME NEW s \in Text, NEW id \in Id, NEW signed \in BOOLEAN
  PROVE  /\ TextBlock(s) \in ContentBlock /\ ImageBlock(s) \in ContentBlock
         /\ Thinking(s, signed) \in ContentBlock /\ ToolUse(id, s) \in ContentBlock
         /\ ToolResult(id, s) \in ContentBlock
<1>1. NoId \in Id
  BY DEF NoId, Id
<1>. QED BY <1>1 DEF TextBlock, ImageBlock, Thinking, ToolUse, ToolResult, Block, ContentBlock

LEMMA TextBlocksTyped ==
  ASSUME NEW s \in Text
  PROVE  TextBlock(s) \in ContentBlock /\ ImageBlock(s) \in ContentBlock
BY DEF TextBlock, ImageBlock, Block, ContentBlock, NoId, Id

LEMMA WordsProperties ==
  /\ Words(<<>>) = <<>>
  /\ \A s \in Text : Words(s) \in Text
  /\ \A s, t \in Text : Words(s \o t) = Words(s) \o Words(t)
  /\ \A x \in Nat : Words(<<x>>) = IF x # Blank THEN <<x>> ELSE <<>>
<1> DEFINE N == Nat
           T == {x \in N : x # Blank}
<1>1. ASSUME NEW s \in Text
      PROVE  Words(s) = Selected(T, s)
  <2>1. [i \in DOMAIN s |-> IF s[i] # Blank THEN <<s[i]>> ELSE <<>>]
          = [i \in DOMAIN s |-> IF s[i] \in T THEN <<s[i]>> ELSE <<>>]
    BY DEF Text
  <2>. QED BY <2>1 DEF Words, Only, Selected
<1>2. T \in SUBSET N /\ \A x \in N : x \in T <=> x # Blank
  OBVIOUS
<1>3. Text = Seq(N)
  BY DEF Text
<1> HIDE DEF N, T
<1>4. /\ <<>> \in Text
      /\ \A s, t \in Text : s \o t \in Text
      /\ \A x \in N : <<x>> \in Text
  BY <1>3, ConcatProperties
<1>5. /\ Selected(T, <<>>) = <<>>
      /\ \A s \in Text : Selected(T, s) \in Text
      /\ \A x \in N : Selected(T, <<x>>) = IF x \in T THEN <<x>> ELSE <<>>
      /\ \A s, t \in Text : Selected(T, s \o t) = Selected(T, s) \o Selected(T, t)
  <2>1. Selected(T, <<>>) = <<>>
    BY <1>2, SelectedProperties
  <2>2. \A s \in Seq(N) : Selected(T, s) \in Seq(N)
    BY <1>2, SelectedProperties
  <2>3. \A x \in N : Selected(T, <<x>>) = IF x \in T THEN <<x>> ELSE <<>>
    BY <1>2, SelectedProperties
  <2>4. \A s, t \in Seq(N) : Selected(T, s \o t) = Selected(T, s) \o Selected(T, t)
    BY <1>2, SelectedProperties
  <2>. QED BY <1>3, <2>1, <2>2, <2>3, <2>4
<1>6. \A x \in N : Words(<<x>>) = IF x # Blank THEN <<x>> ELSE <<>>
  BY <1>1, <1>2, <1>4, <1>5
<1>7. \A s, t \in Text : Words(s \o t) = Words(s) \o Words(t)
  <2> SUFFICES ASSUME NEW s \in Text, NEW t \in Text
               PROVE  Words(s \o t) = Words(s) \o Words(t)
    OBVIOUS
  <2>1. Words(s) = Selected(T, s) /\ Words(t) = Selected(T, t)
    BY <1>1
  <2>2. Words(s \o t) = Selected(T, s \o t)
    BY <1>1, <1>4
  <2>3. Selected(T, s \o t) = Selected(T, s) \o Selected(T, t)
    BY <1>5
  <2>. QED BY <2>1, <2>2, <2>3, Zenon
<1>8. Words(<<>>) = <<>> /\ \A s \in Text : Words(s) \in Text
  BY <1>1, <1>4, <1>5
<1>. QED BY <1>6, <1>7, <1>8 DEF N

LEMMA OfTypeProperties ==
  ASSUME NEW type
  PROVE  /\ OfType(<<>>, type) = <<>>
         /\ \A s \in Seq(ContentBlock) :
              /\ OfType(s, type) \in Seq({b \in ContentBlock : b.type = type})
              /\ OfType(s, type) \in Seq(ContentBlock)
         /\ \A s, t \in Seq(ContentBlock) :
              OfType(s \o t, type) = OfType(s, type) \o OfType(t, type)
         /\ \A b \in ContentBlock :
              OfType(<<b>>, type) = IF b.type = type THEN <<b>> ELSE <<>>
<1> DEFINE T == {b \in ContentBlock : b.type = type}
<1>1. ASSUME NEW s \in Seq(ContentBlock)
      PROVE  OfType(s, type) = Selected(T, s)
  <2>1. [i \in DOMAIN s |-> IF s[i].type = type THEN <<s[i]>> ELSE <<>>]
          = [i \in DOMAIN s |-> IF s[i] \in T THEN <<s[i]>> ELSE <<>>]
    OBVIOUS
  <2>. QED BY <2>1 DEF OfType, Only, Selected
<1>2. T \in SUBSET ContentBlock /\ \A b \in ContentBlock : b \in T <=> b.type = type
  OBVIOUS
<1> HIDE DEF T
<1>3. /\ <<>> \in Seq(ContentBlock)
      /\ \A s, t \in Seq(ContentBlock) : s \o t \in Seq(ContentBlock)
      /\ \A b \in ContentBlock : <<b>> \in Seq(ContentBlock)
  BY ConcatProperties
<1>4. /\ Selected(T, <<>>) = <<>>
      /\ \A s \in Seq(ContentBlock) :
           Selected(T, s) \in Seq(T) /\ Selected(T, s) \in Seq(ContentBlock)
      /\ \A b \in ContentBlock : Selected(T, <<b>>) = IF b \in T THEN <<b>> ELSE <<>>
      /\ \A s, t \in Seq(ContentBlock) :
           Selected(T, s \o t) = Selected(T, s) \o Selected(T, t)
  BY <1>2, SelectedProperties
<1>5. \A b \in ContentBlock :
        OfType(<<b>>, type) = IF b.type = type THEN <<b>> ELSE <<>>
  BY <1>1, <1>2, <1>3, <1>4
<1>6. \A s, t \in Seq(ContentBlock) :
        OfType(s \o t, type) = OfType(s, type) \o OfType(t, type)
  <2> SUFFICES ASSUME NEW s \in Seq(ContentBlock), NEW t \in Seq(ContentBlock)
               PROVE  OfType(s \o t, type) = OfType(s, type) \o OfType(t, type)
    OBVIOUS
  <2>1. OfType(s, type) = Selected(T, s) /\ OfType(t, type) = Selected(T, t)
    BY <1>1
  <2>2. OfType(s \o t, type) = Selected(T, s \o t)
    BY <1>1, <1>3
  <2>3. Selected(T, s \o t) = Selected(T, s) \o Selected(T, t)
    BY <1>4
  <2>. QED BY <2>1, <2>2, <2>3, Zenon
<1>7. \A s \in Seq(ContentBlock) :
        OfType(s, type) \in Seq(T) /\ OfType(s, type) \in Seq(ContentBlock)
  BY <1>1, <1>4
<1>8. OfType(<<>>, type) = <<>>
  BY <1>1, <1>3, <1>4
<1>. QED BY <1>5, <1>6, <1>7, <1>8 DEF T

LEMMA SelectedIsOf ==
  ASSUME NEW D, NEW T \in SUBSET D, NEW s \in Seq(D)
  PROVE  Selected(T, s) \in Seq(D)
<1>1. \A t \in Seq(D) : Selected(T, t) \in Seq(D)
  BY SelectedProperties
<1>. QED BY <1>1, Zenon

\* The texts of blocks, run together.
LEMMA TextsProperties ==
  ASSUME NEW B, \A b \in B : b.text \in Text
  PROVE  /\ FlattenSeq(TextsOf(<<>>)) = <<>>
         /\ \A s \in Seq(B) : FlattenSeq(TextsOf(s)) \in Text
         /\ \A s, t \in Seq(B) :
              FlattenSeq(TextsOf(s \o t)) = FlattenSeq(TextsOf(s)) \o FlattenSeq(TextsOf(t))
         /\ \A b \in B : FlattenSeq(TextsOf(<<b>>)) = b.text
<1> DEFINE g == [b \in B |-> b.text]
<1>1. g \in [B -> Seq(Nat)]
  BY DEF Text
<1>2. ASSUME NEW s \in Seq(B)
      PROVE  FlattenSeq(TextsOf(s)) = Mapped(g, s)
  <2>1. \A i \in DOMAIN s : s[i] \in B
    OBVIOUS
  <2>2. [i \in DOMAIN s |-> s[i].text] = [i \in DOMAIN s |-> g[s[i]]]
    BY <2>1
  <2>. QED BY <2>2 DEF TextsOf, Mapped
<1>3. \A b \in B : g[b] = b.text
  OBVIOUS
<1> HIDE DEF g
<1>4. /\ <<>> \in Seq(B)
      /\ \A s, t \in Seq(B) : s \o t \in Seq(B)
      /\ \A x \in B : <<x>> \in Seq(B)
  BY ConcatProperties
<1>5. /\ Mapped(g, <<>>) = <<>>
      /\ \A s \in Seq(B) : Mapped(g, s) \in Seq(Nat)
      /\ \A x \in B : Mapped(g, <<x>>) = g[x]
      /\ \A s, t \in Seq(B) : Mapped(g, s \o t) = Mapped(g, s) \o Mapped(g, t)
  BY <1>1, MappedProperties
<1>6. ASSUME NEW s \in Seq(B), NEW t \in Seq(B)
      PROVE  FlattenSeq(TextsOf(s \o t)) = FlattenSeq(TextsOf(s)) \o FlattenSeq(TextsOf(t))
  <2>1. FlattenSeq(TextsOf(s)) = Mapped(g, s) /\ FlattenSeq(TextsOf(t)) = Mapped(g, t)
    BY <1>2
  <2>2. FlattenSeq(TextsOf(s \o t)) = Mapped(g, s \o t)
    BY <1>2, <1>4
  <2>3. Mapped(g, s \o t) = Mapped(g, s) \o Mapped(g, t)
    BY <1>5
  <2>. QED BY <2>1, <2>2, <2>3, Zenon
<1>. QED BY <1>2, <1>3, <1>4, <1>5, <1>6, Zenon DEF Text

LEMMA JoinTextProperties ==
  /\ JoinText(<<>>) = <<>>
  /\ \A s \in Seq(ContentBlock) : JoinText(s) \in Text
  /\ \A s, t \in Seq(ContentBlock) : JoinText(s \o t) = JoinText(s) \o JoinText(t)
  /\ \A b \in ContentBlock : JoinText(<<b>>) = IF b.type = "text" THEN b.text ELSE <<>>
<1>1. \A b \in ContentBlock : b.text \in Text
  BY DEF ContentBlock
<1> DEFINE texts(s) == OfType(s, "text")
           B == ContentBlock
<1>2. /\ texts(<<>>) = <<>>
      /\ \A s \in Seq(B) : texts(s) \in Seq(B)
      /\ \A s, t \in Seq(B) : texts(s \o t) = texts(s) \o texts(t)
      /\ \A b \in B : texts(<<b>>) = IF b.type = "text" THEN <<b>> ELSE <<>>
  BY OfTypeProperties
<1>3. /\ FlattenSeq(TextsOf(<<>>)) = <<>>
      /\ \A s \in Seq(B) : FlattenSeq(TextsOf(s)) \in Text
      /\ \A s, t \in Seq(B) :
           FlattenSeq(TextsOf(s \o t)) = FlattenSeq(TextsOf(s)) \o FlattenSeq(TextsOf(t))
      /\ \A b \in B : FlattenSeq(TextsOf(<<b>>)) = b.text
  BY <1>1, TextsProperties
<1>4. \A s : JoinText(s) = FlattenSeq(TextsOf(texts(s)))
  BY DEF JoinText
<1>. HIDE DEF texts, B
<1>5. \A s \in Seq(B) : JoinText(s) \in Text
  BY <1>2, <1>3, <1>4
<1>6. ASSUME NEW s \in Seq(B), NEW t \in Seq(B)
      PROVE  JoinText(s \o t) = JoinText(s) \o JoinText(t)
  <2>1. JoinText(s \o t) = FlattenSeq(TextsOf(texts(s \o t)))
    BY <1>4
  <2>2. texts(s \o t) = texts(s) \o texts(t) /\ texts(s) \in Seq(B) /\ texts(t) \in Seq(B)
    BY <1>2
  <2>3. FlattenSeq(TextsOf(texts(s) \o texts(t)))
          = FlattenSeq(TextsOf(texts(s))) \o FlattenSeq(TextsOf(texts(t)))
    BY <1>3, <2>2
  <2>. QED BY <1>4, <2>1, <2>2, <2>3
<1>7. ASSUME NEW b \in B
      PROVE  JoinText(<<b>>) = IF b.type = "text" THEN b.text ELSE <<>>
  <2>1. JoinText(<<b>>) = FlattenSeq(TextsOf(texts(<<b>>)))
    BY <1>4
  <2>2. CASE b.type = "text"
    BY <1>2, <1>3, <2>1, <2>2
  <2>3. CASE b.type # "text"
    BY <1>2, <1>3, <2>1, <2>3
  <2>. QED BY <2>2, <2>3
<1>8. JoinText(<<>>) = <<>>
  <2>1. JoinText(<<>>) = FlattenSeq(TextsOf(texts(<<>>)))
    BY <1>4
  <2>. QED BY <1>2, <1>3, <2>1
<1>. QED BY <1>5, <1>6, <1>7, <1>8 DEF B

LEMMA SanitizeMessageTyped ==
  ASSUME NEW m \in Message
  PROVE  /\ SanitizeMessage(m) \in Message
         /\ SanitizeMessage(m).role = m.role /\ SanitizeMessage(m).plain = m.plain
         /\ m.plain => SanitizeMessage(m) = m
<1> DEFINE g == [b \in ContentBlock |-> SanitizeBlock(b)]
<1>1. m.blocks \in Seq(ContentBlock) /\ m.role \in Role /\ m.plain \in BOOLEAN
  BY DEF Message
<1>2. g \in [ContentBlock -> Seq(ContentBlock)]
  <2>1. ASSUME NEW b \in ContentBlock
        PROVE  SanitizeBlock(b) \in Seq(ContentBlock)
    <3>1. b.text \in Text /\ TextBlock(b.text) \in ContentBlock
      BY BlocksTyped DEF ContentBlock, NoId, Id
    <3>. QED BY <3>1 DEF SanitizeBlock
  <2>. QED BY <2>1
<1>3. [i \in DOMAIN m.blocks |-> SanitizeBlock(m.blocks[i])]
        = [i \in DOMAIN m.blocks |-> g[m.blocks[i]]]
  BY <1>1
<1> HIDE DEF g
<1>4. Mapped(g, m.blocks) \in Seq(ContentBlock)
  BY <1>1, <1>2, MappedProperties
<1>5. SanitizeMessage(m) = IF m.plain THEN m ELSE [m EXCEPT !.blocks = Mapped(g, m.blocks)]
  BY <1>3 DEF SanitizeMessage, Mapped
<1>. QED BY <1>4, <1>5 DEF Message

LEMMA SanitizeProperties ==
  /\ Sanitize(<<>>) = <<>>
  /\ \A h \in Seq(Message) : Sanitize(h) \in Seq(Message) /\ Len(Sanitize(h)) = Len(h)
  /\ \A h, r \in Seq(Message) : Sanitize(h \o r) = Sanitize(h) \o Sanitize(r)
  /\ \A m \in Message : Sanitize(<<m>>) = <<SanitizeMessage(m)>>
<1>1. ASSUME NEW h \in Seq(Message)
      PROVE  /\ Sanitize(h) \in Seq(Message) /\ Len(Sanitize(h)) = Len(h)
             /\ \A i \in 1..Len(h) : Sanitize(h)[i] = SanitizeMessage(h[i])
  <2>1. \A i \in 1..Len(h) : SanitizeMessage(h[i]) \in Message
    BY SanitizeMessageTyped
  <2>. QED BY <2>1 DEF Sanitize
<1>2. ASSUME NEW h \in Seq(Message), NEW r \in Seq(Message)
      PROVE  Sanitize(h \o r) = Sanitize(h) \o Sanitize(r)
  <2>1. /\ h \o r \in Seq(Message) /\ Len(h \o r) = Len(h) + Len(r)
        /\ \A i \in 1..Len(h) + Len(r) :
             (h \o r)[i] = IF i <= Len(h) THEN h[i] ELSE r[i - Len(h)]
    BY ConcatProperties
  <2>2. /\ Sanitize(h) \o Sanitize(r) \in Seq(Message)
        /\ Len(Sanitize(h) \o Sanitize(r)) = Len(h) + Len(r)
        /\ \A i \in 1..Len(h) + Len(r) :
             (Sanitize(h) \o Sanitize(r))[i]
               = IF i <= Len(h) THEN Sanitize(h)[i] ELSE Sanitize(r)[i - Len(h)]
    <3>1. /\ Sanitize(h) \in Seq(Message) /\ Len(Sanitize(h)) = Len(h)
          /\ Sanitize(r) \in Seq(Message) /\ Len(Sanitize(r)) = Len(r)
      BY <1>1
    <3> DEFINE a == Sanitize(h)
               b == Sanitize(r)
    <3> HIDE DEF a, b
    <3>2. /\ a \o b \in Seq(Message) /\ Len(a \o b) = Len(a) + Len(b)
          /\ \A i \in 1..Len(a) + Len(b) :
               (a \o b)[i] = IF i <= Len(a) THEN a[i] ELSE b[i - Len(a)]
      BY <3>1, ConcatProperties DEF a, b
    <3>. QED BY <3>1, <3>2 DEF a, b
  <2>3. ASSUME NEW i \in 1..Len(h) + Len(r)
        PROVE  Sanitize(h \o r)[i] = (Sanitize(h) \o Sanitize(r))[i]
    <3>1. i <= Len(h) => i \in 1..Len(h)
      OBVIOUS
    <3>2. ~(i <= Len(h)) => i - Len(h) \in 1..Len(r)
      OBVIOUS
    <3>3. Sanitize(h \o r)[i] = SanitizeMessage((h \o r)[i])
      BY <1>1, <2>1
    <3>. QED BY <1>1, <2>1, <2>2, <3>1, <3>2, <3>3
  <2>4. Sanitize(h \o r) \in Seq(Message) /\ Len(Sanitize(h \o r)) = Len(h) + Len(r)
    BY <1>1, <2>1
  <2>. QED BY <2>2, <2>3, <2>4, SeqEqual
<1>3. ASSUME NEW m \in Message
      PROVE  Sanitize(<<m>>) = <<SanitizeMessage(m)>>
  BY DEF Sanitize
<1>4. Sanitize(<<>>) = <<>>
  BY DEF Sanitize
<1>. QED BY <1>1, <1>2, <1>3, <1>4

LEMMA PrependProperties ==
  ASSUME NEW S, NEW s \in Seq(S), NEW t \in Seq(S)
  PROVE  Prepend(s, t) \in Seq(S) /\ IsPrefix(s, Prepend(s, t))
<1>1. /\ s \o t \in Seq(S) /\ Len(s \o t) = Len(s) + Len(t)
      /\ \A i \in 1..Len(s) : (s \o t)[i] = s[i]
  BY ConcatProperties
<1>2. SubSeq(s, 1, Len(s)) = SubSeq(s \o t, 1, Len(s))
  <2>1. \A i \in 1..Len(s) : (s \o t)[i] \in S
    BY <1>1
  <2>2. /\ SubSeq(s, 1, Len(s)) \in Seq(S) /\ Len(SubSeq(s, 1, Len(s))) = Len(s)
        /\ \A i \in 1..Len(s) : SubSeq(s, 1, Len(s))[i] = s[i]
    BY SubSeqFull
  <2> DEFINE u == s \o t
  <2> HIDE DEF u
  <2>3. /\ SubSeq(u, 1, Len(s)) \in Seq(S) /\ Len(SubSeq(u, 1, Len(s))) = Len(s)
        /\ \A i \in 1..Len(s) : SubSeq(u, 1, Len(s))[i] = u[i]
    BY <2>1, SubSeqProperties DEF u
  <2>4. \A i \in 1..Len(s) : u[i] = s[i]
    BY <1>1 DEF u
  <2> DEFINE v == SubSeq(u, 1, Len(s))
             w == SubSeq(s, 1, Len(s))
  <2>5. v \in Seq(S) /\ w \in Seq(S) /\ Len(w) = Len(v) /\ \A i \in 1..Len(w) : w[i] = v[i]
    BY <2>2, <2>3, <2>4
  <2> HIDE DEF v, w
  <2>6. w = v
    BY <2>5, SeqEqual
  <2>. QED BY <2>6 DEF u, v, w
<1>. QED BY <1>1, <1>2 DEF Prepend, IsPrefix

\* A prefix is what another sequence can be put behind.
LEMMA PrefixMeans ==
  ASSUME NEW S, NEW s \in Seq(S), NEW t \in Seq(S)
  PROVE  IsPrefix(s, t) <=> \E r \in Seq(S) : t = s \o r
<1>1. ASSUME NEW r \in Seq(S), t = s \o r
      PROVE  IsPrefix(s, t)
  BY <1>1, PrependProperties DEF Prepend
<1>2. ASSUME IsPrefix(s, t)
      PROVE  \E r \in Seq(S) : t = s \o r
  <2>1. /\ Len(s) \in Nat /\ Len(t) \in Nat /\ Len(s) <= Len(t)
        /\ s = SubSeq(t, 1, Len(s))
    BY <1>2, SubSeqFull DEF IsPrefix
  <2>2. SubSeq(t, 1, Len(s)) \o SubSeq(t, Len(s) + 1, Len(t)) = SubSeq(t, 1, Len(t))
    <3>1. /\ 1 \in 1..Len(t) + 1 /\ Len(s) \in (1 - 1)..Len(t)
          /\ Len(t) \in Len(s)..Len(t)
      BY <2>1
    <3>. QED BY <3>1, ConcatAdjacentSubSeq
  <2>3. SubSeq(t, Len(s) + 1, Len(t)) \in Seq(S)
    <3>1. \A i \in Len(s) + 1..Len(t) : t[i] \in S
      BY <2>1
    <3>. QED BY <2>1, <3>1, SubSeqProperties
  <2>. QED BY <2>1, <2>2, <2>3, SubSeqFull
<1>. QED BY <1>1, <1>2

LEMMA PrefixGrows ==
  ASSUME NEW S, NEW s \in Seq(S), NEW t \in Seq(S), NEW r \in Seq(S), IsPrefix(s, t)
  PROVE  IsPrefix(s, t \o r)
<1>1. PICK u \in Seq(S) : t = s \o u
  BY PrefixMeans
<1>2. u \o r \in Seq(S) /\ t \o r \in Seq(S) /\ t \o r = s \o (u \o r)
  BY <1>1, ConcatProperties, ConcatAssociative
<1>. QED BY <1>2, PrefixMeans

LEMMA EmptyIsPrefix ==
  ASSUME NEW S, NEW t \in Seq(S)
  PROVE  IsPrefix(<<>>, t)
<1>1. <<>> \in Seq(S) /\ t = <<>> \o t
  BY ConcatEmptySeq
<1>. QED BY <1>1, PrefixMeans

-----------------------------------------------------------------------------
(* ToProvider: what a message becomes.                                     *)

ItemRole == {"user", "assistant", "developer", "none"}

LEMMA ItemTyped ==
  ASSUME NEW type \in {"message", "function_call", "function_call_output", "trigger"},
         NEW role \in ItemRole, NEW s \in Text, NEW id \in Id
  PROVE  Item(type, role, s, id) \in InputItem
BY DEF Item, InputItem, ItemRole

LEMMA MessageItemTyped ==
  ASSUME NEW role \in ItemRole, NEW s \in Text
  PROVE  MessageItem(role, s) \in InputItem
BY DEF Item, MessageItem, InputItem, ItemRole, NoId, Id

LEMMA FlushTyped ==
  ASSUME NEW role \in ItemRole, NEW parts \in Seq(ContentBlock)
  PROVE  Flush(role, parts) \in Seq(InputItem)
<1>1. FlattenSeq(TextsOf(parts)) \in Text
  BY TextsProperties DEF ContentBlock
<1>2. MessageItem(role, FlattenSeq(TextsOf(parts))) \in InputItem
  BY <1>1, MessageItemTyped
<1>. QED BY <1>2 DEF Flush

Gathered == [out : Seq(InputItem), parts : Seq(ContentBlock)]

LEMMA TakeBlockTyped ==
  ASSUME NEW role \in ItemRole, NEW acc \in Gathered, NEW b \in ContentBlock
  PROVE  TakeBlock(role, acc, b) \in Gathered
<1>1. /\ acc.out \in Seq(InputItem) /\ acc.parts \in Seq(ContentBlock)
      /\ b.text \in Text /\ b.id \in Id
  BY DEF Gathered, ContentBlock
<1> DEFINE output == Item("function_call_output", "none", b.text, b.id)
<1>2. output \in InputItem
  BY <1>1, ItemTyped DEF ItemRole
<1>3. Flush(role, acc.parts) \in Seq(InputItem)
  BY <1>1, FlushTyped
<1> HIDE DEF output
<1>4. acc.out \o Flush(role, acc.parts) \o <<output>> \in Seq(InputItem)
  BY <1>1, <1>2, <1>3, ConcatProperties
<1>5. Append(acc.parts, b) \in Seq(ContentBlock) /\ <<>> \in Seq(ContentBlock)
  BY <1>1
<1>6. CASE b.type = "tool_result"
  <2>1. TakeBlock(role, acc, b) = [out |-> acc.out \o Flush(role, acc.parts) \o <<output>>,
                              parts |-> <<>>]
    BY <1>6 DEF TakeBlock, output
  <2>. QED BY <1>4, <1>5, <2>1 DEF Gathered
<1>7. CASE b.type # "tool_result"
  <2>1. TakeBlock(role, acc, b) \in {[acc EXCEPT !.parts = Append(acc.parts, b)], acc}
    BY <1>7 DEF TakeBlock
  <2>. QED BY <1>5, <2>1 DEF Gathered
<1>. QED BY <1>6, <1>7

Nothing == [out |-> <<>>, parts |-> <<>>]
GatherStep(role) ==
  [acc \in Gathered |-> [b \in ContentBlock |-> TakeBlock(role, acc, b)]]

LEMMA GatherIsFold ==
  ASSUME NEW role \in ItemRole, NEW bs \in Seq(ContentBlock)
  PROVE  /\ Nothing \in Gathered
         /\ GatherStep(role) \in [Gathered -> [ContentBlock -> Gathered]]
         /\ Gather(role, bs) = FoldOf(Gathered, GatherStep(role), Nothing, bs)
<1> DEFINE Is(f) == f = [i \in 0..Len(bs) |->
                           IF i = 0 THEN Nothing ELSE TakeBlock(role, f[i - 1], bs[i])]
           step == GatherStep(role)
           after == CHOOSE f : Is(f)
<1>1. Nothing \in Gathered
  BY DEF Gathered, Nothing
<1>2. step \in [Gathered -> [ContentBlock -> Gathered]]
  BY TakeBlockTyped DEF GatherStep
<1>3. \A acc \in Gathered, b \in ContentBlock : step[acc][b] = TakeBlock(role, acc, b)
  BY DEF GatherStep
<1> HIDE DEF step
<1>4. PICK g : Folds(Gathered, step, Nothing, bs, g)
  BY <1>1, <1>2, FoldExists
<1>5. Is(g)
  <2>1. ASSUME NEW i \in 0..Len(bs)
        PROVE  g[i] = IF i = 0 THEN Nothing ELSE TakeBlock(role, g[i - 1], bs[i])
    <3>1. CASE i = 0
      BY <1>4, <3>1 DEF Folds
    <3>2. CASE i # 0
      <4>1. i \in 1..Len(bs) /\ i - 1 \in 0..Len(bs)
        BY <3>2
      <4>2. g[i - 1] \in Gathered /\ bs[i] \in ContentBlock
        BY <1>4, <4>1 DEF Folds
      <4>. QED BY <1>3, <1>4, <3>2, <4>1, <4>2 DEF Folds
    <3>. QED BY <3>1, <3>2
  <2>. QED BY <1>4, <2>1 DEF Folds
<1>6. Is(after)
  BY <1>5
<1>7. Gather(role, bs) = after[Len(bs)]
  BY DEF Gather, Nothing
<1> HIDE DEF after
<1>8. \A i \in 0..Len(bs) :
        after[i] = IF i = 0 THEN Nothing ELSE TakeBlock(role, after[i - 1], bs[i])
  BY <1>6
<1>9. \A i \in 1..Len(bs) :
        after[i - 1] \in Gathered => after[i] = step[after[i - 1]][bs[i]]
  <2>1. \A i \in 1..Len(bs) : i \in 0..Len(bs) /\ i # 0 /\ bs[i] \in ContentBlock
    OBVIOUS
  <2>. QED BY <1>3, <1>8, <2>1
<1>10. after[0] = Nothing
  BY <1>8
<1>11. after[Len(bs)] = FoldOf(Gathered, step, Nothing, bs)
  <2>1. IsStep(ContentBlock, Gathered, step, Nothing)
    BY <1>1, <1>2 DEF IsStep
  <2>2. Runs(Gathered, step, Nothing, bs, after)
    BY <1>9, <1>10 DEF Runs
  <2>. QED BY <2>1, <2>2, RunIsFold
<1>. QED BY <1>1, <1>2, <1>7, <1>11 DEF step

LEMMA GatherProperties ==
  ASSUME NEW role \in ItemRole
  PROVE  /\ Gather(role, <<>>) = Nothing
         /\ \A bs \in Seq(ContentBlock) : Gather(role, bs) \in Gathered
         /\ \A bs \in Seq(ContentBlock), b \in ContentBlock :
              Gather(role, Append(bs, b)) = TakeBlock(role, Gather(role, bs), b)
<1> DEFINE step == GatherStep(role)
<1>1. /\ Nothing \in Gathered /\ <<>> \in Seq(ContentBlock)
      /\ step \in [Gathered -> [ContentBlock -> Gathered]]
      /\ \A bs \in Seq(ContentBlock) :
           Gather(role, bs) = FoldOf(Gathered, step, Nothing, bs)
  BY GatherIsFold, EmptySeq
<1>2. \A acc \in Gathered, b \in ContentBlock : step[acc][b] = TakeBlock(role, acc, b)
  BY DEF GatherStep
<1> HIDE DEF step
<1>3. /\ FoldOf(Gathered, step, Nothing, <<>>) = Nothing
      /\ \A bs \in Seq(ContentBlock) : FoldOf(Gathered, step, Nothing, bs) \in Gathered
      /\ \A bs \in Seq(ContentBlock), b \in ContentBlock :
           FoldOf(Gathered, step, Nothing, Append(bs, b))
             = step[FoldOf(Gathered, step, Nothing, bs)][b]
  <2>1. IsStep(ContentBlock, Gathered, step, Nothing)
    BY <1>1 DEF IsStep
  <2>. QED BY <2>1, FoldOfProperties
<1>4. \A bs \in Seq(ContentBlock), b \in ContentBlock : Append(bs, b) \in Seq(ContentBlock)
  BY AppendProperties
<1>5. \A bs \in Seq(ContentBlock) : Gather(role, bs) \in Gathered
  BY <1>1, <1>3
<1>6. ASSUME NEW bs \in Seq(ContentBlock), NEW b \in ContentBlock
      PROVE  Gather(role, Append(bs, b)) = TakeBlock(role, Gather(role, bs), b)
  <2>1. Gather(role, Append(bs, b)) = FoldOf(Gathered, step, Nothing, Append(bs, b))
    BY <1>1, <1>4
  <2>2. FoldOf(Gathered, step, Nothing, Append(bs, b)) = step[FoldOf(Gathered, step, Nothing, bs)][b]
    BY <1>3
  <2>3. FoldOf(Gathered, step, Nothing, bs) = Gather(role, bs) /\ FoldOf(Gathered, step, Nothing, bs) \in Gathered
    BY <1>1, <1>3
  <2>. QED BY <1>2, <2>1, <2>2, <2>3
<1>7. Gather(role, <<>>) = Nothing
  BY <1>1, <1>3
<1>. QED BY <1>5, <1>6, <1>7

LEMMA ResponsesMessageTyped ==
  ASSUME NEW m \in Message
  PROVE  ResponsesMessage(m) \in Seq(InputItem)
<1> DEFINE role == ResponsesRole(m.role)
<1>1. m.role \in Role /\ m.blocks \in Seq(ContentBlock) /\ role \in ItemRole
  BY DEF Message, Role, ResponsesRole, ItemRole
<1> HIDE DEF role
<1>2. CASE m.plain
  <2>1. m.blocks[1] \in ContentBlock
    <3>1. Len(m.blocks) = 1
      BY <1>2 DEF Message
    <3>. QED BY <1>1, <3>1
  <2>2. MessageItem(role, m.blocks[1].text) \in InputItem
    BY <1>1, <2>1, MessageItemTyped DEF ContentBlock
  <2>. QED BY <1>2, <2>2 DEF ResponsesMessage, role
<1>3. CASE ~m.plain /\ role = "assistant"
  <2> DEFINE s == JoinText(m.blocks)
             calls == OfType(m.blocks, "tool_use")
             head == IF s = <<>> THEN <<>> ELSE <<MessageItem("assistant", s)>>
             tail == [i \in DOMAIN calls |->
                        Item("function_call", "none", calls[i].text, calls[i].id)]
  <2>1. s \in Text
    BY <1>1, JoinTextProperties
  <2>2. head \in Seq(InputItem)
    <3>1. MessageItem("assistant", s) \in InputItem
      BY <2>1, MessageItemTyped DEF ItemRole
    <3>. QED BY <3>1
  <2>3. calls \in Seq(ContentBlock)
    BY <1>1, OfTypeProperties
  <2>4. tail \in Seq(InputItem)
    <3>1. \A i \in 1..Len(calls) :
            Item("function_call", "none", calls[i].text, calls[i].id) \in InputItem
      <4> SUFFICES ASSUME NEW i \in 1..Len(calls)
                   PROVE  Item("function_call", "none", calls[i].text, calls[i].id) \in InputItem
        OBVIOUS
      <4>1. calls[i] \in ContentBlock
        BY <2>3
      <4>. QED BY <4>1, ItemTyped DEF ContentBlock, ItemRole
    <3> HIDE DEF calls
    <3>. QED BY <2>3, <3>1
  <2>5. ResponsesMessage(m) = head \o tail
    BY <1>3 DEF ResponsesMessage, ResponsesAssistant, role
  <2> HIDE DEF head, tail
  <2>. QED BY <2>2, <2>4, <2>5, ConcatProperties
<1>4. CASE ~m.plain /\ role # "assistant"
  <2>1. ResponsesMessage(m) = ResponsesUser(role, m.blocks)
    BY <1>4 DEF ResponsesMessage, role
  <2>2. Gather(role, m.blocks) \in Gathered
    BY <1>1, GatherProperties
  <2>3. /\ Gather(role, m.blocks).out \in Seq(InputItem)
        /\ Flush(role, Gather(role, m.blocks).parts) \in Seq(InputItem)
    BY <1>1, <2>2, FlushTyped DEF Gathered
  <2>. QED BY <2>1, <2>3, ConcatProperties DEF ResponsesUser
<1>. QED BY <1>2, <1>3, <1>4

LEMMA ToResponsesProperties ==
  /\ ToResponses(<<>>) = <<>>
  /\ \A h \in Seq(Message) : ToResponses(h) \in Seq(InputItem)
  /\ \A h, r \in Seq(Message) : ToResponses(h \o r) = ToResponses(h) \o ToResponses(r)
<1> DEFINE g == [m \in Message |-> ResponsesMessage(m)]
<1>1. g \in [Message -> Seq(InputItem)]
  BY ResponsesMessageTyped
<1>2. ASSUME NEW h \in Seq(Message)
      PROVE  ToResponses(h) = Mapped(g, h)
  <2>1. [i \in DOMAIN h |-> ResponsesMessage(h[i])] = [i \in DOMAIN h |-> g[h[i]]]
    OBVIOUS
  <2>. QED BY <2>1 DEF ToResponses, Mapped
<1> HIDE DEF g
<1>3. <<>> \in Seq(Message) /\ \A h, r \in Seq(Message) : h \o r \in Seq(Message)
  BY ConcatProperties
<1>4. /\ Mapped(g, <<>>) = <<>>
      /\ \A h \in Seq(Message) : Mapped(g, h) \in Seq(InputItem)
      /\ \A h, r \in Seq(Message) : Mapped(g, h \o r) = Mapped(g, h) \o Mapped(g, r)
  BY <1>1, MappedProperties
<1>5. ASSUME NEW h \in Seq(Message), NEW r \in Seq(Message)
      PROVE  ToResponses(h \o r) = ToResponses(h) \o ToResponses(r)
  <2>1. ToResponses(h) = Mapped(g, h) /\ ToResponses(r) = Mapped(g, r)
    BY <1>2
  <2>2. ToResponses(h \o r) = Mapped(g, h \o r)
    BY <1>2, <1>3
  <2>3. Mapped(g, h \o r) = Mapped(g, h) \o Mapped(g, r)
    BY <1>4
  <2>. QED BY <2>1, <2>2, <2>3, Zenon
<1>6. ToResponses(<<>>) = <<>> /\ \A h \in Seq(Message) : ToResponses(h) \in Seq(InputItem)
  BY <1>2, <1>3, <1>4, Zenon
<1>. QED BY <1>5, <1>6

LEMMA ChatMessageTyped ==
  ASSUME NEW role \in Role \cup {"tool"}, NEW s \in Text,
         NEW calls \in Seq([id : Id, text : Text]), NEW id \in Id
  PROVE  ChatMessage(role, s, calls, id) \in ChatItem
BY DEF ChatMessage, ChatItem

LEMMA ChatConvertTyped ==
  ASSUME NEW m \in Message
  PROVE  ChatConvert(m) \in Seq(ChatItem)
<1>1. m.role \in Role /\ m.blocks \in Seq(ContentBlock)
  BY DEF Message
<1>2. NoId \in Id /\ <<>> \in Seq([id : Id, text : Text])
  BY DEF NoId, Id
<1>3. \A type : OfType(m.blocks, type) \in Seq(ContentBlock)
  BY <1>1, OfTypeProperties
<1>4. \A b \in ContentBlock : b.text \in Text /\ b.id \in Id
  BY DEF ContentBlock
<1>5. CASE m.plain
  <2>1. m.blocks[1] \in ContentBlock
    <3>1. Len(m.blocks) = 1
      BY <1>5 DEF Message
    <3>. QED BY <1>1, <3>1
  <2>2. ChatMessage(m.role, m.blocks[1].text, <<>>, NoId) \in ChatItem
    BY <1>1, <1>2, <1>4, <2>1, ChatMessageTyped
  <2>. QED BY <1>5, <2>2 DEF ChatConvert
<1>6. CASE ~m.plain /\ m.role = "assistant"
  <2> DEFINE calls == OfType(m.blocks, "tool_use")
             made == [i \in DOMAIN calls |-> [id |-> calls[i].id, text |-> calls[i].text]]
  <2>1. made \in Seq([id : Id, text : Text])
    <3>1. calls \in Seq(ContentBlock)
      BY <1>3
    <3> HIDE DEF calls
    <3> DEFINE Made == [id : Id, text : Text]
    <3>2. \A i \in 1..Len(calls) : made[i] \in Made
      BY <1>4, <3>1
    <3>3. DOMAIN made = 1..Len(calls) /\ Len(calls) \in Nat /\ made = [i \in 1..Len(calls) |-> made[i]]
      BY <3>1
    <3> HIDE DEF Made, made
    <3>4. made \in Seq(Made)
      BY <3>2, <3>3
    <3>. QED BY <3>4 DEF Made
  <2>2. JoinText(m.blocks) \in Text /\ "assistant" \in Role \cup {"tool"}
    BY <1>1, JoinTextProperties DEF Role
  <2> HIDE DEF calls, made
  <2>3. ChatMessage("assistant", JoinText(m.blocks), made, NoId) \in ChatItem
    BY <1>2, <2>1, <2>2, ChatMessageTyped
  <2>4. ChatConvert(m) = <<ChatMessage("assistant", JoinText(m.blocks), made, NoId)>>
    BY <1>6 DEF ChatConvert, ChatAssistant, calls, made
  <2>. QED BY <2>3, <2>4
<1>7. CASE ~m.plain /\ m.role # "assistant"
  <2> DEFINE results == OfType(m.blocks, "tool_result")
             parts == Only(IsPart, m.blocks)
             told == [i \in DOMAIN results |->
                        ChatMessage("tool", results[i].text, <<>>, results[i].id)]
             rest == IF parts = <<>> THEN <<>>
                     ELSE <<ChatMessage("user", FlattenSeq(TextsOf(parts)), <<>>, NoId)>>
  <2>1. told \in Seq(ChatItem)
    <3>1. results \in Seq(ContentBlock)
      BY <1>3
    <3> HIDE DEF results
    <3>2. \A i \in 1..Len(results) :
            ChatMessage("tool", results[i].text, <<>>, results[i].id) \in ChatItem
      <4> SUFFICES ASSUME NEW i \in 1..Len(results)
                   PROVE  ChatMessage("tool", results[i].text, <<>>, results[i].id) \in ChatItem
        OBVIOUS
      <4>1. results[i].text \in Text /\ results[i].id \in Id
        BY <1>4, <3>1
      <4>. QED BY <1>2, <4>1, ChatMessageTyped
    <3>. QED BY <3>1, <3>2
  <2>2. parts \in Seq(ContentBlock)
    <3> DEFINE T == {b \in ContentBlock : IsPart(b)}
    <3>1. [i \in DOMAIN m.blocks |-> IF IsPart(m.blocks[i]) THEN <<m.blocks[i]>> ELSE <<>>]
            = [i \in DOMAIN m.blocks |-> IF m.blocks[i] \in T THEN <<m.blocks[i]>> ELSE <<>>]
      BY <1>1
    <3>2. parts = Selected(T, m.blocks)
      BY <3>1 DEF Only, Selected
    <3> HIDE DEF parts
    <3>3. T \in SUBSET ContentBlock /\ m.blocks \in Seq(ContentBlock)
      BY <1>1
    <3> HIDE DEF T
    <3>. QED BY <3>2, <3>3, SelectedIsOf, Zenon
  <2>3. rest \in Seq(ChatItem)
    <3> HIDE DEF parts
    <3>1. FlattenSeq(TextsOf(parts)) \in Text
      BY <1>4, <2>2, TextsProperties
    <3>2. ChatMessage("user", FlattenSeq(TextsOf(parts)), <<>>, NoId) \in ChatItem
      BY <1>2, <3>1, ChatMessageTyped DEF Role
    <3>. QED BY <3>2
  <2>4. ChatConvert(m) = told \o rest
    BY <1>7 DEF ChatConvert, ChatUser
  <2> HIDE DEF told, rest
  <2>. QED BY <2>1, <2>3, <2>4, ConcatProperties
<1>. QED BY <1>5, <1>6, <1>7

LEMMA ToChatProperties ==
  /\ ToChat(<<>>) = <<>>
  /\ \A h \in Seq(Message) : ToChat(h) \in Seq(ChatItem)
  /\ \A h, r \in Seq(Message) : ToChat(h \o r) = ToChat(h) \o ToChat(r)
<1> DEFINE g == [m \in Message |-> ChatConvert(m)]
<1>1. g \in [Message -> Seq(ChatItem)]
  BY ChatConvertTyped
<1>2. ASSUME NEW h \in Seq(Message)
      PROVE  ToChat(h) = Mapped(g, h)
  <2>1. [i \in DOMAIN h |-> ChatConvert(h[i])] = [i \in DOMAIN h |-> g[h[i]]]
    OBVIOUS
  <2>. QED BY <2>1 DEF ToChat, Mapped
<1> HIDE DEF g
<1>3. <<>> \in Seq(Message) /\ \A h, r \in Seq(Message) : h \o r \in Seq(Message)
  BY ConcatProperties
<1>4. /\ Mapped(g, <<>>) = <<>>
      /\ \A h \in Seq(Message) : Mapped(g, h) \in Seq(ChatItem)
      /\ \A h, r \in Seq(Message) : Mapped(g, h \o r) = Mapped(g, h) \o Mapped(g, r)
  BY <1>1, MappedProperties
<1>5. ASSUME NEW h \in Seq(Message), NEW r \in Seq(Message)
      PROVE  ToChat(h \o r) = ToChat(h) \o ToChat(r)
  <2>1. ToChat(h) = Mapped(g, h) /\ ToChat(r) = Mapped(g, r)
    BY <1>2
  <2>2. ToChat(h \o r) = Mapped(g, h \o r)
    BY <1>2, <1>3
  <2>3. Mapped(g, h \o r) = Mapped(g, h) \o Mapped(g, r)
    BY <1>4
  <2>. QED BY <2>1, <2>2, <2>3, Zenon
<1>6. ToChat(<<>>) = <<>> /\ \A h \in Seq(Message) : ToChat(h) \in Seq(ChatItem)
  BY <1>2, <1>3, <1>4, Zenon
<1>. QED BY <1>5, <1>6

\* Whatever the dialect, a longer conversation converts to a longer request.
SentItem == InputItem \cup ChatItem \cup Message

LEMMA ConvertProperties ==
  ASSUME NEW b \in Backends, NEW h \in Seq(Message), NEW r \in Seq(Message)
  PROVE  /\ Convert(b, Sanitize(h)) \in Seq(SentItem)
         /\ Convert(b, Sanitize(h \o r)) \in Seq(SentItem)
         /\ IsPrefix(Convert(b, Sanitize(h)), Convert(b, Sanitize(h \o r)))
<1> DEFINE s == Sanitize(h)
           t == Sanitize(r)
<1>1. s \in Seq(Message) /\ t \in Seq(Message) /\ Sanitize(h \o r) = s \o t
  BY SanitizeProperties
<1> HIDE DEF s, t
<1>2. \A x : x \in Seq(InputItem) \/ x \in Seq(ChatItem) \/ x \in Seq(Message)
               => x \in Seq(SentItem)
  BY SeqMonotonic DEF SentItem
<1>3. Convert(b, s \o t) = Convert(b, s) \o Convert(b, t)
  BY <1>1, ToResponsesProperties, ToChatProperties DEF Convert
<1>4. Convert(b, s) \in Seq(SentItem) /\ Convert(b, t) \in Seq(SentItem)
  BY <1>1, <1>2, ToResponsesProperties, ToChatProperties DEF Convert
<1>5. Convert(b, s) \o Convert(b, t) \in Seq(SentItem)
  BY <1>4, ConcatProperties
<1>6. IsPrefix(Convert(b, s), Convert(b, s) \o Convert(b, t))
  BY <1>4, PrependProperties DEF Prepend
<1>. QED BY <1>1, <1>3, <1>4, <1>5, <1>6 DEF s

-----------------------------------------------------------------------------
(* A continuation's prefill.                                               *)

LEMMA BlankSaysNothing ==
  ASSUME NEW s \in Text, \A i \in DOMAIN s : s[i] = Blank
  PROVE  Words(s) = <<>>
<1> DEFINE N == Nat
           T == {t \in Text : (\A i \in DOMAIN t : t[i] = Blank) => Words(t) = <<>>}
<1>1. <<>> \in T
  BY WordsProperties DEF Text
<1>2. ASSUME NEW t \in Seq(N), NEW x \in N, t \in T
      PROVE  Append(t, x) \in T
  <2> SUFFICES ASSUME \A i \in DOMAIN Append(t, x) : Append(t, x)[i] = Blank
               PROVE  Words(Append(t, x)) = <<>>
    BY AppendProperties DEF Text
  <2>1. /\ DOMAIN Append(t, x) = 1..Len(t) + 1 /\ Append(t, x)[Len(t) + 1] = x
        /\ \A i \in 1..Len(t) : Append(t, x)[i] = t[i]
    BY AppendProperties
  <2>2. x = Blank /\ \A i \in DOMAIN t : t[i] = Blank
    BY <2>1
  <2>3. Words(t) = <<>> /\ Words(<<x>>) = <<>>
    BY <1>2, <2>2, WordsProperties
  <2>4. Append(t, x) = t \o <<x>> /\ t \in Text /\ <<x>> \in Text
    BY AppendIsConcat DEF Text
  <2>5. Words(t \o <<x>>) = Words(t) \o Words(<<x>>)
    BY <2>4, WordsProperties
  <2>. QED BY <2>3, <2>4, <2>5
<1> HIDE DEF T
<1>3. Seq(N) \subseteq T
  BY <1>1, <1>2, SequenceInduction
<1>. QED BY <1>3 DEF T, Text

\* A set of positions has a first and a last one.
LEMMA FirstAndLast ==
  ASSUME NEW n \in Nat, NEW I \in SUBSET (1..n), I # {}
  PROVE  /\ \E i \in I : \A j \in I : i <= j
         /\ \E i \in I : \A j \in I : j <= i
<1>1. I \in SUBSET Nat
  OBVIOUS
<1>2. \E i \in I : \A j \in I : i <= j
  BY <1>1, SetOfNaturalsHasMin
<1> DEFINE J == {n - i : i \in I}
<1>3. J \in SUBSET Nat /\ J # {}
  <2>1. ASSUME NEW i \in I
        PROVE  n - i \in Nat
    <3>1. i \in 1..n
      OBVIOUS
    <3>. QED BY <3>1
  <2>2. PICK i \in I : TRUE
    OBVIOUS
  <2>. QED BY <2>1, <2>2
<1>4. PICK j \in J : \A k \in J : j <= k
  BY <1>3, SetOfNaturalsHasMin
<1>5. PICK i \in I : j = n - i
  BY <1>4
<1>6. ASSUME NEW k \in I
      PROVE  k <= i
  <2>1. n - k \in J
    OBVIOUS
  <2>2. n - i <= n - k
    BY <1>4, <1>5, <2>1
  <2>3. k \in Nat /\ i \in Nat
    OBVIOUS
  <2>. QED BY <2>2, <2>3
<1>. QED BY <1>2, <1>6

LEMMA TrimKeepsWords ==
  ASSUME NEW s \in Text
  PROVE  /\ Trim(s) \in Text /\ Words(Trim(s)) = Words(s)
         /\ Words(s) # <<>> => Trim(s) # <<>>
<1> DEFINE visible == {i \in DOMAIN s : s[i] # Blank}
           first == CHOOSE i \in visible : \A j \in visible : i <= j
           last == CHOOSE i \in visible : \A j \in visible : j <= i
           n == Len(s)
<1>1. n \in Nat /\ DOMAIN s = 1..n /\ \A i \in 1..n : s[i] \in Nat
  BY DEF Text
<1>2. CASE visible = {}
  <2>1. Words(s) = <<>>
    BY <1>2, BlankSaysNothing
  <2>2. Trim(s) = <<>>
    BY <1>2 DEF Trim
  <2>. QED BY <2>1, <2>2, WordsProperties DEF Text
<1>3. CASE visible # {}
  <2>1. visible \in SUBSET (1..n)
    BY <1>1
  <2> HIDE DEF visible
  <2>2. /\ first \in visible /\ \A j \in visible : first <= j
        /\ last \in visible /\ \A j \in visible : j <= last
    BY <1>1, <1>3, <2>1, FirstAndLast
  <2>3. Trim(s) = SubSeq(s, first, last)
    BY <1>3 DEF Trim, visible
  <2> HIDE DEF first, last, n
  <2>4. first \in 1..n /\ last \in 1..n /\ first <= last
    BY <2>1, <2>2
  <2>5. \A i \in 1..n : i < first \/ i > last => s[i] = Blank
    <3>1. \A i \in 1..n : i \in visible <=> s[i] # Blank
      BY <1>1 DEF visible
    <3>2. \A i \in 1..n : i \in visible => first <= i /\ i <= last
      BY <2>2
    <3>. QED BY <2>4, <3>1, <3>2
  <2> DEFINE head == SubSeq(s, 1, first - 1)
             middle == SubSeq(s, first, last)
             tail == SubSeq(s, last + 1, n)
  <2>6. s = (head \o middle) \o tail
    <3>1. head \o middle = SubSeq(s, 1, last)
      <4>1. /\ 1 \in 1..n + 1 /\ first - 1 \in (1 - 1)..n /\ last \in (first - 1)..n
            /\ (first - 1) + 1 = first
        BY <1>1, <2>4
      <4>2. SubSeq(s, 1, first - 1) \o SubSeq(s, (first - 1) + 1, last) = SubSeq(s, 1, last)
        BY <4>1, ConcatAdjacentSubSeq DEF Text, n
      <4>. QED BY <4>1, <4>2
    <3>2. SubSeq(s, 1, last) \o tail = SubSeq(s, 1, n)
      <4>1. 1 \in 1..n + 1 /\ last \in (1 - 1)..n /\ n \in last..n
        BY <1>1, <2>4
      <4>. QED BY <4>1, ConcatAdjacentSubSeq DEF Text, n
    <3>3. SubSeq(s, 1, n) = s
      BY SubSeqFull DEF Text, n
    <3>. QED BY <3>1, <3>2, <3>3
  <2>7. /\ head \in Text /\ Len(head) = first - 1
        /\ \A i \in 1..first - 1 : head[i] = s[i]
    <3>1. \A i \in 1..first - 1 : s[i] \in Nat
      BY <1>1, <2>4
    <3>2. 1 \in Int /\ first - 1 \in Int /\ (1 <= first - 1 \/ first - 1 = 0)
      BY <2>4
    <3>3. /\ SubSeq(s, 1, first - 1) \in Seq(Nat)
          /\ Len(SubSeq(s, 1, first - 1)) = IF 1 <= first - 1 THEN first - 1 - 1 + 1 ELSE 0
          /\ \A i \in 1..first - 1 - 1 + 1 : SubSeq(s, 1, first - 1)[i] = s[1 + i - 1]
      BY <3>1, <3>2, SubSeqProperties
    <3> HIDE DEF head
    <3>4. \A i \in 1..first - 1 : i \in 1..first - 1 - 1 + 1 /\ 1 + i - 1 = i
      BY <2>4
    <3>. QED BY <3>2, <3>3, <3>4 DEF head, Text
  <2>8. middle \in Text /\ Len(middle) = last - first + 1
    <3>1. \A i \in first..last : s[i] \in Nat
      BY <1>1, <2>4
    <3>. QED BY <2>4, <3>1, SubSeqProperties DEF Text
  <2>9. /\ tail \in Text /\ Len(tail) = n - last
        /\ \A i \in 1..n - last : tail[i] = s[last + i]
    <3>1. \A i \in last + 1..n : s[i] \in Nat
      BY <1>1, <2>4
    <3>2. last + 1 \in Int /\ n \in Int
      BY <1>1, <2>4
    <3>3. /\ SubSeq(s, last + 1, n) \in Seq(Nat)
          /\ Len(SubSeq(s, last + 1, n)) = IF last + 1 <= n THEN n - (last + 1) + 1 ELSE 0
          /\ \A i \in 1..n - (last + 1) + 1 : SubSeq(s, last + 1, n)[i] = s[last + 1 + i - 1]
      BY <3>1, <3>2, SubSeqProperties
    <3> HIDE DEF tail
    <3>4. \A i \in 1..n - last : i \in 1..n - (last + 1) + 1 /\ last + 1 + i - 1 = last + i
      BY <1>1, <2>4
    <3>5. (IF last + 1 <= n THEN n - (last + 1) + 1 ELSE 0) = n - last
      BY <1>1, <2>4
    <3>. QED BY <3>3, <3>4, <3>5 DEF tail, Text
  <2> HIDE DEF head, middle, tail
  <2>10. Words(head) = <<>>
    <3>1. \A i \in DOMAIN head : head[i] = Blank
      <4>1. DOMAIN head = 1..first - 1
        BY <2>7 DEF Text
      <4>2. \A i \in 1..first - 1 : i \in 1..n /\ i < first
        BY <1>1, <2>4
      <4>. QED BY <2>5, <2>7, <4>1, <4>2
    <3>. QED BY <2>7, <3>1, BlankSaysNothing
  <2>11. Words(tail) = <<>>
    <3>1. \A i \in DOMAIN tail : tail[i] = Blank
      <4>1. DOMAIN tail = 1..n - last
        BY <2>9 DEF Text
      <4>2. \A i \in 1..n - last : last + i \in 1..n /\ last + i > last
        BY <1>1, <2>4
      <4>. QED BY <2>5, <2>9, <4>1, <4>2
    <3>. QED BY <2>9, <3>1, BlankSaysNothing
  <2>12. Words(s) = (Words(head) \o Words(middle)) \o Words(tail)
    <3>1. head \o middle \in Text
      BY <2>7, <2>8, ConcatProperties DEF Text
    <3>2. Words((head \o middle) \o tail) = Words(head \o middle) \o Words(tail)
      BY <2>9, <3>1, WordsProperties
    <3>3. Words(head \o middle) = Words(head) \o Words(middle)
      BY <2>7, <2>8, WordsProperties
    <3>. QED BY <2>6, <3>2, <3>3
  <2>13. Words(middle) \in Seq(Nat)
    BY <2>8, WordsProperties DEF Text
  <2>14. Words(s) = Words(middle)
    BY <2>10, <2>11, <2>12, <2>13, ConcatEmptySeq
  <2>15. middle # <<>>
    BY <2>4, <2>8
  <2>. QED BY <2>3, <2>8, <2>14, <2>15 DEF middle
<1>. QED BY <1>2, <1>3

\* It stands behind the first `base` items and replaces what stood there.
LEMMA PrefillProperties ==
  ASSUME NEW input \in Seq(SentItem), NEW base \in Nat, base <= Len(input), NEW s \in Text
  PROVE  LET after == SetAssistantPrefill(input, base, s)
         IN  /\ after \in Seq(SentItem) /\ base <= Len(after)
             /\ SubSeq(after, 1, base) = SubSeq(input, 1, base)
             /\ Words(s) # <<>> =>
                  Len(after) = base + 1 /\ Words(Last(after).text) = Words(s)
<1> DEFINE after == SetAssistantPrefill(input, base, s)
           kept == SubSeq(input, 1, base)
           item == MessageItem("assistant", Trim(s))
<1>1. Trim(s) \in Text /\ Words(Trim(s)) = Words(s) /\ (Words(s) # <<>> => Trim(s) # <<>>)
  BY TrimKeepsWords
<1>2. CASE Trim(s) = <<>>
  BY <1>1, <1>2 DEF SetAssistantPrefill
<1>3. CASE Trim(s) # <<>>
  <2>1. kept \in Seq(SentItem) /\ Len(kept) = base
    <3>1. \A i \in 1..base : input[i] \in SentItem
      OBVIOUS
    <3>2. /\ SubSeq(input, 1, base) \in Seq(SentItem)
          /\ Len(SubSeq(input, 1, base)) = IF 1 <= base THEN base - 1 + 1 ELSE 0
      BY <3>1, SubSeqProperties
    <3>. QED BY <3>2
  <2>2. item \in SentItem /\ item.text = Trim(s)
    <3>1. item \in InputItem
      BY <1>1, MessageItemTyped DEF ItemRole
    <3>. QED BY <3>1 DEF SentItem, MessageItem, Item
  <2>3. after = Append(kept, item)
    BY <1>3 DEF SetAssistantPrefill
  <2> HIDE DEF after, kept, item
  <2>4. /\ after \in Seq(SentItem) /\ Len(after) = base + 1
        /\ after[base + 1] = item
    BY <2>1, <2>2, <2>3, AppendProperties
  <2>5. SubSeq(after, 1, base) = kept
    <3>1. IsPrefix(kept, after)
      <4>1. after = kept \o <<item>> /\ <<item>> \in Seq(SentItem)
        BY <2>1, <2>2, <2>3, AppendIsConcat
      <4>. QED BY <2>1, <4>1, PrependProperties DEF Prepend
    <3>2. SubSeq(kept, 1, base) = kept
      BY <2>1, SubSeqFull
    <3>. QED BY <2>1, <3>1, <3>2 DEF IsPrefix
  <2>6. Last(after).text = Trim(s)
    BY <2>2, <2>4 DEF Last
  <2>. QED BY <1>1, <2>4, <2>5, <2>6 DEF after, kept
<1>. QED BY <1>2, <1>3

-----------------------------------------------------------------------------
(* FromProvider: what a reply becomes.                                     *)

LEMMA IdOrTyped ==
  ASSUME NEW id \in Id, NEW position \in Nat
  PROVE  IdOr(id, position) \in Id
BY DEF IdOr, FallbackId, Id

LEMMA TextOrNothingTyped ==
  ASSUME NEW s \in Text
  PROVE  TextOrNothing(s) \in Seq(ContentBlock)
<1>1. TextBlock(s) \in ContentBlock
  BY DEF TextBlock, Block, ContentBlock, NoId, Id
<1>. QED BY <1>1 DEF TextOrNothing

LEMMA ToolUseTyped ==
  ASSUME NEW id \in Id, NEW s \in Text
  PROVE  ToolUse(id, s) \in ContentBlock
BY DEF ToolUse, Block, ContentBlock

LEMMA SaidTyped ==
  ASSUME NEW items \in Seq(ReplyItem), NEW kind
  PROVE  Said(items, kind) \in Text
<1> DEFINE T == {x \in ReplyItem : x.kind = kind}
           chosen == [i \in DOMAIN items |-> IF items[i].kind = kind THEN <<items[i]>> ELSE <<>>]
<1>1. chosen = [i \in DOMAIN items |-> IF items[i] \in T THEN <<items[i]>> ELSE <<>>]
  OBVIOUS
<1>2. Said(items, kind) = FlattenSeq(TextsOf(Selected(T, items)))
  BY <1>1 DEF Said, Only, Selected
<1>3. Selected(T, items) \in Seq(ReplyItem)
  BY SelectedProperties
<1>4. \A x \in ReplyItem : x.text \in Text
  BY DEF ReplyItem
<1>. QED BY <1>2, <1>3, <1>4, TextsProperties

LEMMA CallsTyped ==
  ASSUME NEW items \in Seq(ReplyItem)
  PROVE  Calls(items) \in Seq(ReplyItem)
<1> DEFINE T == {x \in ReplyItem : x.kind = "call"}
           chosen == [i \in DOMAIN items |-> IF items[i].kind = "call" THEN <<items[i]>> ELSE <<>>]
<1>1. chosen = [i \in DOMAIN items |-> IF items[i] \in T THEN <<items[i]>> ELSE <<>>]
  OBVIOUS
<1>2. Calls(items) = Selected(T, items)
  BY <1>1 DEF Calls, Only, Selected
<1>3. T \in SUBSET ReplyItem
  OBVIOUS
<1> HIDE DEF T
<1>4. Selected(T, items) \in Seq(ReplyItem)
  BY <1>3, SelectedProperties
<1>. QED BY <1>2, <1>4

\* An item's block, a sequence of at most one.
LEMMA PiecesTyped ==
  ASSUME NEW items \in Seq(ReplyItem), NEW i \in DOMAIN items
  PROVE  /\ <<ToolUse(IdOr(items[i].id, i - 1), items[i].text)>> \in Seq(ContentBlock)
         /\ TextOrNothing(items[i].text) \in Seq(ContentBlock)
<1>1. items[i].id \in Id /\ items[i].text \in Text /\ i - 1 \in Nat
  <2>1. items[i] \in ReplyItem /\ i \in 1..Len(items) /\ Len(items) \in Nat
    OBVIOUS
  <2>. QED BY <2>1 DEF ReplyItem
<1>2. IdOr(items[i].id, i - 1) \in Id
  BY <1>1, IdOrTyped
<1>3. ToolUse(IdOr(items[i].id, i - 1), items[i].text) \in ContentBlock
  BY <1>1, <1>2, ToolUseTyped
<1>. QED BY <1>1, <1>3, TextOrNothingTyped

LEMMA WholeBlocksTyped ==
  ASSUME NEW items \in Seq(ReplyItem)
  PROVE  WholeBlocks(items) \in Seq(ContentBlock)
<1> DEFINE seqs == [i \in DOMAIN items |->
                      IF items[i].kind = "call"
                      THEN <<ToolUse(IdOr(items[i].id, i - 1), items[i].text)>>
                      ELSE TextOrNothing(items[i].text)]
<1>1. \A i \in 1..Len(items) : seqs[i] \in Seq(ContentBlock)
  BY PiecesTyped
<1>2. seqs \in Seq(Seq(ContentBlock))
  <2>1. DOMAIN seqs = 1..Len(items) /\ Len(items) \in Nat
    OBVIOUS
  <2>2. seqs = [i \in DOMAIN seqs |-> seqs[i]]
    OBVIOUS
  <2> HIDE DEF seqs
  <2>. QED BY <1>1, <2>1, <2>2, SeqDef
<1>3. WholeBlocks(items) = FlattenSeq(seqs)
  BY DEF WholeBlocks
<1>. QED BY <1>2, <1>3, FlattenSeqTyped

LEMMA AssembledBlocksTyped ==
  ASSUME NEW items \in Seq(ReplyItem)
  PROVE  AssembledBlocks(items) \in Seq(ContentBlock)
<1> DEFINE seqs == [i \in DOMAIN items |->
                      IF items[i].kind = "call"
                      THEN <<ToolUse(IdOr(items[i].id, i - 1), items[i].text)>>
                      ELSE <<>>]
           r == TextOrNothing(Said(items, "reasoning"))
           t == TextOrNothing(Said(items, "message"))
<1>1. \A i \in 1..Len(items) : seqs[i] \in Seq(ContentBlock)
  BY PiecesTyped
<1>2. seqs \in Seq(Seq(ContentBlock))
  <2>1. DOMAIN seqs = 1..Len(items) /\ Len(items) \in Nat
    OBVIOUS
  <2>2. seqs = [i \in DOMAIN seqs |-> seqs[i]]
    OBVIOUS
  <2> HIDE DEF seqs
  <2>. QED BY <1>1, <2>1, <2>2, SeqDef
<1>3. AssembledBlocks(items) = r \o t \o FlattenSeq(seqs)
  BY DEF AssembledBlocks
<1>4. r \in Seq(ContentBlock) /\ t \in Seq(ContentBlock)
  BY SaidTyped, TextOrNothingTyped
<1>5. FlattenSeq(seqs) \in Seq(ContentBlock)
  BY <1>2, FlattenSeqTyped
<1> HIDE DEF seqs, r, t
<1>. QED BY <1>3, <1>4, <1>5, ConcatProperties

LEMMA ChatWholeBlocksTyped ==
  ASSUME NEW items \in Seq(ReplyItem)
  PROVE  ChatWholeBlocks(items) \in Seq(ContentBlock)
<1> DEFINE calls == Calls(items)
           uses == [i \in DOMAIN calls |-> ToolUse(IdOr(calls[i].id, i - 1), calls[i].text)]
           r == TextOrNothing(Said(items, "reasoning"))
           t == TextOrNothing(Said(items, "message"))
<1>1. calls \in Seq(ReplyItem)
  BY CallsTyped
<1>2. uses \in Seq(ContentBlock)
  <2> HIDE DEF calls
  <2>1. ASSUME NEW i \in 1..Len(calls)
        PROVE  ToolUse(IdOr(calls[i].id, i - 1), calls[i].text) \in ContentBlock
    <3>1. calls[i] \in ReplyItem /\ Len(calls) \in Nat
      BY <1>1
    <3>2. calls[i].id \in Id /\ calls[i].text \in Text /\ i - 1 \in Nat
      BY <3>1 DEF ReplyItem
    <3>. QED BY <3>2, IdOrTyped, ToolUseTyped
  <2>. QED BY <1>1, <2>1
<1>3. r \in Seq(ContentBlock) /\ t \in Seq(ContentBlock)
  BY SaidTyped, TextOrNothingTyped
<1>4. ChatWholeBlocks(items) = r \o t \o uses
  BY DEF ChatWholeBlocks
<1> HIDE DEF uses, r, t
<1>. QED BY <1>2, <1>3, <1>4, ConcatProperties

LEMMA AddTyped ==
  ASSUME NEW out \in Seq(ContentBlock), NEW item \in ReplyItem, NEW next \in Nat
  PROVE  Add(next, out, item) \in Seq(ContentBlock)
<1>1. item.id \in Id /\ item.text \in Text /\ next + Len(out) \in Nat
  BY DEF ReplyItem
<1>2. ToolUse(IdOr(item.id, next + Len(out)), item.text) \in ContentBlock
  BY <1>1, IdOrTyped, ToolUseTyped
<1>3. TextOrNothing(item.text) \in Seq(ContentBlock) /\ TextBlock(item.text) \in ContentBlock
  BY <1>1, TextOrNothingTyped DEF TextBlock, Block, ContentBlock, NoId, Id
<1>4. /\ Append(out, ToolUse(IdOr(item.id, next + Len(out)), item.text)) \in Seq(ContentBlock)
      /\ Append(out, TextBlock(item.text)) \in Seq(ContentBlock)
      /\ out \o TextOrNothing(item.text) \in Seq(ContentBlock)
  BY <1>2, <1>3, AppendProperties, ConcatProperties
<1>. QED BY <1>4 DEF Add

LEMMA ChatAddTyped ==
  ASSUME NEW out \in Seq(ContentBlock), NEW item \in ReplyItem
  PROVE  ChatAdd(out, item) \in Seq(ContentBlock)
<1>1. item.id \in Id /\ item.text \in Text /\ Len(out) \in Nat
  BY DEF ReplyItem
<1>2. ToolUse(IdOr(item.id, Len(out)), item.text) \in ContentBlock
  BY <1>1, IdOrTyped, ToolUseTyped
<1>3. TextBlock(item.text) \in ContentBlock
  BY <1>1 DEF TextBlock, Block, ContentBlock, NoId, Id
<1>4. /\ Append(out, ToolUse(IdOr(item.id, Len(out)), item.text)) \in Seq(ContentBlock)
      /\ Append(out, TextBlock(item.text)) \in Seq(ContentBlock)
  BY <1>2, <1>3, AppendProperties
<1>5. ASSUME out # <<>>
      PROVE  [out EXCEPT ![Len(out)].text = @ \o item.text] \in Seq(ContentBlock)
  <2>1. Len(out) \in 1..Len(out) /\ out[Len(out)] \in ContentBlock
    BY <1>5
  <2>2. out[Len(out)].text \o item.text \in Text
    BY <1>1, <2>1, ConcatProperties DEF ContentBlock, Text
  <2> DEFINE more == [out[Len(out)] EXCEPT !.text = out[Len(out)].text \o item.text]
  <2>3. more \in ContentBlock
    BY <2>1, <2>2 DEF ContentBlock
  <2>4. [out EXCEPT ![Len(out)].text = @ \o item.text] = [out EXCEPT ![Len(out)] = more]
    BY <2>1
  <2> HIDE DEF more
  <2>. QED BY <2>1, <2>3, <2>4, ExceptSeq
<1>. QED BY <1>4, <1>5 DEF ChatAdd

StreamStep(next) ==
  [out \in Seq(ContentBlock) |-> [x \in ReplyItem |-> Add(next, out, x)]]

LEMMA StreamedBlocksIsFold ==
  ASSUME NEW items \in Seq(ReplyItem), NEW next \in Nat
  PROVE  /\ StreamStep(next) \in [Seq(ContentBlock) -> [ReplyItem -> Seq(ContentBlock)]]
         /\ StreamedBlocks(items, next) = FoldOf(Seq(ContentBlock), StreamStep(next), <<>>, items)
<1> DEFINE Out == Seq(ContentBlock)
           Is(f) == f = [i \in 0..Len(items) |->
                           IF i = 0 THEN <<>> ELSE Add(next, f[i - 1], items[i])]
           step == StreamStep(next)
           after == CHOOSE f : Is(f)
<1>1. <<>> \in Out
  OBVIOUS
<1>2. step \in [Out -> [ReplyItem -> Out]]
  BY AddTyped DEF StreamStep
<1>3. \A out \in Out, x \in ReplyItem : step[out][x] = Add(next, out, x)
  BY DEF StreamStep
<1> HIDE DEF step, Out
<1>4. PICK g : Folds(Out, step, <<>>, items, g)
  BY <1>1, <1>2, FoldExists
<1>5. Is(g)
  <2>1. ASSUME NEW i \in 0..Len(items)
        PROVE  g[i] = IF i = 0 THEN <<>> ELSE Add(next, g[i - 1], items[i])
    <3>1. CASE i = 0
      BY <1>4, <3>1 DEF Folds
    <3>2. CASE i # 0
      <4>1. i \in 1..Len(items) /\ i - 1 \in 0..Len(items)
        BY <3>2
      <4>2. g[i - 1] \in Out /\ items[i] \in ReplyItem
        BY <1>4, <4>1 DEF Folds
      <4>. QED BY <1>3, <1>4, <3>2, <4>1, <4>2 DEF Folds
    <3>. QED BY <3>1, <3>2
  <2>. QED BY <1>4, <2>1 DEF Folds
<1>6. Is(after)
  BY <1>5
<1>7. StreamedBlocks(items, next) = after[Len(items)]
  BY DEF StreamedBlocks
<1> HIDE DEF after
<1>8. \A i \in 0..Len(items) :
        after[i] = IF i = 0 THEN <<>> ELSE Add(next, after[i - 1], items[i])
  BY <1>6
<1>9. \A i \in 1..Len(items) :
        after[i - 1] \in Out => after[i] = step[after[i - 1]][items[i]]
  <2>1. \A i \in 1..Len(items) : i \in 0..Len(items) /\ i # 0 /\ items[i] \in ReplyItem
    OBVIOUS
  <2>. QED BY <1>3, <1>8, <2>1
<1>10. after[0] = <<>>
  <2>1. 0 \in 0..Len(items)
    OBVIOUS
  <2>. QED BY <1>8, <2>1
<1>11. after[Len(items)] = FoldOf(Out, step, <<>>, items)
  <2>1. IsStep(ReplyItem, Out, step, <<>>)
    BY <1>1, <1>2 DEF IsStep
  <2>2. Runs(Out, step, <<>>, items, after)
    BY <1>9, <1>10 DEF Runs
  <2>. QED BY <2>1, <2>2, RunIsFold
<1>. QED BY <1>2, <1>7, <1>11 DEF step, Out

LEMMA StreamedBlocksProperties ==
  ASSUME NEW next \in Nat
  PROVE  /\ StreamedBlocks(<<>>, next) = <<>>
         /\ \A items \in Seq(ReplyItem) : StreamedBlocks(items, next) \in Seq(ContentBlock)
         /\ \A items \in Seq(ReplyItem), x \in ReplyItem :
              StreamedBlocks(Append(items, x), next) = Add(next, StreamedBlocks(items, next), x)
<1> DEFINE Out == Seq(ContentBlock)
           step == StreamStep(next)
<1>1. /\ <<>> \in Out /\ <<>> \in Seq(ReplyItem)
      /\ step \in [Out -> [ReplyItem -> Out]]
      /\ \A items \in Seq(ReplyItem) : StreamedBlocks(items, next) = FoldOf(Out, step, <<>>, items)
  BY StreamedBlocksIsFold, EmptySeq
<1>2. \A out \in Out, x \in ReplyItem : step[out][x] = Add(next, out, x)
  BY DEF StreamStep
<1> HIDE DEF step, Out
<1>3. /\ FoldOf(Out, step, <<>>, <<>>) = <<>>
      /\ \A items \in Seq(ReplyItem) : FoldOf(Out, step, <<>>, items) \in Out
      /\ \A items \in Seq(ReplyItem), x \in ReplyItem :
           FoldOf(Out, step, <<>>, Append(items, x))
             = step[FoldOf(Out, step, <<>>, items)][x]
  <2>1. IsStep(ReplyItem, Out, step, <<>>)
    BY <1>1 DEF IsStep
  <2>. QED BY <2>1, FoldOfProperties
<1>4. \A items \in Seq(ReplyItem), x \in ReplyItem : Append(items, x) \in Seq(ReplyItem)
  BY AppendProperties
<1>5. \A items \in Seq(ReplyItem) : StreamedBlocks(items, next) \in Seq(ContentBlock)
  BY <1>1, <1>3 DEF Out
<1>6. ASSUME NEW items \in Seq(ReplyItem), NEW x \in ReplyItem
      PROVE  StreamedBlocks(Append(items, x), next) = Add(next, StreamedBlocks(items, next), x)
  <2>1. StreamedBlocks(Append(items, x), next) = FoldOf(Out, step, <<>>, Append(items, x))
    BY <1>1, <1>4
  <2>2. FoldOf(Out, step, <<>>, Append(items, x)) = step[FoldOf(Out, step, <<>>, items)][x]
    BY <1>3
  <2>3. FoldOf(Out, step, <<>>, items) = StreamedBlocks(items, next) /\ FoldOf(Out, step, <<>>, items) \in Out
    BY <1>1, <1>3
  <2>. QED BY <1>2, <2>1, <2>2, <2>3
<1>7. StreamedBlocks(<<>>, next) = <<>>
  BY <1>1, <1>3
<1>. QED BY <1>5, <1>6, <1>7

ChatStreamStep ==
  [out \in Seq(ContentBlock) |-> [x \in ReplyItem |-> ChatAdd(out, x)]]

LEMMA ChatStreamedBlocksIsFold ==
  ASSUME NEW items \in Seq(ReplyItem)
  PROVE  /\ ChatStreamStep \in [Seq(ContentBlock) -> [ReplyItem -> Seq(ContentBlock)]]
         /\ ChatStreamedBlocks(items) = FoldOf(Seq(ContentBlock), ChatStreamStep, <<>>, items)
<1> DEFINE Out == Seq(ContentBlock)
           Is(f) == f = [i \in 0..Len(items) |->
                           IF i = 0 THEN <<>> ELSE ChatAdd(f[i - 1], items[i])]
           step == ChatStreamStep
           after == CHOOSE f : Is(f)
<1>1. <<>> \in Out
  OBVIOUS
<1>2. step \in [Out -> [ReplyItem -> Out]]
  BY ChatAddTyped DEF ChatStreamStep
<1>3. \A out \in Out, x \in ReplyItem : step[out][x] = ChatAdd(out, x)
  BY DEF ChatStreamStep
<1> HIDE DEF step, Out
<1>4. PICK g : Folds(Out, step, <<>>, items, g)
  BY <1>1, <1>2, FoldExists
<1>5. Is(g)
  <2>1. ASSUME NEW i \in 0..Len(items)
        PROVE  g[i] = IF i = 0 THEN <<>> ELSE ChatAdd(g[i - 1], items[i])
    <3>1. CASE i = 0
      BY <1>4, <3>1 DEF Folds
    <3>2. CASE i # 0
      <4>1. i \in 1..Len(items) /\ i - 1 \in 0..Len(items)
        BY <3>2
      <4>2. g[i - 1] \in Out /\ items[i] \in ReplyItem
        BY <1>4, <4>1 DEF Folds
      <4>. QED BY <1>3, <1>4, <3>2, <4>1, <4>2 DEF Folds
    <3>. QED BY <3>1, <3>2
  <2>. QED BY <1>4, <2>1 DEF Folds
<1>6. Is(after)
  BY <1>5
<1>7. ChatStreamedBlocks(items) = after[Len(items)]
  BY DEF ChatStreamedBlocks
<1> HIDE DEF after
<1>8. \A i \in 0..Len(items) :
        after[i] = IF i = 0 THEN <<>> ELSE ChatAdd(after[i - 1], items[i])
  BY <1>6
<1>9. \A i \in 1..Len(items) :
        after[i - 1] \in Out => after[i] = step[after[i - 1]][items[i]]
  <2>1. \A i \in 1..Len(items) : i \in 0..Len(items) /\ i # 0 /\ items[i] \in ReplyItem
    OBVIOUS
  <2>. QED BY <1>3, <1>8, <2>1
<1>10. after[0] = <<>>
  <2>1. 0 \in 0..Len(items)
    OBVIOUS
  <2>. QED BY <1>8, <2>1
<1>11. after[Len(items)] = FoldOf(Out, step, <<>>, items)
  <2>1. IsStep(ReplyItem, Out, step, <<>>)
    BY <1>1, <1>2 DEF IsStep
  <2>2. Runs(Out, step, <<>>, items, after)
    BY <1>9, <1>10 DEF Runs
  <2>. QED BY <2>1, <2>2, RunIsFold
<1>. QED BY <1>2, <1>7, <1>11 DEF step, Out

LEMMA ChatStreamedBlocksProperties ==
  /\ ChatStreamedBlocks(<<>>) = <<>>
  /\ \A items \in Seq(ReplyItem) : ChatStreamedBlocks(items) \in Seq(ContentBlock)
  /\ \A items \in Seq(ReplyItem), x \in ReplyItem :
       ChatStreamedBlocks(Append(items, x)) = ChatAdd(ChatStreamedBlocks(items), x)
<1> DEFINE Out == Seq(ContentBlock)
           step == ChatStreamStep
<1>1. /\ <<>> \in Out /\ <<>> \in Seq(ReplyItem)
      /\ step \in [Out -> [ReplyItem -> Out]]
      /\ \A items \in Seq(ReplyItem) : ChatStreamedBlocks(items) = FoldOf(Out, step, <<>>, items)
  BY ChatStreamedBlocksIsFold, EmptySeq
<1>2. \A out \in Out, x \in ReplyItem : step[out][x] = ChatAdd(out, x)
  BY DEF ChatStreamStep
<1> HIDE DEF step, Out
<1>3. /\ FoldOf(Out, step, <<>>, <<>>) = <<>>
      /\ \A items \in Seq(ReplyItem) : FoldOf(Out, step, <<>>, items) \in Out
      /\ \A items \in Seq(ReplyItem), x \in ReplyItem :
           FoldOf(Out, step, <<>>, Append(items, x))
             = step[FoldOf(Out, step, <<>>, items)][x]
  <2>1. IsStep(ReplyItem, Out, step, <<>>)
    BY <1>1 DEF IsStep
  <2>. QED BY <2>1, FoldOfProperties
<1>4. \A items \in Seq(ReplyItem), x \in ReplyItem : Append(items, x) \in Seq(ReplyItem)
  BY AppendProperties
<1>5. \A items \in Seq(ReplyItem) : ChatStreamedBlocks(items) \in Seq(ContentBlock)
  BY <1>1, <1>3 DEF Out
<1>6. ASSUME NEW items \in Seq(ReplyItem), NEW x \in ReplyItem
      PROVE  ChatStreamedBlocks(Append(items, x)) = ChatAdd(ChatStreamedBlocks(items), x)
  <2>1. ChatStreamedBlocks(Append(items, x)) = FoldOf(Out, step, <<>>, Append(items, x))
    BY <1>1, <1>4
  <2>2. FoldOf(Out, step, <<>>, Append(items, x)) = step[FoldOf(Out, step, <<>>, items)][x]
    BY <1>3
  <2>3. FoldOf(Out, step, <<>>, items) = ChatStreamedBlocks(items) /\ FoldOf(Out, step, <<>>, items) \in Out
    BY <1>1, <1>3
  <2>. QED BY <1>2, <2>1, <2>2, <2>3
<1>7. ChatStreamedBlocks(<<>>) = <<>>
  BY <1>1, <1>3
<1>. QED BY <1>5, <1>6, <1>7

-----------------------------------------------------------------------------
(* What is said and what comes back, in the types of the variables.        *)

\* A function on 1..n is a sequence.
LEMMA FunctionIsSeq ==
  ASSUME NEW S, NEW n \in Nat, NEW f, DOMAIN f = 1..n, f = [i \in DOMAIN f |-> f[i]],
         \A i \in 1..n : f[i] \in S
  PROVE  f \in Seq(S) /\ Len(f) = n
<1>1. f \in [1..n -> S]
  OBVIOUS
<1>. QED BY <1>1, SeqDef

LEMMA FrontTyped ==
  ASSUME NEW S, NEW s \in Seq(S)
  PROVE  /\ Front(s) \in Seq(S)
         /\ s # <<>> => Len(Front(s)) = Len(s) - 1
         /\ \A i \in 1..(Len(s) - 1) : Front(s)[i] = s[i]
<1>1. Front(s) = [i \in 1..(Len(s) - 1) |-> s[i]]
  BY DEF Front
<1>2. CASE s = <<>>
  <2>1. Front(s) = <<>>
    BY <1>1, <1>2
  <2>. QED BY <2>1, <1>2
<1>3. CASE s # <<>>
  <2>1. Len(s) - 1 \in Nat /\ 1..(Len(s) - 1) \subseteq 1..Len(s)
    BY <1>3
  <2>2. \A i \in 1..(Len(s) - 1) : Front(s)[i] \in S /\ Front(s)[i] = s[i]
    BY <1>1, <2>1
  <2>3. DOMAIN Front(s) = 1..(Len(s) - 1) /\ Front(s) = [i \in DOMAIN Front(s) |-> Front(s)[i]]
    BY <1>1
  <2>. QED BY <2>1, <2>2, <2>3, FunctionIsSeq
<1>. QED BY <1>2, <1>3

LEMMA LastTyped ==
  ASSUME NEW S, NEW s \in Seq(S), s # <<>>
  PROVE  Last(s) \in S
BY DEF Last

LEMMA WordEventsTyped ==
  ASSUME NEW side \in {"user", "model"}, NEW s \in Text
  PROVE  WordEvents(side, s) \in Seq(SaidEvent)
<1> DEFINE w == Words(s)
           f == [i \in DOMAIN w |-> Event(side, "words", <<w[i]>>, <<>>)]
<1>1. w \in Seq(Nat)
  BY WordsProperties DEF Text
<1>2. WordEvents(side, s) = f
  BY DEF WordEvents
<1> HIDE DEF w
<1>3. DOMAIN f = 1..Len(w) /\ f = [i \in DOMAIN f |-> f[i]] /\ Len(w) \in Nat
  BY <1>1
<1>4. ASSUME NEW i \in 1..Len(w)
      PROVE  f[i] \in SaidEvent
  <2>1. w[i] \in Nat /\ i \in DOMAIN w
    BY <1>1
  <2>2. <<w[i]>> \in Text /\ <<>> \in Text
    BY <2>1 DEF Text
  <2>. QED BY <2>1, <2>2 DEF Event, SaidEvent
<1> HIDE DEF f
<1>. QED BY <1>2, <1>3, <1>4, FunctionIsSeq

LEMMA WrittenTyped ==
  ASSUME NEW reply \in Replies, fresh \in Nat
  PROVE  /\ Written(reply) \in Seq(ReplyItem) /\ Len(Written(reply)) = Len(reply.items)
         /\ Len(reply.items) \in Nat /\ DOMAIN reply.items = 1..Len(reply.items)
<1> DEFINE items == reply.items
           Asked == [kind : Kind, class : {"prose", "done", "blank", "empty"},
                     named : BOOLEAN]
           w == Written(reply)
<1>1. items \in Seq(Asked)
  BY ConversationAssumption
<1> DEFINE TextOf(i) == CASE items[i].class = "prose" -> <<fresh + i>>
                          [] items[i].class = "done" -> <<DonePhrase>>
                          [] items[i].class = "blank" -> <<Blank>>
                          [] OTHER -> <<>>
<1>2. w = [i \in DOMAIN items |->
             [kind |-> items[i].kind, text |-> TextOf(i),
              id |-> IF items[i].named THEN CallId(fresh + i) ELSE NoId]]
  BY DEF Written
<1> HIDE DEF items
<1>3. ASSUME NEW i \in 1..Len(items)
      PROVE  w[i] \in ReplyItem
  <2>1. items[i] \in Asked /\ i \in DOMAIN items /\ fresh + i \in Nat
    <3>1. Len(items) \in Nat
      BY <1>1
    <3>2. i \in Nat
      BY <3>1
    <3>3. fresh + i \in Nat
      BY <3>2
    <3>4. items[i] \in Asked /\ i \in DOMAIN items
      <4> HIDE DEF Asked
      <4>. QED BY <1>1
    <3>. QED BY <3>3, <3>4
  <2>2. <<fresh + i>> \in Seq(Nat) /\ <<1>> \in Seq(Nat) /\ <<0>> \in Seq(Nat) /\ <<>> \in Seq(Nat)
    BY <2>1
  <2>3. TextOf(i) \in Text
    BY <2>2 DEF Text, DonePhrase, Blank
  <2>4. CallId(fresh + i) \in Id /\ NoId \in Id
    BY <2>1 DEF CallId, NoId, Id
  <2>5. w[i] = [kind |-> items[i].kind, text |-> TextOf(i),
                id |-> IF items[i].named THEN CallId(fresh + i) ELSE NoId]
    BY <1>2, <2>1
  <2> HIDE DEF TextOf, w
  <2>. QED BY <2>1, <2>3, <2>4, <2>5 DEF ReplyItem
<1>4. DOMAIN w = 1..Len(items) /\ w = [i \in DOMAIN w |-> w[i]] /\ Len(items) \in Nat
  BY <1>1, <1>2
<1> HIDE DEF w
<1>5. w \in Seq(ReplyItem) /\ Len(w) = Len(items)
  BY <1>3, <1>4, FunctionIsSeq
<1>6. DOMAIN items = 1..Len(items)
  BY <1>1
<1>. QED BY <1>4, <1>5, <1>6 DEF w, items

LEMMA NativeBlocksTyped ==
  ASSUME NEW items \in Seq(ReplyItem), NEW b
  PROVE  NativeBlocks(b, items) \in Seq(ContentBlock)
<1> DEFINE w == NativeBlocks(b, items)
           Native(x) ==
             CASE x.kind = "reasoning" -> Thinking(x.text, b \in SignsThinking)
               [] x.kind = "message" -> TextBlock(x.text)
               [] OTHER -> ToolUse(x.id, x.text)
<1>1. w = [i \in DOMAIN items |-> Native(items[i])]
  BY DEF NativeBlocks
<1>2. ASSUME NEW x \in ReplyItem
      PROVE  Native(x) \in ContentBlock
  <2>1. x.text \in Text /\ x.id \in Id /\ (b \in SignsThinking) \in BOOLEAN
    BY DEF ReplyItem
  <2>2. /\ Thinking(x.text, b \in SignsThinking) \in ContentBlock
        /\ TextBlock(x.text) \in ContentBlock /\ ToolUse(x.id, x.text) \in ContentBlock
    BY <2>1, BlocksTyped
  <2>. QED BY <2>2
<1> HIDE DEF Native
<1>3. \A i \in 1..Len(items) : w[i] \in ContentBlock
  BY <1>1, <1>2
<1>4. DOMAIN w = 1..Len(items) /\ w = [i \in DOMAIN w |-> w[i]] /\ Len(items) \in Nat
  BY <1>1
<1> HIDE DEF w
<1>5. w \in Seq(ContentBlock)
  BY <1>3, <1>4, FunctionIsSeq
<1>. QED BY <1>5 DEF w

LEMMA RenderedTyped ==
  ASSUME NEW items \in Seq(ReplyItem), Len(blocks) \in Nat
  PROVE  Rendered(items) \in Seq(ContentBlock)
<1>1. /\ NativeBlocks(ask.to, items) \in Seq(ContentBlock)
      /\ ChatWholeBlocks(items) \in Seq(ContentBlock)
      /\ ChatStreamedBlocks(items) \in Seq(ContentBlock)
      /\ StreamedBlocks(items, Len(blocks)) \in Seq(ContentBlock)
      /\ AssembledBlocks(items) \in Seq(ContentBlock)
      /\ WholeBlocks(items) \in Seq(ContentBlock)
  BY NativeBlocksTyped, ChatWholeBlocksTyped, ChatStreamedBlocksProperties,
     StreamedBlocksProperties, AssembledBlocksTyped, WholeBlocksTyped
<1>. QED BY <1>1 DEF Rendered

LEMMA StopTyped ==
  ASSUME NEW items, NEW status
  PROVE  Stop(items, status) \in StopReason
BY DEF Stop, StopReason, ChatStop, FinishReason, StreamedStop, AssembledStop, WholeStop

LEMMA ReplyEventsTyped ==
  ASSUME NEW items \in Seq(ReplyItem)
  PROVE  ReplyEvents(items) \in Seq(SaidEvent)
<1> DEFINE Signed == Delivery = "native" /\ ask.to \in SignsThinking
           Told(x) == CASE x.kind = "call" -> <<Event("model", "call", x.text, <<>>)>>
                        [] x.kind = "reasoning" /\ Signed ->
                             <<Event("model", "thought", x.text, <<>>)>>
                        [] OTHER -> WordEvents("model", x.text)
           R == {x \in ReplyItem : x.kind = "reasoning"}
           M == {x \in ReplyItem : x.kind # "reasoning"}
           inOrder == IF Delivery # "assembled" THEN items
                      ELSE Selected(R, items) \o Selected(M, items)
           g == [x \in ReplyItem |-> Told(x)]
           Thought(x) == x.kind = "reasoning"
           Spoken(x) == x.kind # "reasoning"
<1>1. Only(Thought, items) = Selected(R, items) /\ Only(Spoken, items) = Selected(M, items)
  <2>1. /\ [i \in DOMAIN items |-> IF items[i].kind = "reasoning" THEN <<items[i]>> ELSE <<>>]
           = [i \in DOMAIN items |-> IF items[i] \in R THEN <<items[i]>> ELSE <<>>]
        /\ [i \in DOMAIN items |-> IF items[i].kind # "reasoning" THEN <<items[i]>> ELSE <<>>]
           = [i \in DOMAIN items |-> IF items[i] \in M THEN <<items[i]>> ELSE <<>>]
    OBVIOUS
  <2>. QED BY <2>1 DEF Only, Selected
<1>2. R \in SUBSET ReplyItem /\ M \in SUBSET ReplyItem
  OBVIOUS
<1>3. inOrder \in Seq(ReplyItem)
  <2> HIDE DEF R, M
  <2>1. Selected(R, items) \in Seq(ReplyItem) /\ Selected(M, items) \in Seq(ReplyItem)
    BY <1>2, SelectedProperties
  <2>. QED BY <2>1, ConcatProperties
<1>4. ASSUME NEW x \in ReplyItem
      PROVE  Told(x) \in Seq(SaidEvent)
  <2>1. x.text \in Text /\ <<>> \in Text
    BY DEF ReplyItem, Text
  <2>2. WordEvents("model", x.text) \in Seq(SaidEvent)
    BY <2>1, WordEventsTyped
  <2>3. /\ Event("model", "call", x.text, <<>>) \in SaidEvent
        /\ Event("model", "thought", x.text, <<>>) \in SaidEvent
    BY <2>1 DEF Event, SaidEvent
  <2>. QED BY <2>2, <2>3
<1>5. g \in [ReplyItem -> Seq(SaidEvent)]
  BY <1>4
<1>6. ReplyEvents(items) = FlattenSeq([i \in DOMAIN inOrder |-> Told(inOrder[i])])
  <2> HIDE DEF R, M
  <2>. QED BY <1>1 DEF ReplyEvents
<1>7. [i \in DOMAIN inOrder |-> Told(inOrder[i])] = [i \in DOMAIN inOrder |-> g[inOrder[i]]]
  <2> HIDE DEF Told, inOrder
  <2>. QED BY <1>3
<1> HIDE DEF g, inOrder, Told
<1>8. ReplyEvents(items) = Mapped(g, inOrder)
  BY <1>6, <1>7 DEF Mapped
<1>. QED BY <1>3, <1>5, <1>8, MappedProperties

-----------------------------------------------------------------------------
(* The steps, in terms of what the invariants are about.                   *)

\* Whatever Claude Code says, it puts messages behind those it holds, and
\* none of them is an assistant's.
ClientSpeaks ==
  /\ pc = "user" /\ pc' = "ready"
  /\ \E more \in Seq(Message) :
       /\ history' = history \o more /\ more # <<>>
       /\ \A i \in 1..Len(more) : more[i].role # "assistant"
  /\ said' \in Seq(SaidEvent) /\ fresh' \in Nat
  /\ UNCHANGED <<requestVars, stop, asks, sent, turn>>

LEMMA StringMessageTyped ==
  ASSUME NEW role \in Role, NEW s \in Text
  PROVE  StringMessage(role, s) \in Message /\ StringMessage(role, s).role = role
<1> DEFINE bs == <<TextBlock(s)>>
<1>1. TextBlock(s) \in ContentBlock
  BY TextBlocksTyped
<1>2. bs \in Seq(ContentBlock) /\ Len(bs) = 1
  BY <1>1
<1>3. StringMessage(role, s) = [role |-> role, plain |-> TRUE, blocks |-> bs]
  BY DEF StringMessage
<1> HIDE DEF bs
<1>. QED BY <1>2, <1>3 DEF Message

LEMMA BlockMessageTyped ==
  ASSUME NEW role \in Role, NEW bs \in Seq(ContentBlock)
  PROVE  BlockMessage(role, bs) \in Message /\ BlockMessage(role, bs).role = role
BY DEF BlockMessage, Message

LEMMA NumbersAreTexts ==
  ASSUME NEW n \in Nat
  PROVE  <<n>> \in Text
BY DEF Text

LEMMA TalkIsClients ==
  ASSUME TypeOK, NEW how, Talk(how)
  PROVE  ClientSpeaks
<1> DEFINE words == <<fresh>>
           picture == <<fresh + 1>>
           notice == <<fresh + 2>>
           ss == <<StringMessage("user", words), StringMessage("system", notice)>>
           bs == <<BlockMessage("user", <<ImageBlock(picture), TextBlock(words)>>),
                   BlockMessage("system", <<TextBlock(notice)>>)>>
           more == IF how = "strings" THEN ss ELSE bs
<1>1. fresh \in Nat /\ said \in Seq(SaidEvent)
  BY DEF TypeOK
<1>2. words \in Text /\ picture \in Text /\ notice \in Text /\ <<>> \in Text
  BY <1>1, NumbersAreTexts DEF Text
<1>3. /\ history' = history \o more
      /\ said' = said \o WordEvents("user",
                   (IF how = "strings" THEN <<>> ELSE picture) \o words \o notice)
      /\ fresh' = fresh + 3
      /\ pc = "user" /\ pc' = "ready"
      /\ UNCHANGED <<requestVars, stop, asks, sent, turn>>
  BY DEF Talk
<1> HIDE DEF words, picture, notice
<1>4. more \in Seq(Message) /\ Len(more) = 2
      /\ \A i \in 1..2 : more[i].role # "assistant"
  <2>1. /\ StringMessage("user", words) \in Message
        /\ StringMessage("user", words).role = "user"
        /\ StringMessage("system", notice) \in Message
        /\ StringMessage("system", notice).role = "system"
    BY <1>2, StringMessageTyped DEF Role
  <2>2. /\ ImageBlock(picture) \in ContentBlock /\ TextBlock(words) \in ContentBlock
        /\ TextBlock(notice) \in ContentBlock
    BY <1>2, TextBlocksTyped
  <2>3. /\ <<ImageBlock(picture), TextBlock(words)>> \in Seq(ContentBlock)
        /\ <<TextBlock(notice)>> \in Seq(ContentBlock)
    BY <2>2
  <2>4. /\ BlockMessage("user", <<ImageBlock(picture), TextBlock(words)>>) \in Message
        /\ BlockMessage("user", <<ImageBlock(picture), TextBlock(words)>>).role = "user"
        /\ BlockMessage("system", <<TextBlock(notice)>>) \in Message
        /\ BlockMessage("system", <<TextBlock(notice)>>).role = "system"
    BY <2>3, BlockMessageTyped DEF Role
  <2>5. ss \in Seq(Message) /\ Len(ss) = 2 /\ \A i \in 1..2 : ss[i].role # "assistant"
    BY <2>1
  <2>6. bs \in Seq(Message) /\ Len(bs) = 2 /\ \A i \in 1..2 : bs[i].role # "assistant"
    BY <2>4
  <2> HIDE DEF ss, bs
  <2>. QED BY <2>5, <2>6
<1>5. said' \in Seq(SaidEvent)
  <2> DEFINE s == (IF how = "strings" THEN <<>> ELSE picture) \o words \o notice
  <2>1. s \in Text
    BY <1>2, ConcatProperties DEF Text
  <2>2. said' = said \o WordEvents("user", s)
    BY <1>3
  <2> HIDE DEF s
  <2>3. WordEvents("user", s) \in Seq(SaidEvent)
    BY <2>1, WordEventsTyped
  <2>. QED BY <1>1, <2>2, <2>3, ConcatProperties
<1>6. fresh' \in Nat
  BY <1>1, <1>3
<1>7. more # <<>>
  BY <1>4
<1> HIDE DEF more
<1>. QED BY <1>3, <1>4, <1>5, <1>6, <1>7 DEF ClientSpeaks

LEMMA CompactIsClients ==
  ASSUME TypeOK, Compact
  PROVE  ClientSpeaks
<1> DEFINE m == StringMessage("user", <<CompactPhrase>>)
           more == <<m>>
<1>1. <<CompactPhrase>> \in Text
  BY NumbersAreTexts DEF CompactPhrase
<1>2. m \in Message /\ m.role = "user"
  BY <1>1, StringMessageTyped DEF Role
<1>3. /\ history' = Append(history, m)
      /\ said' = said \o WordEvents("user", <<CompactPhrase>>)
      /\ pc = "user" /\ pc' = "ready"
      /\ UNCHANGED <<requestVars, stop, asks, fresh, sent, turn>>
  BY DEF Compact
<1> HIDE DEF m
<1>4. more \in Seq(Message) /\ Len(more) = 1 /\ more # <<>>
      /\ \A i \in 1..1 : more[i].role # "assistant"
  BY <1>2
<1>5. history' = history \o more
  BY <1>2, <1>3 DEF TypeOK
<1>6. said' \in Seq(SaidEvent)
  <2>1. WordEvents("user", <<CompactPhrase>>) \in Seq(SaidEvent)
    BY <1>1, WordEventsTyped
  <2>. QED BY <1>3, <2>1, ConcatProperties DEF TypeOK
<1>7. fresh' \in Nat
  BY <1>3 DEF TypeOK
<1> HIDE DEF more
<1>. QED BY <1>3, <1>4, <1>5, <1>6, <1>7 DEF ClientSpeaks

\* The calls of a message, and only they.
LEMMA OpenCallsTyped ==
  ASSUME history \in Seq(Message)
  PROVE  OpenCalls \in Seq({b \in ContentBlock : b.type = "tool_use"})
<1>1. CASE history # <<>>
  <2>1. Last(history) \in Message
    BY <1>1, LastTyped
  <2>2. Last(history).blocks \in Seq(ContentBlock)
    BY <2>1 DEF Message
  <2>3. OfType(Last(history).blocks, "tool_use")
          \in Seq({b \in ContentBlock : b.type = "tool_use"})
    BY <2>2, OfTypeProperties
  <2>. QED BY <2>3 DEF OpenCalls
<1>2. CASE history = <<>>
  BY <1>2 DEF OpenCalls
<1>. QED BY <1>1, <1>2

\* Results and guidance, in whatever order.
LEMMA ContentTyped ==
  ASSUME NEW B, NEW results \in Seq(B), results # <<>>, NEW g \in B, NEW place
  PROVE  LET content ==
               CASE place = "none" -> results
                 [] place = "before" -> <<g>> \o results
                 [] place = "between" -> <<results[1]>> \o <<g>> \o Tail(results)
                 [] OTHER -> results \o <<g>>
         IN  content \in Seq(B)
<1>1. <<g>> \in Seq(B) /\ results[1] \in B /\ <<results[1]>> \in Seq(B)
  OBVIOUS
<1>2. Tail(results) \in Seq(B)
  OBVIOUS
<1>3. /\ <<g>> \o results \in Seq(B) /\ results \o <<g>> \in Seq(B)
      /\ <<results[1]>> \o <<g>> \in Seq(B)
  BY <1>1, ConcatProperties
<1>4. <<results[1]>> \o <<g>> \o Tail(results) \in Seq(B)
  BY <1>2, <1>3, ConcatProperties
<1>. QED BY <1>3, <1>4

LEMMA ToolsAnswerIsClients ==
  ASSUME TypeOK, NEW place, ToolsAnswer(place)
  PROVE  ClientSpeaks
<1> DEFINE calls == OpenCalls
           n == Len(calls)
           result(i) == ToolResult(calls[i].id, <<fresh + i>>)
           results == [i \in 1..n |-> result(i)]
           g == TextBlock(<<fresh>>)
           content ==
             CASE place = "none" -> results
               [] place = "before" -> <<g>> \o results
               [] place = "between" -> <<results[1]>> \o <<g>> \o Tail(results)
               [] OTHER -> results \o <<g>>
           Told(b) == IF b.type = "text" THEN WordEvents("user", b.text)
                      ELSE LET call == CHOOSE c \in Range(calls) : c.id = b.id
                           IN  <<Event("user", "result", b.text, call.text)>>
           B == {b \in ContentBlock : b.type = "text" \/ \E c \in Range(calls) : c.id = b.id}
           f == [b \in B |-> Told(b)]
           m == BlockMessage("user", content)
           more == <<m>>
<1>1. fresh \in Nat /\ said \in Seq(SaidEvent) /\ history \in Seq(Message)
  BY DEF TypeOK
<1>2. calls \in Seq({b \in ContentBlock : b.type = "tool_use"})
  BY <1>1, OpenCallsTyped
<1>3. /\ pc = "user" /\ calls # <<>> /\ pc' = "ready"
      /\ history' = Append(history, m)
      /\ said' = said \o FlattenSeq([i \in DOMAIN content |-> Told(content[i])])
      /\ fresh' = fresh + n + 1
      /\ UNCHANGED <<requestVars, stop, asks, sent, turn>>
  BY ZenonT(20) DEF ToolsAnswer
<1> HIDE DEF calls
<1>4. n \in Nat /\ DOMAIN calls = 1..n
  BY <1>2
<1>5. ASSUME NEW i \in 1..n
      PROVE  result(i) \in B
  <2>1. calls[i] \in ContentBlock /\ i \in Nat /\ calls[i] \in Range(calls)
    BY <1>2, <1>4 DEF Range
  <2>2. calls[i].id \in Id /\ fresh + i \in Nat
    BY <1>1, <2>1 DEF ContentBlock
  <2>3. <<fresh + i>> \in Text
    BY <2>2, NumbersAreTexts
  <2>4. result(i) \in ContentBlock
    BY <2>2, <2>3, BlocksTyped
  <2>5. result(i).id = calls[i].id
    BY DEF ToolResult, Block
  <2>. QED BY <2>1, <2>4, <2>5
<1>6. g \in B
  <2>1. <<fresh>> \in Text
    BY <1>1, NumbersAreTexts
  <2>2. g \in ContentBlock
    BY <2>1, TextBlocksTyped
  <2>3. g.type = "text"
    BY DEF TextBlock, Block
  <2>. QED BY <2>2, <2>3
<1>7. results \in Seq(B) /\ Len(results) = n
  <2>1. DOMAIN results = 1..n /\ results = [i \in DOMAIN results |-> results[i]]
        /\ \A i \in 1..n : results[i] = result(i)
    OBVIOUS
  <2> HIDE DEF results, result, B
  <2>. QED BY <1>4, <1>5, <2>1, FunctionIsSeq
<1>8. results # <<>>
  <2>1. n # 0
    BY <1>2, <1>3, EmptySeq, ZenonT(20)
  <2> HIDE DEF results, B
  <2>. QED BY <1>7, <2>1
<1>9. ASSUME NEW b \in B
      PROVE  Told(b) \in Seq(SaidEvent)
  <2>1. b.text \in Text
    BY DEF ContentBlock
  <2>2. CASE b.type = "text"
    BY <2>1, <2>2, WordEventsTyped
  <2>3. CASE b.type # "text"
    <3> DEFINE call == CHOOSE c \in Range(calls) : c.id = b.id
    <3>1. call \in Range(calls)
      BY <2>3
    <3>2. call \in ContentBlock
      <4>1. \A i \in 1..n : calls[i] \in ContentBlock
        BY <1>2, <1>4
      <4> HIDE DEF call
      <4>. QED BY <1>4, <3>1, <4>1 DEF Range
    <3> HIDE DEF call
    <3>3. call.text \in Text
      BY <3>2 DEF ContentBlock
    <3>4. Event("user", "result", b.text, call.text) \in SaidEvent
      BY <2>1, <3>3 DEF Event, SaidEvent
    <3>5. <<Event("user", "result", b.text, call.text)>> \in Seq(SaidEvent)
      BY <3>4
    <3>. QED BY <2>3, <3>5 DEF call
  <2>. QED BY <2>2, <2>3
<1>10. B \subseteq ContentBlock
  OBVIOUS
<1>11. f \in [B -> Seq(SaidEvent)]
  BY <1>9
<1> HIDE DEF results, g, B, Told
<1>12. content \in Seq(B)
  BY <1>6, <1>7, <1>8, ContentTyped
<1> HIDE DEF content
<1>13. FlattenSeq([i \in DOMAIN content |-> Told(content[i])]) = Mapped(f, content)
  <2>1. [i \in DOMAIN content |-> Told(content[i])] = [i \in DOMAIN content |-> f[content[i]]]
    BY <1>12
  <2>. QED BY <2>1 DEF Mapped
<1> HIDE DEF f
<1>14. Mapped(f, content) \in Seq(SaidEvent)
  BY <1>11, <1>12, MappedProperties
<1>15. said' \in Seq(SaidEvent)
  BY <1>1, <1>3, <1>13, <1>14, ConcatProperties
<1>16. content \in Seq(ContentBlock)
  BY <1>10, <1>12
<1>17. m \in Message /\ m.role = "user"
  BY <1>16, BlockMessageTyped DEF Role
<1> HIDE DEF m
<1>18. more \in Seq(Message) /\ Len(more) = 1 /\ more # <<>>
       /\ \A i \in 1..1 : more[i].role # "assistant"
  BY <1>17
<1>19. history' = history \o more
  BY <1>1, <1>3, <1>17
<1>20. fresh' \in Nat
  BY <1>1, <1>3, <1>4
<1> HIDE DEF more
<1>. QED BY <1>3, <1>15, <1>18, <1>19, <1>20, ZenonT(20) DEF ClientSpeaks

-----------------------------------------------------------------------------
(* Types.                                                                  *)

Asking == [to : Backends \cup {"none"}, streaming : BOOLEAN,
           compaction : BOOLEAN, base : Nat]
Verdict == [turn : Nat, done : BOOLEAN]
Turn == [ended : Status \cup {"open"}, reasoned : BOOLEAN, verdicts : SUBSET Verdict]

LEMMA NothingTyped ==
  /\ None \in Sent /\ NoAsk \in Asking /\ <<>> \in Seq(ContentBlock) /\ <<>> \in Text
  /\ [b \in Backends |-> None] \in [Backends -> Sent]
<1>1. None \in Sent
  BY DEF None, Sent
<1>2. NoAsk \in Asking
  BY DEF NoAsk, Asking
<1>. QED BY <1>1, <1>2 DEF Text

LEMMA TypeInitially == Init => TypeOK
<1> SUFFICES ASSUME Init
             PROVE  TypeOK
  OBVIOUS
<1>1. /\ history = <<>> /\ pc = "user" /\ ask = NoAsk /\ body = None
      /\ blocks = <<>> /\ text = <<>> /\ round = 0 /\ stop = "none"
      /\ asks = 0 /\ fresh = 10 /\ said = <<>>
      /\ sent = [b \in Backends |-> None]
      /\ turn = [ended |-> "open", reasoned |-> FALSE, verdicts |-> {}]
  BY DEF Init
<1>2. ask \in Asking /\ body \in Sent /\ blocks \in Seq(ContentBlock) /\ text \in Text
      /\ sent \in [Backends -> Sent]
  BY <1>1, NothingTyped
<1>3. turn \in Turn
  BY <1>1 DEF Turn
<1>4. round \in 0..MaxRounds /\ asks \in 0..MaxAsks
  BY <1>1, ConversationAssumption
<1>5. history \in Seq(Message) /\ said \in Seq(SaidEvent)
  BY <1>1
<1>6. stop \in StopReason /\ fresh \in Nat /\ pc \in {"user", "ready", "asked"}
  BY <1>1 DEF StopReason
<1>. QED BY <1>2, <1>3, <1>4, <1>5, <1>6 DEF TypeOK, Asking, Turn, Verdict

LEMMA TypeClient ==
  ASSUME TypeOK, ClientSpeaks
  PROVE  TypeOK'
<1>1. PICK more \in Seq(Message) : history' = history \o more
  BY DEF ClientSpeaks
<1>2. history' \in Seq(Message)
  BY <1>1, ConcatProperties DEF TypeOK
<1>. QED BY <1>2 DEF TypeOK, ClientSpeaks, requestVars

LEMMA PrepareProperties ==
  ASSUME TypeOK, NEW b \in Backends, NEW reminder \in {<<>>, <<"reminder">>},
         NEW compaction \in BOOLEAN
  PROVE  LET prepared == Prepare(b, reminder, compaction)
         IN  /\ prepared \in Sent /\ Len(prepared.items) \in Nat
             /\ IsPrefix(HarnessPrompt[b], prepared.lead)
             /\ ~compaction => prepared.items = Convert(b, Sanitize(history))
<1> DEFINE L == {"system", "reminder", "harness"}
           client == Prepend(reminder, <<"system">>)
           lead == Prepend(HarnessPrompt[b], client)
           input == Convert(b, Sanitize(history))
           items == ShapeBody(compaction /\ b \in Triggers, input)
           prepared == Prepare(b, reminder, compaction)
<1>1. reminder \in Seq(L) /\ <<"system">> \in Seq(L)
  <2>1. <<"reminder">> \in Seq(L) /\ <<"system">> \in Seq(L) /\ <<>> \in Seq(L)
    OBVIOUS
  <2> HIDE DEF L
  <2>. QED BY <2>1
<1>2. HarnessPrompt[b] \in Seq(L)
  <2>1. <<"harness">> \in Seq(L) /\ <<>> \in Seq(L)
    OBVIOUS
  <2>2. HarnessPrompt[b] \in {<<>>, <<"harness">>}
    BY ConversationAssumption
  <2> HIDE DEF L
  <2>. QED BY <2>1, <2>2
<1>3. client \in Seq(L)
  <2> HIDE DEF L
  <2>. QED BY <1>1, PrependProperties
<1>4. lead \in Seq(L) /\ IsPrefix(HarnessPrompt[b], lead)
  <2> HIDE DEF L, client
  <2>. QED BY <1>2, <1>3, PrependProperties
<1>5. input \in Seq(SentItem)
  <2>1. history \in Seq(Message) /\ <<>> \in Seq(Message)
    BY DEF TypeOK
  <2>. QED BY <2>1, ConvertProperties
<1>6. items \in Seq(SentItem) /\ Len(items) \in Nat
  <2>1. Item("trigger", "none", <<>>, NoId) \in SentItem
    <3>1. <<>> \in Text /\ NoId \in Id
      BY DEF Text, NoId, Id
    <3>2. Item("trigger", "none", <<>>, NoId) \in InputItem
      BY <3>1, ItemTyped DEF ItemRole
    <3>. QED BY <3>2 DEF SentItem
  <2> DEFINE more == Append(input, Item("trigger", "none", <<>>, NoId))
  <2> HIDE DEF input
  <2>2. more \in Seq(SentItem)
    BY <1>5, <2>1, AppendProperties
  <2> HIDE DEF more
  <2>3. items = more \/ items = input
    BY DEF ShapeBody, more
  <2>4. items \in Seq(SentItem)
    BY <1>5, <2>2, <2>3
  <2>. QED BY <2>4, LenProperties
<1>7. ~compaction => items = input
  BY DEF ShapeBody
<1>8. prepared = [lead |-> lead, items |-> items]
  BY DEF Prepare
<1> HIDE DEF lead, items, input
<1>9. prepared \in Sent
  BY <1>4, <1>6, <1>8 DEF Sent, SentItem
<1>. QED BY <1>4, <1>6, <1>7, <1>8, <1>9 DEF input

LEMMA AskMeans ==
  ASSUME TypeOK, NEW b \in Backends, NEW reminder \in {<<>>, <<"reminder">>},
         NEW streaming, Ask(b, streaming, reminder)
  PROVE  /\ pc = "ready" /\ pc' = "asked" /\ asks < MaxAsks /\ asks' = asks + 1
         /\ ask' = [to |-> b, streaming |-> streaming,
                    compaction |-> IsCompaction(Sanitize(history)),
                    base |-> Len(body'.items)]
         /\ body' = Prepare(b, reminder, IsCompaction(Sanitize(history)))
         /\ body' \in Sent /\ Len(body'.items) \in Nat
         /\ IsPrefix(HarnessPrompt[b], body'.lead)
         /\ sent' = IF IsCompaction(Sanitize(history)) THEN sent
                    ELSE [sent EXCEPT ![b] = body']
         /\ ~IsCompaction(Sanitize(history)) =>
              body'.items = Convert(b, Sanitize(history))
         /\ blocks' = <<>> /\ text' = <<>> /\ round' = 0
         /\ turn' = [turn EXCEPT !.ended = IF IsCompaction(Sanitize(history))
                                           THEN @ ELSE "open",
                                 !.reasoned = FALSE]
         /\ UNCHANGED <<history, stop, fresh, said>>
<1> DEFINE compaction == IsCompaction(Sanitize(history))
           prepared == Prepare(b, reminder, compaction)
<1>1. /\ pc = "ready" /\ pc' = "asked" /\ asks < MaxAsks /\ asks' = asks + 1
      /\ ask' = [to |-> b, streaming |-> streaming, compaction |-> compaction,
                 base |-> Len(prepared.items)]
      /\ body' = prepared
      /\ sent' = IF compaction THEN sent ELSE [sent EXCEPT ![b] = prepared]
      /\ blocks' = <<>> /\ text' = <<>> /\ round' = 0
      /\ turn' = [turn EXCEPT !.ended = IF compaction THEN @ ELSE "open",
                              !.reasoned = FALSE]
      /\ UNCHANGED <<history, stop, fresh, said>>
  BY DEF Ask
<1>2. compaction \in BOOLEAN
  BY DEF IsCompaction
<1> HIDE DEF compaction
<1>3. /\ prepared \in Sent /\ Len(prepared.items) \in Nat
      /\ IsPrefix(HarnessPrompt[b], prepared.lead)
      /\ ~compaction => prepared.items = Convert(b, Sanitize(history))
  BY <1>2, PrepareProperties
<1> HIDE DEF prepared
<1>. QED BY <1>1, <1>3 DEF compaction, prepared

LEMMA TypeAsk ==
  ASSUME TypeOK, NEW b \in Backends, NEW reminder \in {<<>>, <<"reminder">>},
         NEW streaming \in BOOLEAN, Ask(b, streaming, reminder)
  PROVE  TypeOK'
<1> DEFINE compaction == IsCompaction(Sanitize(history))
<1>1. compaction \in BOOLEAN
  BY DEF IsCompaction
<1> HIDE DEF compaction
<1>2. /\ pc' = "asked" /\ asks < MaxAsks /\ asks' = asks + 1
      /\ ask' = [to |-> b, streaming |-> streaming, compaction |-> compaction,
                 base |-> Len(body'.items)]
      /\ body' \in Sent /\ Len(body'.items) \in Nat
      /\ sent' = IF compaction THEN sent ELSE [sent EXCEPT ![b] = body']
      /\ blocks' = <<>> /\ text' = <<>> /\ round' = 0
      /\ turn' = [turn EXCEPT !.ended = IF compaction THEN @ ELSE "open",
                              !.reasoned = FALSE]
      /\ UNCHANGED <<history, stop, fresh, said>>
  BY AskMeans DEF compaction
<1>3. ask' \in Asking
  BY <1>1, <1>2 DEF Asking
<1>4. sent' \in [Backends -> Sent]
  BY <1>2 DEF TypeOK
<1>5. turn' \in Turn
  BY <1>2 DEF TypeOK, Turn, Verdict
<1>6. blocks' \in Seq(ContentBlock) /\ text' \in Text
  BY <1>2, NothingTyped
<1>7. round' \in 0..MaxRounds /\ asks' \in 0..MaxAsks
  BY <1>2, ConversationAssumption DEF TypeOK
<1>. QED BY <1>2, <1>3, <1>4, <1>5, <1>6, <1>7 DEF TypeOK, Asking, Turn, Verdict

LEMMA TypeClose ==
  ASSUME TypeOK, NEW items \in Seq(ReplyItem), NEW all \in Seq(ContentBlock),
         NEW reason \in StopReason, NEW status \in Status, NEW done \in BOOLEAN,
         CloseWith(items, all, reason, status, done), fresh' \in Nat, asks' = asks
  PROVE  TypeOK'
<1> DEFINE told == said \o ReplyEvents(items)
           summary == Words(JoinText(all))
           verdict == [turn |-> Len(history) + 1, done |-> done]
           m == StringMessage("user", summary)
           reply == BlockMessage("assistant", all)
           watched == all # <<>> /\ Driven /\ ~Reasoned(items)
<1>1. told \in Seq(SaidEvent) /\ Front(said) \in Seq(SaidEvent)
  <2>1. said \in Seq(SaidEvent)
    BY DEF TypeOK
  <2>2. Front(said) \in Seq(SaidEvent)
    BY <2>1, FrontTyped
  <2>. QED BY <2>1, <2>2, ReplyEventsTyped, ConcatProperties
<1>2. summary \in Text
  BY JoinTextProperties, WordsProperties
<1>3. WordEvents("user", summary) \in Seq(SaidEvent)
  <2> HIDE DEF summary
  <2>. QED BY <1>2, WordEventsTyped
<1>4. Front(history) \in Seq(Message) /\ <<m>> \in Seq(Message)
      /\ Append(history, reply) \in Seq(Message)
  <2>1. history \in Seq(Message)
    BY DEF TypeOK
  <2>2. m \in Message
    <3> HIDE DEF summary
    <3>. QED BY <1>2, StringMessageTyped DEF Role
  <2>3. reply \in Message
    BY BlockMessageTyped DEF Role
  <2> HIDE DEF m, reply
  <2>. QED BY <2>1, <2>2, <2>3, FrontTyped, AppendProperties
<1>5. verdict \in Verdict
  <2>1. Len(history) + 1 \in Nat
    BY DEF TypeOK
  <2>. QED BY <2>1 DEF Verdict
<1>6. /\ pc' = "user"
      /\ IF ask.compaction
         THEN IF summary = <<>>
              THEN /\ history' = Front(history) /\ said' = Front(said)
                   /\ UNCHANGED <<stop, sent, turn>>
              ELSE /\ history' = <<m>> /\ stop' = reason
                   /\ said' = WordEvents("user", summary)
                   /\ sent' = [b \in Backends |-> None]
                   /\ turn' = [turn EXCEPT !.ended = status, !.verdicts = {}]
         ELSE /\ history' = IF all # <<>> THEN Append(history, reply) ELSE history
              /\ stop' = reason /\ said' = told
              /\ turn' = [turn EXCEPT !.ended = status, !.verdicts =
                             IF watched THEN @ \cup {verdict} ELSE @]
              /\ UNCHANGED sent
      /\ ask' = NoAsk /\ body' = None /\ blocks' = <<>> /\ text' = <<>>
      /\ round' = 0
  BY DEF CloseWith
<1> HIDE DEF told, summary, verdict, m, reply, watched
<1>7. history' \in Seq(Message) /\ said' \in Seq(SaidEvent) /\ stop' \in StopReason
  BY <1>1, <1>3, <1>4, <1>6 DEF TypeOK
<1>8. sent' \in [Backends -> Sent]
  BY <1>6, NothingTyped DEF TypeOK
<1>9. turn' \in Turn
  <2>1. turn \in Turn
    BY DEF TypeOK, Turn, Verdict
  <2>2. /\ [turn EXCEPT !.ended = status, !.verdicts = {}] \in Turn
        /\ [turn EXCEPT !.ended = status, !.verdicts =
              IF watched THEN @ \cup {verdict} ELSE @] \in Turn
    BY <1>5, <2>1 DEF Turn
  <2>. QED BY <1>6, <2>1, <2>2
<1>10. /\ ask' \in Asking /\ body' \in Sent /\ blocks' \in Seq(ContentBlock)
       /\ text' \in Text
  BY <1>6, NothingTyped
<1>11. round' \in 0..MaxRounds /\ asks' \in 0..MaxAsks
  BY <1>6, ConversationAssumption DEF TypeOK
<1>. QED BY <1>6, <1>7, <1>8, <1>9, <1>10, <1>11 DEF TypeOK, Asking, Turn, Verdict

\* The reply that ends a turn, or the failure that does.
LEMMA EndsClose ==
  ASSUME TypeOK, NEW reply \in Replies, Reply(reply) \/ Break(reply)
  PROVE  LET items == Written(reply)
             all == blocks \o Rendered(items)
             done == Calls(items) = <<>> /\ IsDone(text \o Said(items, "message"))
         IN  /\ items \in Seq(ReplyItem) /\ Rendered(items) \in Seq(ContentBlock)
             /\ all \in Seq(ContentBlock) /\ done \in BOOLEAN
             /\ fresh' \in Nat /\ asks' = asks /\ pc = "asked" /\ Fits(reply)
             /\ \E reason \in StopReason, status \in Status :
                  /\ CloseWith(items, all, reason, status, done)
                  /\ \/ reason = Stop(items, reply.status) /\ status = reply.status
                     \/ /\ reason = StreamedStop(items, "completed")
                        /\ status = "failed" /\ round > 0
<1> DEFINE items == Written(reply)
           all == blocks \o Rendered(items)
           done == Calls(items) = <<>> /\ IsDone(text \o Said(items, "message"))
<1>1. items \in Seq(ReplyItem) /\ Len(items) \in Nat
  BY WrittenTyped DEF TypeOK
<1>2. reply.status \in Status /\ "failed" \in Status
  BY ConversationAssumption DEF Status
<1>3. /\ fresh' = fresh + Len(items) + 1 /\ asks' = asks /\ pc = "asked" /\ Fits(reply)
      /\ \/ CloseWith(items, all, Stop(items, reply.status), reply.status, done)
         \/ /\ CloseWith(items, all, StreamedStop(items, "completed"), "failed", done)
            /\ round > 0
  BY DEF Reply, Break
<1> HIDE DEF items
<1>4. blocks \in Seq(ContentBlock) /\ Len(blocks) \in Nat
  BY DEF TypeOK
<1>5. Rendered(items) \in Seq(ContentBlock)
  BY <1>1, <1>4, RenderedTyped
<1>6. all \in Seq(ContentBlock)
  BY <1>4, <1>5, ConcatProperties
<1>7. done \in BOOLEAN
  OBVIOUS
<1>8. Stop(items, reply.status) \in StopReason /\ StreamedStop(items, "completed") \in StopReason
  BY StopTyped DEF StreamedStop, StopReason
<1>9. fresh' \in Nat
  BY <1>1, <1>3 DEF TypeOK
<1> HIDE DEF all, done
<1>. QED BY <1>1, <1>2, <1>3, <1>5, <1>6, <1>7, <1>8, <1>9 DEF items, all, done

LEMMA TypeEnds ==
  ASSUME TypeOK, NEW reply \in Replies, Reply(reply) \/ Break(reply)
  PROVE  TypeOK'
<1> DEFINE items == Written(reply)
           all == blocks \o Rendered(items)
           done == Calls(items) = <<>> /\ IsDone(text \o Said(items, "message"))
<1>1. /\ items \in Seq(ReplyItem) /\ all \in Seq(ContentBlock) /\ done \in BOOLEAN
      /\ fresh' \in Nat /\ asks' = asks
      /\ \E reason \in StopReason, status \in Status :
           CloseWith(items, all, reason, status, done)
  BY EndsClose
<1> HIDE DEF items, all, done
<1>. QED BY <1>1, TypeClose

LEMMA TypeContinue ==
  ASSUME TypeOK, ask.base <= Len(body.items), NEW reply \in Replies, Continue(reply)
  PROVE  /\ TypeOK' /\ Len(body'.items) \in Nat /\ ask.base <= Len(body'.items)
         /\ body'.lead = body.lead
         /\ SubSeq(body'.items, 1, ask.base) = SubSeq(body.items, 1, ask.base)
         /\ Words(text') # <<>> =>
              /\ Len(body'.items) = ask.base + 1
              /\ Words(Last(body'.items).text) = Words(text')
<1> DEFINE items == Written(reply)
           after == text \o Said(items, "message")
           input == SetAssistantPrefill(body.items, ask.base, after)
<1>1. items \in Seq(ReplyItem) /\ Len(items) \in Nat
  BY WrittenTyped DEF TypeOK
<1>2. /\ pc = "asked" /\ round < MaxRounds
      /\ blocks' = blocks \o Rendered(items)
      /\ text' = after
      /\ said' = said \o ReplyEvents(items)
      /\ body' = [body EXCEPT !.items = input]
      /\ round' = round + 1
      /\ turn' = [turn EXCEPT !.reasoned = Reasoned(items)]
      /\ fresh' = fresh + Len(items) + 1
      /\ UNCHANGED <<history, pc, ask, stop, asks, sent>>
  BY DEF Continue, ShouldContinue
<1> HIDE DEF items
<1>3. blocks \in Seq(ContentBlock) /\ Len(blocks) \in Nat /\ text \in Text
      /\ said \in Seq(SaidEvent) /\ ask.base \in Nat /\ body \in Sent
      /\ body.items \in Seq(SentItem)
  BY DEF TypeOK, Sent, SentItem
<1>4. Rendered(items) \in Seq(ContentBlock) /\ ReplyEvents(items) \in Seq(SaidEvent)
      /\ Said(items, "message") \in Text
  BY <1>1, <1>3, RenderedTyped, ReplyEventsTyped, SaidTyped
<1>5. blocks' \in Seq(ContentBlock) /\ said' \in Seq(SaidEvent)
  BY <1>2, <1>3, <1>4, ConcatProperties
<1>6. after \in Text
  BY <1>3, <1>4, ConcatProperties DEF Text
<1> HIDE DEF after
<1>7. /\ input \in Seq(SentItem) /\ ask.base <= Len(input)
      /\ SubSeq(input, 1, ask.base) = SubSeq(body.items, 1, ask.base)
      /\ Words(after) # <<>> =>
           Len(input) = ask.base + 1 /\ Words(Last(input).text) = Words(after)
  BY <1>3, <1>6, PrefillProperties
<1>8. Len(input) \in Nat
  BY <1>7, LenProperties
<1> HIDE DEF input
<1>9. body'.items = input /\ body'.lead = body.lead /\ body' \in Sent
  BY <1>2, <1>3, <1>7 DEF Sent, SentItem
<1>10. turn' \in Turn
  <2>1. Reasoned(items) \in BOOLEAN
    BY DEF Reasoned, TypeOK
  <2>2. turn \in Turn
    BY DEF TypeOK, Turn, Verdict
  <2>. QED BY <1>2, <2>1, <2>2 DEF Turn
<1>11. round' \in 0..MaxRounds /\ fresh' \in Nat
  <2>1. round \in 0..MaxRounds /\ fresh \in Nat
    BY DEF TypeOK
  <2> HIDE DEF TypeOK
  <2>. QED BY <1>1, <1>2, <2>1, ConversationAssumption
<1>12. TypeOK'
  BY <1>2, <1>5, <1>6, <1>9, <1>10, <1>11 DEF TypeOK, Turn, Verdict
<1>. QED BY <1>2, <1>7, <1>8, <1>9, <1>12

LEMMA TypeRefuse ==
  ASSUME TypeOK, Refuse
  PROVE  TypeOK'
<1>1. Front(history) \in Seq(Message) /\ Front(said) \in Seq(SaidEvent)
  BY FrontTyped DEF TypeOK
<1>2. /\ IF ask.compaction
         THEN pc' = "user" /\ history' = Front(history) /\ said' = Front(said)
         ELSE pc' = "ready" /\ UNCHANGED <<history, said>>
      /\ ask' = NoAsk /\ body' = None /\ blocks' = <<>> /\ text' = <<>>
      /\ round' = 0 /\ UNCHANGED <<stop, asks, fresh, sent, turn>>
  BY DEF Refuse, Lost
<1>3. history' \in Seq(Message) /\ said' \in Seq(SaidEvent)
      /\ pc' \in {"user", "ready", "asked"}
  BY <1>1, <1>2 DEF TypeOK
<1>4. ask' \in Asking /\ body' \in Sent /\ blocks' \in Seq(ContentBlock) /\ text' \in Text
  BY <1>2, NothingTyped
<1>5. round' \in 0..MaxRounds
  BY <1>2, ConversationAssumption
<1>. QED BY <1>2, <1>3, <1>4, <1>5 DEF TypeOK, Asking

-----------------------------------------------------------------------------
(* What a backend was sent stays a beginning of what it will be sent.      *)

\* The messages that will be sent again, whatever becomes of this request:
\* a compaction's instruction will not.
SettledIn(where, h) ==
  IF where # "user" /\ IsCompaction(Sanitize(h)) THEN Front(h) ELSE h
Settled == SettledIn(pc, history)

Precedes(bodies, h) ==
  \A b \in Backends : IsPrefix(bodies[b].items, Convert(b, Sanitize(h)))

\* A request is of the conversation as it stands.
AskFits ==
  pc = "asked" => /\ ask.to \in Backends
                  /\ ask.compaction = IsCompaction(Sanitize(history))
                  /\ ask.base <= Len(body.items)
SentFits == Precedes(sent, Settled)

LEMMA PrecedesGrows ==
  ASSUME NEW bodies \in [Backends -> Sent], NEW h \in Seq(Message), NEW more \in Seq(Message),
         Precedes(bodies, h)
  PROVE  Precedes(bodies, h \o more)
<1>1. ASSUME NEW b \in Backends
      PROVE  IsPrefix(bodies[b].items, Convert(b, Sanitize(h \o more)))
  <2> DEFINE s == bodies[b].items
             t == Convert(b, Sanitize(h))
             u == Convert(b, Sanitize(h \o more))
  <2>1. s \in Seq(SentItem)
    BY DEF Sent, SentItem
  <2>2. t \in Seq(SentItem) /\ u \in Seq(SentItem) /\ IsPrefix(t, u)
    BY ConvertProperties
  <2>3. IsPrefix(s, t)
    BY DEF Precedes
  <2> HIDE DEF s, t, u
  <2>4. PICK r \in Seq(SentItem) : u = t \o r
    BY <2>2, PrefixMeans
  <2>5. IsPrefix(s, t \o r)
    BY <2>1, <2>2, <2>3, PrefixGrows
  <2>. QED BY <2>4, <2>5 DEF s, u
<1>. QED BY <1>1 DEF Precedes

LEMMA NothingPrecedes ==
  ASSUME NEW h \in Seq(Message)
  PROVE  Precedes([b \in Backends |-> None], h)
<1>1. ASSUME NEW b \in Backends
      PROVE  IsPrefix(<<>>, Convert(b, Sanitize(h)))
  <2>1. Convert(b, Sanitize(h)) \in Seq(SentItem)
    BY ConvertProperties
  <2>. QED BY <2>1, EmptyIsPrefix
<1>. QED BY <1>1 DEF Precedes, None

LEMMA SettledTyped ==
  ASSUME NEW where, NEW h \in Seq(Message)
  PROVE  SettledIn(where, h) \in Seq(Message)
BY FrontTyped DEF SettledIn

\* All but the last of more messages are the messages before and more.
LEMMA FrontOfMore ==
  ASSUME NEW S, NEW h \in Seq(S), NEW more \in Seq(S), more # <<>>
  PROVE  Front(h \o more) = h \o Front(more) /\ Front(more) \in Seq(S)
<1>1. Len(h) \in Nat /\ Len(more) \in Nat \ {0}
  BY EmptySeq, LenProperties
<1>2. Front(more) \in Seq(S) /\ Len(Front(more)) = Len(more) - 1
      /\ \A i \in 1..(Len(more) - 1) : Front(more)[i] = more[i]
  BY FrontTyped
<1>3. h \o more \in Seq(S) /\ Len(h \o more) = Len(h) + Len(more)
      /\ \A i \in 1..(Len(h) + Len(more)) :
           (h \o more)[i] = IF i <= Len(h) THEN h[i] ELSE more[i - Len(h)]
  BY ConcatProperties
<1>4. h \o more # <<>>
  BY <1>1, <1>3, EmptySeq
<1>5. /\ Front(h \o more) \in Seq(S) /\ Len(Front(h \o more)) = Len(h) + Len(more) - 1
      /\ \A i \in 1..(Len(h) + Len(more) - 1) : Front(h \o more)[i] = (h \o more)[i]
  <2> DEFINE t == h \o more
  <2> HIDE DEF t
  <2>1. t \in Seq(S) /\ t # <<>>
    BY <1>3, <1>4 DEF t
  <2>2. /\ Front(t) \in Seq(S) /\ Len(Front(t)) = Len(t) - 1
        /\ \A i \in 1..(Len(t) - 1) : Front(t)[i] = t[i]
    BY <2>1, FrontTyped
  <2>3. Len(t) = Len(h) + Len(more)
    BY <1>3 DEF t
  <2>4. /\ Front(t) \in Seq(S) /\ Len(Front(t)) = Len(h) + Len(more) - 1
        /\ \A i \in 1..(Len(h) + Len(more) - 1) : Front(t)[i] = t[i]
    BY <2>2, <2>3
  <2>. QED BY <2>4 DEF t
<1>6. h \o Front(more) \in Seq(S) /\ Len(h \o Front(more)) = Len(h) + (Len(more) - 1)
      /\ \A i \in 1..(Len(h) + (Len(more) - 1)) :
           (h \o Front(more))[i] = IF i <= Len(h) THEN h[i] ELSE Front(more)[i - Len(h)]
  <2> DEFINE f == Front(more)
  <2>1. f \in Seq(S) /\ Len(f) = Len(more) - 1
    BY <1>2
  <2> HIDE DEF f
  <2>2. h \o f \in Seq(S) /\ Len(h \o f) = Len(h) + Len(f)
        /\ \A i \in 1..(Len(h) + Len(f)) :
             (h \o f)[i] = IF i <= Len(h) THEN h[i] ELSE f[i - Len(h)]
    BY <2>1, ConcatProperties
  <2>3. /\ h \o f \in Seq(S) /\ Len(h \o f) = Len(h) + (Len(more) - 1)
        /\ \A i \in 1..(Len(h) + (Len(more) - 1)) :
             (h \o f)[i] = IF i <= Len(h) THEN h[i] ELSE f[i - Len(h)]
    BY <2>1, <2>2
  <2>. QED BY <2>3 DEF f
<1> DEFINE s == Front(h \o more)
           u == h \o Front(more)
           n == Len(h) + (Len(more) - 1)
<1>7. n \in Nat /\ Len(s) = n /\ Len(u) = n
  BY <1>1, <1>5, <1>6
<1>8. ASSUME NEW i \in 1..n
      PROVE  s[i] = u[i]
  <2>1. i \in 1..(Len(h) + Len(more)) /\ i \in 1..(Len(h) + Len(more) - 1)
        /\ i \in 1..(Len(h) + (Len(more) - 1))
    BY <1>1
  <2>2. s[i] = IF i <= Len(h) THEN h[i] ELSE more[i - Len(h)]
    BY <1>3, <1>5, <2>1
  <2>3. u[i] = IF i <= Len(h) THEN h[i] ELSE Front(more)[i - Len(h)]
    BY <1>6, <2>1
  <2>4. ~(i <= Len(h)) => i - Len(h) \in 1..(Len(more) - 1)
    BY <1>1
  <2>. QED BY <1>2, <2>2, <2>3, <2>4
<1>9. s \in Seq(S) /\ u \in Seq(S)
  BY <1>5, <1>6
<1> HIDE DEF s, u, n
<1>10. s = u
  BY <1>7, <1>8, <1>9, SeqEqual
<1>. QED BY <1>2, <1>10 DEF s, u

LEMMA SettledGrows ==
  ASSUME NEW h \in Seq(Message), NEW more \in Seq(Message), more # <<>>, NEW where
  PROVE  \E r \in Seq(Message) : SettledIn(where, h \o more) = h \o r
BY FrontOfMore DEF SettledIn

PrefixInv == TypeOK /\ AskFits /\ SentFits

LEMMA PrefixInitially == Init => PrefixInv
<1> SUFFICES ASSUME Init
             PROVE  PrefixInv
  OBVIOUS
<1>1. TypeOK
  BY TypeInitially
<1>2. AskFits
  BY DEF Init, AskFits
<1>3. sent = [b \in Backends |-> None] /\ Settled \in Seq(Message)
  BY <1>1, SettledTyped DEF Init, Settled, TypeOK
<1>4. SentFits
  BY <1>3, NothingPrecedes DEF SentFits
<1>. QED BY <1>1, <1>2, <1>4 DEF PrefixInv

LEMMA PrefixClient ==
  ASSUME PrefixInv, ClientSpeaks
  PROVE  PrefixInv'
<1>1. TypeOK'
  BY TypeClient DEF PrefixInv
<1>2. history \in Seq(Message) /\ sent \in [Backends -> Sent]
  BY DEF PrefixInv, TypeOK
<1>3. PICK more \in Seq(Message) : history' = history \o more /\ more # <<>>
  BY DEF ClientSpeaks
<1>4. PICK r \in Seq(Message) : SettledIn(pc', history \o more) = history \o r
  BY <1>2, <1>3, SettledGrows
<1>5. Precedes(sent, history)
  BY DEF PrefixInv, SentFits, Settled, SettledIn, ClientSpeaks
<1>6. Precedes(sent, history \o r)
  BY <1>2, <1>5, PrecedesGrows
<1>7. Settled' = history \o r /\ sent' = sent
  BY <1>3, <1>4 DEF Settled, ClientSpeaks
<1>8. SentFits'
  BY <1>6, <1>7 DEF SentFits
<1>9. AskFits'
  BY DEF AskFits, ClientSpeaks
<1>. QED BY <1>1, <1>8, <1>9 DEF PrefixInv

LEMMA PrefixAsk ==
  ASSUME PrefixInv, NEW b \in Backends, NEW reminder \in {<<>>, <<"reminder">>},
         NEW streaming \in BOOLEAN, Ask(b, streaming, reminder)
  PROVE  PrefixInv'
<1> DEFINE compaction == IsCompaction(Sanitize(history))
           input == Convert(b, Sanitize(history))
<1>1. TypeOK /\ TypeOK' /\ SentFits
  BY TypeAsk DEF PrefixInv
<1>2. /\ pc = "ready" /\ pc' = "asked" /\ history' = history
      /\ ask' = [to |-> b, streaming |-> streaming, compaction |-> compaction,
                 base |-> Len(body'.items)]
      /\ Len(body'.items) \in Nat
      /\ sent' = IF compaction THEN sent ELSE [sent EXCEPT ![b] = body']
      /\ ~compaction => body'.items = input
  BY <1>1, AskMeans
<1>3. AskFits'
  BY <1>2 DEF AskFits
<1>4. Settled' = Settled
  BY <1>2 DEF Settled, SettledIn
<1>5. Precedes(sent, Settled) /\ sent \in [Backends -> Sent] /\ history \in Seq(Message)
  BY <1>1 DEF SentFits, TypeOK
<1>6. ASSUME ~compaction
      PROVE  Precedes(sent', Settled)
  <2>1. Settled = history /\ body'.items = input
    BY <1>2, <1>6 DEF Settled, SettledIn
  <2>2. input \in Seq(SentItem)
    BY <1>5, ConvertProperties
  <2> HIDE DEF input
  <2>3. IsPrefix(input, input)
    <3>1. <<>> \in Seq(SentItem) /\ input \o <<>> = input
      BY <2>2, ConcatEmptySeq
    <3>. QED BY <2>2, <3>1, PrefixMeans
  <2>4. ASSUME NEW a \in Backends
        PROVE  IsPrefix(sent'[a].items, Convert(a, Sanitize(history)))
    <3>1. CASE a = b
      BY <1>2, <1>5, <1>6, <2>1, <2>3, <3>1 DEF input
    <3>2. CASE a # b
      BY <1>2, <1>5, <1>6, <2>1, <3>2 DEF Precedes
    <3>. QED BY <3>1, <3>2
  <2>. QED BY <2>1, <2>4 DEF Precedes
<1>7. SentFits'
  BY <1>2, <1>4, <1>5, <1>6 DEF SentFits
<1>. QED BY <1>1, <1>3, <1>7 DEF PrefixInv

LEMMA PrefixEnds ==
  ASSUME PrefixInv, NEW reply \in Replies, Reply(reply) \/ Break(reply)
  PROVE  PrefixInv'
<1>1. TypeOK /\ TypeOK' /\ SentFits /\ AskFits
  BY TypeEnds DEF PrefixInv
<1> DEFINE items == Written(reply)
           all == blocks \o Rendered(items)
           done == Calls(items) = <<>> /\ IsDone(text \o Said(items, "message"))
           m == BlockMessage("assistant", all)
<1>2. /\ pc = "asked" /\ all \in Seq(ContentBlock)
      /\ \E reason \in StopReason, status \in Status :
           CloseWith(items, all, reason, status, done)
  BY <1>1, EndsClose
<1> HIDE DEF items, all, done
<1>3. /\ pc' = "user" /\ ask' = NoAsk
      /\ IF ask.compaction
         THEN \/ history' = Front(history) /\ sent' = sent
              \/ sent' = [b \in Backends |-> None]
         ELSE /\ history' = Append(history, m) \/ history' = history
              /\ sent' = sent
  BY <1>2 DEF CloseWith
<1>4. m \in Message
  BY <1>2, BlockMessageTyped DEF Role
<1> HIDE DEF m
<1>5. /\ history \in Seq(Message) /\ history' \in Seq(Message)
      /\ sent \in [Backends -> Sent] /\ Precedes(sent, Settled)
      /\ ask.compaction = IsCompaction(Sanitize(history))
  BY <1>1, <1>2 DEF TypeOK, SentFits, AskFits
<1>6. Settled' = history'
  BY <1>3 DEF Settled, SettledIn
<1>7. Settled = IF ask.compaction THEN Front(history) ELSE history
  BY <1>2, <1>5 DEF Settled, SettledIn
<1>8. Precedes(sent', history')
  <2>1. CASE ask.compaction /\ history' = Front(history) /\ sent' = sent
    BY <1>5, <1>7, <2>1
  <2>2. CASE sent' = [b \in Backends |-> None]
    BY <1>5, <2>2, NothingPrecedes
  <2>3. CASE ~ask.compaction /\ history' = Append(history, m) /\ sent' = sent
    <3>1. <<m>> \in Seq(Message) /\ history' = history \o <<m>>
      BY <1>4, <1>5, <2>3
    <3>2. Precedes(sent, history)
      BY <1>5, <1>7, <2>3
    <3>. QED BY <1>5, <2>3, <3>1, <3>2, PrecedesGrows
  <2>4. CASE ~ask.compaction /\ history' = history /\ sent' = sent
    BY <1>5, <1>7, <2>4
  <2>. QED BY <1>3, <2>1, <2>2, <2>3, <2>4
<1>9. SentFits'
  BY <1>6, <1>8 DEF SentFits
<1>10. AskFits'
  BY <1>3 DEF AskFits
<1>. QED BY <1>1, <1>9, <1>10 DEF PrefixInv

LEMMA PrefixContinue ==
  ASSUME PrefixInv, NEW reply \in Replies, Continue(reply)
  PROVE  PrefixInv'
<1>1. pc = "asked" /\ UNCHANGED <<history, pc, ask, sent>>
  BY DEF Continue
<1>2. TypeOK /\ SentFits /\ AskFits /\ ask.base <= Len(body.items)
  BY <1>1 DEF PrefixInv, AskFits
<1>3. TypeOK' /\ ask.base <= Len(body'.items)
  BY <1>2, TypeContinue
<1>4. AskFits'
  BY <1>1, <1>2, <1>3 DEF AskFits
<1>5. SentFits'
  BY <1>1, <1>2 DEF SentFits, Settled, SettledIn
<1>. QED BY <1>3, <1>4, <1>5 DEF PrefixInv

LEMMA PrefixRefuse ==
  ASSUME PrefixInv, Refuse
  PROVE  PrefixInv'
<1>1. TypeOK /\ TypeOK' /\ SentFits /\ AskFits
  BY TypeRefuse DEF PrefixInv
<1>2. /\ pc = "asked" /\ sent' = sent
      /\ IF ask.compaction THEN pc' = "user" /\ history' = Front(history)
         ELSE pc' = "ready" /\ history' = history
  BY DEF Refuse, Lost
<1>3. ask.compaction = IsCompaction(Sanitize(history))
  BY <1>1, <1>2 DEF AskFits
<1>4. Settled' = Settled
  BY <1>2, <1>3 DEF Settled, SettledIn
<1>5. SentFits'
  BY <1>1, <1>2, <1>4 DEF SentFits
<1>6. AskFits'
  BY <1>2 DEF AskFits
<1>. QED BY <1>1, <1>5, <1>6 DEF PrefixInv

LEMMA PrefixUnchanged ==
  ASSUME PrefixInv, UNCHANGED vars
  PROVE  PrefixInv'
BY DEF PrefixInv, TypeOK, AskFits, SentFits, Settled, SettledIn, vars, requestVars

\* The disjuncts of Next, as the lemmas about them are put.
LEMMA NextIs ==
  ASSUME TypeOK, Next
  PROVE  \/ ClientSpeaks
         \/ \E b \in Backends, reminder \in {<<>>, <<"reminder">>}, streaming \in BOOLEAN :
              Ask(b, streaming, reminder)
         \/ \E reply \in Replies : Reply(reply) \/ Break(reply)
         \/ \E reply \in Replies : Continue(reply)
         \/ Refuse
<1>1. CASE \E how \in Utterances : Talk(how)
  BY <1>1, TalkIsClients
<1>2. CASE \E place \in ResultPlaces : ToolsAnswer(place)
  BY <1>2, ToolsAnswerIsClients
<1>3. CASE Compact
  BY <1>3, CompactIsClients
<1>4. CASE \E b \in Backends, reminder \in {<<>>, <<"reminder">>} :
             \E streaming \in StreamingOf(b) : Ask(b, streaming, reminder)
  BY <1>4 DEF StreamingOf
<1>5. CASE \E reply \in Replies : Reply(reply) \/ Continue(reply) \/ Break(reply)
  BY <1>5
<1>. QED BY <1>1, <1>2, <1>3, <1>4, <1>5 DEF Next

\* PrefixInv holds in every behaviour: it is kept by every step of Claude
\* Code, of a request and of a reply.
THEOREM Invariance == Spec => []PrefixInv
<1>1. ASSUME PrefixInv, [Next]_vars
      PROVE  PrefixInv'
  <2>1. TypeOK
    BY <1>1 DEF PrefixInv
  <2>. QED BY <1>1, <2>1, NextIs, PrefixClient, PrefixAsk, PrefixEnds, PrefixContinue,
              PrefixRefuse, PrefixUnchanged
<1>. QED BY <1>1, PrefixInitially, PTL DEF Spec

\* Every variable keeps its type, whatever a provider replies: what is held,
\* sent and said is always messages, items and events.
THEOREM TypeCorrect == Spec => []TypeOK
<1>1. PrefixInv => TypeOK
  BY DEF PrefixInv
<1>. QED BY <1>1, Invariance, PTL

\* A request to a provider begins with all that it was sent of this
\* conversation before, with whichever backends it went on in between, and a
\* continuation round changes only the item behind the client's input.
THEOREM PrefixStands == Spec => PrefixIsStable
<1> DEFINE Step ==
      /\ asks' = asks + 1 =>
           /\ IsPrefix(HarnessPrompt[ask'.to], body'.lead)
           /\ ask'.compaction \/ IsPrefix(sent[ask'.to].items, body'.items)
      /\ round' = round + 1 =>
           /\ body'.lead = body.lead
           /\ SubSeq(body'.items, 1, ask.base) = SubSeq(body.items, 1, ask.base)
           /\ Words(text') # <<>> =>
                /\ Len(body'.items) = ask.base + 1
                /\ Words(Last(body'.items).text) = Words(text')
<1>1. ASSUME PrefixInv, Next
      PROVE  Step
  <2>1. TypeOK /\ asks \in Nat /\ round \in Nat
    BY <1>1, ConversationAssumption DEF PrefixInv, TypeOK
  <2>2. asks # asks + 1 /\ round # round + 1 /\ round + 1 # 0
    BY <2>1
  <2>3. CASE ClientSpeaks
    BY <2>2, <2>3 DEF ClientSpeaks, requestVars
  <2>4. ASSUME NEW b \in Backends, NEW reminder \in {<<>>, <<"reminder">>},
               NEW streaming \in BOOLEAN, Ask(b, streaming, reminder)
        PROVE  Step
    <3>1. /\ pc = "ready" /\ round' = 0
          /\ ask' = [to |-> b, streaming |-> streaming,
                     compaction |-> IsCompaction(Sanitize(history)),
                     base |-> Len(body'.items)]
          /\ IsPrefix(HarnessPrompt[b], body'.lead)
          /\ ~IsCompaction(Sanitize(history)) =>
               body'.items = Convert(b, Sanitize(history))
      BY <2>1, <2>4, AskMeans
    <3>2. ask'.to = b /\ ask'.compaction = IsCompaction(Sanitize(history))
      BY <3>1
    <3>3. ~ask'.compaction => IsPrefix(sent[b].items, body'.items)
      BY <1>1, <3>1, <3>2 DEF PrefixInv, SentFits, Precedes, Settled, SettledIn
    <3>. QED BY <2>2, <3>1, <3>2, <3>3
  <2>5. ASSUME NEW reply \in Replies, Reply(reply) \/ Break(reply)
        PROVE  Step
    <3>1. asks' = asks /\ round' = 0
      BY <2>5 DEF Reply, Break, CloseWith
    <3>. QED BY <2>2, <3>1
  <2>6. ASSUME NEW reply \in Replies, Continue(reply)
        PROVE  Step
    <3>1. pc = "asked" /\ asks' = asks
      BY <2>6 DEF Continue
    <3>2. ask.base <= Len(body.items)
      BY <1>1, <3>1 DEF PrefixInv, AskFits
    <3>. QED BY <2>1, <2>2, <2>6, <3>1, <3>2, TypeContinue
  <2>7. CASE Refuse
    <3>1. asks' = asks /\ round' = 0
      BY <2>7 DEF Refuse, Lost
    <3>. QED BY <2>2, <3>1
  <2> HIDE DEF Step
  <2>. QED BY <1>1, <2>1, NextIs, <2>3, <2>4, <2>5, <2>6, <2>7
<1>2. PrefixInv /\ [Next]_vars => [Step]_vars
  BY <1>1
<1>. QED BY <1>2, Invariance, PTL DEF Spec, PrefixIsStable

-----------------------------------------------------------------------------
(* What a reply becomes has a call if and only if the reply has one,       *)
(* however it was delivered.                                               *)

Has(P, s) == \E i \in DOMAIN s : s[i] \in P

LEMMA HasProperties ==
  ASSUME NEW S, NEW P
  PROVE  /\ ~Has(P, <<>>)
         /\ \A x \in S : Has(P, <<x>>) <=> x \in P
         /\ \A s \in Seq(S), t \in Seq(S) : Has(P, s \o t) <=> Has(P, s) \/ Has(P, t)
         /\ \A s \in Seq(S), x \in S : Has(P, Append(s, x)) <=> Has(P, s) \/ x \in P
<1>1. ~Has(P, <<>>)
  BY DEF Has
<1>2. \A x \in S : Has(P, <<x>>) <=> x \in P
  <2>1. \A x \in S : DOMAIN <<x>> = {1} /\ <<x>>[1] = x
    OBVIOUS
  <2>. QED BY <2>1 DEF Has
<1>3. ASSUME NEW s \in Seq(S), NEW t \in Seq(S)
      PROVE  Has(P, s \o t) <=> Has(P, s) \/ Has(P, t)
  <2> DEFINE m == Len(s)
             n == Len(t)
             u == s \o t
  <2>1. /\ m \in Nat /\ n \in Nat /\ DOMAIN s = 1..m /\ DOMAIN t = 1..n
        /\ DOMAIN u = 1..(m + n)
        /\ \A i \in 1..(m + n) : u[i] = IF i <= m THEN s[i] ELSE t[i - m]
    <3>1. u \in Seq(S) /\ Len(u) = m + n
      BY ConcatProperties
    <3>2. DOMAIN u = 1..Len(u)
      BY <3>1
    <3>. QED BY <3>1, <3>2, ConcatProperties, LenProperties
  <2> HIDE DEF m, n, u
  <2>2. ASSUME NEW i \in 1..(m + n), u[i] \in P
        PROVE  Has(P, s) \/ Has(P, t)
    <3>1. CASE i <= m
      BY <2>1, <2>2, <3>1 DEF Has
    <3>2. CASE ~(i <= m)
      <4>1. i - m \in 1..n
        BY <2>1, <3>2
      <4>. QED BY <2>1, <2>2, <3>2, <4>1 DEF Has
    <3>. QED BY <3>1, <3>2
  <2>3. ASSUME NEW i \in 1..m, s[i] \in P
        PROVE  \E k \in 1..(m + n) : u[k] \in P
    <3>1. i \in 1..(m + n) /\ i <= m
      BY <2>1
    <3>. QED BY <2>1, <2>3, <3>1
  <2>4. ASSUME NEW i \in 1..n, t[i] \in P
        PROVE  \E k \in 1..(m + n) : u[k] \in P
    <3>1. i + m \in 1..(m + n) /\ ~(i + m <= m) /\ (i + m) - m = i
      BY <2>1
    <3>. QED BY <2>1, <2>4, <3>1
  <2>5. Has(P, u) <=> \E k \in 1..(m + n) : u[k] \in P
    BY <2>1 DEF Has
  <2>6. Has(P, s) <=> \E k \in 1..m : s[k] \in P
    BY <2>1 DEF Has
  <2>7. Has(P, t) <=> \E k \in 1..n : t[k] \in P
    BY <2>1 DEF Has
  <2>. QED BY <2>2, <2>3, <2>4, <2>5, <2>6, <2>7 DEF u
<1>4. ASSUME NEW s \in Seq(S), NEW x \in S
      PROVE  Has(P, Append(s, x)) <=> Has(P, s) \/ x \in P
  <2>1. <<x>> \in Seq(S) /\ Append(s, x) = s \o <<x>>
    OBVIOUS
  <2>2. Has(P, s \o <<x>>) <=> Has(P, s) \/ Has(P, <<x>>)
    BY <1>3, <2>1
  <2>3. Has(P, <<x>>) <=> x \in P
    BY <1>2
  <2>. QED BY <2>1, <2>2, <2>3
<1>. QED BY <1>1, <1>2, <1>3, <1>4

LEMMA HasAny ==
  ASSUME NEW P, NEW s \in Seq(P)
  PROVE  s # <<>> <=> Has(P, s)
<1>1. CASE s # <<>>
  <2>1. 1 \in DOMAIN s /\ s[1] \in P
    BY <1>1
  <2>. QED BY <1>1, <2>1 DEF Has
<1>2. CASE s = <<>>
  BY <1>2 DEF Has
<1>. QED BY <1>1, <1>2

LEMMA FlattenHas ==
  ASSUME NEW S, NEW P, NEW seqs \in Seq(Seq(S))
  PROVE  Has(P, FlattenSeq(seqs)) <=> \E i \in 1..Len(seqs) : Has(P, seqs[i])
<1> DEFINE Q == Seq(S)
           H == {s \in Q : Has(P, s)}
           T == {q \in Seq(Q) : Has(P, FlattenSeq(q)) <=> Has(H, q)}
<1>1. <<>> \in T
  <2>1. ~Has(P, <<>>) /\ ~Has(H, <<>>)
    BY DEF Has
  <2>. QED BY <2>1, FlattenSeqOfNothing, EmptySeq
<1>2. ASSUME NEW q \in Seq(Q), NEW s \in Q, q \in T
      PROVE  Append(q, s) \in T
  <2>1. Append(q, s) \in Seq(Q) /\ FlattenSeq(Append(q, s)) = FlattenSeq(q) \o s
    BY FlattenSeqOfAppend, AppendProperties
  <2>2. FlattenSeq(q) \in Seq(S)
    BY FlattenSeqTyped
  <2>3. Has(P, FlattenSeq(q) \o s) <=> Has(P, FlattenSeq(q)) \/ Has(P, s)
    BY <2>2, HasProperties
  <2>4. Has(P, s) <=> s \in H
    OBVIOUS
  <2>5. Has(P, FlattenSeq(q)) <=> Has(H, q)
    BY <1>2
  <2> HIDE DEF H, Q
  <2>6. Has(H, Append(q, s)) <=> Has(H, q) \/ s \in H
    BY HasProperties
  <2>. QED BY <2>1, <2>3, <2>4, <2>5, <2>6
<1> HIDE DEF T
<1>3. Seq(Q) \subseteq T
  BY <1>1, <1>2, SequenceInduction
<1>4. Has(P, FlattenSeq(seqs)) <=> Has(H, seqs)
  BY <1>3 DEF T
<1>5. \A i \in 1..Len(seqs) : seqs[i] \in Q
  OBVIOUS
<1>6. DOMAIN seqs = 1..Len(seqs)
  OBVIOUS
<1>. QED BY <1>4, <1>5, <1>6 DEF Has

LEMMA SelectedHas ==
  ASSUME NEW D, NEW T \in SUBSET D, NEW s \in Seq(D)
  PROVE  Selected(T, s) # <<>> <=> Has(T, s)
<1> DEFINE H == {q \in Seq(D) : Selected(T, q) # <<>> <=> Has(T, q)}
<1>1. <<>> \in H
  BY SelectedProperties, HasProperties, EmptySeq
<1>2. ASSUME NEW q \in Seq(D), NEW x \in D, q \in H
      PROVE  Append(q, x) \in H
  <2>1. Append(q, x) \in Seq(D) /\ Append(q, x) = q \o <<x>> /\ <<x>> \in Seq(D)
    BY AppendProperties
  <2>2. /\ Selected(T, q \o <<x>>) = Selected(T, q) \o Selected(T, <<x>>)
        /\ Selected(T, <<x>>) = IF x \in T THEN <<x>> ELSE <<>>
        /\ Selected(T, q) \in Seq(D) /\ Selected(T, <<x>>) \in Seq(D)
    <3>1. \A u, v \in Seq(D) : Selected(T, u \o v) = Selected(T, u) \o Selected(T, v)
      BY SelectedProperties
    <3>2. \A y \in D : Selected(T, <<y>>) = IF y \in T THEN <<y>> ELSE <<>>
      BY SelectedProperties
    <3>3. \A u \in Seq(D) : Selected(T, u) \in Seq(D)
      BY SelectedProperties
    <3>. QED BY <2>1, <3>1, <3>2, <3>3
  <2>3. Selected(T, q) \o Selected(T, <<x>>) = <<>>
          <=> Selected(T, q) = <<>> /\ Selected(T, <<x>>) = <<>>
    BY <2>2, ConcatEqualIffEmpty
  <2>4. Selected(T, <<x>>) # <<>> <=> x \in T
    <3>1. <<x>> # <<>>
      OBVIOUS
    <3>2. Selected(T, <<x>>) = IF x \in T THEN <<x>> ELSE <<>>
      BY <2>2
    <3>. QED BY <3>1, <3>2
  <2>5. Has(T, Append(q, x)) <=> Has(T, q) \/ x \in T
    BY HasProperties
  <2>6. Selected(T, q) # <<>> <=> Has(T, q)
    BY <1>2
  <2>. QED BY <2>1, <2>2, <2>3, <2>4, <2>5, <2>6
<1> HIDE DEF H
<1>3. Seq(D) \subseteq H
  BY <1>1, <1>2, SequenceInduction
<1>. QED BY <1>3 DEF H

Uses == {b \in ContentBlock : b.type = "tool_use"}
CallItems == {x \in ReplyItem : x.kind = "call"}

LEMMA OfTypeHas ==
  ASSUME NEW bs \in Seq(ContentBlock)
  PROVE  OfType(bs, "tool_use") # <<>> <=> Has(Uses, bs)
<1> DEFINE chosen == [i \in DOMAIN bs |->
                        IF bs[i].type = "tool_use" THEN <<bs[i]>> ELSE <<>>]
<1>1. chosen = [i \in DOMAIN bs |-> IF bs[i] \in Uses THEN <<bs[i]>> ELSE <<>>]
  BY DEF Uses
<1>2. OfType(bs, "tool_use") = Selected(Uses, bs)
  BY <1>1 DEF OfType, Only, Selected
<1>3. Uses \in SUBSET ContentBlock
  BY DEF Uses
<1>. QED BY <1>2, <1>3, SelectedHas

LEMMA CallsHas ==
  ASSUME NEW items \in Seq(ReplyItem)
  PROVE  Calls(items) # <<>> <=> Has(CallItems, items)
<1> DEFINE chosen == [i \in DOMAIN items |->
                        IF items[i].kind = "call" THEN <<items[i]>> ELSE <<>>]
<1>1. chosen = [i \in DOMAIN items |-> IF items[i] \in CallItems THEN <<items[i]>> ELSE <<>>]
  BY DEF CallItems
<1>2. Calls(items) = Selected(CallItems, items)
  BY <1>1 DEF Calls, Only, Selected
<1>3. CallItems \in SUBSET ReplyItem
  BY DEF CallItems
<1>. QED BY <1>2, <1>3, SelectedHas

LEMMA UseOrNot ==
  ASSUME NEW s \in Text, NEW id \in Id, NEW signed \in BOOLEAN
  PROVE  /\ TextBlock(s) \notin Uses /\ Thinking(s, signed) \notin Uses
         /\ ToolUse(id, s) \in Uses
         /\ ~Has(Uses, TextOrNothing(s)) /\ Has(Uses, <<ToolUse(id, s)>>)
<1>1. TextBlock(s) \notin Uses /\ Thinking(s, signed) \notin Uses
  BY DEF TextBlock, Thinking, Block, Uses
<1>2. ToolUse(id, s) \in Uses
  BY ToolUseTyped DEF ToolUse, Block, Uses
<1>3. TextBlock(s) \in ContentBlock
  BY TextBlocksTyped
<1>4. ToolUse(id, s) \in ContentBlock
  BY ToolUseTyped
<1>. QED BY <1>1, <1>2, <1>3, <1>4, HasProperties DEF TextOrNothing

LEMMA ItemParts ==
  ASSUME NEW x \in ReplyItem
  PROVE  /\ x.text \in Text /\ x.id \in Id /\ x.kind \in {"reasoning", "message", "call"}
         /\ x \in CallItems <=> x.kind = "call"
BY DEF ReplyItem, CallItems, Kind

LEMMA NativeHas ==
  ASSUME NEW items \in Seq(ReplyItem), NEW b
  PROVE  Has(Uses, NativeBlocks(b, items)) <=> Has(CallItems, items)
<1> DEFINE w == NativeBlocks(b, items)
           Native(x) ==
             CASE x.kind = "reasoning" -> Thinking(x.text, b \in SignsThinking)
               [] x.kind = "message" -> TextBlock(x.text)
               [] OTHER -> ToolUse(x.id, x.text)
<1>1. w = [i \in DOMAIN items |-> Native(items[i])]
  BY DEF NativeBlocks
<1>2. ASSUME NEW x \in ReplyItem
      PROVE  Native(x) \in Uses <=> x \in CallItems
  <2>1. (b \in SignsThinking) \in BOOLEAN
    OBVIOUS
  <2>2. /\ TextBlock(x.text) \notin Uses /\ Thinking(x.text, b \in SignsThinking) \notin Uses
        /\ ToolUse(x.id, x.text) \in Uses
    BY <2>1, ItemParts, UseOrNot
  <2>. QED BY <2>2, ItemParts
<1> HIDE DEF Native
<1>3. \A i \in DOMAIN items : items[i] \in ReplyItem
  OBVIOUS
<1>. QED BY <1>1, <1>2, <1>3 DEF Has

LEMMA ChatWholeHas ==
  ASSUME NEW items \in Seq(ReplyItem)
  PROVE  Has(Uses, ChatWholeBlocks(items)) <=> Has(CallItems, items)
<1> DEFINE calls == Calls(items)
           uses == [i \in DOMAIN calls |-> ToolUse(IdOr(calls[i].id, i - 1), calls[i].text)]
           r == TextOrNothing(Said(items, "reasoning"))
           t == TextOrNothing(Said(items, "message"))
<1>1. calls \in Seq(ReplyItem)
  BY CallsTyped
<1>2. uses \in Seq(Uses)
  <2> HIDE DEF calls
  <2>1. ASSUME NEW i \in 1..Len(calls)
        PROVE  ToolUse(IdOr(calls[i].id, i - 1), calls[i].text) \in Uses
    <3>1. calls[i] \in ReplyItem /\ Len(calls) \in Nat
      BY <1>1
    <3>2. calls[i].id \in Id /\ calls[i].text \in Text /\ i - 1 \in Nat
      BY <3>1, ItemParts
    <3>3. IdOr(calls[i].id, i - 1) \in Id /\ TRUE \in BOOLEAN
      BY <3>2, IdOrTyped
    <3>. QED BY <3>2, <3>3, UseOrNot
  <2>. QED BY <1>1, <2>1
<1>3. uses # <<>> <=> calls # <<>>
  <2> HIDE DEF calls
  <2>. QED BY <1>1
<1>4. Has(Uses, uses) <=> calls # <<>>
  <2> HIDE DEF uses, calls
  <2>. QED BY <1>2, <1>3, HasAny
<1>5. /\ r \in Seq(ContentBlock) /\ ~Has(Uses, r)
      /\ t \in Seq(ContentBlock) /\ ~Has(Uses, t)
  <2>1. NoId \in Id /\ TRUE \in BOOLEAN
    BY DEF NoId, Id
  <2>. QED BY <2>1, SaidTyped, TextOrNothingTyped, UseOrNot
<1>6. ChatWholeBlocks(items) = r \o t \o uses
  BY DEF ChatWholeBlocks
<1>7. uses \in Seq(ContentBlock)
  <2>1. Uses \subseteq ContentBlock
    BY DEF Uses
  <2> HIDE DEF uses
  <2>. QED BY <1>2, <2>1, SeqMonotonic
<1> HIDE DEF uses, r, t, calls
<1>8. Has(Uses, r \o t \o uses) <=> Has(Uses, uses)
  <2>1. r \o t \in Seq(ContentBlock) /\ (Has(Uses, r \o t) <=> Has(Uses, r) \/ Has(Uses, t))
    BY <1>5, ConcatProperties, HasProperties
  <2>2. Has(Uses, (r \o t) \o uses) <=> Has(Uses, r \o t) \/ Has(Uses, uses)
    BY <1>7, <2>1, HasProperties
  <2>. QED BY <1>5, <2>1, <2>2
<1>. QED BY <1>4, <1>6, <1>8, CallsHas DEF calls

\* A block for each item: the calls' are uses, the others are not.
LEMMA PiecesHave ==
  ASSUME NEW items \in Seq(ReplyItem), NEW i \in 1..Len(items)
  PROVE  /\ Has(Uses, <<ToolUse(IdOr(items[i].id, i - 1), items[i].text)>>)
         /\ ~Has(Uses, TextOrNothing(items[i].text)) /\ ~Has(Uses, <<>>)
         /\ items[i] \in CallItems <=> items[i].kind = "call"
<1>1. items[i] \in ReplyItem /\ i - 1 \in Nat
  <2>1. items[i] \in ReplyItem /\ Len(items) \in Nat
    OBVIOUS
  <2>. QED BY <2>1
<1>2. items[i].id \in Id /\ items[i].text \in Text
      /\ (items[i] \in CallItems <=> items[i].kind = "call")
  BY <1>1, ItemParts
<1>3. IdOr(items[i].id, i - 1) \in Id /\ TRUE \in BOOLEAN
  BY <1>1, <1>2, IdOrTyped
<1>4. /\ Has(Uses, <<ToolUse(IdOr(items[i].id, i - 1), items[i].text)>>)
      /\ ~Has(Uses, TextOrNothing(items[i].text))
  BY <1>2, <1>3, UseOrNot
<1>. QED BY <1>2, <1>4, HasProperties

LEMMA WholeHas ==
  ASSUME NEW items \in Seq(ReplyItem)
  PROVE  Has(Uses, WholeBlocks(items)) <=> Has(CallItems, items)
<1> DEFINE seqs == [i \in DOMAIN items |->
                      IF items[i].kind = "call"
                      THEN <<ToolUse(IdOr(items[i].id, i - 1), items[i].text)>>
                      ELSE TextOrNothing(items[i].text)]
<1>1. \A i \in 1..Len(items) : seqs[i] \in Seq(ContentBlock)
                               /\ (Has(Uses, seqs[i]) <=> items[i] \in CallItems)
  BY PiecesTyped, PiecesHave
<1>2. seqs \in Seq(Seq(ContentBlock)) /\ Len(seqs) = Len(items)
  <2>1. DOMAIN seqs = 1..Len(items) /\ Len(items) \in Nat
    OBVIOUS
  <2>2. seqs = [i \in DOMAIN seqs |-> seqs[i]]
    OBVIOUS
  <2> HIDE DEF seqs
  <2>. QED BY <1>1, <2>1, <2>2, FunctionIsSeq
<1>3. WholeBlocks(items) = FlattenSeq(seqs)
  BY DEF WholeBlocks
<1> HIDE DEF seqs
<1>4. Has(Uses, FlattenSeq(seqs)) <=> \E i \in 1..Len(items) : Has(Uses, seqs[i])
  BY <1>2, FlattenHas
<1>5. DOMAIN items = 1..Len(items)
  OBVIOUS
<1>. QED BY <1>1, <1>3, <1>4, <1>5 DEF Has

LEMMA AssembledHas ==
  ASSUME NEW items \in Seq(ReplyItem)
  PROVE  Has(Uses, AssembledBlocks(items)) <=> Has(CallItems, items)
<1> DEFINE seqs == [i \in DOMAIN items |->
                      IF items[i].kind = "call"
                      THEN <<ToolUse(IdOr(items[i].id, i - 1), items[i].text)>>
                      ELSE <<>>]
           r == TextOrNothing(Said(items, "reasoning"))
           t == TextOrNothing(Said(items, "message"))
<1>1. \A i \in 1..Len(items) : seqs[i] \in Seq(ContentBlock)
                               /\ (Has(Uses, seqs[i]) <=> items[i] \in CallItems)
  BY PiecesTyped, PiecesHave
<1>2. seqs \in Seq(Seq(ContentBlock)) /\ Len(seqs) = Len(items)
  <2>1. DOMAIN seqs = 1..Len(items) /\ Len(items) \in Nat
    OBVIOUS
  <2>2. seqs = [i \in DOMAIN seqs |-> seqs[i]]
    OBVIOUS
  <2> HIDE DEF seqs
  <2>. QED BY <1>1, <2>1, <2>2, FunctionIsSeq
<1>3. AssembledBlocks(items) = r \o t \o FlattenSeq(seqs)
  BY DEF AssembledBlocks
<1>4. /\ r \in Seq(ContentBlock) /\ ~Has(Uses, r)
      /\ t \in Seq(ContentBlock) /\ ~Has(Uses, t)
  <2>1. NoId \in Id /\ TRUE \in BOOLEAN
    BY DEF NoId, Id
  <2>. QED BY <2>1, SaidTyped, TextOrNothingTyped, UseOrNot
<1> HIDE DEF seqs, r, t
<1>5. FlattenSeq(seqs) \in Seq(ContentBlock)
  BY <1>2, FlattenSeqTyped
<1>6. Has(Uses, FlattenSeq(seqs)) <=> \E i \in 1..Len(items) : Has(Uses, seqs[i])
  BY <1>2, FlattenHas
<1>7. Has(Uses, r \o t \o FlattenSeq(seqs)) <=> Has(Uses, FlattenSeq(seqs))
  <2>1. r \o t \in Seq(ContentBlock) /\ (Has(Uses, r \o t) <=> Has(Uses, r) \/ Has(Uses, t))
    BY <1>4, ConcatProperties, HasProperties
  <2>2. Has(Uses, (r \o t) \o FlattenSeq(seqs))
          <=> Has(Uses, r \o t) \/ Has(Uses, FlattenSeq(seqs))
    BY <1>5, <2>1, HasProperties
  <2>. QED BY <1>4, <2>1, <2>2
<1>8. DOMAIN items = 1..Len(items)
  OBVIOUS
<1>. QED BY <1>1, <1>3, <1>6, <1>7, <1>8 DEF Has

LEMMA AddHas ==
  ASSUME NEW out \in Seq(ContentBlock), NEW x \in ReplyItem, NEW next \in Nat
  PROVE  Has(Uses, Add(next, out, x)) <=> Has(Uses, out) \/ x \in CallItems
<1> DEFINE use == ToolUse(IdOr(x.id, next + Len(out)), x.text)
           thought == TextOrNothing(x.text)
           words == TextBlock(x.text)
<1>1. /\ x.text \in Text /\ x.id \in Id /\ x.kind \in {"reasoning", "message", "call"}
      /\ x \in CallItems <=> x.kind = "call"
  BY ItemParts
<1>2. IdOr(x.id, next + Len(out)) \in Id /\ TRUE \in BOOLEAN
  <2>1. next + Len(out) \in Nat
    OBVIOUS
  <2>. QED BY <1>1, <2>1, IdOrTyped
<1>3. use \in Uses /\ words \notin Uses /\ ~Has(Uses, thought)
  BY <1>1, <1>2, UseOrNot
<1>4. use \in ContentBlock /\ words \in ContentBlock /\ thought \in Seq(ContentBlock)
  BY <1>1, <1>2, ToolUseTyped, TextBlocksTyped, TextOrNothingTyped
<1>5. Add(next, out, x) = IF x.kind = "call" THEN Append(out, use)
                          ELSE IF x.kind = "reasoning" THEN out \o thought
                          ELSE Append(out, words)
  BY DEF Add
<1> HIDE DEF use, thought, words
<1>6. /\ Has(Uses, Append(out, use)) <=> Has(Uses, out) \/ use \in Uses
      /\ Has(Uses, Append(out, words)) <=> Has(Uses, out) \/ words \in Uses
  BY <1>4, HasProperties
<1>7. Has(Uses, out \o thought) <=> Has(Uses, out) \/ Has(Uses, thought)
  BY <1>4, HasProperties
<1>. QED BY <1>1, <1>3, <1>5, <1>6, <1>7

LEMMA StreamedHas ==
  ASSUME NEW items \in Seq(ReplyItem), NEW next \in Nat
  PROVE  Has(Uses, StreamedBlocks(items, next)) <=> Has(CallItems, items)
<1> DEFINE T == {q \in Seq(ReplyItem) :
                   Has(Uses, StreamedBlocks(q, next)) <=> Has(CallItems, q)}
<1>1. <<>> \in T
  <2>1. ~Has(Uses, <<>>) /\ ~Has(CallItems, <<>>)
    BY DEF Has
  <2>2. StreamedBlocks(<<>>, next) = <<>>
    BY StreamedBlocksProperties
  <2>. QED BY <2>1, <2>2, EmptySeq
<1>2. ASSUME NEW q \in Seq(ReplyItem), NEW x \in ReplyItem, q \in T
      PROVE  Append(q, x) \in T
  <2>1. /\ StreamedBlocks(q, next) \in Seq(ContentBlock)
        /\ StreamedBlocks(Append(q, x), next) = Add(next, StreamedBlocks(q, next), x)
    BY StreamedBlocksProperties
  <2>2. Has(Uses, Add(next, StreamedBlocks(q, next), x))
          <=> Has(Uses, StreamedBlocks(q, next)) \/ x \in CallItems
    BY <2>1, AddHas
  <2>3. Has(CallItems, Append(q, x)) <=> Has(CallItems, q) \/ x \in CallItems
    BY HasProperties
  <2>4. Append(q, x) \in Seq(ReplyItem)
    BY AppendProperties
  <2>. QED BY <1>2, <2>1, <2>2, <2>3, <2>4
<1> HIDE DEF T
<1>3. Seq(ReplyItem) \subseteq T
  BY <1>1, <1>2, SequenceInduction
<1>. QED BY <1>3 DEF T

LEMMA ChatAddHas ==
  ASSUME NEW out \in Seq(ContentBlock), NEW x \in ReplyItem
  PROVE  Has(Uses, ChatAdd(out, x)) <=> Has(Uses, out) \/ x \in CallItems
<1> DEFINE use == ToolUse(IdOr(x.id, Len(out)), x.text)
           words == TextBlock(x.text)
           longer == [out EXCEPT ![Len(out)].text = @ \o x.text]
<1>1. /\ x.text \in Text /\ x.id \in Id /\ x.kind \in {"reasoning", "message", "call"}
      /\ x \in CallItems <=> x.kind = "call"
  BY ItemParts
<1>2. IdOr(x.id, Len(out)) \in Id /\ TRUE \in BOOLEAN
  <2>1. Len(out) \in Nat
    OBVIOUS
  <2>. QED BY <1>1, <2>1, IdOrTyped
<1>3. use \in Uses /\ words \notin Uses
  BY <1>1, <1>2, UseOrNot
<1>4. use \in ContentBlock /\ words \in ContentBlock
  BY <1>1, <1>2, ToolUseTyped, TextBlocksTyped
<1>5. ASSUME out # <<>>, Last(out).type = "text"
      PROVE  Has(Uses, longer) <=> Has(Uses, out)
  <2>1. Len(out) \in 1..Len(out) /\ out[Len(out)] \in ContentBlock /\ DOMAIN out = 1..Len(out)
    BY <1>5
  <2>2. Last(out) = out[Len(out)]
    BY DEF Last
  <2>3. out[Len(out)] \notin Uses
    BY <1>5, <2>2 DEF Uses
  <2> DEFINE more == [out[Len(out)] EXCEPT !.text = out[Len(out)].text \o x.text]
  <2>4. more.type = "text"
    BY <1>5, <2>1, <2>2 DEF ContentBlock
  <2>5. more \notin Uses
    BY <2>4 DEF Uses
  <2>6. longer = [out EXCEPT ![Len(out)] = more]
    BY <2>1
  <2> HIDE DEF more
  <2>7. DOMAIN longer = 1..Len(out)
        /\ \A i \in 1..Len(out) : longer[i] = IF i = Len(out) THEN more ELSE out[i]
    BY <2>1, <2>6
  <2> HIDE DEF longer
  <2>. QED BY <2>1, <2>3, <2>5, <2>7 DEF Has
<1>6. ChatAdd(out, x) = IF x.kind = "call" THEN Append(out, use)
                        ELSE IF x.text = <<>> THEN out
                        ELSE IF out # <<>> /\ Last(out).type = "text" THEN longer
                        ELSE Append(out, words)
  BY DEF ChatAdd
<1> HIDE DEF use, words, longer
<1>7. /\ Has(Uses, Append(out, use)) <=> Has(Uses, out) \/ use \in Uses
      /\ Has(Uses, Append(out, words)) <=> Has(Uses, out) \/ words \in Uses
  BY <1>4, HasProperties
<1>. QED BY <1>1, <1>3, <1>5, <1>6, <1>7

LEMMA ChatStreamedHas ==
  ASSUME NEW items \in Seq(ReplyItem)
  PROVE  Has(Uses, ChatStreamedBlocks(items)) <=> Has(CallItems, items)
<1> DEFINE T == {q \in Seq(ReplyItem) :
                   Has(Uses, ChatStreamedBlocks(q)) <=> Has(CallItems, q)}
<1>1. <<>> \in T
  <2>1. ~Has(Uses, <<>>) /\ ~Has(CallItems, <<>>)
    BY DEF Has
  <2>2. ChatStreamedBlocks(<<>>) = <<>>
    BY ChatStreamedBlocksProperties
  <2>. QED BY <2>1, <2>2, EmptySeq
<1>2. ASSUME NEW q \in Seq(ReplyItem), NEW x \in ReplyItem, q \in T
      PROVE  Append(q, x) \in T
  <2>1. /\ ChatStreamedBlocks(q) \in Seq(ContentBlock)
        /\ ChatStreamedBlocks(Append(q, x)) = ChatAdd(ChatStreamedBlocks(q), x)
    BY ChatStreamedBlocksProperties
  <2>2. Has(Uses, ChatAdd(ChatStreamedBlocks(q), x))
          <=> Has(Uses, ChatStreamedBlocks(q)) \/ x \in CallItems
    BY <2>1, ChatAddHas
  <2>3. Has(CallItems, Append(q, x)) <=> Has(CallItems, q) \/ x \in CallItems
    BY HasProperties
  <2>4. Append(q, x) \in Seq(ReplyItem)
    BY AppendProperties
  <2>. QED BY <1>2, <2>1, <2>2, <2>3, <2>4
<1> HIDE DEF T
<1>3. Seq(ReplyItem) \subseteq T
  BY <1>1, <1>2, SequenceInduction
<1>. QED BY <1>3 DEF T

LEMMA RenderedHas ==
  ASSUME NEW items \in Seq(ReplyItem), Len(blocks) \in Nat
  PROVE  OfType(Rendered(items), "tool_use") # <<>> <=> Calls(items) # <<>>
<1>1. Has(Uses, Rendered(items)) <=> Has(CallItems, items)
  <2>1. /\ Has(Uses, NativeBlocks(ask.to, items)) <=> Has(CallItems, items)
        /\ Has(Uses, ChatWholeBlocks(items)) <=> Has(CallItems, items)
        /\ Has(Uses, ChatStreamedBlocks(items)) <=> Has(CallItems, items)
        /\ Has(Uses, StreamedBlocks(items, Len(blocks))) <=> Has(CallItems, items)
        /\ Has(Uses, AssembledBlocks(items)) <=> Has(CallItems, items)
        /\ Has(Uses, WholeBlocks(items)) <=> Has(CallItems, items)
    BY NativeHas, ChatWholeHas, ChatStreamedHas, StreamedHas, AssembledHas, WholeHas
  <2>2. \/ Rendered(items) = NativeBlocks(ask.to, items)
        \/ Rendered(items) = ChatWholeBlocks(items)
        \/ Rendered(items) = ChatStreamedBlocks(items)
        \/ Rendered(items) = StreamedBlocks(items, Len(blocks))
        \/ Rendered(items) = AssembledBlocks(items)
        \/ Rendered(items) = WholeBlocks(items)
    BY DEF Rendered
  <2>. QED BY <2>1, <2>2
<1>2. Rendered(items) \in Seq(ContentBlock)
  BY RenderedTyped
<1>. QED BY <1>1, <1>2, OfTypeHas, CallsHas

-----------------------------------------------------------------------------
(* What a streamed reply says, read off its blocks.                        *)

Thoughts == {b \in ContentBlock : b.type = "thinking"}

LEMMA StreamedThinksAloud ==
  ASSUME NEW items \in Seq(ReplyItem), NEW next \in Nat
  PROVE  ~Has(Thoughts, StreamedBlocks(items, next))
<1> DEFINE T == {q \in Seq(ReplyItem) : ~Has(Thoughts, StreamedBlocks(q, next))}
<1>1. <<>> \in T
  <2>1. StreamedBlocks(<<>>, next) = <<>>
    BY StreamedBlocksProperties
  <2>. QED BY <2>1, EmptySeq DEF Has
<1>2. ASSUME NEW q \in Seq(ReplyItem), NEW x \in ReplyItem, q \in T
      PROVE  Append(q, x) \in T
  <2> DEFINE out == StreamedBlocks(q, next)
             use == ToolUse(IdOr(x.id, next + Len(out)), x.text)
             words == TextBlock(x.text)
  <2>1. /\ out \in Seq(ContentBlock)
        /\ StreamedBlocks(Append(q, x), next) = Add(next, out, x)
    BY StreamedBlocksProperties
  <2>2. ~Has(Thoughts, out)
    BY <1>2
  <2>3. x.text \in Text /\ x.id \in Id
    BY ItemParts
  <2> HIDE DEF out
  <2>4. next + Len(out) \in Nat
    BY <2>1
  <2>5. use \in ContentBlock /\ words \in ContentBlock
    BY <2>3, <2>4, IdOrTyped, ToolUseTyped, TextBlocksTyped
  <2>6. use \notin Thoughts /\ words \notin Thoughts
    BY DEF ToolUse, TextBlock, Block, Thoughts
  <2>7. Add(next, out, x) \in {out, out \o <<>>, Append(out, use), Append(out, words)}
    <3>1. Append(out, words) = out \o <<words>>
      BY <2>1, <2>5
    <3>. QED BY <3>1 DEF Add, TextOrNothing
  <2>8. out \o <<>> = out
    BY <2>1, ConcatEmptySeq
  <2> HIDE DEF use, words
  <2>9. ~Has(Thoughts, Append(out, use)) /\ ~Has(Thoughts, Append(out, words))
    BY <2>1, <2>2, <2>5, <2>6, HasProperties
  <2>10. Append(q, x) \in Seq(ReplyItem)
    BY AppendProperties
  <2>. QED BY <2>1, <2>2, <2>7, <2>8, <2>9, <2>10
<1> HIDE DEF T
<1>3. Seq(ReplyItem) \subseteq T
  BY <1>1, <1>2, SequenceInduction
<1>. QED BY <1>3 DEF T

\* Blocks without thinking are sanitised already.
LEMMA SelectedAll ==
  ASSUME NEW D, NEW s \in Seq(D)
  PROVE  Selected(D, s) = s
<1> DEFINE T == {q \in Seq(D) : Selected(D, q) = q}
<1>1. <<>> \in T
  BY SelectedProperties, EmptySeq
<1>2. ASSUME NEW q \in Seq(D), NEW x \in D, q \in T
      PROVE  Append(q, x) \in T
  <2>1. Append(q, x) \in Seq(D) /\ Append(q, x) = q \o <<x>> /\ <<x>> \in Seq(D)
    BY AppendProperties
  <2>2. \A u, v \in Seq(D) : Selected(D, u \o v) = Selected(D, u) \o Selected(D, v)
    BY SelectedProperties
  <2>3. Selected(D, <<x>>) = <<x>>
    BY SelectedProperties
  <2>4. Selected(D, q) = q
    BY <1>2
  <2>5. Selected(D, q \o <<x>>) = q \o <<x>>
    BY <2>1, <2>2, <2>3, <2>4
  <2>. QED BY <2>1, <2>5
<1> HIDE DEF T
<1>3. Seq(D) \subseteq T
  BY <1>1, <1>2, SequenceInduction
<1>. QED BY <1>3 DEF T

LEMMA SanitizedAlready ==
  ASSUME NEW m \in Message, ~Has(Thoughts, m.blocks)
  PROVE  SanitizeMessage(m) = m
<1> DEFINE bs == m.blocks
           clean == FlattenSeq([i \in DOMAIN bs |-> SanitizeBlock(bs[i])])
<1>1. bs \in Seq(ContentBlock)
  BY DEF Message
<1>2. \A i \in DOMAIN bs : bs[i] \in ContentBlock /\ bs[i].type # "thinking"
  BY <1>1 DEF Has, Thoughts
<1>3. \A i \in DOMAIN bs :
        SanitizeBlock(bs[i]) = IF bs[i] \in ContentBlock THEN <<bs[i]>> ELSE <<>>
  BY <1>2 DEF SanitizeBlock
<1>4. [i \in DOMAIN bs |-> SanitizeBlock(bs[i])]
        = [i \in DOMAIN bs |-> IF bs[i] \in ContentBlock THEN <<bs[i]>> ELSE <<>>]
  BY <1>3
<1>5. clean = Selected(ContentBlock, bs)
  BY <1>4 DEF Selected
<1>6. clean = bs
  BY <1>1, <1>5, SelectedAll
<1> HIDE DEF clean
<1>7. SanitizeMessage(m) = IF m.plain THEN m ELSE [m EXCEPT !.blocks = clean]
  BY DEF SanitizeMessage, clean
<1>8. [m EXCEPT !.blocks = bs] = m
  BY DEF Message
<1>. QED BY <1>6, <1>7, <1>8

LEMMA SaidProperties ==
  ASSUME NEW kind
  PROVE  /\ Said(<<>>, kind) = <<>>
         /\ \A items \in Seq(ReplyItem), x \in ReplyItem :
              Said(Append(items, x), kind)
                = Said(items, kind) \o (IF x.kind = kind THEN x.text ELSE <<>>)
<1> DEFINE T == {x \in ReplyItem : x.kind = kind}
<1>1. ASSUME NEW items \in Seq(ReplyItem)
      PROVE  Said(items, kind) = FlattenSeq(TextsOf(Selected(T, items)))
                /\ Selected(T, items) \in Seq(ReplyItem)
  <2> DEFINE chosen == [i \in DOMAIN items |->
                          IF items[i].kind = kind THEN <<items[i]>> ELSE <<>>]
  <2>1. chosen = [i \in DOMAIN items |-> IF items[i] \in T THEN <<items[i]>> ELSE <<>>]
    OBVIOUS
  <2>2. Said(items, kind) = FlattenSeq(TextsOf(Selected(T, items)))
    BY <2>1 DEF Said, Only, Selected
  <2>3. Selected(T, items) \in Seq(ReplyItem)
    BY SelectedProperties
  <2>. QED BY <2>2, <2>3
<1>2. T \in SUBSET ReplyItem
  OBVIOUS
<1>3. \A x \in ReplyItem : x \in T <=> x.kind = kind
  OBVIOUS
<1>4. \A x \in ReplyItem : x.text \in Text
  BY ItemParts
<1> HIDE DEF T
<1>5. /\ FlattenSeq(TextsOf(<<>>)) = <<>>
      /\ \A x \in ReplyItem : FlattenSeq(TextsOf(<<x>>)) = x.text
  BY <1>4, TextsProperties
<1>6. \A s, t \in Seq(ReplyItem) :
        FlattenSeq(TextsOf(s \o t)) = FlattenSeq(TextsOf(s)) \o FlattenSeq(TextsOf(t))
  BY <1>4, TextsProperties
<1>7. Said(<<>>, kind) = <<>>
  <2>1. <<>> \in Seq(ReplyItem)
    BY EmptySeq
  <2>2. Selected(T, <<>>) = <<>>
    BY <1>2, SelectedProperties
  <2>. QED BY <1>1, <1>5, <2>1, <2>2
<1>8. ASSUME NEW items \in Seq(ReplyItem), NEW x \in ReplyItem
      PROVE  Said(Append(items, x), kind)
               = Said(items, kind) \o (IF x.kind = kind THEN x.text ELSE <<>>)
  <2>1. Append(items, x) \in Seq(ReplyItem) /\ Append(items, x) = items \o <<x>>
        /\ <<x>> \in Seq(ReplyItem)
    BY AppendProperties
  <2>2. \A u, v \in Seq(ReplyItem) : Selected(T, u \o v) = Selected(T, u) \o Selected(T, v)
    BY <1>2, SelectedProperties
  <2>3. Selected(T, <<x>>) = IF x \in T THEN <<x>> ELSE <<>>
    BY <1>2, SelectedProperties
  <2>4. Selected(T, items) \in Seq(ReplyItem) /\ Selected(T, <<x>>) \in Seq(ReplyItem)
    BY <1>1, <2>1
  <2>5. Selected(T, items \o <<x>>) = Selected(T, items) \o Selected(T, <<x>>)
    BY <2>1, <2>2
  <2>6. FlattenSeq(TextsOf(Selected(T, items) \o Selected(T, <<x>>)))
          = FlattenSeq(TextsOf(Selected(T, items))) \o FlattenSeq(TextsOf(Selected(T, <<x>>)))
    BY <1>6, <2>4
  <2>7. FlattenSeq(TextsOf(Selected(T, <<x>>))) = IF x.kind = kind THEN x.text ELSE <<>>
    <3>1. CASE x \in T
      <4>1. Selected(T, <<x>>) = <<x>>
        BY <2>3, <3>1
      <4>. QED BY <1>3, <1>5, <3>1, <4>1
    <3>2. CASE x \notin T
      <4>1. Selected(T, <<x>>) = <<>>
        BY <2>3, <3>2
      <4>. QED BY <1>3, <1>5, <3>2, <4>1
    <3>. QED BY <3>1, <3>2
  <2>8. Said(Append(items, x), kind) = FlattenSeq(TextsOf(Selected(T, items \o <<x>>)))
    BY <1>1, <2>1
  <2>9. Said(items, kind) = FlattenSeq(TextsOf(Selected(T, items)))
    BY <1>1
  <2>. QED BY <2>5, <2>6, <2>7, <2>8, <2>9, Zenon
<1>. QED BY <1>7, <1>8

\* The words of the blocks are the words of the messages, if the reasoning
\* has none.
LEMMA StreamedWords ==
  ASSUME NEW items \in Seq(ReplyItem), NEW next \in Nat,
         Words(Said(items, "reasoning")) = <<>>
  PROVE  Words(JoinText(StreamedBlocks(items, next))) = Words(Said(items, "message"))
<1> DEFINE T == {q \in Seq(ReplyItem) :
                   Words(Said(q, "reasoning")) = <<>> =>
                     Words(JoinText(StreamedBlocks(q, next))) = Words(Said(q, "message"))}
<1>1. <<>> \in T
  <2>1. StreamedBlocks(<<>>, next) = <<>> /\ Said(<<>>, "message") = <<>>
    BY StreamedBlocksProperties, SaidProperties
  <2>2. JoinText(<<>>) = <<>>
    BY JoinTextProperties
  <2>. QED BY <2>1, <2>2, EmptySeq
<1>2. ASSUME NEW q \in Seq(ReplyItem), NEW x \in ReplyItem, q \in T
      PROVE  Append(q, x) \in T
  <2> SUFFICES ASSUME Words(Said(Append(q, x), "reasoning")) = <<>>
               PROVE  Words(JoinText(StreamedBlocks(Append(q, x), next)))
                        = Words(Said(Append(q, x), "message"))
    BY AppendProperties
  <2> DEFINE out == StreamedBlocks(q, next)
             use == ToolUse(IdOr(x.id, next + Len(out)), x.text)
             words == TextBlock(x.text)
             Part(kind) == IF x.kind = kind THEN x.text ELSE <<>>
  <2>1. x.text \in Text /\ x.id \in Id /\ x.kind \in {"reasoning", "message", "call"}
    BY ItemParts
  <2>2. /\ Said(Append(q, x), "reasoning") = Said(q, "reasoning") \o Part("reasoning")
        /\ Said(Append(q, x), "message") = Said(q, "message") \o Part("message")
        /\ Said(q, "reasoning") \in Text /\ Said(q, "message") \in Text
        /\ Part("reasoning") \in Text /\ Part("message") \in Text
    <3>1. /\ Said(Append(q, x), "reasoning") = Said(q, "reasoning") \o Part("reasoning")
          /\ Said(Append(q, x), "message") = Said(q, "message") \o Part("message")
      BY SaidProperties
    <3>2. Said(q, "reasoning") \in Text /\ Said(q, "message") \in Text
      BY SaidTyped
    <3>3. <<>> \in Text
      BY DEF Text
    <3>4. Part("reasoning") \in Text /\ Part("message") \in Text
      BY <2>1, <3>3
    <3>. QED BY <3>1, <3>2, <3>4
  <2>3. Words(Said(q, "reasoning")) = <<>> /\ Words(Part("reasoning")) = <<>>
    <3> DEFINE a == Words(Said(q, "reasoning"))
               b == Words(Part("reasoning"))
    <3>1. a \in Seq(Nat) /\ b \in Seq(Nat)
      BY <2>2, WordsProperties DEF Text
    <3>2. a \o b = <<>>
      BY <2>2, WordsProperties
    <3> HIDE DEF a, b
    <3>3. a = <<>> /\ b = <<>>
      BY <3>1, <3>2, ConcatEqualIffEmpty
    <3>. QED BY <3>3 DEF a, b
  <2>4. Words(JoinText(out)) = Words(Said(q, "message"))
    BY <1>2, <2>3
  <2>5. /\ out \in Seq(ContentBlock)
        /\ StreamedBlocks(Append(q, x), next) = Add(next, out, x)
    BY StreamedBlocksProperties
  <2> HIDE DEF out
  <2>6. use \in ContentBlock /\ words \in ContentBlock
    <3>1. next + Len(out) \in Nat
      BY <2>5
    <3>. QED BY <2>1, <3>1, IdOrTyped, ToolUseTyped, TextBlocksTyped
  <2>7. JoinText(<<use>>) = <<>> /\ JoinText(<<words>>) = x.text
    <3>1. use.type = "tool_use" /\ words.type = "text" /\ words.text = x.text
      BY DEF ToolUse, TextBlock, Block
    <3> HIDE DEF use, words
    <3>. QED BY <2>6, <3>1, JoinTextProperties
  <2> DEFINE added == IF x.kind = "call" THEN <<use>>
                      ELSE IF x.kind = "reasoning" /\ x.text = <<>> THEN <<>> ELSE <<words>>
  <2>8. Add(next, out, x) = out \o added /\ added \in Seq(ContentBlock)
    <3>1. Add(next, out, x) = IF x.kind = "call" THEN Append(out, use)
                              ELSE IF x.kind = "reasoning"
                                   THEN IF x.text = <<>> THEN out \o <<>> ELSE out \o <<words>>
                              ELSE Append(out, words)
      BY DEF Add, TextOrNothing
    <3> HIDE DEF use, words
    <3>2. Append(out, use) = out \o <<use>>
      BY <2>5, <2>6
    <3>3. Append(out, words) = out \o <<words>>
      BY <2>5, <2>6
    <3>4. <<use>> \in Seq(ContentBlock) /\ <<words>> \in Seq(ContentBlock)
          /\ <<>> \in Seq(ContentBlock)
      BY <2>6
    <3>. QED BY <2>1, <3>1, <3>2, <3>3, <3>4
  <2> HIDE DEF use, words
  <2>9. JoinText(added) = IF x.kind = "call" THEN <<>> ELSE x.text
    <3>1. JoinText(<<>>) = <<>>
      BY JoinTextProperties
    <3>. QED BY <2>7, <3>1
  <2> HIDE DEF added
  <2>10. JoinText(out \o added) = JoinText(out) \o JoinText(added)
         /\ JoinText(out) \in Text /\ JoinText(added) \in Text
    BY <2>5, <2>8, JoinTextProperties
  <2>11. Words(JoinText(out) \o JoinText(added)) = Words(JoinText(out)) \o Words(JoinText(added))
    BY <2>10, WordsProperties
  <2>12. Words(JoinText(added)) = Words(Part("message"))
    <3>1. CASE x.kind = "call"
      BY <2>9, <3>1
    <3>2. CASE x.kind = "message"
      BY <2>9, <3>2
    <3>3. CASE x.kind = "reasoning"
      <4>1. Words(x.text) = <<>> /\ JoinText(added) = x.text
        BY <2>3, <2>9, <3>3
      <4>2. Words(<<>>) = <<>>
        BY WordsProperties
      <4>. QED BY <3>3, <4>1, <4>2
    <3>. QED BY <2>1, <3>1, <3>2, <3>3
  <2>13. Words(Said(q, "message") \o Part("message"))
           = Words(Said(q, "message")) \o Words(Part("message"))
    BY <2>2, WordsProperties
  <2> HIDE DEF Part
  <2>. QED BY <2>2, <2>4, <2>5, <2>8, <2>10, <2>11, <2>12, <2>13
<1> HIDE DEF T
<1>3. Seq(ReplyItem) \subseteq T
  BY <1>1, <1>2, SequenceInduction
<1>. QED BY <1>3 DEF T

-----------------------------------------------------------------------------
(* How a turn ended, and what it is taken for.                             *)

\* A verdict is what the replayed message says of itself.
Judged(h, v) ==
  /\ v.turn \in 1..Len(h)
  /\ LET m == SanitizeMessage(h[v.turn])
     IN  v.done <=> OfType(m.blocks, "tool_use") = <<>> /\ IsDone(AssistantText(m))

Fitting(reason, ended, calls) ==
  /\ reason = "tool_use" => calls
  /\ calls \/ ended = "incomplete" => reason # "end_turn"
  /\ reason = "max_tokens" => ended = "incomplete"

Understood(h, reason, ended) ==
  h # <<>> /\ Last(h).role = "assistant" =>
    Fitting(reason, ended, OfType(Last(h).blocks, "tool_use") # <<>>)

\* A request ends with what the client said.
HistoryFits ==
  pc # "user" => history # <<>> /\ Last(history).role # "assistant"
\* The rounds before this one made no call, and as long as none of them had
\* reasoning their blocks say what the model said.
RoundFits ==
  pc = "asked" => /\ ~Has(Thoughts, blocks)
                  /\ OfType(blocks, "tool_use") = <<>>
                  /\ ~turn.reasoned => Words(JoinText(blocks)) = Words(text)
VerdictsFit == \A v \in turn.verdicts : Judged(Settled, v)
\* While a compaction is under way its turn may still be given up, and the
\* reason is the last reply's again.
EndFits ==
  pc = "user" \/ IsCompaction(Sanitize(history)) =>
    Understood(Settled, stop, turn.ended)

EndInv == HistoryFits /\ RoundFits /\ VerdictsFit /\ EndFits

LEMMA JudgedGrows ==
  ASSUME NEW S, NEW h \in Seq(S), NEW more \in Seq(S), NEW v, Judged(h, v)
  PROVE  Judged(h \o more, v)
<1>1. /\ Len(h) \in Nat /\ Len(more) \in Nat /\ Len(h \o more) = Len(h) + Len(more)
      /\ \A i \in 1..Len(h) : (h \o more)[i] = h[i]
  BY ConcatProperties, LenProperties
<1>2. v.turn \in 1..Len(h)
  BY DEF Judged
<1>3. v.turn \in 1..Len(h \o more) /\ (h \o more)[v.turn] = h[v.turn]
  BY <1>1, <1>2
<1>. QED BY <1>3 DEF Judged

LEMMA LastOfMore ==
  ASSUME NEW S, NEW h \in Seq(S), NEW more \in Seq(S), more # <<>>
  PROVE  h \o more # <<>> /\ Last(h \o more) = more[Len(more)] /\ Len(more) \in Nat \ {0}
<1>1. Len(h) \in Nat /\ Len(more) \in Nat \ {0}
  BY EmptySeq, LenProperties
<1>2. h \o more \in Seq(S) /\ Len(h \o more) = Len(h) + Len(more)
      /\ \A i \in 1..(Len(h) + Len(more)) :
           (h \o more)[i] = IF i <= Len(h) THEN h[i] ELSE more[i - Len(h)]
  BY ConcatProperties
<1>3. (h \o more)[Len(h) + Len(more)] = more[Len(more)]
  <2>1. /\ Len(h) + Len(more) \in 1..(Len(h) + Len(more)) /\ ~(Len(h) + Len(more) <= Len(h))
        /\ (Len(h) + Len(more)) - Len(h) = Len(more)
    BY <1>1
  <2>. QED BY <1>2, <2>1
<1>4. h \o more # <<>>
  BY <1>1, <1>2, EmptySeq
<1>. QED BY <1>1, <1>2, <1>3, <1>4 DEF Last

LEMMA EndInitially == Init => EndInv
<1> SUFFICES ASSUME Init
             PROVE  EndInv
  OBVIOUS
<1>1. pc = "user" /\ history = <<>> /\ turn.verdicts = {}
  BY DEF Init
<1>2. Settled = <<>>
  BY <1>1 DEF Settled, SettledIn
<1>. QED BY <1>1, <1>2 DEF EndInv, HistoryFits, RoundFits, VerdictsFit, EndFits, Understood

LEMMA EndClient ==
  ASSUME PrefixInv, EndInv, ClientSpeaks
  PROVE  EndInv'
<1>1. history \in Seq(Message)
  BY DEF PrefixInv, TypeOK
<1>2. PICK more \in Seq(Message) :
        /\ history' = history \o more /\ more # <<>>
        /\ \A i \in 1..Len(more) : more[i].role # "assistant"
  BY DEF ClientSpeaks
<1>3. /\ pc = "user" /\ pc' = "ready" /\ stop' = stop /\ turn' = turn /\ Settled = history
  BY DEF ClientSpeaks, Settled, SettledIn
<1>4. HistoryFits'
  <2>1. history \o more # <<>> /\ Last(history \o more) = more[Len(more)]
        /\ Len(more) \in Nat \ {0}
    BY <1>1, <1>2, LastOfMore
  <2>2. Len(more) \in 1..Len(more)
    BY <2>1
  <2>. QED BY <1>2, <2>1, <2>2 DEF HistoryFits
<1>5. RoundFits'
  BY <1>3 DEF RoundFits
<1>6. PICK r \in Seq(Message) : SettledIn("ready", history \o more) = history \o r
  BY <1>1, <1>2, SettledGrows
<1>7. Settled' = history \o r
  BY <1>2, <1>3, <1>6 DEF Settled
<1>8. VerdictsFit'
  <2>1. ASSUME NEW v \in turn.verdicts
        PROVE  Judged(history \o r, v)
    <3>1. Judged(history, v)
      BY <1>3 DEF EndInv, VerdictsFit
    <3>. QED BY <1>1, <1>6, <3>1, JudgedGrows
  <2>. QED BY <1>3, <1>7, <2>1 DEF VerdictsFit
<1>9. EndFits'
  <2> SUFFICES ASSUME IsCompaction(Sanitize(history'))
               PROVE  Understood(Settled', stop, turn.ended)
    BY <1>3 DEF EndFits
  <2>1. Understood(history, stop, turn.ended)
    BY <1>3 DEF EndInv, EndFits
  <2> DEFINE f == Front(more)
  <2>2. Settled' = Front(history \o more)
    BY <1>2, <1>3 DEF Settled, SettledIn
  <2>3. Settled' = history \o f /\ f \in Seq(Message)
    BY <1>1, <1>2, <2>2, FrontOfMore
  <2>4. /\ Len(more) \in Nat /\ Len(f) = Len(more) - 1
        /\ \A i \in 1..(Len(more) - 1) : f[i] = more[i]
    BY <1>2, FrontTyped
  <2> HIDE DEF f
  <2>5. CASE f = <<>>
    <3>1. history \o f = history
      BY <1>1, <2>5, ConcatEmptySeq
    <3>. QED BY <2>1, <2>3, <3>1
  <2>6. CASE f # <<>>
    <3>1. Last(history \o f) = f[Len(f)] /\ Len(f) \in Nat \ {0}
      BY <1>1, <2>3, <2>6, LastOfMore
    <3>2. Len(f) \in 1..Len(more) /\ Len(f) \in 1..(Len(more) - 1)
      BY <2>4, <3>1
    <3>3. f[Len(f)].role # "assistant"
      BY <1>2, <2>4, <3>2
    <3>. QED BY <2>3, <3>1, <3>3 DEF Understood
  <2>. QED BY <2>5, <2>6
<1>. QED BY <1>4, <1>5, <1>8, <1>9 DEF EndInv

LEMMA EndAsk ==
  ASSUME PrefixInv, EndInv, NEW b \in Backends, NEW reminder \in {<<>>, <<"reminder">>},
         NEW streaming \in BOOLEAN, Ask(b, streaming, reminder)
  PROVE  EndInv'
<1> DEFINE compaction == IsCompaction(Sanitize(history))
<1>1. TypeOK
  BY DEF PrefixInv
<1>2. /\ pc = "ready" /\ pc' = "asked" /\ history' = history /\ stop' = stop
      /\ blocks' = <<>> /\ text' = <<>>
      /\ turn' = [turn EXCEPT !.ended = IF compaction THEN @ ELSE "open", !.reasoned = FALSE]
  BY DEF Ask
<1>3. turn'.verdicts = turn.verdicts /\ (compaction => turn'.ended = turn.ended)
  BY <1>1, <1>2 DEF TypeOK
<1> HIDE DEF compaction
<1>4. Settled' = Settled
  BY <1>2 DEF Settled, SettledIn
<1>5. HistoryFits'
  BY <1>2 DEF EndInv, HistoryFits
<1>6. RoundFits'
  BY <1>2, OfTypeProperties, JoinTextProperties DEF RoundFits, Has
<1>7. VerdictsFit'
  BY <1>3, <1>4 DEF EndInv, VerdictsFit
<1>8. EndFits'
  BY <1>2, <1>3, <1>4 DEF EndInv, EndFits, compaction
<1>. QED BY <1>5, <1>6, <1>7, <1>8 DEF EndInv

LEMMA EndRefuse ==
  ASSUME PrefixInv, EndInv, Refuse
  PROVE  EndInv'
<1>1. /\ pc = "asked" /\ stop' = stop /\ turn' = turn
      /\ IF ask.compaction THEN pc' = "user" /\ history' = Front(history)
         ELSE pc' = "ready" /\ history' = history
  BY DEF Refuse, Lost
<1>2. ask.compaction = IsCompaction(Sanitize(history))
  BY <1>1 DEF PrefixInv, AskFits
<1>3. Settled' = Settled
  BY <1>1, <1>2 DEF Settled, SettledIn
<1>4. HistoryFits' /\ RoundFits'
  BY <1>1 DEF EndInv, HistoryFits, RoundFits
<1>5. VerdictsFit'
  BY <1>1, <1>3 DEF EndInv, VerdictsFit
<1>6. EndFits'
  BY <1>1, <1>2, <1>3 DEF EndInv, EndFits
<1>. QED BY <1>4, <1>5, <1>6 DEF EndInv

\* A round of a driven turn is streamed: it has no thinking, a call if and
\* only if the reply has one, and without reasoning it says what was said.
LEMMA DrivenRound ==
  ASSUME TypeOK, RoundFits, pc = "asked", Driven, NEW items \in Seq(ReplyItem)
  PROVE  /\ ~Has(Thoughts, blocks \o Rendered(items))
         /\ ~Reasoned(items) =>
              Words(JoinText(blocks \o Rendered(items)))
                = Words(text \o Said(items, "message"))
<1> DEFINE out == StreamedBlocks(items, Len(blocks))
           message == Said(items, "message")
<1>1. ask.to \in Continues /\ ask.streaming
  BY DEF Driven
<1>2. Api[ask.to] = "responses"
  BY <1>1, ConversationAssumption
<1>3. Delivery = "stream"
  BY <1>1, <1>2 DEF Delivery
<1>4. Rendered(items) = out
  BY <1>3 DEF Rendered
<1>5. blocks \in Seq(ContentBlock) /\ text \in Text /\ Len(blocks) \in Nat
  BY LenProperties DEF TypeOK
<1>6. out \in Seq(ContentBlock) /\ message \in Text
  BY <1>5, StreamedBlocksProperties, SaidTyped
<1>7. ~Has(Thoughts, out)
  BY <1>5, StreamedThinksAloud
<1>8. ~Has(Thoughts, blocks)
  BY DEF RoundFits
<1>9. ASSUME ~Reasoned(items)
      PROVE  Words(JoinText(out)) = Words(message) /\ Words(JoinText(blocks)) = Words(text)
  BY <1>5, <1>9, StreamedWords DEF Reasoned, RoundFits
<1> HIDE DEF out, message
<1>10. ~Has(Thoughts, blocks \o out)
  BY <1>5, <1>6, <1>7, <1>8, HasProperties
<1>11. ASSUME ~Reasoned(items)
       PROVE  Words(JoinText(blocks \o out)) = Words(text \o message)
  <2>1. JoinText(blocks \o out) = JoinText(blocks) \o JoinText(out)
        /\ JoinText(blocks) \in Text /\ JoinText(out) \in Text
    BY <1>5, <1>6, JoinTextProperties
  <2>2. Words(JoinText(blocks) \o JoinText(out))
          = Words(JoinText(blocks)) \o Words(JoinText(out))
    BY <2>1, WordsProperties
  <2>3. Words(text \o message) = Words(text) \o Words(message)
    BY <1>5, <1>6, WordsProperties
  <2>. QED BY <1>9, <1>11, <2>1, <2>2, <2>3
<1>. QED BY <1>4, <1>10, <1>11 DEF message

LEMMA RoundCalls ==
  ASSUME TypeOK, RoundFits, pc = "asked", NEW items \in Seq(ReplyItem)
  PROVE  OfType(blocks \o Rendered(items), "tool_use") = <<>> <=> Calls(items) = <<>>
<1>1. blocks \in Seq(ContentBlock) /\ Len(blocks) \in Nat
  BY LenProperties DEF TypeOK
<1>2. Rendered(items) \in Seq(ContentBlock)
  BY <1>1, RenderedTyped
<1> DEFINE r == OfType(Rendered(items), "tool_use")
<1>3. OfType(blocks \o Rendered(items), "tool_use") = OfType(blocks, "tool_use") \o r
  BY <1>1, <1>2, OfTypeProperties
<1>4. r \in Seq(ContentBlock)
  BY <1>2, OfTypeProperties
<1>5. OfType(blocks, "tool_use") = <<>>
  BY DEF RoundFits
<1>6. r # <<>> <=> Calls(items) # <<>>
  BY <1>1, RenderedHas
<1> HIDE DEF r
<1>7. <<>> \o r = r
  BY <1>4, ConcatEmptySeq
<1>. QED BY <1>3, <1>5, <1>6, <1>7

LEMMA EndContinue ==
  ASSUME PrefixInv, EndInv, NEW reply \in Replies, Continue(reply)
  PROVE  EndInv'
<1> DEFINE items == Written(reply)
           after == text \o Said(items, "message")
<1>1. /\ pc = "asked" /\ ShouldContinue(items, reply.status)
      /\ blocks' = blocks \o Rendered(items) /\ text' = after
      /\ turn' = [turn EXCEPT !.reasoned = Reasoned(items)]
      /\ UNCHANGED <<history, pc, ask, stop>>
  BY DEF Continue
<1>2. TypeOK /\ RoundFits
  BY DEF PrefixInv, EndInv
<1>3. items \in Seq(ReplyItem)
  BY <1>2, WrittenTyped DEF TypeOK
<1>4. /\ turn'.verdicts = turn.verdicts /\ turn'.ended = turn.ended
      /\ turn'.reasoned = Reasoned(items)
  BY <1>1, <1>2 DEF TypeOK
<1>5. Driven /\ Calls(items) = <<>>
  BY <1>1 DEF ShouldContinue
<1> HIDE DEF items
<1>6. RoundFits'
  BY <1>1, <1>2, <1>3, <1>4, <1>5, DrivenRound, RoundCalls DEF RoundFits
<1>7. Settled' = Settled
  BY <1>1 DEF Settled, SettledIn
<1>8. HistoryFits'
  BY <1>1 DEF EndInv, HistoryFits
<1>9. VerdictsFit'
  BY <1>4, <1>7 DEF EndInv, VerdictsFit
<1>10. EndFits'
  BY <1>1, <1>4, <1>7 DEF EndInv, EndFits
<1>. QED BY <1>6, <1>8, <1>9, <1>10 DEF EndInv

\* Every translation's stop reason fits the reply it is made for.
LEMMA StopFits ==
  ASSUME NEW items, NEW status \in Status
  PROVE  /\ Fitting(Stop(items, status), status, Calls(items) # <<>>)
         /\ Fitting(StreamedStop(items, "completed"), "failed", Calls(items) # <<>>)
<1>1. Fitting(StreamedStop(items, "completed"), "failed", Calls(items) # <<>>)
  BY DEF Fitting, StreamedStop
<1>2. Fitting(StreamedStop(items, status), status, Calls(items) # <<>>)
  BY DEF Fitting, StreamedStop
<1>3. Fitting(WholeStop(items, status), status, Calls(items) # <<>>)
  BY DEF Fitting, WholeStop
<1>4. Fitting(AssembledStop(items, status), status, Calls(items) # <<>>)
  BY DEF Fitting, AssembledStop
<1>5. Fitting(ChatStop(FinishReason(items, status)), status, Calls(items) # <<>>)
  BY DEF Fitting, ChatStop, FinishReason
<1>. QED BY <1>1, <1>2, <1>3, <1>4, <1>5 DEF Stop

LEMMA EndEnds ==
  ASSUME PrefixInv, EndInv, NEW reply \in Replies, Reply(reply) \/ Break(reply)
  PROVE  EndInv'
<1> DEFINE items == Written(reply)
           all == blocks \o Rendered(items)
           done == Calls(items) = <<>> /\ IsDone(text \o Said(items, "message"))
           m == BlockMessage("assistant", all)
           verdict == [turn |-> Len(history) + 1, done |-> done]
           kept == all # <<>>
           calls == Calls(items) # <<>>
<1>1. TypeOK /\ AskFits /\ HistoryFits /\ RoundFits /\ VerdictsFit /\ EndFits
  BY DEF PrefixInv, EndInv
<1>2. /\ items \in Seq(ReplyItem) /\ all \in Seq(ContentBlock) /\ pc = "asked"
      /\ \E reason \in StopReason, status \in Status :
           /\ CloseWith(items, all, reason, status, done)
           /\ \/ reason = Stop(items, reply.status) /\ status = reply.status
              \/ reason = StreamedStop(items, "completed") /\ status = "failed"
  BY <1>1, EndsClose
<1>3. reply.status \in Status
  BY ConversationAssumption
<1>4. PICK reason \in StopReason, status \in Status :
        CloseWith(items, all, reason, status, done) /\ Fitting(reason, status, calls)
  BY <1>2, <1>3, StopFits
<1>5. history \in Seq(Message) /\ history # <<>> /\ Last(history).role # "assistant"
      /\ Len(history) \in Nat
  BY <1>1, <1>2, LenProperties DEF TypeOK, HistoryFits
<1>6. ask.compaction = IsCompaction(Sanitize(history))
  BY <1>1, <1>2 DEF AskFits
<1>7. pc' = "user"
  BY <1>4 DEF CloseWith
<1>8. Settled' = history'
  BY <1>7 DEF Settled, SettledIn
<1>9. HistoryFits' /\ RoundFits'
  BY <1>7 DEF HistoryFits, RoundFits
<1>10. m.role = "assistant" /\ m.blocks = all /\ m \in Message
  BY <1>2, BlockMessageTyped DEF BlockMessage, Role
<1>11. OfType(all, "tool_use") # <<>> <=> calls
  BY <1>1, <1>2, RoundCalls
<1>12. (Driven /\ ~Reasoned(items)) => /\ ~Has(Thoughts, all)
         /\ Words(JoinText(all)) = Words(text \o Said(items, "message"))
  BY <1>1, <1>2, DrivenRound
<1>13. CASE ask.compaction
  <2>1. \/ history' = Front(history) /\ stop' = stop /\ turn' = turn
        \/ /\ history' = <<StringMessage("user", Words(JoinText(all)))>>
           /\ turn' = [turn EXCEPT !.ended = status, !.verdicts = {}]
    BY <1>4, <1>13 DEF CloseWith
  <2> HIDE DEF items, all, done, m, verdict, kept, calls
  <2>2. CASE history' = Front(history) /\ stop' = stop /\ turn' = turn
    <3>1. Settled' = Settled
      BY <1>2, <1>6, <1>8, <1>13, <2>2 DEF Settled, SettledIn
    <3>. QED BY <1>1, <1>6, <1>9, <1>13, <2>2, <3>1 DEF EndInv, VerdictsFit, EndFits
  <2>3. CASE /\ history' = <<StringMessage("user", Words(JoinText(all)))>>
             /\ turn' = [turn EXCEPT !.ended = status, !.verdicts = {}]
    <3>1. turn'.verdicts = {}
      BY <1>1, <2>3 DEF TypeOK
    <3>2. Last(history').role # "assistant"
      BY <2>3 DEF Last, StringMessage
    <3>. QED BY <1>8, <1>9, <3>1, <3>2 DEF EndInv, VerdictsFit, EndFits, Understood
  <2>. QED BY <2>1, <2>2, <2>3
<1>14. CASE ~ask.compaction
  <2>1. /\ history' = IF kept THEN Append(history, m) ELSE history
        /\ stop' = reason
        /\ turn' = [turn EXCEPT !.ended = status, !.verdicts =
                      IF kept /\ Driven /\ ~Reasoned(items)
                      THEN @ \cup {verdict} ELSE @]
    BY <1>4, <1>14 DEF CloseWith
  <2>2. turn'.ended = status
        /\ turn'.verdicts = IF kept /\ Driven /\ ~Reasoned(items)
                            THEN turn.verdicts \cup {verdict} ELSE turn.verdicts
    <3> HIDE DEF items, all, done, m, verdict, kept
    <3>. QED BY <1>1, <2>1 DEF TypeOK
  <2>3. \A v \in turn.verdicts : Judged(history, v)
    BY <1>1, <1>2, <1>6, <1>14 DEF VerdictsFit, Settled, SettledIn
  <2>4. CASE ~kept
    <3>1. history' = history /\ turn'.verdicts = turn.verdicts
      BY <2>1, <2>2, <2>4
    <3> HIDE DEF items, all, done, m, verdict, kept
    <3>2. VerdictsFit'
      BY <1>8, <2>3, <3>1 DEF VerdictsFit
    <3>3. EndFits'
      BY <1>5, <1>8, <3>1 DEF EndFits, Understood
    <3>. QED BY <1>9, <3>2, <3>3 DEF EndInv
  <2>5. CASE kept
    <3>1. history' = history \o <<m>> /\ <<m>> \in Seq(Message) /\ <<m>> # <<>>
          /\ Len(<<m>>) = 1 /\ <<m>>[1] = m
      <4> HIDE DEF m, kept
      <4>. QED BY <1>5, <1>10, <2>1, <2>5
    <3>2. Last(history') = m /\ Len(history') = Len(history) + 1
          /\ history'[Len(history) + 1] = m
      <4> HIDE DEF m
      <4>1. Last(history \o <<m>>) = m
        BY <1>5, <3>1, LastOfMore
      <4>2. Len(history \o <<m>>) = Len(history) + 1
        BY <1>5, <3>1, ConcatProperties
      <4>. QED BY <3>1, <4>1, <4>2 DEF Last
    <3>3. EndFits'
      <4> HIDE DEF m, all, calls
      <4>. QED BY <1>4, <1>8, <1>10, <1>11, <2>1, <2>2, <3>2 DEF EndFits, Understood
    <3>4. ASSUME Driven, ~Reasoned(items)
          PROVE  Judged(history', verdict)
      <4>1. SanitizeMessage(m) = m
        BY <1>10, <1>12, <3>4, SanitizedAlready
      <4>2. Len(history) + 1 \in 1..Len(history')
        BY <1>5, <3>2
      <4>3. verdict.turn = Len(history) + 1 /\ verdict.done = done
        OBVIOUS
      <4>4. IsDone(JoinText(all)) <=> IsDone(text \o Said(items, "message"))
        BY <1>12, <3>4 DEF IsDone
      <4>5. done <=> OfType(m.blocks, "tool_use") = <<>> /\ IsDone(AssistantText(m))
        BY <1>10, <1>11, <4>4 DEF AssistantText
      <4> HIDE DEF m, verdict, done
      <4>. QED BY <3>2, <4>1, <4>2, <4>3, <4>5 DEF Judged
    <3>5. ASSUME NEW v \in turn.verdicts
          PROVE  Judged(history', v)
      <4> HIDE DEF m
      <4>. QED BY <1>5, <2>3, <3>1, JudgedGrows
    <3>6. VerdictsFit'
      <4> HIDE DEF items, m, verdict
      <4>. QED BY <1>8, <2>2, <3>4, <3>5 DEF VerdictsFit
    <3>. QED BY <1>9, <3>3, <3>6 DEF EndInv
  <2>. QED BY <2>4, <2>5
<1>. QED BY <1>13, <1>14

LEMMA EndUnchanged ==
  ASSUME EndInv, UNCHANGED vars
  PROVE  EndInv'
BY DEF EndInv, HistoryFits, RoundFits, VerdictsFit, EndFits, Settled, SettledIn, vars,
       requestVars

\* PrefixInv and EndInv hold together in every behaviour: what a reply became
\* fits how it ended, and goes on to while the conversation does.
THEOREM EndInvariance == Spec => [](PrefixInv /\ EndInv)
<1>1. Init => PrefixInv /\ EndInv
  BY PrefixInitially, EndInitially
<1>2. ASSUME PrefixInv, EndInv, [Next]_vars
      PROVE  EndInv'
  <2>1. TypeOK
    BY <1>2 DEF PrefixInv
  <2>. QED BY <1>2, <2>1, NextIs, EndClient, EndAsk, EndEnds, EndContinue, EndRefuse,
              EndUnchanged
<1>3. PrefixInv /\ PrefixInv' /\ EndInv /\ [Next]_vars => EndInv'
  BY <1>2
<1>. QED BY <1>1, <1>3, Invariance, PTL DEF Spec

\* A turn that the driver saw end on the done phrase is read back as having
\* ended so, and no other, and the stop reason fits what the reply became,
\* however it was delivered.
THEOREM EndUnderstood == Spec => []EndIsUnderstood
<1>1. PrefixInv /\ EndInv => EndIsUnderstood
  <2> SUFFICES ASSUME PrefixInv, EndInv
               PROVE  EndIsUnderstood
    OBVIOUS
  <2>1. history \in Seq(Message) /\ Settled \in {history, Front(history)}
    BY DEF PrefixInv, TypeOK, Settled, SettledIn
  <2>2. ASSUME NEW v \in turn.verdicts
        PROVE  LET m == SanitizeMessage(history[v.turn])
               IN  v.done <=> /\ OfType(m.blocks, "tool_use") = <<>>
                              /\ IsDone(AssistantText(m))
    <3>1. Judged(Settled, v)
      BY DEF EndInv, VerdictsFit
    <3>2. CASE Settled = history
      BY <3>1, <3>2 DEF Judged
    <3>3. CASE Settled = Front(history)
      <4>1. v.turn \in 1..Len(Front(history))
        BY <3>1, <3>3 DEF Judged
      <4>2. history # <<>>
        BY <4>1 DEF Front
      <4>3. v.turn \in 1..(Len(history) - 1)
        BY <2>1, <4>1, <4>2, FrontTyped
      <4>4. Front(history)[v.turn] = history[v.turn]
        BY <2>1, <4>3, FrontTyped
      <4>. QED BY <3>1, <3>3, <4>4 DEF Judged
    <3>. QED BY <2>1, <3>2, <3>3
  <2>3. ASSUME pc = "user", history # <<>>, Last(history).role = "assistant"
        PROVE  LET calls == OpenCalls # <<>>
               IN  /\ stop = "tool_use" => calls
                   /\ calls \/ turn.ended = "incomplete" => stop # "end_turn"
                   /\ stop = "max_tokens" => turn.ended = "incomplete"
    <3>1. Settled = history /\ Understood(Settled, stop, turn.ended)
      BY <2>3 DEF EndInv, EndFits, Settled, SettledIn
    <3>. QED BY <2>3, <3>1 DEF Understood, Fitting, OpenCalls
  <2>. QED BY <2>2, <2>3 DEF EndIsUnderstood
<1>. QED BY <1>1, EndInvariance, PTL

-----------------------------------------------------------------------------
(* What is replaced element by element can be replaced again in one go.    *)
(* The laws have names, so that the provers find the instance they need.   *)

Maps(g, D, E) == g \in [D -> Seq(E)]
Sends(g, D, E) == g \in [D -> E]

Taking(D, T) == [x \in D |-> IF x \in T THEN <<x>> ELSE <<>>]
Ones(D, g) == [x \in D |-> <<g[x]>>]
Then(D, g, h) == [x \in D |-> Mapped(h, g[x])]
Image(g, s) == [i \in DOMAIN s |-> g[s[i]]]

MapLaws(D, S, g) ==
  /\ Mapped(g, <<>>) = <<>>
  /\ \A s \in Seq(D) : Mapped(g, s) \in Seq(S)
  /\ \A s \in Seq(D), x \in D : Mapped(g, Append(s, x)) = Mapped(g, s) \o g[x]
  /\ \A x \in D : Mapped(g, <<x>>) = g[x]
  /\ \A s, t \in Seq(D) : Mapped(g, s \o t) = Mapped(g, s) \o Mapped(g, t)

\* For any T, in D or not.
SelectLaws(D, T) ==
  /\ Selected(T, <<>>) = <<>>
  /\ \A s \in Seq(D) : Selected(T, s) \in Seq(D)
  /\ \A s \in Seq(D), x \in D :
       Selected(T, Append(s, x)) = Selected(T, s) \o (IF x \in T THEN <<x>> ELSE <<>>)
  /\ \A x \in D : Selected(T, <<x>>) = IF x \in T THEN <<x>> ELSE <<>>
  /\ \A s, t \in Seq(D) : Selected(T, s \o t) = Selected(T, s) \o Selected(T, t)

LEMMA MappedLaws ==
  ASSUME NEW D, NEW S, NEW g, Maps(g, D, S)
  PROVE  MapLaws(D, S, g)
<1> g \in [D -> Seq(S)]
  BY DEF Maps
<1>1. Mapped(g, <<>>) = <<>>
  BY MappedProperties
<1>2. \A s \in Seq(D) : Mapped(g, s) \in Seq(S)
  BY MappedProperties
<1>3. \A x \in D : Mapped(g, <<x>>) = g[x]
  BY MappedOne, Zenon
<1>4. \A s, t \in Seq(D) : Mapped(g, s \o t) = Mapped(g, s) \o Mapped(g, t)
  BY MappedConcat
<1>5. \A s \in Seq(D), x \in D : Mapped(g, Append(s, x)) = Mapped(g, s) \o g[x]
  <2>1. \A s \in Seq(D), x \in D : Append(s, x) = s \o <<x>> /\ <<x>> \in Seq(D)
    OBVIOUS
  <2>. QED BY <1>3, <1>4, <2>1
<1>. QED BY <1>1, <1>2, <1>3, <1>4, <1>5 DEF MapLaws

SeqLaws(D) ==
  /\ <<>> \in Seq(D) /\ \A x \in D : <<x>> \in Seq(D)
  /\ \A s, t \in Seq(D) : s \o t \in Seq(D)
  /\ \A s \in Seq(D), x \in D : Append(s, x) \in Seq(D) /\ Append(s, x) = s \o <<x>>
  /\ \A s \in Seq(D) : s \o <<>> = s /\ <<>> \o s = s
  /\ \A s, t, u \in Seq(D) : (s \o t) \o u = s \o (t \o u)

LEMMA SeqSteps ==
  ASSUME NEW D
  PROVE  SeqLaws(D)
BY ConcatProperties, AppendProperties, EmptySeq, ConcatEmptySeq, ConcatAssociative
   DEF SeqLaws

\* The law by its name: a step that needs one instance of it is a match of
\* atoms, and the equation is there once the name is expanded.
Regrouped(s, t, u) == (s \o t) \o u = s \o (t \o u)

LEMMA Regroup ==
  ASSUME NEW D, NEW s \in Seq(D), NEW t \in Seq(D), NEW u \in Seq(D)
  PROVE  Regrouped(s, t, u)
BY SeqSteps DEF SeqLaws, Regrouped

LEMMA MappedFlatten ==
  ASSUME NEW E, NEW F, NEW h, Maps(h, E, F), NEW seqs \in Seq(Seq(E))
  PROVE  Mapped(h, FlattenSeq(seqs)) = FlattenSeq([i \in DOMAIN seqs |-> Mapped(h, seqs[i])])
<1> DEFINE Q == Seq(E)
           m == [q \in Q |-> Mapped(h, q)]
           T == {q \in Seq(Q) : Mapped(h, FlattenSeq(q)) = Mapped(m, q)}
<1>0. MapLaws(E, F, h)
  BY MappedLaws
<1>1. Maps(m, Q, F)
  BY <1>0 DEF Maps, MapLaws
<1>2. \A q \in Q : m[q] = Mapped(h, q)
  OBVIOUS
<1> HIDE DEF m
<1>3. MapLaws(Q, F, m)
  BY <1>1, MappedLaws
<1>4. <<>> \in T
  BY <1>0, <1>3, FlattenSeqOfNothing, EmptySeq DEF MapLaws
<1>5. ASSUME NEW q \in Seq(Q), NEW s \in Q, q \in T
      PROVE  Append(q, s) \in T
  <2>1. Append(q, s) \in Seq(Q) /\ FlattenSeq(Append(q, s)) = FlattenSeq(q) \o s
    BY FlattenSeqOfAppend, AppendProperties
  <2>2. FlattenSeq(q) \in Seq(E)
    BY FlattenSeqTyped
  <2>3. Mapped(h, FlattenSeq(q) \o s) = Mapped(h, FlattenSeq(q)) \o Mapped(h, s)
    BY <1>0, <2>2 DEF MapLaws
  <2>4. Mapped(h, FlattenSeq(q)) = Mapped(m, q)
    BY <1>5
  <2> HIDE DEF Q
  <2>5. Mapped(m, Append(q, s)) = Mapped(m, q) \o m[s]
    BY <1>3 DEF MapLaws
  <2>. QED BY <1>2, <2>1, <2>3, <2>4, <2>5
<1> HIDE DEF T
<1>6. Seq(Q) \subseteq T
  BY <1>4, <1>5, SequenceInduction
<1>7. Mapped(h, FlattenSeq(seqs)) = Mapped(m, seqs)
  BY <1>6 DEF T
<1>8. [i \in DOMAIN seqs |-> m[seqs[i]]] = [i \in DOMAIN seqs |-> Mapped(h, seqs[i])]
  <2>1. \A i \in DOMAIN seqs : seqs[i] \in Q
    OBVIOUS
  <2>. QED BY <1>2, <2>1
<1>. QED BY <1>7, <1>8 DEF Mapped

LEMMA ThenTyped ==
  ASSUME NEW D, NEW E, NEW F, NEW g, Maps(g, D, E), NEW h, Maps(h, E, F)
  PROVE  Maps(Then(D, g, h), D, F)
<1>1. MapLaws(E, F, h)
  BY MappedLaws
<1>2. \A x \in D : g[x] \in Seq(E)
  BY DEF Maps
<1>3. \A x \in D : Mapped(h, g[x]) \in Seq(F)
  BY <1>1, <1>2 DEF MapLaws
<1>. QED BY <1>3 DEF Then, Maps

LEMMA MappedMapped ==
  ASSUME NEW D, NEW E, NEW F, NEW g, Maps(g, D, E), NEW h, Maps(h, E, F)
  PROVE  \A s \in Seq(D) : Mapped(h, Mapped(g, s)) = Mapped(Then(D, g, h), s)
<1> SUFFICES ASSUME NEW s \in Seq(D)
             PROVE  Mapped(h, Mapped(g, s)) = Mapped(Then(D, g, h), s)
  OBVIOUS
<1> DEFINE seqs == [i \in DOMAIN s |-> g[s[i]]]
<1>1. seqs \in Seq(Seq(E)) /\ DOMAIN seqs = DOMAIN s
  <2>1. DOMAIN s = 1..Len(s) /\ Len(s) \in Nat /\ \A i \in 1..Len(s) : s[i] \in D
    OBVIOUS
  <2>2. \A i \in 1..Len(s) : g[s[i]] \in Seq(E)
    BY <2>1 DEF Maps
  <2>3. DOMAIN seqs = 1..Len(s) /\ \A i \in 1..Len(s) : seqs[i] = g[s[i]]
    BY <2>1
  <2>4. seqs = [i \in DOMAIN seqs |-> seqs[i]]
    OBVIOUS
  <2> HIDE DEF seqs
  <2>5. \A i \in 1..Len(s) : seqs[i] \in Seq(E)
    BY <2>2, <2>3
  <2>. QED BY <2>1, <2>3, <2>4, <2>5, FunctionIsSeq
<1>2. Mapped(h, FlattenSeq(seqs)) = FlattenSeq([i \in DOMAIN seqs |-> Mapped(h, seqs[i])])
  <2> HIDE DEF seqs
  <2>. QED BY <1>1, MappedFlatten
<1>3. [i \in DOMAIN seqs |-> Mapped(h, seqs[i])] = [i \in DOMAIN s |-> Then(D, g, h)[s[i]]]
  <2>1. \A i \in DOMAIN s : s[i] \in D
    OBVIOUS
  <2>. QED BY <2>1 DEF Then
<1>. QED BY <1>2, <1>3 DEF Mapped

\* Functions that agree on the elements map sequences of them alike.
LEMMA MappedAgree ==
  ASSUME NEW D, NEW g, NEW h, \A x \in D : g[x] = h[x]
  PROVE  \A s \in Seq(D) : Mapped(g, s) = Mapped(h, s)
<1> SUFFICES ASSUME NEW s \in Seq(D)
             PROVE  Mapped(g, s) = Mapped(h, s)
  OBVIOUS
<1>1. \A i \in DOMAIN s : g[s[i]] = h[s[i]]
  OBVIOUS
<1>. QED BY <1>1 DEF Mapped

LEMMA TakingTyped ==
  ASSUME NEW D, NEW T
  PROVE  Maps(Taking(D, T), D, D)
<1>1. \A x \in D : <<x>> \in Seq(D) /\ <<>> \in Seq(D)
  OBVIOUS
<1>. QED BY <1>1 DEF Taking, Maps

LEMMA SelectedIsMapped ==
  ASSUME NEW D, NEW T
  PROVE  \A s \in Seq(D) : Selected(T, s) = Mapped(Taking(D, T), s)
<1> SUFFICES ASSUME NEW s \in Seq(D)
             PROVE  Selected(T, s) = Mapped(Taking(D, T), s)
  OBVIOUS
<1>1. \A i \in DOMAIN s : s[i] \in D
  OBVIOUS
<1>2. [i \in DOMAIN s |-> IF s[i] \in T THEN <<s[i]>> ELSE <<>>]
        = [i \in DOMAIN s |-> Taking(D, T)[s[i]]]
  BY <1>1 DEF Taking
<1>. QED BY <1>2 DEF Selected, Mapped

LEMMA SelectedLaws ==
  ASSUME NEW D, NEW T
  PROVE  SelectLaws(D, T)
<1> DEFINE g == Taking(D, T)
<1>1. Maps(g, D, D)
  BY TakingTyped
<1>2. \A x \in D : g[x] = IF x \in T THEN <<x>> ELSE <<>>
  BY DEF Taking
<1>3. \A s \in Seq(D) : Selected(T, s) = Mapped(g, s)
  BY SelectedIsMapped
<1> HIDE DEF g
<1>4. MapLaws(D, D, g)
  BY <1>1, MappedLaws
<1>5. \A s, t \in Seq(D) : Selected(T, s \o t) = Selected(T, s) \o Selected(T, t)
  <2> SUFFICES ASSUME NEW s \in Seq(D), NEW t \in Seq(D)
               PROVE  Selected(T, s \o t) = Selected(T, s) \o Selected(T, t)
    OBVIOUS
  <2>1. s \o t \in Seq(D)
    BY ConcatProperties
  <2>2. Selected(T, s \o t) = Mapped(g, s \o t) /\ Selected(T, s) = Mapped(g, s)
        /\ Selected(T, t) = Mapped(g, t)
    BY <1>3, <2>1, Zenon
  <2>3. Mapped(g, s \o t) = Mapped(g, s) \o Mapped(g, t)
    BY <1>4 DEF MapLaws
  <2>. QED BY <2>2, <2>3, Zenon
<1>6. \A s \in Seq(D), x \in D :
        Selected(T, Append(s, x)) = Selected(T, s) \o (IF x \in T THEN <<x>> ELSE <<>>)
  <2> SUFFICES ASSUME NEW s \in Seq(D), NEW x \in D
               PROVE  Selected(T, Append(s, x)) = Selected(T, s) \o g[x]
    BY <1>2
  <2>1. Append(s, x) \in Seq(D)
    BY SeqSteps DEF SeqLaws
  <2>2. Selected(T, Append(s, x)) = Mapped(g, Append(s, x)) /\ Selected(T, s) = Mapped(g, s)
    BY <1>3, <2>1, Zenon
  <2>3. Mapped(g, Append(s, x)) = Mapped(g, s) \o g[x]
    BY <1>4 DEF MapLaws
  <2>. QED BY <2>2, <2>3, Zenon
<1>7. Selected(T, <<>>) = <<>> /\ \A s \in Seq(D) : Selected(T, s) \in Seq(D)
  BY <1>3, <1>4, SeqSteps DEF MapLaws, SeqLaws
<1>8. \A x \in D : Selected(T, <<x>>) = IF x \in T THEN <<x>> ELSE <<>>
  <2>1. \A x \in D : <<x>> \in Seq(D) /\ Mapped(g, <<x>>) = g[x]
    BY <1>4, SeqSteps DEF MapLaws, SeqLaws
  <2>. QED BY <1>2, <1>3, <2>1
<1>. QED BY <1>5, <1>6, <1>7, <1>8 DEF SelectLaws

LEMMA SelectedMapped ==
  ASSUME NEW D, NEW E, NEW g, Maps(g, D, E), NEW T
  PROVE  \A s \in Seq(D) :
           Selected(T, Mapped(g, s)) = Mapped([x \in D |-> Selected(T, g[x])], s)
<1>1. Maps(Taking(E, T), E, E)
  BY TakingTyped
<1>2. \A s \in Seq(D) :
        Mapped(Taking(E, T), Mapped(g, s)) = Mapped(Then(D, g, Taking(E, T)), s)
  BY <1>1, MappedMapped
<1>3. \A s \in Seq(D) : Mapped(g, s) \in Seq(E)
  BY MappedLaws DEF MapLaws
<1>4. \A s \in Seq(E) : Selected(T, s) = Mapped(Taking(E, T), s)
  BY SelectedIsMapped
<1>5. \A x \in D : g[x] \in Seq(E)
  BY DEF Maps
<1>6. Then(D, g, Taking(E, T)) = [x \in D |-> Selected(T, g[x])]
  BY <1>4, <1>5 DEF Then
<1>. QED BY <1>2, <1>3, <1>4, <1>6

LEMMA MappedSelected ==
  ASSUME NEW D, NEW E, NEW g, Maps(g, D, E), NEW T
  PROVE  \A s \in Seq(D) :
           Mapped(g, Selected(T, s)) = Mapped([x \in D |-> IF x \in T THEN g[x] ELSE <<>>], s)
<1>1. Maps(Taking(D, T), D, D)
  BY TakingTyped
<1>2. \A s \in Seq(D) :
        Mapped(g, Mapped(Taking(D, T), s)) = Mapped(Then(D, Taking(D, T), g), s)
  BY <1>1, MappedMapped
<1>3. \A s \in Seq(D) : Selected(T, s) = Mapped(Taking(D, T), s)
  BY SelectedIsMapped
<1>4. Mapped(g, <<>>) = <<>> /\ \A x \in D : Mapped(g, <<x>>) = g[x]
  BY MappedLaws DEF MapLaws
<1>5. Then(D, Taking(D, T), g) = [x \in D |-> IF x \in T THEN g[x] ELSE <<>>]
  BY <1>4 DEF Then, Taking
<1>. QED BY <1>2, <1>3, <1>5

LEMMA ImageTyped ==
  ASSUME NEW D, NEW E, NEW g, Sends(g, D, E), NEW s \in Seq(D)
  PROVE  /\ Image(g, s) \in Seq(E) /\ Len(Image(g, s)) = Len(s)
         /\ \A i \in 1..Len(s) : Image(g, s)[i] = g[s[i]]
BY DEF Image, Sends

LEMMA OnesTyped ==
  ASSUME NEW D, NEW E, NEW g, Sends(g, D, E)
  PROVE  Maps(Ones(D, g), D, E) /\ \A x \in D : Ones(D, g)[x] = <<g[x]>>
BY DEF Ones, Sends, Maps

LEMMA ImageOfAppend ==
  ASSUME NEW D, NEW E, NEW g, Sends(g, D, E), NEW s \in Seq(D), NEW x \in D
  PROVE  Image(g, Append(s, x)) = Append(Image(g, s), g[x])
<1> DEFINE a == Image(g, s)
           b == Image(g, Append(s, x))
<1>1. Append(s, x) \in Seq(D) /\ Len(Append(s, x)) = Len(s) + 1 /\ Len(s) \in Nat
      /\ \A i \in 1..Len(s) : Append(s, x)[i] = s[i]
      /\ Append(s, x)[Len(s) + 1] = x
  BY AppendProperties, LenProperties
<1>2. a \in Seq(E) /\ Len(a) = Len(s) /\ \A i \in 1..Len(s) : a[i] = g[s[i]]
  BY ImageTyped
<1>3. b \in Seq(E) /\ Len(b) = Len(s) + 1
      /\ \A i \in 1..Len(s) + 1 : b[i] = g[Append(s, x)[i]]
  <2> DEFINE u == Append(s, x)
  <2>1. u \in Seq(D) /\ Len(u) = Len(s) + 1
    BY <1>1
  <2> HIDE DEF u
  <2>2. /\ Image(g, u) \in Seq(E) /\ Len(Image(g, u)) = Len(u)
        /\ \A i \in 1..Len(u) : Image(g, u)[i] = g[u[i]]
    BY <2>1, ImageTyped
  <2>. QED BY <2>1, <2>2 DEF u
<1>4. g[x] \in E
  BY DEF Sends
<1> HIDE DEF a, b
<1>5. /\ Append(a, g[x]) \in Seq(E) /\ Len(Append(a, g[x])) = Len(s) + 1
      /\ \A i \in 1..Len(s) : Append(a, g[x])[i] = a[i]
      /\ Append(a, g[x])[Len(s) + 1] = g[x]
  BY <1>2, <1>4, AppendProperties
<1>6. \A i \in 1..Len(s) + 1 : b[i] = Append(a, g[x])[i]
  BY <1>1, <1>2, <1>3, <1>5
<1>7. b = Append(a, g[x])
  BY <1>3, <1>5, <1>6, SeqEqual
<1>. QED BY <1>7 DEF a, b

LEMMA ImageIsMapped ==
  ASSUME NEW D, NEW E, NEW g, Sends(g, D, E)
  PROVE  \A s \in Seq(D) : Image(g, s) = Mapped(Ones(D, g), s)
<1> DEFINE T == {s \in Seq(D) : Image(g, s) = Mapped(Ones(D, g), s)}
<1>1. MapLaws(D, E, Ones(D, g)) /\ \A x \in D : Ones(D, g)[x] = <<g[x]>>
  BY OnesTyped, MappedLaws
<1>2. <<>> \in T
  <2>1. Image(g, <<>>) = <<>>
    BY DEF Image
  <2>. QED BY <1>1, <2>1, EmptySeq DEF MapLaws
<1>3. ASSUME NEW s \in Seq(D), NEW x \in D, s \in T
      PROVE  Append(s, x) \in T
  <2>1. Append(s, x) \in Seq(D)
    BY AppendProperties
  <2>2. Image(g, Append(s, x)) = Append(Image(g, s), g[x])
    BY ImageOfAppend
  <2>3. Append(Image(g, s), g[x]) = Image(g, s) \o <<g[x]>>
    <3>1. Image(g, s) \in Seq(E) /\ g[x] \in E
      BY ImageTyped DEF Sends
    <3>. QED BY <3>1
  <2>4. Mapped(Ones(D, g), Append(s, x)) = Mapped(Ones(D, g), s) \o <<g[x]>>
    BY <1>1 DEF MapLaws
  <2>. QED BY <1>3, <2>1, <2>2, <2>3, <2>4
<1> HIDE DEF T
<1>4. Seq(D) \subseteq T
  BY <1>2, <1>3, SequenceInduction
<1>. QED BY <1>4 DEF T

\* Selecting among images is taking the images of what is selected.
LEMMA SelectedImage ==
  ASSUME NEW D, NEW E, NEW g, Sends(g, D, E), NEW P, NEW Q,
         \A x \in D : x \in P <=> g[x] \in Q
  PROVE  \A s \in Seq(D) : Selected(Q, Image(g, s)) = Image(g, Selected(P, s))
<1> DEFINE one == Ones(D, g)
<1>1. Maps(one, D, E) /\ \A x \in D : one[x] = <<g[x]>>
  BY OnesTyped
<1>2. \A s \in Seq(D) : Image(g, s) = Mapped(one, s)
  BY ImageIsMapped
<1> HIDE DEF one
<1>3. \A s \in Seq(D) : Selected(Q, Mapped(one, s)) = Mapped([x \in D |-> Selected(Q, one[x])], s)
  BY <1>1, SelectedMapped
<1>4. \A s \in Seq(D) :
        Mapped(one, Selected(P, s)) = Mapped([x \in D |-> IF x \in P THEN one[x] ELSE <<>>], s)
  BY <1>1, MappedSelected
<1>5. \A x \in D : Selected(Q, one[x]) = IF x \in P THEN one[x] ELSE <<>>
  <2>1. \A y \in E : Selected(Q, <<y>>) = IF y \in Q THEN <<y>> ELSE <<>>
    BY SelectedLaws DEF SelectLaws
  <2>2. \A x \in D : g[x] \in E
    BY DEF Sends
  <2>. QED BY <1>1, <2>1, <2>2
<1>6. [x \in D |-> Selected(Q, one[x])] = [x \in D |-> IF x \in P THEN one[x] ELSE <<>>]
  BY <1>5
<1>7. \A s \in Seq(D) : Selected(P, s) \in Seq(D)
  BY SelectedLaws DEF SelectLaws
<1> SUFFICES ASSUME NEW s \in Seq(D)
             PROVE  Selected(Q, Image(g, s)) = Image(g, Selected(P, s))
  OBVIOUS
<1>8. Image(g, s) = Mapped(one, s) /\ Image(g, Selected(P, s)) = Mapped(one, Selected(P, s))
  BY <1>2, <1>7
<1>9. Selected(Q, Mapped(one, s)) = Mapped(one, Selected(P, s))
  BY <1>3, <1>4, <1>6
<1>. QED BY <1>8, <1>9

LEMMA SelectedTwice ==
  ASSUME NEW D, NEW P, NEW Q
  PROVE  \A s \in Seq(D) : Selected(Q, Selected(P, s)) = Selected(P \cap Q, s)
<1> DEFINE h == Taking(D, P \cap Q)
           g == Taking(D, Q)
<1>1. Maps(g, D, D)
  BY TakingTyped
<1>2. \A s \in Seq(D) : Selected(P \cap Q, s) = Mapped(h, s)
  BY SelectedIsMapped
<1>3. \A s \in Seq(D) : Selected(Q, s) = Mapped(g, s)
  BY SelectedIsMapped
<1>4. h = [x \in D |-> IF x \in P THEN g[x] ELSE <<>>]
  BY DEF Taking
<1> HIDE DEF g, h
<1>5. \A s \in Seq(D) :
        Mapped(g, Selected(P, s)) = Mapped([x \in D |-> IF x \in P THEN g[x] ELSE <<>>], s)
  BY <1>1, MappedSelected
<1>6. \A s \in Seq(D) : Selected(P, s) \in Seq(D)
  BY SelectedLaws DEF SelectLaws
<1>. QED BY <1>2, <1>3, <1>4, <1>5, <1>6

-----------------------------------------------------------------------------
(* Counting the elements of a kind.                                        *)

Count(P, s) == Len(Selected(P, s))
Places(P, s) == {i \in DOMAIN s : s[i] \in P}

CountLaws(D, P) ==
  /\ Count(P, <<>>) = 0
  /\ \A s \in Seq(D) : Count(P, s) \in Nat
  /\ \A s, t \in Seq(D) : Count(P, s \o t) = Count(P, s) + Count(P, t)
  /\ \A x \in D : Count(P, <<x>>) = IF x \in P THEN 1 ELSE 0
  /\ \A s \in Seq(D), x \in D :
       Count(P, Append(s, x)) = Count(P, s) + (IF x \in P THEN 1 ELSE 0)

LEMMA Counts ==
  ASSUME NEW D, NEW P
  PROVE  CountLaws(D, P)
<1>1. SelectLaws(D, P)
  BY SelectedLaws
<1>2. \A s \in Seq(D) : Count(P, s) \in Nat
  BY <1>1 DEF SelectLaws, Count
<1>3. \A x \in D : Count(P, <<x>>) = IF x \in P THEN 1 ELSE 0
  <2>1. \A x \in D : Selected(P, <<x>>) = IF x \in P THEN <<x>> ELSE <<>>
    BY <1>1 DEF SelectLaws
  <2>2. Len(<<>>) = 0 /\ \A x : Len(<<x>>) = 1
    OBVIOUS
  <2>. QED BY <2>1, <2>2 DEF Count
<1>4. ASSUME NEW s \in Seq(D), NEW t \in Seq(D)
      PROVE  Count(P, s \o t) = Count(P, s) + Count(P, t)
  <2>1. /\ Selected(P, s) \in Seq(D) /\ Selected(P, t) \in Seq(D)
        /\ Selected(P, s \o t) = Selected(P, s) \o Selected(P, t)
    BY <1>1 DEF SelectLaws
  <2>2. Len(Selected(P, s) \o Selected(P, t)) = Len(Selected(P, s)) + Len(Selected(P, t))
    BY <2>1, ConcatProperties
  <2>. QED BY <2>1, <2>2 DEF Count
<1>5. ASSUME NEW s \in Seq(D), NEW x \in D
      PROVE  Count(P, Append(s, x)) = Count(P, s) + (IF x \in P THEN 1 ELSE 0)
  <2>1. Append(s, x) = s \o <<x>> /\ <<x>> \in Seq(D)
    BY SeqSteps DEF SeqLaws
  <2>. QED BY <1>3, <1>4, <2>1
<1>6. Count(P, <<>>) = 0
  BY <1>1 DEF SelectLaws, Count
<1>. QED BY <1>2, <1>3, <1>4, <1>5, <1>6 DEF CountLaws

LEMMA CountIsCardinality ==
  ASSUME NEW D, NEW P
  PROVE  \A s \in Seq(D) :
           IsFiniteSet(Places(P, s)) /\ Cardinality(Places(P, s)) = Count(P, s)
<1> DEFINE T == {s \in Seq(D) :
                   IsFiniteSet(Places(P, s)) /\ Cardinality(Places(P, s)) = Count(P, s)}
<1>1. CountLaws(D, P)
  BY Counts
<1>2. <<>> \in T
  <2>1. Places(P, <<>>) = {}
    BY DEF Places
  <2>. QED BY <1>1, <2>1, FS_EmptySet, EmptySeq DEF CountLaws
<1>3. ASSUME NEW s \in Seq(D), NEW x \in D, s \in T
      PROVE  Append(s, x) \in T
  <2> DEFINE n == Len(s) + 1
             u == Append(s, x)
  <2>1. /\ u \in Seq(D) /\ Len(u) = n /\ DOMAIN u = 1..n /\ DOMAIN s = 1..Len(s)
        /\ Len(s) \in Nat /\ \A i \in 1..Len(s) : u[i] = s[i]
        /\ u[n] = x
    BY AppendProperties, LenProperties
  <2>2. Count(P, u) = Count(P, s) + (IF x \in P THEN 1 ELSE 0) /\ Count(P, s) \in Nat
    BY <1>1 DEF CountLaws
  <2>3. IsFiniteSet(Places(P, s)) /\ Cardinality(Places(P, s)) = Count(P, s)
    BY <1>3
  <2> HIDE DEF u, T
  <2>4. n \notin Places(P, s)
    BY <2>1 DEF Places
  <2>5. Places(P, u) = IF x \in P THEN Places(P, s) \cup {n} ELSE Places(P, s)
    <3>1. \A i : i \in 1..n <=> i \in 1..Len(s) \/ i = n
      BY <2>1
    <3> HIDE DEF n
    <3>. QED BY <2>1, <2>4, <3>1 DEF Places
  <2>6. CASE x \in P
    <3>1. IsFiniteSet(Places(P, s) \cup {n})
      BY <2>3, FS_AddElement
    <3>2. Cardinality(Places(P, s) \cup {n}) = Cardinality(Places(P, s)) + 1
      BY <2>3, <2>4, FS_AddElement
    <3>. QED BY <2>1, <2>2, <2>3, <2>5, <2>6, <3>1, <3>2 DEF T, u
  <2>7. CASE x \notin P
    BY <2>1, <2>2, <2>3, <2>5, <2>7 DEF T, u
  <2>. QED BY <2>6, <2>7
<1> HIDE DEF T
<1>4. Seq(D) \subseteq T
  BY <1>2, <1>3, SequenceInduction
<1>. QED BY <1>4 DEF T

\* Sequences with what is counted at the same places.
LEMMA CountByPlace ==
  ASSUME NEW D, NEW E, NEW P, NEW Q, NEW s \in Seq(D), NEW t \in Seq(E),
         Len(s) = Len(t), \A i \in 1..Len(s) : s[i] \in P <=> t[i] \in Q
  PROVE  Count(P, s) = Count(Q, t)
<1>1. Places(P, s) = Places(Q, t)
  <2>1. DOMAIN s = 1..Len(s) /\ DOMAIN t = 1..Len(s)
    OBVIOUS
  <2>. QED BY <2>1 DEF Places
<1>2. Cardinality(Places(P, s)) = Count(P, s)
  BY CountIsCardinality
<1>3. Cardinality(Places(Q, t)) = Count(Q, t)
  BY CountIsCardinality
<1>. QED BY <1>1, <1>2, <1>3

LEMMA CountAtMostOne ==
  ASSUME NEW D, NEW P, NEW s \in Seq(D),
         \A i, j \in DOMAIN s : s[i] \in P /\ s[j] \in P => i = j
  PROVE  Count(P, s) <= 1
<1>1. Cardinality(Places(P, s)) = Count(P, s)
  BY CountIsCardinality
<1>2. CASE Places(P, s) = {}
  BY <1>1, <1>2, FS_EmptySet
<1>3. CASE Places(P, s) # {}
  <2>1. PICK i : i \in Places(P, s)
    BY <1>3
  <2>2. Places(P, s) = {i}
    BY <2>1 DEF Places
  <2>3. Cardinality({i}) = 1
    BY FS_Singleton
  <2>. QED BY <1>1, <2>2, <2>3
<1>. QED BY <1>2, <1>3

LEMMA CountHas ==
  ASSUME NEW D, NEW P, NEW s \in Seq(D)
  PROVE  Count(P, s) \in Nat /\ (Count(P, s) = 0 <=> ~Has(P, s))
<1>1. IsFiniteSet(Places(P, s)) /\ Cardinality(Places(P, s)) = Count(P, s)
  BY CountIsCardinality
<1>2. Places(P, s) = {} <=> ~Has(P, s)
  BY DEF Places, Has
<1>3. Count(P, s) \in Nat
  BY Counts DEF CountLaws
<1>. QED BY <1>1, <1>2, <1>3, FS_EmptySet

LEMMA CountSelected ==
  ASSUME NEW D, NEW P, NEW Q, P \subseteq Q, NEW s \in Seq(D)
  PROVE  Count(P, Selected(Q, s)) = Count(P, s)
<1>1. Selected(P, Selected(Q, s)) = Selected(Q \cap P, s)
  BY SelectedTwice
<1>2. Q \cap P = P
  OBVIOUS
<1>. QED BY <1>1, <1>2 DEF Count

\* Nothing is selected from what has none of it, and all from what has no other.
LEMMA SelectedNone ==
  ASSUME NEW D, NEW P, NEW s \in Seq(D), \A i \in DOMAIN s : s[i] \notin P
  PROVE  Selected(P, s) = <<>>
<1>1. Count(P, s) = 0
  BY CountHas DEF Has
<1>2. Selected(P, s) \in Seq(D)
  BY SelectedLaws DEF SelectLaws
<1>. QED BY <1>1, <1>2, EmptySeq DEF Count

-----------------------------------------------------------------------------
(* What a sequence of utterances tells: EventsOf, one utterance after the  *)
(* other.                                                                  *)

Side == {"user", "model"}
Utterance ==
  {x \in [side : Side, kind : {"words", "call", "result", "thought"}, text : Text, id : Id] :
     x.kind = "result" => x.side = "user"}

CallsUpTo(u, n, id) == {j \in 1..n : u[j].kind = "call" /\ u[j].id = id}
\* The arguments of the last call that has the id.
CallText(u, n, id) ==
  LET calls == CallsUpTo(u, n, id)
  IN  IF calls = {} THEN <<>> ELSE u[CHOOSE j \in calls : \A k \in calls : k <= j].text
MeaningAfter(u, n, x) ==
  CASE x.kind = "words" -> WordEvents(x.side, x.text)
    [] x.kind = "result" -> <<Event("user", "result", x.text, CallText(u, n, x.id))>>
    [] OTHER -> <<Event(x.side, x.kind, x.text, <<>>)>>
\* What an utterance means behind others.
Meaning(u, x) == MeaningAfter(u, Len(u), x)

LEMMA EventsOfIs ==
  ASSUME NEW u
  PROVE  EventsOf(u) = FlattenSeq([i \in DOMAIN u |-> MeaningAfter(u, i - 1, u[i])])
BY DEF EventsOf, MeaningAfter, CallText, CallsUpTo

LEMMA CallTextTyped ==
  ASSUME NEW u \in Seq(Utterance), NEW n \in Nat, n <= Len(u), NEW id
  PROVE  CallText(u, n, id) \in Text
<1> DEFINE calls == CallsUpTo(u, n, id)
<1>1. calls \in SUBSET (1..n)
  BY DEF CallsUpTo
<1>2. CASE calls = {}
  BY <1>2, EmptySeq DEF CallText, Text
<1>3. CASE calls # {}
  <2>1. \E j \in calls : \A k \in calls : k <= j
    BY <1>1, <1>3, FirstAndLast
  <2> DEFINE j == CHOOSE i \in calls : \A k \in calls : k <= i
  <2>2. j \in calls
    BY <2>1
  <2>3. CallText(u, n, id) = u[j].text
    BY <1>3 DEF CallText
  <2> HIDE DEF j, calls
  <2>4. j \in 1..Len(u)
    BY <1>1, <2>2
  <2>5. u[j] \in Utterance
    BY <2>4
  <2>. QED BY <2>3, <2>5 DEF Utterance
<1>. QED BY <1>2, <1>3

LEMMA UtteranceParts ==
  ASSUME NEW x \in Utterance
  PROVE  /\ x.side \in Side /\ x.kind \in {"words", "call", "result", "thought"}
         /\ x.text \in Text /\ x.id \in Id
         /\ x.kind = "result" => x.side = "user"
BY DEF Utterance

LEMMA EventTyped ==
  ASSUME NEW side \in Side, NEW kind \in {"words", "call", "result", "thought"},
         NEW s \in Text, NEW t \in Text
  PROVE  /\ Event(side, kind, s, t) \in SaidEvent
         /\ Event(side, kind, s, t).side = side /\ Event(side, kind, s, t).kind = kind
         /\ Event(side, kind, s, t).text = s
BY DEF Event, SaidEvent, Side

LEMMA MeaningTyped ==
  ASSUME NEW u \in Seq(Utterance), NEW n \in Nat, n <= Len(u), NEW x \in Utterance
  PROVE  MeaningAfter(u, n, x) \in Seq(SaidEvent)
<1>1. <<>> \in Text
  BY EmptySeq DEF Text
<1>2. CASE x.kind = "words"
  BY <1>2, UtteranceParts, WordEventsTyped DEF MeaningAfter, Side
<1>3. CASE x.kind = "result"
  <2>1. CallText(u, n, x.id) \in Text
    BY CallTextTyped
  <2>2. Event("user", "result", x.text, CallText(u, n, x.id)) \in SaidEvent
    BY <2>1, UtteranceParts, EventTyped DEF Side
  <2>. QED BY <1>3, <2>2 DEF MeaningAfter
<1>4. CASE x.kind \notin {"words", "result"}
  <2>1. Event(x.side, x.kind, x.text, <<>>) \in SaidEvent
    BY <1>1, UtteranceParts, EventTyped
  <2>. QED BY <1>4, <2>1 DEF MeaningAfter
<1>. QED BY <1>2, <1>3, <1>4

BeginAlike(u, v, n) == \A j \in 1..n : u[j] = v[j]

\* Only what stands before a result matters to it.
LEMMA MeaningIsEarlier ==
  ASSUME NEW u, NEW v, NEW n \in Nat, BeginAlike(u, v, n), NEW x
  PROVE  MeaningAfter(u, n, x) = MeaningAfter(v, n, x)
<1>0. \A j \in 1..n : u[j] = v[j]
  BY DEF BeginAlike
<1>1. CallsUpTo(u, n, x.id) = CallsUpTo(v, n, x.id)
  BY <1>0 DEF CallsUpTo
<1>2. ASSUME CallsUpTo(u, n, x.id) # {}
      PROVE  LET calls == CallsUpTo(u, n, x.id)
                 j == CHOOSE i \in calls : \A k \in calls : k <= i
             IN  u[j] = v[j]
  <2> DEFINE calls == CallsUpTo(u, n, x.id)
             j == CHOOSE i \in calls : \A k \in calls : k <= i
  <2>1. calls \in SUBSET (1..n)
    BY DEF CallsUpTo
  <2>2. \E i \in calls : \A k \in calls : k <= i
    BY <1>2, <2>1, FirstAndLast
  <2>3. j \in 1..n
    BY <2>1, <2>2
  <2> HIDE DEF j
  <2>4. u[j] = v[j]
    BY <1>0, <2>3
  <2>. QED BY <2>4 DEF j
<1>3. CallText(u, n, x.id) = CallText(v, n, x.id)
  BY <1>1, <1>2 DEF CallText
<1>. QED BY <1>3 DEF MeaningAfter

LEMMA EventsOfAppend ==
  ASSUME NEW u \in Seq(Utterance), NEW x \in Utterance
  PROVE  /\ EventsOf(u) \in Seq(SaidEvent) /\ Meaning(u, x) \in Seq(SaidEvent)
         /\ EventsOf(Append(u, x)) = EventsOf(u) \o Meaning(u, x)
<1> DEFINE v == Append(u, x)
           n == Len(u)
           At(w) == [i \in DOMAIN w |-> MeaningAfter(w, i - 1, w[i])]
<1>1. /\ v \in Seq(Utterance) /\ n \in Nat /\ Len(v) = n + 1 /\ DOMAIN v = 1..(n + 1)
      /\ DOMAIN u = 1..n /\ \A i \in 1..n : v[i] = u[i] /\ u[i] \in Utterance
      /\ v[n + 1] = x
  BY AppendProperties, LenProperties
<1> HIDE DEF v
<1>2. ASSUME NEW i \in 1..n
      PROVE  /\ MeaningAfter(u, i - 1, u[i]) \in Seq(SaidEvent)
             /\ MeaningAfter(v, i - 1, v[i]) = MeaningAfter(u, i - 1, u[i])
  <2>1. i - 1 \in Nat /\ i - 1 <= n /\ \A j \in 1..(i - 1) : v[j] = u[j]
    BY <1>1
  <2>2. v[i] = u[i] /\ u[i] \in Utterance
    BY <1>1
  <2>3. MeaningAfter(v, i - 1, u[i]) = MeaningAfter(u, i - 1, u[i])
    <3>1. BeginAlike(v, u, i - 1)
      BY <2>1 DEF BeginAlike
    <3>. QED BY <2>1, <3>1, MeaningIsEarlier
  <2>. QED BY <2>1, <2>2, <2>3, MeaningTyped
<1>3. MeaningAfter(v, n, x) = Meaning(u, x)
  <2>1. BeginAlike(v, u, n)
    BY <1>1 DEF BeginAlike
  <2>. QED BY <1>1, <2>1, MeaningIsEarlier DEF Meaning
<1>4. Meaning(u, x) \in Seq(SaidEvent)
  <2>1. n \in Nat /\ n <= Len(u)
    BY <1>1
  <2>2. MeaningAfter(u, n, x) \in Seq(SaidEvent)
    BY <2>1, MeaningTyped, Zenon
  <2>. QED BY <2>2 DEF Meaning
<1>5. At(u) \in Seq(Seq(SaidEvent)) /\ Len(At(u)) = n
  <2>1. DOMAIN At(u) = 1..n /\ At(u) = [i \in DOMAIN At(u) |-> At(u)[i]]
    BY <1>1
  <2>2. \A i \in 1..n : At(u)[i] \in Seq(SaidEvent)
    BY <1>1, <1>2
  <2> HIDE DEF At
  <2>. QED BY <1>1, <2>1, <2>2, FunctionIsSeq
<1>6. At(v) = Append(At(u), Meaning(u, x))
  <2>1. /\ Append(At(u), Meaning(u, x)) \in Seq(Seq(SaidEvent))
        /\ Len(Append(At(u), Meaning(u, x))) = n + 1
        /\ \A i \in 1..n : Append(At(u), Meaning(u, x))[i] = At(u)[i]
        /\ Append(At(u), Meaning(u, x))[n + 1] = Meaning(u, x)
    <3> HIDE DEF At
    <3>. QED BY <1>4, <1>5, AppendProperties
  <2>2. DOMAIN At(v) = 1..(n + 1) /\ At(v) = [i \in DOMAIN At(v) |-> At(v)[i]]
    BY <1>1
  <2>3. At(v)[n + 1] = Meaning(u, x)
    BY <1>1, <1>3
  <2>4. \A i \in 1..n : At(v)[i] = At(u)[i]
    BY <1>1, <1>2
  <2>5. \A i \in 1..(n + 1) : At(v)[i] = Append(At(u), Meaning(u, x))[i]
    <3> HIDE DEF At
    <3>. QED BY <1>1, <2>1, <2>3, <2>4
  <2>6. \A i \in 1..(n + 1) : At(v)[i] \in Seq(SaidEvent)
    <3> HIDE DEF At
    <3>1. \A i \in 1..n : At(u)[i] \in Seq(SaidEvent)
      BY <1>5
    <3>. QED BY <1>1, <1>4, <2>3, <2>4, <3>1
  <2>7. At(v) \in Seq(Seq(SaidEvent)) /\ Len(At(v)) = n + 1
    <3> HIDE DEF At
    <3>. QED BY <1>1, <2>2, <2>6, FunctionIsSeq
  <2> HIDE DEF At
  <2>. QED BY <2>1, <2>5, <2>7, SeqEqual
<1>7. EventsOf(u) = FlattenSeq(At(u)) /\ EventsOf(v) = FlattenSeq(At(v))
  BY EventsOfIs
<1> HIDE DEF At
<1>8. FlattenSeq(At(u)) \in Seq(SaidEvent)
  BY <1>5, FlattenSeqTyped
<1>9. FlattenSeq(Append(At(u), Meaning(u, x))) = FlattenSeq(At(u)) \o Meaning(u, x)
  BY <1>4, <1>5, FlattenSeqOfAppend
<1>. QED BY <1>4, <1>6, <1>7, <1>8, <1>9 DEF v

LEMMA EventsOfNothing == EventsOf(<<>>) = <<>>
<1>1. [i \in DOMAIN <<>> |-> MeaningAfter(<<>>, i - 1, <<>>[i])] = <<>>
  OBVIOUS
<1>. QED BY <1>1, EventsOfIs, FlattenSeqOfNothing

LEMMA EventsTyped ==
  ASSUME NEW u \in Seq(Utterance)
  PROVE  EventsOf(u) \in Seq(SaidEvent)
<1> DEFINE T == {w \in Seq(Utterance) : EventsOf(w) \in Seq(SaidEvent)}
<1>1. <<>> \in T
  BY EventsOfNothing, EmptySeq
<1>2. ASSUME NEW w \in Seq(Utterance), NEW x \in Utterance, w \in T
      PROVE  Append(w, x) \in T
  <2>1. Append(w, x) \in Seq(Utterance)
    BY AppendProperties
  <2>2. EventsOf(w) \o Meaning(w, x) \in Seq(SaidEvent)
    BY EventsOfAppend, ConcatProperties
  <2>. QED BY <2>1, <2>2, EventsOfAppend
<1> HIDE DEF T
<1>3. Seq(Utterance) \subseteq T
  BY <1>1, <1>2, SequenceInduction
<1>. QED BY <1>3 DEF T

\* The text of the last call with an id in all of u.
Called(u, id) == CallText(u, Len(u), id)

LEMMA CalledOfAppend ==
  ASSUME NEW u \in Seq(Utterance), NEW x \in Utterance, NEW id
  PROVE  Called(Append(u, x), id) =
           IF x.kind = "call" /\ x.id = id THEN x.text ELSE Called(u, id)
<1> DEFINE v == Append(u, x)
           n == Len(u)
           old == CallsUpTo(u, n, id)
           new == CallsUpTo(v, n + 1, id)
<1>1. /\ v \in Seq(Utterance) /\ n \in Nat /\ Len(v) = n + 1
      /\ \A i \in 1..n : v[i] = u[i]
      /\ v[n + 1] = x
  BY AppendProperties, LenProperties
<1> HIDE DEF v
<1>2. old \in SUBSET (1..n) /\ new \in SUBSET (1..(n + 1))
  BY DEF CallsUpTo
<1>3. \A i : i \in 1..(n + 1) <=> i \in 1..n \/ i = n + 1
  BY <1>1
<1>4. Called(v, id) = IF new = {} THEN <<>>
                      ELSE v[CHOOSE j \in new : \A k \in new : k <= j].text
  BY <1>1 DEF Called, CallText
<1>5. Called(u, id) = IF old = {} THEN <<>>
                      ELSE u[CHOOSE j \in old : \A k \in old : k <= j].text
  BY DEF Called, CallText
<1>6. CASE x.kind = "call" /\ x.id = id
  <2>1. n + 1 \in new
    BY <1>1, <1>3, <1>6 DEF CallsUpTo
  <2>2. \A k \in new : k <= n + 1
    BY <1>1, <1>2
  <2>3. ASSUME NEW j \in new, \A k \in new : k <= j
        PROVE  j = n + 1
    BY <1>1, <1>2, <2>1, <2>3
  <2> DEFINE last == CHOOSE j \in new : \A k \in new : k <= j
  <2>4. last \in new /\ \A k \in new : k <= last
    BY <2>1, <2>2
  <2> HIDE DEF last, new
  <2>5. last = n + 1
    BY <2>3, <2>4
  <2>. QED BY <1>1, <1>4, <1>6, <2>1, <2>5 DEF last, v
<1>7. CASE ~(x.kind = "call" /\ x.id = id)
  <2>1. new = old
    BY <1>1, <1>3, <1>7 DEF CallsUpTo
  <2>2. CASE old = {}
    BY <1>4, <1>5, <1>7, <2>1, <2>2 DEF v
  <2>3. CASE old # {}
    <3>1. \E j \in old : \A k \in old : k <= j
      BY <1>1, <1>2, <2>3, FirstAndLast
    <3> DEFINE last == CHOOSE j \in old : \A k \in old : k <= j
    <3>2. last \in 1..n
      BY <1>2, <3>1
    <3> HIDE DEF last
    <3>3. v[last] = u[last]
      BY <1>1, <3>2
    <3> HIDE DEF new, old
    <3>. QED BY <1>4, <1>5, <1>7, <2>1, <2>3, <3>3 DEF last, v
  <2>. QED BY <2>2, <2>3
<1>. QED BY <1>6, <1>7

LEMMA CalledOfNothing ==
  ASSUME NEW id
  PROVE  Called(<<>>, id) = <<>>
<1>1. Len(<<>>) = 0 /\ 1..0 = {}
  OBVIOUS
<1>. QED BY <1>1 DEF Called, CallText, CallsUpTo

\* What utterances other than results mean does not depend on what is before.
Silent == {x \in Utterance : x.kind # "result"}
Plain == [x \in Silent |-> Meaning(<<>>, x)]

LEMMA PlainTyped ==
  /\ Maps(Plain, Silent, SaidEvent)
  /\ \A x \in Silent : /\ x \in Utterance
                       /\ Plain[x] = IF x.kind = "words" THEN WordEvents(x.side, x.text)
                                     ELSE <<Event(x.side, x.kind, x.text, <<>>)>>
                       /\ \A u : Meaning(u, x) = Plain[x]
<1>1. \A x \in Silent : x \in Utterance /\ x.kind # "result"
  BY DEF Silent
<1>2. \A x \in Silent : Meaning(<<>>, x) \in Seq(SaidEvent)
  BY <1>1, EmptySeq, EventsOfAppend
<1>3. \A x \in Silent : \A u : Meaning(u, x) = IF x.kind = "words" THEN WordEvents(x.side, x.text)
                                     ELSE <<Event(x.side, x.kind, x.text, <<>>)>>
  BY <1>1 DEF Meaning, MeaningAfter
<1>4. \A x \in Silent : Plain[x] = Meaning(<<>>, x)
  BY DEF Plain
<1>5. Maps(Plain, Silent, SaidEvent)
  BY <1>2 DEF Plain, Maps
<1>. QED BY <1>1, <1>3, <1>4, <1>5

LEMMA SilentTyped ==
  ASSUME NEW v \in Seq(Silent)
  PROVE  v \in Seq(Utterance)
<1>1. Silent \subseteq Utterance
  BY DEF Silent
<1>. QED BY <1>1, SeqMonotonic

LEMMA EventsOfSilent ==
  ASSUME NEW u \in Seq(Utterance)
  PROVE  \A v \in Seq(Silent) : EventsOf(u \o v) = EventsOf(u) \o Mapped(Plain, v)
<1> DEFINE T == {v \in Seq(Silent) : EventsOf(u \o v) = EventsOf(u) \o Mapped(Plain, v)}
<1>1. MapLaws(Silent, SaidEvent, Plain)
  BY PlainTyped, MappedLaws
<1>2. EventsOf(u) \in Seq(SaidEvent)
  BY EventsTyped
<1>3. <<>> \in T
  <2>1. u \o <<>> = u /\ EventsOf(u) \o <<>> = EventsOf(u) /\ <<>> \in Seq(Silent)
    BY <1>2, SeqSteps DEF SeqLaws
  <2>. QED BY <1>1, <2>1 DEF MapLaws
<1>4. ASSUME NEW v \in Seq(Silent), NEW x \in Silent, v \in T
      PROVE  Append(v, x) \in T
  <2>1. Append(v, x) \in Seq(Silent) /\ v \in Seq(Utterance) /\ x \in Utterance
    BY AppendProperties, SilentTyped, PlainTyped
  <2>2. u \o v \in Seq(Utterance) /\ u \o Append(v, x) = Append(u \o v, x)
    BY <2>1, ConcatProperties, AppendProperties
  <2>3. EventsOf(Append(u \o v, x)) = EventsOf(u \o v) \o Plain[x]
    BY <2>1, <2>2, EventsOfAppend, PlainTyped
  <2>4. Mapped(Plain, Append(v, x)) = Mapped(Plain, v) \o Plain[x]
    BY <1>1 DEF MapLaws
  <2>5. Mapped(Plain, v) \in Seq(SaidEvent) /\ Plain[x] \in Seq(SaidEvent)
    BY <1>1, PlainTyped DEF MapLaws, Maps
  <2>6. (EventsOf(u) \o Mapped(Plain, v)) \o Plain[x] = EventsOf(u) \o (Mapped(Plain, v) \o Plain[x])
    <3>1. \A a, b, c \in Seq(SaidEvent) : (a \o b) \o c = a \o (b \o c)
      BY ConcatAssociative
    <3>. QED BY <1>2, <2>5, <3>1
  <2>7. EventsOf(u \o v) = EventsOf(u) \o Mapped(Plain, v)
    BY <1>4
  <2>. QED BY <2>1, <2>2, <2>3, <2>4, <2>6, <2>7
<1> HIDE DEF T
<1>5. Seq(Silent) \subseteq T
  BY <1>3, <1>4, SequenceInduction
<1>. QED BY <1>5 DEF T

LEMMA CalledTyped ==
  ASSUME NEW u \in Seq(Utterance), NEW id
  PROVE  Called(u, id) \in Text
BY CallTextTyped, LenProperties DEF Called

Callless == {x \in Utterance : x.kind # "call"}

LEMMA CalledOfCallless ==
  ASSUME NEW u \in Seq(Utterance), NEW id
  PROVE  \A v \in Seq(Callless) : Called(u \o v, id) = Called(u, id)
<1> DEFINE T == {v \in Seq(Callless) : Called(u \o v, id) = Called(u, id)}
<1>1. <<>> \in T
  <2>1. u \o <<>> = u
    BY ConcatEmptySeq
  <2>. QED BY <2>1, EmptySeq
<1>2. ASSUME NEW v \in Seq(Callless), NEW x \in Callless, v \in T
      PROVE  Append(v, x) \in T
  <2>1. Append(v, x) \in Seq(Callless) /\ x \in Utterance /\ x.kind # "call"
    BY AppendProperties DEF Callless
  <2>2. v \in Seq(Utterance)
    <3>1. Callless \subseteq Utterance
      BY DEF Callless
    <3>. QED BY <3>1, SeqMonotonic
  <2>3. u \o v \in Seq(Utterance) /\ u \o Append(v, x) = Append(u \o v, x)
    BY <2>1, <2>2, ConcatProperties, AppendProperties
  <2>4. Called(Append(u \o v, x), id) = Called(u \o v, id)
    BY <2>1, <2>3, CalledOfAppend
  <2>. QED BY <1>2, <2>1, <2>3, <2>4
<1> HIDE DEF T
<1>3. Seq(Callless) \subseteq T
  BY <1>1, <1>2, SequenceInduction
<1>. QED BY <1>3 DEF T

-----------------------------------------------------------------------------
(* Words in fragments: how they were put together does not show.           *)

Fragment == Nat \ {Blank}
Spoken == {x \in Utterance : x.kind = "words"}
OneWord(side) == [f \in Fragment |-> Utter(side, "words", <<f>>, NoId)]
OneEvent(side) == [f \in Fragment |-> Event(side, "words", <<f>>, <<>>)]
Split(side, s) == Image(OneWord(side), Words(s))
SplitUp == [x \in Utterance |-> IF x.kind = "words" THEN Split(x.side, x.text) ELSE <<x>>]
Fragments(u) == Mapped(SplitUp, u)

ImageLaws(D, E, g) ==
  /\ Image(g, <<>>) = <<>>
  /\ \A s \in Seq(D) : Image(g, s) \in Seq(E)
  /\ \A x \in D : Image(g, <<x>>) = <<g[x]>>
  /\ \A s, t \in Seq(D) : Image(g, s \o t) = Image(g, s) \o Image(g, t)

LEMMA Images ==
  ASSUME NEW D, NEW E, NEW g, Sends(g, D, E)
  PROVE  ImageLaws(D, E, g)
<1>1. MapLaws(D, E, Ones(D, g)) /\ \A x \in D : Ones(D, g)[x] = <<g[x]>>
  BY OnesTyped, MappedLaws
<1>2. \A s \in Seq(D) : Image(g, s) = Mapped(Ones(D, g), s)
  BY ImageIsMapped
<1>3. Image(g, <<>>) = <<>>
  BY DEF Image
<1>4. \A s \in Seq(D) : Image(g, s) \in Seq(E)
  BY <1>1, <1>2 DEF MapLaws
<1>5. \A x \in D : Image(g, <<x>>) = <<g[x]>>
  <2>1. \A x \in D : <<x>> \in Seq(D)
    OBVIOUS
  <2>2. \A x \in D : Mapped(Ones(D, g), <<x>>) = <<g[x]>>
    BY <1>1 DEF MapLaws
  <2>. QED BY <1>2, <2>1, <2>2
<1>6. \A s, t \in Seq(D) : Image(g, s \o t) = Image(g, s) \o Image(g, t)
  <2> SUFFICES ASSUME NEW s \in Seq(D), NEW t \in Seq(D)
               PROVE  Image(g, s \o t) = Image(g, s) \o Image(g, t)
    OBVIOUS
  <2>1. s \o t \in Seq(D)
    BY ConcatProperties
  <2>. QED BY <1>1, <1>2, <2>1 DEF MapLaws
<1>. QED BY <1>3, <1>4, <1>5, <1>6 DEF ImageLaws

LEMMA WordsAreFragments ==
  ASSUME NEW s \in Text
  PROVE  Words(s) \in Seq(Fragment) /\ Words(s) \in Text
<1>1. Words(s) = Selected(Fragment, s)
  <2>1. \A i \in DOMAIN s : s[i] \in Nat
    BY DEF Text
  <2>2. [i \in DOMAIN s |-> IF s[i] # Blank THEN <<s[i]>> ELSE <<>>]
          = [i \in DOMAIN s |-> IF s[i] \in Fragment THEN <<s[i]>> ELSE <<>>]
    BY <2>1 DEF Fragment
  <2>. QED BY <2>2 DEF Words, Only, Selected
<1>2. Fragment \in SUBSET Nat /\ s \in Seq(Nat)
  BY DEF Fragment, Text
<1>3. Selected(Fragment, s) \in Seq(Fragment)
  BY <1>2, SelectedProperties
<1>. QED BY <1>1, <1>3, WordsProperties

LEMMA FragmentTyped ==
  ASSUME NEW side \in Side
  PROVE  /\ Sends(OneWord(side), Fragment, Spoken)
         /\ Sends(OneEvent(side), Fragment, SaidEvent)
         /\ \A f \in Fragment :
              /\ OneWord(side)[f] = Utter(side, "words", <<f>>, NoId)
              /\ OneEvent(side)[f] = Event(side, "words", <<f>>, <<>>)
<1>1. \A f \in Fragment : <<f>> \in Text /\ <<>> \in Text
  BY DEF Fragment, Text
<1>2. NoId \in Id
  BY DEF NoId, Id
<1>3. \A f \in Fragment : Utter(side, "words", <<f>>, NoId) \in Spoken
  BY <1>1, <1>2 DEF Utter, Spoken, Utterance
<1>4. \A f \in Fragment : Event(side, "words", <<f>>, <<>>) \in SaidEvent
  BY <1>1, EventTyped
<1>. QED BY <1>3, <1>4 DEF OneWord, OneEvent, Sends

LEMMA WordEventsAre ==
  ASSUME NEW side \in Side, NEW s \in Text
  PROVE  WordEvents(side, s) = Image(OneEvent(side), Words(s))
<1>1. Words(s) \in Seq(Fragment)
  BY WordsAreFragments
<1>2. \A i \in DOMAIN Words(s) : Words(s)[i] \in Fragment
  BY <1>1
<1>. QED BY <1>2 DEF WordEvents, Image, OneEvent

LEMMA SplitProperties ==
  ASSUME NEW side \in Side
  PROVE  /\ Split(side, <<>>) = <<>>
         /\ \A s \in Text : Split(side, s) \in Seq(Spoken)
         /\ \A s, t \in Text : Split(side, s \o t) = Split(side, s) \o Split(side, t)
<1>1. ImageLaws(Fragment, Spoken, OneWord(side))
  BY FragmentTyped, Images
<1>2. Words(<<>>) = <<>> /\ \A s, t \in Text : Words(s \o t) = Words(s) \o Words(t)
  BY WordsProperties
<1>3. \A s \in Text : Words(s) \in Seq(Fragment)
  BY WordsAreFragments
<1>. QED BY <1>1, <1>2, <1>3 DEF ImageLaws, Split

LEMMA WordEventsConcat ==
  ASSUME NEW side \in Side
  PROVE  /\ WordEvents(side, <<>>) = <<>>
         /\ \A s \in Text : WordEvents(side, s) \in Seq(SaidEvent)
         /\ \A s, t \in Text :
              WordEvents(side, s \o t) = WordEvents(side, s) \o WordEvents(side, t)
<1>1. ImageLaws(Fragment, SaidEvent, OneEvent(side))
  BY FragmentTyped, Images
<1>2. Words(<<>>) = <<>> /\ \A s, t \in Text : Words(s \o t) = Words(s) \o Words(t)
  BY WordsProperties
<1>3. \A s \in Text : Words(s) \in Seq(Fragment)
  BY WordsAreFragments
<1>4. \A s \in Text : WordEvents(side, s) = Image(OneEvent(side), Words(s))
  BY WordEventsAre
<1>5. <<>> \in Text /\ \A s, t \in Text : s \o t \in Text
  BY EmptySeq, ConcatProperties DEF Text
<1>6. WordEvents(side, <<>>) = <<>>
  BY <1>1, <1>2, <1>4, <1>5 DEF ImageLaws
<1>7. \A s \in Text : WordEvents(side, s) \in Seq(SaidEvent)
  BY <1>1, <1>3, <1>4 DEF ImageLaws
<1>8. ASSUME NEW s \in Text, NEW t \in Text
      PROVE  WordEvents(side, s \o t) = WordEvents(side, s) \o WordEvents(side, t)
  <2>1. s \o t \in Text /\ Words(s \o t) = Words(s) \o Words(t)
    BY <1>2, <1>5
  <2>2. Words(s) \in Seq(Fragment) /\ Words(t) \in Seq(Fragment)
    BY <1>3
  <2>3. Image(OneEvent(side), Words(s) \o Words(t))
          = Image(OneEvent(side), Words(s)) \o Image(OneEvent(side), Words(t))
    BY <1>1, <2>2 DEF ImageLaws
  <2>. QED BY <1>4, <2>1, <2>3
<1>. QED BY <1>6, <1>7, <1>8

LEMMA SplitUpTyped ==
  /\ Maps(SplitUp, Utterance, Utterance)
  /\ \A x \in Utterance : SplitUp[x] = IF x.kind = "words" THEN Split(x.side, x.text) ELSE <<x>>
<1>1. \A x \in Utterance : SplitUp[x] = IF x.kind = "words" THEN Split(x.side, x.text) ELSE <<x>>
  BY DEF SplitUp
<1>2. ASSUME NEW x \in Utterance
      PROVE  SplitUp[x] \in Seq(Utterance)
  <2>1. x.side \in Side /\ x.text \in Text
    BY UtteranceParts
  <2>2. Spoken \subseteq Utterance
    BY DEF Spoken
  <2>3. Split(x.side, x.text) \in Seq(Utterance)
    BY <2>1, <2>2, SplitProperties, SeqMonotonic
  <2>4. <<x>> \in Seq(Utterance)
    OBVIOUS
  <2>. QED BY <1>1, <2>3, <2>4
<1>3. Maps(SplitUp, Utterance, Utterance)
  BY <1>2 DEF SplitUp, Maps
<1>. QED BY <1>1, <1>3

\* The fragments of a text mean what the text does.
LEMMA SplitMeans ==
  ASSUME NEW side \in Side, NEW s \in Text
  PROVE  /\ Split(side, s) \in Seq(Silent) /\ Split(side, s) \in Seq(Callless)
         /\ Mapped(Plain, Split(side, s)) = WordEvents(side, s)
<1>1. Split(side, s) \in Seq(Spoken)
  BY SplitProperties
<1>2. Spoken \subseteq Silent /\ Spoken \subseteq Callless
  BY DEF Spoken, Silent, Callless
<1>3. Split(side, s) \in Seq(Silent) /\ Split(side, s) \in Seq(Callless)
  BY <1>1, <1>2, SeqMonotonic
<1> DEFINE one == Ones(Fragment, OneWord(side))
           w == Words(s)
<1>4. w \in Seq(Fragment)
  BY WordsAreFragments
<1>5. /\ Sends(OneWord(side), Fragment, Silent)
      /\ \A f \in Fragment : OneWord(side)[f] = Utter(side, "words", <<f>>, NoId)
  BY <1>2, FragmentTyped DEF Sends
<1>6. Maps(one, Fragment, Silent) /\ \A f \in Fragment : one[f] = <<OneWord(side)[f]>>
  BY <1>5, OnesTyped
<1>7. \A t \in Seq(Fragment) : Image(OneWord(side), t) = Mapped(one, t)
  BY <1>5, ImageIsMapped
<1> HIDE DEF one, w
<1>8. \A t \in Seq(Fragment) : Mapped(Plain, Mapped(one, t)) = Mapped(Then(Fragment, one, Plain), t)
  BY <1>6, PlainTyped, MappedMapped
<1>9. \A f \in Fragment : Then(Fragment, one, Plain)[f] = Ones(Fragment, OneEvent(side))[f]
  <2> SUFFICES ASSUME NEW f \in Fragment
               PROVE  Mapped(Plain, one[f]) = <<OneEvent(side)[f]>>
    BY DEF Then, Ones
  <2> DEFINE u == Utter(side, "words", <<f>>, NoId)
  <2>1. one[f] = <<u>> /\ u \in Silent
    BY <1>5, <1>6 DEF Sends
  <2>2. Mapped(Plain, <<u>>) = Plain[u]
    BY <2>1, PlainTyped, MappedLaws DEF MapLaws
  <2>3. u.kind = "words" /\ u.side = side /\ u.text = <<f>>
    BY DEF Utter
  <2>4. Plain[u] = WordEvents(side, <<f>>)
    BY <2>1, <2>3, PlainTyped
  <2>5. Words(<<f>>) = <<f>> /\ <<f>> \in Text
    BY WordsProperties DEF Fragment, Text
  <2>6. WordEvents(side, <<f>>) = Image(OneEvent(side), <<f>>)
    BY <2>5, WordEventsAre
  <2>7. Image(OneEvent(side), <<f>>) = <<OneEvent(side)[f]>>
    BY FragmentTyped, Images DEF ImageLaws
  <2>. QED BY <2>1, <2>2, <2>4, <2>6, <2>7
<1>10. Mapped(Then(Fragment, one, Plain), w) = Mapped(Ones(Fragment, OneEvent(side)), w)
  BY <1>4, <1>9, MappedAgree
<1>11. Image(OneEvent(side), w) = Mapped(Ones(Fragment, OneEvent(side)), w)
  BY <1>4, FragmentTyped, ImageIsMapped
<1>12. Mapped(Plain, Image(OneWord(side), w)) = Image(OneEvent(side), w)
  BY <1>4, <1>7, <1>8, <1>10, <1>11
<1>. QED BY <1>3, <1>12, WordEventsAre DEF Split, w

LEMMA FragmentsMean ==
  ASSUME NEW u \in Seq(Utterance)
  PROVE  Fragments(u) \in Seq(Utterance) /\ EventsOf(Fragments(u)) = EventsOf(u)
<1> DEFINE T == {v \in Seq(Utterance) :
                   /\ EventsOf(Fragments(v)) = EventsOf(v)
                   /\ \A id : Called(Fragments(v), id) = Called(v, id)}
<1>1. MapLaws(Utterance, Utterance, SplitUp)
  BY SplitUpTyped, MappedLaws
<1>2. \A v \in Seq(Utterance) : Fragments(v) \in Seq(Utterance)
  BY <1>1 DEF MapLaws, Fragments
<1>3. <<>> \in T
  BY <1>1, EmptySeq DEF MapLaws, Fragments
<1>4. ASSUME NEW v \in Seq(Utterance), NEW x \in Utterance, v \in T
      PROVE  Append(v, x) \in T
  <2>1. Append(v, x) \in Seq(Utterance)
    BY AppendProperties
  <2>2. /\ EventsOf(Fragments(v)) = EventsOf(v)
        /\ \A id : Called(Fragments(v), id) = Called(v, id)
        /\ Fragments(v) \in Seq(Utterance)
    BY <1>2, <1>4
  <2> HIDE DEF T
  <2>3. Fragments(Append(v, x)) = Fragments(v) \o SplitUp[x]
    BY <1>1 DEF MapLaws, Fragments
  <2>4. CASE x.kind = "words"
    <3>1. SplitUp[x] = Split(x.side, x.text)
      BY <2>4, SplitUpTyped
    <3>2. /\ SplitUp[x] \in Seq(Silent) /\ SplitUp[x] \in Seq(Callless)
          /\ Mapped(Plain, SplitUp[x]) = WordEvents(x.side, x.text)
      BY <3>1, UtteranceParts, SplitMeans
    <3>3. EventsOf(Fragments(v) \o SplitUp[x]) = EventsOf(Fragments(v)) \o WordEvents(x.side, x.text)
      BY <2>2, <3>2, EventsOfSilent
    <3>4. Meaning(v, x) = WordEvents(x.side, x.text)
      BY <2>4 DEF Meaning, MeaningAfter
    <3>5. EventsOf(Append(v, x)) = EventsOf(v) \o Meaning(v, x)
      BY EventsOfAppend
    <3>6. \A id : Called(Fragments(v) \o SplitUp[x], id) = Called(Fragments(v), id)
      BY <2>2, <3>2, CalledOfCallless
    <3>7. \A id : Called(Append(v, x), id) = Called(v, id)
      BY <2>4, CalledOfAppend
    <3>. QED BY <2>1, <2>2, <2>3, <3>3, <3>4, <3>5, <3>6, <3>7 DEF T
  <2>5. CASE x.kind # "words"
    <3>1. SplitUp[x] = <<x>>
      BY <2>5, SplitUpTyped
    <3>2. Fragments(v) \o <<x>> = Append(Fragments(v), x)
      BY <2>2, AppendProperties
    <3>3. Meaning(Fragments(v), x) = Meaning(v, x)
      BY <2>2 DEF Meaning, MeaningAfter, Called
    <3>4. EventsOf(Append(v, x)) = EventsOf(v) \o Meaning(v, x)
      BY EventsOfAppend
    <3>5. EventsOf(Append(Fragments(v), x)) = EventsOf(Fragments(v)) \o Meaning(Fragments(v), x)
      BY <2>2, EventsOfAppend
    <3>6. \A id : Called(Append(Fragments(v), x), id) = Called(Append(v, x), id)
      BY <2>2, CalledOfAppend
    <3>. QED BY <2>1, <2>2, <2>3, <3>1, <3>2, <3>3, <3>4, <3>5, <3>6 DEF T
  <2>. QED BY <2>4, <2>5
<1> HIDE DEF T
<1>5. Seq(Utterance) \subseteq T
  BY <1>3, <1>4, SequenceInduction
<1>. QED BY <1>2, <1>5 DEF T

-----------------------------------------------------------------------------
(* A track of events, the words for instance, depends on some of the       *)
(* utterances only.                                                        *)

Exchange == {x \in Utterance : x.kind \in {"call", "result"}}
\* What decides the user's side: a result names its call by the id.
Heard == {x \in Utterance : x.side = "user" \/ x.kind = "call"}

OfKind(kinds) == {e \in SaidEvent : e.kind \in kinds}
OfUser == {e \in SaidEvent : e.side = "user"}

Decides(P, Q) ==
  /\ \/ \A x \in Utterance : x.kind = "call" => x \in P
     \/ \A x \in P : x.kind # "result"
  /\ \A x \in Utterance, v \in Seq(Utterance) : x \notin P => Selected(Q, Meaning(v, x)) = <<>>

LEMMA MeaningKind ==
  ASSUME NEW v \in Seq(Utterance), NEW x \in Utterance
  PROVE  /\ Meaning(v, x) \in Seq(SaidEvent)
         /\ \A i \in DOMAIN Meaning(v, x) :
              Meaning(v, x)[i].kind = x.kind /\ Meaning(v, x)[i].side = x.side
<1>1. Meaning(v, x) \in Seq(SaidEvent)
  BY EventsOfAppend
<1>2. CASE x.kind = "words"
  <2>1. Meaning(v, x) = WordEvents(x.side, x.text)
    BY <1>2 DEF Meaning, MeaningAfter
  <2>. QED BY <1>1, <1>2, <2>1 DEF WordEvents, Event
<1>3. CASE x.kind = "result"
  <2>1. Meaning(v, x) = <<Event("user", "result", x.text, CallText(v, Len(v), x.id))>>
    BY <1>3 DEF Meaning, MeaningAfter
  <2>2. x.side = "user"
    BY <1>3, UtteranceParts
  <2>. QED BY <1>1, <1>3, <2>1, <2>2 DEF Event
<1>4. CASE x.kind \notin {"words", "result"}
  <2>1. Meaning(v, x) = <<Event(x.side, x.kind, x.text, <<>>)>>
    BY <1>4 DEF Meaning, MeaningAfter
  <2>. QED BY <1>1, <2>1 DEF Event
<1>. QED BY <1>2, <1>3, <1>4, <1>1

LEMMA OfKindDecided ==
  ASSUME NEW P, NEW kinds, \A x \in Utterance : x.kind \in kinds => x \in P,
         \/ \A x \in Utterance : x.kind = "call" => x \in P
         \/ \A x \in P : x.kind # "result"
  PROVE  Decides(P, OfKind(kinds))
<1> SUFFICES ASSUME NEW x \in Utterance, NEW v \in Seq(Utterance), x \notin P
             PROVE  Selected(OfKind(kinds), Meaning(v, x)) = <<>>
  BY DEF Decides
<1>1. x.kind \notin kinds
  OBVIOUS
<1>2. \A i \in DOMAIN Meaning(v, x) : Meaning(v, x)[i] \notin OfKind(kinds)
  BY <1>1, MeaningKind DEF OfKind
<1>. QED BY <1>2, MeaningKind, SelectedNone

LEMMA OfUserDecided == Decides(Heard, OfUser)
<1>1. \A x \in Utterance : x.kind = "call" => x \in Heard
  BY DEF Heard
<1> SUFFICES ASSUME NEW x \in Utterance, NEW v \in Seq(Utterance), x \notin Heard
             PROVE  Selected(OfUser, Meaning(v, x)) = <<>>
  BY <1>1 DEF Decides
<1>2. x.side # "user"
  BY DEF Heard
<1>3. \A i \in DOMAIN Meaning(v, x) : Meaning(v, x)[i] \notin OfUser
  BY <1>2, MeaningKind DEF OfUser
<1>. QED BY <1>3, MeaningKind, SelectedNone

LEMMA Decided ==
  ASSUME NEW P, NEW Q, Decides(P, Q), NEW u \in Seq(Utterance)
  PROVE  Selected(Q, EventsOf(u)) = Selected(Q, EventsOf(Selected(P, u)))
<1> DEFINE T == {v \in Seq(Utterance) :
                   /\ Selected(Q, EventsOf(v)) = Selected(Q, EventsOf(Selected(P, v)))
                   /\ (\A x \in Utterance : x.kind = "call" => x \in P) =>
                        \A id : Called(Selected(P, v), id) = Called(v, id)}
<1>1. SelectLaws(Utterance, P) /\ SelectLaws(SaidEvent, Q)
  BY SelectedLaws
<1>2. <<>> \in T
  BY <1>1, EmptySeq DEF SelectLaws
<1>3. ASSUME NEW v \in Seq(Utterance), NEW x \in Utterance, v \in T
      PROVE  Append(v, x) \in T
  <2> DEFINE w == Selected(P, v)
  <2>1. /\ Selected(Q, EventsOf(v)) = Selected(Q, EventsOf(w))
        /\ (\A y \in Utterance : y.kind = "call" => y \in P) =>
             \A id : Called(w, id) = Called(v, id)
    BY <1>3
  <2>2. w \in Seq(Utterance) /\ Append(v, x) \in Seq(Utterance)
    BY <1>1, AppendProperties DEF SelectLaws
  <2>3. Selected(P, Append(v, x)) = w \o (IF x \in P THEN <<x>> ELSE <<>>)
    BY <1>1 DEF SelectLaws
  <2> HIDE DEF w, T
  <2>4. w \o <<x>> = Append(w, x) /\ w \o <<>> = w
    BY <2>2, AppendProperties, ConcatEmptySeq
  <2>5. /\ EventsOf(Append(v, x)) = EventsOf(v) \o Meaning(v, x)
        /\ EventsOf(v) \in Seq(SaidEvent) /\ Meaning(v, x) \in Seq(SaidEvent)
    BY EventsOfAppend
  <2>6. Selected(Q, EventsOf(Append(v, x))) = Selected(Q, EventsOf(v)) \o Selected(Q, Meaning(v, x))
    <3>1. \A a, b \in Seq(SaidEvent) : Selected(Q, a \o b) = Selected(Q, a) \o Selected(Q, b)
      BY <1>1 DEF SelectLaws
    <3>2. Selected(Q, EventsOf(v) \o Meaning(v, x)) = Selected(Q, EventsOf(v)) \o Selected(Q, Meaning(v, x))
      BY <2>5, <3>1
    <3>. QED BY <2>5, <3>2
  <2>7. CASE x \notin P
    <3>1. Selected(P, Append(v, x)) = w
      BY <2>3, <2>4, <2>7
    <3>2. Selected(Q, Meaning(v, x)) = <<>>
      BY <2>7 DEF Decides
    <3>3. Selected(Q, EventsOf(v)) \in Seq(SaidEvent)
      BY <1>1, <2>5 DEF SelectLaws
    <3>4. Selected(Q, EventsOf(Append(v, x))) = Selected(Q, EventsOf(v))
      BY <2>6, <3>2, <3>3, ConcatEmptySeq
    <3>5. (\A y \in Utterance : y.kind = "call" => y \in P) =>
             \A id : Called(w, id) = Called(Append(v, x), id)
      BY <2>1, <2>7, CalledOfAppend
    <3>. QED BY <2>1, <2>2, <3>1, <3>4, <3>5 DEF T
  <2>8. CASE x \in P
    <3>1. Selected(P, Append(v, x)) = Append(w, x)
      BY <2>3, <2>4, <2>8
    <3>2. Meaning(w, x) = Meaning(v, x)
      <4>1. CASE x.kind = "result"
        <5>1. \A y \in Utterance : y.kind = "call" => y \in P
          BY <2>8, <4>1 DEF Decides
        <5>. QED BY <2>1, <4>1, <5>1 DEF Meaning, MeaningAfter, Called
      <4>2. CASE x.kind # "result"
        BY <4>2 DEF Meaning, MeaningAfter
      <4>. QED BY <4>1, <4>2
    <3>3. /\ EventsOf(Append(w, x)) = EventsOf(w) \o Meaning(w, x)
          /\ EventsOf(w) \in Seq(SaidEvent)
      BY <2>2, EventsOfAppend
    <3>4. Selected(Q, EventsOf(w) \o Meaning(v, x)) = Selected(Q, EventsOf(w)) \o Selected(Q, Meaning(v, x))
      BY <1>1, <2>5, <3>3 DEF SelectLaws
    <3>5. (\A y \in Utterance : y.kind = "call" => y \in P) =>
             \A id : Called(Append(w, x), id) = Called(Append(v, x), id)
      BY <2>1, <2>2, CalledOfAppend
    <3>. QED BY <2>1, <2>2, <2>6, <3>1, <3>2, <3>3, <3>4, <3>5 DEF T
  <2>. QED BY <2>7, <2>8
<1> HIDE DEF T
<1>4. Seq(Utterance) \subseteq T
  BY <1>2, <1>3, SequenceInduction
<1>. QED BY <1>4 DEF T

\* What a track depends on, the words in fragments.
Track(P, u) == Selected(P, Fragments(u))

\* Two readings that have it in common tell the same on the track.
LEMMA ReadAlike ==
  ASSUME NEW P, NEW Q, Decides(P, Q), NEW u \in Seq(Utterance), NEW v \in Seq(Utterance),
         Track(P, u) = Track(P, v)
  PROVE  Selected(Q, EventsOf(u)) = Selected(Q, EventsOf(v))
<1>1. /\ Fragments(u) \in Seq(Utterance) /\ EventsOf(Fragments(u)) = EventsOf(u)
      /\ Fragments(v) \in Seq(Utterance) /\ EventsOf(Fragments(v)) = EventsOf(v)
  BY FragmentsMean
<1>2. Selected(Q, EventsOf(Fragments(u))) = Selected(Q, EventsOf(Track(P, u)))
  BY <1>1, Decided DEF Track
<1>3. Selected(Q, EventsOf(Fragments(v))) = Selected(Q, EventsOf(Track(P, v)))
  BY <1>1, Decided DEF Track
<1>. QED BY <1>1, <1>2, <1>3

TrackLaws(P) ==
  /\ Track(P, <<>>) = <<>>
  /\ \A u \in Seq(Utterance) : Track(P, u) \in Seq(Utterance)
  /\ \A u, v \in Seq(Utterance) : Track(P, u \o v) = Track(P, u) \o Track(P, v)
FragmentLaws ==
  /\ Fragments(<<>>) = <<>>
  /\ \A u \in Seq(Utterance) : Fragments(u) \in Seq(Utterance)
  /\ \A x \in Utterance :
       Fragments(<<x>>) = IF x.kind = "words" THEN Split(x.side, x.text) ELSE <<x>>
  /\ \A u, v \in Seq(Utterance) : Fragments(u \o v) = Fragments(u) \o Fragments(v)

LEMMA FragmentsLaws == FragmentLaws
<1>1. MapLaws(Utterance, Utterance, SplitUp)
  BY SplitUpTyped, MappedLaws
<1>2. \A x \in Utterance :
        Mapped(SplitUp, <<x>>) = IF x.kind = "words" THEN Split(x.side, x.text) ELSE <<x>>
  BY <1>1, SplitUpTyped DEF MapLaws
<1>. QED BY <1>1, <1>2 DEF MapLaws, FragmentLaws, Fragments

LEMMA Tracks ==
  ASSUME NEW P
  PROVE  TrackLaws(P)
<1>1. SelectLaws(Utterance, P)
  BY SelectedLaws
<1>2. Track(P, <<>>) = <<>>
  BY <1>1, FragmentsLaws DEF FragmentLaws, SelectLaws, Track
<1>3. \A u \in Seq(Utterance) : Track(P, u) \in Seq(Utterance)
  BY <1>1, FragmentsLaws DEF FragmentLaws, SelectLaws, Track
<1>4. ASSUME NEW u \in Seq(Utterance), NEW v \in Seq(Utterance)
      PROVE  Track(P, u \o v) = Track(P, u) \o Track(P, v)
  <2>1. /\ Fragments(u \o v) = Fragments(u) \o Fragments(v)
        /\ Fragments(u) \in Seq(Utterance) /\ Fragments(v) \in Seq(Utterance)
    BY FragmentsLaws DEF FragmentLaws
  <2>2. Selected(P, Fragments(u) \o Fragments(v))
          = Selected(P, Fragments(u)) \o Selected(P, Fragments(v))
    BY <1>1, <2>1 DEF SelectLaws
  <2>. QED BY <2>1, <2>2, Zenon DEF Track
<1>. QED BY <1>2, <1>3, <1>4 DEF TrackLaws

\* A selection that takes everything.
LEMMA SelectedWhole ==
  ASSUME NEW D, NEW P, NEW s \in Seq(D), \A i \in DOMAIN s : s[i] \in P
  PROVE  Selected(P, s) = s
<1>1. s \in Seq(P)
  <2>1. DOMAIN s = 1..Len(s) /\ Len(s) \in Nat /\ s = [i \in DOMAIN s |-> s[i]]
    OBVIOUS
  <2>. QED BY <2>1, FunctionIsSeq
<1>. QED BY <1>1, SelectedAll

LEMMA TracksOfWords ==
  ASSUME NEW side \in Side, NEW s \in Text
  PROVE  /\ Selected(Spoken, Split(side, s)) = Split(side, s)
         /\ Selected(Exchange, Split(side, s)) = <<>>
         /\ Selected(Heard, Split(side, s)) = IF side = "user" THEN Split(side, s) ELSE <<>>
<1> DEFINE w == Split(side, s)
<1>1. w \in Seq(Spoken) /\ w \in Seq(Utterance)
  BY SplitProperties, SplitMeans, SilentTyped
<1>2. \A i \in DOMAIN w : w[i] \in Spoken /\ w[i].kind = "words" /\ w[i].side = side
  <2>1. \A i \in DOMAIN w : w[i] \in Spoken
    BY <1>1
  <2>2. Words(s) \in Seq(Fragment) /\ DOMAIN w = DOMAIN Words(s)
    BY WordsAreFragments DEF Split, Image
  <2>3. \A i \in DOMAIN w : w[i] = OneWord(side)[Words(s)[i]] /\ Words(s)[i] \in Fragment
    BY <2>2 DEF Split, Image
  <2>4. \A i \in DOMAIN w : w[i].side = side
    <3>1. \A f \in Fragment : OneWord(side)[f] = Utter(side, "words", <<f>>, NoId)
      BY FragmentTyped
    <3>2. ASSUME NEW f \in Fragment
          PROVE  OneWord(side)[f].side = side
      <4>1. Utter(side, "words", <<f>>, NoId).side = side
        BY DEF Utter
      <4>. QED BY <3>1, <4>1
    <3>. QED BY <2>3, <3>2
  <2>. QED BY <2>1, <2>4 DEF Spoken
<1> HIDE DEF w
<1>3. Selected(Spoken, w) = w
  BY <1>1, <1>2, SelectedWhole
<1>4. Selected(Exchange, w) = <<>>
  <2>1. \A i \in DOMAIN w : w[i] \notin Exchange
    BY <1>2 DEF Exchange
  <2>. QED BY <1>1, <2>1, SelectedNone
<1>5. CASE side = "user"
  <2>1. \A i \in DOMAIN w : w[i] \in Heard
    BY <1>2, <1>5 DEF Heard, Spoken
  <2>. QED BY <1>1, <1>3, <1>4, <1>5, <2>1, SelectedWhole DEF w
<1>6. CASE side # "user"
  <2>1. \A i \in DOMAIN w : w[i] \notin Heard
    BY <1>2, <1>6 DEF Heard
  <2>. QED BY <1>1, <1>3, <1>4, <1>6, <2>1, SelectedNone DEF w
<1>. QED BY <1>5, <1>6

-----------------------------------------------------------------------------
(* Every API's request is read alike: what is made of a message tells what *)
(* the message does, on every track that NothingIsLost compares.           *)

ReplyBlock == {b \in ContentBlock : b.type \in {"text", "thinking", "tool_use"}}
ClientBlock == {b \in ContentBlock : b.type \in {"text", "image", "tool_result"}}
BlocksOf(role) == IF role = "assistant" THEN ReplyBlock ELSE ClientBlock
\* The messages of a conversation: each side has blocks of its own.
FitMessage ==
  {m \in Message : /\ m.plain => m.role # "assistant" /\ m.blocks[1].type = "text"
                   /\ m.blocks \in Seq(BlocksOf(m.role))}
Results == {b \in ContentBlock : b.type = "tool_result"}
Parts == {b \in ContentBlock : IsPart(b)}

ReadAs(role) == [b \in ContentBlock |-> ReadBlock(role, b)]
UseAsCall == [b \in Uses |-> Utter("model", "call", b.text, b.id)]
ResultAsHeard == [b \in Results |-> Utter("user", "result", b.text, b.id)]

LEMMA BlockParts ==
  ASSUME NEW b \in ContentBlock
  PROVE  /\ b.type \in {"text", "image", "thinking", "tool_use", "tool_result"}
         /\ b.text \in Text /\ b.id \in Id /\ b.signed \in BOOLEAN
BY DEF ContentBlock

LEMMA UtterTyped ==
  ASSUME NEW side \in Side, NEW kind \in {"words", "call", "result", "thought"},
         NEW s \in Text, NEW id \in Id, kind = "result" => side = "user"
  PROVE  /\ Utter(side, kind, s, id) \in Utterance
         /\ Utter(side, kind, s, id).side = side /\ Utter(side, kind, s, id).kind = kind
         /\ Utter(side, kind, s, id).text = s /\ Utter(side, kind, s, id).id = id
BY DEF Utter, Utterance

LEMMA NoIdTyped == NoId \in Id
BY DEF NoId, Id

LEMMA ReadBlockIs ==
  ASSUME NEW role, NEW b \in ContentBlock
  PROVE  /\ ReadBlock(role, b) \in Utterance
         /\ b.type \in {"text", "image"} =>
              ReadBlock(role, b) = Utter(SideOf(role), "words", b.text, NoId)
         /\ b.type = "tool_use" => ReadBlock(role, b) = Utter("model", "call", b.text, b.id)
         /\ b.type = "tool_result" => ReadBlock(role, b) = Utter("user", "result", b.text, b.id)
         /\ b.type = "thinking" => ReadBlock(role, b) = Utter("model", "thought", b.text, NoId)
<1>1. SideOf(role) \in Side /\ "model" \in Side /\ "user" \in Side
  BY DEF SideOf, Side
<1>2. b.text \in Text /\ b.id \in Id /\ NoId \in Id
  BY BlockParts, NoIdTyped
<1>3. /\ b.type \in {"text", "image"} =>
           ReadBlock(role, b) = Utter(SideOf(role), "words", b.text, NoId)
      /\ b.type = "tool_use" => ReadBlock(role, b) = Utter("model", "call", b.text, b.id)
      /\ b.type = "tool_result" => ReadBlock(role, b) = Utter("user", "result", b.text, b.id)
      /\ b.type = "thinking" => ReadBlock(role, b) = Utter("model", "thought", b.text, NoId)
  BY DEF ReadBlock
<1>4. /\ Utter(SideOf(role), "words", b.text, NoId) \in Utterance
      /\ Utter("model", "call", b.text, b.id) \in Utterance
      /\ Utter("user", "result", b.text, b.id) \in Utterance
      /\ Utter("model", "thought", b.text, NoId) \in Utterance
  BY <1>1, <1>2, UtterTyped
<1>. QED BY <1>3, <1>4, BlockParts

LEMMA ReadAsTyped ==
  ASSUME NEW role
  PROVE  /\ Sends(ReadAs(role), ContentBlock, Utterance)
         /\ \A b \in ContentBlock : ReadAs(role)[b] = ReadBlock(role, b)
BY ReadBlockIs DEF Sends, ReadAs

LEMMA UsesTyped ==
  /\ Sends(UseAsCall, Uses, Exchange) /\ Sends(ResultAsHeard, Results, Exchange)
  /\ \A b \in Uses : UseAsCall[b] = Utter("model", "call", b.text, b.id)
  /\ \A b \in Results : ResultAsHeard[b] = Utter("user", "result", b.text, b.id)
<1>1. ASSUME NEW b \in ContentBlock
      PROVE  /\ Utter("model", "call", b.text, b.id) \in Exchange
             /\ Utter("user", "result", b.text, b.id) \in Exchange
  <2>1. b.text \in Text /\ b.id \in Id /\ "model" \in Side /\ "user" \in Side
    BY BlockParts DEF Side
  <2>. QED BY <2>1, UtterTyped DEF Exchange
<1>2. \A b \in Uses : b \in ContentBlock
  BY DEF Uses
<1>3. \A b \in Results : b \in ContentBlock
  BY DEF Results
<1>4. \A b \in Uses : UseAsCall[b] = Utter("model", "call", b.text, b.id)
  BY DEF UseAsCall
<1>5. \A b \in Results : ResultAsHeard[b] = Utter("user", "result", b.text, b.id)
  BY DEF ResultAsHeard
<1>6. Sends(UseAsCall, Uses, Exchange)
  BY <1>1, <1>2 DEF Sends, UseAsCall
<1>7. Sends(ResultAsHeard, Results, Exchange)
  BY <1>1, <1>3 DEF Sends, ResultAsHeard
<1>. QED BY <1>4, <1>5, <1>6, <1>7

LEMMA TrackConcat ==
  ASSUME NEW P, NEW u \in Seq(Utterance), NEW v \in Seq(Utterance)
  PROVE  /\ Track(P, u \o v) = Track(P, u) \o Track(P, v) /\ u \o v \in Seq(Utterance)
         /\ Track(P, u) \in Seq(Utterance) /\ Track(P, v) \in Seq(Utterance)
<1>1. TrackLaws(P)
  BY Tracks
<1>. QED BY <1>1, ConcatProperties DEF TrackLaws

LEMMA TrackAppend ==
  ASSUME NEW P, NEW u \in Seq(Utterance), NEW x \in Utterance
  PROVE  /\ Track(P, Append(u, x)) = Track(P, u) \o Track(P, <<x>>)
         /\ Append(u, x) \in Seq(Utterance)
         /\ Track(P, u) \in Seq(Utterance) /\ Track(P, <<x>>) \in Seq(Utterance)
<1>1. SeqLaws(Utterance)
  BY SeqSteps
<1>2. Append(u, x) = u \o <<x>> /\ <<x>> \in Seq(Utterance) /\ Append(u, x) \in Seq(Utterance)
  BY <1>1 DEF SeqLaws
<1> DEFINE v == <<x>>
<1>3. v \in Seq(Utterance) /\ Append(u, x) = u \o v
  BY <1>2
<1> HIDE DEF v
<1>4. /\ Track(P, u \o v) = Track(P, u) \o Track(P, v)
      /\ Track(P, u) \in Seq(Utterance) /\ Track(P, v) \in Seq(Utterance)
  BY <1>3, TrackConcat
<1>. QED BY <1>2, <1>3, <1>4 DEF v

LEMMA TrackNothing ==
  ASSUME NEW P
  PROVE  Track(P, <<>>) = <<>>
BY Tracks DEF TrackLaws

\* One utterance on its tracks.
LEMMA TrackOne ==
  ASSUME NEW x \in Utterance
  PROVE  /\ x.kind = "words" =>
              /\ Track(Spoken, <<x>>) = Split(x.side, x.text)
              /\ Track(Exchange, <<x>>) = <<>>
              /\ Track(Heard, <<x>>) = IF x.side = "user" THEN Split("user", x.text) ELSE <<>>
         /\ x.kind \in {"call", "result"} =>
              /\ Track(Spoken, <<x>>) = <<>>
              /\ Track(Exchange, <<x>>) = <<x>>
              /\ Track(Heard, <<x>>) = <<x>>
         /\ x.kind = "thought" =>
              /\ Track(Spoken, <<x>>) = <<>>
              /\ Track(Exchange, <<x>>) = <<>>
              /\ x.side # "user" => Track(Heard, <<x>>) = <<>>
<1>1. x.side \in Side /\ x.text \in Text /\ x.kind = "result" => x.side = "user"
  BY UtteranceParts
<1>2. Fragments(<<x>>) = IF x.kind = "words" THEN Split(x.side, x.text) ELSE <<x>>
  BY FragmentsLaws DEF FragmentLaws
<1>3. CASE x.kind = "words"
  BY <1>1, <1>2, <1>3, TracksOfWords, UtteranceParts DEF Track
<1>4. CASE x.kind # "words"
  <2>1. Fragments(<<x>>) = <<x>>
    BY <1>2, <1>4
  <2>2. ASSUME NEW P
        PROVE  Selected(P, <<x>>) = IF x \in P THEN <<x>> ELSE <<>>
    <3>1. SelectLaws(Utterance, P)
      BY SelectedLaws
    <3>. QED BY <3>1 DEF SelectLaws
  <2>3. x \notin Spoken /\ (x \in Exchange <=> x.kind \in {"call", "result"})
    BY <1>4 DEF Spoken, Exchange
  <2>4. x \in Heard <=> x.side = "user" \/ x.kind = "call"
    BY DEF Heard
  <2>5. \A P : Track(P, <<x>>) = IF x \in P THEN <<x>> ELSE <<>>
    BY <2>1, <2>2 DEF Track
  <2>6. x.kind = "result" => x.side = "user"
    BY UtteranceParts
  <2>. QED BY <1>4, <2>3, <2>4, <2>5, <2>6
<1>. QED BY <1>3, <1>4

\* Calls and results stay as they are.
LEMMA TracksOfExchange ==
  ASSUME NEW u \in Seq(Exchange)
  PROVE  /\ u \in Seq(Utterance) /\ Track(Spoken, u) = <<>>
         /\ Track(Exchange, u) = u /\ Track(Heard, u) = u
<1> DEFINE T == {v \in Seq(Exchange) :
                   /\ v \in Seq(Utterance) /\ Track(Spoken, v) = <<>>
                   /\ Track(Exchange, v) = v /\ Track(Heard, v) = v}
<1>1. <<>> \in T
  BY TrackNothing, EmptySeq
<1>2. ASSUME NEW v \in Seq(Exchange), NEW x \in Exchange, v \in T
      PROVE  Append(v, x) \in T
  <2>1. /\ v \in Seq(Utterance) /\ Track(Spoken, v) = <<>>
        /\ Track(Exchange, v) = v /\ Track(Heard, v) = v
    BY <1>2
  <2>2. x \in Utterance /\ x.kind \in {"call", "result"}
    BY DEF Exchange
  <2>3. /\ Append(v, x) \in Seq(Exchange) /\ Append(v, x) \in Seq(Utterance)
        /\ Append(v, x) = v \o <<x>> /\ <<x>> \in Seq(Utterance)
    BY <2>1, <2>2, AppendProperties, AppendIsConcat
  <2> HIDE DEF T
  <2>4. ASSUME NEW P
        PROVE  Track(P, Append(v, x)) = Track(P, v) \o Track(P, <<x>>)
    BY <2>1, <2>2, TrackAppend
  <2>5. /\ Track(Spoken, <<x>>) = <<>> /\ Track(Exchange, <<x>>) = <<x>>
        /\ Track(Heard, <<x>>) = <<x>>
    BY <2>2, TrackOne
  <2>6. <<>> \o <<>> = <<>>
    OBVIOUS
  <2>7. Track(Spoken, Append(v, x)) = <<>>
    BY <2>1, <2>4, <2>5, <2>6
  <2>8. Track(Exchange, Append(v, x)) = Append(v, x) /\ Track(Heard, Append(v, x)) = Append(v, x)
    BY <2>1, <2>3, <2>4, <2>5
  <2>. QED BY <2>3, <2>7, <2>8 DEF T
<1> HIDE DEF T
<1>3. Seq(Exchange) \subseteq T
  BY <1>1, <1>2, SequenceInduction
<1>. QED BY <1>3 DEF T

-----------------------------------------------------------------------------
\* What is made of each element, and read again one by one.
LEMMA MappedImage ==
  ASSUME NEW D, NEW E, NEW F, NEW g, Sends(g, D, E), NEW h, Maps(h, E, F), NEW k,
         Sends(k, D, F), \A x \in D : h[g[x]] = <<k[x]>>
  PROVE  \A s \in Seq(D) : Mapped(h, Image(g, s)) = Image(k, s)
<1>1. MapLaws(E, F, h) /\ ImageLaws(D, E, g) /\ ImageLaws(D, F, k) /\ SeqLaws(D) /\ SeqLaws(F)
  BY MappedLaws, Images, SeqSteps
<1> DEFINE T == {s \in Seq(D) : Mapped(h, Image(g, s)) = Image(k, s)}
<1>2. <<>> \in T
  BY <1>1 DEF MapLaws, ImageLaws, SeqLaws
<1>3. ASSUME NEW s \in Seq(D), NEW x \in D, s \in T
      PROVE  Append(s, x) \in T
  <2>1. Image(g, Append(s, x)) = Append(Image(g, s), g[x]) /\ Image(k, Append(s, x)) = Append(Image(k, s), k[x])
    BY ImageOfAppend
  <2>2. Image(g, s) \in Seq(E) /\ Image(k, s) \in Seq(F)
    BY <1>1 DEF ImageLaws
  <2>3. g[x] \in E /\ k[x] \in F
    BY DEF Sends
  <2>4. Mapped(h, Append(Image(g, s), g[x])) = Mapped(h, Image(g, s)) \o h[g[x]]
    BY <1>1, <2>2, <2>3 DEF MapLaws
  <2>5. Append(Image(k, s), k[x]) = Image(k, s) \o <<k[x]>>
    BY <1>1, <2>2, <2>3 DEF SeqLaws
  <2>6. Mapped(h, Image(g, s)) = Image(k, s)
    BY <1>3
  <2>7. Append(s, x) \in Seq(D)
    BY <1>1 DEF SeqLaws
  <2>. QED BY <2>1, <2>4, <2>5, <2>6, <2>7
<1> HIDE DEF T
<1>4. Seq(D) \subseteq T
  BY <1>2, <1>3, SequenceInduction
<1>. QED BY <1>4 DEF T

LEMMA OfTypeAppend ==
  ASSUME NEW s \in Seq(ContentBlock), NEW b \in ContentBlock, NEW type
  PROVE  OfType(Append(s, b), type) = OfType(s, type) \o (IF b.type = type THEN <<b>> ELSE <<>>)
<1>1. Append(s, b) = s \o <<b>> /\ <<b>> \in Seq(ContentBlock)
  BY SeqSteps DEF SeqLaws
<1>2. \A p, q \in Seq(ContentBlock) : OfType(p \o q, type) = OfType(p, type) \o OfType(q, type)
  BY OfTypeProperties
<1>3. OfType(s \o <<b>>, type) = OfType(s, type) \o OfType(<<b>>, type)
  BY <1>1, <1>2
<1>4. OfType(<<b>>, type) = IF b.type = type THEN <<b>> ELSE <<>>
  BY OfTypeProperties
<1>. QED BY <1>1, <1>3, <1>4

LEMMA JoinTextAppend ==
  ASSUME NEW s \in Seq(ContentBlock), NEW b \in ContentBlock
  PROVE  /\ JoinText(Append(s, b)) = JoinText(s) \o (IF b.type = "text" THEN b.text ELSE <<>>)
         /\ JoinText(Append(s, b)) \in Text /\ JoinText(s) \in Text
<1>1. /\ Append(s, b) = s \o <<b>> /\ <<b>> \in Seq(ContentBlock)
      /\ Append(s, b) \in Seq(ContentBlock)
  BY SeqSteps DEF SeqLaws
<1>2. \A p, q \in Seq(ContentBlock) : JoinText(p \o q) = JoinText(p) \o JoinText(q)
  BY JoinTextProperties
<1>3. JoinText(s \o <<b>>) = JoinText(s) \o JoinText(<<b>>)
  BY <1>1, <1>2
<1>4. JoinText(<<b>>) = IF b.type = "text" THEN b.text ELSE <<>>
  BY JoinTextProperties
<1>5. \A p \in Seq(ContentBlock) : JoinText(p) \in Text
  BY JoinTextProperties
<1>. QED BY <1>1, <1>3, <1>4, <1>5

\* The tracks of an assistant's blocks: the text, and the calls.
LEMMA AssistantTracks ==
  ASSUME NEW bs \in Seq(ReplyBlock)
  PROVE  LET calls == Image(UseAsCall, OfType(bs, "tool_use"))
             u == Image(ReadAs("assistant"), bs)
         IN  /\ u \in Seq(Utterance) /\ calls \in Seq(Exchange)
             /\ Track(Spoken, u) = Split("model", JoinText(bs))
             /\ Track(Exchange, u) = calls /\ Track(Heard, u) = calls
<1> DEFINE C(s) == Image(UseAsCall, OfType(s, "tool_use"))
           U(s) == Image(ReadAs("assistant"), s)
           T == {s \in Seq(ReplyBlock) :
                   /\ U(s) \in Seq(Utterance) /\ C(s) \in Seq(Exchange)
                   /\ JoinText(s) \in Text
                   /\ Track(Spoken, U(s)) = Split("model", JoinText(s))
                   /\ Track(Exchange, U(s)) = C(s) /\ Track(Heard, U(s)) = C(s)}
<1>1. /\ ImageLaws(ContentBlock, Utterance, ReadAs("assistant"))
      /\ ImageLaws(Uses, Exchange, UseAsCall)
      /\ SeqLaws(ReplyBlock) /\ SeqLaws(Exchange) /\ SeqLaws(ContentBlock)
  BY ReadAsTyped, UsesTyped, Images, SeqSteps
<1>2. <<>> \in T
  <2>1. U(<<>>) = <<>> /\ C(<<>>) = <<>> /\ JoinText(<<>>) = <<>>
    BY <1>1, OfTypeProperties, JoinTextProperties DEF ImageLaws
  <2>2. Split("model", <<>>) = <<>>
    BY SplitProperties DEF Side
  <2>3. <<>> \in Seq(ReplyBlock) /\ <<>> \in Seq(Utterance) /\ <<>> \in Seq(Exchange) /\ <<>> \in Text
    BY EmptySeq DEF Text
  <2> HIDE DEF U, C
  <2>. QED BY <2>1, <2>2, <2>3, TrackNothing
<1>3. ASSUME NEW s \in Seq(ReplyBlock), NEW b \in ReplyBlock, s \in T
      PROVE  Append(s, b) \in T
  <2>1. /\ U(s) \in Seq(Utterance) /\ C(s) \in Seq(Exchange) /\ JoinText(s) \in Text
        /\ Track(Spoken, U(s)) = Split("model", JoinText(s))
        /\ Track(Exchange, U(s)) = C(s) /\ Track(Heard, U(s)) = C(s)
    BY <1>3
  <2>2. /\ b \in ContentBlock /\ s \in Seq(ContentBlock)
        /\ b.type \in {"text", "thinking", "tool_use"}
    BY DEF ReplyBlock
  <2> DEFINE x == ReadBlock("assistant", b)
             t == Append(s, b)
  <2>3. t \in Seq(ReplyBlock) /\ t = s \o <<b>> /\ <<b>> \in Seq(ContentBlock)
    BY <1>1, <2>2 DEF SeqLaws
  <2>4. U(t) = Append(U(s), x) /\ x \in Utterance
    <3>1. Image(ReadAs("assistant"), Append(s, b)) = Append(U(s), ReadAs("assistant")[b])
      BY <2>2, ReadAsTyped, ImageOfAppend
    <3>. QED BY <2>2, <3>1, ReadAsTyped, ReadBlockIs
  <2>5. OfType(t, "tool_use") = OfType(s, "tool_use") \o (IF b.type = "tool_use" THEN <<b>> ELSE <<>>)
    BY <2>2, OfTypeAppend
  <2>6. JoinText(t) = JoinText(s) \o (IF b.type = "text" THEN b.text ELSE <<>>) /\ JoinText(t) \in Text
    BY <2>2, JoinTextAppend
  <2>7. C(t) = C(s) \o (IF b.type = "tool_use" THEN <<Utter("model", "call", b.text, b.id)>> ELSE <<>>)
    <3>1. OfType(s, "tool_use") \in Seq(Uses)
      BY <2>2, OfTypeProperties DEF Uses
    <3>2. CASE b.type = "tool_use"
      <4>1. b \in Uses
        BY <2>2, <3>2 DEF Uses
      <4>2. <<b>> \in Seq(Uses) /\ Image(UseAsCall, <<b>>) = <<UseAsCall[b]>>
        BY <1>1, <4>1 DEF ImageLaws
      <4>3. \A p, q \in Seq(Uses) : Image(UseAsCall, p \o q) = Image(UseAsCall, p) \o Image(UseAsCall, q)
        BY <1>1 DEF ImageLaws
      <4>4. C(t) = C(s) \o <<UseAsCall[b]>>
        BY <2>5, <3>1, <3>2, <4>2, <4>3
      <4>. QED BY <3>2, <4>1, <4>4, UsesTyped
    <3>3. CASE b.type # "tool_use"
      <4>1. OfType(t, "tool_use") = OfType(s, "tool_use")
        BY <2>5, <3>1, <3>3, ConcatEmptySeq
      <4>2. C(s) \o <<>> = C(s)
        BY <2>1, ConcatEmptySeq
      <4>. QED BY <3>3, <4>1, <4>2
    <3>. QED BY <3>2, <3>3
  <2> HIDE DEF U, C, T
  <2>8. \A P : /\ Track(P, U(t)) = Track(P, U(s)) \o Track(P, <<x>>)
               /\ U(t) \in Seq(Utterance) /\ Track(P, U(s)) \in Seq(Utterance)
    <3> SUFFICES ASSUME NEW P
                 PROVE  /\ Track(P, U(t)) = Track(P, U(s)) \o Track(P, <<x>>)
                        /\ U(t) \in Seq(Utterance) /\ Track(P, U(s)) \in Seq(Utterance)
      OBVIOUS
    <3> HIDE DEF x, t
    <3>. QED BY <2>1, <2>4, TrackAppend
  <2>9. b.text \in Text /\ b.id \in Id /\ NoId \in Id /\ "model" \in Side /\ SideOf("assistant") = "model"
    BY <2>2, BlockParts, NoIdTyped DEF Side, SideOf
  <2>10. \A r \in Seq(Utterance) : r \o <<>> = r
    BY ConcatEmptySeq
  <2>11. JoinText(s) \o <<>> = JoinText(s) /\ C(s) \o <<>> = C(s)
    BY <2>1, ConcatEmptySeq DEF Text
  <2>12. CASE b.type = "text"
    <3>1. x = Utter("model", "words", b.text, NoId)
      BY <2>2, <2>9, <2>12, ReadBlockIs
    <3>2. x.kind = "words" /\ x.side = "model" /\ x.text = b.text
      BY <3>1 DEF Utter
    <3>3. Track(Spoken, <<x>>) = Split("model", b.text) /\ Track(Exchange, <<x>>) = <<>>
          /\ Track(Heard, <<x>>) = <<>>
      BY <2>4, <3>2, TrackOne
    <3>4. Split("model", JoinText(s) \o b.text) = Split("model", JoinText(s)) \o Split("model", b.text)
      BY <2>1, <2>9, SplitProperties
    <3>5. C(t) = C(s) /\ JoinText(t) = JoinText(s) \o b.text
      BY <2>6, <2>7, <2>11, <2>12
    <3> HIDE DEF x, t
    <3>6. Track(Spoken, U(t)) = Split("model", JoinText(t))
      BY <2>1, <2>8, <3>3, <3>4, <3>5
    <3>7. Track(Exchange, U(t)) = C(t) /\ Track(Heard, U(t)) = C(t)
      BY <2>1, <2>8, <2>10, <3>3, <3>5
    <3>. QED BY <2>1, <2>3, <2>6, <2>8, <3>5, <3>6, <3>7 DEF T, t
  <2>13. CASE b.type = "tool_use"
    <3>1. x = Utter("model", "call", b.text, b.id)
      BY <2>2, <2>13, ReadBlockIs
    <3>2. x.kind = "call"
      BY <3>1 DEF Utter
    <3>3. Track(Spoken, <<x>>) = <<>> /\ Track(Exchange, <<x>>) = <<x>>
          /\ Track(Heard, <<x>>) = <<x>> /\ x \in Exchange
      BY <2>4, <3>2, TrackOne DEF Exchange
    <3>4. C(t) = C(s) \o <<x>> /\ JoinText(t) = JoinText(s)
      BY <2>6, <2>7, <2>11, <2>13, <3>1
    <3> HIDE DEF x, t
    <3>5. C(t) \in Seq(Exchange)
      BY <2>1, <3>3, <3>4, ConcatProperties
    <3>6. Track(Spoken, U(t)) = Split("model", JoinText(t))
      BY <2>1, <2>8, <2>10, <3>3, <3>4
    <3>7. Track(Exchange, U(t)) = C(t) /\ Track(Heard, U(t)) = C(t)
      BY <2>1, <2>8, <3>3, <3>4
    <3>. QED BY <2>3, <2>6, <2>8, <3>5, <3>6, <3>7 DEF T, t
  <2>14. CASE b.type = "thinking"
    <3>1. x = Utter("model", "thought", b.text, NoId)
      BY <2>2, <2>14, ReadBlockIs
    <3>2. x.kind = "thought" /\ x.side = "model"
      BY <3>1 DEF Utter
    <3>3. Track(Spoken, <<x>>) = <<>> /\ Track(Exchange, <<x>>) = <<>>
          /\ Track(Heard, <<x>>) = <<>>
      BY <2>4, <3>2, TrackOne
    <3>4. C(t) = C(s) /\ JoinText(t) = JoinText(s)
      BY <2>6, <2>7, <2>11, <2>14
    <3> HIDE DEF x, t
    <3>5. Track(Spoken, U(t)) = Split("model", JoinText(t))
      BY <2>1, <2>8, <2>10, <3>3, <3>4
    <3>6. Track(Exchange, U(t)) = C(t) /\ Track(Heard, U(t)) = C(t)
      BY <2>1, <2>8, <2>10, <3>3, <3>4
    <3>. QED BY <2>1, <2>3, <2>6, <2>8, <3>4, <3>5, <3>6 DEF T, t
  <2>. QED BY <2>2, <2>12, <2>13, <2>14
<1> HIDE DEF T
<1>4. Seq(ReplyBlock) \subseteq T
  BY <1>2, <1>3, SequenceInduction
<1>. QED BY <1>4 DEF T

-----------------------------------------------------------------------------
ReadM == [m \in FitMessage |-> ReadAnthropic(m)]
ReadI == [x \in InputItem |-> ReadResponses(x)]
ReadC == [m \in ChatItem |-> ReadChat(m)]
AChatCall == [id : Id, text : Text]
CallHeard == [c \in AChatCall |-> Utter("model", "call", c.text, c.id)]

LEMMA ReadITyped ==
  /\ Maps(ReadI, InputItem, Utterance)
  /\ \A x \in InputItem : ReadI[x] = ReadResponses(x)
<1>1. ASSUME NEW x \in InputItem
      PROVE  ReadResponses(x) \in Seq(Utterance)
  <2>1. x.text \in Text /\ x.id \in Id /\ NoId \in Id
    BY NoIdTyped DEF InputItem
  <2>2. SideOf(x.role) \in Side /\ "model" \in Side /\ "user" \in Side
    BY DEF SideOf, Side
  <2>3. /\ Utter(SideOf(x.role), "words", x.text, NoId) \in Utterance
        /\ Utter("model", "call", x.text, x.id) \in Utterance
        /\ Utter("user", "result", x.text, x.id) \in Utterance
    BY <2>1, <2>2, UtterTyped
  <2>4. /\ <<Utter(SideOf(x.role), "words", x.text, NoId)>> \in Seq(Utterance)
        /\ <<Utter("model", "call", x.text, x.id)>> \in Seq(Utterance)
        /\ <<Utter("user", "result", x.text, x.id)>> \in Seq(Utterance)
        /\ <<>> \in Seq(Utterance)
    BY <2>3, SeqSteps DEF SeqLaws
  <2>5. \/ ReadResponses(x) = <<Utter(SideOf(x.role), "words", x.text, NoId)>>
        \/ ReadResponses(x) = <<Utter("model", "call", x.text, x.id)>>
        \/ ReadResponses(x) = <<Utter("user", "result", x.text, x.id)>>
        \/ ReadResponses(x) = <<>>
    BY DEF ReadResponses
  <2>. QED BY <2>4, <2>5
<1>. QED BY <1>1 DEF Maps, ReadI

LEMMA CallHeardTyped ==
  /\ Sends(CallHeard, AChatCall, Exchange)
  /\ \A c \in AChatCall : CallHeard[c] = Utter("model", "call", c.text, c.id)
<1>1. ASSUME NEW c \in AChatCall
      PROVE  Utter("model", "call", c.text, c.id) \in Exchange
  <2>1. c.text \in Text /\ c.id \in Id /\ "model" \in Side
    BY DEF Side, AChatCall
  <2>. QED BY <2>1, UtterTyped DEF Exchange
<1>. QED BY <1>1 DEF Sends, CallHeard

LEMMA ReadChatIs ==
  ASSUME NEW m \in ChatItem
  PROVE  /\ ReadChat(m) \in Seq(Utterance)
         /\ m.calls \in Seq(AChatCall)
         /\ m.role = "tool" => ReadChat(m) = <<Utter("user", "result", m.text, m.id)>>
         /\ m.role # "tool" =>
              ReadChat(m) = <<Utter(SideOf(m.role), "words", m.text, NoId)>>
                              \o Image(CallHeard, m.calls)
<1>1. /\ m.text \in Text /\ m.id \in Id /\ NoId \in Id /\ m.calls \in Seq(AChatCall)
      /\ SideOf(m.role) \in Side /\ "user" \in Side
  BY NoIdTyped DEF ChatItem, SideOf, Side, AChatCall
<1>2. [i \in DOMAIN m.calls |-> Utter("model", "call", m.calls[i].text, m.calls[i].id)]
        = Image(CallHeard, m.calls)
  <2>1. \A i \in DOMAIN m.calls : m.calls[i] \in AChatCall
    BY <1>1
  <2>2. \A i \in DOMAIN m.calls :
          CallHeard[m.calls[i]] = Utter("model", "call", m.calls[i].text, m.calls[i].id)
    BY <2>1, CallHeardTyped
  <2>. QED BY <2>2 DEF Image
<1>3. /\ m.role = "tool" => ReadChat(m) = <<Utter("user", "result", m.text, m.id)>>
      /\ m.role # "tool" =>
              ReadChat(m) = <<Utter(SideOf(m.role), "words", m.text, NoId)>>
                              \o Image(CallHeard, m.calls)
  BY <1>2 DEF ReadChat
<1>4. Utter("user", "result", m.text, m.id) \in Utterance
      /\ Utter(SideOf(m.role), "words", m.text, NoId) \in Utterance
  BY <1>1, UtterTyped
<1>5. <<Utter("user", "result", m.text, m.id)>> \in Seq(Utterance)
      /\ <<Utter(SideOf(m.role), "words", m.text, NoId)>> \in Seq(Utterance)
  BY <1>4, SeqSteps DEF SeqLaws
<1>6. Image(CallHeard, m.calls) \in Seq(Utterance)
  <2>1. Image(CallHeard, m.calls) \in Seq(Exchange)
    BY <1>1, CallHeardTyped, ImageTyped
  <2>. QED BY <2>1, TracksOfExchange
<1>7. <<Utter(SideOf(m.role), "words", m.text, NoId)>> \o Image(CallHeard, m.calls) \in Seq(Utterance)
  BY <1>5, <1>6, ConcatProperties
<1>. QED BY <1>1, <1>3, <1>5, <1>7

LEMMA ReadCTyped ==
  /\ Maps(ReadC, ChatItem, Utterance)
  /\ \A m \in ChatItem : ReadC[m] = ReadChat(m)
BY ReadChatIs DEF Maps, ReadC

LEMMA FitParts ==
  ASSUME NEW m \in FitMessage
  PROVE  /\ m \in Message /\ m.role \in Role /\ m.plain \in BOOLEAN
         /\ m.blocks \in Seq(ContentBlock) /\ m.blocks \in Seq(BlocksOf(m.role))
         /\ m.plain => /\ m.role # "assistant" /\ m.blocks[1].type = "text"
                       /\ Len(m.blocks) = 1
BY DEF FitMessage, Message

LEMMA ReadMTyped ==
  /\ Maps(ReadM, FitMessage, Utterance)
  /\ \A m \in FitMessage : ReadM[m] = Image(ReadAs(m.role), m.blocks)
<1>1. ASSUME NEW m \in FitMessage
      PROVE  ReadAnthropic(m) = Image(ReadAs(m.role), m.blocks)
  <2>1. m.blocks \in Seq(ContentBlock)
    BY FitParts
  <2>2. \A i \in DOMAIN m.blocks : ReadAs(m.role)[m.blocks[i]] = ReadBlock(m.role, m.blocks[i])
    BY <2>1, ReadAsTyped
  <2>. QED BY <2>2 DEF ReadAnthropic, Image
<1>2. ASSUME NEW m \in FitMessage
      PROVE  Image(ReadAs(m.role), m.blocks) \in Seq(Utterance)
  <2>1. m.blocks \in Seq(ContentBlock)
    BY FitParts
  <2>. QED BY <2>1, ReadAsTyped, ImageTyped
<1>. QED BY <1>1, <1>2 DEF Maps, ReadM

\* Reading a request item by item.
LEMMA ReadMapped ==
  /\ \A h \in Seq(FitMessage) : Read("anthropic", h) = Mapped(ReadM, h)
  /\ \A s \in Seq(InputItem) : Read("responses", s) = Mapped(ReadI, s)
  /\ \A s \in Seq(ChatItem) : Read("chat", s) = Mapped(ReadC, s)
<1>1. ASSUME NEW h \in Seq(FitMessage)
      PROVE  Read("anthropic", h) = Mapped(ReadM, h)
  <2>1. \A i \in DOMAIN h : ReadM[h[i]] = ReadAnthropic(h[i])
    BY DEF ReadM
  <2>. QED BY <2>1 DEF Read, Mapped
<1>2. ASSUME NEW s \in Seq(InputItem)
      PROVE  Read("responses", s) = Mapped(ReadI, s)
  <2>1. \A i \in DOMAIN s : ReadI[s[i]] = ReadResponses(s[i])
    BY DEF ReadI
  <2>. QED BY <2>1 DEF Read, Mapped
<1>3. ASSUME NEW s \in Seq(ChatItem)
      PROVE  Read("chat", s) = Mapped(ReadC, s)
  <2>1. \A i \in DOMAIN s : ReadC[s[i]] = ReadChat(s[i])
    BY DEF ReadC
  <2>. QED BY <2>1 DEF Read, Mapped
<1>. QED BY <1>1, <1>2, <1>3

\* The tracks of words with calls or results behind them.
LEMMA TracksOfBoth ==
  ASSUME NEW side \in Side, NEW s \in Text, NEW u \in Seq(Exchange)
  PROVE  LET w == <<Utter(side, "words", s, NoId)>> \o u
         IN  /\ w \in Seq(Utterance)
             /\ Track(Spoken, w) = Split(side, s) /\ Track(Exchange, w) = u
             /\ side # "user" => Track(Heard, w) = u
<1> DEFINE x == Utter(side, "words", s, NoId)
           w == <<x>> \o u
<1>1. x \in Utterance /\ x.kind = "words" /\ x.side = side /\ x.text = s
  BY UtterTyped, NoIdTyped
<1>2. /\ u \in Seq(Utterance) /\ Track(Spoken, u) = <<>>
      /\ Track(Exchange, u) = u /\ Track(Heard, u) = u
  BY TracksOfExchange
<1>3. <<x>> \in Seq(Utterance)
  BY <1>1, SeqSteps DEF SeqLaws
<1> HIDE DEF x
<1>4. /\ Track(Spoken, <<x>>) = Split(side, s) /\ Track(Exchange, <<x>>) = <<>>
      /\ side # "user" => Track(Heard, <<x>>) = <<>>
  BY <1>1, TrackOne
<1>5. ASSUME NEW P
      PROVE  Track(P, w) = Track(P, <<x>>) \o Track(P, u) /\ w \in Seq(Utterance)
  <2> DEFINE v == <<x>>
  <2>1. v \in Seq(Utterance) /\ w = v \o u
    BY <1>3
  <2> HIDE DEF v, w
  <2>. QED BY <1>2, <2>1, TrackConcat DEF v
<1>6. Split(side, s) \in Seq(Spoken)
  BY SplitProperties
<1>7. Split(side, s) \o <<>> = Split(side, s) /\ <<>> \o u = u
  BY <1>2, <1>6, ConcatEmptySeq
<1>. QED BY <1>2, <1>4, <1>5, <1>7 DEF x

UseAsItem == [b \in Uses |-> Item("function_call", "none", b.text, b.id)]
UseAsChatCall == [b \in Uses |-> [id |-> b.id, text |-> b.text]]

LEMMA AssistantInResponses ==
  ASSUME NEW bs \in Seq(ReplyBlock)
  PROVE  LET calls == Image(UseAsCall, OfType(bs, "tool_use"))
             u == Mapped(ReadI, ResponsesAssistant(bs))
         IN  /\ u \in Seq(Utterance) /\ Track(Spoken, u) = Split("model", JoinText(bs))
             /\ Track(Exchange, u) = calls /\ Track(Heard, u) = calls
<1> DEFINE us == OfType(bs, "tool_use")
           calls == Image(UseAsCall, us)
           t == JoinText(bs)
           first == IF t = <<>> THEN <<>> ELSE <<MessageItem("assistant", t)>>
           items == Image(UseAsItem, us)
<1>1. bs \in Seq(ContentBlock)
  BY DEF ReplyBlock
<1>2. us \in Seq(Uses) /\ t \in Text
  BY <1>1, OfTypeProperties, JoinTextProperties DEF Uses
<1> HIDE DEF us, t
<1>3. calls \in Seq(Exchange)
  BY <1>2, UsesTyped, ImageTyped
<1>4. Sends(UseAsItem, Uses, InputItem) /\ \A b \in Uses : UseAsItem[b] = Item("function_call", "none", b.text, b.id)
  <2>1. ASSUME NEW b \in Uses
        PROVE  Item("function_call", "none", b.text, b.id) \in InputItem
    <3>1. b.text \in Text /\ b.id \in Id
      BY BlockParts DEF Uses
    <3>. QED BY <3>1, ItemTyped DEF ItemRole
  <2>. QED BY <2>1 DEF Sends, UseAsItem
<1>5. items \in Seq(InputItem)
  BY <1>2, <1>4, ImageTyped
<1>6. ResponsesAssistant(bs) = first \o items
  <2>1. [i \in DOMAIN us |-> Item("function_call", "none", us[i].text, us[i].id)] = items
    BY <1>2, <1>4 DEF Image
  <2>. QED BY <2>1 DEF ResponsesAssistant, us, t
<1>7. MapLaws(InputItem, Utterance, ReadI)
  BY ReadITyped, MappedLaws
<1>8. Mapped(ReadI, items) = calls
  <2>1. \A b \in Uses : ReadI[UseAsItem[b]] = <<UseAsCall[b]>>
    <3> SUFFICES ASSUME NEW b \in Uses
                 PROVE  ReadI[UseAsItem[b]] = <<UseAsCall[b]>>
      OBVIOUS
    <3>1. UseAsItem[b] = Item("function_call", "none", b.text, b.id) /\ UseAsItem[b] \in InputItem
      BY <1>4 DEF Sends
    <3>2. ReadI[UseAsItem[b]] = ReadResponses(Item("function_call", "none", b.text, b.id))
      BY <3>1, ReadITyped
    <3>3. ReadResponses(Item("function_call", "none", b.text, b.id)) = <<Utter("model", "call", b.text, b.id)>>
      BY DEF ReadResponses, Item
    <3>. QED BY <3>2, <3>3, UsesTyped
  <2>2. Sends(UseAsCall, Uses, Utterance)
    BY UsesTyped DEF Sends, Exchange
  <2>. QED BY <1>2, <1>4, <2>1, <2>2, ReadITyped, MappedImage
<1>9. CASE t = <<>>
  <2>1. ResponsesAssistant(bs) = items
    BY <1>5, <1>6, <1>9, ConcatEmptySeq
  <2>2. Split("model", t) = <<>>
    BY <1>9, SplitProperties DEF Side
  <2> HIDE DEF calls
  <2>3. Track(Spoken, calls) = <<>> /\ Track(Exchange, calls) = calls /\ Track(Heard, calls) = calls
        /\ calls \in Seq(Utterance)
    BY <1>3, TracksOfExchange
  <2>. QED BY <1>8, <2>1, <2>2, <2>3 DEF calls, us, t
<1>10. CASE t # <<>>
  <2>1. MessageItem("assistant", t) \in InputItem /\ first = <<MessageItem("assistant", t)>>
    BY <1>2, <1>10, MessageItemTyped DEF ItemRole
  <2>2. ReadI[MessageItem("assistant", t)] = <<Utter("model", "words", t, NoId)>>
    <3>1. ReadResponses(MessageItem("assistant", t)) = <<Utter("model", "words", t, NoId)>>
      BY DEF ReadResponses, MessageItem, Item, SideOf
    <3>. QED BY <2>1, <3>1, ReadITyped
  <2>3. first \in Seq(InputItem) /\ Mapped(ReadI, first) = <<Utter("model", "words", t, NoId)>>
    BY <1>7, <2>1, <2>2, SeqSteps DEF MapLaws, SeqLaws
  <2>4. \A p, q \in Seq(InputItem) : Mapped(ReadI, p \o q) = Mapped(ReadI, p) \o Mapped(ReadI, q)
    BY <1>7 DEF MapLaws
  <2> HIDE DEF first, items, calls
  <2>5. Mapped(ReadI, ResponsesAssistant(bs)) = <<Utter("model", "words", t, NoId)>> \o calls
    BY <1>5, <1>6, <1>8, <2>3, <2>4
  <2>6. "model" \in Side /\ "model" # "user"
    BY DEF Side
  <2>7. LET w == <<Utter("model", "words", t, NoId)>> \o calls
        IN  /\ w \in Seq(Utterance)
            /\ Track(Spoken, w) = Split("model", t) /\ Track(Exchange, w) = calls
            /\ Track(Heard, w) = calls
    BY <1>2, <1>3, <2>6, TracksOfBoth
  <2>. QED BY <2>5, <2>7 DEF calls, us, t
<1>. QED BY <1>9, <1>10

LEMMA AssistantInChat ==
  ASSUME NEW bs \in Seq(ReplyBlock)
  PROVE  LET calls == Image(UseAsCall, OfType(bs, "tool_use"))
             u == Mapped(ReadC, ChatAssistant(bs))
         IN  /\ u \in Seq(Utterance) /\ Track(Spoken, u) = Split("model", JoinText(bs))
             /\ Track(Exchange, u) = calls
<1> DEFINE us == OfType(bs, "tool_use")
           calls == Image(UseAsCall, us)
           t == JoinText(bs)
           named == Image(UseAsChatCall, us)
           m == ChatMessage("assistant", t, named, NoId)
<1>1. bs \in Seq(ContentBlock)
  BY DEF ReplyBlock
<1>2. us \in Seq(Uses) /\ t \in Text
  BY <1>1, OfTypeProperties, JoinTextProperties DEF Uses
<1> HIDE DEF us, t
<1>3. calls \in Seq(Exchange)
  BY <1>2, UsesTyped, ImageTyped
<1>4. Sends(UseAsChatCall, Uses, AChatCall) /\ \A b \in Uses : UseAsChatCall[b] = [id |-> b.id, text |-> b.text]
  <2>1. ASSUME NEW b \in Uses
        PROVE  [id |-> b.id, text |-> b.text] \in AChatCall
    <3>1. b.text \in Text /\ b.id \in Id
      BY BlockParts DEF Uses
    <3>. QED BY <3>1 DEF AChatCall
  <2>. QED BY <2>1 DEF Sends, UseAsChatCall
<1>5. named \in Seq(AChatCall)
  BY <1>2, <1>4, ImageTyped
<1>6. ChatAssistant(bs) = <<m>>
  <2>1. [i \in DOMAIN us |-> [id |-> us[i].id, text |-> us[i].text]] = named
    BY <1>2, <1>4 DEF Image
  <2>. QED BY <2>1 DEF ChatAssistant, us, t
<1>7. m \in ChatItem
  BY <1>2, <1>5, ChatMessageTyped, NoIdTyped DEF Role, AChatCall
<1>8. Image(CallHeard, named) = calls
  <2>1. Len(named) = Len(us) /\ \A i \in 1..Len(us) : named[i] = UseAsChatCall[us[i]]
    BY <1>2, <1>4, ImageTyped
  <2>2. \A i \in DOMAIN us : CallHeard[named[i]] = UseAsCall[us[i]]
    <3> SUFFICES ASSUME NEW i \in DOMAIN us
                 PROVE  CallHeard[named[i]] = UseAsCall[us[i]]
      OBVIOUS
    <3>1. us[i] \in Uses /\ i \in 1..Len(us)
      BY <1>2
    <3>2. named[i] = [id |-> us[i].id, text |-> us[i].text] /\ named[i] \in AChatCall
      BY <1>4, <2>1, <3>1 DEF Sends
    <3>3. CallHeard[named[i]] = Utter("model", "call", us[i].text, us[i].id)
      BY <3>2, CallHeardTyped
    <3>. QED BY <3>1, <3>3, UsesTyped
  <2>3. DOMAIN named = DOMAIN us
    BY DEF Image
  <2>. QED BY <2>2, <2>3 DEF Image
<1>9. ReadChat(m) = <<Utter("model", "words", t, NoId)>> \o calls
  <2>1. m.role = "assistant" /\ m.text = t /\ m.calls = named
    BY DEF ChatMessage
  <2>2. SideOf("assistant") = "model"
    BY DEF SideOf
  <2> HIDE DEF m
  <2>. QED BY <1>7, <1>8, <2>1, <2>2, ReadChatIs
<1> HIDE DEF m, calls
<1>10. Mapped(ReadC, ChatAssistant(bs)) = <<Utter("model", "words", t, NoId)>> \o calls
  <2>1. MapLaws(ChatItem, Utterance, ReadC)
    BY ReadCTyped, MappedLaws
  <2>2. Mapped(ReadC, <<m>>) = ReadC[m]
    BY <1>7, <2>1 DEF MapLaws
  <2>. QED BY <1>6, <1>7, <1>9, <2>2, ReadCTyped
<1>11. "model" \in Side
  BY DEF Side
<1>12. LET w == <<Utter("model", "words", t, NoId)>> \o calls
       IN  /\ w \in Seq(Utterance)
           /\ Track(Spoken, w) = Split("model", t) /\ Track(Exchange, w) = calls
  BY <1>2, <1>3, <1>11, TracksOfBoth
<1>. QED BY <1>10, <1>12 DEF calls, us, t

-----------------------------------------------------------------------------
\* What the items of a user's message say, in fragments.
ItemFragments(items) == Fragments(Mapped(ReadI, items))
PartsFragments(parts) == Split("user", FlattenSeq(TextsOf(parts)))

LEMMA ItemFragmentsConcat ==
  ASSUME NEW s \in Seq(InputItem), NEW t \in Seq(InputItem)
  PROVE  /\ ItemFragments(s \o t) = ItemFragments(s) \o ItemFragments(t)
         /\ ItemFragments(s) \in Seq(Utterance) /\ ItemFragments(t) \in Seq(Utterance)
<1>1. MapLaws(InputItem, Utterance, ReadI)
  BY ReadITyped, MappedLaws
<1>2. Mapped(ReadI, s) \in Seq(Utterance) /\ Mapped(ReadI, t) \in Seq(Utterance)
  BY <1>1 DEF MapLaws
<1>3. Mapped(ReadI, s \o t) = Mapped(ReadI, s) \o Mapped(ReadI, t)
  BY <1>1 DEF MapLaws
<1>4. \A p, q \in Seq(Utterance) : Fragments(p \o q) = Fragments(p) \o Fragments(q)
  BY FragmentsLaws DEF FragmentLaws
<1>5. Fragments(Mapped(ReadI, s)) \in Seq(Utterance) /\ Fragments(Mapped(ReadI, t)) \in Seq(Utterance)
  BY <1>2, FragmentsLaws DEF FragmentLaws
<1>. QED BY <1>2, <1>3, <1>4, <1>5 DEF ItemFragments

LEMMA ItemFragmentsOfOne ==
  ASSUME NEW x \in InputItem
  PROVE  /\ x.type = "message" => ItemFragments(<<x>>) = Split(SideOf(x.role), x.text)
         /\ x.type = "function_call_output" =>
              ItemFragments(<<x>>) = <<Utter("user", "result", x.text, x.id)>>
         /\ ItemFragments(<<>>) = <<>>
<1>1. MapLaws(InputItem, Utterance, ReadI)
  BY ReadITyped, MappedLaws
<1>2. Mapped(ReadI, <<x>>) = ReadResponses(x) /\ Mapped(ReadI, <<>>) = <<>>
  BY <1>1, ReadITyped DEF MapLaws
<1>3. x.text \in Text /\ x.id \in Id /\ NoId \in Id /\ SideOf(x.role) \in Side /\ "user" \in Side
  BY NoIdTyped DEF InputItem, SideOf, Side
<1>4. ASSUME x.type = "message"
      PROVE  ItemFragments(<<x>>) = Split(SideOf(x.role), x.text)
  <2> DEFINE u == Utter(SideOf(x.role), "words", x.text, NoId)
  <2>1. u \in Utterance /\ u.kind = "words" /\ u.side = SideOf(x.role) /\ u.text = x.text
    BY <1>3, UtterTyped
  <2>2. ReadResponses(x) = <<u>>
    BY <1>4 DEF ReadResponses
  <2> HIDE DEF u
  <2>3. Fragments(<<u>>) = Split(SideOf(x.role), x.text)
    BY <2>1, FragmentsLaws DEF FragmentLaws
  <2>. QED BY <1>2, <2>2, <2>3 DEF ItemFragments
<1>5. ASSUME x.type = "function_call_output"
      PROVE  ItemFragments(<<x>>) = <<Utter("user", "result", x.text, x.id)>>
  <2> DEFINE u == Utter("user", "result", x.text, x.id)
  <2>1. u \in Utterance /\ u.kind = "result"
    BY <1>3, UtterTyped
  <2>2. ReadResponses(x) = <<u>>
    BY <1>5 DEF ReadResponses
  <2> HIDE DEF u
  <2>3. Fragments(<<u>>) = <<u>>
    BY <2>1, FragmentsLaws DEF FragmentLaws
  <2>. QED BY <1>2, <2>2, <2>3 DEF ItemFragments, u
<1>6. ItemFragments(<<>>) = <<>>
  BY <1>2, FragmentsLaws DEF FragmentLaws, ItemFragments
<1>. QED BY <1>4, <1>5, <1>6

LEMMA PartsFragmentsTyped ==
  /\ PartsFragments(<<>>) = <<>>
  /\ \A parts \in Seq(ContentBlock) : /\ PartsFragments(parts) \in Seq(Utterance)
                                      /\ FlattenSeq(TextsOf(parts)) \in Text
<1>1. \A b \in ContentBlock : b.text \in Text
  BY BlockParts
<1>2. /\ FlattenSeq(TextsOf(<<>>)) = <<>>
      /\ \A s \in Seq(ContentBlock) : FlattenSeq(TextsOf(s)) \in Text
  BY <1>1, TextsProperties
<1>3. "user" \in Side
  BY DEF Side
<1>4. Split("user", <<>>) = <<>> /\ \A s \in Text : Split("user", s) \in Seq(Utterance)
  BY <1>3, SplitProperties, SplitMeans, SilentTyped
<1>. QED BY <1>2, <1>4 DEF PartsFragments

LEMMA PartsFragmentsAppend ==
  ASSUME NEW parts \in Seq(ContentBlock), NEW b \in ContentBlock
  PROVE  PartsFragments(Append(parts, b)) = PartsFragments(parts) \o Split("user", b.text)
<1>1. \A x \in ContentBlock : x.text \in Text
  BY BlockParts
<1>2. Append(parts, b) = parts \o <<b>> /\ <<b>> \in Seq(ContentBlock)
  BY SeqSteps DEF SeqLaws
<1>3. \A s, t \in Seq(ContentBlock) :
        FlattenSeq(TextsOf(s \o t)) = FlattenSeq(TextsOf(s)) \o FlattenSeq(TextsOf(t))
  BY <1>1, TextsProperties
<1>4. FlattenSeq(TextsOf(<<b>>)) = b.text
  BY <1>1, TextsProperties
<1>5. FlattenSeq(TextsOf(Append(parts, b))) = FlattenSeq(TextsOf(parts)) \o b.text
  BY <1>2, <1>3, <1>4
<1>6. "user" \in Side
  BY DEF Side
<1>7. \A s, t \in Text : Split("user", s \o t) = Split("user", s) \o Split("user", t)
  BY <1>6, SplitProperties
<1>8. FlattenSeq(TextsOf(parts)) \in Text /\ b.text \in Text
  BY <1>1, PartsFragmentsTyped
<1>9. Split("user", FlattenSeq(TextsOf(parts)) \o b.text) = Split("user", FlattenSeq(TextsOf(parts))) \o Split("user", b.text)
  BY <1>7, <1>8
<1>. QED BY <1>5, <1>9 DEF PartsFragments

LEMMA FlushFragments ==
  ASSUME NEW role \in ItemRole, role # "assistant", NEW parts \in Seq(ContentBlock)
  PROVE  ItemFragments(Flush(role, parts)) = PartsFragments(parts)
<1>1. CASE parts = <<>>
  <2>1. ItemFragments(<<>>) = <<>>
    <3>1. MapLaws(InputItem, Utterance, ReadI)
      BY ReadITyped, MappedLaws
    <3>. QED BY <3>1, FragmentsLaws DEF MapLaws, FragmentLaws, ItemFragments
  <2>. QED BY <1>1, <2>1, PartsFragmentsTyped DEF Flush
<1>2. CASE parts # <<>>
  <2> DEFINE t == FlattenSeq(TextsOf(parts))
             x == MessageItem(role, t)
  <2>1. t \in Text /\ Flush(role, parts) = <<x>>
    BY <1>2, PartsFragmentsTyped DEF Flush
  <2>2. x \in InputItem
    BY <2>1, MessageItemTyped
  <2>3. x.type = "message" /\ SideOf(x.role) = "user" /\ x.text = t
    BY DEF MessageItem, Item, SideOf
  <2> HIDE DEF x
  <2>. QED BY <2>1, <2>2, <2>3, ItemFragmentsOfOne DEF PartsFragments
<1>. QED BY <1>1, <1>2

LEMMA FragmentsAppend ==
  ASSUME NEW u \in Seq(Utterance), NEW x \in Utterance
  PROVE  Fragments(Append(u, x)) = Fragments(u) \o (IF x.kind = "words" THEN Split(x.side, x.text) ELSE <<x>>)
<1>1. SeqLaws(Utterance)
  BY SeqSteps
<1>2. Append(u, x) = u \o <<x>> /\ <<x>> \in Seq(Utterance)
  BY <1>1 DEF SeqLaws
<1> DEFINE v == <<x>>
<1>3. v \in Seq(Utterance) /\ Append(u, x) = u \o v
  BY <1>2
<1> HIDE DEF v
<1>4. Fragments(u \o v) = Fragments(u) \o Fragments(v)
  BY <1>3, FragmentsLaws DEF FragmentLaws
<1>5. Fragments(v) = IF x.kind = "words" THEN Split(x.side, x.text) ELSE <<x>>
  BY FragmentsLaws DEF FragmentLaws, v
<1>. QED BY <1>3, <1>4, <1>5

\* Gathering a message's blocks keeps all that is said, in its order.
LEMMA GatherFragments ==
  ASSUME NEW role \in ItemRole, role # "assistant", NEW bs \in Seq(ClientBlock)
  PROVE  LET end == Gather(role, bs)
         IN  ItemFragments(end.out) \o PartsFragments(end.parts)
               = Fragments(Image(ReadAs(role), bs))
<1> DEFINE U(s) == Image(ReadAs(role), s)
           Both(s) == ItemFragments(Gather(role, s).out) \o PartsFragments(Gather(role, s).parts)
           T == {s \in Seq(ClientBlock) : Both(s) = Fragments(U(s))}
<1>1. ImageLaws(ContentBlock, Utterance, ReadAs(role)) /\ SeqLaws(ClientBlock)
      /\ SeqLaws(InputItem) /\ SeqLaws(Utterance) /\ SeqLaws(ContentBlock)
  BY ReadAsTyped, Images, SeqSteps
<1>2. <<>> \in T
  <2>1. Gather(role, <<>>).out = <<>> /\ Gather(role, <<>>).parts = <<>>
    BY GatherProperties DEF Nothing
  <2>2. ItemFragments(<<>>) = <<>>
    <3>1. MapLaws(InputItem, Utterance, ReadI)
      BY ReadITyped, MappedLaws
    <3>. QED BY <3>1, FragmentsLaws DEF MapLaws, FragmentLaws, ItemFragments
  <2>3. U(<<>>) = <<>>
    BY <1>1 DEF ImageLaws
  <2>4. Fragments(<<>>) = <<>>
    BY FragmentsLaws DEF FragmentLaws
  <2>5. <<>> \o <<>> = <<>>
    OBVIOUS
  <2>6. Both(<<>>) = <<>>
    BY <2>1, <2>2, <2>5, PartsFragmentsTyped
  <2> HIDE DEF Both, U
  <2>. QED BY <1>1, <2>3, <2>4, <2>6 DEF SeqLaws
<1>3. ASSUME NEW s \in Seq(ClientBlock), NEW b \in ClientBlock, s \in T
      PROVE  Append(s, b) \in T
  <2>1. Both(s) = Fragments(U(s))
    BY <1>3
  <2>2. /\ b \in ContentBlock /\ s \in Seq(ContentBlock)
        /\ b.type \in {"text", "image", "tool_result"}
    BY DEF ClientBlock
  <2> DEFINE x == ReadBlock(role, b)
             acc == Gather(role, s)
  <2>3. Gather(role, Append(s, b)) = TakeBlock(role, acc, b) /\ acc \in Gathered
    BY <2>2, GatherProperties
  <2>4. acc.out \in Seq(InputItem) /\ acc.parts \in Seq(ContentBlock)
    BY <2>3 DEF Gathered
  <2>5. U(Append(s, b)) = Append(U(s), x) /\ x \in Utterance /\ U(s) \in Seq(Utterance)
    <3>1. Image(ReadAs(role), Append(s, b)) = Append(U(s), ReadAs(role)[b])
      BY <2>2, ReadAsTyped, ImageOfAppend
    <3>. QED BY <1>1, <2>2, <3>1, ReadAsTyped, ReadBlockIs DEF ImageLaws
  <2>6. Both(s) = ItemFragments(acc.out) \o PartsFragments(acc.parts)
    OBVIOUS
  <2>7. Append(s, b) \in Seq(ClientBlock)
    BY <1>1 DEF SeqLaws
  <2>8. ItemFragments(acc.out) \in Seq(Utterance) /\ PartsFragments(acc.parts) \in Seq(Utterance)
    BY <2>4, ItemFragmentsConcat, PartsFragmentsTyped
  <2>9. \A p, q, r \in Seq(Utterance) : (p \o q) \o r = p \o (q \o r)
    BY <1>1 DEF SeqLaws
  <2>10. b.text \in Text /\ b.id \in Id /\ SideOf(role) = "user" /\ "user" \in Side
    BY <2>2, BlockParts DEF SideOf, Side
  <2> HIDE DEF T, U
  <2>11. Fragments(U(Append(s, b))) = Fragments(U(s)) \o (IF x.kind = "words" THEN Split(x.side, x.text) ELSE <<x>>)
    <3> HIDE DEF x
    <3>. QED BY <2>5, FragmentsAppend
  <2>12. CASE b.type = "tool_result"
    <3> DEFINE y == Item("function_call_output", "none", b.text, b.id)
               last == <<y>>
               flushed == Flush(role, acc.parts)
    <3>1. /\ TakeBlock(role, acc, b).out = acc.out \o flushed \o last
          /\ TakeBlock(role, acc, b).parts = <<>>
      BY <2>12 DEF TakeBlock
    <3>2. y \in InputItem /\ flushed \in Seq(InputItem)
      BY <2>4, <2>10, ItemTyped, FlushTyped DEF ItemRole
    <3>3. last \in Seq(InputItem)
      BY <1>1, <3>2 DEF SeqLaws
    <3>4. x = Utter("user", "result", b.text, b.id)
      BY <2>2, <2>12, ReadBlockIs
    <3>5. ItemFragments(last) = <<x>>
      <4>1. y.type = "function_call_output" /\ y.text = b.text /\ y.id = b.id
        BY DEF Item
      <4> HIDE DEF y, x
      <4>. QED BY <3>2, <3>4, <4>1, ItemFragmentsOfOne
    <3>6. x.kind # "words"
      BY <3>4 DEF Utter
    <3> HIDE DEF last, flushed, x, acc
    <3>7. ItemFragments(flushed) = PartsFragments(acc.parts)
      BY <2>4, FlushFragments DEF flushed
    <3>8. acc.out \o flushed \in Seq(InputItem)
      BY <2>4, <3>2, ConcatProperties
    <3>9. ItemFragments((acc.out \o flushed) \o last) = ItemFragments(acc.out \o flushed) \o <<x>>
      BY <3>3, <3>5, <3>8, ItemFragmentsConcat
    <3>10. ItemFragments(acc.out \o flushed) = ItemFragments(acc.out) \o PartsFragments(acc.parts)
      BY <2>4, <3>2, <3>7, ItemFragmentsConcat
    <3>11. ItemFragments((acc.out \o flushed) \o last) = Fragments(U(Append(s, b)))
      BY <2>1, <2>6, <2>11, <3>6, <3>9, <3>10
    <3>12. ItemFragments((acc.out \o flushed) \o last) \in Seq(Utterance)
      BY <3>3, <3>8, ItemFragmentsConcat, ConcatProperties
    <3>13. ItemFragments((acc.out \o flushed) \o last) \o <<>> = ItemFragments((acc.out \o flushed) \o last)
      BY <3>12, ConcatEmptySeq
    <3>14. /\ Gather(role, Append(s, b)).out = (acc.out \o flushed) \o last
           /\ Gather(role, Append(s, b)).parts = <<>>
      BY <2>3, <3>1
    <3>15. Both(Append(s, b)) = ItemFragments((acc.out \o flushed) \o last) \o <<>>
      BY <3>14, PartsFragmentsTyped
    <3> HIDE DEF Both
    <3>. QED BY <2>7, <3>11, <3>13, <3>15 DEF T
  <2>13. CASE b.type # "tool_result"
    <3>1. /\ TakeBlock(role, acc, b).out = acc.out
          /\ TakeBlock(role, acc, b).parts = Append(acc.parts, b)
      BY <2>2, <2>3, <2>13 DEF TakeBlock, IsPart, Gathered
    <3>2. x = Utter("user", "words", b.text, NoId)
      BY <2>2, <2>10, <2>13, ReadBlockIs
    <3>3. x.kind = "words" /\ x.side = "user" /\ x.text = b.text
      BY <3>2 DEF Utter
    <3>4. Split("user", b.text) \in Seq(Utterance)
      BY <2>10, SplitMeans, SilentTyped
    <3> HIDE DEF x, acc
    <3>5. PartsFragments(Append(acc.parts, b)) = PartsFragments(acc.parts) \o Split("user", b.text)
      BY <2>2, <2>4, PartsFragmentsAppend
    <3>6. ItemFragments(acc.out) \o PartsFragments(Append(acc.parts, b))
            = (ItemFragments(acc.out) \o PartsFragments(acc.parts)) \o Split("user", b.text)
      <4>1. (ItemFragments(acc.out) \o PartsFragments(acc.parts)) \o Split("user", b.text)
              = ItemFragments(acc.out) \o (PartsFragments(acc.parts) \o Split("user", b.text))
        BY <2>8, <2>9, <3>4
      <4>. QED BY <3>5, <4>1, Zenon
    <3>7. Both(Append(s, b)) = ItemFragments(acc.out) \o PartsFragments(Append(acc.parts, b))
      BY <2>3, <3>1
    <3> HIDE DEF Both
    <3>8. Both(Append(s, b)) = Fragments(U(Append(s, b)))
      BY <2>1, <2>6, <2>11, <3>3, <3>6, <3>7
    <3>. QED BY <2>7, <3>8 DEF T
  <2>. QED BY <2>12, <2>13
<1> HIDE DEF T
<1>4. Seq(ClientBlock) \subseteq T
  BY <1>2, <1>3, SequenceInduction
<1>. QED BY <1>4 DEF T

-----------------------------------------------------------------------------
LEMMA SelectedParts ==
  ASSUME NEW bs \in Seq(ContentBlock)
  PROVE  /\ Only(IsPart, bs) = Selected(Parts, bs)
         /\ Selected(Parts, bs) \in Seq(ContentBlock)
<1>1. \A i \in DOMAIN bs : IsPart(bs[i]) <=> bs[i] \in Parts
  BY DEF Parts
<1>2. SelectLaws(ContentBlock, Parts)
  BY SelectedLaws
<1>. QED BY <1>1, <1>2 DEF Only, Selected, SelectLaws

LEMMA SelectedAppend ==
  ASSUME NEW D, NEW P, NEW s \in Seq(D), NEW x \in D
  PROVE  /\ Selected(P, Append(s, x)) = Selected(P, s) \o (IF x \in P THEN <<x>> ELSE <<>>)
         /\ Selected(P, s) \in Seq(D)
<1>1. SelectLaws(D, P)
  BY SelectedLaws
<1>. QED BY <1>1 DEF SelectLaws

LEMMA ClientTracks ==
  ASSUME NEW role, role # "assistant", NEW bs \in Seq(ClientBlock)
  PROVE  LET results == Image(ResultAsHeard, OfType(bs, "tool_result"))
             u == Image(ReadAs(role), bs)
         IN  /\ u \in Seq(Utterance) /\ results \in Seq(Exchange)
             /\ Track(Spoken, u) = PartsFragments(Selected(Parts, bs))
             /\ Track(Exchange, u) = results
<1> DEFINE C(s) == Image(ResultAsHeard, OfType(s, "tool_result"))
           U(s) == Image(ReadAs(role), s)
           W(s) == PartsFragments(Selected(Parts, s))
           T == {s \in Seq(ClientBlock) :
                   /\ U(s) \in Seq(Utterance) /\ C(s) \in Seq(Exchange)
                   /\ Track(Spoken, U(s)) = W(s) /\ Track(Exchange, U(s)) = C(s)}
<1>1. /\ ImageLaws(ContentBlock, Utterance, ReadAs(role))
      /\ ImageLaws(Results, Exchange, ResultAsHeard)
      /\ SeqLaws(ClientBlock) /\ SeqLaws(Exchange) /\ SeqLaws(ContentBlock)
      /\ SelectLaws(ContentBlock, Parts)
  BY ReadAsTyped, UsesTyped, Images, SeqSteps, SelectedLaws
<1>2. <<>> \in T
  <2>1. U(<<>>) = <<>> /\ C(<<>>) = <<>> /\ W(<<>>) = <<>>
    BY <1>1, OfTypeProperties, PartsFragmentsTyped DEF ImageLaws, SelectLaws
  <2>2. <<>> \in Seq(ClientBlock) /\ <<>> \in Seq(Utterance) /\ <<>> \in Seq(Exchange)
    BY EmptySeq
  <2> HIDE DEF U, C, W
  <2>. QED BY <2>1, <2>2, TrackNothing
<1>3. ASSUME NEW s \in Seq(ClientBlock), NEW b \in ClientBlock, s \in T
      PROVE  Append(s, b) \in T
  <2>1. /\ U(s) \in Seq(Utterance) /\ C(s) \in Seq(Exchange)
        /\ Track(Spoken, U(s)) = W(s) /\ Track(Exchange, U(s)) = C(s)
    BY <1>3
  <2>2. /\ b \in ContentBlock /\ s \in Seq(ContentBlock)
        /\ b.type \in {"text", "image", "tool_result"}
    BY DEF ClientBlock
  <2> DEFINE x == ReadBlock(role, b)
             t == Append(s, b)
  <2>3. t \in Seq(ClientBlock)
    BY <1>1 DEF SeqLaws
  <2>4. U(t) = Append(U(s), x) /\ x \in Utterance
    <3>1. Image(ReadAs(role), Append(s, b)) = Append(U(s), ReadAs(role)[b])
      BY <2>2, ReadAsTyped, ImageOfAppend
    <3>. QED BY <2>2, <3>1, ReadAsTyped, ReadBlockIs
  <2>5. OfType(t, "tool_result") = OfType(s, "tool_result") \o (IF b.type = "tool_result" THEN <<b>> ELSE <<>>)
    BY <2>2, OfTypeAppend
  <2>6. /\ Selected(Parts, t) = Selected(Parts, s) \o (IF b \in Parts THEN <<b>> ELSE <<>>)
        /\ Selected(Parts, s) \in Seq(ContentBlock)
    BY <2>2, SelectedAppend
  <2>7. C(t) = C(s) \o (IF b.type = "tool_result" THEN <<Utter("user", "result", b.text, b.id)>> ELSE <<>>)
    <3>1. OfType(s, "tool_result") \in Seq(Results)
      BY <2>2, OfTypeProperties DEF Results
    <3>2. CASE b.type = "tool_result"
      <4>1. b \in Results
        BY <2>2, <3>2 DEF Results
      <4>2. <<b>> \in Seq(Results) /\ Image(ResultAsHeard, <<b>>) = <<ResultAsHeard[b]>>
        BY <1>1, <4>1 DEF ImageLaws
      <4>3. \A p, q \in Seq(Results) : Image(ResultAsHeard, p \o q) = Image(ResultAsHeard, p) \o Image(ResultAsHeard, q)
        BY <1>1 DEF ImageLaws
      <4>4. C(t) = C(s) \o <<ResultAsHeard[b]>>
        BY <2>5, <3>1, <3>2, <4>2, <4>3
      <4>. QED BY <3>2, <4>1, <4>4, UsesTyped
    <3>3. CASE b.type # "tool_result"
      <4>1. OfType(t, "tool_result") = OfType(s, "tool_result")
        BY <2>5, <3>1, <3>3, ConcatEmptySeq
      <4>2. C(s) \o <<>> = C(s)
        BY <2>1, ConcatEmptySeq
      <4>. QED BY <3>3, <4>1, <4>2
    <3>. QED BY <3>2, <3>3
  <2>8. \A P : /\ Track(P, U(t)) = Track(P, U(s)) \o Track(P, <<x>>)
               /\ U(t) \in Seq(Utterance) /\ Track(P, U(s)) \in Seq(Utterance)
    <3> SUFFICES ASSUME NEW P
                 PROVE  /\ Track(P, U(t)) = Track(P, U(s)) \o Track(P, <<x>>)
                        /\ U(t) \in Seq(Utterance) /\ Track(P, U(s)) \in Seq(Utterance)
      OBVIOUS
    <3> HIDE DEF x, t, U
    <3>. QED BY <2>1, <2>4, TrackAppend
  <2> HIDE DEF U, C, T
  <2>9. b.text \in Text /\ b.id \in Id /\ NoId \in Id /\ "user" \in Side /\ SideOf(role) = "user"
    BY <2>2, BlockParts, NoIdTyped DEF Side, SideOf
  <2>10. \A r \in Seq(Utterance) : r \o <<>> = r
    BY ConcatEmptySeq
  <2>11. C(s) \o <<>> = C(s) /\ Selected(Parts, s) \o <<>> = Selected(Parts, s)
    BY <2>1, <2>6, ConcatEmptySeq
  <2>12. CASE b.type # "tool_result"
    <3>1. x = Utter("user", "words", b.text, NoId)
      BY <2>2, <2>9, <2>12, ReadBlockIs
    <3>2. x.kind = "words" /\ x.side = "user" /\ x.text = b.text
      BY <3>1 DEF Utter
    <3>3. Track(Spoken, <<x>>) = Split("user", b.text) /\ Track(Exchange, <<x>>) = <<>>
      BY <2>4, <3>2, TrackOne
    <3>4. b \in Parts
      BY <2>2, <2>12 DEF Parts, IsPart
    <3>5. Selected(Parts, t) = Append(Selected(Parts, s), b)
      BY <2>2, <2>6, <3>4, AppendIsConcat
    <3>6. W(t) = W(s) \o Split("user", b.text)
      BY <2>2, <2>6, <3>5, PartsFragmentsAppend
    <3>7. C(t) = C(s)
      BY <2>7, <2>11, <2>12
    <3> HIDE DEF x, t, W
    <3>8. Track(Spoken, U(t)) = W(t)
      BY <2>1, <2>8, <3>3, <3>6
    <3>9. Track(Exchange, U(t)) = C(t)
      BY <2>1, <2>8, <2>10, <3>3, <3>7
    <3>. QED BY <2>1, <2>3, <2>8, <3>7, <3>8, <3>9 DEF T, t
  <2>13. CASE b.type = "tool_result"
    <3>1. x = Utter("user", "result", b.text, b.id)
      BY <2>2, <2>13, ReadBlockIs
    <3>2. x.kind = "result"
      BY <3>1 DEF Utter
    <3>3. Track(Spoken, <<x>>) = <<>> /\ Track(Exchange, <<x>>) = <<x>> /\ x \in Exchange
      BY <2>4, <3>2, TrackOne DEF Exchange
    <3>4. b \notin Parts
      BY <2>13 DEF Parts, IsPart
    <3>5. W(t) = W(s)
      BY <2>6, <2>11, <3>4
    <3>6. C(t) = C(s) \o <<x>>
      BY <2>7, <2>13, <3>1
    <3> HIDE DEF x, t, W
    <3>7. C(t) \in Seq(Exchange)
      BY <2>1, <3>3, <3>6, ConcatProperties
    <3>8. Track(Spoken, U(t)) = W(t)
      BY <2>1, <2>8, <2>10, <3>3, <3>5
    <3>9. Track(Exchange, U(t)) = C(t)
      BY <2>1, <2>8, <3>3, <3>6
    <3>. QED BY <2>3, <2>8, <3>7, <3>8, <3>9 DEF T, t
  <2>. QED BY <2>12, <2>13
<1> HIDE DEF T
<1>4. Seq(ClientBlock) \subseteq T
  BY <1>2, <1>3, SequenceInduction
<1>. QED BY <1>4 DEF T

ResultAsTool == [b \in Results |-> ChatMessage("tool", b.text, <<>>, b.id)]

LEMMA ClientInChat ==
  ASSUME NEW bs \in Seq(ClientBlock)
  PROVE  LET results == Image(ResultAsHeard, OfType(bs, "tool_result"))
             u == Mapped(ReadC, ChatUser(bs))
         IN  /\ u \in Seq(Utterance)
             /\ Track(Spoken, u) = PartsFragments(Selected(Parts, bs))
             /\ Track(Exchange, u) = results
<1> DEFINE rs == OfType(bs, "tool_result")
           results == Image(ResultAsHeard, rs)
           parts == Selected(Parts, bs)
           t == FlattenSeq(TextsOf(parts))
           m == ChatMessage("user", t, <<>>, NoId)
           rest == IF parts = <<>> THEN <<>> ELSE <<m>>
           first == Image(ResultAsTool, rs)
<1>1. bs \in Seq(ContentBlock)
  BY DEF ClientBlock
<1>2. rs \in Seq(Results) /\ parts \in Seq(ContentBlock) /\ t \in Text
  BY <1>1, OfTypeProperties, SelectedParts, PartsFragmentsTyped DEF Results
<1>3. Sends(ResultAsTool, Results, ChatItem)
      /\ \A b \in Results : /\ ResultAsTool[b] = ChatMessage("tool", b.text, <<>>, b.id)
                            /\ ResultAsTool[b] \in ChatItem
  <2>1. ASSUME NEW b \in Results
        PROVE  ChatMessage("tool", b.text, <<>>, b.id) \in ChatItem
    <3>1. b.text \in Text /\ b.id \in Id /\ "tool" \in Role \cup {"tool"}
      BY BlockParts DEF Results
    <3>2. <<>> \in Seq([id : Id, text : Text])
      BY EmptySeq
    <3>. QED BY <3>1, <3>2, ChatMessageTyped
  <2>. QED BY <2>1 DEF Sends, ResultAsTool
<1>4. ChatUser(bs) = first \o rest
  <2>1. [i \in DOMAIN rs |-> ChatMessage("tool", rs[i].text, <<>>, rs[i].id)] = first
    BY <1>2, <1>3 DEF Image
  <2>2. Only(IsPart, bs) = parts
    BY <1>1, SelectedParts
  <2>. QED BY <2>1, <2>2 DEF ChatUser
<1> HIDE DEF rs, parts, t
<1>5. MapLaws(ChatItem, Utterance, ReadC)
  BY ReadCTyped, MappedLaws
<1>6. first \in Seq(ChatItem) /\ results \in Seq(Exchange)
  BY <1>2, <1>3, UsesTyped, ImageTyped
<1>7. Mapped(ReadC, first) = results
  <2>1. ASSUME NEW b \in Results
        PROVE  ReadC[ResultAsTool[b]] = <<ResultAsHeard[b]>>
    <3> DEFINE c == ChatMessage("tool", b.text, <<>>, b.id)
    <3>1. c \in ChatItem /\ ResultAsTool[b] = c
      BY <1>3
    <3>2. c.role = "tool" /\ c.text = b.text /\ c.id = b.id
      BY DEF ChatMessage
    <3> HIDE DEF c
    <3>3. ReadC[c] = <<Utter("user", "result", b.text, b.id)>>
      BY <3>1, <3>2, ReadCTyped, ReadChatIs
    <3>. QED BY <3>1, <3>3, UsesTyped
  <2>2. Sends(ResultAsHeard, Results, Utterance)
    BY UsesTyped DEF Sends, Exchange
  <2>. QED BY <1>2, <1>3, <2>1, <2>2, ReadCTyped, MappedImage
<1> DEFINE x == Utter("user", "words", t, NoId)
<1>8. m \in ChatItem /\ ReadC[m] = <<x>>
  <2>1. m \in ChatItem
    <3>1. <<>> \in Seq([id : Id, text : Text]) /\ "user" \in Role \cup {"tool"}
      BY EmptySeq DEF Role
    <3>. QED BY <1>2, <3>1, ChatMessageTyped, NoIdTyped
  <2>2. m.role = "user" /\ m.text = t /\ m.calls = <<>> /\ SideOf("user") = "user"
    BY DEF ChatMessage, SideOf
  <2>3. Image(CallHeard, <<>>) = <<>>
    BY DEF Image
  <2>4. <<x>> \o <<>> = <<x>>
    OBVIOUS
  <2> HIDE DEF m
  <2>. QED BY <2>1, <2>2, <2>3, <2>4, ReadCTyped, ReadChatIs
<1>9. x \in Utterance /\ x.kind = "words" /\ x.side = "user" /\ x.text = t
  BY <1>2, UtterTyped, NoIdTyped DEF Side
<1> HIDE DEF m, x, results, first
<1>10. /\ results \in Seq(Utterance) /\ Track(Spoken, results) = <<>>
       /\ Track(Exchange, results) = results
  BY <1>6, TracksOfExchange
<1>11. CASE parts = <<>>
  <2>1. ChatUser(bs) = first
    BY <1>4, <1>6, <1>11, ConcatEmptySeq
  <2>2. PartsFragments(parts) = <<>>
    BY <1>11, PartsFragmentsTyped
  <2>. QED BY <1>7, <1>10, <2>1, <2>2 DEF results, rs, parts
<1>12. CASE parts # <<>>
  <2>1. ChatUser(bs) = Append(first, m) /\ Append(first, m) \in Seq(ChatItem)
    BY <1>4, <1>6, <1>8, <1>12, AppendIsConcat, AppendProperties
  <2>2. Mapped(ReadC, ChatUser(bs)) = results \o <<x>>
    BY <1>5, <1>6, <1>7, <1>8, <2>1 DEF MapLaws
  <2>3. results \o <<x>> = Append(results, x)
    BY <1>9, <1>10, AppendIsConcat
  <2>4. Track(Spoken, <<x>>) = Split("user", t) /\ Track(Exchange, <<x>>) = <<>>
    BY <1>9, TrackOne
  <2>5. ASSUME NEW P
        PROVE  /\ Track(P, Append(results, x)) = Track(P, results) \o Track(P, <<x>>)
               /\ Append(results, x) \in Seq(Utterance)
               /\ Track(P, <<x>>) \in Seq(Utterance)
    BY <1>9, <1>10, TrackAppend
  <2>6. Split("user", t) \in Seq(Utterance)
    BY <2>4, <2>5
  <2>7. <<>> \o Split("user", t) = Split("user", t) /\ results \o <<>> = results
    BY <1>10, <2>6, ConcatEmptySeq
  <2>8. Track(Spoken, Append(results, x)) = Split("user", t)
    BY <1>10, <2>4, <2>5, <2>7
  <2>9. Track(Exchange, Append(results, x)) = results
    BY <1>10, <2>4, <2>5, <2>7
  <2>. QED BY <2>2, <2>3, <2>5, <2>8, <2>9 DEF results, rs, parts, t, PartsFragments
<1>. QED BY <1>11, <1>12

-----------------------------------------------------------------------------
ConvI == [m \in FitMessage |-> ResponsesMessage(m)]
ConvC == [m \in FitMessage |-> ChatConvert(m)]
ReadR == Then(FitMessage, ConvI, ReadI)
ReadH == Then(FitMessage, ConvC, ReadC)

LEMMA ConvTyped ==
  /\ Maps(ConvI, FitMessage, InputItem) /\ Maps(ConvC, FitMessage, ChatItem)
  /\ \A m \in FitMessage : /\ ReadR[m] = Mapped(ReadI, ResponsesMessage(m))
                           /\ ReadH[m] = Mapped(ReadC, ChatConvert(m))
  /\ Maps(ReadR, FitMessage, Utterance) /\ Maps(ReadH, FitMessage, Utterance)
<1>1. \A m \in FitMessage : ResponsesMessage(m) \in Seq(InputItem) /\ ChatConvert(m) \in Seq(ChatItem)
  BY FitParts, ResponsesMessageTyped, ChatConvertTyped
<1>2. Maps(ConvI, FitMessage, InputItem) /\ Maps(ConvC, FitMessage, ChatItem)
  BY <1>1 DEF Maps, ConvI, ConvC
<1>3. Maps(ReadR, FitMessage, Utterance)
  BY <1>2, ReadITyped, ThenTyped DEF ReadR
<1>4. Maps(ReadH, FitMessage, Utterance)
  BY <1>2, ReadCTyped, ThenTyped DEF ReadH
<1>5. \A m \in FitMessage : /\ ReadR[m] = Mapped(ReadI, ResponsesMessage(m))
                            /\ ReadH[m] = Mapped(ReadC, ChatConvert(m))
  BY DEF ReadR, ReadH, Then, ConvI, ConvC
<1>. QED BY <1>2, <1>3, <1>4, <1>5

LEMMA ConvertedMapped ==
  ASSUME NEW h \in Seq(FitMessage)
  PROVE  /\ ToResponses(h) = Mapped(ConvI, h) /\ ToResponses(h) \in Seq(InputItem)
         /\ ToChat(h) = Mapped(ConvC, h) /\ ToChat(h) \in Seq(ChatItem)
         /\ Read("responses", ToResponses(h)) = Mapped(ReadR, h)
         /\ Read("chat", ToChat(h)) = Mapped(ReadH, h)
         /\ Read("anthropic", h) = Mapped(ReadM, h)
<1>1. \A i \in DOMAIN h : ConvI[h[i]] = ResponsesMessage(h[i]) /\ ConvC[h[i]] = ChatConvert(h[i])
  BY DEF ConvI, ConvC
<1>2. ToResponses(h) = Mapped(ConvI, h) /\ ToChat(h) = Mapped(ConvC, h)
  BY <1>1 DEF ToResponses, ToChat, Mapped
<1>3. MapLaws(FitMessage, InputItem, ConvI) /\ MapLaws(FitMessage, ChatItem, ConvC)
  BY ConvTyped, MappedLaws
<1>4. Mapped(ConvI, h) \in Seq(InputItem) /\ Mapped(ConvC, h) \in Seq(ChatItem)
  BY <1>3 DEF MapLaws
<1>5. Mapped(ReadI, Mapped(ConvI, h)) = Mapped(ReadR, h)
  BY ConvTyped, ReadITyped, MappedMapped DEF ReadR
<1>6. Mapped(ReadC, Mapped(ConvC, h)) = Mapped(ReadH, h)
  BY ConvTyped, ReadCTyped, MappedMapped DEF ReadH
<1>. QED BY <1>2, <1>4, <1>5, <1>6, ReadMapped

\* What messages tell on a track, one after the other.
Tracked(P, D, g) == [x \in D |-> Track(P, g[x])]

LEMMA TrackMapped ==
  ASSUME NEW P, NEW D, NEW g, Maps(g, D, Utterance)
  PROVE  \A s \in Seq(D) : Track(P, Mapped(g, s)) = Mapped(Tracked(P, D, g), s)
<1>1. \A s \in Seq(D) : Mapped(SplitUp, Mapped(g, s)) = Mapped(Then(D, g, SplitUp), s)
  BY SplitUpTyped, MappedMapped
<1>2. Maps(Then(D, g, SplitUp), D, Utterance)
  BY SplitUpTyped, ThenTyped
<1>3. \A s \in Seq(D) : Selected(P, Mapped(Then(D, g, SplitUp), s))
                          = Mapped([x \in D |-> Selected(P, Then(D, g, SplitUp)[x])], s)
  BY <1>2, SelectedMapped
<1>4. [x \in D |-> Selected(P, Then(D, g, SplitUp)[x])] = Tracked(P, D, g)
  BY DEF Then, Tracked, Track, Fragments
<1>. QED BY <1>1, <1>3, <1>4 DEF Track, Fragments

LEMMA TracksAgree ==
  ASSUME NEW P, NEW D, NEW g, Maps(g, D, Utterance), NEW h, Maps(h, D, Utterance),
         \A x \in D : Track(P, g[x]) = Track(P, h[x])
  PROVE  \A s \in Seq(D) : Track(P, Mapped(g, s)) = Track(P, Mapped(h, s))
<1>1. Tracked(P, D, g) = Tracked(P, D, h)
  BY DEF Tracked
<1>2. \A s \in Seq(D) : Track(P, Mapped(g, s)) = Mapped(Tracked(P, D, g), s)
  BY TrackMapped
<1>3. \A s \in Seq(D) : Track(P, Mapped(h, s)) = Mapped(Tracked(P, D, h), s)
  BY TrackMapped
<1>. QED BY <1>1, <1>2, <1>3

\* All clients' roles are read as the user's.
LEMMA ReadAsAlike ==
  ASSUME NEW r, NEW q, r # "assistant", q # "assistant"
  PROVE  ReadAs(r) = ReadAs(q)
<1>1. SideOf(r) = SideOf(q)
  BY DEF SideOf
<1>2. \A b \in ContentBlock : ReadBlock(r, b) = ReadBlock(q, b)
  BY <1>1 DEF ReadBlock
<1>. QED BY <1>2 DEF ReadAs

LEMMA PlainReads ==
  ASSUME NEW m \in FitMessage, m.plain
  PROVE  ReadR[m] = ReadM[m] /\ ReadH[m] = ReadM[m]
<1> DEFINE b == m.blocks[1]
           u == Utter("user", "words", b.text, NoId)
           role == ResponsesRole(m.role)
<1>1. /\ m.role \in Role /\ m.role # "assistant" /\ b.type = "text"
      /\ m.blocks \in Seq(ContentBlock) /\ Len(m.blocks) = 1
  BY FitParts
<1>2. b \in ContentBlock /\ m.blocks = <<b>>
  BY <1>1
<1>3. SideOf(m.role) = "user" /\ SideOf(role) = "user" /\ role \in ItemRole /\ m.role # "tool"
      /\ m.role \in Role \cup {"tool"}
  BY <1>1 DEF SideOf, ResponsesRole, Role, ItemRole
<1>4. b.text \in Text
  BY <1>2, BlockParts
<1> HIDE DEF b, role
<1>5. ReadM[m] = <<u>>
  <2>1. ImageLaws(ContentBlock, Utterance, ReadAs(m.role))
    BY ReadAsTyped, Images
  <2>2. Image(ReadAs(m.role), <<b>>) = <<ReadAs(m.role)[b]>>
    BY <1>2, <2>1 DEF ImageLaws
  <2>3. ReadAs(m.role)[b] = ReadBlock(m.role, b)
    BY <1>2, ReadAsTyped
  <2>4. ReadBlock(m.role, b) = u
    BY <1>1, <1>2, <1>3, ReadBlockIs DEF b
  <2>. QED BY <1>2, <2>2, <2>3, <2>4, ReadMTyped
<1>6. ReadR[m] = <<u>>
  <2> DEFINE x == MessageItem(role, b.text)
  <2>1. ResponsesMessage(m) = <<x>>
    BY DEF ResponsesMessage, role, b
  <2>2. x \in InputItem
    BY <1>3, <1>4, MessageItemTyped
  <2>3. ReadResponses(x) = <<u>>
    BY <1>3 DEF ReadResponses, MessageItem, Item
  <2>4. MapLaws(InputItem, Utterance, ReadI)
    BY ReadITyped, MappedLaws
  <2> HIDE DEF x, u
  <2>5. Mapped(ReadI, <<x>>) = <<u>>
    BY <2>2, <2>3, <2>4, ReadITyped DEF MapLaws
  <2>. QED BY <2>1, <2>5, ConvTyped
<1>7. ReadH[m] = <<u>>
  <2> DEFINE x == ChatMessage(m.role, b.text, <<>>, NoId)
  <2>1. ChatConvert(m) = <<x>>
    BY DEF ChatConvert, b
  <2>2. x \in ChatItem
    <3>1. <<>> \in Seq([id : Id, text : Text])
      BY EmptySeq
    <3>. QED BY <1>3, <1>4, <3>1, ChatMessageTyped, NoIdTyped
  <2>3. ReadChat(x) = <<u>>
    <3>1. x.role = m.role /\ x.text = b.text /\ x.calls = <<>>
      BY DEF ChatMessage
    <3>2. Image(CallHeard, <<>>) = <<>>
      BY DEF Image
    <3>3. <<u>> \o <<>> = <<u>>
      OBVIOUS
    <3> HIDE DEF x
    <3>. QED BY <1>3, <2>2, <3>1, <3>2, <3>3, ReadChatIs
  <2>4. MapLaws(ChatItem, Utterance, ReadC)
    BY ReadCTyped, MappedLaws
  <2> HIDE DEF x, u
  <2>5. Mapped(ReadC, <<x>>) = <<u>>
    BY <2>2, <2>3, <2>4, ReadCTyped DEF MapLaws
  <2>. QED BY <2>1, <2>5, ConvTyped
<1>. QED BY <1>5, <1>6, <1>7

\* The Responses API reads a client's message as it is.
LEMMA ClientInResponses ==
  ASSUME NEW role \in ItemRole, role # "assistant", NEW bs \in Seq(ClientBlock)
  PROVE  Fragments(Mapped(ReadI, ResponsesUser(role, bs))) = Fragments(Image(ReadAs(role), bs))
<1> DEFINE end == Gather(role, bs)
<1>1. bs \in Seq(ContentBlock)
  BY DEF ClientBlock
<1>2. end \in Gathered
  BY <1>1, GatherProperties
<1>3. end.out \in Seq(InputItem) /\ end.parts \in Seq(ContentBlock)
  BY <1>2 DEF Gathered
<1>4. ResponsesUser(role, bs) = end.out \o Flush(role, end.parts)
  BY DEF ResponsesUser
<1> HIDE DEF end
<1>5. Flush(role, end.parts) \in Seq(InputItem)
      /\ ItemFragments(Flush(role, end.parts)) = PartsFragments(end.parts)
  BY <1>3, FlushTyped, FlushFragments
<1>6. ItemFragments(end.out \o Flush(role, end.parts)) = ItemFragments(end.out) \o PartsFragments(end.parts)
  BY <1>3, <1>5, ItemFragmentsConcat
<1>7. ItemFragments(end.out) \o PartsFragments(end.parts) = Fragments(Image(ReadAs(role), bs))
  BY GatherFragments DEF end
<1>. QED BY <1>4, <1>6, <1>7 DEF ItemFragments

LEMMA MessageReads ==
  ASSUME NEW m \in FitMessage
  PROVE  /\ \A P \in {Spoken, Exchange, Heard} : Track(P, ReadR[m]) = Track(P, ReadM[m])
         /\ \A P \in {Spoken, Exchange} : Track(P, ReadH[m]) = Track(P, ReadM[m])
<1>1. CASE m.plain
  BY <1>1, PlainReads
<1>2. CASE ~m.plain /\ m.role = "assistant"
  <2>1. m.blocks \in Seq(ReplyBlock)
    BY <1>2, FitParts DEF BlocksOf
  <2>2. /\ ReadR[m] = Mapped(ReadI, ResponsesAssistant(m.blocks))
        /\ ReadH[m] = Mapped(ReadC, ChatAssistant(m.blocks))
        /\ ReadM[m] = Image(ReadAs("assistant"), m.blocks)
    BY <1>2, ConvTyped, ReadMTyped DEF ResponsesMessage, ChatConvert, ResponsesRole
  <2>. QED BY <2>1, <2>2, AssistantTracks, AssistantInResponses, AssistantInChat
<1>3. CASE ~m.plain /\ m.role # "assistant"
  <2> DEFINE role == ResponsesRole(m.role)
  <2>1. m.blocks \in Seq(ClientBlock) /\ m.role \in Role
    BY <1>3, FitParts DEF BlocksOf
  <2>2. role \in ItemRole /\ role # "assistant"
    BY <1>3, <2>1 DEF ResponsesRole, Role, ItemRole
  <2>3. /\ ReadR[m] = Mapped(ReadI, ResponsesUser(role, m.blocks))
        /\ ReadH[m] = Mapped(ReadC, ChatUser(m.blocks))
        /\ ReadM[m] = Image(ReadAs(m.role), m.blocks)
    BY <1>3, <2>2, ConvTyped, ReadMTyped DEF ResponsesMessage, ChatConvert
  <2> HIDE DEF role
  <2>4. ReadAs(m.role) = ReadAs(role)
    BY <1>3, <2>2, ReadAsAlike
  <2>5. Fragments(ReadR[m]) = Fragments(ReadM[m])
    BY <2>1, <2>2, <2>3, <2>4, ClientInResponses
  <2>6. \A P : Track(P, ReadR[m]) = Track(P, ReadM[m])
    BY <2>5 DEF Track
  <2>7. Track(Spoken, ReadH[m]) = Track(Spoken, ReadM[m]) /\ Track(Exchange, ReadH[m]) = Track(Exchange, ReadM[m])
    BY <1>3, <2>1, <2>3, ClientTracks, ClientInChat
  <2>. QED BY <2>6, <2>7
<1>. QED BY <1>1, <1>2, <1>3

\* A conversation says the same in every API.
THEOREM ConversationReads ==
  ASSUME NEW h \in Seq(FitMessage)
  PROVE  LET told == Read("anthropic", h)
             responses == Read("responses", ToResponses(h))
             chat == Read("chat", ToChat(h))
         IN  /\ told \in Seq(Utterance)
             /\ responses \in Seq(Utterance) /\ chat \in Seq(Utterance)
             /\ \A P \in {Spoken, Exchange, Heard} : Track(P, responses) = Track(P, told)
             /\ \A P \in {Spoken, Exchange} : Track(P, chat) = Track(P, told)
<1>1. Maps(ReadM, FitMessage, Utterance) /\ Maps(ReadR, FitMessage, Utterance)
      /\ Maps(ReadH, FitMessage, Utterance)
  BY ConvTyped, ReadMTyped
<1>2. /\ MapLaws(FitMessage, Utterance, ReadM) /\ MapLaws(FitMessage, Utterance, ReadR)
      /\ MapLaws(FitMessage, Utterance, ReadH)
  BY <1>1, MappedLaws
<1>3. Mapped(ReadM, h) \in Seq(Utterance) /\ Mapped(ReadR, h) \in Seq(Utterance)
      /\ Mapped(ReadH, h) \in Seq(Utterance)
  BY <1>2 DEF MapLaws
<1>4. ASSUME NEW P \in {Spoken, Exchange, Heard}
      PROVE  Track(P, Mapped(ReadR, h)) = Track(P, Mapped(ReadM, h))
  <2>1. \A m \in FitMessage : Track(P, ReadR[m]) = Track(P, ReadM[m])
    BY MessageReads
  <2>. QED BY <1>1, <2>1, TracksAgree
<1>5. ASSUME NEW P \in {Spoken, Exchange}
      PROVE  Track(P, Mapped(ReadH, h)) = Track(P, Mapped(ReadM, h))
  <2>1. \A m \in FitMessage : Track(P, ReadH[m]) = Track(P, ReadM[m])
    BY MessageReads
  <2>. QED BY <1>1, <2>1, TracksAgree
<1>. QED BY <1>3, <1>4, <1>5, ConvertedMapped

-----------------------------------------------------------------------------
(* What a conversation tells, sanitised as every request is.               *)

Told(h) == Read("anthropic", Sanitize(h))
SanitizeEach == [b \in ReplyBlock |-> SanitizeBlock(b)]
Clean == [m \in FitMessage |-> SanitizeMessage(m)]

LEMMA SanitizeEachTyped ==
  /\ Maps(SanitizeEach, ReplyBlock, ReplyBlock)
  /\ \A b \in ReplyBlock : SanitizeEach[b] = SanitizeBlock(b)
<1>1. ASSUME NEW b \in ReplyBlock
      PROVE  SanitizeBlock(b) \in Seq(ReplyBlock)
  <2>1. b \in ContentBlock /\ b.text \in Text
    BY BlockParts DEF ReplyBlock
  <2>2. TextBlock(b.text) \in ContentBlock /\ TextBlock(b.text).type = "text"
    BY <2>1, TextBlocksTyped DEF TextBlock, Block
  <2>3. TextBlock(b.text) \in ReplyBlock
    BY <2>2 DEF ReplyBlock
  <2>4. <<b>> \in Seq(ReplyBlock) /\ <<>> \in Seq(ReplyBlock) /\ <<TextBlock(b.text)>> \in Seq(ReplyBlock)
    BY <2>3, SeqSteps DEF SeqLaws
  <2>. QED BY <2>4 DEF SanitizeBlock
<1>. QED BY <1>1 DEF Maps, SanitizeEach

LEMMA CleanTyped ==
  ASSUME NEW m \in FitMessage
  PROVE  /\ SanitizeMessage(m) \in FitMessage
         /\ SanitizeMessage(m).role = m.role /\ SanitizeMessage(m).plain = m.plain
         /\ m.plain \/ m.role # "assistant" => SanitizeMessage(m) = m
         /\ ~m.plain /\ m.role = "assistant" =>
              SanitizeMessage(m).blocks = Mapped(SanitizeEach, m.blocks)
<1>1. /\ m \in Message /\ m.blocks \in Seq(BlocksOf(m.role)) /\ m.blocks \in Seq(ContentBlock)
      /\ m.plain \in BOOLEAN
  BY FitParts
<1>2. /\ SanitizeMessage(m) \in Message
      /\ SanitizeMessage(m).role = m.role /\ SanitizeMessage(m).plain = m.plain
  BY <1>1, SanitizeMessageTyped
<1>3. CASE m.plain
  BY <1>3 DEF SanitizeMessage
<1>4. CASE ~m.plain /\ m.role # "assistant"
  <2>1. m.blocks \in Seq(ClientBlock)
    BY <1>1, <1>4 DEF BlocksOf
  <2>2. ~Has(Thoughts, m.blocks)
    BY <2>1 DEF ClientBlock, Thoughts, Has
  <2>3. SanitizeMessage(m) = m
    BY <1>1, <2>2, SanitizedAlready
  <2>. QED BY <1>4, <2>3
<1>5. CASE ~m.plain /\ m.role = "assistant"
  <2>1. m.blocks \in Seq(ReplyBlock)
    BY <1>1, <1>5 DEF BlocksOf
  <2>2. \A i \in DOMAIN m.blocks : SanitizeEach[m.blocks[i]] = SanitizeBlock(m.blocks[i])
    BY <2>1 DEF SanitizeEach
  <2>3. SanitizeMessage(m).blocks = Mapped(SanitizeEach, m.blocks)
    BY <1>1, <1>5, <2>2 DEF SanitizeMessage, Mapped, Message
  <2>4. MapLaws(ReplyBlock, ReplyBlock, SanitizeEach)
    BY SanitizeEachTyped, MappedLaws
  <2>5. SanitizeMessage(m).blocks \in Seq(ReplyBlock)
    BY <2>1, <2>3, <2>4 DEF MapLaws
  <2>. QED BY <1>2, <1>5, <2>3, <2>5 DEF FitMessage, BlocksOf
<1>. QED BY <1>1, <1>3, <1>4, <1>5

LEMMA SanitizeIsImage ==
  /\ Sends(Clean, FitMessage, FitMessage)
  /\ \A m \in FitMessage : Clean[m] = SanitizeMessage(m)
  /\ \A h \in Seq(FitMessage) : Sanitize(h) = Image(Clean, h) /\ Sanitize(h) \in Seq(FitMessage)
<1>1. Sends(Clean, FitMessage, FitMessage)
  BY CleanTyped DEF Sends, Clean
<1>2. \A m \in FitMessage : Clean[m] = SanitizeMessage(m)
  BY DEF Clean
<1>3. ASSUME NEW h \in Seq(FitMessage)
      PROVE  Sanitize(h) = Image(Clean, h) /\ Sanitize(h) \in Seq(FitMessage)
  <2>1. \A i \in DOMAIN h : Clean[h[i]] = SanitizeMessage(h[i])
    BY <1>2
  <2>2. Sanitize(h) = Image(Clean, h)
    BY <2>1 DEF Sanitize, Image
  <2>. QED BY <1>1, <2>2, ImageTyped
<1>. QED BY <1>1, <1>2, <1>3

\* What is told by a conversation and by what is put behind it.
LEMMA ToldLaws ==
  /\ Told(<<>>) = <<>>
  /\ \A h \in Seq(FitMessage) : Told(h) \in Seq(Utterance)
  /\ \A h, r \in Seq(FitMessage) : Told(h \o r) = Told(h) \o Told(r)
  /\ \A m \in FitMessage : Told(<<m>>) = Image(ReadAs(m.role), SanitizeMessage(m).blocks)
<1>1. ImageLaws(FitMessage, FitMessage, Clean)
  BY SanitizeIsImage, Images
<1>2. MapLaws(FitMessage, Utterance, ReadM)
  BY ReadMTyped, MappedLaws
<1>3. ASSUME NEW h \in Seq(FitMessage)
      PROVE  Told(h) = Mapped(ReadM, Image(Clean, h)) /\ Image(Clean, h) \in Seq(FitMessage)
  BY SanitizeIsImage, ReadMapped DEF Told
<1>4. Told(<<>>) = <<>>
  BY <1>1, <1>2, <1>3, EmptySeq DEF ImageLaws, MapLaws
<1>5. \A h \in Seq(FitMessage) : Told(h) \in Seq(Utterance)
  BY <1>2, <1>3 DEF MapLaws
<1>6. ASSUME NEW h \in Seq(FitMessage), NEW r \in Seq(FitMessage)
      PROVE  Told(h \o r) = Told(h) \o Told(r)
  <2>1. h \o r \in Seq(FitMessage) /\ Image(Clean, h \o r) = Image(Clean, h) \o Image(Clean, r)
    BY <1>1, ConcatProperties DEF ImageLaws
  <2>2. \A p, q \in Seq(FitMessage) : Mapped(ReadM, p \o q) = Mapped(ReadM, p) \o Mapped(ReadM, q)
    BY <1>2 DEF MapLaws
  <2>3. Mapped(ReadM, Image(Clean, h) \o Image(Clean, r)) = Mapped(ReadM, Image(Clean, h)) \o Mapped(ReadM, Image(Clean, r))
    BY <1>3, <2>2
  <2>. QED BY <1>3, <2>1, <2>3
<1>7. ASSUME NEW m \in FitMessage
      PROVE  Told(<<m>>) = Image(ReadAs(m.role), SanitizeMessage(m).blocks)
  <2>1. <<m>> \in Seq(FitMessage) /\ Image(Clean, <<m>>) = <<SanitizeMessage(m)>>
    BY <1>1, SanitizeIsImage, SeqSteps DEF ImageLaws, SeqLaws
  <2>2. SanitizeMessage(m) \in FitMessage /\ SanitizeMessage(m).role = m.role
    BY CleanTyped
  <2>3. Mapped(ReadM, <<SanitizeMessage(m)>>) = ReadM[SanitizeMessage(m)]
    BY <1>2, <2>2 DEF MapLaws
  <2>. QED BY <1>3, <2>1, <2>2, <2>3, ReadMTyped
<1>. QED BY <1>4, <1>5, <1>6, <1>7

-----------------------------------------------------------------------------
\* What the blocks of a reply say.
BlockSays(b) ==
  IF b.type = "tool_use" THEN <<Event("model", "call", b.text, <<>>)>>
  ELSE IF b.type = "thinking" /\ ValidThinking(b)
  THEN <<Event("model", "thought", b.text, <<>>)>>
  ELSE WordEvents("model", b.text)
EachSays == [b \in ReplyBlock |-> BlockSays(b)]
BlocksSay(bs) == Mapped(EachSays, bs)
ReadReply == [b \in ReplyBlock |-> ReadBlock("assistant", b)]

LEMMA EachSaysTyped ==
  /\ Maps(EachSays, ReplyBlock, SaidEvent)
  /\ \A b \in ReplyBlock : EachSays[b] = BlockSays(b)
<1>1. ASSUME NEW b \in ReplyBlock
      PROVE  BlockSays(b) \in Seq(SaidEvent)
  <2>1. b.text \in Text /\ <<>> \in Text
    BY BlockParts, EmptySeq DEF ReplyBlock, Text
  <2>2. Event("model", "call", b.text, <<>>) \in SaidEvent /\ Event("model", "thought", b.text, <<>>) \in SaidEvent
    BY <2>1, EventTyped DEF Side
  <2>3. /\ <<Event("model", "call", b.text, <<>>)>> \in Seq(SaidEvent)
        /\ <<Event("model", "thought", b.text, <<>>)>> \in Seq(SaidEvent)
        /\ WordEvents("model", b.text) \in Seq(SaidEvent)
    BY <2>1, <2>2, SeqSteps, WordEventsTyped DEF SeqLaws
  <2>. QED BY <2>3 DEF BlockSays
<1>. QED BY <1>1 DEF Maps, EachSays

LEMMA ReadReplyTyped ==
  /\ Sends(ReadReply, ReplyBlock, Silent)
  /\ \A b \in ReplyBlock : ReadReply[b] = ReadBlock("assistant", b)
<1>1. ASSUME NEW b \in ReplyBlock
      PROVE  ReadBlock("assistant", b) \in Silent
  <2>1. b \in ContentBlock /\ b.type \in {"text", "thinking", "tool_use"}
    BY DEF ReplyBlock
  <2>2. ReadBlock("assistant", b) \in Utterance
    BY <2>1, ReadBlockIs
  <2>3. ReadBlock("assistant", b).kind # "result"
    BY <2>1 DEF ReadBlock, Utter
  <2>. QED BY <2>2, <2>3 DEF Silent
<1>. QED BY <1>1 DEF Sends, ReadReply

\* What is read in one block, and what it means.
LEMMA ReplyBlockMeans ==
  ASSUME NEW b \in ReplyBlock
  PROVE  Plain[ReadReply[b]] = IF b.type = "text" THEN WordEvents("model", b.text)
                               ELSE IF b.type = "tool_use" THEN <<Event("model", "call", b.text, <<>>)>>
                               ELSE <<Event("model", "thought", b.text, <<>>)>>
<1>1. b \in ContentBlock /\ b.type \in {"text", "thinking", "tool_use"}
  BY DEF ReplyBlock
<1>2. ReadReply[b] \in Silent /\ ReadReply[b] = ReadBlock("assistant", b)
  BY ReadReplyTyped DEF Sends
<1>3. Plain[ReadReply[b]] = IF ReadReply[b].kind = "words" THEN WordEvents(ReadReply[b].side, ReadReply[b].text)
        ELSE <<Event(ReadReply[b].side, ReadReply[b].kind, ReadReply[b].text, <<>>)>>
  BY <1>2, PlainTyped
<1>4. CASE b.type = "text"
  <2>1. ReadReply[b] = Utter("model", "words", b.text, NoId)
    BY <1>1, <1>2, <1>4, ReadBlockIs DEF SideOf
  <2>. QED BY <1>3, <1>4, <2>1 DEF Utter
<1>5. CASE b.type = "tool_use"
  <2>1. ReadReply[b] = Utter("model", "call", b.text, b.id)
    BY <1>1, <1>2, <1>5, ReadBlockIs
  <2>. QED BY <1>3, <1>5, <2>1 DEF Utter
<1>6. CASE b.type = "thinking"
  <2>1. ReadReply[b] = Utter("model", "thought", b.text, NoId)
    BY <1>1, <1>2, <1>6, ReadBlockIs
  <2>. QED BY <1>3, <1>6, <2>1 DEF Utter
<1>. QED BY <1>1, <1>4, <1>5, <1>6

LEMMA ReplyTold ==
  ASSUME NEW bs \in Seq(ReplyBlock)
  PROVE  LET u == Image(ReadAs("assistant"), Mapped(SanitizeEach, bs))
         IN  u \in Seq(Silent) /\ Mapped(Plain, u) = BlocksSay(bs)
<1> DEFINE clean == Mapped(SanitizeEach, bs)
           means == Then(ReplyBlock, Ones(ReplyBlock, ReadReply), Plain)
           whole == Then(ReplyBlock, SanitizeEach, means)
<1>1. MapLaws(ReplyBlock, ReplyBlock, SanitizeEach)
  BY SanitizeEachTyped, MappedLaws
<1>2. clean \in Seq(ReplyBlock)
  BY <1>1 DEF MapLaws
<1>3. Image(ReadAs("assistant"), clean) = Image(ReadReply, clean)
  <2>1. \A i \in DOMAIN clean : clean[i] \in ReplyBlock
    BY <1>2
  <2>2. \A b \in ReplyBlock : ReadAs("assistant")[b] = ReadReply[b]
    BY ReadAsTyped, ReadReplyTyped DEF ReplyBlock
  <2> HIDE DEF clean
  <2>. QED BY <2>1, <2>2 DEF Image
<1>4. Image(ReadReply, clean) \in Seq(Silent)
  BY <1>2, ReadReplyTyped, ImageTyped
<1>5. Maps(Ones(ReplyBlock, ReadReply), ReplyBlock, Silent)
      /\ \A b \in ReplyBlock : Ones(ReplyBlock, ReadReply)[b] = <<ReadReply[b]>>
  BY ReadReplyTyped, OnesTyped
<1>6. Image(ReadReply, clean) = Mapped(Ones(ReplyBlock, ReadReply), clean)
  BY <1>2, ReadReplyTyped, ImageIsMapped
<1>7. Maps(Plain, Silent, SaidEvent)
  BY PlainTyped
<1>8. Mapped(Plain, Mapped(Ones(ReplyBlock, ReadReply), clean)) = Mapped(means, clean)
  BY <1>2, <1>5, <1>7, MappedMapped
<1>9. Maps(means, ReplyBlock, SaidEvent)
  BY <1>5, <1>7, ThenTyped
<1>10. Mapped(means, clean) = Mapped(whole, bs)
  BY <1>9, SanitizeEachTyped, MappedMapped
<1>11. ASSUME NEW b \in ReplyBlock
       PROVE  means[b] = Plain[ReadReply[b]]
  <2>1. MapLaws(Silent, SaidEvent, Plain)
    BY <1>7, MappedLaws
  <2>2. ReadReply[b] \in Silent
    BY ReadReplyTyped DEF Sends
  <2>3. Mapped(Plain, <<ReadReply[b]>>) = Plain[ReadReply[b]]
    BY <2>1, <2>2 DEF MapLaws
  <2>. QED BY <1>5, <2>3 DEF Then
<1>12. ASSUME NEW b \in ReplyBlock
       PROVE  whole[b] = EachSays[b]
  <2>1. whole[b] = Mapped(means, SanitizeBlock(b))
    BY SanitizeEachTyped DEF Then
  <2>2. MapLaws(ReplyBlock, SaidEvent, means)
    BY <1>9, MappedLaws
  <2>3. b \in ContentBlock /\ b.type \in {"text", "thinking", "tool_use"} /\ b.text \in Text
    BY BlockParts DEF ReplyBlock
  <2>4. EachSays[b] = BlockSays(b)
    BY EachSaysTyped
  <2> HIDE DEF whole, means
  <2>5. CASE b.type # "thinking" \/ ValidThinking(b)
    <3>1. SanitizeBlock(b) = <<b>>
      BY <2>5 DEF SanitizeBlock
    <3>2. Mapped(means, <<b>>) = means[b]
      BY <2>2 DEF MapLaws
    <3>. QED BY <1>11, <2>1, <2>3, <2>4, <2>5, <3>1, <3>2, ReplyBlockMeans DEF BlockSays
  <2>6. CASE b.type = "thinking" /\ ~ValidThinking(b) /\ b.text = <<>>
    <3>1. SanitizeBlock(b) = <<>>
      BY <2>6 DEF SanitizeBlock
    <3>2. Mapped(means, <<>>) = <<>>
      BY <2>2 DEF MapLaws
    <3>3. WordEvents("model", <<>>) = <<>>
      BY WordEventsConcat DEF Side
    <3>. QED BY <2>1, <2>4, <2>6, <3>1, <3>2, <3>3 DEF BlockSays
  <2>7. CASE b.type = "thinking" /\ ~ValidThinking(b) /\ b.text # <<>>
    <3> DEFINE c == TextBlock(b.text)
    <3>1. SanitizeBlock(b) = <<c>>
      BY <2>7 DEF SanitizeBlock
    <3>2. c \in ContentBlock /\ c.type = "text" /\ c.text = b.text
      BY <2>3, TextBlocksTyped DEF TextBlock, Block
    <3>3. c \in ReplyBlock
      BY <3>2 DEF ReplyBlock
    <3> HIDE DEF c
    <3>4. Mapped(means, <<c>>) = means[c]
      BY <2>2, <3>3 DEF MapLaws
    <3>5. means[c] = WordEvents("model", b.text)
      BY <1>11, <3>2, <3>3, ReplyBlockMeans
    <3>. QED BY <2>1, <2>4, <2>7, <3>1, <3>4, <3>5 DEF BlockSays
  <2>. QED BY <2>5, <2>6, <2>7
<1>13. Mapped(whole, bs) = Mapped(EachSays, bs)
  <2> HIDE DEF whole
  <2>. QED BY <1>12, MappedAgree
<1>. QED BY <1>3, <1>4, <1>6, <1>8, <1>10, <1>13 DEF BlocksSay

\* A reply that is held tells what its blocks say.
LEMMA ReplyAppended ==
  ASSUME NEW h \in Seq(FitMessage), NEW bs \in Seq(ReplyBlock)
  PROVE  LET m == BlockMessage("assistant", bs)
         IN  /\ m \in FitMessage
             /\ EventsOf(Told(Append(h, m))) = EventsOf(Told(h)) \o BlocksSay(bs)
<1> DEFINE m == BlockMessage("assistant", bs)
           one == <<m>>
<1>1. bs \in Seq(ContentBlock)
  BY DEF ReplyBlock
<1>2. m \in Message /\ m.role = "assistant" /\ m.blocks = bs /\ ~m.plain
  BY <1>1, BlockMessageTyped DEF Role, BlockMessage
<1>3. m \in FitMessage
  BY <1>2 DEF FitMessage, BlocksOf
<1> HIDE DEF m
<1>4. Append(h, m) = h \o one /\ one \in Seq(FitMessage)
  BY <1>3, SeqSteps DEF SeqLaws
<1>5. Told(one) = Image(ReadAs("assistant"), Mapped(SanitizeEach, bs))
  BY <1>2, <1>3, ToldLaws, CleanTyped
<1> HIDE DEF one
<1>6. Told(h \o one) = Told(h) \o Told(one) /\ Told(h) \in Seq(Utterance)
  BY <1>4, ToldLaws
<1>7. Told(one) \in Seq(Silent) /\ Mapped(Plain, Told(one)) = BlocksSay(bs)
  BY <1>5, ReplyTold
<1>8. EventsOf(Told(h) \o Told(one)) = EventsOf(Told(h)) \o Mapped(Plain, Told(one))
  BY <1>6, <1>7, EventsOfSilent
<1>. QED BY <1>3, <1>4, <1>6, <1>7, <1>8 DEF m

-----------------------------------------------------------------------------
(* What the client's messages tell.                                        *)

\* Words and pictures, whatever role they have.
LEMMA PartsSay ==
  ASSUME NEW role, role # "assistant", NEW bs \in Seq(Parts)
  PROVE  LET u == Image(ReadAs(role), bs)
         IN  /\ u \in Seq(Silent) /\ FlattenSeq(TextsOf(bs)) \in Text
             /\ Mapped(Plain, u) = WordEvents("user", FlattenSeq(TextsOf(bs)))
<1> DEFINE U(s) == Image(ReadAs(role), s)
           W(s) == FlattenSeq(TextsOf(s))
           T == {s \in Seq(Parts) :
                   /\ U(s) \in Seq(Silent) /\ W(s) \in Text
                   /\ Mapped(Plain, U(s)) = WordEvents("user", W(s))}
<1>1. /\ MapLaws(Silent, SaidEvent, Plain) /\ ImageLaws(ContentBlock, Utterance, ReadAs(role))
      /\ SeqLaws(Silent) /\ SeqLaws(Parts)
  BY PlainTyped, MappedLaws, ReadAsTyped, Images, SeqSteps
<1>2. \A b \in Parts : /\ b \in ContentBlock /\ b.type \in {"text", "image"} /\ b.text \in Text
  BY BlockParts DEF Parts, IsPart
<1>3. "user" \in Side /\ SideOf(role) = "user"
  BY DEF Side, SideOf
<1>4. <<>> \in T
  <2>1. U(<<>>) = <<>> /\ Mapped(Plain, <<>>) = <<>>
    BY <1>1 DEF ImageLaws, MapLaws
  <2>2. W(<<>>) = <<>> /\ WordEvents("user", <<>>) = <<>>
    BY <1>2, <1>3, TextsProperties, WordEventsConcat
  <2>3. <<>> \in Seq(Parts) /\ <<>> \in Seq(Silent) /\ <<>> \in Text
    BY EmptySeq DEF Text
  <2> HIDE DEF U, W
  <2>. QED BY <2>1, <2>2, <2>3
<1>5. ASSUME NEW s \in Seq(Parts), NEW b \in Parts, s \in T
      PROVE  Append(s, b) \in T
  <2>1. /\ U(s) \in Seq(Silent) /\ W(s) \in Text
        /\ Mapped(Plain, U(s)) = WordEvents("user", W(s))
    BY <1>5
  <2> DEFINE x == ReadBlock(role, b)
             t == Append(s, b)
  <2>2. b \in ContentBlock /\ s \in Seq(ContentBlock) /\ b.text \in Text
        /\ b.type \in {"text", "image"} /\ t \in Seq(Parts)
    BY <1>1, <1>2 DEF Parts, SeqLaws
  <2>3. U(t) = Append(U(s), x)
    <3>1. Image(ReadAs(role), Append(s, b)) = Append(U(s), ReadAs(role)[b])
      BY <2>2, ReadAsTyped, ImageOfAppend
    <3>. QED BY <2>2, <3>1, ReadAsTyped
  <2>4. x = Utter("user", "words", b.text, NoId) /\ x \in Utterance
    BY <1>3, <2>2, ReadBlockIs
  <2>5. x.kind = "words" /\ x.side = "user" /\ x.text = b.text
    BY <2>4 DEF Utter
  <2>6. x \in Silent
    BY <2>4, <2>5 DEF Silent
  <2> HIDE DEF x, U
  <2>7. Plain[x] = WordEvents("user", b.text)
    BY <2>5, <2>6, PlainTyped
  <2>8. Append(U(s), x) \in Seq(Silent)
        /\ Mapped(Plain, Append(U(s), x)) = Mapped(Plain, U(s)) \o Plain[x]
    BY <1>1, <2>1, <2>6 DEF MapLaws, SeqLaws
  <2>9. W(t) = W(s) \o b.text
    <3>1. t = s \o <<b>> /\ <<b>> \in Seq(Parts)
      BY <1>1 DEF SeqLaws
    <3>2. \A p, q \in Seq(Parts) : W(p \o q) = W(p) \o W(q)
      BY <1>2, TextsProperties
    <3>3. W(<<b>>) = b.text
      BY <1>2, TextsProperties
    <3> HIDE DEF W, t
    <3>. QED BY <3>1, <3>2, <3>3
  <2> HIDE DEF W
  <2>10. W(t) \in Text
    BY <2>1, <2>2, <2>9, ConcatProperties DEF Text
  <2>11. WordEvents("user", W(s) \o b.text) = WordEvents("user", W(s)) \o WordEvents("user", b.text)
    BY <1>3, <2>1, <2>2, WordEventsConcat
  <2> HIDE DEF t
  <2>12. Mapped(Plain, U(t)) = WordEvents("user", W(t)) /\ U(t) \in Seq(Silent)
    BY <2>1, <2>3, <2>7, <2>8, <2>9, <2>11
  <2>. QED BY <2>2, <2>10, <2>12 DEF t
<1> HIDE DEF T
<1>6. Seq(Parts) \subseteq T
  BY <1>4, <1>5, SequenceInduction
<1>. QED BY <1>6 DEF T

\* A message of the client's in words.
LEMMA WordsAppended ==
  ASSUME NEW h \in Seq(FitMessage), NEW m \in Message, m.role # "assistant",
         m.plain => m.blocks[1].type = "text", m.blocks \in Seq(Parts)
  PROVE  /\ m \in FitMessage /\ <<m>> \in Seq(FitMessage) /\ h \o <<m>> \in Seq(FitMessage)
         /\ FlattenSeq(TextsOf(m.blocks)) \in Text
         /\ EventsOf(Told(h \o <<m>>))
              = EventsOf(Told(h)) \o WordEvents("user", FlattenSeq(TextsOf(m.blocks)))
<1> DEFINE one == <<m>>
<1>1. m.blocks \in Seq(ClientBlock)
  <2>1. \A b \in Parts : b \in ClientBlock
    BY DEF Parts, IsPart, ClientBlock
  <2>. QED BY <2>1
<1>2. m \in FitMessage
  BY <1>1 DEF FitMessage, BlocksOf
<1>3. one \in Seq(FitMessage)
  BY <1>2, SeqSteps DEF SeqLaws
<1>4. Told(one) = Image(ReadAs(m.role), m.blocks)
  BY <1>2, CleanTyped, ToldLaws
<1> HIDE DEF one
<1>5. /\ Told(one) \in Seq(Silent) /\ FlattenSeq(TextsOf(m.blocks)) \in Text
      /\ Mapped(Plain, Told(one)) = WordEvents("user", FlattenSeq(TextsOf(m.blocks)))
  BY <1>4, PartsSay
<1>6. Told(h \o one) = Told(h) \o Told(one) /\ Told(h) \in Seq(Utterance)
  BY <1>3, ToldLaws
<1>7. EventsOf(Told(h) \o Told(one)) = EventsOf(Told(h)) \o Mapped(Plain, Told(one))
  BY <1>5, <1>6, EventsOfSilent
<1>8. h \o one \in Seq(FitMessage)
  BY <1>3, ConcatProperties
<1>. QED BY <1>2, <1>3, <1>5, <1>6, <1>7, <1>8 DEF one

LEMMA StringAppended ==
  ASSUME NEW h \in Seq(FitMessage), NEW role \in {"user", "system"}, NEW s \in Text
  PROVE  LET m == StringMessage(role, s)
         IN  /\ m \in FitMessage /\ <<m>> \in Seq(FitMessage) /\ h \o <<m>> \in Seq(FitMessage)
             /\ EventsOf(Told(h \o <<m>>)) = EventsOf(Told(h)) \o WordEvents("user", s)
<1> DEFINE m == StringMessage(role, s)
           b == TextBlock(s)
<1>1. m \in Message /\ m.role = role
  BY StringMessageTyped DEF Role
<1>2. b \in ContentBlock /\ b.type = "text" /\ b.text = s
  BY TextBlocksTyped DEF TextBlock, Block
<1>3. m.blocks = <<b>>
  BY DEF StringMessage
<1> HIDE DEF m, b
<1>4. b \in Parts
  BY <1>2 DEF Parts, IsPart
<1>5. m.blocks \in Seq(Parts) /\ m.blocks[1].type = "text"
  BY <1>2, <1>3, <1>4
<1>6. FlattenSeq(TextsOf(<<b>>)) = s
  <2>1. \A c \in Parts : c.text \in Text
    BY BlockParts DEF Parts
  <2>. QED BY <1>2, <1>4, <2>1, TextsProperties
<1>7. m.role # "assistant"
  BY <1>1
<1>. QED BY <1>1, <1>3, <1>5, <1>6, <1>7, WordsAppended DEF m

LEMMA PairIsConcat ==
  ASSUME NEW a, NEW b
  PROVE  <<a, b>> = <<a>> \o <<b>>
<1> DEFINE D == {a, b}
<1>1. a \in D /\ b \in D
  OBVIOUS
<1> HIDE DEF D
<1>2. Append(<<a>>, b) = <<a, b>>
  <2> DEFINE s == Append(<<a>>, b)
             t == <<a, b>>
  <2>1. <<a>> \in Seq(D) /\ t \in Seq(D) /\ Len(t) = 2 /\ t[1] = a /\ t[2] = b
    BY <1>1
  <2>2. s \in Seq(D) /\ Len(s) = 2 /\ s[1] = a /\ s[2] = b
    BY <1>1, <2>1, AppendProperties
  <2> HIDE DEF s, t
  <2>3. \A i \in 1..Len(s) : s[i] = t[i]
    BY <2>1, <2>2
  <2>4. s = t
    BY <2>1, <2>2, <2>3, SeqEqual
  <2>. QED BY <2>4 DEF s, t
<1>3. Append(<<a>>, b) = <<a>> \o <<b>>
  BY <1>1, SeqSteps DEF SeqLaws
<1>. QED BY <1>2, <1>3

\* Blocks, text or image, one or two.
LEMMA PairAppended ==
  ASSUME NEW h \in Seq(FitMessage), NEW s \in Text, NEW p \in Text
  PROVE  LET m == BlockMessage("user", <<ImageBlock(p), TextBlock(s)>>)
             n == BlockMessage("system", <<TextBlock(s)>>)
         IN  /\ m \in FitMessage /\ <<m>> \in Seq(FitMessage) /\ h \o <<m>> \in Seq(FitMessage)
             /\ n \in FitMessage /\ <<n>> \in Seq(FitMessage) /\ h \o <<n>> \in Seq(FitMessage)
             /\ EventsOf(Told(h \o <<m>>)) = EventsOf(Told(h)) \o WordEvents("user", p \o s)
             /\ EventsOf(Told(h \o <<n>>)) = EventsOf(Told(h)) \o WordEvents("user", s)
<1> DEFINE c == ImageBlock(p)
           b == TextBlock(s)
           m == BlockMessage("user", <<c, b>>)
           n == BlockMessage("system", <<b>>)
<1>1. /\ b \in ContentBlock /\ b.type = "text" /\ b.text = s
      /\ c \in ContentBlock /\ c.type = "image" /\ c.text = p
  BY TextBlocksTyped DEF TextBlock, ImageBlock, Block
<1>2. m.blocks = <<c, b>> /\ n.blocks = <<b>> /\ ~m.plain /\ ~n.plain
  BY DEF BlockMessage
<1> HIDE DEF b, c
<1>3. b \in Parts /\ c \in Parts
  BY <1>1 DEF Parts, IsPart
<1>4. <<c, b>> \in Seq(Parts) /\ <<b>> \in Seq(Parts) /\ <<c>> \in Seq(Parts)
  BY <1>3
<1>5. <<c, b>> \in Seq(ContentBlock) /\ <<b>> \in Seq(ContentBlock)
  BY <1>1
<1>6. /\ m \in Message /\ m.role = "user" /\ n \in Message /\ n.role = "system"
  BY <1>5, BlockMessageTyped DEF Role
<1>7. FlattenSeq(TextsOf(<<b>>)) = s /\ FlattenSeq(TextsOf(<<c, b>>)) = p \o s
  <2>1. \A x \in Parts : x.text \in Text
    BY BlockParts DEF Parts
  <2>2. \A x \in Parts : FlattenSeq(TextsOf(<<x>>)) = x.text
    BY <2>1, TextsProperties
  <2>3. \A q, r \in Seq(Parts) :
          FlattenSeq(TextsOf(q \o r)) = FlattenSeq(TextsOf(q)) \o FlattenSeq(TextsOf(r))
    BY <2>1, TextsProperties
  <2>4. FlattenSeq(TextsOf(<<c>> \o <<b>>)) = FlattenSeq(TextsOf(<<c>>)) \o FlattenSeq(TextsOf(<<b>>))
    BY <1>4, <2>3
  <2>5. <<c, b>> = <<c>> \o <<b>>
    BY PairIsConcat
  <2>. QED BY <1>1, <1>3, <2>2, <2>4, <2>5
<1> HIDE DEF m, n
<1>8. /\ m \in FitMessage /\ <<m>> \in Seq(FitMessage) /\ h \o <<m>> \in Seq(FitMessage)
      /\ EventsOf(Told(h \o <<m>>))
              = EventsOf(Told(h)) \o WordEvents("user", FlattenSeq(TextsOf(m.blocks)))
  BY <1>2, <1>4, <1>6, WordsAppended
<1>9. /\ n \in FitMessage /\ <<n>> \in Seq(FitMessage) /\ h \o <<n>> \in Seq(FitMessage)
      /\ EventsOf(Told(h \o <<n>>))
              = EventsOf(Told(h)) \o WordEvents("user", FlattenSeq(TextsOf(n.blocks)))
  BY <1>2, <1>4, <1>6, WordsAppended
<1>. QED BY <1>2, <1>7, <1>8, <1>9 DEF m, n, b, c

-----------------------------------------------------------------------------
(* Calls and results, in the order of the conversation.                    *)

Exchanged(h) == Selected(Exchange, Told(h))
CallsIn(bs) == Image(UseAsCall, OfType(bs, "tool_use"))
ResultsIn(bs) == Image(ResultAsHeard, OfType(bs, "tool_result"))
MessageExchange(m) == IF m.role = "assistant" THEN CallsIn(m.blocks) ELSE ResultsIn(m.blocks)

LEMMA TrackExchange ==
  ASSUME NEW u \in Seq(Utterance)
  PROVE  Track(Exchange, u) = Selected(Exchange, u)
<1>1. Selected(Exchange, Mapped(SplitUp, u))
        = Mapped([x \in Utterance |-> Selected(Exchange, SplitUp[x])], u)
  BY SplitUpTyped, SelectedMapped
<1>2. ASSUME NEW x \in Utterance
      PROVE  Selected(Exchange, SplitUp[x]) = IF x \in Exchange THEN <<x>> ELSE <<>>
  <2>1. x.side \in Side /\ x.text \in Text
    BY UtteranceParts
  <2>2. CASE x.kind = "words"
    <3>1. SplitUp[x] = Split(x.side, x.text)
      BY <2>2, SplitUpTyped
    <3>2. Selected(Exchange, Split(x.side, x.text)) = <<>>
      BY <2>1, TracksOfWords
    <3>3. x \notin Exchange
      BY <2>2 DEF Exchange
    <3>. QED BY <3>1, <3>2, <3>3
  <2>3. CASE x.kind # "words"
    <3>1. SplitUp[x] = <<x>>
      BY <2>3, SplitUpTyped
    <3>2. SelectLaws(Utterance, Exchange)
      BY SelectedLaws
    <3>. QED BY <3>1, <3>2 DEF SelectLaws
  <2>. QED BY <2>2, <2>3
<1>3. [x \in Utterance |-> Selected(Exchange, SplitUp[x])] = Taking(Utterance, Exchange)
  BY <1>2 DEF Taking
<1>4. Selected(Exchange, u) = Mapped(Taking(Utterance, Exchange), u)
  BY SelectedIsMapped
<1>. QED BY <1>1, <1>3, <1>4 DEF Track, Fragments

LEMMA CleanUses ==
  ASSUME NEW bs \in Seq(ReplyBlock)
  PROVE  OfType(Mapped(SanitizeEach, bs), "tool_use") = OfType(bs, "tool_use")
<1> DEFINE T == {s \in Seq(ReplyBlock) :
                   OfType(Mapped(SanitizeEach, s), "tool_use") = OfType(s, "tool_use")}
<1>1. MapLaws(ReplyBlock, ReplyBlock, SanitizeEach)
  BY SanitizeEachTyped, MappedLaws
<1>2. <<>> \in T
  BY <1>1, EmptySeq DEF MapLaws
<1>3. ASSUME NEW s \in Seq(ReplyBlock), NEW b \in ReplyBlock, s \in T
      PROVE  Append(s, b) \in T
  <2>1. OfType(Mapped(SanitizeEach, s), "tool_use") = OfType(s, "tool_use")
    BY <1>3
  <2>2. b \in ContentBlock /\ s \in Seq(ContentBlock)
    BY DEF ReplyBlock
  <2>3. /\ Mapped(SanitizeEach, Append(s, b)) = Mapped(SanitizeEach, s) \o SanitizeBlock(b)
        /\ Mapped(SanitizeEach, s) \in Seq(ReplyBlock)
    BY <1>1, SanitizeEachTyped DEF MapLaws
  <2>4. SanitizeBlock(b) \in Seq(ContentBlock) /\ OfType(SanitizeBlock(b), "tool_use") = OfType(<<b>>, "tool_use")
    <3>1. OfType(<<b>>, "tool_use") = IF b.type = "tool_use" THEN <<b>> ELSE <<>>
      BY <2>2, OfTypeProperties
    <3>2. CASE SanitizeBlock(b) = <<b>>
      BY <2>2, <3>2, SeqSteps DEF SeqLaws
    <3>3. CASE SanitizeBlock(b) = <<>> /\ b.type = "thinking"
      BY <3>1, <3>3, OfTypeProperties, EmptySeq
    <3>4. CASE SanitizeBlock(b) = <<TextBlock(b.text)>> /\ b.type = "thinking"
      <4>1. TextBlock(b.text) \in ContentBlock /\ TextBlock(b.text).type = "text"
        BY <2>2, BlockParts, TextBlocksTyped DEF TextBlock, Block
      <4>2. OfType(<<TextBlock(b.text)>>, "tool_use") = <<>>
        BY <4>1, OfTypeProperties
      <4>3. <<TextBlock(b.text)>> \in Seq(ContentBlock)
        BY <4>1, SeqSteps DEF SeqLaws
      <4>. QED BY <3>1, <3>4, <4>2, <4>3
    <3>. QED BY <3>2, <3>3, <3>4 DEF SanitizeBlock
  <2>5. Mapped(SanitizeEach, s) \in Seq(ContentBlock)
    BY <2>3 DEF ReplyBlock
  <2>6. \A p, q \in Seq(ContentBlock) :
          OfType(p \o q, "tool_use") = OfType(p, "tool_use") \o OfType(q, "tool_use")
    BY OfTypeProperties
  <2>7. OfType(Mapped(SanitizeEach, s) \o SanitizeBlock(b), "tool_use")
          = OfType(s, "tool_use") \o OfType(<<b>>, "tool_use")
    BY <2>1, <2>4, <2>5, <2>6
  <2>8. OfType(<<b>>, "tool_use") = IF b.type = "tool_use" THEN <<b>> ELSE <<>>
    BY <2>2, OfTypeProperties
  <2>9. OfType(Append(s, b), "tool_use") = OfType(s, "tool_use") \o (IF b.type = "tool_use" THEN <<b>> ELSE <<>>)
    BY <2>2, OfTypeAppend
  <2>10. Append(s, b) \in Seq(ReplyBlock)
    BY AppendProperties
  <2> HIDE DEF T
  <2>. QED BY <2>3, <2>7, <2>8, <2>9, <2>10 DEF T
<1> HIDE DEF T
<1>4. Seq(ReplyBlock) \subseteq T
  BY <1>2, <1>3, SequenceInduction
<1>. QED BY <1>4 DEF T

LEMMA InTyped ==
  ASSUME NEW bs \in Seq(ContentBlock)
  PROVE  CallsIn(bs) \in Seq(Exchange) /\ ResultsIn(bs) \in Seq(Exchange)
<1>1. OfType(bs, "tool_use") \in Seq(Uses) /\ OfType(bs, "tool_result") \in Seq(Results)
  BY OfTypeProperties DEF Uses, Results
<1>. QED BY <1>1, UsesTyped, ImageTyped DEF CallsIn, ResultsIn

\* What a message contributes.
LEMMA ExchangedLaws ==
  /\ Exchanged(<<>>) = <<>>
  /\ \A h \in Seq(FitMessage) : Exchanged(h) \in Seq(Exchange) /\ Exchanged(h) \in Seq(Utterance)
  /\ \A h, r \in Seq(FitMessage) : Exchanged(h \o r) = Exchanged(h) \o Exchanged(r)
  /\ \A m \in FitMessage : Exchanged(<<m>>) = MessageExchange(m)
<1>1. SelectLaws(Utterance, Exchange)
  BY SelectedLaws
<1>2. Exchanged(<<>>) = <<>>
  BY <1>1, ToldLaws DEF Exchanged, SelectLaws
<1>3. ASSUME NEW h \in Seq(FitMessage)
      PROVE  Exchanged(h) \in Seq(Exchange) /\ Exchanged(h) \in Seq(Utterance)
  <2>1. Told(h) \in Seq(Utterance)
    BY ToldLaws
  <2>2. Exchange \in SUBSET Utterance
    BY DEF Exchange
  <2>. QED BY <2>1, <2>2, SelectedProperties DEF Exchanged
<1>4. ASSUME NEW h \in Seq(FitMessage), NEW r \in Seq(FitMessage)
      PROVE  Exchanged(h \o r) = Exchanged(h) \o Exchanged(r)
  <2>1. Told(h) \in Seq(Utterance) /\ Told(r) \in Seq(Utterance) /\ Told(h \o r) = Told(h) \o Told(r)
    BY ToldLaws
  <2>. QED BY <1>1, <2>1 DEF Exchanged, SelectLaws
<1>5. ASSUME NEW m \in FitMessage
      PROVE  Exchanged(<<m>>) = MessageExchange(m)
  <2> DEFINE clean == SanitizeMessage(m).blocks
             u == Image(ReadAs(m.role), clean)
  <2>1. Told(<<m>>) = u
    BY ToldLaws
  <2>2. /\ SanitizeMessage(m) \in FitMessage /\ SanitizeMessage(m).role = m.role
        /\ m.blocks \in Seq(BlocksOf(m.role))
    BY CleanTyped, FitParts
  <2>3. clean \in Seq(BlocksOf(m.role))
    BY <2>2, FitParts
  <2>4. CASE m.role = "assistant"
    <3>1. clean \in Seq(ReplyBlock) /\ m.blocks \in Seq(ReplyBlock)
      BY <2>2, <2>3, <2>4 DEF BlocksOf
    <3>2. u \in Seq(Utterance) /\ Track(Exchange, u) = CallsIn(clean)
      BY <2>4, <3>1, AssistantTracks DEF CallsIn
    <3>3. OfType(clean, "tool_use") = OfType(m.blocks, "tool_use")
      <4>1. CASE m.plain
        BY <4>1, CleanTyped
      <4>2. CASE ~m.plain
        BY <2>4, <3>1, <4>2, CleanTyped, CleanUses
      <4>. QED BY <4>1, <4>2
    <3> HIDE DEF u
    <3>4. Selected(Exchange, u) = CallsIn(clean)
      BY <3>2, TrackExchange
    <3>. QED BY <2>1, <2>4, <3>3, <3>4 DEF Exchanged, CallsIn, MessageExchange
  <2>5. CASE m.role # "assistant"
    <3>1. clean \in Seq(ClientBlock)
      BY <2>3, <2>5 DEF BlocksOf
    <3>2. u \in Seq(Utterance) /\ Track(Exchange, u) = ResultsIn(clean)
      BY <2>5, <3>1, ClientTracks DEF ResultsIn
    <3>3. clean = m.blocks
      BY <2>5, CleanTyped
    <3> HIDE DEF u
    <3>4. Selected(Exchange, u) = ResultsIn(clean)
      BY <3>2, TrackExchange
    <3>. QED BY <2>1, <2>5, <3>3, <3>4 DEF Exchanged, MessageExchange
  <2>. QED BY <2>4, <2>5
<1>. QED BY <1>2, <1>3, <1>4, <1>5

-----------------------------------------------------------------------------
\* The last call with an id is among the calls that are exchanged.
LEMMA CalledExchanged ==
  ASSUME NEW u \in Seq(Utterance), NEW id
  PROVE  Called(Selected(Exchange, u), id) = Called(u, id)
<1> DEFINE T == {v \in Seq(Utterance) : Called(Selected(Exchange, v), id) = Called(v, id)}
<1>1. SelectLaws(Utterance, Exchange)
  BY SelectedLaws
<1>2. <<>> \in T
  BY <1>1, EmptySeq DEF SelectLaws
<1>3. ASSUME NEW v \in Seq(Utterance), NEW x \in Utterance, v \in T
      PROVE  Append(v, x) \in T
  <2> DEFINE w == Selected(Exchange, v)
  <2>1. Called(w, id) = Called(v, id)
    BY <1>3
  <2>2. w \in Seq(Utterance) /\ Append(v, x) \in Seq(Utterance)
    BY <1>1, AppendProperties DEF SelectLaws
  <2>3. Selected(Exchange, Append(v, x)) = w \o (IF x \in Exchange THEN <<x>> ELSE <<>>)
    BY <1>1 DEF SelectLaws
  <2> HIDE DEF w, T
  <2>4. w \o <<x>> = Append(w, x) /\ w \o <<>> = w
    BY <2>2, AppendIsConcat, ConcatEmptySeq
  <2>5. Called(Append(v, x), id) = IF x.kind = "call" /\ x.id = id THEN x.text ELSE Called(v, id)
    BY CalledOfAppend
  <2>6. Called(Append(w, x), id) = IF x.kind = "call" /\ x.id = id THEN x.text ELSE Called(w, id)
    BY <2>2, CalledOfAppend
  <2>7. x \notin Exchange => x.kind # "call"
    BY DEF Exchange
  <2>8. Called(Selected(Exchange, Append(v, x)), id) = Called(Append(v, x), id)
    <3>1. CASE x \in Exchange
      <4>1. Selected(Exchange, Append(v, x)) = Append(w, x)
        BY <2>3, <2>4, <3>1
      <4>. QED BY <2>1, <2>5, <2>6, <4>1
    <3>2. CASE x \notin Exchange
      BY <2>1, <2>3, <2>4, <2>5, <2>7, <3>2
    <3>. QED BY <3>1, <3>2
  <2>. QED BY <2>2, <2>8 DEF T
<1> HIDE DEF T
<1>4. Seq(Utterance) \subseteq T
  BY <1>2, <1>3, SequenceInduction
<1>. QED BY <1>4 DEF T

\* No two calls of a sequence have the same id.
Distinct(calls) == \A i, j \in DOMAIN calls : calls[i].id = calls[j].id => i = j

LEMMA CalledOfUses ==
  ASSUME NEW u \in Seq(Utterance), NEW calls \in Seq(Uses), Distinct(calls), NEW i \in DOMAIN calls
  PROVE  Called(u \o Image(UseAsCall, calls), calls[i].id) = calls[i].text
<1> DEFINE V(s) == u \o Image(UseAsCall, s)
           T == {s \in Seq(Uses) :
                   Distinct(s) => \A j \in DOMAIN s : Called(V(s), s[j].id) = s[j].text}
<1>1. ImageLaws(Uses, Exchange, UseAsCall) /\ SeqLaws(Utterance) /\ SeqLaws(Uses)
  BY UsesTyped, Images, SeqSteps
<1>2. <<>> \in T
  BY EmptySeq
<1>3. ASSUME NEW s \in Seq(Uses), NEW b \in Uses, s \in T
      PROVE  Append(s, b) \in T
  <2> DEFINE t == Append(s, b)
             x == UseAsCall[b]
  <2>1. /\ t \in Seq(Uses) /\ Len(t) = Len(s) + 1 /\ t[Len(s) + 1] = b
        /\ \A j \in 1..Len(s) : t[j] = s[j]
    BY AppendProperties
  <2>2. Image(UseAsCall, t) = Append(Image(UseAsCall, s), x) /\ Image(UseAsCall, s) \in Seq(Utterance)
    <3>1. Image(UseAsCall, s) \in Seq(Exchange)
      BY <1>1 DEF ImageLaws
    <3>2. Image(UseAsCall, s) \in Seq(Utterance)
      BY <3>1, TracksOfExchange
    <3>. QED BY <3>2, UsesTyped, ImageOfAppend
  <2>3. x \in Utterance /\ x = Utter("model", "call", b.text, b.id)
    BY UsesTyped DEF Sends, Exchange
  <2>4. x.kind = "call" /\ x.id = b.id /\ x.text = b.text
    BY <2>3 DEF Utter
  <2> HIDE DEF x, t
  <2>5. V(t) = Append(V(s), x) /\ V(s) \in Seq(Utterance)
    <3> DEFINE v == Image(UseAsCall, s)
    <3>1. v \in Seq(Utterance) /\ V(t) = u \o Append(v, x)
      BY <2>2
    <3> HIDE DEF v
    <3>2. u \o v \in Seq(Utterance) /\ <<x>> \in Seq(Utterance) /\ Append(v, x) = v \o <<x>>
      BY <1>1, <2>3, <3>1 DEF SeqLaws
    <3>3. Append(u \o v, x) = (u \o v) \o <<x>>
      BY <1>1, <2>3, <3>2 DEF SeqLaws
    <3>4. (u \o v) \o <<x>> = u \o (v \o <<x>>)
      BY <1>1, <3>1, <3>2 DEF SeqLaws
    <3>. QED BY <3>1, <3>2, <3>3, <3>4 DEF v
  <2> HIDE DEF V
  <2>6. ASSUME NEW id
        PROVE  Called(V(t), id) = IF b.id = id THEN b.text ELSE Called(V(s), id)
    BY <2>3, <2>4, <2>5, CalledOfAppend
  <2>7. ASSUME Distinct(t), NEW j \in DOMAIN t
        PROVE  Called(V(t), t[j].id) = t[j].text
    <3>1. j \in 1..Len(s) + 1 /\ Len(s) \in Nat /\ DOMAIN t = 1..Len(s) + 1
      BY <2>1
    <3>2. CASE j = Len(s) + 1
      BY <2>1, <2>6, <3>2
    <3>3. CASE j # Len(s) + 1
      <4>1. j \in 1..Len(s) /\ t[j] = s[j] /\ j \in DOMAIN s
        BY <2>1, <3>1, <3>3
      <4>2. t[j].id # b.id
        <5>1. \A k, l \in DOMAIN t : t[k].id = t[l].id => k = l
          BY <2>7 DEF Distinct
        <5>2. Len(s) + 1 \in DOMAIN t /\ t[Len(s) + 1].id = b.id
          BY <2>1, <3>1
        <5>. QED BY <3>3, <5>1, <5>2
      <4>3. Distinct(s)
        <5>1. ASSUME NEW k \in DOMAIN s, NEW l \in DOMAIN s, s[k].id = s[l].id
              PROVE  k = l
          <6>1. k \in 1..Len(s) /\ l \in 1..Len(s)
            OBVIOUS
          <6>2. k \in DOMAIN t /\ l \in DOMAIN t /\ t[k] = s[k] /\ t[l] = s[l]
            BY <2>1, <3>1, <6>1
          <6>. QED BY <2>7, <5>1, <6>2 DEF Distinct
        <5>. QED BY <5>1 DEF Distinct
      <4>4. Called(V(s), s[j].id) = s[j].text
        BY <1>3, <4>1, <4>3 DEF V
      <4>. QED BY <2>6, <4>1, <4>2, <4>4
    <3>. QED BY <3>2, <3>3
  <2>. QED BY <2>1, <2>7 DEF V, t
<1> HIDE DEF T
<1>4. Seq(Uses) \subseteq T
  BY <1>2, <1>3, SequenceInduction
<1>5. calls \in T
  BY <1>4
<1>. QED BY <1>5 DEF T

-----------------------------------------------------------------------------
(* What the tools' answers tell.                                           *)

\* Text beside the results, and results of these calls.
AnswerBlock(calls) ==
  {b \in ContentBlock : \/ b.type = "text"
                        \/ b.type = "tool_result" /\ \E i \in DOMAIN calls : calls[i].id = b.id}

AnswerSays(calls, b) ==
  IF b.type = "text" THEN WordEvents("user", b.text)
  ELSE LET call == CHOOSE c \in Range(calls) : c.id = b.id
       IN  <<Event("user", "result", b.text, call.text)>>

EachAnswers(calls) == [b \in AnswerBlock(calls) |-> AnswerSays(calls, b)]

\* The calls are the last ones with their ids.
Latest(u, calls) == \A i \in DOMAIN calls : Called(u, calls[i].id) = calls[i].text

LEMMA AnswerParts ==
  ASSUME NEW calls \in Seq(Uses), Distinct(calls), NEW b \in AnswerBlock(calls)
  PROVE  /\ b \in ContentBlock /\ b.text \in Text /\ b.id \in Id
         /\ AnswerSays(calls, b) \in Seq(SaidEvent)
         /\ b.type # "text" => /\ b.type = "tool_result"
                               /\ \E i \in DOMAIN calls :
                                    /\ calls[i].id = b.id
                                    /\ AnswerSays(calls, b)
                                         = <<Event("user", "result", b.text, calls[i].text)>>
<1>1. b \in ContentBlock /\ b.text \in Text /\ b.id \in Id
  BY BlockParts DEF AnswerBlock
<1>2. CASE b.type = "text"
  <2>1. WordEvents("user", b.text) \in Seq(SaidEvent)
    BY <1>1, WordEventsTyped
  <2>. QED BY <1>1, <1>2, <2>1 DEF AnswerSays
<1>3. CASE b.type # "text"
  <2> DEFINE call == CHOOSE c \in Range(calls) : c.id = b.id
  <2>1. b.type = "tool_result" /\ \E i \in DOMAIN calls : calls[i].id = b.id
    BY <1>3 DEF AnswerBlock
  <2>2. call \in Range(calls) /\ call.id = b.id
    BY <2>1 DEF Range
  <2>3. PICK i \in DOMAIN calls : calls[i] = call
    BY <2>2 DEF Range
  <2>4. AnswerSays(calls, b) = <<Event("user", "result", b.text, calls[i].text)>>
    BY <1>3, <2>3 DEF AnswerSays
  <2>5. calls[i] \in ContentBlock /\ calls[i].text \in Text
    BY BlockParts DEF Uses
  <2>6. Event("user", "result", b.text, calls[i].text) \in SaidEvent
    BY <1>1, <2>5, EventTyped DEF Side
  <2>7. \A e \in SaidEvent : <<e>> \in Seq(SaidEvent)
    BY SeqSteps DEF SeqLaws
  <2>. QED BY <1>1, <2>1, <2>2, <2>3, <2>4, <2>6, <2>7
<1>. QED BY <1>2, <1>3

LEMMA EachAnswersTyped ==
  ASSUME NEW calls \in Seq(Uses), Distinct(calls)
  PROVE  /\ Maps(EachAnswers(calls), AnswerBlock(calls), SaidEvent)
         /\ \A b \in AnswerBlock(calls) : EachAnswers(calls)[b] = AnswerSays(calls, b)
BY AnswerParts DEF Maps, EachAnswers

LEMMA AnswersTell ==
  ASSUME NEW u \in Seq(Utterance), NEW calls \in Seq(Uses), Distinct(calls), Latest(u, calls),
         NEW content \in Seq(AnswerBlock(calls))
  PROVE  EventsOf(u \o Image(ReadAs("user"), content))
           = EventsOf(u) \o Mapped(EachAnswers(calls), content)
<1> DEFINE B == AnswerBlock(calls)
           g == EachAnswers(calls)
           V(s) == Image(ReadAs("user"), s)
           T == {s \in Seq(B) : /\ V(s) \in Seq(Callless)
                                /\ EventsOf(u \o V(s)) = EventsOf(u) \o Mapped(g, s)}
<1>1. MapLaws(B, SaidEvent, g)
  BY EachAnswersTyped, MappedLaws
<1>2. SeqLaws(Utterance) /\ SeqLaws(SaidEvent) /\ SeqLaws(Callless)
  BY SeqSteps
<1>3. EventsOf(u) \in Seq(SaidEvent)
  BY EventsTyped
<1>4. <<>> \in T
  <2>1. V(<<>>) = <<>>
    BY DEF Image
  <2>2. u \o <<>> = u /\ EventsOf(u) \o <<>> = EventsOf(u)
    BY <1>2, <1>3 DEF SeqLaws
  <2>3. Mapped(g, <<>>) = <<>>
    BY <1>1 DEF MapLaws
  <2> HIDE DEF V, g
  <2>4. <<>> \in Seq(B) /\ <<>> \in Seq(Callless)
    BY EmptySeq
  <2> HIDE DEF B
  <2>. QED BY <2>1, <2>2, <2>3, <2>4
<1>5. ASSUME NEW s \in Seq(B), NEW b \in B, s \in T
      PROVE  Append(s, b) \in T
  <2> DEFINE x == ReadBlock("user", b)
             v == V(s)
  <2>1. /\ b \in ContentBlock /\ b.text \in Text /\ b.id \in Id
        /\ b.type # "text" => /\ b.type = "tool_result"
                              /\ \E i \in DOMAIN calls :
                                    /\ calls[i].id = b.id
                                    /\ AnswerSays(calls, b)
                                         = <<Event("user", "result", b.text, calls[i].text)>>
    BY AnswerParts
  <2>2. /\ x \in Utterance
        /\ b.type = "text" => x = Utter("user", "words", b.text, NoId)
        /\ b.type = "tool_result" => x = Utter("user", "result", b.text, b.id)
    BY <2>1, ReadBlockIs DEF SideOf
  <2>3. /\ b.type = "text" => x.kind = "words" /\ x.side = "user" /\ x.text = b.text
        /\ b.type = "tool_result" => x.kind = "result" /\ x.text = b.text /\ x.id = b.id
    BY <2>2 DEF Utter
  <2>4. x \in Callless
    BY <2>1, <2>2, <2>3 DEF Callless
  <2>5. s \in Seq(ContentBlock)
    <3>1. B \subseteq ContentBlock
      BY DEF AnswerBlock
    <3>. QED BY <3>1, SeqMonotonic
  <2>6. V(Append(s, b)) = Append(v, x)
    BY <2>1, <2>5, ReadAsTyped, ImageOfAppend
  <2>7. v \in Seq(Callless) /\ EventsOf(u \o v) = EventsOf(u) \o Mapped(g, s)
    BY <1>5
  <2>8. Append(s, b) \in Seq(B)
    BY AppendProperties
  <2>9. Mapped(g, Append(s, b)) = Mapped(g, s) \o AnswerSays(calls, b) /\ Mapped(g, s) \in Seq(SaidEvent)
        /\ AnswerSays(calls, b) \in Seq(SaidEvent)
    <3>1. g[b] = AnswerSays(calls, b)
      BY EachAnswersTyped
    <3>2. AnswerSays(calls, b) \in Seq(SaidEvent)
      BY AnswerParts
    <3>. QED BY <1>1, <3>1, <3>2 DEF MapLaws
  <2> HIDE DEF x, v, V, g, B, T
  <2>10. Append(v, x) \in Seq(Callless) /\ v \in Seq(Utterance)
    <3>1. Callless \subseteq Utterance
      BY DEF Callless
    <3>. QED BY <1>2, <2>4, <2>7, <3>1, SeqMonotonic DEF SeqLaws
  <2>11. u \o Append(v, x) = Append(u \o v, x) /\ u \o v \in Seq(Utterance)
    <3>1. u \o v \in Seq(Utterance) /\ <<x>> \in Seq(Utterance) /\ Append(v, x) = v \o <<x>>
      BY <1>2, <2>2, <2>10 DEF SeqLaws
    <3>2. Append(u \o v, x) = (u \o v) \o <<x>>
      <4>1. \A t \in Seq(Utterance) : Append(t, x) = t \o <<x>>
        BY <1>2, <2>2 DEF SeqLaws
      <4>. QED BY <3>1, <4>1
    <3>3. (u \o v) \o <<x>> = u \o (v \o <<x>>)
      BY <1>2, <2>10, <3>1 DEF SeqLaws
    <3>. QED BY <3>1, <3>2, <3>3
  <2>12. Meaning(u \o v, x) = AnswerSays(calls, b)
    <3>1. CASE b.type = "text"
      BY <2>3, <3>1 DEF Meaning, MeaningAfter, AnswerSays
    <3>2. CASE b.type # "text"
      <4>1. PICK i \in DOMAIN calls :
              /\ calls[i].id = b.id
              /\ AnswerSays(calls, b) = <<Event("user", "result", b.text, calls[i].text)>>
        BY <2>1, <3>2
      <4>2. Called(u \o v, b.id) = Called(u, b.id)
        BY <2>7, CalledOfCallless
      <4>3. Called(u, calls[i].id) = calls[i].text
        BY DEF Latest
      <4>4. Called(u \o v, b.id) = calls[i].text
        BY <4>1, <4>2, <4>3
      <4>5. Meaning(u \o v, x) = <<Event("user", "result", x.text, Called(u \o v, x.id))>>
        BY <2>1, <2>3, <3>2 DEF Meaning, MeaningAfter, Called
      <4>. QED BY <2>1, <2>3, <3>2, <4>1, <4>4, <4>5
    <3>. QED BY <3>1, <3>2
  <2>13. EventsOf(Append(u \o v, x)) = EventsOf(u \o v) \o Meaning(u \o v, x)
    BY <2>2, <2>11, EventsOfAppend
  <2>14. EventsOf(u \o V(Append(s, b))) = EventsOf(u) \o Mapped(g, Append(s, b))
    <3>1. EventsOf(u \o V(Append(s, b))) = (EventsOf(u) \o Mapped(g, s)) \o AnswerSays(calls, b)
      BY <2>6, <2>7, <2>11, <2>12, <2>13
    <3>2. (EventsOf(u) \o Mapped(g, s)) \o AnswerSays(calls, b)
            = EventsOf(u) \o (Mapped(g, s) \o AnswerSays(calls, b))
      BY <1>2, <1>3, <2>9, ConcatAssociative
    <3>. QED BY <2>9, <3>1, <3>2
  <2>. QED BY <2>6, <2>8, <2>10, <2>14 DEF T
<1> HIDE DEF T, V, g, B
<1>6. Seq(B) \subseteq T
  BY <1>4, <1>5, SequenceInduction
<1>7. content \in T
  BY <1>6 DEF B
<1>. QED BY <1>7 DEF T, V, g

\* The calls that Claude Code owes an answer.
CallsOf(h) ==
  IF h # <<>> /\ Last(h).role = "assistant" THEN OfType(Last(h).blocks, "tool_use") ELSE <<>>

\* A message behind others.
LEMMA FrontAndLast ==
  ASSUME NEW S, NEW h \in Seq(S), h # <<>>
  PROVE  /\ Front(h) \in Seq(S) /\ Last(h) \in S /\ <<Last(h)>> \in Seq(S)
         /\ h = Front(h) \o <<Last(h)>>
<1>1. Front(h) \in Seq(S) /\ Last(h) \in S /\ Len(Front(h)) = Len(h) - 1
      /\ \A i \in 1..(Len(h) - 1) : Front(h)[i] = h[i]
  BY FrontTyped, LastTyped
<1>2. <<Last(h)>> \in Seq(S) /\ Append(Front(h), Last(h)) = Front(h) \o <<Last(h)>>
  BY <1>1, SeqSteps DEF SeqLaws
<1>3. Len(h) \in Nat \ {0} /\ Last(h) = h[Len(h)]
  BY EmptySeq DEF Last
<1> DEFINE t == Append(Front(h), Last(h))
<1>4. /\ t \in Seq(S) /\ Len(t) = Len(h)
      /\ \A i \in 1..(Len(h) - 1) : t[i] = Front(h)[i]
      /\ t[Len(h)] = Last(h)
  BY <1>1, <1>3, AppendProperties
<1> HIDE DEF t
<1>5. \A i \in 1..Len(h) : t[i] = h[i]
  BY <1>1, <1>3, <1>4
<1>6. t = h
  BY <1>4, <1>5, SeqEqual
<1>. QED BY <1>1, <1>2, <1>6 DEF t

LEMMA CallsOfTyped ==
  ASSUME NEW h \in Seq(FitMessage)
  PROVE  /\ CallsOf(h) \in Seq(Uses)
         /\ CallsOf(h) # <<>> =>
              /\ h # <<>> /\ Last(h) \in FitMessage /\ Last(h).role = "assistant"
              /\ CallsOf(h) = OfType(Last(h).blocks, "tool_use")
<1>1. CASE h # <<>> /\ Last(h).role = "assistant"
  <2>1. Last(h) \in FitMessage
    BY <1>1, LastTyped
  <2>2. Last(h).blocks \in Seq(ContentBlock)
    BY <2>1, FitParts
  <2>3. OfType(Last(h).blocks, "tool_use") \in Seq(Uses)
    BY <2>2, OfTypeProperties DEF Uses
  <2>. QED BY <1>1, <2>1, <2>3 DEF CallsOf
<1>2. CASE ~(h # <<>> /\ Last(h).role = "assistant")
  BY <1>2, EmptySeq DEF CallsOf
<1>. QED BY <1>1, <1>2

\* An answer finds the calls it belongs to.
LEMMA OpenCallsAreLatest ==
  ASSUME NEW h \in Seq(FitMessage), Distinct(CallsOf(h))
  PROVE  Latest(Told(h), CallsOf(h))
<1> DEFINE calls == CallsOf(h)
<1>1. SUFFICES ASSUME NEW i \in DOMAIN calls
               PROVE  Called(Told(h), calls[i].id) = calls[i].text
  BY DEF Latest
<1>2. calls \in Seq(Uses) /\ calls # <<>>
  BY CallsOfTyped
<1>3. /\ h # <<>> /\ Last(h) \in FitMessage /\ Last(h).role = "assistant"
      /\ calls = OfType(Last(h).blocks, "tool_use")
  BY <1>2, CallsOfTyped
<1>4. Front(h) \in Seq(FitMessage) /\ <<Last(h)>> \in Seq(FitMessage) /\ h = Front(h) \o <<Last(h)>>
  BY <1>3, FrontAndLast
<1>5. Exchanged(h) = Exchanged(Front(h)) \o Exchanged(<<Last(h)>>)
  BY <1>4, ExchangedLaws
<1>6. Exchanged(<<Last(h)>>) = Image(UseAsCall, calls)
  <2>1. Exchanged(<<Last(h)>>) = MessageExchange(Last(h))
    BY <1>3, ExchangedLaws
  <2>. QED BY <1>3, <2>1 DEF MessageExchange, CallsIn
<1>7. Exchanged(Front(h)) \in Seq(Utterance)
  BY <1>4, ExchangedLaws
<1>8. Told(h) \in Seq(Utterance)
  BY ToldLaws
<1> HIDE DEF calls
<1>9. Called(Exchanged(h), calls[i].id) = Called(Told(h), calls[i].id)
  BY <1>8, CalledExchanged DEF Exchanged
<1>10. Called(Exchanged(Front(h)) \o Image(UseAsCall, calls), calls[i].id) = calls[i].text
  <2>1. Distinct(calls)
    BY DEF calls
  <2>. QED BY <1>2, <1>7, <2>1, CalledOfUses
<1>. QED BY <1>5, <1>6, <1>9, <1>10

=============================================================================
