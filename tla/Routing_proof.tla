--------------------------- MODULE Routing_proof ----------------------------
EXTENDS Routing, SequenceTheorems, WellFoundedInduction, TLAPS

-----------------------------------------------------------------------------
(* Induction. The library's induction rules take a predicate; that the     *)
(* naturals are well founded is a fact about sets, and so is what follows. *)

Less == {p \in Nat \X Nat : p[1] < p[2]}

LEMMA LessIsWellFounded == IsWellFoundedOn(Less, Nat)
<1>1. OpToRel(<, Nat) = Less
  BY DEF OpToRel, Less
<1>. QED BY <1>1, NatLessThanWellFounded

LEMMA SetOfNaturalsHasMin ==
  ASSUME NEW I \in SUBSET Nat, I # {}
  PROVE  Min(I) \in I /\ \A i \in I : Min(I) <= i
<1>1. PICK x \in I : \A y \in I : ~(<<y, x>> \in Less)
  BY WFMin, LessIsWellFounded
<1>2. ASSUME NEW y \in I, ~(x <= y)
      PROVE  FALSE
  <2>1. <<y, x>> \in Nat \X Nat /\ y < x
    BY <1>2
  <2>2. <<y, x>> \in Less
    BY <2>1 DEF Less
  <2>. QED BY <1>1, <2>2
<1>. QED BY <1>1, <1>2 DEF Min

\* What holds of 0, and of every natural behind one it holds of, holds of all.
LEMMA NaturalInduction ==
  ASSUME NEW S, 0 \in S, \A n \in Nat : n \in S => n + 1 \in S
  PROVE  Nat \subseteq S
<1> SUFFICES ASSUME Nat \ S # {} PROVE FALSE
  OBVIOUS
<1> DEFINE x == Min(Nat \ S)
<1>1. x \in Nat \ S /\ \A y \in Nat \ S : x <= y
  BY SetOfNaturalsHasMin
<1> HIDE DEF x
<1>2. x # 0 /\ x - 1 \in Nat /\ ~(x <= x - 1)
  BY <1>1
<1>3. x - 1 \in S
  BY <1>1, <1>2
<1>4. (x - 1) + 1 \in S /\ (x - 1) + 1 = x
  BY <1>1, <1>2, <1>3
<1>. QED BY <1>1, <1>4

-----------------------------------------------------------------------------
(* FlattenSeq, whose recursive function is the limit of its beginnings.    *)

Beginning(seqs, n, f) ==
  f = [i \in 1..n |-> IF i = 1 THEN seqs[i] ELSE f[i - 1] \o seqs[i]]

LEMMA BeginningsExist ==
  ASSUME NEW seqs
  PROVE  \A n \in Nat : \E f : Beginning(seqs, n, f)
<1> DEFINE S == {n \in Nat : \E f : Beginning(seqs, n, f)}
<1>1. 0 \in S
  <2>1. Beginning(seqs, 0, <<>>)
    BY DEF Beginning
  <2>. QED BY <2>1
<1>2. ASSUME NEW n \in Nat, n \in S
      PROVE  n + 1 \in S
  <2>1. PICK f : Beginning(seqs, n, f)
    BY <1>2
  <2> DEFINE last == IF n + 1 = 1 THEN seqs[n + 1] ELSE f[n] \o seqs[n + 1]
             g == [i \in 1..n + 1 |-> IF i = n + 1 THEN last ELSE f[i]]
  <2>2. \A i \in 1..n : f[i] = IF i = 1 THEN seqs[i] ELSE f[i - 1] \o seqs[i]
    BY <2>1 DEF Beginning
  <2>3. \A i \in 1..n + 1 : g[i] = IF i = 1 THEN seqs[i] ELSE g[i - 1] \o seqs[i]
    BY <2>2
  <2>4. Beginning(seqs, n + 1, g)
    BY <2>3 DEF Beginning
  <2>. QED BY <2>4
<1> HIDE DEF S
<1>3. Nat \subseteq S
  BY <1>1, <1>2, NaturalInduction
<1>. QED BY <1>3 DEF S

LEMMA FlattenSeqIsBeginning ==
  ASSUME NEW seqs, Len(seqs) \in Nat \ {0}
  PROVE  \E f : Beginning(seqs, Len(seqs), f) /\ FlattenSeq(seqs) = f[Len(seqs)]
<1> DEFINE f == CHOOSE g : Beginning(seqs, Len(seqs), g)
<1>1. Beginning(seqs, Len(seqs), f)
  BY BeginningsExist
<1>2. FlattenSeq(seqs) = f[Len(seqs)]
  BY DEF FlattenSeq, Beginning
<1>. QED BY <1>1, <1>2


\* The cells of the first sequences, and what laying them out in t means: every
\* cell has a position of its own, and every position is a cell's.
Cells(seqs, n) == {c \in (1..n) \X Nat : c[2] \in 1..Len(seqs[c[1]])}

LaidOut(seqs, n, t, at) ==
  /\ at \in [Cells(seqs, n) -> 1..Len(t)]
  /\ \A c, d \in Cells(seqs, n) : at[c] = at[d] => c = d
  /\ \A p \in 1..Len(t) : \E c \in Cells(seqs, n) : at[c] = p
  /\ \A c \in Cells(seqs, n) : t[at[c]] = seqs[c[1]][c[2]]

\* What has a place among the first l, and what is put behind them, are all at
\* places of their own.
Among(C, place, l) == \A c \in C : place[c] \in 1..l
Apart(C, place) == \A c, d \in C : place[c] = place[d] => c = d
Behind(C, place, offset, l, m) ==
  \A c \in C : offset[c] \in 1..m /\ place[c] = l + offset[c]

LEMMA PlacedBehind ==
  ASSUME NEW Old, NEW Fresh, NEW l \in Nat, NEW m \in Nat, NEW place, NEW offset,
         Among(Old, place, l), Apart(Old, place),
         Behind(Fresh, place, offset, l, m), Apart(Fresh, offset)
  PROVE  Among(Old \cup Fresh, place, l + m) /\ Apart(Old \cup Fresh, place)
<1> USE DEF Among, Apart, Behind
<1>1. ASSUME NEW c \in Fresh, NEW d \in Fresh, place[c] = place[d]
      PROVE  c = d
  <2>1. offset[c] = offset[d]
    BY <1>1
  <2>. QED BY <2>1
<1>2. ASSUME NEW c \in Old, NEW d \in Fresh
      PROVE  place[c] # place[d]
  OBVIOUS
<1>3. \A c \in Old \cup Fresh : place[c] \in 1..(l + m)
  OBVIOUS
<1>. QED BY <1>1, <1>2, <1>3

\* One more sequence.
LEMMA OneMoreLaidOut ==
  ASSUME NEW S, NEW seqs \in Seq(Seq(S)), NEW n \in Nat, n + 1 <= Len(seqs),
         NEW t \in Seq(S), NEW at, LaidOut(seqs, n, t, at)
  PROVE  \E more : LaidOut(seqs, n + 1, t \o seqs[n + 1], more)
<1> DEFINE s == seqs[n + 1]
           u == t \o s
           more == [c \in Cells(seqs, n + 1) |->
                      IF c[1] = n + 1 THEN Len(t) + c[2] ELSE at[c]]
<1>1. n + 1 \in 1..Len(seqs) /\ s \in Seq(S)
  OBVIOUS
<1> HIDE DEF s
<1>2. Len(t) \in Nat /\ Len(s) \in Nat /\ u \in Seq(S) /\ Len(u) = Len(t) + Len(s)
  BY <1>1
<1>3. /\ \A p \in 1..Len(t) : u[p] = t[p]
      /\ \A k \in 1..Len(s) : u[Len(t) + k] = s[k]
  BY <1>1, <1>2
<1> HIDE DEF u
<1>4. \A c \in Cells(seqs, n + 1) :
        \/ c[1] = n + 1 /\ c[2] \in 1..Len(s)
        \/ c[1] # n + 1 /\ c \in Cells(seqs, n)
  <2> SUFFICES ASSUME NEW c \in Cells(seqs, n + 1), c[1] # n + 1
               PROVE  c \in Cells(seqs, n)
    BY DEF Cells, s
  <2>1. c \in (1..n + 1) \X Nat /\ c[2] \in 1..Len(seqs[c[1]])
    BY DEF Cells
  <2>2. c \in (1..n) \X Nat
    BY <2>1
  <2>. QED BY <2>1, <2>2 DEF Cells
<1>5. \A c \in Cells(seqs, n) : c \in Cells(seqs, n + 1) /\ c[1] # n + 1
  BY DEF Cells
<1>6. \A k \in 1..Len(s) : <<n + 1, k>> \in Cells(seqs, n + 1)
  BY DEF Cells, s
<1>7. /\ at \in [Cells(seqs, n) -> 1..Len(t)]
      /\ \A c, d \in Cells(seqs, n) : at[c] = at[d] => c = d
      /\ \A p \in 1..Len(t) : \E c \in Cells(seqs, n) : at[c] = p
      /\ \A c \in Cells(seqs, n) : t[at[c]] = seqs[c[1]][c[2]]
  BY DEF LaidOut
<1>8. \A c \in Cells(seqs, n + 1) :
        \/ c[1] = n + 1 /\ c[2] \in 1..Len(s) /\ more[c] = Len(t) + c[2]
        \/ c[1] # n + 1 /\ c \in Cells(seqs, n) /\ more[c] = at[c] /\ at[c] \in 1..Len(t)
  BY <1>4, <1>7
<1>9. \A c \in Cells(seqs, n) : more[c] = at[c]
  BY <1>5
<1>10. \A k \in 1..Len(s) : more[<<n + 1, k>>] = Len(t) + k
  BY <1>6
<1> DEFINE Fresh == {c \in Cells(seqs, n + 1) : c[1] = n + 1}
           offset == [c \in Fresh |-> c[2]]
<1>11. /\ \A c \in Cells(seqs, n + 1) : more[c] \in 1..Len(u)
       /\ \A c, d \in Cells(seqs, n + 1) : more[c] = more[d] => c = d
  <2>1. Cells(seqs, n + 1) = Cells(seqs, n) \cup Fresh
    BY <1>4, <1>5
  <2>2. Among(Cells(seqs, n), more, Len(t)) /\ Apart(Cells(seqs, n), more)
    BY <1>7, <1>9 DEF Among, Apart
  <2>3. Behind(Fresh, more, offset, Len(t), Len(s))
    BY <1>8 DEF Behind
  <2>4. Apart(Fresh, offset)
    <3>1. \A c \in Fresh : c = <<n + 1, offset[c]>>
      BY DEF Cells
    <3>. QED BY <3>1 DEF Apart
  <2> HIDE DEF Fresh, offset, more
  <2>5. /\ Among(Cells(seqs, n) \cup Fresh, more, Len(t) + Len(s))
        /\ Apart(Cells(seqs, n) \cup Fresh, more)
    BY <1>2, <2>2, <2>3, <2>4, PlacedBehind
  <2>. QED BY <1>2, <2>1, <2>5 DEF Among, Apart
<1>12. more \in [Cells(seqs, n + 1) -> 1..Len(u)]
  BY <1>11
<1> HIDE DEF more
<1>13. ASSUME NEW p \in 1..Len(u)
       PROVE  \E c \in Cells(seqs, n + 1) : more[c] = p
  <2>1. CASE p <= Len(t)
    <3>1. PICK c \in Cells(seqs, n) : at[c] = p
      BY <1>2, <1>7, <2>1
    <3>. QED BY <1>5, <1>9, <3>1
  <2>2. CASE ~(p <= Len(t))
    <3>1. p - Len(t) \in 1..Len(s) /\ Len(t) + (p - Len(t)) = p
      BY <1>2, <2>2
    <3>. QED BY <1>6, <1>10, <3>1
  <2>. QED BY <2>1, <2>2
<1>14. ASSUME NEW c \in Cells(seqs, n + 1)
       PROVE  u[more[c]] = seqs[c[1]][c[2]]
  <2>1. CASE c[1] = n + 1
    BY <1>3, <1>8, <2>1 DEF s
  <2>2. CASE c[1] # n + 1
    BY <1>3, <1>7, <1>8, <2>2
  <2>. QED BY <2>1, <2>2
<1>15. LaidOut(seqs, n + 1, u, more)
  BY <1>11, <1>12, <1>13, <1>14 DEF LaidOut
<1>. QED BY <1>15 DEF u, s

LEMMA FlattenSeqLaysOut ==
  ASSUME NEW S, NEW seqs \in Seq(Seq(S))
  PROVE  /\ FlattenSeq(seqs) \in Seq(S)
         /\ \E at : LaidOut(seqs, Len(seqs), FlattenSeq(seqs), at)
<1>0. Len(seqs) \in Nat /\ \A n \in 1..Len(seqs) : seqs[n] \in Seq(S)
  OBVIOUS
<1>1. PICK f : /\ Beginning(seqs, Len(seqs), f)
               /\ Len(seqs) # 0 => FlattenSeq(seqs) = f[Len(seqs)]
  BY <1>0, BeginningsExist, FlattenSeqIsBeginning
<1> DEFINE g(n) == IF n = 0 THEN <<>> ELSE f[n]
           T == {n \in Nat : n <= Len(seqs) =>
                               g(n) \in Seq(S) /\ \E at : LaidOut(seqs, n, g(n), at)}
<1>2. FlattenSeq(seqs) = g(Len(seqs))
  <2>1. CASE Len(seqs) = 0
    BY <2>1 DEF FlattenSeq
  <2>2. CASE Len(seqs) # 0
    BY <1>1, <2>2
  <2>. QED BY <2>1, <2>2
<1>3. \A n \in Nat : n + 1 <= Len(seqs) /\ g(n) \in Seq(S) => g(n + 1) = g(n) \o seqs[n + 1]
  <2> SUFFICES ASSUME NEW n \in Nat, n + 1 <= Len(seqs), g(n) \in Seq(S)
               PROVE  g(n + 1) = g(n) \o seqs[n + 1]
    OBVIOUS
  <2>1. n + 1 \in 1..Len(seqs) /\ n + 1 # 0 /\ (n + 1) - 1 = n /\ seqs[n + 1] \in Seq(S)
    BY <1>0
  <2>2. f[n + 1] = IF n + 1 = 1 THEN seqs[n + 1] ELSE f[(n + 1) - 1] \o seqs[n + 1]
    BY <1>1, <2>1 DEF Beginning
  <2>3. CASE n = 0
    BY <2>1, <2>2, <2>3, ConcatEmptySeq
  <2>4. CASE n # 0
    <3>1. n + 1 # 1 /\ f[(n + 1) - 1] = f[n] /\ g(n) = f[n] /\ g(n + 1) = f[n + 1]
      BY <2>1, <2>4
    <3>. QED BY <2>2, <3>1
  <2>. QED BY <2>3, <2>4
<1>4. g(0) = <<>> /\ <<>> \in Seq(S)
  OBVIOUS
<1> HIDE DEF g
<1>5. 0 \in T
  <2>1. Cells(seqs, 0) = {}
    BY DEF Cells
  <2> DEFINE at == [c \in {} |-> 0]
  <2>2. LaidOut(seqs, 0, <<>>, at)
    <3>1. 1..Len(<<>>) = {}
      OBVIOUS
    <3>. QED BY <2>1, <3>1 DEF LaidOut
  <2>. QED BY <1>4, <2>2
<1>6. ASSUME NEW n \in Nat, n \in T
      PROVE  n + 1 \in T
  <2> SUFFICES ASSUME n + 1 <= Len(seqs)
               PROVE  g(n + 1) \in Seq(S) /\ \E at : LaidOut(seqs, n + 1, g(n + 1), at)
    BY <1>6
  <2>1. PICK at : g(n) \in Seq(S) /\ LaidOut(seqs, n, g(n), at)
    BY <1>0, <1>6
  <2>2. g(n + 1) = g(n) \o seqs[n + 1] /\ seqs[n + 1] \in Seq(S)
    BY <1>0, <1>3, <2>1
  <2>3. \E more : LaidOut(seqs, n + 1, g(n) \o seqs[n + 1], more)
    BY <2>1, OneMoreLaidOut
  <2>4. g(n) \o seqs[n + 1] \in Seq(S)
    BY <2>1, <2>2, ConcatProperties
  <2>. QED BY <2>2, <2>3, <2>4
<1> HIDE DEF T
<1>7. Nat \subseteq T
  BY <1>5, <1>6, NaturalInduction
<1>8. Len(seqs) \in T
  BY <1>0, <1>7
<1>. QED BY <1>0, <1>2, <1>8 DEF T

\* What the elements of a flattened sequence are, and that they are distinct
\* only if no two cells hold the same.
LEMMA ElementsOfFlattenSeq ==
  ASSUME NEW S, NEW seqs \in Seq(Seq(S))
  PROVE  /\ FlattenSeq(seqs) \in Seq(S)
         /\ ToSet(FlattenSeq(seqs)) =
              UNION {{seqs[n][k] : k \in 1..Len(seqs[n])} : n \in 1..Len(seqs)}
         /\ IsInjective(FlattenSeq(seqs)) =>
              \A i, n \in 1..Len(seqs) : \A k \in 1..Len(seqs[i]), l \in 1..Len(seqs[n]) :
                seqs[i][k] = seqs[n][l] => i = n /\ k = l
<1> DEFINE F == FlattenSeq(seqs)
           C == Cells(seqs, Len(seqs))
<1>1. PICK at : F \in Seq(S) /\ LaidOut(seqs, Len(seqs), F, at)
  BY FlattenSeqLaysOut
<1> HIDE DEF F
<1>2. /\ at \in [C -> 1..Len(F)]
      /\ \A c, d \in C : at[c] = at[d] => c = d
      /\ \A p \in 1..Len(F) : \E c \in C : at[c] = p
      /\ \A c \in C : F[at[c]] = seqs[c[1]][c[2]]
  BY <1>1 DEF LaidOut
<1>3. \A n \in 1..Len(seqs) : \A k \in 1..Len(seqs[n]) : <<n, k>> \in C
  <2>1. \A n \in 1..Len(seqs) : Len(seqs[n]) \in Nat
    OBVIOUS
  <2>. QED BY <2>1 DEF Cells
<1>4. \A c \in C : c[1] \in 1..Len(seqs) /\ c[2] \in 1..Len(seqs[c[1]])
  BY DEF Cells
<1> HIDE DEF C
<1>5. DOMAIN F = 1..Len(F)
  BY <1>1
<1>6. ToSet(F) = UNION {{seqs[n][k] : k \in 1..Len(seqs[n])} : n \in 1..Len(seqs)}
  <2>1. ASSUME NEW x \in ToSet(F)
        PROVE  \E n \in 1..Len(seqs) : \E k \in 1..Len(seqs[n]) : x = seqs[n][k]
    <3>1. PICK p \in 1..Len(F) : x = F[p]
      BY <1>5 DEF ToSet
    <3>2. PICK c \in C : at[c] = p
      BY <1>2
    <3>3. x = seqs[c[1]][c[2]]
      BY <1>2, <3>1, <3>2
    <3>. QED BY <1>4, <3>3
  <2>2. ASSUME NEW n \in 1..Len(seqs), NEW k \in 1..Len(seqs[n])
        PROVE  seqs[n][k] \in ToSet(F)
    <3>1. at[<<n, k>>] \in 1..Len(F) /\ F[at[<<n, k>>]] = seqs[n][k]
      BY <1>2, <1>3
    <3>. QED BY <1>5, <3>1 DEF ToSet
  <2>3. \A x : x \in ToSet(F) => \E n \in 1..Len(seqs) : \E k \in 1..Len(seqs[n]) : x = seqs[n][k]
    BY <2>1
  <2>4. \A n \in 1..Len(seqs) : \A k \in 1..Len(seqs[n]) : seqs[n][k] \in ToSet(F)
    BY <2>2
  <2>. QED BY <2>3, <2>4
<1>7. ASSUME IsInjective(F),
             NEW i \in 1..Len(seqs), NEW n \in 1..Len(seqs),
             NEW k \in 1..Len(seqs[i]), NEW l \in 1..Len(seqs[n]),
             seqs[i][k] = seqs[n][l]
      PROVE  i = n /\ k = l
  <2>1. /\ at[<<i, k>>] \in 1..Len(F) /\ F[at[<<i, k>>]] = seqs[i][k]
        /\ at[<<n, l>>] \in 1..Len(F) /\ F[at[<<n, l>>]] = seqs[n][l]
    BY <1>2, <1>3
  <2>2. at[<<i, k>>] = at[<<n, l>>]
    BY <1>5, <1>7, <2>1 DEF IsInjective
  <2>3. <<i, k>> = <<n, l>>
    BY <1>2, <1>3, <2>2
  <2>. QED BY <2>3
<1>. QED BY <1>1, <1>6, <1>7 DEF F

\* Two equal elements of a sequence whose flattening repeats nothing stand in
\* the same cell.
LEMMA FlattenedApart ==
  ASSUME NEW S, NEW seqs \in Seq(Seq(S)), IsInjective(FlattenSeq(seqs)),
         NEW i \in 1..Len(seqs), NEW n \in 1..Len(seqs),
         NEW k \in 1..Len(seqs[i]), NEW l \in 1..Len(seqs[n]),
         seqs[i][k] = seqs[n][l]
  PROVE  i = n /\ k = l
<1>1. IsInjective(FlattenSeq(seqs)) =>
        \A j, m \in 1..Len(seqs) : \A p \in 1..Len(seqs[j]), q \in 1..Len(seqs[m]) :
          seqs[j][p] = seqs[m][q] => j = m /\ p = q
  BY ElementsOfFlattenSeq
<1>. QED BY <1>1, Zenon

-----------------------------------------------------------------------------
(* The providers of an accepted file: a name is one model's.               *)

ProviderSet == [name : ProviderName, models : Seq(Model)]

LEMMA NamesAreNames ==
  ASSUME NEW model \in Model
  PROVE  /\ Names(model) \in Seq(Name)
         /\ Len(Names(model)) >= 1 /\ Names(model)[1] = model.id
         /\ model.aliases # <<>> => Len(Names(model)) >= 2
         /\ ToSet(Names(model)) = {name \in Name : Matches(model, name)}
<1>1. model.id \in Name /\ model.aliases \in Seq(Name)
  BY DEF Model
<1>2. <<model.id>> \in Seq(Name) /\ Len(<<model.id>>) = 1
  BY <1>1
<1>3. /\ Names(model) \in Seq(Name)
      /\ Len(Names(model)) = 1 + Len(model.aliases)
      /\ Names(model)[1] = model.id
  BY <1>1, <1>2, ConcatProperties DEF Names
<1>4. Len(model.aliases) \in Nat /\ (model.aliases # <<>> => Len(model.aliases) >= 1)
  BY <1>1
<1>5. ToSet(Names(model)) = {name \in Name : Matches(model, name)}
  <2>1. DOMAIN Names(model) = 1..Len(Names(model))
        /\ \A k \in 1..Len(Names(model)) : Names(model)[k] \in Name
    BY <1>3
  <2>. QED BY <2>1 DEF ToSet, Matches, Contains
<1>. QED BY <1>3, <1>4, <1>5

LEMMA NamesOfProvider ==
  ASSUME NEW provider \in ProviderSet
  PROVE  /\ ModelNames(provider) \in Seq(Name)
         /\ ToSet(ModelNames(provider)) =
              {name \in Name : \E j \in DOMAIN provider.models :
                                 Matches(provider.models[j], name)}
         /\ IsInjective(ModelNames(provider)) =>
              \A name : \A j, l \in DOMAIN provider.models :
                Matches(provider.models[j], name) /\ Matches(provider.models[l], name)
                  => j = l
<1> DEFINE seqs == [j \in DOMAIN provider.models |-> Names(provider.models[j])]
<1>1. /\ provider.models \in Seq(Model)
      /\ Len(provider.models) \in Nat
      /\ DOMAIN provider.models = 1..Len(provider.models)
      /\ \A j \in DOMAIN provider.models : provider.models[j] \in Model
  BY DEF ProviderSet
<1>2. /\ seqs \in Seq(Seq(Name)) /\ Len(seqs) = Len(provider.models)
      /\ \A j \in DOMAIN provider.models : seqs[j] = Names(provider.models[j])
  <2>1. \A j \in 1..Len(provider.models) : Names(provider.models[j]) \in Seq(Name)
    BY <1>1, NamesAreNames
  <2>. QED BY <1>1, <2>1
<1> HIDE DEF seqs
<1>3. ModelNames(provider) = FlattenSeq(seqs)
  BY DEF ModelNames, seqs
<1>4. \A j \in DOMAIN provider.models : \A name :
        Matches(provider.models[j], name) <=> \E k \in 1..Len(seqs[j]) : seqs[j][k] = name
  BY <1>2 DEF Matches, Contains
<1>5. \A j \in DOMAIN provider.models : \A k \in 1..Len(seqs[j]) : seqs[j][k] \in Name
  BY <1>1, <1>2
<1>6. ToSet(ModelNames(provider)) =
        UNION {{seqs[n][k] : k \in 1..Len(seqs[n])} : n \in 1..Len(seqs)}
  BY <1>2, <1>3, ElementsOfFlattenSeq
<1>7. ToSet(ModelNames(provider)) =
        {name \in Name : \E j \in DOMAIN provider.models : Matches(provider.models[j], name)}
  <2>1. ASSUME NEW name \in ToSet(ModelNames(provider))
        PROVE  name \in Name /\ \E j \in DOMAIN provider.models : Matches(provider.models[j], name)
    <3>1. PICK n \in 1..Len(seqs) : \E k \in 1..Len(seqs[n]) : name = seqs[n][k]
      BY <1>6
    <3>2. n \in DOMAIN provider.models
      BY <1>1, <1>2
    <3>. QED BY <1>4, <1>5, <3>1, <3>2
  <2>2. ASSUME NEW name, NEW j \in DOMAIN provider.models, Matches(provider.models[j], name)
        PROVE  name \in ToSet(ModelNames(provider))
    <3>1. \E k \in 1..Len(seqs[j]) : seqs[j][k] = name
      BY <1>4, <2>2
    <3>2. j \in 1..Len(seqs)
      BY <1>1, <1>2
    <3>. QED BY <1>6, <3>1, <3>2
  <2>. QED BY <2>1, <2>2
<1>8. ASSUME IsInjective(ModelNames(provider)),
             NEW name, NEW j \in DOMAIN provider.models, NEW l \in DOMAIN provider.models,
             Matches(provider.models[j], name), Matches(provider.models[l], name)
      PROVE  j = l
  <2>1. PICK k \in 1..Len(seqs[j]) : seqs[j][k] = name
    BY <1>4, <1>8
  <2>2. PICK h \in 1..Len(seqs[l]) : seqs[l][h] = name
    BY <1>4, <1>8
  <2>3. j \in 1..Len(seqs) /\ l \in 1..Len(seqs)
    BY <1>1, <1>2
  <2>4. seqs \in Seq(Seq(Name)) /\ IsInjective(FlattenSeq(seqs))
    BY <1>2, <1>3, <1>8
  <2>. QED BY <2>1, <2>2, <2>3, <2>4, FlattenedApart, Zenon
<1>. QED BY <1>2, <1>3, <1>7, <1>8, ElementsOfFlattenSeq

LEMMA OneModelForAName ==
  ASSUME NEW providers \in Seq(ProviderSet), UniqueModels(providers), NEW name \in Name,
         NEW i \in DOMAIN providers, NEW j \in DOMAIN providers[i].models,
         NEW k \in DOMAIN providers, NEW l \in DOMAIN providers[k].models,
         Matches(providers[i].models[j], name), Matches(providers[k].models[l], name)
  PROVE  i = k /\ j = l
<1> DEFINE seqs == [n \in DOMAIN providers |-> ModelNames(providers[n])]
<1>1. /\ Len(providers) \in Nat /\ DOMAIN providers = 1..Len(providers)
      /\ \A n \in DOMAIN providers : providers[n] \in ProviderSet
  OBVIOUS
<1>2. /\ seqs \in Seq(Seq(Name)) /\ Len(seqs) = Len(providers)
      /\ \A n \in DOMAIN providers : seqs[n] = ModelNames(providers[n])
  <2>1. \A n \in 1..Len(providers) : ModelNames(providers[n]) \in Seq(Name)
    BY <1>1, NamesOfProvider
  <2>. QED BY <1>1, <2>1
<1>3. IsInjective(FlattenSeq(seqs))
  BY DEF UniqueModels
<1> HIDE DEF seqs
<1>4. \A a, b \in 1..Len(seqs) : \A p \in 1..Len(seqs[a]), q \in 1..Len(seqs[b]) :
        seqs[a][p] = seqs[b][q] => a = b /\ p = q
  BY <1>2, <1>3, ElementsOfFlattenSeq
<1>5. \A n \in DOMAIN providers :
        seqs[n] \in Seq(Name) /\ Len(seqs[n]) \in Nat /\ DOMAIN seqs[n] = 1..Len(seqs[n])
  BY <1>1, <1>2
<1>6. name \in ToSet(seqs[i]) /\ name \in ToSet(seqs[k])
  BY <1>1, <1>2, NamesOfProvider
<1>7. PICK p \in 1..Len(seqs[i]) : seqs[i][p] = name
  BY <1>5, <1>6 DEF ToSet
<1>8. PICK q \in 1..Len(seqs[k]) : seqs[k][q] = name
  BY <1>5, <1>6 DEF ToSet
<1>9. i = k
  BY <1>1, <1>2, <1>4, <1>7, <1>8
<1>10. IsInjective(seqs[i])
  <2>1. i \in 1..Len(seqs) /\ DOMAIN seqs[i] = 1..Len(seqs[i])
    BY <1>1, <1>2, <1>5
  <2>2. \A g, h \in DOMAIN seqs[i] : seqs[i][g] = seqs[i][h] => g = h
    BY <1>4, <2>1
  <2>. QED BY <2>2 DEF IsInjective
<1>11. j = l
  BY <1>1, <1>2, <1>9, <1>10, NamesOfProvider
<1>. QED BY <1>9, <1>11

\* The configuration of a worker: the invariant of the component, but for the
\* last request.
Accepted == config \in Seq(ProviderSet) /\ UniqueModels(config)

LEMMA AcceptedShape ==
  ASSUME Accepted
  PROVE  /\ Len(config) \in Nat /\ DOMAIN config = 1..Len(config)
         /\ \A i \in DOMAIN config :
              /\ config[i] \in ProviderSet /\ config[i].name \in ProviderName
              /\ Len(config[i].models) \in Nat
              /\ DOMAIN config[i].models = 1..Len(config[i].models)
              /\ \A j \in DOMAIN config[i].models : config[i].models[j] \in Model
<1>1. config \in Seq(ProviderSet)
  BY DEF Accepted
<1>2. /\ Len(config) \in Nat /\ DOMAIN config = 1..Len(config)
      /\ \A i \in DOMAIN config : config[i] \in ProviderSet
  BY <1>1
<1>3. ASSUME NEW i \in DOMAIN config
      PROVE  /\ config[i] \in ProviderSet /\ config[i].name \in ProviderName
             /\ Len(config[i].models) \in Nat
             /\ DOMAIN config[i].models = 1..Len(config[i].models)
             /\ \A j \in DOMAIN config[i].models : config[i].models[j] \in Model
  <2>1. config[i].name \in ProviderName /\ config[i].models \in Seq(Model)
    BY <1>2 DEF ProviderSet
  <2>. QED BY <1>2, <2>1
<1>. QED BY <1>2, <1>3

\* FindIn returns a model that has the name, of a provider that is asked for.
LEMMA FindInFinds ==
  ASSUME Accepted, NEW wanted, NEW name
  PROVE  \/ /\ FindIn(wanted, name) = NotFound
            /\ \A i \in DOMAIN config : config[i] \in wanted =>
                 \A j \in DOMAIN config[i].models : ~Matches(config[i].models[j], name)
         \/ \E i \in DOMAIN config : \E j \in DOMAIN config[i].models :
              /\ config[i] \in wanted
              /\ Matches(config[i].models[j], name)
              /\ FindIn(wanted, name) = Provider(i, config[i].models[j])
<1> DEFINE I == {i \in 1..Len(config) : config[i] \in wanted
                   /\ \E j \in DOMAIN config[i].models : Matches(config[i].models[j], name)}
           first == IF I # {} THEN Min(I) ELSE 0
           J == {j \in 1..Len(config[first].models) : Matches(config[first].models[j], name)}
           model == IF J # {} THEN Min(J) ELSE 0
<1>1. FindIn(wanted, name) =
        IF first = 0 THEN NotFound ELSE Provider(first, config[first].models[model])
  BY DEF FindIn, SelectInSeq
<1>2. I \in SUBSET Nat
  BY AcceptedShape
<1>3. CASE I = {}
  <2>1. first = 0
    BY <1>3
  <2>2. DOMAIN config = 1..Len(config)
    BY AcceptedShape
  <2>. QED BY <1>1, <1>3, <2>1, <2>2, Zenon
<1>4. CASE I # {}
  <2>1. first \in I
    BY <1>2, <1>4, SetOfNaturalsHasMin
  <2> HIDE DEF first
  <2>2. /\ first \in DOMAIN config /\ first # 0 /\ config[first] \in wanted
        /\ \E j \in DOMAIN config[first].models : Matches(config[first].models[j], name)
    BY <2>1, AcceptedShape
  <2>3. J # {} /\ J \in SUBSET Nat
    BY <2>2, AcceptedShape
  <2>4. model \in J
    BY <2>3, SetOfNaturalsHasMin
  <2> HIDE DEF model
  <2>5. model \in DOMAIN config[first].models /\ Matches(config[first].models[model], name)
    BY <2>2, <2>4, AcceptedShape
  <2>. QED BY <1>1, <2>2, <2>5
<1>. QED BY <1>3, <1>4

\* In an accepted configuration, it is the only one.
LEMMA FindInFindsTheModel ==
  ASSUME Accepted, NEW wanted, NEW name \in Name,
         NEW i \in DOMAIN config, NEW j \in DOMAIN config[i].models,
         config[i] \in wanted, Matches(config[i].models[j], name)
  PROVE  FindIn(wanted, name) = Provider(i, config[i].models[j])
<1>1. PICK k \in DOMAIN config : \E l \in DOMAIN config[k].models :
        /\ Matches(config[k].models[l], name)
        /\ FindIn(wanted, name) = Provider(k, config[k].models[l])
  BY FindInFinds
<1>2. PICK l \in DOMAIN config[k].models :
        /\ Matches(config[k].models[l], name)
        /\ FindIn(wanted, name) = Provider(k, config[k].models[l])
  BY <1>1
<1>3. i = k /\ j = l
  BY <1>2, OneModelForAName DEF Accepted
<1>. QED BY <1>2, <1>3

-----------------------------------------------------------------------------
(* What the parts of a name are.                                           *)

FirstSlash(name) ==
  LET I == {i \in 1..Len(name) : name[i] = "/"} IN IF I # {} THEN Min(I) ELSE 0

LEMMA FirstSlashIsFirst ==
  ASSUME NEW name \in Name
  PROVE  \/ FirstSlash(name) = 0 /\ ~Contains(name, "/")
         \/ /\ FirstSlash(name) \in 1..Len(name)
            /\ name[FirstSlash(name)] = "/"
            /\ \A i \in 1..FirstSlash(name) - 1 : name[i] # "/"
<1> DEFINE I == {i \in 1..Len(name) : name[i] = "/"}
<1>1. I \in SUBSET Nat /\ Len(name) \in Nat
  BY DEF Name
<1>2. CASE I = {}
  BY <1>2 DEF FirstSlash, Contains
<1>3. CASE I # {}
  <2>1. FirstSlash(name) = Min(I)
    BY <1>3 DEF FirstSlash
  <2>2. Min(I) \in I /\ \A i \in I : Min(I) <= i
    BY <1>1, <1>3, SetOfNaturalsHasMin
  <2> DEFINE m == Min(I)
  <2> HIDE DEF m
  <2>3. m \in 1..Len(name) /\ name[m] = "/"
    BY <2>2 DEF m
  <2>4. ASSUME NEW i \in 1..m - 1
        PROVE  name[i] # "/"
    <3>1. i \in 1..Len(name) /\ ~(m <= i)
      BY <1>1, <2>3
    <3>. QED BY <2>2, <3>1 DEF m
  <2>. QED BY <2>1, <2>3, <2>4 DEF m
<1>. QED BY <1>2, <1>3

LEMMA ResolveSplits ==
  ASSUME NEW model
  PROVE  LET name == Stripped(model)
             slash == FirstSlash(name)
         IN  Resolve(model) =
               IF slash = 0 THEN ResolveBare(name)
               ELSE ResolveQualified(SubSeq(name, 1, slash - 1),
                                     SubSeq(name, slash + 1, Len(name)))
BY DEF Resolve, SelectInSeq, FirstSlash

LEMMA QualifiedParts ==
  ASSUME NEW provider \in ProviderName, NEW rest \in Name
  PROVE  LET name == Qualified(provider, rest)
         IN  /\ name \in Name /\ Len(name) = Len(rest) + 2 /\ Len(rest) \in Nat
             /\ name[1] = provider /\ name[2] = "/"
             /\ \A k \in 1..Len(rest) : name[k + 2] = rest[k]
             /\ FirstSlash(name) = 2
             /\ SubSeq(name, 1, 2) = <<provider, "/">>
             /\ SubSeq(name, 1, 1) = <<provider>>
             /\ SubSeq(name, 3, Len(name)) = rest
<1> DEFINE name == Qualified(provider, rest)
<1>1. <<provider, "/">> \in Name /\ Len(<<provider, "/">>) = 2 /\ provider # "/"
  <2>1. provider \in Token /\ "/" \in Token /\ provider # "/"
    BY TokenAssumption DEF ProviderName
  <2>. QED BY <2>1 DEF Name
<1>2. /\ name \in Name /\ Len(name) = Len(rest) + 2 /\ Len(rest) \in Nat
      /\ name[1] = provider /\ name[2] = "/"
      /\ \A k \in 1..Len(rest) : name[k + 2] = rest[k]
  BY <1>1, ConcatProperties DEF Name, Qualified
<1> HIDE DEF name
<1>3. FirstSlash(name) = 2
  BY <1>1, <1>2, FirstSlashIsFirst DEF Contains
<1>4. SubSeq(name, 1, 2) = <<provider, "/">> /\ SubSeq(name, 1, 1) = <<provider>>
  <2>1. \A k \in 1..2 : name[k] \in Token
    BY <1>2 DEF Name
  <2>2. /\ SubSeq(name, 1, 2) \in Seq(Token) /\ Len(SubSeq(name, 1, 2)) = 2
        /\ SubSeq(name, 1, 2)[1] = provider /\ SubSeq(name, 1, 2)[2] = "/"
    BY <1>2, <2>1, SubSeqProperties
  <2>3. /\ SubSeq(name, 1, 1) \in Seq(Token) /\ Len(SubSeq(name, 1, 1)) = 1
        /\ SubSeq(name, 1, 1)[1] = provider
    BY <1>2, <2>1, SubSeqProperties
  <2>4. <<provider>> \in Seq(Token) /\ Len(<<provider>>) = 1 /\ <<provider>>[1] = provider
    BY DEF ProviderName
  <2>5. SubSeq(name, 1, 2) = <<provider, "/">>
    <3>1. <<provider, "/">> \in Seq(Token)
      BY <1>1 DEF Name
    <3>2. \A k \in 1..2 : SubSeq(name, 1, 2)[k] = <<provider, "/">>[k]
      BY <2>2
    <3>. QED BY <1>1, <2>2, <3>1, <3>2, SeqEqual
  <2>6. SubSeq(name, 1, 1) = <<provider>>
    <3>1. \A k \in 1..1 : SubSeq(name, 1, 1)[k] = <<provider>>[k]
      BY <2>3, <2>4
    <3>. QED BY <2>3, <2>4, <3>1, SeqEqual
  <2>. QED BY <2>5, <2>6
<1>5. SubSeq(name, 3, Len(name)) = rest
  BY <1>2 DEF Name
<1>. QED BY <1>2, <1>3, <1>4, <1>5 DEF name

LEMMA StrippedIsName ==
  ASSUME NEW model \in Name
  PROVE  StripMarker(model) \in Name /\ StripPrefix(model) \in Name /\ Stripped(model) \in Name
<1>1. \A m \in Name : StripMarker(m) \in Name /\ StripPrefix(m) \in Name
  <2> SUFFICES ASSUME NEW m \in Name
               PROVE  StripMarker(m) \in Name /\ StripPrefix(m) \in Name
    OBVIOUS
  <2>1. m # <<>> => Front(m) \in Name /\ Tail(m) \in Name
    <3>1. Len(m) \in Nat /\ \A k \in 1..Len(m) - 1 : m[k] \in Token
      BY DEF Name
    <3>2. SubSeq(m, 1, Len(m) - 1) \in Seq(Token)
      BY <3>1, SubSeqProperties
    <3>. QED BY <3>2, HeadTailProperties DEF Front, Name
  <2>. QED BY <2>1 DEF StripMarker, StripPrefix
<1>. QED BY <1>1 DEF Stripped

\* A model is found by its qualified name, and by its name if that has no slash.
LEMMA QualifiedNameResolves ==
  ASSUME Accepted, NEW model, NEW name \in Name,
         NEW i \in DOMAIN config, NEW j \in DOMAIN config[i].models,
         Matches(config[i].models[j], name),
         Stripped(model) = Qualified(config[i].name, name)
  PROVE  Resolve(model) = Provider(i, config[i].models[j])
<1>1. Resolve(model) = ResolveQualified(<<config[i].name>>, name)
  <2>1. config[i].name \in ProviderName
    BY AcceptedShape
  <2> DEFINE n == Qualified(config[i].name, name)
  <2>2. FirstSlash(n) = 2 /\ SubSeq(n, 1, 1) = <<config[i].name>> /\ SubSeq(n, 3, Len(n)) = name
    BY <2>1, QualifiedParts
  <2>3. Stripped(model) = n
    OBVIOUS
  <2> HIDE DEF n
  <2>4. Resolve(model) = IF FirstSlash(n) = 0 THEN ResolveBare(n)
                         ELSE ResolveQualified(SubSeq(n, 1, FirstSlash(n) - 1),
                                               SubSeq(n, FirstSlash(n) + 1, Len(n)))
    BY <2>3, ResolveSplits
  <2>5. 2 # 0 /\ 2 - 1 = 1 /\ 2 + 1 = 3
    OBVIOUS
  <2>. QED BY <2>2, <2>4, <2>5
<1>2. config[i] \in {p \in ToSet(config) : <<config[i].name>> \in {None, <<p.name>>}}
  BY DEF ToSet
<1>3. Find(<<config[i].name>>, name) = Provider(i, config[i].models[j])
  BY <1>2, FindInFindsTheModel DEF Find
<1>. QED BY <1>1, <1>3 DEF ResolveQualified, Provider, NotFound

LEMMA BareNameResolves ==
  ASSUME Accepted, NEW model, NEW name \in Name, ~Contains(name, "/"),
         NEW i \in DOMAIN config, NEW j \in DOMAIN config[i].models,
         Matches(config[i].models[j], name),
         Stripped(model) = name
  PROVE  Resolve(model) = Provider(i, config[i].models[j])
<1>1. Resolve(model) = ResolveBare(name)
  BY ResolveSplits, FirstSlashIsFirst DEF Contains
<1>2. config[i] \in {p \in ToSet(config) : None \in {None, <<p.name>>}}
  BY DEF ToSet
<1>3. Find(None, name) = Provider(i, config[i].models[j])
  BY <1>2, FindInFindsTheModel DEF Find
<1>. QED BY <1>1, <1>3 DEF ResolveBare, Provider, NotFound

-----------------------------------------------------------------------------
(* The names that are offered.                                             *)

\* The marker is stripped, and nothing else where there is none.
LEMMA MarkerIsStripped ==
  ASSUME NEW model, NEW name \in Name
  PROVE  /\ StripMarker(Append(name, LargeContextMarker)) = name
         /\ Plain(name) => StripMarker(name) = name
         /\ Plain(name) => StripMarker(WithMarker(model, name)) = name
<1> DEFINE marked == Append(name, LargeContextMarker)
<1>1. LargeContextMarker \in Token /\ name \in Seq(Token) /\ Len(name) \in Nat
  BY TokenAssumption DEF Name
<1>2. /\ marked \in Seq(Token) /\ Len(marked) = Len(name) + 1
      /\ marked[Len(name) + 1] = LargeContextMarker
      /\ \A k \in 1..Len(name) : marked[k] = name[k]
  BY <1>1, AppendProperties
<1> HIDE DEF marked
<1>3. marked # <<>> /\ Last(marked) = LargeContextMarker /\ Len(marked) - 1 = Len(name)
  BY <1>1, <1>2 DEF Last
<1>4. SubSeq(marked, 1, Len(name)) = name
  <2>1. \A k \in 1..Len(name) : marked[k] \in Token
    BY <1>1, <1>2
  <2>2. /\ SubSeq(marked, 1, Len(name)) \in Seq(Token)
        /\ Len(SubSeq(marked, 1, Len(name))) = Len(name)
        /\ \A k \in 1..Len(name) : SubSeq(marked, 1, Len(name))[k] = marked[k]
    BY <1>1, <2>1, SubSeqProperties
  <2>. QED BY <1>1, <1>2, <2>2, SeqEqual
<1>5. StripMarker(marked) = name
  BY <1>3, <1>4 DEF StripMarker, Front
<1>6. Plain(name) => StripMarker(name) = name
  BY DEF Plain, StripMarker
<1>. QED BY <1>5, <1>6 DEF marked, WithMarker

\* What lies behind the slash decides whether a qualified name is plain.
LEMMA QualifiedIsPlain ==
  ASSUME NEW provider \in ProviderName, NEW rest \in Name, Plain(rest)
  PROVE  Plain(Qualified(provider, rest))
<1> DEFINE name == Qualified(provider, rest)
<1>1. /\ Len(name) = Len(rest) + 2 /\ Len(rest) \in Nat /\ name[2] = "/"
      /\ \A k \in 1..Len(rest) : name[k + 2] = rest[k]
  BY QualifiedParts
<1> HIDE DEF name
<1>2. "/" # LargeContextMarker
  BY DEF LargeContextMarker
<1>3. Plain(name)
  <2>1. CASE Len(rest) = 0
    BY <1>1, <1>2, <2>1 DEF Plain, Last
  <2>2. CASE Len(rest) # 0
    <3>1. Len(rest) \in 1..Len(rest)
      BY <1>1, <2>2
    <3>. QED BY <1>1, <3>1 DEF Plain, Last
  <2>. QED BY <2>1, <2>2
<1>. QED BY <1>3 DEF name

\* The gateway prefix is stripped, and nothing else where there is none.
LEMMA PrefixIsStripped ==
  ASSUME NEW name \in Name
  PROVE  /\ <<GatewayPrefix>> \o name \in Name
         /\ StripPrefix(<<GatewayPrefix>> \o name) = name
         /\ name # <<>> /\ Plain(name) => Plain(<<GatewayPrefix>> \o name)
         /\ (name = <<>> \/ Head(name) # GatewayPrefix) => StripPrefix(name) = name
<1> DEFINE prefixed == <<GatewayPrefix>> \o name
<1>1. GatewayPrefix \in Token /\ name \in Seq(Token) /\ Len(name) \in Nat
  BY TokenAssumption DEF Name
<1>2. <<GatewayPrefix>> \in Seq(Token) /\ Len(<<GatewayPrefix>>) = 1
  BY <1>1
<1>3. /\ prefixed \in Seq(Token) /\ Len(prefixed) = 1 + Len(name)
      /\ prefixed[1] = GatewayPrefix
      /\ \A k \in 1..Len(name) : prefixed[k + 1] = name[k]
  BY <1>1, <1>2, ConcatProperties
<1> HIDE DEF prefixed
<1>4. prefixed # <<>> /\ Head(prefixed) = GatewayPrefix
  BY <1>1, <1>3
<1>5. Tail(prefixed) = name
  <2>1. /\ Tail(prefixed) \in Seq(Token) /\ Len(Tail(prefixed)) = Len(name)
        /\ \A k \in 1..Len(name) : Tail(prefixed)[k] = prefixed[k + 1]
    BY <1>1, <1>3, <1>4, HeadTailProperties
  <2>. QED BY <1>1, <1>3, <2>1, SeqEqual
<1>6. StripPrefix(prefixed) = name
  BY <1>4, <1>5 DEF StripPrefix
<1>7. name # <<>> /\ Plain(name) => Plain(prefixed)
  <2>1. name # <<>> => Len(name) \in 1..Len(name) /\ Len(prefixed) = Len(name) + 1
    BY <1>1, <1>3
  <2>. QED BY <1>3, <2>1 DEF Plain, Last
<1>8. name = <<>> \/ Head(name) # GatewayPrefix => StripPrefix(name) = name
  BY DEF StripPrefix
<1>. QED BY <1>3, <1>6, <1>7, <1>8 DEF prefixed, Name

\* In an accepted configuration, every name offered for a model is that model's.
LEMMA AcceptedOffersRoute ==
  ASSUME Accepted
  PROVE  OfferedNamesRoute
<1> SUFFICES ASSUME NEW i \in DOMAIN config, NEW j \in DOMAIN config[i].models
             PROVE  LET provider == config[i]
                        model == provider.models[j]
                        this == Provider(i, model)
                    IN  /\ Plain(model.id) => Resolve(GatewayId(provider, model)) = this
                        /\ \A name \in ToSet(Names(model)) :
                             Plain(name) => \A choice \in ModelChoices(provider, model, name) :
                                              Resolve(choice) = this
                        /\ Bare(Shorthand(model)) => Resolve(PickerName(model)) = this
  BY DEF OfferedNamesRoute
<1> DEFINE provider == config[i]
           model == provider.models[j]
           this == Provider(i, model)
<1>1. /\ provider.name \in ProviderName /\ model \in Model
  BY AcceptedShape
<1>2. /\ Names(model) \in Seq(Name)
      /\ Len(Names(model)) >= 1 /\ Names(model)[1] = model.id
      /\ model.aliases # <<>> => Len(Names(model)) >= 2
      /\ ToSet(Names(model)) = {name \in Name : Matches(model, name)}
  BY <1>1, NamesAreNames
<1>3. model.id \in ToSet(Names(model)) /\ Shorthand(model) \in ToSet(Names(model))
  BY <1>2 DEF Shorthand, ToSet
<1>4. ASSUME NEW name \in ToSet(Names(model)), Plain(name),
             NEW choice \in ModelChoices(provider, model, name)
      PROVE  Resolve(choice) = this
  <2> DEFINE qualified == Qualified(provider.name, name)
  <2>1. name \in Name /\ Matches(model, name)
    BY <1>2
  <2>2. qualified \in Name /\ Plain(qualified) /\ qualified # <<>>
        /\ Head(qualified) # GatewayPrefix
    BY <1>1, <1>4, <2>1, QualifiedParts, QualifiedIsPlain DEF ProviderName
  <2>3. StripMarker(choice) = qualified
    <3>1. choice = qualified \/ choice = WithMarker(model, qualified)
      BY <1>4 DEF ModelChoices
    <3>2. StripMarker(qualified) = qualified
          /\ StripMarker(WithMarker(model, qualified)) = qualified
      BY <2>2, MarkerIsStripped
    <3>. QED BY <3>1, <3>2
  <2>4. Stripped(choice) = qualified
    BY <2>2, <2>3, PrefixIsStripped DEF Stripped
  <2>. QED BY <2>1, <2>4, QualifiedNameResolves
<1>5. ASSUME Plain(model.id)
      PROVE  Resolve(GatewayId(provider, model)) = this
  <2> DEFINE qualified == Qualified(provider.name, model.id)
             prefixed == <<GatewayPrefix>> \o qualified
  <2>1. model.id \in Name /\ Matches(model, model.id)
    BY <1>2, <1>3
  <2>2. qualified \in Name /\ Plain(qualified) /\ qualified # <<>>
    BY <1>1, <1>5, <2>1, QualifiedParts, QualifiedIsPlain
  <2>3. prefixed \in Name /\ Plain(prefixed) /\ StripPrefix(prefixed) = qualified
    BY <2>2, PrefixIsStripped
  <2>4. Stripped(GatewayId(provider, model)) = qualified
    BY <2>3, MarkerIsStripped DEF Stripped, GatewayId
  <2>. QED BY <2>1, <2>4, QualifiedNameResolves
<1>6. ASSUME Bare(Shorthand(model))
      PROVE  Resolve(PickerName(model)) = this
  <2> DEFINE name == Shorthand(model)
  <2>1. name \in Name /\ Matches(model, name)
    BY <1>2, <1>3
  <2>2. Plain(name) /\ ~Contains(name, "/") /\ Head(name) # GatewayPrefix
    BY <1>6 DEF Bare
  <2>3. Stripped(PickerName(model)) = name
    BY <2>1, <2>2, MarkerIsStripped, PrefixIsStripped DEF Stripped, PickerName
  <2>. QED BY <2>1, <2>2, <2>3, BareNameResolves
<1>. QED BY <1>4, <1>5, <1>6

-----------------------------------------------------------------------------
(* What a name means, and where the request goes.                          *)

\* A model is meant by a name if it has the part behind the slash and its
\* provider the one before it, or if it has the name and the name no slash.
LEMMA WhatIsMeant ==
  ASSUME Accepted, NEW name
  PROVE  \A m : m \in Meant(name) <=>
           /\ m = <<m[1], m[2]>> /\ m[1] \in DOMAIN config /\ m[2] \in Name
           /\ \E j \in DOMAIN config[m[1]].models : Matches(config[m[1]].models[j], m[2])
           /\ \/ name = Qualified(config[m[1]].name, m[2])
              \/ name = m[2] /\ ~Contains(m[2], "/")
<1>1. \A i \in DOMAIN config :
        ToSet(ModelNames(config[i])) =
          {n \in Name : \E j \in DOMAIN config[i].models : Matches(config[i].models[j], n)}
  BY AcceptedShape, NamesOfProvider
<1>. QED BY <1>1 DEF Meant

\* The providers asked for are all of them, or the one that is named.
LEMMA FindFinds ==
  ASSUME Accepted, NEW provider \in Name \cup {None}, NEW name \in Name
  PROVE  \/ /\ Find(provider, name) = NotFound
            /\ \A i \in DOMAIN config : provider \in {None, <<config[i].name>>} =>
                 \A j \in DOMAIN config[i].models : ~Matches(config[i].models[j], name)
         \/ \E i \in DOMAIN config : \E j \in DOMAIN config[i].models :
              /\ provider \in {None, <<config[i].name>>}
              /\ Matches(config[i].models[j], name)
              /\ Find(provider, name) = Provider(i, config[i].models[j])
<1> DEFINE wanted == {p \in ToSet(config) : provider \in {None, <<p.name>>}}
<1>1. \A i \in DOMAIN config : config[i] \in wanted <=> provider \in {None, <<config[i].name>>}
  BY DEF ToSet
<1> HIDE DEF wanted
<1>2. Find(provider, name) = FindIn(wanted, name)
  BY DEF Find, wanted
<1>. QED BY <1>1, <1>2, FindInFinds

LEMMA FirstTwo ==
  ASSUME NEW name \in Name, Len(name) > 1,
         NEW a, NEW b, SubSeq(name, 1, 2) = <<a, b>>
  PROVE  name[1] = a /\ name[2] = b
<1> DEFINE two == SubSeq(name, 1, 2)
<1>1. \A k \in 1..2 : name[k] \in Token
  BY DEF Name
<1>2. \A k \in 1..2 : two[k] = name[k]
  BY <1>1, SubSeqProperties
<1>3. two = <<a, b>>
  OBVIOUS
<1> HIDE DEF two
<1>. QED BY <1>2, <1>3

LEMMA PartsAreNames ==
  ASSUME NEW name \in Name, FirstSlash(name) # 0
  PROVE  /\ SubSeq(name, 1, FirstSlash(name) - 1) \in Name
         /\ SubSeq(name, FirstSlash(name) + 1, Len(name)) \in Name
<1>1. Len(name) \in Nat /\ \A k \in 1..Len(name) : name[k] \in Token
  BY DEF Name
<1>2. FirstSlash(name) \in 1..Len(name)
  BY FirstSlashIsFirst
<1>3. \A m \in 1..Len(name) + 1, n \in 0..Len(name) : SubSeq(name, m, n) \in Seq(Token)
  BY <1>1, SubSeqProperties
<1>. QED BY <1>1, <1>2, <1>3 DEF Name

\* A name with a slash is a provider's if the provider stands before the slash.
LEMMA SlashSplits ==
  ASSUME NEW name \in Name, FirstSlash(name) # 0, NEW provider \in ProviderName
  PROVE  LET slash == FirstSlash(name)
             first == SubSeq(name, 1, slash - 1)
             rest == SubSeq(name, slash + 1, Len(name))
         IN  /\ first \in Name /\ rest \in Name
             /\ \A n \in Name : name = Qualified(provider, n) <=>
                                  first = <<provider>> /\ n = rest
             /\ Len(name) > 1 /\ SubSeq(name, 1, 2) = <<provider, "/">> <=>
                  first = <<provider>>
<1> DEFINE slash == FirstSlash(name)
           first == SubSeq(name, 1, slash - 1)
           rest == SubSeq(name, slash + 1, Len(name))
<1>1. name \in Seq(Token) /\ Len(name) \in Nat /\ \A k \in 1..Len(name) : name[k] \in Token
  BY DEF Name
<1>2. /\ slash \in 1..Len(name) /\ name[slash] = "/"
      /\ \A k \in 1..slash - 1 : name[k] # "/"
  BY FirstSlashIsFirst
<1> HIDE DEF slash
<1>3. /\ first \in Seq(Token) /\ Len(first) = slash - 1
      /\ \A k \in 1..slash - 1 : first[k] = name[k]
  <2>1. \A k \in 1..slash - 1 : name[k] \in Token
    BY <1>1, <1>2
  <2>. QED BY <1>1, <1>2, <2>1, SubSeqProperties
<1>4. /\ rest \in Seq(Token) /\ Len(rest) = Len(name) - slash
      /\ \A k \in 1..Len(name) - slash : rest[k] = name[slash + k]
  <2>1. \A k \in slash + 1..Len(name) : name[k] \in Token
    BY <1>1, <1>2
  <2>. QED BY <1>1, <1>2, <2>1, SubSeqProperties
<1>5. ASSUME NEW n \in Name, name = Qualified(provider, n)
      PROVE  first = <<provider>> /\ n = rest
  <2>1. slash = 2 /\ SubSeq(name, 1, 1) = <<provider>> /\ SubSeq(name, 3, Len(name)) = n
    BY <1>5, QualifiedParts DEF slash
  <2>. QED BY <2>1
<1>6. ASSUME first = <<provider>>
      PROVE  name = Qualified(provider, rest)
  <2> HIDE DEF first, rest
  <2>1. slash = 2 /\ name[1] = provider
    BY <1>2, <1>3, <1>6
  <2>2. rest \in Name
    BY <1>4 DEF Name
  <2> DEFINE other == Qualified(provider, rest)
  <2>3. /\ other \in Seq(Token) /\ Len(other) = Len(rest) + 2
        /\ other[1] = provider /\ other[2] = "/"
        /\ \A k \in 1..Len(rest) : other[k + 2] = rest[k]
    BY <2>2, QualifiedParts DEF Name
  <2> HIDE DEF other
  <2>4. Len(other) = Len(name)
    BY <1>1, <1>2, <1>4, <2>1, <2>3
  <2>5. ASSUME NEW k \in 1..Len(name)
        PROVE  other[k] = name[k]
    <3>1. CASE k = 1
      BY <2>1, <2>3, <3>1
    <3>2. CASE k = 2
      BY <1>2, <2>1, <2>3, <3>2
    <3>3. CASE k # 1 /\ k # 2
      <4>1. k - 2 \in 1..Len(rest) /\ k - 2 \in 1..Len(name) - slash
            /\ (k - 2) + 2 = k /\ slash + (k - 2) = k
        BY <1>1, <1>4, <2>1, <3>3
      <4>2. other[(k - 2) + 2] = rest[k - 2] /\ rest[k - 2] = name[slash + (k - 2)]
        BY <1>4, <2>3, <4>1
      <4>. QED BY <4>1, <4>2
    <3>. QED BY <3>1, <3>2, <3>3
  <2>6. other = name
    BY <1>1, <2>3, <2>4, <2>5, SeqEqual
  <2>. QED BY <2>6 DEF other
<1>7. ASSUME Len(name) > 1, SubSeq(name, 1, 2) = <<provider, "/">>
      PROVE  first = <<provider>>
  <2> HIDE DEF first, rest
  <2>1. name[1] = provider /\ name[2] = "/" /\ 1 \in 1..Len(name) /\ 2 \in 1..Len(name)
    BY <1>1, <1>7, FirstTwo
  <2>2. provider # "/" /\ provider \in Token
    BY DEF ProviderName
  <2>3. slash = 2
    BY <1>1, <1>2, <2>1, <2>2
  <2>4. Len(first) = 1 /\ first[1] = provider /\ first \in Seq(Token)
    BY <1>3, <2>1, <2>3
  <2>5. <<provider>> \in Seq(Token) /\ Len(<<provider>>) = 1 /\ <<provider>>[1] = provider
    BY <2>2
  <2>. QED BY <2>4, <2>5, SeqEqual
<1>8. ASSUME first = <<provider>>
      PROVE  Len(name) > 1 /\ SubSeq(name, 1, 2) = <<provider, "/">>
  <2>1. rest \in Name /\ name = Qualified(provider, rest)
    BY <1>4, <1>6, <1>8 DEF Name
  <2>. QED BY <1>1, <2>1, QualifiedParts
<1>9. first \in Name /\ rest \in Name
  BY <1>3, <1>4 DEF Name
<1>. QED BY <1>5, <1>6, <1>7, <1>8, <1>9 DEF slash

\* What Resolve finds is what the name means.
LEMMA ResolvesToWhatIsMeant ==
  ASSUME Accepted, NEW model \in Name
  PROVE  LET name == Stripped(model)
             ours == \E i \in DOMAIN config :
                       Len(name) > 1 /\ SubSeq(name, 1, 2) = <<config[i].name, "/">>
         IN  IF Meant(name) = {}
             THEN Resolve(model) = IF ours THEN UnknownAlias ELSE Anthropic
             ELSE \E m \in Meant(name) :
                    /\ Meant(name) = {m}
                    /\ \E j \in DOMAIN config[m[1]].models :
                         /\ Matches(config[m[1]].models[j], m[2])
                         /\ Resolve(model) = Provider(m[1], config[m[1]].models[j])
<1> DEFINE name == Stripped(model)
           slash == FirstSlash(name)
           first == SubSeq(name, 1, slash - 1)
           rest == SubSeq(name, slash + 1, Len(name))
           ours == \E i \in DOMAIN config :
                     Len(name) > 1 /\ SubSeq(name, 1, 2) = <<config[i].name, "/">>
           Found(i, j, n) ==
             /\ Meant(name) = {<<i, n>>}
             /\ Matches(config[i].models[j], n)
             /\ Resolve(model) = Provider(i, config[i].models[j])
           Nothing == Meant(name) = {} /\ Resolve(model) = IF ours THEN UnknownAlias ELSE Anthropic
<1>1. name \in Name /\ Len(name) \in Nat
  BY StrippedIsName DEF Name
<1>2. Resolve(model) = IF slash = 0 THEN ResolveBare(name) ELSE ResolveQualified(first, rest)
  BY ResolveSplits
<1> SUFFICES \/ Nothing
             \/ \E i \in DOMAIN config : \E j \in DOMAIN config[i].models :
                  \E n : Found(i, j, n)
  <2>1. ASSUME NEW i \in DOMAIN config, NEW j \in DOMAIN config[i].models,
               NEW n, Found(i, j, n)
        PROVE  LET m == <<i, n>>
               IN  /\ Meant(name) # {} /\ m \in Meant(name) /\ Meant(name) = {m}
                   /\ j \in DOMAIN config[m[1]].models
                   /\ Matches(config[m[1]].models[j], m[2])
                   /\ Resolve(model) = Provider(m[1], config[m[1]].models[j])
    BY <2>1
  <2>2. CASE Nothing
    BY <2>2
  <2>3. CASE \E i \in DOMAIN config : \E j \in DOMAIN config[i].models :
               \E n : Found(i, j, n)
    <3>1. PICK i \in DOMAIN config : \E j \in DOMAIN config[i].models : \E n : Found(i, j, n)
      BY <2>3
    <3>2. PICK j \in DOMAIN config[i].models : \E n : Found(i, j, n)
      BY <3>1
    <3>3. PICK n : Found(i, j, n)
      BY <3>2
    <3> DEFINE m == <<i, n>>
    <3>4. /\ Meant(name) # {} /\ m \in Meant(name) /\ Meant(name) = {m}
          /\ j \in DOMAIN config[m[1]].models
          /\ Matches(config[m[1]].models[j], m[2])
          /\ Resolve(model) = Provider(m[1], config[m[1]].models[j])
      BY <2>1, <3>3
    <3> HIDE DEF m
    <3>. QED BY <3>4
  <2>. QED BY <2>2, <2>3
<1> HIDE DEF name
<1>3. \A i \in DOMAIN config : config[i].name \in ProviderName
  BY AcceptedShape
<1>4. CASE slash = 0
  <2>1. ~Contains(name, "/")
    BY <1>1, <1>4, FirstSlashIsFirst
  <2>2. \A i \in DOMAIN config : \A n \in Name : name # Qualified(config[i].name, n)
    BY <1>3, <1>4, QualifiedParts
  <2>3. ~ours
    <3>1. ASSUME NEW i \in DOMAIN config, Len(name) > 1,
                 SubSeq(name, 1, 2) = <<config[i].name, "/">>
          PROVE  FALSE
      <4>1. 2 \in 1..Len(name) /\ name[2] = "/"
        BY <1>1, <3>1, FirstTwo
      <4>. QED BY <2>1, <4>1 DEF Contains
    <3>. QED BY <3>1
  <2>4. CASE /\ Find(None, name) = NotFound
             /\ \A i \in DOMAIN config : \A j \in DOMAIN config[i].models :
                  ~Matches(config[i].models[j], name)
    <3>1. Meant(name) = {}
      BY <2>2, <2>4, WhatIsMeant
    <3>2. Nothing
      BY <1>2, <1>4, <2>3, <2>4, <3>1 DEF ResolveBare
    <3>. QED BY <3>2
  <2>5. CASE \E i \in DOMAIN config : \E j \in DOMAIN config[i].models :
               /\ Matches(config[i].models[j], name)
               /\ Find(None, name) = Provider(i, config[i].models[j])
    <3>1. PICK i \in DOMAIN config : \E j \in DOMAIN config[i].models :
                 /\ Matches(config[i].models[j], name)
                 /\ Find(None, name) = Provider(i, config[i].models[j])
      BY <2>5
    <3>2. PICK j \in DOMAIN config[i].models :
                 /\ Matches(config[i].models[j], name)
                 /\ Find(None, name) = Provider(i, config[i].models[j])
      BY <3>1
    <3>3. Meant(name) = {<<i, name>>}
      <4>1. <<i, name>> \in Meant(name)
        BY <1>1, <2>1, <3>2, WhatIsMeant
      <4>2. ASSUME NEW m \in Meant(name)
            PROVE  m = <<i, name>>
        <5>1. /\ m = <<m[1], m[2]>> /\ m[1] \in DOMAIN config /\ m[2] = name
              /\ \E l \in DOMAIN config[m[1]].models : Matches(config[m[1]].models[l], name)
          BY <2>2, WhatIsMeant
        <5>2. m[1] = i
          BY <1>1, <3>2, <5>1, OneModelForAName DEF Accepted
        <5>. QED BY <5>1, <5>2
      <4>. QED BY <4>1, <4>2
    <3>4. Found(i, j, name)
      BY <1>2, <1>4, <3>2, <3>3 DEF ResolveBare, Provider, NotFound
    <3>. QED BY <3>4
  <2>. QED BY <1>1, <2>4, <2>5, FindFinds
<1>5. CASE slash # 0
  <2>1. /\ first \in Name /\ rest \in Name /\ first # None
        /\ \A i \in DOMAIN config : \A n \in Name :
             name = Qualified(config[i].name, n) <=> first = <<config[i].name>> /\ n = rest
        /\ ours <=> \E i \in DOMAIN config : first = <<config[i].name>>
    <3> HIDE DEF first, rest
    <3>1. ASSUME NEW i \in DOMAIN config
          PROVE  /\ first \in Name /\ rest \in Name
                 /\ \A n \in Name : name = Qualified(config[i].name, n) <=>
                                      first = <<config[i].name>> /\ n = rest
                 /\ Len(name) > 1 /\ SubSeq(name, 1, 2) = <<config[i].name, "/">> <=>
                      first = <<config[i].name>>
      BY <1>1, <1>3, <1>5, SlashSplits DEF first, rest
    <3>2. first \in Name /\ rest \in Name
      BY <1>1, <1>5, PartsAreNames DEF first, rest
    <3>. QED BY <3>1, <3>2, NameAssumption
  <2>2. Contains(name, "/")
    BY <1>1, <1>5, FirstSlashIsFirst DEF Contains
  <2> HIDE DEF first, rest
  <2>3. CASE /\ Find(first, rest) = NotFound
             /\ \A i \in DOMAIN config : first \in {None, <<config[i].name>>} =>
                  \A j \in DOMAIN config[i].models : ~Matches(config[i].models[j], rest)
    <3>1. Meant(name) = {}
      BY <2>1, <2>2, <2>3, WhatIsMeant
    <3>2. Resolve(model) = IF ours THEN UnknownAlias ELSE Anthropic
      BY <1>2, <1>5, <2>1, <2>3 DEF ResolveQualified
    <3>. QED BY <3>1, <3>2
  <2>4. CASE \E i \in DOMAIN config : \E j \in DOMAIN config[i].models :
               /\ first \in {None, <<config[i].name>>}
               /\ Matches(config[i].models[j], rest)
               /\ Find(first, rest) = Provider(i, config[i].models[j])
    <3>1. PICK i \in DOMAIN config : \E j \in DOMAIN config[i].models :
                 /\ first \in {None, <<config[i].name>>}
                 /\ Matches(config[i].models[j], rest)
                 /\ Find(first, rest) = Provider(i, config[i].models[j])
      BY <2>4
    <3>2. PICK j \in DOMAIN config[i].models :
                 /\ first \in {None, <<config[i].name>>}
                 /\ Matches(config[i].models[j], rest)
                 /\ Find(first, rest) = Provider(i, config[i].models[j])
      BY <3>1
    <3>3. Meant(name) = {<<i, rest>>}
      <4>1. <<i, rest>> \in Meant(name)
        BY <2>1, <3>2, WhatIsMeant
      <4>2. ASSUME NEW m \in Meant(name)
            PROVE  m = <<i, rest>>
        <5>1. /\ m = <<m[1], m[2]>> /\ m[1] \in DOMAIN config /\ m[2] = rest
              /\ \E l \in DOMAIN config[m[1]].models : Matches(config[m[1]].models[l], rest)
          BY <2>1, <2>2, WhatIsMeant
        <5>2. m[1] = i
          BY <2>1, <3>2, <5>1, OneModelForAName DEF Accepted
        <5>. QED BY <5>1, <5>2
      <4>. QED BY <4>1, <4>2
    <3>4. Found(i, j, rest)
      BY <1>2, <1>5, <3>2, <3>3 DEF ResolveQualified, Provider, NotFound
    <3>. QED BY <3>4
  <2>. QED BY <2>1, <2>3, <2>4, FindFinds
<1>. QED BY <1>4, <1>5

-----------------------------------------------------------------------------
(* The inductive invariant: the file is one that was accepted, and the last *)
(* request went where its name resolves.                                   *)

Inv ==
  /\ Accepted
  /\ routed.model \in Requested \cup {None}
  /\ routed.model # None => routed.backend = Resolve(routed.model)

LEMMA InitInv == Init => Inv
<1> SUFFICES ASSUME Init PROVE Inv
  OBVIOUS
<1>1. config \in File /\ UniqueModels(config) /\ routed.model = None
  BY DEF Init
<1>. QED BY <1>1, FileAssumption DEF Inv, Accepted, ProviderSet

\* What a name resolves to depends on the configuration only.
LEMMA ResolveIsStable ==
  ASSUME config' = config
  PROVE  /\ Accepted => Accepted'
         /\ \A model : Resolve(model)' = Resolve(model)
<1>1. Accepted => Accepted'
  BY DEF Accepted
<1>2. \A wanted, name : FindIn(wanted, name)' = FindIn(wanted, name)
  BY DEF FindIn, SelectInSeq, Matches, Names, Provider, NotFound
<1>3. ASSUME NEW model
      PROVE  Resolve(model)' = Resolve(model)
  <2>1. \A provider, name : Find(provider, name)' = Find(provider, name)
    BY <1>2 DEF Find
  <2>2. \A name : ResolveBare(name)' = ResolveBare(name)
    BY <2>1 DEF ResolveBare, NotFound, Anthropic
  <2>3. \A provider, name : ResolveQualified(provider, name)' = ResolveQualified(provider, name)
    BY <2>1 DEF ResolveQualified, NotFound, Anthropic, UnknownAlias
  <2>. QED BY <2>2, <2>3 DEF Resolve, Stripped, StripMarker, StripPrefix, SelectInSeq
<1>. QED BY <1>1, <1>3

LEMMA StepInv == Inv /\ [Next]_vars => Inv'
<1> SUFFICES ASSUME Inv, [Next]_vars PROVE Inv'
  OBVIOUS
<1>1. CASE UNCHANGED vars
  <2>1. config' = config /\ routed' = routed
    BY <1>1 DEF vars
  <2>. QED BY <2>1, ResolveIsStable DEF Inv
<1>2. ASSUME NEW model \in Requested \cup {None}, Route(model)
      PROVE  Inv'
  <2>1. config' = config /\ routed'.model = model
        /\ (model # None => routed'.backend = Resolve(model))
    BY <1>2 DEF Route
  <2>. QED BY <2>1, ResolveIsStable DEF Inv
<1>. QED BY <1>1, <1>2 DEF Next

\* The inductive invariant holds of every behaviour: the worker's configuration
\* never stops being one that config.rs accepted (config.rs 417-435).
THEOREM Invariance == Spec => []Inv
<1>1. Init => Inv
  BY InitInv
<1>2. Inv /\ [Next]_vars => Inv'
  BY StepInv
<1>. QED BY <1>1, <1>2, PTL DEF Spec

\* Whatever providers, models and shorthands an accepted file has, each name
\* that /v1/models, the Agent tool and the picker offer selects its model.
THEOREM NamesOfferedRoute == Spec => []OfferedNamesRoute
<1>1. Inv => OfferedNamesRoute
  BY AcceptedOffersRoute DEF Inv
<1>. QED BY <1>1, Invariance, PTL

\* A request never goes to a provider its name does not mean, whatever names
\* clients send: two models never compete for it, and none is missed.
THEOREM RequestsRoute == Spec => []RequestsGoWhereMeant
<1>1. Inv => RequestsGoWhereMeant
  <2> SUFFICES ASSUME Inv, routed.model # None PROVE RequestsGoWhereMeant
    BY DEF RequestsGoWhereMeant
  <2>1. routed.model \in Name /\ Accepted /\ routed.backend = Resolve(routed.model)
    BY NameAssumption DEF Inv
  <2> DEFINE name == Stripped(routed.model)
             ours == \E i \in DOMAIN config :
                       Len(name) > 1 /\ SubSeq(name, 1, 2) = <<config[i].name, "/">>
  <2>2. IF Meant(name) = {}
        THEN Resolve(routed.model) = IF ours THEN UnknownAlias ELSE Anthropic
        ELSE \E m \in Meant(name) :
               /\ Meant(name) = {m}
               /\ \E j \in DOMAIN config[m[1]].models :
                    /\ Matches(config[m[1]].models[j], m[2])
                    /\ Resolve(routed.model) = Provider(m[1], config[m[1]].models[j])
    BY <2>1, ResolvesToWhatIsMeant
  <2>3. \A i : \A model : /\ Provider(i, model).kind = "provider"
                          /\ Provider(i, model).provider = i
                          /\ Provider(i, model).realModel = model.upstream
    BY DEF Provider
  <2>. QED BY <2>1, <2>2, <2>3 DEF RequestsGoWhereMeant
<1>. QED BY <1>1, Invariance, PTL
=============================================================================
