---------------------------- MODULE Worker_proof ----------------------------
(***************************************************************************)
(* Proofs about what the requests of a worker share: Dispatch, for any     *)
(* requests, conversations, keys they have in common, providers, intervals *)
(* and size of the tracker; UserConfigs, for every set of requests, users  *)
(* and documents and every number of modification times and reloads; and   *)
(* Tunnel, for every set of requests and of ports and every number of ssh  *)
(* processes.                                                              *)
(***************************************************************************)
EXTENDS Dispatch, UserConfigs, Tunnel, FiniteSetTheorems, TLAPS

-----------------------------------------------------------------------------
(* The inductive invariant.                                                *)

TrackerIsFinite == IsFiniteSet(Tracked)

\* A conversation not forgotten is tracked, at its turn or at a later one of
\* another conversation.
KeptFits ==
  \A c \in Conversation \ wiped :
    last[c] # None => KeyOf[c] \in Tracked /\ last[c] <= seen[KeyOf[c]]

\* What is tracked is the turn of one of the conversations with the key.
SourceFits ==
  \A key \in Tracked :
    \E c \in Conversation \ wiped : KeyOf[c] = key /\ last[c] = seen[key]

IInv ==
  /\ TypeOK /\ TrackerIsFinite /\ OverrideIsSpentOnce
  /\ KeptFits /\ SourceFits

-----------------------------------------------------------------------------
\* What TypeOK says of the tracker.
LEMMA SeenTyped ==
  ASSUME TypeOK
  PROVE  /\ Tracked \subseteq Key /\ seen \in [Tracked -> Turn]
         /\ Cardinality(Tracked) <= MaxTracked
BY DEF TypeOK, Tracked

\* The empty tracker.
LEMMA EmptyTyped == Empty \in [{} -> Turn] /\ DOMAIN Empty = {}
BY DEF Empty

\* Room is made without forgetting the conversation it is made for, and there is
\* room then.
LEMMA RoomMade ==
  ASSUME TypeOK, TrackerIsFinite, NEW key \in Key
  PROVE  LET map == Room(key)
         IN  /\ DOMAIN map \subseteq Tracked /\ map \in [DOMAIN map -> Turn]
             /\ \A k \in DOMAIN map : map[k] = seen[k]
             /\ key \in Tracked => key \in DOMAIN map
             /\ DOMAIN map = Tracked \/ DOMAIN map = {}
             /\ IsFiniteSet(DOMAIN map \cup {key})
             /\ Cardinality(DOMAIN map) <= MaxTracked
             /\ Cardinality(DOMAIN map \cup {key}) <= MaxTracked
<1>1. CASE Cardinality(Tracked) >= MaxTracked /\ key \notin Tracked
  <2>1. Room(key) = Empty
    BY <1>1 DEF Room
  <2>2. Cardinality({}) = 0 /\ {} \cup {key} = {key}
    BY FS_EmptySet
  <2>3. IsFiniteSet({key}) /\ Cardinality({key}) = 1
    BY FS_Singleton
  <2>. QED BY <1>1, <2>1, <2>2, <2>3, EmptyTyped, BoundAssumption
<1>2. CASE ~(Cardinality(Tracked) >= MaxTracked /\ key \notin Tracked)
  <2>1. Room(key) = seen /\ DOMAIN Room(key) = Tracked
    BY <1>2 DEF Room, Tracked
  <2>2. Cardinality(Tracked) \in Nat /\ IsFiniteSet(Tracked)
    BY FS_CardinalityType DEF TrackerIsFinite
  <2>3. IsFiniteSet(Tracked \cup {key})
    BY <2>2, FS_AddElement
  <2>4. Cardinality(Tracked \cup {key}) <= MaxTracked
    <3>1. CASE key \in Tracked
      <4>1. Tracked \cup {key} = Tracked
        BY <3>1
      <4>. QED BY <4>1, SeenTyped
    <3>2. CASE key \notin Tracked
      <4>1. Cardinality(Tracked \cup {key}) = Cardinality(Tracked) + 1
        BY <2>2, <3>2, FS_AddElement
      <4>. QED BY <1>2, <2>2, <3>2, <4>1, BoundAssumption
    <3>. QED BY <3>1, <3>2
  <2>. QED BY <2>1, <2>2, <2>3, <2>4, SeenTyped
<1>. QED BY <1>1, <1>2

\* Initially nothing is armed, tracked or under way.
LEMMA InitKeeps ==
  ASSUME Init
  PROVE  IInv
<1> USE DEF Init
<1>1. Tracked = {} /\ seen \in [{} -> Turn]
  BY EmptyTyped DEF Tracked
<1>2. IsFiniteSet({}) /\ Cardinality({}) = 0
  BY FS_EmptySet
<1>3. \E keys \in SUBSET Key : seen \in [keys -> Turn] /\ Cardinality(keys) <= MaxTracked
  <2>1. {} \in SUBSET Key /\ Cardinality({}) <= MaxTracked
    BY <1>2, BoundAssumption
  <2>. QED BY <1>1, <2>1
<1>4. /\ armed \in BOOLEAN
      /\ stage \in [Request -> {"idle", "turn", "compacting", "decided"}]
      /\ decision \in [Request -> Decision \cup {None}]
      /\ armings \in 0..MaxArmings /\ bypasses \in Nat
      /\ last \in [Conversation -> Turn \cup {None}]
      /\ wiped \subseteq Conversation
  <2>1. armings \in 0..MaxArmings /\ bypasses \in Nat /\ wiped \subseteq Conversation
    BY BoundAssumption
  <2>2. armed \in BOOLEAN
    OBVIOUS
  <2>3. /\ stage \in [Request -> {"idle", "turn", "compacting", "decided"}]
        /\ decision \in [Request -> Decision \cup {None}]
        /\ last \in [Conversation -> Turn \cup {None}]
    OBVIOUS
  <2>. QED BY <2>1, <2>2, <2>3
<1>5. TypeOK
  <2> HIDE DEF Init
  <2>. QED BY <1>3, <1>4 DEF TypeOK
<1>. QED BY <1>1, <1>2, <1>5, BoundAssumption
     DEF IInv, TrackerIsFinite, OverrideIsSpentOnce, KeptFits, SourceFits

\* Steps that leave the tracker alone keep what is said of it.
LEMMA TrackerKept ==
  ASSUME IInv, UNCHANGED reminderVars
  PROVE  /\ TrackerIsFinite' /\ KeptFits' /\ SourceFits'
         /\ \E keys \in SUBSET Key : seen' \in [keys -> Turn] /\ Cardinality(keys) <= MaxTracked
         /\ last' \in [Conversation -> Turn \cup {None}] /\ wiped' \subseteq Conversation
BY DEF IInv, TypeOK, reminderVars, TrackerIsFinite, KeptFits, SourceFits, Tracked

\* Steps that leave the override alone keep what is said of it.
LEMMA OverrideKept ==
  ASSUME IInv, UNCHANGED overrideVars
  PROVE  /\ OverrideIsSpentOnce'
         /\ armed' \in BOOLEAN /\ armings' \in 0..MaxArmings /\ bypasses' \in Nat
BY DEF IInv, TypeOK, overrideVars, OverrideIsSpentOnce

\* The steps of the override keep the invariant.
LEMMA OverrideKeeps ==
  ASSUME IInv, Arm \/ \E r \in Request : Take(r)
  PROVE  IInv'
<1>0. /\ armed \in BOOLEAN /\ armings \in Nat /\ bypasses \in Nat
      /\ bypasses + (IF armed THEN 1 ELSE 0) <= armings
  BY BoundAssumption DEF IInv, TypeOK, OverrideIsSpentOnce
<1>1. CASE Arm
  <2> USE <1>1 DEF Arm
  <2>1. OverrideIsSpentOnce'
    BY <1>0 DEF OverrideIsSpentOnce
  <2>2. TypeOK'
    BY <1>0, TrackerKept, BoundAssumption DEF IInv, TypeOK
  <2>. QED BY <2>1, <2>2, TrackerKept DEF IInv
<1>2. ASSUME NEW r \in Request, Take(r)
      PROVE  IInv'
  <2> USE <1>2 DEF Take
  <2>1. OverrideIsSpentOnce' /\ bypasses' \in Nat
    BY <1>0 DEF OverrideIsSpentOnce
  <2>2. TypeOK'
    BY <2>1, TrackerKept DEF IInv, TypeOK, Move
  <2>. QED BY <2>1, <2>2, TrackerKept DEF IInv
<1>. QED BY <1>1, <1>2

\* Steps that touch neither keep the invariant.
LEMMA OthersKeep ==
  ASSUME IInv, NEW r \in Request, Recognised(r) \/ Elsewhere(r) \/ NotDue(r) \/ Finish(r)
  PROVE  IInv'
<1>1. UNCHANGED <<overrideVars, reminderVars>>
  BY DEF Recognised, Elsewhere, NotDue, Finish
<1>2. /\ stage' \in [Request -> {"idle", "turn", "compacting", "decided"}]
      /\ decision' \in [Request -> Decision \cup {None}]
  BY DEF Recognised, Elsewhere, NotDue, Finish, Move, IInv, TypeOK
<1>3. TypeOK'
  BY <1>1, <1>2, TrackerKept, OverrideKept DEF TypeOK
<1>. QED BY <1>1, <1>3, TrackerKept, OverrideKept DEF IInv

\* The decision of should_remind keeps the invariant.
LEMMA RemindKeeps ==
  ASSUME IInv, NEW r \in Request, NEW c \in Conversation, NEW turn \in Turn,
         NEW p \in Provider, Remind(r, c, turn, p)
  PROVE  IInv'
<1> DEFINE key == KeyOf[c]
           map == Room(key)
           forgotten == {d \in Conversation : KeyOf[d] \in Tracked \ DOMAIN map}
           reminded == ~Early(map, key, turn, p)
<1>1. key \in Key /\ Interval[p] \in Nat /\ turn \in Nat /\ Turn \subseteq Nat
  BY KeyAssumption, IntervalAssumption, BoundAssumption DEF Turn
<1>2. /\ DOMAIN map \subseteq Tracked /\ map \in [DOMAIN map -> Turn]
      /\ \A k \in DOMAIN map : map[k] = seen[k]
      /\ key \in Tracked => key \in DOMAIN map
      /\ DOMAIN map = Tracked \/ DOMAIN map = {}
      /\ IsFiniteSet(DOMAIN map \cup {key})
      /\ Cardinality(DOMAIN map) <= MaxTracked
      /\ Cardinality(DOMAIN map \cup {key}) <= MaxTracked
  BY <1>1, RoomMade DEF IInv
<1>3. /\ Tracked \subseteq Key /\ \A k \in Tracked : seen[k] \in Nat
      /\ last \in [Conversation -> Turn \cup {None}] /\ wiped \subseteq Conversation
  BY <1>1, SeenTyped DEF IInv, TypeOK
<1>4. /\ seen' = IF reminded
                 THEN [k \in DOMAIN map \cup {key} |-> IF k = key THEN turn ELSE map[k]]
                 ELSE map
      /\ last' = [last EXCEPT ![c] = IF reminded THEN turn ELSE @]
      /\ wiped' = (wiped \cup forgotten) \ (IF reminded THEN {c} ELSE {})
      /\ UNCHANGED overrideVars
  BY DEF Remind
<1>5. /\ stage' \in [Request -> {"idle", "turn", "compacting", "decided"}]
      /\ decision' \in [Request -> Decision \cup {None}]
  <2>1. reminded \in BOOLEAN
    BY DEF Early
  <2>2. [of |-> c, turn |-> turn, by |-> p, reminded |-> reminded] \in Decision
    BY <2>1 DEF Decision
  <2>. QED BY <2>2 DEF Remind, Move, IInv, TypeOK
<1>6. reminded => \A k \in DOMAIN map : k = key => map[k] <= turn
  BY <1>1, <1>2, <1>3 DEF Early
<1> HIDE DEF map, reminded, forgotten, key
<1>7. CASE reminded
  <2>1. /\ Tracked' = DOMAIN map \cup {key} /\ seen'[key] = turn
        /\ \A k \in DOMAIN map : k # key => seen'[k] = seen[k]
        /\ seen' \in [DOMAIN map \cup {key} -> Turn]
    BY <1>2, <1>4, <1>7 DEF Tracked
  <2>2. /\ last'[c] = turn /\ \A d \in Conversation : d # c => last'[d] = last[d]
        /\ wiped' = (wiped \cup forgotten) \ {c}
        /\ last' \in [Conversation -> Turn \cup {None}] /\ wiped' \subseteq Conversation
    BY <1>3, <1>4, <1>7 DEF forgotten
  <2>3. TypeOK'
    BY <1>1, <1>2, <1>3, <1>4, <1>5, <2>1, <2>2, OverrideKept DEF TypeOK
  <2>4. TrackerIsFinite'
    BY <1>2, <2>1 DEF TrackerIsFinite
  <2>5. KeptFits'
    <3> SUFFICES ASSUME NEW d \in Conversation \ wiped', last'[d] # None
                 PROVE  KeyOf[d] \in Tracked' /\ last'[d] <= seen'[KeyOf[d]]
      BY DEF KeptFits
    <3>1. CASE d = c
      BY <1>1, <2>1, <2>2, <3>1 DEF key
    <3>2. CASE d # c
      <4>1. d \notin wiped /\ d \notin forgotten /\ last'[d] = last[d]
        BY <2>2, <3>2
      <4>2. KeyOf[d] \in Tracked /\ last[d] <= seen[KeyOf[d]] /\ last[d] \in Nat
        BY <1>1, <1>3, <4>1 DEF IInv, KeptFits
      <4>3. KeyOf[d] \in DOMAIN map
        BY <4>1, <4>2 DEF forgotten
      <4>4. KeyOf[d] = key => seen[key] <= turn
        BY <1>2, <1>6, <1>7, <4>3
      <4>. QED BY <1>1, <1>3, <2>1, <4>1, <4>2, <4>3, <4>4
    <3>. QED BY <3>1, <3>2
  <2>6. SourceFits'
    <3> SUFFICES ASSUME NEW k \in Tracked'
                 PROVE  \E d \in Conversation \ wiped' : KeyOf[d] = k /\ last'[d] = seen'[k]
      BY DEF SourceFits
    <3>1. CASE k = key
      BY <2>1, <2>2, <3>1 DEF key
    <3>2. CASE k # key
      <4>1. k \in DOMAIN map /\ k \in Tracked
        BY <1>2, <2>1, <3>2
      <4>2. PICK d \in Conversation \ wiped : KeyOf[d] = k /\ last[d] = seen[k]
        BY <4>1 DEF IInv, SourceFits
      <4>3. d # c /\ d \notin forgotten
        BY <3>2, <4>1, <4>2 DEF key, forgotten
      <4>. QED BY <2>1, <2>2, <3>2, <4>1, <4>2, <4>3
    <3>. QED BY <3>1, <3>2
  <2>. QED BY <2>3, <2>4, <2>5, <2>6, <1>4, OverrideKept DEF IInv
<1>8. CASE ~reminded
  <2>1. map = seen
    <3>1. key \in DOMAIN map
      BY <1>8 DEF reminded, Early
    <3>. QED BY <1>2, <3>1 DEF map, Room, Tracked
  <2>2. UNCHANGED reminderVars
    <3>1. seen' = seen
      BY <1>4, <1>8, <2>1
    <3>2. last' = last
      BY <1>3, <1>4, <1>8
    <3>3. forgotten = {}
      BY <2>1 DEF forgotten, Tracked
    <3>. QED BY <1>4, <1>8, <3>1, <3>2, <3>3 DEF reminderVars
  <2>3. TypeOK'
    BY <1>4, <1>5, <2>2, TrackerKept, OverrideKept DEF TypeOK
  <2>. QED BY <1>4, <2>2, <2>3, TrackerKept, OverrideKept DEF IInv
<1>. QED BY <1>7, <1>8

\* Every step keeps the invariant.
LEMMA NextKeeps ==
  ASSUME IInv, [Next]_vars
  PROVE  IInv'
<1>1. CASE UNCHANGED vars
  <2>1. UNCHANGED <<stage, decision, overrideVars, reminderVars>>
    BY <1>1 DEF vars
  <2>2. TypeOK'
    BY <2>1, TrackerKept, OverrideKept DEF TypeOK, IInv
  <2>. QED BY <2>1, <2>2, TrackerKept, OverrideKept DEF IInv
<1>2. CASE Arm \/ \E r \in Request : Take(r)
  BY <1>2, OverrideKeeps
<1>3. ASSUME NEW r \in Request, Recognised(r) \/ Elsewhere(r) \/ NotDue(r) \/ Finish(r)
      PROVE  IInv'
  BY <1>3, OthersKeep
<1>4. ASSUME NEW r \in Request, NEW c \in Conversation, NEW turn \in Turn,
             NEW p \in Provider, Remind(r, c, turn, p)
      PROVE  IInv'
  BY <1>4, RemindKeeps
<1>. QED BY <1>1, <1>2, <1>3, <1>4 DEF Next

-----------------------------------------------------------------------------
\* The inductive invariant: a conversation not forgotten is tracked, at a turn
\* not before its own, and what is tracked is the turn of a conversation with
\* the key (continuation.rs 163-177).
THEOREM Invariance == Spec => []IInv
<1>1. Init => IInv
  BY InitKeeps
<1>2. IInv /\ [Next]_vars => IInv'
  BY NextKeeps
<1>. QED BY <1>1, <1>2, PTL DEF Spec

\* Every variable keeps its type, and no more than MaxTracked keys are tracked
\* (continuation.rs 165-170).
THEOREM TrackerIsBounded == Spec => []TypeOK
<1>1. IInv => TypeOK
  BY DEF IInv
<1>. QED BY <1>1, Invariance, PTL

\* One phrase lets one unrecognised request through (compact.rs 97-105).
THEOREM SpentOnce == Spec => []OverrideIsSpentOnce
<1>1. IInv => OverrideIsSpentOnce
  BY DEF IInv
<1>. QED BY <1>1, Invariance, PTL

\* Only Remind decides, and it decides for one request.
LEMMA OnlyRemindDecides ==
  ASSUME IInv, [Next]_vars, NEW r \in Request, Decides(r)
  PROVE  \E c \in Conversation, turn \in Turn, p \in Provider :
           /\ Remind(r, c, turn, p)
           /\ decision'[r] = [of |-> c, turn |-> turn, by |-> p,
                              reminded |-> ~Early(Room(KeyOf[c]), KeyOf[c], turn, p)]
<1>1. decision'[r] # decision[r] /\ decision'[r] # None
  BY DEF Decides
<1>2. Next /\ decision' # decision
  BY <1>1 DEF vars
<1>3. PICK s \in Request :
        \/ Take(s) \/ Recognised(s) \/ Elsewhere(s) \/ NotDue(s) \/ Finish(s)
        \/ \E c \in Conversation, turn \in Turn, p \in Provider : Remind(s, c, turn, p)
  BY <1>2 DEF Next, Arm
<1>4. ~(Take(s) \/ Recognised(s) \/ Elsewhere(s) \/ NotDue(s) \/ Finish(s))
  BY <1>1, <1>2 DEF Take, Recognised, Elsewhere, NotDue, Finish, IInv, TypeOK
<1>5. PICK c \in Conversation, turn \in Turn, p \in Provider : Remind(s, c, turn, p)
  BY <1>3, <1>4
<1>6. decision' = [decision EXCEPT ![s] =
                     [of |-> c, turn |-> turn, by |-> p,
                      reminded |-> ~Early(Room(KeyOf[c]), KeyOf[c], turn, p)]]
  BY <1>5 DEF Remind
<1>7. s = r
  BY <1>1, <1>6
<1>8. decision \in [Request -> Decision \cup {None}]
  BY DEF IInv, TypeOK
<1>. QED BY <1>5, <1>6, <1>7, <1>8

\* No conversation is reminded twice within an interval, for any numbers of
\* conversations, shared keys, providers and turns, unless the tracker was
\* emptied in between (continuation.rs 145-177).
THEOREM Paced == Spec => RemindersArePaced
<1>1. ASSUME IInv, [Next]_vars, NEW r \in Request, Decides(r), decision'[r].reminded
      PROVE  LET now == decision'[r]
             IN  \/ last[now.of] = None \/ now.of \in wiped
                 \/ now.turn >= last[now.of] + Interval[now.by]
  <2>1. PICK c \in Conversation, turn \in Turn, p \in Provider :
          decision'[r] = [of |-> c, turn |-> turn, by |-> p,
                          reminded |-> ~Early(Room(KeyOf[c]), KeyOf[c], turn, p)]
    BY <1>1, OnlyRemindDecides
  <2>2. ~Early(Room(KeyOf[c]), KeyOf[c], turn, p)
    <3> DEFINE reminded == ~Early(Room(KeyOf[c]), KeyOf[c], turn, p)
    <3>1. decision'[r].reminded = reminded
      <4> HIDE DEF reminded
      <4>. QED BY <2>1 DEF reminded
    <3>. QED BY <1>1, <3>1, Zenon
  <2>3. ASSUME last[c] # None, c \notin wiped
        PROVE  turn >= last[c] + Interval[p]
    <3>1. KeyOf[c] \in Tracked /\ last[c] <= seen[KeyOf[c]]
      BY <1>1, <2>3 DEF IInv, KeptFits
    <3>2. Room(KeyOf[c]) = seen
      BY <3>1 DEF Room
    <3>3. ~(turn < seen[KeyOf[c]] + Interval[p])
      BY <2>2, <3>1, <3>2 DEF Early, Tracked
    <3>4. /\ seen[KeyOf[c]] \in Nat /\ last[c] \in Nat
          /\ turn \in Nat /\ Interval[p] \in Nat
      <4>1. Turn \subseteq Nat
        BY BoundAssumption DEF Turn
      <4>2. last[c] \in Turn
        BY <1>1, <2>3 DEF IInv, TypeOK
      <4>. QED BY <1>1, <3>1, <4>1, <4>2, SeenTyped, IntervalAssumption DEF IInv
    <3>. QED BY <3>1, <3>3, <3>4
  <2>. QED BY <2>1, <2>3
<1>2. IInv /\ [Next]_vars =>
        [\A r \in Request :
           LET now == decision'[r]
           IN  Decides(r) /\ now.reminded =>
                 \/ last[now.of] = None \/ now.of \in wiped
                 \/ now.turn >= last[now.of] + Interval[now.by]]_vars
  BY <1>1
<1>. QED BY <1>2, Invariance, PTL DEF Spec, RemindersArePaced

\* A due request does without the reminder only because a conversation with its
\* key had one within the interval (continuation.rs 171-176).
THEOREM Reminded == Spec => DueIsReminded
<1>1. ASSUME IInv, [Next]_vars, NEW r \in Request, Decides(r), ~decision'[r].reminded
      PROVE  LET now == decision'[r]
             IN  \E c \in Conversation \ wiped :
                   /\ KeyOf[c] = KeyOf[now.of] /\ last[c] # None
                   /\ now.turn < last[c] + Interval[now.by]
  <2>1. PICK c \in Conversation, turn \in Turn, p \in Provider :
          decision'[r] = [of |-> c, turn |-> turn, by |-> p,
                          reminded |-> ~Early(Room(KeyOf[c]), KeyOf[c], turn, p)]
    BY <1>1, OnlyRemindDecides
  <2>2. Early(Room(KeyOf[c]), KeyOf[c], turn, p)
    <3> DEFINE reminded == ~Early(Room(KeyOf[c]), KeyOf[c], turn, p)
    <3>1. decision'[r].reminded = reminded
      <4> HIDE DEF reminded
      <4>. QED BY <2>1 DEF reminded
    <3>. QED BY <1>1, <3>1, Zenon
  <2>3. Room(KeyOf[c]) = seen /\ KeyOf[c] \in Tracked
    BY <2>2, EmptyTyped DEF Early, Room, Tracked
  <2>4. PICK d \in Conversation \ wiped : KeyOf[d] = KeyOf[c] /\ last[d] = seen[KeyOf[c]]
    BY <1>1, <2>3 DEF IInv, SourceFits
  <2>5. seen[KeyOf[c]] \in Nat
    BY <1>1, <2>3, SeenTyped, BoundAssumption DEF IInv, Turn
  <2>6. last[d] # None /\ turn < last[d] + Interval[p]
    BY <2>2, <2>3, <2>4, <2>5, NoneAssumption DEF Early
  <2>. QED BY <2>1, <2>4, <2>6
<1>2. IInv /\ [Next]_vars =>
        [\A r \in Request :
           LET now == decision'[r]
           IN  Decides(r) /\ ~now.reminded =>
                 \E c \in Conversation \ wiped :
                   /\ KeyOf[c] = KeyOf[now.of] /\ last[c] # None
                   /\ now.turn < last[c] + Interval[now.by]]_vars
  BY <1>1
<1>. QED BY <1>2, Invariance, PTL DEF Spec, DueIsReminded

-----------------------------------------------------------------------------
(* UserConfigs, by an instance: the configuration requests find on their   *)
(* way to the dispatch.                                                    *)

\* What the caller's file means now.
Now(u) == Loaded(file[u].content)

Underway(r) == getting[r] \in {"looking", "loading", "filling"}

CallersFit == \A r \in Request : Underway(r) => caller[r] \in User

\* Every time in use is one the file had.
TimesFit ==
  /\ \A u \in User : file[u].mtime \in past[u]
  /\ \A u \in User : cache[u] # None => cache[u].mtime \in past[u]
  /\ \A r \in Request : Underway(r) => mtime[r] \in past[caller[r]]

\* A request under way has seen what the file means now, and what it loaded.
DuringFits ==
  \A r \in Request :
    /\ Underway(r) => Now(caller[r]) \in during[r]
    /\ getting[r] = "filling" => chosen[r] \in during[r]

\* What is cached, or about to be, under the time of the file is the file's.
LatestFits ==
  \A u \in User \ returned :
    /\ cache[u] # None /\ cache[u].mtime = file[u].mtime => cache[u].config = Now(u)
    /\ \A q \in Request :
         getting[q] = "filling" /\ caller[q] = u /\ mtime[q] = file[u].mtime
           => chosen[q] = Now(u)

\* What a request may find under the time it read was in the file since.
FindsFit(r) ==
  /\ cache[caller[r]] # None /\ cache[caller[r]].mtime = mtime[r]
       => cache[caller[r]].config \in during[r]
  /\ \A q \in Request :
       getting[q] = "filling" /\ caller[q] = caller[r] /\ mtime[q] = mtime[r]
         => chosen[q] \in during[r]

LookingFits ==
  \A r \in Request : getting[r] = "looking" /\ caller[r] \notin returned => FindsFit(r)

UsersInv ==
  /\ ConfigsTypeOK /\ CallersFit /\ TimesFit /\ DuringFits /\ LatestFits /\ LookingFits
  /\ ServedFromTheFile

-----------------------------------------------------------------------------
\* What a file means is a document.
LEMMA NowTyped ==
  ASSUME ConfigsTypeOK
  PROVE  \A u \in User : Now(u) \in Document
BY DEF ConfigsTypeOK, Now, Loaded

\* The members of File and Entry, field by field.
LEMMA FieldsTyped ==
  ASSUME ConfigsTypeOK
  PROVE  /\ \A u \in User : file[u].mtime \in Time \cup {None}
         /\ \A u \in User : cache[u] # None => /\ cache[u].config \in Document
                                               /\ cache[u].mtime \in Time \cup {None}
BY DEF ConfigsTypeOK, File, Entry

\* Initially there is no entry and nobody looks.
LEMMA UsersInit ==
  ASSUME ConfigsInit
  PROVE  UsersInv
<1> USE DEF ConfigsInit
<1>1. past \in [User -> SUBSET (Time \cup {None})]
  BY DEF File
<1>2. ConfigsTypeOK
  BY <1>1, ReloadAssumption DEF ConfigsTypeOK
<1>3. TimesFit
  BY DEF TimesFit, Underway
<1>. QED BY <1>2, <1>3 DEF UsersInv, CallersFit, DuringFits, LatestFits, LookingFits,
                            ServedFromTheFile, Underway

\* A request served from the daemon's configuration keeps the invariant.
LEMMA UseDaemonsKeeps ==
  ASSUME UsersInv, NEW r \in Request,
         UseDaemons(r) \/ UseFallback(r)
  PROVE  UsersInv'
<1> USE DEF UseDaemons, UseFallback, historyVars
<1>0. UNCHANGED <<file, config, fallback, cache, mtime, during, past,
                 returned, reloads>>
  OBVIOUS
<1>1. ConfigsTypeOK'
  BY <1>0 DEF UsersInv, ConfigsTypeOK
<1>2. CallersFit' /\ TimesFit'
  BY <1>0 DEF UsersInv, ConfigsTypeOK, CallersFit, TimesFit, Underway
<1>3. DuringFits'
  BY <1>0 DEF UsersInv, ConfigsTypeOK, DuringFits, Underway, Now, Loaded
<1>4. LatestFits'
  BY <1>0 DEF UsersInv, ConfigsTypeOK, LatestFits, Now, Loaded
<1>5. LookingFits'
  BY <1>0 DEF UsersInv, ConfigsTypeOK, LookingFits, FindsFit
<1>6. ServedFromTheFile'
  BY <1>0, CallerAssumption DEF UsersInv, ConfigsTypeOK,
              ServedFromTheFile
<1>. QED BY <1>1, <1>2, <1>3, <1>4, <1>5, <1>6 DEF UsersInv

\* Reading the time keeps the invariant.
LEMMA StatKeeps ==
  ASSUME UsersInv, NEW r \in Request, NEW u \in User, Stat(r, u)
  PROVE  UsersInv'
<1> USE DEF Stat
<1>0. UNCHANGED <<file, config, fallback, cache, chosen, past, returned, reloads>>
  OBVIOUS
<1>1. ConfigsTypeOK'
  BY <1>0, NowTyped, FieldsTyped DEF UsersInv, ConfigsTypeOK, Now
<1>2. CallersFit' /\ TimesFit'
  BY <1>0 DEF UsersInv, ConfigsTypeOK, CallersFit, TimesFit, Underway
<1>3. DuringFits'
  BY <1>0 DEF UsersInv, ConfigsTypeOK, DuringFits, Underway, Now, Loaded
<1>4. LatestFits'
  BY <1>0 DEF UsersInv, ConfigsTypeOK, LatestFits, Now, Loaded
<1>5. LookingFits'
  <2> SUFFICES ASSUME NEW s \in Request, getting'[s] = "looking", caller'[s] \notin returned
               PROVE  FindsFit(s)'
    BY <1>0 DEF LookingFits
  <2>1. CASE s = r
    BY <1>0, <2>1 DEF UsersInv, ConfigsTypeOK, LatestFits, FindsFit, Now, Loaded
  <2>2. CASE s # r
    BY <1>0, <2>2 DEF UsersInv, ConfigsTypeOK, LookingFits, FindsFit
  <2>. QED BY <2>1, <2>2
<1>6. ServedFromTheFile'
  BY <1>0 DEF UsersInv, ConfigsTypeOK, ServedFromTheFile
<1>. QED BY <1>1, <1>2, <1>3, <1>4, <1>5, <1>6 DEF UsersInv

\* Looking into the cache keeps the invariant.
LEMMA LookUpKeeps ==
  ASSUME UsersInv, NEW r \in Request, LookUp(r)
  PROVE  UsersInv'
<1> USE DEF LookUp, historyVars
<1>0. UNCHANGED <<file, config, fallback, cache, caller, mtime, during, past,
                 returned, reloads>>
  OBVIOUS
<1>1. caller[r] \in User /\ getting[r] = "looking"
  BY DEF UsersInv, CallersFit, Underway
<1>2. /\ getting' \in [Request -> {"idle", "looking", "loading", "filling", "configured"}]
      /\ chosen' \in [Request -> Document \cup {None}]
  BY <1>1, FieldsTyped DEF UsersInv, ConfigsTypeOK
<1>3. ConfigsTypeOK'
  BY <1>0, <1>2 DEF UsersInv, ConfigsTypeOK
<1>4. CallersFit' /\ TimesFit'
  BY <1>0 DEF UsersInv, ConfigsTypeOK, CallersFit, TimesFit, Underway
<1>5. \A s \in Request : s # r => getting'[s] = getting[s] /\ chosen'[s] = chosen[s]
  BY DEF UsersInv, ConfigsTypeOK
<1>6. getting'[r] \in {"loading", "configured"}
  BY DEF UsersInv, ConfigsTypeOK
<1>7. DuringFits'
  BY <1>0, <1>1, <1>5, <1>6 DEF UsersInv, DuringFits, Underway, Now, Loaded
<1>8. LatestFits'
  BY <1>0, <1>5, <1>6 DEF UsersInv, LatestFits, Now, Loaded
<1>9. LookingFits'
  BY <1>0, <1>5, <1>6 DEF UsersInv, LookingFits, FindsFit
<1>10. ServedFromTheFile'
  <2>1. ASSUME getting'[r] = "configured", caller[r] \notin returned
        PROVE  chosen'[r] \in during[r]
    BY <1>1, <2>1 DEF UsersInv, ConfigsTypeOK, LookingFits, FindsFit
  <2>. QED BY <1>0, <1>5, <2>1 DEF UsersInv, ServedFromTheFile
<1>. QED BY <1>3, <1>4, <1>7, <1>8, <1>9, <1>10 DEF UsersInv

\* Reading the file keeps the invariant.
LEMMA LoadKeeps ==
  ASSUME UsersInv, NEW r \in Request, Load(r)
  PROVE  UsersInv'
<1> USE DEF Load, historyVars
<1>0. UNCHANGED <<file, config, fallback, cache, caller, mtime, during, past,
                 returned, reloads>>
  OBVIOUS
<1>1. caller[r] \in User /\ getting[r] = "loading"
  BY DEF UsersInv, CallersFit, Underway
<1>2. /\ getting'[r] = "filling" /\ chosen'[r] = Now(caller[r])
      /\ \A s \in Request : s # r => getting'[s] = getting[s] /\ chosen'[s] = chosen[s]
  BY DEF UsersInv, ConfigsTypeOK, Now
<1>3. ConfigsTypeOK'
  BY <1>0, <1>1, NowTyped DEF UsersInv, ConfigsTypeOK, Now
<1>4. CallersFit' /\ TimesFit'
  BY <1>0, <1>1, <1>2 DEF UsersInv, CallersFit, TimesFit, Underway
<1>5. DuringFits'
  BY <1>0, <1>1, <1>2 DEF UsersInv, DuringFits, Underway, Now, Loaded
<1>6. LatestFits'
  BY <1>0, <1>2 DEF UsersInv, LatestFits, Now, Loaded
<1>7. LookingFits'
  BY <1>0, <1>2 DEF UsersInv, LookingFits, FindsFit, DuringFits, Underway
<1>8. ServedFromTheFile'
  BY <1>0, <1>2 DEF UsersInv, ServedFromTheFile
<1>. QED BY <1>3, <1>4, <1>5, <1>6, <1>7, <1>8 DEF UsersInv

\* Filling the cache keeps the invariant.
LEMMA FillKeeps ==
  ASSUME UsersInv, NEW r \in Request, Fill(r)
  PROVE  UsersInv'
<1> USE DEF Fill, historyVars
<1>0. UNCHANGED <<file, config, fallback, caller, mtime, chosen, during, past,
                 returned, reloads>>
  OBVIOUS
<1>1. /\ caller[r] \in User /\ getting[r] = "filling"
      /\ chosen[r] \in during[r] /\ mtime[r] \in past[caller[r]]
  BY DEF UsersInv, CallersFit, Underway, DuringFits, TimesFit
<1>2. chosen[r] \in Document /\ mtime[r] \in Time \cup {None}
  BY <1>1 DEF UsersInv, ConfigsTypeOK
<1>3. [config |-> chosen[r], mtime |-> mtime[r]] \in Entry
  BY <1>2 DEF Entry
<1>4. cache' \in [User -> Entry \cup {None}]
  BY <1>1, <1>3 DEF UsersInv, ConfigsTypeOK
<1>5. ConfigsTypeOK'
  BY <1>0, <1>4 DEF UsersInv, ConfigsTypeOK
<1>6. /\ getting'[r] = "configured"
      /\ \A s \in Request : s # r => getting'[s] = getting[s]
      /\ cache'[caller[r]] = [config |-> chosen[r], mtime |-> mtime[r]]
      /\ \A u \in User : u # caller[r] => cache'[u] = cache[u]
  BY <1>1 DEF UsersInv, ConfigsTypeOK
<1>7. CallersFit' /\ TimesFit'
  BY <1>0, <1>1, <1>6 DEF UsersInv, CallersFit, TimesFit, Underway
<1>8. DuringFits'
  BY <1>0, <1>6 DEF UsersInv, DuringFits, Underway, Now, Loaded
<1>9. LatestFits'
  BY <1>0, <1>1, <1>6 DEF UsersInv, LatestFits, Now, Loaded
<1>10. LookingFits'
  BY <1>0, <1>1, <1>6 DEF UsersInv, LookingFits, FindsFit, CallersFit, Underway
<1>11. ServedFromTheFile'
  BY <1>0, <1>1, <1>6 DEF UsersInv, ServedFromTheFile
<1>. QED BY <1>5, <1>7, <1>8, <1>9, <1>10, <1>11 DEF UsersInv

\* A request that goes on keeps the invariant.
LEMMA FinishKeeps ==
  ASSUME UsersInv, NEW r \in Request, GoOn(r)
  PROVE  UsersInv'
<1> USE DEF GoOn, Idle
<1>0. UNCHANGED <<file, config, fallback, cache, past, returned, reloads>>
  OBVIOUS
<1>1. ConfigsTypeOK'
  BY <1>0 DEF UsersInv, ConfigsTypeOK
<1>2. /\ getting'[r] = "idle"
      /\ \A s \in Request : s # r => /\ getting'[s] = getting[s] /\ caller'[s] = caller[s]
                                     /\ mtime'[s] = mtime[s] /\ chosen'[s] = chosen[s]
                                     /\ during'[s] = during[s]
  OBVIOUS
<1> HIDE DEF GoOn, Idle
<1>3. CallersFit' /\ TimesFit'
  BY <1>0, <1>2 DEF UsersInv, CallersFit, TimesFit, Underway
<1>4. DuringFits'
  BY <1>0, <1>2 DEF UsersInv, DuringFits, Underway, Now, Loaded
<1>5. LatestFits' /\ LookingFits'
  BY <1>0, <1>2 DEF UsersInv, LatestFits, LookingFits, FindsFit, Now, Loaded
<1>6. ServedFromTheFile'
  BY <1>0, <1>2 DEF UsersInv, ServedFromTheFile
<1>. QED BY <1>1, <1>3, <1>4, <1>5, <1>6 DEF UsersInv

\* An edit keeps the invariant: a time that no entry and no request knows, or a
\* user that is left out from then on.
LEMMA EditKeeps ==
  ASSUME UsersInv, NEW u \in User, Edit(u)
  PROVE  UsersInv'
<1>0. UNCHANGED <<config, fallback, cache, getting, caller, mtime, chosen, reloads>>
  BY DEF Edit, lookupVars
<1> PICK next \in File :
      /\ file' = [file EXCEPT ![u] = next]
      /\ during' = [r \in Request |->
                      IF caller[r] = u /\ getting[r] # "configured"
                      THEN during[r] \cup {Loaded(next.content)} ELSE during[r]]
      /\ past' = [past EXCEPT ![u] = @ \cup {next.mtime}]
      /\ returned' = IF next.mtime \in past[u] THEN returned \cup {u} ELSE returned
  BY DEF Edit
<1>1. next.mtime \in Time \cup {None} /\ Loaded(next.content) \in Document
  BY DEF File, Loaded, UsersInv, ConfigsTypeOK
<1>2. /\ during' \in [Request -> SUBSET Document]
      /\ past' \in [User -> SUBSET (Time \cup {None})]
  BY <1>1 DEF UsersInv, ConfigsTypeOK
<1>3. ConfigsTypeOK'
  BY <1>0, <1>2 DEF UsersInv, ConfigsTypeOK
<1>4. /\ file'[u] = next /\ past'[u] = past[u] \cup {next.mtime}
      /\ \A v \in User : v # u => file'[v] = file[v] /\ past'[v] = past[v]
      /\ \A r \in Request : during[r] \subseteq during'[r]
      /\ \A r \in Request : caller[r] = u /\ getting[r] # "configured" =>
                              Loaded(next.content) \in during'[r]
      /\ returned \subseteq returned'
      /\ u \notin returned' => next.mtime \notin past[u]
  BY DEF UsersInv, ConfigsTypeOK
<1>5. CallersFit' /\ TimesFit'
  BY <1>0, <1>4 DEF UsersInv, CallersFit, TimesFit, Underway
<1>6. DuringFits'
  BY <1>0, <1>4 DEF UsersInv, DuringFits, CallersFit, Underway, Now, Loaded
<1>7. LatestFits'
  BY <1>0, <1>4 DEF UsersInv, LatestFits, TimesFit, Underway, Now, Loaded
<1>8. LookingFits'
  BY <1>0, <1>4 DEF UsersInv, LookingFits, FindsFit
<1>9. ServedFromTheFile'
  BY <1>0, <1>4 DEF UsersInv, ServedFromTheFile
<1>. QED BY <1>3, <1>5, <1>6, <1>7, <1>8, <1>9 DEF UsersInv

\* A reload and another worker keep the invariant.
LEMMA ReloadKeeps ==
  ASSUME UsersInv, Reload \/ ReplaceWorker
  PROVE  UsersInv'
<1>1. CASE Reload
  <2> USE <1>1 DEF Reload, lookupVars, historyVars
  <2>1. ConfigsTypeOK'
    BY ReloadAssumption DEF UsersInv, ConfigsTypeOK
  <2>2. CallersFit' /\ TimesFit' /\ DuringFits'
    BY DEF UsersInv, CallersFit, TimesFit, DuringFits, Underway, Now, Loaded
  <2>3. LatestFits' /\ LookingFits' /\ ServedFromTheFile'
    BY DEF UsersInv, LatestFits, LookingFits, FindsFit, ServedFromTheFile, Now,
           Loaded
  <2>. QED BY <2>1, <2>2, <2>3 DEF UsersInv
<1>2. CASE ReplaceWorker
  <2> USE <1>2 DEF ReplaceWorker, Idle
  <2>1. past' \in [User -> SUBSET (Time \cup {None})]
    BY FieldsTyped DEF UsersInv
  <2>2. ConfigsTypeOK'
    BY <2>1, ReloadAssumption DEF UsersInv, ConfigsTypeOK
  <2>3. TimesFit'
    BY DEF TimesFit, Underway
  <2>. QED BY <2>2, <2>3 DEF UsersInv, CallersFit, DuringFits, LatestFits, LookingFits,
                              ServedFromTheFile, Underway
<1>. QED BY <1>1, <1>2

\* Every step keeps the invariant.
LEMMA UsersNext ==
  ASSUME UsersInv, [ConfigsNext]_configsVars
  PROVE  UsersInv'
<1>1. CASE UNCHANGED configsVars
  <2> USE <1>1 DEF configsVars, lookupVars, historyVars
  <2>1. ConfigsTypeOK' /\ CallersFit' /\ TimesFit'
    BY DEF UsersInv, ConfigsTypeOK, CallersFit, TimesFit, Underway
  <2>2. DuringFits' /\ LatestFits' /\ LookingFits' /\ ServedFromTheFile'
    BY DEF UsersInv, DuringFits, LatestFits, LookingFits, FindsFit, ServedFromTheFile,
           Underway, Now, Loaded
  <2>. QED BY <2>1, <2>2 DEF UsersInv
<1>2. ASSUME NEW r \in Request,
             \/ UseDaemons(r) \/ UseFallback(r) \/ LookUp(r)
             \/ Load(r) \/ Fill(r) \/ GoOn(r)
      PROVE  UsersInv'
  BY <1>2, UseDaemonsKeeps, LookUpKeeps, LoadKeeps, FillKeeps, FinishKeeps
<1>3. ASSUME NEW r \in Request, NEW u \in User, Stat(r, u)
      PROVE  UsersInv'
  BY <1>3, StatKeeps
<1>4. ASSUME NEW u \in User, Edit(u)
      PROVE  UsersInv'
  BY <1>4, EditKeeps
<1>5. CASE Reload \/ ReplaceWorker
  BY <1>5, ReloadKeeps
<1>. QED BY <1>1, <1>2, <1>3, <1>4, <1>5 DEF ConfigsNext

-----------------------------------------------------------------------------
\* The inductive invariant: every time in use is one the file had, what is
\* cached or about to be under the file's time is the file's, and what a request
\* may find under the time it read was in the file since (user_config.rs 35-63).
THEOREM UsersInvariance ==
  ConfigsSpec => []UsersInv
<1>1. ConfigsInit => UsersInv
  BY UsersInit
<1>2. UsersInv /\ [ConfigsNext]_configsVars => UsersInv'
  BY UsersNext
<1>. QED BY <1>1, <1>2, PTL DEF ConfigsSpec

\* Every variable holds what the code can put there; no entry is without a
\* configuration (user_config.rs 16-25).
THEOREM UsersTypeCorrect ==
  ConfigsSpec => []ConfigsTypeOK
<1>1. UsersInv => ConfigsTypeOK
  BY DEF UsersInv
<1>. QED BY <1>1, UsersInvariance, PTL

\* A request of a user is served from what the user's file held while it was
\* looked for, whatever other requests cache and whenever the file is edited, as
\* long as no modification time came back (user_config.rs 6-7, 35-63).
THEOREM FileServed ==
  ConfigsSpec => []ServedFromTheFile
<1>1. UsersInv => ServedFromTheFile
  BY DEF UsersInv
<1>. QED BY <1>1, UsersInvariance, PTL

-----------------------------------------------------------------------------
(* Tunnel, by another instance: the ssh that requests to a provider share. *)
(* None and Request are the same, and pc is where a request is.            *)

\* What the holder of the lock has found or made, by where it is.
HolderFits ==
  \A r \in Request :
    /\ pc[r] \in {"checking", "probing"} => running # None
    /\ pc[r] \in {"reserving", "spawning", "starting"} => running = None
    /\ pc[r] \in {"spawning", "starting"} => port[r] \in Port
    /\ pc[r] = "starting" => starts \in Ssh

\* Unless another process got in between, the tunnel's port is its own ssh's,
\* as long as that lives, and nobody else's while it is looked at.
PortIsOurs ==
  ~contested =>
    /\ running # None /\ running.child \in alive
         => listener[running.port] = running.child
    /\ \A r \in Request :
         /\ pc[r] = "probing" => listener[running.port] \in {None, running.child}
         /\ pc[r] = "spawning" => listener[port[r]] = None
         /\ pc[r] = "starting" => listener[port[r]] \in {None, starts}

TunnelInv == TunnelTypeOK /\ HolderFits /\ NoSshLeftBehind /\ PortIsOurs

-----------------------------------------------------------------------------
LEMMA TunnelInitially ==
  ASSUME TunnelInit
  PROVE  TunnelInv
<1>1. TunnelTypeOK
  <2>1. \A r \in Request : Locking(r) <=> lock = r
    BY StartAssumption, AbsenceAssumption DEF
           TunnelInit, Locking
  <2>2. starts \in 0..MaxStarts /\ alive \subseteq 1..starts
    BY StartAssumption, AbsenceAssumption DEF
           TunnelInit
  <2>3. listener \in [Port -> alive \cup {None, Foreign}]
    BY DEF TunnelInit
  <2>. QED BY <2>1, <2>2, <2>3 DEF TunnelInit, TunnelTypeOK
<1>2. HolderFits /\ NoSshLeftBehind /\ PortIsOurs
  BY DEF TunnelInit, HolderFits, NoSshLeftBehind, PortIsOurs
<1>. QED BY <1>1, <1>2 DEF TunnelInv

\* Ended keeps the types of what it changes.
LEMMA EndedTyped ==
  ASSUME TunnelTypeOK, NEW children, Ended(children)
  PROVE  /\ alive' \subseteq 1..starts
         /\ listener' \in [Port -> alive' \cup {None, Foreign}]
BY DEF TunnelTypeOK, Ended

LEMMA TunnelTypes ==
  ASSUME TunnelInv, [TunnelNext]_tunnelVars
  PROVE  TunnelTypeOK'
<1> USE StartAssumption, AbsenceAssumption
<1> USE DEF TunnelInv, TunnelTypeOK, HolderFits, Locking
<1>1. ASSUME NEW r \in Request, Ask(r) PROVE TunnelTypeOK'
  BY <1>1 DEF Ask, Advance, processVars
<1>2. ASSUME NEW r \in Request, Lock(r) PROVE TunnelTypeOK'
  BY <1>2 DEF Lock, Advance, processVars
<1>3. ASSUME NEW r \in Request, Check(r) PROVE TunnelTypeOK'
  BY <1>3 DEF Check, Advance, processVars
<1>4. ASSUME NEW r \in Request, Reuse(r) PROVE TunnelTypeOK'
  BY <1>4 DEF Reuse, Return, Advance, processVars,
              RunningTunnel
<1>5. ASSUME NEW r \in Request, Replace(r) PROVE TunnelTypeOK'
  <2>1. alive' \subseteq 1..starts /\ listener' \in [Port -> alive' \cup {None, Foreign}]
    BY <1>5, EndedTyped DEF Replace
  <2>. QED BY <1>5, <2>1 DEF Replace, Advance
<1>6. ASSUME NEW r \in Request, Reserve(r) PROVE TunnelTypeOK'
  <2>1. PICK p \in Port : port' = [port EXCEPT ![r] = p]
    BY <1>6 DEF Reserve
  <2>2. port' \in [Request -> Port \cup {None}]
    BY <2>1
  <2>3. /\ pc[r] = "reserving" /\ pc' = [pc EXCEPT ![r] = "spawning"]
        /\ contested' = FALSE
        /\ UNCHANGED <<lock, running, client, processVars, portOf, starts, orphans>>
    BY <1>6, Zenon DEF Reserve, Advance
  <2>. HIDE DEF NoSshLeftBehind, PortIsOurs
  <2>. QED BY <2>2, <2>3 DEF processVars
<1>7. ASSUME NEW r \in Request, Spawn(r) PROVE TunnelTypeOK'
  BY <1>7 DEF Spawn, Advance, Ssh
<1>8. ASSUME NEW r \in Request, CannotStart(r) PROVE TunnelTypeOK'
  BY <1>8 DEF CannotStart, Return, Advance, processVars
<1>9. ASSUME NEW r \in Request, Ready(r) PROVE TunnelTypeOK'
  BY <1>9 DEF Ready, Return, Advance, processVars,
              RunningTunnel
<1>10. ASSUME NEW r \in Request, ExitedEarly(r) PROVE TunnelTypeOK'
  BY <1>10 DEF ExitedEarly, Return, Advance, processVars
<1>11. ASSUME NEW r \in Request, TimeOut(r) PROVE TunnelTypeOK'
  <2>1. alive' \subseteq 1..starts /\ listener' \in [Port -> alive' \cup {None, Foreign}]
    BY <1>11, EndedTyped DEF TimeOut
  <2>. QED BY <1>11, <2>1 DEF TimeOut, Return, Advance
<1>12. ASSUME NEW r \in Request, EndUse(r) PROVE TunnelTypeOK'
  BY <1>12 DEF EndUse, Advance, processVars
<1>13. CASE Exit
  <2>1. alive' \subseteq 1..starts /\ listener' \in [Port -> alive' \cup {None, Foreign}]
    BY <1>13, EndedTyped DEF Exit
  <2>. QED BY <1>13, <2>1 DEF Exit, requestVars
<1>14. CASE Killed
  BY <1>14 DEF Killed, processVars, Ssh
<1>15. ASSUME NEW c \in Ssh, Listen(c) PROVE TunnelTypeOK'
  <2>1. CASE listener[portOf[c]] = None
    <3>1. listener' = [listener EXCEPT ![portOf[c]] = c] /\ c \in alive /\ alive' = alive
      BY <1>15, <2>1 DEF Listen
    <3>2. listener' \in [Port -> alive' \cup {None, Foreign}]
      BY <3>1
    <3>. QED BY <1>15, <3>1, <3>2 DEF Listen, requestVars
  <2>2. CASE listener[portOf[c]] # None
    <3>1. alive' \subseteq 1..starts /\ listener' \in [Port -> alive' \cup {None, Foreign}]
      BY <1>15, <2>2, EndedTyped DEF Listen
    <3>. QED BY <1>15, <3>1 DEF Listen, requestVars
  <2>. QED BY <2>1, <2>2
<1>16. ASSUME NEW c \in Ssh, Die(c) PROVE TunnelTypeOK'
  <2>1. alive' \subseteq 1..starts /\ listener' \in [Port -> alive' \cup {None, Foreign}]
    BY <1>16, EndedTyped DEF Die
  <2>. QED BY <1>16, <2>1 DEF Die, requestVars
<1>17. ASSUME NEW p \in Port, TakePort(p) PROVE TunnelTypeOK'
  BY <1>17 DEF TakePort, requestVars
<1>18. ASSUME NEW p \in Port, LeavePort(p) PROVE TunnelTypeOK'
  BY <1>18 DEF LeavePort, requestVars
<1>19. CASE UNCHANGED tunnelVars
  BY <1>19 DEF tunnelVars, requestVars, processVars
<1>. QED
  BY <1>1, <1>2, <1>3, <1>4, <1>5, <1>6, <1>7, <1>8, <1>9, <1>10, <1>11, <1>12,
     <1>13, <1>14, <1>15, <1>16, <1>17, <1>18, <1>19 DEF TunnelNext, Steps

-----------------------------------------------------------------------------
\* Whoever is past the lock holds it, so a step of one such request finds no
\* other there.
LEMMA OneHolder ==
  ASSUME TunnelTypeOK, NEW r \in Request, NEW q \in Request,
         Locking(r), Locking(q)
  PROVE  q = r /\ lock = r /\ lock # None
BY StartAssumption, AbsenceAssumption DEF
       TunnelTypeOK

LEMMA HolderStep ==
  ASSUME TunnelInv, [TunnelNext]_tunnelVars
  PROVE  HolderFits'
<1> USE StartAssumption, AbsenceAssumption
<1> USE DEF TunnelInv, HolderFits
<1>0. TunnelTypeOK
  OBVIOUS
<1>1. ASSUME NEW r \in Request, Ask(r) \/ EndUse(r) PROVE HolderFits'
  BY <1>1 DEF Ask, EndUse, Advance, TunnelTypeOK
<1>2. ASSUME NEW r \in Request, Lock(r) PROVE HolderFits'
  BY <1>2 DEF Lock, Advance, TunnelTypeOK, Locking
<1>3. ASSUME NEW r \in Request, Steps(r) PROVE HolderFits'
  <2>1. Locking(r)
    BY <1>3 DEF Steps, Check, Reuse, Replace,
                Reserve, Spawn, CannotStart, Ready,
                ExitedEarly, TimeOut, Return, Advance,
                Locking
  <2>2. \A q \in Request : q # r => ~Locking(q) /\ pc'[q] = pc[q]
    <3>1. \A q \in Request : q # r => ~Locking(q)
      BY <1>0, <2>1, OneHolder
    <3>. QED
      BY <1>3, <3>1 DEF Steps, Check, Reuse, Replace,
                        Reserve, Spawn, CannotStart,
                        Ready, ExitedEarly, TimeOut,
                        Return, Advance, TunnelTypeOK
  <2> SUFFICES
        /\ pc'[r] \in {"checking", "probing"} => running' # None
        /\ pc'[r] \in {"reserving", "spawning", "starting"} => running' = None
        /\ pc'[r] \in {"spawning", "starting"} => port'[r] \in Port
        /\ pc'[r] = "starting" => starts' \in Ssh
    BY <2>2 DEF Locking
  <2>3. CASE Check(r) \/ Reuse(r) \/ Replace(r)
    BY <2>3 DEF Check, Reuse, Replace, Return,
                Advance, TunnelTypeOK
  <2>4. CASE Reserve(r)
    BY <2>4 DEF Reserve, Advance, TunnelTypeOK
  <2>5. CASE Spawn(r)
    BY <2>5 DEF Spawn, Advance, TunnelTypeOK, Ssh
  <2>6. CASE \/ CannotStart(r) \/ Ready(r)
             \/ ExitedEarly(r) \/ TimeOut(r)
    BY <2>6 DEF CannotStart, Ready, ExitedEarly,
                TimeOut, Return, Advance, TunnelTypeOK
  <2>. QED BY <1>3, <2>3, <2>4, <2>5, <2>6 DEF Steps
<1>4. CASE Exit
  BY <1>4 DEF Exit, requestVars
<1>5. CASE Killed
  BY <1>5 DEF Killed
<1>6. ASSUME NEW c \in Ssh, Listen(c) \/ Die(c)
      PROVE  HolderFits'
  BY <1>6 DEF Listen, Die, requestVars
<1>7. ASSUME NEW p \in Port, TakePort(p) \/ LeavePort(p) PROVE HolderFits'
  BY <1>7 DEF TakePort, LeavePort, requestVars
<1>8. CASE UNCHANGED tunnelVars
  BY <1>8 DEF tunnelVars, requestVars
<1>. QED BY <1>1, <1>2, <1>3, <1>4, <1>5, <1>6, <1>7, <1>8 DEF TunnelNext

-----------------------------------------------------------------------------
\* As long as the tunnel stays and no ssh is started, those left can only end.
LEMMA EndedLeavesNone ==
  ASSUME NoSshLeftBehind, running # None, NEW c \in alive \ orphans,
         lock = None \/ pc[lock] # "starting"
  PROVE  c = running.child
BY DEF NoSshLeftBehind

\* While a tunnel is made and no ssh has been started, there is none.
LEMMA NoneBeforeSpawn ==
  ASSUME NoSshLeftBehind, running = None,
         lock = None \/ pc[lock] # "starting"
  PROVE  alive \subseteq orphans
BY DEF NoSshLeftBehind

LEMMA NoSshStep ==
  ASSUME TunnelInv, [TunnelNext]_tunnelVars
  PROVE  NoSshLeftBehind'
<1> USE StartAssumption, AbsenceAssumption
<1> USE DEF TunnelInv
<1>0. TunnelTypeOK /\ HolderFits /\ NoSshLeftBehind
  OBVIOUS
<1>1. ASSUME NEW r \in Request, Ask(r) \/ EndUse(r)
      PROVE  NoSshLeftBehind'
  <2>1. lock # r
    BY <1>0, <1>1 DEF Ask, EndUse, Advance, TunnelTypeOK,
                      Locking
  <2>2. lock # None => pc'[lock] = pc[lock]
    BY <1>0, <1>1, <2>1 DEF Ask, EndUse, Advance, TunnelTypeOK
  <2>. QED BY <1>0, <1>1, <2>2 DEF Ask, EndUse, processVars,
                                   NoSshLeftBehind
<1>2. ASSUME NEW r \in Request, Lock(r) PROVE NoSshLeftBehind'
  BY <1>0, <1>2 DEF Lock, Advance, TunnelTypeOK, processVars,
                    NoSshLeftBehind
<1>3. ASSUME NEW r \in Request, Check(r) PROVE NoSshLeftBehind'
  <2>1. lock = r /\ running # None /\ pc[r] = "checking"
    BY <1>0, <1>3 DEF Check, Advance, TunnelTypeOK, Locking,
                      HolderFits
  <2>. QED BY <1>0, <1>3, <2>1, EndedLeavesNone
      DEF Check, Advance, processVars, NoSshLeftBehind
<1>4. ASSUME NEW r \in Request, Reuse(r) PROVE NoSshLeftBehind'
  <2>1. lock = r /\ running # None /\ pc[r] = "probing"
    BY <1>0, <1>4 DEF Reuse, Return, Advance, TunnelTypeOK,
                      Locking, HolderFits
  <2>. QED BY <1>0, <1>4, <2>1, EndedLeavesNone
      DEF Reuse, Return, Advance, processVars,
          NoSshLeftBehind
<1>5. ASSUME NEW r \in Request, Replace(r) PROVE NoSshLeftBehind'
  <2>1. lock = r /\ running # None /\ pc[r] = "probing"
    BY <1>0, <1>5 DEF Replace, Advance, TunnelTypeOK, Locking,
                      HolderFits
  <2>2. alive' \subseteq orphans'
    BY <1>0, <1>5, <2>1, EndedLeavesNone DEF Replace, Ended
  <2>. QED BY <2>2 DEF NoSshLeftBehind
<1>6. ASSUME NEW r \in Request, Reserve(r) \/ CannotStart(r)
      PROVE  NoSshLeftBehind'
  <2>1. lock = r /\ running = None /\ pc[r] # "starting"
    BY <1>0, <1>6 DEF Reserve, CannotStart, Return,
                      Advance, TunnelTypeOK, Locking, HolderFits
  <2>2. alive' \subseteq orphans'
    BY <1>0, <1>6, <2>1, NoneBeforeSpawn DEF Reserve, CannotStart,
                                             Return, processVars
  <2>. QED BY <2>2 DEF NoSshLeftBehind
<1>7. ASSUME NEW r \in Request, Spawn(r) PROVE NoSshLeftBehind'
  <2>1. lock = r /\ running = None /\ pc[r] = "spawning"
    BY <1>0, <1>7 DEF Spawn, Advance, TunnelTypeOK, Locking,
                      HolderFits
  <2>2. alive \subseteq orphans
    BY <1>0, <2>1, NoneBeforeSpawn
  <2>3. lock' = r /\ pc'[r] = "starting" /\ r # None
    BY <1>0, <1>7, <2>1 DEF Spawn, Advance, TunnelTypeOK
  <2>. QED BY <1>7, <2>2, <2>3 DEF Spawn, NoSshLeftBehind
<1>8. ASSUME NEW r \in Request,
             Ready(r) \/ ExitedEarly(r) \/ TimeOut(r)
      PROVE  NoSshLeftBehind'
  <2>1. lock = r /\ running = None /\ pc[r] = "starting"
    BY <1>0, <1>8 DEF Ready, ExitedEarly, TimeOut,
                      Return, Advance, TunnelTypeOK, Locking,
                      HolderFits
  <2>2. \A c \in alive \ orphans : c = starts
    BY <1>0, <2>1 DEF NoSshLeftBehind
  <2>3. CASE Ready(r)
    <3>1. running' = [child |-> starts, port |-> port[r]] /\ alive' = alive /\ orphans' = orphans
      BY <2>3 DEF Ready, processVars
    <3>2. running' \in RunningTunnel
      BY <1>0, <2>1, <3>1 DEF HolderFits, RunningTunnel
    <3>. QED BY <2>2, <3>1, <3>2 DEF NoSshLeftBehind
  <2>4. CASE ExitedEarly(r)
    BY <2>2, <2>4 DEF ExitedEarly, processVars,
                      NoSshLeftBehind
  <2>5. CASE TimeOut(r)
    BY <2>2, <2>5 DEF TimeOut, Ended, NoSshLeftBehind
  <2>. QED BY <1>8, <2>3, <2>4, <2>5
<1>9. CASE Exit
  <2>1. lock = None
    BY <1>0, <1>9 DEF Exit, TunnelTypeOK, Locking
  <2>. QED BY <1>0, <1>9, <2>1 DEF Exit, Ended,
                                   NoSshLeftBehind
<1>10. CASE Killed
  BY <1>10 DEF Killed, processVars, NoSshLeftBehind
<1>11. ASSUME NEW c \in Ssh, Listen(c) \/ Die(c)
      PROVE  NoSshLeftBehind'
  <2>1. alive' \subseteq alive
    BY <1>11 DEF Listen, Die, Ended
  <2>. QED BY <1>0, <1>11, <2>1 DEF Listen, Die, requestVars,
                                    NoSshLeftBehind
<1>12. ASSUME NEW p \in Port, TakePort(p) \/ LeavePort(p)
      PROVE  NoSshLeftBehind'
  BY <1>0, <1>12 DEF TakePort, LeavePort, requestVars,
                     NoSshLeftBehind
<1>13. CASE UNCHANGED tunnelVars
  BY <1>0, <1>13 DEF tunnelVars, requestVars, processVars,
                     NoSshLeftBehind
<1>. QED
  BY <1>1, <1>2, <1>3, <1>4, <1>5, <1>6, <1>7, <1>8, <1>9, <1>10, <1>11, <1>12,
     <1>13 DEF TunnelNext, Steps

-----------------------------------------------------------------------------
\* A port that is looked at cannot be taken unnoticed.
LEMMA LookedAtIsAwaited ==
  ASSUME TunnelInv, NEW r \in Request
  PROVE  /\ pc[r] = "probing" => Awaited(running.port)
         /\ pc[r] \in {"spawning", "starting"} => Awaited(port[r])
BY StartAssumption, AbsenceAssumption DEF TunnelInv,
       TunnelTypeOK, Locking, Awaited

\* The processes outside the worker keep PortIsOurs: whoever gets a port that
\* is looked at is the tunnel's own ssh, or is noticed.
LEMMA OutsideStep ==
  ASSUME TunnelInv,
         \/ \E c \in Ssh : Listen(c) \/ Die(c)
         \/ \E p \in Port : TakePort(p) \/ LeavePort(p)
  PROVE  PortIsOurs'
<1> USE StartAssumption, AbsenceAssumption
<1> SUFFICES ASSUME ~contested' PROVE PortIsOurs'
  BY DEF PortIsOurs
<1>1. ~contested /\ UNCHANGED <<lock, running, requestVars, starts, orphans>>
  BY DEF TunnelInv, TunnelTypeOK, Listen, Die, TakePort,
         LeavePort
<1>2. TunnelTypeOK /\ HolderFits /\ NoSshLeftBehind
  BY DEF TunnelInv
<1>3. /\ running # None /\ running.child \in alive
           => listener[running.port] = running.child
      /\ \A r \in Request :
           /\ pc[r] = "probing" => listener[running.port] \in {None, running.child}
           /\ pc[r] = "spawning" => listener[port[r]] = None
           /\ pc[r] = "starting" => listener[port[r]] \in {None, starts}
  BY <1>1 DEF TunnelInv, PortIsOurs
<1>4. running # None => running.port \in Port /\ running.child \in Ssh
  BY <1>2 DEF TunnelTypeOK, RunningTunnel
<1>5. ASSUME NEW c \in Ssh, Ended({c}) PROVE PortIsOurs'
  <2>1. /\ alive' = alive \ {c}
        /\ \A p \in Port : listener'[p] = IF listener[p] = c THEN None ELSE listener[p]
    BY <1>5 DEF Ended
  <2>. QED BY <1>1, <1>2, <1>3, <1>4, <2>1
      DEF PortIsOurs, HolderFits, requestVars
<1>6. ASSUME NEW c \in Ssh, Listen(c), listener[portOf[c]] = None
      PROVE  PortIsOurs'
  <2>1. c \in alive /\ alive' = alive /\ listener' = [listener EXCEPT ![portOf[c]] = c]
    BY <1>6 DEF Listen
  <2>2. c \in orphans => ~Awaited(portOf[c])
    BY <1>6 DEF Listen
  <2>3. running # None /\ running.child \in alive => listener'[running.port] = running.child
    <3> SUFFICES ASSUME running # None, running.child \in alive
                 PROVE  listener'[running.port] = running.child
      OBVIOUS
    <3>1. listener[running.port] = running.child /\ running.child # None
      BY <1>3, <1>4 DEF Ssh
    <3>2. portOf[c] # running.port
      BY <1>6, <3>1
    <3>3. running.port \in Port /\ DOMAIN listener = Port
      BY <1>2, <1>4 DEF TunnelTypeOK
    <3>. QED BY <2>1, <3>1, <3>2, <3>3
  <2>4. ASSUME NEW r \in Request, pc[r] = "probing"
        PROVE  listener'[running.port] \in {None, running.child}
    <3>1. running # None /\ lock = r /\ Awaited(running.port)
      BY <1>2, <2>4, LookedAtIsAwaited DEF HolderFits, TunnelTypeOK, Locking
    <3>2. portOf[c] = running.port => c = running.child
      BY <1>2, <2>1, <2>2, <2>4, <3>1, EndedLeavesNone
    <3>. QED BY <1>2, <1>3, <1>4, <2>1, <2>4, <3>1, <3>2 DEF TunnelTypeOK
  <2>5. ASSUME NEW r \in Request, pc[r] \in {"spawning", "starting"}
        PROVE  /\ pc[r] = "spawning" => listener'[port[r]] = None
               /\ pc[r] = "starting" => listener'[port[r]] \in {None, starts}
    <3>1. /\ running = None /\ lock = r /\ r # None /\ port[r] \in Port
          /\ Awaited(port[r])
      BY <1>2, <2>5, LookedAtIsAwaited DEF HolderFits, TunnelTypeOK, Locking
    <3>2. portOf[c] = port[r] => pc[r] = "starting" /\ c = starts
      BY <1>2, <2>1, <2>2, <2>5, <3>1 DEF NoSshLeftBehind
    <3>. QED BY <1>2, <1>3, <2>1, <2>5, <3>1, <3>2 DEF TunnelTypeOK
  <2>. QED BY <1>1, <2>1, <2>3, <2>4, <2>5 DEF PortIsOurs, requestVars
<1>7. ASSUME NEW p \in Port, TakePort(p) PROVE PortIsOurs'
  <2>1. /\ listener[p] = None /\ ~Awaited(p) /\ alive' = alive
        /\ listener' = [listener EXCEPT ![p] = Foreign]
    BY <1>7 DEF TakePort
  <2>2. running # None /\ running.child \in alive => running.port # p
    BY <1>3, <1>4, <2>1 DEF Ssh
  <2>3. \A r \in Request :
          /\ pc[r] = "probing" => running.port # p
          /\ pc[r] \in {"spawning", "starting"} => port[r] # p
    BY <2>1, LookedAtIsAwaited
  <2>. QED BY <1>1, <1>2, <1>3, <1>4, <2>1, <2>2, <2>3
           DEF PortIsOurs, TunnelTypeOK, HolderFits, requestVars
<1>8. ASSUME NEW p \in Port, LeavePort(p) PROVE PortIsOurs'
  <2>1. /\ listener[p] = Foreign /\ alive' = alive
        /\ listener' = [listener EXCEPT ![p] = None]
    BY <1>8 DEF LeavePort
  <2>2. \A q \in Port : listener'[q] = IF q = p THEN None ELSE listener[q]
    BY <1>2, <2>1 DEF TunnelTypeOK
  <2>3. running # None /\ running.child \in alive
          => listener'[running.port] = running.child
    <3>1. Foreign \notin Ssh
      BY DEF Ssh
    <3>. QED BY <1>3, <1>4, <2>1, <2>2, <3>1
  <2>4. ASSUME NEW r \in Request
        PROVE  /\ pc[r] = "probing" => listener'[running.port] \in {None, running.child}
               /\ pc[r] = "spawning" => listener'[port[r]] = None
               /\ pc[r] = "starting" => listener'[port[r]] \in {None, starts}
    <3>1. /\ pc[r] = "probing" => running.port \in Port
          /\ pc[r] \in {"spawning", "starting"} => port[r] \in Port
      BY <1>2, <1>4 DEF HolderFits
    <3>. QED BY <1>3, <2>2, <3>1
  <2>. QED BY <1>1, <2>1, <2>3, <2>4 DEF PortIsOurs, requestVars
<1>. QED BY <1>5, <1>6, <1>7, <1>8 DEF Listen, Die

LEMMA PortStep ==
  ASSUME TunnelInv, [TunnelNext]_tunnelVars
  PROVE  PortIsOurs'
<1> USE StartAssumption, AbsenceAssumption
<1>0. TunnelTypeOK /\ HolderFits /\ NoSshLeftBehind /\ PortIsOurs
  BY DEF TunnelInv
<1>1. running # None => running.port \in Port /\ running.child \in Ssh
  BY <1>0 DEF TunnelTypeOK, RunningTunnel
<1>2. ASSUME NEW r \in Request, Ask(r) \/ Lock(r) \/ EndUse(r)
      PROVE  PortIsOurs'
  BY <1>0, <1>2 DEF Ask, Lock, EndUse, Advance,
                    TunnelTypeOK, processVars, PortIsOurs
<1>3. ASSUME NEW r \in Request, Steps(r) PROVE PortIsOurs'
  <2>1. Locking(r)
    BY <1>3 DEF Steps, Check, Reuse, Replace,
                Reserve, Spawn, CannotStart, Ready,
                ExitedEarly, TimeOut, Return, Advance,
                Locking
  <2>2. \A q \in Request : q # r => ~Locking(q) /\ pc'[q] = pc[q]
    <3>1. \A q \in Request : q # r => ~Locking(q)
      BY <1>0, <2>1, OneHolder
    <3>. QED
      BY <1>0, <1>3, <3>1 DEF Steps, Check, Reuse,
                              Replace, Reserve, Spawn,
                              CannotStart, Ready, ExitedEarly,
                              TimeOut, Return, Advance,
                              TunnelTypeOK
  <2> SUFFICES ASSUME ~contested'
        PROVE  /\ running' # None /\ running.child' \in alive'
                    => listener'[running.port'] = running.child'
               /\ pc'[r] = "probing" => listener'[running.port'] \in {None, running.child'}
               /\ pc'[r] = "spawning" => listener'[port'[r]] = None
               /\ pc'[r] = "starting" => listener'[port'[r]] \in {None, starts'}
    BY <2>2 DEF PortIsOurs, Locking
  <2>3. CASE Check(r)
    BY <1>0, <2>3 DEF Check, Advance, TunnelTypeOK, HolderFits,
                      processVars, PortIsOurs
  <2>4. CASE Reuse(r)
    BY <1>0, <2>4 DEF Reuse, Return, Advance, TunnelTypeOK,
                      HolderFits, processVars, PortIsOurs
  <2>5. CASE Replace(r)
    BY <1>0, <2>5 DEF Replace, Advance, TunnelTypeOK
  <2>6. CASE Reserve(r)
    <3>1. running' = None /\ pc'[r] = "spawning"
      BY <1>0, <2>6 DEF Reserve, Advance, TunnelTypeOK, HolderFits
    <3>2. PICK p \in Port : listener[p] = None /\ port' = [port EXCEPT ![r] = p]
      BY <2>6 DEF Reserve
    <3>. QED BY <1>0, <2>6, <3>1, <3>2 DEF Reserve, processVars,
                                           TunnelTypeOK
  <2>7. CASE Spawn(r)
    BY <1>0, <2>7 DEF Spawn, Advance, TunnelTypeOK, HolderFits,
                      PortIsOurs
  <2>8. CASE CannotStart(r) \/ ExitedEarly(r)
    <3>1. running' = None /\ pc'[r] = "idle"
      BY <1>0, <2>8 DEF CannotStart, ExitedEarly, Return,
                        Advance, TunnelTypeOK, HolderFits
    <3>. QED BY <3>1
  <2>9. CASE Ready(r)
    <3>1. running' = [child |-> starts, port |-> port[r]] /\ pc'[r] = "using"
      BY <1>0, <2>9 DEF Ready, Return, Advance, TunnelTypeOK
    <3>2. listener'[port[r]] = starts
      BY <1>0, <2>9 DEF Ready, Return, Advance,
                        processVars, PortIsOurs
    <3>. QED BY <3>1, <3>2
  <2>10. CASE TimeOut(r)
    <3>1. running' = None /\ pc'[r] = "idle"
      BY <1>0, <2>10 DEF TimeOut, Return, Advance,
                         TunnelTypeOK, HolderFits
    <3>. QED BY <3>1
  <2>. QED BY <1>3, <2>3, <2>4, <2>5, <2>6, <2>7, <2>8, <2>9, <2>10 DEF Steps
<1>4. CASE Exit
  BY <1>0, <1>4 DEF Exit, requestVars, PortIsOurs
<1>5. CASE Killed
  BY <1>5 DEF Killed, PortIsOurs
<1>6. CASE \/ \E c \in Ssh : Listen(c) \/ Die(c)
           \/ \E p \in Port : TakePort(p) \/ LeavePort(p)
  BY <1>6, OutsideStep
<1>7. CASE UNCHANGED tunnelVars
  BY <1>0, <1>7 DEF tunnelVars, requestVars, processVars, PortIsOurs
<1>. QED BY <1>2, <1>3, <1>4, <1>5, <1>6, <1>7 DEF TunnelNext

LEMMA TunnelKept ==
  ASSUME TunnelInv, [TunnelNext]_tunnelVars
  PROVE  TunnelInv'
BY TunnelTypes, HolderStep, NoSshStep, PortStep DEF TunnelInv

-----------------------------------------------------------------------------
\* The inductive invariant: who is past the lock holds it alone, what it has
\* found or made fits where it is, every ssh is the tunnel's or being waited
\* for, and the tunnel's port is its ssh's unless another process was noticed.
THEOREM TunnelInvariance ==
  TunnelSpec => []TunnelInv
<1>1. TunnelInit => TunnelInv
  BY TunnelInitially
<1>2. TunnelInv /\ [TunnelNext]_tunnelVars => TunnelInv'
  BY TunnelKept
<1>. QED BY <1>1, <1>2, PTL DEF TunnelSpec

\* Every variable keeps its type, and one request at a time holds the lock: the
\* one that looks at the tunnel or starts one (ssh_proxy.rs 59-73).
THEOREM OneAtATime ==
  TunnelSpec => []TunnelTypeOK
<1>1. TunnelInv => TunnelTypeOK
  BY DEF TunnelInv
<1>. QED BY <1>1, TunnelInvariance, PTL

\* However many requests find the tunnel dead, unreachable or missing, in
\* whatever order ssh and other programs act, no ssh is left running without
\* somebody who will stop it, but those of a killed worker.
THEOREM NoneLeftBehind ==
  TunnelSpec => []NoSshLeftBehind
<1>1. TunnelInv => NoSshLeftBehind
  BY DEF TunnelInv
<1>. QED BY <1>1, TunnelInvariance, PTL

\* A client that is handed out leads to the tunnel's own ssh, unless another
\* process took the port while it was looked at.
THEOREM LeadToTheirSsh ==
  TunnelSpec => ClientsLeadToTheirSsh
<1> USE StartAssumption, AbsenceAssumption
<1>1. TunnelInv /\ [TunnelNext]_tunnelVars =>
        [\A r \in Request :
           pc[r] # "using" /\ pc'[r] = "using"
             => contested \/ listener[client'[r]] = running'.child]_tunnelVars
  <2> SUFFICES ASSUME TunnelInv, TunnelNext, NEW r \in Request,
                      pc[r] # "using", pc'[r] = "using", ~contested
               PROVE  listener[client'[r]] = running'.child
    OBVIOUS
  <2>0. TunnelTypeOK /\ HolderFits /\ PortIsOurs
    BY DEF TunnelInv
  <2>1. Reuse(r) \/ Ready(r)
    <3>1. PICK q \in Request :
            Ask(q) \/ Lock(q) \/ Steps(q) \/ EndUse(q)
      BY <2>0 DEF TunnelNext, Exit, Killed, Listen,
                  Die, TakePort, LeavePort, TunnelTypeOK,
                  requestVars
    <3>2. CASE Ask(q) \/ Lock(q) \/ EndUse(q)
      BY <2>0, <3>2 DEF Ask, Lock, EndUse, Advance,
                        TunnelTypeOK
    <3>3. CASE Check(q) \/ Replace(q) \/ Spawn(q)
      BY <2>0, <3>3 DEF Check, Replace, Spawn, Advance,
                        TunnelTypeOK
    <3>4. CASE Reserve(q)
      BY <2>0, <3>4 DEF Reserve, Advance, TunnelTypeOK
    <3>5. CASE CannotStart(q) \/ ExitedEarly(q) \/ TimeOut(q)
      BY <2>0, <3>5 DEF CannotStart, ExitedEarly, TimeOut,
                        Return, Advance, TunnelTypeOK
    <3>6. CASE Reuse(q) \/ Ready(q)
      BY <2>0, <3>6 DEF Reuse, Ready, Return, Advance,
                        TunnelTypeOK
    <3>. QED BY <3>1, <3>2, <3>3, <3>4, <3>5, <3>6 DEF Steps
  <2>2. CASE Reuse(r)
    BY <2>0, <2>2 DEF Reuse, Return, Advance, TunnelTypeOK,
                      PortIsOurs
  <2>3. CASE Ready(r)
    BY <2>0, <2>3 DEF Ready, Return, Advance, TunnelTypeOK,
                      PortIsOurs
  <2>. QED BY <2>1, <2>2, <2>3
<1>. QED BY <1>1, TunnelInvariance, PTL DEF TunnelSpec,
                                            ClientsLeadToTheirSsh
=============================================================================
