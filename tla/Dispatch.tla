------------------------------ MODULE Dispatch ------------------------------
(***************************************************************************)
(* What requests share in a worker on their way to a provider: the         *)
(* override of the compaction wording (dispatch in lib.rs, Override in     *)
(* compact.rs) and the pacing of the reminder (forward in                  *)
(* providers/mod.rs, ReminderTracker in continuation.rs).                  *)
(*                                                                         *)
(* The last user message of a request is the override phrase, recognised   *)
(* as a compaction, or neither. Its turn is the number of assistant        *)
(* messages it replays, so a conversation that is rewound, sent again or   *)
(* forked brings any turn; whether it is due (the last turn stalled, or    *)
(* none was the done phrase) is up to its content. Keys are hashes of      *)
(* opening user messages, which conversations may have in common.          *)
(***************************************************************************)
EXTENDS WorkerRequests, Naturals, FiniteSets

CONSTANTS Conversation,
          Key,            \* what conversation_key makes of an opening message
          KeyOf,          \* [Conversation -> Key]
          Provider,
          Interval,       \* [Provider -> Nat]: reminder_interval_turns
          MaxTracked,     \* MAX_TRACKED_CONVERSATIONS
          MaxTurn,        \* bound: turns of a conversation
          MaxArmings      \* bound: override phrases sent

ASSUME KeyAssumption == KeyOf \in [Conversation -> Key]
ASSUME IntervalAssumption == Interval \in [Provider -> Nat]
ASSUME BoundAssumption ==
  MaxTracked \in Nat \ {0} /\ MaxTurn \in Nat /\ MaxArmings \in Nat
ASSUME NoneAssumption == None \notin Nat

VARIABLES armed,     \* Override.armed
          seen,      \* ReminderTracker.seen: a function of some keys
          stage,     \* [Request -> ...]: where the request is
          decision,  \* [Request -> ...]: what should_remind said of it
          armings,   \* history: override phrases accepted
          bypasses,  \* history: compactions by override
          last,      \* history, [Conversation -> ...]: its turn reminded last
          wiped      \* history: conversations the tracker has forgotten since

overrideVars == <<armed, armings, bypasses>>
reminderVars == <<seen, last, wiped>>
vars == <<stage, decision, overrideVars, reminderVars>>

Turn == 0..MaxTurn
Decision == [of : Conversation, turn : Turn, by : Provider, reminded : BOOLEAN]

Tracked == DOMAIN seen

Empty == [key \in {} |-> 0]

Init ==
  /\ armed = FALSE
  /\ seen = Empty
  /\ stage = [r \in Request |-> "idle"]
  /\ decision = [r \in Request |-> None]
  /\ armings = 0 /\ bypasses = 0
  /\ last = [c \in Conversation |-> None]
  /\ wiped = {}

Move(r, from, to) == stage[r] \in from /\ stage' = [stage EXCEPT ![r] = to]

-----------------------------------------------------------------------------
(* dispatch: the two control cases.                                        *)

\* The override phrase alone is answered in place.
Arm ==
  /\ armings < MaxArmings /\ armings' = armings + 1
  /\ armed' = TRUE
  /\ UNCHANGED <<stage, decision, bypasses, reminderVars>>

TakeAndKeep(r) ==
  /\ Move(r, {"idle"}, IF armed THEN "compacting" ELSE "turn")
  /\ bypasses' = bypasses + (IF armed THEN 1 ELSE 0)
  /\ UNCHANGED <<decision, armed, armings, reminderVars>>

\* A request that is not recognised spends the override, of whatever
\* conversation and provider it is, and if it only counts tokens.
Take(r) ==
  /\ Move(r, {"idle"}, IF armed THEN "compacting" ELSE "turn")
  /\ bypasses' = bypasses + (IF armed THEN 1 ELSE 0)
  /\ armed' = FALSE
  /\ UNCHANGED <<decision, armings, reminderVars>>

\* A recognised compaction leaves it to a later request.
Recognised(r) ==
  /\ Move(r, {"idle"}, "compacting")
  /\ UNCHANGED <<decision, overrideVars, reminderVars>>

-----------------------------------------------------------------------------
(* forward: the reminder, of a turn or of a compaction.                    *)

\* A token count, another backend, no transport or credentials, or a provider
\* of another dialect.
Elsewhere(r) ==
  /\ Move(r, {"turn", "compacting"}, "idle")
  /\ UNCHANGED <<decision, overrideVars, reminderVars>>

\* No reminder is configured, or none is called for: the last turn did not stall
\* and the done phrase was used. The request goes out without one.
NotDue(r) ==
  /\ Move(r, {"turn", "compacting"}, "idle")
  /\ UNCHANGED <<decision, overrideVars, reminderVars>>

\* The map is emptied when it is full and the key is not in it.
Room(key) ==
  IF Cardinality(Tracked) >= MaxTracked /\ key \notin Tracked THEN Empty ELSE seen

NotTwice(map, key, turn, p) == key \in DOMAIN map /\ turn = map[key]

EarlyAtLast(map, key, turn, p) == key \in DOMAIN map /\ turn <= map[key] + Interval[p]

Early(map, key, turn, p) == key \in DOMAIN map /\ turn < map[key] + Interval[p]

Remind(r, c, turn, p) ==
  LET key == KeyOf[c]
      map == Room(key)
      forgotten == {d \in Conversation : KeyOf[d] \in Tracked \ DOMAIN map}
      reminded == ~Early(map, key, turn, p)
  IN  /\ Move(r, {"turn", "compacting"}, "decided")
      /\ decision' = [decision EXCEPT ![r] =
                        [of |-> c, turn |-> turn, by |-> p, reminded |-> reminded]]
      /\ seen' = IF reminded
                 THEN [k \in DOMAIN map \cup {key} |-> IF k = key THEN turn ELSE map[k]]
                 ELSE map
      /\ last' = [last EXCEPT ![c] = IF reminded THEN turn ELSE @]
      /\ wiped' = (wiped \cup forgotten) \ (IF reminded THEN {c} ELSE {})
      /\ UNCHANGED overrideVars

\* The provider is asked, and whatever it answers, the tracker is not told.
Finish(r) ==
  /\ Move(r, {"decided"}, "idle")
  /\ decision' = [decision EXCEPT ![r] = None]
  /\ UNCHANGED <<overrideVars, reminderVars>>

Next ==
  \/ Arm
  \/ \E r \in Request :
       \/ Take(r) \/ Recognised(r) \/ Elsewhere(r) \/ NotDue(r) \/ Finish(r)
       \/ \E c \in Conversation, turn \in Turn, p \in Provider : Remind(r, c, turn, p)

Spec == Init /\ [][Next]_vars

-----------------------------------------------------------------------------
\* Every variable keeps its type, and the tracker its limit (continuation.rs
\* 165-170).
TypeOK ==
  /\ armed \in BOOLEAN
  /\ \E keys \in SUBSET Key : seen \in [keys -> Turn] /\ Cardinality(keys) <= MaxTracked
  /\ stage \in [Request -> {"idle", "turn", "compacting", "decided"}]
  /\ decision \in [Request -> Decision \cup {None}]
  /\ armings \in 0..MaxArmings /\ bypasses \in Nat
  /\ last \in [Conversation -> Turn \cup {None}]
  /\ wiped \subseteq Conversation

\* However many requests come at once, one phrase lets one of them through:
\* "True once per arming, so an override cannot silently persist" (compact.rs
\* 102).
OverrideIsSpentOnce == bypasses + (IF armed THEN 1 ELSE 0) <= armings

Decides(r) == decision[r] = None /\ decision'[r] # None

\* A conversation is not reminded again before the interval of the provider it
\* is sent to is over, whichever it was sent to before, however it was rewound
\* and whatever other conversations share its key; unless the tracker was
\* emptied since (continuation.rs 145-147, 165-167).
RemindersArePaced ==
  [][\A r \in Request :
       LET now == decision'[r]
       IN  Decides(r) /\ now.reminded =>
             \/ last[now.of] = None \/ now.of \in wiped
             \/ now.turn >= last[now.of] + Interval[now.by]]_vars

\* A request that is due does without the reminder only because one of the
\* conversations with its key, itself or another, had one less than an interval
\* of turns before, or later and was rewound (continuation.rs 171-176).
DueIsReminded ==
  [][\A r \in Request :
       LET now == decision'[r]
       IN  Decides(r) /\ ~now.reminded =>
             \E c \in Conversation \ wiped :
               /\ KeyOf[c] = KeyOf[now.of] /\ last[c] # None
               /\ now.turn < last[c] + Interval[now.by]]_vars
=============================================================================
