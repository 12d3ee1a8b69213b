---------------------------- MODULE OAuth_proof -----------------------------
(***************************************************************************)
(* Proofs about Tokens, for any number of requests, logins, refreshes and  *)
(* crashes; and about Login, for any number of logins and providers.       *)
(***************************************************************************)
EXTENDS Tokens, Login, FiniteSetTheorems, TLAPS

-----------------------------------------------------------------------------
(* The inductive invariant, in named parts besides the types.              *)

Busy(r) == pc[r] # "idle"
Pending(r) == pc[r] \in {"answered", "writing"}
Stored == file.state = "tokens"

\* Which variables mean something, given where a request or a save is.
WritersFit ==
  /\ Stored => file.tokens \in TokenSet
  /\ \A r \in Request : Busy(r) => held[r] \in TokenSet
  /\ \A r \in Request : pc[r] = "answered" => /\ answer[r] \in Answer
                                              /\ answer[r].session = held[r].session
  /\ \A w \in linked : \/ w = Login /\ storing # None
                       \/ w \in Request /\ pc[w] = "writing"

AccountsFit ==
  /\ Stored => file.tokens.account = file.tokens.session
  /\ \A r \in Request : Busy(r) => held[r].account = held[r].session
  /\ \A r \in Request : pc[r] = "answered" =>
       answer[r].account \in {answer[r].session, None}

\* A copy of tokens is not newer than what the provider accepts.
Known(t) ==
  /\ issued[t.session] # 0 /\ t.refresh <= current[t.session]
  /\ t.session \notin Rotating => t.refresh = current[t.session]

SerialsFit ==
  /\ \A s \in Session :
       /\ current[s] <= issued[s]
       /\ s \notin Rotating /\ issued[s] # 0 => current[s] = 1
  /\ Stored => Known(file.tokens)
  /\ \A r \in Request : Busy(r) => Known(held[r])
  /\ \A r \in Request : pc[r] = "answered" =>
       answer[r].refresh = IF held[r].session \in Rotating
                           THEN current[held[r].session] ELSE None

\* When a provider rotates, an answer on its way to the file is the only place
\* of the refresh token it accepts.
OnlyCopy ==
  \A r \in Request : Pending(r) /\ held[r].session \in Rotating =>
    /\ \A q \in Request \ {r} :
         Busy(q) /\ held[q].session = held[r].session =>
           ~Pending(q) /\ held[q].refresh < current[held[r].session]
    /\ Stored /\ file.tokens.session = held[r].session =>
         pc[r] = "answered" /\ file.tokens.refresh < current[held[r].session]
    /\ pc[r] = "writing" => held[r].refresh = current[held[r].session]

\* Nobody has tokens of a login that is still being stored.
StoringFits ==
  storing # None =>
    /\ issued[storing] = 1 /\ current[storing] = 1
    /\ Stored => file.tokens.session # storing
    /\ \A r \in Request : Busy(r) => held[r].session # storing

\* Once the last word is settled, nothing under way can put other tokens at
\* the path.
WordFits ==
  settled /\ word = None =>
    /\ file.state = "absent" /\ linked = {}
    /\ \A r \in Request : pc[r] \notin {"asking", "answered"}

WordOfLoginFits ==
  settled /\ word # None =>
    /\ Stored => file.tokens.session = word
    /\ \A r \in Request : pc[r] \in {"asking", "answered"} => held[r].session = word
    /\ \A w \in linked : \/ w = Login /\ storing = word
                         \/ w \in Request /\ held[w].session = word

\* One save at a time, each whole, starts and ends with a file it truncated.
SavesFit ==
  ~spoiled =>
    /\ file.state # "garbled"
    /\ file.state = "empty" <=> linked # {}
    /\ \A v, w \in linked : v = w

IInv ==
  /\ TypeOK /\ WritersFit /\ AccountsFit /\ SerialsFit /\ OnlyCopy
  /\ StoringFits /\ StoredTokenIsLive /\ WordFits /\ WordOfLoginFits /\ SavesFit

-----------------------------------------------------------------------------
\* What the writers of the file put there is one of its contents.
LEMMA FileTypes ==
  /\ \A state \in {"absent", "empty", "garbled"} : Unreadable(state) \in File
  /\ \A t \in TokenSet : Holding(t) \in File
BY DEF File

\* An answer merged into the tokens it refreshes is whole: it has the account
\* of its login and the refresh token the provider accepts.
LEMMA RefreshedFits ==
  ASSUME IInv, NEW r \in Request, pc[r] = "answered"
  PROVE  /\ Refreshed(r) \in TokenSet
         /\ Refreshed(r).session = held[r].session
         /\ Refreshed(r).account = held[r].session
         /\ Refreshed(r).refresh = current[held[r].session]
<1>1. /\ held[r] \in TokenSet /\ answer[r] \in Answer
      /\ answer[r].session = held[r].session
      /\ held[r].account = held[r].session
      /\ answer[r].account \in {answer[r].session, None}
  BY DEF IInv, WritersFit, AccountsFit, Busy
<1>2. /\ held[r].session \notin Rotating => held[r].refresh = current[held[r].session]
      /\ answer[r].refresh = IF held[r].session \in Rotating
                             THEN current[held[r].session] ELSE None
  BY DEF IInv, SerialsFit, Known, Busy
<1>4. None \notin Session /\ None \notin Serial
  BY SessionAssumption, SerialAssumption DEF Serial
<1> DEFINE a == [answer[r] EXCEPT !.refresh = IF @ = None THEN held[r].refresh ELSE @]
<1>5. /\ a \in [session : Session, access : Serial, refresh : Serial,
                account : Session \cup {None}]
      /\ a.session = held[r].session /\ a.account = answer[r].account
  BY <1>1, <1>4 DEF TokenSet, Answer
<1>6. a.refresh = IF answer[r].refresh = None THEN held[r].refresh ELSE answer[r].refresh
  BY <1>1 DEF Answer
<1>7. Refreshed(r) = [a EXCEPT !.account = IF @ = None THEN held[r].account ELSE @]
  BY <1>1 DEF Refreshed, Answer
<1> HIDE DEF a
<1>8. held[r].session \in Session
  BY <1>1 DEF TokenSet
<1>9. a.refresh = current[held[r].session]
  <2>1. CASE held[r].session \in Rotating
    <3>1. answer[r].refresh = current[held[r].session]
      BY <1>2, <2>1
    <3>2. CASE answer[r].refresh = None
      \* Then what is accepted would be None, and a is the token refreshed.
      BY <1>1, <1>2, <1>4, <1>6, <1>8, <2>1, <3>1, <3>2, BoundAssumption
         DEF IInv, TypeOK, SerialsFit, Known, Busy, TokenSet, Serial
    <3>. QED BY <1>6, <3>1, <3>2
  <2>. QED BY <1>2, <1>6, <2>1
<1>. QED BY <1>1, <1>4, <1>5, <1>7, <1>8, <1>9 DEF TokenSet

-----------------------------------------------------------------------------
\* Read keeps the invariant.
LEMMA ReadKeeps ==
  ASSUME IInv, NEW r \in Request, Read(r)
  PROVE  IInv'
<1>1. TypeOK'
  <2>1. file.tokens \in TokenSet
    BY DEF IInv, Read, WritersFit, Stored
  <2>. QED BY <2>1 DEF IInv, Read, TypeOK, writerVars, providerVars, historyVars
<1> USE DEF IInv, Read, NeedsRefresh, writerVars, providerVars, historyVars,
    TokenSet, Answer, File, Serial
<1>2. WritersFit'
  BY DEF TypeOK, WritersFit, Busy, Stored
<1>3. AccountsFit'
  BY DEF TypeOK, WritersFit, AccountsFit, Busy, Stored
<1>4. SerialsFit'
  BY DEF TypeOK, WritersFit, SerialsFit, Known, Busy, Stored
<1>5. OnlyCopy'
  BY DEF TypeOK, WritersFit, OnlyCopy, Busy, Pending, Stored
<1>6. StoringFits'
  BY DEF TypeOK, WritersFit, StoringFits, SerialsFit, Known, Busy, Stored
<1>7. StoredTokenIsLive'
  BY DEF StoredTokenIsLive
<1>8. WordFits'
  BY DEF WordFits
<1>9. WordOfLoginFits'
  BY DEF TypeOK, WritersFit, WordOfLoginFits, Stored
<1>10. SavesFit'
  BY DEF SavesFit
<1>. QED BY <1>1, <1>2, <1>3, <1>4, <1>5, <1>6, <1>7, <1>8, <1>9, <1>10 DEF IInv

\* Grant keeps the invariant.
LEMMA GrantKeeps ==
  ASSUME IInv, NEW r \in Request, Grant(r)
  PROVE  IInv'
<1>1. TypeOK'
  <2> DEFINE s == held[r].session
             serial == issued[s] + 1
  <2>1. s \in Session /\ held[r] \in TokenSet
    BY DEF IInv, Grant, WritersFit, Busy, TokenSet
  <2>2. serial \in Serial
    BY <2>1, BoundAssumption DEF IInv, Grant, TypeOK, Serial
  <2>3. PICK account \in {s, None} :
          answer' = [answer EXCEPT ![r] =
                       [session |-> s, access |-> serial,
                        refresh |-> IF s \in Rotating THEN serial ELSE None,
                        account |-> account]]
    BY DEF Grant
  <2> HIDE DEF s, serial
  <2>4. answer' \in [Request -> Answer \cup {None}]
    <3>1. [session |-> s, access |-> serial,
           refresh |-> IF s \in Rotating THEN serial ELSE None,
           account |-> account] \in Answer
      BY <2>1, <2>2 DEF Answer
    <3>. QED BY <2>3, <3>1 DEF IInv, TypeOK
  <2>5. serial \in 0..MaxIssues
    BY <2>2, BoundAssumption DEF Serial
  <2>6. issued' = [issued EXCEPT ![s] = serial]
        /\ current' = [current EXCEPT ![s] = IF s \in Rotating THEN serial ELSE @]
    BY DEF Grant, s, serial
  <2>7. issued' \in [Session -> 0..MaxIssues] /\ current' \in [Session -> 0..MaxIssues]
    BY <2>1, <2>5, <2>6 DEF IInv, TypeOK
  <2>. QED BY <2>4, <2>7 DEF IInv, Grant, TypeOK, writerVars, historyVars
<1> USE DEF IInv, Grant, writerVars, historyVars, TokenSet, Answer, File, Serial
<1>2. WritersFit'
  BY SessionAssumption, SerialAssumption, RotatingAssumption,
      BoundAssumption DEF TypeOK, WritersFit, Busy, Stored
<1>3. AccountsFit'
  BY DEF TypeOK, WritersFit, AccountsFit, Busy, Stored
<1>4. SerialsFit'
  <2> DEFINE s == held[r].session
             serial == issued[s] + 1
  <2>1. /\ s \in Session /\ Busy(r) /\ Known(held[r])
        /\ current[s] <= issued[s] /\ issued[s] \in Nat /\ current[s] \in Nat
    BY BoundAssumption DEF TypeOK, WritersFit, SerialsFit, Busy
  <2>2. /\ issued' = [issued EXCEPT ![s] = serial]
        /\ current' = [current EXCEPT ![s] = IF s \in Rotating THEN serial ELSE @]
        /\ pc' = [pc EXCEPT ![r] = "answered"] /\ file' = file /\ held' = held
        /\ held[r].refresh = current[s] /\ pc[r] = "asking"
    OBVIOUS
  <2>3. /\ answer'[r].refresh = IF s \in Rotating THEN serial ELSE None
        /\ \A q \in Request \ {r} : answer'[q] = answer[q]
    BY DEF TypeOK
  <2> HIDE DEF serial, IInv, Grant
  <2>4. serial > issued[s] /\ serial \in Nat
    BY <2>1 DEF serial
  <2>5. \A t \in TokenSet : Known(t) => Known(t)'
    BY <2>1, <2>2, <2>4, BoundAssumption DEF Known, IInv, TypeOK
  <2>6. \A z \in Session : /\ current'[z] <= issued'[z]
                           /\ z \notin Rotating /\ issued'[z] # 0 => current'[z] = 1
    BY <2>1, <2>2, <2>4, BoundAssumption DEF Known, IInv, TypeOK, SerialsFit
  <2>7. \A q \in Request \ {r} : pc[q] = "answered" => held[q].session # s
                                                     \/ s \notin Rotating
    \* OnlyCopy: r would not hold the token the provider accepts.
    <3>1. SUFFICES ASSUME NEW q \in Request \ {r}, pc[q] = "answered",
                          held[q].session = s, s \in Rotating
                   PROVE  FALSE
      OBVIOUS
    <3>2. held[r].refresh < current[s]
      BY <2>1, <2>2, <3>1 DEF IInv, OnlyCopy, Pending, Busy
    <3>. QED BY <2>1, <2>2, <3>2
  <2>8. \A q \in Request : pc'[q] = "answered" =>
          answer'[q].refresh = IF held'[q].session \in Rotating
                               THEN current'[held'[q].session] ELSE None
    <3>1. SUFFICES ASSUME NEW q \in Request, pc'[q] = "answered"
                   PROVE  answer'[q].refresh = IF held'[q].session \in Rotating
                                   THEN current'[held'[q].session] ELSE None
      OBVIOUS
    <3>2. current'[s] = IF s \in Rotating THEN serial ELSE current[s]
      BY <2>1, <2>2 DEF IInv, TypeOK
    <3>3. CASE q = r
      BY <2>2, <2>3, <3>2, <3>3
    <3>4. CASE q # r
      <4>1. pc[q] = "answered" /\ held[q].session \in Session
        BY <2>2, <3>1, <3>4 DEF IInv, TypeOK, WritersFit, Busy
      <4>2. current'[held[q].session] = current[held[q].session]
              \/ held[q].session \notin Rotating
        BY <2>2, <2>7, <3>4, <4>1 DEF IInv, TypeOK
      <4>. QED BY <2>2, <2>3, <3>4, <4>1, <4>2 DEF IInv, SerialsFit
    <3>. QED BY <3>3, <3>4
  <2>9. (Stored => Known(file.tokens))'
    BY <2>2, <2>5 DEF IInv, WritersFit, SerialsFit, Known, Stored
  <2>10. (\A q \in Request : Busy(q) => Known(held[q]))'
    <3>1. SUFFICES ASSUME NEW q \in Request, Busy(q)' PROVE Known(held[q])'
      OBVIOUS
    <3>2. Busy(q)
      BY <2>1, <2>2, <3>1 DEF Busy, IInv, TypeOK
    <3>. QED BY <2>2, <2>5, <3>2 DEF IInv, WritersFit, SerialsFit, Known
  <2>. QED BY <2>6, <2>8, <2>9, <2>10 DEF SerialsFit
<1>5. OnlyCopy'
  BY DEF TypeOK, WritersFit, SerialsFit, Known, StoringFits, OnlyCopy, Busy, Pending,
      Stored
<1>6. StoringFits'
  BY DEF StoringFits, Busy, Stored
<1>7. StoredTokenIsLive'
  BY DEF TypeOK, WritersFit, SerialsFit, Known, OnlyCopy, Pending, Busy, Stored,
      StoringFits, StoredTokenIsLive
<1>8. WordFits'
  BY DEF WordFits
<1>9. WordOfLoginFits'
  BY DEF WordOfLoginFits, Stored
<1>10. SavesFit'
  BY DEF SavesFit
<1>. QED BY <1>1, <1>2, <1>3, <1>4, <1>5, <1>6, <1>7, <1>8, <1>9, <1>10 DEF IInv

\* Fail keeps the invariant.
LEMMA FailKeeps ==
  ASSUME IInv, NEW r \in Request, Fail(r)
  PROVE  IInv'
<1> USE DEF IInv, Fail, Dropped, LostWith, writerVars, providerVars, TokenSet,
    Answer, File, Serial
<1>1. TypeOK'
  BY DEF TypeOK, WritersFit
<1>2. WritersFit'
  BY DEF WritersFit, Busy, Stored
<1>3. AccountsFit'
  BY DEF AccountsFit, Busy, Stored
<1>4. SerialsFit'
  BY DEF SerialsFit, Known, Busy, Stored
<1>5. OnlyCopy'
  BY DEF OnlyCopy, Busy, Pending, Stored
<1>6. StoringFits'
  BY DEF StoringFits, Busy, Stored
<1>7. StoredTokenIsLive'
  BY SessionAssumption, SerialAssumption, RotatingAssumption,
      BoundAssumption DEF TypeOK, WritersFit, SerialsFit, Known, OnlyCopy, Pending,
      Busy, Stored, StoringFits, StoredTokenIsLive
<1>8. WordFits'
  BY DEF WordFits
<1>9. WordOfLoginFits'
  BY SessionAssumption, SerialAssumption, RotatingAssumption,
      BoundAssumption DEF TypeOK, WritersFit, WordOfLoginFits, Stored
<1>10. SavesFit'
  BY DEF SavesFit
<1>. QED BY <1>1, <1>2, <1>3, <1>4, <1>5, <1>6, <1>7, <1>8, <1>9, <1>10 DEF IInv

\* Save keeps the invariant.
LEMMA SaveKeeps ==
  ASSUME IInv, NEW r \in Request, Save(r)
  PROVE  IInv'
<1>1. TypeOK'
  <2>1. Refreshed(r) \in TokenSet /\ held[r] \in TokenSet /\ answer[r] \in Answer
    BY RefreshedFits DEF IInv, Save, WritersFit, Busy
  <2>2. held' \in [Request -> TokenSet \cup {None}]
        /\ answer' \in [Request -> Answer \cup {None}]
    BY <2>1 DEF IInv, Save, TypeOK
  <2>3. LostWith({r}) \subseteq Session
    BY <2>1 DEF LostWith, Answer
  <2>4. file' \in File
    BY FileTypes DEF IInv, Save, Open, TypeOK
  <2>5. spoiled' \in BOOLEAN
    BY DEF IInv, Save, Open, TypeOK
  <2>6. lost' \subseteq Session
    BY <2>3 DEF IInv, Save, TypeOK
  <2>7. linked' \subseteq Request \cup {Login}
    BY DEF IInv, Save, Open, TypeOK
  <2>8. pc' \in [Request -> {"idle", "asking", "answered", "writing", "ready"}]
    BY DEF IInv, Save, TypeOK
  <2>9. UNCHANGED <<storing, issued, current, due, word, settled, crashes>>
    BY DEF Save, providerVars
  <2>. QED BY <2>2, <2>4, <2>5, <2>6, <2>7, <2>8, <2>9 DEF IInv, TypeOK
<1> USE DEF IInv, Save, Refreshed, Open, LostWith, Unreadable, providerVars,
    TokenSet, Answer, File, Serial
<1>2. WritersFit'
  <2>1. Refreshed(r) \in TokenSet
    BY RefreshedFits
  <2>2. held' = [held EXCEPT ![r] = Refreshed(r)]
    OBVIOUS
  <2>. QED BY <2>1, <2>2, SessionAssumption DEF TypeOK, WritersFit, Busy, Stored
<1>3. AccountsFit'
  BY DEF TypeOK, WritersFit, AccountsFit, Busy, Stored
<1>4. SerialsFit'
  BY DEF TypeOK, WritersFit, SerialsFit, Known, Busy, Stored
<1>5. OnlyCopy'
  BY SessionAssumption, SerialAssumption, RotatingAssumption,
      BoundAssumption DEF TypeOK, WritersFit, SerialsFit, Known, StoringFits,
      OnlyCopy, Busy, Pending, Stored
<1>6. StoringFits'
  BY DEF TypeOK, WritersFit, StoringFits, SerialsFit, Known, Busy, Stored
<1>7. StoredTokenIsLive'
  BY SessionAssumption, SerialAssumption, RotatingAssumption,
      BoundAssumption DEF TypeOK, WritersFit, SerialsFit, Known, OnlyCopy, Pending,
      Busy, Stored, StoringFits, StoredTokenIsLive
<1>8. WordFits'
  BY DEF WordFits
<1>9. WordOfLoginFits'
  BY DEF TypeOK, WritersFit, WordOfLoginFits, Stored
<1>10. SavesFit'
  <2>1. CASE Open(r) /\ pc' = [pc EXCEPT ![r] = "writing"] /\ UNCHANGED lost
    BY <2>1 DEF SavesFit
  <2>2. CASE UNCHANGED <<file, linked, spoiled>>
    BY <2>2 DEF SavesFit
  <2>. QED BY <2>1, <2>2
<1>. QED BY <1>1, <1>2, <1>3, <1>4, <1>5, <1>6, <1>7, <1>8, <1>9, <1>10 DEF IInv

\* Store keeps the invariant.
LEMMA StoreKeeps ==
  ASSUME IInv, NEW r \in Request, Store(r)
  PROVE  IInv'
<1>1. TypeOK'
  <2>1. held[r] \in TokenSet
    BY DEF IInv, Store, WritersFit, Busy
  <2>2. Holding(held[r]) \in File /\ Unreadable("garbled") \in File
    BY <2>1, FileTypes
  <2>3. file' \in File
    BY <2>2 DEF IInv, Store, Write, CutShort, Over, TypeOK
  <2>4. lost' \subseteq Session
    BY <2>1 DEF IInv, Store, TypeOK, TokenSet
  <2>5. spoiled' \in BOOLEAN /\ linked' \subseteq Request \cup {Login}
    BY DEF IInv, Store, Write, CutShort, TypeOK
  <2>6. pc' \in [Request -> {"idle", "asking", "answered", "writing", "ready"}]
    BY DEF IInv, Store, TypeOK
  <2>7. UNCHANGED <<held, answer, storing, issued, current, due, word, settled,
                    crashes>>
    BY DEF Store, providerVars
  <2>. QED BY <2>3, <2>4, <2>5, <2>6, <2>7 DEF IInv, TypeOK
<1> USE DEF IInv, Store, Write, CutShort, Over, Unreadable, Holding, providerVars,
    TokenSet, Answer, File, Serial
<1>2. WritersFit'
  BY DEF WritersFit, Busy, Stored
<1>3. AccountsFit'
  BY DEF AccountsFit, Busy, Stored
<1>4. SerialsFit'
  BY DEF SerialsFit, Known, Busy, Stored
<1>5. OnlyCopy'
  BY DEF TypeOK, WritersFit, OnlyCopy, Busy, Pending, Stored
<1>6. StoringFits'
  BY DEF StoringFits, Busy, Stored
<1>7. StoredTokenIsLive'
  BY DEF TypeOK, WritersFit, SerialsFit, Known, OnlyCopy, Pending, Busy, Stored,
      StoringFits, StoredTokenIsLive
<1>8. WordFits'
  BY DEF WordFits
<1>9. WordOfLoginFits'
  BY SessionAssumption, SerialAssumption, RotatingAssumption,
      BoundAssumption DEF WordOfLoginFits, Stored
<1>10. SavesFit'
  BY DEF SavesFit
<1>. QED BY <1>1, <1>2, <1>3, <1>4, <1>5, <1>6, <1>7, <1>8, <1>9, <1>10 DEF IInv

\* Use keeps the invariant.
LEMMA UseKeeps ==
  ASSUME IInv, NEW r \in Request, Use(r)
  PROVE  IInv'
<1> USE DEF IInv, Use, Dropped, writerVars, providerVars, historyVars, TokenSet,
    Answer, File, Serial
<1>1. TypeOK'
  BY DEF TypeOK
<1>2. WritersFit'
  BY DEF WritersFit, Busy, Stored
<1>3. AccountsFit'
  BY DEF AccountsFit, Busy, Stored
<1>4. SerialsFit'
  BY DEF SerialsFit, Known, Busy, Stored
<1>5. OnlyCopy'
  BY DEF OnlyCopy, Busy, Pending, Stored
<1>6. StoringFits'
  BY DEF StoringFits, Busy, Stored
<1>7. StoredTokenIsLive'
  BY DEF StoredTokenIsLive
<1>8. WordFits'
  BY DEF WordFits
<1>9. WordOfLoginFits'
  BY SessionAssumption, SerialAssumption, RotatingAssumption,
      BoundAssumption DEF TypeOK, WritersFit, WordOfLoginFits, Stored
<1>10. SavesFit'
  BY DEF SavesFit
<1>. QED BY <1>1, <1>2, <1>3, <1>4, <1>5, <1>6, <1>7, <1>8, <1>9, <1>10 DEF IInv

\* SetTokens keeps the invariant.
LEMMA SetTokensKeeps ==
  ASSUME IInv, NEW s \in Session, SetTokens(s)
  PROVE  IInv'
<1>1. TypeOK'
  <2>1. file' \in File
    BY FileTypes DEF SetTokens, Open
  <2>2. issued' \in [Session -> 0..MaxIssues] /\ current' \in [Session -> 0..MaxIssues]
    BY BoundAssumption DEF IInv, SetTokens, TypeOK
  <2>3. spoiled' \in BOOLEAN /\ linked' \subseteq Request \cup {Login}
    BY DEF IInv, SetTokens, Open, TypeOK
  <2>4. settled' \in BOOLEAN
    BY DEF SetTokens
  <2>. QED BY <2>1, <2>2, <2>3, <2>4 DEF IInv, SetTokens, TypeOK, requestVars
<1> USE DEF IInv, SetTokens, Open, Unreadable, Refreshing, requestVars, TokenSet,
    Answer, File, Serial
<1>2. WritersFit'
  BY SessionAssumption, SerialAssumption, RotatingAssumption,
      BoundAssumption DEF WritersFit, Busy, Stored
<1>3. AccountsFit'
  BY DEF AccountsFit, Busy, Stored
<1>4. SerialsFit'
  BY DEF TypeOK, WritersFit, SerialsFit, Known, Busy, Stored
<1>5. OnlyCopy'
  BY DEF TypeOK, WritersFit, SerialsFit, Known, StoringFits, OnlyCopy, Busy, Pending,
      Stored
<1>6. StoringFits'
  BY DEF TypeOK, WritersFit, StoringFits, SerialsFit, Known, Busy, Stored
<1>7. StoredTokenIsLive'
  BY DEF StoredTokenIsLive
<1>8. WordFits'
  BY SessionAssumption, SerialAssumption, RotatingAssumption,
      BoundAssumption DEF WordFits
<1>9. WordOfLoginFits'
  BY DEF WordOfLoginFits, Stored
<1>10. SavesFit'
  BY DEF SavesFit
<1>. QED BY <1>1, <1>2, <1>3, <1>4, <1>5, <1>6, <1>7, <1>8, <1>9, <1>10 DEF IInv

\* Age keeps the invariant.
LEMMA AgeKeeps ==
  ASSUME IInv, NEW s \in Session, Age(s)
  PROVE  IInv'
<1> USE DEF IInv, Age, requestVars, writerVars, historyVars, TokenSet, Answer, File,
    Serial
<1>1. TypeOK'
  BY SessionAssumption, SerialAssumption, RotatingAssumption, BoundAssumption DEF TypeOK
<1>2. WritersFit'
  BY DEF WritersFit, Busy, Stored
<1>3. AccountsFit'
  BY DEF AccountsFit, Busy, Stored
<1>4. SerialsFit'
  BY DEF SerialsFit, Known, Busy, Stored
<1>5. OnlyCopy'
  BY DEF OnlyCopy, Busy, Pending, Stored
<1>6. StoringFits'
  BY DEF StoringFits, Busy, Stored
<1>7. StoredTokenIsLive'
  BY DEF StoredTokenIsLive
<1>8. WordFits'
  BY DEF WordFits
<1>9. WordOfLoginFits'
  BY DEF WordOfLoginFits, Stored
<1>10. SavesFit'
  BY DEF SavesFit
<1>. QED BY <1>1, <1>2, <1>3, <1>4, <1>5, <1>6, <1>7, <1>8, <1>9, <1>10 DEF IInv

\* StoreLogin keeps the invariant.
LEMMA StoreLoginKeeps ==
  ASSUME IInv, StoreLogin
  PROVE  IInv'
<1>0. storing \in Session /\ LoginTokens(storing) \in TokenSet
  BY BoundAssumption DEF IInv, StoreLogin, TypeOK, LoginTokens, TokenSet, Serial
<1>1. TypeOK'
  <2>1. Holding(LoginTokens(storing)) \in File /\ Unreadable("garbled") \in File
    BY <1>0, FileTypes
  <2>2. file' \in File
    BY <2>1 DEF IInv, StoreLogin, Write, CutShort, Over, TypeOK
  <2>3. spoiled' \in BOOLEAN /\ linked' \subseteq Request \cup {Login}
    BY DEF IInv, StoreLogin, Write, CutShort, TypeOK
  <2>4. storing' = None
        /\ UNCHANGED <<pc, held, answer, issued, current, due, lost, word, settled,
                       crashes>>
    BY DEF StoreLogin, requestVars, providerVars
  <2>. QED BY <2>2, <2>3, <2>4 DEF IInv, TypeOK
<1> USE DEF IInv, StoreLogin, Write, CutShort, Over, Unreadable, Holding,
    LoginTokens, requestVars, providerVars, TokenSet, Answer, File, Serial
<1>2. WritersFit'
  BY SessionAssumption, SerialAssumption, RotatingAssumption,
      BoundAssumption DEF TypeOK, WritersFit, Busy, Stored
<1>3. AccountsFit'
  BY DEF AccountsFit, Busy, Stored
<1>4. SerialsFit'
  <2>1. UNCHANGED <<pc, held, answer, issued, current>>
    OBVIOUS
  <2>2. file' = file \/ file'.state = "garbled" \/ file' = Holding(LoginTokens(storing))
    BY DEF Over
  <2>3. Known(LoginTokens(storing))
    BY <1>0 DEF StoringFits, Known
  <2>4. Stored' => Known(file'.tokens)
    BY <2>1, <2>2, <2>3 DEF SerialsFit, Known, Stored
  <2>. QED BY <2>1, <2>4 DEF SerialsFit, Known, Busy
<1>5. OnlyCopy'
  BY DEF TypeOK, WritersFit, SerialsFit, Known, StoringFits, OnlyCopy, Busy, Pending,
      Stored
<1>6. StoringFits'
  BY DEF StoringFits, Busy, Stored
<1>7. StoredTokenIsLive'
  BY DEF TypeOK, WritersFit, SerialsFit, Known, OnlyCopy, Pending, Busy, Stored,
      StoringFits, StoredTokenIsLive
<1>8. WordFits'
  BY DEF WordFits
<1>9. WordOfLoginFits'
  BY SessionAssumption, SerialAssumption, RotatingAssumption,
      BoundAssumption DEF WordOfLoginFits, Stored
<1>10. SavesFit'
  BY DEF SavesFit
<1>. QED BY <1>1, <1>2, <1>3, <1>4, <1>5, <1>6, <1>7, <1>8, <1>9, <1>10 DEF IInv

\* Clear keeps the invariant.
LEMMA ClearKeeps ==
  ASSUME IInv, Clear
  PROVE  IInv'
<1> USE DEF IInv, Clear, Unreadable, SignedOut, Refreshing, requestVars,
    providerVars, TokenSet, Answer, File, Serial
<1>1. TypeOK'
  BY DEF TypeOK, WritersFit
<1>2. WritersFit'
  BY DEF WritersFit, Busy, Stored
<1>3. AccountsFit'
  BY DEF AccountsFit, Busy, Stored
<1>4. SerialsFit'
  BY DEF SerialsFit, Known, Busy, Stored
<1>5. OnlyCopy'
  BY DEF OnlyCopy, Busy, Pending, Stored
<1>6. StoringFits'
  BY DEF StoringFits, Busy, Stored
<1>7. StoredTokenIsLive'
  BY DEF StoredTokenIsLive
<1>8. WordFits'
  BY DEF WordFits
<1>9. WordOfLoginFits'
  BY DEF WordOfLoginFits, Stored
<1>10. SavesFit'
  BY DEF SavesFit
<1>. QED BY <1>1, <1>2, <1>3, <1>4, <1>5, <1>6, <1>7, <1>8, <1>9, <1>10 DEF IInv

\* Crash keeps the invariant.
LEMMA CrashKeeps ==
  ASSUME IInv, Crash
  PROVE  IInv'
<1>1. TypeOK'
  <2>1. \A r \in Request : /\ pc[r] = "answered" => answer[r] \in Answer
                           /\ pc[r] = "writing" => held[r] \in TokenSet
    BY DEF IInv, WritersFit, Busy
  <2>2. lost' \subseteq Session
    BY <2>1 DEF IInv, Crash, LostWith, TypeOK, TokenSet, Answer
  <2>3. crashes' \in 0..MaxCrashes
    BY BoundAssumption DEF IInv, Crash, TypeOK
  <2>4. pc' \in [Request -> {"idle", "asking", "answered", "writing", "ready"}]
        /\ held' \in [Request -> TokenSet \cup {None}]
        /\ answer' \in [Request -> Answer \cup {None}]
    BY DEF IInv, Crash, Dropped, TypeOK
  <2>5. spoiled' \in BOOLEAN
    BY DEF IInv, Crash, TypeOK
  <2>6. storing' = None /\ linked' = {}
        /\ UNCHANGED <<file, issued, current, due, word, settled>>
    BY DEF Crash, providerVars
  <2>. QED BY <2>2, <2>3, <2>4, <2>5, <2>6 DEF IInv, TypeOK
<1> USE DEF IInv, Crash, Dropped, LostWith, providerVars, TokenSet, Answer, File, Serial
<1>2. WritersFit'
  BY DEF WritersFit, Busy, Stored
<1>3. AccountsFit'
  BY DEF AccountsFit, Busy, Stored
<1>4. SerialsFit'
  BY DEF SerialsFit, Known, Busy, Stored
<1>5. OnlyCopy'
  BY DEF OnlyCopy, Busy, Pending, Stored
<1>6. StoringFits'
  BY DEF StoringFits, Busy, Stored
<1>7. StoredTokenIsLive'
  BY SessionAssumption, SerialAssumption, RotatingAssumption,
      BoundAssumption DEF TypeOK, WritersFit, SerialsFit, Known, OnlyCopy, Pending,
      Busy, Stored, StoringFits, StoredTokenIsLive
<1>8. WordFits'
  BY DEF WordFits
<1>9. WordOfLoginFits'
  BY DEF WordOfLoginFits, Stored
<1>10. SavesFit'
  BY DEF SavesFit
<1>. QED BY <1>1, <1>2, <1>3, <1>4, <1>5, <1>6, <1>7, <1>8, <1>9, <1>10 DEF IInv

-----------------------------------------------------------------------------
\* The invariant holds at first.
LEMMA InitIInv == Init => IInv
<1> SUFFICES ASSUME Init PROVE IInv
  OBVIOUS
<1>1. TypeOK
  <2>1. file \in File
    BY FileTypes DEF Init
  <2>2. 0 \in 0..MaxIssues /\ 0 \in 0..MaxCrashes
    BY BoundAssumption
  <2>3. /\ issued \in [Session -> 0..MaxIssues] /\ current \in [Session -> 0..MaxIssues]
        /\ due \in [Session -> 0..MaxIssues] /\ crashes \in 0..MaxCrashes
    BY <2>2 DEF Init
  <2>4. /\ pc \in [Request -> {"idle", "asking", "answered", "writing", "ready"}]
        /\ held \in [Request -> TokenSet \cup {None}]
        /\ answer \in [Request -> Answer \cup {None}]
    BY DEF Init
  <2>5. /\ storing \in Session \cup {None} /\ linked \subseteq Request \cup {Login}
        /\ lost \subseteq Session /\ spoiled \in BOOLEAN
        /\ word \in Session \cup {None} /\ settled \in BOOLEAN
    BY DEF Init
  <2>. QED BY <2>1, <2>3, <2>4, <2>5 DEF TypeOK
<1> USE DEF Init, Unreadable
<1>2. WritersFit /\ AccountsFit /\ SerialsFit
  BY DEF WritersFit, AccountsFit, SerialsFit, Busy, Stored
<1>3. OnlyCopy /\ StoringFits /\ StoredTokenIsLive
  BY DEF OnlyCopy, StoringFits, StoredTokenIsLive, Pending, Stored
<1>4. WordFits /\ WordOfLoginFits /\ SavesFit
  BY DEF WordFits, WordOfLoginFits, SavesFit, Stored
<1>. QED BY <1>1, <1>2, <1>3, <1>4 DEF IInv

\* A step that changes nothing keeps it.
LEMMA StutterKeeps == IInv /\ UNCHANGED vars => IInv'
<1> SUFFICES ASSUME IInv, UNCHANGED vars PROVE IInv'
  OBVIOUS
<1> USE DEF vars, requestVars, writerVars, providerVars, historyVars, IInv
<1>1. TypeOK' /\ WritersFit' /\ AccountsFit'
  BY DEF TypeOK, WritersFit, AccountsFit, Busy, Stored
<1>2. SerialsFit' /\ OnlyCopy' /\ StoringFits'
  BY DEF SerialsFit, OnlyCopy, StoringFits, Known, Busy, Pending, Stored
<1>3. StoredTokenIsLive' /\ WordFits' /\ WordOfLoginFits' /\ SavesFit'
  BY DEF StoredTokenIsLive, WordFits, WordOfLoginFits, SavesFit, Stored
<1>. QED BY <1>1, <1>2, <1>3

\* The invariant is one of every behaviour: each action keeps it.
THEOREM Invariance == Spec => []IInv
<1>1. IInv /\ [Next]_vars => IInv'
  <2> SUFFICES ASSUME IInv, [Next]_vars PROVE IInv'
    OBVIOUS
  <2>1. ASSUME NEW r \in Request,
               Read(r) \/ Grant(r) \/ Fail(r) \/ Save(r) \/ Store(r) \/ Use(r)
        PROVE  IInv'
    BY <2>1, ReadKeeps, GrantKeeps, FailKeeps, SaveKeeps, StoreKeeps, UseKeeps
  <2>2. ASSUME NEW s \in Session, SetTokens(s) \/ Age(s)
        PROVE  IInv'
    BY <2>2, SetTokensKeeps, AgeKeeps
  <2>3. CASE StoreLogin \/ Clear \/ Crash
    BY <2>3, StoreLoginKeeps, ClearKeeps, CrashKeeps
  <2>4. CASE UNCHANGED vars
    BY <2>4, StutterKeeps
  <2>. QED BY <2>1, <2>2, <2>3, <2>4 DEF Next
<1>. QED BY <1>1, InitIInv, PTL DEF Spec

\* Types are kept: every variable holds what the code can put there.
THEOREM TypesKept == Spec => []TypeOK
<1>1. IInv => TypeOK
  BY DEF IInv
<1>. QED BY <1>1, Invariance, PTL

\* A token is only ever stored or sent with the account it was issued for.
THEOREM AccountsFollow == Spec => []AccountFollowsToken
<1>1. IInv => AccountFollowsToken
  BY DEF IInv, AccountsFit, AccountFollowsToken, Busy, Stored
<1>. QED BY <1>1, Invariance, PTL

\* The stored refresh token is the one the provider accepts, or its successor is
\* on the way to the file or was lost.
THEOREM StoredLive == Spec => []StoredTokenIsLive
<1>1. IInv => StoredTokenIsLive
  BY DEF IInv
<1>. QED BY <1>1, Invariance, PTL

\* Saves that neither overlap nor are cut short leave a readable login.
THEOREM StaysReadable == Spec => []LoginStaysReadable
<1>1. IInv => LoginStaysReadable
  BY DEF IInv, SavesFit, LoginStaysReadable
<1>. QED BY <1>1, Invariance, PTL

\* A settled login or logout decides what is stored.
THEOREM WordStands == Spec => []LastWordStands
<1>1. IInv => LastWordStands
  BY DEF IInv, WordFits, WordOfLoginFits, LastWordStands, Stored
<1>. QED BY <1>1, Invariance, PTL

-----------------------------------------------------------------------------
(* Login, by an instance: how the tokens are obtained that Tokens keeps.   *)

\* Past start and not ended; and those that ever were.
Signing(l) == stage[l] \in {"waiting", "exchanging", "finishing", "handing", "handed"}
Bound == {l \in Logins : order[l] # 0}

\* A login has the port exactly while it is signing in.
PortFits == \A l \in Logins : Signing(l) <=> port = l

\* Logins take the port one after another, and who has it took it last.
OrderFits ==
  /\ \A l \in Logins :
       /\ stage[l] \in {"unused", "starting"} => order[l] = 0
       /\ l > begun => stage[l] = "unused"
       /\ order[l] <= Cardinality(Bound)
  /\ latest <= Cardinality(Bound)
  /\ port # Nothing => order[port] = Cardinality(Bound)

\* Without the screen of a login, there is none but one whose URL did not come.
DialogueFits ==
  /\ mode \in {"entering", "confirm"} => selected = opened
  /\ mode # "login" => login \in {Nothing, unseen}

SignInInv == LoginTypeOK /\ PortFits /\ OrderFits /\ DialogueFits

-----------------------------------------------------------------------------
\* There are at most as many logins that had the port as there are logins.
LEMMA BoundIsFinite ==
  ASSUME NEW S \in SUBSET Logins
  PROVE  IsFiniteSet(S) /\ Cardinality(S) \in 0..MaxLogins
<1> USE LoginAssumption DEF Logins
<1>1. IsFiniteSet(1..MaxLogins) /\ Cardinality(1..MaxLogins) = MaxLogins
  BY FS_Interval
<1>2. IsFiniteSet(S) /\ Cardinality(S) <= Cardinality(1..MaxLogins)
  BY <1>1, FS_Subset
<1>. QED BY <1>1, <1>2, FS_CardinalityType

LEMMA SignInInit ==
  ASSUME LoginInit
  PROVE  SignInInv
<1> USE LoginAssumption DEF Logins, LoginInit
<1>1. LoginTypeOK
  BY DEF LoginTypeOK
<1>2. PortFits /\ DialogueFits
  BY DEF PortFits, DialogueFits, Signing
<1>3. Cardinality(Bound) \in Nat
  BY BoundIsFinite DEF Bound
<1>4. OrderFits
  BY <1>3 DEF OrderFits
<1>. QED BY <1>1, <1>2, <1>4 DEF SignInInv

\* A step that leaves the logins alone keeps what is known of them.
LEMMA LoginsUntouched ==
  ASSUME SignInInv, UNCHANGED <<stage, port, order, latest, begun>>
  PROVE  PortFits' /\ OrderFits'
BY DEF SignInInv, PortFits, OrderFits, Signing, Bound

\* And one that leaves the interface alone what is known of that.
LEMMA DialoguesUntouched ==
  ASSUME SignInInv, UNCHANGED <<appVars, dialogueVars>>
  PROVE  DialogueFits'
BY DEF SignInInv, DialogueFits, appVars, dialogueVars

\* Every step of the interface but Quit keeps the invariant.
LEMMA InterfaceKeeps ==
  ASSUME SignInInv,
         \/ Opened \/ PollLogin \/ Tick
         \/ OpenDialogue \/ CloseDialogue \/ Submit
         \/ Paste \/ Cancel
  PROVE  SignInInv'
<1> USE DEF Opened, PollLogin, Tick, OpenDialogue,
            CloseDialogue, Submit, Paste, Cancel,
            Awake, Refresh, appVars, dialogueVars,
            threadVars, storeVars
<1>1. PortFits' /\ OrderFits'
  BY LoginsUntouched
<1>2. DialogueFits'
  BY DEF SignInInv, DialogueFits
<1>3. LoginTypeOK'
  BY DEF SignInInv, LoginTypeOK
<1>. QED BY <1>1, <1>2, <1>3 DEF SignInInv

\* A login that begins is one that was not used before.
LEMMA BeginKeeps ==
  ASSUME SignInInv, StartLogin \/ Command
  PROVE  SignInInv'
<1> USE DEF StartLogin, Command, Begin, appVars,
            dialogueVars, storeVars
<1> USE LoginAssumption DEF Logins
<1>1. begun' \in 1..MaxLogins /\ begun' = begun + 1
  BY DEF SignInInv, LoginTypeOK
<1>2. LoginTypeOK'
  <2>1. begun \in 0..MaxLogins /\ commands \subseteq 1..begun
    BY DEF SignInInv, LoginTypeOK
  <2>2. commands' \subseteq commands \cup {begun'}
    OBVIOUS
  <2>3. commands' \subseteq 1..begun'
    BY <1>1, <2>1, <2>2
  <2>4. stage' \in [Logins -> {"unused", "starting", "waiting", "exchanging",
                                     "finishing", "handing", "handed", "ended"}]
    BY <1>1 DEF SignInInv, LoginTypeOK
  <2>5. {opening', login', redirect', port', store', unseen'} \subseteq Logins \cup {Nothing}
    BY <1>1 DEF SignInInv, LoginTypeOK
  <2>6. /\ mode' \in {"list", "login", "entering", "confirm"}
        /\ selected' \in Provider \cup {Nothing} /\ opened' \in Provider \cup {Nothing}
        /\ pasted' \in [Logins -> {"nothing", "good", "bad"}]
        /\ abandoned' \subseteq Logins
        /\ order' \in [Logins -> 0..MaxLogins] /\ latest' \in 0..MaxLogins
    BY DEF SignInInv, LoginTypeOK
  <2>. HIDE DEF StartLogin, Command, Logins
  <2>. QED BY <1>1, <2>3, <2>4, <2>5, <2>6 DEF LoginTypeOK
<1>3. stage[begun'] = "unused" /\ stage'[begun'] = "starting"
  BY <1>1 DEF SignInInv, OrderFits, LoginTypeOK
<1>4. \A l \in Logins \ {begun'} : stage'[l] = stage[l]
  BY DEF SignInInv, LoginTypeOK
<1>5. PortFits'
  BY <1>1, <1>3, <1>4 DEF SignInInv, PortFits, Signing
<1>6. OrderFits'
  <2>1. Bound' = Bound
    BY DEF Bound
  <2>2. order[begun'] = 0
    BY <1>1, <1>3 DEF SignInInv, OrderFits
  <2>3. \A l \in Logins : l > begun' => l > begun /\ l # begun'
    BY <1>1 DEF SignInInv, LoginTypeOK
  <2>. QED BY <1>3, <1>4, <2>1, <2>2, <2>3 DEF SignInInv, OrderFits
<1>7. DialogueFits'
  BY DEF SignInInv, DialogueFits
<1>. QED BY <1>2, <1>5, <1>6, <1>7 DEF SignInInv

\* Logins that are killed let go of the port.
LEMMA KilledKeeps ==
  ASSUME SignInInv, NEW killed \in SUBSET (1..begun),
         Killed(killed), UNCHANGED <<begun, order, latest>>
  PROVE  PortFits' /\ OrderFits' /\ abandoned' \subseteq Logins
<1> USE LoginAssumption DEF Logins, Killed
<1>1. killed \subseteq 1..MaxLogins
  BY DEF SignInInv, LoginTypeOK
<1>2. PortFits'
  BY <1>1 DEF SignInInv, PortFits, Signing
<1>3. OrderFits'
  BY <1>1 DEF SignInInv, OrderFits, Bound, LoginTypeOK
<1>. QED BY <1>1, <1>2, <1>3 DEF SignInInv, LoginTypeOK

LEMMA QuitKeeps ==
  ASSUME SignInInv, Quit
  PROVE  SignInInv'
<1> USE DEF Quit, Refresh, dialogueVars
<1>1. PortFits' /\ OrderFits' /\ abandoned' \subseteq Logins
  BY KilledKeeps
<1>2. DialogueFits'
  BY DEF DialogueFits
<1>3. LoginTypeOK'
  BY <1>1 DEF SignInInv, LoginTypeOK, Killed
<1>. QED BY <1>1, <1>2, <1>3 DEF SignInInv

LEMMA InterruptKeeps ==
  ASSUME SignInInv, NEW l \in Logins, Interrupt(l)
  PROVE  SignInInv'
<1> USE DEF Interrupt
<1>1. {l} \in SUBSET (1..begun)
  BY DEF SignInInv, LoginTypeOK
<1>2. PortFits' /\ OrderFits' /\ abandoned' \subseteq Logins
  BY <1>1, KilledKeeps
<1>3. DialogueFits'
  BY DialoguesUntouched
<1>4. LoginTypeOK'
  BY <1>2 DEF SignInInv, LoginTypeOK, Killed, appVars, dialogueVars
<1>. QED BY <1>2, <1>3, <1>4 DEF SignInInv

\* Taking the port puts a login behind all that had it.
LEMMA BindKeeps ==
  ASSUME SignInInv, NEW l \in Logins, Bind(l)
  PROVE  SignInInv'
<1> USE DEF Bind, Goes, storeVars
<1> USE LoginAssumption DEF Logins
<1>1. /\ stage[l] = "starting" /\ stage'[l] = "waiting"
      /\ \A k \in Logins \ {l} : stage'[k] = stage[k]
      /\ order[l] = 0 /\ port = Nothing /\ port' = l
  BY DEF SignInInv, LoginTypeOK, OrderFits
<1>2. IsFiniteSet(Bound) /\ Cardinality(Bound) \in 0..MaxLogins
  BY BoundIsFinite DEF Bound
<1>3. /\ order'[l] = Cardinality(Bound) + 1
      /\ \A k \in Logins \ {l} : order'[k] = order[k]
  <2>1. order' = [order EXCEPT ![l] = 1 + Cardinality(Bound)]
    BY DEF Bound
  <2>2. order \in [Logins -> 0..MaxLogins]
    BY DEF SignInInv, LoginTypeOK
  <2>. QED BY <1>2, <2>1, <2>2
<1>4. Bound' = Bound \cup {l} /\ l \notin Bound
  <2>1. order'[l] # 0
    BY <1>2, <1>3
  <2>. QED BY <1>1, <1>3, <2>1 DEF Bound
<1>5. Cardinality(Bound') = Cardinality(Bound) + 1
  BY <1>2, <1>4, FS_AddElement
<1>6. Cardinality(Bound') \in 0..MaxLogins
  BY BoundIsFinite DEF Bound
<1>7. LoginTypeOK'
  <2>1. order' \in [Logins -> 0..MaxLogins]
    BY <1>2, <1>3, <1>5, <1>6 DEF SignInInv, LoginTypeOK, Bound
  <2>. QED BY <2>1 DEF SignInInv, LoginTypeOK, appVars, dialogueVars
<1>8. PortFits'
  BY <1>1 DEF SignInInv, PortFits, Signing
<1>9. OrderFits'
  <2>1. latest <= Cardinality(Bound) /\ latest \in Nat /\ begun' = begun
    BY DEF SignInInv, OrderFits, LoginTypeOK
  <2>2. latest' <= Cardinality(Bound') /\ order'[port'] = Cardinality(Bound')
    BY <1>1, <1>2, <1>3, <1>5, <2>1
  <2>3. \A k \in Logins : order[k] <= Cardinality(Bound) /\ order[k] \in Nat
    BY DEF SignInInv, OrderFits, LoginTypeOK
  <2>4. \A k \in Logins : order'[k] <= Cardinality(Bound')
    BY <1>2, <1>3, <1>5, <2>3
  <2>5. l <= begun
    BY <1>1, <2>1 DEF SignInInv, OrderFits, LoginTypeOK
  <2>. QED BY <1>1, <1>3, <2>1, <2>2, <2>4, <2>5 DEF SignInInv, OrderFits
<1>10. DialogueFits'
  BY DialoguesUntouched
<1>. QED BY <1>7, <1>8, <1>9, <1>10 DEF SignInInv

\* What is stored is the tokens of a login that had the port.
LEMMA LaterIsStored ==
  ASSUME SignInInv, NEW l \in Logins, StoreTokens(l)
  PROVE  latest' <= Cardinality(Bound) /\ latest' \in 0..MaxLogins /\ store' = l
BY DEF SignInInv, OrderFits, StoreTokens, LoginTypeOK

\* A step of a login that goes on or ends.
LEMMA StepKeeps ==
  ASSUME SignInInv, NEW l \in Logins,
         NEW to, NEW from \in SUBSET {"starting", "waiting", "exchanging", "finishing",
                                      "handing", "handed"},
         Goes(l, from, to), UNCHANGED order,
         \/ to = "ended" /\ port' = (IF port = l THEN Nothing ELSE port)
         \/ /\ to \in {"exchanging", "finishing", "handing", "handed"}
            /\ "starting" \notin from /\ UNCHANGED port,
         UNCHANGED <<store, latest>> \/ StoreTokens(l),
         abandoned' \subseteq abandoned
  PROVE  SignInInv'
<1> USE DEF Goes
<1> USE LoginAssumption DEF Logins
<1>1. /\ stage[l] \in from /\ stage'[l] = to
      /\ \A k \in Logins \ {l} : stage'[k] = stage[k]
  BY DEF SignInInv, LoginTypeOK
<1>2. /\ latest' <= Cardinality(Bound) /\ latest' \in 0..MaxLogins
      /\ store' \in Logins \cup {Nothing}
  BY LaterIsStored DEF SignInInv, OrderFits, LoginTypeOK
<1>3. LoginTypeOK'
  BY <1>2 DEF SignInInv, LoginTypeOK, appVars, dialogueVars
<1>4. PortFits'
  BY <1>1 DEF SignInInv, PortFits, Signing
<1>5. OrderFits'
  BY <1>1, <1>2 DEF SignInInv, OrderFits, Bound
<1>6. DialogueFits'
  BY DialoguesUntouched
<1>. QED BY <1>3, <1>4, <1>5, <1>6 DEF SignInInv

LEMMA StepsKeep ==
  ASSUME SignInInv, NEW l \in Logins,
         \/ Callback(l) \/ CallbackRefused(l) \/ Steps(l)
  PROVE  SignInInv'
<1> USE DEF Ends, storeVars
<1>1. CASE Callback(l)
  BY <1>1, StepKeeps DEF Callback
<1>2. CASE CallbackRefused(l)
  BY <1>2, StepKeeps DEF CallbackRefused
<1>3. CASE Bind(l)
  BY <1>3, BindKeeps
<1>4. CASE BindFails(l)
  BY <1>4, StepKeeps DEF BindFails
<1>5. CASE TakePasted(l)
  BY <1>5, StepKeeps DEF TakePasted
<1>6. CASE Cancelled(l)
  BY <1>6, StepKeeps DEF Cancelled
<1>7. CASE TimeOut(l)
  BY <1>7, StepKeeps DEF TimeOut
<1>8. CASE Exchange(l)
  BY <1>8, StepKeeps DEF Exchange
<1>9. CASE Rejected(l)
  BY <1>9, StepKeeps DEF Rejected
<1>10. CASE Handed(l)
  BY <1>10, StepKeeps DEF Handed
<1>11. CASE Done(l)
  BY <1>11, StepKeeps DEF Done
<1>12. CASE NotHanded(l)
  BY <1>12, StepKeeps DEF NotHanded
<1>. QED BY <1>1, <1>2, <1>3, <1>4, <1>5, <1>6, <1>7, <1>8, <1>9, <1>10, <1>11, <1>12
         DEF Steps

\* A line pasted, and tokens the daemon stores after their login has ended.
LEMMA OthersKeep ==
  ASSUME SignInInv, NEW l \in Logins,
         PasteLine(l) \/ HandedLate(l)
  PROVE  SignInInv'
<1> USE DEF PasteLine, HandedLate, appVars, dialogueVars,
            threadVars, storeVars
<1>1. DialogueFits'
  BY DialoguesUntouched
<1>2. CASE PasteLine(l)
  <2>1. LoginTypeOK'
    BY <1>2 DEF SignInInv, LoginTypeOK
  <2>2. PortFits' /\ OrderFits'
    BY <1>2, LoginsUntouched
  <2>. QED BY <1>1, <2>1, <2>2 DEF SignInInv
<1>3. CASE HandedLate(l)
  <2>1. latest' <= Cardinality(Bound) /\ latest' \in 0..MaxLogins /\ store' = l
    BY <1>3, LaterIsStored
  <2>2. LoginTypeOK'
    BY <1>3, <2>1 DEF SignInInv, LoginTypeOK
  <2>3. PortFits' /\ OrderFits'
    BY <1>3, <2>1 DEF SignInInv, PortFits, OrderFits, Signing, Bound
  <2>. QED BY <1>1, <2>2, <2>3 DEF SignInInv
<1>. QED BY <1>2, <1>3

LEMMA SignInNext ==
  ASSUME SignInInv, [LoginNext]_loginVars
  PROVE  SignInInv'
<1>1. CASE UNCHANGED loginVars
  <2> USE <1>1 DEF loginVars, appVars, dialogueVars, threadVars,
                   storeVars
  <2>1. LoginTypeOK'
    BY DEF SignInInv, LoginTypeOK
  <2>. QED BY <2>1, LoginsUntouched, DialoguesUntouched DEF SignInInv
<1>2. CASE \/ Opened \/ PollLogin \/ Tick
           \/ OpenDialogue \/ CloseDialogue \/ Submit
           \/ Paste \/ Cancel
  BY <1>2, InterfaceKeeps
<1>3. CASE StartLogin \/ Command
  BY <1>3, BeginKeeps
<1>4. CASE Quit
  BY <1>4, QuitKeeps
<1>5. ASSUME NEW l \in Logins,
             \/ PasteLine(l) \/ Interrupt(l) \/ HandedLate(l)
             \/ Callback(l) \/ CallbackRefused(l) \/ Steps(l)
      PROVE  SignInInv'
  BY <1>5, OthersKeep, InterruptKeeps, StepsKeep
<1>. QED BY <1>1, <1>2, <1>3, <1>4, <1>5 DEF LoginNext

-----------------------------------------------------------------------------
\* The inductive invariant of logins: a login holds the callback port from its
\* start to its end, whoever has it took it after all others that ever did, and
\* what is stored is not of a later one (oauth/login.rs 26-34); no dialogue is
\* open while a login is shown (tui/mod.rs 174-180).
THEOREM SignInInvariance ==
  LoginSpec => []SignInInv
<1>1. LoginInit => SignInInv
  BY SignInInit
<1>2. SignInInv /\ [LoginNext]_loginVars => SignInInv'
  BY SignInNext
<1>. QED BY <1>1, <1>2, PTL DEF LoginSpec

\* While a key is entered or a clearing confirmed, no login that ends closes the
\* dialogue or changes whose credential it is about, but one whose URL did not
\* come in time (tui/mod.rs 174-180, 280-284).
THEOREM DialoguesStand ==
  LoginSpec => []DialoguesAreTheUsers
<1>1. SignInInv => DialoguesAreTheUsers
  BY DEF SignInInv, DialogueFits, DialoguesAreTheUsers
<1>. QED BY <1>1, SignInInvariance, PTL

\* A step that stores a login's tokens is its own while it has the port, or comes
\* after its process was ended.
LEMMA StoredBySigning ==
  ASSUME SignInInv, [LoginNext]_loginVars,
         NEW l \in Logins, store # l, store' = l
  PROVE  port = l \/ l \in abandoned
<1> l # Nothing
  BY LoginAssumption DEF Logins
<1> USE DEF storeVars, StoreTokens
<1>1. CASE UNCHANGED loginVars
  BY <1>1 DEF loginVars
<1>2. CASE Submit
  BY <1>2 DEF Submit
<1>3. CASE \/ StartLogin \/ Opened \/ PollLogin \/ Tick
           \/ OpenDialogue \/ CloseDialogue \/ Paste
           \/ Cancel \/ Quit \/ Command
  BY <1>3 DEF StartLogin, Opened, PollLogin, Tick,
              OpenDialogue, CloseDialogue, Paste, Cancel,
              Quit, Command
<1>4. ASSUME NEW k \in Logins,
             PasteLine(k) \/ Interrupt(k) \/ HandedLate(k)
      PROVE  l \in abandoned
  BY <1>4 DEF PasteLine, Interrupt, HandedLate
<1>5. ASSUME NEW k \in Logins, Handed(k) \/ NotHanded(k)
      PROVE  port = l
  <2>1. k = l /\ stage[k] \in {"handing", "handed"}
    BY <1>5 DEF Handed, NotHanded, Ends, Goes
  <2>. QED BY <2>1 DEF SignInInv, PortFits, Signing
<1>6. ASSUME NEW k \in Logins,
             \/ Callback(k) \/ CallbackRefused(k)
             \/ Bind(k) \/ BindFails(k) \/ TakePasted(k)
             \/ Cancelled(k) \/ TimeOut(k) \/ Exchange(k)
             \/ Rejected(k) \/ Done(k)
      PROVE  FALSE
  BY <1>6 DEF Callback, CallbackRefused, Bind, BindFails,
              TakePasted, Cancelled, TimeOut, Exchange,
              Rejected, Done
<1>. QED BY <1>1, <1>2, <1>3, <1>4, <1>5, <1>6 DEF LoginNext, Steps

\* The tokens of a login never replace those of one that took the port later,
\* unless its process was ended while the daemon was asked (oauth/login.rs
\* 26-34, tui/mod.rs 218-239).
THEOREM LaterLoginStays ==
  LoginSpec => LaterLoginsStand
<1>1. ASSUME SignInInv, [LoginNext]_loginVars
      PROVE  [\A l \in Logins :
                store # l /\ store' = l => order[l] >= latest \/ l \in abandoned]_loginVars
  <2> SUFFICES ASSUME NEW l \in Logins, store # l, store' = l, l \notin abandoned
               PROVE  order[l] >= latest
    OBVIOUS
  <2>1. port = l /\ l # Nothing
    BY <1>1, StoredBySigning, LoginAssumption DEF Logins
  <2>2. Cardinality(Bound) \in Nat
    BY BoundIsFinite DEF Bound
  <2>. QED BY <1>1, <2>1, <2>2 DEF SignInInv, OrderFits, LoginTypeOK
<1>. QED BY <1>1, SignInInvariance, PTL DEF LaterLoginsStand, LoginSpec
=============================================================================
