------------------------------- MODULE Tokens -------------------------------
(***************************************************************************)
(* The login of one user with one OAuth provider: the token file           *)
(* (oauth/store.rs) that every request reads, refreshes and saves without  *)
(* a lock (oauth_auth in providers/mod.rs), that a login is handed to      *)
(* (set_tokens in admin.rs) and that a logout removes (clear_credential,   *)
(* and run_auth_command in main.rs).                                       *)
(*                                                                         *)
(* A save is two steps, the open that truncates and the write; a writer    *)
(* keeps the file it opened though that was removed since. A read is one.  *)
(* The provider accepts the refresh token it gave last: it gives another   *)
(* whenever that is used, or never. Tokens are told apart by their login   *)
(* and a serial number; account is the account_id stored beside them.      *)
(***************************************************************************)
EXTENDS Naturals, FiniteSets

CONSTANTS Request,      \* calls of oauth_auth under way at once
          Session,      \* logins, each of an account of its own
          Rotating,     \* those whose provider replaces the refresh token
          None,         \* no tokens, no account
          Login,        \* the writer that stores a login
          MaxIssues,    \* bound: access tokens issued in a session
          MaxCrashes    \* bound: crashes of the worker

ASSUME SessionAssumption == None \notin Session /\ Login \notin Request
ASSUME SerialAssumption == None \notin 1..MaxIssues
ASSUME RotatingAssumption == Rotating \subseteq Session
ASSUME BoundAssumption == MaxIssues \in Nat \ {0} /\ MaxCrashes \in Nat

VARIABLES file,     \* [state, tokens]: the token file
          pc,       \* [Request -> ...]: where oauth_auth is
          held,     \* [Request -> ...]: its tokens
          answer,   \* [Request -> ...]: the provider's answer to its refresh
          storing,  \* the session whose login is being stored
          linked,   \* the writers whose open file is the one at the path
          issued,   \* [Session -> Nat]: access tokens issued
          current,  \* [Session -> Nat]: the refresh token accepted
          due,      \* [Session -> Nat]: the last access token close to expiry
          lost,     \* history: sessions of which a newer token was never stored
          spoiled,  \* history: a save was cut short or overlapped another
          word,     \* history: the session logged in last, None once logged out
          settled,  \* history: nothing was under way then that can undo it
          crashes   \* to bound them

requestVars == <<pc, held, answer>>
writerVars == <<storing, linked>>
providerVars == <<issued, current, due>>
historyVars == <<lost, spoiled, word, settled>>
vars == <<file, requestVars, writerVars, providerVars, historyVars, crashes>>

Serial == 1..MaxIssues
TokenSet == [session : Session, access : Serial, refresh : Serial,
             account : Session \cup {None}]
Answer == [session : Session, access : Serial, refresh : Serial \cup {None},
           account : Session \cup {None}]

Unreadable(state) == [state |-> state, tokens |-> None]
Holding(tokens) == [state |-> "tokens", tokens |-> tokens]
File == {Unreadable(state) : state \in {"absent", "empty", "garbled"}}
          \cup {Holding(tokens) : tokens \in TokenSet}

Init ==
  /\ file = Unreadable("absent")
  /\ pc = [r \in Request |-> "idle"]
  /\ held = [r \in Request |-> None]
  /\ answer = [r \in Request |-> None]
  /\ storing = None /\ linked = {}
  /\ issued = [s \in Session |-> 0]
  /\ current = [s \in Session |-> 0]
  /\ due = [s \in Session |-> 0]
  /\ lost = {} /\ spoiled = FALSE /\ word = None /\ settled = TRUE
  /\ crashes = 0

-----------------------------------------------------------------------------
(* TokenStore: save in two steps.                                          *)

OpenInPlace(w) ==
  /\ file' = IF file.state = "absent" THEN Unreadable("empty") ELSE file
  /\ linked' = linked \cup {w}
  /\ spoiled' = (spoiled \/ linked # {})

\* The file is created or truncated.
Open(w) ==
  /\ file' = Unreadable("empty")
  /\ linked' = linked \cup {w}
  /\ spoiled' = (spoiled \/ linked # {})

\* What is read after tokens were written over the file: what another writer
\* put there since it was truncated may be longer.
Over(tokens) ==
  {Holding(tokens)} \cup
  (IF file.state = "empty" THEN {} ELSE {Unreadable("garbled")})

WriteToPath(w, tokens) ==
  /\ file' \in Over(tokens)
  /\ linked' = linked \ {w}

Write(w, tokens) ==
  /\ file' \in IF w \in linked THEN Over(tokens) ELSE {file}
  /\ linked' = linked \ {w}

\* The disk is full: nothing or a part was written.
CutShort(w) ==
  /\ file' \in {file} \cup
               (IF w \in linked THEN {Unreadable("garbled")} ELSE {})
  /\ linked' = linked \ {w}
  /\ spoiled' = TRUE

-----------------------------------------------------------------------------
(* oauth_auth.                                                             *)

NeedsRefresh(tokens) == tokens.access <= due[tokens.session]

Read(r) ==
  /\ pc[r] = "idle" /\ file.state = "tokens"
  /\ pc' = [pc EXCEPT ![r] = IF NeedsRefresh(file.tokens) THEN "asking"
                                                          ELSE "ready"]
  /\ held' = [held EXCEPT ![r] = file.tokens]
  /\ UNCHANGED <<file, answer, writerVars, providerVars, historyVars, crashes>>

\* The provider takes the refresh token, and answers with a new one if it
\* rotates them, and with an id_token or not.
Grant(r) ==
  LET s == held[r].session
      serial == issued[s] + 1
  IN  /\ pc[r] = "asking"
      /\ held[r].refresh = current[s] /\ issued[s] < MaxIssues
      /\ \E account \in {s, None} :
           answer' = [answer EXCEPT ![r] =
                        [session |-> s, access |-> serial,
                         refresh |-> IF s \in Rotating THEN serial ELSE None,
                         account |-> account]]
      /\ current' = [current EXCEPT ![s] = IF s \in Rotating THEN serial ELSE @]
      /\ issued' = [issued EXCEPT ![s] = serial]
      /\ pc' = [pc EXCEPT ![r] = "answered"]
      /\ UNCHANGED <<file, held, writerVars, due, historyVars, crashes>>

\* The sessions whose accepted refresh token only the answers to rs carry.
LostWith(rs) ==
  {answer[r].session : r \in {r \in rs : /\ pc[r] = "answered"
                                         /\ answer[r].refresh # None}}

Dropped(rs) ==
  /\ pc' = [r \in Request |-> IF r \in rs THEN "idle" ELSE pc[r]]
  /\ held' = [r \in Request |-> IF r \in rs THEN None ELSE held[r]]
  /\ answer' = [r \in Request |-> IF r \in rs THEN None ELSE answer[r]]

\* The provider refuses, it or its answer cannot be reached or read, or the
\* client hung up while the refresh was awaited.
Fail(r) ==
  /\ pc[r] \in {"asking", "answered"}
  /\ Dropped({r})
  /\ lost' = lost \cup LostWith({r})
  /\ UNCHANGED <<file, writerVars, providerVars, spoiled, word, settled, crashes>>

RefreshedKeepingOld(r) ==
  [answer[r] EXCEPT !.refresh = held[r].refresh,
                    !.account = IF @ = None THEN held[r].account ELSE @]

RefreshedOfFile(r) ==
  [answer[r] EXCEPT !.refresh = IF @ = None THEN held[r].refresh ELSE @,
                    !.account = IF @ # None \/ file.tokens = None THEN @
                                ELSE file.tokens.account]

\* What the answer leaves out is kept from the tokens refreshed.
Refreshed(r) ==
  [answer[r] EXCEPT !.refresh = IF @ = None THEN held[r].refresh ELSE @,
                    !.account = IF @ = None THEN held[r].account ELSE @]

Save(r) ==
  /\ pc[r] = "answered"
  /\ held' = [held EXCEPT ![r] = Refreshed(r)]
  /\ answer' = [answer EXCEPT ![r] = None]
  /\ \/ /\ Open(r)
        /\ pc' = [pc EXCEPT ![r] = "writing"]
        /\ UNCHANGED lost
     \/ \* The file cannot be opened: a warning.
        /\ pc' = [pc EXCEPT ![r] = "ready"]
        /\ lost' = lost \cup LostWith({r})
        /\ UNCHANGED <<file, linked, spoiled>>
  /\ UNCHANGED <<storing, providerVars, word, settled, crashes>>

Store(r) ==
  /\ pc[r] = "writing"
  /\ pc' = [pc EXCEPT ![r] = "ready"]
  /\ \/ Write(r, held[r]) /\ UNCHANGED <<lost, spoiled>>
     \/ CutShort(r) /\ lost' = lost \cup {held[r].session}
  /\ UNCHANGED <<held, answer, storing, providerVars, word, settled, crashes>>

\* The request goes out with the access token and the account's header.
Use(r) ==
  /\ pc[r] = "ready"
  /\ Dropped({r})
  /\ UNCHANGED <<file, writerVars, providerVars, historyVars, crashes>>

-----------------------------------------------------------------------------
(* Logins, logouts and the rest of the world.                              *)

Refreshing == \E r \in Request : pc[r] \in {"asking", "answered"}

LoginTokens(s) == [session |-> s, access |-> 1, refresh |-> 1, account |-> s]

\* A login's code was exchanged, and its tokens reach set_tokens.
SetTokens(s) ==
  /\ storing = None /\ issued[s] = 0
  /\ issued' = [issued EXCEPT ![s] = 1]
  /\ current' = [current EXCEPT ![s] = 1]
  /\ storing' = s
  /\ Open(Login)
  /\ word' = s /\ settled' = (~Refreshing /\ linked = {})
  /\ UNCHANGED <<requestVars, due, lost, crashes>>

StoreLogin ==
  /\ storing # None
  /\ storing' = None
  /\ \/ Write(Login, LoginTokens(storing)) /\ UNCHANGED spoiled
     \/ CutShort(Login)
  /\ UNCHANGED <<requestVars, providerVars, lost, word, settled, crashes>>

SignedOut == word' = None /\ settled' = ~Refreshing

\* TokenStore::clear of the daemon's directory: the clear_credential handler,
\* or claude-router logout where both use one directory.
Clear ==
  /\ file.state # "absent"
  /\ file' = Unreadable("absent")
  /\ linked' = {}
  /\ SignedOut
  /\ UNCHANGED <<requestVars, storing, providerVars, lost, spoiled, crashes>>

\* Time passes: the access token after the last one due comes within
\* REFRESH_WINDOW of its expiry.
Age(s) ==
  /\ due[s] < issued[s]
  /\ due' = [due EXCEPT ![s] = @ + 1]
  /\ UNCHANGED <<file, requestVars, writerVars, issued, current, historyVars,
                 crashes>>

Crash ==
  /\ crashes < MaxCrashes /\ crashes' = crashes + 1
  /\ Dropped(Request)
  /\ storing' = None /\ linked' = {}
  /\ lost' = lost \cup LostWith(Request)
                  \cup {held[r].session : r \in {r \in Request : pc[r] = "writing"}}
  /\ spoiled' = (spoiled \/ linked # {})
  /\ UNCHANGED <<file, providerVars, word, settled>>

Next ==
  \/ \E r \in Request : Read(r) \/ Grant(r) \/ Fail(r) \/ Save(r) \/ Store(r) \/ Use(r)
  \/ \E s \in Session : SetTokens(s) \/ Age(s)
  \/ StoreLogin \/ Clear \/ Crash

Spec == Init /\ [][Next]_vars
-----------------------------------------------------------------------------
TypeOK ==
  /\ file \in File
  /\ pc \in [Request -> {"idle", "asking", "answered", "writing", "ready"}]
  /\ held \in [Request -> TokenSet \cup {None}]
  /\ answer \in [Request -> Answer \cup {None}]
  /\ storing \in Session \cup {None}
  /\ linked \subseteq Request \cup {Login}
  /\ issued \in [Session -> 0..MaxIssues]
  /\ current \in [Session -> 0..MaxIssues]
  /\ due \in [Session -> 0..MaxIssues]
  /\ lost \subseteq Session /\ spoiled \in BOOLEAN
  /\ word \in Session \cup {None} /\ settled \in BOOLEAN
  /\ crashes \in 0..MaxCrashes

\* Whatever logins, refreshes and saves overlap, a token is only ever stored or
\* sent with the account it was issued for, though the answer to a refresh need
\* not name one (providers/mod.rs 207-211).
AccountFollowsToken ==
  /\ file.state = "tokens" => file.tokens.account = file.tokens.session
  /\ \A r \in Request : pc[r] = "ready" => held[r].account = held[r].session

\* The provider accepts the refresh token in the file, or a request is about to
\* replace it, however many requests refresh at once and whether the provider
\* rotates tokens or not, unless the answer or the save of a newer one was lost
\* (oauth/mod.rs 87-89, providers/mod.rs 197-215).
StoredTokenIsLive ==
  file.state = "tokens" =>
    LET s == file.tokens.session
    IN  \/ file.tokens.refresh = current[s]
        \/ s \in lost
        \/ \E r \in Request : pc[r] = "answered" /\ answer[r].session = s

\* A login is unreadable only while it is being stored or refreshed, unless a
\* save was cut short or two of them overlapped (oauth/store.rs 60-71).
LoginStaysReadable ==
  file.state \in {"empty", "garbled"} => linked # {} \/ spoiled

\* The last login or logout decides what is stored, if no refresh was under way
\* then: a save that had opened the file before a logout does not bring the
\* login back, nor any later request an earlier one (oauth/store.rs 60-78).
LastWordStands ==
  settled =>
    IF word = None THEN file.state = "absent"
    ELSE file.state = "tokens" => file.tokens.session = word
=============================================================================
