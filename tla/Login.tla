------------------------------- MODULE Login --------------------------------
(***************************************************************************)
(* Logins of one OAuth provider (oauth/login.rs): by the terminal          *)
(* interface, which runs each on a thread of its own and may be left or    *)
(* ended meanwhile (tui/mod.rs), and by claude-router login (main.rs). The *)
(* interface also sets keys and clears credentials of the provider that is *)
(* selected in a list it fetches from the daemon.                          *)
(*                                                                         *)
(* A redirect reaches a login through its callback port or by hand, and    *)
(* is good if it carries a code and the state of this attempt. The thread  *)
(* takes whichever of the callback with its exchange, and the pasted       *)
(* redirect, is there first. Screens, status lines and the text typed are  *)
(* left out; the provider and the browser may do anything.                 *)
(***************************************************************************)
EXTENDS Naturals, FiniteSets

CONSTANTS Provider,    \* configured at the daemon
          Oauth,       \* those that sign in: logins are of one of them
          Nothing,     \* no provider, no login
          MaxLogins    \* bound: logins begun

ASSUME ProviderAssumption == Oauth \in Provider /\ Nothing \notin Provider
ASSUME LoginAssumption == MaxLogins \in Nat /\ Nothing \notin 1..MaxLogins

VARIABLES mode,       \* App.mode
          opening,    \* the login whose URL start_login waits for
          selected,   \* the provider selected in App.snapshot
          login,      \* App.login: the login whose result is awaited
          redirect,   \* App.redirect: the login that is sent pasted redirects
          begun,      \* logins begun
          commands,   \* those begun by claude-router login
          stage,      \* [1..MaxLogins -> ...]: where run_login is
          pasted,     \* [1..MaxLogins -> ...]: the redirect first pasted
          port,       \* the login that listens on the callback port
          store,      \* the login whose tokens the daemon has
          abandoned,  \* sent to the daemon by a process that ended then
          opened,     \* history: the provider a dialogue was opened for
          unseen,     \* history: the last login whose URL did not come
          order,      \* history, [1..MaxLogins -> Nat]: when it took the port
          latest      \* history: that of the latest login stored

appVars == <<mode, opening, selected, login, redirect>>
dialogueVars == <<opened, unseen>>
threadVars == <<stage, pasted, port>>
storeVars == <<store, abandoned, latest>>
loginVars == <<appVars, dialogueVars, begun, commands, threadVars, order, storeVars>>

Logins == 1..MaxLogins

LoginInit ==
  /\ mode = "list" /\ opening = Nothing /\ selected \in Provider \cup {Nothing}
  /\ login = Nothing /\ redirect = Nothing
  /\ begun = 0 /\ commands = {}
  /\ stage = [l \in Logins |-> "unused"]
  /\ pasted = [l \in Logins |-> "nothing"]
  /\ port = Nothing
  /\ store = Nothing /\ abandoned = {}
  /\ opened = Nothing /\ unseen = Nothing
  /\ order = [l \in Logins |-> 0] /\ latest = 0

-----------------------------------------------------------------------------
(* The interface.                                                          *)

\* start_login does not wait for a URL.
Awake == opening = Nothing

\* The list is fetched again: another may be selected, or none is left.
Refresh == selected' \in Provider \cup {Nothing}

Begin ==
  /\ begun < MaxLogins /\ begun' = begun + 1
  /\ stage' = [stage EXCEPT ![begun'] = "starting"]

\* start_login: the thread is started, and the interface waits for the URL.
StartLogin ==
  /\ Awake /\ mode = "list" /\ selected = Oauth
  /\ Begin
  /\ opening' = begun'
  /\ UNCHANGED <<mode, selected, login, redirect, dialogueVars, commands, pasted, port,
                 order, storeVars>>

\* The URL comes once the port is bound; or the login ends before that, or five
\* seconds pass. Its result is awaited all the same.
Opened ==
  /\ ~Awake /\ opening' = Nothing
  /\ login' = opening /\ redirect' = opening
  /\ IF order[opening] # 0
     THEN mode' = "login" /\ UNCHANGED unseen
     ELSE unseen' = opening /\ UNCHANGED mode
  /\ UNCHANGED <<selected, opened, begun, commands, threadVars, order, storeVars>>

\* The loop of run, wherever it is: a login has ended.
PollLogin ==
  /\ Awake /\ login # Nothing /\ stage[login] = "ended"
  /\ login' = Nothing /\ redirect' = Nothing
  /\ mode' = "list"
  /\ Refresh
  /\ UNCHANGED <<opening, dialogueVars, begun, commands, threadVars, order, storeVars>>

\* Every ten looks without a key, and at [r]; keys that move the selection.
Tick ==
  /\ Awake /\ mode = "list"
  /\ Refresh
  /\ UNCHANGED <<mode, opening, login, redirect, dialogueVars, begun, commands, threadVars,
                 order, storeVars>>

\* [s] for a key, [c] to clear one that the list says can be cleared.
OpenDialogue ==
  /\ Awake /\ mode = "list" /\ selected # Nothing
  /\ mode' \in (IF selected = Oauth THEN {} ELSE {"entering"}) \cup {"confirm"}
  /\ opened' = selected
  /\ UNCHANGED <<opening, selected, login, redirect, unseen, begun, commands, threadVars,
                 order, storeVars>>

\* Esc, an empty key, or a key other than [y].
CloseDialogue ==
  /\ mode \in {"entering", "confirm"}
  /\ mode' = "list"
  /\ UNCHANGED <<opening, selected, login, redirect, dialogueVars, begun, commands,
                 threadVars, order, storeVars>>

\* The daemon sets or clears the credential of what is selected now, or fails.
Submit ==
  /\ mode \in {"entering", "confirm"}
  /\ mode' = "list"
  /\ store' \in IF mode = "confirm" /\ selected = Oauth THEN {store, Nothing} ELSE {store}
  /\ Refresh
  /\ UNCHANGED <<opening, login, redirect, dialogueVars, begun, commands, threadVars,
                 order, abandoned, latest>>

\* Enter: of what is pasted, only the first is read.
Paste ==
  /\ mode = "login" /\ redirect # Nothing
  /\ \E how \in {"good", "bad"} :
       pasted' = [pasted EXCEPT ![redirect] = IF @ = "nothing" THEN how ELSE @]
  /\ UNCHANGED <<appVars, dialogueVars, begun, commands, stage, port, order, storeVars>>

CancelKeepingResult ==
  /\ mode = "login"
  /\ redirect' = Nothing /\ mode' = "list"
  /\ UNCHANGED <<opening, selected, login, dialogueVars, begun, commands, threadVars,
                 order, storeVars>>

\* Esc: the thread goes on until it finds its channel closed.
Cancel ==
  /\ mode = "login"
  /\ login' = Nothing /\ redirect' = Nothing /\ mode' = "list"
  /\ UNCHANGED <<opening, selected, dialogueVars, begun, commands, threadVars, order,
                 storeVars>>

\* The logins end where they are; what was sent to the daemon may still be
\* handled.
Killed(logins) ==
  /\ stage' = [l \in Logins |-> IF l \in logins THEN "ended" ELSE stage[l]]
  /\ port' = IF port \in logins THEN Nothing ELSE port
  /\ abandoned' = abandoned \cup {l \in logins : stage[l] = "handing"}

\* The interface is left, and its threads with it; another is started.
Quit ==
  /\ mode' = "list" /\ Refresh
  /\ opening' = Nothing /\ login' = Nothing /\ redirect' = Nothing
  /\ Killed((1..begun) \ commands)
  /\ UNCHANGED <<dialogueVars, begun, commands, pasted, order, store, latest>>

-----------------------------------------------------------------------------
(* claude-router login.                                                    *)

Command ==
  /\ Begin
  /\ commands' = commands \cup {begun'}
  /\ UNCHANGED <<appVars, dialogueVars, pasted, port, order, storeVars>>

\* A line on its standard input.
PasteLine(l) ==
  /\ l \in commands /\ stage[l] # "ended" /\ pasted[l] = "nothing"
  /\ \E how \in {"good", "bad"} : pasted' = [pasted EXCEPT ![l] = how]
  /\ UNCHANGED <<appVars, dialogueVars, begun, commands, stage, port, order, storeVars>>

Interrupt(l) ==
  /\ l \in commands /\ stage[l] # "ended"
  /\ Killed({l})
  /\ UNCHANGED <<appVars, dialogueVars, begun, commands, pasted, order, store, latest>>

-----------------------------------------------------------------------------
(* A login, on its thread.                                                 *)

Goes(l, from, to) ==
  /\ stage[l] \in from
  /\ stage' = [stage EXCEPT ![l] = to]
  /\ UNCHANGED <<appVars, dialogueVars, begun, commands, pasted>>

\* It ends, and its listener with it.
Ends(l, from) ==
  /\ Goes(l, from, "ended")
  /\ port' = IF port = l THEN Nothing ELSE port
  /\ UNCHANGED order

\* start: the port is bound before the URL is shown.
Bind(l) ==
  /\ port = Nothing /\ port' = l
  /\ Goes(l, {"starting"}, "waiting")
  /\ order' = [order EXCEPT ![l] = 1 + Cardinality({k \in Logins : order[k] # 0})]
  /\ UNCHANGED storeVars

\* Another login has the port, or another program.
BindFails(l) == Ends(l, {"starting"}) /\ UNCHANGED storeVars

CallbackUnbinding(l) ==
  /\ Goes(l, {"waiting"}, "exchanging")
  /\ port' = Nothing
  /\ UNCHANGED <<order, storeVars>>

\* The browser is redirected to the port with a code and this login's state.
Callback(l) ==
  /\ Goes(l, {"waiting"}, "exchanging")
  /\ UNCHANGED <<port, order, storeVars>>

\* Access was denied, or a redirect of another attempt came.
CallbackRefused(l) == Ends(l, {"waiting"}) /\ UNCHANGED storeVars

NoTimeOut(l) == FALSE /\ Ends(l, {"waiting"}) /\ UNCHANGED storeVars

\* LOGIN_TIMEOUT.
TimeOut(l) == Ends(l, {"waiting"}) /\ UNCHANGED storeVars

\* A redirect was pasted: the wait for the callback is given up, or the
\* exchange of what it brought.
TakePasted(l) ==
  /\ \/ /\ pasted[l] = "good"
        /\ Goes(l, {"waiting", "exchanging"}, "finishing")
        /\ UNCHANGED <<port, order>>
     \/ pasted[l] = "bad" /\ Ends(l, {"waiting", "exchanging"})
  /\ UNCHANGED storeVars

\* The interface no longer holds the channel for it.
Cancelled(l) ==
  /\ l \notin commands /\ redirect # l /\ opening # l /\ pasted[l] = "nothing"
  /\ Ends(l, {"waiting", "exchanging"})
  /\ UNCHANGED storeVars

\* exchange, and the tokens are sent to the daemon.
Exchange(l) ==
  /\ Goes(l, {"exchanging", "finishing"}, "handing")
  /\ UNCHANGED <<port, order, storeVars>>

\* The provider refuses, or answers without a refresh token.
Rejected(l) == Ends(l, {"exchanging", "finishing"}) /\ UNCHANGED storeVars

StoreTokens(l) ==
  /\ store' = l
  /\ latest' = IF order[l] > latest THEN order[l] ELSE latest

\* set_tokens stores them.
Handed(l) ==
  /\ Goes(l, {"handing"}, "handed")
  /\ StoreTokens(l)
  /\ UNCHANGED <<port, order, abandoned>>

Done(l) == Ends(l, {"handed"}) /\ UNCHANGED storeVars

\* The daemon refuses or is not reached, or its answer is lost. The command
\* stores the tokens where its own configuration says.
NotHanded(l) ==
  /\ Ends(l, {"handing", "handed"})
  /\ \/ UNCHANGED storeVars
     \/ l \in commands /\ StoreTokens(l) /\ UNCHANGED abandoned

\* The daemon handles what a login sent that has ended since.
HandedLate(l) ==
  /\ l \in abandoned /\ abandoned' = abandoned \ {l}
  /\ StoreTokens(l)
  /\ UNCHANGED <<appVars, dialogueVars, begun, commands, threadVars, order>>

-----------------------------------------------------------------------------
Steps(l) ==
  \/ Bind(l) \/ BindFails(l)
  \/ TakePasted(l) \/ Cancelled(l) \/ TimeOut(l)
  \/ Exchange(l) \/ Rejected(l)
  \/ Handed(l) \/ Done(l) \/ NotHanded(l)

LoginNext ==
  \/ StartLogin \/ Opened \/ PollLogin \/ Tick
  \/ OpenDialogue \/ CloseDialogue \/ Submit
  \/ Paste \/ Cancel \/ Quit
  \/ Command
  \/ \E l \in Logins : \/ PasteLine(l) \/ Interrupt(l) \/ HandedLate(l)
                       \/ Callback(l) \/ CallbackRefused(l) \/ Steps(l)

\* A login's thread runs, its five minutes pass, and who it asks answers or
\* breaks the connection; no redirect need come.
Fairness == \A l \in Logins : WF_loginVars(Steps(l))

LoginSpec == LoginInit /\ [][LoginNext]_loginVars /\ Fairness

-----------------------------------------------------------------------------
LoginTypeOK ==
  /\ mode \in {"list", "login", "entering", "confirm"}
  /\ selected \in Provider \cup {Nothing} /\ opened \in Provider \cup {Nothing}
  /\ {opening, login, redirect, port, store, unseen} \subseteq Logins \cup {Nothing}
  /\ begun \in 0..MaxLogins /\ commands \subseteq 1..begun /\ abandoned \subseteq Logins
  /\ stage \in [Logins -> {"unused", "starting", "waiting", "exchanging", "finishing",
                            "handing", "handed", "ended"}]
  /\ pasted \in [Logins -> {"nothing", "good", "bad"}]
  /\ order \in [Logins -> 0..MaxLogins] /\ latest \in 0..MaxLogins

\* The tokens of a login never replace those of one that began later, however
\* many were given up, pasted late or begun elsewhere meanwhile: each has the
\* callback port from before it is shown until the daemon has answered; unless
\* its process was ended while the daemon was asked (oauth/login.rs 26-34,
\* tui/mod.rs 218-239).
LaterLoginsStand ==
  [][\A l \in Logins :
       store # l /\ store' = l => order[l] >= latest \/ l \in abandoned]_loginVars

\* While a key is entered or a clearing confirmed, nothing but the user ends it
\* or changes whose credential it is about, whatever logins come to an end
\* (tui/mod.rs 174-180, 280-284), except one whose URL did not come in time.
DialoguesAreTheUsers ==
  mode \in {"entering", "confirm"} =>
    selected = opened /\ (login = Nothing \/ login = unseen)

\* A login lets go of the callback port in the end, whether anybody signs in,
\* pastes or cancels or not, so that another can begin (oauth/login.rs 82-86).
PortIsFreed == \A l \in Logins : port = l ~> port # l
=============================================================================
