----------------------------- MODULE UserConfigs -----------------------------
(***************************************************************************)
(* Which configuration governs a request: config_for in lib.rs, the cache  *)
(* of users' files in user_config.rs and the daemon's own configuration,   *)
(* which a reload replaces (start_worker_control in main.rs). Several      *)
(* requests look into the cache, read the file and fill the cache at once, *)
(* while its owner edits the file: only the two accesses to the cache are  *)
(* under its lock.                                                         *)
(*                                                                         *)
(* A file is what Config::load makes of it. An edit gives it any           *)
(* modification time: the clock may not have ticked since the last edit,   *)
(* and a file moved or linked into place brings its own.                   *)
(***************************************************************************)
EXTENDS WorkerRequests, Naturals, FiniteSets

CONSTANTS User,         \* callers with a uid and a home, served per user
          Nobody,       \* a caller without: no file is looked for
          Document,     \* configurations a file can hold
          Broken,       \* what cannot be read or parsed
          Absent,       \* no file
          MaxTime,      \* bound: modification times
          MaxReloads    \* bound: reloads, and workers that follow another

ASSUME CallerAssumption == Nobody \notin User
ASSUME ContentAssumption ==
  Broken \notin Document /\ Absent \notin Document /\ None \notin Document
ASSUME TimeAssumption == MaxTime \in Nat /\ None \notin 1..MaxTime
ASSUME ReloadAssumption == MaxReloads \in Nat

VARIABLES file,      \* [User -> [content, mtime]]: the users' files
          config,    \* the daemon's configuration
          fallback,  \* what users without a readable file are served from
          cache,     \* [User -> [config, mtime] or None]
          getting,   \* [Request -> ...]: where get is
          caller,    \* [Request -> ...]: whose request it is
          mtime,     \* [Request -> ...]: the time get read
          chosen,    \* [Request -> ...]: the configuration of the request
          during,    \* history: what the caller's file meant since get began
          past,      \* history: the times the file had in this worker's life
          returned,  \* history: users whose file had one of them again
          reloads    \* to bound them

lookupVars == <<getting, caller, mtime, chosen>>
historyVars == <<during, past, returned>>
configsVars == <<file, config, fallback, cache, lookupVars, historyVars, reloads>>

Time == 1..MaxTime
File == [content : Document \cup {Broken}, mtime : Time]
          \cup {[content |-> Absent, mtime |-> None]}
Entry == [config : Document, mtime : Time \cup {None}]

\* Config::load, and what get makes of its errors.
Loaded(content) == IF content \in Document THEN content ELSE fallback

Idle(requests) ==
  /\ getting' = [r \in Request |-> IF r \in requests THEN "idle" ELSE getting[r]]
  /\ caller' = [r \in Request |-> IF r \in requests THEN None ELSE caller[r]]
  /\ mtime' = [r \in Request |-> IF r \in requests THEN None ELSE mtime[r]]
  /\ chosen' = [r \in Request |-> IF r \in requests THEN None ELSE chosen[r]]
  /\ during' = [r \in Request |-> IF r \in requests THEN {} ELSE during[r]]

ConfigsInit ==
  /\ file \in [User -> File]
  /\ config \in Document /\ fallback = config
  /\ cache = [u \in User |-> None]
  /\ getting = [r \in Request |-> "idle"]
  /\ caller = [r \in Request |-> None]
  /\ mtime = [r \in Request |-> None]
  /\ chosen = [r \in Request |-> None]
  /\ during = [r \in Request |-> {}]
  /\ past = [u \in User |-> {file[u].mtime}]
  /\ returned = {}
  /\ reloads = 0

-----------------------------------------------------------------------------
(* config_for, and get step by step.                                       *)

\* No uid, or a daemon that does not serve users from their own files.
UseDaemons(r) ==
  /\ getting[r] = "idle"
  /\ getting' = [getting EXCEPT ![r] = "configured"]
  /\ caller' = [caller EXCEPT ![r] = Nobody]
  /\ chosen' = [chosen EXCEPT ![r] = config]
  /\ UNCHANGED <<file, config, fallback, cache, mtime, historyVars, reloads>>

\* A uid without a home.
UseFallback(r) ==
  /\ getting[r] = "idle"
  /\ getting' = [getting EXCEPT ![r] = "configured"]
  /\ caller' = [caller EXCEPT ![r] = Nobody]
  /\ chosen' = [chosen EXCEPT ![r] = fallback]
  /\ UNCHANGED <<file, config, fallback, cache, mtime, historyVars, reloads>>

\* The time is read before the lock is taken, and the file after it is left.
Stat(r, u) ==
  /\ getting[r] = "idle"
  /\ getting' = [getting EXCEPT ![r] = "looking"]
  /\ caller' = [caller EXCEPT ![r] = u]
  /\ mtime' = [mtime EXCEPT ![r] = file[u].mtime]
  /\ during' = [during EXCEPT ![r] = {Loaded(file[u].content)}]
  /\ UNCHANGED <<file, config, fallback, cache, chosen, past, returned, reloads>>

LookUp(r) ==
  LET entry == cache[caller[r]]
      hit == entry # None /\ entry.mtime = mtime[r]
  IN  /\ getting[r] = "looking"
      /\ getting' = [getting EXCEPT ![r] = IF hit THEN "configured" ELSE "loading"]
      /\ chosen' = [chosen EXCEPT ![r] = IF hit THEN entry.config ELSE @]
      /\ UNCHANGED <<file, config, fallback, cache, caller, mtime, historyVars, reloads>>

Load(r) ==
  /\ getting[r] = "loading"
  /\ getting' = [getting EXCEPT ![r] = "filling"]
  /\ chosen' = [chosen EXCEPT ![r] = Loaded(file[caller[r]].content)]
  /\ UNCHANGED <<file, config, fallback, cache, caller, mtime, historyVars, reloads>>

FillWithLatest(r) ==
  /\ getting[r] = "filling"
  /\ getting' = [getting EXCEPT ![r] = "configured"]
  /\ cache' = [cache EXCEPT ![caller[r]] =
                 [config |-> chosen[r], mtime |-> file[caller[r]].mtime]]
  /\ UNCHANGED <<file, config, fallback, caller, mtime, chosen, historyVars, reloads>>

\* The answer is cached under the time read before, whatever is cached by now.
Fill(r) ==
  /\ getting[r] = "filling"
  /\ getting' = [getting EXCEPT ![r] = "configured"]
  /\ cache' = [cache EXCEPT ![caller[r]] = [config |-> chosen[r], mtime |-> mtime[r]]]
  /\ UNCHANGED <<file, config, fallback, caller, mtime, chosen, historyVars, reloads>>

\* The request goes on, with the snapshot it has.
GoOn(r) ==
  /\ getting[r] = "configured"
  /\ Idle({r})
  /\ UNCHANGED <<file, config, fallback, cache, past, returned, reloads>>

-----------------------------------------------------------------------------
(* Edits, reloads and the workers that follow.                             *)

Edit(u) ==
  \E next \in File :
    /\ next # file[u]
    /\ file' = [file EXCEPT ![u] = next]
    /\ during' = [r \in Request |->
                    IF caller[r] = u /\ getting[r] # "configured"
                    THEN during[r] \cup {Loaded(next.content)} ELSE during[r]]
    /\ past' = [past EXCEPT ![u] = @ \cup {next.mtime}]
    /\ returned' = IF next.mtime \in past[u] THEN returned \cup {u} ELSE returned
    /\ UNCHANGED <<config, fallback, cache, lookupVars, reloads>>

Reload ==
  /\ reloads < MaxReloads /\ reloads' = reloads + 1
  /\ config' \in Document
  /\ UNCHANGED <<file, fallback, cache, lookupVars, historyVars>>

\* Another worker takes over, with the configuration the supervisor names; the
\* requests of this one end with it.
ReplaceWorker ==
  /\ reloads < MaxReloads /\ reloads' = reloads + 1
  /\ config' \in Document /\ fallback' = config'
  /\ cache' = [u \in User |-> None]
  /\ Idle(Request)
  /\ past' = [u \in User |-> {file[u].mtime}]
  /\ returned' = {}
  /\ UNCHANGED file

ConfigsNext ==
  \/ \E r \in Request :
       \/ UseDaemons(r) \/ UseFallback(r) \/ LookUp(r) \/ Load(r) \/ Fill(r) \/ GoOn(r)
       \/ \E u \in User : Stat(r, u)
  \/ \E u \in User : Edit(u)
  \/ Reload \/ ReplaceWorker

ConfigsSpec == ConfigsInit /\ [][ConfigsNext]_configsVars

-----------------------------------------------------------------------------
ConfigsTypeOK ==
  /\ file \in [User -> File]
  /\ config \in Document /\ fallback \in Document
  /\ cache \in [User -> Entry \cup {None}]
  /\ getting \in [Request -> {"idle", "looking", "loading", "filling", "configured"}]
  /\ caller \in [Request -> User \cup {Nobody, None}]
  /\ mtime \in [Request -> Time \cup {None}]
  /\ chosen \in [Request -> Document \cup {None}]
  /\ during \in [Request -> SUBSET Document]
  /\ past \in [User -> SUBSET (Time \cup {None})]
  /\ returned \subseteq User
  /\ reloads \in 0..MaxReloads

\* A request of a user is served from what the user's file held at some moment
\* while the configuration was looked for, although another request may have
\* cached it, and read the file later than its time: "caching it until the file
\* changes" (user_config.rs 7). Files whose modification time comes back are
\* left out, and so is one that was absent, and is again.
ServedFromTheFile ==
  \A r \in Request :
    getting[r] = "configured" /\ caller[r] \in User \ returned => chosen[r] \in during[r]
=============================================================================
