------------------------------ MODULE Handover ------------------------------
(***************************************************************************)
(* The supervisor of main.rs and the worker processes it starts: the loop  *)
(* of supervise (control requests, replacement of a worker that exited,    *)
(* the deadline of draining workers), and what a worker does with the      *)
(* commands it is sent (start_worker_control) and with its listener        *)
(* (serve). The listener is one socket that every worker has a copy of.    *)
(*                                                                         *)
(* A command and its reply are one step, as send_worker waits for the      *)
(* reply. A child that does not become ready is no process here. An id of  *)
(* Worker stands for a process and is used again after it was waited for.  *)
(***************************************************************************)
EXTENDS Naturals, FiniteSets

CONSTANTS Worker,      \* ids of worker processes
          None,        \* no worker
          WorkerSpec,  \* the specs asked for: [target, config, idle]
          MaxLoad,     \* bound: responses under way in a worker
          MaxCrashes   \* bound: workers that crash

ASSUME WorkerAssumption == None \notin Worker
ASSUME BoundsAssumption == MaxLoad \in Nat /\ MaxCrashes \in Nat
ASSUME SpecAssumption == \A s \in WorkerSpec : s.idle \in BOOLEAN

VARIABLES
  pc,         \* where the supervisor is
  spec,       \* WorkerSpec of the next replacement
  worker,     \* the current worker
  draining,   \* draining_workers
  overdue,    \* those of them past DRAIN_TIMEOUT
  successor,  \* a worker being activated
  next,       \* the request being served
  asking,     \* whether its client waits for a reply
  proc,       \* [Worker -> ...]: the process
  args,       \* [Worker -> WorkerSpec]: its command line, until it is reaped
  live,       \* [Worker -> ...]: the config file its config was read from;
              \* "-" is the default one, as in a spec that names none
  load,       \* [Worker -> Nat]: responses under way
  crashes     \* to bound them

supervisorVars == <<pc, spec, worker, draining, overdue, successor, next, asking>>
workerVars == <<proc, args, live, load>>
vars == <<supervisorVars, workerVars, crashes>>

\* "ready" waits for serve; "gated" answers 503, its accept loop still open;
\* "closing" finishes what it has.
Alive == {"ready", "serving", "gated", "closing"}
Accepts(w) == proc[w] \in {"serving", "gated"}
Running(w) == proc[w] \in Alive
Exited(w) == proc[w] \in {"exited", "reaped"}
Free(w) == proc[w] = "reaped" /\ w # worker

Init ==
  /\ pc = "accept"
  /\ spec \in WorkerSpec
  /\ worker \in Worker
  /\ draining = {} /\ overdue = {}
  /\ successor = None /\ next = None /\ asking = FALSE
  /\ proc = [w \in Worker |-> IF w = worker THEN "serving" ELSE "reaped"]
  /\ args = [w \in Worker |-> IF w = worker THEN spec ELSE None]
  /\ live = [w \in Worker |-> IF w = worker THEN spec.config ELSE None]
  /\ load = [w \in Worker |-> 0]
  /\ crashes = 0

-----------------------------------------------------------------------------
(* spawn_worker and the end of a process.                                  *)

\* A child of s that said it is ready.
Spawned(w, s) ==
  /\ Free(w)
  /\ successor' = w
  /\ proc' = [proc EXCEPT ![w] = "ready"]
  /\ args' = [args EXCEPT ![w] = s]
  /\ live' = [live EXCEPT ![w] = s.config]
  /\ UNCHANGED load

\* Kill the processes in killed and wait for those in waited.
Stopped(killed, waited) ==
  /\ proc' = [w \in Worker |-> IF w \in waited THEN "reaped"
                               ELSE IF w \in killed THEN "exited"
                               ELSE proc[w]]
  /\ load' = [w \in Worker |-> IF w \in killed THEN 0 ELSE load[w]]
  /\ args' = [w \in Worker |-> IF w \in waited THEN None ELSE args[w]]
  /\ live' = [w \in Worker |-> IF w \in waited THEN None ELSE live[w]]

Told(w, state) ==
  /\ proc' = [proc EXCEPT ![w] = state]
  /\ UNCHANGED <<args, live, load>>

-----------------------------------------------------------------------------
(* The supervisor's loop: first the control socket.                        *)

AcceptNone ==
  /\ pc = "accept" /\ pc' = "poll"
  /\ UNCHANGED <<spec, worker, draining, overdue, successor, next, asking,
                 workerVars, crashes>>

\* The client of request_reload; the supervisor waits for its line.
Connect ==
  /\ pc = "accept" /\ pc' = "reading"
  /\ asking' = TRUE
  /\ UNCHANGED <<spec, worker, draining, overdue, successor, next, workerVars,
                 crashes>>

Reply == pc' = "poll" /\ asking' = FALSE /\ next' = None

ReadMalformed ==
  /\ pc = "reading"
  /\ Reply
  /\ UNCHANGED <<spec, worker, draining, overdue, successor, workerVars,
                 crashes>>

ReadRequest(s) ==
  /\ pc = "reading"
  /\ pc' = IF s.target = spec.target THEN "reload" ELSE "spawn"
  /\ next' = s
  /\ UNCHANGED <<spec, worker, draining, overdue, successor, asking,
                 workerVars, crashes>>

ReloadedFromDefault ==
  /\ pc = "reload" /\ Running(worker)
  /\ live' = [live EXCEPT ![worker] = next.config]
  /\ spec' = next
  /\ Reply
  /\ UNCHANGED <<worker, draining, overdue, successor, proc, args, load, crashes>>

\* Config::load succeeded in the worker. Only its config changes, and "-"
\* means the file it was started with.
Reloaded ==
  /\ pc = "reload" /\ Running(worker)
  /\ live' = [live EXCEPT ![worker] = IF next.config = "-"
                                      THEN args[worker].config ELSE next.config]
  /\ spec' = next
  /\ Reply
  /\ UNCHANGED <<worker, draining, overdue, successor, proc, args, load, crashes>>

\* It did not load, or the worker is gone.
ReloadFailed ==
  /\ pc = "reload"
  /\ Reply
  /\ UNCHANGED <<spec, worker, draining, overdue, successor, workerVars,
                 crashes>>

Spawn(w) ==
  /\ pc = "spawn" /\ pc' = "drain"
  /\ Spawned(w, next)
  /\ UNCHANGED <<spec, worker, draining, overdue, next, asking, crashes>>

SpawnFailedSilently ==
  /\ pc = "spawn" /\ pc' = "poll"
  /\ next' = None
  /\ UNCHANGED <<spec, worker, draining, overdue, successor, asking,
                 workerVars, crashes>>

SpawnFailed ==
  /\ pc = "spawn"
  /\ Reply
  /\ UNCHANGED <<spec, worker, draining, overdue, successor, workerVars,
                 crashes>>

SendDrainUnheeded ==
  /\ pc = "drain"
  /\ pc' = IF Running(worker) THEN "serve" ELSE "abort"
  /\ UNCHANGED <<spec, worker, draining, overdue, successor, next, asking,
                 workerVars, crashes>>

\* Drain::begin in the worker, and its reply before its accept loop closes.
SendDrain ==
  /\ pc = "drain"
  /\ pc' = IF Running(worker) THEN "serve" ELSE "abort"
  /\ Told(worker, IF proc[worker] = "serving" THEN "gated" ELSE proc[worker])
  /\ UNCHANGED <<spec, worker, draining, overdue, successor, next, asking,
                 crashes>>

SendServe ==
  /\ pc = "serve"
  /\ pc' = IF Running(successor) THEN "retire" ELSE "abort"
  /\ Told(successor, IF Running(successor) THEN "serving" ELSE proc[successor])
  /\ UNCHANGED <<spec, worker, draining, overdue, successor, next, asking,
                 crashes>>

\* A worker still draining from the handover before is killed.
Retire ==
  /\ pc = "retire"
  /\ Stopped(draining, draining)
  /\ draining' = {worker} /\ overdue' = {}
  /\ worker' = successor /\ successor' = None
  /\ spec' = next
  /\ Reply
  /\ UNCHANGED crashes

AbortUnkilled ==
  /\ pc = "abort"
  /\ successor' = None
  /\ Reply
  /\ UNCHANGED <<spec, worker, draining, overdue, workerVars, crashes>>

Abort ==
  /\ pc = "abort"
  /\ Stopped({successor}, {successor})
  /\ successor' = None
  /\ Reply
  /\ UNCHANGED <<spec, worker, draining, overdue, crashes>>

-----------------------------------------------------------------------------
(* Then the processes.                                                     *)

PollBlind ==
  /\ pc = "poll" /\ pc' = "deadline"
  /\ UNCHANGED <<spec, worker, draining, overdue, successor, next, asking,
                 workerVars, crashes>>

\* try_wait on the current worker.
Poll ==
  /\ pc = "poll"
  /\ pc' = IF Exited(worker) THEN "respawn" ELSE "deadline"
  /\ Stopped({}, {worker} \cap {w \in Worker : Exited(w)})
  /\ UNCHANGED <<spec, worker, draining, overdue, successor, next, asking,
                 crashes>>

Respawn(w) ==
  /\ pc = "respawn" /\ pc' = "activate"
  /\ Spawned(w, spec)
  /\ UNCHANGED <<spec, worker, draining, overdue, next, asking, crashes>>

RespawnFailed ==
  /\ pc = "respawn" /\ pc' = "deadline"
  /\ UNCHANGED <<spec, worker, draining, overdue, successor, next, asking,
                 workerVars, crashes>>

Activate ==
  /\ pc = "activate" /\ pc' = "deadline"
  /\ successor' = None
  /\ \/ /\ Running(successor)
        /\ Told(successor, "serving")
        /\ worker' = successor
     \/ /\ ~Running(successor)
        /\ Stopped({successor}, {successor})
        /\ UNCHANGED worker
  /\ UNCHANGED <<spec, draining, overdue, next, asking, crashes>>

EnforceDeadlineOnAll ==
  /\ pc = "deadline" /\ pc' = "accept"
  /\ Stopped(draining, draining)
  /\ draining' = {} /\ overdue' = {}
  /\ UNCHANGED <<spec, worker, successor, next, asking, crashes>>

RetainDraining ==
  /\ pc = "deadline" /\ pc' = "accept"
  /\ LET over == {w \in draining : Exited(w)}
     IN  /\ Stopped({}, over)
         /\ draining' = draining \ over
         /\ overdue' = overdue \ over
  /\ UNCHANGED <<spec, worker, successor, next, asking, crashes>>

\* A killed worker is found to have exited in the same round here.
EnforceDeadline ==
  /\ pc = "deadline" /\ pc' = "accept"
  /\ LET over == overdue \cup {w \in draining : Exited(w)}
     IN  /\ Stopped(overdue, over)
         /\ draining' = draining \ over
         /\ overdue' = {}
  /\ UNCHANGED <<spec, worker, successor, next, asking, crashes>>

Supervise ==
  \/ AcceptNone \/ Reloaded \/ ReloadFailed \/ SpawnFailed
  \/ SendDrain \/ SendServe \/ Retire \/ Abort
  \/ Poll \/ RespawnFailed \/ Activate \/ EnforceDeadline
  \/ \E w \in Worker : Spawn(w) \/ Respawn(w)

DeadlinePasses(w) ==
  /\ w \in draining
  /\ overdue' = overdue \cup {w}
  /\ UNCHANGED <<pc, spec, worker, draining, successor, next, asking,
                 workerVars, crashes>>

SupervisorDiesUnseen ==
  /\ pc # "dead" /\ pc' = "dead"
  /\ asking' = FALSE
  /\ proc' = [w \in Worker |-> IF proc[w] \in {"serving", "gated"}
                               THEN "closing" ELSE proc[w]]
  /\ UNCHANGED <<spec, worker, draining, overdue, successor, next, args, live,
                 load, crashes>>

\* Every control channel closes: a worker that waits for serve returns, the
\* others shut down gracefully.
SupervisorDies ==
  /\ pc # "dead" /\ pc' = "dead"
  /\ asking' = FALSE
  /\ proc' = [w \in Worker |-> IF proc[w] = "ready" THEN "exited"
                               ELSE IF Running(w) THEN "closing" ELSE proc[w]]
  /\ UNCHANGED <<spec, worker, draining, overdue, successor, next, args, live,
                 load, crashes>>

-----------------------------------------------------------------------------
(* The workers: only what the supervisor or a client can tell.             *)

BeginResponse(w) ==
  /\ proc[w] = "serving" /\ load[w] < MaxLoad
  /\ load' = [load EXCEPT ![w] = @ + 1]
  /\ UNCHANGED <<supervisorVars, proc, args, live, crashes>>

EndResponse(w) ==
  /\ Running(w) /\ load[w] > 0
  /\ load' = [load EXCEPT ![w] = @ - 1]
  /\ UNCHANGED <<supervisorVars, proc, args, live, crashes>>

CloseAcceptLoop(w) ==
  /\ proc[w] = "gated"
  /\ proc' = [proc EXCEPT ![w] = "closing"]
  /\ UNCHANGED <<supervisorVars, args, live, load, crashes>>

\* wait_until_idle returns; the timeout is the one the worker started with.
IdleShutdown(w) ==
  /\ proc[w] = "serving" /\ load[w] = 0 /\ args[w].idle
  /\ proc' = [proc EXCEPT ![w] = "closing"]
  /\ UNCHANGED <<supervisorVars, args, live, load, crashes>>

Exit(w) ==
  /\ proc[w] = "closing" /\ load[w] = 0
  /\ proc' = [proc EXCEPT ![w] = "exited"]
  /\ UNCHANGED <<supervisorVars, args, live, load, crashes>>

Crash(w) ==
  /\ Running(w) /\ crashes < MaxCrashes
  /\ crashes' = crashes + 1
  /\ proc' = [proc EXCEPT ![w] = "exited"]
  /\ load' = [load EXCEPT ![w] = 0]
  /\ UNCHANGED <<supervisorVars, args, live>>

Next ==
  \/ Supervise \/ Connect \/ ReadMalformed \/ SupervisorDies
  \/ \E s \in WorkerSpec : ReadRequest(s)
  \/ \E w \in Worker :
       \/ DeadlinePasses(w) \/ BeginResponse(w) \/ EndResponse(w)
       \/ CloseAcceptLoop(w) \/ IdleShutdown(w) \/ Exit(w) \/ Crash(w)

Spec == Init /\ [][Next]_vars

ReadLine == ReadMalformed \/ \E s \in WorkerSpec : ReadRequest(s)
Respawned == \E w \in Worker : Respawn(w)

\* The supervisor and the workers run, a client sends its line, time passes.
\* A response may take for ever.
FairSpec ==
  /\ Spec
  /\ WF_vars(Supervise) /\ WF_vars(ReadLine)
  /\ \A w \in Worker : /\ WF_vars(DeadlinePasses(w))
                       /\ WF_vars(CloseAcceptLoop(w)) /\ WF_vars(Exit(w))

\* A replacement that is tried again and again starts, and responses end.
Benign == SF_vars(Respawned) /\ \A w \in Worker : WF_vars(EndResponse(w))
-----------------------------------------------------------------------------
TypeOK ==
  /\ pc \in {"accept", "reading", "reload", "spawn", "drain", "serve",
             "retire", "abort", "poll", "respawn", "activate", "deadline",
             "dead"}
  /\ spec \in WorkerSpec /\ next \in WorkerSpec \cup {None}
  /\ worker \in Worker /\ successor \in Worker \cup {None}
  /\ draining \subseteq Worker /\ overdue \subseteq draining
  /\ asking \in BOOLEAN
  /\ proc \in [Worker -> Alive \cup {"exited", "reaped"}]
  /\ args \in [Worker -> WorkerSpec \cup {None}]
  /\ live \in [Worker -> {s.config : s \in WorkerSpec} \cup {None}]
  /\ load \in [Worker -> 0..MaxLoad]
  /\ crashes \in 0..MaxCrashes

\* Across handovers, failures and replacements, no two workers ever admit
\* requests at once: state kept in one worker's memory (the armed override,
\* the reminder tracker) is never split between two (main.rs 235-236, 270-276).
OneWorkerServes ==
  \A v, w \in Worker : proc[v] = "serving" /\ proc[w] = "serving" => v = w

\* No process is forgotten: whatever runs is the current worker, the one being
\* activated or the one draining, so there are never more than three.
NoOrphans ==
  /\ \A w \in Worker : Running(w) => w \in {worker, successor} \cup draining
  /\ Cardinality(draining) <= 1

\* The binary the supervisor compares a request with is the one the current
\* worker runs: reload in place never reaches another binary (main.rs 217).
SameBinary == Running(worker) => args[worker].target = spec.target

\* The current worker serves from the config file named last; a request that
\* named none has put it back to the file of its own command line, while its
\* replacement will start from the default one (main.rs 218-223, 272, 526-535).
ConfigIsLive ==
  Running(worker) =>
    live[worker] = IF spec.config = "-" THEN args[worker].config ELSE spec.config

\* Through reloads in place, handovers that succeed or fail and replacements, the
\* supervisor's spec and the current worker differ in the config file only if
\* the spec names none, and then the worker serves from the file it was started
\* with (main.rs 217-257). They do differ then: a worker started from a file and
\* reloaded without one is replaced by a worker that starts from the default.
SpecIsLive == SameBinary /\ ConfigIsLive

\* The supervisor cuts a response short only in a worker that was told to
\* drain, when its time is up or a second handover follows (main.rs 238, 288).
ResponsesAreNotCut ==
  [][\A w \in Worker :
       Running(w) /\ load[w] > 0 /\ ~Running(w)' /\ crashes' = crashes
       => w \in draining /\ (w \in overdue \/ pc = "retire")]_vars

\* A client of the control socket is answered, on every path, unless the
\* supervisor dies (main.rs 211-266).
RequestsAreAnswered == asking ~> ~asking

\* A worker that drains is gone in the end, even if its responses never are
\* (main.rs 287-293).
DrainingEnds == \A w \in Worker : w \in draining ~> w \notin draining \/ pc = "dead"

\* After any handover, failed half-way or not, and any exit or crash, some
\* worker serves again, if responses end and replacements start: a worker left
\* draining by a failed handover is replaced only once it is done (main.rs
\* 229-286).
ServiceReturns ==
  Benign => []<>(pc = "dead" \/ \E w \in Worker : proc[w] = "serving")

\* A supervisor that dies takes its workers with it once their responses have
\* ended, whatever it was doing (main.rs 470-478, 492).
WorkersFollow ==
  Benign => (pc = "dead" ~> (\A w \in Worker : ~Running(w)))
=============================================================================
