------------------------------ MODULE Requests ------------------------------
(***************************************************************************)
(* The life of a request in a worker, as idle.rs tracks it: the drain gate *)
(* and the admission limit it passes in track, the in-flight count, the    *)
(* Guard dropped with its response body, and the tasks that wait on them:  *)
(* wait_until_quiet, wait_until_draining and wait_until_idle.              *)
(*                                                                         *)
(* Every atomic access is a step of its own where another thread can tell  *)
(* the difference; the two adjacent ones of Enter cannot be told apart.    *)
(* Time passes in fractions of a second, because touch keeps whole seconds *)
(* only: age is idle_for, and is not counted beyond the timeout.           *)
(*                                                                         *)
(* The specification is IdleSpec, from IdleInit and IdleNext, so that what *)
(* is said of a worker's life can extend this module and Handover.         *)
(***************************************************************************)
EXTENDS Integers, FiniteSets

CONSTANTS Request,  \* requests that may arrive, each once
          Limit,    \* MAX_IN_FLIGHT_REQUESTS
          Timeout,  \* idle timeout, in seconds
          Frac,     \* bound: instants told apart in a second
          Tasks     \* the waiting tasks that run

ASSUME RequestAssumption == IsFiniteSet(Request) /\ Limit \in Nat
ASSUME TimeAssumption == Timeout \in Nat \ {0} /\ Frac \in Nat \ {0}

Waiter == {"quiet", "draining"}
ASSUME TasksAssumption == Tasks \subseteq Waiter \cup {"idle"}

VARIABLES stage,      \* where each request is
          permits,    \* Admission.permits
          inFlight,   \* Activity.in_flight
          accepting,  \* Drain.accepting
          begin,      \* where Drain::begin is
          notified,   \* [Waiter -> Nat]: notify_waiters calls so far
          task,         \* [Waiter -> ...]: where each waiting task is
          ticket,     \* [Waiter -> Nat]: notified when its future was made
          fraction,   \* of the current second
          age,        \* Activity::idle_for
          since,      \* history: time since a request was last served
          idle        \* where wait_until_idle is

gateVars == <<stage, permits, inFlight>>
drainVars == <<accepting, begin>>
waitVars == <<task, ticket>>
timeVars == <<fraction, age, since, idle>>
idleVars == <<stage, permits, inFlight, accepting, begin, notified, task, ticket,
              fraction, age, since, idle>>

Stage == {"new", "checked", "permitted", "running", "serving", "ending",
          "notifying", "releasing", "over", "refused", "cancelled"}

\* A request holds its permit until its Guard, or its future, is gone.
Holding == {"permitted", "running", "serving", "ending", "notifying",
            "releasing"}
\* It is in the count from Enter until its Guard's fetch_sub.
Counted == {"running", "serving", "ending"}

\* Somebody waits for it, or reads its response.
Served == {"running", "serving"}

In(stages) == {r \in Request : stage[r] \in stages}

Move(r, from, to) == stage[r] = from /\ stage' = [stage EXCEPT ![r] = to]

IdleInit ==
  /\ stage = [r \in Request |-> "new"]
  /\ permits = Limit
  /\ inFlight = 0
  /\ accepting = TRUE /\ begin = "unused"
  /\ notified = [w \in Waiter |-> 0]
  /\ task = [w \in Waiter |-> IF w \in Tasks THEN "first" ELSE "off"]
  /\ ticket = [w \in Waiter |-> 0]
  /\ fraction = 0 /\ age = 0 /\ since = 0
  /\ idle = (IF "idle" \in Tasks THEN "asleep" ELSE "off")

-----------------------------------------------------------------------------
(* track, and the Guard it leaves in the response body.                    *)

\* The clock's last is set to the current second.
Touch == age' = fraction

CheckDrain(r) ==
  /\ Move(r, "new", IF accepting THEN "checked" ELSE "refused")
  /\ UNCHANGED <<permits, inFlight, drainVars, notified, waitVars, timeVars>>

Acquire(r) ==
  /\ \/ /\ permits > 0
        /\ Move(r, "checked", "permitted")
        /\ permits' = permits - 1
     \/ /\ permits = 0
        /\ Move(r, "checked", "refused")
        /\ UNCHANGED permits
  /\ UNCHANGED <<inFlight, drainVars, notified, waitVars, timeVars>>

EnterUncounted(r) ==
  /\ Move(r, "permitted", "running")
  /\ Touch
  /\ UNCHANGED <<permits, inFlight, drainVars, notified, waitVars, fraction,
                 since, idle>>

Enter(r) ==
  /\ Move(r, "permitted", "running")
  /\ inFlight' = inFlight + 1
  /\ Touch
  /\ UNCHANGED <<permits, drainVars, notified, waitVars, fraction, since, idle>>

\* The handler returned: the Guard is made and moves into the body.
Respond(r) ==
  /\ Move(r, "running", "serving")
  /\ UNCHANGED <<permits, inFlight, drainVars, notified, waitVars, timeVars>>

\* The future of track is dropped while the handler runs: the client hung up,
\* or the handler panicked. Its permit goes with it, and there is no Guard.
Cancel(r) ==
  /\ Move(r, "running", "cancelled")
  /\ permits' = permits + 1
  /\ UNCHANGED <<inFlight, drainVars, notified, waitVars, timeVars>>

DropBodyUntouched(r) ==
  /\ Move(r, "serving", "ending")
  /\ since' = 0
  /\ UNCHANGED <<permits, inFlight, drainVars, notified, waitVars, fraction,
                 age, idle>>

\* The body was sent, or its client hung up: Guard::drop begins.
DropBody(r) ==
  /\ Move(r, "serving", "ending")
  /\ Touch
  /\ since' = 0
  /\ UNCHANGED <<permits, inFlight, drainVars, notified, waitVars, fraction, idle>>

DecrementSilently(r) ==
  /\ Move(r, "ending", "releasing")
  /\ inFlight' = inFlight - 1
  /\ UNCHANGED <<permits, drainVars, notified, waitVars, timeVars>>

Decrement(r) ==
  /\ Move(r, "ending", IF inFlight = 1 THEN "notifying" ELSE "releasing")
  /\ inFlight' = inFlight - 1
  /\ UNCHANGED <<permits, drainVars, notified, waitVars, timeVars>>

NotifyQuiet(r) ==
  /\ Move(r, "notifying", "releasing")
  /\ notified' = [notified EXCEPT !["quiet"] = @ + 1]
  /\ UNCHANGED <<permits, inFlight, drainVars, waitVars, timeVars>>

ReleaseForgotten(r) ==
  /\ Move(r, "releasing", "over")
  /\ UNCHANGED <<permits, inFlight, drainVars, notified, waitVars, timeVars>>

\* The Guard's fields are dropped after its drop ran.
Release(r) ==
  /\ Move(r, "releasing", "over")
  /\ permits' = permits + 1
  /\ UNCHANGED <<inFlight, drainVars, notified, waitVars, timeVars>>

-----------------------------------------------------------------------------
(* Drain::begin.                                                           *)

StopAccepting ==
  /\ begin = "unused"
  /\ begin' = "stored"
  /\ accepting' = FALSE
  /\ UNCHANGED <<gateVars, notified, waitVars, timeVars>>

NotifyDraining ==
  /\ begin = "stored"
  /\ begin' = "over"
  /\ notified' = [notified EXCEPT !["draining"] = @ + 1]
  /\ UNCHANGED <<gateVars, accepting, waitVars, timeVars>>

-----------------------------------------------------------------------------
(* wait_until_quiet and wait_until_draining: look, make the notified       *)
(* future, look again, await it. The future sees every notify_waiters      *)
(* after it was made.                                                      *)

Met(w) == IF w = "quiet" THEN inFlight = 0 ELSE ~accepting

Look(w) ==
  /\ task[w] = "first"
  /\ task' = [task EXCEPT ![w] = IF Met(w) THEN "over" ELSE "making"]
  /\ UNCHANGED <<gateVars, drainVars, notified, ticket, timeVars>>

MakeFuture(w) ==
  /\ task[w] = "making"
  /\ task' = [task EXCEPT ![w] = "second"]
  /\ ticket' = [ticket EXCEPT ![w] = notified[w]]
  /\ UNCHANGED <<gateVars, drainVars, notified, timeVars>>

LookAgain(w) ==
  /\ task[w] = "second"
  /\ task' = [task EXCEPT ![w] = IF Met(w) THEN "over" ELSE "awaiting"]
  /\ UNCHANGED <<gateVars, drainVars, notified, ticket, timeVars>>

Wake(w) ==
  /\ task[w] = "awaiting" /\ notified[w] # ticket[w]
  /\ task' = [task EXCEPT ![w] = "first"]
  /\ UNCHANGED <<gateVars, drainVars, notified, ticket, timeVars>>

-----------------------------------------------------------------------------
(* wait_until_idle, and time.                                              *)

\* The sleep between two looks; its length only delays the end.
EndNap ==
  /\ idle = "asleep"
  /\ idle' = "busy?"
  /\ UNCHANGED <<gateVars, drainVars, notified, waitVars, fraction, age,
                 since>>

LookBusyOnce ==
  /\ idle = "busy?"
  /\ idle' = IF inFlight > 0 THEN "off" ELSE "idle_for?"
  /\ UNCHANGED <<gateVars, drainVars, notified, waitVars, fraction, age,
                 since>>

LookBusy ==
  /\ idle = "busy?"
  /\ idle' = IF inFlight > 0 THEN "asleep" ELSE "idle_for?"
  /\ UNCHANGED <<gateVars, drainVars, notified, waitVars, fraction, age,
                 since>>

LookIdle ==
  /\ idle = "idle_for?"
  /\ idle' = IF age >= Timeout * Frac THEN "over" ELSE "asleep"
  /\ UNCHANGED <<gateVars, drainVars, notified, waitVars, fraction, age,
                 since>>

Older(n) == IF n < Timeout * Frac THEN n + 1 ELSE n

\* The two reads of one look at the worker are no measurable time apart.
Elapse ==
  /\ "idle" \in Tasks /\ idle # "idle_for?"
  /\ fraction' = (fraction + 1) % Frac
  /\ age' = Older(age)
  /\ since' = IF In(Served) = {} THEN Older(since) ELSE 0
  /\ UNCHANGED <<gateVars, drainVars, notified, waitVars, idle>>

-----------------------------------------------------------------------------
Arrival(r) == CheckDrain(r) \/ Respond(r) \/ Cancel(r) \/ DropBody(r)
Progress(r) ==
  Acquire(r) \/ Enter(r) \/ Decrement(r) \/ NotifyQuiet(r) \/ Release(r)
Wait(w) == Look(w) \/ MakeFuture(w) \/ LookAgain(w) \/ Wake(w)
WatchIdle == EndNap \/ LookBusy \/ LookIdle

IdleNext ==
  \/ \E r \in Request : Arrival(r) \/ Progress(r)
  \/ StopAccepting \/ NotifyDraining
  \/ \E w \in Waiter : Wait(w)
  \/ WatchIdle \/ Elapse

IdleSpec == IdleInit /\ [][IdleNext]_idleVars

\* The worker's threads run and its timer fires. Nothing makes a client send
\* a request, a handler answer, or a body come to its end.
FairIdleSpec ==
  /\ IdleSpec
  /\ \A r \in Request : WF_idleVars(Progress(r))
  /\ \A w \in Waiter : WF_idleVars(Wait(w))
  /\ WF_idleVars(NotifyDraining) /\ WF_idleVars(WatchIdle) /\ SF_idleVars(Elapse)
-----------------------------------------------------------------------------
IdleTypeOK ==
  /\ stage \in [Request -> Stage]
  /\ permits \in 0..Limit
  /\ inFlight \in Nat
  /\ accepting \in BOOLEAN
  /\ begin \in {"unused", "stored", "over"}
  /\ notified \in [Waiter -> Nat]
  /\ task \in [Waiter -> {"off", "first", "making", "second", "awaiting", "over"}]
  /\ ticket \in [Waiter -> Nat]
  /\ fraction \in 0..(Frac - 1)
  /\ age \in 0..(Timeout * Frac)
  /\ since \in 0..(Timeout * Frac)
  /\ idle \in {"off", "asleep", "busy?", "idle_for?", "over"}

\* However requests arrive, are refused, answered, abandoned or dropped, a
\* request at work is counted, and nothing is counted but those and the ones
\* abandoned while their handler ran (idle.rs 149, 164).
CountIsBounded ==
  /\ Cardinality(In(Counted)) <= inFlight
  /\ inFlight <= Cardinality(In(Counted)) + Cardinality(In({"cancelled"}))

\* Permits are neither lost nor made up, on any path out of track, so at most
\* Limit requests are ever at work at once (idle.rs 146, 158).
PermitsAreExact == permits + Cardinality(In(Holding)) = Limit

\* wait_until_idle never gives up on a worker that serves somebody, or did so
\* within the timeout up to the second that touch cuts off (idle.rs 114-125):
\* the end of a response is recorded before the count says nobody is served.
IdleIsNotEarly ==
  [][idle # "over" /\ idle' = "over" => since > (Timeout - 1) * Frac]_idleVars

\* No wake-up is lost, whenever it comes: whoever waits for the worker to be
\* quiet is told if it is for good, and whoever waits for the drain to begin is
\* told of that (idle.rs 37-45, 101-112).
NoWakeUpIsLost ==
  /\ <>[](inFlight = 0) => <>(task["quiet"] = "over")
  /\ (begin # "unused") ~> (task["draining"] = "over")

\* A worker nobody uses any more is given up, however often it was busy when
\* the task looked (idle.rs 116-124).
IdleIsNoticed == <>[](inFlight = 0) => <>(idle = "over")
=============================================================================
