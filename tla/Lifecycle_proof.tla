--------------------------- MODULE Lifecycle_proof ---------------------------
(***************************************************************************)
(* Proofs about how worker processes begin and end: Handover, for every    *)
(* set of processes and of specs, and every number of responses and of     *)
(* crashes; and Requests, for every finite set of requests, every limit,   *)
(* timeout and resolution of time, and every choice of waiting tasks.      *)
(***************************************************************************)
EXTENDS Handover, Requests, FiniteSetTheorems, TLAPS

-----------------------------------------------------------------------------
(* Handover.                                                               *)
(* The inductive invariant, in four named parts besides the types.         *)

Activating == {"drain", "serve", "retire", "abort", "activate"}

\* Who is current, who is being activated and who drains never overlap.
RolesAreApart ==
  /\ pc \in Activating => successor \in Worker
  /\ successor # None => pc \in Activating \cup {"dead"}
  /\ worker # successor /\ worker \notin draining /\ successor \notin draining
  /\ \A v, w \in draining : v = w

\* What is asked for is known until it is done, and is a reload in place only
\* for the binary that runs.
RequestIsKept ==
  /\ pc \in {"reload", "spawn", "drain", "serve", "retire", "abort"} =>
       next \in WorkerSpec
  /\ pc = "reload" => next.target = spec.target

\* What a process may be doing, given its part in the supervisor's plan.
ProcessesFit ==
  \A w \in Worker :
    /\ Running(w) => w = worker \/ w = successor \/ w \in draining
    /\ proc[w] = "ready" =>
         w = successor /\ pc \in {"drain", "serve", "abort", "activate"}
    /\ proc[w] = "serving" => IF pc = "retire" THEN w = successor
                              ELSE w = worker /\ pc # "serve" /\ pc # "dead"
    /\ proc[w] \in {"ready", "exited", "reaped"} => load[w] = 0
    /\ proc[w] # "reaped" => args[w] \in WorkerSpec
    /\ w \in draining => proc[w] # "reaped"

\* Where a handover or a replacement is: who was waited for, and what the
\* successor was started with and is doing.
HandoverFits ==
  /\ pc \in {"serve", "retire"} => proc[worker] # "reaped"
  /\ pc \in {"respawn", "activate"} => proc[worker] = "reaped"
  /\ pc \in {"drain", "serve", "abort", "activate"} =>
       proc[successor] \in {"ready", "exited"}
  /\ pc \in {"drain", "serve", "retire"} =>
       args[successor] = next /\ live[successor] = next.config
  /\ pc = "activate" =>
       args[successor] = spec /\ live[successor] = spec.config

IInv ==
  /\ TypeOK /\ RolesAreApart /\ RequestIsKept /\ ProcessesFit /\ HandoverFits
  /\ SameBinary /\ ConfigIsLive

-----------------------------------------------------------------------------
LEMMA InitIInv == Init => IInv
<1> SUFFICES ASSUME Init PROVE IInv
  OBVIOUS
<1>1. TypeOK
  <2>1. /\ proc \in [Worker -> Alive \cup {"exited", "reaped"}]
        /\ args \in [Worker -> WorkerSpec \cup {None}]
        /\ live \in [Worker -> {s.config : s \in WorkerSpec} \cup {None}]
    BY DEF Init, Alive
  <2>2. load \in [Worker -> 0..MaxLoad] /\ crashes \in 0..MaxCrashes
    BY BoundsAssumption DEF Init
  <2>. QED BY <2>1, <2>2 DEF Init, TypeOK
<1>2. RolesAreApart /\ RequestIsKept /\ HandoverFits
  BY WorkerAssumption DEF Init, RolesAreApart, Activating, RequestIsKept, HandoverFits
<1>3. ProcessesFit
  BY DEF Init, ProcessesFit, Running, Alive
<1>4. SameBinary /\ ConfigIsLive
  BY DEF Init, SameBinary, ConfigIsLive
<1>. QED BY <1>1, <1>2, <1>3, <1>4 DEF IInv

\* Steps that leave the processes alone.
LEMMA ControlKeeps ==
  ASSUME IInv,
         \/ AcceptNone \/ Connect \/ ReadMalformed \/ ReloadFailed
         \/ SpawnFailed \/ RespawnFailed
         \/ \E s \in WorkerSpec : ReadRequest(s)
         \/ \E w \in Worker : DeadlinePasses(w)
  PROVE  IInv'
<1>1. CASE AcceptNone
  BY <1>1 DEF AcceptNone, workerVars, Running, IInv, TypeOK, Activating, RolesAreApart, RequestIsKept, ProcessesFit, HandoverFits, SameBinary, ConfigIsLive
<1>2. CASE Connect
  BY <1>2 DEF Connect, workerVars, Running, IInv, TypeOK, Activating, RolesAreApart, RequestIsKept, ProcessesFit, HandoverFits, SameBinary, ConfigIsLive
<1>3. CASE ReadMalformed
  BY <1>3 DEF ReadMalformed, Reply, workerVars, Running, IInv, TypeOK, Activating, RolesAreApart, RequestIsKept, ProcessesFit, HandoverFits, SameBinary, ConfigIsLive
<1>4. CASE ReloadFailed
  BY <1>4 DEF ReloadFailed, Reply, workerVars, Running, IInv, TypeOK, Activating, RolesAreApart, RequestIsKept, ProcessesFit, HandoverFits, SameBinary, ConfigIsLive
<1>5. CASE SpawnFailed
  BY <1>5 DEF SpawnFailed, Reply, workerVars, Running, IInv, TypeOK, Activating, RolesAreApart, RequestIsKept, ProcessesFit, HandoverFits, SameBinary, ConfigIsLive
<1>6. CASE RespawnFailed
  BY <1>6 DEF RespawnFailed, workerVars, Running, IInv, TypeOK, Activating, RolesAreApart, RequestIsKept, ProcessesFit, HandoverFits, SameBinary, ConfigIsLive
<1>7. ASSUME NEW s \in WorkerSpec, ReadRequest(s) PROVE IInv'
  BY <1>7 DEF ReadRequest, workerVars, Running, IInv, TypeOK, Activating, RolesAreApart, RequestIsKept, ProcessesFit, HandoverFits, SameBinary, ConfigIsLive
<1>8. ASSUME NEW w \in Worker, DeadlinePasses(w) PROVE IInv'
  BY <1>8 DEF DeadlinePasses, workerVars, Running, IInv, TypeOK, Activating, RolesAreApart, RequestIsKept, ProcessesFit, HandoverFits, SameBinary, ConfigIsLive
<1>. QED BY <1>1, <1>2, <1>3, <1>4, <1>5, <1>6, <1>7, <1>8

LEMMA ReloadedKeeps == ASSUME IInv, Reloaded PROVE IInv'
<1> USE DEF Reloaded, Reply, Running, IInv
<1>0. /\ next \in WorkerSpec /\ args[worker] \in WorkerSpec
      /\ worker \in Worker
  BY DEF TypeOK, RequestIsKept, ProcessesFit, Alive
<1>1. TypeOK'
  <2>1. live'[worker] \in {s.config : s \in WorkerSpec}
    BY <1>0 DEF TypeOK
  <2>2. live' \in [Worker -> {s.config : s \in WorkerSpec} \cup {None}]
    BY <2>1 DEF TypeOK
  <2>. QED BY <1>0, <2>2 DEF TypeOK
<1>2. RolesAreApart' /\ RequestIsKept' /\ ProcessesFit' /\ HandoverFits'
  BY DEF TypeOK, Activating, RolesAreApart, RequestIsKept, ProcessesFit, HandoverFits
<1>3. SameBinary' /\ ConfigIsLive'
  BY DEF TypeOK, RequestIsKept, Activating, SameBinary, ConfigIsLive
<1>. QED BY <1>1, <1>2, <1>3

LEMMA SendDrainKeeps == ASSUME IInv, SendDrain PROVE IInv'
BY WorkerAssumption DEF SendDrain, Told, Running, Alive, IInv, TypeOK, Activating, RolesAreApart, RequestIsKept, ProcessesFit, HandoverFits, SameBinary, ConfigIsLive

LEMMA SendServeKeeps == ASSUME IInv, SendServe PROVE IInv'
BY WorkerAssumption DEF SendServe, Told, Running, Alive, IInv, TypeOK, Activating, RolesAreApart, RequestIsKept, ProcessesFit, HandoverFits, SameBinary, ConfigIsLive

LEMMA RetireKeeps == ASSUME IInv, Retire PROVE IInv'
<1>1. /\ pc = "retire" /\ successor \in Worker /\ next \in WorkerSpec
      /\ worker \in Worker /\ worker # successor
      /\ worker \notin draining /\ successor \notin draining
  BY DEF Retire, IInv, TypeOK, RolesAreApart, RequestIsKept, Activating
<1>2. \A w \in Worker :
        /\ proc'[w] = IF w \in draining THEN "reaped" ELSE proc[w]
        /\ load'[w] = IF w \in draining THEN 0 ELSE load[w]
        /\ args'[w] = IF w \in draining THEN None ELSE args[w]
        /\ live'[w] = IF w \in draining THEN None ELSE live[w]
  BY DEF Retire, Stopped
<1>3. TypeOK'
  <2>1. /\ proc' \in [Worker -> Alive \cup {"exited", "reaped"}]
        /\ args' \in [Worker -> WorkerSpec \cup {None}]
        /\ live' \in [Worker -> {s.config : s \in WorkerSpec} \cup {None}]
        /\ load' \in [Worker -> 0..MaxLoad]
    BY BoundsAssumption DEF Retire, Stopped, IInv, TypeOK
  <2>. QED BY <1>1, <2>1 DEF Retire, Reply, IInv, TypeOK
<1>4. RolesAreApart' /\ RequestIsKept' /\ HandoverFits'
  BY <1>1, WorkerAssumption DEF Retire, Reply, RolesAreApart, RequestIsKept, HandoverFits, Activating
<1>5. ProcessesFit'
  BY <1>1, <1>2 DEF Retire, Reply, IInv, ProcessesFit, HandoverFits, Running, Alive
<1>6. SameBinary' /\ ConfigIsLive'
  BY <1>1, <1>2 DEF Retire, IInv, HandoverFits, SameBinary, ConfigIsLive
<1>. QED BY <1>3, <1>4, <1>5, <1>6 DEF IInv

LEMMA AbortKeeps == ASSUME IInv, Abort PROVE IInv'
BY WorkerAssumption DEF Abort, Reply, Stopped, Running, Alive, IInv, TypeOK, Activating, RolesAreApart, RequestIsKept, ProcessesFit, HandoverFits, SameBinary, ConfigIsLive

LEMMA PollKeeps == ASSUME IInv, Poll PROVE IInv'
BY WorkerAssumption DEF Poll, Stopped, Exited, Running, Alive, IInv, TypeOK, Activating, RolesAreApart, RequestIsKept, ProcessesFit, HandoverFits, SameBinary, ConfigIsLive

LEMMA ActivateKeeps == ASSUME IInv, Activate PROVE IInv'
BY WorkerAssumption DEF Activate, Told, Stopped, Running, Alive, IInv, TypeOK, Activating, RolesAreApart, RequestIsKept, ProcessesFit, HandoverFits, SameBinary, ConfigIsLive

LEMMA EnforceDeadlineKeeps == ASSUME IInv, EnforceDeadline PROVE IInv'
<1> DEFINE over == overdue \cup {w \in draining : Exited(w)}
<1>1. /\ over \subseteq draining /\ overdue \subseteq over
      /\ worker \notin over /\ successor \notin over
  BY DEF IInv, TypeOK, RolesAreApart
<1>2. \A w \in Worker :
        /\ proc'[w] = IF w \in over THEN "reaped" ELSE proc[w]
        /\ load'[w] = IF w \in overdue THEN 0 ELSE load[w]
        /\ args'[w] = IF w \in over THEN None ELSE args[w]
        /\ live'[w] = IF w \in over THEN None ELSE live[w]
  BY <1>1 DEF EnforceDeadline, Stopped
<1>3. draining' = draining \ over /\ overdue' = {}
  BY DEF EnforceDeadline
<1>4. TypeOK'
  BY <1>3, BoundsAssumption DEF EnforceDeadline, Stopped, IInv, TypeOK
<1>5. RolesAreApart' /\ RequestIsKept' /\ HandoverFits'
  BY <1>3 DEF EnforceDeadline, IInv, RolesAreApart, RequestIsKept, HandoverFits, Activating
<1>6. ProcessesFit'
  BY <1>1, <1>2, <1>3
  DEF EnforceDeadline, IInv, TypeOK, RolesAreApart, ProcessesFit, Running, Exited, Alive
<1>7. SameBinary' /\ ConfigIsLive'
  BY <1>1, <1>2 DEF EnforceDeadline, IInv, TypeOK, SameBinary, ConfigIsLive, Running
<1>. QED BY <1>4, <1>5, <1>6, <1>7 DEF IInv

LEMMA SupervisorDiesKeeps == ASSUME IInv, SupervisorDies PROVE IInv'
BY WorkerAssumption DEF SupervisorDies, Running, Alive, IInv, TypeOK, Activating, RolesAreApart, RequestIsKept, ProcessesFit, HandoverFits, SameBinary, ConfigIsLive

LEMMA SpawnKeeps == ASSUME IInv, NEW w \in Worker, Spawn(w) PROVE IInv'
BY WorkerAssumption, BoundsAssumption DEF Spawn, Spawned, Free, Running, Alive, IInv, TypeOK, Activating, RolesAreApart, RequestIsKept, ProcessesFit, HandoverFits, SameBinary, ConfigIsLive

LEMMA RespawnKeeps == ASSUME IInv, NEW w \in Worker, Respawn(w) PROVE IInv'
BY WorkerAssumption, BoundsAssumption DEF Respawn, Spawned, Free, Running, Alive, IInv, TypeOK, Activating, RolesAreApart, RequestIsKept, ProcessesFit, HandoverFits, SameBinary, ConfigIsLive

LEMMA BeginResponseKeeps == ASSUME IInv, NEW w \in Worker, BeginResponse(w) PROVE IInv'
BY WorkerAssumption, BoundsAssumption DEF BeginResponse, supervisorVars, Running, Alive, IInv, TypeOK, Activating, RolesAreApart, RequestIsKept, ProcessesFit, HandoverFits, SameBinary, ConfigIsLive

LEMMA EndResponseKeeps == ASSUME IInv, NEW w \in Worker, EndResponse(w) PROVE IInv'
BY WorkerAssumption, BoundsAssumption DEF EndResponse, supervisorVars, Running, Alive, IInv, TypeOK, Activating, RolesAreApart, RequestIsKept, ProcessesFit, HandoverFits, SameBinary, ConfigIsLive

LEMMA CloseAcceptLoopKeeps == ASSUME IInv, NEW w \in Worker, CloseAcceptLoop(w) PROVE IInv'
BY WorkerAssumption, BoundsAssumption DEF CloseAcceptLoop, supervisorVars, Running, Alive, IInv, TypeOK, Activating, RolesAreApart, RequestIsKept, ProcessesFit, HandoverFits, SameBinary, ConfigIsLive

LEMMA IdleShutdownKeeps == ASSUME IInv, NEW w \in Worker, IdleShutdown(w) PROVE IInv'
BY WorkerAssumption, BoundsAssumption DEF IdleShutdown, supervisorVars, Running, Alive, IInv, TypeOK, Activating, RolesAreApart, RequestIsKept, ProcessesFit, HandoverFits, SameBinary, ConfigIsLive

LEMMA ExitKeeps == ASSUME IInv, NEW w \in Worker, Exit(w) PROVE IInv'
BY WorkerAssumption, BoundsAssumption DEF Exit, supervisorVars, Running, Alive, IInv, TypeOK, Activating, RolesAreApart, RequestIsKept, ProcessesFit, HandoverFits, SameBinary, ConfigIsLive

LEMMA CrashKeeps == ASSUME IInv, NEW w \in Worker, Crash(w) PROVE IInv'
BY WorkerAssumption, BoundsAssumption DEF Crash, supervisorVars, Running, Alive, IInv, TypeOK, Activating, RolesAreApart, RequestIsKept, ProcessesFit, HandoverFits, SameBinary, ConfigIsLive

LEMMA NextIInv == IInv /\ [Next]_vars => IInv'
<1> SUFFICES ASSUME IInv, [Next]_vars PROVE IInv'
  OBVIOUS
<1>1. CASE Supervise
  BY <1>1, ControlKeeps, ReloadedKeeps, SendDrainKeeps, SendServeKeeps,
     RetireKeeps, AbortKeeps, PollKeeps, ActivateKeeps, EnforceDeadlineKeeps,
     SpawnKeeps, RespawnKeeps
  DEF Supervise
<1>2. CASE \/ Connect \/ ReadMalformed \/ SupervisorDies
           \/ \E s \in WorkerSpec : ReadRequest(s)
  BY <1>2, ControlKeeps, SupervisorDiesKeeps
<1>3. ASSUME NEW w \in Worker,
             \/ DeadlinePasses(w) \/ BeginResponse(w) \/ EndResponse(w)
             \/ CloseAcceptLoop(w) \/ IdleShutdown(w) \/ Exit(w) \/ Crash(w)
      PROVE  IInv'
  BY <1>3, ControlKeeps, BeginResponseKeeps, EndResponseKeeps,
     CloseAcceptLoopKeeps, IdleShutdownKeeps, ExitKeeps, CrashKeeps
<1>4. CASE UNCHANGED vars
  BY <1>4 DEF vars, supervisorVars, workerVars, Running, IInv, TypeOK,
     Activating, RolesAreApart, RequestIsKept, ProcessesFit, HandoverFits,
     SameBinary, ConfigIsLive
<1>. QED BY <1>1, <1>2, <1>3, <1>4 DEF Next

-----------------------------------------------------------------------------
(* The theorems about Handover.                                            *)

\* The inductive invariant holds however commands, failures, crashes and the
\* supervisor's death interleave.
THEOREM Invariance == Spec => []IInv
<1>. QED BY InitIInv, NextIInv, PTL DEF Spec

\* The variables keep their types; that overdue stays within draining says that
\* no deadline outlives the worker it was set for (main.rs 287-293).
THEOREM TypeCorrect == Spec => []TypeOK
<1>1. IInv => TypeOK
  BY DEF IInv
<1>. QED BY <1>1, Invariance, PTL

\* No two workers admit requests at once, across handovers, failed or not, and
\* replacements (main.rs 235-236, 270-276).
THEOREM OneServes == Spec => []OneWorkerServes
<1>1. IInv => OneWorkerServes
  BY DEF IInv, ProcessesFit, OneWorkerServes
<1>. QED BY <1>1, Invariance, PTL

\* Whatever runs is the current worker, the one being activated or the one that
\* drains (main.rs 197-293).
THEOREM NoneForgotten == Spec => []NoOrphans
<1>1. IInv => NoOrphans
  <2> SUFFICES ASSUME IInv PROVE NoOrphans
    OBVIOUS
  <2>1. draining = {} \/ \E d : draining = {d}
    BY DEF IInv, RolesAreApart
  <2>2. Cardinality(draining) = 0 \/ Cardinality(draining) = 1
    BY <2>1, FS_EmptySet, FS_Singleton, Zenon
  <2>3. Cardinality(draining) <= 1
    BY <2>2
  <2>. QED BY <2>3 DEF IInv, ProcessesFit, NoOrphans
<1>. QED BY <1>1, Invariance, PTL

\* The current worker runs the binary of the spec, and serves from the file of
\* the spec or, when that names none, from the one it was started with; the
\* supervisor and its worker differ in no other case (main.rs 217-223, 526-535).
THEOREM SpecDescribes == Spec => []SpecIsLive
<1>1. IInv => SpecIsLive
  BY DEF IInv, SpecIsLive
<1>. QED BY <1>1, Invariance, PTL

\* Only a worker that drains is killed with responses under way, and only when
\* its time is up or a second handover follows (main.rs 238, 288).
THEOREM NoneCut == Spec => ResponsesAreNotCut
<1>1. ASSUME IInv, Next, NEW w \in Worker, Running(w), load[w] > 0, ~Running(w)',
             crashes' = crashes
      PROVE  w \in draining /\ (w \in overdue \/ pc = "retire")
  <2>1. proc[w] # "ready" /\ (w = successor => pc # "abort" /\ pc # "activate")
    BY <1>1 DEF IInv, ProcessesFit, HandoverFits, Running, Alive
  <2>2. crashes \in Nat /\ load[w] \in Nat /\ w \in DOMAIN proc /\ proc \in [Worker -> Alive \cup {"exited", "reaped"}]
    BY <1>1, BoundsAssumption DEF IInv, TypeOK
  <2>3. CASE Supervise
    <3>1. CASE AcceptNone \/ Reloaded \/ ReloadFailed \/ SpawnFailed \/ RespawnFailed
      BY <1>1, <3>1 DEF AcceptNone, Reloaded, ReloadFailed, SpawnFailed,
         RespawnFailed, Running, workerVars
    <3>2. CASE SendDrain \/ SendServe
      BY <1>1, <2>2, <3>2 DEF SendDrain, SendServe, Told, Running, Alive
    <3>3. CASE Retire
      BY <1>1, <3>3 DEF Retire, Stopped, Running
    <3>4. CASE Abort \/ Poll
      BY <1>1, <2>1, <3>4 DEF Abort, Poll, Stopped, Exited, Running, Alive
    <3>5. CASE Activate
      BY <1>1, <2>1, <2>2, <3>5 DEF Activate, Told, Stopped, Running, Alive
    <3>6. CASE EnforceDeadline
      BY <1>1, <3>6 DEF EnforceDeadline, Stopped, Exited, Running, Alive, IInv, TypeOK
    <3>7. ASSUME NEW v \in Worker, Spawn(v) \/ Respawn(v)
          PROVE  FALSE
      BY <1>1, <2>2, <3>7 DEF Spawn, Respawn, Spawned, Running, Alive
    <3>. QED BY <2>3, <3>1, <3>2, <3>3, <3>4, <3>5, <3>6, <3>7 DEF Supervise
  <2>4. CASE \/ Connect \/ ReadMalformed \/ SupervisorDies
             \/ \E s \in WorkerSpec : ReadRequest(s)
    BY <1>1, <2>1, <2>4 DEF Connect, ReadMalformed, SupervisorDies, ReadRequest,
       Running, Alive, workerVars
  <2>5. ASSUME NEW v \in Worker,
               \/ DeadlinePasses(v) \/ BeginResponse(v) \/ EndResponse(v)
               \/ CloseAcceptLoop(v) \/ IdleShutdown(v) \/ Exit(v) \/ Crash(v)
        PROVE  FALSE
    BY <1>1, <2>2, <2>5 DEF DeadlinePasses, BeginResponse, EndResponse, CloseAcceptLoop,
       IdleShutdown, Exit, Crash, Running, Alive, workerVars
  <2>. QED BY <1>1, <2>3, <2>4, <2>5 DEF Next
<1>2. IInv /\ [Next]_vars =>
        [\A w \in Worker :
           Running(w) /\ load[w] > 0 /\ ~Running(w)' /\ crashes' = crashes
           => w \in draining /\ (w \in overdue \/ pc = "retire")]_vars
  BY <1>1
<1>. QED BY <1>2, Invariance, PTL DEF Spec, ResponsesAreNotCut

-----------------------------------------------------------------------------
(* Requests: when a worker has nothing left to do.                         *)
(* The inductive invariant.                                                *)

\* The count is that of the requests at work and of those abandoned there.
AtWork == Counted \cup {"cancelled"}
CountIsExact == inFlight = Cardinality(In(AtWork))

\* Requests whose future or body has not told the clock of its end.
Silent == {"running", "serving", "cancelled"}

\* With none of those, the clock is late by less than the fraction cut off.
ClockIsClose == In(Silent) = {} => age <= since + Frac - 1

\* Whatever enters between the two reads of the idle task sets the clock.
EntriesAreSeen == idle = "idle_for?" /\ In(Silent) # {} => age = fraction

TrackInv == IdleTypeOK /\ CountIsExact /\ PermitsAreExact /\ ClockIsClose /\ EntriesAreSeen

-----------------------------------------------------------------------------
LEMMA InFinite ==
  ASSUME NEW S
  PROVE  IsFiniteSet(In(S)) /\ Cardinality(In(S)) \in Nat
<1>1. In(S) \subseteq Request
  BY DEF In
<1>. QED BY <1>1, RequestAssumption, FS_Subset, FS_CardinalityType

\* A request that moves counts where it goes to, and no longer where it was.
LEMMA MoveCount ==
  ASSUME NEW CONSTANT S, NEW r \in Request, NEW to, stage \in [Request -> Stage],
         stage' = [stage EXCEPT ![r] = to]
  PROVE  /\ Cardinality(In(S)') =
              Cardinality(In(S)) + (IF to \in S THEN 1 ELSE 0)
                                 - (IF stage[r] \in S THEN 1 ELSE 0)
         /\ In(S)' = (In(S) \ {r}) \cup (IF to \in S THEN {r} ELSE {})
<1>1. IsFiniteSet(In(S)) /\ Cardinality(In(S)) \in Nat
  BY InFinite
<1>2. In(S)' = (In(S) \ {r}) \cup (IF to \in S THEN {r} ELSE {})
  BY DEF In
<1>3. r \in In(S) <=> stage[r] \in S
  BY DEF In
<1>4. CASE r \in In(S) /\ to \in S
  <2>1. In(S)' = In(S)
    BY <1>2, <1>4
  <2>2. Cardinality(In(S)') = Cardinality(In(S))
    BY <2>1, Zenon
  <2>. QED BY <1>1, <1>2, <1>3, <1>4, <2>2
<1>5. CASE r \in In(S) /\ to \notin S
  <2>1. In(S)' = In(S) \ {r}
    BY <1>2, <1>5
  <2>2. Cardinality(In(S) \ {r}) = Cardinality(In(S)) - 1
    BY <1>1, <1>5, FS_RemoveElement
  <2>. QED BY <1>1, <1>2, <1>3, <1>5, <2>1, <2>2
<1>6. CASE r \notin In(S) /\ to \in S
  <2>1. In(S)' = In(S) \cup {r}
    BY <1>2, <1>6
  <2>2. Cardinality(In(S) \cup {r}) = Cardinality(In(S)) + 1
    BY <1>1, <1>6, FS_AddElement
  <2>. QED BY <1>1, <1>2, <1>3, <1>6, <2>1, <2>2
<1>7. CASE r \notin In(S) /\ to \notin S
  <2>1. In(S)' = In(S)
    BY <1>2, <1>7
  <2>2. Cardinality(In(S)') = Cardinality(In(S))
    BY <2>1, Zenon
  <2>. QED BY <1>1, <1>2, <1>3, <1>7, <2>2
<1>. QED BY <1>4, <1>5, <1>6, <1>7

LEMMA OccupiedCount ==
  ASSUME NEW CONSTANT S, NEW r \in Request, stage[r] \in S
  PROVE  Cardinality(In(S)) >= 1 /\ In(S) # {}
<1>1. IsFiniteSet(In(S)) /\ Cardinality(In(S)) \in Nat /\ r \in In(S)
  BY InFinite DEF In
<1>2. Cardinality(In(S)) # 0
  BY <1>1, FS_EmptySet
<1>. QED BY <1>1, <1>2

\* The timeout is a whole number of seconds, and at least one.
LEMMA TimeoutIsLong ==
  /\ Timeout * Frac \in Nat
  /\ Frac \in Nat /\ Frac >= 1 /\ Timeout * Frac >= Frac
  /\ (Timeout - 1) * Frac = Timeout * Frac - Frac
<1>1. Timeout \in Nat /\ Timeout >= 1 /\ Frac \in Nat /\ Frac >= 1
  BY TimeAssumption
<1>2. (Timeout - 1) * Frac = Timeout * Frac - Frac /\ Timeout * Frac \in Nat
  BY <1>1
<1>3. (Timeout - 1) * Frac >= 0
  BY <1>1
<1>. QED BY <1>1, <1>2, <1>3

-----------------------------------------------------------------------------
LEMMA TrackInit == IdleInit => TrackInv
<1> SUFFICES ASSUME IdleInit PROVE TrackInv
  OBVIOUS
<1>1. IdleTypeOK
  BY TimeoutIsLong, RequestAssumption DEF IdleInit, IdleTypeOK, Stage, Waiter
<1>2. \A S \in {AtWork, Holding, Silent} : In(S) = {}
  BY DEF IdleInit, In, AtWork, Counted, Holding, Silent
<1>3. Cardinality(In(AtWork)) = 0 /\ Cardinality(In(Holding)) = 0
  BY <1>2, FS_EmptySet
<1>4. CountIsExact /\ PermitsAreExact
  BY <1>3, RequestAssumption DEF IdleInit, CountIsExact, PermitsAreExact
<1>5. ClockIsClose /\ EntriesAreSeen
  BY <1>2, TimeoutIsLong DEF IdleInit, ClockIsClose, EntriesAreSeen
<1>. QED BY <1>1, <1>4, <1>5 DEF TrackInv

\* Where the stages a request can be in belong.
LEMMA Stages ==
  /\ \A s \in {"new", "checked", "over", "refused"} :
       s \notin AtWork /\ s \notin Holding /\ s \notin Silent
  /\ \A s \in {"permitted", "notifying", "releasing"} :
       s \notin AtWork /\ s \in Holding /\ s \notin Silent
  /\ \A s \in {"running", "serving"} : s \in AtWork /\ s \in Holding /\ s \in Silent
  /\ "ending" \in AtWork /\ "ending" \in Holding /\ "ending" \notin Silent
  /\ "cancelled" \in AtWork /\ "cancelled" \notin Holding /\ "cancelled" \in Silent
BY DEF AtWork, Counted, Holding, Silent

\* What the step of one request to a stage may do: it moves the count and the
\* permits as it moves the request, and sets the clock where it must.
StepTo(r, to) ==
  /\ stage' = [stage EXCEPT ![r] = to]
  /\ inFlight' = inFlight + (IF to \in AtWork THEN 1 ELSE 0)
                         - (IF stage[r] \in AtWork THEN 1 ELSE 0)
  /\ permits' = permits + (IF stage[r] \in Holding THEN 1 ELSE 0)
                       - (IF to \in Holding THEN 1 ELSE 0)
  /\ permits' >= 0
  /\ (stage[r] \in Silent <=> to \in Silent) \/ age' = fraction
  /\ \/ age' = age /\ since' = since
     \/ age' = fraction /\ since' \in {since, 0}
  /\ since' = 0 \/ (stage[r] \in Silent => to \in Silent)
  /\ notified' \in [Waiter -> Nat]
  /\ UNCHANGED <<fraction, idle, drainVars, waitVars>>

LEMMA RequestStep ==
  ASSUME TrackInv, NEW r \in Request, NEW to \in Stage, StepTo(r, to)
  PROVE  TrackInv'
<1>1. /\ stage \in [Request -> Stage] /\ inFlight \in Nat /\ permits \in Nat
      /\ fraction \in 0..(Frac - 1) /\ age \in 0..(Timeout * Frac)
      /\ since \in 0..(Timeout * Frac)
  BY RequestAssumption DEF TrackInv, IdleTypeOK
<1>2. \A S \in {AtWork, Holding, Silent} :
        /\ Cardinality(In(S)) \in Nat
        /\ In(S)' = (In(S) \ {r}) \cup (IF to \in S THEN {r} ELSE {})
  BY <1>1, InFinite, MoveCount DEF StepTo
<1>3. CountIsExact'
  <2>1. Cardinality(In(AtWork)') = Cardinality(In(AtWork))
          + (IF to \in AtWork THEN 1 ELSE 0) - (IF stage[r] \in AtWork THEN 1 ELSE 0)
    BY <1>1, MoveCount DEF StepTo
  <2>2. Cardinality(In(AtWork)') = inFlight'
    BY <2>1 DEF TrackInv, CountIsExact, StepTo
  <2>. QED BY <2>2 DEF CountIsExact, AtWork, Counted, In
<1>4. PermitsAreExact'
  <2>1. Cardinality(In(Holding)') = Cardinality(In(Holding))
          + (IF to \in Holding THEN 1 ELSE 0) - (IF stage[r] \in Holding THEN 1 ELSE 0)
    BY <1>1, MoveCount DEF StepTo
  <2>2. permits' + Cardinality(In(Holding)') = Limit
    BY <1>1, <1>2, <2>1, RequestAssumption DEF TrackInv, PermitsAreExact, StepTo
  <2>. QED BY <2>2 DEF PermitsAreExact, Holding, In
<1>5. /\ stage' \in [Request -> Stage] /\ inFlight' \in Nat /\ permits' \in 0..Limit
  <2>1. Cardinality(In(AtWork)') \in Nat /\ Cardinality(In(Holding)') \in Nat
    BY <1>1, <1>2, InFinite, FS_Subset, FS_CardinalityType, RequestAssumption DEF In
  <2>2. inFlight' = Cardinality(In(AtWork)') /\ permits' + Cardinality(In(Holding)') = Limit
    BY <1>3, <1>4 DEF CountIsExact, PermitsAreExact, AtWork, Counted, Holding, In
  <2>3. permits' \in Int /\ permits' >= 0 /\ stage' \in [Request -> Stage]
    BY <1>1 DEF StepTo
  <2>. QED BY <1>1, <2>1, <2>2, <2>3, RequestAssumption
<1>6. IdleTypeOK'
  BY <1>1, <1>5, TimeoutIsLong DEF TrackInv, IdleTypeOK, StepTo, drainVars, waitVars
<1>7. ClockIsClose'
  <2>1. ASSUME In(Silent)' = {}, In(Silent) # {}
        PROVE  since' = 0 /\ age' = fraction
    <3>1. In(Silent)' = (In(Silent) \ {r}) \cup (IF to \in Silent THEN {r} ELSE {})
      BY <1>2
    <3>2. to \notin Silent /\ r \in In(Silent)
      BY <2>1, <3>1
    <3>3. stage[r] \in Silent
      BY <3>2 DEF In
    <3>. QED BY <3>2, <3>3 DEF StepTo
  <2>2. In(Silent) = {} => age <= since + Frac - 1
    BY DEF TrackInv, ClockIsClose
  <2>3. In(Silent)' = {} => age' <= since' + Frac - 1
    BY <1>1, <2>1, <2>2, TimeoutIsLong DEF StepTo
  <2>. QED BY <2>3 DEF ClockIsClose, Silent, In
<1>8. EntriesAreSeen'
  BY <1>2 DEF TrackInv, EntriesAreSeen, Silent, In, StepTo
<1>. QED BY <1>3, <1>4, <1>6, <1>7, <1>8 DEF TrackInv

-----------------------------------------------------------------------------
(* One lemma per group of actions.                                         *)

LEMMA ArrivalKeeps ==
  ASSUME TrackInv, NEW r \in Request, Arrival(r)
  PROVE  TrackInv'
<1>1. /\ stage \in [Request -> Stage] /\ inFlight \in Nat /\ permits \in Nat
      /\ notified \in [Waiter -> Nat]
  BY RequestAssumption DEF TrackInv, IdleTypeOK
<1>2. CASE CheckDrain(r)
  <2>1. PICK to \in {"checked", "refused"} : Move(r, "new", to)
    BY <1>2 DEF CheckDrain
  <2>2. \A s \in {"new", to} : s \notin AtWork /\ s \notin Holding /\ s \notin Silent
    BY <2>1, Stages
  <2>3. UNCHANGED <<permits, inFlight, drainVars, notified, waitVars, timeVars>>
    BY <1>2 DEF CheckDrain
  <2>4. StepTo(r, to)
    BY <1>1, <2>1, <2>2, <2>3 DEF StepTo, Move, drainVars, waitVars, timeVars
  <2>. QED BY <2>4, RequestStep DEF Stage
<1>3. CASE Respond(r)
  <2>1. StepTo(r, "serving")
    BY <1>1, <1>3, Stages DEF StepTo, Respond, Move, drainVars, waitVars, timeVars
  <2>. QED BY <2>1, RequestStep DEF Stage
<1>4. CASE Cancel(r)
  <2>1. StepTo(r, "cancelled")
    BY <1>1, <1>4, Stages DEF StepTo, Cancel, Move, drainVars, waitVars, timeVars
  <2>. QED BY <2>1, RequestStep DEF Stage
<1>5. CASE DropBody(r)
  <2>1. StepTo(r, "ending")
    BY <1>1, <1>5, Stages DEF StepTo, DropBody, Touch, Move, drainVars, waitVars
  <2>. QED BY <2>1, RequestStep DEF Stage
<1>. QED BY <1>2, <1>3, <1>4, <1>5 DEF Arrival

LEMMA ProgressKeeps ==
  ASSUME TrackInv, NEW r \in Request, Progress(r)
  PROVE  TrackInv'
<1>1. /\ stage \in [Request -> Stage] /\ inFlight \in Nat /\ permits \in Nat
      /\ notified \in [Waiter -> Nat]
  BY RequestAssumption DEF TrackInv, IdleTypeOK
<1>2. CASE Acquire(r)
  <2>1. CASE permits > 0 /\ Move(r, "checked", "permitted") /\ permits' = permits - 1
    <3>1. StepTo(r, "permitted")
      BY <1>1, <1>2, <2>1, Stages DEF StepTo, Acquire, Move, drainVars, waitVars, timeVars
    <3>. QED BY <3>1, RequestStep DEF Stage
  <2>2. CASE Move(r, "checked", "refused") /\ permits' = permits
    <3>1. StepTo(r, "refused")
      BY <1>1, <1>2, <2>2, Stages DEF StepTo, Acquire, Move, drainVars, waitVars, timeVars
    <3>. QED BY <3>1, RequestStep DEF Stage
  <2>. QED BY <1>2, <2>1, <2>2 DEF Acquire
<1>3. CASE Enter(r)
  <2>1. StepTo(r, "running")
    BY <1>1, <1>3, Stages DEF StepTo, Enter, Touch, Move, drainVars, waitVars
  <2>. QED BY <2>1, RequestStep DEF Stage
<1>4. CASE Decrement(r)
  <2>1. PICK to \in {"notifying", "releasing"} : Move(r, "ending", to)
    BY <1>4 DEF Decrement
  <2>2. to \notin AtWork /\ to \in Holding /\ to \notin Silent
    BY <2>1, Stages
  <2>3. /\ inFlight' = inFlight - 1
        /\ UNCHANGED <<permits, drainVars, notified, waitVars, timeVars>>
    BY <1>4 DEF Decrement
  <2>4. StepTo(r, to)
    BY <1>1, <2>1, <2>2, <2>3, Stages DEF StepTo, Move, drainVars, waitVars, timeVars
  <2>. QED BY <2>4, RequestStep DEF Stage
<1>5. CASE NotifyQuiet(r)
  <2>1. notified' \in [Waiter -> Nat]
    BY <1>1, <1>5 DEF NotifyQuiet, Waiter
  <2>2. StepTo(r, "releasing")
    BY <1>1, <1>5, <2>1, Stages DEF StepTo, NotifyQuiet, Move, drainVars, waitVars, timeVars
  <2>. QED BY <2>2, RequestStep DEF Stage
<1>6. CASE Release(r)
  <2>1. StepTo(r, "over")
    BY <1>1, <1>6, Stages DEF StepTo, Release, Move, drainVars, waitVars, timeVars
  <2>. QED BY <2>1, RequestStep DEF Stage
<1>. QED BY <1>2, <1>3, <1>4, <1>5, <1>6 DEF Progress

\* What leaves the requests, the counters and the clock alone keeps the
\* invariant if it keeps the types.
LEMMA QuietStep ==
  ASSUME TrackInv, UNCHANGED <<gateVars, fraction, age, since>>, IdleTypeOK',
         EntriesAreSeen'
  PROVE  TrackInv'
BY DEF TrackInv, CountIsExact, PermitsAreExact, ClockIsClose, In, gateVars

LEMMA WaitersKeep ==
  ASSUME TrackInv,
         \/ StopAccepting \/ NotifyDraining
         \/ \E w \in Waiter : Wait(w)
  PROVE  TrackInv'
<1>1. UNCHANGED <<gateVars, timeVars>>
  BY DEF StopAccepting, NotifyDraining, Wait, Look, MakeFuture, LookAgain, Wake
<1>2. EntriesAreSeen'
  BY <1>1 DEF TrackInv, EntriesAreSeen, In, gateVars, timeVars
<1>3. IdleTypeOK'
  <2>1. CASE StopAccepting
    BY <1>1, <2>1 DEF TrackInv, IdleTypeOK, StopAccepting, gateVars, waitVars, timeVars
  <2>2. CASE NotifyDraining
    BY <1>1, <2>2 DEF TrackInv, IdleTypeOK, NotifyDraining, gateVars, waitVars, timeVars, Waiter
  <2>3. ASSUME NEW w \in Waiter, Wait(w)
        PROVE  IdleTypeOK'
    BY <1>1, <2>3
    DEF TrackInv, IdleTypeOK, Wait, Look, MakeFuture, LookAgain, Wake, gateVars, drainVars, timeVars
  <2>. QED BY <2>1, <2>2, <2>3
<1>. QED BY <1>1, <1>2, <1>3, QuietStep DEF timeVars

LEMMA WatchIdleKeeps ==
  ASSUME TrackInv, WatchIdle
  PROVE  TrackInv'
<1>1. UNCHANGED <<gateVars, drainVars, notified, waitVars, fraction, age, since>>
  BY DEF WatchIdle, EndNap, LookBusy, LookIdle
<1>2. IdleTypeOK'
  BY <1>1
  DEF TrackInv, IdleTypeOK, WatchIdle, EndNap, LookBusy, LookIdle, gateVars, drainVars, waitVars
<1>3. ASSUME idle' = "idle_for?"
      PROVE  In(Silent) = {}
  <2>1. inFlight = 0
    BY <1>3 DEF TrackInv, IdleTypeOK, WatchIdle, EndNap, LookBusy, LookIdle
  <2>2. In(AtWork) = {}
    BY <2>1, InFinite, FS_EmptySet DEF TrackInv, CountIsExact
  <2>. QED BY <2>2 DEF In, AtWork, Counted, Silent
<1>4. EntriesAreSeen'
  BY <1>1, <1>3 DEF EntriesAreSeen, In, gateVars
<1>. QED BY <1>1, <1>2, <1>4, QuietStep

LEMMA ElapseKeeps ==
  ASSUME TrackInv, Elapse
  PROVE  TrackInv'
<1>1. /\ fraction \in 0..(Frac - 1) /\ age \in 0..(Timeout * Frac)
      /\ since \in 0..(Timeout * Frac)
  BY DEF TrackInv, IdleTypeOK
<1>2. /\ fraction' \in 0..(Frac - 1) /\ age' \in 0..(Timeout * Frac)
      /\ since' \in 0..(Timeout * Frac)
  BY <1>1, TimeoutIsLong DEF Elapse, Older
<1>3. IdleTypeOK'
  BY <1>2 DEF TrackInv, IdleTypeOK, Elapse, gateVars, drainVars, waitVars
<1>4. CountIsExact' /\ PermitsAreExact'
  BY DEF TrackInv, CountIsExact, PermitsAreExact, Elapse, In, gateVars
<1>5. ASSUME In(Silent) = {}
      PROVE  age' <= since' + Frac - 1
  <2>1. In(Served) = {}
    BY <1>5 DEF In, Served, Silent
  <2>2. age <= since + Frac - 1
    BY <1>5 DEF TrackInv, ClockIsClose
  <2>. QED BY <1>1, <2>1, <2>2, TimeoutIsLong DEF Elapse, Older
<1>6. ClockIsClose'
  BY <1>5 DEF ClockIsClose, Elapse, In, gateVars
<1>7. EntriesAreSeen'
  BY DEF EntriesAreSeen, Elapse
<1>. QED BY <1>3, <1>4, <1>6, <1>7 DEF TrackInv

LEMMA TrackNext == TrackInv /\ [IdleNext]_idleVars => TrackInv'
<1> SUFFICES ASSUME TrackInv, [IdleNext]_idleVars PROVE TrackInv'
  OBVIOUS
<1>1. ASSUME NEW r \in Request, Arrival(r) \/ Progress(r)
      PROVE  TrackInv'
  BY <1>1, ArrivalKeeps, ProgressKeeps
<1>2. CASE StopAccepting \/ NotifyDraining \/ \E w \in Waiter : Wait(w)
  BY <1>2, WaitersKeep
<1>3. CASE WatchIdle
  BY <1>3, WatchIdleKeeps
<1>4. CASE Elapse
  BY <1>4, ElapseKeeps
<1>5. CASE UNCHANGED idleVars
  <2>1. IdleTypeOK' /\ EntriesAreSeen'
    BY <1>5 DEF idleVars, TrackInv, IdleTypeOK, EntriesAreSeen, In
  <2>. QED BY <1>5, <2>1, QuietStep DEF idleVars, gateVars
<1>. QED BY <1>1, <1>2, <1>3, <1>4, <1>5 DEF IdleNext

-----------------------------------------------------------------------------
(* The theorems about Requests.                                            *)

\* The inductive invariant holds in every reachable state of idle.rs's worker.
THEOREM TrackInvariance == IdleSpec => []TrackInv
<1>. QED BY TrackInit, TrackNext, PTL DEF IdleSpec

\* The variables keep their types; that permits stays in 0..Limit says that
\* the semaphore is neither overdrawn nor overfilled (idle.rs 146).
THEOREM TrackTypes == IdleSpec => []IdleTypeOK
<1>1. TrackInv => IdleTypeOK
  BY DEF TrackInv
<1>. QED BY <1>1, TrackInvariance, PTL

\* Every permit is free or held by exactly one request, whichever way it
\* leaves track (idle.rs 146, 158).
THEOREM PermitsExact == IdleSpec => []PermitsAreExact
<1>1. TrackInv => PermitsAreExact
  BY DEF TrackInv
<1>. QED BY <1>1, TrackInvariance, PTL

\* The count that the drain and the idle task wait on never misses a request
\* at work, and exceeds them by the abandoned ones only (idle.rs 149, 164).
THEOREM CountBounded == IdleSpec => []CountIsBounded
<1>1. TrackInv => CountIsBounded
  <2> SUFFICES ASSUME TrackInv PROVE CountIsBounded
    OBVIOUS
  <2>1. In(AtWork) = In(Counted) \cup In({"cancelled"})
    BY DEF In, AtWork
  <2>2. In(Counted) \cap In({"cancelled"}) = {}
    BY DEF In, Counted
  <2>3. /\ IsFiniteSet(In(Counted)) /\ Cardinality(In(Counted)) \in Nat
        /\ IsFiniteSet(In({"cancelled"})) /\ Cardinality(In({"cancelled"})) \in Nat
    BY InFinite
  <2>4. Cardinality(In(AtWork)) =
          Cardinality(In(Counted)) + Cardinality(In({"cancelled"})) - Cardinality({})
    BY <2>1, <2>2, <2>3, FS_Union
  <2>5. Cardinality(In(AtWork)) =
          Cardinality(In(Counted)) + Cardinality(In({"cancelled"}))
    BY <2>3, <2>4, FS_EmptySet
  <2>. QED BY <2>3, <2>5 DEF TrackInv, CountIsExact, CountIsBounded
<1>. QED BY <1>1, TrackInvariance, PTL

\* The idle task gives the worker up only if nobody was served for more than
\* the timeout less the second that touch cuts off (idle.rs 114-125).
THEOREM NotEarly == IdleSpec => IdleIsNotEarly
<1>1. TrackInv /\ [IdleNext]_idleVars =>
        [idle # "over" /\ idle' = "over" => since > (Timeout - 1) * Frac]_idleVars
  <2> SUFFICES ASSUME TrackInv, IdleNext, idle # "over", idle' = "over"
               PROVE  since > (Timeout - 1) * Frac
    OBVIOUS
  <2>1. LookIdle /\ age >= Timeout * Frac
    BY DEF IdleNext, Arrival, Progress, CheckDrain, Acquire, Enter, Respond, Cancel,
           DropBody, Decrement, NotifyQuiet, Release, StopAccepting,
           NotifyDraining, Wait, Look, MakeFuture, LookAgain, Wake, WatchIdle,
           EndNap, LookBusy, LookIdle, Elapse, timeVars
  <2>2. /\ fraction \in 0..(Frac - 1) /\ age \in 0..(Timeout * Frac)
        /\ since \in 0..(Timeout * Frac)
    BY DEF TrackInv, IdleTypeOK
  <2>3. In(Silent) = {}
    BY <2>1, <2>2, TimeoutIsLong DEF TrackInv, EntriesAreSeen, LookIdle
  <2>4. age <= since + Frac - 1
    BY <2>3 DEF TrackInv, ClockIsClose
  <2>. QED BY <2>1, <2>2, <2>4, TimeoutIsLong
<1>. QED BY <1>1, TrackInvariance, PTL DEF IdleSpec, IdleIsNotEarly

=============================================================================
