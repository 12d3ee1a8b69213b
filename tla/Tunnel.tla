------------------------------- MODULE Tunnel -------------------------------
(***************************************************************************)
(* The SSH tunnel of a provider (ssh_proxy.rs): requests that need it take *)
(* the lock of SshTunnel, reuse the running ssh or start another, and keep *)
(* a client for its port. The child, other processes that use ports and    *)
(* the worker itself come and go at any step.                              *)
(*                                                                         *)
(* A port is reserved by binding it and letting it go; ssh binds it again. *)
(* Other tunnels of the worker are other processes here. Errors of the     *)
(* system calls on a child (try_wait, the client's builder) are left out.  *)
(***************************************************************************)
EXTENDS WorkerRequests, Naturals, FiniteSets

CONSTANTS Port,        \* loopback ports
          Foreign,     \* any process that is not an ssh of this tunnel
          MaxStarts    \* bound: ssh processes started

Ssh == 1..MaxStarts
RunningTunnel == [child : Ssh, port : Port]

ASSUME StartAssumption ==
  MaxStarts \in Nat /\ None \notin 1..MaxStarts /\ Foreign \notin 1..MaxStarts
ASSUME AbsenceAssumption ==
  None \notin Port \cup Request \cup RunningTunnel /\ None # Foreign

VARIABLES lock,       \* SshTunnel.state is locked by this request
          running,    \* its value: None or a RunningTunnel
          pc,         \* [Request -> ...]: where client is
          port,       \* [Request -> ...]: the port start reserved
          client,     \* [Request -> ...]: the port of the client it was given
          alive,      \* ssh processes, by the order they were started in
          portOf,     \* [1..MaxStarts -> ...]: the port each is to listen on
          listener,   \* [Port -> ...]: who listens
          starts,     \* how many were started
          contested,  \* history: another process took the tunnel's port in between
          orphans     \* history: ssh processes of killed workers

requestVars == <<pc, port, client>>
processVars == <<alive, listener>>
tunnelVars == <<lock, running, requestVars, processVars, portOf, starts, contested, orphans>>

TunnelInit ==
  /\ lock = None /\ running = None
  /\ pc = [r \in Request |-> "idle"]
  /\ port = [r \in Request |-> None]
  /\ client = [r \in Request |-> None]
  /\ alive = {} /\ portOf = [c \in Ssh |-> None]
  /\ listener \in [Port -> {None, Foreign}]
  /\ starts = 0 /\ contested = FALSE /\ orphans = {}

-----------------------------------------------------------------------------
\* The processes are gone, and their listeners with them.
Ended(children) ==
  /\ alive' = alive \ children
  /\ listener' = [p \in Port |-> IF listener[p] \in children THEN None ELSE listener[p]]

Advance(r, from, to) == pc[r] = from /\ pc' = [pc EXCEPT ![r] = to]

\* The request has its client, or an error for one, and lets go of the lock.
Return(r, from, to, p) ==
  /\ Advance(r, from, to)
  /\ port' = [port EXCEPT ![r] = None]
  /\ client' = [client EXCEPT ![r] = p]
  /\ lock' = None

-----------------------------------------------------------------------------
(* client, up to the start of another ssh.                                 *)

Ask(r) ==
  /\ Advance(r, "idle", "waiting")
  /\ UNCHANGED <<lock, running, port, client, processVars, portOf, starts, contested, orphans>>

Lock(r) ==
  /\ lock = None /\ lock' = r
  /\ Advance(r, "waiting", IF running = None THEN "reserving" ELSE "checking")
  /\ UNCHANGED <<running, port, client, processVars, portOf, starts, contested, orphans>>

CheckNothing(r) ==
  /\ Advance(r, "checking", "probing")
  /\ UNCHANGED <<lock, running, port, client, processVars, portOf, starts, contested, orphans>>

\* try_wait: an ssh that exited is replaced.
Check(r) ==
  /\ Advance(r, "checking", IF running.child \in alive THEN "probing" ELSE "reserving")
  /\ running' = IF running.child \in alive THEN running ELSE None
  /\ UNCHANGED <<lock, port, client, processVars, portOf, starts, contested, orphans>>

\* reachable: somebody listens on its port.
Reuse(r) ==
  /\ Return(r, "probing", "using", running.port)
  /\ listener[running.port] # None
  /\ UNCHANGED <<running, processVars, portOf, starts, contested, orphans>>

ReplaceUnkilled(r) ==
  /\ Advance(r, "probing", "reserving")
  /\ running' = None
  /\ UNCHANGED <<lock, port, client, processVars, portOf, starts, contested, orphans>>

\* Nobody does, or not within 50 ms: ssh is killed, whoever uses it.
Replace(r) ==
  /\ Advance(r, "probing", "reserving")
  /\ Ended({running.child})
  /\ running' = None
  /\ UNCHANGED <<lock, port, client, portOf, starts, contested, orphans>>

-----------------------------------------------------------------------------
(* start.                                                                  *)

Reserve(r) ==
  \E p \in Port :
    /\ listener[p] = None
    /\ Advance(r, "reserving", "spawning")
    /\ port' = [port EXCEPT ![r] = p]
    /\ contested' = FALSE
    /\ UNCHANGED <<lock, running, client, processVars, portOf, starts, orphans>>

Spawn(r) ==
  /\ starts < MaxStarts /\ starts' = starts + 1
  /\ Advance(r, "spawning", "starting")
  /\ alive' = alive \cup {starts'}
  /\ portOf' = [portOf EXCEPT ![starts'] = port[r]]
  /\ UNCHANGED <<lock, running, port, client, listener, contested, orphans>>

\* Flags that are not allowed, no port, or no ssh to be run.
CannotStart(r) ==
  /\ \E from \in {"reserving", "spawning"} : Return(r, from, "idle", None)
  /\ UNCHANGED <<running, processVars, portOf, starts, contested, orphans>>

\* Somebody listens on the port.
Ready(r) ==
  /\ Return(r, "starting", "using", port[r])
  /\ listener[port[r]] # None
  /\ running' = [child |-> starts, port |-> port[r]]
  /\ UNCHANGED <<processVars, portOf, starts, contested, orphans>>

\* ssh exited after the last look at the port.
ExitedEarly(r) ==
  /\ Return(r, "starting", "idle", None)
  /\ starts \notin alive
  /\ UNCHANGED <<running, processVars, portOf, starts, contested, orphans>>

NoDeadline(r) == FALSE /\ UNCHANGED tunnelVars

\* Ten seconds have passed.
TimeOut(r) ==
  /\ Return(r, "starting", "idle", None)
  /\ Ended({starts})
  /\ UNCHANGED <<running, portOf, starts, contested, orphans>>

-----------------------------------------------------------------------------
(* The request's use of its client, the worker's end, other processes.     *)

EndUse(r) ==
  /\ Advance(r, "using", "idle")
  /\ client' = [client EXCEPT ![r] = None]
  /\ UNCHANGED <<lock, running, port, processVars, portOf, starts, contested, orphans>>

\* SshTunnel is dropped when the last request has ended; another worker starts.
Exit ==
  /\ \A r \in Request : pc[r] = "idle"
  /\ running # None /\ running' = None
  /\ Ended({running.child})
  /\ UNCHANGED <<lock, requestVars, portOf, starts, contested, orphans>>

\* The worker is killed, and not its ssh.
Killed ==
  /\ lock' = None /\ running' = None
  /\ pc' = [r \in Request |-> "idle"]
  /\ port' = [r \in Request |-> None]
  /\ client' = [r \in Request |-> None]
  /\ orphans' = orphans \cup alive
  /\ UNCHANGED <<processVars, portOf, starts, contested>>

\* The port somebody is about to look at.
Awaited(p) ==
  \/ lock # None /\ pc[lock] = "probing" /\ running.port = p
  \/ lock # None /\ port[lock] = p

\* ssh has connected and binds its port, or exits because it is taken.
Listen(c) ==
  /\ c \in alive /\ \A p \in Port : listener[p] # c
  /\ IF listener[portOf[c]] = None
     THEN listener' = [listener EXCEPT ![portOf[c]] = c] /\ UNCHANGED alive
     ELSE Ended({c})
  /\ contested' = (contested \/ (c \in orphans /\ Awaited(portOf[c])))
  /\ UNCHANGED <<lock, running, requestVars, portOf, starts, orphans>>

\* It cannot connect, loses its connection or is killed.
Die(c) ==
  /\ c \in alive
  /\ Ended({c})
  /\ UNCHANGED <<lock, running, requestVars, portOf, starts, contested, orphans>>

TakePort(p) ==
  /\ listener[p] = None
  /\ listener' = [listener EXCEPT ![p] = Foreign]
  /\ contested' = (contested \/ Awaited(p))
  /\ UNCHANGED <<lock, running, requestVars, alive, portOf, starts, orphans>>

LeavePort(p) ==
  /\ listener[p] = Foreign
  /\ listener' = [listener EXCEPT ![p] = None]
  /\ UNCHANGED <<lock, running, requestVars, alive, portOf, starts, contested, orphans>>

-----------------------------------------------------------------------------
Steps(r) ==
  \/ Check(r) \/ Reuse(r) \/ Replace(r)
  \/ Reserve(r) \/ Spawn(r) \/ CannotStart(r)
  \/ Ready(r) \/ ExitedEarly(r) \/ TimeOut(r)

TunnelNext ==
  \/ \E r \in Request : Ask(r) \/ Lock(r) \/ Steps(r) \/ EndUse(r)
  \/ Exit \/ Killed
  \/ \E c \in Ssh : Listen(c) \/ Die(c)
  \/ \E p \in Port : TakePort(p) \/ LeavePort(p)

\* The thread that holds the lock runs, and its ten seconds pass.
Fairness == \A r \in Request : WF_tunnelVars(Steps(r))

TunnelSpec == TunnelInit /\ [][TunnelNext]_tunnelVars /\ Fairness

-----------------------------------------------------------------------------
Locking(r) == pc[r] \in {"checking", "probing", "reserving", "spawning", "starting"}

\* Every variable keeps its type, and the lock is held by the one request that
\* looks at the tunnel or starts one.
TunnelTypeOK ==
  /\ lock \in Request \cup {None}
  /\ running \in RunningTunnel \cup {None}
  /\ pc \in [Request -> {"idle", "waiting", "checking", "probing", "reserving",
                         "spawning", "starting", "using"}]
  /\ \A r \in Request : Locking(r) <=> lock = r
  /\ port \in [Request -> Port \cup {None}]
  /\ client \in [Request -> Port \cup {None}]
  /\ alive \subseteq 1..starts
  /\ portOf \in [Ssh -> Port \cup {None}]
  /\ listener \in [Port -> alive \cup {None, Foreign}]
  /\ starts \in 0..MaxStarts
  /\ contested \in BOOLEAN /\ orphans \subseteq Ssh

\* Every ssh is the running tunnel's or being waited for, however it was found
\* to be useless; only those of a worker that was killed are left behind
\* (ssh_proxy.rs 65-67, 121-137, 144-153).
NoSshLeftBehind ==
  \A c \in alive \ orphans :
    \/ running # None /\ c = running.child
    \/ lock # None /\ pc[lock] = "starting" /\ c = starts

\* A client leads to the tunnel's own ssh when it is handed out, although its
\* port was another's before it or may be another's by now: unless another
\* process took the port just while it was looked at (ssh_proxy.rs 62, 79, 103).
ClientsLeadToTheirSsh ==
  [][\A r \in Request :
       pc[r] # "using" /\ pc'[r] = "using"
         => contested \/ listener[client'[r]] = running'.child]_tunnelVars

\* Whatever ssh does, or does not, nobody keeps the lock for ever, for which
\* all requests of the provider wait (ssh_proxy.rs 60, 101-134).
LockIsReleased == \A r \in Request : lock = r ~> lock # r
=============================================================================
