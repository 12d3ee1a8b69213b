---------------------------- MODULE WorkerRequests ----------------------------
(***************************************************************************)
(* The requests that are under way at once in a worker. What they share is *)
(* the subject of the modules that extend this one: the configuration they *)
(* are served from, the pacing of the reminder and the override on their   *)
(* way to a provider, and the ssh that leads there.                        *)
(***************************************************************************)
CONSTANTS Request,
          None          \* nothing of what a request or the worker may have
=============================================================================
