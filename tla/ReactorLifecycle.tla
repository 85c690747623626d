-------------------------- MODULE ReactorLifecycle --------------------------
(***************************************************************************)
(* What the reactor of mainline-next promises, as the documentation of     *)
(* src/mainline-next/src/reactor/mod.rs states it: "A reactor starts fully *)
(* initialized or returns an I/O error.  Explicit shutdown affects every   *)
(* handle and waits for the worker.  Dropping the final handle requests    *)
(* shutdown without blocking the dropping thread."                         *)
(***************************************************************************)
CONSTANT Users

VARIABLES
  phase,    \* "off", "running", "stopping" (stop requested), "stopped"
  holders,  \* who has a handle
  result,   \* what the worker ended with, or "none"
  answers   \* user -> what shutdown returned, or "none"

lifecycle == <<phase, holders, result, answers>>

Init ==
  /\ phase = "off" /\ holders = {} /\ result = "none"
  /\ answers = [u \in Users |-> "none"]

\* The socket is bound when there is a handle.
Start(u) ==
  /\ phase = "off" /\ phase' = "running" /\ holders' = {u}
  /\ UNCHANGED <<result, answers>>

Share(u, v) ==
  /\ u \in holders /\ v \notin holders
  /\ holders' = holders \cup {v}
  /\ UNCHANGED <<phase, result, answers>>

\* A request to stop, of a holder that calls shutdown or when nobody holds a
\* handle any more.
Request ==
  /\ phase = "running" /\ phase' = "stopping"
  /\ UNCHANGED <<holders, result, answers>>

\* The worker stops as requested, or fails by itself.
Stop ==
  /\ phase = "stopping" /\ phase' = "stopped" /\ result' \in {"ok", "io", "panic"}
  /\ UNCHANGED <<holders, answers>>

Fail ==
  /\ phase = "running" /\ phase' = "stopped" /\ result' \in {"io", "panic"}
  /\ UNCHANGED <<holders, answers>>

\* shutdown returns once the worker has stopped, with the worker's result.
Answer(u) ==
  /\ phase = "stopped" /\ u \in holders /\ answers[u] = "none"
  /\ answers' = [answers EXCEPT ![u] = result]
  /\ UNCHANGED <<phase, holders, result>>

\* A handle goes away at once, whatever the worker does.
Release(u) ==
  /\ u \in holders /\ holders' = holders \ {u}
  /\ UNCHANGED <<phase, result, answers>>

Next ==
  \/ Request \/ Stop \/ Fail
  \/ \E u \in Users :
       Start(u) \/ Answer(u) \/ Release(u) \/ \E v \in Users : Share(u, v)

\* A stop that was requested happens, and so does the one that is due when
\* the last handle is gone.
Spec ==
  /\ Init /\ [][Next]_lifecycle
  /\ WF_lifecycle(Stop) /\ WF_lifecycle(holders = {} /\ Request)

=============================================================================
