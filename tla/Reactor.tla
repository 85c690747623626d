------------------------------ MODULE Reactor ------------------------------
(***************************************************************************)
(* The reactor of mainline-next: a worker thread that owns the UDP socket  *)
(* (src/mainline-next/src/reactor/worker.rs), and the handles by which     *)
(* other threads share it and stop it (handle.rs).                         *)
(*                                                                         *)
(* Each user is a thread that holds at most one handle.  pc[u] is where    *)
(* the user is: "none" and "gone" before and after it holds one,           *)
(* "holding", and the steps of shutdown and of dropping the handle.        *)
(***************************************************************************)
EXTENDS Naturals, FiniteSets

CONSTANT Users

VARIABLES
  pc,         \* user -> where it is
  worker,     \* "none", "check", "poll", "leave", "exited"
  outcome,    \* what Worker::run returned: "none", "ok", "io", "panic"
  requested,  \* shutdown_requested
  woken,      \* a wake event that poll has not reported yet
  bound,      \* the socket is bound
  mutex,      \* the users in the critical section of ReactorControl.join
  joined,     \* JoinState: "Unjoined" or the result it caches
  returned    \* user -> what shutdown returned to it, or "none"

vars == <<pc, worker, outcome, requested, woken, bound, mutex, joined, returned>>

Results == {"ok", "io", "panic"}

\* The users whose handle counts as a reference to ReactorControl.
HandleSteps == {"holding", "store", "wake", "lock", "join", "release"}
Holders == {u \in Users : pc[u] \in HandleSteps}

Init ==
  /\ pc = [u \in Users |-> "none"]
  /\ worker = "none" /\ outcome = "none"
  /\ requested = FALSE /\ woken = FALSE /\ bound = FALSE
  /\ mutex = {} /\ joined = "Unjoined"
  /\ returned = [u \in Users |-> "none"]

Goto(u, step) == pc' = [pc EXCEPT ![u] = step]

-----------------------------------------------------------------------------
(* ReactorHandle.                                                            *)

\* bind: the socket, the poll and waker, and the thread, or an error that
\* leaves nothing behind.
Bind(u) ==
  /\ worker = "none" /\ pc[u] = "none"
  /\ \/ /\ Goto(u, "holding") /\ worker' = "check" /\ bound' = TRUE
     \/ /\ Goto(u, "gone") /\ UNCHANGED <<worker, bound>>
  /\ UNCHANGED <<outcome, requested, woken, mutex, joined, returned>>

CloneHandle(u, v) ==
  /\ pc[u] = "holding" /\ pc[v] = "none"
  /\ Goto(v, "holding")
  /\ UNCHANGED <<worker, outcome, requested, woken, bound, mutex, joined, returned>>

\* shutdown and drop of a handle.
Shutdown(u) ==
  /\ pc[u] = "holding" /\ Goto(u, "store")
  /\ UNCHANGED <<worker, outcome, requested, woken, bound, mutex, joined, returned>>

DropHandle(u) ==
  /\ pc[u] = "holding" /\ Goto(u, "release")
  /\ UNCHANGED <<worker, outcome, requested, woken, bound, mutex, joined, returned>>

-----------------------------------------------------------------------------
(* WorkerControl::request_shutdown: the flag first, then the wake.           *)

Store(u) ==
  /\ pc[u] \in {"store", "dropStore"}
  /\ requested' = TRUE
  /\ Goto(u, IF pc[u] = "store" THEN "wake" ELSE "dropWake")
  /\ UNCHANGED <<worker, outcome, woken, bound, mutex, joined, returned>>

\* Nothing to wake when the worker has dropped its waker; wake may fail.
Wake(u) ==
  /\ pc[u] \in {"wake", "dropWake"}
  /\ woken' \in {woken, worker # "exited"}
  /\ Goto(u, IF pc[u] = "wake" THEN "lock" ELSE "gone")
  /\ UNCHANGED <<worker, outcome, requested, bound, mutex, joined, returned>>

-----------------------------------------------------------------------------
(* ReactorControl::shutdown and JoinState::join.                             *)

Lock(u) ==
  /\ pc[u] = "lock" /\ mutex = {}
  /\ mutex' = mutex \cup {u} /\ Goto(u, "join")
  /\ UNCHANGED <<worker, outcome, requested, woken, bound, joined, returned>>

\* Mutant: the result stays in place of the thread, as the Ok(()) that
\* mem::replace puts there.
JoinWithoutCaching(u) ==
  /\ pc[u] = "join"
  /\ \/ /\ joined = "Unjoined" /\ worker = "exited"
        /\ returned' = [returned EXCEPT ![u] = outcome] /\ joined' = "ok"
     \/ /\ joined # "Unjoined"
        /\ returned' = [returned EXCEPT ![u] = joined] /\ UNCHANGED joined
  /\ mutex' = mutex \ {u} /\ Goto(u, "release")
  /\ UNCHANGED <<worker, outcome, requested, woken, bound>>

\* Mutant: the first caller does not wait for the thread.
JoinWithoutWaiting(u) ==
  /\ pc[u] = "join"
  /\ \/ /\ joined = "Unjoined"
        /\ returned' = [returned EXCEPT ![u] = "ok"] /\ joined' = "ok"
     \/ /\ joined # "Unjoined"
        /\ returned' = [returned EXCEPT ![u] = joined] /\ UNCHANGED joined
  /\ mutex' = mutex \ {u} /\ Goto(u, "release")
  /\ UNCHANGED <<worker, outcome, requested, woken, bound>>

\* Whoever has the lock waits for the thread, or takes the result of the one
\* who did.
Join(u) ==
  /\ pc[u] = "join"
  /\ \/ /\ joined = "Unjoined" /\ worker = "exited"
        /\ returned' = [returned EXCEPT ![u] = outcome] /\ joined' = outcome
     \/ /\ joined # "Unjoined"
        /\ returned' = [returned EXCEPT ![u] = joined] /\ UNCHANGED joined
  /\ mutex' = mutex \ {u} /\ Goto(u, "release")
  /\ UNCHANGED <<worker, outcome, requested, woken, bound>>

\* Mutant: every drop of a handle asks the worker to stop.
ReleaseAlwaysStops(u) ==
  /\ pc[u] = "release" /\ Goto(u, "dropStore")
  /\ UNCHANGED <<worker, outcome, requested, woken, bound, mutex, joined, returned>>

\* Mutant: ReactorControl has no Drop.
ReleaseNeverStops(u) ==
  /\ pc[u] = "release" /\ Goto(u, "gone")
  /\ UNCHANGED <<worker, outcome, requested, woken, bound, mutex, joined, returned>>

\* The handle is dropped, by shutdown(self) too; with the last one goes
\* ReactorControl, whose Drop requests a shutdown.
Release(u) ==
  /\ pc[u] = "release"
  /\ Goto(u, IF Holders = {u} THEN "dropStore" ELSE "gone")
  /\ UNCHANGED <<worker, outcome, requested, woken, bound, mutex, joined, returned>>

-----------------------------------------------------------------------------
(* Worker::run.                                                              *)

\* Mutant: the loop ends after the first event, too.
CheckOnce ==
  /\ worker = "check"
  /\ \/ worker' = "leave" /\ outcome' = "ok"
     \/ ~requested /\ worker' = "poll" /\ UNCHANGED outcome
  /\ UNCHANGED <<pc, requested, woken, bound, mutex, joined, returned>>

Check ==
  /\ worker = "check"
  /\ \/ requested /\ worker' = "leave" /\ outcome' = "ok"
     \/ ~requested /\ worker' = "poll" /\ UNCHANGED outcome
  /\ UNCHANGED <<pc, requested, woken, bound, mutex, joined, returned>>

\* A wake event, a datagram or a signal ends the poll.
PollEvent ==
  /\ worker = "poll" /\ worker' = "check"
  /\ woken' \in {woken, FALSE}
  /\ UNCHANGED <<pc, outcome, requested, bound, mutex, joined, returned>>

\* Mutant: poll without a timeout returns for events only.
PollUntilWoken ==
  /\ worker = "poll" /\ woken /\ worker' = "check" /\ woken' = FALSE
  /\ UNCHANGED <<pc, outcome, requested, bound, mutex, joined, returned>>

\* SHUTDOWN_FALLBACK: the poll ends by itself.
PollTimeout ==
  /\ worker = "poll" /\ worker' = "check"
  /\ UNCHANGED <<pc, outcome, requested, woken, bound, mutex, joined, returned>>

\* The poll fails, or something panics.
WorkerFails ==
  /\ worker \in {"check", "poll"} /\ worker' = "leave"
  /\ \/ worker = "poll" /\ outcome' = "io"
     \/ outcome' = "panic"
  /\ UNCHANGED <<pc, requested, woken, bound, mutex, joined, returned>>

\* run owns the worker: the socket, the poll and the waker go with it.
Leave ==
  /\ worker = "leave" /\ worker' = "exited" /\ bound' = FALSE /\ woken' = FALSE
  /\ UNCHANGED <<pc, outcome, requested, mutex, joined, returned>>

-----------------------------------------------------------------------------
User(u) ==
  \/ Bind(u) \/ Shutdown(u) \/ DropHandle(u)
  \/ \E v \in Users : CloneHandle(u, v)
  \/ Store(u) \/ Wake(u) \/ Lock(u) \/ Join(u) \/ Release(u)

WorkerStep == Check \/ PollEvent \/ PollTimeout \/ WorkerFails \/ Leave

Next == WorkerStep \/ \E u \in Users : User(u)

Spec == Init /\ [][Next]_vars

\* Threads are scheduled: a user that is in a call goes on, and so does the
\* worker; its poll ends at the latest with the timeout.  That something goes
\* wrong, that an event comes, or that a user calls is never required.
FairSpec ==
  /\ Spec
  /\ \A u \in Users : WF_vars(Store(u)) /\ WF_vars(Wake(u)) /\ WF_vars(Lock(u))
                      /\ WF_vars(Join(u)) /\ WF_vars(Release(u))
  /\ WF_vars(Check) /\ WF_vars(PollTimeout) /\ WF_vars(Leave)

-----------------------------------------------------------------------------
\* The program counters, the worker and the cached result have their types.
TypeOK ==
  /\ pc \in [Users -> HandleSteps \cup {"none", "gone", "dropStore", "dropWake"}]
  /\ worker \in {"none", "check", "poll", "leave", "exited"}
  /\ outcome \in Results \cup {"none"}
  /\ requested \in BOOLEAN /\ woken \in BOOLEAN /\ bound \in BOOLEAN
  /\ mutex \subseteq Users
  /\ joined \in Results \cup {"Unjoined"}
  /\ returned \in [Users -> Results \cup {"none"}]

\* "Hold the lock through joining so concurrent callers share the cached
\* result": everyone to whom shutdown has returned got what the worker ended
\* with, whoever joined the thread.
SameResult == \A u \in Users : returned[u] # "none" => returned[u] = outcome

\* "wait for its worker to exit": when shutdown has returned to someone the
\* worker is gone, and the address can be bound again.
ShutdownWaits ==
  (\E u \in Users : returned[u] # "none") => worker = "exited" /\ ~bound

\* "Explicit shutdown affects every handle ... Dropping the final handle
\* requests shutdown": nothing else does.  While somebody holds a handle and
\* nobody has called shutdown, the worker only stops when it fails, and the
\* socket stays bound.
OnlyStopsOnRequest ==
  /\ \E u \in Users : pc[u] = "holding"
  /\ \A u \in Users : pc[u] \in {"none", "holding", "release", "gone"} /\ returned[u] = "none"
  => ~requested /\ outcome # "ok" /\ (bound \/ outcome # "none")

\* What mod.rs says of shutdown: it waits for the worker, gives every caller the
\* worker's result, and nothing but shutdown and the final drop stops it.
ShutdownContract == SameResult /\ ShutdownWaits /\ OnlyStopsOnRequest

\* A caller of shutdown gets an answer, whatever the other users do, even when
\* the wake is lost or the worker is already gone.
ShutdownReturns == \A u \in Users : (pc[u] = "store") ~> (returned[u] # "none")

\* The last handle that goes frees the socket, though nobody waits for it.
FinalDropFreesSocket == (worker # "none" /\ Holders = {}) ~> ~bound

-----------------------------------------------------------------------------
(* The lifecycle that the documentation promises.  The stop is requested     *)
(* when the flag is stored.                                                  *)

Phase ==
  IF worker = "none" THEN "off"
  ELSE IF worker = "exited" THEN "stopped"
  ELSE IF requested THEN "stopping" ELSE "running"

Lifecycle == INSTANCE ReactorLifecycle WITH
  phase <- Phase,
  holders <- Holders,
  result <- IF worker = "exited" THEN outcome ELSE "none",
  answers <- returned

\* Every behaviour of the reactor is one that the documentation describes: it
\* stops when asked and not before, and every caller is answered after that.
ImplementsLifecycle == Lifecycle!Spec

=============================================================================
