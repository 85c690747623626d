--------------------------- MODULE ReactorProofs ---------------------------
(***************************************************************************)
(* What shutdown of the mainline-next reactor guarantees, for any number   *)
(* of threads that share it.                                               *)
(*                                                                         *)
(* The three properties need to know how a request to stop came about and  *)
(* what the worker has left behind by then.  WorkerInv ties the worker's   *)
(* state to the socket, its outcome and the handles; JoinInv ties the      *)
(* cached result and the answers to the outcome; RequestInv says who may   *)
(* have stored the flag.                                                   *)
(***************************************************************************)
EXTENDS Reactor, TLAPS

\* The worker: before bind there are no handles, the socket is its own, and it
\* leaves with an outcome, "ok" only on request.
WorkerInv ==
  /\ worker = "none" => (\A u \in Users : pc[u] \in {"none", "gone"}) /\ ~requested
  /\ worker \in {"none", "check", "poll"} => outcome = "none"
  /\ worker \in {"leave", "exited"} => outcome \in Results
  /\ worker \in {"check", "poll", "leave"} => bound
  /\ worker = "exited" => ~bound
  /\ outcome = "ok" => requested

\* JoinState caches the outcome of a thread that has exited, and every answer
\* is the cached one; who has not joined yet has no answer.
JoinInv ==
  /\ joined # "Unjoined" => worker = "exited" /\ joined = outcome
  /\ \A u \in Users : returned[u] # "none" => joined # "Unjoined" /\ returned[u] = joined
  /\ \A u \in Users : pc[u] \in {"none", "holding", "store", "wake", "lock", "join"}
                        => returned[u] = "none"

\* The flag was stored by a caller of shutdown, who is still under way or has
\* an answer, or by the drop of the last handle.
RequestInv ==
  /\ (\E u \in Users : pc[u] \in {"dropStore", "dropWake"}) => Holders = {}
  /\ requested => \/ \E u \in Users : returned[u] # "none" \/ pc[u] \in {"wake", "lock", "join"}
                  \/ Holders = {}

ReactorInv == TypeOK /\ WorkerInv /\ JoinInv /\ RequestInv

\* Nothing has been bound at the start.
LEMMA ReactorInit == Init => ReactorInv
  BY DEF Init, ReactorInv, TypeOK, WorkerInv, JoinInv, RequestInv, Holders, HandleSteps, Results

\* bind creates the worker and the first handle.
LEMMA BindKeeps ==
  ASSUME ReactorInv, NEW u \in Users, Bind(u) PROVE ReactorInv'
  BY ZenonT(60) DEF Bind, Goto, ReactorInv, TypeOK, WorkerInv, JoinInv, RequestInv, Holders, HandleSteps, Results

\* A clone needs a handle to be cloned from, so the last one is not gone.
LEMMA CloneKeeps ==
  ASSUME ReactorInv, NEW u \in Users, NEW v \in Users, CloneHandle(u, v) PROVE ReactorInv'
  BY DEF CloneHandle, Goto, ReactorInv, TypeOK, WorkerInv, JoinInv, RequestInv, Holders, HandleSteps, Results

\* A handle that is shut down or dropped is still one of the holders.
LEMMA CallKeeps ==
  ASSUME ReactorInv, NEW u \in Users, Shutdown(u) \/ DropHandle(u) PROVE ReactorInv'
  BY DEF Shutdown, DropHandle, Goto, ReactorInv, TypeOK, WorkerInv, JoinInv, RequestInv, Holders, HandleSteps, Results

\* Whoever stores the flag is in shutdown, or dropped the last handle.
LEMMA StoreKeeps ==
  ASSUME ReactorInv, NEW u \in Users, Store(u) PROVE ReactorInv'
  BY DEF Store, Goto, ReactorInv, TypeOK, WorkerInv, JoinInv, RequestInv, Holders, HandleSteps, Results

\* A wake concerns the worker only.
LEMMA WakeKeeps ==
  ASSUME ReactorInv, NEW u \in Users, Wake(u) PROVE ReactorInv'
  BY DEF Wake, Goto, ReactorInv, TypeOK, WorkerInv, JoinInv, RequestInv, Holders, HandleSteps, Results

\* Taking the lock of JoinState.
LEMMA LockKeeps ==
  ASSUME ReactorInv, NEW u \in Users, Lock(u) PROVE ReactorInv'
  BY DEF Lock, Goto, ReactorInv, TypeOK, WorkerInv, JoinInv, RequestInv, Holders, HandleSteps, Results

\* The first to join caches the outcome of a worker that has exited, the others
\* return what is cached.
LEMMA JoinKeeps ==
  ASSUME ReactorInv, NEW u \in Users, Join(u) PROVE ReactorInv'
  BY DEF Join, Goto, ReactorInv, TypeOK, WorkerInv, JoinInv, RequestInv, Holders, HandleSteps, Results

\* Only the last holder goes on to request a stop.
LEMMA ReleaseKeeps ==
  ASSUME ReactorInv, NEW u \in Users, Release(u) PROVE ReactorInv'
  BY DEF Release, Goto, ReactorInv, TypeOK, WorkerInv, JoinInv, RequestInv, Holders, HandleSteps, Results

\* No step of the worker touches a handle, and it exits once.
LEMMA WorkerKeeps ==
  ASSUME ReactorInv, WorkerStep PROVE ReactorInv'
  <1> USE DEF ReactorInv, TypeOK, WorkerInv, JoinInv, RequestInv, Holders, HandleSteps, Results
  <1>1. CASE Check
    BY <1>1 DEF Check
  <1>2. CASE PollEvent
    BY <1>2 DEF PollEvent
  <1>3. CASE PollTimeout
    BY <1>3 DEF PollTimeout
  <1>4. CASE WorkerFails
    BY <1>4 DEF WorkerFails
  <1>5. CASE Leave
    BY <1>5 DEF Leave
  <1>6. QED
    BY <1>1, <1>2, <1>3, <1>4, <1>5 DEF WorkerStep

\* Every step keeps the invariant.
LEMMA ReactorStep == ReactorInv /\ [Next]_vars => ReactorInv'
  <1> SUFFICES ASSUME ReactorInv, [Next]_vars PROVE ReactorInv'
    OBVIOUS
  <1>1. CASE WorkerStep
    BY <1>1, WorkerKeeps
  <1>2. ASSUME NEW u \in Users, User(u) PROVE ReactorInv'
    BY <1>2, BindKeeps, CloneKeeps, CallKeeps, StoreKeeps, WakeKeeps, LockKeeps, JoinKeeps,
       ReleaseKeeps DEF User
  <1>3. CASE UNCHANGED vars
    BY <1>3 DEF vars, ReactorInv, TypeOK, WorkerInv, JoinInv, RequestInv, Holders
  <1>4. QED
    BY <1>1, <1>2, <1>3 DEF Next

\* The reactor's state is well-formed whatever its threads do.
THEOREM ReactorCorrect == Spec => []ReactorInv
  <1>1. QED
    BY ReactorInit, ReactorStep, PTL DEF Spec

\* Everyone to whom shutdown returned got the worker's own result (JoinState::join).
THEOREM ShutdownSharesResult == Spec => []SameResult
  <1>1. ReactorInv => SameResult
    BY DEF ReactorInv, JoinInv, SameResult
  <1>2. QED
    BY <1>1, ReactorCorrect, PTL

\* When shutdown has returned, the worker is gone and the socket is free.
THEOREM ShutdownAwaitsWorker == Spec => []ShutdownWaits
  <1>1. ReactorInv => ShutdownWaits
    BY DEF ReactorInv, WorkerInv, JoinInv, ShutdownWaits
  <1>2. QED
    BY <1>1, ReactorCorrect, PTL

\* While a handle is held and nobody has called shutdown, the worker goes on
\* unless it fails.
THEOREM WorkerStopsOnlyOnRequest == Spec => []OnlyStopsOnRequest
  <1>1. ReactorInv => OnlyStopsOnRequest
    BY DEF ReactorInv, TypeOK, WorkerInv, RequestInv, OnlyStopsOnRequest, Holders, HandleSteps, Results
  <1>2. QED
    BY <1>1, ReactorCorrect, PTL

\* ShutdownContract, for any number of threads: what shutdown returns, when it
\* returns, and what else may end the worker.
THEOREM ShutdownContractKept == Spec => []ShutdownContract
  <1>1. SameResult /\ ShutdownWaits /\ OnlyStopsOnRequest => ShutdownContract
    BY DEF ShutdownContract
  <1>2. QED
    BY <1>1, ShutdownSharesResult, ShutdownAwaitsWorker, WorkerStopsOnlyOnRequest, PTL

-----------------------------------------------------------------------------
(* The reactor implements ReactorLifecycle: what the steps mean there.        *)

\* The initial state of the reactor is that of the lifecycle.
LEMMA LifecycleInit == Init => Lifecycle!Init
  BY DEF Init, Lifecycle!Init, Phase, Holders, HandleSteps

\* What the lifecycle sees: a step that leaves it alone is a stutter.
LEMMA LifecycleStutter ==
  ASSUME Phase' = Phase, Holders' = Holders, returned' = returned,
         (IF worker = "exited" THEN outcome ELSE "none")'
            = IF worker = "exited" THEN outcome ELSE "none"
  PROVE  UNCHANGED Lifecycle!lifecycle
  BY DEF Lifecycle!lifecycle

\* Store(u) is the request of the lifecycle, or one more of them.
LEMMA StoreRequests ==
  ASSUME ReactorInv, NEW u \in Users, Store(u)
  PROVE  [Lifecycle!Next]_(Lifecycle!lifecycle)
  <1>1. Holders' = Holders
    BY DEF Store, Goto, ReactorInv, TypeOK, Holders, HandleSteps
  <1>2. returned' = returned /\ worker' = worker /\ outcome' = outcome
    BY DEF Store
  <1>3. CASE requested \/ worker \in {"none", "exited"}
    <2>1. Phase' = Phase
      BY <1>3 DEF Store, Phase, ReactorInv, TypeOK
    <2>2. QED
      BY <1>1, <1>2, <2>1, LifecycleStutter
  <1>4. CASE ~requested /\ worker \notin {"none", "exited"}
    <2>1. Phase = "running" /\ Phase' = "stopping"
      BY <1>4 DEF Store, Phase, ReactorInv, TypeOK
    <2>2. Lifecycle!Request
      BY <1>1, <1>2, <2>1 DEF Lifecycle!Request
    <2>3. QED
      BY <2>2 DEF Lifecycle!Next
  <1>5. QED
    BY <1>3, <1>4

\* Bind(u) starts the lifecycle or leaves nothing behind.
LEMMA BindStarts ==
  ASSUME ReactorInv, NEW u \in Users, Bind(u)
  PROVE  [Lifecycle!Next]_(Lifecycle!lifecycle)
  <1>1. CASE worker' = "check"
    <2>1. Phase = "off" /\ Phase' = "running"
      BY <1>1 DEF Bind, Phase, ReactorInv, WorkerInv, TypeOK
    <2>2. Holders' = {u}
      BY <1>1 DEF Bind, Goto, Holders, HandleSteps, ReactorInv, WorkerInv, TypeOK
    <2>3. Lifecycle!Start(u)
      BY <1>1, <2>1, <2>2 DEF Lifecycle!Start, Bind
    <2>4. QED
      BY <2>3 DEF Lifecycle!Next
  <1>2. CASE worker' # "check"
    <2>1. Phase' = Phase /\ worker' = worker /\ outcome' = outcome /\ returned' = returned
      BY <1>2 DEF Bind, Phase
    <2>2. Holders' = Holders
      BY <1>2 DEF Bind, Goto, Holders, HandleSteps, ReactorInv, TypeOK
    <2>3. QED
      BY <2>1, <2>2, LifecycleStutter
  <1>3. QED
    BY <1>1, <1>2

\* A clone shares the reactor.
LEMMA CloneShares ==
  ASSUME ReactorInv, NEW u \in Users, NEW v \in Users, CloneHandle(u, v)
  PROVE  [Lifecycle!Next]_(Lifecycle!lifecycle)
  <1>1. u \in Holders /\ v \notin Holders /\ Holders' = Holders \cup {v}
    BY DEF CloneHandle, Goto, Holders, HandleSteps, ReactorInv, TypeOK
  <1>2. Phase' = Phase
    BY DEF CloneHandle, Phase
  <1>3. Lifecycle!Share(u, v)
    BY <1>1, <1>2 DEF Lifecycle!Share, CloneHandle
  <1>4. QED
    BY <1>3 DEF Lifecycle!Next

\* The steps of a call that only move its program counter, and the wake.
LEMMA MovesStutter ==
  ASSUME ReactorInv, NEW u \in Users, Shutdown(u) \/ DropHandle(u) \/ Wake(u) \/ Lock(u)
  PROVE  [Lifecycle!Next]_(Lifecycle!lifecycle)
  <1>1. Holders' = Holders
    BY DEF Shutdown, DropHandle, Wake, Lock, Goto, Holders, HandleSteps, ReactorInv, TypeOK
  <1>2. Phase' = Phase
    BY DEF Shutdown, DropHandle, Wake, Lock, Phase
  <1>3. worker' = worker /\ outcome' = outcome /\ returned' = returned
    BY DEF Shutdown, DropHandle, Wake, Lock
  <1>4. QED
    BY <1>1, <1>2, <1>3, LifecycleStutter

\* Join(u) is the answer of the lifecycle: after the worker stopped, with its
\* result, once.
LEMMA JoinAnswers ==
  ASSUME ReactorInv, NEW u \in Users, Join(u)
  PROVE  [Lifecycle!Next]_(Lifecycle!lifecycle)
  <1>1. worker = "exited" /\ returned' = [returned EXCEPT ![u] = outcome]
    BY DEF Join, ReactorInv, JoinInv
  <1>2. Phase = "stopped" /\ Phase' = "stopped"
    BY <1>1 DEF Join, Phase
  <1>3. u \in Holders /\ Holders' = Holders
    BY DEF Join, Goto, Holders, HandleSteps, ReactorInv, TypeOK
  <1>4. returned[u] = "none"
    BY DEF Join, ReactorInv, JoinInv
  <1>5. worker' = worker /\ outcome' = outcome
    BY DEF Join
  <1>6. Lifecycle!Answer(u)
    BY <1>1, <1>2, <1>3, <1>4, <1>5 DEF Lifecycle!Answer
  <1>7. QED
    BY <1>6 DEF Lifecycle!Next

\* Release(u) gives the handle back.
LEMMA ReleaseReleases ==
  ASSUME ReactorInv, NEW u \in Users, Release(u)
  PROVE  [Lifecycle!Next]_(Lifecycle!lifecycle)
  <1>1. u \in Holders /\ Holders' = Holders \ {u}
    BY DEF Release, Goto, Holders, HandleSteps, ReactorInv, TypeOK
  <1>2. Phase' = Phase
    BY DEF Release, Phase
  <1>3. Lifecycle!Release(u)
    BY <1>1, <1>2 DEF Lifecycle!Release, Release
  <1>4. QED
    BY <1>3 DEF Lifecycle!Next

\* The worker's last step is the stop or the failure of the lifecycle; the
\* steps before it are not seen there.
LEMMA WorkerStops ==
  ASSUME ReactorInv, WorkerStep
  PROVE  [Lifecycle!Next]_(Lifecycle!lifecycle)
  <1>1. Holders' = Holders /\ returned' = returned /\ requested' = requested
    BY DEF WorkerStep, Check, PollEvent, PollTimeout, WorkerFails, Leave, Holders
  <1>2. CASE Leave
    <2>1. outcome' = outcome /\ worker = "leave" /\ worker' = "exited" /\ outcome \in Results
      BY <1>2 DEF Leave, ReactorInv, WorkerInv
    <2>2. Phase' = "stopped"
      BY <2>1 DEF Phase
    <2>3. CASE requested
      <3>1. Phase = "stopping"
        BY <2>1, <2>3 DEF Phase
      <3>2. Lifecycle!Stop
        BY <1>1, <2>1, <2>2, <3>1 DEF Lifecycle!Stop, Results
      <3>3. QED
        BY <3>2 DEF Lifecycle!Next
    <2>4. CASE ~requested
      <3>1. Phase = "running"
        BY <2>1, <2>4 DEF Phase
      <3>2. outcome \in {"io", "panic"}
        BY <2>1, <2>4 DEF ReactorInv, WorkerInv, Results
      <3>3. Lifecycle!Fail
        BY <1>1, <2>1, <2>2, <3>1, <3>2 DEF Lifecycle!Fail
      <3>4. QED
        BY <3>3 DEF Lifecycle!Next
    <2>5. QED
      BY <2>3, <2>4
  <1>3. CASE ~Leave
    <2>1. worker \in {"check", "poll"} /\ worker' \in {"check", "poll", "leave"}
      BY <1>3 DEF WorkerStep, Check, PollEvent, PollTimeout, WorkerFails
    <2>2. Phase' = Phase
      BY <1>1, <2>1 DEF Phase
    <2>3. QED
      BY <1>1, <2>1, <2>2, LifecycleStutter
  <1>4. QED
    BY <1>2, <1>3

\* Every step of the reactor is a step of the lifecycle, or none.
LEMMA LifecycleStep ==
  ReactorInv /\ [Next]_vars => [Lifecycle!Next]_(Lifecycle!lifecycle)
  <1> SUFFICES ASSUME ReactorInv, [Next]_vars
               PROVE  [Lifecycle!Next]_(Lifecycle!lifecycle)
    OBVIOUS
  <1>1. CASE WorkerStep
    BY <1>1, WorkerStops
  <1>2. ASSUME NEW u \in Users, User(u) PROVE [Lifecycle!Next]_(Lifecycle!lifecycle)
    BY <1>2, BindStarts, CloneShares, MovesStutter, StoreRequests, JoinAnswers, ReleaseReleases
    DEF User
  <1>3. CASE UNCHANGED vars
    <2>1. Phase' = Phase /\ Holders' = Holders
      BY <1>3 DEF vars, Phase, Holders
    <2>2. worker' = worker /\ outcome' = outcome /\ returned' = returned
      BY <1>3 DEF vars
    <2>3. QED
      BY <2>1, <2>2, LifecycleStutter
  <1>4. QED
    BY <1>1, <1>2, <1>3 DEF Next

\* The safety part of ImplementsLifecycle: whatever the threads do, the reactor
\* starts, stops, answers and is released as its documentation says.
THEOREM ReactorRefinesLifecycle ==
  Spec => Lifecycle!Init /\ [][Lifecycle!Next]_(Lifecycle!lifecycle)
  <1>1. QED
    BY LifecycleInit, LifecycleStep, ReactorCorrect, PTL DEF Spec

=============================================================================
