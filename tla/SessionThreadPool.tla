------------------------- MODULE SessionThreadPool -------------------------
(***************************************************************************)
(* The session thread pool of switch_core_session.c: callers queue a       *)
(* thread's work on session_manager.thread_queue and check_queue() starts  *)
(* a worker when more work is outstanding (busy) than workers exist        *)
(* (running).  Both counters are read and written under                    *)
(* session_manager.mutex, so every such critical section is one action.    *)
(*                                                                         *)
(* Workers are the poppers of the queue.  Each pusher is one call of       *)
(* switch_core_session_thread_pool_launch or                               *)
(* switch_thread_pool_launch_thread, and its item is its own work.         *)
(***************************************************************************)
EXTENDS AprQueue

ASSUME OneItemEach == Items = Pushers

VARIABLES running,    \* session_manager.running
          busy,       \* session_manager.busy
          worker,     \* [Poppers -> place in the worker's loop]
          launcher,   \* [Pushers -> place in the launch]
          ended,      \* the work whose function has returned
          uninit,     \* place of switch_core_session_uninit
          gaveUp,     \* uninit's timed wait ran out
          lost,       \* history: workers that left on APR_EINTR
          failed      \* history: switch_thread_create failures

poolVars == <<running, busy, worker, launcher, ended, uninit, gaveUp, lost, failed>>
vars == <<queueVars, poolVars>>

WorkerStates == {"none", "next", "pop", "ran"}
LaunchStates == {"idle", "push", "create", "done"}
UninitStates == {"up", "wake", "lock", "wait", "signalled", "done"}

PoolTypeOK ==
    /\ QueueTypeOK
    /\ running \in Nat
    /\ busy \in Int
    /\ worker \in [Poppers -> WorkerStates]
    /\ launcher \in [Pushers -> LaunchStates]
    /\ ended \subseteq Items
    /\ uninit \in UninitStates
    /\ gaveUp \in BOOLEAN
    /\ lost \in Nat
    /\ failed \in Nat

(* switch_core_session_init: memset to zero, an empty queue *)
Init ==
    /\ QueueInit
    /\ running = 0
    /\ busy = 0
    /\ worker = [w \in Poppers |-> "none"]
    /\ launcher = [l \in Pushers |-> "idle"]
    /\ ended = {}
    /\ uninit = "up"
    /\ gaveUp = FALSE
    /\ lost = 0
    /\ failed = 0

-----------------------------------------------------------------------------
(* Launching: push, then check_queue whatever push returned.                *)

LaunchPush(l) ==
    /\ launcher[l] = "idle"
    /\ PushCall(l, l)
    /\ launcher' = [launcher EXCEPT ![l] = "push"]
    /\ UNCHANGED <<running, busy, worker, ended, uninit, gaveUp, lost, failed>>

LaunchPushing(l) ==
    /\ launcher[l] = "push"
    /\ PushStep(l)
    /\ UNCHANGED poolVars

(* Slip: the work is not counted, and never asks for a worker. *)
CheckQueueUncounted(l) ==
    /\ launcher[l] = "push"
    /\ pusher[l] \in {"ok", "eof"}
    /\ launcher' = [launcher EXCEPT ![l] = "done"]
    /\ UNCHANGED <<queueVars, running, busy, worker, ended, uninit, gaveUp, lost, failed>>

(* check_queue up to its unlock: count the work, reserve a worker if short. *)
CheckQueue(l) ==
    /\ launcher[l] = "push"
    /\ pusher[l] \in {"ok", "eof"}
    /\ busy' = busy + 1
    /\ IF running >= busy + 1
       THEN /\ launcher' = [launcher EXCEPT ![l] = "done"]
            /\ UNCHANGED running
       ELSE /\ launcher' = [launcher EXCEPT ![l] = "create"]
            /\ running' = running + 1
    /\ UNCHANGED <<queueVars, worker, ended, uninit, gaveUp, lost, failed>>

(* Slip: the last but one. *)
SignalIfLastButOne ==
    uninit' = IF running = 2 /\ uninit = "wait" THEN "signalled" ELSE uninit

(* The last worker to go wakes switch_core_session_uninit. *)
SignalIfLast ==
    uninit' = IF running = 1 /\ uninit = "wait" THEN "signalled" ELSE uninit

CreateOk(l, w) ==
    /\ launcher[l] = "create"
    /\ worker[w] = "none"
    /\ worker' = [worker EXCEPT ![w] = "next"]
    /\ launcher' = [launcher EXCEPT ![l] = "done"]
    /\ UNCHANGED <<queueVars, running, busy, ended, uninit, gaveUp, lost, failed>>

(* Slip: the reservation of a thread that was not created is kept. *)
CreateFailKeeps(l) ==
    /\ launcher[l] = "create"
    /\ launcher' = [launcher EXCEPT ![l] = "done"]
    /\ failed' = failed + 1
    /\ UNCHANGED <<queueVars, running, busy, worker, ended, uninit, gaveUp, lost>>

(* switch_thread_create failed: the reservation is returned, the work stays
   queued and counted in busy. *)
CreateFail(l) ==
    /\ launcher[l] = "create"
    /\ running' = running - 1
    /\ SignalIfLast
    /\ launcher' = [launcher EXCEPT ![l] = "done"]
    /\ failed' = failed + 1
    /\ UNCHANGED <<queueVars, busy, worker, ended, gaveUp, lost>>

-----------------------------------------------------------------------------
(* switch_core_session_thread_pool_worker                                   *)

WorkerCall(w) ==
    /\ worker[w] = "next"
    /\ PopCall(w)
    /\ worker' = [worker EXCEPT ![w] = "pop"]
    /\ UNCHANGED <<running, busy, launcher, ended, uninit, gaveUp, lost, failed>>

WorkerPopping(w) ==
    /\ worker[w] = "pop"
    /\ PopStep(w)
    /\ UNCHANGED poolVars

WorkerTimeout(w) ==
    /\ worker[w] = "pop"
    /\ PopTimeout(w)
    /\ UNCHANGED poolVars

(* td->func() returns. *)
FuncReturns(w) ==
    /\ worker[w] = "pop"
    /\ popper[w] = "ok"
    /\ worker' = [worker EXCEPT ![w] = "ran"]
    /\ ended' = ended \cup {got[w]}
    /\ UNCHANGED <<queueVars, running, busy, launcher, uninit, gaveUp, lost, failed>>

BusyDone(w) ==
    /\ worker[w] = "ran"
    /\ busy' = busy - 1
    /\ worker' = [worker EXCEPT ![w] = "next"]
    /\ UNCHANGED <<queueVars, running, launcher, ended, uninit, gaveUp, lost, failed>>

(* Slip: >= for >. *)
MustLeaveEager(w) == popper[w] # "timeup" \/ running >= busy

(* A worker whose pop did not succeed leaves, unless it timed out and is still
   needed. *)
MustLeave(w) == popper[w] # "timeup" \/ running > busy

WorkerLeaves(w) ==
    /\ worker[w] = "pop"
    /\ popper[w] \in {"timeup", "eintr", "eof"}
    /\ MustLeave(w)
    /\ running' = running - 1
    /\ SignalIfLast
    /\ worker' = [worker EXCEPT ![w] = "none"]
    /\ lost' = IF popper[w] = "eintr" THEN lost + 1 ELSE lost
    /\ popper' = [popper EXCEPT ![w] = "out"]
    /\ UNCHANGED <<buf, terminated, got, pusher, offer, busy, launcher, ended, gaveUp, failed>>

WorkerStays(w) ==
    /\ worker[w] = "pop"
    /\ popper[w] \in {"timeup", "eintr", "eof"}
    /\ ~MustLeave(w)
    /\ worker' = [worker EXCEPT ![w] = "next"]
    /\ UNCHANGED <<queueVars, running, busy, launcher, ended, uninit, gaveUp, lost, failed>>

-----------------------------------------------------------------------------
(* switch_core_session_uninit                                               *)

UninitTerm ==
    /\ uninit = "up"
    /\ TermSet
    /\ uninit' = "wake"
    /\ UNCHANGED <<running, busy, worker, launcher, ended, gaveUp, lost, failed>>

UninitInterrupt ==
    /\ uninit = "wake"
    /\ InterruptAll
    /\ uninit' = "lock"
    /\ UNCHANGED <<running, busy, worker, launcher, ended, gaveUp, lost, failed>>

UninitLock ==
    /\ uninit = "lock"
    /\ uninit' = IF running # 0 THEN "wait" ELSE "done"
    /\ UNCHANGED <<queueVars, running, busy, worker, launcher, ended, gaveUp, lost, failed>>

UninitWoken ==
    /\ uninit = "signalled"
    /\ uninit' = "done"
    /\ UNCHANGED <<queueVars, running, busy, worker, launcher, ended, gaveUp, lost, failed>>

UninitTimeout ==
    /\ uninit = "wait"
    /\ uninit' = "done"
    /\ gaveUp' = TRUE
    /\ UNCHANGED <<queueVars, running, busy, worker, launcher, ended, lost, failed>>

UninitNext == UninitTerm \/ UninitInterrupt \/ UninitLock \/ UninitWoken \/ UninitTimeout

-----------------------------------------------------------------------------
LauncherStep(l) ==
    \/ LaunchPush(l) \/ LaunchPushing(l) \/ CheckQueue(l)
    \/ \E w \in Poppers : CreateOk(l, w)

WorkerStep(w) ==
    \/ WorkerCall(w) \/ WorkerPopping(w) \/ FuncReturns(w)
    \/ BusyDone(w) \/ WorkerLeaves(w) \/ WorkerStays(w)

Next ==
    \/ \E l \in Pushers : LauncherStep(l) \/ CreateFail(l)
    \/ \E w \in Poppers : WorkerStep(w) \/ WorkerTimeout(w)
    \/ UninitNext

Spec == Init /\ [][Next]_vars

(* Threads are scheduled, and the functions they run return. *)
FairSpec ==
    /\ Spec
    /\ \A l \in Pushers : WF_vars(LaunchPushing(l) \/ CheckQueue(l)
                                     \/ \E w \in Poppers : CreateOk(l, w))
    /\ \A w \in Poppers : WF_vars(WorkerStep(w))

-----------------------------------------------------------------------------
Alive == {w \in Poppers : worker[w] # "none"}
Creating == {l \in Pushers : launcher[l] = "create"}
InHand(w) == worker[w] = "pop" /\ popper[w] = "ok"

(* running counts exactly the workers that exist and the threads being
   created: no path of check_queue or of the worker forgets or repeats a
   decrement. *)
RunningExact == running = Cardinality(Alive) + Cardinality(Creating)

(* Every piece of work is in one place only: queued once, in the hands of one
   worker, or ended; none is run twice. *)
RunOnce ==
    /\ \A i, j \in 1 .. Len(buf) : i # j => buf[i] # buf[j]
    /\ \A w \in Poppers : InHand(w) =>
          /\ got[w] \notin ended
          /\ \A i \in 1 .. Len(buf) : buf[i] # got[w]
          /\ \A v \in Poppers \ {w} : InHand(v) => got[v] # got[w]
    /\ \A i \in 1 .. Len(buf) : buf[i] \notin ended

(* While the pool is in service, work outnumbers workers only by the workers
   that left on APR_EINTR and the threads that could not be created: the
   timeout path never gives up a worker that is needed. *)
DeficitBound == ~terminated => busy <= running + lost + failed

(* When uninit returns without running into its own timeout no worker is
   running a session's function any more, even if launches are still going on
   or come later: the session table may be destroyed. *)
Drained == uninit = "done" /\ ~gaveUp => \A w \in Poppers : ~InHand(w)

(* Queued work never waits for a worker that nobody will start: as long as no
   thread could not be created and no worker left on APR_EINTR, a worker is
   there or being created, or the thread that launched some work is still to
   come to check_queue. *)
WorkAttended ==
    buf # << >> /\ ~terminated /\ lost = 0 /\ failed = 0 =>
        \/ Alive # {} \/ Creating # {}
        \/ \E l \in Pushers : launcher[l] = "push" /\ pusher[l] = "ok"

(* Queued work is run, whichever workers time out, unless a thread could not be
   created, the pool is shut down, or a worker that was counted on has left on
   APR_EINTR, which it does without the test for being needed. *)
EveryTaskRuns ==
    \A l \in Pushers :
        pusher[l] = "ok" ~> (l \in ended \/ failed > 0 \/ terminated \/ (lost > 0 /\ busy > running))
=============================================================================
