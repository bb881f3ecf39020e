------------------------------ MODULE SqlQueue ------------------------------
(***************************************************************************)
(* The SQL queue manager of switch_core_sqldb.c: callers push statements   *)
(* on one of numq queues, one thread executes them in transactions of      *)
(* about max_trans, lower queues first, and sleeps on a condition when     *)
(* there is nothing to do; the manager can be paused, resumed and          *)
(* destroyed at any time.                                                  *)
(*                                                                         *)
(* A statement is the number of its push.  What is done under qm->mutex is *)
(* one step; cond_mutex and cond2_mutex are variables, since whether they  *)
(* are free is what qm_wake goes by.  The queues themselves (AprQueue) are *)
(* sequences with atomic operations.                                       *)
(***************************************************************************)
EXTENDS Integers, Sequences, FiniteSets

CONSTANTS Pushers, Stopper, None,
          NumQ,          \* numq
          QueueLen,      \* SWITCH_SQL_QUEUE_LEN
          MaxTrans,      \* max_trans, 0 for no limit
          WakeTries,     \* how often qm_wake tries, 10
          StopTries,     \* sanity of switch_sql_queue_manager_stop, 100
          MaxPushes,     \* bound: statements handed to the manager
          MaxToggles,    \* bound: pauses and resumes
          Failures,      \* of "connect", "begin" and "statement", what may fail
          Timely         \* qm_wake's sleep outlasts the step from cond2_mutex into the wait,
                         \* and those of stop outlast what the thread is at

ASSUME SqlAssumption ==
    /\ NumQ \in Nat \ {0} /\ QueueLen \in Nat \ {0} /\ MaxTrans \in Nat
    /\ WakeTries \in Nat \ {0} /\ StopTries \in Nat \ {0}
    /\ MaxPushes \in Nat /\ MaxToggles \in Nat
    /\ Failures \subseteq {"connect", "begin", "statement"} /\ Timely \in BOOLEAN
    /\ IsFiniteSet(Pushers) /\ Stopper \notin Pushers /\ None \notin Pushers \cup {Stopper}

Positions == 0 .. NumQ - 1
Statements == 1 .. MaxPushes
Null == 0                      \* the NULL that stop pushes
Wakers == Pushers \cup {Stopper}
Sql == "sql thread"            \* as the holder of a lock

VARIABLES
    queue,               \* qm->sql_queue
    threadRunning,       \* qm->thread_running
    paused, corePaused,  \* qm->paused, sql_manager.paused
    cond, cond2,         \* the holders of cond_mutex and cond2_mutex
    sql, pos, hand, ttl, \* the thread: place, index of a loop, popped statement, ttl
    pc, arg, tries,      \* callers of push, pause and destroy: place, queue, tries of qm_wake
    sanity,              \* of stop
    pushes, toggles,
    mark,                \* history: pushes when the thread began to look for a statement
    before, lost         \* history: queued by the time of destroy; thrown away

sqlVars == <<sql, pos, hand, ttl, mark>>
callVars == <<pc, arg, tries>>
histVars == <<before, lost>>
vars == <<queue, threadRunning, paused, corePaused, cond, cond2, sqlVars, callVars, sanity,
          pushes, toggles, histVars>>

TypeOK ==
    /\ queue \in [Positions -> Seq(Statements \cup {Null})]
    /\ \A q \in Positions : Len(queue[q]) <= QueueLen
    /\ threadRunning \in {-1, 0, 1} /\ paused \in BOOLEAN /\ corePaused \in BOOLEAN
    /\ cond \in Wakers \cup {None, Sql} /\ cond2 \in {None, Sql}
    /\ sql \in {"off", "connect", "lock", "loop", "pauses", "clear", "work", "begin", "scan",
                "execute", "commit", "check", "enter", "sleep", "wait", "woken", "flush", "release", "gone"}
    /\ pos \in 0 .. NumQ /\ hand \in Statements \cup {Null} /\ ttl \in Nat
    /\ pc \in [Wakers -> {"idle", "push", "wake", "signal", "retry", "interrupt", "stop",
                          "join", "destroyed"}]
    /\ arg \in [Wakers -> Positions] /\ tries \in [Wakers -> 0 .. WakeTries]
    /\ sanity \in 0 .. StopTries /\ pushes \in 0 .. MaxPushes /\ toggles \in 0 .. MaxToggles
    /\ mark \in 0 .. MaxPushes /\ before \subseteq Statements /\ lost \subseteq Statements

Init ==
    /\ queue = [q \in Positions |-> << >>] /\ threadRunning = 0
    /\ paused = FALSE /\ corePaused = FALSE /\ cond = None /\ cond2 = None
    /\ sql = "off" /\ pos = 0 /\ hand = Null /\ ttl = 0 /\ mark = 0
    /\ pc = [w \in Wakers |-> "idle"] /\ arg = [w \in Wakers |-> 0] /\ tries = [w \in Wakers |-> 0]
    /\ sanity = StopTries /\ pushes = 0 /\ toggles = 0
    /\ before = {} /\ lost = {}

(* qm_ttl.  Only the thread takes statements out, so the sum is 0 for it
   exactly when all queues were empty as it started to add. *)
QmTtl == \E q \in Positions : queue[q] # << >>

InQueue(q) == {queue[q][i] : i \in 1 .. Len(queue[q])} \ {Null}
Queued == UNION {InQueue(q) : q \in Positions}

(* do_flush, under qm->mutex: the statements of a queue are taken out, and
   executed when there is a handle *)
DoFlush(q, dbh) ==
    /\ queue' = [queue EXCEPT ![q] = << >>]
    /\ lost' = IF dbh THEN lost ELSE lost \cup InQueue(q)

-----------------------------------------------------------------------------
(* switch_sql_queue_manager_push.  The manager is gone for new callers once
   destroy has set *qmp to NULL. *)

Alive == pc[Stopper] = "idle"
MayPush == Alive /\ pushes + Cardinality({p \in Pushers : pc[p] = "push"}) < MaxPushes
Drops == corePaused \/ threadRunning # 1

PushCall(p, n) ==
    /\ pc[p] = "idle" /\ MayPush
    /\ pc' = [pc EXCEPT ![p] = IF Drops THEN "wake" ELSE "push"]
    /\ arg' = [arg EXCEPT ![p] = IF n > NumQ - 1 THEN 0 ELSE n]
    /\ pushes' = IF Drops THEN pushes + 1 ELSE pushes
    /\ UNCHANGED <<queue, threadRunning, paused, corePaused, cond, cond2, sqlVars, tries, sanity, toggles,
                   histVars>>

(* trypush until the queue has room *)
TryPush(p) ==
    LET q == arg[p]
        s == pushes + 1
    IN  /\ pc[p] = "push" /\ Len(queue[q]) < QueueLen
        /\ queue' = [queue EXCEPT ![q] = Append(@, s)]
        /\ pushes' = s /\ pc' = [pc EXCEPT ![p] = "wake"]
        /\ UNCHANGED <<threadRunning, paused, corePaused, cond, cond2, sqlVars, arg, tries, sanity,
                       toggles, histVars>>

(* switch_sql_queue_manager_push_confirm: the statement is executed at once,
   through a handle of the caller's *)
PushConfirm(p) ==
    /\ pc[p] = "idle" /\ MayPush
    /\ pushes' = pushes + 1
    /\ pc' = IF Drops THEN [pc EXCEPT ![p] = "wake"] ELSE pc
    /\ UNCHANGED <<queue, threadRunning, paused, corePaused, cond, cond2, sqlVars, arg, tries, sanity,
                   toggles, histVars>>

-----------------------------------------------------------------------------
(* qm_wake.  Where a caller goes on when it returns: *)

After(w) == IF w # Stopper THEN "idle" ELSE IF sanity = 0 THEN "join" ELSE "stop"

Returned(w) ==
    /\ pc' = [pc EXCEPT ![w] = After(w)]
    /\ arg' = [arg EXCEPT ![w] = 0] /\ tries' = [tries EXCEPT ![w] = 0]

TryCond(w) ==
    /\ pc[w] = "wake"
    /\ pc' = [pc EXCEPT ![w] = IF cond = None THEN "signal" ELSE "retry"]
    /\ cond' = IF cond = None THEN w ELSE cond
    /\ UNCHANGED <<queue, threadRunning, paused, corePaused, cond2, sqlVars, arg, tries, sanity,
                   pushes, toggles, histVars>>

Signal(w) ==
    /\ pc[w] = "signal"
    /\ sql' = IF sql = "wait" THEN "woken" ELSE sql
    /\ cond' = None /\ Returned(w)
    /\ UNCHANGED <<queue, threadRunning, paused, corePaused, cond2, pos, hand, ttl, mark, sanity, pushes, toggles, histVars>>

(* cond_mutex is taken: if cond2_mutex is not, the thread is believed to be
   at work; else it is about to wait, and qm_wake sleeps a little. *)
Retry(w) ==
    /\ pc[w] = "retry"
    /\ IF cond2 = None \/ tries[w] + 1 >= WakeTries
       THEN Returned(w)
       ELSE /\ pc' = [pc EXCEPT ![w] = "wake"] /\ tries' = [tries EXCEPT ![w] = @ + 1] /\ UNCHANGED arg
            /\ Timely => sql # "sleep"
    /\ UNCHANGED <<queue, threadRunning, paused, corePaused, cond, cond2, sqlVars, sanity, pushes, toggles,
                   histVars>>

-----------------------------------------------------------------------------
(* switch_sql_queue_manager_pause and _resume, switch_core_sqldb_pause and
   _resume *)

Pause(p, flush) ==
    /\ pc[p] = "idle" /\ Alive /\ toggles < MaxToggles /\ ~paused
    /\ paused' = TRUE /\ toggles' = toggles + 1
    /\ queue' = IF flush THEN [q \in Positions |-> << >>] ELSE queue
    /\ UNCHANGED <<threadRunning, corePaused, cond, cond2, sqlVars, callVars, sanity, pushes, histVars>>

Resume(p) ==
    /\ pc[p] = "idle" /\ Alive /\ paused
    /\ paused' = FALSE /\ pc' = [pc EXCEPT ![p] = "wake"]
    /\ UNCHANGED <<queue, threadRunning, corePaused, cond, cond2, sqlVars, arg, tries, sanity, pushes,
                   toggles, histVars>>

CorePause ==
    /\ Alive /\ toggles < MaxToggles /\ ~corePaused
    /\ corePaused' = TRUE /\ toggles' = toggles + 1
    /\ UNCHANGED <<queue, threadRunning, paused, cond, cond2, sqlVars, callVars, sanity, pushes, histVars>>

CoreResume ==
    /\ Alive /\ corePaused /\ corePaused' = FALSE
    /\ UNCHANGED <<queue, threadRunning, paused, cond, cond2, sqlVars, callVars, sanity, pushes, toggles,
                   histVars>>

-----------------------------------------------------------------------------
(* switch_sql_queue_manager_destroy and _stop *)

Destroy ==
    /\ pc[Stopper] = "idle" /\ sql # "off" /\ before' = Queued
    /\ threadRunning' = IF threadRunning = 1 THEN -1 ELSE threadRunning
    /\ sanity' = IF threadRunning = 1 THEN StopTries ELSE 0
    /\ pc' = [pc EXCEPT ![Stopper] = IF threadRunning = 1 THEN "stop" ELSE "wake"]
    /\ UNCHANGED <<queue, paused, corePaused, cond, cond2, sqlVars, arg, tries, pushes, toggles, lost>>

(* while(--sanity && qm->thread_running == -1), with a sleep between *)
StopLoop ==
    LET on == sanity > 1 /\ threadRunning = -1
    IN  /\ pc[Stopper] = "stop"
        /\ (Timely /\ sanity < StopTries) => sql \in {"wait", "gone"}
        /\ sanity' = IF on THEN sanity - 1 ELSE 0
        /\ pc' = [pc EXCEPT ![Stopper] = IF on THEN "interrupt" ELSE "wake"]
        /\ arg' = [arg EXCEPT ![Stopper] = 0]
        /\ UNCHANGED <<queue, threadRunning, paused, corePaused, cond, cond2, sqlVars, tries, pushes,
                       toggles, histVars>>

(* switch_queue_push of NULL waits for room, without qm->mutex *)
StopInterrupt ==
    LET q == arg[Stopper]
    IN  /\ pc[Stopper] = "interrupt" /\ Len(queue[q]) < QueueLen
        /\ queue' = [queue EXCEPT ![q] = Append(@, Null)]
        /\ IF q + 1 < NumQ
           THEN arg' = [arg EXCEPT ![Stopper] = q + 1] /\ UNCHANGED pc
           ELSE pc' = [pc EXCEPT ![Stopper] = "wake"] /\ UNCHANGED arg
        /\ UNCHANGED <<threadRunning, paused, corePaused, cond, cond2, sqlVars, tries, sanity, pushes,
                       toggles, histVars>>

(* switch_thread_join, then what is left is thrown away with the pool *)
Join ==
    /\ pc[Stopper] = "join" /\ sql = "gone"
    /\ queue' = [q \in Positions |-> << >>]
    /\ lost' = lost \cup Queued
    /\ pc' = [pc EXCEPT ![Stopper] = "destroyed"]
    /\ UNCHANGED <<threadRunning, paused, corePaused, cond, cond2, sqlVars, arg, tries, sanity, pushes,
                   toggles, before>>

-----------------------------------------------------------------------------
(* switch_sql_queue_manager_start and switch_user_sql_thread *)

Goes(place) ==
    /\ sql' = place
    /\ UNCHANGED <<hand, ttl, mark>>
others == <<paused, corePaused, callVars, sanity, pushes, toggles, before>>

Start ==
    /\ sql = "off" /\ Alive /\ Goes("connect")
    /\ UNCHANGED <<queue, threadRunning, cond, cond2, pos, lost, others>>

Connect ==
    /\ sql = "connect"
    /\ \/ threadRunning' = 1 /\ Goes("lock")
       \/ "connect" \in Failures /\ Goes("gone") /\ UNCHANGED threadRunning
    /\ UNCHANGED <<queue, cond, cond2, pos, lost, others>>

Lock ==
    /\ sql = "lock" /\ cond = None /\ cond' = Sql /\ Goes("loop")
    /\ UNCHANGED <<queue, threadRunning, cond2, pos, lost, others>>

(* Slip: the loop ends for 0 only. *)
LoopOn ==
    /\ sql = "loop" /\ pos' = 0
    /\ IF threadRunning # 0
       THEN Goes("pauses") /\ UNCHANGED cond
       ELSE Goes("flush") /\ cond' = None
    /\ UNCHANGED <<queue, threadRunning, cond2, lost, others>>

Loop ==
    /\ sql = "loop" /\ pos' = 0
    /\ IF threadRunning = 1
       THEN Goes("pauses") /\ UNCHANGED cond
       ELSE Goes("flush") /\ cond' = None
    /\ UNCHANGED <<queue, threadRunning, cond2, lost, others>>

Pauses ==
    /\ sql = "pauses"
    /\ Goes(IF paused THEN "check" ELSE IF corePaused THEN "clear" ELSE "work")
    /\ UNCHANGED <<queue, threadRunning, cond, cond2, pos, lost, others>>

Clear ==
    /\ sql = "clear" /\ queue' = [queue EXCEPT ![pos] = << >>]
    /\ IF pos + 1 < NumQ THEN pos' = pos + 1 /\ Goes("clear") ELSE pos' = 0 /\ Goes("check")
    /\ UNCHANGED <<threadRunning, cond, cond2, lost, others>>

Work ==
    /\ sql = "work" /\ Goes(IF QmTtl THEN "begin" ELSE "check")
    /\ UNCHANGED <<queue, threadRunning, cond, cond2, pos, lost, others>>

-----------------------------------------------------------------------------
(* do_trans *)

Full == MaxTrans # 0 /\ ttl > MaxTrans

(* Slip: the last queue is looked at first. *)
BeginLast ==
    /\ sql = "begin" /\ pos' = NumQ - 1 /\ ttl' = 0 /\ mark' = pushes
    /\ \/ sql' = "scan"
       \/ "begin" \in Failures /\ sql' = "commit"
    /\ UNCHANGED <<queue, threadRunning, cond, cond2, hand, lost, others>>

Begin ==
    /\ sql = "begin" /\ pos' = 0 /\ ttl' = 0 /\ mark' = pushes
    /\ \/ sql' = "scan"
       \/ "begin" \in Failures /\ sql' = "commit"
    /\ UNCHANGED <<queue, threadRunning, cond, cond2, hand, lost, others>>

(* Slip: the statement that was pushed last is taken. *)
ScanLast ==
    /\ sql = "scan"
    /\ IF Full \/ pos = NumQ
       THEN sql' = "commit" /\ UNCHANGED <<queue, pos, hand>>
       ELSE LET n == Len(queue[pos])
                s == IF n = 0 THEN Null ELSE queue[pos][n]
            IN  /\ queue' = [queue EXCEPT ![pos] = IF n = 0 THEN @ ELSE SubSeq(@, 1, n - 1)]
                /\ hand' = s
                /\ IF s = Null
                   THEN pos' = pos + 1 /\ UNCHANGED sql
                   ELSE sql' = "execute" /\ UNCHANGED pos
    /\ UNCHANGED <<threadRunning, cond, cond2, ttl, mark, lost, others>>

(* One turn of the inner loop: the first statement of a queue is popped, or
   the next queue is looked at.  A NULL is taken out and passed over. *)
Scan ==
    /\ sql = "scan"
    /\ IF Full \/ pos = NumQ
       THEN sql' = "commit" /\ UNCHANGED <<queue, pos, hand>>
       ELSE LET s == IF queue[pos] = << >> THEN Null ELSE Head(queue[pos])
            IN  /\ queue' = [queue EXCEPT ![pos] = IF @ = << >> THEN @ ELSE Tail(@)]
                /\ hand' = s
                /\ IF s = Null
                   THEN pos' = pos + 1 /\ UNCHANGED sql
                   ELSE sql' = "execute" /\ UNCHANGED pos
    /\ UNCHANGED <<threadRunning, cond, cond2, ttl, mark, lost, others>>

Execute ==
    /\ sql = "execute" /\ hand' = Null
    /\ \/ ttl' = ttl + 1 /\ sql' = "scan" /\ pos' = 0 /\ mark' = pushes
       \/ "statement" \in Failures /\ sql' = "commit" /\ UNCHANGED <<pos, ttl, mark>>
    /\ UNCHANGED <<queue, threadRunning, cond, cond2, lost, others>>

Commit ==
    /\ sql = "commit" /\ pos' = 0 /\ mark' = 0 /\ ttl' = 0
    /\ sql' = IF ttl = MaxTrans THEN "work" ELSE "check"
    /\ UNCHANGED <<queue, threadRunning, cond, cond2, hand, lost, others>>

-----------------------------------------------------------------------------
(* The end of the loop: wait for work, then let some gather. *)

(* Slip: the thread goes to sleep without a look at the queues. *)
CheckBlind ==
    /\ sql = "check" /\ Goes("enter")
    /\ UNCHANGED <<queue, threadRunning, cond, cond2, pos, lost, others>>

Check ==
    /\ sql = "check" /\ Goes(IF QmTtl THEN "loop" ELSE "enter")
    /\ UNCHANGED <<queue, threadRunning, cond, cond2, pos, lost, others>>

Enter ==
    /\ sql = "enter" /\ cond2 = None /\ cond2' = Sql /\ Goes("sleep")
    /\ UNCHANGED <<queue, threadRunning, cond, pos, lost, others>>

Sleep ==
    /\ sql = "sleep" /\ cond' = None /\ Goes("wait")
    /\ UNCHANGED <<queue, threadRunning, cond2, pos, lost, others>>

Woken ==
    /\ sql = "woken" /\ cond = None /\ cond' = Sql /\ cond2' = None /\ Goes("loop")
    /\ UNCHANGED <<queue, threadRunning, pos, lost, others>>

(* Slip: the queues are flushed without the handle. *)
FlushNoHandle ==
    /\ sql = "flush" /\ DoFlush(pos, FALSE)
    /\ IF pos + 1 < NumQ THEN pos' = pos + 1 /\ Goes("flush") ELSE pos' = 0 /\ Goes("release")
    /\ UNCHANGED <<threadRunning, cond, cond2, others>>

(* After the loop what is queued is executed outside of a transaction. *)
Flush ==
    /\ sql = "flush" /\ DoFlush(pos, TRUE)
    /\ IF pos + 1 < NumQ THEN pos' = pos + 1 /\ Goes("flush") ELSE pos' = 0 /\ Goes("release")
    /\ UNCHANGED <<threadRunning, cond, cond2, others>>

Release ==
    /\ sql = "release" /\ threadRunning' = 0 /\ Goes("gone")
    /\ UNCHANGED <<queue, cond, cond2, pos, lost, others>>

-----------------------------------------------------------------------------
SqlThread ==
    \/ Connect \/ Lock \/ Loop \/ Pauses \/ Clear \/ Work \/ Begin \/ Scan \/ Execute \/ Commit
    \/ Check \/ Enter \/ Sleep \/ Woken \/ Flush \/ Release

(* A caller inside push or qm_wake when the manager is freed goes no further
   here. *)
Exists == pc[Stopper] # "destroyed"

Going(w) == Exists /\ (TryCond(w) \/ Signal(w) \/ Retry(w))
Pushing(p) == Exists /\ TryPush(p)
Stopping == StopLoop \/ StopInterrupt \/ Join

Next ==
    \/ \E p \in Pushers : \/ \E n \in 0 .. NumQ : PushCall(p, n)
                          \/ Pushing(p) \/ PushConfirm(p)
                          \/ \E flush \in BOOLEAN : Pause(p, flush)
                          \/ Resume(p)
    \/ \E w \in Wakers : Going(w)
    \/ CorePause \/ CoreResume \/ Start \/ Destroy \/ Stopping \/ SqlThread

Spec == Init /\ [][Next]_vars

(* Every thread goes on with what it is in the middle of; nobody has to call. *)
Fairness ==
    /\ WF_vars(SqlThread) /\ SF_vars(Begin /\ sql' = "scan") /\ WF_vars(Stopping)
    /\ \A p \in Pushers : WF_vars(Pushing(p))
    /\ \A w \in Wakers : WF_vars(Going(w))

FairSpec == Spec /\ Fairness

-----------------------------------------------------------------------------
(* Properties *)

(* do_trans, the flush and push keep the order of a queue: a statement leaves
   its queue only when all that were pushed on it before have left. *)
QueueOrder ==
    [][\A q \in Positions : \A s \in InQueue(q) \ InQueue(q)' :
          \A r \in InQueue(q) : r < s => r \notin InQueue(q)']_vars

(* core_event_handler inserts a channel's row through queue 0 and updates and
   deletes it through queue 1.  A statement is popped from a queue only when
   every statement that was on a lower queue as the thread began to look has
   been popped: the row is there before its update, unless both were pushed
   while the thread was between the two queues. *)
LowerFirst ==
    [][sql = "scan" /\ hand' # Null /\ Alive =>
          \A q \in 0 .. pos - 1 : \A r \in InQueue(q) : r > mark]_vars

(* Whatever was queued when the manager was told to stop has been executed by
   the time destroy returns, or thrown away on a pause; no statement that got
   in before is lost in the flush of destroy. *)
StopWrites == before \cap lost = {}

(* destroy returns: a thread that was running when it was told to stop stops,
   whatever it was at, and even if it was about to wait. *)
StopReturns == pc[Stopper] = "stop" ~> pc[Stopper] = "destroyed"

(* A queued statement is executed without anybody's help unless the thread
   had already looked and was going to sleep; then the next caller that finds
   it asleep gets it executed. *)
NextPushWrites ==
    \A s \in Statements :
        (/\ s \in Queued
         /\ \/ sql \notin {"enter", "sleep", "wait"}
            \/ sql = "wait" /\ \E w \in Wakers : pc[w] = "wake") ~> (s \notin Queued \/ paused)
=============================================================================
