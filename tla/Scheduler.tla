----------------------------- MODULE Scheduler -----------------------------
(***************************************************************************)
(* switch_scheduler.c: a list of tasks, the thread that goes over it again *)
(* and again, tasks that run in a thread of their own (SSHF_OWN_THREAD),   *)
(* and other threads that add and delete tasks.                            *)
(*                                                                         *)
(* globals.task_mutex is held exactly while the task thread is at "scan"   *)
(* or "reap"; what others do under it is one step, taken elsewhere.  The   *)
(* events of the scheduler go through globals.event_queue, of which only   *)
(* the length matters here: a push waits while the queue is full.          *)
(***************************************************************************)
EXTENDS Naturals, Sequences, FiniteSets

CONSTANTS Tasks, Groups, Adders, Threads,
          Epoch, Span,      \* the clock goes from Epoch to Epoch + Span
          Flags,            \* what tasks are added with, of SSHF_OWN_THREAD and SSHF_NO_DEL
          Delays, Repeats,  \* how far ahead tasks are asked for; relative times
          QueueSize,        \* of event_queue
          LateAdds,         \* the clock may tick between a caller's look and add_task's
          CreateFails,      \* switch_thread_create may fail
          NoTask, NoGroup

ASSUME TimesAssumption ==
    /\ Epoch \in Nat \ {0} /\ Span \in Nat /\ QueueSize \in Nat \ {0}
    /\ Delays \subseteq Nat /\ Repeats \subseteq 1 .. Epoch - 1
ASSUME FlagsAssumption == Flags \subseteq SUBSET {"OWN_THREAD", "NO_DEL"}
ASSUME NoTaskAssumption == NoTask \notin Tasks
ASSUME ChoicesAssumption == LateAdds \in BOOLEAN /\ CreateFails \in BOOLEAN

VARIABLES clock,
    list, events,     \* globals.task_list; the length of globals.event_queue
    used, freed,      \* containers allocated so far, and given back
    group, own, noDel, repeat, runtime, executed,   \* of each container
    inThread, running,
    why,              \* destroyed is why # {}: what set it
    pc, pos, last,    \* the task thread: place, index in the list, done
    taskRunning,      \* globals.task_thread_running
    thread, job,      \* threads of tasks with SSHF_OWN_THREAD
    adder, asked, new \* callers of add_task: place, task_runtime, container

taskVars == <<group, own, noDel, repeat, runtime, executed, inThread, running, why>>
loopVars == <<pc, pos, last, taskRunning>>
ownVars == <<thread, job>>
addVars == <<adder, asked, new>>
vars == <<clock, list, events, used, freed, taskVars, loopVars, ownVars, addVars>>

Locked == pc \in {"scan", "reap"}
Reasons == {"deleted", "lapsed", "stopped"}

TypeOK ==
    /\ clock \in Epoch .. Epoch + Span /\ events \in 0 .. QueueSize
    /\ list \in Seq(Tasks) /\ \A i, j \in 1 .. Len(list) : list[i] = list[j] => i = j
    /\ used \subseteq Tasks /\ freed \subseteq used
    /\ \A t \in Tasks : t \in used \ freed <=> \E i \in 1 .. Len(list) : list[i] = t
    /\ group \in [Tasks -> Groups \cup {NoGroup}]
    /\ own \in [Tasks -> BOOLEAN] /\ noDel \in [Tasks -> BOOLEAN]
    /\ inThread \in [Tasks -> BOOLEAN] /\ running \in [Tasks -> BOOLEAN]
    /\ repeat \in [Tasks -> Nat] /\ runtime \in [Tasks -> Nat] /\ executed \in [Tasks -> Nat]
    /\ why \in [Tasks -> SUBSET Reasons]
    /\ pc \in {"off", "scan", "run", "back", "gap", "reap", "pop", "drain", "ended"}
    /\ pos \in Nat /\ last \in BOOLEAN /\ taskRunning \in {"0", "1", "-1"}
    /\ thread \in [Threads -> {"none", "run", "back"}]
    /\ job \in [Threads -> Tasks \cup {NoTask}]
    /\ adder \in [Adders -> {"idle", "add", "report"}]
    /\ asked \in [Adders -> Nat] /\ new \in [Adders -> Tasks \cup {NoTask}]

Init ==
    /\ clock = Epoch /\ list = << >> /\ events = 0 /\ used = {} /\ freed = {}
    /\ group = [t \in Tasks |-> NoGroup]
    /\ own = [t \in Tasks |-> FALSE] /\ noDel = [t \in Tasks |-> FALSE]
    /\ repeat = [t \in Tasks |-> 0] /\ runtime = [t \in Tasks |-> 0]
    /\ executed = [t \in Tasks |-> 0] /\ inThread = [t \in Tasks |-> FALSE]
    /\ running = [t \in Tasks |-> FALSE] /\ why = [t \in Tasks |-> {}]
    /\ pc = "off" /\ pos = 0 /\ last = FALSE /\ taskRunning = "0"
    /\ thread = [x \in Threads |-> "none"] /\ job = [x \in Threads |-> NoTask]
    /\ adder = [a \in Adders |-> "idle"] /\ asked = [a \in Adders |-> 0]
    /\ new = [a \in Adders |-> NoTask]

Tick ==
    /\ clock < Epoch + Span
    /\ clock' = clock + 1
    /\ UNCHANGED <<list, events, used, freed, taskVars, loopVars, ownVars, addVars>>

(* switch_queue_push on event_queue *)
Pushed == events < QueueSize /\ events' = events + 1

-----------------------------------------------------------------------------
(* switch_scheduler_add_task.  The caller reads the clock to say when, and
   add_task reads it again to tell a time from an interval. *)

AddCall(a, when) ==
    /\ adder[a] = "idle"
    /\ adder' = [adder EXCEPT ![a] = "add"] /\ asked' = [asked EXCEPT ![a] = when]
    /\ UNCHANGED <<clock, list, events, used, freed, taskVars, loopVars, ownVars, new>>

AddTask(a, t, g) ==
    LET relative == asked[a] < clock
    IN  /\ adder[a] = "add" /\ ~Locked /\ t \notin used
        /\ LateAdds \/ asked[a] \notin Epoch .. clock - 1
        /\ used' = used \cup {t}
        /\ group' = [group EXCEPT ![t] = g]
        /\ \E f \in Flags : /\ own' = [own EXCEPT ![t] = "OWN_THREAD" \in f]
                            /\ noDel' = [noDel EXCEPT ![t] = "NO_DEL" \in f]
        /\ repeat' = [repeat EXCEPT ![t] = IF relative THEN asked[a] ELSE 0]
        /\ runtime' = [runtime EXCEPT ![t] = IF relative THEN asked[a] + clock ELSE asked[a]]
        /\ list' = Append(list, t)
        /\ adder' = [adder EXCEPT ![a] = "report"] /\ new' = [new EXCEPT ![a] = t]
        /\ UNCHANGED <<clock, events, freed, executed, inThread, running, why, loopVars, ownVars, asked>>

(* After the unlock: the log line, the event and the id that is returned are
   taken from the container. *)
AddReport(a) ==
    /\ adder[a] = "report" /\ Pushed
    /\ adder' = [adder EXCEPT ![a] = "idle"] /\ asked' = [asked EXCEPT ![a] = 0]
    /\ new' = [new EXCEPT ![a] = NoTask]
    /\ UNCHANGED <<clock, list, used, freed, taskVars, loopVars, ownVars>>

-----------------------------------------------------------------------------
(* switch_scheduler_del_task_id and switch_scheduler_del_task_group *)

Listed == {list[i] : i \in 1 .. Len(list)}

Delete(ts) ==
    /\ why' = [t \in Tasks |-> IF t \notin ts THEN why[t]
                               ELSE why[t] \cup {"deleted"}]
    /\ UNCHANGED <<clock, list, events, used, freed, group, own, noDel, repeat, runtime, executed,
                   inThread, running, loopVars, ownVars, addVars>>

DeleteId(t) == ~Locked /\ t \in Listed /\ ~noDel[t] /\ ~running[t] /\ Delete({t})

DeleteGroup(g) ==
    /\ ~Locked
    /\ Delete({t \in Listed : why[t] = {} /\ group[t] = g /\ ~noDel[t]})

-----------------------------------------------------------------------------
(* switch_scheduler_execute, once the callback has returned.  A callback may
   have set a new runtime; a repeated task gets one. *)

(* Slip: a repeated task keeps its old runtime. *)
ExecutedForgets(t, when) ==
    /\ runtime' = [runtime EXCEPT ![t] = when]
    /\ IF runtime'[t] > executed[t]
       THEN executed' = [executed EXCEPT ![t] = 0] /\ Pushed /\ UNCHANGED why
       ELSE why' = [why EXCEPT ![t] = @ \cup {"lapsed"}] /\ UNCHANGED <<executed, events>>

Executed(t, when) ==
    /\ runtime' = [runtime EXCEPT ![t] = IF repeat[t] > 0 THEN clock + repeat[t] ELSE when]
    /\ IF runtime'[t] > executed[t]
       THEN executed' = [executed EXCEPT ![t] = 0] /\ Pushed /\ UNCHANGED why
       ELSE why' = [why EXCEPT ![t] = @ \cup {"lapsed"}] /\ UNCHANGED <<executed, events>>

(* What a callback may leave in task->runtime. *)
NewRuntimes(t) == {runtime[t], clock + 1}

-----------------------------------------------------------------------------
(* task_own_thread *)

OwnReturns(x) ==
    /\ thread[x] = "run"
    /\ \E when \in NewRuntimes(job[x]) : Executed(job[x], when)
    /\ thread' = [thread EXCEPT ![x] = "back"]
    /\ UNCHANGED <<clock, list, used, freed, group, own, noDel, repeat, inThread, running,
                   loopVars, job, addVars>>

(* Slip: in_thread stays set. *)
OwnEndsMarked(x) ==
    /\ thread[x] = "back"
    /\ thread' = [thread EXCEPT ![x] = "none"] /\ job' = [job EXCEPT ![x] = NoTask]
    /\ UNCHANGED <<clock, list, events, used, freed, taskVars, loopVars, addVars>>

OwnEnds(x) ==
    /\ thread[x] = "back"
    /\ inThread' = [inThread EXCEPT ![job[x]] = FALSE]
    /\ thread' = [thread EXCEPT ![x] = "none"] /\ job' = [job EXCEPT ![x] = NoTask]
    /\ UNCHANGED <<clock, list, events, used, freed, group, own, noDel, repeat, runtime, executed,
                   running, why, loopVars, addVars>>

-----------------------------------------------------------------------------
(* switch_scheduler_task_thread and task_thread_loop *)

Start ==
    /\ pc = "off"
    /\ pc' = "scan" /\ pos' = 1 /\ taskRunning' = "1"
    /\ UNCHANGED <<clock, list, events, used, freed, taskVars, last, ownVars, addVars>>

(* Slip: a task in its thread is due again. *)
DueAgain(t) == ~last /\ why[t] = {} /\ clock >= runtime[t]

Due(t) == ~last /\ why[t] = {} /\ clock >= runtime[t] /\ ~inThread[t]

(* The scan comes by a task it does not run, or marks all for the end. *)
ScanPass ==
    /\ pc = "scan" /\ pos <= Len(list) /\ ~Due(list[pos])
    /\ pos' = pos + 1
    /\ why' = IF last THEN [why EXCEPT ![list[pos]] = @ \cup {"stopped"}] ELSE why
    /\ UNCHANGED <<clock, list, events, used, freed, group, own, noDel, repeat, runtime, executed,
                   inThread, running, pc, last, taskRunning, ownVars, addVars>>

(* The result of switch_thread_create is not looked at. *)
ScanThread ==
    LET t == list[pos]
    IN  /\ pc = "scan" /\ pos <= Len(list) /\ Due(t) /\ own[t]
        /\ executed' = [executed EXCEPT ![t] = clock]
        /\ inThread' = [inThread EXCEPT ![t] = TRUE]
        /\ \/ \E x \in Threads :
                 /\ thread[x] = "none"
                 /\ thread' = [thread EXCEPT ![x] = "run"] /\ job' = [job EXCEPT ![x] = t]
           \/ CreateFails /\ UNCHANGED ownVars
        /\ pos' = pos + 1
        /\ UNCHANGED <<clock, list, events, used, freed, group, own, noDel, repeat, runtime, running,
                       why, pc, last, taskRunning, addVars>>

ScanRun ==
    LET t == list[pos]
    IN  /\ pc = "scan" /\ pos <= Len(list) /\ Due(t) /\ ~own[t]
        /\ executed' = [executed EXCEPT ![t] = clock]
        /\ running' = [running EXCEPT ![t] = TRUE]
        /\ pc' = "run"
        /\ UNCHANGED <<clock, list, events, used, freed, group, own, noDel, repeat, runtime, inThread,
                       why, pos, last, taskRunning, ownVars, addVars>>

(* The task's callback, and the rest of execute, without the mutex. *)
RunReturns ==
    /\ pc = "run" /\ pc' = "back"
    /\ \E when \in NewRuntimes(list[pos]) : Executed(list[pos], when)
    /\ UNCHANGED <<clock, list, used, freed, group, own, noDel, repeat, inThread, running,
                   pos, last, taskRunning, ownVars, addVars>>

RunEnds ==
    /\ pc = "back" /\ pc' = "scan" /\ pos' = pos + 1
    /\ running' = [running EXCEPT ![list[pos]] = FALSE]
    /\ UNCHANGED <<clock, list, events, used, freed, group, own, noDel, repeat, runtime, executed,
                   inThread, why, last, taskRunning, ownVars, addVars>>

(* The mutex is given up between the two passes over the list. *)
ScanEnds ==
    /\ pc = "scan" /\ pos > Len(list) /\ pc' = "gap" /\ pos' = 0
    /\ UNCHANGED <<clock, list, events, used, freed, taskVars, last, taskRunning, ownVars, addVars>>

ReapStarts ==
    /\ pc = "gap" /\ pc' = "reap" /\ pos' = 1
    /\ UNCHANGED <<clock, list, events, used, freed, taskVars, last, taskRunning, ownVars, addVars>>

(* What a freed container held is gone (repeat and why are kept for
   RepeatsGoOn). *)
Free(t) ==
    /\ freed' = freed \cup {t}
    /\ group' = [group EXCEPT ![t] = NoGroup]
    /\ own' = [own EXCEPT ![t] = FALSE] /\ noDel' = [noDel EXCEPT ![t] = FALSE]
    /\ runtime' = [runtime EXCEPT ![t] = 0] /\ executed' = [executed EXCEPT ![t] = 0]

(* Slips: the container goes while its thread runs; SSHF_NO_DEL keeps it. *)
GarbageAlways(t) == why[t] # {}
GarbageDeletable(t) == why[t] # {} /\ ~inThread[t] /\ ~noDel[t]

Garbage(t) == why[t] # {} /\ ~inThread[t]

Reap ==
    LET t == list[pos]
    IN  /\ pc = "reap" /\ pos <= Len(list) /\ Garbage(t) /\ Pushed
        /\ list' = SubSeq(list, 1, pos - 1) \o SubSeq(list, pos + 1, Len(list))
        /\ Free(t)
        /\ UNCHANGED <<clock, used, repeat, inThread, running, why, loopVars, ownVars, addVars>>

ReapPass ==
    /\ pc = "reap" /\ pos <= Len(list) /\ ~Garbage(list[pos]) /\ pos' = pos + 1
    /\ UNCHANGED <<clock, list, events, used, freed, taskVars, pc, last, taskRunning, ownVars, addVars>>

ReapEnds ==
    /\ pc = "reap" /\ pos > Len(list) /\ pc' = IF last THEN "drain" ELSE "pop"
    /\ pos' = 0
    /\ UNCHANGED <<clock, list, events, used, freed, taskVars, last, taskRunning, ownVars, addVars>>

(* One event is fired, or the wait of half a second runs out; then again,
   for the last time if the thread is to stop. *)
Pop ==
    /\ pc = "pop"
    /\ events' = IF events > 0 THEN events - 1 ELSE 0
    /\ pc' = "scan" /\ pos' = 1 /\ last' = (taskRunning # "1")
    /\ UNCHANGED <<clock, list, used, freed, taskVars, taskRunning, ownVars, addVars>>

Drain ==
    /\ pc = "drain" /\ pc' = "ended" /\ events' = 0 /\ taskRunning' = "0"
    /\ UNCHANGED <<clock, list, used, freed, taskVars, pos, last, ownVars, addVars>>

(* switch_scheduler_task_thread_stop, once the thread runs *)
Stop ==
    /\ taskRunning = "1" /\ taskRunning' = "-1"
    /\ UNCHANGED <<clock, list, events, used, freed, taskVars, pc, pos, last, ownVars, addVars>>

-----------------------------------------------------------------------------
LoopStep ==
    \/ Start \/ ScanPass \/ ScanThread \/ ScanRun \/ RunReturns \/ RunEnds
    \/ ScanEnds \/ ReapStarts \/ Reap \/ ReapPass \/ ReapEnds \/ Pop \/ Drain

OwnStep(x) == OwnReturns(x) \/ OwnEnds(x)

AddStep(a) == AddReport(a) \/ \E t \in Tasks, g \in Groups : AddTask(a, t, g)

Next ==
    \/ Tick \/ LoopStep \/ Stop
    \/ \E x \in Threads : OwnStep(x)
    \/ \E a \in Adders : \/ AddStep(a)
                         \/ \E when \in {clock + d : d \in Delays} \cup Repeats : AddCall(a, when)
    \/ \E t \in Tasks : DeleteId(t)
    \/ \E g \in Groups : DeleteGroup(g)

Spec == Init /\ [][Next]_vars

(* Threads are scheduled, callbacks return, and time passes. *)
FairSpec ==
    /\ Spec /\ WF_vars(Tick) /\ WF_vars(LoopStep)
    /\ \A x \in Threads : WF_vars(OwnStep(x))
    /\ \A a \in Adders : WF_vars(AddReport(a))

-----------------------------------------------------------------------------
(* Properties. *)

(* A task is never run twice at the same time, by the task thread or by
   threads of its own. *)
NoOverlap ==
    /\ \A x, y \in Threads : job[x] = job[y] /\ job[x] # NoTask => x = y
    /\ \A x \in Threads : pc \in {"run", "back"} => job[x] # list[pos]

(* Nobody who runs a task has it freed under them: not by a deletion, not by
   the task's own end, not at the stop. *)
RunsAlive ==
    /\ \A x \in Threads : job[x] # NoTask => job[x] \notin freed
    /\ pc \in {"run", "back"} => pos <= Len(list) /\ running[list[pos]]

(* A repeated task goes on until it is deleted or the scheduler stops. *)
RepeatsGoOn == \A t \in freed : repeat[t] > 0 => why[t] \cap {"deleted", "stopped"} # {}

(* A container whose thread could not be created: in_thread stays set. *)
Orphan(t) == inThread[t] /\ \A x \in Threads : job[x] # t

(* A task asked for in time is run, deleted, or gone with the scheduler. *)
DueIsRun ==
    \A t \in Tasks :
        (t \in Listed /\ runtime[t] <= Epoch + Span)
            ~> (executed[t] > 0 \/ why[t] # {} \/ pc = "ended")

(* A task that is deleted or has lapsed is freed, if the scheduler goes on and
   the task's thread could be created. *)
DestroyedIsFreed ==
    \A t \in Tasks : (why[t] # {} /\ ~last) ~> (t \in freed \/ Orphan(t) \/ pc = "ended")

(* A task is executed at the time that was asked for: what add_task stores is
   the time in epoch seconds it was given (switch_scheduler.h). *)
AtTheTimeAsked ==
    [][\A a \in Adders : adder[a] = "add" /\ adder'[a] = "report" /\ asked[a] >= Epoch
                             => runtime'[new'[a]] = asked[a]]_vars
=============================================================================
