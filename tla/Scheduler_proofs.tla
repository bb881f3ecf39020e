-------------------------- MODULE Scheduler_proofs --------------------------
(***************************************************************************)
(* The scheduler, for any number of tasks, callers and task threads, any   *)
(* times, and any size of the event queue.                                 *)
(***************************************************************************)
EXTENDS Scheduler, SequenceTheorems, TLAPS

(* Where the task thread is in the list. *)
LoopInv ==
    /\ pc \in {"scan", "reap"} => pos >= 1
    /\ pc \in {"run", "back"} => /\ pos \in 1 .. Len(list)
                                 /\ running[list[pos]] /\ ~own[list[pos]]

(* A thread of its own has a task that is listed and marked as in a thread,
   and has it alone. *)
OwnInv ==
    /\ \A x \in Threads : job[x] # NoTask <=> thread[x] # "none"
    /\ \A x \in Threads : job[x] # NoTask =>
            job[x] \in used \ freed /\ own[job[x]] /\ inThread[job[x]]
    /\ \A x, y \in Threads : job[x] = job[y] /\ job[x] # NoTask => x = y

(* No task was executed in the future, so a repeated task never lapses. *)
TaskInv ==
    /\ \A t \in Tasks : t \notin used => why[t] = {}
    /\ \A t \in freed : why[t] # {}
    /\ \A t \in Tasks : repeat[t] > 0 => "lapsed" \notin why[t]
    /\ \A t \in Tasks : executed[t] <= clock

SInv == TypeOK /\ LoopInv /\ OwnInv /\ TaskInv

-----------------------------------------------------------------------------
(* a is s up to its i-th element, b is s after it, r is s without it *)
IsFront(a, s, i) == Len(a) = i - 1 /\ \A k \in 1 .. i - 1 : a[k] = s[k]
IsBack(b, s, i) == Len(b) = Len(s) - i /\ \A k \in 1 .. Len(s) - i : b[k] = s[k + i]
IsWithout(r, s, i) ==
    /\ Len(r) = Len(s) - 1
    /\ \A k \in 1 .. i - 1 : r[k] = s[k]
    /\ \A k \in i .. Len(s) - 1 : r[k] = s[k + 1]

(* What comes before and after an element makes the sequence without it. *)
LEMMA Spliced ==
    ASSUME NEW S, NEW s \in Seq(S), NEW i \in 1 .. Len(s), NEW a \in Seq(S), NEW b \in Seq(S),
           IsFront(a, s, i), IsBack(b, s, i)
    PROVE  a \o b \in Seq(S) /\ IsWithout(a \o b, s, i)
<1>1. PICK r : r = a \o b
  BY Zenon
<1>2. /\ r \in Seq(S) /\ Len(r) = Len(a) + Len(b)
      /\ \A k \in 1 .. Len(a) + Len(b) : r[k] = IF k <= Len(a) THEN a[k] ELSE b[k - Len(a)]
  BY <1>1, ConcatProperties, Zenon
<1>3. Len(s) \in Nat /\ Len(a) = i - 1 /\ Len(b) = Len(s) - i
  BY DEF IsFront, IsBack
<1>4. ASSUME NEW k \in i .. Len(s) - 1
      PROVE  r[k] = s[k + 1]
  <2>1. /\ k \in 1 .. Len(a) + Len(b) /\ ~(k <= Len(a))
        /\ k - Len(a) \in 1 .. Len(s) - i /\ k - Len(a) + i = k + 1
    BY <1>3
  <2> QED
    BY <1>2, <2>1, Zenon DEF IsBack
<1>5. ASSUME NEW k \in 1 .. i - 1
      PROVE  r[k] = s[k]
  <2>1. k \in 1 .. Len(a) + Len(b) /\ k <= Len(a)
    BY <1>3
  <2> QED
    BY <1>2, <2>1, Zenon DEF IsFront
<1>6. Len(a) + Len(b) = Len(s) - 1
  BY <1>3
<1>7. r \in Seq(S) /\ IsWithout(r, s, i)
  BY <1>2, <1>4, <1>5, <1>6, Zenon DEF IsWithout
<1> QED
  BY <1>1, <1>7, Zenon

(* The list when Reap has taken out the container it is at. *)
LEMMA Unlinked ==
    ASSUME NEW S, NEW s \in Seq(S), NEW i \in 1 .. Len(s)
    PROVE  /\ SubSeq(s, 1, i - 1) \o SubSeq(s, i + 1, Len(s)) \in Seq(S)
           /\ IsWithout(SubSeq(s, 1, i - 1) \o SubSeq(s, i + 1, Len(s)), s, i)
<1>1. SubSeq(s, 1, i - 1) \in Seq(S) /\ IsFront(SubSeq(s, 1, i - 1), s, i)
  BY DEF IsFront
<1>2. SubSeq(s, i + 1, Len(s)) \in Seq(S) /\ IsBack(SubSeq(s, i + 1, Len(s)), s, i)
  BY DEF IsBack
<1> QED
  BY <1>1, <1>2, Spliced, Zenon
-----------------------------------------------------------------------------
(* The two parts of TypeOK: the list and the containers on it, and the
   fields. *)
ListOK ==
    /\ list \in Seq(Tasks) /\ \A i, j \in 1 .. Len(list) : list[i] = list[j] => i = j
    /\ used \subseteq Tasks /\ freed \subseteq used
    /\ \A t \in Tasks : t \in used \ freed <=> \E i \in 1 .. Len(list) : list[i] = t

TimesOK ==
    /\ clock \in Epoch .. Epoch + Span /\ events \in 0 .. QueueSize /\ pos \in Nat
    /\ repeat \in [Tasks -> Nat] /\ runtime \in [Tasks -> Nat] /\ executed \in [Tasks -> Nat]
    /\ asked \in [Adders -> Nat]

FieldsOK ==
    /\ group \in [Tasks -> Groups \cup {NoGroup}]
    /\ own \in [Tasks -> BOOLEAN] /\ noDel \in [Tasks -> BOOLEAN]
    /\ inThread \in [Tasks -> BOOLEAN] /\ running \in [Tasks -> BOOLEAN]
    /\ why \in [Tasks -> SUBSET Reasons]
    /\ pc \in {"off", "scan", "run", "back", "gap", "reap", "pop", "drain", "ended"}
    /\ last \in BOOLEAN /\ taskRunning \in {"0", "1", "-1"}
    /\ thread \in [Threads -> {"none", "run", "back"}]
    /\ job \in [Threads -> Tasks \cup {NoTask}]
    /\ adder \in [Adders -> {"idle", "add", "report"}]
    /\ new \in [Adders -> Tasks \cup {NoTask}]

(* The type invariant in the three parts that steps disturb separately. *)
LEMMA TypeParts == TypeOK <=> ListOK /\ TimesOK /\ FieldsOK
  BY Zenon DEF TypeOK, ListOK, TimesOK, FieldsOK

(* The container the task thread is at is on the list. *)
LEMMA AtListed ==
    ASSUME ListOK, TimesOK, LoopInv, pos <= Len(list), pc \in {"scan", "reap", "run", "back"}
    PROVE  pos \in 1 .. Len(list) /\ list[pos] \in Tasks /\ list[pos] \in used \ freed
  BY DEF ListOK, TimesOK, LoopInv

(* Steps that leave alone what a part of the invariant is about. *)
LEMMA ListFrame ==
    ASSUME ListOK, UNCHANGED <<list, used, freed>>
    PROVE  ListOK'
  BY Zenon DEF ListOK

(* A step that leaves the task thread, the list and the running flags alone
   keeps what is known of the task thread. *)
LEMMA LoopFrame ==
    ASSUME LoopInv, UNCHANGED <<pc, pos, list, running, own>>
    PROVE  LoopInv'
  BY Zenon DEF LoopInv

(* A step that leaves the threads of tasks and in_thread alone keeps what is
   known of them. *)
LEMMA OwnFrame ==
    ASSUME OwnInv, UNCHANGED <<job, thread, used, freed, own, inThread>>
    PROVE  OwnInv'
  BY Zenon DEF OwnInv

(* A step that leaves the fields execute writes alone keeps what is known of
   repeated tasks. *)
LEMMA TaskFrame ==
    ASSUME TaskInv, UNCHANGED <<used, freed, why, repeat, executed, clock>>
    PROVE  TaskInv'
  BY Zenon DEF TaskInv

(* The rest of execute, whoever calls it. *)
LEMMA ExecutedKeeps ==
    ASSUME TimesOK, FieldsOK, TaskInv, ListOK, NEW t \in used, NEW when \in NewRuntimes(t),
           Executed(t, when), UNCHANGED <<clock, used, freed, repeat>>
    PROVE  /\ runtime' \in [Tasks -> Nat] /\ executed' \in [Tasks -> Nat]
           /\ events' \in 0 .. QueueSize /\ why' \in [Tasks -> SUBSET Reasons]
           /\ TaskInv'
<1>1. t \in Tasks
  BY DEF ListOK
<1>2. clock \in Nat /\ repeat[t] \in Nat /\ when \in Nat /\ executed[t] \in Nat /\ executed[t] <= clock
  BY <1>1, TimesAssumption DEF TimesOK, TaskInv, NewRuntimes
<1>3. runtime' \in [Tasks -> Nat]
  BY <1>1, <1>2 DEF TimesOK, Executed
<1>4. CASE runtime'[t] > executed[t]
  <2>1. /\ executed' = [executed EXCEPT ![t] = 0] /\ why' = why
        /\ events < QueueSize /\ events' = events + 1
    BY <1>4, Zenon DEF Executed, Pushed
  <2>2. executed' \in [Tasks -> Nat] /\ events' \in 0 .. QueueSize /\ \A u \in Tasks : executed'[u] <= clock
    BY <1>1, <1>2, <2>1, TimesAssumption DEF TimesOK, TaskInv
  <2> QED
    BY <1>3, <2>1, <2>2, Zenon DEF TaskInv, FieldsOK
<1>5. CASE ~(runtime'[t] > executed[t])
  <2>1. why' = [why EXCEPT ![t] = @ \cup {"lapsed"}] /\ executed' = executed /\ events' = events
    BY <1>5, Zenon DEF Executed
  <2>2. ~(repeat[t] > 0)
    BY <1>1, <1>2, <1>5 DEF Executed, TimesOK
  <2>3. why' \in [Tasks -> SUBSET Reasons]
    BY <1>1, <2>1 DEF FieldsOK, Reasons
  <2>4. TaskInv'
    BY <1>1, <2>1, <2>2 DEF TaskInv, FieldsOK
  <2> QED
    BY <1>3, <2>1, <2>3, <2>4 DEF TimesOK
<1> QED
  BY <1>4, <1>5

(* The invariant holds when the scheduler starts, with no task. *)
THEOREM InitInv == Init => SInv
<1> SUFFICES ASSUME Init PROVE SInv
  OBVIOUS
<1>1. TypeOK
  <2>1. /\ clock \in Epoch .. Epoch + Span /\ events \in 0 .. QueueSize
        /\ list \in Seq(Tasks) /\ Len(list) = 0 /\ pos \in Nat
        /\ repeat \in [Tasks -> Nat] /\ runtime \in [Tasks -> Nat] /\ executed \in [Tasks -> Nat]
        /\ asked \in [Adders -> Nat]
    BY TimesAssumption DEF Init
  <2>2. \A i \in 1 .. Len(list) : FALSE
    BY <2>1
  <2> QED
    BY <2>1, <2>2, Zenon DEF Init, TypeOK
<1>2. LoopInv
  BY DEF Init, LoopInv
<1>3. OwnInv
  BY DEF Init, OwnInv
<1>4. TaskInv
  BY TimesAssumption DEF Init, TaskInv
<1> QED
  BY <1>1, <1>2, <1>3, <1>4 DEF SInv

-----------------------------------------------------------------------------
(* Callers of add_task and of the deletions. *)

(* switch_scheduler_add_task puts a new container at the end of the list. *)
LEMMA AddTaskKeeps ==
    ASSUME ListOK, TimesOK, FieldsOK, LoopInv, OwnInv, TaskInv,
           NEW a \in Adders, NEW t \in Tasks, NEW g \in Groups, AddTask(a, t, g)
    PROVE  ListOK' /\ TimesOK' /\ FieldsOK' /\ LoopInv' /\ OwnInv' /\ TaskInv'
<1>1. /\ list' = Append(list, t) /\ used' = used \cup {t} /\ t \notin used
      /\ UNCHANGED <<clock, events, freed, executed, inThread, running, why, loopVars, ownVars, asked>>
  BY Zenon DEF AddTask
<1>2. /\ list' \in Seq(Tasks) /\ Len(list') = Len(list) + 1 /\ Len(list) \in Nat
      /\ \A i \in 1 .. Len(list) : list'[i] = list[i] /\ list[i] # t /\ list[i] \in Tasks
      /\ list'[Len(list) + 1] = t
  BY <1>1, AppendProperties DEF ListOK
<1>3. \A u \in Tasks : u # t => own'[u] = own[u] /\ repeat'[u] = repeat[u]
  BY DEF AddTask, FieldsOK, TimesOK
<1>4. ListOK'
  <2>1. \A i, j \in 1 .. Len(list') : list'[i] = list'[j] => i = j
    BY <1>2 DEF ListOK
  <2>2. \A u \in Tasks : u \in used' \ freed' <=> \E i \in 1 .. Len(list') : list'[i] = u
    BY <1>1, <1>2 DEF ListOK
  <2> QED
    BY <1>1, <1>2, <2>1, <2>2 DEF ListOK
<1>5. TimesOK'
  <2>1. asked[a] \in Nat /\ clock \in Nat
    BY TimesAssumption DEF TimesOK
  <2> QED
    BY <1>1, <2>1 DEF AddTask, loopVars, TimesOK
<1>6. FieldsOK'
  <2>1. own' \in [Tasks -> BOOLEAN] /\ noDel' \in [Tasks -> BOOLEAN]
    <3>1. PICK f \in Flags : /\ own' = [own EXCEPT ![t] = "OWN_THREAD" \in f]
                             /\ noDel' = [noDel EXCEPT ![t] = "NO_DEL" \in f]
      BY Zenon DEF AddTask
    <3>2. ("OWN_THREAD" \in f) \in BOOLEAN /\ ("NO_DEL" \in f) \in BOOLEAN
      OBVIOUS
    <3> QED
      BY <3>1, <3>2 DEF FieldsOK
  <2>2. /\ group' = [group EXCEPT ![t] = g] /\ adder' = [adder EXCEPT ![a] = "report"]
        /\ new' = [new EXCEPT ![a] = t]
    BY Zenon DEF AddTask
  <2> QED
    BY <1>1, <2>1, <2>2, Zenon DEF loopVars, ownVars, FieldsOK
<1>7. LoopInv'
  BY <1>1, <1>2, <1>3 DEF loopVars, LoopInv
<1>8. OwnInv'
  BY <1>1, <1>3, Zenon DEF ownVars, OwnInv, ListOK
<1>9. TaskInv'
  <2>1. why[t] = {}
    BY <1>1 DEF TaskInv
  <2> QED
    BY <1>1, <1>3, <2>1, Zenon DEF TaskInv
<1> QED
  BY <1>4, <1>5, <1>6, <1>7, <1>8, <1>9

(* del_task_id and del_task_group mark containers and free none. *)
LEMMA DeleteKeeps ==
    ASSUME ListOK, TimesOK, FieldsOK, LoopInv, OwnInv, TaskInv,
           NEW ts \in SUBSET Listed, Delete(ts)
    PROVE  ListOK' /\ TimesOK' /\ FieldsOK' /\ LoopInv' /\ OwnInv' /\ TaskInv'
<1>1. /\ UNCHANGED <<clock, list, events, used, freed, group, own, noDel, repeat, runtime, executed,
                     inThread, running, loopVars, ownVars, addVars>>
      /\ why' = [t \in Tasks |-> IF t \notin ts THEN why[t] ELSE why[t] \cup {"deleted"}]
  BY Zenon DEF Delete
<1>2. ListOK' /\ LoopInv' /\ OwnInv'
  BY <1>1, ListFrame, LoopFrame, OwnFrame, Zenon DEF loopVars, ownVars
<1>3. TimesOK'
  BY <1>1, Zenon DEF loopVars, addVars, TimesOK
<1>4. FieldsOK'
  <2>1. why' \in [Tasks -> SUBSET Reasons]
    BY <1>1 DEF FieldsOK, Reasons
  <2> QED
    BY <1>1, <2>1, Zenon DEF loopVars, ownVars, addVars, FieldsOK
<1>5. TaskInv'
  <2>1. ts \subseteq used /\ freed \subseteq Tasks
    BY DEF Listed, ListOK
  <2>2. \A t \in Tasks : /\ t \notin used => why'[t] = {}
                         /\ why[t] # {} => why'[t] # {}
                         /\ "lapsed" \notin why[t] => "lapsed" \notin why'[t]
    BY <1>1, <2>1 DEF TaskInv
  <2> QED
    BY <1>1, <2>1, <2>2, Zenon DEF TaskInv
<1> QED
  BY <1>2, <1>3, <1>4, <1>5

-----------------------------------------------------------------------------
(* Threads of tasks. *)

(* The function of a task returns in its own thread. *)
LEMMA OwnReturnsKeeps ==
    ASSUME ListOK, TimesOK, FieldsOK, LoopInv, OwnInv, TaskInv, NEW x \in Threads, OwnReturns(x)
    PROVE  ListOK' /\ TimesOK' /\ FieldsOK' /\ LoopInv' /\ OwnInv' /\ TaskInv'
<1>1. /\ thread[x] = "run" /\ thread' = [thread EXCEPT ![x] = "back"]
      /\ UNCHANGED <<clock, list, used, freed, group, own, noDel, repeat, inThread, running,
                     loopVars, job, addVars>>
  BY Zenon DEF OwnReturns
<1>2. job[x] \in used
  BY <1>1 DEF OwnInv
<1>3. PICK when \in NewRuntimes(job[x]) : Executed(job[x], when)
  BY Zenon DEF OwnReturns
<1>4. /\ runtime' \in [Tasks -> Nat] /\ executed' \in [Tasks -> Nat]
      /\ events' \in 0 .. QueueSize /\ why' \in [Tasks -> SUBSET Reasons]
      /\ TaskInv'
  BY <1>1, <1>2, <1>3, ExecutedKeeps, Zenon
<1>5. ListOK' /\ LoopInv'
  BY <1>1, ListFrame, LoopFrame, Zenon DEF loopVars
<1>6. TimesOK'
  BY <1>1, <1>4, Zenon DEF loopVars, addVars, TimesOK
<1>7. FieldsOK'
  BY <1>1, <1>4, Zenon DEF loopVars, addVars, FieldsOK
<1>8. OwnInv'
  BY <1>1 DEF OwnInv, FieldsOK
<1> QED
  BY <1>4, <1>5, <1>6, <1>7, <1>8

(* task_own_thread clears in_thread, its last use of the container. *)
LEMMA OwnEndsKeeps ==
    ASSUME ListOK, TimesOK, FieldsOK, LoopInv, OwnInv, TaskInv, NEW x \in Threads, OwnEnds(x)
    PROVE  ListOK' /\ TimesOK' /\ FieldsOK' /\ LoopInv' /\ OwnInv' /\ TaskInv'
<1>1. /\ thread[x] = "back" /\ thread' = [thread EXCEPT ![x] = "none"]
      /\ job' = [job EXCEPT ![x] = NoTask] /\ inThread' = [inThread EXCEPT ![job[x]] = FALSE]
      /\ UNCHANGED <<clock, list, events, used, freed, group, own, noDel, repeat, runtime, executed,
                     running, why, loopVars, addVars>>
  BY Zenon DEF OwnEnds
<1>2. ListOK' /\ LoopInv' /\ TaskInv'
  BY <1>1, ListFrame, LoopFrame, TaskFrame, Zenon DEF loopVars
<1>3. TimesOK'
  BY <1>1, Zenon DEF loopVars, addVars, TimesOK
<1>4. FieldsOK'
  BY <1>1, Zenon DEF loopVars, addVars, FieldsOK
<1>5. OwnInv'
  <2>1. \A y \in Threads : y # x => job'[y] = job[y] /\ thread'[y] = thread[y]
    BY <1>1 DEF FieldsOK
  <2>2. job'[x] = NoTask /\ thread'[x] = "none"
    BY <1>1 DEF FieldsOK
  <2>3. \A t \in Tasks : t # job[x] => inThread'[t] = inThread[t]
    BY <1>1 DEF FieldsOK
  <2>4. job[x] # NoTask
    BY <1>1 DEF OwnInv
  <2>5. \A y \in Threads : job'[y] # NoTask => y # x /\ job[y] # NoTask /\ job[y] # job[x]
    BY <2>1, <2>2, <2>4, Zenon DEF OwnInv
  <2>6. \A y \in Threads : job'[y] # NoTask =>
            job'[y] \in used \ freed /\ own[job'[y]] /\ inThread'[job'[y]]
    BY <2>1, <2>3, <2>5, Zenon DEF OwnInv, ListOK
  <2>7. \A y \in Threads : job'[y] # NoTask <=> thread'[y] # "none"
    BY <2>1, <2>2, Zenon DEF OwnInv
  <2>8. \A y, z \in Threads : job'[y] = job'[z] /\ job'[y] # NoTask => y = z
    BY <2>1, <2>5, Zenon DEF OwnInv
  <2> QED
    BY <1>1, <2>6, <2>7, <2>8, Zenon DEF OwnInv
<1> QED
  BY <1>2, <1>3, <1>4, <1>5

-----------------------------------------------------------------------------
(* The task thread. *)

(* The scan or the reap comes by a container, or goes from one place to the
   next. *)
LEMMA ScanPassKeeps ==
    ASSUME ListOK, TimesOK, FieldsOK, LoopInv, OwnInv, TaskInv, ScanPass
    PROVE  ListOK' /\ TimesOK' /\ FieldsOK' /\ LoopInv' /\ OwnInv' /\ TaskInv'
<1>1. /\ pc = "scan" /\ pos <= Len(list) /\ pos' = pos + 1
      /\ why' = IF last THEN [why EXCEPT ![list[pos]] = @ \cup {"stopped"}] ELSE why
      /\ UNCHANGED <<clock, list, events, used, freed, group, own, noDel, repeat, runtime, executed,
                     inThread, running, pc, last, taskRunning, ownVars, addVars>>
  BY Zenon DEF ScanPass
<1>2. pos \in 1 .. Len(list) /\ list[pos] \in Tasks /\ list[pos] \in used \ freed
  BY <1>1, AtListed
<1>3. ListOK' /\ OwnInv'
  BY <1>1, ListFrame, OwnFrame, Zenon DEF ownVars
<1>4. TimesOK' /\ LoopInv'
  BY <1>1 DEF addVars, TimesOK, LoopInv
<1>5. FieldsOK'
  <2>1. why' \in [Tasks -> SUBSET Reasons]
    BY <1>1, <1>2 DEF FieldsOK, Reasons
  <2> QED
    BY <1>1, <2>1, Zenon DEF ownVars, addVars, FieldsOK
<1>6. TaskInv'
  <2>1. \A t \in Tasks : /\ t \notin used => why'[t] = {}
                         /\ why[t] # {} => why'[t] # {}
                         /\ "lapsed" \notin why[t] => "lapsed" \notin why'[t]
    BY <1>1, <1>2 DEF TaskInv, FieldsOK
  <2> QED
    BY <1>1, <2>1, Zenon DEF TaskInv, ListOK
<1> QED
  BY <1>3, <1>4, <1>5, <1>6

(* task_thread_loop starts a thread for a task that is due and has none. *)
LEMMA ScanThreadKeeps ==
    ASSUME ListOK, TimesOK, FieldsOK, LoopInv, OwnInv, TaskInv, ScanThread
    PROVE  ListOK' /\ TimesOK' /\ FieldsOK' /\ LoopInv' /\ OwnInv' /\ TaskInv'
<1> DEFINE t == list[pos]
<1>1. /\ pc = "scan" /\ pos <= Len(list) /\ ~inThread[t] /\ own[t] /\ pos' = pos + 1
      /\ executed' = [executed EXCEPT ![t] = clock] /\ inThread' = [inThread EXCEPT ![t] = TRUE]
      /\ UNCHANGED <<clock, list, events, used, freed, group, own, noDel, repeat, runtime, running,
                     why, pc, last, taskRunning, addVars>>
  BY Zenon DEF ScanThread, Due
<1>2. pos \in 1 .. Len(list) /\ t \in Tasks /\ t \in used \ freed
  BY <1>1, AtListed
<1> HIDE DEF t
<1>3. ListOK'
  BY <1>1, ListFrame, Zenon
<1>4. TimesOK'
  BY <1>1, <1>2, TimesAssumption DEF addVars, TimesOK
<1>5. LoopInv'
  BY <1>1 DEF TimesOK, LoopInv
<1>6. TaskInv'
  <2>1. \A u \in Tasks : executed'[u] <= clock
    BY <1>1, <1>2, TimesAssumption DEF TaskInv, TimesOK
  <2> QED
    BY <1>1, <2>1, Zenon DEF TaskInv
<1>7. inThread' \in [Tasks -> BOOLEAN] /\ inThread'[t] /\ \A u \in Tasks : u # t => inThread'[u] = inThread[u]
  BY <1>1, <1>2 DEF FieldsOK
<1>8. CASE UNCHANGED ownVars
  <2>1. FieldsOK'
    BY <1>1, <1>7, <1>8, Zenon DEF ownVars, addVars, FieldsOK
  <2>2. OwnInv'
    BY <1>1, <1>2, <1>7, <1>8, Zenon DEF ownVars, OwnInv, ListOK
  <2> QED
    BY <1>3, <1>4, <1>5, <1>6, <2>1, <2>2
<1>9. ASSUME NEW x \in Threads, thread[x] = "none",
             thread' = [thread EXCEPT ![x] = "run"], job' = [job EXCEPT ![x] = t]
      PROVE  FieldsOK' /\ OwnInv'
  <2>1. FieldsOK'
    BY <1>1, <1>2, <1>7, <1>9, Zenon DEF addVars, FieldsOK
  <2>2. /\ job'[x] = t /\ thread'[x] = "run" /\ t # NoTask
        /\ \A y \in Threads : y # x => job'[y] = job[y] /\ thread'[y] = thread[y]
    BY <1>2, <1>9, NoTaskAssumption DEF FieldsOK
  <2>3. \A y \in Threads : job[y] # t
    BY <1>1, <1>2, NoTaskAssumption, Zenon DEF OwnInv
  <2>4. \A y \in Threads : job'[y] # NoTask <=> thread'[y] # "none"
    BY <2>2 DEF OwnInv
  <2>5. \A y \in Threads : job'[y] # NoTask =>
            job'[y] \in used \ freed /\ own[job'[y]] /\ inThread'[job'[y]]
    BY <1>1, <1>2, <1>7, <2>2, <2>3, Zenon DEF OwnInv, ListOK
  <2>6. \A y, z \in Threads : job'[y] = job'[z] /\ job'[y] # NoTask => y = z
    <3> SUFFICES ASSUME NEW y \in Threads, NEW z \in Threads, job'[y] = job'[z], job'[y] # NoTask
                 PROVE  y = z
      OBVIOUS
    <3>1. CASE y # x /\ z # x
      <4>1. job[y] = job[z] /\ job[y] # NoTask
        BY <2>2, <3>1
      <4> QED
        BY <4>1, Zenon DEF OwnInv
    <3>2. CASE y = x \/ z = x
      BY <2>2, <2>3, <3>2, Zenon
    <3> QED
      BY <3>1, <3>2
  <2> QED
    BY <1>1, <2>1, <2>4, <2>5, <2>6, Zenon DEF OwnInv
<1> QED
  BY <1>3, <1>4, <1>5, <1>6, <1>8, <1>9, Zenon DEF ScanThread, t

(* task_thread_loop begins to run a task itself, without task_mutex. *)
LEMMA ScanRunKeeps ==
    ASSUME ListOK, TimesOK, FieldsOK, LoopInv, OwnInv, TaskInv, ScanRun
    PROVE  ListOK' /\ TimesOK' /\ FieldsOK' /\ LoopInv' /\ OwnInv' /\ TaskInv'
<1> DEFINE t == list[pos]
<1>1. /\ pc = "scan" /\ pos <= Len(list) /\ ~own[t] /\ pc' = "run"
      /\ executed' = [executed EXCEPT ![t] = clock] /\ running' = [running EXCEPT ![t] = TRUE]
      /\ UNCHANGED <<clock, list, events, used, freed, group, own, noDel, repeat, runtime, inThread,
                     why, pos, last, taskRunning, ownVars, addVars>>
  BY Zenon DEF ScanRun
<1>2. pos \in 1 .. Len(list) /\ t \in Tasks
  BY <1>1, AtListed
<1>3. ListOK' /\ OwnInv'
  BY <1>1, ListFrame, OwnFrame, Zenon DEF ownVars
<1>4. running' \in [Tasks -> BOOLEAN] /\ running'[t]
  BY <1>1, <1>2 DEF FieldsOK
<1>5. LoopInv'
  BY <1>1, <1>2, <1>4, Zenon DEF LoopInv
<1> HIDE DEF t
<1>6. TimesOK' /\ TaskInv'
  <2>1. executed' \in [Tasks -> Nat] /\ \A u \in Tasks : executed'[u] <= clock
    BY <1>1, <1>2, TimesAssumption DEF TaskInv, TimesOK
  <2> QED
    BY <1>1, <2>1, Zenon DEF addVars, TimesOK, TaskInv
<1>7. FieldsOK'
  BY <1>1, <1>4, Zenon DEF ownVars, addVars, FieldsOK
<1> QED
  BY <1>3, <1>5, <1>6, <1>7

(* The function of a task returns on the task thread. *)
LEMMA RunReturnsKeeps ==
    ASSUME ListOK, TimesOK, FieldsOK, LoopInv, OwnInv, TaskInv, RunReturns
    PROVE  ListOK' /\ TimesOK' /\ FieldsOK' /\ LoopInv' /\ OwnInv' /\ TaskInv'
<1>1. /\ pc = "run" /\ pc' = "back"
      /\ UNCHANGED <<clock, list, used, freed, group, own, noDel, repeat, inThread, running,
                     pos, last, taskRunning, ownVars, addVars>>
  BY Zenon DEF RunReturns
<1>2. pos <= Len(list)
  BY <1>1 DEF LoopInv
<1>3. list[pos] \in used
  BY <1>1, <1>2, AtListed
<1>4. PICK when \in NewRuntimes(list[pos]) : Executed(list[pos], when)
  BY Zenon DEF RunReturns
<1>5. /\ runtime' \in [Tasks -> Nat] /\ executed' \in [Tasks -> Nat]
      /\ events' \in 0 .. QueueSize /\ why' \in [Tasks -> SUBSET Reasons]
      /\ TaskInv'
  BY <1>1, <1>3, <1>4, ExecutedKeeps, Zenon
<1>6. ListOK' /\ OwnInv'
  BY <1>1, ListFrame, OwnFrame, Zenon DEF ownVars
<1>7. LoopInv'
  BY <1>1, Zenon DEF LoopInv
<1>8. TimesOK'
  BY <1>1, <1>5, Zenon DEF addVars, TimesOK
<1>9. FieldsOK'
  BY <1>1, <1>5, Zenon DEF ownVars, addVars, FieldsOK
<1> QED
  BY <1>5, <1>6, <1>7, <1>8, <1>9

(* The task thread has task_mutex back and goes on with its scan. *)
LEMMA RunEndsKeeps ==
    ASSUME ListOK, TimesOK, FieldsOK, LoopInv, OwnInv, TaskInv, RunEnds
    PROVE  ListOK' /\ TimesOK' /\ FieldsOK' /\ LoopInv' /\ OwnInv' /\ TaskInv'
<1>1. /\ pc = "back" /\ pc' = "scan" /\ pos' = pos + 1
      /\ running' = [running EXCEPT ![list[pos]] = FALSE]
      /\ UNCHANGED <<clock, list, events, used, freed, group, own, noDel, repeat, runtime, executed,
                     inThread, why, last, taskRunning, ownVars, addVars>>
  BY Zenon DEF RunEnds
<1>2. ListOK' /\ OwnInv' /\ TaskInv'
  BY <1>1, ListFrame, OwnFrame, TaskFrame, Zenon DEF ownVars
<1>3. TimesOK' /\ LoopInv'
  BY <1>1 DEF addVars, TimesOK, LoopInv
<1>4. FieldsOK'
  BY <1>1, Zenon DEF ownVars, addVars, FieldsOK
<1> QED
  BY <1>2, <1>3, <1>4

(* The second pass frees a container that is destroyed and has no thread. *)
LEMMA ReapKeeps ==
    ASSUME ListOK, TimesOK, FieldsOK, LoopInv, OwnInv, TaskInv, Reap
    PROVE  ListOK' /\ TimesOK' /\ FieldsOK' /\ LoopInv' /\ OwnInv' /\ TaskInv'
<1> DEFINE t == list[pos]
<1>1. /\ pc = "reap" /\ pos <= Len(list) /\ why[t] # {} /\ ~inThread[t]
      /\ events < QueueSize /\ events' = events + 1
      /\ freed' = freed \cup {t} /\ group' = [group EXCEPT ![t] = NoGroup]
      /\ own' = [own EXCEPT ![t] = FALSE] /\ noDel' = [noDel EXCEPT ![t] = FALSE]
      /\ runtime' = [runtime EXCEPT ![t] = 0] /\ executed' = [executed EXCEPT ![t] = 0]
      /\ UNCHANGED <<clock, used, repeat, inThread, running, why, loopVars, ownVars, addVars>>
  BY Zenon DEF Reap, Garbage, Pushed, Free
<1>2. pos \in 1 .. Len(list) /\ t \in Tasks /\ t \in used \ freed
  BY <1>1, AtListed
<1>3. list \in Seq(Tasks) /\ list' = SubSeq(list, 1, pos - 1) \o SubSeq(list, pos + 1, Len(list))
  BY Zenon DEF Reap, ListOK
<1>4. list' \in Seq(Tasks) /\ IsWithout(list', list, pos)
  BY <1>2, <1>3, Unlinked, Zenon
<1>5. ListOK'
  <2>1. /\ Len(list) \in Nat /\ Len(list') = Len(list) - 1
        /\ \A k \in 1 .. pos - 1 : list'[k] = list[k]
        /\ \A k \in pos .. Len(list) - 1 : list'[k] = list[k + 1]
    <3>1. Len(list) \in Nat
      BY DEF ListOK
    <3> QED
      BY <1>4, <3>1, Zenon DEF IsWithout
  <2> DEFINE old(k) == IF k < pos THEN k ELSE k + 1
  <2>2. \A k \in 1 .. Len(list') : /\ old(k) \in 1 .. Len(list) /\ old(k) # pos
                                   /\ list'[k] = list[old(k)]
    BY <1>2, <2>1
  <2>3. \A i, j \in 1 .. Len(list') : old(i) = old(j) => i = j
    BY <1>2, <2>1
  <2>4. \A m \in 1 .. Len(list) : m # pos => \E k \in 1 .. Len(list') : old(k) = m
    <3> SUFFICES ASSUME NEW m \in 1 .. Len(list), m # pos
                 PROVE  \E k \in 1 .. Len(list') : old(k) = m
      OBVIOUS
    <3>1. CASE m < pos
      <4>1. m \in 1 .. Len(list') /\ old(m) = m
        BY <1>2, <2>1, <3>1
      <4> QED
        BY <4>1
    <3>2. CASE m > pos
      <4>1. m - 1 \in 1 .. Len(list') /\ old(m - 1) = m
        BY <1>2, <2>1, <3>2
      <4> QED
        BY <4>1
    <3> QED
      BY <1>2, <3>1, <3>2
  <2> HIDE DEF old
  <2>5. \A i, j \in 1 .. Len(list') : list'[i] = list'[j] => i = j
    <3> SUFFICES ASSUME NEW i \in 1 .. Len(list'), NEW j \in 1 .. Len(list'), list'[i] = list'[j]
                 PROVE  i = j
      OBVIOUS
    <3>1. old(i) \in 1 .. Len(list) /\ old(j) \in 1 .. Len(list) /\ list[old(i)] = list[old(j)]
      BY <2>2
    <3>2. old(i) = old(j)
      BY <3>1, Zenon DEF ListOK
    <3> QED
      BY <2>3, <3>2, Zenon
  <2>6. \A k \in 1 .. Len(list') : list'[k] # t
    <3> SUFFICES ASSUME NEW k \in 1 .. Len(list'), list'[k] = list[pos]
                 PROVE  FALSE
      OBVIOUS
    <3>1. old(k) \in 1 .. Len(list) /\ old(k) # pos /\ list[old(k)] = list[pos]
      BY <2>2
    <3> QED
      BY <1>2, <3>1, Zenon DEF ListOK
  <2>7. ASSUME NEW u \in Tasks
        PROVE  u \in used' \ freed' <=> \E i \in 1 .. Len(list') : list'[i] = u
    <3>1. CASE u = t
      BY <1>1, <2>6, <3>1, Zenon
    <3>2. CASE u # t
      <4>1. u \in used' \ freed' <=> u \in used \ freed
        BY <1>1, <3>2, Zenon
      <4>2. ASSUME NEW m \in 1 .. Len(list), list[m] = u
            PROVE  \E i \in 1 .. Len(list') : list'[i] = u
        BY <2>2, <2>4, <3>2, <4>2, Zenon
      <4>3. ASSUME NEW i \in 1 .. Len(list'), list'[i] = u
            PROVE  \E m \in 1 .. Len(list) : list[m] = u
        BY <2>2, <4>3, Zenon
      <4> QED
        BY <4>1, <4>2, <4>3, Zenon DEF ListOK
    <3> QED
      BY <3>1, <3>2
  <2> QED
    BY <1>1, <1>2, <1>4, <2>5, <2>7, Zenon DEF ListOK
<1> HIDE DEF t
<1>6. TimesOK'
  BY <1>1, <1>2, TimesAssumption DEF loopVars, addVars, TimesOK
<1>7. FieldsOK'
  BY <1>1, <1>2, Zenon DEF loopVars, ownVars, addVars, FieldsOK
<1>8. LoopInv'
  BY <1>1, Zenon DEF loopVars, LoopInv
<1>9. OwnInv'
  <2>1. \A u \in Tasks : u # t => own'[u] = own[u]
    BY <1>1, <1>2 DEF FieldsOK
  <2>2. \A x \in Threads : job[x] # NoTask => job[x] # t /\ job[x] \in Tasks
    <3> SUFFICES ASSUME NEW x \in Threads, job[x] # NoTask
                 PROVE  job[x] # t /\ job[x] \in Tasks
      OBVIOUS
    <3>1. job[x] \in used /\ inThread[job[x]]
      BY Zenon DEF OwnInv
    <3> QED
      BY <1>1, <3>1, Zenon DEF ListOK
  <2> QED
    BY <1>1, <2>1, <2>2, ZenonT(30) DEF ownVars, OwnInv
<1>10. TaskInv'
  <2>1. \A u \in Tasks : executed'[u] <= clock
    BY <1>1, <1>2, TimesAssumption DEF TaskInv, TimesOK
  <2> QED
    BY <1>1, <2>1, Zenon DEF TaskInv
<1> QED
  BY <1>5, <1>6, <1>7, <1>8, <1>9, <1>10

(* The steps of the task thread that change no container. *)
LEMMA MoveKeeps ==
    ASSUME ListOK, TimesOK, FieldsOK, LoopInv, OwnInv, TaskInv,
           Start \/ ScanEnds \/ ReapStarts \/ ReapPass \/ ReapEnds \/ Pop \/ Drain \/ Stop
    PROVE  ListOK' /\ TimesOK' /\ FieldsOK' /\ LoopInv' /\ OwnInv' /\ TaskInv'
<1>1. UNCHANGED <<clock, list, used, freed, taskVars, ownVars, addVars>>
  BY Zenon DEF Start, ScanEnds, ReapStarts, ReapPass, ReapEnds, Pop, Drain, Stop
<1>2. events' \in 0 .. QueueSize
  <2>1. UNCHANGED events \/ Pop \/ events' = 0
    BY Zenon DEF Start, ScanEnds, ReapStarts, ReapPass, ReapEnds, Drain, Stop
  <2> QED
    BY <2>1, TimesAssumption DEF Pop, TimesOK
<1>3. /\ pos' \in Nat
      /\ \/ /\ pc' \in {"scan", "gap", "reap", "pop", "drain", "ended"}
            /\ pc' \in {"scan", "reap"} => pos' >= 1
         \/ UNCHANGED <<pc, pos>>
  <2>1. CASE Start \/ ReapStarts \/ Pop
    BY <2>1 DEF Start, ReapStarts, Pop
  <2>2. CASE ScanEnds \/ ReapEnds
    BY <2>2 DEF ScanEnds, ReapEnds
  <2>3. CASE ReapPass
    BY <2>3 DEF ReapPass, LoopInv, TimesOK
  <2>4. CASE Drain
    BY <2>4 DEF Drain, TimesOK
  <2>5. CASE Stop
    BY <2>5 DEF Stop, TimesOK
  <2> QED
    BY <2>1, <2>2, <2>3, <2>4, <2>5
<1>4. pc' \in {"off", "scan", "run", "back", "gap", "reap", "pop", "drain", "ended"}
  BY <1>3, Zenon DEF FieldsOK
<1>5. last' \in BOOLEAN /\ taskRunning' \in {"0", "1", "-1"}
  BY Zenon DEF Start, ScanEnds, ReapStarts, ReapPass, ReapEnds, Pop, Drain, Stop, loopVars, FieldsOK
<1>6. ListOK' /\ OwnInv' /\ TaskInv'
  BY <1>1, ListFrame, OwnFrame, TaskFrame, Zenon DEF taskVars, ownVars
<1>7. TimesOK'
  BY <1>1, <1>2, <1>3, Zenon DEF taskVars, addVars, TimesOK
<1>8. FieldsOK'
  BY <1>1, <1>4, <1>5, Zenon DEF taskVars, ownVars, addVars, FieldsOK
<1>9. LoopInv'
  BY <1>1, <1>3 DEF taskVars, LoopInv
<1> QED
  BY <1>6, <1>7, <1>8, <1>9

(* The clock goes on; no time that was stored changes. *)
LEMMA TickKeeps ==
    ASSUME ListOK, TimesOK, FieldsOK, LoopInv, OwnInv, TaskInv, Tick
    PROVE  ListOK' /\ TimesOK' /\ FieldsOK' /\ LoopInv' /\ OwnInv' /\ TaskInv'
<1>1. /\ clock < Epoch + Span /\ clock' = clock + 1
      /\ UNCHANGED <<list, events, used, freed, taskVars, loopVars, ownVars, addVars>>
  BY Zenon DEF Tick
<1>2. ListOK' /\ LoopInv' /\ OwnInv'
  BY <1>1, ListFrame, LoopFrame, OwnFrame, Zenon DEF taskVars, loopVars, ownVars
<1>3. FieldsOK'
  BY <1>1, Zenon DEF taskVars, loopVars, ownVars, addVars, FieldsOK
<1>4. TimesOK'
  BY <1>1, TimesAssumption DEF taskVars, loopVars, addVars, TimesOK
<1>5. \A t \in Tasks : executed[t] <= clock'
  BY <1>1, TimesAssumption DEF TaskInv, TimesOK
<1>6. TaskInv'
  BY <1>1, <1>5, Zenon DEF taskVars, TaskInv
<1> QED
  BY <1>2, <1>3, <1>4, <1>6

(* The steps of add_task outside of task_mutex. *)
LEMMA CallKeeps ==
    ASSUME ListOK, TimesOK, FieldsOK, LoopInv, OwnInv, TaskInv, NEW a \in Adders,
           AddReport(a) \/ \E when \in {clock + d : d \in Delays} \cup Repeats : AddCall(a, when)
    PROVE  ListOK' /\ TimesOK' /\ FieldsOK' /\ LoopInv' /\ OwnInv' /\ TaskInv'
<1>1. UNCHANGED <<clock, list, used, freed, taskVars, loopVars, ownVars>>
  BY Zenon DEF AddReport, AddCall
<1>2. ListOK' /\ LoopInv' /\ OwnInv' /\ TaskInv'
  BY <1>1, ListFrame, LoopFrame, OwnFrame, TaskFrame, Zenon DEF taskVars, loopVars, ownVars
<1>3. adder' \in [Adders -> {"idle", "add", "report"}] /\ new' \in [Adders -> Tasks \cup {NoTask}]
  BY DEF AddReport, AddCall, FieldsOK
<1>4. FieldsOK'
  BY <1>1, <1>3, Zenon DEF taskVars, loopVars, ownVars, FieldsOK
<1>5. asked' \in [Adders -> Nat] /\ events' \in 0 .. QueueSize
  <2>1. CASE AddReport(a)
    BY <2>1, TimesAssumption DEF AddReport, Pushed, TimesOK
  <2>2. ASSUME NEW when \in {clock + d : d \in Delays} \cup Repeats, AddCall(a, when)
        PROVE  asked' \in [Adders -> Nat] /\ events' \in 0 .. QueueSize
    <3>1. Epoch \in Nat /\ Span \in Nat /\ Delays \subseteq Nat /\ Repeats \subseteq Nat
      BY TimesAssumption
    <3>2. clock \in Nat
      BY <3>1 DEF TimesOK
    <3>3. when \in Repeats \/ \E d \in Delays : when = clock + d
      BY Zenon
    <3>4. \A d \in Delays : clock + d \in Nat
      BY <3>1, <3>2
    <3>5. when \in Nat
      BY <3>1, <3>3, <3>4, Zenon
    <3> QED
      BY <2>2, <3>5 DEF AddCall, TimesOK
  <2> QED
    BY <2>1, <2>2
<1>6. TimesOK'
  BY <1>1, <1>5, Zenon DEF taskVars, loopVars, TimesOK
<1> QED
  BY <1>2, <1>4, <1>6

(* Every step keeps the invariant. *)
THEOREM StepInv == SInv /\ [Next]_vars => SInv'
<1> SUFFICES ASSUME SInv, [Next]_vars PROVE SInv'
  OBVIOUS
<1>1. ListOK /\ TimesOK /\ FieldsOK /\ LoopInv /\ OwnInv /\ TaskInv
  BY TypeParts, Zenon DEF SInv
<1>2. SUFFICES ListOK' /\ TimesOK' /\ FieldsOK' /\ LoopInv' /\ OwnInv' /\ TaskInv'
  <2>1. TypeOK' <=> ListOK' /\ TimesOK' /\ FieldsOK'
    BY TypeParts, PTL
  <2> QED
    BY <1>2, <2>1 DEF SInv
<1>3. CASE Tick
  BY <1>1, <1>3, TickKeeps, Zenon
<1>4. CASE Start \/ ScanEnds \/ ReapStarts \/ ReapPass \/ ReapEnds \/ Pop \/ Drain \/ Stop
  BY <1>1, <1>4, MoveKeeps, Zenon
<1>5. CASE ScanPass
  BY <1>1, <1>5, ScanPassKeeps, Zenon
<1>6. CASE ScanThread
  BY <1>1, <1>6, ScanThreadKeeps, Zenon
<1>7. CASE ScanRun
  BY <1>1, <1>7, ScanRunKeeps, Zenon
<1>8. CASE RunReturns
  BY <1>1, <1>8, RunReturnsKeeps, Zenon
<1>9. CASE RunEnds
  BY <1>1, <1>9, RunEndsKeeps, Zenon
<1>10. CASE Reap
  BY <1>1, <1>10, ReapKeeps, Zenon
<1>11. ASSUME NEW x \in Threads, OwnStep(x)
       PROVE  ListOK' /\ TimesOK' /\ FieldsOK' /\ LoopInv' /\ OwnInv' /\ TaskInv'
  BY <1>1, <1>11, OwnReturnsKeeps, OwnEndsKeeps, Zenon DEF OwnStep
<1>12. ASSUME NEW a \in Adders,
              AddStep(a) \/ \E when \in {clock + d : d \in Delays} \cup Repeats : AddCall(a, when)
       PROVE  ListOK' /\ TimesOK' /\ FieldsOK' /\ LoopInv' /\ OwnInv' /\ TaskInv'
  <2>1. CASE \E t \in Tasks, g \in Groups : AddTask(a, t, g)
    BY <1>1, <2>1, AddTaskKeeps, Zenon
  <2>2. CASE AddReport(a) \/ \E when \in {clock + d : d \in Delays} \cup Repeats : AddCall(a, when)
    BY <1>1, <2>2, CallKeeps, Zenon
  <2> QED
    BY <1>12, <2>1, <2>2, Zenon DEF AddStep
<1>13. ASSUME NEW t \in Tasks, DeleteId(t)
       PROVE  ListOK' /\ TimesOK' /\ FieldsOK' /\ LoopInv' /\ OwnInv' /\ TaskInv'
  <2>1. {t} \in SUBSET Listed /\ Delete({t})
    BY <1>13, Zenon DEF DeleteId
  <2> QED
    BY <1>1, <2>1, DeleteKeeps, Zenon
<1>14. ASSUME NEW g \in Groups, DeleteGroup(g)
       PROVE  ListOK' /\ TimesOK' /\ FieldsOK' /\ LoopInv' /\ OwnInv' /\ TaskInv'
  <2> DEFINE ts == {t \in Listed : why[t] = {} /\ group[t] = g /\ ~noDel[t]}
  <2>1. ts \in SUBSET Listed /\ Delete(ts)
    BY <1>14, Zenon DEF DeleteGroup
  <2> HIDE DEF ts
  <2> QED
    BY <1>1, <2>1, DeleteKeeps, Zenon
<1>15. CASE UNCHANGED vars
  BY <1>1, <1>15, ListFrame, LoopFrame, OwnFrame, TaskFrame, Zenon
     DEF vars, taskVars, loopVars, ownVars, addVars, TimesOK, FieldsOK
<1> QED
  BY <1>3, <1>4, <1>5, <1>6, <1>7, <1>8, <1>9, <1>10, <1>11, <1>12, <1>13, <1>14, <1>15, Zenon
     DEF Next, LoopStep

(* The invariant holds in every state of the scheduler. *)
THEOREM Invariance == Spec => []SInv
  BY InitInv, StepInv, PTL DEF Spec

-----------------------------------------------------------------------------
(* The types hold, and the list has exactly the containers that were
   allocated and not freed, each once. *)
THEOREM TypesHold == Spec => []TypeOK
  BY Invariance, PTL DEF SInv

(* No task is run twice at the same time: the task thread runs the tasks
   without SSHF_OWN_THREAD only, and in_thread keeps it from starting a second
   thread. *)
THEOREM NeverOverlaps == Spec => []NoOverlap
<1>1. SInv => NoOverlap
  <2> SUFFICES ASSUME SInv PROVE NoOverlap
    OBVIOUS
  <2>1. ASSUME NEW x \in Threads, pc \in {"run", "back"}, job[x] = list[pos]
        PROVE  FALSE
    <3>1. job[x] \in Tasks /\ ~own[job[x]]
      BY <2>1, SMTT(30) DEF SInv, LoopInv, TypeOK
    <3>2. job[x] # NoTask
      BY <3>1, NoTaskAssumption, Zenon
    <3> QED
      BY <3>1, <3>2, Zenon DEF SInv, OwnInv
  <2> QED
    BY <2>1, Zenon DEF SInv, OwnInv, NoOverlap
<1> QED
  BY <1>1, Invariance, PTL

(* Whoever runs a task has it until they are done: the reaper passes over a
   container with in_thread set, and does not run while the task thread is in
   a callback. *)
THEOREM NeverFreedInUse == Spec => []RunsAlive
<1>1. SInv => RunsAlive
  BY DEF SInv, OwnInv, LoopInv, RunsAlive, TypeOK
<1> QED
  BY <1>1, Invariance, PTL

(* A repeated task is freed only after a deletion or the stop: execute always
   gives it a runtime after the one it was executed at. *)
THEOREM RepeatsNeverLapse == Spec => []RepeatsGoOn
<1>1. SInv => RepeatsGoOn
  <2> SUFFICES ASSUME SInv, NEW t \in freed, repeat[t] > 0
               PROVE  why[t] \cap {"deleted", "stopped"} # {}
    BY Zenon DEF RepeatsGoOn
  <2>1. t \in Tasks /\ why[t] # {} /\ "lapsed" \notin why[t] /\ why[t] \subseteq Reasons
    BY DEF SInv, TypeOK, TaskInv
  <2> QED
    BY <2>1, Zenon DEF Reasons
<1> QED
  BY <1>1, Invariance, PTL
=============================================================================
