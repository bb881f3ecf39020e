--------------------------- MODULE EventDispatch ---------------------------
(***************************************************************************)
(* The event system of switch_event.c: any thread fires events onto        *)
(* EVENT_DISPATCH_QUEUE, dispatch threads take them off and call the       *)
(* callbacks of the bound nodes under the read side of RWLOCK, binding and *)
(* unbinding take the write side, and switch_event_shutdown stops it all.  *)
(*                                                                         *)
(* The queue is AprQueue's.  Dispatch thread i, the one whose handle is    *)
(* EVENT_DISPATCH_QUEUE_THREADS[i], is the popper i; those who fire are    *)
(* the pushers: Firers, and dispatch threads inside a callback.  What runs *)
(* under EVENT_QUEUE_MUTEX is one step.  THREAD_COUNT counts the dispatch  *)
(* threads, as DISPATCH_THREAD_COUNT does.                                 *)
(***************************************************************************)
EXTENDS AprQueue

CONSTANTS Events, Null,   \* what is queued: events, and the NULLs of shutdown
          Firers,
          Nodes,          \* switch_event_node_t
          MaxDispatch,    \* MAX_DISPATCH
          QueueLen,       \* DISPATCH_QUEUE_LEN
          Initial,        \* dispatch threads launched when the core starts
          CallbacksFire   \* callbacks may fire events

Slots == 0 .. MaxDispatch - 1

ASSUME DispatchAssumption ==
    /\ MaxDispatch \in Nat \ {0, 1} /\ Initial \in 1 .. MaxDispatch - 1
    /\ QueueLen \in Nat \ {0} /\ Capacity = QueueLen * MaxDispatch
    /\ Items = Events \cup {Null} /\ Null \notin Events
    /\ Poppers = Slots /\ Pushers = Firers \cup Slots /\ Firers \cap Slots = {}
    /\ CallbacksFire \in BOOLEAN

VARIABLES systemRunning,    \* SYSTEM_RUNNING
          count,            \* DISPATCH_THREAD_COUNT
          soft, pending,    \* SOFT_MAX_DISPATCH, PENDING
          disp,             \* [Slots -> place of the dispatch thread]
          todo,             \* [Slots -> nodes its delivery has still to call]
          bound, freed,     \* EVENT_NODES; nodes given back
          fire, event,      \* [Pushers -> place in switch_event_fire], its event
          fired, destroyed, \* events fired so far, and destroyed
          shut, x,          \* switch_event_shutdown: place and counter
          gaveUp            \* it has not waited for all threads

threadVars == <<count, disp, todo>>
launchVars == <<soft, pending>>
nodeVars == <<bound, freed>>
fireVars == <<fire, event, fired>>
shutVars == <<systemRunning, shut, x, gaveUp>>
vars == <<queueVars, threadVars, launchVars, nodeVars, fireVars, destroyed, shutVars>>

TypeOK ==
    /\ QueueTypeOK /\ ~terminated
    /\ systemRunning \in BOOLEAN /\ count \in Nat /\ soft \in Initial .. MaxDispatch - 1
    /\ pending \in Nat
    /\ disp \in [Slots -> {"none", "start", "test", "pop", "deliver", "call", "leave", "ended"}]
    /\ todo \in [Slots -> SUBSET Nodes]
    /\ bound \subseteq Nodes /\ freed \subseteq Nodes /\ bound \cap freed = {}
    /\ fire \in [Pushers -> {"idle", "count", "launch", "await", "push"}]
    /\ event \in [Pushers -> Events \cup {Null}]
    /\ destroyed \subseteq fired /\ fired \subseteq Events
    /\ shut \in {"up", "null", "interrupt", "join", "joining", "wait", "drain", "done"}
    /\ x \in 0 .. MaxDispatch /\ gaveUp \in BOOLEAN

(* The state switch_event_init and the configuration leave behind. *)
Init ==
    /\ QueueInit
    /\ systemRunning = TRUE /\ count = Initial /\ soft = Initial /\ pending = 0
    /\ disp = [s \in Slots |-> IF s < Initial THEN "test" ELSE "none"]
    /\ todo = [s \in Slots |-> {}]
    /\ bound = {} /\ freed = {}
    /\ fire = [c \in Pushers |-> "idle"] /\ event = [c \in Pushers |-> Null]
    /\ fired = {} /\ destroyed = {}
    /\ shut = "up" /\ x = 0 /\ gaveUp = FALSE

-----------------------------------------------------------------------------
(* switch_event_fire_detailed and switch_event_queue_dispatch_event *)

CanFire(c) ==
    /\ fire[c] = "idle"
    /\ c \in Slots => CallbacksFire /\ disp[c] = "call" /\ todo[c] # {}

(* The tests of SYSTEM_RUNNING: an event that comes too late is destroyed.
   Events are alike until they are fired, and so are fired in a fixed order. *)
Fire(c, e) ==
    /\ CanFire(c) /\ e \notin fired /\ e = CHOOSE d \in Events \ fired : TRUE
    /\ fired' = fired \cup {e}
    /\ IF systemRunning
       THEN /\ fire' = [fire EXCEPT ![c] = "count"] /\ event' = [event EXCEPT ![c] = e]
            /\ UNCHANGED destroyed
       ELSE destroyed' = destroyed \cup {e} /\ UNCHANGED <<fire, event>>
    /\ UNCHANGED <<queueVars, threadVars, launchVars, nodeVars, shutVars>>

WantsThread == pending = 0 /\ Len(buf) > QueueLen * count /\ soft + 1 < MaxDispatch

FireCount(c) ==
    /\ fire[c] = "count"
    /\ IF WantsThread
       THEN /\ fire' = [fire EXCEPT ![c] = "launch"] /\ pending' = pending + 1
            /\ UNCHANGED queueVars
       ELSE /\ fire' = [fire EXCEPT ![c] = "push"] /\ PushCall(c, event[c])
            /\ UNCHANGED pending
    /\ UNCHANGED <<threadVars, soft, nodeVars, event, fired, destroyed, shutVars>>

(* switch_event_launch_dispatch_threads(SOFT_MAX_DISPATCH + 1): one thread,
   whose handle is stored before it runs; its creation may fail. *)
Launch(c) ==
    /\ fire[c] = "launch"
    /\ fire' = [fire EXCEPT ![c] = "await"]
    /\ disp' = [disp EXCEPT ![soft] = "start"] \/ UNCHANGED disp
    /\ UNCHANGED <<queueVars, count, todo, launchVars, nodeVars, event, fired, destroyed, shutVars>>

(* Slip: PENDING is never lowered. *)
LaunchedPending(c) ==
    /\ fire[c] = "await"
    /\ fire' = [fire EXCEPT ![c] = "push"]
    /\ soft' = soft + 1
    /\ PushCall(c, event[c])
    /\ UNCHANGED <<threadVars, pending, nodeVars, event, fired, destroyed, shutVars>>

(* It waits for the thread to run, but not for ever. *)
Launched(c) ==
    /\ fire[c] = "await"
    /\ fire' = [fire EXCEPT ![c] = "push"]
    /\ soft' = soft + 1 /\ pending' = pending - 1
    /\ PushCall(c, event[c])
    /\ UNCHANGED <<threadVars, nodeVars, event, fired, destroyed, shutVars>>

FirePush(c) ==
    /\ fire[c] = "push" /\ PushStep(c)
    /\ IF pusher'[c] = "ok"
       THEN fire' = [fire EXCEPT ![c] = "idle"] /\ event' = [event EXCEPT ![c] = Null]
       ELSE UNCHANGED <<fire, event>>
    /\ UNCHANGED <<threadVars, launchVars, nodeVars, fired, destroyed, shutVars>>

FireStep(c) == FireCount(c) \/ Launch(c) \/ Launched(c) \/ FirePush(c)

-----------------------------------------------------------------------------
(* switch_event_dispatch_thread *)

DispatchStart(s) ==
    /\ disp[s] = "start" /\ disp' = [disp EXCEPT ![s] = "test"]
    /\ count' = count + 1
    /\ UNCHANGED <<queueVars, todo, launchVars, nodeVars, fireVars, destroyed, shutVars>>

(* SYSTEM_RUNNING is read, and switch_queue_pop called. *)
DispatchTest(s) ==
    /\ disp[s] = "test"
    /\ IF systemRunning
       THEN disp' = [disp EXCEPT ![s] = "pop"] /\ PopCall(s)
       ELSE disp' = [disp EXCEPT ![s] = "leave"] /\ UNCHANGED queueVars
    /\ UNCHANGED <<count, todo, launchVars, nodeVars, fireVars, destroyed, shutVars>>

AfterPop(s) ==
    CASE popper'[s] = "eintr" -> "test"
      [] popper'[s] = "ok"    -> IF got'[s] = Null THEN "leave" ELSE "deliver"
      [] OTHER                -> "pop"

DispatchPop(s) ==
    /\ disp[s] = "pop" /\ PopStep(s)
    /\ disp' = [disp EXCEPT ![s] = AfterPop(s)]
    /\ UNCHANGED <<count, todo, launchVars, nodeVars, fireVars, destroyed, shutVars>>

(* Slip: the event is forgotten when the system no longer runs. *)
DeliverForgets(s) ==
    /\ disp[s] = "deliver"
    /\ IF systemRunning
       THEN disp' = [disp EXCEPT ![s] = "call"] /\ todo' = [todo EXCEPT ![s] = bound]
       ELSE disp' = [disp EXCEPT ![s] = "test"] /\ UNCHANGED todo
    /\ UNCHANGED <<queueVars, count, launchVars, nodeVars, fireVars, destroyed, shutVars>>

(* switch_event_deliver: without SYSTEM_RUNNING the event is only destroyed;
   otherwise the read lock is taken and the list of nodes gone through. *)
Deliver(s) ==
    /\ disp[s] = "deliver"
    /\ IF systemRunning
       THEN /\ disp' = [disp EXCEPT ![s] = "call"] /\ todo' = [todo EXCEPT ![s] = bound]
            /\ UNCHANGED destroyed
       ELSE /\ disp' = [disp EXCEPT ![s] = "test"] /\ destroyed' = destroyed \cup {got[s]}
            /\ UNCHANGED todo
    /\ UNCHANGED <<queueVars, count, launchVars, nodeVars, fireVars, shutVars>>

CallbackReturns(s, n) ==
    /\ disp[s] = "call" /\ n \in todo[s] /\ fire[s] = "idle"
    /\ todo' = [todo EXCEPT ![s] = @ \ {n}]
    /\ UNCHANGED <<queueVars, count, disp, launchVars, nodeVars, fireVars, destroyed, shutVars>>

(* The read lock is given up and the event destroyed. *)
DeliverEnds(s) ==
    /\ disp[s] = "call" /\ todo[s] = {}
    /\ disp' = [disp EXCEPT ![s] = "test"]
    /\ destroyed' = destroyed \cup {got[s]}
    /\ UNCHANGED <<queueVars, count, todo, launchVars, nodeVars, fireVars, shutVars>>

DispatchEnds(s) ==
    /\ disp[s] = "leave" /\ disp' = [disp EXCEPT ![s] = "ended"]
    /\ count' = count - 1
    /\ UNCHANGED <<queueVars, todo, launchVars, nodeVars, fireVars, destroyed, shutVars>>

DispatchStep(s) ==
    \/ DispatchStart(s) \/ DispatchTest(s) \/ DispatchPop(s) \/ Deliver(s) \/ DeliverEnds(s)
    \/ DispatchEnds(s) \/ \E n \in Nodes : CallbackReturns(s, n)

-----------------------------------------------------------------------------
(* switch_event_bind_removable, switch_event_unbind and
   switch_event_unbind_callback, under the write side of RWLOCK *)

Readers == {s \in Slots : disp[s] = "call"}

Bind(n) ==
    /\ Readers = {} /\ n \notin bound \cup freed
    /\ bound' = bound \cup {n}
    /\ UNCHANGED <<queueVars, threadVars, launchVars, freed, fireVars, destroyed, shutVars>>

(* Slip: the nodes are taken out while events are being delivered. *)
UnbindUnlocked(ns) ==
    /\ ns # {} /\ ns \subseteq bound
    /\ bound' = bound \ ns /\ freed' = freed \cup ns
    /\ UNCHANGED <<queueVars, threadVars, launchVars, fireVars, destroyed, shutVars>>

Unbind(ns) ==
    /\ Readers = {} /\ ns # {} /\ ns \subseteq bound
    /\ bound' = bound \ ns /\ freed' = freed \cup ns
    /\ UNCHANGED <<queueVars, threadVars, launchVars, fireVars, destroyed, shutVars>>

-----------------------------------------------------------------------------
(* switch_event_shutdown *)

shutOnly == <<threadVars, launchVars, nodeVars, fireVars>>

ShutStart ==
    /\ shut = "up" /\ shut' = "null" /\ x' = 0
    /\ systemRunning' = FALSE
    /\ UNCHANGED <<queueVars, shutOnly, destroyed, gaveUp>>

(* Slip: one NULL too few. *)
ShutNullButOne ==
    /\ shut = "null"
    /\ IF x + 1 < count
       THEN /\ x' = x + 1 /\ UNCHANGED shut
            /\ IF Len(buf) < Capacity THEN TryPush(Null) ELSE UNCHANGED queueVars
       ELSE shut' = "interrupt" /\ UNCHANGED <<queueVars, x>>
    /\ UNCHANGED <<shutOnly, destroyed, systemRunning, gaveUp>>

(* A NULL for each thread: the loop reads the count of threads every time. *)
ShutNull ==
    /\ shut = "null"
    /\ IF x < count
       THEN /\ x' = x + 1 /\ UNCHANGED shut
            /\ IF Len(buf) < Capacity THEN TryPush(Null) ELSE UNCHANGED queueVars
       ELSE shut' = "interrupt" /\ UNCHANGED <<queueVars, x>>
    /\ UNCHANGED <<shutOnly, destroyed, systemRunning, gaveUp>>

ShutInterrupt ==
    /\ shut = "interrupt" /\ shut' = "join" /\ x' = 0
    /\ InterruptAll
    /\ UNCHANGED <<shutOnly, destroyed, systemRunning, gaveUp>>

ShutJoin ==
    /\ shut = "join"
    /\ shut' = IF x < count THEN "joining" ELSE "wait"
    /\ UNCHANGED <<queueVars, shutOnly, destroyed, systemRunning, x, gaveUp>>

(* switch_thread_join on EVENT_DISPATCH_QUEUE_THREADS[x]; there is nothing to
   wait for where no thread was created. *)
ShutJoined ==
    /\ shut = "joining" /\ disp[x] \in {"ended", "none"}
    /\ shut' = "join" /\ x' = x + 1
    /\ UNCHANGED <<queueVars, shutOnly, destroyed, systemRunning, gaveUp>>

(* Slip: joining is thought to be enough. *)
ShutWaitNot ==
    /\ shut = "wait" /\ shut' = "drain"
    /\ UNCHANGED <<queueVars, shutOnly, destroyed, systemRunning, x, gaveUp>>

(* THREAD_COUNT is polled until it is zero, or has stayed as it is for a
   hundred polls. *)
ShutWait ==
    /\ shut = "wait" /\ shut' = "drain"
    /\ gaveUp' = (count # 0)
    /\ UNCHANGED <<queueVars, shutOnly, destroyed, systemRunning, x>>

(* What is left in the queue is destroyed, up to the first NULL. *)
ShutDrain ==
    /\ shut = "drain"
    /\ IF buf = << >> THEN shut' = "done" /\ UNCHANGED <<queueVars, destroyed>>
       ELSE /\ TryPop
            /\ shut' = IF Head(buf) = Null THEN "done" ELSE "drain"
            /\ destroyed' = destroyed \cup ({Head(buf)} \ {Null})
    /\ UNCHANGED <<shutOnly, systemRunning, x, gaveUp>>

ShutStep ==
    \/ ShutNull \/ ShutInterrupt \/ ShutJoin \/ ShutJoined \/ ShutWait \/ ShutDrain

-----------------------------------------------------------------------------
Next ==
    \/ \E c \in Pushers : FireStep(c) \/ \E e \in Events : Fire(c, e)
    \/ \E s \in Slots : DispatchStep(s)
    \/ \E n \in Nodes : Bind(n)
    \/ \E ns \in SUBSET Nodes : Unbind(ns)
    \/ ShutStart \/ ShutStep

Spec == Init /\ [][Next]_vars

(* Threads run, callbacks return, and a call that was begun goes on; nobody
   has to fire, bind or shut down. *)
FairSpec ==
    /\ Spec /\ WF_vars(ShutStep)
    /\ \A c \in Firers : WF_vars(FireStep(c))
    /\ \A s \in Slots : WF_vars(DispatchStep(s) \/ FireStep(s))

-----------------------------------------------------------------------------
(* Properties. *)

Count(e, seq) == Cardinality({i \in 1 .. Len(seq) : seq[i] = e})
Firing(e) == {c \in Pushers : event[c] = e}
Delivering(e) == {s \in Slots : disp[s] \in {"deliver", "call"} /\ got[s] = e}

(* An event that was fired has one owner, from switch_event_fire through the
   queue and one dispatch thread to switch_event_destroy: it is not lost, not
   delivered by two threads and not touched after it was destroyed. *)
OneOwner ==
    \A e \in Events :
        Cardinality(Firing(e)) + Count(e, buf) + Cardinality(Delivering(e))
            + (IF e \in destroyed THEN 1 ELSE 0) = (IF e \in fired THEN 1 ELSE 0)

(* Once switch_event_unbind has returned its node is freed, and no dispatch
   thread still has it on the list it goes through. *)
UnboundQuiet == \A s \in Slots : todo[s] \subseteq bound

(* DISPATCH_THREAD_COUNT, on which the launches and the shutdown depend, is
   the number of threads in their loop, and PENDING keeps all but one thread
   out of switch_event_launch_dispatch_threads. *)
CountExact ==
    /\ count = Cardinality({s \in Slots : disp[s] \notin {"none", "start", "ended"}})
    /\ pending = Cardinality({c \in Pushers : fire[c] \in {"launch", "await"}}) /\ pending <= 1

(* A shutdown that has waited for the threads leaves none that would pop or
   deliver an event: no callback runs after it. *)
QuietWhenDone ==
    shut \in {"drain", "done"} /\ ~gaveUp
        => \A s \in Slots : disp[s] \notin {"pop", "deliver", "call"}

(* Where an event is in its life, and the nodes it has still to be given to. *)
life == [e \in Events |->
    IF e \notin fired THEN "new"
    ELSE IF e \in destroyed THEN "gone"
    ELSE IF Firing(e) # {} THEN "sent"
    ELSE IF Delivering(e) = {} THEN "waiting"
    ELSE IF \E s \in Delivering(e) : disp[s] = "call" THEN "delivered" ELSE "taken"]
calls == [e \in Events |-> UNION {todo[s] : s \in Delivering(e)}]

(* The event system does what it promises: whatever the threads that fire,
   deliver, bind, unbind and shut down do at the same time, every step of
   theirs takes one event one step further in its life, calls one node, or
   changes the set of bound nodes when nothing is being delivered. *)
Bus == INSTANCE EventBus WITH line <- buf, members <- bound, stopped <- ~systemRunning,
                              Mark <- Null
IsBus == Bus!Spec

(* There is something in the queue for each thread that is in
   switch_queue_pop, and none of them sleeps. *)
Served ==
    /\ Cardinality({s \in Slots : disp[s] = "pop"}) <= Len(buf)
    /\ In(popper, "wait") = {}

(* When no dispatch thread is gone by the time switch_event_shutdown has pushed
   its NULLs, they are enough: no thread sleeps in switch_queue_pop, and none
   ever goes to sleep there until the threads have been waited for, whatever
   is taken, fired and launched meanwhile. *)
NullsSuffice ==
    [][/\ shut = "null" /\ shut' = "interrupt" /\ (\A s \in Slots : disp[s] # "ended") => Served
       /\ shut \in {"interrupt", "join", "joining", "wait"} /\ Served => Served']_vars

(* Every dispatch thread waits inside a callback for room in the queue, which
   none but them would empty. *)
Jammed ==
    LET loop == {s \in Slots : disp[s] \notin {"none", "start", "ended"}}
    IN  loop # {} /\ \A s \in loop : disp[s] = "call" /\ pusher[s] = "wait"

(* An event that is queued is delivered, unless the system stops first or the
   dispatch threads are jammed. *)
QueuedIsDelivered ==
    \A e \in Events : Count(e, buf) > 0 ~> (e \in destroyed \/ ~systemRunning \/ Jammed)

(* switch_event_shutdown comes to its end, unless the dispatch threads are
   jammed. *)
ShutdownEnds == (shut = "null") ~> (shut = "done" \/ Jammed)

(* A dispatch thread is gone before switch_event_shutdown has pushed all of
   its NULLs: the count that bounds its loop falls under it. *)
CountFalls == shut \in {"null", "interrupt"} /\ \E s \in Slots : disp[s] = "ended"

(* That is the only other way for the shutdown not to come to its end: when
   every thread that was there has been given its NULL, all of them leave and
   are joined, whatever is fired or launched meanwhile. *)
ShutdownEndsIfCounted == (shut = "null") ~> (shut = "done" \/ Jammed \/ CountFalls)
=============================================================================
