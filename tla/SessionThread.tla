--------------------------- MODULE SessionThread ---------------------------
(***************************************************************************)
(* One session's state machine thread (switch_core_session_run) against    *)
(* the other threads that hang its channel up, change its state, queue it  *)
(* events or ping it.  The thread sleeps on session->cond; the others wake *)
(* it with switch_core_session_wake_session_thread, a protocol of two      *)
(* trylocks and a bounded number of retries:                               *)
(*                                                                         *)
(*   session->mutex    held by the session thread whenever it is running   *)
(*   thread_mutex      held from before its last look at its queue and     *)
(*                     state until after its sleep                         *)
(*   state_mutex       serialises the writers of channel->state            *)
(*                                                                         *)
(* The session thread's own calls of set_state and hangup are single       *)
(* steps: it holds session->mutex, which is nested, so its careful_set and *)
(* its wake succeed at once, and it is the only reader of what it writes.  *)
(***************************************************************************)
EXTENDS ChannelState, FiniteSets

CONSTANTS Callers,       \* other threads
          Targets,       \* states they ask for, of Midlife
          Causes,        \* hangup causes
          NoCause,       \* SWITCH_CAUSE_NONE
          MaxTries,      \* 10 in the code
          QueueLen,      \* SWITCH_EVENT_QUEUE_LEN
          NewLoops,      \* 500 in the code
          EarlyHangup    \* CF_EARLY_HANGUP or SCF_EARLY_HANGUP

ASSUME TargetsAssumption == Targets \subseteq Midlife
ASSUME CauseAssumption == NoCause \notin Causes
ASSUME BoundsAssumption == /\ MaxTries \in Nat \ {0} /\ QueueLen \in Nat \ {0}
                           /\ NewLoops \in Nat \ {0} /\ EarlyHangup \in BOOLEAN

T == "T"          \* the session thread as an owner of a mutex
Free == "free"

ASSUME OwnersAssumption == T \notin Callers /\ Free \notin Callers

VARIABLES
    state, runState,    \* channel->state, channel->running_state
    cause,              \* channel->hangup_cause
    ocf,                \* OCF_HANGUP
    repeat,             \* CF_STATE_REPEAT
    sleeping,           \* CF_THREAD_SLEEPING
    blocked,            \* CF_BLOCK_STATE
    queue,              \* number of queued events and messages
    started,            \* SSF_THREAD_STARTED
    sMx, tMx, stMx,     \* owners of session->mutex, thread_mutex, state_mutex
    pc, st, loops,      \* the session thread: place, local state, new_loops
    hungup,             \* SSF_HANGUP
    hangupRuns,         \* history: times the hangup handlers ran
    reportRuns,         \* history: times the reporting handlers ran
    cpc, arg, tries,    \* the other threads: place, argument, retries
    gaveUp              \* history: some wake ran out of tries

chanVars == <<state, runState, cause, ocf>>
flagVars == <<repeat, sleeping, blocked, queue, started>>
lockVars == <<sMx, tMx, stMx>>
threadVars == <<pc, st, loops, hungup, hangupRuns, reportRuns>>
callVars == <<cpc, arg, tries, gaveUp>>
vars == <<chanVars, flagVars, lockVars, threadVars, callVars>>

Owners == Callers \cup {T, Free}

(* Where the session thread holds thread_mutex; where it does not hold
   session->mutex. *)
InRegion == {"parse", "test", "compare", "presleep", "waiting", "signalled",
             "awake", "unlock"}
OffMutex == {"off", "start", "waiting", "signalled", "ended"}
ThreadStates == InRegion \cup OffMutex \cup
    {"top", "block", "run", "handle", "hung", "reported", "after", "poll", "lock",
     "reparse", "done"}

WakeStates == {"wake", "wake2", "wk_s", "wk_t"}
CallStates == WakeStates \cup
    {"idle", "cs", "cs_s", "cs_t", "cs_m", "h_clear", "h_look", "h_set", "h_cause", "h_launch",
     "bl_set", "bl_launch"}

TypeOK ==
    /\ state \in States /\ runState \in States \cup {CS_NONE}
    /\ cause \in Causes \cup {NoCause}
    /\ ocf \in BOOLEAN /\ repeat \in BOOLEAN /\ sleeping \in BOOLEAN
    /\ blocked \in BOOLEAN /\ started \in BOOLEAN /\ hungup \in BOOLEAN
    /\ gaveUp \in BOOLEAN
    /\ queue \in 0 .. QueueLen /\ loops \in 0 .. NewLoops
    /\ sMx \in Owners /\ tMx \in Owners /\ stMx \in Owners
    /\ pc \in ThreadStates /\ st \in States
    /\ hangupRuns \in 0 .. 2 /\ reportRuns \in 0 .. 2
    /\ cpc \in [Callers -> CallStates]
    /\ arg \in [Callers -> Targets \cup Causes \cup {NoCause}]
    /\ tries \in [Callers -> 0 .. MaxTries]

(* switch_channel_init, and the CS_INIT an endpoint sets before it launches
   the thread *)
Init ==
    /\ state \in {CS_NEW, CS_INIT} /\ runState = CS_NONE
    /\ cause = NoCause
    /\ ocf = FALSE /\ repeat = FALSE /\ sleeping = FALSE /\ blocked = FALSE
    /\ started = FALSE /\ hungup = FALSE /\ gaveUp = FALSE
    /\ queue = 0 /\ loops = NewLoops
    /\ sMx = Free /\ tMx = Free /\ stMx = Free
    /\ pc = "off" /\ st = CS_NEW
    /\ hangupRuns = 0 /\ reportRuns = 0
    /\ cpc = [c \in Callers |-> "idle"]
    /\ arg = [c \in Callers |-> NoCause]
    /\ tries = [c \in Callers |-> 0]

Goto(place) == pc' = place
At(c, place) == cpc[c] = place
To(c, place) == cpc' = [cpc EXCEPT ![c] = place]

-----------------------------------------------------------------------------
(* The session thread's own calls, made by its handlers. *)

(* switch_channel_perform_set_state on the session thread *)
OwnSet(s) ==
    /\ stMx = Free
    /\ state' = IF Ignores(state, s) \/ ~Accepts(state, s) THEN state ELSE s

(* switch_channel_perform_hangup on the session thread, which may run the
   hangup handlers there and then *)
OwnHangup(k) ==
    LET first == ~ocf /\ state < CS_HANGUP
        early == first /\ EarlyHangup /\ ~hungup
    IN  /\ stMx = Free
        /\ ocf' = TRUE
        /\ blocked' = IF ocf THEN blocked ELSE FALSE
        /\ state' = IF first THEN CS_HANGUP ELSE state
        /\ cause' = IF first THEN k ELSE cause
        /\ hungup' = (hungup \/ early)
        /\ hangupRuns' = IF early THEN hangupRuns + 1 ELSE hangupRuns

(* A handler, or a message, changes the state, hangs up, or does neither. *)
OwnCall ==
    \/ UNCHANGED <<state, ocf, blocked, cause, hungup, hangupRuns>>
    \/ \E s \in Targets : OwnSet(s) /\ UNCHANGED <<ocf, blocked, cause, hungup, hangupRuns>>
    \/ \E k \in Causes : OwnHangup(k)

(* switch_ivr_parse_all_messages: the queue is emptied *)
ParseMessages ==
    /\ queue' = 0
    /\ IF queue > 0 THEN OwnCall
       ELSE UNCHANGED <<state, ocf, blocked, cause, hungup, hangupRuns>>

-----------------------------------------------------------------------------
(* switch_core_session_run *)

Start ==
    /\ pc = "start" /\ sMx = Free
    /\ sMx' = T /\ Goto("top")
    /\ UNCHANGED <<chanVars, flagVars, tMx, stMx, st, loops, hungup, hangupRuns, reportRuns, callVars>>

(* Where a turn of the loop goes, given the state it read. *)
Turn(s) == IF s = CS_DESTROY THEN "done"
           ELSE IF s # runState \/ s >= CS_HANGUP THEN "run" ELSE "after"

Top ==
    /\ pc = "top"
    /\ st' = state
    /\ Goto(IF state # CS_DESTROY /\ blocked THEN "block" ELSE Turn(state))
    /\ UNCHANGED <<chanVars, flagVars, lockVars, loops, hungup, hangupRuns, reportRuns, callVars>>

(* switch_channel_wait_for_flag(CF_BLOCK_STATE, FALSE) polls *)
Unblocked ==
    /\ pc = "block" /\ (~blocked \/ state >= CS_HANGUP)
    /\ st' = state /\ Goto(Turn(state))
    /\ UNCHANGED <<chanVars, flagVars, lockVars, loops, hungup, hangupRuns, reportRuns, callVars>>

(* switch_channel_set_running_state, then the queued messages *)
RunState ==
    /\ pc = "run" /\ stMx = Free
    /\ runState' = st
    /\ ParseMessages
    /\ Goto("handle")
    /\ UNCHANGED <<repeat, sleeping, started, lockVars, st, loops, reportRuns, callVars>>

(* STATE_MACRO for the states of a live call *)
HandleLive ==
    /\ pc = "handle" /\ st < CS_HANGUP
    /\ IF st = CS_NEW THEN UNCHANGED <<state, ocf, blocked, cause, hungup, hangupRuns>>
       ELSE OwnCall
    /\ Goto("after")
    /\ UNCHANGED <<runState, repeat, sleeping, queue, started, lockVars, st, loops, reportRuns, callVars>>

(* Slip: SSF_HANGUP is not tested. *)
HandleHangupAgain ==
    /\ pc = "handle" /\ st = CS_HANGUP
    /\ hungup' = TRUE /\ hangupRuns' = hangupRuns + 1
    /\ Goto("hung")
    /\ UNCHANGED <<chanVars, flagVars, lockVars, st, loops, reportRuns, callVars>>

(* switch_core_session_hangup_state(session, SWITCH_TRUE) *)
HandleHangup ==
    /\ pc = "handle" /\ st = CS_HANGUP
    /\ IF hungup THEN UNCHANGED <<hungup, hangupRuns>>
       ELSE hungup' = TRUE /\ hangupRuns' = hangupRuns + 1
    /\ Goto("hung")
    /\ UNCHANGED <<chanVars, flagVars, lockVars, st, loops, reportRuns, callVars>>

SetReporting ==
    /\ pc = "hung"
    /\ OwnSet(CS_REPORTING)
    /\ Goto("after")
    /\ UNCHANGED <<runState, cause, ocf, flagVars, lockVars, st, loops, hungup, hangupRuns, reportRuns, callVars>>

(* switch_core_session_reporting_state: CF_REPORTING lets it run once *)
HandleReporting ==
    /\ pc = "handle" /\ st = CS_REPORTING
    /\ reportRuns' = reportRuns + 1
    /\ Goto("reported")
    /\ UNCHANGED <<chanVars, flagVars, lockVars, st, loops, hungup, hangupRuns, callVars>>

SetDestroy ==
    /\ pc = "reported"
    /\ OwnSet(CS_DESTROY)
    /\ Goto("done")
    /\ UNCHANGED <<runState, cause, ocf, flagVars, lockVars, st, loops, hungup, hangupRuns, reportRuns, callVars>>

After ==
    /\ pc = "after"
    /\ Goto(IF state # runState THEN "top" ELSE IF state = CS_NEW THEN "poll" ELSE "lock")
    /\ UNCHANGED <<chanVars, flagVars, lockVars, st, loops, hungup, hangupRuns, reportRuns, callVars>>

(* CS_NEW: poll, and abandon the call after NewLoops rounds *)
Poll ==
    /\ pc = "poll"
    /\ loops' = IF loops = 0 THEN 0 ELSE loops - 1
    /\ queue' = 0
    /\ \/ loops # 1 /\ UNCHANGED <<state, ocf, blocked, cause, hungup, hangupRuns>>
       \/ queue > 0 /\ OwnCall
       \/ loops = 1 /\ \E k \in Causes : OwnHangup(k)
    /\ Goto("top")
    /\ UNCHANGED <<runState, repeat, sleeping, started, lockVars, st, reportRuns, callVars>>

(* switch_channel_state_thread_lock *)
Lock ==
    /\ pc = "lock" /\ tMx = Free
    /\ tMx' = T /\ Goto("parse")
    /\ UNCHANGED <<chanVars, flagVars, sMx, stMx, st, loops, hungup, hangupRuns, reportRuns, callVars>>

Parse ==
    /\ pc = "parse" /\ ParseMessages
    /\ Goto("test")
    /\ UNCHANGED <<runState, repeat, sleeping, started, lockVars, st, loops, reportRuns, callVars>>

TestRepeat ==
    /\ pc = "test"
    /\ repeat' = FALSE
    /\ Goto(IF repeat THEN "unlock" ELSE "compare")
    /\ UNCHANGED <<chanVars, sleeping, blocked, queue, started, lockVars, st, loops, hungup, hangupRuns, reportRuns, callVars>>

(* the last look before the sleep, and CF_THREAD_SLEEPING *)
Compare ==
    /\ pc = "compare"
    /\ sleeping' = (state = runState)
    /\ Goto(IF state = runState THEN "presleep" ELSE "unlock")
    /\ UNCHANGED <<chanVars, repeat, blocked, queue, started, lockVars, st, loops, hungup, hangupRuns, reportRuns, callVars>>

(* switch_thread_cond_wait gives up session->mutex *)
Sleep ==
    /\ pc = "presleep"
    /\ sMx' = Free /\ Goto("waiting")
    /\ UNCHANGED <<chanVars, flagVars, tMx, stMx, st, loops, hungup, hangupRuns, reportRuns, callVars>>

Wakes ==
    /\ pc = "signalled" /\ sMx = Free
    /\ sMx' = T /\ Goto("awake")
    /\ UNCHANGED <<chanVars, flagVars, tMx, stMx, st, loops, hungup, hangupRuns, reportRuns, callVars>>

(* Slip: thread_mutex is given up only after a sleep. *)
UnlockAfterSleepOnly ==
    /\ pc \in {"awake", "unlock"}
    /\ sleeping' = FALSE /\ tMx' = (IF pc = "awake" THEN Free ELSE tMx) /\ Goto("reparse")
    /\ UNCHANGED <<chanVars, repeat, blocked, queue, started, sMx, stMx, st, loops, hungup, hangupRuns, reportRuns, callVars>>

Unlock ==
    /\ pc \in {"awake", "unlock"}
    /\ sleeping' = FALSE /\ tMx' = Free /\ Goto("reparse")
    /\ UNCHANGED <<chanVars, repeat, blocked, queue, started, sMx, stMx, st, loops, hungup, hangupRuns, reportRuns, callVars>>

Reparse ==
    /\ pc = "reparse" /\ ParseMessages
    /\ Goto("top")
    /\ UNCHANGED <<runState, repeat, sleeping, started, lockVars, st, loops, reportRuns, callVars>>

Done ==
    /\ pc = "done"
    /\ sMx' = Free /\ Goto("ended")
    /\ UNCHANGED <<chanVars, flagVars, tMx, stMx, st, loops, hungup, hangupRuns, reportRuns, callVars>>

ThreadStep ==
    \/ Start \/ Top \/ Unblocked \/ RunState \/ HandleLive \/ HandleHangup \/ SetReporting
    \/ HandleReporting \/ SetDestroy \/ After \/ Poll \/ Lock \/ Parse \/ TestRepeat
    \/ Compare \/ Sleep \/ Wakes \/ Unlock \/ Reparse \/ Done

-----------------------------------------------------------------------------
(* The other threads.  A call ends by giving up state_mutex if it has it. *)

Finish(c) ==
    /\ To(c, "idle")
    /\ tries' = [tries EXCEPT ![c] = 0] /\ arg' = [arg EXCEPT ![c] = NoCause]
    /\ stMx' = IF stMx = c THEN Free ELSE stMx

(* switch_channel_perform_set_state: an accepted request *)
SetCall(c, s) ==
    /\ At(c, "idle") /\ stMx = Free
    /\ ~Ignores(state, s) /\ Accepts(state, s)
    /\ stMx' = c /\ To(c, "cs")
    /\ arg' = [arg EXCEPT ![c] = s]
    /\ UNCHANGED <<chanVars, flagVars, sMx, tMx, threadVars, tries, gaveUp>>

(* careful_set: thread_mutex, else session->mutex *)
CarefulThread(c) ==
    /\ At(c, "cs")
    /\ IF tMx = Free THEN tMx' = c /\ To(c, "cs_t")
       ELSE UNCHANGED tMx /\ To(c, "cs_s")
    /\ UNCHANGED <<chanVars, flagVars, sMx, stMx, threadVars, arg, tries, gaveUp>>

CarefulSession(c) ==
    /\ At(c, "cs_s") /\ sMx = Free
    /\ sMx' = c /\ To(c, "cs_m")
    /\ UNCHANGED <<chanVars, flagVars, tMx, stMx, threadVars, arg, tries, gaveUp>>

(* the write, under the mutex it got or, 100 tries later, under neither *)
CarefulWrite(c) ==
    /\ \/ At(c, "cs_t") /\ tMx' = Free /\ UNCHANGED sMx
       \/ At(c, "cs_m") /\ sMx' = Free /\ UNCHANGED tMx
       \/ At(c, "cs_s") /\ sMx # Free /\ UNCHANGED <<sMx, tMx>>
    /\ state' = arg[c]
    /\ To(c, "wake")
    /\ UNCHANGED <<runState, cause, ocf, flagVars, stMx, threadVars, arg, tries, gaveUp>>

(* Slip: a refused trylock is taken to mean that the thread is awake. *)
WakeTrySessionOnly(c) ==
    /\ At(c, "wake")
    /\ IF sMx = Free THEN sMx' = c /\ To(c, "wk_s") /\ UNCHANGED <<tries, arg, stMx>>
       ELSE UNCHANGED sMx /\ Finish(c)
    /\ UNCHANGED <<chanVars, flagVars, tMx, threadVars, gaveUp>>

(* switch_core_session_wake_session_thread *)
WakeTrySession(c) ==
    /\ At(c, "wake")
    /\ IF sMx = Free THEN sMx' = c /\ To(c, "wk_s")
       ELSE UNCHANGED sMx /\ To(c, "wake2")
    /\ UNCHANGED <<chanVars, flagVars, tMx, stMx, threadVars, arg, tries, gaveUp>>

WakeSignal(c) ==
    /\ At(c, "wk_s")
    /\ sMx' = Free
    /\ Goto(IF pc = "waiting" THEN "signalled" ELSE pc)
    /\ Finish(c)
    /\ UNCHANGED <<chanVars, flagVars, tMx, st, loops, hungup, hangupRuns, reportRuns, gaveUp>>

WakeTryThread(c) ==
    /\ At(c, "wake2") /\ tMx = Free
    /\ tMx' = c /\ To(c, "wk_t")
    /\ UNCHANGED <<chanVars, flagVars, sMx, stMx, threadVars, arg, tries, gaveUp>>

WakeRepeat(c) ==
    /\ At(c, "wk_t")
    /\ repeat' = TRUE /\ tMx' = Free
    /\ Finish(c)
    /\ UNCHANGED <<chanVars, sleeping, blocked, queue, started, sMx, threadVars, gaveUp>>

WakeRetry(c) ==
    /\ At(c, "wake2") /\ tMx # Free /\ tries[c] + 1 < MaxTries
    /\ tries' = [tries EXCEPT ![c] = @ + 1]
    /\ To(c, "wake")
    /\ UNCHANGED <<chanVars, flagVars, lockVars, threadVars, arg, gaveUp>>

WakeGiveUp(c) ==
    /\ At(c, "wake2") /\ tMx # Free /\ tries[c] + 1 >= MaxTries
    /\ gaveUp' = TRUE
    /\ Finish(c)
    /\ UNCHANGED <<chanVars, flagVars, sMx, tMx, threadVars>>

(* switch_channel_perform_hangup: one per customer *)
HangupCall(c, k) ==
    /\ At(c, "idle") /\ stMx = Free /\ ~ocf
    /\ ocf' = TRUE
    /\ To(c, "h_clear")
    /\ arg' = [arg EXCEPT ![c] = k]
    /\ UNCHANGED <<state, runState, cause, flagVars, lockVars, threadVars, tries, gaveUp>>

HangupUnblock(c) ==
    /\ At(c, "h_clear")
    /\ blocked' = FALSE /\ To(c, "h_look")
    /\ UNCHANGED <<chanVars, repeat, sleeping, queue, started, lockVars, threadVars, arg, tries, gaveUp>>

HangupLook(c) ==
    /\ At(c, "h_look")
    /\ To(c, IF state < CS_HANGUP THEN "h_set" ELSE "idle")
    /\ UNCHANGED <<chanVars, flagVars, lockVars, threadVars, arg, tries, gaveUp>>

(* Slip: the state is written without state_mutex. *)
HangupSetUnlocked(c) ==
    /\ At(c, "h_set")
    /\ state' = CS_HANGUP /\ To(c, "h_cause")
    /\ UNCHANGED <<runState, cause, ocf, flagVars, lockVars, threadVars, arg, tries, gaveUp>>

HangupSet(c) ==
    /\ At(c, "h_set") /\ stMx = Free
    /\ state' = CS_HANGUP /\ To(c, "h_cause")
    /\ UNCHANGED <<runState, cause, ocf, flagVars, lockVars, threadVars, arg, tries, gaveUp>>

HangupCause(c) ==
    /\ At(c, "h_cause")
    /\ cause' = arg[c] /\ To(c, "h_launch")
    /\ UNCHANGED <<state, runState, ocf, flagVars, lockVars, threadVars, arg, tries, gaveUp>>

(* switch_core_session_thread_launch *)
LaunchThread ==
    /\ sMx = Free
    /\ started' = TRUE /\ pc' = "start"
    /\ UNCHANGED <<chanVars, repeat, sleeping, blocked, queue, lockVars, st, loops, hungup, hangupRuns, reportRuns, arg, tries, gaveUp>>

(* Slip: a session whose thread was never launched is left alone. *)
HangupNoLaunch(c) ==
    /\ At(c, "h_launch") /\ To(c, "wake")
    /\ UNCHANGED <<chanVars, flagVars, lockVars, threadVars, arg, tries, gaveUp>>

HangupLaunch(c) ==
    /\ At(c, "h_launch") /\ To(c, "wake")
    /\ \/ started /\ UNCHANGED <<chanVars, flagVars, lockVars, threadVars, arg, tries, gaveUp>>
       \/ ~started /\ LaunchThread

Launch(c) == At(c, "idle") /\ ~started /\ LaunchThread /\ UNCHANGED cpc

(* Slip: the session is not woken. *)
SendQuietly(c) ==
    /\ At(c, "idle") /\ UNCHANGED cpc
    /\ queue' = IF queue < QueueLen THEN queue + 1 ELSE queue
    /\ UNCHANGED <<chanVars, repeat, sleeping, blocked, started, lockVars, threadVars, arg, tries, gaveUp>>

(* switch_core_session_queue_message, queue_signal_data: push, then wake *)
Send(c) ==
    /\ At(c, "idle") /\ To(c, "wake")
    /\ queue' = IF queue < QueueLen THEN queue + 1 ELSE queue
    /\ UNCHANGED <<chanVars, repeat, sleeping, blocked, started, lockVars, threadVars, arg, tries, gaveUp>>

(* switch_core_session_perform_read_lock, refused *)
Ping(c) ==
    /\ At(c, "idle") /\ state >= CS_HANGUP /\ sleeping
    /\ To(c, "wake")
    /\ UNCHANGED <<chanVars, flagVars, lockVars, threadVars, arg, tries, gaveUp>>

(* switch_ivr_originate, per_channel_delay_start: a leg that is not running is
   held back with CF_BLOCK_STATE and launched; later it is let go *)
BlockCall(c) ==
    /\ At(c, "idle") /\ ~started /\ To(c, "bl_set")
    /\ UNCHANGED <<chanVars, flagVars, lockVars, threadVars, arg, tries, gaveUp>>

BlockSet(c) ==
    /\ At(c, "bl_set") /\ To(c, "bl_launch")
    /\ blocked' = TRUE
    /\ UNCHANGED <<chanVars, repeat, sleeping, queue, started, lockVars, threadVars, arg, tries, gaveUp>>

BlockLaunch(c) ==
    /\ At(c, "bl_launch") /\ To(c, "idle")
    /\ \/ started /\ UNCHANGED <<chanVars, flagVars, lockVars, threadVars, arg, tries, gaveUp>>
       \/ ~started /\ LaunchThread

Unblock(c) ==
    /\ At(c, "idle") /\ blocked
    /\ blocked' = FALSE
    /\ UNCHANGED <<chanVars, repeat, sleeping, queue, started, lockVars, threadVars, callVars>>

CallStep(c) ==
    \/ CarefulThread(c) \/ CarefulSession(c) \/ CarefulWrite(c)
    \/ WakeTrySession(c) \/ WakeSignal(c) \/ WakeTryThread(c) \/ WakeRepeat(c)
    \/ WakeRetry(c) \/ WakeGiveUp(c)
    \/ HangupUnblock(c) \/ HangupLook(c) \/ HangupSet(c) \/ HangupCause(c) \/ HangupLaunch(c)
    \/ BlockSet(c) \/ BlockLaunch(c)

CallStart(c) ==
    \/ \E s \in Targets : SetCall(c, s)
    \/ \E k \in Causes : HangupCall(c, k)
    \/ Launch(c) \/ Send(c) \/ Ping(c) \/ BlockCall(c) \/ Unblock(c)

Next == ThreadStep \/ \E c \in Callers : CallStep(c) \/ CallStart(c)

Spec == Init /\ [][Next]_vars

(* A call that has begun goes on, the session thread is scheduled, and no
   mutex is denied for ever to a thread that keeps asking for it. *)
Fairness == SF_vars(ThreadStep) /\ \A c \in Callers : SF_vars(CallStep(c))

FairSpec == Spec /\ Fairness

-----------------------------------------------------------------------------
(* Properties. *)

(* Someone has written and has still to finish its wake. *)
WakePending ==
    \E c \in Callers : cpc[c] \in WakeStates \cup {"h_cause", "h_launch"}

(* No lost wake-up: while the session thread is asleep, or past its last look
   at its queue and state, a message it has not read or a state it has not run
   has a writer that is still going to wake it, unless a writer has used up
   its tries (the protocol of switch_core_session_wake_session_thread and the
   end of switch_core_session_run). *)
NoLostWakeup ==
    pc \in {"presleep", "waiting"} /\ (queue > 0 \/ state # runState)
        => gaveUp \/ WakePending

(* A channel that has been hung up never goes back: careful_set can not
   overwrite the CS_HANGUP of switch_channel_perform_hangup, whatever was
   decided before it. *)
NeverRevives == [][state >= CS_HANGUP => state' >= state]_vars

(* The hangup handlers run at most once, early or not, and a session whose
   thread has ended went through both the hangup and the reporting handlers,
   in CS_DESTROY. *)
HandlersOnce ==
    /\ hangupRuns <= 1 /\ reportRuns <= 1
    /\ pc = "ended" => hangupRuns = 1 /\ reportRuns = 1 /\ state = CS_DESTROY

(* No request trips switch_channel_perform_set_state's assertion, whenever it
   is made: neither another thread's, nor the session thread's own requests at
   the end of the call. *)
NoRefusal ==
    /\ \A s \in Targets : ~Crashes(state, s)
    /\ pc = "hung" => Accepts(state, CS_REPORTING)
    /\ pc = "reported" => Accepts(state, CS_DESTROY)

(* Who holds session->mutex and thread_mutex is where the code says: the
   session thread has session->mutex except while it sleeps or is not running,
   and thread_mutex across its sleep. *)
LockDiscipline ==
    /\ sMx = T <=> pc \notin OffMutex
    /\ tMx = T <=> pc \in InRegion
    /\ stMx # T
    /\ \A c \in Callers : /\ sMx = c <=> cpc[c] \in {"cs_m", "wk_s"}
                          /\ tMx = c <=> cpc[c] \in {"cs_t", "wk_t"}
                          /\ cpc[c] \in {"cs", "cs_s", "cs_t", "cs_m"} => stMx = c

(* A hangup is always carried through: once OCF_HANGUP is set the session
   thread runs to its end, even one that was never launched, is held back by
   CF_BLOCK_STATE or is going to sleep, unless a wake used up its tries. *)
HangupEnds == ocf ~> (pc = "ended" \/ gaveUp)

(* A message does not wait for ever on a running session's queue. *)
MessagesRead ==
    queue > 0 ~> (queue = 0 \/ blocked \/ gaveUp \/ pc \in {"off", "done", "ended"})
=============================================================================
