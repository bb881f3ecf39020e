-------------------------- MODULE SessionLifecycle --------------------------
(***************************************************************************)
(* How sessions come into session_manager.session_table, are found there   *)
(* by uuid and locked, and are destroyed under the threads that use them.  *)
(*                                                                         *)
(*   requesters  create sessions (switch_core_session_request_uuid), then  *)
(*               launch them, or destroy them when the setup fails;        *)
(*   readers     find a session by uuid, take its read lock and use it;    *)
(*   each session has a thread that, after the hangup, waits for the write *)
(*   lock, marks the session, unlinks it and frees its pool.               *)
(*                                                                         *)
(* runtime.session_hash_mutex is held across several steps only by readers.*)
(***************************************************************************)
EXTENDS Naturals, FiniteSets

CONSTANTS Sessions, Uuids, Requesters, Readers,
          Limit,       \* session_manager.session_limit
          SetupFails,  \* requesters destroy sessions they could not set up
          EarlyHangups,\* others hang up sessions that are not launched yet
          NoSession, NoUuid, Free

ASSUME SetsAssumption == IsFiniteSet(Sessions) /\ IsFiniteSet(Requesters)
ASSUME LimitAssumption == Limit \in Nat \ {0}
ASSUME SwitchesAssumption == SetupFails \in BOOLEAN /\ EarlyHangups \in BOOLEAN
ASSUME NoneAssumption == NoSession \notin Sessions /\ NoUuid \notin Uuids /\ Free \notin Readers

VARIABLES
    table,       \* session_manager.session_table
    count,       \* session_manager.session_count
    hashMx,      \* the reader that holds runtime.session_hash_mutex, or Free
    life,        \* of each session: none, live, unlinked, freed
    uuid,        \* session->uuid_str
    up,          \* channel->state < CS_HANGUP
    started,     \* SSF_THREAD_STARTED
    destroyed,   \* SSF_DESTROYED
    tpc,         \* the session's thread
    wr, rd,      \* session->rwlock: held for writing; its readers
    rpc, want, mine,           \* requesters: place, uuid asked for, session
    ppc, psess, mode, late     \* readers: place, session, call made, and whether
                               \* the session was already marked when it was locked

sessVars == <<life, uuid, up, started, destroyed, tpc, wr, rd>>
reqVars == <<rpc, want, mine>>
readVars == <<ppc, psess, mode, late>>
vars == <<table, count, hashMx, sessVars, reqVars, readVars>>

Modes == {"locate", "force", "send"}
UnderMutex == {"test", "try", "refused", "ping", "send"}

TypeOK ==
    /\ table \in [Uuids -> Sessions \cup {NoSession}]
    /\ count \in 0 .. Cardinality(Sessions)
    /\ hashMx \in Readers \cup {Free}
    /\ life \in [Sessions -> {"none", "live", "unlinked", "freed"}]
    /\ uuid \in [Sessions -> Uuids \cup {NoUuid}]
    /\ up \in [Sessions -> BOOLEAN] /\ started \in [Sessions -> BOOLEAN]
    /\ destroyed \in [Sessions -> BOOLEAN] /\ wr \in [Sessions -> BOOLEAN]
    /\ tpc \in [Sessions -> {"off", "run", "ended", "written", "doomed", "unlinked", "gone"}]
    /\ rd \in [Sessions -> SUBSET Readers] /\ \A s \in Sessions : wr[s] => rd[s] = {}
    /\ rpc \in [Requesters -> {"idle", "admit", "insert", "have", "unlink", "free"}]
    /\ want \in [Requesters -> Uuids \cup {NoUuid}]
    /\ mine \in [Requesters -> Sessions \cup {NoSession}]
    /\ ppc \in [Readers -> {"idle", "use"} \cup UnderMutex]
    /\ psess \in [Readers -> Sessions \cup {NoSession}]
    /\ mode \in [Readers -> Modes] /\ late \in [Readers -> BOOLEAN]

Init ==
    /\ table = [u \in Uuids |-> NoSession] /\ count = 0 /\ hashMx = Free
    /\ life = [s \in Sessions |-> "none"] /\ uuid = [s \in Sessions |-> NoUuid]
    /\ up = [s \in Sessions |-> TRUE] /\ started = [s \in Sessions |-> FALSE]
    /\ destroyed = [s \in Sessions |-> FALSE] /\ wr = [s \in Sessions |-> FALSE]
    /\ tpc = [s \in Sessions |-> "off"] /\ rd = [s \in Sessions |-> {}]
    /\ rpc = [r \in Requesters |-> "idle"] /\ want = [r \in Requesters |-> NoUuid]
    /\ mine = [r \in Requesters |-> NoSession]
    /\ ppc = [p \in Readers |-> "idle"] /\ psess = [p \in Readers |-> NoSession]
    /\ mode = [p \in Readers |-> "locate"] /\ late = [p \in Readers |-> FALSE]

-----------------------------------------------------------------------------
(* switch_core_session_request_uuid.  The look for a duplicate and the look at
   the limit are each made before, and apart from, the insertion. *)

(* A requester goes on, or is done with its session. *)
Turns(r, place) ==
    /\ rpc' = [rpc EXCEPT ![r] = place]
    /\ mine' = IF place = "idle" THEN [mine EXCEPT ![r] = NoSession] ELSE mine
    /\ want' = IF place = "idle" THEN [want EXCEPT ![r] = NoUuid] ELSE want

RequestCheck(r, u) ==
    /\ rpc[r] = "idle" /\ table[u] = NoSession
    /\ rpc' = [rpc EXCEPT ![r] = "admit"] /\ want' = [want EXCEPT ![r] = u]
    /\ UNCHANGED <<table, count, hashMx, sessVars, mine, readVars>>

RequestAdmit(r) ==
    /\ rpc[r] = "admit"
    /\ Turns(r, IF count + 1 > Limit THEN "idle" ELSE "insert")
    /\ UNCHANGED <<table, count, hashMx, sessVars, readVars>>

RequestInsert(r) ==
    /\ rpc[r] = "insert" /\ hashMx = Free
    /\ \E s \in Sessions :
          /\ life[s] = "none"
          /\ life' = [life EXCEPT ![s] = "live"]
          /\ uuid' = [uuid EXCEPT ![s] = want[r]]
          /\ table' = [table EXCEPT ![want[r]] = s]
          /\ mine' = [mine EXCEPT ![r] = s]
    /\ count' = count + 1
    /\ rpc' = [rpc EXCEPT ![r] = "have"]
    /\ UNCHANGED <<hashMx, up, started, destroyed, tpc, wr, rd, want, readVars>>

(* switch_core_session_set_uuid, atomic under the mutex *)
SetUuid(r, u) ==
    LET s == mine[r]
    IN  /\ rpc[r] = "have" /\ hashMx = Free
        /\ u # uuid[s] /\ table[u] = NoSession
        /\ table' = [table EXCEPT ![uuid[s]] = NoSession, ![u] = s]
        /\ uuid' = [uuid EXCEPT ![s] = u]
        /\ UNCHANGED <<count, hashMx, life, up, started, destroyed, tpc, wr, rd, reqVars, readVars>>

(* switch_core_session_thread_launch: once, under session->mutex *)
LaunchEffect(s) ==
    /\ started' = [started EXCEPT ![s] = TRUE]
    /\ tpc' = [tpc EXCEPT ![s] = IF started[s] THEN tpc[s] ELSE "run"]

RequestLaunch(r) ==
    /\ rpc[r] = "have"
    /\ LaunchEffect(mine[r])
    /\ Turns(r, "idle")
    /\ UNCHANGED <<table, count, hashMx, life, uuid, up, destroyed, wr, rd, readVars>>

-----------------------------------------------------------------------------
(* switch_core_session_perform_destroy: out of the table and the count, then
   the memory pool *)

(* Slip: the session is left in the table. *)
UnlinkKeepsEntry(s) ==
    /\ hashMx = Free
    /\ table' = table
    /\ count' = IF count > 0 THEN count - 1 ELSE 0
    /\ life' = [life EXCEPT ![s] = IF @ = "live" THEN "unlinked" ELSE @]

(* Slip: session_hash_mutex is not taken. *)
UnlinkUnlocked(s) ==
    /\ table' = [table EXCEPT ![uuid[s]] = NoSession]
    /\ count' = IF count > 0 THEN count - 1 ELSE 0
    /\ life' = [life EXCEPT ![s] = IF @ = "live" THEN "unlinked" ELSE @]

(* Slip: session_count is left to the caller. *)
UnlinkUncounted(s) ==
    /\ hashMx = Free
    /\ table' = [table EXCEPT ![uuid[s]] = NoSession]
    /\ count' = count
    /\ life' = [life EXCEPT ![s] = IF @ = "live" THEN "unlinked" ELSE @]

Unlink(s) ==
    /\ hashMx = Free
    /\ table' = [table EXCEPT ![uuid[s]] = NoSession]
    /\ count' = IF count > 0 THEN count - 1 ELSE 0
    /\ life' = [life EXCEPT ![s] = IF @ = "live" THEN "unlinked" ELSE @]

(* An endpoint's setup failed: it destroys the session it was given.  A thread
   that runs the session by then is only logged. *)
RequestFail(r) ==
    /\ SetupFails /\ rpc[r] = "have"
    /\ rpc' = [rpc EXCEPT ![r] = "unlink"]
    /\ UNCHANGED <<table, count, hashMx, sessVars, want, mine, readVars>>

RequestUnlink(r) ==
    /\ rpc[r] = "unlink" /\ Unlink(mine[r])
    /\ rpc' = [rpc EXCEPT ![r] = "free"]
    /\ UNCHANGED <<hashMx, uuid, up, started, destroyed, tpc, wr, rd, want, mine, readVars>>

RequestFree(r) ==
    /\ rpc[r] = "free"
    /\ life' = [life EXCEPT ![mine[r]] = "freed"]
    /\ Turns(r, "idle")
    /\ UNCHANGED <<table, count, hashMx, uuid, up, started, destroyed, tpc, wr, rd, readVars>>

-----------------------------------------------------------------------------
(* switch_core_session_thread *)

ThreadEnd(s) ==
    /\ tpc[s] = "run" /\ ~up[s]
    /\ tpc' = [tpc EXCEPT ![s] = "ended"]
    /\ UNCHANGED <<table, count, hashMx, life, uuid, up, started, destroyed, wr, rd, reqVars, readVars>>

(* Slip: the write lock is asked for and not waited for. *)
WriteLockTry(s) ==
    /\ tpc[s] = "ended"
    /\ wr' = [wr EXCEPT ![s] = rd[s] = {}]
    /\ tpc' = [tpc EXCEPT ![s] = "written"]
    /\ UNCHANGED <<table, count, hashMx, life, uuid, up, started, destroyed, rd, reqVars, readVars>>

WriteLock(s) ==
    /\ tpc[s] = "ended" /\ rd[s] = {}
    /\ wr' = [wr EXCEPT ![s] = TRUE]
    /\ tpc' = [tpc EXCEPT ![s] = "written"]
    /\ UNCHANGED <<table, count, hashMx, life, uuid, up, started, destroyed, rd, reqVars, readVars>>

MarkDestroyed(s) ==
    /\ tpc[s] = "written"
    /\ destroyed' = [destroyed EXCEPT ![s] = TRUE] /\ wr' = [wr EXCEPT ![s] = FALSE]
    /\ tpc' = [tpc EXCEPT ![s] = "doomed"]
    /\ UNCHANGED <<table, count, hashMx, life, uuid, up, started, rd, reqVars, readVars>>

ThreadUnlink(s) ==
    /\ tpc[s] = "doomed" /\ Unlink(s)
    /\ tpc' = [tpc EXCEPT ![s] = "unlinked"]
    /\ UNCHANGED <<hashMx, uuid, up, started, destroyed, wr, rd, reqVars, readVars>>

ThreadFree(s) ==
    /\ tpc[s] = "unlinked"
    /\ life' = [life EXCEPT ![s] = "freed"] /\ tpc' = [tpc EXCEPT ![s] = "gone"]
    /\ UNCHANGED <<table, count, hashMx, uuid, up, started, destroyed, wr, rd, reqVars, readVars>>

(* The call ends by itself. *)
OwnHangup(s) ==
    /\ tpc[s] = "run" /\ up[s]
    /\ up' = [up EXCEPT ![s] = FALSE]
    /\ UNCHANGED <<table, count, hashMx, life, uuid, started, destroyed, tpc, wr, rd, reqVars, readVars>>

-----------------------------------------------------------------------------
(* Readers: switch_core_session_locate, force_locate, message_send and
   event_send look the uuid up under the mutex. *)

(* A reader goes on with its session, or has none any more. *)
Goes(p, place) ==
    /\ ppc' = [ppc EXCEPT ![p] = place]
    /\ psess' = IF place = "idle" THEN [psess EXCEPT ![p] = NoSession] ELSE psess
    /\ mode' = IF place = "idle" THEN [mode EXCEPT ![p] = "locate"] ELSE mode

Lookup(p, u, m) ==
    /\ ppc[p] = "idle" /\ hashMx = Free /\ table[u] # NoSession
    /\ hashMx' = p
    /\ ppc' = [ppc EXCEPT ![p] = "test"] /\ psess' = [psess EXCEPT ![p] = table[u]]
    /\ mode' = [mode EXCEPT ![p] = m]
    /\ UNCHANGED <<table, count, sessVars, reqVars, late>>

(* switch_core_session_read_lock, first half: SSF_DESTROYED, and the channel
   unless the call is force_locate *)
Test(p) ==
    LET s == psess[p]
        refused == destroyed[s] \/ (mode[p] # "force" /\ ~up[s])
    IN  /\ ppc[p] = "test"
        /\ Goes(p, IF ~refused THEN "try" ELSE IF mode[p] = "force" THEN "idle" ELSE "refused")
        /\ hashMx' = IF refused /\ mode[p] = "force" THEN Free ELSE hashMx
        /\ UNCHANGED <<table, count, sessVars, reqVars, late>>

(* second half: switch_thread_rwlock_tryrdlock *)
Try(p) ==
    LET s == psess[p]
    IN  /\ ppc[p] = "try"
        /\ rd' = IF wr[s] THEN rd ELSE [rd EXCEPT ![s] = @ \cup {p}]
        /\ late' = [late EXCEPT ![p] = ~wr[s] /\ destroyed[s]]
        /\ Goes(p, IF wr[s] THEN "idle" ELSE IF mode[p] = "send" THEN "send" ELSE "use")
        /\ hashMx' = IF ~wr[s] /\ mode[p] = "send" THEN hashMx ELSE Free
        /\ UNCHANGED <<table, count, life, uuid, up, started, destroyed, tpc, wr, reqVars>>

(* Slip: session_hash_mutex is kept when the session is locked for writing. *)
PingLockKeeps(p) ==
    LET s == psess[p]
    IN  /\ ppc[p] = "refused"
        /\ rd' = IF wr[s] THEN rd ELSE [rd EXCEPT ![s] = @ \cup {p}]
        /\ Goes(p, IF wr[s] THEN "idle" ELSE "ping")
        /\ UNCHANGED <<table, count, hashMx, life, uuid, up, started, destroyed, tpc, wr, reqVars, late>>

(* A refused session that can be locked is pinged if its thread sleeps. *)
PingLock(p) ==
    LET s == psess[p]
    IN  /\ ppc[p] = "refused"
        /\ rd' = IF wr[s] THEN rd ELSE [rd EXCEPT ![s] = @ \cup {p}]
        /\ Goes(p, IF wr[s] THEN "idle" ELSE "ping")
        /\ hashMx' = IF wr[s] THEN Free ELSE hashMx
        /\ UNCHANGED <<table, count, life, uuid, up, started, destroyed, tpc, wr, reqVars, late>>

(* the end of the ping, of message_send, and switch_core_session_rwunlock *)
Release(p) ==
    /\ ppc[p] \in {"ping", "send", "use"}
    /\ rd' = [rd EXCEPT ![psess[p]] = @ \ {p}]
    /\ Goes(p, "idle") /\ late' = [late EXCEPT ![p] = FALSE]
    /\ hashMx' = IF ppc[p] = "use" THEN hashMx ELSE Free
    /\ UNCHANGED <<table, count, life, uuid, up, started, destroyed, tpc, wr, reqVars>>

(* switch_channel_hangup on a located session, as hupall does *)
HangupHeld(p) ==
    LET s == psess[p]
    IN  /\ ppc[p] = "use" /\ up[s] /\ (started[s] \/ EarlyHangups)
        /\ up' = [up EXCEPT ![s] = FALSE]
        /\ LaunchEffect(s)
        /\ UNCHANGED <<table, count, hashMx, life, uuid, destroyed, wr, rd, reqVars, readVars>>

RequestStep(r) ==
    \/ \E u \in Uuids : RequestCheck(r, u) \/ SetUuid(r, u)
    \/ RequestAdmit(r) \/ RequestInsert(r) \/ RequestLaunch(r)
    \/ RequestFail(r) \/ RequestUnlink(r) \/ RequestFree(r)

ThreadStep(s) ==
    ThreadEnd(s) \/ WriteLock(s) \/ MarkDestroyed(s) \/ ThreadUnlink(s) \/ ThreadFree(s)

ReadStep(p) == Test(p) \/ Try(p) \/ PingLock(p) \/ Release(p)

Next ==
    \/ \E r \in Requesters : RequestStep(r)
    \/ \E s \in Sessions : ThreadStep(s) \/ OwnHangup(s)
    \/ \E p \in Readers : ReadStep(p) \/ HangupHeld(p)
                          \/ \E u \in Uuids, m \in Modes : Lookup(p, u, m)

Spec == Init /\ [][Next]_vars

(* Threads are scheduled, a reader that got a lock gives it back, and neither
   the write lock nor the hash mutex is denied for ever. *)
FairSpec ==
    /\ Spec
    /\ \A s \in Sessions : SF_vars(ThreadStep(s))
    /\ \A p \in Readers : WF_vars(ReadStep(p))

-----------------------------------------------------------------------------
(* Properties. *)

(* The table never holds a session that was unlinked or freed, and holds each
   under its own uuid, although duplicates are looked for before the insertion
   and outside the mutex. *)
TableLive ==
    \A u \in Uuids : table[u] # NoSession => life[table[u]] = "live" /\ uuid[table[u]] = u

(* What is done under session_hash_mutex (message_send, event_send, the pings
   and the first part of every locate) is done to a session that is not even
   unlinked. *)
UnderMutexAlive ==
    \A p \in Readers : ppc[p] \in UnderMutex => life[psess[p]] = "live"

(* A launched session that was locked before its thread marked it destroyed
   is not destroyed until the lock is given back. *)
LockedAlive ==
    \A p \in Readers : ppc[p] = "use" /\ ~late[p] /\ started[psess[p]] => life[psess[p]] = "live"

(* session_count is the number of sessions not yet destroyed: nothing is
   counted down twice or forgotten. *)
CountExact == count = Cardinality({s \in Sessions : life[s] = "live"})

(* The limit is tested before the session is counted, so it can be passed, by
   at most one session per other request under way. *)
LimitOvershoot == count <= Limit + Cardinality(Requesters) - 1

(* A session that has been hung up is destroyed in the end, unless readers
   (of force_locate, or refused ones) share its lock for ever. *)
HungUpIsFreed ==
    \A s \in Sessions :
        []<>(rd[s] = {}) => ((life[s] = "live" /\ ~up[s]) ~> (life[s] = "freed"))

(* No session is leaked: one that is not freed has its thread, which ends with
   ThreadFree, or a requester that still has to launch or destroy it; one that
   was hung up has its thread, whoever hung it up and whenever. *)
NoneLeaked ==
    \A s \in Sessions :
        /\ life[s] \in {"live", "unlinked"} =>
              \/ tpc[s] \notin {"off", "gone"}
              \/ \E r \in Requesters : mine[r] = s /\ rpc[r] \in {"have", "unlink", "free"}
        /\ life[s] = "live" /\ ~up[s] => tpc[s] \notin {"off", "gone"}

(* Any session a reader has been given is safe to read from
   (switch_core_session_read_lock's promise). *)
SafeToRead == \A p \in Readers : ppc[p] = "use" => life[psess[p]] # "freed"

(* Destroying a running session is ignored
   (switch_core_session_perform_destroy's message). *)
DestroyIgnored ==
    [][\A r \in Requesters :
          rpc[r] = "have" /\ rpc'[r] = "unlink" => tpc[mine[r]] # "run"]_vars
=============================================================================
