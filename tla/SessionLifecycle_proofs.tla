---------------------- MODULE SessionLifecycle_proofs ----------------------
(***************************************************************************)
(* The session table, its count and the session locks, for any number of   *)
(* sessions, uuids, requesters and readers.  The limit and the ranges hold *)
(* whoever hangs up a session, and whenever; the rest holds as long as a   *)
(* session is hung up by others only after it was launched.                *)
(***************************************************************************)
EXTENDS SessionLifecycle, FiniteSetTheorems, TLAPS

Holding == {"ping", "send", "use"}
Owning == {"have", "unlink", "free"}

(* TypeOK with the count left open above. *)
Types ==
    /\ table \in [Uuids -> Sessions \cup {NoSession}]
    /\ count \in Nat
    /\ hashMx \in Readers \cup {Free}
    /\ life \in [Sessions -> {"none", "live", "unlinked", "freed"}]
    /\ uuid \in [Sessions -> Uuids \cup {NoUuid}]
    /\ up \in [Sessions -> BOOLEAN] /\ started \in [Sessions -> BOOLEAN]
    /\ destroyed \in [Sessions -> BOOLEAN] /\ wr \in [Sessions -> BOOLEAN]
    /\ tpc \in [Sessions -> {"off", "run", "ended", "written", "doomed", "unlinked", "gone"}]
    /\ rd \in [Sessions -> SUBSET Readers]
    /\ rpc \in [Requesters -> {"idle", "admit", "insert", "have", "unlink", "free"}]
    /\ want \in [Requesters -> Uuids \cup {NoUuid}]
    /\ mine \in [Requesters -> Sessions \cup {NoSession}]
    /\ ppc \in [Readers -> {"idle", "use"} \cup UnderMutex]
    /\ psess \in [Readers -> Sessions \cup {NoSession}]
    /\ mode \in [Readers -> Modes] /\ late \in [Readers -> BOOLEAN]

(* Where a session's thread is says what has become of the session. *)
ThreadInv ==
    \A s \in Sessions :
        /\ started[s] <=> tpc[s] # "off"
        /\ wr[s] <=> tpc[s] = "written"
        /\ destroyed[s] <=> tpc[s] \in {"doomed", "unlinked", "gone"}
        /\ tpc[s] \in {"run", "ended", "written", "doomed"} => life[s] = "live"
        /\ life[s] # "none" => uuid[s] \in Uuids
        /\ tpc[s] # "off" => life[s] # "none"
        /\ tpc[s] = "unlinked" => life[s] = "unlinked"

(* A requester's session is its own and has no thread yet. *)
RequestInv ==
    /\ \A r \in Requesters : rpc[r] \in {"admit", "insert"} => want[r] \in Uuids
    /\ \A r \in Requesters : rpc[r] \in Owning =>
            /\ mine[r] \in Sessions /\ tpc[mine[r]] = "off"
            /\ rpc[r] \in {"have", "unlink"} => life[mine[r]] = "live"
            /\ rpc[r] = "free" => life[mine[r]] = "unlinked"
    /\ \A r, q \in Requesters : rpc[r] \in Owning /\ rpc[q] \in Owning /\ mine[r] = mine[q] => r = q

(* Who has session_hash_mutex and who has read locks. *)
ReadInv ==
    /\ \A p \in Readers : hashMx = p <=> ppc[p] \in UnderMutex
    /\ \A p \in Readers : ppc[p] # "idle" => psess[p] \in Sessions
    /\ \A p \in Readers, s \in Sessions : p \in rd[s] <=> ppc[p] \in Holding /\ psess[p] = s
    /\ \A s \in Sessions : wr[s] => rd[s] = {}
    /\ \A p \in Readers : ppc[p] = "use" /\ ~late[p] => tpc[psess[p]] \in {"off", "run", "ended"}

LInv == Types /\ ThreadInv /\ RequestInv /\ ReadInv /\ TableLive /\ UnderMutexAlive

Live == {s \in Sessions : life[s] = "live"}
Inserting == {r \in Requesters : rpc[r] = "insert"}

(* Requests that passed the limit are counted with the sessions. *)
LimitInv == count + Cardinality(Inserting) <= Limit + Cardinality(Requesters) - 1

(* No session is written and read at once. *)
LockInv == \A s \in Sessions : wr[s] => rd[s] = {}

(* The count never runs ahead of the sessions that were made. *)
Made == {s \in Sessions : life[s] # "none"}
MadeInv == count <= Cardinality(Made)

(* A session without a thread is that of a requester at work on it and has not
   been hung up; a thread that is gone has freed its session. *)
ThreadLeft ==
    \A s \in Sessions :
        /\ started[s] \/ ~up[s] => tpc[s] # "off"
        /\ tpc[s] = "gone" => life[s] = "freed"
OwnerLeft ==
    \A s \in Sessions : life[s] \in {"live", "unlinked"} /\ tpc[s] = "off" =>
        \E r \in Requesters : mine[r] = s /\ rpc[r] \in Owning

(* What an early hangup leaves standing, and what it does not. *)
BaseInv == Types /\ LockInv /\ MadeInv /\ LimitInv /\ ThreadLeft /\ OwnerLeft

IInv == LInv /\ CountExact

-----------------------------------------------------------------------------
(* Initially no session exists and nobody is at work. *)
LEMMA InitIInv == Init => IInv
<1> SUFFICES ASSUME Init PROVE IInv
  OBVIOUS
<1>1. Types
  BY DEF Init, Types, Modes
<1>2. ThreadInv /\ RequestInv /\ ReadInv /\ TableLive /\ UnderMutexAlive
  BY NoneAssumption DEF Init, ThreadInv, RequestInv, ReadInv, TableLive, UnderMutexAlive, Owning, Holding, UnderMutex
<1>3. {s \in Sessions : life[s] = "live"} = {}
  BY DEF Init
<1>4. CountExact
  BY <1>3, FS_EmptySet, Zenon DEF CountExact, Init
<1> QED
  BY <1>1, <1>2, <1>4 DEF IInv, LInv

(* Nor is any session locked or counted. *)
LEMMA InitBase == Init => BaseInv
<1> SUFFICES ASSUME Init PROVE BaseInv
  OBVIOUS
<1>1. Types /\ LockInv
  BY DEF Init, Types, Modes, LockInv
<1>2. Inserting = {} /\ Made = {}
  BY DEF Init, Inserting, Made
<1>3. LimitInv
  BY <1>2, FS_EmptySet, FS_CardinalityType, SetsAssumption, LimitAssumption DEF LimitInv, Init
<1>4. MadeInv
  BY <1>2, FS_EmptySet DEF MadeInv, Init
<1>5. ThreadLeft /\ OwnerLeft
  BY DEF Init, ThreadLeft, OwnerLeft
<1> QED
  BY <1>1, <1>3, <1>4, <1>5 DEF BaseInv

(* An entry of a table is written, or the key is none of the table's. *)
LEMMA EntryTyped ==
    ASSUME NEW D, NEW R, NEW f \in [D -> R], NEW k, NEW v \in R
    PROVE  [f EXCEPT ![k] = v] \in [D -> R]
  BY Zenon

(* Taking a session out of the table keeps the ranges. *)
LEMMA UnlinkTypes ==
    ASSUME Types, NEW s \in Sessions \cup {NoSession}, Unlink(s)
    PROVE  /\ table' \in [Uuids -> Sessions \cup {NoSession}] /\ count' \in Nat
           /\ life' \in [Sessions -> {"none", "live", "unlinked", "freed"}]
<1>1. table' \in [Uuids -> Sessions \cup {NoSession}]
  BY EntryTyped, Zenon DEF Unlink, Types
<1>2. count' \in Nat
  BY DEF Unlink, Types
<1>3. life' \in [Sessions -> {"none", "live", "unlinked", "freed"}]
  BY Zenon DEF Unlink, Types
<1> QED
  BY <1>1, <1>2, <1>3

(* Every step keeps every variable in its range. *)
LEMMA StepTypes ==
    ASSUME Types, Next PROVE Types'
<1> USE DEF sessVars, reqVars, readVars
<1>1. ASSUME NEW r \in Requesters, NEW u \in Uuids, RequestCheck(r, u) PROVE Types'
  BY <1>1 DEF RequestCheck, Types, UnderMutex, Modes
<1>2. ASSUME NEW r \in Requesters, NEW u \in Uuids, SetUuid(r, u) PROVE Types'
  BY <1>2, Zenon DEF SetUuid, Types, UnderMutex, Modes
<1>3. ASSUME NEW r \in Requesters, RequestAdmit(r) PROVE Types'
  BY <1>3 DEF RequestAdmit, Turns, Types, UnderMutex, Modes
<1>4. ASSUME NEW r \in Requesters, RequestInsert(r) PROVE Types'
  <2>1. PICK s \in Sessions :
          /\ life' = [life EXCEPT ![s] = "live"] /\ uuid' = [uuid EXCEPT ![s] = want[r]]
          /\ table' = [table EXCEPT ![want[r]] = s] /\ mine' = [mine EXCEPT ![r] = s]
    BY <1>4, Zenon DEF RequestInsert
  <2>2. table' \in [Uuids -> Sessions \cup {NoSession}]
    BY <2>1, EntryTyped DEF Types
  <2> QED
    BY <1>4, <2>1, <2>2 DEF RequestInsert, Types
<1>5. ASSUME NEW r \in Requesters, RequestLaunch(r) PROVE Types'
  BY <1>5, Zenon DEF RequestLaunch, Turns, LaunchEffect, Types, UnderMutex, Modes
<1>6. ASSUME NEW r \in Requesters, RequestFail(r) PROVE Types'
  BY <1>6 DEF RequestFail, Types, UnderMutex, Modes
<1>7. ASSUME NEW r \in Requesters, RequestUnlink(r) PROVE Types'
  <2>1. mine[r] \in Sessions \cup {NoSession} /\ Unlink(mine[r])
    BY <1>7 DEF RequestUnlink, Types
  <2> QED
    BY <1>7, <2>1, UnlinkTypes DEF RequestUnlink, Types
<1>8. ASSUME NEW r \in Requesters, RequestFree(r) PROVE Types'
  BY <1>8, Zenon DEF RequestFree, Turns, Types, UnderMutex, Modes
<1>9. ASSUME NEW s \in Sessions, ThreadEnd(s) PROVE Types'
  BY <1>9 DEF ThreadEnd, Types, UnderMutex, Modes
<1>10. ASSUME NEW s \in Sessions, WriteLock(s) PROVE Types'
  BY <1>10 DEF WriteLock, Types, UnderMutex, Modes
<1>11. ASSUME NEW s \in Sessions, MarkDestroyed(s) PROVE Types'
  BY <1>11 DEF MarkDestroyed, Types, UnderMutex, Modes
<1>12. ASSUME NEW s \in Sessions, ThreadUnlink(s) PROVE Types'
  <2>1. Unlink(s)
    BY <1>12 DEF ThreadUnlink
  <2> QED
    BY <1>12, <2>1, UnlinkTypes DEF ThreadUnlink, Types
<1>13. ASSUME NEW s \in Sessions, ThreadFree(s) PROVE Types'
  BY <1>13 DEF ThreadFree, Types, UnderMutex, Modes
<1>14. ASSUME NEW s \in Sessions, OwnHangup(s) PROVE Types'
  BY <1>14 DEF OwnHangup, Types, UnderMutex, Modes
<1>15. ASSUME NEW p \in Readers, Test(p) PROVE Types'
  BY <1>15 DEF Test, Goes, Types, UnderMutex, Modes
<1>16. ASSUME NEW p \in Readers, Try(p) PROVE Types'
  BY <1>16, Zenon DEF Try, Goes, Types, UnderMutex, Modes
<1>17. ASSUME NEW p \in Readers, PingLock(p) PROVE Types'
  BY <1>17, Zenon DEF PingLock, Goes, Types, UnderMutex, Modes
<1>18. ASSUME NEW p \in Readers, Release(p) PROVE Types'
  BY <1>18, Zenon DEF Release, Goes, Types, UnderMutex, Modes
<1>19. ASSUME NEW p \in Readers, HangupHeld(p) PROVE Types'
  BY <1>19, Zenon DEF HangupHeld, LaunchEffect, Types, UnderMutex, Modes
<1>20. ASSUME NEW p \in Readers, NEW u \in Uuids, NEW m \in Modes, Lookup(p, u, m) PROVE Types'
  BY <1>20 DEF Lookup, Types, UnderMutex, Modes
<1> QED
  BY <1>1, <1>2, <1>3, <1>4, <1>5, <1>6, <1>7, <1>8, <1>9, <1>10, <1>11, <1>12, <1>13, <1>14, <1>15, <1>16, <1>17, <1>18, <1>19, <1>20, SMTT(30) DEF Next, RequestStep, ThreadStep, ReadStep

(* A session goes with its thread, from the launch to the end. *)
LEMMA StepThreads ==
    ASSUME LInv, ~EarlyHangups, Next PROVE ThreadInv'
<1> USE NoneAssumption DEF LInv, sessVars, reqVars, readVars
<1>1. ASSUME NEW r \in Requesters, NEW u \in Uuids, RequestCheck(r, u) PROVE ThreadInv'
  BY <1>1 DEF RequestCheck, Types, ThreadInv, RequestInv, ReadInv, Owning
<1>2. ASSUME NEW r \in Requesters, NEW u \in Uuids, SetUuid(r, u) PROVE ThreadInv'
  BY <1>2 DEF SetUuid, Types, ThreadInv, RequestInv, ReadInv, Owning
<1>3. ASSUME NEW r \in Requesters, RequestAdmit(r) PROVE ThreadInv'
  BY <1>3 DEF RequestAdmit, Turns, Types, ThreadInv, RequestInv, ReadInv, Owning
<1>4. ASSUME NEW r \in Requesters, RequestInsert(r) PROVE ThreadInv'
  BY <1>4 DEF RequestInsert, Types, ThreadInv, RequestInv, ReadInv, Owning
<1>5. ASSUME NEW r \in Requesters, RequestLaunch(r) PROVE ThreadInv'
  BY <1>5 DEF RequestLaunch, Turns, LaunchEffect, Types, ThreadInv, RequestInv, ReadInv, Owning
<1>6. ASSUME NEW r \in Requesters, RequestFail(r) PROVE ThreadInv'
  BY <1>6 DEF RequestFail, Types, ThreadInv, RequestInv, ReadInv, Owning
<1>7. ASSUME NEW r \in Requesters, RequestUnlink(r) PROVE ThreadInv'
  BY <1>7 DEF RequestUnlink, Unlink, Types, ThreadInv, RequestInv, ReadInv, Owning
<1>8. ASSUME NEW r \in Requesters, RequestFree(r) PROVE ThreadInv'
  BY <1>8 DEF RequestFree, Turns, Types, ThreadInv, RequestInv, ReadInv, Owning
<1>9. ASSUME NEW s \in Sessions, ThreadEnd(s) PROVE ThreadInv'
  BY <1>9 DEF ThreadEnd, Types, ThreadInv, RequestInv, ReadInv, Owning
<1>10. ASSUME NEW s \in Sessions, WriteLock(s) PROVE ThreadInv'
  BY <1>10 DEF WriteLock, Types, ThreadInv, RequestInv, ReadInv, Owning
<1>11. ASSUME NEW s \in Sessions, MarkDestroyed(s) PROVE ThreadInv'
  BY <1>11 DEF MarkDestroyed, Types, ThreadInv, RequestInv, ReadInv, Owning
<1>12. ASSUME NEW s \in Sessions, ThreadUnlink(s) PROVE ThreadInv'
  BY <1>12 DEF ThreadUnlink, Unlink, Types, ThreadInv, RequestInv, ReadInv, Owning
<1>13. ASSUME NEW s \in Sessions, ThreadFree(s) PROVE ThreadInv'
  BY <1>13 DEF ThreadFree, Types, ThreadInv, RequestInv, ReadInv, Owning
<1>14. ASSUME NEW s \in Sessions, OwnHangup(s) PROVE ThreadInv'
  BY <1>14 DEF OwnHangup, Types, ThreadInv, RequestInv, ReadInv, Owning
<1>15. ASSUME NEW p \in Readers, Test(p) PROVE ThreadInv'
  BY <1>15 DEF Test, Goes, Types, ThreadInv, RequestInv, ReadInv, Owning
<1>16. ASSUME NEW p \in Readers, Try(p) PROVE ThreadInv'
  BY <1>16 DEF Try, Goes, Types, ThreadInv, RequestInv, ReadInv, Owning
<1>17. ASSUME NEW p \in Readers, PingLock(p) PROVE ThreadInv'
  BY <1>17 DEF PingLock, Goes, Types, ThreadInv, RequestInv, ReadInv, Owning
<1>18. ASSUME NEW p \in Readers, Release(p) PROVE ThreadInv'
  BY <1>18 DEF Release, Goes, Types, ThreadInv, RequestInv, ReadInv, Owning
<1>19. ASSUME NEW p \in Readers, HangupHeld(p) PROVE ThreadInv'
  BY <1>19 DEF HangupHeld, LaunchEffect, Types, ThreadInv, RequestInv, ReadInv, Owning
<1>20. ASSUME NEW p \in Readers, NEW u \in Uuids, NEW m \in Modes, Lookup(p, u, m) PROVE ThreadInv'
  BY <1>20 DEF Lookup, Types, ThreadInv, RequestInv, ReadInv, Owning
<1> QED
  BY <1>1, <1>2, <1>3, <1>4, <1>5, <1>6, <1>7, <1>8, <1>9, <1>10, <1>11, <1>12, <1>13, <1>14, <1>15, <1>16, <1>17, <1>18, <1>19, <1>20, SMTT(30) DEF Next, RequestStep, ThreadStep, ReadStep

(* No two requesters have the same session, and nobody launches a session whose requester is still at work on it. *)
LEMMA StepRequests ==
    ASSUME LInv, ~EarlyHangups, Next PROVE RequestInv'
<1> USE NoneAssumption DEF LInv, sessVars, reqVars, readVars
<1>1. ASSUME NEW r \in Requesters, NEW u \in Uuids, RequestCheck(r, u) PROVE RequestInv'
  BY <1>1 DEF RequestCheck, Types, ThreadInv, RequestInv, ReadInv, Owning
<1>2. ASSUME NEW r \in Requesters, NEW u \in Uuids, SetUuid(r, u) PROVE RequestInv'
  BY <1>2 DEF SetUuid, Types, ThreadInv, RequestInv, ReadInv, Owning
<1>3. ASSUME NEW r \in Requesters, RequestAdmit(r) PROVE RequestInv'
  BY <1>3 DEF RequestAdmit, Turns, Types, ThreadInv, RequestInv, ReadInv, Owning
<1>4. ASSUME NEW r \in Requesters, RequestInsert(r) PROVE RequestInv'
  BY <1>4 DEF RequestInsert, Types, ThreadInv, RequestInv, ReadInv, Owning
<1>5. ASSUME NEW r \in Requesters, RequestLaunch(r) PROVE RequestInv'
  BY <1>5 DEF RequestLaunch, Turns, LaunchEffect, Types, ThreadInv, RequestInv, ReadInv, Owning
<1>6. ASSUME NEW r \in Requesters, RequestFail(r) PROVE RequestInv'
  BY <1>6 DEF RequestFail, Types, ThreadInv, RequestInv, ReadInv, Owning
<1>7. ASSUME NEW r \in Requesters, RequestUnlink(r) PROVE RequestInv'
  BY <1>7 DEF RequestUnlink, Unlink, Types, ThreadInv, RequestInv, ReadInv, Owning
<1>8. ASSUME NEW r \in Requesters, RequestFree(r) PROVE RequestInv'
  BY <1>8 DEF RequestFree, Turns, Types, ThreadInv, RequestInv, ReadInv, Owning
<1>9. ASSUME NEW s \in Sessions, ThreadEnd(s) PROVE RequestInv'
  BY <1>9 DEF ThreadEnd, Types, ThreadInv, RequestInv, ReadInv, Owning
<1>10. ASSUME NEW s \in Sessions, WriteLock(s) PROVE RequestInv'
  BY <1>10 DEF WriteLock, Types, ThreadInv, RequestInv, ReadInv, Owning
<1>11. ASSUME NEW s \in Sessions, MarkDestroyed(s) PROVE RequestInv'
  BY <1>11 DEF MarkDestroyed, Types, ThreadInv, RequestInv, ReadInv, Owning
<1>12. ASSUME NEW s \in Sessions, ThreadUnlink(s) PROVE RequestInv'
  BY <1>12 DEF ThreadUnlink, Unlink, Types, ThreadInv, RequestInv, ReadInv, Owning
<1>13. ASSUME NEW s \in Sessions, ThreadFree(s) PROVE RequestInv'
  BY <1>13 DEF ThreadFree, Types, ThreadInv, RequestInv, ReadInv, Owning
<1>14. ASSUME NEW s \in Sessions, OwnHangup(s) PROVE RequestInv'
  BY <1>14 DEF OwnHangup, Types, ThreadInv, RequestInv, ReadInv, Owning
<1>15. ASSUME NEW p \in Readers, Test(p) PROVE RequestInv'
  BY <1>15 DEF Test, Goes, Types, ThreadInv, RequestInv, ReadInv, Owning
<1>16. ASSUME NEW p \in Readers, Try(p) PROVE RequestInv'
  BY <1>16 DEF Try, Goes, Types, ThreadInv, RequestInv, ReadInv, Owning
<1>17. ASSUME NEW p \in Readers, PingLock(p) PROVE RequestInv'
  BY <1>17 DEF PingLock, Goes, Types, ThreadInv, RequestInv, ReadInv, Owning
<1>18. ASSUME NEW p \in Readers, Release(p) PROVE RequestInv'
  BY <1>18 DEF Release, Goes, Types, ThreadInv, RequestInv, ReadInv, Owning
<1>19. ASSUME NEW p \in Readers, HangupHeld(p) PROVE RequestInv'
  BY <1>19 DEF HangupHeld, LaunchEffect, Types, ThreadInv, RequestInv, ReadInv, Owning
<1>20. ASSUME NEW p \in Readers, NEW u \in Uuids, NEW m \in Modes, Lookup(p, u, m) PROVE RequestInv'
  BY <1>20 DEF Lookup, Types, ThreadInv, RequestInv, ReadInv, Owning
<1> QED
  BY <1>1, <1>2, <1>3, <1>4, <1>5, <1>6, <1>7, <1>8, <1>9, <1>10, <1>11, <1>12, <1>13, <1>14, <1>15, <1>16, <1>17, <1>18, <1>19, <1>20, SMTT(30) DEF Next, RequestStep, ThreadStep, ReadStep

(* The mutex and the read locks are held where the readers are, and the write lock keeps sessions from being marked under those who use them. *)
LEMMA StepReads ==
    ASSUME LInv, ~EarlyHangups, Next PROVE ReadInv'
<1> USE NoneAssumption DEF LInv, sessVars, reqVars, readVars
<1>1. ASSUME NEW r \in Requesters, NEW u \in Uuids, RequestCheck(r, u) PROVE ReadInv'
  BY <1>1 DEF RequestCheck, Types, ThreadInv, RequestInv, ReadInv, TableLive, UnderMutexAlive, Owning, Holding, UnderMutex
<1>2. ASSUME NEW r \in Requesters, NEW u \in Uuids, SetUuid(r, u) PROVE ReadInv'
  BY <1>2 DEF SetUuid, Types, ThreadInv, RequestInv, ReadInv, TableLive, UnderMutexAlive, Owning, Holding, UnderMutex
<1>3. ASSUME NEW r \in Requesters, RequestAdmit(r) PROVE ReadInv'
  BY <1>3 DEF RequestAdmit, Turns, Types, ThreadInv, RequestInv, ReadInv, TableLive, UnderMutexAlive, Owning, Holding, UnderMutex
<1>4. ASSUME NEW r \in Requesters, RequestInsert(r) PROVE ReadInv'
  BY <1>4 DEF RequestInsert, Types, ThreadInv, RequestInv, ReadInv, TableLive, UnderMutexAlive, Owning, Holding, UnderMutex
<1>5. ASSUME NEW r \in Requesters, RequestLaunch(r) PROVE ReadInv'
  BY <1>5 DEF RequestLaunch, Turns, LaunchEffect, Types, ThreadInv, RequestInv, ReadInv, TableLive, UnderMutexAlive, Owning, Holding, UnderMutex
<1>6. ASSUME NEW r \in Requesters, RequestFail(r) PROVE ReadInv'
  BY <1>6 DEF RequestFail, Types, ThreadInv, RequestInv, ReadInv, TableLive, UnderMutexAlive, Owning, Holding, UnderMutex
<1>7. ASSUME NEW r \in Requesters, RequestUnlink(r) PROVE ReadInv'
  BY <1>7 DEF RequestUnlink, Unlink, Types, ThreadInv, RequestInv, ReadInv, TableLive, UnderMutexAlive, Owning, Holding, UnderMutex
<1>8. ASSUME NEW r \in Requesters, RequestFree(r) PROVE ReadInv'
  BY <1>8 DEF RequestFree, Turns, Types, ThreadInv, RequestInv, ReadInv, TableLive, UnderMutexAlive, Owning, Holding, UnderMutex
<1>9. ASSUME NEW s \in Sessions, ThreadEnd(s) PROVE ReadInv'
  BY <1>9 DEF ThreadEnd, Types, ThreadInv, RequestInv, ReadInv, TableLive, UnderMutexAlive, Owning, Holding, UnderMutex
<1>10. ASSUME NEW s \in Sessions, WriteLock(s) PROVE ReadInv'
  BY <1>10 DEF WriteLock, Types, ThreadInv, RequestInv, ReadInv, TableLive, UnderMutexAlive, Owning, Holding, UnderMutex
<1>11. ASSUME NEW s \in Sessions, MarkDestroyed(s) PROVE ReadInv'
  BY <1>11 DEF MarkDestroyed, Types, ThreadInv, RequestInv, ReadInv, TableLive, UnderMutexAlive, Owning, Holding, UnderMutex
<1>12. ASSUME NEW s \in Sessions, ThreadUnlink(s) PROVE ReadInv'
  BY <1>12 DEF ThreadUnlink, Unlink, Types, ThreadInv, RequestInv, ReadInv, TableLive, UnderMutexAlive, Owning, Holding, UnderMutex
<1>13. ASSUME NEW s \in Sessions, ThreadFree(s) PROVE ReadInv'
  BY <1>13 DEF ThreadFree, Types, ThreadInv, RequestInv, ReadInv, TableLive, UnderMutexAlive, Owning, Holding, UnderMutex
<1>14. ASSUME NEW s \in Sessions, OwnHangup(s) PROVE ReadInv'
  BY <1>14, SMTT(30) DEF OwnHangup, Types, ThreadInv, RequestInv, ReadInv, TableLive, UnderMutexAlive, Owning, Holding, UnderMutex
<1>15. ASSUME NEW p \in Readers, Test(p) PROVE ReadInv'
  BY <1>15, SMTT(30) DEF Test, Goes, Types, ThreadInv, RequestInv, ReadInv, TableLive, UnderMutexAlive, Owning, Holding, UnderMutex
<1>16. ASSUME NEW p \in Readers, Try(p) PROVE ReadInv'
  BY <1>16, SMTT(30) DEF Try, Goes, Types, ThreadInv, RequestInv, ReadInv, TableLive, UnderMutexAlive, Owning, Holding, UnderMutex
<1>17. ASSUME NEW p \in Readers, PingLock(p) PROVE ReadInv'
  BY <1>17, SMTT(30) DEF PingLock, Goes, Types, ThreadInv, RequestInv, ReadInv, TableLive, UnderMutexAlive, Owning, Holding, UnderMutex
<1>18. ASSUME NEW p \in Readers, Release(p) PROVE ReadInv'
  BY <1>18, SMTT(30) DEF Release, Goes, Types, ThreadInv, RequestInv, ReadInv, TableLive, UnderMutexAlive, Owning, Holding, UnderMutex
<1>19. ASSUME NEW p \in Readers, HangupHeld(p) PROVE ReadInv'
  BY <1>19, SMTT(30) DEF HangupHeld, LaunchEffect, Types, ThreadInv, RequestInv, ReadInv, TableLive, UnderMutexAlive, Owning, Holding, UnderMutex
<1>20. ASSUME NEW p \in Readers, NEW u \in Uuids, NEW m \in Modes, Lookup(p, u, m) PROVE ReadInv'
  BY <1>20 DEF Lookup, Types, ThreadInv, RequestInv, ReadInv, TableLive, UnderMutexAlive, Owning, Holding, UnderMutex
<1> QED
  BY <1>1, <1>2, <1>3, <1>4, <1>5, <1>6, <1>7, <1>8, <1>9, <1>10, <1>11, <1>12, <1>13, <1>14, <1>15, <1>16, <1>17, <1>18, <1>19, <1>20, SMTT(30) DEF Next, RequestStep, ThreadStep, ReadStep

(* The table names sessions that exist, by their own uuid. *)
LEMMA StepTable ==
    ASSUME LInv, ~EarlyHangups, Next PROVE TableLive'
<1> USE NoneAssumption DEF LInv, sessVars, reqVars, readVars
<1>1. ASSUME NEW r \in Requesters, NEW u \in Uuids, RequestCheck(r, u) PROVE TableLive'
  BY <1>1, SMTT(30) DEF RequestCheck, Types, ThreadInv, RequestInv, TableLive, ReadInv, Owning
<1>2. ASSUME NEW r \in Requesters, NEW u \in Uuids, SetUuid(r, u) PROVE TableLive'
  BY <1>2 DEF SetUuid, Types, ThreadInv, RequestInv, TableLive, ReadInv, Owning
<1>3. ASSUME NEW r \in Requesters, RequestAdmit(r) PROVE TableLive'
  BY <1>3 DEF RequestAdmit, Turns, Types, ThreadInv, RequestInv, TableLive, ReadInv, Owning
<1>4. ASSUME NEW r \in Requesters, RequestInsert(r) PROVE TableLive'
  BY <1>4, SMTT(30) DEF RequestInsert, Types, ThreadInv, RequestInv, TableLive, ReadInv, Owning
<1>5. ASSUME NEW r \in Requesters, RequestLaunch(r) PROVE TableLive'
  BY <1>5 DEF RequestLaunch, Turns, LaunchEffect, Types, ThreadInv, RequestInv, TableLive, ReadInv, Owning
<1>6. ASSUME NEW r \in Requesters, RequestFail(r) PROVE TableLive'
  BY <1>6, SMTT(30) DEF RequestFail, Types, ThreadInv, RequestInv, TableLive, ReadInv, Owning
<1>7. ASSUME NEW r \in Requesters, RequestUnlink(r) PROVE TableLive'
  BY <1>7 DEF RequestUnlink, Unlink, Types, ThreadInv, RequestInv, TableLive, ReadInv, Owning
<1>8. ASSUME NEW r \in Requesters, RequestFree(r) PROVE TableLive'
  BY <1>8 DEF RequestFree, Turns, Types, ThreadInv, RequestInv, TableLive, ReadInv, Owning
<1>9. ASSUME NEW s \in Sessions, ThreadEnd(s) PROVE TableLive'
  BY <1>9 DEF ThreadEnd, Types, ThreadInv, RequestInv, TableLive, ReadInv, Owning
<1>10. ASSUME NEW s \in Sessions, WriteLock(s) PROVE TableLive'
  BY <1>10 DEF WriteLock, Types, ThreadInv, RequestInv, TableLive, ReadInv, Owning
<1>11. ASSUME NEW s \in Sessions, MarkDestroyed(s) PROVE TableLive'
  BY <1>11, SMTT(30) DEF MarkDestroyed, Types, ThreadInv, RequestInv, TableLive, ReadInv, Owning
<1>12. ASSUME NEW s \in Sessions, ThreadUnlink(s) PROVE TableLive'
  BY <1>12, SMTT(30) DEF ThreadUnlink, Unlink, Types, ThreadInv, RequestInv, TableLive, ReadInv, Owning
<1>13. ASSUME NEW s \in Sessions, ThreadFree(s) PROVE TableLive'
  BY <1>13, SMTT(30) DEF ThreadFree, Types, ThreadInv, RequestInv, TableLive, ReadInv, Owning
<1>14. ASSUME NEW s \in Sessions, OwnHangup(s) PROVE TableLive'
  BY <1>14 DEF OwnHangup, Types, ThreadInv, RequestInv, TableLive, ReadInv, Owning
<1>15. ASSUME NEW p \in Readers, Test(p) PROVE TableLive'
  BY <1>15, Zenon DEF Test, Goes, Types, ThreadInv, RequestInv, TableLive, ReadInv, Owning
<1>16. ASSUME NEW p \in Readers, Try(p) PROVE TableLive'
  BY <1>16, Zenon DEF Try, Goes, Types, ThreadInv, RequestInv, TableLive, ReadInv, Owning
<1>17. ASSUME NEW p \in Readers, PingLock(p) PROVE TableLive'
  BY <1>17, Zenon DEF PingLock, Goes, Types, ThreadInv, RequestInv, TableLive, ReadInv, Owning
<1>18. ASSUME NEW p \in Readers, Release(p) PROVE TableLive'
  BY <1>18, Zenon DEF Release, Goes, Types, ThreadInv, RequestInv, TableLive, ReadInv, Owning
<1>19. ASSUME NEW p \in Readers, HangupHeld(p) PROVE TableLive'
  BY <1>19, Zenon DEF HangupHeld, LaunchEffect, Types, ThreadInv, RequestInv, TableLive, ReadInv, Owning
<1>20. ASSUME NEW p \in Readers, NEW u \in Uuids, NEW m \in Modes, Lookup(p, u, m) PROVE TableLive'
  BY <1>20, Zenon DEF Lookup, Types, ThreadInv, RequestInv, TableLive, ReadInv, Owning
<1> QED
  BY <1>1, <1>2, <1>3, <1>4, <1>5, <1>6, <1>7, <1>8, <1>9, <1>10, <1>11, <1>12, <1>13, <1>14, <1>15, <1>16, <1>17, <1>18, <1>19, <1>20, SMTT(30) DEF Next, RequestStep, ThreadStep, ReadStep

(* No session is unlinked while a reader has the mutex. *)
LEMMA StepUnderMutex ==
    ASSUME LInv, ~EarlyHangups, Next PROVE UnderMutexAlive'
<1> USE NoneAssumption DEF LInv, sessVars, reqVars, readVars
<1>1. ASSUME NEW r \in Requesters, NEW u \in Uuids, RequestCheck(r, u) PROVE UnderMutexAlive'
  BY <1>1, SMTT(30) DEF RequestCheck, Types, ThreadInv, RequestInv, TableLive, ReadInv, UnderMutexAlive, Owning, Holding, UnderMutex
<1>2. ASSUME NEW r \in Requesters, NEW u \in Uuids, SetUuid(r, u) PROVE UnderMutexAlive'
  BY <1>2, SMTT(30) DEF SetUuid, Types, ThreadInv, RequestInv, TableLive, ReadInv, UnderMutexAlive, Owning, Holding, UnderMutex
<1>3. ASSUME NEW r \in Requesters, RequestAdmit(r) PROVE UnderMutexAlive'
  BY <1>3, SMTT(30) DEF RequestAdmit, Turns, Types, ThreadInv, RequestInv, TableLive, ReadInv, UnderMutexAlive, Owning, Holding, UnderMutex
<1>4. ASSUME NEW r \in Requesters, RequestInsert(r) PROVE UnderMutexAlive'
  BY <1>4, SMTT(30) DEF RequestInsert, Types, ThreadInv, RequestInv, TableLive, ReadInv, UnderMutexAlive, Owning, Holding, UnderMutex
<1>5. ASSUME NEW r \in Requesters, RequestLaunch(r) PROVE UnderMutexAlive'
  BY <1>5 DEF RequestLaunch, Turns, LaunchEffect, Types, ThreadInv, RequestInv, TableLive, ReadInv, UnderMutexAlive, Owning, Holding, UnderMutex
<1>6. ASSUME NEW r \in Requesters, RequestFail(r) PROVE UnderMutexAlive'
  BY <1>6, SMTT(30) DEF RequestFail, Types, ThreadInv, RequestInv, TableLive, ReadInv, UnderMutexAlive, Owning, Holding, UnderMutex
<1>7. ASSUME NEW r \in Requesters, RequestUnlink(r) PROVE UnderMutexAlive'
  BY <1>7 DEF RequestUnlink, Unlink, Types, ThreadInv, RequestInv, TableLive, ReadInv, UnderMutexAlive, Owning, Holding, UnderMutex
<1>8. ASSUME NEW r \in Requesters, RequestFree(r) PROVE UnderMutexAlive'
  BY <1>8 DEF RequestFree, Turns, Types, ThreadInv, RequestInv, TableLive, ReadInv, UnderMutexAlive, Owning, Holding, UnderMutex
<1>9. ASSUME NEW s \in Sessions, ThreadEnd(s) PROVE UnderMutexAlive'
  BY <1>9, SMTT(30) DEF ThreadEnd, Types, ThreadInv, RequestInv, TableLive, ReadInv, UnderMutexAlive, Owning, Holding, UnderMutex
<1>10. ASSUME NEW s \in Sessions, WriteLock(s) PROVE UnderMutexAlive'
  BY <1>10 DEF WriteLock, Types, ThreadInv, RequestInv, TableLive, ReadInv, UnderMutexAlive, Owning, Holding, UnderMutex
<1>11. ASSUME NEW s \in Sessions, MarkDestroyed(s) PROVE UnderMutexAlive'
  BY <1>11 DEF MarkDestroyed, Types, ThreadInv, RequestInv, TableLive, ReadInv, UnderMutexAlive, Owning, Holding, UnderMutex
<1>12. ASSUME NEW s \in Sessions, ThreadUnlink(s) PROVE UnderMutexAlive'
  BY <1>12 DEF ThreadUnlink, Unlink, Types, ThreadInv, RequestInv, TableLive, ReadInv, UnderMutexAlive, Owning, Holding, UnderMutex
<1>13. ASSUME NEW s \in Sessions, ThreadFree(s) PROVE UnderMutexAlive'
  BY <1>13 DEF ThreadFree, Types, ThreadInv, RequestInv, TableLive, ReadInv, UnderMutexAlive, Owning, Holding, UnderMutex
<1>14. ASSUME NEW s \in Sessions, OwnHangup(s) PROVE UnderMutexAlive'
  BY <1>14, SMTT(30) DEF OwnHangup, Types, ThreadInv, RequestInv, TableLive, ReadInv, UnderMutexAlive, Owning, Holding, UnderMutex
<1>15. ASSUME NEW p \in Readers, Test(p) PROVE UnderMutexAlive'
  BY <1>15, SMTT(30) DEF Test, Goes, Types, ThreadInv, RequestInv, TableLive, ReadInv, UnderMutexAlive, Owning, Holding, UnderMutex
<1>16. ASSUME NEW p \in Readers, Try(p) PROVE UnderMutexAlive'
  BY <1>16, SMTT(30) DEF Try, Goes, Types, ThreadInv, RequestInv, TableLive, ReadInv, UnderMutexAlive, Owning, Holding, UnderMutex
<1>17. ASSUME NEW p \in Readers, PingLock(p) PROVE UnderMutexAlive'
  BY <1>17, SMTT(30) DEF PingLock, Goes, Types, ThreadInv, RequestInv, TableLive, ReadInv, UnderMutexAlive, Owning, Holding, UnderMutex
<1>18. ASSUME NEW p \in Readers, Release(p) PROVE UnderMutexAlive'
  BY <1>18, SMTT(30) DEF Release, Goes, Types, ThreadInv, RequestInv, TableLive, ReadInv, UnderMutexAlive, Owning, Holding, UnderMutex
<1>19. ASSUME NEW p \in Readers, HangupHeld(p) PROVE UnderMutexAlive'
  BY <1>19, SMTT(30) DEF HangupHeld, LaunchEffect, Types, ThreadInv, RequestInv, TableLive, ReadInv, UnderMutexAlive, Owning, Holding, UnderMutex
<1>20. ASSUME NEW p \in Readers, NEW u \in Uuids, NEW m \in Modes, Lookup(p, u, m) PROVE UnderMutexAlive'
  BY <1>20 DEF Lookup, Types, ThreadInv, RequestInv, TableLive, ReadInv, UnderMutexAlive, Owning, Holding, UnderMutex
<1> QED
  BY <1>1, <1>2, <1>3, <1>4, <1>5, <1>6, <1>7, <1>8, <1>9, <1>10, <1>11, <1>12, <1>13, <1>14, <1>15, <1>16, <1>17, <1>18, <1>19, <1>20, SMTT(30) DEF Next, RequestStep, ThreadStep, ReadStep

(* The set of sessions not yet destroyed grows and shrinks with the count. *)
LEMMA LiveFinite == IsFiniteSet(Live) /\ Cardinality(Live) \in 0 .. Cardinality(Sessions)
<1>1. Live \subseteq Sessions
  BY SMTT(30) DEF Live
<1> QED
  BY <1>1, FS_Subset, FS_CardinalityType, SetsAssumption

(* Taking a session out of the table counts it down once. *)
LEMMA UnlinkCounts ==
    ASSUME LInv, CountExact, NEW s \in Sessions, life[s] = "live", Unlink(s)
    PROVE  CountExact' /\ count' = count - 1 /\ count \in Nat
<1>1. Live' = Live \ {s} /\ s \in Live
  BY DEF Live, Unlink, LInv, Types
<1>2. Cardinality(Live') = Cardinality(Live) - 1 /\ Cardinality(Live) # 0
  BY <1>1, LiveFinite, FS_RemoveElement, FS_EmptySet, Zenon
<1>3. count = Cardinality(Live) /\ count \in Nat
  BY DEF CountExact, Live, LInv, Types
<1>4. count > 0
  BY <1>2, <1>3
<1>5. count' = IF count > 0 THEN count - 1 ELSE 0
  BY Zenon DEF Unlink
<1>6. count' = count - 1
  BY <1>4, <1>5
<1> QED
  BY <1>2, <1>3, <1>6 DEF CountExact, Live

(* session_count stays the number of sessions not yet destroyed. *)
LEMMA StepCount ==
    ASSUME LInv, CountExact, ~EarlyHangups, Next PROVE CountExact'
<1> USE DEF sessVars, reqVars, readVars
<1>1. ASSUME NEW r \in Requesters, NEW u \in Uuids, RequestCheck(r, u) PROVE CountExact'
  BY <1>1 DEF RequestCheck, CountExact
<1>2. ASSUME NEW r \in Requesters, NEW u \in Uuids, SetUuid(r, u) PROVE CountExact'
  BY <1>2 DEF SetUuid, CountExact
<1>3. ASSUME NEW r \in Requesters, RequestAdmit(r) PROVE CountExact'
  BY <1>3 DEF RequestAdmit, CountExact
<1>4. ASSUME NEW r \in Requesters, RequestInsert(r) PROVE CountExact'
  <2>1. PICK s \in Sessions : life[s] = "none" /\ life' = [life EXCEPT ![s] = "live"]
    BY <1>4, Zenon DEF RequestInsert
  <2>2. Live' = Live \cup {s} /\ s \notin Live
    BY <2>1 DEF Live, LInv, Types
  <2>3. Cardinality(Live') = Cardinality(Live) + 1
    BY <2>2, LiveFinite, FS_AddElement, Zenon
  <2> QED
    BY <1>4, <2>3 DEF CountExact, Live, RequestInsert
<1>5. ASSUME NEW r \in Requesters, RequestLaunch(r) PROVE CountExact'
  BY <1>5, Zenon DEF RequestLaunch, CountExact
<1>6. ASSUME NEW r \in Requesters, RequestFail(r) PROVE CountExact'
  BY <1>6 DEF RequestFail, CountExact
<1>7. ASSUME NEW r \in Requesters, RequestUnlink(r) PROVE CountExact'
  BY <1>7, UnlinkCounts, SMTT(30) DEF RequestUnlink, LInv, RequestInv, Owning
<1>8. ASSUME NEW r \in Requesters, RequestFree(r) PROVE CountExact'
  <2>1. mine[r] \in Sessions /\ life[mine[r]] = "unlinked"
    BY <1>8 DEF RequestFree, LInv, RequestInv, Owning
  <2>2. Live' = Live
    BY <1>8, <2>1, SMTT(30) DEF RequestFree, Live, LInv, Types
  <2> QED
    BY <1>8, <2>2 DEF RequestFree, CountExact, Live
<1>9. ASSUME NEW s \in Sessions, ThreadEnd(s) PROVE CountExact'
  BY <1>9 DEF ThreadEnd, CountExact
<1>10. ASSUME NEW s \in Sessions, WriteLock(s) PROVE CountExact'
  BY <1>10 DEF WriteLock, CountExact
<1>11. ASSUME NEW s \in Sessions, MarkDestroyed(s) PROVE CountExact'
  BY <1>11 DEF MarkDestroyed, CountExact
<1>12. ASSUME NEW s \in Sessions, ThreadUnlink(s) PROVE CountExact'
  BY <1>12, UnlinkCounts DEF ThreadUnlink, LInv, ThreadInv
<1>13. ASSUME NEW s \in Sessions, ThreadFree(s) PROVE CountExact'
  <2>1. s \in Sessions /\ life[s] = "unlinked"
    BY <1>13 DEF ThreadFree, LInv, ThreadInv
  <2>2. Live' = Live
    BY <1>13, <2>1, SMTT(30) DEF ThreadFree, Live, LInv, Types
  <2> QED
    BY <1>13, <2>2 DEF ThreadFree, CountExact, Live
<1>14. ASSUME NEW s \in Sessions, OwnHangup(s) PROVE CountExact'
  BY <1>14 DEF OwnHangup, CountExact
<1>15. ASSUME NEW p \in Readers, Test(p) PROVE CountExact'
  BY <1>15 DEF Test, CountExact
<1>16. ASSUME NEW p \in Readers, Try(p) PROVE CountExact'
  BY <1>16 DEF Try, CountExact
<1>17. ASSUME NEW p \in Readers, PingLock(p) PROVE CountExact'
  BY <1>17 DEF PingLock, CountExact
<1>18. ASSUME NEW p \in Readers, Release(p) PROVE CountExact'
  BY <1>18 DEF Release, CountExact
<1>19. ASSUME NEW p \in Readers, HangupHeld(p) PROVE CountExact'
  BY <1>19 DEF HangupHeld, CountExact
<1>20. ASSUME NEW p \in Readers, NEW u \in Uuids, NEW m \in Modes, Lookup(p, u, m) PROVE CountExact'
  BY <1>20 DEF Lookup, CountExact
<1> QED
  BY <1>1, <1>2, <1>3, <1>4, <1>5, <1>6, <1>7, <1>8, <1>9, <1>10, <1>11, <1>12, <1>13, <1>14, <1>15, <1>16, <1>17, <1>18, <1>19, <1>20, SMTT(30) DEF Next, RequestStep, ThreadStep, ReadStep

(* The requests between the two looks are no more than the requesters. *)
LEMMA InsertingFinite ==
    /\ IsFiniteSet(Inserting) /\ Cardinality(Inserting) \in 0 .. Cardinality(Requesters)
    /\ Cardinality(Requesters) \in Nat
<1>1. Inserting \subseteq Requesters
  BY DEF Inserting
<1> QED
  BY <1>1, FS_Subset, FS_CardinalityType, SetsAssumption

(* A request that passes the limit was the only one to be sure of it. *)
LEMMA StepLimit ==
    ASSUME Types, LimitInv, Next PROVE LimitInv'
<1> USE DEF sessVars, reqVars, readVars
<1>1. ASSUME NEW r \in Requesters, NEW u \in Uuids, RequestCheck(r, u) PROVE LimitInv'
  <2>1. Inserting' = Inserting /\ count' = count
    BY <1>1 DEF RequestCheck, Inserting, Types
  <2> QED
    BY <2>1 DEF LimitInv
<1>2. ASSUME NEW r \in Requesters, NEW u \in Uuids, SetUuid(r, u) PROVE LimitInv'
  <2>1. Inserting' = Inserting /\ count' = count
    BY <1>2 DEF SetUuid, Inserting, Types
  <2> QED
    BY <2>1 DEF LimitInv
<1>3. ASSUME NEW r \in Requesters, RequestAdmit(r) PROVE LimitInv'
  <2>1. CASE count + 1 > Limit
    <3>1. Inserting' = Inserting /\ count' = count
      BY <1>3, <2>1 DEF RequestAdmit, Turns, Inserting, Types
    <3> QED
      BY <3>1 DEF LimitInv
  <2>2. CASE ~(count + 1 > Limit)
    <3>1. count' = count /\ count \in Nat /\ count + 1 <= Limit
      BY <1>3, <2>2, LimitAssumption DEF RequestAdmit, Types
    <3>2. Inserting' \subseteq Requesters
      BY DEF Inserting
    <3>3. Cardinality(Inserting') <= Cardinality(Requesters) /\ Cardinality(Inserting') \in Nat
      BY <3>2, FS_Subset, FS_CardinalityType, SetsAssumption
    <3> QED
      BY <3>1, <3>3, InsertingFinite, LimitAssumption DEF LimitInv
  <2> QED
    BY <2>1, <2>2
<1>4. ASSUME NEW r \in Requesters, RequestInsert(r) PROVE LimitInv'
  <2>1. Inserting' = Inserting \ {r} /\ r \in Inserting /\ count' = count + 1
    BY <1>4 DEF RequestInsert, Inserting, Types
  <2>2. Cardinality(Inserting') = Cardinality(Inserting) - 1
    BY <2>1, InsertingFinite, FS_RemoveElement
  <2>3. count \in Nat
    BY DEF Types
  <2> QED
    BY <2>1, <2>2, <2>3, InsertingFinite, LimitAssumption, SMTT(30) DEF LimitInv
<1>5. ASSUME NEW r \in Requesters, RequestLaunch(r) PROVE LimitInv'
  <2>1. Inserting' = Inserting /\ count' = count
    BY <1>5 DEF RequestLaunch, Turns, LaunchEffect, Inserting, Types
  <2> QED
    BY <2>1 DEF LimitInv
<1>6. ASSUME NEW r \in Requesters, RequestFail(r) PROVE LimitInv'
  <2>1. Inserting' = Inserting /\ count' = count
    BY <1>6 DEF RequestFail, Inserting, Types
  <2> QED
    BY <2>1 DEF LimitInv
<1>7. ASSUME NEW r \in Requesters, RequestUnlink(r) PROVE LimitInv'
  <2>1. count' \in Nat /\ count' <= count /\ count \in Nat
    BY <1>7 DEF RequestUnlink, Unlink, Types
  <2>2. Inserting' = Inserting
    BY <1>7 DEF RequestUnlink, Inserting, Types
  <2> QED
    BY <2>1, <2>2, InsertingFinite, LimitAssumption, SMTT(30) DEF LimitInv
<1>8. ASSUME NEW r \in Requesters, RequestFree(r) PROVE LimitInv'
  <2>1. Inserting' = Inserting /\ count' = count
    BY <1>8 DEF RequestFree, Turns, Inserting, Types
  <2> QED
    BY <2>1 DEF LimitInv
<1>9. ASSUME NEW s \in Sessions, ThreadEnd(s) PROVE LimitInv'
  <2>1. Inserting' = Inserting /\ count' = count
    BY <1>9 DEF ThreadEnd, Inserting, Types
  <2> QED
    BY <2>1 DEF LimitInv
<1>10. ASSUME NEW s \in Sessions, WriteLock(s) PROVE LimitInv'
  <2>1. Inserting' = Inserting /\ count' = count
    BY <1>10 DEF WriteLock, Inserting, Types
  <2> QED
    BY <2>1 DEF LimitInv
<1>11. ASSUME NEW s \in Sessions, MarkDestroyed(s) PROVE LimitInv'
  <2>1. Inserting' = Inserting /\ count' = count
    BY <1>11 DEF MarkDestroyed, Inserting, Types
  <2> QED
    BY <2>1 DEF LimitInv
<1>12. ASSUME NEW s \in Sessions, ThreadUnlink(s) PROVE LimitInv'
  <2>1. count' \in Nat /\ count' <= count /\ count \in Nat
    BY <1>12 DEF ThreadUnlink, Unlink, Types
  <2>2. Inserting' = Inserting
    BY <1>12 DEF ThreadUnlink, Inserting, Types
  <2> QED
    BY <2>1, <2>2, InsertingFinite, LimitAssumption DEF LimitInv
<1>13. ASSUME NEW s \in Sessions, ThreadFree(s) PROVE LimitInv'
  <2>1. Inserting' = Inserting /\ count' = count
    BY <1>13 DEF ThreadFree, Inserting, Types
  <2> QED
    BY <2>1 DEF LimitInv
<1>14. ASSUME NEW s \in Sessions, OwnHangup(s) PROVE LimitInv'
  <2>1. Inserting' = Inserting /\ count' = count
    BY <1>14 DEF OwnHangup, Inserting, Types
  <2> QED
    BY <2>1 DEF LimitInv
<1>15. ASSUME NEW p \in Readers, Test(p) PROVE LimitInv'
  <2>1. Inserting' = Inserting /\ count' = count
    BY <1>15 DEF Test, Goes, Inserting, Types
  <2> QED
    BY <2>1, SMTT(30) DEF LimitInv
<1>16. ASSUME NEW p \in Readers, Try(p) PROVE LimitInv'
  <2>1. Inserting' = Inserting /\ count' = count
    BY <1>16 DEF Try, Goes, Inserting, Types
  <2> QED
    BY <2>1, SMTT(30) DEF LimitInv
<1>17. ASSUME NEW p \in Readers, PingLock(p) PROVE LimitInv'
  <2>1. Inserting' = Inserting /\ count' = count
    BY <1>17 DEF PingLock, Goes, Inserting, Types
  <2> QED
    BY <2>1 DEF LimitInv
<1>18. ASSUME NEW p \in Readers, Release(p) PROVE LimitInv'
  <2>1. Inserting' = Inserting /\ count' = count
    BY <1>18 DEF Release, Goes, Inserting, Types
  <2> QED
    BY <2>1, SMTT(30) DEF LimitInv
<1>19. ASSUME NEW p \in Readers, HangupHeld(p) PROVE LimitInv'
  <2>1. Inserting' = Inserting /\ count' = count
    BY <1>19 DEF HangupHeld, LaunchEffect, Inserting, Types
  <2> QED
    BY <2>1, SMTT(30) DEF LimitInv
<1>20. ASSUME NEW p \in Readers, NEW u \in Uuids, NEW m \in Modes, Lookup(p, u, m) PROVE LimitInv'
  <2>1. Inserting' = Inserting /\ count' = count
    BY <1>20 DEF Lookup, Inserting, Types
  <2> QED
    BY <2>1 DEF LimitInv
<1> QED
  BY <1>1, <1>2, <1>3, <1>4, <1>5, <1>6, <1>7, <1>8, <1>9, <1>10, <1>11, <1>12, <1>13, <1>14, <1>15, <1>16, <1>17, <1>18, <1>19, <1>20, SMTT(30) DEF Next, RequestStep, ThreadStep, ReadStep

(* The sessions ever made are finitely many. *)
LEMMA MadeFinite ==
    /\ IsFiniteSet(Made) /\ Cardinality(Made) \in 0 .. Cardinality(Sessions)
    /\ Cardinality(Sessions) \in Nat
<1>1. Made \subseteq Sessions
  BY DEF Made
<1> QED
  BY <1>1, FS_Subset, FS_CardinalityType, SetsAssumption

(* A session is locked for writing only while nobody reads it, and for reading
   only while nobody writes. *)
LEMMA StepLocks ==
    ASSUME Types, LockInv, Next PROVE LockInv'
<1> USE DEF sessVars, reqVars, readVars
<1>1. \/ UNCHANGED <<wr, rd>>
      \/ \E s \in Sessions : WriteLock(s) \/ MarkDestroyed(s)
      \/ \E p \in Readers : Try(p) \/ PingLock(p) \/ Release(p)
  BY ZenonT(30)  DEF Next, RequestStep, ThreadStep, ReadStep, RequestCheck, SetUuid, RequestAdmit, RequestInsert,
     RequestLaunch, RequestFail, RequestUnlink, RequestFree, ThreadEnd, ThreadUnlink, ThreadFree, OwnHangup,
     Test, HangupHeld, Lookup
<1>2. CASE UNCHANGED <<wr, rd>>
  BY <1>2 DEF LockInv
<1>3. ASSUME NEW s \in Sessions, WriteLock(s) \/ MarkDestroyed(s) PROVE LockInv'
  BY <1>3 DEF WriteLock, MarkDestroyed, LockInv, Types
<1>4. ASSUME NEW p \in Readers, Try(p) \/ PingLock(p) \/ Release(p) PROVE LockInv'
  <2>1. /\ wr' = wr
        /\ \/ rd' = rd
           \/ ~wr[psess[p]] /\ rd' = [rd EXCEPT ![psess[p]] = @ \cup {p}]
           \/ rd' = [rd EXCEPT ![psess[p]] = @ \ {p}]
    BY <1>4, Zenon DEF Try, PingLock, Release
  <2>2. ASSUME NEW s \in Sessions, wr'[s] PROVE rd'[s] = {}
    <3>1. wr[s] /\ rd[s] = {}
      BY <2>1, <2>2, Zenon DEF LockInv
    <3> QED
      BY <2>1, <3>1 DEF Types
  <2> QED
    BY <2>2, Zenon DEF LockInv
<1> QED
  BY <1>1, <1>2, <1>3, <1>4

(* Every session that was counted is one that was made. *)
LEMMA StepMade ==
    ASSUME Types, MadeInv, Next PROVE MadeInv'
<1> USE DEF sessVars, reqVars, readVars
<1>1. \/ UNCHANGED <<count, life>>
      \/ \E r \in Requesters : RequestInsert(r)
      \/ \E r \in Requesters : RequestUnlink(r) \/ RequestFree(r)
      \/ \E s \in Sessions : ThreadUnlink(s) \/ ThreadFree(s)
  BY ZenonT(30)  DEF Next, RequestStep, ThreadStep, ReadStep, RequestCheck, SetUuid, RequestAdmit, RequestLaunch,
     RequestFail, ThreadEnd, WriteLock, MarkDestroyed, OwnHangup, Test, Try, PingLock, Release, HangupHeld, Lookup
<1>2. CASE UNCHANGED <<count, life>>
  BY <1>2 DEF MadeInv, Made
<1>3. ASSUME NEW r \in Requesters, RequestInsert(r) PROVE MadeInv'
  <2>1. PICK s \in Sessions : life[s] = "none" /\ life' = [life EXCEPT ![s] = "live"]
    BY <1>3, Zenon DEF RequestInsert
  <2>2. Made' = Made \cup {s} /\ s \notin Made
    BY <2>1 DEF Made, Types
  <2>3. Cardinality(Made') = Cardinality(Made) + 1
    BY <2>2, MadeFinite, FS_AddElement, Zenon
  <2>4. count' = count + 1 /\ count \in Nat
    BY <1>3 DEF RequestInsert, Types
  <2> QED
    BY <2>3, <2>4, MadeFinite DEF MadeInv
<1>4. ASSUME NEW s \in Sessions \cup {NoSession},
             Unlink(s) \/ (life' = [life EXCEPT ![s] = "freed"] /\ UNCHANGED count)
      PROVE  MadeInv'
  <2>1. Made \subseteq Made' /\ Made' \subseteq Sessions
    BY <1>4 DEF Unlink, Made, Types
  <2>2. IsFiniteSet(Made') /\ Cardinality(Made) <= Cardinality(Made') /\ Cardinality(Made') \in Nat
    BY <2>1, FS_Subset, FS_CardinalityType, SetsAssumption
  <2>3. count' \in Nat /\ count' <= count /\ count \in Nat
    BY <1>4 DEF Unlink, Types
  <2> QED
    BY <2>2, <2>3, MadeFinite DEF MadeInv
<1>5. ASSUME NEW r \in Requesters, RequestUnlink(r) \/ RequestFree(r) PROVE MadeInv'
  <2>1. mine[r] \in Sessions \cup {NoSession}
    BY DEF Types
  <2> QED
    BY <1>4, <1>5, <2>1, Zenon DEF RequestUnlink, RequestFree
<1>6. ASSUME NEW s \in Sessions, ThreadUnlink(s) \/ ThreadFree(s) PROVE MadeInv'
  BY <1>4, <1>6, Zenon DEF ThreadUnlink, ThreadFree
<1> QED
  BY <1>1, <1>2, <1>3, <1>5, <1>6

(* A launch is the start of a thread, or finds one. *)
LEMMA LaunchLeaves ==
    ASSUME Types, ThreadLeft, NEW s \in Sessions \cup {NoSession}, LaunchEffect(s)
    PROVE  \A t \in Sessions : /\ t # s => tpc'[t] = tpc[t] /\ started'[t] = started[t]
                               /\ t = s => tpc'[t] # "off"
                               /\ tpc'[t] = "gone" => tpc[t] = "gone"
                               /\ tpc[t] # "off" => tpc'[t] # "off"
                               /\ started'[t] => tpc'[t] # "off"
  BY Zenon DEF LaunchEffect, Types, ThreadLeft

(* Who has a thread keeps it until the thread has freed the session. *)
LEMMA StepThreadLeft ==
    ASSUME Types, ThreadLeft, Next PROVE ThreadLeft'
<1> USE DEF sessVars, reqVars, readVars
<1>1. ASSUME UNCHANGED <<started, up, tpc, life>> PROVE ThreadLeft'
  BY <1>1, Zenon DEF ThreadLeft
<1>2. ASSUME NEW r \in Requesters, RequestInsert(r) PROVE ThreadLeft'
  <2>1. PICK s \in Sessions : life[s] = "none" /\ life' = [life EXCEPT ![s] = "live"]
    BY <1>2, Zenon DEF RequestInsert
  <2> QED
    BY <1>2, <2>1 DEF RequestInsert, ThreadLeft, Types
<1>3. ASSUME NEW s \in Sessions \cup {NoSession}, LaunchEffect(s), life' = life,
             up' = up \/ up' = [up EXCEPT ![s] = FALSE]
      PROVE  ThreadLeft'
  <2>1. \A t \in Sessions : /\ t = s => tpc'[t] # "off"
                            /\ tpc'[t] = "gone" => tpc[t] = "gone"
                            /\ tpc[t] # "off" => tpc'[t] # "off"
                            /\ started'[t] => tpc'[t] # "off"
    BY <1>3, LaunchLeaves, Zenon
  <2>2. \A t \in Sessions : t # s => up'[t] = up[t]
    BY <1>3 DEF Types
  <2> QED
    BY <1>3, <2>1, <2>2, Zenon DEF ThreadLeft
<1>4. ASSUME NEW r \in Requesters, RequestLaunch(r) PROVE ThreadLeft'
  <2>1. mine[r] \in Sessions \cup {NoSession} /\ LaunchEffect(mine[r]) /\ UNCHANGED <<life, up>>
    BY <1>4 DEF RequestLaunch, Types
  <2> QED
    BY <1>3, <2>1, Zenon
<1>5. ASSUME NEW p \in Readers, HangupHeld(p) PROVE ThreadLeft'
  <2>1. /\ psess[p] \in Sessions \cup {NoSession} /\ LaunchEffect(psess[p]) /\ life' = life
        /\ up' = [up EXCEPT ![psess[p]] = FALSE]
    BY <1>5, SMTT(30) DEF HangupHeld, Types
  <2> QED
    BY <1>3, <2>1, Zenon
<1>6. ASSUME NEW r \in Requesters, RequestUnlink(r) \/ RequestFree(r) PROVE ThreadLeft'
  BY <1>6 DEF RequestUnlink, Unlink, RequestFree, ThreadLeft, Types
<1>7. ASSUME NEW s \in Sessions, ThreadStep(s) \/ OwnHangup(s) PROVE ThreadLeft'
  <2>1. CASE ThreadUnlink(s)
    BY <2>1, SMTT(30) DEF ThreadUnlink, Unlink, ThreadLeft, Types
  <2>2. CASE ThreadFree(s)
    BY <2>2, SMTT(30) DEF ThreadFree, ThreadLeft, Types
  <2>3. CASE ThreadEnd(s) \/ WriteLock(s) \/ MarkDestroyed(s) \/ OwnHangup(s)
    BY <2>3 DEF ThreadEnd, WriteLock, MarkDestroyed, OwnHangup, ThreadLeft, Types
  <2> QED
    BY <1>7, <2>1, <2>2, <2>3, Zenon DEF ThreadStep
<1>8. ASSUME NEW r \in Requesters, RequestStep(r) PROVE ThreadLeft'
  BY <1>1, <1>2, <1>4, <1>6, <1>8, Zenon
     DEF RequestStep, RequestCheck, SetUuid, RequestAdmit, RequestFail
<1>9. ASSUME NEW p \in Readers,
             ReadStep(p) \/ HangupHeld(p) \/ \E u \in Uuids, m \in Modes : Lookup(p, u, m)
      PROVE  ThreadLeft'
  BY <1>1, <1>5, <1>9, Zenon DEF ReadStep, Test, Try, PingLock, Release, Lookup
<1> QED
  BY <1>7, <1>8, <1>9, Zenon DEF Next

(* Whose session has no thread stays at work on it until it is launched or freed. *)
LEMMA StepOwnerLeft ==
    ASSUME Types, ThreadLeft, OwnerLeft, Next PROVE OwnerLeft'
<1> USE DEF sessVars, reqVars, readVars
<1> DEFINE Kept(t) == life[t] \in {"live", "unlinked"}
           Has(r, t) == mine[r] = t /\ rpc[r] \in Owning
<1>1. ASSUME \A t \in Sessions : Kept(t)' /\ tpc'[t] = "off" =>
                  \/ \E r \in Requesters : Has(r, t)'
                  \/ /\ Kept(t) /\ tpc[t] = "off"
                     /\ \A r \in Requesters : Has(r, t) => Has(r, t)'
      PROVE  OwnerLeft'
  BY <1>1, Zenon DEF OwnerLeft
<1>2. ASSUME UNCHANGED <<life, tpc, rpc, mine>> PROVE OwnerLeft'
  BY <1>2, Zenon DEF OwnerLeft
<1>3. ASSUME NEW r \in Requesters, NEW u \in Uuids, RequestCheck(r, u) PROVE OwnerLeft'
  BY <1>1, <1>3, SMTT(30) DEF RequestCheck, Types, Owning
<1>4. ASSUME NEW r \in Requesters, RequestAdmit(r) PROVE OwnerLeft'
  BY <1>1, <1>4 DEF RequestAdmit, Turns, Types, Owning
<1>5. ASSUME NEW r \in Requesters, RequestInsert(r) PROVE OwnerLeft'
  <2>1. PICK s \in Sessions : /\ life' = [life EXCEPT ![s] = "live"]
                             /\ mine' = [mine EXCEPT ![r] = s]
    BY <1>5, Zenon DEF RequestInsert
  <2>2. Has(r, s)'
    BY <1>5, <2>1 DEF RequestInsert, Types, Owning
  <2>3. ASSUME NEW t \in Sessions, t # s
        PROVE  /\ Kept(t)' => Kept(t)
               /\ \A q \in Requesters : Has(q, t) => Has(q, t)'
    BY <1>5, <2>1, <2>3 DEF RequestInsert, Types, Owning
  <2>4. tpc' = tpc
    BY <1>5 DEF RequestInsert
  <2> QED
    BY <1>1, <2>2, <2>3, <2>4, Zenon
<1>6. ASSUME NEW r \in Requesters, RequestLaunch(r) PROVE OwnerLeft'
  <2>1. mine[r] \in Sessions \cup {NoSession} /\ LaunchEffect(mine[r]) /\ life' = life
    BY <1>6 DEF RequestLaunch, Types
  <2>2. \A t \in Sessions : (t = mine[r] => tpc'[t] # "off") /\ (tpc[t] # "off" => tpc'[t] # "off")
    BY <2>1, LaunchLeaves, Zenon
  <2>3. ASSUME NEW t \in Sessions, t # mine[r], NEW q \in Requesters, Has(q, t) PROVE Has(q, t)'
    BY <1>6, <2>3 DEF RequestLaunch, Turns, Types
  <2> QED
    BY <1>1, <2>1, <2>2, <2>3, Zenon
<1>7. ASSUME NEW r \in Requesters, RequestFail(r) PROVE OwnerLeft'
  BY <1>1, <1>7, SMTT(30) DEF RequestFail, Types, Owning
<1>8. ASSUME NEW r \in Requesters, RequestUnlink(r) PROVE OwnerLeft'
  BY <1>1, <1>8, SMTT(30) DEF RequestUnlink, Unlink, Types, Owning
<1>9. ASSUME NEW r \in Requesters, RequestFree(r) PROVE OwnerLeft'
  BY <1>1, <1>9 DEF RequestFree, Turns, Types, Owning
<1>10. ASSUME NEW s \in Sessions, ThreadStep(s) \/ OwnHangup(s) PROVE OwnerLeft'
  <2>1. CASE ThreadUnlink(s)
    BY <1>1, <2>1, SMTT(30) DEF ThreadUnlink, Unlink, Types
  <2>2. CASE ThreadFree(s)
    BY <1>1, <2>2, SMTT(30) DEF ThreadFree, Types
  <2>3. CASE ThreadEnd(s) \/ WriteLock(s) \/ MarkDestroyed(s) \/ OwnHangup(s)
    BY <1>1, <2>3 DEF ThreadEnd, WriteLock, MarkDestroyed, OwnHangup, Types
  <2> QED
    BY <1>10, <2>1, <2>2, <2>3, Zenon DEF ThreadStep
<1>11. ASSUME NEW p \in Readers, HangupHeld(p) PROVE OwnerLeft'
  <2>1. /\ psess[p] \in Sessions \cup {NoSession} /\ LaunchEffect(psess[p])
        /\ UNCHANGED <<life, mine, rpc>>
    BY <1>11 DEF HangupHeld, Types
  <2>2. \A t \in Sessions : tpc[t] # "off" => tpc'[t] # "off"
    BY <2>1, LaunchLeaves, Zenon
  <2> QED
    BY <1>1, <2>1, <2>2, Zenon
<1>12. ASSUME NEW r \in Requesters, RequestStep(r) PROVE OwnerLeft'
  BY <1>2, <1>3, <1>4, <1>5, <1>6, <1>7, <1>8, <1>9, <1>12, Zenon DEF RequestStep, SetUuid
<1>13. ASSUME NEW p \in Readers,
              ReadStep(p) \/ HangupHeld(p) \/ \E u \in Uuids, m \in Modes : Lookup(p, u, m)
       PROVE  OwnerLeft'
  BY <1>2, <1>11, <1>13, Zenon DEF ReadStep, Test, Try, PingLock, Release, Lookup
<1> QED
  BY <1>10, <1>12, <1>13, Zenon DEF Next

(* What holds whoever hangs up a session, and whenever. *)
LEMMA StepBase == BaseInv /\ [Next]_vars => BaseInv'
<1>1. ASSUME BaseInv, Next PROVE BaseInv'
  BY <1>1, StepTypes, StepLimit, StepLocks, StepMade, StepThreadLeft, StepOwnerLeft DEF BaseInv
<1>2. ASSUME BaseInv, UNCHANGED vars PROVE BaseInv'
  <2> USE <1>2 DEF BaseInv, vars, sessVars, reqVars, readVars
  <2>1. Types' /\ LockInv'
    BY Zenon DEF Types, LockInv
  <2>2. MadeInv' /\ LimitInv'
    BY Zenon DEF MadeInv, Made, LimitInv, Inserting
  <2>3. ThreadLeft' /\ OwnerLeft'
    BY Zenon DEF ThreadLeft, OwnerLeft
  <2> QED
    BY <2>1, <2>2, <2>3
<1> QED
  BY <1>1, <1>2

(* The invariant is inductive. *)
LEMMA StepIInv == ~EarlyHangups /\ IInv /\ [Next]_vars => IInv'
<1>1. ASSUME ~EarlyHangups, IInv, Next PROVE IInv'
  BY <1>1, StepTypes, StepThreads, StepRequests, StepReads, StepTable, StepUnderMutex, StepCount
     DEF IInv, LInv
<1>2. ASSUME IInv, UNCHANGED vars PROVE IInv'
  <2> USE <1>2 DEF IInv, LInv, vars, sessVars, reqVars, readVars
  <2>1. Types' /\ ThreadInv' /\ RequestInv' /\ ReadInv'
    BY Zenon DEF Types, ThreadInv, RequestInv, ReadInv
  <2>2. TableLive' /\ UnderMutexAlive' /\ CountExact'
    BY Zenon DEF TableLive, UnderMutexAlive, CountExact
  <2> QED
    BY <2>1, <2>2
<1> QED
  BY <1>1, <1>2

(* The part of the invariant that no hangup disturbs holds for any number of
   sessions, requesters and readers. *)
THEOREM BaseInvariance == Spec => []BaseInv
  BY InitBase, StepBase, PTL DEF Spec

(* Every variable keeps its range: the count is never below zero and never above
   the sessions there are; no session is write locked while somebody reads it. *)
THEOREM TypesHold == Spec => []TypeOK
<1>1. ASSUME BaseInv PROVE TypeOK
  <2>1. count \in 0 .. Cardinality(Sessions)
    BY <1>1, MadeFinite DEF BaseInv, MadeInv, Types
  <2> QED
    BY <1>1, <2>1 DEF BaseInv, Types, LockInv, TypeOK
<1> QED
  BY <1>1, BaseInvariance, PTL

(* switch_core_session_request_uuid looks at the limit and counts the session
   in two steps: the limit is passed by at most one session per other request
   that is under way, also when setups fail and sessions are hung up early. *)
THEOREM LimitOverrunBounded == Spec => []LimitOvershoot
<1>1. ASSUME BaseInv PROVE LimitOvershoot
  BY <1>1, InsertingFinite, LimitAssumption DEF BaseInv, Types, LimitInv, LimitOvershoot
<1> QED
  BY <1>1, BaseInvariance, PTL

(* Every session that switch_core_session_request_uuid made and nobody freed has
   a thread or a requester that will free it, however many hangups, early or not,
   failed setups and lookups come in between. *)
THEOREM NoneIsLeaked == Spec => []NoneLeaked
<1>1. ASSUME BaseInv PROVE NoneLeaked
  BY <1>1, Zenon DEF BaseInv, ThreadLeft, OwnerLeft, NoneLeaked, Owning
<1> QED
  BY <1>1, BaseInvariance, PTL

(* As long as nobody hangs up a session before its requester launches it, the
   invariant holds for any number of sessions, requesters and readers. *)
THEOREM LifecycleInvariance == ~EarlyHangups => (Spec => []IInv)
<1> SUFFICES ASSUME ~EarlyHangups PROVE Spec => []IInv
  OBVIOUS
<1>1. IInv /\ [Next]_vars => IInv'
  BY StepIInv
<1> QED
  BY <1>1, InitIInv, PTL DEF Spec

(* The session table holds live sessions, under their own uuid. *)
THEOREM TableHoldsLive == ~EarlyHangups => (Spec => []TableLive)
<1> SUFFICES ASSUME ~EarlyHangups PROVE Spec => []TableLive
  OBVIOUS
<1>1. IInv => TableLive
  BY DEF IInv, LInv
<1>2. Spec => []IInv
  BY LifecycleInvariance
<1> QED
  BY <1>1, <1>2, PTL

(* A session that was found in the table is there for as long as
   session_hash_mutex is held. *)
THEOREM FoundStaysAlive == ~EarlyHangups => (Spec => []UnderMutexAlive)
<1> SUFFICES ASSUME ~EarlyHangups PROVE Spec => []UnderMutexAlive
  OBVIOUS
<1>1. IInv => UnderMutexAlive
  BY DEF IInv, LInv
<1>2. Spec => []IInv
  BY LifecycleInvariance
<1> QED
  BY <1>1, <1>2, PTL

(* A session that was locked in time is there until it is unlocked. *)
THEOREM LockedStaysAlive == ~EarlyHangups => (Spec => []LockedAlive)
<1> SUFFICES ASSUME ~EarlyHangups PROVE Spec => []LockedAlive
  OBVIOUS
<1>1. IInv => LockedAlive
  BY Zenon DEF IInv, LInv, LockedAlive, ReadInv, ThreadInv
<1>2. Spec => []IInv
  BY LifecycleInvariance
<1> QED
  BY <1>1, <1>2, PTL

(* session_count is the number of live sessions. *)
THEOREM CountsSessions == ~EarlyHangups => (Spec => []CountExact)
<1> SUFFICES ASSUME ~EarlyHangups PROVE Spec => []CountExact
  OBVIOUS
<1>1. IInv => CountExact
  BY DEF IInv
<1>2. Spec => []IInv
  BY LifecycleInvariance
<1> QED
  BY <1>1, <1>2, PTL
=============================================================================
