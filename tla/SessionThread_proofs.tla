------------------------ MODULE SessionThread_proofs ------------------------
(***************************************************************************)
(* The session thread protocol, for any number of other threads, any       *)
(* number of tries and any queue length.                                   *)
(***************************************************************************)
EXTENDS SessionThread, TLAPS

USE DEF CS_NEW, CS_INIT, CS_ROUTING, CS_SOFT_EXECUTE, CS_EXECUTE, CS_EXCHANGE_MEDIA,
        CS_PARK, CS_CONSUME_MEDIA, CS_HIBERNATE, CS_RESET, CS_HANGUP, CS_REPORTING,
        CS_DESTROY, CS_NONE, States

(* The session thread has looked at its queue, or at its queue and state, for
   the last time, and there is something it has not seen. *)
Missed == \/ pc \in {"test", "compare", "presleep", "waiting"} /\ queue > 0
          \/ pc \in {"presleep", "waiting"} /\ state # runState

WakeInv == Missed => gaveUp \/ WakePending

BeforeSet == {"h_clear", "h_look", "h_set"}
Setting == {"cs", "cs_s", "cs_t", "cs_m"}

(* What the other threads have in hand: a hangup not yet written belongs to
   the one thread that found OCF_HANGUP clear, and an accepted request is
   written to a channel that is still up. *)
CallInv ==
    /\ \A c \in Callers : cpc[c] \in BeforeSet =>
            ocf /\ state < CS_HANGUP /\ \A d \in Callers : cpc[d] \in BeforeSet => d = c
    /\ \A c \in Callers : cpc[c] \in BeforeSet \cup {"h_cause"} => arg[c] \in Causes
    /\ \A c \in Callers : cpc[c] \in Setting => state < CS_HANGUP /\ arg[c] \in Targets
    /\ state >= CS_HANGUP => ocf

(* How far the end of the call has come. *)
EndInv ==
    /\ started <=> pc # "off"
    /\ hangupRuns = IF hungup THEN 1 ELSE 0
    /\ reportRuns = IF pc \in {"reported", "done", "ended"} THEN 1 ELSE 0
    /\ pc \in {"run", "handle"} /\ st >= CS_HANGUP => state = st
    /\ pc = "hung" => state = CS_HANGUP /\ hungup
    /\ pc = "reported" => state = CS_REPORTING
    /\ state = CS_DESTROY <=> pc \in {"done", "ended"}
    /\ state >= CS_REPORTING => hungup

IInv == TypeOK /\ LockDiscipline /\ WakeInv /\ CallInv /\ EndInv

-----------------------------------------------------------------------------
(* What a call the session thread makes itself may do to the channel. *)
OwnEffect ==
    /\ state' \in States /\ cause' \in Causes \cup {NoCause}
    /\ ocf' \in BOOLEAN /\ blocked' \in BOOLEAN /\ hungup' \in BOOLEAN
    /\ hangupRuns' = IF hungup' THEN 1 ELSE 0
    /\ (hungup => hungup') /\ (ocf => ocf')
    /\ state # state' => stMx = Free /\ state < CS_HANGUP /\ state' <= CS_HANGUP
    /\ state < CS_HANGUP /\ state' >= CS_HANGUP => ~ocf /\ ocf'

(* OwnCall keeps to OwnEffect: set_state ignores what comes after the hangup,
   and perform_hangup is taken once. *)
LEMMA OwnCallEffect == IInv /\ OwnCall => OwnEffect
<1> SUFFICES ASSUME IInv, OwnCall PROVE OwnEffect
  OBVIOUS
<1> USE DEF IInv, TypeOK, EndInv, CallInv
<1>1. CASE UNCHANGED <<state, ocf, blocked, cause, hungup, hangupRuns>>
  BY <1>1 DEF OwnEffect
<1>2. ASSUME NEW s \in Targets, OwnSet(s),
             UNCHANGED <<ocf, blocked, cause, hungup, hangupRuns>>
      PROVE  OwnEffect
  BY <1>2, TargetsAssumption DEF OwnEffect, OwnSet, Ignores, Midlife
<1>3. ASSUME NEW k \in Causes, OwnHangup(k) PROVE OwnEffect
  <2> DEFINE first == ~ocf /\ state < CS_HANGUP
             early == first /\ EarlyHangup /\ ~hungup
  <2>1. ocf' = TRUE /\ stMx = Free /\ blocked' = (IF ocf THEN blocked ELSE FALSE)
    BY <1>3 DEF OwnHangup
  <2>2. /\ state' = (IF first THEN CS_HANGUP ELSE state)
        /\ cause' = (IF first THEN k ELSE cause)
        /\ hungup' = (hungup \/ early)
        /\ hangupRuns' = (IF early THEN hangupRuns + 1 ELSE hangupRuns)
    BY <1>3 DEF OwnHangup
  <2>3. blocked' \in BOOLEAN /\ ocf' \in BOOLEAN /\ hungup' \in BOOLEAN
    BY <2>1, <2>2, Zenon
  <2>4. hangupRuns' = (IF hungup' THEN 1 ELSE 0) /\ (hungup => hungup')
    <3>1. CASE early
      <4>1. hungup' = TRUE /\ hungup = FALSE /\ hangupRuns' = hangupRuns + 1
        BY <3>1, <2>2, Zenon
      <4> QED
        BY <4>1
    <3>2. CASE ~early
      <4>1. hungup' = hungup /\ hangupRuns' = hangupRuns
        BY <3>2, <2>2
      <4> QED
        BY <4>1
    <3> QED
      BY <3>1, <3>2
  <2>5. /\ state' \in States /\ cause' \in Causes \cup {NoCause}
        /\ state # state' => state < CS_HANGUP /\ state' <= CS_HANGUP
        /\ state < CS_HANGUP /\ state' >= CS_HANGUP => ~ocf
    BY <2>2
  <2> QED
    BY <2>1, <2>3, <2>4, <2>5, Zenon DEF OwnEffect
<1> QED
  BY <1>1, <1>2, <1>3 DEF OwnCall

(* Reading the queue has no other effect on the channel. *)
LEMMA ParseEffect == IInv /\ ParseMessages => OwnEffect /\ queue' = 0
<1>1. IInv /\ UNCHANGED <<state, ocf, blocked, cause, hungup, hangupRuns>> => OwnEffect
  BY DEF OwnEffect, IInv, TypeOK, EndInv
<1> QED
  BY <1>1, OwnCallEffect DEF ParseMessages

(* The initial state satisfies the invariant. *)
LEMMA InitIInv == Init => IInv
<1> SUFFICES ASSUME Init PROVE IInv
  OBVIOUS
<1>1. TypeOK
  <2>1. /\ ocf \in BOOLEAN /\ repeat \in BOOLEAN /\ sleeping \in BOOLEAN
        /\ blocked \in BOOLEAN /\ started \in BOOLEAN /\ hungup \in BOOLEAN
        /\ gaveUp \in BOOLEAN
    BY Zenon DEF Init
  <2>2. cpc \in [Callers -> CallStates] /\ tries \in [Callers -> 0 .. MaxTries]
    BY BoundsAssumption DEF Init, CallStates
  <2> QED
    BY <2>1, <2>2, BoundsAssumption DEF Init, TypeOK, Owners, ThreadStates, OffMutex
<1>2. LockDiscipline
  BY OwnersAssumption DEF Init, LockDiscipline, OffMutex, InRegion, T, Free
<1>3. WakeInv /\ CallInv /\ EndInv
  BY DEF Init, WakeInv, Missed, CallInv, EndInv, BeforeSet, Setting
<1> QED
  BY <1>1, <1>2, <1>3 DEF IInv

-----------------------------------------------------------------------------
(* Between two of its calls the session thread also hangs up a call that
   stays in CS_NEW. *)
LEMMA PollEffect == IInv /\ Poll => OwnEffect /\ queue' = 0
<1>1. IInv /\ UNCHANGED <<state, ocf, blocked, cause, hungup, hangupRuns>> => OwnEffect
  BY DEF OwnEffect, IInv, TypeOK, EndInv
<1> QED
  BY <1>1, OwnCallEffect DEF Poll, OwnCall

(* Whoever writes a request has state_mutex. *)
LEMMA NoSetting == IInv /\ stMx = Free => \A c \in Callers : cpc[c] \notin Setting
BY OwnersAssumption DEF IInv, LockDiscipline, Setting

(* A request of the session thread leaves alone what others have in hand. *)
LEMMA OwnCalls == IInv /\ OwnEffect /\ UNCHANGED <<cpc, arg>> => CallInv'
BY NoSetting DEF IInv, OwnEffect, CallInv, TypeOK

(* The session thread's steps keep every variable in its range. *)
LEMMA ThreadType == IInv /\ ThreadStep => TypeOK'
<1> SUFFICES ASSUME IInv, ThreadStep PROVE TypeOK'
  OBVIOUS
<1> USE DEF IInv, Goto, chanVars, flagVars, lockVars, callVars
<1>1. CASE Start
  BY <1>1, BoundsAssumption DEF Start, TypeOK, ThreadStates, OffMutex, InRegion, Owners, Turn
<1>2. CASE Top
  BY <1>2, BoundsAssumption DEF Top, TypeOK, ThreadStates, OffMutex, InRegion, Owners, Turn
<1>3. CASE Unblocked
  BY <1>3, BoundsAssumption DEF Unblocked, TypeOK, ThreadStates, OffMutex, InRegion, Owners, Turn
<1>4. CASE HandleHangup
  <2>1. hungup' \in BOOLEAN /\ hangupRuns' \in 0 .. 2
    <3>1. CASE hungup
      BY <1>4, <3>1 DEF HandleHangup, TypeOK
    <3>2. CASE ~hungup
      <4>1. hungup' = TRUE /\ hangupRuns' = hangupRuns + 1
        BY <1>4, <3>2 DEF HandleHangup
      <4> QED
        BY <4>1, <3>2 DEF TypeOK, EndInv
    <3> QED
      BY <3>1, <3>2
  <2> QED
    BY <1>4, <2>1 DEF HandleHangup, TypeOK, ThreadStates, OffMutex, InRegion, Owners
<1>5. CASE HandleReporting
  BY <1>5 DEF HandleReporting, EndInv, TypeOK, ThreadStates, OffMutex, InRegion, Owners
<1>6. CASE After
  BY <1>6, BoundsAssumption DEF After, TypeOK, ThreadStates, OffMutex, InRegion, Owners, Turn
<1>7. CASE Lock
  BY <1>7, BoundsAssumption DEF Lock, TypeOK, ThreadStates, OffMutex, InRegion, Owners, Turn
<1>8. CASE TestRepeat
  <2>1. repeat' \in BOOLEAN
    BY <1>8, Zenon DEF TestRepeat
  <2> QED
    BY <1>8, <2>1 DEF TestRepeat, TypeOK, ThreadStates, OffMutex, InRegion, Owners
<1>9. CASE Compare
  BY <1>9, BoundsAssumption DEF Compare, TypeOK, ThreadStates, OffMutex, InRegion, Owners, Turn
<1>10. CASE Sleep
  BY <1>10, BoundsAssumption DEF Sleep, TypeOK, ThreadStates, OffMutex, InRegion, Owners, Turn
<1>11. CASE Wakes
  BY <1>11, BoundsAssumption DEF Wakes, TypeOK, ThreadStates, OffMutex, InRegion, Owners, Turn
<1>12. CASE Unlock
  <2>1. sleeping' \in BOOLEAN
    BY <1>12, Zenon DEF Unlock
  <2> QED
    BY <1>12, <2>1 DEF Unlock, TypeOK, ThreadStates, OffMutex, InRegion, Owners
<1>13. CASE Done
  BY <1>13, BoundsAssumption DEF Done, TypeOK, ThreadStates, OffMutex, InRegion, Owners, Turn
<1>14. CASE RunState
  BY <1>14, ParseEffect, BoundsAssumption DEF RunState, OwnEffect, TypeOK, ThreadStates, OffMutex, InRegion, Owners, OwnSet, Ignores
<1>15. CASE HandleLive
  BY <1>15, OwnCallEffect, BoundsAssumption DEF HandleLive, OwnEffect, TypeOK, ThreadStates, OffMutex, InRegion, Owners, OwnSet, Ignores
<1>16. CASE SetReporting
  BY <1>16, BoundsAssumption DEF SetReporting, TypeOK, ThreadStates, OffMutex, InRegion, Owners, OwnSet, Ignores
<1>17. CASE SetDestroy
  BY <1>17, BoundsAssumption DEF SetDestroy, TypeOK, ThreadStates, OffMutex, InRegion, Owners, OwnSet, Ignores
<1>18. CASE Poll
  BY <1>18, PollEffect, BoundsAssumption DEF Poll, OwnEffect, TypeOK, ThreadStates, OffMutex, InRegion, Owners, OwnSet, Ignores
<1>19. CASE Parse
  BY <1>19, ParseEffect, BoundsAssumption DEF Parse, OwnEffect, TypeOK, ThreadStates, OffMutex, InRegion, Owners, OwnSet, Ignores
<1>20. CASE Reparse
  BY <1>20, ParseEffect, BoundsAssumption DEF Reparse, OwnEffect, TypeOK, ThreadStates, OffMutex, InRegion, Owners, OwnSet, Ignores
<1> QED
  BY <1>1, <1>2, <1>3, <1>4, <1>5, <1>6, <1>7, <1>8, <1>9, <1>10, <1>11, <1>12, <1>13, <1>14, <1>15, <1>16, <1>17, <1>18, <1>19, <1>20 DEF ThreadStep

(* Its steps take and give up the mutexes as the discipline says. *)
LEMMA ThreadLocks == IInv /\ ThreadStep => LockDiscipline'
<1> SUFFICES ASSUME IInv, ThreadStep PROVE LockDiscipline'
  OBVIOUS
<1> USE DEF IInv, Goto, chanVars, flagVars, lockVars, callVars
<1>1. CASE Start
  BY <1>1, OwnersAssumption DEF Start, LockDiscipline, TypeOK, Turn, OffMutex, InRegion, Owners, T, Free
<1>2. CASE Top
  BY <1>2, OwnersAssumption DEF Top, LockDiscipline, TypeOK, Turn, OffMutex, InRegion, Owners, T, Free
<1>3. CASE Unblocked
  BY <1>3, OwnersAssumption DEF Unblocked, LockDiscipline, TypeOK, Turn, OffMutex, InRegion, Owners, T, Free
<1>4. CASE HandleHangup
  BY <1>4, OwnersAssumption DEF HandleHangup, LockDiscipline, TypeOK, Turn, OffMutex, InRegion, Owners, T, Free
<1>5. CASE HandleReporting
  BY <1>5, OwnersAssumption DEF HandleReporting, LockDiscipline, TypeOK, Turn, OffMutex, InRegion, Owners, T, Free
<1>6. CASE After
  BY <1>6, OwnersAssumption DEF After, LockDiscipline, TypeOK, Turn, OffMutex, InRegion, Owners, T, Free
<1>7. CASE Lock
  BY <1>7, OwnersAssumption DEF Lock, LockDiscipline, TypeOK, Turn, OffMutex, InRegion, Owners, T, Free
<1>8. CASE TestRepeat
  BY <1>8, OwnersAssumption DEF TestRepeat, LockDiscipline, TypeOK, Turn, OffMutex, InRegion, Owners, T, Free
<1>9. CASE Compare
  BY <1>9, OwnersAssumption DEF Compare, LockDiscipline, TypeOK, Turn, OffMutex, InRegion, Owners, T, Free
<1>10. CASE Sleep
  BY <1>10, OwnersAssumption DEF Sleep, LockDiscipline, TypeOK, Turn, OffMutex, InRegion, Owners, T, Free
<1>11. CASE Wakes
  BY <1>11, OwnersAssumption DEF Wakes, LockDiscipline, TypeOK, Turn, OffMutex, InRegion, Owners, T, Free
<1>12. CASE Unlock
  BY <1>12, OwnersAssumption DEF Unlock, LockDiscipline, TypeOK, Turn, OffMutex, InRegion, Owners, T, Free
<1>13. CASE Done
  BY <1>13, OwnersAssumption DEF Done, LockDiscipline, TypeOK, Turn, OffMutex, InRegion, Owners, T, Free
<1>14. CASE RunState
  BY <1>14, ParseEffect, OwnersAssumption DEF RunState, OwnEffect, LockDiscipline, TypeOK, OffMutex, InRegion, Owners, T, Free
<1>15. CASE HandleLive
  BY <1>15, OwnCallEffect, OwnersAssumption DEF HandleLive, OwnEffect, LockDiscipline, TypeOK, OffMutex, InRegion, Owners, T, Free
<1>16. CASE SetReporting
  BY <1>16, OwnersAssumption DEF SetReporting, LockDiscipline, TypeOK, OffMutex, InRegion, Owners, T, Free
<1>17. CASE SetDestroy
  BY <1>17, OwnersAssumption DEF SetDestroy, LockDiscipline, TypeOK, OffMutex, InRegion, Owners, T, Free
<1>18. CASE Poll
  BY <1>18, PollEffect, OwnersAssumption DEF Poll, OwnEffect, LockDiscipline, TypeOK, OffMutex, InRegion, Owners, T, Free
<1>19. CASE Parse
  BY <1>19, ParseEffect, OwnersAssumption DEF Parse, OwnEffect, LockDiscipline, TypeOK, OffMutex, InRegion, Owners, T, Free
<1>20. CASE Reparse
  BY <1>20, ParseEffect, OwnersAssumption DEF Reparse, OwnEffect, LockDiscipline, TypeOK, OffMutex, InRegion, Owners, T, Free
<1> QED
  BY <1>1, <1>2, <1>3, <1>4, <1>5, <1>6, <1>7, <1>8, <1>9, <1>10, <1>11, <1>12, <1>13, <1>14, <1>15, <1>16, <1>17, <1>18, <1>19, <1>20 DEF ThreadStep

(* It does not go to sleep on something it has not seen. *)
LEMMA ThreadWake == IInv /\ ThreadStep => WakeInv'
<1> SUFFICES ASSUME IInv, ThreadStep PROVE WakeInv'
  OBVIOUS
<1> USE DEF IInv, Goto, chanVars, flagVars, lockVars, callVars
<1>1. CASE Start
  BY <1>1 DEF Start, WakeInv, Missed, WakePending, TypeOK, Turn
<1>2. CASE Top
  BY <1>2 DEF Top, WakeInv, Missed, WakePending, TypeOK, Turn
<1>3. CASE Unblocked
  BY <1>3 DEF Unblocked, WakeInv, Missed, WakePending, TypeOK, Turn
<1>4. CASE HandleHangup
  BY <1>4 DEF HandleHangup, WakeInv, Missed, WakePending, TypeOK, Turn
<1>5. CASE HandleReporting
  BY <1>5 DEF HandleReporting, WakeInv, Missed, WakePending, TypeOK, Turn
<1>6. CASE After
  BY <1>6 DEF After, WakeInv, Missed, WakePending, TypeOK, Turn
<1>7. CASE Lock
  BY <1>7 DEF Lock, WakeInv, Missed, WakePending, TypeOK, Turn
<1>8. CASE TestRepeat
  BY <1>8 DEF TestRepeat, WakeInv, Missed, WakePending, TypeOK, Turn
<1>9. CASE Compare
  BY <1>9 DEF Compare, WakeInv, Missed, WakePending, TypeOK, Turn
<1>10. CASE Sleep
  BY <1>10 DEF Sleep, WakeInv, Missed, WakePending, TypeOK, Turn
<1>11. CASE Wakes
  BY <1>11 DEF Wakes, WakeInv, Missed, WakePending, TypeOK, Turn
<1>12. CASE Unlock
  BY <1>12 DEF Unlock, WakeInv, Missed, WakePending, TypeOK, Turn
<1>13. CASE Done
  BY <1>13 DEF Done, WakeInv, Missed, WakePending, TypeOK, Turn
<1>14. CASE RunState
  BY <1>14, ParseEffect DEF RunState, OwnEffect, WakeInv, Missed, WakePending, TypeOK
<1>15. CASE HandleLive
  BY <1>15, OwnCallEffect DEF HandleLive, OwnEffect, WakeInv, Missed, WakePending, TypeOK
<1>16. CASE SetReporting
  BY <1>16 DEF SetReporting, WakeInv, Missed, WakePending, TypeOK
<1>17. CASE SetDestroy
  BY <1>17 DEF SetDestroy, WakeInv, Missed, WakePending, TypeOK
<1>18. CASE Poll
  BY <1>18, PollEffect DEF Poll, OwnEffect, WakeInv, Missed, WakePending, TypeOK
<1>19. CASE Parse
  BY <1>19, ParseEffect DEF Parse, OwnEffect, WakeInv, Missed, WakePending, TypeOK
<1>20. CASE Reparse
  BY <1>20, ParseEffect DEF Reparse, OwnEffect, WakeInv, Missed, WakePending, TypeOK
<1> QED
  BY <1>1, <1>2, <1>3, <1>4, <1>5, <1>6, <1>7, <1>8, <1>9, <1>10, <1>11, <1>12, <1>13, <1>14, <1>15, <1>16, <1>17, <1>18, <1>19, <1>20 DEF ThreadStep

(* It leaves alone what the other threads have in hand. *)
LEMMA ThreadCalls == IInv /\ ThreadStep => CallInv'
<1> SUFFICES ASSUME IInv, ThreadStep PROVE CallInv'
  OBVIOUS
<1> USE DEF IInv, Goto, chanVars, flagVars, lockVars, callVars
<1>1. CASE Start
  BY <1>1, NoSetting DEF Start, CallInv, TypeOK
<1>2. CASE Top
  BY <1>2, NoSetting DEF Top, CallInv, TypeOK
<1>3. CASE Unblocked
  BY <1>3, NoSetting DEF Unblocked, CallInv, TypeOK
<1>4. CASE HandleHangup
  BY <1>4, NoSetting DEF HandleHangup, CallInv, TypeOK
<1>5. CASE HandleReporting
  BY <1>5, NoSetting DEF HandleReporting, CallInv, TypeOK
<1>6. CASE After
  BY <1>6, NoSetting DEF After, CallInv, TypeOK
<1>7. CASE Lock
  BY <1>7, NoSetting DEF Lock, CallInv, TypeOK
<1>8. CASE TestRepeat
  BY <1>8, NoSetting DEF TestRepeat, CallInv, TypeOK
<1>9. CASE Compare
  BY <1>9, NoSetting DEF Compare, CallInv, TypeOK
<1>10. CASE Sleep
  BY <1>10, NoSetting DEF Sleep, CallInv, TypeOK
<1>11. CASE Wakes
  BY <1>11, NoSetting DEF Wakes, CallInv, TypeOK
<1>12. CASE Unlock
  BY <1>12, NoSetting DEF Unlock, CallInv, TypeOK
<1>13. CASE Done
  BY <1>13, NoSetting DEF Done, CallInv, TypeOK
<1>14. CASE RunState
  BY <1>14, ParseEffect, OwnCalls DEF RunState
<1>15. CASE HandleLive
  <2>1. UNCHANGED <<state, ocf, blocked, cause, hungup, hangupRuns>> \/ OwnCall
    BY <1>15 DEF HandleLive
  <2>2. OwnCall
    BY <2>1 DEF OwnCall
  <2> QED
    BY <1>15, <2>2, OwnCallEffect, OwnCalls DEF HandleLive
<1>16. CASE SetReporting
  BY <1>16, NoSetting DEF SetReporting, OwnSet, Ignores, CallInv, TypeOK, EndInv
<1>17. CASE SetDestroy
  BY <1>17, NoSetting DEF SetDestroy, OwnSet, Ignores, CallInv, TypeOK, EndInv
<1>18. CASE Poll
  BY <1>18, PollEffect, OwnCalls DEF Poll
<1>19. CASE Parse
  BY <1>19, ParseEffect, OwnCalls DEF Parse
<1>20. CASE Reparse
  BY <1>20, ParseEffect, OwnCalls DEF Reparse
<1> QED
  BY <1>1, <1>2, <1>3, <1>4, <1>5, <1>6, <1>7, <1>8, <1>9, <1>10, <1>11, <1>12, <1>13, <1>14, <1>15, <1>16, <1>17, <1>18, <1>19, <1>20 DEF ThreadStep

(* It goes through the end of the call in order. *)
LEMMA ThreadEnd == IInv /\ ThreadStep => EndInv'
<1> SUFFICES ASSUME IInv, ThreadStep PROVE EndInv'
  OBVIOUS
<1> USE DEF IInv, Goto, chanVars, flagVars, lockVars, callVars
<1>1. CASE Start
  BY <1>1 DEF Start, EndInv, TypeOK, Turn, CallInv
<1>2. CASE Top
  BY <1>2 DEF Top, EndInv, TypeOK, Turn, CallInv
<1>3. CASE Unblocked
  BY <1>3 DEF Unblocked, EndInv, TypeOK, Turn, CallInv
<1>4. CASE HandleHangup
  BY <1>4 DEF HandleHangup, EndInv, TypeOK, Turn, CallInv
<1>5. CASE HandleReporting
  BY <1>5 DEF HandleReporting, EndInv, TypeOK, Turn, CallInv
<1>6. CASE After
  BY <1>6 DEF After, EndInv, TypeOK, Turn, CallInv
<1>7. CASE Lock
  BY <1>7 DEF Lock, EndInv, TypeOK, Turn, CallInv
<1>8. CASE TestRepeat
  BY <1>8 DEF TestRepeat, EndInv, TypeOK, Turn, CallInv
<1>9. CASE Compare
  BY <1>9 DEF Compare, EndInv, TypeOK, Turn, CallInv
<1>10. CASE Sleep
  BY <1>10 DEF Sleep, EndInv, TypeOK, Turn, CallInv
<1>11. CASE Wakes
  BY <1>11 DEF Wakes, EndInv, TypeOK, Turn, CallInv
<1>12. CASE Unlock
  BY <1>12 DEF Unlock, EndInv, TypeOK, Turn, CallInv
<1>13. CASE Done
  BY <1>13 DEF Done, EndInv, TypeOK, Turn, CallInv
<1>14. CASE RunState
  BY <1>14, ParseEffect, SMTT(30) DEF RunState, OwnEffect, EndInv, TypeOK, CallInv, OwnSet, Ignores, Accepts
<1>15. CASE HandleLive
  BY <1>15, OwnCallEffect, SMTT(40) DEF HandleLive, OwnEffect, EndInv, TypeOK, CallInv, OwnSet, Ignores, Accepts
<1>16. CASE SetReporting
  BY <1>16 DEF SetReporting, EndInv, TypeOK, CallInv, OwnSet, Ignores, Accepts
<1>17. CASE SetDestroy
  BY <1>17, SMTT(30) DEF SetDestroy, EndInv, TypeOK, CallInv, OwnSet, Ignores, Accepts
<1>18. CASE Poll
  BY <1>18, PollEffect, SMTT(40) DEF Poll, OwnEffect, EndInv, TypeOK, CallInv, OwnSet, Ignores, Accepts
<1>19. CASE Parse
  BY <1>19, ParseEffect, SMTT(30) DEF Parse, OwnEffect, EndInv, TypeOK, CallInv, OwnSet, Ignores, Accepts
<1>20. CASE Reparse
  BY <1>20, ParseEffect DEF Reparse, OwnEffect, EndInv, TypeOK, CallInv, OwnSet, Ignores, Accepts
<1> QED
  BY <1>1, <1>2, <1>3, <1>4, <1>5, <1>6, <1>7, <1>8, <1>9, <1>10, <1>11, <1>12, <1>13, <1>14, <1>15, <1>16, <1>17, <1>18, <1>19, <1>20 DEF ThreadStep

-----------------------------------------------------------------------------
(* careful_set stores the state that was asked for, and no request is for a
   state past the hangup. *)
LEMMA WrittenState ==
  ASSUME IInv, NEW c \in Callers, CarefulWrite(c) PROVE state' \in States /\ state' < CS_HANGUP
<1>1. cpc[c] \in Setting /\ state' = arg[c]
  BY DEF CarefulWrite, Setting, At
<1>2. arg[c] \in Midlife
  BY <1>1, TargetsAssumption DEF IInv, CallInv
<1> QED
  BY <1>1, <1>2 DEF Midlife

(* The other threads' steps keep every variable in its range. *)
LEMMA CallType == ASSUME IInv, NEW c \in Callers, CallStep(c) \/ CallStart(c) PROVE TypeOK'
<1> USE DEF IInv, At, To, Finish, Goto, LaunchThread, chanVars, flagVars, lockVars, threadVars, callVars
<1>1. CASE CarefulThread(c)
  BY <1>1, BoundsAssumption DEF CarefulThread, TypeOK, ThreadStates, OffMutex, Owners, CallStates, WakeStates
<1>2. CASE CarefulSession(c)
  BY <1>2, BoundsAssumption DEF CarefulSession, TypeOK, ThreadStates, OffMutex, Owners, CallStates, WakeStates
<1>3. CASE CarefulWrite(c)
  <2>1. state' \in States
    BY <1>3, WrittenState
  <2> QED
    BY <1>3, <2>1 DEF CarefulWrite, TypeOK, ThreadStates, OffMutex, Owners, CallStates, WakeStates
<1>4. CASE WakeTrySession(c)
  BY <1>4, BoundsAssumption DEF WakeTrySession, TypeOK, ThreadStates, OffMutex, Owners, CallStates, WakeStates
<1>5. CASE WakeSignal(c)
  BY <1>5, BoundsAssumption DEF WakeSignal, TypeOK, ThreadStates, OffMutex, Owners, CallStates, WakeStates
<1>6. CASE WakeTryThread(c)
  BY <1>6, BoundsAssumption DEF WakeTryThread, TypeOK, ThreadStates, OffMutex, Owners, CallStates, WakeStates
<1>7. CASE WakeRepeat(c)
  <2>1. repeat' \in BOOLEAN
    BY <1>7 DEF WakeRepeat, TypeOK
  <2> QED
    BY <1>7, <2>1, BoundsAssumption DEF WakeRepeat, TypeOK, ThreadStates, OffMutex, Owners, CallStates, WakeStates
<1>8. CASE WakeRetry(c)
  BY <1>8, BoundsAssumption DEF WakeRetry, TypeOK, ThreadStates, OffMutex, Owners, CallStates, WakeStates
<1>9. CASE WakeGiveUp(c)
  <2>1. gaveUp' \in BOOLEAN
    BY <1>9 DEF WakeGiveUp, TypeOK
  <2> QED
    BY <1>9, <2>1, BoundsAssumption DEF WakeGiveUp, TypeOK, ThreadStates, OffMutex, Owners, CallStates, WakeStates
<1>10. CASE HangupUnblock(c)
  <2>1. blocked' \in BOOLEAN
    BY <1>10, Zenon DEF HangupUnblock, TypeOK
  <2> QED
    BY <1>10, <2>1, BoundsAssumption DEF HangupUnblock, TypeOK, ThreadStates, OffMutex, Owners, CallStates, WakeStates
<1>11. CASE HangupLook(c)
  BY <1>11, BoundsAssumption DEF HangupLook, TypeOK, ThreadStates, OffMutex, Owners, CallStates, WakeStates
<1>12. CASE HangupSet(c)
  BY <1>12, BoundsAssumption DEF HangupSet, TypeOK, ThreadStates, OffMutex, Owners, CallStates, WakeStates
<1>13. CASE HangupCause(c)
  <2>1. cause' \in Causes
    BY <1>13, Zenon DEF HangupCause, CallInv
  <2> QED
    BY <1>13, <2>1 DEF HangupCause, TypeOK, ThreadStates, OffMutex, Owners, CallStates, WakeStates
<1>14. CASE HangupLaunch(c)
  <2>1. started' \in BOOLEAN
    BY <1>14, Zenon DEF HangupLaunch, TypeOK
  <2> QED
    BY <1>14, <2>1, BoundsAssumption, SMTT(40) DEF HangupLaunch, TypeOK, ThreadStates, OffMutex, Owners, CallStates, WakeStates
<1>15. CASE BlockSet(c)
  <2>1. blocked' \in BOOLEAN
    BY <1>15 DEF BlockSet, TypeOK
  <2> QED
    BY <1>15, <2>1, BoundsAssumption, SMTT(40) DEF BlockSet, TypeOK, ThreadStates, OffMutex, Owners, CallStates, WakeStates
<1>16. CASE BlockLaunch(c)
  <2>1. started' \in BOOLEAN
    BY <1>16, Zenon DEF BlockLaunch, TypeOK
  <2> QED
    BY <1>16, <2>1, BoundsAssumption, SMTT(40) DEF BlockLaunch, TypeOK, ThreadStates, OffMutex, Owners, CallStates, WakeStates
<1>17. ASSUME NEW s \in Targets, SetCall(c, s) PROVE TypeOK'
  BY <1>17, BoundsAssumption, SMTT(40) DEF SetCall, TypeOK, ThreadStates, OffMutex, Owners, CallStates, WakeStates
<1>18. ASSUME NEW k \in Causes, HangupCall(c, k) PROVE TypeOK'
  <2>1. ocf' \in BOOLEAN
    BY <1>18 DEF HangupCall, TypeOK
  <2> QED
    BY <1>18, <2>1, BoundsAssumption DEF HangupCall, TypeOK, ThreadStates, OffMutex, Owners, CallStates, WakeStates
<1>19. CASE Launch(c)
  <2>1. started' \in BOOLEAN
    BY <1>19 DEF Launch, TypeOK
  <2> QED
    BY <1>19, <2>1, BoundsAssumption DEF Launch, TypeOK, ThreadStates, OffMutex, Owners, CallStates, WakeStates
<1>20. CASE Send(c)
  BY <1>20, BoundsAssumption, SMTT(30) DEF Send, TypeOK, ThreadStates, OffMutex, Owners, CallStates, WakeStates
<1>21. CASE Ping(c)
  BY <1>21, BoundsAssumption, SMTT(30) DEF Ping, TypeOK, ThreadStates, OffMutex, Owners, CallStates, WakeStates
<1>22. CASE BlockCall(c)
  BY <1>22, BoundsAssumption, SMTT(30) DEF BlockCall, TypeOK, ThreadStates, OffMutex, Owners, CallStates, WakeStates
<1>23. CASE Unblock(c)
  <2>1. blocked' \in BOOLEAN
    BY <1>23, Zenon DEF Unblock, TypeOK
  <2> QED
    BY <1>23, <2>1, BoundsAssumption DEF Unblock, TypeOK, ThreadStates, OffMutex, Owners, CallStates, WakeStates
<1> QED
  BY <1>1, <1>2, <1>3, <1>4, <1>5, <1>6, <1>7, <1>8, <1>9, <1>10, <1>11, <1>12, <1>13, <1>14, <1>15, <1>16, <1>17, <1>18, <1>19, <1>20, <1>21, <1>22, <1>23, SMTT(30) DEF CallStep, CallStart

(* Their steps take and give up the mutexes as the discipline says. *)
LEMMA CallLocks == ASSUME IInv, NEW c \in Callers, CallStep(c) \/ CallStart(c) PROVE LockDiscipline'
<1> USE DEF IInv, At, To, Finish, Goto, LaunchThread, chanVars, flagVars, lockVars, threadVars, callVars
<1>1. CASE CarefulThread(c)
  BY <1>1, OwnersAssumption DEF CarefulThread, LockDiscipline, TypeOK, OffMutex, InRegion, Owners, T, Free, EndInv
<1>2. CASE CarefulSession(c)
  BY <1>2, OwnersAssumption DEF CarefulSession, LockDiscipline, TypeOK, OffMutex, InRegion, Owners, T, Free, EndInv
<1>3. CASE CarefulWrite(c)
  BY <1>3, OwnersAssumption DEF CarefulWrite, LockDiscipline, TypeOK, OffMutex, InRegion, Owners, T, Free, EndInv
<1>4. CASE WakeTrySession(c)
  BY <1>4, OwnersAssumption DEF WakeTrySession, LockDiscipline, TypeOK, OffMutex, InRegion, Owners, T, Free, EndInv
<1>5. CASE WakeSignal(c)
  BY <1>5, OwnersAssumption DEF WakeSignal, LockDiscipline, TypeOK, OffMutex, InRegion, Owners, T, Free, EndInv
<1>6. CASE WakeTryThread(c)
  BY <1>6, OwnersAssumption DEF WakeTryThread, LockDiscipline, TypeOK, OffMutex, InRegion, Owners, T, Free, EndInv
<1>7. CASE WakeRepeat(c)
  BY <1>7, OwnersAssumption DEF WakeRepeat, LockDiscipline, TypeOK, OffMutex, InRegion, Owners, T, Free, EndInv
<1>8. CASE WakeRetry(c)
  BY <1>8, OwnersAssumption DEF WakeRetry, LockDiscipline, TypeOK, OffMutex, InRegion, Owners, T, Free, EndInv
<1>9. CASE WakeGiveUp(c)
  BY <1>9, OwnersAssumption DEF WakeGiveUp, LockDiscipline, TypeOK, OffMutex, InRegion, Owners, T, Free, EndInv
<1>10. CASE HangupUnblock(c)
  BY <1>10, OwnersAssumption DEF HangupUnblock, LockDiscipline, TypeOK, OffMutex, InRegion, Owners, T, Free, EndInv
<1>11. CASE HangupLook(c)
  BY <1>11, OwnersAssumption DEF HangupLook, LockDiscipline, TypeOK, OffMutex, InRegion, Owners, T, Free, EndInv
<1>12. CASE HangupSet(c)
  BY <1>12, OwnersAssumption DEF HangupSet, LockDiscipline, TypeOK, OffMutex, InRegion, Owners, T, Free, EndInv
<1>13. CASE HangupCause(c)
  BY <1>13, OwnersAssumption DEF HangupCause, LockDiscipline, TypeOK, OffMutex, InRegion, Owners, T, Free, EndInv
<1>14. CASE HangupLaunch(c)
  BY <1>14, OwnersAssumption DEF HangupLaunch, LockDiscipline, TypeOK, OffMutex, InRegion, Owners, T, Free, EndInv
<1>15. CASE BlockSet(c)
  BY <1>15, OwnersAssumption, SMTT(30) DEF BlockSet, LockDiscipline, TypeOK, OffMutex, InRegion, Owners, T, Free, EndInv
<1>16. CASE BlockLaunch(c)
  BY <1>16, OwnersAssumption DEF BlockLaunch, LockDiscipline, TypeOK, OffMutex, InRegion, Owners, T, Free, EndInv
<1>17. ASSUME NEW s \in Targets, SetCall(c, s) PROVE LockDiscipline'
  BY <1>17, OwnersAssumption DEF SetCall, LockDiscipline, TypeOK, OffMutex, InRegion, Owners, T, Free, EndInv
<1>18. ASSUME NEW k \in Causes, HangupCall(c, k) PROVE LockDiscipline'
  BY <1>18, OwnersAssumption DEF HangupCall, LockDiscipline, TypeOK, OffMutex, InRegion, Owners, T, Free, EndInv
<1>19. CASE Launch(c)
  BY <1>19, OwnersAssumption DEF Launch, LockDiscipline, TypeOK, OffMutex, InRegion, Owners, T, Free, EndInv
<1>20. CASE Send(c)
  BY <1>20, OwnersAssumption, SMTT(30) DEF Send, LockDiscipline, TypeOK, OffMutex, InRegion, Owners, T, Free, EndInv
<1>21. CASE Ping(c)
  BY <1>21, OwnersAssumption, SMTT(30) DEF Ping, LockDiscipline, TypeOK, OffMutex, InRegion, Owners, T, Free, EndInv
<1>22. CASE BlockCall(c)
  BY <1>22, OwnersAssumption, SMTT(30) DEF BlockCall, LockDiscipline, TypeOK, OffMutex, InRegion, Owners, T, Free, EndInv
<1>23. CASE Unblock(c)
  BY <1>23, OwnersAssumption DEF Unblock, LockDiscipline, TypeOK, OffMutex, InRegion, Owners, T, Free, EndInv
<1> QED
  BY <1>1, <1>2, <1>3, <1>4, <1>5, <1>6, <1>7, <1>8, <1>9, <1>10, <1>11, <1>12, <1>13, <1>14, <1>15, <1>16, <1>17, <1>18, <1>19, <1>20, <1>21, <1>22, <1>23, SMTT(30) DEF CallStep, CallStart

(* Whoever writes has a wake to finish, and finishing it reaches the session thread. *)
LEMMA CallWake == ASSUME IInv, NEW c \in Callers, CallStep(c) \/ CallStart(c) PROVE WakeInv'
<1> USE DEF IInv, At, To, Finish, Goto, LaunchThread, chanVars, flagVars, lockVars, threadVars, callVars
<1>1. CASE CarefulThread(c)
  BY <1>1, ZenonT(30) DEF CarefulThread, WakeInv, Missed, WakePending, WakeStates, LockDiscipline, TypeOK, OffMutex, InRegion, EndInv
<1>2. CASE CarefulSession(c)
  BY <1>2, Zenon DEF CarefulSession, WakeInv, Missed, WakePending, WakeStates, LockDiscipline, TypeOK, OffMutex, InRegion, EndInv
<1>3. CASE CarefulWrite(c)
  BY <1>3, SMTT(30) DEF CarefulWrite, WakeInv, Missed, WakePending, WakeStates, LockDiscipline, TypeOK, OffMutex, InRegion, EndInv
<1>4. CASE WakeTrySession(c)
  BY <1>4, SMTT(30) DEF WakeTrySession, WakeInv, Missed, WakePending, WakeStates, LockDiscipline, TypeOK, OffMutex, InRegion, EndInv
<1>5. CASE WakeSignal(c)
  BY <1>5 DEF WakeSignal, WakeInv, Missed, WakePending, WakeStates, LockDiscipline, TypeOK, OffMutex, InRegion, EndInv
<1>6. CASE WakeTryThread(c)
  BY <1>6 DEF WakeTryThread, WakeInv, Missed, WakePending, WakeStates, LockDiscipline, TypeOK, OffMutex, InRegion, EndInv
<1>7. CASE WakeRepeat(c)
  <2>1. pc \notin InRegion /\ pc' = pc
    BY <1>7, OwnersAssumption, Zenon DEF WakeRepeat, LockDiscipline
  <2> QED
    BY <2>1 DEF WakeInv, Missed, InRegion
<1>8. CASE WakeRetry(c)
  BY <1>8, SMTT(30) DEF WakeRetry, WakeInv, Missed, WakePending, WakeStates, LockDiscipline, TypeOK, OffMutex, InRegion, EndInv
<1>9. CASE WakeGiveUp(c)
  BY <1>9 DEF WakeGiveUp, WakeInv, Missed, WakePending, WakeStates, LockDiscipline, TypeOK, OffMutex, InRegion, EndInv
<1>10. CASE HangupUnblock(c)
  BY <1>10, SMTT(30) DEF HangupUnblock, WakeInv, Missed, WakePending, WakeStates, LockDiscipline, TypeOK, OffMutex, InRegion, EndInv
<1>11. CASE HangupLook(c)
  BY <1>11 DEF HangupLook, WakeInv, Missed, WakePending, WakeStates, LockDiscipline, TypeOK, OffMutex, InRegion, EndInv
<1>12. CASE HangupSet(c)
  BY <1>12 DEF HangupSet, WakeInv, Missed, WakePending, WakeStates, LockDiscipline, TypeOK, OffMutex, InRegion, EndInv
<1>13. CASE HangupCause(c)
  BY <1>13 DEF HangupCause, WakeInv, Missed, WakePending, WakeStates, LockDiscipline, TypeOK, OffMutex, InRegion, EndInv
<1>14. CASE HangupLaunch(c)
  BY <1>14, Zenon DEF HangupLaunch, WakeInv, Missed, WakePending, WakeStates, LockDiscipline, TypeOK, OffMutex, InRegion, EndInv
<1>15. CASE BlockSet(c)
  BY <1>15 DEF BlockSet, WakeInv, Missed, WakePending, WakeStates, LockDiscipline, TypeOK, OffMutex, InRegion, EndInv
<1>16. CASE BlockLaunch(c)
  BY <1>16, Zenon DEF BlockLaunch, WakeInv, Missed, WakePending, WakeStates, LockDiscipline, TypeOK, OffMutex, InRegion, EndInv
<1>17. ASSUME NEW s \in Targets, SetCall(c, s) PROVE WakeInv'
  BY <1>17, Zenon DEF SetCall, WakeInv, Missed, WakePending, WakeStates, LockDiscipline, TypeOK, OffMutex, InRegion, EndInv
<1>18. ASSUME NEW k \in Causes, HangupCall(c, k) PROVE WakeInv'
  BY <1>18, Zenon DEF HangupCall, WakeInv, Missed, WakePending, WakeStates, LockDiscipline, TypeOK, OffMutex, InRegion, EndInv
<1>19. CASE Launch(c)
  BY <1>19 DEF Launch, WakeInv, Missed, WakePending, WakeStates, LockDiscipline, TypeOK, OffMutex, InRegion, EndInv
<1>20. CASE Send(c)
  BY <1>20, ZenonT(30) DEF Send, WakeInv, Missed, WakePending, WakeStates, LockDiscipline, TypeOK, OffMutex, InRegion, EndInv
<1>21. CASE Ping(c)
  BY <1>21, Zenon DEF Ping, WakeInv, Missed, WakePending, WakeStates, LockDiscipline, TypeOK, OffMutex, InRegion, EndInv
<1>22. CASE BlockCall(c)
  BY <1>22 DEF BlockCall, WakeInv, Missed, WakePending, WakeStates, LockDiscipline, TypeOK, OffMutex, InRegion, EndInv
<1>23. CASE Unblock(c)
  BY <1>23 DEF Unblock, WakeInv, Missed, WakePending, WakeStates, LockDiscipline, TypeOK, OffMutex, InRegion, EndInv
<1> QED
  BY <1>1, <1>2, <1>3, <1>4, <1>5, <1>6, <1>7, <1>8, <1>9, <1>10, <1>11, <1>12, <1>13, <1>14, <1>15, <1>16, <1>17, <1>18, <1>19, <1>20, <1>21, <1>22, <1>23 DEF CallStep, CallStart

(* A step of c that leaves the channel's state and the other threads alone, and
   takes on no hangup and no request that c did not have in hand. *)
MovesOn(c) ==
    /\ UNCHANGED <<state, ocf>>
    /\ \A d \in Callers \ {c} : cpc'[d] = cpc[d] /\ arg'[d] = arg[d]
    /\ cpc'[c] \in BeforeSet => cpc[c] \in BeforeSet
    /\ cpc'[c] \in Setting => cpc[c] \in Setting
    /\ cpc'[c] = "h_cause" => cpc[c] = "h_cause"
    /\ cpc'[c] \in BeforeSet \cup Setting \cup {"h_cause"} => arg'[c] = arg[c]

(* Such a step keeps what the threads have in hand. *)
LEMMA MovesOnCalls == ASSUME IInv, NEW c \in Callers, MovesOn(c) PROVE CallInv'
<1>1. \A d \in Callers : cpc'[d] \in BeforeSet => cpc[d] \in BeforeSet
  BY Zenon DEF MovesOn
<1>2. \A d \in Callers : cpc'[d] \in BeforeSet \cup {"h_cause"} =>
          cpc[d] \in BeforeSet \cup {"h_cause"} /\ arg'[d] = arg[d]
  BY DEF MovesOn
<1>3. \A d \in Callers : cpc'[d] \in Setting => cpc[d] \in Setting /\ arg'[d] = arg[d]
  BY DEF MovesOn
<1>4. state' = state /\ ocf' = ocf
  BY DEF MovesOn
<1> QED
  BY <1>1, <1>2, <1>3, <1>4, Zenon DEF IInv, CallInv

(* A hangup is taken once, and a request is written to a channel that is still up. *)
LEMMA CallCalls == ASSUME IInv, NEW c \in Callers, CallStep(c) \/ CallStart(c) PROVE CallInv'
<1> USE DEF At, To, Finish, Goto, LaunchThread, chanVars, flagVars, lockVars, threadVars, callVars
<1>0. cpc \in [Callers -> CallStates] /\ DOMAIN arg = Callers
  BY DEF IInv, TypeOK
<1>1. CASE CarefulWrite(c)
  <2>1. state' < CS_HANGUP /\ state' \in States
    BY <1>1, WrittenState
  <2>2. \A d \in Callers : cpc'[d] = IF d = c THEN "wake" ELSE cpc[d]
    BY <1>0, <1>1 DEF CarefulWrite
  <2>3. arg' = arg /\ ocf' = ocf
    BY <1>1 DEF CarefulWrite
  <2>4. ~(state' >= CS_HANGUP)
    BY <2>1
  <2> QED
    BY <2>1, <2>2, <2>3, <2>4, Zenon DEF IInv, CallInv, BeforeSet, Setting
<1>2. CASE HangupSet(c)
  <2>1. \A d \in Callers : cpc'[d] = IF d = c THEN "h_cause" ELSE cpc[d]
    BY <1>0, <1>2 DEF HangupSet
  <2>2. \A d \in Callers : cpc'[d] \notin BeforeSet
    <3>1. cpc[c] \in BeforeSet
      BY <1>2 DEF HangupSet, BeforeSet
    <3>2. \A d \in Callers : cpc[d] \in BeforeSet => d = c
      BY <3>1 DEF IInv, CallInv
    <3> QED
      BY <2>1, <3>2, Zenon DEF BeforeSet
  <2>3. \A d \in Callers : cpc'[d] \notin Setting
    BY <1>2, <2>1, NoSetting DEF HangupSet, Setting
  <2>4. ocf' /\ arg' = arg
    BY <1>2 DEF HangupSet, IInv, CallInv, BeforeSet
  <2>5. arg[c] \in Causes
    BY <1>2 DEF HangupSet, IInv, CallInv, BeforeSet
  <2> QED
    BY <2>1, <2>2, <2>3, <2>4, <2>5, Zenon DEF IInv, CallInv
<1>3. ASSUME NEW s \in Targets, SetCall(c, s) PROVE CallInv'
  <2>1. state < CS_HANGUP
    BY <1>3, TargetsAssumption DEF SetCall, Ignores, Midlife, IInv, TypeOK
  <2>2. \A d \in Callers : /\ cpc'[d] = IF d = c THEN "cs" ELSE cpc[d]
                           /\ arg'[d] = IF d = c THEN s ELSE arg[d]
    BY <1>0, <1>3 DEF SetCall
  <2>3. state' = state /\ ocf' = ocf
    BY <1>3, SMTT(30) DEF SetCall
  <2> QED
    BY <2>1, <2>2, <2>3, Zenon DEF IInv, CallInv, BeforeSet, Setting
<1>4. ASSUME NEW k \in Causes, HangupCall(c, k) PROVE CallInv'
  <2>1. \A d \in Callers : /\ cpc'[d] = IF d = c THEN "h_clear" ELSE cpc[d]
                           /\ arg'[d] = IF d = c THEN k ELSE arg[d]
    BY <1>0, <1>4 DEF HangupCall
  <2>2. ~ocf /\ ocf' /\ state' = state
    BY <1>4 DEF HangupCall
  <2>3. state < CS_HANGUP
    BY <2>2 DEF IInv, CallInv, TypeOK
  <2>4. \A d \in Callers : cpc[d] \notin BeforeSet
    BY <2>2, Zenon DEF IInv, CallInv
  <2> QED
    BY <2>1, <2>2, <2>3, <2>4 DEF IInv, CallInv, BeforeSet, Setting
<1>5. CarefulThread(c) => MovesOn(c)
  BY <1>0 DEF CarefulThread, MovesOn, BeforeSet, Setting
<1>6. CarefulSession(c) => MovesOn(c)
  BY <1>0 DEF CarefulSession, MovesOn, BeforeSet, Setting
<1>7. WakeTrySession(c) => MovesOn(c)
  BY <1>0 DEF WakeTrySession, MovesOn, BeforeSet, Setting
<1>8. WakeSignal(c) => MovesOn(c)
  BY <1>0 DEF WakeSignal, MovesOn, BeforeSet, Setting
<1>9. WakeTryThread(c) => MovesOn(c)
  BY <1>0 DEF WakeTryThread, MovesOn, BeforeSet, Setting
<1>10. WakeRepeat(c) => MovesOn(c)
  BY <1>0 DEF WakeRepeat, MovesOn, BeforeSet, Setting
<1>11. WakeRetry(c) => MovesOn(c)
  BY <1>0 DEF WakeRetry, MovesOn, BeforeSet, Setting
<1>12. WakeGiveUp(c) => MovesOn(c)
  BY <1>0 DEF WakeGiveUp, MovesOn, BeforeSet, Setting
<1>13. HangupUnblock(c) => MovesOn(c)
  BY <1>0 DEF HangupUnblock, MovesOn, BeforeSet, Setting
<1>14. HangupLook(c) => MovesOn(c)
  BY <1>0 DEF HangupLook, MovesOn, BeforeSet, Setting
<1>15. HangupCause(c) => MovesOn(c)
  BY <1>0 DEF HangupCause, MovesOn, BeforeSet, Setting
<1>16. HangupLaunch(c) => MovesOn(c)
  BY <1>0 DEF HangupLaunch, MovesOn, BeforeSet, Setting
<1>17. BlockSet(c) => MovesOn(c)
  BY <1>0 DEF BlockSet, MovesOn, BeforeSet, Setting
<1>18. BlockLaunch(c) => MovesOn(c)
  BY <1>0 DEF BlockLaunch, MovesOn, BeforeSet, Setting
<1>19. Launch(c) => MovesOn(c)
  BY <1>0 DEF Launch, MovesOn, BeforeSet, Setting
<1>20. Send(c) => MovesOn(c)
  BY <1>0 DEF Send, MovesOn, BeforeSet, Setting
<1>21. Ping(c) => MovesOn(c)
  BY <1>0 DEF Ping, MovesOn, BeforeSet, Setting
<1>22. BlockCall(c) => MovesOn(c)
  BY <1>0 DEF BlockCall, MovesOn, BeforeSet, Setting
<1>23. Unblock(c) => MovesOn(c)
  BY <1>0, SMTT(30) DEF Unblock, MovesOn, BeforeSet, Setting
<1> QED
  BY MovesOnCalls, <1>1, <1>2, <1>3, <1>4, <1>5, <1>6, <1>7, <1>8, <1>9, <1>10, <1>11, <1>12, <1>13, <1>14, <1>15, <1>16, <1>17, <1>18, <1>19, <1>20, <1>21, <1>22, <1>23, SMTT(30) DEF CallStep, CallStart

(* They do not touch the end of the call. *)
LEMMA CallEnd == ASSUME IInv, NEW c \in Callers, CallStep(c) \/ CallStart(c) PROVE EndInv'
<1> USE DEF IInv, At, To, Finish, Goto, LaunchThread, chanVars, flagVars, lockVars, threadVars, callVars
<1>1. CASE CarefulThread(c)
  BY <1>1, TargetsAssumption, Zenon DEF CarefulThread, EndInv, TypeOK, CallInv, BeforeSet, Setting
<1>2. CASE CarefulSession(c)
  BY <1>2, TargetsAssumption, SMTT(30) DEF CarefulSession, EndInv, TypeOK, CallInv, BeforeSet, Setting
<1>3. CASE CarefulWrite(c)
  BY <1>3, TargetsAssumption, SMTT(40) DEF CarefulWrite, EndInv, TypeOK, CallInv, BeforeSet, Setting, Midlife
<1>4. CASE WakeTrySession(c)
  BY <1>4, TargetsAssumption, Zenon DEF WakeTrySession, EndInv, TypeOK, CallInv, BeforeSet, Setting
<1>5. CASE WakeSignal(c)
  BY <1>5, TargetsAssumption, Zenon DEF WakeSignal, EndInv, TypeOK, CallInv, BeforeSet, Setting
<1>6. CASE WakeTryThread(c)
  BY <1>6, TargetsAssumption, Zenon DEF WakeTryThread, EndInv, TypeOK, CallInv, BeforeSet, Setting
<1>7. CASE WakeRepeat(c)
  BY <1>7, TargetsAssumption, Zenon DEF WakeRepeat, EndInv, TypeOK, CallInv, BeforeSet, Setting
<1>8. CASE WakeRetry(c)
  BY <1>8, TargetsAssumption, Zenon DEF WakeRetry, EndInv, TypeOK, CallInv, BeforeSet, Setting
<1>9. CASE WakeGiveUp(c)
  BY <1>9, TargetsAssumption, Zenon DEF WakeGiveUp, EndInv, TypeOK, CallInv, BeforeSet, Setting
<1>10. CASE HangupUnblock(c)
  BY <1>10, TargetsAssumption, Zenon DEF HangupUnblock, EndInv, TypeOK, CallInv, BeforeSet, Setting
<1>11. CASE HangupLook(c)
  BY <1>11, TargetsAssumption, Zenon DEF HangupLook, EndInv, TypeOK, CallInv, BeforeSet, Setting
<1>12. CASE HangupSet(c)
  BY <1>12, TargetsAssumption, SMTT(40) DEF HangupSet, EndInv, TypeOK, CallInv, BeforeSet, Setting
<1>13. CASE HangupCause(c)
  BY <1>13, TargetsAssumption, Zenon DEF HangupCause, EndInv, TypeOK, CallInv, BeforeSet, Setting
<1>14. CASE HangupLaunch(c)
  BY <1>14, TargetsAssumption, SMTT(40) DEF HangupLaunch, EndInv, TypeOK, CallInv, BeforeSet, Setting
<1>15. CASE BlockSet(c)
  BY <1>15, TargetsAssumption, Zenon DEF BlockSet, EndInv, TypeOK, CallInv, BeforeSet, Setting
<1>16. CASE BlockLaunch(c)
  BY <1>16, TargetsAssumption, SMTT(40) DEF BlockLaunch, EndInv, TypeOK, CallInv, BeforeSet, Setting
<1>17. ASSUME NEW s \in Targets, SetCall(c, s) PROVE EndInv'
  BY <1>17, TargetsAssumption, Zenon DEF SetCall, EndInv, TypeOK, CallInv, BeforeSet, Setting
<1>18. ASSUME NEW k \in Causes, HangupCall(c, k) PROVE EndInv'
  BY <1>18, TargetsAssumption, Zenon DEF HangupCall, EndInv, TypeOK, CallInv, BeforeSet, Setting
<1>19. CASE Launch(c)
  BY <1>19, TargetsAssumption, Zenon DEF Launch, EndInv, TypeOK, CallInv, BeforeSet, Setting
<1>20. CASE Send(c)
  BY <1>20, TargetsAssumption, Zenon DEF Send, EndInv, TypeOK, CallInv, BeforeSet, Setting
<1>21. CASE Ping(c)
  BY <1>21, TargetsAssumption, Zenon DEF Ping, EndInv, TypeOK, CallInv, BeforeSet, Setting
<1>22. CASE BlockCall(c)
  BY <1>22, TargetsAssumption DEF BlockCall, EndInv, TypeOK, CallInv, BeforeSet, Setting
<1>23. CASE Unblock(c)
  BY <1>23, TargetsAssumption, Zenon DEF Unblock, EndInv, TypeOK, CallInv, BeforeSet, Setting
<1> QED
  BY <1>1, <1>2, <1>3, <1>4, <1>5, <1>6, <1>7, <1>8, <1>9, <1>10, <1>11, <1>12, <1>13, <1>14, <1>15, <1>16, <1>17, <1>18, <1>19, <1>20, <1>21, <1>22, <1>23 DEF CallStep, CallStart

-----------------------------------------------------------------------------
(* The invariant is inductive. *)
LEMMA StepIInv == IInv /\ [Next]_vars => IInv'
<1> SUFFICES ASSUME IInv, [Next]_vars PROVE IInv'
  OBVIOUS
<1>1. CASE ThreadStep
  BY <1>1, ThreadType, ThreadLocks, ThreadWake, ThreadCalls, ThreadEnd DEF IInv
<1>2. ASSUME NEW c \in Callers, CallStep(c) \/ CallStart(c) PROVE IInv'
  BY <1>2, CallType, CallLocks, CallWake, CallCalls, CallEnd DEF IInv
<1>3. CASE UNCHANGED vars
  <2> USE <1>3 DEF vars, chanVars, flagVars, lockVars, threadVars, callVars, IInv
  <2>1. TypeOK'
    BY Zenon DEF TypeOK
  <2>2. LockDiscipline'
    BY DEF LockDiscipline
  <2>3. WakeInv'
    BY DEF WakeInv, Missed, WakePending
  <2>4. CallInv'
    BY Zenon DEF CallInv
  <2>5. EndInv'
    BY DEF EndInv
  <2> QED
    BY <2>1, <2>2, <2>3, <2>4, <2>5
<1> QED
  BY <1>1, <1>2, <1>3 DEF Next

(* The invariant gives what the runs check: no request is refused, and the
   handlers run once. *)
LEMMA IInvConsequences == IInv => NoLostWakeup /\ HandlersOnce /\ NoRefusal
<1> SUFFICES ASSUME IInv PROVE NoLostWakeup /\ HandlersOnce /\ NoRefusal
  OBVIOUS
<1> USE DEF IInv
<1>1. NoLostWakeup
  BY DEF WakeInv, Missed, NoLostWakeup
<1>2. HandlersOnce
  BY DEF HandlersOnce, EndInv, TypeOK
<1>3. ASSUME NEW s \in Targets PROVE ~Crashes(state, s)
  BY TargetsAssumption DEF Crashes, Accepts, Ignores, Midlife, TypeOK
<1>4. /\ pc = "hung" => Accepts(state, CS_REPORTING)
      /\ pc = "reported" => Accepts(state, CS_DESTROY)
  BY DEF EndInv, Accepts, Midlife
<1> QED
  BY <1>1, <1>2, <1>3, <1>4 DEF NoRefusal

(* The invariant holds in every state of a session and its callers. *)
THEOREM ThreadInvariance == Spec => []IInv
  BY InitIInv, StepIInv, PTL DEF Spec

(* What follows holds for any callers, any states they ask for, any length of the
   message queue and any number of tries of a wake. *)

(* Every variable keeps its range; the queue keeps its limit. *)
THEOREM TypesHold == Spec => []TypeOK
<1>1. IInv => TypeOK
  BY DEF IInv
<1> QED
  BY <1>1, ThreadInvariance, PTL

(* The protocol between switch_core_session_run and those who set the state,
   hang up, send and wake (careful_set, perform_hangup and
   wake_session_thread) loses no wake-up short of a wake that ran out of
   tries. *)
THEOREM NoWakeupLost == Spec => []NoLostWakeup
<1>1. IInv => NoLostWakeup
  BY IInvConsequences DEF IInv
<1> QED
  BY <1>1, ThreadInvariance, PTL

(* session->mutex, thread_mutex and state_mutex are held by who the code thinks
   holds them, at every point of the session's loop and of every call. *)
THEOREM LocksHeldAsThought == Spec => []LockDiscipline
<1>1. IInv => LockDiscipline
  BY IInvConsequences DEF IInv
<1> QED
  BY <1>1, ThreadInvariance, PTL

(* The end of the call is run once: hangup and reporting handlers, and both
   before the thread ends. *)
THEOREM EndsOnce == Spec => []HandlersOnce
<1>1. IInv => HandlersOnce
  BY IInvConsequences DEF IInv
<1> QED
  BY <1>1, ThreadInvariance, PTL

(* No request of any thread, whenever it is made, trips the assertion of
   switch_channel_perform_set_state. *)
THEOREM NeverRefused == Spec => []NoRefusal
<1>1. IInv => NoRefusal
  BY IInvConsequences DEF IInv
<1> QED
  BY <1>1, ThreadInvariance, PTL

(* No step of any thread takes a channel back from its end: what
   perform_set_state decided before a hangup is never written after it. *)
THEOREM NeverRevived == Spec => NeverRevives
<1>1. IInv /\ [Next]_vars => [state >= CS_HANGUP => state' >= state]_vars
  <2> SUFFICES ASSUME IInv, Next, state >= CS_HANGUP PROVE state' >= state
    BY DEF vars
  <2> USE DEF IInv, TypeOK
  <2>1. CASE RunState \/ Parse \/ Reparse
    <3>1. OwnEffect \/ state' = state
      BY <2>1, ParseEffect, Zenon DEF RunState, Parse, Reparse, chanVars
    <3> QED
      BY <3>1 DEF OwnEffect
  <2>2. CASE Poll
    BY <2>2, PollEffect, SMTT(30) DEF OwnEffect
  <2>3. CASE HandleLive
    BY <2>3, OwnCallEffect, SMTT(40) DEF HandleLive, OwnEffect
  <2>4. CASE SetReporting \/ SetDestroy
    BY <2>4 DEF SetReporting, SetDestroy, OwnSet, Ignores
  <2>5. CASE UNCHANGED chanVars
    BY <2>5 DEF chanVars
  <2>6. ASSUME NEW c \in Callers, CallStep(c) PROVE state' >= state
    <3>1. CASE CarefulWrite(c)
      BY <3>1 DEF CarefulWrite, At, CallInv, Setting
    <3>2. CASE HangupSet(c)
      BY <3>2 DEF HangupSet, At, CallInv, BeforeSet
    <3>3. CASE UNCHANGED state
      BY <3>3
    <3> QED
      BY <2>6, <3>1, <3>2, <3>3, Zenon DEF CallStep, CarefulThread, CarefulSession, WakeTrySession,
          WakeSignal, WakeTryThread, WakeRepeat, WakeRetry, WakeGiveUp, HangupUnblock, HangupLook,
          HangupCause, HangupLaunch, LaunchThread, BlockSet, BlockLaunch, chanVars
  <2>7. ASSUME NEW c \in Callers, CallStart(c) PROVE state' >= state
    <3>1. state' = state
      BY <2>7, Zenon DEF CallStart, SetCall, HangupCall, Launch, LaunchThread, Send, Ping, BlockCall,
                Unblock, chanVars
    <3> QED
      BY <3>1
  <2> QED
    BY <2>1, <2>2, <2>3, <2>4, <2>5, <2>6, <2>7, Zenon
       DEF Next, ThreadStep, Start, Top, Unblocked, HandleHangup, HandleReporting, After, Lock,
           TestRepeat, Compare, Sleep, Wakes, Unlock, Done
<1> QED
  BY <1>1, ThreadInvariance, PTL DEF Spec, NeverRevives
=============================================================================
