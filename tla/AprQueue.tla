------------------------------ MODULE AprQueue ------------------------------
(***************************************************************************)
(* The blocking FIFO of apr-util (libs/apr-util/misc/apr_queue.c) behind   *)
(* switch_queue_t: a bounded buffer, one mutex, and the two condition      *)
(* variables not_empty and not_full.  Every critical section under         *)
(* one_big_mutex is one action; the unlocked look at queue->terminated     *)
(* that precedes each of them is an action of its own, or, for the calls   *)
(* that never wait, was made some time before.                             *)
(*                                                                         *)
(* A caller that is inside a call is described by its place in it:         *)
(*   "enter"  past the unlocked test of terminated, not yet in the mutex   *)
(*   "wait"   blocked on the condition variable                            *)
(*   "woken"  signalled, still to re-acquire the mutex                     *)
(* and by the status the call returned otherwise ("out" before any call).  *)
(***************************************************************************)
EXTENDS Integers, Sequences, FiniteSets

CONSTANTS Items,      \* what is queued
          Poppers,    \* threads that pop
          Pushers,    \* threads that push
          Capacity,   \* queue->bounds
          NoItem      \* a popper that holds nothing

ASSUME CapacityAssumption == Capacity \in Nat \ {0}
ASSUME CallersAssumption == IsFiniteSet(Poppers) /\ IsFiniteSet(Pushers)
ASSUME NoItemAssumption == NoItem \notin Items

VARIABLES buf,          \* queue->data from out to in
          terminated,   \* queue->terminated
          popper,       \* [Poppers -> place in apr_queue_pop_timeout]
          got,          \* [Poppers -> *data]
          pusher,       \* [Pushers -> place in apr_queue_push]
          offer         \* [Pushers -> the data argument]

queueVars == <<buf, terminated, popper, got, pusher, offer>>

PopStates == {"out", "enter", "wait", "woken", "ok", "timeup", "eintr", "eof"}
PushStates == {"out", "enter", "wait", "woken", "ok", "eintr", "eof"}

QueueTypeOK ==
    /\ buf \in Seq(Items)
    /\ Len(buf) <= Capacity
    /\ terminated \in BOOLEAN
    /\ popper \in [Poppers -> PopStates]
    /\ got \in [Poppers -> Items \cup {NoItem}]
    /\ pusher \in [Pushers -> PushStates]
    /\ offer \in [Pushers -> Items \cup {NoItem}]

QueueInit ==
    /\ buf = << >>
    /\ terminated = FALSE
    /\ popper = [p \in Poppers |-> "out"]
    /\ got = [p \in Poppers |-> NoItem]
    /\ pusher = [p \in Pushers |-> "out"]
    /\ offer = [p \in Pushers |-> NoItem]

-----------------------------------------------------------------------------
(* Threads blocked on, or signalled out of, a condition variable.          *)

In(f, place) == {t \in DOMAIN f : f[t] = place}

(* apr_thread_cond_signal: one blocked thread, if any, leaves the wait.  A
   thread that was signalled before and has not run yet is no longer blocked,
   although empty_waiters / full_waiters still counts it. *)
Signal(f, g) ==
    \/ In(f, "wait") = {} /\ g = f
    \/ \E t \in In(f, "wait") : g = [f EXCEPT ![t] = "woken"]

(* apr_thread_cond_broadcast *)
Broadcast(f) == [t \in DOMAIN f |-> IF f[t] = "wait" THEN "woken" ELSE f[t]]

-----------------------------------------------------------------------------
(* apr_queue_push                                                           *)

(* The call starts: the unlocked test of terminated. *)
PushCall(p, item) ==
    /\ pusher[p] \in {"out", "ok", "eof"}
    /\ pusher' = [pusher EXCEPT ![p] = IF terminated THEN "eof" ELSE "enter"]
    /\ offer' = [offer EXCEPT ![p] = item]
    /\ UNCHANGED <<buf, terminated, popper, got>>

(* Definitions marked "Slip" are plausible mistakes in the definition that
   follows; they are used only to show that the properties would notice. *)
(* Slip: no signal. *)
StoreSilent(p) ==
    /\ Len(buf) < Capacity
    /\ buf' = Append(buf, offer[p])
    /\ pusher' = [pusher EXCEPT ![p] = "ok"]
    /\ UNCHANGED <<terminated, popper, got, offer>>

(* The item is stored and not_empty signalled, in one critical section. *)
Store(p) ==
    /\ Len(buf) < Capacity
    /\ buf' = Append(buf, offer[p])
    /\ Signal(popper, popper')
    /\ pusher' = [pusher EXCEPT ![p] = "ok"]
    /\ UNCHANGED <<terminated, got, offer>>

(* Full on entry: wait for not_full, or give up when terminated. *)
PushFull(p) ==
    /\ Len(buf) >= Capacity
    /\ pusher' = [pusher EXCEPT ![p] = IF terminated THEN "eof" ELSE "wait"]
    /\ UNCHANGED <<buf, terminated, popper, got, offer>>

PushEnter(p) == pusher[p] = "enter" /\ (Store(p) \/ PushFull(p))

(* "If we wake up and it's still empty, then we were interrupted": the wait
   is an if, not a loop. *)
PushStillFull(p) ==
    /\ Len(buf) >= Capacity
    /\ pusher' = [pusher EXCEPT ![p] = IF terminated THEN "eof" ELSE "eintr"]
    /\ UNCHANGED <<buf, terminated, popper, got, offer>>

PushWoken(p) == pusher[p] = "woken" /\ (Store(p) \/ PushStillFull(p))

(* switch_queue_push calls apr_queue_push again for as long as it returns
   APR_EINTR. *)
PushAgain(p) ==
    /\ pusher[p] = "eintr"
    /\ pusher' = [pusher EXCEPT ![p] = IF terminated THEN "eof" ELSE "enter"]
    /\ UNCHANGED <<buf, terminated, popper, got, offer>>

PushStep(p) == PushEnter(p) \/ PushWoken(p) \/ PushAgain(p)

-----------------------------------------------------------------------------
(* apr_queue_pop and apr_queue_pop_timeout                                  *)

PopCall(p) ==
    /\ popper[p] \in {"out", "ok", "timeup", "eintr"}
    /\ popper' = [popper EXCEPT ![p] = IF terminated THEN "eof" ELSE "enter"]
    /\ got' = [got EXCEPT ![p] = NoItem]
    /\ UNCHANGED <<buf, terminated, pusher, offer>>

(* Slips: the newest item first; the item left in the buffer. *)
TakeNewest(p) ==
    /\ buf # << >>
    /\ got' = [got EXCEPT ![p] = buf[Len(buf)]]
    /\ buf' = SubSeq(buf, 1, Len(buf) - 1)
    /\ Signal(pusher, pusher')
    /\ popper' = [popper EXCEPT ![p] = "ok"]
    /\ UNCHANGED <<terminated, offer>>

TakeCopy(p) ==
    /\ buf # << >>
    /\ got' = [got EXCEPT ![p] = Head(buf)]
    /\ buf' = buf
    /\ Signal(pusher, pusher')
    /\ popper' = [popper EXCEPT ![p] = "ok"]
    /\ UNCHANGED <<terminated, offer>>

(* The oldest item leaves and not_full is signalled. *)
Take(p) ==
    /\ buf # << >>
    /\ got' = [got EXCEPT ![p] = Head(buf)]
    /\ buf' = Tail(buf)
    /\ Signal(pusher, pusher')
    /\ popper' = [popper EXCEPT ![p] = "ok"]
    /\ UNCHANGED <<terminated, offer>>

PopEmpty(p) ==
    /\ buf = << >>
    /\ popper' = [popper EXCEPT ![p] = IF terminated THEN "eof" ELSE "wait"]
    /\ UNCHANGED <<buf, terminated, got, pusher, offer>>

PopEnter(p) == popper[p] = "enter" /\ (Take(p) \/ PopEmpty(p))

PopStillEmpty(p) ==
    /\ buf = << >>
    /\ popper' = [popper EXCEPT ![p] = IF terminated THEN "eof" ELSE "eintr"]
    /\ UNCHANGED <<buf, terminated, got, pusher, offer>>

PopWoken(p) == popper[p] = "woken" /\ (Take(p) \/ PopStillEmpty(p))

(* apr_thread_cond_timedwait runs out: APR_TIMEUP, whatever the queue holds. *)
PopTimeout(p) ==
    /\ popper[p] = "wait"
    /\ popper' = [popper EXCEPT ![p] = "timeup"]
    /\ UNCHANGED <<buf, terminated, got, pusher, offer>>

PopStep(p) == PopEnter(p) \/ PopWoken(p)

-----------------------------------------------------------------------------
(* apr_queue_trypush and apr_queue_trypop never wait: APR_EAGAIN, and nothing
   happens, when the queue is full (empty).  Their caller is not a popper or a
   pusher, and what trypop returns is the head of buf.  Their look at
   terminated is made before the mutex is taken, so a caller may have made it
   before the queue was terminated and come here any time later. *)

TryPush(item) ==
    /\ Len(buf) < Capacity
    /\ buf' = Append(buf, item)
    /\ Signal(popper, popper')
    /\ UNCHANGED <<terminated, got, pusher, offer>>

TryPop ==
    /\ buf # << >>
    /\ buf' = Tail(buf)
    /\ Signal(pusher, pusher')
    /\ UNCHANGED <<terminated, popper, got, offer>>

-----------------------------------------------------------------------------
(* apr_queue_term sets terminated in one critical section and wakes every
   waiter in a second one. *)

TermSet ==
    /\ ~terminated
    /\ terminated' = TRUE
    /\ UNCHANGED <<buf, popper, got, pusher, offer>>

(* apr_queue_interrupt_all *)
InterruptAll ==
    /\ popper' = Broadcast(popper)
    /\ pusher' = Broadcast(pusher)
    /\ UNCHANGED <<buf, terminated, got, offer>>

-----------------------------------------------------------------------------
(* Any clients: threads that push, pop, interrupt and terminate at will.    *)

QueueNext ==
    \/ \E p \in Pushers : PushStep(p) \/ (\E item \in Items : PushCall(p, item))
    \/ \E p \in Poppers : PopCall(p) \/ PopStep(p) \/ PopTimeout(p)
    \/ \E item \in Items : TryPush(item)
    \/ TryPop
    \/ TermSet
    \/ InterruptAll

QueueSpec == QueueInit /\ [][QueueNext]_queueVars

-----------------------------------------------------------------------------
(* A thread is blocked on not_empty only while every queued item is already
   promised to a signalled thread, and on not_full only while every free slot
   is: no signal of push or pop is ever lost. *)
NoLostWakeup ==
    /\ In(popper, "wait") # {} => Len(buf) <= Cardinality(In(popper, "woken"))
    /\ In(pusher, "wait") # {} =>
          Capacity - Len(buf) <= Cardinality(In(pusher, "woken"))

(* The buffer is a FIFO of at most Capacity items whatever the interleaving:
   every step of push, pop, interrupt and term adds one item at the tail,
   removes the one at the head, or leaves the buffer alone. *)
Fifo == INSTANCE BoundedFifo WITH q <- buf
IsFifo == Fifo!Spec
=============================================================================
