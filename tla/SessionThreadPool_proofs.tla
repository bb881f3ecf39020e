---------------------- MODULE SessionThreadPool_proofs ----------------------
(***************************************************************************)
(* Proofs about AprQueue (its types, that no wakeup is lost, that the      *)
(* buffer is a bounded FIFO, for any finite sets of callers, any items and *)
(* any capacity) and about the session thread pool that is built on it:    *)
(* its counters, its work and its shutdown, for any finite numbers of      *)
(* launches and workers and any capacity.                                  *)
(***************************************************************************)
EXTENDS SessionThreadPool, FiniteSetTheorems, TLAPS

-----------------------------------------------------------------------------
(* The queue. *)

(* The buffer as a sequence.  It is empty when its length is zero. *)
LEMMA SeqLen ==
    ASSUME NEW S, NEW q \in Seq(S)
    PROVE  Len(q) \in Nat /\ (q = << >> <=> Len(q) = 0)
  OBVIOUS

(* An item that is put behind leaves the others where they are. *)
LEMMA SeqAppend ==
    ASSUME NEW S, NEW q \in Seq(S), NEW i \in S
    PROVE  /\ Append(q, i) \in Seq(S) /\ Append(q, i) # << >>
           /\ Len(Append(q, i)) = Len(q) + 1 /\ Append(q, i)[Len(q) + 1] = i
           /\ \A n \in 1 .. Len(q) : Append(q, i)[n] = q[n]
  OBVIOUS

(* Taking the first moves the others up by one. *)
LEMMA SeqTail ==
    ASSUME NEW S, NEW q \in Seq(S), q # << >>
    PROVE  /\ Head(q) \in S /\ Head(q) = q[1] /\ Tail(q) \in Seq(S)
           /\ Len(Tail(q)) = Len(q) - 1
           /\ \A n \in 1 .. Len(Tail(q)) : Tail(q)[n] = q[n + 1]
  OBVIOUS

(* The empty buffer is one of any items. *)
LEMMA SeqNone == \A S : << >> \in Seq(S) /\ Len(<< >>) = 0
  OBVIOUS

(* A pusher that is inside a call offers an item. *)
OfferOK == \A p \in Pushers : pusher[p] # "out" => offer[p] \in Items

(* The inductive invariant.  NoLostWakeup is inductive given the types. *)
QInv == QueueTypeOK /\ OfferOK /\ NoLostWakeup

-----------------------------------------------------------------------------
(* How the sets of blocked and of signalled threads change. *)

(* Finitely many threads are anywhere. *)
LEMMA InFinite ==
  ASSUME NEW T, IsFiniteSet(T), NEW S, NEW f \in [T -> S], NEW at
  PROVE  IsFiniteSet(In(f, at)) /\ Cardinality(In(f, at)) \in Nat
<1>1. In(f, at) \in SUBSET T BY DEF In
<1> QED BY <1>1, FS_Subset, FS_CardinalityType

(* A signalled thread runs and its call succeeds. *)
LEMMA MoveWoken ==
  ASSUME NEW T, IsFiniteSet(T), NEW S, NEW f \in [T -> S], NEW t \in T, NEW g,
         f[t] = "woken", g = [f EXCEPT ![t] = "ok"]
  PROVE  /\ Cardinality(In(g, "woken")) = Cardinality(In(f, "woken")) - 1
         /\ In(g, "wait") = In(f, "wait")
<1>1. In(g, "woken") = In(f, "woken") \ {t} BY DEF In
<1>2. In(g, "wait") = In(f, "wait") BY DEF In
<1>3. t \in In(f, "woken") BY DEF In
<1>4. IsFiniteSet(In(f, "woken")) BY InFinite
<1> QED BY <1>1, <1>2, <1>3, <1>4, FS_RemoveElement, Zenon

(* A signal, if anyone is still blocked after it, promised one more item. *)
LEMMA SignalPromises ==
  ASSUME NEW T, IsFiniteSet(T), NEW S, "woken" \in S, NEW f \in [T -> S], NEW g,
         Signal(f, g)
  PROVE  /\ g \in [T -> S]
         /\ In(g, "wait") # {} =>
              /\ In(f, "wait") # {}
              /\ Cardinality(In(g, "woken")) = Cardinality(In(f, "woken")) + 1
<1>1. CASE In(f, "wait") = {} /\ g = f BY <1>1
<1>2. CASE \E t \in In(f, "wait") : g = [f EXCEPT ![t] = "woken"]
  <2>1. PICK t \in In(f, "wait") : g = [f EXCEPT ![t] = "woken"] BY <1>2, Zenon
  <2>2. t \in T /\ f[t] = "wait" BY DEF In
  <2>3. In(g, "woken") = In(f, "woken") \cup {t} BY <2>1, <2>2 DEF In
  <2>4. t \notin In(f, "woken") BY <2>2 DEF In
  <2>5. IsFiniteSet(In(f, "woken")) BY InFinite
  <2>6. Cardinality(In(g, "woken")) = Cardinality(In(f, "woken")) + 1
    BY <2>3, <2>4, <2>5, FS_AddElement
  <2> QED BY <2>1, <2>2, <2>6
<1> QED BY <1>1, <1>2 DEF Signal

-----------------------------------------------------------------------------
(* What the two buffer operations do to the buffer. *)
LEMMA StoreBuf ==
  ASSUME QueueTypeOK, NEW p \in Pushers, offer[p] \in Items, Store(p)
  PROVE  buf' \in Seq(Items) /\ Len(buf') = Len(buf) + 1 /\ Len(buf') <= Capacity
BY CapacityAssumption, SeqAppend, SeqLen DEF QueueTypeOK, Store

LEMMA TakeBuf ==
  ASSUME QueueTypeOK, NEW p \in Poppers, Take(p)
  PROVE  /\ buf' \in Seq(Items) /\ Len(buf') = Len(buf) - 1
         /\ Head(buf) \in Items /\ Len(buf) \in Nat \ {0}
BY SeqTail, SeqLen, SeqNone DEF QueueTypeOK, Take

-----------------------------------------------------------------------------
(* Every step preserves the invariant: one lemma for each caller's side. *)

LEMMA PushPreserves ==
  ASSUME QInv, NEW p \in Pushers,
         PushStep(p) \/ (\E item \in Items : PushCall(p, item))
  PROVE  QInv'
<1> USE DEF QInv
<1>len. Len(buf) \in Nat BY SeqLen DEF QueueTypeOK
<1>1. ASSUME NEW item \in Items, PushCall(p, item) PROVE QInv'
  <2>1. QueueTypeOK' BY <1>1 DEF QueueTypeOK, PushCall, PushStates
  <2>2. OfferOK' BY <1>1 DEF QueueTypeOK, OfferOK, PushCall
  <2>3. In(pusher', "woken") = In(pusher, "woken") /\ In(pusher', "wait") \subseteq In(pusher, "wait")
    BY <1>1 DEF In, QueueTypeOK, PushCall
  <2>4. NoLostWakeup' BY <1>1, <2>3, Zenon DEF NoLostWakeup, PushCall
  <2> QED BY <2>1, <2>2, <2>4
<1>2. ASSUME pusher[p] \in {"enter", "woken"}, Store(p) PROVE QInv'
  <2>1. offer[p] \in Items BY <1>2 DEF OfferOK
  <2>2. buf' \in Seq(Items) /\ Len(buf') = Len(buf) + 1 /\ Len(buf') <= Capacity
    BY <1>2, <2>1, StoreBuf
  <2>3. /\ popper' \in [Poppers -> PopStates]
        /\ In(popper', "wait") # {} =>
             /\ In(popper, "wait") # {}
             /\ Cardinality(In(popper', "woken")) = Cardinality(In(popper, "woken")) + 1
    <3>1. /\ popper \in [Poppers -> PopStates] /\ "woken" \in PopStates
          /\ Signal(popper, popper')
      BY <1>2 DEF Store, QueueTypeOK, PopStates
    <3> QED BY <3>1, SignalPromises, CallersAssumption
  <2>4. QueueTypeOK' BY <1>2, <2>2, <2>3 DEF QueueTypeOK, Store, PushStates
  <2>5. OfferOK' BY <1>2, <2>1 DEF OfferOK, Store, QueueTypeOK
  <2>6. In(popper', "wait") # {} => Len(buf') <= Cardinality(In(popper', "woken"))
    <3>1. Cardinality(In(popper, "woken")) \in Nat
      BY InFinite, CallersAssumption, Zenon DEF QueueTypeOK
    <3> QED BY <2>2, <2>3, <3>1, <1>len DEF NoLostWakeup
  <2>7. In(pusher', "wait") # {} =>
          Capacity - Len(buf') <= Cardinality(In(pusher', "woken"))
    <3>0. Cardinality(In(pusher, "woken")) \in Nat
      BY InFinite, CallersAssumption, Zenon DEF QueueTypeOK
    <3>1. CASE pusher[p] = "enter"
      <4>1. In(pusher', "woken") = In(pusher, "woken") /\ In(pusher', "wait") \subseteq In(pusher, "wait")
        BY <1>2, <3>1 DEF In, QueueTypeOK, Store
      <4> QED BY <4>1, <3>0, <2>2, <1>len, CapacityAssumption DEF NoLostWakeup
    <3>2. CASE pusher[p] = "woken"
      <4>1. /\ Cardinality(In(pusher', "woken")) = Cardinality(In(pusher, "woken")) - 1
            /\ In(pusher', "wait") = In(pusher, "wait")
        <5>1. pusher \in [Pushers -> PushStates] /\ pusher' = [pusher EXCEPT ![p] = "ok"]
          BY <1>2 DEF QueueTypeOK, Store
        <5> QED BY <5>1, <3>2, MoveWoken, CallersAssumption, Zenon
      <4> QED BY <4>1, <3>0, <2>2, <1>len, CapacityAssumption DEF NoLostWakeup
    <3> QED BY <1>2, <3>1, <3>2
  <2> QED BY <2>4, <2>5, <2>6, <2>7 DEF NoLostWakeup
<1>3. ASSUME \/ pusher[p] = "enter" /\ PushFull(p)
             \/ pusher[p] = "woken" /\ PushStillFull(p)
      PROVE  QInv'
  <2>1. QueueTypeOK' BY <1>3 DEF QueueTypeOK, PushFull, PushStillFull, PushStates
  <2>2. OfferOK' BY <1>3 DEF OfferOK, PushFull, PushStillFull, QueueTypeOK
  <2>3. Cardinality(In(pusher', "woken")) \in Nat
    BY <2>1, InFinite, CallersAssumption, Zenon DEF QueueTypeOK
  <2>4. Capacity - Len(buf') <= 0
    BY <1>3, <1>len, CapacityAssumption DEF PushFull, PushStillFull, QueueTypeOK
  <2>5. NoLostWakeup'
    BY <1>3, <2>3, <2>4, <1>len, CapacityAssumption DEF NoLostWakeup, PushFull, PushStillFull
  <2> QED BY <2>1, <2>2, <2>5
<1>4. ASSUME PushAgain(p) PROVE QInv'
  <2>1. QueueTypeOK' BY <1>4 DEF QueueTypeOK, PushAgain, PushStates
  <2>2. OfferOK' BY <1>4 DEF OfferOK, PushAgain, QueueTypeOK
  <2>3. In(pusher', "woken") = In(pusher, "woken") /\ In(pusher', "wait") \subseteq In(pusher, "wait")
    BY <1>4 DEF In, QueueTypeOK, PushAgain
  <2>4. NoLostWakeup' BY <1>4, <2>3, Zenon DEF NoLostWakeup, PushAgain
  <2> QED BY <2>1, <2>2, <2>4
<1> QED BY <1>1, <1>2, <1>3, <1>4 DEF PushStep, PushEnter, PushWoken

LEMMA PopPreserves ==
  ASSUME QInv, NEW p \in Poppers, PopCall(p) \/ PopStep(p) \/ PopTimeout(p)
  PROVE  QInv'
<1> USE DEF QInv
<1>len. Len(buf) \in Nat BY SeqLen DEF QueueTypeOK
<1>1. ASSUME PopCall(p) \/ PopTimeout(p) PROVE QInv'
  <2>1. QueueTypeOK' BY <1>1 DEF QueueTypeOK, PopCall, PopTimeout, PopStates
  <2>2. OfferOK' BY <1>1 DEF OfferOK, PopCall, PopTimeout
  <2>3. In(popper', "woken") = In(popper, "woken") /\ In(popper', "wait") \subseteq In(popper, "wait")
    BY <1>1 DEF In, QueueTypeOK, PopCall, PopTimeout
  <2>4. NoLostWakeup' BY <1>1, <2>3 DEF NoLostWakeup, PopCall, PopTimeout
  <2> QED BY <2>1, <2>2, <2>4
<1>2. ASSUME popper[p] \in {"enter", "woken"}, Take(p) PROVE QInv'
  <2>2. /\ buf' \in Seq(Items) /\ Len(buf') = Len(buf) - 1
        /\ Head(buf) \in Items /\ Len(buf) \in Nat \ {0}
    BY <1>2, TakeBuf
  <2>3. /\ pusher' \in [Pushers -> PushStates]
        /\ In(pusher', "wait") # {} =>
             /\ In(pusher, "wait") # {}
             /\ Cardinality(In(pusher', "woken")) = Cardinality(In(pusher, "woken")) + 1
    <3>1. /\ pusher \in [Pushers -> PushStates] /\ "woken" \in PushStates
          /\ Signal(pusher, pusher')
      BY <1>2 DEF Take, QueueTypeOK, PushStates
    <3> QED BY <3>1, SignalPromises, CallersAssumption
  <2>4. QueueTypeOK'
    BY <1>2, <2>2, <2>3, CapacityAssumption DEF QueueTypeOK, Take, PopStates
  <2>5. OfferOK'
    <3>1. \A u \in Pushers : pusher'[u] # "out" => pusher[u] # "out"
      BY <1>2 DEF Take, Signal, In, QueueTypeOK
    <3> QED BY <1>2, <3>1 DEF OfferOK, Take
  <2>6. In(pusher', "wait") # {} =>
          Capacity - Len(buf') <= Cardinality(In(pusher', "woken"))
    <3>1. Cardinality(In(pusher, "woken")) \in Nat
      BY InFinite, CallersAssumption, Zenon DEF QueueTypeOK
    <3> QED BY <2>2, <2>3, <3>1, CapacityAssumption DEF NoLostWakeup
  <2>7. In(popper', "wait") # {} => Len(buf') <= Cardinality(In(popper', "woken"))
    <3>0. Cardinality(In(popper, "woken")) \in Nat
      BY InFinite, CallersAssumption, Zenon DEF QueueTypeOK
    <3>1. CASE popper[p] = "enter"
      <4>1. In(popper', "woken") = In(popper, "woken") /\ In(popper', "wait") \subseteq In(popper, "wait")
        BY <1>2, <3>1 DEF In, QueueTypeOK, Take
      <4> QED BY <4>1, <3>0, <2>2 DEF NoLostWakeup
    <3>2. CASE popper[p] = "woken"
      <4>1. /\ Cardinality(In(popper', "woken")) = Cardinality(In(popper, "woken")) - 1
            /\ In(popper', "wait") = In(popper, "wait")
        <5>1. popper \in [Poppers -> PopStates] /\ popper' = [popper EXCEPT ![p] = "ok"]
          BY <1>2 DEF QueueTypeOK, Take
        <5> QED BY <5>1, <3>2, MoveWoken, CallersAssumption, Zenon
      <4> QED BY <4>1, <3>0, <2>2 DEF NoLostWakeup
    <3> QED BY <1>2, <3>1, <3>2
  <2> QED BY <2>4, <2>5, <2>6, <2>7 DEF NoLostWakeup
<1>3. ASSUME \/ popper[p] = "enter" /\ PopEmpty(p)
             \/ popper[p] = "woken" /\ PopStillEmpty(p)
      PROVE  QInv'
  <2>1. QueueTypeOK' BY <1>3 DEF QueueTypeOK, PopEmpty, PopStillEmpty, PopStates
  <2>2. OfferOK' BY <1>3 DEF OfferOK, PopEmpty, PopStillEmpty
  <2>3. Cardinality(In(popper', "woken")) \in Nat
    BY <2>1, InFinite, CallersAssumption, Zenon DEF QueueTypeOK
  <2>4. Len(buf') = 0 BY <1>3, SeqNone DEF PopEmpty, PopStillEmpty
  <2>5. NoLostWakeup'
    BY <1>3, <2>3, <2>4 DEF NoLostWakeup, PopEmpty, PopStillEmpty
  <2> QED BY <2>1, <2>2, <2>5
<1> QED BY <1>1, <1>2, <1>3 DEF PopStep, PopEnter, PopWoken

LEMMA TryPreserves ==
  ASSUME QInv, TryPop \/ (\E item \in Items : TryPush(item))
  PROVE  QInv'
<1> USE DEF QInv
<1>len. Len(buf) \in Nat BY SeqLen DEF QueueTypeOK
<1>1. ASSUME NEW item \in Items, TryPush(item) PROVE QInv'
  <2>1. buf' \in Seq(Items) /\ Len(buf') = Len(buf) + 1 /\ Len(buf') <= Capacity
    BY <1>1, CapacityAssumption, SeqAppend, SeqLen DEF QueueTypeOK, TryPush
  <2>2. /\ popper' \in [Poppers -> PopStates]
        /\ In(popper', "wait") # {} =>
             /\ In(popper, "wait") # {}
             /\ Cardinality(In(popper', "woken")) = Cardinality(In(popper, "woken")) + 1
    <3>1. /\ popper \in [Poppers -> PopStates] /\ "woken" \in PopStates
          /\ Signal(popper, popper')
      BY <1>1 DEF TryPush, QueueTypeOK, PopStates
    <3> QED BY <3>1, SignalPromises, CallersAssumption
  <2>3. QueueTypeOK' BY <1>1, <2>1, <2>2 DEF QueueTypeOK, TryPush
  <2>4. OfferOK' BY <1>1 DEF OfferOK, TryPush
  <2>5. Cardinality(In(popper, "woken")) \in Nat /\ Cardinality(In(pusher, "woken")) \in Nat
    BY InFinite, CallersAssumption, Zenon DEF QueueTypeOK
  <2>6. In(popper', "wait") # {} => Len(buf') <= Cardinality(In(popper', "woken"))
    BY <2>1, <2>2, <2>5, <1>len DEF NoLostWakeup
  <2>7. In(pusher', "wait") # {} =>
          Capacity - Len(buf') <= Cardinality(In(pusher', "woken"))
    BY <1>1, <2>1, <2>5, <1>len, CapacityAssumption DEF NoLostWakeup, TryPush
  <2> QED BY <2>3, <2>4, <2>6, <2>7 DEF NoLostWakeup
<1>2. ASSUME TryPop PROVE QInv'
  <2>1. buf' \in Seq(Items) /\ Len(buf') = Len(buf) - 1 /\ Len(buf) \in Nat \ {0}
    BY <1>2, SeqTail, SeqLen, SeqNone DEF QueueTypeOK, TryPop
  <2>2. /\ pusher' \in [Pushers -> PushStates]
        /\ In(pusher', "wait") # {} =>
             /\ In(pusher, "wait") # {}
             /\ Cardinality(In(pusher', "woken")) = Cardinality(In(pusher, "woken")) + 1
    <3>1. /\ pusher \in [Pushers -> PushStates] /\ "woken" \in PushStates
          /\ Signal(pusher, pusher')
      BY <1>2 DEF TryPop, QueueTypeOK, PushStates
    <3> QED BY <3>1, SignalPromises, CallersAssumption
  <2>3. QueueTypeOK' BY <1>2, <2>1, <2>2, CapacityAssumption DEF QueueTypeOK, TryPop
  <2>4. OfferOK'
    <3>1. \A u \in Pushers : pusher'[u] # "out" => pusher[u] # "out"
      BY <1>2 DEF TryPop, Signal, In, QueueTypeOK
    <3> QED BY <1>2, <3>1 DEF OfferOK, TryPop
  <2>5. Cardinality(In(popper, "woken")) \in Nat /\ Cardinality(In(pusher, "woken")) \in Nat
    BY InFinite, CallersAssumption, Zenon DEF QueueTypeOK
  <2>6. In(popper', "wait") # {} => Len(buf') <= Cardinality(In(popper', "woken"))
    BY <1>2, <2>1, <2>5 DEF NoLostWakeup, TryPop
  <2>7. In(pusher', "wait") # {} =>
          Capacity - Len(buf') <= Cardinality(In(pusher', "woken"))
    BY <2>1, <2>2, <2>5, CapacityAssumption DEF NoLostWakeup
  <2> QED BY <2>3, <2>4, <2>6, <2>7 DEF NoLostWakeup
<1> QED BY <1>1, <1>2

LEMMA ControlPreserves ==
  ASSUME QInv, TermSet \/ InterruptAll \/ UNCHANGED queueVars
  PROVE  QInv'
<1> USE DEF QInv
<1>1. CASE TermSet
  BY <1>1 DEF TermSet, QueueTypeOK, OfferOK, NoLostWakeup
<1>2. CASE InterruptAll
  <2>1. QueueTypeOK'
    BY <1>2 DEF InterruptAll, Broadcast, QueueTypeOK, PopStates, PushStates
  <2>2. OfferOK' BY <1>2 DEF InterruptAll, Broadcast, OfferOK, QueueTypeOK
  <2>3. In(popper', "wait") = {} /\ In(pusher', "wait") = {}
    BY <1>2 DEF InterruptAll, Broadcast, In, QueueTypeOK
  <2> QED BY <2>1, <2>2, <2>3 DEF NoLostWakeup
<1>3. CASE UNCHANGED queueVars
  BY <1>3 DEF queueVars, QueueTypeOK, OfferOK, NoLostWakeup
<1> QED BY <1>1, <1>2, <1>3

LEMMA InitQInv == QueueInit => QInv
<1> SUFFICES ASSUME QueueInit PROVE QInv OBVIOUS
<1>1. QueueTypeOK
  <2>1. buf \in Seq(Items) /\ Len(buf) = 0 BY SeqNone DEF QueueInit
  <2>2. Len(buf) <= Capacity BY <2>1, CapacityAssumption
  <2> QED BY <2>1, <2>2, Zenon DEF QueueInit, QueueTypeOK, PopStates, PushStates
<1>2. OfferOK BY DEF QueueInit, OfferOK
<1>3. In(popper, "wait") = {} /\ In(pusher, "wait") = {} BY DEF QueueInit, In
<1> QED BY <1>1, <1>2, <1>3 DEF QInv, NoLostWakeup

(* The queue's types and the promise of its condition variables hold for every
   set of callers: while a thread is blocked in apr_queue_pop or
   apr_queue_push, each queued item (each free slot) is owed to a thread that
   has been signalled. *)
THEOREM QueueCorrect == QueueSpec => [](QueueTypeOK /\ NoLostWakeup)
<1>1. QInv /\ [QueueNext]_queueVars => QInv'
  BY PushPreserves, PopPreserves, TryPreserves, ControlPreserves DEF QueueNext
<1>2. QInv => QueueTypeOK /\ NoLostWakeup BY DEF QInv
<1> QED BY <1>1, <1>2, InitQInv, PTL DEF QueueSpec

(* A step of push, pop, trypush or trypop puts one item at the end, takes the
   first one, or leaves the buffer alone. *)
LEMMA FifoStep ==
  ASSUME QInv,
         \/ \E p \in Pushers : PushStep(p)
         \/ \E p \in Poppers : PopStep(p)
         \/ \E item \in Items : TryPush(item)
         \/ TryPop
         \/ UNCHANGED buf
  PROVE  [Fifo!Next]_buf
<1> USE DEF Fifo!Next, Fifo!Put, Fifo!Get
<1>1. ASSUME NEW p \in Pushers, PushStep(p) PROVE [Fifo!Next]_buf
  <2>1. CASE (pusher[p] = "enter" \/ pusher[p] = "woken") /\ Store(p)
    <3>1. offer[p] \in Items BY <2>1 DEF QInv, OfferOK
    <3>2. Fifo!Put(offer[p]) BY <2>1 DEF Store
    <3> QED BY <3>1, <3>2
  <2> QED BY <1>1, <2>1
    DEF PushStep, PushEnter, PushWoken, PushAgain, PushFull, PushStillFull
<1>2. ASSUME NEW p \in Poppers, PopStep(p) PROVE [Fifo!Next]_buf
  BY <1>2 DEF PopStep, PopEnter, PopWoken, Take, PopEmpty, PopStillEmpty
<1>3. ASSUME NEW item \in Items, TryPush(item) PROVE [Fifo!Next]_buf
  BY <1>3 DEF TryPush
<1>4. ASSUME TryPop PROVE [Fifo!Next]_buf
  BY <1>4 DEF TryPop
<1> QED BY <1>1, <1>2, <1>3, <1>4, Zenon

(* Every behaviour of the queue is a behaviour of a bounded FIFO. *)
THEOREM QueueIsFifo == QueueSpec => IsFifo
<1>1. QueueInit => Fifo!Init BY DEF QueueInit, Fifo!Init
<1>2. QInv /\ [QueueNext]_queueVars => [Fifo!Next]_buf
  BY FifoStep, Zenon
    DEF QueueNext, PushCall, PopCall, PopTimeout, TermSet, InterruptAll, queueVars
<1>3. QInv /\ [QueueNext]_queueVars => QInv'
  BY PushPreserves, PopPreserves, TryPreserves, ControlPreserves DEF QueueNext
<1> QED BY <1>1, <1>2, <1>3, InitQInv, PTL DEF QueueSpec, IsFifo, Fifo!Spec

-----------------------------------------------------------------------------
(* The pool. *)

PoolTypes ==
    /\ running \in Nat /\ busy \in Int /\ lost \in Nat /\ failed \in Nat
    /\ worker \in [Poppers -> WorkerStates] /\ launcher \in [Pushers -> LaunchStates]
    /\ ended \subseteq Items /\ uninit \in UninitStates /\ gaveUp \in BOOLEAN

(* A launch pushes its own work, once; only a terminated queue says APR_EOF. *)
CallInv ==
    /\ \A l \in Pushers : launcher[l] = "idle" => pusher[l] = "out"
    /\ \A l \in Pushers : launcher[l] # "idle" => offer[l] = l
    /\ \A l \in Pushers : launcher[l] \in {"create", "done"} => pusher[l] \in {"ok", "eof"}
    /\ \A w \in Poppers : popper[w] = "eof" => terminated
    /\ \A w \in Poppers : popper[w] = "ok" => got[w] \in Items
    /\ uninit # "up" => terminated

(* Work that has not been pushed is nowhere. *)
Unpushed ==
    \A l \in Pushers : pusher[l] # "ok" =>
        /\ l \notin ended
        /\ \A i \in 1 .. Len(buf) : buf[i] # l
        /\ \A w \in Poppers : InHand(w) => got[w] # l

(* Once uninit has seen the last worker go, the workers that a late launch
   still starts find the queue terminated. *)
DrainInv ==
    uninit \in {"signalled", "done"} /\ ~gaveUp =>
        \A w \in Poppers : \/ worker[w] \in {"none", "next"}
                           \/ worker[w] = "pop" /\ popper[w] = "eof"

PInv == /\ QInv /\ PoolTypes /\ CallInv /\ RunningExact
        /\ Unpushed /\ RunOnce /\ DeficitBound /\ DrainInv

-----------------------------------------------------------------------------
(* The steps of push and pop that move an item, and those that do not. *)
PushStores(l) == LaunchPushing(l) /\ Store(l) /\ pusher[l] \in {"enter", "woken"}
PushOther(l) == /\ LaunchPushing(l)
                /\ \/ pusher[l] = "enter" /\ PushFull(l)
                   \/ pusher[l] = "woken" /\ PushStillFull(l)
                   \/ PushAgain(l)
PopTakes(w) == WorkerPopping(w) /\ Take(w) /\ popper[w] \in {"enter", "woken"}
PopOther(w) == /\ WorkerPopping(w)
               /\ \/ popper[w] = "enter" /\ PopEmpty(w)
                  \/ popper[w] = "woken" /\ PopStillEmpty(w)

(* A pool step by the part of the queue it uses. *)
LEMMA StepCases ==
    Next => \/ \E l \in Pushers : \/ LaunchPush(l) \/ PushStores(l) \/ PushOther(l) \/ CheckQueue(l)
                                  \/ CreateFail(l) \/ \E w \in Poppers : CreateOk(l, w)
            \/ \E w \in Poppers : \/ WorkerCall(w) \/ PopTakes(w) \/ PopOther(w) \/ WorkerTimeout(w)
                                  \/ FuncReturns(w) \/ BusyDone(w) \/ WorkerLeaves(w) \/ WorkerStays(w)
            \/ UninitTerm \/ UninitInterrupt \/ UninitLock \/ UninitWoken \/ UninitTimeout
<1>1. \A l \in Pushers : LaunchPushing(l) <=> PushStores(l) \/ PushOther(l)
  BY DEF LaunchPushing, PushStores, PushOther, PushStep, PushEnter, PushWoken
<1>2. \A w \in Poppers : WorkerPopping(w) <=> PopTakes(w) \/ PopOther(w)
  BY DEF WorkerPopping, PopTakes, PopOther, PopStep, PopEnter, PopWoken
<1> SUFFICES ASSUME Next
    PROVE \/ \E l \in Pushers : \/ LaunchPush(l) \/ PushStores(l) \/ PushOther(l) \/ CheckQueue(l)
                                \/ CreateFail(l) \/ \E w \in Poppers : CreateOk(l, w)
          \/ \E w \in Poppers : \/ WorkerCall(w) \/ PopTakes(w) \/ PopOther(w) \/ WorkerTimeout(w)
                                \/ FuncReturns(w) \/ BusyDone(w) \/ WorkerLeaves(w) \/ WorkerStays(w)
          \/ UninitTerm \/ UninitInterrupt \/ UninitLock \/ UninitWoken \/ UninitTimeout
  OBVIOUS
<1>3. CASE \E l \in Pushers : LauncherStep(l) \/ CreateFail(l)
  BY <1>1, <1>3, Zenon DEF LauncherStep
<1>4. CASE \E w \in Poppers : WorkerStep(w) \/ WorkerTimeout(w)
  BY <1>2, <1>4, Zenon DEF WorkerStep
<1>5. CASE UninitNext
  BY <1>5, Zenon DEF UninitNext
<1> QED
  BY <1>3, <1>4, <1>5, Zenon DEF Next

(* Initially the pool is empty. *)
LEMMA InitPInv == Init => PInv
<1> SUFFICES ASSUME Init PROVE PInv
  OBVIOUS
<1>1. QInv
  BY InitQInv DEF Init
<1>2. PoolTypes /\ CallInv /\ DrainInv
  <2>1. running \in Nat /\ busy \in Int /\ lost \in Nat /\ failed \in Nat
    BY DEF Init
  <2>4. gaveUp \in BOOLEAN
    BY Zenon DEF Init
  <2>2. worker \in [Poppers -> WorkerStates] /\ launcher \in [Pushers -> LaunchStates] /\ uninit \in UninitStates
    BY DEF Init, WorkerStates, LaunchStates, UninitStates
  <2>3. CallInv /\ DrainInv /\ ended = {}
    BY DEF Init, QueueInit, CallInv, DrainInv
  <2> QED
    BY <2>1, <2>2, <2>3, <2>4 DEF PoolTypes
<1>3. Alive = {} /\ Creating = {}
  BY DEF Init, Alive, Creating
<1>4. RunningExact
  BY <1>3, FS_EmptySet DEF RunningExact, Init
<1>5. Len(buf) = 0
  BY SeqNone DEF Init, QueueInit
<1>6. Unpushed /\ RunOnce /\ DeficitBound
  BY <1>5 DEF Init, Unpushed, RunOnce, InHand, DeficitBound
<1> QED
  BY <1>1, <1>2, <1>4, <1>6 DEF PInv

(* The pool uses its queue as any client does. *)
LEMMA StepQueue ==
    ASSUME PInv, Next PROVE QInv'
<1> USE DEF PInv, poolVars, queueVars
<1>1. ASSUME NEW l \in Pushers, LaunchPush(l) PROVE QInv'
  BY <1>1, PushPreserves, OneItemEach DEF LaunchPush
<1>2. ASSUME NEW l \in Pushers, PushStores(l) PROVE QInv'
  BY <1>2, PushPreserves, OneItemEach DEF PushStores, LaunchPushing
<1>3. ASSUME NEW l \in Pushers, PushOther(l) PROVE QInv'
  BY <1>3, PushPreserves, OneItemEach DEF PushOther, LaunchPushing
<1>4. ASSUME NEW l \in Pushers, CheckQueue(l) PROVE QInv'
  BY <1>4, ControlPreserves DEF CheckQueue
<1>5. ASSUME NEW l \in Pushers, CreateFail(l) PROVE QInv'
  BY <1>5, ControlPreserves DEF CreateFail
<1>6. ASSUME NEW l \in Pushers, NEW w \in Poppers, CreateOk(l, w) PROVE QInv'
  BY <1>6, ControlPreserves DEF CreateOk
<1>7. ASSUME NEW w \in Poppers, WorkerCall(w) PROVE QInv'
  BY <1>7, PopPreserves DEF WorkerCall, WorkerPopping
<1>8. ASSUME NEW w \in Poppers, PopTakes(w) PROVE QInv'
  BY <1>8, PopPreserves DEF PopTakes, WorkerPopping
<1>9. ASSUME NEW w \in Poppers, PopOther(w) PROVE QInv'
  BY <1>9, PopPreserves DEF PopOther, WorkerPopping
<1>10. ASSUME NEW w \in Poppers, WorkerTimeout(w) PROVE QInv'
  BY <1>10, PopPreserves DEF WorkerTimeout, WorkerPopping
<1>11. ASSUME NEW w \in Poppers, FuncReturns(w) PROVE QInv'
  BY <1>11, ControlPreserves DEF FuncReturns
<1>12. ASSUME NEW w \in Poppers, BusyDone(w) PROVE QInv'
  BY <1>12, ControlPreserves DEF BusyDone
<1>13. ASSUME NEW w \in Poppers, WorkerLeaves(w) PROVE QInv'
  <2>1. QueueTypeOK' /\ OfferOK'
    BY <1>13 DEF WorkerLeaves, QInv, QueueTypeOK, OfferOK, PopStates
  <2>2. In(popper', "woken") = In(popper, "woken") /\ In(popper', "wait") = In(popper, "wait")
    BY <1>13 DEF WorkerLeaves, In, QInv, QueueTypeOK
  <2>3. NoLostWakeup'
    BY <1>13, <2>2 DEF WorkerLeaves, NoLostWakeup, QInv
  <2> QED
    BY <2>1, <2>3 DEF QInv
<1>14. ASSUME NEW w \in Poppers, WorkerStays(w) PROVE QInv'
  BY <1>14, ControlPreserves DEF WorkerStays
<1>15. ASSUME UninitTerm PROVE QInv'
  BY <1>15, ControlPreserves DEF UninitTerm
<1>16. ASSUME UninitInterrupt PROVE QInv'
  BY <1>16, ControlPreserves DEF UninitInterrupt
<1>17. ASSUME UninitLock PROVE QInv'
  BY <1>17, ControlPreserves DEF UninitLock
<1>18. ASSUME UninitWoken PROVE QInv'
  BY <1>18, ControlPreserves DEF UninitWoken
<1>19. ASSUME UninitTimeout PROVE QInv'
  BY <1>19, ControlPreserves DEF UninitTimeout
<1> QED
  BY StepCases, <1>1, <1>2, <1>3, <1>4, <1>5, <1>6, <1>7, <1>8, <1>9, <1>10, <1>11, <1>12, <1>13, <1>14, <1>15, <1>16, <1>17, <1>18, <1>19, SMTT(30)

(* Finitely many workers exist or are being created. *)
LEMMA PoolFinite ==
    /\ IsFiniteSet(Alive) /\ IsFiniteSet(Creating)
    /\ Cardinality(Alive) \in Nat /\ Cardinality(Creating) \in Nat
<1>1. Alive \subseteq Poppers /\ Creating \subseteq Pushers
  BY DEF Alive, Creating
<1> QED
  BY <1>1, CallersAssumption, FS_Subset, FS_CardinalityType

(* No step takes a counter of the pool out of its range. *)
LEMMA StepPoolTypes ==
    ASSUME PInv, Next PROVE PoolTypes'
<1> USE DEF PInv, poolVars, queueVars
<1>1. ASSUME NEW l \in Pushers, LaunchPush(l) PROVE PoolTypes'
  BY <1>1 DEF LaunchPush, PushCall, PoolTypes, WorkerStates, LaunchStates, UninitStates, QInv, QueueTypeOK, InHand
<1>2. ASSUME NEW l \in Pushers, PushStores(l) PROVE PoolTypes'
  BY <1>2 DEF PushStores, LaunchPushing, Store, Signal, In, PoolTypes, WorkerStates, LaunchStates, UninitStates, QInv, QueueTypeOK, InHand
<1>3. ASSUME NEW l \in Pushers, PushOther(l) PROVE PoolTypes'
  BY <1>3 DEF PushOther, LaunchPushing, PushFull, PushStillFull, PushAgain, PoolTypes, WorkerStates, LaunchStates, UninitStates, QInv, QueueTypeOK, InHand
<1>4. ASSUME NEW l \in Pushers, CheckQueue(l) PROVE PoolTypes'
  BY <1>4 DEF CheckQueue, PoolTypes, WorkerStates, LaunchStates, UninitStates, QInv, QueueTypeOK, InHand
<1>5. ASSUME NEW l \in Pushers, CreateFail(l) PROVE PoolTypes'
  <2>1. running >= 1
    <3>1. Creating # {} /\ IsFiniteSet(Alive) /\ IsFiniteSet(Creating)
      BY <1>5, PoolFinite DEF CreateFail, Alive, Creating
    <3> QED
      BY <3>1, PoolFinite, FS_EmptySet DEF RunningExact
  <2> QED
    BY <1>5, <2>1 DEF CreateFail, SignalIfLast, PoolTypes, WorkerStates, LaunchStates, UninitStates
<1>6. ASSUME NEW l \in Pushers, NEW w \in Poppers, CreateOk(l, w) PROVE PoolTypes'
  BY <1>6 DEF CreateOk, PoolTypes, WorkerStates, LaunchStates, UninitStates, QInv, QueueTypeOK, InHand
<1>7. ASSUME NEW w \in Poppers, WorkerCall(w) PROVE PoolTypes'
  BY <1>7 DEF WorkerCall, PopCall, PoolTypes, WorkerStates, LaunchStates, UninitStates, QInv, QueueTypeOK, InHand
<1>8. ASSUME NEW w \in Poppers, PopTakes(w) PROVE PoolTypes'
  BY <1>8 DEF PopTakes, WorkerPopping, Take, Signal, In, PoolTypes, WorkerStates, LaunchStates, UninitStates, QInv, QueueTypeOK, InHand
<1>9. ASSUME NEW w \in Poppers, PopOther(w) PROVE PoolTypes'
  BY <1>9 DEF PopOther, WorkerPopping, PopEmpty, PopStillEmpty, PoolTypes, WorkerStates, LaunchStates, UninitStates, QInv, QueueTypeOK, InHand
<1>10. ASSUME NEW w \in Poppers, WorkerTimeout(w) PROVE PoolTypes'
  BY <1>10 DEF WorkerTimeout, PopTimeout, PoolTypes, WorkerStates, LaunchStates, UninitStates, QInv, QueueTypeOK, InHand
<1>11. ASSUME NEW w \in Poppers, FuncReturns(w) PROVE PoolTypes'
  <2>1. got[w] \in Items
    BY <1>11 DEF FuncReturns, Unpushed, InHand, QInv, QueueTypeOK, CallInv
  <2> QED
    BY <1>11, <2>1 DEF FuncReturns, PoolTypes, WorkerStates
<1>12. ASSUME NEW w \in Poppers, BusyDone(w) PROVE PoolTypes'
  BY <1>12 DEF BusyDone, PoolTypes, WorkerStates, LaunchStates, UninitStates, QInv, QueueTypeOK, InHand
<1>13. ASSUME NEW w \in Poppers, WorkerLeaves(w) PROVE PoolTypes'
  <2>1. running >= 1
    <3>1. Alive # {} /\ IsFiniteSet(Alive) /\ IsFiniteSet(Creating)
      BY <1>13, PoolFinite DEF WorkerLeaves, Alive, Creating
    <3> QED
      BY <3>1, PoolFinite, FS_EmptySet DEF RunningExact
  <2> QED
    BY <1>13, <2>1 DEF WorkerLeaves, SignalIfLast, PoolTypes, WorkerStates, LaunchStates, UninitStates
<1>14. ASSUME NEW w \in Poppers, WorkerStays(w) PROVE PoolTypes'
  BY <1>14 DEF WorkerStays, MustLeave, PoolTypes, WorkerStates, LaunchStates, UninitStates, QInv, QueueTypeOK, InHand
<1>15. ASSUME UninitTerm PROVE PoolTypes'
  BY <1>15 DEF UninitTerm, TermSet, PoolTypes, WorkerStates, LaunchStates, UninitStates, QInv, QueueTypeOK, InHand
<1>16. ASSUME UninitInterrupt PROVE PoolTypes'
  BY <1>16 DEF UninitInterrupt, InterruptAll, Broadcast, PoolTypes, WorkerStates, LaunchStates, UninitStates, QInv, QueueTypeOK, InHand
<1>17. ASSUME UninitLock PROVE PoolTypes'
  BY <1>17 DEF UninitLock, PoolTypes, WorkerStates, LaunchStates, UninitStates, QInv, QueueTypeOK, InHand
<1>18. ASSUME UninitWoken PROVE PoolTypes'
  BY <1>18 DEF UninitWoken, PoolTypes, WorkerStates, LaunchStates, UninitStates, QInv, QueueTypeOK, InHand
<1>19. ASSUME UninitTimeout PROVE PoolTypes'
  BY <1>19 DEF UninitTimeout, PoolTypes, WorkerStates, LaunchStates, UninitStates, QInv, QueueTypeOK, InHand
<1> QED
  BY StepCases, <1>1, <1>2, <1>3, <1>4, <1>5, <1>6, <1>7, <1>8, <1>9, <1>10, <1>11, <1>12, <1>13, <1>14, <1>15, <1>16, <1>17, <1>18, <1>19, SMTT(30)

(* Each launch keeps to its own work. *)
LEMMA StepCalls ==
    ASSUME PInv, Next PROVE CallInv'
<1> USE DEF PInv, poolVars, queueVars
<1>1. ASSUME NEW l \in Pushers, LaunchPush(l) PROVE CallInv'
  BY <1>1 DEF LaunchPush, PushCall, CallInv, PoolTypes, QInv, QueueTypeOK
<1>2. ASSUME NEW l \in Pushers, PushStores(l) PROVE CallInv'
  BY <1>2, SMTT(30) DEF PushStores, LaunchPushing, Store, Signal, In, CallInv, PoolTypes, QInv, QueueTypeOK
<1>3. ASSUME NEW l \in Pushers, PushOther(l) PROVE CallInv'
  <2>1. launcher' = launcher /\ launcher[l] = "push" /\ offer' = offer
    BY <1>3 DEF PushOther, LaunchPushing, PushFull, PushStillFull, PushAgain
  <2>2. \A m \in Pushers : m # l => pusher'[m] = pusher[m]
    BY <1>3 DEF PushOther, PushFull, PushStillFull, PushAgain, QInv, QueueTypeOK
  <2>3. UNCHANGED <<uninit, terminated, popper, got>>
    BY <1>3 DEF PushOther, LaunchPushing, PushFull, PushStillFull, PushAgain
  <2> QED
    BY <2>1, <2>2, <2>3 DEF CallInv
<1>4. ASSUME NEW l \in Pushers, CheckQueue(l) PROVE CallInv'
  BY <1>4 DEF CheckQueue, CallInv, PoolTypes, QInv, QueueTypeOK
<1>5. ASSUME NEW l \in Pushers, CreateFail(l) PROVE CallInv'
  BY <1>5 DEF CreateFail, SignalIfLast, CallInv, PoolTypes, QInv, QueueTypeOK
<1>6. ASSUME NEW l \in Pushers, NEW w \in Poppers, CreateOk(l, w) PROVE CallInv'
  BY <1>6 DEF CreateOk, CallInv, PoolTypes, QInv, QueueTypeOK
<1>7. ASSUME NEW w \in Poppers, WorkerCall(w) PROVE CallInv'
  BY <1>7 DEF WorkerCall, PopCall, CallInv, PoolTypes, QInv, QueueTypeOK
<1>8. ASSUME NEW w \in Poppers, PopTakes(w) PROVE CallInv'
  BY <1>8 DEF PopTakes, WorkerPopping, Take, Signal, In, CallInv, PoolTypes, QInv, QueueTypeOK
<1>9. ASSUME NEW w \in Poppers, PopOther(w) PROVE CallInv'
  BY <1>9 DEF PopOther, WorkerPopping, PopEmpty, PopStillEmpty, CallInv, PoolTypes, QInv, QueueTypeOK
<1>10. ASSUME NEW w \in Poppers, WorkerTimeout(w) PROVE CallInv'
  BY <1>10 DEF WorkerTimeout, PopTimeout, CallInv, PoolTypes, QInv, QueueTypeOK
<1>11. ASSUME NEW w \in Poppers, FuncReturns(w) PROVE CallInv'
  BY <1>11 DEF FuncReturns, CallInv, PoolTypes, QInv, QueueTypeOK
<1>12. ASSUME NEW w \in Poppers, BusyDone(w) PROVE CallInv'
  BY <1>12 DEF BusyDone, CallInv, PoolTypes, QInv, QueueTypeOK
<1>13. ASSUME NEW w \in Poppers, WorkerLeaves(w) PROVE CallInv'
  BY <1>13 DEF WorkerLeaves, SignalIfLast, MustLeave, CallInv, PoolTypes, QInv, QueueTypeOK
<1>14. ASSUME NEW w \in Poppers, WorkerStays(w) PROVE CallInv'
  BY <1>14 DEF WorkerStays, MustLeave, CallInv, PoolTypes, QInv, QueueTypeOK
<1>15. ASSUME UninitTerm PROVE CallInv'
  BY <1>15 DEF UninitTerm, TermSet, CallInv, PoolTypes, QInv, QueueTypeOK
<1>16. ASSUME UninitInterrupt PROVE CallInv'
  BY <1>16 DEF UninitInterrupt, InterruptAll, Broadcast, CallInv, PoolTypes, QInv, QueueTypeOK
<1>17. ASSUME UninitLock PROVE CallInv'
  BY <1>17 DEF UninitLock, CallInv, PoolTypes, QInv, QueueTypeOK
<1>18. ASSUME UninitWoken PROVE CallInv'
  BY <1>18 DEF UninitWoken, CallInv, PoolTypes, QInv, QueueTypeOK
<1>19. ASSUME UninitTimeout PROVE CallInv'
  BY <1>19 DEF UninitTimeout, CallInv, PoolTypes, QInv, QueueTypeOK
<1> QED
  BY StepCases, <1>1, <1>2, <1>3, <1>4, <1>5, <1>6, <1>7, <1>8, <1>9, <1>10, <1>11, <1>12, <1>13, <1>14, <1>15, <1>16, <1>17, <1>18, <1>19, SMTT(30)

(* Each worker and each thread being created is counted once. *)
LEMMA StepRunning ==
    ASSUME PInv, Next PROVE RunningExact'
<1> USE DEF PInv, poolVars, queueVars
<1>1. ASSUME NEW l \in Pushers, LaunchPush(l) PROVE RunningExact'
  <2>1. Alive' = Alive /\ Creating' = Creating /\ running' = running
    BY <1>1 DEF LaunchPush, Alive, Creating, PoolTypes
  <2> QED
    BY <2>1 DEF RunningExact
<1>2. ASSUME NEW l \in Pushers, PushStores(l) PROVE RunningExact'
  <2>1. Alive' = Alive /\ Creating' = Creating /\ running' = running
    BY <1>2 DEF PushStores, LaunchPushing, Alive, Creating, PoolTypes
  <2> QED
    BY <2>1 DEF RunningExact
<1>3. ASSUME NEW l \in Pushers, PushOther(l) PROVE RunningExact'
  <2>1. Alive' = Alive /\ Creating' = Creating /\ running' = running
    BY <1>3 DEF PushOther, LaunchPushing, Alive, Creating, PoolTypes
  <2> QED
    BY <2>1 DEF RunningExact
<1>4. ASSUME NEW l \in Pushers, CheckQueue(l) PROVE RunningExact'
  <2>1. CASE running >= busy + 1
    <3>1. Alive' = Alive /\ Creating' = Creating /\ running' = running
      BY <1>4, <2>1 DEF CheckQueue, Alive, Creating, PoolTypes
    <3> QED
      BY <3>1 DEF RunningExact
  <2>2. CASE ~(running >= busy + 1)
    <3>1. Alive' = Alive /\ Creating' = Creating \cup {l} /\ l \notin Creating /\ running' = running + 1
      BY <1>4, <2>2 DEF CheckQueue, Alive, Creating, PoolTypes
    <3>2. Cardinality(Creating') = Cardinality(Creating) + 1
      BY <3>1, PoolFinite, FS_AddElement, Zenon
    <3> QED
      BY <3>1, <3>2, PoolFinite DEF RunningExact
  <2> QED
    BY <2>1, <2>2
<1>5. ASSUME NEW l \in Pushers, CreateFail(l) PROVE RunningExact'
  <2>1. Alive' = Alive /\ Creating' = Creating \ {l} /\ l \in Creating /\ running' = running - 1
    BY <1>5 DEF CreateFail, Alive, Creating, PoolTypes
  <2>2. Cardinality(Creating') = Cardinality(Creating) - 1
    BY <2>1, PoolFinite, FS_RemoveElement, Zenon
  <2> QED
    BY <2>1, <2>2, PoolFinite DEF RunningExact
<1>6. ASSUME NEW l \in Pushers, NEW w \in Poppers, CreateOk(l, w) PROVE RunningExact'
  <2>1. /\ Alive' = Alive \cup {w} /\ w \notin Alive /\ running' = running
        /\ Creating' = Creating \ {l} /\ l \in Creating
    BY <1>6 DEF CreateOk, Alive, Creating, PoolTypes
  <2>2. /\ Cardinality(Alive') = Cardinality(Alive) + 1
        /\ Cardinality(Creating') = Cardinality(Creating) - 1
    BY <2>1, PoolFinite, FS_AddElement, FS_RemoveElement, Zenon
  <2> QED
    BY <2>1, <2>2, PoolFinite DEF RunningExact
<1>7. ASSUME NEW w \in Poppers, WorkerCall(w) PROVE RunningExact'
  <2>1. Alive' = Alive /\ Creating' = Creating /\ running' = running
    BY <1>7 DEF WorkerCall, Alive, Creating, PoolTypes
  <2> QED
    BY <2>1 DEF RunningExact
<1>8. ASSUME NEW w \in Poppers, PopTakes(w) PROVE RunningExact'
  <2>1. Alive' = Alive /\ Creating' = Creating /\ running' = running
    BY <1>8 DEF PopTakes, WorkerPopping, Alive, Creating, PoolTypes
  <2> QED
    BY <2>1 DEF RunningExact
<1>9. ASSUME NEW w \in Poppers, PopOther(w) PROVE RunningExact'
  <2>1. Alive' = Alive /\ Creating' = Creating /\ running' = running
    BY <1>9 DEF PopOther, WorkerPopping, Alive, Creating, PoolTypes
  <2> QED
    BY <2>1 DEF RunningExact
<1>10. ASSUME NEW w \in Poppers, WorkerTimeout(w) PROVE RunningExact'
  <2>1. Alive' = Alive /\ Creating' = Creating /\ running' = running
    BY <1>10 DEF WorkerTimeout, Alive, Creating, PoolTypes
  <2> QED
    BY <2>1 DEF RunningExact
<1>11. ASSUME NEW w \in Poppers, FuncReturns(w) PROVE RunningExact'
  <2>1. Alive' = Alive /\ Creating' = Creating /\ running' = running
    BY <1>11 DEF FuncReturns, Alive, Creating, PoolTypes
  <2> QED
    BY <2>1, SMTT(30) DEF RunningExact
<1>12. ASSUME NEW w \in Poppers, BusyDone(w) PROVE RunningExact'
  <2>1. Alive' = Alive /\ Creating' = Creating /\ running' = running
    BY <1>12 DEF BusyDone, Alive, Creating, PoolTypes
  <2> QED
    BY <2>1 DEF RunningExact
<1>13. ASSUME NEW w \in Poppers, WorkerLeaves(w) PROVE RunningExact'
  <2>1. Creating' = Creating /\ Alive' = Alive \ {w} /\ w \in Alive /\ running' = running - 1
    BY <1>13 DEF WorkerLeaves, Alive, Creating, PoolTypes
  <2>2. Cardinality(Alive') = Cardinality(Alive) - 1
    BY <2>1, PoolFinite, FS_RemoveElement, Zenon
  <2> QED
    BY <2>1, <2>2, PoolFinite DEF RunningExact
<1>14. ASSUME NEW w \in Poppers, WorkerStays(w) PROVE RunningExact'
  <2>1. Alive' = Alive /\ Creating' = Creating /\ running' = running
    BY <1>14 DEF WorkerStays, Alive, Creating, PoolTypes
  <2> QED
    BY <2>1 DEF RunningExact
<1>15. ASSUME UninitTerm PROVE RunningExact'
  <2>1. Alive' = Alive /\ Creating' = Creating /\ running' = running
    BY <1>15 DEF UninitTerm, Alive, Creating, PoolTypes
  <2> QED
    BY <2>1 DEF RunningExact
<1>16. ASSUME UninitInterrupt PROVE RunningExact'
  <2>1. Alive' = Alive /\ Creating' = Creating /\ running' = running
    BY <1>16 DEF UninitInterrupt, Alive, Creating, PoolTypes
  <2> QED
    BY <2>1 DEF RunningExact
<1>17. ASSUME UninitLock PROVE RunningExact'
  <2>1. Alive' = Alive /\ Creating' = Creating /\ running' = running
    BY <1>17 DEF UninitLock, Alive, Creating, PoolTypes
  <2> QED
    BY <2>1 DEF RunningExact
<1>18. ASSUME UninitWoken PROVE RunningExact'
  <2>1. Alive' = Alive /\ Creating' = Creating /\ running' = running
    BY <1>18 DEF UninitWoken, Alive, Creating, PoolTypes
  <2> QED
    BY <2>1 DEF RunningExact
<1>19. ASSUME UninitTimeout PROVE RunningExact'
  <2>1. Alive' = Alive /\ Creating' = Creating /\ running' = running
    BY <1>19 DEF UninitTimeout, Alive, Creating, PoolTypes
  <2> QED
    BY <2>1 DEF RunningExact
<1> QED
  BY StepCases, <1>1, <1>2, <1>3, <1>4, <1>5, <1>6, <1>7, <1>8, <1>9, <1>10, <1>11, <1>12, <1>13, <1>14, <1>15, <1>16, <1>17, <1>18, <1>19, SMTT(30)

(* Only a push that succeeds puts work anywhere. *)
LEMMA StepUnpushed ==
    ASSUME PInv, Next PROVE Unpushed'
<1> USE DEF PInv, poolVars, queueVars
<1>1. ASSUME NEW l \in Pushers, LaunchPush(l) PROVE Unpushed'
  BY <1>1, SMTT(30) DEF LaunchPush, PushCall, Unpushed, CallInv, RunOnce, InHand, PoolTypes, QInv, QueueTypeOK
<1>2. ASSUME NEW l \in Pushers, PushStores(l) PROVE Unpushed'
  BY <1>2, SMTT(30) DEF PushStores, LaunchPushing, Store, Signal, In, Unpushed, CallInv, RunOnce, InHand, PoolTypes, QInv, QueueTypeOK
<1>3. ASSUME NEW l \in Pushers, PushOther(l) PROVE Unpushed'
  BY <1>3, SMTT(30) DEF PushOther, LaunchPushing, PushFull, PushStillFull, PushAgain, Unpushed, CallInv, RunOnce, InHand, PoolTypes, QInv, QueueTypeOK
<1>4. ASSUME NEW l \in Pushers, CheckQueue(l) PROVE Unpushed'
  BY <1>4, SMTT(30) DEF CheckQueue, Unpushed, CallInv, RunOnce, InHand, PoolTypes, QInv, QueueTypeOK
<1>5. ASSUME NEW l \in Pushers, CreateFail(l) PROVE Unpushed'
  BY <1>5, SMTT(30) DEF CreateFail, SignalIfLast, Unpushed, CallInv, RunOnce, InHand, PoolTypes, QInv, QueueTypeOK
<1>6. ASSUME NEW l \in Pushers, NEW w \in Poppers, CreateOk(l, w) PROVE Unpushed'
  BY <1>6, SMTT(30) DEF CreateOk, Unpushed, CallInv, RunOnce, InHand, PoolTypes, QInv, QueueTypeOK
<1>7. ASSUME NEW w \in Poppers, WorkerCall(w) PROVE Unpushed'
  BY <1>7, SMTT(30) DEF WorkerCall, PopCall, Unpushed, CallInv, RunOnce, InHand, PoolTypes, QInv, QueueTypeOK
<1>8. ASSUME NEW w \in Poppers, PopTakes(w) PROVE Unpushed'
  BY <1>8, SMTT(30) DEF PopTakes, WorkerPopping, Take, Signal, In, Unpushed, CallInv, RunOnce, InHand, PoolTypes, QInv, QueueTypeOK
<1>9. ASSUME NEW w \in Poppers, PopOther(w) PROVE Unpushed'
  BY <1>9, SMTT(30) DEF PopOther, WorkerPopping, PopEmpty, PopStillEmpty, Unpushed, CallInv, RunOnce, InHand, PoolTypes, QInv, QueueTypeOK
<1>10. ASSUME NEW w \in Poppers, WorkerTimeout(w) PROVE Unpushed'
  BY <1>10, SMTT(30) DEF WorkerTimeout, PopTimeout, Unpushed, CallInv, RunOnce, InHand, PoolTypes, QInv, QueueTypeOK
<1>11. ASSUME NEW w \in Poppers, FuncReturns(w) PROVE Unpushed'
  BY <1>11 DEF FuncReturns, Unpushed, CallInv, RunOnce, InHand, PoolTypes, QInv, QueueTypeOK
<1>12. ASSUME NEW w \in Poppers, BusyDone(w) PROVE Unpushed'
  BY <1>12, SMTT(30) DEF BusyDone, Unpushed, CallInv, RunOnce, InHand, PoolTypes, QInv, QueueTypeOK
<1>13. ASSUME NEW w \in Poppers, WorkerLeaves(w) PROVE Unpushed'
  BY <1>13 DEF WorkerLeaves, SignalIfLast, MustLeave, Unpushed, CallInv, RunOnce, InHand, PoolTypes, QInv, QueueTypeOK
<1>14. ASSUME NEW w \in Poppers, WorkerStays(w) PROVE Unpushed'
  BY <1>14 DEF WorkerStays, MustLeave, Unpushed, CallInv, RunOnce, InHand, PoolTypes, QInv, QueueTypeOK
<1>15. ASSUME UninitTerm PROVE Unpushed'
  BY <1>15, SMTT(30) DEF UninitTerm, TermSet, Unpushed, CallInv, RunOnce, InHand, PoolTypes, QInv, QueueTypeOK
<1>16. ASSUME UninitInterrupt PROVE Unpushed'
  BY <1>16, SMTT(30) DEF UninitInterrupt, InterruptAll, Broadcast, Unpushed, CallInv, RunOnce, InHand, PoolTypes, QInv, QueueTypeOK
<1>17. ASSUME UninitLock PROVE Unpushed'
  BY <1>17, SMTT(30) DEF UninitLock, Unpushed, CallInv, RunOnce, InHand, PoolTypes, QInv, QueueTypeOK
<1>18. ASSUME UninitWoken PROVE Unpushed'
  BY <1>18, SMTT(30) DEF UninitWoken, Unpushed, CallInv, RunOnce, InHand, PoolTypes, QInv, QueueTypeOK
<1>19. ASSUME UninitTimeout PROVE Unpushed'
  BY <1>19 DEF UninitTimeout, Unpushed, CallInv, RunOnce, InHand, PoolTypes, QInv, QueueTypeOK
<1> QED
  BY StepCases, <1>1, <1>2, <1>3, <1>4, <1>5, <1>6, <1>7, <1>8, <1>9, <1>10, <1>11, <1>12, <1>13, <1>14, <1>15, <1>16, <1>17, <1>18, <1>19, SMTT(30)

(* Work goes from the queue to one worker and from there to the end. *)
LEMMA StepRunOnce ==
    ASSUME PInv, Next PROVE RunOnce'
<1> USE DEF PInv, poolVars, queueVars
<1>1. ASSUME NEW l \in Pushers, LaunchPush(l) PROVE RunOnce'
  BY <1>1 DEF LaunchPush, PushCall, Unpushed, CallInv, RunOnce, InHand, PoolTypes, QInv, QueueTypeOK
<1>2. ASSUME NEW l \in Pushers, PushStores(l) PROVE RunOnce'
  <2>1. /\ buf' = Append(buf, l) /\ pusher[l] # "ok" /\ l \in Items
        /\ UNCHANGED <<got, ended, worker>>
        /\ \A w \in Poppers : popper'[w] = "ok" <=> popper[w] = "ok"
    BY <1>2, OneItemEach DEF PushStores, LaunchPushing, Store, Signal, In, CallInv, PoolTypes, QInv, QueueTypeOK
  <2>2. \A w \in Poppers : InHand(w)' <=> InHand(w)
    BY <2>1, SMTT(30) DEF InHand
  <2>3. /\ Len(buf') = Len(buf) + 1 /\ buf'[Len(buf) + 1] = l /\ Len(buf) \in Nat
        /\ \A i \in 1 .. Len(buf) : buf'[i] = buf[i]
    BY <2>1 DEF QInv, QueueTypeOK
  <2>4. \A i \in 1 .. Len(buf') : i \in 1 .. Len(buf) \/ i = Len(buf) + 1
    BY <2>3
  <2>5. /\ l \notin ended /\ \A i \in 1 .. Len(buf) : buf[i] # l
        /\ \A w \in Poppers : InHand(w) => got[w] # l
    BY <2>1, Zenon DEF Unpushed
  <2>6. \A i, j \in 1 .. Len(buf') : i # j => buf'[i] # buf'[j]
    BY <2>3, <2>4, <2>5, SMTT(30) DEF RunOnce
  <2>7. \A i \in 1 .. Len(buf') : buf'[i] \notin ended'
    BY <2>1, <2>3, <2>4, <2>5, SMTT(30) DEF RunOnce
  <2>8. ASSUME NEW w \in Poppers, InHand(w)'
        PROVE  /\ got'[w] \notin ended'
               /\ \A i \in 1 .. Len(buf') : buf'[i] # got'[w]
               /\ \A v \in Poppers \ {w} : InHand(v)' => got'[v] # got'[w]
    <3>1. InHand(w) /\ got'[w] = got[w] /\ ended' = ended
      BY <2>1, <2>2, <2>8, SMTT(30)
    <3>2. \A v \in Poppers \ {w} : InHand(v)' => got'[v] # got'[w]
      BY <2>1, <2>2, <3>1, SMTT(30) DEF RunOnce
    <3>3. \A i \in 1 .. Len(buf') : buf'[i] # got'[w]
      BY <2>3, <2>4, <2>5, <3>1, SMTT(30) DEF RunOnce
    <3> QED
      BY <3>1, <3>2, <3>3 DEF RunOnce
  <2> QED
    BY <2>6, <2>7, <2>8, Zenon DEF RunOnce
<1>3. ASSUME NEW l \in Pushers, PushOther(l) PROVE RunOnce'
  BY <1>3, SMTT(30) DEF PushOther, LaunchPushing, PushFull, PushStillFull, PushAgain, Unpushed, CallInv, RunOnce, InHand, PoolTypes, QInv, QueueTypeOK
<1>4. ASSUME NEW l \in Pushers, CheckQueue(l) PROVE RunOnce'
  BY <1>4, SMTT(30) DEF CheckQueue, Unpushed, CallInv, RunOnce, InHand, PoolTypes, QInv, QueueTypeOK
<1>5. ASSUME NEW l \in Pushers, CreateFail(l) PROVE RunOnce'
  BY <1>5, SMTT(30) DEF CreateFail, SignalIfLast, Unpushed, CallInv, RunOnce, InHand, PoolTypes, QInv, QueueTypeOK
<1>6. ASSUME NEW l \in Pushers, NEW w \in Poppers, CreateOk(l, w) PROVE RunOnce'
  BY <1>6, SMTT(30) DEF CreateOk, Unpushed, CallInv, RunOnce, InHand, PoolTypes, QInv, QueueTypeOK
<1>7. ASSUME NEW w \in Poppers, WorkerCall(w) PROVE RunOnce'
  BY <1>7, SMTT(30) DEF WorkerCall, PopCall, Unpushed, CallInv, RunOnce, InHand, PoolTypes, QInv, QueueTypeOK
<1>8. ASSUME NEW w \in Poppers, PopTakes(w) PROVE RunOnce'
  BY <1>8, SMTT(30) DEF PopTakes, WorkerPopping, Take, Signal, In, Unpushed, CallInv, RunOnce, InHand, PoolTypes, QInv, QueueTypeOK
<1>9. ASSUME NEW w \in Poppers, PopOther(w) PROVE RunOnce'
  BY <1>9, SMTT(30) DEF PopOther, WorkerPopping, PopEmpty, PopStillEmpty, Unpushed, CallInv, RunOnce, InHand, PoolTypes, QInv, QueueTypeOK
<1>10. ASSUME NEW w \in Poppers, WorkerTimeout(w) PROVE RunOnce'
  BY <1>10, SMTT(30) DEF WorkerTimeout, PopTimeout, Unpushed, CallInv, RunOnce, InHand, PoolTypes, QInv, QueueTypeOK
<1>11. ASSUME NEW w \in Poppers, FuncReturns(w) PROVE RunOnce'
  BY <1>11, SMTT(30) DEF FuncReturns, Unpushed, CallInv, RunOnce, InHand, PoolTypes, QInv, QueueTypeOK
<1>12. ASSUME NEW w \in Poppers, BusyDone(w) PROVE RunOnce'
  BY <1>12, SMTT(30) DEF BusyDone, Unpushed, CallInv, RunOnce, InHand, PoolTypes, QInv, QueueTypeOK
<1>13. ASSUME NEW w \in Poppers, WorkerLeaves(w) PROVE RunOnce'
  BY <1>13, SMTT(30) DEF WorkerLeaves, SignalIfLast, MustLeave, Unpushed, CallInv, RunOnce, InHand, PoolTypes, QInv, QueueTypeOK
<1>14. ASSUME NEW w \in Poppers, WorkerStays(w) PROVE RunOnce'
  BY <1>14, SMTT(30) DEF WorkerStays, MustLeave, Unpushed, CallInv, RunOnce, InHand, PoolTypes, QInv, QueueTypeOK
<1>15. ASSUME UninitTerm PROVE RunOnce'
  BY <1>15, SMTT(30) DEF UninitTerm, TermSet, Unpushed, CallInv, RunOnce, InHand, PoolTypes, QInv, QueueTypeOK
<1>16. ASSUME UninitInterrupt PROVE RunOnce'
  BY <1>16, SMTT(30) DEF UninitInterrupt, InterruptAll, Broadcast, Unpushed, CallInv, RunOnce, InHand, PoolTypes, QInv, QueueTypeOK
<1>17. ASSUME UninitLock PROVE RunOnce'
  BY <1>17, SMTT(30) DEF UninitLock, Unpushed, CallInv, RunOnce, InHand, PoolTypes, QInv, QueueTypeOK
<1>18. ASSUME UninitWoken PROVE RunOnce'
  BY <1>18, SMTT(30) DEF UninitWoken, Unpushed, CallInv, RunOnce, InHand, PoolTypes, QInv, QueueTypeOK
<1>19. ASSUME UninitTimeout PROVE RunOnce'
  BY <1>19, SMTT(40) DEF UninitTimeout, Unpushed, CallInv, RunOnce, InHand, PoolTypes, QInv, QueueTypeOK
<1> QED
  BY StepCases, <1>1, <1>2, <1>3, <1>4, <1>5, <1>6, <1>7, <1>8, <1>9, <1>10, <1>11, <1>12, <1>13, <1>14, <1>15, <1>16, <1>17, <1>18, <1>19, SMTT(30)

(* Each missing worker left on APR_EINTR or could not be created. *)
LEMMA StepDeficit ==
    ASSUME PInv, Next PROVE DeficitBound'
<1> USE DEF PInv, poolVars, queueVars
<1>1. ASSUME NEW l \in Pushers, LaunchPush(l) PROVE DeficitBound'
  BY <1>1 DEF LaunchPush, PushCall, DeficitBound, CallInv, PoolTypes
<1>2. ASSUME NEW l \in Pushers, PushStores(l) PROVE DeficitBound'
  BY <1>2, SMTT(30) DEF PushStores, LaunchPushing, Store, Signal, In, DeficitBound, CallInv, PoolTypes
<1>3. ASSUME NEW l \in Pushers, PushOther(l) PROVE DeficitBound'
  BY <1>3, SMTT(40) DEF PushOther, LaunchPushing, PushFull, PushStillFull, PushAgain, DeficitBound, CallInv, PoolTypes
<1>4. ASSUME NEW l \in Pushers, CheckQueue(l) PROVE DeficitBound'
  BY <1>4 DEF CheckQueue, DeficitBound, CallInv, PoolTypes
<1>5. ASSUME NEW l \in Pushers, CreateFail(l) PROVE DeficitBound'
  BY <1>5 DEF CreateFail, SignalIfLast, DeficitBound, CallInv, PoolTypes
<1>6. ASSUME NEW l \in Pushers, NEW w \in Poppers, CreateOk(l, w) PROVE DeficitBound'
  BY <1>6 DEF CreateOk, DeficitBound, CallInv, PoolTypes
<1>7. ASSUME NEW w \in Poppers, WorkerCall(w) PROVE DeficitBound'
  BY <1>7 DEF WorkerCall, PopCall, DeficitBound, CallInv, PoolTypes
<1>8. ASSUME NEW w \in Poppers, PopTakes(w) PROVE DeficitBound'
  BY <1>8 DEF PopTakes, WorkerPopping, Take, Signal, In, DeficitBound, CallInv, PoolTypes
<1>9. ASSUME NEW w \in Poppers, PopOther(w) PROVE DeficitBound'
  BY <1>9, SMTT(30) DEF PopOther, WorkerPopping, PopEmpty, PopStillEmpty, DeficitBound, CallInv, PoolTypes
<1>10. ASSUME NEW w \in Poppers, WorkerTimeout(w) PROVE DeficitBound'
  BY <1>10 DEF WorkerTimeout, PopTimeout, DeficitBound, CallInv, PoolTypes
<1>11. ASSUME NEW w \in Poppers, FuncReturns(w) PROVE DeficitBound'
  BY <1>11 DEF FuncReturns, DeficitBound, CallInv, PoolTypes
<1>12. ASSUME NEW w \in Poppers, BusyDone(w) PROVE DeficitBound'
  BY <1>12, SMTT(30) DEF BusyDone, DeficitBound, CallInv, PoolTypes
<1>13. ASSUME NEW w \in Poppers, WorkerLeaves(w) PROVE DeficitBound'
  BY <1>13, SMTT(30) DEF WorkerLeaves, SignalIfLast, MustLeave, DeficitBound, CallInv, PoolTypes
<1>14. ASSUME NEW w \in Poppers, WorkerStays(w) PROVE DeficitBound'
  BY <1>14 DEF WorkerStays, MustLeave, DeficitBound, CallInv, PoolTypes
<1>15. ASSUME UninitTerm PROVE DeficitBound'
  BY <1>15 DEF UninitTerm, TermSet, DeficitBound, CallInv, PoolTypes
<1>16. ASSUME UninitInterrupt PROVE DeficitBound'
  BY <1>16 DEF UninitInterrupt, InterruptAll, Broadcast, DeficitBound, CallInv, PoolTypes
<1>17. ASSUME UninitLock PROVE DeficitBound'
  BY <1>17 DEF UninitLock, DeficitBound, CallInv, PoolTypes
<1>18. ASSUME UninitWoken PROVE DeficitBound'
  BY <1>18 DEF UninitWoken, DeficitBound, CallInv, PoolTypes
<1>19. ASSUME UninitTimeout PROVE DeficitBound'
  BY <1>19, SMTT(30) DEF UninitTimeout, DeficitBound, CallInv, PoolTypes
<1> QED
  BY StepCases, <1>1, <1>2, <1>3, <1>4, <1>5, <1>6, <1>7, <1>8, <1>9, <1>10, <1>11, <1>12, <1>13, <1>14, <1>15, <1>16, <1>17, <1>18, <1>19, SMTT(30)

(* The last worker to leave is the last that can have work. *)
LEMMA StepDrain ==
    ASSUME PInv, Next PROVE DrainInv'
<1> USE DEF PInv, poolVars, queueVars
<1>1. ASSUME NEW l \in Pushers, LaunchPush(l) PROVE DrainInv'
  BY <1>1, SMTT(30) DEF LaunchPush, PushCall, DrainInv, CallInv, PoolTypes, QInv, QueueTypeOK, WorkerStates
<1>2. ASSUME NEW l \in Pushers, PushStores(l) PROVE DrainInv'
  BY <1>2, SMTT(30) DEF PushStores, LaunchPushing, Store, Signal, In, DrainInv, CallInv, PoolTypes, QInv, QueueTypeOK, WorkerStates
<1>3. ASSUME NEW l \in Pushers, PushOther(l) PROVE DrainInv'
  BY <1>3, SMTT(30) DEF PushOther, LaunchPushing, PushFull, PushStillFull, PushAgain, DrainInv, CallInv, PoolTypes, QInv, QueueTypeOK, WorkerStates
<1>4. ASSUME NEW l \in Pushers, CheckQueue(l) PROVE DrainInv'
  BY <1>4 DEF CheckQueue, DrainInv, CallInv, PoolTypes, QInv, QueueTypeOK, WorkerStates
<1>5. ASSUME NEW l \in Pushers, CreateFail(l) PROVE DrainInv'
  <2>1. CASE uninit = "wait" /\ running = 1
    <3>1. Alive' = {}
      <4>1. Alive' = Alive /\ l \in Creating
        BY <1>5 DEF CreateFail, Alive, Creating
      <4>2. Cardinality(Creating) # 0
        BY <4>1, PoolFinite, FS_EmptySet
      <4>3. Cardinality(Alive) = 0
        BY <2>1, <4>2, PoolFinite DEF RunningExact
      <4> QED
        BY <4>1, <4>3, PoolFinite, FS_EmptySet
    <3> QED
      BY <3>1 DEF Alive, DrainInv
  <2>2. CASE ~(uninit = "wait" /\ running = 1)
    BY <1>5, <2>2, SMTT(30) DEF CreateFail, SignalIfLast, DrainInv, PoolTypes
  <2> QED
    BY <2>1, <2>2
<1>6. ASSUME NEW l \in Pushers, NEW w \in Poppers, CreateOk(l, w) PROVE DrainInv'
  BY <1>6, SMTT(30) DEF CreateOk, DrainInv, CallInv, PoolTypes, QInv, QueueTypeOK, WorkerStates
<1>7. ASSUME NEW w \in Poppers, WorkerCall(w) PROVE DrainInv'
  BY <1>7, SMTT(30) DEF WorkerCall, PopCall, DrainInv, CallInv, PoolTypes, QInv, QueueTypeOK, WorkerStates
<1>8. ASSUME NEW w \in Poppers, PopTakes(w) PROVE DrainInv'
  BY <1>8, SMTT(30) DEF PopTakes, WorkerPopping, Take, Signal, In, DrainInv, CallInv, PoolTypes, QInv, QueueTypeOK, WorkerStates
<1>9. ASSUME NEW w \in Poppers, PopOther(w) PROVE DrainInv'
  BY <1>9, SMTT(30) DEF PopOther, WorkerPopping, PopEmpty, PopStillEmpty, DrainInv, CallInv, PoolTypes, QInv, QueueTypeOK, WorkerStates
<1>10. ASSUME NEW w \in Poppers, WorkerTimeout(w) PROVE DrainInv'
  BY <1>10, SMTT(30) DEF WorkerTimeout, PopTimeout, DrainInv, CallInv, PoolTypes, QInv, QueueTypeOK, WorkerStates
<1>11. ASSUME NEW w \in Poppers, FuncReturns(w) PROVE DrainInv'
  BY <1>11, SMTT(30) DEF FuncReturns, DrainInv, CallInv, PoolTypes, QInv, QueueTypeOK, WorkerStates
<1>12. ASSUME NEW w \in Poppers, BusyDone(w) PROVE DrainInv'
  BY <1>12 DEF BusyDone, DrainInv, CallInv, PoolTypes, QInv, QueueTypeOK, WorkerStates
<1>13. ASSUME NEW w \in Poppers, WorkerLeaves(w) PROVE DrainInv'
  <2>1. CASE uninit = "wait" /\ running = 1
    <3>1. Alive' = {}
      <4>1. Alive' = Alive \ {w} /\ w \in Alive
        BY <1>13 DEF WorkerLeaves, Alive, PoolTypes
      <4>2. Cardinality(Alive) = 1 \/ Cardinality(Alive) = 0
        BY <2>1, PoolFinite DEF RunningExact
      <4>3. IsFiniteSet(Alive') /\ Cardinality(Alive') = Cardinality(Alive) - 1 /\ Cardinality(Alive') \in Nat
        BY <4>1, PoolFinite, FS_RemoveElement, FS_CardinalityType, SMTT(30)
      <4> QED
        BY <4>2, <4>3, FS_EmptySet
    <3> QED
      BY <3>1 DEF Alive, DrainInv
  <2>2. CASE ~(uninit = "wait" /\ running = 1)
    BY <1>13, <2>2, SMTT(30) DEF WorkerLeaves, SignalIfLast, DrainInv, PoolTypes
  <2> QED
    BY <2>1, <2>2
<1>14. ASSUME NEW w \in Poppers, WorkerStays(w) PROVE DrainInv'
  BY <1>14, SMTT(30) DEF WorkerStays, MustLeave, DrainInv, CallInv, PoolTypes, QInv, QueueTypeOK, WorkerStates
<1>15. ASSUME UninitTerm PROVE DrainInv'
  BY <1>15, SMTT(30) DEF UninitTerm, TermSet, DrainInv, CallInv, PoolTypes, QInv, QueueTypeOK, WorkerStates
<1>16. ASSUME UninitInterrupt PROVE DrainInv'
  BY <1>16 DEF UninitInterrupt, InterruptAll, Broadcast, DrainInv, CallInv, PoolTypes, QInv, QueueTypeOK, WorkerStates
<1>17. ASSUME UninitLock PROVE DrainInv'
  <2>1. running = 0 => Alive = {}
    BY PoolFinite, FS_EmptySet, SMTT(30) DEF RunningExact
  <2> QED
    BY <1>17, <2>1 DEF UninitLock, DrainInv, Alive
<1>18. ASSUME UninitWoken PROVE DrainInv'
  BY <1>18, SMTT(30) DEF UninitWoken, DrainInv, CallInv, PoolTypes, QInv, QueueTypeOK, WorkerStates
<1>19. ASSUME UninitTimeout PROVE DrainInv'
  BY <1>19 DEF UninitTimeout, DrainInv, CallInv, PoolTypes, QInv, QueueTypeOK, WorkerStates
<1> QED
  BY StepCases, <1>1, <1>2, <1>3, <1>4, <1>5, <1>6, <1>7, <1>8, <1>9, <1>10, <1>11, <1>12, <1>13, <1>14, <1>15, <1>16, <1>17, <1>18, <1>19, SMTT(30)

(* The invariant is inductive. *)
LEMMA StepPInv == PInv /\ [Next]_vars => PInv'
<1>1. ASSUME PInv, Next PROVE PInv'
  BY <1>1, StepQueue, StepPoolTypes, StepCalls, StepRunning, StepUnpushed, StepRunOnce, StepDeficit, StepDrain, SMTT(30)
     DEF PInv
<1>2. ASSUME PInv, UNCHANGED vars PROVE PInv'
  <2> USE <1>2 DEF PInv, vars, poolVars
  <2>1. QInv'
    BY ControlPreserves
  <2>2. PoolTypes' /\ CallInv' /\ RunningExact' /\ DeficitBound' /\ DrainInv'
    BY Zenon DEF queueVars, PoolTypes, CallInv, RunningExact, Alive, Creating, DeficitBound, DrainInv
  <2>3. Unpushed' /\ RunOnce'
    BY Zenon DEF queueVars, Unpushed, RunOnce, InHand
  <2> QED
    BY <2>1, <2>2, <2>3
<1> QED
  BY <1>1, <1>2

(* The invariant holds in every state of the pool. *)
THEOREM PoolInvariance == Spec => []PInv
  BY InitPInv, StepPInv, PTL DEF Spec

-----------------------------------------------------------------------------
(* busy counts the work that was handed over and checked for, without what has
   been run and counted out again. *)
Checked == {l \in Pushers : launcher[l] \in {"create", "done"}}
Ran == {w \in Poppers : worker[w] = "ran"}
BusyInv == busy = Cardinality(Checked) - Cardinality(ended) + Cardinality(Ran)

LEMMA BusyFinite ==
    ASSUME PInv
    PROVE  /\ IsFiniteSet(Checked) /\ IsFiniteSet(ended) /\ IsFiniteSet(Ran)
           /\ Cardinality(Checked) \in Nat /\ Cardinality(ended) \in Nat /\ Cardinality(Ran) \in Nat
<1>1. Checked \subseteq Pushers /\ ended \subseteq Pushers /\ Ran \subseteq Poppers
  BY OneItemEach DEF PInv, PoolTypes, Checked, Ran
<1> QED
  BY <1>1, CallersAssumption, FS_Subset, FS_CardinalityType, Zenon

(* Only check_queue and the end of a piece of work change the count or what it
   counts. *)
LEMMA StepBusy ==
    ASSUME PInv, BusyInv, [Next]_vars PROVE BusyInv'
<1> USE DEF PInv
<1>1. busy \in Int
  BY DEF PoolTypes
<1>2. ASSUME NEW l \in Pushers, CheckQueue(l) PROVE BusyInv'
  <2>1. Checked' = Checked \cup {l} /\ l \notin Checked
    BY <1>2 DEF CheckQueue, Checked, PoolTypes
  <2>2. Ran' = Ran /\ ended' = ended /\ busy' = busy + 1
    BY <1>2 DEF CheckQueue, Ran
  <2>3. Cardinality(Checked') = Cardinality(Checked) + 1
    BY <2>1, BusyFinite, FS_AddElement, Zenon
  <2> QED
    BY <1>1, <2>2, <2>3, BusyFinite, SMTT(30) DEF BusyInv
<1>3. ASSUME NEW w \in Poppers, FuncReturns(w) PROVE BusyInv'
  <2>1. Ran' = Ran \cup {w} /\ w \notin Ran
    BY <1>3, SMTT(30) DEF FuncReturns, Ran, PoolTypes
  <2>2. Checked' = Checked /\ busy' = busy /\ ended' = ended \cup {got[w]} /\ got[w] \notin ended
    BY <1>3 DEF FuncReturns, Checked, RunOnce, InHand
  <2>3. Cardinality(Ran') = Cardinality(Ran) + 1 /\ Cardinality(ended') = Cardinality(ended) + 1
    BY <2>1, <2>2, BusyFinite, FS_AddElement, Zenon
  <2> QED
    BY <1>1, <2>2, <2>3, BusyFinite, SMTT(30) DEF BusyInv
<1>4. ASSUME NEW w \in Poppers, BusyDone(w) PROVE BusyInv'
  <2>1. Ran' = Ran \ {w} /\ w \in Ran
    BY <1>4 DEF BusyDone, Ran, PoolTypes
  <2>2. Checked' = Checked /\ ended' = ended /\ busy' = busy - 1
    BY <1>4 DEF BusyDone, Checked
  <2>3. Cardinality(Ran') = Cardinality(Ran) - 1
    BY <2>1, BusyFinite, FS_RemoveElement, Zenon
  <2> QED
    BY <1>1, <2>2, <2>3, BusyFinite DEF BusyInv
<1>5. ASSUME UNCHANGED <<busy, ended>>, Checked' = Checked, Ran' = Ran PROVE BusyInv'
  BY <1>5, Zenon DEF BusyInv
<1>6. ASSUME NEW l \in Pushers, LaunchPush(l) \/ CreateFail(l) \/ \E w \in Poppers : CreateOk(l, w)
      PROVE  BusyInv'
  <2>1. UNCHANGED <<busy, ended>> /\ Checked' = Checked /\ Ran' = Ran
    BY <1>6 DEF LaunchPush, CreateFail, CreateOk, Checked, Ran, PoolTypes
  <2> QED
    BY <1>5, <2>1, SMTT(30)
<1>7. ASSUME NEW w \in Poppers, WorkerCall(w) \/ WorkerLeaves(w) \/ WorkerStays(w)
      PROVE  BusyInv'
  <2>1. UNCHANGED <<busy, ended>> /\ Checked' = Checked /\ Ran' = Ran
    BY <1>7 DEF WorkerCall, WorkerLeaves, WorkerStays, Checked, Ran, PoolTypes
  <2> QED
    BY <1>5, <2>1, SMTT(30)
<1>8. CASE UNCHANGED <<busy, ended, launcher, worker>>
  <2>1. Checked' = Checked /\ Ran' = Ran
    BY <1>8, Zenon DEF Checked, Ran
  <2> QED
    BY <1>5, <1>8, <2>1
<1>9. \/ UNCHANGED <<busy, ended, launcher, worker>>
      \/ \E l \in Pushers : \/ LaunchPush(l) \/ CheckQueue(l) \/ CreateFail(l)
                            \/ \E w \in Poppers : CreateOk(l, w)
      \/ \E w \in Poppers : \/ WorkerCall(w) \/ FuncReturns(w) \/ BusyDone(w)
                            \/ WorkerLeaves(w) \/ WorkerStays(w)
  BY Zenon DEF Next, LauncherStep, LaunchPushing, WorkerStep, WorkerPopping, WorkerTimeout, UninitNext,
       UninitTerm, UninitInterrupt, UninitLock, UninitWoken, UninitTimeout, vars, poolVars
<1> QED
  BY <1>2, <1>3, <1>4, <1>6, <1>7, <1>8, <1>9, Zenon

(* Work in the queue was pushed and has not been run, so that it is counted in
   busy unless its launch, or that of work already run, is still to come to
   check_queue; and busy is at most running when nothing went wrong. *)
LEMMA Attended ==
    ASSUME PInv, BusyInv PROVE WorkAttended
<1> SUFFICES ASSUME buf # << >>, ~terminated, lost = 0, failed = 0, Alive = {}, Creating = {},
                    \A l \in Pushers : ~(launcher[l] = "push" /\ pusher[l] = "ok")
             PROVE  FALSE
  BY DEF WorkAttended
<1> USE DEF PInv
<1>1. running = 0
  BY FS_EmptySet DEF RunningExact
<1>2. busy <= 0
  BY <1>1 DEF DeficitBound, PoolTypes
<1>3. PICK i \in 1 .. Len(buf) : TRUE
  <2>1. 1 \in 1 .. Len(buf)
    BY DEF QInv, QueueTypeOK
  <2> QED
    BY <2>1
<1>4. buf[i] \in Pushers /\ buf[i] \notin ended
  BY <1>3, OneItemEach DEF QInv, QueueTypeOK, RunOnce
<1>5. \A l \in Pushers : pusher[l] = "ok" => l \in Checked
  BY Zenon DEF Checked, CallInv, PoolTypes, LaunchStates
<1>6. pusher[buf[i]] = "ok" /\ \A l \in Pushers : l \in ended => pusher[l] = "ok"
  BY <1>3, <1>4, Zenon DEF Unpushed
<1>7. ended \cup {buf[i]} \subseteq Checked
  BY <1>4, <1>5, <1>6, OneItemEach DEF PoolTypes
<1>8. Cardinality(ended) + 1 <= Cardinality(Checked)
  <2>1. Cardinality(ended \cup {buf[i]}) = Cardinality(ended) + 1
    BY <1>4, BusyFinite, FS_AddElement, Zenon
  <2>2. Cardinality(ended \cup {buf[i]}) <= Cardinality(Checked)
    BY <1>7, BusyFinite, FS_Subset, Zenon
  <2> QED
    BY <2>1, <2>2
<1> QED
  BY <1>2, <1>8, BusyFinite DEF BusyInv

-----------------------------------------------------------------------------
(* For any numbers of launches and workers and any capacity of the queue: *)

(* Every variable keeps its range; in particular running, which the code keeps
   in an int, is never negative. *)
THEOREM TypesHold == Spec => []PoolTypeOK
<1>1. PInv => PoolTypeOK
  BY DEF PInv, QInv, PoolTypes, PoolTypeOK
<1> QED
  BY <1>1, PoolInvariance, PTL

(* While a worker is blocked in pop, or a launch in push, every queued item,
   or free slot, is promised to a thread that was signalled: no wakeup of the
   pool's queue is lost. *)
THEOREM NoWakeupLost == Spec => []NoLostWakeup
<1>1. PInv => NoLostWakeup
  BY DEF PInv, QInv
<1> QED
  BY <1>1, PoolInvariance, PTL

(* running counts exactly the workers that exist and those being created. *)
THEOREM CountsWorkers == Spec => []RunningExact
<1>1. PInv => RunningExact
  BY DEF PInv
<1> QED
  BY <1>1, PoolInvariance, PTL

(* No work is run twice or is in two places. *)
THEOREM RunsOnce == Spec => []RunOnce
<1>1. PInv => RunOnce
  BY DEF PInv
<1> QED
  BY <1>1, PoolInvariance, PTL

(* Outstanding work exceeds the workers only by those lost to APR_EINTR and by
   the threads that could not be created. *)
THEOREM ShortByLossesOnly == Spec => []DeficitBound
<1>1. PInv => DeficitBound
  BY DEF PInv
<1> QED
  BY <1>1, PoolInvariance, PTL

(* When switch_core_session_uninit returns in time nobody runs a session. *)
THEOREM QuietAfterUninit == Spec => []Drained
<1>1. PInv => Drained
  BY DEF PInv, DrainInv, Drained, InHand
<1> QED
  BY <1>1, PoolInvariance, PTL

(* Queued work is never left without a worker that is there, being created or
   about to be asked for, unless a worker left on APR_EINTR or could not be
   created. *)
THEOREM NeverUnattended == Spec => []WorkAttended
<1>1. Init => BusyInv
  <2> SUFFICES ASSUME Init PROVE BusyInv
    OBVIOUS
  <2>1. Checked = {} /\ ended = {} /\ Ran = {} /\ busy = 0
    BY DEF Init, Checked, Ran
  <2> QED
    BY <2>1, FS_EmptySet DEF BusyInv
<1>2. PInv /\ BusyInv /\ [Next]_vars => BusyInv'
  BY StepBusy
<1>3. PInv /\ BusyInv => WorkAttended
  BY Attended
<1> QED
  BY <1>1, <1>2, <1>3, PoolInvariance, PTL DEF Spec

(* Under the pool, whose workers may leave and come back, the queue is still a
   bounded FIFO: the pool's specification implements the abstract one. *)
THEOREM PoolQueueIsFifo == Spec => IsFifo
<1>1. Init => Fifo!Init
  BY DEF Init, QueueInit, Fifo!Init
<1>2. PInv /\ [Next]_vars => [Fifo!Next]_buf
  <2>1. ASSUME [Next]_vars
        PROVE  \/ \E l \in Pushers : PushStep(l)
               \/ \E w \in Poppers : PopStep(w)
               \/ UNCHANGED buf
    BY <2>1, Zenon DEF Next, LauncherStep, LaunchPush, PushCall, LaunchPushing, CheckQueue, CreateOk, CreateFail,
         WorkerStep, WorkerCall, PopCall, WorkerPopping, FuncReturns, BusyDone, WorkerLeaves, WorkerStays,
         WorkerTimeout, PopTimeout, UninitNext, UninitTerm, TermSet, UninitInterrupt, InterruptAll,
         UninitLock, UninitWoken, UninitTimeout, vars, queueVars
  <2> QED
    BY <2>1, FifoStep, Zenon DEF PInv
<1> QED
  BY <1>1, <1>2, PoolInvariance, PTL DEF Spec, IsFifo, Fifo!Spec
=============================================================================
