------------------------ MODULE EventDispatch_proofs ------------------------
(***************************************************************************)
(* Proofs about EventDispatch, for any numbers of firing threads, events,  *)
(* nodes and dispatch threads and any length of the queue: the counts of   *)
(* threads are exact, an event has one owner at a time, no callback is     *)
(* called on a node that was unbound and a shutdown leaves quiet.  The     *)
(* queue comes first: what its steps preserve (SessionThreadPool_proofs    *)
(* states the same of the queue alone and of the pool's).                  *)
(***************************************************************************)
EXTENDS EventDispatch, FiniteSetTheorems, TLAPS

-----------------------------------------------------------------------------
(* The queue. *)

(* The buffer as a sequence.  It is empty when its length is zero. *)
LEMMA SeqLen ==
    ASSUME NEW S, NEW q \in Seq(S)
    PROVE  Len(q) \in Nat /\ (q = << >> <=> Len(q) = 0)
  OBVIOUS

(* An item that is put behind leaves the others where they are. *)
LEMMA SeqAppend ==
    ASSUME NEW S, NEW q \in Seq(S), NEW i \in S
    PROVE  /\ Append(q, i) \in Seq(S) /\ Append(q, i) # << >>
           /\ Len(Append(q, i)) = Len(q) + 1 /\ Append(q, i)[Len(q) + 1] = i
           /\ \A n \in 1 .. Len(q) : Append(q, i)[n] = q[n]
  OBVIOUS

(* Taking the first moves the others up by one. *)
LEMMA SeqTail ==
    ASSUME NEW S, NEW q \in Seq(S), q # << >>
    PROVE  /\ Head(q) \in S /\ Head(q) = q[1] /\ Tail(q) \in Seq(S)
           /\ Len(Tail(q)) = Len(q) - 1
           /\ \A n \in 1 .. Len(Tail(q)) : Tail(q)[n] = q[n + 1]
  OBVIOUS

(* The empty buffer is one of any items. *)
LEMMA SeqNone == \A S : << >> \in Seq(S) /\ Len(<< >>) = 0
  OBVIOUS

(* A pusher that is inside a call offers an item. *)
OfferOK == \A p \in Pushers : pusher[p] # "out" => offer[p] \in Items

(* The inductive invariant.  NoLostWakeup is inductive given the types. *)
QInv == QueueTypeOK /\ OfferOK /\ NoLostWakeup

-----------------------------------------------------------------------------
(* How the sets of blocked and of signalled threads change. *)

(* Finitely many threads are anywhere. *)
LEMMA InFinite ==
  ASSUME NEW T, IsFiniteSet(T), NEW S, NEW f \in [T -> S], NEW at
  PROVE  IsFiniteSet(In(f, at)) /\ Cardinality(In(f, at)) \in Nat
<1>1. In(f, at) \in SUBSET T BY DEF In
<1> QED BY <1>1, FS_Subset, FS_CardinalityType

(* A signalled thread runs and its call succeeds. *)
LEMMA MoveWoken ==
  ASSUME NEW T, IsFiniteSet(T), NEW S, NEW f \in [T -> S], NEW t \in T, NEW g,
         f[t] = "woken", g = [f EXCEPT ![t] = "ok"]
  PROVE  /\ Cardinality(In(g, "woken")) = Cardinality(In(f, "woken")) - 1
         /\ In(g, "wait") = In(f, "wait")
<1>1. In(g, "woken") = In(f, "woken") \ {t} BY DEF In
<1>2. In(g, "wait") = In(f, "wait") BY DEF In
<1>3. t \in In(f, "woken") BY DEF In
<1>4. IsFiniteSet(In(f, "woken")) BY InFinite
<1> QED BY <1>1, <1>2, <1>3, <1>4, FS_RemoveElement, Zenon

(* A signal, if anyone is still blocked after it, promised one more item. *)
LEMMA SignalPromises ==
  ASSUME NEW T, IsFiniteSet(T), NEW S, "woken" \in S, NEW f \in [T -> S], NEW g,
         Signal(f, g)
  PROVE  /\ g \in [T -> S]
         /\ In(g, "wait") # {} =>
              /\ In(f, "wait") # {}
              /\ Cardinality(In(g, "woken")) = Cardinality(In(f, "woken")) + 1
<1>1. CASE In(f, "wait") = {} /\ g = f BY <1>1
<1>2. CASE \E t \in In(f, "wait") : g = [f EXCEPT ![t] = "woken"]
  <2>1. PICK t \in In(f, "wait") : g = [f EXCEPT ![t] = "woken"] BY <1>2, Zenon
  <2>2. t \in T /\ f[t] = "wait" BY DEF In
  <2>3. In(g, "woken") = In(f, "woken") \cup {t} BY <2>1, <2>2 DEF In
  <2>4. t \notin In(f, "woken") BY <2>2 DEF In
  <2>5. IsFiniteSet(In(f, "woken")) BY InFinite
  <2>6. Cardinality(In(g, "woken")) = Cardinality(In(f, "woken")) + 1
    BY <2>3, <2>4, <2>5, FS_AddElement
  <2> QED BY <2>1, <2>2, <2>6
<1> QED BY <1>1, <1>2 DEF Signal

-----------------------------------------------------------------------------
(* What the two buffer operations do to the buffer. *)
LEMMA StoreBuf ==
  ASSUME QueueTypeOK, NEW p \in Pushers, offer[p] \in Items, Store(p)
  PROVE  buf' \in Seq(Items) /\ Len(buf') = Len(buf) + 1 /\ Len(buf') <= Capacity
BY CapacityAssumption, SeqAppend, SeqLen DEF QueueTypeOK, Store

LEMMA TakeBuf ==
  ASSUME QueueTypeOK, NEW p \in Poppers, Take(p)
  PROVE  /\ buf' \in Seq(Items) /\ Len(buf') = Len(buf) - 1
         /\ Head(buf) \in Items /\ Len(buf) \in Nat \ {0}
BY SeqTail, SeqLen, SeqNone DEF QueueTypeOK, Take

-----------------------------------------------------------------------------
(* Every step preserves the invariant: one lemma for each caller's side. *)

LEMMA PushPreserves ==
  ASSUME QInv, NEW p \in Pushers,
         PushStep(p) \/ (\E item \in Items : PushCall(p, item))
  PROVE  QInv'
<1> USE DEF QInv
<1>len. Len(buf) \in Nat BY SeqLen DEF QueueTypeOK
<1>1. ASSUME NEW item \in Items, PushCall(p, item) PROVE QInv'
  <2>1. QueueTypeOK' BY <1>1 DEF QueueTypeOK, PushCall, PushStates
  <2>2. OfferOK' BY <1>1 DEF QueueTypeOK, OfferOK, PushCall
  <2>3. In(pusher', "woken") = In(pusher, "woken") /\ In(pusher', "wait") \subseteq In(pusher, "wait")
    BY <1>1 DEF In, QueueTypeOK, PushCall
  <2>4. NoLostWakeup' BY <1>1, <2>3, Zenon DEF NoLostWakeup, PushCall
  <2> QED BY <2>1, <2>2, <2>4
<1>2. ASSUME pusher[p] \in {"enter", "woken"}, Store(p) PROVE QInv'
  <2>1. offer[p] \in Items BY <1>2 DEF OfferOK
  <2>2. buf' \in Seq(Items) /\ Len(buf') = Len(buf) + 1 /\ Len(buf') <= Capacity
    BY <1>2, <2>1, StoreBuf
  <2>3. /\ popper' \in [Poppers -> PopStates]
        /\ In(popper', "wait") # {} =>
             /\ In(popper, "wait") # {}
             /\ Cardinality(In(popper', "woken")) = Cardinality(In(popper, "woken")) + 1
    <3>1. /\ popper \in [Poppers -> PopStates] /\ "woken" \in PopStates
          /\ Signal(popper, popper')
      BY <1>2 DEF Store, QueueTypeOK, PopStates
    <3> QED BY <3>1, SignalPromises, CallersAssumption
  <2>4. QueueTypeOK' BY <1>2, <2>2, <2>3 DEF QueueTypeOK, Store, PushStates
  <2>5. OfferOK' BY <1>2, <2>1 DEF OfferOK, Store, QueueTypeOK
  <2>6. In(popper', "wait") # {} => Len(buf') <= Cardinality(In(popper', "woken"))
    <3>1. Cardinality(In(popper, "woken")) \in Nat
      BY InFinite, CallersAssumption, Zenon DEF QueueTypeOK
    <3> QED BY <2>2, <2>3, <3>1, <1>len DEF NoLostWakeup
  <2>7. In(pusher', "wait") # {} =>
          Capacity - Len(buf') <= Cardinality(In(pusher', "woken"))
    <3>0. Cardinality(In(pusher, "woken")) \in Nat
      BY InFinite, CallersAssumption, Zenon DEF QueueTypeOK
    <3>1. CASE pusher[p] = "enter"
      <4>1. In(pusher', "woken") = In(pusher, "woken") /\ In(pusher', "wait") \subseteq In(pusher, "wait")
        BY <1>2, <3>1 DEF In, QueueTypeOK, Store
      <4> QED BY <4>1, <3>0, <2>2, <1>len, CapacityAssumption DEF NoLostWakeup
    <3>2. CASE pusher[p] = "woken"
      <4>1. /\ Cardinality(In(pusher', "woken")) = Cardinality(In(pusher, "woken")) - 1
            /\ In(pusher', "wait") = In(pusher, "wait")
        <5>1. pusher \in [Pushers -> PushStates] /\ pusher' = [pusher EXCEPT ![p] = "ok"]
          BY <1>2 DEF QueueTypeOK, Store
        <5> QED BY <5>1, <3>2, MoveWoken, CallersAssumption, Zenon
      <4> QED BY <4>1, <3>0, <2>2, <1>len, CapacityAssumption DEF NoLostWakeup
    <3> QED BY <1>2, <3>1, <3>2
  <2> QED BY <2>4, <2>5, <2>6, <2>7 DEF NoLostWakeup
<1>3. ASSUME \/ pusher[p] = "enter" /\ PushFull(p)
             \/ pusher[p] = "woken" /\ PushStillFull(p)
      PROVE  QInv'
  <2>1. QueueTypeOK' BY <1>3 DEF QueueTypeOK, PushFull, PushStillFull, PushStates
  <2>2. OfferOK' BY <1>3 DEF OfferOK, PushFull, PushStillFull, QueueTypeOK
  <2>3. Cardinality(In(pusher', "woken")) \in Nat
    BY <2>1, InFinite, CallersAssumption, Zenon DEF QueueTypeOK
  <2>4. Capacity - Len(buf') <= 0
    BY <1>3, <1>len, CapacityAssumption DEF PushFull, PushStillFull, QueueTypeOK
  <2>5. NoLostWakeup'
    BY <1>3, <2>3, <2>4, <1>len, CapacityAssumption DEF NoLostWakeup, PushFull, PushStillFull
  <2> QED BY <2>1, <2>2, <2>5
<1>4. ASSUME PushAgain(p) PROVE QInv'
  <2>1. QueueTypeOK' BY <1>4 DEF QueueTypeOK, PushAgain, PushStates
  <2>2. OfferOK' BY <1>4 DEF OfferOK, PushAgain, QueueTypeOK
  <2>3. In(pusher', "woken") = In(pusher, "woken") /\ In(pusher', "wait") \subseteq In(pusher, "wait")
    BY <1>4 DEF In, QueueTypeOK, PushAgain
  <2>4. NoLostWakeup' BY <1>4, <2>3, Zenon DEF NoLostWakeup, PushAgain
  <2> QED BY <2>1, <2>2, <2>4
<1> QED BY <1>1, <1>2, <1>3, <1>4 DEF PushStep, PushEnter, PushWoken

LEMMA PopPreserves ==
  ASSUME QInv, NEW p \in Poppers, PopCall(p) \/ PopStep(p) \/ PopTimeout(p)
  PROVE  QInv'
<1> USE DEF QInv
<1>len. Len(buf) \in Nat BY SeqLen DEF QueueTypeOK
<1>1. ASSUME PopCall(p) \/ PopTimeout(p) PROVE QInv'
  <2>1. QueueTypeOK' BY <1>1 DEF QueueTypeOK, PopCall, PopTimeout, PopStates
  <2>2. OfferOK' BY <1>1 DEF OfferOK, PopCall, PopTimeout
  <2>3. In(popper', "woken") = In(popper, "woken") /\ In(popper', "wait") \subseteq In(popper, "wait")
    BY <1>1 DEF In, QueueTypeOK, PopCall, PopTimeout
  <2>4. NoLostWakeup' BY <1>1, <2>3 DEF NoLostWakeup, PopCall, PopTimeout
  <2> QED BY <2>1, <2>2, <2>4
<1>2. ASSUME popper[p] \in {"enter", "woken"}, Take(p) PROVE QInv'
  <2>2. /\ buf' \in Seq(Items) /\ Len(buf') = Len(buf) - 1
        /\ Head(buf) \in Items /\ Len(buf) \in Nat \ {0}
    BY <1>2, TakeBuf
  <2>3. /\ pusher' \in [Pushers -> PushStates]
        /\ In(pusher', "wait") # {} =>
             /\ In(pusher, "wait") # {}
             /\ Cardinality(In(pusher', "woken")) = Cardinality(In(pusher, "woken")) + 1
    <3>1. /\ pusher \in [Pushers -> PushStates] /\ "woken" \in PushStates
          /\ Signal(pusher, pusher')
      BY <1>2 DEF Take, QueueTypeOK, PushStates
    <3> QED BY <3>1, SignalPromises, CallersAssumption
  <2>4. QueueTypeOK'
    BY <1>2, <2>2, <2>3, CapacityAssumption DEF QueueTypeOK, Take, PopStates
  <2>5. OfferOK'
    <3>1. \A u \in Pushers : pusher'[u] # "out" => pusher[u] # "out"
      BY <1>2 DEF Take, Signal, In, QueueTypeOK
    <3> QED BY <1>2, <3>1 DEF OfferOK, Take
  <2>6. In(pusher', "wait") # {} =>
          Capacity - Len(buf') <= Cardinality(In(pusher', "woken"))
    <3>1. Cardinality(In(pusher, "woken")) \in Nat
      BY InFinite, CallersAssumption, Zenon DEF QueueTypeOK
    <3> QED BY <2>2, <2>3, <3>1, CapacityAssumption DEF NoLostWakeup
  <2>7. In(popper', "wait") # {} => Len(buf') <= Cardinality(In(popper', "woken"))
    <3>0. Cardinality(In(popper, "woken")) \in Nat
      BY InFinite, CallersAssumption, Zenon DEF QueueTypeOK
    <3>1. CASE popper[p] = "enter"
      <4>1. In(popper', "woken") = In(popper, "woken") /\ In(popper', "wait") \subseteq In(popper, "wait")
        BY <1>2, <3>1 DEF In, QueueTypeOK, Take
      <4> QED BY <4>1, <3>0, <2>2 DEF NoLostWakeup
    <3>2. CASE popper[p] = "woken"
      <4>1. /\ Cardinality(In(popper', "woken")) = Cardinality(In(popper, "woken")) - 1
            /\ In(popper', "wait") = In(popper, "wait")
        <5>1. popper \in [Poppers -> PopStates] /\ popper' = [popper EXCEPT ![p] = "ok"]
          BY <1>2 DEF QueueTypeOK, Take
        <5> QED BY <5>1, <3>2, MoveWoken, CallersAssumption, Zenon
      <4> QED BY <4>1, <3>0, <2>2 DEF NoLostWakeup
    <3> QED BY <1>2, <3>1, <3>2
  <2> QED BY <2>4, <2>5, <2>6, <2>7 DEF NoLostWakeup
<1>3. ASSUME \/ popper[p] = "enter" /\ PopEmpty(p)
             \/ popper[p] = "woken" /\ PopStillEmpty(p)
      PROVE  QInv'
  <2>1. QueueTypeOK' BY <1>3 DEF QueueTypeOK, PopEmpty, PopStillEmpty, PopStates
  <2>2. OfferOK' BY <1>3 DEF OfferOK, PopEmpty, PopStillEmpty
  <2>3. Cardinality(In(popper', "woken")) \in Nat
    BY <2>1, InFinite, CallersAssumption, Zenon DEF QueueTypeOK
  <2>4. Len(buf') = 0 BY <1>3, SeqNone DEF PopEmpty, PopStillEmpty
  <2>5. NoLostWakeup'
    BY <1>3, <2>3, <2>4 DEF NoLostWakeup, PopEmpty, PopStillEmpty
  <2> QED BY <2>1, <2>2, <2>5
<1> QED BY <1>1, <1>2, <1>3 DEF PopStep, PopEnter, PopWoken

LEMMA TryPreserves ==
  ASSUME QInv, TryPop \/ (\E item \in Items : TryPush(item))
  PROVE  QInv'
<1> USE DEF QInv
<1>len. Len(buf) \in Nat BY SeqLen DEF QueueTypeOK
<1>1. ASSUME NEW item \in Items, TryPush(item) PROVE QInv'
  <2>1. buf' \in Seq(Items) /\ Len(buf') = Len(buf) + 1 /\ Len(buf') <= Capacity
    BY <1>1, CapacityAssumption, SeqAppend, SeqLen DEF QueueTypeOK, TryPush
  <2>2. /\ popper' \in [Poppers -> PopStates]
        /\ In(popper', "wait") # {} =>
             /\ In(popper, "wait") # {}
             /\ Cardinality(In(popper', "woken")) = Cardinality(In(popper, "woken")) + 1
    <3>1. /\ popper \in [Poppers -> PopStates] /\ "woken" \in PopStates
          /\ Signal(popper, popper')
      BY <1>1 DEF TryPush, QueueTypeOK, PopStates
    <3> QED BY <3>1, SignalPromises, CallersAssumption
  <2>3. QueueTypeOK' BY <1>1, <2>1, <2>2 DEF QueueTypeOK, TryPush
  <2>4. OfferOK' BY <1>1 DEF OfferOK, TryPush
  <2>5. Cardinality(In(popper, "woken")) \in Nat /\ Cardinality(In(pusher, "woken")) \in Nat
    BY InFinite, CallersAssumption, Zenon DEF QueueTypeOK
  <2>6. In(popper', "wait") # {} => Len(buf') <= Cardinality(In(popper', "woken"))
    BY <2>1, <2>2, <2>5, <1>len DEF NoLostWakeup
  <2>7. In(pusher', "wait") # {} =>
          Capacity - Len(buf') <= Cardinality(In(pusher', "woken"))
    BY <1>1, <2>1, <2>5, <1>len, CapacityAssumption DEF NoLostWakeup, TryPush
  <2> QED BY <2>3, <2>4, <2>6, <2>7 DEF NoLostWakeup
<1>2. ASSUME TryPop PROVE QInv'
  <2>1. buf' \in Seq(Items) /\ Len(buf') = Len(buf) - 1 /\ Len(buf) \in Nat \ {0}
    BY <1>2, SeqTail, SeqLen, SeqNone DEF QueueTypeOK, TryPop
  <2>2. /\ pusher' \in [Pushers -> PushStates]
        /\ In(pusher', "wait") # {} =>
             /\ In(pusher, "wait") # {}
             /\ Cardinality(In(pusher', "woken")) = Cardinality(In(pusher, "woken")) + 1
    <3>1. /\ pusher \in [Pushers -> PushStates] /\ "woken" \in PushStates
          /\ Signal(pusher, pusher')
      BY <1>2 DEF TryPop, QueueTypeOK, PushStates
    <3> QED BY <3>1, SignalPromises, CallersAssumption
  <2>3. QueueTypeOK' BY <1>2, <2>1, <2>2, CapacityAssumption DEF QueueTypeOK, TryPop
  <2>4. OfferOK'
    <3>1. \A u \in Pushers : pusher'[u] # "out" => pusher[u] # "out"
      BY <1>2 DEF TryPop, Signal, In, QueueTypeOK
    <3> QED BY <1>2, <3>1 DEF OfferOK, TryPop
  <2>5. Cardinality(In(popper, "woken")) \in Nat /\ Cardinality(In(pusher, "woken")) \in Nat
    BY InFinite, CallersAssumption, Zenon DEF QueueTypeOK
  <2>6. In(popper', "wait") # {} => Len(buf') <= Cardinality(In(popper', "woken"))
    BY <1>2, <2>1, <2>5 DEF NoLostWakeup, TryPop
  <2>7. In(pusher', "wait") # {} =>
          Capacity - Len(buf') <= Cardinality(In(pusher', "woken"))
    BY <2>1, <2>2, <2>5, CapacityAssumption DEF NoLostWakeup
  <2> QED BY <2>3, <2>4, <2>6, <2>7 DEF NoLostWakeup
<1> QED BY <1>1, <1>2

LEMMA ControlPreserves ==
  ASSUME QInv, TermSet \/ InterruptAll \/ UNCHANGED queueVars
  PROVE  QInv'
<1> USE DEF QInv
<1>1. CASE TermSet
  BY <1>1 DEF TermSet, QueueTypeOK, OfferOK, NoLostWakeup
<1>2. CASE InterruptAll
  <2>1. QueueTypeOK'
    BY <1>2 DEF InterruptAll, Broadcast, QueueTypeOK, PopStates, PushStates
  <2>2. OfferOK' BY <1>2 DEF InterruptAll, Broadcast, OfferOK, QueueTypeOK
  <2>3. In(popper', "wait") = {} /\ In(pusher', "wait") = {}
    BY <1>2 DEF InterruptAll, Broadcast, In, QueueTypeOK
  <2> QED BY <2>1, <2>2, <2>3 DEF NoLostWakeup
<1>3. CASE UNCHANGED queueVars
  BY <1>3 DEF queueVars, QueueTypeOK, OfferOK, NoLostWakeup
<1> QED BY <1>1, <1>2, <1>3

LEMMA InitQInv == QueueInit => QInv
<1> SUFFICES ASSUME QueueInit PROVE QInv OBVIOUS
<1>1. QueueTypeOK
  <2>1. buf \in Seq(Items) /\ Len(buf) = 0 BY SeqNone DEF QueueInit
  <2>2. Len(buf) <= Capacity BY <2>1, CapacityAssumption
  <2> QED BY <2>1, <2>2, Zenon DEF QueueInit, QueueTypeOK, PopStates, PushStates
<1>2. OfferOK BY DEF QueueInit, OfferOK
<1>3. In(popper, "wait") = {} /\ In(pusher, "wait") = {} BY DEF QueueInit, In
<1> QED BY <1>1, <1>2, <1>3 DEF QInv, NoLostWakeup

-----------------------------------------------------------------------------
(* Counting. *)

One(b) == IF b THEN 1 ELSE 0
Same(a, b) == IF a = b THEN 1 ELSE 0

(* Two sets of threads that differ in one thread at most differ in number by
   that thread. *)
LEMMA OneMoves ==
    ASSUME NEW T, IsFiniteSet(T), NEW A \in SUBSET T, NEW B \in SUBSET T, NEW a,
           \A t \in T \ {a} : t \in A <=> t \in B
    PROVE  /\ Cardinality(A) \in Nat /\ Cardinality(B) \in Nat
           /\ Cardinality(B) + One(a \in A) = Cardinality(A) + One(a \in B)
<1>1. IsFiniteSet(A) /\ IsFiniteSet(B) /\ Cardinality(A) \in Nat /\ Cardinality(B) \in Nat
  BY FS_Subset, FS_CardinalityType
<1>2. Cardinality(A \ {a}) = IF a \in A THEN Cardinality(A) - 1 ELSE Cardinality(A)
  BY <1>1, FS_RemoveElement, Zenon
<1>3. Cardinality(B \ {a}) = IF a \in B THEN Cardinality(B) - 1 ELSE Cardinality(B)
  BY <1>1, FS_RemoveElement, Zenon
<1> QED
  BY <1>1, <1>2, <1>3 DEF One

(* How often an event is queued after a push. *)
LEMMA CountAppend ==
    ASSUME NEW S, NEW s \in Seq(S), NEW v \in S, NEW e
    PROVE  /\ Count(e, s) \in Nat /\ Count(e, Append(s, v)) \in Nat
           /\ Count(e, Append(s, v)) = Count(e, s) + Same(v, e)
<1> DEFINE n == Len(s)  A == {i \in 1 .. n : s[i] = e}
           B == {i \in 1 .. Len(Append(s, v)) : Append(s, v)[i] = e}
<1>1. IsFiniteSet(1 .. n + 1) /\ A \in SUBSET (1 .. n + 1) /\ B \in SUBSET (1 .. n + 1)
  <2>1. IsFiniteSet(1 .. n + 1)
    BY FS_Interval
  <2> QED
    BY <2>1
<1>2. \A i \in (1 .. n + 1) \ {n + 1} : i \in A <=> i \in B
  OBVIOUS
<1>3. (n + 1 \in B <=> v = e) /\ n + 1 \notin A
  OBVIOUS
<1> HIDE DEF n, A, B
<1>4. /\ Cardinality(A) \in Nat /\ Cardinality(B) \in Nat
      /\ Cardinality(B) + One(n + 1 \in A) = Cardinality(A) + One(n + 1 \in B)
  <2>1. PICK T, a : T = 1 .. n + 1 /\ a = n + 1
    OBVIOUS
  <2>2. IsFiniteSet(T) /\ A \in SUBSET T /\ B \in SUBSET T /\ \A t \in T \ {a} : t \in A <=> t \in B
    BY <1>1, <1>2, <2>1
  <2>3. /\ Cardinality(A) \in Nat /\ Cardinality(B) \in Nat
        /\ Cardinality(B) + One(a \in A) = Cardinality(A) + One(a \in B)
    BY <2>2, OneMoves
  <2> QED
    BY <2>1, <2>3
<1>5. Cardinality(B) = Cardinality(A) + Same(v, e)
  BY <1>3, <1>4 DEF One, Same
<1> QED
  BY <1>4, <1>5, Zenon DEF Count, n, A, B

(* How often an event is queued after a pop. *)
LEMMA CountTail ==
    ASSUME NEW S, NEW s \in Seq(S), s # << >>, NEW e
    PROVE  /\ Count(e, s) \in Nat /\ Count(e, Tail(s)) \in Nat
           /\ Count(e, s) = Count(e, Tail(s)) + Same(Head(s), e)
<1> DEFINE n == Len(s)  A == {i \in 1 .. n : s[i] = e}
           B == {i \in 1 .. Len(Tail(s)) : Tail(s)[i] = e}
           f == [i \in B |-> i + 1]
<1>1. IsFiniteSet(1 .. n) /\ A \in SUBSET (1 .. n) /\ B \in SUBSET (1 .. n)
  <2>1. IsFiniteSet(1 .. n)
    BY FS_Interval
  <2> QED
    BY <2>1
<1>2. IsFiniteSet(A) /\ IsFiniteSet(B) /\ Cardinality(A) \in Nat /\ Cardinality(B) \in Nat
  BY <1>1, FS_Subset, FS_CardinalityType
<1>3. f \in Bijection(B, A \ {1})
  <2>1. f \in [B -> A \ {1}]
    OBVIOUS
  <2>2. \A i, j \in B : f[i] = f[j] => i = j
    OBVIOUS
  <2>3. \A k \in A \ {1} : \E i \in B : f[i] = k
    <3> SUFFICES ASSUME NEW k \in A \ {1} PROVE \E i \in B : f[i] = k
      BY Zenon
    <3>1. k - 1 \in B /\ f[k - 1] = k
      OBVIOUS
    <3> QED
      BY <3>1, Zenon
  <2> QED
    BY <2>1, <2>2, <2>3, Zenon DEF Bijection, Injection, Surjection, IsInjective
<1>4. Cardinality(A \ {1}) = Cardinality(B)
  BY <1>2, <1>3, FS_Bijection, ZenonT(30) DEF ExistsBijection
<1>5. Cardinality(A \ {1}) = IF 1 \in A THEN Cardinality(A) - 1 ELSE Cardinality(A)
  BY <1>2, FS_RemoveElement, Zenon
<1>6. 1 \in A <=> Head(s) = e
  OBVIOUS
<1> HIDE DEF A, B
<1>7. Cardinality(A) = Cardinality(B) + Same(Head(s), e)
  BY <1>2, <1>4, <1>5, <1>6 DEF One, Same
<1> QED
  BY <1>2, <1>7, Zenon DEF Count, A, B
-----------------------------------------------------------------------------
(* The invariant. *)

Launching == {c \in Pushers : fire[c] \in {"launch", "await"}}
Awaiting == {c \in Pushers : fire[c] = "await"}
Looping == {s \in Slots : disp[s] \notin {"none", "start", "ended"}}
DispPlaces == {"none", "start", "test", "pop", "deliver", "call", "leave", "ended"}
FirePlaces == {"idle", "count", "launch", "await", "push"}

(* One thread at a time launches, into the slot at SOFT_MAX_DISPATCH; the slots
   above it have not been used. *)
LaunchInv ==
    /\ \A c, d \in Launching : c = d
    /\ Launching # {} => soft + 1 < MaxDispatch
    /\ \A s \in Slots : s >= soft =>
          disp[s] = "none" \/ (s = soft /\ Awaiting # {})

(* Only a thread inside switch_event_deliver has nodes to call. *)
NodeInv == UnboundQuiet /\ \A s \in Slots : disp[s] # "call" => todo[s] = {}

(* SYSTEM_RUNNING is cleared for good, and a handle that is joined exists. *)
ShutInv ==
    /\ shut # "up" => ~systemRunning
    /\ shut = "joining" => x \in Slots

(* Who fires has the event it offers to the queue; who delivers has one. *)
HandInv ==
    /\ \A c \in Pushers : /\ fire[c] = "idle" <=> event[c] = Null
                          /\ fire[c] = "push" => offer[c] = event[c]
    /\ \A s \in Slots : disp[s] \in {"deliver", "call"} => got[s] \in Events

EInv ==
    /\ TypeOK /\ QInv /\ LaunchInv /\ CountExact /\ NodeInv /\ ShutInv
    /\ QuietWhenDone /\ HandInv /\ OneOwner

(* The sets of threads are finite, and the dispatch threads are those of the
   slots. *)
LEMMA Sets ==
    /\ IsFiniteSet(Slots) /\ IsFiniteSet(Pushers) /\ Slots \subseteq Pushers /\ Poppers = Slots
    /\ Items = Events \cup {Null} /\ Null \notin Events /\ MaxDispatch \in Nat \ {0, 1}
    /\ Initial \in 1 .. MaxDispatch - 1 /\ Cardinality(Slots) = MaxDispatch
<1>1. /\ Slots \subseteq Pushers /\ Poppers = Slots /\ Items = Events \cup {Null} /\ Null \notin Events
      /\ MaxDispatch \in Nat \ {0, 1} /\ Initial \in 1 .. MaxDispatch - 1
  BY DispatchAssumption
<1>2. Cardinality(0 .. MaxDispatch - 1) = MaxDispatch
  BY <1>1, FS_Interval
<1> QED
  BY <1>1, <1>2, CallersAssumption DEF Slots

(* When the number of threads in their loop changes. *)
LEMMA LoopMoves ==
    ASSUME disp \in [Slots -> DispPlaces], NEW s \in Slots, NEW to,
           disp' = [disp EXCEPT ![s] = to]
    PROVE  /\ Cardinality(Looping) \in Nat /\ Cardinality(Looping') \in Nat
           /\ Cardinality(Looping') + One(disp[s] \notin {"none", "start", "ended"})
                = Cardinality(Looping) + One(to \notin {"none", "start", "ended"})
<1>1. /\ Looping \in SUBSET Slots /\ Looping' \in SUBSET Slots
      /\ \A t \in Slots \ {s} : t \in Looping <=> t \in Looping'
      /\ s \in Looping <=> disp[s] \notin {"none", "start", "ended"}
      /\ s \in Looping' <=> to \notin {"none", "start", "ended"}
  BY DEF Looping
<1>2. /\ Cardinality(Looping) \in Nat /\ Cardinality(Looping') \in Nat
      /\ Cardinality(Looping') + One(s \in Looping) = Cardinality(Looping) + One(s \in Looping')
  BY <1>1, Sets, OneMoves
<1> QED
  BY <1>1, <1>2 DEF One

(* When the number of threads that launch changes. *)
LEMMA LaunchMoves ==
    ASSUME fire \in [Pushers -> FirePlaces], NEW c \in Pushers, NEW to,
           fire' = [fire EXCEPT ![c] = to]
    PROVE  /\ Cardinality(Launching) \in Nat /\ Cardinality(Launching') \in Nat
           /\ Cardinality(Launching') + One(fire[c] \in {"launch", "await"})
                = Cardinality(Launching) + One(to \in {"launch", "await"})
<1>1. /\ Launching \in SUBSET Pushers /\ Launching' \in SUBSET Pushers
      /\ \A t \in Pushers \ {c} : t \in Launching <=> t \in Launching'
      /\ c \in Launching <=> fire[c] \in {"launch", "await"}
      /\ c \in Launching' <=> to \in {"launch", "await"}
  BY DEF Launching
<1>2. /\ Cardinality(Launching) \in Nat /\ Cardinality(Launching') \in Nat
      /\ Cardinality(Launching') + One(c \in Launching) = Cardinality(Launching) + One(c \in Launching')
  BY <1>1, Sets, OneMoves
<1> QED
  BY <1>1, <1>2 DEF One

(* Nobody launches while PENDING is zero. *)
LEMMA NoneLaunching ==
    ASSUME CountExact
    PROVE  /\ count \in Nat /\ count <= MaxDispatch /\ count = Cardinality(Looping)
           /\ pending = Cardinality(Launching) /\ pending \in {0, 1}
           /\ pending = 0 <=> Launching = {}
           /\ count = 0 <=> Looping = {}
<1>1. count = Cardinality(Looping) /\ pending = Cardinality(Launching) /\ pending <= 1
  BY DEF CountExact, Looping, Launching
<1>2. Looping \in SUBSET Slots /\ Launching \in SUBSET Pushers
  BY DEF Looping, Launching
<1>3. /\ IsFiniteSet(Looping) /\ IsFiniteSet(Launching) /\ Cardinality(Looping) <= Cardinality(Slots)
      /\ Cardinality(Looping) \in Nat /\ Cardinality(Launching) \in Nat
  BY <1>2, Sets, FS_Subset, FS_CardinalityType
<1>4. (Cardinality(Looping) = 0 <=> Looping = {}) /\ (Cardinality(Launching) = 0 <=> Launching = {})
  BY <1>3, FS_EmptySet
<1> QED
  BY <1>1, <1>3, <1>4, Sets

-----------------------------------------------------------------------------
(* What a step does to the queue is a step of the queue. *)

Types ==
    /\ systemRunning \in BOOLEAN /\ count \in Nat /\ soft \in Initial .. MaxDispatch - 1
    /\ pending \in Nat /\ disp \in [Slots -> DispPlaces] /\ todo \in [Slots -> SUBSET Nodes]
    /\ bound \subseteq Nodes /\ freed \subseteq Nodes /\ bound \cap freed = {}
    /\ fire \in [Pushers -> FirePlaces] /\ event \in [Pushers -> Events \cup {Null}]
    /\ destroyed \subseteq fired /\ fired \subseteq Events
    /\ shut \in {"up", "null", "interrupt", "join", "joining", "wait", "drain", "done"}
    /\ x \in 0 .. MaxDispatch /\ gaveUp \in BOOLEAN

(* The type invariant is that of the queue, which is not terminated, and that
   of the rest. *)
LEMMA TypeParts == TypeOK <=> QueueTypeOK /\ ~terminated /\ Types
  BY DEF TypeOK, Types, DispPlaces, FirePlaces

(* Every step leaves the queue in order. *)
LEMMA QueueStep ==
    ASSUME QInv, ~terminated, Types, [Next]_vars
    PROVE  QInv' /\ ~terminated'
<1>1. ASSUME NEW c \in Pushers, FireStep(c) PROVE QInv' /\ ~terminated'
  <2>1. /\ UNCHANGED queueVars \/ PushStep(c) \/ PushCall(c, event[c])
        /\ event[c] \in Items
    BY <1>1, Sets, SMTT(30) DEF FireStep, FireCount, Launch, Launched, FirePush, Types
  <2>2. terminated' = terminated
    BY <2>1 DEF queueVars, PushStep, PushCall, PushEnter, PushWoken, PushAgain, PushFull, PushStillFull, Store
  <2> QED
    BY <2>1, <2>2, PushPreserves, ControlPreserves, SMTT(30)
<1>2. ASSUME NEW s \in Slots, DispatchStep(s) PROVE QInv' /\ ~terminated'
  <2>1. UNCHANGED queueVars \/ PopCall(s) \/ PopStep(s)
    BY <1>2 DEF DispatchStep, DispatchStart, DispatchTest, DispatchPop, Deliver, DeliverEnds,
         DispatchEnds, CallbackReturns
  <2>2. terminated' = terminated
    BY <2>1 DEF queueVars, PopCall, PopStep, PopEnter, PopWoken, PopEmpty, PopStillEmpty, Take
  <2> QED
    BY <2>1, <2>2, Sets, PopPreserves, ControlPreserves, SMTT(30)
<1>3. ASSUME ShutStep PROVE QInv' /\ ~terminated'
  <2>1. UNCHANGED queueVars \/ TryPop \/ TryPush(Null) \/ InterruptAll
    BY <1>3 DEF ShutStep, ShutNull, ShutInterrupt, ShutJoin, ShutJoined, ShutWait, ShutDrain
  <2>2. terminated' = terminated
    BY <2>1 DEF queueVars, TryPop, TryPush, InterruptAll
  <2>3. Null \in Items
    BY Sets
  <2> QED
    BY <2>1, <2>2, <2>3, TryPreserves, ControlPreserves
<1>4. ASSUME UNCHANGED queueVars PROVE QInv' /\ ~terminated'
  <2>1. terminated' = terminated
    BY <1>4 DEF queueVars
  <2> QED
    BY <1>4, <2>1, ControlPreserves
<1>5. \/ UNCHANGED queueVars \/ ShutStep
      \/ \E c \in Pushers : FireStep(c)
      \/ \E s \in Slots : DispatchStep(s)
  BY DEF Next, vars, Fire, Bind, Unbind, ShutStart
<1> QED
  BY <1>1, <1>2, <1>3, <1>4, <1>5

-----------------------------------------------------------------------------
(* Steps that leave alone what a part of the invariant is about. *)

(* A step that moves nobody into or out of a launch, and no dispatch thread. *)
LEMMA LaunchFrame ==
    ASSUME LaunchInv, UNCHANGED <<Launching, Awaiting, disp, soft>>
    PROVE  LaunchInv'
  BY DEF LaunchInv

(* A step that moves no thread into or out of a loop or a launch. *)
LEMMA CountFrame ==
    ASSUME CountExact, UNCHANGED <<Launching, Looping, count, pending>>
    PROVE  CountExact'
  BY DEF CountExact, Launching, Looping

(* A step of switch_event_fire outside of a launch. *)
LEMMA FireFrame ==
    ASSUME Types, NEW c \in Pushers, NEW to, fire' = [fire EXCEPT ![c] = to],
           fire[c] \notin {"launch", "await"}, to \notin {"launch", "await"}
    PROVE  UNCHANGED <<Launching, Awaiting>>
  BY DEF Types, Launching, Awaiting

(* Nobody's place in switch_event_fire changes. *)
LEMMA FireSame ==
    ASSUME UNCHANGED fire
    PROVE  UNCHANGED <<Launching, Awaiting>>
  BY DEF Launching, Awaiting

(* No dispatch thread moves. *)
LEMMA LoopSame ==
    ASSUME UNCHANGED disp
    PROVE  UNCHANGED Looping
  BY DEF Looping

(* No dispatch thread or node changes. *)
LEMMA NodeFrame ==
    ASSUME NodeInv, UNCHANGED <<disp, todo, bound>>
    PROVE  NodeInv'
  BY DEF NodeInv, UnboundQuiet

(* The shutdown does not go on. *)
LEMMA ShutFrame ==
    ASSUME ShutInv, UNCHANGED <<shut, x, systemRunning>>
    PROVE  ShutInv'
  BY DEF ShutInv

(* The shutdown does not go on, and no dispatch thread moves. *)
LEMMA QuietFrame ==
    ASSUME QuietWhenDone, UNCHANGED <<shut, gaveUp, disp>>
    PROVE  QuietWhenDone'
  BY DEF QuietWhenDone

(* Nobody takes or gives an event. *)
LEMMA HandFrame ==
    ASSUME HandInv, UNCHANGED <<fire, event, offer, disp, got>>
    PROVE  HandInv'
  BY DEF HandInv

(* No event changes its owner. *)
LEMMA OwnerFrame ==
    ASSUME OneOwner, UNCHANGED <<event, buf, destroyed, fired>>,
           \A e \in Events : UNCHANGED Delivering(e)
    PROVE  OneOwner'
<1>1. \A e \in Events : Firing(e)' = Firing(e)
  BY DEF Firing
<1> QED
  BY <1>1 DEF OneOwner

-----------------------------------------------------------------------------
(* Who takes and gives events. *)

(* apr_queue_push stores the item it was given, or not yet. *)
LEMMA PushMoves ==
    ASSUME QueueTypeOK, NEW c \in Pushers, PushStep(c)
    PROVE  /\ UNCHANGED <<got, offer>>
           /\ \/ pusher'[c] = "ok" /\ buf' = Append(buf, offer[c])
              \/ pusher'[c] # "ok" /\ buf' = buf
<1>1. \/ Store(c) \/ PushFull(c) \/ PushStillFull(c) \/ PushAgain(c)
  BY DEF PushStep, PushEnter, PushWoken
<1>2. pusher \in [Pushers -> PushStates]
  BY DEF QueueTypeOK
<1> QED
  BY <1>1, <1>2 DEF Store, PushFull, PushStillFull, PushAgain

(* apr_queue_pop takes the oldest item, or nothing yet. *)
LEMMA PopMoves ==
    ASSUME QueueTypeOK, NEW s \in Poppers, PopStep(s)
    PROVE  /\ UNCHANGED offer
           /\ \/ popper'[s] = "ok" /\ buf # << >> /\ buf' = Tail(buf) /\ got' = [got EXCEPT ![s] = Head(buf)]
              \/ popper'[s] # "ok" /\ UNCHANGED <<buf, got>>
<1>1. Take(s) \/ PopEmpty(s) \/ PopStillEmpty(s)
  BY DEF PopStep, PopEnter, PopWoken
<1>2. popper \in [Poppers -> PopStates]
  BY DEF QueueTypeOK
<1> QED
  BY <1>1, <1>2 DEF Take, PopEmpty, PopStillEmpty

(* How many threads fire an event when one of them changes what it fires. *)
LEMMA FiringMoves ==
    ASSUME Types, NEW c \in Pushers, NEW v, event' = [event EXCEPT ![c] = v], NEW e
    PROVE  /\ Cardinality(Firing(e)) \in Nat /\ Cardinality(Firing(e)') \in Nat
           /\ Cardinality(Firing(e)') + Same(event[c], e) = Cardinality(Firing(e)) + Same(v, e)
<1>1. /\ Firing(e) \in SUBSET Pushers /\ Firing(e)' \in SUBSET Pushers
      /\ \A t \in Pushers \ {c} : t \in Firing(e) <=> t \in Firing(e)'
      /\ (c \in Firing(e) <=> event[c] = e) /\ (c \in Firing(e)' <=> v = e)
  BY DEF Firing, Types
<1>2. /\ Cardinality(Firing(e)) \in Nat /\ Cardinality(Firing(e)') \in Nat
      /\ Cardinality(Firing(e)') + One(c \in Firing(e)) = Cardinality(Firing(e)) + One(c \in Firing(e)')
  BY <1>1, Sets, OneMoves, SMTT(30)
<1> QED
  BY <1>1, <1>2 DEF One, Same

Has(s, e) == disp[s] \in {"deliver", "call"} /\ got[s] = e

(* How many threads deliver an event when one of them moves. *)
LEMMA DeliveringMoves ==
    ASSUME NEW s \in Slots, \A t \in Slots \ {s} : disp'[t] = disp[t] /\ got'[t] = got[t], NEW e
    PROVE  /\ Cardinality(Delivering(e)) \in Nat /\ Cardinality(Delivering(e)') \in Nat
           /\ Cardinality(Delivering(e)') + One(Has(s, e)) = Cardinality(Delivering(e)) + One(Has(s, e)')
<1>1. /\ Delivering(e) \in SUBSET Slots /\ Delivering(e)' \in SUBSET Slots
      /\ \A t \in Slots \ {s} : t \in Delivering(e) <=> t \in Delivering(e)'
      /\ (s \in Delivering(e) <=> Has(s, e)) /\ (s \in Delivering(e)' <=> Has(s, e)')
  BY SMTT(30) DEF Delivering, Has
<1>2. /\ Cardinality(Delivering(e)) \in Nat /\ Cardinality(Delivering(e)') \in Nat
      /\ Cardinality(Delivering(e)') + One(s \in Delivering(e))
           = Cardinality(Delivering(e)) + One(s \in Delivering(e)')
  BY <1>1, Sets, OneMoves, SMTT(30)
<1> QED
  BY <1>1, <1>2, SMTT(30) DEF One

(* The owners of an event are counted in natural numbers. *)
LEMMA OwnersNat ==
    ASSUME NEW e
    PROVE  /\ Cardinality(Firing(e)) \in Nat /\ Cardinality(Delivering(e)) \in Nat
           /\ Cardinality(Firing(e)') \in Nat /\ Cardinality(Delivering(e)') \in Nat
<1>1. /\ Firing(e) \in SUBSET Pushers /\ Delivering(e) \in SUBSET Slots
      /\ Firing(e)' \in SUBSET Pushers /\ Delivering(e)' \in SUBSET Slots
  BY DEF Firing, Delivering
<1> QED
  BY <1>1, Sets, FS_Subset, FS_CardinalityType

Owned(e) == Cardinality(Firing(e)) + Count(e, buf) + Cardinality(Delivering(e)) + One(e \in destroyed)

(* OneOwner as an equation for each event. *)
LEMMA OwnerSum ==
    /\ OneOwner <=> \A e \in Events : Owned(e) = One(e \in fired)
    /\ OneOwner' <=> \A e \in Events : Owned(e)' = One(e \in fired')
  BY DEF OneOwner, Owned, One

(* How often an event is queued is a natural number. *)
LEMMA CountsNat ==
    ASSUME QueueTypeOK, NEW e
    PROVE  Count(e, buf) \in Nat
<1>1. /\ buf \in Seq(Items) /\ IsFiniteSet(1 .. Len(buf))
      /\ {i \in 1 .. Len(buf) : buf[i] = e} \in SUBSET (1 .. Len(buf))
  BY FS_Interval DEF QueueTypeOK
<1> QED
  BY <1>1, FS_Subset, FS_CardinalityType DEF Count

-----------------------------------------------------------------------------
(* The steps of switch_event_fire. *)

Rest ==
    /\ Types /\ LaunchInv /\ CountExact /\ NodeInv /\ ShutInv
    /\ QuietWhenDone /\ HandInv /\ OneOwner

(* An event is fired, or destroyed at once because the system stops. *)
LEMMA FireKeeps ==
    ASSUME QInv, Rest, NEW c \in Pushers, NEW e \in Events, Fire(c, e)
    PROVE  Rest'
<1>1. /\ Types /\ LaunchInv /\ CountExact /\ NodeInv /\ ShutInv
      /\ QuietWhenDone /\ HandInv /\ OneOwner
  BY DEF Rest
<1>2. /\ fire[c] = "idle" /\ e \notin fired /\ fired' = fired \cup {e}
      /\ \/ /\ fire' = [fire EXCEPT ![c] = "count"] /\ event' = [event EXCEPT ![c] = e]
            /\ UNCHANGED destroyed
         \/ destroyed' = destroyed \cup {e} /\ UNCHANGED <<fire, event>>
      /\ UNCHANGED <<queueVars, threadVars, launchVars, nodeVars, shutVars>>
  BY DEF Fire, CanFire
<1>3. /\ UNCHANGED <<disp, count, todo, soft, pending, bound, freed, systemRunning, shut, x, gaveUp>>
      /\ UNCHANGED <<buf, got, offer>>
  BY <1>2, SMTT(30) DEF queueVars, threadVars, launchVars, nodeVars, shutVars
<1>4. Types'
  BY <1>1, <1>2, <1>3 DEF Types, FirePlaces
<1>5. UNCHANGED <<Launching, Awaiting>>
  BY <1>1, <1>2, FireFrame, FireSame
<1>6. LaunchInv' /\ CountExact' /\ NodeInv' /\ ShutInv' /\ QuietWhenDone'
  BY <1>1, <1>3, <1>5, LaunchFrame, CountFrame, LoopSame, NodeFrame, ShutFrame, QuietFrame, ZenonT(30)
<1>7. HandInv'
  BY <1>1, <1>2, <1>3, Sets, SMTT(30) DEF HandInv, Types, FirePlaces
<1>8. OneOwner'
  <2> SUFFICES ASSUME NEW d \in Events PROVE Owned(d)' = One(d \in fired')
    BY OwnerSum, SMTT(30)
  <2>1. Owned(d) = One(d \in fired) /\ Count(d, buf') = Count(d, buf) /\ Delivering(d)' = Delivering(d)
    BY <1>1, <1>3, OwnerSum, SMTT(30) DEF Delivering
  <2>2. Count(d, buf) \in Nat /\ Cardinality(Delivering(d)) \in Nat /\ Cardinality(Firing(d)) \in Nat
    BY OwnersNat, CountsNat, SMTT(30) DEF QInv
  <2>3. CASE event' = [event EXCEPT ![c] = e] /\ UNCHANGED destroyed
    <3>1. Cardinality(Firing(d)') = Cardinality(Firing(d)) + Same(e, d)
      <4>1. event[c] = Null /\ Null # d
        BY <1>1, <1>2, Sets, Zenon DEF HandInv
      <4>2. /\ Cardinality(Firing(d)') + Same(event[c], d) = Cardinality(Firing(d)) + Same(e, d)
            /\ Cardinality(Firing(d)') \in Nat
        BY <1>1, <2>3, FiringMoves, ZenonT(30)
      <4> QED
        BY <4>1, <4>2 DEF Same
    <3> QED
      BY <1>2, <2>1, <2>2, <2>3, <3>1, SMTT(30) DEF Owned, One, Same
  <2>4. CASE destroyed' = destroyed \cup {e} /\ UNCHANGED event
    <3>1. Firing(d)' = Firing(d)
      BY <2>4 DEF Firing
    <3> QED
      BY <1>2, <2>1, <2>2, <2>4, <3>1, SMTT(30) DEF Owned, One
  <2> QED
    BY <1>2, <2>3, <2>4
<1> QED
  BY <1>4, <1>6, <1>7, <1>8 DEF Rest

(* PENDING and the length of the queue are looked at. *)
LEMMA FireCountKeeps ==
    ASSUME QInv, Rest, NEW c \in Pushers, FireCount(c)
    PROVE  Rest'
<1>1. /\ Types /\ LaunchInv /\ CountExact /\ NodeInv /\ ShutInv
      /\ QuietWhenDone /\ HandInv /\ OneOwner
  BY DEF Rest
<1>2. /\ fire[c] = "count" /\ UNCHANGED <<threadVars, soft, nodeVars, event, fired, destroyed, shutVars>>
      /\ \/ /\ WantsThread /\ fire' = [fire EXCEPT ![c] = "launch"] /\ pending' = pending + 1
            /\ UNCHANGED queueVars
         \/ fire' = [fire EXCEPT ![c] = "push"] /\ PushCall(c, event[c]) /\ UNCHANGED pending
  BY Zenon DEF FireCount
<1>3. /\ UNCHANGED <<disp, count, todo, soft, bound, freed, systemRunning, shut, x, gaveUp, buf, got>>
      /\ UNCHANGED <<event, fired, destroyed>>
  BY <1>2 DEF queueVars, threadVars, nodeVars, shutVars, PushCall
<1>4. NodeInv' /\ ShutInv' /\ QuietWhenDone' /\ OneOwner'
  <2>1. \A d \in Events : UNCHANGED Delivering(d)
    BY <1>3 DEF Delivering
  <2> QED
    BY <1>1, <1>3, <2>1, NodeFrame, ShutFrame, QuietFrame, OwnerFrame, ZenonT(30)
<1>5. UNCHANGED Looping
  BY <1>3, LoopSame
<1>6. CASE /\ WantsThread /\ fire' = [fire EXCEPT ![c] = "launch"] /\ pending' = pending + 1
           /\ UNCHANGED queueVars
  <2>1. Launching = {} /\ pending = 0 /\ soft + 1 < MaxDispatch
    BY <1>1, <1>6, NoneLaunching, SMTT(30) DEF WantsThread
  <2>2. Launching' = {c} /\ Awaiting' = {} /\ Awaiting = {}
    BY <1>1, <1>6, <2>1, SMTT(30) DEF Launching, Awaiting, Types
  <2>3. Types'
    BY <1>1, <1>3, <1>6, SMTT(30) DEF Types, FirePlaces
  <2>4. LaunchInv'
    BY <1>1, <1>3, <2>1, <2>2, SMTT(30) DEF LaunchInv
  <2>5. CountExact'
    <3>1. Cardinality(Launching') = 1
      BY <2>2, FS_Singleton, Zenon
    <3>2. count' = Cardinality(Looping')
      BY <1>1, <1>3, <1>5, NoneLaunching, SMTT(30)
    <3> QED
      BY <1>6, <2>1, <3>1, <3>2 DEF CountExact, Looping, Launching
  <2>6. HandInv'
    BY <1>1, <1>2, <1>3, <1>6, SMTT(30) DEF HandInv, queueVars, Types
  <2> QED
    BY <1>4, <2>3, <2>4, <2>5, <2>6, SMTT(30) DEF Rest
<1>7. CASE fire' = [fire EXCEPT ![c] = "push"] /\ PushCall(c, event[c]) /\ UNCHANGED pending
  <2>1. UNCHANGED <<Launching, Awaiting>>
    BY <1>1, <1>2, <1>7, FireFrame, ZenonT(30)
  <2>2. Types'
    BY <1>1, <1>3, <1>7, SMTT(30) DEF Types, FirePlaces
  <2>3. LaunchInv' /\ CountExact'
    BY <1>1, <1>3, <1>5, <1>7, <2>1, LaunchFrame, CountFrame, SMTT(30)
  <2>4. HandInv'
    <3>1. offer' = [offer EXCEPT ![c] = event[c]] /\ offer \in [Pushers -> Items \cup {NoItem}]
      BY <1>7, SMTT(30) DEF PushCall, QInv, QueueTypeOK
    <3> QED
      BY <1>1, <1>2, <1>3, <3>1, SMTT(30) DEF HandInv, Types
  <2> QED
    BY <1>4, <2>2, <2>3, <2>4 DEF Rest
<1> QED
  BY <1>2, <1>6, <1>7

(* The slot at SOFT_MAX_DISPATCH is free when a thread is to be launched. *)
LEMMA FreeSlot ==
    ASSUME Rest, NEW c \in Pushers, fire[c] = "launch"
    PROVE  soft \in Slots /\ disp[soft] = "none" /\ soft \in Nat /\ Awaiting = {}
<1>1. c \in Launching /\ Awaiting \subseteq Launching
  BY DEF Launching, Awaiting
<1>2. \A d \in Awaiting : d = c /\ fire[d] = "await"
  BY <1>1 DEF Rest, LaunchInv, Awaiting
<1>3. Awaiting = {}
  BY <1>2
<1> QED
  BY <1>3, Sets DEF Rest, LaunchInv, Types, Slots

(* A dispatch thread is created in the slot at SOFT_MAX_DISPATCH, or not. *)
LEMMA LaunchKeeps ==
    ASSUME QInv, Rest, NEW c \in Pushers, Launch(c)
    PROVE  Rest'
<1>1. /\ Types /\ LaunchInv /\ CountExact /\ NodeInv /\ ShutInv
      /\ QuietWhenDone /\ HandInv /\ OneOwner
  BY DEF Rest
<1>2. /\ fire[c] = "launch" /\ fire' = [fire EXCEPT ![c] = "await"]
      /\ disp' = [disp EXCEPT ![soft] = "start"] \/ UNCHANGED disp
      /\ UNCHANGED <<queueVars, count, todo, launchVars, nodeVars, event, fired, destroyed, shutVars>>
  BY DEF Launch
<1>3. /\ UNCHANGED <<count, todo, soft, pending, bound, freed, systemRunning, shut, x, gaveUp>>
      /\ UNCHANGED <<buf, got, offer, event, fired, destroyed>>
  BY <1>2, SMTT(30) DEF queueVars, launchVars, nodeVars, shutVars
<1>4. Launching' = Launching /\ c \in Launching /\ c \in Awaiting' /\ Awaiting \subseteq Launching
  BY <1>1, <1>2 DEF Launching, Awaiting, Types
<1>5. soft \in Slots /\ disp[soft] = "none" /\ soft \in Nat
  BY <1>2, FreeSlot, SMTT(30)
<1>6. /\ \A s \in Slots : disp'[s] = disp[s] \/ (s = soft /\ disp'[s] = "start")
      /\ disp' \in [Slots -> DispPlaces]
  BY <1>1, <1>2, SMTT(30) DEF Types, DispPlaces
<1>7. Types'
  BY <1>1, <1>2, <1>3, <1>6, SMTT(30) DEF Types, FirePlaces
<1>8. LaunchInv'
  BY <1>1, <1>3, <1>4, <1>6 DEF LaunchInv
<1>9. CountExact'
  <2>1. Looping' = Looping
    BY <1>5, <1>6, Zenon DEF Looping
  <2> QED
    BY <1>1, <1>3, <1>4, <2>1, CountFrame, Zenon
<1>10. NodeInv' /\ ShutInv' /\ QuietWhenDone'
  BY <1>1, <1>3, <1>5, <1>6, ZenonT(30) DEF NodeInv, UnboundQuiet, ShutInv, QuietWhenDone
<1>11. HandInv'
  BY <1>1, <1>2, <1>3, ZenonT(30) DEF HandInv, Types
<1>12. OneOwner'
  <2>1. \A e \in Events : UNCHANGED Delivering(e)
    BY <1>3, <1>5, <1>6, Zenon DEF Delivering
  <2> QED
    BY <1>1, <1>3, <2>1, OwnerFrame
<1> QED
  BY <1>7, <1>8, <1>9, <1>10, <1>11, <1>12, SMTT(30) DEF Rest

(* The launch is over: SOFT_MAX_DISPATCH and PENDING. *)
LEMMA LaunchedKeeps ==
    ASSUME QInv, Rest, NEW c \in Pushers, Launched(c)
    PROVE  Rest'
<1>1. /\ Types /\ LaunchInv /\ CountExact /\ NodeInv /\ ShutInv
      /\ QuietWhenDone /\ HandInv /\ OneOwner
  BY DEF Rest
<1>2. /\ fire[c] = "await" /\ fire' = [fire EXCEPT ![c] = "push"] /\ PushCall(c, event[c])
      /\ soft' = soft + 1 /\ pending' = pending - 1
      /\ UNCHANGED <<threadVars, nodeVars, event, fired, destroyed, shutVars>>
  BY DEF Launched
<1>3. /\ UNCHANGED <<disp, count, todo, bound, freed, systemRunning, shut, x, gaveUp, buf, got>>
      /\ UNCHANGED <<event, fired, destroyed>>
  BY <1>2 DEF threadVars, nodeVars, shutVars, PushCall
<1>4. c \in Launching /\ pending = 1 /\ soft + 1 < MaxDispatch
  <2>1. c \in Launching
    BY <1>2 DEF Launching
  <2> QED
    BY <1>1, <2>1, NoneLaunching DEF LaunchInv
<1>5. Launching' = {}
  <2>1. \A d \in Launching : d = c
    BY <1>1, <1>4, SMTT(30) DEF LaunchInv
  <2> QED
    BY <1>1, <1>2, <2>1 DEF Launching, Types
<1>6. Types'
  BY <1>1, <1>2, <1>3, <1>4, Sets, SMTT(30) DEF Types, FirePlaces
<1>7. LaunchInv'
  <2>1. ASSUME NEW s \in Slots, s >= soft + 1 PROVE disp[s] = "none"
    BY <1>1, <2>1, SMTT(30) DEF LaunchInv, Types, Slots
  <2> QED
    BY <1>2, <1>3, <1>5, <2>1, SMTT(30) DEF LaunchInv
<1>8. CountExact'
  <2>1. Cardinality(Launching') = 0
    BY <1>5, FS_EmptySet
  <2>2. count' = Cardinality(Looping')
    BY <1>1, <1>3, NoneLaunching, LoopSame, Zenon
  <2> QED
    BY <1>2, <1>4, <2>1, <2>2 DEF CountExact, Looping, Launching
<1>9. NodeInv' /\ ShutInv' /\ QuietWhenDone' /\ OneOwner'
  <2>1. \A d \in Events : UNCHANGED Delivering(d)
    BY <1>3, Zenon DEF Delivering
  <2> QED
    BY <1>1, <1>3, <2>1, NodeFrame, ShutFrame, QuietFrame, OwnerFrame, Zenon
<1>10. HandInv'
  <2>1. offer' = [offer EXCEPT ![c] = event[c]] /\ offer \in [Pushers -> Items \cup {NoItem}]
    BY <1>2 DEF PushCall, QInv, QueueTypeOK
  <2> QED
    BY <1>1, <1>2, <1>3, <2>1, SMTT(30) DEF HandInv, Types
<1> QED
  BY <1>6, <1>7, <1>8, <1>9, <1>10, SMTT(30) DEF Rest

(* The event passes to the queue when there is room. *)
LEMMA FirePushKeeps ==
    ASSUME QInv, Rest, NEW c \in Pushers, FirePush(c)
    PROVE  Rest'
<1>1. /\ Types /\ LaunchInv /\ CountExact /\ NodeInv /\ ShutInv
      /\ QuietWhenDone /\ HandInv /\ OneOwner
  BY DEF Rest
<1>2. /\ fire[c] = "push" /\ PushStep(c)
      /\ UNCHANGED <<threadVars, launchVars, nodeVars, fired, destroyed, shutVars>>
      /\ IF pusher'[c] = "ok"
         THEN fire' = [fire EXCEPT ![c] = "idle"] /\ event' = [event EXCEPT ![c] = Null]
         ELSE UNCHANGED <<fire, event>>
  BY DEF FirePush
<1>3. UNCHANGED <<disp, count, todo, soft, pending, bound, freed, systemRunning, shut, x, gaveUp>>
  BY <1>2 DEF threadVars, launchVars, nodeVars, shutVars
<1>4. /\ UNCHANGED <<got, offer>>
      /\ \/ pusher'[c] = "ok" /\ buf' = Append(buf, offer[c])
         \/ pusher'[c] # "ok" /\ buf' = buf
  BY <1>2, PushMoves DEF QInv
<1>5. UNCHANGED <<Launching, Awaiting>>
  BY <1>1, <1>2, FireFrame, FireSame, SMTT(30)
<1>6. Types'
  BY <1>1, <1>2, <1>3, SMTT(30) DEF Types, FirePlaces
<1>7. LaunchInv' /\ CountExact' /\ NodeInv' /\ ShutInv' /\ QuietWhenDone'
  BY <1>1, <1>3, <1>5, LaunchFrame, CountFrame, LoopSame, NodeFrame, ShutFrame, QuietFrame, SMTT(30)
<1>8. HandInv'
  BY <1>1, <1>2, <1>3, <1>4, SMTT(30) DEF HandInv, Types
<1>9. \A e \in Events : Delivering(e)' = Delivering(e)
  BY <1>3, <1>4 DEF Delivering
<1>10. CASE pusher'[c] # "ok"
  <2>1. OneOwner'
    BY <1>1, <1>2, <1>4, <1>9, <1>10, OwnerFrame, Zenon
  <2> QED
    BY <1>6, <1>7, <1>8, <2>1 DEF Rest
<1>11. CASE pusher'[c] = "ok"
  <2>1. /\ buf' = Append(buf, event[c]) /\ event' = [event EXCEPT ![c] = Null]
        /\ event[c] \in Items /\ buf \in Seq(Items)
    BY <1>1, <1>2, <1>4, <1>11, Sets, SMTT(30) DEF HandInv, Types, QInv, QueueTypeOK
  <2>2. OneOwner'
    <3> SUFFICES ASSUME NEW d \in Events PROVE Owned(d)' = One(d \in fired')
      BY OwnerSum
    <3>1. /\ Owned(d) = One(d \in fired) /\ Delivering(d)' = Delivering(d)
          /\ UNCHANGED <<destroyed, fired>>
      BY <1>1, <1>2, <1>9, OwnerSum, SMTT(30)
    <3>2. /\ Count(d, buf) \in Nat /\ Count(d, buf') \in Nat
          /\ Count(d, buf') = Count(d, buf) + Same(event[c], d)
      BY <2>1, CountAppend
    <3>3. /\ Cardinality(Firing(d)) \in Nat /\ Cardinality(Firing(d)') \in Nat
          /\ Cardinality(Firing(d)') + Same(event[c], d) = Cardinality(Firing(d)) + Same(Null, d)
      BY <1>1, <2>1, FiringMoves, Zenon
    <3>4. Same(Null, d) = 0 /\ Same(event[c], d) \in Nat
      BY Sets, SMTT(30) DEF Same
    <3> QED
      BY <3>1, <3>2, <3>3, <3>4, SMTT(30) DEF Owned, One
  <2> QED
    BY <1>6, <1>7, <1>8, <2>2, SMTT(30) DEF Rest
<1> QED
  BY <1>10, <1>11

-----------------------------------------------------------------------------
(* The steps of a dispatch thread. *)

(* A dispatch thread moves on from its slot. *)
LEMMA SlotMoves ==
    ASSUME Types, LaunchInv, NEW s \in Slots, NEW to \in DispPlaces \ {"none"},
           disp[s] # "none", disp' = [disp EXCEPT ![s] = to], UNCHANGED <<fire, soft>>
    PROVE  LaunchInv' /\ disp' \in [Slots -> DispPlaces]
<1>1. UNCHANGED <<Launching, Awaiting>>
  BY FireSame
<1> QED
  BY <1>1 DEF LaunchInv, Types

(* A thread inside its loop moves on inside it. *)
LEMMA LoopStays ==
    ASSUME Types, CountExact, NEW s \in Slots, NEW to, disp' = [disp EXCEPT ![s] = to],
           disp[s] \notin {"none", "start", "ended"}, to \notin {"none", "start", "ended"},
           UNCHANGED <<fire, count, pending>>
    PROVE  CountExact'
<1>1. Looping' = Looping
  BY DEF Looping, Types
<1>2. UNCHANGED Launching
  BY FireSame
<1> QED
  BY <1>1, <1>2, CountFrame, SMTT(30)

(* A thread that has no event before and after the step owns none. *)
LEMMA HandsEmpty ==
    ASSUME NEW s \in Slots, disp[s] \notin {"deliver", "call"}, disp'[s] \notin {"deliver", "call"},
           \A t \in Slots \ {s} : disp'[t] = disp[t] /\ got'[t] = got[t]
    PROVE  \A e \in Events : UNCHANGED Delivering(e)
  BY DEF Delivering

(* A new thread counts itself; one that has left its loop takes itself off. *)
LEMMA DispatchCounts ==
    ASSUME QInv, Rest, NEW s \in Slots, DispatchStart(s) \/ DispatchEnds(s)
    PROVE  Rest'
<1>1. /\ Types /\ LaunchInv /\ CountExact /\ NodeInv /\ ShutInv
      /\ QuietWhenDone /\ HandInv /\ OneOwner
  BY DEF Rest
<1>2. /\ \/ disp[s] = "start" /\ disp' = [disp EXCEPT ![s] = "test"] /\ count' = count + 1
         \/ disp[s] = "leave" /\ disp' = [disp EXCEPT ![s] = "ended"] /\ count' = count - 1
      /\ UNCHANGED <<queueVars, todo, launchVars, nodeVars, fireVars, destroyed, shutVars>>
  BY DEF DispatchStart, DispatchEnds
<1>3. /\ UNCHANGED <<todo, soft, pending, bound, freed, systemRunning, shut, x, gaveUp>>
      /\ UNCHANGED <<buf, got, offer, fire, event, fired, destroyed>>
  BY <1>2, SMTT(30) DEF queueVars, launchVars, nodeVars, fireVars, shutVars
<1>4. LaunchInv' /\ disp' \in [Slots -> DispPlaces]
  BY <1>1, <1>2, <1>3, SlotMoves, SMTT(30) DEF DispPlaces
<1>5. CountExact' /\ count' \in Nat
  <2>1. /\ count = Cardinality(Looping) /\ count \in Nat /\ pending <= 1
        /\ pending = Cardinality(Launching)
    BY <1>1, NoneLaunching DEF CountExact
  <2>2. count' = Cardinality(Looping') /\ count' \in Nat
    <3>1. CASE disp[s] = "start" /\ disp' = [disp EXCEPT ![s] = "test"] /\ count' = count + 1
      <4>1. /\ Cardinality(Looping') \in Nat
            /\ Cardinality(Looping') + One(disp[s] \notin {"none", "start", "ended"})
                 = Cardinality(Looping) + One("test" \notin {"none", "start", "ended"})
        BY <1>1, <3>1, LoopMoves, Zenon DEF Types
      <4> QED
        BY <2>1, <3>1, <4>1 DEF One
    <3>2. CASE disp[s] = "leave" /\ disp' = [disp EXCEPT ![s] = "ended"] /\ count' = count - 1
      <4>1. /\ Cardinality(Looping') \in Nat
            /\ Cardinality(Looping') + One(disp[s] \notin {"none", "start", "ended"})
                 = Cardinality(Looping) + One("ended" \notin {"none", "start", "ended"})
        BY <1>1, <3>2, LoopMoves, ZenonT(30) DEF Types
      <4> QED
        BY <2>1, <3>2, <4>1 DEF One
    <3> QED
      BY <1>2, <3>1, <3>2
  <2> QED
    BY <1>3, <2>1, <2>2, SMTT(30) DEF CountExact, Looping, Launching
<1>6. Types'
  BY <1>1, <1>3, <1>4, <1>5 DEF Types
<1>7. NodeInv' /\ ShutInv' /\ QuietWhenDone' /\ HandInv'
  BY <1>1, <1>2, <1>3, Zenon DEF NodeInv, UnboundQuiet, ShutInv, QuietWhenDone, HandInv, Types
<1>8. OneOwner'
  <2>1. \A e \in Events : UNCHANGED Delivering(e)
    BY <1>1, <1>2, <1>3, HandsEmpty, SMTT(30) DEF Types
  <2> QED
    BY <1>1, <1>3, <2>1, OwnerFrame, Zenon
<1> QED
  BY <1>4, <1>5, <1>6, <1>7, <1>8, SMTT(30) DEF Rest

(* SYSTEM_RUNNING is looked at before the pop. *)
LEMMA DispatchTestKeeps ==
    ASSUME QInv, Rest, NEW s \in Slots, DispatchTest(s)
    PROVE  Rest'
<1>1. /\ Types /\ LaunchInv /\ CountExact /\ NodeInv /\ ShutInv
      /\ QuietWhenDone /\ HandInv /\ OneOwner
  BY DEF Rest
<1>2. /\ disp[s] = "test"
      /\ \/ systemRunning /\ disp' = [disp EXCEPT ![s] = "pop"] /\ PopCall(s)
         \/ disp' = [disp EXCEPT ![s] = "leave"] /\ UNCHANGED queueVars
      /\ UNCHANGED <<count, todo, launchVars, nodeVars, fireVars, destroyed, shutVars>>
  BY SMTT(30) DEF DispatchTest
<1>3. /\ UNCHANGED <<count, todo, soft, pending, bound, freed, systemRunning, shut, x, gaveUp>>
      /\ UNCHANGED <<buf, offer, fire, event, fired, destroyed>>
  BY <1>2 DEF queueVars, launchVars, nodeVars, fireVars, shutVars, PopCall
<1>4. PICK to \in {"pop", "leave"} : disp' = [disp EXCEPT ![s] = to] /\ (to = "pop" => systemRunning)
  BY <1>2
<1>5. LaunchInv' /\ disp' \in [Slots -> DispPlaces]
  BY <1>1, <1>2, <1>3, SlotMoves, Zenon DEF DispPlaces
<1>6. CountExact'
  BY <1>1, <1>2, <1>3, LoopStays, ZenonT(30)
<1>7. Types'
  BY <1>1, <1>3, <1>5, SMTT(30) DEF Types
<1>8. \A t \in Slots \ {s} : got'[t] = got[t]
  BY <1>2, Sets DEF PopCall, queueVars, QInv, QueueTypeOK
<1>9. NodeInv' /\ ShutInv' /\ QuietWhenDone' /\ HandInv'
  BY <1>1, <1>2, <1>3, <1>4, <1>8, Zenon DEF NodeInv, UnboundQuiet, ShutInv, QuietWhenDone, HandInv, Types
<1>10. OneOwner'
  <2>1. \A e \in Events : UNCHANGED Delivering(e)
    BY <1>1, <1>2, <1>8, HandsEmpty, Zenon DEF Types
  <2> QED
    BY <1>1, <1>3, <2>1, OwnerFrame, Zenon
<1> QED
  BY <1>5, <1>6, <1>7, <1>9, <1>10, SMTT(30) DEF Rest

(* The pop goes on; with an event the thread goes on to deliver it. *)
LEMMA DispatchPopKeeps ==
    ASSUME QInv, Rest, NEW s \in Slots, DispatchPop(s)
    PROVE  Rest'
<1>1. /\ Types /\ LaunchInv /\ CountExact /\ NodeInv /\ ShutInv
      /\ QuietWhenDone /\ HandInv /\ OneOwner
  BY DEF Rest
<1>2. /\ disp[s] = "pop" /\ PopStep(s) /\ disp' = [disp EXCEPT ![s] = AfterPop(s)]
      /\ UNCHANGED <<count, todo, launchVars, nodeVars, fireVars, destroyed, shutVars>>
  BY DEF DispatchPop
<1>3. /\ UNCHANGED <<count, todo, soft, pending, bound, freed, systemRunning, shut, x, gaveUp>>
      /\ UNCHANGED <<fire, event, fired, destroyed>>
  BY <1>2, SMTT(30) DEF launchVars, nodeVars, fireVars, shutVars
<1>4. /\ UNCHANGED offer
      /\ \/ popper'[s] = "ok" /\ buf # << >> /\ buf' = Tail(buf) /\ got' = [got EXCEPT ![s] = Head(buf)]
         \/ popper'[s] # "ok" /\ UNCHANGED <<buf, got>>
  BY <1>2, Sets, PopMoves, SMTT(30) DEF QInv
<1>5. /\ got \in [Slots -> Items \cup {NoItem}] /\ buf \in Seq(Items)
      /\ buf # << >> => Head(buf) \in Items
  BY Sets DEF QInv, QueueTypeOK
<1>6. /\ AfterPop(s) \in {"test", "pop", "leave", "deliver"}
      /\ AfterPop(s) = "deliver" => popper'[s] = "ok" /\ got'[s] # Null
      /\ popper'[s] = "ok" => AfterPop(s) = IF got'[s] = Null THEN "leave" ELSE "deliver"
  BY SMTT(30) DEF AfterPop
<1> DEFINE to == AfterPop(s)
<1> HIDE DEF to
<1>7. /\ to \in {"test", "pop", "leave", "deliver"} /\ disp' = [disp EXCEPT ![s] = to]
      /\ to = "deliver" => popper'[s] = "ok" /\ got'[s] # Null
      /\ popper'[s] = "ok" => to = IF got'[s] = Null THEN "leave" ELSE "deliver"
  BY <1>2, <1>6 DEF to
<1>8. LaunchInv' /\ disp' \in [Slots -> DispPlaces]
  BY <1>1, <1>2, <1>3, <1>7, SlotMoves, Zenon DEF DispPlaces
<1>9. CountExact'
  BY <1>1, <1>2, <1>3, <1>7, LoopStays, ZenonT(30)
<1>10. Types'
  BY <1>1, <1>3, <1>8, SMTT(30) DEF Types
<1>11. \A t \in Slots \ {s} : got'[t] = got[t] /\ disp'[t] = disp[t]
  BY <1>4, <1>5, <1>7, SMTT(30) DEF Types
<1>12. disp'[s] = to /\ (popper'[s] = "ok" => got'[s] = Head(buf))
  BY <1>1, <1>4, <1>5, <1>7, SMTT(30) DEF Types
<1>13. NodeInv' /\ ShutInv' /\ QuietWhenDone'
  BY <1>1, <1>2, <1>3 DEF NodeInv, UnboundQuiet, ShutInv, QuietWhenDone
<1>14. HandInv'
  BY <1>1, <1>3, <1>4, <1>5, <1>7, <1>11, <1>12, Sets, Zenon DEF HandInv
<1>15. OneOwner'
  <2>1. CASE popper'[s] # "ok"
    <3>1. \A e \in Events : UNCHANGED Delivering(e)
      BY <1>2, <1>7, <1>11, <1>12, <2>1, HandsEmpty, ZenonT(30)
    <3> QED
      BY <1>1, <1>3, <1>4, <2>1, <3>1, OwnerFrame, SMTT(30)
  <2>2. CASE popper'[s] = "ok"
    <3> SUFFICES ASSUME NEW d \in Events PROVE Owned(d)' = One(d \in fired')
      BY OwnerSum, SMTT(30)
    <3>1. Owned(d) = One(d \in fired) /\ Firing(d)' = Firing(d)
      BY <1>1, <1>3, OwnerSum, SMTT(30) DEF Firing
    <3>2. Cardinality(Firing(d)) \in Nat
      BY OwnersNat
    <3>3. /\ Count(d, buf) \in Nat /\ Count(d, buf') \in Nat
          /\ Count(d, buf) = Count(d, buf') + Same(Head(buf), d)
      BY <1>4, <1>5, <2>2, CountTail, Zenon
    <3>4. /\ Cardinality(Delivering(d)) \in Nat /\ Cardinality(Delivering(d)') \in Nat
          /\ Cardinality(Delivering(d)') + One(Has(s, d)) = Cardinality(Delivering(d)) + One(Has(s, d)')
      BY <1>11, DeliveringMoves, Zenon
    <3>5. One(Has(s, d)) = 0 /\ One(Has(s, d)') = Same(Head(buf), d)
      BY <1>2, <1>7, <1>12, <2>2, Sets, ZenonT(30) DEF Has, One, Same
    <3> QED
      BY <1>3, <3>1, <3>2, <3>3, <3>4, <3>5, SMTT(30) DEF Owned, One, Same
  <2> QED
    BY <2>1, <2>2, SMTT(30)
<1> QED
  BY <1>8, <1>9, <1>10, <1>13, <1>14, <1>15, SMTT(30) DEF Rest

(* A dispatch thread destroys the event it has. *)
LEMMA DestroyOwns ==
    ASSUME Types, HandInv, OneOwner, NEW s \in Slots, disp[s] \in {"deliver", "call"},
           QueueTypeOK, disp' = [disp EXCEPT ![s] = "test"], destroyed' = destroyed \cup {got[s]},
           UNCHANGED <<got, buf, event, fired>>
    PROVE  OneOwner' /\ destroyed' \subseteq fired'
<1>1. ASSUME NEW d \in Events
      PROVE  Owned(d)' = One(d \in fired') /\ (d = got[s] => d \in fired)
  <2>1. /\ Owned(d) = One(d \in fired) /\ Firing(d)' = Firing(d)
        /\ Count(d, buf') = Count(d, buf) /\ fired' = fired
    BY OwnerSum, SMTT(30) DEF Firing
  <2>2. Cardinality(Firing(d)) \in Nat /\ Count(d, buf) \in Nat
    BY OwnersNat, CountsNat
  <2>3. /\ Cardinality(Delivering(d)) \in Nat /\ Cardinality(Delivering(d)') \in Nat
        /\ Cardinality(Delivering(d)') + One(Has(s, d)) = Cardinality(Delivering(d)) + One(Has(s, d)')
    <3>1. \A t \in Slots \ {s} : disp'[t] = disp[t] /\ got'[t] = got[t]
      BY SMTT(30) DEF Types
    <3> QED
      BY <3>1, DeliveringMoves, Zenon
  <2>4. One(Has(s, d)) = Same(got[s], d) /\ One(Has(s, d)') = 0
    BY SMTT(30) DEF Has, One, Same, Types
  <2>5. One(d \in destroyed) \in {0, 1} /\ One(d \in fired) \in {0, 1} /\ Same(got[s], d) \in {0, 1}
    BY ZenonT(30) DEF One, Same
  <2>6. Cardinality(Delivering(d)') + Same(got[s], d) = Cardinality(Delivering(d))
    <3>1. Cardinality(Delivering(d)') + Same(got[s], d) = Cardinality(Delivering(d)) + 0
      BY <2>3, <2>4, Zenon
    <3>2. Cardinality(Delivering(d)) + 0 = Cardinality(Delivering(d))
      BY <2>3, SMTT(30)
    <3> QED
      BY <3>1, <3>2, Zenon
  <2>7. PICK f, q, n, m, o, r, g :
            /\ f = Cardinality(Firing(d)) /\ q = Count(d, buf) /\ n = Cardinality(Delivering(d))
            /\ m = Cardinality(Delivering(d)') /\ o = One(d \in destroyed) /\ r = One(d \in fired)
            /\ g = Same(got[s], d)
    BY Zenon
  <2>8. /\ f \in Nat /\ q \in Nat /\ n \in Nat /\ m \in Nat
        /\ o \in {0, 1} /\ r \in {0, 1} /\ g \in {0, 1} /\ m + g = n
    BY <2>2, <2>3, <2>5, <2>6, <2>7, Zenon
  <2>9. f + q + n + o = r
    BY <2>1, <2>7, Zenon DEF Owned
  <2>10. Owned(d)' = f + q + m + One(d \in destroyed')
    BY <2>1, <2>7, Zenon DEF Owned
  <2>11. (g = 1 => r = 1 /\ f + q + m + 1 = r) /\ (g = 0 => f + q + m + o = r)
    BY <2>8, <2>9, SMTT(30)
  <2>12. CASE d = got[s]
    <3>1. g = 1 /\ One(d \in destroyed') = 1
      BY <2>7, <2>12, ZenonT(30) DEF Same, One
    <3>2. r = 1 /\ Owned(d)' = r
      BY <2>10, <2>11, <3>1, SMTT(30)
    <3>3. d \in fired
      <4>1. One(d \in fired) = 1
        BY <2>7, <3>2, Zenon
      <4> QED
        BY <4>1 DEF One
    <3> QED
      BY <2>7, <3>2, <3>3, ZenonT(30)
  <2>13. CASE d # got[s]
    <3>1. g = 0 /\ One(d \in destroyed') = o
      BY <2>7, <2>13, Zenon DEF Same, One
    <3>2. Owned(d)' = r
      BY <2>10, <2>11, <3>1, SMTT(30)
    <3> QED
      BY <2>7, <2>13, <3>2, Zenon
  <2> QED
    BY <2>12, <2>13, SMTT(30)
<1>2. got[s] \in Events
  BY DEF HandInv
<1>3. destroyed' \subseteq fired'
  BY <1>1, <1>2 DEF Types
<1> QED
  BY <1>1, <1>3, OwnerSum, SMTT(30)

(* switch_event_deliver begins, or only destroys the event. *)
LEMMA DeliverKeeps ==
    ASSUME QInv, Rest, NEW s \in Slots, Deliver(s) \/ DeliverEnds(s)
    PROVE  Rest'
<1>1. /\ Types /\ LaunchInv /\ CountExact /\ NodeInv /\ ShutInv
      /\ QuietWhenDone /\ HandInv /\ OneOwner
  BY DEF Rest
<1>2. /\ \/ /\ disp[s] = "deliver" /\ systemRunning /\ disp' = [disp EXCEPT ![s] = "call"]
            /\ todo' = [todo EXCEPT ![s] = bound] /\ UNCHANGED destroyed
         \/ /\ disp[s] = "deliver" \/ (disp[s] = "call" /\ todo[s] = {})
            /\ disp' = [disp EXCEPT ![s] = "test"]
            /\ destroyed' = destroyed \cup {got[s]} /\ UNCHANGED todo
      /\ UNCHANGED <<queueVars, count, launchVars, nodeVars, fireVars, shutVars>>
  BY Zenon DEF Deliver, DeliverEnds
<1>3. /\ UNCHANGED <<count, soft, pending, bound, freed, systemRunning, shut, x, gaveUp>>
      /\ UNCHANGED <<buf, got, offer, fire, event, fired>>
  BY <1>2 DEF queueVars, launchVars, nodeVars, fireVars, shutVars
<1>4. LaunchInv' /\ disp' \in [Slots -> DispPlaces]
  BY <1>1, <1>2, <1>3, SlotMoves, Zenon DEF DispPlaces
<1>5. CountExact'
  BY <1>1, <1>2, <1>3, LoopStays, ZenonT(30)
<1>6. NodeInv' /\ ShutInv' /\ QuietWhenDone' /\ todo' \in [Slots -> SUBSET Nodes]
  BY <1>1, <1>2, <1>3 DEF NodeInv, UnboundQuiet, ShutInv, QuietWhenDone, Types
<1>7. HandInv'
  BY <1>1, <1>2, <1>3, Zenon DEF HandInv, Types
<1>8. OneOwner' /\ destroyed' \subseteq fired'
  <2>1. CASE disp[s] = "deliver" /\ disp' = [disp EXCEPT ![s] = "call"] /\ UNCHANGED destroyed
    <3>1. \A e \in Events : UNCHANGED Delivering(e)
      BY <1>3, <2>1 DEF Delivering, Types
    <3> QED
      BY <1>1, <1>3, <2>1, <3>1, OwnerFrame, SMTT(30) DEF Types
  <2>2. CASE /\ disp[s] \in {"deliver", "call"} /\ disp' = [disp EXCEPT ![s] = "test"]
             /\ destroyed' = destroyed \cup {got[s]}
    BY <1>1, <1>3, <2>2, DestroyOwns, ZenonT(30) DEF QInv
  <2> QED
    BY <1>2, <2>1, <2>2, SMTT(30)
<1>9. Types'
  BY <1>1, <1>3, <1>4, <1>6, <1>8, SMTT(30) DEF Types
<1> QED
  BY <1>4, <1>5, <1>6, <1>7, <1>8, <1>9 DEF Rest

-----------------------------------------------------------------------------
(* Callbacks and nodes. *)

(* A callback returns; nodes are bound and unbound while nobody reads. *)
LEMMA NodesKeep ==
    ASSUME QInv, Rest,
           \/ \E s \in Slots, n \in Nodes : CallbackReturns(s, n)
           \/ \E n \in Nodes : Bind(n)
           \/ \E ns \in SUBSET Nodes : Unbind(ns)
    PROVE  Rest'
<1>1. /\ Types /\ LaunchInv /\ CountExact /\ NodeInv /\ ShutInv
      /\ QuietWhenDone /\ HandInv /\ OneOwner
  BY DEF Rest
<1>2. UNCHANGED <<queueVars, count, disp, launchVars, fireVars, destroyed, shutVars>>
  BY Zenon DEF CallbackReturns, Bind, Unbind, threadVars
<1>3. /\ UNCHANGED <<count, disp, soft, pending, systemRunning, shut, x, gaveUp>>
      /\ UNCHANGED <<buf, got, offer, fire, event, fired, destroyed>>
  BY <1>2, SMTT(30) DEF queueVars, launchVars, fireVars, shutVars
<1>4. LaunchInv' /\ CountExact' /\ ShutInv' /\ QuietWhenDone' /\ HandInv'
  BY <1>1, <1>3, LaunchFrame, CountFrame, FireSame, LoopSame, ShutFrame, QuietFrame, HandFrame, SMTT(30)
<1>5. OneOwner'
  <2>1. \A e \in Events : UNCHANGED Delivering(e)
    BY <1>3, Zenon DEF Delivering
  <2> QED
    BY <1>1, <1>3, <2>1, OwnerFrame, SMTT(30)
<1>6. /\ todo' \in [Slots -> SUBSET Nodes] /\ bound' \subseteq Nodes /\ freed' \subseteq Nodes
      /\ bound' \cap freed' = {} /\ NodeInv'
  <2>1. ASSUME NEW s \in Slots, NEW n \in Nodes, CallbackReturns(s, n)
        PROVE  /\ todo' \in [Slots -> SUBSET Nodes] /\ NodeInv' /\ UNCHANGED <<bound, freed>>
    BY <1>1, <2>1 DEF CallbackReturns, NodeInv, UnboundQuiet, Types, nodeVars
  <2>2. ASSUME Readers = {} PROVE \A s \in Slots : todo[s] = {}
    BY <1>1, <2>2, Zenon DEF NodeInv, Readers
  <2>3. ASSUME NEW n \in Nodes, Bind(n)
        PROVE  /\ UNCHANGED <<todo, freed>> /\ bound' = bound \cup {n} /\ n \notin freed /\ NodeInv'
    BY <1>1, <2>3, Zenon DEF Bind, threadVars, NodeInv, UnboundQuiet
  <2>4. ASSUME NEW ns \in SUBSET Nodes, Unbind(ns)
        PROVE  /\ UNCHANGED todo /\ bound' = bound \ ns /\ freed' = freed \cup ns /\ NodeInv'
    <3>1. UNCHANGED todo /\ bound' = bound \ ns /\ freed' = freed \cup ns /\ \A s \in Slots : todo[s] = {}
      BY <2>2, <2>4, ZenonT(30) DEF Unbind, threadVars
    <3> QED
      BY <3>1, ZenonT(30) DEF NodeInv, UnboundQuiet
  <2>5. CASE \E s \in Slots, n \in Nodes : CallbackReturns(s, n)
    BY <1>1, <2>1, <2>5, SMTT(30) DEF Types
  <2>6. CASE \E n \in Nodes : Bind(n)
    BY <1>1, <2>3, <2>6, SMTT(30) DEF Types
  <2>7. CASE \E ns \in SUBSET Nodes : Unbind(ns)
    BY <1>1, <2>4, <2>7, SMTT(30) DEF Types
  <2> QED
    BY <2>5, <2>6, <2>7, SMTT(30)
<1>7. Types'
  BY <1>1, <1>3, <1>6, SMTT(30) DEF Types
<1> QED
  BY <1>4, <1>5, <1>6, <1>7, SMTT(30) DEF Rest

-----------------------------------------------------------------------------
(* The steps of switch_event_shutdown. *)

(* SYSTEM_RUNNING, the NULLs, the interrupt, the joins and the wait. *)
LEMMA ShutKeeps ==
    ASSUME QInv, Rest,
           ShutStart \/ ShutNull \/ ShutInterrupt \/ ShutJoin \/ ShutJoined \/ ShutWait
    PROVE  Rest'
<1>1. /\ Types /\ LaunchInv /\ CountExact /\ NodeInv /\ ShutInv
      /\ QuietWhenDone /\ HandInv /\ OneOwner
  BY SMTT(30) DEF Rest
<1>2. UNCHANGED <<shutOnly, destroyed>>
  BY DEF ShutStart, ShutNull, ShutInterrupt, ShutJoin, ShutJoined, ShutWait
<1>3. /\ UNCHANGED <<count, disp, todo, soft, pending, bound, freed>>
      /\ UNCHANGED <<fire, event, fired, destroyed>>
  BY <1>2, SMTT(30) DEF shutOnly, threadVars, launchVars, nodeVars, fireVars
<1>4. UNCHANGED <<got, offer>> /\ (buf' = buf \/ buf' = Append(buf, Null))
  BY DEF ShutStart, ShutNull, ShutInterrupt, ShutJoin, ShutJoined, ShutWait, TryPush,
       InterruptAll, queueVars
<1>5. LaunchInv' /\ CountExact' /\ NodeInv' /\ HandInv'
  BY <1>1, <1>3, <1>4, LaunchFrame, CountFrame, FireSame, LoopSame, NodeFrame, HandFrame, Zenon
<1>6. OneOwner'
  <2>1. \A d \in Events : Firing(d)' = Firing(d) /\ Delivering(d)' = Delivering(d)
    BY <1>3, <1>4 DEF Firing, Delivering
  <2>2. ASSUME NEW d \in Events PROVE Count(d, buf') = Count(d, buf)
    <3>1. buf \in Seq(Items) /\ Null \in Items /\ Null # d
      BY Sets DEF QInv, QueueTypeOK
    <3>2. Count(d, Append(buf, Null)) = Count(d, buf) + Same(Null, d) /\ Count(d, buf) \in Nat
      BY <3>1, CountAppend
    <3>3. Same(Null, d) = 0
      BY <3>1 DEF Same
    <3>4. Count(d, Append(buf, Null)) = Count(d, buf)
      BY <3>2, <3>3, SMTT(30)
    <3> QED
      BY <1>4, <3>4, Zenon
  <2>3. \A d \in Events : Owned(d)' = Owned(d)
    BY <1>3, <2>1, <2>2, SMTT(30) DEF Owned
  <2> QED
    BY <1>1, <1>3, <2>3, OwnerSum, ZenonT(30)
<1>7. count \in Nat /\ count <= MaxDispatch /\ (count = 0 <=> Looping = {}) /\ MaxDispatch \in Nat
  BY <1>1, NoneLaunching, Sets, SMTT(30)
<1>8. /\ systemRunning' \in BOOLEAN /\ x' \in 0 .. MaxDispatch /\ gaveUp' \in BOOLEAN
      /\ shut' \in {"null", "interrupt", "join", "joining", "wait", "drain"}
      /\ ~systemRunning' /\ (shut' = "joining" => x' \in Slots)
      /\ shut' = "drain" => gaveUp' = (count # 0)
  <2>1. CASE ShutStart
    <3>1. systemRunning' = FALSE /\ x' = 0 /\ shut' = "null" /\ UNCHANGED gaveUp
      BY <2>1, SMTT(30) DEF ShutStart
    <3>2. x' \in 0 .. MaxDispatch /\ gaveUp' \in BOOLEAN
      BY <1>1, <1>7, <3>1, SMTT(30) DEF Types
    <3> QED
      BY <3>1, <3>2, Zenon
  <2>2. CASE ShutNull
    BY <1>1, <2>2, <1>7, SMTT(30) DEF ShutNull, ShutInv, Types
  <2>3. CASE ShutInterrupt
    BY <1>1, <2>3, <1>7, SMTT(30) DEF ShutInterrupt, ShutInv, Types
  <2>4. CASE ShutJoin
    BY <1>1, <2>4, <1>7, SMTT(30) DEF ShutJoin, ShutInv, Types, Slots
  <2>5. CASE ShutJoined
    BY <1>1, <2>5, <1>7, SMTT(30) DEF ShutJoined, ShutInv, Types, Slots
  <2>6. CASE ShutWait
    BY <1>1, <2>6, SMTT(30) DEF ShutWait, ShutInv, Types
  <2> QED
    BY <2>1, <2>2, <2>3, <2>4, <2>5, <2>6, SMTT(30)
<1>9. Types' /\ ShutInv'
  BY <1>1, <1>3, <1>8, SMTT(30) DEF Types, ShutInv
<1>10. QuietWhenDone'
  <2>1. ASSUME shut' \in {"drain", "done"}, ~gaveUp' PROVE Looping = {}
    BY <1>7, <1>8, <2>1, SMTT(30)
  <2> QED
    BY <1>3, <2>1 DEF QuietWhenDone, Looping
<1> QED
  BY <1>5, <1>6, <1>9, <1>10 DEF Rest

(* What is left in the queue is destroyed. *)
LEMMA ShutDrainKeeps ==
    ASSUME QInv, Rest, ShutDrain
    PROVE  Rest'
<1>1. /\ Types /\ LaunchInv /\ CountExact /\ NodeInv /\ ShutInv
      /\ QuietWhenDone /\ HandInv /\ OneOwner
  BY DEF Rest
<1>2. /\ shut = "drain" /\ shut' \in {"drain", "done"} /\ UNCHANGED <<shutOnly, systemRunning, x, gaveUp>>
      /\ \/ UNCHANGED <<queueVars, destroyed>>
         \/ TryPop /\ destroyed' = destroyed \cup ({Head(buf)} \ {Null})
  BY DEF ShutDrain
<1>3. /\ UNCHANGED <<count, disp, todo, soft, pending, bound, freed, systemRunning, x, gaveUp>>
      /\ UNCHANGED <<fire, event, fired>>
  BY <1>2 DEF shutOnly, threadVars, launchVars, nodeVars, fireVars
<1>4. UNCHANGED <<got, offer>>
  BY <1>2 DEF TryPop, queueVars
<1>5. LaunchInv' /\ CountExact' /\ NodeInv' /\ HandInv'
  BY <1>1, <1>3, <1>4, LaunchFrame, CountFrame, FireSame, LoopSame, NodeFrame, HandFrame, Zenon
<1>6. ShutInv' /\ QuietWhenDone'
  BY <1>1, <1>2, <1>3, SMTT(30) DEF ShutInv, QuietWhenDone
<1>7. \A d \in Events : Firing(d)' = Firing(d) /\ Delivering(d)' = Delivering(d)
  BY <1>3, <1>4, SMTT(30) DEF Firing, Delivering
<1>8. OneOwner' /\ destroyed' \subseteq fired'
  <2>1. CASE UNCHANGED <<queueVars, destroyed>>
    <3>1. UNCHANGED <<event, buf, destroyed, fired>> /\ destroyed \subseteq fired
      BY <1>1, <1>3, <2>1, SMTT(30) DEF queueVars, Types
    <3> QED
      BY <1>1, <1>7, <3>1, OwnerFrame, ZenonT(30)
  <2>2. CASE TryPop /\ destroyed' = destroyed \cup ({Head(buf)} \ {Null})
    <3>1. buf # << >> /\ buf' = Tail(buf) /\ buf \in Seq(Items) /\ Head(buf) \in Items
      BY <2>2 DEF TryPop, QInv, QueueTypeOK
    <3>2. ASSUME NEW d \in Events
          PROVE  Owned(d)' = One(d \in fired') /\ (d = Head(buf) => d \in fired)
      <4>1. Owned(d) = One(d \in fired) /\ Firing(d)' = Firing(d) /\ Delivering(d)' = Delivering(d)
        BY <1>1, <1>7, OwnerSum, SMTT(30)
      <4>2. Cardinality(Firing(d)) \in Nat /\ Cardinality(Delivering(d)) \in Nat
        BY OwnersNat, SMTT(30)
      <4>3. /\ Count(d, buf) \in Nat /\ Count(d, buf') \in Nat
            /\ Count(d, buf) = Count(d, buf') + Same(Head(buf), d)
        BY <3>1, CountTail, SMTT(30)
      <4>4. d # Null
        BY Sets, SMTT(30)
      <4>5. CASE d = Head(buf)
        <5>1. Same(Head(buf), d) = 1 /\ d \in destroyed'
          BY <2>2, <4>4, <4>5, SMTT(30) DEF Same
        <5> QED
          BY <1>3, <4>1, <4>2, <4>3, <5>1, SMTT(30) DEF Owned, One
      <4>6. CASE d # Head(buf)
        <5>1. Same(Head(buf), d) = 0 /\ (d \in destroyed' <=> d \in destroyed)
          BY <2>2, <4>6, SMTT(30) DEF Same
        <5> QED
          BY <1>3, <4>1, <4>3, <4>6, <5>1, SMTT(30) DEF Owned, One
      <4> QED
        BY <4>5, <4>6, SMTT(30)
    <3>3. destroyed' \subseteq fired'
      BY <1>1, <1>3, <2>2, <3>1, <3>2, Sets, SMTT(30) DEF Types
    <3> QED
      BY <3>2, <3>3, OwnerSum, SMTT(30)
  <2> QED
    BY <1>2, <2>1, <2>2
<1>9. Types'
  BY <1>1, <1>2, <1>3, <1>8, SMTT(30) DEF Types
<1> QED
  BY <1>5, <1>6, <1>8, <1>9 DEF Rest

-----------------------------------------------------------------------------
(* The invariant is inductive. *)

(* The invariant is that of the queue, and that of the rest. *)
LEMMA InvParts == EInv <=> QInv /\ ~terminated /\ Rest
  BY TypeParts DEF EInv, Rest, QInv

(* The invariant holds when the first dispatch threads have been launched. *)
THEOREM InitInv == Init => EInv
<1> SUFFICES ASSUME Init PROVE EInv
  OBVIOUS
<1>1. QInv /\ ~terminated
  <2>1. QueueInit
    BY DEF Init
  <2>2. terminated = FALSE
    BY <2>1, SMTT(30) DEF QueueInit
  <2> QED
    BY <2>1, <2>2, InitQInv, SMTT(30)
<1>2. /\ systemRunning = TRUE /\ count = Initial /\ soft = Initial /\ pending = 0
      /\ \A s \in Slots : /\ s < Initial => disp[s] = "test"
                          /\ ~(s < Initial) => disp[s] = "none"
                          /\ todo[s] = {}
      /\ disp \in [Slots -> DispPlaces] /\ todo \in [Slots -> SUBSET Nodes]
      /\ \A c \in Pushers : fire[c] = "idle" /\ event[c] = Null
      /\ fire \in [Pushers -> FirePlaces] /\ event \in [Pushers -> Events \cup {Null}]
      /\ bound = {} /\ freed = {} /\ fired = {} /\ destroyed = {}
      /\ shut = "up" /\ x = 0 /\ gaveUp = FALSE /\ buf = << >>
  BY SMTT(30) DEF Init, QueueInit, DispPlaces, FirePlaces
<1>3. Launching = {} /\ Looping = 0 .. Initial - 1
  BY <1>2, Sets, SMTT(30) DEF Launching, Looping, Slots
<1>4. Cardinality(Looping) = Initial /\ Cardinality(Launching) = 0
  BY <1>3, Sets, FS_Interval, SMTT(30)
<1>5. Types
  <2>1. systemRunning \in BOOLEAN /\ gaveUp \in BOOLEAN
    BY <1>2, Zenon
  <2>2. count \in Nat /\ soft \in Initial .. MaxDispatch - 1 /\ pending \in Nat /\ x \in 0 .. MaxDispatch
    BY <1>2, Sets, SMTT(30)
  <2> QED
    BY <1>2, <2>1, <2>2 DEF Types
<1>6. LaunchInv /\ NodeInv /\ ShutInv /\ HandInv /\ QuietWhenDone
  <2>1. \A s \in Slots : s >= Initial => disp[s] = "none"
    BY <1>2, Sets, SMTT(30) DEF Slots
  <2>2. LaunchInv
    BY <1>2, <1>3, <2>1, SMTT(30) DEF LaunchInv
  <2>3. NodeInv /\ HandInv
    BY <1>2, SMTT(30) DEF NodeInv, UnboundQuiet, HandInv
  <2> QED
    BY <1>2, <2>2, <2>3, SMTT(30) DEF ShutInv, QuietWhenDone
<1>7. CountExact
  BY <1>2, <1>4, SMTT(30) DEF CountExact, Looping, Launching
<1>8. OneOwner
  <2> SUFFICES ASSUME NEW e \in Events PROVE Owned(e) = One(e \in fired)
    BY OwnerSum, SMTT(30)
  <2>1. Firing(e) = {} /\ {i \in 1 .. Len(buf) : buf[i] = e} = {}
    <3>1. e # Null /\ Len(buf) = 0 /\ \A c \in Pushers : event[c] = Null
      BY <1>2, Sets, SMTT(30)
    <3> QED
      BY <3>1, SMTT(30) DEF Firing
  <2>2. Delivering(e) = {}
    <3>1. \A s \in Slots : disp[s] \in {"test", "none"}
      BY <1>2
    <3> QED
      BY <3>1, SMTT(30) DEF Delivering
  <2>3. Cardinality(Firing(e)) = 0 /\ Cardinality(Delivering(e)) = 0 /\ Count(e, buf) = 0
    BY <2>1, <2>2, FS_EmptySet, Zenon DEF Count
  <2> QED
    BY <1>2, <2>3, SMTT(30) DEF Owned, One
<1> QED
  BY <1>1, <1>5, <1>6, <1>7, <1>8, InvParts, SMTT(30) DEF Rest

(* Every step keeps the invariant. *)
THEOREM StepInv == EInv /\ [Next]_vars => EInv'
<1> SUFFICES ASSUME EInv, [Next]_vars PROVE EInv'
  OBVIOUS
<1>1. QInv /\ ~terminated /\ Rest /\ Types
  BY InvParts DEF Rest
<1>2. QInv' /\ ~terminated'
  BY <1>1, QueueStep
<1>3. ASSUME NEW c \in Pushers, FireStep(c) \/ \E e \in Events : Fire(c, e) PROVE Rest'
  BY <1>1, <1>3, FireKeeps, FireCountKeeps, LaunchKeeps, LaunchedKeeps, FirePushKeeps, Zenon
     DEF FireStep
<1>4. ASSUME NEW s \in Slots, DispatchStep(s) PROVE Rest'
  BY <1>1, <1>4, DispatchCounts, DispatchTestKeeps, DispatchPopKeeps, DeliverKeeps, NodesKeep, Zenon
     DEF DispatchStep
<1>5. ASSUME ShutStart \/ ShutStep PROVE Rest'
  BY <1>1, <1>5, ShutKeeps, ShutDrainKeeps, SMTT(30) DEF ShutStep
<1>6. ASSUME UNCHANGED vars PROVE Rest'
  <2>1. /\ UNCHANGED <<systemRunning, count, soft, pending, disp, todo, bound, freed, fire, event>>
        /\ UNCHANGED <<fired, destroyed, shut, x, gaveUp, buf, got, offer>>
    BY <1>6, SMTT(30) DEF vars, queueVars, threadVars, launchVars, nodeVars, fireVars, shutVars
  <2>2. Types'
    BY <1>1, <2>1 DEF Types
  <2>3. /\ LaunchInv' /\ CountExact' /\ NodeInv' /\ ShutInv' /\ QuietWhenDone' /\ HandInv'
    BY <1>1, <2>1, LaunchFrame, CountFrame, FireSame, LoopSame, NodeFrame, ShutFrame, QuietFrame,
       HandFrame, Zenon DEF Rest
  <2>4. OneOwner'
    <3>1. \A e \in Events : UNCHANGED Delivering(e)
      BY <2>1 DEF Delivering
    <3> QED
      BY <1>1, <2>1, <3>1, OwnerFrame, SMTT(30) DEF Rest
  <2> QED
    BY <2>2, <2>3, <2>4, SMTT(30) DEF Rest
<1>7. Rest'
  BY <1>1, <1>3, <1>4, <1>5, <1>6, NodesKeep, ZenonT(30) DEF Next
<1>8. EInv' <=> QInv' /\ ~terminated' /\ Rest'
  <2>1. TypeOK' <=> QueueTypeOK' /\ ~terminated' /\ Types'
    BY DEF TypeOK, Types, DispPlaces, FirePlaces
  <2> QED
    BY <2>1, SMTT(30) DEF EInv, Rest, QInv
<1> QED
  BY <1>2, <1>7, <1>8

(* The invariant holds in every state of the event system. *)
THEOREM Invariance == Spec => []EInv
  BY InitInv, StepInv, PTL DEF Spec

-----------------------------------------------------------------------------
(* An event that was fired has one owner until it is destroyed, whichever of
   the threads that fire, the queue, the dispatch threads and the shutdown's
   drain it passes through. *)
THEOREM OwnedOnce == Spec => []OneOwner
  BY Invariance, PTL DEF EInv

(* A node that switch_event_unbind took out is on no dispatch thread's list:
   the write lock waits for those that deliver. *)
THEOREM NoCallAfterUnbind == Spec => []UnboundQuiet
<1>1. EInv => UnboundQuiet
  BY DEF EInv, NodeInv
<1> QED
  BY <1>1, Invariance, PTL

(* DISPATCH_THREAD_COUNT is the number of threads in their loop, and PENDING
   lets one thread at a time into switch_event_launch_dispatch_threads,
   however many fire. *)
THEOREM CountsExact == Spec => []CountExact
  BY Invariance, PTL DEF EInv

(* After a shutdown that has waited for the threads no callback is called. *)
THEOREM ShutdownQuiet == Spec => []QuietWhenDone
  BY Invariance, PTL DEF EInv

(* The types hold; among them, that a launch stays within MAX_DISPATCH and that
   the shutdown joins no handle beyond them. *)
THEOREM TypesHold == Spec => []TypeOK
  BY Invariance, PTL DEF EInv
=============================================================================
