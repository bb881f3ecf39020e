-------------------------- MODULE EventBus_proofs --------------------------
(***************************************************************************)
(* From the invariants of EventDispatch_proofs, for the same constants:    *)
(* the NULLs that a shutdown pushes are enough to end every dispatch       *)
(* thread, and EventDispatch implements EventBus.                          *)
(***************************************************************************)
EXTENDS EventDispatch_proofs

-----------------------------------------------------------------------------
(* The NULLs of the shutdown. *)

Popping == {s \in Slots : disp[s] = "pop"}
InPop == {"enter", "wait", "woken"}

(* Who is inside the queue's pop is a dispatch thread inside its own. *)
PopPlaces == \A s \in Slots : popper[s] \in InPop => disp[s] = "pop"

(* While none has ended, the NULLs in the queue and those still to come are
   enough for the threads that pop. *)
NullInv ==
    shut = "null" /\ (\A s \in Slots : disp[s] # "ended")
        => Cardinality(Popping) + x <= Len(buf) + count

NInv == EInv /\ PopPlaces /\ NullInv

(* How many threads pop when one of them moves. *)
LEMMA PoppingMoves ==
    ASSUME disp \in [Slots -> DispPlaces], NEW s \in Slots, NEW to,
           disp' = [disp EXCEPT ![s] = to]
    PROVE  /\ Cardinality(Popping) \in Nat /\ Cardinality(Popping') \in Nat
           /\ Cardinality(Popping') + One(disp[s] = "pop") = Cardinality(Popping) + One(to = "pop")
<1>1. /\ Popping \in SUBSET Slots /\ Popping' \in SUBSET Slots
      /\ \A t \in Slots \ {s} : t \in Popping <=> t \in Popping'
      /\ (s \in Popping <=> disp[s] = "pop") /\ (s \in Popping' <=> to = "pop")
  BY DEF Popping
<1>2. /\ Cardinality(Popping) \in Nat /\ Cardinality(Popping') \in Nat
      /\ Cardinality(Popping') + One(s \in Popping) = Cardinality(Popping) + One(s \in Popping')
  BY <1>1, Sets, OneMoves
<1> QED
  BY <1>1, <1>2 DEF One

(* A thread that sleeps in the queue has not been given an item: when there is
   one for each that pops, none sleeps. *)
LEMMA NoneSleeps ==
    ASSUME QInv, PopPlaces, Cardinality(Popping) <= Len(buf)
    PROVE  In(popper, "wait") = {}
<1> SUFFICES ASSUME In(popper, "wait") # {} PROVE FALSE
  OBVIOUS
<1>1. popper \in [Slots -> PopStates] /\ buf \in Seq(Items) /\ Len(buf) \in Nat
  BY Sets DEF QInv, QueueTypeOK
<1>2. Len(buf) <= Cardinality(In(popper, "woken"))
  BY DEF QInv, NoLostWakeup
<1>3. PICK s \in In(popper, "wait") : TRUE
  OBVIOUS
<1>4. /\ In(popper, "woken") \in SUBSET (Popping \ {s}) /\ s \in Popping
      /\ Popping \in SUBSET Slots
  BY <1>1 DEF In, Popping, PopPlaces, InPop
<1>5. IsFiniteSet(Popping) /\ IsFiniteSet(Popping \ {s})
  BY <1>4, Sets, FS_Subset
<1>6. /\ Cardinality(Popping \ {s}) = Cardinality(Popping) - 1 /\ Cardinality(Popping) \in Nat
  BY <1>4, <1>5, FS_RemoveElement, FS_CardinalityType
<1>7. /\ Cardinality(In(popper, "woken")) <= Cardinality(Popping \ {s})
      /\ Cardinality(In(popper, "woken")) \in Nat
  BY <1>4, <1>5, FS_Subset, FS_CardinalityType
<1> QED
  BY <1>2, <1>6, <1>7

(* A step in which nobody begins, goes on with or ends a pop. *)
Calm ==
    /\ \/ UNCHANGED disp
       \/ \E s \in Slots, to \in DispPlaces :
             disp[s] # "pop" /\ to # "pop" /\ disp' = [disp EXCEPT ![s] = to]
    /\ UNCHANGED popper \/ Signal(popper, popper') \/ popper' = Broadcast(popper)
    /\ UNCHANGED buf \/ shut = "drain" \/ \E i \in Items : buf' = Append(buf, i)

(* Every step is calm but two: a thread calls switch_queue_pop, or goes on
   inside it. *)
LEMMA CalmOrPop ==
    ASSUME EInv, [Next]_vars
    PROVE  Calm \/ \E s \in Slots : DispatchPop(s) \/ (DispatchTest(s) /\ systemRunning)
<1>1. QInv /\ Rest /\ Types
  BY InvParts DEF Rest
<1>2. ASSUME UNCHANGED <<disp, queueVars>> PROVE Calm
  BY <1>2 DEF Calm, queueVars
<1>3. ASSUME NEW c \in Pushers, FireStep(c) PROVE Calm
  <2>1. CASE FireCount(c) \/ Launched(c)
    BY <2>1 DEF FireCount, Launched, Calm, PushCall, queueVars, threadVars
  <2>2. CASE Launch(c)
    <3>1. soft \in Slots /\ disp[soft] = "none"
      BY <1>1, <2>2, FreeSlot DEF Launch
    <3>2. \/ UNCHANGED disp
          \/ \E s \in Slots, to \in DispPlaces :
                disp[s] # "pop" /\ to # "pop" /\ disp' = [disp EXCEPT ![s] = to]
      BY <2>2, <3>1 DEF Launch, DispPlaces
    <3> QED
      BY <2>2, <3>2 DEF Launch, Calm, queueVars
  <2>3. CASE FirePush(c)
    <3>1. PushStep(c) /\ UNCHANGED disp
      BY <2>3 DEF FirePush, threadVars
    <3>2. \/ Store(c) \/ PushFull(c) \/ PushStillFull(c) \/ PushAgain(c)
      BY <3>1 DEF PushStep, PushEnter, PushWoken
    <3>3. Store(c) => offer[c] \in Items
      <4>1. fire[c] = "push" /\ fire[c] # "idle"
        BY <2>3 DEF FirePush
      <4> QED
        BY <1>1, <4>1, Sets, Zenon DEF Rest, HandInv, Types
    <3> QED
      BY <3>1, <3>2, <3>3 DEF Calm, Store, PushFull, PushStillFull, PushAgain
  <2> QED
    BY <1>3, <2>1, <2>2, <2>3, Zenon DEF FireStep
<1>4. ASSUME NEW s \in Slots, DispatchStep(s), ~DispatchPop(s), ~(DispatchTest(s) /\ systemRunning)
      PROVE Calm
  <2>1. /\ UNCHANGED queueVars
        /\ \/ UNCHANGED disp
           \/ disp[s] = "start" /\ disp' = [disp EXCEPT ![s] = "test"]
           \/ disp[s] = "test" /\ disp' = [disp EXCEPT ![s] = "leave"]
           \/ disp[s] = "deliver" /\ disp' = [disp EXCEPT ![s] = "call"]
           \/ disp[s] \in {"deliver", "call"} /\ disp' = [disp EXCEPT ![s] = "test"]
           \/ disp[s] = "leave" /\ disp' = [disp EXCEPT ![s] = "ended"]
    BY <1>4, Zenon DEF DispatchStep, DispatchStart, DispatchTest, Deliver, DeliverEnds, DispatchEnds,
         CallbackReturns
  <2>2. \/ UNCHANGED disp
        \/ \E t \in Slots, to \in DispPlaces :
              disp[t] # "pop" /\ to # "pop" /\ disp' = [disp EXCEPT ![t] = to]
    BY <2>1 DEF DispPlaces
  <2> QED
    BY <2>1, <2>2 DEF Calm, queueVars
<1>5. ASSUME ShutStep PROVE Calm
  <2>1. /\ UNCHANGED disp
        /\ \/ UNCHANGED queueVars \/ TryPush(Null) \/ InterruptAll
           \/ shut = "drain" /\ TryPop
    BY <1>5 DEF ShutStep, ShutNull, ShutInterrupt, ShutJoin, ShutJoined, ShutWait, ShutDrain,
         shutOnly, threadVars
  <2>2. Null \in Items
    BY Sets
  <2> QED
    BY <2>1, <2>2 DEF Calm, queueVars, TryPush, TryPop, InterruptAll
<1>6. \/ UNCHANGED <<disp, queueVars>> \/ ShutStep
      \/ \E c \in Pushers : FireStep(c)
      \/ \E s \in Slots : DispatchStep(s)
  BY DEF Next, vars, threadVars, Fire, Bind, Unbind, ShutStart, shutOnly
<1> QED
  BY <1>2, <1>3, <1>4, <1>5, <1>6, Zenon


(* A signal or an interrupt brings nobody into a pop. *)
LEMMA SignalPlaces ==
    ASSUME NEW T, NEW f \in [T -> PopStates], NEW g,
           g = f \/ Signal(f, g) \/ g = Broadcast(f)
    PROVE  \A t \in T : g[t] \in InPop => f[t] \in InPop
<1>1. CASE \E t \in In(f, "wait") : g = [f EXCEPT ![t] = "woken"]
  BY <1>1 DEF In, InPop
<1>2. CASE g = Broadcast(f)
  BY <1>2 DEF Broadcast, InPop
<1> QED
  BY <1>1, <1>2 DEF Signal

(* Where the threads are inside the queue and outside of it goes together. *)
LEMMA PlacesStep ==
    ASSUME EInv, PopPlaces, [Next]_vars
    PROVE  PopPlaces'
<1>1. QInv /\ Types /\ ~terminated
  BY InvParts DEF Rest
<1>2. popper \in [Slots -> PopStates] /\ disp \in [Slots -> DispPlaces]
  BY <1>1, Sets DEF QInv, QueueTypeOK, Types
<1>3. CASE Calm
  <2>1. \A t \in Slots : popper'[t] \in InPop => popper[t] \in InPop
    BY <1>2, <1>3, SignalPlaces DEF Calm
  <2>2. \A t \in Slots : disp[t] = "pop" => disp'[t] = "pop"
    BY <1>2, <1>3 DEF Calm
  <2> QED
    BY <2>1, <2>2, Zenon DEF PopPlaces
<1>4. ASSUME NEW s \in Slots, DispatchTest(s) /\ systemRunning PROVE PopPlaces'
  <2>1. disp' = [disp EXCEPT ![s] = "pop"] /\ PopCall(s)
    BY <1>4 DEF DispatchTest
  <2> QED
    BY <1>2, <2>1 DEF PopPlaces, PopCall
<1>5. ASSUME NEW s \in Slots, DispatchPop(s) PROVE PopPlaces'
  <2>1. disp' = [disp EXCEPT ![s] = AfterPop(s)] /\ (Take(s) \/ PopEmpty(s) \/ PopStillEmpty(s))
    BY <1>5 DEF DispatchPop, PopStep, PopEnter, PopWoken
  <2>2. \A t \in Slots \ {s} : popper'[t] = popper[t] /\ disp'[t] = disp[t]
    BY <1>2, <2>1 DEF Take, PopEmpty, PopStillEmpty
  <2>3. disp'[s] = AfterPop(s) /\ popper'[s] \in {"ok", "wait", "eintr"}
    BY <1>1, <1>2, <2>1 DEF Take, PopEmpty, PopStillEmpty
  <2>4. popper'[s] = "wait" => AfterPop(s) = "pop"
    BY DEF AfterPop
  <2>5. popper'[s] \in InPop => disp'[s] = "pop"
    BY <2>3, <2>4 DEF InPop
  <2> QED
    BY <2>2, <2>5 DEF PopPlaces
<1> QED
  BY <1>3, <1>4, <1>5, CalmOrPop

(* Once SYSTEM_RUNNING is cleared, and until the queue is drained, no step
   leaves more threads in a pop for what is queued than there were. *)
LEMMA BalanceStep ==
    ASSUME EInv, [Next]_vars, ~systemRunning, shut # "drain"
    PROVE  /\ Cardinality(Popping) \in Nat /\ Cardinality(Popping') \in Nat
           /\ Len(buf) \in Nat /\ Len(buf') \in Nat
           /\ Cardinality(Popping') + Len(buf) <= Cardinality(Popping) + Len(buf')
<1>1. QInv /\ Types /\ ~terminated
  BY InvParts DEF Rest
<1>2. /\ buf \in Seq(Items) /\ Len(buf) \in Nat /\ disp \in [Slots -> DispPlaces]
      /\ popper \in [Slots -> PopStates] /\ QueueTypeOK
  BY <1>1, Sets DEF QInv, QueueTypeOK, Types
<1>3. Cardinality(Popping) \in Nat
  <2>1. Popping \in SUBSET Slots
    BY DEF Popping
  <2> QED
    BY <2>1, Sets, FS_Subset, FS_CardinalityType
<1>4. CASE Calm
  <2>1. Len(buf') \in Nat /\ Len(buf') >= Len(buf)
    <3>1. UNCHANGED buf \/ \E i \in Items : buf' = Append(buf, i)
      BY <1>4 DEF Calm
    <3> QED
      BY <3>1
  <2>2. CASE UNCHANGED disp
    <3>1. Popping' = Popping
      BY <2>2 DEF Popping
    <3> QED
      BY <1>3, <2>1, <3>1
  <2>3. CASE \E s \in Slots, to \in DispPlaces :
                disp[s] # "pop" /\ to # "pop" /\ disp' = [disp EXCEPT ![s] = to]
    <3>1. PICK s \in Slots, to \in DispPlaces :
                disp[s] # "pop" /\ to # "pop" /\ disp' = [disp EXCEPT ![s] = to]
      BY <2>3, Zenon
    <3>2. Popping' = Popping
      BY <3>1 DEF Popping
    <3> QED
      BY <1>3, <2>1, <3>2
  <2> QED
    BY <1>4, <2>2, <2>3 DEF Calm
<1>5. ASSUME NEW s \in Slots, DispatchPop(s)
      PROVE  /\ Cardinality(Popping') \in Nat /\ Len(buf') \in Nat
             /\ Cardinality(Popping') + Len(buf) <= Cardinality(Popping) + Len(buf')
  <2>1. disp[s] = "pop" /\ disp' = [disp EXCEPT ![s] = AfterPop(s)] /\ PopStep(s)
    BY <1>5 DEF DispatchPop
  <2>2. \/ popper'[s] = "ok" /\ buf # << >> /\ buf' = Tail(buf)
        \/ popper'[s] # "ok" /\ UNCHANGED buf
    BY <1>2, <2>1, Sets, PopMoves
  <2>3. popper'[s] = "ok" => AfterPop(s) # "pop"
    BY DEF AfterPop
  <2>4. /\ Cardinality(Popping') \in Nat
        /\ Cardinality(Popping') + One(disp[s] = "pop") = Cardinality(Popping) + One(AfterPop(s) = "pop")
    BY <1>2, <2>1, PoppingMoves, Zenon
  <2> QED
    BY <1>3, <2>1, <2>2, <2>3, <2>4, SMTT(30) DEF One
<1> QED
  BY <1>2, <1>3, <1>4, <1>5, CalmOrPop, Zenon


(* A dispatch thread that has ended stays so: its slot is not used again. *)
LEMMA EndedStays ==
    ASSUME EInv, [Next]_vars, NEW s \in Slots, disp[s] = "ended"
    PROVE  disp'[s] = "ended"
<1>1. Rest /\ disp \in [Slots -> DispPlaces]
  BY InvParts DEF Rest, Types
<1>2. ASSUME NEW c \in Pushers, Launch(c) PROVE disp'[s] = "ended"
  <2>1. disp[soft] = "none" /\ soft \in Slots
    BY <1>1, <1>2, FreeSlot DEF Launch
  <2> QED
    BY <1>1, <1>2, <2>1 DEF Launch
<1>3. ASSUME NEW t \in Slots, DispatchStep(t) PROVE disp'[s] = "ended"
  <2>1. \/ UNCHANGED disp
        \/ disp[t] # "ended" /\ \E to : disp' = [disp EXCEPT ![t] = to]
    BY <1>3, Zenon DEF DispatchStep, DispatchStart, DispatchTest, DispatchPop, Deliver, DeliverEnds,
         DispatchEnds, CallbackReturns
  <2> QED
    BY <1>1, <2>1
<1>4. \/ UNCHANGED disp
      \/ \E c \in Pushers : Launch(c)
      \/ \E t \in Slots : DispatchStep(t)
  BY Zenon DEF Next, vars, threadVars, Fire, FireStep, FireCount, Launched, FirePush, Bind, Unbind,
       ShutStart, ShutStep, ShutNull, ShutInterrupt, ShutJoin, ShutJoined, ShutWait, ShutDrain, shutOnly
<1> QED
  BY <1>2, <1>3, <1>4

(* There is something in the queue for each thread that pops. *)
Balanced == Cardinality(Popping) <= Len(buf)

(* The NULLs stay enough. *)
LEMMA NullStep ==
    ASSUME NInv, [Next]_vars
    PROVE  NullInv'
<1> SUFFICES ASSUME shut' = "null", \A s \in Slots : disp'[s] # "ended"
             PROVE  Cardinality(Popping') + x' <= Len(buf') + count'
  BY DEF NullInv
<1>1. EInv /\ NullInv /\ Rest /\ QInv /\ Types
  BY InvParts DEF NInv, Rest
<1>2. /\ count \in Nat /\ x \in Nat /\ disp \in [Slots -> DispPlaces]
      /\ buf \in Seq(Items) /\ Len(buf) \in Nat /\ Len(buf) <= Capacity
  BY <1>1 DEF Types, QInv, QueueTypeOK
<1>3. Popping \in SUBSET Slots /\ Popping \in SUBSET Looping /\ Looping \in SUBSET Slots
  BY DEF Popping, Looping
<1>4. /\ Cardinality(Popping) \in Nat /\ Cardinality(Popping) <= count
      /\ Cardinality(Popping) <= MaxDispatch
  <2>1. /\ Cardinality(Popping) \in Nat /\ Cardinality(Popping) <= Cardinality(Looping)
        /\ Cardinality(Popping) <= Cardinality(Slots)
    BY <1>3, Sets, FS_Subset, FS_CardinalityType, SMTT(30)
  <2> QED
    BY <1>1, <2>1, Sets, NoneLaunching, SMTT(30) DEF Rest
<1>5. MaxDispatch <= Capacity /\ MaxDispatch \in Nat /\ Capacity \in Nat
  <2>1. QueueLen \in Nat /\ QueueLen >= 1 /\ MaxDispatch \in Nat /\ Capacity = QueueLen * MaxDispatch
    BY DispatchAssumption
  <2> QED
    BY <2>1
<1>6. \A s \in Slots : disp[s] # "ended"
  BY <1>1, EndedStays, Zenon
<1>7. \/ UNCHANGED <<count, x, shut>> \/ ShutStart \/ ShutNull
      \/ \E s \in Slots : DispatchStart(s) \/ DispatchEnds(s)
  <2>1. ASSUME ShutStep PROVE ShutNull
    BY <2>1 DEF ShutStep, ShutInterrupt, ShutJoin, ShutJoined, ShutWait, ShutDrain
  <2>2. \/ UNCHANGED <<count, x, shut>> \/ ShutStart \/ ShutStep
        \/ \E s \in Slots : DispatchStart(s) \/ DispatchEnds(s)
    BY Zenon DEF Next, vars, threadVars, shutVars, Fire, FireStep, FireCount, Launch, Launched, FirePush,
         Bind, Unbind, DispatchStep, DispatchTest, DispatchPop, Deliver, DeliverEnds, CallbackReturns
  <2> QED
    BY <2>1, <2>2
<1>8. CASE ShutStart
  <2>1. x' = 0 /\ UNCHANGED <<buf, disp, count>>
    BY <1>8 DEF ShutStart, queueVars, shutOnly, threadVars
  <2>2. Popping' = Popping
    BY <2>1 DEF Popping
  <2> QED
    BY <1>2, <1>4, <2>1, <2>2, SMTT(30)
<1>9. CASE ShutNull
  <2>1. /\ shut = "null" /\ x < count /\ x' = x + 1
        /\ \/ Len(buf) < Capacity /\ buf' = Append(buf, Null)
           \/ ~(Len(buf) < Capacity) /\ UNCHANGED buf
        /\ UNCHANGED <<count, disp>>
    BY <1>9 DEF ShutNull, TryPush, queueVars, shutOnly, threadVars
  <2>2. Popping' = Popping /\ Cardinality(Popping) + x <= Len(buf) + count
    BY <1>1, <2>1, SMTT(30) DEF Popping, NullInv
  <2> QED
    BY <1>2, <1>4, <1>5, <2>1, <2>2, SMTT(30)
<1>10. CASE UNCHANGED <<count, x, shut>> \/ \E s \in Slots : DispatchStart(s) \/ DispatchEnds(s)
  <2>1. UNCHANGED <<x, shut>> /\ (count' = count \/ count' = count + 1)
    <3>1. ASSUME NEW s \in Slots, DispatchEnds(s) PROVE FALSE
      BY <1>2, <3>1 DEF DispatchEnds
    <3> QED
      BY <1>10, <3>1 DEF DispatchStart, shutVars
  <2>2. ~systemRunning /\ shut = "null"
    BY <1>1, <2>1 DEF Rest, ShutInv
  <2>3. Cardinality(Popping) + x <= Len(buf) + count
    BY <1>1, <1>6, <2>2 DEF NullInv
  <2>4. /\ Cardinality(Popping') \in Nat /\ Len(buf') \in Nat
        /\ Cardinality(Popping') + Len(buf) <= Cardinality(Popping) + Len(buf')
    BY <1>1, <2>2, BalanceStep
  <2> QED
    BY <1>2, <1>4, <2>1, <2>3, <2>4, SMTT(30)
<1> QED
  BY <1>7, <1>8, <1>9, <1>10, SMTT(30)

(* The invariant of the NULLs holds in every state. *)
THEOREM NullInvariance == Spec => []NInv
<1>1. Init => NInv
  <2> SUFFICES ASSUME Init PROVE NInv
    OBVIOUS
  <2>1. EInv
    BY InitInv
  <2>2. PopPlaces
    BY Sets DEF Init, QueueInit, PopPlaces, InPop
  <2>3. NullInv
    BY DEF Init, NullInv
  <2> QED
    BY <2>1, <2>2, <2>3 DEF NInv
<1>2. NInv /\ [Next]_vars => NInv'
  BY StepInv, PlacesStep, NullStep DEF NInv
<1> QED
  BY <1>1, <1>2, PTL DEF Spec

(* When none of the dispatch threads has ended by the time switch_event_shutdown
   has pushed a NULL for each, none sleeps in switch_queue_pop and none will,
   for any number of threads, any length of the queue and whatever is fired
   and launched during the shutdown: what is left of ShutdownEndsIfCounted is
   that threads which do not sleep go on. *)
THEOREM NullsAreEnough == Spec => NullsSuffice
<1> DEFINE Enough ==
             /\ shut = "null" /\ shut' = "interrupt" /\ (\A s \in Slots : disp[s] # "ended") => Served
             /\ shut \in {"interrupt", "join", "joining", "wait"} /\ Served => Served'
<1>1. NInv => (Served <=> Balanced)
  BY NoneSleeps DEF NInv, EInv, Served, Popping, Balanced
<1>2. NInv' => (Served' <=> Balanced')
  BY <1>1, PTL
<1>3. NInv /\ NInv' /\ [Next]_vars => [Enough]_vars
  <2> SUFFICES ASSUME NInv, NInv', Next PROVE Enough
    OBVIOUS
  <2>1. EInv /\ NullInv /\ ShutInv /\ Types /\ QueueTypeOK /\ QueueTypeOK'
    BY InvParts DEF NInv, EInv, Rest, QInv
  <2>2. ASSUME shut = "null", shut' = "interrupt", \A s \in Slots : disp[s] # "ended" PROVE Served
    <3>1. ShutNull
      <4>1. ShutStart \/ ShutStep
        BY <2>2, Zenon DEF Next, shutVars, Fire, FireStep, FireCount, Launch, Launched, FirePush, Bind,
             Unbind, DispatchStep, DispatchStart, DispatchTest, DispatchPop, Deliver, DeliverEnds,
             DispatchEnds, CallbackReturns
      <4> QED
        BY <2>2, <4>1, SMTT(30) DEF ShutStart, ShutStep, ShutInterrupt, ShutJoin, ShutJoined, ShutWait, ShutDrain
    <3>2. ~(x < count)
      BY <2>2, <3>1 DEF ShutNull
    <3>3. Cardinality(Popping) + x <= Len(buf) + count
      BY <2>1, <2>2 DEF NullInv
    <3>4. Cardinality(Popping) \in Nat
      <4>1. Popping \in SUBSET Slots
        BY DEF Popping
      <4> QED
        BY <4>1, Sets, FS_Subset, FS_CardinalityType, SMTT(30)
    <3>5. Cardinality(Popping) <= Len(buf)
      BY <2>1, <3>2, <3>3, <3>4, SMTT(30) DEF Types, QueueTypeOK
    <3> QED
      BY <1>1, <3>5, SMTT(30) DEF Balanced
  <2>3. ASSUME shut \in {"interrupt", "join", "joining", "wait"}, Served PROVE Served'
    <3>1. ~systemRunning /\ shut # "drain"
      BY <2>1, <2>3 DEF ShutInv
    <3>2. /\ Cardinality(Popping) \in Nat /\ Cardinality(Popping') \in Nat
          /\ Len(buf) \in Nat /\ Len(buf') \in Nat
          /\ Cardinality(Popping') + Len(buf) <= Cardinality(Popping) + Len(buf')
      BY <2>1, <3>1, BalanceStep
    <3> QED
      BY <1>1, <1>2, <2>3, <3>2, SMTT(30) DEF Balanced
  <2> QED
    BY <2>2, <2>3
<1> QED
  BY <1>3, NullInvariance, PTL DEF Spec, NullsSuffice


-----------------------------------------------------------------------------
(* The event system implements EventBus. *)

(* What is known of an event from the one who owns it. *)
OwnersSay ==
    \A e \in Events :
        /\ e \notin fired => life[e] = "new"
        /\ \A c \in Pushers : event[c] = e => life[e] = "sent"
        /\ Count(e, buf) >= 1 => life[e] = "waiting"
        /\ \A s \in Slots : Has(s, e) =>
              life[e] = (IF disp[s] = "call" THEN "delivered" ELSE "taken") /\ calls[e] = todo[s]
        /\ e \in destroyed => life[e] = "gone"
        /\ (\A s \in Slots : ~Has(s, e)) => calls[e] = {}

(* The owner of an event says where it is in its life. *)
LEMMA LifeOf == EInv => OwnersSay
<1> SUFFICES ASSUME EInv, NEW e \in Events
             PROVE  /\ e \notin fired => life[e] = "new"
                    /\ \A c \in Pushers : event[c] = e => life[e] = "sent"
                    /\ Count(e, buf) >= 1 => life[e] = "waiting"
                    /\ \A s \in Slots : Has(s, e) =>
                          /\ life[e] = (IF disp[s] = "call" THEN "delivered" ELSE "taken")
                          /\ calls[e] = todo[s]
                    /\ e \in destroyed => life[e] = "gone"
                    /\ (\A s \in Slots : ~Has(s, e)) => calls[e] = {}
  BY Zenon DEF OwnersSay
<1>1. OneOwner /\ QueueTypeOK
  BY InvParts DEF Rest, QInv
<1>2. /\ life[e] = IF e \notin fired THEN "new"
                   ELSE IF e \in destroyed THEN "gone"
                   ELSE IF Firing(e) # {} THEN "sent"
                   ELSE IF Delivering(e) = {} THEN "waiting"
                   ELSE IF \E s \in Delivering(e) : disp[s] = "call" THEN "delivered" ELSE "taken"
      /\ calls[e] = UNION {todo[s] : s \in Delivering(e)}
  BY Zenon DEF life, calls
<1>3. PICK f, q, n, o, r :
          /\ f = Cardinality(Firing(e)) /\ q = Count(e, buf) /\ n = Cardinality(Delivering(e))
          /\ o = One(e \in destroyed) /\ r = One(e \in fired)
  OBVIOUS
<1>4. f \in Nat /\ q \in Nat /\ n \in Nat /\ o \in {0, 1} /\ r \in {0, 1} /\ f + q + n + o = r
  <2>1. f \in Nat /\ q \in Nat /\ n \in Nat
    BY <1>1, <1>3, OwnersNat, CountsNat, SMTT(30)
  <2>2. f + q + n + o = r
    BY <1>1, <1>3, OwnerSum, SMTT(30) DEF Owned
  <2> QED
    BY <1>3, <2>1, <2>2, SMTT(30) DEF One
<1>5. /\ (r = 0 <=> e \notin fired) /\ (o = 0 <=> e \notin destroyed)
  BY <1>3 DEF One
<1>6. /\ (f = 0 <=> Firing(e) = {}) /\ (n = 0 <=> Delivering(e) = {})
      /\ n = 1 => \E t : Delivering(e) = {t}
  <2>1. Firing(e) \in SUBSET Pushers /\ Delivering(e) \in SUBSET Slots
    BY DEF Firing, Delivering
  <2>2. IsFiniteSet(Firing(e)) /\ IsFiniteSet(Delivering(e))
    BY <2>1, Sets, FS_Subset, Zenon
  <2> QED
    BY <1>3, <2>2, FS_EmptySet, FS_Singleton, Zenon
<1>7. /\ f # 0 => q = 0 /\ n = 0 /\ o = 0 /\ r = 1
      /\ q # 0 => f = 0 /\ n = 0 /\ o = 0 /\ r = 1
      /\ n # 0 => f = 0 /\ q = 0 /\ o = 0 /\ r = 1 /\ n = 1
      /\ o # 0 => f = 0 /\ q = 0 /\ n = 0 /\ r = 1
  BY <1>4
<1>8. e \notin fired => life[e] = "new"
  BY <1>2, Zenon
<1>9. e \in destroyed => life[e] = "gone"
  BY <1>2, <1>5, <1>7, SMTT(30)
<1>10. ASSUME NEW c \in Pushers, event[c] = e PROVE life[e] = "sent"
  <2>1. Firing(e) # {}
    BY <1>10 DEF Firing
  <2> QED
    BY <1>2, <1>5, <1>6, <1>7, <2>1, SMTT(30)
<1>11. Count(e, buf) >= 1 => life[e] = "waiting"
  <2>1. Count(e, buf) >= 1 => q # 0
    BY <1>3
  <2> QED
    BY <1>2, <1>5, <1>6, <1>7, <2>1, Zenon
<1>12. ASSUME NEW s \in Slots, Has(s, e)
       PROVE  life[e] = (IF disp[s] = "call" THEN "delivered" ELSE "taken") /\ calls[e] = todo[s]
  <2>1. s \in Delivering(e)
    BY <1>12 DEF Has, Delivering
  <2>2. Delivering(e) = {s} /\ Firing(e) = {} /\ e \in fired /\ e \notin destroyed
    BY <1>5, <1>6, <1>7, <2>1, SMTT(30)
  <2> QED
    BY <1>2, <2>2, Zenon
<1>13. (\A s \in Slots : ~Has(s, e)) => calls[e] = {}
  <2>1. (\A s \in Slots : ~Has(s, e)) => Delivering(e) = {}
    BY DEF Has, Delivering
  <2> QED
    BY <1>2, <2>1, ZenonT(30)
<1> QED
  BY <1>8, <1>9, <1>10, <1>11, <1>12, <1>13, Zenon

(* The same of the state after a step. *)
LEMMA LifeOfNext == EInv' => OwnersSay'
  BY LifeOf, PTL

(* A step that has nothing to do with an event. *)
Apart(d) ==
    /\ (d \in fired' <=> d \in fired) /\ (d \in destroyed' <=> d \in destroyed)
    /\ Firing(d)' = Firing(d) /\ Delivering(d)' = Delivering(d)
    /\ \A s \in Delivering(d) : disp'[s] = disp[s] /\ todo'[s] = todo[s]

(* An event the step has nothing to do with stays where it is. *)
LEMMA ApartStays ==
    ASSUME NEW d \in Events, Apart(d)
    PROVE  life'[d] = life[d] /\ calls'[d] = calls[d]
<1> DEFINE Place == IF d \notin fired THEN "new"
                    ELSE IF d \in destroyed THEN "gone"
                    ELSE IF Firing(d) # {} THEN "sent"
                    ELSE IF Delivering(d) = {} THEN "waiting"
                    ELSE IF \E s \in Delivering(d) : disp[s] = "call" THEN "delivered" ELSE "taken"
           Calls == UNION {todo[s] : s \in Delivering(d)}
<1>1. life[d] = Place /\ calls[d] = Calls
  BY Zenon DEF life, calls
<1>2. life'[d] = Place' /\ calls'[d] = Calls'
  BY Zenon DEF life, calls
<1>3. Place' = Place
  <2> QED
    BY DEF Apart
<1>4. Calls' = Calls
  BY DEF Apart
<1> QED
  BY <1>1, <1>2, <1>3, <1>4, Zenon

(* A step that has to do with one event. *)
LEMMA OneLife ==
    ASSUME NEW e \in Events, \A d \in Events \ {e} : Apart(d)
    PROVE  /\ life' = [life EXCEPT ![e] = life'[e]]
           /\ calls' = [calls EXCEPT ![e] = calls'[e]]
           /\ life'[e] = life[e] => UNCHANGED life
           /\ calls'[e] = calls[e] => UNCHANGED calls
<1>1. \A d \in Events \ {e} : life'[d] = life[d] /\ calls'[d] = calls[d]
  BY ApartStays
<1>2. PICK f, g, h, k : f = life /\ g = life' /\ h = calls /\ k = calls'
  OBVIOUS
<1>3. /\ f = [d \in Events |-> f[d]] /\ g = [d \in Events |-> g[d]]
      /\ h = [d \in Events |-> h[d]] /\ k = [d \in Events |-> k[d]]
  BY <1>2, Zenon DEF life, calls
<1>4. \A d \in Events \ {e} : g[d] = f[d] /\ k[d] = h[d]
  BY <1>1, <1>2
<1>5. /\ g = [f EXCEPT ![e] = g[e]] /\ k = [h EXCEPT ![e] = k[e]]
      /\ (g[e] = f[e] => g = f) /\ (k[e] = h[e] => k = h)
  BY <1>3, <1>4, Zenon
<1> QED
  BY <1>2, <1>5

(* A step that has to do with no event. *)
LEMMA NoLife ==
    ASSUME \A d \in Events : Apart(d)
    PROVE  UNCHANGED <<life, calls>>
<1>1. \A d \in Events : life'[d] = life[d] /\ calls'[d] = calls[d]
  BY ApartStays
<1>2. PICK f, g, h, k : f = life /\ g = life' /\ h = calls /\ k = calls'
  OBVIOUS
<1>3. /\ f = [d \in Events |-> f[d]] /\ g = [d \in Events |-> g[d]]
      /\ h = [d \in Events |-> h[d]] /\ k = [d \in Events |-> k[d]]
  BY <1>2, Zenon DEF life, calls
<1>4. g = f /\ k = h
  BY <1>1, <1>2, <1>3, SMTT(30)
<1> QED
  BY <1>2, <1>4


(* A dispatch thread's step has nothing to do with an event it does not have
   before or after it. *)
LEMMA SlotApart ==
    ASSUME NEW s \in Slots, NEW d \in Events, ~Has(s, d), ~Has(s, d)',
           \A t \in Slots \ {s} : disp'[t] = disp[t] /\ got'[t] = got[t] /\ todo'[t] = todo[t],
           UNCHANGED <<event, fired>>, d \in destroyed' <=> d \in destroyed
    PROVE  Apart(d)
<1>1. Delivering(d)' = Delivering(d) /\ \A t \in Delivering(d) : t \in Slots \ {s}
  BY DEF Delivering, Has
<1>2. Firing(d)' = Firing(d)
  BY DEF Firing
<1> QED
  BY <1>1, <1>2, Zenon DEF Apart

(* Nor has a step in which no dispatch thread moves with one whose firing and
   destruction it leaves alone. *)
LEMMA StillApart ==
    ASSUME NEW d \in Events, UNCHANGED <<disp, got, todo>>, Firing(d)' = Firing(d),
           d \in fired' <=> d \in fired, d \in destroyed' <=> d \in destroyed
    PROVE  Apart(d)
<1>1. Delivering(d)' = Delivering(d)
  BY DEF Delivering
<1> QED
  BY <1>1, Zenon DEF Apart

(* switch_event_fire takes the event, or destroys it. *)
LEMMA SendStep ==
    ASSUME EInv, EInv', NEW c \in Pushers, NEW e \in Events, Fire(c, e)
    PROVE  Bus!Send(e)
<1>1. OwnersSay /\ OwnersSay'
  BY LifeOf, LifeOfNext, Zenon
<1>2. /\ e \notin fired /\ fired' = fired \cup {e}
      /\ \/ /\ systemRunning /\ event' = [event EXCEPT ![c] = e] /\ UNCHANGED destroyed
         \/ ~systemRunning /\ destroyed' = destroyed \cup {e} /\ UNCHANGED event
      /\ UNCHANGED <<buf, got, disp, todo, bound, systemRunning>> /\ fire[c] = "idle"
  BY DEF Fire, CanFire, queueVars, threadVars, nodeVars, shutVars
<1>3. event \in [Pushers -> Events \cup {Null}] /\ event[c] = Null /\ Null \notin Events
  BY <1>2, InvParts, Sets, Zenon DEF Rest, Types, HandInv
<1>4. \A d \in Events \ {e} : Apart(d)
  <2> SUFFICES ASSUME NEW d \in Events \ {e} PROVE Apart(d)
    OBVIOUS
  <2>1. Firing(d)' = Firing(d)
    BY <1>2, <1>3 DEF Firing
  <2> QED
    BY <1>2, <2>1, StillApart, Zenon
<1>5. life[e] = "new"
  BY <1>1, <1>2, Zenon DEF OwnersSay
<1>6. \/ systemRunning /\ life'[e] = "sent"
      \/ ~systemRunning /\ life'[e] = "gone"
  <2>1. CASE event' = [event EXCEPT ![c] = e] /\ systemRunning
    <3>1. event'[c] = e
      BY <1>3, <2>1
    <3> QED
      BY <1>1, <2>1, <3>1, ZenonT(30) DEF OwnersSay
  <2>2. CASE destroyed' = destroyed \cup {e} /\ ~systemRunning
    BY <1>1, <2>2, Zenon DEF OwnersSay
  <2> QED
    BY <1>2, <2>1, <2>2, Zenon
<1>7. UNCHANGED calls
  <2>1. \A s \in Slots : ~Has(s, e) /\ ~Has(s, e)'
    <3>1. \A s \in Slots : ~Has(s, e)
      <4>1. life[e] # "delivered" /\ life[e] # "taken"
        BY <1>5
      <4> QED
        BY <1>1, <4>1, Zenon DEF OwnersSay
    <3> QED
      BY <1>2, <3>1, Zenon DEF Has
  <2>2. calls'[e] = calls[e]
    BY <1>1, <2>1, Zenon DEF OwnersSay
  <2> QED
    BY <1>4, <2>2, OneLife
<1> QED
  BY <1>2, <1>4, <1>5, <1>6, <1>7, OneLife, Zenon DEF Bus!Send, Bus!Moves, Bus!Discard

(* What is at the head of the queue is in line, and so is what was stored. *)
LEMMA InLine ==
    ASSUME QueueTypeOK, NEW v \in Items
    PROVE  /\ buf # << >> => Head(buf) \in Items /\ Count(Head(buf), buf) >= 1
           /\ buf' = Append(buf, v) => Count(v, buf') >= 1
<1>1. buf \in Seq(Items)
  BY DEF QueueTypeOK
<1>2. ASSUME buf # << >> PROVE Head(buf) \in Items /\ Count(Head(buf), buf) >= 1
  <2>1. /\ Count(Head(buf), buf) \in Nat /\ Count(Head(buf), Tail(buf)) \in Nat
        /\ Count(Head(buf), buf) = Count(Head(buf), Tail(buf)) + Same(Head(buf), Head(buf))
    BY <1>1, <1>2, CountTail
  <2>2. Same(Head(buf), Head(buf)) = 1 /\ Head(buf) \in Items
    BY <1>1, <1>2 DEF Same
  <2> QED
    BY <2>1, <2>2
<1>3. ASSUME buf' = Append(buf, v) PROVE Count(v, buf') >= 1
  <2>1. /\ Count(v, buf) \in Nat /\ Count(v, Append(buf, v)) = Count(v, buf) + Same(v, v)
    BY <1>1, CountAppend
  <2>2. Same(v, v) = 1
    BY DEF Same
  <2> QED
    BY <1>3, <2>1, <2>2, SMTT(30)
<1> QED
  BY <1>2, <1>3

(* switch_event_fire puts the event in line. *)
LEMMA QueuedStep ==
    ASSUME EInv, EInv', NEW c \in Pushers, FirePush(c), pusher'[c] = "ok"
    PROVE  Bus!Queue(event[c]) /\ event[c] \in Events
<1>1. OwnersSay /\ OwnersSay' /\ QueueTypeOK /\ HandInv /\ Types
  BY LifeOf, LifeOfNext, InvParts, SMTT(30) DEF Rest, QInv
<1>2. /\ fire[c] = "push" /\ PushStep(c) /\ event' = [event EXCEPT ![c] = Null]
      /\ UNCHANGED <<disp, todo, bound, fired, destroyed, systemRunning>>
  BY DEF FirePush, threadVars, nodeVars, shutVars
<1>3. UNCHANGED got /\ buf' = Append(buf, offer[c])
  BY <1>1, <1>2, PushMoves, Zenon
<1>4. /\ event \in [Pushers -> Events \cup {Null}] /\ event[c] \in Events /\ offer[c] = event[c]
      /\ event[c] \in Items /\ Null \notin Events
  BY <1>1, <1>2, Sets, Zenon DEF Types, HandInv
<1>5. PICK e \in Events : e = event[c]
  BY <1>4
<1>6. \A d \in Events \ {e} : Apart(d)
  <2> SUFFICES ASSUME NEW d \in Events \ {e} PROVE Apart(d)
    OBVIOUS
  <2>1. Firing(d)' = Firing(d)
    BY <1>2, <1>4, <1>5, SMTT(30) DEF Firing
  <2> QED
    BY <1>2, <1>3, <2>1, StillApart, Zenon
<1>7. life[e] = "sent" /\ life'[e] = "waiting"
  <2>1. Count(e, buf') >= 1
    BY <1>1, <1>3, <1>4, <1>5, InLine, SMTT(30)
  <2>2. Count(e, buf)' >= 1
    BY <2>1
  <2> QED
    BY <1>1, <1>5, <2>2, Zenon DEF OwnersSay
<1>8. UNCHANGED calls
  <2>1. \A s \in Slots : ~Has(s, e) /\ ~Has(s, e)'
    <3>1. life[e] # "delivered" /\ life[e] # "taken"
      BY <1>7
    <3>2. \A s \in Slots : ~Has(s, e)
      BY <1>1, <3>1, Zenon DEF OwnersSay
    <3> QED
      BY <1>2, <1>3, <3>2, Zenon DEF Has
  <2>2. calls'[e] = calls[e]
    BY <1>1, <2>1, Zenon DEF OwnersSay
  <2> QED
    BY <1>6, <2>2, OneLife, Zenon
<1>9. life' = [life EXCEPT ![e] = "waiting"]
  BY <1>6, <1>7, OneLife, SMTT(30)
<1> QED
  BY <1>2, <1>3, <1>4, <1>5, <1>7, <1>8, <1>9, Zenon DEF Bus!Queue, Bus!Moves


(* A dispatch thread takes what is at the head of the line. *)
LEMMA TakeStep ==
    ASSUME EInv, EInv', NEW s \in Slots, DispatchPop(s), popper'[s] = "ok"
    PROVE  Bus!TakeEvent \/ Bus!TakeMark
<1>1. OwnersSay /\ OwnersSay' /\ QueueTypeOK /\ NodeInv /\ Types
  BY LifeOf, LifeOfNext, InvParts, SMTT(30) DEF Rest, QInv
<1>2. /\ disp[s] = "pop" /\ PopStep(s) /\ disp' = [disp EXCEPT ![s] = AfterPop(s)]
      /\ UNCHANGED <<todo, bound, event, fired, destroyed, systemRunning>>
  BY DEF DispatchPop, nodeVars, fireVars, shutVars
<1>3. buf # << >> /\ buf' = Tail(buf) /\ got' = [got EXCEPT ![s] = Head(buf)]
  BY <1>1, <1>2, Sets, PopMoves
<1>4. /\ got'[s] = Head(buf) /\ disp'[s] = IF Head(buf) = Null THEN "leave" ELSE "deliver"
      /\ \A t \in Slots \ {s} : disp'[t] = disp[t] /\ got'[t] = got[t] /\ todo'[t] = todo[t]
  <2>1. got \in [Slots -> Items \cup {NoItem}] /\ disp \in [Slots -> DispPlaces]
    BY <1>1, Sets DEF QueueTypeOK, Types
  <2>2. AfterPop(s) = IF got'[s] = Null THEN "leave" ELSE "deliver"
    BY DEF AfterPop
  <2> QED
    BY <1>2, <1>3, <2>1, <2>2, ZenonT(30)
<1>5. Head(buf) \in Items /\ Count(Head(buf), buf) >= 1
  BY <1>1, <1>3, InLine, Sets
<1>6. \A d \in Events : ~Has(s, d) /\ (Has(s, d)' <=> d = Head(buf))
  BY <1>2, <1>4, Sets, Zenon DEF Has
<1>7. CASE Head(buf) = Null
  <2>1. \A d \in Events : Apart(d)
    <3> SUFFICES ASSUME NEW d \in Events PROVE Apart(d)
      OBVIOUS
    <3>1. ~Has(s, d) /\ ~Has(s, d)'
      BY <1>6, <1>7, Sets, Zenon
    <3> QED
      BY <1>2, <1>4, <3>1, SlotApart, Zenon
  <2>2. UNCHANGED <<life, calls>>
    BY <2>1, NoLife
  <2> QED
    BY <1>2, <1>3, <1>7, <2>2, Zenon DEF Bus!TakeMark
<1>8. CASE Head(buf) # Null
  <2>1. PICK e \in Events : e = Head(buf)
    BY <1>5, <1>8, Sets
  <2>2. \A d \in Events \ {e} : Apart(d)
    <3> SUFFICES ASSUME NEW d \in Events \ {e} PROVE Apart(d)
      OBVIOUS
    <3>1. ~Has(s, d) /\ ~Has(s, d)'
      BY <1>6, <2>1, Zenon
    <3> QED
      BY <1>2, <1>4, <3>1, SlotApart, Zenon
  <2>3. life[e] = "waiting"
    BY <1>1, <1>5, <2>1, Zenon DEF OwnersSay
  <2>4. Has(s, e)' /\ disp'[s] # "call"
    BY <1>4, <1>6, <2>1, Zenon
  <2>5. life'[e] = "taken" /\ calls'[e] = todo'[s]
    BY <1>1, <2>4, Zenon DEF OwnersSay
  <2>6. calls[e] = {} /\ todo'[s] = {}
    <3>1. life[e] # "delivered" /\ life[e] # "taken"
      BY <2>3
    <3>2. \A t \in Slots : ~Has(t, e)
      BY <1>1, <3>1, Zenon DEF OwnersSay
    <3> QED
      BY <1>1, <1>2, <3>2, Zenon DEF OwnersSay, NodeInv
  <2>7. UNCHANGED calls /\ life' = [life EXCEPT ![e] = "taken"]
    BY <2>2, <2>5, <2>6, OneLife, Zenon
  <2> QED
    BY <1>2, <1>3, <2>1, <2>3, <2>7, Zenon DEF Bus!TakeEvent, Bus!Moves
<1> QED
  BY <1>7, <1>8

(* The shutdown discards what is at the head of the line. *)
LEMMA DrainStep ==
    ASSUME EInv, EInv', ShutDrain, buf # << >>
    PROVE  Bus!TakeEvent \/ Bus!TakeMark
<1>1. OwnersSay /\ OwnersSay' /\ QueueTypeOK /\ ShutInv
  BY LifeOf, LifeOfNext, InvParts, SMTT(30) DEF Rest, QInv
<1>2. /\ buf' = Tail(buf) /\ destroyed' = destroyed \cup ({Head(buf)} \ {Null}) /\ shut = "drain"
      /\ UNCHANGED <<got, disp, todo, bound, event, fired, systemRunning>>
  BY DEF ShutDrain, TryPop, shutOnly, threadVars, nodeVars, fireVars
<1>3. Head(buf) \in Items /\ Count(Head(buf), buf) >= 1 /\ ~systemRunning
  BY <1>1, <1>2, InLine, Sets, SMTT(30) DEF ShutInv
<1>4. \A d \in Events : Firing(d)' = Firing(d)
  BY <1>2 DEF Firing
<1>5. CASE Head(buf) = Null
  <2>1. \A d \in Events : d \in destroyed' <=> d \in destroyed
    BY <1>2, <1>5, SMTT(30)
  <2>2. UNCHANGED <<life, calls>>
    BY <1>2, <1>4, <2>1, StillApart, NoLife, SMTT(30)
  <2> QED
    BY <1>2, <1>5, <2>2, Zenon DEF Bus!TakeMark
<1>6. CASE Head(buf) # Null
  <2>1. PICK e \in Events : e = Head(buf)
    BY <1>3, <1>6, Sets, SMTT(30)
  <2>2. \A d \in Events \ {e} : Apart(d)
    <3>1. \A d \in Events \ {e} : d \in destroyed' <=> d \in destroyed
      BY <1>2, <2>1
    <3> QED
      BY <1>2, <1>4, <3>1, StillApart, SMTT(30)
  <2>3. life[e] = "waiting" /\ life'[e] = "gone"
    <3>1. e \in destroyed'
      BY <1>2, <1>6, <2>1
    <3> QED
      BY <1>1, <1>3, <2>1, <3>1, Zenon DEF OwnersSay
  <2>4. calls'[e] = calls[e]
    <3>1. life[e] # "delivered" /\ life[e] # "taken"
      BY <2>3
    <3>2. \A t \in Slots : ~Has(t, e)
      BY <1>1, <3>1, Zenon DEF OwnersSay
    <3>3. \A t \in Slots : ~Has(t, e)'
      BY <1>2, <3>2 DEF Has
    <3> QED
      BY <1>1, <3>2, <3>3, Zenon DEF OwnersSay
  <2>5. UNCHANGED calls /\ life' = [life EXCEPT ![e] = "gone"]
    BY <2>2, <2>3, <2>4, OneLife, Zenon
  <2> QED
    BY <1>2, <1>3, <2>1, <2>3, <2>5, ZenonT(30) DEF Bus!TakeEvent, Bus!Discard, Bus!Moves
<1> QED
  BY <1>5, <1>6


(* switch_event_deliver: the event is given to the bound nodes or destroyed,
   and destroyed when all have been called. *)
LEMMA DeliverStep ==
    ASSUME EInv, EInv', NEW s \in Slots, Deliver(s) \/ DeliverEnds(s)
    PROVE  \E e \in Events : Bus!Deliver(e) \/ Bus!Done(e)
<1>1. OwnersSay /\ OwnersSay' /\ QueueTypeOK /\ NodeInv /\ HandInv /\ Types
  BY LifeOf, LifeOfNext, InvParts, Zenon DEF Rest, QInv
<1>2. UNCHANGED <<buf, got, bound, event, fired, systemRunning>> /\ disp[s] \in {"deliver", "call"}
  BY Zenon DEF Deliver, DeliverEnds, queueVars, nodeVars, fireVars, shutVars
<1>3. PICK e \in Events : e = got[s]
  BY <1>1, <1>2, Zenon DEF HandInv
<1>4. \/ /\ disp[s] = "deliver" /\ systemRunning /\ disp' = [disp EXCEPT ![s] = "call"]
         /\ todo' = [todo EXCEPT ![s] = bound] /\ UNCHANGED destroyed
      \/ /\ disp[s] = "deliver" /\ ~systemRunning /\ disp' = [disp EXCEPT ![s] = "test"]
         /\ destroyed' = destroyed \cup {e} /\ UNCHANGED todo
      \/ /\ disp[s] = "call" /\ todo[s] = {} /\ disp' = [disp EXCEPT ![s] = "test"]
         /\ destroyed' = destroyed \cup {e} /\ UNCHANGED todo
  BY <1>3, Zenon DEF Deliver, DeliverEnds
<1>5. disp \in [Slots -> DispPlaces] /\ todo \in [Slots -> SUBSET Nodes]
  BY <1>1 DEF Types
<1>6. \A t \in Slots \ {s} : disp'[t] = disp[t] /\ got'[t] = got[t] /\ todo'[t] = todo[t]
  BY <1>2, <1>4, <1>5, SMTT(30)
<1>7. \A d \in Events \ {e} : Apart(d)
  <2> SUFFICES ASSUME NEW d \in Events \ {e} PROVE Apart(d)
    OBVIOUS
  <2>1. ~Has(s, d) /\ ~Has(s, d)'
    BY <1>2, <1>3 DEF Has
  <2>2. d \in destroyed' <=> d \in destroyed
    BY <1>4
  <2> QED
    BY <1>2, <1>6, <2>1, <2>2, SlotApart, Zenon
<1>8. Has(s, e)
  BY <1>2, <1>3 DEF Has
<1>9. life[e] = (IF disp[s] = "call" THEN "delivered" ELSE "taken") /\ calls[e] = todo[s]
  BY <1>1, <1>8, Zenon DEF OwnersSay
<1>10. CASE /\ disp[s] = "deliver" /\ systemRunning /\ disp' = [disp EXCEPT ![s] = "call"]
            /\ todo' = [todo EXCEPT ![s] = bound] /\ UNCHANGED destroyed
  <2>1. disp'[s] = "call" /\ todo'[s] = bound
    BY <1>5, <1>10, SMTT(30)
  <2>2. Has(s, e)'
    BY <1>2, <1>3, <2>1, SMTT(30) DEF Has
  <2>3. life'[e] = "delivered" /\ calls'[e] = bound
    BY <1>1, <2>1, <2>2, Zenon DEF OwnersSay
  <2>4. life' = [life EXCEPT ![e] = "delivered"] /\ calls' = [calls EXCEPT ![e] = bound]
    BY <1>7, <2>3, OneLife, ZenonT(30)
  <2>5. life[e] = "taken"
    BY <1>9, <1>10
  <2> QED
    BY <1>2, <1>10, <2>4, <2>5, ZenonT(30) DEF Bus!Deliver, Bus!Moves
<1>11. ASSUME disp' = [disp EXCEPT ![s] = "test"], destroyed' = destroyed \cup {e}, todo[s] = {}
       PROVE  UNCHANGED calls /\ life' = [life EXCEPT ![e] = "gone"]
  <2>1. e \in destroyed' /\ disp'[s] = "test"
    BY <1>5, <1>11
  <2>2. life'[e] = "gone"
    BY <1>1, <2>1, Zenon DEF OwnersSay
  <2>3. \A t \in Slots : ~Has(t, e)'
    <3>1. life'[e] # "delivered" /\ life'[e] # "taken"
      BY <2>2
    <3> QED
      BY <1>1, <3>1, Zenon DEF OwnersSay
  <2>4. calls'[e] = {}
    BY <1>1, <2>3, Zenon DEF OwnersSay
  <2> QED
    BY <1>7, <1>9, <1>11, <2>2, <2>4, OneLife, Zenon
<1>12. CASE /\ disp[s] = "deliver" /\ ~systemRunning /\ disp' = [disp EXCEPT ![s] = "test"]
            /\ destroyed' = destroyed \cup {e} /\ UNCHANGED todo
  <2>1. todo[s] = {} /\ life[e] = "taken"
    BY <1>1, <1>9, <1>12, Zenon DEF NodeInv
  <2> QED
    BY <1>2, <1>11, <1>12, <2>1, Zenon DEF Bus!Deliver, Bus!Discard, Bus!Moves
<1>13. CASE /\ disp[s] = "call" /\ todo[s] = {} /\ disp' = [disp EXCEPT ![s] = "test"]
            /\ destroyed' = destroyed \cup {e} /\ UNCHANGED todo
  <2>1. life[e] = "delivered" /\ calls[e] = {}
    BY <1>9, <1>13
  <2> QED
    BY <1>2, <1>11, <1>13, <2>1, ZenonT(30) DEF Bus!Done, Bus!Moves
<1> QED
  BY <1>4, <1>10, <1>12, <1>13, SMTT(30)

(* A callback returns: one of the nodes has been called. *)
LEMMA CallStep ==
    ASSUME EInv, EInv', NEW s \in Slots, NEW n \in Nodes, CallbackReturns(s, n)
    PROVE  \E e \in Events : Bus!Call(e, n)
<1>1. OwnersSay /\ OwnersSay' /\ HandInv /\ Types
  BY LifeOf, LifeOfNext, InvParts DEF Rest
<1>2. /\ disp[s] = "call" /\ n \in todo[s] /\ todo' = [todo EXCEPT ![s] = @ \ {n}]
      /\ UNCHANGED <<buf, got, disp, bound, event, fired, destroyed, systemRunning>>
  BY Zenon DEF CallbackReturns, queueVars, nodeVars, fireVars, shutVars
<1>3. PICK e \in Events : e = got[s]
  BY <1>1, <1>2, Zenon DEF HandInv
<1>4. Has(s, e) /\ Has(s, e)'
  BY <1>2, <1>3, SMTT(30) DEF Has
<1>5. /\ \A t \in Slots \ {s} : todo'[t] = todo[t] /\ disp'[t] = disp[t] /\ got'[t] = got[t]
      /\ todo'[s] = todo[s] \ {n}
  BY <1>1, <1>2 DEF Types
<1>6. \A d \in Events \ {e} : Apart(d)
  <2> SUFFICES ASSUME NEW d \in Events \ {e} PROVE Apart(d)
    OBVIOUS
  <2>1. ~Has(s, d) /\ ~Has(s, d)'
    BY <1>2, <1>3, Zenon DEF Has
  <2> QED
    BY <1>2, <1>5, <2>1, SlotApart, Zenon
<1>7. /\ life[e] = "delivered" /\ calls[e] = todo[s]
      /\ life'[e] = "delivered" /\ calls'[e] = todo'[s]
  BY <1>1, <1>2, <1>4, Zenon DEF OwnersSay
<1>8. UNCHANGED life /\ calls' = [calls EXCEPT ![e] = calls[e] \ {n}]
  BY <1>5, <1>6, <1>7, OneLife, Zenon
<1> QED
  BY <1>2, <1>7, <1>8, Zenon DEF Bus!Call

(* The write lock waits until nothing is being delivered. *)
LEMMA RebindStep ==
    ASSUME EInv, (\E n \in Nodes : Bind(n)) \/ (\E ns \in SUBSET Nodes : Unbind(ns))
    PROVE  \E ns \in SUBSET Nodes : Bus!Rebind(ns)
<1>1. Types
  BY InvParts, SMTT(30) DEF Rest
<1>2. /\ Readers = {} /\ bound' \in SUBSET Nodes
      /\ UNCHANGED <<buf, got, disp, todo, event, fired, destroyed, systemRunning>>
  BY <1>1, SMTT(30) DEF Bind, Unbind, queueVars, threadVars, fireVars, shutVars, Types
<1>3. UNCHANGED <<life, calls>>
  <2>1. \A d \in Events : Firing(d)' = Firing(d)
    BY <1>2 DEF Firing
  <2> QED
    BY <1>2, <2>1, StillApart, NoLife, SMTT(30)
<1>4. \A e \in Events : life[e] # "delivered"
  <2> SUFFICES ASSUME NEW e \in Events PROVE life[e] # "delivered"
    OBVIOUS
  <2>1. ~\E s \in Delivering(e) : disp[s] = "call"
    BY <1>2 DEF Readers, Delivering
  <2>2. life[e] \in {"new", "gone", "sent", "waiting", "taken"}
    BY <2>1 DEF life
  <2> QED
    BY <2>2
<1> QED
  BY <1>2, <1>3, <1>4, SMTT(30) DEF Bus!Rebind


(* A step that moves at most a thread with no event in its hands is none for
   those who fire or are bound. *)
LEMMA BusStutters ==
    ASSUME UNCHANGED <<buf, bound, systemRunning, event, fired, destroyed, todo>>,
           \/ UNCHANGED <<disp, got>>
           \/ \E s \in Slots : /\ disp[s] \notin {"deliver", "call"} /\ disp'[s] \notin {"deliver", "call"}
                               /\ \A t \in Slots \ {s} : disp'[t] = disp[t] /\ got'[t] = got[t]
    PROVE  UNCHANGED <<life, buf, calls, bound, ~systemRunning>>
<1>1. \A d \in Events : Apart(d)
  <2> SUFFICES ASSUME NEW d \in Events PROVE Apart(d)
    OBVIOUS
  <2>1. CASE UNCHANGED <<disp, got>>
    <3>1. Firing(d)' = Firing(d)
      BY DEF Firing
    <3> QED
      BY <2>1, <3>1, StillApart, Zenon
  <2>2. ASSUME NEW s \in Slots, disp[s] \notin {"deliver", "call"}, disp'[s] \notin {"deliver", "call"},
               \A t \in Slots \ {s} : disp'[t] = disp[t] /\ got'[t] = got[t]
        PROVE  Apart(d)
    <3>1. ~Has(s, d) /\ ~Has(s, d)'
      BY <2>2, SMTT(30) DEF Has
    <3> QED
      BY <2>2, <3>1, SlotApart, ZenonT(30)
  <2> QED
    BY <2>1, <2>2, Zenon
<1> QED
  BY <1>1, NoLife, Zenon

(* The steps of switch_event_fire. *)
LEMMA BusFire ==
    ASSUME EInv, EInv', NEW c \in Pushers, FireStep(c)
    PROVE  Bus!Next \/ UNCHANGED <<life, buf, calls, bound, ~systemRunning>>
<1>1. Rest /\ QueueTypeOK /\ Types
  BY InvParts DEF Rest, QInv
<1>2. CASE FireCount(c) \/ Launched(c)
  <2>1. UNCHANGED <<buf, bound, systemRunning, event, fired, destroyed, todo, disp, got>>
    BY <1>2, SMTT(30) DEF FireCount, Launched, PushCall, queueVars, threadVars, nodeVars, shutVars
  <2> QED
    BY <2>1, BusStutters, ZenonT(30)
<1>3. CASE Launch(c)
  <2>1. soft \in Slots /\ disp[soft] = "none"
    BY <1>1, <1>3, FreeSlot, ZenonT(30) DEF Launch
  <2>2. /\ UNCHANGED <<buf, bound, systemRunning, event, fired, destroyed, todo, got>>
        /\ disp' = [disp EXCEPT ![soft] = "start"] \/ UNCHANGED disp
    BY <1>3, SMTT(30) DEF Launch, queueVars, nodeVars, shutVars
  <2>3. \/ UNCHANGED <<disp, got>>
        \/ \E s \in Slots : /\ disp[s] \notin {"deliver", "call"} /\ disp'[s] \notin {"deliver", "call"}
                            /\ \A t \in Slots \ {s} : disp'[t] = disp[t] /\ got'[t] = got[t]
    BY <1>1, <2>1, <2>2, SMTT(30) DEF Types
  <2> QED
    BY <2>2, <2>3, BusStutters, SMTT(30)
<1>4. CASE FirePush(c) /\ pusher'[c] = "ok"
  BY <1>4, QueuedStep, Zenon DEF Bus!Next
<1>5. CASE FirePush(c) /\ pusher'[c] # "ok"
  <2>1. UNCHANGED <<bound, systemRunning, event, fired, destroyed, todo, disp>> /\ PushStep(c)
    BY <1>5 DEF FirePush, threadVars, nodeVars, shutVars
  <2>2. UNCHANGED <<buf, got>>
    BY <1>1, <1>5, <2>1, PushMoves, SMTT(30)
  <2> QED
    BY <2>1, <2>2, BusStutters, Zenon
<1> QED
  BY <1>2, <1>3, <1>4, <1>5, SMTT(30) DEF FireStep

(* The steps of a dispatch thread. *)
LEMMA BusDispatch ==
    ASSUME EInv, EInv', NEW s \in Slots, DispatchStep(s)
    PROVE  Bus!Next \/ UNCHANGED <<life, buf, calls, bound, ~systemRunning>>
<1>1. Types /\ QueueTypeOK /\ got \in [Slots -> Items \cup {NoItem}] /\ disp \in [Slots -> DispPlaces]
  BY InvParts, Sets, Zenon DEF Rest, QInv, QueueTypeOK, Types
<1>2. CASE DispatchStart(s) \/ DispatchTest(s) \/ DispatchEnds(s)
  <2>1. /\ UNCHANGED <<buf, bound, systemRunning, event, fired, destroyed, todo>>
        /\ UNCHANGED got \/ got' = [got EXCEPT ![s] = NoItem]
        /\ disp[s] \in {"start", "test", "leave"}
        /\ \E to \in {"test", "pop", "leave", "ended"} : disp' = [disp EXCEPT ![s] = to]
    BY <1>2 DEF DispatchStart, DispatchTest, DispatchEnds, PopCall, queueVars, nodeVars, fireVars, shutVars
  <2>2. /\ disp[s] \notin {"deliver", "call"} /\ disp'[s] \notin {"deliver", "call"}
        /\ \A t \in Slots \ {s} : disp'[t] = disp[t] /\ got'[t] = got[t]
    BY <1>1, <2>1
  <2> QED
    BY <2>1, <2>2, BusStutters, ZenonT(30)
<1>3. CASE DispatchPop(s) /\ popper'[s] = "ok"
  BY <1>3, TakeStep DEF Bus!Next
<1>4. CASE DispatchPop(s) /\ popper'[s] # "ok"
  <2>1. /\ UNCHANGED <<bound, systemRunning, event, fired, destroyed, todo>> /\ PopStep(s)
        /\ disp[s] = "pop" /\ disp' = [disp EXCEPT ![s] = AfterPop(s)]
    BY <1>4, SMTT(30) DEF DispatchPop, nodeVars, fireVars, shutVars
  <2>2. UNCHANGED <<buf, got>>
    BY <1>1, <1>4, <2>1, Sets, PopMoves, SMTT(30)
  <2>3. AfterPop(s) \in {"test", "pop"}
    BY <1>4 DEF AfterPop
  <2>4. /\ disp[s] \notin {"deliver", "call"} /\ disp'[s] \notin {"deliver", "call"}
        /\ \A t \in Slots \ {s} : disp'[t] = disp[t] /\ got'[t] = got[t]
    BY <2>1, <2>2, <2>3
  <2> QED
    BY <2>1, <2>2, <2>4, BusStutters, Zenon
<1>5. CASE Deliver(s) \/ DeliverEnds(s)
  BY <1>5, DeliverStep, Zenon DEF Bus!Next
<1>6. CASE \E n \in Nodes : CallbackReturns(s, n)
  BY <1>6, CallStep DEF Bus!Next
<1> QED
  BY <1>2, <1>3, <1>4, <1>5, <1>6, Zenon DEF DispatchStep

(* The steps of switch_event_shutdown. *)
LEMMA BusShut ==
    ASSUME EInv, EInv', ShutStart \/ ShutStep
    PROVE  Bus!Next \/ UNCHANGED <<life, buf, calls, bound, ~systemRunning>>
<1>1. Types /\ ShutInv
  BY InvParts DEF Rest
<1>2. CASE ShutDrain /\ buf # << >>
  BY <1>2, DrainStep DEF Bus!Next
<1>3. ASSUME UNCHANGED <<got, disp, todo, event, fired, destroyed>>
      PROVE  UNCHANGED <<life, calls>>
  <2>1. \A d \in Events : Firing(d)' = Firing(d)
    BY <1>3 DEF Firing
  <2> QED
    BY <1>3, <2>1, StillApart, NoLife, Zenon
<1>4. CASE ShutStart
  <2>1. /\ UNCHANGED <<got, disp, todo, event, fired, destroyed, buf, bound>>
        /\ shut = "up" /\ ~systemRunning'
    BY <1>4 DEF ShutStart, queueVars, shutOnly, threadVars, nodeVars, fireVars
  <2>2. CASE systemRunning
    BY <1>3, <2>1, Zenon DEF Bus!Next, Bus!Stop
  <2>3. CASE ~systemRunning
    BY <1>3, <2>1, <2>3, Zenon
  <2> QED
    BY <2>2, <2>3, Zenon
<1>5. CASE ShutNull
  <2>1. /\ UNCHANGED <<got, disp, todo, event, fired, destroyed, bound, systemRunning>>
        /\ shut = "null" /\ (UNCHANGED buf \/ buf' = Append(buf, Null))
    BY <1>5 DEF ShutNull, TryPush, queueVars, shutOnly, threadVars, nodeVars, fireVars
  <2>2. ~systemRunning
    BY <1>1, <2>1, SMTT(30) DEF ShutInv
  <2> QED
    BY <1>3, <2>1, <2>2, ZenonT(30) DEF Bus!Next, Bus!PutMark
<1>6. CASE \/ ShutInterrupt \/ ShutJoin \/ ShutJoined \/ ShutWait \/ (ShutDrain /\ buf = << >>)
  <2>1. UNCHANGED <<got, disp, todo, event, fired, destroyed, buf, bound, systemRunning>>
    BY <1>6, Zenon DEF ShutInterrupt, ShutJoin, ShutJoined, ShutWait, ShutDrain, InterruptAll, queueVars,
         shutOnly, threadVars, nodeVars, fireVars
  <2> QED
    BY <1>3, <2>1
<1> QED
  BY <1>2, <1>4, <1>5, <1>6, Zenon DEF ShutStep

(* The event system implements EventBus, for any threads, events and nodes and
   any length of the queue: each step of switch_event_fire, of a dispatch
   thread, of binding and unbinding and of the shutdown is one step of
   EventBus, or none. *)
THEOREM ImplementsBus == Spec => IsBus
<1>1. Init => Bus!Init
  <2> SUFFICES ASSUME Init PROVE Bus!Init
    OBVIOUS
  <2>1. fired = {} /\ buf = << >> /\ bound = {} /\ systemRunning = TRUE /\ todo = [s \in Slots |-> {}]
    BY DEF Init, QueueInit
  <2>2. life = [e \in Events |-> "new"]
    BY <2>1, SMTT(30) DEF life
  <2>3. calls = [e \in Events |-> {}]
    <3>1. \A e \in Events : UNION {todo[s] : s \in Delivering(e)} = {}
      BY <2>1, SMTT(30) DEF Delivering
    <3> QED
      BY <3>1, SMTT(30) DEF calls
  <2> QED
    BY <2>1, <2>2, <2>3, Zenon DEF Bus!Init
<1>2. EInv /\ EInv' /\ [Next]_vars => [Bus!Next]_(Bus!busVars)
  <2> SUFFICES ASSUME EInv, EInv', [Next]_vars
               PROVE  Bus!Next \/ UNCHANGED <<life, buf, calls, bound, ~systemRunning>>
    BY DEF Bus!busVars
  <2>1. ASSUME UNCHANGED vars PROVE UNCHANGED <<life, buf, calls, bound, ~systemRunning>>
    <3>1. UNCHANGED <<buf, bound, systemRunning, event, fired, destroyed, todo, disp, got>>
      BY <2>1 DEF vars, queueVars, threadVars, nodeVars, fireVars, shutVars
    <3> QED
      BY <3>1, BusStutters, ZenonT(30)
  <2>2. ASSUME NEW c \in Pushers, NEW e \in Events, Fire(c, e) PROVE Bus!Next
    BY <2>2, SendStep, SMTT(30) DEF Bus!Next
  <2>3. ASSUME (\E n \in Nodes : Bind(n)) \/ (\E ns \in SUBSET Nodes : Unbind(ns)) PROVE Bus!Next
    BY <2>3, RebindStep DEF Bus!Next
  <2> QED
    BY <2>1, <2>2, <2>3, BusFire, BusDispatch, BusShut, SMTT(30) DEF Next
<1> QED
  BY <1>1, <1>2, Invariance, PTL DEF Spec, IsBus, Bus!Spec
=============================================================================
