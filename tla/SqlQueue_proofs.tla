-------------------------- MODULE SqlQueue_proofs --------------------------
(***************************************************************************)
(* The SQL queue manager, for any number of callers and of queues, any     *)
(* queue length, any size of a transaction, and whatever fails: the order  *)
(* in which statements leave the queues, and what destroy leaves behind.   *)
(***************************************************************************)
EXTENDS SqlQueue, SequenceTheorems, FiniteSetTheorems, TLAPS

(* The statements in a sequence, and that they are in the order of their
   pushes. *)
In(s) == {s[i] : i \in 1 .. Len(s)} \ {Null}
Rising(s) == \A i, j \in 1 .. Len(s) : i < j /\ s[i] # Null /\ s[j] # Null => s[i] < s[j]

(* An empty queue holds nothing, in order. *)
LEMMA InEmpty == In(<< >>) = {} /\ Rising(<< >>)
  BY DEF In, Rising

(* What a push adds to a queue, and that a later statement keeps it in order. *)
LEMMA InAppend ==
    ASSUME NEW s \in Seq(Nat), NEW x \in Nat
    PROVE  /\ In(Append(s, x)) = In(s) \cup ({x} \ {Null})
           /\ Rising(s) /\ (x = Null \/ \A r \in In(s) : r < x) => Rising(Append(s, x))
<1>1. PICK t : t = Append(s, x)
  BY Zenon
<1>2. /\ Len(t) = Len(s) + 1 /\ Len(s) \in Nat /\ t[Len(s) + 1] = x
      /\ \A i \in 1 .. Len(s) : t[i] = s[i]
  BY <1>1, AppendProperties
<1>3. In(t) = In(s) \cup ({x} \ {Null})
  <2>1. \A i \in 1 .. Len(t) : i \in 1 .. Len(s) \/ i = Len(s) + 1
    BY <1>2
  <2>2. \A i \in 1 .. Len(s) : i \in 1 .. Len(t)
    BY <1>2
  <2>3. Len(s) + 1 \in 1 .. Len(t)
    BY <1>2
  <2>4. In(t) \subseteq In(s) \cup ({x} \ {Null})
    BY <1>2, <2>1, Zenon DEF In
  <2>5. In(s) \cup ({x} \ {Null}) \subseteq In(t)
    BY <1>2, <2>2, <2>3, Zenon DEF In
  <2> QED
    BY <2>4, <2>5
<1>4. ASSUME Rising(s), x = Null \/ \A r \in In(s) : r < x
      PROVE  Rising(t)
  <2> SUFFICES ASSUME NEW i \in 1 .. Len(t), NEW j \in 1 .. Len(t), i < j, t[i] # Null, t[j] # Null
               PROVE  t[i] < t[j]
    BY DEF Rising
  <2>1. i \in 1 .. Len(s) /\ t[i] = s[i] /\ (j \in 1 .. Len(s) \/ j = Len(s) + 1)
    BY <1>2
  <2>2. CASE j \in 1 .. Len(s)
    BY <1>2, <1>4, <2>1, <2>2, Zenon DEF Rising
  <2>3. CASE j = Len(s) + 1
    <3>1. t[j] = x /\ s[i] \in In(s)
      BY <1>2, <2>1, <2>3, Zenon DEF In
    <3> QED
      BY <1>4, <2>1, <3>1, Zenon
  <2> QED
    BY <2>1, <2>2, <2>3
<1> QED
  BY <1>1, <1>3, <1>4, Zenon

(* What a pop leaves of a queue: the rest, in order, after the one it took. *)
LEMMA InTail ==
    ASSUME NEW s \in Seq(Nat), s # << >>
    PROVE  /\ Tail(s) \in Seq(Nat) /\ Head(s) \in Nat
           /\ In(Tail(s)) \subseteq In(s) /\ In(s) \subseteq In(Tail(s)) \cup {Head(s)}
           /\ Rising(s) => Rising(Tail(s))
           /\ Rising(s) /\ Head(s) # Null => \A r \in In(Tail(s)) : Head(s) < r
<1>1. PICK t : t = Tail(s)
  BY Zenon
<1>2. /\ t \in Seq(Nat) /\ Head(s) \in Nat /\ Len(t) = Len(s) - 1
      /\ \A i \in 1 .. Len(t) : t[i] = s[i + 1]
  BY <1>1, HeadTailProperties, Zenon
<1>3. Len(s) \in Nat \ {0} /\ Head(s) = s[1]
  OBVIOUS
<1>4. \A i \in 1 .. Len(t) : i + 1 \in 1 .. Len(s) /\ 1 < i + 1
  BY <1>2, <1>3
<1>5. 1 \in 1 .. Len(s) /\ \A j \in 1 .. Len(s) : j = 1 \/ (j - 1 \in 1 .. Len(t) /\ (j - 1) + 1 = j)
  BY <1>2, <1>3
<1>6. In(t) \subseteq In(s)
  BY <1>2, <1>4, Zenon DEF In
<1>7. In(s) \subseteq In(t) \cup {Head(s)}
  <2> SUFFICES ASSUME NEW r \in In(s), r # Head(s)
               PROVE  r \in In(t)
    OBVIOUS
  <2>1. PICK j \in 1 .. Len(s) : r = s[j] /\ r # Null
    BY Zenon DEF In
  <2>2. j - 1 \in 1 .. Len(t) /\ r = t[j - 1]
    BY <1>2, <1>3, <1>5, <2>1, Zenon
  <2> QED
    BY <2>1, <2>2, Zenon DEF In
<1>8. ASSUME Rising(s)
      PROVE  Rising(t)
  <2> SUFFICES ASSUME NEW i \in 1 .. Len(t), NEW j \in 1 .. Len(t), i < j, t[i] # Null, t[j] # Null
               PROVE  t[i] < t[j]
    BY DEF Rising
  <2>1. i + 1 < j + 1
    BY <1>2
  <2> QED
    BY <1>2, <1>4, <1>8, <2>1, Zenon DEF Rising
<1>9. ASSUME Rising(s), Head(s) # Null, NEW r \in In(t)
      PROVE  Head(s) < r
  <2>1. PICK i \in 1 .. Len(t) : r = t[i] /\ r # Null
    BY Zenon DEF In
  <2> QED
    BY <1>2, <1>3, <1>4, <1>5, <1>9, <2>1, Zenon DEF Rising
<1> QED
  BY <1>1, <1>2, <1>6, <1>7, <1>8, <1>9, Zenon

-----------------------------------------------------------------------------
(* The invariant. *)

CallPlaces == {"idle", "push", "wake", "signal", "retry", "interrupt", "stop", "join", "destroyed"}
Busy == {"lock", "loop", "pauses", "clear", "work", "begin", "scan", "execute", "commit", "check",
         "enter", "sleep", "wait", "woken"}

(* The types that the argument needs, with the bounds left open. *)
Types ==
    /\ queue \in [Positions -> Seq(Nat)] /\ pushes \in Nat /\ mark \in Nat /\ mark <= pushes
    /\ pos \in 0 .. NumQ /\ (sql \in {"pauses", "clear", "flush"} => pos \in Positions)
    /\ pc \in [Wakers -> CallPlaces] /\ arg \in [Wakers -> Positions]

(* Every queue is in the order of the pushes; NULL comes from stop only. *)
SortInv ==
    \A q \in Positions : /\ Rising(queue[q]) /\ \A r \in In(queue[q]) : r <= pushes
                         /\ Alive => \A i \in 1 .. Len(queue[q]) : queue[q][i] # Null

(* Until destroy is called the thread is in its loop, or nothing is queued. *)
RunInv ==
    Alive => \/ sql \in Busy /\ threadRunning = 1
             \/ /\ sql \in {"off", "connect", "gone"} /\ threadRunning = 0
                /\ \A p \in Pushers : pc[p] # "push"
                /\ \A q \in Positions : In(queue[q]) = {}

(* What is on the queues the scan has passed came after it began. *)
ScanInv ==
    sql = "scan" /\ Alive => \A q \in Positions : q < pos => \A r \in In(queue[q]) : r > mark

(* What was queued before destroy leaves the queues with the flush. *)
StopInv ==
    /\ \A r \in before : r \in Nat /\ r <= pushes
    /\ Alive \/ sql \in {"off", "connect"} => before = {}
    /\ sql = "flush" => \A q \in Positions : q < pos => before \cap In(queue[q]) = {}
    /\ sql \in {"release", "gone"} => \A q \in Positions : before \cap In(queue[q]) = {}
    /\ pc[Stopper] # "destroyed" => lost = {}
    /\ before \cap lost = {}

SQInv == Types /\ SortInv /\ RunInv /\ ScanInv /\ StopInv

(* The queue of the specification in the terms of these lemmas. *)
LEMMA InIsInQueue ==
    ASSUME NEW q \in Positions
    PROVE  InQueue(q) = In(queue[q]) /\ InQueue(q)' = In(queue'[q])
  BY Zenon DEF InQueue, In

(* The invariant holds when the manager has been made and not started. *)
THEOREM InitInv == Init => SQInv
<1> SUFFICES ASSUME Init PROVE SQInv
  OBVIOUS
<1>1. /\ Stopper \in Wakers /\ pc[Stopper] = "idle"
      /\ \A q \in Positions : queue[q] = << >>
  BY DEF Init, Wakers
<1>2. Types
  BY SqlAssumption DEF Init, Types, Positions, CallPlaces
<1>3. SortInv
  <2>1. \A i \in 1 .. Len(<< >>) : FALSE
    OBVIOUS
  <2> QED
    BY <1>1, <2>1, InEmpty, Zenon DEF SortInv
<1>4. RunInv
  BY <1>1, InEmpty, Zenon DEF Init, RunInv, Wakers
<1>5. ScanInv /\ StopInv
  BY <1>1, Zenon DEF Init, ScanInv, StopInv
<1> QED
  BY <1>2, <1>3, <1>4, <1>5 DEF SQInv

-----------------------------------------------------------------------------
(* What a step may do to a queue. *)
Moved(q) ==
    \/ queue'[q] = queue[q]
    \/ queue'[q] = << >>
    \/ queue[q] # << >> /\ queue'[q] = Tail(queue[q])
    \/ queue'[q] = Append(queue[q], Null) /\ pc[Stopper] = "interrupt"
    \/ /\ queue'[q] = Append(queue[q], pushes + 1) /\ pushes' = pushes + 1
       /\ \E p \in Pushers : pc[p] = "push"

(* A queue that moved is still in order, holds nothing new but the statement
   being pushed, and what left it was older than what stayed. *)
LEMMA MovedKeeps ==
    ASSUME Types, SortInv, NEW q \in Positions, Moved(q), pushes' \in {pushes, pushes + 1}
    PROVE  /\ queue'[q] \in Seq(Nat) /\ Rising(queue'[q])
           /\ \A r \in In(queue'[q]) :
                  /\ r <= pushes'
                  /\ r \in In(queue[q]) \/ (r = pushes + 1 /\ \E p \in Pushers : pc[p] = "push")
           /\ \A s \in In(queue[q]) \ In(queue'[q]) :
                  \A r \in In(queue[q]) : r < s => r \notin In(queue'[q])
           /\ pc[Stopper] = "idle" /\ (\A i \in 1 .. Len(queue[q]) : queue[q][i] # Null)
                  => \A i \in 1 .. Len(queue'[q]) : queue'[q][i] # Null
<1> DEFINE s == queue[q]
           t == queue'[q]
<1>1. /\ s \in Seq(Nat) /\ Rising(s) /\ pushes \in Nat /\ pushes' \in Nat /\ pushes <= pushes'
      /\ \A r \in In(s) : r \in Nat /\ r <= pushes /\ r <= pushes' /\ r < pushes + 1
  <2>1. s \in Seq(Nat) /\ pushes \in Nat
    BY DEF Types
  <2>2. Rising(s) /\ \A r \in In(s) : r <= pushes
    BY Zenon DEF SortInv
  <2>3. \A r \in In(s) : r \in Nat
    BY <2>1 DEF In
  <2> QED
    BY <2>1, <2>2, <2>3
<1> HIDE DEF s, t
<1>2. CASE t = s
  BY <1>1, <1>2, Zenon DEF s, t
<1>3. CASE t = << >>
  <2>1. \A i \in 1 .. Len(<< >>) : FALSE
    OBVIOUS
  <2>2. << >> \in Seq(Nat)
    OBVIOUS
  <2> QED
    BY <1>1, <1>3, <2>1, <2>2, InEmpty, Zenon DEF s, t
<1>4. CASE s # << >> /\ t = Tail(s)
  <2>1. /\ t \in Seq(Nat) /\ Rising(t) /\ In(t) \subseteq In(s) /\ In(s) \subseteq In(t) \cup {Head(s)}
        /\ Head(s) \in Nat /\ (Head(s) # Null => \A r \in In(t) : Head(s) < r)
    BY <1>1, <1>4, InTail, Zenon
  <2>2. ASSUME NEW u \in In(s) \ In(t), NEW r \in In(s), r < u
        PROVE  r \notin In(t)
    <3>1. u = Head(s) /\ u # Null
      BY <2>1, Zenon DEF In
    <3>2. SUFFICES ASSUME r \in In(t) PROVE FALSE
      OBVIOUS
    <3>3. u < r /\ u \in Nat /\ r \in Nat
      BY <1>1, <2>1, <3>1, <3>2, Zenon
    <3> QED
      BY <2>2, <3>3
  <2>3. ASSUME \A i \in 1 .. Len(s) : s[i] # Null
        PROVE  \A i \in 1 .. Len(t) : t[i] # Null
    <3>1. Len(t) = Len(s) - 1 /\ \A i \in 1 .. Len(t) : t[i] = s[i + 1]
      BY <1>1, <1>4, HeadTailProperties, Zenon
    <3>2. \A i \in 1 .. Len(t) : i + 1 \in 1 .. Len(s)
      BY <1>1, <3>1
    <3> QED
      BY <2>3, <3>1, <3>2, Zenon
  <2> QED
    BY <1>1, <2>1, <2>2, <2>3, Zenon DEF s, t
<1>5. ASSUME NEW x \in Nat, t = Append(s, x),
             x = Null \/ (x = pushes + 1 /\ pushes' = pushes + 1 /\ \E p \in Pushers : pc[p] = "push")
      PROVE  /\ t \in Seq(Nat) /\ Rising(t)
             /\ \A r \in In(t) :
                    /\ r <= pushes'
                    /\ r \in In(s) \/ (r = pushes + 1 /\ \E p \in Pushers : pc[p] = "push")
             /\ \A u \in In(s) \ In(t) : \A r \in In(s) : r < u => r \notin In(t)
             /\ x # Null /\ (\A i \in 1 .. Len(s) : s[i] # Null) => \A i \in 1 .. Len(t) : t[i] # Null
  <2>1. t \in Seq(Nat) /\ Len(s) \in Nat /\ Len(t) = Len(s) + 1 /\ t[Len(s) + 1] = x
    BY <1>1, <1>5
  <2>2. \A i \in 1 .. Len(s) : t[i] = s[i]
    BY <1>1, <1>5, AppendProperties
  <2>3. In(t) = In(s) \cup ({x} \ {Null}) /\ Rising(t)
    BY <1>1, <1>5, InAppend, Zenon
  <2>4. \A i \in 1 .. Len(t) : i \in 1 .. Len(s) \/ i = Len(s) + 1
    BY <2>1
  <2>5. x # Null => x = pushes + 1 /\ x <= pushes' /\ \E p \in Pushers : pc[p] = "push"
    BY <1>1, <1>5
  <2> QED
    BY <1>1, <2>1, <2>2, <2>3, <2>4, <2>5, Zenon
<1>6. Null \in Nat /\ pushes + 1 \in Nat /\ pushes + 1 # Null
  BY <1>1 DEF Null
<1>7. CASE t = Append(s, Null) /\ pc[Stopper] = "interrupt"
  BY <1>5, <1>6, <1>7 DEF s, t
<1>8. CASE /\ t = Append(s, pushes + 1) /\ pushes' = pushes + 1
           /\ \E p \in Pushers : pc[p] = "push"
  BY <1>5, <1>6, <1>8, Zenon DEF s, t
<1> QED
  BY <1>2, <1>3, <1>4, <1>7, <1>8, Zenon DEF Moved, s, t

-----------------------------------------------------------------------------
(* What the steps do: to the queues, to the callers, to the thread. *)

(* do_trans pops from the queue it is at. *)
LEMMA ScanMoves ==
    ASSUME Types, Scan
    PROVE  queue' \in [Positions -> Seq(Nat)] /\ \A q \in Positions : Moved(q)
<1>1. CASE Full \/ pos = NumQ
  BY <1>1 DEF Scan, Types, Moved
<1>2. CASE ~(Full \/ pos = NumQ)
  <2>1. pos \in Positions
    BY <1>2, SqlAssumption DEF Types, Positions
  <2>2. queue' = [queue EXCEPT ![pos] = IF @ = << >> THEN @ ELSE Tail(@)]
    BY <1>2, Zenon DEF Scan
  <2>3. queue[pos] \in Seq(Nat) /\ (queue[pos] # << >> => Tail(queue[pos]) \in Seq(Nat))
    BY <2>1, HeadTailProperties DEF Types
  <2> QED
    BY <2>1, <2>2, <2>3 DEF Types, Moved
<1> QED
  BY <1>1, <1>2

(* The steps that touch a queue. *)
LEMMA QueueCases ==
    ASSUME [Next]_vars
    PROVE  \/ UNCHANGED queue \/ \E p \in Pushers : TryPush(p)
           \/ StopInterrupt \/ Scan \/ Clear \/ Flush \/ queue' = [q \in Positions |-> << >>]
  BY Zenon DEF Next, PushCall, Pushing, PushConfirm, Pause, Resume, Going, TryCond, Signal, Retry,
       CorePause, CoreResume, Start, Destroy, Stopping, StopLoop, Join, SqlThread,
       Connect, Lock, Loop, Pauses, Work, Begin, Execute, Commit, Check, Enter, Sleep,
       Woken, Release, others, vars

(* Every step moves each queue by a push, a pop or not at all. *)
LEMMA QueuesMove ==
    ASSUME Types, [Next]_vars
    PROVE  /\ queue' \in [Positions -> Seq(Nat)] /\ pushes' \in {pushes, pushes + 1}
           /\ \A q \in Positions : Moved(q)
<1>1. Null \in Nat /\ pushes \in Nat /\ pushes + 1 \in Nat
  BY DEF Types, Null
<1>2. pushes' \in {pushes, pushes + 1}
  BY Zenon DEF Next, PushCall, Pushing, TryPush, PushConfirm, Pause, Resume, Going, TryCond, Signal, Retry,
       CorePause, CoreResume, Start, Destroy, Stopping, StopLoop, StopInterrupt, Join, SqlThread,
       Connect, Lock, Loop, Pauses, Clear, Work, Begin, Scan, Execute, Commit, Check, Enter, Sleep,
       Woken, Flush, Release, others, vars
<1>3. CASE UNCHANGED queue
  BY <1>2, <1>3, Zenon DEF Types, Moved
<1>4. ASSUME NEW p \in Pushers, TryPush(p)
      PROVE  queue' \in [Positions -> Seq(Nat)] /\ \A q \in Positions : Moved(q)
  <2>1. arg[p] \in Positions /\ queue[arg[p]] \in Seq(Nat)
    BY DEF Types, Wakers
  <2>2. Append(queue[arg[p]], pushes + 1) \in Seq(Nat)
    BY <1>1, <2>1
  <2>3. /\ queue' = [queue EXCEPT ![arg[p]] = Append(@, pushes + 1)] /\ pushes' = pushes + 1
        /\ pc[p] = "push"
    BY <1>4, Zenon DEF TryPush
  <2> QED
    BY <2>1, <2>2, <2>3 DEF Types, Moved
<1>5. CASE StopInterrupt
  <2>1. arg[Stopper] \in Positions /\ queue[arg[Stopper]] \in Seq(Nat)
    BY DEF Types, Wakers
  <2>2. Append(queue[arg[Stopper]], Null) \in Seq(Nat)
    BY <1>1, <2>1
  <2>3. queue' = [queue EXCEPT ![arg[Stopper]] = Append(@, Null)] /\ pc[Stopper] = "interrupt"
    BY <1>5, Zenon DEF StopInterrupt
  <2> QED
    BY <1>2, <2>1, <2>2, <2>3, Zenon DEF Types, Moved
<1>6. CASE Scan
  BY <1>2, <1>6, ScanMoves, Zenon
<1>7. CASE Clear \/ Flush
  <2>1. pos \in Positions /\ queue' = [queue EXCEPT ![pos] = << >>]
    BY <1>7, Zenon DEF Clear, Flush, DoFlush, Types
  <2> QED
    BY <1>2, <2>1 DEF Types, Moved
<1>8. CASE queue' = [q \in Positions |-> << >>]
  BY <1>2, <1>8 DEF Moved
<1> QED
  BY <1>2, <1>3, <1>4, <1>5, <1>6, <1>7, <1>8, QueueCases, Zenon

(* destroy is called once, and only the join ends it. *)
LEMMA CallersMove ==
    ASSUME Types, [Next]_vars
    PROVE  /\ pc' \in [Wakers -> CallPlaces] /\ arg' \in [Wakers -> Positions]
           /\ Alive' => Alive
           /\ Alive /\ ~Alive' => Destroy
           /\ pc[Stopper] = "destroyed" => pc'[Stopper] = "destroyed"
           /\ pc'[Stopper] = "destroyed" => Join \/ pc[Stopper] = "destroyed"
           /\ \A p \in Pushers : pc'[p] = "push" => pc[p] = "push" \/ (Alive /\ threadRunning = 1)
<1> DEFINE Good ==
        /\ pc' \in [Wakers -> CallPlaces] /\ arg' \in [Wakers -> Positions]
        /\ pc'[Stopper] = "idle" => pc[Stopper] = "idle"
        /\ pc[Stopper] = "idle" /\ pc'[Stopper] # "idle" => Destroy
        /\ pc[Stopper] = "destroyed" => pc'[Stopper] = "destroyed"
        /\ pc'[Stopper] = "destroyed" => Join \/ pc[Stopper] = "destroyed"
        /\ \A p \in Pushers : pc'[p] = "push" => pc[p] = "push" \/ (Alive /\ threadRunning = 1)
<1> SUFFICES Good
  BY Zenon DEF Alive
<1>1. /\ Stopper \in Wakers /\ Pushers \subseteq Wakers /\ Stopper \notin Pushers /\ 0 \in Positions
      /\ \A w \in Wakers : arg[w] \in Positions
  BY SqlAssumption DEF Wakers, Positions, Types
<1>2. CASE UNCHANGED <<pc, arg>>
  BY <1>2, Zenon DEF Types
<1>3. ASSUME NEW p \in Pushers, NEW n \in 0 .. NumQ, PushCall(p, n)
      PROVE  Good
  <2>1. (IF n > NumQ - 1 THEN 0 ELSE n) \in Positions
    BY SqlAssumption DEF Positions
  <2>2. Alive /\ pc' = [pc EXCEPT ![p] = IF Drops THEN "wake" ELSE "push"]
    BY <1>3, Zenon DEF PushCall, MayPush
  <2>3. arg' \in [Wakers -> Positions]
    BY <1>1, <1>3, <2>1, Zenon DEF PushCall, Types
  <2>4. CASE Drops
    BY <1>1, <2>2, <2>3, <2>4, Zenon DEF Types, CallPlaces
  <2>5. CASE ~Drops
    <3>1. threadRunning = 1
      BY <2>5, Zenon DEF Drops
    <3> QED
      BY <1>1, <2>2, <2>3, <2>5, <3>1, Zenon DEF Types, CallPlaces
  <2> QED
    BY <2>4, <2>5
<1>4. ASSUME NEW p \in Pushers, arg' = arg,
             pc' = pc \/ \E c \in {"wake"} : pc' = [pc EXCEPT ![p] = c]
      PROVE  Good
  BY <1>1, <1>4, Zenon DEF Types, CallPlaces
<1>5. ASSUME NEW w \in Wakers, Going(w)
      PROVE  Good
  <2>1. /\ pc[w] \in {"wake", "signal", "retry"} /\ pc[Stopper] # "destroyed"
        /\ \E c \in {"wake", "signal", "retry", "idle", "join", "stop"} :
                pc' = [pc EXCEPT ![w] = c] /\ (w = Stopper => c # "idle")
        /\ arg' = arg \/ arg' = [arg EXCEPT ![w] = 0]
    BY <1>5, Zenon DEF Going, Exists, TryCond, Signal, Retry, Returned, After
  <2> QED
    BY <1>1, <2>1, ZenonT(30) DEF Types, CallPlaces
<1>6. CASE Destroy
  <2>1. \E c \in {"stop", "wake"} : pc' = [pc EXCEPT ![Stopper] = c]
    BY <1>6, Zenon DEF Destroy
  <2>2. arg' = arg /\ pc[Stopper] = "idle"
    BY <1>6, Zenon DEF Destroy
  <2> QED
    BY <1>1, <1>6, <2>1, <2>2 DEF Types, CallPlaces
<1>7. CASE StopLoop \/ StopInterrupt
  <2>1. /\ pc[Stopper] \in {"stop", "interrupt"}
        /\ pc' = pc \/ \E c \in {"interrupt", "wake"} : pc' = [pc EXCEPT ![Stopper] = c]
    BY <1>7, Zenon DEF StopLoop, StopInterrupt
  <2>2. arg' \in [Wakers -> Positions]
    <3>1. CASE StopLoop
      BY <1>1, <3>1, Zenon DEF StopLoop, Types
    <3>2. CASE StopInterrupt
      <4>1. arg[Stopper] + 1 < NumQ => arg[Stopper] + 1 \in Positions
        BY <1>1, SqlAssumption DEF Positions
      <4>2. arg' = arg \/ (arg[Stopper] + 1 < NumQ /\ arg' = [arg EXCEPT ![Stopper] = arg[Stopper] + 1])
        BY <3>2, Zenon DEF StopInterrupt
      <4> QED
        BY <1>1, <4>1, <4>2, Zenon DEF Types
    <3> QED
      BY <1>7, <3>1, <3>2
  <2> QED
    BY <1>1, <2>1, <2>2, Zenon DEF Types, CallPlaces
<1>8. CASE Join
  <2>1. pc[Stopper] = "join" /\ pc' = [pc EXCEPT ![Stopper] = "destroyed"] /\ arg' = arg
    BY <1>8, Zenon DEF Join
  <2> QED
    BY <1>1, <1>8, <2>1 DEF Types, CallPlaces
<1>9. \/ UNCHANGED <<pc, arg>>
      \/ \E p \in Pushers, n \in 0 .. NumQ : PushCall(p, n)
      \/ \E p \in Pushers : arg' = arg /\ (pc' = pc \/ \E c \in {"wake"} : pc' = [pc EXCEPT ![p] = c])
      \/ \E w \in Wakers : Going(w)
      \/ Destroy \/ StopLoop \/ StopInterrupt \/ Join
  BY Zenon DEF Next, Pushing, TryPush, PushConfirm, Pause, Resume, CorePause, CoreResume, Start,
       Stopping, SqlThread, Connect, Lock, Loop, Pauses, Clear, Work, Begin, Scan, Execute, Commit,
       Check, Enter, Sleep, Woken, Flush, Release, others, callVars, vars
<1> HIDE DEF Good
<1> QED
  BY <1>2, <1>3, <1>4, <1>5, <1>6, <1>7, <1>8, <1>9, Zenon

(* Who moves the thread, and how it moves. *)
LEMMA ThreadMoves ==
    ASSUME [Next]_vars
    PROVE  \/ UNCHANGED <<sql, pos, mark, threadRunning>>
           \/ sql = "wait" /\ sql' = "woken" /\ UNCHANGED <<pos, mark, threadRunning>>
           \/ Destroy \/ Start \/ SqlThread
  BY Zenon DEF Next, Pushing, PushCall, TryPush, PushConfirm, Pause, Resume, Going, TryCond, Signal,
       Retry, CorePause, CoreResume, Stopping, StopLoop, StopInterrupt, Join, sqlVars, vars

(* What was queued at destroy, and what the join found lost, is noted once. *)
LEMMA HistoryMoves ==
    ASSUME [Next]_vars
    PROVE  (before' = before \/ Destroy) /\ (lost' = lost \/ Join)
  BY Zenon DEF Next, Pushing, PushCall, TryPush, PushConfirm, Pause, Resume, Going, TryCond, Signal,
       Retry, CorePause, CoreResume, Stopping, StopLoop, StopInterrupt, Join, Start, Destroy, SqlThread,
       Connect, Lock, Loop, Pauses, Clear, Work, Begin, Scan, Execute, Commit, Check, Enter, Sleep,
       Woken, Flush, DoFlush, Release, others, histVars, vars

(* The places the thread goes to. *)
LEMMA PlacesMove ==
    ASSUME Types, [Next]_vars
    PROVE  /\ mark' \in {mark, pushes, 0}
           /\ pos' \in 0 .. NumQ /\ (sql' \in {"pauses", "clear", "flush"} => pos' \in Positions)
           /\ sql' = "scan" => \/ pos' = 0
                               \/ sql = "scan" /\ UNCHANGED <<pos, mark>>
                               \/ Scan /\ pos' = pos + 1 /\ mark' = mark
           /\ sql' = "flush" => \/ pos' = 0
                                \/ sql = "flush" /\ UNCHANGED pos
                                \/ Flush /\ pos' = pos + 1
           /\ sql' \in {"release", "gone"} =>
                  sql \in {"release", "gone", "connect"} \/ (Flush /\ pos + 1 >= NumQ)
           /\ sql' \in {"off", "connect"} => sql \in {"off", "connect"}
<1>1. NumQ \in Nat \ {0} /\ pos \in 0 .. NumQ /\ 0 \in Positions /\ Positions = 0 .. NumQ - 1
  BY SqlAssumption DEF Positions, Types
<1>2. CASE UNCHANGED <<sql, pos, mark, threadRunning>>
  BY <1>1, <1>2 DEF Types
<1>3. CASE sql = "wait" /\ sql' = "woken" /\ UNCHANGED <<pos, mark, threadRunning>>
  BY <1>1, <1>3
<1>4. CASE Destroy
  BY <1>1, <1>4 DEF Destroy, sqlVars, Types
<1>5. CASE Start
  BY <1>1, <1>5 DEF Start, Goes
<1>6. CASE Connect
  BY <1>1, <1>6 DEF Connect, Goes
<1>7. CASE Lock \/ Work \/ Check \/ Enter \/ Sleep \/ Woken
  BY <1>1, <1>7 DEF Lock, Work, Check, Enter, Sleep, Woken, Goes
<1>8. CASE Loop
  BY <1>1, <1>8 DEF Loop, Goes
<1>9. CASE Pauses
  BY <1>1, <1>9 DEF Pauses, Goes, Types
<1>10. CASE Clear
  BY <1>1, <1>10 DEF Clear, Goes
<1>11. CASE Begin \/ Execute \/ Commit
  BY <1>1, <1>11 DEF Begin, Execute, Commit
<1>12. CASE Scan
  <2>1. /\ sql = "scan" /\ mark' = mark /\ sql' \in {"scan", "execute", "commit"}
        /\ pos' = pos \/ (pos # NumQ /\ pos' = pos + 1)
    BY <1>12, Zenon DEF Scan
  <2> QED
    BY <1>1, <1>12, <2>1
<1>13. CASE Flush
  <2>1. /\ sql = "flush" /\ mark' = mark
        /\ \/ pos + 1 < NumQ /\ pos' = pos + 1 /\ sql' = "flush"
           \/ ~(pos + 1 < NumQ) /\ pos' = 0 /\ sql' = "release"
    BY <1>13, Zenon DEF Flush, Goes
  <2> QED
    BY <1>1, <1>13, <2>1
<1>14. CASE Release
  BY <1>1, <1>14 DEF Release, Goes
<1> QED
  BY <1>2, <1>3, <1>4, <1>5, <1>6, <1>7, <1>8, <1>9, <1>10, <1>11, <1>12, <1>13, <1>14, ThreadMoves,
     Zenon DEF SqlThread

-----------------------------------------------------------------------------
(* Each part of the invariant is kept. *)

(* The types of the queues and of all places are kept. *)
LEMMA TypesStep ==
    ASSUME Types, [Next]_vars
    PROVE  Types'
<1>1. /\ queue' \in [Positions -> Seq(Nat)] /\ pushes' \in {pushes, pushes + 1}
      /\ pc' \in [Wakers -> CallPlaces] /\ arg' \in [Wakers -> Positions]
      /\ mark' \in {mark, pushes, 0} /\ pos' \in 0 .. NumQ
      /\ sql' \in {"pauses", "clear", "flush"} => pos' \in Positions
  BY QueuesMove, CallersMove, PlacesMove, Zenon
<1>2. pushes' \in Nat /\ mark' \in Nat /\ mark' <= pushes'
  BY <1>1 DEF Types
<1> QED
  BY <1>1, <1>2, Zenon DEF Types

(* Queues stay sorted by the order of the pushes. *)
LEMMA SortStep ==
    ASSUME Types, SortInv, [Next]_vars
    PROVE  SortInv'
<1>1. (\A q \in Positions : Moved(q)) /\ pushes' \in {pushes, pushes + 1} /\ (Alive' => Alive)
  BY QueuesMove, CallersMove, Zenon
<1> SUFFICES ASSUME NEW q \in Positions
             PROVE  /\ Rising(queue'[q]) /\ \A r \in In(queue'[q]) : r <= pushes'
                    /\ Alive' => \A i \in 1 .. Len(queue'[q]) : queue'[q][i] # Null
  BY Zenon DEF SortInv, Rising, In
<1>2. Moved(q)
  BY <1>1
<1>3. /\ Rising(queue'[q]) /\ \A r \in In(queue'[q]) : r <= pushes'
      /\ pc[Stopper] = "idle" /\ (\A i \in 1 .. Len(queue[q]) : queue[q][i] # Null)
             => \A i \in 1 .. Len(queue'[q]) : queue'[q][i] # Null
  BY <1>1, <1>2, MovedKeeps, Zenon
<1>4. Alive => \A i \in 1 .. Len(queue[q]) : queue[q][i] # Null
  BY Zenon DEF SortInv
<1> QED
  BY <1>1, <1>3, <1>4, Zenon DEF Alive

(* Nothing gets on a queue but the statement of a caller that is at it. *)
LEMMA OnlyPushed ==
    ASSUME Types, SortInv, [Next]_vars, NEW q \in Positions, NEW r \in In(queue'[q])
    PROVE  r \in In(queue[q]) \/ (r = pushes + 1 /\ \E p \in Pushers : pc[p] = "push")
<1>1. Moved(q) /\ pushes' \in {pushes, pushes + 1}
  BY QueuesMove, Zenon
<1> QED
  BY <1>1, MovedKeeps, Zenon

(* thread_running agrees with the place of the thread, and while it does not
   run nobody is in a push and nothing is queued. *)
LEMMA RunStep ==
    ASSUME Types, SortInv, RunInv, [Next]_vars
    PROVE  RunInv'
<1> SUFFICES ASSUME Alive'
             PROVE  \/ sql' \in Busy /\ threadRunning' = 1
                    \/ /\ sql' \in {"off", "connect", "gone"} /\ threadRunning' = 0
                       /\ \A p \in Pushers : pc'[p] # "push"
                       /\ \A q \in Positions : In(queue'[q]) = {}
  BY Zenon DEF RunInv, In
<1>1. Alive /\ ~Destroy
  <2>1. Alive
    BY CallersMove, Zenon
  <2>2. Destroy => pc'[Stopper] # "idle"
    BY DEF Destroy, Types, Wakers
  <2> QED
    BY <2>1, <2>2, Zenon DEF Alive
<1>2. CASE sql \in Busy /\ threadRunning = 1
  <2>1. CASE UNCHANGED <<sql, pos, mark, threadRunning>>
    BY <1>2, <2>1, Zenon
  <2>2. CASE sql = "wait" /\ sql' = "woken" /\ UNCHANGED <<pos, mark, threadRunning>>
    BY <1>2, <2>2 DEF Busy
  <2>3. ~Start /\ ~Connect /\ ~Flush /\ ~Release
    BY <1>2, Zenon DEF Busy, Start, Connect, Flush, Release
  <2>4. CASE Lock \/ Loop \/ Pauses \/ Clear \/ Work \/ Check \/ Enter \/ Sleep \/ Woken
    BY <1>2, <2>4 DEF Lock, Loop, Pauses, Clear, Work, Check, Enter, Sleep, Woken, Goes, Busy
  <2>5. CASE Begin \/ Scan \/ Execute \/ Commit
    <3>1. sql' \in {"scan", "execute", "commit", "work", "check"} /\ threadRunning' = threadRunning
      BY <2>5, Zenon DEF Begin, Scan, Execute, Commit
    <3> QED
      BY <1>2, <3>1, Zenon DEF Busy
  <2> QED
    BY <1>1, <2>1, <2>2, <2>3, <2>4, <2>5, ThreadMoves, Zenon DEF SqlThread
<1>3. CASE /\ sql \in {"off", "connect", "gone"} /\ threadRunning = 0
           /\ \A p \in Pushers : pc[p] # "push"
           /\ \A q \in Positions : In(queue[q]) = {}
  <2>1. \A p \in Pushers : pc'[p] # "push"
    <3>1. threadRunning # 1
      BY <1>3
    <3> QED
      BY <1>3, <3>1, CallersMove, Zenon
  <2>2. \A q \in Positions : In(queue'[q]) = {}
    BY <1>3, OnlyPushed, Zenon
  <2>3. CASE UNCHANGED <<sql, pos, mark, threadRunning>>
    BY <1>3, <2>1, <2>2, <2>3, Zenon
  <2>4. CASE Start \/ Connect
    <3>1. \/ sql' = "lock" /\ threadRunning' = 1
          \/ sql' \in {"connect", "gone"} /\ threadRunning' = threadRunning
      BY <2>4, Zenon DEF Start, Connect, Goes
    <3> QED
      BY <1>3, <2>1, <2>2, <3>1, Zenon DEF Busy
  <2>5. \/ UNCHANGED <<sql, pos, mark, threadRunning>> \/ Start \/ Connect
    <3>1. sql # "wait" /\ (SqlThread => Connect)
      BY <1>3, Zenon DEF SqlThread, Lock, Loop, Pauses, Clear, Work, Begin, Scan, Execute, Commit, Check,
                  Enter, Sleep, Woken, Flush, Release
    <3> QED
      BY <1>1, <3>1, ThreadMoves, Zenon
  <2> QED
    BY <2>3, <2>4, <2>5, Zenon
<1> QED
  BY <1>1, <1>2, <1>3, Zenon DEF RunInv

(* What do_trans has passed by on lower queues came after it began to look. *)
LEMMA ScanStep ==
    ASSUME Types, SortInv, ScanInv, [Next]_vars
    PROVE  ScanInv'
<1> SUFFICES ASSUME sql' = "scan", Alive', NEW q \in Positions, q < pos', NEW r \in In(queue'[q])
             PROVE  r > mark'
  BY Zenon DEF ScanInv, In
<1>1. Alive /\ q \in Nat /\ pos \in Nat /\ mark <= pushes /\ mark \in Nat /\ pushes \in Nat
  BY CallersMove DEF Types, Positions
<1>2. r \in In(queue[q]) \/ r = pushes + 1
  BY OnlyPushed, Zenon
<1>3. pos' # 0
  BY <1>1
<1>4. CASE sql = "scan" /\ UNCHANGED <<pos, mark>>
  <2>1. CASE r \in In(queue[q])
    BY <1>1, <1>4, <2>1, Zenon DEF ScanInv
  <2>2. CASE r = pushes + 1
    BY <1>1, <1>4, <2>2
  <2> QED
    BY <1>2, <2>1, <2>2
<1>5. CASE Scan /\ pos' = pos + 1 /\ mark' = mark
  <2>1. queue[pos] = << >> /\ pos \in Positions
    <3>1. ~(Full \/ pos = NumQ)
      BY <1>1, <1>5 DEF Scan
    <3>2. pos \in Positions
      BY <1>1, <3>1, SqlAssumption DEF Types, Positions
    <3>3. queue[pos] = << >> \/ Head(queue[pos]) = Null
      <4>1. pos' # pos
        BY <1>1, <1>5
      <4> QED
        BY <1>5, <3>1, <4>1, Zenon DEF Scan
    <3>4. queue[pos] # << >> => Head(queue[pos]) # Null
      <4> SUFFICES ASSUME queue[pos] # << >> PROVE Head(queue[pos]) # Null
        OBVIOUS
      <4>1. queue[pos] \in Seq(Nat)
        BY <3>2 DEF Types
      <4>2. 1 \in 1 .. Len(queue[pos]) /\ Head(queue[pos]) = queue[pos][1]
        BY <4>1
      <4>3. queue[pos][1] # Null
        BY <1>1, <3>2, <4>2, Zenon DEF SortInv
      <4> QED
        BY <4>2, <4>3, Zenon
    <3> QED
      BY <3>2, <3>3, <3>4, Zenon
  <2>2. queue' = queue
    <3>1. queue' = [queue EXCEPT ![pos] = queue[pos]] \/ queue' = queue
      BY <1>5, <2>1, Zenon DEF Scan
    <3> QED
      BY <3>1 DEF Types
  <2>3. q # pos
    BY <2>1, <2>2, InEmpty, Zenon
  <2>4. q < pos
    BY <1>1, <1>5, <2>3
  <2>5. sql = "scan" /\ r \in In(queue[q])
    BY <1>5, <2>2, Zenon DEF Scan
  <2> QED
    BY <1>1, <1>5, <2>4, <2>5, Zenon DEF ScanInv
<1> QED
  BY <1>3, <1>4, <1>5, PlacesMove, Zenon

(* What was queued at destroy is still queued or was taken out by the thread,
   which leaves only after it has emptied every queue. *)
LEMMA StopStep ==
    ASSUME SQInv, [Next]_vars
    PROVE  StopInv'
<1>1. Types /\ SortInv /\ RunInv /\ StopInv
  BY DEF SQInv
<1>2. pushes \in Nat /\ pushes' \in {pushes, pushes + 1} /\ Stopper \in Wakers /\ Queued \subseteq Nat
  <2>1. pushes \in Nat /\ Stopper \in Wakers
    BY <1>1 DEF Types, Wakers
  <2>2. pushes' \in {pushes, pushes + 1}
    BY <1>1, QueuesMove, Zenon
  <2>3. Queued \subseteq Nat
    BY <1>1 DEF Queued, InQueue, Types
  <2> QED
    BY <2>1, <2>2, <2>3
<1>3. CASE Destroy
  <2>1. /\ Alive /\ before' = Queued /\ UNCHANGED <<queue, sql, pos, pushes, lost>>
        /\ pc' = [pc EXCEPT ![Stopper] = IF threadRunning = 1 THEN "stop" ELSE "wake"]
    BY <1>3, Zenon DEF Destroy, sqlVars, Alive
  <2>2. pc'[Stopper] # "idle" /\ pc'[Stopper] # "destroyed" /\ lost = {}
    BY <1>1, <1>2, <2>1 DEF Types, StopInv, Alive
  <2>3. ~Alive'
    BY <2>2, Zenon DEF Alive
  <2>4. Queued = UNION {In(queue[q]) : q \in Positions}
    BY Zenon DEF Queued, InQueue, In
  <2>5. \A r \in Queued : r \in Nat /\ r <= pushes
    BY <1>1, <1>2, <2>4, Zenon DEF SortInv
  <2>6. CASE sql \in Busy
    <3>1. sql' \notin {"off", "connect", "flush", "release", "gone"}
      BY <2>1, <2>6 DEF Busy
    <3> QED
      BY <2>1, <2>2, <2>3, <2>5, <3>1, Zenon DEF StopInv
  <2>7. CASE \A q \in Positions : In(queue[q]) = {}
    <3>1. before' = {}
      BY <2>1, <2>4, <2>7, Zenon
    <3> QED
      BY <2>1, <2>2, <2>3, <3>1, Zenon DEF StopInv
  <2> QED
    BY <1>1, <2>1, <2>6, <2>7, Zenon DEF RunInv
<1>4. CASE Join
  <2>1. /\ pc[Stopper] = "join" /\ sql = "gone" /\ queue' = [q \in Positions |-> << >>]
        /\ lost' = lost \cup Queued /\ pc' = [pc EXCEPT ![Stopper] = "destroyed"]
        /\ UNCHANGED <<sql, pos, pushes, before>>
    BY <1>4, Zenon DEF Join, sqlVars
  <2>2. pc'[Stopper] = "destroyed" /\ \A q \in Positions : queue'[q] = << >>
    BY <1>1, <1>2, <2>1 DEF Types
  <2>3. lost = {} /\ \A q \in Positions : before \cap In(queue[q]) = {}
    BY <1>1, <2>1 DEF StopInv
  <2>4. Queued = UNION {In(queue[q]) : q \in Positions}
    BY Zenon DEF Queued, InQueue, In
  <2>5. before \cap lost' = {}
    <3>1. ASSUME NEW r \in before, r \in Queued
          PROVE  FALSE
      <4>1. PICK q \in Positions : r \in In(queue[q])
        BY <2>4, <3>1, Zenon
      <4> QED
        BY <2>3, <4>1, Zenon
    <3> QED
      BY <2>1, <2>3, <3>1, Zenon
  <2>6. ~Alive' /\ sql' \notin {"off", "connect", "flush"}
    BY <2>1, <2>2 DEF Alive
  <2>7. \A q \in Positions : before \cap In(queue'[q]) = {}
    BY <2>2, InEmpty, Zenon
  <2>8. \A r \in before : r \in Nat /\ r <= pushes
    BY <1>1, Zenon DEF StopInv
  <2> QED
    BY <2>1, <2>2, <2>5, <2>6, <2>7, <2>8, Zenon DEF StopInv, In
<1>5. CASE before' = before /\ lost' = lost
  <2>1. \A r \in before : r \in Nat /\ r <= pushes /\ r # pushes + 1 /\ r <= pushes'
    <3>1. \A r \in before : r \in Nat /\ r <= pushes
      BY <1>1, Zenon DEF StopInv
    <3> QED
      BY <1>2, <3>1
  <2>2. \A q \in Positions : before \cap In(queue'[q]) \subseteq before \cap In(queue[q])
    BY <1>1, <2>1, OnlyPushed, Zenon
  <2>3. Alive' \/ sql' \in {"off", "connect"} => before = {}
    BY <1>1, CallersMove, PlacesMove, Zenon DEF StopInv
  <2>4. ASSUME sql' = "flush", NEW q \in Positions, q < pos'
        PROVE  before \cap In(queue'[q]) = {}
    <3>1. q \in Nat /\ pos \in Nat
      BY <1>1 DEF Types, Positions
    <3>2. CASE sql = "flush" /\ UNCHANGED pos
      BY <1>1, <2>2, <2>4, <3>2, Zenon DEF StopInv
    <3>3. CASE Flush /\ pos' = pos + 1
      <4>1. sql = "flush" /\ queue' = [queue EXCEPT ![pos] = << >>]
        BY <3>3, Zenon DEF Flush, DoFlush
      <4>2. q < pos \/ q = pos
        BY <2>4, <3>1, <3>3
      <4>3. q = pos => queue'[q] = << >>
        BY <1>1, <4>1 DEF Types
      <4> QED
        BY <1>1, <2>2, <4>1, <4>2, <4>3, InEmpty, Zenon DEF StopInv
    <3>4. pos' # 0
      BY <2>4, <3>1
    <3> QED
      BY <1>1, <2>4, <3>2, <3>3, <3>4, PlacesMove, Zenon
  <2>5. ASSUME sql' \in {"release", "gone"}, NEW q \in Positions
        PROVE  before \cap In(queue'[q]) = {}
    <3>1. CASE sql \in {"release", "gone", "connect"}
      BY <1>1, <2>2, <3>1, Zenon DEF StopInv
    <3>2. CASE Flush /\ pos + 1 >= NumQ
      <4>1. sql = "flush" /\ queue' = [queue EXCEPT ![pos] = << >>]
        BY <3>2, Zenon DEF Flush, DoFlush
      <4>2. q < pos \/ q = pos
        BY <1>1, <3>2, SqlAssumption DEF Types, Positions
      <4>3. q = pos => queue'[q] = << >>
        BY <1>1, <4>1 DEF Types
      <4> QED
        BY <1>1, <2>2, <4>1, <4>2, <4>3, InEmpty, Zenon DEF StopInv
    <3> QED
      BY <1>1, <2>5, <3>1, <3>2, PlacesMove, Zenon
  <2>6. pc'[Stopper] # "destroyed" => lost = {}
    BY <1>1, CallersMove, Zenon DEF StopInv
  <2>7. before \cap lost = {}
    BY <1>1, Zenon DEF StopInv
  <2> QED
    BY <1>5, <2>1, <2>3, <2>4, <2>5, <2>6, <2>7, Zenon DEF StopInv, In
<1> QED
  BY <1>3, <1>4, <1>5, HistoryMoves, Zenon

(* Every step keeps the invariant. *)
THEOREM StepInv == SQInv /\ [Next]_vars => SQInv'
<1> SUFFICES ASSUME SQInv, [Next]_vars PROVE SQInv'
  OBVIOUS
<1>1. Types /\ SortInv /\ RunInv /\ ScanInv /\ StopInv
  BY Zenon DEF SQInv
<1>2. Types' /\ SortInv' /\ RunInv' /\ ScanInv' /\ StopInv'
  BY <1>1, TypesStep, SortStep, RunStep, ScanStep, StopStep, Zenon
<1> QED
  BY <1>2, Zenon DEF SQInv

(* The invariant holds in every state of the queue manager. *)
THEOREM Invariance == Spec => []SQInv
  BY InitInv, StepInv, PTL DEF Spec

-----------------------------------------------------------------------------
(* The statements of a queue leave it in the order they were pushed, whether
   the thread executes them, a pause or the flush throws them away, or stop
   pushes its NULLs in between. *)
THEOREM OrderKept == Spec => QueueOrder
<1> DEFINE Ordered ==
        \A q \in Positions : \A s \in InQueue(q) \ InQueue(q)' :
            \A r \in InQueue(q) : r < s => r \notin InQueue(q)'
<1>1. SQInv /\ [Next]_vars => [Ordered]_vars
  <2> SUFFICES ASSUME SQInv, [Next]_vars PROVE Ordered
    OBVIOUS
  <2> SUFFICES ASSUME NEW q \in Positions
               PROVE  \A s \in InQueue(q) \ InQueue(q)' :
                          \A r \in InQueue(q) : r < s => r \notin InQueue(q)'
    OBVIOUS
  <2>1. Types /\ SortInv /\ Moved(q) /\ pushes' \in {pushes, pushes + 1}
    BY QueuesMove, Zenon DEF SQInv
  <2>2. \A s \in In(queue[q]) \ In(queue'[q]) :
            \A r \in In(queue[q]) : r < s => r \notin In(queue'[q])
    BY <2>1, MovedKeeps, Zenon
  <2> QED
    BY <2>2, InIsInQueue, Zenon
<1>2. QueueOrder <=> [][Ordered]_vars
  BY PTL DEF QueueOrder
<1> HIDE DEF Ordered
<1> QED
  BY <1>1, <1>2, Invariance, PTL DEF Spec

(* The thread pops a statement only when all that were on lower queues as it
   began to look have been popped. *)
THEOREM LowerGoFirst == Spec => LowerFirst
<1> DEFINE Lower ==
        sql = "scan" /\ hand' # Null /\ Alive => \A q \in 0 .. pos - 1 : \A r \in InQueue(q) : r > mark
<1>1. SQInv => Lower
  <2> SUFFICES ASSUME SQInv, sql = "scan", Alive, NEW q \in 0 .. pos - 1, NEW r \in InQueue(q)
               PROVE  r > mark
    OBVIOUS
  <2>1. q \in Positions /\ q < pos
    BY SqlAssumption DEF SQInv, Types, Positions
  <2>2. r \in In(queue[q])
    BY <2>1, InIsInQueue, Zenon
  <2> QED
    BY <2>1, <2>2, Zenon DEF SQInv, ScanInv
<1>2. LowerFirst <=> [][Lower]_vars
  BY PTL DEF LowerFirst
<1> HIDE DEF Lower
<1> QED
  BY <1>1, <1>2, Invariance, PTL

(* What was queued when destroy was called is not thrown away by it: the
   thread takes it out before it ends, and only then is the pool destroyed. *)
THEOREM NothingLostAtStop == Spec => []StopWrites
<1>1. SQInv => StopWrites
  BY DEF SQInv, StopInv, StopWrites
<1> QED
  BY <1>1, Invariance, PTL

-----------------------------------------------------------------------------
(* The bounds: nothing the manager or its model counts goes past its limit. *)

ThreadPlaces == {"off", "connect", "lock", "loop", "pauses", "clear", "work", "begin", "scan", "execute",
                 "commit", "check", "enter", "sleep", "wait", "woken", "flush", "release", "gone"}
Pending == {p \in Pushers : pc[p] = "push"}

(* A push in progress has its number reserved. *)
CountInv == pushes + Cardinality(Pending) <= MaxPushes

RoomInv == \A q \in Positions : Len(queue[q]) <= QueueLen

RangeInv ==
    /\ threadRunning \in {-1, 0, 1} /\ paused \in BOOLEAN /\ corePaused \in BOOLEAN
    /\ cond \in Wakers \cup {None, Sql} /\ cond2 \in {None, Sql} /\ sql \in ThreadPlaces
    /\ ttl \in Nat /\ tries \in [Wakers -> 0 .. WakeTries]
    /\ sanity \in 0 .. StopTries /\ toggles \in 0 .. MaxToggles

(* Only statements that were pushed are in the thread's hand or in the
   histories. *)
HeldInv == hand \in 0 .. pushes /\ before \subseteq 1 .. pushes /\ lost \subseteq 1 .. pushes

BoundInv == CountInv /\ RoomInv /\ RangeInv /\ HeldInv

(* What a call of push or the end of one does to the pushes in progress. *)
LEMMA PendingFinite == IsFiniteSet(Pending) /\ Cardinality(Pending) \in Nat
<1>1. IsFiniteSet(Pushers) /\ Pending \subseteq Pushers
  BY SqlAssumption DEF Pending
<1> QED
  BY <1>1, FS_Subset, FS_CardinalityType, Zenon

LEMMA PendingMoves ==
    ASSUME Types, NEW p \in Pushers, NEW c \in CallPlaces, pc' = [pc EXCEPT ![p] = c]
    PROVE  /\ c = "push" /\ pc[p] # "push" => Cardinality(Pending') = Cardinality(Pending) + 1
           /\ c # "push" /\ pc[p] = "push" => Cardinality(Pending') = Cardinality(Pending) - 1
           /\ c # "push" /\ pc[p] # "push" => Pending' = Pending
<1>1. \A r \in Pushers : pc'[r] = IF r = p THEN c ELSE pc[r]
  BY DEF Types, Wakers
<1>2. ASSUME c = "push", pc[p] # "push"
      PROVE  Cardinality(Pending') = Cardinality(Pending) + 1
  <2>1. Pending' = Pending \cup {p} /\ p \notin Pending
    BY <1>1, <1>2 DEF Pending
  <2> QED
    BY <2>1, PendingFinite, FS_AddElement, Zenon
<1>3. ASSUME c # "push", pc[p] = "push"
      PROVE  Cardinality(Pending') = Cardinality(Pending) - 1
  <2>1. Pending' = Pending \ {p} /\ p \in Pending
    BY <1>1, <1>3 DEF Pending
  <2> QED
    BY <2>1, PendingFinite, FS_RemoveElement, Zenon
<1>4. ASSUME c # "push", pc[p] # "push"
      PROVE  Pending' = Pending
  BY <1>1, <1>4 DEF Pending
<1> QED
  BY <1>2, <1>3, <1>4

(* Those who wake, stop or run the thread push no statement. *)
LEMMA PendingStays ==
    ASSUME Types, NEW w \in Wakers, pc[w] # "push", NEW c \in CallPlaces \ {"push"}, pc' = [pc EXCEPT ![w] = c]
    PROVE  Pending' = Pending
  BY DEF Types, Wakers, Pending

(* Every statement that was handed over or is being pushed is within the
   bound. *)
LEMMA CountStep ==
    ASSUME Types, CountInv, [Next]_vars PROVE CountInv'
<1>1. pushes \in Nat /\ MaxPushes \in Nat /\ Cardinality(Pending) \in Nat /\ Stopper \in Wakers /\ Pushers \subseteq Wakers
  BY SqlAssumption, PendingFinite DEF Types, Wakers
<1>2. CASE pc' = pc /\ pushes' = pushes
  <2>1. Pending' = Pending
    BY <1>2 DEF Pending
  <2> QED
    BY <1>2, <2>1 DEF CountInv
<1>3. ASSUME NEW p \in Pushers, NEW n \in 0 .. NumQ, PushCall(p, n) \/ PushConfirm(p)
      PROVE  CountInv'
  <2>1. pc[p] = "idle" /\ pushes + Cardinality(Pending) < MaxPushes
    BY <1>3, Zenon DEF PushCall, PushConfirm, MayPush, Pending
  <2>2. \/ pc' = pc /\ pushes' = pushes + 1
        \/ pc' = [pc EXCEPT ![p] = "wake"] /\ pushes' = pushes + 1
        \/ pc' = [pc EXCEPT ![p] = "push"] /\ pushes' = pushes
    BY <1>3, Zenon DEF PushCall, PushConfirm
  <2>3. "wake" \in CallPlaces /\ "push" \in CallPlaces
    BY DEF CallPlaces
  <2>4. CASE pc' = pc /\ pushes' = pushes + 1
    <3>1. Pending' = Pending
      BY <2>4 DEF Pending
    <3> QED
      BY <1>1, <2>1, <2>4, <3>1 DEF CountInv
  <2>5. CASE pc' = [pc EXCEPT ![p] = "wake"] /\ pushes' = pushes + 1
    <3>1. Pending' = Pending
      BY <2>1, <2>3, <2>5, PendingMoves, Zenon
    <3> QED
      BY <1>1, <2>1, <2>5, <3>1 DEF CountInv
  <2>6. CASE pc' = [pc EXCEPT ![p] = "push"] /\ pushes' = pushes
    <3>1. Cardinality(Pending') = Cardinality(Pending) + 1
      BY <2>1, <2>3, <2>6, PendingMoves, Zenon
    <3> QED
      BY <1>1, <2>1, <2>6, <3>1 DEF CountInv
  <2> QED
    BY <2>2, <2>4, <2>5, <2>6
<1>4. ASSUME NEW p \in Pushers, TryPush(p)
      PROVE  CountInv'
  <2>1. pc[p] = "push" /\ pc' = [pc EXCEPT ![p] = "wake"] /\ pushes' = pushes + 1
    BY <1>4, Zenon DEF TryPush
  <2>2. Cardinality(Pending') = Cardinality(Pending) - 1
    BY <2>1, PendingMoves, Zenon DEF CallPlaces
  <2> QED
    BY <1>1, <2>1, <2>2 DEF CountInv
<1>5. ASSUME NEW w \in Wakers, pc[w] # "push", NEW c \in CallPlaces \ {"push"}, pc' = [pc EXCEPT ![w] = c],
             pushes' = pushes
      PROVE  CountInv'
  <2>1. Pending' = Pending
    BY <1>5, PendingStays, Zenon
  <2> QED
    BY <1>5, <2>1 DEF CountInv
<1>6. ASSUME NEW w \in Wakers, Going(w)
      PROVE  CountInv'
  <2>1. /\ pc[w] # "push" /\ pushes' = pushes
        /\ \E c \in {"wake", "signal", "retry", "idle", "join", "stop"} : pc' = [pc EXCEPT ![w] = c]
    BY <1>6, Zenon DEF Going, TryCond, Signal, Retry, Returned, After
  <2> QED
    BY <1>5, <2>1, Zenon DEF CallPlaces
<1>7. ASSUME NEW p \in Pushers, Resume(p)
      PROVE  CountInv'
  <2>1. pc[p] # "push" /\ pushes' = pushes /\ pc' = [pc EXCEPT ![p] = "wake"]
    BY <1>7, Zenon DEF Resume
  <2> QED
    BY <1>1, <1>5, <2>1, Zenon DEF CallPlaces
<1>8. CASE Destroy \/ Stopping
  <2>1. /\ pc[Stopper] # "push" /\ pushes' = pushes
        /\ pc' = pc \/ \E c \in {"stop", "wake", "interrupt", "destroyed"} : pc' = [pc EXCEPT ![Stopper] = c]
    BY <1>8, Zenon DEF Destroy, Stopping, StopLoop, StopInterrupt, Join
  <2> QED
    BY <1>1, <1>2, <1>5, <2>1, Zenon DEF CallPlaces
<1>9. \/ pc' = pc /\ pushes' = pushes
      \/ \E p \in Pushers : \/ \E n \in 0 .. NumQ : PushCall(p, n)
                            \/ TryPush(p) \/ PushConfirm(p) \/ Resume(p)
      \/ \E w \in Wakers : Going(w)
      \/ Destroy \/ Stopping
  BY Zenon DEF Next, Pushing, Pause, CorePause, CoreResume, Start,
       SqlThread, Connect, Lock, Loop, Pauses, Clear, Work, Begin, Scan, Execute, Commit,
       Check, Enter, Sleep, Woken, Flush, Release, others, callVars, vars
<1>10. 0 \in 0 .. NumQ
  BY SqlAssumption
<1> QED
  BY <1>2, <1>3, <1>4, <1>6, <1>7, <1>8, <1>9, <1>10, Zenon

(* No queue holds more than SWITCH_SQL_QUEUE_LEN. *)
LEMMA RoomStep ==
    ASSUME Types, RoomInv, [Next]_vars PROVE RoomInv'
<1>1. /\ QueueLen \in Nat \ {0} /\ queue \in [Positions -> Seq(Nat)]
      /\ \A q \in Positions : Len(queue[q]) \in Nat /\ Len(queue[q]) <= QueueLen
  BY SqlAssumption DEF Types, RoomInv
<1>2. CASE UNCHANGED queue
  BY <1>2 DEF RoomInv
<1>3. ASSUME NEW q \in Positions, NEW n \in Nat, Len(queue[q]) < QueueLen,
             queue' = [queue EXCEPT ![q] = Append(@, n)]
      PROVE  RoomInv'
  <2>1. Len(Append(queue[q], n)) <= QueueLen
    BY <1>1, <1>3
  <2> QED
    BY <1>1, <1>3, <2>1 DEF RoomInv
<1>4. ASSUME NEW p \in Pushers, TryPush(p)
      PROVE  RoomInv'
  <2>1. /\ Len(queue[arg[p]]) < QueueLen
        /\ queue' = [queue EXCEPT ![arg[p]] = Append(@, pushes + 1)]
    BY <1>4, Zenon DEF TryPush
  <2>2. arg[p] \in Positions /\ pushes + 1 \in Nat
    BY DEF Types, Wakers
  <2> QED
    BY <1>3, <2>1, <2>2, Zenon
<1>5. CASE StopInterrupt
  <2>1. /\ Len(queue[arg[Stopper]]) < QueueLen
        /\ queue' = [queue EXCEPT ![arg[Stopper]] = Append(@, Null)]
    BY <1>5, Zenon DEF StopInterrupt
  <2>2. arg[Stopper] \in Positions /\ Null \in Nat
    BY DEF Types, Wakers, Null
  <2> QED
    BY <1>3, <2>1, <2>2, Zenon
<1>6. CASE Scan
  <2>1. \A q \in Positions : queue'[q] = queue[q] \/ (queue[q] # << >> /\ queue'[q] = Tail(queue[q]))
    BY <1>1, <1>6 DEF Scan
  <2>2. ASSUME NEW q \in Positions, queue[q] # << >>
        PROVE  Len(Tail(queue[q])) <= QueueLen
    BY <1>1, <2>2
  <2> QED
    BY <1>1, <2>1, <2>2, Zenon DEF RoomInv
<1>7. CASE Clear \/ Flush \/ queue' = [q \in Positions |-> << >>]
  <2>1. \A q \in Positions : queue'[q] = queue[q] \/ queue'[q] = << >>
    BY <1>1, <1>7 DEF Clear, Flush, DoFlush
  <2>2. Len(<< >>) <= QueueLen
    BY <1>1
  <2> QED
    BY <1>1, <2>1, <2>2, Zenon DEF RoomInv
<1> QED
  BY <1>2, <1>4, <1>5, <1>6, <1>7, QueueCases, Zenon

(* Flags, locks, places and counters keep their ranges. *)
LEMMA RangeStep ==
    ASSUME Types, RangeInv, [Next]_vars PROVE RangeInv'
<1>1. /\ WakeTries \in Nat \ {0} /\ StopTries \in Nat \ {0} /\ MaxToggles \in Nat /\ 0 \in 0 .. WakeTries
      /\ Stopper \in Wakers /\ Pushers \subseteq Wakers
  BY SqlAssumption, SMTT(30) DEF Wakers
<1>2. threadRunning' \in {-1, 0, 1} /\ paused' \in BOOLEAN /\ corePaused' \in BOOLEAN
  BY ZenonT(30)  DEF RangeInv, Next, PushCall, Pushing, TryPush, PushConfirm, Pause, Resume, Going, TryCond, Signal, Retry,
       CorePause, CoreResume, Start, Destroy, Stopping, StopLoop, StopInterrupt, Join, SqlThread,
       Connect, Lock, Loop, Pauses, Clear, Work, Begin, Scan, Execute, Commit, Check, Enter, Sleep,
       Woken, Flush, Release, others, vars
<1>3. cond' \in Wakers \cup {None, Sql} /\ cond2' \in {None, Sql}
  BY Zenon DEF RangeInv, Next, PushCall, Pushing, TryPush, PushConfirm, Pause, Resume, Going, TryCond, Signal, Retry,
       CorePause, CoreResume, Start, Destroy, Stopping, StopLoop, StopInterrupt, Join, SqlThread,
       Connect, Lock, Loop, Pauses, Clear, Work, Begin, Scan, Execute, Commit, Check, Enter, Sleep,
       Woken, Flush, Release, others, vars
<1>4. sql' \in ThreadPlaces
  <2>1. \/ sql' = sql \/ sql' = "woken" \/ Start \/ SqlThread
    BY Zenon DEF Next, PushCall, Pushing, TryPush, PushConfirm, Pause, Resume, Going, TryCond, Signal, Retry,
         CorePause, CoreResume, Destroy, Stopping, StopLoop, StopInterrupt, Join, sqlVars, vars
  <2> QED
    BY <2>1, Zenon DEF RangeInv, ThreadPlaces, Start, Goes, SqlThread, Connect, Lock, Loop, Pauses, Clear,
         Work, Begin, Scan, Execute, Commit, Check, Enter, Sleep, Woken, Flush, Release
<1>5. ttl' \in Nat
  <2>1. ttl' = ttl \/ ttl' = 0 \/ ttl' = ttl + 1
    BY Zenon DEF Next, PushCall, Pushing, TryPush, PushConfirm, Pause, Resume, Going, TryCond, Signal, Retry,
         CorePause, CoreResume, Destroy, Stopping, StopLoop, StopInterrupt, Join, sqlVars, vars,
         Start, Goes, SqlThread, Connect, Lock, Loop, Pauses, Clear,
         Work, Begin, Scan, Execute, Commit, Check, Enter, Sleep, Woken, Flush, Release
  <2> QED
    BY <2>1, SMTT(30) DEF RangeInv
<1>6. tries' \in [Wakers -> 0 .. WakeTries]
  <2>1. \/ tries' = tries
        \/ \E w \in Wakers : \/ tries' = [tries EXCEPT ![w] = 0]
                             \/ tries' = [tries EXCEPT ![w] = @ + 1] /\ ~(tries[w] + 1 >= WakeTries)
    BY Zenon DEF Next, PushCall, Pushing, TryPush, PushConfirm, Pause, Resume, Going, TryCond, Signal, Retry, Returned,
         CorePause, CoreResume, Start, Destroy, Stopping, StopLoop, StopInterrupt, Join, SqlThread,
         Connect, Lock, Loop, Pauses, Clear, Work, Begin, Scan, Execute, Commit, Check, Enter, Sleep,
         Woken, Flush, Release, others, callVars, vars
  <2>2. \A w \in Wakers : ~(tries[w] + 1 >= WakeTries) => tries[w] + 1 \in 0 .. WakeTries
    BY <1>1 DEF RangeInv
  <2> QED
    BY <1>1, <2>1, <2>2, Zenon DEF RangeInv
<1>7. sanity' \in 0 .. StopTries
  <2>1. \/ sanity' = sanity \/ sanity' = StopTries \/ sanity' = 0
        \/ sanity > 1 /\ sanity' = sanity - 1
    BY Zenon DEF Next, PushCall, Pushing, TryPush, PushConfirm, Pause, Resume, Going, TryCond, Signal, Retry,
         CorePause, CoreResume, Start, Destroy, Stopping, StopLoop, StopInterrupt, Join, SqlThread,
         Connect, Lock, Loop, Pauses, Clear, Work, Begin, Scan, Execute, Commit, Check, Enter, Sleep,
         Woken, Flush, Release, others, vars
  <2> QED
    BY <1>1, <2>1, SMTT(30) DEF RangeInv
<1>8. toggles' \in 0 .. MaxToggles
  <2>1. toggles' = toggles \/ (toggles < MaxToggles /\ toggles' = toggles + 1)
    BY Zenon DEF Next, PushCall, Pushing, TryPush, PushConfirm, Pause, Resume, Going, TryCond, Signal, Retry,
         CorePause, CoreResume, Start, Destroy, Stopping, StopLoop, StopInterrupt, Join, SqlThread,
         Connect, Lock, Loop, Pauses, Clear, Work, Begin, Scan, Execute, Commit, Check, Enter, Sleep,
         Woken, Flush, Release, others, vars
  <2> QED
    BY <1>1, <2>1, SMTT(30) DEF RangeInv
<1> QED
  BY <1>2, <1>3, <1>4, <1>5, <1>6, <1>7, <1>8, Zenon DEF RangeInv

(* A statement in hand was popped, one in the histories was queued. *)
LEMMA HeldStep ==
    ASSUME Types, SortInv, HeldInv, [Next]_vars PROVE HeldInv'
<1>1. pushes \in Nat /\ pushes' \in Nat /\ pushes <= pushes'
  BY QueuesMove DEF Types
<1>2. \A q \in Positions : In(queue[q]) \subseteq 1 .. pushes
  <2>1. \A q \in Positions : \A r \in In(queue[q]) : r \in Nat \ {0} /\ r <= pushes
    BY DEF Types, SortInv, In, Null
  <2> QED
    BY <1>1, <2>1
<1>3. 0 .. pushes \subseteq 0 .. pushes' /\ 1 .. pushes \subseteq 1 .. pushes' /\ 0 \in 0 .. pushes'
  BY <1>1
<1>4. Queued \subseteq 1 .. pushes
  BY <1>2, InIsInQueue, Zenon DEF Queued
<1>5. hand' \in 0 .. pushes'
  <2>1. ASSUME Scan, ~(Full \/ pos = NumQ)
        PROVE  hand' \in 0 .. pushes
    <3>1. pos \in Positions
      BY <2>1, SqlAssumption DEF Types, Positions
    <3>2. CASE queue[pos] = << >>
      BY <1>1, <2>1, <3>2 DEF Scan, Null
    <3>3. CASE queue[pos] # << >>
      <4>1. hand' = Head(queue[pos])
        BY <2>1, <3>3, Zenon DEF Scan
      <4>2. queue[pos] \in Seq(Nat) /\ 1 \in 1 .. Len(queue[pos]) /\ Head(queue[pos]) = queue[pos][1]
        BY <3>1, <3>3 DEF Types
      <4>3. Head(queue[pos]) = Null \/ Head(queue[pos]) \in In(queue[pos])
        BY <4>2, ZenonT(30) DEF In
      <4> QED
        BY <1>1, <1>2, <3>1, <4>1, <4>3 DEF Null
    <3> QED
      BY <3>2, <3>3
  <2>2. hand' = hand \/ hand' = Null \/ (Scan /\ ~(Full \/ pos = NumQ))
    BY Zenon DEF Next, PushCall, Pushing, TryPush, PushConfirm, Pause, Resume, Going, TryCond, Signal, Retry,
         CorePause, CoreResume, Destroy, Stopping, StopLoop, StopInterrupt, Join, sqlVars, vars,
         Start, Goes, SqlThread, Connect, Lock, Loop, Pauses, Clear,
         Work, Begin, Scan, Execute, Commit, Check, Enter, Sleep, Woken, Flush, Release
  <2> QED
    BY <1>3, <2>1, <2>2, Zenon DEF HeldInv, Null
<1>6. before' \subseteq 1 .. pushes' /\ lost' \subseteq 1 .. pushes'
  <2>1. Destroy => before' = Queued
    BY Zenon DEF Destroy
  <2>2. Join => lost' = lost \cup Queued
    BY Zenon DEF Join
  <2> QED
    BY <1>3, <1>4, <2>1, <2>2, HistoryMoves, Zenon DEF HeldInv
<1> QED
  BY <1>5, <1>6 DEF HeldInv

(* Whatever is called how often and whatever fails, every variable keeps its
   range: no queue grows past SWITCH_SQL_QUEUE_LEN, qm_wake and stop try no
   more often than they may, and only statements that were pushed are executed
   or thrown away. *)
THEOREM TypesHold == Spec => []TypeOK
<1>1. Init => BoundInv
  <2> SUFFICES ASSUME Init PROVE BoundInv
    OBVIOUS
  <2>1. CountInv
    <3>1. Pending = {}
      BY DEF Init, Pending, Wakers
    <3> QED
      BY <3>1, FS_EmptySet, SqlAssumption DEF Init, CountInv
  <2>2. RoomInv
    BY SqlAssumption DEF Init, RoomInv
  <2>3. RangeInv
    <3>1. 0 \in 0 .. WakeTries /\ 0 \in Nat /\ 0 \in 0 .. MaxToggles /\ StopTries \in 0 .. StopTries
      BY SqlAssumption
    <3> QED
      BY <3>1, Zenon DEF Init, RangeInv, ThreadPlaces
  <2>4. HeldInv
    BY DEF Init, HeldInv, Null
  <2> QED
    BY <2>1, <2>2, <2>3, <2>4 DEF BoundInv
<1>2. SQInv /\ BoundInv /\ [Next]_vars => BoundInv'
  BY CountStep, RoomStep, RangeStep, HeldStep, SMTT(30) DEF SQInv, BoundInv
<1>3. SQInv /\ BoundInv => TypeOK
  <2> SUFFICES ASSUME SQInv, BoundInv PROVE TypeOK
    OBVIOUS
  <2>1. pushes \in 0 .. MaxPushes /\ mark \in 0 .. MaxPushes
    BY SqlAssumption, PendingFinite DEF SQInv, BoundInv, CountInv, Types
  <2>2. hand \in Statements \cup {Null} /\ before \subseteq Statements /\ lost \subseteq Statements
    BY <2>1, SqlAssumption DEF BoundInv, HeldInv, Statements, Null
  <2>3. queue \in [Positions -> Seq(Statements \cup {Null})]
    <3>1. ASSUME NEW q \in Positions
          PROVE  queue[q] \in Seq(Statements \cup {Null})
      <4>1. queue[q] \in Seq(Nat) /\ \A r \in In(queue[q]) : r <= pushes
        BY DEF SQInv, Types, SortInv
      <4>2. \A i \in 1 .. Len(queue[q]) : queue[q][i] = Null \/ queue[q][i] \in In(queue[q])
        BY Zenon DEF In
      <4>3. \A i \in 1 .. Len(queue[q]) : queue[q][i] \in Statements \cup {Null}
        BY <2>1, <4>1, <4>2, SqlAssumption DEF Statements, Null
      <4> QED
        BY <4>1, <4>3
    <3> QED
      BY <3>1 DEF SQInv, Types
  <2> QED
    BY <2>1, <2>2, <2>3 DEF SQInv, BoundInv, Types, RoomInv, RangeInv, TypeOK, CallPlaces, ThreadPlaces
<1> QED
  BY <1>1, <1>2, <1>3, Invariance, PTL DEF Spec
=============================================================================
