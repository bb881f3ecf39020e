------------------------- MODULE PttService_proofs --------------------------
(***************************************************************************)
(* Proofs about PttService, for any set of calls, any length of a body,    *)
(* any limit of the logs and any number of faults: the logs are sound, and *)
(* no event of a call that is followed is lost.                            *)
(*                                                                         *)
(* What decides the logs is the stream: the units in the client's buffer   *)
(* followed by those on the wire.  Receiving leaves it as it is, reading   *)
(* a frame takes units from its front, a connection that breaks takes      *)
(* units from its end, and a new one puts its greeting behind what is left *)
(* in the buffer.  So the order of the hangups in it is never disturbed.   *)
(* That nothing is lost needs more: that what the client takes for frames  *)
(* are the frames that were sent, as soon as it is subscribed.             *)
(***************************************************************************)
EXTENDS PttService, SequenceTheorems, TLAPS

Hang(u) == u.t = "hangup" /\ u.part = 1
Ans(u) == u.t = "answer" /\ u.part = 1

Within(c, s) == \E i \in 1 .. Len(s) : s[i] = c
Before(a, b, s) == \E m, n \in 1 .. Len(s) : m < n /\ s[m] = a /\ s[n] = b

(* A stream st of units agrees with the calls: its hangups are those of calls
   that ended, in the order of ord and after those already logged in lg; the
   call of an answer is not logged, nor does its hangup come before it. *)
Sound(st, lg, ord, cl) ==
    /\ \A i \in 1 .. Len(st) : Hang(st[i]) =>
          /\ Within(st[i].call, ord)
          /\ \A l \in 1 .. Len(lg) : Before(lg[l], st[i].call, ord)
    /\ \A i \in 1 .. Len(st) : Ans(st[i]) => cl[st[i].call] # "new" /\ ~Within(st[i].call, lg)
    /\ \A i, j \in 1 .. Len(st) : i < j /\ Hang(st[i]) =>
          /\ Hang(st[j]) => Before(st[i].call, st[j].call, ord)
          /\ Ans(st[j]) => st[i].call # st[j].call

(* Two sequences joined, by a name of their own for the provers. *)
Join(s, t) == s \o t

(* What the client has received and not read, and what is on its way. *)
Stream == Join(buffer, wire)

StreamInv == Sound(Stream, logged, order, call)

(* What was logged has ended, in that order; nothing active was logged. *)
LogInv ==
    /\ \A m \in 1 .. Len(order) : call[order[m]] = "over"
    /\ \A l \in 1 .. Len(logged) : Within(logged[l], order)
    /\ \A i, j \in 1 .. Len(logged) : i < j => Before(logged[i], logged[j], order)
    /\ \A c \in active : ~Within(c, logged)
    /\ logs = LastOf(logged, MaxLogs)

PInv == TypeOK /\ StreamInv /\ LogInv

-----------------------------------------------------------------------------
(* Streams. *)

(* A stream of which only units were taken away, or which only got units that
   are neither hangups nor answers at its end, is as sound as before. *)
LEMMA SoundKept ==
    ASSUME NEW st, NEW new, NEW lg, NEW ord, NEW cl, NEW h \in Nat,
           Len(st) \in Nat, Len(new) \in Nat,
           Sound(st, lg, ord, cl),
           \A i \in 1 .. Len(new) : Hang(new[i]) \/ Ans(new[i]) =>
              i + h \in 1 .. Len(st) /\ new[i] = st[i + h]
    PROVE  Sound(new, lg, ord, cl)
<1>1. ASSUME NEW i \in 1 .. Len(new), Hang(new[i])
      PROVE  /\ Within(new[i].call, ord)
             /\ \A l \in 1 .. Len(lg) : Before(lg[l], new[i].call, ord)
  <2>1. i + h \in 1 .. Len(st) /\ new[i] = st[i + h]
    BY <1>1
  <2> QED
    BY <1>1, <2>1, Zenon DEF Sound
<1>2. ASSUME NEW i \in 1 .. Len(new), Ans(new[i])
      PROVE  cl[new[i].call] # "new" /\ ~Within(new[i].call, lg)
  <2>1. i + h \in 1 .. Len(st) /\ new[i] = st[i + h]
    BY <1>2
  <2> QED
    BY <1>2, <2>1, Zenon DEF Sound
<1>3. ASSUME NEW i \in 1 .. Len(new), NEW j \in 1 .. Len(new), i < j, Hang(new[i]),
             Hang(new[j]) \/ Ans(new[j])
      PROVE  /\ Hang(new[j]) => Before(new[i].call, new[j].call, ord)
             /\ Ans(new[j]) => new[i].call # new[j].call
  <2>1. i + h \in 1 .. Len(st) /\ new[i] = st[i + h]
    BY <1>3
  <2>2. j + h \in 1 .. Len(st) /\ new[j] = st[j + h]
    BY <1>3
  <2>3. i + h < j + h
    BY <1>3
  <2> QED
    BY <1>3, <2>1, <2>2, <2>3, Zenon DEF Sound
<1> QED
  BY <1>1, <1>2, <1>3, Zenon DEF Sound

(* What is within a sequence, or in an order there, remains so when an
   element is appended, and comes before that element. *)
LEMMA AppendOrder ==
    ASSUME NEW S, NEW s \in Seq(S), NEW c \in S
    PROVE  /\ Append(s, c) \in Seq(S) /\ Len(Append(s, c)) = Len(s) + 1
           /\ \A a : Within(a, Append(s, c)) <=> Within(a, s) \/ a = c
           /\ \A a, b : Before(a, b, s) => Before(a, b, Append(s, c))
           /\ \A a : Within(a, s) => Before(a, c, Append(s, c))
<1> DEFINE t == Append(s, c)
<1>1. /\ t \in Seq(S) /\ Len(s) \in Nat /\ Len(t) = Len(s) + 1 /\ t[Len(s) + 1] = c
      /\ \A i \in 1 .. Len(s) : t[i] = s[i]
  OBVIOUS
<1> HIDE DEF t
<1>2. ASSUME NEW a PROVE Within(a, t) <=> Within(a, s) \/ a = c
  BY <1>1 DEF Within
<1>3. ASSUME NEW a, NEW b, Before(a, b, s) PROVE Before(a, b, t)
  BY <1>1, <1>3 DEF Before
<1>4. ASSUME NEW a, Within(a, s) PROVE Before(a, c, t)
  <2>1. PICK i \in 1 .. Len(s) : s[i] = a
    BY <1>4 DEF Within
  <2>2. i \in 1 .. Len(t) /\ Len(s) + 1 \in 1 .. Len(t) /\ i < Len(s) + 1
    BY <1>1
  <2> QED
    BY <1>1, <2>1, <2>2 DEF Before
<1> QED
  BY <1>1, <1>2, <1>3, <1>4 DEF t

(* The hangup of call c is sent: it is the last in the stream, and c the last
   of the calls that ended. *)
LEMMA SoundHangup ==
    ASSUME NEW st, NEW new, NEW lg \in Seq(Calls), NEW ord \in Seq(Calls),
           NEW cl, NEW cl2, NEW c \in Calls,
           Len(st) \in Nat, Len(new) \in Nat, Sound(st, lg, ord, cl),
           \A l \in 1 .. Len(lg) : Within(lg[l], ord),
           \A d \in Calls : cl2[d] = "new" => cl[d] = "new",
           \A i \in 1 .. Len(st) : Ans(st[i]) => st[i].call \in Calls,
           \A i \in 1 .. Len(new) : Hang(new[i]) \/ Ans(new[i]) =>
              \/ i \in 1 .. Len(st) /\ new[i] = st[i]
              \/ i = Len(st) + 2 /\ new[i].call = c /\ ~Ans(new[i])
    PROVE  Sound(new, lg, Append(ord, c), cl2)
<1> DEFINE o2 == Append(ord, c)
<1>0. /\ \A a : Within(a, o2) <=> Within(a, ord) \/ a = c
      /\ \A a, b : Before(a, b, ord) => Before(a, b, o2)
      /\ \A a : Within(a, ord) => Before(a, c, o2)
  BY AppendOrder, Zenon
<1> HIDE DEF o2
<1>1. ASSUME NEW i \in 1 .. Len(new), Hang(new[i])
      PROVE  /\ Within(new[i].call, o2)
             /\ \A l \in 1 .. Len(lg) : Before(lg[l], new[i].call, o2)
  <2>1. CASE i \in 1 .. Len(st) /\ new[i] = st[i]
    BY <1>0, <1>1, <2>1, Zenon DEF Sound
  <2>2. CASE new[i].call = c
    BY <1>0, <2>2, Zenon
  <2> QED
    BY <1>1, <2>1, <2>2, Zenon
<1>2. ASSUME NEW i \in 1 .. Len(new), Ans(new[i])
      PROVE  cl2[new[i].call] # "new" /\ ~Within(new[i].call, lg)
  <2>1. i \in 1 .. Len(st) /\ new[i] = st[i]
    BY <1>2, Zenon
  <2> QED
    BY <1>2, <2>1, Zenon DEF Sound
<1>3. ASSUME NEW i \in 1 .. Len(new), NEW j \in 1 .. Len(new), i < j, Hang(new[i]),
             Hang(new[j]) \/ Ans(new[j])
      PROVE  /\ Hang(new[j]) => Before(new[i].call, new[j].call, o2)
             /\ Ans(new[j]) => new[i].call # new[j].call
  <2>1. i \in 1 .. Len(st) /\ new[i] = st[i]
    <3>1. \/ i \in 1 .. Len(st) /\ new[i] = st[i]
          \/ i = Len(st) + 2
      BY <1>3, Zenon
    <3>2. \/ j \in 1 .. Len(st)
          \/ j = Len(st) + 2
      BY <1>3, Zenon
    <3> QED
      BY <1>3, <3>1, <3>2
  <2>2. CASE j \in 1 .. Len(st) /\ new[j] = st[j]
    BY <1>0, <1>3, <2>1, <2>2, Zenon DEF Sound
  <2>3. CASE new[j].call = c /\ ~Ans(new[j])
    <3>1. Within(new[i].call, ord)
      BY <1>3, <2>1, Zenon DEF Sound
    <3> QED
      BY <1>0, <2>3, <3>1, Zenon
  <2> QED
    BY <1>3, <2>2, <2>3, Zenon
<1>4. Sound(new, lg, o2, cl2)
  BY <1>1, <1>2, <1>3, Zenon DEF Sound
<1> QED
  BY <1>4 DEF o2

(* The answer of a new call c is sent: none of its units was in the stream. *)
LEMMA SoundAnswer ==
    ASSUME NEW st, NEW new, NEW lg \in Seq(Calls), NEW ord \in Seq(Calls),
           NEW cl, NEW cl2, NEW c \in Calls,
           Len(st) \in Nat, Len(new) \in Nat, Sound(st, lg, ord, cl),
           ~Within(c, lg), ~Within(c, ord), cl2[c] # "new",
           \A d \in Calls : cl2[d] = "new" => cl[d] = "new",
           \A i \in 1 .. Len(st) : Ans(st[i]) => st[i].call \in Calls,
           \A i \in 1 .. Len(new) : Hang(new[i]) \/ Ans(new[i]) =>
              \/ i \in 1 .. Len(st) /\ new[i] = st[i]
              \/ i = Len(st) + 2 /\ new[i].call = c /\ ~Hang(new[i])
    PROVE  Sound(new, lg, ord, cl2)
<1>1. ASSUME NEW i \in 1 .. Len(new), Hang(new[i])
      PROVE  /\ i \in 1 .. Len(st) /\ new[i] = st[i]
             /\ Within(new[i].call, ord)
             /\ \A l \in 1 .. Len(lg) : Before(lg[l], new[i].call, ord)
  <2>1. i \in 1 .. Len(st) /\ new[i] = st[i]
    BY <1>1, Zenon
  <2> QED
    BY <1>1, <2>1, Zenon DEF Sound
<1>2. ASSUME NEW i \in 1 .. Len(new), Ans(new[i])
      PROVE  cl2[new[i].call] # "new" /\ ~Within(new[i].call, lg)
  <2>1. CASE i \in 1 .. Len(st) /\ new[i] = st[i]
    BY <1>2, <2>1, Zenon DEF Sound
  <2>2. CASE new[i].call = c
    BY <2>2, Zenon
  <2> QED
    BY <1>2, <2>1, <2>2, Zenon
<1>3. ASSUME NEW i \in 1 .. Len(new), NEW j \in 1 .. Len(new), i < j, Hang(new[i]),
             Hang(new[j]) \/ Ans(new[j])
      PROVE  /\ Hang(new[j]) => Before(new[i].call, new[j].call, ord)
             /\ Ans(new[j]) => new[i].call # new[j].call
  <2>0. i \in 1 .. Len(st) /\ new[i] = st[i]
    BY <1>1, <1>3, Zenon
  <2>1. CASE j \in 1 .. Len(st) /\ new[j] = st[j]
    BY <1>3, <2>0, <2>1, Zenon DEF Sound
  <2>2. CASE new[j].call = c /\ ~Hang(new[j])
    BY <1>1, <1>3, <2>2, Zenon
  <2> QED
    BY <1>3, <2>1, <2>2, Zenon
<1> QED
  BY <1>1, <1>2, <1>3, Zenon DEF Sound

(* The frame whose second unit is the hangup of a call is read, and the call
   is logged: the rest of the stream agrees with the longer log. *)
LEMMA SoundLogged ==
    ASSUME NEW st, NEW new, NEW lg \in Seq(Calls), NEW ord, NEW cl, NEW h \in Nat, h >= 2,
           Len(st) \in Nat, Len(new) \in Nat, Sound(st, lg, ord, cl),
           Len(st) >= 2, Hang(st[2]), st[2].call \in Calls,
           \A i \in 1 .. Len(new) : i + h \in 1 .. Len(st) /\ new[i] = st[i + h]
    PROVE  Sound(new, Append(lg, st[2].call), ord, cl)
<1> DEFINE c == st[2].call  l2 == Append(lg, c)
<1>0. /\ Len(lg) \in Nat /\ Len(l2) = Len(lg) + 1 /\ l2[Len(lg) + 1] = c
      /\ \A i \in 1 .. Len(lg) : l2[i] = lg[i]
  OBVIOUS
<1>1. \A a : Within(a, l2) <=> Within(a, lg) \/ a = c
  <2>1. c \in Calls
    OBVIOUS
  <2> HIDE DEF c
  <2> QED
    BY <2>1, AppendOrder, Zenon
<1>2. Sound(new, lg, ord, cl)
  <2>1. \A i \in 1 .. Len(new) : Hang(new[i]) \/ Ans(new[i]) =>
           i + h \in 1 .. Len(st) /\ new[i] = st[i + h]
    BY Zenon
  <2> QED
    BY <2>1, SoundKept, Zenon
<1>3. ASSUME NEW i \in 1 .. Len(new)
      PROVE  /\ Hang(new[i]) => Before(c, new[i].call, ord)
             /\ Ans(new[i]) => c # new[i].call
  <2>1. i + h \in 1 .. Len(st) /\ new[i] = st[i + h] /\ 2 \in 1 .. Len(st) /\ 2 < i + h
    OBVIOUS
  <2> QED
    BY <2>1, Zenon DEF Sound
<1> HIDE DEF c, l2
<1>4. ASSUME NEW i \in 1 .. Len(new), Hang(new[i]), NEW l \in 1 .. Len(l2)
      PROVE  Before(l2[l], new[i].call, ord)
  <2>1. CASE l \in 1 .. Len(lg)
    BY <1>0, <1>2, <1>4, <2>1, Zenon DEF Sound
  <2>2. CASE l = Len(lg) + 1
    BY <1>0, <1>3, <1>4, <2>2, Zenon
  <2> QED
    BY <1>0, <2>1, <2>2
<1>5. Sound(new, l2, ord, cl)
  BY <1>1, <1>2, <1>3, <1>4, Zenon DEF Sound
<1> QED
  BY <1>5 DEF c, l2

(* The last n of a log that grows are the last n of the last n and the new
   entry. *)
LEMMA LastOfAppend ==
    ASSUME NEW S, NEW l \in Seq(S), NEW c \in S, NEW n \in Nat \ {0}
    PROVE  /\ LastOf(l, n) \in Seq(S) /\ Len(LastOf(l, n)) <= n
           /\ LastOf(Append(LastOf(l, n), c), n) = LastOf(Append(l, c), n)
<1> DEFINE k == Len(l)  m == LastOf(l, n)  a == Append(m, c)  b == Append(l, c)
<1>1. CASE k <= n
  BY <1>1 DEF LastOf
<1>2. CASE k > n
  <2>1. k \in Nat /\ k - n + 1 \in 1 .. k /\ m = SubSeq(l, k - n + 1, k)
    BY <1>2 DEF LastOf
  <2>2. m \in Seq(S) /\ Len(m) = n /\ \A i \in 1 .. n : m[i] = l[i + k - n]
    BY <2>1, <1>2
  <2> HIDE DEF m
  <2>3. /\ a \in Seq(S) /\ Len(a) = n + 1 /\ a[n + 1] = c
        /\ \A i \in 1 .. n : a[i] = m[i]
    BY <2>2
  <2>4. /\ b \in Seq(S) /\ Len(b) = k + 1 /\ b[k + 1] = c
        /\ \A i \in 1 .. k : b[i] = l[i]
    BY <2>1
  <2> HIDE DEF a, b
  <2>5. LastOf(a, n) = SubSeq(a, 2, n + 1)
    BY <2>3 DEF LastOf
  <2>6. LastOf(b, n) = SubSeq(b, k - n + 2, k + 1)
    BY <2>1, <2>4, <1>2 DEF LastOf
  <2>7. /\ SubSeq(a, 2, n + 1) \in Seq(S) /\ Len(SubSeq(a, 2, n + 1)) = n
        /\ \A i \in 1 .. n : SubSeq(a, 2, n + 1)[i] = a[i + 1]
    BY <2>3
  <2>8. /\ SubSeq(b, k - n + 2, k + 1) \in Seq(S) /\ Len(SubSeq(b, k - n + 2, k + 1)) = n
        /\ \A i \in 1 .. n : SubSeq(b, k - n + 2, k + 1)[i] = b[i + k - n + 1]
    BY <2>1, <2>4, <1>2
  <2>9. ASSUME NEW i \in 1 .. n PROVE a[i + 1] = b[i + k - n + 1]
    <3>1. CASE i = n
      BY <2>1, <2>3, <2>4, <3>1
    <3>2. CASE i < n
      <4>1. i + 1 \in 1 .. n /\ i + k - n + 1 \in 1 .. k /\ (i + 1) + k - n = i + k - n + 1
        BY <2>1, <1>2, <3>2
      <4> QED
        BY <2>2, <2>3, <2>4, <4>1, Zenon
    <3> QED
      BY <3>1, <3>2
  <2>10. LastOf(a, n) = LastOf(b, n)
    <3> DEFINE x == SubSeq(a, 2, n + 1)  y == SubSeq(b, k - n + 2, k + 1)
    <3>1. x \in Seq(S) /\ y \in Seq(S) /\ Len(x) = Len(y) /\ \A i \in 1 .. Len(x) : x[i] = y[i]
      BY <2>7, <2>8, <2>9
    <3> HIDE DEF x, y
    <3>2. x = y
      BY <3>1, SeqEqual, Zenon
    <3> QED
      BY <2>5, <2>6, <3>2 DEF x, y
  <2> QED
    BY <2>2, <2>10 DEF a, b, m
<1> QED
  BY <1>1, <1>2


-----------------------------------------------------------------------------
(* Units, and what the steps do to the stream of them. *)

(* Only the first part of a body is a hangup or an answer, of a call. *)
LEMMA UnitsAre ==
    /\ \A t : ~Hang(Unit(t)) /\ ~Ans(Unit(t))
    /\ \A u \in Units : Hang(u) \/ Ans(u) => u.call \in Calls
    /\ \A u \in Units : u.part = 1 => u.call \in Calls
    /\ \A t \in {"auth", "ok", "bye", "head"} : Unit(t) \in Units
    /\ \A k \in Kinds, c \in Calls, i \in 1 .. BodyLen : Part(k, c, i) \in Units
<1>1. ASSUME NEW t PROVE ~Hang(Unit(t)) /\ ~Ans(Unit(t))
  BY DEF Hang, Ans, Unit
<1>2. ASSUME NEW u \in Units PROVE u.part = 1 => u.call \in Calls
  BY DEF Units, Unit, Part
<1>3. ASSUME NEW u \in Units PROVE Hang(u) \/ Ans(u) => u.call \in Calls
  BY <1>2, Zenon DEF Hang, Ans
<1>4. /\ \A t \in {"auth", "ok", "bye", "head"} : Unit(t) \in Units
      /\ \A k \in Kinds, c \in Calls, i \in 1 .. BodyLen : Part(k, c, i) \in Units
  BY DEF Units
<1> QED
  BY <1>1, <1>2, <1>3, <1>4

(* What joining s and t gives, j. *)
Joined(j, s, t) ==
    /\ Len(s) \in Nat /\ Len(t) \in Nat /\ Len(j) = Len(s) + Len(t)
    /\ \A i \in 1 .. Len(s) : j[i] = s[i]
    /\ \A i \in 1 .. Len(t) : j[Len(s) + i] = t[i]
    /\ \A i \in 1 .. Len(s) + Len(t) : i \notin 1 .. Len(s) =>
          i - Len(s) \in 1 .. Len(t) /\ j[i] = t[i - Len(s)]

(* Join does that. *)
LEMMA JoinIs ==
    ASSUME NEW S, NEW s \in Seq(S), NEW t \in Seq(S)
    PROVE  Join(s, t) \in Seq(S) /\ Joined(Join(s, t), s, t)
BY DEF Join, Joined

(* Joining is associative. *)
LEMMA JoinAssoc ==
    ASSUME NEW S, NEW s \in Seq(S), NEW t \in Seq(S), NEW u \in Seq(S)
    PROVE  Join(Join(s, t), u) = Join(s, Join(t, u))
BY ConcatAssociative, SMT DEF Join

(* The hangups and answers of new are those of old from h on, or some. *)
Fewer(new, old, h) ==
    \A i \in 1 .. Len(new) : Hang(new[i]) \/ Ans(new[i]) =>
        i + h \in 1 .. Len(old) /\ new[i] = old[i + h]

(* The wire loses units at its end, or gets others that are no events. *)
LEMMA WireFewer ==
    ASSUME NEW b \in Seq(Units), NEW w \in Seq(Units), NEW w2 \in Seq(Units), Fewer(w2, w, 0)
    PROVE  Fewer(Join(b, w2), Join(b, w), 0)
<1> DEFINE new == Join(b, w2)  old == Join(b, w)
<1>1. Joined(new, b, w2) /\ Joined(old, b, w)
  BY JoinIs, Zenon
<1> HIDE DEF new, old
<1>2. /\ Len(b) \in Nat /\ Len(w) \in Nat /\ Len(new) = Len(b) + Len(w2)
      /\ \A i \in 1 .. Len(b) : new[i] = b[i] /\ old[i] = b[i]
      /\ \A i \in 1 .. Len(b) + Len(w2) : i \notin 1 .. Len(b) =>
            i - Len(b) \in 1 .. Len(w2) /\ new[i] = w2[i - Len(b)]
      /\ Len(old) = Len(b) + Len(w) /\ \A i \in 1 .. Len(w) : old[Len(b) + i] = w[i]
  BY <1>1, Zenon DEF Joined
<1>3. ASSUME NEW i \in 1 .. Len(new), Hang(new[i]) \/ Ans(new[i])
      PROVE  i \in 1 .. Len(old) /\ new[i] = old[i]
  <2>1. CASE i \in 1 .. Len(b)
    BY <1>2, <2>1
  <2>2. CASE i \notin 1 .. Len(b)
    <3>1. PICK j \in 1 .. Len(w2) : j = i - Len(b) /\ new[i] = w2[j]
      BY <1>2, <2>2
    <3>2. j + 0 \in 1 .. Len(w) /\ w2[j] = w[j + 0]
      BY <1>3, <3>1, Zenon DEF Fewer
    <3>3. j \in 1 .. Len(w) /\ w2[j] = w[j] /\ Len(b) + j = i
      BY <1>2, <3>1, <3>2
    <3> QED
      BY <1>2, <3>1, <3>3, SMTT(30)
  <2> QED
    BY <2>1, <2>2
<1>4. \A i \in 1 .. Len(new) : i + 0 = i
  BY <1>2
<1>5. Fewer(new, old, 0)
  BY <1>3, <1>4 DEF Fewer
<1> QED
  BY <1>5 DEF new, old

(* Units move from the wire to the buffer: the stream is the same. *)
LEMMA StreamReceived ==
    ASSUME NEW b \in Seq(Units), NEW w \in Seq(Units), NEW n \in 1 .. Len(w)
    PROVE  /\ Join(b, SubSeq(w, 1, n)) \in Seq(Units) /\ SubSeq(w, n + 1, Len(w)) \in Seq(Units)
           /\ Join(Join(b, SubSeq(w, 1, n)), SubSeq(w, n + 1, Len(w))) = Join(b, w)
<1> DEFINE x == SubSeq(w, 1, n)  y == SubSeq(w, n + 1, Len(w))
<1>1. /\ x \in Seq(Units) /\ Len(x) = n /\ \A i \in 1 .. n : x[i] = w[i]
      /\ y \in Seq(Units) /\ Len(y) = Len(w) - n /\ \A i \in 1 .. Len(w) - n : y[i] = w[n + i]
  OBVIOUS
<1> HIDE DEF x, y
<1>2. Join(x, y) = w
  <2>1. Join(x, y) = SubSeq(w, 1, Len(w))
    <3>1. 1 \in 1 .. Len(w) + 1 /\ n \in 1 - 1 .. Len(w) /\ Len(w) \in n .. Len(w)
      OBVIOUS
    <3> QED
      BY <3>1, ConcatAdjacentSubSeq, Zenon DEF Join, x, y
  <2> QED
    BY <2>1, SubSeqFull, Zenon
<1>3. Join(Join(b, x), y) = Join(b, Join(x, y))
  <2>1. x \in Seq(Units) /\ y \in Seq(Units)
    BY <1>1
  <2> QED
    BY <2>1, JoinAssoc, SMT
<1>4. Join(b, x) \in Seq(Units)
  <2>1. x \in Seq(Units)
    BY <1>1
  <2> QED
    BY <2>1, JoinIs, Zenon
<1> QED
  BY <1>1, <1>2, <1>3, <1>4, Zenon DEF x, y

(* A frame of k units is read. *)
LEMMA StreamRead ==
    ASSUME NEW b \in Seq(Units), NEW w \in Seq(Units), NEW k \in 1 .. Len(b)
    PROVE  /\ SubSeq(b, k + 1, Len(b)) \in Seq(Units)
           /\ Len(Join(SubSeq(b, k + 1, Len(b)), w)) = Len(Join(b, w)) - k
           /\ \A i \in 1 .. Len(Join(SubSeq(b, k + 1, Len(b)), w)) :
                 /\ i + k \in 1 .. Len(Join(b, w))
                 /\ Join(SubSeq(b, k + 1, Len(b)), w)[i] = Join(b, w)[i + k]
<1> DEFINE x == SubSeq(b, k + 1, Len(b))
<1>1. /\ x \in Seq(Units) /\ Len(b) \in Nat /\ Len(x) = Len(b) - k
      /\ \A i \in 1 .. Len(b) - k : x[i] = b[i + k]
  OBVIOUS
<1> HIDE DEF x
<1> DEFINE new == Join(x, w)  old == Join(b, w)
<1>2. Joined(new, x, w) /\ Joined(old, b, w)
  BY <1>1, JoinIs, Zenon
<1> HIDE DEF new, old
<1>3. ASSUME NEW i \in 1 .. Len(new)
      PROVE  i + k \in 1 .. Len(old) /\ new[i] = old[i + k]
  <2>1. i \in Nat /\ Len(w) \in Nat /\ Len(new) = Len(b) - k + Len(w) /\ Len(old) = Len(b) + Len(w)
    BY <1>1, <1>2 DEF Joined
  <2>2. CASE i \in 1 .. Len(x)
    <3>1. new[i] = x[i] /\ x[i] = b[i + k] /\ i + k \in 1 .. Len(b)
      BY <1>1, <1>2, <2>2 DEF Joined
    <3> QED
      BY <1>1, <1>2, <2>1, <3>1 DEF Joined
  <2>3. CASE i \notin 1 .. Len(x)
    <3>1. PICK j \in 1 .. Len(w) : j = i - Len(x) /\ new[i] = w[j]
      BY <1>1, <1>2, <2>1, <2>3, Zenon DEF Joined
    <3>2. old[Len(b) + j] = w[j]
      BY <1>2, Zenon DEF Joined
    <3> QED
      BY <1>1, <2>1, <3>1, <3>2
  <2> QED
    BY <2>2, <2>3
<1>4. Len(new) = Len(old) - k
  BY <1>1, <1>2 DEF Joined
<1> QED
  BY <1>1, <1>3, <1>4, SMTT(30) DEF x, new, old

(* The wire after an event is sent. *)
Sent(w, k, c) == Join(Join(w, <<Unit("head")>>), [i \in 1 .. BodyLen |-> Part(k, c, i)])

(* That is a sequence of units. *)
LEMMA SentIs ==
    ASSUME NEW w \in Seq(Units), NEW k \in Kinds, NEW c \in Calls
    PROVE  Sent(w, k, c) \in Seq(Units)
<1> DEFINE x == <<Unit("head")>>  y == [i \in 1 .. BodyLen |-> Part(k, c, i)]
<1>1. x \in Seq(Units) /\ y \in Seq(Units)
  BY UnitsAre, ListenerAssumption
<1> HIDE DEF x, y
<1>2. Join(Join(w, x), y) \in Seq(Units)
  BY <1>1, JoinIs, Zenon
<1> QED
  BY <1>2 DEF Sent, x, y

(* The stream st becomes new when event k of call c is sent: it has a header
   and a body, whose first part names it. *)
Longer(new, st, k, c) ==
    \A i \in 1 .. Len(new) : Hang(new[i]) \/ Ans(new[i]) =>
        \/ i \in 1 .. Len(st) /\ new[i] = st[i]
        \/ i = Len(st) + 2 /\ new[i] = Part(k, c, 1)

(* In full: the header and the body follow what st is. *)
Grown(new, st, k, c) ==
    /\ Len(new) = Len(st) + 1 + BodyLen
    /\ \A i \in 1 .. Len(st) : new[i] = st[i]
    /\ new[Len(st) + 1] = Unit("head")
    /\ \A i \in 1 .. BodyLen : new[Len(st) + 1 + i] = Part(k, c, i)

(* So it does. *)
LEMMA StreamSent ==
    ASSUME NEW b \in Seq(Units), NEW w \in Seq(Units), NEW k \in Kinds, NEW c \in Calls
    PROVE  /\ Longer(Join(b, Sent(w, k, c)), Join(b, w), k, c)
           /\ Grown(Join(b, Sent(w, k, c)), Join(b, w), k, c)
<1> DEFINE x == <<Unit("head")>>  y == [i \in 1 .. BodyLen |-> Part(k, c, i)]
           st == Join(b, w)  new == Join(b, Sent(w, k, c))
<1>0. new = Join(b, Join(Join(w, x), y))
  BY DEF Sent
<1>1. x \in Seq(Units) /\ Len(x) = 1 /\ x[1] = Unit("head")
  BY UnitsAre
<1>2. y \in Seq(Units) /\ Len(y) = BodyLen /\ \A i \in 1 .. BodyLen : y[i] = Part(k, c, i)
  BY UnitsAre, ListenerAssumption
<1> HIDE DEF x, y
<1>3. Join(Join(w, x), y) \in Seq(Units) /\ Join(w, x) \in Seq(Units) /\ st \in Seq(Units)
  BY <1>1, <1>2, JoinIs, Zenon
<1>4. new = Join(Join(st, x), y)
  <2>1. x \in Seq(Units) /\ y \in Seq(Units) /\ Join(w, x) \in Seq(Units)
    BY <1>1, <1>2, <1>3
  <2>2. Join(b, Join(Join(w, x), y)) = Join(Join(b, Join(w, x)), y)
    BY <2>1, JoinAssoc, SMT
  <2>3. Join(b, Join(w, x)) = Join(Join(b, w), x)
    BY <2>1, JoinAssoc, SMT
  <2> QED
    BY <1>0, <2>2, <2>3, Zenon
<1> HIDE DEF st, new
<1>5. /\ Len(st) \in Nat /\ Len(new) = Len(st) + 1 + BodyLen
      /\ \A i \in 1 .. Len(st) : new[i] = st[i]
      /\ new[Len(st) + 1] = Unit("head")
      /\ \A i \in 1 .. BodyLen : new[Len(st) + 1 + i] = Part(k, c, i)
  <2> DEFINE z == Join(st, x)
  <2>1. /\ z \in Seq(Units) /\ Len(st) \in Nat /\ Len(z) = Len(st) + 1
        /\ \A i \in 1 .. Len(st) : z[i] = st[i]
        /\ z[Len(st) + 1] = Unit("head")
    <3>1. z \in Seq(Units) /\ Joined(z, st, x)
      BY <1>1, <1>3, JoinIs, Zenon
    <3> HIDE DEF z
    <3> QED
      BY <1>1, <3>1 DEF Joined
  <2>2. Join(z, y) = new
    BY <1>4
  <2> HIDE DEF z
  <2>4. Joined(Join(z, y), z, y)
    BY <1>2, <2>1, JoinIs, Zenon
  <2>3. /\ Len(Join(z, y)) = Len(z) + BodyLen
        /\ \A i \in 1 .. Len(z) : Join(z, y)[i] = z[i]
        /\ \A i \in 1 .. BodyLen : Join(z, y)[Len(z) + i] = Part(k, c, i)
    BY <1>2, <2>4 DEF Joined
  <2> QED
    BY <2>1, <2>2, <2>3, ListenerAssumption
<1>6. ASSUME NEW i \in 1 .. Len(new), Hang(new[i]) \/ Ans(new[i])
      PROVE  \/ i \in 1 .. Len(st) /\ new[i] = st[i]
             \/ i = Len(st) + 2 /\ new[i] = Part(k, c, 1)
  <2>1. CASE i \in 1 .. Len(st)
    BY <1>5, <2>1
  <2>2. CASE i = Len(st) + 1
    BY <1>5, <1>6, <2>2, UnitsAre, Zenon
  <2>3. CASE i > Len(st) + 1
    <3>1. PICK j \in 1 .. BodyLen : i = Len(st) + 1 + j
      <4>1. i - Len(st) - 1 \in 1 .. BodyLen
        BY <1>5, <2>3, ListenerAssumption
      <4> QED
        BY <1>5, <4>1
    <3>2. new[i] = Part(k, c, j)
      BY <1>5, <3>1
    <3>3. j = 1
      BY <1>6, <3>2 DEF Hang, Ans, Part
    <3> QED
      BY <1>5, <3>1, <3>2, <3>3
  <2> QED
    BY <1>5, <2>1, <2>2, <2>3
<1>7. Longer(new, st, k, c)
  BY <1>6, Zenon DEF Longer
<1>8. Grown(new, st, k, c)
  BY <1>5, Zenon DEF Grown
<1> QED
  BY <1>7, <1>8 DEF st, new

-----------------------------------------------------------------------------
(* Types. *)

(* A frame has a unit at least, and an event two. *)
LEMMA FrameIs ==
    ASSUME TypeOK, HasFrame
    PROVE  /\ FrameLen \in 1 .. Len(buffer) /\ Rest \in Seq(Units)
           /\ Frame.t = "answer" \/ Frame.t = "hangup" =>
                 /\ FrameLen >= 2 /\ Len(buffer) >= 2 /\ Frame.call = buffer[2].call
                 /\ Frame.t = "answer" => Ans(buffer[2])
                 /\ Frame.t = "hangup" => Hang(buffer[2])
                 /\ Frame.call \in Calls
<1>0. buffer \in Seq(Units) /\ buffer # << >> /\ Len(buffer) \in Nat /\ FrameLen <= Len(buffer)
  BY DEF TypeOK, HasFrame
<1>1. FrameLen \in 1 .. Len(buffer)
  BY <1>0, ListenerAssumption DEF FrameLen
<1>2. Rest \in Seq(Units)
  BY <1>0, <1>1 DEF Rest
<1>3. ASSUME Frame.t = "answer" \/ Frame.t = "hangup"
      PROVE  Head(buffer).t = "head" /\ buffer[2].part = 1
  <2>1. Head(buffer) \in Units
    BY <1>0
  <2>2. Head(buffer).part = 0 => Head(buffer).t \notin {"answer", "hangup"}
    BY <2>1 DEF Units, Unit, Part
  <2> QED
    BY <1>3, <2>2 DEF Frame
<1>4. ASSUME Frame.t = "answer" \/ Frame.t = "hangup"
      PROVE  /\ FrameLen >= 2 /\ Len(buffer) >= 2 /\ Frame.call = buffer[2].call
             /\ Frame.t = "answer" => Ans(buffer[2])
             /\ Frame.t = "hangup" => Hang(buffer[2])
             /\ Frame.call \in Calls
  <2>1. FrameLen >= 2 /\ Len(buffer) >= 2
    BY <1>0, <1>3, <1>4, ListenerAssumption DEF FrameLen
  <2>2. Frame = [t |-> buffer[2].t, call |-> buffer[2].call] /\ buffer[2].part = 1
    BY <1>3, <1>4 DEF Frame
  <2>3. buffer[2] \in Units
    BY <1>0, <2>1
  <2>4. buffer[2].call \in Calls
    BY <2>2, <2>3, UnitsAre, Zenon
  <2> QED
    BY <2>1, <2>2, <2>4 DEF Ans, Hang
<1> QED
  BY <1>1, <1>2, <1>4

(* Every step keeps the types. *)
LEMMA TypesStep ==
    ASSUME TypeOK, [Next]_vars, logs = LastOf(logged, MaxLogs)
    PROVE  TypeOK'
<1> USE DEF TypeOK, ListenerTypeOK, listenerVars, clientVars, stateVars, callVars
<1>1. CASE Recv
  <2>1. PICK n \in 1 .. Len(wire) : /\ buffer' = buffer \o SubSeq(wire, 1, n)
                                    /\ wire' = SubSeq(wire, n + 1, Len(wire))
    BY <1>1, Zenon DEF Recv
  <2>2. buffer' \in Seq(Units) /\ wire' \in Seq(Units)
    BY <2>1, StreamReceived, Zenon DEF Join
  <2> QED
    BY <1>1, <2>2 DEF Recv
<1>2. CASE RecvEnd
  BY <1>2 DEF RecvEnd
<1>3. CASE Deadline
  BY <1>3, ServiceAssumption DEF Deadline, Fault
<1>0. ASSUME NEW m \in {"auth", "event"}, Command(m) PROVE cmds' \in Seq({"auth", "event"})
  BY <1>0 DEF Command
<1>4. CASE AwaitGreeting
  <2>1. buffer' \in Seq(Units)
    BY <1>4, FrameIs, Zenon DEF AwaitGreeting
  <2>2. CASE Frame.t = "auth"
    BY <1>0, <1>4, <2>1, <2>2 DEF AwaitGreeting
  <2>3. CASE Frame.t # "auth"
    BY <1>4, <2>1, <2>3 DEF AwaitGreeting
  <2> QED
    BY <2>2, <2>3, Zenon
<1>5. CASE AwaitReply
  <2>1. buffer' \in Seq(Units)
    BY <1>5, FrameIs, Zenon DEF AwaitReply
  <2>2. CASE Frame.t = "ok" /\ pc = "auth"
    BY <1>0, <1>5, <2>1, <2>2 DEF AwaitReply
  <2>3. CASE Frame.t # "ok"
    BY <1>5, <2>1, <2>3 DEF AwaitReply
  <2>4. CASE Frame.t = "ok" /\ pc # "auth"
    BY <1>5, <2>1, <2>4 DEF AwaitReply
  <2> QED
    BY <2>2, <2>3, <2>4, Zenon
<1>6. CASE Connect
  <2>1. <<Unit("auth")>> \in Seq(Units)
    BY UnitsAre
  <2>2. CASE Accept /\ pc' = "greeting" /\ seen' = {} /\ UNCHANGED faults
    <3>1. srv' = "greeted" /\ cmds' \in Seq({"auth", "event"}) /\ wire' \in Seq(Units)
      BY <2>1, <2>2 DEF Accept
    <3> QED
      BY <1>6, <2>2, <3>1 DEF Connect
  <2>3. CASE Fault /\ pc' = "loop" /\ UNCHANGED <<listenerVars, seen>>
    BY <1>6, <2>3, ServiceAssumption DEF Connect, Fault
  <2> QED
    BY <1>6, <2>2, <2>3, Zenon DEF Connect
<1>7. CASE ReadEvent
  <2>1. CASE Frame.t = "answer"
    BY <1>7, <2>1, FrameIs DEF ReadEvent, OnAnswer
  <2>2. CASE Frame.t = "hangup"
    <3>0. /\ Rest \in Seq(Units) /\ Frame.call \in Calls /\ buffer' = Rest
          /\ OnHangup(Frame.call) /\ UNCHANGED <<srv, cmds, wire, call, keyed, order>>
      BY <1>7, <2>2, FrameIs DEF ReadEvent
    <3> DEFINE c == Frame.call
    <3>1. CASE logged' = Append(logged, c) /\ logs' = LastOf(Append(logs, c), MaxLogs)
      <4>1. Append(logged, c) \in Seq(Calls) /\ LastOf(Append(logs, c), MaxLogs) \in Seq(Calls)
        /\ Len(LastOf(Append(logs, c), MaxLogs)) <= MaxLogs
        <5>1. Append(logs, c) \in Seq(Calls) /\ Append(logged, c) \in Seq(Calls)
          BY <3>0
        <5> HIDE DEF c
        <5>2. MaxLogs \in Nat \ {0}
          BY ServiceAssumption
        <5> QED
          BY <3>0, <5>1, <5>2, LastOfAppend, Zenon DEF c
      <4> QED
        BY <3>0, <3>1, <4>1 DEF OnHangup, Fault
    <3>2. CASE UNCHANGED <<logs, logged>>
      BY <3>0, <3>2, ServiceAssumption DEF OnHangup, Fault
    <3> QED
      BY <3>0, <3>1, <3>2 DEF OnHangup
  <2>3. CASE Frame.t \notin {"answer", "hangup"}
    BY <1>7, <2>3, FrameIs DEF ReadEvent, OnDtmf
  <2> QED
    BY <2>1, <2>2, <2>3, Zenon
<1>8. CASE Broadcast
  BY <1>8, ServiceAssumption DEF Broadcast, Fault
<1>9. ASSUME NEW c \in Calls, NEW k \in Kinds, Send(k, c)
      PROVE  wire' \in Seq(Units) /\ UNCHANGED <<srv, cmds>>
  <2>1. Sent(wire, k, c) \in Seq(Units)
    BY SentIs, Zenon
  <2>2. wire' \in {wire, Sent(wire, k, c)} /\ UNCHANGED <<srv, cmds>>
    BY <1>9 DEF Send, Sent, Join
  <2> QED
    BY <2>1, <2>2
<1>10. ASSUME NEW c \in Calls, Answer(c) \/ Key(c) \/ Hangup(c) PROVE TypeOK'
  <2>1. "answer" \in Kinds /\ "dtmf" \in Kinds /\ "hangup" \in Kinds
    BY DEF Kinds
  <2>2. CASE Answer(c)
    BY <1>9, <2>1, <2>2 DEF Answer
  <2>3. CASE Key(c)
    BY <1>9, <2>1, <2>3 DEF Key
  <2>4. CASE Hangup(c)
    BY <1>9, <2>1, <2>4 DEF Hangup
  <2> QED
    BY <1>10, <2>2, <2>3, <2>4, Zenon
<1>11. CASE Listen
  <2>1. Append(wire, Unit("ok")) \in Seq(Units)
    BY UnitsAre
  <2> QED
    BY <1>11, <2>1 DEF Listen, Serve
<1>12. Append(wire, Unit("bye")) \in Seq(Units)
  BY UnitsAre
<1>13. CASE Expire
  BY <1>12, <1>13 DEF Expire, AuthTimeout, Goodbye
<1>14. CASE Lose
  <2>1. \A n \in 0 .. Len(wire) : SubSeq(wire, 1, n) \in Seq(Units)
    OBVIOUS
  <2>2. srv' = "closed" /\ cmds' = << >> /\ wire' \in Seq(Units)
    BY <1>12, <1>14, <2>1, Zenon DEF Lose, Break, Goodbye
  <2>3. cmds' \in Seq({"auth", "event"})
    BY <2>2
  <2> QED
    BY <1>14, <2>2, <2>3, ServiceAssumption DEF Lose, Fault
<1>15. CASE UNCHANGED vars
  BY <1>15 DEF vars
<1> QED
  BY <1>1, <1>2, <1>3, <1>4, <1>5, <1>6, <1>7, <1>8, <1>10, <1>11, <1>13, <1>14, <1>15, Zenon
     DEF Next, EventThread

-----------------------------------------------------------------------------
(* The stream and the logs. *)

(* The stream is a sequence of units. *)
LEMMA StreamIs ==
    ASSUME TypeOK
    PROVE  /\ buffer \in Seq(Units) /\ wire \in Seq(Units) /\ Stream \in Seq(Units)
           /\ Len(Stream) \in Nat
           /\ \A i \in 1 .. Len(Stream) : Hang(Stream[i]) \/ Ans(Stream[i]) => Stream[i].call \in Calls
           /\ \A i \in 1 .. Len(buffer) : i \in 1 .. Len(Stream) /\ Stream[i] = buffer[i]
<1>1. buffer \in Seq(Units) /\ wire \in Seq(Units)
  BY DEF TypeOK, ListenerTypeOK
<1>2. Stream \in Seq(Units) /\ Joined(Stream, buffer, wire)
  BY <1>1, JoinIs, Zenon DEF Stream
<1>3. Len(Stream) \in Nat /\ \A i \in 1 .. Len(Stream) : Stream[i] \in Units
  BY <1>2
<1>4. \A i \in 1 .. Len(buffer) : i \in 1 .. Len(Stream) /\ Stream[i] = buffer[i]
  BY <1>2 DEF Joined
<1> QED
  BY <1>1, <1>2, <1>3, <1>4, UnitsAre, Zenon

(* A stream that only got shorter, or has new units that are no events, is
   sound. *)
LEMMA StreamKept ==
    ASSUME TypeOK, TypeOK', StreamInv, NEW h \in Nat, Fewer(Stream', Stream, h),
           UNCHANGED <<call, order, logged>>
    PROVE  StreamInv'
<1>1. Len(Stream) \in Nat /\ Len(Stream') \in Nat
  <2>1. (Stream \in Seq(Units))'
    <3>1. (buffer \in Seq(Units) /\ wire \in Seq(Units))'
      BY DEF TypeOK, ListenerTypeOK
    <3> QED
      BY <3>1, JoinIs, Zenon DEF Stream
  <2> QED
    BY <2>1, StreamIs
<1>2. Sound(Stream, logged, order, call)
  BY DEF StreamInv
<1> DEFINE st == Stream  new == Stream'
<1>3. Len(st) \in Nat /\ Len(new) \in Nat /\ Sound(st, logged, order, call) /\ Fewer(new, st, h)
  BY <1>1, <1>2
<1> HIDE DEF st, new
<1>4. Sound(new, logged, order, call)
  BY <1>3, SoundKept, Zenon DEF Fewer
<1> QED
  BY <1>4, Zenon DEF StreamInv, new

(* A step that leaves the stream leaves it sound. *)
LEMMA StreamSame ==
    ASSUME StreamInv, Stream' = Stream, UNCHANGED <<call, order, logged>>
    PROVE  StreamInv'
BY Zenon DEF StreamInv

(* A step on the wire that takes from its end or adds no event. *)
LEMMA StreamWire ==
    ASSUME TypeOK, TypeOK', StreamInv, Fewer(wire', wire, 0),
           UNCHANGED <<buffer, call, order, logged>>
    PROVE  StreamInv'
<1>1. buffer \in Seq(Units) /\ wire \in Seq(Units) /\ wire' \in Seq(Units)
  BY DEF TypeOK, ListenerTypeOK
<1>2. Fewer(Join(buffer, wire'), Join(buffer, wire), 0)
  BY <1>1, WireFewer, Zenon
<1>3. Fewer(Stream', Stream, 0)
  BY <1>2 DEF Stream
<1> QED
  BY <1>3, StreamKept

(* Reading a frame takes its units. *)
LEMMA StreamRest ==
    ASSUME TypeOK, HasFrame, buffer' = Rest, wire' = wire
    PROVE  /\ \A i \in 1 .. Len(Stream') :
                 i + FrameLen \in 1 .. Len(Stream) /\ Stream'[i] = Stream[i + FrameLen]
           /\ FrameLen \in Nat /\ Fewer(Stream', Stream, FrameLen)
           /\ Len(Stream') = Len(Stream) - FrameLen
<1> DEFINE k == FrameLen
<1>1. k \in 1 .. Len(buffer) /\ k \in Nat
  BY FrameIs
<1>2. buffer \in Seq(Units) /\ wire \in Seq(Units)
  BY DEF TypeOK, ListenerTypeOK
<1>3. Stream' = Join(SubSeq(buffer, k + 1, Len(buffer)), wire)
  BY DEF Stream, Rest
<1> HIDE DEF k
<1>4. /\ \A i \in 1 .. Len(Join(SubSeq(buffer, k + 1, Len(buffer)), wire)) :
            /\ i + k \in 1 .. Len(Join(buffer, wire))
            /\ Join(SubSeq(buffer, k + 1, Len(buffer)), wire)[i] = Join(buffer, wire)[i + k]
      /\ Len(Join(SubSeq(buffer, k + 1, Len(buffer)), wire)) = Len(Join(buffer, wire)) - k
  BY <1>1, <1>2, StreamRead, Zenon
<1>5. \A i \in 1 .. Len(Stream') : i + k \in 1 .. Len(Stream) /\ Stream'[i] = Stream[i + k]
  BY <1>3, <1>4, Zenon DEF Stream
<1>6. Fewer(Stream', Stream, k)
  BY <1>5, Zenon DEF Fewer
<1>7. Len(Stream') = Len(Stream) - k
  BY <1>3, <1>4, Zenon DEF Stream
<1> QED
  BY <1>1, <1>5, <1>6, <1>7 DEF k

(* The logs do not depend on anything else. *)
LEMMA LogKept ==
    ASSUME LogInv, UNCHANGED <<call, order, logged, active, logs>>
    PROVE  LogInv'
BY Zenon DEF LogInv

(* Units that are no events, added to the wire or taken from its end. *)
LEMMA WireEnds ==
    ASSUME wire \in Seq(Units)
    PROVE  /\ \A t : Fewer(Append(wire, Unit(t)), wire, 0)
           /\ \A n \in 0 .. Len(wire) : Fewer(SubSeq(wire, 1, n), wire, 0)
           /\ Fewer(<<Unit("auth")>>, wire, 0)
<1>1. ASSUME NEW t PROVE Fewer(Append(wire, Unit(t)), wire, 0)
  <2> DEFINE new == Append(wire, Unit(t))
  <2>1. /\ Len(wire) \in Nat /\ Len(new) = Len(wire) + 1 /\ new[Len(wire) + 1] = Unit(t)
        /\ \A i \in 1 .. Len(wire) : new[i] = wire[i]
    OBVIOUS
  <2> HIDE DEF new
  <2>2. ASSUME NEW i \in 1 .. Len(new), Hang(new[i]) \/ Ans(new[i])
        PROVE  i + 0 \in 1 .. Len(wire) /\ new[i] = wire[i + 0]
    <3>1. i # Len(wire) + 1
      BY <2>1, <2>2, UnitsAre, Zenon
    <3> QED
      BY <2>1, <3>1
  <2>3. Fewer(new, wire, 0)
    BY <2>2, Zenon DEF Fewer
  <2> QED
    BY <2>3 DEF new
<1>2. ASSUME NEW n \in 0 .. Len(wire) PROVE Fewer(SubSeq(wire, 1, n), wire, 0)
  BY DEF Fewer
<1>3. Fewer(<<Unit("auth")>>, wire, 0)
  <2> DEFINE new == <<Unit("auth")>>
  <2>1. Len(new) = 1 /\ new[1] = Unit("auth")
    OBVIOUS
  <2> HIDE DEF new
  <2>2. \A i \in 1 .. Len(new) : ~(Hang(new[i]) \/ Ans(new[i]))
    <3>1. \A i \in 1 .. Len(new) : i = 1
      BY <2>1
    <3> QED
      BY <2>1, <3>1, UnitsAre, Zenon
  <2>3. Fewer(new, wire, 0)
    BY <2>2, Zenon DEF Fewer
  <2> QED
    BY <2>3 DEF new
<1> QED
  BY <1>1, <1>2, <1>3

-----------------------------------------------------------------------------
(* The steps that change calls or logs. *)

(* A call that hangs up is the last to end and its event the last sent. *)
LEMMA HangupStep ==
    ASSUME PInv, TypeOK', NEW c \in Calls, Hangup(c)
    PROVE  StreamInv' /\ LogInv'
<1>1. /\ order \in Seq(Calls) /\ logged \in Seq(Calls) /\ buffer \in Seq(Units) /\ wire \in Seq(Units)
      /\ call \in [Calls -> {"new", "up", "over"}] /\ wire' \in Seq(Units)
  BY DEF PInv, TypeOK, ListenerTypeOK
<1>2. /\ call[c] = "up" /\ call' = [call EXCEPT ![c] = "over"] /\ order' = Append(order, c)
      /\ wire' \in {wire, Sent(wire, "hangup", c)}
      /\ UNCHANGED <<buffer, active, logs, logged>>
  BY DEF Hangup, Send, Sent, Join, clientVars, stateVars
<1>3. /\ \A a : Within(a, order') <=> Within(a, order) \/ a = c
      /\ \A a, b : Before(a, b, order) => Before(a, b, order')
      /\ Len(order') = Len(order) + 1 /\ Len(order) \in Nat
      /\ \A m \in 1 .. Len(order) : order'[m] = order[m]
      /\ order'[Len(order) + 1] = c
  <2>1. /\ Len(order') = Len(order) + 1 /\ Len(order) \in Nat
        /\ \A m \in 1 .. Len(order) : order'[m] = order[m]
        /\ order'[Len(order) + 1] = c
    BY <1>1, <1>2
  <2>2. /\ \A a : Within(a, Append(order, c)) <=> Within(a, order) \/ a = c
        /\ \A a, b : Before(a, b, order) => Before(a, b, Append(order, c))
    BY <1>1, AppendOrder, Zenon
  <2> QED
    BY <1>2, <2>1, <2>2, Zenon
<1>4. LogInv'
  <2>1. \A m \in 1 .. Len(order') : call'[order'[m]] = "over"
    <3>1. ASSUME NEW m \in 1 .. Len(order) PROVE call'[order'[m]] = "over"
      <4>1. order'[m] = order[m] /\ order[m] \in Calls /\ call[order[m]] = "over"
        BY <1>1, <1>3 DEF PInv, LogInv
      <4> QED
        BY <1>1, <1>2, <4>1
    <3>2. call'[order'[Len(order) + 1]] = "over"
      BY <1>1, <1>2, <1>3
    <3> QED
      BY <1>3, <3>1, <3>2
  <2>2. /\ \A l \in 1 .. Len(logged) : Within(logged[l], order')
        /\ \A i, j \in 1 .. Len(logged) : i < j => Before(logged[i], logged[j], order')
    BY <1>3, Zenon DEF PInv, LogInv
  <2> QED
    BY <1>2, <2>1, <2>2, Zenon DEF PInv, LogInv
<1>5. StreamInv'
  <2> DEFINE st == Stream  new == Stream'  ord == order  lg == logged  cl == call  cl2 == call'
  <2>1. \A i \in 1 .. Len(new) : Hang(new[i]) \/ Ans(new[i]) =>
           \/ i \in 1 .. Len(st) /\ new[i] = st[i]
           \/ i = Len(st) + 2 /\ new[i].call = c /\ ~Ans(new[i])
    <3>1. CASE wire' = wire
      BY <1>2, <3>1, Zenon DEF Stream
    <3>2. CASE wire' = Sent(wire, "hangup", c)
      <4>1. new = Join(buffer, Sent(wire, "hangup", c)) /\ st = Join(buffer, wire)
        BY <1>2, <3>2 DEF Stream
      <4>2. Part("hangup", c, 1).call = c /\ ~Ans(Part("hangup", c, 1)) /\ "hangup" \in Kinds
        BY DEF Part, Ans, Kinds
      <4> HIDE DEF st, new
      <4>3. Longer(new, st, "hangup", c)
        <5>1. Longer(Join(buffer, Sent(wire, "hangup", c)), Join(buffer, wire), "hangup", c)
          BY <1>1, <4>2, StreamSent, Zenon
        <5> QED
          BY <4>1, <5>1, Zenon
      <4> QED
        BY <4>2, <4>3, Zenon DEF Longer
    <3> QED
      BY <1>2, <3>1, <3>2
  <2>2. Len(st) \in Nat /\ Len(new) \in Nat
    <3>1. Stream \in Seq(Units) /\ Stream' \in Seq(Units)
      BY <1>1, <1>2, JoinIs, Zenon DEF Stream
    <3> QED
      BY <3>1
  <2>3. Sound(st, lg, ord, cl) /\ \A l \in 1 .. Len(lg) : Within(lg[l], ord)
    BY DEF PInv, StreamInv, LogInv
  <2>4. \A d \in Calls : cl2[d] = "new" => cl[d] = "new"
    BY <1>1, <1>2
  <2>5. \A i \in 1 .. Len(st) : Ans(st[i]) => st[i].call \in Calls
    BY StreamIs, Zenon DEF PInv
  <2>6. lg \in Seq(Calls) /\ ord \in Seq(Calls)
    BY <1>1
  <2> HIDE DEF st, new, ord, lg, cl, cl2
  <2>7. Sound(new, lg, Append(ord, c), cl2)
    BY <2>1, <2>2, <2>3, <2>4, <2>5, <2>6, SoundHangup, Zenon
  <2> QED
    BY <1>2, <2>7, Zenon DEF StreamInv, new, ord, lg, cl2
<1> QED
  BY <1>4, <1>5

(* A call that is answered is new: nothing about it was sent or logged. *)
LEMMA AnswerStep ==
    ASSUME PInv, TypeOK', NEW c \in Calls, Answer(c)
    PROVE  StreamInv' /\ LogInv'
<1>1. /\ order \in Seq(Calls) /\ logged \in Seq(Calls) /\ buffer \in Seq(Units) /\ wire \in Seq(Units)
      /\ call \in [Calls -> {"new", "up", "over"}] /\ wire' \in Seq(Units)
  BY DEF PInv, TypeOK, ListenerTypeOK
<1>2. /\ call[c] = "new" /\ call' = [call EXCEPT ![c] = "up"]
      /\ wire' \in {wire, Sent(wire, "answer", c)}
      /\ UNCHANGED <<buffer, active, logs, logged, order>>
  BY DEF Answer, Send, Sent, Join, clientVars, stateVars
<1>3. \A m \in 1 .. Len(order) : order[m] \in Calls /\ call[order[m]] = "over" /\ order[m] # c
  BY <1>1, <1>2 DEF PInv, LogInv
<1>4. ~Within(c, order)
  BY <1>3 DEF Within
<1>5. ~Within(c, logged)
  <2> SUFFICES ASSUME NEW l \in 1 .. Len(logged), logged[l] = c PROVE FALSE
    BY DEF Within
  <2>1. Within(logged[l], order)
    BY DEF PInv, LogInv
  <2> QED
    BY <1>4, <2>1
<1>6. LogInv'
  <2>1. \A m \in 1 .. Len(order) : call'[order[m]] = "over"
    BY <1>1, <1>2, <1>3
  <2> QED
    BY <1>2, <2>1, Zenon DEF PInv, LogInv
<1>7. StreamInv'
  <2> DEFINE st == Stream  new == Stream'  ord == order  lg == logged  cl == call  cl2 == call'
  <2>1. \A i \in 1 .. Len(new) : Hang(new[i]) \/ Ans(new[i]) =>
           \/ i \in 1 .. Len(st) /\ new[i] = st[i]
           \/ i = Len(st) + 2 /\ new[i].call = c /\ ~Hang(new[i])
    <3>1. CASE wire' = wire
      BY <1>2, <3>1, Zenon DEF Stream
    <3>2. CASE wire' = Sent(wire, "answer", c)
      <4>1. new = Join(buffer, Sent(wire, "answer", c)) /\ st = Join(buffer, wire)
        BY <1>2, <3>2 DEF Stream
      <4>2. Part("answer", c, 1).call = c /\ ~Hang(Part("answer", c, 1)) /\ "answer" \in Kinds
        BY DEF Part, Hang, Kinds
      <4> HIDE DEF st, new
      <4>3. Longer(new, st, "answer", c)
        <5>1. Longer(Join(buffer, Sent(wire, "answer", c)), Join(buffer, wire), "answer", c)
          BY <1>1, <4>2, StreamSent, Zenon
        <5> QED
          BY <4>1, <5>1, Zenon
      <4> QED
        BY <4>2, <4>3, Zenon DEF Longer
    <3> QED
      BY <1>2, <3>1, <3>2
  <2>2. Len(st) \in Nat /\ Len(new) \in Nat
    <3>1. Stream \in Seq(Units) /\ Stream' \in Seq(Units)
      BY <1>1, <1>2, JoinIs, Zenon DEF Stream
    <3> QED
      BY <3>1
  <2>3. Sound(st, lg, ord, cl)
    BY DEF PInv, StreamInv
  <2>4. cl2[c] # "new" /\ \A d \in Calls : cl2[d] = "new" => cl[d] = "new"
    BY <1>1, <1>2
  <2>5. \A i \in 1 .. Len(st) : Ans(st[i]) => st[i].call \in Calls
    BY StreamIs, Zenon DEF PInv
  <2>6. lg \in Seq(Calls) /\ ord \in Seq(Calls) /\ ~Within(c, lg) /\ ~Within(c, ord)
    BY <1>1, <1>4, <1>5
  <2> HIDE DEF st, new, ord, lg, cl, cl2
  <2>7. Sound(new, lg, ord, cl2)
    BY <2>1, <2>2, <2>3, <2>4, <2>5, <2>6, SoundAnswer, Zenon
  <2> QED
    BY <1>2, <2>7, Zenon DEF StreamInv, new, ord, lg, cl2
<1> QED
  BY <1>6, <1>7

(* A digit is neither a hangup nor an answer. *)
LEMMA KeyStep ==
    ASSUME PInv, TypeOK', NEW c \in Calls, Key(c)
    PROVE  StreamInv' /\ LogInv'
<1>1. /\ wire' \in {wire, Sent(wire, "dtmf", c)}
      /\ UNCHANGED <<buffer, active, logs, logged, order, call>>
  BY DEF Key, Send, Sent, Join, clientVars, stateVars
<1>2. TypeOK /\ StreamInv /\ LogInv /\ buffer \in Seq(Units) /\ wire \in Seq(Units)
  BY SMTT(30) DEF PInv, TypeOK, ListenerTypeOK
<1>3. ASSUME wire' = wire PROVE StreamInv'
  BY <1>1, <1>2, <1>3, StreamSame, Zenon DEF Stream
<1>4. ASSUME wire' = Sent(wire, "dtmf", c) PROVE StreamInv'
  <2>1. "dtmf" \in Kinds /\ ~Hang(Part("dtmf", c, 1)) /\ ~Ans(Part("dtmf", c, 1))
    BY DEF Kinds, Hang, Ans, Part
  <2>2. Longer(Join(buffer, Sent(wire, "dtmf", c)), Join(buffer, wire), "dtmf", c)
    BY <1>2, <2>1, StreamSent, Zenon
  <2>3. Longer(Stream', Stream, "dtmf", c)
    BY <1>1, <1>4, <2>2, Zenon DEF Stream
  <2>4. \A i \in 1 .. Len(Stream') : Hang(Stream'[i]) \/ Ans(Stream'[i]) =>
           i \in 1 .. Len(Stream) /\ Stream'[i] = Stream[i]
    BY <2>1, <2>3, Zenon DEF Longer
  <2>5. \A i \in 1 .. Len(Stream) : i + 0 = i
    BY <1>2, StreamIs
  <2>6. Fewer(Stream', Stream, 0)
    BY <2>4, <2>5, Zenon DEF Fewer
  <2> QED
    BY <1>1, <1>2, <2>6, StreamKept
<1>5. StreamInv'
  BY <1>1, <1>3, <1>4
<1> QED
  BY <1>1, <1>2, <1>5, LogKept, Zenon

(* An event is read: a call that is answered was not logged, and one that is
   logged ended after all that were. *)
LEMMA ReadStep ==
    ASSUME PInv, TypeOK', ReadEvent
    PROVE  StreamInv' /\ LogInv'
<1> DEFINE c == Frame.call
<1>1. TypeOK /\ StreamInv /\ LogInv /\ HasFrame /\ buffer' = Rest /\ wire' = wire
  BY DEF PInv, ReadEvent, listenerVars
<1>2. UNCHANGED <<call, order>>
  BY DEF ReadEvent, callVars
<1>3. /\ \A i \in 1 .. Len(Stream') :
            i + FrameLen \in 1 .. Len(Stream) /\ Stream'[i] = Stream[i + FrameLen]
      /\ FrameLen \in Nat /\ Fewer(Stream', Stream, FrameLen)
  BY <1>1, StreamRest, Zenon
<1>4. UNCHANGED logged => StreamInv'
  BY <1>1, <1>2, <1>3, StreamKept, Zenon
<1>5. CASE Frame.t = "answer"
  <2>1. active' = active \cup {c} /\ UNCHANGED <<logs, logged>>
    BY <1>5 DEF ReadEvent, OnAnswer
  <2>2. 2 \in 1 .. Len(buffer) /\ Ans(buffer[2]) /\ c = buffer[2].call
    BY <1>1, <1>5, FrameIs DEF TypeOK
  <2>3. 2 \in 1 .. Len(Stream) /\ Stream[2] = buffer[2]
    BY <1>1, <2>2, StreamIs, Zenon
  <2> HIDE DEF c
  <2>4. ~Within(c, logged)
    BY <1>1, <2>2, <2>3, Zenon DEF StreamInv, Sound
  <2>5. \A d \in active' : ~Within(d, logged)
    BY <1>1, <2>1, <2>4, Zenon DEF LogInv
  <2> QED
    BY <1>1, <1>2, <1>4, <2>1, <2>5, Zenon DEF LogInv
<1>6. CASE Frame.t = "hangup"
  <2>1. OnHangup(c)
    BY <1>6 DEF ReadEvent
  <2>2. /\ 2 \in 1 .. Len(buffer) /\ Hang(buffer[2]) /\ c = buffer[2].call /\ c \in Calls
        /\ FrameLen >= 2
    BY <1>1, <1>6, FrameIs DEF TypeOK
  <2>3. 2 \in 1 .. Len(Stream) /\ Stream[2] = buffer[2]
    BY <1>1, <2>2, StreamIs, Zenon
  <2> HIDE DEF c
  <2>4. CASE UNCHANGED <<logs, logged>>
    <3>1. \A d \in active' : ~Within(d, logged)
      BY <1>1, <2>1, <2>4, Zenon DEF LogInv, OnHangup
    <3> QED
      BY <1>1, <1>2, <1>4, <2>4, <3>1, Zenon DEF LogInv
  <2>5. CASE logged' = Append(logged, c) /\ logs' = LastOf(Append(logs, c), MaxLogs)
    <3>1. logged \in Seq(Calls) /\ Len(logged) \in Nat
      BY <1>1 DEF TypeOK
    <3>2. /\ Len(logged') = Len(logged) + 1 /\ logged'[Len(logged) + 1] = c
          /\ \A l \in 1 .. Len(logged) : logged'[l] = logged[l]
      BY <2>2, <2>5, <3>1
    <3>3. \A a : Within(a, logged') <=> Within(a, logged) \/ a = c
      <4>1. \A a : Within(a, Append(logged, c)) <=> Within(a, logged) \/ a = c
        <5>1. c \in Calls /\ logged \in Seq(Calls)
          BY <2>2, <3>1
        <5> QED
          BY <5>1, AppendOrder, Zenon
      <4> QED
        BY <2>5, <4>1, Zenon
    <3>4. /\ Within(c, order)
          /\ \A l \in 1 .. Len(logged) : Before(logged[l], c, order)
      BY <1>1, <2>2, <2>3, Zenon DEF StreamInv, Sound
    <3>5. StreamInv'
      <4> DEFINE st == Stream  new == Stream'  h == FrameLen  ord == order  cl == call
      <4>1. Len(st) \in Nat /\ Len(st) >= 2 /\ st[2].call = c /\ Hang(st[2])
        BY <1>1, <2>2, <2>3, StreamIs
      <4>2. Len(new) \in Nat
        <5>1. (buffer \in Seq(Units) /\ wire \in Seq(Units))'
          BY DEF TypeOK, ListenerTypeOK
        <5>2. Stream' \in Seq(Units)
          BY <5>1, JoinIs, Zenon DEF Stream
        <5> QED
          BY <5>2
      <4>3. /\ h \in Nat /\ h >= 2 /\ Sound(st, logged, ord, cl)
            /\ \A i \in 1 .. Len(new) : i + h \in 1 .. Len(st) /\ new[i] = st[i + h]
        BY <1>1, <1>3, <2>2 DEF StreamInv
      <4> HIDE DEF st, new, h, ord, cl
      <4>4. Sound(new, Append(logged, st[2].call), ord, cl)
        BY <2>2, <3>1, <4>1, <4>2, <4>3, SoundLogged, Zenon
      <4>5. Sound(new, logged', ord, cl)
        BY <2>5, <4>1, <4>4, Zenon
      <4> QED
        BY <1>2, <4>5, Zenon DEF StreamInv, new, ord, cl
    <3>6. \A l \in 1 .. Len(logged') : Within(logged'[l], order)
      <4>1. ASSUME NEW l \in 1 .. Len(logged') PROVE l \in 1 .. Len(logged) \/ l = Len(logged) + 1
        BY <3>1, <3>2
      <4> QED
        BY <1>1, <3>2, <3>4, <4>1, Zenon DEF LogInv
    <3>7. ASSUME NEW i \in 1 .. Len(logged'), NEW j \in 1 .. Len(logged'), i < j
          PROVE  Before(logged'[i], logged'[j], order)
      <4>1. i \in 1 .. Len(logged) /\ (j \in 1 .. Len(logged) \/ j = Len(logged) + 1)
        BY <3>1, <3>2, <3>7
      <4> QED
        BY <1>1, <3>2, <3>4, <3>7, <4>1, Zenon DEF LogInv
    <3>8. \A d \in active' : ~Within(d, logged')
      BY <1>1, <2>1, <3>3, Zenon DEF LogInv, OnHangup
    <3>9. logs' = LastOf(logged', MaxLogs)
      <4>1. MaxLogs \in Nat \ {0} /\ logs = LastOf(logged, MaxLogs)
        BY <1>1, ServiceAssumption DEF LogInv
      <4>2. LastOf(Append(LastOf(logged, MaxLogs), c), MaxLogs) = LastOf(Append(logged, c), MaxLogs)
        BY <2>2, <3>1, <4>1, LastOfAppend
      <4> QED
        BY <2>5, <4>1, <4>2, Zenon
    <3> QED
      BY <1>1, <1>2, <3>5, <3>6, <3>7, <3>8, <3>9, Zenon DEF LogInv
  <2> QED
    BY <2>1, <2>4, <2>5, Zenon DEF OnHangup
<1>7. CASE Frame.t \notin {"answer", "hangup"}
  <2>1. UNCHANGED <<active, logs, logged>>
    BY <1>7 DEF ReadEvent, OnDtmf, stateVars
  <2> QED
    BY <1>1, <1>2, <1>4, <2>1, LogKept, Zenon
<1> QED
  BY <1>5, <1>6, <1>7

-----------------------------------------------------------------------------
(* The invariant. *)

(* It holds when the service has started. *)
THEOREM InitInv == Init => PInv
<1> SUFFICES ASSUME Init PROVE PInv
  OBVIOUS
<1>1. TypeOK
  BY ServiceAssumption DEF Init, TypeOK, ListenerTypeOK
<1>2. buffer = << >> /\ wire = << >> /\ logged = << >> /\ order = << >> /\ logs = << >> /\ active = {}
  BY DEF Init
<1>3. StreamInv
  <2>1. Len(Stream) = 0
    BY <1>2 DEF Stream, Join
  <2> QED
    BY <2>1 DEF StreamInv, Sound
<1>4. LogInv
  BY <1>2, ServiceAssumption DEF LogInv, LastOf
<1> QED
  BY <1>1, <1>3, <1>4 DEF PInv

(* Every step of the service, the listener and the calls keeps it. *)
THEOREM StepInv == PInv /\ [Next]_vars => PInv'
<1> SUFFICES ASSUME PInv, [Next]_vars PROVE PInv'
  OBVIOUS
<1>1. TypeOK /\ StreamInv /\ LogInv /\ buffer \in Seq(Units) /\ wire \in Seq(Units)
  BY DEF PInv, TypeOK, ListenerTypeOK
<1>2. TypeOK'
  BY <1>1, TypesStep DEF LogInv
<1> DEFINE Quiescent == UNCHANGED <<call, order, logged, active, logs>>
<1>3. Quiescent => LogInv'
  BY <1>1, LogKept, Zenon
<1>4. Quiescent /\ UNCHANGED <<buffer, wire>> => StreamInv'
  BY <1>1, StreamSame, Zenon DEF Stream
<1>5. Quiescent /\ UNCHANGED buffer /\ Fewer(wire', wire, 0) => StreamInv'
  BY <1>1, <1>2, StreamWire, Zenon
<1>6. Quiescent /\ HasFrame /\ buffer' = Rest /\ wire' = wire => StreamInv'
  <2> SUFFICES ASSUME Quiescent, HasFrame, buffer' = Rest, wire' = wire PROVE StreamInv'
    OBVIOUS
  <2>1. FrameLen \in Nat /\ Fewer(Stream', Stream, FrameLen)
    BY <1>1, StreamRest, Zenon
  <2> QED
    BY <1>1, <1>2, <2>1, StreamKept, Zenon
<1> USE DEF listenerVars, clientVars, stateVars, callVars
<1>7. CASE Recv
  <2>1. PICK n \in 1 .. Len(wire) : /\ buffer' = buffer \o SubSeq(wire, 1, n)
                                    /\ wire' = SubSeq(wire, n + 1, Len(wire))
    BY <1>7, Zenon DEF Recv
  <2>2. Join(Join(buffer, SubSeq(wire, 1, n)), SubSeq(wire, n + 1, Len(wire))) = Join(buffer, wire)
    BY <1>1, StreamReceived
  <2>3. Stream' = Stream
    BY <2>1, <2>2, Zenon DEF Stream, Join
  <2>4. Quiescent
    BY <1>7 DEF Recv
  <2>5. StreamInv'
    BY <1>1, <2>3, <2>4, StreamSame, Zenon
  <2> QED
    BY <1>2, <1>3, <2>4, <2>5, Zenon DEF PInv
<1>8. CASE RecvEnd \/ Deadline \/ Broadcast \/ UNCHANGED vars
  <2>1. Quiescent /\ UNCHANGED <<buffer, wire>>
    BY <1>8 DEF RecvEnd, Deadline, Broadcast, vars
  <2> QED
    BY <1>2, <1>3, <1>4, <2>1, Zenon DEF PInv
<1>9. CASE AwaitGreeting \/ AwaitReply
  <2>1. Quiescent /\ HasFrame /\ buffer' = Rest /\ wire' = wire
    BY <1>9 DEF AwaitGreeting, AwaitReply
  <2> QED
    BY <1>2, <1>3, <1>6, <2>1, Zenon DEF PInv
<1>10. CASE Connect \/ Listen \/ Expire \/ Lose
  <2>1. Quiescent /\ UNCHANGED buffer
    BY <1>10 DEF Connect, Listen, Expire, Lose
  <2>2. Fewer(wire', wire, 0) \/ wire' = wire
    BY <1>1, <1>10, WireEnds, Zenon
       DEF Connect, Accept, Listen, Serve, Expire, AuthTimeout, Goodbye, Lose, Break
  <2> QED
    BY <1>2, <1>3, <1>4, <1>5, <2>1, <2>2, Zenon DEF PInv
<1>11. CASE ReadEvent
  BY <1>2, <1>11, ReadStep, Zenon DEF PInv
<1>12. CASE \E c \in Calls : Answer(c) \/ Key(c) \/ Hangup(c)
  BY <1>2, <1>12, AnswerStep, KeyStep, HangupStep, Zenon DEF PInv
<1> QED
  BY <1>7, <1>8, <1>9, <1>10, <1>11, <1>12, Zenon DEF Next, EventThread

(* So it always holds. *)
THEOREM Invariance == Spec => []PInv
BY InitInv, StepInv, PTL DEF Spec

(* The logs of the service (PttState.on_hangup) show calls that ended, each
   once, in their order, and the last max_logs of them, whatever breaks. *)
THEOREM LogsStaySound == Spec => []LogsSound
<1>1. PInv => LogsSound
  <2> SUFFICES ASSUME PInv PROVE LogsSound
    OBVIOUS
  <2>1. /\ DOMAIN logged = 1 .. Len(logged) /\ DOMAIN order = 1 .. Len(order)
    BY DEF PInv, TypeOK
  <2>2. \A i, j \in DOMAIN logged : i < j =>
           \E m, n \in DOMAIN order : m < n /\ order[m] = logged[i] /\ order[n] = logged[j]
    <3>1. \A i, j \in 1 .. Len(logged) : i < j => Before(logged[i], logged[j], order)
      BY DEF PInv, LogInv
    <3>2. ASSUME NEW i \in DOMAIN logged, NEW j \in DOMAIN logged, i < j
          PROVE  \E m, n \in DOMAIN order : m < n /\ order[m] = logged[i] /\ order[n] = logged[j]
      <4>1. Before(logged[i], logged[j], order)
        BY <2>1, <3>1, <3>2
      <4> QED
        BY <2>1, <4>1, Zenon DEF Before
    <3> QED
      BY <3>2
  <2>3. \A i \in DOMAIN logged : call[logged[i]] = "over"
    BY <2>1, Zenon DEF PInv, LogInv, Within
  <2>4. \A i \in DOMAIN logged : logged[i] \notin active
    BY <2>1, Zenon DEF PInv, LogInv, Within
  <2> QED
    BY <2>2, <2>3, <2>4, Zenon DEF PInv, LogInv, LogsSound
<1> QED
  BY <1>1, Invariance, PTL

(* The types of the service's state, its bound on the logs among them. *)
THEOREM TypesHold == Spec => []TypeOK
<1>1. PInv => TypeOK
  BY DEF PInv
<1> QED
  BY <1>1, Invariance, PTL

-----------------------------------------------------------------------------
(* Streams of frames. *)

(* No header lies where the body of another one is read. *)
HeadsApart(st) ==
    \A i, j \in 1 .. Len(st) : st[i].t = "head" /\ st[j].t = "head" /\ i < j => i + BodyLen < j

(* The greeting at i, one that is not read as part of a body. *)
Greeting(st, i) ==
    st[i].t = "auth" /\ \A j \in 1 .. Len(st) : st[j].t = "head" /\ j < i => j + BodyLen < i

(* The stream is frames from beginning to end, and no greeting among them. *)
Whole(st) ==
    /\ \A i \in 1 .. Len(st) : st[i].t = "head" =>
          i + BodyLen <= Len(st) /\ \A k \in 1 .. BodyLen : st[i + k].part = k
    /\ \A i \in 1 .. Len(st) : st[i].part # 0 =>
          \E j \in 1 .. Len(st) : st[j].t = "head" /\ i = j + st[i].part
    /\ \A i \in 1 .. Len(st) : st[i].t # "auth"

(* What a unit is. *)
LEMMA UnitForm ==
    ASSUME NEW u \in Units
    PROVE  u.part \in 0 .. BodyLen /\ (u.t \in {"head", "ok", "auth", "bye"} <=> u.part = 0)
BY ListenerAssumption DEF Units, Unit, Part, Kinds

(* A stream of frames has its headers apart. *)
LEMMA WholeApart ==
    ASSUME NEW st \in Seq(Units), Whole(st)
    PROVE  HeadsApart(st)
<1> SUFFICES ASSUME NEW i \in 1 .. Len(st), NEW j \in 1 .. Len(st), st[i].t = "head", st[j].t = "head",
                    i < j, j <= i + BodyLen
             PROVE  FALSE
  BY ListenerAssumption DEF HeadsApart
<1>1. j - i \in 1 .. BodyLen /\ i + (j - i) = j /\ st[j] \in Units
  BY ListenerAssumption
<1>2. st[j].part = j - i
  <2>1. \A k \in 1 .. BodyLen : st[i + k].part = k
    BY DEF Whole
  <2> QED
    BY <1>1, <2>1
<1> QED
  BY <1>1, <1>2, UnitForm

(* The first frame of st, of h units, is read; new is the rest. *)
Dropped(new, st, h) ==
    /\ h = IF st[1].t = "head" THEN 1 + BodyLen ELSE 1
    /\ h \in 1 .. Len(st) /\ Len(new) = Len(st) - h
    /\ \A i \in 1 .. Len(new) : i + h \in 1 .. Len(st) /\ new[i] = st[i + h]

(* A header among the units of the first frame is its first unit. *)
LEMMA FirstHead ==
    ASSUME NEW st \in Seq(Units), NEW h \in 1 .. Len(st), HeadsApart(st),
           h = IF st[1].t = "head" THEN 1 + BodyLen ELSE 1,
           NEW j \in 1 .. Len(st), st[j].t = "head", j <= h
    PROVE  j = 1 /\ h = 1 + BodyLen
<1>1. Len(st) \in Nat /\ 1 \in 1 .. Len(st)
  OBVIOUS
<1>2. CASE st[1].t = "head"
  BY <1>1, <1>2, ListenerAssumption DEF HeadsApart
<1>3. CASE st[1].t # "head"
  BY <1>1, <1>3
<1> QED
  BY <1>2, <1>3

(* What is left of a stream when a frame is read. *)
LEMMA DropFrame ==
    ASSUME NEW st \in Seq(Units), NEW new \in Seq(Units), NEW h, Dropped(new, st, h), HeadsApart(st)
    PROVE  /\ HeadsApart(new)
           /\ \A i \in 1 .. Len(new) : Greeting(new, i) => Greeting(st, i + h)
           /\ Whole(st) => Whole(new)
<1>1. /\ Len(st) \in Nat /\ Len(new) = Len(st) - h /\ h \in 1 .. Len(st)
      /\ h = IF st[1].t = "head" THEN 1 + BodyLen ELSE 1
      /\ \A i \in 1 .. Len(new) : i + h \in 1 .. Len(st) /\ new[i] = st[i + h]
  BY DEF Dropped
<1>2. HeadsApart(new)
  <2> SUFFICES ASSUME NEW i \in 1 .. Len(new), NEW j \in 1 .. Len(new), new[i].t = "head",
                      new[j].t = "head", i < j
               PROVE  i + BodyLen < j
    BY DEF HeadsApart
  <2>1. i + h \in 1 .. Len(st) /\ j + h \in 1 .. Len(st) /\ st[i + h].t = "head" /\ st[j + h].t = "head"
    BY <1>1, Zenon
  <2>2. i + h < j + h
    BY <1>1
  <2>3. i + h + BodyLen < j + h
    BY <2>1, <2>2 DEF HeadsApart
  <2> QED
    BY <1>1, <2>3, ListenerAssumption
<1>3. ASSUME NEW i \in 1 .. Len(new), Greeting(new, i) PROVE Greeting(st, i + h)
  <2>1. i + h \in 1 .. Len(st) /\ st[i + h].t = "auth"
    BY <1>1, <1>3, SMTT(30) DEF Greeting
  <2>2. ASSUME NEW j \in 1 .. Len(st), st[j].t = "head", j < i + h
        PROVE  j + BodyLen < i + h
    <3>1. CASE j <= h
      <4>1. j = 1 /\ h = 1 + BodyLen
        BY <1>1, <2>2, <3>1, FirstHead
      <4> QED
        BY <4>1, ListenerAssumption
    <3>2. CASE j > h
      <4>1. PICK m \in 1 .. Len(new) : j = m + h
        <5>1. j - h \in 1 .. Len(new) /\ j = (j - h) + h
          BY <1>1, <3>2, SMTT(30)
        <5> QED
          BY <5>1
      <4>2. new[m].t = "head" /\ m < i
        BY <1>1, <2>2, <4>1, SMTT(30)
      <4>3. m + BodyLen < i
        BY <1>3, <4>2 DEF Greeting
      <4> QED
        BY <1>1, <4>1, <4>3, ListenerAssumption
    <3> QED
      BY <1>1, <3>1, <3>2
  <2> QED
    BY <2>1, <2>2 DEF Greeting
<1>4. ASSUME Whole(st) PROVE Whole(new)
  <2>1. ASSUME NEW i \in 1 .. Len(new), new[i].t = "head"
        PROVE  i + BodyLen <= Len(new) /\ \A k \in 1 .. BodyLen : new[i + k].part = k
    <3>0. i + h \in 1 .. Len(st) /\ st[i + h].t = "head"
      BY <1>1, <2>1, Zenon
    <3>1. /\ i + h \in 1 .. Len(st) /\ i + h + BodyLen <= Len(st)
          /\ \A k \in 1 .. BodyLen : st[i + h + k].part = k
      BY <1>4, <3>0, Zenon DEF Whole
    <3>2. i + BodyLen <= Len(new)
      BY <1>1, <3>1, ListenerAssumption
    <3>3. ASSUME NEW k \in 1 .. BodyLen PROVE new[i + k].part = k
      <4>1. i + k \in 1 .. Len(new) /\ i + k + h = i + h + k
        BY <1>1, <3>2, ListenerAssumption
      <4>2. new[i + k] = st[i + k + h]
        BY <1>1, <4>1, SMTT(30)
      <4> QED
        BY <3>1, <4>1, <4>2
    <3> QED
      BY <3>2, <3>3
  <2>2. ASSUME NEW i \in 1 .. Len(new), new[i].part # 0
        PROVE  \E j \in 1 .. Len(new) : new[j].t = "head" /\ i = j + new[i].part
    <3>1. i + h \in 1 .. Len(st) /\ new[i] = st[i + h] /\ new[i] \in Units
      BY <1>1
    <3>2. PICK j \in 1 .. Len(st) : st[j].t = "head" /\ i + h = j + new[i].part
      BY <1>4, <2>2, <3>1 DEF Whole
    <3>3. j > h
      <4> SUFFICES ASSUME j <= h PROVE FALSE
        BY <1>1
      <4>1. j = 1 /\ h = 1 + BodyLen
        BY <1>1, <3>2, FirstHead, SMTT(30)
      <4>2. new[i].part \in 0 .. BodyLen
        BY <3>1, UnitForm
      <4> QED
        BY <3>2, <4>1, <4>2, ListenerAssumption
    <3>4. PICK m \in 1 .. Len(new) : j = m + h
      <4>1. j - h \in 1 .. Len(new) /\ j = (j - h) + h
        BY <1>1, <3>3
      <4> QED
        BY <4>1
    <3>5. new[m] = st[j] /\ new[i].part \in Nat
      <4>1. new[i].part \in 0 .. BodyLen
        BY <3>1, UnitForm
      <4> QED
        BY <1>1, <3>4, <4>1, ListenerAssumption
    <3>6. i = m + new[i].part
      <4>1. i \in Nat /\ m \in Nat /\ h \in Nat
        BY <1>1
      <4> QED
        BY <3>2, <3>4, <3>5, <4>1, SMTT(30)
    <3> QED
      BY <3>2, <3>5, <3>6
  <2>3. \A i \in 1 .. Len(new) : new[i].t # "auth"
    BY <1>1, <1>4, SMTT(30) DEF Whole
  <2> QED
    BY <2>1, <2>2, <2>3 DEF Whole
<1> QED
  BY <1>2, <1>3, <1>4

(* new is st up to m, or that and one more unit u. *)
Ends(new, st, m, u) ==
    /\ m \in 0 .. Len(st) /\ \A i \in 1 .. m : new[i] = st[i]
    /\ Len(new) = m \/ (Len(new) = m + 1 /\ new[m + 1] = u)

(* What a stream is when its end is lost, or a frame of one unit is sent. *)
LEMMA EndKept ==
    ASSUME NEW st \in Seq(Units), NEW new \in Seq(Units), NEW m, NEW u, u.part = 0, u.t # "head",
           Ends(new, st, m, u), HeadsApart(st)
    PROVE  /\ HeadsApart(new)
           /\ \A i \in 1 .. Len(new) : Greeting(new, i) =>
                 (i \in 1 .. m /\ Greeting(st, i)) \/ (i = m + 1 /\ u.t = "auth")
           /\ Whole(st) /\ m = Len(st) /\ u.t # "auth" => Whole(new)
<1>1. /\ Len(st) \in Nat /\ m \in 0 .. Len(st) /\ Len(new) \in Nat
      /\ \A i \in 1 .. m : i \in 1 .. Len(st) /\ i \in 1 .. Len(new) /\ new[i] = st[i]
      /\ \A i \in 1 .. Len(new) : i \in 1 .. m \/ (i = m + 1 /\ new[i] = u)
  BY DEF Ends
<1>2. \A i \in 1 .. Len(new) : new[i].t = "head" \/ new[i].part # 0 => i \in 1 .. m
  BY <1>1
<1>3. HeadsApart(new)
  BY <1>1, <1>2 DEF HeadsApart
<1>4. ASSUME NEW i \in 1 .. Len(new), Greeting(new, i)
      PROVE  (i \in 1 .. m /\ Greeting(st, i)) \/ (i = m + 1 /\ u.t = "auth")
  <2>1. CASE i \in 1 .. m
    <3>1. i \in 1 .. Len(st) /\ st[i].t = "auth"
      BY <1>1, <1>4, <2>1 DEF Greeting
    <3>2. ASSUME NEW j \in 1 .. Len(st), st[j].t = "head", j < i PROVE j + BodyLen < i
      <4>1. j \in 1 .. m
        BY <1>1, <2>1, <3>2
      <4>2. j \in 1 .. Len(new) /\ new[j].t = "head"
        BY <1>1, <3>2, <4>1
      <4> QED
        BY <1>4, <3>2, <4>2 DEF Greeting
    <3> QED
      BY <2>1, <3>1, <3>2 DEF Greeting
  <2>2. CASE i \notin 1 .. m
    BY <1>1, <1>4, <2>2 DEF Greeting
  <2> QED
    BY <2>1, <2>2
<1>5. ASSUME Whole(st), m = Len(st), u.t # "auth" PROVE Whole(new)
  <2>1. ASSUME NEW i \in 1 .. Len(new), new[i].t = "head"
        PROVE  i + BodyLen <= Len(new) /\ \A k \in 1 .. BodyLen : new[i + k].part = k
    <3>1. i \in 1 .. m /\ i + BodyLen <= m /\ \A k \in 1 .. BodyLen : st[i + k].part = k
      BY <1>1, <1>2, <1>5, <2>1 DEF Whole
    <3>2. m <= Len(new)
      BY <1>1 DEF Ends
    <3>3. \A k \in 1 .. BodyLen : i + k \in 1 .. m
      BY <1>1, <3>1, ListenerAssumption
    <3> QED
      BY <1>1, <3>1, <3>2, <3>3, ListenerAssumption, SMTT(30)
  <2>2. ASSUME NEW i \in 1 .. Len(new), new[i].part # 0
        PROVE  \E j \in 1 .. Len(new) : new[j].t = "head" /\ i = j + new[i].part
    <3>1. i \in 1 .. m /\ i \in 1 .. Len(st) /\ new[i] = st[i]
      BY <1>1, <1>2, <2>2
    <3>2. PICK j \in 1 .. Len(st) : st[j].t = "head" /\ i = j + new[i].part
      BY <1>5, <2>2, <3>1 DEF Whole
    <3>3. j \in 1 .. Len(new) /\ new[j] = st[j]
      BY <1>1, <1>5
    <3> QED
      BY <3>2, <3>3
  <2>3. \A i \in 1 .. Len(new) : new[i].t # "auth"
    BY <1>1, <1>5 DEF Whole
  <2> QED
    BY <2>1, <2>2, <2>3 DEF Whole
<1> QED
  BY <1>3, <1>4, <1>5

(* What a stream of frames is when an event is sent. *)
LEMMA EventKept ==
    ASSUME NEW st \in Seq(Units), NEW new \in Seq(Units), NEW k \in Kinds, NEW c \in Calls,
           Grown(new, st, k, c), Whole(st)
    PROVE  Whole(new)
<1> DEFINE n == Len(st)
<1>1. n \in Nat /\ Len(new) = n + 1 + BodyLen /\ \A i \in 1 .. n : new[i] = st[i]
  BY DEF Grown
<1>2. new[n + 1].t = "head" /\ new[n + 1].part = 0
  BY DEF Grown, Unit
<1>3. ASSUME NEW i \in 1 .. BodyLen PROVE new[n + 1 + i].part = i /\ new[n + 1 + i].t \in Kinds
  <2>1. new[n + 1 + i] = Part(k, c, i)
    BY DEF Grown
  <2> HIDE DEF n
  <2> QED
    BY <2>1 DEF Part
<1>4. ASSUME NEW i \in 1 .. Len(new)
      PROVE  i \in 1 .. n \/ i = n + 1 \/ \E l \in 1 .. BodyLen : i = n + 1 + l
  <2>1. CASE i > n + 1
    <3>1. i - n - 1 \in 1 .. BodyLen /\ i = n + 1 + (i - n - 1)
      BY <1>1, <2>1, ListenerAssumption
    <3> QED
      BY <3>1
  <2> QED
    BY <1>1, <2>1
<1> HIDE DEF n
<1>5. ASSUME NEW i \in 1 .. Len(new), new[i].t = "head"
      PROVE  i + BodyLen <= Len(new) /\ \A l \in 1 .. BodyLen : new[i + l].part = l
  <2>1. CASE i \in 1 .. n
    <3>1. i + BodyLen <= n /\ \A l \in 1 .. BodyLen : st[i + l].part = l
      BY <1>1, <1>5, <2>1 DEF Whole, n
    <3>2. \A l \in 1 .. BodyLen : i + l \in 1 .. n
      BY <1>1, <2>1, <3>1, ListenerAssumption
    <3> QED
      BY <1>1, <3>1, <3>2, ListenerAssumption, SMTT(30)
  <2>2. CASE i = n + 1
    <3>1. i + BodyLen <= Len(new)
      BY <1>1, <2>2, ListenerAssumption
    <3>2. \A l \in 1 .. BodyLen : new[n + 1 + l].part = l
      BY <1>3
    <3> QED
      BY <2>2, <3>1, <3>2
  <2>3. CASE \E l \in 1 .. BodyLen : i = n + 1 + l
    BY <1>3, <1>5, <2>3 DEF Kinds
  <2> QED
    BY <1>4, <2>1, <2>2, <2>3
<1>6. ASSUME NEW i \in 1 .. Len(new), new[i].part # 0
      PROVE  \E j \in 1 .. Len(new) : new[j].t = "head" /\ i = j + new[i].part
  <2>1. CASE i \in 1 .. n
    <3>1. PICK j \in 1 .. n : st[j].t = "head" /\ i = j + new[i].part
      BY <1>1, <1>6, <2>1 DEF Whole, n
    <3>2. j \in 1 .. Len(new) /\ new[j] = st[j]
      BY <1>1, ListenerAssumption
    <3> QED
      BY <3>1, <3>2
  <2>2. CASE \E l \in 1 .. BodyLen : i = n + 1 + l
    <3>1. PICK l \in 1 .. BodyLen : i = n + 1 + l
      BY <2>2
    <3>2. n + 1 \in 1 .. Len(new) /\ new[i].part = l
      BY <1>1, <1>3, <3>1, ListenerAssumption
    <3> QED
      BY <1>2, <3>1, <3>2
  <2> QED
    BY <1>2, <1>4, <1>6, <2>1, <2>2
<1>7. ASSUME NEW i \in 1 .. Len(new) PROVE new[i].t # "auth"
  <2>1. CASE i \in 1 .. n
    BY <1>1, <2>1, Zenon DEF Whole, n
  <2>2. CASE i = n + 1
    BY <1>2, <2>2
  <2>3. CASE \E l \in 1 .. BodyLen : i = n + 1 + l
    BY <1>3, <2>3 DEF Kinds
  <2> QED
    BY <1>4, <2>1, <2>2, <2>3, Zenon
<1> QED
  BY <1>5, <1>6, <1>7 DEF Whole
-----------------------------------------------------------------------------
(* The connection. *)

(* Commands are sent and served one after the other, and connect's place says
   which are under way. *)
ConnInv ==
    /\ srv = "greeted" => cmds \in {<< >>, <<"auth">>, <<"auth", "event">>}
    /\ srv = "authed" => cmds \in {<< >>, <<"event">>}
    /\ srv \in {"events", "closed"} => cmds = << >>
    /\ pc = "greeting" => srv \in {"greeted", "closed"} /\ cmds = << >>
    /\ pc = "auth" => /\ srv = "greeted" => cmds = <<"auth">>
                      /\ srv = "authed" => cmds = << >>
                      /\ srv # "events"
    /\ pc = "event" => /\ srv = "greeted" => cmds = <<"auth", "event">>
                       /\ srv = "authed" => cmds = <<"event">>

(* Sequences of commands. *)
LEMMA Commands ==
    /\ Append(<< >>, "auth") = <<"auth">> /\ Append(<< >>, "event") = <<"event">>
    /\ Append(<<"auth">>, "event") = <<"auth", "event">>
    /\ Tail(<<"auth">>) = << >> /\ Tail(<<"event">>) = << >> /\ Tail(<<"auth", "event">>) = <<"event">>
    /\ Head(<<"auth">>) = "auth" /\ Head(<<"event">>) = "event" /\ Head(<<"auth", "event">>) = "auth"
    /\ <<"auth">> # << >> /\ <<"event">> # << >> /\ <<"auth", "event">> # << >>
<1> DEFINE s == Append(<<"auth">>, "event")  t == <<"auth", "event">>
<1>1. s \in Seq({"auth", "event"}) /\ Len(s) = 2 /\ s[1] = "auth" /\ s[2] = "event"
  OBVIOUS
<1>2. t \in Seq({"auth", "event"}) /\ Len(t) = 2 /\ t[1] = "auth" /\ t[2] = "event"
  OBVIOUS
<1>3. s = t
  <2> HIDE DEF s, t
  <2>1. Len(s) = Len(t) /\ \A i \in 1 .. Len(s) : s[i] = t[i]
    BY <1>1, <1>2
  <2> QED
    BY <1>1, <1>2, <2>1, SeqEqual, Zenon
<1>4. /\ Append(<< >>, "auth") = <<"auth">> /\ Append(<< >>, "event") = <<"event">>
      /\ Tail(<<"auth">>) = << >> /\ Tail(<<"event">>) = << >> /\ Tail(<<"auth", "event">>) = <<"event">>
  OBVIOUS
<1>5. Head(<<"auth">>) = "auth" /\ Head(<<"event">>) = "event" /\ Head(<<"auth", "event">>) = "auth"
  OBVIOUS
<1>6. <<"auth">> # << >> /\ <<"event">> # << >> /\ <<"auth", "event">> # << >>
  OBVIOUS
<1> QED
  BY <1>3, <1>4, <1>5, <1>6 DEF s, t

(* Every step keeps that. *)
LEMMA ConnStep ==
    ASSUME TypeOK, ConnInv, [Next]_vars
    PROVE  ConnInv'
<1> USE DEF ConnInv, listenerVars, clientVars, stateVars, callVars
<1>1. CASE Recv
  BY <1>1 DEF Recv
<1>2. CASE RecvEnd
  BY <1>2 DEF RecvEnd
<1>3. CASE Deadline
  BY <1>3 DEF Deadline
<1>4. CASE AwaitGreeting
  <2>1. CASE Frame.t = "auth"
    BY <1>4, <2>1, Commands DEF AwaitGreeting, Command
  <2>2. CASE Frame.t # "auth"
    BY <1>4, <2>2 DEF AwaitGreeting
  <2> QED
    BY <2>1, <2>2
<1>5. CASE AwaitReply
  <2>1. CASE Frame.t = "ok" /\ pc = "auth"
    <3>1. pc' = "event" /\ Command("event") /\ srv' = srv /\ srv \in {"greeted", "authed", "closed"}
      BY <1>5, <2>1 DEF AwaitReply, TypeOK, ListenerTypeOK
    <3> QED
      BY <2>1, <3>1, Commands, Zenon DEF Command
  <2>2. CASE ~(Frame.t = "ok" /\ pc = "auth")
    BY <1>5, <2>2 DEF AwaitReply
  <2> QED
    BY <2>1, <2>2
<1>6. CASE Connect
  BY <1>6 DEF Connect, Accept
<1>7. CASE ReadEvent
  <2>1. UNCHANGED <<srv, cmds>> /\ pc' \in {"loop", "dtmf", "raised"}
    BY <1>7 DEF ReadEvent, OnAnswer, OnHangup, OnDtmf
  <2> QED
    BY <2>1
<1>8. CASE Broadcast
  BY <1>8 DEF Broadcast
<1>9. ASSUME NEW c \in Calls, Answer(c) \/ Key(c) \/ Hangup(c) PROVE ConnInv'
  BY <1>9 DEF Answer, Key, Hangup, Send
<1>10. CASE Listen
  <2>1. /\ srv # "closed" /\ cmds # << >> /\ cmds' = Tail(cmds) /\ pc' = pc
        /\ srv' = IF Head(cmds) = "auth" THEN "authed" ELSE "events"
        /\ srv \in {"greeted", "authed", "events"}
    BY <1>10 DEF Listen, Serve, TypeOK, ListenerTypeOK
  <2>2. CASE srv = "greeted" /\ cmds = <<"auth">>
    BY <2>1, <2>2, Commands
  <2>3. CASE srv = "greeted" /\ cmds = <<"auth", "event">>
    BY <2>1, <2>3, Commands
  <2>4. CASE srv = "authed" /\ cmds = <<"event">>
    BY <2>1, <2>4, Commands
  <2> QED
    BY <2>1, <2>2, <2>3, <2>4
<1>11. CASE Expire
  BY <1>11 DEF Expire, AuthTimeout, Goodbye
<1>12. CASE Lose
  BY <1>12 DEF Lose, Break, Goodbye
<1>13. CASE UNCHANGED vars
  BY <1>13 DEF vars
<1> QED
  BY <1>1, <1>2, <1>3, <1>4, <1>5, <1>6, <1>7, <1>8, <1>9, <1>10, <1>11, <1>12, <1>13, Zenon
     DEF Next, EventThread

(* The wire with one more unit, cut, or greeted. *)
LEMMA WireEnded ==
    ASSUME wire \in Seq(Units), NEW u \in Units
    PROVE  /\ Ends(Append(wire, u), wire, Len(wire), u) /\ Ends(<<u>>, wire, 0, u)
           /\ \A n \in 0 .. Len(wire) : Ends(SubSeq(wire, 1, n), wire, n, u)
<1>1. /\ Len(wire) \in Nat /\ Len(Append(wire, u)) = Len(wire) + 1
      /\ Append(wire, u)[Len(wire) + 1] = u
      /\ \A i \in 1 .. Len(wire) : Append(wire, u)[i] = wire[i]
  OBVIOUS
<1>2. Ends(Append(wire, u), wire, Len(wire), u)
  BY <1>1 DEF Ends
<1>3. ASSUME NEW n \in 0 .. Len(wire) PROVE Ends(SubSeq(wire, 1, n), wire, n, u)
  BY <1>1 DEF Ends
<1>4. Ends(<<u>>, wire, 0, u)
  BY <1>1 DEF Ends
<1> QED
  BY <1>2, <1>3, <1>4

(* The stream after a step on the wire. *)
LEMMA StreamNext ==
    ASSUME TypeOK, TypeOK'
    PROVE  /\ Stream' \in Seq(Units) /\ Stream \in Seq(Units)
           /\ Len(Stream) \in Nat /\ Len(Stream') \in Nat /\ Len(buffer) \in Nat /\ Len(wire) \in Nat
           /\ Len(Stream) = Len(buffer) + Len(wire)
           /\ \A i \in 1 .. Len(buffer) : Stream[i] = buffer[i]
<1>1. /\ buffer \in Seq(Units) /\ wire \in Seq(Units)
      /\ buffer' \in Seq(Units) /\ wire' \in Seq(Units)
  BY DEF TypeOK, ListenerTypeOK
<1>2. Stream \in Seq(Units) /\ Joined(Stream, buffer, wire) /\ Stream' \in Seq(Units)
  BY <1>1, JoinIs, Zenon DEF Stream
<1> QED
  BY <1>1, <1>2 DEF Joined

(* Its end changes with the end of the wire. *)
LEMMA StreamEnds ==
    ASSUME TypeOK, TypeOK', UNCHANGED buffer, NEW p, NEW u, Ends(wire', wire, p, u)
    PROVE  Ends(Stream', Stream, Len(buffer) + p, u)
<1> DEFINE b == buffer  w == wire  w2 == wire'  st == Stream  new == Stream'
<1>1. b \in Seq(Units) /\ w \in Seq(Units) /\ w2 \in Seq(Units)
  BY DEF TypeOK, ListenerTypeOK
<1>2. st = Join(b, w) /\ new = Join(b, w2) /\ Ends(w2, w, p, u)
  BY DEF Stream
<1> HIDE DEF b, w, w2, st, new
<1>3. Joined(st, b, w) /\ Joined(new, b, w2)
  BY <1>1, <1>2, JoinIs, Zenon
<1>4. /\ Len(b) \in Nat /\ Len(w) \in Nat /\ p \in 0 .. Len(w)
      /\ Len(st) = Len(b) + Len(w) /\ Len(new) = Len(b) + Len(w2)
      /\ \A i \in 1 .. p : w2[i] = w[i] /\ i \in 1 .. Len(w) /\ i \in 1 .. Len(w2)
      /\ Len(w2) = p \/ (Len(w2) = p + 1 /\ w2[p + 1] = u)
  BY <1>1, <1>2, <1>3 DEF Joined, Ends
<1>5. ASSUME NEW i \in 1 .. Len(b) + p PROVE new[i] = st[i]
  <2>1. CASE i \in 1 .. Len(b)
    BY <1>3, <2>1 DEF Joined
  <2>2. CASE i \notin 1 .. Len(b)
    <3>1. PICK j \in 1 .. p : i = Len(b) + j
      <4>1. i - Len(b) \in 1 .. p /\ i = Len(b) + (i - Len(b))
        BY <1>4, <2>2
      <4> QED
        BY <4>1
    <3> QED
      BY <1>3, <1>4, <3>1 DEF Joined
  <2> QED
    BY <2>1, <2>2
<1>6. Len(w2) = p + 1 => new[Len(b) + p + 1] = u
  <2> SUFFICES ASSUME Len(w2) = p + 1 PROVE new[Len(b) + p + 1] = u
    OBVIOUS
  <2>1. p + 1 \in 1 .. Len(w2) /\ Len(b) + p + 1 = Len(b) + (p + 1) /\ w2[p + 1] = u
    BY <1>4
  <2> QED
    BY <1>3, <2>1 DEF Joined
<1>7. Len(b) + p \in 0 .. Len(st) /\ (Len(new) = Len(b) + p \/ Len(new) = Len(b) + p + 1)
  BY <1>4
<1>8. Len(new) = Len(b) + p + 1 => Len(w2) = p + 1
  BY <1>4
<1>9. Ends(new, st, Len(b) + p, u)
  BY <1>5, <1>6, <1>7, <1>8, Zenon DEF Ends
<1> QED
  BY <1>9 DEF b, st, new

(* A frame that is read is the first of the stream. *)
LEMMA StreamDropped ==
    ASSUME TypeOK, TypeOK', HasFrame, buffer' = Rest, wire' = wire
    PROVE  /\ Dropped(Stream', Stream, FrameLen) /\ FrameLen \in 1 .. Len(buffer)
           /\ Len(buffer') = Len(buffer) - FrameLen
           /\ Stream[1] = Head(buffer)
           /\ Head(buffer).t = "head" => 2 \in 1 .. Len(Stream) /\ Stream[2] = buffer[2]
<1>1. /\ \A i \in 1 .. Len(Stream') :
            i + FrameLen \in 1 .. Len(Stream) /\ Stream'[i] = Stream[i + FrameLen]
      /\ Len(Stream') = Len(Stream) - FrameLen
  BY StreamRest, Zenon
<1>2. FrameLen \in 1 .. Len(buffer) /\ buffer \in Seq(Units) /\ buffer # << >>
  BY FrameIs, Zenon DEF TypeOK, HasFrame
<1>3. Stream[1] = Head(buffer) /\ FrameLen \in 1 .. Len(Stream)
  BY <1>2, StreamNext
<1>4. FrameLen = IF Stream[1].t = "head" THEN 1 + BodyLen ELSE 1
  BY <1>3 DEF FrameLen
<1>5. Dropped(Stream', Stream, FrameLen)
  BY <1>1, <1>3, <1>4, Zenon DEF Dropped
<1>6. Len(buffer') = Len(buffer) - FrameLen
  BY <1>2 DEF Rest
<1>7. ASSUME Head(buffer).t = "head" PROVE 2 \in 1 .. Len(Stream) /\ Stream[2] = buffer[2]
  <2>1. FrameLen = 1 + BodyLen
    BY <1>7 DEF FrameLen
  <2>2. 2 \in 1 .. Len(buffer)
    BY <1>2, <2>1, ListenerAssumption
  <2> QED
    BY <2>2, StreamNext
<1> QED
  BY <1>2, <1>3, <1>5, <1>6, <1>7

-----------------------------------------------------------------------------
(* Frames. *)

(* A greeting that will be read as one is awaited, or the next to be read by a
   loop that ignores it; only the farewell of its connection follows it. *)
Greets(st, p) ==
    \A i \in 1 .. Len(st) : Greeting(st, i) =>
        /\ p = "greeting" \/ (p = "loop" /\ i = 1)
        /\ \A j \in 1 .. Len(st) : i < j => st[j].t = "bye"

(* A client that has sent a command was greeted. *)
Subscribing == srv \in {"authed", "events"} \/ cmds # << >>

(* The client reads the frames that the server sent: where a header is missing
   its body, because the connection broke, what follows is a greeting that is
   read as part of that body or is awaited; a client that is served has none of
   that in its stream. *)
FrameInv ==
    /\ HeadsApart(Stream) /\ Greets(Stream, pc)
    /\ \A i \in 1 .. Len(Stream) : Stream[i].t = "auth" => i <= Len(buffer) + 1
    /\ Subscribing => Whole(Stream)

(* A stream of frames has no greeting. *)
LEMMA WholeGreets == \A st, p : Whole(st) => Greets(st, p)
BY DEF Whole, Greets, Greeting

(* A client with no frame to read has the greeting next, if it has one. *)
LEMMA Starved ==
    ASSUME TypeOK, TypeOK', FrameInv, ~HasFrame, NEW i \in 1 .. Len(Stream), Greeting(Stream, i)
    PROVE  i = 1 /\ buffer = << >>
<1>1. i <= Len(buffer) + 1 /\ Stream[i].t = "auth" /\ i \in Nat /\ i >= 1
  BY StreamNext DEF FrameInv, Greeting
<1>2. CASE buffer = << >>
  BY <1>1, <1>2
<1>3. CASE buffer # << >>
  <2>1. Len(buffer) \in Nat /\ Len(buffer) >= 1 /\ Stream[1] = Head(buffer)
        /\ 1 \in 1 .. Len(Stream)
    <3>1. buffer \in Seq(Units)
      BY DEF TypeOK
    <3> QED
      BY <1>3, <3>1, StreamNext
  <2>2. Stream[1].t = "head" /\ Len(buffer) < 1 + BodyLen
    BY <1>3, <2>1, ListenerAssumption DEF HasFrame, FrameLen
  <2>3. i # 1
    BY <1>1, <2>2
  <2>4. 1 + BodyLen < i
    BY <1>1, <2>1, <2>2, <2>3 DEF Greeting
  <2> QED
    BY <1>1, <2>1, <2>2, <2>4, ListenerAssumption
<1> QED
  BY <1>2, <1>3

(* Reading a frame leaves frames, and no greeting if none is awaited. *)
LEMMA ReadFrame ==
    ASSUME TypeOK, TypeOK', FrameInv, HasFrame, buffer' = Rest, wire' = wire
    PROVE  /\ HeadsApart(Stream') /\ (Whole(Stream) => Whole(Stream'))
           /\ \A i \in 1 .. Len(Stream') : Stream'[i].t = "auth" => i <= Len(buffer') + 1
           /\ pc # "greeting" => \A p : Greets(Stream', p)
           /\ pc = "greeting" => Greets(Stream', "greeting")
           /\ pc = "greeting" /\ Frame.t = "auth" => Whole(Stream')
<1> DEFINE st == Stream  new == Stream'  h == FrameLen  n == Len(buffer)
<1>1. /\ st \in Seq(Units) /\ new \in Seq(Units) /\ Dropped(new, st, h) /\ h \in 1 .. n /\ n \in Nat
      /\ Len(buffer') = n - h /\ st[1] = Head(buffer)
  BY StreamNext, StreamDropped
<1>2. /\ HeadsApart(st) /\ Greets(st, pc)
      /\ \A i \in 1 .. Len(st) : st[i].t = "auth" => i <= n + 1
  BY DEF FrameInv
<1> HIDE DEF st, new, h, n
<1>3. /\ HeadsApart(new) /\ (Whole(st) => Whole(new))
      /\ \A i \in 1 .. Len(new) : Greeting(new, i) => Greeting(st, i + h)
  BY <1>1, <1>2, DropFrame, Zenon
<1>4. /\ Len(st) \in Nat /\ Len(new) \in Nat /\ h \in Nat /\ h >= 1
      /\ \A i \in 1 .. Len(new) : i + h \in 1 .. Len(st) /\ new[i] = st[i + h]
  BY <1>1 DEF Dropped
<1>5. \A i \in 1 .. Len(new) : new[i].t = "auth" => i <= Len(buffer') + 1
  BY <1>1, <1>2, <1>4
<1>6. ASSUME NEW i \in 1 .. Len(new), Greeting(new, i)
      PROVE  pc = "greeting" /\ \A j \in 1 .. Len(new) : i < j => new[j].t = "bye"
  <2>1. i + h \in 1 .. Len(st) /\ Greeting(st, i + h) /\ i + h # 1
    BY <1>3, <1>4, <1>6
  <2>2. pc = "greeting" /\ \A j \in 1 .. Len(st) : i + h < j => st[j].t = "bye"
    BY <1>2, <2>1, Zenon DEF Greets
  <2> QED
    BY <1>4, <2>2
<1>7. pc # "greeting" => \A p : Greets(new, p)
  BY <1>6, Zenon DEF Greets
<1>8. pc = "greeting" => Greets(new, "greeting")
  BY <1>6, Zenon DEF Greets
<1>9. ASSUME Frame.t = "auth" PROVE st[1].t = "auth" /\ h = 1
  <2>1. CASE Head(buffer).t = "head" /\ buffer[2].part = 1
    <3>1. 2 \in 1 .. Len(Stream) /\ Stream[2] = buffer[2] /\ Stream \in Seq(Units)
      BY <2>1, StreamDropped, StreamNext
    <3>2. buffer[2] \in Units
      BY <3>1
    <3>3. Frame.t = buffer[2].t
      BY <2>1 DEF Frame
    <3> QED
      BY <1>9, <2>1, <3>2, <3>3, UnitForm
  <2>2. CASE ~(Head(buffer).t = "head" /\ buffer[2].part = 1)
    <3>1. Head(buffer).t = "auth"
      BY <1>9, <2>2 DEF Frame
    <3> QED
      BY <1>1, <3>1 DEF h, FrameLen
  <2> QED
    BY <2>1, <2>2
<1>10. ASSUME Frame.t = "auth" PROVE Whole(new)
  <2>1. 1 \in 1 .. Len(st) /\ Greeting(st, 1)
    BY <1>1, <1>4, <1>9, <1>10 DEF Greeting, Dropped
  <2>2. \A j \in 1 .. Len(st) : 1 < j => st[j].t = "bye"
    BY <1>2, <2>1, Zenon DEF Greets
  <2>3. ASSUME NEW i \in 1 .. Len(new) PROVE new[i].t = "bye" /\ new[i].part = 0
    <3>1. i + h \in 1 .. Len(st) /\ 1 < i + h /\ new[i] = st[i + h] /\ new[i] \in Units
      BY <1>1, <1>4
    <3>2. new[i].t = "bye"
      BY <2>2, <3>1, SMTT(30)
    <3> QED
      BY <3>1, <3>2, UnitForm
  <2> QED
    BY <2>3 DEF Whole
<1> QED
  BY <1>3, <1>5, <1>7, <1>8, <1>10, SMTT(30) DEF st, new

(* A stream whose end was lost, or to which a farewell was added. *)
LEMMA EndGreets ==
    ASSUME NEW st \in Seq(Units), NEW new \in Seq(Units), NEW m, Ends(new, st, m, Unit("bye")),
           HeadsApart(st), NEW p, Greets(st, p)
    PROVE  HeadsApart(new) /\ Greets(new, p) /\ \A i \in 1 .. Len(new) :
              new[i].t = "auth" => i \in 1 .. Len(st) /\ st[i].t = "auth"
<1>1. Unit("bye").t = "bye" /\ Unit("bye").part = 0
  BY DEF Unit
<1> DEFINE u == Unit("bye")
<1>2. u.t = "bye" /\ u.part = 0 /\ Ends(new, st, m, u)
  BY <1>1
<1> HIDE DEF u
<1>3. /\ HeadsApart(new)
      /\ \A i \in 1 .. Len(new) : Greeting(new, i) => i \in 1 .. m /\ Greeting(st, i)
  <2>1. u.t # "head" /\ u.t # "auth"
    BY <1>2
  <2> QED
    BY <1>2, <2>1, EndKept, Zenon
<1>4. /\ \A i \in 1 .. m : i \in 1 .. Len(st)
      /\ \A i \in 1 .. Len(new) : (i \in 1 .. m /\ new[i] = st[i]) \/ new[i] = u
  BY <1>2 DEF Ends
<1>5. Greets(new, p)
  BY <1>2, <1>3, <1>4, Zenon DEF Greets
<1> QED
  BY <1>2, <1>3, <1>4, <1>5

(* Every step keeps the frames. *)
LEMMA FrameStep ==
    ASSUME TypeOK, TypeOK', ConnInv, FrameInv, [Next]_vars
    PROVE  FrameInv'
<1> USE DEF listenerVars, clientVars, stateVars, callVars
<1>1. /\ Stream' \in Seq(Units) /\ Stream \in Seq(Units) /\ Len(Stream) \in Nat /\ Len(Stream') \in Nat
      /\ Len(buffer) \in Nat /\ Len(wire) \in Nat /\ Len(Stream) = Len(buffer) + Len(wire)
      /\ HeadsApart(Stream) /\ Greets(Stream, pc) /\ (Subscribing => Whole(Stream))
      /\ \A i \in 1 .. Len(Stream) : Stream[i].t = "auth" => i <= Len(buffer) + 1
  BY StreamNext DEF FrameInv
<1>2. ASSUME Stream' = Stream, UNCHANGED <<srv, cmds, buffer>>, Greets(Stream, pc') PROVE FrameInv'
  BY <1>1, <1>2, Zenon DEF FrameInv, Subscribing
<1>3. CASE Recv
  <2>1. PICK n \in 1 .. Len(wire) : /\ buffer' = buffer \o SubSeq(wire, 1, n)
                                    /\ wire' = SubSeq(wire, n + 1, Len(wire))
    BY <1>3, Zenon DEF Recv
  <2>2. /\ Join(Join(buffer, SubSeq(wire, 1, n)), SubSeq(wire, n + 1, Len(wire))) = Join(buffer, wire)
        /\ buffer \in Seq(Units) /\ wire \in Seq(Units)
    BY StreamReceived, SMTT(30) DEF TypeOK, ListenerTypeOK
  <2>3. Stream' = Stream
    BY <2>1, <2>2, Zenon DEF Stream, Join
  <2>4. Len(buffer') \in Nat /\ Len(buffer') >= Len(buffer)
    BY <2>1, <2>2
  <2>5. UNCHANGED <<srv, cmds, pc>>
    BY <1>3 DEF Recv
  <2>6. \A i \in 1 .. Len(Stream) : Stream[i].t = "auth" => i <= Len(buffer') + 1
    BY <1>1, <2>4
  <2> QED
    BY <1>1, <2>3, <2>5, <2>6, Zenon DEF FrameInv, Subscribing
<1>4. CASE RecvEnd
  <2>1. \A i \in 1 .. Len(Stream) : ~Greeting(Stream, i)
    <3> SUFFICES ASSUME NEW i \in 1 .. Len(Stream), Greeting(Stream, i) PROVE FALSE
      OBVIOUS
    <3>1. buffer = << >> /\ wire = << >>
      BY <1>4, Starved DEF RecvEnd, AtEnd
    <3> QED
      BY <1>1, <3>1
  <2>2. UNCHANGED <<srv, cmds, buffer>> /\ Stream' = Stream
    BY <1>4 DEF RecvEnd, Stream
  <2> QED
    BY <1>2, <2>1, <2>2, Zenon DEF Greets
<1>5. CASE Deadline
  <2>1. \A i \in 1 .. Len(Stream) : Greeting(Stream, i) => i = 1
    BY <1>5, Starved DEF Deadline
  <2>2. UNCHANGED <<srv, cmds, buffer>> /\ Stream' = Stream /\ pc' = "loop"
    BY <1>5 DEF Deadline, Stream
  <2> QED
    BY <1>1, <1>2, <2>1, <2>2, Zenon DEF Greets
<1>6. CASE AwaitGreeting
  <2>1. HasFrame /\ buffer' = Rest /\ wire' = wire /\ pc = "greeting" /\ srv' = srv
    BY <1>6 DEF AwaitGreeting
  <2>2. CASE Frame.t = "auth"
    <3>1. Whole(Stream')
      BY <2>1, <2>2, ReadFrame
    <3> QED
      BY <2>1, <3>1, ReadFrame, WholeGreets, Zenon DEF FrameInv
  <2>3. CASE Frame.t # "auth"
    <3>1. UNCHANGED <<pc, srv, cmds>> /\ ~Subscribing
      BY <1>6, <2>1, <2>3 DEF AwaitGreeting, ConnInv, Subscribing
    <3> QED
      BY <2>1, <3>1, ReadFrame, Zenon DEF FrameInv, Subscribing
  <2> QED
    BY <2>2, <2>3
<1>7. CASE AwaitReply
  <2>1. HasFrame /\ buffer' = Rest /\ wire' = wire /\ pc # "greeting" /\ srv' = srv
    BY <1>7 DEF AwaitReply
  <2>2. Subscribing' => Subscribing
    <3>1. CASE pc = "auth"
      <4>1. cmds' = cmds \/ (Command("event") /\ srv # "closed")
        BY <1>7 DEF AwaitReply, Command
      <4> QED
        BY <2>1, <3>1, <4>1, Commands DEF ConnInv, Subscribing, TypeOK, ListenerTypeOK
    <3>2. CASE pc # "auth"
      BY <1>7, <2>1, <3>2 DEF AwaitReply, Subscribing
    <3> QED
      BY <3>1, <3>2
  <2> QED
    BY <1>1, <2>1, <2>2, ReadFrame, Zenon DEF FrameInv
<1>8. CASE Connect
  <2>1. pc = "raised" /\ buffer' = buffer
    BY <1>8 DEF Connect
  <2>2. \A i \in 1 .. Len(Stream) : ~Greeting(Stream, i)
    BY <1>1, <2>1 DEF Greets
  <2>3. CASE UNCHANGED listenerVars
    <3>1. Stream' = Stream
      BY <2>1, <2>3 DEF Stream
    <3> QED
      BY <1>2, <2>1, <2>2, <2>3, <3>1, Zenon DEF Greets
  <2>4. CASE Accept /\ pc' = "greeting"
    <3> DEFINE u == Unit("auth")  st == Stream  new == Stream'  n == Len(buffer)
    <3>1. u.t = "auth" /\ u.part = 0
      BY DEF Unit
    <3>2. Ends(wire', wire, 0, u)
      <4>1. wire' = <<u>> /\ wire \in Seq(Units) /\ u \in Units
        BY <2>4, UnitsAre DEF Accept, TypeOK, ListenerTypeOK
      <4> HIDE DEF u
      <4> QED
        BY <4>1, WireEnded, Zenon
    <3> HIDE DEF u
    <3>3. Ends(new, st, n, u)
      <4>1. Ends(Stream', Stream, Len(buffer) + 0, u)
        BY <2>1, <3>2, StreamEnds
      <4> QED
        BY <1>1, <4>1
    <3>4. st \in Seq(Units) /\ new \in Seq(Units) /\ HeadsApart(st) /\ n \in Nat /\ u.t # "head"
      BY <1>1, <3>1
    <3>5. \A i \in 1 .. Len(st) : ~Greeting(st, i)
      BY <2>2
    <3> HIDE DEF st, new, n
    <3>6. /\ HeadsApart(new)
          /\ \A i \in 1 .. Len(new) : Greeting(new, i) =>
                (i \in 1 .. n /\ Greeting(st, i)) \/ (i = n + 1 /\ u.t = "auth")
      BY <3>1, <3>3, <3>4, EndKept, ZenonT(30)
    <3>7. \A i \in 1 .. n : i \in 1 .. Len(st)
      BY <3>3, <3>4 DEF Ends
    <3>8. \A i \in 1 .. Len(new) : i <= n + 1
      BY <3>3, <3>4 DEF Ends
    <3>9. \A i \in 1 .. Len(new) : Greeting(new, i) => i = n + 1
      BY <3>5, <3>6, <3>7, Zenon
    <3>10. \A j \in 1 .. Len(new) : ~(n + 1 < j)
      BY <3>4, <3>8
    <3>11. Greets(new, "greeting")
      BY <3>9, <3>10, Zenon DEF Greets
    <3>12. ~Subscribing'
      BY <2>4 DEF Accept, Subscribing
    <3> QED
      BY <2>1, <2>4, <3>6, <3>8, <3>11, <3>12 DEF FrameInv, new, n
  <2> QED
    BY <1>8, <2>3, <2>4 DEF Connect
<1>9. CASE ReadEvent
  <2>1. HasFrame /\ buffer' = Rest /\ wire' = wire /\ pc # "greeting" /\ UNCHANGED <<srv, cmds>>
    BY <1>9 DEF ReadEvent
  <2> QED
    BY <1>1, <2>1, ReadFrame, Zenon DEF FrameInv, Subscribing
<1>10. CASE Broadcast \/ UNCHANGED vars
  <2>1. /\ UNCHANGED <<srv, cmds, buffer>> /\ Stream' = Stream
        /\ pc' = pc \/ pc = "dtmf"
    BY <1>10 DEF Broadcast, vars, Stream
  <2>2. Greets(Stream, pc')
    BY <1>1, <2>1 DEF Greets
  <2> QED
    BY <1>2, <2>1, <2>2
<1>11. CASE Listen
  <2>1. /\ UNCHANGED <<buffer, pc>> /\ Subscribing /\ wire' = Append(wire, Unit("ok"))
    BY <1>11 DEF Listen, Serve, Subscribing
  <2> DEFINE u == Unit("ok")  st == Stream  new == Stream'
  <2>2. u.t = "ok" /\ u.part = 0
    BY DEF Unit
  <2>3. Ends(new, st, Len(st), u)
    <3>1. Ends(wire', wire, Len(wire), u)
      <4>1. wire' = Append(wire, u) /\ wire \in Seq(Units) /\ u \in Units
        BY <2>1, UnitsAre DEF TypeOK, ListenerTypeOK
      <4> HIDE DEF u
      <4> QED
        BY <4>1, WireEnded, Zenon
    <3> HIDE DEF u
    <3>2. Ends(Stream', Stream, Len(buffer) + Len(wire), u)
      BY <2>1, <3>1, StreamEnds
    <3> QED
      BY <1>1, <3>2
  <2>4. st \in Seq(Units) /\ new \in Seq(Units) /\ HeadsApart(st) /\ Whole(st)
    BY <1>1, <2>1
  <2> HIDE DEF u, st, new
  <2>5. HeadsApart(new) /\ Whole(new)
    <3>1. u.t # "head" /\ u.t # "auth"
      BY <2>2
    <3> QED
      BY <2>2, <2>3, <2>4, <3>1, EndKept, Zenon
  <2>6. \A i \in 1 .. Len(new) : new[i].t # "auth"
    BY <2>5 DEF Whole
  <2> QED
    BY <2>5, <2>6, WholeGreets, Zenon DEF FrameInv, new
<1>12. CASE Expire \/ Lose
  <2>1. UNCHANGED <<buffer, pc>> /\ ~Subscribing'
    BY <1>12 DEF Expire, AuthTimeout, Lose, Break, Goodbye, Subscribing
  <2>2. PICK n \in 0 .. Len(wire) : Ends(wire', wire, n, Unit("bye"))
    <3>1. wire' = Append(wire, Unit("bye")) \/ \E n \in 0 .. Len(wire) : wire' = SubSeq(wire, 1, n)
      BY <1>12, SMTT(30) DEF Expire, AuthTimeout, Lose, Break, Goodbye
    <3> DEFINE u == Unit("bye")
    <3>2. wire \in Seq(Units) /\ u \in Units /\ Len(wire) \in 0 .. Len(wire)
      BY <1>1, UnitsAre DEF TypeOK, ListenerTypeOK
    <3> HIDE DEF u
    <3>3. /\ Ends(Append(wire, u), wire, Len(wire), u)
          /\ \A n \in 0 .. Len(wire) : Ends(SubSeq(wire, 1, n), wire, n, u)
      BY <3>2, WireEnded, Zenon
    <3> QED
      BY <3>1, <3>2, <3>3, Zenon DEF u
  <2>3. Ends(Stream', Stream, Len(buffer) + n, Unit("bye"))
    BY <2>1, <2>2, StreamEnds
  <2>4. /\ HeadsApart(Stream') /\ Greets(Stream', pc)
        /\ \A i \in 1 .. Len(Stream') : Stream'[i].t = "auth" => i \in 1 .. Len(Stream) /\ Stream[i].t = "auth"
    BY <1>1, <2>3, EndGreets, Zenon
  <2> QED
    BY <1>1, <2>1, <2>4, Zenon DEF FrameInv
<1>13. ASSUME NEW c \in Calls, Answer(c) \/ Key(c) \/ Hangup(c) PROVE FrameInv'
  <2>1. /\ UNCHANGED <<srv, cmds, buffer, pc>>
        /\ wire' = wire \/ (srv = "events" /\ \E k \in Kinds : wire' = Sent(wire, k, c))
    BY <1>13, Zenon DEF Answer, Key, Hangup, Send, Sent, Join, Kinds
  <2>2. CASE wire' = wire
    BY <1>1, <1>2, <2>1, <2>2, Zenon DEF Stream
  <2>3. ASSUME srv = "events", NEW k \in Kinds, wire' = Sent(wire, k, c) PROVE FrameInv'
    <3>1. Grown(Stream', Stream, k, c)
      <4>1. buffer \in Seq(Units) /\ wire \in Seq(Units)
        BY DEF TypeOK, ListenerTypeOK
      <4>2. Grown(Join(buffer, Sent(wire, k, c)), Join(buffer, wire), k, c)
        BY <4>1, StreamSent, Zenon
      <4> QED
        BY <2>1, <2>3, <4>2 DEF Stream
    <3>2. Whole(Stream)
      BY <1>1, <2>3 DEF Subscribing
    <3>3. Whole(Stream')
      BY <1>1, <3>1, <3>2, EventKept, Zenon
    <3>4. HeadsApart(Stream')
      BY <1>1, <3>3, WholeApart, Zenon
    <3>5. \A i \in 1 .. Len(Stream') : Stream'[i].t # "auth"
      BY <3>3 DEF Whole
    <3> QED
      BY <3>3, <3>4, <3>5, WholeGreets, Zenon DEF FrameInv
  <2> QED
    BY <2>1, <2>2, <2>3
<1> QED
  BY <1>3, <1>4, <1>5, <1>6, <1>7, <1>8, <1>9, <1>10, <1>11, <1>12, <1>13, Zenon DEF Next, EventThread

-----------------------------------------------------------------------------
(* Nothing is lost. *)

AnswerAhead(st, c) == \E i \in 1 .. Len(st) : Ans(st[i]) /\ st[i].call = c
HangupAhead(st, c) == \E i \in 1 .. Len(st) : Hang(st[i]) /\ st[i].call = c

(* A call of sn, whose events were all sent to this connection, is active or
   its answer is still to be read; when it has ended, it is logged or its
   hangup is still to be read too. *)
Held(st, sn, ac, lg, cl) ==
    \A c \in sn :
        /\ cl[c] # "new"
        /\ cl[c] = "up" => c \in ac \/ AnswerAhead(st, c)
        /\ cl[c] = "over" =>
              \/ Within(c, lg)
              \/ HangupAhead(st, c) /\ (c \in ac \/ AnswerAhead(st, c))

NothingLost == Held(Stream, seen, active, logged, call)

(* Calls are only followed on a connection with events; while connect waits
   for the reply to its subscription, that comes before all their events. *)
OkFirst(st, sn) ==
    \E j \in 1 .. Len(st) : st[j].t = "ok" /\
        \A i \in 1 .. Len(st) : (Hang(st[i]) \/ Ans(st[i])) /\ st[i].call \in sn => j < i

SeenInv ==
    /\ seen # {} => srv = "events"
    /\ pc = "event" /\ srv = "events" => OkFirst(Stream, seen)

NInv == PInv /\ ConnInv /\ FrameInv /\ SeenInv /\ NothingLost

(* new has all the answers and hangups that st has of the calls in sn. *)
Carries(new, st, sn) ==
    \A i \in 1 .. Len(st) : (Hang(st[i]) \/ Ans(st[i])) /\ st[i].call \in sn =>
        \E j \in 1 .. Len(new) : new[j] = st[i]

(* Then nothing of them is lost. *)
LEMMA HeldCarried ==
    ASSUME NEW st, NEW new, NEW sn, NEW ac, NEW lg, NEW cl, Held(st, sn, ac, lg, cl), Carries(new, st, sn)
    PROVE  Held(new, sn, ac, lg, cl)
<1>1. ASSUME NEW c \in sn PROVE /\ AnswerAhead(st, c) => AnswerAhead(new, c)
                                /\ HangupAhead(st, c) => HangupAhead(new, c)
  BY Zenon DEF AnswerAhead, HangupAhead, Carries
<1> QED
  BY <1>1, Zenon DEF Held

(* Reading a frame of a stream of frames takes one answer or hangup at most,
   the second unit. *)
LEMMA ReadCarries ==
    ASSUME NEW st \in Seq(Units), NEW new \in Seq(Units), NEW h, Dropped(new, st, h), Whole(st),
           NEW i \in 1 .. Len(st), st[i].part = 1 \/ st[i].t = "ok", i # 1,
           i = 2 => st[1].t # "head" \/ st[i].t = "ok"
    PROVE  \E j \in 1 .. Len(new) : i = j + h /\ new[j] = st[i]
<1>1. /\ Len(st) \in Nat /\ Len(new) = Len(st) - h /\ h \in 1 .. Len(st) /\ i \in Nat /\ i >= 2
      /\ h = IF st[1].t = "head" THEN 1 + BodyLen ELSE 1
      /\ \A j \in 1 .. Len(new) : new[j] = st[j + h]
  BY DEF Dropped
<1>2. i > h
  <2> SUFFICES ASSUME i <= h PROVE FALSE
    BY <1>1
  <2>1. st[1].t = "head" /\ h = 1 + BodyLen /\ 1 \in 1 .. Len(st)
    BY <1>1
  <2>2. i - 1 \in 1 .. BodyLen /\ 1 + (i - 1) = i
    BY <1>1, <2>1, ListenerAssumption
  <2>3. \A k \in 1 .. BodyLen : st[1 + k].part = k
    BY <2>1 DEF Whole
  <2>4. st[i].part = i - 1 /\ st[i] \in Units
    BY <2>2, <2>3
  <2> QED
    BY <1>1, <2>4, UnitForm
<1>3. i - h \in 1 .. Len(new) /\ i = (i - h) + h
  BY <1>1, <1>2
<1> QED
  BY <1>1, <1>3

(* The first two units of a stream of frames. *)
LEMMA FirstUnits ==
    ASSUME NEW st \in Seq(Units), NEW new \in Seq(Units), NEW h, Dropped(new, st, h), Whole(st)
    PROVE  /\ st[1].part = 0
           /\ 2 \in 1 .. Len(st) /\ st[2].part = 1 => st[1].t = "head"
           /\ st[1].t # "head" => h = 1
<1>1. 1 \in 1 .. Len(st) /\ Len(st) \in Nat /\ h = IF st[1].t = "head" THEN 1 + BodyLen ELSE 1
  BY DEF Dropped
<1>2. st[1].part = 0
  <2> SUFFICES ASSUME st[1].part # 0 PROVE FALSE
    OBVIOUS
  <2>1. PICK j \in 1 .. Len(st) : 1 = j + st[1].part
    BY <1>1 DEF Whole
  <2>2. st[1].part \in Nat
    BY <1>1, UnitForm, ListenerAssumption
  <2> QED
    BY <1>1, <2>1, <2>2
<1>3. ASSUME 2 \in 1 .. Len(st), st[2].part = 1 PROVE st[1].t = "head"
  <2>1. PICK j \in 1 .. Len(st) : st[j].t = "head" /\ 2 = j + 1
    BY <1>3 DEF Whole
  <2> QED
    BY <2>1
<1> QED
  BY <1>1, <1>2, <1>3

(* So a frame that is read loses the event it is, and no other. *)
LEMMA ReadLoses ==
    ASSUME TypeOK, TypeOK', Whole(Stream), HasFrame, buffer' = Rest, wire' = wire,
           NEW i \in 1 .. Len(Stream), Hang(Stream[i]) \/ Ans(Stream[i])
    PROVE  \/ \E j \in 1 .. Len(Stream') : i = j + FrameLen /\ Stream'[j] = Stream[i]
           \/ i = 2 /\ Frame.t = Stream[2].t /\ Frame.call = Stream[2].call
<1> DEFINE st == Stream  new == Stream'  h == FrameLen
<1>1. st \in Seq(Units) /\ new \in Seq(Units) /\ Dropped(new, st, h) /\ Whole(st)
  BY StreamNext, StreamDropped, SMTT(30)
<1>2. st[1] = Head(buffer) /\ (Head(buffer).t = "head" => st[2] = buffer[2]) /\ st[i].part = 1
  BY StreamDropped DEF Hang, Ans
<1> HIDE DEF st, new, h
<1>3. i # 1 /\ i \in 1 .. Len(st)
  BY <1>1, <1>2, FirstUnits, SMTT(30) DEF st
<1>4. CASE i = 2 /\ st[1].t = "head"
  <2>1. Frame = [t |-> st[2].t, call |-> st[2].call]
    BY <1>2, <1>4 DEF Frame
  <2> QED
    BY <1>4, <2>1, SMTT(30) DEF st
<1>5. CASE ~(i = 2 /\ st[1].t = "head")
  <2>1. \E j \in 1 .. Len(new) : i = j + h /\ new[j] = st[i]
    BY <1>1, <1>2, <1>3, <1>5, ReadCarries
  <2> QED
    BY <2>1, SMTT(30) DEF st, new, h
<1> QED
  BY <1>4, <1>5

(* new has all the answers and hangups that st has of calls other than c. *)
CarriesOthers(new, st, c) ==
    \A i \in 1 .. Len(st) : Hang(st[i]) \/ Ans(st[i]) =>
        st[i].call = c \/ \E j \in 1 .. Len(new) : new[j] = st[i]

Includes(lg2, lg) == \A d : Within(d, lg) => Within(d, lg2)

(* The event of call c is read: what it makes of c is what matters. *)
LEMMA HeldRead ==
    ASSUME NEW st, NEW new, NEW sn, NEW sn2, NEW ac, NEW ac2, NEW lg, NEW lg2, NEW cl, NEW c,
           Held(st, sn, ac, lg, cl), \A d \in sn2 : d \in sn,
           \A d \in ac : d = c \/ d \in ac2,
           Includes(lg2, lg), CarriesOthers(new, st, c),
           c \in sn2 => Held(new, {c}, ac2, lg2, cl)
    PROVE  Held(new, sn2, ac2, lg2, cl)
<1>1. ASSUME NEW d \in sn2, d # c
      PROVE  /\ cl[d] # "new"
             /\ cl[d] = "up" => d \in ac2 \/ AnswerAhead(new, d)
             /\ cl[d] = "over" =>
                   \/ Within(d, lg2)
                   \/ HangupAhead(new, d) /\ (d \in ac2 \/ AnswerAhead(new, d))
  <2>1. (AnswerAhead(st, d) => AnswerAhead(new, d)) /\ (HangupAhead(st, d) => HangupAhead(new, d))
    BY <1>1, Zenon DEF AnswerAhead, HangupAhead, CarriesOthers
  <2>2. d \in sn /\ (d \in ac => d \in ac2)
    BY <1>1
  <2> QED
    BY <2>1, <2>2, Zenon DEF Held, Includes
<1> QED
  BY <1>1, Zenon DEF Held

(* Reading an event loses nothing. *)
LEMMA ReadHolds ==
    ASSUME NInv, TypeOK', ReadEvent, Whole(Stream)
    PROVE  NothingLost'
<1> DEFINE c == Frame.call  st == Stream  new == Stream'
<1>1. /\ TypeOK /\ StreamInv /\ LogInv /\ NothingLost
      /\ HasFrame /\ buffer' = Rest /\ wire' = wire /\ call' = call
  BY DEF NInv, PInv, ReadEvent, listenerVars, callVars
<1>2. Held(st, seen, active, logged, call)
  BY <1>1 DEF NothingLost
<1>3. ASSUME NEW i \in 1 .. Len(st), Hang(st[i]) \/ Ans(st[i])
      PROVE  (\E j \in 1 .. Len(new) : new[j] = st[i]) \/ (i = 2 /\ Frame.t = st[2].t /\ c = st[2].call)
  BY <1>1, <1>3, ReadLoses, Zenon
<1>4. CarriesOthers(new, st, c)
  BY <1>3, Zenon DEF CarriesOthers
<1>5. CASE Frame.t = "answer"
  <2>1. active' = active \cup {c} /\ UNCHANGED <<logged, seen>>
    BY <1>5 DEF ReadEvent, OnAnswer
  <2>2. ASSUME c \in seen PROVE Held(new, {c}, active', logged, call)
    <3>1. HangupAhead(st, c) => HangupAhead(new, c)
      <4> SUFFICES ASSUME NEW i \in 1 .. Len(st), Hang(st[i]), st[i].call = c PROVE HangupAhead(new, c)
        BY Zenon DEF HangupAhead
      <4>1. ~(i = 2 /\ Frame.t = st[2].t)
        BY <1>5 DEF Hang
      <4> QED
        BY <1>3, <4>1, Zenon DEF HangupAhead
    <3>2. c \in active'
      BY <2>1
    <3> HIDE DEF c, st, new
    <3> QED
      BY <1>2, <2>2, <3>1, <3>2, Zenon DEF Held
  <2>3. /\ \A d \in active : d = c \/ d \in active'
        /\ \A d \in seen : d \in seen
        /\ Includes(logged, logged)
    BY <2>1 DEF Includes
  <2> HIDE DEF c, st, new
  <2>4. Held(new, seen, active', logged, call)
    BY <1>2, <1>4, <2>2, <2>3, HeldRead, Zenon
  <2> QED
    BY <1>1, <2>1, <2>4, Zenon DEF NothingLost, new
<1>6. CASE Frame.t = "hangup"
  <2>1. OnHangup(c)
    BY <1>6, SMTT(30) DEF ReadEvent
  <2>2. 2 \in 1 .. Len(buffer) /\ Hang(buffer[2]) /\ c = buffer[2].call /\ c \in Calls
    BY <1>1, <1>6, FrameIs DEF TypeOK
  <2>3. 2 \in 1 .. Len(st) /\ Hang(st[2]) /\ c = st[2].call
    BY <1>1, <2>2, StreamIs, Zenon
  <2> HIDE DEF c
  <2>4. call[c] = "over"
    <3>1. Within(c, order)
      BY <1>1, <2>3, Zenon DEF StreamInv, Sound
    <3> QED
      BY <1>1, <3>1, Zenon DEF LogInv, Within
  <2>5. ASSUME NEW i \in 1 .. Len(st), Ans(st[i]), st[i].call = c PROVE FALSE
    <3>1. i # 2
      BY <2>3, <2>5 DEF Hang, Ans
    <3>2. i # 1
      <4>1. st \in Seq(Units) /\ new \in Seq(Units) /\ Dropped(new, st, FrameLen) /\ Whole(st)
        BY <1>1, StreamNext, StreamDropped
      <4>2. st[1].part = 0
        BY <4>1, FirstUnits, Zenon
      <4> QED
        BY <2>5, <4>2 DEF Ans
    <3>3. 2 < i
      BY <3>1, <3>2
    <3> QED
      BY <1>1, <2>3, <2>5, <3>3, Zenon DEF StreamInv, Sound
  <2>6. c \in seen => c \in active \/ Within(c, logged)
    BY <1>2, <2>4, <2>5, Zenon DEF Held, AnswerAhead
  <2>7. (\A d \in seen' : d \in seen) /\ \A d \in active : d = c \/ d \in active'
    BY <2>1 DEF OnHangup
  <2>8. Includes(logged', logged)
    <3>1. CASE logged' = logged
      BY <3>1 DEF Includes
    <3>2. CASE logged' = Append(logged, c)
      <4>1. logged \in Seq(Calls) /\ c \in Calls
        BY <1>1, <2>2 DEF TypeOK
      <4> QED
        BY <3>2, <4>1, AppendOrder, Zenon DEF Includes
    <3> QED
      BY <2>1, <3>1, <3>2 DEF OnHangup
  <2>9. c \in seen' => Within(c, logged')
    <3> SUFFICES ASSUME c \in seen' PROVE Within(c, logged')
      OBVIOUS
    <3>1. CASE Within(c, logged)
      BY <2>8, <3>1, Zenon DEF Includes
    <3>2. CASE c \in active
      <4>1. logged' = Append(logged, c)
        BY <2>1, <3>2 DEF OnHangup
      <4>2. logged \in Seq(Calls) /\ c \in Calls
        BY <1>1, <2>2 DEF TypeOK
      <4> QED
        BY <4>1, <4>2, AppendOrder, Zenon
    <3> QED
      BY <2>6, <2>7, <3>1, <3>2
  <2>10. c \in seen' => Held(new, {c}, active', logged', call)
    <3>1. call[c] # "new" /\ call[c] # "up"
      BY <2>4
    <3> QED
      BY <2>9, <3>1, Zenon DEF Held
  <2> HIDE DEF st, new
  <2>11. Held(new, seen', active', logged', call)
    BY <1>2, <1>4, <2>7, <2>8, <2>10, HeldRead, Zenon
  <2> QED
    BY <1>1, <2>11, Zenon DEF NothingLost, new
<1>7. CASE Frame.t \notin {"answer", "hangup"}
  <2>1. UNCHANGED <<active, logged, seen>>
    BY <1>7 DEF ReadEvent, OnDtmf, stateVars
  <2>2. Carries(new, st, seen)
    <3> SUFFICES ASSUME NEW i \in 1 .. Len(st), Hang(st[i]) \/ Ans(st[i])
                 PROVE  \E j \in 1 .. Len(new) : new[j] = st[i]
      BY DEF Carries
    <3>1. ~(i = 2 /\ Frame.t = st[2].t)
      BY <1>7 DEF Hang, Ans
    <3> QED
      BY <1>3, <3>1, Zenon
  <2> HIDE DEF st, new
  <2>3. Held(new, seen, active, logged, call)
    BY <1>2, <2>2, HeldCarried, Zenon
  <2> QED
    BY <1>1, <2>1, <2>3, Zenon DEF NothingLost, new
<1> QED
  BY <1>5, <1>6, <1>7

(* While connect waits for the reply to its subscription, the frames that it
   skips are of no call that is followed. *)
LEMMA ReplyHolds ==
    ASSUME NInv, TypeOK', AwaitReply, srv = "events"
    PROVE  NothingLost' /\ SeenInv'
<1> DEFINE st == Stream  new == Stream'  h == FrameLen
<1>1. /\ TypeOK /\ NothingLost /\ HasFrame /\ buffer' = Rest /\ wire' = wire /\ pc = "event"
      /\ UNCHANGED <<srv, seen, active, logged, call>> /\ Whole(st) /\ OkFirst(st, seen)
      /\ pc' \in {"event", "loop"} /\ (pc' = "event" => Frame.t # "ok")
  BY DEF NInv, PInv, ConnInv, FrameInv, SeenInv, Subscribing, AwaitReply, stateVars, callVars
<1>2. PICK o \in 1 .. Len(st) : /\ st[o].t = "ok"
                                /\ \A i \in 1 .. Len(st) : (Hang(st[i]) \/ Ans(st[i])) /\ st[i].call \in seen => o < i
  BY <1>1, SMTT(30) DEF OkFirst
<1>3. /\ st \in Seq(Units) /\ new \in Seq(Units) /\ Dropped(new, st, h) /\ st[1] = Head(buffer)
      /\ st[1].t = "head" => st[2] = buffer[2]
  BY <1>1, StreamNext, StreamDropped, SMTT(30)
<1>4. ASSUME NEW i \in 1 .. Len(st), Hang(st[i]) \/ Ans(st[i]), st[i].call \in seen
      PROVE  \E j \in 1 .. Len(new) : i = j + h /\ new[j] = st[i]
  <2>1. o < i /\ st[i].part = 1
    BY <1>2, <1>4, SMTT(30) DEF Hang, Ans
  <2>2. i = 2 => st[1].t # "head"
    BY <1>2, <2>1
  <2>3. i # 1
    BY <2>1
  <2> HIDE DEF st, new, h
  <2> QED
    BY <1>1, <1>3, <2>1, <2>2, <2>3, ReadCarries, SMTT(30)
<1>5. Carries(new, st, seen)
  BY <1>4, Zenon DEF Carries
<1>6. Held(new, seen, active, logged, call)
  <2>1. Held(st, seen, active, logged, call)
    BY <1>1 DEF NothingLost
  <2> HIDE DEF st, new
  <2> QED
    BY <1>5, <2>1, HeldCarried, Zenon
<1>7. ASSUME Frame.t # "ok" PROVE OkFirst(new, seen)
  <2>1. o # 1
    <3> SUFFICES ASSUME o = 1 PROVE FALSE
      BY SMTT(30)
    <3>1. st[1].t = "ok" /\ st[1].part = 0
      BY <1>1, <1>2, <1>3, FirstUnits, SMTT(30)
    <3> QED
      BY <1>3, <1>7, <3>1 DEF Frame
  <2> HIDE DEF st, new, h
  <2>2. PICK q \in 1 .. Len(new) : o = q + h /\ new[q] = st[o]
    BY <1>1, <1>2, <1>3, <2>1, ReadCarries
  <2>3. ASSUME NEW i \in 1 .. Len(new), Hang(new[i]) \/ Ans(new[i]), new[i].call \in seen PROVE q < i
    <3>1. i + h \in 1 .. Len(st) /\ new[i] = st[i + h] /\ h \in Nat
      BY <1>3, SMTT(30) DEF Dropped
    <3>2. o < i + h
      BY <1>2, <2>3, <3>1
    <3>3. q \in Nat /\ i \in Nat
      BY <1>3
    <3> QED
      BY <2>2, <3>1, <3>2, <3>3, SMTT(30)
  <2> QED
    BY <1>2, <2>2, <2>3, Zenon DEF OkFirst
<1>8. SeenInv'
  <2>1. pc' = "event" => OkFirst(new, seen)
    BY <1>1, <1>7
  <2> QED
    BY <1>1, <2>1 DEF SeenInv
<1> QED
  BY <1>1, <1>6, <1>8, SMTT(30) DEF NothingLost

(* An event is sent: what was ahead is, and the event. *)
LEMMA SentHolds ==
    ASSUME NEW st, NEW new, NEW k \in Kinds, NEW c \in Calls, Len(st) \in Nat,
           Grown(new, st, k, c), Longer(new, st, k, c)
    PROVE  /\ \A d : AnswerAhead(st, d) => AnswerAhead(new, d)
           /\ \A d : HangupAhead(st, d) => HangupAhead(new, d)
           /\ k = "answer" => AnswerAhead(new, c)
           /\ k = "hangup" => HangupAhead(new, c)
           /\ \A sn, sn2 :
                 /\ OkFirst(st, sn)
                 /\ \A i \in 1 .. Len(st) : (Hang(st[i]) \/ Ans(st[i])) /\ st[i].call \in sn2 => st[i].call \in sn
                 => OkFirst(new, sn2)
<1>1. /\ Len(new) = Len(st) + 1 + BodyLen /\ \A i \in 1 .. Len(st) : new[i] = st[i]
      /\ \A i \in 1 .. BodyLen : new[Len(st) + 1 + i] = Part(k, c, i)
  BY SMTT(30) DEF Grown
<1>2. \A i \in 1 .. Len(st) : i \in 1 .. Len(new) /\ new[i] = st[i]
  BY <1>1, ListenerAssumption
<1>3. \A d : /\ AnswerAhead(st, d) => AnswerAhead(new, d)
             /\ HangupAhead(st, d) => HangupAhead(new, d)
  BY <1>2, Zenon DEF AnswerAhead, HangupAhead
<1>4. /\ Len(st) + 1 + 1 \in 1 .. Len(new) /\ new[Len(st) + 1 + 1] = Part(k, c, 1)
  BY <1>1, ListenerAssumption
<1>5. /\ Part(k, c, 1).call = c /\ (k = "answer" => Ans(Part(k, c, 1))) /\ (k = "hangup" => Hang(Part(k, c, 1)))
  BY DEF Part, Ans, Hang
<1>6. (k = "answer" => AnswerAhead(new, c)) /\ (k = "hangup" => HangupAhead(new, c))
  BY <1>4, <1>5, Zenon DEF AnswerAhead, HangupAhead
<1>7. ASSUME NEW sn, NEW sn2, OkFirst(st, sn),
             \A i \in 1 .. Len(st) : (Hang(st[i]) \/ Ans(st[i])) /\ st[i].call \in sn2 => st[i].call \in sn
      PROVE  OkFirst(new, sn2)
  <2>1. PICK j \in 1 .. Len(st) : /\ st[j].t = "ok"
                                  /\ \A i \in 1 .. Len(st) : (Hang(st[i]) \/ Ans(st[i])) /\ st[i].call \in sn => j < i
    BY <1>7, Zenon DEF OkFirst
  <2>2. j \in 1 .. Len(new) /\ new[j].t = "ok"
    BY <1>2, <2>1
  <2>3. ASSUME NEW i \in 1 .. Len(new), Hang(new[i]) \/ Ans(new[i]), new[i].call \in sn2 PROVE j < i
    <3>1. (i \in 1 .. Len(st) /\ new[i] = st[i]) \/ i = Len(st) + 2
      BY <2>3, Zenon DEF Longer
    <3>2. CASE i \in 1 .. Len(st) /\ new[i] = st[i]
      BY <1>7, <2>1, <2>3, <3>2, Zenon
    <3>3. CASE i = Len(st) + 2
      BY <3>3
    <3> QED
      BY <3>1, <3>2, <3>3
  <2> QED
    BY <2>2, <2>3, Zenon DEF OkFirst
<1> QED
  BY <1>3, <1>6, <1>7, SMTT(30)

(* A call is answered, keyed or hung up. *)
LEMMA CallHolds ==
    ASSUME NInv, TypeOK', NEW c \in Calls, Answer(c) \/ Key(c) \/ Hangup(c)
    PROVE  NothingLost' /\ SeenInv'
<1> USE DEF clientVars, stateVars
<1>1. /\ TypeOK /\ StreamInv /\ LogInv /\ NothingLost /\ SeenInv
      /\ call \in [Calls -> {"new", "up", "over"}] /\ buffer \in Seq(Units) /\ wire \in Seq(Units)
      /\ seen \subseteq Calls
  BY DEF NInv, PInv, TypeOK, ListenerTypeOK
<1>2. UNCHANGED <<pc, srv, buffer, active, logged>>
  BY DEF Answer, Key, Hangup, Send
<1>3. CASE srv # "events"
  <2>1. seen = {} /\ seen' = {}
    BY <1>1, <1>3 DEF SeenInv, Answer, Key, Hangup
  <2> QED
    BY <1>2, <1>3, <2>1, SMTT(30) DEF SeenInv, NothingLost, Held
<1>4. CASE srv = "events"
  <2> DEFINE st == Stream  new == Stream'
  <2>1. Len(st) \in Nat /\ Held(st, seen, active, logged, call) /\ (pc = "event" => OkFirst(st, seen))
    BY <1>1, <1>4, StreamIs DEF NothingLost, SeenInv
  <2>2. ASSUME NEW k \in Kinds, wire' = Sent(wire, k, c)
        PROVE  Grown(new, st, k, c) /\ Longer(new, st, k, c)
    <3>1. /\ Grown(Join(buffer, Sent(wire, k, c)), Join(buffer, wire), k, c)
          /\ Longer(Join(buffer, Sent(wire, k, c)), Join(buffer, wire), k, c)
      BY <1>1, StreamSent, Zenon
    <3> QED
      BY <1>2, <2>2, <3>1 DEF Stream
  <2>3. CASE Answer(c)
    <3>1. /\ call[c] = "new" /\ call' = [call EXCEPT ![c] = "up"] /\ seen' = seen \cup {c}
          /\ wire' = Sent(wire, "answer", c) /\ "answer" \in Kinds
      BY <1>4, <2>3 DEF Answer, Send, Sent, Join, Kinds
    <3>2. Grown(new, st, "answer", c) /\ Longer(new, st, "answer", c)
      BY <2>2, <3>1
    <3>3. ASSUME NEW i \in 1 .. Len(st), Hang(st[i]) \/ Ans(st[i]) PROVE st[i].call # c
      <4>1. CASE Ans(st[i])
        BY <1>1, <3>1, <4>1 DEF StreamInv, Sound
      <4>2. CASE Hang(st[i])
        <5>1. Within(st[i].call, order)
          BY <1>1, <4>2, Zenon DEF StreamInv, Sound
        <5>2. call[st[i].call] = "over"
          BY <1>1, <5>1, Zenon DEF LogInv, Within
        <5> QED
          BY <3>1, <5>2
      <4> QED
        BY <3>3, <4>1, <4>2, SMTT(30)
    <3>4. \A i \in 1 .. Len(st) : (Hang(st[i]) \/ Ans(st[i])) /\ st[i].call \in seen' => st[i].call \in seen
      BY <3>1, <3>3
    <3>5. call'[c] = "up" /\ \A d \in seen : d # c => call'[d] = call[d]
      BY <1>1, <3>1
    <3> HIDE DEF st, new
    <3>6. /\ \A d : AnswerAhead(st, d) => AnswerAhead(new, d)
          /\ \A d : HangupAhead(st, d) => HangupAhead(new, d)
          /\ AnswerAhead(new, c) /\ (pc = "event" => OkFirst(new, seen'))
      BY <2>1, <3>1, <3>2, <3>4, SentHolds, Zenon
    <3>7. ASSUME NEW d \in seen'
          PROVE  /\ call'[d] # "new"
                 /\ call'[d] = "up" => d \in active \/ AnswerAhead(new, d)
                 /\ call'[d] = "over" => \/ Within(d, logged)
                                         \/ HangupAhead(new, d) /\ (d \in active \/ AnswerAhead(new, d))
      <4>1. CASE d = c
        BY <3>5, <3>6, <4>1
      <4>2. CASE d # c
        <5>1. d \in seen /\ call'[d] = call[d]
          BY <3>1, <3>5, <4>2
        <5> QED
          BY <2>1, <3>6, <5>1, Zenon DEF Held
      <4> QED
        BY <4>1, <4>2, SMTT(30)
    <3>8. Held(new, seen', active, logged, call')
      BY <3>7, Zenon DEF Held
    <3> QED
      BY <1>2, <1>4, <3>6, <3>8, SMTT(30) DEF NothingLost, SeenInv, new
  <2>4. CASE Key(c)
    <3>1. wire' = Sent(wire, "dtmf", c) /\ "dtmf" \in Kinds /\ UNCHANGED <<call, seen>>
      BY <1>4, <2>4 DEF Key, Send, Sent, Join, Kinds
    <3>2. Grown(new, st, "dtmf", c) /\ Longer(new, st, "dtmf", c)
      BY <2>2, <3>1
    <3> HIDE DEF st, new
    <3>3. /\ \A d : AnswerAhead(st, d) => AnswerAhead(new, d)
          /\ \A d : HangupAhead(st, d) => HangupAhead(new, d)
          /\ pc = "event" => OkFirst(new, seen)
      BY <2>1, <3>1, <3>2, SentHolds, Zenon
    <3>4. Held(new, seen, active, logged, call)
      BY <2>1, <3>3, Zenon DEF Held
    <3> QED
      BY <1>2, <1>4, <3>1, <3>3, <3>4, SMTT(30) DEF NothingLost, SeenInv, new
  <2>5. CASE Hangup(c)
    <3>1. /\ call[c] = "up" /\ call' = [call EXCEPT ![c] = "over"] /\ seen' = seen
          /\ wire' = Sent(wire, "hangup", c) /\ "hangup" \in Kinds
      BY <1>4, <2>5 DEF Hangup, Send, Sent, Join, Kinds
    <3>2. Grown(new, st, "hangup", c) /\ Longer(new, st, "hangup", c)
      BY <2>2, <3>1
    <3>3. call'[c] = "over" /\ \A d \in seen : d # c => call'[d] = call[d]
      BY <1>1, <3>1
    <3> HIDE DEF st, new
    <3>4. /\ \A d : AnswerAhead(st, d) => AnswerAhead(new, d)
          /\ \A d : HangupAhead(st, d) => HangupAhead(new, d)
          /\ HangupAhead(new, c) /\ (pc = "event" => OkFirst(new, seen))
      BY <2>1, <3>1, <3>2, SentHolds, Zenon
    <3>5. ASSUME NEW d \in seen
          PROVE  /\ call'[d] # "new"
                 /\ call'[d] = "up" => d \in active \/ AnswerAhead(new, d)
                 /\ call'[d] = "over" => \/ Within(d, logged)
                                         \/ HangupAhead(new, d) /\ (d \in active \/ AnswerAhead(new, d))
      <4>1. CASE d = c
        <5>1. d \in active \/ AnswerAhead(new, d)
          BY <2>1, <3>1, <3>4, <4>1, Zenon DEF Held
        <5> QED
          BY <3>3, <3>4, <4>1, <5>1, Zenon
      <4>2. CASE d # c
        <5>1. call'[d] = call[d]
          BY <3>3, <4>2
        <5> QED
          BY <2>1, <3>4, <5>1, Zenon DEF Held
      <4> QED
        BY <4>1, <4>2
    <3>6. Held(new, seen, active, logged, call')
      BY <3>5, Zenon DEF Held
    <3> QED
      BY <1>2, <1>4, <3>1, <3>4, <3>6, SMTT(30) DEF NothingLost, SeenInv, new
  <2> QED
    BY <2>3, <2>4, <2>5, SMTT(30)
<1> QED
  BY <1>3, <1>4, SMTT(30)

(* The service has nothing to lose when it has started. *)
LEMMA InitHolds == Init => NInv
<1> SUFFICES ASSUME Init PROVE NInv
  OBVIOUS
<1>1. PInv
  BY InitInv
<1>2. Len(Stream) = 0
  BY SMTT(30) DEF Init, Stream, Join
<1>3. FrameInv
  BY <1>2 DEF FrameInv, HeadsApart, Greets, Whole
<1>4. ConnInv /\ SeenInv /\ NothingLost
  BY DEF Init, ConnInv, SeenInv, NothingLost, Held
<1> QED
  BY <1>1, <1>3, <1>4 DEF NInv

(* Every step keeps that. *)
LEMMA StepHolds == NInv /\ [Next]_vars => NInv'
<1> SUFFICES ASSUME NInv, [Next]_vars PROVE NInv'
  OBVIOUS
<1> USE DEF listenerVars, clientVars, stateVars, callVars
<1>1. PInv /\ TypeOK /\ ConnInv /\ FrameInv /\ SeenInv /\ NothingLost
  BY DEF NInv, PInv
<1>2. PInv' /\ TypeOK'
  BY <1>1, StepInv DEF PInv
<1>3. ConnInv' /\ FrameInv'
  BY <1>1, <1>2, ConnStep, FrameStep
<1> SUFFICES NothingLost' /\ SeenInv'
  BY <1>2, <1>3 DEF NInv
<1>4. ASSUME Stream' = Stream, UNCHANGED <<seen, active, logged, call, srv>>, pc' = "event" => pc = "event"
      PROVE  NothingLost' /\ SeenInv'
  BY <1>1, <1>4, Zenon DEF NothingLost, SeenInv
<1>5. ASSUME seen' = {}, pc' = "event" => srv' # "events" PROVE NothingLost' /\ SeenInv'
  BY <1>5 DEF NothingLost, SeenInv, Held
<1>6. srv # "events" => seen = {}
  BY <1>1 DEF SeenInv
<1>7. CASE Recv
  <2>1. PICK n \in 1 .. Len(wire) : /\ buffer' = buffer \o SubSeq(wire, 1, n)
                                    /\ wire' = SubSeq(wire, n + 1, Len(wire))
    BY <1>7, Zenon DEF Recv
  <2>2. Join(Join(buffer, SubSeq(wire, 1, n)), SubSeq(wire, n + 1, Len(wire))) = Join(buffer, wire)
    BY <1>1, StreamReceived DEF TypeOK, ListenerTypeOK
  <2>3. Stream' = Stream
    BY <2>1, <2>2, Zenon DEF Stream, Join
  <2> QED
    BY <1>4, <1>7, <2>3 DEF Recv
<1>8. CASE RecvEnd \/ Deadline \/ Broadcast \/ UNCHANGED vars
  <2>1. /\ UNCHANGED <<buffer, wire, seen, active, logged, call, srv>>
        /\ pc' = "event" => pc = "event"
    BY <1>8 DEF RecvEnd, Deadline, Broadcast, vars
  <2> QED
    BY <1>4, <2>1, Zenon DEF Stream
<1>9. CASE AwaitGreeting
  <2>1. srv # "events" /\ seen' = seen /\ pc' # "event"
    BY <1>1, <1>9 DEF ConnInv, AwaitGreeting
  <2> QED
    BY <1>5, <1>6, <2>1
<1>10. CASE AwaitReply
  <2>1. CASE srv = "events"
    BY <1>2, <1>10, <2>1, ReplyHolds
  <2>2. CASE srv # "events"
    <3>1. seen' = {} /\ srv' # "events"
      BY <1>6, <1>10, <2>2 DEF AwaitReply
    <3> QED
      BY <1>5, <3>1
  <2> QED
    BY <2>1, <2>2
<1>11. CASE Connect
  <2>1. CASE Accept /\ pc' = "greeting" /\ seen' = {}
    BY <1>5, <2>1
  <2>2. CASE pc' = "loop" /\ UNCHANGED <<listenerVars, seen>>
    <3>1. UNCHANGED <<buffer, wire, seen, active, logged, call, srv>>
      BY <1>11, <2>2 DEF Connect
    <3> QED
      BY <1>4, <2>2, <3>1 DEF Stream
  <2> QED
    BY <1>11, <2>1, <2>2 DEF Connect
<1>12. CASE ReadEvent
  <2>1. pc' # "event" /\ srv' = srv /\ seen' \subseteq seen
    BY <1>12 DEF ReadEvent, OnAnswer, OnHangup, OnDtmf
  <2>2. CASE srv = "events"
    <3>1. Whole(Stream)
      BY <1>1, <2>2 DEF FrameInv, Subscribing
    <3>2. NothingLost'
      BY <1>2, <1>12, <3>1, ReadHolds
    <3> QED
      BY <2>1, <2>2, <3>2 DEF SeenInv
  <2>3. CASE srv # "events"
    BY <1>5, <1>6, <2>1, <2>3
  <2> QED
    BY <2>2, <2>3
<1>13. CASE Listen
  <2>1. /\ srv # "closed" /\ cmds # << >> /\ wire' = Append(wire, Unit("ok")) /\ seen' = seen /\ buffer' = buffer
    BY <1>13 DEF Listen, Serve
  <2>2. srv # "events" /\ seen' = {}
    BY <1>1, <1>6, <2>1 DEF ConnInv
  <2>3. OkFirst(Stream', {})
    <3> DEFINE u == Unit("ok")
    <3>1. wire \in Seq(Units) /\ u \in Units /\ wire' = Append(wire, u) /\ u.t = "ok"
      <4>1. u.t = "ok"
        BY DEF Unit
      <4> QED
        BY <1>1, <2>1, <4>1, UnitsAre, SMTT(30) DEF TypeOK, ListenerTypeOK
    <3> HIDE DEF u
    <3>2. Len(wire) + 1 \in 1 .. Len(wire') /\ wire'[Len(wire) + 1] = u
      BY <3>1
    <3>3. Joined(Stream', buffer, wire')
      <4>1. buffer \in Seq(Units) /\ wire' \in Seq(Units) /\ Stream' = Join(buffer, wire')
        BY <1>2, <2>1, SMTT(30) DEF TypeOK, ListenerTypeOK, Stream
      <4> QED
        BY <4>1, JoinIs, Zenon
    <3>4. Len(buffer) + (Len(wire) + 1) \in 1 .. Len(Stream') /\ Stream'[Len(buffer) + (Len(wire) + 1)] = u
      BY <3>2, <3>3 DEF Joined
    <3> QED
      BY <3>1, <3>4, SMTT(30) DEF OkFirst
  <2> QED
    BY <2>2, <2>3 DEF NothingLost, SeenInv, Held
<1>14. CASE Expire
  <2>1. srv # "events" /\ seen' = seen /\ srv' = "closed"
    BY <1>14 DEF Expire, AuthTimeout, Goodbye
  <2> QED
    BY <1>5, <1>6, <2>1
<1>15. CASE Lose
  <2>1. seen' = {} /\ srv' = "closed"
    BY <1>15 DEF Lose, Break, Goodbye
  <2> QED
    BY <1>5, <2>1
<1>16. ASSUME NEW c \in Calls, Answer(c) \/ Key(c) \/ Hangup(c) PROVE NothingLost' /\ SeenInv'
  BY <1>2, <1>16, CallHolds
<1> QED
  BY <1>7, <1>8, <1>9, <1>10, <1>11, <1>12, <1>13, <1>14, <1>15, <1>16, Zenon DEF Next, EventThread

(* A call whose answer was sent to a connection that has not broken since is
   active or its answer is on its way to _event_loop, and once it has ended it
   is logged or its hangup is on its way too: connect, which throws away the
   frames it reads while it waits, never throws away one of these, and the
   cut frames that an earlier connection left in the buffer never hide one.
   EndedIsLogged adds that what is on its way arrives. *)
THEOREM NothingIsLost == Spec => []NothingLost
<1>1. Spec => []NInv
  BY InitHolds, StepHolds, PTL DEF Spec
<1>2. NInv => NothingLost
  BY DEF NInv
<1> QED
  BY <1>1, <1>2, PTL
=============================================================================
