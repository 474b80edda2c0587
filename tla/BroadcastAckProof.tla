------------------------- MODULE BroadcastAckProof -------------------------
(***************************************************************************)
(* The safety of the in-network broadcast, for any number of receivers and *)
(* packets, any queue capacity, and any window that is less than half of   *)
(* the sequence numbers, provided that the oldest number of a round is     *)
(* found (Comparable): the comparison is signed as its comment says, or    *)
(* the group has one receiver and there is nothing to compare.  With the   *)
(* comparison unsigned as its types say and two receivers, TLC finds the   *)
(* theorems' properties violated.                                          *)
(*                                                                         *)
(* The switch compares numbers on a circle, and the argument is that what  *)
(* it compares is never further apart than a window.  Promises only grow:  *)
(* the answers of a receiver are in order on its link, so the oldest of a  *)
(* round is at least the oldest of the round before.  Hence there is one   *)
(* chain                                                                   *)
(*    una - 1 <= back <= prev_psn <= psn, up[r] < epsn[r] <= una + Window  *)
(* in which each number stands for one packet, and BInv states it.         *)
(***************************************************************************)
EXTENDS BroadcastAck, CommonLemmas

\* psn_update finds the oldest number of a round.
Comparable == Signed \/ \E r : Receiver = {r}

\* The packet that number p stands for: the first one from base - 1 on.
At(p, base) == base - 1 + ((p - base + 1) % PsnMod)

\* The packet up to which answer a acknowledges.
Val(a) == At(AckedBy(a), una)

Answers == [kind : {"ack", "nak"}, psn : 0..(PsnMod - 1)]

LinkTypes ==
    /\ down \in [Receiver -> Seq(Nat)]
    /\ up \in [Receiver -> Seq(Answers)]
    /\ back \in Seq(Answers)

\* No receiver is ahead of the root, and the root not more than a window
\* ahead of any.
Counters ==
    /\ hi <= una + Window
    /\ \A r \in Receiver : una <= epsn[r] /\ epsn[r] <= hi

\* Copies of the root's packets, new or sent again, are less than a window
\* behind what is in front of them.
DownLag ==
    \A r \in Receiver :
      /\ \A k \in 1..Len(down[r]) : down[r][k] < hi /\ epsn[r] <= down[r][k] + Window
      /\ \A j, k \in 1..Len(down[r]) : j < k => down[r][j] < down[r][k] + Window

\* Answers are in order on their link, of packets that their sender has got,
\* and not older than what the switch has gathered.
UpOrder ==
    \A r \in Receiver :
      /\ \A k \in 1..Len(up[r]) :
           /\ At(prev_psn, una) <= Val(up[r][k]) /\ Val(up[r][k]) < epsn[r]
           /\ r \in bitmap => At(psn, una) <= Val(up[r][k])
      /\ \A j, k \in 1..Len(up[r]) : j < k => Val(up[r][j]) <= Val(up[r][k])

\* The registers stand for packets that have been received.
RegOrder ==
    /\ \A r \in Receiver : At(prev_psn, una) < epsn[r]
    /\ bitmap # {} => At(prev_psn, una) <= At(psn, una)
    /\ \A r \in bitmap : At(psn, una) < epsn[r]

\* Merged answers are in order, too, and none exceeds the last promise.
BackOrder ==
    /\ \A k \in 1..Len(back) : Val(back[k]) <= At(prev_psn, una)
    /\ \A j, k \in 1..Len(back) : j < k => Val(back[j]) <= Val(back[k])

BInv == TypeOK /\ LinkTypes /\ Counters /\ DownLag /\ UpOrder /\ RegOrder /\ BackOrder
-----------------------------------------------------------------------------
(* Numbers and packets. *)

\* Half of the circle is more than a window.
LEMMA HalfCircle ==
    /\ PsnMod \in Nat \ {0} /\ PsnMod \div 2 \in Nat /\ Window \in Nat /\ Window >= 1
    /\ Window < PsnMod \div 2 /\ 2 * (PsnMod \div 2) <= PsnMod /\ PsnMod > 3
    /\ Window + 1 < PsnMod /\ N \in Nat
  BY BroadcastAssumption

\* At gives a packet with the number asked for, out of one turn of the circle.
LEMMA AtRange ==
    ASSUME NEW p \in 0..(PsnMod - 1), NEW b \in Int
    PROVE  /\ At(p, b) \in Int /\ b - 1 <= At(p, b) /\ At(p, b) < b - 1 + PsnMod
           /\ Psn(At(p, b)) = p
<1>. DEFINE d == p - b + 1
<1>1. PsnMod \in Nat \ {0} /\ p \in Int
  BY HalfCircle
<1>2. d \in Int /\ d = p - b + 1
  BY <1>1
<1>3. At(p, b) = b - 1 + (d % PsnMod)
  BY DEF At
<1>. DEFINE k == d \div PsnMod
            m == d % PsnMod
            v == b - 1 + m
<1>. HIDE DEF d
<1>4. d = PsnMod * k + m /\ m \in 0..(PsnMod - 1) /\ k \in Int
  BY <1>1, <1>2, DivMod
<1>. HIDE DEF k, m
<1>5. v \in Int /\ p = v + PsnMod * k /\ b - 1 <= v /\ v < b - 1 + PsnMod /\ At(p, b) = v
  <2>1. PsnMod * k \in Int
    BY <1>1, <1>4
  <2>2. v \in Int /\ p = v + PsnMod * k /\ b - 1 <= v /\ v < b - 1 + PsnMod
    BY <2>1, <1>1, <1>2, <1>4
  <2>3. At(p, b) = v
    BY <1>3 DEF m
  <2>. QED
    BY <2>2, <2>3
<1>. HIDE DEF v
<1>6. (v + PsnMod * k) % PsnMod = v % PsnMod
  BY <1>1, <1>4, <1>5, ModAddMultiple
<1>7. v % PsnMod = p
  BY <1>1, <1>5, <1>6, SmallMod
<1>. QED
  BY <1>5, <1>7 DEF Psn

\* Within a turn of the circle no two packets have the same number.
LEMMA PsnOnce ==
    ASSUME NEW i \in Int, NEW j \in Int, Psn(i) = Psn(j), i < j + PsnMod, j < i + PsnMod
    PROVE  i = j
<1>1. i < j => i + PsnMod <= j
  BY HalfCircle, SameModApart DEF Psn
<1>2. j < i => j + PsnMod <= i
  BY HalfCircle, SameModApart DEF Psn
<1>. QED
  BY <1>1, <1>2, HalfCircle

\* So a packet of that turn is the one that its number stands for.
LEMMA AtUnique ==
    ASSUME NEW v \in Int, NEW b \in Int, b - 1 <= v, v < b - 1 + PsnMod
    PROVE  Psn(v) \in 0..(PsnMod - 1) /\ At(Psn(v), b) = v
<1>1. Psn(v) \in 0..(PsnMod - 1)
  BY HalfCircle, DivMod DEF Psn
<1>2. At(Psn(v), b) \in Int /\ Psn(At(Psn(v), b)) = Psn(v)
      /\ b - 1 <= At(Psn(v), b) /\ At(Psn(v), b) < b - 1 + PsnMod
  BY <1>1, AtRange
<1>. QED
  BY <1>1, <1>2, PsnOnce, HalfCircle

\* What is not overtaken by the root's oldest unacknowledged packet keeps its
\* meaning when that advances.
LEMMA AtShift ==
    ASSUME NEW p \in 0..(PsnMod - 1), NEW b \in Int, NEW c \in Int, b <= c, c - 1 <= At(p, b)
    PROVE  At(p, c) = At(p, b)
<1>1. At(p, b) \in Int /\ At(p, b) < b - 1 + PsnMod /\ Psn(At(p, b)) = p
  BY AtRange
<1>. QED
  BY <1>1, AtUnique, HalfCircle

\* Near looks in the same place, as long as nothing is further ahead than a
\* window.
LEMMA NearIsAt ==
    ASSUME NEW p \in 0..(PsnMod - 1), NEW b \in Int, At(p, b) < b + Window
    PROVE  Near(p, b) = At(p, b)
<1>. DEFINE S == (b - PsnMod \div 2)..(b + PsnMod \div 2 - 1)
<1>1. At(p, b) \in Int /\ b - 1 <= At(p, b) /\ Psn(At(p, b)) = p
  BY AtRange
<1>2. At(p, b) \in S
  BY <1>1, HalfCircle
<1>3. \A i \in S : Psn(i) = p => i = At(p, b)
  <2>. SUFFICES ASSUME NEW i \in S, Psn(i) = p PROVE i = At(p, b)
    OBVIOUS
  <2>1. i \in Int /\ i < At(p, b) + PsnMod /\ At(p, b) < i + PsnMod
    BY <1>1, <1>2, HalfCircle
  <2>. QED
    BY <2>1, <1>1, PsnOnce
<1>. HIDE DEF S
<1>4. (CHOOSE i \in S : Psn(i) = p) = At(p, b)
  BY <1>1, <1>2, <1>3
<1>. QED
  BY <1>4 DEF Near, S

\* The comparison of psn_update finds the older packet, as long as the two are
\* at most a window apart.
LEMMA OlderMeaning ==
    ASSUME Signed, NEW p \in 0..(PsnMod - 1), NEW q \in 0..(PsnMod - 1), NEW b \in Int,
           At(p, b) < b + Window, At(q, b) < b + Window
    PROVE  Older(p, q) <=> At(p, b) < At(q, b)
<1>. DEFINE v == At(p, b)
            w == At(q, b)
<1>1. /\ v \in Int /\ b - 1 <= v /\ v < b + Window /\ v % PsnMod = p
      /\ w \in Int /\ b - 1 <= w /\ w < b + Window /\ w % PsnMod = q
  BY AtRange DEF Psn
<1>. HIDE DEF v, w
<1>2. (p - q) % PsnMod = (v - w) % PsnMod
  BY <1>1, HalfCircle, CircularDistance
<1>3. CASE v < w
  <2>1. (w - v) \in 1..PsnMod /\ w - v < PsnMod \div 2 + 1
    BY <1>1, <1>3, HalfCircle
  <2>2. (-(w - v)) % PsnMod = PsnMod - (w - v)
    BY <2>1, HalfCircle, NegativeMod
  <2>3. -(w - v) = v - w
    BY <1>1
  <2>4. (p - q) % PsnMod = PsnMod - (w - v)
    BY <1>2, <2>2, <2>3
  <2>5. PsnMod - (w - v) >= PsnMod \div 2
    BY <2>1, <1>1, HalfCircle
  <2>. QED
    BY <2>4, <2>5, <1>3 DEF Older, v, w
<1>4. CASE w <= v
  <2>1. v - w \in 0..(PsnMod - 1) /\ v - w < PsnMod \div 2
    BY <1>1, <1>4, HalfCircle
  <2>2. (v - w) % PsnMod = v - w
    BY <2>1, HalfCircle, SmallMod
  <2>3. ~Older(p, q)
    BY <1>2, <2>1, <2>2, <1>1, HalfCircle DEF Older
  <2>. QED
    BY <2>3, <1>1, <1>4 DEF v, w
<1>. QED
  BY <1>1, <1>3, <1>4

\* The answers that a receiver and the switch write mean what they should:
\* get_dec_psn undoes inc_psn.
LEMMA AnswerMeaning ==
    /\ \A i \in Int : AckedBy(Answer("ack", Psn(i))) = Psn(i)
    /\ \A i \in Int : AckedBy(Answer("nak", Psn(i))) = Psn(i - 1)
    /\ \A p \in 0..(PsnMod - 1) : AckedBy(Answer("nak", (p + 1) % PsnMod)) = p
    /\ \A a \in Answers : AckedBy(a) \in 0..(PsnMod - 1)
<1>1. \A i \in Int : ((i % PsnMod) - 1) % PsnMod = (i - 1) % PsnMod
  <2>1. PsnMod \in Nat \ {0} /\ PsnMod > 1
    BY HalfCircle
  <2>. QED
    BY <2>1, ModBack
<1>2. \A i \in Int : AckedBy(Answer("nak", Psn(i))) = Psn(i - 1)
  BY <1>1 DEF AckedBy, Answer, Psn
<1>3. ASSUME NEW p \in 0..(PsnMod - 1) PROVE AckedBy(Answer("nak", (p + 1) % PsnMod)) = p
  <2>1. p + 1 \in Int /\ (p + 1) - 1 = p /\ p % PsnMod = p
    BY HalfCircle, SmallMod
  <2>. QED
    BY <2>1, <1>1 DEF AckedBy, Answer
<1>4. ASSUME NEW a \in Answers PROVE AckedBy(a) \in 0..(PsnMod - 1)
  <2>1. a.psn \in 0..(PsnMod - 1) /\ a.psn - 1 \in Int
    BY HalfCircle DEF Answers
  <2>2. (a.psn - 1) % PsnMod \in 0..(PsnMod - 1)
    BY <2>1, HalfCircle, DivMod
  <2>. QED
    BY <2>1, <2>2 DEF AckedBy
<1>. QED
  BY <1>2, <1>3, <1>4 DEF AckedBy, Answer
-----------------------------------------------------------------------------
(* Links. *)

\* What is where on a link after an arrival, dropped or not.
LEMMA QueueAt ==
    ASSUME NEW S, NEW q \in Seq(S), NEW x \in S
    PROVE  /\ Queue(q, x) \in Seq(S)
           /\ \A k \in 1..Len(Queue(q, x)) :
                (k \in 1..Len(q) /\ Queue(q, x)[k] = q[k]) \/ Queue(q, x)[k] = x
           /\ \A j, k \in 1..Len(Queue(q, x)) : j < k => j \in 1..Len(q) /\ Queue(q, x)[j] = q[j]
<1>1. CASE ~(Len(q) < QueueCap)
  BY <1>1 DEF Queue
<1>2. CASE Len(q) < QueueCap
  <2>1. Queue(q, x) = Append(q, x)
    BY <1>2 DEF Queue
  <2>2. \A k \in 1..Len(Append(q, x)) :
          (k \in 1..Len(q) /\ Append(q, x)[k] = q[k]) \/ Append(q, x)[k] = x
    BY AppendAt
  <2>3. \A j, k \in 1..Len(Append(q, x)) : j < k => j \in 1..Len(q)
    BY AppendAt
  <2>4. \A j \in 1..Len(q) : Append(q, x)[j] = q[j]
    BY AppendAt
  <2>. QED
    BY <2>1, <2>2, <2>3, <2>4, AppendAt
<1>. QED
  BY <1>1, <1>2

\* The ranges of everything that a step computes with.
LEMMA Ranges ==
    ASSUME BInv
    PROVE  /\ una \in Nat /\ nxt \in Nat /\ hi \in Nat /\ una <= nxt /\ nxt <= hi /\ hi <= N
           /\ \A r \in Receiver : epsn[r] \in Nat /\ down[r] \in Seq(Nat) /\ up[r] \in Seq(Answers)
           /\ psn \in 0..(PsnMod - 1) /\ prev_psn \in 0..(PsnMod - 1)
           /\ At(psn, una) \in Int /\ At(prev_psn, una) \in Int
           /\ una - 1 <= At(psn, una) /\ una - 1 <= At(prev_psn, una)
           /\ \A a \in Answers : Val(a) \in Int /\ una - 1 <= Val(a)
           /\ bitmap \subseteq Receiver
<1>1. una \in Nat /\ nxt \in Nat /\ hi \in Nat /\ una <= nxt /\ nxt <= hi /\ hi <= N
  BY HalfCircle DEF BInv, TypeOK
<1>2. \A r \in Receiver : epsn[r] \in Nat /\ down[r] \in Seq(Nat) /\ up[r] \in Seq(Answers)
  BY HalfCircle DEF BInv, TypeOK, LinkTypes
<1>3. psn \in 0..(PsnMod - 1) /\ prev_psn \in 0..(PsnMod - 1) /\ bitmap \subseteq Receiver
  BY DEF BInv, TypeOK
<1>4. una \in Int
  BY <1>1
<1>5. /\ At(psn, una) \in Int /\ At(prev_psn, una) \in Int
      /\ una - 1 <= At(psn, una) /\ una - 1 <= At(prev_psn, una)
  BY <1>3, <1>4, AtRange
<1>6. ASSUME NEW a \in Answers PROVE Val(a) \in Int /\ una - 1 <= Val(a)
  <2>1. AckedBy(a) \in 0..(PsnMod - 1)
    BY AnswerMeaning
  <2>. QED
    BY <2>1, <1>4, AtRange DEF Val
<1>. QED
  BY <1>1, <1>2, <1>3, <1>5, <1>6

\* An answer that is as new as all on a link keeps the link in order.
LEMMA SortedQueue ==
    ASSUME NEW q \in Seq(Answers), NEW a \in Answers,
           \A k \in 1..Len(q) : Val(q[k]) <= Val(a),
           \A j, k \in 1..Len(q) : j < k => Val(q[j]) <= Val(q[k])
    PROVE  /\ \A k \in 1..Len(Queue(q, a)) :
                (k \in 1..Len(q) /\ Queue(q, a)[k] = q[k]) \/ Queue(q, a)[k] = a
           /\ \A j, k \in 1..Len(Queue(q, a)) : j < k => Val(Queue(q, a)[j]) <= Val(Queue(q, a)[k])
<1>. DEFINE e == Queue(q, a)
<1>1. /\ \A k \in 1..Len(e) : (k \in 1..Len(q) /\ e[k] = q[k]) \/ e[k] = a
      /\ \A j, k \in 1..Len(e) : j < k => j \in 1..Len(q) /\ e[j] = q[j]
  BY QueueAt
<1>. HIDE DEF e
<1>2. \A j, k \in 1..Len(e) : j < k => Val(e[j]) <= Val(e[k])
  BY <1>1
<1>. QED
  BY <1>1, <1>2 DEF e

\* Links lose their head in order.
LEMMA SortedTail ==
    ASSUME NEW q \in Seq(Answers), q # << >>,
           \A j, k \in 1..Len(q) : j < k => Val(q[j]) <= Val(q[k])
    PROVE  /\ \A k \in 1..Len(Tail(q)) : Val(Head(q)) <= Val(Tail(q)[k])
           /\ \A j, k \in 1..Len(Tail(q)) : j < k => Val(Tail(q)[j]) <= Val(Tail(q)[k])
<1>1. Len(q) \in Nat /\ 1 \in 1..Len(q) /\ Head(q) = q[1]
      /\ \A j \in 1..Len(Tail(q)) : j + 1 \in 1..Len(q) /\ Tail(q)[j] = q[j + 1]
  BY TailAt
<1>2. \A j, k \in 1..Len(Tail(q)) : 1 < k + 1 /\ (j < k => j + 1 < k + 1)
  OBVIOUS
<1>. QED
  BY <1>1, <1>2

\* Copies join a link in order when nothing on it is a window ahead of them.
LEMMA DownQueue ==
    ASSUME NEW q \in Seq(Nat), NEW x \in Nat, NEW e \in Nat, NEW h \in Nat, NEW h2 \in Nat,
           h <= h2, x < h2, e <= x + Window, h <= x + Window,
           \A k \in 1..Len(q) : q[k] < h /\ e <= q[k] + Window,
           \A j, k \in 1..Len(q) : j < k => q[j] < q[k] + Window
    PROVE  /\ \A k \in 1..Len(Queue(q, x)) : Queue(q, x)[k] < h2 /\ e <= Queue(q, x)[k] + Window
           /\ \A j, k \in 1..Len(Queue(q, x)) :
                j < k => Queue(q, x)[j] < Queue(q, x)[k] + Window
<1>. DEFINE c == Queue(q, x)
<1>1. /\ c \in Seq(Nat)
      /\ \A k \in 1..Len(c) : (k \in 1..Len(q) /\ c[k] = q[k]) \/ c[k] = x
      /\ \A j, k \in 1..Len(c) : j < k => j \in 1..Len(q) /\ c[j] = q[j]
  BY QueueAt
<1>2. \A k \in 1..Len(q) : q[k] \in Nat
  OBVIOUS
<1>. HIDE DEF c
<1>3. ASSUME NEW k \in 1..Len(c) PROVE c[k] < h2 /\ e <= c[k] + Window
  <2>1. CASE k \in 1..Len(q) /\ c[k] = q[k]
    <3>1. q[k] \in Nat /\ q[k] < h /\ e <= q[k] + Window
      BY <2>1, <1>2
    <3>. QED
      BY <3>1, <2>1
  <2>2. CASE c[k] = x
    BY <2>2
  <2>. QED
    BY <2>1, <2>2, <1>1
<1>4. ASSUME NEW j \in 1..Len(c), NEW k \in 1..Len(c), j < k PROVE c[j] < c[k] + Window
  <2>1. j \in 1..Len(q) /\ c[j] = q[j]
    BY <1>1, <1>4
  <2>2. CASE k \in 1..Len(q) /\ c[k] = q[k]
    BY <2>1, <2>2, <1>4
  <2>3. CASE c[k] = x
    <3>1. q[j] < h /\ q[j] \in Nat
      BY <2>1, <1>2
    <3>. QED
      BY <3>1, <2>1, <2>3, HalfCircle
  <2>. QED
    BY <2>2, <2>3, <1>1
<1>. QED
  BY <1>3, <1>4 DEF c

\* In the queue without its head, nothing is a window behind the head.
LEMMA DownTail ==
    ASSUME NEW q \in Seq(Nat), q # << >>,
           \A j, k \in 1..Len(q) : j < k => q[j] < q[k] + Window
    PROVE  /\ \A k \in 1..Len(Tail(q)) : Head(q) < Tail(q)[k] + Window
           /\ \A j, k \in 1..Len(Tail(q)) : j < k => Tail(q)[j] < Tail(q)[k] + Window
<1>1. Len(q) \in Nat /\ 1 \in 1..Len(q) /\ Head(q) = q[1]
      /\ \A j \in 1..Len(Tail(q)) : j + 1 \in 1..Len(q) /\ Tail(q)[j] = q[j + 1]
  BY TailAt
<1>2. \A j, k \in 1..Len(Tail(q)) : 1 < k + 1 /\ (j < k => j + 1 < k + 1)
  OBVIOUS
<1>. QED
  BY <1>1, <1>2
-----------------------------------------------------------------------------
(* The invariant holds at the start, and every step keeps it. *)

\* CreateGroup sets prev_psn to the number before the first one.
LEMMA InitInv == Init => BInv
<1>. SUFFICES ASSUME Init PROVE BInv
  OBVIOUS
<1>1. TypeOK
  BY HalfCircle DEF Init, TypeOK
<1>2. LinkTypes
  BY DEF Init, LinkTypes
<1>3. Counters
  BY HalfCircle DEF Init, Counters
<1>. DEFINE none == << >>
<1>0. 1..Len(none) = {}
  OBVIOUS
<1>. HIDE DEF none
<1>4. DownLag
  <2>1. \A r \in Receiver : down[r] = none
    BY DEF Init, none
  <2>. QED
    BY <1>0, <2>1 DEF DownLag
<1>5. UpOrder
  <2>1. \A r \in Receiver : up[r] = none
    BY DEF Init, none
  <2>. QED
    BY <1>0, <2>1 DEF UpOrder
<1>6. At(prev_psn, una) = -1
  <2>. DEFINE one == 1
  <2>0. one \in 1..PsnMod /\ one # PsnMod
    BY HalfCircle
  <2>. HIDE DEF one
  <2>a. (-one) % PsnMod = PsnMod - one
    BY <2>0, HalfCircle, NegativeMod
  <2>1. (-1) % PsnMod = PsnMod - 1
    BY <2>a DEF one
  <2>2. Psn(-1) = PsnMod - 1
    BY <2>1 DEF Psn
  <2>3. At(Psn(-1), 0) = -1
    BY AtUnique, HalfCircle
  <2>. QED
    BY <2>2, <2>3 DEF Init
<1>7. RegOrder
  BY <1>6 DEF Init, RegOrder
<1>8. BackOrder
  BY DEF Init, BackOrder
<1>. QED
  BY <1>1, <1>2, <1>3, <1>4, <1>5, <1>7, <1>8 DEF BInv

\* As long as neither the root's window nor the registers nor the receivers
\* move, a link that changes by its head leaving stays in order.
LEMMA LoseStep ==
    ASSUME BInv, LoseBack \/ \E r \in Receiver : LoseUp(r)
    PROVE  BInv'
<1>1. CASE LoseBack
  <2>1. back \in Seq(Answers) /\ back # << >> /\ back' = Tail(back)
    BY <1>1 DEF LoseBack, BInv, LinkTypes
  <2>2. UNCHANGED <<una, nxt, hi, epsn, nakked, down, up, bitmap, psn, prev_psn>>
    BY <1>1 DEF LoseBack, rootVars, recvVars, regVars
  <2>3. TypeOK' /\ Counters' /\ DownLag'
    BY <2>2 DEF BInv, TypeOK, Counters, DownLag
  <2>4. LinkTypes'
    BY <2>1, <2>2, TailAt DEF BInv, LinkTypes
  <2>5. UpOrder' /\ RegOrder'
    BY <2>2 DEF BInv, UpOrder, RegOrder, Val
  <2>6. BackOrder'
    <3>1. \A k \in 1..Len(Tail(back)) : k + 1 \in 1..Len(back) /\ Tail(back)[k] = back[k + 1]
      BY <2>1, TailAt
    <3>2. \A k \in 1..Len(Tail(back)) : Val(Tail(back)[k]) <= At(prev_psn, una)
      BY <3>1 DEF BInv, BackOrder
    <3>3. \A j, k \in 1..Len(Tail(back)) : j < k => Val(Tail(back)[j]) <= Val(Tail(back)[k])
      BY <2>1, SortedTail DEF BInv, BackOrder
    <3>. QED
      BY <3>2, <3>3, <2>1, <2>2 DEF BackOrder, Val
  <2>. QED
    BY <2>3, <2>4, <2>5, <2>6 DEF BInv
<1>2. ASSUME NEW r \in Receiver, LoseUp(r) PROVE BInv'
  <2>1. up[r] \in Seq(Answers) /\ up[r] # << >> /\ up' = [up EXCEPT ![r] = Tail(@)]
    BY <1>2 DEF LoseUp, BInv, LinkTypes
  <2>2. UNCHANGED <<una, nxt, hi, epsn, nakked, down, back, bitmap, psn, prev_psn>>
    BY <1>2 DEF LoseUp, rootVars, recvVars, regVars
  <2>3. TypeOK' /\ Counters' /\ DownLag'
    BY <2>2 DEF BInv, TypeOK, Counters, DownLag
  <2>4. LinkTypes'
    BY <2>1, <2>2, TailAt DEF BInv, LinkTypes
  <2>5. RegOrder' /\ BackOrder'
    BY <2>2 DEF BInv, BackOrder, RegOrder, Val
  <2>6. UpOrder'
    <3>1. \A k \in 1..Len(Tail(up[r])) : k + 1 \in 1..Len(up[r]) /\ Tail(up[r])[k] = up[r][k + 1]
      BY <2>1, TailAt
    <3>2. \A j, k \in 1..Len(Tail(up[r])) : j < k => Val(Tail(up[r])[j]) <= Val(Tail(up[r])[k])
      BY <2>1, SortedTail DEF BInv, UpOrder
    <3>3. \A s \in Receiver : up'[s] = IF s = r THEN Tail(up[r]) ELSE up[s]
      BY <2>1 DEF BInv, LinkTypes
    <3>4. \A s \in Receiver :
            /\ \A k \in 1..Len(up'[s]) :
                 /\ At(prev_psn, una) <= Val(up'[s][k]) /\ Val(up'[s][k]) < epsn[s]
                 /\ s \in bitmap => At(psn, una) <= Val(up'[s][k])
            /\ \A j, k \in 1..Len(up'[s]) : j < k => Val(up'[s][j]) <= Val(up'[s][k])
      BY <3>1, <3>2, <3>3 DEF BInv, UpOrder
    <3>. QED
      BY <3>4, <2>2 DEF UpOrder, Val
  <2>. QED
    BY <2>3, <2>4, <2>5, <2>6 DEF BInv
<1>. QED
  BY <1>1, <1>2

\* The timer moves nothing but the next packet to send.
LEMMA TimeoutStep ==
    ASSUME BInv, Timeout
    PROVE  BInv'
<1>1. UNCHANGED <<una, hi, epsn, nakked, down, up, back, bitmap, psn, prev_psn>> /\ nxt' = una
  BY DEF Timeout, recvVars, regVars
<1>2. TypeOK'
  BY <1>1, Ranges, HalfCircle DEF BInv, TypeOK
<1>. QED
  BY <1>1, <1>2 DEF BInv, LinkTypes, Counters, DownLag, UpOrder, RegOrder, BackOrder, Val

\* A packet is sent, again or for the first time, to some of the receivers.
LEMMA SendStep ==
    ASSUME BInv, Send
    PROVE  BInv'
<1>1. UNCHANGED <<una, epsn, nakked, up, back, bitmap, psn, prev_psn>>
      /\ nxt < N /\ nxt < una + Window /\ nxt' = nxt + 1
      /\ hi' = IF nxt + 1 > hi THEN nxt + 1 ELSE hi
  BY DEF Send, recvVars, regVars
<1>2. hi' \in Nat /\ hi <= hi' /\ nxt < hi' /\ hi' <= N /\ hi' <= una + Window
      /\ (hi' = hi \/ hi' = nxt + 1)
  <2>1. una \in Nat /\ nxt \in Nat /\ hi \in Nat /\ hi <= N /\ hi <= una + Window /\ N \in Nat /\ Window \in Nat
    BY HalfCircle DEF BInv, Counters, TypeOK
  <2>. QED
    BY <1>1, <2>1
<1>3. TypeOK'
  BY <1>1, <1>2, Ranges, HalfCircle DEF BInv, TypeOK
<1>4. Counters'
  <2>1. \A r \in Receiver : una <= epsn[r] /\ epsn[r] <= hi'
    BY <1>2, Ranges DEF BInv, Counters
  <2>. QED
    BY <1>1, <1>2, <2>1 DEF Counters
<1>5. PICK reached \in SUBSET Receiver :
        down' = [r \in Receiver |-> IF r \in reached THEN Queue(down[r], nxt) ELSE down[r]]
  BY DEF Send
<1>6. LinkTypes'
  BY <1>1, <1>5, Ranges, QueueAt DEF BInv, LinkTypes
<1>7. DownLag'
  <2>. SUFFICES ASSUME NEW r \in Receiver
                PROVE  /\ \A k \in 1..Len(down'[r]) : down'[r][k] < hi' /\ epsn[r] <= down'[r][k] + Window
                       /\ \A j, k \in 1..Len(down'[r]) : j < k => down'[r][j] < down'[r][k] + Window
    BY <1>1 DEF DownLag
  <2>1. /\ down[r] \in Seq(Nat) /\ epsn[r] \in Nat /\ hi \in Nat /\ nxt \in Nat
        /\ epsn[r] <= nxt + Window /\ hi <= nxt + Window
    BY Ranges, HalfCircle, SMTT(30) DEF BInv, Counters
  <2>2. /\ \A k \in 1..Len(down[r]) : down[r][k] < hi /\ epsn[r] <= down[r][k] + Window
        /\ \A j, k \in 1..Len(down[r]) : j < k => down[r][j] < down[r][k] + Window
    BY DEF BInv, DownLag
  <2>3. CASE r \in reached
    <3>1. down'[r] = Queue(down[r], nxt)
      BY <1>5, <2>3
    <3>. QED
      BY <3>1, <2>1, <2>2, <1>2, DownQueue
  <2>4. CASE r \notin reached
    <3>1. down'[r] = down[r]
      BY <1>5, <2>4
    <3>2. \A k \in 1..Len(down[r]) : down[r][k] \in Nat
      BY <2>1
    <3>3. \A k \in 1..Len(down[r]) : down[r][k] < hi'
      BY <3>2, <2>1, <2>2, <1>2
    <3>. QED
      BY <3>1, <3>3, <2>2
  <2>. QED
    BY <2>3, <2>4
<1>8. UpOrder' /\ RegOrder' /\ BackOrder'
  BY <1>1 DEF BInv, UpOrder, RegOrder, BackOrder, Val
<1>. QED
  BY <1>3, <1>4, <1>6, <1>7, <1>8 DEF BInv
\* The packet at the head of a link is the expected one exactly if its number
\* is: stale copies are at most a window old.
LEMMA ExpectedMeaning ==
    ASSUME BInv, NEW r \in Receiver, down[r] # << >>,
           (Psn(Head(down[r])) - Psn(epsn[r])) % PsnMod = 0
    PROVE  Head(down[r]) = epsn[r]
<1>. DEFINE i == Head(down[r])
            e == epsn[r]
<1>1. i \in Nat /\ e \in Nat /\ i < hi /\ e <= i + Window
  <2>1. down[r] \in Seq(Nat) /\ epsn[r] \in Nat
    BY Ranges
  <2>2. i \in Nat /\ i = down[r][1] /\ 1 \in 1..Len(down[r])
    BY <2>1, TailAt
  <2>. QED
    BY <2>1, <2>2 DEF BInv, DownLag
<1>2. i < e + Window
  <2>1. hi <= una + Window /\ una <= e /\ una \in Nat /\ hi \in Nat
    BY Ranges DEF BInv, Counters
  <2>. HIDE DEF i, e
  <2>. QED
    BY <1>1, <2>1, HalfCircle
<1>a. ((i % PsnMod) - (e % PsnMod)) % PsnMod = 0
  BY DEF Psn
<1>. HIDE DEF i, e
<1>b. i \in Int /\ e \in Int /\ PsnMod \in Nat \ {0}
  BY <1>1, HalfCircle
<1>3. (i - e) % PsnMod = 0
  BY <1>a, <1>b, CircularDistance
<1>4. CASE i < e
  <2>1. (e - i) \in 1..PsnMod /\ e - i < PsnMod
    BY <1>1, <1>4, HalfCircle
  <2>2. (-(e - i)) % PsnMod = PsnMod - (e - i)
    BY <2>1, HalfCircle, NegativeMod
  <2>3. -(e - i) = i - e
    BY <1>1
  <2>. QED
    BY <2>1, <2>2, <2>3, <1>1, <1>3, HalfCircle
<1>5. CASE e <= i
  <2>1. i - e \in 0..(PsnMod - 1)
    BY <1>1, <1>2, <1>5, HalfCircle
  <2>2. (i - e) % PsnMod = i - e
    BY <2>1, HalfCircle, SmallMod
  <2>3. i = e
    BY <2>2, <1>3, <1>1
  <2>. QED
    BY <2>3 DEF i, e
<1>. QED
  BY <1>1, <1>4, <1>5

\* Whatever a receiver does with a packet, its link to the switch gets no more
\* than one answer, for the newest packet that it has now.
LEMMA ReceiveEffect ==
    ASSUME BInv, NEW r \in Receiver, Receive(r)
    PROVE  /\ \E e \in Nat :
                /\ epsn' = [epsn EXCEPT ![r] = e]
                /\ epsn[r] <= e /\ e <= hi
                /\ e = epsn[r] \/ (e = epsn[r] + 1 /\ Head(down[r]) = epsn[r])
                /\ \/ up' = up
                   \/ \E a \in Answers : /\ up' = [up EXCEPT ![r] = Queue(@, a)]
                                         /\ Val(a) = e - 1
           /\ down[r] # << >> /\ down' = [down EXCEPT ![r] = Tail(@)]
           /\ UNCHANGED <<una, nxt, hi, back, bitmap, psn, prev_psn>>
<1>1. /\ down[r] # << >> /\ down' = [down EXCEPT ![r] = Tail(@)]
      /\ UNCHANGED <<una, nxt, hi, back, bitmap, psn, prev_psn>>
  BY DEF Receive, rootVars, regVars
<1>2. /\ epsn[r] \in Nat /\ una \in Nat /\ hi \in Nat /\ up[r] \in Seq(Answers)
      /\ una <= epsn[r] /\ epsn[r] <= hi /\ hi <= una + Window
  BY Ranges DEF BInv, Counters
<1>3. epsn \in [Receiver -> 0..N] /\ up \in [Receiver -> Seq(Answers)]
  BY DEF BInv, TypeOK, LinkTypes
<1>4. \A i \in Int : una - 1 <= i /\ i < una + Window =>
        /\ Answer("ack", Psn(i)) \in Answers /\ Val(Answer("ack", Psn(i))) = i
        /\ Psn(i) \in 0..(PsnMod - 1)
  <2>. SUFFICES ASSUME NEW i \in Int, una - 1 <= i, i < una + Window
                PROVE  /\ Answer("ack", Psn(i)) \in Answers /\ Val(Answer("ack", Psn(i))) = i
                       /\ Psn(i) \in 0..(PsnMod - 1)
    OBVIOUS
  <2>0. una \in Int /\ i < una - 1 + PsnMod
    BY <1>2, HalfCircle
  <2>1. Psn(i) \in 0..(PsnMod - 1) /\ At(Psn(i), una) = i
    BY <2>0, AtUnique
  <2>. QED
    BY <2>1, AnswerMeaning DEF Val, Answer, Answers
<1>5. Answer("nak", Psn(epsn[r])) \in Answers /\ Val(Answer("nak", Psn(epsn[r]))) = epsn[r] - 1
  <2>0. epsn[r] \in Int
    BY <1>2
  <2>1. AckedBy(Answer("nak", Psn(epsn[r]))) = Psn(epsn[r] - 1)
    BY <2>0, AnswerMeaning
  <2>2. At(Psn(epsn[r] - 1), una) = epsn[r] - 1
    <3>1. epsn[r] - 1 \in Int /\ una \in Int /\ una - 1 <= epsn[r] - 1
          /\ epsn[r] - 1 < una - 1 + PsnMod
      BY <1>2, HalfCircle
    <3>. QED
      BY <3>1, AtUnique
  <2>3. Psn(epsn[r]) \in 0..(PsnMod - 1)
    BY <2>0, HalfCircle, DivMod DEF Psn
  <2>. QED
    BY <2>1, <2>2, <2>3 DEF Val, Answer, Answers
<1>. DEFINE ahead == (Psn(Head(down[r])) - Psn(epsn[r])) % PsnMod
<1>6. CASE /\ ahead = 0 /\ epsn' = [epsn EXCEPT ![r] = @ + 1]
           /\ up' = [up EXCEPT ![r] = Queue(@, Answer("ack", Psn(epsn[r])))]
  <2>1. Head(down[r]) = epsn[r]
    BY <1>1, <1>6, ExpectedMeaning
  <2>2. epsn[r] < hi
    <3>1. down[r] \in Seq(Nat) /\ down[r] # << >>
      BY <1>1 DEF BInv, LinkTypes
    <3>2. 1 \in 1..Len(down[r]) /\ Head(down[r]) = down[r][1]
      BY <3>1, TailAt
    <3>3. down[r][1] < hi
      BY <3>2 DEF BInv, DownLag
    <3>. QED
      BY <2>1, <3>2, <3>3
  <2>3. epsn[r] + 1 \in Nat /\ epsn[r] + 1 <= hi /\ epsn[r] <= epsn[r] + 1
    BY <2>2, <1>2
  <2>4. Answer("ack", Psn(epsn[r])) \in Answers /\ Val(Answer("ack", Psn(epsn[r]))) = (epsn[r] + 1) - 1
    BY <1>2, <1>4, <2>2, HalfCircle
  <2>5. epsn' = [epsn EXCEPT ![r] = epsn[r] + 1]
    BY <1>6
  <2>. QED
    BY <2>1, <2>3, <2>4, <2>5, <1>1, <1>6
<1>7. CASE /\ UNCHANGED epsn
           /\ up' = [up EXCEPT ![r] = IF nakked[r] THEN @ ELSE Queue(@, Answer("nak", Psn(epsn[r])))]
  <2>1. epsn' = [epsn EXCEPT ![r] = epsn[r]]
    BY <1>3, <1>7
  <2>2. up' = up \/ up' = [up EXCEPT ![r] = Queue(@, Answer("nak", Psn(epsn[r])))]
    BY <1>3, <1>7
  <2>3. \/ up' = up
        \/ \E a \in Answers : up' = [up EXCEPT ![r] = Queue(@, a)] /\ Val(a) = epsn[r] - 1
    BY <2>2, <1>5
  <2>4. epsn[r] <= epsn[r]
    BY <1>2
  <2>. QED
    BY <2>1, <2>3, <2>4, <1>1, <1>2
<1>8. CASE /\ UNCHANGED epsn
           /\ up' = [up EXCEPT ![r] = Queue(@, Answer("ack", Psn(epsn[r] - 1)))]
  <2>1. epsn' = [epsn EXCEPT ![r] = epsn[r]]
    BY <1>3, <1>8
  <2>2. Answer("ack", Psn(epsn[r] - 1)) \in Answers
        /\ Val(Answer("ack", Psn(epsn[r] - 1))) = epsn[r] - 1
    BY <1>2, <1>4, HalfCircle
  <2>3. \E a \in Answers : up' = [up EXCEPT ![r] = Queue(@, a)] /\ Val(a) = epsn[r] - 1
    BY <2>2, <1>8
  <2>4. epsn[r] <= epsn[r]
    BY <1>2
  <2>. QED
    BY <2>1, <2>3, <2>4, <1>1, <1>2
<1>. QED
  BY <1>6, <1>7, <1>8 DEF Receive

\* A receiver takes a packet from its link.
LEMMA ReceiveStep ==
    ASSUME BInv, NEW r \in Receiver, Receive(r)
    PROVE  BInv'
<1>1. PICK e \in Nat :
        /\ epsn' = [epsn EXCEPT ![r] = e]
        /\ epsn[r] <= e /\ e <= hi
        /\ e = epsn[r] \/ (e = epsn[r] + 1 /\ Head(down[r]) = epsn[r])
        /\ \/ up' = up
           \/ \E a \in Answers : up' = [up EXCEPT ![r] = Queue(@, a)] /\ Val(a) = e - 1
  BY ReceiveEffect
<1>2. /\ down[r] # << >> /\ down' = [down EXCEPT ![r] = Tail(@)]
      /\ UNCHANGED <<una, nxt, hi, back, bitmap, psn, prev_psn>>
  BY ReceiveEffect
<1>3. \A s \in Receiver : epsn'[s] = IF s = r THEN e ELSE epsn[s]
  BY <1>1 DEF BInv, TypeOK
<1>4. \A s \in Receiver : epsn[s] \in Nat /\ epsn'[s] \in Nat /\ epsn[s] <= epsn'[s] /\ epsn'[s] <= hi
  BY <1>1, <1>3, Ranges DEF BInv, Counters
<1>5. TypeOK'
  <2>1. epsn' \in [Receiver -> 0..N]
    BY <1>1, Ranges, HalfCircle DEF BInv, TypeOK
  <2>. QED
    BY <2>1, <1>2 DEF BInv, TypeOK
<1>6. LinkTypes'
  <2>1. down' \in [Receiver -> Seq(Nat)]
    BY <1>2, TailAt DEF BInv, LinkTypes
  <2>2. up' \in [Receiver -> Seq(Answers)]
    <3>1. up \in [Receiver -> Seq(Answers)] /\ up[r] \in Seq(Answers)
      BY DEF BInv, LinkTypes
    <3>2. \A a \in Answers : Queue(up[r], a) \in Seq(Answers)
      BY <3>1, QueueAt
    <3>. QED
      BY <3>1, <3>2, <1>1
  <2>. QED
    BY <2>1, <2>2, <1>2 DEF BInv, LinkTypes
<1>7. Counters'
  <2>1. hi <= una + Window /\ \A s \in Receiver : una <= epsn[s]
    BY DEF BInv, Counters
  <2>2. una \in Nat
    BY Ranges
  <2>3. \A s \in Receiver : una <= epsn'[s] /\ epsn'[s] <= hi
    BY <2>1, <2>2, <1>4
  <2>. QED
    BY <2>1, <2>3, <1>2 DEF Counters
<1>8. DownLag'
  <2>. SUFFICES ASSUME NEW s \in Receiver
                PROVE  /\ \A k \in 1..Len(down'[s]) : down'[s][k] < hi /\ epsn'[s] <= down'[s][k] + Window
                       /\ \A j, k \in 1..Len(down'[s]) : j < k => down'[s][j] < down'[s][k] + Window
    BY <1>2 DEF DownLag
  <2>1. /\ \A k \in 1..Len(down[s]) : down[s][k] < hi /\ epsn[s] <= down[s][k] + Window
        /\ \A j, k \in 1..Len(down[s]) : j < k => down[s][j] < down[s][k] + Window
        /\ down[s] \in Seq(Nat)
    BY DEF BInv, DownLag, LinkTypes
  <2>2. CASE s # r
    <3>1. down'[s] = down[s] /\ epsn'[s] = epsn[s]
      BY <1>2, <1>3, <2>2 DEF BInv, LinkTypes
    <3>. QED
      BY <3>1, <2>1
  <2>3. CASE s = r
    <3>1. down'[s] = Tail(down[r]) /\ epsn'[s] = e
      BY <1>2, <1>3, <2>3 DEF BInv, LinkTypes
    <3>2. /\ \A k \in 1..Len(Tail(down[r])) : Head(down[r]) < Tail(down[r])[k] + Window
          /\ \A j, k \in 1..Len(Tail(down[r])) : j < k => Tail(down[r])[j] < Tail(down[r])[k] + Window
      BY <1>2, <2>1, <2>3, DownTail
    <3>3. /\ \A k \in 1..Len(Tail(down[r])) : k + 1 \in 1..Len(down[r])
                                             /\ Tail(down[r])[k] = down[r][k + 1]
          /\ Tail(down[r]) \in Seq(Nat)
      BY <1>2, <2>1, <2>3, TailAt
    <3>4. \A k \in 1..Len(Tail(down[r])) : Tail(down[r])[k] < hi /\ epsn[r] <= Tail(down[r])[k] + Window
      BY <3>3, <2>1, <2>3
    <3>5. ASSUME NEW k \in 1..Len(Tail(down[r])) PROVE e <= Tail(down[r])[k] + Window
      <4>1. Tail(down[r])[k] \in Nat /\ epsn[r] \in Nat
        BY <3>3, <1>4
      <4>2. CASE e = epsn[r]
        BY <4>2, <3>4
      <4>3. CASE e = epsn[r] + 1 /\ Head(down[r]) = epsn[r]
        BY <4>1, <4>3, <3>2, HalfCircle
      <4>. QED
        BY <4>2, <4>3, <1>1
    <3>. QED
      BY <3>1, <3>2, <3>4, <3>5
  <2>. QED
    BY <2>2, <2>3
<1>9. UpOrder'
  <2>. SUFFICES ASSUME NEW s \in Receiver
                PROVE  /\ \A k \in 1..Len(up'[s]) :
                            /\ At(prev_psn, una) <= Val(up'[s][k]) /\ Val(up'[s][k]) < epsn'[s]
                            /\ s \in bitmap => At(psn, una) <= Val(up'[s][k])
                       /\ \A j, k \in 1..Len(up'[s]) : j < k => Val(up'[s][j]) <= Val(up'[s][k])
    BY <1>2 DEF UpOrder, Val
  <2>1. /\ \A k \in 1..Len(up[s]) :
             /\ At(prev_psn, una) <= Val(up[s][k]) /\ Val(up[s][k]) < epsn[s]
             /\ s \in bitmap => At(psn, una) <= Val(up[s][k])
        /\ \A j, k \in 1..Len(up[s]) : j < k => Val(up[s][j]) <= Val(up[s][k])
        /\ up[s] \in Seq(Answers)
    BY DEF BInv, UpOrder, LinkTypes
  <2>2. \A k \in 1..Len(up[s]) : up[s][k] \in Answers /\ Val(up[s][k]) \in Int
    BY <2>1, Ranges, SMTT(30)
  <2>3. \A k \in 1..Len(up[s]) : Val(up[s][k]) < epsn'[s]
    BY <2>1, <2>2, <1>4
  <2>4. CASE up'[s] = up[s]
    BY <2>1, <2>3, <2>4
  <2>5. CASE s = r /\ \E a \in Answers : up' = [up EXCEPT ![r] = Queue(@, a)] /\ Val(a) = e - 1
    <3>1. PICK a \in Answers : up' = [up EXCEPT ![r] = Queue(@, a)] /\ Val(a) = e - 1
      BY <2>5
    <3>2. up'[s] = Queue(up[s], a) /\ epsn'[s] = e
      BY <3>1, <2>5, <1>3 DEF BInv, LinkTypes
    <3>3. \A k \in 1..Len(up[s]) : Val(up[s][k]) <= Val(a)
      BY <3>1, <3>2, <2>2, <2>3
    <3>4. /\ At(prev_psn, una) <= Val(a) /\ Val(a) < e
          /\ s \in bitmap => At(psn, una) <= Val(a)
      BY <3>1, <1>4, <3>2, Ranges, SMTT(30) DEF BInv, RegOrder
    <3>5. \A k \in 1..Len(Queue(up[s], a)) :
            (k \in 1..Len(up[s]) /\ Queue(up[s], a)[k] = up[s][k]) \/ Queue(up[s], a)[k] = a
      BY <2>1, <3>3, SortedQueue
    <3>6. \A k \in 1..Len(Queue(up[s], a)) :
            /\ At(prev_psn, una) <= Val(Queue(up[s], a)[k]) /\ Val(Queue(up[s], a)[k]) < epsn'[s]
            /\ s \in bitmap => At(psn, una) <= Val(Queue(up[s], a)[k])
      BY <3>2, <3>4, <3>5, <2>1, <2>3
    <3>7. \A j, k \in 1..Len(Queue(up[s], a)) :
            j < k => Val(Queue(up[s], a)[j]) <= Val(Queue(up[s], a)[k])
      BY <2>1, <3>3, SortedQueue
    <3>. QED
      BY <3>2, <3>6, <3>7
  <2>6. up'[s] = up[s] \/ s = r
    BY <1>1 DEF BInv, LinkTypes
  <2>. QED
    BY <2>4, <2>5, <2>6, <1>1
<1>10. RegOrder'
  <2>1. \A s \in Receiver : At(prev_psn, una) < epsn'[s]
    BY <1>4, Ranges DEF BInv, RegOrder
  <2>2. \A s \in bitmap : At(psn, una) < epsn'[s]
    BY <1>4, Ranges DEF BInv, RegOrder
  <2>. QED
    BY <2>1, <2>2, <1>2 DEF BInv, RegOrder
<1>11. BackOrder'
  BY <1>2 DEF BInv, BackOrder, Val
<1>. QED
  BY <1>5, <1>6, <1>7, <1>8, <1>9, <1>10, <1>11 DEF BInv
\* The root finds in an answer the packet that the switch has promised, and
\* takes everything up to it for acknowledged, or nothing.
LEMMA RootReceiveEffect ==
    ASSUME BInv, RootReceive
    PROVE  /\ back # << >> /\ back' = Tail(back)
           /\ una' \in Nat /\ nxt' \in Nat /\ una <= una' /\ una' <= nxt' /\ nxt' <= hi
           /\ una' = una \/ una' - 1 = Val(Head(back))
           /\ UNCHANGED <<hi, epsn, nakked, down, up, bitmap, psn, prev_psn>>
<1>. DEFINE a == Head(back)
            known == {i \in una..(hi - 1) : Psn(i) = a.psn}
            first == CHOOSE i \in known : TRUE
<1>1. /\ back # << >> /\ back' = Tail(back)
      /\ UNCHANGED <<hi, epsn, nakked, down, up, bitmap, psn, prev_psn>>
      /\ \/ known = {} /\ una' = una /\ nxt' = nxt
         \/ known # {} /\ a.kind = "ack" /\ una' = first + 1 /\ nxt' = IF nxt > first THEN nxt ELSE first + 1
         \/ known # {} /\ a.kind = "nak" /\ una' = first /\ nxt' = first
  BY DEF RootReceive, recvVars, regVars
<1>2. una \in Nat /\ nxt \in Nat /\ hi \in Nat /\ una <= nxt /\ nxt <= hi /\ hi <= una + Window
  BY Ranges DEF BInv, Counters
<1>3. a \in Answers
  BY <1>1, TailAt DEF BInv, LinkTypes
<1>4. CASE known = {}
  BY <1>1, <1>2, <1>4
<1>5. CASE known # {}
  <2>1. first \in known
    BY <1>5
  <2>2. first \in una..(hi - 1) /\ Psn(first) = a.psn
    BY <2>1
  <2>. HIDE DEF known, first, a
  <2>3. first \in Nat /\ una <= first /\ first < hi /\ first < una + Window
    BY <2>2, <1>2, HalfCircle
  <2>4. CASE a.kind = "ack" /\ una' = first + 1 /\ nxt' = IF nxt > first THEN nxt ELSE first + 1
    <3>1. first \in Int /\ una \in Int /\ una - 1 <= first /\ first < una - 1 + PsnMod
      BY <2>3, <1>2, HalfCircle
    <3>2. At(Psn(first), una) = first
      BY <3>1, AtUnique
    <3>3. Val(a) = first
      BY <3>2, <2>2, <2>4 DEF Val, AckedBy
    <3>4. una' - 1 = Val(a)
      BY <3>1, <3>3, <2>4
    <3>. QED
      BY <3>4, <2>3, <2>4, <1>1, <1>2 DEF a
  <2>5. CASE a.kind = "nak" /\ una' = first /\ nxt' = first
    <3>1. first - 1 \in Int /\ una \in Int /\ una - 1 <= first - 1 /\ first - 1 < una - 1 + PsnMod
      BY <2>3, <1>2, HalfCircle
    <3>2. At(Psn(first - 1), una) = first - 1
      BY <3>1, AtUnique
    <3>3. first \in Int /\ PsnMod \in Nat \ {0} /\ PsnMod > 1
      BY <2>3, HalfCircle
    <3>4. (a.psn - 1) % PsnMod = Psn(first - 1)
      BY <3>3, <2>2, ModBack DEF Psn
    <3>5. AckedBy(a) = Psn(first - 1)
      BY <3>4, <2>5 DEF AckedBy
    <3>6. una' - 1 = Val(a)
      BY <3>2, <3>5, <2>5 DEF Val
    <3>. QED
      BY <3>6, <2>3, <2>5, <1>1, <1>2 DEF a
  <2>6. first \in known /\ known # {}
    BY <2>1, <1>5
  <2>. QED
    BY <2>4, <2>5, <2>6, <1>1 DEF a, known, first
<1>. QED
  BY <1>4, <1>5

\* The root's oldest packet advances, and no number changes its meaning.
LEMMA RootReceiveStep ==
    ASSUME BInv, RootReceive
    PROVE  BInv'
<1>1. /\ back # << >> /\ back' = Tail(back)
      /\ una' \in Nat /\ nxt' \in Nat /\ una <= una' /\ una' <= nxt' /\ nxt' <= hi
      /\ una' = una \/ una' - 1 = Val(Head(back))
      /\ UNCHANGED <<hi, epsn, nakked, down, up, bitmap, psn, prev_psn>>
  BY RootReceiveEffect
<1>2. /\ una \in Nat /\ hi \in Nat /\ hi <= N /\ hi <= una + Window /\ back \in Seq(Answers)
      /\ psn \in 0..(PsnMod - 1) /\ prev_psn \in 0..(PsnMod - 1)
  BY Ranges DEF BInv, Counters, LinkTypes
<1>3. /\ \A k \in 1..Len(Tail(back)) : k + 1 \in 1..Len(back) /\ Tail(back)[k] = back[k + 1]
      /\ Tail(back) \in Seq(Answers) /\ Head(back) \in Answers
      /\ 1 \in 1..Len(back) /\ Head(back) = back[1]
  BY <1>1, <1>2, TailAt
<1>4. Val(Head(back)) \in Int /\ At(prev_psn, una) \in Int /\ At(psn, una) \in Int
      /\ una - 1 <= At(prev_psn, una)
  BY <1>3, Ranges
<1>5. Val(Head(back)) <= At(prev_psn, una)
  BY <1>3 DEF BInv, BackOrder
<1>6. una' - 1 <= At(prev_psn, una)
  BY <1>1, <1>2, <1>4, <1>5
<1>7. \A p \in 0..(PsnMod - 1) : una' - 1 <= At(p, una) => At(p, una') = At(p, una)
  <2>1. una \in Int /\ una' \in Int
    BY <1>1, <1>2
  <2>. QED
    BY <2>1, <1>1, AtShift
<1>8. At(prev_psn, una') = At(prev_psn, una)
  BY <1>2, <1>6, <1>7
<1>9. bitmap # {} => At(psn, una') = At(psn, una)
  <2>1. bitmap # {} => At(prev_psn, una) <= At(psn, una)
    BY DEF BInv, RegOrder
  <2>. QED
    BY <2>1, <1>1, <1>2, <1>4, <1>6, <1>7
<1>11. TypeOK'
  BY <1>1, <1>2, HalfCircle DEF BInv, TypeOK
<1>12. LinkTypes'
  BY <1>1, <1>3 DEF BInv, LinkTypes
<1>13. Counters'
  <2>1. ASSUME NEW r \in Receiver PROVE una' <= epsn[r] /\ epsn[r] <= hi
    <3>1. epsn[r] \in Nat /\ At(prev_psn, una) < epsn[r] /\ epsn[r] <= hi
      BY Ranges DEF BInv, RegOrder, Counters
    <3>. QED
      BY <3>1, <1>1, <1>4, <1>6
  <2>2. hi <= una' + Window
    <3>1. una' \in Nat /\ una <= una'
      BY <1>1
    <3>2. una \in Nat /\ hi \in Nat /\ hi <= una + Window /\ Window \in Nat
      BY <1>2, HalfCircle
    <3>3. \A u, v, w, h \in Nat : u <= v /\ h <= u + w => h <= v + w
      OBVIOUS
    <3>. QED
      BY <3>1, <3>2, <3>3
  <2>. QED
    BY <2>1, <2>2, <1>1 DEF Counters
<1>14. DownLag'
  BY <1>1 DEF BInv, DownLag
<1>15. UpOrder'
  <2>1. ASSUME NEW r \in Receiver, NEW k \in 1..Len(up[r]) PROVE Val(up[r][k])' = Val(up[r][k])
    <3>1. up[r][k] \in Answers /\ Val(up[r][k]) \in Int
      BY Ranges, SMTT(30)
    <3>2. At(prev_psn, una) <= Val(up[r][k])
      BY DEF BInv, UpOrder
    <3>3. una' - 1 <= Val(up[r][k])
      BY <3>1, <3>2, <1>1, <1>4, <1>6
    <3>4. At(AckedBy(up[r][k]), una') = At(AckedBy(up[r][k]), una)
      BY <3>1, <3>3, <1>7, AnswerMeaning DEF Val
    <3>. QED
      BY <3>4, <1>1 DEF Val
  <2>2. \A r \in Receiver : r \in bitmap => bitmap # {}
    OBVIOUS
  <2>. QED
    BY <2>1, <2>2, <1>1, <1>8, <1>9 DEF BInv, UpOrder
<1>16. RegOrder'
  <2>1. \A r \in bitmap : At(psn, una') = At(psn, una)
    BY <1>9
  <2>. QED
    BY <2>1, <1>1, <1>8, <1>9 DEF BInv, RegOrder
<1>17. BackOrder'
  <2>1. ASSUME NEW k \in 1..Len(Tail(back))
        PROVE  /\ At(AckedBy(Tail(back)[k]), una') = Val(Tail(back)[k])
               /\ Val(Tail(back)[k]) <= At(prev_psn, una)
    <3>1. Tail(back)[k] \in Answers /\ Val(Tail(back)[k]) \in Int /\ una - 1 <= Val(Tail(back)[k])
      BY <1>3, Ranges
    <3>2. Val(Head(back)) <= Val(Tail(back)[k])
      BY <1>1, <1>2, SortedTail DEF BInv, BackOrder
    <3>3. una' - 1 <= Val(Tail(back)[k])
      BY <3>1, <3>2, <1>1, <1>2, <1>4
    <3>4. Val(Tail(back)[k]) <= At(prev_psn, una)
      BY <1>3 DEF BInv, BackOrder
    <3>5. At(AckedBy(Tail(back)[k]), una') = At(AckedBy(Tail(back)[k]), una)
      BY <3>1, <3>3, <1>7, AnswerMeaning DEF Val
    <3>. QED
      BY <3>4, <3>5 DEF Val
  <2>2. \A j, k \in 1..Len(Tail(back)) : j < k => Val(Tail(back)[j]) <= Val(Tail(back)[k])
    BY <1>1, <1>2, SortedTail DEF BInv, BackOrder
  <2>. QED
    BY <2>1, <2>2, <1>1, <1>8 DEF BackOrder, Val
<1>. QED
  BY <1>11, <1>12, <1>13, <1>14, <1>15, <1>16, <1>17 DEF BInv
\* What the egress pipeline makes of an answer: psn is the older of the two
\* numbers unless the round is new, and prev_psn follows it when the round is
\* complete.
LEMMA MergeEffect ==
    ASSUME Comparable, BInv, NEW r \in Receiver, Merge(r)
    PROVE  /\ up[r] # << >> /\ up' = [up EXCEPT ![r] = Tail(@)]
           /\ UNCHANGED <<una, nxt, hi, epsn, nakked, down>>
           /\ psn' \in 0..(PsnMod - 1) /\ prev_psn' \in 0..(PsnMod - 1)
           /\ bitmap' \subseteq Receiver /\ r \in bitmap' /\ bitmap' \subseteq bitmap \cup {r}
           /\ At(psn', una) <= Val(Head(up[r])) /\ At(prev_psn, una) <= At(psn', una)
           /\ bitmap' # {r} => At(psn', una) <= At(psn, una)
           /\ \/ bitmap' = Receiver /\ prev_psn' = psn'
              \/ prev_psn' = prev_psn
           /\ \E a \in Answers : back' = Queue(back, a) /\ Val(a) = At(prev_psn', una)
<1>. DEFINE a == Head(up[r])
            p == NewPsn(r, AckedBy(a))
            last == NewBitmap(r) = Receiver
            acked == IF last THEN p ELSE prev_psn
<1>1. /\ up[r] # << >> /\ up' = [up EXCEPT ![r] = Tail(@)]
      /\ UNCHANGED <<una, nxt, hi, epsn, nakked, down>>
      /\ bitmap' = NewBitmap(r) /\ psn' = p /\ prev_psn' = acked
      /\ back' = Queue(back, Answer(a.kind, PutSn(a, acked)))
  BY DEF Merge, rootVars, recvVars
<1>2. /\ up[r] \in Seq(Answers) /\ una \in Nat /\ epsn[r] \in Nat /\ hi \in Nat
      /\ psn \in 0..(PsnMod - 1) /\ prev_psn \in 0..(PsnMod - 1) /\ bitmap \subseteq Receiver
      /\ At(psn, una) \in Int /\ At(prev_psn, una) \in Int
      /\ epsn[r] <= hi /\ hi <= una + Window
  BY Ranges DEF BInv, Counters
<1>3. a \in Answers /\ a = up[r][1] /\ 1 \in 1..Len(up[r])
  BY <1>1, <1>2, TailAt
<1>4. /\ AckedBy(a) \in 0..(PsnMod - 1) /\ Val(a) \in Int /\ Val(a) = At(AckedBy(a), una)
      /\ At(prev_psn, una) <= Val(a) /\ Val(a) < epsn[r]
      /\ r \in bitmap => At(psn, una) <= Val(a)
  <2>1. Val(up[r][1]) < epsn[r] /\ At(prev_psn, una) <= Val(up[r][1])
        /\ (r \in bitmap => At(psn, una) <= Val(up[r][1]))
    BY <1>3 DEF BInv, UpOrder
  <2>2. AckedBy(a) \in 0..(PsnMod - 1) /\ Val(a) \in Int
    BY <1>3, AnswerMeaning, Ranges
  <2>. QED
    BY <2>1, <2>2, <1>3 DEF Val
<1>5. NewBitmap(r) \subseteq Receiver /\ r \in NewBitmap(r) /\ NewBitmap(r) \subseteq bitmap \cup {r}
  BY <1>2 DEF NewBitmap
<1>6. NewBitmap(r) # {r} => \E s \in bitmap : s \in Receiver
  BY <1>2 DEF NewBitmap
<1>. HIDE DEF a
<1>7. NewBitmap(r) # {r} =>
        /\ Older(AckedBy(a), psn) <=> Val(a) < At(psn, una)
        /\ At(prev_psn, una) <= At(psn, una)
  <2>. SUFFICES ASSUME NewBitmap(r) # {r}
                PROVE  /\ Older(AckedBy(a), psn) <=> Val(a) < At(psn, una)
                       /\ At(prev_psn, una) <= At(psn, una)
    OBVIOUS
  <2>1. PICK s \in bitmap : s \in Receiver
    BY <1>6
  <2>2. At(psn, una) < epsn[s] /\ epsn[s] <= hi /\ epsn[s] \in Nat /\ At(prev_psn, una) <= At(psn, una)
    BY <2>1, Ranges DEF BInv, RegOrder, Counters
  <2>3. At(psn, una) < una + Window /\ At(AckedBy(a), una) < una + Window /\ una \in Int
    BY <2>2, <1>2, <1>4, HalfCircle
  <2>4. Signed
    BY <1>5 DEF Comparable
  <2>. QED
    BY <2>2, <2>3, <2>4, <1>2, <1>4, OlderMeaning
<1>8. p = IF NewBitmap(r) = {r} \/ Older(AckedBy(a), psn) THEN AckedBy(a) ELSE psn
  BY DEF NewPsn
<1>. HIDE DEF p
<1>9. /\ p \in 0..(PsnMod - 1)
      /\ At(p, una) <= Val(a) /\ At(prev_psn, una) <= At(p, una)
      /\ NewBitmap(r) # {r} => At(p, una) <= At(psn, una)
  <2>1. CASE NewBitmap(r) = {r}
    BY <2>1, <1>4, <1>8
  <2>2. CASE NewBitmap(r) # {r} /\ Older(AckedBy(a), psn)
    BY <2>2, <1>2, <1>4, <1>7, <1>8
  <2>3. CASE NewBitmap(r) # {r} /\ ~Older(AckedBy(a), psn)
    BY <2>3, <1>2, <1>4, <1>7, <1>8
  <2>. QED
    BY <2>1, <2>2, <2>3
<1>10. acked \in 0..(PsnMod - 1)
  BY <1>2, <1>9
<1>11. Answer(a.kind, PutSn(a, acked)) \in Answers /\ AckedBy(Answer(a.kind, PutSn(a, acked))) = acked
  <2>. HIDE DEF acked
  <2>1. CASE a.kind = "ack"
    BY <2>1, <1>10 DEF PutSn, Answer, AckedBy, Answers
  <2>2. CASE a.kind = "nak"
    <3>1. acked + 1 \in Int
      BY <1>10
    <3>2. (acked + 1) % PsnMod \in 0..(PsnMod - 1)
      BY <3>1, HalfCircle, DivMod
    <3>3. AckedBy(Answer("nak", (acked + 1) % PsnMod)) = acked
      BY <1>10, AnswerMeaning
    <3>. QED
      BY <2>2, <3>2, <3>3 DEF PutSn, Answer, Answers
  <2>3. a.kind \in {"ack", "nak"}
    BY <1>3 DEF Answers
  <2>. QED
    BY <2>1, <2>2, <2>3
<1>12. \E b \in Answers : back' = Queue(back, b) /\ Val(b) = At(prev_psn', una)
  BY <1>1, <1>11 DEF Val
<1>. QED
  BY <1>1, <1>5, <1>9, <1>10, <1>12 DEF a

\* An answer is merged.
LEMMA MergeStep ==
    ASSUME Comparable, BInv, NEW r \in Receiver, Merge(r)
    PROVE  BInv'
<1>1. /\ up[r] # << >> /\ up' = [up EXCEPT ![r] = Tail(@)]
      /\ UNCHANGED <<una, nxt, hi, epsn, nakked, down>>
      /\ psn' \in 0..(PsnMod - 1) /\ prev_psn' \in 0..(PsnMod - 1)
      /\ bitmap' \subseteq Receiver /\ r \in bitmap' /\ bitmap' \subseteq bitmap \cup {r}
  BY MergeEffect
<1>2. /\ At(psn', una) <= Val(Head(up[r])) /\ At(prev_psn, una) <= At(psn', una)
      /\ bitmap' # {r} => At(psn', una) <= At(psn, una)
  BY MergeEffect
<1>3. (bitmap' = Receiver /\ prev_psn' = psn') \/ prev_psn' = prev_psn
  BY MergeEffect
<1>4. \E a \in Answers : back' = Queue(back, a) /\ Val(a) = At(prev_psn', una)
  BY MergeEffect
<1>5. /\ up[r] \in Seq(Answers) /\ una \in Int /\ At(psn, una) \in Int /\ At(prev_psn, una) \in Int
      /\ \A s \in Receiver : epsn[s] \in Nat /\ up[s] \in Seq(Answers)
      /\ \A a \in Answers : Val(a) \in Int
  BY Ranges
<1>6. At(psn', una) \in Int /\ At(prev_psn', una) \in Int
  BY <1>1, <1>5, AtRange
<1>7. /\ Head(up[r]) \in Answers /\ Head(up[r]) = up[r][1] /\ 1 \in 1..Len(up[r])
      /\ \A k \in 1..Len(Tail(up[r])) : k + 1 \in 1..Len(up[r]) /\ Tail(up[r])[k] = up[r][k + 1]
      /\ Tail(up[r]) \in Seq(Answers)
  BY <1>1, <1>5, TailAt
<1>8. /\ \A k \in 1..Len(Tail(up[r])) : Val(Head(up[r])) <= Val(Tail(up[r])[k])
      /\ \A j, k \in 1..Len(Tail(up[r])) : j < k => Val(Tail(up[r])[j]) <= Val(Tail(up[r])[k])
  BY <1>1, <1>5, SortedTail DEF BInv, UpOrder
<1>9. \A s \in Receiver : up'[s] = IF s = r THEN Tail(up[r]) ELSE up[s]
  BY <1>1 DEF BInv, LinkTypes
<1>10. ASSUME NEW s \in bitmap'
       PROVE  /\ At(psn', una) < epsn[s]
              /\ \A k \in 1..Len(up'[s]) : At(psn', una) <= Val(up'[s][k])
  <2>0. s \in Receiver
    BY <1>1
  <2>1. CASE s = r
    <3>1. Val(Head(up[r])) < epsn[r] /\ Val(Head(up[r])) \in Int
      BY <1>5, <1>7 DEF BInv, UpOrder
    <3>2. \A k \in 1..Len(Tail(up[r])) : Tail(up[r])[k] \in Answers /\ Val(Tail(up[r])[k]) \in Int
      BY <1>5, <1>7
    <3>3. At(psn', una) < epsn[r]
      BY <3>1, <1>2, <1>5, <1>6
    <3>4. \A k \in 1..Len(Tail(up[r])) : At(psn', una) <= Val(Tail(up[r])[k])
      BY <3>1, <3>2, <1>2, <1>6, <1>8
    <3>. QED
      BY <3>3, <3>4, <2>1, <1>9
  <2>2. CASE s # r
    <3>1. bitmap' # {r} /\ s \in bitmap /\ up'[s] = up[s]
      BY <2>0, <2>2, <1>1, <1>9
    <3>2. At(psn, una) < epsn[s] /\ \A k \in 1..Len(up[s]) : At(psn, una) <= Val(up[s][k])
      BY <3>1, <2>0 DEF BInv, RegOrder, UpOrder
    <3>3. At(psn', una) < epsn[s]
      BY <3>1, <3>2, <2>0, <1>2, <1>5, <1>6
    <3>4. \A k \in 1..Len(up[s]) : up[s][k] \in Answers /\ Val(up[s][k]) \in Int
      BY <2>0, <1>5
    <3>5. \A k \in 1..Len(up[s]) : At(psn', una) <= Val(up[s][k])
      BY <3>1, <3>2, <3>4, <1>2, <1>5, <1>6
    <3>. QED
      BY <3>1, <3>3, <3>5
  <2>. QED
    BY <2>1, <2>2
<1>11. /\ At(prev_psn, una) <= At(prev_psn', una)
       /\ At(prev_psn', una) <= At(psn', una)
  BY <1>2, <1>3, <1>5, <1>6
<1>12. ASSUME NEW s \in Receiver
       PROVE  /\ At(prev_psn', una) < epsn[s]
              /\ \A k \in 1..Len(up'[s]) : At(prev_psn', una) <= Val(up'[s][k])
              /\ \A k \in 1..Len(up'[s]) : Val(up'[s][k]) < epsn[s]
              /\ \A j, k \in 1..Len(up'[s]) : j < k => Val(up'[s][j]) <= Val(up'[s][k])
  <2>1. /\ \A k \in 1..Len(up'[s]) : At(prev_psn, una) <= Val(up'[s][k]) /\ Val(up'[s][k]) < epsn[s]
        /\ \A j, k \in 1..Len(up'[s]) : j < k => Val(up'[s][j]) <= Val(up'[s][k])
    <3>1. /\ \A k \in 1..Len(up[s]) : At(prev_psn, una) <= Val(up[s][k]) /\ Val(up[s][k]) < epsn[s]
          /\ \A j, k \in 1..Len(up[s]) : j < k => Val(up[s][j]) <= Val(up[s][k])
      BY DEF BInv, UpOrder
    <3>2. CASE s = r
      <4>1. up'[s] = Tail(up[r])
        BY <3>2, <1>9
      <4>2. \A k \in 1..Len(Tail(up[r])) : /\ At(prev_psn, una) <= Val(Tail(up[r])[k])
                                            /\ Val(Tail(up[r])[k]) < epsn[r]
        BY <3>1, <3>2, <1>7
      <4>. QED
        BY <4>1, <4>2, <3>2, <1>8
    <3>3. CASE s # r
      BY <3>1, <3>3, <1>9
    <3>. QED
      BY <3>2, <3>3
  <2>2. CASE bitmap' = Receiver /\ prev_psn' = psn'
    BY <2>1, <2>2, <1>10
  <2>3. CASE prev_psn' = prev_psn
    BY <2>1, <2>3 DEF BInv, RegOrder
  <2>. QED
    BY <2>2, <2>3, <1>3
<1>13. TypeOK'
  BY <1>1 DEF BInv, TypeOK
<1>14. LinkTypes'
  <2>1. up' \in [Receiver -> Seq(Answers)]
    BY <1>1, <1>7 DEF BInv, LinkTypes
  <2>2. \A a \in Answers : back \in Seq(Answers) /\ Queue(back, a) \in Seq(Answers)
    BY QueueAt DEF BInv, LinkTypes
  <2>3. back' \in Seq(Answers)
    BY <1>4, <2>2
  <2>. QED
    BY <2>1, <2>3, <1>1 DEF BInv, LinkTypes
<1>15. Counters' /\ DownLag'
  BY <1>1 DEF BInv, Counters, DownLag
<1>16. UpOrder'
  BY <1>1, <1>10, <1>12 DEF UpOrder, Val
<1>17. RegOrder'
  BY <1>1, <1>10, <1>11, <1>12 DEF RegOrder
<1>18. BackOrder'
  <2>1. /\ back \in Seq(Answers)
        /\ \A k \in 1..Len(back) : Val(back[k]) <= At(prev_psn, una)
        /\ \A j, k \in 1..Len(back) : j < k => Val(back[j]) <= Val(back[k])
    BY DEF BInv, LinkTypes, BackOrder
  <2>2. \A k \in 1..Len(back) : Val(back[k]) \in Int
    BY <2>1, <1>5
  <2>3. \A k \in 1..Len(back) : Val(back[k]) <= At(prev_psn', una)
    BY <2>1, <2>2, <1>5, <1>6, <1>11
  <2>4. ASSUME NEW a \in Answers, back' = Queue(back, a), Val(a) = At(prev_psn', una)
        PROVE  BackOrder'
    <3>1. /\ \A k \in 1..Len(Queue(back, a)) :
               (k \in 1..Len(back) /\ Queue(back, a)[k] = back[k]) \/ Queue(back, a)[k] = a
          /\ \A j, k \in 1..Len(Queue(back, a)) :
               j < k => Val(Queue(back, a)[j]) <= Val(Queue(back, a)[k])
      BY <2>1, <2>3, <2>4, SortedQueue
    <3>2. At(prev_psn', una) <= At(prev_psn', una)
      BY <1>6
    <3>3. \A k \in 1..Len(Queue(back, a)) : Val(Queue(back, a)[k]) <= At(prev_psn', una)
      BY <3>1, <3>2, <2>3, <2>4
    <3>. QED
      BY <3>1, <3>3, <2>4, <1>1 DEF BackOrder, Val
  <2>. QED
    BY <2>4, <1>4
<1>. QED
  BY <1>13, <1>14, <1>15, <1>16, <1>17, <1>18 DEF BInv

\* Every step keeps the invariant.
LEMMA StepInv ==
    ASSUME Comparable
    PROVE  BInv /\ [Next]_vars => BInv'
<1>. SUFFICES ASSUME BInv, [Next]_vars PROVE BInv'
  OBVIOUS
<1>1. CASE UNCHANGED vars
  BY <1>1 DEF vars, rootVars, recvVars, regVars, BInv, TypeOK, LinkTypes, Counters, DownLag,
              UpOrder, RegOrder, BackOrder, Val
<1>2. CASE Send
  BY <1>2, SendStep
<1>3. CASE Timeout
  BY <1>3, TimeoutStep
<1>4. CASE RootReceive
  BY <1>4, RootReceiveStep
<1>5. CASE LoseBack \/ \E r \in Receiver : LoseUp(r)
  BY <1>5, LoseStep
<1>6. ASSUME NEW r \in Receiver, Receive(r) PROVE BInv'
  BY <1>6, ReceiveStep
<1>7. ASSUME NEW r \in Receiver, Merge(r) PROVE BInv'
  BY <1>7, MergeStep
<1>. QED
  BY <1>1, <1>2, <1>3, <1>4, <1>5, <1>6, <1>7 DEF Next

-----------------------------------------------------------------------------
(* The theorems. *)

\* The chain of numbers from the root's oldest packet to what the receivers
\* have got is never broken, whatever is lost, repeated or late.
THEOREM BroadcastInvariance ==
    ASSUME Comparable
    PROVE  Spec => []BInv
  BY InitInv, StepInv, PTL DEF Spec

\* What broadcast_ack_egress has gathered in psn, and promised in prev_psn, has
\* been received.
THEOREM MergedAnswersSound ==
    ASSUME Comparable
    PROVE  Spec => []MergedIsReceived
<1>1. BInv => MergedIsReceived
  <2>. SUFFICES ASSUME BInv PROVE MergedIsReceived
    OBVIOUS
  <2>1. /\ una \in Int /\ psn \in 0..(PsnMod - 1) /\ prev_psn \in 0..(PsnMod - 1)
        /\ At(psn, una) \in Int /\ At(prev_psn, una) \in Int /\ hi \in Nat
        /\ \A r \in Receiver : epsn[r] \in Nat
    BY Ranges
  <2>2. \A r \in Receiver : At(prev_psn, una) < epsn[r] /\ epsn[r] <= hi /\ hi <= una + Window
    BY DEF BInv, RegOrder, Counters
  <2>3. \A r \in bitmap : At(psn, una) < epsn[r] /\ r \in Receiver
    BY DEF BInv, RegOrder, TypeOK
  <2>4. Receiver # {}
    BY BroadcastAssumption
  <2>5. At(prev_psn, una) < una + Window
    BY <2>1, <2>2, <2>4, HalfCircle
  <2>6. Near(prev_psn, una) = At(prev_psn, una)
    BY <2>1, <2>5, NearIsAt
  <2>7. ASSUME bitmap # {} PROVE Near(psn, una) = At(psn, una)
    <3>1. At(psn, una) < una + Window
      BY <2>1, <2>2, <2>3, <2>7, HalfCircle
    <3>. QED
      BY <3>1, <2>1, NearIsAt
  <2>. QED
    BY <2>2, <2>3, <2>6, <2>7 DEF BInv, MergedIsReceived
<1>. QED
  BY <1>1, BroadcastInvariance, PTL

\* The group of queue pairs behaves as one reliable broadcast: a packet is
\* complete at the root only after every receiver has got it, in order.
THEOREM BroadcastRefinement ==
    ASSUME Comparable
    PROVE  Spec => ImplementsBroadcast
<1>1. Init => Abstract!SpecInit
  BY DEF Init, Abstract!SpecInit
<1>2. BInv /\ BInv' /\ [Next]_vars => [Abstract!SpecNext]_(Abstract!specVars)
  <2>. SUFFICES ASSUME BInv, BInv', [Next]_vars
                PROVE  [Abstract!SpecNext]_(Abstract!specVars)
    OBVIOUS
  <2>1. CASE UNCHANGED vars \/ Send \/ Timeout \/ LoseBack \/ \E r \in Receiver : LoseUp(r) \/ Merge(r)
    BY <2>1 DEF vars, rootVars, recvVars, Send, Timeout, LoseBack, LoseUp, Merge, Abstract!specVars
  <2>2. CASE RootReceive
    <3>1. una \in Nat /\ una' \in Nat /\ una <= una' /\ UNCHANGED epsn
      BY <2>2, Ranges, RootReceiveEffect
    <3>2. una' \in 0..N /\ \A r \in Receiver : una' <= epsn'[r]
      BY DEF BInv, TypeOK, Counters
    <3>3. CASE una' = una
      BY <3>1, <3>3 DEF Abstract!specVars
    <3>4. CASE una' > una
      <4>1. Abstract!Complete(una')
        BY <3>1, <3>2, <3>4 DEF Abstract!Complete
      <4>. QED
        BY <4>1, <3>2 DEF Abstract!SpecNext
    <3>. QED
      BY <3>1, <3>3, <3>4
  <2>3. ASSUME NEW r \in Receiver, Receive(r)
        PROVE  [Abstract!SpecNext]_(Abstract!specVars)
    <3>1. PICK e \in Nat : /\ epsn' = [epsn EXCEPT ![r] = e] /\ e <= hi
                           /\ e = epsn[r] \/ e = epsn[r] + 1
      BY <2>3, ReceiveEffect
    <3>2. UNCHANGED una /\ epsn[r] \in Nat /\ hi \in Nat /\ hi <= N /\ epsn \in [Receiver -> 0..N]
      BY <2>3, Ranges DEF Receive, rootVars, BInv, TypeOK
    <3>3. CASE e = epsn[r]
      <4>1. epsn' = epsn
        BY <3>1, <3>2, <3>3
      <4>. QED
        BY <4>1, <3>2 DEF Abstract!specVars
    <3>4. CASE e = epsn[r] + 1
      <4>1. epsn[r] < N
        BY <3>1, <3>2, <3>4, HalfCircle
      <4>2. epsn' = [epsn EXCEPT ![r] = @ + 1]
        BY <3>1, <3>4
      <4>3. Abstract!Deliver(r)
        BY <4>1, <4>2, <3>2 DEF Abstract!Deliver
      <4>. QED
        BY <4>3 DEF Abstract!SpecNext
    <3>. QED
      BY <3>1, <3>3, <3>4
  <2>. QED
    BY <2>1, <2>2, <2>3 DEF Next
<1>. QED
  BY <1>1, <1>2, BroadcastInvariance, PTL DEF Spec, ImplementsBroadcast, Abstract!SafeSpec
=============================================================================
