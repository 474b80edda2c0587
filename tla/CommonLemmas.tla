--------------------------- MODULE CommonLemmas ---------------------------
(***************************************************************************)
(* Arithmetic on a circle of n numbers, which the sequence numbers of the  *)
(* packets (n = 2^24) and the slots of a group (n = W) rest on, what is    *)
(* where in a queue after an arrival or a departure, sums over finite      *)
(* sets, and prefixes of lists.                                            *)
(***************************************************************************)
EXTENDS Integers, Sequences, SequencesExt, FiniteSets, FiniteSetsExt, Functions,
        WellFoundedInduction, FiniteSetTheorems, SequenceTheorems, TLAPS

\* A number is its quotient times n plus its remainder.
LEMMA DivMod ==
    ASSUME NEW n \in Nat \ {0}, NEW a \in Int
    PROVE  /\ a = n * (a \div n) + (a % n)
           /\ a % n \in 0..(n - 1)
           /\ a \div n \in Int
  OBVIOUS

\* The remainder is the only one.
LEMMA ModUnique ==
    ASSUME NEW n \in Nat \ {0}, NEW q \in Int, NEW r \in 0..(n - 1)
    PROVE  (n * q + r) % n = r
  OBVIOUS

\* A positive multiple of n is at least n.
LEMMA MultipleBound ==
    ASSUME NEW n \in Nat, NEW q \in Int, q >= 1
    PROVE  n * q >= n
<1>1. q = 1 + (q - 1) /\ q - 1 \in Nat
  OBVIOUS
<1>2. n * (q - 1) \in Nat
  BY <1>1
<1>3. n * q = n + n * (q - 1)
  BY <1>1
<1>. QED
  BY <1>2, <1>3

\* Different numbers at the same place of the circle are n apart.
LEMMA SameModApart ==
    ASSUME NEW n \in Nat \ {0}, NEW a \in Int, NEW b \in Int,
           a % n = b % n, a < b
    PROVE  a + n <= b
<1>. DEFINE p == a \div n
            q == b \div n
<1>1. a = n * p + (a % n) /\ b = n * q + (b % n) /\ p \in Int /\ q \in Int
      /\ a % n \in Int /\ b % n \in Int
  BY DivMod
<1>. HIDE DEF p, q
<1>2. b - a = n * (q - p)
  BY <1>1
<1>3. q - p >= 1
  <2>1. SUFFICES ASSUME q - p <= 0 PROVE FALSE
    BY <1>1
  <2>2. n * (p - q) \in Nat
    BY <2>1, <1>1
  <2>3. n * (q - p) = -(n * (p - q))
    BY <1>1
  <2>. QED
    BY <2>2, <2>3, <1>2
<1>4. n * (q - p) >= n
  BY <1>1, <1>3, MultipleBound
<1>. QED
  BY <1>2, <1>4

\* Whole turns of the circle change nothing.
LEMMA ModAddMultiple ==
    ASSUME NEW n \in Nat \ {0}, NEW a \in Int, NEW k \in Int
    PROVE  (a + n * k) % n = a % n
<1>. DEFINE q == a \div n
            r == a % n
<1>1. a = n * q + r /\ q \in Int /\ r \in 0..(n - 1)
  BY DivMod
<1>. HIDE DEF q, r
<1>2. a + n * k = n * (q + k) + r
  BY <1>1
<1>3. (n * (q + k) + r) % n = r
  BY <1>1, ModUnique
<1>4. (a + n * k) % n = r
  BY <1>2, <1>3
<1>. QED
  BY <1>4 DEF r

\* Reducing modulo a multiple of n first changes nothing.
LEMMA ModOfMod ==
    ASSUME NEW n \in Nat \ {0}, NEW k \in Nat \ {0}, NEW m \in Nat \ {0}, m = k * n, NEW a \in Int
    PROVE  (a % m) % n = a % n
<1>. DEFINE q == a \div m
            r == a % m
<1>1. a = m * q + r /\ q \in Int /\ r \in 0..(m - 1)
  BY DivMod
<1>. HIDE DEF q, r
<1>2. k * q \in Int /\ (k * n) * q = n * (k * q)
  BY <1>1
<1>. DEFINE kq == k * q
<1>. HIDE DEF kq
<1>3. a = r + n * kq /\ kq \in Int
  BY <1>1, <1>2 DEF kq
<1>4. r \in Int
  BY <1>1
<1>5. (r + n * kq) % n = r % n
  BY <1>3, <1>4, ModAddMultiple
<1>. QED
  BY <1>3, <1>5 DEF r

\* The distance of two numbers on the circle is the remainder of their difference.
LEMMA CircularDistance ==
    ASSUME NEW n \in Nat \ {0}, NEW a \in Int, NEW b \in Int
    PROVE  ((a % n) - (b % n)) % n = (a - b) % n
<1>. DEFINE p == a \div n
            q == b \div n
            c == a % n
            d == b % n
<1>1. a = n * p + c /\ b = n * q + d /\ p \in Int /\ q \in Int /\ c \in Int /\ d \in Int
  BY DivMod
<1>. HIDE DEF p, q, c, d
<1>2. a - b = (c - d) + n * (p - q)
  BY <1>1
<1>3. c - d \in Int /\ p - q \in Int
  BY <1>1
<1>4. ((c - d) + n * (p - q)) % n = (c - d) % n
  BY <1>3, ModAddMultiple
<1>. QED
  BY <1>2, <1>4 DEF c, d

\* A number below n is its own remainder.
LEMMA SmallMod ==
    ASSUME NEW n \in Nat \ {0}, NEW a \in 0..(n - 1)
    PROVE  a % n = a
  OBVIOUS

\* Going back a steps is going n - a steps forward.
LEMMA NegativeMod ==
    ASSUME NEW n \in Nat \ {0}, NEW a \in 1..n
    PROVE  (-a) % n = n - a \/ a = n
<1>1. (n * (-1) + (n - a)) % n = n - a \/ a = n
  BY ModUnique
<1>. QED
  BY <1>1

\* One step back on the circle.
LEMMA ModBack ==
    ASSUME NEW n \in Nat \ {0}, n > 1, NEW a \in Int
    PROVE  ((a % n) - 1) % n = (a - 1) % n
<1>. DEFINE one == 1
<1>1. one \in Int /\ one \in 0..(n - 1)
  OBVIOUS
<1>. HIDE DEF one
<1>2. one % n = one
  BY <1>1, SmallMod
<1>3. ((a % n) - (one % n)) % n = (a - one) % n
  BY <1>1, CircularDistance
<1>4. ((a % n) - one) % n = (a - one) % n
  BY <1>2, <1>3
<1>. QED
  BY <1>4 DEF one

-----------------------------------------------------------------------------
(* Queues. *)

\* Without its head, a queue has everything one place further to the front.
LEMMA TailAt ==
    ASSUME NEW S, NEW q \in Seq(S), q # << >>
    PROVE  /\ Tail(q) \in Seq(S) /\ Head(q) \in S /\ Head(q) = q[1]
           /\ Len(q) \in Nat /\ Len(Tail(q)) = Len(q) - 1 /\ 1 \in 1..Len(q)
           /\ \A j \in 1..Len(Tail(q)) : j + 1 \in 1..Len(q) /\ Tail(q)[j] = q[j + 1]
<1>1. Len(q) \in Nat /\ Len(q) > 0 /\ Head(q) = q[1] /\ Head(q) \in S /\ Tail(q) \in Seq(S)
  OBVIOUS
<1>2. Len(Tail(q)) = Len(q) - 1
  OBVIOUS
<1>3. \A j \in 1..(Len(q) - 1) : Tail(q)[j] = q[j + 1]
  OBVIOUS
<1>4. \A j \in 1..Len(Tail(q)) : j + 1 \in 1..Len(q) /\ Tail(q)[j] = q[j + 1]
  BY <1>1, <1>2, <1>3
<1>. QED
  BY <1>1, <1>2, <1>4

\* A new element is the last one, and the others stay where they are.
LEMMA AppendAt ==
    ASSUME NEW S, NEW q \in Seq(S), NEW x \in S
    PROVE  /\ Append(q, x) \in Seq(S) /\ Len(q) \in Nat /\ Len(Append(q, x)) = Len(q) + 1
           /\ Append(q, x)[Len(q) + 1] = x
           /\ \A j \in 1..Len(q) : Append(q, x)[j] = q[j]
           /\ \A j \in 1..Len(Append(q, x)) : j \in 1..Len(q) \/ j = Len(q) + 1
<1>1. Append(q, x) \in Seq(S) /\ Len(q) \in Nat /\ Len(Append(q, x)) = Len(q) + 1
  OBVIOUS
<1>2. Append(q, x)[Len(q) + 1] = x
  OBVIOUS
<1>3. \A j \in 1..Len(q) : Append(q, x)[j] = q[j]
  OBVIOUS
<1>4. \A j \in 1..(Len(q) + 1) : j \in 1..Len(q) \/ j = Len(q) + 1
  BY <1>1
<1>. QED
  BY <1>1, <1>2, <1>3, <1>4

\* The elements of a queue without repetitions: its head is none of the rest.
LEMMA ToSetTail ==
    ASSUME NEW S, NEW q \in Seq(S), q # << >>, IsInjective(q)
    PROVE  /\ ToSet(q) = ToSet(Tail(q)) \cup {Head(q)} /\ Head(q) \notin ToSet(Tail(q))
           /\ IsInjective(Tail(q))
<1>1. /\ Len(q) \in Nat /\ 1 \in 1..Len(q) /\ Head(q) = q[1] /\ Len(Tail(q)) = Len(q) - 1
      /\ \A j \in 1..Len(Tail(q)) : j + 1 \in 1..Len(q) /\ Tail(q)[j] = q[j + 1]
  BY TailAt
<1>2. DOMAIN q = 1..Len(q) /\ DOMAIN Tail(q) = 1..Len(Tail(q))
  BY TailAt
<1>3. \A i \in 1..Len(q) : i = 1 \/ (i - 1 \in 1..Len(Tail(q)) /\ i = (i - 1) + 1)
  BY <1>1
<1>4. ToSet(q) \subseteq ToSet(Tail(q)) \cup {Head(q)}
  <2>1. ASSUME NEW i \in 1..Len(q) PROVE q[i] \in ToSet(Tail(q)) \cup {Head(q)}
    <3>1. CASE i = 1
      BY <3>1, <1>1
    <3>2. CASE i - 1 \in 1..Len(Tail(q)) /\ i = (i - 1) + 1
      <4>1. Tail(q)[i - 1] = q[i]
        BY <3>2, <1>1
      <4>. QED
        BY <4>1, <3>2, <1>2 DEF ToSet
    <3>. QED
      BY <3>1, <3>2, <1>3
  <2>. QED
    BY <2>1, <1>2 DEF ToSet
<1>5. ToSet(Tail(q)) \subseteq ToSet(q) /\ Head(q) \in ToSet(q)
  BY <1>1, <1>2 DEF ToSet
<1>6. \A j \in 1..Len(Tail(q)) : j + 1 # 1
  OBVIOUS
<1>7. Head(q) \notin ToSet(Tail(q))
  BY <1>1, <1>2, <1>6 DEF ToSet, IsInjective
<1>8. \A i, j \in 1..Len(Tail(q)) : i + 1 = j + 1 => i = j
  OBVIOUS
<1>9. IsInjective(Tail(q))
  BY <1>1, <1>2, <1>8 DEF IsInjective
<1>. QED
  BY <1>4, <1>5, <1>7, <1>9

\* A new element keeps a queue without repetitions.
LEMMA ToSetAppend ==
    ASSUME NEW S, NEW q \in Seq(S), NEW x \in S, x \notin ToSet(q), IsInjective(q)
    PROVE  ToSet(Append(q, x)) = ToSet(q) \cup {x} /\ IsInjective(Append(q, x))
<1>. DEFINE a == Append(q, x)
<1>1. /\ Len(q) \in Nat /\ Len(a) = Len(q) + 1 /\ a[Len(q) + 1] = x
      /\ \A j \in 1..Len(q) : a[j] = q[j]
      /\ \A j \in 1..Len(a) : j \in 1..Len(q) \/ j = Len(q) + 1
  BY AppendAt
<1>2. DOMAIN q = 1..Len(q) /\ DOMAIN a = 1..Len(a)
  BY AppendAt
<1>3. 1..Len(q) \subseteq 1..Len(a) /\ Len(q) + 1 \in 1..Len(a)
  BY <1>1
<1>. HIDE DEF a
<1>4. ToSet(a) = ToSet(q) \cup {x}
  BY <1>1, <1>2, <1>3 DEF ToSet
<1>5. \A j \in 1..Len(q) : a[j] # x
  BY <1>1, <1>2 DEF ToSet
<1>6. IsInjective(a)
  BY <1>1, <1>2, <1>5 DEF IsInjective
<1>. QED
  BY <1>4, <1>6 DEF a

\* A part of a sequence.
LEMMA SubSeqAt ==
    ASSUME NEW S, NEW q \in Seq(S), NEW i \in 1..(Len(q) + 1), NEW j \in (i - 1)..Len(q)
    PROVE  /\ SubSeq(q, i, j) \in Seq(S) /\ Len(q) \in Nat /\ Len(SubSeq(q, i, j)) = j - i + 1
           /\ \A k \in 1..(j - i + 1) : i + k - 1 \in 1..Len(q) /\ SubSeq(q, i, j)[k] = q[i + k - 1]
<1>1. Len(q) \in Nat /\ i \in Int /\ j \in Int /\ 1 <= i /\ i <= Len(q) + 1 /\ i - 1 <= j /\ j <= Len(q)
  OBVIOUS
<1>2. \A k \in i..j : q[k] \in S
  BY <1>1
<1>3. SubSeq(q, i, j) \in Seq(S) /\ Len(SubSeq(q, i, j)) = j - i + 1
  BY <1>1, <1>2
<1>4. \A k \in 1..(j - i + 1) : SubSeq(q, i, j)[k] = q[i + k - 1]
  BY <1>1
<1>5. \A k \in 1..(j - i + 1) : i + k - 1 \in 1..Len(q)
  BY <1>1
<1>. QED
  BY <1>1, <1>3, <1>4, <1>5

\* A sequence followed by another one.
LEMMA ConcatAt ==
    ASSUME NEW S, NEW q \in Seq(S), NEW t \in Seq(S)
    PROVE  /\ q \o t \in Seq(S) /\ Len(q) \in Nat /\ Len(t) \in Nat /\ Len(q \o t) = Len(q) + Len(t)
           /\ \A k \in 1..Len(q) : (q \o t)[k] = q[k]
           /\ \A k \in 1..Len(t) : (q \o t)[Len(q) + k] = t[k]
           /\ \A k \in 1..Len(q \o t) : k \in 1..Len(q) \/ (k - Len(q) \in 1..Len(t) /\ k = Len(q) + (k - Len(q)))
<1>1. q \o t \in Seq(S) /\ Len(q) \in Nat /\ Len(t) \in Nat /\ Len(q \o t) = Len(q) + Len(t)
  OBVIOUS
<1>2. \A k \in 1..Len(q) : (q \o t)[k] = q[k]
  OBVIOUS
<1>3. \A k \in 1..Len(t) : (q \o t)[Len(q) + k] = t[k]
  OBVIOUS
<1>4. \A k \in 1..(Len(q) + Len(t)) : k \in 1..Len(q) \/ (k - Len(q) \in 1..Len(t) /\ k = Len(q) + (k - Len(q)))
  BY <1>1
<1>. QED
  BY <1>1, <1>2, <1>3, <1>4

\* The elements of two sequences without repetitions and without common
\* elements, one behind the other.
LEMMA ToSetConcat ==
    ASSUME NEW S, NEW q \in Seq(S), NEW t \in Seq(S), IsInjective(q), IsInjective(t),
           ToSet(q) \cap ToSet(t) = {}
    PROVE  ToSet(q \o t) = ToSet(q) \cup ToSet(t) /\ IsInjective(q \o t)
<1>. DEFINE a == q \o t
            n == Len(q)
<1>1. /\ a \in Seq(S) /\ n \in Nat /\ Len(t) \in Nat /\ Len(a) = n + Len(t)
      /\ \A k \in 1..n : a[k] = q[k]
      /\ \A k \in 1..Len(t) : a[n + k] = t[k]
      /\ \A k \in 1..Len(a) : k \in 1..n \/ (k - n \in 1..Len(t) /\ k = n + (k - n))
  BY ConcatAt
<1>2. DOMAIN q = 1..n /\ DOMAIN t = 1..Len(t) /\ DOMAIN a = 1..Len(a)
  BY <1>1
<1>3. (\A k \in 1..n : k \in 1..Len(a)) /\ \A k \in 1..Len(t) : n + k \in 1..Len(a)
  BY <1>1
<1>. HIDE DEF a, n
<1>4. ToSet(a) \subseteq ToSet(q) \cup ToSet(t)
  <2>1. ASSUME NEW k \in 1..Len(a) PROVE a[k] \in ToSet(q) \cup ToSet(t)
    <3>1. CASE k \in 1..n
      BY <3>1, <1>1, <1>2 DEF ToSet
    <3>2. CASE k - n \in 1..Len(t) /\ k = n + (k - n)
      <4>1. a[k] = t[k - n]
        BY <3>2, <1>1
      <4>. QED
        BY <4>1, <3>2, <1>2 DEF ToSet
    <3>. QED
      BY <3>1, <3>2, <1>1
  <2>. QED
    BY <2>1, <1>2 DEF ToSet
<1>5. ToSet(q) \cup ToSet(t) \subseteq ToSet(a)
  <2>1. \A k \in 1..n : q[k] \in ToSet(a)
    BY <1>1, <1>2, <1>3 DEF ToSet
  <2>2. ASSUME NEW k \in 1..Len(t) PROVE t[k] \in ToSet(a)
    <3>1. a[n + k] = t[k] /\ n + k \in DOMAIN a
      BY <1>1, <1>2, <1>3
    <3>. QED
      BY <3>1 DEF ToSet
  <2>. QED
    BY <2>1, <2>2, <1>2 DEF ToSet
<1>6. ASSUME NEW i \in 1..Len(a), NEW j \in 1..Len(a), a[i] = a[j] PROVE i = j
  <2>1. CASE i \in 1..n /\ j \in 1..n
    BY <2>1, <1>1, <1>2, <1>6 DEF IsInjective
  <2>2. CASE i \notin 1..n /\ j \notin 1..n
    <3>1. i - n \in 1..Len(t) /\ j - n \in 1..Len(t) /\ i = n + (i - n) /\ j = n + (j - n)
      BY <2>2, <1>1
    <3>2. t[i - n] = t[j - n]
      BY <3>1, <1>1, <1>6
    <3>3. i - n = j - n
      BY <3>1, <3>2, <1>2 DEF IsInjective
    <3>. QED
      BY <3>1, <3>3
  <2>3. ASSUME NEW x \in 1..n, NEW y \in 1..Len(a), y \notin 1..n PROVE a[x] # a[y]
    <3>1. y - n \in 1..Len(t) /\ y = n + (y - n)
      BY <2>3, <1>1
    <3>2. a[x] = q[x] /\ a[y] = t[y - n]
      BY <3>1, <1>1
    <3>3. q[x] \in ToSet(q) /\ t[y - n] \in ToSet(t)
      BY <3>1, <1>2 DEF ToSet
    <3>. QED
      BY <3>2, <3>3
  <2>. QED
    BY <2>1, <2>2, <2>3, <1>6
<1>7. IsInjective(a)
  BY <1>2, <1>6 DEF IsInjective
<1>. QED
  BY <1>4, <1>5, <1>7 DEF a

\* A sequence without repetitions, cut in two.
LEMMA ToSetCut ==
    ASSUME NEW S, NEW q \in Seq(S), IsInjective(q), NEW n \in 0..Len(q)
    PROVE  LET x == SubSeq(q, 1, n)
               y == SubSeq(q, n + 1, Len(q))
           IN  /\ x \in Seq(S) /\ y \in Seq(S) /\ Len(x) = n
               /\ IsInjective(x) /\ IsInjective(y)
               /\ ToSet(x) \cap ToSet(y) = {} /\ ToSet(q) = ToSet(x) \cup ToSet(y)
<1>. DEFINE x == SubSeq(q, 1, n)
            y == SubSeq(q, n + 1, Len(q))
            one == 1
            top == n + 1
            len == Len(q)
<1>0. len \in Nat /\ n \in Nat /\ n <= len /\ q \in Seq(S) /\ DOMAIN q = 1..len
  OBVIOUS
<1>1. one \in 1..(len + 1) /\ n \in (one - 1)..len /\ top \in 1..(len + 1) /\ len \in (top - 1)..len
  BY <1>0
<1>. HIDE DEF one, top
<1>2. /\ SubSeq(q, one, n) \in Seq(S) /\ Len(SubSeq(q, one, n)) = n - one + 1
      /\ \A k \in 1..(n - one + 1) : one + k - 1 \in 1..len /\ SubSeq(q, one, n)[k] = q[one + k - 1]
  BY <1>1, SubSeqAt
<1>3. /\ SubSeq(q, top, len) \in Seq(S) /\ Len(SubSeq(q, top, len)) = len - top + 1
      /\ \A k \in 1..(len - top + 1) : top + k - 1 \in 1..len /\ SubSeq(q, top, len)[k] = q[top + k - 1]
  BY <1>1, SubSeqAt
<1>4. /\ x \in Seq(S) /\ Len(x) = n /\ DOMAIN x = 1..n
      /\ \A k \in 1..n : k \in 1..len /\ x[k] = q[k]
  BY <1>0, <1>2 DEF one
<1>5. /\ y \in Seq(S) /\ DOMAIN y = 1..(len - n)
      /\ \A k \in 1..(len - n) : n + k \in 1..len /\ y[k] = q[n + k]
  <2>1. y = SubSeq(q, top, len)
    BY DEF top
  <2>. HIDE DEF y
  <2>2. len - top + 1 = len - n /\ \A k \in 1..(len - n) : k \in Int /\ top + k - 1 = n + k
    BY <1>0 DEF top
  <2>. HIDE DEF len
  <2>3. \A k \in 1..(len - n) : n + k \in 1..len /\ y[k] = q[n + k]
    BY <1>3, <2>1, <2>2
  <2>. QED
    BY <1>3, <2>1, <2>2, <2>3
<1>6. \A k \in 1..len : k \in 1..n \/ (k - n \in 1..(len - n) /\ k = n + (k - n))
  BY <1>0
<1>. HIDE DEF x, y, len
<1>7. IsInjective(x)
  BY <1>0, <1>4 DEF IsInjective
<1>8. IsInjective(y)
  <2>. SUFFICES ASSUME NEW i \in DOMAIN y, NEW j \in DOMAIN y, y[i] = y[j] PROVE i = j
    BY DEF IsInjective
  <2>1. i \in Int /\ j \in Int /\ n \in Int
    BY <1>0, <1>5
  <2>2. n + i \in DOMAIN q /\ n + j \in DOMAIN q /\ q[n + i] = q[n + j]
    BY <1>0, <1>5
  <2>3. n + i = n + j
    BY <2>2, Zenon DEF IsInjective
  <2>. QED
    BY <2>1, <2>3
<1>9. ToSet(x) \cap ToSet(y) = {}
  <2>1. ASSUME NEW i \in 1..n, NEW j \in 1..(len - n), x[i] = y[j] PROVE FALSE
    <3>1. q[i] = q[n + j] /\ i \in 1..len /\ n + j \in 1..len
      BY <2>1, <1>4, <1>5
    <3>2. i = n + j
      BY <3>1, <1>0 DEF IsInjective
    <3>. QED
      BY <3>2, <1>0
  <2>. QED
    BY <2>1, <1>4, <1>5 DEF ToSet
<1>10. ToSet(q) \subseteq ToSet(x) \cup ToSet(y)
  <2>1. ASSUME NEW k \in 1..len PROVE q[k] \in ToSet(x) \cup ToSet(y)
    <3>1. CASE k \in 1..n
      BY <3>1, <1>4 DEF ToSet
    <3>2. CASE k - n \in 1..(len - n) /\ k = n + (k - n)
      <4>1. y[k - n] = q[k]
        BY <3>2, <1>5
      <4>. QED
        BY <4>1, <3>2, <1>5 DEF ToSet
    <3>. QED
      BY <3>1, <3>2, <1>6
  <2>. QED
    BY <2>1, <1>0 DEF ToSet
<1>11. ToSet(x) \cup ToSet(y) \subseteq ToSet(q)
  <2>1. \A k \in 1..n : x[k] \in ToSet(q)
    BY <1>0, <1>4 DEF ToSet
  <2>2. ASSUME NEW k \in 1..(len - n) PROVE y[k] \in ToSet(q)
    <3>1. y[k] = q[n + k] /\ n + k \in DOMAIN q
      BY <1>0, <1>5
    <3>. QED
      BY <3>1 DEF ToSet
  <2>. QED
    BY <2>1, <2>2, <1>4, <1>5 DEF ToSet
<1>. QED
  BY <1>4, <1>5, <1>7, <1>8, <1>9, <1>10, <1>11 DEF x, y, len

-----------------------------------------------------------------------------
(* Least elements. *)

\* A set of naturals has a least element.
LEMMA LeastNat ==
    ASSUME NEW I, I \subseteq Nat, I # {}
    PROVE  Min(I) \in I /\ \A i \in I : Min(I) <= i
<1>. DEFINE R == {ss \in Nat \X Nat : ss[1] < ss[2]}
<1>1. IsWellFoundedOn(R, Nat)
  BY NatLessThanWellFounded DEF OpToRel
<1>2. PICK x \in I : \A y \in I : <<y, x>> \notin R
  BY <1>1, WFMin
<1>3. ASSUME NEW y \in I PROVE x <= y
  <2>1. x \in Nat /\ y \in Nat /\ <<y, x>> \in Nat \X Nat /\ <<y, x>>[1] = y /\ <<y, x>>[2] = x
    OBVIOUS
  <2>2. ~(y < x)
    BY <1>2, <2>1
  <2>. QED
    BY <2>1, <2>2
<1>. QED
  BY <1>3 DEF Min

---------------------------------------------------------------------------
(* Multiples, and the greatest of a set of numbers. *)

\* The quotient is the only one.
LEMMA DivUnique ==
    ASSUME NEW n \in Nat \ {0}, NEW q \in Int, NEW r \in 0 .. n - 1
    PROVE  (n * q + r) \div n = q
<1>. DEFINE a == n * q + r
            p == a \div n
            s == a % n
<1>1. n * q \in Int
  OBVIOUS
<1>2. a \in Int
  BY <1>1
<1>3. a = n * p + s /\ p \in Int
  BY <1>2, DivMod
<1>4. s = r
  BY ModUnique
<1>5. a = n * q + r
  OBVIOUS
<1>. HIDE DEF p, s, a
<1>6. n * p = n * q
  <2>1. n * p \in Int
    BY <1>3
  <2>. QED
    BY <1>1, <1>3, <1>4, <1>5, <2>1
<1>7. p = q
  <2>1. CASE p >= q + 1
    <3>1. n * (p - q) >= n
      BY <2>1, <1>3, MultipleBound
    <3>2. n * (p - q) = n * p - n * q
      BY <1>3
    <3>. QED
      BY <3>1, <3>2, <1>6, <1>1
  <2>2. CASE q >= p + 1
    <3>1. n * (q - p) >= n
      BY <2>2, <1>3, MultipleBound
    <3>2. n * (q - p) = n * q - n * p
      BY <1>3
    <3>. QED
      BY <3>1, <3>2, <1>6, <1>1
  <2>. QED
    BY <2>1, <2>2, <1>3
<1>. QED
  BY <1>7 DEF p, a

\* Order of products.
LEMMA TimesOrder ==
    ASSUME NEW n \in Nat \ {0}, NEW a \in Int, NEW b \in Int
    PROVE  (a < b <=> n * a < n * b) /\ (a <= b <=> n * a <= n * b) /\ (n * a = n * b => a = b)
<1>1. n * a \in Int /\ n * b \in Int
  OBVIOUS
<1>2. ASSUME NEW x \in Int, NEW y \in Int, x < y PROVE n * x < n * y
  <2>1. n * (y - x) >= n
    BY <1>2, MultipleBound
  <2>2. n * (y - x) = n * y - n * x /\ n * x \in Int /\ n * y \in Int
    OBVIOUS
  <2>. QED
    BY <2>1, <2>2
<1>. QED
  BY <1>1, <1>2

\* A bounded set of numbers has a greatest element.
LEMMA GreatestNat ==
    ASSUME NEW S, S \subseteq Nat, S # {}, NEW b \in Nat, \A x \in S : x <= b
    PROVE  Max(S) \in S /\ \A x \in S : x <= Max(S)
<1>. DEFINE D == {b - x : x \in S}
<1>1. \A x \in S : x \in Nat /\ b - x \in Nat
  OBVIOUS
<1>2. D \subseteq Nat /\ D # {}
  BY <1>1
<1>. DEFINE d == Min(D)
<1>3. d \in D /\ \A y \in D : d <= y
  BY <1>2, LeastNat
<1>. HIDE DEF d
<1>4. PICK z \in S : d = b - z
  BY <1>3
<1>5. ASSUME NEW x \in S PROVE z >= x
  <2>1. b - z <= b - x /\ x \in Nat /\ z \in Nat
    BY <1>1, <1>3, <1>4
  <2>. QED
    BY <2>1
<1>6. Max(S) \in S /\ \A y \in S : Max(S) >= y
  BY <1>4, <1>5 DEF Max
<1>7. \A y \in S : y \in Nat /\ Max(S) \in Nat
  BY <1>6
<1>. QED
  BY <1>6, <1>7

---------------------------------------------------------------------------
(* Sums over finite sets. *)

\* The element that the fold takes first.
Pick(s) == CHOOSE x \in s : TRUE

\* The equation of the fold behind SumFunctionOnSet, for function f on the
\* subsets in D.
SumEquation(g, D, f) == f = [s \in D |-> IF s = {} THEN 0 ELSE g[Pick(s)] + f[s \ {Pick(s)}]]

\* f adds up g over every subset of S.
Solves(g, S, f) == SumEquation(g, SUBSET S, f)

\* One picked element less makes a nonempty set smaller by one.
LEMMA SmallSubsets ==
    ASSUME NEW S, IsFiniteSet(S), NEW k \in Nat, NEW s \in SUBSET S, Cardinality(s) <= k, s # {}
    PROVE  /\ Pick(s) \in s /\ s \ {Pick(s)} \in SUBSET S /\ k # 0
           /\ Cardinality(s \ {Pick(s)}) = Cardinality(s) - 1 /\ Cardinality(s) \in Nat \ {0}
           /\ Cardinality(s \ {Pick(s)}) <= k - 1
<1>1. Pick(s) \in s
  BY DEF Pick
<1>2. IsFiniteSet(s) /\ Cardinality(s) \in Nat
  BY FS_Subset, FS_CardinalityType
<1>3. Cardinality(s) # 0
  BY <1>2, FS_EmptySet
<1>4. Cardinality(s \ {Pick(s)}) = Cardinality(s) - 1
  BY <1>1, <1>2, FS_RemoveElement
<1>. QED
  BY <1>1, <1>2, <1>3, <1>4

\* The equation has a solution.
LEMMA SumSolution ==
    ASSUME NEW g, NEW S, IsFiniteSet(S)
    PROVE  \E f : SumEquation(g, SUBSET S, f)
<1>. DEFINE D(k) == {s \in SUBSET S : Cardinality(s) <= k}
            Good(k) == \E f : SumEquation(g, D(k), f)
            N == Cardinality(S)
            bad == {k \in Nat : ~Good(k)}
<1>1. N \in Nat
  BY FS_CardinalityType
<1>2. D(N) = SUBSET S
  BY FS_Subset, FS_CardinalityType
<1>3. Good(0)
  <2>. DEFINE f == [s \in D(0) |-> 0]
  <2>1. ASSUME NEW s \in D(0) PROVE s = {}
    <3>1. IsFiniteSet(s) /\ Cardinality(s) \in Nat
      BY FS_Subset, FS_CardinalityType
    <3>. QED
      BY <3>1, FS_EmptySet
  <2>2. SumEquation(g, D(0), f)
    BY <2>1 DEF SumEquation
  <2>. QED
    BY <2>2
<1>4. ASSUME NEW k \in Nat, Good(k) PROVE Good(k + 1)
  <2>1. PICK f : SumEquation(g, D(k), f)
    BY <1>4
  <2>. DEFINE h == [s \in D(k + 1) |-> IF s = {} THEN 0 ELSE g[Pick(s)] + f[s \ {Pick(s)}]]
  <2>2. ASSUME NEW s \in D(k + 1), s # {}
        PROVE  s \ {Pick(s)} \in D(k) /\ s \ {Pick(s)} \in D(k + 1)
    <3>1. s \ {Pick(s)} \in SUBSET S /\ Cardinality(s \ {Pick(s)}) \in Int /\ Cardinality(s \ {Pick(s)}) <= k + 1 - 1
      BY <2>2, SmallSubsets
    <3>. QED
      BY <3>1
  <2>3. ASSUME NEW s \in D(k) PROVE s \in D(k + 1) /\ h[s] = f[s]
    <3>1. s \in D(k + 1)
      <4>1. Cardinality(s) \in Nat
        BY FS_Subset, FS_CardinalityType
      <4>. QED
        BY <4>1
    <3>2. f[s] = IF s = {} THEN 0 ELSE g[Pick(s)] + f[s \ {Pick(s)}]
      BY <2>1 DEF SumEquation
    <3>. QED
      BY <3>1, <3>2
  <2>4. SumEquation(g, D(k + 1), h)
    <3>. HIDE DEF D
    <3>1. \A s \in D(k + 1) : h[s] = IF s = {} THEN 0 ELSE g[Pick(s)] + h[s \ {Pick(s)}]
      BY <2>2, <2>3
    <3>. QED
      BY <3>1 DEF SumEquation
  <2>. QED
    BY <2>4
<1>5. bad = {}
  <2>. HIDE DEF Good
  <2>1. SUFFICES ASSUME bad # {} PROVE FALSE
    OBVIOUS
  <2>2. Min(bad) \in bad /\ \A i \in bad : Min(bad) <= i
    BY <2>1, LeastNat
  <2>3. PICK m \in Nat : m \in bad /\ \A i \in bad : m <= i
    BY <2>2
  <2>4. m # 0
    BY <2>3, <1>3
  <2>5. m - 1 \in Nat /\ m - 1 \notin bad /\ m - 1 + 1 = m
    BY <2>3, <2>4
  <2>6. Good(m - 1)
    BY <2>5
  <2>. QED
    BY <2>3, <2>5, <2>6, <1>4
<1>. QED
  BY <1>1, <1>2, <1>5

\* The sum is a solution of the equation, at the whole set.
LEMMA SumIsFold ==
    ASSUME NEW g, NEW S, IsFiniteSet(S)
    PROVE  \E f : Solves(g, S, f) /\ SumFunctionOnSet(g, S) = f[S]
<1>. DEFINE f == CHOOSE f : f = [s \in SUBSET S |-> IF s = {} THEN 0 ELSE g[CHOOSE x \in s : TRUE] + f[s \ {CHOOSE x \in s : TRUE}]]
<1>1. SumFunctionOnSet(g, S) = f[S]
  BY Zenon DEF SumFunctionOnSet, FoldFunctionOnSet, MapThenFoldSet
<1>2. \E h : h = [s \in SUBSET S |-> IF s = {} THEN 0 ELSE g[CHOOSE x \in s : TRUE] + h[s \ {CHOOSE x \in s : TRUE}]]
  <2>1. PICK h : SumEquation(g, SUBSET S, h)
    BY SumSolution
  <2>. QED
    BY <2>1, Zenon DEF SumEquation, Pick
<1>3. f = [s \in SUBSET S |-> IF s = {} THEN 0 ELSE g[CHOOSE x \in s : TRUE] + f[s \ {CHOOSE x \in s : TRUE}]]
  BY <1>2, Zenon
<1>. HIDE DEF f
<1>4. Solves(g, S, f)
  BY <1>3, Zenon DEF Solves, SumEquation, Pick
<1>. QED
  BY <1>1, <1>4

\* Induction over the naturals, for the set B of those that have a property.
LEMMA NatsBy ==
    ASSUME NEW B, 0 \in B, \A n \in Nat : n \in B => n + 1 \in B
    PROVE  Nat \subseteq B
<1>. DEFINE bad == Nat \ B
<1>1. SUFFICES ASSUME bad # {} PROVE FALSE
  OBVIOUS
<1>2. Min(bad) \in bad /\ \A i \in bad : Min(bad) <= i
  BY <1>1, LeastNat
<1>3. PICK m \in Nat : m \in bad /\ \A i \in bad : m <= i
  BY <1>2
<1>4. m # 0
  BY <1>3
<1>5. m - 1 \in Nat /\ m - 1 \notin bad /\ m - 1 + 1 = m
  BY <1>3, <1>4
<1>. QED
  BY <1>3, <1>5

\* Induction over a finite set, for the set B of subsets that have a property.
LEMMA SubsetsBy ==
    ASSUME NEW S, IsFiniteSet(S), NEW B, {} \in B,
           \A s \in SUBSET S : \A x \in s : s \ {x} \in B => s \in B
    PROVE  S \in B
<1>. DEFINE C == {k \in Nat : \A s \in SUBSET S : Cardinality(s) <= k => s \in B}
<1>0. ASSUME NEW s \in SUBSET S PROVE IsFiniteSet(s) /\ Cardinality(s) \in Nat
  BY FS_Subset, FS_CardinalityType
<1>1. 0 \in C
  <2>1. ASSUME NEW s \in SUBSET S, Cardinality(s) <= 0 PROVE s = {}
    BY <2>1, <1>0, FS_EmptySet
  <2>. QED
    BY <2>1
<1>2. ASSUME NEW k \in Nat, k \in C PROVE k + 1 \in C
  <2>1. ASSUME NEW s \in SUBSET S, Cardinality(s) <= k + 1, s # {} PROVE s \in B
    <3>1. PICK x : x \in s
      BY <2>1
    <3>2. Cardinality(s \ {x}) = Cardinality(s) - 1
      BY <3>1, <1>0, FS_RemoveElement
    <3>3. s \ {x} \in SUBSET S
      OBVIOUS
    <3>4. Cardinality(s \ {x}) <= k
      BY <2>1, <3>2, <1>0
    <3>5. s \ {x} \in B
      BY <3>3, <3>4, <1>2
    <3>. QED
      BY <3>1, <3>5
  <2>2. \A s \in SUBSET S : Cardinality(s) <= k + 1 => s \in B
    BY <2>1
  <2>. QED
    BY <2>2
<1>3. Nat \subseteq C
  <2>. HIDE DEF C
  <2>. QED
    BY <1>1, <1>2, NatsBy
<1>4. Cardinality(S) \in C
  BY <1>0, <1>3
<1>. QED
  BY <1>0, <1>4

\* Where two functions agree, so do solutions of their equations.
LEMMA SumAgree ==
    ASSUME NEW g, NEW h, NEW S, IsFiniteSet(S), NEW T \in SUBSET S, \A x \in T : g[x] = h[x],
           NEW f, Solves(g, S, f), NEW e, Solves(h, T, e)
    PROVE  f[T] = e[T]
<1>. DEFINE C == {k \in Nat : \A s \in SUBSET T : Cardinality(s) <= k => f[s] = e[s]}
<1>a. ASSUME NEW s \in SUBSET T PROVE IsFiniteSet(s) /\ Cardinality(s) \in Nat
  BY FS_Subset, FS_CardinalityType
<1>0. ASSUME NEW s \in SUBSET T
      PROVE  /\ IsFiniteSet(s) /\ Cardinality(s) \in Nat
             /\ f[s] = IF s = {} THEN 0 ELSE g[Pick(s)] + f[s \ {Pick(s)}]
             /\ e[s] = IF s = {} THEN 0 ELSE h[Pick(s)] + e[s \ {Pick(s)}]
  <2>1. s \in SUBSET S
    OBVIOUS
  <2>. QED
    BY <2>1, FS_Subset, FS_CardinalityType DEF Solves, SumEquation
<1>1. 0 \in C
  <2>1. ASSUME NEW s \in SUBSET T, Cardinality(s) <= 0 PROVE s = {}
    <3>1. IsFiniteSet(s) /\ Cardinality(s) = 0
      BY <2>1, <1>a
    <3>. QED
      BY <3>1, FS_EmptySet
  <2>. QED
    BY <2>1, <1>0
<1>2. ASSUME NEW k \in Nat, k \in C PROVE k + 1 \in C
  <2>0. \A s \in SUBSET T : s = {} => f[s] = e[s]
    BY <1>0
  <2>1. SUFFICES ASSUME NEW s \in SUBSET T, Cardinality(s) <= k + 1, s # {} PROVE f[s] = e[s]
    BY <2>0
  <2>2. /\ Pick(s) \in s /\ s \ {Pick(s)} \in SUBSET T /\ Cardinality(s \ {Pick(s)}) <= k + 1 - 1
    BY <2>1, FS_Subset, SmallSubsets
  <2>3. f[s \ {Pick(s)}] = e[s \ {Pick(s)}]
    BY <1>2, <2>2
  <2>. QED
    BY <1>0, <2>1, <2>2, <2>3
<1>3. Nat \subseteq C
  <2>. HIDE DEF C
  <2>. QED
    BY <1>1, <1>2, NatsBy
<1>4. IsFiniteSet(T) /\ Cardinality(T) \in Nat
  BY FS_Subset, FS_CardinalityType
<1>. QED
  BY <1>3, <1>4

\* A sum depends on the summands only.
LEMMA SumSame ==
    ASSUME NEW g, NEW h, NEW S, IsFiniteSet(S), \A x \in S : g[x] = h[x]
    PROVE  SumFunctionOnSet(g, S) = SumFunctionOnSet(h, S)
<1>1. PICK f : Solves(g, S, f) /\ SumFunctionOnSet(g, S) = f[S]
  BY SumIsFold
<1>2. PICK e : Solves(h, S, e) /\ SumFunctionOnSet(h, S) = e[S]
  BY SumIsFold
<1>. QED
  <2>1. S \in SUBSET S
    OBVIOUS
  <2>2. f[S] = e[S]
    <3>1. /\ Solves(g, S, f) /\ Solves(h, S, e) /\ S \in SUBSET S
          /\ \A x \in S : g[x] = h[x]
      BY <1>1, <1>2
    <3>. QED
      BY <3>1, SumAgree
  <2>. QED
    BY <1>1, <1>2, <2>2

\* What the fold does.
LEMMA SumPicked ==
    ASSUME NEW g, NEW S, IsFiniteSet(S)
    PROVE  /\ S = {} => SumFunctionOnSet(g, S) = 0
           /\ S # {} => /\ Pick(S) \in S
                        /\ SumFunctionOnSet(g, S) = g[Pick(S)] + SumFunctionOnSet(g, S \ {Pick(S)})
<1>1. PICK f : Solves(g, S, f) /\ SumFunctionOnSet(g, S) = f[S]
  BY SumIsFold
<1>2. f[S] = IF S = {} THEN 0 ELSE g[Pick(S)] + f[S \ {Pick(S)}]
  BY <1>1 DEF Solves, SumEquation
<1>3. S # {} => Pick(S) \in S
  BY DEF Pick
<1>4. SumFunctionOnSet(g, S \ {Pick(S)}) = f[S \ {Pick(S)}]
  <2>1. IsFiniteSet(S \ {Pick(S)}) /\ S \ {Pick(S)} \in SUBSET S
    BY FS_Subset
  <2>2. PICK e : Solves(g, S \ {Pick(S)}, e) /\ SumFunctionOnSet(g, S \ {Pick(S)}) = e[S \ {Pick(S)}]
    BY <2>1, SumIsFold
  <2>. DEFINE T == S \ {Pick(S)}
  <2>3. T \in SUBSET S /\ Solves(g, T, e) /\ SumFunctionOnSet(g, T) = e[T]
    BY <2>2
  <2>. HIDE DEF T
  <2>4. f[T] = e[T]
    <3>0. PICK h : h = g
      OBVIOUS
    <3>1. /\ Solves(g, S, f) /\ Solves(h, T, e) /\ T \in SUBSET S
          /\ \A x \in T : g[x] = h[x]
      BY <1>1, <2>3, <3>0
    <3>. QED
      BY <3>1, SumAgree
  <2>5. SumFunctionOnSet(g, T) = f[T]
    BY <2>3, <2>4
  <2>. QED
    BY <2>5 DEF T
<1>. QED
  BY <1>1, <1>2, <1>3, <1>4

\* The order does not matter.
LEMMA SumRemove ==
    ASSUME NEW g, NEW S, IsFiniteSet(S), \A x \in S : g[x] \in Int
    PROVE  /\ SumFunctionOnSet(g, S) \in Int
           /\ \A x \in S : SumFunctionOnSet(g, S) = g[x] + SumFunctionOnSet(g, S \ {x})
<1>. DEFINE Sum(s) == SumFunctionOnSet(g, s)
            Ok(s) == Sum(s) \in Int /\ \A x \in s : Sum(s) = g[x] + Sum(s \ {x})
            C == {k \in Nat : \A s \in SUBSET S : Cardinality(s) <= k => Ok(s)}
<1>a. ASSUME NEW s \in SUBSET S PROVE IsFiniteSet(s) /\ Cardinality(s) \in Nat
  BY FS_Subset, FS_CardinalityType
<1>0. ASSUME NEW s \in SUBSET S
      PROVE  /\ IsFiniteSet(s) /\ Cardinality(s) \in Nat
             /\ s = {} => Sum(s) = 0
             /\ s # {} => Pick(s) \in s /\ Sum(s) = g[Pick(s)] + Sum(s \ {Pick(s)})
  <2>1. IsFiniteSet(s)
    BY FS_Subset
  <2>. QED
    BY <2>1, FS_CardinalityType, SumPicked
<1>. HIDE DEF Sum
<1>1. 0 \in C
  <2>1. ASSUME NEW s \in SUBSET S, Cardinality(s) <= 0 PROVE Ok(s)
    <3>1. IsFiniteSet(s) /\ Cardinality(s) = 0
      BY <2>1, <1>a
    <3>2. s = {}
      BY <3>1, FS_EmptySet
    <3>3. Sum(s) = 0
      BY <3>2, <1>0
    <3>. QED
      BY <3>2, <3>3
  <2>. HIDE DEF Ok
  <2>. QED
    BY <2>1
<1>2. ASSUME NEW k \in Nat, k \in C PROVE k + 1 \in C
  <2>1. SUFFICES ASSUME NEW s \in SUBSET S, Cardinality(s) <= k + 1, s # {} PROVE Ok(s)
    BY <1>0
  <2>2. ASSUME NEW x \in s PROVE s \ {x} \in SUBSET S /\ Ok(s \ {x})
    <3>1. Cardinality(s \ {x}) = Cardinality(s) - 1
      BY <1>0, FS_RemoveElement
    <3>2. s \ {x} \in SUBSET S
      OBVIOUS
    <3>3. Cardinality(s \ {x}) <= k
      BY <2>1, <3>1, <1>a
    <3>. HIDE DEF Ok
    <3>. QED
      BY <3>2, <3>3, <1>2
  <2>. DEFINE y == Pick(s)
  <2>3. y \in s /\ y \in S /\ g[y] \in Int /\ Sum(s) = g[y] + Sum(s \ {y}) /\ Ok(s \ {y})
    BY <1>0, <2>1, <2>2
  <2>4. Sum(s) \in Int
    BY <2>3
  <2>. HIDE DEF y
  <2>5. ASSUME NEW x \in s, x # y PROVE Sum(s) = g[x] + Sum(s \ {x})
    <3>1. x \in s \ {y} /\ y \in s \ {x} /\ (s \ {y}) \ {x} = (s \ {x}) \ {y} /\ g[x] \in Int
      BY <2>3, <2>5
    <3>2. Sum(s \ {y}) = g[x] + Sum((s \ {y}) \ {x}) /\ Sum(s \ {y}) \in Int
      BY <3>1, <2>3
    <3>3. Sum(s \ {x}) = g[y] + Sum((s \ {x}) \ {y}) /\ Sum(s \ {x}) \in Int
      BY <3>1, <2>2
    <3>4. Sum((s \ {x}) \ {y}) \in Int
      <4>. DEFINE t == (s \ {x}) \ {y}
      <4>1. Sum(s \ {x}) = g[y] + Sum(t) /\ t \in SUBSET S
        BY <3>3
      <4>2. Sum(t) \in Int
        <5>1. Cardinality(s \ {x}) = Cardinality(s) - 1 /\ IsFiniteSet(s \ {x})
          BY <1>0, FS_RemoveElement, FS_Subset
        <5>2. Cardinality(t) = Cardinality(s \ {x}) - 1
          BY <3>1, <5>1, FS_RemoveElement
        <5>3. Cardinality(t) <= k
          BY <5>1, <5>2, <2>1, <1>a
        <5>4. Ok(t)
          <6>. HIDE DEF Ok, t
          <6>. QED
            BY <5>3, <4>1, <1>2
        <5>. QED
          BY <5>4
      <4>. QED
        BY <4>2
    <3>. QED
      BY <3>1, <3>2, <3>3, <3>4, <2>3
  <2>. QED
    BY <2>3, <2>4, <2>5
<1>3. Nat \subseteq C
  <2>. HIDE DEF C
  <2>. QED
    BY <1>1, <1>2, NatsBy
<1>4. Ok(S)
  <2>1. S \in SUBSET S /\ Cardinality(S) \in Nat
    BY <1>0
  <2>. HIDE DEF Ok
  <2>. QED
    BY <2>1, <1>3
<1>. QED
  BY <1>4 DEF Sum

\* The sum over two disjoint sets.
LEMMA SumUnion ==
    ASSUME NEW g, NEW A, NEW B, IsFiniteSet(A), IsFiniteSet(B), A \cap B = {},
           \A x \in A \cup B : g[x] \in Int
    PROVE  SumFunctionOnSet(g, A \cup B) = SumFunctionOnSet(g, A) + SumFunctionOnSet(g, B)
<1>. DEFINE Sum(s) == SumFunctionOnSet(g, s)
            C == {s \in SUBSET B : Sum(A \cup s) = Sum(A) + Sum(s)}
<1>0. ASSUME NEW s \in SUBSET B
      PROVE  /\ IsFiniteSet(s) /\ IsFiniteSet(A \cup s)
             /\ \A x \in s : g[x] \in Int
             /\ \A x \in A \cup s : g[x] \in Int
  BY FS_Subset, FS_Union
<1>1. Sum({}) = 0 /\ Sum(A) \in Int
  BY FS_EmptySet, SumPicked, SumRemove
<1>2. {} \in C
  <2>1. A \cup {} = A
    OBVIOUS
  <2>. HIDE DEF Sum
  <2>. QED
    BY <1>1, <2>1
<1>3. ASSUME NEW s \in SUBSET B, NEW x \in s, s \ {x} \in C PROVE s \in C
  <2>1. IsFiniteSet(s) /\ \A y \in s : g[y] \in Int
    BY <1>0
  <2>2. Sum(s) = g[x] + Sum(s \ {x}) /\ Sum(s) \in Int /\ g[x] \in Int
    BY <2>1, SumRemove
  <2>3. IsFiniteSet(A \cup s) /\ (\A y \in A \cup s : g[y] \in Int) /\ x \in A \cup s
    BY <1>0
  <2>4. Sum(A \cup s) = g[x] + Sum((A \cup s) \ {x})
    BY <2>3, SumRemove
  <2>5. (A \cup s) \ {x} = A \cup (s \ {x})
    OBVIOUS
  <2>6. Sum(s \ {x}) \in Int
    <3>1. s \ {x} \in SUBSET B
      OBVIOUS
    <3>2. IsFiniteSet(s \ {x}) /\ \A y \in s \ {x} : g[y] \in Int
      BY <3>1, <1>0
    <3>. QED
      BY <3>2, SumRemove
  <2>7. Sum(A \cup (s \ {x})) = Sum(A) + Sum(s \ {x})
    BY <1>3
  <2>8. Sum(A \cup s) = g[x] + (Sum(A) + Sum(s \ {x}))
    BY <2>4, <2>5, <2>7
  <2>. HIDE DEF Sum
  <2>9. Sum(A \cup s) = Sum(A) + Sum(s)
    BY <1>1, <2>2, <2>6, <2>8
  <2>. QED
    BY <2>9
<1>4. B \in C
  <2>1. \A s \in SUBSET B : \A x \in s : s \ {x} \in C => s \in C
    BY <1>3
  <2>. HIDE DEF C
  <2>. QED
    BY <1>2, <2>1, SubsetsBy
<1>. QED
  BY <1>4

\* A sum of naturals.
LEMMA SumNat ==
    ASSUME NEW g, NEW S, IsFiniteSet(S), \A x \in S : g[x] \in Nat
    PROVE  SumFunctionOnSet(g, S) \in Nat
<1>. DEFINE Sum(s) == SumFunctionOnSet(g, s)
            C == {s \in SUBSET S : Sum(s) \in Nat}
<1>1. {} \in C
  <2>1. Sum({}) = 0
    BY FS_EmptySet, SumPicked
  <2>. HIDE DEF Sum
  <2>. QED
    BY <2>1
<1>2. ASSUME NEW s \in SUBSET S, NEW x \in s, s \ {x} \in C PROVE s \in C
  <2>1. IsFiniteSet(s) /\ \A y \in s : g[y] \in Int
    BY FS_Subset
  <2>2. Sum(s) = g[x] + Sum(s \ {x})
    BY <2>1, SumRemove
  <2>3. g[x] \in Nat /\ Sum(s \ {x}) \in Nat
    BY <1>2
  <2>. HIDE DEF Sum
  <2>. QED
    BY <2>2, <2>3
<1>3. S \in C
  <2>. HIDE DEF C
  <2>. QED
    BY <1>1, <1>2, SubsetsBy
<1>. QED
  BY <1>3

---------------------------------------------------------------------------
(* Prefixes. *)

\* A prefix agrees with the list at every place.
LEMMA PrefixAt ==
    ASSUME NEW T, NEW s \in Seq(T), NEW t \in Seq(T)
    PROVE  IsPrefix(s, t) <=> Len(s) <= Len(t) /\ \A i \in 1 .. Len(s) : s[i] = t[i]
<1>1. CASE Len(s) <= Len(t)
  <2>1. Len(s) \in Nat /\ Len(t) \in Nat /\ Len(s) \in 0 .. Len(t)
    BY <1>1
  <2>2. SubSeq(s, 1, Len(s)) = s
    BY SubSeqFull
  <2>3. /\ SubSeq(t, 1, Len(s)) \in Seq(T) /\ Len(SubSeq(t, 1, Len(s))) = Len(s)
        /\ \A i \in 1 .. Len(s) : SubSeq(t, 1, Len(s))[i] = t[i]
    BY <2>1
  <2>. DEFINE u == SubSeq(t, 1, Len(s))
  <2>4. u = s <=> \A i \in 1 .. Len(s) : s[i] = t[i]
    <3>. HIDE DEF u
    <3>1. u \in Seq(T) /\ Len(u) = Len(s) /\ \A i \in 1 .. Len(s) : u[i] = t[i]
      BY <2>3 DEF u
    <3>2. ASSUME \A i \in 1 .. Len(s) : s[i] = t[i] PROVE u = s
      BY <3>1, <3>2, SeqEqual
    <3>. QED
      BY <3>1, <3>2
  <2>. QED
    BY <1>1, <2>2, <2>4 DEF IsPrefix
<1>2. CASE ~(Len(s) <= Len(t))
  BY <1>2 DEF IsPrefix
<1>. QED
  BY <1>1, <1>2

\* Prefixes are a partial order, in which the prefixes of a list form a chain.
LEMMA PrefixOrder ==
    ASSUME NEW T
    PROVE  /\ \A s \in Seq(T) : IsPrefix(s, s) /\ IsPrefix(<< >>, s)
           /\ \A s, t \in Seq(T) : IsPrefix(s, t) => Len(s) <= Len(t)
           /\ \A s, t \in Seq(T) : IsPrefix(s, t) /\ Len(t) <= Len(s) => s = t
           /\ \A s, t, u \in Seq(T) : IsPrefix(s, t) /\ IsPrefix(t, u) => IsPrefix(s, u)
           /\ \A s, t, u \in Seq(T) : IsPrefix(s, u) /\ IsPrefix(t, u) /\ Len(s) <= Len(t) => IsPrefix(s, t)
<1>1. ASSUME NEW s \in Seq(T) PROVE IsPrefix(s, s) /\ IsPrefix(<< >>, s)
  <2>1. << >> \in Seq(T) /\ Len(<< >>) = 0 /\ Len(s) \in Nat
    OBVIOUS
  <2>2. IsPrefix(s, s)
    BY <2>1, PrefixAt
  <2>. DEFINE e == << >>
  <2>3. e \in Seq(T) /\ Len(e) <= Len(s) /\ \A i \in 1 .. Len(e) : e[i] = s[i]
    BY <2>1
  <2>. HIDE DEF e
  <2>4. IsPrefix(e, s)
    BY <2>3, PrefixAt
  <2>. QED
    BY <2>2, <2>4 DEF e
<1>2. \A s, t \in Seq(T) : IsPrefix(s, t) => Len(s) <= Len(t)
  BY PrefixAt
<1>3. ASSUME NEW s \in Seq(T), NEW t \in Seq(T), IsPrefix(s, t), Len(t) <= Len(s) PROVE s = t
  <2>1. Len(s) = Len(t) /\ \A i \in 1 .. Len(s) : s[i] = t[i]
    BY <1>3, PrefixAt
  <2>. QED
    BY <2>1, SeqEqual
<1>4. ASSUME NEW s \in Seq(T), NEW t \in Seq(T), NEW u \in Seq(T), IsPrefix(s, t), IsPrefix(t, u)
      PROVE  IsPrefix(s, u)
  <2>1. /\ Len(s) <= Len(t) /\ \A i \in 1 .. Len(s) : s[i] = t[i]
        /\ Len(t) <= Len(u) /\ \A i \in 1 .. Len(t) : t[i] = u[i]
    BY <1>4, PrefixAt
  <2>2. Len(s) <= Len(u) /\ \A i \in 1 .. Len(s) : s[i] = u[i]
    BY <2>1
  <2>. QED
    BY <2>2, PrefixAt
<1>5. ASSUME NEW s \in Seq(T), NEW t \in Seq(T), NEW u \in Seq(T), IsPrefix(s, u), IsPrefix(t, u),
             Len(s) <= Len(t)
      PROVE  IsPrefix(s, t)
  <2>1. /\ \A i \in 1 .. Len(s) : s[i] = u[i]
        /\ \A i \in 1 .. Len(t) : t[i] = u[i]
    BY <1>5, PrefixAt
  <2>2. Len(s) <= Len(t) /\ \A i \in 1 .. Len(s) : s[i] = t[i]
    BY <1>5, <2>1
  <2>. QED
    BY <2>2, PrefixAt
<1>. QED
  BY <1>1, <1>2, <1>3, <1>4, <1>5

\* The first n elements of a list.
LEMMA PrefixCut ==
    ASSUME NEW T, NEW t \in Seq(T), NEW n \in 0 .. Len(t)
    PROVE  /\ SubSeq(t, 1, n) \in Seq(T) /\ Len(SubSeq(t, 1, n)) = n
           /\ IsPrefix(SubSeq(t, 1, n), t)
<1>1. /\ SubSeq(t, 1, n) \in Seq(T) /\ Len(SubSeq(t, 1, n)) = n
      /\ \A i \in 1 .. n : SubSeq(t, 1, n)[i] = t[i]
  OBVIOUS
<1>. DEFINE u == SubSeq(t, 1, n)
<1>2. u \in Seq(T) /\ Len(u) = n /\ n <= Len(t) /\ \A i \in 1 .. n : u[i] = t[i]
  BY <1>1
<1>. HIDE DEF u
<1>3. IsPrefix(u, t)
  BY <1>2, PrefixAt
<1>. QED
  BY <1>2, <1>3 DEF u

=============================================================================
