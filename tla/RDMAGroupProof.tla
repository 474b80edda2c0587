-------------------------- MODULE RDMAGroupProof --------------------------
(***************************************************************************)
(* The server library keeps its window, agrees with the other ranks on     *)
(* what every message carries, and returns a reduced buffer, for any       *)
(* number of ranks, sizes of the calls, packets, blocks, windows and       *)
(* queues.                                                                 *)
(*                                                                         *)
(* The argument: the place of block b of call c on a queue pair is known   *)
(* beforehand, it follows the messages of the calls before c, whatever the *)
(* pace of the completions; and a call begins when all messages of the     *)
(* calls before it have been polled.                                       *)
(***************************************************************************)
EXTENDS RDMAGroup, CommonLemmas, FiniteSetTheorems

\* Messages of call c on queue pair q.
Size(c, q) == IF q < QpNum(c) THEN TotalBlocks(c) ELSE 0

\* Messages of the calls 1..n on queue pair q, each a call and a block.
Earlier(n, q) == UNION {{c} \X (0..(Size(c, q) - 1)) : c \in 1..n}

\* How many there are.
Before(n, q) == Cardinality(Earlier(n, q))

\* The number of the message of block b of call c on queue pair q.
Place(c, b, q) == Before(c - 1, q) + b + 1

Piece == [call : Nat, first : Int, len : Int]

Types ==
    /\ pc \in [Rank -> {"out", "push", "poll"}]
    /\ call \in [Rank -> 0..Len(Calls)]
    /\ scnt \in [Rank -> Nat]
    /\ tx_depth \in [Rank -> [QP -> Nat]]
    /\ posted \in [Rank -> [QP -> Seq(Piece)]]
    /\ done \in [Rank -> [QP -> Nat]]
    /\ polled \in [Rank -> [QP -> Nat]]

\* How much has been posted where in the calls a rank is.
Progress ==
    \A r \in Rank :
      IF call[r] = 0
      THEN pc[r] = "out" /\ \A q \in QP : posted[r][q] = << >>
      ELSE /\ scnt[r] <= TotalBlocks(call[r])
           /\ pc[r] = "out" => scnt[r] = TotalBlocks(call[r])
           /\ \A q \in QP : Len(posted[r][q]) =
                Before(call[r] - 1, q) + (IF q < QpNum(call[r]) THEN scnt[r] ELSE 0)

\* The queues; at the start of a call everything has been polled.
Depths ==
    \A r \in Rank, q \in QP :
      /\ polled[r][q] <= done[r][q] /\ done[r][q] <= Len(posted[r][q])
      /\ tx_depth[r][q] <= MaxQueueSize
      /\ pc[r] = "out" => polled[r][q] = Len(posted[r][q])
      /\ pc[r] # "out" => tx_depth[r][q] = Len(posted[r][q]) - polled[r][q]
      /\ call[r] # 0 => Before(call[r] - 1, q) <= polled[r][q]

\* A message has its place.
Layout ==
    \A r \in Rank, q \in QP : \A c \in 1..Len(Calls) : \A b \in 0..(Size(c, q) - 1) :
        Place(c, b, q) <= Len(posted[r][q]) => posted[r][q][Place(c, b, q)] = Message(c, b, q)

\* And there are no others.
Placed ==
    \A r \in Rank, q \in QP : \A k \in 1..Len(posted[r][q]) :
        \E c \in 1..call[r] : \E b \in 0..(Size(c, q) - 1) : k = Place(c, b, q)

GInv == Types /\ Progress /\ Depths /\ Layout /\ Placed

-----------------------------------------------------------------------------
(* The layout of the calls. *)

\* The sizes are numbers, and a call uses one or two queue pairs.
LEMMA CallNumbers ==
    ASSUME NEW c \in 1..Len(Calls)
    PROVE  /\ Packets(c) \in Nat /\ QpNum(c) \in 1..2
           /\ MergedBlock(c) = QpNum(c) * Block /\ MergedBlock(c) \in Nat \ {0}
           /\ TotalBlocks(c) \in Nat
<1>1. Mtu \in Nat \ {0} /\ Block \in Nat \ {0} /\ Calls[c] \in Nat
  BY ConfigAssumption
<1>2. Packets(c) \in Nat
  <2>1. Calls[c] + Mtu - 1 \in Nat
    BY <1>1
  <2>. QED
    BY <2>1, <1>1 DEF Packets
<1>3. QpNum(c) = 1 \/ QpNum(c) = 2
  BY DEF QpNum
<1>4. MergedBlock(c) = QpNum(c) * Block /\ MergedBlock(c) \in Nat \ {0}
  BY <1>1, <1>3 DEF MergedBlock
<1>5. Packets(c) + MergedBlock(c) - 1 \in Nat
  BY <1>2, <1>4
<1>6. TotalBlocks(c) \in Nat
  BY <1>4, <1>5 DEF TotalBlocks
<1>. QED
  BY <1>2, <1>3, <1>4, <1>6

\* The messages are counted call by call.
LEMMA BeforeCount ==
    ASSUME NEW q \in QP
    PROVE  /\ Before(0, q) = 0
           /\ \A n \in 0..Len(Calls) : Before(n, q) \in Nat
           /\ \A n \in 1..Len(Calls) : Before(n, q) = Before(n - 1, q) + Size(n, q)
           /\ \A n, m \in 0..Len(Calls) : n <= m => Before(n, q) <= Before(m, q)
<1>. DEFINE M(c) == {c} \X (0..(Size(c, q) - 1))
            F == [c \in 1..Len(Calls) |-> M(c)]
<1>0. Len(Calls) \in Nat
  BY ConfigAssumption
<1>1. ASSUME NEW c \in 1..Len(Calls)
      PROVE  IsFiniteSet(M(c)) /\ Cardinality(M(c)) = Size(c, q) /\ Size(c, q) \in Nat
  <2>1. Size(c, q) \in Nat
    BY CallNumbers DEF Size
  <2>. DEFINE a == 0
              z == Size(c, q) - 1
  <2>2. a \in Int /\ z \in Int /\ (IF a > z THEN 0 ELSE z - a + 1) = Size(c, q)
    BY <2>1
  <2>. HIDE DEF a, z
  <2>3. IsFiniteSet(a..z) /\ Cardinality(a..z) = Size(c, q)
    BY <2>2, FS_Interval
  <2>4. IsFiniteSet({c}) /\ Cardinality({c}) = 1
    BY FS_Singleton
  <2>5. IsFiniteSet({c} \X (a..z)) /\ Cardinality({c} \X (a..z)) = 1 * Size(c, q)
    BY <2>3, <2>4, FS_Product, ZenonT(30)
  <2>. QED
    BY <2>1, <2>5 DEF a, z
<1>2. Before(0, q) = 0
  <2>1. Earlier(0, q) = {}
    BY DEF Earlier
  <2>. QED
    BY <2>1, FS_EmptySet DEF Before
<1>3. ASSUME NEW n \in 0..Len(Calls) PROVE IsFiniteSet(Earlier(n, q)) /\ Before(n, q) \in Nat
  <2>. DEFINE I == 1..n
              Ms == {M(c) : c \in I}
  <2>1. IsFiniteSet(I)
    BY <1>0, FS_Interval
  <2>2. IsFiniteSet(Ms)
    <3>. DEFINE f == [c \in I |-> M(c)]
    <3>1. f \in Surjection(I, Ms)
      BY DEF Surjection
    <3>. HIDE DEF f, I, Ms
    <3>. QED
      BY <3>1, <2>1, FS_Surjection
  <2>3. \A x \in Ms : IsFiniteSet(x)
    BY <1>0, <1>1
  <2>4. IsFiniteSet(UNION Ms)
    BY <2>2, <2>3, FS_UNION
  <2>. QED
    BY <2>4, FS_CardinalityType DEF Earlier, Before
<1>4. ASSUME NEW n \in 1..Len(Calls) PROVE Before(n, q) = Before(n - 1, q) + Size(n, q)
  <2>1. n - 1 \in 0..Len(Calls)
    BY <1>0
  <2>2. Earlier(n, q) = Earlier(n - 1, q) \cup M(n)
    <3>1. 1..n = (1..(n - 1)) \cup {n}
      OBVIOUS
    <3>. QED
      BY <3>1 DEF Earlier
  <2>3. Earlier(n - 1, q) \cap M(n) = {}
    BY DEF Earlier
  <2>4. IsFiniteSet(Earlier(n - 1, q)) /\ Before(n - 1, q) \in Nat
    BY <2>1, <1>3
  <2>5. IsFiniteSet(M(n)) /\ Cardinality(M(n)) = Size(n, q)
    BY <1>1
  <2>. HIDE DEF M
  <2>6. Cardinality(Earlier(n - 1, q) \cup M(n)) = Cardinality(Earlier(n - 1, q)) + Cardinality(M(n))
    <3>. DEFINE E == Earlier(n - 1, q)
                N == M(n)
    <3>1. IsFiniteSet(E) /\ IsFiniteSet(N) /\ E \cap N = {} /\ Cardinality(E) \in Nat
      BY <2>3, <2>4, <2>5 DEF Before
    <3>2. Cardinality(N) \in Nat
      BY <3>1, FS_CardinalityType
    <3>. HIDE DEF E, N
    <3>3. Cardinality(E \cup N) = Cardinality(E) + Cardinality(N) - Cardinality(E \cap N)
      BY <3>1, FS_Union
    <3>4. Cardinality(E \cap N) = 0
      BY <3>1, FS_EmptySet
    <3>. QED
      BY <3>1, <3>2, <3>3, <3>4 DEF E, N
  <2>. QED
    BY <2>2, <2>5, <2>6 DEF Before
<1>5. ASSUME NEW n \in 0..Len(Calls), NEW m \in 0..Len(Calls), n <= m PROVE Before(n, q) <= Before(m, q)
  <2>1. 1..n \subseteq 1..m
    BY <1>5, <1>0
  <2>2. Earlier(n, q) \in SUBSET Earlier(m, q)
    BY <2>1 DEF Earlier
  <2>. QED
    BY <2>2, <1>3, FS_Subset DEF Before
<1>. QED
  BY <1>2, <1>3, <1>4, <1>5

\* A message is of its call, and of at most a block.
LEMMA MessageFits ==
    ASSUME NEW c \in 1..Len(Calls), NEW b \in Nat, NEW q \in QP
    PROVE  Message(c, b, q) \in Piece /\ Message(c, b, q).call = c /\ Message(c, b, q).len <= Block
<1>. DEFINE n == BlockSize(c, b)
<1>1. c \in Nat /\ Block \in Nat /\ b * MergedBlock(c) \in Nat
  BY CallNumbers, ConfigAssumption
<1>2. n \in Int /\ n <= QpNum(c) * Block
  BY <1>1, CallNumbers DEF BlockSize
<1>. HIDE DEF n
<1>3. \A o \in QP : SubSize(n, QpNum(c), o) \in Int /\ SubSize(n, QpNum(c), o) <= Block
  <2>1. CASE QpNum(c) = 1
    BY <2>1, <1>1, <1>2 DEF SubSize, QP
  <2>2. CASE QpNum(c) = 2
    BY <2>2, <1>1, <1>2 DEF SubSize, QP
  <2>. QED
    BY <2>1, <2>2, CallNumbers
<1>4. 0 \in QP
  BY DEF QP
<1>. DEFINE size(o) == SubSize(n, QpNum(c), o)
            before == IF q = 0 THEN 0 ELSE size(0)
<1>5. Message(c, b, q) = [call |-> c, first |-> b * MergedBlock(c) + before, len |-> size(q)]
  BY DEF Message, n
<1>6. size(q) \in Int /\ size(q) <= Block /\ b * MergedBlock(c) + before \in Int
  BY <1>1, <1>3, <1>4
<1>. HIDE DEF size, before
<1>. QED
  BY <1>1, <1>5, <1>6 DEF Piece

\* So many blocks fit the window.
LEMMA QueueFits ==
    /\ MaxQueueSize \in Nat /\ MaxQueueSize <= QueueDepth
    /\ \A n \in Nat : n <= MaxQueueSize => n * Block <= ServerWin
<1>. DEFINE m == ServerWin \div Block
<1>1. Block \in Nat \ {0} /\ QueueDepth \in Nat /\ ServerWin \in Nat
  BY ConfigAssumption DEF ServerWin
<1>2. m \in Nat /\ Block * m <= ServerWin
  BY <1>1
<1>. HIDE DEF m
<1>3. MaxQueueSize = IF QueueDepth < m THEN QueueDepth ELSE m
  BY DEF MaxQueueSize, m
<1>4. MaxQueueSize \in Nat /\ MaxQueueSize <= m /\ MaxQueueSize <= QueueDepth
  BY <1>1, <1>2, <1>3
<1>5. ASSUME NEW n \in Nat, n <= MaxQueueSize PROVE n * Block <= ServerWin
  <2>1. n <= m
    BY <1>2, <1>4, <1>5
  <2>2. n * Block <= m * Block /\ m * Block = Block * m /\ n * Block \in Nat /\ m * Block \in Nat
    BY <2>1, <1>1, <1>2
  <2>. QED
    BY <2>2, <1>1, <1>2
<1>. QED
  BY <1>4, <1>5

-----------------------------------------------------------------------------
(* The invariant holds at the start, and every step keeps it. *)

LEMMA InitInv == Init => GInv
<1>. SUFFICES ASSUME Init PROVE GInv
  OBVIOUS
<1>1. Types
  BY ConfigAssumption DEF Init, Types
<1>2. \A r \in Rank : call[r] = 0 /\ pc[r] = "out"
  BY DEF Init
<1>3. \A r \in Rank, q \in QP : posted[r][q] = << >> /\ done[r][q] = 0 /\ polled[r][q] = 0 /\ tx_depth[r][q] = 0
  BY DEF Init
<1>4. Progress
  BY <1>2, <1>3 DEF Progress
<1>5. Depths
  BY <1>2, <1>3, QueueFits DEF Depths
<1>6. Layout
  <2>. SUFFICES ASSUME NEW r \in Rank, NEW q \in QP, NEW c \in 1..Len(Calls), NEW b \in 0..(Size(c, q) - 1)
                PROVE  ~(Place(c, b, q) <= Len(posted[r][q]))
    BY DEF Layout
  <2>1. Before(c - 1, q) \in Nat
    <3>1. c - 1 \in 0..Len(Calls)
      BY ConfigAssumption
    <3>. QED
      BY <3>1, BeforeCount
  <2>2. Place(c, b, q) \in Nat \ {0}
    BY <2>1 DEF Place
  <2>3. Len(posted[r][q]) = 0
    BY <1>3
  <2>. QED
    BY <2>2, <2>3
<1>7. Placed
  BY <1>3 DEF Placed
<1>. QED
  BY <1>1, <1>4, <1>5, <1>6, <1>7 DEF GInv

\* The application calls allreduce.
LEMMA EnterStep ==
    ASSUME GInv, NEW r \in Rank, Enter(r)
    PROVE  GInv'
<1>. DEFINE c == call[r] + 1
<1>1. /\ pc[r] = "out" /\ pc' = [pc EXCEPT ![r] = "push"] /\ call' = [call EXCEPT ![r] = c]
      /\ scnt' = [scnt EXCEPT ![r] = 0] /\ tx_depth' = [tx_depth EXCEPT ![r] = [q \in QP |-> 0]]
      /\ UNCHANGED <<posted, done, polled>> /\ call[r] < Len(Calls)
  BY DEF Enter
<1>2. c \in 1..Len(Calls) /\ c - 1 = call[r] /\ c # 0 /\ call[r] \in 0..Len(Calls) /\ Len(Calls) \in Nat
  BY <1>1, ConfigAssumption DEF GInv, Types
<1>. HIDE DEF c
<1>3. Types'
  BY <1>1, <1>2 DEF GInv, Types
<1>4. /\ pc'[r] = "push" /\ call'[r] = c /\ scnt'[r] = 0 /\ \A q \in QP : tx_depth'[r][q] = 0
      /\ \A s \in Rank : s # r => /\ pc'[s] = pc[s] /\ call'[s] = call[s] /\ scnt'[s] = scnt[s]
                                  /\ tx_depth'[s] = tx_depth[s]
  BY <1>1 DEF GInv, Types
<1>5. ASSUME NEW q \in QP PROVE Len(posted[r][q]) = Before(call[r], q) /\ polled[r][q] = Len(posted[r][q])
  <2>1. polled[r][q] = Len(posted[r][q])
    BY <1>1 DEF GInv, Depths
  <2>2. CASE call[r] = 0
    BY <2>1, <2>2, BeforeCount DEF GInv, Progress
  <2>3. CASE call[r] # 0
    <3>1. call[r] \in 1..Len(Calls)
      BY <2>3, <1>2
    <3>2. Len(posted[r][q]) = Before(call[r] - 1, q) + Size(call[r], q)
      BY <2>3, <1>1 DEF GInv, Progress, Size
    <3>. QED
      BY <2>1, <3>1, <3>2, BeforeCount
  <2>. QED
    BY <2>2, <2>3
<1>6. Progress'
  <2>1. \A q \in QP : Before(c - 1, q) \in Nat
    BY <1>2, BeforeCount
  <2>2. TotalBlocks(c) \in Nat
    BY <1>2, CallNumbers
  <2>3. \A q \in QP : Len(posted[r][q]) = Before(c - 1, q) + (IF q < QpNum(c) THEN 0 ELSE 0)
    BY <2>1, <1>2, <1>5
  <2>. SUFFICES ASSUME NEW s \in Rank
                PROVE  IF call'[s] = 0
                       THEN pc'[s] = "out" /\ \A q \in QP : posted[s][q] = << >>
                       ELSE /\ scnt'[s] <= TotalBlocks(call'[s])
                            /\ pc'[s] = "out" => scnt'[s] = TotalBlocks(call'[s])
                            /\ \A q \in QP : Len(posted[s][q]) =
                                 Before(call'[s] - 1, q) + (IF q < QpNum(call'[s]) THEN scnt'[s] ELSE 0)
    BY <1>1 DEF Progress
  <2>4. CASE s = r
    BY <2>2, <2>3, <2>4, <1>2, <1>4
  <2>5. CASE s # r
    BY <2>5, <1>4 DEF GInv, Progress
  <2>. QED
    BY <2>4, <2>5
<1>7. Depths'
  <2>. SUFFICES ASSUME NEW s \in Rank, NEW q \in QP
                PROVE  /\ polled[s][q] <= done[s][q] /\ done[s][q] <= Len(posted[s][q])
                       /\ tx_depth'[s][q] <= MaxQueueSize
                       /\ pc'[s] = "out" => polled[s][q] = Len(posted[s][q])
                       /\ pc'[s] # "out" => tx_depth'[s][q] = Len(posted[s][q]) - polled[s][q]
                       /\ call'[s] # 0 => Before(call'[s] - 1, q) <= polled[s][q]
    BY <1>1 DEF Depths
  <2>1. CASE s = r
    <3>1. polled[r][q] = Before(c - 1, q) /\ polled[r][q] \in Nat /\ polled[r][q] = Len(posted[r][q])
      BY <1>2, <1>5 DEF GInv, Types
    <3>2. polled[r][q] <= done[r][q] /\ done[r][q] <= Len(posted[r][q])
      BY DEF GInv, Depths
    <3>. QED
      BY <2>1, <3>1, <3>2, <1>4, QueueFits
  <2>2. CASE s # r
    BY <2>2, <1>4 DEF GInv, Depths
  <2>. QED
    BY <2>1, <2>2
<1>8. Layout'
  BY <1>1 DEF GInv, Layout
<1>9. Placed'
  <2>1. ASSUME NEW s \in Rank PROVE 1..call[s] \subseteq 1..call'[s]
    BY <1>2, <1>4
  <2>. QED
    BY <2>1, <1>1 DEF GInv, Placed
<1>. QED
  BY <1>3, <1>6, <1>7, <1>8, <1>9 DEF GInv

\* A step that neither posts nor moves between calls: the queues alone change.
LEMMA QueueStep ==
    ASSUME GInv, UNCHANGED <<call, scnt, posted>>, Types', Depths',
           \A s \in Rank : pc'[s] = "out" <=> pc[s] = "out"
    PROVE  GInv'
<1>1. Progress'
  BY DEF GInv, Progress
<1>2. Layout' /\ Placed'
  BY DEF GInv, Layout, Placed
<1>. QED
  BY <1>1, <1>2 DEF GInv

\* At most one completion of each queue pair is polled.
LEMMA PollStep ==
    ASSUME GInv, NEW r \in Rank, Poll(r)
    PROVE  GInv'
<1>1. /\ pc[r] = "poll" /\ pc' = [pc EXCEPT ![r] = "push"] /\ UNCHANGED <<call, scnt, posted, done>>
      /\ tx_depth' = [tx_depth EXCEPT ![r] = [q \in QP |-> tx_depth[r][q] - PolledNow(r, q)]]
      /\ polled' = [polled EXCEPT ![r] = [q \in QP |-> polled[r][q] + PolledNow(r, q)]]
  BY DEF Poll
<1>2. ASSUME NEW s \in Rank, NEW q \in QP
      PROVE  /\ polled[s][q] \in Nat /\ done[s][q] \in Nat /\ tx_depth[s][q] \in Nat /\ Len(posted[s][q]) \in Nat
             /\ polled[s][q] <= done[s][q] /\ done[s][q] <= Len(posted[s][q])
  BY DEF GInv, Types, Depths
<1>3. ASSUME NEW q \in QP
      PROVE  /\ PolledNow(r, q) \in 0..1 /\ polled[r][q] + PolledNow(r, q) <= done[r][q]
             /\ tx_depth[r][q] = Len(posted[r][q]) - polled[r][q]
  BY <1>1, <1>2 DEF PolledNow, GInv, Depths
<1>4. \A q \in QP : tx_depth[r][q] - PolledNow(r, q) \in Nat /\ polled[r][q] + PolledNow(r, q) \in Nat
  BY <1>2, <1>3, SMTT(30)
<1>5. /\ pc'[r] = "push"
      /\ \A q \in QP : tx_depth'[r][q] = tx_depth[r][q] - PolledNow(r, q) /\ polled'[r][q] = polled[r][q] + PolledNow(r, q)
      /\ \A s \in Rank : s # r => pc'[s] = pc[s] /\ tx_depth'[s] = tx_depth[s] /\ polled'[s] = polled[s]
  BY <1>1 DEF GInv, Types
<1>6. Types'
  BY <1>1, <1>4 DEF GInv, Types
<1>7. Depths'
  <2>. SUFFICES ASSUME NEW s \in Rank, NEW q \in QP
                PROVE  /\ polled'[s][q] <= done[s][q] /\ done[s][q] <= Len(posted[s][q])
                       /\ tx_depth'[s][q] <= MaxQueueSize
                       /\ pc'[s] = "out" => polled'[s][q] = Len(posted[s][q])
                       /\ pc'[s] # "out" => tx_depth'[s][q] = Len(posted[s][q]) - polled'[s][q]
                       /\ call[s] # 0 => Before(call[s] - 1, q) <= polled'[s][q]
    BY <1>1 DEF Depths
  <2>1. CASE s = r
    <3>1. tx_depth[r][q] <= MaxQueueSize /\ MaxQueueSize \in Nat
      BY QueueFits DEF GInv, Depths
    <3>2. call[r] # 0 => Before(call[r] - 1, q) <= polled[r][q] /\ Before(call[r] - 1, q) \in Nat
      <4>1. call[r] # 0 => call[r] - 1 \in 0..Len(Calls)
        BY ConfigAssumption DEF GInv, Types
      <4>. QED
        BY <4>1, BeforeCount DEF GInv, Depths
    <3>. DEFINE k == PolledNow(r, q)
    <3>3. /\ k \in 0..1 /\ polled[r][q] + k <= done[r][q] /\ tx_depth[r][q] = Len(posted[r][q]) - polled[r][q]
          /\ polled'[s][q] = polled[r][q] + k /\ tx_depth'[s][q] = tx_depth[r][q] - k /\ pc'[s] = "push"
      BY <2>1, <1>3, <1>5
    <3>4. /\ polled[r][q] \in Nat /\ done[r][q] \in Nat /\ tx_depth[r][q] \in Nat /\ Len(posted[r][q]) \in Nat
          /\ done[r][q] <= Len(posted[r][q])
      BY <1>2
    <3>. HIDE DEF k
    <3>5. call[s] # 0 => Before(call[s] - 1, q) <= polled'[s][q]
      BY <2>1, <3>2, <3>3, <3>4
    <3>6. /\ polled'[s][q] <= done[r][q] /\ tx_depth'[s][q] <= MaxQueueSize
          /\ tx_depth'[s][q] = Len(posted[r][q]) - polled'[s][q]
      <4>1. \A p, t, l, x \in Nat : \A i \in 0..1 : t = l - p /\ t <= x => t - i <= x /\ t - i = l - (p + i)
        OBVIOUS
      <4>. QED
        BY <4>1, <3>1, <3>3, <3>4, SMTT(30)
    <3>. QED
      BY <2>1, <3>3, <3>4, <3>5, <3>6
  <2>2. CASE s # r
    BY <2>2, <1>5 DEF GInv, Depths
  <2>. QED
    BY <2>1, <2>2
<1>. QED
  BY <1>1, <1>5, <1>6, <1>7, QueueStep

\* The loop is through: everything is posted and polled.
LEMMA ReturnStep ==
    ASSUME GInv, NEW r \in Rank, Return(r)
    PROVE  GInv'
<1>1. /\ pc[r] = "push" /\ AllDone(r) /\ pc' = [pc EXCEPT ![r] = "out"]
      /\ UNCHANGED <<call, scnt, tx_depth, posted, done, polled>>
  BY DEF Return
<1>2. pc'[r] = "out" /\ \A s \in Rank : s # r => pc'[s] = pc[s]
  BY <1>1 DEF GInv, Types
<1>3. Types'
  BY <1>1 DEF GInv, Types
<1>4. scnt[r] = TotalBlocks(call[r]) /\ call[r] # 0
  BY <1>1 DEF AllDone, GInv, Progress
<1>5. \A q \in QP : polled[r][q] = Len(posted[r][q])
  <2>1. tx_depth[r][0] = 0 /\ tx_depth[r][1] = 0
    BY <1>1 DEF AllDone, CurrentDepth, GInv, Types, QP
  <2>2. \A q \in QP : tx_depth[r][q] = 0
    BY <2>1 DEF QP
  <2>. QED
    BY <2>2, <1>1 DEF GInv, Types, Depths
<1>6. Progress'
  BY <1>1, <1>2, <1>4 DEF GInv, Progress
<1>7. Depths'
  BY <1>1, <1>2, <1>5 DEF GInv, Depths
<1>8. Layout' /\ Placed'
  BY <1>1 DEF GInv, Layout, Placed
<1>. QED
  BY <1>3, <1>6, <1>7, <1>8 DEF GInv

\* A message completes, is flushed, or its queue pair goes to the error state.
LEMMA CardStep ==
    ASSUME GInv, NEW r \in Rank, NEW q \in QP, Complete(r, q) \/ Fail(r, q) \/ Flush(r, q)
    PROVE  GInv'
<1>1. /\ UNCHANGED <<pc, call, scnt, tx_depth, posted, polled>>
      /\ \/ UNCHANGED done
         \/ done' = [done EXCEPT ![r][q] = done[r][q] + 1] /\ done[r][q] + 1 <= Len(posted[r][q])
  <2>1. done[r][q] \in Nat /\ Len(posted[r][q]) \in Nat
    BY DEF GInv, Types
  <2>. QED
    BY <2>1 DEF Complete, Fail, Flush
<1>2. CASE UNCHANGED done
  <2>1. Types' /\ Depths'
    BY <1>1, <1>2 DEF GInv, Types, Depths
  <2>. QED
    BY <1>1, <2>1, QueueStep
<1>3. CASE done' = [done EXCEPT ![r][q] = done[r][q] + 1] /\ done[r][q] + 1 <= Len(posted[r][q])
  <2>1. done \in [Rank -> [QP -> Nat]]
    BY DEF GInv, Types
  <2>2. done' \in [Rank -> [QP -> Nat]]
    BY <2>1, <1>3
  <2>3. \A s \in Rank, o \in QP : done'[s][o] = IF s = r /\ o = q THEN done[r][q] + 1 ELSE done[s][o]
    BY <2>1, <1>3
  <2>4. Types'
    BY <2>2, <1>1 DEF GInv, Types
  <2>5. ASSUME NEW s \in Rank, NEW o \in QP
        PROVE  polled[s][o] <= done'[s][o] /\ done'[s][o] <= Len(posted[s][o])
    <3>1. polled[s][o] <= done[s][o] /\ done[s][o] <= Len(posted[s][o]) /\ polled[s][o] \in Nat /\ done[s][o] \in Nat
      BY DEF GInv, Types, Depths
    <3>. QED
      BY <3>1, <2>3, <1>3
  <2>6. Depths'
    BY <2>5, <1>1 DEF GInv, Depths
  <2>. QED
    BY <1>1, <2>4, <2>6, QueueStep
<1>. QED
  BY <1>1, <1>2, <1>3

\* The blocks that fit are posted.
LEMMA PushStep ==
    ASSUME GInv, NEW r \in Rank, Push(r)
    PROVE  GInv'
<1>. DEFINE n == PushCount(r)
            c == call[r]
            m == scnt[r]
            used(q) == q < QpNum(c)
            len(q) == Len(posted[r][q])
<1>1. /\ pc[r] = "push" /\ pc' = [pc EXCEPT ![r] = "poll"] /\ UNCHANGED <<call, done, polled>>
      /\ scnt' = [scnt EXCEPT ![r] = m + n]
  BY DEF Push
<1>2. c \in 1..Len(Calls) /\ c # 0 /\ m \in Nat /\ TotalBlocks(c) \in Nat /\ m <= TotalBlocks(c) /\ QpNum(c) \in 1..2
  <2>1. c \in 0..Len(Calls) /\ c # 0 /\ m \in Nat /\ m <= TotalBlocks(c)
    BY <1>1 DEF GInv, Types, Progress
  <2>2. c \in 1..Len(Calls)
    BY <2>1
  <2>. HIDE DEF c, m
  <2>. QED
    BY <2>1, <2>2, CallNumbers
<1>3. \A q \in QP : tx_depth[r][q] \in Nat /\ tx_depth[r][q] <= CurrentDepth(r)
  BY DEF GInv, Types, CurrentDepth, QP
<1>4. CurrentDepth(r) \in Nat /\ CurrentDepth(r) <= MaxQueueSize /\ MaxQueueSize \in Nat
  <2>1. \E q \in QP : CurrentDepth(r) = tx_depth[r][q]
    BY DEF CurrentDepth, QP
  <2>. QED
    BY <2>1, <1>3, QueueFits DEF GInv, Depths
<1>5. n \in Nat /\ m + n <= TotalBlocks(c) /\ \A q \in QP : tx_depth[r][q] + n <= MaxQueueSize
  <2>1. n = IF MaxQueueSize - CurrentDepth(r) < TotalBlocks(c) - m
            THEN MaxQueueSize - CurrentDepth(r) ELSE TotalBlocks(c) - m
    BY DEF PushCount
  <2>2. n \in Nat /\ n <= TotalBlocks(c) - m /\ n <= MaxQueueSize - CurrentDepth(r)
    BY <2>1, <1>2, <1>4
  <2>. HIDE DEF n, m, c
  <2>. QED
    BY <2>2, <1>2, <1>3, <1>4
<1>. DEFINE new(q) == NextMessages(r, q, n)
            Posted == [q \in QP |-> IF q \in 0..(QpNum(c) - 1) THEN posted[r][q] \o new(q) ELSE posted[r][q]]
            Depth == [q \in QP |-> IF q \in 0..(QpNum(c) - 1) THEN tx_depth[r][q] + n ELSE tx_depth[r][q]]
<1>6. posted' = [posted EXCEPT ![r] = Posted] /\ tx_depth' = [tx_depth EXCEPT ![r] = Depth]
  BY DEF Push
<1>7. \A q \in QP : (q \in 0..(QpNum(c) - 1)) <=> used(q)
  BY <1>2 DEF QP
<1>8. ASSUME NEW q \in QP
      PROVE  /\ new(q) \in Seq(Piece) /\ Len(new(q)) = n
             /\ \A i \in 1..n : new(q)[i] = Message(c, m + i - 1, q)
  <2>1. \A i \in 1..n : m + i - 1 \in Nat
    BY <1>2, <1>5
  <2>2. \A i \in 1..n : Message(c, m + i - 1, q) \in Piece
    <3>. HIDE DEF c, m, n
    <3>. QED
      BY <2>1, <1>2, MessageFits
  <2>3. new(q) = [i \in 1..n |-> Message(c, m + i - 1, q)]
    BY DEF NextMessages
  <2>. HIDE DEF c, m, n, new
  <2>. QED
    BY <2>2, <2>3, <1>5
<1>. HIDE DEF n, c, m, new
<1>9. ASSUME NEW q \in QP
      PROVE  /\ posted[r][q] \in Seq(Piece) /\ len(q) \in Nat
             /\ posted[r][q] \o new(q) \in Seq(Piece) /\ Len(posted[r][q] \o new(q)) = len(q) + n
             /\ \A k \in 1..len(q) : (posted[r][q] \o new(q))[k] = posted[r][q][k]
             /\ \A i \in 1..n : (posted[r][q] \o new(q))[len(q) + i] = Message(c, m + i - 1, q)
  <2>1. posted[r][q] \in Seq(Piece)
    BY DEF GInv, Types
  <2>. DEFINE p == posted[r][q]
              w == new(q)
  <2>2. p \in Seq(Piece) /\ w \in Seq(Piece) /\ Len(w) = n /\ \A i \in 1..n : w[i] = Message(c, m + i - 1, q)
    BY <2>1, <1>8
  <2>. HIDE DEF p, w
  <2>3. /\ Len(p) \in Nat /\ p \o w \in Seq(Piece) /\ Len(p \o w) = Len(p) + n
        /\ \A k \in 1..Len(p) : (p \o w)[k] = p[k]
        /\ \A i \in 1..n : (p \o w)[Len(p) + i] = w[i]
    BY <2>2, <1>5
  <2>. QED
    BY <2>2, <2>3 DEF p, w
<1>10. Posted \in [QP -> Seq(Piece)] /\ Depth \in [QP -> Nat]
  BY <1>3, <1>5, <1>9
<1>11. ASSUME NEW q \in QP
       PROVE  /\ Posted[q] = IF used(q) THEN posted[r][q] \o new(q) ELSE posted[r][q]
              /\ Depth[q] = IF used(q) THEN tx_depth[r][q] + n ELSE tx_depth[r][q]
  BY <1>7
<1>. HIDE DEF Posted, Depth, used, len
<1>12. /\ pc'[r] = "poll" /\ scnt'[r] = m + n /\ posted'[r] = Posted /\ tx_depth'[r] = Depth
       /\ \A s \in Rank : s # r => /\ pc'[s] = pc[s] /\ scnt'[s] = scnt[s]
                                   /\ posted'[s] = posted[s] /\ tx_depth'[s] = tx_depth[s]
       /\ UNCHANGED <<call, done, polled>>
  BY <1>1, <1>6 DEF GInv, Types
<1>13. Types'
  <2>1. m + n \in Nat
    BY <1>2, <1>5
  <2>. QED
    BY <2>1, <1>1, <1>6, <1>10 DEF GInv, Types
<1>14. ASSUME NEW q \in QP
       PROVE  /\ Len(Posted[q]) = len(q) + (IF used(q) THEN n ELSE 0) /\ Depth[q] = tx_depth[r][q] + (IF used(q) THEN n ELSE 0)
              /\ len(q) = Before(c - 1, q) + (IF used(q) THEN m ELSE 0) /\ Before(c - 1, q) \in Nat
              /\ len(q) \in Nat
  <2>1. Before(c - 1, q) \in Nat
    <3>1. c - 1 \in 0..Len(Calls)
      BY <1>2
    <3>. QED
      BY <3>1, BeforeCount
  <2>2. len(q) = Before(c - 1, q) + (IF used(q) THEN m ELSE 0)
    BY <1>2 DEF GInv, Progress, len, used, c, m
  <2>3. CASE used(q)
    BY <2>1, <2>2, <2>3, <1>9, <1>11
  <2>4. CASE ~used(q)
    BY <2>1, <2>2, <2>4, <1>3, <1>9, <1>11 DEF len
  <2>. QED
    BY <2>3, <2>4
<1>15. Progress'
  <2>. SUFFICES ASSUME NEW s \in Rank
                PROVE  IF call[s] = 0
                       THEN pc'[s] = "out" /\ \A q \in QP : posted'[s][q] = << >>
                       ELSE /\ scnt'[s] <= TotalBlocks(call[s])
                            /\ pc'[s] = "out" => scnt'[s] = TotalBlocks(call[s])
                            /\ \A q \in QP : Len(posted'[s][q]) =
                                 Before(call[s] - 1, q) + (IF q < QpNum(call[s]) THEN scnt'[s] ELSE 0)
    BY <1>12 DEF Progress
  <2>1. CASE s = r
    <3>1. ASSUME NEW q \in QP
          PROVE  Len(posted'[r][q]) = Before(c - 1, q) + (IF q < QpNum(c) THEN m + n ELSE 0)
      <4>1. CASE used(q)
        BY <4>1, <1>2, <1>5, <1>12, <1>14 DEF used
      <4>2. CASE ~used(q)
        BY <4>2, <1>12, <1>14 DEF used
      <4>. QED
        BY <4>1, <4>2
    <3>. QED
      BY <3>1, <2>1, <1>2, <1>5, <1>12 DEF c
  <2>2. CASE s # r
    BY <2>2, <1>12 DEF GInv, Progress
  <2>. QED
    BY <2>1, <2>2
<1>16. Depths'
  <2>. SUFFICES ASSUME NEW s \in Rank, NEW q \in QP
                PROVE  /\ polled[s][q] <= done[s][q] /\ done[s][q] <= Len(posted'[s][q])
                       /\ tx_depth'[s][q] <= MaxQueueSize
                       /\ pc'[s] = "out" => polled[s][q] = Len(posted'[s][q])
                       /\ pc'[s] # "out" => tx_depth'[s][q] = Len(posted'[s][q]) - polled[s][q]
                       /\ call[s] # 0 => Before(call[s] - 1, q) <= polled[s][q]
    BY <1>12 DEF Depths
  <2>1. CASE s = r
    <3>1. /\ polled[r][q] \in Nat /\ done[r][q] \in Nat /\ polled[r][q] <= done[r][q] /\ done[r][q] <= len(q)
          /\ tx_depth[r][q] = len(q) - polled[r][q] /\ tx_depth[r][q] <= MaxQueueSize
          /\ call[r] # 0 => Before(call[r] - 1, q) <= polled[r][q]
      BY <1>1 DEF GInv, Types, Depths, len
    <3>2. /\ Len(Posted[q]) = len(q) + (IF used(q) THEN n ELSE 0) /\ Depth[q] = tx_depth[r][q] + (IF used(q) THEN n ELSE 0)
          /\ len(q) \in Nat
      BY <1>14
    <3>3. done[r][q] <= Len(Posted[q]) /\ Depth[q] <= MaxQueueSize /\ Depth[q] = Len(Posted[q]) - polled[r][q]
      BY <3>1, <3>2, <1>3, <1>4, <1>5
    <3>. QED
      BY <2>1, <3>1, <3>3, <1>12
  <2>2. CASE s # r
    BY <2>2, <1>12 DEF GInv, Depths
  <2>. QED
    BY <2>1, <2>2
<1>17. Layout'
  <2>. SUFFICES ASSUME NEW s \in Rank, NEW q \in QP, NEW d \in 1..Len(Calls), NEW b \in 0..(Size(d, q) - 1),
                       Place(d, b, q) <= Len(posted'[s][q])
                PROVE  posted'[s][q][Place(d, b, q)] = Message(d, b, q)
    BY DEF Layout
  <2>1. CASE s # r
    BY <2>1, <1>12 DEF GInv, Layout
  <2>2. CASE s = r /\ ~used(q)
    BY <2>2, <1>11, <1>12 DEF GInv, Layout
  <2>3. CASE s = r /\ used(q)
    <3>. DEFINE k == Place(d, b, q)
                base == Before(c - 1, q)
    <3>1. /\ posted'[s][q] = posted[r][q] \o new(q) /\ len(q) = base + m /\ base \in Nat
          /\ Len(posted'[s][q]) = base + m + n
      BY <2>3, <1>2, <1>5, <1>11, <1>12, <1>14
    <3>2. d - 1 \in 0..Len(Calls) /\ d \in 0..Len(Calls) /\ c \in 0..Len(Calls) /\ c - 1 \in 0..Len(Calls)
      BY <1>2
    <3>3. /\ Before(d - 1, q) \in Nat /\ Before(d, q) \in Nat /\ Before(c, q) \in Nat
          /\ Before(d, q) = Before(d - 1, q) + Size(d, q)
          /\ Before(c, q) = base + TotalBlocks(c) /\ Size(d, q) \in Nat
      <4>1. Size(c, q) = TotalBlocks(c)
        BY <2>3 DEF Size, used
      <4>2. Size(d, q) \in Nat
        BY CallNumbers DEF Size
      <4>. QED
        BY <4>1, <4>2, <3>2, <1>2, BeforeCount
    <3>4. k = Before(d - 1, q) + b + 1 /\ k \in Nat \ {0} /\ k <= Before(d, q)
      BY <3>3 DEF Place
    <3>. HIDE DEF k, base
    <3>5. CASE k <= len(q)
      <4>1. k \in 1..len(q) /\ Place(d, b, q) <= Len(posted[r][q])
        BY <3>4, <3>5, <1>9 DEF k, len
      <4>. QED
        BY <4>1, <3>1, <1>9 DEF GInv, Layout, k
    <3>6. CASE k > len(q) /\ d < c
      <4>1. Before(d, q) <= base
        <5>1. d <= c - 1
          BY <3>6, <1>2
        <5>. QED
          BY <5>1, <3>2, BeforeCount DEF base
      <4>2. len(q) = base + m /\ base \in Nat /\ m \in Nat
        BY <3>1, <1>2
      <4>3. \A x, y, t, u \in Nat : ~(t <= x /\ u <= t /\ u > x + y)
        OBVIOUS
      <4>. QED
        BY <4>1, <4>2, <4>3, <3>3, <3>4, <3>6
    <3>7. CASE k > len(q) /\ d = c
      <4>1. k = base + b + 1 /\ b \in Nat
        BY <3>4, <3>7 DEF base
      <4>2. k - (base + m) \in 1..n /\ m + (k - (base + m)) - 1 = b /\ len(q) + (k - (base + m)) = k
        <5>1. k <= base + m + n
          BY <3>1 DEF k
        <5>2. \A x, y, z, i, u \in Nat :
                u = x + i + 1 /\ u <= x + y + z /\ u > x + y =>
                  u - (x + y) \in 1..z /\ y + (u - (x + y)) - 1 = i /\ (x + y) + (u - (x + y)) = u
          OBVIOUS
        <5>3. k \in Nat /\ k > base + m /\ base \in Nat /\ m \in Nat /\ n \in Nat
          BY <3>1, <3>4, <3>7, <1>2, <1>5
        <5>. QED
          BY <4>1, <5>1, <5>2, <5>3, <3>1
      <4>3. (posted[r][q] \o new(q))[k] = Message(c, b, q)
        BY <4>2, <1>9
      <4>. QED
        BY <4>3, <3>1, <3>7 DEF k
    <3>8. CASE k > len(q) /\ d > c
      <4>1. Before(c, q) <= Before(d - 1, q)
        <5>1. c <= d - 1
          BY <3>8, <1>2
        <5>. QED
          BY <5>1, <3>2, BeforeCount
      <4>2. k <= base + m + n
        BY <3>1 DEF k
      <4>3. \A x, y, z, u, t, v, w, i \in Nat :
              ~(/\ y + z <= t /\ v = x + t /\ v <= w /\ u = w + i + 1 /\ u <= x + y + z)
        OBVIOUS
      <4>4. b \in Nat /\ k \in Nat /\ base \in Nat /\ m \in Nat /\ n \in Nat /\ TotalBlocks(c) \in Nat
        BY <3>1, <3>3, <3>4, <1>2, <1>5
      <4>. QED
        BY <4>1, <4>2, <4>3, <4>4, <3>3, <3>4, <1>5
    <3>9. k <= len(q) \/ k > len(q)
      BY <3>1, <3>4, <1>2
    <3>10. d < c \/ d = c \/ d > c
      BY <1>2
    <3>. QED
      BY <3>5, <3>6, <3>7, <3>8, <3>9, <3>10
  <2>. QED
    BY <2>1, <2>2, <2>3
<1>18. Placed'
  <2>. SUFFICES ASSUME NEW s \in Rank, NEW q \in QP, NEW k \in 1..Len(posted'[s][q])
                PROVE  \E d \in 1..call[s] : \E b \in 0..(Size(d, q) - 1) : k = Place(d, b, q)
    BY <1>12 DEF Placed
  <2>1. CASE s # r
    BY <2>1, <1>12 DEF GInv, Placed
  <2>2. CASE s = r /\ k <= len(q)
    <3>1. k \in 1..Len(posted[r][q])
      BY <2>2, <1>9 DEF len
    <3>. QED
      BY <2>2, <3>1 DEF GInv, Placed
  <2>3. CASE s = r /\ k > len(q)
    <3>1. Len(posted'[s][q]) = len(q) + (IF used(q) THEN n ELSE 0) /\ len(q) \in Nat
      BY <2>3, <1>12, <1>14
    <3>2. used(q)
      BY <2>3, <3>1
    <3>3. len(q) = Before(c - 1, q) + m /\ Before(c - 1, q) \in Nat
      BY <3>2, <1>14
    <3>. DEFINE b == k - Before(c - 1, q) - 1
    <3>4. k <= Before(c - 1, q) + m + n /\ k > Before(c - 1, q) + m
      BY <2>3, <3>1, <3>2, <3>3
    <3>5. b \in 0..(TotalBlocks(c) - 1) /\ k = Before(c - 1, q) + b + 1
      <4>1. \A x, y, z, t, u \in Nat :
              u <= x + y + z /\ u > x + y /\ y + z <= t =>
                u - x - 1 \in 0..(t - 1) /\ u = x + (u - x - 1) + 1
        OBVIOUS
      <4>2. m \in Nat /\ n \in Nat /\ TotalBlocks(c) \in Nat /\ k \in Nat /\ m + n <= TotalBlocks(c)
        BY <1>2, <1>5
      <4>. QED
        BY <3>3, <3>4, <4>1, <4>2
    <3>6. Size(c, q) = TotalBlocks(c)
      BY <3>2 DEF Size, used
    <3>7. c \in 1..call[s]
      BY <2>3, <1>2 DEF c
    <3>. HIDE DEF b
    <3>. QED
      BY <3>5, <3>6, <3>7 DEF Place
  <2>. QED
    BY <2>1, <2>2, <2>3, <1>9
<1>. QED
  BY <1>13, <1>15, <1>16, <1>17, <1>18 DEF GInv

\* Every step keeps the invariant.
LEMMA StepInv == GInv /\ [Next]_vars => GInv'
<1>. SUFFICES ASSUME GInv, [Next]_vars PROVE GInv'
  OBVIOUS
<1>1. CASE UNCHANGED vars
  <2>1. UNCHANGED <<pc, call, scnt, tx_depth, posted, done, polled>>
    BY <1>1 DEF vars
  <2>2. Types' /\ Depths'
    BY <2>1 DEF GInv, Types, Depths
  <2>. QED
    BY <2>1, <2>2, QueueStep
<1>. QED
  BY <1>1, EnterStep, PushStep, PollStep, ReturnStep, CardStep DEF Next

-----------------------------------------------------------------------------
(* A buffer is cut into disjoint pieces. *)

\* A number is in one block.
LEMMA OneBlock ==
    ASSUME NEW n \in Nat \ {0}, NEW a \in Nat, NEW b \in Nat, NEW p \in Nat,
           n * a <= p, p < n * a + n, n * b <= p, p < n * b + n
    PROVE  a = b
<1>1. ASSUME NEW x \in Nat, NEW y \in Nat, x < y, n * y <= p, p < n * x + n PROVE FALSE
  <2>1. y - x >= 1 /\ y - x \in Int
    BY <1>1
  <2>2. n * (y - x) >= n
    BY <2>1, MultipleBound
  <2>3. n * y = n * x + n * (y - x) /\ n * x \in Nat /\ n * y \in Nat /\ n * (y - x) \in Int
    BY <2>1
  <2>. QED
    BY <2>2, <2>3, <1>1
<1>2. a < b \/ a = b \/ b < a
  OBVIOUS
<1>. QED
  BY <1>1, <1>2

\* The number of blocks is that of the packets, divided and rounded up.
LEMMA BlocksCover ==
    ASSUME NEW c \in 1..Len(Calls)
    PROVE  /\ \A b \in 0..(TotalBlocks(c) - 1) : MergedBlock(c) * b < Packets(c)
           /\ \A p \in 0..(Packets(c) - 1) : \E b \in 0..(TotalBlocks(c) - 1) :
                MergedBlock(c) * b <= p /\ p < MergedBlock(c) * b + MergedBlock(c)
<1>. DEFINE n == MergedBlock(c)
            size == Packets(c)
            t == TotalBlocks(c)
<1>1. n \in Nat \ {0} /\ size \in Nat /\ t \in Nat /\ t = (size + n - 1) \div n
  BY CallNumbers DEF TotalBlocks
<1>. HIDE DEF n, size, t
<1>2. n * t <= size + n - 1 /\ size - 1 < n * t /\ n * t \in Nat
  <2>. DEFINE a == size + n - 1
  <2>1. a \in Int /\ t = a \div n
    BY <1>1
  <2>. HIDE DEF a
  <2>2. a = n * t + (a % n) /\ a % n \in 0..(n - 1)
    BY <2>1, <1>1, DivMod
  <2>3. n * t \in Nat
    BY <1>1
  <2>. QED
    BY <2>2, <2>3, <1>1 DEF a
<1>3. ASSUME NEW b \in 0..(t - 1) PROVE n * b < size
  <2>1. t - b >= 1 /\ t - b \in Int /\ b \in Nat
    BY <1>1
  <2>2. n * (t - b) >= n
    BY <2>1, <1>1, MultipleBound
  <2>3. n * t = n * b + n * (t - b) /\ n * b \in Nat /\ n * (t - b) \in Int
    BY <2>1, <1>1
  <2>. QED
    BY <2>2, <2>3, <1>1, <1>2
<1>4. ASSUME NEW p \in 0..(size - 1) PROVE \E b \in 0..(t - 1) : n * b <= p /\ p < n * b + n
  <2>. DEFINE b == p \div n
  <2>1. p \in Nat /\ p <= size - 1
    BY <1>1
  <2>2. p = n * b + (p % n) /\ p % n \in 0..(n - 1) /\ b \in Nat
    <3>0. p \in Int
      BY <2>1
    <3>1. p = n * b + (p % n) /\ p % n \in 0..(n - 1)
      BY <3>0, <1>1, DivMod, Zenon
    <3>2. b \in Nat
      BY <2>1, <1>1
    <3>. QED
      BY <3>1, <3>2
  <2>. HIDE DEF b
  <2>3. n * b <= p /\ p < n * b + n /\ n * b \in Nat
    BY <2>1, <2>2, <1>1
  <2>4. b < t
    <3>1. SUFFICES ASSUME t <= b PROVE FALSE
      BY <2>2, <1>1
    <3>2. n * (b - t) \in Nat /\ n * b = n * t + n * (b - t)
      BY <3>1, <2>2, <1>1
    <3>. QED
      BY <3>2, <2>1, <2>3, <1>1, <1>2
  <2>5. b \in 0..(t - 1)
    BY <2>2, <2>4, <1>1
  <2>. QED
    BY <2>3, <2>5
<1>. QED
  BY <1>3, <1>4 DEF n, size, t

\* A packet of a message.
Carries(m, p) == m.first <= p /\ p < m.first + m.len

\* The messages of block b of call c split the block.
LEMMA BlockSplit ==
    ASSUME NEW c \in 1..Len(Calls), NEW b \in 0..(TotalBlocks(c) - 1), NEW p \in 0..(Packets(c) - 1)
    PROVE  /\ (MergedBlock(c) * b <= p /\ p < MergedBlock(c) * b + MergedBlock(c))
                => \E q \in QP : q < QpNum(c) /\ Carries(Message(c, b, q), p)
           /\ \A q \in QP : q < QpNum(c) /\ Carries(Message(c, b, q), p) =>
                /\ MergedBlock(c) * b <= p /\ p < MergedBlock(c) * b + MergedBlock(c)
                /\ \A o \in QP : o < QpNum(c) /\ Carries(Message(c, b, o), p) => o = q
<1>. DEFINE w == MergedBlock(c)
            n == BlockSize(c, b)
            x == w * b
            size == Packets(c)
            s0 == SubSize(n, QpNum(c), 0)
            s1 == SubSize(n, QpNum(c), 1)
<1>1. w \in Nat \ {0} /\ size \in Nat /\ b \in Nat /\ x < size /\ x \in Nat /\ b * w = x /\ p \in Nat /\ p < size
  BY CallNumbers, BlocksCover
<1>2. n = IF w < size - x THEN w ELSE size - x
  BY <1>1 DEF BlockSize
<1>3. /\ Message(c, b, 0).first = x /\ Message(c, b, 0).len = s0
      /\ Message(c, b, 1).first = x + s0 /\ Message(c, b, 1).len = s1
  BY <1>1 DEF Message
<1>. HIDE DEF w, n, x, size
<1>4. n \in Nat \ {0} /\ n <= w /\ (p < x + w => p < x + n)
  BY <1>1, <1>2
<1>5. CASE QpNum(c) = 1
  <2>1. s0 = n
    BY <1>4, <1>5 DEF SubSize
  <2>2. \A q \in QP : q < QpNum(c) <=> q = 0
    BY <1>5 DEF QP
  <2>3. Carries(Message(c, b, 0), p) <=> x <= p /\ p < x + n
    BY <1>3, <2>1 DEF Carries
  <2>4. x <= p /\ p < x + w <=> x <= p /\ p < x + n
    BY <1>1, <1>4
  <2>5. 0 \in QP
    BY DEF QP
  <2>. QED
    BY <2>2, <2>3, <2>4, <2>5 DEF x, w
<1>6. CASE QpNum(c) = 2
  <2>1. s0 \in Nat /\ s1 \in Nat /\ s0 + s1 = n
    BY <1>4, <1>6 DEF SubSize
  <2>. HIDE DEF s0, s1
  <2>2. \A q \in QP : q < QpNum(c) /\ (q = 0 \/ q = 1)
    BY <1>6 DEF QP
  <2>3. /\ Carries(Message(c, b, 0), p) <=> x <= p /\ p < x + s0
        /\ Carries(Message(c, b, 1), p) <=> x + s0 <= p /\ p < x + s0 + s1
    BY <1>3 DEF Carries
  <2>4. /\ x <= p /\ p < x + w <=> (x <= p /\ p < x + s0) \/ (x + s0 <= p /\ p < x + s0 + s1)
        /\ ~((x <= p /\ p < x + s0) /\ (x + s0 <= p /\ p < x + s0 + s1))
    BY <2>1, <1>1, <1>4
  <2>5. 0 \in QP /\ 1 \in QP
    BY DEF QP
  <2>. QED
    BY <2>2, <2>3, <2>4, <2>5 DEF x, w
<1>. QED
  BY <1>5, <1>6, CallNumbers

\* Every packet of a call is in one message.
LEMMA OnePiece ==
    ASSUME NEW c \in 1..Len(Calls), NEW p \in 0..(Packets(c) - 1)
    PROVE  \E b \in 0..(TotalBlocks(c) - 1) : \E q \in QP :
             /\ q < QpNum(c) /\ Carries(Message(c, b, q), p)
             /\ \A d \in 0..(TotalBlocks(c) - 1) : \A o \in QP :
                  o < QpNum(c) /\ Carries(Message(c, d, o), p) => Message(c, d, o) = Message(c, b, q)
<1>. DEFINE w == MergedBlock(c)
<1>1. w \in Nat \ {0} /\ p \in Nat
  BY CallNumbers
<1>2. PICK b \in 0..(TotalBlocks(c) - 1) : w * b <= p /\ p < w * b + w
  BY BlocksCover
<1>3. PICK q \in QP : q < QpNum(c) /\ Carries(Message(c, b, q), p)
  BY <1>2, BlockSplit
<1>4. ASSUME NEW d \in 0..(TotalBlocks(c) - 1), NEW o \in QP, o < QpNum(c), Carries(Message(c, d, o), p)
      PROVE  d = b /\ o = q
  <2>1. w * d <= p /\ p < w * d + w
    BY <1>4, BlockSplit
  <2>2. b \in Nat /\ d \in Nat
    BY CallNumbers
  <2>. HIDE DEF w
  <2>3. d = b
    BY <2>1, <2>2, <1>1, <1>2, OneBlock
  <2>. QED
    BY <2>3, <1>3, <1>4, BlockSplit
<1>. QED
  BY <1>3, <1>4

-----------------------------------------------------------------------------
(* The theorems. *)

\* The invariant of the library: every message has the place that the sizes of
\* the calls give it, and a call begins with empty queues (allreduce).
THEOREM LibraryInvariance == Spec => []GInv
<1>. QED
  BY InitInv, StepInv, PTL DEF Spec

\* No queue pair has more than the server window in flight, nor its queues
\* overflow (max_qsize and the depths of allreduce), for all sizes of calls.
THEOREM FlowControl == Spec => []WindowRespected
<1>1. GInv => WindowRespected
  <2>. SUFFICES ASSUME GInv PROVE WindowRespected
    OBVIOUS
  <2>1. TypeOK
    <3>1. ASSUME NEW r \in Rank PROVE tx_depth[r] \in [QP -> 0..MaxQueueSize]
      BY QueueFits DEF GInv, Types, Depths
    <3>2. tx_depth \in [Rank -> [QP -> 0..MaxQueueSize]]
      BY <3>1 DEF GInv, Types
    <3>. QED
      BY <3>2 DEF GInv, Types, Depths, TypeOK
  <2>2. ASSUME NEW r \in Rank, NEW q \in QP, NEW k \in InFlight(r, q) PROVE posted[r][q][k].len <= Block
    <3>1. k \in 1..Len(posted[r][q]) /\ call[r] \in 0..Len(Calls) /\ Len(Calls) \in Nat
      BY ConfigAssumption DEF InFlight, GInv, Types
    <3>2. PICK c \in 1..call[r] : \E b \in 0..(Size(c, q) - 1) : k = Place(c, b, q)
      BY <3>1 DEF GInv, Placed
    <3>3. PICK b \in 0..(Size(c, q) - 1) : k = Place(c, b, q)
      BY <3>2
    <3>4. c \in 1..Len(Calls)
      BY <3>1
    <3>5. posted[r][q][k] = Message(c, b, q)
      BY <3>1, <3>3, <3>4 DEF GInv, Layout
    <3>6. b \in Nat
      BY <3>4, CallNumbers DEF Size
    <3>. QED
      BY <3>4, <3>5, <3>6, MessageFits
  <2>3. ASSUME NEW r \in Rank, NEW q \in QP
        PROVE  Len(posted[r][q]) - polled[r][q] \in Nat /\ Len(posted[r][q]) - polled[r][q] <= MaxQueueSize
    <3>1. /\ Len(posted[r][q]) \in Nat /\ polled[r][q] \in Nat /\ polled[r][q] <= done[r][q] /\ done[r][q] \in Nat
          /\ done[r][q] <= Len(posted[r][q]) /\ MaxQueueSize \in Nat
      BY QueueFits DEF GInv, Types, Depths
    <3>2. CASE pc[r] = "out"
      <4>1. polled[r][q] = Len(posted[r][q])
        BY <3>2 DEF GInv, Depths
      <4>. QED
        BY <4>1, <3>1
    <3>3. CASE pc[r] # "out"
      <4>1. tx_depth[r][q] = Len(posted[r][q]) - polled[r][q] /\ tx_depth[r][q] <= MaxQueueSize
        BY <3>3 DEF GInv, Depths
      <4>. QED
        BY <4>1, <3>1
    <3>. QED
      BY <3>2, <3>3
  <2>4. ASSUME NEW r \in Rank, NEW q \in QP
        PROVE  /\ (Len(posted[r][q]) - polled[r][q]) * Block <= ServerWin
               /\ Len(posted[r][q]) - polled[r][q] <= QueueDepth
    <3>. DEFINE n == Len(posted[r][q]) - polled[r][q]
    <3>1. n \in Nat /\ n <= MaxQueueSize
      BY <2>3
    <3>2. QueueDepth \in Nat
      BY ConfigAssumption
    <3>. HIDE DEF n
    <3>3. n * Block <= ServerWin /\ n <= QueueDepth
      BY <3>1, <3>2, QueueFits
    <3>. QED
      BY <3>3 DEF n
  <2>. QED
    BY <2>1, <2>2, <2>4 DEF WindowRespected, GInv, Depths
<1>. QED
  BY <1>1, LibraryInvariance, PTL

\* The message with the same number carries the same piece of the same call on
\* all ranks (post_message_to_qps), whatever the pace of their completions.
THEOREM RanksAgree == Spec => []SameNumberSamePiece
<1>1. GInv => SameNumberSamePiece
  <2>. SUFFICES ASSUME GInv, NEW r \in Rank, NEW s \in Rank, NEW q \in QP
                PROVE  \/ IsPrefix(posted[r][q], posted[s][q])
                       \/ IsPrefix(posted[s][q], posted[r][q])
    BY DEF SameNumberSamePiece
  <2>1. ASSUME NEW a \in Rank, NEW z \in Rank, Len(posted[a][q]) <= Len(posted[z][q])
        PROVE  IsPrefix(posted[a][q], posted[z][q])
    <3>. DEFINE x == posted[a][q]
                y == posted[z][q]
    <3>1. x \in Seq(Piece) /\ y \in Seq(Piece) /\ Len(x) <= Len(y) /\ Len(x) \in Nat /\ Len(y) \in Nat
      <4>1. x \in Seq(Piece) /\ y \in Seq(Piece)
        BY DEF GInv, Types
      <4>. QED
        BY <2>1, <4>1
    <3>2. ASSUME NEW k \in 1..Len(x) PROVE x[k] = y[k]
      <4>1. call[a] \in 0..Len(Calls) /\ Len(Calls) \in Nat
        BY ConfigAssumption DEF GInv, Types
      <4>2. PICK c \in 1..call[a] : \E b \in 0..(Size(c, q) - 1) : k = Place(c, b, q)
        BY DEF GInv, Placed
      <4>3. PICK b \in 0..(Size(c, q) - 1) : k = Place(c, b, q)
        BY <4>2
      <4>4. c \in 1..Len(Calls)
        BY <4>1
      <4>5. k <= Len(x) /\ k <= Len(y)
        BY <3>1
      <4>6. x[k] = Message(c, b, q)
        BY <4>3, <4>4, <4>5 DEF GInv, Layout
      <4>7. y[k] = Message(c, b, q)
        BY <4>3, <4>4, <4>5 DEF GInv, Layout
      <4>. QED
        BY <4>6, <4>7
    <3>. HIDE DEF x, y
    <3>3. SubSeq(x, 1, Len(x)) = SubSeq(y, 1, Len(x))
      BY <3>1, <3>2
    <3>. QED
      BY <3>1, <3>3 DEF IsPrefix, x, y
  <2>2. Len(posted[r][q]) <= Len(posted[s][q]) \/ Len(posted[s][q]) <= Len(posted[r][q])
    BY DEF GInv, Types
  <2>. QED
    BY <2>1, <2>2
<1>. QED
  BY <1>1, LibraryInvariance, PTL

\* The messages that have completed on a rank without errors are those of the
\* call, all of them when the call has returned.
LEMMA SucceededAre ==
    ASSUME GInv, NEW r \in Rank, NEW c \in 1..Len(Calls)
    PROVE  /\ \A m \in Succeeded(r, c) : \E b \in 0..(TotalBlocks(c) - 1) : \E q \in QP :
                q < QpNum(c) /\ m = Message(c, b, q)
           /\ (\A q \in QP : failed[r][q] = NotFailed) /\ c \in Returned(r) =>
                \A b \in 0..(TotalBlocks(c) - 1) : \A q \in QP :
                  q < QpNum(c) => Message(c, b, q) \in Succeeded(r, c)
<1>0. call[r] \in 0..Len(Calls) /\ Len(Calls) \in Nat
  BY ConfigAssumption DEF GInv, Types
<1>1. ASSUME NEW m \in Succeeded(r, c)
      PROVE  \E b \in 0..(TotalBlocks(c) - 1) : \E q \in QP : q < QpNum(c) /\ m = Message(c, b, q)
  <2>1. PICK q \in QP : \E k \in 1..done[r][q] : posted[r][q][k].call = c /\ m = posted[r][q][k]
    BY DEF Succeeded
  <2>2. PICK k \in 1..done[r][q] : posted[r][q][k].call = c /\ m = posted[r][q][k]
    BY <2>1
  <2>3. k \in 1..Len(posted[r][q])
    <3>1. done[r][q] \in Nat /\ Len(posted[r][q]) \in Nat /\ done[r][q] <= Len(posted[r][q])
      BY DEF GInv, Types, Depths
    <3>. QED
      BY <3>1
  <2>4. PICK d \in 1..call[r] : \E b \in 0..(Size(d, q) - 1) : k = Place(d, b, q)
    BY <2>3 DEF GInv, Placed
  <2>5. PICK b \in 0..(Size(d, q) - 1) : k = Place(d, b, q)
    BY <2>4
  <2>6. d \in 1..Len(Calls)
    BY <1>0
  <2>7. posted[r][q][k] = Message(d, b, q)
    BY <2>3, <2>5, <2>6 DEF GInv, Layout
  <2>8. b \in Nat
    BY <2>6, CallNumbers DEF Size
  <2>9. d = c
    BY <2>2, <2>6, <2>7, <2>8, MessageFits
  <2>10. q < QpNum(c) /\ Size(c, q) = TotalBlocks(c)
    BY <2>5, <2>9 DEF Size
  <2>. QED
    BY <2>2, <2>5, <2>7, <2>9, <2>10
<1>2. ASSUME \A q \in QP : failed[r][q] = NotFailed, c \in Returned(r),
             NEW b \in 0..(TotalBlocks(c) - 1), NEW q \in QP, q < QpNum(c)
      PROVE  Message(c, b, q) \in Succeeded(r, c)
  <2>. DEFINE k == Place(c, b, q)
  <2>1. c < call[r] \/ (c = call[r] /\ pc[r] = "out")
    BY <1>2 DEF Returned
  <2>2. Size(c, q) = TotalBlocks(c) /\ TotalBlocks(c) \in Nat /\ b \in Nat
    BY <1>2, CallNumbers DEF Size
  <2>3. /\ c - 1 \in 0..Len(Calls) /\ c \in 0..Len(Calls) /\ c \in 1..Len(Calls)
        /\ call[r] # 0 /\ call[r] \in 1..Len(Calls) /\ call[r] - 1 \in 0..Len(Calls)
    BY <2>1, <1>0
  <2>4. /\ Before(c - 1, q) \in Nat /\ Before(c, q) \in Nat /\ Before(c, q) = Before(c - 1, q) + TotalBlocks(c)
    BY <2>2, <2>3, BeforeCount
  <2>5. k \in Nat \ {0} /\ k <= Before(c, q)
    BY <2>2, <2>4 DEF Place
  <2>6. polled[r][q] \in Nat /\ done[r][q] \in Nat /\ polled[r][q] <= done[r][q] /\ done[r][q] <= Len(posted[r][q])
    BY DEF GInv, Types, Depths
  <2>7. Before(c, q) <= polled[r][q]
    <3>1. CASE c < call[r]
      <4>1. c <= call[r] - 1
        BY <3>1, <2>3
      <4>2. Before(c, q) <= Before(call[r] - 1, q) /\ Before(call[r] - 1, q) \in Nat
        BY <4>1, <2>3, BeforeCount
      <4>3. Before(call[r] - 1, q) <= polled[r][q]
        BY <2>3 DEF GInv, Depths
      <4>. QED
        BY <4>2, <4>3, <2>4, <2>6
    <3>2. CASE c = call[r] /\ pc[r] = "out"
      <4>1. polled[r][q] = Len(posted[r][q])
        BY <3>2 DEF GInv, Depths
      <4>2. Len(posted[r][q]) = Before(c - 1, q) + TotalBlocks(c)
        BY <3>2, <2>3, <1>2 DEF GInv, Progress
      <4>. QED
        BY <4>1, <4>2, <2>4
    <3>. QED
      BY <2>1, <3>1, <3>2
  <2>8. k \in 1..done[r][q] /\ k <= Len(posted[r][q])
    BY <2>4, <2>5, <2>6, <2>7
  <2>9. posted[r][q][k] = Message(c, b, q)
    BY <2>2, <2>8 DEF GInv, Layout
  <2>10. posted[r][q][k].call = c
    BY <2>2, <2>9, MessageFits
  <2>. HIDE DEF k
  <2>. QED
    BY <2>8, <2>9, <2>10, <1>2 DEF Succeeded
<1>. QED
  BY <1>1, <1>2

\* A rank whose own queue pairs have not failed returns from allreduce with
\* every packet of the buffer reduced, in exactly one message, whatever the
\* queue pairs of the others do.
THEOREM ReturnedIsReduced == Spec => []HealthyReturnReduced
<1>1. GInv => HealthyReturnReduced
  <2>. SUFFICES ASSUME GInv, NEW r \in Rank, \A q \in QP : failed[r][q] = NotFailed,
                       NEW c \in Returned(r), NEW p \in 0..(Packets(c) - 1)
                PROVE  \E m \in Succeeded(r, c) :
                         /\ m.first <= p /\ p < m.first + m.len
                         /\ \A o \in Succeeded(r, c) \ {m} : p < o.first \/ o.first + o.len <= p
    BY DEF HealthyReturnReduced, Reduced
  <2>1. c \in 1..Len(Calls)
    BY DEF Returned
  <2>2. PICK b \in 0..(TotalBlocks(c) - 1) : \E q \in QP :
             /\ q < QpNum(c) /\ Carries(Message(c, b, q), p)
             /\ \A d \in 0..(TotalBlocks(c) - 1) : \A o \in QP :
                  o < QpNum(c) /\ Carries(Message(c, d, o), p) => Message(c, d, o) = Message(c, b, q)
    BY <2>1, OnePiece
  <2>3. PICK q \in QP :
             /\ q < QpNum(c) /\ Carries(Message(c, b, q), p)
             /\ \A d \in 0..(TotalBlocks(c) - 1) : \A o \in QP :
                  o < QpNum(c) /\ Carries(Message(c, d, o), p) => Message(c, d, o) = Message(c, b, q)
    BY <2>2
  <2>4. Message(c, b, q) \in Succeeded(r, c)
    BY <2>1, <2>3, SucceededAre
  <2>5. ASSUME NEW o \in Succeeded(r, c), o # Message(c, b, q) PROVE p < o.first \/ o.first + o.len <= p
    <3>1. PICK d \in 0..(TotalBlocks(c) - 1) : \E x \in QP : x < QpNum(c) /\ o = Message(c, d, x)
      BY <2>1, SucceededAre
    <3>2. PICK x \in QP : x < QpNum(c) /\ o = Message(c, d, x)
      BY <3>1
    <3>3. ~Carries(o, p)
      BY <2>3, <2>5, <3>2
    <3>4. o.first \in Int /\ o.len \in Int /\ p \in Int
      <4>1. d \in Nat /\ p \in Int
        BY <2>1, CallNumbers
      <4>2. o \in Piece
        BY <4>1, <2>1, <3>2, MessageFits
      <4>. QED
        BY <4>1, <4>2 DEF Piece
    <3>. QED
      BY <3>3, <3>4 DEF Carries
  <2>. QED
    BY <2>3, <2>4, <2>5 DEF Carries
<1>. QED
  BY <1>1, LibraryInvariance, PTL
=============================================================================
