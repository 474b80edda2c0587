--------------------------- MODULE AllreduceProof ---------------------------
(***************************************************************************)
(* The allreduce switch, data plane and controller.                        *)
(*                                                                         *)
(* The first half is the safety of the in-network allreduce, for any       *)
(* number of ranks and packets, any window, sequence number space and      *)
(* queue capacity: its states are type correct, IInv is an inductive       *)
(* invariant of IncAllreduce, and the properties follow.                   *)
(*                                                                         *)
(* The second half is the controller, which hands out the slots, groups    *)
(* and nodes that the data plane works with (its specification is          *)
(* CtlSpec).  It neither loses nor doubles anything, and its tables keep   *)
(* the groups apart, for any size of the memory, any number of groups,     *)
(* nodes, ports and members, and any history of requests, failed ones      *)
(* included.  It starts with the allocator, both of whose operations       *)
(* replace neighbouring segments of a list in order by others that lie     *)
(* between the rest.  Then comes the invariant CInv: the grants that are   *)
(* held share nothing with each other and with what is free, and every     *)
(* table entry is that of a grant which is held.                           *)
(***************************************************************************)
EXTENDS IncAllreduceInv, GroupController, CommonLemmas, SequenceTheorems, FiniteSetTheorems

-----------------------------------------------------------------------------
(* Sequence numbers and slots. *)

\* The window and the sequence number space are proper moduli.
LEMMA Moduli ==
    /\ W \in Nat \ {0}
    /\ PsnMod \in Nat \ {0}
    /\ PsnMod > W
  BY WAssumption, PsnModAssumption

\* The server window fits twice into the switch window.
LEMMA HalfWindow ==
    ServerWin \in Nat /\ 2 * ServerWin <= W
  BY Moduli DEF ServerWin

\* The slot of a packet, whose number is reduced modulo 2^24 first, is its
\* number modulo the window.
LEMMA SlotIsMod ==
    ASSUME NEW i \in Int
    PROVE  SlotOf(i) = i % W /\ SlotOf(i) \in Slot
<1>1. PICK k \in 1..PsnMod : PsnMod = k * W
  BY PsnModAssumption
<1>2. k \in Nat \ {0}
  BY <1>1, Moduli
<1>3. (i % PsnMod) % W = i % W
  BY <1>1, <1>2, Moduli, ModOfMod
<1>4. i % W \in 0..(W - 1)
  BY Moduli, DivMod
<1>. QED
  BY <1>3, <1>4 DEF SlotOf, Psn, Slot

\* Two packets that share a slot are a window apart.
LEMMA SlotApart ==
    ASSUME NEW i \in Int, NEW j \in Int, SlotOf(i) = SlotOf(j), i < j
    PROVE  i + W <= j
  BY SlotIsMod, SameModApart, Moduli

\* The packet one window back shares the slot.
LEMMA SlotBack ==
    ASSUME NEW j \in Int
    PROVE  SlotOf(j - W) = SlotOf(j)
<1>1. \A k \in Int : (j + W * k) % W = j % W
  BY Moduli, ModAddMultiple
<1>. DEFINE k == -1
<1>2. k \in Int /\ j + W * k = j - W /\ j - W \in Int
  BY Moduli
<1>. HIDE DEF k
<1>3. (j + W * k) % W = j % W
  BY <1>1, <1>2
<1>4. (j - W) % W = j % W
  BY <1>2, <1>3
<1>. QED
  BY <1>2, <1>4, SlotIsMod

\* Packets less than 2^24 apart have different sequence numbers.
LEMMA PsnApart ==
    ASSUME NEW i \in Int, NEW j \in Int, i < j, j < i + PsnMod
    PROVE  Psn(i) # Psn(j)
<1>. SUFFICES ASSUME i % PsnMod = j % PsnMod PROVE FALSE
  BY DEF Psn
<1>1. i + PsnMod <= j
  BY Moduli, SameModApart
<1>. QED
  BY <1>1, Moduli

\* Distances on the circle of sequence numbers, forwards and backwards.
LEMMA AheadIsMod ==
    ASSUME NEW i \in Int, NEW b \in Int
    PROVE  Ahead(i, b) = (i - b) % PsnMod /\ Ahead(i, b) \in Nat
<1>1. ((i % PsnMod) - (b % PsnMod)) % PsnMod = (i - b) % PsnMod
  BY Moduli, CircularDistance
<1>2. i - b \in Int
  OBVIOUS
<1>3. (i - b) % PsnMod \in 0..(PsnMod - 1)
  BY <1>2, Moduli, DivMod
<1>. QED
  BY <1>1, <1>3, Moduli DEF Ahead, Psn

\* A packet at or in front of the base is as far ahead as the numbers say.
LEMMA AheadForward ==
    ASSUME NEW i \in Int, NEW b \in Int, b <= i, i < b + PsnMod
    PROVE  Ahead(i, b) = i - b
<1>1. i - b \in 0..(PsnMod - 1)
  BY Moduli
<1>2. (i - b) % PsnMod = i - b
  BY <1>1, Moduli, SmallMod
<1>. QED
  BY <1>2, AheadIsMod

\* A packet behind the base looks almost a circle ahead.
LEMMA AheadBackward ==
    ASSUME NEW i \in Int, NEW b \in Int, i < b, b < i + PsnMod
    PROVE  Ahead(i, b) = PsnMod - (b - i)
<1>1. b - i \in 1..PsnMod /\ b - i # PsnMod
  BY Moduli
<1>2. (-(b - i)) % PsnMod = PsnMod - (b - i)
  BY <1>1, Moduli, NegativeMod
<1>3. -(b - i) = i - b
  OBVIOUS
<1>. QED
  BY <1>2, <1>3, AheadIsMod

-----------------------------------------------------------------------------
(* Types. *)

\* Sums are words.
LEMMA PlusType ==
    ASSUME NEW a \in Word, NEW b \in Word
    PROVE  Plus(a, b) \in Word
  BY DEF Plus, Word

\* The traffic manager's queues keep the type of their elements.
LEMMA EnqueueType ==
    ASSUME NEW S, NEW q \in Seq(S), NEW m \in S
    PROVE  Enqueue(q, m) \in Seq(S)
  BY DEF Enqueue

\* So does taking the head of a queue.
LEMMA TailType ==
    ASSUME NEW S, NEW q \in Seq(S), q # << >>
    PROVE  Tail(q) \in Seq(S) /\ Head(q) \in S
  OBVIOUS

\* Packet numbers are natural.
LEMMA IdxType ==
    ASSUME NEW i \in Idx
    PROVE  i \in Nat /\ i \in Int /\ i < N
  BY NAssumption DEF Idx

\* The fields of a packet on a link.
LEMMA MsgType ==
    ASSUME NEW m \in Msg
    PROVE  /\ m.idx \in Int
           /\ m.kind \in {"data", "ack", "nak"}
           /\ m.kind = "data" => m.idx \in Idx /\ m.d0 \in Word /\ m.d1 \in Word
  BY NAssumption DEF Msg, DataMsg, BackMsg, Idx

\* A data packet with words in it is a packet.
LEMMA DataType ==
    ASSUME NEW i \in Idx, NEW v, v.d0 \in Word, v.d1 \in Word
    PROVE  Data(i, v) \in Msg
  BY DEF Data, Msg, DataMsg

\* So are the responder's acknowledgements.
LEMMA BackType ==
    ASSUME NEW i \in Int
    PROVE  Ack(i) \in Msg /\ Nak(i) \in Msg
  BY DEF Ack, Nak, Msg, BackMsg

\* The retry counter stays within attr.retry_cnt.
LEMMA RetryType ==
    ASSUME TypeOK, NEW r \in Rank, Retry(r)
    PROVE  retry' \in [Rank -> 0..RetryCnt] /\ qp_error' \in [Rank -> BOOLEAN]
<1>. USE RetryAssumption
<1>1. CASE ~GiveUp
  BY <1>1 DEF Retry, TypeOK
<1>2. CASE GiveUp /\ retry[r] < RetryCnt
  <2>1. retry[r] + 1 \in 0..RetryCnt
    BY <1>2 DEF TypeOK
  <2>. QED
    BY <1>2, <2>1 DEF Retry, TypeOK
<1>3. CASE GiveUp /\ ~(retry[r] < RetryCnt)
  BY <1>3 DEF Retry, TypeOK
<1>. QED
  BY <1>1, <1>2, <1>3

\* Taking a packet from the downlink.
LEMMA TakeType ==
    ASSUME TypeOK, NEW r \in Rank, NEW kind, Take(r, kind)
    PROVE  /\ downlink' \in [Rank -> Seq(Msg)]
           /\ downlink[r] \in Seq(Msg) /\ downlink[r] # << >>
           /\ Head(downlink[r]) \in Msg
           /\ Head(downlink[r]).idx \in Int
           /\ AckedPacket(r) \in Nat
           /\ Distance(r) \in Nat
<1>1. /\ downlink' \in [Rank -> Seq(Msg)]
      /\ downlink[r] \in Seq(Msg) /\ downlink[r] # << >>
      /\ Head(downlink[r]) \in Msg
  BY TailType DEF TypeOK, Take
<1>2. Head(downlink[r]).idx \in Int
  BY <1>1, MsgType
<1>3. una[r] \in Nat /\ una[r] \in Int /\ epsn[r] \in Int
  BY DEF TypeOK
<1>4. Ahead(Head(downlink[r]).idx, una[r]) \in Nat /\ Ahead(Head(downlink[r]).idx, epsn[r]) \in Nat
  BY <1>2, <1>3, AheadIsMod
<1>. QED
  BY <1>1, <1>2, <1>3, <1>4 DEF AckedPacket, Distance

\* A first pass keeps the types of the registers.
LEMMA FirstPassType ==
    ASSUME TypeOK, NEW pkt, pkt.src \in Rank, pkt.idx \in Idx,
           pkt.d0 \in Word, pkt.d1 \in Word, FirstPass(pkt)
    PROVE  /\ reg_bitmap' \in [Slot -> [version : Nat, bitmap : SUBSET Rank]]
           /\ aggregator_array' \in [Slot -> [agg0 : Word, agg1 : Word]]
           /\ recir' \in Seq(RecirPkt)
<1>. USE DEF TypeOK
<1>1. pkt.idx \in Int /\ pkt.idx \in Nat
  BY IdxType
<1>2. SlotOf(pkt.idx) \in Slot
  BY <1>1, SlotIsMod
<1>3. BitmapOld(pkt) \subseteq Rank
  BY <1>2 DEF BitmapOld
<1>4. reg_bitmap' \in [Slot -> [version : Nat, bitmap : SUBSET Rank]]
  BY <1>1, <1>2, <1>3 DEF FirstPass, BitmapUpdate
<1>5. Aggregated(pkt) \in [agg0 : Word, agg1 : Word]
  BY <1>2, PlusType DEF Aggregated
<1>6. aggregator_array' \in [Slot -> [agg0 : Word, agg1 : Word]]
  BY <1>2, <1>5 DEF FirstPass
<1>7. Recirculated(pkt) \in RecirPkt
  BY <1>5 DEF Recirculated, RecirPkt, Increase
<1>8. recir' \in Seq(RecirPkt)
  BY <1>7, EnqueueType DEF FirstPass
<1>. QED
  BY <1>4, <1>6, <1>8

\* The initial state is type correct.
LEMMA TypeInit == Init => TypeOK
<1>. SUFFICES ASSUME Init PROVE TypeOK
  OBVIOUS
<1>. USE NAssumption, RetryAssumption
<1>1. \A r \in Rank, i \in Idx : {<<r, i>>} \in Word
  BY DEF Word
<1>2. buf \in [Rank -> [Idx -> [d0 : Word, d1 : Word]]]
  BY <1>1 DEF Init, Own
<1>3. {} \in Word
  BY DEF Word
<1>. QED
  BY <1>2, <1>3 DEF Init, SwitchInit, TypeOK

\* Every step keeps the types.
LEMMA TypeStep == TypeOK /\ [Next]_vars => TypeOK'
<1>. SUFFICES ASSUME TypeOK, [Next]_vars PROVE TypeOK'
  OBVIOUS
<1>. USE DEF TypeOK
<1>1. CASE SwitchSecondPass
  <2>1. recir \in Seq(RecirPkt) /\ recir # << >> /\ Head(recir) \in RecirPkt
    BY <1>1, TailType DEF SwitchSecondPass, SecondPass
  <2>a. Head(recir).idx \in Idx /\ Head(recir).d0 \in Word
    BY <2>1 DEF RecirPkt
  <2>2. Head(recir).idx \in Idx /\ Head(recir).idx \in Int /\ Head(recir).d0 \in Word
    BY <2>a, IdxType
  <2>3. SlotOf(Head(recir).idx) \in Slot
    BY <2>2, SlotIsMod
  <2>4. Data(Result.idx, Result) \in Msg
    BY <2>2, <2>3, DataType DEF Result
  <2>5. downlink' \in [Rank -> Seq(Msg)]
    BY <1>1, <2>4, EnqueueType DEF SwitchSecondPass
  <2>. QED
    BY <1>1, <2>1, <2>5, TailType DEF SwitchSecondPass, SecondPass, qpVars
<1>2. CASE LoseRecir
  BY <1>2, TailType DEF LoseRecir, qpVars
<1>3. ASSUME NEW r \in Rank, Send(r) PROVE TypeOK'
  <2>1. nxt[r] \in Idx
    BY <1>3, NAssumption DEF Send, Idx
  <2>2. Data(nxt[r], buf[r][nxt[r]]) \in Msg
    BY <2>1, DataType
  <2>3. uplink' \in [Rank -> Seq(Msg)]
    BY <1>3, <2>2 DEF Send
  <2>. QED
    BY <1>3, <2>3 DEF Send, switchVars
<1>4. ASSUME NEW r \in Rank, Timeout(r) PROVE TypeOK'
  <2>1. retry' \in [Rank -> 0..RetryCnt] /\ qp_error' \in [Rank -> BOOLEAN]
    BY <1>4, RetryType DEF Timeout
  <2>. QED
    BY <2>1, <1>4 DEF Timeout, switchVars
<1>5. ASSUME NEW r \in Rank, Receive(r) PROVE TypeOK'
  <2>1. CASE RecvAck(r)
    <3>1. downlink' \in [Rank -> Seq(Msg)] /\ AckedPacket(r) \in Nat
      BY <2>1, TakeType DEF RecvAck
    <3>2. AckedPacket(r) + 1 \in Nat /\ 0 \in 0..RetryCnt
      BY <3>1, RetryAssumption
    <3>3. una' \in [Rank -> Nat]
      BY <2>1, <3>2 DEF RecvAck
    <3>4. nxt' \in [Rank -> Nat]
      BY <2>1, <3>2 DEF RecvAck
    <3>5. retry' \in [Rank -> 0..RetryCnt]
      BY <2>1, <3>2 DEF RecvAck
    <3>. QED
      BY <2>1, <3>1, <3>3, <3>4, <3>5 DEF RecvAck, switchVars
  <2>2. CASE RecvNak(r)
    <3>1. downlink' \in [Rank -> Seq(Msg)] /\ AckedPacket(r) \in Nat
      BY <2>2, TakeType DEF RecvNak
    <3>2. retry' \in [Rank -> 0..RetryCnt] /\ qp_error' \in [Rank -> BOOLEAN]
      <4>1. CASE AckedPacket(r) > una[r]
        <5>1. 0 \in 0..RetryCnt
          BY RetryAssumption
        <5>. QED
          BY <2>2, <4>1, <5>1 DEF RecvNak
      <4>2. CASE ~(AckedPacket(r) > una[r])
        BY <2>2, <4>2, RetryType DEF RecvNak
      <4>. QED
        BY <4>1, <4>2
    <3>. QED
      BY <2>2, <3>1, <3>2 DEF RecvNak, switchVars
  <2>3. CASE RecvStale(r)
    BY <2>3, TakeType DEF RecvStale, switchVars, qpVars
  <2>4. CASE RecvExpected(r)
    <3>1. downlink' \in [Rank -> Seq(Msg)] /\ Head(downlink[r]) \in Msg
          /\ Head(downlink[r]).kind = "data"
      BY <2>4, TakeType DEF RecvExpected, Take
    <3>2. Head(downlink[r]).d0 \in Word /\ Head(downlink[r]).d1 \in Word
      BY <3>1, MsgType
    <3>3. buf' \in [Rank -> [Idx -> [d0 : Word, d1 : Word]]]
      BY <2>4, <3>2 DEF RecvExpected
    <3>4. Ack(epsn[r]) \in Msg
      BY BackType
    <3>5. uplink' \in [Rank -> Seq(Msg)]
      BY <2>4, <3>4, EnqueueType DEF RecvExpected
    <3>. QED
      BY <2>4, <3>1, <3>3, <3>5, SMTT(30) DEF RecvExpected, switchVars
  <2>5. CASE RecvAhead(r)
    <3>1. downlink' \in [Rank -> Seq(Msg)]
      BY <2>5, TakeType DEF RecvAhead
    <3>2. Nak(epsn[r]) \in Msg
      BY BackType
    <3>. QED
      BY <2>5, <3>1, <3>2, EnqueueType DEF RecvAhead, switchVars, qpVars
  <2>6. CASE RecvDuplicate(r)
    <3>1. downlink' \in [Rank -> Seq(Msg)]
      BY <2>6, TakeType DEF RecvDuplicate
    <3>2. Ack(epsn[r] - 1) \in Msg
      BY BackType
    <3>. QED
      BY <2>6, <3>1, <3>2, EnqueueType DEF RecvDuplicate, switchVars, qpVars
  <2>. QED
    BY <1>5, <2>1, <2>2, <2>3, <2>4, <2>5, <2>6 DEF Receive
<1>6. ASSUME NEW r \in Rank, SwitchFirstPass(r) PROVE TypeOK'
  <2>. DEFINE pkt == [src |-> r, idx |-> Head(uplink[r]).idx,
                      d0 |-> Head(uplink[r]).d0, d1 |-> Head(uplink[r]).d1]
  <2>1. uplink' \in [Rank -> Seq(Msg)] /\ Head(uplink[r]) \in Msg
        /\ Head(uplink[r]).kind = "data"
    BY <1>6, TailType DEF SwitchFirstPass
  <2>2. pkt.src \in Rank /\ pkt.idx \in Idx /\ pkt.d0 \in Word /\ pkt.d1 \in Word
    BY <2>1, MsgType
  <2>3. FirstPass(pkt)
    BY <1>6 DEF SwitchFirstPass
  <2>. HIDE DEF pkt
  <2>. QED
    BY <1>6, <2>1, <2>2, <2>3, FirstPassType DEF SwitchFirstPass, qpVars
<1>7. ASSUME NEW r \in Rank, SwitchBackward(r) PROVE TypeOK'
  BY <1>7, TailType, EnqueueType DEF SwitchBackward, switchVars, qpVars
<1>8. ASSUME NEW r \in Rank, LoseUp(r) PROVE TypeOK'
  BY <1>8, TailType DEF LoseUp, switchVars, qpVars
<1>9. ASSUME NEW r \in Rank, LoseDown(r) PROVE TypeOK'
  BY <1>9, TailType DEF LoseDown, switchVars, qpVars
<1>10. CASE UNCHANGED vars
  BY <1>10 DEF vars, switchVars, qpVars
<1>. QED
  BY <1>1, <1>2, <1>3, <1>4, <1>5, <1>6, <1>7, <1>8, <1>9, <1>10 DEF Next

\* Every reachable state of the allreduce group is type correct.
THEOREM TypeCorrect == Spec => []TypeOK
  BY TypeInit, TypeStep, PTL DEF Spec

-----------------------------------------------------------------------------
(* Queues. *)

\* What is behind the head of a queue.
LEMMA TailElement ==
    ASSUME NEW S, NEW q \in Seq(S), q # << >>
    PROVE  /\ Head(q) \in Range(q) /\ Head(q) = q[1] /\ 1 \in 1..Len(q)
           /\ \A j \in 1..Len(Tail(q)) : j + 1 \in 1..Len(q) /\ Tail(q)[j] = q[j + 1]
           /\ Range(Tail(q)) \subseteq Range(q)
           /\ \A m \in Range(Tail(q)) : \E b \in 1..Len(q) : 1 < b /\ m = q[b]
<1>1. Len(q) \in Nat /\ Len(q) > 0 /\ DOMAIN q = 1..Len(q) /\ Head(q) = q[1]
  OBVIOUS
<1>2. Len(Tail(q)) = Len(q) - 1 /\ DOMAIN Tail(q) = 1..(Len(q) - 1)
  OBVIOUS
<1>3. \A j \in 1..(Len(q) - 1) : Tail(q)[j] = q[j + 1]
  OBVIOUS
<1>4. \A j \in 1..Len(Tail(q)) : j + 1 \in 1..Len(q) /\ 1 < j + 1 /\ Tail(q)[j] = q[j + 1]
  BY <1>1, <1>2, <1>3
<1>5. \A m \in Range(Tail(q)) : \E b \in 1..Len(q) : 1 < b /\ m = q[b]
  BY <1>1, <1>2, <1>4 DEF Range
<1>6. Range(q) = {q[j] : j \in 1..Len(q)}
  BY <1>1 DEF Range
<1>. QED
  BY <1>1, <1>4, <1>5, <1>6

\* What is in a queue after an arrival, dropped or not.
LEMMA EnqueueElement ==
    ASSUME NEW S, NEW q \in Seq(S), NEW m \in S
    PROVE  /\ \A a, b \in 1..Len(Enqueue(q, m)) : a < b =>
                /\ a \in 1..Len(q) /\ Enqueue(q, m)[a] = q[a]
                /\ (b \in 1..Len(q) /\ Enqueue(q, m)[b] = q[b]) \/ Enqueue(q, m)[b] = m
           /\ Range(Enqueue(q, m)) \subseteq Range(q) \cup {m}
<1>1. CASE ~(Len(q) < QueueCap)
  BY <1>1 DEF Enqueue
<1>2. CASE Len(q) < QueueCap
  <2>1. Enqueue(q, m) = Append(q, m) /\ Len(q) \in Nat
    BY <1>2 DEF Enqueue
  <2>2. Len(Append(q, m)) = Len(q) + 1 /\ DOMAIN Append(q, m) = 1..(Len(q) + 1)
        /\ DOMAIN q = 1..Len(q)
    OBVIOUS
  <2>3. \A j \in 1..Len(q) : Append(q, m)[j] = q[j]
    OBVIOUS
  <2>4. Append(q, m)[Len(q) + 1] = m
    OBVIOUS
  <2>5. \A j \in 1..(Len(q) + 1) : j \in 1..Len(q) \/ j = Len(q) + 1
    BY <2>1
  <2>6. \A a, b \in 1..(Len(q) + 1) : a < b => a \in 1..Len(q)
    BY <2>1
  <2>7. Range(Append(q, m)) \subseteq Range(q) \cup {m}
    BY <2>2, <2>3, <2>4, <2>5 DEF Range
  <2>8. \A a, b \in 1..Len(Append(q, m)) : a < b =>
          /\ a \in 1..Len(q) /\ Append(q, m)[a] = q[a]
          /\ (b \in 1..Len(q) /\ Append(q, m)[b] = q[b]) \/ Append(q, m)[b] = m
    BY <2>2, <2>3, <2>4, <2>5, <2>6
  <2>. QED
    BY <2>1, <2>7, <2>8
<1>. QED
  BY <1>1, <1>2

\* A position of a queue holds an element of its range.
LEMMA RangeElement ==
    ASSUME NEW S, NEW q \in Seq(S)
    PROVE  /\ \A j \in 1..Len(q) : q[j] \in Range(q)
           /\ Range(q) \subseteq S
  BY DEF Range

\* Taking the head keeps a queue in order, and what is left is in order with
\* the head.
LEMMA DataFifoTail ==
    ASSUME NEW q \in Seq(Msg), q # << >>, DataFifoLag(q)
    PROVE  /\ DataFifoLag(Tail(q))
           /\ IsData(Head(q)) => \A m \in Range(Tail(q)) :
                IsData(m) => Head(q).idx < m.idx + ServerWin
<1>1. \A a, b \in 1..Len(Tail(q)) : a < b => a + 1 < b + 1
  OBVIOUS
<1>2. DataFifoLag(Tail(q))
  BY <1>1, TailElement DEF DataFifoLag
<1>3. ASSUME IsData(Head(q)), NEW m \in Range(Tail(q)), IsData(m)
      PROVE  Head(q).idx < m.idx + ServerWin
  BY <1>3, TailElement DEF DataFifoLag
<1>. QED
  BY <1>2, <1>3

\* The same for the recirculation port.
LEMMA FifoTail ==
    ASSUME NEW q \in Seq(RecirPkt), q # << >>, FifoLag(q)
    PROVE  /\ FifoLag(Tail(q))
           /\ \A p \in Range(Tail(q)) : Head(q).idx < p.idx + ServerWin
<1>1. \A a, b \in 1..Len(Tail(q)) : a < b => a + 1 < b + 1
  OBVIOUS
<1>2. FifoLag(Tail(q))
  BY <1>1, TailElement DEF FifoLag
<1>3. ASSUME NEW p \in Range(Tail(q))
      PROVE  Head(q).idx < p.idx + ServerWin
  BY <1>3, TailElement DEF FifoLag
<1>. QED
  BY <1>2, <1>3

\* And for the acknowledgements of a link.
LEMMA AckTail ==
    ASSUME NEW q \in Seq(Msg), q # << >>, AckSorted(q)
    PROVE  /\ AckSorted(Tail(q))
           /\ ~IsData(Head(q)) => \A m \in Range(Tail(q)) :
                ~IsData(m) => AckValue(Head(q)) <= AckValue(m)
<1>1. \A a, b \in 1..Len(Tail(q)) : a < b => a + 1 < b + 1
  OBVIOUS
<1>2. AckSorted(Tail(q))
  BY <1>1, TailElement DEF AckSorted
<1>3. ASSUME ~IsData(Head(q)), NEW m \in Range(Tail(q)), ~IsData(m)
      PROVE  AckValue(Head(q)) <= AckValue(m)
  BY <1>3, TailElement DEF AckSorted
<1>. QED
  BY <1>2, <1>3

\* A packet that is in order with what is in a queue keeps the queue in order.
LEMMA DataFifoEnqueue ==
    ASSUME NEW q \in Seq(Msg), NEW m \in Msg, DataFifoLag(q),
           IsData(m) => \A o \in Range(q) : IsData(o) => o.idx < m.idx + ServerWin
    PROVE  DataFifoLag(Enqueue(q, m))
<1>. DEFINE e == Enqueue(q, m)
<1>1. \A a, b \in 1..Len(e) : a < b =>
        /\ a \in 1..Len(q) /\ e[a] = q[a]
        /\ (b \in 1..Len(q) /\ e[b] = q[b]) \/ e[b] = m
  BY EnqueueElement
<1>2. \A a \in 1..Len(q) : q[a] \in Range(q)
  BY RangeElement
<1>. HIDE DEF e
<1>3. DataFifoLag(e)
  BY <1>1, <1>2 DEF DataFifoLag
<1>. QED
  BY <1>3 DEF e

LEMMA FifoEnqueue ==
    ASSUME NEW q \in Seq(RecirPkt), NEW m \in RecirPkt, FifoLag(q),
           \A o \in Range(q) : o.idx < m.idx + ServerWin
    PROVE  FifoLag(Enqueue(q, m))
<1>. DEFINE e == Enqueue(q, m)
<1>1. \A a, b \in 1..Len(e) : a < b =>
        /\ a \in 1..Len(q) /\ e[a] = q[a]
        /\ (b \in 1..Len(q) /\ e[b] = q[b]) \/ e[b] = m
  BY EnqueueElement
<1>2. \A a \in 1..Len(q) : q[a] \in Range(q)
  BY RangeElement
<1>. HIDE DEF e
<1>3. FifoLag(e)
  BY <1>1, <1>2 DEF FifoLag
<1>. QED
  BY <1>3 DEF e

LEMMA AckEnqueue ==
    ASSUME NEW q \in Seq(Msg), NEW m \in Msg, AckSorted(q),
           ~IsData(m) => \A o \in Range(q) : ~IsData(o) => AckValue(o) <= AckValue(m)
    PROVE  AckSorted(Enqueue(q, m))
<1>. DEFINE e == Enqueue(q, m)
<1>1. \A a, b \in 1..Len(e) : a < b =>
        /\ a \in 1..Len(q) /\ e[a] = q[a]
        /\ (b \in 1..Len(q) /\ e[b] = q[b]) \/ e[b] = m
  BY EnqueueElement
<1>2. \A a \in 1..Len(q) : q[a] \in Range(q)
  BY RangeElement
<1>. HIDE DEF e
<1>3. AckSorted(e)
  BY <1>1, <1>2 DEF AckSorted
<1>. QED
  BY <1>3 DEF e

-----------------------------------------------------------------------------
(* Distances. *)

\* The numbers that a queue pair works with.
LEMMA CounterType ==
    ASSUME TypeOK, NEW r \in Rank
    PROVE  /\ una[r] \in Nat /\ nxt[r] \in Nat /\ hi[r] \in Nat /\ epsn[r] \in Nat
           /\ uplink[r] \in Seq(Msg) /\ downlink[r] \in Seq(Msg)
  BY DEF TypeOK

\* The packets on the links of a rank.
LEMMA LinkType ==
    ASSUME TypeOK, NEW r \in Rank
    PROVE  /\ \A m \in UpData(r) \cup DownData(r) :
                m \in Msg /\ IsData(m) /\ m.idx \in Idx /\ m.idx \in Nat
           /\ \A m \in UpAcks(r) \cup DownAcks(r) :
                m \in Msg /\ m.idx \in Int /\ AckValue(m) \in Int
<1>1. Range(uplink[r]) \subseteq Msg /\ Range(downlink[r]) \subseteq Msg
  BY CounterType, RangeElement
<1>2. \A m \in Msg : m.idx \in Int /\ (IsData(m) => m.idx \in Idx)
  BY MsgType DEF IsData
<1>3. \A i \in Idx : i \in Nat
  BY IdxType
<1>. QED
  BY <1>1, <1>2, <1>3 DEF UpData, DownData, UpAcks, DownAcks, AckValue

\* The register of a packet's slot.
LEMMA SlotType ==
    ASSUME TypeOK, NEW k \in Nat
    PROVE  /\ SlotOf(k) \in Slot
           /\ Version(k) \in Nat
           /\ Bits(k) \subseteq Rank
<1>1. SlotOf(k) \in Slot
  BY SlotIsMod
<1>. QED
  BY <1>1 DEF TypeOK, Version, Bits

\* All ranks stay within two server windows of each other, and nobody has sent
\* a packet from k + W on while nobody is a server window ahead of packet k.
LEMMA WindowBound ==
    ASSUME TypeOK, QueuePairInv, NEW k \in Nat, NEW s \in Rank,
           epsn[s] <= k + ServerWin
    PROVE  hi[s] <= k + W
  BY CounterType, HalfWindow, Moduli DEF QueuePairInv

\* So the slot of packet k is not in use for a newer packet.
LEMMA VersionBound ==
    ASSUME TypeOK, QueuePairInv, SlotInv, NEW k \in Nat,
           \A s \in Rank : epsn[s] <= k + ServerWin
    PROVE  Version(k) <= k
<1>1. SlotOf(k) \in Slot /\ Version(k) \in Nat /\ Bits(k) \subseteq Rank
  BY SlotType
<1>2. CASE Bits(k) = {} /\ Version(k) = 0
  BY <1>2
<1>3. CASE Bits(k) # {} /\ SlotOf(Version(k)) = SlotOf(k)
           /\ \A s \in Bits(k) : Version(k) < hi[s]
  <2>1. PICK s \in Rank : Version(k) < hi[s]
    BY <1>1, <1>3
  <2>2. hi[s] <= k + W
    BY WindowBound
  <2>3. ~(Version(k) < k + W) \/ ~(k < Version(k))
    BY <1>1, <1>3, SlotApart, Moduli
  <2>. QED
    BY <1>1, <2>1, <2>2, <2>3, CounterType, Moduli
<1>. QED
  BY <1>1, <1>2, <1>3 DEF SlotInv, Version, Bits

-----------------------------------------------------------------------------
(* One lemma for each action. *)

\* A packet that a rank transmits, for the first time or again: everything it
\* could be confused with is less than a server window ahead of it.
LEMMA SendStep ==
    ASSUME IInv, NEW r \in Rank, Send(r)
    PROVE  IInv'
<1>. DEFINE k == nxt[r]
            v == buf[r][k]
            m == Data(k, v)
<1>. USE DEF IInv
<1>t. TypeOK'
  BY TypeStep DEF Next
<1>1. /\ UNCHANGED <<reg_bitmap, aggregator_array, recir, buf, una, epsn, downlink>>
      /\ k < N /\ k < una[r] + ServerWin
      /\ hi' = [hi EXCEPT ![r] = IF @ > k THEN @ ELSE k + 1]
      /\ nxt' = [nxt EXCEPT ![r] = @ + 1]
      /\ uplink' = [uplink EXCEPT ![r] = Enqueue(@, m)]
  BY DEF Send, switchVars, Enqueue
<1>2. /\ k \in Idx /\ k \in Nat
      /\ m \in Msg /\ IsData(m) /\ m.idx = k /\ m.d0 = v.d0 /\ m.d1 = v.d1
  <2>1. k \in Idx /\ k \in Nat
    BY <1>1, CounterType, NAssumption DEF Idx
  <2>2. v.d0 \in Word /\ v.d1 \in Word
    BY <2>1 DEF TypeOK
  <2>3. m \in Msg
    BY <2>1, <2>2, DataType
  <2>. QED
    BY <2>1, <2>3 DEF Data, IsData
<1>3. una[r] <= k /\ hi[r] <= k + ServerWin /\ hi[r] <= hi'[r] /\ k < hi'[r]
      /\ \A s \in Rank : hi'[s] \in Nat /\ hi[s] <= hi'[s]
  <2>1. /\ hi'[r] = IF hi[r] > k THEN hi[r] ELSE k + 1
        /\ \A s \in Rank : s # r => hi'[s] = hi[s]
    BY <1>1 DEF TypeOK
  <2>2. \A s \in Rank : hi[s] \in Nat
    BY DEF TypeOK
  <2>3. una[r] <= k /\ hi[r] <= una[r] + ServerWin
    BY DEF QueuePairInv
  <2>4. hi'[r] \in Nat /\ hi[r] <= hi'[r] /\ k < hi'[r]
    BY <2>1, <2>2, <1>2
  <2>5. hi[r] <= k + ServerWin
    BY <2>3, <1>2, CounterType, HalfWindow
  <2>. QED
    BY <2>1, <2>2, <2>3, <2>4, <2>5
<1>4. \A s \in Rank : \A o \in UpData(s)' : o \in UpData(s) \/ (s = r /\ o = m)
  BY <1>1, <1>2, CounterType, EnqueueElement, SMTT(30) DEF UpData, TypeOK
<1>5. \A s \in Rank : \A o \in UpAcks(s)' : o \in UpAcks(s) \/ (s = r /\ o = m /\ ~IsData(m))
  BY <1>1, <1>2, CounterType, EnqueueElement, SMTT(30) DEF UpAcks, TypeOK
<1>. HIDE DEF m, v, k
<1>6. QueuePairInv'
  <2>1. ASSUME NEW s \in Rank
        PROVE  una[s] <= nxt'[s] /\ nxt'[s] <= hi'[s] /\ hi'[s] <= una[s] + ServerWin /\ hi'[s] <= N
    <3>1. CASE s = r
      <4>1. nxt'[r] = k + 1 /\ hi'[r] = IF hi[r] > k THEN hi[r] ELSE k + 1
        BY <1>1 DEF TypeOK, k
      <4>2. hi[r] <= una[r] + ServerWin /\ hi[r] <= N
        BY DEF QueuePairInv
      <4>. QED
        BY <3>1, <4>1, <4>2, <1>1, <1>2, <1>3, CounterType, HalfWindow, NAssumption
    <3>2. CASE s # r
      BY <3>2, <1>1 DEF QueuePairInv, TypeOK
    <3>. QED
      BY <3>1, <3>2
  <2>2. \A s, t \in Rank : epsn[s] <= hi'[t]
    BY <1>3, CounterType DEF QueuePairInv
  <2>. QED
    BY <1>1, <2>1, <2>2 DEF QueuePairInv
<1>7. SlotInv'
  <2>1. \A c \in Slot : reg_bitmap[c].version \in Nat /\ reg_bitmap[c].bitmap \subseteq Rank
    BY DEF TypeOK
  <2>2. \A c \in Slot : (\A s \in reg_bitmap[c].bitmap : reg_bitmap[c].version < hi[s])
          => \A s \in reg_bitmap[c].bitmap : reg_bitmap[c].version < hi'[s]
    BY <2>1, <1>3, CounterType
  <2>. QED
    BY <1>1, <2>2 DEF SlotInv
<1>8. UplinkInv'
  <2>1. ASSUME NEW s \in Rank PROVE DataFifoLag(uplink'[s])
    <3>1. \A o \in Range(uplink[r]) : IsData(o) => o.idx < k + ServerWin
      <4>1. \A o \in UpData(r) : o.idx < hi[r] /\ o.idx \in Nat
        BY LinkType DEF UplinkInv
      <4>. QED
        BY <4>1, <1>2, <1>3, CounterType, HalfWindow DEF UpData
    <3>2. DataFifoLag(Enqueue(uplink[r], m))
      BY <3>1, <1>2, CounterType, DataFifoEnqueue DEF UplinkInv
    <3>. QED
      BY <3>2, <1>1 DEF UplinkInv, TypeOK
  <2>2. ASSUME NEW s \in Rank, NEW o \in UpData(s)
        PROVE  /\ o.idx < hi'[s]
               /\ o.d0 = o.d1
               /\ o.d0 = {<<s, o.idx>>} \/ (Version(o.idx) = o.idx /\ s \in Bits(o.idx))
               /\ \A c \in Slot : s \in reg_bitmap[c].bitmap
                    => reg_bitmap[c].version < o.idx + ServerWin
               /\ NotFarBehind(o.idx)
    BY <1>3, CounterType, LinkType DEF UplinkInv
  <2>3. /\ m.d0 = m.d1
        /\ m.d0 = {<<r, k>>} \/ (Version(k) = k /\ r \in Bits(k))
    <3>1. v = IF k < epsn[r] THEN Reduced(k) ELSE Own(r, k)
      BY <1>2 DEF ResultExact, v
    <3>2. CASE ~(k < epsn[r])
      BY <3>1, <3>2, <1>2 DEF Own
    <3>3. CASE k < epsn[r]
      <4>1. Served(k)
        BY <3>3, <1>2 DEF DeliveredInv
      <4>2. \A s \in Rank : epsn[s] <= k + ServerWin
        BY <1>2, <1>3, CounterType, HalfWindow DEF QueuePairInv
      <4>3. Version(k) = k
        BY <4>1, <4>2, <1>2, VersionBound, SlotType DEF Served
      <4>. QED
        BY <3>1, <3>3, <4>1, <4>3, <1>2 DEF Served, Reduced
    <3>. QED
      BY <3>2, <3>3
  <2>4. \A c \in Slot : r \in reg_bitmap[c].bitmap => reg_bitmap[c].version < k + ServerWin
    <3>1. ASSUME NEW c \in Slot, r \in reg_bitmap[c].bitmap
          PROVE  reg_bitmap[c].version < k + ServerWin
      <4>1. reg_bitmap[c].version < hi[r]
        BY <3>1 DEF SlotInv
      <4>2. reg_bitmap[c].version \in Nat
        BY DEF TypeOK
      <4>. QED
        BY <4>1, <4>2, <1>2, <1>3, CounterType, HalfWindow
    <3>. QED
      BY <3>1
  <2>5. NotFarBehind(k)
    <3>1. ASSUME NEW s \in Rank PROVE epsn[s] <= k + ServerWin
      BY <1>2, <1>3, CounterType, HalfWindow DEF QueuePairInv
    <3>2. ASSUME NEW s \in Rank, NEW d \in DownData(s) PROVE d.idx < k + ServerWin
      <4>1. d.idx < hi[r] /\ d.idx \in Nat
        BY LinkType DEF DownlinkInv
      <4>. QED
        BY <4>1, <1>2, <1>3, CounterType, HalfWindow
    <3>. QED
      BY <3>1, <3>2 DEF NotFarBehind
  <2>6. \A i : Version(i)' = Version(i) /\ Bits(i)' = Bits(i) /\ (NotFarBehind(i) => NotFarBehind(i)')
    BY <1>1 DEF Version, Bits, NotFarBehind, DownData
  <2>. QED
    BY <1>1, <1>2, <1>3, <1>4, <2>1, <2>2, <2>3, <2>4, <2>5, <2>6 DEF UplinkInv
<1>9. RecirInv'
  BY <1>1 DEF RecirInv, Version, Bits, NotFarBehind, DownData
<1>10. DownlinkInv'
  BY <1>1, <1>3, CounterType, LinkType DEF DownlinkInv, Served, Version, Bits, DownData
<1>11. AckInv'
  <2>1. ASSUME NEW s \in Rank PROVE AckSorted(uplink'[s])
    <3>1. AckSorted(Enqueue(uplink[r], m))
      BY <1>2, CounterType, AckEnqueue DEF AckInv
    <3>. QED
      BY <3>1, <1>1 DEF AckInv, TypeOK
  <2>. QED
    BY <1>1, <1>2, <1>5, <2>1 DEF AckInv, DownAcks
<1>12. DeliveredInv' /\ ResultExact'
  BY <1>1 DEF DeliveredInv, Served, Version, Bits, ResultExact
<1>. QED
  BY <1>t, <1>6, <1>7, <1>8, <1>9, <1>10, <1>11, <1>12

\* A packet that disappears from the head of a queue, because it was lost or
\* used up, disturbs nothing that is said about the others.
LEMMA ShrinkStep ==
    ASSUME IInv, TypeOK',
           UNCHANGED <<reg_bitmap, aggregator_array, buf, hi, epsn>>,
           recir' = recir \/ (recir # << >> /\ recir' = Tail(recir)),
           \A s \in Rank : \/ uplink'[s] = uplink[s]
                           \/ uplink[s] # << >> /\ uplink'[s] = Tail(uplink[s]),
           \A s \in Rank : \/ downlink'[s] = downlink[s]
                           \/ downlink[s] # << >> /\ downlink'[s] = Tail(downlink[s])
    PROVE  /\ SlotInv' /\ UplinkInv' /\ RecirInv' /\ DownlinkInv'
           /\ DeliveredInv' /\ ResultExact'
           /\ \A s \in Rank : /\ AckSorted(downlink'[s]) /\ AckSorted(uplink'[s])
                              /\ DownAcks(s)' \subseteq DownAcks(s)
                              /\ UpAcks(s)' \subseteq UpAcks(s)
           /\ una' = una => AckInv'
<1>. USE DEF IInv
<1>1. ASSUME NEW s \in Rank
      PROVE  /\ Range(uplink'[s]) \subseteq Range(uplink[s])
             /\ DataFifoLag(uplink'[s]) /\ AckSorted(uplink'[s])
  <2>1. uplink[s] \in Seq(Msg) /\ DataFifoLag(uplink[s]) /\ AckSorted(uplink[s])
    BY CounterType DEF UplinkInv, AckInv
  <2>. QED
    BY <2>1, TailElement, DataFifoTail, AckTail
<1>2. ASSUME NEW s \in Rank
      PROVE  /\ Range(downlink'[s]) \subseteq Range(downlink[s])
             /\ DataFifoLag(downlink'[s]) /\ AckSorted(downlink'[s])
  <2>1. downlink[s] \in Seq(Msg) /\ DataFifoLag(downlink[s]) /\ AckSorted(downlink[s])
    BY CounterType DEF DownlinkInv, AckInv
  <2>. QED
    BY <2>1, TailElement, DataFifoTail, AckTail
<1>3. Range(recir') \subseteq Range(recir) /\ FifoLag(recir')
  <2>1. recir \in Seq(RecirPkt) /\ FifoLag(recir)
    BY DEF TypeOK, RecirInv
  <2>. QED
    BY <2>1, TailElement, FifoTail
<1>4. \A s \in Rank : /\ UpData(s)' \subseteq UpData(s)
                      /\ UpAcks(s)' \subseteq UpAcks(s)
                      /\ DownData(s)' \subseteq DownData(s)
                      /\ DownAcks(s)' \subseteq DownAcks(s)
  BY <1>1, <1>2 DEF UpData, UpAcks, DownData, DownAcks
<1>5. \A i : /\ Version(i)' = Version(i) /\ Bits(i)' = Bits(i)
             /\ Served(i) => Served(i)'
  BY DEF Version, Bits, Served
<1>6. \A i : NotFarBehind(i) => NotFarBehind(i)'
  BY <1>4 DEF NotFarBehind
<1>7. SlotInv'
  BY DEF SlotInv
<1>8. UplinkInv'
  BY <1>1, <1>4, <1>5, <1>6 DEF UplinkInv
<1>9. RecirInv'
  BY <1>3, <1>5, <1>6 DEF RecirInv
<1>10. DownlinkInv'
  BY <1>2, <1>4, <1>5 DEF DownlinkInv
<1>11. una' = una => AckInv'
  BY <1>1, <1>2, <1>4 DEF AckInv
<1>12. DeliveredInv' /\ ResultExact'
  BY <1>5 DEF DeliveredInv, ResultExact
<1>. QED
  BY <1>1, <1>2, <1>4, <1>7, <1>8, <1>9, <1>10, <1>11, <1>12

\* The transport timer.
LEMMA TimeoutStep ==
    ASSUME IInv, NEW r \in Rank, Timeout(r)
    PROVE  IInv'
<1>. USE DEF IInv
<1>1. TypeOK'
  BY TypeStep DEF Next
<1>2. UNCHANGED <<reg_bitmap, aggregator_array, recir, buf, una, hi, epsn, uplink, downlink>>
      /\ nxt' = [nxt EXCEPT ![r] = una[r]]
  BY DEF Timeout, switchVars
<1>3. QueuePairInv'
  <2>1. \A s \in Rank : nxt'[s] = nxt[s] \/ nxt'[s] = una[s]
    BY <1>2 DEF TypeOK
  <2>. QED
    BY <1>2, <2>1, CounterType DEF QueuePairInv
<1>. QED
  BY <1>1, <1>2, <1>3, ShrinkStep

\* What an acknowledgement at the head of the downlink says: its number is not
\* mistaken for another one on the circle, and a stale one is recognised.
LEMMA AckMeaning ==
    ASSUME IInv, NEW r \in Rank, NEW kind \in {"ack", "nak"},
           Take(r, kind), Outstanding(r)
    PROVE  /\ AckedPacket(r) = Head(downlink[r]).idx
           /\ Head(downlink[r]) \in DownAcks(r)
           /\ una[r] <= AckedPacket(r) /\ AckedPacket(r) < hi[r]
           /\ AckedPacket(r) \in Nat
<1>. USE DEF IInv
<1>. DEFINE h == Head(downlink[r])
<1>1. downlink[r] # << >> /\ h.kind = kind /\ downlink[r] \in Seq(Msg)
  BY CounterType DEF Take
<1>2. h \in DownAcks(r)
  BY <1>1, TailElement DEF DownAcks, IsData
<1>3. h.idx \in Int /\ una[r] <= AckValue(h) /\ AckValue(h) <= epsn[r]
  BY <1>2, LinkType DEF AckInv
<1>4. AckedPacket(r) = una[r] + Ahead(h.idx, una[r]) /\ AckedPacket(r) < hi[r]
  BY DEF AckedPacket, Outstanding
<1>5. epsn[r] <= hi[r] /\ hi[r] <= una[r] + ServerWin /\ una[r] \in Nat
      /\ epsn[r] \in Nat /\ hi[r] \in Nat
  BY CounterType DEF QueuePairInv
<1>6. AckValue(h) = h.idx \/ AckValue(h) = h.idx + 1
  BY DEF AckValue
<1>. HIDE DEF h
<1>7. CASE una[r] <= h.idx
  <2>1. h.idx < una[r] + PsnMod
    BY <1>3, <1>5, <1>6, HalfWindow, Moduli
  <2>2. Ahead(h.idx, una[r]) = h.idx - una[r]
    BY <2>1, <1>3, <1>5, <1>7, AheadForward
  <2>. QED
    BY <1>2, <1>3, <1>4, <1>5, <1>7, <2>2 DEF h
<1>8. CASE h.idx < una[r]
  <2>1. h.idx = una[r] - 1
    BY <1>3, <1>5, <1>6, <1>8
  <2>2. Ahead(h.idx, una[r]) = PsnMod - 1
    BY <2>1, <1>3, <1>5, <1>8, AheadBackward, Moduli
  <2>. QED
    BY <2>2, <1>4, <1>5, HalfWindow, Moduli
<1>. QED
  BY <1>3, <1>5, <1>7, <1>8

\* An acknowledgement moves the requester's window.
LEMMA RecvAckStep ==
    ASSUME IInv, NEW r \in Rank, RecvAck(r) \/ RecvNak(r)
    PROVE  IInv'
<1>. USE DEF IInv
<1>. DEFINE h == Head(downlink[r])
            a == AckValue(h)
<1>1. TypeOK'
  BY TypeStep DEF Next, Receive
<1>2. /\ UNCHANGED <<reg_bitmap, aggregator_array, recir, buf, hi, epsn, uplink>>
      /\ downlink[r] # << >> /\ downlink' = [downlink EXCEPT ![r] = Tail(@)]
  BY DEF RecvAck, RecvNak, Take, switchVars
<1>3. /\ h \in DownAcks(r) /\ h.idx \in Nat /\ una[r] <= h.idx /\ h.idx < hi[r]
      /\ AckedPacket(r) = h.idx
      /\ (h.kind = "ack" /\ RecvAck(r)) \/ (h.kind = "nak" /\ RecvNak(r))
  <2>1. CASE RecvAck(r)
    <3>1. Take(r, "ack") /\ Outstanding(r) /\ h.kind = "ack"
      BY <2>1 DEF RecvAck, Take
    <3>. QED
      BY <2>1, <3>1, AckMeaning
  <2>2. CASE RecvNak(r)
    <3>1. Take(r, "nak") /\ Outstanding(r) /\ h.kind = "nak"
      BY <2>2 DEF RecvNak, Take
    <3>. QED
      BY <2>2, <3>1, AckMeaning
  <2>. QED
    BY <2>1, <2>2
<1>4. a \in Nat /\ una[r] <= a /\ a <= hi[r] /\ a <= epsn[r]
  BY <1>3, CounterType DEF AckInv, AckValue
<1>5. /\ una' = [una EXCEPT ![r] = a]
      /\ nxt'[r] = a \/ (nxt'[r] = nxt[r] /\ nxt[r] >= a)
      /\ \A s \in Rank : s # r => nxt'[s] = nxt[s]
  <2>1. CASE h.kind = "ack" /\ RecvAck(r)
    <3>1. a = h.idx + 1
      BY <2>1 DEF AckValue
    <3>2. una' = [una EXCEPT ![r] = a]
      BY <2>1, <3>1, <1>3 DEF RecvAck
    <3>3. nxt' = [nxt EXCEPT ![r] = IF nxt[r] > h.idx THEN nxt[r] ELSE a]
      BY <2>1, <3>1, <1>3 DEF RecvAck
    <3>4. nxt[r] > h.idx => nxt[r] >= a
      BY <3>1, <1>3, CounterType
    <3>. QED
      BY <3>2, <3>3, <3>4 DEF TypeOK
  <2>2. CASE h.kind = "nak" /\ RecvNak(r)
    <3>1. a = h.idx
      BY <2>2 DEF AckValue
    <3>. QED
      BY <2>2, <3>1, <1>3, CounterType DEF RecvNak, TypeOK
  <2>. QED
    BY <1>3, <2>1, <2>2
<1>6. una'[r] = a /\ \A s \in Rank : s # r => una'[s] = una[s]
  BY <1>5 DEF TypeOK
<1>7. \A s \in Rank : \/ downlink'[s] = downlink[s]
                      \/ downlink[s] # << >> /\ downlink'[s] = Tail(downlink[s])
  BY <1>2 DEF TypeOK
<1>8. /\ SlotInv' /\ UplinkInv' /\ RecirInv' /\ DownlinkInv'
      /\ DeliveredInv' /\ ResultExact'
      /\ \A s \in Rank : /\ AckSorted(downlink'[s]) /\ AckSorted(uplink'[s])
                         /\ DownAcks(s)' \subseteq DownAcks(s)
                         /\ UpAcks(s)' \subseteq UpAcks(s)
  BY <1>1, <1>2, <1>7, ShrinkStep
<1>9. \A m \in DownAcks(r)' \cup UpAcks(r)' : a <= AckValue(m)
  <2>1. \A m \in Range(Tail(downlink[r])) : ~IsData(m) => a <= AckValue(m)
    BY <1>2, <1>3, CounterType, AckTail DEF AckInv, DownAcks
  <2>2. \A m \in DownAcks(r)' : a <= AckValue(m)
    BY <1>2, <2>1 DEF DownAcks, TypeOK
  <2>3. \A m \in UpAcks(r) : a <= AckValue(m)
    BY <1>3 DEF AckInv
  <2>. QED
    BY <1>8, <2>2, <2>3
<1>. HIDE DEF a, h
<1>10. QueuePairInv'
  <2>1. ASSUME NEW s \in Rank
        PROVE  /\ una'[s] <= nxt'[s] /\ nxt'[s] <= hi[s]
               /\ hi[s] <= una'[s] + ServerWin /\ una'[s] <= epsn[s]
    <3>1. CASE s = r
      BY <3>1, <1>4, <1>5, <1>6, CounterType, HalfWindow DEF QueuePairInv
    <3>2. CASE s # r
      BY <3>2, <1>5, <1>6 DEF QueuePairInv
    <3>. QED
      BY <3>1, <3>2
  <2>. QED
    BY <1>2, <2>1 DEF QueuePairInv
<1>11. AckInv'
  <2>1. ASSUME NEW s \in Rank, NEW m \in DownAcks(s)' \cup UpAcks(s)'
        PROVE  una'[s] <= AckValue(m) /\ AckValue(m) <= epsn[s]
    <3>1. m \in DownAcks(s) \cup UpAcks(s)
      BY <1>8
    <3>. QED
      BY <3>1, <1>6, <1>9 DEF AckInv
  <2>2. \A s \in Rank : \A d \in DownAcks(s)', u \in UpAcks(s)' : AckValue(d) <= AckValue(u)
    BY <1>8 DEF AckInv
  <2>. QED
    BY <1>2, <1>8, <2>1, <2>2 DEF AckInv
<1>. QED
  BY <1>1, <1>8, <1>10, <1>11

\* A stale acknowledgement is only taken.
LEMMA RecvStaleStep ==
    ASSUME IInv, NEW r \in Rank, RecvStale(r)
    PROVE  IInv'
<1>. USE DEF IInv
<1>1. TypeOK'
  BY TypeStep DEF Next, Receive
<1>2. /\ UNCHANGED <<reg_bitmap, aggregator_array, recir, buf, una, nxt, hi, epsn, uplink>>
      /\ downlink[r] # << >> /\ downlink' = [downlink EXCEPT ![r] = Tail(@)]
  BY DEF RecvStale, Take, switchVars, qpVars
<1>3. \A s \in Rank : \/ downlink'[s] = downlink[s]
                      \/ downlink[s] # << >> /\ downlink'[s] = Tail(downlink[s])
  BY <1>2 DEF TypeOK
<1>. QED
  BY <1>1, <1>2, <1>3, ShrinkStep DEF QueuePairInv

\* The losses.
LEMMA LoseStep ==
    ASSUME IInv, LoseRecir \/ \E r \in Rank : LoseUp(r) \/ LoseDown(r)
    PROVE  IInv'
<1>. USE DEF IInv
<1>1. TypeOK'
  BY TypeStep DEF Next
<1>2. /\ UNCHANGED <<reg_bitmap, aggregator_array, buf, una, nxt, hi, epsn>>
      /\ recir' = recir \/ (recir # << >> /\ recir' = Tail(recir))
      /\ \A s \in Rank : \/ uplink'[s] = uplink[s]
                         \/ uplink[s] # << >> /\ uplink'[s] = Tail(uplink[s])
      /\ \A s \in Rank : \/ downlink'[s] = downlink[s]
                         \/ downlink[s] # << >> /\ downlink'[s] = Tail(downlink[s])
  <2>1. CASE LoseRecir
    BY <2>1 DEF LoseRecir, qpVars
  <2>2. CASE \E r \in Rank : LoseUp(r)
    BY <2>2 DEF LoseUp, qpVars, switchVars, TypeOK
  <2>3. CASE \E r \in Rank : LoseDown(r)
    BY <2>3 DEF LoseDown, qpVars, switchVars, TypeOK
  <2>. QED
    BY <2>1, <2>2, <2>3
<1>. QED
  BY <1>1, <1>2, ShrinkStep DEF QueuePairInv

\* The responder takes a result and answers with what it has now: after the
\* expected result it has one more, after any other nothing changes.
LEMMA RecvDataStep ==
    ASSUME IInv, TypeOK', NEW r \in Rank, Take(r, "data"),
           UNCHANGED <<reg_bitmap, aggregator_array, recir, una, nxt, hi>>,
           NEW m \in Msg, ~IsData(m), AckValue(m) = epsn'[r],
           uplink' = [uplink EXCEPT ![r] = Enqueue(@, m)],
           \/ epsn' = epsn /\ buf' = buf
           \/ /\ Head(downlink[r]).idx = epsn[r]
              /\ epsn' = [epsn EXCEPT ![r] = @ + 1]
              /\ buf' = [buf EXCEPT ![r][epsn[r]] =
                    [d0 |-> Head(downlink[r]).d0, d1 |-> Head(downlink[r]).d1]]
    PROVE  IInv'
<1>. USE DEF IInv
<1>. DEFINE h == Head(downlink[r])
<1>1. /\ downlink[r] \in Seq(Msg) /\ downlink[r] # << >> /\ IsData(h) /\ h \in DownData(r)
      /\ downlink' = [downlink EXCEPT ![r] = Tail(@)]
  BY CounterType, TailElement DEF Take, DownData, IsData
<1>2. /\ h.idx \in Idx /\ h.idx \in Nat
      /\ h.d0 = SumOf(h.idx) /\ h.d1 = SumOf(h.idx) /\ Served(h.idx)
      /\ \A s \in Rank : h.idx < hi[s]
  BY <1>1, LinkType DEF DownlinkInv
<1>3. /\ \A s \in Rank : s # r => epsn'[s] = epsn[s]
      /\ epsn'[r] \in Nat
      /\ epsn'[r] = epsn[r] \/ (epsn'[r] = epsn[r] + 1 /\ h.idx = epsn[r])
  BY CounterType DEF TypeOK
<1>4. \A s \in Rank : /\ DownData(s)' \subseteq DownData(s)
                      /\ DownAcks(s)' \subseteq DownAcks(s)
                      /\ DataFifoLag(downlink'[s]) /\ AckSorted(downlink'[s])
  <2>1. ASSUME NEW s \in Rank
        PROVE  /\ Range(downlink'[s]) \subseteq Range(downlink[s])
               /\ DataFifoLag(downlink'[s]) /\ AckSorted(downlink'[s])
    <3>1. downlink'[s] = downlink[s] \/ (s = r /\ downlink'[s] = Tail(downlink[s]))
      BY <1>1 DEF TypeOK
    <3>2. downlink[s] \in Seq(Msg) /\ DataFifoLag(downlink[s]) /\ AckSorted(downlink[s])
      BY CounterType DEF DownlinkInv, AckInv
    <3>. QED
      BY <1>1, <3>1, <3>2, TailElement, DataFifoTail, AckTail
  <2>. QED
    BY <2>1 DEF DownData, DownAcks
<1>5. \A s \in Rank : /\ UpData(s)' \subseteq UpData(s)
                      /\ \A o \in UpAcks(s)' : o \in UpAcks(s) \/ (s = r /\ o = m)
                      /\ DataFifoLag(uplink'[s]) /\ AckSorted(uplink'[s])
  <2>1. ASSUME NEW s \in Rank
        PROVE  /\ \A o \in Range(uplink'[s]) : o \in Range(uplink[s]) \/ (s = r /\ o = m)
               /\ DataFifoLag(uplink'[s]) /\ AckSorted(uplink'[s])
    <3>1. uplink[s] \in Seq(Msg) /\ DataFifoLag(uplink[s]) /\ AckSorted(uplink[s])
      BY CounterType DEF UplinkInv, AckInv
    <3>2. CASE s # r
      BY <3>1, <3>2 DEF TypeOK
    <3>3. CASE s = r
      <4>1. uplink'[r] = Enqueue(uplink[r], m)
        BY DEF TypeOK
      <4>2. DataFifoLag(uplink'[r])
        BY <3>1, <3>3, <4>1, DataFifoEnqueue
      <4>3. \A o \in Range(uplink[r]) : ~IsData(o) => AckValue(o) <= AckValue(m)
        <5>1. \A o \in UpAcks(r) : AckValue(o) <= epsn[r] /\ AckValue(o) \in Int
          BY LinkType DEF AckInv
        <5>. QED
          BY <5>1, <1>3, CounterType DEF UpAcks
      <4>4. AckSorted(uplink'[r])
        BY <3>1, <3>3, <4>1, <4>3, AckEnqueue
      <4>. QED
        BY <3>1, <3>3, <4>1, <4>2, <4>4, EnqueueElement
    <3>. QED
      BY <3>2, <3>3
  <2>. QED
    BY <2>1 DEF UpData, UpAcks
<1>6. \A i : /\ Version(i)' = Version(i) /\ Bits(i)' = Bits(i)
             /\ Served(i) => Served(i)'
  BY DEF Version, Bits, Served
<1>7. ASSUME NEW i \in Nat, NotFarBehind(i) PROVE NotFarBehind(i)'
  <2>1. h.idx < i + ServerWin /\ \A s \in Rank : epsn[s] <= i + ServerWin
    BY <1>1, <1>7 DEF NotFarBehind
  <2>2. \A s \in Rank : epsn'[s] <= i + ServerWin
    BY <1>2, <1>3, <2>1, CounterType, HalfWindow
  <2>. QED
    BY <1>4, <1>7, <2>2 DEF NotFarBehind
<1>. HIDE DEF h
<1>8. QueuePairInv'
  <2>1. ASSUME NEW s \in Rank PROVE una[s] <= epsn'[s] /\ \A t \in Rank : epsn'[s] <= hi[t]
    BY <1>2, <1>3, CounterType DEF QueuePairInv
  <2>. QED
    BY <2>1 DEF QueuePairInv
<1>9. SlotInv'
  BY DEF SlotInv
<1>10. UplinkInv'
  <2>1. \A s \in Rank : \A o \in UpData(s) : o.idx \in Nat
    BY LinkType
  <2>. QED
    BY <1>5, <1>6, <1>7, <2>1 DEF UplinkInv
<1>11. RecirInv'
  <2>1. \A p \in Range(recir) : p.idx \in Nat
    <3>1. \A p \in Range(recir) : p \in RecirPkt
      BY RangeElement DEF TypeOK
    <3>. QED
      BY <3>1, IdxType DEF RecirPkt
  <2>. QED
    BY <1>6, <1>7, <2>1 DEF RecirInv
<1>12. DownlinkInv'
  <2>1. ASSUME NEW s \in Rank, NEW o \in DownData(s)' PROVE epsn'[s] <= o.idx + ServerWin
    <3>1. o \in DownData(s) /\ epsn[s] <= o.idx + ServerWin
      BY <1>4 DEF DownlinkInv
    <3>2. CASE epsn'[s] = epsn[s]
      BY <3>1, <3>2
    <3>3. CASE epsn'[s] # epsn[s]
      <4>1. s = r /\ epsn'[r] = epsn[r] + 1 /\ h.idx = epsn[r]
        BY <1>3, <3>3
      <4>2. o \in Range(Tail(downlink[r])) /\ IsData(o)
        BY <1>1, <4>1 DEF DownData, TypeOK
      <4>3. h.idx < o.idx + ServerWin
        BY <1>1, <4>2, DataFifoTail DEF DownlinkInv, h
      <4>. QED
        BY <3>1, <4>1, <4>3, LinkType, CounterType, HalfWindow
    <3>. QED
      BY <3>2, <3>3
  <2>. QED
    BY <1>4, <1>6, <2>1 DEF DownlinkInv
<1>13. AckInv'
  <2>1. ASSUME NEW s \in Rank
        PROVE  /\ \A d \in DownAcks(s)' : una[s] <= AckValue(d) /\ AckValue(d) <= epsn'[s]
               /\ \A u \in UpAcks(s)' : una[s] <= AckValue(u) /\ AckValue(u) <= epsn'[s]
               /\ \A d \in DownAcks(s)', u \in UpAcks(s)' : AckValue(d) <= AckValue(u)
    <3>1. \A o \in DownAcks(s) \cup UpAcks(s) :
            una[s] <= AckValue(o) /\ AckValue(o) <= epsn[s] /\ AckValue(o) \in Int
      BY LinkType DEF AckInv
    <3>2. epsn[s] <= epsn'[s] /\ una[s] <= epsn'[s] /\ epsn'[s] \in Nat
      BY <1>3, CounterType DEF QueuePairInv
    <3>3. \A o \in DownAcks(s) \cup UpAcks(s) : AckValue(o) <= epsn'[s]
      BY <3>1, <3>2, CounterType
    <3>. QED
      BY <1>4, <1>5, <3>1, <3>2, <3>3 DEF AckInv
  <2>. QED
    BY <1>4, <1>5, <2>1 DEF AckInv
<1>14. DeliveredInv'
  <2>1. ASSUME NEW s \in Rank, NEW i \in Idx, i < epsn'[s] PROVE Served(i)
    BY <1>2, <1>3, <2>1, CounterType, IdxType DEF DeliveredInv
  <2>. QED
    BY <1>6, <2>1 DEF DeliveredInv
<1>15. ResultExact'
  <2>1. CASE epsn' = epsn /\ buf' = buf
    BY <2>1 DEF ResultExact
  <2>2. CASE /\ h.idx = epsn[r]
             /\ epsn' = [epsn EXCEPT ![r] = @ + 1]
             /\ buf' = [buf EXCEPT ![r][epsn[r]] = [d0 |-> h.d0, d1 |-> h.d1]]
    <3>1. ASSUME NEW s \in Rank, NEW i \in Idx
          PROVE  buf'[s][i] = IF i < epsn'[s] THEN Reduced(i) ELSE Own(s, i)
      <4>1. CASE s = r /\ i = epsn[r]
        BY <1>2, <2>2, <4>1, CounterType, SMTT(30) DEF TypeOK, Reduced
      <4>2. CASE s = r /\ i # epsn[r]
        <5>1. buf'[s][i] = buf[s][i] /\ epsn'[s] = epsn[s] + 1
          BY <2>2, <4>2 DEF TypeOK
        <5>2. i < epsn'[s] <=> i < epsn[s]
          BY <4>2, <5>1, CounterType, IdxType
        <5>. QED
          BY <5>1, <5>2 DEF ResultExact
      <4>3. CASE s # r
        BY <2>2, <4>3 DEF ResultExact, TypeOK
      <4>. QED
        BY <4>1, <4>2, <4>3
    <3>. QED
      BY <3>1 DEF ResultExact
  <2>. QED
    BY <2>1, <2>2 DEF h
<1>. QED
  BY <1>8, <1>9, <1>10, <1>11, <1>12, <1>13, <1>14, <1>15

\* The expected sequence number is that of the expected packet: a result on its
\* way to a rank is less than half a circle from what the rank expects.
LEMMA ExpectedMeaning ==
    ASSUME IInv, NEW r \in Rank, Take(r, "data"), Distance(r) = 0
    PROVE  Head(downlink[r]).idx = epsn[r]
<1>. USE DEF IInv
<1>. DEFINE i == Head(downlink[r]).idx
<1>1. Head(downlink[r]) \in DownData(r)
  BY CounterType, TailElement DEF Take, DownData, IsData
<1>2. i \in Nat /\ epsn[r] <= i + ServerWin /\ i < hi[r]
  BY <1>1, LinkType DEF DownlinkInv
<1>3. i < epsn[r] + PsnMod /\ epsn[r] < i + PsnMod
  <2>1. hi[r] <= una[r] + ServerWin /\ una[r] <= epsn[r]
    BY DEF QueuePairInv
  <2>2. una[r] \in Nat /\ hi[r] \in Nat /\ epsn[r] \in Nat
    BY CounterType
  <2>. HIDE DEF i
  <2>. QED
    BY <1>2, <2>1, <2>2, HalfWindow, Moduli
<1>4. Ahead(i, epsn[r]) = 0
  BY DEF Distance
<1>. HIDE DEF i
<1>5. CASE epsn[r] <= i
  <2>1. Ahead(i, epsn[r]) = i - epsn[r]
    BY <1>2, <1>3, <1>5, CounterType, AheadForward
  <2>. QED
    BY <2>1, <1>2, <1>4, CounterType DEF i
<1>6. CASE i < epsn[r]
  <2>1. Ahead(i, epsn[r]) = PsnMod - (epsn[r] - i)
    BY <1>2, <1>3, <1>6, CounterType, AheadBackward
  <2>. QED
    BY <2>1, <1>2, <1>3, <1>4, CounterType, Moduli
<1>. QED
  BY <1>2, <1>5, <1>6, CounterType

\* The responder's three answers.
LEMMA ResponderStep ==
    ASSUME IInv, NEW r \in Rank,
           RecvExpected(r) \/ RecvAhead(r) \/ RecvDuplicate(r)
    PROVE  IInv'
<1>. USE DEF IInv
<1>1. TypeOK'
  BY TypeStep DEF Next, Receive
<1>2. epsn[r] \in Nat /\ epsn[r] \in Int /\ epsn[r] - 1 \in Int
  BY CounterType
<1>3. CASE RecvExpected(r)
  <2>1. Ack(epsn[r]) \in Msg /\ ~IsData(Ack(epsn[r])) /\ AckValue(Ack(epsn[r])) = epsn[r] + 1
    BY <1>2, BackType DEF Ack, IsData, AckValue
  <2>2. epsn'[r] = epsn[r] + 1
    BY <1>3 DEF RecvExpected, TypeOK
  <2>3. Head(downlink[r]).idx = epsn[r] /\ Take(r, "data")
    BY <1>3, ExpectedMeaning DEF RecvExpected
  <2>. QED
    BY <1>1, <1>3, <2>1, <2>2, <2>3, RecvDataStep DEF RecvExpected, switchVars
<1>4. CASE RecvAhead(r)
  <2>1. Nak(epsn[r]) \in Msg /\ ~IsData(Nak(epsn[r])) /\ AckValue(Nak(epsn[r])) = epsn[r]
    BY <1>2, BackType DEF Nak, IsData, AckValue
  <2>. QED
    BY <1>1, <1>4, <2>1, RecvDataStep DEF RecvAhead, switchVars, qpVars
<1>5. CASE RecvDuplicate(r)
  <2>1. Ack(epsn[r] - 1) \in Msg /\ ~IsData(Ack(epsn[r] - 1))
        /\ AckValue(Ack(epsn[r] - 1)) = epsn[r]
    BY <1>2, BackType DEF Ack, IsData, AckValue
  <2>. QED
    BY <1>1, <1>5, <2>1, RecvDataStep DEF RecvDuplicate, switchVars, qpVars
<1>. QED
  BY <1>3, <1>4, <1>5

\* The switch turns an acknowledgement around: it is behind everything on the
\* downlink and in front of everything on the uplink.
LEMMA SwitchBackwardStep ==
    ASSUME IInv, NEW r \in Rank, SwitchBackward(r)
    PROVE  IInv'
<1>. USE DEF IInv
<1>. DEFINE h == Head(uplink[r])
<1>1. TypeOK'
  BY TypeStep DEF Next
<1>2. /\ UNCHANGED <<reg_bitmap, aggregator_array, recir, buf, una, nxt, hi, epsn>>
      /\ downlink' = [downlink EXCEPT ![r] = Enqueue(@, h)]
      /\ uplink' = [uplink EXCEPT ![r] = Tail(@)]
      /\ uplink[r] # << >> /\ uplink[r] \in Seq(Msg) /\ downlink[r] \in Seq(Msg)
      /\ ~IsData(h)
  BY CounterType DEF SwitchBackward, switchVars, qpVars, IsData
<1>3. h \in UpAcks(r) /\ h \in Msg
  BY <1>2, TailElement, LinkType DEF UpAcks
<1>4. ASSUME NEW s \in Rank
      PROVE  /\ UpData(s)' \subseteq UpData(s) /\ UpAcks(s)' \subseteq UpAcks(s)
             /\ s = r => \A u \in UpAcks(s)' : AckValue(h) <= AckValue(u)
             /\ DataFifoLag(uplink'[s]) /\ AckSorted(uplink'[s])
  <2>1. uplink[s] \in Seq(Msg) /\ DataFifoLag(uplink[s]) /\ AckSorted(uplink[s])
    BY CounterType DEF UplinkInv, AckInv
  <2>2. CASE s # r
    BY <1>2, <2>1, <2>2 DEF UpData, UpAcks, TypeOK
  <2>3. CASE s = r
    <3>1. uplink'[r] = Tail(uplink[r])
      BY <1>2 DEF TypeOK
    <3>2. DataFifoLag(uplink'[r]) /\ AckSorted(uplink'[r])
          /\ Range(uplink'[r]) \subseteq Range(uplink[r])
          /\ \A u \in Range(uplink'[r]) : ~IsData(u) => AckValue(h) <= AckValue(u)
      BY <1>2, <2>1, <2>3, <3>1, TailElement, DataFifoTail, AckTail
    <3>. QED
      BY <2>3, <3>2 DEF UpData, UpAcks
  <2>. QED
    BY <2>2, <2>3
<1>5. ASSUME NEW s \in Rank
      PROVE  /\ DownData(s)' \subseteq DownData(s)
             /\ \A d \in DownAcks(s)' : d \in DownAcks(s) \/ (s = r /\ d = h)
             /\ DataFifoLag(downlink'[s]) /\ AckSorted(downlink'[s])
  <2>1. downlink[s] \in Seq(Msg) /\ DataFifoLag(downlink[s]) /\ AckSorted(downlink[s])
    BY CounterType DEF DownlinkInv, AckInv
  <2>2. CASE s # r
    BY <1>2, <2>1, <2>2 DEF DownData, DownAcks, TypeOK
  <2>3. CASE s = r
    <3>1. downlink'[r] = Enqueue(downlink[r], h)
      BY <1>2 DEF TypeOK
    <3>2. \A o \in Range(downlink[r]) : ~IsData(o) => AckValue(o) <= AckValue(h)
      BY <1>3 DEF AckInv, DownAcks
    <3>3. DataFifoLag(downlink'[r]) /\ AckSorted(downlink'[r])
          /\ Range(downlink'[r]) \subseteq Range(downlink[r]) \cup {h}
      BY <1>2, <1>3, <2>1, <2>3, <3>1, <3>2, EnqueueElement, DataFifoEnqueue, AckEnqueue
    <3>. QED
      BY <1>2, <2>3, <3>3 DEF DownData, DownAcks
  <2>. QED
    BY <2>2, <2>3
<1>6. \A i : /\ Version(i)' = Version(i) /\ Bits(i)' = Bits(i)
             /\ Served(i) => Served(i)'
  BY <1>2 DEF Version, Bits, Served
<1>7. \A i : NotFarBehind(i) => NotFarBehind(i)'
  BY <1>2, <1>5 DEF NotFarBehind
<1>. HIDE DEF h
<1>8. QueuePairInv' /\ SlotInv'
  BY <1>2 DEF QueuePairInv, SlotInv
<1>9. UplinkInv'
  BY <1>2, <1>4, <1>6, <1>7 DEF UplinkInv
<1>10. RecirInv'
  BY <1>2, <1>6, <1>7 DEF RecirInv
<1>11. DownlinkInv'
  BY <1>2, <1>5, <1>6 DEF DownlinkInv
<1>12. AckInv'
  <2>1. ASSUME NEW s \in Rank, NEW o \in DownAcks(s)' \cup UpAcks(s)'
        PROVE  una[s] <= AckValue(o) /\ AckValue(o) <= epsn[s]
    BY <1>3, <1>4, <1>5 DEF AckInv
  <2>2. ASSUME NEW s \in Rank, NEW d \in DownAcks(s)', NEW u \in UpAcks(s)'
        PROVE  AckValue(d) <= AckValue(u)
    BY <1>4, <1>5 DEF AckInv
  <2>. QED
    BY <1>2, <1>4, <1>5, <2>1, <2>2 DEF AckInv
<1>13. DeliveredInv' /\ ResultExact'
  BY <1>2, <1>6 DEF DeliveredInv, ResultExact
<1>. QED
  BY <1>1, <1>8, <1>9, <1>10, <1>11, <1>12, <1>13

\* The second pass: the slot of the packet at the head of the recirculation
\* queue still holds its sum, and the result is not far from anything else.
LEMMA SecondPassStep ==
    ASSUME IInv, SwitchSecondPass
    PROVE  IInv'
<1>. USE DEF IInv
<1>. DEFINE h == Head(recir)
            k == h.idx
            m == Data(Result.idx, Result)
<1>1. TypeOK'
  BY TypeStep DEF Next
<1>2. /\ UNCHANGED <<reg_bitmap, aggregator_array, buf, una, nxt, hi, epsn, uplink>>
      /\ recir \in Seq(RecirPkt) /\ recir # << >> /\ recir' = Tail(recir)
      /\ \A s \in Rank : downlink'[s] = downlink[s] \/ downlink'[s] = Enqueue(downlink[s], m)
  BY DEF SwitchSecondPass, SecondPass, qpVars, TypeOK
<1>3. /\ h \in RecirPkt /\ h \in Range(recir) /\ k \in Idx /\ k \in Nat
      /\ SlotOf(k) \in Slot
      /\ Version(k) = k /\ Bits(k) = Rank /\ h.d0 = SumOf(k) /\ NotFarBehind(k)
  <2>1. h \in RecirPkt /\ h \in Range(recir)
    BY <1>2, TailElement, TailType
  <2>2. k \in Idx /\ k \in Nat
    BY <2>1, IdxType DEF RecirPkt
  <2>3. SlotOf(k) \in Slot
    BY <2>2, SlotType
  <2>. QED
    BY <2>1, <2>2, <2>3 DEF RecirInv
<1>4. /\ m.kind = "data" /\ m.idx = k /\ m.d0 = SumOf(k)
      /\ m.d1 = aggregator_array[SlotOf(k)].agg1
  BY <1>3 DEF Data, Result
<1>5. m \in Msg
  <2>1. Result.idx \in Idx /\ Result.d0 \in Word /\ Result.d1 \in Word
    BY <1>3 DEF Result, TypeOK, RecirPkt
  <2>. QED
    BY <2>1, DataType
<1>. HIDE DEF h, m
<1>6. ASSUME NEW s \in Rank
      PROVE  m.d1 = SumOf(k) /\ k < hi[s]
  <2>1. reg_bitmap[SlotOf(k)].bitmap = Rank /\ Rank # {} /\ reg_bitmap[SlotOf(k)].version = k
    BY <1>3 DEF Bits, Version
  <2>. QED
    BY <1>3, <1>4, <2>1 DEF SlotInv, SumOf
<1>7. ASSUME NEW s \in Rank
      PROVE  /\ \A d \in DownData(s)' : d \in DownData(s) \/ d = m
             /\ DownAcks(s)' \subseteq DownAcks(s)
             /\ DataFifoLag(downlink'[s]) /\ AckSorted(downlink'[s])
  <2>1. downlink[s] \in Seq(Msg) /\ DataFifoLag(downlink[s]) /\ AckSorted(downlink[s])
    BY CounterType DEF DownlinkInv, AckInv
  <2>2. CASE downlink'[s] = downlink[s]
    BY <2>1, <2>2 DEF DownData, DownAcks
  <2>3. CASE downlink'[s] = Enqueue(downlink[s], m)
    <3>1. \A o \in Range(downlink[s]) : IsData(o) => o.idx < m.idx + ServerWin
      BY <1>3, <1>4 DEF NotFarBehind, DownData
    <3>2. IsData(m)
      BY <1>4 DEF IsData
    <3>3. /\ Range(downlink'[s]) \subseteq Range(downlink[s]) \cup {m}
          /\ DataFifoLag(downlink'[s]) /\ AckSorted(downlink'[s])
      BY <1>5, <2>1, <2>3, <3>1, <3>2, EnqueueElement, DataFifoEnqueue, AckEnqueue
    <3>. QED
      BY <3>2, <3>3 DEF DownData, DownAcks
  <2>. QED
    BY <1>2, <2>2, <2>3
<1>8. /\ FifoLag(recir') /\ Range(recir') \subseteq Range(recir)
      /\ \A p \in Range(recir') : k < p.idx + ServerWin
  BY <1>2, TailElement, FifoTail DEF RecirInv, h
<1>9. \A i : /\ Version(i)' = Version(i) /\ Bits(i)' = Bits(i)
             /\ Served(i) => Served(i)'
  BY <1>2 DEF Version, Bits, Served
<1>10. \A i : NotFarBehind(i) /\ k < i + ServerWin => NotFarBehind(i)'
  BY <1>2, <1>4, <1>7 DEF NotFarBehind
<1>. HIDE DEF k
<1>11. QueuePairInv' /\ SlotInv'
  BY <1>2 DEF QueuePairInv, SlotInv
<1>12. UplinkInv'
  <2>1. ASSUME NEW s \in Rank, NEW o \in UpData(s) PROVE k < o.idx + ServerWin
    BY <1>3 DEF UplinkInv, Version, Bits
  <2>. QED
    BY <1>2, <1>9, <1>10, <2>1 DEF UplinkInv, UpData
<1>13. RecirInv'
  BY <1>8, <1>9, <1>10 DEF RecirInv
<1>14. DownlinkInv'
  <2>1. ASSUME NEW s \in Rank
        PROVE  /\ m.d0 = SumOf(m.idx) /\ m.d1 = SumOf(m.idx)
               /\ Served(m.idx)
               /\ epsn[s] <= m.idx + ServerWin
               /\ \A t \in Rank : m.idx < hi[t]
    BY <1>3, <1>4, <1>6 DEF Served, NotFarBehind
  <2>. QED
    BY <1>2, <1>7, <1>9, <2>1 DEF DownlinkInv
<1>15. AckInv'
  BY <1>2, <1>7 DEF AckInv, UpAcks
<1>16. DeliveredInv' /\ ResultExact'
  BY <1>2, <1>9 DEF DeliveredInv, ResultExact
<1>. QED
  BY <1>1, <1>11, <1>12, <1>13, <1>14, <1>15, <1>16

\* What the bitmap register tells a packet on its first pass: the slot is free,
\* or in use for this very packet, or was used one window ago.  The version is
\* compared modulo 2^24 and still never mistaken.
LEMMA FirstPassMeaning ==
    ASSUME IInv, NEW r \in Rank, NEW k \in Idx, NEW pkt,
           pkt.idx = k, k < hi[r], NotFarBehind(k)
    PROVE  /\ Version(k) <= k
           /\ BitmapOld(pkt) = IF Version(k) = k THEN Bits(k) ELSE {}
<1>. USE DEF IInv
<1>. DEFINE v == Version(k)
<1>1. k \in Nat /\ SlotOf(k) \in Slot /\ v \in Nat /\ Bits(k) \subseteq Rank
  BY IdxType, SlotType
<1>2. v <= k
  BY <1>1, VersionBound DEF NotFarBehind
<1>3. BitmapOld(pkt) = IF Psn(v) = Psn(k) THEN Bits(k) ELSE {}
  BY DEF BitmapOld, Version, Bits
<1>4. CASE v < k /\ Bits(k) # {}
  <2>1. SlotOf(v) = SlotOf(k)
    BY <1>1, <1>4 DEF SlotInv, Version, Bits
  <2>2. v + W <= k
    BY <1>1, <1>4, <2>1, SlotApart
  <2>3. k - W < epsn[r] /\ k - W \in Nat
    BY <1>1, <2>2, CounterType, HalfWindow, Moduli DEF QueuePairInv
  <2>4. k - W \in Idx
    BY <1>1, <2>3, IdxType, Moduli, NAssumption DEF Idx
  <2>5. Served(k - W)
    BY <2>3, <2>4 DEF DeliveredInv
  <2>6. Version(k - W) = v
    BY <1>1, SlotBack DEF Version
  <2>7. v >= k - W
    BY <2>5, <2>6 DEF Served
  <2>8. Psn(v) # Psn(k)
    BY <1>1, <1>4, <2>7, PsnApart, Moduli
  <2>. QED
    BY <1>1, <1>2, <1>3, <1>4, <2>8
<1>5. CASE ~(v < k /\ Bits(k) # {})
  BY <1>1, <1>2, <1>3, <1>5
<1>. QED
  BY <1>4, <1>5

\* The aggregator after the first pass holds one contribution of each rank in
\* the bitmap: a packet that was reduced in place already is not counted.
LEMMA FirstPassSum ==
    ASSUME IInv, NEW r \in Rank, NEW k \in Idx, NEW pkt,
           pkt.idx = k, pkt.src = r, pkt.d0 = pkt.d1,
           k < hi[r], NotFarBehind(k),
           pkt.d0 = {<<r, k>>} \/ (Version(k) = k /\ r \in Bits(k))
    PROVE  LET sum == {<<s, k>> : s \in BitmapOld(pkt) \cup {r}}
           IN  Aggregated(pkt).agg0 = sum /\ Aggregated(pkt).agg1 = sum
<1>. USE DEF IInv
<1>. DEFINE old == BitmapOld(pkt)
            sum == {<<s, k>> : s \in old \cup {r}}
            agg == aggregator_array[SlotOf(k)]
<1>1. k \in Nat /\ SlotOf(k) \in Slot
  BY IdxType, SlotType
<1>2. old = IF Version(k) = k THEN Bits(k) ELSE {}
  BY FirstPassMeaning
<1>3. old # {} => agg.agg0 = {<<s, k>> : s \in old} /\ agg.agg1 = {<<s, k>> : s \in old}
  BY <1>1, <1>2 DEF SlotInv, Version, Bits
<1>4. r \notin old => pkt.d0 = {<<r, k>>} /\ pkt.d1 = {<<r, k>>}
  BY <1>2
<1>5. Aggregated(pkt) = IF old = {} THEN [agg0 |-> pkt.d0, agg1 |-> pkt.d1]
                        ELSE IF r \notin old
                             THEN [agg0 |-> Plus(agg.agg0, pkt.d0),
                                   agg1 |-> Plus(agg.agg1, pkt.d1)]
                             ELSE agg
  BY DEF Aggregated, Increase
<1>. HIDE DEF old, agg
<1>6. CASE old = {}
  <2>1. sum = {<<r, k>>}
    BY <1>6
  <2>. QED
    BY <1>4, <1>5, <1>6, <2>1 DEF old
<1>7. CASE old # {} /\ r \notin old
  <2>1. Plus({<<s, k>> : s \in old}, {<<r, k>>}) = sum
    <3>1. {<<s, k>> : s \in old} \cap {<<r, k>>} = {}
      BY <1>7
    <3>2. {<<s, k>> : s \in old} \cup {<<r, k>>} = sum
      OBVIOUS
    <3>. QED
      BY <3>1, <3>2 DEF Plus
  <2>2. Aggregated(pkt) = [agg0 |-> Plus(agg.agg0, pkt.d0), agg1 |-> Plus(agg.agg1, pkt.d1)]
    BY <1>5, <1>7
  <2>3. Plus(agg.agg0, pkt.d0) = sum /\ Plus(agg.agg1, pkt.d1) = sum
    BY <1>3, <1>4, <1>7, <2>1
  <2>. HIDE DEF sum
  <2>4. Aggregated(pkt).agg0 = sum /\ Aggregated(pkt).agg1 = sum
    BY <2>2, <2>3
  <2>. QED
    BY <2>4 DEF sum, old
<1>8. CASE r \in old
  <2>1. old \cup {r} = old
    BY <1>8
  <2>. QED
    BY <1>3, <1>5, <1>8, <2>1 DEF old
<1>. QED
  BY <1>6, <1>7, <1>8

\* The first pass.
LEMMA FirstPassStep ==
    ASSUME IInv, NEW r \in Rank, SwitchFirstPass(r)
    PROVE  IInv'
<1>. USE DEF IInv
<1>. DEFINE h == Head(uplink[r])
            k == h.idx
            pkt == [src |-> r, idx |-> k, d0 |-> h.d0, d1 |-> h.d1]
            old == BitmapOld(pkt)
            new == old \cup {r}
            sum == {<<s, k>> : s \in new}
            e == Recirculated(pkt)
<1>1. TypeOK'
  BY TypeStep DEF Next
<1>2. /\ UNCHANGED <<buf, una, nxt, hi, epsn, downlink>>
      /\ uplink[r] # << >> /\ uplink' = [uplink EXCEPT ![r] = Tail(@)]
      /\ IsData(h) /\ FirstPass(pkt)
  BY DEF SwitchFirstPass, qpVars, IsData
<1>3. /\ h \in UpData(r) /\ k \in Idx /\ k \in Nat /\ SlotOf(k) \in Slot
      /\ Version(k) \in Nat /\ Bits(k) \subseteq Rank
  <2>1. h \in UpData(r)
    BY <1>2, CounterType, TailElement DEF UpData
  <2>2. k \in Idx /\ k \in Nat
    BY <2>1, LinkType
  <2>. QED
    BY <2>1, <2>2, SlotType
<1>4. /\ k < hi[r] /\ h.d0 = h.d1 /\ NotFarBehind(k)
      /\ h.d0 = {<<r, k>>} \/ (Version(k) = k /\ r \in Bits(k))
      /\ \A c \in Slot : r \in reg_bitmap[c].bitmap => reg_bitmap[c].version < k + ServerWin
  BY <1>3 DEF UplinkInv
<1>5. pkt.src = r /\ pkt.idx = k /\ pkt.d0 = h.d0 /\ pkt.d1 = h.d1
  OBVIOUS
<1>. HIDE DEF h, k, pkt
<1>6. Version(k) <= k /\ old = IF Version(k) = k THEN Bits(k) ELSE {}
  BY <1>3, <1>4, <1>5, FirstPassMeaning
<1>7. Aggregated(pkt).agg0 = sum /\ Aggregated(pkt).agg1 = sum
  BY <1>3, <1>4, <1>5, FirstPassSum
<1>. HIDE DEF old, sum
<1>8. /\ reg_bitmap' = [reg_bitmap EXCEPT ![SlotOf(k)] = [version |-> k, bitmap |-> new]]
      /\ aggregator_array' = [aggregator_array EXCEPT ![SlotOf(k)] = Aggregated(pkt)]
      /\ recir' = recir \/ (Full(pkt) /\ recir' = Enqueue(recir, e))
  BY <1>2, <1>5 DEF FirstPass, BitmapUpdate, old
<1>9. /\ e \in RecirPkt /\ e.idx = k /\ e.d0 = sum
      /\ Full(pkt) => new = Rank
  <2>1. Aggregated(pkt).agg0 \in Word
    <3>1. h \in Msg /\ h.d0 \in Word /\ h.d1 \in Word
      BY <1>2, <1>3, LinkType, MsgType DEF IsData
    <3>2. pkt.src \in Rank /\ pkt.idx \in Idx /\ pkt.d0 \in Word /\ pkt.d1 \in Word
      BY <1>3, <1>5, <3>1
    <3>3. aggregator_array' \in [Slot -> [agg0 : Word, agg1 : Word]]
      BY <1>2, <3>2, FirstPassType
    <3>4. aggregator_array'[SlotOf(k)] = Aggregated(pkt)
      BY <1>3, <1>8 DEF TypeOK
    <3>. QED
      BY <1>3, <3>3, <3>4
  <2>2. h \in Msg /\ h.d1 \in Word
    BY <1>2, <1>3, LinkType, MsgType DEF IsData
  <2>3. e \in RecirPkt
    BY <1>3, <1>5, <2>1, <2>2 DEF Recirculated, RecirPkt, Increase
  <2>4. e.idx = k /\ e.d0 = sum
    BY <1>5, <1>7 DEF Recirculated
  <2>5. Full(pkt) => new = Rank
    BY <1>5 DEF Full, old
  <2>. QED
    BY <2>3, <2>4, <2>5
<1>. HIDE DEF e, new
<1>10. \A c \in Slot :
         /\ c = SlotOf(k) => /\ reg_bitmap'[c].version = k /\ reg_bitmap'[c].bitmap = new
                             /\ aggregator_array'[c].agg0 = sum
                             /\ aggregator_array'[c].agg1 = sum
         /\ c # SlotOf(k) => /\ reg_bitmap'[c] = reg_bitmap[c]
                             /\ aggregator_array'[c] = aggregator_array[c]
  <2>1. ASSUME NEW c \in Slot, c = SlotOf(k)
        PROVE  /\ reg_bitmap'[c] = [version |-> k, bitmap |-> new]
               /\ aggregator_array'[c] = Aggregated(pkt)
    BY <1>8, <2>1 DEF TypeOK
  <2>2. ASSUME NEW c \in Slot, c # SlotOf(k)
        PROVE  reg_bitmap'[c] = reg_bitmap[c] /\ aggregator_array'[c] = aggregator_array[c]
    BY <1>8, <2>2 DEF TypeOK
  <2>. QED
    BY <1>7, <2>1, <2>2
<1>11. \A i \in Nat : IF SlotOf(i) = SlotOf(k)
                      THEN Version(i)' = k /\ Bits(i)' = new
                           /\ Version(i) = Version(k) /\ Bits(i) = Bits(k)
                      ELSE Version(i)' = Version(i) /\ Bits(i)' = Bits(i)
  BY <1>10, SlotType DEF Version, Bits
\* A packet that nobody is far ahead of keeps its slot.
<1>12. ASSUME NEW i \in Nat, NotFarBehind(i), Version(i) = i
       PROVE  Version(i)' = i /\ Bits(i) \subseteq Bits(i)'
  <2>1. CASE SlotOf(i) # SlotOf(k)
    BY <1>11, <1>12, <2>1
  <2>2. CASE SlotOf(i) = SlotOf(k)
    <3>1. hi[r] <= i + W
      BY <1>12, WindowBound DEF NotFarBehind
    <3>2. Version(k) = i /\ i <= k
      BY <1>6, <1>11, <1>12, <2>2
    <3>3. i = k
      <4>1. i < k => i + W <= k
        BY <1>3, <2>2, SlotApart
      <4>. QED
        BY <1>3, <1>4, <3>1, <3>2, <4>1, CounterType, Moduli
    <3>. QED
      BY <1>6, <1>11, <2>2, <3>2, <3>3 DEF new
  <2>. QED
    BY <2>1, <2>2
<1>13. ASSUME NEW i \in Nat, Served(i) PROVE Served(i)'
  <2>1. CASE SlotOf(i) # SlotOf(k)
    BY <1>11, <1>13, <2>1 DEF Served
  <2>2. CASE SlotOf(i) = SlotOf(k)
    <3>1. Version(i)' = k /\ Bits(i)' = new /\ Version(k) >= i /\ (Version(k) = i => Bits(k) = Rank)
      BY <1>11, <1>13, <2>2 DEF Served
    <3>2. k >= i
      BY <1>3, <1>6, <3>1
    <3>3. k = i => new = Rank
      BY <1>3, <1>6, <3>1 DEF new
    <3>. QED
      BY <3>1, <3>2, <3>3 DEF Served
  <2>. QED
    BY <2>1, <2>2
<1>14. \A i : NotFarBehind(i) => NotFarBehind(i)'
  BY <1>2 DEF NotFarBehind, DownData
<1>15. ASSUME NEW s \in Rank
       PROVE  /\ UpData(s)' \subseteq UpData(s) /\ UpAcks(s)' \subseteq UpAcks(s)
              /\ DataFifoLag(uplink'[s]) /\ AckSorted(uplink'[s])
              /\ s = r => \A o \in UpData(s)' : k < o.idx + ServerWin
  <2>1. uplink[s] \in Seq(Msg) /\ DataFifoLag(uplink[s]) /\ AckSorted(uplink[s])
    BY CounterType DEF UplinkInv, AckInv
  <2>2. CASE s # r
    BY <1>2, <2>1, <2>2 DEF UpData, UpAcks, TypeOK
  <2>3. CASE s = r
    <3>1. uplink'[r] = Tail(uplink[r])
      BY <1>2 DEF TypeOK
    <3>2. DataFifoLag(uplink'[r]) /\ AckSorted(uplink'[r])
          /\ Range(uplink'[r]) \subseteq Range(uplink[r])
          /\ \A o \in Range(uplink'[r]) : IsData(o) => k < o.idx + ServerWin
      BY <1>2, <2>1, <2>3, <3>1, TailElement, DataFifoTail, AckTail DEF h, k
    <3>. QED
      BY <2>3, <3>2 DEF UpData, UpAcks
  <2>. QED
    BY <2>2, <2>3
<1>16. QueuePairInv' /\ ResultExact'
  BY <1>2 DEF QueuePairInv, ResultExact
<1>17. SlotInv'
  <2>1. ASSUME NEW s \in new PROVE k < hi[s]
    <3>1. CASE s = r
      BY <1>4, <3>1
    <3>2. CASE s \in old
      <4>1. Version(k) = k /\ s \in Bits(k)
        BY <1>6, <3>2
      <4>. QED
        BY <1>3, <4>1 DEF SlotInv, Version, Bits
    <3>. QED
      BY <3>1, <3>2 DEF new
  <2>2. new # {}
    BY DEF new
  <2>3. ASSUME NEW c \in Slot, c = SlotOf(k)
        PROVE  /\ reg_bitmap'[c].bitmap # {}
               /\ reg_bitmap'[c].version \in Idx /\ SlotOf(reg_bitmap'[c].version) = c
               /\ \A s \in reg_bitmap'[c].bitmap : reg_bitmap'[c].version < hi[s]
               /\ aggregator_array'[c].agg0 = {<<s, reg_bitmap'[c].version>> : s \in reg_bitmap'[c].bitmap}
               /\ aggregator_array'[c].agg1 = {<<s, reg_bitmap'[c].version>> : s \in reg_bitmap'[c].bitmap}
    <3>1. sum = {<<s, k>> : s \in new}
      BY DEF sum
    <3>. QED
      BY <1>3, <1>10, <2>1, <2>2, <2>3, <3>1
  <2>4. ASSUME NEW c \in Slot, c # SlotOf(k)
        PROVE  reg_bitmap'[c] = reg_bitmap[c] /\ aggregator_array'[c] = aggregator_array[c]
    BY <1>10, <2>4
  <2>. QED
    BY <1>2, <2>3, <2>4 DEF SlotInv
<1>18. UplinkInv'
  <2>1. ASSUME NEW s \in Rank, NEW o \in UpData(s)'
        PROVE  /\ o.idx < hi[s]
               /\ o.d0 = o.d1
               /\ o.d0 = {<<s, o.idx>>} \/ (Version(o.idx)' = o.idx /\ s \in Bits(o.idx)')
               /\ NotFarBehind(o.idx)'
    <3>1. o \in UpData(s) /\ o.idx \in Nat /\ NotFarBehind(o.idx)
      BY <1>15, LinkType DEF UplinkInv
    <3>. QED
      BY <1>12, <1>14, <3>1 DEF UplinkInv
  <2>2. ASSUME NEW s \in Rank, NEW o \in UpData(s)', NEW c \in Slot, s \in reg_bitmap'[c].bitmap
        PROVE  reg_bitmap'[c].version < o.idx + ServerWin
    <3>1. CASE c # SlotOf(k)
      BY <1>10, <1>15, <2>2, <3>1 DEF UplinkInv
    <3>2. CASE c = SlotOf(k) /\ s = r
      BY <1>10, <1>15, <3>2
    <3>3. CASE c = SlotOf(k) /\ s \in old
      <4>1. Version(k) = k /\ s \in Bits(k)
        BY <1>6, <3>3
      <4>2. Version(k) < o.idx + ServerWin
        BY <1>3, <1>15, <4>1 DEF UplinkInv, Version, Bits
      <4>. QED
        BY <1>10, <3>3, <4>1, <4>2
    <3>. QED
      BY <1>10, <2>2, <3>1, <3>2, <3>3 DEF new
  <2>. QED
    BY <1>2, <1>15, <2>1, <2>2 DEF UplinkInv
<1>19. RecirInv'
  <2>1. recir \in Seq(RecirPkt) /\ FifoLag(recir)
    BY DEF TypeOK, RecirInv
  <2>2. ASSUME NEW p \in Range(recir) PROVE p.idx \in Nat
    <3>1. p \in RecirPkt
      BY <2>1, RangeElement
    <3>. QED
      BY <3>1, IdxType DEF RecirPkt
  <2>3. ASSUME NEW p \in Range(recir)
        PROVE  /\ Version(p.idx)' = p.idx /\ Bits(p.idx)' = Rank
               /\ p.d0 = SumOf(p.idx) /\ NotFarBehind(p.idx)'
    <3>1. Version(p.idx) = p.idx /\ Bits(p.idx) = Rank /\ NotFarBehind(p.idx)
          /\ p.d0 = SumOf(p.idx)
      BY DEF RecirInv
    <3>2. Version(p.idx)' = p.idx /\ Rank \subseteq Bits(p.idx)'
      BY <1>12, <2>2, <3>1
    <3>3. Bits(p.idx)' \subseteq Rank
      BY <1>3, <1>6, <1>11, <2>2, <3>1 DEF new
    <3>. QED
      BY <1>14, <3>1, <3>2, <3>3
  <2>4. CASE recir' = recir
    BY <2>1, <2>3, <2>4 DEF RecirInv
  <2>5. CASE Full(pkt) /\ recir' = Enqueue(recir, e)
    <3>1. \A p \in Range(recir) : p.idx < k + ServerWin
      <4>1. ASSUME NEW p \in Range(recir) PROVE p.idx < k + ServerWin
        <5>1. Version(p.idx) = p.idx /\ r \in Bits(p.idx) /\ SlotOf(p.idx) \in Slot
          BY <2>2, SlotType DEF RecirInv
        <5>. QED
          BY <1>4, <5>1 DEF Version, Bits
      <4>. QED
        BY <4>1
    <3>2. FifoLag(recir') /\ Range(recir') \subseteq Range(recir) \cup {e}
      BY <1>9, <2>1, <2>5, <3>1, FifoEnqueue, EnqueueElement
    <3>3. \A i \in Nat : i = k => Version(i)' = i /\ Bits(i)' = Rank
      BY <1>9, <1>11, <2>5
    <3>4. \A i \in Nat : i = k => NotFarBehind(i)'
      BY <1>4, <1>14
    <3>5. e.idx = k /\ k \in Nat /\ e.d0 = SumOf(k)
      BY <1>3, <1>9, <2>5 DEF SumOf, sum
    <3>6. ASSUME NEW p \in Range(recir')
          PROVE  /\ Version(p.idx)' = p.idx /\ Bits(p.idx)' = Rank
                 /\ p.d0 = SumOf(p.idx) /\ NotFarBehind(p.idx)'
      <4>1. CASE p \in Range(recir)
        BY <2>3, <4>1
      <4>2. CASE p = e
        <5>1. p.idx = k /\ p.idx \in Nat /\ p.d0 = SumOf(p.idx)
          BY <3>5, <4>2
        <5>. QED
          BY <3>3, <3>4, <5>1
      <4>. QED
        BY <3>2, <4>1, <4>2
    <3>. QED
      BY <3>2, <3>6 DEF RecirInv
  <2>. QED
    BY <1>8, <2>4, <2>5
<1>20. DownlinkInv'
  <2>1. \A s \in Rank : \A d \in DownData(s) : d.idx \in Nat
    BY LinkType
  <2>. QED
    BY <1>2, <1>13, <2>1 DEF DownlinkInv, DownData
<1>21. AckInv'
  BY <1>2, <1>15 DEF AckInv, DownAcks
<1>22. DeliveredInv'
  BY <1>2, <1>13, IdxType DEF DeliveredInv
<1>. QED
  BY <1>1, <1>16, <1>17, <1>18, <1>19, <1>20, <1>21, <1>22

-----------------------------------------------------------------------------
(* The theorems. *)

\* Nothing is under way initially.
LEMMA InvInit == Init => IInv
<1>. SUFFICES ASSUME Init PROVE IInv
  OBVIOUS
<1>1. TypeOK
  BY TypeInit
<1>2. \A q : q = << >> => Range(q) = {} /\ Len(q) = 0 /\ 1..Len(q) = {}
  BY DEF Range
<1>3. recir = << >> /\ \A r \in Rank : uplink[r] = << >> /\ downlink[r] = << >>
  BY DEF Init, SwitchInit
<1>4. \A r \in Rank : UpData(r) = {} /\ UpAcks(r) = {} /\ DownData(r) = {} /\ DownAcks(r) = {}
  BY <1>2, <1>3 DEF UpData, UpAcks, DownData, DownAcks
<1>5. QueuePairInv
  <2>1. \A r \in Rank : una[r] = 0 /\ nxt[r] = 0 /\ hi[r] = 0 /\ epsn[r] = 0
    BY DEF Init
  <2>2. 0 <= 0 + ServerWin /\ 0 <= N /\ 0 <= 0
    BY HalfWindow, NAssumption
  <2>. QED
    BY <2>1, <2>2 DEF QueuePairInv
<1>6. SlotInv
  BY DEF Init, SwitchInit, SlotInv
<1>7. UplinkInv
  BY <1>2, <1>3, <1>4 DEF UplinkInv, DataFifoLag
<1>8. RecirInv
  BY <1>2, <1>3 DEF RecirInv, FifoLag
<1>9. DownlinkInv
  BY <1>2, <1>3, <1>4 DEF DownlinkInv, DataFifoLag
<1>10. AckInv
  BY <1>2, <1>3, <1>4 DEF AckInv, AckSorted
<1>11. \A i \in Idx : ~(i < 0)
  BY IdxType
<1>12. DeliveredInv
  BY <1>11 DEF Init, DeliveredInv
<1>13. ResultExact
  BY <1>11 DEF Init, ResultExact
<1>. QED
  BY <1>1, <1>5, <1>6, <1>7, <1>8, <1>9, <1>10, <1>12, <1>13 DEF IInv

\* The invariant is inductive.
LEMMA InvStep == IInv /\ [Next]_vars => IInv'
<1>. SUFFICES ASSUME IInv, [Next]_vars PROVE IInv'
  OBVIOUS
<1>1. CASE SwitchSecondPass
  BY <1>1, SecondPassStep
<1>2. CASE LoseRecir \/ \E r \in Rank : LoseUp(r) \/ LoseDown(r)
  BY <1>2, LoseStep
<1>3. ASSUME NEW r \in Rank, Send(r) PROVE IInv'
  BY <1>3, SendStep
<1>4. ASSUME NEW r \in Rank, Timeout(r) PROVE IInv'
  BY <1>4, TimeoutStep
<1>5. ASSUME NEW r \in Rank, Receive(r) PROVE IInv'
  BY <1>5, RecvAckStep, RecvStaleStep, ResponderStep DEF Receive
<1>6. ASSUME NEW r \in Rank, SwitchFirstPass(r) PROVE IInv'
  BY <1>6, FirstPassStep
<1>7. ASSUME NEW r \in Rank, SwitchBackward(r) PROVE IInv'
  BY <1>7, SwitchBackwardStep
<1>8. CASE UNCHANGED vars
  <2>1. TypeOK'
    BY <1>8, TypeStep DEF IInv
  <2>2. UNCHANGED <<reg_bitmap, aggregator_array, recir, buf, una, nxt, hi, epsn, uplink, downlink>>
    BY <1>8 DEF vars, switchVars, qpVars
  <2>. QED
    BY <2>1, <2>2, ShrinkStep DEF IInv, QueuePairInv
<1>. QED
  BY <1>1, <1>2, <1>3, <1>4, <1>5, <1>6, <1>7, <1>8 DEF Next

\* IInv holds in every reachable state, whatever is lost, repeated, delayed or
\* dropped by a full queue, and however often the sequence numbers wrap.
THEOREM Invariance == Spec => []IInv
  BY InvInit, InvStep, PTL DEF Spec

\* Every result a rank accepts is the sum of all ranks' contributions to exactly
\* that packet, each counted once (aggregator.p4, in both passes).
THEOREM ResultsAreExact == Spec => []ResultExact
<1>1. IInv => ResultExact
  BY DEF IInv
<1>. QED
  BY <1>1, Invariance, PTL

\* The slot of a packet is still its own when it comes back from the
\* recirculation port (allreduce_sendout.p4), although nothing locks the slot.
THEOREM SlotHeldOverRecirculation == Spec => []RecirculatedSlotHeld
<1>1. ASSUME IInv PROVE RecirculatedSlotHeld
  <2>1. \A j \in 1..Len(recir) : recir[j] \in Range(recir)
    BY <1>1, RangeElement DEF IInv, TypeOK
  <2>. QED
    BY <1>1, <2>1 DEF IInv, RecirInv, RecirculatedSlotHeld, Version, Bits
<1>. QED
  BY <1>1, Invariance, PTL

\* Half of the switch window is enough: no rank sends into the slot of a packet
\* that another rank may still retransmit (per_qp_server_win_size).
THEOREM SlotsNotReclaimed == Spec => []SlotNotReclaimed
<1>1. ASSUME IInv PROVE SlotNotReclaimed
  <2>1. ASSUME NEW r \in Rank, NEW s \in Rank PROVE hi[r] <= una[s] + W
    <3>1. /\ hi[r] <= una[r] + ServerWin /\ una[r] <= epsn[r]
          /\ epsn[r] <= hi[s] /\ hi[s] <= una[s] + ServerWin
      BY <1>1 DEF IInv, QueuePairInv
    <3>2. una[r] \in Nat /\ hi[r] \in Nat /\ epsn[r] \in Nat /\ una[s] \in Nat /\ hi[s] \in Nat
      BY <1>1, CounterType DEF IInv
    <3>. QED
      BY <3>1, <3>2, HalfWindow, Moduli
  <2>. QED
    BY <2>1 DEF SlotNotReclaimed
<1>. QED
  BY <1>1, Invariance, PTL

\* A retransmission that carries the sum instead of the rank's data, because
\* the buffer is reduced in place, is never added again.
THEOREM ReducedDataIsNotAdded == Spec => []ReducedDataNeverCounts
<1>1. ASSUME IInv PROVE ReducedDataNeverCounts
  <2>1. ASSUME NEW r \in Rank, NEW j \in 1..Len(uplink[r]),
               uplink[r][j].kind = "data",
               uplink[r][j].d0 # Own(r, uplink[r][j].idx).d0
        PROVE  /\ Version(uplink[r][j].idx) = uplink[r][j].idx
               /\ r \in Bits(uplink[r][j].idx)
    <3>1. uplink[r][j] \in UpData(r)
      BY <1>1, <2>1, CounterType, RangeElement DEF IInv, UpData, IsData
    <3>2. Own(r, uplink[r][j].idx).d0 = {<<r, uplink[r][j].idx>>}
      BY DEF Own
    <3>. QED
      BY <1>1, <2>1, <3>1, <3>2 DEF IInv, UplinkInv
  <2>. QED
    BY <2>1 DEF ReducedDataNeverCounts, Version, Bits
<1>. QED
  BY <1>1, Invariance, PTL

\* A send completion means that the rank has the result, and that every rank has
\* contributed.
THEOREM CompletionsMeanResults == Spec => []CompletionMeansResult
<1>1. IInv => CompletionMeansResult
  BY DEF IInv, QueuePairInv, CompletionMeansResult
<1>. QED
  BY <1>1, Invariance, PTL

-----------------------------------------------------------------------------
(* Refinement. *)

\* What a rank has been delivered, as the abstract specification sees it.
Delivered(r) == [j \in 1..epsn[r] |-> buf[r][j - 1]]

\* A function on an initial segment is a sequence.
LEMMA FunctionIsSeq ==
    ASSUME NEW S, NEW n \in Nat, NEW f \in [1..n -> S]
    PROVE  f \in Seq(S)
  BY Zenon, SeqDef

\* What a rank has been delivered is the sequence of the sums.
LEMMA DeliveredValue ==
    ASSUME IInv, NEW r \in Rank
    PROVE  /\ Delivered(r) \in Seq([d0 : Word, d1 : Word])
           /\ Len(Delivered(r)) = epsn[r]
           /\ Delivered(r) = [j \in 1..epsn[r] |-> Reduced(j - 1)]
<1>1. epsn[r] \in Nat /\ epsn[r] <= N
  BY CounterType, NAssumption DEF IInv, QueuePairInv
<1>2. \A j \in 1..epsn[r] : j - 1 \in Idx /\ j - 1 < epsn[r]
  BY <1>1, NAssumption DEF Idx
<1>3. \A j \in 1..epsn[r] : buf[r][j - 1] = Reduced(j - 1) /\ buf[r][j - 1] \in [d0 : Word, d1 : Word]
  BY <1>2 DEF IInv, ResultExact, TypeOK
<1>4. Delivered(r) = [j \in 1..epsn[r] |-> Reduced(j - 1)]
  BY <1>3 DEF Delivered
<1>5. Delivered(r) \in [1..epsn[r] -> [d0 : Word, d1 : Word]]
  BY <1>3 DEF Delivered
<1>6. Delivered(r) \in Seq([d0 : Word, d1 : Word])
  BY <1>1, <1>5, FunctionIsSeq
<1>7. Len(Delivered(r)) = epsn[r]
  BY <1>1, <1>5, <1>6
<1>. QED
  BY <1>4, <1>6, <1>7

\* Accepting the expected result delivers it.
LEMMA DeliverStep ==
    ASSUME IInv, IInv', NEW r \in Rank, RecvExpected(r)
    PROVE  Abstract!Deliver(r)
<1>1. epsn' = [epsn EXCEPT ![r] = @ + 1] /\ UNCHANGED hi
  BY DEF RecvExpected
<1>2. epsn'[r] = epsn[r] + 1 /\ epsn[r] \in Nat
      /\ \A s \in Rank : s # r => epsn'[s] = epsn[s]
  BY <1>1 DEF IInv, TypeOK
<1>3. \A s \in Rank : epsn[r] < hi[s]
  <2>1. \A s \in Rank : epsn'[r] <= hi'[s]
    BY DEF IInv, QueuePairInv
  <2>. QED
    BY <1>1, <1>2, <2>1, CounterType DEF IInv
<1>4. \A s \in Rank : /\ Delivered(s) \in Seq([d0 : Word, d1 : Word])
                      /\ Len(Delivered(s)) = epsn[s]
                      /\ Delivered(s) = [j \in 1..epsn[s] |-> Reduced(j - 1)]
                      /\ Delivered(s)' = [j \in 1..epsn'[s] |-> Reduced(j - 1)]
  <2>1. \A s \in Rank : Delivered(s)' = [j \in 1..epsn'[s] |-> Reduced(j - 1)]
    <3>1. \A s \in Rank : epsn'[s] \in Nat /\ epsn'[s] <= N
      <4>1. \A s \in Rank : epsn'[s] \in Nat /\ hi'[s] \in Nat /\ epsn'[s] <= hi'[s] /\ hi'[s] <= N
        BY DEF IInv, QueuePairInv, TypeOK
      <4>. QED
        BY <4>1, NAssumption
    <3>2. \A s \in Rank : \A j \in 1..epsn'[s] : j - 1 \in Idx /\ j - 1 < epsn'[s]
      BY <3>1, NAssumption DEF Idx
    <3>3. \A s \in Rank : \A j \in 1..epsn'[s] : buf'[s][j - 1] = Reduced(j - 1)
      BY <3>2 DEF IInv, ResultExact
    <3>. QED
      BY <3>3 DEF Delivered
  <2>. QED
    BY <2>1, DeliveredValue
<1>5. Delivered(r)' = Append(Delivered(r), Reduced(epsn[r]))
  <2>1. Delivered(r)' = [j \in 1..(epsn[r] + 1) |-> Reduced(j - 1)]
    BY <1>2, <1>4
  <2>2. Append(Delivered(r), Reduced(epsn[r])) =
          [j \in 1..(epsn[r] + 1) |->
             IF j <= epsn[r] THEN Delivered(r)[j] ELSE Reduced(epsn[r])]
    BY <1>2, <1>4
  <2>3. \A j \in 1..(epsn[r] + 1) :
          Reduced(j - 1) = IF j <= epsn[r] THEN Delivered(r)[j] ELSE Reduced(epsn[r])
    BY <1>2, <1>4
  <2>. QED
    BY <2>1, <2>2, <2>3
<1>6. \A s \in Rank : s # r => Delivered(s)' = Delivered(s)
  BY <1>2, <1>4
<1>. DEFINE o == [s \in Rank |-> Delivered(s)]
<1>7. [s \in Rank |-> Delivered(s)'] =
        [o EXCEPT ![r] = Append(o[r], Reduced(epsn[r]))]
  BY <1>5, <1>6
<1>8. o[r] = Delivered(r) /\ Len(o[r]) = epsn[r]
  BY <1>4
<1>9. Reduced(epsn[r]) = [d0 |-> Abstract!SumOf(epsn[r]), d1 |-> Abstract!SumOf(epsn[r])]
  BY DEF Reduced, SumOf, Abstract!SumOf
<1>. QED
  BY <1>1, <1>3, <1>7, <1>8, <1>9 DEF Abstract!Deliver, Delivered

\* Every step of the protocol is a step of the abstract allreduce or none.
LEMMA RefinementStep ==
    ASSUME IInv, IInv', [Next]_vars
    PROVE  [Abstract!SpecNext]_(Abstract!specVars)
<1>1. CASE UNCHANGED <<hi, epsn, buf>>
  BY <1>1 DEF Abstract!specVars
<1>2. ASSUME NEW r \in Rank, RecvExpected(r) PROVE Abstract!SpecNext
  BY <1>2, DeliverStep DEF Abstract!SpecNext
<1>3. ASSUME NEW r \in Rank, Send(r) PROVE [Abstract!SpecNext]_(Abstract!specVars)
  <2>1. /\ nxt[r] < N /\ UNCHANGED <<epsn, buf>>
        /\ hi' = [hi EXCEPT ![r] = IF @ > nxt[r] THEN @ ELSE nxt[r] + 1]
    BY <1>3 DEF Send
  <2>2. nxt[r] <= hi[r] /\ nxt[r] \in Nat /\ hi[r] \in Nat /\ hi \in [Rank -> Nat]
    BY DEF IInv, QueuePairInv, TypeOK
  <2>3. CASE hi[r] > nxt[r]
    <3>1. hi' = hi
      BY <2>1, <2>2, <2>3
    <3>. QED
      BY <2>1, <3>1, <1>1
  <2>4. CASE hi[r] = nxt[r]
    <3>1. hi' = [hi EXCEPT ![r] = @ + 1] /\ hi[r] < N
      <4>1. (IF hi[r] > nxt[r] THEN hi[r] ELSE nxt[r] + 1) = hi[r] + 1
        BY <2>2, <2>4
      <4>. QED
        BY <2>1, <2>2, <2>4, <4>1
    <3>2. Abstract!Offer(r)
      BY <2>1, <3>1 DEF Abstract!Offer
    <3>. QED
      BY <3>2 DEF Abstract!SpecNext
  <2>. QED
    BY <2>2, <2>3, <2>4
<1>4. \/ UNCHANGED <<hi, epsn, buf>>
      \/ \E r \in Rank : Send(r) \/ RecvExpected(r)
  <2>1. CASE UNCHANGED vars
    BY <2>1 DEF vars, qpVars
  <2>2. CASE SwitchSecondPass \/ LoseRecir
    BY <2>2 DEF SwitchSecondPass, LoseRecir, qpVars
  <2>3. ASSUME NEW s \in Rank,
               Timeout(s) \/ SwitchFirstPass(s) \/ SwitchBackward(s)
               \/ LoseUp(s) \/ LoseDown(s)
        PROVE  UNCHANGED <<hi, epsn, buf>>
    BY <2>3 DEF Timeout, SwitchFirstPass, SwitchBackward, LoseUp, LoseDown, qpVars
  <2>4. ASSUME NEW s \in Rank, Receive(s)
        PROVE  UNCHANGED <<hi, epsn, buf>> \/ RecvExpected(s)
    BY <2>4 DEF Receive, RecvAck, RecvNak, RecvStale, RecvAhead, RecvDuplicate, qpVars
  <2>. QED
    BY <2>1, <2>2, <2>3, <2>4 DEF Next
<1>. QED
  BY <1>1, <1>2, <1>3, <1>4

\* The protocol implements the abstract allreduce: the ranks are delivered, in
\* order, the sums of the packets that all of them have offered.
THEOREM Refinement == Spec => ImplementsAllreduce
<1>1. Init => Abstract!SpecInit
  <2>. SUFFICES ASSUME Init PROVE Abstract!SpecInit
    OBVIOUS
  <2>1. \A r \in Rank : [j \in 1..epsn[r] |-> buf[r][j - 1]] = << >>
    <3>1. ASSUME NEW r \in Rank PROVE Delivered(r) = << >>
      <4>1. Delivered(r) \in Seq([d0 : Word, d1 : Word]) /\ Len(Delivered(r)) = 0
        BY InvInit, DeliveredValue DEF Init
      <4>. QED
        BY <4>1
    <3>. QED
      BY <3>1 DEF Delivered
  <2>. QED
    BY <2>1 DEF Init, Abstract!SpecInit
<1>2. IInv /\ IInv' /\ [Next]_vars => [Abstract!SpecNext]_(Abstract!specVars)
  BY RefinementStep
<1>. QED
  BY <1>1, <1>2, Invariance, PTL DEF Spec, ImplementsAllreduce, Abstract!SafeSpec

-----------------------------------------------------------------------------
(* The controller: what it holds. *)

Seg == (0..MemSize) \X (0..MemSize)

\* What a request may have been given.
Proper(g) ==
    /\ g.group \in 1..MaxGroup /\ g.port \in Port
    /\ g.seg \in Seg /\ g.seg[1] < g.seg[2]
    /\ g.node \in Seq(1..MaxNode) /\ IsInjective(g.node)
    /\ g.member \in Seq(Member) /\ IsInjective(g.member)
    /\ Len(g.member) = Len(g.node)

Types ==
    /\ memseg \in Seq(Seg)
    /\ free_group \in Seq(1..MaxGroup)
    /\ free_node \in Seq(1..MaxNode)
    /\ recir_port_cnt \in [Port -> Int]
    /\ alive = TRUE
    /\ DOMAIN metadata_table \subseteq Member
    /\ dirty \subseteq Memory \X Member /\ DOMAIN sent = Groups

\* The grants, each under its number; those of failed requests are none of
\* them.
Grants ==
    /\ IsFiniteSet(Held)
    /\ \A g \in Held : Proper(g)
    /\ \A id \in Groups : undo[id].group = id /\ undo[id] \notin leaked

\* Two grants share nothing.
Separate ==
    \A g, h \in Held : g # h =>
        /\ g.group # h.group
        /\ ToSet(g.node) \cap ToSet(h.node) = {}
        /\ SlotsOf(g.seg) \cap SlotsOf(h.seg) = {}

\* What is free is what no grant has.
FreeGroups ==
    /\ IsInjective(free_group)
    /\ \A id \in 1..MaxGroup : id \in ToSet(free_group) <=> ~ \E g \in Held : g.group = id

FreeNodes ==
    /\ IsInjective(free_node)
    /\ \A n \in 1..MaxNode : n \in ToSet(free_node) <=> ~ \E g \in Held : n \in ToSet(g.node)

FreeMemory ==
    /\ WellFormed(memseg)
    /\ \A s \in Memory : s \in FreeSlots(memseg) <=> ~ \E g \in Held : s \in SlotsOf(g.seg)

Ports == \A p \in Port : recir_port_cnt[p] = Cardinality({g \in Held : g.port = p})

\* The metadata entry of rank i of grant g.
Entry(g, i) ==
    [group |-> g.group, rank |-> i, agg_addr |-> g.seg[1], mask |-> g.seg[2] - g.seg[1] - 1]

\* Every metadata entry belongs to a grant.
Entries ==
    \A m \in DOMAIN metadata_table :
        \E g \in Held : \E i \in 1..Len(g.member) :
            g.member[i] = m /\ metadata_table[m] = Entry(g, i)

\* A grant has all its entries.
Installed(g) ==
    /\ g.group \in DOMAIN mgid_table /\ mgid_table[g.group] = ToSet(g.node)
    /\ \A i \in 1..Len(g.member) :
         /\ g.member[i] \in DOMAIN metadata_table
         /\ metadata_table[g.member[i]] = Entry(g, i)
         /\ <<g.group, i>> \in DOMAIN restore_table
         /\ restore_table[<<g.group, i>>] = g.member[i]
         /\ g.node[i] \in DOMAIN node_table
         /\ node_table[g.node[i]] = [rank |-> i, port |-> g.member[i]]

Complete == \A id \in Groups : Installed(undo[id])

\* If all windows had one size, segments begin and end at its multiples.
Aligned ==
    \A size \in Size : size > 0 /\ granted \subseteq {size} =>
        /\ \A i \in 1..Len(memseg) :
             /\ memseg[i][1] % size = 0
             /\ memseg[i][2] % size = 0 \/ memseg[i][2] = MemSize
        /\ \A g \in Held : g.seg[1] % size = 0 /\ g.seg[2] % size = 0

CInv == /\ Types /\ Grants /\ Separate /\ FreeGroups /\ FreeNodes /\ FreeMemory /\ Ports
        /\ Entries /\ Complete /\ Aligned

-----------------------------------------------------------------------------
(* Lists of segments. *)

\* A segment has two ends.
LEMMA SegEnds ==
    ASSUME NEW q \in Seq(Seg)
    PROVE  /\ Len(q) \in Nat /\ DOMAIN q = 1..Len(q)
           /\ \A a \in 1..Len(q) : q[a] \in Seg /\ q[a][1] \in Nat /\ q[a][2] \in Nat /\ q[a][1] <= MemSize /\ q[a][2] <= MemSize
<1>1. Len(q) \in Nat /\ DOMAIN q = 1..Len(q) /\ \A a \in 1..Len(q) : q[a] \in Seg
  OBVIOUS
<1>2. ASSUME NEW a \in 1..Len(q) PROVE q[a][1] \in 0..MemSize /\ q[a][2] \in 0..MemSize
  BY <1>1 DEF Seg
<1>3. MemSize \in Nat
  BY ControllerAssumption
<1>4. \A x \in 0..MemSize : x \in Nat /\ x <= MemSize
  BY <1>3
<1>. QED
  BY <1>1, <1>2, <1>4

\* The list q with m in place of its segments i..(j - 1).
Replaced(q, i, j, m) == SubSeq(q, 1, i - 1) \o m \o SubSeq(q, j, Len(q))

\* Where the segments of the new list come from.
LEMMA ReplacedAt ==
    ASSUME NEW q \in Seq(Seg), NEW m \in Seq(Seg), NEW i \in 1..(Len(q) + 1), NEW j \in i..(Len(q) + 1)
    PROVE  LET c == Replaced(q, i, j, m)
               n == i - 1 + Len(m)
           IN  /\ c \in Seq(Seg) /\ Len(c) = n + (Len(q) - j + 1) /\ n \in Nat /\ Len(m) \in Nat /\ Len(q) \in Nat
               /\ \A k \in 1..(i - 1) : c[k] = q[k]
               /\ \A k \in 1..Len(m) : c[i - 1 + k] = m[k]
               /\ \A k \in 1..(Len(q) - j + 1) : c[n + k] = q[j + k - 1]
<1>. DEFINE one == 1
            p == i - 1
            len == Len(q)
            A == SubSeq(q, one, p)
            C == SubSeq(q, j, len)
            c == Replaced(q, i, j, m)
<1>1. len \in Nat /\ Len(m) \in Nat /\ p \in Nat /\ j \in Nat /\ p + 1 <= j /\ j <= len + 1
  OBVIOUS
<1>2. one \in 1..(len + 1) /\ p \in (one - 1)..len /\ j \in 1..(len + 1) /\ len \in (j - 1)..len
  BY <1>1
<1>. HIDE DEF one, p
<1>3. /\ A \in Seq(Seg) /\ Len(A) = p - one + 1
      /\ \A k \in 1..(p - one + 1) : one + k - 1 \in 1..len /\ A[k] = q[one + k - 1]
  BY <1>2, SubSeqAt
<1>4. /\ C \in Seq(Seg) /\ Len(C) = len - j + 1
      /\ \A k \in 1..(len - j + 1) : j + k - 1 \in 1..len /\ C[k] = q[j + k - 1]
  BY <1>2, SubSeqAt
<1>. HIDE DEF C, len
<1>5. Len(A) = p /\ \A k \in 1..p : A[k] = q[k]
  <2>1. p - one + 1 = p /\ \A k \in 1..p : k \in Int /\ one + k - 1 = k
    BY <1>1 DEF one
  <2>. QED
    BY <1>3, <2>1
<1>6. c = (A \o m) \o C
  BY DEF Replaced, A, C, len, one, p
<1>. HIDE DEF A, c
<1>7. /\ A \o m \in Seq(Seg) /\ Len(A \o m) = p + Len(m)
      /\ \A k \in 1..p : (A \o m)[k] = A[k]
      /\ \A k \in 1..Len(m) : (A \o m)[p + k] = m[k]
  <2>1. /\ A \o m \in Seq(Seg) /\ Len(A \o m) = Len(A) + Len(m)
        /\ \A k \in 1..Len(A) : (A \o m)[k] = A[k]
        /\ \A k \in 1..Len(m) : (A \o m)[Len(A) + k] = m[k]
    <3>1. A \in Seq(Seg) /\ m \in Seq(Seg)
      BY <1>3
    <3>2. A \o m \in Seq(Seg) /\ Len(A \o m) = Len(A) + Len(m)
      BY <3>1
    <3>3. \A k \in 1..Len(A) : (A \o m)[k] = A[k]
      BY <3>1
    <3>4. \A k \in 1..Len(m) : (A \o m)[Len(A) + k] = m[k]
      BY <3>1
    <3>. QED
      BY <3>2, <3>3, <3>4
  <2>. QED
    BY <2>1, <1>5
<1>. DEFINE B == A \o m
            n == p + Len(m)
<1>8. n \in Nat /\ (\A k \in 1..p : k \in 1..n) /\ \A k \in 1..Len(m) : p + k \in 1..n
  BY <1>1
<1>. HIDE DEF B, n
<1>9. /\ B \o C \in Seq(Seg) /\ Len(B \o C) = n + (len - j + 1)
      /\ \A k \in 1..n : (B \o C)[k] = B[k]
      /\ \A k \in 1..(len - j + 1) : (B \o C)[n + k] = C[k]
  <2>1. B \in Seq(Seg) /\ Len(B) = n
    BY <1>7 DEF B, n
  <2>2. /\ B \o C \in Seq(Seg) /\ Len(B \o C) = Len(B) + Len(C)
        /\ \A k \in 1..Len(B) : (B \o C)[k] = B[k]
        /\ \A k \in 1..Len(C) : (B \o C)[Len(B) + k] = C[k]
    <3>1. B \in Seq(Seg) /\ C \in Seq(Seg)
      BY <2>1, <1>4
    <3>2. B \o C \in Seq(Seg) /\ Len(B \o C) = Len(B) + Len(C)
      BY <3>1
    <3>3. \A k \in 1..Len(B) : (B \o C)[k] = B[k]
      BY <3>1
    <3>4. \A k \in 1..Len(C) : (B \o C)[Len(B) + k] = C[k]
      BY <3>1
    <3>. QED
      BY <3>2, <3>3, <3>4
  <2>. QED
    BY <2>1, <2>2, <1>4
<1>10. \A k \in 1..p : c[k] = q[k]
  BY <1>5, <1>6, <1>7, <1>8, <1>9 DEF B
<1>11. \A k \in 1..Len(m) : c[p + k] = m[k]
  BY <1>6, <1>7, <1>8, <1>9 DEF B
<1>12. \A k \in 1..(len - j + 1) : c[n + k] = q[j + k - 1]
  BY <1>4, <1>6, <1>9 DEF B
<1>13. c \in Seq(Seg) /\ Len(c) = n + (len - j + 1)
  BY <1>6, <1>9 DEF B
<1>. QED
  BY <1>1, <1>8, <1>10, <1>11, <1>12, <1>13 DEF c, n, p, len

\* If the new segments lie between the others, the new list is in order, and
\* its slots are those of the three parts.
LEMMA ReplacedSlots ==
    ASSUME NEW q \in Seq(Seg), NEW m \in Seq(Seg), NEW i \in 1..(Len(q) + 1), NEW j \in i..(Len(q) + 1),
           WellFormed(q), WellFormed(m),
           \A a \in 1..(i - 1), b \in 1..Len(m) : q[a][2] <= m[b][1],
           \A a \in j..Len(q), b \in 1..Len(m) : m[b][2] <= q[a][1]
    PROVE  LET c == Replaced(q, i, j, m)
           IN  /\ c \in Seq(Seg) /\ WellFormed(c)
               /\ \A k \in 1..Len(c) : (\E a \in 1..Len(q) : c[k] = q[a]) \/ (\E b \in 1..Len(m) : c[k] = m[b])
               /\ \A s : s \in FreeSlots(c) <=>
                          \/ \E a \in 1..Len(q) : (a < i \/ j <= a) /\ s \in SlotsOf(q[a])
                          \/ s \in FreeSlots(m)
<1>. DEFINE c == Replaced(q, i, j, m)
            n == i - 1 + Len(m)
            t == Len(q) - j + 1
<1>1. /\ c \in Seq(Seg) /\ Len(c) = n + t /\ n \in Nat /\ Len(m) \in Nat /\ Len(q) \in Nat
      /\ \A k \in 1..(i - 1) : c[k] = q[k]
      /\ \A k \in 1..Len(m) : c[i - 1 + k] = m[k]
      /\ \A k \in 1..t : c[n + k] = q[j + k - 1]
  <2>1. i \in 1..(Len(q) + 1) /\ j \in i..(Len(q) + 1)
    OBVIOUS
  <2>2. /\ Replaced(q, i, j, m) \in Seq(Seg) /\ Len(Replaced(q, i, j, m)) = i - 1 + Len(m) + (Len(q) - j + 1)
        /\ i - 1 + Len(m) \in Nat /\ Len(m) \in Nat /\ Len(q) \in Nat
        /\ \A k \in 1..(i - 1) : Replaced(q, i, j, m)[k] = q[k]
        /\ \A k \in 1..Len(m) : Replaced(q, i, j, m)[i - 1 + k] = m[k]
        /\ \A k \in 1..(Len(q) - j + 1) : Replaced(q, i, j, m)[i - 1 + Len(m) + k] = q[j + k - 1]
    BY <2>1, ReplacedAt, ZenonT(40)
  <2>. QED
    BY <2>2
<1>2. i \in Nat /\ i >= 1 /\ j \in Nat /\ i <= j /\ j <= Len(q) + 1 /\ n = i - 1 + Len(m) /\ t = Len(q) - j + 1 /\ t \in Nat /\ n \in Nat /\ Len(m) \in Nat
  BY <1>1
<1>. HIDE DEF c, n, t
\* Three kinds of places.
<1>3. ASSUME NEW k \in 1..Len(c)
      PROVE  \/ k \in 1..(i - 1) /\ c[k] = q[k]
             \/ k - i + 1 \in 1..Len(m) /\ c[k] = m[k - i + 1]
             \/ k - n \in 1..t /\ c[k] = q[j + (k - n) - 1]
  <2>1. k \in 1..(i - 1) \/ k - i + 1 \in 1..Len(m) \/ k - n \in 1..t
    BY <1>1, <1>2
  <2>2. i - 1 + (k - i + 1) = k /\ n + (k - n) = k
    BY <1>1, <1>2
  <2>3. k - i + 1 \in 1..Len(m) => c[k] = m[k - i + 1]
    BY <1>1, <2>2
  <2>4. k - n \in 1..t => c[k] = q[j + (k - n) - 1]
    BY <1>1, <2>2
  <2>. QED
    BY <2>1, <2>3, <2>4, <1>1
<1>4. ASSUME NEW k \in Int, k - n \in 1..t
      PROVE  j + (k - n) - 1 \in 1..Len(q) /\ j <= j + (k - n) - 1
  BY <1>4, <1>1, <1>2
<1>5. \A k \in 1..(i - 1) : k \in 1..Len(q)
  BY <1>1, <1>2
<1>6. /\ \A a \in 1..Len(q) : q[a][1] \in Nat /\ q[a][2] \in Nat
      /\ \A b \in 1..Len(m) : m[b][1] \in Nat /\ m[b][2] \in Nat
  BY SegEnds
<1>7. \A k \in 1..Len(c) : (\E a \in 1..Len(q) : c[k] = q[a]) \/ (\E b \in 1..Len(m) : c[k] = m[b])
  BY <1>1, <1>3, <1>4, <1>5
<1>8. WellFormed(c)
  <2>1. \A k \in 1..Len(c) : c[k][1] < c[k][2]
    BY <1>7 DEF WellFormed
  <2>2. ASSUME NEW x \in 1..Len(c), NEW y \in 1..Len(c), x < y
        PROVE  c[x][2] <= c[y][1]
    <3>. DEFINE u == j + (x - n) - 1
                v == j + (y - n) - 1
                e == x - i + 1
                f == y - i + 1
    <3>0. x \in Int /\ y \in Int
      BY <1>1
    <3>1. CASE x \in 1..(i - 1) /\ c[x] = q[x]
      <4>1. x \in 1..Len(q)
        BY <3>1, <1>5
      <4>2. CASE y \in 1..(i - 1) /\ c[y] = q[y]
        BY <3>1, <4>1, <4>2, <1>5, <2>2 DEF WellFormed
      <4>3. CASE f \in 1..Len(m) /\ c[y] = m[f]
        BY <3>1, <4>3
      <4>4. CASE y - n \in 1..t /\ c[y] = q[v]
        <5>1. v \in 1..Len(q) /\ j <= v
          BY <4>4, <3>0, <1>4
        <5>2. x < v
          BY <5>1, <3>1, <1>2
        <5>. QED
          BY <5>1, <5>2, <4>1, <4>4, <3>1 DEF WellFormed
      <4>. QED
        BY <4>2, <4>3, <4>4, <1>3
    <3>2. CASE e \in 1..Len(m) /\ c[x] = m[e]
      <4>2. CASE y \in 1..(i - 1) /\ c[y] = q[y]
        BY <3>2, <4>2, <2>2, <1>2
      <4>3. CASE f \in 1..Len(m) /\ c[y] = m[f]
        <5>1. e < f
          BY <2>2, <1>2
        <5>. QED
          BY <5>1, <3>2, <4>3 DEF WellFormed
      <4>4. CASE y - n \in 1..t /\ c[y] = q[v]
        <5>1. v \in j..Len(q)
          BY <4>4, <3>0, <1>2, <1>4
        <5>. QED
          BY <5>1, <3>2, <4>4
      <4>. QED
        BY <4>2, <4>3, <4>4, <1>3
    <3>3. CASE x - n \in 1..t /\ c[x] = q[u]
      <4>1. u \in 1..Len(q) /\ j <= u
        BY <3>3, <3>0, <1>4
      <4>2. CASE y \in 1..(i - 1) /\ c[y] = q[y]
        <5>1. n < x
          BY <3>0, <3>3, <1>2
        <5>2. i - 1 <= n
          BY <1>2
        <5>3. y <= i - 1
          BY <3>0, <4>2, <1>2
        <5>. QED
          BY <5>1, <5>2, <5>3, <3>0, <2>2, <1>2
      <4>3. CASE f \in 1..Len(m) /\ c[y] = m[f]
        <5>1. n < x
          BY <3>0, <3>3, <1>2
        <5>2. y <= n
          BY <3>0, <4>3, <1>2
        <5>. QED
          BY <5>1, <5>2, <3>0, <2>2, <1>2
      <4>4. CASE y - n \in 1..t /\ c[y] = q[v]
        <5>1. v \in 1..Len(q)
          BY <4>4, <3>0, <1>4
        <5>2. u < v
          BY <3>0, <1>2, <2>2
        <5>. HIDE DEF u, v
        <5>. QED
          BY <5>1, <5>2, <4>1, <4>4, <3>3 DEF WellFormed
      <4>. QED
        BY <4>2, <4>3, <4>4, <1>3
    <3>. QED
      BY <3>1, <3>2, <3>3, <1>3
  <2>. QED
    BY <2>1, <2>2 DEF WellFormed
<1>9. ASSUME NEW s, s \in FreeSlots(c)
      PROVE  \/ \E a \in 1..Len(q) : (a < i \/ j <= a) /\ s \in SlotsOf(q[a])
             \/ s \in FreeSlots(m)
  <2>1. PICK k \in 1..Len(c) : s \in SlotsOf(c[k])
    BY <1>9 DEF FreeSlots
  <2>2. CASE k \in 1..(i - 1) /\ c[k] = q[k]
    <3>1. k \in 1..Len(q) /\ k < i
      BY <2>2, <1>2, <1>5
    <3>. QED
      BY <2>1, <2>2, <3>1, Zenon
  <2>3. CASE k - i + 1 \in 1..Len(m) /\ c[k] = m[k - i + 1]
    BY <2>1, <2>3 DEF FreeSlots
  <2>4. CASE k - n \in 1..t /\ c[k] = q[j + (k - n) - 1]
    BY <2>1, <2>4, <1>4
  <2>. QED
    BY <2>2, <2>3, <2>4, <1>3
<1>10. ASSUME NEW s, NEW a \in 1..Len(q), a < i \/ j <= a, s \in SlotsOf(q[a])
       PROVE  s \in FreeSlots(c)
  <2>1. CASE a < i
    <3>1. a \in 1..(i - 1) /\ a \in 1..Len(c)
      BY <2>1, <1>1, <1>2
    <3>. QED
      BY <3>1, <1>1, <1>10 DEF FreeSlots
  <2>2. CASE j <= a
    <3>. DEFINE k == a - j + 1
    <3>1. k \in 1..t /\ j + k - 1 = a
      BY <2>2, <1>2
    <3>. HIDE DEF k
    <3>3. n + k \in 1..Len(c)
      <4>1. \A x, y \in Nat : \A z \in 1..y : x + z \in 1..(x + y)
        OBVIOUS
      <4>2. n \in Nat /\ t \in Nat /\ Len(c) = n + t
        BY <1>1, <1>2
      <4>. QED
        BY <3>1, <4>1, <4>2
    <3>2. c[n + k] = q[a]
      BY <3>1, <1>1
    <3>. QED
      BY <3>2, <3>3, <1>10 DEF FreeSlots
  <2>. QED
    BY <2>1, <2>2, <1>10
<1>11. ASSUME NEW s, s \in FreeSlots(m) PROVE s \in FreeSlots(c)
  <2>1. PICK b \in 1..Len(m) : s \in SlotsOf(m[b])
    BY <1>11 DEF FreeSlots
  <2>2. i - 1 + b \in 1..Len(c)
    BY <1>1, <1>2
  <2>3. c[i - 1 + b] = m[b]
    BY <1>1
  <2>. QED
    BY <2>1, <2>2, <2>3 DEF FreeSlots
<1>. QED
  BY <1>1, <1>7, <1>8, <1>9, <1>10, <1>11 DEF c

\* No segment but i has slots of segment i.
LEMMA SlotsApart ==
    ASSUME NEW q \in Seq(Seg), WellFormed(q), NEW i \in 1..Len(q), NEW a \in 1..Len(q), a # i,
           NEW s, s \in SlotsOf(q[i]), s \in SlotsOf(q[a])
    PROVE  FALSE
<1>1. /\ q[i][1] \in Nat /\ q[i][2] \in Nat /\ q[a][1] \in Nat /\ q[a][2] \in Nat
      /\ i \in Nat /\ a \in Nat
  BY SegEnds
<1>2. q[i][2] <= q[a][1] \/ q[a][2] <= q[i][1]
  BY <1>1 DEF WellFormed
<1>. QED
  BY <1>1, <1>2 DEF SlotsOf

\* What a list must be after block l..(r - 1) was cut out of list q.
Cut(c, q, l, r) ==
    /\ c \in Seq(Seg) /\ WellFormed(c)
    /\ \A s : s \in FreeSlots(c) <=> s \in FreeSlots(q) /\ s \notin l..(r - 1)
    /\ \A k \in 1..Len(c) :
         /\ c[k][1] = r \/ \E a \in 1..Len(q) : c[k][1] = q[a][1]
         /\ c[k][2] = l \/ \E a \in 1..Len(q) : c[k][2] = q[a][2]

\* alloc_seg cuts the block l..(r - 1) out of segment i and leaves the rest.
LEMMA AllocMeaning ==
    ASSUME NEW q \in Seq(Seg), WellFormed(q), NEW i \in 1..Len(q), NEW l \in Nat, NEW r \in Nat,
           q[i][1] <= l, l < r, r <= q[i][2]
    PROVE  Cut(AllocSeg(q, i, l, r), q, l, r) /\ l..(r - 1) \subseteq FreeSlots(q)
<1>. DEFINE x == q[i][1]
            y == q[i][2]
            B == IF x # l THEN << <<x, l>> >> ELSE << >>
            C == IF y # r THEN << <<r, y>> >> ELSE << >>
            m == B \o C
            j == i + 1
            c == Replaced(q, i, j, m)
<1>1. /\ x \in Nat /\ y \in Nat /\ x <= MemSize /\ y <= MemSize /\ MemSize \in Nat
      /\ Len(q) \in Nat /\ i \in Nat /\ i >= 1 /\ i <= Len(q) /\ DOMAIN q = 1..Len(q)
      /\ \A a \in 1..Len(q) : q[a][1] \in Nat /\ q[a][2] \in Nat
  BY SegEnds, ControllerAssumption
<1>2. <<x, l>> \in Seg /\ <<r, y>> \in Seg
  BY <1>1 DEF Seg
<1>3. B \in Seq(Seg) /\ C \in Seq(Seg) /\ m \in Seq(Seg)
  BY <1>2
<1>. HIDE DEF x, y
<1>4. \A b \in 1..Len(m) : (m[b] = <<x, l>> /\ x # l) \/ (m[b] = <<r, y>> /\ y # r)
  BY <1>2
<1>5. (x # l => \E b \in 1..Len(m) : m[b] = <<x, l>>) /\ (y # r => \E b \in 1..Len(m) : m[b] = <<r, y>>)
  <2>1. Len(m) = Len(B) + Len(C) /\ Len(B) \in Nat /\ Len(C) \in Nat
    BY <1>3
  <2>2. ASSUME x # l PROVE 1 \in 1..Len(m) /\ m[1] = <<x, l>>
    <3>1. B = << <<x, l>> >> /\ Len(B) = 1
      BY <2>2
    <3>. QED
      BY <3>1, <2>1, <1>3
  <2>3. ASSUME y # r PROVE Len(B) + 1 \in 1..Len(m) /\ m[Len(B) + 1] = <<r, y>>
    <3>1. C = << <<r, y>> >> /\ Len(C) = 1 /\ C[1] = <<r, y>>
      BY <2>3
    <3>. HIDE DEF B, C
    <3>2. (B \o C)[Len(B) + 1] = C[1]
      BY <3>1, <2>1, <1>3
    <3>. QED
      BY <3>1, <3>2, <2>1
  <2>. QED
    BY <2>2, <2>3
<1>6. \A b, d \in 1..Len(m) : b < d => m[b] = <<x, l>> /\ m[d] = <<r, y>>
  <2>1. CASE x = l \/ y = r
    <3>1. Len(m) <= 1
      BY <2>1
    <3>. QED
      BY <3>1
  <2>2. CASE x # l /\ y # r
    <3>1. B = << <<x, l>> >> /\ C = << <<r, y>> >>
      BY <2>2
    <3>2. Len(m) = 2 /\ m[1] = <<x, l>> /\ m[2] = <<r, y>>
      BY <3>1, <1>2
    <3>. HIDE DEF m
    <3>3. \A b, d \in 1..2 : b < d => b = 1 /\ d = 2
      OBVIOUS
    <3>. QED
      BY <3>2, <3>3
  <2>. QED
    BY <2>1, <2>2
<1>. HIDE DEF m
<1>7. WellFormed(m)
  <2>1. x <= l /\ r <= y
    BY DEF x, y
  <2>2. \A b \in 1..Len(m) : m[b][1] < m[b][2]
    <3>. SUFFICES ASSUME NEW b \in 1..Len(m) PROVE m[b][1] < m[b][2]
      OBVIOUS
    <3>1. (m[b] = <<x, l>> /\ x # l) \/ (m[b] = <<r, y>> /\ y # r)
      BY <1>4
    <3>2. x \in Nat /\ y \in Nat
      BY <1>1
    <3>. QED
      BY <3>1, <3>2, <2>1
  <2>3. \A b, d \in 1..Len(m) : b < d => m[b][2] <= m[d][1]
    BY <1>1, <1>6
  <2>. QED
    BY <2>2, <2>3 DEF WellFormed
<1>8. AllocSeg(q, i, l, r) = c
  <2>1. SubSeq(q, 1, i - 1) \in Seq(Seg) /\ SubSeq(q, i + 1, Len(q)) \in Seq(Seg)
    <3>1. \A a \in 1..Len(q) : q[a] \in Seg
      OBVIOUS
    <3>2. (\A a \in 1..(i - 1) : q[a] \in Seg) /\ (\A a \in (i + 1)..Len(q) : q[a] \in Seg)
      BY <1>1, <3>1
    <3>. QED
      BY <1>1, <3>2
  <2>2. AllocSeg(q, i, l, r) = ((SubSeq(q, 1, i - 1) \o B) \o C) \o SubSeq(q, i + 1, Len(q))
    BY DEF AllocSeg, x, y
  <2>. DEFINE A == SubSeq(q, 1, i - 1)
  <2>. HIDE DEF A, B, C
  <2>3. (A \o B) \o C = A \o (B \o C)
    <3>1. A \in Seq(Seg) /\ B \in Seq(Seg) /\ C \in Seq(Seg)
      BY <2>1, <1>3 DEF A
    <3>. QED
      BY <3>1, SMTT(40)
  <2>. QED
    BY <2>2, <2>3 DEF Replaced, A, m
<1>9. i \in 1..(Len(q) + 1) /\ j \in i..(Len(q) + 1)
  BY <1>1
<1>10. \A a \in 1..(i - 1), b \in 1..Len(m) : q[a][2] <= m[b][1]
  <2>1. \A a \in 1..(i - 1) : a \in 1..Len(q) /\ q[a][2] <= x /\ q[a][2] \in Nat
    BY <1>1 DEF WellFormed, x
  <2>. QED
    BY <2>1, <1>1, <1>4 DEF x, y
<1>11. \A a \in j..Len(q), b \in 1..Len(m) : m[b][2] <= q[a][1]
  <2>1. ASSUME NEW a \in j..Len(q) PROVE a \in 1..Len(q) /\ y <= q[a][1] /\ q[a][1] \in Nat
    <3>1. a \in 1..Len(q) /\ i < a
      BY <1>1
    <3>. QED
      BY <3>1, <1>1 DEF WellFormed, y
  <2>. QED
    BY <2>1, <1>1, <1>4 DEF x, y
<1>. HIDE DEF j, c
<1>12. /\ c \in Seq(Seg) /\ WellFormed(c)
       /\ \A k \in 1..Len(c) : (\E a \in 1..Len(q) : c[k] = q[a]) \/ (\E b \in 1..Len(m) : c[k] = m[b])
       /\ \A s : s \in FreeSlots(c) <=>
                  \/ \E a \in 1..Len(q) : (a < i \/ j <= a) /\ s \in SlotsOf(q[a])
                  \/ s \in FreeSlots(m)
  BY <1>3, <1>7, <1>9, <1>10, <1>11, ReplacedSlots, Zenon DEF c
<1>13. \A s : s \in FreeSlots(m) <=> s \in SlotsOf(q[i]) /\ s \notin l..(r - 1)
  <2>1. ASSUME NEW s PROVE s \in FreeSlots(m) <=> (x # l /\ s \in x..(l - 1)) \/ (y # r /\ s \in r..(y - 1))
    <3>1. s \in FreeSlots(m) <=> \E b \in 1..Len(m) : s \in SlotsOf(m[b])
      BY DEF FreeSlots
    <3>2. SlotsOf(<<x, l>>) = x..(l - 1) /\ SlotsOf(<<r, y>>) = r..(y - 1)
      BY DEF SlotsOf
    <3>. QED
      BY <3>1, <3>2, <1>4, <1>5, Zenon
  <2>2. ASSUME NEW s PROVE (x # l /\ s \in x..(l - 1)) \/ (y # r /\ s \in r..(y - 1))
                           <=> s \in x..(y - 1) /\ s \notin l..(r - 1)
    <3>1. x \in Nat /\ y \in Nat /\ x <= l /\ r <= y
      BY <1>1 DEF x, y
    <3>. QED
      BY <3>1
  <2>. QED
    BY <2>1, <2>2 DEF SlotsOf, x, y
<1>14. \A s : s \in FreeSlots(q) <=> \E a \in 1..Len(q) : s \in SlotsOf(q[a])
  BY DEF FreeSlots
<1>15. l..(r - 1) \subseteq SlotsOf(q[i])
  BY <1>1 DEF SlotsOf, x, y
<1>16. \A a \in 1..Len(q) : a # i <=> (a < i \/ j <= a)
  BY <1>1 DEF j
<1>17. ASSUME NEW s PROVE s \in FreeSlots(c) <=> s \in FreeSlots(q) /\ s \notin l..(r - 1)
  <2>1. ASSUME NEW a \in 1..Len(q), a # i, s \in SlotsOf(q[a]) PROVE s \notin SlotsOf(q[i])
    BY <2>1, SlotsApart
  <2>. QED
    BY <2>1, <1>12, <1>13, <1>14, <1>15, <1>16
<1>18. ASSUME NEW k \in 1..Len(c)
       PROVE  /\ c[k][1] = r \/ \E a \in 1..Len(q) : c[k][1] = q[a][1]
              /\ c[k][2] = l \/ \E a \in 1..Len(q) : c[k][2] = q[a][2]
  <2>1. CASE \E a \in 1..Len(q) : c[k] = q[a]
    BY <2>1
  <2>2. CASE \E b \in 1..Len(m) : c[k] = m[b]
    BY <2>2, <1>4 DEF x, y
  <2>. QED
    BY <2>1, <2>2, <1>12
<1>19. Cut(c, q, l, r)
  BY <1>12, <1>17, <1>18 DEF Cut
<1>20. l..(r - 1) \subseteq FreeSlots(q)
  BY <1>14, <1>15
<1>. QED
  BY <1>8, <1>19, <1>20

\* The loop of free_seg ends at the first segment behind l.
LEMMA RightIndexMeaning ==
    ASSUME NEW q \in Seq(Seg), NEW l \in Nat
    PROVE  /\ RightIndex(q, l) \in 1..(Len(q) + 1)
           /\ \A a \in 1..Len(q) : a < RightIndex(q, l) => q[a][2] <= l
           /\ RightIndex(q, l) <= Len(q) => q[RightIndex(q, l)][2] > l
<1>. DEFINE I == {i \in 1..Len(q) : q[i][2] > l}
<1>0. Len(q) \in Nat /\ \A a \in 1..Len(q) : q[a][2] \in Nat
  BY SegEnds
<1>1. CASE I = {}
  <2>1. \A a \in 1..Len(q) : ~(q[a][2] > l)
    BY <1>1
  <2>2. RightIndex(q, l) = Len(q) + 1
    BY <2>1, Zenon DEF RightIndex
  <2>. QED
    BY <1>0, <2>1, <2>2
<1>2. CASE I # {}
  <2>1. RightIndex(q, l) = Min(I)
    BY <1>2, Zenon DEF RightIndex, SelectInSeq
  <2>2. I \subseteq Nat
    BY <1>0
  <2>. HIDE DEF I
  <2>3. Min(I) \in I /\ \A i \in I : Min(I) <= i
    BY <1>2, <2>2, LeastNat
  <2>. DEFINE n == Min(I)
  <2>. HIDE DEF n
  <2>4. n \in 1..Len(q) /\ q[n][2] > l
    BY <2>3 DEF I, n
  <2>5. ASSUME NEW a \in 1..Len(q), a < n PROVE q[a][2] <= l
    <3>1. a \notin I
      BY <2>3, <2>4, <2>5, <1>0 DEF n
    <3>. QED
      BY <3>1, <1>0 DEF I
  <2>. QED
    BY <2>1, <2>4, <2>5, <1>0 DEF n
<1>. QED
  BY <1>1, <1>2

\* What is left when segment i is removed, cut at its place.
LEMMA RemovedParts ==
    ASSUME NEW q \in Seq(Seg), NEW i \in 1..Len(q)
    PROVE  /\ RemoveAt(q, i) \in Seq(Seg) /\ Len(RemoveAt(q, i)) = Len(q) - 1
           /\ \A k \in 1..(i - 1) : RemoveAt(q, i)[k] = q[k]
           /\ \A k \in i..(Len(q) - 1) : RemoveAt(q, i)[k] = q[k + 1]
           /\ SubSeq(RemoveAt(q, i), 1, i - 1) = SubSeq(q, 1, i - 1)
           /\ SubSeq(RemoveAt(q, i), i, Len(RemoveAt(q, i))) = SubSeq(q, i + 1, Len(q))
<1>. DEFINE A == SubSeq(q, 1, i - 1)
            C == SubSeq(q, i + 1, Len(q))
            w == RemoveAt(q, i)
            n == Len(q)
<1>1. n \in Nat /\ i \in Nat /\ i >= 1 /\ i <= n /\ \A a \in 1..n : q[a] \in Seg
  OBVIOUS
<1>2. (\A a \in 1..(i - 1) : q[a] \in Seg) /\ (\A a \in (i + 1)..n : q[a] \in Seg)
  BY <1>1
<1>3. A \in Seq(Seg) /\ Len(A) = i - 1 /\ \A k \in 1..(i - 1) : A[k] = q[k]
  BY <1>1, <1>2
<1>4. C \in Seq(Seg) /\ Len(C) = n - i /\ \A k \in 1..(n - i) : C[k] = q[i + k]
  BY <1>1, <1>2
<1>5. w = A \o C
  BY DEF RemoveAt
<1>. HIDE DEF A, C, w
<1>a. A \in Seq(Seg) /\ C \in Seq(Seg)
  BY <1>3, <1>4
<1>b. /\ A \o C \in Seq(Seg) /\ Len(A \o C) = Len(A) + Len(C)
      /\ \A k \in 1..Len(A) : (A \o C)[k] = A[k]
      /\ \A k \in 1..Len(C) : (A \o C)[Len(A) + k] = C[k]
  <2>1. A \o C \in Seq(Seg) /\ Len(A \o C) = Len(A) + Len(C)
    BY <1>a
  <2>2. \A k \in 1..Len(A) : (A \o C)[k] = A[k]
    BY <1>a
  <2>3. \A k \in 1..Len(C) : (A \o C)[Len(A) + k] = C[k]
    BY <1>a
  <2>. QED
    BY <2>1, <2>2, <2>3
<1>. HIDE DEF n
<1>6. w \in Seq(Seg) /\ Len(w) = n - 1
  BY <1>1, <1>3, <1>4, <1>5, <1>b
<1>7. \A k \in 1..(i - 1) : w[k] = A[k]
  BY <1>3, <1>5, <1>b
<1>8. ASSUME NEW k \in 1..(n - i) PROVE w[(i - 1) + k] = C[k]
  BY <1>3, <1>4, <1>5, <1>b
<1>9. \A k \in 1..(i - 1) : w[k] = q[k]
  BY <1>3, <1>7
<1>10. ASSUME NEW k \in i..(n - 1) PROVE w[k] = q[k + 1]
  <2>1. k - i + 1 \in 1..(n - i) /\ (i - 1) + (k - i + 1) = k /\ i + (k - i + 1) = k + 1
    BY <1>1
  <2>. DEFINE e == k - i + 1
  <2>. HIDE DEF e
  <2>2. e \in 1..(n - i) /\ (i - 1) + e = k /\ i + e = k + 1
    BY <2>1 DEF e
  <2>3. w[(i - 1) + e] = C[e] /\ C[e] = q[i + e]
    BY <2>2, <1>4, <1>8
  <2>. QED
    BY <2>2, <2>3
<1>11. SubSeq(w, 1, i - 1) = A
  <2>1. SubSeq(w, 1, i - 1) \in Seq(Seg) /\ Len(SubSeq(w, 1, i - 1)) = i - 1
    BY <1>1, <1>6
  <2>2. \A k \in 1..(i - 1) : SubSeq(w, 1, i - 1)[k] = w[k]
    BY <1>1, <1>6
  <2>. DEFINE u == SubSeq(w, 1, i - 1)
  <2>3. u \in Seq(Seg) /\ Len(u) = i - 1 /\ \A k \in 1..(i - 1) : u[k] = A[k]
    BY <2>1, <2>2, <1>7
  <2>. HIDE DEF u
  <2>4. u = A
    BY <2>3, <1>3
  <2>. QED
    BY <2>4 DEF u
<1>12. SubSeq(w, i, Len(w)) = C
  <2>. DEFINE u == SubSeq(w, i, Len(w))
  <2>1. u \in Seq(Seg) /\ Len(u) = n - i
    BY <1>1, <1>6
  <2>2. \A k \in 1..(n - i) : u[k] = w[i + k - 1]
    BY <1>1, <1>6
  <2>. HIDE DEF u
  <2>3. ASSUME NEW k \in 1..(n - i) PROVE u[k] = C[k]
    <3>1. i + k - 1 = (i - 1) + k
      BY <1>1
    <3>. QED
      BY <3>1, <2>2, <1>8
  <2>4. u = C
    BY <2>1, <2>3, <1>4
  <2>. QED
    BY <2>4 DEF u
<1>. QED
  BY <1>6, <1>9, <1>10, <1>11, <1>12 DEF A, C, w, n

\* A single segment in place of the segments i..(j - 1).
LEMMA OneReplaced ==
    ASSUME NEW q \in Seq(Seg), WellFormed(q), NEW i \in 1..(Len(q) + 1), NEW j \in i..(Len(q) + 1),
           NEW x \in 0..MemSize, NEW y \in 0..MemSize, x < y,
           \A a \in 1..Len(q) : (a < i => q[a][2] <= x) /\ (j <= a => y <= q[a][1])
    PROVE  LET c == Replaced(q, i, j, << <<x, y>> >>)
           IN  /\ c \in Seq(Seg) /\ WellFormed(c)
               /\ \A k \in 1..Len(c) : (\E a \in 1..Len(q) : c[k] = q[a]) \/ c[k] = <<x, y>>
               /\ \A s : s \in FreeSlots(c) <=>
                          \/ \E a \in 1..Len(q) : (a < i \/ j <= a) /\ s \in SlotsOf(q[a])
                          \/ s \in x..(y - 1)
<1>. DEFINE m == << <<x, y>> >>
            c == Replaced(q, i, j, m)
<1>1. m \in Seq(Seg) /\ Len(m) = 1 /\ m[1] = <<x, y>>
  BY DEF Seg
<1>2. Len(q) \in Nat /\ i \in Nat /\ j \in Nat /\ i >= 1 /\ j >= i /\ i <= Len(q) + 1
  BY SegEnds
<1>. HIDE DEF m
<1>3. \A b \in 1..Len(m) : m[b] = <<x, y>>
  BY <1>1
<1>4. WellFormed(m)
  BY <1>1 DEF WellFormed
<1>5. \A a \in 1..(i - 1), b \in 1..Len(m) : q[a][2] <= m[b][1]
  <2>1. \A a \in 1..(i - 1) : a \in 1..Len(q) /\ a < i
    BY <1>2
  <2>. QED
    BY <2>1, <1>3
<1>6. \A a \in j..Len(q), b \in 1..Len(m) : m[b][2] <= q[a][1]
  <2>1. \A a \in j..Len(q) : a \in 1..Len(q) /\ j <= a
    BY <1>2
  <2>. QED
    BY <2>1, <1>3
<1>. HIDE DEF c
<1>7. /\ c \in Seq(Seg) /\ WellFormed(c)
      /\ \A k \in 1..Len(c) : (\E a \in 1..Len(q) : c[k] = q[a]) \/ (\E b \in 1..Len(m) : c[k] = m[b])
      /\ \A s : s \in FreeSlots(c) <=>
                 \/ \E a \in 1..Len(q) : (a < i \/ j <= a) /\ s \in SlotsOf(q[a])
                 \/ s \in FreeSlots(m)
  BY <1>1, <1>4, <1>5, <1>6, ReplacedSlots, Zenon DEF c
<1>8. FreeSlots(m) = x..(y - 1)
  <2>1. FreeSlots(m) = SlotsOf(<<x, y>>)
    <3>1. 1 \in 1..Len(m)
      BY <1>1
    <3>. QED
      BY <3>1, <1>3 DEF FreeSlots
  <2>. QED
    BY <2>1 DEF SlotsOf
<1>9. \A k \in 1..Len(c) : (\E a \in 1..Len(q) : c[k] = q[a]) \/ c[k] = <<x, y>>
  BY <1>3, <1>7
<1>. QED
  BY <1>7, <1>8, <1>9 DEF c, m

\* What a list must be after block l..(r - 1) was put back in list q.
Freed(c, q, l, r) ==
    /\ c \in Seq(Seg) /\ WellFormed(c)
    /\ \A s : s \in FreeSlots(c) <=> s \in FreeSlots(q) \/ s \in l..(r - 1)
    /\ \A k \in 1..Len(c) :
         /\ c[k][1] = l \/ \E a \in 1..Len(q) : c[k][1] = q[a][1]
         /\ c[k][2] = r \/ \E a \in 1..Len(q) : c[k][2] = q[a][2]

\* free_seg does not stop the controller, and puts the block back: the wrong
\* index after the left neighbour was deleted never meets a segment that
\* starts at r.
LEMMA FreeMeaning ==
    ASSUME NEW q \in Seq(Seg), WellFormed(q), NEW l \in 0..MemSize, NEW r \in 0..MemSize, l < r,
           \A s \in l..(r - 1) : s \notin FreeSlots(q)
    PROVE  ~InvalidFree(q, l, r) /\ Freed(FreeSeg(q, l, r), q, l, r)
<1>. DEFINE R == RightIndex(q, l)
            L == R - 1
<1>0. /\ l \in Nat /\ r \in Nat /\ Len(q) \in Nat /\ MemSize \in Nat
      /\ \A a \in 1..Len(q) : q[a] \in Seg /\ q[a][1] \in Nat /\ q[a][2] \in Nat /\ q[a][1] <= MemSize /\ q[a][2] <= MemSize
      /\ \A a \in 1..Len(q) : q[a][1] < q[a][2]
  BY SegEnds, ControllerAssumption DEF WellFormed
<1>1. /\ R \in 1..(Len(q) + 1)
      /\ \A a \in 1..Len(q) : a < R => q[a][2] <= l
      /\ R <= Len(q) => q[R][2] > l
  BY <1>0, RightIndexMeaning
<1>. HIDE DEF R
<1>2. R \in Nat /\ R >= 1 /\ R <= Len(q) + 1
  BY <1>0, <1>1
<1>3. ASSUME R <= Len(q) PROVE r <= q[R][1]
  <2>. SUFFICES ASSUME q[R][1] < r PROVE FALSE
    BY <1>0, <1>2, <1>3
  <2>1. R \in 1..Len(q) /\ q[R][1] \in Nat /\ q[R][2] \in Nat /\ q[R][1] < q[R][2] /\ l < q[R][2]
    BY <1>0, <1>1, <1>2, <1>3
  <2>. DEFINE s == IF q[R][1] <= l THEN l ELSE q[R][1]
  <2>2. s \in l..(r - 1) /\ s \in SlotsOf(q[R])
    BY <2>1, <1>0 DEF SlotsOf
  <2>. HIDE DEF s
  <2>3. s \in FreeSlots(q)
    BY <2>1, <2>2 DEF FreeSlots
  <2>. QED
    BY <2>2, <2>3
<1>4. ~InvalidFree(q, l, r)
  <2>1. CASE R <= Len(q)
    <3>1. ~(q[R][1] < r)
      BY <2>1, <1>0, <1>2, <1>3
    <3>. QED
      BY <3>1 DEF InvalidFree, R
  <2>2. CASE ~(R <= Len(q))
    BY <2>2 DEF InvalidFree, R
  <2>. QED
    BY <2>1, <2>2
\* Everything from the right index on is behind the block.
<1>5. ASSUME NEW a \in 1..Len(q), R <= a PROVE r <= q[a][1]
  <2>1. R \in 1..Len(q) /\ r <= q[R][1] /\ q[R][1] < q[R][2]
    BY <1>0, <1>2, <1>3, <1>5
  <2>2. CASE a = R
    BY <2>1, <2>2
  <2>3. CASE R < a
    <3>1. q[R][2] <= q[a][1]
      BY <2>1, <2>3 DEF WellFormed
    <3>. QED
      BY <2>1, <3>1, <1>0
  <2>. QED
    BY <2>2, <2>3, <1>2, <1>5
<1>6. \A s : s \in FreeSlots(q) <=> \E a \in 1..Len(q) : s \in SlotsOf(q[a])
  BY DEF FreeSlots
<1>7. CASE L >= 1 /\ q[L][2] = l
  <2>. DEFINE w == RemoveAt(q, L)
              x == q[L][1]
              c == Replaced(q, L, R, << <<x, r>> >>)
  <2>1. L \in 1..Len(q) /\ L \in 1..(Len(q) + 1) /\ R \in L..(Len(q) + 1) /\ L + 1 = R /\ L \in Nat
    <3>1. Len(q) \in Nat /\ R \in Nat /\ R - 1 >= 1 /\ R <= Len(q) + 1
      BY <1>0, <1>2, <1>7
    <3>. QED
      BY <3>1
  <2>2. /\ w \in Seq(Seg) /\ Len(w) = Len(q) - 1
        /\ \A k \in L..(Len(q) - 1) : w[k] = q[k + 1]
        /\ SubSeq(w, 1, L - 1) = SubSeq(q, 1, L - 1)
        /\ SubSeq(w, L, Len(w)) = SubSeq(q, L + 1, Len(q))
    BY <2>1, RemovedParts
  <2>. HIDE DEF w, L
  <2>3. ~(R <= Len(w) /\ w[R][1] = r)
    <3>. SUFFICES ASSUME R <= Len(w), w[R][1] = r PROVE FALSE
      OBVIOUS
    <3>1. R \in L..(Len(q) - 1) /\ R + 1 \in 1..Len(q) /\ R \in 1..Len(q) /\ R < R + 1
      BY <2>1, <2>2, <1>0, <1>2
    <3>2. w[R] = q[R + 1]
      BY <3>1, <2>2
    <3>3. q[R][2] <= q[R + 1][1] /\ r <= q[R][1] /\ q[R][1] < q[R][2]
      BY <3>1, <1>0, <1>5, <1>2 DEF WellFormed
    <3>. QED
      BY <3>1, <3>2, <3>3, <1>0
  <2>4. FreeSeg(q, l, r) = InsertAt(w, L, <<x, r>>)
    BY <1>7, <2>3 DEF FreeSeg, w, L, R
  <2>5. FreeSeg(q, l, r) = c
    <3>1. InsertAt(w, L, <<x, r>>) = SubSeq(w, 1, L - 1) \o << <<x, r>> >> \o SubSeq(w, L, Len(w))
      BY DEF InsertAt
    <3>. QED
      BY <3>1, <2>1, <2>2, <2>4 DEF Replaced
  <2>6. x \in 0..MemSize /\ x < r /\ x < l /\ x \in Nat
    BY <2>1, <1>0, <1>7
  <2>7. \A a \in 1..Len(q) : (a < L => q[a][2] <= x) /\ (R <= a => r <= q[a][1])
    BY <2>1, <1>5 DEF WellFormed
  <2>. HIDE DEF x
  <2>a. L \in 1..(Len(q) + 1) /\ R \in L..(Len(q) + 1) /\ x \in 0..MemSize /\ x < r
    BY <2>1, <2>6
  <2>8. /\ c \in Seq(Seg) /\ WellFormed(c)
        /\ \A k \in 1..Len(c) : (\E a \in 1..Len(q) : c[k] = q[a]) \/ c[k] = <<x, r>>
        /\ \A s : s \in FreeSlots(c) <=>
                   \/ \E a \in 1..Len(q) : (a < L \/ R <= a) /\ s \in SlotsOf(q[a])
                   \/ s \in x..(r - 1)
    BY <2>a, <2>7, OneReplaced, Zenon
  <2>9. ASSUME NEW s PROVE s \in FreeSlots(c) <=> s \in FreeSlots(q) \/ s \in l..(r - 1)
    <3>1. \A a \in 1..Len(q) : a = L \/ a < L \/ R <= a
      BY <2>1, <1>2
    <3>2. s \in x..(r - 1) <=> s \in SlotsOf(q[L]) \/ s \in l..(r - 1)
      BY <1>7, <2>6, <1>0 DEF SlotsOf, x
    <3>. HIDE DEF c
    <3>. QED
      BY <3>1, <3>2, <2>1, <2>8, <1>6
  <2>10. ASSUME NEW k \in 1..Len(c)
         PROVE  /\ c[k][1] = l \/ \E a \in 1..Len(q) : c[k][1] = q[a][1]
                /\ c[k][2] = r \/ \E a \in 1..Len(q) : c[k][2] = q[a][2]
    <3>. HIDE DEF c
    <3>1. CASE \E a \in 1..Len(q) : c[k] = q[a]
      BY <3>1
    <3>2. CASE c[k] = <<x, r>>
      BY <3>2, <2>1 DEF x
    <3>. QED
      BY <3>1, <3>2, <2>8
  <2>. HIDE DEF c
  <2>. QED
    BY <2>5, <2>8, <2>9, <2>10, <1>4 DEF Freed
<1>8. CASE ~(L >= 1 /\ q[L][2] = l) /\ R <= Len(q) /\ q[R][1] = r
  <2>. DEFINE w == RemoveAt(q, R)
              y == q[R][2]
              j == R + 1
              c == Replaced(q, R, j, << <<l, y>> >>)
  <2>1. R \in 1..Len(q) /\ R \in 1..(Len(q) + 1) /\ j \in R..(Len(q) + 1)
    BY <1>2, <1>8
  <2>2. /\ SubSeq(w, 1, R - 1) = SubSeq(q, 1, R - 1)
        /\ SubSeq(w, R, Len(w)) = SubSeq(q, R + 1, Len(q))
    BY <2>1, RemovedParts
  <2>. HIDE DEF w
  <2>4. FreeSeg(q, l, r) = InsertAt(w, R, <<l, y>>)
    BY <1>8 DEF FreeSeg, w, R
  <2>5. FreeSeg(q, l, r) = c
    <3>1. InsertAt(w, R, <<l, y>>) = SubSeq(w, 1, R - 1) \o << <<l, y>> >> \o SubSeq(w, R, Len(w))
      BY DEF InsertAt
    <3>. QED
      BY <3>1, <2>2, <2>4 DEF Replaced
  <2>6. y \in 0..MemSize /\ l < y /\ r < y /\ y \in Nat
    BY <2>1, <1>0, <1>8
  <2>. HIDE DEF j
  <2>7. \A a \in 1..Len(q) : (a < R => q[a][2] <= l) /\ (j <= a => y <= q[a][1])
    <3>1. \A a \in 1..Len(q) : j <= a => R < a
      BY <1>2 DEF j
    <3>. QED
      BY <3>1, <2>1, <1>1 DEF WellFormed
  <2>8. /\ c \in Seq(Seg) /\ WellFormed(c)
        /\ \A k \in 1..Len(c) : (\E a \in 1..Len(q) : c[k] = q[a]) \/ c[k] = <<l, y>>
        /\ \A s : s \in FreeSlots(c) <=>
                   \/ \E a \in 1..Len(q) : (a < R \/ j <= a) /\ s \in SlotsOf(q[a])
                   \/ s \in l..(y - 1)
    BY <2>1, <2>6, <2>7, OneReplaced, Zenon
  <2>9. ASSUME NEW s PROVE s \in FreeSlots(c) <=> s \in FreeSlots(q) \/ s \in l..(r - 1)
    <3>1. \A a \in 1..Len(q) : a = R \/ a < R \/ j <= a
      BY <2>1, <1>2 DEF j
    <3>2. s \in l..(y - 1) <=> s \in SlotsOf(q[R]) \/ s \in l..(r - 1)
      BY <1>8, <2>6, <1>0 DEF SlotsOf
    <3>. HIDE DEF c
    <3>. QED
      BY <3>1, <3>2, <2>1, <2>8, <1>6
  <2>10. ASSUME NEW k \in 1..Len(c)
         PROVE  /\ c[k][1] = l \/ \E a \in 1..Len(q) : c[k][1] = q[a][1]
                /\ c[k][2] = r \/ \E a \in 1..Len(q) : c[k][2] = q[a][2]
    <3>. HIDE DEF c
    <3>1. CASE \E a \in 1..Len(q) : c[k] = q[a]
      BY <3>1
    <3>2. CASE c[k] = <<l, y>>
      BY <3>2, <2>1
    <3>. QED
      BY <3>1, <3>2, <2>8
  <2>. HIDE DEF c
  <2>. QED
    BY <2>5, <2>8, <2>9, <2>10, <1>4 DEF Freed
<1>9. CASE ~(L >= 1 /\ q[L][2] = l) /\ ~(R <= Len(q) /\ q[R][1] = r)
  <2>. DEFINE c == Replaced(q, R, R, << <<l, r>> >>)
  <2>1. R \in 1..(Len(q) + 1) /\ R \in R..(Len(q) + 1)
    BY <1>2
  <2>4. FreeSeg(q, l, r) = InsertAt(q, R, <<l, r>>)
    BY <1>9 DEF FreeSeg, R
  <2>5. FreeSeg(q, l, r) = c
    BY <2>4 DEF Replaced, InsertAt
  <2>7. \A a \in 1..Len(q) : (a < R => q[a][2] <= l) /\ (R <= a => r <= q[a][1])
    BY <1>1, <1>5
  <2>8. /\ c \in Seq(Seg) /\ WellFormed(c)
        /\ \A k \in 1..Len(c) : (\E a \in 1..Len(q) : c[k] = q[a]) \/ c[k] = <<l, r>>
        /\ \A s : s \in FreeSlots(c) <=>
                   \/ \E a \in 1..Len(q) : (a < R \/ R <= a) /\ s \in SlotsOf(q[a])
                   \/ s \in l..(r - 1)
    BY <2>1, <2>7, OneReplaced, Zenon
  <2>. HIDE DEF c
  <2>9. ASSUME NEW s PROVE s \in FreeSlots(c) <=> s \in FreeSlots(q) \/ s \in l..(r - 1)
    <3>1. \A a \in 1..Len(q) : a < R \/ R <= a
      BY <1>2
    <3>. QED
      BY <3>1, <2>8, <1>6
  <2>10. ASSUME NEW k \in 1..Len(c)
         PROVE  /\ c[k][1] = l \/ \E a \in 1..Len(q) : c[k][1] = q[a][1]
                /\ c[k][2] = r \/ \E a \in 1..Len(q) : c[k][2] = q[a][2]
    <3>1. CASE \E a \in 1..Len(q) : c[k] = q[a]
      BY <3>1
    <3>2. CASE c[k] = <<l, r>>
      BY <3>2
    <3>. QED
      BY <3>1, <3>2, <2>8
  <2>. QED
    BY <2>5, <2>8, <2>9, <2>10, <1>4 DEF Freed
<1>. QED
  BY <1>7, <1>8, <1>9

\* upperalign: the first multiple of y that is not before x.
LEMMA AlignUp ==
    ASSUME NEW x \in Nat, NEW y \in Nat \ {0}
    PROVE  /\ UpperAlign(x, y) \in Nat /\ x <= UpperAlign(x, y) /\ UpperAlign(x, y) % y = 0
           /\ x % y = 0 => UpperAlign(x, y) = x
<1>. DEFINE a == x + y - 1
            d == a \div y
            u == UpperAlign(x, y)
            zero == 0
<1>1. a \in Int /\ zero \in 0..(y - 1)
  OBVIOUS
<1>. HIDE DEF a, zero
<1>2. a = y * d + (a % y) /\ a % y \in 0..(y - 1) /\ d \in Int
  BY <1>1, DivMod
<1>. HIDE DEF d
<1>3. u = y * d
  <2>1. u = d * y
    BY DEF UpperAlign, d, a
  <2>. QED
    BY <2>1, <1>2
<1>4. u \in Int /\ u = a - (a % y) /\ a % y \in Int /\ 0 <= a % y /\ a % y <= y - 1
  BY <1>1, <1>2, <1>3
<1>. HIDE DEF u
<1>5. u \in Nat /\ x <= u /\ u <= x + y - 1
  BY <1>4 DEF a
<1>6. (y * d + zero) % y = zero
  BY <1>1, <1>2, ModUnique
<1>7. u % y = 0
  <2>1. y * d + zero = u
    BY <1>2, <1>3, <1>4 DEF zero
  <2>. QED
    BY <2>1, <1>6 DEF zero
<1>8. ASSUME x % y = 0 PROVE u = x
  <2>. SUFFICES ASSUME x < u PROVE FALSE
    BY <1>5
  <2>1. x + y <= u
    <3>1. x % y = u % y /\ x \in Int /\ u \in Int /\ x < u
      BY <1>5, <1>7, <1>8
    <3>. QED
      BY <3>1, SameModApart
  <2>. QED
    BY <2>1, <1>5
<1>. QED
  BY <1>5, <1>7, <1>8 DEF u

\* fit_seg finds an aligned block inside a segment.
LEMMA FitMeaning ==
    ASSUME NEW q \in Seq(Seg), NEW size \in Nat \ {0}, FitSeg(q, size) # NoFit
    PROVE  LET fit == FitSeg(q, size)
           IN  /\ fit.index \in 1..Len(q) /\ fit.addr \in Nat /\ fit.addr % size = 0
               /\ q[fit.index][1] <= fit.addr /\ fit.addr + size <= q[fit.index][2]
<1>. DEFINE I == {i \in 1..Len(q) : Fits(q[i], size)}
            n == Min(I)
<1>0. Len(q) \in Nat /\ \A a \in 1..Len(q) : q[a][1] \in Nat /\ q[a][2] \in Nat
  BY SegEnds
<1>1. \E i \in 1..Len(q) : Fits(q[i], size)
  BY DEF FitSeg
<1>2. I # {} /\ I \subseteq Nat
  BY <1>0, <1>1
<1>3. FitSeg(q, size) = [index |-> n, addr |-> UpperAlign(q[n][1], size)]
  <2>1. SelectInSeq(q, LAMBDA seg : Fits(seg, size)) = n
    BY <1>2, Zenon DEF SelectInSeq
  <2>. QED
    BY <1>1, <2>1, Zenon DEF FitSeg
<1>. HIDE DEF I
<1>4. n \in I
  BY <1>2, LeastNat
<1>. HIDE DEF n
<1>5. n \in 1..Len(q) /\ UpperAlign(q[n][1], size) + size <= q[n][2]
  BY <1>4 DEF I, Fits
<1>6. q[n][1] \in Nat
  BY <1>0, <1>5
<1>7. /\ UpperAlign(q[n][1], size) \in Nat /\ q[n][1] <= UpperAlign(q[n][1], size)
      /\ UpperAlign(q[n][1], size) % size = 0
  BY <1>6, AlignUp
<1>. QED
  BY <1>3, <1>5, <1>7

\* select_recir_port_idx finds a port.
LEMMA PortSelected ==
    ASSUME recir_port_cnt \in [Port -> Nat]
    PROVE  SelectRecirPort \in Port
<1>. DEFINE C == {recir_port_cnt[p] : p \in Port}
            P == {p \in Port : recir_port_cnt[p] = Min(C)}
<1>1. 1 \in Port /\ Port \subseteq Nat
  BY ControllerAssumption DEF Port
<1>2. C \subseteq Nat /\ C # {}
  BY <1>1
<1>. HIDE DEF C
<1>3. Min(C) \in C /\ \A x \in C : Min(C) <= x
  BY <1>2, LeastNat
<1>4. P # {} /\ P \subseteq Nat
  BY <1>1, <1>3 DEF C
<1>. HIDE DEF P
<1>5. Min(P) \in P /\ \A x \in P : Min(P) <= x
  BY <1>4, LeastNat
<1>. DEFINE k == Min(P)
<1>. HIDE DEF k
<1>6. k \in Port /\ recir_port_cnt[k] = Min(C)
  BY <1>5 DEF P, k
<1>7. ASSUME NEW q \in Port
      PROVE  \/ recir_port_cnt[k] < recir_port_cnt[q]
             \/ recir_port_cnt[k] = recir_port_cnt[q] /\ k <= q
  <2>1. recir_port_cnt[q] \in C /\ recir_port_cnt[q] \in Nat /\ recir_port_cnt[k] \in Nat
    BY <1>6 DEF C
  <2>2. recir_port_cnt[k] <= recir_port_cnt[q]
    BY <2>1, <1>3, <1>6
  <2>3. CASE recir_port_cnt[q] = Min(C)
    <3>1. q \in P
      BY <2>3 DEF P
    <3>. QED
      BY <3>1, <2>3, <1>5, <1>6 DEF k
  <2>4. CASE recir_port_cnt[q] # Min(C)
    BY <2>1, <2>2, <2>4, <1>6
  <2>. QED
    BY <2>3, <2>4
<1>. QED
  BY <1>6, <1>7 DEF SelectRecirPort
-----------------------------------------------------------------------------
(* A request is given something that nobody holds. *)

\* Requests are sequences of members.
LEMMA RequestMeaning ==
    ASSUME NEW req \in Request, Types
    PROVE  /\ req \in Seq(Member) /\ IsInjective(req)
           /\ \A i \in 1..Len(req) : req[i] \in Member /\ req[i] \notin DOMAIN metadata_table
<1>1. PICK n \in GroupSize : req \in [1..n -> Member \ DOMAIN metadata_table]
  BY DEF Request
<1>2. n \in Nat /\ IsInjective(req)
  BY ControllerAssumption DEF Request
<1>3. req \in Seq(Member) /\ Len(req) = n
  BY <1>1, <1>2
<1>. QED
  BY <1>1, <1>2, <1>3

\* The request got these resources.
Granted(req, size) ==
    /\ req \in Request /\ size \in Size
    /\ IsPower2(size, MemSize) /\ HasResources(req, size)

LEMMA GrantMeaning ==
    ASSUME CInv, NEW req, NEW size, Granted(req, size)
    PROVE  LET g == Grant(req, size)
           IN  /\ Proper(g) /\ g.member = req /\ size \in Nat \ {0}
               /\ free_group # << >> /\ g.group = Head(free_group)
               /\ Len(req) \in 0..Len(free_node) /\ g.node = SubSeq(free_node, 1, Len(req))
               /\ g.index \in 1..Len(memseg)
               /\ memseg[g.index][1] <= g.seg[1] /\ g.seg[2] <= memseg[g.index][2]
               /\ g.seg[1] % size = 0 /\ g.seg[2] = g.seg[1] + size
<1>. DEFINE g == Grant(req, size)
            fit == FitSeg(memseg, size)
            n == Len(req)
<1>1. /\ req \in Seq(Member) /\ IsInjective(req) /\ n \in Nat
      /\ size \in Nat \ {0} /\ Len(free_group) >= 1 /\ Len(free_node) >= n /\ fit # NoFit
  <2>1. req \in Request /\ Types
    BY DEF CInv, Granted
  <2>2. req \in Seq(Member) /\ IsInjective(req)
    BY <2>1, RequestMeaning
  <2>. QED
    BY <2>2, ControllerAssumption DEF Granted, HasResources, IsPower2
<1>2. /\ memseg \in Seq(Seg) /\ free_group \in Seq(1..MaxGroup) /\ free_node \in Seq(1..MaxNode)
      /\ IsInjective(free_node) /\ MemSize \in Nat
  BY ControllerAssumption DEF CInv, Types, FreeNodes
<1>3. /\ fit.index \in 1..Len(memseg) /\ fit.addr \in Nat /\ fit.addr % size = 0
      /\ memseg[fit.index][1] <= fit.addr /\ fit.addr + size <= memseg[fit.index][2]
  BY <1>1, <1>2, FitMeaning
<1>. HIDE DEF fit
<1>4. /\ g.group = free_group[1] /\ g.seg = <<fit.addr, fit.addr + size>> /\ g.index = fit.index
      /\ g.node = SubSeq(free_node, 1, n) /\ g.port = SelectRecirPort /\ g.member = req
  BY DEF Grant, fit
<1>. HIDE DEF g
<1>5. memseg[fit.index][2] \in Nat /\ memseg[fit.index][2] <= MemSize
  BY <1>2, <1>3, SegEnds
<1>6. g.seg \in Seg /\ g.seg[1] = fit.addr /\ g.seg[2] = fit.addr + size /\ g.seg[1] < g.seg[2]
  <2>1. fit.addr \in 0..MemSize /\ fit.addr + size \in 0..MemSize /\ fit.addr < fit.addr + size
    <3>. DEFINE a == fit.addr
                e == memseg[fit.index][2]
    <3>1. a \in Nat /\ e \in Nat /\ size \in Nat \ {0} /\ MemSize \in Nat /\ a + size <= e /\ e <= MemSize
      BY <1>1, <1>2, <1>3, <1>5
    <3>. HIDE DEF a, e
    <3>2. a \in 0..MemSize /\ a + size \in 0..MemSize /\ a < a + size
      BY <3>1
    <3>. QED
      BY <3>2 DEF a
  <2>. QED
    BY <2>1, <1>4 DEF Seg
<1>7. n \in 0..Len(free_node)
  BY <1>1, <1>2
<1>8. g.node \in Seq(1..MaxNode) /\ IsInjective(g.node) /\ Len(g.node) = n
  <2>1. /\ SubSeq(free_node, 1, n) \in Seq(1..MaxNode) /\ Len(SubSeq(free_node, 1, n)) = n
        /\ IsInjective(SubSeq(free_node, 1, n))
    <3>. HIDE DEF n
    <3>. QED
      BY <1>2, <1>7, ToSetCut, Zenon
  <2>. QED
    BY <2>1, <1>4
<1>9. g.group \in 1..MaxGroup /\ free_group # << >> /\ g.group = Head(free_group)
  <2>1. free_group # << >>
    BY <1>1
  <2>2. Head(free_group) = free_group[1] /\ Head(free_group) \in 1..MaxGroup
    BY <1>2, <2>1, TailAt, Zenon
  <2>. QED
    BY <1>4, <2>1, <2>2
<1>10. g.port \in Port
  <2>1. \A p \in Port : recir_port_cnt[p] \in Nat
    <3>1. ASSUME NEW p \in Port PROVE Cardinality({h \in Held : h.port = p}) \in Nat
      <4>1. IsFiniteSet(Held) /\ {h \in Held : h.port = p} \in SUBSET Held
        BY DEF CInv, Grants
      <4>. QED
        BY <4>1, FS_Subset, FS_CardinalityType
    <3>. QED
      BY <3>1 DEF CInv, Ports
  <2>2. recir_port_cnt \in [Port -> Nat]
    BY <2>1 DEF CInv, Types
  <2>. QED
    BY <2>2, <1>4, PortSelected
<1>11. Proper(g)
  BY <1>1, <1>4, <1>6, <1>8, <1>9, <1>10 DEF Proper
<1>. QED
  BY <1>1, <1>3, <1>4, <1>6, <1>7, <1>9, <1>11 DEF g

\* The parts of the invariant that say who has what.
Shares == Separate /\ FreeGroups /\ FreeNodes /\ FreeMemory /\ Ports /\ Aligned

\* The number of grants of a port.
OnPort(H, p) == Cardinality({h \in H : h.port = p})

LEMMA PortCount ==
    ASSUME NEW H, IsFiniteSet(H), NEW g, NEW p
    PROVE  /\ OnPort(H, p) \in Nat
           /\ g \notin H => OnPort(H \cup {g}, p) = IF g.port = p THEN OnPort(H, p) + 1 ELSE OnPort(H, p)
           /\ g \in H => OnPort(H \ {g}, p) = IF g.port = p THEN OnPort(H, p) - 1 ELSE OnPort(H, p)
<1>. DEFINE S == {h \in H : h.port = p}
<1>1. IsFiniteSet(S) /\ S \in SUBSET H
  BY FS_Subset
<1>. HIDE DEF S
<1>2. Cardinality(S) \in Nat
  BY <1>1, FS_CardinalityType
<1>3. ASSUME g \notin H
      PROVE  Cardinality({h \in H \cup {g} : h.port = p}) = IF g.port = p THEN Cardinality(S) + 1 ELSE Cardinality(S)
  <2>1. CASE g.port = p
    <3>1. {h \in H \cup {g} : h.port = p} = S \cup {g} /\ g \notin S
      BY <1>3, <2>1 DEF S
    <3>2. Cardinality(S \cup {g}) = Cardinality(S) + 1
      BY <3>1, <1>1, FS_AddElement
    <3>. QED
      BY <2>1, <3>1, <3>2
  <2>2. CASE g.port # p
    <3>1. {h \in H \cup {g} : h.port = p} = S
      BY <2>2 DEF S
    <3>. QED
      BY <2>2, <3>1
  <2>. QED
    BY <2>1, <2>2
<1>4. ASSUME g \in H
      PROVE  Cardinality({h \in H \ {g} : h.port = p}) = IF g.port = p THEN Cardinality(S) - 1 ELSE Cardinality(S)
  <2>1. CASE g.port = p
    <3>1. {h \in H \ {g} : h.port = p} = S \ {g} /\ g \in S
      BY <1>4, <2>1 DEF S
    <3>2. Cardinality(S \ {g}) = Cardinality(S) - 1
      BY <3>1, <1>1, FS_RemoveElement
    <3>. QED
      BY <2>1, <3>1, <3>2
  <2>2. CASE g.port # p
    <3>1. {h \in H \ {g} : h.port = p} = S
      BY <2>2 DEF S
    <3>. QED
      BY <2>2, <3>1
  <2>. QED
    BY <2>1, <2>2
<1>. QED
  BY <1>2, <1>3, <1>4 DEF S, OnPort

\* A grant shares nothing with those that are held.
LEMMA GrantIsNew ==
    ASSUME CInv, NEW req, NEW size, Granted(req, size), NEW g, g = Grant(req, size)
    PROVE  /\ Proper(g) /\ g \notin Held /\ g.group \in ToSet(free_group) /\ g.group \notin Groups
           /\ ToSet(g.node) \subseteq ToSet(free_node)
           /\ SlotsOf(g.seg) \subseteq FreeSlots(memseg) /\ SlotsOf(g.seg) \subseteq Memory
           /\ \A h \in Held : /\ g.group # h.group
                              /\ ToSet(g.node) \cap ToSet(h.node) = {}
                              /\ SlotsOf(g.seg) \cap SlotsOf(h.seg) = {}
<1>1. /\ Proper(g) /\ free_group # << >> /\ g.group = Head(free_group)
      /\ Len(req) \in 0..Len(free_node) /\ g.node = SubSeq(free_node, 1, Len(req))
      /\ g.index \in 1..Len(memseg)
      /\ memseg[g.index][1] <= g.seg[1] /\ g.seg[2] <= memseg[g.index][2]
  BY GrantMeaning
<1>2. /\ memseg \in Seq(Seg) /\ free_group \in Seq(1..MaxGroup) /\ free_node \in Seq(1..MaxNode)
      /\ IsInjective(free_group) /\ IsInjective(free_node) /\ WellFormed(memseg) /\ MemSize \in Nat
  BY ControllerAssumption DEF CInv, Types, FreeNodes, FreeGroups, FreeMemory
<1>3. /\ g.group \in 1..MaxGroup /\ g.seg[1] \in Nat /\ g.seg[2] \in Nat /\ g.seg[1] < g.seg[2] /\ g.seg[2] <= MemSize
      /\ ToSet(g.node) \subseteq 1..MaxNode
  <2>1. g.seg[1] \in 0..MemSize /\ g.seg[2] \in 0..MemSize /\ g.seg[1] < g.seg[2]
    BY <1>1 DEF Proper, Seg
  <2>2. ToSet(g.node) \subseteq 1..MaxNode
    BY <1>1 DEF Proper, ToSet
  <2>. QED
    BY <1>1, <1>2, <2>1, <2>2 DEF Proper
<1>4. g.group \in ToSet(free_group)
  BY <1>1, <1>2, TailAt DEF ToSet
<1>5. \A h \in Held : g.group # h.group
  BY <1>3, <1>4 DEF CInv, FreeGroups
<1>6. ToSet(g.node) \subseteq ToSet(free_node)
  <2>. DEFINE n == Len(req)
  <2>. HIDE DEF n
  <2>1. ToSet(SubSeq(free_node, 1, n)) \subseteq ToSet(free_node)
    <3>1. n \in 0..Len(free_node)
      BY <1>1 DEF n
    <3>2. ToSet(free_node) = ToSet(SubSeq(free_node, 1, n)) \cup ToSet(SubSeq(free_node, n + 1, Len(free_node)))
      BY <3>1, <1>2, ToSetCut, Zenon
    <3>. QED
      BY <3>2
  <2>. QED
    BY <2>1, <1>1 DEF n
<1>7. \A h \in Held : ToSet(g.node) \cap ToSet(h.node) = {}
  BY <1>3, <1>6 DEF CInv, FreeNodes
<1>8. SlotsOf(g.seg) \subseteq FreeSlots(memseg)
  <2>1. g.seg[1]..(g.seg[2] - 1) \subseteq FreeSlots(memseg)
    BY <1>1, <1>2, <1>3, AllocMeaning
  <2>. QED
    BY <2>1 DEF SlotsOf
<1>9. SlotsOf(g.seg) \subseteq Memory
  BY <1>2, <1>3 DEF SlotsOf, Memory
<1>10. \A h \in Held : SlotsOf(g.seg) \cap SlotsOf(h.seg) = {}
  BY <1>8, <1>9 DEF CInv, FreeMemory
<1>11. g \notin Held
  BY <1>5
<1>12. g.group \notin Groups
  <2>1. ASSUME g.group \in Groups PROVE FALSE
    <3>1. undo[g.group] \in Held /\ undo[g.group].group = g.group
      BY <2>1 DEF CInv, Grants, Held
    <3>. QED
      BY <3>1, <1>5
  <2>. QED
    BY <2>1
<1>. QED
  BY <1>1, <1>4, <1>5, <1>6, <1>7, <1>8, <1>9, <1>10, <1>11, <1>12

\* TakeResources: the grant joins those that are held.
LEMMA TakeShares ==
    ASSUME CInv, NEW req, NEW size, Granted(req, size), NEW g, g = Grant(req, size),
           TakeResources(g), Held' = Held \cup {g}, granted' = granted \cup {size}
    PROVE  /\ Shares' /\ IsFiniteSet(Held') /\ \A h \in Held' : Proper(h)
           /\ memseg' \in Seq(Seg) /\ free_group' \in Seq(1..MaxGroup) /\ free_node' \in Seq(1..MaxNode)
           /\ recir_port_cnt' \in [Port -> Int]
<1>. DEFINE l == g.seg[1]
            r == g.seg[2]
            n == Len(req)
<1>1. /\ Proper(g) /\ free_group # << >> /\ g.group = Head(free_group)
      /\ n \in 0..Len(free_node) /\ g.node = SubSeq(free_node, 1, n) /\ size \in Nat \ {0}
      /\ g.index \in 1..Len(memseg) /\ memseg[g.index][1] <= l /\ r <= memseg[g.index][2]
      /\ l % size = 0 /\ r = l + size
  BY GrantMeaning
<1>2. /\ g \notin Held /\ g.group \in ToSet(free_group)
      /\ ToSet(g.node) \subseteq ToSet(free_node)
      /\ SlotsOf(g.seg) \subseteq FreeSlots(memseg) /\ SlotsOf(g.seg) \subseteq Memory
      /\ \A h \in Held : /\ g.group # h.group
                         /\ ToSet(g.node) \cap ToSet(h.node) = {}
                         /\ SlotsOf(g.seg) \cap SlotsOf(h.seg) = {}
  BY GrantIsNew
<1>3. /\ memseg \in Seq(Seg) /\ free_group \in Seq(1..MaxGroup) /\ free_node \in Seq(1..MaxNode)
      /\ IsInjective(free_group) /\ IsInjective(free_node) /\ WellFormed(memseg) /\ MemSize \in Nat
      /\ IsFiniteSet(Held) /\ recir_port_cnt \in [Port -> Int]
      /\ \A h \in Held : Proper(h)
  BY ControllerAssumption DEF CInv, Types, FreeNodes, FreeGroups, FreeMemory, Grants
<1>4. l \in Nat /\ r \in Nat /\ l < r /\ r <= MemSize
  <2>1. l \in 0..MemSize /\ r \in 0..MemSize /\ l < r
    BY <1>1 DEF Proper, Seg
  <2>. QED
    BY <2>1, <1>3
<1>5. /\ memseg' = AllocSeg(memseg, g.index, l, r) /\ free_group' = Tail(free_group)
      /\ free_node' = SubSeq(free_node, n + 1, Len(free_node))
      /\ recir_port_cnt' = [recir_port_cnt EXCEPT ![g.port] = @ + 1]
  <2>1. n \in 0..Len(free_node) /\ Len(free_node) \in Nat
    BY <1>1, <1>3
  <2>2. Len(SubSeq(free_node, 1, n)) = n
    <3>. HIDE DEF n
    <3>. QED
      BY <2>1, <1>3, ToSetCut, Zenon
  <2>. QED
    BY <1>1, <2>2 DEF TakeResources
<1>6. /\ memseg' \in Seq(Seg) /\ WellFormed(memseg')
      /\ \A s : s \in FreeSlots(memseg') <=> s \in FreeSlots(memseg) /\ s \notin l..(r - 1)
      /\ \A k \in 1..Len(memseg') :
           /\ memseg'[k][1] = r \/ \E a \in 1..Len(memseg) : memseg'[k][1] = memseg[a][1]
           /\ memseg'[k][2] = l \/ \E a \in 1..Len(memseg) : memseg'[k][2] = memseg[a][2]
  <2>1. Cut(AllocSeg(memseg, g.index, l, r), memseg, l, r)
    BY <1>1, <1>3, <1>4, AllocMeaning
  <2>2. Cut(memseg', memseg, l, r)
    BY <1>5, <2>1
  <2>. HIDE DEF l, r
  <2>. QED
    BY <2>2 DEF Cut
<1>7. Separate'
  <2>. SUFFICES ASSUME NEW a \in Held', NEW b \in Held', a # b
                PROVE  /\ a.group # b.group
                       /\ ToSet(a.node) \cap ToSet(b.node) = {}
                       /\ SlotsOf(a.seg) \cap SlotsOf(b.seg) = {}
    BY DEF Separate
  <2>1. CASE a \in Held /\ b \in Held
    BY <2>1 DEF CInv, Separate
  <2>2. CASE a = g /\ b \in Held
    BY <2>2, <1>2
  <2>3. CASE b = g /\ a \in Held
    BY <2>3, <1>2
  <2>. QED
    BY <2>1, <2>2, <2>3
<1>8. free_group' \in Seq(1..MaxGroup) /\ FreeGroups'
  <2>1. /\ ToSet(free_group) = ToSet(Tail(free_group)) \cup {Head(free_group)}
        /\ Head(free_group) \notin ToSet(Tail(free_group)) /\ IsInjective(Tail(free_group))
        /\ Tail(free_group) \in Seq(1..MaxGroup)
    BY <1>1, <1>3, ToSetTail, TailAt, Zenon
  <2>2. ASSUME NEW id \in 1..MaxGroup
        PROVE  id \in ToSet(free_group') <=> ~ \E h \in Held' : h.group = id
    <3>1. id \in ToSet(free_group) <=> ~ \E h \in Held : h.group = id
      BY DEF CInv, FreeGroups
    <3>2. id \in ToSet(free_group') <=> id \in ToSet(free_group) /\ id # g.group
      BY <2>1, <1>1, <1>5
    <3>3. (\E h \in Held' : h.group = id) <=> (\E h \in Held : h.group = id) \/ g.group = id
      OBVIOUS
    <3>. QED
      BY <3>1, <3>2, <3>3
  <2>3. IsInjective(free_group')
    BY <2>1, <1>5
  <2>. QED
    BY <2>1, <2>2, <2>3, <1>5 DEF FreeGroups
<1>9. free_node' \in Seq(1..MaxNode) /\ FreeNodes'
  <2>1. /\ free_node' \in Seq(1..MaxNode) /\ IsInjective(free_node')
        /\ ToSet(g.node) \cap ToSet(free_node') = {}
        /\ ToSet(free_node) = ToSet(g.node) \cup ToSet(free_node')
    <3>. HIDE DEF n
    <3>1. /\ SubSeq(free_node, n + 1, Len(free_node)) \in Seq(1..MaxNode)
          /\ IsInjective(SubSeq(free_node, n + 1, Len(free_node)))
          /\ ToSet(SubSeq(free_node, 1, n)) \cap ToSet(SubSeq(free_node, n + 1, Len(free_node))) = {}
          /\ ToSet(free_node) = ToSet(SubSeq(free_node, 1, n)) \cup ToSet(SubSeq(free_node, n + 1, Len(free_node)))
      <4>1. n \in 0..Len(free_node) /\ free_node \in Seq(1..MaxNode) /\ IsInjective(free_node)
        BY <1>1, <1>3
      <4>. QED
        BY <4>1, ToSetCut, Zenon
    <3>. QED
      BY <3>1, <1>1, <1>5
  <2>2. ASSUME NEW k \in 1..MaxNode
        PROVE  k \in ToSet(free_node') <=> ~ \E h \in Held' : k \in ToSet(h.node)
    <3>1. k \in ToSet(free_node) <=> ~ \E h \in Held : k \in ToSet(h.node)
      BY DEF CInv, FreeNodes
    <3>2. k \in ToSet(free_node') <=> k \in ToSet(free_node) /\ k \notin ToSet(g.node)
      BY <2>1
    <3>3. (\E h \in Held' : k \in ToSet(h.node)) <=> (\E h \in Held : k \in ToSet(h.node)) \/ k \in ToSet(g.node)
      OBVIOUS
    <3>. QED
      BY <3>1, <3>2, <3>3
  <2>. QED
    BY <2>1, <2>2 DEF FreeNodes
<1>10. FreeMemory'
  <2>1. ASSUME NEW s \in Memory
        PROVE  s \in FreeSlots(memseg') <=> ~ \E h \in Held' : s \in SlotsOf(h.seg)
    <3>1. s \in FreeSlots(memseg) <=> ~ \E h \in Held : s \in SlotsOf(h.seg)
      BY DEF CInv, FreeMemory
    <3>2. s \in FreeSlots(memseg') <=> s \in FreeSlots(memseg) /\ s \notin SlotsOf(g.seg)
      BY <1>6 DEF SlotsOf
    <3>3. (\E h \in Held' : s \in SlotsOf(h.seg)) <=> (\E h \in Held : s \in SlotsOf(h.seg)) \/ s \in SlotsOf(g.seg)
      OBVIOUS
    <3>. QED
      BY <3>1, <3>2, <3>3
  <2>. QED
    BY <2>1, <1>6 DEF FreeMemory, Memory
<1>11. recir_port_cnt' \in [Port -> Int] /\ Ports'
  <2>1. recir_port_cnt' \in [Port -> Int]
    <3>1. g.port \in Port
      BY <1>1 DEF Proper
    <3>2. recir_port_cnt[g.port] \in Int
      BY <1>3, <3>1
    <3>. QED
      BY <1>3, <1>5, <3>1, <3>2
  <2>2. ASSUME NEW p \in Port
        PROVE  recir_port_cnt'[p] = Cardinality({h \in Held' : h.port = p})
    <3>1. OnPort(Held \cup {g}, p) = IF g.port = p THEN OnPort(Held, p) + 1 ELSE OnPort(Held, p)
      BY <1>2, <1>3, PortCount
    <3>2. recir_port_cnt[p] = OnPort(Held, p)
      BY DEF CInv, Ports, OnPort
    <3>3. recir_port_cnt'[p] = IF g.port = p THEN recir_port_cnt[p] + 1 ELSE recir_port_cnt[p]
      BY <1>3, <1>5
    <3>4. recir_port_cnt'[p] = OnPort(Held', p)
      BY <3>1, <3>2, <3>3
    <3>. QED
      BY <3>4 DEF OnPort
  <2>. QED
    BY <2>1, <2>2 DEF Ports, Port
<1>12. Aligned'
  <2>. SUFFICES ASSUME NEW z \in Size, z > 0, granted' \subseteq {z}
                PROVE  /\ \A k \in 1..Len(memseg') :
                            /\ memseg'[k][1] % z = 0
                            /\ memseg'[k][2] % z = 0 \/ memseg'[k][2] = MemSize
                       /\ \A h \in Held' : h.seg[1] % z = 0 /\ h.seg[2] % z = 0
    BY DEF Aligned
  <2>1. z = size /\ granted \subseteq {z}
    OBVIOUS
  <2>2. /\ \A k \in 1..Len(memseg) :
             /\ memseg[k][1] % z = 0
             /\ memseg[k][2] % z = 0 \/ memseg[k][2] = MemSize
        /\ \A h \in Held : h.seg[1] % z = 0 /\ h.seg[2] % z = 0
    BY <2>1 DEF CInv, Aligned
  <2>3. l % z = 0 /\ r % z = 0
    <3>. DEFINE one == 1
    <3>. HIDE DEF l, r, one
    <3>1. one \in Int /\ l \in Int /\ size \in Nat \ {0}
      BY <1>1, <1>4 DEF one
    <3>2. (l + size * one) % size = l % size
      BY <3>1, ModAddMultiple
    <3>3. l + size * one = r
      BY <1>1, <1>4 DEF one
    <3>. QED
      BY <1>1, <2>1, <3>2, <3>3
  <2>. QED
    BY <2>2, <2>3, <1>6
<1>13. IsFiniteSet(Held') /\ \A h \in Held' : Proper(h)
  BY <1>1, <1>3, FS_AddElement
<1>. QED
  BY <1>6, <1>7, <1>8, <1>9, <1>10, <1>11, <1>12, <1>13 DEF Shares

\* Undo: what a grant has is free again, and the controller stays alive.
LEMMA UndoShares ==
    ASSUME CInv, NEW g \in Held, Undo(g), Held' = Held \ {g}, granted' = granted
    PROVE  /\ Shares' /\ IsFiniteSet(Held') /\ \A h \in Held' : Proper(h)
           /\ memseg' \in Seq(Seg) /\ free_group' \in Seq(1..MaxGroup) /\ free_node' \in Seq(1..MaxNode)
           /\ recir_port_cnt' \in [Port -> Int] /\ alive' = TRUE
<1>. DEFINE l == g.seg[1]
            r == g.seg[2]
<1>1. /\ memseg \in Seq(Seg) /\ free_group \in Seq(1..MaxGroup) /\ free_node \in Seq(1..MaxNode)
      /\ IsInjective(free_group) /\ IsInjective(free_node) /\ WellFormed(memseg) /\ MemSize \in Nat
      /\ IsFiniteSet(Held) /\ recir_port_cnt \in [Port -> Int]
      /\ \A h \in Held : Proper(h)
      /\ alive = TRUE
  BY ControllerAssumption DEF CInv, Types, FreeNodes, FreeGroups, FreeMemory, Grants
<1>2. Proper(g)
  BY <1>1
<1>3. l \in 0..MemSize /\ r \in 0..MemSize /\ l < r
  BY <1>2 DEF Proper, Seg
<1>4. l \in Nat /\ r \in Nat /\ SlotsOf(g.seg) = l..(r - 1) /\ SlotsOf(g.seg) \subseteq Memory
  BY <1>1, <1>3 DEF SlotsOf, Memory
<1>5. \A h \in Held : h # g =>
        /\ g.group # h.group
        /\ ToSet(g.node) \cap ToSet(h.node) = {}
        /\ SlotsOf(g.seg) \cap SlotsOf(h.seg) = {}
  BY DEF CInv, Separate
<1>6. \A s \in l..(r - 1) : s \notin FreeSlots(memseg)
  BY <1>4 DEF CInv, FreeMemory
<1>. HIDE DEF l, r
<1>7. ~InvalidFree(memseg, l, r) /\ Freed(FreeSeg(memseg, l, r), memseg, l, r)
  BY <1>1, <1>3, <1>6, FreeMeaning
<1>8. /\ memseg' = FreeSeg(memseg, l, r) /\ alive' = TRUE
      /\ free_node' = free_node \o g.node /\ free_group' = Append(free_group, g.group)
      /\ recir_port_cnt' = [recir_port_cnt EXCEPT ![g.port] = @ - 1]
  BY <1>1, <1>7 DEF Undo, l, r
<1>9. Freed(memseg', memseg, l, r)
  BY <1>7, <1>8
<1>10. /\ memseg' \in Seq(Seg) /\ WellFormed(memseg')
       /\ \A s : s \in FreeSlots(memseg') <=> s \in FreeSlots(memseg) \/ s \in l..(r - 1)
       /\ \A k \in 1..Len(memseg') :
            /\ memseg'[k][1] = l \/ \E a \in 1..Len(memseg) : memseg'[k][1] = memseg[a][1]
            /\ memseg'[k][2] = r \/ \E a \in 1..Len(memseg) : memseg'[k][2] = memseg[a][2]
  BY <1>9 DEF Freed
<1>11. Separate'
  BY DEF CInv, Separate
<1>12. free_group' \in Seq(1..MaxGroup) /\ FreeGroups'
  <2>1. g.group \in 1..MaxGroup /\ g.group \notin ToSet(free_group)
    BY <1>2 DEF Proper, CInv, FreeGroups
  <2>2. Append(free_group, g.group) \in Seq(1..MaxGroup)
    BY <1>1, <2>1
  <2>3. /\ ToSet(Append(free_group, g.group)) = ToSet(free_group) \cup {g.group}
        /\ IsInjective(Append(free_group, g.group))
    BY <1>1, <2>1, ToSetAppend
  <2>4. ASSUME NEW id \in 1..MaxGroup
        PROVE  id \in ToSet(free_group') <=> ~ \E h \in Held' : h.group = id
    <3>1. id \in ToSet(free_group) <=> ~ \E h \in Held : h.group = id
      BY DEF CInv, FreeGroups
    <3>2. id \in ToSet(free_group') <=> id \in ToSet(free_group) \/ id = g.group
      BY <2>3, <1>8
    <3>3. (\E h \in Held' : h.group = id) <=> (\E h \in Held : h.group = id) /\ g.group # id
      BY <1>5
    <3>. QED
      BY <3>1, <3>2, <3>3
  <2>. QED
    BY <2>2, <2>3, <2>4, <1>8 DEF FreeGroups
<1>13. free_node' \in Seq(1..MaxNode) /\ FreeNodes'
  <2>1. g.node \in Seq(1..MaxNode) /\ IsInjective(g.node)
    BY <1>2 DEF Proper
  <2>2. ToSet(g.node) \subseteq 1..MaxNode
    <3>. DEFINE S == 1..MaxNode
                t == g.node
    <3>1. t \in Seq(S)
      BY <2>1
    <3>. HIDE DEF S, t
    <3>2. DOMAIN t = 1..Len(t) /\ \A i \in 1..Len(t) : t[i] \in S
      BY <3>1
    <3>3. ToSet(t) \subseteq S
      BY <3>2 DEF ToSet
    <3>. QED
      BY <3>3 DEF S, t
  <2>3. ToSet(free_node) \cap ToSet(g.node) = {}
    BY <2>2 DEF CInv, FreeNodes
  <2>4. free_node \o g.node \in Seq(1..MaxNode)
    BY <1>1, <2>1
  <2>5. ToSet(free_node \o g.node) = ToSet(free_node) \cup ToSet(g.node) /\ IsInjective(free_node \o g.node)
    <3>. DEFINE t == g.node
    <3>1. free_node \in Seq(1..MaxNode) /\ IsInjective(free_node)
      BY <1>1
    <3>2. t \in Seq(1..MaxNode) /\ IsInjective(t) /\ ToSet(free_node) \cap ToSet(t) = {}
      BY <2>1, <2>3
    <3>. HIDE DEF t
    <3>3. ToSet(free_node \o t) = ToSet(free_node) \cup ToSet(t) /\ IsInjective(free_node \o t)
      BY <3>1, <3>2, ToSetConcat, Zenon
    <3>. QED
      BY <3>3 DEF t
  <2>6. ASSUME NEW k \in 1..MaxNode
        PROVE  k \in ToSet(free_node') <=> ~ \E h \in Held' : k \in ToSet(h.node)
    <3>1. k \in ToSet(free_node) <=> ~ \E h \in Held : k \in ToSet(h.node)
      BY DEF CInv, FreeNodes
    <3>2. k \in ToSet(free_node') <=> k \in ToSet(free_node) \/ k \in ToSet(g.node)
      BY <2>5, <1>8
    <3>3. (\E h \in Held' : k \in ToSet(h.node)) <=> (\E h \in Held : k \in ToSet(h.node)) /\ k \notin ToSet(g.node)
      BY <1>5
    <3>. QED
      BY <3>1, <3>2, <3>3
  <2>. QED
    BY <2>4, <2>5, <2>6, <1>8 DEF FreeNodes
<1>14. FreeMemory'
  <2>1. ASSUME NEW s \in Memory
        PROVE  s \in FreeSlots(memseg') <=> ~ \E h \in Held' : s \in SlotsOf(h.seg)
    <3>1. s \in FreeSlots(memseg) <=> ~ \E h \in Held : s \in SlotsOf(h.seg)
      BY DEF CInv, FreeMemory
    <3>2. s \in FreeSlots(memseg') <=> s \in FreeSlots(memseg) \/ s \in SlotsOf(g.seg)
      BY <1>4, <1>10
    <3>3. (\E h \in Held' : s \in SlotsOf(h.seg)) <=> (\E h \in Held : s \in SlotsOf(h.seg)) /\ s \notin SlotsOf(g.seg)
      BY <1>5
    <3>. QED
      BY <3>1, <3>2, <3>3
  <2>. QED
    BY <2>1, <1>10 DEF FreeMemory, Memory
<1>15. recir_port_cnt' \in [Port -> Int] /\ Ports'
  <2>1. recir_port_cnt' \in [Port -> Int]
    <3>1. g.port \in Port
      BY <1>2 DEF Proper
    <3>2. recir_port_cnt[g.port] \in Int
      BY <1>1, <3>1
    <3>. QED
      BY <1>1, <1>8, <3>1, <3>2
  <2>2. ASSUME NEW p \in Port
        PROVE  recir_port_cnt'[p] = Cardinality({h \in Held' : h.port = p})
    <3>1. OnPort(Held \ {g}, p) = IF g.port = p THEN OnPort(Held, p) - 1 ELSE OnPort(Held, p)
      BY <1>1, PortCount
    <3>2. recir_port_cnt[p] = OnPort(Held, p)
      BY DEF CInv, Ports, OnPort
    <3>3. recir_port_cnt'[p] = IF g.port = p THEN recir_port_cnt[p] - 1 ELSE recir_port_cnt[p]
      BY <1>1, <1>8
    <3>4. recir_port_cnt'[p] = OnPort(Held', p)
      BY <3>1, <3>2, <3>3
    <3>. QED
      BY <3>4 DEF OnPort
  <2>. QED
    BY <2>1, <2>2 DEF Ports, Port
<1>16. Aligned'
  <2>. SUFFICES ASSUME NEW z \in Size, z > 0, granted' \subseteq {z}
                PROVE  /\ \A k \in 1..Len(memseg') :
                            /\ memseg'[k][1] % z = 0
                            /\ memseg'[k][2] % z = 0 \/ memseg'[k][2] = MemSize
                       /\ \A h \in Held' : h.seg[1] % z = 0 /\ h.seg[2] % z = 0
    BY DEF Aligned
  <2>1. /\ \A k \in 1..Len(memseg) :
             /\ memseg[k][1] % z = 0
             /\ memseg[k][2] % z = 0 \/ memseg[k][2] = MemSize
        /\ \A h \in Held : h.seg[1] % z = 0 /\ h.seg[2] % z = 0
    BY DEF CInv, Aligned
  <2>2. l % z = 0 /\ r % z = 0
    BY <2>1 DEF l, r
  <2>. QED
    BY <2>1, <2>2, <1>10
<1>17. IsFiniteSet(Held') /\ \A h \in Held' : Proper(h)
  BY <1>1, FS_RemoveElement
<1>. QED
  BY <1>8, <1>10, <1>11, <1>12, <1>13, <1>14, <1>15, <1>16, <1>17 DEF Shares

-----------------------------------------------------------------------------
(* Tables. *)

\* In a list without repetitions an element has one place.
LEMMA PlaceOf ==
    ASSUME NEW S, NEW q \in Seq(S), IsInjective(q), NEW n \in Nat, n <= Len(q), NEW i \in 1..n
    PROVE  (CHOOSE j \in 1..n : q[j] = q[i]) = i
<1>1. DOMAIN q = 1..Len(q) /\ Len(q) \in Nat /\ 1..n \subseteq 1..Len(q)
  OBVIOUS
<1>2. \A j \in 1..n : q[j] = q[i] => j = i
  BY <1>1 DEF IsInjective
<1>. QED
  BY <1>2

\* The entries after WriteTables: those of the other groups are kept.
Written(g, n, m) ==
    /\ DOMAIN metadata_table' = DOMAIN metadata_table \cup {g.member[i] : i \in 1..n}
    /\ \A x \in DOMAIN metadata_table : metadata_table'[x] = metadata_table[x]
    /\ \A i \in 1..n : metadata_table'[g.member[i]] = Entry(g, i)
    /\ \A id, i : id # g.group /\ <<id, i>> \in DOMAIN restore_table =>
         <<id, i>> \in DOMAIN restore_table' /\ restore_table'[<<id, i>>] = restore_table[<<id, i>>]
    /\ \A i \in 1..n :
         <<g.group, i>> \in DOMAIN restore_table' /\ restore_table'[<<g.group, i>>] = g.member[i]
    /\ \A x \in DOMAIN node_table : x \notin ToSet(g.node) =>
         x \in DOMAIN node_table' /\ node_table'[x] = node_table[x]
    /\ \A i \in 1..m :
         g.node[i] \in DOMAIN node_table' /\ node_table'[g.node[i]] = [rank |-> i, port |-> g.member[i]]

\* WriteTables, for members that the switch does not know.
LEMMA WriteMeaning ==
    ASSUME NEW g, Proper(g), NEW n \in Nat, NEW m \in Nat, n <= Len(g.member), m <= n,
           \A i \in 1..Len(g.member) : g.member[i] \notin DOMAIN metadata_table,
           WriteTables(g, n, m)
    PROVE  Written(g, n, m)
<1>1. /\ g.member \in Seq(Member) /\ IsInjective(g.member)
      /\ g.node \in Seq(1..MaxNode) /\ IsInjective(g.node) /\ Len(g.node) = Len(g.member)
      /\ Len(g.member) \in Nat /\ m <= Len(g.node)
  BY DEF Proper
<1>. DEFINE S == {g.member[i] : i \in 1..n}
            M == [x \in S |-> [group |-> g.group, rank |-> CHOOSE i \in 1..n : g.member[i] = x,
                               agg_addr |-> g.seg[1], mask |-> g.seg[2] - g.seg[1] - 1]]
            T == {<<g.group, i>> : i \in 1..n}
            R == [x \in T |-> g.member[x[2]]]
            U == {g.node[i] : i \in 1..m}
            P == [x \in U |-> LET i == CHOOSE i \in 1..m : g.node[i] = x
                              IN  [rank |-> i, port |-> g.member[i]]]
<1>2. /\ metadata_table' = With(metadata_table, M) /\ restore_table' = With(restore_table, R)
      /\ node_table' = With(node_table, P)
  BY DEF WriteTables
<1>3. DOMAIN M = S /\ DOMAIN R = T /\ DOMAIN P = U
  OBVIOUS
<1>4. \A i \in 1..n : g.member[i] \in S /\ M[g.member[i]] = Entry(g, i)
  <2>. SUFFICES ASSUME NEW i \in 1..n PROVE g.member[i] \in S /\ M[g.member[i]] = Entry(g, i)
    OBVIOUS
  <2>1. (CHOOSE j \in 1..n : g.member[j] = g.member[i]) = i
    BY <1>1, PlaceOf
  <2>2. g.member[i] \in S
    OBVIOUS
  <2>3. M[g.member[i]] = [group |-> g.group, rank |-> CHOOSE j \in 1..n : g.member[j] = g.member[i],
                          agg_addr |-> g.seg[1], mask |-> g.seg[2] - g.seg[1] - 1]
    BY <2>2, Zenon
  <2>. QED
    BY <2>1, <2>2, <2>3 DEF Entry
<1>5. \A i \in 1..n : <<g.group, i>> \in T /\ R[<<g.group, i>>] = g.member[i]
  OBVIOUS
<1>6. \A i \in 1..m : g.node[i] \in U /\ P[g.node[i]] = [rank |-> i, port |-> g.member[i]]
  <2>. SUFFICES ASSUME NEW i \in 1..m PROVE g.node[i] \in U /\ P[g.node[i]] = [rank |-> i, port |-> g.member[i]]
    OBVIOUS
  <2>. DEFINE k == CHOOSE j \in 1..m : g.node[j] = g.node[i]
  <2>1. k = i
    BY <1>1, PlaceOf
  <2>2. g.node[i] \in U
    OBVIOUS
  <2>3. P[g.node[i]] = [rank |-> k, port |-> g.member[k]]
    BY <2>2, Zenon
  <2>. QED
    BY <2>1, <2>2, <2>3
<1>7. S \cap DOMAIN metadata_table = {}
  BY <1>1
<1>8. \A id, i : id # g.group => <<id, i>> \notin T
  OBVIOUS
<1>9. U \subseteq ToSet(g.node)
  BY <1>1 DEF ToSet
<1>. HIDE DEF M, R, P, T, U
<1>10. /\ DOMAIN metadata_table' = DOMAIN metadata_table \cup S
       /\ \A x \in DOMAIN metadata_table : metadata_table'[x] = metadata_table[x]
       /\ \A i \in 1..n : metadata_table'[g.member[i]] = Entry(g, i)
  <2>1. /\ DOMAIN metadata_table' = DOMAIN metadata_table \cup DOMAIN M
        /\ \A x \in DOMAIN M : metadata_table'[x] = M[x]
        /\ \A x \in DOMAIN metadata_table : x \notin DOMAIN M => metadata_table'[x] = metadata_table[x]
    BY <1>2 DEF With
  <2>. QED
    BY <2>1, <1>3, <1>4, <1>7
<1>11. /\ \A id, i : id # g.group /\ <<id, i>> \in DOMAIN restore_table =>
            <<id, i>> \in DOMAIN restore_table' /\ restore_table'[<<id, i>>] = restore_table[<<id, i>>]
       /\ \A i \in 1..n :
            <<g.group, i>> \in DOMAIN restore_table' /\ restore_table'[<<g.group, i>>] = g.member[i]
  <2>1. /\ DOMAIN restore_table' = DOMAIN restore_table \cup DOMAIN R
        /\ \A x \in DOMAIN R : restore_table'[x] = R[x]
        /\ \A x \in DOMAIN restore_table : x \notin DOMAIN R => restore_table'[x] = restore_table[x]
    BY <1>2 DEF With
  <2>. QED
    BY <2>1, <1>3, <1>5, <1>8
<1>12. /\ \A x \in DOMAIN node_table : x \notin ToSet(g.node) =>
            x \in DOMAIN node_table' /\ node_table'[x] = node_table[x]
       /\ \A i \in 1..m :
            g.node[i] \in DOMAIN node_table' /\ node_table'[g.node[i]] = [rank |-> i, port |-> g.member[i]]
  <2>1. /\ DOMAIN node_table' = DOMAIN node_table \cup DOMAIN P
        /\ \A x \in DOMAIN P : node_table'[x] = P[x]
        /\ \A x \in DOMAIN node_table : x \notin DOMAIN P => node_table'[x] = node_table[x]
    BY <1>2 DEF With
  <2>. QED
    BY <2>1, <1>3, <1>6, <1>9
<1>. QED
  BY <1>10, <1>11, <1>12 DEF Written, S

\* The new entries are those of grant g, and the other grants keep theirs.
LEMMA WriteKeeps ==
    ASSUME CInv, NEW g, Proper(g), NEW n \in Nat, NEW m \in Nat, n <= Len(g.member), Written(g, n, m),
           Held' = Held \cup {g}, DOMAIN metadata_table \subseteq Member,
           \A id \in DOMAIN mgid_table : id # g.group => id \in DOMAIN mgid_table' /\ mgid_table'[id] = mgid_table[id]
    PROVE  /\ Entries' /\ DOMAIN metadata_table' \subseteq Member
           /\ \A h : Proper(h) /\ Installed(h) /\ h.group # g.group /\ ToSet(g.node) \cap ToSet(h.node) = {} => Installed(h)'
<1>1. /\ g.member \in Seq(Member) /\ Len(g.member) \in Nat /\ \A i \in 1..n : i \in 1..Len(g.member) /\ g.member[i] \in Member
  BY DEF Proper
<1>2. Entries'
  <2>. SUFFICES ASSUME NEW x \in DOMAIN metadata_table'
                PROVE  \E h \in Held' : \E i \in 1..Len(h.member) :
                         h.member[i] = x /\ metadata_table'[x] = Entry(h, i)
    BY DEF Entries, Entry
  <2>1. CASE x \in DOMAIN metadata_table
    <3>1. PICK h \in Held : \E i \in 1..Len(h.member) : h.member[i] = x /\ metadata_table[x] = Entry(h, i)
      BY <2>1 DEF CInv, Entries
    <3>2. metadata_table'[x] = metadata_table[x]
      BY <2>1 DEF Written
    <3>. QED
      BY <3>1, <3>2
  <2>2. CASE x \in {g.member[i] : i \in 1..n}
    <3>1. PICK i \in 1..n : x = g.member[i]
      BY <2>2
    <3>2. metadata_table'[x] = Entry(g, i)
      BY <3>1 DEF Written
    <3>. QED
      BY <1>1, <3>1, <3>2
  <2>. QED
    BY <2>1, <2>2 DEF Written
<1>3. DOMAIN metadata_table' \subseteq Member
  BY <1>1 DEF Written
<1>4. ASSUME NEW h, Proper(h), Installed(h), h.group # g.group, ToSet(g.node) \cap ToSet(h.node) = {}
      PROVE  Installed(h)'
  <2>1. h.group \in DOMAIN mgid_table' /\ mgid_table'[h.group] = ToSet(h.node)
    BY <1>4 DEF Installed
  <2>2. ASSUME NEW i \in 1..Len(h.member)
        PROVE  /\ h.member[i] \in DOMAIN metadata_table'
               /\ metadata_table'[h.member[i]] = Entry(h, i)
               /\ <<h.group, i>> \in DOMAIN restore_table'
               /\ restore_table'[<<h.group, i>>] = h.member[i]
               /\ h.node[i] \in DOMAIN node_table'
               /\ node_table'[h.node[i]] = [rank |-> i, port |-> h.member[i]]
    <3>1. h.member[i] \in DOMAIN metadata_table' /\ metadata_table'[h.member[i]] = Entry(h, i)
      BY <1>4 DEF Installed, Written
    <3>2. <<h.group, i>> \in DOMAIN restore_table' /\ restore_table'[<<h.group, i>>] = h.member[i]
      <4>1. <<h.group, i>> \in DOMAIN restore_table /\ restore_table[<<h.group, i>>] = h.member[i]
        BY <1>4 DEF Installed
      <4>2. \A id, k : id # g.group /\ <<id, k>> \in DOMAIN restore_table =>
              <<id, k>> \in DOMAIN restore_table' /\ restore_table'[<<id, k>>] = restore_table[<<id, k>>]
        BY DEF Written
      <4>. QED
        BY <4>1, <4>2, <1>4, Zenon
    <3>3. h.node[i] \notin ToSet(g.node)
      <4>1. h.node \in Seq(1..MaxNode) /\ Len(h.node) = Len(h.member)
        BY <1>4 DEF Proper
      <4>2. i \in DOMAIN h.node
        BY <4>1
      <4>3. h.node[i] \in ToSet(h.node)
        BY <4>2 DEF ToSet
      <4>. QED
        BY <4>3, <1>4
    <3>4. h.node[i] \in DOMAIN node_table' /\ node_table'[h.node[i]] = [rank |-> i, port |-> h.member[i]]
      BY <3>3, <1>4 DEF Installed, Written
    <3>. QED
      BY <3>1, <3>2, <3>4
  <2>. QED
    BY <2>1, <2>2 DEF Installed, Entry
<1>. QED
  BY <1>2, <1>3, <1>4

\* The entries of a group go, and the other grants keep theirs.
LEMMA UndoKeeps ==
    ASSUME CInv, NEW g \in Held, Installed(g), Undo(g), Held' = Held \ {g}
    PROVE  /\ Entries' /\ DOMAIN metadata_table' \subseteq Member
           /\ \A h \in Held' : Installed(h) => Installed(h)'
<1>. DEFINE T == {<<g.group, k>> : k \in 1..Len(g.member)}
<1>1. /\ metadata_table' = Without(metadata_table, ToSet(g.member))
      /\ restore_table' = Without(restore_table, T)
      /\ node_table' = Without(node_table, ToSet(g.node))
      /\ mgid_table' = Without(mgid_table, {g.group})
  BY DEF Undo
<1>2. \A h \in Held : Proper(h)
  BY DEF CInv, Grants
<1>3. /\ DOMAIN metadata_table' = DOMAIN metadata_table \ ToSet(g.member)
      /\ \A x \in DOMAIN metadata_table' : metadata_table'[x] = metadata_table[x]
  BY <1>1 DEF Without
<1>4. \A x \in DOMAIN restore_table \ T : x \in DOMAIN restore_table' /\ restore_table'[x] = restore_table[x]
  <2>. HIDE DEF T
  <2>. QED
    BY <1>1 DEF Without
<1>5. \A x \in DOMAIN node_table \ ToSet(g.node) : x \in DOMAIN node_table' /\ node_table'[x] = node_table[x]
  BY <1>1 DEF Without
<1>6. \A x \in DOMAIN mgid_table \ {g.group} : x \in DOMAIN mgid_table' /\ mgid_table'[x] = mgid_table[x]
  BY <1>1 DEF Without
<1>7. \A h \in Held : \A i \in 1..Len(h.member) : h.member[i] \in ToSet(h.member) /\ h.node[i] \in ToSet(h.node)
  <2>. SUFFICES ASSUME NEW h \in Held, NEW i \in 1..Len(h.member)
                PROVE  h.member[i] \in ToSet(h.member) /\ h.node[i] \in ToSet(h.node)
    OBVIOUS
  <2>1. h.member \in Seq(Member) /\ h.node \in Seq(1..MaxNode) /\ Len(h.node) = Len(h.member)
    BY <1>2 DEF Proper
  <2>2. i \in DOMAIN h.member /\ i \in DOMAIN h.node
    BY <2>1
  <2>. QED
    BY <2>2 DEF ToSet
<1>8. Entries'
  <2>. SUFFICES ASSUME NEW x \in DOMAIN metadata_table'
                PROVE  \E h \in Held' : \E i \in 1..Len(h.member) :
                         h.member[i] = x /\ metadata_table'[x] = Entry(h, i)
    BY DEF Entries, Entry
  <2>1. x \in DOMAIN metadata_table /\ x \notin ToSet(g.member) /\ metadata_table'[x] = metadata_table[x]
    BY <1>3
  <2>2. PICK h \in Held : \E i \in 1..Len(h.member) : h.member[i] = x /\ metadata_table[x] = Entry(h, i)
    BY <2>1 DEF CInv, Entries
  <2>3. h # g
    BY <2>1, <2>2, <1>7
  <2>. QED
    BY <2>1, <2>2, <2>3
<1>9. DOMAIN metadata_table' \subseteq Member
  BY <1>3 DEF CInv, Types
<1>10. ASSUME NEW h \in Held', Installed(h) PROVE Installed(h)'
  <2>1. h \in Held /\ h.group # g.group /\ ToSet(h.node) \cap ToSet(g.node) = {}
    BY DEF CInv, Separate
  <2>2. h.group \in DOMAIN mgid_table' /\ mgid_table'[h.group] = ToSet(h.node)
    BY <2>1, <1>6, <1>10 DEF Installed
  <2>3. ASSUME NEW i \in 1..Len(h.member)
        PROVE  /\ h.member[i] \in DOMAIN metadata_table'
               /\ metadata_table'[h.member[i]] = Entry(h, i)
               /\ <<h.group, i>> \in DOMAIN restore_table'
               /\ restore_table'[<<h.group, i>>] = h.member[i]
               /\ h.node[i] \in DOMAIN node_table'
               /\ node_table'[h.node[i]] = [rank |-> i, port |-> h.member[i]]
    <3>1. /\ h.member[i] \in DOMAIN metadata_table
          /\ metadata_table[h.member[i]] = Entry(h, i)
          /\ <<h.group, i>> \in DOMAIN restore_table
          /\ restore_table[<<h.group, i>>] = h.member[i]
          /\ h.node[i] \in DOMAIN node_table
          /\ node_table[h.node[i]] = [rank |-> i, port |-> h.member[i]]
      BY <1>10 DEF Installed
    <3>2. h.member[i] \notin ToSet(g.member)
      <4>. SUFFICES ASSUME h.member[i] \in ToSet(g.member) PROVE FALSE
        OBVIOUS
      <4>1. g.member \in Seq(Member)
        BY <1>2 DEF Proper
      <4>2. PICK k \in 1..Len(g.member) : g.member[k] = h.member[i]
        BY <4>1 DEF ToSet
      <4>3. metadata_table[h.member[i]] = Entry(g, k)
        BY <4>2 DEF Installed
      <4>. QED
        BY <4>3, <3>1, <2>1 DEF Entry
    <3>3. <<h.group, i>> \notin T
      BY <2>1
    <3>4. h.node[i] \notin ToSet(g.node)
      BY <2>1, <1>7
    <3>. HIDE DEF T
    <3>5. h.member[i] \in DOMAIN metadata_table' /\ metadata_table'[h.member[i]] = Entry(h, i)
      BY <3>1, <3>2, <1>3
    <3>6. <<h.group, i>> \in DOMAIN restore_table' /\ restore_table'[<<h.group, i>>] = h.member[i]
      BY <3>1, <3>3, <1>4
    <3>7. h.node[i] \in DOMAIN node_table' /\ node_table'[h.node[i]] = [rank |-> i, port |-> h.member[i]]
      BY <3>1, <3>4, <1>5
    <3>. QED
      BY <3>5, <3>6, <3>7
  <2>. QED
    BY <2>2, <2>3 DEF Installed, Entry
<1>. QED
  BY <1>8, <1>9, <1>10

-----------------------------------------------------------------------------
(* Every step keeps the invariant. *)

LEMMA InitInv ==
    CtlInit => CInv
<1>. SUFFICES ASSUME CtlInit PROVE CInv
  OBVIOUS
<1>1. /\ MemSize \in Nat \ {0} /\ MaxGroup \in Nat /\ MaxNode \in Nat
  BY ControllerAssumption
<1>2. Groups = {} /\ Held = {} /\ DOMAIN metadata_table = {} /\ DOMAIN undo = {}
  BY DEF CtlInit, Groups, Held, EmptyFun
<1>3. <<0, MemSize>> \in Seg /\ Len(memseg) = 1 /\ memseg[1] = <<0, MemSize>> /\ memseg \in Seq(Seg)
  BY <1>1 DEF CtlInit, Seg
<1>4. Types
  <2>1. free_group \in Seq(1..MaxGroup) /\ free_node \in Seq(1..MaxNode)
    BY <1>1 DEF CtlInit
  <2>. QED
    BY <1>2, <1>3, <2>1 DEF CtlInit, Types
<1>5. Grants /\ Separate /\ Entries /\ Complete
  BY <1>2, FS_EmptySet DEF Grants, Separate, Entries, Complete
<1>6. FreeGroups
  <2>1. ToSet(free_group) = 1..MaxGroup /\ IsInjective(free_group)
    BY <1>1 DEF CtlInit, ToSet, IsInjective
  <2>. QED
    BY <1>2, <2>1 DEF FreeGroups
<1>7. FreeNodes
  <2>1. ToSet(free_node) = 1..MaxNode /\ IsInjective(free_node)
    BY <1>1 DEF CtlInit, ToSet, IsInjective
  <2>. QED
    BY <1>2, <2>1 DEF FreeNodes
<1>8. FreeMemory
  <2>1. \A a \in 1..Len(memseg) : a = 1
    BY <1>3
  <2>2. WellFormed(memseg)
    BY <1>1, <1>3, <2>1 DEF WellFormed
  <2>3. ASSUME NEW x \in Memory PROVE x \in FreeSlots(memseg)
    <3>1. x \in SlotsOf(memseg[1]) /\ 1 \in 1..Len(memseg)
      BY <1>1, <1>3 DEF SlotsOf, Memory
    <3>. QED
      BY <3>1 DEF FreeSlots
  <2>. QED
    BY <1>2, <2>2, <2>3 DEF FreeMemory
<1>9. Ports
  <2>1. ASSUME NEW p \in Port PROVE recir_port_cnt[p] = Cardinality({h \in Held : h.port = p})
    <3>1. {h \in Held : h.port = p} = {}
      BY <1>2
    <3>. QED
      BY <3>1, FS_EmptySet DEF CtlInit
  <2>. QED
    BY <2>1 DEF Ports
<1>10. Aligned
  <2>. SUFFICES ASSUME NEW z \in Size, z > 0 PROVE \A a \in 1..Len(memseg) : memseg[a][1] % z = 0 /\ memseg[a][2] = MemSize
    BY <1>2 DEF Aligned
  <2>1. z \in Nat \ {0}
    BY ControllerAssumption
  <2>2. 0 % z = 0
    BY <2>1
  <2>3. \A a \in 1..Len(memseg) : a = 1
    BY <1>3
  <2>. QED
    BY <1>3, <2>2, <2>3
<1>. QED
  BY <1>4, <1>5, <1>6, <1>7, <1>8, <1>9, <1>10 DEF CInv

\* CreateGroup: the request is served.
LEMMA CreateInv ==
    ASSUME CInv, NEW req \in Request, NEW size \in Size, CreateGroup(req, size)
    PROVE  CInv'
<1>1. PICK g : g = Grant(req, size)
  OBVIOUS
<1>2. Granted(req, size)
  BY DEF Granted, CreateGroup
<1>3. /\ TakeResources(g) /\ WriteTables(g, Len(req), Len(req))
      /\ mgid_table' = With(mgid_table, [x \in {g.group} |-> ToSet(g.node)])
      /\ dirty' = {b \in dirty : b[1] \notin SlotsOf(g.seg)} /\ undo' = With(undo, [x \in {g.group} |-> g])
      /\ sent' = With(sent, [x \in {g.group} |-> {}])
      /\ granted' = granted \cup {size} /\ alive' = alive /\ leaked' = leaked
  BY <1>1 DEF CreateGroup, ClearRegisters
<1>4. Proper(g) /\ g.member = req
  BY <1>1, <1>2, GrantMeaning
<1>5. /\ g \notin Held /\ g.group \notin Groups
      /\ \A h \in Held : g.group # h.group /\ ToSet(g.node) \cap ToSet(h.node) = {}
  BY <1>1, <1>2, GrantIsNew
<1>6. /\ DOMAIN undo' = Groups \cup {g.group} /\ undo'[g.group] = g
      /\ \A id \in Groups : undo'[id] = undo[id]
  BY <1>3, <1>5 DEF With, Groups
<1>7. Held' = Held \cup {g}
  <2>1. {undo'[id] : id \in DOMAIN undo'} = {undo[id] : id \in Groups} \cup {g}
    BY <1>6
  <2>. QED
    BY <2>1, <1>3 DEF Held, Groups
<1>8. /\ Shares' /\ IsFiniteSet(Held') /\ \A h \in Held' : Proper(h)
      /\ memseg' \in Seq(Seg) /\ free_group' \in Seq(1..MaxGroup) /\ free_node' \in Seq(1..MaxNode)
      /\ recir_port_cnt' \in [Port -> Int]
  BY <1>1, <1>2, <1>3, <1>7, TakeShares
<1>9. Written(g, Len(req), Len(req)) /\ Len(g.member) \in Nat /\ Len(g.member) = Len(req)
  <2>1. Types
    BY DEF CInv
  <2>2. \A i \in 1..Len(g.member) : g.member[i] \notin DOMAIN metadata_table
    BY <2>1, <1>4, RequestMeaning
  <2>3. Len(req) \in Nat
    BY <1>4 DEF Proper
  <2>. QED
    BY <2>2, <2>3, <1>3, <1>4, WriteMeaning
<1>10. /\ DOMAIN mgid_table' = DOMAIN mgid_table \cup {g.group} /\ mgid_table'[g.group] = ToSet(g.node)
       /\ \A id \in DOMAIN mgid_table : id # g.group => mgid_table'[id] = mgid_table[id]
  BY <1>3 DEF With
<1>11. /\ Entries' /\ DOMAIN metadata_table' \subseteq Member
       /\ \A h : Proper(h) /\ Installed(h) /\ h.group # g.group /\ ToSet(g.node) \cap ToSet(h.node) = {} => Installed(h)'
  <2>1. DOMAIN metadata_table \subseteq Member
    BY DEF CInv, Types
  <2>. QED
    BY <2>1, <1>4, <1>7, <1>9, <1>10, WriteKeeps
<1>12. Installed(g)'
  <2>1. \A i \in 1..Len(g.member) :
         /\ g.member[i] \in DOMAIN metadata_table'
         /\ metadata_table'[g.member[i]] = Entry(g, i)
         /\ <<g.group, i>> \in DOMAIN restore_table'
         /\ restore_table'[<<g.group, i>>] = g.member[i]
         /\ g.node[i] \in DOMAIN node_table'
         /\ node_table'[g.node[i]] = [rank |-> i, port |-> g.member[i]]
    BY <1>9 DEF Written
  <2>. QED
    BY <2>1, <1>10 DEF Installed, Entry
<1>13. Complete'
  <2>. SUFFICES ASSUME NEW id \in Groups', NEW h, h = undo'[id] PROVE Installed(h)'
    BY DEF Complete, Installed, Entry
  <2>1. CASE id = g.group
    BY <2>1, <1>6, <1>12
  <2>2. CASE id \in Groups
    <3>1. h = undo[id] /\ h \in Held
      BY <2>2, <1>6 DEF Held
    <3>2. Installed(h) /\ Proper(h)
      BY <2>2, <3>1 DEF CInv, Complete, Grants
    <3>. QED
      BY <3>1, <3>2, <1>5, <1>11
  <2>. QED
    BY <2>1, <2>2, <1>6 DEF Groups
<1>14. Grants'
  <2>1. ASSUME NEW id \in Groups' PROVE undo'[id].group = id /\ undo'[id] \notin leaked'
    <3>1. CASE id = g.group
      BY <3>1, <1>3, <1>5, <1>6 DEF Held
    <3>2. CASE id \in Groups
      BY <3>2, <1>3, <1>6 DEF CInv, Grants
    <3>. QED
      BY <3>1, <3>2, <1>6 DEF Groups
  <2>. QED
    BY <2>1, <1>8 DEF Grants, Proper, Port
<1>15. Types'
  <2>1. alive' = TRUE /\ dirty' \subseteq Memory \X Member
    BY <1>3 DEF CInv, Types
  <2>2. DOMAIN sent = Groups
    BY DEF CInv, Types
  <2>3. DOMAIN sent' = Groups'
    BY <2>2, <1>3, <1>6 DEF With, Groups
  <2>. QED
    BY <2>1, <2>3, <1>8, <1>11 DEF Types, Port, Memory, Seg
<1>. QED
  BY <1>8, <1>11, <1>13, <1>14, <1>15 DEF CInv, Shares

\* CreateGroup raises: what the request was given stays taken.
LEMMA RaiseInv ==
    ASSUME CInv, NEW req \in Request, NEW size \in Size, CreateGroupRaises(req, size)
    PROVE  CInv'
<1>1. PICK g : g = Grant(req, size)
  OBVIOUS
<1>2. PICK n : n = SelectInSeq(req, LAMBDA m : m \notin KnownIP)
  OBVIOUS
<1>3. Granted(req, size)
  BY DEF Granted, CreateGroupRaises
<1>4. /\ TakeResources(g) /\ WriteTables(g, n, n - 1) /\ n # 0
      /\ leaked' = leaked \cup {g} /\ granted' = granted \cup {size}
      /\ undo' = undo /\ alive' = alive /\ mgid_table' = mgid_table /\ dirty' = dirty
      /\ sent' = sent
  BY <1>1, <1>2, Zenon DEF CreateGroupRaises
<1>5. Proper(g) /\ g.member = req
  BY <1>1, <1>3, GrantMeaning
<1>6. /\ g \notin Held /\ g.group \notin Groups
      /\ \A h \in Held : g.group # h.group /\ ToSet(g.node) \cap ToSet(h.node) = {}
  BY <1>1, <1>3, GrantIsNew
<1>7. Held' = Held \cup {g}
  BY <1>4 DEF Held, Groups
<1>8. /\ Shares' /\ IsFiniteSet(Held') /\ \A h \in Held' : Proper(h)
      /\ memseg' \in Seq(Seg) /\ free_group' \in Seq(1..MaxGroup) /\ free_node' \in Seq(1..MaxNode)
      /\ recir_port_cnt' \in [Port -> Int]
  BY <1>1, <1>3, <1>4, <1>7, TakeShares
<1>9. n \in Nat /\ n - 1 \in Nat /\ n <= Len(g.member) /\ n - 1 <= n
  <2>. DEFINE I == {i \in 1..Len(req) : req[i] \notin KnownIP}
  <2>1. Len(req) \in Nat
    BY <1>5 DEF Proper
  <2>2. n = IF I # {} THEN Min(I) ELSE 0
    BY <1>2, Zenon DEF SelectInSeq
  <2>3. I \subseteq Nat
    BY <2>1
  <2>4. I \subseteq 1..Len(req)
    OBVIOUS
  <2>. HIDE DEF I
  <2>5. n \in I
    BY <2>2, <2>3, <1>4, LeastNat
  <2>. QED
    BY <2>1, <2>4, <2>5, <1>5
<1>10. Written(g, n, n - 1)
  <2>1. Types
    BY DEF CInv
  <2>2. \A i \in 1..Len(g.member) : g.member[i] \notin DOMAIN metadata_table
    BY <2>1, <1>5, RequestMeaning
  <2>. QED
    BY <2>2, <1>4, <1>5, <1>9, WriteMeaning
<1>11. /\ Entries' /\ DOMAIN metadata_table' \subseteq Member
       /\ \A h : Proper(h) /\ Installed(h) /\ h.group # g.group /\ ToSet(g.node) \cap ToSet(h.node) = {} => Installed(h)'
  <2>1. DOMAIN metadata_table \subseteq Member
    BY DEF CInv, Types
  <2>. QED
    BY <2>1, <1>4, <1>5, <1>7, <1>9, <1>10, WriteKeeps
<1>12. Complete'
  <2>. SUFFICES ASSUME NEW id \in Groups', NEW h, h = undo'[id] PROVE Installed(h)'
    BY DEF Complete, Installed, Entry
  <2>1. id \in Groups /\ h = undo[id]
    BY <1>4 DEF Groups
  <2>2. h \in Held /\ Installed(h) /\ Proper(h)
    BY <2>1 DEF CInv, Complete, Grants, Held
  <2>. QED
    BY <2>2, <1>6, <1>11
<1>13. Grants'
  <2>1. ASSUME NEW id \in Groups' PROVE undo'[id].group = id /\ undo'[id] \notin leaked'
    <3>1. id \in Groups /\ undo'[id] = undo[id] /\ undo[id] \in Held
      BY <1>4 DEF Groups, Held
    <3>. QED
      BY <3>1, <1>4, <1>6 DEF CInv, Grants
  <2>. QED
    BY <2>1, <1>8 DEF Grants, Proper, Port
<1>14. Types'
  <2>1. alive' = TRUE /\ dirty' \subseteq Memory \X Member /\ DOMAIN sent' = Groups'
    BY <1>4 DEF CInv, Types, Groups
  <2>. QED
    BY <2>1, <1>8, <1>11 DEF Types, Port, Memory, Seg
<1>. QED
  BY <1>8, <1>11, <1>12, <1>13, <1>14 DEF CInv, Shares

\* DestroyGroup: the group's grant is given back.
LEMMA DestroyInv ==
    ASSUME CInv, NEW id \in 1..MaxGroup, DestroyGroup(id)
    PROVE  CInv'
<1>1. PICK g : g = undo[id]
  OBVIOUS
<1>2. /\ id \in Groups /\ Undo(g) /\ undo' = Without(undo, {id})
      /\ dirty' = dirty /\ leaked' = leaked /\ granted' = granted
      /\ sent' = Without(sent, {id})
  BY <1>1 DEF DestroyGroup, Forget
<1>3. g \in Held /\ g.group = id /\ g \notin leaked /\ Installed(g)
  BY <1>1, <1>2 DEF Held, CInv, Grants, Complete
<1>4. DOMAIN undo' = Groups \ {id} /\ \A k \in DOMAIN undo' : undo'[k] = undo[k]
  BY <1>2 DEF Without, Groups
<1>5. \A k \in Groups : undo[k].group = k /\ undo[k] \notin leaked /\ undo[k] \in Held
  BY DEF CInv, Grants, Held
<1>6. Held' = Held \ {g}
  <2>1. \A k \in Groups : k # id => undo[k] # g
    BY <1>3, <1>5
  <2>2. {undo'[k] : k \in DOMAIN undo'} = {undo[k] : k \in Groups} \ {g}
    BY <1>1, <1>4, <2>1
  <2>. QED
    BY <2>2, <1>2, <1>3 DEF Held, Groups
<1>7. /\ Shares' /\ IsFiniteSet(Held') /\ \A h \in Held' : Proper(h)
      /\ memseg' \in Seq(Seg) /\ free_group' \in Seq(1..MaxGroup) /\ free_node' \in Seq(1..MaxNode)
      /\ recir_port_cnt' \in [Port -> Int] /\ alive' = TRUE
  BY <1>2, <1>3, <1>6, UndoShares
<1>8. /\ Entries' /\ DOMAIN metadata_table' \subseteq Member
      /\ \A h \in Held' : Installed(h) => Installed(h)'
  BY <1>2, <1>3, <1>6, UndoKeeps
<1>9. Complete'
  <2>. SUFFICES ASSUME NEW k \in Groups', NEW h, h = undo'[k] PROVE Installed(h)'
    BY DEF Complete, Installed, Entry
  <2>1. k \in Groups /\ h = undo[k]
    BY <1>4 DEF Groups
  <2>2. h \in Held' /\ Installed(h)
    <3>1. h \in Held'
      BY DEF Held
    <3>. QED
      BY <2>1, <3>1 DEF CInv, Complete
  <2>. QED
    BY <2>2, <1>8
<1>10. Grants'
  <2>1. ASSUME NEW k \in Groups' PROVE undo'[k].group = k /\ undo'[k] \notin leaked'
    BY <1>2, <1>4, <1>5 DEF Groups
  <2>. QED
    BY <2>1, <1>7 DEF Grants, Proper, Port
<1>11. Types'
  <2>1. dirty' \subseteq Memory \X Member /\ DOMAIN sent = Groups
    BY <1>2 DEF CInv, Types
  <2>2. DOMAIN sent' = Groups'
    BY <2>1, <1>2, <1>4 DEF Without, Groups
  <2>. QED
    BY <2>1, <2>2, <1>7, <1>8 DEF Types, Port, Memory, Seg
<1>. QED
  BY <1>7, <1>8, <1>9, <1>10, <1>11 DEF CInv, Shares

\* A packet touches slots of its grant only.
LEMMA TrafficInv ==
    ASSUME CInv, NEW m \in DOMAIN metadata_table, NEW offset \in Memory, Traffic(m, offset)
    PROVE  CInv'
<1>1. /\ memseg' = memseg /\ free_group' = free_group /\ free_node' = free_node
      /\ recir_port_cnt' = recir_port_cnt /\ undo' = undo /\ alive' = alive
      /\ metadata_table' = metadata_table /\ restore_table' = restore_table
      /\ node_table' = node_table /\ mgid_table' = mgid_table
      /\ leaked' = leaked /\ granted' = granted
  BY DEF Traffic, resources, tables
<1>2. dirty' \subseteq Memory \X Member /\ DOMAIN sent' = Groups'
  <2>1. PICK g \in Held : \E i \in 1..Len(g.member) : metadata_table[m] = Entry(g, i)
    BY DEF CInv, Entries
  <2>2. metadata_table[m].agg_addr = g.seg[1] /\ metadata_table[m].mask = g.seg[2] - g.seg[1] - 1
    BY <2>1 DEF Entry
  <2>3. g.seg[1] \in 0..MemSize /\ g.seg[2] \in 0..MemSize /\ MemSize \in Nat
    BY ControllerAssumption DEF CInv, Grants, Proper, Seg
  <2>4. offset \in Nat /\ offset <= g.seg[2] - g.seg[1] - 1
    BY <2>2, <2>3 DEF Traffic, Memory
  <2>5. g.seg[1] + offset \in Memory
    BY <2>3, <2>4 DEF Memory
  <2>6. dirty' = dirty \cup {<<g.seg[1] + offset, m>>} /\ DOMAIN sent' = DOMAIN sent
    BY <2>2 DEF Traffic
  <2>7. m \in Member /\ dirty \subseteq Memory \X Member /\ DOMAIN sent = Groups
    BY DEF CInv, Types
  <2>. QED
    BY <2>5, <2>6, <2>7, <1>1 DEF Groups
<1>3. Groups' = Groups /\ Held' = Held
  BY <1>1 DEF Groups, Held
<1>4. Types'
  BY <1>1, <1>2 DEF CInv, Types, Port, Memory, Seg
<1>5. Grants' /\ Separate'
  BY <1>1, <1>3 DEF CInv, Grants, Separate, Proper, Port, Seg
<1>6. FreeGroups' /\ FreeNodes' /\ FreeMemory'
  BY <1>1, <1>3 DEF CInv, FreeGroups, FreeNodes, FreeMemory, Memory
<1>7. Ports' /\ Aligned'
  BY <1>1, <1>3 DEF CInv, Ports, Aligned, Port
<1>8. Entries' /\ Complete'
  BY <1>1, <1>3 DEF CInv, Entries, Complete, Installed, Entry
<1>. QED
  BY <1>4, <1>5, <1>6, <1>7, <1>8 DEF CInv

LEMMA StepInv ==
    CInv /\ [CtlNext]_ctlVars => CInv'
<1>. SUFFICES ASSUME CInv, [CtlNext]_ctlVars PROVE CInv'
  OBVIOUS
<1>1. ASSUME NEW req \in Request, NEW size \in Size, CreateGroup(req, size) PROVE CInv'
  BY <1>1, CreateInv
<1>2. ASSUME NEW req \in Request, NEW size \in Size, CreateGroupRaises(req, size) PROVE CInv'
  BY <1>2, RaiseInv
<1>3. ASSUME NEW id \in 1..MaxGroup, DestroyGroup(id) PROVE CInv'
  BY <1>3, DestroyInv
<1>4. ASSUME NEW m \in DOMAIN metadata_table, NEW offset \in Memory, Traffic(m, offset) PROVE CInv'
  BY <1>4, TrafficInv
<1>5. CASE UNCHANGED ctlVars
  <2>1. /\ memseg' = memseg /\ free_group' = free_group /\ free_node' = free_node
        /\ recir_port_cnt' = recir_port_cnt /\ undo' = undo /\ alive' = alive
        /\ metadata_table' = metadata_table /\ restore_table' = restore_table
        /\ node_table' = node_table /\ mgid_table' = mgid_table
        /\ dirty' = dirty /\ leaked' = leaked /\ granted' = granted /\ sent' = sent
    BY <1>5 DEF ctlVars, resources, tables
  <2>2. Groups' = Groups /\ Held' = Held
    BY <2>1 DEF Groups, Held
  <2>3. Types' /\ Grants' /\ Separate'
    BY <2>1, <2>2 DEF CInv, Types, Grants, Separate, Proper, Port, Memory, Seg
  <2>4. FreeGroups' /\ FreeNodes' /\ FreeMemory'
    BY <2>1, <2>2 DEF CInv, FreeGroups, FreeNodes, FreeMemory, Memory
  <2>5. Ports' /\ Aligned'
    BY <2>1, <2>2 DEF CInv, Ports, Aligned, Port
  <2>6. Entries' /\ Complete'
    BY <2>1, <2>2 DEF CInv, Entries, Complete, Installed, Entry
  <2>. QED
    BY <2>3, <2>4, <2>5, <2>6 DEF CInv
<1>. QED
  BY <1>1, <1>2, <1>3, <1>4, <1>5 DEF CtlNext

\* The invariant holds of every reachable state of the controller.
THEOREM ControllerInvariance == CtlSpec => []CInv
  BY InitInv, StepInv, PTL DEF CtlSpec

-----------------------------------------------------------------------------
(* What the invariant implies. *)

\* A set in which all elements are equal.
LEMMA OneOrNone ==
    ASSUME NEW S, \A x, y \in S : x = y
    PROVE  Cardinality(S) = IF S = {} THEN 0 ELSE 1
<1>1. CASE S = {}
  BY <1>1, FS_EmptySet
<1>2. CASE S # {}
  <2>1. PICK x : x \in S
    BY <1>2
  <2>2. S = {x}
    BY <2>1
  <2>. QED
    BY <2>2, <1>2, FS_Singleton
<1>. QED
  BY <1>1, <1>2

LEMMA Conserved == CInv => ResourcesConserved
<1>. SUFFICES ASSUME CInv PROVE ResourcesConserved
  OBVIOUS
<1>1. /\ memseg \in Seq(Seg) /\ free_group \in Seq(1..MaxGroup) /\ free_node \in Seq(1..MaxNode)
      /\ IsInjective(free_group) /\ IsInjective(free_node) /\ WellFormed(memseg)
  BY DEF CInv, Types, FreeGroups, FreeNodes, FreeMemory
<1>2. CtlTypeOK
  <2>1. Groups \subseteq 1..MaxGroup
    BY DEF CInv, Grants, Held, Proper
  <2>. QED
    BY <2>1 DEF CInv, Types, CtlTypeOK, Seg
<1>3. MemoryConserved
  <2>1. ASSUME NEW x \in Memory
        PROVE  Cardinality({g \in Held : x \in SlotsOf(g.seg)}) = IF x \in FreeSlots(memseg) THEN 0 ELSE 1
    <3>. DEFINE S == {g \in Held : x \in SlotsOf(g.seg)}
    <3>1. \A g, h \in S : g = h
      BY DEF CInv, Separate
    <3>2. S = {} <=> x \in FreeSlots(memseg)
      BY DEF CInv, FreeMemory
    <3>. HIDE DEF S
    <3>3. Cardinality(S) = IF S = {} THEN 0 ELSE 1
      BY <3>1, OneOrNone
    <3>. QED
      BY <3>2, <3>3 DEF S
  <2>. QED
    BY <2>1, <1>1 DEF MemoryConserved
<1>4. ASSUME NEW id \in 1..MaxGroup
      PROVE  Cardinality({g \in Held : g.group = id})
               + Cardinality({i \in DOMAIN free_group : free_group[i] = id}) = 1
  <2>. DEFINE S == {g \in Held : g.group = id}
              F == {i \in DOMAIN free_group : free_group[i] = id}
  <2>1. (\A g, h \in S : g = h) /\ (\A i, j \in F : i = j)
    BY <1>1 DEF CInv, Separate, IsInjective
  <2>2. F # {} <=> id \in ToSet(free_group)
    BY DEF ToSet
  <2>3. S = {} <=> id \in ToSet(free_group)
    BY DEF CInv, FreeGroups
  <2>. HIDE DEF S, F
  <2>4. Cardinality(S) = (IF S = {} THEN 0 ELSE 1) /\ Cardinality(F) = (IF F = {} THEN 0 ELSE 1)
    BY <2>1, OneOrNone
  <2>5. Cardinality(S) + Cardinality(F) = 1
    BY <2>2, <2>3, <2>4
  <2>. QED
    BY <2>5 DEF S, F
<1>5. ASSUME NEW n \in 1..MaxNode
      PROVE  Cardinality({g \in Held : n \in ToSet(g.node)})
               + Cardinality({i \in DOMAIN free_node : free_node[i] = n}) = 1
  <2>. DEFINE S == {g \in Held : n \in ToSet(g.node)}
              F == {i \in DOMAIN free_node : free_node[i] = n}
  <2>1. (\A g, h \in S : g = h) /\ (\A i, j \in F : i = j)
    BY <1>1 DEF CInv, Separate, IsInjective
  <2>2. F # {} <=> n \in ToSet(free_node)
    BY DEF ToSet
  <2>3. S = {} <=> n \in ToSet(free_node)
    BY DEF CInv, FreeNodes
  <2>. HIDE DEF S, F
  <2>4. Cardinality(S) = (IF S = {} THEN 0 ELSE 1) /\ Cardinality(F) = (IF F = {} THEN 0 ELSE 1)
    BY <2>1, OneOrNone
  <2>5. Cardinality(S) + Cardinality(F) = 1
    BY <2>2, <2>3, <2>4
  <2>. QED
    BY <2>5 DEF S, F
<1>6. IdsConserved
  BY <1>4, <1>5 DEF IdsConserved, CInv, Ports
<1>. QED
  BY <1>2, <1>3, <1>6 DEF ResourcesConserved, CInv, Types

\* Memory, group numbers, multicast nodes and recirculation ports are never
\* lost and never given out twice, and DestroyGroup never makes the controller
\* exit, whatever the sizes, the limits and the history of requests.
THEOREM NothingLostOrDoubled == CtlSpec => []ResourcesConserved
  BY ControllerInvariance, Conserved, PTL

LEMMA Exclusive == CInv => SlotsExclusive
<1>. SUFFICES ASSUME CInv, NEW m \in DOMAIN metadata_table, NEW k \in DOMAIN metadata_table,
                     NEW a, a = metadata_table[m], NEW b, b = metadata_table[k]
              PROVE  IF a.group = b.group
                     THEN a.agg_addr = b.agg_addr /\ a.mask = b.mask /\ (m # k => a.rank # b.rank)
                     ELSE \A s \in 0..a.mask, t \in 0..b.mask : a.agg_addr + s # b.agg_addr + t
  BY DEF SlotsExclusive
<1>0. PICK g \in Held, h \in Held :
        /\ \E i \in 1..Len(g.member) : g.member[i] = m /\ a = Entry(g, i)
        /\ \E j \in 1..Len(h.member) : h.member[j] = k /\ b = Entry(h, j)
  BY DEF CInv, Entries
<1>1. PICK i \in 1..Len(g.member) : g.member[i] = m /\ a = Entry(g, i)
  BY <1>0
<1>2. PICK j \in 1..Len(h.member) : h.member[j] = k /\ b = Entry(h, j)
  BY <1>0
<1>3. /\ a.group = g.group /\ a.rank = i /\ a.agg_addr = g.seg[1] /\ a.mask = g.seg[2] - g.seg[1] - 1
      /\ b.group = h.group /\ b.rank = j /\ b.agg_addr = h.seg[1] /\ b.mask = h.seg[2] - h.seg[1] - 1
  BY <1>1, <1>2 DEF Entry
<1>4. CASE a.group = b.group
  <2>1. g = h
    BY <1>3, <1>4 DEF CInv, Separate
  <2>. QED
    BY <1>1, <1>2, <1>3, <1>4, <2>1
<1>5. CASE a.group # b.group
  <2>1. SlotsOf(g.seg) \cap SlotsOf(h.seg) = {}
    BY <1>3, <1>5 DEF CInv, Separate
  <2>2. g.seg[1] \in 0..MemSize /\ g.seg[2] \in 0..MemSize /\ h.seg[1] \in 0..MemSize /\ h.seg[2] \in 0..MemSize
    BY DEF CInv, Grants, Proper, Seg
  <2>3. ASSUME NEW s \in 0..a.mask, NEW t \in 0..b.mask PROVE a.agg_addr + s # b.agg_addr + t
    <3>1. MemSize \in Nat
      BY ControllerAssumption
    <3>2. a.agg_addr + s \in SlotsOf(g.seg)
      <4>. DEFINE l == g.seg[1]
                  r == g.seg[2]
      <4>1. l \in Nat /\ r \in Nat /\ a.agg_addr = l /\ a.mask = r - l - 1
        BY <1>3, <2>2, <3>1
      <4>. HIDE DEF l, r
      <4>2. s \in 0..(r - l - 1)
        BY <4>1, Zenon
      <4>3. l + s \in l..(r - 1)
        BY <4>1, <4>2
      <4>. QED
        BY <4>1, <4>3 DEF SlotsOf, l, r
    <3>3. b.agg_addr + t \in SlotsOf(h.seg)
      <4>. DEFINE l == h.seg[1]
                  r == h.seg[2]
      <4>1. l \in Nat /\ r \in Nat /\ b.agg_addr = l /\ b.mask = r - l - 1
        BY <1>3, <2>2, <3>1
      <4>. HIDE DEF l, r
      <4>2. t \in 0..(r - l - 1)
        BY <4>1, Zenon
      <4>3. l + t \in l..(r - 1)
        BY <4>1, <4>2
      <4>. QED
        BY <4>1, <4>3 DEF SlotsOf, l, r
    <3>. QED
      BY <3>2, <3>3, <2>1
  <2>. QED
    BY <2>3, <1>5
<1>. QED
  BY <1>4, <1>5

\* The slots of the switch memory that the metadata entries lead to are shared
\* by the members of one group only.
THEOREM GroupsKeptApart == CtlSpec => []SlotsExclusive
  BY ControllerInvariance, Exclusive, PTL

LEMMA Reaches == CInv => MulticastReachesMembers
<1>. SUFFICES ASSUME CInv, NEW id \in Groups
              PROVE  /\ mgid_table[id] \subseteq DOMAIN node_table
                     /\ \A m \in ToSet(undo[id].member) :
                          /\ metadata_table[m].group = id
                          /\ restore_table[<<id, metadata_table[m].rank>>] = m
                          /\ Cardinality({n \in mgid_table[id] : node_table[n].port = m}) = 1
                          /\ \A n \in mgid_table[id] :
                               node_table[n].port = m <=> node_table[n].rank = metadata_table[m].rank
  BY Zenon DEF MulticastReachesMembers
<1>0. PICK g : g = undo[id]
  OBVIOUS
<1>1. Installed(g) /\ Proper(g) /\ g.group = id
  BY <1>0 DEF CInv, Complete, Grants, Held
<1>2. /\ g.member \in Seq(Member) /\ IsInjective(g.member) /\ DOMAIN g.member = 1..Len(g.member)
      /\ g.node \in Seq(1..MaxNode) /\ DOMAIN g.node = 1..Len(g.member)
  BY <1>1 DEF Proper
<1>3. mgid_table[id] = {g.node[i] : i \in 1..Len(g.member)}
  BY <1>1, <1>2 DEF Installed, ToSet
<1>4. \A i \in 1..Len(g.member) :
        /\ metadata_table[g.member[i]] = Entry(g, i) /\ restore_table[<<id, i>>] = g.member[i]
        /\ g.node[i] \in DOMAIN node_table
        /\ node_table[g.node[i]].rank = i /\ node_table[g.node[i]].port = g.member[i]
  <2>. SUFFICES ASSUME NEW i \in 1..Len(g.member)
                PROVE  /\ metadata_table[g.member[i]] = Entry(g, i) /\ restore_table[<<id, i>>] = g.member[i]
                       /\ g.node[i] \in DOMAIN node_table
                       /\ node_table[g.node[i]].rank = i /\ node_table[g.node[i]].port = g.member[i]
    OBVIOUS
  <2>1. /\ metadata_table[g.member[i]] = Entry(g, i) /\ restore_table[<<g.group, i>>] = g.member[i]
        /\ g.node[i] \in DOMAIN node_table
        /\ node_table[g.node[i]] = [rank |-> i, port |-> g.member[i]]
    BY <1>1 DEF Installed
  <2>. QED
    BY <2>1, <1>1
<1>5. /\ mgid_table[id] \subseteq DOMAIN node_table
      /\ \A n \in mgid_table[id] : \E j \in 1..Len(g.member) :
           n = g.node[j] /\ node_table[n].rank = j /\ node_table[n].port = g.member[j]
  <2>. SUFFICES ASSUME NEW n \in mgid_table[id]
                PROVE  /\ n \in DOMAIN node_table
                       /\ \E j \in 1..Len(g.member) :
                            n = g.node[j] /\ node_table[n].rank = j /\ node_table[n].port = g.member[j]
    OBVIOUS
  <2>1. n \in {g.node[i] : i \in 1..Len(g.member)}
    BY <1>3
  <2>2. PICK j \in 1..Len(g.member) : n = g.node[j]
    BY <2>1
  <2>3. /\ g.node[j] \in DOMAIN node_table
        /\ node_table[g.node[j]].rank = j /\ node_table[g.node[j]].port = g.member[j]
    BY <1>4, Zenon
  <2>. QED
    BY <2>2, <2>3
<1>6. ASSUME NEW m \in ToSet(g.member)
      PROVE  /\ metadata_table[m].group = id
             /\ restore_table[<<id, metadata_table[m].rank>>] = m
             /\ Cardinality({n \in mgid_table[id] : node_table[n].port = m}) = 1
             /\ \A n \in mgid_table[id] :
                  node_table[n].port = m <=> node_table[n].rank = metadata_table[m].rank
  <2>1. PICK i \in 1..Len(g.member) : m = g.member[i]
    BY <1>2 DEF ToSet
  <2>2. metadata_table[m].group = id /\ metadata_table[m].rank = i /\ restore_table[<<id, i>>] = m
    <3>1. metadata_table[m] = Entry(g, i) /\ restore_table[<<id, i>>] = m
      BY <1>4, <2>1, Zenon
    <3>2. Entry(g, i).group = id /\ Entry(g, i).rank = i
      BY <1>1 DEF Entry
    <3>. QED
      BY <3>1, <3>2
  <2>3. \A j \in 1..Len(g.member) : g.member[j] = m <=> j = i
    BY <1>2, <2>1 DEF IsInjective
  <2>4. \A n \in mgid_table[id] : node_table[n].port = m <=> node_table[n].rank = i
    <3>. SUFFICES ASSUME NEW n \in mgid_table[id] PROVE node_table[n].port = m <=> node_table[n].rank = i
      OBVIOUS
    <3>1. PICK j \in 1..Len(g.member) : node_table[n].rank = j /\ node_table[n].port = g.member[j]
      BY <1>5
    <3>2. g.member[j] = m <=> j = i
      BY <2>3, Zenon
    <3>. QED
      BY <3>1, <3>2, Zenon
  <2>. DEFINE S == {n \in mgid_table[id] : node_table[n].port = m}
  <2>5. S = {g.node[i]}
    <3>1. g.node[i] \in mgid_table[id] /\ node_table[g.node[i]].port = m
      BY <1>3, <1>4, <2>1, Zenon
    <3>2. ASSUME NEW n \in mgid_table[id], node_table[n].port = m PROVE n = g.node[i]
      <4>1. PICK j \in 1..Len(g.member) : n = g.node[j] /\ node_table[n].port = g.member[j]
        BY <1>5
      <4>2. j = i
        BY <4>1, <3>2, <2>3, Zenon
      <4>. QED
        BY <4>1, <4>2
    <3>. QED
      BY <3>1, <3>2
  <2>. HIDE DEF S
  <2>6. Cardinality(S) = 1
    BY <2>5, FS_Singleton
  <2>. QED
    BY <2>2, <2>4, <2>6 DEF S
<1>. QED
  BY <1>0, <1>5, <1>6, Zenon

\* The tables lead a group's result to each of its members exactly once, at
\* the address that egress restores, whatever other groups come, go or fail.
THEOREM ResultsReachMembers == CtlSpec => []MulticastReachesMembers
  BY ControllerInvariance, Reaches, PTL

LEMMA Honest == CInv => RefusalHonest
<1>. SUFFICES ASSUME CInv, NEW size \in Size, IsPower2(size, MemSize), granted \subseteq {size},
                     FitSeg(memseg, size) = NoFit, NEW k \in Memory,
                     (k * size)..(k * size + size - 1) \subseteq FreeSlots(memseg)
              PROVE  FALSE
  BY DEF RefusalHonest
<1>. DEFINE x == k * size
<1>1. size \in Nat \ {0} /\ k \in Nat /\ MemSize \in Nat
  BY ControllerAssumption DEF IsPower2, Memory
<1>2. x \in Nat /\ x % size = 0
  <2>. DEFINE zero == 0
  <2>1. zero \in 0..(size - 1) /\ k \in Int
    BY <1>1 DEF zero
  <2>. HIDE DEF zero
  <2>2. (size * k + zero) % size = zero
    BY <1>1, <2>1, ModUnique
  <2>3. size * k + zero = x /\ x \in Nat
    BY <1>1 DEF zero
  <2>. QED
    BY <2>2, <2>3 DEF zero
<1>. HIDE DEF x
<1>3. /\ memseg \in Seq(Seg) /\ Len(memseg) \in Nat
      /\ \A i \in 1..Len(memseg) : memseg[i][1] \in Nat /\ memseg[i][2] \in Nat /\ memseg[i][2] <= MemSize
  BY SegEnds DEF CInv, Types
<1>4. \A i \in 1..Len(memseg) : ~Fits(memseg[i], size)
  <2>. SUFFICES ASSUME \E i \in 1..Len(memseg) : Fits(memseg[i], size) PROVE FALSE
    OBVIOUS
  <2>. DEFINE I == {i \in 1..Len(memseg) : Fits(memseg[i], size)}
              n == Min(I)
  <2>1. I # {} /\ I \subseteq Nat /\ 0 \notin I
    BY <1>3
  <2>2. FitSeg(memseg, size) = [index |-> n, addr |-> UpperAlign(memseg[n][1], size)]
    <3>1. SelectInSeq(memseg, LAMBDA seg : Fits(seg, size)) = n
      BY <2>1, Zenon DEF SelectInSeq
    <3>. QED
      BY <3>1, Zenon DEF FitSeg
  <2>. HIDE DEF I
  <2>3. n \in I
    BY <2>1, LeastNat
  <2>. HIDE DEF n
  <2>4. n = 0
    BY <2>2 DEF NoFit
  <2>. QED
    BY <2>1, <2>3, <2>4
<1>5. x \in FreeSlots(memseg) /\ x + size - 1 \in FreeSlots(memseg)
  <2>1. x \in x..(x + size - 1) /\ x + size - 1 \in x..(x + size - 1)
    BY <1>1, <1>2
  <2>. QED
    BY <2>1 DEF x
<1>6. PICK i \in 1..Len(memseg) : x \in SlotsOf(memseg[i])
  BY <1>5 DEF FreeSlots
<1>7. PICK j \in 1..Len(memseg) : x + size - 1 \in SlotsOf(memseg[j])
  BY <1>5 DEF FreeSlots
<1>. DEFINE l == memseg[i][1]
            r == memseg[i][2]
<1>8. /\ l \in Nat /\ r \in Nat /\ l <= x /\ x < r /\ x + size - 1 < MemSize
  <2>1. l \in Nat /\ r \in Nat /\ memseg[j][1] \in Nat /\ memseg[j][2] \in Nat /\ memseg[j][2] <= MemSize
    BY <1>3
  <2>2. x \in l..(r - 1) /\ x + size - 1 \in memseg[j][1]..(memseg[j][2] - 1)
    BY <1>6, <1>7 DEF SlotsOf
  <2>. HIDE DEF l, r
  <2>. QED
    BY <2>1, <2>2, <1>1, <1>2
<1>9. l % size = 0 /\ (r % size = 0 \/ r = MemSize)
  BY <1>1 DEF CInv, Aligned
<1>10. ~(l + size <= r)
  <2>1. UpperAlign(l, size) = l
    BY <1>1, <1>8, <1>9, AlignUp
  <2>. QED
    BY <2>1, <1>4 DEF Fits
<1>. HIDE DEF l, r
<1>11. l = x
  <2>. SUFFICES ASSUME l < x PROVE FALSE
    BY <1>2, <1>8
  <2>1. l + size <= x
    <3>1. l \in Int /\ x \in Int /\ l % size = x % size
      BY <1>2, <1>8, <1>9
    <3>. QED
      BY <3>1, <1>1, SameModApart
  <2>. QED
    BY <2>1, <1>1, <1>2, <1>8, <1>10
<1>12. r # MemSize
  BY <1>1, <1>8, <1>10, <1>11
<1>13. l + size <= r
  <2>1. l \in Int /\ r \in Int /\ l % size = r % size /\ l < r
    BY <1>8, <1>9, <1>11, <1>12
  <2>. QED
    BY <2>1, <1>1, SameModApart
<1>. QED
  BY <1>10, <1>13

\* While all windows have one size, a request that is refused for want of
\* memory finds no aligned block of that size free, although free_seg does not
\* join a block with its right neighbour when it was joined with the left one.
THEOREM RefusalsHonest == CtlSpec => []RefusalHonest
  BY ControllerInvariance, Honest, PTL

\* The bits in the slots of a grant.
BitsOf(g) == {b \in dirty : b[1] \in SlotsOf(g.seg)}

\* The bits of a group are its own: clearing and traffic of another group do
\* not reach its slots.
LEMMA RegistersStep ==
    ASSUME CInv, CInv', RegistersExact, [CtlNext]_ctlVars
    PROVE  RegistersExact'
<1>. SUFFICES ASSUME NEW k \in Groups' PROVE {b \in dirty' : b[1] \in SlotsOf(undo'[k].seg)} = sent'[k]
  BY DEF RegistersExact
<1>1. DOMAIN sent = Groups /\ \A id \in Groups : BitsOf(undo[id]) = sent[id]
  BY DEF CInv, Types, RegistersExact, BitsOf
<1>2. ASSUME NEW req \in Request, NEW size \in Size, CreateGroup(req, size)
      PROVE  {b \in dirty' : b[1] \in SlotsOf(undo'[k].seg)} = sent'[k]
  <2>1. PICK g : g = Grant(req, size)
    OBVIOUS
  <2>2. /\ dirty' = {b \in dirty : b[1] \notin SlotsOf(g.seg)}
        /\ undo' = With(undo, [x \in {g.group} |-> g])
        /\ sent' = With(sent, [x \in {g.group} |-> {}])
    BY <1>2, <2>1 DEF CreateGroup, ClearRegisters
  <2>3. CASE k = g.group
    <3>1. undo'[k] = g /\ sent'[k] = {}
      BY <2>2, <2>3 DEF With
    <3>. QED
      BY <2>2, <3>1
  <2>4. CASE k # g.group
    <3>1. k \in Groups /\ undo'[k] = undo[k] /\ sent'[k] = sent[k]
      BY <2>2, <2>4, <1>1 DEF With, Groups
    <3>2. undo'[g.group] = g /\ g.group \in Groups'
      BY <2>2 DEF With, Groups
    <3>3. undo[k] \in Held' /\ g \in Held'
      BY <3>1, <3>2 DEF Held
    <3>4. undo[k] # g
      BY <3>1, <2>4 DEF CInv, Grants
    <3>5. SlotsOf(undo[k].seg) \cap SlotsOf(g.seg) = {}
      BY <3>3, <3>4 DEF CInv, Separate
    <3>6. {b \in dirty' : b[1] \in SlotsOf(undo[k].seg)} = BitsOf(undo[k])
      BY <2>2, <3>5 DEF BitsOf
    <3>. QED
      BY <3>1, <3>6, <1>1
  <2>. QED
    BY <2>3, <2>4
<1>3. ASSUME NEW id \in 1..MaxGroup, DestroyGroup(id)
      PROVE  {b \in dirty' : b[1] \in SlotsOf(undo'[k].seg)} = sent'[k]
  <2>1. dirty' = dirty /\ undo' = Without(undo, {id}) /\ sent' = Without(sent, {id})
    BY <1>3 DEF DestroyGroup, Forget
  <2>2. k \in Groups /\ undo'[k] = undo[k] /\ sent'[k] = sent[k]
    BY <2>1, <1>1 DEF Without, Groups
  <2>. QED
    BY <2>1, <2>2, <1>1 DEF BitsOf
<1>4. ASSUME NEW m \in DOMAIN metadata_table, NEW offset \in Memory, Traffic(m, offset)
      PROVE  {b \in dirty' : b[1] \in SlotsOf(undo'[k].seg)} = sent'[k]
  <2>1. PICK g \in Held : \E i \in 1..Len(g.member) : metadata_table[m] = Entry(g, i)
    BY DEF CInv, Entries
  <2>2. /\ metadata_table[m].group = g.group /\ metadata_table[m].agg_addr = g.seg[1]
        /\ metadata_table[m].mask = g.seg[2] - g.seg[1] - 1
    BY <2>1 DEF Entry
  <2>3. g.group \in Groups /\ offset <= g.seg[2] - g.seg[1] - 1 /\ undo' = undo
    BY <1>4, <2>2 DEF Traffic
  <2>. DEFINE bit == <<g.seg[1] + offset, m>>
  <2>4. dirty' = dirty \cup {bit} /\ sent' = [sent EXCEPT ![g.group] = @ \cup {bit}]
    BY <1>4, <2>2 DEF Traffic
  <2>5. g.seg[1] + offset \in SlotsOf(g.seg)
    <3>1. g.seg[1] \in 0..MemSize /\ g.seg[2] \in 0..MemSize /\ MemSize \in Nat
      BY ControllerAssumption DEF CInv, Grants, Proper, Seg
    <3>2. offset \in Nat
      BY <3>1 DEF Memory
    <3>. QED
      BY <3>1, <3>2, <2>3 DEF SlotsOf
  <2>6. bit[1] = g.seg[1] + offset
    OBVIOUS
  <2>. HIDE DEF bit
  <2>7. undo[g.group] = g /\ k \in Groups
    <3>1. undo[g.group] \in Held /\ undo[g.group].group = g.group
      BY <2>3 DEF CInv, Grants, Held
    <3>2. undo[g.group] = g
      BY <3>1 DEF CInv, Separate
    <3>. QED
      BY <3>2, <2>3 DEF Groups
  <2>8. CASE k = g.group
    <3>1. sent'[k] = sent[k] \cup {bit}
      BY <2>4, <2>7, <2>8, <1>1
    <3>2. {b \in dirty' : b[1] \in SlotsOf(g.seg)} = BitsOf(g) \cup {bit}
      BY <2>4, <2>5, <2>6 DEF BitsOf
    <3>. QED
      BY <3>1, <3>2, <2>3, <2>7, <2>8, <1>1
  <2>9. CASE k # g.group
    <3>1. sent'[k] = sent[k]
      BY <2>4, <2>7, <2>9, <1>1
    <3>2. undo[k] \in Held /\ undo[k] # g
      BY <2>7, <2>9 DEF CInv, Grants, Held
    <3>3. SlotsOf(undo[k].seg) \cap SlotsOf(g.seg) = {}
      BY <3>2 DEF CInv, Separate
    <3>4. {b \in dirty' : b[1] \in SlotsOf(undo[k].seg)} = BitsOf(undo[k])
      BY <2>4, <2>5, <2>6, <3>3 DEF BitsOf
    <3>. QED
      BY <3>1, <3>4, <2>3, <2>7, <1>1
  <2>. QED
    BY <2>8, <2>9
<1>5. ASSUME NEW req \in Request, NEW size \in Size, CreateGroupRaises(req, size)
      PROVE  dirty' = dirty /\ undo' = undo /\ sent' = sent
  BY <1>5 DEF CreateGroupRaises
<1>6. CASE dirty' = dirty /\ undo' = undo /\ sent' = sent
  BY <1>1, <1>6 DEF BitsOf, Groups
<1>7. CASE UNCHANGED ctlVars
  BY <1>6, <1>7 DEF ctlVars
<1>. QED
  BY <1>2, <1>3, <1>4, <1>5, <1>6, <1>7 DEF CtlNext

\* The bitmap registers of a group hold the bits that its own packets have set
\* since CreateGroup, and all of them, whatever the groups that had the slots
\* before have left, and whatever other groups do meanwhile.
THEOREM RegistersKept == CtlSpec => []RegistersExact
<1>1. CtlInit => RegistersExact
  BY DEF CtlInit, RegistersExact, Groups, EmptyFun
<1>2. CInv /\ CInv' /\ RegistersExact /\ [CtlNext]_ctlVars => RegistersExact'
  BY RegistersStep
<1>. QED
  BY <1>1, <1>2, ControllerInvariance, PTL DEF CtlSpec
=============================================================================
