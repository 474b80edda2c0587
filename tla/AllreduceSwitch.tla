-------------------------- MODULE AllreduceSwitch --------------------------
(***************************************************************************)
(* The data plane of the in-network allreduce: what the ingress pipeline   *)
(* (allreduce_ingress.p4, aggregator.p4, allreduce_sendout.p4) does to one *)
(* group's registers when a data packet passes it.                         *)
(*                                                                         *)
(* A group owns W consecutive slots of two register arrays, reg_bitmap and *)
(* aggregator_array.  A data packet is handled in two passes:              *)
(*                                                                         *)
(*   first pass   the bitmap slot is updated, the payload is added to the  *)
(*                aggregator, and if every rank has now contributed, the   *)
(*                packet leaves for the recirculation port with the        *)
(*                aggregate of the EVEN words (agg0) in it;                *)
(*   second pass  the recirculated packet reads the aggregate of the ODD   *)
(*                words (agg1) from the slot and goes to the ranks.        *)
(*                                                                         *)
(* Between the passes the packet waits in the recirculation port's queue,  *)
(* and other packets use the slot: nothing makes the two reads atomic.     *)
(*                                                                         *)
(* Data.  A word of a payload is modelled by the set of the contributions  *)
(* that were added up in it: <<r, i>> is what rank r puts into packet i.   *)
(* A sum in which a contribution occurs twice contains Twice.  (The code   *)
(* adds int<32> words with saturation; it states that the workload does    *)
(* not overflow, aggregator.p4:22.)  d0 stands for the 32 even words of a  *)
(* payload, d1 for the 32 odd ones: the 32 AggregatorAccess units do the   *)
(* same thing with the same md.                                            *)
(*                                                                         *)
(* Sequence numbers.  idx is the unbounded number of a packet; the header  *)
(* carries Psn(idx) only, and the switch looks at nothing else.  Likewise  *)
(* the version that a bitmap register holds is Psn of the number kept here.*)
(***************************************************************************)
EXTENDS Integers, Sequences

CONSTANTS
    Rank,     \* the members of the group
    W,        \* slots of the group: MemorySize / MTU_SIZE
    PsnMod,   \* number of packet sequence numbers, 2^24 on the wire
    QueueCap, \* packets that a port's queue holds before it drops
    Twice     \* marks a sum that has a contribution twice

ASSUME WAssumption == W \in Nat \ {0}

ASSUME QueueCapAssumption == QueueCap \in Nat \ {0}

\* W is a power of two (fit_seg refuses any other MemorySize), hence divides
\* 2^24, and is less than it: SWITCH_MEM_SIZE is 2^14 slots.
ASSUME PsnModAssumption ==
    /\ PsnMod \in Nat
    /\ PsnMod > W
    /\ \E k \in 1..PsnMod : PsnMod = k * W

VARIABLES
    reg_bitmap,        \* slot -> [version, bitmap], the register's pair
    aggregator_array,  \* slot -> [agg0, agg1]
    recir              \* queue of the group's recirculation port

switchVars == <<reg_bitmap, aggregator_array, recir>>

Slot == 0..(W - 1)

\* The sequence number that packet idx carries in its header.
Psn(idx) == idx % PsnMod

\* get_allreduce_metadata and stage1: the slot is the sequence number masked
\* with agg_addr_offset_mask, W - 1, relative to the group's first slot.
SlotOf(idx) == Psn(idx) % W

\* The addition of two words.
Plus(a, b) == a \cup b \cup (IF a \cap b = {} THEN {} ELSE {Twice})

\* A queue with tail drop: the switch's traffic manager is lossy.
Enqueue(q, m) == IF Len(q) < QueueCap THEN Append(q, m) ELSE q

SwitchInit ==
    /\ reg_bitmap = [s \in Slot |-> [version |-> 0, bitmap |-> {}]]
    /\ aggregator_array = [s \in Slot |-> [agg0 |-> {}, agg1 |-> {}]]
    /\ recir = << >>

-----------------------------------------------------------------------------
(* First pass.  pkt is [src, idx, d0, d1]. *)

\* reg_bitmap_update: the value it returns, md.bitmap_old.
BitmapOld(pkt) ==
    IF Psn(reg_bitmap[SlotOf(pkt.idx)].version) = Psn(pkt.idx)
    THEN reg_bitmap[SlotOf(pkt.idx)].bitmap
    ELSE {}

\* Mutant: the register forgets the bits of the other ranks.
BitmapUpdateForgets(pkt) ==
    reg_bitmap' = [reg_bitmap EXCEPT ![SlotOf(pkt.idx)] =
                     [version |-> pkt.idx, bitmap |-> {pkt.src}]]

\* reg_bitmap_update: what it leaves in the register.
BitmapUpdate(pkt) ==
    reg_bitmap' = [reg_bitmap EXCEPT ![SlotOf(pkt.idx)] =
                     [version |-> pkt.idx,
                      bitmap  |-> BitmapOld(pkt) \cup {pkt.src}]]

\* Mutant: the entries of increase_bit test only the packet's bit.
IncreaseAlways(pkt) == TRUE

\* increase_bit: is this the first packet of its rank for this version?
Increase(pkt) == pkt.src \notin BitmapOld(pkt)

\* agg_action on a first pass: overwrite, aggregate or read0, in this order
\* of priority; the new contents of the slot.
Aggregated(pkt) ==
    LET old == aggregator_array[SlotOf(pkt.idx)]
    IN  IF BitmapOld(pkt) = {} THEN [agg0 |-> pkt.d0, agg1 |-> pkt.d1]
        ELSE IF Increase(pkt)
             THEN [agg0 |-> Plus(old.agg0, pkt.d0),
                   agg1 |-> Plus(old.agg1, pkt.d1)]
             ELSE old

\* Mutant: only the packet that completes the sum is sent on.
FullOnce(pkt) == BitmapOld(pkt) = Rank \ {pkt.src}

\* Mutant: the mask has the packet's own bit only.
FullEarly(pkt) == TRUE

\* sendout: md.full, all contributions are in after this packet.  bitmap_flip
\* is the mask without the packet's own bit.
Full(pkt) ==
    \/ BitmapOld(pkt) = Rank \ {pkt.src}
    \/ BitmapOld(pkt) = Rank

\* The packet that leaves for the recirculation port: agg0 was put into it by
\* the register access (an overwrite leaves it as it is, which is the same),
\* d1 is still the packet's own, and enable_multicast is md.increase.
Recirculated(pkt) ==
    [src |-> pkt.src, idx |-> pkt.idx,
     d0 |-> Aggregated(pkt).agg0, d1 |-> pkt.d1,
     enable_multicast |-> Increase(pkt)]

\* ALLREDUCE_FIRST_PASS: a packet that does not fill the bitmap is dropped.
FirstPass(pkt) ==
    /\ BitmapUpdate(pkt)
    /\ aggregator_array' =
         [aggregator_array EXCEPT ![SlotOf(pkt.idx)] = Aggregated(pkt)]
    /\ recir' = IF Full(pkt) THEN Enqueue(recir, Recirculated(pkt)) ELSE recir

-----------------------------------------------------------------------------
(* Second pass. *)

\* read1 on the packet at the head of the recirculation queue.
Result ==
    [idx |-> Head(recir).idx, d0 |-> Head(recir).d0,
     d1 |-> aggregator_array[SlotOf(Head(recir).idx)].agg1]

\* Whom the result is sent to: the multicast group, or the sender only.
\* (Egress then restores address, QPN and rkey of each receiver.)
Receivers == IF Head(recir).enable_multicast THEN Rank ELSE {Head(recir).src}

\* ALLREDUCE_SECOND_PASS leaves the registers alone.
SecondPass ==
    /\ recir # << >>
    /\ recir' = Tail(recir)
    /\ UNCHANGED <<reg_bitmap, aggregator_array>>
=============================================================================
