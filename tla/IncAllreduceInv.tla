-------------------------- MODULE IncAllreduceInv --------------------------
(***************************************************************************)
(* The inductive invariant behind the safety of IncAllreduce.              *)
(*                                                                         *)
(* The argument is about distance.  All queues are FIFO, and a rank sends  *)
(* packet k only while it is less than ServerWin ahead of what it has got  *)
(* acknowledged.  So whatever is in front of packet k in any queue, and    *)
(* whatever has come out of the queues before it, is a packet below        *)
(* k + ServerWin; a rank that has got so far has itself sent nothing from  *)
(* k + 2 * ServerWin on, and therefore nobody has claimed the slot of k    *)
(* for packet k + W.                                                       *)
(***************************************************************************)
EXTENDS IncAllreduce, Functions

IsData(m) == m.kind = "data"

\* The data packets and the acknowledgements on their way from and to rank r.
UpData(r) == {m \in Range(uplink[r]) : IsData(m)}
UpAcks(r) == {m \in Range(uplink[r]) : ~IsData(m)}
DownData(r) == {m \in Range(downlink[r]) : IsData(m)}
DownAcks(r) == {m \in Range(downlink[r]) : ~IsData(m)}

\* The bitmap register of packet i's slot.
Version(i) == reg_bitmap[SlotOf(i)].version
Bits(i) == reg_bitmap[SlotOf(i)].bitmap

\* Data packets in a queue lag behind the ones in front of them by less than
\* the server window; recirculated packets as well.
DataFifoLag(q) ==
    \A a, b \in 1..Len(q) :
        a < b /\ IsData(q[a]) /\ IsData(q[b]) => q[a].idx < q[b].idx + ServerWin

FifoLag(q) ==
    \A a, b \in 1..Len(q) : a < b => q[a].idx < q[b].idx + ServerWin

\* The first packet that a (negative) acknowledgement leaves unacknowledged.
AckValue(m) == IF m.kind = "ack" THEN m.idx + 1 ELSE m.idx

AckSorted(q) ==
    \A a, b \in 1..Len(q) :
        a < b /\ ~IsData(q[a]) /\ ~IsData(q[b]) => AckValue(q[a]) <= AckValue(q[b])

QueuePairInv ==
    \A r \in Rank :
        /\ una[r] <= nxt[r] /\ nxt[r] <= hi[r]
        /\ hi[r] <= una[r] + ServerWin /\ hi[r] <= N
        /\ una[r] <= epsn[r]
        /\ \A s \in Rank : epsn[r] <= hi[s]

\* A slot in use holds one contribution of each rank in its bitmap, and these
\* ranks have sent the packet it is used for.
SlotInv ==
    \A c \in Slot :
        LET v == reg_bitmap[c].version
            b == reg_bitmap[c].bitmap
        IN  \/ b = {} /\ v = 0
            \/ /\ b # {}
               /\ v \in Idx /\ SlotOf(v) = c
               /\ \A r \in b : v < hi[r]
               /\ aggregator_array[c].agg0 = {<<r, v>> : r \in b}
               /\ aggregator_array[c].agg1 = {<<r, v>> : r \in b}

\* The slot of packet i has served packet i completely.
Served(i) ==
    /\ Version(i) >= i
    /\ Version(i) = i => Bits(i) = Rank

\* No rank has got, or is about to get, a result more than a server window
\* ahead of packet k.
NotFarBehind(k) ==
    \A s \in Rank :
        /\ epsn[s] <= k + ServerWin
        /\ \A d \in DownData(s) : d.idx < k + ServerWin

\* A data packet on its way up carries the rank's own data, or else the slot
\* knows the rank; and it is not far behind anything the rank has ever sent.
UplinkInv ==
    \A r \in Rank :
        /\ DataFifoLag(uplink[r])
        /\ \A m \in UpData(r) :
             /\ m.idx < hi[r]
             /\ m.d0 = m.d1
             /\ m.d0 = {<<r, m.idx>>} \/ (Version(m.idx) = m.idx /\ r \in Bits(m.idx))
             /\ \A c \in Slot : r \in reg_bitmap[c].bitmap
                  => reg_bitmap[c].version < m.idx + ServerWin
             /\ NotFarBehind(m.idx)

RecirInv ==
    /\ FifoLag(recir)
    /\ \A p \in Range(recir) :
         /\ Version(p.idx) = p.idx
         /\ Bits(p.idx) = Rank
         /\ p.d0 = SumOf(p.idx)
         /\ NotFarBehind(p.idx)

DownlinkInv ==
    \A r \in Rank :
        /\ DataFifoLag(downlink[r])
        /\ \A m \in DownData(r) :
             /\ m.d0 = SumOf(m.idx) /\ m.d1 = SumOf(m.idx)
             /\ Served(m.idx)
             /\ epsn[r] <= m.idx + ServerWin
             /\ \A s \in Rank : m.idx < hi[s]

\* Acknowledgements on their way are in order, at least as new as what the
\* requester knows and not newer than what the responder has.
AckInv ==
    \A r \in Rank :
        /\ AckSorted(downlink[r])
        /\ AckSorted(uplink[r])
        /\ \A d \in DownAcks(r), u \in UpAcks(r) : AckValue(d) <= AckValue(u)
        /\ \A m \in DownAcks(r) \cup UpAcks(r) :
             una[r] <= AckValue(m) /\ AckValue(m) <= epsn[r]

DeliveredInv ==
    \A r \in Rank : \A i \in Idx : i < epsn[r] => Served(i)

\* The inductive invariant.
IInv ==
    /\ TypeOK
    /\ QueuePairInv
    /\ SlotInv
    /\ UplinkInv
    /\ RecirInv
    /\ DownlinkInv
    /\ AckInv
    /\ DeliveredInv
    /\ ResultExact
=============================================================================
