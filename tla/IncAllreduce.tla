---------------------------- MODULE IncAllreduce ----------------------------
(***************************************************************************)
(* One allreduce group at work: the switch of AllreduceSwitch, and per     *)
(* rank one RC queue pair whose peer is the switch.                        *)
(*                                                                         *)
(* A rank's queue pair is connected to the switch's address with its OWN   *)
(* queue pair number (CreateGroup answers "VQP uses the same QPN of QP"),  *)
(* so a rank is at the same time requester and responder of one connection *)
(* that the switch loops back: it sends its data as RDMA WRITEs, the       *)
(* result comes back to it as a WRITE with the same sequence number, and   *)
(* the acknowledgement it sends for that WRITE is turned around by the     *)
(* switch (swap_addr) and acknowledges its own request.  There is no other *)
(* acknowledgement: "request i of r is acknowledged" says that r has the   *)
(* result i, and a rank that waits for a straggler just retransmits.       *)
(*                                                                         *)
(* The queue pair is hardware: requester and responder below are the       *)
(* go-back-N rules of reliable connections, with the attributes that       *)
(* move_qp_to_rts sets.                                                    *)
(***************************************************************************)
EXTENDS AllreduceSwitch

CONSTANTS
    N,          \* packets that every rank reduces
    RetryCnt,   \* attr.retry_cnt
    GiveUp      \* FALSE: only runs in which no retry budget is exhausted

ASSUME NAssumption == N \in Nat
ASSUME RetryAssumption == RetryCnt \in Nat /\ GiveUp \in BOOLEAN

VARIABLES
    buf,        \* rank -> packet -> contents of the registered buffer
    una,        \* requester: oldest unacknowledged packet
    nxt,        \* requester: next packet to transmit
    hi,         \* requester: one more than the newest packet ever sent
    epsn,       \* responder: next packet expected
    retry,      \* requester: retries since the last progress
    qp_error,   \* rank -> its queue pair is in the error state
    uplink,     \* rank -> packets on their way from the rank to the switch
    downlink    \* rank -> packets on their way from the switch to the rank

qpVars == <<una, nxt, hi, epsn, retry, qp_error>>
vars == <<switchVars, buf, qpVars, uplink, downlink>>

Idx == 0..(N - 1)

\* Mutant: the whole switch window is used.
ServerWinFull == W

\* per_qp_server_win_size, in packets: half of the switch's window.
ServerWin == W \div 2

\* What rank r contributes to packet i, and the sum of all contributions.
Own(r, i) == [d0 |-> {<<r, i>>}, d1 |-> {<<r, i>>}]
SumOf(i) == {<<r, i>> : r \in Rank}
Reduced(i) == [d0 |-> SumOf(i), d1 |-> SumOf(i)]

Data(i, v) == [kind |-> "data", idx |-> i, d0 |-> v.d0, d1 |-> v.d1]
Ack(i) == [kind |-> "ack", idx |-> i]
Nak(i) == [kind |-> "nak", idx |-> i]

\* How far sequence number Psn(i) lies ahead of packet base, on the circle.
Ahead(i, base) == (Psn(i) - Psn(base)) % PsnMod

Init ==
    /\ SwitchInit
    /\ buf = [r \in Rank |-> [i \in Idx |-> Own(r, i)]]
    /\ una = [r \in Rank |-> 0]
    /\ nxt = [r \in Rank |-> 0]
    /\ hi = [r \in Rank |-> 0]
    /\ epsn = [r \in Rank |-> 0]
    /\ retry = [r \in Rank |-> 0]
    /\ qp_error = [r \in Rank |-> FALSE]
    /\ uplink = [r \in Rank |-> << >>]
    /\ downlink = [r \in Rank |-> << >>]

-----------------------------------------------------------------------------
(* Requester. *)

\* The next packet is transmitted.  The application posts a packet only while
\* it fits the server window, and the work request's local address is the
\* address the result is written to: a retransmission reads the buffer anew.
Send(r) ==
    /\ ~qp_error[r]
    /\ nxt[r] < N
    /\ nxt[r] < una[r] + ServerWin
    /\ Len(uplink[r]) < QueueCap
    /\ uplink' = [uplink EXCEPT ![r] = Append(@, Data(nxt[r], buf[r][nxt[r]]))]
    /\ nxt' = [nxt EXCEPT ![r] = @ + 1]
    /\ hi' = [hi EXCEPT ![r] = IF @ > nxt[r] THEN @ ELSE nxt[r] + 1]
    /\ UNCHANGED <<switchVars, buf, una, epsn, retry, qp_error, downlink>>

\* A retry that makes no progress uses up the budget; beyond it the queue pair
\* goes to the error state.
Retry(r) ==
    IF ~GiveUp THEN UNCHANGED <<retry, qp_error>>
    ELSE IF retry[r] < RetryCnt
         THEN retry' = [retry EXCEPT ![r] = @ + 1] /\ UNCHANGED qp_error
         ELSE qp_error' = [qp_error EXCEPT ![r] = TRUE] /\ UNCHANGED retry

\* The transport timer fires: go back to the oldest unacknowledged packet.  It
\* may fire although the acknowledgement is on its way, or because another
\* rank has not contributed yet.
Timeout(r) ==
    /\ ~qp_error[r]
    /\ una[r] < nxt[r]
    /\ nxt' = [nxt EXCEPT ![r] = una[r]]
    /\ Retry(r)
    /\ UNCHANGED <<switchVars, buf, una, hi, epsn, uplink, downlink>>

\* Rank r takes a packet of the given kind from its downlink.
Take(r, kind) ==
    /\ ~qp_error[r]
    /\ downlink[r] # << >>
    /\ Head(downlink[r]).kind = kind
    /\ downlink' = [downlink EXCEPT ![r] = Tail(@)]

\* The packet that the acknowledgement at the head of the downlink is for.
AckedPacket(r) == una[r] + Ahead(Head(downlink[r]).idx, una[r])

\* Mutant: a stale acknowledgement is not recognised.
OutstandingAlways(r) == TRUE

\* It is a packet that was sent and not acknowledged.
Outstanding(r) == AckedPacket(r) < hi[r]

\* An acknowledgement of an outstanding packet covers all packets before it.
RecvAck(r) ==
    /\ Take(r, "ack")
    /\ Outstanding(r)
    /\ una' = [una EXCEPT ![r] = AckedPacket(r) + 1]
    /\ nxt' = [nxt EXCEPT ![r] = IF @ > AckedPacket(r) THEN @ ELSE AckedPacket(r) + 1]
    /\ retry' = [retry EXCEPT ![r] = 0]
    /\ UNCHANGED <<switchVars, buf, hi, epsn, qp_error, uplink>>

\* A negative acknowledgement names the packet the responder misses: all
\* packets before it are acknowledged, and transmission restarts from it.
RecvNak(r) ==
    /\ Take(r, "nak")
    /\ Outstanding(r)
    /\ una' = [una EXCEPT ![r] = AckedPacket(r)]
    /\ nxt' = [nxt EXCEPT ![r] = AckedPacket(r)]
    /\ IF AckedPacket(r) > una[r]
       THEN retry' = [retry EXCEPT ![r] = 0] /\ UNCHANGED qp_error
       ELSE Retry(r)
    /\ UNCHANGED <<switchVars, buf, hi, epsn, uplink>>

\* An acknowledgement that matches no outstanding packet is ignored.
RecvStale(r) ==
    /\ Take(r, "ack") \/ Take(r, "nak")
    /\ ~Outstanding(r)
    /\ UNCHANGED <<switchVars, buf, qpVars, uplink>>

-----------------------------------------------------------------------------
(* Responder. *)

\* How far the result at the head of the downlink is ahead of the expected one.
Distance(r) == Ahead(Head(downlink[r]).idx, epsn[r])

\* The result with the expected sequence number is written to the buffer.
RecvExpected(r) ==
    /\ Take(r, "data")
    /\ Distance(r) = 0
    /\ buf' = [buf EXCEPT ![r][epsn[r]] =
                 [d0 |-> Head(downlink[r]).d0, d1 |-> Head(downlink[r]).d1]]
    /\ epsn' = [epsn EXCEPT ![r] = @ + 1]
    /\ uplink' = [uplink EXCEPT ![r] = Enqueue(@, Ack(epsn[r]))]
    /\ UNCHANGED <<switchVars, una, nxt, hi, retry, qp_error>>

\* A result ahead of the expected one (half of the circle) is out of sequence:
\* the responder asks for what it misses.
RecvAhead(r) ==
    /\ Take(r, "data")
    /\ Distance(r) # 0
    /\ 2 * Distance(r) < PsnMod
    /\ uplink' = [uplink EXCEPT ![r] = Enqueue(@, Nak(epsn[r]))]
    /\ UNCHANGED <<switchVars, buf, qpVars>>

\* A result behind it is a duplicate: acknowledged again and not executed.
RecvDuplicate(r) ==
    /\ Take(r, "data")
    /\ Distance(r) # 0
    /\ 2 * Distance(r) >= PsnMod
    /\ uplink' = [uplink EXCEPT ![r] = Enqueue(@, Ack(epsn[r] - 1))]
    /\ UNCHANGED <<switchVars, buf, qpVars>>

\* What rank r does with the packet at the head of its downlink.
Receive(r) ==
    \/ RecvAck(r) \/ RecvNak(r) \/ RecvStale(r)
    \/ RecvExpected(r) \/ RecvAhead(r) \/ RecvDuplicate(r)

-----------------------------------------------------------------------------
(* Switch. *)

\* A data packet of rank r reaches the switch.
SwitchFirstPass(r) ==
    /\ uplink[r] # << >>
    /\ Head(uplink[r]).kind = "data"
    /\ FirstPass([src |-> r, idx |-> Head(uplink[r]).idx,
                  d0 |-> Head(uplink[r]).d0, d1 |-> Head(uplink[r]).d1])
    /\ uplink' = [uplink EXCEPT ![r] = Tail(@)]
    /\ UNCHANGED <<buf, qpVars, downlink>>

\* A recirculated packet is sent to its receivers.
SwitchSecondPass ==
    /\ SecondPass
    /\ downlink' = [r \in Rank |-> IF r \in Receivers
                                   THEN Enqueue(downlink[r], Data(Result.idx, Result))
                                   ELSE downlink[r]]
    /\ UNCHANGED <<buf, qpVars, uplink>>

\* An acknowledgement of rank r is turned around: swap_addr makes r its
\* destination, and the unicast table sends it back on r's port.
SwitchBackward(r) ==
    /\ uplink[r] # << >>
    /\ Head(uplink[r]).kind \in {"ack", "nak"}
    /\ downlink' = [downlink EXCEPT ![r] = Enqueue(@, Head(uplink[r]))]
    /\ uplink' = [uplink EXCEPT ![r] = Tail(@)]
    /\ UNCHANGED <<switchVars, buf, qpVars>>

-----------------------------------------------------------------------------
(* Loss. *)

LoseUp(r) ==
    /\ uplink[r] # << >>
    /\ uplink' = [uplink EXCEPT ![r] = Tail(@)]
    /\ UNCHANGED <<switchVars, buf, qpVars, downlink>>

\* Also what becomes of everything sent to a queue pair in the error state.
LoseDown(r) ==
    /\ downlink[r] # << >>
    /\ downlink' = [downlink EXCEPT ![r] = Tail(@)]
    /\ UNCHANGED <<switchVars, buf, qpVars, uplink>>

LoseRecir ==
    /\ recir # << >>
    /\ recir' = Tail(recir)
    /\ UNCHANGED <<reg_bitmap, aggregator_array, buf, qpVars, uplink, downlink>>

Next ==
    \/ SwitchSecondPass
    \/ LoseRecir
    \/ \E r \in Rank :
         \/ Send(r)
         \/ Timeout(r)
         \/ Receive(r)
         \/ SwitchFirstPass(r)
         \/ SwitchBackward(r)
         \/ LoseUp(r)
         \/ LoseDown(r)

Spec == Init /\ [][Next]_vars

\* Hardware and switch pipelines do not stop: a queue pair that may send
\* sends, a packet at the head of a queue is handled, the transport timer
\* fires while a packet stays unacknowledged.
Fairness ==
    /\ WF_vars(SwitchSecondPass)
    /\ \A r \in Rank :
         /\ WF_vars(Send(r))
         /\ WF_vars(Timeout(r))
         /\ WF_vars(Receive(r))
         /\ WF_vars(SwitchFirstPass(r) \/ SwitchBackward(r))

FairSpec == Spec /\ Fairness

-----------------------------------------------------------------------------
(* Properties. *)

Word == SUBSET ((Rank \X Idx) \cup {Twice})
DataMsg == [kind : {"data"}, idx : Idx, d0 : Word, d1 : Word]
BackMsg == [kind : {"ack", "nak"}, idx : Int]
Msg == DataMsg \cup BackMsg
RecirPkt == [src : Rank, idx : Idx, d0 : Word, d1 : Word, enable_multicast : BOOLEAN]

\* Type invariant.
TypeOK ==
    /\ reg_bitmap \in [Slot -> [version : Nat, bitmap : SUBSET Rank]]
    /\ aggregator_array \in [Slot -> [agg0 : Word, agg1 : Word]]
    /\ recir \in Seq(RecirPkt)
    /\ buf \in [Rank -> [Idx -> [d0 : Word, d1 : Word]]]
    /\ una \in [Rank -> Nat]
    /\ nxt \in [Rank -> Nat]
    /\ hi \in [Rank -> Nat]
    /\ epsn \in [Rank -> Nat]
    /\ retry \in [Rank -> 0..RetryCnt]
    /\ qp_error \in [Rank -> BOOLEAN]
    /\ uplink \in [Rank -> Seq(Msg)]
    /\ downlink \in [Rank -> Seq(Msg)]

\* Every result a rank has accepted is the sum in which each rank's
\* contribution to exactly that packet occurs exactly once, in the even and in
\* the odd words, whatever was lost, repeated or delayed; what has no result
\* yet is still the rank's own data.  (The even words come from the first pass,
\* the odd ones from the second; the buffer is reduced in place.)
ResultExact ==
    \A r \in Rank : \A i \in Idx :
        buf[r][i] = IF i < epsn[r] THEN Reduced(i) ELSE Own(r, i)

\* A packet that waits for its second pass still finds its own complete sum in
\* the slot: no newer packet has claimed the slot meanwhile.
RecirculatedSlotHeld ==
    \A j \in 1..Len(recir) :
        /\ reg_bitmap[SlotOf(recir[j].idx)].version = recir[j].idx
        /\ reg_bitmap[SlotOf(recir[j].idx)].bitmap = Rank

\* Nobody sends a packet into the slot of a packet that another rank may still
\* retransmit.  This is what halving the server window buys: a rank may be a
\* window ahead of its own acknowledgements and another one behind its peers.
SlotNotReclaimed ==
    \A r, s \in Rank : hi[r] <= una[s] + W

\* The buffer is reduced in place, so a retransmission of a packet whose result
\* has arrived carries the sum instead of the rank's data.  Such a packet never
\* counts: the slot still knows the rank's bit.
ReducedDataNeverCounts ==
    \A r \in Rank : \A j \in 1..Len(uplink[r]) :
        LET m == uplink[r][j]
        IN  m.kind = "data" /\ m.d0 # Own(r, m.idx).d0 =>
              /\ reg_bitmap[SlotOf(m.idx)].version = m.idx
              /\ r \in reg_bitmap[SlotOf(m.idx)].bitmap

\* A send completion means that the rank has its result: acknowledgements are
\* the rank's own, turned around by the switch, also across the wrap of the
\* sequence numbers.
CompletionMeansResult ==
    \A r \in Rank : una[r] <= epsn[r] /\ \A s \in Rank : epsn[r] <= hi[s]

\* The protocol implements the abstract allreduce.
Abstract ==
    INSTANCE AllreduceSpec
      WITH offered <- hi,
           out <- [r \in Rank |-> [j \in 1..epsn[r] |-> buf[r][j - 1]]]

ImplementsAllreduce == Abstract!SafeSpec

\* Nothing of rank r's is on its way.
Quiet(r) ==
    /\ uplink[r] = << >>
    /\ downlink[r] = << >>
    /\ \A j \in 1..Len(recir) : recir[j].src # r

\* A step without loss and without a transport timer that fires too early.
Faultless ==
    \/ SwitchSecondPass
    \/ \E r \in Rank :
         \/ Send(r)
         \/ Timeout(r) /\ Quiet(r)
         \/ Receive(r)
         \/ SwitchFirstPass(r) \/ SwitchBackward(r)

\* If the faults come to an end, every rank completes all its packets: no loss,
\* wherever it hits, leaves a rank behind that nobody can serve any more.
Completes ==
    <>[][Faultless]_vars => <>(\A r \in Rank : una[r] = N)
=============================================================================
