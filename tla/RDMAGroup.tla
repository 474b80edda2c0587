----------------------------- MODULE RDMAGroup -----------------------------
(***************************************************************************)
(* The server library (RDMAGroup of rdma_group.cpp): allreduce cuts a      *)
(* buffer into blocks and these into one message per queue pair, keeps at  *)
(* most a server window of each queue pair in flight, and returns when     *)
(* every message has completed.                                            *)
(*                                                                         *)
(* What the queue pairs and the switch do is taken from IncAllreduce: the  *)
(* messages of a queue pair complete in order, and a message completes     *)
(* once every rank has posted the message with the same number.  That the  *)
(* switch adds up what belongs together rests on the ranks putting the     *)
(* same piece of the buffer into the message with the same number: the     *)
(* switch sees sequence numbers, never addresses.                          *)
(*                                                                         *)
(* rx_depth is left out: with RDMA WRITEs without notification no receive  *)
(* is posted, and it stays 0.                                              *)
(***************************************************************************)
EXTENDS Integers, Sequences, SequencesExt

CONSTANTS
    Rank,         \* the members of the group
    Calls,        \* sizes in bytes of the successive allreduce calls
    Mtu,          \* mtu_size_, bytes of a packet
    Block,        \* per_qp_block_size, in packets
    SwitchWin,    \* per_qp_switch_win_size, in packets
    QueueDepth,   \* queue_depth
    Threshold,    \* bytes from which on two queue pairs are used
    GiveUp        \* the ranks whose queue pairs may exhaust their retries

\* What the constructor checks.
ASSUME ConfigAssumption ==
    /\ Mtu \in Nat \ {0} /\ Block \in Nat \ {0} /\ SwitchWin \in Nat \ {0}
    /\ QueueDepth \in Nat \ {0} /\ Threshold \in Nat /\ GiveUp \subseteq Rank
    /\ Calls \in Seq(Nat)
    /\ Block * 2 <= SwitchWin \div 2

VARIABLES
    pc,         \* rank -> "out" of allreduce, at "push" or at "poll"
    call,       \* rank -> number of the call it is in, or was in last
    scnt,       \* rank -> blocks posted in this call
    tx_depth,   \* rank -> queue pair -> messages posted and not polled
    posted,     \* rank -> queue pair -> all messages ever posted
    done,       \* rank -> queue pair -> how many of them have a completion
    polled,     \* rank -> queue pair -> how many completions were polled
    failed      \* rank -> queue pair -> its state when it went to error

vars == <<pc, call, scnt, tx_depth, posted, done, polled, failed>>

QP == 0..1
NotFailed == [ok |-> -1, sent |-> -1]

-----------------------------------------------------------------------------
(* The layout of call c. *)

\* per_qp_server_win_size_
ServerWin == SwitchWin \div 2

\* padded_size, in packets.
Packets(c) == (Calls[c] + Mtu - 1) \div Mtu

QpNum(c) == IF Packets(c) * Mtu >= Threshold THEN 2 ELSE 1

MergedBlock(c) == QpNum(c) * Block

TotalBlocks(c) == (Packets(c) + MergedBlock(c) - 1) \div MergedBlock(c)

\* Mutant: the limit is on the bytes of all queue pairs, not of each.
MaxQueueSizeOfTwo ==
    LET n == (2 * ServerWin) \div Block
    IN  IF QueueDepth < n THEN QueueDepth ELSE n

\* max_qsize
MaxQueueSize ==
    LET n == ServerWin \div Block
    IN  IF QueueDepth < n THEN QueueDepth ELSE n

\* sub_msg_size
BlockSize(c, k) ==
    LET left == Packets(c) - k * MergedBlock(c)
    IN  IF MergedBlock(c) < left THEN MergedBlock(c) ELSE left

\* sub_size: the packets of a block of n packets that queue pair q gets.
SubSize(n, qps, q) == n \div qps + (IF q < n % qps THEN 1 ELSE 0)

\* post_message_to_qps: the message of block k on queue pair q.
Message(c, k, q) ==
    LET n == BlockSize(c, k)
        before == IF q = 0 THEN 0 ELSE SubSize(n, QpNum(c), 0)
    IN  [call |-> c, first |-> k * MergedBlock(c) + before,
         len |-> SubSize(n, QpNum(c), q)]

Init ==
    /\ pc = [r \in Rank |-> "out"]
    /\ call = [r \in Rank |-> 0]
    /\ scnt = [r \in Rank |-> 0]
    /\ tx_depth = [r \in Rank |-> [q \in QP |-> 0]]
    /\ posted = [r \in Rank |-> [q \in QP |-> << >>]]
    /\ done = [r \in Rank |-> [q \in QP |-> 0]]
    /\ polled = [r \in Rank |-> [q \in QP |-> 0]]
    /\ failed = [r \in Rank |-> [q \in QP |-> NotFailed]]

-----------------------------------------------------------------------------
(* allreduce *)

\* The application calls allreduce; the sizes are the same on all ranks.
Enter(r) ==
    /\ pc[r] = "out"
    /\ call[r] < Len(Calls)
    /\ pc' = [pc EXCEPT ![r] = "push"]
    /\ call' = [call EXCEPT ![r] = @ + 1]
    /\ scnt' = [scnt EXCEPT ![r] = 0]
    /\ tx_depth' = [tx_depth EXCEPT ![r] = [q \in QP |-> 0]]
    /\ UNCHANGED <<posted, done, polled, failed>>

CurrentDepth(r) ==
    IF tx_depth[r][0] > tx_depth[r][1] THEN tx_depth[r][0] ELSE tx_depth[r][1]

\* Mutant: the loop ends when all blocks are posted.
AllDoneUnpolled(r) == scnt[r] = TotalBlocks(call[r])

AllDone(r) == scnt[r] = TotalBlocks(call[r]) /\ CurrentDepth(r) = 0

\* push_cnt
PushCount(r) ==
    LET room == MaxQueueSize - CurrentDepth(r)
        left == TotalBlocks(call[r]) - scnt[r]
    IN  IF room < left THEN room ELSE left

\* Mutant: the offset is taken from the completions of the queue pair.
NextMessagesByCompletions(r, q, n) ==
    [j \in 1..n |-> Message(call[r], scnt[r] - tx_depth[r][q] + j - 1, q)]

\* The messages for queue pair q of the next n blocks.
NextMessages(r, q, n) == [j \in 1..n |-> Message(call[r], scnt[r] + j - 1, q)]

\* One turn of the loop, up to poll_cqs: the blocks that fit are posted.
Push(r) ==
    LET n == PushCount(r)
        used == 0..(QpNum(call[r]) - 1)
    IN  /\ pc[r] = "push"
        /\ ~AllDone(r)
        /\ posted' = [posted EXCEPT ![r] =
             [q \in QP |-> IF q \in used
                           THEN @[q] \o NextMessages(r, q, n)
                           ELSE @[q]]]
        /\ tx_depth' = [tx_depth EXCEPT ![r] =
             [q \in QP |-> IF q \in used THEN @[q] + n ELSE @[q]]]
        /\ scnt' = [scnt EXCEPT ![r] = @ + n]
        /\ pc' = [pc EXCEPT ![r] = "poll"]
        /\ UNCHANGED <<call, done, polled, failed>>

\* Mutant: only the first queue pair is polled.
PolledNowFirst(r, q) == IF q = 0 /\ polled[r][q] < done[r][q] THEN 1 ELSE 0

\* The completions that poll_cq takes.
PolledNow(r, q) == IF q < QpNum(call[r]) /\ polled[r][q] < done[r][q] THEN 1 ELSE 0

\* poll_cqs: at most one completion of each queue pair in use is taken, and
\* its status is not looked at.
Poll(r) ==
    /\ pc[r] = "poll"
    /\ tx_depth' = [tx_depth EXCEPT ![r] = [q \in QP |-> @[q] - PolledNow(r, q)]]
    /\ polled' = [polled EXCEPT ![r] = [q \in QP |-> @[q] + PolledNow(r, q)]]
    /\ pc' = [pc EXCEPT ![r] = "push"]
    /\ UNCHANGED <<call, scnt, posted, done, failed>>

Return(r) ==
    /\ pc[r] = "push"
    /\ AllDone(r)
    /\ pc' = [pc EXCEPT ![r] = "out"]
    /\ UNCHANGED <<call, scnt, tx_depth, posted, done, polled, failed>>

-----------------------------------------------------------------------------
(* Queue pairs and switch. *)

\* The messages of queue pair q that rank s has put on the wire.
Sent(s, q) == IF failed[s][q] = NotFailed THEN Len(posted[s][q]) ELSE failed[s][q].sent

\* The oldest message of queue pair q completes: every rank has sent its own.
\* The switch does not aggregate a packet without payload, and answers none.
Complete(r, q) ==
    LET k == done[r][q] + 1
    IN  /\ failed[r][q] = NotFailed
        /\ k <= Len(posted[r][q])
        /\ posted[r][q][k].len > 0
        /\ \A s \in Rank : k <= Sent(s, q)
        /\ done' = [done EXCEPT ![r][q] = k]
        /\ UNCHANGED <<pc, call, scnt, tx_depth, posted, polled, failed>>

\* The retries are exhausted: the queue pair goes to the error state.
Fail(r, q) ==
    /\ r \in GiveUp
    /\ failed[r][q] = NotFailed
    /\ done[r][q] < Len(posted[r][q])
    /\ failed' = [failed EXCEPT ![r][q] =
                    [ok |-> done[r][q], sent |-> Len(posted[r][q])]]
    /\ UNCHANGED <<pc, call, scnt, tx_depth, posted, done, polled>>

\* What is posted on a queue pair in the error state is flushed: it completes
\* with an error status.
Flush(r, q) ==
    /\ failed[r][q] # NotFailed
    /\ done[r][q] < Len(posted[r][q])
    /\ done' = [done EXCEPT ![r][q] = @ + 1]
    /\ UNCHANGED <<pc, call, scnt, tx_depth, posted, polled, failed>>

Finished == \A r \in Rank : pc[r] = "out" /\ call[r] = Len(Calls)

Next ==
    \/ \E r \in Rank : Enter(r) \/ Push(r) \/ Poll(r) \/ Return(r)
    \/ \E r \in Rank, q \in QP : Complete(r, q) \/ Fail(r, q) \/ Flush(r, q)

Spec == Init /\ [][Next]_vars

\* The calling threads run, and so do the network cards and the switch.
Fairness ==
    /\ \A r \in Rank : WF_vars(Enter(r) \/ Push(r) \/ Poll(r) \/ Return(r))
    /\ \A r \in Rank, q \in QP : WF_vars(Complete(r, q) \/ Flush(r, q))

FairSpec == Spec /\ Fairness

-----------------------------------------------------------------------------
(* Properties. *)

\* Type invariant.
TypeOK ==
    /\ pc \in [Rank -> {"out", "push", "poll"}]
    /\ call \in [Rank -> 0..Len(Calls)]
    /\ scnt \in [Rank -> Nat]
    /\ tx_depth \in [Rank -> [QP -> 0..MaxQueueSize]]
    /\ \A r \in Rank, q \in QP :
         /\ polled[r][q] <= done[r][q]
         /\ done[r][q] <= Len(posted[r][q])

\* The messages of queue pair q that rank r has posted and not seen complete.
InFlight(r, q) == (polled[r][q] + 1)..Len(posted[r][q])

\* Flow control: no queue pair ever has more than the server window in flight,
\* which is what the switch protocol relies on (Send of IncAllreduce): its
\* messages are of at most a block each, and so many blocks fit the window.
\* Neither its send queue nor its completion queue overflows.  The depth that
\* the loop works with is counted per call; it must agree with the queues
\* across calls that use one and two queue pairs.
WindowRespected ==
    /\ TypeOK
    /\ \A r \in Rank, q \in QP :
        /\ \A k \in InFlight(r, q) : posted[r][q][k].len <= Block
        /\ (Len(posted[r][q]) - polled[r][q]) * Block <= ServerWin
        /\ Len(posted[r][q]) - polled[r][q] <= QueueDepth
        /\ pc[r] # "out" => tx_depth[r][q] = Len(posted[r][q]) - polled[r][q]

\* The message with the same number carries the same piece of the same buffer
\* on all ranks, although each posts at the pace of its own completions.
SameNumberSamePiece ==
    \A r, s \in Rank, q \in QP :
        \/ IsPrefix(posted[r][q], posted[s][q])
        \/ IsPrefix(posted[s][q], posted[r][q])

\* The messages of call c that complete successfully, on rank r.
Succeeded(r, c) ==
    UNION {{posted[r][q][k] : k \in {k \in 1..done[r][q] :
              /\ posted[r][q][k].call = c
              /\ failed[r][q] # NotFailed => k <= failed[r][q].ok}} : q \in QP}

\* Every packet of call c's buffer is in exactly one message of rank r that
\* has completed without error.
Reduced(r, c) ==
    \A p \in 0..(Packets(c) - 1) :
      \E m \in Succeeded(r, c) :
         /\ m.first <= p /\ p < m.first + m.len
         /\ \A o \in Succeeded(r, c) \ {m} : p < o.first \/ o.first + o.len <= p

Returned(r) == {c \in 1..Len(Calls) : c < call[r] \/ (c = call[r] /\ pc[r] = "out")}

\* When allreduce returns, the whole buffer was reduced.
ReturnMeansReduced == \A r \in Rank : \A c \in Returned(r) : Reduced(r, c)

\* The same for a rank whose own queue pairs are in order: a queue pair of
\* another rank that gives up, before or after its messages were added up,
\* never makes this rank return a buffer that was not reduced.
HealthyReturnReduced ==
    \A r \in Rank : (\A q \in QP : failed[r][q] = NotFailed) =>
        \A c \in Returned(r) : Reduced(r, c)

\* Unless a queue pair gives up, every rank returns from every call: the ranks
\* never wait for each other in a circle, whichever of them is ahead on
\* whichever queue pair.
AllReturn == [](\A r \in Rank, q \in QP : failed[r][q] = NotFailed) => <>Finished
=============================================================================
