---------------------------- MODULE GroupLifetime ----------------------------
(***************************************************************************)
(* The life of an RDMAGroup object (rdma_group.cpp) on every rank of       *)
(* several jobs that share one switch controller: the ranks meet at rank   *)
(* 0, rank 0 requests one switch group per queue pair and hands out the    *)
(* addresses, all ranks call allreduce, and each destroys its object when  *)
(* it is done.  There is no barrier after the addresses are known, and     *)
(* none before rank 0 returns the groups.                                  *)
(*                                                                         *)
(* A call puts one message on each queue pair it uses (RDMAGroup cuts it   *)
(* into several) and IncAllreduce is reduced to: the switch answers a      *)
(* message when all ranks have sent theirs, to all ranks, and answers a    *)
(* retransmission of it to its sender.  Any answer may be lost; a queue    *)
(* pair that gets none gives up, if it was ever ready to send.             *)
(***************************************************************************)
EXTENDS Integers, Sequences, FiniteSets, SequencesExt

CONSTANTS
    Job,          \* the jobs that use the switch
    WorldSize,    \* job -> number of its ranks
    GroupIds,     \* the sequence of group numbers of the controller
    Calls,        \* job -> the queue pairs of its successive allreduce calls
    RpcFaults     \* how many RPCs fail

ASSUME LifetimeAssumption ==
    /\ WorldSize \in [Job -> Nat \ {0}] /\ RpcFaults \in Nat
    /\ GroupIds \in Seq(Nat \ {0}) /\ IsInjective(GroupIds)
    /\ Calls \in [Job -> Seq(SUBSET (0..1))]

QP == 0..1
Rank(j) == 0..(WorldSize[j] - 1)
Client(j) == Rank(j) \ {0}
NullGroup == 0      \* GroupID of the reply to a refused request

VARIABLES
    free_group,   \* controller: unused group numbers, first come first served
    undo,         \* controller: group number -> the job and queue pair it is for
    pc,           \* job -> rank -> where its process is
    group_ids,    \* job -> group_ids_ of rank 0
    good,         \* job -> rank -> queue pairs it has the right address for
    rts,          \* job -> rank -> queue pairs that are ready to send
    call,         \* job -> rank -> allreduce calls entered
    posted,       \* job -> rank -> queue pair -> messages posted
    done,         \* job -> rank -> queue pair -> messages completed
    failed,       \* job -> rank -> queue pairs in the error state
    arrived,      \* job -> queue pair -> ranks whose current message is counted
    reduced,      \* job -> queue pair -> messages reduced
    lost,         \* job -> an RPC of it failed
    faults        \* RPCs that have failed

controller == <<free_group, undo>>
network == <<arrived, reduced>>
vars == <<free_group, undo, pc, group_ids, good, rts, call, posted, done, failed,
          arrived, reduced, lost, faults>>

\* The places of a process: start, listen (rank 0), wait (clients, for the
\* addresses), create (rank 0, in the loop over the queue pairs), connect
\* (about to connect its queue pairs), out (of allreduce), in (allreduce),
\* leave (rank 0, in return_groups), gone, dead (ended by an exception or a
\* crash).
Places == {"start", "listen", "wait", "create", "connect", "out", "in",
           "leave", "gone", "dead"}

\* Group number of queue pair q of job j in the switch exists.
HasGroup(j, q) == \E g \in DOMAIN undo : undo[g] = <<j, q>>

PerRank(x) == [j \in Job |-> [r \in Rank(j) |-> x]]
PerQP(x) == [j \in Job |-> [q \in QP |-> x]]

Init ==
    /\ free_group = GroupIds
    /\ undo = << >>
    /\ pc = PerRank("start")
    /\ group_ids = [j \in Job |-> << >>]
    /\ good = PerRank({})
    /\ rts = PerRank({})
    /\ call = PerRank(0)
    /\ posted = PerRank([q \in QP |-> 0])
    /\ done = PerRank([q \in QP |-> 0])
    /\ failed = PerRank({})
    /\ arrived = PerQP({})
    /\ reduced = PerQP(0)
    /\ lost = [j \in Job |-> FALSE]
    /\ faults = 0

Goto(j, r, place) == pc' = [pc EXCEPT ![j][r] = place]

-----------------------------------------------------------------------------
(* exchange_info_socket *)

\* Rank 0 listens.
Listen(j) ==
    /\ pc[j][0] = "start"
    /\ Goto(j, 0, "listen")
    /\ UNCHANGED <<controller, network, group_ids, good, rts, call, posted, done,
                   failed, lost, faults>>

\* A client connects (it retries until somebody listens) and writes its rank
\* and address.  The kernel accepts on behalf of the listener.
Connect(j, r) ==
    /\ pc[j][r] = "start"
    /\ pc[j][0] = "listen"
    /\ Goto(j, r, "wait")
    /\ UNCHANGED <<controller, network, group_ids, good, rts, call, posted, done,
                   failed, lost, faults>>

\* The accept loop is through.
Accept(j) ==
    /\ pc[j][0] = "listen"
    /\ \A r \in Client(j) : pc[j][r] = "wait"
    /\ Goto(j, 0, "create")
    /\ UNCHANGED <<controller, network, group_ids, good, rts, call, posted, done,
                   failed, lost, faults>>

\* CreateGroup in the controller, for queue pair q of job j (GroupController
\* has the details): the first unused number, or the NULL group.
Granted == free_group # << >>

Create(j, q) ==
    /\ Granted
    /\ undo' = [g \in DOMAIN undo \cup {Head(free_group)} |->
                    IF g = Head(free_group) THEN <<j, q>> ELSE undo[g]]
    /\ free_group' = Tail(free_group)

\* The queue pair of the request rank 0 makes next.
NextQP(j) == Len(group_ids[j])

\* Mutant: the addresses are sent once the first group is there.
AllCreatedOne(j) == NextQP(j) >= 1

AllCreated(j) == NextQP(j) = Cardinality(QP)

\* Mutant: only the last group number is kept.
RememberLast(ids, id) == [i \in 1..(Len(ids) + 1) |-> id]

\* group_ids_.push_back
Remember(ids, id) == Append(ids, id)

\* The RPC is answered, with a group.
CreateGroup(j) ==
    /\ pc[j][0] = "create"
    /\ ~AllCreated(j)
    /\ Create(j, NextQP(j))
    /\ group_ids' = [group_ids EXCEPT ![j] = Remember(@, Head(free_group))]
    /\ good' = [good EXCEPT ![j][0] = @ \cup {NextQP(j)}]
    /\ UNCHANGED <<network, pc, rts, call, posted, done, failed, lost, faults>>

\* The RPC is answered with the NULL group.  Only the status of the RPC is
\* tested, so the members of the empty reply are read: rank 0 dies of it, or
\* goes on with an address that is none.  The queue pairs share the IP of the
\* last reply: those of earlier replies lose theirs.
CreateRefused(j) ==
    /\ pc[j][0] = "create"
    /\ ~AllCreated(j)
    /\ ~Granted
    /\ \/ Goto(j, 0, "dead") /\ UNCHANGED <<group_ids, good>>
       \/ /\ group_ids' = [group_ids EXCEPT ![j] = Remember(@, NullGroup)]
          /\ good' = [good EXCEPT ![j][0] = {}]
          /\ UNCHANGED pc
    /\ UNCHANGED <<controller, network, rts, call, posted, done, failed, lost, faults>>

\* The RPC fails, before or after the controller did its part; the exception
\* leaves the constructor, so the destructor does not run.
CreateFails(j) ==
    /\ pc[j][0] = "create"
    /\ ~AllCreated(j)
    /\ faults < RpcFaults
    /\ UNCHANGED controller \/ Create(j, NextQP(j))
    /\ faults' = faults + 1
    /\ lost' = [lost EXCEPT ![j] = TRUE]
    /\ Goto(j, 0, "dead")
    /\ UNCHANGED <<network, group_ids, good, rts, call, posted, done, failed>>

\* Rank 0 writes the addresses to the clients and closes the connections.
Scatter(j) ==
    /\ pc[j][0] = "create"
    /\ AllCreated(j)
    /\ Goto(j, 0, "connect")
    /\ UNCHANGED <<controller, network, group_ids, good, rts, call, posted, done,
                   failed, lost, faults>>

\* Mutant: a short read is repeated.
HungUpNever(j) == FALSE

\* The process of rank 0 has ended: the connections of the clients are closed.
HungUp(j) == pc[j][0] = "dead"

\* A client reads the addresses.  The length of the read is not tested: from
\* a closed connection it gets zeros, an address that is none.
ReadAddresses(j, r) ==
    /\ pc[j][r] = "wait"
    /\ \/ /\ pc[j][0] \notin {"listen", "create", "dead"}
          /\ good' = [good EXCEPT ![j][r] = good[j][0]]
       \/ HungUp(j) /\ UNCHANGED good
    /\ Goto(j, r, "connect")
    /\ UNCHANGED <<controller, network, group_ids, rts, call, posted, done, failed,
                   lost, faults>>

\* modify_qp_to_rts for all queue pairs.  The results of ibv_modify_qp are not
\* looked at: a queue pair for which one fails stays in the state it was in.
ModifyQPs(j, r) ==
    /\ pc[j][r] = "connect"
    /\ \E ready \in SUBSET QP : rts' = [rts EXCEPT ![j][r] = ready]
    /\ Goto(j, r, "out")
    /\ UNCHANGED <<controller, network, group_ids, good, call, posted, done,
                   failed, lost, faults>>

-----------------------------------------------------------------------------
(* allreduce *)

\* Posts the messages of the next call; a failed queue pair flushes them.  One
\* that is not ready to send refuses them (ibv_post_send), but they are counted
\* all the same.
Enter(j, r) ==
    /\ pc[j][r] = "out"
    /\ call[j][r] < Len(Calls[j])
    /\ LET used == Calls[j][call[j][r] + 1]
       IN  /\ posted' = [posted EXCEPT ![j][r] =
                 [q \in QP |-> @[q] + (IF q \in used THEN 1 ELSE 0)]]
           /\ done' = [done EXCEPT ![j][r] =
                 [q \in QP |-> IF q \in failed[j][r] THEN posted'[j][r][q] ELSE @[q]]]
    /\ call' = [call EXCEPT ![j][r] = @ + 1]
    /\ Goto(j, r, "in")
    /\ UNCHANGED <<controller, network, group_ids, good, rts, failed, lost, faults>>

Outstanding(j, r, q) ==
    pc[j][r] = "in" /\ posted[j][r][q] > done[j][r][q]

\* Nobody will send, answer or give up the message that the rank waits for.
Stuck(j, r) == \E q \in QP \ rts[j][r] : Outstanding(j, r, q)

\* Mutant: the switch answers once another rank's message is there.
CompletesTwo(j, q, ranks) == Cardinality(ranks) >= WorldSize[j] - 1

\* The bitmap of the slot is full.
Completes(j, q, ranks) == ranks = Rank(j)

\* The ranks in to get the answer to their message on queue pair q.
Answered(j, q, to) ==
    done' = [done EXCEPT ![j] = [r \in Rank(j) |->
        IF r \in to /\ Outstanding(j, r, q)
        THEN [@[r] EXCEPT ![q] = posted[j][r][q]] ELSE @[r]]]

\* The message, or a retransmission of it, reaches the switch.  It is looked
\* up by its address and queue pair; a packet without a group is dropped.
\* The last one of a sum is answered to all ranks, and some of the answers
\* may be lost; a retransmission of a reduced one is answered to its sender
\* (when that answer is lost, nothing happens).
Arrive(j, r, q) ==
    /\ Outstanding(j, r, q)
    /\ q \in rts[j][r]
    /\ q \in good[j][r]
    /\ HasGroup(j, q)
    /\ LET ranks == arrived[j][q] \cup {r}
       IN  \/ /\ reduced[j][q] >= posted[j][r][q]
              /\ Answered(j, q, {r})
              /\ UNCHANGED network
           \/ /\ reduced[j][q] < posted[j][r][q]
              /\ Completes(j, q, ranks)
              /\ arrived' = [arrived EXCEPT ![j][q] = {}]
              /\ reduced' = [reduced EXCEPT ![j][q] = @ + 1]
              /\ \E to \in SUBSET Rank(j) : Answered(j, q, to)
           \/ /\ reduced[j][q] < posted[j][r][q]
              /\ ~Completes(j, q, ranks)
              /\ arrived' = [arrived EXCEPT ![j][q] = ranks]
              /\ UNCHANGED <<reduced, done>>
    /\ UNCHANGED <<controller, pc, group_ids, good, rts, call, posted, failed,
                   lost, faults>>

\* retry_cnt retransmissions were not answered: the queue pair goes to error
\* and flushes its messages, which poll_cq counts as completed.
GiveUp(j, r, q) ==
    /\ Outstanding(j, r, q)
    /\ q \in rts[j][r]
    /\ failed' = [failed EXCEPT ![j][r] = @ \cup {q}]
    /\ done' = [done EXCEPT ![j][r][q] = posted[j][r][q]]
    /\ UNCHANGED <<controller, network, pc, group_ids, good, rts, call, posted,
                   lost, faults>>

\* Mutant: only the first queue pair is polled.
CompletedFirst(j, r) == done[j][r][0] = posted[j][r][0]

\* current_depth is 0.
Completed(j, r) == done[j][r] = posted[j][r]

Return(j, r) ==
    /\ pc[j][r] = "in"
    /\ Completed(j, r)
    /\ Goto(j, r, "out")
    /\ UNCHANGED <<controller, network, group_ids, good, rts, call, posted, done,
                   failed, lost, faults>>

-----------------------------------------------------------------------------
(* The destructor. *)

\* The application destroys the object after its last call.  A client has no
\* stub: return_groups returns at once, and its queue pairs are destroyed.
Destruct(j, r) ==
    /\ pc[j][r] = "out"
    /\ call[j][r] = Len(Calls[j])
    /\ Goto(j, r, IF r = 0 THEN "leave" ELSE "gone")
    /\ failed' = [failed EXCEPT ![j][r] = IF r = 0 THEN @ ELSE {}]
    /\ UNCHANGED <<controller, network, group_ids, good, rts, call, posted, done,
                   lost, faults>>

\* DestroyGroup in the controller; an unknown number is ignored.
Destroy(id) ==
    IF id \in DOMAIN undo
    THEN /\ undo' = [g \in DOMAIN undo \ {id} |-> undo[g]]
         /\ free_group' = Append(free_group, id)
    ELSE UNCHANGED controller

\* Mutant: the number is kept until the RPC has succeeded.
RemainingRetried(j, ok) == IF ok THEN Tail(group_ids[j]) ELSE group_ids[j]

\* return_groups: what is left of the list after one RPC.
Remaining(j, ok) == Tail(group_ids[j])

ReturnGroup(j) ==
    /\ pc[j][0] = "leave"
    /\ group_ids[j] # << >>
    /\ Destroy(Head(group_ids[j]))
    /\ group_ids' = [group_ids EXCEPT ![j] = Remaining(j, TRUE)]
    /\ UNCHANGED <<network, pc, good, rts, call, posted, done, failed, lost, faults>>

\* The RPC fails, before or after the controller did its part; its status is
\* not looked at.
ReturnFails(j) ==
    /\ pc[j][0] = "leave"
    /\ group_ids[j] # << >>
    /\ faults < RpcFaults
    /\ UNCHANGED controller \/ Destroy(Head(group_ids[j]))
    /\ faults' = faults + 1
    /\ lost' = [lost EXCEPT ![j] = TRUE]
    /\ group_ids' = [group_ids EXCEPT ![j] = Remaining(j, FALSE)]
    /\ UNCHANGED <<network, pc, good, rts, call, posted, done, failed>>

\* The queue pairs are destroyed and the process ends.
Leave(j) ==
    /\ pc[j][0] = "leave"
    /\ group_ids[j] = << >>
    /\ Goto(j, 0, "gone")
    /\ failed' = [failed EXCEPT ![j][0] = {}]
    /\ UNCHANGED <<controller, network, group_ids, good, rts, call, posted, done,
                   lost, faults>>

-----------------------------------------------------------------------------
Ended(j, r) == pc[j][r] \in {"gone", "dead"}

Hub(j) ==
    \/ Listen(j) \/ Accept(j) \/ CreateGroup(j) \/ CreateRefused(j)
    \/ Scatter(j) \/ ReturnGroup(j) \/ Leave(j)

Member(j, r) ==
    \/ ModifyQPs(j, r) \/ Enter(j, r) \/ Return(j, r) \/ Destruct(j, r)

Next ==
    \E j \in Job :
        \/ Hub(j) \/ CreateFails(j) \/ ReturnFails(j)
        \/ \E r \in Rank(j) :
              Member(j, r) \/ \E q \in QP : Arrive(j, r, q) \/ GiveUp(j, r, q)
        \/ \E r \in Client(j) : Connect(j, r) \/ ReadAddresses(j, r)

Spec == Init /\ [][Next]_vars

\* The processes run, and a queue pair that was ready to send and whose message
\* is not answered gives up after retry_cnt timeouts.  Nothing is assumed of the
\* network.
Fairness ==
    \A j \in Job :
        /\ WF_vars(Hub(j))
        /\ \A r \in Rank(j) :
              WF_vars(Member(j, r)) /\ \A q \in QP : WF_vars(GiveUp(j, r, q))
        /\ \A r \in Client(j) : WF_vars(Connect(j, r)) /\ WF_vars(ReadAddresses(j, r))

FairSpec == Spec /\ Fairness

-----------------------------------------------------------------------------
(* Properties. *)

\* Everything has its type; every group number is either unused or stands for
\* one queue pair of one job (free_group and undo of the controller).
TypeOK ==
    /\ ToSet(free_group) \cup DOMAIN undo = ToSet(GroupIds)
    /\ IsInjective(free_group)
    /\ ToSet(free_group) \cap DOMAIN undo = {}
    /\ \A g \in DOMAIN undo : undo[g] \in Job \X QP
    /\ \A j \in Job : \A r \in Rank(j) :
          /\ pc[j][r] \in Places
          /\ good[j][r] \subseteq QP
          /\ rts[j][r] \subseteq QP
          /\ call[j][r] \in 0..Len(Calls[j])
          /\ failed[j][r] \subseteq QP
          /\ \A q \in QP : 0 <= done[j][r][q] /\ done[j][r][q] <= posted[j][r][q]
    /\ \A j \in Job, q \in QP :
          arrived[j][q] \subseteq Rank(j) /\ reduced[j][q] \in Nat

\* Whoever posts a message on a queue pair of a job that got its groups can
\* rely on them: every rank has the address, and the switch has the group,
\* from the first message on and until rank 0 enters its destructor.  There is
\* no barrier between exchange_info_socket and the first allreduce.
MessageHasGroup ==
    /\ TypeOK
    /\ \A j \in Job : \A r \in Rank(j), q \in QP :
        /\ Outstanding(j, r, q)
        /\ pc[j][0] \in {"connect", "out", "in"}
        /\ NullGroup \notin ToSet(group_ids[j])
        => q \in good[j][r] /\ HasGroup(j, q)

\* A result is never sent to a rank that has not connected this queue pair
\* yet, or has failed to (modify_qp_to_rts), though nothing makes the others
\* wait for it.
ResultsReachConnected ==
    [][\A j \in Job, q \in QP : reduced'[j][q] # reduced[j][q] =>
            \A r \in Rank(j) :
                pc[j][r] \in {"out", "in", "leave", "gone"} /\ q \in rts[j][r]]_vars

\* When rank 0 returns the groups (return_groups), and none of its own queue
\* pairs has failed, every rank has posted all its messages and the switch has
\* reduced them: no rank's data is left out of a sum, though ranks that have
\* lost their last result are no longer served.
DestroyedWhenReduced ==
    \A j \in Job :
        pc[j][0] = "leave" /\ failed[j][0] = {} =>
            \A q \in QP :
                LET total == Cardinality({c \in DOMAIN Calls[j] : q \in Calls[j][c]})
                IN  /\ reduced[j][q] = total
                    /\ \A r \in Rank(j) : posted[j][r][q] = total

\* A job whose rank 0 ran its destructor, with no RPC lost, leaves no group
\* behind in the controller, also when one of its requests was refused.
NothingLeftBehind ==
    \A j \in Job, q \in QP :
        pc[j][0] = "gone" /\ ~lost[j] => ~HasGroup(j, q)

\* A group is only ever destroyed by the job it was created for, in its
\* destructor (return_groups), and never by a step of another job that is in
\* its own, though numbers are used again, an RPC that failed may have been
\* executed, and DestroyGroup does not know its caller.
OwnGroupsOnly ==
    [][\A g \in DOMAIN undo \ DOMAIN undo' :
            LET owner == undo[g][1]
            IN  /\ pc[owner][0] = "leave"
                /\ \A j \in Job \ {owner} : group_ids'[j] = group_ids[j]]_vars

\* Every process comes to its end whatever the network loses, the controller
\* refuses or an RPC does: no client waits for ever at the rendezvous of a
\* rank 0 that has died, or for the result of a group that is gone.  The one
\* thing that holds a process for ever is a message on a queue pair of its own
\* that modify_qp_to_rts has not made ready to send; the other ranks, who wait
\* for its data, end.
EveryRankEnds == <>(\A j \in Job : \A r \in Rank(j) : Ended(j, r) \/ Stuck(j, r))
=============================================================================
