-------------------------- MODULE GroupController --------------------------
(***************************************************************************)
(* The controller of the allreduce switch (INCServicerImpl of              *)
(* allreduce_grpc.py): it owns the switch memory, the group numbers, the   *)
(* multicast nodes and the recirculation ports, and writes the tables that *)
(* the data plane looks up.                                                *)
(*                                                                         *)
(* The gRPC server has one worker (max_workers=1), so that an RPC is one   *)
(* step.  An RPC that raises is answered with an error and the server goes *)
(* on: the steps taken before the exception stay, and the list of undo     *)
(* functions, which is stored last, is lost.                               *)
(*                                                                         *)
(* A member stands for the pair (IP, QPN) that names a queue pair.  A      *)
(* queue pair is created for one group, so a request names members that    *)
(* the switch has no entry for.                                            *)
(***************************************************************************)
EXTENDS SegmentAllocator, FiniteSets

CONSTANTS
    MemSize,      \* SWITCH_MEM_SIZE, in slots
    Size,         \* sizes that clients ask for, in slots
    MaxGroup,     \* MAX_GROUP_NUM - 1
    MaxNode,      \* MAX_QP_NUM - 1
    RecirPort,    \* number of recirculation ports
    Member,       \* (IP, QPN) of the queue pairs
    KnownIP,      \* the members whose IP is in the topology
    GroupSize     \* sizes of the groups that clients ask for

ASSUME ControllerAssumption ==
    /\ MemSize \in Nat \ {0} /\ MaxGroup \in Nat /\ MaxNode \in Nat
    /\ RecirPort \in Nat \ {0}
    /\ Size \subseteq Nat /\ GroupSize \subseteq Nat
    /\ KnownIP \subseteq Member

VARIABLES
    memseg,             \* free segments
    free_group,         \* free group numbers, in the order of their reuse
    free_node,          \* free multicast nodes, likewise
    recir_port_cnt,     \* groups per recirculation port
    undo,               \* group -> what DestroyGroup has to give back
    alive,              \* FALSE once free_seg has called exit(1)
    metadata_table,     \* member -> group, rank and slots
    restore_table,      \* <<group, rank>> -> member that egress addresses
    node_table,         \* bfrt.pre.node: node -> rank and port
    mgid_table,         \* bfrt.pre.mgid: group -> set of nodes
    recirculate_table,  \* group -> recirculation port
    dirty,              \* <<slot, member>>: the bits set in the bitmap registers
    leaked,             \* history: what failed requests have taken
    granted,            \* history: the window sizes that were granted
    sent                \* history: group -> the bits its packets have set

resources == <<memseg, free_group, free_node, recir_port_cnt>>
tables == <<metadata_table, restore_table, node_table, mgid_table, recirculate_table>>
ctlVars == <<resources, undo, alive, tables, dirty, leaked, granted, sent>>

Port == 1..RecirPort
Memory == 0..(MemSize - 1)
Groups == DOMAIN undo
EmptyFun == [x \in {} |-> x]

\* Overriding union of two tables, and a table without some keys.
With(f, g) == [x \in DOMAIN g \cup DOMAIN f |-> IF x \in DOMAIN g THEN g[x] ELSE f[x]]
Without(f, S) == [x \in DOMAIN f \ S |-> f[x]]

CtlInit ==
    /\ memseg = << <<0, MemSize>> >>
    /\ free_group = [i \in 1..MaxGroup |-> i]
    /\ free_node = [i \in 1..MaxNode |-> i]
    /\ recir_port_cnt = [p \in Port |-> 0]
    /\ undo = EmptyFun
    /\ alive = TRUE
    /\ metadata_table = EmptyFun
    /\ restore_table = EmptyFun
    /\ node_table = EmptyFun
    /\ mgid_table = EmptyFun
    /\ recirculate_table = EmptyFun
    /\ dirty = {}
    /\ leaked = {}
    /\ granted = {}
    /\ sent = EmptyFun

-----------------------------------------------------------------------------
(* CreateGroup. *)

\* Requests: the order of the members gives the ranks.
Request ==
    {req \in UNION {[1..n -> Member \ DOMAIN metadata_table] : n \in GroupSize} :
        IsInjective(req)}

\* The request can be served.  Otherwise the reply is the NULL group, and for
\* a size that is no power of two the RPC raises before it changes anything.
HasResources(req, size) ==
    /\ Len(free_group) >= 1
    /\ Len(free_node) >= Len(req)
    /\ FitSeg(memseg, size) # NoFit

\* select_recir_port_idx: the first of the least used ports.
SelectRecirPort ==
    CHOOSE p \in Port :
        \A q \in Port : \/ recir_port_cnt[p] < recir_port_cnt[q]
                        \/ recir_port_cnt[p] = recir_port_cnt[q] /\ p <= q

\* What the request is given.
Grant(req, size) ==
    LET fit == FitSeg(memseg, size)
    IN  [group |-> free_group[1],
         seg   |-> <<fit.addr, fit.addr + size>>,
         index |-> fit.index,
         node  |-> SubSeq(free_node, 1, Len(req)),
         port  |-> SelectRecirPort,
         member |-> req]

\* Mutant: the last of the nodes stays in the list.
TakeResourcesKeepsNode(g) ==
    /\ memseg' = AllocSeg(memseg, g.index, g.seg[1], g.seg[2])
    /\ free_group' = Tail(free_group)
    /\ free_node' = SubSeq(free_node, Len(g.node), Len(free_node))
    /\ recir_port_cnt' = [recir_port_cnt EXCEPT ![g.port] = @ + 1]

\* The resources of a grant are taken.
TakeResources(g) ==
    /\ memseg' = AllocSeg(memseg, g.index, g.seg[1], g.seg[2])
    /\ free_group' = Tail(free_group)
    /\ free_node' = SubSeq(free_node, Len(g.node) + 1, Len(free_node))
    /\ recir_port_cnt' = [recir_port_cnt EXCEPT ![g.port] = @ + 1]

\* The entries for the ranks 1..n; the nodes are written for the first m.
WriteTables(g, n, m) ==
    /\ recirculate_table' = With(recirculate_table, [x \in {g.group} |-> g.port])
    /\ metadata_table' =
         With(metadata_table,
              [x \in {g.member[i] : i \in 1..n} |->
                 [group |-> g.group, rank |-> CHOOSE i \in 1..n : g.member[i] = x,
                  agg_addr |-> g.seg[1], mask |-> g.seg[2] - g.seg[1] - 1]])
    /\ restore_table' =
         With(restore_table, [x \in {<<g.group, i>> : i \in 1..n} |-> g.member[x[2]]])
    /\ node_table' =
         With(node_table,
              [x \in {g.node[i] : i \in 1..m} |->
                 LET i == CHOOSE i \in 1..m : g.node[i] = x
                 IN  [rank |-> i, port |-> g.member[i]]])

\* Mutant: the registers keep what the previous owner left.
ClearNothing(seg) == dirty' = dirty

\* The bitmap registers of the segment are set to {0, 0}.
ClearRegisters(seg) == dirty' = {b \in dirty : b[1] \notin SlotsOf(seg)}

\* The request is served.
CreateGroup(req, size) ==
    LET g == Grant(req, size)
    IN  /\ alive
        /\ IsPower2(size, MemSize)
        /\ HasResources(req, size)
        /\ \A i \in 1..Len(req) : req[i] \in KnownIP
        /\ TakeResources(g)
        /\ WriteTables(g, Len(req), Len(req))
        /\ mgid_table' = With(mgid_table, [x \in {g.group} |-> ToSet(g.node)])
        /\ ClearRegisters(g.seg)
        /\ undo' = With(undo, [x \in {g.group} |-> g])
        /\ sent' = With(sent, [x \in {g.group} |-> {}])
        /\ granted' = granted \cup {size}
        /\ UNCHANGED <<alive, leaked>>

\* ip2port raises for the first member with an unknown IP: its metadata and
\* restore entries are written already, and nothing will undo them.
CreateGroupRaises(req, size) ==
    LET g == Grant(req, size)
        n == SelectInSeq(req, LAMBDA m : m \notin KnownIP)
    IN  /\ alive
        /\ IsPower2(size, MemSize)
        /\ HasResources(req, size)
        /\ n # 0
        /\ TakeResources(g)
        /\ WriteTables(g, n, n - 1)
        /\ leaked' = leaked \cup {g}
        /\ granted' = granted \cup {size}
        /\ UNCHANGED <<undo, alive, mgid_table, dirty, sent>>

-----------------------------------------------------------------------------
(* DestroyGroup. *)

\* The table entries of a group are deleted, and the resources given back.
Undo(g) ==
    /\ mgid_table' = Without(mgid_table, {g.group})
    /\ node_table' = Without(node_table, ToSet(g.node))
    /\ restore_table' = Without(restore_table, {<<g.group, i>> : i \in 1..Len(g.member)})
    /\ metadata_table' = Without(metadata_table, ToSet(g.member))
    /\ recirculate_table' = Without(recirculate_table, {g.group})
    /\ recir_port_cnt' = [recir_port_cnt EXCEPT ![g.port] = @ - 1]
    /\ free_node' = free_node \o g.node
    /\ free_group' = Append(free_group, g.group)
    /\ IF InvalidFree(memseg, g.seg[1], g.seg[2])
       THEN alive' = FALSE /\ UNCHANGED memseg
       ELSE memseg' = FreeSeg(memseg, g.seg[1], g.seg[2]) /\ UNCHANGED alive

\* del self.undo[groupid]
Forget(id) == undo' = Without(undo, {id})

\* A number that is not in undo, as in a repeated request, changes nothing.
DestroyGroup(id) ==
    /\ alive
    /\ id \in Groups
    /\ Undo(undo[id])
    /\ Forget(id)
    /\ sent' = Without(sent, {id})
    /\ UNCHANGED <<dirty, leaked, granted>>

-----------------------------------------------------------------------------

\* A packet of a member sets its bit in one of the slots that its metadata
\* entry leads to.
Traffic(m, offset) ==
    LET id == metadata_table[m].group
        bit == <<metadata_table[m].agg_addr + offset, m>>
    IN  /\ id \in Groups
        /\ offset <= metadata_table[m].mask
        /\ dirty' = dirty \cup {bit}
        /\ sent' = [sent EXCEPT ![id] = @ \cup {bit}]
        /\ UNCHANGED <<resources, undo, alive, tables, leaked, granted>>

CtlNext ==
    \/ \E req \in Request, size \in Size : CreateGroup(req, size)
    \/ \E req \in Request, size \in Size : CreateGroupRaises(req, size)
    \/ \E id \in 1..MaxGroup : DestroyGroup(id)
    \/ \E m \in DOMAIN metadata_table, offset \in Memory : Traffic(m, offset)

CtlSpec == CtlInit /\ [][CtlNext]_ctlVars

-----------------------------------------------------------------------------
(* Properties. *)

\* Everything that was granted and not given back.
Held == {undo[id] : id \in Groups} \cup leaked

\* Type invariant.
CtlTypeOK ==
    /\ memseg \in Seq((0..MemSize) \X (0..MemSize))
    /\ free_group \in Seq(1..MaxGroup)
    /\ free_node \in Seq(1..MaxNode)
    /\ recir_port_cnt \in [Port -> Int]
    /\ Groups \subseteq 1..MaxGroup
    /\ alive \in BOOLEAN
    /\ DOMAIN metadata_table \subseteq Member
    /\ dirty \subseteq Memory \X Member
    /\ DOMAIN sent = Groups

\* Every slot of the switch memory is free or held by exactly one group, and
\* the list of free segments is sorted and without overlaps, so that only a
\* request that raises makes memory disappear.
MemoryConserved ==
    /\ WellFormed(memseg)
    /\ \A s \in Memory :
         Cardinality({g \in Held : s \in SlotsOf(g.seg)})
           = IF s \in FreeSlots(memseg) THEN 0 ELSE 1

\* The same for group numbers, nodes and recirculation ports.
IdsConserved ==
    /\ \A id \in 1..MaxGroup :
         Cardinality({g \in Held : g.group = id})
           + Cardinality({i \in DOMAIN free_group : free_group[i] = id}) = 1
    /\ \A n \in 1..MaxNode :
         Cardinality({g \in Held : n \in ToSet(g.node)})
           + Cardinality({i \in DOMAIN free_node : free_node[i] = n}) = 1
    /\ \A p \in Port : recir_port_cnt[p] = Cardinality({g \in Held : g.port = p})

\* Nothing that the controller hands out is lost or given out twice, whatever
\* the history of requests, failed ones included, and free_seg never meets a
\* segment that is free already, which would make the controller exit.
ResourcesConserved == CtlTypeOK /\ alive /\ MemoryConserved /\ IdsConserved

\* A result is multicast to the members of its group and nobody else: the nodes
\* of the multicast group lead to the port of each member exactly once, with
\* the rank under which egress finds this member's address, and this member's
\* packets carry the same rank's bit.
MulticastReachesMembers ==
    \A id \in Groups :
        /\ mgid_table[id] \subseteq DOMAIN node_table
        /\ \A m \in ToSet(undo[id].member) :
             /\ metadata_table[m].group = id
             /\ restore_table[<<id, metadata_table[m].rank>>] = m
             /\ Cardinality({n \in mgid_table[id] : node_table[n].port = m}) = 1
             /\ \A n \in mgid_table[id] :
                  node_table[n].port = m <=> node_table[n].rank = metadata_table[m].rank

\* Packets of different groups never meet in a slot, and packets of the same
\* group agree on the slots, on which they differ by their rank's bit.
SlotsExclusive ==
    \A m, k \in DOMAIN metadata_table :
        LET a == metadata_table[m]
            b == metadata_table[k]
        IN  IF a.group = b.group
            THEN a.agg_addr = b.agg_addr /\ a.mask = b.mask /\ (m # k => a.rank # b.rank)
            ELSE \A s \in 0..a.mask, t \in 0..b.mask : a.agg_addr + s # b.agg_addr + t

\* The bitmap registers of a group hold what its own packets have set since it
\* was created, and all of it.  A bit that an earlier group with these slots
\* has left would count a rank that has sent nothing; and the clearing for a
\* new group must not touch what another group has gathered.
RegistersExact ==
    \A id \in Groups : {b \in dirty : b[1] \in SlotsOf(undo[id].seg)} = sent[id]

\* As long as all windows had one size, which is what the server library asks
\* for, a request is refused for want of memory only if there is no aligned
\* block of that size.  After windows of different sizes the list that free_seg
\* leaves may be cut finer than the free memory is, see FreeSeg.
RefusalHonest ==
    \A size \in Size :
        /\ IsPower2(size, MemSize)
        /\ granted \subseteq {size}
        /\ FitSeg(memseg, size) = NoFit
        => ~ \E k \in Memory : (k * size)..(k * size + size - 1) \subseteq FreeSlots(memseg)
=============================================================================
