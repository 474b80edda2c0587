------------------------ MODULE GroupLifetimeProof ------------------------
(***************************************************************************)
(* The safety of the life of an RDMAGroup, for any number of jobs, ranks,  *)
(* group numbers, calls and lost RPCs.                                     *)
(*                                                                         *)
(* Two arguments.  About the controller: a group number that rank 0 has on *)
(* its list is that of its own group, because numbers are unique and leave *)
(* the list with the group; so a list that is worked off leaves nothing    *)
(* behind.  About the messages: a queue pair without an error has at most  *)
(* one message that the switch has not reduced, and no rank has posted     *)
(* fewer messages than the switch has reduced; so when rank 0 is through,  *)
(* everybody has sent everything.  What the switch has counted came from a *)
(* queue pair that was ready to send, and its state is set only once.      *)
(***************************************************************************)
EXTENDS GroupLifetime, CommonLemmas, FiniteSetTheorems

\* f has a value in S for each rank of each job.
Ranked(f, S) ==
    /\ f = [j \in Job |-> [r \in Rank(j) |-> f[j][r]]]
    /\ \A j \in Job : \A r \in Rank(j) : f[j][r] \in S

\* g is f but for the value v of rank r of job j.
Changes(f, g, j, r, v) ==
    \A k \in Job : \A s \in Rank(k) : g[k][s] = IF k = j /\ s = r THEN v ELSE f[k][s]

Types ==
    /\ Ranked(pc, Places)
    /\ Ranked(good, SUBSET QP)
    /\ Ranked(call, Nat)
    /\ Ranked(posted, [QP -> Nat])
    /\ Ranked(done, [QP -> Nat])
    /\ Ranked(failed, SUBSET QP)
    /\ free_group \in Seq(Nat \ {0})
    /\ group_ids \in [Job -> Seq(Nat)]
    /\ arrived \in [Job -> [QP -> SUBSET Int]]
    /\ reduced \in [Job -> [QP -> Nat]]
    /\ lost \in [Job -> BOOLEAN]

\* How far the ranks are when rank 0 is at a certain place, and how long its
\* list of groups is.
Phases ==
    \A j \in Job :
      /\ pc[j][0] \in {"start", "listen", "gone"} => group_ids[j] = << >>
      /\ pc[j][0] \in {"connect", "out", "in"} => Len(group_ids[j]) = 2
      /\ Len(group_ids[j]) <= 2
      /\ pc[j][0] # "wait"
      /\ \A r \in Client(j) :
           /\ pc[j][0] = "start" => pc[j][r] = "start"
           /\ pc[j][0] = "listen" => pc[j][r] \in {"start", "wait"}
           /\ pc[j][0] = "create" => pc[j][r] = "wait"
           /\ pc[j][r] \notin {"listen", "create", "leave"}

\* The queue pair that entry i of rank 0's list is for: return_groups takes
\* entries off the front.
EntryQP(j, i) == IF pc[j][0] = "leave" THEN i + 1 - Len(group_ids[j]) ELSE i - 1

\* What is on the list is a group of this job, or the NULL group.
ListedIsOwn ==
    \A j \in Job : \A i \in 1..Len(group_ids[j]) :
        group_ids[j][i] # NullGroup =>
            /\ group_ids[j][i] \in DOMAIN undo
            /\ undo[group_ids[j][i]] = <<j, EntryQP(j, i)>>

\* And a group of a job is on its list, unless an RPC was lost.
OwnIsListed ==
    \A g \in DOMAIN undo : \A j \in Job, q \in QP :
        undo[g] = <<j, q>> /\ ~lost[j] =>
            \E i \in 1..Len(group_ids[j]) : group_ids[j][i] = g

\* The addresses that the ranks have while rank 0 keeps its groups.
Addresses ==
    \A j \in Job :
      /\ pc[j][0] \in {"start", "listen", "create", "connect", "out", "in"}
           => \/ good[j][0] = 0..(Len(group_ids[j]) - 1)
              \/ \E i \in 1..Len(group_ids[j]) : group_ids[j][i] = NullGroup
      /\ pc[j][0] \in {"connect", "out", "in"} =>
           \A r \in Client(j) : pc[j][r] # "wait" => good[j][r] = good[j][0]

\* Messages of queue pair q in the first n calls of job j.
Uses(j, q, n) == Cardinality({c \in 1..n : q \in Calls[j][c]})

\* What each rank has posted, and has had answered.
Messages ==
    \A j \in Job : \A r \in Rank(j) :
      /\ call[j][r] <= Len(Calls[j])
      /\ pc[j][r] \notin {"out", "in", "leave", "gone"} => call[j][r] = 0
      /\ pc[j][r] = "leave" => call[j][r] = Len(Calls[j])
      /\ pc[j][r] # "in" => done[j][r] = posted[j][r]
      /\ \A q \in QP :
           /\ posted[j][r][q] = Uses(j, q, call[j][r])
           /\ done[j][r][q] <= posted[j][r][q] /\ posted[j][r][q] <= done[j][r][q] + 1
           /\ pc[j][r] # "gone" /\ q \notin failed[j][r] => done[j][r][q] <= reduced[j][q]

\* What the switch has counted and reduced has been posted.
Sums ==
    \A j \in Job, q \in QP :
      /\ arrived[j][q] \subseteq Rank(j)
      /\ \A r \in Rank(j) : reduced[j][q] <= posted[j][r][q]
      /\ \A r \in arrived[j][q] : reduced[j][q] < posted[j][r][q]

\* The unused numbers and those of the groups.
Numbers ==
    /\ ToSet(free_group) \cup DOMAIN undo = ToSet(GroupIds)
    /\ IsInjective(free_group)
    /\ ToSet(free_group) \cap DOMAIN undo = {}
    /\ \A g \in DOMAIN undo : undo[g] \in Job \X QP

\* What the switch has counted has been sent by a queue pair that is connected.
Ready ==
    /\ Ranked(rts, SUBSET QP)
    /\ \A j \in Job, q \in QP : \A r \in arrived[j][q] : q \in rts[j][r]

LInv == Numbers /\ Types /\ Phases /\ ListedIsOwn /\ OwnIsListed /\ Addresses /\ Messages /\ Sums
-----------------------------------------------------------------------------
(* Ranks, calls and group numbers. *)

\* Every job has a rank 0.
LEMMA Ranks ==
    ASSUME NEW j \in Job
    PROVE  /\ 0 \in Rank(j) /\ Client(j) \subseteq Rank(j) /\ Rank(j) \subseteq Int
           /\ \A r \in Rank(j) : r = 0 \/ r \in Client(j)
  BY LifetimeAssumption DEF Rank, Client

\* A step of rank r of job j changes what belongs to it.
LEMMA RankedUpdate ==
    ASSUME NEW S, NEW f, Ranked(f, S), NEW j \in Job, NEW r \in Rank(j), NEW v \in S,
           NEW g, g = [f EXCEPT ![j][r] = v]
    PROVE  Ranked(g, S) /\ Changes(f, g, j, r, v)
<1>1. DOMAIN f = Job /\ \A k \in Job : f[k] = [s \in Rank(k) |-> f[k][s]]
  BY DEF Ranked
<1>2. g = [k \in Job |-> IF k = j THEN [f[j] EXCEPT ![r] = v] ELSE f[k]]
  BY <1>1
<1>3. g[j] = [s \in Rank(j) |-> IF s = r THEN v ELSE f[j][s]]
  BY <1>1, <1>2
<1>4. \A k \in Job : k # j => g[k] = f[k]
  BY <1>2
<1>5. DOMAIN g = Job
  BY <1>2
<1>6. \A k \in Job : \A s \in Rank(k) : g[k][s] = IF k = j /\ s = r THEN v ELSE f[k][s]
  BY <1>3, <1>4
<1>7. \A k \in Job : g[k] = [s \in Rank(k) |-> g[k][s]]
  BY <1>1, <1>3, <1>4
<1>8. g = [k \in Job |-> [s \in Rank(k) |-> g[k][s]]]
  <2>1. g = [k \in Job |-> g[k]]
    BY <1>2, <1>5
  <2>. QED
    BY <2>1, <1>7
<1>9. \A k \in Job : \A s \in Rank(k) : g[k][s] \in S
  BY <1>6 DEF Ranked
<1>. QED
  BY <1>6, <1>8, <1>9 DEF Ranked, Changes

\* The messages of the first n calls are counted call by call.
LEMMA UsesCount ==
    ASSUME NEW j \in Job, NEW q \in QP
    PROVE  /\ Uses(j, q, 0) = 0
           /\ \A n \in Nat : Uses(j, q, n) \in Nat
           /\ \A n \in Nat : Uses(j, q, n + 1) = Uses(j, q, n) + (IF q \in Calls[j][n + 1] THEN 1 ELSE 0)
           /\ \A n, m \in Nat : n <= m => Uses(j, q, n) <= Uses(j, q, m)
           /\ Cardinality({c \in DOMAIN Calls[j] : q \in Calls[j][c]}) = Uses(j, q, Len(Calls[j]))
<1>. DEFINE U(n) == {c \in 1..n : q \in Calls[j][c]}
<1>1. ASSUME NEW n \in Nat PROVE IsFiniteSet(U(n)) /\ Cardinality(U(n)) \in Nat
  <2>1. IsFiniteSet(1..n) /\ U(n) \in SUBSET (1..n)
    BY FS_Interval
  <2>2. IsFiniteSet(U(n))
    BY <2>1, FS_Subset
  <2>. QED
    BY <2>2, FS_CardinalityType
<1>2. Uses(j, q, 0) = 0
  <2>1. U(0) = {}
    OBVIOUS
  <2>. QED
    BY <2>1, FS_EmptySet DEF Uses
<1>3. ASSUME NEW n \in Nat
      PROVE  Uses(j, q, n + 1) = Uses(j, q, n) + (IF q \in Calls[j][n + 1] THEN 1 ELSE 0)
  <2>1. CASE q \in Calls[j][n + 1]
    <3>1. U(n + 1) = U(n) \cup {n + 1} /\ n + 1 \notin U(n)
      BY <2>1
    <3>2. Cardinality(U(n) \cup {n + 1}) = Cardinality(U(n)) + 1
      <4>. HIDE DEF U
      <4>. QED
        BY <3>1, <1>1, FS_AddElement
    <3>. QED
      BY <3>1, <3>2, <2>1 DEF Uses
  <2>2. CASE q \notin Calls[j][n + 1]
    <3>1. U(n + 1) = U(n)
      BY <2>2
    <3>2. Uses(j, q, n + 1) = Uses(j, q, n)
      BY <3>1 DEF Uses
    <3>3. Uses(j, q, n) \in Nat
      BY <1>1 DEF Uses
    <3>. QED
      BY <3>2, <3>3, <2>2
  <2>. QED
    BY <2>1, <2>2
<1>4. ASSUME NEW n \in Nat, NEW m \in Nat, n <= m PROVE Uses(j, q, n) <= Uses(j, q, m)
  <2>1. U(n) \in SUBSET U(m)
    BY <1>4
  <2>2. Cardinality(U(n)) <= Cardinality(U(m))
    BY <2>1, <1>1, FS_Subset
  <2>. QED
    BY <2>2 DEF Uses
<1>5. DOMAIN Calls[j] = 1..Len(Calls[j])
  BY LifetimeAssumption
<1>. QED
  BY <1>1, <1>2, <1>3, <1>4, <1>5 DEF Uses

\* There are two queue pairs.
LEMMA QPCount == Cardinality(QP) = 2
<1>. DEFINE a == 0
            b == 1
<1>1. a \in Int /\ b \in Int /\ ~(a > b) /\ b - a + 1 = 2
  OBVIOUS
<1>. HIDE DEF a, b
<1>2. Cardinality(a..b) = 2
  BY <1>1, FS_Interval
<1>. QED
  BY <1>2 DEF QP, a, b

\* The numbers of the controller.
LEMMA GroupNumbers == NullGroup \notin ToSet(GroupIds) /\ GroupIds \in Seq(Nat \ {0})
  BY LifetimeAssumption DEF NullGroup, ToSet

\* What TypeOK adds is part of the invariant.
LEMMA InvType == LInv /\ Ready => TypeOK
  BY Ranks DEF LInv, Ready, TypeOK, Numbers, Types, Ranked, Messages, Sums

\* The process of rank r moves on, and no other.
LEMMA Moved ==
    ASSUME LInv, NEW j \in Job, NEW r \in Rank(j), NEW place \in Places, Goto(j, r, place)
    PROVE  /\ Ranked(pc', Places)
           /\ \A k \in Job : \A s \in Rank(k) : pc'[k][s] = IF k = j /\ s = r THEN place ELSE pc[k][s]
<1>1. Ranked(pc, Places) /\ pc' = [pc EXCEPT ![j][r] = place]
  BY DEF LInv, Types, Goto
<1>2. Ranked(pc', Places)
  BY <1>1, RankedUpdate, Zenon
<1>3. Changes(pc, pc', j, r, place)
  BY <1>1, RankedUpdate, Zenon
<1>. QED
  BY <1>2, <1>3 DEF Changes

\* A step that the controller takes no part in, and that leaves the lists of
\* rank 0 and their meaning alone.
LEMMA ListsKept ==
    ASSUME LInv, UNCHANGED <<free_group, undo, group_ids, lost>>,
           \A k \in Job : \A i \in 1..Len(group_ids[k]) :
              (pc'[k][0] = "leave") = (pc[k][0] = "leave") \/ Len(group_ids[k]) = 2
    PROVE  Numbers' /\ ListedIsOwn' /\ OwnIsListed'
<1>1. Numbers'
  BY DEF LInv, Numbers
<1>2. OwnIsListed'
  BY DEF LInv, OwnIsListed
<1>3. ASSUME NEW k \in Job, NEW i \in 1..Len(group_ids[k]) PROVE EntryQP(k, i)' = EntryQP(k, i)
  <2>1. CASE (pc'[k][0] = "leave") = (pc[k][0] = "leave")
    BY <2>1 DEF EntryQP
  <2>2. CASE Len(group_ids[k]) = 2
    <3>1. i + 1 - Len(group_ids[k]) = i - 1
      BY <2>2
    <3>. QED
      BY <3>1 DEF EntryQP
  <2>. QED
    BY <2>1, <2>2
<1>4. ListedIsOwn'
  BY <1>3 DEF LInv, ListedIsOwn
<1>. QED
  BY <1>1, <1>2, <1>4

-----------------------------------------------------------------------------
(* The invariant holds at the start, and every step keeps it. *)

LEMMA InitInv == Init => LInv
<1>. SUFFICES ASSUME Init PROVE LInv
  OBVIOUS
<1>1. Types
  BY GroupNumbers DEF Init, Types, Ranked, PerRank, PerQP, Places, QP
<1>2. Numbers
  <2>1. DOMAIN undo = {}
    BY DEF Init
  <2>. QED
    BY <2>1, LifetimeAssumption DEF Init, Numbers
<1>. DEFINE none == << >>
<1>3. Len(none) = 0 /\ 1..Len(none) = {} /\ DOMAIN none = {}
  OBVIOUS
<1>4. undo = none /\ \A j \in Job : group_ids[j] = none
  BY DEF Init
<1>. HIDE DEF none
<1>5. \A j \in Job : \A r \in Rank(j) : pc[j][r] = "start" /\ call[j][r] = 0 /\ failed[j][r] = {}
  BY DEF Init, PerRank
<1>6. \A j \in Job : \A r \in Rank(j) : posted[j][r] = [q \in QP |-> 0] /\ done[j][r] = [q \in QP |-> 0]
  BY DEF Init, PerRank
<1>7. \A j \in Job : \A q \in QP : arrived[j][q] = {} /\ reduced[j][q] = 0
  BY DEF Init, PerQP
<1>8. Phases
  BY <1>3, <1>4, <1>5, Ranks DEF Phases, none
<1>9. ListedIsOwn /\ OwnIsListed
  BY <1>3, <1>4 DEF ListedIsOwn, OwnIsListed
<1>10. Addresses
  <2>1. \A j \in Job : good[j][0] = {}
    BY Ranks DEF Init, PerRank
  <2>2. 0..(0 - 1) = {}
    OBVIOUS
  <2>. QED
    BY <2>1, <2>2, <1>3, <1>4, <1>5, Ranks DEF Addresses
<1>11. Messages
  <2>1. \A j \in Job : 0 <= Len(Calls[j])
    BY LifetimeAssumption
  <2>. QED
    <3>1. \A j \in Job : \A r \in Rank(j) : \A q \in QP : posted[j][r][q] = 0 /\ done[j][r][q] = 0
      BY <1>6
    <3>2. \A j \in Job : \A q \in QP : Uses(j, q, 0) = 0
      BY UsesCount
    <3>. QED
      BY <3>1, <3>2, <2>1, <1>5, <1>6, <1>7 DEF Messages
<1>12. Sums
  BY <1>6, <1>7 DEF Sums
<1>. QED
  BY <1>1, <1>2, <1>8, <1>9, <1>10, <1>11, <1>12 DEF LInv

\* Rank 0 opens its socket.
LEMMA ListenStep ==
    ASSUME LInv, NEW j \in Job, Listen(j)
    PROVE  LInv'
<1>1. /\ UNCHANGED <<free_group, undo, arrived, reduced, group_ids, good, call, posted, done, failed, lost>>
      /\ Goto(j, 0, "listen") /\ pc[j][0] = "start"
  BY DEF Listen, controller, network
<1>2. /\ Ranked(pc', Places)
      /\ \A k \in Job : \A s \in Rank(k) : pc'[k][s] = IF k = j /\ s = 0 THEN "listen" ELSE pc[k][s]
  BY <1>1, Ranks, Moved DEF Places
<1>3. Types'
  BY <1>1, <1>2 DEF LInv, Types, Ranked
<1>4. Numbers' /\ ListedIsOwn' /\ OwnIsListed'
  BY <1>1, <1>2, Ranks, ListsKept
<1>5. Phases'
  <2>1. ASSUME NEW k \in Job, k # j PROVE pc'[k][0] = pc[k][0] /\ \A r \in Client(k) : pc'[k][r] = pc[k][r]
    BY <2>1, <1>2, Ranks
  <2>2. pc'[j][0] = "listen" /\ \A r \in Client(j) : pc'[j][r] = pc[j][r]
    BY <1>2, Ranks DEF Client
  <2>. QED
    BY <2>1, <2>2, <1>1 DEF LInv, Phases
<1>6. Addresses'
  BY <1>1, <1>2, Ranks DEF LInv, Addresses, Phases, Listen
<1>7. Messages'
  BY <1>1, <1>2 DEF LInv, Messages
<1>8. Sums'
  BY <1>1 DEF LInv, Sums
<1>. QED
  BY <1>3, <1>4, <1>5, <1>6, <1>7, <1>8 DEF LInv

\* A client reaches it.
LEMMA ConnectStep ==
    ASSUME LInv, NEW j \in Job, NEW r \in Client(j), Connect(j, r)
    PROVE  LInv'
<1>1. /\ UNCHANGED <<free_group, undo, arrived, reduced, group_ids, good, call, posted, done, failed, lost>>
      /\ Goto(j, r, "wait") /\ pc[j][r] = "start"
  BY DEF Connect, controller, network
<1>2. /\ Ranked(pc', Places)
      /\ \A k \in Job : \A s \in Rank(k) : pc'[k][s] = IF k = j /\ s = r THEN "wait" ELSE pc[k][s]
  BY <1>1, Ranks, Moved DEF Places
<1>3. Types'
  BY <1>1, <1>2 DEF LInv, Types, Ranked
<1>4. Numbers' /\ ListedIsOwn' /\ OwnIsListed'
  BY <1>1, <1>2, Ranks, ListsKept
<1>5. Phases'
  BY <1>1, <1>2, Ranks DEF LInv, Phases, Connect
<1>6. Addresses'
  BY <1>1, <1>2, Ranks DEF LInv, Addresses, Phases, Connect
<1>7. Messages'
  BY <1>1, <1>2 DEF LInv, Messages
<1>8. Sums'
  BY <1>1 DEF LInv, Sums
<1>. QED
  BY <1>3, <1>4, <1>5, <1>6, <1>7, <1>8 DEF LInv

\* All clients are there.
LEMMA AcceptStep ==
    ASSUME LInv, NEW j \in Job, Accept(j)
    PROVE  LInv'
<1>1. /\ UNCHANGED <<free_group, undo, arrived, reduced, group_ids, good, call, posted, done, failed, lost>>
      /\ Goto(j, 0, "create") /\ pc[j][0] = "listen"
  BY DEF Accept, controller, network
<1>2. /\ Ranked(pc', Places)
      /\ \A k \in Job : \A s \in Rank(k) : pc'[k][s] = IF k = j /\ s = 0 THEN "create" ELSE pc[k][s]
  BY <1>1, Ranks, Moved DEF Places
<1>3. Types'
  BY <1>1, <1>2 DEF LInv, Types, Ranked
<1>4. Numbers' /\ ListedIsOwn' /\ OwnIsListed'
  BY <1>1, <1>2, Ranks, ListsKept
<1>5. Phases'
  BY <1>1, <1>2, Ranks DEF LInv, Phases, Accept
<1>6. Addresses'
  BY <1>1, <1>2, Ranks DEF LInv, Addresses, Phases, Accept
<1>7. Messages'
  BY <1>1, <1>2 DEF LInv, Messages
<1>8. Sums'
  BY <1>1 DEF LInv, Sums
<1>. QED
  BY <1>3, <1>4, <1>5, <1>6, <1>7, <1>8 DEF LInv

\* The addresses are written.
LEMMA ScatterStep ==
    ASSUME LInv, NEW j \in Job, Scatter(j)
    PROVE  LInv'
<1>1. /\ UNCHANGED <<free_group, undo, arrived, reduced, group_ids, good, call, posted, done, failed, lost>>
      /\ Goto(j, 0, "connect") /\ pc[j][0] = "create"
  BY DEF Scatter, controller, network
<1>2. /\ Ranked(pc', Places)
      /\ \A k \in Job : \A s \in Rank(k) : pc'[k][s] = IF k = j /\ s = 0 THEN "connect" ELSE pc[k][s]
  BY <1>1, Ranks, Moved DEF Places
<1>3. Types'
  BY <1>1, <1>2 DEF LInv, Types, Ranked
<1>4. Numbers' /\ ListedIsOwn' /\ OwnIsListed'
  BY <1>1, <1>2, Ranks, ListsKept
<1>5. Phases'
  <2>1. Len(group_ids[j]) = 2
    BY QPCount DEF Scatter, AllCreated, NextQP
  <2>. QED
    BY <2>1, <1>1, <1>2, Ranks DEF LInv, Phases
<1>6. Addresses'
  BY <1>1, <1>2, Ranks DEF LInv, Addresses, Phases, Scatter
<1>7. Messages'
  BY <1>1, <1>2 DEF LInv, Messages
<1>8. Sums'
  BY <1>1 DEF LInv, Sums
<1>. QED
  BY <1>3, <1>4, <1>5, <1>6, <1>7, <1>8 DEF LInv

\* The queue pairs are connected.
LEMMA ModifyQPsStep ==
    ASSUME LInv, NEW j \in Job, NEW r \in Rank(j), ModifyQPs(j, r)
    PROVE  LInv'
<1>1. /\ UNCHANGED <<free_group, undo, arrived, reduced, group_ids, good, call, posted, done, failed, lost>>
      /\ Goto(j, r, "out") /\ pc[j][r] = "connect"
  BY DEF ModifyQPs, controller, network
<1>2. /\ Ranked(pc', Places)
      /\ \A k \in Job : \A s \in Rank(k) : pc'[k][s] = IF k = j /\ s = r THEN "out" ELSE pc[k][s]
  BY <1>1, Ranks, Moved DEF Places
<1>3. Types'
  BY <1>1, <1>2 DEF LInv, Types, Ranked
<1>4. Numbers' /\ ListedIsOwn' /\ OwnIsListed'
  BY <1>1, <1>2, Ranks, ListsKept
<1>5. Phases'
  BY <1>1, <1>2, Ranks DEF LInv, Phases, ModifyQPs
<1>6. Addresses'
  BY <1>1, <1>2, Ranks DEF LInv, Addresses, Phases, ModifyQPs
<1>7. Messages'
  BY <1>1, <1>2 DEF LInv, Messages
<1>8. Sums'
  BY <1>1 DEF LInv, Sums
<1>. QED
  BY <1>3, <1>4, <1>5, <1>6, <1>7, <1>8 DEF LInv

\* A call is complete.
LEMMA ReturnStep ==
    ASSUME LInv, NEW j \in Job, NEW r \in Rank(j), Return(j, r)
    PROVE  LInv'
<1>1. /\ UNCHANGED <<free_group, undo, arrived, reduced, group_ids, good, call, posted, done, failed, lost>>
      /\ Goto(j, r, "out") /\ pc[j][r] = "in"
  BY DEF Return, controller, network
<1>2. /\ Ranked(pc', Places)
      /\ \A k \in Job : \A s \in Rank(k) : pc'[k][s] = IF k = j /\ s = r THEN "out" ELSE pc[k][s]
  BY <1>1, Ranks, Moved DEF Places
<1>3. Types'
  BY <1>1, <1>2 DEF LInv, Types, Ranked
<1>4. Numbers' /\ ListedIsOwn' /\ OwnIsListed'
  BY <1>1, <1>2, Ranks, ListsKept
<1>5. Phases'
  BY <1>1, <1>2, Ranks DEF LInv, Phases, Return
<1>6. Addresses'
  BY <1>1, <1>2, Ranks DEF LInv, Addresses, Phases, Return
<1>7. Messages'
  BY <1>1, <1>2 DEF LInv, Messages, Return, Completed
<1>8. Sums'
  BY <1>1 DEF LInv, Sums
<1>. QED
  BY <1>3, <1>4, <1>5, <1>6, <1>7, <1>8 DEF LInv
\* CreateGroup takes a number that is in no use.
LEMMA CreateEffect ==
    ASSUME LInv, NEW j \in Job, NEW q \in QP, Create(j, q)
    PROVE  /\ Numbers' /\ free_group' \in Seq(Nat \ {0})
           /\ Head(free_group) \in Nat \ {0} /\ Head(free_group) \notin DOMAIN undo
           /\ DOMAIN undo' = DOMAIN undo \cup {Head(free_group)}
           /\ undo'[Head(free_group)] = <<j, q>>
           /\ \A h \in DOMAIN undo : undo'[h] = undo[h]
<1>. DEFINE g == Head(free_group)
<1>1. /\ free_group \in Seq(Nat \ {0}) /\ free_group # << >> /\ IsInjective(free_group)
      /\ free_group' = Tail(free_group)
      /\ undo' = [h \in DOMAIN undo \cup {g} |-> IF h = g THEN <<j, q>> ELSE undo[h]]
  BY DEF LInv, Types, Numbers, Create, Granted
<1>2. /\ ToSet(free_group) = ToSet(Tail(free_group)) \cup {g} /\ g \notin ToSet(Tail(free_group))
      /\ IsInjective(Tail(free_group))
  BY <1>1, ToSetTail
<1>3. Tail(free_group) \in Seq(Nat \ {0}) /\ g \in Nat \ {0}
  BY <1>1, TailAt
<1>. HIDE DEF g
<1>4. /\ ToSet(free_group) \cup DOMAIN undo = ToSet(GroupIds)
      /\ ToSet(free_group) \cap DOMAIN undo = {}
      /\ \A h \in DOMAIN undo : undo[h] \in Job \X QP
  BY DEF LInv, Numbers
<1>5. g \notin DOMAIN undo
  BY <1>2, <1>4
<1>6. DOMAIN undo' = DOMAIN undo \cup {g} /\ undo'[g] = <<j, q>> /\ \A h \in DOMAIN undo : undo'[h] = undo[h]
  BY <1>1, <1>5
<1>7. /\ ToSet(Tail(free_group)) \cup DOMAIN undo' = ToSet(GroupIds)
      /\ ToSet(Tail(free_group)) \cap DOMAIN undo' = {}
  BY <1>2, <1>4, <1>6
<1>8. \A h \in DOMAIN undo' : undo'[h] \in Job \X QP
  BY <1>4, <1>6
<1>9. Numbers'
  BY <1>1, <1>2, <1>7, <1>8 DEF Numbers
<1>. QED
  BY <1>1, <1>3, <1>5, <1>6, <1>9 DEF g

\* DestroyGroup gives the number of a group back.
LEMMA DestroyEffect ==
    ASSUME LInv, NEW id \in Nat, Destroy(id)
    PROVE  /\ Numbers' /\ free_group' \in Seq(Nat \ {0})
           /\ DOMAIN undo' = DOMAIN undo \ {id}
           /\ \A h \in DOMAIN undo' : undo'[h] = undo[h]
<1>1. /\ ToSet(free_group) \cup DOMAIN undo = ToSet(GroupIds)
      /\ IsInjective(free_group)
      /\ ToSet(free_group) \cap DOMAIN undo = {}
      /\ \A h \in DOMAIN undo : undo[h] \in Job \X QP
      /\ free_group \in Seq(Nat \ {0})
  BY DEF LInv, Numbers, Types
<1>2. CASE id \notin DOMAIN undo
  <2>1. UNCHANGED <<free_group, undo>>
    BY <1>2 DEF Destroy, controller
  <2>. QED
    BY <2>1, <1>1, <1>2 DEF Numbers
<1>3. CASE id \in DOMAIN undo
  <2>1. undo' = [h \in DOMAIN undo \ {id} |-> undo[h]] /\ free_group' = Append(free_group, id)
    BY <1>3 DEF Destroy
  <2>2. DOMAIN undo' = DOMAIN undo \ {id} /\ \A h \in DOMAIN undo' : undo'[h] = undo[h]
    BY <2>1
  <2>3. id \in Nat \ {0} /\ id \notin ToSet(free_group) /\ id \in ToSet(GroupIds)
    BY <1>1, <1>3, GroupNumbers DEF NullGroup
  <2>4. /\ Append(free_group, id) \in Seq(Nat \ {0})
        /\ ToSet(Append(free_group, id)) = ToSet(free_group) \cup {id}
        /\ IsInjective(Append(free_group, id))
    <3>1. Append(free_group, id) \in Seq(Nat \ {0})
      BY <1>1, <2>3, AppendAt
    <3>2. /\ ToSet(Append(free_group, id)) = ToSet(free_group) \cup {id}
          /\ IsInjective(Append(free_group, id))
      BY <1>1, <2>3, ToSetAppend
    <3>. QED
      BY <3>1, <3>2
  <2>5. /\ ToSet(Append(free_group, id)) \cup DOMAIN undo' = ToSet(GroupIds)
        /\ ToSet(Append(free_group, id)) \cap DOMAIN undo' = {}
    BY <2>2, <2>3, <2>4, <1>1
  <2>6. Numbers'
    BY <2>1, <2>2, <2>4, <2>5, <1>1 DEF Numbers
  <2>. QED
    BY <2>1, <2>2, <2>4, <2>6
<1>. QED
  BY <1>2, <1>3

\* A client has read what rank 0 wrote, or nothing.
LEMMA ReadAddressesStep ==
    ASSUME LInv, NEW j \in Job, NEW r \in Client(j), ReadAddresses(j, r)
    PROVE  LInv'
<1>1. /\ UNCHANGED <<free_group, undo, arrived, reduced, group_ids, call, posted, done, failed, lost>>
      /\ Goto(j, r, "connect") /\ pc[j][r] = "wait"
  BY DEF ReadAddresses, controller, network
<1>2. r \in Rank(j) /\ r # 0
  BY Ranks DEF Client
<1>3. /\ Ranked(pc', Places)
      /\ \A k \in Job : \A s \in Rank(k) : pc'[k][s] = IF k = j /\ s = r THEN "connect" ELSE pc[k][s]
  BY <1>1, <1>2, Moved DEF Places
<1>4. \/ /\ pc[j][0] \notin {"listen", "create", "dead"} /\ good' = [good EXCEPT ![j][r] = good[j][0]]
      \/ pc[j][0] = "dead" /\ UNCHANGED good
  BY DEF ReadAddresses, HungUp
<1>5. /\ Ranked(good', SUBSET QP)
      /\ \A k \in Job : \A s \in Rank(k) : (k = j => s # r) => good'[k][s] = good[k][s]
      /\ pc[j][0] # "dead" => good'[j][r] = good[j][0]
  <2>1. Ranked(good, SUBSET QP) /\ good[j][0] \in SUBSET QP
    BY Ranks DEF LInv, Types, Ranked
  <2>2. CASE good' = [good EXCEPT ![j][r] = good[j][0]]
    <3>1. Ranked(good', SUBSET QP) /\ Changes(good, good', j, r, good[j][0])
      BY <2>1, <2>2, <1>2, RankedUpdate, Zenon
    <3>. QED
      BY <3>1, <1>2 DEF Changes
  <2>3. CASE pc[j][0] = "dead" /\ UNCHANGED good
    BY <2>1, <2>3
  <2>. QED
    BY <2>2, <2>3, <1>4
<1>6. Types'
  BY <1>1, <1>3, <1>5 DEF LInv, Types, Ranked
<1>7. Numbers' /\ ListedIsOwn' /\ OwnIsListed'
  BY <1>1, <1>2, <1>3, Ranks, ListsKept
<1>8. Phases'
  BY <1>1, <1>2, <1>3, <1>4, Ranks DEF LInv, Phases
<1>9. Addresses'
  <2>1. \A k \in Job : pc'[k][0] = pc[k][0] /\ good'[k][0] = good[k][0]
    BY <1>2, <1>3, <1>5, Ranks
  <2>2. ASSUME NEW k \in Job, NEW s \in Client(k), pc[k][0] \in {"connect", "out", "in"}, pc'[k][s] # "wait"
        PROVE  good'[k][s] = good[k][0]
    <3>1. CASE k = j /\ s = r
      BY <3>1, <2>2, <1>5
    <3>2. CASE ~(k = j /\ s = r)
      <4>1. good'[k][s] = good[k][s] /\ pc'[k][s] = pc[k][s]
        BY <3>2, <1>3, <1>5, Ranks
      <4>. QED
        BY <4>1, <2>2 DEF LInv, Addresses
    <3>. QED
      BY <3>1, <3>2
  <2>. QED
    BY <2>1, <2>2, <1>1 DEF LInv, Addresses
<1>10. Messages'
  BY <1>1, <1>3 DEF LInv, Messages
<1>11. Sums'
  BY <1>1 DEF LInv, Sums
<1>. QED
  BY <1>6, <1>7, <1>8, <1>9, <1>10, <1>11 DEF LInv

\* Rank 0 appends to its list: what is known of every list afterwards.
LEMMA ListGrows ==
    ASSUME LInv, NEW j \in Job, NEW id \in Nat, pc[j][0] = "create", ~AllCreated(j),
           group_ids' = [group_ids EXCEPT ![j] = Remember(@, id)]
    PROVE  /\ group_ids' \in [Job -> Seq(Nat)]
           /\ \A k \in Job : k # j => group_ids'[k] = group_ids[k]
           /\ Len(group_ids[j]) \in 0..1 /\ Len(group_ids'[j]) = Len(group_ids[j]) + 1
           /\ group_ids'[j][Len(group_ids[j]) + 1] = id
           /\ \A i \in 1..Len(group_ids[j]) : group_ids'[j][i] = group_ids[j][i]
           /\ \A i \in 1..Len(group_ids'[j]) : i \in 1..Len(group_ids[j]) \/ i = Len(group_ids[j]) + 1
<1>1. group_ids \in [Job -> Seq(Nat)] /\ group_ids[j] \in Seq(Nat)
  BY DEF LInv, Types
<1>2. group_ids'[j] = Append(group_ids[j], id) /\ \A k \in Job : k # j => group_ids'[k] = group_ids[k]
  BY <1>1 DEF Remember
<1>3. Append(group_ids[j], id) \in Seq(Nat)
  BY <1>1, AppendAt
<1>4. group_ids' \in [Job -> Seq(Nat)]
  BY <1>1, <1>3 DEF Remember
<1>5. Len(group_ids[j]) \in 0..1
  <2>1. Len(group_ids[j]) \in Nat /\ Len(group_ids[j]) <= 2 /\ Len(group_ids[j]) # 2
    BY <1>1, QPCount DEF LInv, Phases, AllCreated, NextQP
  <2>2. \A m \in Nat : m <= 2 /\ m # 2 => m \in 0..1
    OBVIOUS
  <2>. QED
    BY <2>1, <2>2
<1>6. /\ Len(group_ids'[j]) = Len(group_ids[j]) + 1
      /\ group_ids'[j][Len(group_ids[j]) + 1] = id
      /\ \A i \in 1..Len(group_ids[j]) : group_ids'[j][i] = group_ids[j][i]
      /\ \A i \in 1..Len(group_ids'[j]) : i \in 1..Len(group_ids[j]) \/ i = Len(group_ids[j]) + 1
  BY <1>1, <1>2, AppendAt
<1>. QED
  BY <1>2, <1>4, <1>5, <1>6

\* The controller grants a group.
LEMMA CreateGroupStep ==
    ASSUME LInv, NEW j \in Job, CreateGroup(j)
    PROVE  LInv'
<1>. DEFINE g == Head(free_group)
            n == Len(group_ids[j])
<1>1. /\ pc[j][0] = "create" /\ ~AllCreated(j) /\ Create(j, n)
      /\ group_ids' = [group_ids EXCEPT ![j] = Remember(@, g)]
      /\ good' = [good EXCEPT ![j][0] = @ \cup {n}]
      /\ UNCHANGED <<arrived, reduced, pc, call, posted, done, failed, lost>>
  BY DEF CreateGroup, network, NextQP
<1>2. Len(group_ids[j]) \in 0..1
  <2>1. Len(group_ids[j]) \in Nat /\ Len(group_ids[j]) <= 2 /\ Len(group_ids[j]) # 2
    BY <1>1, QPCount DEF LInv, Types, Phases, AllCreated, NextQP
  <2>2. \A m \in Nat : m <= 2 /\ m # 2 => m \in 0..1
    OBVIOUS
  <2>. QED
    BY <2>1, <2>2
<1>3. /\ Numbers' /\ free_group' \in Seq(Nat \ {0})
      /\ g \in Nat \ {0} /\ g \notin DOMAIN undo
      /\ DOMAIN undo' = DOMAIN undo \cup {g}
      /\ undo'[g] = <<j, n>>
      /\ \A h \in DOMAIN undo : undo'[h] = undo[h]
  BY <1>1, <1>2, CreateEffect DEF QP
<1>. HIDE DEF g
<1>4. /\ group_ids' \in [Job -> Seq(Nat)]
      /\ \A k \in Job : k # j => group_ids'[k] = group_ids[k]
      /\ Len(group_ids'[j]) = n + 1
      /\ group_ids'[j][n + 1] = g
      /\ \A i \in 1..n : group_ids'[j][i] = group_ids[j][i]
      /\ \A i \in 1..Len(group_ids'[j]) : i \in 1..n \/ i = n + 1
  BY <1>1, <1>3, ListGrows
<1>. HIDE DEF n
<1>5. /\ Ranked(good', SUBSET QP)
      /\ \A k \in Job : k # j => \A s \in Rank(k) : good'[k][s] = good[k][s]
      /\ good'[j][0] = good[j][0] \cup {n}
  <2>1. Ranked(good, SUBSET QP) /\ good[j][0] \cup {n} \in SUBSET QP /\ 0 \in Rank(j)
    BY <1>2, Ranks DEF LInv, Types, Ranked, QP, n
  <2>2. good' = [good EXCEPT ![j][0] = good[j][0] \cup {n}]
    BY <1>1
  <2>3. Ranked(good', SUBSET QP) /\ Changes(good, good', j, 0, good[j][0] \cup {n})
    BY <2>1, <2>2, RankedUpdate, Zenon
  <2>. QED
    BY <2>1, <2>3 DEF Changes
<1>6. Types'
  <2>1. Ranked(pc', Places) /\ Ranked(call', Nat) /\ Ranked(posted', [QP -> Nat])
        /\ Ranked(done', [QP -> Nat]) /\ Ranked(failed', SUBSET QP)
    BY <1>1 DEF LInv, Types
  <2>. QED
    BY <2>1, <1>1, <1>3, <1>4, <1>5 DEF LInv, Types
<1>7. Phases'
  <2>1. Len(group_ids'[j]) <= 2
    <3>1. n \in 0..1
      BY <1>2 DEF n
    <3>2. \A m \in 0..1 : m + 1 <= 2
      OBVIOUS
    <3>. QED
      BY <3>1, <3>2, <1>4
  <2>. QED
    BY <2>1, <1>1, <1>4 DEF LInv, Phases
<1>8. ListedIsOwn'
  <2>. SUFFICES ASSUME NEW k \in Job, NEW i \in 1..Len(group_ids'[k]), group_ids'[k][i] # NullGroup
                PROVE  /\ group_ids'[k][i] \in DOMAIN undo'
                       /\ undo'[group_ids'[k][i]] = <<k, EntryQP(k, i)'>>
    BY DEF ListedIsOwn
  <2>1. CASE k # j
    <3>1. group_ids'[k] = group_ids[k] /\ EntryQP(k, i)' = EntryQP(k, i)
      BY <2>1, <1>1, <1>4 DEF EntryQP
    <3>. QED
      BY <3>1, <1>3 DEF LInv, ListedIsOwn
  <2>2. CASE k = j /\ i \in 1..n
    <3>1. group_ids'[k][i] = group_ids[k][i] /\ EntryQP(k, i)' = EntryQP(k, i)
      BY <2>2, <1>1, <1>4 DEF EntryQP
    <3>2. i \in 1..Len(group_ids[k])
      BY <2>2 DEF n
    <3>. QED
      BY <3>1, <3>2, <1>3 DEF LInv, ListedIsOwn
  <2>3. CASE k = j /\ i = n + 1
    <3>1. EntryQP(k, i)' = n
      BY <2>3, <1>1, <1>2 DEF EntryQP, n
    <3>. QED
      BY <3>1, <2>3, <1>3, <1>4
  <2>. QED
    BY <2>1, <2>2, <2>3, <1>4
<1>9. OwnIsListed'
  <2>. SUFFICES ASSUME NEW h \in DOMAIN undo', NEW k \in Job, NEW q \in QP, undo'[h] = <<k, q>>, ~lost[k]
                PROVE  \E i \in 1..Len(group_ids'[k]) : group_ids'[k][i] = h
    BY <1>1 DEF OwnIsListed
  <2>1. CASE h = g
    <3>1. k = j
      BY <2>1, <1>3
    <3>2. n + 1 \in 1..Len(group_ids'[j])
      BY <1>2, <1>4 DEF n
    <3>. QED
      BY <3>1, <3>2, <2>1, <1>4
  <2>2. CASE h \in DOMAIN undo
    <3>0. undo[h] = <<k, q>>
      BY <2>2, <1>3
    <3>1. PICK i \in 1..Len(group_ids[k]) : group_ids[k][i] = h
      BY <3>0, <2>2 DEF LInv, OwnIsListed
    <3>2. CASE k # j
      BY <3>1, <3>2, <1>4
    <3>3. CASE k = j
      <4>1. i \in 1..n /\ i \in 1..Len(group_ids'[j])
        BY <3>1, <3>3, <1>2, <1>4 DEF n
      <4>. QED
        BY <4>1, <3>1, <3>3, <1>4
    <3>. QED
      BY <3>2, <3>3
  <2>. QED
    BY <2>1, <2>2, <1>3
<1>10. Addresses'
  <2>1. \/ good'[j][0] = 0..(Len(group_ids'[j]) - 1)
        \/ \E i \in 1..Len(group_ids'[j]) : group_ids'[j][i] = NullGroup
    <3>1. CASE good[j][0] = 0..(n - 1)
      <4>1. good'[j][0] = 0..n /\ n = Len(group_ids'[j]) - 1
        BY <3>1, <1>2, <1>4, <1>5 DEF n
      <4>. QED
        BY <4>1
    <3>2. CASE \E i \in 1..n : group_ids[j][i] = NullGroup
      <4>1. \A i \in 1..n : i \in 1..Len(group_ids'[j])
        BY <1>2, <1>4 DEF n
      <4>. QED
        BY <4>1, <3>2, <1>4
    <3>. QED
      BY <3>1, <3>2, <1>1 DEF LInv, Addresses, n
  <2>2. ASSUME NEW k \in Job, k # j
        PROVE  good'[k][0] = good[k][0] /\ \A s \in Client(k) : good'[k][s] = good[k][s]
    BY <2>2, <1>5, Ranks
  <2>3. pc[j][0] \notin {"connect", "out", "in"}
    BY <1>1
  <2>4. ASSUME NEW k \in Job
        PROVE  /\ pc[k][0] \in {"start", "listen", "create", "connect", "out", "in"}
                    => \/ good'[k][0] = 0..(Len(group_ids'[k]) - 1)
                       \/ \E i \in 1..Len(group_ids'[k]) : group_ids'[k][i] = NullGroup
               /\ pc[k][0] \in {"connect", "out", "in"} =>
                    \A s \in Client(k) : pc[k][s] # "wait" => good'[k][s] = good'[k][0]
    <3>1. CASE k = j
      BY <3>1, <2>1, <2>3
    <3>2. CASE k # j
      <4>1. group_ids'[k] = group_ids[k]
        BY <3>2, <1>4
      <4>. QED
        BY <4>1, <3>2, <2>2 DEF LInv, Addresses
    <3>. QED
      BY <3>1, <3>2
  <2>. QED
    BY <2>4, <1>1 DEF Addresses
<1>11. Messages' /\ Sums'
  BY <1>1 DEF LInv, Messages, Sums
<1>. QED
  BY <1>3, <1>6, <1>7, <1>8, <1>9, <1>10, <1>11 DEF LInv
\* Rank 0 dies in the constructor; its clients are still waiting.
LEMMA DeathKeeps ==
    ASSUME LInv, NEW j \in Job, pc[j][0] = "create", Goto(j, 0, "dead"), UNCHANGED <<group_ids, good>>
    PROVE  /\ Ranked(pc', Places) /\ Phases' /\ Addresses'
           /\ \A k \in Job : \A s \in Rank(k) : pc'[k][s] = IF k = j /\ s = 0 THEN "dead" ELSE pc[k][s]
<1>1. /\ Ranked(pc', Places)
      /\ \A k \in Job : \A s \in Rank(k) : pc'[k][s] = IF k = j /\ s = 0 THEN "dead" ELSE pc[k][s]
  BY Ranks, Moved DEF Places
<1>2. Phases'
  BY <1>1, Ranks DEF LInv, Phases
<1>3. Addresses'
  BY <1>1, Ranks DEF LInv, Addresses
<1>. QED
  BY <1>1, <1>2, <1>3

\* The controller refuses: rank 0 dies, or goes on with an address that is none.
LEMMA CreateRefusedStep ==
    ASSUME LInv, NEW j \in Job, CreateRefused(j)
    PROVE  LInv'
<1>1. /\ pc[j][0] = "create" /\ ~AllCreated(j)
      /\ UNCHANGED <<free_group, undo, arrived, reduced, call, posted, done, failed, lost>>
  BY DEF CreateRefused, controller, network
<1>2. CASE Goto(j, 0, "dead") /\ UNCHANGED <<group_ids, good>>
  <2>1. /\ Ranked(pc', Places) /\ Phases' /\ Addresses'
        /\ \A k \in Job : \A s \in Rank(k) : pc'[k][s] = IF k = j /\ s = 0 THEN "dead" ELSE pc[k][s]
    BY <1>1, <1>2, DeathKeeps
  <2>2. Types'
    BY <1>1, <1>2, <2>1 DEF LInv, Types
  <2>3. Numbers' /\ ListedIsOwn' /\ OwnIsListed'
    BY <1>1, <1>2, <2>1, Ranks, ListsKept
  <2>4. Messages'
    BY <1>1, <2>1 DEF LInv, Messages
  <2>5. Sums'
    BY <1>1 DEF LInv, Sums
  <2>. QED
    BY <2>1, <2>2, <2>3, <2>4, <2>5 DEF LInv
<1>3. CASE /\ group_ids' = [group_ids EXCEPT ![j] = Remember(@, NullGroup)]
           /\ good' = [good EXCEPT ![j][0] = {}]
           /\ UNCHANGED pc
  <2>. DEFINE n == Len(group_ids[j])
  <2>1. /\ group_ids' \in [Job -> Seq(Nat)]
        /\ \A k \in Job : k # j => group_ids'[k] = group_ids[k]
        /\ n \in 0..1 /\ Len(group_ids'[j]) = n + 1
        /\ group_ids'[j][n + 1] = NullGroup
        /\ \A i \in 1..n : group_ids'[j][i] = group_ids[j][i]
        /\ \A i \in 1..Len(group_ids'[j]) : i \in 1..n \/ i = n + 1
    BY <1>1, <1>3, ListGrows DEF NullGroup
  <2>. HIDE DEF n
  <2>2. /\ Ranked(good', SUBSET QP)
        /\ \A k \in Job : k # j => \A s \in Rank(k) : good'[k][s] = good[k][s]
    <3>1. Ranked(good, SUBSET QP) /\ {} \in SUBSET QP /\ 0 \in Rank(j)
      BY Ranks DEF LInv, Types
    <3>2. Ranked(good', SUBSET QP) /\ Changes(good, good', j, 0, {})
      BY <3>1, <1>3, RankedUpdate, Zenon
    <3>. QED
      BY <3>2 DEF Changes
  <2>3. Types'
    BY <1>1, <1>3, <2>1, <2>2 DEF LInv, Types
  <2>4. Numbers'
    BY <1>1 DEF LInv, Numbers
  <2>5. Phases'
    <3>1. \A m \in 0..1 : m + 1 <= 2
      OBVIOUS
    <3>2. Len(group_ids'[j]) <= 2
      BY <3>1, <2>1
    <3>. QED
      BY <3>2, <2>1, <1>1, <1>3 DEF LInv, Phases
  <2>6. ListedIsOwn'
    <3>. SUFFICES ASSUME NEW k \in Job, NEW i \in 1..Len(group_ids'[k]), group_ids'[k][i] # NullGroup
                  PROVE  /\ group_ids'[k][i] \in DOMAIN undo
                         /\ undo[group_ids'[k][i]] = <<k, EntryQP(k, i)'>>
      BY <1>1 DEF ListedIsOwn
    <3>1. i \in 1..Len(group_ids[k]) /\ group_ids'[k][i] = group_ids[k][i]
      BY <2>1 DEF n
    <3>2. EntryQP(k, i)' = EntryQP(k, i)
      <4>1. CASE k = j
        BY <4>1, <1>1, <1>3 DEF EntryQP
      <4>2. CASE k # j
        BY <4>2, <2>1, <1>3 DEF EntryQP
      <4>. QED
        BY <4>1, <4>2
    <3>. QED
      BY <3>1, <3>2 DEF LInv, ListedIsOwn
  <2>7. OwnIsListed'
    <3>. SUFFICES ASSUME NEW h \in DOMAIN undo, NEW k \in Job, NEW q \in QP, undo[h] = <<k, q>>, ~lost[k]
                  PROVE  \E i \in 1..Len(group_ids'[k]) : group_ids'[k][i] = h
      BY <1>1 DEF OwnIsListed
    <3>1. PICK i \in 1..Len(group_ids[k]) : group_ids[k][i] = h
      BY DEF LInv, OwnIsListed
    <3>2. i \in 1..Len(group_ids'[k]) /\ group_ids'[k][i] = group_ids[k][i]
      <4>1. CASE k = j
        BY <4>1, <3>1, <2>1, SMTT(30) DEF n
      <4>2. CASE k # j
        BY <4>2, <3>1, <2>1
      <4>. QED
        BY <4>1, <4>2
    <3>. QED
      BY <3>1, <3>2
  <2>8. Addresses'
    <3>1. \E i \in 1..Len(group_ids'[j]) : group_ids'[j][i] = NullGroup
      BY <2>1
    <3>2. ASSUME NEW k \in Job, k # j
          PROVE  /\ good'[k][0] = good[k][0] /\ \A s \in Client(k) : good'[k][s] = good[k][s]
                 /\ group_ids'[k] = group_ids[k]
      BY <3>2, <2>1, <2>2, Ranks
    <3>. QED
      BY <3>1, <3>2, <1>1, <1>3 DEF LInv, Addresses
  <2>9. Messages' /\ Sums'
    BY <1>1, <1>3 DEF LInv, Messages, Sums
  <2>. QED
    BY <2>3, <2>4, <2>5, <2>6, <2>7, <2>8, <2>9 DEF LInv
<1>. QED
  BY <1>2, <1>3 DEF CreateRefused

\* The RPC of a creation is lost: rank 0 dies, and perhaps leaves a group behind.
LEMMA CreateFailsStep ==
    ASSUME LInv, NEW j \in Job, CreateFails(j)
    PROVE  LInv'
<1>1. /\ pc[j][0] = "create" /\ ~AllCreated(j) /\ Goto(j, 0, "dead")
      /\ UNCHANGED <<free_group, undo>> \/ Create(j, Len(group_ids[j]))
      /\ lost' = [lost EXCEPT ![j] = TRUE]
      /\ UNCHANGED <<arrived, reduced, group_ids, good, call, posted, done, failed>>
  BY DEF CreateFails, controller, network, NextQP
<1>2. /\ Ranked(pc', Places) /\ Phases' /\ Addresses'
      /\ \A k \in Job : \A s \in Rank(k) : pc'[k][s] = IF k = j /\ s = 0 THEN "dead" ELSE pc[k][s]
  BY <1>1, DeathKeeps
<1>3. Len(group_ids[j]) \in QP
  <2>1. Len(group_ids[j]) \in Nat /\ Len(group_ids[j]) <= 2 /\ Len(group_ids[j]) # 2
    BY <1>1, QPCount DEF LInv, Types, Phases, AllCreated, NextQP
  <2>2. \A m \in Nat : m <= 2 /\ m # 2 => m \in 0..1
    OBVIOUS
  <2>. QED
    BY <2>1, <2>2 DEF QP
<1>4. /\ Numbers' /\ free_group' \in Seq(Nat \ {0})
      /\ \A h \in DOMAIN undo : h \in DOMAIN undo' /\ undo'[h] = undo[h]
      /\ \A h \in DOMAIN undo' : h \in DOMAIN undo \/ undo'[h][1] = j
  <2>1. CASE UNCHANGED <<free_group, undo>>
    BY <2>1 DEF LInv, Numbers, Types
  <2>2. CASE Create(j, Len(group_ids[j]))
    BY <2>2, <1>3, CreateEffect
  <2>. QED
    BY <2>1, <2>2, <1>1
<1>5. lost' \in [Job -> BOOLEAN] /\ lost'[j] /\ \A k \in Job : k # j => lost'[k] = lost[k]
  BY <1>1 DEF LInv, Types
<1>6. Types'
  BY <1>1, <1>2, <1>4, <1>5 DEF LInv, Types
<1>7. ListedIsOwn'
  <2>1. \A k \in Job : (pc'[k][0] = "leave") = (pc[k][0] = "leave")
    BY <1>1, <1>2, Ranks
  <2>2. \A k \in Job : \A i \in 1..Len(group_ids[k]) : EntryQP(k, i)' = EntryQP(k, i)
    BY <2>1, <1>1 DEF EntryQP
  <2>. QED
    BY <2>2, <1>1, <1>4 DEF LInv, ListedIsOwn
<1>8. OwnIsListed'
  <2>. SUFFICES ASSUME NEW h \in DOMAIN undo', NEW k \in Job, NEW q \in QP, undo'[h] = <<k, q>>, ~lost'[k]
                PROVE  \E i \in 1..Len(group_ids'[k]) : group_ids'[k][i] = h
    BY DEF OwnIsListed
  <2>1. k # j /\ ~lost[k]
    BY <1>5
  <2>2. h \in DOMAIN undo /\ undo[h] = <<k, q>>
    BY <2>1, <1>4
  <2>. QED
    BY <2>1, <2>2, <1>1 DEF LInv, OwnIsListed
<1>9. Messages'
  BY <1>1, <1>2 DEF LInv, Messages
<1>10. Sums'
  BY <1>1 DEF LInv, Sums
<1>. QED
  BY <1>2, <1>4, <1>6, <1>7, <1>8, <1>9, <1>10 DEF LInv

\* Rank 0 takes the first number off its list, with the group it stands for.
LEMMA ListShrinksStep ==
    ASSUME LInv, NEW j \in Job, pc[j][0] = "leave", group_ids[j] # << >>,
           \/ Destroy(Head(group_ids[j])) /\ UNCHANGED lost
           \/ /\ UNCHANGED <<free_group, undo>> \/ Destroy(Head(group_ids[j]))
              /\ lost' = [lost EXCEPT ![j] = TRUE],
           group_ids' = [group_ids EXCEPT ![j] = Tail(group_ids[j])],
           UNCHANGED <<arrived, reduced, pc, good, call, posted, done, failed>>
    PROVE  LInv'
<1>. DEFINE id == Head(group_ids[j])
            n == Len(group_ids[j])
<1>1. /\ group_ids \in [Job -> Seq(Nat)] /\ group_ids[j] \in Seq(Nat)
      /\ n \in Nat /\ n <= 2 /\ lost \in [Job -> BOOLEAN]
  BY DEF LInv, Types, Phases
<1>2. /\ Tail(group_ids[j]) \in Seq(Nat) /\ id \in Nat /\ id = group_ids[j][1] /\ 1 \in 1..n
      /\ Len(Tail(group_ids[j])) = n - 1
      /\ \A i \in 1..Len(Tail(group_ids[j])) : i + 1 \in 1..n /\ Tail(group_ids[j])[i] = group_ids[j][i + 1]
  BY <1>1, TailAt
<1>3. /\ group_ids'[j] = Tail(group_ids[j]) /\ \A k \in Job : k # j => group_ids'[k] = group_ids[k]
      /\ group_ids' \in [Job -> Seq(Nat)]
  BY <1>1, <1>2
<1>4. /\ Numbers' /\ free_group' \in Seq(Nat \ {0})
      /\ DOMAIN undo' \subseteq DOMAIN undo /\ \A h \in DOMAIN undo \ DOMAIN undo' : h = id
      /\ \A h \in DOMAIN undo' : undo'[h] = undo[h]
      /\ ~lost'[j] => id \notin DOMAIN undo'
      /\ lost' \in [Job -> BOOLEAN] /\ \A k \in Job : ~lost'[k] => ~lost[k]
  <2>1. ASSUME Destroy(id)
        PROVE  /\ Numbers' /\ free_group' \in Seq(Nat \ {0})
               /\ DOMAIN undo' = DOMAIN undo \ {id}
               /\ \A h \in DOMAIN undo' : undo'[h] = undo[h]
    BY <2>1, <1>2, DestroyEffect
  <2>2. lost' \in [Job -> BOOLEAN] /\ \A k \in Job : ~lost'[k] => ~lost[k]
    BY <1>1
  <2>3. CASE Destroy(id)
    BY <2>1, <2>2, <2>3
  <2>4. CASE UNCHANGED <<free_group, undo>> /\ lost' = [lost EXCEPT ![j] = TRUE]
    <3>1. Numbers' /\ free_group' \in Seq(Nat \ {0})
      BY <2>4 DEF LInv, Numbers, Types
    <3>2. lost'[j]
      BY <2>4, <1>1
    <3>. QED
      BY <3>1, <3>2, <2>2, <2>4
  <2>. QED
    BY <2>3, <2>4
<1>. HIDE DEF id, n
<1>5. Types'
  BY <1>3, <1>4 DEF LInv, Types
<1>6. Phases'
  <2>1. Len(group_ids'[j]) <= 2
    BY <1>1, <1>2, <1>3
  <2>. QED
    BY <2>1, <1>3 DEF LInv, Phases
<1>7. ASSUME NEW k \in Job, NEW i \in 1..Len(group_ids[k]), group_ids[k][i] # NullGroup, k # j \/ i # 1
      PROVE  group_ids[k][i] # id
  <2>1. group_ids[k][i] \in DOMAIN undo /\ undo[group_ids[k][i]] = <<k, EntryQP(k, i)>>
    BY <1>7 DEF LInv, ListedIsOwn
  <2>2. SUFFICES ASSUME group_ids[k][i] = id PROVE FALSE
    OBVIOUS
  <2>3. undo[id] = <<j, EntryQP(j, 1)>>
    BY <2>2, <1>2, <1>7 DEF LInv, ListedIsOwn, n
  <2>4. k = j /\ EntryQP(j, i) = EntryQP(j, 1)
    BY <2>1, <2>2, <2>3
  <2>5. i + 1 - n = 1 + 1 - n /\ i \in Int
    BY <2>4 DEF EntryQP, n
  <2>. QED
    BY <2>4, <2>5, <1>1, <1>7
<1>8. ListedIsOwn'
  <2>. SUFFICES ASSUME NEW k \in Job, NEW i \in 1..Len(group_ids'[k]), group_ids'[k][i] # NullGroup
                PROVE  /\ group_ids'[k][i] \in DOMAIN undo'
                       /\ undo'[group_ids'[k][i]] = <<k, EntryQP(k, i)'>>
    BY DEF ListedIsOwn
  <2>1. CASE k # j
    <3>1. group_ids'[k] = group_ids[k] /\ EntryQP(k, i)' = EntryQP(k, i)
      BY <2>1, <1>3 DEF EntryQP
    <3>2. group_ids[k][i] \in DOMAIN undo /\ undo[group_ids[k][i]] = <<k, EntryQP(k, i)>>
      BY <3>1 DEF LInv, ListedIsOwn
    <3>3. group_ids[k][i] # id
      BY <3>1, <2>1, <1>7
    <3>. QED
      BY <3>1, <3>2, <3>3, <1>4
  <2>2. CASE k = j
    <3>1. i + 1 \in 1..Len(group_ids[j]) /\ group_ids'[j][i] = group_ids[j][i + 1] /\ i \in Int
      BY <2>2, <1>2, <1>3 DEF n
    <3>2. EntryQP(j, i)' = EntryQP(j, i + 1)
      <4>1. i + 1 - (n - 1) = (i + 1) + 1 - n
        BY <3>1, <1>1
      <4>. QED
        BY <4>1, <1>2, <1>3 DEF EntryQP, n
    <3>3. group_ids[j][i + 1] \in DOMAIN undo /\ undo[group_ids[j][i + 1]] = <<j, EntryQP(j, i + 1)>>
      BY <3>1, <2>2 DEF LInv, ListedIsOwn
    <3>4. i + 1 # 1
      BY <2>2
    <3>5. group_ids[j][i + 1] # id
      BY <3>1, <3>4, <2>2, <1>7
    <3>. QED
      BY <3>1, <3>2, <3>3, <3>5, <2>2, <1>4
  <2>. QED
    BY <2>1, <2>2
<1>9. OwnIsListed'
  <2>1. ASSUME NEW h \in DOMAIN undo', NEW k \in Job, NEW q \in QP, undo'[h] = <<k, q>> /\ ~lost'[k]
        PROVE  \E i \in 1..Len(group_ids'[k]) : group_ids'[k][i] = h
    <3>1. h \in DOMAIN undo /\ undo[h] = <<k, q>> /\ ~lost[k]
      <4>1. h \in DOMAIN undo /\ undo'[h] = undo[h]
        BY <2>1, <1>4
      <4>2. ~lost[k]
        BY <2>1, <1>4, Zenon
      <4>. QED
        BY <2>1, <4>1, <4>2
    <3>2. PICK i \in 1..Len(group_ids[k]) : group_ids[k][i] = h
      BY <3>1 DEF LInv, OwnIsListed
    <3>3. CASE k # j
      BY <3>2, <3>3, <1>3
    <3>4. CASE k = j
      <4>1. i # 1
        <5>1. id \notin DOMAIN undo'
          BY <2>1, <3>4, <1>4, Zenon
        <5>2. group_ids[j][i] = h /\ group_ids[j][1] = id
          BY <3>2, <3>4, <1>2
        <5>. QED
          BY <5>1, <5>2, Zenon
      <4>2. i - 1 \in 1..Len(Tail(group_ids[j])) /\ (i - 1) + 1 = i
        BY <4>1, <3>2, <3>4, <1>1, <1>2 DEF n
      <4>3. Tail(group_ids[j])[i - 1] = h
        BY <4>2, <3>2, <3>4, <1>2
      <4>. QED
        BY <4>2, <4>3, <3>4, <1>3
    <3>. QED
      BY <3>3, <3>4
  <2>. QED
    BY <2>1, Zenon DEF OwnIsListed
<1>10. Addresses'
  BY <1>3 DEF LInv, Addresses
<1>11. Messages' /\ Sums'
  BY DEF LInv, Messages, Sums
<1>. QED
  BY <1>4, <1>5, <1>6, <1>8, <1>9, <1>10, <1>11 DEF LInv

\* Rank 0 is through with its list, and ends.
LEMMA LeaveStep ==
    ASSUME LInv, NEW j \in Job, Leave(j)
    PROVE  LInv'
<1>1. /\ pc[j][0] = "leave" /\ group_ids[j] = << >> /\ Goto(j, 0, "gone")
      /\ failed' = [failed EXCEPT ![j][0] = {}]
      /\ UNCHANGED <<free_group, undo, arrived, reduced, group_ids, good, call, posted, done, lost>>
  BY DEF Leave, controller, network
<1>2. /\ Ranked(pc', Places)
      /\ \A k \in Job : \A s \in Rank(k) : pc'[k][s] = IF k = j /\ s = 0 THEN "gone" ELSE pc[k][s]
  BY <1>1, Ranks, Moved DEF Places
<1>3. Ranked(failed', SUBSET QP) /\ Changes(failed, failed', j, 0, {})
  <2>1. Ranked(failed, SUBSET QP) /\ {} \in SUBSET QP /\ 0 \in Rank(j)
    BY Ranks DEF LInv, Types
  <2>. QED
    BY <2>1, <1>1, RankedUpdate, Zenon
<1>4. Types'
  BY <1>1, <1>2, <1>3 DEF LInv, Types
<1>5. Numbers' /\ ListedIsOwn' /\ OwnIsListed'
  <2>1. ASSUME NEW k \in Job, NEW i \in 1..Len(group_ids[k]) PROVE (pc'[k][0] = "leave") = (pc[k][0] = "leave")
    <3>1. CASE k = j
      <4>1. 1..Len(group_ids[j]) = {}
        BY <1>1
      <4>. QED
        BY <4>1, <3>1
    <3>2. CASE k # j
      BY <3>2, <1>2, Ranks
    <3>. QED
      BY <3>1, <3>2
  <2>. QED
    BY <2>1, <1>1, ListsKept
<1>6. Phases'
  BY <1>1, <1>2, Ranks DEF LInv, Phases
<1>7. Addresses'
  BY <1>1, <1>2, Ranks DEF LInv, Addresses
<1>8. Messages'
  BY <1>1, <1>2, <1>3 DEF LInv, Messages, Changes
<1>9. Sums'
  BY <1>1 DEF LInv, Sums
<1>. QED
  BY <1>4, <1>5, <1>6, <1>7, <1>8, <1>9 DEF LInv

\* The object is destroyed after the last call.
LEMMA DestructStep ==
    ASSUME LInv, NEW j \in Job, NEW r \in Rank(j), Destruct(j, r)
    PROVE  LInv'
<1>. DEFINE place == IF r = 0 THEN "leave" ELSE "gone"
<1>1. /\ pc[j][r] = "out" /\ call[j][r] = Len(Calls[j]) /\ Goto(j, r, place)
      /\ failed' = [failed EXCEPT ![j][r] = IF r = 0 THEN @ ELSE {}]
      /\ UNCHANGED <<free_group, undo, arrived, reduced, group_ids, good, call, posted, done, lost>>
  BY DEF Destruct, controller, network
<1>2. /\ Ranked(pc', Places)
      /\ \A k \in Job : \A s \in Rank(k) : pc'[k][s] = IF k = j /\ s = r THEN place ELSE pc[k][s]
  <2>1. place \in Places
    BY DEF Places
  <2>. HIDE DEF place
  <2>. QED
    BY <2>1, <1>1, Moved
<1>. DEFINE bad == IF r = 0 THEN failed[j][r] ELSE {}
<1>3. Ranked(failed', SUBSET QP) /\ Changes(failed, failed', j, r, bad)
  <2>1. Ranked(failed, SUBSET QP) /\ bad \in SUBSET QP
    BY DEF LInv, Types, Ranked
  <2>2. failed' = [failed EXCEPT ![j][r] = bad]
    BY <1>1
  <2>. HIDE DEF bad
  <2>. QED
    BY <2>1, <2>2, RankedUpdate, Zenon
<1>4. Types'
  BY <1>1, <1>2, <1>3 DEF LInv, Types
<1>5. Numbers' /\ ListedIsOwn' /\ OwnIsListed'
  <2>1. ASSUME NEW k \in Job
        PROVE  (pc'[k][0] = "leave") = (pc[k][0] = "leave") \/ Len(group_ids[k]) = 2
    <3>1. CASE k = j /\ r = 0
      BY <3>1, <1>1 DEF LInv, Phases
    <3>2. CASE ~(k = j /\ r = 0)
      BY <3>2, <1>2, Ranks
    <3>. QED
      BY <3>1, <3>2
  <2>. QED
    BY <2>1, <1>1, ListsKept
<1>6. Phases'
  BY <1>1, <1>2, Ranks DEF LInv, Phases, Client
<1>7. Addresses'
  BY <1>1, <1>2, Ranks DEF LInv, Addresses, Client
<1>8. Messages'
  BY <1>1, <1>2, <1>3 DEF LInv, Messages, Changes
<1>9. Sums'
  BY <1>1 DEF LInv, Sums
<1>. QED
  BY <1>4, <1>5, <1>6, <1>7, <1>8, <1>9 DEF LInv

\* A call posts its messages; a failed queue pair flushes them.
LEMMA EnterStep ==
    ASSUME LInv, NEW j \in Job, NEW r \in Rank(j), Enter(j, r)
    PROVE  LInv'
<1>. DEFINE n == call[j][r]
            used == Calls[j][n + 1]
            p == [q \in QP |-> posted[j][r][q] + (IF q \in used THEN 1 ELSE 0)]
            d == [q \in QP |-> IF q \in failed[j][r] THEN p[q] ELSE done[j][r][q]]
<1>1. /\ pc[j][r] = "out" /\ n < Len(Calls[j]) /\ Goto(j, r, "in")
      /\ call' = [call EXCEPT ![j][r] = n + 1]
      /\ UNCHANGED <<free_group, undo, arrived, reduced, group_ids, good, failed, lost>>
  BY DEF Enter, controller, network
<1>2. /\ Ranked(pc', Places)
      /\ \A k \in Job : \A s \in Rank(k) : pc'[k][s] = IF k = j /\ s = r THEN "in" ELSE pc[k][s]
  BY <1>1, Moved DEF Places
<1>3. n \in Nat /\ posted[j][r] \in [QP -> Nat] /\ done[j][r] \in [QP -> Nat]
  BY DEF LInv, Types, Ranked
<1>4. Ranked(call', Nat) /\ Changes(call, call', j, r, n + 1)
  <2>1. Ranked(call, Nat) /\ n + 1 \in Nat
    BY <1>3 DEF LInv, Types
  <2>. HIDE DEF n
  <2>. QED
    BY <2>1, <1>1, RankedUpdate, Zenon
<1>5. Ranked(posted', [QP -> Nat]) /\ Changes(posted, posted', j, r, p)
  <2>1. Ranked(posted, [QP -> Nat]) /\ p \in [QP -> Nat]
    BY <1>3 DEF LInv, Types
  <2>2. posted' = [posted EXCEPT ![j][r] = p]
    BY DEF Enter
  <2>. HIDE DEF p
  <2>. QED
    BY <2>1, <2>2, RankedUpdate, Zenon
<1>6. Ranked(done', [QP -> Nat]) /\ Changes(done, done', j, r, d)
  <2>1. Ranked(done, [QP -> Nat]) /\ d \in [QP -> Nat]
    BY <1>3 DEF LInv, Types
  <2>2. done' = [done EXCEPT ![j][r] = d]
    <3>1. posted'[j][r] = p
      BY <1>5 DEF Changes
    <3>2. done' = [done EXCEPT ![j][r] = [q \in QP |-> IF q \in failed[j][r] THEN posted'[j][r][q] ELSE @[q]]]
      BY DEF Enter
    <3>3. [q \in QP |-> IF q \in failed[j][r] THEN posted'[j][r][q] ELSE done[j][r][q]] = d
      BY <3>1
    <3>. QED
      BY <3>2, <3>3
  <2>. HIDE DEF d
  <2>. QED
    BY <2>1, <2>2, RankedUpdate, Zenon
<1>7. Types'
  BY <1>1, <1>2, <1>4, <1>5, <1>6 DEF LInv, Types
<1>8. Numbers' /\ ListedIsOwn' /\ OwnIsListed'
  BY <1>1, <1>2, Ranks, ListsKept
<1>9. Phases'
  BY <1>1, <1>2, Ranks DEF LInv, Phases
<1>10. Addresses'
  BY <1>1, <1>2, Ranks DEF LInv, Addresses
<1>11. ASSUME NEW q \in QP
       PROVE  /\ p[q] \in Nat /\ d[q] \in Nat
              /\ p[q] = Uses(j, q, n + 1) /\ d[q] <= p[q] /\ p[q] <= d[q] + 1
              /\ posted[j][r][q] <= p[q]
              /\ q \notin failed[j][r] => d[q] <= reduced[j][q]
  <2>1. Uses(j, q, n + 1) = Uses(j, q, n) + (IF q \in used THEN 1 ELSE 0)
    BY <1>3, UsesCount
  <2>2. posted[j][r][q] = Uses(j, q, n) /\ done[j][r][q] = posted[j][r][q]
    BY <1>1 DEF LInv, Messages
  <2>3. q \notin failed[j][r] => done[j][r][q] <= reduced[j][q]
    BY <1>1 DEF LInv, Messages
  <2>. QED
    BY <2>1, <2>2, <2>3, <1>3
<1>12. n + 1 <= Len(Calls[j])
  BY <1>1, <1>3, LifetimeAssumption
<1>. HIDE DEF n, p, d
<1>13. Messages'
  <2>. SUFFICES ASSUME NEW k \in Job, NEW s \in Rank(k)
                PROVE  /\ call'[k][s] <= Len(Calls[k])
                       /\ pc'[k][s] \notin {"out", "in", "leave", "gone"} => call'[k][s] = 0
                       /\ pc'[k][s] = "leave" => call'[k][s] = Len(Calls[k])
                       /\ pc'[k][s] # "in" => done'[k][s] = posted'[k][s]
                       /\ \A q \in QP :
                            /\ posted'[k][s][q] = Uses(k, q, call'[k][s])
                            /\ done'[k][s][q] <= posted'[k][s][q] /\ posted'[k][s][q] <= done'[k][s][q] + 1
                            /\ pc'[k][s] # "gone" /\ q \notin failed'[k][s] => done'[k][s][q] <= reduced'[k][q]
    BY DEF Messages, Uses
  <2>1. CASE k = j /\ s = r
    <3>1. pc'[k][s] = "in" /\ call'[k][s] = n + 1 /\ posted'[k][s] = p /\ done'[k][s] = d
      BY <2>1, <1>2, <1>4, <1>5, <1>6 DEF Changes
    <3>. QED
      BY <3>1, <2>1, <1>1, <1>11, <1>12
  <2>2. CASE ~(k = j /\ s = r)
    <3>1. /\ pc'[k][s] = pc[k][s] /\ call'[k][s] = call[k][s]
          /\ posted'[k][s] = posted[k][s] /\ done'[k][s] = done[k][s]
      BY <2>2, <1>2, <1>4, <1>5, <1>6 DEF Changes
    <3>. QED
      BY <3>1, <1>1 DEF LInv, Messages
  <2>. QED
    BY <2>1, <2>2
<1>14. Sums'
  <2>1. ASSUME NEW k \in Job, NEW s \in Rank(k), NEW q \in QP
        PROVE  posted[k][s][q] \in Nat /\ posted'[k][s][q] \in Nat /\ posted[k][s][q] <= posted'[k][s][q]
    <3>1. posted[k][s][q] \in Nat
      BY DEF LInv, Types, Ranked
    <3>2. CASE k = j /\ s = r
      BY <3>1, <3>2, <1>5, <1>11 DEF Changes
    <3>3. CASE ~(k = j /\ s = r)
      <4>1. posted'[k][s] = posted[k][s]
        BY <3>3, <1>5 DEF Changes
      <4>. QED
        BY <4>1, <3>1
    <3>. QED
      BY <3>2, <3>3
  <2>2. \A k \in Job : \A q \in QP : reduced[k][q] \in Nat
    BY DEF LInv, Types
  <2>. SUFFICES ASSUME NEW k \in Job, NEW q \in QP
                PROVE  /\ arrived[k][q] \subseteq Rank(k)
                       /\ \A s \in Rank(k) : reduced[k][q] <= posted'[k][s][q]
                       /\ \A s \in arrived[k][q] : reduced[k][q] < posted'[k][s][q]
    BY <1>1 DEF Sums
  <2>3. /\ arrived[k][q] \subseteq Rank(k)
        /\ \A s \in Rank(k) : reduced[k][q] <= posted[k][s][q]
        /\ \A s \in arrived[k][q] : reduced[k][q] < posted[k][s][q]
    BY DEF LInv, Sums
  <2>. QED
    BY <2>1, <2>2, <2>3
<1>. QED
  BY <1>7, <1>8, <1>9, <1>10, <1>13, <1>14 DEF LInv

\* A step of the network or of a queue pair, inside a call: pc and the lists
\* stay, done grows up to posted.
LEMMA InsideCall ==
    ASSUME LInv,
           UNCHANGED <<free_group, undo, pc, group_ids, good, call, posted, lost>>,
           Ranked(done', [QP -> Nat]), Ranked(failed', SUBSET QP),
           arrived' \in [Job -> [QP -> SUBSET Int]], reduced' \in [Job -> [QP -> Nat]],
           \A k \in Job : \A s \in Rank(k) :
              /\ pc[k][s] # "in" => done'[k][s] = done[k][s]
              /\ \A q \in QP :
                   /\ done[k][s][q] <= done'[k][s][q] /\ done'[k][s][q] <= posted[k][s][q]
                   /\ pc[k][s] # "gone" /\ q \notin failed'[k][s] => done'[k][s][q] <= reduced'[k][q],
           Sums'
    PROVE  LInv'
<1>1. Types'
  BY DEF LInv, Types
<1>2. Numbers' /\ ListedIsOwn' /\ OwnIsListed'
  BY ListsKept
<1>3. Phases' /\ Addresses'
  BY DEF LInv, Phases, Addresses
<1>4. Messages'
  <2>. SUFFICES ASSUME NEW k \in Job, NEW s \in Rank(k)
                PROVE  /\ call[k][s] <= Len(Calls[k])
                       /\ pc[k][s] \notin {"out", "in", "leave", "gone"} => call[k][s] = 0
                       /\ pc[k][s] = "leave" => call[k][s] = Len(Calls[k])
                       /\ pc[k][s] # "in" => done'[k][s] = posted[k][s]
                       /\ \A q \in QP :
                            /\ posted[k][s][q] = Uses(k, q, call[k][s])
                            /\ done'[k][s][q] <= posted[k][s][q] /\ posted[k][s][q] <= done'[k][s][q] + 1
                            /\ pc[k][s] # "gone" /\ q \notin failed'[k][s] => done'[k][s][q] <= reduced'[k][q]
    BY DEF Messages, Uses
  <2>1. \A q \in QP : posted[k][s][q] \in Nat /\ done[k][s][q] \in Nat /\ done'[k][s][q] \in Nat
    BY DEF LInv, Types, Ranked
  <2>2. \A q \in QP : posted[k][s][q] <= done[k][s][q] + 1 /\ done[k][s][q] <= done'[k][s][q]
    BY DEF LInv, Messages
  <2>3. \A q \in QP : posted[k][s][q] <= done'[k][s][q] + 1
    BY <2>1, <2>2
  <2>. QED
    BY <2>3 DEF LInv, Messages
<1>. QED
  BY <1>1, <1>2, <1>3, <1>4 DEF LInv

\* A queue pair gives up.
LEMMA GiveUpStep ==
    ASSUME LInv, NEW j \in Job, NEW r \in Rank(j), NEW q \in QP, GiveUp(j, r, q)
    PROVE  LInv'
<1>. DEFINE bad == failed[j][r] \cup {q}
            d == [done[j][r] EXCEPT ![q] = posted[j][r][q]]
<1>1. /\ pc[j][r] = "in" /\ failed' = [failed EXCEPT ![j][r] = bad]
      /\ UNCHANGED <<free_group, undo, arrived, reduced, pc, group_ids, good, call, posted, lost>>
  BY DEF GiveUp, Outstanding, controller, network
<1>2. Ranked(failed', SUBSET QP) /\ Changes(failed, failed', j, r, bad)
  <2>1. Ranked(failed, SUBSET QP) /\ bad \in SUBSET QP
    BY DEF LInv, Types, Ranked
  <2>. HIDE DEF bad
  <2>. QED
    BY <2>1, <1>1, RankedUpdate, Zenon
<1>3. posted[j][r] \in [QP -> Nat] /\ done[j][r] \in [QP -> Nat]
  BY DEF LInv, Types, Ranked
<1>4. Ranked(done', [QP -> Nat]) /\ Changes(done, done', j, r, d)
  <2>1. Ranked(done, [QP -> Nat]) /\ d \in [QP -> Nat]
    BY <1>3 DEF LInv, Types
  <2>2. done' = [done EXCEPT ![j][r] = d]
    BY DEF GiveUp
  <2>. HIDE DEF d
  <2>. QED
    BY <2>1, <2>2, RankedUpdate, Zenon
<1>5. ASSUME NEW k \in Job, NEW s \in Rank(k)
      PROVE  /\ pc[k][s] # "in" => done'[k][s] = done[k][s]
             /\ \A o \in QP :
                  /\ done[k][s][o] <= done'[k][s][o] /\ done'[k][s][o] <= posted[k][s][o]
                  /\ pc[k][s] # "gone" /\ o \notin failed'[k][s] => done'[k][s][o] <= reduced[k][o]
  <2>1. \A o \in QP :
          /\ posted[k][s][o] \in Nat /\ done[k][s][o] \in Nat
          /\ done[k][s][o] <= posted[k][s][o]
          /\ pc[k][s] # "gone" /\ o \notin failed[k][s] => done[k][s][o] <= reduced[k][o]
    BY DEF LInv, Types, Ranked, Messages
  <2>2. CASE k = j /\ s = r
    <3>1. done'[k][s] = d /\ failed'[k][s] = bad
      BY <2>2, <1>2, <1>4 DEF Changes
    <3>2. \A o \in QP : d[o] = IF o = q THEN posted[j][r][q] ELSE done[j][r][o]
      BY <1>3
    <3>. HIDE DEF d
    <3>3. ASSUME NEW o \in QP
          PROVE  /\ done[k][s][o] <= d[o] /\ d[o] <= posted[k][s][o]
                 /\ pc[k][s] # "gone" /\ o \notin bad => d[o] <= reduced[k][o]
      <4>1. CASE o = q
        BY <4>1, <3>2, <2>1, <2>2
      <4>2. CASE o # q
        BY <4>2, <3>2, <2>1, <2>2
      <4>. QED
        BY <4>1, <4>2
    <3>. QED
      BY <3>1, <3>3, <2>2, <1>1
  <2>3. CASE ~(k = j /\ s = r)
    <3>1. done'[k][s] = done[k][s] /\ failed'[k][s] = failed[k][s]
      BY <2>3, <1>2, <1>4 DEF Changes
    <3>. HIDE DEF d, bad
    <3>. QED
      BY <3>1, <2>1
  <2>. QED
    BY <2>2, <2>3
<1>6. Sums'
  BY <1>1 DEF LInv, Sums
<1>7. arrived' \in [Job -> [QP -> SUBSET Int]] /\ reduced' \in [Job -> [QP -> Nat]]
  BY <1>1 DEF LInv, Types
<1>8. reduced' = reduced
  BY <1>1
<1>. QED
  BY <1>1, <1>2, <1>4, <1>5, <1>6, <1>7, <1>8, InsideCall

\* The ranks in to have their message on queue pair q answered.
LEMMA AnswerEffect ==
    ASSUME LInv, NEW j \in Job, NEW q \in QP, NEW to, Answered(j, q, to)
    PROVE  /\ Ranked(done', [QP -> Nat])
           /\ \A k \in Job : \A s \in Rank(k) : \A o \in QP :
                done'[k][s][o] = IF k = j /\ s \in to /\ o = q /\ Outstanding(j, s, q)
                                 THEN posted[j][s][q] ELSE done[k][s][o]
           /\ \A k \in Job : \A s \in Rank(k) : pc[k][s] # "in" => done'[k][s] = done[k][s]
<1>. DEFINE F == [s \in Rank(j) |-> IF s \in to /\ Outstanding(j, s, q)
                                   THEN [done[j][s] EXCEPT ![q] = posted[j][s][q]] ELSE done[j][s]]
<1>1. done' = [done EXCEPT ![j] = F]
  BY DEF Answered
<1>2. /\ DOMAIN done = Job /\ \A k \in Job : done[k] = [s \in Rank(k) |-> done[k][s]]
      /\ \A k \in Job : \A s \in Rank(k) : done[k][s] \in [QP -> Nat] /\ posted[k][s] \in [QP -> Nat]
  BY DEF LInv, Types, Ranked
<1>3. done' = [k \in Job |-> IF k = j THEN F ELSE done[k]]
  BY <1>1, <1>2
<1>4. \A s \in Rank(j) : F[s] \in [QP -> Nat]
  BY <1>2
<1>5. F = [s \in Rank(j) |-> F[s]]
  OBVIOUS
<1>6. /\ done'[j] = F /\ \A k \in Job : k # j => done'[k] = done[k]
      /\ DOMAIN done' = Job
  BY <1>3
<1>7. Ranked(done', [QP -> Nat])
  <2>. HIDE DEF F
  <2>1. \A k \in Job : done'[k] = [s \in Rank(k) |-> done'[k][s]]
    BY <1>2, <1>5, <1>6
  <2>2. done' = [k \in Job |-> done'[k]]
    BY <1>3, <1>6
  <2>3. \A k \in Job : \A s \in Rank(k) : done'[k][s] \in [QP -> Nat]
    BY <1>2, <1>4, <1>6
  <2>. QED
    BY <2>1, <2>2, <2>3 DEF Ranked
<1>8. ASSUME NEW s \in Rank(j), NEW o \in QP
      PROVE  F[s][o] = IF s \in to /\ o = q /\ Outstanding(j, s, q) THEN posted[j][s][q] ELSE done[j][s][o]
  BY <1>2
<1>9. ASSUME NEW s \in Rank(j), pc[j][s] # "in" PROVE F[s] = done[j][s]
  BY <1>9 DEF Outstanding
<1>. HIDE DEF F
<1>10. ASSUME NEW k \in Job, NEW s \in Rank(k), NEW o \in QP
       PROVE  done'[k][s][o] = IF k = j /\ s \in to /\ o = q /\ Outstanding(j, s, q)
                               THEN posted[j][s][q] ELSE done[k][s][o]
  BY <1>6, <1>8
<1>11. ASSUME NEW k \in Job, NEW s \in Rank(k), pc[k][s] # "in" PROVE done'[k][s] = done[k][s]
  BY <1>6, <1>9, <1>11
<1>. QED
  BY <1>7, <1>10, <1>11

\* A message of rank r reaches the switch.
LEMMA ArriveStep ==
    ASSUME LInv, NEW j \in Job, NEW r \in Rank(j), NEW q \in QP, Arrive(j, r, q)
    PROVE  LInv'
<1>. DEFINE ranks == arrived[j][q] \cup {r}
<1>1. /\ Outstanding(j, r, q)
      /\ UNCHANGED <<free_group, undo, pc, group_ids, good, call, posted, failed, lost>>
  BY DEF Arrive, controller
<1>2. Ranked(failed', SUBSET QP)
  BY <1>1 DEF LInv, Types
<1>3. ASSUME NEW k \in Job, NEW s \in Rank(k), NEW o \in QP
      PROVE  /\ posted[k][s][o] \in Nat /\ done[k][s][o] \in Nat /\ reduced[k][o] \in Nat
             /\ done[k][s][o] <= posted[k][s][o] /\ posted[k][s][o] <= done[k][s][o] + 1
             /\ reduced[k][o] <= posted[k][s][o]
             /\ pc[k][s] # "gone" /\ o \notin failed[k][s] => done[k][s][o] <= reduced[k][o]
  BY DEF LInv, Types, Ranked, Messages, Sums
<1>4. /\ arrived \in [Job -> [QP -> SUBSET Int]] /\ reduced \in [Job -> [QP -> Nat]]
      /\ arrived[j][q] \subseteq Rank(j) /\ \A s \in arrived[j][q] : reduced[j][q] < posted[j][s][q]
  BY DEF LInv, Types, Sums
<1>5. CASE reduced[j][q] >= posted[j][r][q] /\ Answered(j, q, {r}) /\ UNCHANGED network
  <2>1. UNCHANGED <<arrived, reduced>>
    BY <1>5 DEF network
  <2>2. /\ Ranked(done', [QP -> Nat])
        /\ \A k \in Job : \A s \in Rank(k) : pc[k][s] # "in" => done'[k][s] = done[k][s]
    BY <1>5, AnswerEffect
  <2>3. ASSUME NEW k \in Job, NEW s \in Rank(k), NEW o \in QP
        PROVE  /\ done[k][s][o] <= done'[k][s][o] /\ done'[k][s][o] <= posted[k][s][o]
               /\ pc[k][s] # "gone" /\ o \notin failed[k][s] => done'[k][s][o] <= reduced[k][o]
    <3>1. \/ done'[k][s][o] = done[k][s][o]
          \/ k = j /\ s = r /\ o = q /\ done'[k][s][o] = posted[k][s][o]
      BY <1>5, AnswerEffect
    <3>. QED
      BY <3>1, <1>3, <1>5
  <2>4. Sums'
    BY <2>1, <1>1 DEF LInv, Sums
  <2>5. failed' = failed /\ reduced' = reduced
    BY <2>1, <1>1
  <2>6. arrived' \in [Job -> [QP -> SUBSET Int]] /\ reduced' \in [Job -> [QP -> Nat]]
    BY <2>1, <1>4
  <2>. QED
    BY <2>2, <2>3, <2>4, <2>5, <2>6, <1>1, <1>2, InsideCall
<1>6. CASE /\ reduced[j][q] < posted[j][r][q] /\ Completes(j, q, ranks)
           /\ arrived' = [arrived EXCEPT ![j][q] = {}]
           /\ reduced' = [reduced EXCEPT ![j][q] = @ + 1]
           /\ \E to \in SUBSET Rank(j) : Answered(j, q, to)
  <2>1. PICK to \in SUBSET Rank(j) : Answered(j, q, to)
    BY <1>6
  <2>2. /\ Ranked(done', [QP -> Nat])
        /\ \A k \in Job : \A s \in Rank(k) : pc[k][s] # "in" => done'[k][s] = done[k][s]
    BY <2>1, AnswerEffect
  <2>3. arrived' \in [Job -> [QP -> SUBSET Int]] /\ reduced' \in [Job -> [QP -> Nat]]
    BY <1>4, <1>6
  <2>4. \A k \in Job : \A o \in QP :
          /\ reduced'[k][o] = IF k = j /\ o = q THEN reduced[j][q] + 1 ELSE reduced[k][o]
          /\ arrived'[k][o] = IF k = j /\ o = q THEN {} ELSE arrived[k][o]
    BY <1>4, <1>6
  <2>5. \A s \in Rank(j) : reduced[j][q] < posted[j][s][q]
    <3>1. Rank(j) = arrived[j][q] \cup {r}
      BY <1>6 DEF Completes
    <3>. QED
      BY <3>1, <1>4, <1>6
  <2>6. ASSUME NEW k \in Job, NEW s \in Rank(k), NEW o \in QP
        PROVE  /\ done[k][s][o] <= done'[k][s][o] /\ done'[k][s][o] <= posted[k][s][o]
               /\ pc[k][s] # "gone" /\ o \notin failed[k][s] => done'[k][s][o] <= reduced'[k][o]
    <3>1. \/ done'[k][s][o] = done[k][s][o]
          \/ k = j /\ o = q /\ done'[k][s][o] = posted[k][s][o]
      BY <2>1, AnswerEffect
    <3>2. reduced[k][o] <= reduced'[k][o] /\ reduced'[k][o] \in Nat
      BY <2>4, <1>3
    <3>3. CASE done'[k][s][o] = done[k][s][o]
      BY <3>2, <3>3, <1>3
    <3>4. CASE k = j /\ o = q /\ done'[k][s][o] = posted[k][s][o]
      <4>1. reduced'[k][o] = reduced[k][o] + 1
        BY <3>4, <2>4
      <4>. QED
        BY <4>1, <3>4, <1>3
    <3>. QED
      BY <3>1, <3>3, <3>4
  <2>7. Sums'
    <3>. SUFFICES ASSUME NEW k \in Job, NEW o \in QP
                  PROVE  /\ arrived'[k][o] \subseteq Rank(k)
                         /\ \A s \in Rank(k) : reduced'[k][o] <= posted[k][s][o]
                         /\ \A s \in arrived'[k][o] : reduced'[k][o] < posted[k][s][o]
      BY <1>1 DEF Sums
    <3>1. CASE k = j /\ o = q
      <4>1. reduced'[k][o] = reduced[j][q] + 1 /\ arrived'[k][o] = {}
        BY <3>1, <2>4
      <4>. QED
        BY <4>1, <3>1, <2>5, <1>3
    <3>2. CASE ~(k = j /\ o = q)
      <4>1. reduced'[k][o] = reduced[k][o] /\ arrived'[k][o] = arrived[k][o]
        BY <3>2, <2>4
      <4>. QED
        BY <4>1 DEF LInv, Sums
    <3>. QED
      BY <3>1, <3>2
  <2>8. failed' = failed
    BY <1>1
  <2>. QED
    BY <2>2, <2>3, <2>6, <2>7, <2>8, <1>1, <1>2, InsideCall
<1>7. CASE /\ reduced[j][q] < posted[j][r][q] /\ arrived' = [arrived EXCEPT ![j][q] = ranks]
           /\ UNCHANGED <<reduced, done>>
  <2>1. ranks \subseteq Rank(j) /\ ranks \subseteq Int
    BY <1>4, Ranks
  <2>2. arrived' \in [Job -> [QP -> SUBSET Int]] /\ reduced' \in [Job -> [QP -> Nat]]
    BY <2>1, <1>4, <1>7
  <2>3. \A k \in Job : \A o \in QP : arrived'[k][o] = IF k = j /\ o = q THEN ranks ELSE arrived[k][o]
    BY <1>4, <1>7
  <2>4. \A s \in ranks : reduced[j][q] < posted[j][s][q]
    BY <1>4, <1>7
  <2>. HIDE DEF ranks
  <2>5. Sums'
    BY <2>1, <2>3, <2>4, <1>1, <1>7 DEF LInv, Sums
  <2>6. Ranked(done', [QP -> Nat])
    BY <1>7 DEF LInv, Types
  <2>7. failed' = failed /\ reduced' = reduced /\ done' = done
    BY <1>1, <1>7
  <2>. QED
    BY <2>2, <2>5, <2>6, <2>7, <1>1, <1>2, <1>3, InsideCall
<1>. QED
  BY <1>5, <1>6, <1>7 DEF Arrive

\* Rank 0 returns a group, or its RPC is lost.
LEMMA ReturnGroupStep ==
    ASSUME LInv, NEW j \in Job, ReturnGroup(j) \/ ReturnFails(j)
    PROVE  LInv'
<1>1. CASE ReturnGroup(j)
  BY <1>1, ListShrinksStep DEF ReturnGroup, Remaining, network
<1>2. CASE ReturnFails(j)
  BY <1>2, ListShrinksStep DEF ReturnFails, Remaining, network, controller
<1>. QED
  BY <1>1, <1>2

\* Every step keeps the invariant.
LEMMA StepInv == LInv /\ [Next]_vars => LInv'
<1>. SUFFICES ASSUME LInv, [Next]_vars PROVE LInv'
  OBVIOUS
<1>1. CASE UNCHANGED vars
  <2>1. UNCHANGED <<free_group, undo, pc, group_ids, good, call, posted, done, failed, arrived, reduced, lost>>
    BY <1>1 DEF vars
  <2>2. Numbers' /\ ListedIsOwn' /\ OwnIsListed'
    BY <2>1, ListsKept
  <2>3. Types'
    BY <2>1 DEF LInv, Types
  <2>4. Phases' /\ Addresses'
    BY <2>1 DEF LInv, Phases, Addresses
  <2>5. Messages'
    BY <2>1 DEF LInv, Messages
  <2>6. Sums'
    BY <2>1 DEF LInv, Sums
  <2>. QED
    BY <2>2, <2>3, <2>4, <2>5, <2>6 DEF LInv
<1>2. ASSUME NEW j \in Job, Hub(j) PROVE LInv'
  BY <1>2, ListenStep, AcceptStep, CreateGroupStep, CreateRefusedStep, ScatterStep, ReturnGroupStep,
     LeaveStep DEF Hub
<1>3. ASSUME NEW j \in Job, NEW r \in Rank(j), Member(j, r) PROVE LInv'
  BY <1>3, ModifyQPsStep, EnterStep, ReturnStep, DestructStep DEF Member
<1>4. ASSUME NEW j \in Job, CreateFails(j) \/ ReturnFails(j) PROVE LInv'
  BY <1>4, CreateFailsStep, ReturnGroupStep
<1>5. ASSUME NEW j \in Job, NEW r \in Rank(j), NEW q \in QP, Arrive(j, r, q) \/ GiveUp(j, r, q) PROVE LInv'
  BY <1>5, ArriveStep, GiveUpStep
<1>6. ASSUME NEW j \in Job, NEW r \in Client(j), Connect(j, r) \/ ReadAddresses(j, r) PROVE LInv'
  BY <1>6, Ranks, ConnectStep, ReadAddressesStep
<1>. QED
  BY <1>1, <1>2, <1>3, <1>4, <1>5, <1>6 DEF Next

\* Every step keeps the connection of what the switch has counted: a rank that
\* connects its queue pairs has posted nothing yet.
LEMMA ReadyStep == LInv /\ Ready /\ [Next]_vars => Ready'
<1>. SUFFICES ASSUME LInv, Ready, [Next]_vars PROVE Ready'
  OBVIOUS
<1>1. CASE UNCHANGED <<rts, arrived>>
  BY <1>1 DEF Ready, Ranked
<1>2. ASSUME NEW j \in Job, NEW r \in Rank(j), ModifyQPs(j, r) PROVE Ready'
  <2>1. PICK ready \in SUBSET QP : rts' = [rts EXCEPT ![j][r] = ready]
    BY <1>2 DEF ModifyQPs
  <2>2. arrived' = arrived /\ pc[j][r] = "connect"
    BY <1>2 DEF ModifyQPs, network
  <2>3. Ranked(rts', SUBSET QP) /\ Changes(rts, rts', j, r, ready)
    BY <2>1, RankedUpdate DEF Ready
  <2>4. ASSUME NEW q \in QP PROVE r \notin arrived[j][q]
    <3>1. call[j][r] = 0 /\ posted[j][r][q] = Uses(j, q, call[j][r])
      BY <2>2 DEF LInv, Messages
    <3>2. posted[j][r][q] = 0
      BY <3>1, UsesCount
    <3>3. reduced[j][q] \in Nat
      BY DEF LInv, Types
    <3>. QED
      BY <3>2, <3>3 DEF LInv, Sums
  <2>5. ASSUME NEW k \in Job, NEW q \in QP, NEW s \in arrived[k][q] PROVE q \in rts'[k][s]
    <3>1. s \in Rank(k) /\ q \in rts[k][s]
      BY DEF LInv, Sums, Ready
    <3>2. ~(k = j /\ s = r)
      BY <2>4
    <3>. QED
      BY <3>1, <3>2, <2>3 DEF Changes
  <2>. QED
    BY <2>2, <2>3, <2>5 DEF Ready
<1>3. ASSUME NEW j \in Job, NEW r \in Rank(j), NEW q \in QP, Arrive(j, r, q) PROVE Ready'
  <2>. DEFINE ranks == arrived[j][q] \cup {r}
  <2>1. rts' = rts /\ q \in rts[j][r]
    BY <1>3 DEF Arrive
  <2>2. \/ arrived' = arrived \/ arrived' = [arrived EXCEPT ![j][q] = {}]
        \/ arrived' = [arrived EXCEPT ![j][q] = ranks]
    BY <1>3 DEF Arrive, network
  <2>3. \A s \in ranks : q \in rts[j][s]
    BY <2>1 DEF Ready
  <2>4. arrived \in [Job -> [QP -> SUBSET Int]]
    BY DEF LInv, Types
  <2>5. \A k \in Job : \A o \in QP :
           arrived'[k][o] \in {arrived[k][o], {}} \/ (k = j /\ o = q /\ arrived'[k][o] = ranks)
    BY <2>2, <2>4
  <2>. HIDE DEF ranks
  <2>. QED
    BY <2>1, <2>3, <2>5 DEF Ready
<1>4. CASE UNCHANGED vars
  BY <1>4, <1>1 DEF vars
<1>5. ASSUME NEW j \in Job, Hub(j) \/ CreateFails(j) \/ ReturnFails(j) PROVE UNCHANGED <<rts, arrived>>
  BY <1>5 DEF Hub, Listen, Accept, CreateGroup, CreateRefused, Scatter, ReturnGroup,
              Leave, CreateFails, ReturnFails, network
<1>6. ASSUME NEW j \in Job, NEW r \in Rank(j), Enter(j, r) \/ Return(j, r) \/ Destruct(j, r)
      PROVE  UNCHANGED <<rts, arrived>>
  BY <1>6 DEF Enter, Return, Destruct, network
<1>7. ASSUME NEW j \in Job, NEW r \in Rank(j), NEW q \in QP, GiveUp(j, r, q) PROVE UNCHANGED <<rts, arrived>>
  BY <1>7 DEF GiveUp, network
<1>8. ASSUME NEW j \in Job, NEW r \in Client(j), Connect(j, r) \/ ReadAddresses(j, r)
      PROVE  UNCHANGED <<rts, arrived>>
  BY <1>8 DEF Connect, ReadAddresses, network
<1>. QED
  BY <1>1, <1>2, <1>3, <1>4, <1>5, <1>6, <1>7, <1>8 DEF Next, Member

-----------------------------------------------------------------------------
(* The theorems. *)

\* The invariant of the group lifetime: what rank 0 has on its list are its own
\* groups, what the switch has reduced has been posted by every rank, and what
\* it has counted came over a queue pair that was ready to send.
THEOREM LifetimeInvariance == Spec => [](LInv /\ Ready)
<1>1. Init => Ready
  BY DEF Init, Ready, Ranked, PerRank, PerQP
<1>. QED
  BY <1>1, InitInv, StepInv, ReadyStep, PTL DEF Spec

\* Whoever posts a message on a queue pair of a job that got its groups has the
\* address, and the switch has the group, until rank 0 enters its destructor
\* (exchange_info_socket hands the addresses out without a barrier).
THEOREM MessagesFindTheirGroup == Spec => []MessageHasGroup
<1>1. LInv /\ Ready => MessageHasGroup
  <2>. SUFFICES ASSUME LInv, Ready, NEW j \in Job, NEW r \in Rank(j), NEW q \in QP, Outstanding(j, r, q),
                       pc[j][0] \in {"connect", "out", "in"}, NullGroup \notin ToSet(group_ids[j])
                PROVE  q \in good[j][r] /\ HasGroup(j, q)
    BY InvType DEF MessageHasGroup
  <2>1. Len(group_ids[j]) = 2 /\ group_ids[j] \in Seq(Nat)
    BY DEF LInv, Phases, Types
  <2>2. \A i \in 1..Len(group_ids[j]) : group_ids[j][i] # NullGroup
    BY <2>1 DEF ToSet
  <2>3. good[j][0] = QP
    <3>1. good[j][0] = 0..(2 - 1)
      BY <2>1, <2>2 DEF LInv, Addresses
    <3>. QED
      BY <3>1 DEF QP
  <2>4. q \in good[j][r]
    BY <2>3, Ranks DEF LInv, Addresses, Outstanding
  <2>5. q + 1 \in 1..Len(group_ids[j]) /\ EntryQP(j, q + 1) = q
    BY <2>1 DEF QP, EntryQP
  <2>6. HasGroup(j, q)
    BY <2>2, <2>5 DEF LInv, ListedIsOwn, HasGroup
  <2>. QED
    BY <2>4, <2>6
<1>. QED
  BY <1>1, LifetimeInvariance, PTL

\* When rank 0 returns the groups and has seen no error, everybody has posted
\* all its messages and the switch has reduced them (return_groups runs without
\* a barrier).
THEOREM NoDataLeftOut == Spec => []DestroyedWhenReduced
<1>1. LInv => DestroyedWhenReduced
  <2>. SUFFICES ASSUME LInv, NEW j \in Job, pc[j][0] = "leave", failed[j][0] = {}, NEW q \in QP
                PROVE  LET total == Cardinality({c \in DOMAIN Calls[j] : q \in Calls[j][c]})
                       IN  /\ reduced[j][q] = total
                           /\ \A r \in Rank(j) : posted[j][r][q] = total
    BY DEF DestroyedWhenReduced
  <2>. DEFINE total == Uses(j, q, Len(Calls[j]))
  <2>1. /\ Cardinality({c \in DOMAIN Calls[j] : q \in Calls[j][c]}) = total /\ total \in Nat
        /\ Len(Calls[j]) \in Nat
    <3>1. Len(Calls[j]) \in Nat
      BY LifetimeAssumption
    <3>2. Cardinality({c \in DOMAIN Calls[j] : q \in Calls[j][c]}) = total
      BY UsesCount
    <3>. QED
      BY <3>1, <3>2, UsesCount
  <2>2. /\ call[j][0] = Len(Calls[j]) /\ done[j][0] = posted[j][0] /\ posted[j][0][q] = total
        /\ done[j][0][q] <= reduced[j][q]
    BY Ranks DEF LInv, Messages
  <2>3. total <= reduced[j][q] /\ reduced[j][q] \in Nat
    BY <2>2 DEF LInv, Types
  <2>4. ASSUME NEW r \in Rank(j)
        PROVE  reduced[j][q] <= posted[j][r][q] /\ posted[j][r][q] <= total /\ posted[j][r][q] \in Nat
    <3>1. call[j][r] \in Nat /\ call[j][r] <= Len(Calls[j]) /\ posted[j][r][q] = Uses(j, q, call[j][r])
      BY DEF LInv, Types, Ranked, Messages
    <3>2. Uses(j, q, call[j][r]) <= total
      <4>1. \A n, m \in Nat : n <= m => Uses(j, q, n) <= Uses(j, q, m)
        BY UsesCount
      <4>. QED
        BY <4>1, <3>1, <2>1
    <3>3. reduced[j][q] <= posted[j][r][q] /\ posted[j][r][q] \in Nat
      BY DEF LInv, Sums, Types, Ranked
    <3>. QED
      BY <3>1, <3>2, <3>3
  <2>. HIDE DEF total
  <2>5. reduced[j][q] = total
    BY <2>1, <2>3, <2>4, Ranks
  <2>6. \A r \in Rank(j) : posted[j][r][q] = total
    BY <2>1, <2>4, <2>5
  <2>. QED
    BY <2>1, <2>5, <2>6
<1>. QED
  BY <1>1, LifetimeInvariance, PTL

\* A rank 0 that ran its destructor, with no RPC lost, leaves no group behind
\* (return_groups works off group_ids_, whatever the controller refused).
THEOREM GroupsReturned == Spec => []NothingLeftBehind
<1>1. LInv => NothingLeftBehind
  <2>. SUFFICES ASSUME LInv, NEW j \in Job, NEW q \in QP, pc[j][0] = "gone" /\ ~lost[j], HasGroup(j, q)
                PROVE  FALSE
    BY DEF NothingLeftBehind
  <2>1. PICK g \in DOMAIN undo : undo[g] = <<j, q>>
    BY DEF HasGroup
  <2>2. PICK i \in 1..Len(group_ids[j]) : group_ids[j][i] = g
    BY <2>1 DEF LInv, OwnIsListed
  <2>3. group_ids[j] = << >>
    BY DEF LInv, Phases
  <2>. QED
    BY <2>2, <2>3
<1>. QED
  BY <1>1, LifetimeInvariance, PTL

\* A sum is completed only when every rank has connected the queue pair
\* (modify_qp_to_rts), since each of them has sent a message on it.
THEOREM ResultsWaitForConnection == Spec => ResultsReachConnected
<1>. DEFINE P == \A j \in Job, q \in QP : reduced'[j][q] # reduced[j][q] =>
                   \A r \in Rank(j) : pc[j][r] \in {"out", "in", "leave", "gone"} /\ q \in rts[j][r]
<1>1. LInv /\ Ready /\ [Next]_vars => [P]_vars
  <2>. SUFFICES ASSUME LInv, Ready, Next PROVE P
    OBVIOUS
  <2>1. CASE UNCHANGED reduced
    BY <2>1
  <2>2. ASSUME NEW j \in Job, NEW r \in Rank(j), NEW q \in QP, Arrive(j, r, q) PROVE P
    <3>1. CASE UNCHANGED reduced
      BY <3>1
    <3>2. CASE /\ reduced[j][q] < posted[j][r][q] /\ arrived[j][q] \cup {r} = Rank(j)
               /\ reduced' = [reduced EXCEPT ![j][q] = @ + 1]
      <4>1. \A k \in Job, o \in QP : ~(k = j /\ o = q) => reduced'[k][o] = reduced[k][o]
        BY <3>2 DEF LInv, Types
      <4>2. ASSUME NEW s \in Rank(j) PROVE pc[j][s] \in {"out", "in", "leave", "gone"}
        <5>1. reduced[j][q] \in Nat /\ posted[j][s][q] \in Nat /\ reduced[j][q] < posted[j][s][q]
          <6>1. reduced[j][q] \in Nat /\ posted[j][s][q] \in Nat
            BY DEF LInv, Types, Ranked
          <6>2. s \in arrived[j][q] \/ s = r
            BY <3>2
          <6>. QED
            BY <6>1, <6>2, <3>2 DEF LInv, Sums
        <5>2. posted[j][s][q] = Uses(j, q, call[j][s]) /\ Uses(j, q, 0) = 0
          BY UsesCount DEF LInv, Messages
        <5>3. call[j][s] # 0
          BY <5>1, <5>2
        <5>. QED
          BY <5>3 DEF LInv, Messages
      <4>3. ASSUME NEW s \in Rank(j) PROVE q \in rts[j][s]
        BY <2>2, <3>2 DEF Ready, Arrive
      <4>. QED
        BY <4>1, <4>2, <4>3
    <3>. QED
      BY <2>2, <3>1, <3>2 DEF Arrive, Completes, network
  <2>3. ASSUME NEW j \in Job, Hub(j) \/ CreateFails(j) \/ ReturnFails(j) PROVE UNCHANGED reduced
    BY <2>3 DEF Hub, Listen, Accept, CreateGroup, CreateRefused, Scatter, ReturnGroup,
                Leave, CreateFails, ReturnFails, network
  <2>4. ASSUME NEW j \in Job, NEW r \in Rank(j), Member(j, r) PROVE UNCHANGED reduced
    BY <2>4 DEF Member, ModifyQPs, Enter, Return, Destruct, network
  <2>5. ASSUME NEW j \in Job, NEW r \in Rank(j), NEW q \in QP, GiveUp(j, r, q) PROVE UNCHANGED reduced
    BY <2>5 DEF GiveUp, network
  <2>6. ASSUME NEW j \in Job, NEW r \in Client(j), Connect(j, r) \/ ReadAddresses(j, r) PROVE UNCHANGED reduced
    BY <2>6 DEF Connect, ReadAddresses, network
  <2>. HIDE DEF P
  <2>. QED
    BY <2>1, <2>2, <2>3, <2>4, <2>5, <2>6 DEF Next
<1>. QED
  BY <1>1, LifetimeInvariance, PTL DEF Spec, ResultsReachConnected

\* A group goes only by a step of rank 0 of the job it was created for, in its
\* destructor: DestroyGroup does not know its caller, and numbers are used again.
THEOREM OthersGroupsKept == Spec => OwnGroupsOnly
<1>. DEFINE P == \A g \in DOMAIN undo \ DOMAIN undo' :
                   /\ pc[undo[g][1]][0] = "leave"
                   /\ \A j \in Job \ {undo[g][1]} : group_ids'[j] = group_ids[j]
<1>1. LInv /\ [Next]_vars => [P]_vars
  <2>. SUFFICES ASSUME LInv, Next PROVE P
    OBVIOUS
  <2>1. CASE DOMAIN undo \subseteq DOMAIN undo'
    BY <2>1
  <2>2. ASSUME NEW j \in Job, pc[j][0] = "leave", group_ids[j] # << >>, Destroy(Head(group_ids[j])),
               NEW ids, group_ids' = [group_ids EXCEPT ![j] = ids]
        PROVE  P
    <3>1. group_ids[j] \in Seq(Nat) /\ 1 \in 1..Len(group_ids[j]) /\ Head(group_ids[j]) = group_ids[j][1]
      <4>1. group_ids[j] \in Seq(Nat)
        BY DEF LInv, Types
      <4>. QED
        BY <4>1, <2>2, TailAt
    <3>. DEFINE id == group_ids[j][1]
    <3>2. \A g \in DOMAIN undo \ DOMAIN undo' : g = id
      BY <2>2, <3>1 DEF Destroy, controller
    <3>3. id \in DOMAIN undo => id # NullGroup
      BY GroupNumbers DEF LInv, Numbers
    <3>4. id \in DOMAIN undo => undo[id] = <<j, EntryQP(j, 1)>>
      BY <3>1, <3>3 DEF LInv, ListedIsOwn
    <3>5. \A k \in Job \ {j} : group_ids'[k] = group_ids[k]
      BY <2>2 DEF LInv, Types
    <3>. QED
      BY <3>2, <3>4, <3>5, <2>2
  <2>3. ASSUME NEW j \in Job, ReturnGroup(j) \/ ReturnFails(j) PROVE P
    BY <2>1, <2>2, <2>3 DEF ReturnGroup, ReturnFails, controller
  <2>4. ASSUME NEW j \in Job, CreateGroup(j) \/ CreateFails(j) PROVE P
    <3>1. CASE \E q : Create(j, q)
      BY <3>1, <2>1 DEF Create
    <3>2. CASE UNCHANGED undo
      BY <3>2
    <3>. QED
      BY <2>4, <3>1, <3>2 DEF CreateGroup, CreateFails, controller
  <2>5. CASE UNCHANGED undo
    BY <2>5
  <2>6. ASSUME NEW j \in Job, Hub(j) PROVE P
    BY <2>3, <2>4, <2>5, <2>6 DEF Hub, Listen, Accept, CreateRefused, Scatter, Leave, controller
  <2>7. ASSUME NEW j \in Job, NEW r \in Rank(j), Member(j, r) PROVE UNCHANGED undo
    BY <2>7 DEF Member, ModifyQPs, Enter, Return, Destruct, controller
  <2>8. ASSUME NEW j \in Job, NEW r \in Rank(j), NEW q \in QP, Arrive(j, r, q) \/ GiveUp(j, r, q)
        PROVE  UNCHANGED undo
    BY <2>8 DEF Arrive, GiveUp, controller
  <2>9. ASSUME NEW j \in Job, NEW r \in Client(j), Connect(j, r) \/ ReadAddresses(j, r) PROVE UNCHANGED undo
    BY <2>9 DEF Connect, ReadAddresses, controller
  <2>. HIDE DEF P
  <2>. QED
    BY <2>3, <2>4, <2>5, <2>6, <2>7, <2>8, <2>9 DEF Next
<1>. QED
  BY <1>1, LifetimeInvariance, PTL DEF Spec, OwnGroupsOnly
=============================================================================
