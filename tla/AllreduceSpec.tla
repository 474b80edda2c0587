--------------------------- MODULE AllreduceSpec ---------------------------
(***************************************************************************)
(* What the in-network allreduce promises, without a network: every rank   *)
(* offers its packets one after the other, and every rank is delivered,    *)
(* in order, the sums of the offered packets.  The sum of packet i is      *)
(* delivered to a rank once every rank has offered packet i, and it        *)
(* consists of each rank's contribution exactly once, in the even and in   *)
(* the odd words.                                                          *)
(***************************************************************************)
EXTENDS Integers, Sequences

CONSTANTS
    Rank,   \* the members of the group
    N       \* packets of the collective

VARIABLES
    offered,    \* rank -> number of packets it has offered
    out         \* rank -> sequence of the sums it was delivered

specVars == <<offered, out>>

\* The sum of all ranks' contributions to packet i.
SumOf(i) == {<<r, i>> : r \in Rank}

SpecInit ==
    /\ offered = [r \in Rank |-> 0]
    /\ out = [r \in Rank |-> << >>]

Offer(r) ==
    /\ offered[r] < N
    /\ offered' = [offered EXCEPT ![r] = @ + 1]
    /\ UNCHANGED out

Deliver(r) ==
    LET i == Len(out[r])
    IN  /\ \A s \in Rank : i < offered[s]
        /\ out' = [out EXCEPT ![r] = Append(@, [d0 |-> SumOf(i), d1 |-> SumOf(i)])]
        /\ UNCHANGED offered

SpecNext == \E r \in Rank : Offer(r) \/ Deliver(r)

\* The safety part; the liveness that goes with it is stated where it is used.
SafeSpec == SpecInit /\ [][SpecNext]_specVars
=============================================================================
