--------------------------- MODULE BroadcastSpec ---------------------------
(***************************************************************************)
(* What the in-network broadcast promises: every receiver is delivered the *)
(* root's packets in order, and the root learns of the completion of a     *)
(* packet only after all receivers have got it.                            *)
(***************************************************************************)
EXTENDS Integers

CONSTANTS
    Receiver,   \* the members of the group without the root
    N           \* packets of the broadcast

VARIABLES
    delivered,  \* receiver -> number of packets it has got
    completed   \* number of packets the root knows to be delivered

specVars == <<delivered, completed>>

SpecInit ==
    /\ delivered = [r \in Receiver |-> 0]
    /\ completed = 0

Deliver(r) ==
    /\ delivered[r] < N
    /\ delivered' = [delivered EXCEPT ![r] = @ + 1]
    /\ UNCHANGED completed

\* An acknowledgement may stand for several packets.
Complete(n) ==
    /\ n > completed
    /\ \A r \in Receiver : n <= delivered[r]
    /\ completed' = n
    /\ UNCHANGED delivered

SpecNext == (\E r \in Receiver : Deliver(r)) \/ (\E n \in 0..N : Complete(n))

SafeSpec == SpecInit /\ [][SpecNext]_specVars
=============================================================================
