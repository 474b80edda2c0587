------------------------- MODULE MCGroupController -------------------------
(***************************************************************************)
(* Instances of GroupController for TLC.                                   *)
(***************************************************************************)
EXTENDS GroupController

CONSTANTS
    MaxFailed,   \* bound on the requests that raise
    MaxBits      \* bound on the bits set in the registers

\* Members are names; a known and an unknown IP are told apart.
MemberSymmetry == Permutations(KnownIP)

HistoryBound == Cardinality(leaked) <= MaxFailed /\ Cardinality(dirty) <= MaxBits
=============================================================================
