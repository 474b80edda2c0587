--------------------------- MODULE MCIncAllreduce ---------------------------
(***************************************************************************)
(* Instances of IncAllreduce for TLC.                                      *)
(***************************************************************************)
EXTENDS IncAllreduceInv, FiniteSetsExt, TLC

CONSTANT MaxInFlight   \* bound on the packets on all links together

\* The ranks are interchangeable: nothing but the bitmap's bit tells them
\* apart.
RankSymmetry == Permutations(Rank)

InFlightBound ==
    Len(recir) + MapThenSumSet(LAMBDA r : Len(uplink[r]) + Len(downlink[r]), Rank)
      <= MaxInFlight
=============================================================================
