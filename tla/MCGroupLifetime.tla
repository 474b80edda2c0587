-------------------------- MODULE MCGroupLifetime --------------------------
(* A job of two ranks and one of a single rank; two group numbers for the   *)
(* four they ask for.                                                       *)
EXTENDS GroupLifetime

TwoJobs == 1..2

TwoAndOne == <<2, 1>>

TwoIds == <<1, 2>>

\* A small call and one that uses both queue pairs; a small call.
SmallAndLarge == << <<{0}, {0, 1}>>, <<{0}>> >>
=============================================================================
