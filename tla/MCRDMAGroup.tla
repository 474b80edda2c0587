---------------------------- MODULE MCRDMAGroup ----------------------------
(***************************************************************************)
(* Instances of RDMAGroup for TLC.                                         *)
(***************************************************************************)
EXTENDS RDMAGroup, TLC

\* More blocks than the window holds, the last one short, on two queue pairs;
\* a small call on one; then two again.  The sizes do not fill the last packet.
MixedCalls == <<21, 3, 7>>

\* Two queue pairs, then one.
ShortCalls == <<23, 3>>
=============================================================================
