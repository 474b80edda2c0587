------------------------- MODULE MCSegmentPipeline -------------------------
(* Three buffers, a call of five segments of up to two messages, so that    *)
(* buffers are used again, a call of two segments, one of an empty         *)
(* buffer and a last one.                                                   *)
EXTENDS SegmentPipeline

SeveralCalls == << <<2, 2, 2, 2, 1>>, <<2, 1>>, << >>, <<1>> >>
=============================================================================
