---------------------------- MODULE MCScheduler ----------------------------
(* Small instances of the scheduler for TLC. *)
EXTENDS Scheduler

CONSTANTS r1, r2, r3

\* Two prompts that share a prefix, and a short one that is a prefix of both.
Prompts == r1 :> <<1, 2, 3>> @@ r2 :> <<1, 2, 4>> @@ r3 :> <<1, 2>>
ThreeEach == r1 :> 3 @@ r2 :> 3 @@ r3 :> 3

\* Prompts that end inside a page of two tokens.
PagedPrompts == r1 :> <<1, 2, 3>> @@ r2 :> <<1, 2, 3, 4, 5>> @@ r3 :> <<1, 2>>

\* The configurations that the runs look at.
Config(chunk, overlap, mixed, pauses, aborts) ==
  [chunk |-> chunk, overlap |-> overlap, mixed |-> mixed, pauses |-> pauses, aborts |-> aborts]

Normal == Config(2, FALSE, FALSE, {}, TRUE)
Overlapped == Config(2, TRUE, FALSE, {}, TRUE)
Mixed == Config(4, TRUE, TRUE, {}, FALSE)
Paused == Config(8, FALSE, FALSE, {"in_place", "retract"}, FALSE)
TokenConfigs == {Normal, Overlapped, Mixed, Paused}

PagedConfigs == {Config(4, o, FALSE, {}, o) : o \in BOOLEAN}

\* Pausing in place while the overlapped loop has a prefill batch to merge.
InPlaceConfigs == {Config(2, TRUE, FALSE, {"in_place"}, FALSE)}
=============================================================================
