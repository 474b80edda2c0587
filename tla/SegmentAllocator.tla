-------------------------- MODULE SegmentAllocator --------------------------
(***************************************************************************)
(* The allocator of switch memory in the controllers (fit_seg, alloc_seg,  *)
(* free_seg of allreduce_grpc.py and reduce_grpc.py), as operators on the  *)
(* list of free segments, memseg.                                          *)
(*                                                                         *)
(* Addresses and sizes are counted in slots of MTU_SIZE bytes.  A segment  *)
(* is a pair <<l, r>>, the slots l..(r - 1).  Indices are 1-based here.    *)
(***************************************************************************)
EXTENDS Integers, Sequences, SequencesExt

NoFit == [index |-> 0, addr |-> 0]

\* ispower2, on the sizes that fit a memory of the given number of slots.
IsPower2(x, slots) == x > 0 /\ \E k \in 0..slots : x = 2^k

\* upperalign
UpperAlign(x, y) == ((x + y - 1) \div y) * y

\* Mutant: the start of the segment is used unaligned.
FitsUnaligned(seg, size) == seg[1] + size <= seg[2]

\* Mutant: a block never fills a segment to its end.
FitsStrictly(seg, size) == UpperAlign(seg[1], size) + size < seg[2]

\* addr_in_seg: does an aligned block of this size fit the segment?
Fits(seg, size) == UpperAlign(seg[1], size) + size <= seg[2]

\* fit_seg for a valid size: the first segment that an aligned block fits.
FitSeg(memseg, size) ==
    IF \E i \in 1..Len(memseg) : Fits(memseg[i], size)
    THEN LET i == SelectInSeq(memseg, LAMBDA seg : Fits(seg, size))
         IN  [index |-> i, addr |-> UpperAlign(memseg[i][1], size)]
    ELSE NoFit

\* Mutant: the part behind the block is lost.
AllocSegDropsRest(memseg, index, l, r) ==
    LET seg == memseg[index]
    IN  SubSeq(memseg, 1, index - 1)
        \o (IF seg[1] # l THEN << <<seg[1], l>> >> ELSE << >>)
        \o SubSeq(memseg, index + 1, Len(memseg))

\* alloc_seg: cut the block out of its segment.
AllocSeg(memseg, index, l, r) ==
    LET seg == memseg[index]
    IN  SubSeq(memseg, 1, index - 1)
        \o (IF seg[1] # l THEN << <<seg[1], l>> >> ELSE << >>)
        \o (IF seg[2] # r THEN << <<r, seg[2]>> >> ELSE << >>)
        \o SubSeq(memseg, index + 1, Len(memseg))

\* free_seg, the loop: the first segment that ends behind l.
RightIndex(memseg, l) ==
    IF \E i \in 1..Len(memseg) : memseg[i][2] > l
    THEN SelectInSeq(memseg, LAMBDA seg : seg[2] > l)
    ELSE Len(memseg) + 1

\* free_seg: "Invalid free", upon which the controller exits.
InvalidFree(memseg, l, r) ==
    LET i == RightIndex(memseg, l)
    IN  i <= Len(memseg) /\ memseg[i][1] < r

\* free_seg: put the block back, joined with the free segments next to it.
\* The left neighbour is deleted first and the right neighbour is then looked
\* up under the index it had before, so that a block which has both is joined
\* with the left one only.
FreeSeg(memseg, l, r) ==
    LET right == RightIndex(memseg, l)
        left  == right - 1
        joinL == left >= 1 /\ memseg[left][2] = l
        rest  == IF joinL THEN RemoveAt(memseg, left) ELSE memseg
        joinR == right <= Len(rest) /\ rest[right][1] = r
        seg   == <<IF joinL THEN memseg[left][1] ELSE l,
                   IF joinR THEN rest[right][2] ELSE r>>
    IN  InsertAt(IF joinR THEN RemoveAt(rest, right) ELSE rest,
                 IF joinL THEN left ELSE right, seg)

-----------------------------------------------------------------------------
(* What a list of segments stands for. *)

\* The slots of a segment, and of a list of segments.
SlotsOf(seg) == seg[1]..(seg[2] - 1)
FreeSlots(memseg) == UNION {SlotsOf(memseg[i]) : i \in 1..Len(memseg)}

\* The list is sorted, and its segments are not empty and do not overlap.
WellFormed(memseg) ==
    /\ \A i \in 1..Len(memseg) : memseg[i][1] < memseg[i][2]
    /\ \A i, j \in 1..Len(memseg) : i < j => memseg[i][2] <= memseg[j][1]
=============================================================================
