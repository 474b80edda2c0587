----------------------------- MODULE RadixCache -----------------------------
(***************************************************************************)
(* The prefix cache of the SGLang runtime and the page allocator under it  *)
(* (mem_cache/radix_cache.py, mem_cache/allocator.py and the helpers of    *)
(* mem_cache/common.py).                                                   *)
(*                                                                         *)
(* A node of the radix tree is named by the token sequence from the root   *)
(* to its end: splitting a node keeps the end of its lower half, so the    *)
(* name of a TreeNode object never changes while the object is in the tree *)
(* and its parent is the longest node that is a proper prefix.  The        *)
(* namespace extra_key is part of the first token.  Several operations     *)
(* follow one another in one step of the scheduler, so they are written as *)
(* functions of a cache record:                                            *)
(*                                                                         *)
(*   nodes      the ends of the tree nodes, without the root               *)
(*   kv         the page that holds the last page of every cached prefix   *)
(*   lock       TreeNode.lock_ref                                          *)
(*   evictable  evictable_size_, in tokens                                 *)
(*   protected  protected_size_, in tokens                                 *)
(*   free       how often a page is in free_pages or release_pages         *)
(***************************************************************************)
EXTENDS Integers, Sequences, FiniteSets, FiniteSetsExt, SequencesExt

CONSTANTS Pages,     \* the page indices of the pool, without the padding page 0
          PageSize   \* tokens in a page

ASSUME PagesAssumption == Pages \subseteq Nat /\ IsFiniteSet(Pages)
ASSUME PageSizeAssumption == PageSize \in Nat \ {0}

PoolTokens == Cardinality(Pages) * PageSize

EmptyCache == [nodes |-> {}, kv |-> <<>>, lock |-> <<>>, evictable |-> 0,
               protected |-> 0, free |-> [p \in Pages |-> 1]]

---------------------------------------------------------------------------
(* Lengths in tokens and in pages. *)

FloorPaged(n) == (n \div PageSize) * PageSize
CeilPaged(n) == ((n + PageSize - 1) \div PageSize) * PageSize
PageCount(n) == CeilPaged(n) \div PageSize

---------------------------------------------------------------------------
(* The allocator: the order of the free list decides only which page is    *)
(* taken, so the lowest free pages are.                                    *)

AvailableSize(c) == PageSize * SumFunctionOnSet(c.free, Pages)

Free(c, ps) == [c EXCEPT !.free = [p \in Pages |-> IF p \in ps THEN @[p] + 1 ELSE @[p]]]

\* The first n free pages, in ascending order.
FreePages(c, n) ==
  LET free == {p \in Pages : c.free[p] > 0}
  IN  [i \in 1 .. Min({n, Cardinality(free)}) |->
         CHOOSE p \in free : Cardinality({q \in free : q < p}) = i - 1]

Take(c, ps) == [c EXCEPT !.free = [p \in Pages |-> IF p \in ps THEN @[p] - 1 ELSE @[p]]]

---------------------------------------------------------------------------
(* The tree. *)

Path(c, n) == {m \in c.nodes : IsPrefix(m, n)}

Parent(c, n) == LET above == {m \in c.nodes : IsStrictPrefix(m, n)}
                IN  IF above = {} THEN <<>>
                    ELSE CHOOSE m \in above : \A k \in above : Len(k) <= Len(m)

NodeLen(c, n) == Len(n) - Len(Parent(c, n))

Tokens(c, ns) == SumFunctionOnSet([n \in ns |-> NodeLen(c, n)], ns)

Descendants(c, n) == {m \in c.nodes : IsPrefix(n, m)}

\* The longest cached prefix of key, in whole pages.
CachedPrefix(c, key) ==
  SubSeq(key, 1, Max({0} \cup {Len(p) : p \in {q \in DOMAIN c.kv : IsPrefix(q, key)}}))

\* A match that ends inside a node splits it: the upper half, which ends at
\* p, inherits the lock count of the lower one.
SplitNode(c, p) ==
  IF p = <<>> \/ p \in c.nodes THEN c
  ELSE LET below == {m \in c.nodes : IsStrictPrefix(p, m)}
           child == CHOOSE m \in below : \A k \in below : Len(m) <= Len(k)
       IN  [c EXCEPT !.nodes = @ \cup {p},
                     !.lock = [m \in c.nodes \cup {p} |-> IF m = p THEN c.lock[child] ELSE c.lock[m]]]

\* The tree after match_prefix; the node it returns is CachedPrefix(c, key).
MatchPrefix(c, key) == SplitNode(c, CachedPrefix(c, key))

\* The pages of a cached prefix, in order.
CachedPages(c, p) == [i \in 1 .. PageCount(Len(p)) |-> c.kv[SubSeq(p, 1, i * PageSize)]]

\* insert of a page-aligned key whose pages are ps: what the tree has
\* already stays, the rest becomes one new unlocked leaf of n tokens.
InsertLeaf(c, key, ps, n) ==
  LET p == CachedPrefix(c, key)
      d == SplitNode(c, p)
      added == {SubSeq(key, 1, i * PageSize) : i \in (PageCount(Len(p)) + 1) .. PageCount(Len(key))}
  IN  IF p = key THEN d
      ELSE [d EXCEPT !.nodes = @ \cup {key},
                     !.kv = [q \in (DOMAIN d.kv) \cup added |->
                                IF q \in added THEN ps[PageCount(Len(q))] ELSE d.kv[q]],
                     !.lock = [m \in d.nodes \cup {key} |-> IF m = key THEN 0 ELSE d.lock[m]],
                     !.evictable = @ + n]

\* The whole key is counted, not what is new of it.
InsertCountsAll(c, key, ps) == InsertLeaf(c, key, ps, Len(key))

Insert(c, key, ps) == InsertLeaf(c, key, ps, Len(key) - Len(CachedPrefix(c, key)))

\* Tokens of the nodes on the path to n whose lock count is k.
PathTokens(c, n, k) == Tokens(c, {m \in Path(c, n) : c.lock[m] = k})

IncLockRef(c, n) ==
  [c EXCEPT !.lock = [m \in c.nodes |-> IF m \in Path(c, n) THEN @[m] + 1 ELSE @[m]],
            !.evictable = @ - PathTokens(c, n, 0),
            !.protected = @ + PathTokens(c, n, 0)]

\* The last node alone is released, its ancestors stay locked.
DecLockRefLast(c, n) ==
  IF n \notin c.nodes THEN c
  ELSE [c EXCEPT !.lock[n] = @ - 1,
                 !.evictable = @ + (IF c.lock[n] = 1 THEN NodeLen(c, n) ELSE 0),
                 !.protected = @ - (IF c.lock[n] = 1 THEN NodeLen(c, n) ELSE 0)]

DecLockRef(c, n) ==
  [c EXCEPT !.lock = [m \in c.nodes |-> IF m \in Path(c, n) THEN @[m] - 1 ELSE @[m]],
            !.evictable = @ + PathTokens(c, n, 1),
            !.protected = @ - PathTokens(c, n, 1)]

---------------------------------------------------------------------------
(* Eviction.  evict(n) removes unlocked leaves, in the order of its        *)
(* strategy, until it has removed n tokens or none is left.  The strategy  *)
(* (LRU, LFU, FIFO, ...) is left open: any set of nodes that can be        *)
(* removed leaf by leaf, and of which the last removal was still needed.   *)

\* A node is taken for removable although a request holds it.
RemovableLeaves(c) == {n \in c.nodes : \A m \in Descendants(c, n) : m = n \/ c.lock[m] = 0}

Removable(c) == {n \in c.nodes : \A m \in Descendants(c, n) : c.lock[m] = 0}

RemoveNodes(c, ns) ==
  LET gone == {p \in DOMAIN c.kv : \E n \in ns : IsPrefix(p, n) /\ Len(p) > Len(Parent(c, n))}
      left == c.nodes \ ns
  IN  [Free(c, {c.kv[p] : p \in gone})
         EXCEPT !.nodes = left,
                !.kv = [p \in (DOMAIN c.kv) \ gone |-> c.kv[p]],
                !.lock = [m \in left |-> c.lock[m]],
                !.evictable = @ - Tokens(c, ns)]

Evict(c, n) ==
  {RemoveNodes(c, ns) : ns \in
     {ns \in SUBSET Removable(c) :
        /\ \A m \in ns : Descendants(c, m) \subseteq ns
        /\ Tokens(c, ns) >= n \/ ns = Removable(c)
        /\ ns = {} \/ \E last \in ns : /\ Parent(c, last) \notin ns
                                       /\ Tokens(c, ns \ {last}) < n}}

\* The caches evict_from_tree_cache may leave behind: nothing is evicted
\* when enough is available, else as much as is asked for.
EvictFromTreeCache(c, n) == IF AvailableSize(c) >= n THEN {c} ELSE Evict(c, n)

---------------------------------------------------------------------------
(* What a cache must satisfy whatever its users do.                        *)

\* Every prefix of a cached prefix is cached, and every cached prefix ends
\* within a node.
WellFormed(c) ==
  /\ \A p \in DOMAIN c.kv : /\ Len(p) % PageSize = 0 /\ Len(p) > 0
                            /\ Len(p) > PageSize => SubSeq(p, 1, Len(p) - PageSize) \in DOMAIN c.kv
                            /\ \E n \in c.nodes : IsPrefix(p, n)
  /\ c.nodes \subseteq DOMAIN c.kv

\* The two size counters, on which admission and retraction rely, are the
\* sizes of the unlocked and of the locked nodes.
CountersExact(c) ==
  /\ c.evictable = Tokens(c, {n \in c.nodes : c.lock[n] = 0})
  /\ c.protected = Tokens(c, {n \in c.nodes : c.lock[n] > 0})
=============================================================================
