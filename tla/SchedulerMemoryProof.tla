------------------------ MODULE SchedulerMemoryProof ------------------------
(***************************************************************************)
(* No page of KV memory is lost, shared by mistake or freed twice, the     *)
(* sizes that admission reckons with are the true ones, and every row of   *)
(* the request pool reads the KV of the tokens of its request, for any     *)
(* number of requests, any prompts, any size of the pools and of the       *)
(* pages.                                                                  *)
(*                                                                         *)
(* MemInv(c, ct, rq, H) says that every page is free, cached or private to *)
(* one of the holders H, and that the row of each of them starts with the  *)
(* pages of the node it holds, goes on with its private pages, and reads   *)
(* the KV of its own tokens in all of them.  The steps keep it when the    *)
(* lengths of the rows fit the passes in flight (Lengths); the two make up *)
(* MInv, whose steps use SInv and CInv of SchedulerProof.                  *)
(***************************************************************************)
EXTENDS SchedulerProof

\* The tokens that the running requests decode in a mixed batch.
MixedTokens == IF args.mixed THEN Len(running) ELSE 0

\* When the prefill of a request goes on, its budgets are not negative:
\* add_chunked_req takes the least of them for the length of the chunk.
ChunksFit == pc = "prefill" /\ chunked # None =>
               /\ args.chunk >= MixedTokens
               /\ AvailableSize(cache) + cache.evictable >= MixedTokens + Reserved

-----------------------------------------------------------------------------
(* Pages. *)

\* Every page is free, cached once, or the private page of one holder, when
\* pv[r] are the private pages of r.
PageInv(c, pv) ==
  /\ c.free \in [Pages -> 0 .. 1]
  /\ \A k \in DOMAIN c.kv : c.kv[k] \in Pages /\ c.free[c.kv[k]] = 0
  /\ \A k, l \in DOMAIN c.kv : c.kv[k] = c.kv[l] => k = l
  /\ \A r \in DOMAIN pv : \A p \in pv[r] : p \in Pages /\ c.free[p] = 0 /\ \A k \in DOMAIN c.kv : c.kv[k] # p
  /\ \A r, s \in DOMAIN pv : \A p \in pv[r] : p \in pv[s] => r = s
  /\ \A p \in Pages : c.free[p] = 0 => (\E k \in DOMAIN c.kv : c.kv[k] = p) \/ \E r \in DOMAIN pv : p \in pv[r]

\* A page is in the free list once or not at all.
LEMMA FreeType ==
    ASSUME NEW f, f = [p \in Pages |-> f[p]], \A p \in Pages : f[p] \in 0 .. 1
    PROVE  f \in [Pages -> 0 .. 1]
  OBVIOUS

\* Holder r gives up its pages ps.
Gives(pv, pv2, r, ps) ==
  /\ r \in DOMAIN pv /\ DOMAIN pv2 = DOMAIN pv /\ ps \subseteq pv[r]
  /\ pv2[r] = pv[r] \ ps /\ \A x \in DOMAIN pv : x # r => pv2[x] = pv[x]

\* Private pages that are freed.
LEMMA FreedPages ==
    ASSUME NEW c, NEW pv, PageInv(c, pv), NEW pv2, NEW r, NEW ps, Gives(pv, pv2, r, ps),
           NEW d, d.kv = c.kv, d.free = [p \in Pages |-> IF p \in ps THEN c.free[p] + 1 ELSE c.free[p]]
    PROVE  PageInv(d, pv2)
<1>1. /\ \A p \in Pages : c.free[p] \in 0 .. 1
      /\ \A p \in ps : p \in Pages /\ c.free[p] = 0 /\ \A k \in DOMAIN c.kv : c.kv[k] # p
      /\ \A x \in DOMAIN pv : \A p \in pv2[x] : p \in pv[x] /\ p \notin ps
      /\ \A x \in DOMAIN pv : \A p \in pv[x] : p \in pv2[x] \/ p \in ps
  BY DEF PageInv, Gives
<1>2. \A p \in Pages : d.free[p] = IF p \in ps THEN 1 ELSE c.free[p]
  BY <1>1
<1>3. d.free \in [Pages -> 0 .. 1]
  BY <1>1
<1>4. \A k \in DOMAIN d.kv : d.kv[k] \in Pages /\ d.free[d.kv[k]] = 0
  BY <1>1, <1>2 DEF PageInv
<1>5. \A k, l \in DOMAIN d.kv : d.kv[k] = d.kv[l] => k = l
  BY DEF PageInv
<1>6. \A x \in DOMAIN pv2 : \A p \in pv2[x] : p \in Pages /\ d.free[p] = 0 /\ \A k \in DOMAIN d.kv : d.kv[k] # p
  BY <1>1, <1>2 DEF PageInv, Gives
<1>7. \A x, s \in DOMAIN pv2 : \A p \in pv2[x] : p \in pv2[s] => x = s
  BY <1>1 DEF PageInv, Gives
<1>8. \A p \in Pages : d.free[p] = 0 => (\E k \in DOMAIN d.kv : d.kv[k] = p) \/ \E x \in DOMAIN pv2 : p \in pv2[x]
  BY <1>1, <1>2 DEF PageInv, Gives
<1>. QED
  BY <1>3, <1>4, <1>5, <1>6, <1>7, <1>8 DEF PageInv

\* The prefixes A, which are not cached in c, have the pages ps, each one of
\* them.
Provided(c, A, g, ps) ==
  /\ \A q \in A : q \notin DOMAIN c.kv /\ g[q] \in ps
  /\ \A p \in ps : \E q \in A : g[q] = p
  /\ \A q, s \in A : g[q] = g[s] => q = s

\* Cache d has the prefixes A, too.
Extended(c, d, A, g) ==
  d.free = c.free /\ d.kv = [q \in (DOMAIN c.kv) \cup A |-> IF q \in A THEN g[q] ELSE c.kv[q]]

\* Private pages that become those of the new cached prefixes A.
LEMMA CachedNow ==
    ASSUME NEW c, NEW pv, PageInv(c, pv), NEW pv2, NEW r, NEW ps, Gives(pv, pv2, r, ps),
           NEW A, NEW g, Provided(c, A, g, ps), NEW d, Extended(c, d, A, g)
    PROVE  PageInv(d, pv2)
<1>0. /\ \A q \in A : q \notin DOMAIN c.kv /\ g[q] \in ps
      /\ \A p \in ps : \E q \in A : g[q] = p
      /\ \A q, s \in A : g[q] = g[s] => q = s
      /\ d.free = c.free
      /\ d.kv = [q \in (DOMAIN c.kv) \cup A |-> IF q \in A THEN g[q] ELSE c.kv[q]]
  BY DEF Provided, Extended
<1>1. /\ \A p \in ps : p \in Pages /\ c.free[p] = 0 /\ \A k \in DOMAIN c.kv : c.kv[k] # p
      /\ \A x \in DOMAIN pv : \A p \in pv2[x] : p \in pv[x] /\ p \notin ps
      /\ \A x \in DOMAIN pv : \A p \in pv[x] : p \in pv2[x] \/ p \in ps
  BY DEF PageInv, Gives
<1>2. /\ DOMAIN d.kv = (DOMAIN c.kv) \cup A
      /\ \A q \in A : d.kv[q] = g[q] /\ d.kv[q] \in ps
      /\ \A q \in DOMAIN c.kv : q \notin A /\ d.kv[q] = c.kv[q]
  BY <1>0
<1>3. d.free \in [Pages -> 0 .. 1]
  BY <1>0 DEF PageInv
<1>4. \A k \in DOMAIN d.kv : d.kv[k] \in Pages /\ d.free[d.kv[k]] = 0
  BY <1>0, <1>1, <1>2 DEF PageInv
<1>5. \A k, l \in DOMAIN d.kv : d.kv[k] = d.kv[l] => k = l
  BY <1>0, <1>1, <1>2 DEF PageInv
<1>6. \A x \in DOMAIN pv2 : \A p \in pv2[x] : p \in Pages /\ d.free[p] = 0 /\ \A k \in DOMAIN d.kv : d.kv[k] # p
  BY <1>0, <1>1, <1>2 DEF PageInv, Gives
<1>7. \A x, s \in DOMAIN pv2 : \A p \in pv2[x] : p \in pv2[s] => x = s
  BY <1>1 DEF PageInv, Gives
<1>8. \A p \in Pages : d.free[p] = 0 => (\E k \in DOMAIN d.kv : d.kv[k] = p) \/ \E x \in DOMAIN pv2 : p \in pv2[x]
  <2>1. SUFFICES ASSUME NEW p \in Pages, d.free[p] = 0
                 PROVE  (\E k \in DOMAIN d.kv : d.kv[k] = p) \/ \E x \in DOMAIN pv2 : p \in pv2[x]
    OBVIOUS
  <2>2. CASE \E k \in DOMAIN c.kv : c.kv[k] = p
    BY <2>2, <1>2
  <2>3. CASE \E x \in DOMAIN pv : p \in pv[x]
    <3>1. PICK x \in DOMAIN pv : p \in pv[x]
      BY <2>3
    <3>2. CASE p \in ps
      BY <3>2, <1>0, <1>2
    <3>3. CASE p \in pv2[x]
      BY <3>3 DEF Gives
    <3>. QED
      BY <3>1, <3>2, <3>3, <1>1
  <2>. QED
    BY <1>0, <2>1, <2>2, <2>3 DEF PageInv
<1>. QED
  BY <1>3, <1>4, <1>5, <1>6, <1>7, <1>8 DEF PageInv

\* Cache d is c without the prefixes G, whose pages ps are free in it.
Uncached(c, G, ps, d) ==
  /\ G \subseteq DOMAIN c.kv /\ \A p : p \in ps <=> \E q \in G : c.kv[q] = p
  /\ d.kv = [q \in DOMAIN c.kv \ G |-> c.kv[q]]
  /\ d.free = [p \in Pages |-> IF p \in ps THEN c.free[p] + 1 ELSE c.free[p]]

\* The pages of cached prefixes that are removed become free.
LEMMA UncachedNow ==
    ASSUME NEW c, NEW pv, PageInv(c, pv), NEW G, NEW ps, NEW d, Uncached(c, G, ps, d)
    PROVE  PageInv(d, pv)
<1>0. /\ G \subseteq DOMAIN c.kv /\ \A p : p \in ps <=> \E q \in G : c.kv[q] = p
      /\ d.kv = [q \in DOMAIN c.kv \ G |-> c.kv[q]]
      /\ d.free = [p \in Pages |-> IF p \in ps THEN c.free[p] + 1 ELSE c.free[p]]
  BY DEF Uncached
<1>1. /\ \A p \in Pages : c.free[p] \in 0 .. 1
      /\ \A p \in ps : p \in Pages /\ c.free[p] = 0 /\ \E q \in G : c.kv[q] = p
      /\ \A q \in G : c.kv[q] \in ps
      /\ \A q \in DOMAIN c.kv : q \notin G => c.kv[q] \notin ps
      /\ \A x \in DOMAIN pv : \A p \in pv[x] : p \notin ps
  BY <1>0 DEF PageInv
<1>2. /\ DOMAIN d.kv = DOMAIN c.kv \ G
      /\ \A q \in DOMAIN c.kv : q \notin G => d.kv[q] = c.kv[q]
      /\ \A p \in Pages : d.free[p] = IF p \in ps THEN c.free[p] + 1 ELSE c.free[p]
  BY <1>0
<1>3. \A p \in Pages : d.free[p] = IF p \in ps THEN 1 ELSE c.free[p]
  BY <1>1, <1>2
<1>4. d.free \in [Pages -> 0 .. 1]
  <2>1. DOMAIN d.free = Pages /\ d.free = [p \in Pages |-> d.free[p]]
    BY <1>0
  <2>2. \A p \in Pages : d.free[p] \in 0 .. 1
    BY <1>1, <1>3
  <2>. QED
    BY <2>1, <2>2, FreeType
<1>5. \A k \in DOMAIN d.kv : d.kv[k] \in Pages /\ d.free[d.kv[k]] = 0
  BY <1>1, <1>2, <1>3 DEF PageInv
<1>6. \A k, l \in DOMAIN d.kv : d.kv[k] = d.kv[l] => k = l
  BY <1>2 DEF PageInv
<1>7. \A x \in DOMAIN pv : \A p \in pv[x] : p \in Pages /\ d.free[p] = 0 /\ \A k \in DOMAIN d.kv : d.kv[k] # p
  BY <1>1, <1>2, <1>3 DEF PageInv
<1>8. \A x, s \in DOMAIN pv : \A p \in pv[x] : p \in pv[s] => x = s
  BY DEF PageInv
<1>9. \A p \in Pages : d.free[p] = 0 => (\E k \in DOMAIN d.kv : d.kv[k] = p) \/ \E x \in DOMAIN pv : p \in pv[x]
  BY <1>1, <1>2, <1>3 DEF PageInv
<1>. QED
  BY <1>4, <1>5, <1>6, <1>7, <1>8, <1>9 DEF PageInv

\* The free pages ps are shared out: x[r] for r.
Dealt(c, pv, pv2, x, ps) ==
  /\ \A p \in ps : p \in Pages /\ c.free[p] = 1
  /\ DOMAIN pv2 = DOMAIN pv
  /\ \A r \in DOMAIN pv : pv2[r] = pv[r] \cup x[r] /\ x[r] \subseteq ps
  /\ \A r, s \in DOMAIN pv : \A p \in x[r] : p \in x[s] => r = s
  /\ \A p \in ps : \E r \in DOMAIN pv : p \in x[r]

\* Free pages that the holders get.
LEMMA TakenPages ==
    ASSUME NEW c, NEW pv, PageInv(c, pv), NEW pv2, NEW x, NEW ps, Dealt(c, pv, pv2, x, ps),
           NEW d, d.kv = c.kv, d.free = [p \in Pages |-> IF p \in ps THEN c.free[p] - 1 ELSE c.free[p]]
    PROVE  PageInv(d, pv2)
<1>0. /\ \A p \in ps : p \in Pages /\ c.free[p] = 1
      /\ DOMAIN pv2 = DOMAIN pv
      /\ \A r \in DOMAIN pv : pv2[r] = pv[r] \cup x[r] /\ x[r] \subseteq ps
      /\ \A r, s \in DOMAIN pv : \A p \in x[r] : p \in x[s] => r = s
      /\ \A p \in ps : \E r \in DOMAIN pv : p \in x[r]
  BY DEF Dealt
<1>. USE <1>0
<1>1. /\ \A p \in Pages : c.free[p] \in 0 .. 1
      /\ \A p \in ps : (\A k \in DOMAIN c.kv : c.kv[k] # p) /\ \A r \in DOMAIN pv : p \notin pv[r]
      /\ \A r \in DOMAIN pv : \A p \in pv2[r] : p \in pv[r] \/ p \in x[r]
      /\ \A r \in DOMAIN pv : \A p \in pv[r] : p \in pv2[r] /\ p \notin ps
      /\ \A r \in DOMAIN pv : \A p \in x[r] : p \in pv2[r] /\ p \in ps
  BY DEF PageInv
<1>2. \A p \in Pages : d.free[p] = IF p \in ps THEN 0 ELSE c.free[p]
  BY <1>1
<1>3. d.free \in [Pages -> 0 .. 1]
  BY <1>1
<1>4. \A k \in DOMAIN d.kv : d.kv[k] \in Pages /\ d.free[d.kv[k]] = 0
  BY <1>1, <1>2 DEF PageInv
<1>5. \A k, l \in DOMAIN d.kv : d.kv[k] = d.kv[l] => k = l
  BY DEF PageInv
<1>6. \A r \in DOMAIN pv2 : \A p \in pv2[r] : p \in Pages /\ d.free[p] = 0 /\ \A k \in DOMAIN d.kv : d.kv[k] # p
  BY <1>1, <1>2 DEF PageInv
<1>7. \A r, s \in DOMAIN pv2 : \A p \in pv2[r] : p \in pv2[s] => r = s
  BY <1>1 DEF PageInv
<1>8. \A p \in Pages : d.free[p] = 0 => (\E k \in DOMAIN d.kv : d.kv[k] = p) \/ \E r \in DOMAIN pv2 : p \in pv2[r]
  BY <1>1, <1>2 DEF PageInv
<1>. QED
  BY <1>3, <1>4, <1>5, <1>6, <1>7, <1>8 DEF PageInv

\* A holder without private pages comes or goes.
LEMMA PagelessHolder ==
    ASSUME NEW c, NEW pv, NEW pv2, NEW r, r \notin DOMAIN pv, DOMAIN pv2 = DOMAIN pv \cup {r},
           pv2[r] = {}, \A x \in DOMAIN pv : pv2[x] = pv[x]
    PROVE  PageInv(c, pv) <=> PageInv(c, pv2)
<1>1. \A x : x \in DOMAIN pv2 <=> x \in DOMAIN pv \/ x = r
  OBVIOUS
<1>2. \A p : (\E x \in DOMAIN pv : p \in pv[x]) <=> \E x \in DOMAIN pv2 : p \in pv2[x]
  BY <1>1
<1>3. (\A x \in DOMAIN pv : \A p \in pv[x] : p \in Pages /\ c.free[p] = 0 /\ \A k \in DOMAIN c.kv : c.kv[k] # p)
      <=> \A x \in DOMAIN pv2 : \A p \in pv2[x] : p \in Pages /\ c.free[p] = 0 /\ \A k \in DOMAIN c.kv : c.kv[k] # p
  BY <1>1
<1>4. (\A x, s \in DOMAIN pv : \A p \in pv[x] : p \in pv[s] => x = s)
      <=> \A x, s \in DOMAIN pv2 : \A p \in pv2[x] : p \in pv2[s] => x = s
  BY <1>1
<1>. QED
  BY <1>2, <1>3, <1>4, Zenon DEF PageInv

\* Nothing of what holders read is taken from the cache.
KeepsHeld(c, d, nd) ==
  \A r \in DOMAIN nd : \A k \in DOMAIN c.kv : IsPrefix(k, nd[r]) => k \in DOMAIN d.kv /\ d.kv[k] = c.kv[k]

\* Nothing is added to the cache.
Shrinks(c, d) == \A k \in DOMAIN d.kv : k \in DOMAIN c.kv /\ d.kv[k] = c.kv[k]

\* Eviction takes no page of a holder: neither its private ones, nor those
\* of the prefix whose node it holds.
LEMMA EvictPages ==
    ASSUME NEW T, NEW c, NEW nd, CacheInv(c, nd, T), NEW pv, PageInv(c, pv), NEW n,
           NEW e \in EvictFromTreeCache(c, n)
    PROVE  PageInv(e, pv) /\ KeepsHeld(c, e, nd) /\ Shrinks(c, e)
<1>1. CASE e = c
  BY <1>1 DEF KeepsHeld, Shrinks
<1>2. ASSUME NEW ns \in SUBSET c.nodes, Loose(c, ns), e = RemoveNodes(c, ns)
      PROVE  PageInv(e, pv) /\ KeepsHeld(c, e, nd) /\ Shrinks(c, e)
  <2>. DEFINE G == Gone(c, ns)
  <2>0. Tree(c, T) /\ Without(c, e, ns)
        /\ e.free = [p \in Pages |-> IF p \in {c.kv[q] : q \in Gone(c, ns)} THEN c.free[p] + 1 ELSE c.free[p]]
    BY <1>2, RemoveMeaning DEF CacheInv
  <2>1. Tree(c, T) /\ Anchored(c, nd) /\ Exact(c, nd) /\ IsFiniteSet(DOMAIN nd)
    BY DEF CacheInv
  <2>2. /\ e.kv = [p \in DOMAIN c.kv \ G |-> c.kv[p]]
        /\ e.free = [p \in Pages |-> IF p \in {c.kv[q] : q \in G} THEN c.free[p] + 1 ELSE c.free[p]]
    BY <2>0 DEF Without
  <2>3. G \subseteq DOMAIN c.kv
    BY DEF Gone
  <2>. HIDE DEF G
  <2>4. PageInv(e, pv)
    <3>. DEFINE ps == {c.kv[q] : q \in G}
    <3>1. \A p : p \in ps <=> \E q \in G : c.kv[q] = p
      OBVIOUS
    <3>2. e.free = [p \in Pages |-> IF p \in ps THEN c.free[p] + 1 ELSE c.free[p]]
      BY <2>2
    <3>. HIDE DEF ps
    <3>3. e.kv = [q \in DOMAIN c.kv \ G |-> c.kv[q]]
      BY <2>2
    <3>4. Uncached(c, G, ps, e)
      BY <2>3, <3>1, <3>2, <3>3, Zenon DEF Uncached
    <3>. QED
      BY <3>4, UncachedNow
  <2>5. Shrinks(c, e)
    BY <2>2 DEF Shrinks
  <2>6. ASSUME NEW r \in DOMAIN nd, NEW k \in DOMAIN c.kv, IsPrefix(k, nd[r])
        PROVE  k \notin G
    <3>1. PICK m \in c.nodes : Owns(c, m, k)
      BY <2>1 DEF Tree, Branching
    <3>2. k \in Seq(T) /\ Len(k) > 0
      BY <2>1 DEF Tree, Shape
    <3>3. nd[r] \in c.nodes
      <4>1. nd[r] \in c.nodes \cup {<< >>}
        BY <2>1 DEF Anchored
      <4>2. nd[r] # << >>
        <5>1. << >> \in Seq(T) /\ Len(<< >>) = 0
          OBVIOUS
        <5>2. IsPrefix(k, << >>) => Len(k) <= Len(<< >>)
          BY <3>2, <5>1, PrefixOrder
        <5>. QED
          BY <2>6, <3>2, <5>1, <5>2
      <4>. QED
        BY <4>1, <4>2
    <3>4. IsPrefix(m, nd[r])
      BY <2>6, <3>1, <3>3 DEF Owns
    <3>5. r \in Below(m, nd)
      BY <3>4 DEF Below
    <3>6. IsFiniteSet(Below(m, nd))
      BY <2>1, FS_Subset DEF Below
    <3>7. Cardinality(Below(m, nd)) # 0
      BY <3>5, <3>6, FS_EmptySet
    <3>8. m \notin ns
      BY <1>2, <2>1, <3>1, <3>7 DEF Loose, Exact
    <3>. QED
      BY <1>2, <2>1, <3>1, <3>8, GoneOwned DEF G
  <2>7. KeepsHeld(c, e, nd)
    BY <2>2, <2>6 DEF KeepsHeld
  <2>. QED
    BY <2>4, <2>5, <2>7
<1>3. e = c \/ \E ns \in SUBSET c.nodes : Loose(c, ns) /\ e = RemoveNodes(c, ns)
  <2>1. CASE AvailableSize(c) >= n
    BY <2>1 DEF EvictFromTreeCache
  <2>2. CASE ~(AvailableSize(c) >= n)
    <3>1. e \in Evict(c, n)
      BY <2>2 DEF EvictFromTreeCache
    <3>2. PICK ns \in SUBSET Removable(c) : (\A m \in ns : Descendants(c, m) \subseteq ns) /\ e = RemoveNodes(c, ns)
      BY <3>1, Zenon DEF Evict
    <3>3. \A m \in ns : m \in c.nodes /\ \A k \in Descendants(c, m) : c.lock[k] = 0
      BY <3>2 DEF Removable
    <3>4. \A m \in ns : m \in Descendants(c, m)
      <4>1. \A m \in c.nodes : m \in Seq(T)
        BY DEF CacheInv, Tree, Shape
      <4>. QED
        BY <3>3, <4>1, PrefixOrder DEF Descendants
    <3>5. Loose(c, ns)
      BY <3>2, <3>3, <3>4 DEF Loose
    <3>. QED
      BY <3>2, <3>3, <3>5
  <2>. QED
    BY <2>1, <2>2
<1>. QED
  BY <1>1, <1>2, <1>3

---------------------------------------------------------------------------
(* Numbers of pages. *)

\* The i-th page begins before and ends at or after the tokens it is for.
LEMMA PageBounds ==
    ASSUME NEW n \in Nat
    PROVE  /\ PageCount(n) \in Nat
           /\ \A i \in Int : i * PageSize \in Int /\ (i * PageSize >= n <=> i >= PageCount(n))
<1>. DEFINE P == PageSize
            q == (n + P - 1) \div P
            m == (n + P - 1) % P
<1>1. P \in Nat \ {0} /\ n + P - 1 \in Nat
  BY PageSizeAssumption
<1>2. n + P - 1 = P * q + m /\ m \in 0 .. P - 1 /\ q \in Int
  BY <1>1, DivMod
<1>3. PageCount(n) = q
  <2>1. CeilPaged(n) = q * PageSize
    BY DEF CeilPaged
  <2>. QED
    BY <2>1, <1>2, PageCountOf DEF PageCount, CeilPaged
<1>. HIDE DEF q, m
<1>4. P * q \in Int /\ P * q >= n /\ P * q - P < n
  <2>1. P * q \in Int
    BY <1>1, <1>2
  <2>. HIDE DEF P
  <2>. QED
    BY <2>1, <1>1, <1>2
<1>. HIDE DEF P
<1>5. ASSUME NEW i \in Int
      PROVE  i * P \in Int /\ (i * P >= n <=> i >= q)
  <2>1. i * P = P * i /\ P * i \in Int
    BY <1>1
  <2>2. CASE i >= q
    <3>1. P * q <= P * i
      BY <2>2, <1>1, <1>2, TimesOrder
    <3>. QED
      BY <3>1, <2>1, <2>2, <1>4
  <2>3. CASE ~(i >= q)
    <3>1. i <= q - 1 /\ q - 1 \in Int
      BY <2>3, <1>2
    <3>2. P * i <= P * (q - 1)
      BY <3>1, <1>1, TimesOrder
    <3>3. P * (q - 1) = P * q - P
      BY <1>1, <1>2
    <3>. QED
      BY <3>2, <3>3, <2>1, <2>3, <1>4, <1>1
  <2>. QED
    BY <2>2, <2>3
<1>6. q \in Nat
  <2>1. CASE q < 0
    <3>1. P * q < P * 0
      BY <2>1, <1>1, <1>2, TimesOrder
    <3>2. P * 0 = 0
      BY <1>1
    <3>. QED
      BY <3>1, <3>2, <1>4
  <2>. QED
    BY <2>1, <1>2
<1>. QED
  BY <1>3, <1>5, <1>6 DEF P

\* More tokens need no fewer pages.
LEMMA PageCountMonotone ==
    ASSUME NEW m \in Nat, NEW n \in Nat, m <= n
    PROVE  PageCount(m) <= PageCount(n)
<1>1. PageCount(m) \in Nat /\ PageCount(n) \in Nat
  BY PageBounds
<1>2. PageCount(n) * PageSize \in Int /\ PageCount(n) * PageSize >= n
  BY <1>1, PageBounds
<1>3. PageCount(n) * PageSize >= m
  BY <1>2
<1>. QED
  BY <1>1, <1>3, PageBounds

\* The whole pages of n tokens.
LEMMA FloorBounds ==
    ASSUME NEW n \in Nat
    PROVE  /\ FloorPaged(n) \in Nat /\ FloorPaged(n) <= n /\ FloorPaged(n) % PageSize = 0
           /\ \A m \in Nat : m % PageSize = 0 /\ m <= n => m <= FloorPaged(n)
<1>. DEFINE P == PageSize
            q == n \div P
<1>1. P \in Nat \ {0}
  BY PageSizeAssumption
<1>2. n = P * q + (n % P) /\ n % P \in 0 .. P - 1 /\ q \in Int
  BY <1>1, DivMod
<1>3. FloorPaged(n) = q * P /\ q * P = P * q /\ P * q \in Int
  BY <1>1, <1>2 DEF FloorPaged
<1>4. FloorPaged(n) % PageSize = 0
  BY FloorMeaning
<1>. HIDE DEF P, q
<1>5. ASSUME NEW m \in Nat, m % PageSize = 0, m <= n
      PROVE  m <= P * q
  <2>. DEFINE k == PageCount(m)
  <2>1. k \in Nat /\ m = k * P
    BY <1>5, PagedLen DEF P
  <2>. HIDE DEF k
  <2>2. m = P * k
    BY <2>1, <1>1
  <2>3. CASE k > q
    <3>1. P * (q + 1) <= P * k
      BY <2>1, <2>3, <1>1, <1>2, TimesOrder
    <3>2. P * (q + 1) = P * q + P
      BY <1>1, <1>2
    <3>. QED
      BY <3>1, <3>2, <2>2, <1>1, <1>2, <1>3, <1>5
  <2>4. CASE k <= q
    BY <2>1, <2>2, <2>4, <1>1, <1>2, TimesOrder
  <2>. QED
    BY <2>1, <2>3, <2>4, <1>2
<1>6. 0 % PageSize = 0
  BY <1>1 DEF P
<1>7. 0 <= P * q
  BY <1>5, <1>6
<1>. QED
  BY <1>2, <1>3, <1>4, <1>5, <1>7

---------------------------------------------------------------------------
(* The free list. *)

\* Every number below the size of a finite set of numbers is the number of
\* members below one of its members.
LEMMA FreeRanks ==
    ASSUME NEW at \in SUBSET Nat, IsFiniteSet(at)
    PROVE  \A k \in 1 .. Cardinality(at) : \E i \in at : Cardinality({j \in at : j < i}) = k - 1
<1>. DEFINE below(i) == {j \in at : j < i}
            f == [i \in at |-> Cardinality(below(i)) + 1]
            m == Cardinality(at)
<1>2. m \in Nat
  BY FS_CardinalityType
<1>3. ASSUME NEW i \in at
      PROVE  IsFiniteSet(below(i)) /\ Cardinality(below(i)) \in Nat /\ Cardinality(below(i)) + 1 \in 1 .. m
  <2>1. below(i) \in SUBSET at
    OBVIOUS
  <2>2. IsFiniteSet(below(i)) /\ Cardinality(below(i)) <= m /\ Cardinality(below(i)) \in Nat
        /\ (Cardinality(below(i)) = m => below(i) = at)
    BY <2>1, FS_Subset, FS_CardinalityType
  <2>3. i \notin below(i)
    OBVIOUS
  <2>4. Cardinality(below(i)) # m
    BY <2>2, <2>3
  <2>. QED
    BY <2>2, <2>4, <1>2
<1>4. ASSUME NEW i \in at, NEW k \in at, i < k
      PROVE  Cardinality(below(i)) < Cardinality(below(k))
  <2>2. below(i) \subseteq below(k)
    <3>1. SUFFICES ASSUME NEW j \in at, j < i PROVE j < k
      OBVIOUS
    <3>. QED
      BY <3>1, <1>4
  <2>3. i \in below(k) /\ i \notin below(i)
    BY <1>4
  <2>4. /\ Cardinality(below(i)) <= Cardinality(below(k))
        /\ Cardinality(below(k)) = Cardinality(below(i)) => below(k) = below(i)
    BY <2>2, <1>3, FS_Subset
  <2>. QED
    BY <2>3, <2>4, <1>3
<1>5. f \in [at -> 1 .. m]
  BY <1>3
<1>6. IsInjective(f)
  <2>1. SUFFICES ASSUME NEW i \in at, NEW k \in at, f[i] = f[k], i # k
                 PROVE  FALSE
    BY DEF IsInjective
  <2>2. f[i] = Cardinality(below(i)) + 1 /\ f[k] = Cardinality(below(k)) + 1
    OBVIOUS
  <2>3. i < k \/ k < i
    BY <2>1
  <2>4. Cardinality(below(i)) \in Nat /\ Cardinality(below(k)) \in Nat
    BY <1>3
  <2>5. Cardinality(below(i)) = Cardinality(below(k))
    BY <2>1, <2>2, <2>4
  <2>6. CASE i < k
    BY <2>4, <2>5, <2>6, <1>4
  <2>7. CASE k < i
    BY <2>4, <2>5, <2>7, <1>4
  <2>. QED
    BY <2>3, <2>6, <2>7
<1>7. f \in Injection(at, 1 .. m)
  BY <1>5, <1>6 DEF Injection
<1>8. IsFiniteSet(1 .. m) /\ Cardinality(1 .. m) = m
  BY <1>2, FS_Interval
<1>9. f \in Surjection(at, 1 .. m)
  BY <1>7, <1>8, FS_Injection
<1>10. \A k \in 1 .. m : \E i \in at : f[i] = k
  BY <1>9 DEF Surjection
<1>11. \A i \in at : f[i] = Cardinality(below(i)) + 1
  OBVIOUS
<1>12. ASSUME NEW k \in 1 .. m
       PROVE  \E i \in at : Cardinality(below(i)) = k - 1
  <2>1. PICK i \in at : f[i] = k
    BY <1>10
  <2>2. Cardinality(below(i)) \in Nat /\ k = Cardinality(below(i)) + 1
    BY <2>1, <1>3, <1>11
  <2>3. Cardinality(below(i)) = k - 1
    <3>. HIDE DEF below
    <3>. QED
      BY <2>2
  <2>. QED
    BY <2>3
<1>. QED
  BY <1>12

\* The pages that are free.
FreeSet(c) == {p \in Pages : c.free[p] > 0}

\* The free list as long as it has to be: different free pages.
LEMMA FreePagesMeaning ==
    ASSUME NEW c, NEW n \in Nat, n <= Cardinality(FreeSet(c))
    PROVE  LET s == FreePages(c, n)
           IN  /\ s \in Seq(Pages) /\ Len(s) = n
               /\ \A i \in 1 .. n : s[i] \in FreeSet(c)
               /\ \A i, j \in 1 .. n : s[i] = s[j] => i = j
<1>. DEFINE free == FreeSet(c)
            below(p) == {q \in free : q < p}
            ch(i) == CHOOSE p \in free : Cardinality(below(p)) = i - 1
            s == [i \in 1 .. n |-> ch(i)]
<1>1. free \in SUBSET Nat /\ free \subseteq Pages /\ IsFiniteSet(free)
  BY PagesAssumption, FS_Subset DEF FreeSet
<1>2. Cardinality(free) \in Nat
  BY <1>1, FS_CardinalityType
<1>3. Min({n, Cardinality(free)}) = n
  <2>. DEFINE N == Cardinality(free)
  <2>1. {n, N} \subseteq Nat /\ {n, N} # {} /\ n <= N
    BY <1>2
  <2>. HIDE DEF N
  <2>2. Min({n, N}) \in {n, N} /\ \A i \in {n, N} : Min({n, N}) <= i
    BY <2>1, LeastNat
  <2>. QED
    BY <2>1, <2>2 DEF N
<1>4. FreePages(c, n) = s
  BY <1>3 DEF FreePages, FreeSet
<1>5. ASSUME NEW i \in 1 .. n
      PROVE  s[i] \in free /\ Cardinality(below(s[i])) = i - 1
  <2>1. i \in 1 .. Cardinality(free)
    BY <1>2
  <2>2. \E p \in free : Cardinality(below(p)) = i - 1
    BY <2>1, <1>1, FreeRanks
  <2>3. s[i] = CHOOSE p \in free : Cardinality(below(p)) = i - 1
    OBVIOUS
  <2>. HIDE DEF free, s
  <2>. QED
    BY <2>2, <2>3, Zenon
<1>6. \A i, j \in 1 .. n : s[i] = s[j] => i = j
  <2>1. SUFFICES ASSUME NEW i \in 1 .. n, NEW j \in 1 .. n, s[i] = s[j] PROVE i = j
    OBVIOUS
  <2>2. i - 1 = j - 1
    BY <2>1, <1>5
  <2>. QED
    BY <2>2
<1>7. s \in Seq(Pages) /\ Len(s) = n
  <2>1. \A i \in 1 .. n : s[i] \in Pages
    BY <1>1, <1>5
  <2>. HIDE DEF ch
  <2>. QED
    BY <2>1
<1>. QED
  BY <1>4, <1>5, <1>6, <1>7

\* available_size counts the free pages.
LEMMA FreeCount ==
    ASSUME NEW c, c.free \in [Pages -> 0 .. 1]
    PROVE  SumFunctionOnSet(c.free, Pages) = Cardinality(FreeSet(c))
<1>. DEFINE Of(s) == {p \in s : c.free[p] > 0}
            B == {s \in SUBSET Pages : SumFunctionOnSet(c.free, s) = Cardinality(Of(s))}
<1>1. SumFunctionOnSet(c.free, {}) = 0
  BY FS_EmptySet, SumPicked
<1>2. {} \in B
  <2>1. Of({}) = {}
    OBVIOUS
  <2>. QED
    BY <1>1, <2>1, FS_EmptySet
<1>3. ASSUME NEW s \in SUBSET Pages, NEW x \in s, s \ {x} \in B
      PROVE  s \in B
  <2>1. IsFiniteSet(s) /\ \A p \in s : c.free[p] \in Int
    BY PagesAssumption, FS_Subset
  <2>2. SumFunctionOnSet(c.free, s) = c.free[x] + SumFunctionOnSet(c.free, s \ {x})
    BY <2>1, SumRemove
  <2>3. SumFunctionOnSet(c.free, s \ {x}) = Cardinality(Of(s \ {x}))
    BY <1>3
  <2>4. IsFiniteSet(Of(s)) /\ IsFiniteSet(Of(s \ {x}))
    BY <2>1, FS_Subset
  <2>5. CASE c.free[x] = 0
    <3>1. Of(s) = Of(s \ {x})
      BY <2>5
    <3>2. Cardinality(Of(s \ {x})) \in Nat
      BY <2>4, FS_CardinalityType
    <3>3. SumFunctionOnSet(c.free, s) = Cardinality(Of(s \ {x}))
      <4>. HIDE DEF Of
      <4>. QED
        BY <2>2, <2>3, <2>5, <3>2
    <3>. QED
      BY <3>1, <3>3
  <2>6. CASE c.free[x] = 1
    <3>1. Of(s) = Of(s \ {x}) \cup {x} /\ x \notin Of(s \ {x})
      BY <2>6
    <3>2. Cardinality(Of(s \ {x})) \in Nat
      BY <2>4, FS_CardinalityType
    <3>. HIDE DEF Of
    <3>3. Cardinality(Of(s)) = Cardinality(Of(s \ {x})) + 1
      BY <3>1, <2>4, FS_AddElement
    <3>4. SumFunctionOnSet(c.free, s) = Cardinality(Of(s))
      BY <2>2, <2>3, <2>6, <3>2, <3>3
    <3>. QED
      BY <3>4
  <2>. QED
    BY <2>5, <2>6
<1>. HIDE DEF B
<1>4. Pages \in B
  BY <1>2, <1>3, PagesAssumption, SubsetsBy
<1>. QED
  BY <1>4 DEF B, FreeSet

---------------------------------------------------------------------------
(* Sharing out a list. *)

\* The i-th share of a list ends where the next begins.
LEMMA Shares ==
    ASSUME NEW L \in Nat, NEW n \in [1 .. L -> Nat]
    PROVE  LET start(i) == SumFunctionOnSet(n, 1 .. i - 1)
               total == SumFunctionOnSet(n, 1 .. L)
           IN  /\ total \in Nat
               /\ \A i \in 1 .. L : start(i) \in Nat /\ start(i) + n[i] <= total
               /\ \A i, j \in 1 .. L : i < j => start(i) + n[i] <= start(j)
               /\ \A k \in 1 .. total : \E i \in 1 .. L : start(i) < k /\ k <= start(i) + n[i]
<1>. DEFINE S(i) == SumFunctionOnSet(n, 1 .. i)
<1>0. ASSUME NEW i \in 0 .. L
      PROVE  IsFiniteSet(1 .. i) /\ \A x \in 1 .. i : n[x] \in Nat /\ n[x] \in Int
  <2>1. IsFiniteSet(1 .. i)
    BY FS_Interval
  <2>2. \A x \in 1 .. i : n[x] \in Nat /\ n[x] \in Int
    OBVIOUS
  <2>. QED
    BY <2>1, <2>2
<1>1. \A i \in 0 .. L : S(i) \in Nat
  BY <1>0, SumNat
<1>2. ASSUME NEW i \in 1 .. L
      PROVE  S(i) = S(i - 1) + n[i] /\ i - 1 \in 0 .. L /\ i \in 0 .. L
  <2>1. (1 .. i) \ {i} = 1 .. i - 1 /\ i \in 1 .. i /\ i \in 0 .. L /\ i - 1 \in 0 .. L
    OBVIOUS
  <2>2. SumFunctionOnSet(n, 1 .. i) = n[i] + SumFunctionOnSet(n, (1 .. i) \ {i})
    <3>. DEFINE A == 1 .. i
    <3>1. IsFiniteSet(A) /\ i \in A /\ \A x \in A : n[x] \in Int
      BY <2>1, <1>0
    <3>. HIDE DEF A
    <3>2. \A y \in A : SumFunctionOnSet(n, A) = n[y] + SumFunctionOnSet(n, A \ {y})
      BY <3>1, SumRemove
    <3>. QED
      BY <3>1, <3>2, Zenon DEF A
  <2>3. S(i) = n[i] + S(i - 1)
    BY <2>1, <2>2
  <2>4. S(i - 1) \in Nat /\ n[i] \in Nat
    BY <2>1, <1>1
  <2>. HIDE DEF S
  <2>. QED
    BY <2>1, <2>3, <2>4
<1>3. ASSUME NEW i \in 0 .. L, NEW j \in 0 .. L, i <= j
      PROVE  S(i) <= S(j)
  <2>. DEFINE A == 1 .. i
              C == (i + 1) .. j
  <2>1. A \cap C = {} /\ A \cup C = 1 .. j
    BY <1>3
  <2>2. IsFiniteSet(A) /\ IsFiniteSet(C) /\ (\A x \in A : n[x] \in Nat) /\ (\A x \in C : n[x] \in Nat)
    <3>1. IsFiniteSet(A) /\ IsFiniteSet(C)
      BY FS_Interval
    <3>2. (\A x \in A : n[x] \in Nat) /\ (\A x \in C : n[x] \in Nat)
      OBVIOUS
    <3>. QED
      BY <3>1, <3>2
  <2>3. \A x \in A \cup C : n[x] \in Int
    BY <2>2
  <2>. HIDE DEF A, C
  <2>4. SumFunctionOnSet(n, A \cup C) = SumFunctionOnSet(n, A) + SumFunctionOnSet(n, C)
    BY <2>1, <2>2, <2>3, SumUnion
  <2>5. SumFunctionOnSet(n, C) \in Nat /\ SumFunctionOnSet(n, A) \in Nat
    BY <2>2, SumNat
  <2>6. SumFunctionOnSet(n, A) <= SumFunctionOnSet(n, A \cup C)
    BY <2>4, <2>5
  <2>. QED
    BY <2>1, <2>6 DEF A
<1>4. S(0) = 0
  <2>1. 1 .. 0 = {}
    OBVIOUS
  <2>. QED
    BY <2>1, FS_EmptySet, SumPicked
<1>. HIDE DEF S
<1>5. L \in 0 .. L
  OBVIOUS
<1>6. \A i \in 1 .. L : S(i - 1) \in Nat /\ S(i - 1) + n[i] <= S(L)
  BY <1>1, <1>2, <1>3, <1>5
<1>7. \A i, j \in 1 .. L : i < j => S(i - 1) + n[i] <= S(j - 1)
  <2>1. SUFFICES ASSUME NEW i \in 1 .. L, NEW j \in 1 .. L, i < j PROVE S(i - 1) + n[i] <= S(j - 1)
    OBVIOUS
  <2>2. i <= j - 1 /\ i \in 0 .. L /\ j - 1 \in 0 .. L
    BY <2>1
  <2>3. S(i) <= S(j - 1)
    BY <2>2, <1>3
  <2>. QED
    BY <2>3, <1>2
<1>8. ASSUME NEW k \in 1 .. S(L)
      PROVE  \E i \in 1 .. L : S(i - 1) < k /\ k <= S(i - 1) + n[i]
  <2>. DEFINE I == {i \in 0 .. L : k <= S(i)}
              m == Min(I)
  <2>1. I \subseteq Nat /\ I # {} /\ k \in Int
    BY <1>5, <1>1
  <2>2. m \in I /\ \A i \in I : m <= i
    BY <2>1, LeastNat
  <2>. HIDE DEF m
  <2>3. m \in 0 .. L /\ k <= S(m)
    BY <2>2
  <2>4. m # 0
    BY <2>3, <1>4, <2>1
  <2>5. m \in 1 .. L /\ m - 1 \in 0 .. L
    BY <2>3, <2>4
  <2>6. ~(k <= S(m - 1))
    BY <2>2, <2>5
  <2>7. S(m - 1) < k
    BY <2>5, <2>6, <1>1, <2>1
  <2>. QED
    BY <2>3, <2>5, <2>7, <1>2
<1>9. S(L) \in Nat
  BY <1>1, <1>5
<1>. QED
  BY <1>6, <1>7, <1>8, <1>9 DEF S

---------------------------------------------------------------------------
(* alloc_extend and alloc_decode. *)

\* x[r] are the pages, free in c, that the members r of rs get: as many as
\* they need, or none, and no page twice.
Allotted(c, rs, from, to, m, x) ==
  /\ DOMAIN m.pages = ToSet(rs)
  /\ m.cache.kv = c.kv
  /\ \A r \in ToSet(rs) : /\ x[r] \in Seq(Pages) /\ m.pages[r] = req[r].pages \o x[r]
                          /\ m.ok => Len(x[r]) = PageCount(to[r]) - PageCount(from[r])
                          /\ ~m.ok => Len(x[r]) = 0
                          /\ \A i \in 1 .. Len(x[r]) : c.free[x[r][i]] = 1
                          /\ \A i, j \in 1 .. Len(x[r]) : x[r][i] = x[r][j] => i = j
  /\ \A r, s \in ToSet(rs) : \A i \in 1 .. Len(x[r]), j \in 1 .. Len(x[s]) : x[r][i] = x[s][j] => r = s
  /\ \E ps : /\ m.cache.free = [p \in Pages |-> IF p \in ps THEN c.free[p] - 1 ELSE c.free[p]]
             /\ \A p : p \in ps <=> \E r \in ToSet(rs) : \E i \in 1 .. Len(x[r]) : x[r][i] = p

\* Either every request of the batch gets the pages it needs, or none does.
LEMMA AllocateMeaning ==
    ASSUME NEW c, DOMAIN c = DOMAIN EmptyCache, c.free \in [Pages -> 0 .. 1],
           NEW rs \in Seq(Reqs), IsInjective(rs), NEW from, NEW to,
           \A r \in ToSet(rs) : from[r] \in Nat /\ to[r] \in Nat /\ from[r] <= to[r]
    PROVE  LET m == Allocate(c, rs, from, to)
           IN  /\ m.ok \in BOOLEAN
               /\ \E x : Allotted(c, rs, from, to, m, x)
<1>. DEFINE L == Len(rs)
            n == [i \in 1 .. L |-> PageCount(to[rs[i]]) - PageCount(from[rs[i]])]
            start == [i \in 1 .. L |-> SumFunctionOnSet(n, 1 .. i - 1)]
            total == SumFunction(n)
            new == FreePages(c, total)
            ok == total * PageSize <= AvailableSize(c)
            at(r) == CHOOSE j \in 1 .. L : rs[j] = r
            m == Allocate(c, rs, from, to)
            x == [r \in ToSet(rs) |-> IF ok THEN SubSeq(new, start[at(r)] + 1, start[at(r)] + n[at(r)]) ELSE << >>]
<1>1. /\ m.ok = ok
      /\ m.cache = IF ok THEN Take(c, ToSet(new)) ELSE c
      /\ m.pages = [r \in ToSet(rs) |-> req[r].pages \o (IF ok THEN SubSeq(new, start[at(r)] + 1, start[at(r)] + n[at(r)]) ELSE << >>)]
  BY DEF Allocate
<1>2. L \in Nat /\ \A i \in 1 .. L : rs[i] \in Reqs /\ rs[i] \in ToSet(rs)
  BY DEF ToSet
<1>3. ASSUME NEW r \in ToSet(rs)
      PROVE  at(r) \in 1 .. L /\ rs[at(r)] = r
  <2>1. \E j \in 1 .. L : rs[j] = r
    BY DEF ToSet
  <2>. QED
    BY <2>1
<1>. HIDE DEF m, at
<1>4. n \in [1 .. L -> Nat]
  <2>1. SUFFICES ASSUME NEW i \in 1 .. L PROVE PageCount(to[rs[i]]) - PageCount(from[rs[i]]) \in Nat
    OBVIOUS
  <2>2. from[rs[i]] \in Nat /\ to[rs[i]] \in Nat /\ from[rs[i]] <= to[rs[i]]
    BY <1>2
  <2>3. PageCount(from[rs[i]]) \in Nat /\ PageCount(to[rs[i]]) \in Nat /\ PageCount(from[rs[i]]) <= PageCount(to[rs[i]])
    BY <2>2, PageBounds, PageCountMonotone
  <2>. QED
    BY <2>3
<1>5. \A r \in ToSet(rs) : n[at(r)] = PageCount(to[r]) - PageCount(from[r])
  BY <1>3
<1>6. start = [i \in 1 .. L |-> SumFunctionOnSet(n, 1 .. i - 1)] /\ total = SumFunctionOnSet(n, 1 .. L)
  BY <1>4 DEF SumFunction
<1>. HIDE DEF n
<1>7. /\ total \in Nat
      /\ \A i \in 1 .. L : start[i] \in Nat /\ start[i] + n[i] <= total
      /\ \A i, j \in 1 .. L : i < j => start[i] + n[i] <= start[j]
      /\ \A k \in 1 .. total : \E i \in 1 .. L : start[i] < k /\ k <= start[i] + n[i]
  BY <1>2, <1>4, <1>6, Shares
<1>. HIDE DEF start, total
<1>8. ok \in BOOLEAN
  OBVIOUS
<1>9. CASE ~ok
  <2>1. \A r \in ToSet(rs) : x[r] = << >> /\ m.pages[r] = req[r].pages \o x[r]
    BY <1>1, <1>9
  <2>2. m.cache = c /\ ~m.ok
    BY <1>1, <1>9
  <2>3. DOMAIN m.pages = ToSet(rs)
    BY <1>1
  <2>. HIDE DEF x
  <2>4. m.cache.free = [p \in Pages |-> IF p \in {} THEN c.free[p] - 1 ELSE c.free[p]]
    BY <2>2
  <2>5. \A r \in ToSet(rs) : x[r] \in Seq(Pages) /\ Len(x[r]) = 0 /\ 1 .. Len(x[r]) = {}
    <3>1. << >> \in Seq(Pages) /\ Len(<< >>) = 0 /\ 1 .. 0 = {}
      OBVIOUS
    <3>. QED
      BY <2>1, <3>1, Zenon
  <2>6. \E ps : /\ m.cache.free = [p \in Pages |-> IF p \in ps THEN c.free[p] - 1 ELSE c.free[p]]
                /\ \A p : p \in ps <=> \E r \in ToSet(rs) : \E i \in 1 .. Len(x[r]) : x[r][i] = p
    <3>1. PICK ps : ps = {}
      OBVIOUS
    <3>2. \A p : p \in ps <=> \E r \in ToSet(rs) : \E i \in 1 .. Len(x[r]) : x[r][i] = p
      BY <2>5, <3>1
    <3>3. m.cache.free = [p \in Pages |-> IF p \in ps THEN c.free[p] - 1 ELSE c.free[p]]
      BY <2>4, <3>1
    <3>. QED
      BY <3>2, <3>3, Zenon
  <2>7. Allotted(c, rs, from, to, m, x)
    BY <2>1, <2>2, <2>3, <2>5, <2>6 DEF Allotted
  <2>. QED
    BY <2>7, <1>1, <1>8 DEF m
<1>10. CASE ok
  <2>1. total <= Cardinality(FreeSet(c))
    <3>. DEFINE N == Cardinality(FreeSet(c))
    <3>1. AvailableSize(c) = PageSize * N
      BY FreeCount DEF AvailableSize
    <3>2. N \in Nat
      BY PagesAssumption, FS_Subset, FS_CardinalityType DEF FreeSet
    <3>3. total * PageSize <= PageSize * N
      BY <1>10, <3>1
    <3>. HIDE DEF N
    <3>. DEFINE P == PageSize
    <3>4. P \in Nat \ {0} /\ total * P = P * total /\ total * P <= P * N
      BY <3>3, <1>7, PageSizeAssumption
    <3>. HIDE DEF P
    <3>5. P * total <= P * N
      BY <3>4
    <3>6. total <= N <=> P * total <= P * N
      <4>1. total \in Int /\ N \in Int
        BY <3>2, <1>7
      <4>. QED
        BY <3>4, <4>1, TimesOrder
    <3>. QED
      BY <3>5, <3>6 DEF N
  <2>2. /\ new \in Seq(Pages) /\ Len(new) = total
        /\ \A i \in 1 .. total : new[i] \in FreeSet(c)
        /\ \A i, j \in 1 .. total : new[i] = new[j] => i = j
    BY <2>1, <1>7, FreePagesMeaning
  <2>3. m.ok /\ m.cache = Take(c, ToSet(new))
    BY <1>1, <1>10
  <2>4. DOMAIN m.pages = ToSet(rs) /\ \A r \in ToSet(rs) : m.pages[r] = req[r].pages \o x[r]
    BY <1>1, <1>10
  <2>. HIDE DEF new, ok
  <2>5. ASSUME NEW r \in ToSet(rs)
        PROVE  /\ x[r] \in Seq(Pages) /\ Len(x[r]) = n[at(r)]
               /\ \A i \in 1 .. Len(x[r]) : start[at(r)] + i \in 1 .. total /\ x[r][i] = new[start[at(r)] + i]
    <3>1. at(r) \in 1 .. L /\ start[at(r)] \in Nat /\ n[at(r)] \in Nat /\ start[at(r)] + n[at(r)] <= total
      BY <1>3, <1>4, <1>7
    <3>2. x[r] = SubSeq(new, start[at(r)] + 1, start[at(r)] + n[at(r)])
      BY <1>10
    <3>. HIDE DEF x
    <3>. DEFINE a == start[at(r)]
                b == n[at(r)]
    <3>3. a \in Nat /\ b \in Nat /\ a + b <= total /\ x[r] = SubSeq(new, a + 1, a + b)
      BY <3>1, <3>2
    <3>. HIDE DEF a, b
    <3>4. a + 1 \in 1 .. (Len(new) + 1) /\ a + b \in ((a + 1) - 1) .. Len(new)
      BY <3>3, <2>2, <1>7
    <3>5. /\ x[r] \in Seq(Pages) /\ Len(x[r]) = (a + b) - (a + 1) + 1
          /\ \A k \in 1 .. ((a + b) - (a + 1) + 1) : (a + 1) + k - 1 \in 1 .. Len(new) /\ x[r][k] = new[(a + 1) + k - 1]
      BY <3>3, <3>4, <2>2, SubSeqAt
    <3>6. (a + b) - (a + 1) + 1 = b /\ \A k \in 1 .. b : (a + 1) + k - 1 = a + k
      BY <3>3
    <3>7. /\ x[r] \in Seq(Pages) /\ Len(x[r]) = b
          /\ \A k \in 1 .. b : a + k \in 1 .. total /\ x[r][k] = new[a + k]
      BY <3>5, <3>6, <2>2
    <3>. QED
      BY <3>7 DEF a, b
  <2>. HIDE DEF x
  <2>6. \A r \in ToSet(rs) : \A i \in 1 .. Len(x[r]) : c.free[x[r][i]] = 1
    <3>1. \A p \in FreeSet(c) : c.free[p] = 1
      BY DEF FreeSet
    <3>. QED
      BY <3>1, <2>2, <2>5
  <2>7. \A r \in ToSet(rs) : \A i, j \in 1 .. Len(x[r]) : x[r][i] = x[r][j] => i = j
    <3>1. SUFFICES ASSUME NEW r \in ToSet(rs), NEW i \in 1 .. Len(x[r]), NEW j \in 1 .. Len(x[r]), x[r][i] = x[r][j]
                   PROVE  i = j
      OBVIOUS
    <3>2. start[at(r)] + i = start[at(r)] + j
      BY <3>1, <2>2, <2>5
    <3>3. start[at(r)] \in Nat
      BY <1>3, <1>7
    <3>. QED
      BY <3>2, <3>3
  <2>8. \A r, s \in ToSet(rs) : \A i \in 1 .. Len(x[r]), j \in 1 .. Len(x[s]) : x[r][i] = x[s][j] => r = s
    <3>1. SUFFICES ASSUME NEW r \in ToSet(rs), NEW s \in ToSet(rs), NEW i \in 1 .. Len(x[r]), NEW j \in 1 .. Len(x[s]),
                          x[r][i] = x[s][j], r # s
                   PROVE  FALSE
      OBVIOUS
    <3>. DEFINE a == start[at(r)]
                b == start[at(s)]
                u == n[at(r)]
                v == n[at(s)]
    <3>2. a + i = b + j
      BY <3>1, <2>2, <2>5
    <3>3. at(r) \in 1 .. L /\ at(s) \in 1 .. L /\ at(r) # at(s)
      BY <3>1, <1>3
    <3>4. a \in Nat /\ b \in Nat /\ u \in Nat /\ v \in Nat /\ (a + u <= b \/ b + v <= a)
      <4>1. at(r) < at(s) \/ at(s) < at(r)
        BY <3>3, <1>2
      <4>. QED
        BY <4>1, <3>3, <1>4, <1>7
    <3>5. i \in 1 .. u /\ j \in 1 .. v
      BY <2>5
    <3>. HIDE DEF a, b, u, v
    <3>. QED
      BY <3>2, <3>4, <3>5
  <2>9. \A p : p \in ToSet(new) <=> \E r \in ToSet(rs) : \E i \in 1 .. Len(x[r]) : x[r][i] = p
    <3>0. \A p : p \in ToSet(new) <=> \E k \in 1 .. total : new[k] = p
      BY <2>2 DEF ToSet
    <3>1. ASSUME NEW k \in 1 .. total
          PROVE  \E r \in ToSet(rs) : \E i \in 1 .. Len(x[r]) : x[r][i] = new[k]
      <4>1. PICK l \in 1 .. L : start[l] < k /\ k <= start[l] + n[l]
        BY <1>7
      <4>. DEFINE r == rs[l]
                  i == k - start[l]
      <4>2. r \in ToSet(rs) /\ at(r) = l
        <5>1. r \in ToSet(rs)
          BY <1>2
        <5>2. at(r) \in 1 .. L /\ rs[at(r)] = rs[l]
          BY <5>1, <1>3
        <5>. QED
          BY <5>1, <5>2, <1>2 DEF IsInjective
      <4>3. i \in 1 .. n[l] /\ start[l] + i = k
        <5>1. start[l] \in Nat /\ n[l] \in Nat
          BY <1>4, <1>7
        <5>. QED
          BY <4>1, <5>1
      <4>4. i \in 1 .. Len(x[r]) /\ x[r][i] = new[k]
        BY <4>2, <4>3, <2>5
      <4>. QED
        BY <4>2, <4>4
    <3>2. ASSUME NEW r \in ToSet(rs), NEW i \in 1 .. Len(x[r])
          PROVE  \E k \in 1 .. total : new[k] = x[r][i]
      BY <2>5
    <3>3. ASSUME NEW p, p \in ToSet(new) PROVE \E r \in ToSet(rs) : \E i \in 1 .. Len(x[r]) : x[r][i] = p
      <4>1. PICK k \in 1 .. total : new[k] = p
        BY <3>0, <3>3
      <4>. QED
        BY <3>1, <4>1
    <3>4. ASSUME NEW p, NEW r \in ToSet(rs), NEW i \in 1 .. Len(x[r]), x[r][i] = p PROVE p \in ToSet(new)
      <4>1. PICK k \in 1 .. total : new[k] = x[r][i]
        BY <3>2
      <4>. QED
        BY <3>0, <3>4, <4>1
    <3>. QED
      BY <3>3, <3>4
  <2>10. m.cache.kv = c.kv /\ m.cache.free = [p \in Pages |-> IF p \in ToSet(new) THEN c.free[p] - 1 ELSE c.free[p]]
    BY <2>3 DEF Take, EmptyCache
  <2>11. Allotted(c, rs, from, to, m, x)
    <3>1. \E ps : /\ m.cache.free = [p \in Pages |-> IF p \in ps THEN c.free[p] - 1 ELSE c.free[p]]
                  /\ \A p : p \in ps <=> \E r \in ToSet(rs) : \E i \in 1 .. Len(x[r]) : x[r][i] = p
      BY <2>9, <2>10
    <3>2. \A r \in ToSet(rs) : /\ x[r] \in Seq(Pages) /\ m.pages[r] = req[r].pages \o x[r]
                               /\ Len(x[r]) = PageCount(to[r]) - PageCount(from[r])
      BY <2>4, <2>5, <1>5
    <3>. QED
      BY <2>3, <2>4, <2>6, <2>7, <2>8, <2>10, <3>1, <3>2 DEF Allotted
  <2>. QED
    BY <2>3, <2>11 DEF m
<1>. QED
  BY <1>9, <1>10

---------------------------------------------------------------------------
(* The row of a request. *)

\* Pages number a + 1 .. b of a row.
PagesOf(q, a, b) == {q.pages[i] : i \in (a + 1) .. b}

\* The pages that are not in the tree.
PrivateOf(q) == PagesOf(q, PageCount(q.prot), Len(q.pages))

\* The tokens of page i of a row whose first n tokens are computed.
Upto(r, i, n) == Ids(r, IF i * PageSize <= n THEN i * PageSize ELSE n)

\* The tokens that are computed, or matched.
Have(q) == IF q.kv >= q.prefix THEN q.kv ELSE q.prefix

\* The row of r starts with the pages of the prefix whose node it holds, and
\* goes on with different pages that were written for it.
Row(c, ct, r, q) ==
  /\ q.prot \in Nat /\ q.prefix \in Nat /\ q.kv \in Nat /\ q.prot % PageSize = 0 /\ q.prot <= q.prefix
  /\ q.node = Ids(r, q.prot)
  /\ q.pages \in Seq(Pages) /\ PageCount(q.prot) <= Len(q.pages)
  /\ \A i \in 1 .. PageCount(q.prot) : Ids(r, i * PageSize) \in DOMAIN c.kv /\ c.kv[Ids(r, i * PageSize)] = q.pages[i]
  /\ \A i, j \in (PageCount(q.prot) + 1) .. Len(q.pages) : q.pages[i] = q.pages[j] => i = j
  /\ \A i \in (PageCount(q.prot) + 1) .. Len(q.pages) : ct[q.pages[i]] = Upto(r, i, Have(q))

\* A cached page holds the tokens it is cached for.
Faithful(c, ct) == \A k \in DOMAIN c.kv : ct[c.kv[k]] = k

\* What is cached stays.
Grows(c, d) == \A k \in DOMAIN c.kv : k \in DOMAIN d.kv /\ d.kv[k] = c.kv[k]

\* The prefixes of the text of a request.
LEMMA IdsPrefix ==
    ASSUME NEW r \in Reqs, NEW a \in Nat, NEW b \in Nat, a <= b
    PROVE  /\ Ids(r, a) \in Seq(Toks) /\ Ids(r, b) \in Seq(Toks) /\ Len(Ids(r, a)) = a
           /\ SubSeq(Ids(r, b), 1, a) = Ids(r, a) /\ IsPrefix(Ids(r, a), Ids(r, b))
           /\ \A p \in Seq(Toks) : IsPrefix(p, Ids(r, b)) /\ Len(p) = a => p = Ids(r, a)
<1>1. /\ Ids(r, a) \in Seq(Toks) /\ Ids(r, b) \in Seq(Toks) /\ Len(Ids(r, a)) = a /\ Len(Ids(r, b)) = b
  BY IdsMeaning
<1>. DEFINE s == Text(r)
<1>2. \A n \in Nat : Ids(r, n) = SubSeq(s, 1, n)
  BY DEF Ids, Text
<1>3. \A n \in Nat : Ids(r, n) = [i \in 1 .. n |-> s[i]]
  <2>1. \E S : s \in Seq(S)
    <3>1. Prompt[r] \in Seq(ToSet(Prompt[r])) /\ MaxNew[r] + 1 \in Nat
      BY SizesAssumption
    <3>. DEFINE S == ToSet(Prompt[r]) \cup {Sampled}
    <3>2. Prompt[r] \in Seq(S)
      <4>. HIDE DEF S
      <4>1. ToSet(Prompt[r]) \subseteq S
        BY DEF S
      <4>. QED
        BY <3>1, <4>1
    <3>3. [i \in 1 .. MaxNew[r] + 1 |-> Sampled] \in Seq(S)
      BY <3>1
    <3>4. s \in Seq(S)
      BY <3>2, <3>3 DEF Text
    <3>. QED
      BY <3>4
  <2>2. PICK S : s \in Seq(S)
    BY <2>1
  <2>. HIDE DEF s
  <2>3. \A n \in Nat : SubSeq(s, 1, n) = [i \in 1 .. n |-> s[i]]
    BY <2>2
  <2>. QED
    BY <1>2, <2>3
<1>. HIDE DEF s
<1>4. SubSeq(Ids(r, b), 1, a) = Ids(r, a)
  <2>1. a \in 0 .. Len(Ids(r, b)) /\ Ids(r, b) \in Seq(Toks)
    BY <1>1
  <2>. DEFINE t == Ids(r, b)
              u == SubSeq(t, 1, a)
  <2>2. u \in Seq(Toks) /\ Len(u) = a /\ \A i \in 1 .. a : u[i] = t[i]
    <3>1. t \in Seq(Toks) /\ a \in 0 .. Len(t)
      BY <2>1
    <3>. HIDE DEF t
    <3>. QED
      BY <3>1
  <2>3. \A i \in 1 .. a : t[i] = s[i]
    BY <1>3
  <2>4. \A i \in 1 .. a : Ids(r, a)[i] = s[i]
    BY <1>3
  <2>. HIDE DEF u
  <2>. QED
    BY <2>2, <2>3, <2>4, <1>1 DEF u
<1>5. IsPrefix(Ids(r, a), Ids(r, b))
  <2>1. \A i \in 1 .. a : Ids(r, a)[i] = Ids(r, b)[i]
    BY <1>3
  <2>. QED
    BY <1>1, <2>1, PrefixAt
<1>6. ASSUME NEW p \in Seq(Toks), IsPrefix(p, Ids(r, b)), Len(p) = a
      PROVE  p = Ids(r, a)
  <2>1. IsPrefix(p, Ids(r, a))
    BY <1>1, <1>5, <1>6, PrefixOrder
  <2>. QED
    BY <1>1, <1>6, <2>1, PrefixOrder
<1>. QED
  BY <1>1, <1>4, <1>5, <1>6

\* No page is twice among the pages a + 1 .. n of a row.
Different(q, a, n) == \A i, j \in (a + 1) .. n : q.pages[i] = q.pages[j] => i = j

\* A row without its first pages.
LEMMA SliceCut ==
    ASSUME NEW q, NEW a \in Nat, NEW b \in Nat, NEW n \in Nat, a <= b, b <= n, Different(q, a, n)
    PROVE  /\ PagesOf(q, a, b) \subseteq PagesOf(q, a, n)
           /\ PagesOf(q, b, n) = PagesOf(q, a, n) \ PagesOf(q, a, b)
<1>1. \A i \in (a + 1) .. b : i \in (a + 1) .. n
  OBVIOUS
<1>2. \A i \in (b + 1) .. n : i \in (a + 1) .. n /\ i \notin (a + 1) .. b
  OBVIOUS
<1>3. \A i \in (a + 1) .. n : i \in (a + 1) .. b \/ i \in (b + 1) .. n
  OBVIOUS
<1>4. \A c, d \in Nat : \A p : p \in PagesOf(q, c, d) <=> \E i \in (c + 1) .. d : p = q.pages[i]
  BY DEF PagesOf
<1>5. PagesOf(q, a, b) \subseteq PagesOf(q, a, n)
  BY <1>1, <1>4
<1>6. ASSUME NEW p
      PROVE  p \in PagesOf(q, b, n) <=> p \in PagesOf(q, a, n) /\ p \notin PagesOf(q, a, b)
  <2>1. ASSUME p \in PagesOf(q, b, n)
        PROVE  p \in PagesOf(q, a, n) /\ p \notin PagesOf(q, a, b)
    <3>1. PICK i \in (b + 1) .. n : p = q.pages[i]
      BY <2>1, <1>4
    <3>2. \A j \in (a + 1) .. b : p # q.pages[j]
      BY <3>1, <1>1, <1>2 DEF Different
    <3>. QED
      BY <3>1, <3>2, <1>2, <1>4
  <2>2. ASSUME p \in PagesOf(q, a, n), p \notin PagesOf(q, a, b)
        PROVE  p \in PagesOf(q, b, n)
    <3>1. PICK i \in (a + 1) .. n : p = q.pages[i]
      BY <2>2, <1>4
    <3>. QED
      BY <3>1, <2>2, <1>3, <1>4
  <2>. QED
    BY <2>1, <2>2
<1>. QED
  BY <1>5, <1>6

\* The pages of r, from page a of its row on, are private.
Owned(pv, r, q, a) == /\ r \in DOMAIN pv /\ pv = [x \in DOMAIN pv |-> pv[x]]
                      /\ Len(q.pages) \in Nat /\ a \in Nat /\ a <= Len(q.pages)
                      /\ pv[r] = PagesOf(q, a, Len(q.pages)) /\ Different(q, a, Len(q.pages))

\* The private pages when r owns its row from page a on.
From(pv, r, q, a) == [pv EXCEPT ![r] = PagesOf(q, a, Len(q.pages))]

\* Page a of the row of r is not the first that is private any more, but b.
LEMMA OwnedFrom ==
    ASSUME NEW pv, NEW r, NEW q, NEW a, Owned(pv, r, q, a), NEW b \in Nat, a <= b, b <= Len(q.pages)
    PROVE  /\ Owned(From(pv, r, q, b), r, q, b) /\ Gives(pv, From(pv, r, q, b), r, PagesOf(q, a, b))
           /\ \A c \in Nat : From(From(pv, r, q, b), r, q, c) = From(pv, r, q, c)
<1>. DEFINE n == Len(q.pages)
            w == From(pv, r, q, b)
<1>1. r \in DOMAIN pv /\ n \in Nat /\ a \in Nat /\ pv[r] = PagesOf(q, a, n) /\ Different(q, a, n)
      /\ pv = [x \in DOMAIN pv |-> pv[x]]
  BY DEF Owned
<1>2. PagesOf(q, a, b) \subseteq PagesOf(q, a, n) /\ PagesOf(q, b, n) = PagesOf(q, a, n) \ PagesOf(q, a, b)
  <2>. HIDE DEF n
  <2>. QED
    BY <1>1, SliceCut DEF n
<1>3. Different(q, b, n)
  <2>. HIDE DEF n
  <2>. QED
    BY <1>1 DEF Different
<1>4. w[r] = PagesOf(q, b, n) /\ DOMAIN w = DOMAIN pv /\ (\A x \in DOMAIN pv : x # r => w[x] = pv[x])
      /\ w = [x \in DOMAIN w |-> w[x]]
  BY <1>1 DEF From
<1>5. \A c \in Nat : From(w, r, q, c) = From(pv, r, q, c)
  BY <1>1 DEF From
<1>. HIDE DEF n, w
<1>6. Owned(w, r, q, b)
  BY <1>1, <1>3, <1>4 DEF Owned, n
<1>7. Gives(pv, w, r, PagesOf(q, a, b))
  BY <1>1, <1>2, <1>4 DEF Gives
<1>. QED
  BY <1>5, <1>6, <1>7 DEF w

\* Cache d is c without pages a + 1 .. b of the row of r.
SliceFreed(c, pv, r, q, b, d) == PageInv(d, From(pv, r, q, b)) /\ d.kv = c.kv /\ DOMAIN d = DOMAIN EmptyCache

\* The pages of a row between two lengths are freed.
LEMMA FreedSlice ==
    ASSUME NEW c, DOMAIN c = DOMAIN EmptyCache, NEW pv, PageInv(c, pv), NEW r, NEW q,
           NEW a \in Nat, NEW b \in Nat, a <= b, PageCount(b) <= Len(q.pages), Owned(pv, r, q, PageCount(a))
    PROVE  SliceFreed(c, pv, r, q, PageCount(b), Free(c, PageSlice(q, a, b)))
<1>. DEFINE A == PageCount(a)
            B == PageCount(b)
            ps == PagesOf(q, A, B)
            d == Free(c, PageSlice(q, a, b))
<1>1. A \in Nat /\ B \in Nat /\ A <= B /\ B <= Len(q.pages) /\ Owned(pv, r, q, A)
  BY PageBounds, PageCountMonotone
<1>2. PageSlice(q, a, b) = ps
  BY DEF PageSlice, PagesOf
<1>3. d.kv = c.kv /\ d.free = [p \in Pages |-> IF p \in ps THEN c.free[p] + 1 ELSE c.free[p]] /\ DOMAIN d = DOMAIN EmptyCache
  <2>. HIDE DEF ps
  <2>. QED
    BY <1>2 DEF Free, EmptyCache
<1>. HIDE DEF A, B, d
<1>4. Gives(pv, From(pv, r, q, B), r, ps)
  BY <1>1, OwnedFrom
<1>. HIDE DEF ps
<1>5. PageInv(d, From(pv, r, q, B))
  BY <1>3, <1>4, FreedPages
<1>. QED
  BY <1>3, <1>5 DEF SliceFreed, d, B

\* The pages that a key adds to the tree.
LEMMA InsertPages ==
    ASSUME NEW c, NEW nd, CacheInv(c, nd, Toks), NEW key \in Seq(Toks), NEW ps
    PROVE  LET p == CachedPrefix(c, key)
               e == Insert(c, key, ps)
               g == [k \in Added(key, p) |-> ps[PageCount(Len(k))]]
           IN  /\ DOMAIN e = DOMAIN EmptyCache /\ e.free = c.free
               /\ p = key => e.kv = c.kv
               /\ p # key => Extended(c, e, Added(key, p), g)
<1>. DEFINE p == CachedPrefix(c, key)
            e == Insert(c, key, ps)
            z == SplitNode(c, p)
            G == Added(key, p)
            g == [k \in G |-> ps[PageCount(Len(k))]]
<1>1. Shape(c, Toks) /\ Tree(c, Toks) /\ DOMAIN c = DOMAIN EmptyCache
  BY DEF CacheInv, Tree, Shape
<1>2. p = << >> \/ p \in DOMAIN c.kv
  BY <1>1, CachedPrefixMeaning
<1>. HIDE DEF p
<1>3. z.kv = c.kv /\ z.free = c.free /\ DOMAIN z = DOMAIN EmptyCache
  <2>1. CASE p = << >> \/ p \in c.nodes
    BY <2>1, <1>1 DEF SplitNode
  <2>2. CASE ~(p = << >> \/ p \in c.nodes)
    <3>1. PICK child \in c.nodes : SplitOf(c, SplitNode(c, p), p, child)
      BY <2>2, <1>1, <1>2, SplitMeaning
    <3>. QED
      BY <3>1 DEF SplitOf
  <2>. QED
    BY <2>1, <2>2
<1>4. CASE p = key
  <2>1. e = z
    BY <1>4 DEF Insert, InsertLeaf, p
  <2>. QED
    BY <2>1, <1>3, <1>4 DEF p
<1>5. CASE p # key
  <2>1. DOMAIN z = DOMAIN EmptyCache =>
          /\ LeafOf(z, e, key, p, Len(key) - Len(p))
          /\ e.kv = [k \in (DOMAIN z.kv) \cup G |-> IF k \in G THEN ps[PageCount(Len(k))] ELSE z.kv[k]]
    BY <1>1, <1>5, InsertMeaning DEF p
  <2>. HIDE DEF z, e, G
  <2>2. DOMAIN e = DOMAIN EmptyCache /\ e.free = c.free
    BY <2>1, <1>3 DEF LeafOf
  <2>3. e.kv = [k \in (DOMAIN c.kv) \cup G |-> IF k \in G THEN g[k] ELSE c.kv[k]]
    BY <2>1, <1>3
  <2>. HIDE DEF g
  <2>4. Extended(c, e, G, g)
    BY <2>2, <2>3 DEF Extended
  <2>. QED
    BY <1>5, <2>2, <2>4 DEF e, G, g, p
<1>. QED
  BY <1>4, <1>5

\* What InsertRow says of cache d, to which the first n tokens of r were
\* inserted.
Inserted(c, ct, pv, r, q, n, d) ==
  /\ PageInv(d, From(pv, r, q, PageCount(n)))
  /\ Faithful(d, ct) /\ Grows(c, d) /\ DOMAIN d = DOMAIN EmptyCache
  /\ \A i \in 1 .. PageCount(n) : Ids(r, i * PageSize) \in DOMAIN d.kv

\* A row is inserted: the tree takes the pages it does not have, the others
\* are freed.
LEMMA InsertRow ==
    ASSUME NEW c, NEW nd, CacheInv(c, nd, Toks), NEW pv, PageInv(c, pv), NEW ct, Faithful(c, ct),
           NEW r \in Reqs, NEW q, Row(c, ct, r, q), Owned(pv, r, q, PageCount(q.prot)),
           NEW n \in Nat, n % PageSize = 0, q.prot <= n, n <= q.kv, PageCount(n) <= Len(q.pages)
    PROVE  LET key == Ids(r, n)
               d == Free(Insert(c, key, q.pages), PageSlice(q, q.prot, Len(CachedPrefix(c, key))))
           IN  Inserted(c, ct, pv, r, q, n, d)
<1>. DEFINE key == Ids(r, n)
            p == CachedPrefix(c, key)
            h == Len(p)
            H == PageCount(h)
            N == PageCount(n)
            A == PageCount(q.prot)
            L == Len(q.pages)
            e == Insert(c, key, q.pages)
            s == PageSlice(q, q.prot, h)
            d == Free(e, s)
            b == Free(c, s)
            pv1 == From(pv, r, q, H)
            pv2 == From(pv, r, q, N)
<1>1. Shape(c, Toks) /\ Tree(c, Toks) /\ DOMAIN c = DOMAIN EmptyCache
  BY DEF CacheInv, Tree, Shape
<1>2. key \in Seq(Toks) /\ Len(key) = n /\ Paged(key)
  BY IdsMeaning DEF Paged
<1>3. q.prot \in Nat /\ L \in Nat /\ q.prot % PageSize = 0 /\ q.node = Ids(r, q.prot) /\ q.kv \in Nat /\ q.prefix \in Nat
  BY DEF Row
<1>. HIDE DEF key
<1>4. /\ p \in Seq(Toks) /\ IsPrefix(p, key) /\ h <= n /\ h \in Nat
      /\ p = << >> \/ p \in DOMAIN c.kv
      /\ \A k \in DOMAIN c.kv : IsPrefix(k, key) => Len(k) <= h
  <2>1. /\ p \in Seq(Toks) /\ IsPrefix(p, key) /\ h <= Len(key)
        /\ p = << >> \/ p \in DOMAIN c.kv
        /\ \A k \in DOMAIN c.kv : IsPrefix(k, key) => Len(k) <= h
    BY <1>1, <1>2, CachedPrefixMeaning
  <2>. QED
    BY <2>1, <1>2
<1>. HIDE DEF p
<1>5. Paged(p) /\ p = Ids(r, h)
  <2>1. Paged(p)
    <3>1. CASE p = << >>
      <4>1. Len(<< >>) = 0 /\ 0 % PageSize = 0
        BY PageSizeAssumption
      <4>. QED
        BY <3>1, <4>1 DEF Paged
    <3>2. CASE p \in DOMAIN c.kv
      BY <3>2, <1>1 DEF Shape
    <3>. QED
      BY <3>1, <3>2, <1>4
  <2>2. p = Ids(r, h)
    BY <1>4, IdsPrefix DEF key
  <2>. QED
    BY <2>1, <2>2
<1>6. q.prot <= h
  <2>1. CASE q.prot = 0
    BY <2>1, <1>4
  <2>2. CASE q.prot # 0
    <3>1. A \in Nat /\ q.prot = A * PageSize
      BY <1>3, PagedLen
    <3>2. A # 0
      BY <3>1, <2>2, PageSizeAssumption
    <3>3. Ids(r, q.prot) \in DOMAIN c.kv
      BY <3>1, <3>2 DEF Row
    <3>4. IsPrefix(Ids(r, q.prot), key) /\ Len(Ids(r, q.prot)) = q.prot
      BY <1>3, IdsPrefix DEF key
    <3>. QED
      BY <3>3, <3>4, <1>4
  <2>. QED
    BY <2>1, <2>2
<1>7. A \in Nat /\ H \in Nat /\ N \in Nat /\ A <= H /\ H <= N /\ N <= L
  BY <1>3, <1>4, <1>6, PageBounds, PageCountMonotone
<1>8. h = H * PageSize /\ n = N * PageSize
  BY <1>4, <1>5, PagedLen DEF Paged
<1>9. \A i, j \in (A + 1) .. L : q.pages[i] = q.pages[j] => i = j
  BY DEF Row
<1>10. PageInv(b, pv1) /\ b.kv = c.kv /\ DOMAIN b = DOMAIN EmptyCache
  <2>1. PageCount(h) <= Len(q.pages)
    BY <1>7
  <2>. HIDE DEF h
  <2>2. SliceFreed(c, pv, r, q, PageCount(h), Free(c, PageSlice(q, q.prot, h)))
    BY <1>1, <1>3, <1>4, <1>6, <2>1, FreedSlice
  <2>. QED
    BY <2>2 DEF SliceFreed
<1>11. b.free = [x \in Pages |-> IF x \in s THEN c.free[x] + 1 ELSE c.free[x]]
  <2>. HIDE DEF s
  <2>. QED
    BY <1>1 DEF Free, EmptyCache
<1>12. ASSUME NEW i \in 1 .. N, i <= H
       PROVE  Ids(r, i * PageSize) \in DOMAIN c.kv
  <2>1. i \in Int /\ i * PageSize \in Int /\ i >= 1
    BY <1>7, PageSizeAssumption
  <2>2. i * PageSize <= h /\ i * PageSize > 0
    <3>. DEFINE P == PageSize
    <3>1. P \in Nat \ {0} /\ H * P = P * H /\ i * P = P * i /\ P * 0 = 0
      BY <1>7, <2>1, PageSizeAssumption
    <3>. HIDE DEF P
    <3>2. P * i <= P * H /\ P * 0 < P * i
      BY <3>1, <2>1, <1>7, <1>12, TimesOrder
    <3>3. i * P <= H * P /\ i * P > 0
      BY <3>1, <3>2
    <3>. QED
      BY <3>3, <1>8 DEF P
  <2>3. Ids(r, i * PageSize) \in Seq(Toks) /\ Len(Ids(r, i * PageSize)) = i * PageSize /\ IsPrefix(Ids(r, i * PageSize), p)
    BY <1>4, <1>5, <2>1, <2>2, IdsPrefix
  <2>4. Paged(Ids(r, i * PageSize))
    BY <2>1, <2>3, PagesLen DEF Paged
  <2>5. p # << >>
    <3>1. Len(<< >>) = 0
      OBVIOUS
    <3>. QED
      BY <2>1, <2>2, <3>1, <1>4
  <2>. QED
    BY <1>1, <1>4, <2>2, <2>3, <2>4, <2>5 DEF Tree, Closed
<1>13. ASSUME p = key
       PROVE  Inserted(c, ct, pv, r, q, n, d)
  <2>1. h = n /\ H = N
    BY <1>2, <1>13
  <2>2. e.kv = c.kv /\ e.free = c.free /\ DOMAIN e = DOMAIN EmptyCache
    BY <1>2, <1>13, InsertPages DEF p
  <2>3. d.kv = c.kv /\ d.free = b.free /\ DOMAIN d = DOMAIN EmptyCache
    <3>. HIDE DEF e, s
    <3>. QED
      BY <2>2, <1>11 DEF Free, EmptyCache
  <2>4. PageInv(d, pv1)
    BY <2>3, <1>10 DEF PageInv
  <2>5. pv1 = pv2
    BY <2>1
  <2>6. Faithful(d, ct) /\ Grows(c, d)
    BY <2>3 DEF Faithful, Grows
  <2>7. \A i \in 1 .. N : Ids(r, i * PageSize) \in DOMAIN d.kv
    BY <2>1, <2>3, <1>7, <1>12
  <2>. HIDE DEF d
  <2>. QED
    BY <2>3, <2>4, <2>5, <2>6, <2>7 DEF Inserted
<1>14. ASSUME p # key
       PROVE  Inserted(c, ct, pv, r, q, n, d)
  <2>. DEFINE G == Added(key, p)
              g == [k \in G |-> q.pages[PageCount(Len(k))]]
              ps == PagesOf(q, H, N)
  <2>1. DOMAIN e = DOMAIN EmptyCache /\ e.free = c.free /\ Extended(c, e, G, g)
    BY <1>2, <1>14, InsertPages DEF p
  <2>2. \A k : k \in G <=> k \in Seq(Toks) /\ IsPrefix(k, key) /\ Paged(k) /\ Len(k) > Len(p)
    BY <1>2, <1>4, <1>5, AddedMeaning
  <2>3. \A k \in G : k \notin DOMAIN c.kv
    BY <2>2, <1>4
  <2>4. ASSUME NEW k \in G
        PROVE  /\ PageCount(Len(k)) \in (H + 1) .. N /\ k = Ids(r, PageCount(Len(k)) * PageSize)
               /\ Len(k) = PageCount(Len(k)) * PageSize
    <3>1. k \in Seq(Toks) /\ IsPrefix(k, key) /\ Len(k) % PageSize = 0 /\ Len(k) > h /\ Len(k) \in Nat
      BY <2>2 DEF Paged
    <3>2. Len(k) <= n
      BY <3>1, <1>2, PrefixOrder
    <3>3. Len(k) = PageCount(Len(k)) * PageSize /\ PageCount(Len(k)) \in Nat
      BY <3>1, PagedLen
    <3>4. PageCount(Len(k)) <= N
      BY <3>1, <3>2, PageCountMonotone
    <3>5. H < PageCount(Len(k))
      BY <3>1, <1>4, <1>5, PageCountOrder DEF Paged
    <3>6. k = Ids(r, Len(k))
      BY <3>1, <3>2, IdsPrefix DEF key
    <3>. QED
      BY <3>3, <3>4, <3>5, <3>6, <1>7
  <2>5. ASSUME NEW i \in (H + 1) .. N
        PROVE  Ids(r, i * PageSize) \in G /\ PageCount(Len(Ids(r, i * PageSize))) = i
    <3>1. i \in Int /\ i * PageSize \in Int /\ PageCount(i * PageSize) = i
      BY <1>7, PageSizeAssumption, PageCountOf
    <3>2. i * PageSize <= n /\ i * PageSize > h
      <4>. DEFINE P == PageSize
      <4>1. P \in Nat \ {0} /\ H * P = P * H /\ i * P = P * i /\ N * P = P * N
        BY <1>7, <3>1, PageSizeAssumption
      <4>. HIDE DEF P
      <4>2. P * i <= P * N /\ P * H < P * i
        <5>1. i \in Int /\ N \in Int /\ H \in Int /\ i <= N /\ H < i
          BY <3>1, <1>7
        <5>2. P * i <= P * N
          BY <4>1, <5>1, TimesOrder
        <5>3. P * H < P * i
          BY <4>1, <5>1, TimesOrder
        <5>. QED
          BY <5>2, <5>3
      <4>3. i * P <= N * P /\ i * P > H * P
        BY <4>1, <4>2
      <4>. QED
        BY <4>3, <1>8 DEF P
    <3>3. i * PageSize \in Nat
      BY <3>1, <3>2, <1>4
    <3>4. Ids(r, i * PageSize) \in Seq(Toks) /\ Len(Ids(r, i * PageSize)) = i * PageSize /\ IsPrefix(Ids(r, i * PageSize), key)
      BY <3>2, <3>3, IdsPrefix DEF key
    <3>5. Paged(Ids(r, i * PageSize))
      BY <3>1, <3>4, PagesLen DEF Paged
    <3>. QED
      BY <3>1, <3>2, <3>4, <3>5, <2>2
  <2>. HIDE DEF G, e
  <2>6. /\ \A k \in G : g[k] = q.pages[PageCount(Len(k))] /\ g[k] \in ps
        /\ \A x \in ps : \E k \in G : g[k] = x
    <3>1. \A k \in G : g[k] = q.pages[PageCount(Len(k))]
      OBVIOUS
    <3>2. \A k \in G : g[k] \in ps
      BY <2>4, <3>1 DEF PagesOf
    <3>3. ASSUME NEW x \in ps PROVE \E k \in G : g[k] = x
      <4>1. PICK i \in (H + 1) .. N : x = q.pages[i]
        BY <3>3 DEF PagesOf
      <4>. QED
        BY <4>1, <2>5
    <3>. QED
      BY <3>1, <3>2, <3>3
  <2>7. \A k, l \in G : g[k] = g[l] => k = l
    <3>1. SUFFICES ASSUME NEW k \in G, NEW l \in G, g[k] = g[l] PROVE k = l
      OBVIOUS
    <3>2. PageCount(Len(k)) \in (A + 1) .. L /\ PageCount(Len(l)) \in (A + 1) .. L
      BY <2>4, <1>7
    <3>3. PageCount(Len(k)) = PageCount(Len(l))
      BY <3>1, <3>2, <2>6, <1>9
    <3>. QED
      BY <3>3, <2>4
  <2>8. Gives(pv1, pv2, r, ps)
    <3>. HIDE DEF H, N
    <3>1. Owned(pv1, r, q, H) /\ From(pv1, r, q, N) = pv2
      BY <1>7, OwnedFrom DEF A
    <3>. QED
      BY <3>1, <1>7, OwnedFrom
  <2>9. DOMAIN d = DOMAIN EmptyCache /\ Extended(b, d, G, g)
    <3>1. d.kv = e.kv /\ d.free = b.free /\ DOMAIN d = DOMAIN EmptyCache
      <4>1. e.free = c.free /\ DOMAIN e = DOMAIN EmptyCache
        BY <2>1
      <4>. HIDE DEF s
      <4>. QED
        BY <4>1, <1>11 DEF Free, EmptyCache
    <3>2. e.kv = [k \in DOMAIN c.kv \cup G |-> IF k \in G THEN g[k] ELSE c.kv[k]]
      BY <2>1 DEF Extended
    <3>. HIDE DEF d, b, g
    <3>. QED
      BY <3>1, <3>2, <1>10 DEF Extended
  <2>. HIDE DEF g, ps, d, b, pv1, pv2
  <2>10. PageInv(d, pv2)
    <3>1. Provided(b, G, g, ps)
      BY <2>3, <2>6, <2>7, <1>10 DEF Provided
    <3>. QED
      BY <3>1, <2>8, <2>9, <1>10, CachedNow
  <2>11. /\ DOMAIN d.kv = DOMAIN c.kv \cup G
         /\ \A k \in DOMAIN c.kv : d.kv[k] = c.kv[k]
         /\ \A k \in G : d.kv[k] = g[k]
    BY <2>3, <2>9, <1>10 DEF Extended
  <2>12. Grows(c, d)
    BY <2>11 DEF Grows
  <2>13. ASSUME NEW k \in G
         PROVE  ct[g[k]] = k
    <3>. DEFINE i == PageCount(Len(k))
    <3>1. i \in (H + 1) .. N /\ k = Ids(r, i * PageSize) /\ g[k] = q.pages[i]
      BY <2>4, <2>6
    <3>2. i \in (A + 1) .. L
      BY <3>1, <1>7
    <3>3. ct[q.pages[i]] = Upto(r, i, Have(q))
      BY <3>2 DEF Row
    <3>4. i * PageSize <= Have(q)
      <4>1. Len(k) = i * PageSize /\ Len(k) \in Nat /\ Len(k) <= n
        BY <2>2, <2>4, <1>2, PrefixOrder
      <4>2. n <= Have(q) /\ Have(q) \in Nat
        BY <1>3 DEF Have
      <4>. HIDE DEF i
      <4>. QED
        BY <4>1, <4>2
    <3>. QED
      BY <3>1, <3>3, <3>4 DEF Upto
  <2>14. Faithful(d, ct)
    BY <2>11, <2>13 DEF Faithful
  <2>15. \A i \in 1 .. N : Ids(r, i * PageSize) \in DOMAIN d.kv
    <3>1. SUFFICES ASSUME NEW i \in 1 .. N PROVE Ids(r, i * PageSize) \in DOMAIN d.kv
      OBVIOUS
    <3>2. i <= H \/ i \in (H + 1) .. N
      BY <1>7
    <3>. QED
      BY <3>2, <1>12, <2>5, <2>11
  <2>. QED
    BY <2>9, <2>10, <2>12, <2>14, <2>15 DEF Inserted, pv2
<1>15. Inserted(c, ct, pv, r, q, n, d)
  BY <1>13, <1>14
<1>. QED
  BY <1>15 DEF d, e, s, p, key

---------------------------------------------------------------------------
(* The memory: the cache, the allocator, what the pages hold and the rows. *)

\* The private pages of the members of H.
PrivateIn(rq, H) == [x \in H |-> PrivateOf(rq[x])]

\* Every page is in one place, holds what it is cached for, and the rows of
\* the members of H are right.
MemInv(c, ct, rq, H) ==
  PageInv(c, PrivateIn(rq, H)) /\ Faithful(c, ct) /\ \A x \in H : Row(c, ct, x, rq[x])

\* q2 has the row of q.
SameRow(q, q2) == q2.prot = q.prot /\ q2.prefix = q.prefix /\ q2.kv = q.kv /\ q2.node = q.node /\ q2.pages = q.pages

\* Req objects change but for their rows.
LEMMA SameRows ==
    ASSUME NEW c, NEW ct, NEW rq, NEW rq2, NEW H, MemInv(c, ct, rq, H), \A x \in H : SameRow(rq[x], rq2[x])
    PROVE  MemInv(c, ct, rq2, H)
<1>1. \A x \in H : PrivateOf(rq2[x]) = PrivateOf(rq[x])
  BY DEF SameRow, PrivateOf, PagesOf
<1>2. PrivateIn(rq2, H) = PrivateIn(rq, H)
  BY <1>1 DEF PrivateIn
<1>3. ASSUME NEW x \in H PROVE Row(c, ct, x, rq2[x])
  <2>1. Row(c, ct, x, rq[x]) /\ SameRow(rq[x], rq2[x])
    BY DEF MemInv
  <2>2. Have(rq2[x]) = Have(rq[x])
    BY <2>1 DEF SameRow, Have
  <2>. QED
    BY <2>1, <2>2 DEF Row, SameRow
<1>. QED
  BY <1>2, <1>3 DEF MemInv

\* The prefixes of the node of a row.
LEMMA RowPrefix ==
    ASSUME NEW c, NEW ct, NEW r \in Reqs, NEW q, Row(c, ct, r, q), NEW i \in 1 .. PageCount(q.prot)
    PROVE  /\ i * PageSize \in Nat /\ i * PageSize <= q.prot /\ IsPrefix(Ids(r, i * PageSize), q.node)
<1>. DEFINE A == PageCount(q.prot)
            P == PageSize
<1>1. q.prot \in Nat /\ q.prot % PageSize = 0 /\ q.node = Ids(r, q.prot)
  BY DEF Row
<1>2. A \in Nat /\ q.prot = A * P /\ P \in Nat \ {0} /\ i \in 1 .. A
  BY <1>1, PagedLen, PageSizeAssumption
<1>. HIDE DEF A, P
<1>3. i * P \in Nat /\ i * P = P * i /\ A * P = P * A /\ i \in Int /\ i <= A
  BY <1>2
<1>4. P * i <= P * A
  BY <1>2, <1>3, TimesOrder
<1>5. i * PageSize \in Nat /\ i * PageSize <= q.prot
  BY <1>2, <1>3, <1>4 DEF P
<1>. QED
  BY <1>1, <1>5, IdsPrefix

\* What is above the node of r stays as it is.
KeepsNode(c, d, n) == \A k \in DOMAIN c.kv : IsPrefix(k, n) => k \in DOMAIN d.kv /\ d.kv[k] = c.kv[k]

\* A row is right as long as the tree keeps what is above its node.
LEMMA RowStays ==
    ASSUME NEW c, NEW d, NEW ct, NEW r \in Reqs, NEW q, Row(c, ct, r, q), KeepsNode(c, d, q.node)
    PROVE  Row(d, ct, r, q)
<1>1. ASSUME NEW i \in 1 .. PageCount(q.prot)
      PROVE  Ids(r, i * PageSize) \in DOMAIN d.kv /\ d.kv[Ids(r, i * PageSize)] = q.pages[i]
  <2>1. IsPrefix(Ids(r, i * PageSize), q.node)
    BY RowPrefix
  <2>2. Ids(r, i * PageSize) \in DOMAIN c.kv /\ c.kv[Ids(r, i * PageSize)] = q.pages[i]
    BY DEF Row
  <2>. QED
    BY <2>1, <2>2 DEF KeepsNode
<1>. QED
  BY <1>1 DEF Row

\* Eviction.
LEMMA EvictMem ==
    ASSUME NEW c, NEW ct, NEW rq, NEW H \in SUBSET Reqs, MemInv(c, ct, rq, H),
           CacheInv(c, [x \in H |-> rq[x].node], Toks), NEW n, NEW e \in EvictFromTreeCache(c, n)
    PROVE  MemInv(e, ct, rq, H)
<1>. DEFINE nd == [x \in H |-> rq[x].node]
            pv == PrivateIn(rq, H)
<1>1. CacheInv(c, nd, Toks) /\ PageInv(c, pv) /\ DOMAIN nd = H /\ \A x \in H : nd[x] = rq[x].node
  BY DEF MemInv
<1>. HIDE DEF nd, pv
<1>2. PageInv(e, pv) /\ KeepsHeld(c, e, nd) /\ Shrinks(c, e)
  BY <1>1, EvictPages
<1>3. Faithful(e, ct)
  BY <1>2 DEF MemInv, Faithful, Shrinks
<1>4. ASSUME NEW x \in H PROVE Row(e, ct, x, rq[x])
  <2>1. KeepsNode(c, e, rq[x].node)
    BY <1>1, <1>2 DEF KeepsHeld, KeepsNode
  <2>. QED
    BY <2>1, RowStays DEF MemInv
<1>. QED
  BY <1>2, <1>3, <1>4 DEF MemInv, pv

\* The private pages of a row.
LEMMA RowOwned ==
    ASSUME NEW c, NEW ct, NEW rq, NEW H \in SUBSET Reqs, MemInv(c, ct, rq, H), NEW r \in H
    PROVE  Owned(PrivateIn(rq, H), r, rq[r], PageCount(rq[r].prot))
<1>1. Row(c, ct, r, rq[r])
  BY DEF MemInv
<1>2. rq[r].prot \in Nat /\ rq[r].pages \in Seq(Pages) /\ PageCount(rq[r].prot) <= Len(rq[r].pages)
  BY <1>1 DEF Row
<1>3. PageCount(rq[r].prot) \in Nat /\ Len(rq[r].pages) \in Nat
  <2>1. rq[r].prot \in Nat
    BY <1>2
  <2>2. PageCount(rq[r].prot) \in Nat
    BY <2>1, PageBounds
  <2>. QED
    BY <1>2, <2>2
<1>4. Different(rq[r], PageCount(rq[r].prot), Len(rq[r].pages))
  BY <1>1 DEF Row, Different
<1>5. DOMAIN PrivateIn(rq, H) = H /\ PrivateIn(rq, H)[r] = PrivateOf(rq[r])
      /\ PrivateIn(rq, H) = [x \in DOMAIN PrivateIn(rq, H) |-> PrivateIn(rq, H)[x]]
  BY DEF PrivateIn
<1>6. PrivateIn(rq, H)[r] = PagesOf(rq[r], PageCount(rq[r].prot), Len(rq[r].pages)) /\ r \in DOMAIN PrivateIn(rq, H)
  BY <1>5 DEF PrivateOf
<1>. DEFINE pv == PrivateIn(rq, H)
            q == rq[r]
            a == PageCount(rq[r].prot)
<1>7. /\ r \in DOMAIN pv /\ pv = [x \in DOMAIN pv |-> pv[x]]
      /\ Len(q.pages) \in Nat /\ a \in Nat /\ a <= Len(q.pages)
      /\ pv[r] = PagesOf(q, a, Len(q.pages)) /\ Different(q, a, Len(q.pages))
  BY <1>2, <1>3, <1>4, <1>5, <1>6
<1>. HIDE DEF pv, q, a
<1>8. Owned(pv, r, q, a)
  BY <1>7 DEF Owned
<1>. QED
  BY <1>8 DEF pv, q, a

\* Locks have nothing to do with pages.
LEMMA LockPages ==
    ASSUME NEW c, DOMAIN c = DOMAIN EmptyCache, NEW n
    PROVE  /\ DecLockRef(c, n).kv = c.kv /\ DecLockRef(c, n).free = c.free /\ DOMAIN DecLockRef(c, n) = DOMAIN EmptyCache
           /\ IncLockRef(c, n).kv = c.kv /\ IncLockRef(c, n).free = c.free /\ DOMAIN IncLockRef(c, n) = DOMAIN EmptyCache
  BY DEF DecLockRef, IncLockRef, EmptyCache

\* A sequence without its first n elements.
LEMMA RestOf ==
    ASSUME NEW S, NEW w \in Seq(S), NEW n \in Nat, n <= Len(w)
    PROVE  /\ SubSeq(w, n + 1, Len(w)) \in Seq(S) /\ Len(SubSeq(w, n + 1, Len(w))) = Len(w) - n
           /\ \A k \in 1 .. (Len(w) - n) : SubSeq(w, n + 1, Len(w))[k] = w[n + k]
<1>1. Len(w) \in Nat
  OBVIOUS
<1>2. n + 1 \in 1 .. (Len(w) + 1) /\ Len(w) \in ((n + 1) - 1) .. Len(w)
  BY <1>1
<1>3. PICK a : a = n + 1
  OBVIOUS
<1>4. PICK L : L = Len(w)
  OBVIOUS
<1>5. a \in 1 .. (Len(w) + 1) /\ L \in (a - 1) .. Len(w)
  BY <1>2, <1>3, <1>4
<1>6. /\ SubSeq(w, a, L) \in Seq(S) /\ Len(SubSeq(w, a, L)) = L - a + 1
      /\ \A k \in 1 .. (L - a + 1) : a + k - 1 \in 1 .. Len(w) /\ SubSeq(w, a, L)[k] = w[a + k - 1]
  BY <1>5, SubSeqAt
<1>7. L - a + 1 = Len(w) - n
  BY <1>1, <1>3, <1>4
<1>8. ASSUME NEW k \in 1 .. (Len(w) - n) PROVE SubSeq(w, a, L)[k] = w[n + k]
  <2>1. a + k - 1 = n + k
    BY <1>1, <1>3
  <2>2. SubSeq(w, a, L)[k] = w[a + k - 1]
    BY <1>6, <1>7
  <2>. QED
    BY <2>1, <2>2
<1>. QED
  BY <1>3, <1>4, <1>6, <1>7, <1>8

\* The first n tokens of r are cached in whole pages.
Whole(c, r, n) == \A i \in 1 .. PageCount(n) : Ids(r, i * PageSize) \in DOMAIN c.kv

\* The pages of a cached prefix of r.
LEMMA CachedRow ==
    ASSUME NEW c, NEW pv, PageInv(c, pv), NEW r \in Reqs, NEW n \in Nat, n % PageSize = 0, Whole(c, r, n)
    PROVE  LET s == CachedPages(c, Ids(r, n))
           IN  s \in Seq(Pages) /\ Len(s) = PageCount(n) /\ \A i \in 1 .. PageCount(n) : s[i] = c.kv[Ids(r, i * PageSize)]
<1>. DEFINE N == PageCount(n)
            s == CachedPages(c, Ids(r, n))
<1>0. \A i \in 1 .. N : Ids(r, i * PageSize) \in DOMAIN c.kv
  BY DEF Whole
<1>2. N \in Nat
  BY PageBounds
<1>3. Len(Ids(r, n)) = n /\ n = N * PageSize
  BY IdsMeaning, PagedLen
<1>4. s \in Seq(Pages) /\ Len(s) = N /\ \A i \in 1 .. N : s[i] = c.kv[Ids(r, i * PageSize)]
  <2>1. s = [i \in 1 .. N |-> c.kv[SubSeq(Ids(r, n), 1, i * PageSize)]]
    BY <1>3 DEF CachedPages
  <2>2. ASSUME NEW i \in 1 .. N PROVE SubSeq(Ids(r, n), 1, i * PageSize) = Ids(r, i * PageSize)
    <3>. DEFINE P == PageSize
    <3>1. P \in Nat \ {0} /\ i * P = P * i /\ N * P = P * N /\ i * P \in Nat /\ i \in Int
      BY <1>2, PageSizeAssumption
    <3>. HIDE DEF P, N
    <3>2. P * i <= P * N
      BY <3>1, <1>2, TimesOrder
    <3>3. i * PageSize \in Nat /\ i * PageSize <= n
      BY <3>1, <3>2, <1>3 DEF P
    <3>. QED
      BY <3>3, IdsPrefix
  <2>3. \A i \in 1 .. N : c.kv[Ids(r, i * PageSize)] \in Pages
    BY <1>0 DEF PageInv
  <2>. HIDE DEF N, s
  <2>4. \A i \in 1 .. N : s[i] = c.kv[Ids(r, i * PageSize)] /\ s[i] \in Pages
    BY <2>1, <2>2, <2>3
  <2>5. s \in [1 .. N -> Pages]
    BY <2>1, <2>4
  <2>. QED
    BY <1>2, <2>4, <2>5
<1>. QED
  BY <1>4

\* Row q, whose first n tokens are cached, becomes row z.
Renewed(c, r, q, n, z) ==
  /\ n <= q.kv /\ q.prot <= n /\ q.prefix <= q.kv /\ PageCount(n) <= Len(q.pages)
  /\ z.prot = n /\ z.kv = q.kv /\ z.prefix \in Nat /\ n <= z.prefix /\ z.prefix <= q.kv /\ z.node = Ids(r, n)
  /\ z.pages = CachedPages(c, Ids(r, n)) \o SubSeq(q.pages, PageCount(n) + 1, Len(q.pages))

\* The row of r after cache_unfinished_req.
LEMMA UnfinishRow ==
    ASSUME NEW c, NEW ct, NEW pv, PageInv(c, pv), NEW r \in Reqs, NEW q, NEW n \in Nat, n % PageSize = 0,
           Whole(c, r, n), NEW b, Row(b, ct, r, q), NEW z, Renewed(c, r, q, n, z)
    PROVE  /\ Row(c, ct, r, z) /\ PrivateOf(z) = PagesOf(q, PageCount(n), Len(q.pages)) /\ Len(z.pages) = Len(q.pages)
<1>0. \A i \in 1 .. PageCount(n) : Ids(r, i * PageSize) \in DOMAIN c.kv
  BY DEF Whole
<1>a. /\ n <= q.kv /\ q.prot <= n /\ q.prefix <= q.kv /\ PageCount(n) <= Len(q.pages)
       /\ z.prot = n /\ z.kv = q.kv /\ z.prefix \in Nat /\ n <= z.prefix /\ z.prefix <= q.kv /\ z.node = Ids(r, n)
       /\ z.pages = CachedPages(c, Ids(r, n)) \o SubSeq(q.pages, PageCount(n) + 1, Len(q.pages))
  BY DEF Renewed
<1>. USE <1>0, <1>a
<1>. DEFINE N == PageCount(n)
            L == Len(q.pages)
            s == CachedPages(c, Ids(r, n))
            t == SubSeq(q.pages, N + 1, L)
<1>1. q.prot \in Nat /\ q.pages \in Seq(Pages) /\ L \in Nat /\ q.kv \in Nat /\ q.prefix \in Nat
  BY DEF Row
<1>2. N \in Nat /\ N <= L /\ PageCount(q.prot) <= N /\ PageCount(q.prot) \in Nat
  BY <1>1, PageBounds, PageCountMonotone
<1>3. Len(Ids(r, n)) = n /\ n = N * PageSize
  BY IdsMeaning, PagedLen
<1>4. s \in Seq(Pages) /\ Len(s) = N /\ \A i \in 1 .. N : s[i] = c.kv[Ids(r, i * PageSize)]
  BY CachedRow
<1>. HIDE DEF s
<1>5. t \in Seq(Pages) /\ Len(t) = L - N /\ \A k \in 1 .. (L - N) : t[k] = q.pages[N + k]
  <2>1. q.pages \in Seq(Pages) /\ N \in Nat /\ N <= Len(q.pages)
    BY <1>1, <1>2
  <2>2. PICK w : w = q.pages
    OBVIOUS
  <2>. HIDE DEF N
  <2>3. /\ SubSeq(w, N + 1, Len(w)) \in Seq(Pages) /\ Len(SubSeq(w, N + 1, Len(w))) = Len(w) - N
        /\ \A k \in 1 .. (Len(w) - N) : SubSeq(w, N + 1, Len(w))[k] = w[N + k]
    BY <2>1, <2>2, RestOf
  <2>. QED
    BY <2>2, <2>3 DEF t, L
<1>. HIDE DEF t
<1>6. /\ z.pages \in Seq(Pages) /\ Len(z.pages) = L
      /\ \A i \in 1 .. N : z.pages[i] = c.kv[Ids(r, i * PageSize)]
      /\ \A i \in (N + 1) .. L : z.pages[i] = q.pages[i]
  <2>1. z.pages = s \o t
    BY DEF s, t
  <2>. HIDE DEF N, L
  <2>2. /\ s \o t \in Seq(Pages) /\ Len(s \o t) = Len(s) + Len(t)
        /\ (\A k \in 1 .. Len(s) : (s \o t)[k] = s[k]) /\ \A k \in 1 .. Len(t) : (s \o t)[Len(s) + k] = t[k]
    <3>1. s \in Seq(Pages) /\ t \in Seq(Pages)
      BY <1>4, <1>5
    <3>. QED
      BY <3>1, ConcatAt
  <2>3. Len(s) + Len(t) = L
    BY <1>1, <1>2, <1>4, <1>5
  <2>4. ASSUME NEW i \in (N + 1) .. L PROVE z.pages[i] = q.pages[i]
    <3>1. i - N \in 1 .. (L - N) /\ N + (i - N) = i
      BY <1>1, <1>2
    <3>2. (s \o t)[N + (i - N)] = t[i - N]
      BY <2>2, <3>1, <1>4, <1>5
    <3>3. t[i - N] = q.pages[N + (i - N)]
      BY <1>5, <3>1
    <3>. QED
      BY <3>1, <3>2, <3>3, <2>1
  <2>. QED
    BY <1>4, <2>1, <2>2, <2>3, <2>4
<1>7. PrivateOf(z) = PagesOf(q, N, L)
  <2>1. PrivateOf(z) = {z.pages[i] : i \in (N + 1) .. L}
    BY <1>6 DEF PrivateOf, PagesOf
  <2>. HIDE DEF N, L
  <2>2. {z.pages[i] : i \in (N + 1) .. L} = {q.pages[i] : i \in (N + 1) .. L}
    <3>1. \A i \in (N + 1) .. L : z.pages[i] = q.pages[i]
      BY <1>6
    <3>. QED
      BY <3>1
  <2>. QED
    BY <2>1, <2>2 DEF PagesOf
<1>8. Have(z) = q.kv /\ Have(q) = q.kv
  BY <1>1 DEF Have
<1>. DEFINE A == PageCount(q.prot)
<1>9. /\ \A i, j \in (A + 1) .. L : q.pages[i] = q.pages[j] => i = j
      /\ \A i \in (A + 1) .. L : ct[q.pages[i]] = Upto(r, i, Have(q))
  BY DEF Row
<1>10. A \in Nat /\ A <= N /\ L \in Nat /\ N \in Nat
  BY <1>1, <1>2
<1>11. z.prot % PageSize = 0 /\ PageCount(z.prot) = N
  OBVIOUS
<1>. HIDE DEF A, N, L
<1>12. \A i \in (N + 1) .. L : i \in (A + 1) .. L
  BY <1>10
<1>13. ASSUME NEW i \in (N + 1) .. L, NEW j \in (N + 1) .. L, z.pages[i] = z.pages[j] PROVE i = j
  <2>1. q.pages[i] = q.pages[j]
    BY <1>6, <1>13
  <2>. QED
    BY <1>9, <1>12, <2>1
<1>14. \A i \in (N + 1) .. L : ct[z.pages[i]] = Upto(r, i, Have(z))
  BY <1>6, <1>8, <1>9, <1>12
<1>15. \A i \in 1 .. N : Ids(r, i * PageSize) \in DOMAIN c.kv /\ c.kv[Ids(r, i * PageSize)] = z.pages[i]
  BY <1>6 DEF N
<1>16. Row(c, ct, r, z)
  BY <1>1, <1>2, <1>6, <1>11, <1>13, <1>14, <1>15 DEF Row
<1>. QED
  BY <1>6, <1>7, <1>16 DEF N, L

\* Pages, and what they hold, do not depend on locks.
LEMMA SamePages ==
    ASSUME NEW c, NEW d, NEW pv, NEW ct, d.kv = c.kv, d.free = c.free
    PROVE  /\ PageInv(c, pv) => PageInv(d, pv)
           /\ Faithful(c, ct) => Faithful(d, ct)
           /\ \A r, q : Row(c, ct, r, q) => Row(d, ct, r, q)
  BY DEF PageInv, Faithful, Row

\* The lengths of a request that is not being admitted: what is in the tree,
\* was matched, is to be computed, and has a place in pages.
Sized(q) == /\ q.fill \in Nat /\ q.prefix <= q.fill /\ q.fill <= q.kv /\ Len(q.pages) = PageCount(q.kv)

\* The whole pages of such a request.
LEMMA SizedPages ==
    ASSUME NEW c, NEW ct, NEW r \in Reqs, NEW q, Row(c, ct, r, q), Sized(q)
    PROVE  LET n == FloorPaged(q.fill)
           IN  /\ n \in Nat /\ n % PageSize = 0 /\ n <= q.fill /\ q.prot <= n /\ n <= q.kv
               /\ PageCount(n) <= Len(q.pages) /\ q.prefix <= q.kv
               /\ q.kv \in Nat /\ q.prot \in Nat /\ q.fill \in Nat /\ q.prefix \in Nat /\ q.prot <= q.kv
               /\ PageCount(n) \in Nat /\ Len(q.pages) \in Nat /\ PageCount(q.kv) <= Len(q.pages)
<1>. DEFINE n == FloorPaged(q.fill)
<1>1. /\ q.prot \in Nat /\ q.prefix \in Nat /\ q.kv \in Nat /\ q.prot % PageSize = 0 /\ q.prot <= q.prefix
      /\ q.fill \in Nat /\ q.prefix <= q.fill /\ q.fill <= q.kv /\ Len(q.pages) = PageCount(q.kv) /\ q.pages \in Seq(Pages)
  BY DEF Row, Sized
<1>2. /\ n \in Nat /\ n <= q.fill /\ n % PageSize = 0
      /\ \A m \in Nat : m % PageSize = 0 /\ m <= q.fill => m <= n
  BY <1>1, FloorBounds
<1>. HIDE DEF n
<1>3. q.prot <= q.fill /\ n <= q.kv /\ q.prot <= q.kv /\ q.prefix <= q.kv
  BY <1>1, <1>2
<1>4. q.prot <= n
  BY <1>1, <1>2, <1>3
<1>5. PageCount(n) <= PageCount(q.kv)
  BY <1>1, <1>2, <1>3, PageCountMonotone
<1>6. PageCount(n) \in Nat /\ PageCount(q.kv) \in Nat
  <2>1. PageCount(n) \in Nat
    BY <1>2, PageBounds
  <2>2. PageCount(q.kv) \in Nat
    BY <1>1, PageBounds
  <2>. QED
    BY <2>1, <2>2
<1>. QED
  BY <1>1, <1>2, <1>3, <1>4, <1>5, <1>6 DEF n

\* The other rows stay when the cache grows.
LEMMA RowGrows ==
    ASSUME NEW c, NEW d, NEW ct, NEW r \in Reqs, NEW q, Row(c, ct, r, q), Grows(c, d)
    PROVE  Row(d, ct, r, q)
<1>1. KeepsNode(c, d, q.node)
  BY DEF KeepsNode, Grows
<1>. QED
  BY <1>1, RowStays

\* One row changes, the others stay.
OnlyRow(rq, rq2, H, r) == \A x \in H : x # r => rq2[x] = rq[x]

\* The private pages when r has private pages from page n of its row on.
LEMMA PrivateFrom ==
    ASSUME NEW rq, NEW rq2, NEW H, NEW r \in H, OnlyRow(rq, rq2, H, r), NEW n,
           PrivateOf(rq2[r]) = PagesOf(rq[r], n, Len(rq[r].pages))
    PROVE  PrivateIn(rq2, H) = From(PrivateIn(rq, H), r, rq[r], n)
<1>1. \A x \in H : PrivateOf(rq2[x]) = IF x = r THEN PagesOf(rq[r], n, Len(rq[r].pages)) ELSE PrivateOf(rq[x])
  BY DEF OnlyRow
<1>. QED
  BY <1>1, Zenon DEF PrivateIn, From

\* cache_unfinished_req: the tree takes over the whole pages of the request,
\* and the row goes on with the pages of the tree.
LEMMA UnfinishMem ==
    ASSUME CInv, ReqShape, NEW ct, MemInv(cache, ct, req, Holders), NEW r \in Holders, Sized(req[r]),
           NEW rq2, OnlyRow(req, rq2, Holders, r), SameRow(Unfinish(cache, r).req, rq2[r])
    PROVE  /\ MemInv(Unfinish(cache, r).cache, ct, rq2, Holders)
           /\ LET q == Unfinish(cache, r).req
              IN  /\ q.fill = req[r].fill /\ q.prefix = req[r].fill /\ q.kv = req[r].kv
                  /\ q.prot \in Nat /\ q.prot <= q.fill /\ Len(q.pages) = Len(req[r].pages)
<1>. DEFINE q == req[r]
            n == FloorPaged(q.fill)
            key == Ids(r, n)
            i == Insert(cache, key, q.pages)
            d == Free(i, PageSlice(q, q.prot, Len(CachedPrefix(cache, key))))
            f == DecLockRef(d, q.node)
            e == IncLockRef(f, key)
            pv == PrivateIn(req, Holders)
            u == Unfinish(cache, r).req
            z == rq2[r]
<1>1. r \in Reqs /\ CacheInv(cache, Nodes, Toks) /\ Holders \in SUBSET Reqs
  BY DEF CInv, Holders
<1>2. Row(cache, ct, r, q) /\ PageInv(cache, pv) /\ Faithful(cache, ct) /\ Owned(pv, r, q, PageCount(q.prot))
  BY <1>1, RowOwned DEF MemInv
<1>3. /\ n \in Nat /\ n % PageSize = 0 /\ n <= q.fill /\ q.prot <= n /\ n <= q.kv
      /\ PageCount(n) <= Len(q.pages) /\ q.prefix <= q.kv
      /\ q.kv \in Nat /\ q.prot \in Nat /\ q.fill \in Nat
  BY <1>1, <1>2, SizedPages
<1>4. Unfinish(cache, r).cache = e
  BY DEF Unfinish, UnfinishHolding
<1>5. /\ u.pages = CachedPages(e, key) \o SubSeq(q.pages, PageCount(Len(key)) + 1, Len(q.pages))
      /\ u.prot = Len(key) /\ u.prefix = q.fill /\ u.node = key /\ u.fill = q.fill /\ u.kv = q.kv
  BY <1>1 DEF Unfinish, UnfinishHolding, ReqShape, FreshReq
<1>6. Len(key) = n
  BY <1>1, <1>3, IdsMeaning
<1>. HIDE DEF n, pv, u, q
<1>7. Inserted(cache, ct, pv, r, q, n, d)
  BY <1>1, <1>2, <1>3, InsertRow
<1>. HIDE DEF d, i
<1>8. /\ PageInv(d, From(pv, r, q, PageCount(n))) /\ Faithful(d, ct) /\ Grows(cache, d)
      /\ DOMAIN d = DOMAIN EmptyCache /\ \A j \in 1 .. PageCount(n) : Ids(r, j * PageSize) \in DOMAIN d.kv
  BY <1>7 DEF Inserted
<1>9. f.kv = d.kv /\ f.free = d.free /\ DOMAIN f = DOMAIN EmptyCache
  BY <1>8, LockPages
<1>. HIDE DEF f, key
<1>10. e.kv = d.kv /\ e.free = d.free
  BY <1>9, LockPages
<1>. HIDE DEF e
<1>11. PageInv(e, From(pv, r, q, PageCount(n))) /\ Faithful(e, ct) /\ Grows(cache, e)
  <2>1. Grows(cache, e)
    BY <1>8, <1>10 DEF Grows
  <2>. QED
    BY <2>1, <1>8, <1>10, SamePages
<1>12. /\ z.prot = n /\ z.kv = q.kv /\ z.prefix = q.fill /\ z.node = Ids(r, n)
       /\ z.pages = CachedPages(e, Ids(r, n)) \o SubSeq(q.pages, PageCount(n) + 1, Len(q.pages))
  <2>1. SameRow(u, z)
    BY DEF u
  <2>. QED
    BY <2>1, <1>5, <1>6 DEF SameRow, key
<1>13. Row(e, ct, r, z) /\ PrivateOf(z) = PagesOf(q, PageCount(n), Len(q.pages)) /\ Len(z.pages) = Len(q.pages)
  <2>1. \A j \in 1 .. PageCount(n) : Ids(r, j * PageSize) \in DOMAIN e.kv
    BY <1>8, <1>10
  <2>2. z.prefix \in Nat /\ n <= z.prefix /\ z.prefix <= q.kv
    BY <1>3, <1>12 DEF Sized, q
  <2>3. PICK pw : pw = From(pv, r, q, PageCount(n))
    OBVIOUS
  <2>4. PageInv(e, pw)
    BY <2>3, <1>11
  <2>5. Whole(e, r, n) /\ Renewed(e, r, q, n, z)
    BY <2>1, <2>2, <1>3, <1>12 DEF Whole, Renewed
  <2>. HIDE DEF z
  <2>. QED
    BY <2>4, <2>5, <1>1, <1>2, <1>3, UnfinishRow
<1>14. PrivateIn(rq2, Holders) = From(pv, r, q, PageCount(n))
  <2>1. PrivateOf(rq2[r]) = PagesOf(req[r], PageCount(n), Len(req[r].pages))
    BY <1>13 DEF q
  <2>2. PICK k : k = PageCount(n)
    OBVIOUS
  <2>3. PrivateIn(rq2, Holders) = From(PrivateIn(req, Holders), r, req[r], k)
    BY <2>1, <2>2, PrivateFrom
  <2>. QED
    BY <2>2, <2>3 DEF pv, q
<1>15. ASSUME NEW x \in Holders PROVE Row(e, ct, x, rq2[x])
  <2>1. CASE x = r
    BY <2>1, <1>13
  <2>2. CASE x # r
    <3>1. rq2[x] = req[x] /\ Row(cache, ct, x, req[x]) /\ x \in Reqs
      BY <2>2, <1>1 DEF OnlyRow, MemInv
    <3>. QED
      BY <3>1, <1>11, RowGrows
  <2>. QED
    BY <2>1, <2>2
<1>16. MemInv(e, ct, rq2, Holders)
  BY <1>11, <1>14, <1>15 DEF MemInv
<1>17. Len(u.pages) = Len(z.pages)
  BY DEF SameRow, u
<1>. QED
  BY <1>3, <1>4, <1>5, <1>6, <1>13, <1>16, <1>17 DEF u, q

\* The least and the largest of two numbers.
LEMMA MinOf ==
    ASSUME NEW x \in Int, NEW y \in Int
    PROVE  /\ Min({x, y}) = IF x <= y THEN x ELSE y
           /\ Max({x, y}) = IF x <= y THEN y ELSE x
<1>1. PICK m \in {x, y} : \A k \in {x, y} : m <= k
  BY SMT
<1>2. Min({x, y}) \in {x, y} /\ \A k \in {x, y} : Min({x, y}) <= k
  BY <1>1 DEF Min
<1>3. PICK n \in {x, y} : \A k \in {x, y} : k <= n
  BY SMT
<1>4. Max({x, y}) \in {x, y} /\ \A k \in {x, y} : k <= Max({x, y})
  BY <1>3 DEF Max
<1>. QED
  BY <1>2, <1>4

\* A holder that has no private pages left is dropped.
LEMMA DropHolder ==
    ASSUME NEW rq, NEW rq2, NEW H, NEW r \in H, \A x \in H \ {r} : rq2[x] = rq[x],
           NEW d, PageInv(d, From(PrivateIn(rq, H), r, rq[r], Len(rq[r].pages))), Len(rq[r].pages) \in Nat
    PROVE  PageInv(d, PrivateIn(rq2, H \ {r}))
<1>. DEFINE pv == PrivateIn(rq2, H \ {r})
            pw == From(PrivateIn(rq, H), r, rq[r], Len(rq[r].pages))
<1>1. PagesOf(rq[r], Len(rq[r].pages), Len(rq[r].pages)) = {}
  BY DEF PagesOf
<1>2. DOMAIN pv = H \ {r} /\ DOMAIN pw = H /\ pw[r] = {}
  BY <1>1 DEF PrivateIn, From
<1>3. \A x \in H \ {r} : pw[x] = pv[x]
  BY DEF PrivateIn, From
<1>. HIDE DEF pv, pw
<1>4. r \notin DOMAIN pv /\ DOMAIN pw = DOMAIN pv \cup {r} /\ \A x \in DOMAIN pv : pw[x] = pv[x]
  BY <1>2, <1>3
<1>5. PageInv(d, pw)
  BY DEF pw
<1>6. PageInv(d, pv)
  BY <1>2, <1>4, <1>5, PagelessHolder
<1>. QED
  BY <1>6 DEF pv

\* The pages of a row from whole page a on are freed up to length n, and then
\* up to length k.
LEMMA FreedRest ==
    ASSUME NEW c, DOMAIN c = DOMAIN EmptyCache, NEW pv, PageInv(c, pv), NEW r, NEW q,
           NEW n \in Nat, NEW k \in Nat, n <= k, PageCount(k) = Len(q.pages), Owned(pv, r, q, PageCount(n))
    PROVE  LET d == Free(c, PageSlice(q, n, k))
           IN  PageInv(d, From(pv, r, q, Len(q.pages))) /\ d.kv = c.kv /\ DOMAIN d = DOMAIN EmptyCache
<1>1. PageCount(k) <= Len(q.pages)
  BY PageBounds
<1>2. SliceFreed(c, pv, r, q, PageCount(k), Free(c, PageSlice(q, n, k)))
  BY <1>1, FreedSlice
<1>. QED
  BY <1>2 DEF SliceFreed

\* cache_finished_req: the tree takes over the whole pages of the request (or,
\* when it is retracted, none), and the others are freed.
LEMMA FinishMem ==
    ASSUME CInv, ReqShape, NEW ct, MemInv(cache, ct, req, Holders), NEW r \in Holders, Sized(req[r]),
           NEW out \in Int, NEW insert \in BOOLEAN, req[r].kv <= Len(Prompt[r]) + out,
           NEW rq2, \A x \in Holders \ {r} : rq2[x] = req[x]
    PROVE  MemInv(Finish(cache, r, out, insert), ct, rq2, Holders \ {r})
<1>. DEFINE q == req[r]
            n == FloorPaged(q.fill)
            key == Ids(r, n)
            had == IF insert THEN Len(CachedPrefix(cache, key)) ELSE Len(key)
            len == Min({q.kv, Len(Prompt[r]) + out})
            c == IF insert THEN Insert(cache, key, q.pages) ELSE cache
            d == Free(c, PageSlice(q, q.prot, had))
            e == Free(d, PageSlice(q, Len(key), len))
            f == DecLockRef(e, q.node)
            pv == PrivateIn(req, Holders)
<1>1. r \in Reqs /\ CacheInv(cache, Nodes, Toks) /\ Holders \in SUBSET Reqs
  BY DEF CInv, Holders
<1>2. Row(cache, ct, r, q) /\ PageInv(cache, pv) /\ Faithful(cache, ct) /\ Owned(pv, r, q, PageCount(q.prot))
  BY <1>1, RowOwned DEF MemInv
<1>3. /\ n \in Nat /\ n % PageSize = 0 /\ n <= q.fill /\ q.prot <= n /\ n <= q.kv
      /\ PageCount(n) <= Len(q.pages) /\ q.prefix <= q.kv /\ PageCount(n) \in Nat /\ Len(q.pages) \in Nat
      /\ q.kv \in Nat /\ q.prot \in Nat /\ q.fill \in Nat
  BY <1>1, <1>2, SizedPages
<1>4. Finish(cache, r, out, insert) = f
  BY DEF Finish, FinishFrom
<1>5. len = q.kv
  <2>1. Len(Prompt[r]) \in Int
    BY <1>1, SizesAssumption
  <2>2. q.kv \in Int /\ Len(Prompt[r]) + out \in Int /\ q.kv <= Len(Prompt[r]) + out
    BY <2>1, <1>3
  <2>. HIDE DEF q
  <2>3. PICK m : m = Len(Prompt[r]) + out
    OBVIOUS
  <2>. QED
    BY <2>2, <2>3, MinOf
<1>6. Len(key) = n
  BY <1>1, <1>3, IdsMeaning
<1>7. DOMAIN cache = DOMAIN EmptyCache
  BY <1>1 DEF CacheInv, Tree, Shape
<1>8. PageCount(q.kv) = Len(q.pages)
  BY DEF Sized
<1>. HIDE DEF n, pv, q, len
<1>9. Inserted(cache, ct, pv, r, q, n, Free(Insert(cache, key, q.pages), PageSlice(q, q.prot, Len(CachedPrefix(cache, key)))))
  BY <1>1, <1>2, <1>3, InsertRow
<1>10. SliceFreed(cache, pv, r, q, PageCount(n), Free(cache, PageSlice(q, q.prot, n)))
  BY <1>2, <1>3, <1>7, FreedSlice
<1>11. PageInv(d, From(pv, r, q, PageCount(n))) /\ Faithful(d, ct) /\ Grows(cache, d) /\ DOMAIN d = DOMAIN EmptyCache
  <2>1. CASE insert
    <3>1. d = Free(Insert(cache, key, q.pages), PageSlice(q, q.prot, Len(CachedPrefix(cache, key))))
      BY <2>1
    <3>. QED
      BY <3>1, <1>9 DEF Inserted
  <2>2. CASE ~insert
    <3>1. d = Free(cache, PageSlice(q, q.prot, n))
      BY <2>2, <1>6
    <3>2. PageInv(d, From(pv, r, q, PageCount(n))) /\ d.kv = cache.kv /\ DOMAIN d = DOMAIN EmptyCache
      BY <3>1, <1>10 DEF SliceFreed
    <3>. HIDE DEF d
    <3>. QED
      BY <3>2, <1>2 DEF Faithful, Grows
  <2>. QED
    BY <2>1, <2>2
<1>. HIDE DEF c, d, had
<1>12. /\ Owned(From(pv, r, q, PageCount(n)), r, q, PageCount(n))
       /\ \A b \in Nat : From(From(pv, r, q, PageCount(n)), r, q, b) = From(pv, r, q, b)
  <2>1. PICK a : a = PageCount(q.prot)
    OBVIOUS
  <2>2. PICK b : b = PageCount(n)
    OBVIOUS
  <2>3. Owned(pv, r, q, a) /\ b \in Nat /\ a <= b /\ b <= Len(q.pages)
    BY <2>1, <2>2, <1>2, <1>3, PageCountMonotone
  <2>4. /\ Owned(From(pv, r, q, b), r, q, b) /\ \A k \in Nat : From(From(pv, r, q, b), r, q, k) = From(pv, r, q, k)
    BY <2>3, OwnedFrom
  <2>. QED
    BY <2>2, <2>4
<1>13. e = Free(d, PageSlice(q, n, q.kv))
  BY <1>5, <1>6
<1>14. PageInv(e, From(pv, r, q, Len(q.pages))) /\ e.kv = d.kv /\ DOMAIN e = DOMAIN EmptyCache
  <2>1. PICK pw : pw = From(pv, r, q, PageCount(n))
    OBVIOUS
  <2>2. PageInv(e, From(pw, r, q, Len(q.pages))) /\ e.kv = d.kv /\ DOMAIN e = DOMAIN EmptyCache
    BY <2>1, <1>3, <1>8, <1>11, <1>12, <1>13, FreedRest
  <2>. QED
    BY <2>1, <2>2, <1>3, <1>12
<1>. HIDE DEF e
<1>15. f.kv = e.kv /\ f.free = e.free
  BY <1>14, LockPages
<1>16. PageInv(f, From(pv, r, q, Len(q.pages))) /\ Faithful(f, ct) /\ Grows(cache, f)
  <2>1. Grows(cache, f)
    BY <1>11, <1>14, <1>15 DEF Grows
  <2>2. Faithful(f, ct)
    BY <1>11, <1>14, <1>15 DEF Faithful
  <2>. QED
    BY <2>1, <2>2, <1>14, <1>15, SamePages
<1>. HIDE DEF f
<1>17. PageInv(f, PrivateIn(rq2, Holders \ {r}))
  <2>1. PageInv(f, From(PrivateIn(req, Holders), r, req[r], Len(req[r].pages))) /\ Len(req[r].pages) \in Nat
    BY <1>3, <1>16 DEF pv, q
  <2>. QED
    BY <2>1, DropHolder
<1>18. ASSUME NEW x \in Holders \ {r} PROVE Row(f, ct, x, rq2[x])
  <2>1. rq2[x] = req[x] /\ Row(cache, ct, x, req[x]) /\ x \in Reqs
    BY <1>1 DEF MemInv
  <2>. QED
    BY <2>1, <1>16, RowGrows
<1>19. MemInv(f, ct, rq2, Holders \ {r})
  BY <1>16, <1>17, <1>18 DEF MemInv
<1>. QED
  BY <1>4, <1>19

\* What match_prefix finds of r is a prefix of its text, without the last
\* token, and all of it is cached.
LEMMA MatchMem ==
    ASSUME CInv, NEW r \in Reqs, req[r].out \in Nat
    PROVE  LET n == CachedPrefix(cache, MatchKey(r))
           IN  /\ Len(n) \in Nat /\ Len(n) % PageSize = 0 /\ n = Ids(r, Len(n)) /\ Len(n) < SeqLen(r)
               /\ Whole(cache, r, Len(n))
<1>. DEFINE k == FloorPaged(SeqLen(r) - 1)
            key == Ids(r, k)
            n == CachedPrefix(cache, key)
            P == PageSize
<1>1. SeqLen(r) - 1 \in Nat /\ SeqLen(r) \in Nat
  <2>1. Len(Prompt[r]) \in Nat /\ Len(Prompt[r]) > 0
    BY SizesAssumption
  <2>. QED
    BY <2>1 DEF SeqLen
<1>2. k \in Nat /\ k <= SeqLen(r) - 1
  BY <1>1, FloorBounds
<1>3. Tree(cache, Toks) /\ Shape(cache, Toks)
  BY DEF CInv, CacheInv, Tree
<1>. HIDE DEF k
<1>4. key \in Seq(Toks) /\ Len(key) = k
  BY <1>2, IdsMeaning
<1>. HIDE DEF key
<1>5. n \in Seq(Toks) /\ IsPrefix(n, key) /\ Len(n) <= Len(key) /\ (n = << >> \/ n \in DOMAIN cache.kv)
  BY <1>3, <1>4, CachedPrefixMeaning
<1>. HIDE DEF n
<1>6. Len(n) \in Nat /\ Len(n) <= k
  BY <1>4, <1>5
<1>7. n = Ids(r, Len(n))
  <2>1. PICK a : a = Len(n)
    OBVIOUS
  <2>2. \A p \in Seq(Toks) : IsPrefix(p, Ids(r, k)) /\ Len(p) = a => p = Ids(r, a)
    BY <2>1, <1>2, <1>6, IdsPrefix
  <2>. QED
    BY <2>1, <2>2, <1>5 DEF key
<1>8. Len(n) % PageSize = 0
  <2>1. CASE n = << >>
    BY <2>1, PageSizeAssumption
  <2>2. CASE n \in DOMAIN cache.kv
    BY <2>2, <1>3 DEF Shape, Paged
  <2>. QED
    BY <2>1, <2>2, <1>5
<1>9. ASSUME NEW i \in 1 .. PageCount(Len(n)) PROVE Ids(r, i * PageSize) \in DOMAIN cache.kv
  <2>. DEFINE A == PageCount(Len(n))
              a == i * PageSize
  <2>1. A \in Nat /\ Len(n) = A * P /\ P \in Nat \ {0} /\ i \in 1 .. A
    BY <1>6, <1>8, PagedLen, PageSizeAssumption
  <2>. HIDE DEF A
  <2>2. a % PageSize = 0
    BY PagesLen
  <2>3. a = P * i /\ i \in Int /\ A \in Int /\ 1 <= i /\ i <= A /\ Len(n) = P * A /\ P * 1 = P /\ a \in Int
    BY <2>1
  <2>. HIDE DEF P, a
  <2>4. P * i <= P * A /\ P * 1 <= P * i
    BY <2>1, <2>3, TimesOrder
  <2>5. a \in Nat /\ a <= Len(n) /\ a > 0
    BY <2>1, <2>3, <2>4
  <2>6. Ids(r, a) \in Seq(Toks) /\ Len(Ids(r, a)) = a /\ IsPrefix(Ids(r, a), Ids(r, Len(n)))
    BY <2>5, <1>6, IdsPrefix
  <2>7. n \in DOMAIN cache.kv
    <3>1. n # << >>
      BY <2>5
    <3>. QED
      BY <3>1, <1>5
  <2>8. IsPrefix(Ids(r, a), n)
    BY <2>6, <1>7
  <2>9. Ids(r, a) \in DOMAIN cache.kv
    BY <2>2, <2>5, <2>6, <2>7, <2>8, <1>3 DEF Tree, Closed, Paged
  <2>. QED
    BY <2>9 DEF a
<1>10. Len(n) < SeqLen(r)
  BY <1>1, <1>2, <1>6
<1>. QED
  BY <1>6, <1>7, <1>8, <1>9, <1>10 DEF n, key, k, MatchKey, Whole

\* Node n of tree c is what match_prefix finds of r.
Matched(r, n, c) == n = CachedPrefix(cache, MatchKey(r)) /\ c = MatchPrefix(cache, MatchKey(r))

\* The row of a request that has nothing but the cached prefix n.
NewRow(q, c, n) == q.prot = Len(n) /\ q.prefix = Len(n) /\ q.node = n /\ q.pages = CachedPages(c, n) /\ q.kv = 0

\* A request is admitted: its row is what the tree has of its text.
LEMMA AdmitMem ==
    ASSUME CInv, NEW ct, MemInv(cache, ct, req, Holders), NEW r \in Reqs, r \notin Holders, req[r].out \in Nat,
           NEW n, NEW c, Matched(r, n, c), NEW rq2, OnlyRow(req, rq2, Holders, r), NewRow(rq2[r], c, n)
    PROVE  /\ MemInv(IncLockRef(c, n), ct, rq2, Holders \cup {r})
           /\ Len(rq2[r].pages) = PageCount(Len(n))
<1>. DEFINE z == rq2[r]
            d == IncLockRef(c, n)
            N == Len(n)
            pv == PrivateIn(req, Holders)
            pw == PrivateIn(rq2, Holders \cup {r})
<1>12. n = CachedPrefix(cache, MatchKey(r)) /\ c = MatchPrefix(cache, MatchKey(r))
  BY DEF Matched
<1>13. /\ rq2[r].prot = Len(n) /\ rq2[r].prefix = Len(n) /\ rq2[r].node = n /\ rq2[r].pages = CachedPages(c, n)
      /\ rq2[r].kv = 0
  BY DEF NewRow
<1>1. N \in Nat /\ N % PageSize = 0 /\ n = Ids(r, N) /\ Whole(cache, r, N)
  BY <1>12, MatchMem
<1>2. c.kv = cache.kv /\ c.free = cache.free /\ DOMAIN c = DOMAIN EmptyCache
  <2>1. CacheInv(c, Nodes, Toks) /\ c.kv = cache.kv /\ c.free = cache.free
    BY <1>12, MatchCache
  <2>. QED
    BY <2>1 DEF CacheInv, Tree, Shape
<1>3. d.kv = cache.kv /\ d.free = cache.free
  BY <1>2, LockPages
<1>4. PageInv(cache, pv) /\ Faithful(cache, ct) /\ PageInv(c, pv) /\ Whole(c, r, N)
  <2>1. PageInv(cache, pv) /\ Faithful(cache, ct)
    BY DEF MemInv
  <2>. HIDE DEF pv
  <2>2. PageInv(c, pv)
    BY <2>1, <1>2, SamePages
  <2>. QED
    BY <2>1, <2>2, <1>1, <1>2 DEF Whole
<1>. HIDE DEF N, pv
<1>5. z.pages \in Seq(Pages) /\ Len(z.pages) = PageCount(N) /\ \A i \in 1 .. PageCount(N) : z.pages[i] = c.kv[Ids(r, i * PageSize)]
  <2>1. z.pages = CachedPages(c, Ids(r, N))
    BY <1>1, <1>13
  <2>. QED
    BY <2>1, <1>1, <1>4, CachedRow
<1>6. z.prot = N /\ z.prefix = N /\ z.node = Ids(r, N) /\ z.kv = 0 /\ PageCount(N) \in Nat
  BY <1>1, <1>13, PageBounds DEF N
<1>. HIDE DEF z, d
<1>7. Row(d, ct, r, z)
  <2>1. \A i \in 1 .. PageCount(N) : Ids(r, i * PageSize) \in DOMAIN d.kv /\ d.kv[Ids(r, i * PageSize)] = z.pages[i]
    BY <1>2, <1>3, <1>4, <1>5 DEF Whole
  <2>2. (PageCount(N) + 1) .. PageCount(N) = {}
    BY <1>6
  <2>. QED
    BY <2>1, <2>2, <1>1, <1>5, <1>6 DEF Row
<1>8. PrivateOf(z) = {}
  BY <1>5, <1>6 DEF PrivateOf, PagesOf
<1>9. PageInv(d, pw)
  <2>1. PageInv(d, pv)
    BY <1>3, <1>4, SamePages
  <2>2. DOMAIN pv = Holders /\ DOMAIN pw = Holders \cup {r} /\ pw[r] = {}
    BY <1>8 DEF pv, PrivateIn, z
  <2>3. \A x \in Holders : pw[x] = pv[x]
    BY DEF PrivateIn, pv, OnlyRow
  <2>. HIDE DEF pw
  <2>. QED
    BY <2>1, <2>2, <2>3, PagelessHolder
<1>10. ASSUME NEW x \in Holders \cup {r} PROVE Row(d, ct, x, rq2[x])
  <2>1. CASE x = r
    BY <2>1, <1>7 DEF z
  <2>2. CASE x # r
    <3>1. rq2[x] = req[x] /\ Row(cache, ct, x, req[x])
      BY <2>2 DEF OnlyRow, MemInv
    <3>. QED
      BY <3>1, <1>3, SamePages
  <2>. QED
    BY <2>1, <2>2
<1>11. Faithful(d, ct)
  BY <1>3, <1>4 DEF Faithful
<1>. QED
  BY <1>5, <1>9, <1>10, <1>11 DEF MemInv, d, z, N

---------------------------------------------------------------------------
(* Allocation and writing. *)

\* The row of r without what its pages hold.
Shaped(c, r, q) ==
  /\ q.prot \in Nat /\ q.prot % PageSize = 0 /\ q.node = Ids(r, q.prot)
  /\ q.pages \in Seq(Pages) /\ PageCount(q.prot) <= Len(q.pages)
  /\ \A i \in 1 .. PageCount(q.prot) : Ids(r, i * PageSize) \in DOMAIN c.kv /\ c.kv[Ids(r, i * PageSize)] = q.pages[i]
  /\ Different(q, PageCount(q.prot), Len(q.pages))

\* The private pages of a row hold its first n tokens.
Filled(ct, r, q, n) == \A i \in (PageCount(q.prot) + 1) .. Len(q.pages) : ct[q.pages[i]] = Upto(r, i, n)

\* The two parts of a row.
LEMMA RowParts ==
    ASSUME NEW c, NEW ct, NEW r, NEW q
    PROVE  Row(c, ct, r, q) <=> /\ Shaped(c, r, q) /\ Filled(ct, r, q, Have(q))
                                /\ q.prefix \in Nat /\ q.kv \in Nat /\ q.prot <= q.prefix
<1>1. ASSUME Row(c, ct, r, q) PROVE Shaped(c, r, q)
  BY <1>1 DEF Row, Shaped, Different
<1>2. ASSUME Row(c, ct, r, q) PROVE Filled(ct, r, q, Have(q))
  BY <1>2 DEF Row, Filled
<1>3. ASSUME Row(c, ct, r, q) PROVE q.prefix \in Nat /\ q.kv \in Nat /\ q.prot <= q.prefix
  BY <1>3 DEF Row
<1>4. ASSUME Shaped(c, r, q), Filled(ct, r, q, Have(q)), q.prefix \in Nat, q.kv \in Nat, q.prot <= q.prefix
      PROVE  Row(c, ct, r, q)
  BY <1>4 DEF Row, Shaped, Filled, Different
<1>. QED
  BY <1>1, <1>2, <1>3, <1>4

\* The pages of the members of H, without what they hold.
Pool(c, rq, H) == PageInv(c, PrivateIn(rq, H)) /\ \A x \in H : Shaped(c, x, rq[x])

\* A pool of rows.
LEMMA MemPool ==
    ASSUME NEW c, NEW ct, NEW rq, NEW H, MemInv(c, ct, rq, H)
    PROVE  Pool(c, rq, H)
  BY RowParts DEF MemInv, Pool

\* The prefixes of the node of a row.
LEMMA ShapedPrefix ==
    ASSUME NEW c, NEW r \in Reqs, NEW q, Shaped(c, r, q), NEW i \in 1 .. PageCount(q.prot)
    PROVE  IsPrefix(Ids(r, i * PageSize), q.node)
<1>. DEFINE A == PageCount(q.prot)
            P == PageSize
<1>1. q.prot \in Nat /\ q.prot % PageSize = 0 /\ q.node = Ids(r, q.prot)
  BY DEF Shaped
<1>2. A \in Nat /\ q.prot = A * P /\ P \in Nat \ {0} /\ i \in 1 .. A
  BY <1>1, PagedLen, PageSizeAssumption
<1>. HIDE DEF A, P
<1>3. i * P \in Nat /\ i * P = P * i /\ A * P = P * A /\ i \in Int /\ i <= A
  BY <1>2
<1>4. P * i <= P * A
  BY <1>2, <1>3, TimesOrder
<1>5. i * PageSize \in Nat /\ i * PageSize <= q.prot
  BY <1>2, <1>3, <1>4 DEF P
<1>. QED
  BY <1>1, <1>5, IdsPrefix

\* Eviction.
LEMMA EvictPool ==
    ASSUME NEW c, NEW rq, NEW H \in SUBSET Reqs, Pool(c, rq, H), NEW nd, DOMAIN nd = H,
           \A x \in H : nd[x] = rq[x].node, CacheInv(c, nd, Toks), NEW n, NEW e \in EvictFromTreeCache(c, n)
    PROVE  Pool(e, rq, H) /\ Shrinks(c, e)
<1>. DEFINE pv == PrivateIn(rq, H)
<1>1. PageInv(c, pv)
  BY DEF Pool
<1>. HIDE DEF pv
<1>2. PageInv(e, pv) /\ KeepsHeld(c, e, nd) /\ Shrinks(c, e)
  BY <1>1, EvictPages
<1>3. ASSUME NEW x \in H PROVE Shaped(e, x, rq[x])
  <2>. DEFINE ct == [p \in Pages |-> << >>]
              q == rq[x]
  <2>1. Shaped(c, x, q) /\ x \in Reqs
    BY DEF Pool
  <2>2. ASSUME NEW i \in 1 .. PageCount(q.prot)
        PROVE  Ids(x, i * PageSize) \in DOMAIN e.kv /\ e.kv[Ids(x, i * PageSize)] = q.pages[i]
    <3>1. Ids(x, i * PageSize) \in DOMAIN c.kv /\ c.kv[Ids(x, i * PageSize)] = q.pages[i]
      BY <2>1 DEF Shaped
    <3>2. IsPrefix(Ids(x, i * PageSize), q.node)
      BY <2>1, ShapedPrefix
    <3>3. nd[x] = q.node /\ x \in DOMAIN nd
      OBVIOUS
    <3>. QED
      BY <3>1, <3>2, <3>3, <1>2 DEF KeepsHeld
  <2>. QED
    BY <2>1, <2>2 DEF Shaped
<1>. QED
  BY <1>2, <1>3 DEF Pool, pv

\* The pages x are different and not among those of row q from page A on.
NewTo(x, q, A) == /\ \A i, j \in 1 .. Len(x) : x[i] = x[j] => i = j
                  /\ \A i \in 1 .. Len(x) : x[i] \notin PagesOf(q, A, Len(q.pages))

\* Row q2 is q with the pages x.
Lengthened(q, q2, x, A) ==
  /\ q2.pages \in Seq(Pages) /\ Len(q2.pages) = Len(q.pages) + Len(x) /\ Len(q.pages) \in Nat /\ Len(x) \in Nat
  /\ \A i \in 1 .. Len(q.pages) : q2.pages[i] = q.pages[i]
  /\ Different(q2, A, Len(q2.pages))
  /\ PagesOf(q2, A, Len(q2.pages)) = PagesOf(q, A, Len(q.pages)) \cup {x[i] : i \in 1 .. Len(x)}

\* A row gets the pages x, which are nobody's.
LEMMA ExtendedRow ==
    ASSUME NEW q, NEW q2, NEW x \in Seq(Pages), q.pages \in Seq(Pages), NEW A \in Nat, A <= Len(q.pages),
           q2.pages = q.pages \o x, Different(q, A, Len(q.pages)), NewTo(x, q, A)
    PROVE  Lengthened(q, q2, x, A)
<1>. DEFINE L == Len(q.pages)
            M == Len(x)
            w == q2.pages
<1>0. /\ \A i, j \in 1 .. Len(x) : x[i] = x[j] => i = j
      /\ \A i \in 1 .. Len(x) : x[i] \notin PagesOf(q, A, Len(q.pages))
  BY DEF NewTo
<1>. USE <1>0
<1>1. /\ w \in Seq(Pages) /\ L \in Nat /\ M \in Nat /\ Len(w) = L + M
      /\ (\A k \in 1 .. L : w[k] = q.pages[k]) /\ \A k \in 1 .. M : w[L + k] = x[k]
  <2>1. PICK v : v = q.pages
    OBVIOUS
  <2>2. v \in Seq(Pages) /\ q2.pages = v \o x
    BY <2>1
  <2>3. /\ v \o x \in Seq(Pages) /\ Len(v) \in Nat /\ Len(x) \in Nat /\ Len(v \o x) = Len(v) + Len(x)
        /\ (\A k \in 1 .. Len(v) : (v \o x)[k] = v[k]) /\ \A k \in 1 .. Len(x) : (v \o x)[Len(v) + k] = x[k]
    BY <2>2, ConcatAt
  <2>4. w = v \o x /\ L = Len(v)
    BY <2>1, <2>2
  <2>. HIDE DEF w, L
  <2>. QED
    BY <2>1, <2>3, <2>4
<1>. DEFINE S == PagesOf(q, A, L)
<1>2. /\ \A i \in (A + 1) .. L : q.pages[i] \in S
      /\ \A i, j \in (A + 1) .. L : q.pages[i] = q.pages[j] => i = j
      /\ \A p \in S : \E i \in (A + 1) .. L : q.pages[i] = p
  BY DEF PagesOf, Different
<1>3. A <= L /\ \A i \in 1 .. M : x[i] \notin S
  OBVIOUS
<1>. HIDE DEF S, L, M, w
<1>4. ASSUME NEW i \in (A + 1) .. (L + M)
      PROVE  \/ i \in (A + 1) .. L /\ w[i] = q.pages[i]
             \/ i - L \in 1 .. M /\ w[i] = x[i - L] /\ i = L + (i - L)
  <2>1. CASE i <= L
    BY <2>1, <1>1
  <2>2. CASE i > L
    <3>1. i - L \in 1 .. M /\ L + (i - L) = i
      BY <2>2, <1>1, <1>3
    <3>2. w[L + (i - L)] = x[i - L]
      BY <3>1, <1>1
    <3>. QED
      BY <3>1, <3>2
  <2>. QED
    BY <2>1, <2>2, <1>1
<1>5. ASSUME NEW i \in (A + 1) .. (L + M), NEW j \in (A + 1) .. (L + M), w[i] = w[j] PROVE i = j
  <2>1. CASE i \in (A + 1) .. L /\ w[i] = q.pages[i]
    <3>1. w[j] \in S
      BY <2>1, <1>2, <1>5
    <3>2. j \in (A + 1) .. L /\ w[j] = q.pages[j]
      BY <3>1, <1>3, <1>4
    <3>. QED
      BY <2>1, <3>2, <1>2, <1>5
  <2>2. CASE i - L \in 1 .. M /\ w[i] = x[i - L] /\ i = L + (i - L)
    <3>1. w[j] \notin S
      BY <2>2, <1>3, <1>5
    <3>2. j - L \in 1 .. M /\ w[j] = x[j - L] /\ j = L + (j - L)
      BY <3>1, <1>2, <1>4
    <3>3. i - L = j - L
      BY <2>2, <3>2, <1>5 DEF M
    <3>. QED
      BY <2>2, <3>2, <3>3
  <2>. QED
    BY <2>1, <2>2, <1>4
<1>6. {w[i] : i \in (A + 1) .. (L + M)} = S \cup {x[i] : i \in 1 .. M}
  <2>1. ASSUME NEW i \in (A + 1) .. (L + M) PROVE w[i] \in S \/ \E k \in 1 .. M : w[i] = x[k]
    BY <1>2, <1>4
  <2>2. ASSUME NEW p \in S PROVE \E i \in (A + 1) .. (L + M) : w[i] = p
    <3>1. PICK i \in (A + 1) .. L : q.pages[i] = p
      BY <1>2
    <3>2. i \in (A + 1) .. (L + M) /\ i \in 1 .. L
      BY <1>1
    <3>. QED
      BY <3>1, <3>2, <1>1
  <2>3. ASSUME NEW k \in 1 .. M PROVE \E i \in (A + 1) .. (L + M) : w[i] = x[k]
    <3>1. L + k \in (A + 1) .. (L + M)
      BY <1>1, <1>3
    <3>. QED
      BY <3>1, <1>1
  <2>4. \A p \in {w[i] : i \in (A + 1) .. (L + M)} : p \in S \cup {x[k] : k \in 1 .. M}
    BY <2>1
  <2>5. \A p \in S \cup {x[k] : k \in 1 .. M} : p \in {w[i] : i \in (A + 1) .. (L + M)}
    <3>1. ASSUME NEW p \in S PROVE p \in {w[i] : i \in (A + 1) .. (L + M)}
      BY <2>2
    <3>2. ASSUME NEW k \in 1 .. M PROVE x[k] \in {w[i] : i \in (A + 1) .. (L + M)}
      BY <2>3
    <3>. QED
      BY <3>1, <3>2
  <2>. QED
    BY <2>4, <2>5
<1>7. PagesOf(q2, A, L + M) = {w[i] : i \in (A + 1) .. (L + M)}
  BY DEF PagesOf, w
<1>8. Different(q2, A, L + M)
  BY <1>5 DEF Different, w
<1>. QED
  BY <1>1, <1>6, <1>7, <1>8 DEF w, L, M, S, Lengthened

\* The rows rq2 are those of rq, with the pages that m gives to the members
\* of rs.
Served(rq, rq2, H, rs, m) ==
  \A r \in H : /\ rq2[r].prot = rq[r].prot /\ rq2[r].node = rq[r].node
               /\ rq2[r].pages = IF r \in ToSet(rs) THEN m.pages[r] ELSE rq[r].pages

\* The members of rs have the pages of the Req objects.
Unserved(rq, rs) == \A r \in ToSet(rs) : rq[r].pages = req[r].pages

\* The pages that a batch gets are added to the rows of its requests.
LEMMA AllotPool ==
    ASSUME NEW c, NEW rq, NEW H \in SUBSET Reqs, Pool(c, rq, H), NEW rs, ToSet(rs) \subseteq H, Unserved(rq, rs),
           NEW from, NEW to, NEW m, NEW x, Allotted(c, rs, from, to, m, x), NEW rq2, Served(rq, rq2, H, rs, m)
    PROVE  Pool(m.cache, rq2, H)
<1>. DEFINE S == ToSet(rs)
            y == [r \in H |-> IF r \in S THEN {x[r][i] : i \in 1 .. Len(x[r])} ELSE {}]
            pv == PrivateIn(rq, H)
            pw == PrivateIn(rq2, H)
<1>1. PageInv(c, pv) /\ DOMAIN pv = H /\ DOMAIN pw = H
  BY DEF Pool, PrivateIn
<1>2. /\ DOMAIN m.pages = S /\ m.cache.kv = c.kv
      /\ \A r \in S : /\ x[r] \in Seq(Pages) /\ m.pages[r] = req[r].pages \o x[r]
                      /\ \A i \in 1 .. Len(x[r]) : c.free[x[r][i]] = 1
                      /\ \A i, j \in 1 .. Len(x[r]) : x[r][i] = x[r][j] => i = j
      /\ \A r, s \in S : \A i \in 1 .. Len(x[r]), j \in 1 .. Len(x[s]) : x[r][i] = x[s][j] => r = s
  BY Zenon DEF Allotted
<1>3. PICK ps : /\ m.cache.free = [p \in Pages |-> IF p \in ps THEN c.free[p] - 1 ELSE c.free[p]]
                /\ \A p : p \in ps <=> \E r \in S : \E i \in 1 .. Len(x[r]) : x[r][i] = p
  BY Zenon DEF Allotted
<1>4. ASSUME NEW r \in H PROVE Shaped(m.cache, r, rq2[r]) /\ pw[r] = pv[r] \cup y[r]
  <2>. DEFINE q == rq[r]
              z == rq2[r]
              A == PageCount(q.prot)
  <2>1. Shaped(c, r, q) /\ pv[r] = PagesOf(q, A, Len(q.pages)) /\ z.prot = q.prot /\ z.node = q.node
    BY DEF Pool, PrivateIn, PrivateOf, Served
  <2>2. /\ q.prot \in Nat /\ q.prot % PageSize = 0 /\ q.node = Ids(r, q.prot) /\ q.pages \in Seq(Pages) /\ A <= Len(q.pages)
        /\ \A i \in 1 .. A : Ids(r, i * PageSize) \in DOMAIN c.kv /\ c.kv[Ids(r, i * PageSize)] = q.pages[i]
        /\ Different(q, A, Len(q.pages))
    BY <2>1 DEF Shaped
  <2>3. A \in Nat
    BY <2>2, PageBounds
  <2>4. pw[r] = PagesOf(z, A, Len(z.pages))
    BY <2>1 DEF PrivateIn, PrivateOf
  <2>5. CASE r \in S
    <3>1. z.pages = q.pages \o x[r] /\ x[r] \in Seq(Pages) /\ y[r] = {x[r][i] : i \in 1 .. Len(x[r])}
      BY <2>5, <1>2 DEF Served, Unserved
    <3>2. \A i, j \in 1 .. Len(x[r]) : x[r][i] = x[r][j] => i = j
      BY <2>5, <1>2
    <3>3. \A i \in 1 .. Len(x[r]) : x[r][i] \notin PagesOf(q, A, Len(q.pages))
      <4>1. SUFFICES ASSUME NEW i \in 1 .. Len(x[r]), x[r][i] \in pv[r] PROVE FALSE
        BY <2>1
      <4>2. c.free[x[r][i]] = 0
        BY <4>1, <1>1 DEF PageInv
      <4>3. c.free[x[r][i]] = 1
        BY <2>5, <1>2
      <4>. QED
        BY <4>2, <4>3
    <3>4. PICK v : v = x[r]
      OBVIOUS
    <3>a. NewTo(v, q, A) /\ v \in Seq(Pages) /\ z.pages = q.pages \o v
      BY <3>1, <3>2, <3>3, <3>4 DEF NewTo
    <3>. HIDE DEF q, z, A
    <3>5. /\ z.pages \in Seq(Pages) /\ Len(z.pages) = Len(q.pages) + Len(v) /\ Len(q.pages) \in Nat /\ Len(v) \in Nat
          /\ \A i \in 1 .. Len(q.pages) : z.pages[i] = q.pages[i]
          /\ Different(z, A, Len(z.pages))
          /\ PagesOf(z, A, Len(z.pages)) = PagesOf(q, A, Len(q.pages)) \cup {v[i] : i \in 1 .. Len(v)}
      <4>1. Lengthened(q, z, v, A)
        BY <2>2, <2>3, <3>a, ExtendedRow
      <4>. QED
        BY <4>1 DEF Lengthened
    <3>6. A <= Len(z.pages) /\ \A i \in 1 .. A : i \in 1 .. Len(q.pages)
      BY <2>2, <2>3, <3>5
    <3>7. \A i \in 1 .. A : Ids(r, i * PageSize) \in DOMAIN m.cache.kv /\ m.cache.kv[Ids(r, i * PageSize)] = z.pages[i]
      BY <1>2, <2>2, <3>5, <3>6
    <3>8. PageCount(z.prot) = A
      BY <2>1 DEF A
    <3>9. Shaped(m.cache, r, z)
      BY <2>1, <2>2, <3>5, <3>6, <3>7, <3>8 DEF Shaped
    <3>10. pw[r] = pv[r] \cup y[r]
      <4>1. y[r] = {v[i] : i \in 1 .. Len(v)}
        BY <3>1, <3>4
      <4>2. pw[r] = PagesOf(z, A, Len(z.pages)) /\ pv[r] = PagesOf(q, A, Len(q.pages))
        BY <2>1, <2>4
      <4>3. PagesOf(z, A, Len(z.pages)) = PagesOf(q, A, Len(q.pages)) \cup {v[i] : i \in 1 .. Len(v)}
        BY <3>5
      <4>. HIDE DEF pv, pw, y
      <4>. QED
        BY <4>1, <4>2, <4>3, Zenon
    <3>. QED
      BY <3>9, <3>10 DEF z
  <2>6. CASE r \notin S
    <3>1. z.pages = q.pages /\ y[r] = {}
      BY <2>6 DEF Served
    <3>2. PagesOf(z, A, Len(z.pages)) = PagesOf(q, A, Len(q.pages)) /\ Different(z, A, Len(z.pages))
      BY <2>2, <3>1 DEF PagesOf, Different
    <3>3. Shaped(m.cache, r, z)
      BY <2>1, <2>2, <3>1, <3>2, <1>2 DEF Shaped
    <3>. QED
      BY <2>1, <2>4, <3>1, <3>2, <3>3
  <2>. QED
    BY <2>5, <2>6
<1>5. ASSUME NEW r \in H, NEW p PROVE p \in y[r] <=> r \in S /\ \E i \in 1 .. Len(x[r]) : x[r][i] = p
  BY DEF S
<1>. HIDE DEF y, pv, pw, S
<1>6. \A p \in ps : p \in Pages /\ c.free[p] = 1
  <2>1. SUFFICES ASSUME NEW p \in ps PROVE p \in Pages /\ c.free[p] = 1
    OBVIOUS
  <2>2. PICK r \in S : \E i \in 1 .. Len(x[r]) : x[r][i] = p
    BY <1>3
  <2>3. PICK i \in 1 .. Len(x[r]) : x[r][i] = p
    BY <2>2
  <2>4. x[r] \in Seq(Pages) /\ c.free[x[r][i]] = 1
    BY <1>2
  <2>5. x[r][i] \in Pages
    BY <2>4
  <2>. QED
    BY <2>3, <2>4, <2>5
<1>7. \A r \in H : pw[r] = pv[r] \cup y[r] /\ y[r] \subseteq ps
  BY <1>3, <1>4, <1>5
<1>8. \A r, s \in H : \A p \in y[r] : p \in y[s] => r = s
  BY <1>2, <1>5
<1>9. S \subseteq H
  BY DEF S
<1>10. \A p \in ps : \E r \in H : p \in y[r]
  BY <1>3, <1>5, <1>9
<1>11. PageInv(m.cache, pw)
  <2>1. PICK d : d = m.cache
    OBVIOUS
  <2>2. d.kv = c.kv /\ d.free = [p \in Pages |-> IF p \in ps THEN c.free[p] - 1 ELSE c.free[p]]
    BY <2>1, <1>2, <1>3
  <2>3. Dealt(c, pv, pw, y, ps)
    BY <1>1, <1>6, <1>7, <1>8, <1>10 DEF Dealt
  <2>4. PageInv(d, pw)
    BY <2>2, <2>3, <1>1, TakenPages
  <2>. QED
    BY <2>1, <2>4
<1>. QED
  BY <1>4, <1>11 DEF Pool, pw

\* The pages of the row of r, among pages, that are p and that a pass writes.
HitsOf(from, to, pages, p, r) ==
  {i \in 1 .. Len(pages[r]) : pages[r][i] = p /\ i * PageSize > from[r] /\ (i - 1) * PageSize < to[r]}

\* What a page holds after a pass.
LEMMA WrittenAt ==
    ASSUME NEW from, NEW to, NEW pages, NEW p \in Pages
    PROVE  /\ (\A r \in DOMAIN pages : HitsOf(from, to, pages, p, r) = {}) => Written(from, to, pages)[p] = content[p]
           /\ \A r \in DOMAIN pages : \A i \in HitsOf(from, to, pages, p, r) :
                /\ \A x \in DOMAIN pages : HitsOf(from, to, pages, p, x) # {} => x = r
                /\ \A j \in HitsOf(from, to, pages, p, r) : j = i
                => Written(from, to, pages)[p] = Ids(r, Min({i * PageSize, to[r]}))
<1>. DEFINE Hits(r) == HitsOf(from, to, pages, p, r)
            writers == {r \in DOMAIN pages : Hits(r) # {}}
            w == CHOOSE x \in writers : TRUE
            h == CHOOSE x \in Hits(w) : TRUE
<1>1. Written(from, to, pages)[p] = IF writers = {} THEN content[p] ELSE Ids(w, Min({h * PageSize, to[w]}))
  BY DEF Written, HitsOf
<1>. HIDE DEF Hits
<1>2. ASSUME \A r \in DOMAIN pages : Hits(r) = {} PROVE writers = {}
  BY <1>2
<1>3. ASSUME NEW r \in DOMAIN pages, NEW i \in Hits(r), \A x \in DOMAIN pages : Hits(x) # {} => x = r,
             \A j \in Hits(r) : j = i
      PROVE  writers # {} /\ w = r /\ h = i
  <2>1. Hits(r) # {} /\ r \in writers
    OBVIOUS
  <2>2. w \in writers
    BY <2>1
  <2>3. w = r
    BY <2>2, <1>3
  <2>. HIDE DEF w
  <2>4. h \in Hits(r)
    BY <2>1, <2>3
  <2>. QED
    BY <2>1, <2>3, <2>4, <1>3
<1>. QED
  BY <1>1, <1>2, <1>3 DEF Hits

\* A pass may write: the rows of the requests in pages reach from[r], and
\* have no more than the pages for to[r].
Writes(rq, from, to, pages) ==
  \A r \in DOMAIN pages :
    /\ pages[r] = rq[r].pages /\ from[r] \in Nat /\ to[r] \in Nat /\ rq[r].prot <= from[r] /\ from[r] <= to[r]
    /\ Len(pages[r]) <= PageCount(to[r])
    /\ \A i \in (PageCount(rq[r].prot) + 1) .. Len(pages[r]) : i * PageSize <= from[r] => content[pages[r][i]] = Ids(r, i * PageSize)

\* What a pass writes is private.
LEMMA HitPrivate ==
    ASSUME NEW c, NEW rq, NEW H \in SUBSET Reqs, Pool(c, rq, H), NEW from, NEW to, NEW pages, DOMAIN pages \subseteq H,
           Writes(rq, from, to, pages), NEW r \in DOMAIN pages, NEW p, NEW i \in HitsOf(from, to, pages, p, r)
    PROVE  /\ i \in (PageCount(rq[r].prot) + 1) .. Len(rq[r].pages) /\ rq[r].pages[i] = p
           /\ p \in PrivateIn(rq, H)[r]
<1>. DEFINE A == PageCount(rq[r].prot)
            P == PageSize
            L == Len(rq[r].pages)
<1>1. /\ pages[r] = rq[r].pages /\ from[r] \in Nat /\ rq[r].prot <= from[r] /\ r \in H
      /\ rq[r].prot \in Nat /\ rq[r].prot % PageSize = 0 /\ L \in Nat
  BY DEF Writes, Pool, Shaped
<1>2. A \in Nat /\ rq[r].prot = A * P /\ P \in Nat \ {0}
  BY <1>1, PagedLen, PageSizeAssumption
<1>3. i \in 1 .. L /\ i * P > from[r] /\ rq[r].pages[i] = p
  BY <1>1 DEF HitsOf
<1>. HIDE DEF A, P, L
<1>4. i * P = P * i /\ A * P = P * A /\ i \in Int /\ A \in Int /\ P * i \in Int /\ P * A \in Int
  BY <1>2, <1>3, <1>1
<1>5. ~(P * i <= P * A)
  BY <1>1, <1>2, <1>3, <1>4
<1>6. ~(i <= A)
  BY <1>2, <1>4, <1>5, TimesOrder
<1>7. i \in (A + 1) .. L
  BY <1>1, <1>3, <1>4, <1>6
<1>8. p \in PagesOf(rq[r], A, L)
  BY <1>3, <1>7 DEF PagesOf
<1>. QED
  BY <1>1, <1>3, <1>7, <1>8 DEF A, L, PrivateIn, PrivateOf

\* A page that is to be written, or holds whole tokens of before.
LEMMA HitOrOld ==
    ASSUME NEW i \in Nat \ {0}, NEW a \in Nat, NEW b \in Nat, a <= b, i <= PageCount(b)
    PROVE  /\ i * PageSize \in Nat /\ (i * PageSize <= a \/ (i * PageSize > a /\ (i - 1) * PageSize < b))
<1>1. i - 1 \in Int /\ i \in Int /\ PageCount(b) \in Nat
  BY PageBounds
<1>2. (i - 1) * PageSize \in Int /\ ((i - 1) * PageSize >= b <=> i - 1 >= PageCount(b))
  <2>1. PICK j \in Int : j = i - 1
    BY <1>1
  <2>2. j * PageSize \in Int /\ (j * PageSize >= b <=> j >= PageCount(b))
    BY PageBounds
  <2>. QED
    BY <2>1, <2>2
<1>3. ~(i - 1 >= PageCount(b))
  BY <1>1
<1>4. i * PageSize \in Nat
  BY PageSizeAssumption
<1>. QED
  BY <1>2, <1>3, <1>4

\* The rows and the cache after a pass: what it writes is in nobody else's
\* pages.
LEMMA WrittenMem ==
    ASSUME NEW c, NEW rq, NEW H \in SUBSET Reqs, Pool(c, rq, H), Faithful(c, content), NEW from, NEW to,
           NEW pages, DOMAIN pages \subseteq H, Writes(rq, from, to, pages)
    PROVE  LET ct == Written(from, to, pages)
           IN  /\ Faithful(c, ct)
               /\ \A r \in DOMAIN pages : Filled(ct, r, rq[r], to[r])
               /\ \A r \in H : r \notin DOMAIN pages =>
                    \A n : Filled(content, r, rq[r], n) => Filled(ct, r, rq[r], n)
<1>. DEFINE ct == Written(from, to, pages)
            pv == PrivateIn(rq, H)
            Hits(p, r) == HitsOf(from, to, pages, p, r)
<1>1. PageInv(c, pv) /\ DOMAIN pv = H
  BY DEF Pool, PrivateIn
<1>2. \A r \in DOMAIN pages : \A p : \A i \in Hits(p, r) :
        i \in (PageCount(rq[r].prot) + 1) .. Len(rq[r].pages) /\ rq[r].pages[i] = p /\ p \in pv[r]
  BY HitPrivate
<1>3. \A p \in Pages :
        /\ (\A r \in DOMAIN pages : Hits(p, r) = {}) => ct[p] = content[p]
        /\ \A r \in DOMAIN pages : \A i \in Hits(p, r) :
                /\ \A x \in DOMAIN pages : Hits(p, x) # {} => x = r
                /\ \A j \in Hits(p, r) : j = i
                => ct[p] = Ids(r, Min({i * PageSize, to[r]}))
  BY WrittenAt
<1>4. ASSUME NEW r \in H, NEW i \in (PageCount(rq[r].prot) + 1) .. Len(rq[r].pages)
      PROVE  rq[r].pages[i] \in pv[r] /\ rq[r].pages[i] \in Pages
  <2>1. rq[r].pages[i] \in pv[r]
    BY DEF PrivateIn, PrivateOf, PagesOf
  <2>. HIDE DEF pv
  <2>. QED
    BY <2>1, <1>1 DEF PageInv
<1>. HIDE DEF pv, Hits, ct
<1>5. Faithful(c, ct)
  <2>1. SUFFICES ASSUME NEW k \in DOMAIN c.kv PROVE ct[c.kv[k]] = k
    BY DEF Faithful
  <2>2. c.kv[k] \in Pages /\ \A r \in H : c.kv[k] \notin pv[r]
    BY <1>1 DEF PageInv
  <2>3. \A r \in DOMAIN pages : Hits(c.kv[k], r) = {}
    BY <2>2, <1>2
  <2>4. ct[c.kv[k]] = content[c.kv[k]]
    BY <2>2, <2>3, <1>3
  <2>. QED
    BY <2>4 DEF Faithful
<1>6. ASSUME NEW r \in H, NEW i \in (PageCount(rq[r].prot) + 1) .. Len(rq[r].pages)
      PROVE  /\ \A x \in DOMAIN pages : Hits(rq[r].pages[i], x) # {} => x = r
             /\ r \in DOMAIN pages => \A j \in Hits(rq[r].pages[i], r) : j = i
  <2>. DEFINE p == rq[r].pages[i]
  <2>1. p \in pv[r]
    BY <1>4
  <2>. HIDE DEF p
  <2>2. ASSUME NEW x \in DOMAIN pages, Hits(p, x) # {} PROVE x = r
    <3>1. p \in pv[x] /\ x \in H
      BY <2>2, <1>2
    <3>. QED
      BY <2>1, <3>1, <1>1 DEF PageInv
  <2>3. ASSUME r \in DOMAIN pages, NEW j \in Hits(p, r) PROVE j = i
    <3>1. j \in (PageCount(rq[r].prot) + 1) .. Len(rq[r].pages) /\ rq[r].pages[j] = rq[r].pages[i]
      BY <2>3, <1>2 DEF p
    <3>2. Different(rq[r], PageCount(rq[r].prot), Len(rq[r].pages))
      BY DEF Pool, Shaped
    <3>. QED
      BY <3>1, <3>2 DEF Different
  <2>. QED
    BY <2>2, <2>3 DEF p
<1>7. ASSUME NEW r \in DOMAIN pages, NEW i \in (PageCount(rq[r].prot) + 1) .. Len(rq[r].pages)
      PROVE  ct[rq[r].pages[i]] = Upto(r, i, to[r])
  <2>. DEFINE p == rq[r].pages[i]
              a == from[r]
              b == to[r]
  <2>1. /\ pages[r] = rq[r].pages /\ a \in Nat /\ b \in Nat /\ a <= b /\ Len(pages[r]) <= PageCount(b)
        /\ (i * PageSize <= a => content[p] = Ids(r, i * PageSize)) /\ r \in H
    BY DEF Writes
  <2>2. rq[r].prot \in Nat /\ rq[r].pages \in Seq(Pages)
    BY <2>1 DEF Pool, Shaped
  <2>3. PageCount(rq[r].prot) \in Nat
    BY <2>2, PageBounds
  <2>4. i \in Nat \ {0} /\ i <= Len(pages[r]) /\ i \in 1 .. Len(pages[r])
    BY <2>1, <2>2, <2>3
  <2>5. PageCount(b) \in Nat
    BY <2>1, PageBounds
  <2>6. i <= PageCount(b)
    BY <2>1, <2>2, <2>4, <2>5
  <2>7. i * PageSize \in Nat /\ (i * PageSize <= a \/ (i * PageSize > a /\ (i - 1) * PageSize < b))
    BY <2>1, <2>4, <2>6, HitOrOld
  <2>8. p \in Pages /\ (\A x \in DOMAIN pages : Hits(p, x) # {} => x = r) /\ \A j \in Hits(p, r) : j = i
    BY <1>4, <1>6, <2>1
  <2>9. i \in Hits(p, r) <=> (i * PageSize > a /\ (i - 1) * PageSize < b)
    BY <2>1, <2>4 DEF Hits, HitsOf
  <2>10. CASE i \in Hits(p, r)
    <3>1. ct[p] = Ids(r, Min({i * PageSize, b}))
      BY <2>10, <2>8, <1>3
    <3>2. Min({i * PageSize, b}) = IF i * PageSize <= b THEN i * PageSize ELSE b
      BY <2>1, <2>7, MinOf
    <3>. QED
      BY <3>1, <3>2 DEF Upto
  <2>11. CASE i \notin Hits(p, r)
    <3>1. i * PageSize <= a
      BY <2>11, <2>7, <2>9
    <3>2. \A x \in DOMAIN pages : Hits(p, x) = {}
      BY <2>8, <2>11
    <3>3. ct[p] = content[p]
      BY <2>8, <3>2, <1>3
    <3>4. i * PageSize <= b
      BY <3>1, <2>1, <2>7
    <3>. QED
      BY <3>1, <3>3, <3>4, <2>1 DEF Upto
  <2>. QED
    BY <2>10, <2>11
<1>8. ASSUME NEW r \in H, r \notin DOMAIN pages, NEW n, Filled(content, r, rq[r], n) PROVE Filled(ct, r, rq[r], n)
  <2>1. SUFFICES ASSUME NEW i \in (PageCount(rq[r].prot) + 1) .. Len(rq[r].pages)
                 PROVE  ct[rq[r].pages[i]] = Upto(r, i, n)
    BY DEF Filled
  <2>2. \A x \in DOMAIN pages : Hits(rq[r].pages[i], x) = {}
    BY <1>6, <1>8
  <2>3. ct[rq[r].pages[i]] = content[rq[r].pages[i]]
    BY <2>2, <1>3, <1>4
  <2>. QED
    BY <2>3, <1>8 DEF Filled
<1>9. \A r \in DOMAIN pages : Filled(ct, r, rq[r], to[r])
  BY <1>7 DEF Filled
<1>. QED
  BY <1>5, <1>8, <1>9 DEF ct

---------------------------------------------------------------------------
(* Lengths. *)

\* The i-th pass in flight will add a token to r, or account for a chunk.
Due(i, r) == IF i \in DOMAIN results /\ r \in ToSet(results[i].reqs) /\ results[i].chunked # r THEN 1 ELSE 0
Chk(i, r) == IF i \in DOMAIN results /\ ChunkPending(i, r) THEN 1 ELSE 0
Dues(r) == Due(1, r) + Due(2, r)
Chks(r) == Chk(1, r) + Chk(2, r)

\* r is being added to a batch.
InBatch(r) == Admitting /\ r \in ToSet(adder.can)

\* A request that is being added: what was computed of it is its prefix.
Adding(r) ==
  /\ req[r].kv <= req[r].prefix /\ Dues(r) = 0
  /\ Len(req[r].pages) = PageCount(req[r].prefix)
  /\ IF r = chunked THEN req[r].fill < SeqLen(r) ELSE req[r].fill = SeqLen(r)

\* A request in a batch: the tokens with KV are all but the last, and those
\* that are in flight.
Batched(r) ==
  /\ req[r].fill <= req[r].kv /\ ~req[r].retracted
  /\ Len(req[r].pages) = PageCount(req[r].kv)
  /\ IF r = chunked THEN /\ req[r].kv = req[r].fill /\ req[r].fill < SeqLen(r) /\ Dues(r) = 0
                         /\ pc = "prefill" => req[r].prefix = req[r].fill
     ELSE req[r].kv = SeqLen(r) - 1 + Dues(r)

LenOf(r) ==
  /\ ~req[r].holds => req[r].kv = 0 /\ (~req[r].finished => req[r].chunks = 0)
  /\ req[r].holds => /\ req[r].prefix <= req[r].fill /\ req[r].chunks = Chks(r)
                     /\ IF InBatch(r) THEN Adding(r) ELSE Batched(r)

Lengths == \A r \in Reqs : LenOf(r)

\* The numbers that are in range also after a crash.
Counts ==
  /\ \A r \in Reqs : /\ req[r].out \in 0 .. MaxNew[r] /\ (~req[r].finished => req[r].out < MaxNew[r])
                     /\ req[r].chunks \in 0 .. 2
  /\ rows \in 0 .. MaxRunning /\ Len(results) <= 2

\* The inductive invariant of the lengths.
NInv == Counts /\ (pc # "crashed" => Lengths /\ Cardinality(Holders) <= MaxRunning)

\* What the lengths of r depend on.
SameLen(r) ==
  /\ req'[r].holds = req[r].holds /\ req'[r].finished = req[r].finished /\ req'[r].chunks = req[r].chunks
  /\ req'[r].kv = req[r].kv /\ req'[r].prefix = req[r].prefix /\ req'[r].fill = req[r].fill
  /\ req'[r].pages = req[r].pages /\ req'[r].retracted = req[r].retracted /\ req'[r].out = req[r].out

\* The passes in flight say the same about r.
SameDue(r) == Dues(r)' = Dues(r) /\ Chks(r)' = Chks(r)

\* Nothing happens to r.
LEMMA LenKept ==
    ASSUME NEW r \in Reqs, LenOf(r), SameLen(r), SameDue(r), req[r].holds => (InBatch(r)' <=> InBatch(r)),
           chunked' = r <=> chunked = r, pc' = "prefill" /\ chunked = r => req[r].prefix = req[r].fill
    PROVE  LenOf(r)'
<1>1. SeqLen(r)' = SeqLen(r)
  BY DEF SeqLen, SameLen
<1>2. CASE ~req[r].holds
  BY <1>2 DEF LenOf, SameLen
<1>3. CASE req[r].holds /\ InBatch(r)
  <2>1. Adding(r)'
    BY <1>1, <1>3 DEF LenOf, Adding, SameLen, SameDue
  <2>. QED
    BY <1>3, <2>1 DEF LenOf, SameLen, SameDue
<1>4. CASE req[r].holds /\ ~InBatch(r)
  <2>1. Batched(r)'
    BY <1>1, <1>4 DEF LenOf, Batched, SameLen, SameDue
  <2>. QED
    BY <1>4, <2>1 DEF LenOf, SameLen, SameDue
<1>. QED
  BY <1>2, <1>3, <1>4

\* A pass says at most one thing about a request.
LEMMA DueType ==
    ASSUME NEW r
    PROVE  /\ Due(1, r) \in {0, 1} /\ Due(2, r) \in {0, 1} /\ Chk(1, r) \in {0, 1} /\ Chk(2, r) \in {0, 1}
           /\ Dues(r) \in 0 .. 2 /\ Chks(r) \in 0 .. 2
<1>1. Due(1, r) \in {0, 1} /\ Due(2, r) \in {0, 1} /\ Chk(1, r) \in {0, 1} /\ Chk(2, r) \in {0, 1}
  BY DEF Due, Chk
<1>. QED
  BY <1>1 DEF Dues, Chks

\* Before a batch is run at most one pass is in flight.
LEMMA OnePass ==
    ASSUME SInv, pc \notin {"process", "crashed"}
    PROVE  /\ Len(results) \in {0, 1} /\ DOMAIN results = 1 .. Len(results) /\ 2 \notin DOMAIN results
           /\ \A r : Due(2, r) = 0 /\ Chk(2, r) = 0 /\ Dues(r) \in {0, 1} /\ Chks(r) \in {0, 1}
           /\ Len(results) = 1 => args.overlap /\ LeftOf(results[1], last)
<1>1. Len(results) = PendingLast /\ PendingLast \in {0, 1} /\ (PendingLast = 1 => args.overlap /\ LeftOf(results[1], last))
  <2>1. PendingCur = 0 /\ PendingLast \in {0, 1}
    BY DEF PendingCur, PendingLast
  <2>. QED
    BY <2>1 DEF SInv, InFlight, PendingLast
<1>2. DOMAIN results = 1 .. Len(results)
  BY DEF SInv, Types, LoopTypes
<1>3. 2 \notin DOMAIN results
  BY <1>1, <1>2
<1>4. ASSUME NEW r PROVE Due(2, r) = 0 /\ Chk(2, r) = 0 /\ Dues(r) \in {0, 1} /\ Chks(r) \in {0, 1}
  <2>1. Due(2, r) = 0 /\ Chk(2, r) = 0
    BY <1>3 DEF Due, Chk
  <2>2. Due(1, r) \in {0, 1} /\ Chk(1, r) \in {0, 1}
    BY DueType
  <2>. QED
    BY <2>1, <2>2 DEF Dues, Chks
<1>. QED
  BY <1>1, <1>2, <1>3, <1>4

\* No pass changes.
LEMMA PassesKept ==
    ASSUME results' = results, NEW r
    PROVE  SameDue(r)
  BY DEF SameDue, Dues, Chks, Due, Chk, ChunkPending

\* A batch is run.
LEMMA PassAdded ==
    ASSUME SInv, pc \notin {"process", "crashed"}, NEW b, Proper(b), results' = Append(results, b), NEW r
    PROVE  /\ Dues(r)' = Dues(r) + (IF r \in ToSet(b.reqs) /\ b.chunked # r THEN 1 ELSE 0)
           /\ Chks(r)' = Chks(r) + (IF r \in ToSet(b.reqs) /\ b.chunked = r THEN 1 ELSE 0)
           /\ Len(results') <= 2
<1>1. /\ Len(results) \in {0, 1} /\ DOMAIN results = 1 .. Len(results) /\ Due(2, r) = 0 /\ Chk(2, r) = 0
  BY OnePass
<1>2. /\ Len(results') = Len(results) + 1 /\ DOMAIN results' = 1 .. Len(results')
      /\ results'[Len(results) + 1] = b
      /\ \A i \in DOMAIN results : i \in DOMAIN results' /\ results'[i] = results[i]
  BY AddBatch
<1>. DEFINE D == IF r \in ToSet(b.reqs) /\ b.chunked # r THEN 1 ELSE 0
            C == IF r \in ToSet(b.reqs) /\ b.chunked = r THEN 1 ELSE 0
<1>3. CASE Len(results) = 0
  <2>1. DOMAIN results = {} /\ DOMAIN results' = {1} /\ results'[1] = b
    BY <1>1, <1>2, <1>3
  <2>2. Due(1, r) = 0 /\ Chk(1, r) = 0 /\ Due(1, r)' = D /\ Chk(1, r)' = C /\ Due(2, r)' = 0 /\ Chk(2, r)' = 0
    BY <2>1 DEF Due, Chk, ChunkPending
  <2>. HIDE DEF D, C
  <2>3. Dues(r) = 0 /\ Chks(r) = 0 /\ Dues(r)' = D + 0 /\ Chks(r)' = C + 0
    BY <1>1, <2>2 DEF Dues, Chks
  <2>. QED
    BY <1>2, <1>3, <2>3 DEF D, C
<1>4. CASE Len(results) = 1
  <2>1. DOMAIN results = {1} /\ DOMAIN results' = {1, 2} /\ results'[1] = results[1] /\ results'[2] = b
    BY <1>1, <1>2, <1>4
  <2>2. Due(1, r)' = Due(1, r) /\ Chk(1, r)' = Chk(1, r)
    BY <2>1 DEF Due, Chk, ChunkPending
  <2>3. Due(2, r)' = D /\ Chk(2, r)' = C
    BY <2>1 DEF Due, Chk, ChunkPending
  <2>4. Due(1, r) \in {0, 1} /\ Chk(1, r) \in {0, 1} /\ D \in {0, 1} /\ C \in {0, 1}
    BY DueType
  <2>. HIDE DEF D, C
  <2>5. Dues(r) = Due(1, r) /\ Chks(r) = Chk(1, r) /\ Dues(r)' = Due(1, r) + D /\ Chks(r)' = Chk(1, r) + C
    BY <1>1, <2>2, <2>3, <2>4 DEF Dues, Chks
  <2>. QED
    BY <1>2, <1>4, <2>5 DEF D, C
<1>. QED
  BY <1>1, <1>3, <1>4

\* The head of the first batch is processed.
LEMMA PassTrimmed ==
    ASSUME SInv, ProcessResult, NEW r, r = Head(results[1].reqs)
    PROVE  /\ \A x : x # r => SameDue(x)
           /\ Due(1, r)' = 0 /\ Chk(1, r)' = 0 /\ Due(2, r)' = Due(2, r) /\ Chk(2, r)' = Chk(2, r)
<1>1. /\ DOMAIN results' = DOMAIN results
      /\ \A i \in DOMAIN results : i # 1 => results'[i] = results[i]
      /\ results'[1].chunked = results[1].chunked
      /\ ToSet(results'[1].reqs) = ToSet(results[1].reqs) \ {r}
  BY ProcessTrim
<1>1a. /\ 2 \in DOMAIN results' <=> 2 \in DOMAIN results
       /\ 1 \in DOMAIN results' <=> 1 \in DOMAIN results
       /\ 2 \in DOMAIN results => results'[2] = results[2]
  BY <1>1
<1>2. ASSUME NEW x PROVE Due(2, x)' = Due(2, x) /\ Chk(2, x)' = Chk(2, x)
  <2>1. Due(2, x)' = Due(2, x)
    BY <1>1a DEF Due
  <2>2. Chk(2, x)' = Chk(2, x)
    BY <1>1a DEF Chk, ChunkPending
  <2>. QED
    BY <2>1, <2>2
<1>3. ASSUME NEW x, x # r PROVE Due(1, x)' = Due(1, x) /\ Chk(1, x)' = Chk(1, x)
  BY <1>1, <1>3 DEF Due, Chk, ChunkPending
<1>4. Due(1, r)' = 0 /\ Chk(1, r)' = 0
  <2>0. r \notin ToSet(results'[1].reqs)
    BY <1>1
  <2>1. Due(1, r)' = 0
    BY <2>0 DEF Due
  <2>2. Chk(1, r)' = 0
    BY <2>0 DEF Chk, ChunkPending
  <2>. QED
    BY <2>1, <2>2
<1>5. \A x : x # r => SameDue(x)
  BY <1>2, <1>3 DEF SameDue, Dues, Chks
<1>. QED
  BY <1>2, <1>4, <1>5

\* A batch whose results are all processed leaves.
LEMMA PassEnded ==
    ASSUME SInv, EndIteration, NEW r
    PROVE  SameDue(r) /\ Len(results') <= Len(results)
<1>1. PICK k \in {0, 1} : /\ Len(results') = Len(results) - k
                          /\ \A i \in DOMAIN results' : i + k \in DOMAIN results /\ results'[i] = results[i + k]
                          /\ k = 1 <=> Ready
                          /\ results' \in Seq(Batches)
  BY EndTrim
<1>2. /\ results \in Seq(Batches) /\ pc = "process" /\ DOMAIN results = 1 .. Len(results) /\ Len(results) \in 0 .. 2
      /\ DOMAIN results' = 1 .. Len(results')
  <2>1. pc = "process"
    BY DEF EndIteration
  <2>2. Len(results) = PendingLast + PendingCur /\ PendingLast \in {0, 1} /\ PendingCur \in {0, 1}
    BY <2>1 DEF SInv, InFlight, PendingLast, PendingCur
  <2>. QED
    BY <1>1, <2>1, <2>2 DEF SInv, Types, LoopTypes
<1>3. CASE k = 0
  <2>1. Len(results') = Len(results) /\ DOMAIN results' = DOMAIN results /\ \A i \in DOMAIN results' : results'[i] = results[i]
    BY <1>1, <1>2, <1>3
  <2>2. /\ Due(1, r)' = Due(1, r) /\ Due(2, r)' = Due(2, r) /\ Chk(1, r)' = Chk(1, r) /\ Chk(2, r)' = Chk(2, r)
    BY <2>1 DEF Due, Chk, ChunkPending
  <2>. QED
    BY <2>1, <2>2, <1>2 DEF SameDue, Dues, Chks
<1>4. CASE k = 1
  <2>1. results # << >> /\ Head(results).reqs = << >> /\ Head(results) = results[1]
    <3>1. Ready
      BY <1>1, <1>4
    <3>2. results # << >>
      BY <3>1 DEF Ready
    <3>3. Head(results).reqs = << >>
      BY <3>1 DEF EndIteration
    <3>4. Head(results) = results[1]
      BY <1>2, <3>2
    <3>. QED
      BY <3>2, <3>3, <3>4
  <2>2. ToSet(results[1].reqs) = {}
    BY <2>1, ShortLists
  <2>3. Due(1, r) = 0 /\ Chk(1, r) = 0
    BY <2>2 DEF Due, Chk, ChunkPending
  <2>4. 2 \notin DOMAIN results' /\ (1 \in DOMAIN results' <=> 2 \in DOMAIN results)
    BY <1>1, <1>2, <1>4
  <2>5. 1 \in DOMAIN results' => results'[1] = results[2]
    BY <1>1, <1>4
  <2>6. Due(1, r)' = Due(2, r) /\ Chk(1, r)' = Chk(2, r) /\ Due(2, r)' = 0 /\ Chk(2, r)' = 0
    BY <2>4, <2>5 DEF Due, Chk, ChunkPending
  <2>7. Due(2, r) \in {0, 1} /\ Chk(2, r) \in {0, 1}
    BY DueType
  <2>. QED
    BY <2>3, <2>6, <2>7, <1>1, <1>2, <1>4 DEF SameDue, Dues, Chks
<1>. QED
  BY <1>3, <1>4

\* A pause leaves nothing in flight.
LEMMA PassesPaused ==
    ASSUME SInv, PausesKeep, PauseRest, NEW r
    PROVE  SameDue(r) /\ Dues(r) = 0
<1>1. pc = "pause" /\ results' = << >>
  BY PauseRestMeaning
<1>2. Len(results) \in {0, 1} /\ DOMAIN results = 1 .. Len(results) /\ 2 \notin DOMAIN results
  BY <1>1, OnePass
<1>3. CASE Len(results) = 1
  <2>1. args.overlap /\ LeftOf(results[1], last) /\ last # NoBatch
    <3>1. args.overlap /\ LeftOf(results[1], last)
      BY <1>1, <1>3, OnePass
    <3>2. Len(results) = PendingLast + PendingCur /\ PendingCur = 0
      BY <1>1 DEF SInv, InFlight, PendingCur
    <3>. QED
      BY <3>1, <3>2, <1>3 DEF PendingLast
  <2>2. results # << >> /\ Head(results) = results[1]
    BY <1>3 DEF SInv, Types, LoopTypes
  <2>3. Ready
    BY <2>1, <2>2 DEF Ready
  <2>4. results[1].reqs = << >>
    BY <2>1, <2>2, <2>3 DEF PauseRest
  <2>5. ToSet(results[1].reqs) = {}
    BY <2>4, ShortLists
  <2>. QED
    BY <2>5, <1>1, <1>2 DEF SameDue, Dues, Chks, Due, Chk, ChunkPending
<1>4. CASE Len(results) = 0
  <2>1. 1 \notin DOMAIN results
    BY <1>2, <1>4
  <2>. QED
    BY <2>1, <1>1, <1>2 DEF SameDue, Dues, Chks, Due, Chk, ChunkPending
<1>. QED
  BY <1>2, <1>3, <1>4

---------------------------------------------------------------------------
(* The memory of the scheduler, step by step. *)

\* The inductive invariant of the memory, next to SInv and CInv.
MInv == MemInv(cache, content, req, Holders) /\ NInv

\* A list without repetitions has as many members as places.
LEMMA ListSize ==
    ASSUME NEW T, NEW s \in Seq(T)
    PROVE  /\ IsFiniteSet(ToSet(s)) /\ Cardinality(ToSet(s)) \in Nat /\ Len(s) \in Nat
           /\ Cardinality(ToSet(s)) <= Len(s)
           /\ IsInjective(s) => Cardinality(ToSet(s)) = Len(s)
<1>1. Len(s) \in Nat /\ DOMAIN s = 1 .. Len(s)
  OBVIOUS
<1>2. IsFiniteSet(1 .. Len(s)) /\ Cardinality(1 .. Len(s)) = Len(s)
  BY <1>1, FS_Interval
<1>3. ToSet(s) = {s[i] : i \in 1 .. Len(s)}
  BY <1>1 DEF ToSet
<1>4. s \in Surjection(1 .. Len(s), ToSet(s))
  <2>1. s \in [1 .. Len(s) -> ToSet(s)]
    BY <1>1, <1>3
  <2>. QED
    BY <2>1, <1>3 DEF Surjection
<1>5. IsFiniteSet(ToSet(s)) /\ Cardinality(ToSet(s)) <= Len(s)
      /\ (Cardinality(ToSet(s)) = Len(s) <=> s \in Injection(1 .. Len(s), ToSet(s)))
  BY <1>2, <1>4, FS_Surjection
<1>6. IsInjective(s) => s \in Injection(1 .. Len(s), ToSet(s))
  <2>1. s \in [1 .. Len(s) -> ToSet(s)]
    BY <1>1, <1>3
  <2>. QED
    BY <2>1, <1>1 DEF Injection, IsInjective
<1>. QED
  BY <1>1, <1>5, <1>6, FS_CardinalityType

\* The free rows are in their range as long as the holders are.
LEMMA RowsRange ==
    SInv /\ pc # "crashed" /\ Cardinality(Holders) <= MaxRunning => rows \in 0 .. MaxRunning
<1>. SUFFICES ASSUME SInv, pc # "crashed", Cardinality(Holders) <= MaxRunning PROVE rows \in 0 .. MaxRunning
  OBVIOUS
<1>1. /\ Placed /\ Held /\ Types /\ IsFiniteSet(Holders) /\ Cardinality(Holders) \in Nat /\ MaxRunning \in Nat
      /\ rows = MaxRunning - Cardinality(Holders) + Pledged
  BY FS_CardinalityType, ReqsAssumption DEF SInv, Held
<1>2. Pledged \in Nat /\ Pledged <= Cardinality(Holders)
  <2>1. CASE Admitting
    <3>1. /\ adder.can \in Seq(Reqs) /\ IsInjective(adder.can) /\ Pledged = Len(adder.can)
      BY <1>1, <2>1 DEF Types, QueueTypes, Pledged, Admitting
    <3>2. Len(adder.can) \in Nat /\ Cardinality(ToSet(adder.can)) = Len(adder.can)
      BY <3>1, ListSize
    <3>3. ToSet(adder.can) \subseteq Holders
      <4>1. ToSet(adder.can) \subseteq Reqs /\ Prefill = ToSet(adder.can)
        BY <1>1, <2>1, Members DEF Prefill, Admitting
      <4>2. \A x \in ToSet(adder.can) : req[x].holds
        BY <1>1, <2>1, <4>1 DEF Held, Placed
      <4>. QED
        BY <4>1, <4>2 DEF Holders
    <3>. QED
      BY <3>1, <3>2, <3>3, <1>1, FS_Subset
  <2>2. CASE pc = "prefill" /\ chunked # None
    <3>1. Pledged = 1
      BY <2>2 DEF Pledged
    <3>2. chunked \in Holders
      BY <1>1, <2>2 DEF Placed, Held, Holders, Types, LoopTypes
    <3>3. IsFiniteSet({chunked}) /\ Cardinality({chunked}) = 1
      BY FS_Singleton
    <3>4. Cardinality({chunked}) <= Cardinality(Holders)
      BY <3>2, <1>1, FS_Subset
    <3>. QED
      BY <3>1, <3>3, <3>4
  <2>3. CASE ~Admitting /\ ~(pc = "prefill" /\ chunked # None)
    <3>1. Pledged = 0
      BY <2>3 DEF Pledged
    <3>. QED
      BY <3>1, <1>1
  <2>. QED
    BY <2>1, <2>2, <2>3
<1>. QED
  BY <1>1, <1>2

\* The rows after a step, when the holders fit.
LEMMA RowsNext ==
    ASSUME SInv', pc' # "crashed", Cardinality(Holders') <= MaxRunning
    PROVE  rows' \in 0 .. MaxRunning
<1>1. (SInv /\ pc # "crashed" /\ Cardinality(Holders) <= MaxRunning => rows \in 0 .. MaxRunning)'
  BY RowsRange, PTL
<1>. QED
  BY <1>1

\* The rows of the holders stay as they are, and so does what the cache says
\* about them.
RowsStay == Holders' = Holders /\ \A x \in Holders : SameRow(req[x], req'[x])

\* The cache when nothing happens to it, or when something is evicted.
LEMMA MemStays ==
    ASSUME MInv, CInv, cache' = cache \/ \E n : cache' \in EvictFromTreeCache(cache, n)
    PROVE  MemInv(cache', content, req, Holders)
<1>1. MemInv(cache, content, req, Holders) /\ Holders \in SUBSET Reqs
  BY DEF MInv, Holders
<1>2. CacheInv(cache, [x \in Holders |-> req[x].node], Toks)
  BY DEF CInv, Nodes
<1>3. CASE cache' = cache
  BY <1>1, <1>3
<1>4. CASE \E n : cache' \in EvictFromTreeCache(cache, n)
  <2>1. PICK n : cache' \in EvictFromTreeCache(cache, n)
    BY <1>4
  <2>2. PICK e : e = cache'
    OBVIOUS
  <2>3. e \in EvictFromTreeCache(cache, n)
    BY <2>1, <2>2
  <2>4. MemInv(e, content, req, Holders)
    BY <1>1, <1>2, <2>3, EvictMem
  <2>. QED
    BY <2>2, <2>4
<1>. QED
  BY <1>3, <1>4

\* The memory when nothing happens to the rows.
LEMMA RowsStayMem ==
    ASSUME MemInv(cache', content, req, Holders), RowsStay, content' = content
    PROVE  MemInv(cache, content, req, Holders)'
<1>1. PICK c, rq : c = cache' /\ rq = req'
  OBVIOUS
<1>2. MemInv(c, content, req, Holders) /\ \A x \in Holders : SameRow(req[x], rq[x])
  BY <1>1 DEF RowsStay
<1>3. MemInv(c, content, rq, Holders)
  BY <1>2, SameRows
<1>. QED
  BY <1>1, <1>3 DEF RowsStay

\* Nothing happens to the lengths of the requests, nor to their rows.
Undisturbed ==
  /\ RowsStay /\ content' = content /\ chunked' = chunked
  /\ \A x \in Reqs : SameLen(x) /\ SameDue(x)
  /\ \A x \in Holders : (InBatch(x)' <=> InBatch(x))
  /\ pc' # "prefill" /\ rows' \in {rows, MaxRunning} /\ Len(results') <= 2

\* Such a step keeps the invariant.
LEMMA QuietMem ==
    ASSUME MInv, pc # "crashed", Undisturbed, MemInv(cache', content, req, Holders)
    PROVE  MInv'
<1>1. MemInv(cache, content, req, Holders)'
  BY RowsStayMem DEF Undisturbed
<1>2. Counts'
  <2>1. MaxRunning \in 0 .. MaxRunning
    BY ReqsAssumption
  <2>2. rows' \in 0 .. MaxRunning /\ Len(results') <= 2
    BY <2>1 DEF MInv, NInv, Counts, Undisturbed
  <2>3. ASSUME NEW x \in Reqs
        PROVE  /\ req'[x].out \in 0 .. MaxNew[x] /\ (~req'[x].finished => req'[x].out < MaxNew[x])
               /\ req'[x].chunks \in 0 .. 2
    BY DEF MInv, NInv, Counts, Undisturbed, SameLen
  <2>. QED
    BY <2>2, <2>3 DEF Counts
<1>3. Lengths'
  <2>1. SUFFICES ASSUME NEW x \in Reqs PROVE LenOf(x)'
    BY DEF Lengths
  <2>2. LenOf(x)
    BY DEF MInv, NInv, Lengths
  <2>3. req[x].holds => (InBatch(x)' <=> InBatch(x))
    BY DEF Undisturbed, Holders
  <2>. QED
    BY <2>2, <2>3, LenKept DEF Undisturbed
<1>4. Cardinality(Holders') <= MaxRunning
  BY DEF MInv, NInv, Undisturbed, RowsStay
<1>. QED
  BY <1>1, <1>2, <1>3, <1>4 DEF MInv, NInv

\* The passes in flight when nothing is run.
LEMMA ResultsBound ==
    ASSUME SInv, pc # "crashed"
    PROVE  Len(results) \in 0 .. 2 /\ Len(results) <= 2
<1>1. PendingLast \in {0, 1} /\ PendingCur \in {0, 1}
  BY DEF PendingLast, PendingCur
<1>. DEFINE n == Len(results)
<1>2. n \in 0 .. 2
  BY <1>1 DEF SInv, InFlight
<1>. HIDE DEF n
<1>3. n <= 2
  BY <1>2
<1>. QED
  BY <1>2, <1>3 DEF n

\* The requests are not touched.
LEMMA ReqsUntouched ==
    ASSUME req' = req
    PROVE  RowsStay /\ \A x \in Reqs : SameLen(x)
  BY DEF RowsStay, SameRow, SameLen, Holders

\* Messages change neither rows nor lengths.
LEMMA MessageMem ==
    ASSUME SInv, CInv, MInv, NEW r \in Reqs, Receive(r) \/ AbortRequest(r)
    PROVE  MInv'
<1>1. /\ pc = "start" /\ UNCHANGED <<cache, content, chunked, rows, results, pc, adder>>
      /\ \/ req' = [req EXCEPT ![r].sent = TRUE]
         \/ req' = [req EXCEPT ![r].answers = @ + 1]
         \/ req' = [req EXCEPT ![r].toFinish = TRUE]
  BY DEF Receive, AbortRequest, InputUnchanged
<1>2. ReqShape
  BY DEF SInv, Types, ReqTypes, ReqShape
<1>3. \A x \in Reqs : SameLen(x) /\ SameRow(req[x], req'[x])
  <2>1. CASE req' = [req EXCEPT ![r].sent = TRUE]
    BY <1>2, <2>1 DEF ReqShape, FreshReq, SameLen, SameRow
  <2>2. CASE req' = [req EXCEPT ![r].answers = @ + 1]
    BY <1>2, <2>2 DEF ReqShape, FreshReq, SameLen, SameRow
  <2>3. CASE req' = [req EXCEPT ![r].toFinish = TRUE]
    BY <1>2, <2>3 DEF ReqShape, FreshReq, SameLen, SameRow
  <2>. QED
    BY <1>1, <2>1, <2>2, <2>3
<1>4. RowsStay
  <2>1. Holders' = Holders
    BY <1>3 DEF Holders, SameLen
  <2>. QED
    BY <2>1, <1>3 DEF RowsStay, Holders
<1>5. Undisturbed
  <2>1. \A x \in Reqs : SameDue(x)
    BY <1>1, PassesKept
  <2>2. \A x \in Holders : (InBatch(x)' <=> InBatch(x))
    BY <1>1 DEF InBatch, Admitting
  <2>3. Len(results) <= 2
    BY <1>1, ResultsBound
  <2>. QED
    BY <1>1, <1>3, <1>4, <2>1, <2>2, <2>3 DEF Undisturbed
<1>6. MemInv(cache', content, req, Holders)
  BY <1>1, MemStays
<1>. QED
  BY <1>1, <1>5, <1>6, QuietMem

\* A step that touches no request, and takes nothing from the cache but what
\* can be evicted.
Looks == /\ UNCHANGED <<req, content, chunked, rows, results>> /\ pc' # "prefill" /\ pc # "crashed"
         /\ \A x \in Reqs : ~InBatch(x) /\ ~InBatch(x)'

\* Such a step keeps the invariant.
LEMMA LookMem ==
    ASSUME SInv, MInv, Looks, MemInv(cache', content, req, Holders)
    PROVE  MInv'
<1>1. RowsStay /\ \A x \in Reqs : SameLen(x)
  BY ReqsUntouched DEF Looks
<1>2. \A x \in Reqs : SameDue(x)
  BY PassesKept DEF Looks
<1>3. Len(results) <= 2
  BY ResultsBound DEF Looks
<1>4. \A x \in Holders : (InBatch(x)' <=> InBatch(x))
  BY DEF Looks, Holders
<1>5. Undisturbed
  BY <1>1, <1>2, <1>3, <1>4 DEF Undisturbed, Looks
<1>. QED
  BY <1>5, QuietMem DEF Looks

\* The steps that only look at the memory.
LEMMA LookersMem ==
    ASSUME SInv, CInv, MInv,
           \/ NoPrefill \/ Recheck \/ CheckDecodeMem \/ Continue \/ IdleCheck
           \/ \E mode \in args.pauses : Pause(mode)
    PROVE  MInv'
<1>1. CASE NoPrefill
  <2>1. /\ UNCHANGED <<req, content, chunked, rows, results, cache>> /\ pc = "batch" /\ pc' = "decode" /\ adder.can = << >>
    BY <1>1 DEF NoPrefill
  <2>2. \A x \in Reqs : ~InBatch(x) /\ ~InBatch(x)'
    BY <2>1, ShortLists DEF InBatch, Admitting
  <2>3. Looks
    BY <2>1, <2>2 DEF Looks
  <2>. QED
    BY <2>1, <2>3, MemStays, LookMem
<1>2. CASE Recheck
  <2>1. /\ UNCHANGED <<req, content, chunked, rows, results>> /\ pc = "recheck" /\ pc' \in {"forward", "retract"}
        /\ \E n : cache' \in EvictFromTreeCache(cache, n)
    BY <1>2 DEF Recheck
  <2>2. \A x \in Reqs : ~InBatch(x) /\ ~InBatch(x)'
    BY <2>1 DEF InBatch, Admitting
  <2>3. Looks
    BY <2>1, <2>2 DEF Looks
  <2>. QED
    BY <2>1, <2>3, MemStays, LookMem
<1>3. CASE CheckDecodeMem
  <2>1. /\ UNCHANGED <<req, content, chunked, rows, results>> /\ pc = "decode" /\ pc' \in {"process", "forward", "retract"}
        /\ cache' = cache \/ \E n : cache' \in EvictFromTreeCache(cache, n)
    BY <1>3 DEF CheckDecodeMem
  <2>2. \A x \in Reqs : ~InBatch(x) /\ ~InBatch(x)'
    BY <2>1 DEF InBatch, Admitting
  <2>3. Looks
    BY <2>1, <2>2 DEF Looks
  <2>. QED
    BY <2>1, <2>3, MemStays, LookMem
<1>4. CASE Continue \/ IdleCheck \/ \E mode \in args.pauses : Pause(mode)
  <2>1. /\ UNCHANGED <<req, content, chunked, rows, results, cache>> /\ pc = "start" /\ pc' \in {"start", "pause"}
    BY <1>4 DEF Continue, IdleCheck, Pause
  <2>2. \A x \in Reqs : ~InBatch(x) /\ ~InBatch(x)'
    BY <2>1 DEF InBatch, Admitting
  <2>3. Looks
    BY <2>1, <2>2 DEF Looks
  <2>. QED
    BY <2>1, <2>3, MemStays, LookMem
<1>. QED
  BY <1>1, <1>2, <1>3, <1>4

\* The end of an iteration, and the rest of a pause.
LEMMA EndMem ==
    ASSUME SInv, CInv, MInv, PausesKeep, EndIteration \/ PauseRest
    PROVE  MInv'
<1>1. /\ UNCHANGED <<req, content, chunked, rows, cache>> /\ pc \in {"process", "pause"} /\ pc' \in {"start", "retractall"}
      /\ Len(results') <= 2 /\ \A x \in Reqs : SameDue(x)
  <2>1. CASE EndIteration
    <3>1. UNCHANGED <<req, content, chunked, rows, cache>> /\ pc = "process" /\ pc' = "start"
      BY <2>1 DEF EndIteration
    <3>2. Len(results) \in 0 .. 2
      BY <3>1, ResultsBound
    <3>3. \A x \in Reqs : SameDue(x)
      BY <2>1, PassEnded
    <3>4. Len(results') <= 2
      <4>1. PICK k \in {0, 1} : Len(results') = Len(results) - k
        BY <2>1, EndTrim
      <4>. DEFINE n == Len(results)
                  m == Len(results')
      <4>2. n \in 0 .. 2 /\ m = n - k
        BY <3>2, <4>1
      <4>. HIDE DEF m, n
      <4>3. m <= 2
        BY <4>2
      <4>. QED
        BY <4>3 DEF m
    <3>. QED
      BY <3>1, <3>3, <3>4
  <2>2. CASE PauseRest
    <3>1. UNCHANGED <<req, rows, chunked>> /\ pc = "pause" /\ pc' \in {"start", "retractall"} /\ results' = << >>
      BY <2>2, PauseRestMeaning
    <3>2. UNCHANGED <<content, cache>>
      BY <2>2 DEF PauseRest
    <3>3. \A x \in Reqs : SameDue(x)
      BY <2>2, PassesPaused
    <3>. QED
      BY <3>1, <3>2, <3>3
  <2>. QED
    BY <2>1, <2>2
<1>2. RowsStay /\ \A x \in Reqs : SameLen(x)
  BY <1>1, ReqsUntouched
<1>3. \A x \in Holders : (InBatch(x)' <=> InBatch(x))
  BY <1>1 DEF InBatch, Admitting
<1>4. Undisturbed
  BY <1>1, <1>2, <1>3 DEF Undisturbed
<1>. QED
  BY <1>1, <1>4, MemStays, QuietMem

\* flush_cache resets the pools when no row is held.
LEMMA FlushMem ==
    ASSUME SInv, CInv, MInv, FlushCache
    PROVE  MInv'
<1>1. /\ pc = "start" /\ running = << >> /\ ReqsOf(cur) = << >> /\ cache' = EmptyCache /\ rows' = MaxRunning
      /\ UNCHANGED <<req, adder, content, chunked, results, pc>>
  BY DEF FlushCache
<1>2. ToSet(running) = {} /\ Prefill = {}
  BY <1>1, ShortLists DEF Prefill, ReqsOf
<1>3. Holders = {}
  <2>1. \A r \in Reqs : ~req[r].holds
    BY <1>1, <1>2 DEF SInv, Held
  <2>. QED
    BY <2>1, Zenon DEF Holders
<1>4. MemInv(EmptyCache, content, req, {})
  <2>1. DOMAIN EmptyCache.kv = {} /\ EmptyCache.free = [p \in Pages |-> 1]
    BY DEF EmptyCache
  <2>2. DOMAIN PrivateIn(req, {}) = {}
    BY DEF PrivateIn
  <2>3. EmptyCache.free \in [Pages -> 0 .. 1] /\ \A p \in Pages : EmptyCache.free[p] = 1
    BY <2>1
  <2>4. PageInv(EmptyCache, PrivateIn(req, {}))
    BY <2>1, <2>2, <2>3 DEF PageInv
  <2>5. Faithful(EmptyCache, content)
    BY <2>1 DEF Faithful
  <2>. QED
    BY <2>4, <2>5 DEF MemInv
<1>5. RowsStay /\ \A x \in Reqs : SameLen(x)
  BY <1>1, ReqsUntouched
<1>6. \A x \in Reqs : SameDue(x)
  BY <1>1, PassesKept
<1>7. Len(results) <= 2
  BY <1>1, ResultsBound
<1>8. Undisturbed
  BY <1>1, <1>3, <1>5, <1>6, <1>7 DEF Undisturbed
<1>. QED
  BY <1>1, <1>3, <1>4, <1>8, QuietMem

\* The engine starts with all pages free.
LEMMA InitMem == Init => MInv
<1>. SUFFICES ASSUME Init PROVE MInv
  OBVIOUS
<1>1. /\ cache = EmptyCache /\ req = [r \in Reqs |-> FreshReq] /\ results = << >> /\ rows = MaxRunning
  BY DEF Init
<1>2. Holders = {}
  BY <1>1 DEF Holders, FreshReq
<1>3. MemInv(cache, content, req, Holders)
  <2>1. DOMAIN EmptyCache.kv = {} /\ EmptyCache.free = [p \in Pages |-> 1]
    BY DEF EmptyCache
  <2>2. DOMAIN PrivateIn(req, {}) = {}
    BY DEF PrivateIn
  <2>3. EmptyCache.free \in [Pages -> 0 .. 1] /\ \A p \in Pages : EmptyCache.free[p] = 1
    BY <2>1
  <2>4. PageInv(EmptyCache, PrivateIn(req, {}))
    BY <2>1, <2>2, <2>3 DEF PageInv
  <2>5. Faithful(EmptyCache, content)
    BY <2>1 DEF Faithful
  <2>. QED
    BY <2>4, <2>5, <1>1, <1>2 DEF MemInv
<1>4. Counts
  <2>1. \A r \in Reqs : MaxNew[r] \in Nat \ {0}
    BY SizesAssumption
  <2>2. MaxRunning \in Nat
    BY ReqsAssumption
  <2>3. \A r \in Reqs : req[r].out = 0 /\ req[r].chunks = 0
    BY <1>1 DEF FreshReq
  <2>. QED
    BY <1>1, <2>1, <2>2, <2>3 DEF Counts
<1>5. Lengths
  BY <1>1 DEF Lengths, LenOf, FreshReq
<1>6. Cardinality(Holders) <= MaxRunning
  BY <1>2, FS_EmptySet, ReqsAssumption
<1>. QED
  BY <1>3, <1>4, <1>5, <1>6 DEF MInv, NInv

\* What is known of a holder.
LEMMA HolderFacts ==
    ASSUME CInv, MInv, pc # "crashed", NEW r \in Holders
    PROVE  /\ r \in Reqs /\ req[r].holds /\ Row(cache, content, r, req[r]) /\ LenOf(r)
           /\ req[r].prefix \in Nat /\ req[r].kv \in Nat /\ req[r].prot \in Nat /\ req[r].fill \in Nat
           /\ req[r].prefix <= req[r].fill /\ req[r].chunks = Chks(r)
           /\ InBatch(r) => Adding(r)
           /\ ~InBatch(r) => Batched(r) /\ Sized(req[r])
<1>1. r \in Reqs /\ req[r].holds
  BY DEF Holders
<1>2. Row(cache, content, r, req[r]) /\ LenOf(r)
  BY <1>1 DEF MInv, MemInv, NInv, Lengths
<1>3. req[r].prefix \in Nat /\ req[r].kv \in Nat /\ req[r].prot \in Nat
  BY <1>2 DEF Row
<1>4. /\ req[r].prefix <= req[r].fill /\ req[r].chunks = Chks(r)
      /\ InBatch(r) => Adding(r)
      /\ ~InBatch(r) => Batched(r)
  BY <1>1, <1>2 DEF LenOf
<1>5. req[r].fill \in Int
  BY <1>1 DEF CInv, Numbers
<1>6. req[r].fill \in Nat
  BY <1>3, <1>4, <1>5
<1>7. ~InBatch(r) => Sized(req[r])
  BY <1>4, <1>6 DEF Sized, Batched
<1>. QED
  BY <1>1, <1>2, <1>3, <1>4, <1>6, <1>7

\* The numbers of a request.
LEMMA Outs ==
    ASSUME MInv, NEW r \in Reqs
    PROVE  /\ req[r].out \in Nat /\ MaxNew[r] \in Nat \ {0} /\ req[r].out <= MaxNew[r] /\ SeqLen(r) \in Nat \ {0}
           /\ ~req[r].finished => req[r].out < MaxNew[r]
           /\ Len(Prompt[r]) \in Nat \ {0} /\ SeqLen(r) = Len(Prompt[r]) + req[r].out
<1>1. MaxNew[r] \in Nat \ {0} /\ Len(Prompt[r]) \in Nat \ {0}
  BY SizesAssumption
<1>2. req[r].out \in 0 .. MaxNew[r] /\ (~req[r].finished => req[r].out < MaxNew[r])
  BY DEF MInv, NInv, Counts
<1>. QED
  BY <1>1, <1>2 DEF SeqLen

\* A step is about r only.
Others(r) ==
  \A x \in Reqs : x # r =>
    /\ SameLen(x) /\ SameDue(x)
    /\ req[x].holds => (InBatch(x)' <=> InBatch(x))
    /\ chunked' = x <=> chunked = x
    /\ ~(pc' = "prefill" /\ chunked = x)

\* The lengths after such a step.
LEMMA OneLen ==
    ASSUME MInv, pc # "crashed", NEW r, Others(r), r \in Reqs => LenOf(r)'
    PROVE  Lengths'
<1>1. SUFFICES ASSUME NEW x \in Reqs PROVE LenOf(x)'
  BY DEF Lengths
<1>2. CASE x = r
  BY <1>2
<1>3. CASE x # r
  <2>1. LenOf(x)
    BY DEF MInv, NInv, Lengths
  <2>2. /\ SameLen(x) /\ SameDue(x)
        /\ req[x].holds => (InBatch(x)' <=> InBatch(x))
        /\ chunked' = x <=> chunked = x
        /\ pc' = "prefill" /\ chunked = x => req[x].prefix = req[x].fill
    BY <1>3 DEF Others
  <2>. QED
    BY <2>1, <2>2, LenKept
<1>. QED
  BY <1>2, <1>3

\* The numbers in range after such a step.
LEMMA OneCount ==
    ASSUME MInv, NEW r, Others(r), rows' \in 0 .. MaxRunning, Len(results') <= 2,
           r \in Reqs => /\ req'[r].out \in 0 .. MaxNew[r] /\ (~req'[r].finished => req'[r].out < MaxNew[r])
                         /\ req'[r].chunks \in 0 .. 2
    PROVE  Counts'
<1>1. ASSUME NEW x \in Reqs
      PROVE  /\ req'[x].out \in 0 .. MaxNew[x] /\ (~req'[x].finished => req'[x].out < MaxNew[x])
             /\ req'[x].chunks \in 0 .. 2
  <2>1. CASE x = r
    BY <2>1
  <2>2. CASE x # r
    BY <2>2 DEF Others, MInv, NInv, Counts, SameLen
  <2>. QED
    BY <2>1, <2>2
<1>. QED
  BY <1>1 DEF Counts

\* Whether a step is about r only, when it writes one Req object.
LEMMA OneReq ==
    ASSUME SInv, NEW r \in Reqs, NEW q, req' = [req EXCEPT ![r] = q]
    PROVE  /\ req'[r] = q /\ \A x \in Reqs : x # r => req'[x] = req[x] /\ SameLen(x)
           /\ OnlyRow(req, req', Holders, r)
<1>1. DOMAIN req = Reqs
  BY DEF SInv, Types, ReqTypes
<1>2. req'[r] = q /\ \A x \in Reqs : x # r => req'[x] = req[x]
  BY <1>1
<1>. QED
  BY <1>2 DEF SameLen, OnlyRow, Holders

\* A request that is being chunked holds its row, and is not in a pass that
\* will give it a token.
LEMMA ChunkedHolds ==
    ASSUME SInv, pc \in {"start", "prefill"}, chunked # None
    PROVE  chunked \in Reqs /\ chunked \in Holders /\ ReqShape
<1>1. chunked \in Reqs /\ ReqShape
  BY DEF SInv, Types, LoopTypes, ReqTypes, ReqShape
<1>2. req[chunked].holds
  BY <1>1 DEF SInv, Held, Placed
<1>. QED
  BY <1>1, <1>2, Zenon DEF Holders

\* The last batch is merged: the prompt of the chunked request is cached.
LEMMA MergeMem ==
    ASSUME SInv, CInv, MInv, MergeLast
    PROVE  MInv'
<1>0. SInv'
  BY MergeInv
<1>. DEFINE u == Unfinish(cache, chunked)
<1>1. /\ pc = "start" /\ pc' = "prefill" /\ UNCHANGED <<adder, content, chunked, results>>
      /\ cache' = IF chunked = None THEN cache ELSE u.cache
      /\ req' = IF chunked = None THEN req ELSE [req EXCEPT ![chunked] = u.req]
      /\ rows' = IF chunked = None THEN rows ELSE rows + 1
  BY DEF MergeLast
<1>. HIDE DEF u
<1>2. \A x \in Reqs : SameDue(x) /\ (InBatch(x)' <=> InBatch(x)) /\ ~InBatch(x)
  <2>1. \A x \in Reqs : SameDue(x)
    BY <1>1, PassesKept
  <2>. QED
    BY <1>1, <2>1 DEF InBatch, Admitting
<1>3. Len(results') <= 2
  BY <1>1, ResultsBound
<1>4. CASE chunked = None
  <2>1. req' = req /\ cache' = cache /\ rows' = rows
    BY <1>1, <1>4
  <2>2. RowsStay /\ \A x \in Reqs : SameLen(x)
    BY <2>1, ReqsUntouched
  <2>3. Others(None)
    BY <1>1, <1>2, <1>4, <2>2 DEF Others
  <2>4. None \notin Reqs
    BY ReqsAssumption
  <2>5. Lengths'
    BY <1>1, <2>3, <2>4, OneLen
  <2>6. Counts'
    <3>1. rows' \in 0 .. MaxRunning
      BY <2>1 DEF MInv, NInv, Counts
    <3>. QED
      BY <1>3, <2>3, <2>4, <3>1, OneCount
  <2>7. MemInv(cache, content, req, Holders)'
    BY <1>1, <2>1, <2>2, MemStays, RowsStayMem
  <2>8. Cardinality(Holders') <= MaxRunning
    BY <1>1, <2>2 DEF MInv, NInv, RowsStay
  <2>. QED
    BY <2>5, <2>6, <2>7, <2>8 DEF MInv, NInv
<1>5. CASE chunked # None
  <2>1. PICK r : r = chunked
    OBVIOUS
  <2>2. r \in Reqs /\ r \in Holders /\ ReqShape /\ ~InBatch(r)
    BY <1>1, <1>2, <1>5, <2>1, ChunkedHolds
  <2>3. /\ req[r].prefix \in Nat /\ req[r].kv \in Nat /\ req[r].fill \in Nat /\ Batched(r) /\ Sized(req[r]) /\ LenOf(r)
        /\ req[r].chunks = Chks(r) /\ req[r].holds
    BY <1>1, <2>2, HolderFacts
  <2>4. u = Unfinish(cache, r) /\ req' = [req EXCEPT ![r] = u.req] /\ cache' = u.cache /\ rows' = rows + 1 /\ chunked' = r
    BY <1>1, <1>5, <2>1 DEF u
  <2>5. req'[r] = u.req /\ (\A x \in Reqs : x # r => req'[x] = req[x] /\ SameLen(x)) /\ OnlyRow(req, req', Holders, r)
    BY <2>2, <2>4, OneReq
  <2>6. /\ u.req.chunks = req[r].chunks /\ u.req.holds = req[r].holds
        /\ u.req.finished = req[r].finished /\ u.req.retracted = req[r].retracted
    BY <2>2, <2>4, UnfinishKeeps
  <2>7. u.req.out = req[r].out
    BY <2>2, <2>4, UnfinishCache
  <2>8. /\ MemInv(cache', content, req', Holders)
        /\ u.req.fill = req[r].fill /\ u.req.prefix = req[r].fill /\ u.req.kv = req[r].kv
        /\ Len(u.req.pages) = Len(req[r].pages)
    <3>1. PICK rq2, c2 : rq2 = req' /\ c2 = cache'
      OBVIOUS
    <3>2. SameRow(Unfinish(cache, r).req, rq2[r])
      BY <2>4, <2>5, <3>1 DEF SameRow
    <3>3. MemInv(cache, content, req, Holders) /\ OnlyRow(req, rq2, Holders, r)
      BY <2>5, <3>1 DEF MInv
    <3>4. /\ MemInv(Unfinish(cache, r).cache, content, rq2, Holders)
          /\ LET q == Unfinish(cache, r).req
             IN  /\ q.fill = req[r].fill /\ q.prefix = req[r].fill /\ q.kv = req[r].kv
                 /\ q.prot \in Nat /\ q.prot <= q.fill /\ Len(q.pages) = Len(req[r].pages)
      BY <2>2, <2>3, <3>2, <3>3, UnfinishMem
    <3>. QED
      BY <2>4, <3>1, <3>4
  <2>9. Holders' = Holders
    <3>1. \A x \in Reqs : req'[x].holds = req[x].holds
      BY <2>5, <2>6
    <3>. QED
      BY <3>1 DEF Holders
  <2>10. Others(r)
    BY <1>1, <1>2, <2>1, <2>5 DEF Others
  <2>11. LenOf(r)'
    <3>1. SameDue(r) /\ (InBatch(r)' <=> InBatch(r)) /\ SeqLen(r)' = SeqLen(r)
      BY <1>2, <2>2, <2>5, <2>7 DEF SeqLen
    <3>2. Batched(r)'
      BY <2>1, <2>3, <2>4, <2>5, <2>6, <2>8, <3>1 DEF Batched, SameDue
    <3>. QED
      BY <2>2, <2>3, <2>5, <2>6, <2>8, <3>1, <3>2 DEF LenOf, SameDue
  <2>12. Cardinality(Holders') <= MaxRunning
    BY <1>1, <2>9 DEF MInv, NInv
  <2>13. Counts'
    <3>1. rows' \in 0 .. MaxRunning
      BY <1>0, <1>1, <2>12, RowsNext
    <3>2. /\ req'[r].out \in 0 .. MaxNew[r] /\ (~req'[r].finished => req'[r].out < MaxNew[r])
          /\ req'[r].chunks \in 0 .. 2
      BY <2>2, <2>5, <2>6, <2>7 DEF MInv, NInv, Counts
    <3>. QED
      BY <1>3, <2>10, <3>1, <3>2, OneCount
  <2>14. Lengths'
    BY <1>1, <2>10, <2>11, OneLen
  <2>. QED
    BY <1>1, <2>8, <2>9, <2>12, <2>13, <2>14 DEF MInv, NInv
<1>. QED
  BY <1>4, <1>5

\* The least of three numbers.
LEMMA LeastOfThree ==
    ASSUME NEW x \in Int, NEW y \in Int, NEW z \in Int, x >= 0, y >= 0, z >= 0
    PROVE  Min({x, y, z}) \in Nat /\ Min({x, y, z}) <= x
<1>1. {x, y, z} \subseteq Nat /\ {x, y, z} # {} /\ x \in {x, y, z}
  OBVIOUS
<1>. DEFINE S == {x, y, z}
<1>. HIDE DEF S
<1>2. Min(S) \in S /\ \A i \in S : Min(S) <= i
  BY <1>1, LeastNat DEF S
<1>. QED
  BY <1>1, <1>2 DEF S

\* The length of a chunk, when there is a budget for it.
LEMMA ChunkLenBound ==
    ASSUME NEW e \in Int, e >= 0, NEW a, a.chunk \in Int, a.chunk >= 0,
           NEW z \in Int, z >= 0, z = AvailableSize(cache) + cache.evictable - a.total
    PROVE  ChunkLen(e, a) \in Nat /\ ChunkLen(e, a) <= e
<1>1. ChunkLen(e, a) = Min({e, a.chunk, z})
  BY DEF ChunkLen
<1>. QED
  BY <1>1, LeastOfThree

\* The step of a request whose row, holders, and cache stay, that writes one
\* Req object.
LEMMA RowsStayOne ==
    ASSUME NEW r \in Reqs, \A x \in Reqs : x # r => req'[x] = req[x], SameRow(req[r], req'[r]), req'[r].holds = req[r].holds
    PROVE  RowsStay
<1>1. \A x \in Reqs : req'[x].holds = req[x].holds /\ SameRow(req[x], req'[x])
  BY DEF SameRow
<1>2. Holders' = Holders
  BY <1>1 DEF Holders
<1>. QED
  BY <1>1, <1>2 DEF RowsStay, Holders

\* get_new_batch_prefill starts: the chunked request gets its next chunk.
LEMMA BeginMem ==
    ASSUME SInv, CInv, MInv, ChunksFit, BeginPrefill
    PROVE  MInv'
<1>. DEFINE mixed == IF args.mixed THEN Len(running) ELSE 0
            a == [can |-> <<>>, idx |-> 1, total |-> mixed + Reserved, cur |-> mixed,
                  input |-> MaxPrefillTokens - mixed, chunk |-> args.chunk - mixed]
            extend == SeqLen(chunked) - req[chunked].prefix
            l == ChunkLen(extend, a)
            new == IF l < extend THEN 0 ELSE MaxNew[chunked]
<1>1. /\ pc = "prefill" /\ UNCHANGED <<cache, content, rows, results>>
      /\ \/ /\ chunked = None /\ pc' = "decode" /\ UNCHANGED <<req, chunked>>
         \/ /\ chunked = None /\ pc' = "admit" /\ UNCHANGED <<req, chunked>> /\ adder' = a
         \/ /\ chunked # None /\ pc' = "admit" /\ adder' = Spend(a, chunked, l, new)
            /\ req' = [req EXCEPT ![chunked].fill = req[chunked].prefix + l]
            /\ chunked' = IF l < extend THEN chunked ELSE None
  BY DEF BeginPrefill
<1>2. DOMAIN a = DOMAIN NoAdder /\ a.can = << >> /\ a.total = mixed + Reserved /\ a.chunk = args.chunk - mixed
  BY DEF NoAdder
<1>. HIDE DEF a, new
<1>3. \A x \in Reqs : SameDue(x) /\ ~InBatch(x)
  <2>1. \A x \in Reqs : SameDue(x)
    BY <1>1, PassesKept
  <2>. QED
    BY <1>1, <2>1 DEF InBatch, Admitting
<1>4. CASE /\ chunked = None /\ UNCHANGED <<req, chunked>>
           /\ pc' = "decode" \/ (pc' = "admit" /\ adder' = a)
  <2>1. \A x \in Reqs : ~InBatch(x)'
    <3>1. CASE pc' = "decode"
      BY <3>1 DEF InBatch, Admitting
    <3>2. CASE pc' = "admit" /\ adder' = a
      BY <3>2, <1>2, ShortLists DEF InBatch
    <3>. QED
      BY <1>4, <3>1, <3>2
  <2>2. Looks
    BY <1>1, <1>3, <1>4, <2>1 DEF Looks
  <2>. QED
    BY <1>1, <2>2, MemStays, LookMem
<1>5. CASE /\ chunked # None /\ pc' = "admit" /\ adder' = Spend(a, chunked, l, new)
           /\ req' = [req EXCEPT ![chunked].fill = req[chunked].prefix + l]
           /\ chunked' = IF l < extend THEN chunked ELSE None
  <2>1. PICK r : r = chunked
    OBVIOUS
  <2>2. r \in Reqs /\ r \in Holders /\ ReqShape /\ ~InBatch(r)
    BY <1>1, <1>3, <1>5, <2>1, ChunkedHolds
  <2>3. /\ req[r].prefix \in Nat /\ req[r].kv \in Nat /\ req[r].fill \in Nat /\ Batched(r) /\ LenOf(r)
        /\ req[r].chunks = Chks(r) /\ req[r].holds
    BY <1>1, <2>2, HolderFacts
  <2>4. /\ req[r].kv = req[r].fill /\ req[r].prefix = req[r].fill /\ req[r].fill < SeqLen(r) /\ Dues(r) = 0
        /\ Len(req[r].pages) = PageCount(req[r].kv)
    BY <1>1, <2>1, <2>3 DEF Batched
  <2>5. SeqLen(r) \in Nat /\ extend = SeqLen(r) - req[r].prefix
    BY <2>1, <2>2, Outs
  <2>6. l \in Nat /\ l <= extend
    <3>1. args.chunk \in Int /\ mixed \in Int /\ Reserved \in Int
      <4>1. args.chunk \in Int
        BY SizesAssumption DEF SInv, Types, LoopTypes
      <4>2. mixed \in Int
        BY DEF SInv, Types, QueueTypes
      <4>3. Reserved \in Int
        BY ReservedType
      <4>. QED
        BY <4>1, <4>2, <4>3
    <3>2. AvailableSize(cache) \in Int /\ cache.evictable \in Int
      BY AvailableType DEF CInv, CacheInv, Tree, Shape
    <3>3. args.chunk >= mixed /\ AvailableSize(cache) + cache.evictable >= mixed + Reserved
      <4>1. mixed = MixedTokens
        BY DEF MixedTokens
      <4>2. args.chunk >= MixedTokens /\ AvailableSize(cache) + cache.evictable >= MixedTokens + Reserved
        BY <1>1, <1>5 DEF ChunksFit
      <4>. HIDE DEF mixed
      <4>. QED
        BY <4>1, <4>2
    <3>. HIDE DEF mixed
    <3>. DEFINE w == AvailableSize(cache) + cache.evictable
                y == a.chunk
                z == w - a.total
    <3>4. w \in Int /\ w >= mixed + Reserved
      BY <3>2, <3>3
    <3>. HIDE DEF w, extend
    <3>6. extend \in Int /\ extend >= 0
      <4>1. extend \in Int
        BY <2>3, <2>5
      <4>2. req[r].prefix < SeqLen(r)
        BY <2>4
      <4>. QED
        BY <4>1, <4>2, <2>3, <2>5
    <3>7. y \in Int /\ y >= 0
      BY <1>2, <3>1, <3>3
    <3>8. z \in Int /\ z >= 0
      BY <1>2, <3>1, <3>4
    <3>9. z = AvailableSize(cache) + cache.evictable - a.total
      <4>1. a.total \in Int
        BY <1>2, <3>1
      <4>. QED
        BY <3>2, <4>1 DEF w
    <3>. HIDE DEF z
    <3>. QED
      BY <3>6, <3>7, <3>8, <3>9, ChunkLenBound
  <2>. DEFINE q == [req[r] EXCEPT !.fill = req[r].prefix + l]
  <2>. HIDE DEF l, extend
  <2>7. req' = [req EXCEPT ![r] = q]
    BY <1>5, <2>1, <2>2 DEF ReqShape
  <2>8. /\ q.fill = req[r].prefix + l /\ q.prefix = req[r].prefix /\ q.kv = req[r].kv /\ q.pages = req[r].pages
        /\ q.chunks = req[r].chunks /\ q.holds = req[r].holds /\ q.finished = req[r].finished
        /\ q.out = req[r].out /\ q.prot = req[r].prot /\ q.node = req[r].node /\ q.retracted = req[r].retracted
    BY <2>2 DEF ReqShape, FreshReq
  <2>. HIDE DEF q
  <2>9. req'[r] = q /\ (\A x \in Reqs : x # r => req'[x] = req[x] /\ SameLen(x))
    BY <2>2, <2>7, OneReq
  <2>10. RowsStay
    BY <2>2, <2>8, <2>9, RowsStayOne DEF SameRow
  <2>11. ToSet(adder'.can) = {r}
    <3>1. adder'.can = Append(a.can, r)
      BY <1>2, <1>5, <2>1 DEF Spend, NoAdder
    <3>2. adder'.can = <<r>>
      BY <3>1, <1>2
    <3>. QED
      BY <2>2, <3>2, ShortLists
  <2>12. Others(r)
    <3>1. \A x \in Reqs : x # r => ~InBatch(x)' /\ ~InBatch(x)
      BY <1>3, <2>11 DEF InBatch
    <3>2. \A x \in Reqs : x # r => chunked' # x /\ chunked # x
      BY <1>5, <2>1, ReqsAssumption
    <3>. QED
      BY <1>3, <2>9, <3>1, <3>2 DEF Others
  <2>13. LenOf(r)'
    <3>1. InBatch(r)' /\ SameDue(r) /\ SeqLen(r)' = SeqLen(r)
      BY <1>3, <1>5, <2>2, <2>8, <2>9, <2>11 DEF InBatch, Admitting, SeqLen
    <3>2. IF r = chunked' THEN req'[r].fill < SeqLen(r) ELSE req'[r].fill = SeqLen(r)
      <4>1. r # None
        BY <1>5, <2>1
      <4>2. r = chunked' <=> l < extend
        BY <1>5, <2>1, <4>1
      <4>3. req'[r].fill = req[r].prefix + l
        BY <2>8, <2>9
      <4>4. extend \in Int /\ extend = SeqLen(r) - req[r].prefix
        BY <2>3, <2>5
      <4>. QED
        BY <4>2, <4>3, <4>4, <2>3, <2>5, <2>6
    <3>3. Adding(r)'
      BY <2>3, <2>4, <2>8, <2>9, <3>1, <3>2 DEF Adding, SameDue
    <3>4. req'[r].prefix <= req'[r].fill
      BY <2>3, <2>6, <2>8, <2>9
    <3>. QED
      BY <2>3, <2>8, <2>9, <3>1, <3>3, <3>4 DEF LenOf, SameDue
  <2>14. Counts'
    <3>1. rows' \in 0 .. MaxRunning /\ Len(results') <= 2
      BY <1>1 DEF MInv, NInv, Counts
    <3>2. /\ req'[r].out \in 0 .. MaxNew[r] /\ (~req'[r].finished => req'[r].out < MaxNew[r])
          /\ req'[r].chunks \in 0 .. 2
      BY <2>2, <2>8, <2>9 DEF MInv, NInv, Counts
    <3>. QED
      BY <2>12, <3>1, <3>2, OneCount
  <2>15. Lengths'
    BY <1>1, <2>12, <2>13, OneLen
  <2>16. MemInv(cache, content, req, Holders)'
    BY <1>1, <2>10, MemStays, RowsStayMem
  <2>17. Cardinality(Holders') <= MaxRunning
    BY <1>1, <2>10 DEF MInv, NInv, RowsStay
  <2>. QED
    BY <2>14, <2>15, <2>16, <2>17 DEF MInv, NInv
<1>. QED
  BY <1>1, <1>4, <1>5

\* A chunk of whole pages is shorter than what does not fit the budget.
LEMMA FloorBelow ==
    ASSUME NEW e \in Nat, NEW k \in Int, ~(CeilPaged(e) <= k)
    PROVE  FloorPaged(k) \in Int /\ FloorPaged(k) < e
<1>. DEFINE P == PageSize
            j == k \div P
            m == (e + P - 1) \div P
<1>1. P \in Nat \ {0}
  BY PageSizeAssumption
<1>2. /\ FloorPaged(k) = j * P /\ CeilPaged(e) = m * P
  BY DEF FloorPaged, CeilPaged
<1>3. PageCount(e) = CeilPaged(e) \div P
  BY DEF PageCount
<1>4. /\ PageCount(e) \in Nat
      /\ \A i \in Int : i * P \in Int /\ (i * P >= e <=> i >= PageCount(e))
  BY PageBounds
<1>. HIDE DEF P
<1>5. j \in Int /\ k = P * j + (k % P) /\ k % P \in 0 .. P - 1
  BY <1>1, DivMod
<1>6. m \in Int
  <2>1. e + P - 1 \in Int
    BY <1>1
  <2>. QED
    BY <1>1, <2>1, DivMod
<1>. HIDE DEF j, m
<1>7. P * m + 0 = m * P /\ (P * m + 0) \div P = m /\ P * m \in Int /\ P * j \in Int /\ j * P = P * j
  <2>1. 0 \in 0 .. P - 1
    BY <1>1
  <2>2. (P * m + 0) \div P = m
    BY <1>1, <1>6, <2>1, DivUnique
  <2>. QED
    BY <1>1, <1>5, <1>6, <2>2
<1>8. PageCount(e) = m
  BY <1>2, <1>3, <1>7
<1>9. FloorPaged(k) \in Int /\ FloorPaged(k) <= k
  <2>. DEFINE f == P * j
              t == k % P
  <2>1. f \in Int /\ t \in 0 .. P - 1 /\ k = f + t /\ FloorPaged(k) = f
    BY <1>1, <1>2, <1>5, <1>7
  <2>. HIDE DEF f, t
  <2>. QED
    BY <1>1, <2>1
<1>10. ASSUME FloorPaged(k) >= e PROVE FALSE
  <2>1. j >= m
    BY <1>2, <1>4, <1>5, <1>8, <1>10
  <2>2. P * j >= P * m
    <3>1. m <= j
      BY <2>1, <1>5, <1>6
    <3>2. P * m <= P * j
      BY <1>1, <1>5, <1>6, <3>1, TimesOrder
    <3>. QED
      BY <1>7, <3>2
  <2>3. CeilPaged(e) = P * m /\ FloorPaged(k) = P * j
    BY <1>2, <1>7
  <2>. QED
    BY <1>7, <1>9, <2>2, <2>3
<1>. QED
  BY <1>9, <1>10

\* How a request is added.
LEMMA AddMeaning ==
    ASSUME NEW r, NEW c, NEW n, NEW a
    PROVE  LET add == AddOneReq(r, c, n, a)
               extend == SeqLen(r) - Len(n)
           IN  \/ add.len = 0
               \/ add.result = "all" /\ add.len = extend
               \/ add.result = "chunk" /\ add.len = FloorPaged(a.chunk) /\ ~(CeilPaged(extend) <= a.chunk)
<1>. DEFINE extend == SeqLen(r) - Len(n)
            trunc == FloorPaged(a.chunk)
            full1 == extend + Max({MaxNew[r] - req[r].out, 0}) >= Min({RemTotal(c, a), RemTotal(IncLockRef(c, n), a)})
            full2 == CeilPaged(extend) >= a.input /\ a.can # << >>
            all == CeilPaged(extend) <= a.chunk
            none == trunc <= 0
<1>1. AddOneReq(r, c, n, a) = IF full1 THEN [result |-> "no_token", len |-> 0]
                              ELSE IF full2 THEN [result |-> "other", len |-> 0]
                              ELSE IF all THEN [result |-> "all", len |-> extend]
                              ELSE IF none THEN [result |-> "other", len |-> 0]
                              ELSE [result |-> "chunk", len |-> trunc]
  BY Zenon DEF AddOneReq
<1>. HIDE DEF extend, trunc, full1, full2, all, none
<1>. DEFINE add == AddOneReq(r, c, n, a)
<1>2. add.len = 0 \/ (add.result = "all" /\ add.len = extend) \/ (add.result = "chunk" /\ add.len = trunc /\ ~all)
  BY <1>1
<1>. QED
  BY <1>2 DEF extend, trunc, all

\* A request of the queue is in no batch, and no pass in flight is about it.
LEMMA QueuedIdle ==
    ASSUME SInv, CInv, MInv, pc = "admit", NEW r, adder.idx \in 1 .. Len(waiting), r = waiting[adder.idx]
    PROVE  /\ r \in Reqs /\ r \notin Holders /\ ~req[r].holds /\ ~req[r].finished /\ r \notin ToSet(adder.can)
           /\ Dues(r) = 0 /\ Chks(r) = 0 /\ req[r].kv = 0 /\ req[r].chunks = 0 /\ chunked # r
<1>1. /\ Types /\ Placed /\ Held /\ InFlight /\ Answers /\ Admitting /\ Prefill = ToSet(adder.can) /\ waiting \in Seq(Reqs)
  BY DEF SInv, Types, QueueTypes, Admitting, Prefill
<1>2. r \in Reqs /\ r \in ToSet(waiting)
  BY <1>1 DEF ToSet
<1>3. r \notin ToSet(adder.can) /\ r \notin ToSet(running) /\ req[r].answers = 0
  BY <1>1, <1>2 DEF Placed
<1>4. ~req[r].holds
  BY <1>1, <1>2, <1>3 DEF Held
<1>5. ~req[r].finished
  BY <1>1, <1>2, <1>3 DEF Answers
<1>6. req[r].kv = 0 /\ req[r].chunks = 0
  BY <1>2, <1>4, <1>5 DEF MInv, NInv, Lengths, LenOf
<1>7. chunked # r
  BY <1>1, <1>2, <1>3, ReqsAssumption DEF Placed
<1>8. Dues(r) = 0 /\ Chks(r) = 0
  <2>1. /\ Len(results) \in {0, 1} /\ DOMAIN results = 1 .. Len(results) /\ Due(2, r) = 0 /\ Chk(2, r) = 0
        /\ Len(results) = 1 => args.overlap /\ LeftOf(results[1], last)
    BY OnePass
  <2>2. Live(last)
    BY <1>1 DEF InFlight
  <2>3. 1 \in DOMAIN results => r \notin ToSet(results[1].reqs)
    <3>1. 1 \in DOMAIN results => Len(results) = 1
      BY <2>1
    <3>. QED
      BY <1>2, <2>1, <2>2, <3>1 DEF Live, LeftOf
  <2>4. Due(1, r) = 0 /\ Chk(1, r) = 0
    BY <2>3 DEF Due, Chk, ChunkPending
  <2>. QED
    BY <2>1, <2>4 DEF Dues, Chks
<1>. QED
  BY <1>2, <1>3, <1>4, <1>5, <1>6, <1>7, <1>8, Zenon DEF Holders

\* As long as there is a row for another request, the holders leave one.
LEMMA RowLeft ==
    ASSUME SInv, pc = "admit", ~(Len(adder.can) >= MaxRunning - Len(running))
    PROVE  Cardinality(Holders) + 1 <= MaxRunning
<1>1. /\ Types /\ Held /\ Admitting /\ Prefill = ToSet(adder.can) /\ IsFiniteSet(Holders)
      /\ running \in Seq(Reqs) /\ adder.can \in Seq(Reqs) /\ MaxRunning \in Nat
  BY ReqsAssumption DEF SInv, Types, QueueTypes, Admitting, Prefill, Held
<1>2. /\ IsFiniteSet(ToSet(running)) /\ Cardinality(ToSet(running)) \in Nat /\ Len(running) \in Nat
      /\ Cardinality(ToSet(running)) <= Len(running)
  BY <1>1, ListSize
<1>3. /\ IsFiniteSet(ToSet(adder.can)) /\ Cardinality(ToSet(adder.can)) \in Nat /\ Len(adder.can) \in Nat
      /\ Cardinality(ToSet(adder.can)) <= Len(adder.can)
  BY <1>1, ListSize
<1>. DEFINE A == ToSet(running)
            B == ToSet(adder.can)
<1>4. Holders \subseteq A \cup B
  BY <1>1 DEF Held, Holders
<1>. HIDE DEF A, B
<1>5. /\ IsFiniteSet(A \cup B) /\ Cardinality(A \cup B) = Cardinality(A) + Cardinality(B) - Cardinality(A \cap B)
  BY <1>2, <1>3, FS_Union DEF A, B
<1>6. IsFiniteSet(A \cap B) /\ Cardinality(A \cap B) \in Nat
  <2>1. IsFiniteSet(A) /\ A \cap B \in SUBSET A
    BY <1>2 DEF A
  <2>2. IsFiniteSet(A \cap B)
    BY <2>1, FS_Subset
  <2>. QED
    BY <2>2, FS_CardinalityType
<1>7. Cardinality(Holders) <= Cardinality(A \cup B) /\ Cardinality(Holders) \in Nat
  BY <1>1, <1>4, <1>5, FS_Subset, FS_CardinalityType
<1>. DEFINE ca == Cardinality(A)
            cb == Cardinality(B)
            cc == Cardinality(A \cap B)
            cu == Cardinality(A \cup B)
            ch == Cardinality(Holders)
            lr == Len(running)
            lc == Len(adder.can)
<1>8. /\ ca \in Nat /\ cb \in Nat /\ cc \in Nat /\ ch \in Nat /\ lr \in Nat /\ lc \in Nat
      /\ ca <= lr /\ cb <= lc /\ cu = ca + cb - cc /\ ch <= cu /\ ~(lc >= MaxRunning - lr)
  BY <1>2, <1>3, <1>5, <1>6, <1>7 DEF A, B
<1>. HIDE DEF ca, cb, cc, cu, ch, lr, lc
<1>9. ch + 1 <= MaxRunning
  BY <1>1, <1>8
<1>. QED
  BY <1>9 DEF ch

\* Request r of the queue, which matched node n, is added to the batch.
Admission(r, n, c, add, q) ==
  /\ r = waiting[adder.idx] /\ n = CachedPrefix(cache, MatchKey(r)) /\ c = MatchPrefix(cache, MatchKey(r))
  /\ add = AddOneReq(r, c, n, adder)
  /\ q = [req[r] EXCEPT !.prefix = Len(n), !.prot = Len(n), !.node = n, !.pages = CachedPages(c, n),
                        !.holds = TRUE, !.fill = Len(n) + add.len]

\* A request is admitted.
LEMMA AdmittedMem ==
    ASSUME SInv, SInv', CInv, MInv, pc = "admit", pc' \in {"admit", "batch", "crashed"},
           UNCHANGED <<content, running, rows, results>>,
           adder.idx \in 1 .. Len(waiting), ~(Len(adder.can) >= MaxRunning - Len(running)),
           NEW r, NEW n, NEW c, NEW add, NEW q, Admission(r, n, c, add, q), add.len > 0, cache' = IncLockRef(c, n),
           req' = [req EXCEPT ![r] = q],
           adder'.can = Append(adder.can, r),
           chunked' = IF add.result = "chunk" THEN r ELSE chunked,
           add.result = "chunk" /\ chunked # None => pc' = "crashed"
    PROVE  MInv'
<1>1. /\ r \in Reqs /\ r \notin Holders /\ ~req[r].holds /\ ~req[r].finished /\ r \notin ToSet(adder.can)
      /\ Dues(r) = 0 /\ Chks(r) = 0 /\ req[r].kv = 0 /\ req[r].chunks = 0 /\ chunked # r
  BY QueuedIdle DEF Admission
<1>2. ReqShape /\ adder.can \in Seq(Reqs) /\ IsInjective(adder.can)
  BY DEF SInv, Types, ReqTypes, ReqShape, QueueTypes
<1>3. /\ req[r].out \in Nat /\ SeqLen(r) \in Nat
  BY <1>1, Outs
<1>4. /\ q.prefix = Len(n) /\ q.prot = Len(n) /\ q.node = n /\ q.pages = CachedPages(c, n) /\ q.holds = TRUE
      /\ q.fill = Len(n) + add.len /\ q.kv = 0 /\ q.chunks = 0 /\ q.out = req[r].out /\ q.finished = req[r].finished
  <2>1. q = [req[r] EXCEPT !.prefix = Len(n), !.prot = Len(n), !.node = n, !.pages = CachedPages(c, n),
                           !.holds = TRUE, !.fill = Len(n) + add.len]
    BY DEF Admission
  <2>2. DOMAIN req[r] = DOMAIN FreshReq
    BY <1>1, <1>2 DEF ReqShape
  <2>. QED
    BY <1>1, <2>1, <2>2 DEF FreshReq
<1>5. req'[r] = q /\ (\A x \in Reqs : x # r => req'[x] = req[x] /\ SameLen(x)) /\ OnlyRow(req, req', Holders, r)
  BY <1>1, OneReq
<1>6. Len(n) \in Nat /\ Len(n) < SeqLen(r)
  BY <1>1, <1>3, MatchMem DEF Admission
<1>7. Holders' = Holders \cup {r}
  BY <1>1, <1>4, <1>5 DEF Holders
<1>8. /\ MemInv(cache', content, req', Holders \cup {r}) /\ Len(q.pages) = PageCount(Len(n))
  <2>1. PICK rq2 : rq2 = req'
    OBVIOUS
  <2>2. NewRow(rq2[r], c, n) /\ OnlyRow(req, rq2, Holders, r) /\ rq2 = req'
    BY <1>4, <1>5, <2>1 DEF NewRow
  <2>3. Matched(r, n, c)
    BY DEF Admission, Matched
  <2>4. MemInv(IncLockRef(c, n), content, rq2, Holders \cup {r}) /\ Len(rq2[r].pages) = PageCount(Len(n))
    <3>1. MemInv(cache, content, req, Holders)
      BY DEF MInv
    <3>. QED
      BY <1>1, <1>3, <2>2, <2>3, <3>1, AdmitMem
  <2>. QED
    BY <1>5, <2>1, <2>4
<1>9. ToSet(adder'.can) = ToSet(adder.can) \cup {r}
  BY <1>1, <1>2, ToSetAppend
<1>10. \A x \in Reqs : SameDue(x)
  BY PassesKept
<1>11. Counts'
  <2>1. rows' \in 0 .. MaxRunning /\ Len(results') <= 2
    BY DEF MInv, NInv, Counts
  <2>2. ASSUME NEW x \in Reqs
        PROVE  /\ req'[x].out \in 0 .. MaxNew[x] /\ (~req'[x].finished => req'[x].out < MaxNew[x])
               /\ req'[x].chunks \in 0 .. 2
    <3>1. req'[x].out = req[x].out /\ req'[x].finished = req[x].finished /\ req'[x].chunks = req[x].chunks
      BY <1>1, <1>4, <1>5
    <3>. QED
      BY <3>1 DEF MInv, NInv, Counts
  <2>. QED
    BY <2>1, <2>2 DEF Counts
<1>12. ASSUME pc' # "crashed" PROVE Lengths' /\ Cardinality(Holders') <= MaxRunning
  <2>1. Admitting /\ Admitting'
    BY <1>12 DEF Admitting
  <2>2. Others(r)
    <3>1. \A x \in Reqs : x # r => (InBatch(x)' <=> InBatch(x))
      BY <1>9, <2>1 DEF InBatch
    <3>2. \A x \in Reqs : x # r => (chunked' = x <=> chunked = x)
      <4>1. CASE add.result = "chunk"
        <5>1. chunked = None /\ chunked' = r
          BY <4>1, <1>12
        <5>. QED
          BY <5>1, ReqsAssumption
      <4>2. CASE add.result # "chunk"
        BY <4>2
      <4>. QED
        BY <4>1, <4>2
    <3>3. pc' # "prefill"
      OBVIOUS
    <3>. QED
      BY <1>5, <1>10, <3>1, <3>2, <3>3 DEF Others
  <2>3. IF r = chunked' THEN q.fill < SeqLen(r) ELSE q.fill = SeqLen(r)
    <3>. DEFINE extend == SeqLen(r) - Len(n)
    <3>1. \/ add.len = 0
          \/ add.result = "all" /\ add.len = extend
          \/ add.result = "chunk" /\ add.len = FloorPaged(adder.chunk) /\ ~(CeilPaged(extend) <= adder.chunk)
      BY AddMeaning DEF Admission
    <3>2. extend \in Nat
      BY <1>3, <1>6
    <3>3. CASE add.result = "all" /\ add.len = extend
      <4>1. chunked' # r
        BY <3>3, <1>1
      <4>. QED
        BY <4>1, <3>3, <1>3, <1>4, <1>6
    <3>4. CASE add.result = "chunk" /\ add.len = FloorPaged(adder.chunk) /\ ~(CeilPaged(extend) <= adder.chunk)
      <4>1. chunked' = r
        BY <3>4
      <4>2. adder.chunk \in Int
        BY DEF CInv, Numbers
      <4>3. PICK e : e = extend
        OBVIOUS
      <4>4. e \in Nat /\ ~(CeilPaged(e) <= adder.chunk)
        BY <3>2, <3>4, <4>3
      <4>5. FloorPaged(adder.chunk) \in Int /\ FloorPaged(adder.chunk) < e
        BY <4>2, <4>4, FloorBelow
      <4>6. add.len \in Int /\ add.len < SeqLen(r) - Len(n)
        BY <3>4, <4>3, <4>5
      <4>. QED
        BY <4>1, <4>6, <1>3, <1>4, <1>6
    <3>. QED
      BY <3>1, <3>3, <3>4
  <2>4. LenOf(r)'
    <3>1. InBatch(r)' /\ SameDue(r) /\ SeqLen(r)' = SeqLen(r)
      BY <1>1, <1>4, <1>5, <1>9, <1>10, <2>1 DEF InBatch, SeqLen
    <3>2. Adding(r)'
      BY <1>1, <1>4, <1>5, <1>6, <1>8, <2>3, <3>1 DEF Adding, SameDue
    <3>3. req'[r].prefix <= req'[r].fill
      <4>1. add.len \in Int
        <5>1. adder.chunk \in Int
          BY DEF CInv, Numbers
        <5>2. FloorPaged(adder.chunk) \in Int
          BY <5>1, FloorMeaning
        <5>3. SeqLen(r) - Len(n) \in Int
          BY <1>3, <1>6
        <5>4. add.len \in {0, SeqLen(r) - Len(n), FloorPaged(adder.chunk)}
          BY AddLen DEF Admission
        <5>. QED
          BY <5>2, <5>3, <5>4
      <4>. QED
        BY <4>1, <1>4, <1>5, <1>6
    <3>. QED
      BY <1>1, <1>4, <1>5, <3>1, <3>2, <3>3 DEF LenOf, SameDue
  <2>5. Lengths'
    BY <2>2, <2>4, OneLen
  <2>6. Cardinality(Holders') <= MaxRunning
    <3>1. IsFiniteSet(Holders)
      BY DEF SInv, Held
    <3>2. Cardinality(Holders') = Cardinality(Holders) + 1
      BY <1>1, <1>7, <3>1, FS_AddElement
    <3>. QED
      BY <3>2, RowLeft
  <2>. QED
    BY <2>5, <2>6
<1>. QED
  BY <1>7, <1>8, <1>11, <1>12 DEF MInv, NInv

\* A request of the queue is matched against the tree, may be admitted, or
\* ends the admission.
LEMMA AdmitStepMem ==
    ASSUME SInv, CInv, MInv, AdmitNext
    PROVE  MInv'
<1>0. SInv'
  BY AdmitInv
<1>. DEFINE r == waiting[adder.idx]
            n == CachedPrefix(cache, MatchKey(r))
            c == MatchPrefix(cache, MatchKey(r))
            add == AddOneReq(r, c, n, adder)
            new == IF add.result = "all" THEN MaxNew[r] ELSE 0
            a == Spend(adder, r, add.len, new)
            q == [req[r] EXCEPT !.prefix = Len(n), !.prot = Len(n), !.node = n,
                                !.pages = CachedPages(c, n), !.holds = TRUE,
                                !.fill = Len(n) + add.len]
<1>1. /\ pc = "admit" /\ UNCHANGED <<content, running, rows, results>>
      /\ \/ UNCHANGED <<cache, req, adder, chunked>> /\ pc' = "batch"
         \/ /\ ~(adder.idx > Len(waiting)) /\ cache' = c /\ UNCHANGED <<req, adder, chunked>> /\ pc' = "batch"
         \/ /\ ~(adder.idx > Len(waiting)) /\ ~(Len(adder.can) >= MaxRunning - Len(running)) /\ add.len > 0
            /\ cache' = IncLockRef(c, n)
            /\ req' = [req EXCEPT ![r] = q] /\ adder' = [a EXCEPT !.idx = @ + 1]
            /\ chunked' = IF add.result = "chunk" THEN r ELSE chunked
            /\ pc' = IF add.result = "chunk" /\ chunked # None THEN "crashed"
                     ELSE IF BudgetState(IncLockRef(c, n), a) = "continue" THEN "admit" ELSE "batch"
  BY Zenon DEF AdmitNext
<1>2. ReqShape /\ waiting \in Seq(Reqs) /\ Placed /\ Admitting /\ DOMAIN adder = DOMAIN NoAdder
  BY <1>1 DEF SInv, Types, ReqTypes, ReqShape, QueueTypes, Admitting
<1>3. ASSUME ~(adder.idx > Len(waiting)) PROVE r \in Reqs /\ adder.idx \in 1 .. Len(waiting)
  <2>1. adder.idx \in 1 .. Len(waiting)
    BY <1>2, <1>3 DEF Placed
  <2>. QED
    BY <1>2, <2>1
<1>4. CASE UNCHANGED <<req, adder, chunked>> /\ pc' = "batch" /\ MemInv(cache', content, req, Holders)
  <2>1. RowsStay /\ \A x \in Reqs : SameLen(x)
    BY <1>4, ReqsUntouched
  <2>2. \A x \in Reqs : SameDue(x)
    BY <1>1, PassesKept
  <2>3. Len(results') <= 2
    BY <1>1, ResultsBound
  <2>4. \A x \in Holders : (InBatch(x)' <=> InBatch(x))
    BY <1>1, <1>4 DEF InBatch, Admitting
  <2>5. Undisturbed
    BY <1>1, <1>4, <2>1, <2>2, <2>3, <2>4 DEF Undisturbed
  <2>. QED
    BY <1>1, <1>4, <2>5, QuietMem
<1>5. CASE UNCHANGED <<cache, req, adder, chunked>> /\ pc' = "batch"
  BY <1>4, <1>5, MemStays
<1>6. CASE ~(adder.idx > Len(waiting)) /\ cache' = c /\ UNCHANGED <<req, adder, chunked>> /\ pc' = "batch"
  <2>. HIDE DEF r
  <2>1. c.kv = cache.kv /\ c.free = cache.free
    BY <1>3, <1>6, MatchCache
  <2>. HIDE DEF c
  <2>2. MemInv(cache, content, req, Holders)
    BY DEF MInv
  <2>3. /\ PageInv(cache, PrivateIn(req, Holders)) => PageInv(c, PrivateIn(req, Holders))
        /\ Faithful(cache, content) => Faithful(c, content)
        /\ \A x, y : Row(cache, content, x, y) => Row(c, content, x, y)
    BY <2>1, SamePages
  <2>4. MemInv(c, content, req, Holders)
    BY <2>2, <2>3 DEF MemInv
  <2>. QED
    BY <1>4, <1>6, <2>4
<1>7. CASE /\ ~(adder.idx > Len(waiting)) /\ ~(Len(adder.can) >= MaxRunning - Len(running)) /\ add.len > 0
           /\ cache' = IncLockRef(c, n)
           /\ req' = [req EXCEPT ![r] = q] /\ adder' = [a EXCEPT !.idx = @ + 1]
           /\ chunked' = IF add.result = "chunk" THEN r ELSE chunked
           /\ pc' = IF add.result = "chunk" /\ chunked # None THEN "crashed"
                    ELSE IF BudgetState(IncLockRef(c, n), a) = "continue" THEN "admit" ELSE "batch"
  <2>1. adder'.can = Append(adder.can, r)
    <3>. HIDE DEF r, add, new
    <3>. QED
      BY <1>2, <1>7 DEF Spend, NoAdder
  <2>2. pc' \in {"admit", "batch", "crashed"} /\ (add.result = "chunk" /\ chunked # None => pc' = "crashed")
    <3>. HIDE DEF add, a, c, n
    <3>. QED
      BY <1>7
  <2>3. adder.idx \in 1 .. Len(waiting)
    BY <1>3, <1>7
  <2>4. PICK r2, n2, c2, add2, q2 : r2 = r /\ n2 = n /\ c2 = c /\ add2 = add /\ q2 = q
    OBVIOUS
  <2>5. Admission(r2, n2, c2, add2, q2)
    BY <2>4 DEF Admission
  <2>6. /\ add2.len > 0 /\ cache' = IncLockRef(c2, n2) /\ req' = [req EXCEPT ![r2] = q2]
        /\ adder'.can = Append(adder.can, r2) /\ chunked' = IF add2.result = "chunk" THEN r2 ELSE chunked
        /\ add2.result = "chunk" /\ chunked # None => pc' = "crashed"
    <3>. HIDE DEF r, n, c, add, q, a
    <3>. QED
      BY <1>7, <2>1, <2>2, <2>4
  <2>7. /\ pc = "admit" /\ UNCHANGED <<content, running, rows, results>>
        /\ ~(Len(adder.can) >= MaxRunning - Len(running))
    BY <1>1, <1>7
  <2>. HIDE DEF r, n, c, add, q, a
  <2>. QED
    BY <1>0, <2>2, <2>3, <2>5, <2>6, <2>7, AdmittedMem
<1>. QED
  BY <1>1, <1>4, <1>5, <1>6, <1>7

\* The numbers of r that are in range.
InRange(r) == /\ req[r].out \in 0 .. MaxNew[r] /\ (~req[r].finished => req[r].out < MaxNew[r])
              /\ req[r].chunks \in 0 .. 2

\* A step that is about r only keeps the invariant when it keeps it for r,
\* and nobody gets a row.
LEMMA OneMem ==
    ASSUME SInv, SInv', MInv, pc # "crashed", pc' # "crashed", NEW r \in Reqs, Others(r), Len(results') <= 2,
           LenOf(r)', InRange(r)', Holders' \subseteq Holders, MemInv(cache, content, req, Holders)'
    PROVE  MInv'
<1>1. Lengths'
  BY OneLen
<1>2. Cardinality(Holders') <= MaxRunning
  <2>1. IsFiniteSet(Holders) /\ Cardinality(Holders) <= MaxRunning
    BY DEF SInv, Held, MInv, NInv
  <2>2. IsFiniteSet(Holders') /\ Cardinality(Holders') <= Cardinality(Holders)
    BY <2>1, FS_Subset
  <2>. QED
    BY <2>1, <2>2, FS_CardinalityType, ReqsAssumption
<1>3. rows' \in 0 .. MaxRunning
  BY <1>2, RowsNext
<1>4. Counts'
  <2>1. /\ req'[r].out \in 0 .. MaxNew[r] /\ (~req'[r].finished => req'[r].out < MaxNew[r])
        /\ req'[r].chunks \in 0 .. 2
    BY DEF InRange
  <2>. QED
    BY <1>3, <2>1, OneCount
<1>. QED
  BY <1>1, <1>2, <1>4 DEF MInv, NInv

\* What the first pass in flight will do to the head of its batch.
LEMMA HeadPlace ==
    ASSUME SInv, CInv, MInv, ProcessResult, NEW r, r = Head(results[1].reqs),
           NEW mid, mid <=> (results[1].mode = "extend" /\ req[r].chunks > 0)
    PROVE  /\ r \in Reqs /\ ReqShape /\ pc # "crashed" /\ ~InBatch(r) /\ (~Skipped(r) <=> r \in Holders)
           /\ ~Skipped(r) /\ mid => Chk(1, r) = 1 /\ Due(1, r) = 0
           /\ ~Skipped(r) /\ ~mid => Chk(1, r) = 0 /\ Due(1, r) = 1 /\ chunked # r
<1>1. /\ pc \in {"process", "pause"} /\ 1 \in DOMAIN results /\ r \in ToSet(results[1].reqs) /\ r \in Reqs
      /\ Proper(results[1]) /\ ReqShape /\ ~InBatch(r)
  BY ProcessHead DEF SInv, Types, ReqTypes, ReqShape, InBatch, Admitting
<1>2. ~Skipped(r) => r \in Holders
  <2>1. ~Skipped(r) => req[r].holds
    BY <1>1 DEF SInv, InFlight
  <2>. QED
    BY <1>1, <2>1, Zenon DEF Holders
<1>3. ASSUME r \in Holders PROVE Batched(r) /\ req[r].chunks = Chks(r) /\ ~Skipped(r)
  <2>1. Batched(r) /\ req[r].chunks = Chks(r) /\ req[r].holds
    BY <1>1, <1>3, HolderFacts
  <2>2. ~req[r].finished
    BY <1>1, <2>1 DEF SInv, Answers
  <2>. QED
    BY <2>1, <2>2 DEF Skipped, Finished, Batched
<1>4. ASSUME ~Skipped(r), mid PROVE Chk(1, r) = 1 /\ Due(1, r) = 0
  <2>1. req[r].chunks = Chks(r) /\ req[r].chunks > 0
    BY <1>2, <1>3, <1>4
  <2>2. Chk(1, r) = 1 \/ Chk(2, r) = 1
    BY <2>1, DueType DEF Chks
  <2>3. CASE Chk(2, r) = 1
    <3>1. 2 \in DOMAIN results /\ ChunkPending(2, r)
      BY <2>3 DEF Chk
    <3>2. ChunkPending(1, r)
      BY <1>1, <3>1, ChunkInBoth
    <3>. QED
      BY <1>1, <3>2 DEF Chk, Due, ChunkPending
  <2>4. CASE Chk(1, r) = 1
    <3>1. ChunkPending(1, r)
      BY <2>4 DEF Chk
    <3>. QED
      BY <1>1, <3>1 DEF Chk, Due, ChunkPending
  <2>. QED
    BY <2>2, <2>3, <2>4
<1>5. ASSUME ~Skipped(r), ~mid PROVE Chk(1, r) = 0 /\ Due(1, r) = 1 /\ chunked # r
  <2>1. results[1].chunked # r
    <3>1. CASE results[1].mode # "extend"
      BY <1>1, <3>1, ReqsAssumption DEF Proper
    <3>2. CASE ~(req[r].chunks > 0)
      <4>1. ~ChunkPending(1, r)
        <5>1. ChunkPending(1, r) => req[r].chunks >= 1
          BY <1>1 DEF SInv, Chunks
        <5>2. req[r].chunks \in Nat
          BY <1>1 DEF SInv, Types, ReqTypes
        <5>. QED
          BY <3>2, <5>1, <5>2
      <4>. QED
        BY <1>1, <4>1 DEF ChunkPending
    <3>. QED
      BY <1>5, <3>1, <3>2
  <2>2. Chk(1, r) = 0 /\ Due(1, r) = 1
    BY <1>1, <2>1 DEF Chk, Due, ChunkPending
  <2>3. Dues(r) # 0
    BY <2>2, DueType DEF Dues
  <2>4. Batched(r)
    BY <1>2, <1>3, <1>5
  <2>. QED
    BY <2>2, <2>3, <2>4 DEF Batched
<1>. QED
  BY <1>1, <1>2, <1>3, <1>4, <1>5

\* The first pass in flight, in turn, is about r.
Turn(r) == r = Head(results[1].reqs)

\* What every result of a pass leaves alone.
LEMMA TurnOthers ==
    ASSUME SInv, ProcessResult, NEW r \in Reqs, Turn(r), NEW q, req' = [req EXCEPT ![r] = q]
    PROVE  /\ SInv' /\ pc' = pc /\ pc # "crashed" /\ content' = content /\ chunked' = chunked
           /\ Others(r) /\ Len(results') <= 2 /\ req'[r] = q /\ OnlyRow(req, req', Holders, r)
           /\ \A x \in Reqs : x # r => req'[x] = req[x]
           /\ Due(1, r)' = 0 /\ Chk(1, r)' = 0 /\ Due(2, r)' = Due(2, r) /\ Chk(2, r)' = Chk(2, r)
           /\ ~InBatch(r)'
<1>1. SInv' /\ pc \in {"process", "pause"}
  BY ProcessInv, ProcessHead
<1>2. UNCHANGED <<content, chunked, adder, pc>>
  BY DEF ProcessResult
<1>3. /\ \A x : x # r => SameDue(x)
      /\ Due(1, r)' = 0 /\ Chk(1, r)' = 0 /\ Due(2, r)' = Due(2, r) /\ Chk(2, r)' = Chk(2, r)
  BY PassTrimmed DEF Turn
<1>4. req'[r] = q /\ (\A x \in Reqs : x # r => req'[x] = req[x] /\ SameLen(x)) /\ OnlyRow(req, req', Holders, r)
  BY OneReq
<1>5. \A x : ~InBatch(x) /\ ~InBatch(x)'
  BY <1>1, <1>2 DEF InBatch, Admitting
<1>6. Others(r)
  BY <1>1, <1>2, <1>3, <1>4, <1>5 DEF Others
<1>7. Len(results') <= 2
  <2>1. Len(results') = Len(results)
    BY ProcessTrim
  <2>. QED
    BY <1>1, <2>1, ResultsBound
<1>. QED
  BY <1>1, <1>2, <1>3, <1>4, <1>5, <1>6, <1>7

\* The numbers of a request that gets a token.
LEMMA TokenLen ==
    ASSUME SInv, CInv, MInv, ProcessResult, NEW r \in Holders, Turn(r), chunked # r, Chk(1, r) = 0, Due(1, r) = 1
    PROVE  /\ r \in Reqs /\ Batched(r) /\ Sized(req[r]) /\ ~req[r].finished /\ req[r].holds
           /\ req[r].kv \in Nat /\ req[r].fill \in Nat /\ req[r].prefix \in Nat /\ req[r].prefix <= req[r].fill
           /\ req[r].fill <= req[r].kv /\ Len(req[r].pages) = PageCount(req[r].kv) /\ ~req[r].retracted
           /\ Due(2, r) \in {0, 1} /\ req[r].kv = SeqLen(r) + Due(2, r)
           /\ req[r].chunks = Chk(2, r) /\ Chk(2, r) \in {0, 1}
<1>1. pc # "crashed" /\ ~InBatch(r)
  BY ProcessHead DEF InBatch, Admitting
<1>2. /\ r \in Reqs /\ req[r].holds /\ req[r].prefix \in Nat /\ req[r].kv \in Nat /\ req[r].fill \in Nat
      /\ req[r].prefix <= req[r].fill /\ req[r].chunks = Chks(r) /\ Batched(r) /\ Sized(req[r])
  BY <1>1, HolderFacts
<1>3. ~req[r].finished
  BY <1>2 DEF SInv, Answers
<1>4. Due(2, r) \in {0, 1} /\ Chk(2, r) \in {0, 1} /\ Dues(r) = 1 + Due(2, r) /\ Chks(r) = 0 + Chk(2, r)
  BY DueType DEF Dues, Chks
<1>5. SeqLen(r) \in Nat \ {0}
  BY <1>2, Outs
<1>6. req[r].kv = SeqLen(r) - 1 + Dues(r)
  BY <1>2 DEF Batched
<1>7. req[r].kv = SeqLen(r) + Due(2, r)
  BY <1>4, <1>5, <1>6
<1>8. req[r].chunks = Chk(2, r)
  BY <1>2, <1>4
<1>9. req[r].fill <= req[r].kv /\ Len(req[r].pages) = PageCount(req[r].kv) /\ ~req[r].retracted
  BY <1>2 DEF Batched
<1>. QED
  BY <1>2, <1>3, <1>4, <1>7, <1>8, <1>9

\* A request that goes on after a token: z is its Req object.
Tokened(r, z) ==
  /\ z.out = req[r].out + 1 /\ z.out < MaxNew[r] /\ z.kv = req[r].kv /\ z.fill = req[r].fill
  /\ z.prefix \in {req[r].prefix, req[r].fill} /\ Len(z.pages) = Len(req[r].pages)
  /\ z.chunks = req[r].chunks /\ z.holds = req[r].holds /\ z.finished = req[r].finished
  /\ z.retracted = req[r].retracted

\* Its lengths.
LEMMA TokenedMem ==
    ASSUME SInv, CInv, MInv, ProcessResult, NEW r \in Holders, Turn(r), chunked # r, Chk(1, r) = 0, Due(1, r) = 1,
           NEW z, req' = [req EXCEPT ![r] = z], Tokened(r, z), MemInv(cache', content, req', Holders)
    PROVE  MInv'
<1>1. /\ r \in Reqs /\ ~req[r].finished /\ req[r].holds
      /\ req[r].kv \in Nat /\ req[r].fill \in Nat /\ req[r].prefix \in Nat /\ req[r].prefix <= req[r].fill
      /\ req[r].fill <= req[r].kv /\ Len(req[r].pages) = PageCount(req[r].kv) /\ ~req[r].retracted
      /\ Due(2, r) \in {0, 1} /\ req[r].kv = SeqLen(r) + Due(2, r)
      /\ req[r].chunks = Chk(2, r) /\ Chk(2, r) \in {0, 1}
  BY TokenLen
<1>2. /\ SInv' /\ pc' = pc /\ pc # "crashed" /\ content' = content /\ chunked' = chunked
      /\ Others(r) /\ Len(results') <= 2 /\ req'[r] = z
      /\ \A x \in Reqs : x # r => req'[x] = req[x]
      /\ Due(1, r)' = 0 /\ Chk(1, r)' = 0 /\ Due(2, r)' = Due(2, r) /\ Chk(2, r)' = Chk(2, r)
      /\ ~InBatch(r)'
  BY <1>1, TurnOthers
<1>3. /\ req[r].out \in Nat /\ SeqLen(r) \in Nat \ {0} /\ SeqLen(r) = Len(Prompt[r]) + req[r].out
      /\ Len(Prompt[r]) \in Nat \ {0} /\ MaxNew[r] \in Nat
  BY <1>1, Outs
<1>4. /\ z.out = req[r].out + 1 /\ z.out < MaxNew[r] /\ z.kv = req[r].kv /\ z.fill = req[r].fill
      /\ z.prefix <= z.fill /\ Len(z.pages) = Len(req[r].pages)
      /\ z.chunks = req[r].chunks /\ z.holds = req[r].holds /\ z.finished = req[r].finished
      /\ z.retracted = req[r].retracted
  BY <1>1 DEF Tokened
<1>5. SeqLen(r)' = SeqLen(r) + 1
  <2>1. req'[r].out = req[r].out + 1
    BY <1>2, <1>4
  <2>2. SeqLen(r)' = Len(Prompt[r]) + req'[r].out
    BY DEF SeqLen
  <2>3. PICK l, o : l = Len(Prompt[r]) /\ o = req[r].out
    OBVIOUS
  <2>4. SeqLen(r)' = l + (o + 1) /\ SeqLen(r) = l + o /\ l \in Nat /\ o \in Nat
    BY <1>3, <2>1, <2>2, <2>3
  <2>. QED
    BY <2>4
<1>6. Dues(r)' = Due(2, r) /\ Chks(r)' = Chk(2, r)
  BY <1>1, <1>2 DEF Dues, Chks
<1>7. req'[r].kv = SeqLen(r)' - 1 + Dues(r)'
  <2>1. PICK l, e : l = SeqLen(r) /\ e = Due(2, r)
    OBVIOUS
  <2>2. l \in Nat /\ e \in {0, 1} /\ req'[r].kv = l + e
    BY <1>1, <1>2, <1>3, <1>4, <2>1
  <2>3. SeqLen(r)' = l + 1 /\ Dues(r)' = e
    BY <1>5, <1>6, <2>1
  <2>4. l + e = (l + 1) - 1 + e
    BY <2>2
  <2>. QED
    BY <2>2, <2>3, <2>4
<1>8. Batched(r)'
  BY <1>1, <1>2, <1>4, <1>7 DEF Batched
<1>9. LenOf(r)'
  BY <1>1, <1>2, <1>4, <1>6, <1>8 DEF LenOf
<1>10. InRange(r)'
  <2>1. PICK n, o : n = MaxNew[r] /\ o = req[r].out
    OBVIOUS
  <2>2. n \in Nat /\ o \in Nat /\ o + 1 < n
    BY <1>3, <1>4, <2>1
  <2>3. o + 1 \in 0 .. n
    BY <2>2
  <2>4. req'[r].out = o + 1 /\ req'[r].chunks = Chk(2, r)
    BY <1>1, <1>2, <1>4, <2>1
  <2>5. Chk(2, r) \in 0 .. 2
    BY <1>1
  <2>. QED
    BY <2>1, <2>2, <2>3, <2>4, <2>5 DEF InRange
<1>11. Holders' = Holders
  <2>1. \A x \in Reqs : req'[x].holds = req[x].holds
    BY <1>2, <1>4
  <2>. QED
    BY <2>1 DEF Holders
<1>12. MemInv(cache, content, req, Holders)'
  BY <1>2, <1>11
<1>. QED
  BY <1>1, <1>2, <1>9, <1>10, <1>11, <1>12, OneMem

\* A request that ends gives up its row: z is its Req object.
Ended(r, z) == /\ z.out = req[r].out + 1 /\ z.kv = 0 /\ z.chunks = req[r].chunks /\ z.holds = FALSE /\ z.finished = TRUE

\* The result of a pass ends a request.
LEMMA EndedMem ==
    ASSUME SInv, CInv, MInv, ProcessResult, NEW r \in Holders, Turn(r), chunked # r, Chk(1, r) = 0, Due(1, r) = 1,
           NEW z, req' = [req EXCEPT ![r] = z], Ended(r, z), cache' = Finish(cache, r, req[r].out + 1, TRUE)
    PROVE  MInv'
<1>1. /\ r \in Reqs /\ ~req[r].finished /\ Sized(req[r]) /\ req[r].kv \in Nat
      /\ Due(2, r) \in {0, 1} /\ req[r].kv = SeqLen(r) + Due(2, r)
      /\ req[r].chunks = Chk(2, r) /\ Chk(2, r) \in {0, 1}
  BY TokenLen
<1>2. /\ SInv' /\ pc' = pc /\ pc # "crashed" /\ content' = content
      /\ Others(r) /\ Len(results') <= 2 /\ req'[r] = z
      /\ \A x \in Reqs : x # r => req'[x] = req[x]
  BY <1>1, TurnOthers
<1>3. /\ req[r].out \in Nat /\ SeqLen(r) \in Nat \ {0} /\ SeqLen(r) = Len(Prompt[r]) + req[r].out
      /\ Len(Prompt[r]) \in Nat \ {0} /\ MaxNew[r] \in Nat /\ req[r].out < MaxNew[r]
  BY <1>1, Outs
<1>4. z.out = req[r].out + 1 /\ z.kv = 0 /\ z.chunks = req[r].chunks /\ z.holds = FALSE /\ z.finished = TRUE
  BY DEF Ended
<1>5. LenOf(r)'
  BY <1>2, <1>4 DEF LenOf
<1>6. InRange(r)'
  BY <1>1, <1>2, <1>3, <1>4 DEF InRange
<1>7. Holders' = Holders \ {r}
  BY <1>1, <1>2, <1>4 DEF Holders
<1>8. MemInv(cache', content, req', Holders \ {r})
  <2>1. PICK rq2, o : rq2 = req' /\ o = req[r].out + 1
    OBVIOUS
  <2>2. \A x \in Holders \ {r} : rq2[x] = req[x]
    BY <1>2, <2>1 DEF Holders
  <2>3. MemInv(cache, content, req, Holders) /\ ReqShape
    BY DEF MInv, SInv, Types, ReqTypes, ReqShape
  <2>4. o \in Int /\ req[r].kv <= Len(Prompt[r]) + o
    <3>1. PICK l, u, k, e : l = Len(Prompt[r]) /\ u = req[r].out /\ k = req[r].kv /\ e = Due(2, r)
      OBVIOUS
    <3>2. l \in Nat /\ u \in Nat /\ e \in {0, 1} /\ k = l + u + e /\ o = u + 1
      BY <1>1, <1>3, <2>1, <3>1
    <3>3. o \in Int /\ k <= l + o
      BY <3>2
    <3>. QED
      BY <3>1, <3>3
  <2>5. MemInv(Finish(cache, r, o, TRUE), content, rq2, Holders \ {r})
    BY <1>1, <2>2, <2>3, <2>4, FinishMem
  <2>. QED
    BY <2>1, <2>5
<1>9. MemInv(cache, content, req, Holders)'
  BY <1>2, <1>7, <1>8
<1>. QED
  BY <1>1, <1>2, <1>5, <1>6, <1>7, <1>9, OneMem

\* The result of a pass is of no use to the request, or accounts for a chunk.
LEMMA PassedMem ==
    ASSUME SInv, CInv, MInv, ProcessResult, NEW r \in Reqs, Turn(r), NEW z, req' = [req EXCEPT ![r] = z],
           SameRow(req[r], z), z.out = req[r].out, z.fill = req[r].fill, z.holds = req[r].holds,
           z.finished = req[r].finished, z.retracted = req[r].retracted, cache' = cache,
           \/ r \notin Holders /\ z.chunks = req[r].chunks
           \/ r \in Holders /\ Chk(1, r) = 1 /\ Due(1, r) = 0 /\ z.chunks = req[r].chunks - 1
    PROVE  MInv'
<1>1. /\ SInv' /\ pc' = pc /\ pc # "crashed" /\ content' = content /\ chunked' = chunked
      /\ Others(r) /\ Len(results') <= 2 /\ req'[r] = z
      /\ \A x \in Reqs : x # r => req'[x] = req[x]
      /\ Due(1, r)' = 0 /\ Chk(1, r)' = 0 /\ Due(2, r)' = Due(2, r) /\ Chk(2, r)' = Chk(2, r)
      /\ ~InBatch(r)'
  BY TurnOthers
<1>2. z.kv = req[r].kv /\ z.prefix = req[r].prefix /\ z.pages = req[r].pages
  BY DEF SameRow
<1>3. LenOf(r) /\ InRange(r)
  BY <1>1 DEF MInv, NInv, Lengths, Counts, InRange
<1>4. /\ Due(1, r) \in {0, 1} /\ Due(2, r) \in {0, 1} /\ Chk(1, r) \in {0, 1} /\ Chk(2, r) \in {0, 1}
  BY DueType
<1>5. SeqLen(r)' = SeqLen(r)
  BY <1>1 DEF SeqLen
<1>6. pc # "prefill"
  BY ProcessHead
<1>7. LenOf(r)' /\ InRange(r)'
  <2>1. CASE r \notin Holders /\ z.chunks = req[r].chunks
    <3>1. ~req[r].holds
      BY <2>1 DEF Holders
    <3>2. LenOf(r)'
      BY <1>1, <1>2, <1>3, <2>1, <3>1 DEF LenOf
    <3>3. InRange(r)'
      BY <1>1, <1>3, <2>1 DEF InRange
    <3>. QED
      BY <3>2, <3>3
  <2>2. CASE r \in Holders /\ Chk(1, r) = 1 /\ Due(1, r) = 0 /\ z.chunks = req[r].chunks - 1
    <3>1. /\ Batched(r) /\ req[r].chunks = Chks(r) /\ req[r].holds /\ req[r].prefix <= req[r].fill
      <4>1. ~InBatch(r)
        BY ProcessHead DEF InBatch, Admitting
      <4>. QED
        BY <1>1, <2>2, <4>1, HolderFacts
    <3>2. Dues(r)' = Dues(r) /\ Chks(r) = 1 + Chk(2, r) /\ Chks(r)' = Chk(2, r)
      BY <1>1, <1>4, <2>2 DEF Dues, Chks
    <3>3. Batched(r)'
      BY <1>1, <1>2, <1>5, <1>6, <3>1, <3>2 DEF Batched
    <3>4. z.chunks = Chk(2, r)
      BY <1>4, <2>2, <3>1, <3>2
    <3>5. LenOf(r)'
      BY <1>1, <1>2, <3>1, <3>2, <3>3, <3>4 DEF LenOf
    <3>6. InRange(r)'
      BY <1>1, <1>3, <1>4, <3>4 DEF InRange
    <3>. QED
      BY <3>5, <3>6
  <2>. QED
    BY <2>1, <2>2
<1>8. RowsStay
  BY <1>1, RowsStayOne
<1>9. MemInv(cache, content, req, Holders)'
  BY <1>1, <1>8, MemStays, RowsStayMem
<1>10. Holders' \subseteq Holders
  BY <1>8 DEF RowsStay
<1>. QED
  BY <1>1, <1>7, <1>9, <1>10, OneMem

\* process_batch_result for one request.
LEMMA ProcessMem ==
    ASSUME SInv, CInv, MInv, ProcessResult
    PROVE  MInv'
<1>. DEFINE b == results[1]
            r == Head(b.reqs)
            q == [req[r] EXCEPT !.out = @ + 1]
            mid == b.mode = "extend" /\ req[r].chunks > 0
<1>1. /\ Head(results) = b /\ r \in Reqs /\ ReqShape /\ pc # "crashed"
      /\ (~Skipped(r) <=> r \in Holders)
      /\ ~Skipped(r) /\ mid => Chk(1, r) = 1 /\ Due(1, r) = 0
      /\ ~Skipped(r) /\ ~mid => Chk(1, r) = 0 /\ Due(1, r) = 1 /\ chunked # r
  BY ProcessHead, HeadPlace
<1>2. PICK stop \in BOOLEAN : ProcessOne(stop)
  BY DEF ProcessResult
<1>. DEFINE e == [Released(q) EXCEPT !.finished = TRUE, !.output = TRUE,
                                     !.answers = IF q.output THEN @ ELSE @ + 1]
            v == Unfinish(cache, r).req
            u == [v EXCEPT !.out = q.out]
            k == [req[r] EXCEPT !.chunks = IF Skipped(r) THEN @ ELSE @ - 1]
<1>3. \/ /\ Skipped(r) \/ mid
         /\ req' = [req EXCEPT ![r].chunks = IF Skipped(r) THEN @ ELSE @ - 1] /\ cache' = cache
      \/ ~Skipped(r) /\ ~mid /\ req' = [req EXCEPT ![r] = e] /\ cache' = Finish(cache, r, q.out, TRUE)
      \/ ~Skipped(r) /\ ~mid /\ ~(q.out >= MaxNew[r]) /\ req' = [req EXCEPT ![r] = u] /\ cache' = Unfinish(cache, r).cache
      \/ ~Skipped(r) /\ ~mid /\ ~(q.out >= MaxNew[r]) /\ req' = [req EXCEPT ![r] = q] /\ cache' = cache
  BY <1>1, <1>2 DEF ProcessOne
<1>4. /\ DOMAIN req[r] = DOMAIN FreshReq /\ DOMAIN q = DOMAIN FreshReq /\ q.out = req[r].out + 1
      /\ SameRow(req[r], q) /\ q.fill = req[r].fill /\ q.chunks = req[r].chunks /\ q.holds = req[r].holds
      /\ q.finished = req[r].finished /\ q.retracted = req[r].retracted
  BY <1>1 DEF ReqShape, FreshReq, SameRow
<1>5. /\ k.out = req[r].out /\ SameRow(req[r], k) /\ k.fill = req[r].fill /\ k.holds = req[r].holds
      /\ k.finished = req[r].finished /\ k.retracted = req[r].retracted
      /\ k.chunks = IF Skipped(r) THEN req[r].chunks ELSE req[r].chunks - 1
  BY <1>1 DEF ReqShape, FreshReq, SameRow
<1>6. Ended(r, e)
  BY <1>4 DEF Released, Ended, FreshReq
<1>7. Turn(r) /\ req[r].out \in Nat /\ MaxNew[r] \in Nat
  BY <1>1, Outs DEF Turn
<1>8. CASE /\ Skipped(r) \/ mid
           /\ req' = [req EXCEPT ![r].chunks = IF Skipped(r) THEN @ ELSE @ - 1] /\ cache' = cache
  <2>1. req' = [req EXCEPT ![r] = k]
    BY <1>1, <1>8 DEF ReqShape
  <2>. HIDE DEF k, r, mid
  <2>2. \/ r \notin Holders /\ k.chunks = req[r].chunks
        \/ r \in Holders /\ Chk(1, r) = 1 /\ Due(1, r) = 0 /\ k.chunks = req[r].chunks - 1
    BY <1>1, <1>5, <1>8
  <2>. QED
    BY <1>1, <1>5, <1>7, <1>8, <2>1, <2>2, PassedMem
<1>. HIDE DEF r, mid
<1>9. CASE ~Skipped(r) /\ ~mid /\ req' = [req EXCEPT ![r] = e] /\ cache' = Finish(cache, r, q.out, TRUE)
  <2>. HIDE DEF e, q
  <2>1. cache' = Finish(cache, r, req[r].out + 1, TRUE)
    BY <1>4, <1>9
  <2>. QED
    BY <1>1, <1>6, <1>7, <1>9, <2>1, EndedMem
<1>10. CASE ~Skipped(r) /\ ~mid /\ ~(q.out >= MaxNew[r]) /\ req' = [req EXCEPT ![r] = q] /\ cache' = cache
  <2>. HIDE DEF q
  <2>1. Tokened(r, q)
    BY <1>4, <1>7, <1>10 DEF Tokened, SameRow
  <2>2. PICK rq2 : rq2 = req'
    OBVIOUS
  <2>3. \A x \in Holders : SameRow(req[x], rq2[x])
    BY <1>1, <1>4, <1>10, <2>2 DEF SameRow, Holders, ReqShape
  <2>4. MemInv(cache, content, req, Holders)
    BY DEF MInv
  <2>5. MemInv(cache, content, rq2, Holders)
    BY <2>3, <2>4, SameRows
  <2>6. MemInv(cache', content, req', Holders)
    BY <1>10, <2>2, <2>5
  <2>. QED
    BY <1>1, <1>7, <1>10, <2>1, <2>6, TokenedMem
<1>11. CASE /\ ~Skipped(r) /\ ~mid /\ ~(q.out >= MaxNew[r]) /\ req' = [req EXCEPT ![r] = u]
            /\ cache' = Unfinish(cache, r).cache
  <2>1. DOMAIN v = DOMAIN FreshReq /\ v.chunks = req[r].chunks /\ v.holds = req[r].holds
        /\ v.finished = req[r].finished /\ v.retracted = req[r].retracted
    BY <1>1, UnfinishKeeps
  <2>. HIDE DEF q, v
  <2>2. /\ SameRow(v, u) /\ u.out = q.out /\ u.fill = v.fill /\ u.chunks = v.chunks /\ u.holds = v.holds
        /\ u.finished = v.finished /\ u.retracted = v.retracted
    BY <2>1 DEF FreshReq, SameRow
  <2>. HIDE DEF u
  <2>3. r \in Holders /\ Sized(req[r])
    BY <1>1, <1>7, <1>11, TokenLen
  <2>4. req'[r] = u /\ OnlyRow(req, req', Holders, r)
    BY <1>1, <1>11, OneReq
  <2>5. PICK rq2 : rq2 = req'
    OBVIOUS
  <2>6. MemInv(cache, content, req, Holders) /\ OnlyRow(req, rq2, Holders, r) /\ SameRow(Unfinish(cache, r).req, rq2[r])
    BY <2>2, <2>4, <2>5 DEF MInv, v
  <2>7. /\ MemInv(Unfinish(cache, r).cache, content, rq2, Holders)
        /\ LET y == Unfinish(cache, r).req
           IN  /\ y.fill = req[r].fill /\ y.prefix = req[r].fill /\ y.kv = req[r].kv
               /\ y.prot \in Nat /\ y.prot <= y.fill /\ Len(y.pages) = Len(req[r].pages)
    BY <1>1, <2>3, <2>6, UnfinishMem
  <2>8. v.fill = req[r].fill /\ v.prefix = req[r].fill /\ v.kv = req[r].kv /\ Len(v.pages) = Len(req[r].pages)
    BY <2>7 DEF v
  <2>9. Tokened(r, u)
    BY <1>4, <1>7, <1>11, <2>1, <2>2, <2>8 DEF Tokened, SameRow
  <2>10. MemInv(cache', content, req', Holders)
    BY <1>11, <2>5, <2>7
  <2>. QED
    BY <1>1, <1>7, <1>11, <2>9, <2>10, TokenedMem
<1>. QED
  BY <1>3, <1>8, <1>9, <1>10, <1>11

\* A request is retracted: its pages are freed, and those it shares lose a
\* lock.
LEMMA RetractMem ==
    ASSUME SInv, SInv', CInv, MInv, pc \in {"retract", "retractall"}, pc' \in {"recheck", "retractall"},
           UNCHANGED <<content, chunked, results, adder>>,
           NEW r, r \in ToSet(running), NEW rest, NEW steps, Retract(r, rest, steps)
    PROVE  MInv'
<1>. DEFINE q == [Released(req[r]) EXCEPT !.retracted = TRUE, !.chunks = 0]
            f == Finish(cache, r, req[r].out, FALSE)
            H == Holders \ {r}
<1>1. PICK c \in EvictFromTreeCache(f, steps * RetractSteps) : cache' = c
  BY Zenon DEF Retract
<1>2. req' = [req EXCEPT ![r] = [Released(@) EXCEPT !.retracted = TRUE, !.chunks = 0]]
  BY Zenon DEF Retract
<1>3. r \in Holders /\ r \in Reqs /\ ReqShape
  BY RunningHolds DEF Holders, SInv, Types, ReqTypes, ReqShape
<1>4. req' = [req EXCEPT ![r] = q]
  BY <1>2, <1>3 DEF ReqShape
<1>5. q.holds = FALSE /\ q.kv = 0 /\ q.chunks = 0 /\ q.out = req[r].out /\ q.finished = req[r].finished
  BY <1>3 DEF ReqShape, FreshReq, Released
<1>. HIDE DEF q
<1>6. req'[r] = q /\ (\A x \in Reqs : x # r => req'[x] = req[x] /\ SameLen(x))
  BY <1>3, <1>4, OneReq
<1>7. \A x \in Reqs : ~InBatch(x) /\ ~InBatch(x)' /\ SameDue(x)
  <2>1. \A x \in Reqs : SameDue(x)
    BY PassesKept
  <2>. QED
    BY <2>1 DEF InBatch, Admitting
<1>8. Others(r)
  BY <1>6, <1>7 DEF Others
<1>9. Batched(r) /\ Sized(req[r]) /\ req[r].kv \in Nat
  BY <1>3, <1>7, HolderFacts
<1>10. chunked # r
  <2>1. chunked # None => chunked \in Prefill
    BY DEF SInv, Placed
  <2>2. ToSet(running) \cap Prefill = {}
    BY DEF SInv, Placed
  <2>. QED
    BY <2>1, <2>2, <1>3, ReqsAssumption
<1>11. req[r].kv <= Len(Prompt[r]) + req[r].out /\ req[r].out \in Int
  <2>1. Dues(r) \in {0, 1}
    BY OnePass
  <2>2. req[r].kv = SeqLen(r) - 1 + Dues(r)
    BY <1>9, <1>10 DEF Batched
  <2>3. SeqLen(r) \in Nat /\ req[r].out \in Nat /\ SeqLen(r) = Len(Prompt[r]) + req[r].out /\ Len(Prompt[r]) \in Nat
    BY <1>3, Outs
  <2>. QED
    BY <2>1, <2>2, <2>3
<1>12. MemInv(f, content, req, H)
  <2>1. MemInv(cache, content, req, Holders)
    BY DEF MInv
  <2>. QED
    BY <1>3, <1>9, <1>11, <2>1, FinishMem
<1>13. CacheInv(f, [x \in H |-> req[x].node], Toks)
  BY <1>3, FinishCache
<1>14. H \in SUBSET Reqs
  BY DEF Holders
<1>. HIDE DEF f, H
<1>15. MemInv(cache', content, req, H)
  BY <1>1, <1>12, <1>13, <1>14, EvictMem
<1>16. Holders' = H
  BY <1>3, <1>5, <1>6 DEF Holders, H
<1>17. MemInv(cache, content, req, Holders)'
  <2>1. PICK rq2, d : rq2 = req' /\ d = cache'
    OBVIOUS
  <2>2. \A x \in H : rq2[x] = req[x]
    BY <1>6, <2>1 DEF H, Holders
  <2>3. \A x \in H : SameRow(req[x], rq2[x])
    BY <2>2 DEF SameRow
  <2>4. MemInv(d, content, req, H)
    BY <1>15, <2>1
  <2>5. MemInv(d, content, rq2, H)
    BY <2>3, <2>4, SameRows
  <2>. QED
    BY <1>16, <2>1, <2>5
<1>18. LenOf(r)'
  BY <1>5, <1>6 DEF LenOf
<1>19. InRange(r)'
  <2>1. InRange(r)
    BY <1>3 DEF InRange, MInv, NInv, Counts
  <2>. QED
    BY <1>5, <1>6, <2>1 DEF InRange
<1>20. Len(results') <= 2 /\ pc # "crashed" /\ pc' # "crashed"
  BY ResultsBound
<1>. QED
  BY <1>3, <1>8, <1>16, <1>17, <1>18, <1>19, <1>20, OneMem DEF H

\* retract_decode, and retract_all of a pause.
LEMMA RetractsMem ==
    ASSUME SInv, CInv, MInv, RetractDecode \/ RetractAll
    PROVE  MInv'
<1>1. SInv'
  BY RetractDecodeInv, RetractAllInv
<1>2. running \in Seq(Reqs) /\ IsInjective(running)
  BY DEF SInv, Types, QueueTypes
<1>3. UNCHANGED <<content, chunked, results, adder>> /\ pc \in {"retract", "retractall"}
  BY DEF RetractDecode, RetractAll
<1>4. ASSUME UNCHANGED <<cache, req, rows>>, pc' \in {"forward", "crashed", "start"} PROVE MInv'
  <2>1. Looks
    BY <1>3, <1>4 DEF Looks, InBatch, Admitting
  <2>2. MemInv(cache', content, req, Holders)
    BY <1>4, MemStays
  <2>. QED
    BY <2>1, <2>2, LookMem
<1>5. CASE RetractDecode
  <2>1. CASE ~(Len(running) > 1)
    <3>1. UNCHANGED <<cache, req, rows>> /\ pc' \in {"forward", "crashed"}
      BY <1>5, <2>1 DEF RetractDecode
    <3>. QED
      BY <1>4, <3>1
  <2>2. CASE Len(running) > 1
    <3>1. Retract(Last(running), Front(running), Len(running) - 1) /\ pc' = "recheck"
      BY <1>5, <2>2 DEF RetractDecode
    <3>2. Last(running) \in ToSet(running)
      <4>1. ToSet(running) = ToSet(Front(running)) \cup {Last(running)}
        BY <1>2, <2>2, FrontLast
      <4>. HIDE DEF Last
      <4>. QED
        BY <4>1
    <3>. QED
      BY <1>1, <1>3, <3>1, <3>2, RetractMem
  <2>. QED
    BY <2>1, <2>2
<1>6. CASE RetractAll
  <2>1. CASE running = << >>
    <3>1. UNCHANGED <<cache, req, rows>> /\ pc' = "start"
      BY <1>6, <2>1 DEF RetractAll
    <3>. QED
      BY <1>4, <3>1
  <2>2. CASE running # << >>
    <3>1. Retract(Head(running), Tail(running), Len(running)) /\ pc' = pc /\ pc = "retractall"
      BY <1>6, <2>2 DEF RetractAll
    <3>2. Head(running) \in ToSet(running)
      BY <1>2, <2>2, ToSetTail
    <3>. QED
      BY <1>1, <1>3, <3>1, <3>2, RetractMem
  <2>. QED
    BY <2>1, <2>2
<1>. QED
  BY <1>5, <1>6

\* The rows of the members of rs reach from[r], and are to reach to[r].
Room(rs, from, to) ==
  \A r \in ToSet(rs) : /\ from[r] = Have(req[r]) /\ from[r] \in Nat /\ to[r] \in Nat /\ from[r] <= to[r]
                       /\ req[r].pages \in Seq(Pages) /\ Len(req[r].pages) = PageCount(from[r])

\* m is what the allocator gives.
Given(c, rs, from, to, m) == m = Allocate(c, rs, from, to)

\* The rows that m gives begin as before and are long enough, or as long as
\* before.
Supplied(rs, from, to, m) ==
  /\ DOMAIN m.pages = ToSet(rs)
  /\ \A r \in ToSet(rs) : /\ Len(m.pages[r]) \in Nat /\ Len(m.pages[r]) <= PageCount(to[r])
                          /\ m.ok => Len(m.pages[r]) = PageCount(to[r])
                          /\ \A i \in 1 .. PageCount(from[r]) : m.pages[r][i] = req[r].pages[i]

\* Two sequences of pages, one after the other.
LEMMA PagesConcat ==
    ASSUME NEW s \in Seq(Pages), NEW t \in Seq(Pages)
    PROVE  /\ Len(s) \in Nat /\ Len(t) \in Nat /\ Len(s \o t) = Len(s) + Len(t)
           /\ \A i \in 1 .. Len(s) : (s \o t)[i] = s[i]
  OBVIOUS

\* What the allocator gives to the batch.
LEMMA PagedRows ==
    ASSUME NEW e, NEW rs, NEW from, NEW to, Room(rs, from, to), NEW m, NEW x, Allotted(e, rs, from, to, m, x),
           m.ok \in BOOLEAN
    PROVE  Supplied(rs, from, to, m)
<1>1. DOMAIN m.pages = ToSet(rs)
  BY DEF Allotted
<1>2. ASSUME NEW r \in ToSet(rs)
      PROVE  /\ Len(m.pages[r]) \in Nat /\ Len(m.pages[r]) <= PageCount(to[r])
             /\ m.ok => Len(m.pages[r]) = PageCount(to[r])
             /\ \A i \in 1 .. PageCount(from[r]) : m.pages[r][i] = req[r].pages[i]
  <2>1. /\ from[r] \in Nat /\ to[r] \in Nat /\ from[r] <= to[r]
        /\ req[r].pages \in Seq(Pages) /\ Len(req[r].pages) = PageCount(from[r])
    BY DEF Room
  <2>2. /\ x[r] \in Seq(Pages) /\ m.pages[r] = req[r].pages \o x[r]
        /\ m.ok => Len(x[r]) = PageCount(to[r]) - PageCount(from[r])
        /\ ~m.ok => Len(x[r]) = 0
    BY DEF Allotted
  <2>3. /\ Len(x[r]) \in Nat /\ Len(m.pages[r]) = Len(req[r].pages) + Len(x[r])
        /\ \A i \in 1 .. Len(req[r].pages) : m.pages[r][i] = req[r].pages[i]
    BY <2>1, <2>2, PagesConcat
  <2>4. PageCount(from[r]) \in Nat /\ PageCount(to[r]) \in Nat
    BY <2>1, PageBounds
  <2>5. PageCount(from[r]) <= PageCount(to[r])
    BY <2>1, PageCountMonotone
  <2>6. PICK a, b, l, t : a = PageCount(from[r]) /\ b = PageCount(to[r]) /\ l = Len(m.pages[r]) /\ t = Len(x[r])
    OBVIOUS
  <2>7. /\ a \in Nat /\ b \in Nat /\ a <= b /\ t \in Nat /\ l = a + t
        /\ m.ok => t = b - a
        /\ ~m.ok => t = 0
    BY <2>1, <2>2, <2>3, <2>4, <2>5, <2>6
  <2>8. l \in Nat /\ l <= b /\ (m.ok => l = b)
    BY <2>7
  <2>9. \A i \in 1 .. PageCount(from[r]) : m.pages[r][i] = req[r].pages[i]
    BY <2>1, <2>3
  <2>. QED
    BY <2>6, <2>8, <2>9
<1>. QED
  BY <1>1, <1>2 DEF Supplied

\* The holders of cache c: rq are their Req objects, nd their nodes.
Holding(c, nd, rq, H) ==
  /\ CacheInv(c, nd, Toks) /\ Pool(c, rq, H) /\ Faithful(c, content) /\ DOMAIN nd = H
  /\ \A x \in H : nd[x] = rq[x].node

\* A part of a batch gets its pages, after something may have been evicted.
LEMMA ServeRows ==
    ASSUME NEW H \in SUBSET Reqs, NEW c, NEW nd, NEW rq, Holding(c, nd, rq, H), NEW n, NEW e \in EvictFromTreeCache(c, n),
           NEW rs \in Seq(Reqs), IsInjective(rs), ToSet(rs) \subseteq H, Unserved(rq, rs),
           NEW from, NEW to, Room(rs, from, to), NEW m, Given(e, rs, from, to, m),
           NEW rq2, Served(rq, rq2, H, rs, m)
    PROVE  Holding(m.cache, nd, rq2, H) /\ Supplied(rs, from, to, m) /\ m.ok \in BOOLEAN
<1>1. /\ CacheInv(c, nd, Toks) /\ Pool(c, rq, H) /\ Faithful(c, content) /\ DOMAIN nd = H
      /\ \A x \in H : nd[x] = rq[x].node
  BY DEF Holding
<1>2. Pool(e, rq, H) /\ Shrinks(c, e) /\ CacheInv(e, nd, Toks)
  BY <1>1, EvictPool, EvictKeeps
<1>3. DOMAIN e = DOMAIN EmptyCache /\ e.free \in [Pages -> 0 .. 1]
  BY <1>2 DEF CacheInv, Tree, Shape, Pool, PageInv
<1>4. \A r \in ToSet(rs) : from[r] \in Nat /\ to[r] \in Nat /\ from[r] <= to[r]
  BY DEF Room
<1>5. m.ok \in BOOLEAN /\ \E x : Allotted(e, rs, from, to, m, x)
  BY <1>3, <1>4, AllocateMeaning DEF Given
<1>6. PICK x : Allotted(e, rs, from, to, m, x)
  BY <1>5
<1>7. Pool(m.cache, rq2, H)
  BY <1>2, <1>6, AllotPool
<1>8. Supplied(rs, from, to, m)
  BY <1>5, <1>6, PagedRows
<1>9. CacheInv(m.cache, nd, Toks)
  BY <1>2, AllocateCache DEF Given
<1>10. Faithful(m.cache, content)
  <2>1. m.cache.kv = e.kv
    BY <1>6 DEF Allotted
  <2>. QED
    BY <2>1, <1>1, <1>2 DEF Faithful, Shrinks
<1>11. \A y \in H : nd[y] = rq2[y].node
  BY <1>1 DEF Served
<1>. QED
  BY <1>1, <1>5, <1>7, <1>8, <1>9, <1>10, <1>11 DEF Holding

\* What a pass makes of the Req object of x, whose row is in it or not.
Advanced(x, q, to, pages) ==
  /\ q.prot = req[x].prot /\ q.prefix = req[x].prefix /\ q.node = req[x].node
  /\ IF x \in DOMAIN pages THEN q.pages = pages[x] /\ q.kv = to[x] ELSE q.pages = req[x].pages /\ q.kv = req[x].kv

\* Every row of pages begins as before, and has no more pages than it needs.
Starts(from, to, pages) ==
  \A r \in DOMAIN pages : /\ from[r] = Have(req[r]) /\ from[r] \in Nat /\ to[r] \in Nat /\ from[r] <= to[r]
                          /\ Len(pages[r]) \in Nat /\ Len(pages[r]) <= PageCount(to[r])
                          /\ Len(req[r].pages) = PageCount(from[r])
                          /\ \A i \in 1 .. PageCount(from[r]) : pages[r][i] = req[r].pages[i]

\* A whole page below a length is one of its pages.
LEMMA PageBelow ==
    ASSUME NEW n \in Nat, NEW i \in Nat, i * PageSize <= n
    PROVE  i <= PageCount(n)
<1>1. PageCount(n) \in Nat /\ \A j \in Int : j * PageSize \in Int /\ (j * PageSize >= n <=> j >= PageCount(n))
  BY PageBounds
<1>2. SUFFICES ASSUME i > PageCount(n) PROVE FALSE
  BY <1>1
<1>3. i - 1 \in Int /\ i - 1 >= PageCount(n)
  BY <1>1, <1>2
<1>4. (i - 1) * PageSize >= n /\ (i - 1) * PageSize \in Int /\ i * PageSize \in Int
  BY <1>1, <1>3
<1>5. i * PageSize = (i - 1) * PageSize + PageSize
  BY PageSizeAssumption
<1>. QED
  BY <1>4, <1>5, PageSizeAssumption

\* The memory after a pass.
LEMMA PassMem ==
    ASSUME NEW H \in SUBSET Reqs, NEW b, MemInv(b, content, req, H), NEW c, NEW rq2, Pool(c, rq2, H), Faithful(c, content),
           NEW from, NEW to, NEW pages, DOMAIN pages \subseteq H, Starts(from, to, pages),
           \A x \in H : Advanced(x, rq2[x], to, pages)
    PROVE  MemInv(c, Written(from, to, pages), rq2, H)
<1>. DEFINE ct == Written(from, to, pages)
<1>1. ASSUME NEW x \in H
      PROVE  /\ Filled(content, x, req[x], Have(req[x])) /\ req[x].prot \in Nat
             /\ req[x].prefix \in Nat /\ req[x].kv \in Nat /\ req[x].prot <= req[x].prefix
  <2>1. Row(b, content, x, req[x])
    BY DEF MemInv
  <2>2. Filled(content, x, req[x], Have(req[x]))
    BY <2>1, RowParts
  <2>. QED
    BY <2>1, <2>2 DEF Row
<1>2. Writes(rq2, from, to, pages)
  <2>1. SUFFICES ASSUME NEW r \in DOMAIN pages
                 PROVE  /\ pages[r] = rq2[r].pages /\ from[r] \in Nat /\ to[r] \in Nat
                        /\ rq2[r].prot <= from[r] /\ from[r] <= to[r]
                        /\ Len(pages[r]) <= PageCount(to[r])
                        /\ \A i \in (PageCount(rq2[r].prot) + 1) .. Len(pages[r]) :
                             i * PageSize <= from[r] => content[pages[r][i]] = Ids(r, i * PageSize)
    BY DEF Writes
  <2>2. r \in H /\ rq2[r].prot = req[r].prot /\ rq2[r].pages = pages[r]
    BY DEF Advanced
  <2>3. /\ from[r] = Have(req[r]) /\ from[r] \in Nat /\ to[r] \in Nat /\ from[r] <= to[r]
        /\ Len(pages[r]) \in Nat /\ Len(pages[r]) <= PageCount(to[r]) /\ Len(req[r].pages) = PageCount(from[r])
        /\ \A i \in 1 .. PageCount(from[r]) : pages[r][i] = req[r].pages[i]
    BY DEF Starts
  <2>4. req[r].prot <= from[r]
    BY <1>1, <2>2, <2>3 DEF Have
  <2>5. ASSUME NEW i \in (PageCount(req[r].prot) + 1) .. Len(pages[r]), i * PageSize <= from[r]
        PROVE  content[pages[r][i]] = Ids(r, i * PageSize)
    <3>1. PageCount(req[r].prot) \in Nat
      BY <1>1, <2>2, PageBounds
    <3>2. i \in Nat /\ i >= 1
      BY <3>1
    <3>3. i <= PageCount(from[r])
      BY <2>3, <2>5, <3>2, PageBelow
    <3>4. PageCount(from[r]) \in Nat
      BY <2>3, PageBounds
    <3>5. pages[r][i] = req[r].pages[i] /\ i \in (PageCount(req[r].prot) + 1) .. Len(req[r].pages)
      BY <2>3, <3>1, <3>2, <3>3, <3>4
    <3>6. content[req[r].pages[i]] = Upto(r, i, from[r])
      BY <1>1, <2>2, <2>3, <3>5 DEF Filled
    <3>. QED
      BY <2>5, <3>5, <3>6 DEF Upto
  <2>. QED
    BY <2>2, <2>3, <2>4, <2>5
<1>3. /\ Faithful(c, ct)
      /\ \A r \in DOMAIN pages : Filled(ct, r, rq2[r], to[r])
      /\ \A r \in H : r \notin DOMAIN pages => \A n : Filled(content, r, rq2[r], n) => Filled(ct, r, rq2[r], n)
  BY <1>2, WrittenMem
<1>. HIDE DEF ct
<1>4. ASSUME NEW x \in H PROVE Row(c, ct, x, rq2[x])
  <2>1. Shaped(c, x, rq2[x])
    BY DEF Pool
  <2>2. rq2[x].prot = req[x].prot /\ rq2[x].prefix = req[x].prefix
    BY DEF Advanced
  <2>3. CASE x \in DOMAIN pages
    <3>1. rq2[x].kv = to[x] /\ from[x] = Have(req[x]) /\ from[x] <= to[x] /\ from[x] \in Nat /\ to[x] \in Nat
      BY <2>3 DEF Advanced, Starts
    <3>2. rq2[x].prefix <= rq2[x].kv /\ rq2[x].kv \in Nat
      BY <1>1, <2>2, <3>1 DEF Have
    <3>3. Have(rq2[x]) = to[x]
      BY <1>1, <2>2, <3>1, <3>2 DEF Have
    <3>. QED
      BY <1>1, <1>3, <2>1, <2>2, <2>3, <3>2, <3>3, RowParts
  <2>4. CASE x \notin DOMAIN pages
    <3>1. rq2[x].pages = req[x].pages /\ rq2[x].kv = req[x].kv
      BY <2>4 DEF Advanced
    <3>2. Have(rq2[x]) = Have(req[x])
      BY <2>2, <3>1 DEF Have
    <3>3. Filled(content, x, rq2[x], Have(rq2[x]))
      BY <1>1, <2>2, <3>1, <3>2 DEF Filled
    <3>4. Filled(ct, x, rq2[x], Have(rq2[x]))
      BY <1>3, <2>4, <3>3
    <3>. QED
      BY <1>1, <2>1, <2>2, <3>1, <3>4, RowParts
  <2>. QED
    BY <2>3, <2>4
<1>. QED
  BY <1>3, <1>4 DEF MemInv, Pool, ct

\* The Req object of a request that decodes a token in a pass.
Decoded(r, q) ==
  /\ q.kv = req[r].kv + 1 /\ q.fill \in {req[r].fill, SeqLen(r)} /\ q.prefix = req[r].prefix
  /\ Len(q.pages) = PageCount(q.kv) /\ q.chunks = req[r].chunks /\ q.holds = req[r].holds
  /\ q.finished = req[r].finished /\ q.retracted = req[r].retracted /\ q.out = req[r].out

\* Its lengths.
LEMMA DecodedLen ==
    ASSUME SInv, CInv, MInv, pc \notin {"process", "crashed"}, pc' = "process", NEW r \in Holders, ~InBatch(r),
           r # chunked, chunked' = chunked, Dues(r)' = Dues(r) + 1, Chks(r)' = Chks(r),
           Decoded(r, req'[r])
    PROVE  LenOf(r)'
<1>1. /\ r \in Reqs /\ req[r].holds /\ req[r].prefix \in Nat /\ req[r].kv \in Nat /\ req[r].fill \in Nat
      /\ req[r].prefix <= req[r].fill /\ req[r].chunks = Chks(r) /\ Batched(r)
  BY HolderFacts
<1>2. req[r].fill <= req[r].kv /\ ~req[r].retracted /\ req[r].kv = SeqLen(r) - 1 + Dues(r)
  BY <1>1 DEF Batched
<1>3. SeqLen(r) \in Nat \ {0}
  BY <1>1, Outs
<1>4. Dues(r) \in {0, 1}
  BY OnePass
<1>5. PICK q : q = req'[r]
  OBVIOUS
<1>6. /\ q.kv = req[r].kv + 1 /\ q.fill \in {req[r].fill, SeqLen(r)} /\ q.prefix = req[r].prefix
      /\ Len(q.pages) = PageCount(q.kv) /\ q.chunks = req[r].chunks /\ q.holds = req[r].holds
      /\ q.finished = req[r].finished /\ q.retracted = req[r].retracted /\ q.out = req[r].out
  BY <1>5 DEF Decoded
<1>7. q.fill <= q.kv /\ q.prefix <= q.fill /\ q.kv = SeqLen(r) - 1 + (Dues(r) + 1)
  BY <1>1, <1>2, <1>3, <1>4, <1>6
<1>8. SeqLen(r)' = SeqLen(r) /\ ~InBatch(r)'
  BY <1>5, <1>6 DEF SeqLen, InBatch, Admitting
<1>9. Batched(r)'
  BY <1>2, <1>5, <1>6, <1>7, <1>8 DEF Batched
<1>. QED
  BY <1>1, <1>5, <1>6, <1>7, <1>8, <1>9 DEF LenOf

\* The row of a request that is not being added can grow.
LEMMA RoomToDecode ==
    ASSUME SInv, CInv, MInv, pc # "crashed", NEW r \in Holders, ~InBatch(r)
    PROVE  /\ req[r].kv = Have(req[r]) /\ req[r].kv \in Nat /\ req[r].kv + 1 \in Nat /\ req[r].kv <= req[r].kv + 1
           /\ req[r].pages \in Seq(Pages) /\ Len(req[r].pages) = PageCount(req[r].kv)
<1>1. /\ Row(cache, content, r, req[r]) /\ req[r].prefix \in Nat /\ req[r].kv \in Nat /\ req[r].fill \in Nat
      /\ req[r].prefix <= req[r].fill /\ Batched(r)
  BY HolderFacts
<1>2. req[r].fill <= req[r].kv /\ Len(req[r].pages) = PageCount(req[r].kv)
  BY <1>1 DEF Batched
<1>3. req[r].pages \in Seq(Pages)
  BY <1>1 DEF Row
<1>. QED
  BY <1>1, <1>2, <1>3 DEF Have

\* The cache and its holders before a batch gets its pages.
LEMMA HoldingNow ==
    ASSUME CInv, MInv
    PROVE  Holding(cache, Nodes, req, Holders) /\ Holders \in SUBSET Reqs
<1>1. CacheInv(cache, Nodes, Toks) /\ DOMAIN Nodes = Holders /\ \A x \in Holders : Nodes[x] = req[x].node
  BY DEF CInv, Nodes
<1>2. MemInv(cache, content, req, Holders)
  BY DEF MInv
<1>3. Pool(cache, req, Holders)
  BY <1>2, MemPool
<1>4. Faithful(cache, content)
  BY <1>2 DEF MemInv
<1>5. Holders \in SUBSET Reqs
  BY DEF Holders
<1>. QED
  BY <1>1, <1>3, <1>4, <1>5 DEF Holding

\* What a decoding batch does: m are the pages it gets, in cache c.
DecodesWith(c, from, to, m) ==
  /\ from = [r \in Reqs |-> req[r].kv] /\ to = [r \in Reqs |-> req[r].kv + 1]
  /\ Given(c, running, from, to, m)
  /\ cache' = m.cache /\ content' = Written(from, to, m.pages)
  /\ req' = [r \in Reqs |-> IF r \in DOMAIN m.pages THEN [req[r] EXCEPT !.pages = m.pages[r], !.kv = @ + 1] ELSE req[r]]
  /\ pc' = IF m.ok THEN "process" ELSE "crashed"

\* Such pages are found in the action.
LEMMA DecodeFinds ==
    ASSUME Decode
    PROVE  \E c \in EvictFromTreeCache(cache, Len(running) * PageSize) : \E from, to, m : DecodesWith(c, from, to, m)
<1>. DEFINE f == [r \in Reqs |-> req[r].kv]
            t == [r \in Reqs |-> req[r].kv + 1]
            batch == [mode |-> "decode", reqs |-> running, chunked |-> None, decoding |-> {}]
<1>1. PICK c \in EvictFromTreeCache(cache, Len(running) * PageSize) :
           LET m == Allocate(c, running, f, t)
           IN  /\ cache' = m.cache
               /\ content' = Written(f, t, m.pages)
               /\ req' = [r \in Reqs |-> IF r \in DOMAIN m.pages
                                         THEN [req[r] EXCEPT !.pages = m.pages[r], !.kv = @ + 1]
                                         ELSE req[r]]
               /\ pc' = IF m.ok THEN "process" ELSE "crashed"
               /\ cur' = batch /\ results' = Append(results, batch)
  BY Zenon DEF Decode
<1>2. DecodesWith(c, f, t, Allocate(c, running, f, t))
  BY <1>1, Zenon DEF DecodesWith, Given
<1>. QED
  BY <1>2, Zenon

\* prepare_for_decode and run_batch: every running request gets the place
\* for a token.
LEMMA DecodeMem ==
    ASSUME SInv, CInv, MInv, Decode
    PROVE  MInv'
<1>. DEFINE batch == [mode |-> "decode", reqs |-> running, chunked |-> None, decoding |-> {}]
<1>1. /\ pc = "forward" /\ pc' \in {"process", "crashed"} /\ results' = Append(results, batch)
      /\ UNCHANGED <<running, chunked, rows, adder>> /\ \A x \in Reqs : Same(x)
  BY DecodeMeaning
<1>2. PICK c \in EvictFromTreeCache(cache, Len(running) * PageSize) : \E from, to, m : DecodesWith(c, from, to, m)
  BY DecodeFinds
<1>3. PICK from, to, m : DecodesWith(c, from, to, m)
  BY <1>2
<1>4. ReqShape /\ running \in Seq(Reqs) /\ IsInjective(running)
  BY DEF SInv, Types, ReqTypes, ReqShape, QueueTypes
<1>5. \A x : ~InBatch(x) /\ ~InBatch(x)'
  BY <1>1 DEF InBatch, Admitting
<1>6. chunked = None
  BY <1>1 DEF SInv, Placed, Prefill, Admitting
<1>7. ToSet(running) \subseteq Holders
  <2>1. ToSet(running) \subseteq Reqs /\ \A x \in ToSet(running) : ~Finished(x)
    BY <1>1, Members DEF SInv, Placed
  <2>2. \A x \in ToSet(running) : req[x].holds
    BY <1>1, <2>1 DEF SInv, Held
  <2>. QED
    BY <2>1, <2>2, Zenon DEF Holders
<1>8. Proper(batch) /\ batch.reqs = running /\ batch.chunked = None
  BY <1>4 DEF Proper, Batches
<1>. HIDE DEF batch
<1>9. /\ \A x \in ToSet(running) : x \in Reqs => Dues(x)' = Dues(x) + 1 /\ Chks(x)' = Chks(x)
      /\ \A x \in Reqs : x \notin ToSet(running) => SameDue(x)
      /\ Len(results') <= 2
  <2>1. ASSUME NEW x
        PROVE  /\ Dues(x)' = Dues(x) + (IF x \in ToSet(running) /\ None # x THEN 1 ELSE 0)
               /\ Chks(x)' = Chks(x) + (IF x \in ToSet(running) /\ None = x THEN 1 ELSE 0)
               /\ Len(results') <= 2
    BY <1>1, <1>8, PassAdded
  <2>2. \A x : Dues(x) \in 0 .. 2 /\ Chks(x) \in 0 .. 2
    BY DueType
  <2>3. Len(results') <= 2
    BY <2>1
  <2>4. ASSUME NEW x \in Reqs, x \in ToSet(running) PROVE Dues(x)' = Dues(x) + 1 /\ Chks(x)' = Chks(x)
    BY <2>1, <2>2, <2>4, ReqsAssumption
  <2>5. ASSUME NEW x \in Reqs, x \notin ToSet(running) PROVE SameDue(x)
    BY <2>1, <2>2, <2>5 DEF SameDue
  <2>. QED
    BY <2>3, <2>4, <2>5
<1>10. /\ from = [r \in Reqs |-> req[r].kv] /\ to = [r \in Reqs |-> req[r].kv + 1] /\ Given(c, running, from, to, m)
       /\ cache' = m.cache /\ content' = Written(from, to, m.pages)
       /\ pc' = IF m.ok THEN "process" ELSE "crashed"
  BY <1>3 DEF DecodesWith
<1>11. Holding(cache, Nodes, req, Holders) /\ Holders \in SUBSET Reqs
  BY HoldingNow
<1>12. \A x \in Reqs : from[x] = req[x].kv /\ to[x] = req[x].kv + 1
  BY <1>10
<1>13. ASSUME NEW x \in ToSet(running)
       PROVE  /\ x \in Reqs /\ from[x] = Have(req[x]) /\ from[x] \in Nat /\ to[x] \in Nat /\ from[x] <= to[x]
              /\ req[x].pages \in Seq(Pages) /\ Len(req[x].pages) = PageCount(from[x])
  <2>1. x \in Holders /\ x \in Reqs
    BY <1>7, <1>11
  <2>2. /\ req[x].kv = Have(req[x]) /\ req[x].kv \in Nat /\ req[x].kv + 1 \in Nat /\ req[x].kv <= req[x].kv + 1
        /\ req[x].pages \in Seq(Pages) /\ Len(req[x].pages) = PageCount(req[x].kv)
    BY <1>1, <1>5, <2>1, RoomToDecode
  <2>. QED
    BY <1>12, <2>1, <2>2
<1>14. Room(running, from, to)
  BY <1>13 DEF Room
<1>15. Unserved(req, running)
  BY DEF Unserved
<1>16. DOMAIN m.pages = ToSet(running)
  BY <1>10 DEF Given, Allocate
<1>17. PICK rq2 : rq2 = req'
  OBVIOUS
<1>18. ASSUME NEW x \in Reqs
       PROVE  rq2[x] = IF x \in ToSet(running) THEN [req[x] EXCEPT !.pages = m.pages[x], !.kv = @ + 1] ELSE req[x]
  BY <1>3, <1>16, <1>17 DEF DecodesWith
<1>19. ASSUME NEW x \in ToSet(running), x \in Reqs
       PROVE  /\ rq2[x].prot = req[x].prot /\ rq2[x].node = req[x].node /\ rq2[x].prefix = req[x].prefix
              /\ rq2[x].pages = m.pages[x] /\ rq2[x].kv = req[x].kv + 1 /\ rq2[x].fill = req[x].fill
              /\ rq2[x].out = req[x].out
  BY <1>4, <1>18, <1>19 DEF ReqShape, FreshReq
<1>20. \A x \in Reqs : x \notin ToSet(running) => rq2[x] = req[x]
  BY <1>18
<1>21. Served(req, rq2, Holders, running, m)
  <2>1. ASSUME NEW x \in Holders
        PROVE  /\ rq2[x].prot = req[x].prot /\ rq2[x].node = req[x].node
               /\ rq2[x].pages = IF x \in ToSet(running) THEN m.pages[x] ELSE req[x].pages
    BY <1>11, <1>19, <1>20
  <2>. QED
    BY <2>1 DEF Served
<1>22. Holding(m.cache, Nodes, rq2, Holders) /\ Supplied(running, from, to, m) /\ m.ok \in BOOLEAN
  BY <1>2, <1>4, <1>7, <1>10, <1>11, <1>14, <1>15, <1>21, ServeRows
<1>23. Starts(from, to, m.pages)
  BY <1>13, <1>16, <1>22 DEF Starts, Supplied
<1>24. \A x \in Holders : Advanced(x, rq2[x], to, m.pages)
  <2>1. ASSUME NEW x \in Holders PROVE Advanced(x, rq2[x], to, m.pages)
    BY <1>11, <1>12, <1>16, <1>19, <1>20 DEF Advanced
  <2>. QED
    BY <2>1
<1>25. MemInv(m.cache, Written(from, to, m.pages), rq2, Holders)
  <2>1. MemInv(cache, content, req, Holders) /\ Pool(m.cache, rq2, Holders) /\ Faithful(m.cache, content)
    BY <1>22 DEF MInv, Holding
  <2>. QED
    BY <1>7, <1>11, <1>16, <1>23, <1>24, <2>1, PassMem
<1>26. Holders' = Holders
  BY <1>1 DEF Holders, Same
<1>27. MemInv(cache, content, req, Holders)'
  BY <1>10, <1>17, <1>25, <1>26
<1>28. Counts'
  <2>1. rows' \in 0 .. MaxRunning
    BY <1>1 DEF MInv, NInv, Counts
  <2>2. ASSUME NEW x \in Reqs
        PROVE  /\ req'[x].out \in 0 .. MaxNew[x] /\ (~req'[x].finished => req'[x].out < MaxNew[x])
               /\ req'[x].chunks \in 0 .. 2
    <3>1. req'[x].out = req[x].out
      BY <1>17, <1>19, <1>20
    <3>2. req'[x].finished = req[x].finished /\ req'[x].chunks = req[x].chunks
      BY <1>1 DEF Same
    <3>. QED
      BY <3>1, <3>2 DEF MInv, NInv, Counts
  <2>. QED
    BY <1>9, <2>1, <2>2 DEF Counts
<1>29. ASSUME pc' # "crashed" PROVE Lengths'
  <2>1. SUFFICES ASSUME NEW x \in Reqs PROVE LenOf(x)'
    BY DEF Lengths
  <2>2. m.ok /\ pc' = "process"
    BY <1>10, <1>29
  <2>3. CASE x \in ToSet(running)
    <3>1. Len(m.pages[x]) = PageCount(to[x])
      BY <1>22, <2>2, <2>3 DEF Supplied
    <3>2. /\ rq2[x].holds = req[x].holds /\ rq2[x].finished = req[x].finished
          /\ rq2[x].retracted = req[x].retracted /\ rq2[x].chunks = req[x].chunks
      BY <1>1, <1>17 DEF Same
    <3>3. Decoded(x, rq2[x])
      BY <1>12, <1>19, <2>3, <3>1, <3>2 DEF Decoded
    <3>4. x # chunked /\ x \in Holders
      BY <1>6, <1>7, <2>3, ReqsAssumption
    <3>. QED
      BY <1>1, <1>5, <1>9, <1>17, <2>2, <2>3, <3>3, <3>4, DecodedLen
  <2>4. CASE x \notin ToSet(running)
    <3>1. req'[x] = req[x]
      BY <1>17, <1>20, <2>4
    <3>2. SameLen(x) /\ SameDue(x) /\ LenOf(x)
      BY <1>1, <1>9, <2>4, <3>1 DEF SameLen, MInv, NInv, Lengths
    <3>3. chunked' = x <=> chunked = x
      BY <1>1
    <3>4. InBatch(x)' <=> InBatch(x)
      BY <1>5
    <3>. QED
      BY <2>2, <3>2, <3>3, <3>4, LenKept
  <2>. QED
    BY <2>3, <2>4
<1>30. Cardinality(Holders') <= MaxRunning
  BY <1>1, <1>26 DEF MInv, NInv
<1>. QED
  BY <1>27, <1>28, <1>29, <1>30 DEF MInv, NInv

\* The running requests that decode in a mixed batch.
MixedIn == IF args.mixed THEN Unfinished(running) ELSE << >>

\* The two parts of a new batch.
LEMMA BatchParts ==
    ASSUME SInv, pc = "batch"
    PROVE  /\ adder.can \in Seq(Reqs) /\ IsInjective(adder.can) /\ MixedIn \in Seq(Reqs) /\ IsInjective(MixedIn)
           /\ ToSet(adder.can) \cap ToSet(MixedIn) = {}
           /\ ToSet(adder.can) \subseteq Holders /\ ToSet(MixedIn) \subseteq Holders
           /\ \A x : (InBatch(x) <=> x \in ToSet(adder.can))
           /\ \A x : (Contains(adder.can, x) <=> x \in ToSet(adder.can)) /\ (Contains(MixedIn, x) <=> x \in ToSet(MixedIn))
           /\ chunked \in Reqs \cup {None} /\ (chunked # None => chunked \in ToSet(adder.can))
<1>1. /\ adder.can \in Seq(Reqs) /\ IsInjective(adder.can) /\ ToSet(adder.can) \subseteq Reqs
      /\ ToSet(running) \subseteq Reqs /\ chunked \in Reqs \cup {None}
  BY Members DEF SInv, Types, QueueTypes, LoopTypes
<1>2. Admitting /\ Prefill = ToSet(adder.can) /\ Placed /\ Held
  BY DEF SInv, Admitting, Prefill
<1>3. /\ MixedIn \in Seq(Reqs) /\ IsInjective(MixedIn)
      /\ \A x \in ToSet(MixedIn) : x \in ToSet(running) /\ ~Finished(x)
  <2>1. CASE args.mixed
    BY <2>1, UnfinishedMeaning DEF MixedIn, SInv
  <2>2. CASE ~args.mixed
    <3>1. MixedIn = << >>
      BY <2>2 DEF MixedIn
    <3>. QED
      BY <3>1, ShortLists
  <2>. QED
    BY <2>1, <2>2
<1>4. ToSet(adder.can) \cap ToSet(MixedIn) = {}
  BY <1>2, <1>3 DEF Placed
<1>5. \A x \in ToSet(adder.can) : ~Finished(x)
  BY <1>2 DEF Placed
<1>6. ToSet(adder.can) \subseteq Holders
  <2>1. \A x \in ToSet(adder.can) : req[x].holds
    BY <1>1, <1>2, <1>5 DEF Held
  <2>. QED
    BY <1>1, <2>1, Zenon DEF Holders
<1>7. ToSet(MixedIn) \subseteq Holders
  <2>1. \A x \in ToSet(MixedIn) : x \in Reqs /\ req[x].holds
    BY <1>1, <1>2, <1>3 DEF Held
  <2>. QED
    BY <2>1, Zenon DEF Holders
<1>8. \A x : (InBatch(x) <=> x \in ToSet(adder.can))
  BY <1>2 DEF InBatch
<1>9. \A x : (Contains(adder.can, x) <=> x \in ToSet(adder.can)) /\ (Contains(MixedIn, x) <=> x \in ToSet(MixedIn))
  <2>. DEFINE M == MixedIn
  <2>1. M \in Seq(Reqs)
    BY <1>3
  <2>. HIDE DEF M
  <2>2. \A x : Contains(M, x) <=> x \in ToSet(M)
    BY <2>1 DEF Contains, ToSet
  <2>3. \A x : Contains(adder.can, x) <=> x \in ToSet(adder.can)
    BY <1>1 DEF Contains, ToSet
  <2>. QED
    BY <2>2, <2>3 DEF M
<1>10. chunked # None => chunked \in ToSet(adder.can)
  BY <1>2 DEF Placed
<1>. QED
  BY <1>1, <1>3, <1>4, <1>6, <1>7, <1>8, <1>9, <1>10

\* The Req object of r in a new batch with the rows pages.
InNewBatch(r, to, pages) ==
  [req[r] EXCEPT !.pages = IF r \in DOMAIN pages THEN pages[r] ELSE @,
                 !.kv = IF r \in DOMAIN pages THEN to[r] ELSE @,
                 !.fill = IF Contains(MixedIn, r) THEN SeqLen(r) ELSE @,
                 !.retracted = @ /\ ~Contains(adder.can, r),
                 !.chunks = IF r = chunked THEN @ + 1 ELSE @]

\* The rows of a new batch, whose two parts get m and k.
RowsOf(m, k) ==
  [r \in ToSet(adder.can) \cup ToSet(MixedIn) |-> IF r \in ToSet(adder.can) THEN m.pages[r] ELSE k.pages[r]]

\* What a new batch does: m and k are the pages its two parts get.
BatchesWith(c, d, from, to, m, k) ==
  /\ from = [r \in Reqs |-> IF Contains(MixedIn, r) THEN req[r].kv ELSE req[r].prefix]
  /\ to = [r \in Reqs |-> IF Contains(MixedIn, r) THEN req[r].kv + 1 ELSE req[r].fill]
  /\ Given(c, adder.can, from, to, m) /\ Given(d, MixedIn, from, to, k)
  /\ cache' = k.cache /\ content' = Written(from, to, RowsOf(m, k))
  /\ req' = [r \in Reqs |-> InNewBatch(r, to, RowsOf(m, k))]
  /\ pc' = IF m.ok /\ k.ok /\ rows >= Len(adder.can) THEN "process" ELSE "crashed"

\* Such pages are found in the action.
LEMMA BatchFinds ==
    ASSUME NewBatch
    PROVE  \E c, d, from, to, m, k : /\ BatchesWith(c, d, from, to, m, k)
                                     /\ \E n : c \in EvictFromTreeCache(cache, n)
                                     /\ \E n : d \in EvictFromTreeCache(m.cache, n)
<1>. DEFINE rs == adder.can
            dec == IF args.mixed THEN Unfinished(running) ELSE << >>
            batch == [mode |-> "extend", reqs |-> rs \o dec, chunked |-> chunked, decoding |-> ToSet(dec)]
            from == [r \in Reqs |-> IF Contains(dec, r) THEN req[r].kv ELSE req[r].prefix]
            to == [r \in Reqs |-> IF Contains(dec, r) THEN req[r].kv + 1 ELSE req[r].fill]
            extend == SumFunction([i \in 1 .. Len(rs) |-> to[rs[i]] - from[rs[i]]])
            New(r, pages) == [req[r] EXCEPT !.pages = IF r \in DOMAIN pages THEN pages[r] ELSE @,
                                            !.kv = IF r \in DOMAIN pages THEN to[r] ELSE @,
                                            !.fill = IF Contains(dec, r) THEN SeqLen(r) ELSE @,
                                            !.retracted = @ /\ ~Contains(rs, r),
                                            !.chunks = IF r = chunked THEN @ + 1 ELSE @]
<1>1. PICK c \in EvictFromTreeCache(cache, IF PageSize = 1 THEN extend ELSE extend + Len(rs) * PageSize) :
        LET m == Allocate(c, rs, from, to)
        IN  \E d \in EvictFromTreeCache(m.cache, Len(dec) * PageSize) :
              LET k == Allocate(d, dec, from, to)
                  pages == [r \in ToSet(rs) \cup ToSet(dec) |-> IF r \in ToSet(rs) THEN m.pages[r] ELSE k.pages[r]]
              IN  (/\ cache' = k.cache
                   /\ content' = Written(from, to, pages)
                   /\ req' = [r \in Reqs |-> New(r, pages)]
                   /\ rows' = rows - Len(rs)
                   /\ pc' = IF m.ok /\ k.ok /\ rows >= Len(rs) THEN "process" ELSE "crashed"
                   /\ cur' = batch /\ results' = Append(results, batch))
                  /\ waiting' = Those(waiting, Reqs \ ToSet(rs))
                  /\ running' = IF args.mixed THEN << >> ELSE running
  BY Zenon DEF NewBatch
<1>. DEFINE m == Allocate(c, rs, from, to)
<1>2. PICK d \in EvictFromTreeCache(m.cache, Len(dec) * PageSize) :
              LET k == Allocate(d, dec, from, to)
                  pages == [r \in ToSet(rs) \cup ToSet(dec) |-> IF r \in ToSet(rs) THEN m.pages[r] ELSE k.pages[r]]
              IN  (/\ cache' = k.cache
                   /\ content' = Written(from, to, pages)
                   /\ req' = [r \in Reqs |-> New(r, pages)]
                   /\ rows' = rows - Len(rs)
                   /\ pc' = IF m.ok /\ k.ok /\ rows >= Len(rs) THEN "process" ELSE "crashed"
                   /\ cur' = batch /\ results' = Append(results, batch))
                  /\ waiting' = Those(waiting, Reqs \ ToSet(rs))
                  /\ running' = IF args.mixed THEN << >> ELSE running
  BY <1>1
<1>. DEFINE k == Allocate(d, dec, from, to)
<1>3. BatchesWith(c, d, from, to, m, k)
  BY <1>2, Zenon DEF BatchesWith, Given, MixedIn, InNewBatch, RowsOf
<1>4. \E n : c \in EvictFromTreeCache(cache, n)
  BY Zenon
<1>5. \E n : d \in EvictFromTreeCache(m.cache, n)
  BY Zenon
<1>. HIDE DEF m, k, from, to
<1>. QED
  BY <1>3, <1>4, <1>5, Zenon

\* The lengths between which a new batch computes.
Ranges(from, to) ==
  \A x \in Reqs : /\ x \in ToSet(MixedIn) => from[x] = req[x].kv /\ to[x] = req[x].kv + 1
                  /\ x \notin ToSet(MixedIn) => from[x] = req[x].prefix /\ to[x] = req[x].fill

\* The rows of a new batch can grow.
LEMMA BatchRoom ==
    ASSUME SInv, CInv, MInv, pc = "batch", NEW from, NEW to, Ranges(from, to)
    PROVE  Room(adder.can, from, to) /\ Room(MixedIn, from, to)
<1>1. /\ ToSet(adder.can) \cap ToSet(MixedIn) = {}
      /\ ToSet(adder.can) \subseteq Holders /\ ToSet(MixedIn) \subseteq Holders
      /\ \A x : (InBatch(x) <=> x \in ToSet(adder.can))
  BY BatchParts
<1>2. Holders \in SUBSET Reqs
  BY HoldingNow
<1>3. ASSUME NEW x \in ToSet(adder.can)
      PROVE  /\ from[x] = Have(req[x]) /\ from[x] \in Nat /\ to[x] \in Nat /\ from[x] <= to[x]
             /\ req[x].pages \in Seq(Pages) /\ Len(req[x].pages) = PageCount(from[x])
  <2>1. x \in Holders /\ x \in Reqs /\ x \notin ToSet(MixedIn) /\ InBatch(x)
    BY <1>1, <1>2
  <2>2. from[x] = req[x].prefix /\ to[x] = req[x].fill
    BY <2>1 DEF Ranges
  <2>3. /\ Row(cache, content, x, req[x]) /\ req[x].prefix \in Nat /\ req[x].kv \in Nat /\ req[x].fill \in Nat
        /\ req[x].prefix <= req[x].fill /\ Adding(x)
    BY <2>1, HolderFacts
  <2>4. req[x].kv <= req[x].prefix /\ Len(req[x].pages) = PageCount(req[x].prefix)
    BY <2>3 DEF Adding
  <2>5. req[x].pages \in Seq(Pages)
    BY <2>3 DEF Row
  <2>6. Have(req[x]) = req[x].prefix
    BY <2>3, <2>4 DEF Have
  <2>. QED
    BY <2>2, <2>3, <2>4, <2>5, <2>6
<1>4. ASSUME NEW x \in ToSet(MixedIn)
      PROVE  /\ from[x] = Have(req[x]) /\ from[x] \in Nat /\ to[x] \in Nat /\ from[x] <= to[x]
             /\ req[x].pages \in Seq(Pages) /\ Len(req[x].pages) = PageCount(from[x])
  <2>1. x \in Holders /\ x \in Reqs /\ ~InBatch(x)
    BY <1>1, <1>2
  <2>2. from[x] = req[x].kv /\ to[x] = req[x].kv + 1
    BY <2>1 DEF Ranges
  <2>3. /\ req[x].kv = Have(req[x]) /\ req[x].kv \in Nat /\ req[x].kv + 1 \in Nat /\ req[x].kv <= req[x].kv + 1
        /\ req[x].pages \in Seq(Pages) /\ Len(req[x].pages) = PageCount(req[x].kv)
    BY <2>1, RoomToDecode
  <2>. QED
    BY <2>2, <2>3
<1>5. Room(adder.can, from, to)
  BY <1>3 DEF Room
<1>6. Room(MixedIn, from, to)
  BY <1>4 DEF Room
<1>. QED
  BY <1>5, <1>6

\* The Req objects after a new batch: pages are the rows of its members.
Batching(rq2, to, pages) ==
  \A x \in Reqs :
    /\ Advanced(x, rq2[x], to, pages) /\ rq2[x].out = req[x].out /\ rq2[x].holds = req[x].holds
    /\ rq2[x].finished = req[x].finished
    /\ rq2[x].fill = IF x \in ToSet(MixedIn) THEN SeqLen(x) ELSE req[x].fill
    /\ x \in ToSet(adder.can) => ~rq2[x].retracted
    /\ x \notin ToSet(adder.can) => rq2[x].retracted = req[x].retracted
    /\ rq2[x].chunks = IF x = chunked THEN req[x].chunks + 1 ELSE req[x].chunks

\* The rows of two allocations.
BothPages(m, k, pages) ==
  /\ DOMAIN pages = ToSet(adder.can) \cup ToSet(MixedIn)
  /\ \A x \in ToSet(adder.can) : pages[x] = m.pages[x]
  /\ \A x \in ToSet(MixedIn) : pages[x] = k.pages[x]

\* A new batch in these terms.
LEMMA BatchMeans ==
    ASSUME SInv, NewBatch, NEW c, NEW d, NEW from, NEW to, NEW m, NEW k, BatchesWith(c, d, from, to, m, k)
    PROVE  \E pages : /\ Ranges(from, to) /\ BothPages(m, k, pages) /\ content' = Written(from, to, pages)
                      /\ Batching(req', to, pages)
<1>1. pc = "batch"
  BY Zenon DEF NewBatch
<1>2. /\ ToSet(adder.can) \cap ToSet(MixedIn) = {}
      /\ \A x : (Contains(adder.can, x) <=> x \in ToSet(adder.can)) /\ (Contains(MixedIn, x) <=> x \in ToSet(MixedIn))
  BY <1>1, BatchParts
<1>3. Ranges(from, to)
  BY <1>2 DEF BatchesWith, Ranges
<1>5. PICK pages : pages = RowsOf(m, k)
  OBVIOUS
<1>6. BothPages(m, k, pages)
  BY <1>2, <1>5 DEF BothPages, RowsOf
<1>7. content' = Written(from, to, pages) /\ req' = [r \in Reqs |-> InNewBatch(r, to, pages)]
  BY <1>5 DEF BatchesWith
<1>8. ReqShape
  BY DEF SInv, Types, ReqTypes, ReqShape
<1>9. ASSUME NEW x \in Reqs
      PROVE  /\ Advanced(x, req'[x], to, pages) /\ req'[x].out = req[x].out /\ req'[x].holds = req[x].holds
             /\ req'[x].finished = req[x].finished
             /\ req'[x].fill = IF x \in ToSet(MixedIn) THEN SeqLen(x) ELSE req[x].fill
             /\ x \in ToSet(adder.can) => ~req'[x].retracted
             /\ x \notin ToSet(adder.can) => req'[x].retracted = req[x].retracted
             /\ req'[x].chunks = IF x = chunked THEN req[x].chunks + 1 ELSE req[x].chunks
  <2>1. req'[x] = InNewBatch(x, to, pages) /\ DOMAIN req[x] = DOMAIN FreshReq
    BY <1>7, <1>8 DEF ReqShape
  <2>2. Advanced(x, req'[x], to, pages)
    BY <2>1 DEF InNewBatch, FreshReq, Advanced
  <2>3. /\ req'[x].out = req[x].out /\ req'[x].holds = req[x].holds /\ req'[x].finished = req[x].finished
        /\ req'[x].fill = IF x \in ToSet(MixedIn) THEN SeqLen(x) ELSE req[x].fill
        /\ req'[x].chunks = IF x = chunked THEN req[x].chunks + 1 ELSE req[x].chunks
    BY <1>2, <2>1 DEF InNewBatch, FreshReq
  <2>4. req'[x].retracted = (req[x].retracted /\ ~Contains(adder.can, x))
    BY <2>1 DEF InNewBatch, FreshReq
  <2>5. req[x].retracted \in BOOLEAN
    BY DEF SInv, Types, ReqTypes
  <2>. QED
    BY <1>2, <2>2, <2>3, <2>4, <2>5
<1>10. Batching(req', to, pages)
  BY <1>9 DEF Batching
<1>. QED
  BY <1>3, <1>6, <1>7, <1>10

\* A new batch as the cache and the rows see it.
LEMMA BatchMem ==
    ASSUME SInv, CInv, MInv, pc = "batch", NEW c, NEW n, c \in EvictFromTreeCache(cache, n),
           NEW d, NEW o, NEW m, NEW k, d \in EvictFromTreeCache(m.cache, o), NEW from, NEW to,
           Given(c, adder.can, from, to, m), Given(d, MixedIn, from, to, k), NEW pages, NEW rq2,
           Ranges(from, to), BothPages(m, k, pages), Batching(rq2, to, pages)
    PROVE  /\ MemInv(k.cache, Written(from, to, pages), rq2, Holders)
           /\ Supplied(adder.can, from, to, m) /\ Supplied(MixedIn, from, to, k)
           /\ m.ok \in BOOLEAN /\ k.ok \in BOOLEAN
<1>1. /\ adder.can \in Seq(Reqs) /\ IsInjective(adder.can) /\ MixedIn \in Seq(Reqs) /\ IsInjective(MixedIn)
      /\ ToSet(adder.can) \cap ToSet(MixedIn) = {}
      /\ ToSet(adder.can) \subseteq Holders /\ ToSet(MixedIn) \subseteq Holders
  BY BatchParts
<1>2. Room(adder.can, from, to) /\ Room(MixedIn, from, to)
  BY BatchRoom
<1>3. Holding(cache, Nodes, req, Holders) /\ Holders \in SUBSET Reqs
  BY HoldingNow
<1>4. /\ DOMAIN pages = ToSet(adder.can) \cup ToSet(MixedIn)
      /\ \A x \in ToSet(adder.can) : pages[x] = m.pages[x]
      /\ \A x \in ToSet(MixedIn) : pages[x] = k.pages[x]
  BY DEF BothPages
<1>5. PICK rq1 : rq1 = [x \in Holders |-> [prot |-> req[x].prot, node |-> req[x].node,
                                          pages |-> IF x \in ToSet(adder.can) THEN m.pages[x] ELSE req[x].pages]]
  OBVIOUS
<1>6. \A x \in Holders : /\ rq1[x].prot = req[x].prot /\ rq1[x].node = req[x].node
                         /\ rq1[x].pages = IF x \in ToSet(adder.can) THEN m.pages[x] ELSE req[x].pages
  BY <1>5
<1>7. Served(req, rq1, Holders, adder.can, m)
  BY <1>6 DEF Served
<1>8. Unserved(req, adder.can)
  BY DEF Unserved
<1>9. Holding(m.cache, Nodes, rq1, Holders) /\ Supplied(adder.can, from, to, m) /\ m.ok \in BOOLEAN
  BY <1>1, <1>2, <1>3, <1>7, <1>8, ServeRows
<1>10. \A x \in Holders : Advanced(x, rq2[x], to, pages)
  BY <1>3 DEF Batching
<1>11. Served(rq1, rq2, Holders, MixedIn, k)
  <2>1. ASSUME NEW x \in Holders
        PROVE  /\ rq2[x].prot = rq1[x].prot /\ rq2[x].node = rq1[x].node
               /\ rq2[x].pages = IF x \in ToSet(MixedIn) THEN k.pages[x] ELSE rq1[x].pages
    BY <1>1, <1>4, <1>6, <1>10 DEF Advanced
  <2>. QED
    BY <2>1 DEF Served
<1>12. Unserved(rq1, MixedIn)
  BY <1>1, <1>6 DEF Unserved
<1>13. Holding(k.cache, Nodes, rq2, Holders) /\ Supplied(MixedIn, from, to, k) /\ k.ok \in BOOLEAN
  BY <1>1, <1>2, <1>3, <1>9, <1>11, <1>12, ServeRows
<1>14. Starts(from, to, pages)
  <2>1. ASSUME NEW x \in DOMAIN pages
        PROVE  /\ from[x] = Have(req[x]) /\ from[x] \in Nat /\ to[x] \in Nat /\ from[x] <= to[x]
               /\ Len(pages[x]) \in Nat /\ Len(pages[x]) <= PageCount(to[x])
               /\ Len(req[x].pages) = PageCount(from[x])
               /\ \A i \in 1 .. PageCount(from[x]) : pages[x][i] = req[x].pages[i]
    <3>1. CASE x \in ToSet(adder.can)
      BY <1>2, <1>4, <1>9, <3>1 DEF Room, Supplied
    <3>2. CASE x \in ToSet(MixedIn)
      BY <1>2, <1>4, <1>13, <3>2 DEF Room, Supplied
    <3>. QED
      BY <1>4, <3>1, <3>2
  <2>. QED
    BY <2>1 DEF Starts
<1>15. MemInv(cache, content, req, Holders) /\ Pool(k.cache, rq2, Holders) /\ Faithful(k.cache, content)
  BY <1>13 DEF MInv, Holding
<1>16. DOMAIN pages \subseteq Holders
  BY <1>1, <1>4
<1>17. MemInv(k.cache, Written(from, to, pages), rq2, Holders)
  BY <1>3, <1>10, <1>14, <1>15, <1>16, PassMem
<1>. QED
  BY <1>9, <1>13, <1>17

\* The request object of a request whose prompt, or a chunk of it, is
\* computed in a pass.
Prefilled(r, q) ==
  /\ q.kv = req[r].fill /\ q.fill = req[r].fill /\ q.prefix = req[r].prefix /\ Len(q.pages) = PageCount(req[r].fill)
  /\ q.holds = req[r].holds /\ q.out = req[r].out /\ ~q.retracted
  /\ q.chunks = IF r = chunked THEN req[r].chunks + 1 ELSE req[r].chunks

\* Its lengths.
LEMMA PrefilledLen ==
    ASSUME SInv, CInv, MInv, pc = "batch", pc' = "process", NEW r \in Holders, InBatch(r), chunked' = chunked,
           r # chunked => Dues(r)' = Dues(r) + 1 /\ Chks(r)' = Chks(r),
           r = chunked => Dues(r)' = Dues(r) /\ Chks(r)' = Chks(r) + 1,
           Prefilled(r, req'[r])
    PROVE  LenOf(r)'
<1>1. /\ r \in Reqs /\ req[r].holds /\ req[r].prefix \in Nat /\ req[r].kv \in Nat /\ req[r].fill \in Nat
      /\ req[r].prefix <= req[r].fill /\ req[r].chunks = Chks(r) /\ Adding(r)
  BY HolderFacts
<1>2. Dues(r) = 0 /\ IF r = chunked THEN req[r].fill < SeqLen(r) ELSE req[r].fill = SeqLen(r)
  BY <1>1 DEF Adding
<1>3. SeqLen(r) \in Nat \ {0}
  BY <1>1, Outs
<1>4. PICK q : q = req'[r]
  OBVIOUS
<1>5. /\ q.kv = req[r].fill /\ q.fill = req[r].fill /\ q.prefix = req[r].prefix /\ Len(q.pages) = PageCount(q.kv)
      /\ q.holds = req[r].holds /\ q.out = req[r].out /\ ~q.retracted
      /\ q.chunks = IF r = chunked THEN req[r].chunks + 1 ELSE req[r].chunks
  BY <1>4 DEF Prefilled
<1>6. SeqLen(r)' = SeqLen(r) /\ ~InBatch(r)'
  BY <1>4, <1>5 DEF SeqLen, InBatch, Admitting
<1>7. q.chunks = Chks(r)'
  BY <1>1, <1>5
<1>8. Batched(r)'
  <2>1. CASE r = chunked
    BY <1>1, <1>2, <1>4, <1>5, <1>6, <2>1 DEF Batched
  <2>2. CASE r # chunked
    <3>1. q.kv = SeqLen(r) - 1 + 1 /\ Dues(r)' = 1
      BY <1>2, <1>3, <1>5, <2>2
    <3>. QED
      BY <1>1, <1>2, <1>4, <1>5, <1>6, <2>2, <3>1 DEF Batched
  <2>. QED
    BY <2>1, <2>2
<1>. QED
  BY <1>1, <1>4, <1>5, <1>6, <1>7, <1>8 DEF LenOf

\* prepare_for_extend and run_batch: the requests of the batch get the places
\* for their prompts, or for chunks of them; with mixed chunks the running
\* requests get the place for a token.
LEMMA NewBatchMem ==
    ASSUME SInv, CInv, MInv, NewBatch
    PROVE  MInv'
<1>. DEFINE batch == [mode |-> "extend", reqs |-> adder.can \o MixedIn, chunked |-> chunked, decoding |-> ToSet(MixedIn)]
<1>1. /\ pc = "batch" /\ pc' \in {"process", "crashed"} /\ results' = Append(results, batch)
      /\ rows' = rows - Len(adder.can) /\ chunked' = chunked
      /\ \A x \in Reqs : /\ req'[x].holds = req[x].holds /\ req'[x].finished = req[x].finished
                         /\ req'[x].chunks = IF x = chunked THEN req[x].chunks + 1 ELSE req[x].chunks
  BY NewBatchMeaning DEF MixedIn
<1>2. /\ adder.can \in Seq(Reqs) /\ IsInjective(adder.can) /\ MixedIn \in Seq(Reqs) /\ IsInjective(MixedIn)
      /\ ToSet(adder.can) \cap ToSet(MixedIn) = {}
      /\ ToSet(adder.can) \subseteq Holders /\ ToSet(MixedIn) \subseteq Holders
      /\ \A x : (InBatch(x) <=> x \in ToSet(adder.can))
      /\ chunked \in Reqs \cup {None} /\ (chunked # None => chunked \in ToSet(adder.can))
  BY <1>1, BatchParts
<1>3. \A x : ~InBatch(x)'
  BY <1>1 DEF InBatch, Admitting
<1>4. /\ Proper(batch) /\ batch.chunked = chunked /\ ToSet(batch.reqs) = ToSet(adder.can) \cup ToSet(MixedIn)
  <2>. DEFINE cs == adder.can
              ds == MixedIn
  <2>1. cs \in Seq(Reqs) /\ IsInjective(cs) /\ ds \in Seq(Reqs) /\ IsInjective(ds) /\ ToSet(cs) \cap ToSet(ds) = {}
    BY <1>2
  <2>. HIDE DEF cs, ds
  <2>2. ToSet(ds) \subseteq Reqs /\ chunked \in Reqs \cup {None}
    BY <1>2, HoldingNow DEF ds
  <2>3. cs \o ds \in Seq(Reqs) /\ IsInjective(cs \o ds) /\ ToSet(cs \o ds) = ToSet(cs) \cup ToSet(ds)
    BY <2>1, ToSetConcat, ConcatAt
  <2>4. batch = [mode |-> "extend", reqs |-> cs \o ds, chunked |-> chunked, decoding |-> ToSet(ds)]
    BY DEF cs, ds
  <2>. HIDE DEF batch
  <2>5. /\ Proper(batch) /\ batch.chunked = chunked /\ ToSet(batch.reqs) = ToSet(cs) \cup ToSet(ds)
    BY <2>2, <2>3, <2>4 DEF Proper, Batches
  <2>. QED
    BY <2>5 DEF cs, ds
<1>. HIDE DEF batch
<1>5. /\ \A x \in Reqs : x \in ToSet(adder.can) /\ x # chunked => Dues(x)' = Dues(x) + 1 /\ Chks(x)' = Chks(x)
      /\ \A x \in Reqs : x \in ToSet(adder.can) /\ x = chunked => Dues(x)' = Dues(x) /\ Chks(x)' = Chks(x) + 1
      /\ \A x \in Reqs : x \in ToSet(MixedIn) => Dues(x)' = Dues(x) + 1 /\ Chks(x)' = Chks(x) /\ x # chunked
      /\ \A x \in Reqs : x \notin ToSet(adder.can) /\ x \notin ToSet(MixedIn) => SameDue(x)
      /\ Len(results') <= 2
  <2>. DEFINE cs == ToSet(adder.can)
              ds == ToSet(MixedIn)
  <2>1. ASSUME NEW x
        PROVE  /\ Dues(x)' = Dues(x) + (IF x \in ToSet(batch.reqs) /\ batch.chunked # x THEN 1 ELSE 0)
               /\ Chks(x)' = Chks(x) + (IF x \in ToSet(batch.reqs) /\ batch.chunked = x THEN 1 ELSE 0)
               /\ Len(results') <= 2
    BY <1>1, <1>4, PassAdded
  <2>2. ASSUME NEW x
        PROVE  /\ Dues(x)' = Dues(x) + (IF x \in cs \cup ds /\ chunked # x THEN 1 ELSE 0)
               /\ Chks(x)' = Chks(x) + (IF x \in cs \cup ds /\ chunked = x THEN 1 ELSE 0)
    BY <2>1, <1>4
  <2>3. \A x : Dues(x) \in 0 .. 2 /\ Chks(x) \in 0 .. 2
    BY DueType
  <2>4. Len(results') <= 2
    BY <2>1
  <2>5. cs \cap ds = {} /\ (chunked # None => chunked \in cs)
    BY <1>2
  <2>. HIDE DEF cs, ds
  <2>6. ASSUME NEW x \in Reqs, x \in cs, x # chunked PROVE Dues(x)' = Dues(x) + 1 /\ Chks(x)' = Chks(x)
    BY <2>2, <2>3, <2>6
  <2>7. ASSUME NEW x \in Reqs, x \in cs, x = chunked PROVE Dues(x)' = Dues(x) /\ Chks(x)' = Chks(x) + 1
    BY <2>2, <2>3, <2>7
  <2>8. ASSUME NEW x \in Reqs, x \in ds PROVE Dues(x)' = Dues(x) + 1 /\ Chks(x)' = Chks(x) /\ x # chunked
    <3>1. x # chunked
      BY <2>5, <2>8, ReqsAssumption
    <3>. QED
      BY <2>2, <2>3, <2>8, <3>1
  <2>9. ASSUME NEW x \in Reqs, x \notin cs, x \notin ds PROVE SameDue(x)
    BY <2>2, <2>3, <2>9 DEF SameDue
  <2>. QED
    BY <2>4, <2>6, <2>7, <2>8, <2>9 DEF cs, ds
<1>6. PICK c, d, from, to, m, k : /\ BatchesWith(c, d, from, to, m, k)
                                  /\ \E n : c \in EvictFromTreeCache(cache, n)
                                  /\ \E n : d \in EvictFromTreeCache(m.cache, n)
  BY BatchFinds
<1>7. PICK n : c \in EvictFromTreeCache(cache, n)
  BY <1>6
<1>8. PICK o : d \in EvictFromTreeCache(m.cache, o)
  BY <1>6
<1>9. PICK pages : /\ Ranges(from, to) /\ BothPages(m, k, pages) /\ content' = Written(from, to, pages)
                   /\ Batching(req', to, pages)
  BY <1>6, BatchMeans
<1>10. /\ Given(c, adder.can, from, to, m) /\ Given(d, MixedIn, from, to, k) /\ cache' = k.cache
       /\ pc' = IF m.ok /\ k.ok /\ rows >= Len(adder.can) THEN "process" ELSE "crashed"
  BY <1>6 DEF BatchesWith
<1>11. PICK rq2 : rq2 = req'
  OBVIOUS
<1>12. Batching(rq2, to, pages)
  BY <1>9, <1>11
<1>13. /\ MemInv(k.cache, Written(from, to, pages), rq2, Holders)
       /\ Supplied(adder.can, from, to, m) /\ Supplied(MixedIn, from, to, k)
       /\ m.ok \in BOOLEAN /\ k.ok \in BOOLEAN
  BY <1>1, <1>7, <1>8, <1>9, <1>10, <1>12, BatchMem
<1>14. Holders' = Holders
  BY <1>1 DEF Holders
<1>15. MemInv(cache, content, req, Holders)'
  BY <1>9, <1>10, <1>11, <1>13, <1>14
<1>16. Holders \in SUBSET Reqs
  BY HoldingNow
<1>17. rows' \in 0 .. MaxRunning
  <2>1. Pledged = Len(adder.can) /\ Len(adder.can) \in Nat
    BY <1>1, <1>2 DEF Pledged, Admitting
  <2>2. /\ IsFiniteSet(Holders) /\ Cardinality(Holders) \in Nat
        /\ rows = MaxRunning - Cardinality(Holders) + Len(adder.can)
    BY <1>1, <2>1, FS_CardinalityType DEF SInv, Held
  <2>3. Cardinality(Holders) <= MaxRunning
    BY <1>1 DEF MInv, NInv
  <2>4. PICK h, l : h = Cardinality(Holders) /\ l = Len(adder.can)
    OBVIOUS
  <2>5. rows' = rows - l /\ rows = MaxRunning - h + l /\ h \in Nat /\ l \in Nat /\ h <= MaxRunning /\ MaxRunning \in Nat
    BY <1>1, <2>1, <2>2, <2>3, <2>4, ReqsAssumption
  <2>. QED
    BY <2>5
<1>18. ASSUME NEW x \in Reqs
       PROVE  /\ Advanced(x, rq2[x], to, pages) /\ rq2[x].out = req[x].out /\ rq2[x].holds = req[x].holds
              /\ rq2[x].finished = req[x].finished
              /\ rq2[x].fill = IF x \in ToSet(MixedIn) THEN SeqLen(x) ELSE req[x].fill
              /\ x \in ToSet(adder.can) => ~rq2[x].retracted
              /\ x \notin ToSet(adder.can) => rq2[x].retracted = req[x].retracted
              /\ rq2[x].chunks = IF x = chunked THEN req[x].chunks + 1 ELSE req[x].chunks
  BY <1>12 DEF Batching
<1>19. Counts'
  <2>1. ASSUME NEW x \in Reqs
        PROVE  /\ req'[x].out \in 0 .. MaxNew[x] /\ (~req'[x].finished => req'[x].out < MaxNew[x])
               /\ req'[x].chunks \in 0 .. 2
    <3>1. req'[x].out = req[x].out /\ req'[x].finished = req[x].finished
          /\ req'[x].chunks = IF x = chunked THEN req[x].chunks + 1 ELSE req[x].chunks
      BY <1>11, <1>18
    <3>2. /\ req[x].out \in 0 .. MaxNew[x] /\ (~req[x].finished => req[x].out < MaxNew[x])
          /\ req[x].chunks \in 0 .. 2
      BY DEF MInv, NInv, Counts
    <3>3. x = chunked => req[x].chunks \in 0 .. 1
      <4>1. SUFFICES ASSUME x = chunked PROVE req[x].chunks \in 0 .. 1
        OBVIOUS
      <4>2. x \in Holders
        BY <1>2, <4>1, ReqsAssumption
      <4>3. req[x].chunks = Chks(x)
        BY <1>1, <4>2, HolderFacts
      <4>4. \A r : Chks(r) \in {0, 1}
        BY <1>1, OnePass
      <4>. QED
        BY <4>3, <4>4
    <3>. QED
      BY <3>1, <3>2, <3>3
  <2>. QED
    BY <1>5, <1>17, <2>1 DEF Counts
<1>20. ASSUME pc' # "crashed" PROVE Lengths'
  <2>1. SUFFICES ASSUME NEW x \in Reqs PROVE LenOf(x)'
    BY DEF Lengths
  <2>2. m.ok /\ k.ok /\ pc' = "process"
    BY <1>10, <1>20
  <2>3. CASE x \in ToSet(adder.can)
    <3>1. to[x] = req[x].fill
      BY <1>2, <1>9, <2>3 DEF Ranges
    <3>2. x \in DOMAIN pages /\ pages[x] = m.pages[x] /\ Len(m.pages[x]) = PageCount(to[x])
      BY <1>9, <1>13, <2>2, <2>3 DEF Supplied, BothPages
    <3>3. Prefilled(x, rq2[x])
      BY <1>2, <1>18, <2>3, <3>1, <3>2 DEF Prefilled, Advanced
    <3>4. Prefilled(x, req'[x])
      BY <1>11, <3>3
    <3>5. x \in Holders /\ InBatch(x)
      BY <1>2, <2>3
    <3>6. /\ x # chunked => Dues(x)' = Dues(x) + 1 /\ Chks(x)' = Chks(x)
          /\ x = chunked => Dues(x)' = Dues(x) /\ Chks(x)' = Chks(x) + 1
      BY <1>5, <2>3
    <3>. QED
      BY <1>1, <2>2, <3>4, <3>5, <3>6, PrefilledLen
  <2>4. CASE x \in ToSet(MixedIn)
    <3>1. to[x] = req[x].kv + 1 /\ x \notin ToSet(adder.can)
      BY <1>2, <1>9, <2>4 DEF Ranges
    <3>2. x \in DOMAIN pages /\ pages[x] = k.pages[x] /\ Len(k.pages[x]) = PageCount(to[x])
      BY <1>9, <1>13, <2>2, <2>4 DEF Supplied, BothPages
    <3>3. Dues(x)' = Dues(x) + 1 /\ Chks(x)' = Chks(x) /\ x # chunked
      BY <1>5, <2>4
    <3>4. Decoded(x, rq2[x])
      BY <1>18, <2>4, <3>1, <3>2, <3>3 DEF Decoded, Advanced
    <3>5. Decoded(x, req'[x])
      BY <1>11, <3>4
    <3>6. x \in Holders /\ ~InBatch(x)
      BY <1>2, <2>4, <3>1
    <3>. QED
      BY <1>1, <2>2, <3>3, <3>5, <3>6, DecodedLen
  <2>5. CASE x \notin ToSet(adder.can) /\ x \notin ToSet(MixedIn)
    <3>1. x \notin DOMAIN pages /\ x # chunked
      BY <1>2, <1>9, <2>5, ReqsAssumption DEF BothPages
    <3>2. SameLen(x)
      BY <1>11, <1>18, <2>5, <3>1 DEF SameLen, Advanced
    <3>3. SameDue(x) /\ LenOf(x)
      BY <1>1, <1>5, <2>5 DEF MInv, NInv, Lengths
    <3>4. chunked' = x <=> chunked = x
      BY <1>1
    <3>5. InBatch(x)' <=> InBatch(x)
      BY <1>2, <1>3, <2>5
    <3>. QED
      BY <2>2, <3>2, <3>3, <3>4, <3>5, LenKept
  <2>. QED
    BY <2>3, <2>4, <2>5
<1>21. Cardinality(Holders') <= MaxRunning
  BY <1>1, <1>14 DEF MInv, NInv
<1>. QED
  BY <1>15, <1>19, <1>20, <1>21 DEF MInv, NInv

\* A step that changes nothing.
LEMMA StutterMem ==
    ASSUME SInv, CInv, MInv, UNCHANGED vars
    PROVE  MInv'
<1>1. UNCHANGED <<cache, content, req, adder, chunked, rows, results, pc>>
  BY DEF vars
<1>2. Holders' = Holders
  BY <1>1 DEF Holders
<1>3. MemInv(cache, content, req, Holders)'
  BY <1>1, <1>2 DEF MInv
<1>4. Counts'
  BY <1>1 DEF MInv, NInv, Counts
<1>5. ASSUME pc' # "crashed" PROVE Lengths'
  <2>1. SUFFICES ASSUME NEW x \in Reqs PROVE LenOf(x)'
    BY DEF Lengths
  <2>2. LenOf(x) /\ SameLen(x)
    BY <1>1, <1>5, <2>1 DEF MInv, NInv, Lengths, SameLen
  <2>3. SameDue(x)
    BY <1>1, PassesKept
  <2>4. InBatch(x)' <=> InBatch(x)
    BY <1>1 DEF InBatch, Admitting
  <2>5. chunked' = x <=> chunked = x
    BY <1>1
  <2>6. pc' = "prefill" /\ chunked = x => req[x].prefix = req[x].fill
    <3>1. SUFFICES ASSUME pc = "prefill", chunked = x PROVE req[x].prefix = req[x].fill
      BY <1>1
    <3>2. x \in Holders /\ ~InBatch(x)
      BY <2>1, <3>1, ChunkedHolds, ReqsAssumption DEF InBatch, Admitting
    <3>3. Batched(x)
      BY <3>1, <3>2, HolderFacts
    <3>. QED
      BY <3>1, <3>3 DEF Batched
  <2>. QED
    BY <2>2, <2>3, <2>4, <2>5, <2>6, LenKept
<1>6. pc' # "crashed" => Cardinality(Holders') <= MaxRunning
  BY <1>1, <1>2 DEF MInv, NInv
<1>. QED
  BY <1>3, <1>4, <1>5, <1>6 DEF MInv, NInv

\* Every step of the scheduler keeps the memory right.
LEMMA StepMem ==
    ASSUME SInv, CInv, MInv, PausesKeep, ChunksFit, [Next]_vars
    PROVE  MInv'
<1>1. CASE MergeLast
  BY <1>1, MergeMem
<1>2. CASE BeginPrefill
  BY <1>2, BeginMem
<1>3. CASE AdmitNext
  BY <1>3, AdmitStepMem
<1>4. CASE NewBatch
  BY <1>4, NewBatchMem
<1>5. CASE RetractDecode \/ RetractAll
  BY <1>5, RetractsMem
<1>6. CASE Decode
  BY <1>6, DecodeMem
<1>7. CASE ProcessResult
  BY <1>7, ProcessMem
<1>8. CASE \E r \in Reqs : Receive(r) \/ AbortRequest(r)
  BY <1>8, MessageMem
<1>9. CASE FlushCache
  BY <1>9, FlushMem
<1>10. CASE EndIteration \/ PauseRest
  BY <1>10, EndMem
<1>11. CASE \/ NoPrefill \/ Recheck \/ CheckDecodeMem \/ Continue \/ IdleCheck
            \/ \E mode \in args.pauses : Pause(mode)
  BY <1>11, LookersMem
<1>12. CASE UNCHANGED vars
  BY <1>12, StutterMem
<1>. QED
  BY <1>1, <1>2, <1>3, <1>4, <1>5, <1>6, <1>7, <1>8, <1>9, <1>10, <1>11, <1>12, Zenon DEF Next, Step

\* In every reachable state every page of the pool is free, or cached once, or
\* the private page of one request, holds the KV of the tokens it is cached or
\* used for, and the rows, the lengths and the counts of the requests say what
\* was computed (alloc_extend, alloc_decode, free, cache_unfinished_req,
\* cache_finished_req and release_kv_cache, under every sequence of calls
\* that scheduler.py makes), as long as no chunk is of negative length.
THEOREM MemoryInvariance ==
    Spec /\ []PausesKeep /\ []ChunksFit => []MInv
<1>1. Init => MInv
  BY InitMem
<1>2. SInv /\ CInv /\ MInv /\ PausesKeep /\ ChunksFit /\ [Next]_vars => MInv'
  BY StepMem
<1>. QED
  BY <1>1, <1>2, SchedulerInvariance, CacheInvariance, PTL DEF Spec

\* A prefix of whole pages has as many pages as it fills.
LEMMA WholePages ==
    ASSUME NEW n \in Nat, n % PageSize = 0
    PROVE  n \div PageSize = PageCount(n)
<1>. DEFINE P == PageSize
            k == PageCount(n)
<1>1. P \in Nat \ {0}
  BY PageSizeAssumption
<1>2. k \in Nat /\ n = k * P
  BY PagedLen
<1>. HIDE DEF P, k
<1>3. n = P * k + 0 /\ 0 \in 0 .. P - 1 /\ k \in Int
  BY <1>1, <1>2
<1>4. (P * k + 0) \div P = k
  BY <1>1, <1>3, DivUnique
<1>5. n \div P = k
  BY <1>3, <1>4
<1>. QED
  BY <1>5 DEF P, k

\* Different whole pages of a request hold different prefixes.
LEMMA PagesApart ==
    ASSUME NEW r \in Reqs, NEW i \in Nat, NEW j \in Nat, Ids(r, i * PageSize) = Ids(r, j * PageSize)
    PROVE  i = j
<1>. DEFINE P == PageSize
            a == P * i
            b == P * j
<1>1. P \in Nat \ {0}
  BY PageSizeAssumption
<1>. HIDE DEF P
<1>2. a \in Nat /\ b \in Nat /\ a = i * P /\ b = j * P
  BY <1>1
<1>. HIDE DEF a, b
<1>3. Len(Ids(r, a)) = a /\ Len(Ids(r, b)) = b
  BY <1>2, IdsMeaning
<1>4. Ids(r, a) = Ids(r, b)
  BY <1>2 DEF P
<1>5. P * i = P * j
  BY <1>3, <1>4 DEF a, b
<1>. QED
  BY <1>1, <1>5, TimesOrder

\* No page is in a row twice.
LEMMA RowApart ==
    ASSUME NEW c, NEW ct, NEW rq, NEW H \in SUBSET Reqs, MemInv(c, ct, rq, H), NEW r \in H
    PROVE  /\ Len(rq[r].pages) \in Nat /\ Len(rq[r].pages) <= Cardinality(Pages)
           /\ \A i, j \in 1 .. Len(rq[r].pages) : rq[r].pages[i] = rq[r].pages[j] => i = j
<1>. DEFINE q == rq[r]
            s == q.pages
            n == PageCount(q.prot)
            L == Len(s)
<1>1. r \in Reqs /\ Row(c, ct, r, q) /\ PageInv(c, PrivateIn(rq, H))
  BY DEF MemInv
<1>2. n \in Nat /\ s \in Seq(Pages) /\ L \in Nat /\ n <= L
  <2>1. q.prot \in Nat /\ s \in Seq(Pages) /\ n <= L
    BY <1>1 DEF Row
  <2>. QED
    BY <2>1, PageBounds
<1>3. \A i \in 1 .. n : Ids(r, i * PageSize) \in DOMAIN c.kv /\ c.kv[Ids(r, i * PageSize)] = s[i]
  BY <1>1 DEF Row
<1>4. \A i, j \in (n + 1) .. L : s[i] = s[j] => i = j
  BY <1>1 DEF Row
<1>5. \A k, l \in DOMAIN c.kv : c.kv[k] = c.kv[l] => k = l
  BY <1>1 DEF PageInv
<1>6. \A i \in (n + 1) .. L : \A k \in DOMAIN c.kv : c.kv[k] # s[i]
  <2>1. SUFFICES ASSUME NEW i \in (n + 1) .. L PROVE \A k \in DOMAIN c.kv : c.kv[k] # s[i]
    OBVIOUS
  <2>2. s[i] \in PrivateOf(q)
    BY <2>1 DEF PrivateOf, PagesOf
  <2>3. r \in DOMAIN PrivateIn(rq, H) /\ PrivateIn(rq, H)[r] = PrivateOf(q)
    BY DEF PrivateIn
  <2>4. \A x \in DOMAIN PrivateIn(rq, H) : \A p \in PrivateIn(rq, H)[x] : \A k \in DOMAIN c.kv : c.kv[k] # p
    BY <1>1 DEF PageInv
  <2>. QED
    BY <2>2, <2>3, <2>4
<1>. HIDE DEF q, s, n, L
<1>7. ASSUME NEW i \in 1 .. L, NEW j \in 1 .. L, s[i] = s[j] PROVE i = j
  <2>1. (i \in 1 .. n \/ i \in (n + 1) .. L) /\ (j \in 1 .. n \/ j \in (n + 1) .. L)
    BY <1>2, <1>7
  <2>2. CASE i \in 1 .. n /\ j \in 1 .. n
    <3>1. Ids(r, i * PageSize) = Ids(r, j * PageSize)
      BY <1>3, <1>5, <1>7, <2>2
    <3>2. i \in Nat /\ j \in Nat
      BY <1>2, <2>2
    <3>. QED
      BY <1>1, <3>1, <3>2, PagesApart
  <2>3. CASE i \in (n + 1) .. L /\ j \in (n + 1) .. L
    BY <1>4, <1>7, <2>3
  <2>4. CASE i \in 1 .. n /\ j \in (n + 1) .. L
    BY <1>3, <1>6, <1>7, <2>4
  <2>5. CASE i \in (n + 1) .. L /\ j \in 1 .. n
    BY <1>3, <1>6, <1>7, <2>5
  <2>. QED
    BY <2>1, <2>2, <2>3, <2>4, <2>5
<1>8. L <= Cardinality(Pages)
  <2>1. IsInjective(s) /\ L = Len(s) /\ ToSet(s) \in SUBSET Pages
    BY <1>2, <1>7 DEF L, IsInjective, ToSet
  <2>2. Cardinality(ToSet(s)) = L
    BY <1>2, <2>1, ListSize
  <2>3. IsFiniteSet(Pages)
    BY PagesAssumption
  <2>4. Cardinality(ToSet(s)) <= Cardinality(Pages)
    BY <2>1, <2>3, FS_Subset
  <2>. QED
    BY <2>2, <2>4
<1>. QED
  BY <1>2, <1>7, <1>8 DEF L, s, q

\* PagesConserved: no page leaks and none is used for two things, whatever the
\* order of chunks, retractions, aborts, evictions and results that arrive
\* late (self_check_during_busy counts them only).
THEOREM PagesAreConserved ==
    Spec /\ []PausesKeep /\ []ChunksFit => []PagesConserved
<1>1. MInv => PagesConserved
  <2>1. SUFFICES ASSUME MInv, NEW p \in Pages
        PROVE  cache.free[p]
                 + Cardinality({k \in DOMAIN cache.kv : cache.kv[k] = p})
                 + Cardinality({h \in Holders \X (1 .. Cardinality(Pages)) :
                                  /\ h[2] > req[h[1]].prot \div PageSize /\ h[2] <= Len(req[h[1]].pages)
                                  /\ req[h[1]].pages[h[2]] = p}) = 1
    BY DEF PagesConserved
  <2>. DEFINE K == {k \in DOMAIN cache.kv : cache.kv[k] = p}
              G == {h \in Holders \X (1 .. Cardinality(Pages)) :
                                  /\ h[2] > req[h[1]].prot \div PageSize /\ h[2] <= Len(req[h[1]].pages)
                                  /\ req[h[1]].pages[h[2]] = p}
              pv == PrivateIn(req, Holders)
  <2>2. MemInv(cache, content, req, Holders) /\ Holders \in SUBSET Reqs /\ PageInv(cache, pv)
    BY <2>1 DEF MInv, MemInv, Holders
  <2>3. ASSUME NEW r \in Holders
        PROVE  /\ req[r].prot \div PageSize = PageCount(req[r].prot) /\ PageCount(req[r].prot) \in Nat
               /\ Len(req[r].pages) \in Nat /\ Len(req[r].pages) <= Cardinality(Pages)
               /\ \A i, j \in 1 .. Len(req[r].pages) : req[r].pages[i] = req[r].pages[j] => i = j
    <3>1. req[r].prot \in Nat /\ req[r].prot % PageSize = 0
      BY <2>2 DEF MemInv, Row
    <3>2. req[r].prot \div PageSize = PageCount(req[r].prot) /\ PageCount(req[r].prot) \in Nat
      BY <3>1, WholePages, PagedLen
    <3>. QED
      BY <2>2, <3>2, RowApart
  <2>4. ASSUME NEW r \in Holders, NEW i
        PROVE  <<r, i>> \in G <=> i \in (PageCount(req[r].prot) + 1) .. Len(req[r].pages) /\ req[r].pages[i] = p
    <3>. DEFINE a == PageCount(req[r].prot)
                l == Len(req[r].pages)
                N == Cardinality(Pages)
    <3>1. <<r, i>> \in G <=> /\ i \in 1 .. N /\ i > req[r].prot \div PageSize /\ i <= l
                             /\ req[r].pages[i] = p
      OBVIOUS
    <3>2. req[r].prot \div PageSize = a /\ a \in Nat /\ l \in Nat /\ l <= N
      BY <2>3
    <3>3. N \in Nat
      BY PagesAssumption, FS_CardinalityType
    <3>. HIDE DEF a, l, N, G
    <3>4. <<r, i>> \in G <=> i \in (a + 1) .. l /\ req[r].pages[i] = p
      BY <3>1, <3>2, <3>3
    <3>. QED
      BY <3>4 DEF a, l
  <2>5. \A h \in G : \E r \in Holders, i \in 1 .. Cardinality(Pages) : h = <<r, i>>
    OBVIOUS
  <2>. HIDE DEF G
  <2>6. ASSUME NEW r \in Holders
        PROVE  p \in pv[r] <=> \E i : <<r, i>> \in G
    BY <2>4 DEF PrivateIn, PrivateOf, PagesOf
  <2>7. cache.free[p] \in 0 .. 1 /\ DOMAIN pv = Holders
    BY <2>1, <2>2 DEF PageInv, PrivateIn
  <2>8. /\ \A k \in DOMAIN cache.kv : cache.free[cache.kv[k]] = 0
        /\ \A k, l \in DOMAIN cache.kv : cache.kv[k] = cache.kv[l] => k = l
        /\ \A r \in Holders : p \in pv[r] => cache.free[p] = 0 /\ \A k \in DOMAIN cache.kv : cache.kv[k] # p
        /\ \A r, s \in Holders : p \in pv[r] /\ p \in pv[s] => r = s
        /\ cache.free[p] = 0 => (\E k \in DOMAIN cache.kv : cache.kv[k] = p) \/ \E r \in Holders : p \in pv[r]
    BY <2>1, <2>2, <2>7 DEF PageInv
  <2>. HIDE DEF pv
  <2>9. ASSUME \A r \in Holders : p \notin pv[r] PROVE Cardinality(G) = 0
    <3>1. ASSUME NEW h \in G PROVE FALSE
      <4>1. PICK r \in Holders, i \in 1 .. Cardinality(Pages) : h = <<r, i>>
        BY <2>5, <3>1
      <4>2. <<r, i>> \in G
        BY <3>1, <4>1
      <4>. QED
        BY <2>6, <2>9, <4>2
    <3>2. G = {}
      BY <3>1
    <3>. QED
      BY <3>2, FS_EmptySet
  <2>10. ASSUME \A k \in DOMAIN cache.kv : cache.kv[k] # p PROVE Cardinality(K) = 0
    <3>1. K = {}
      BY <2>10
    <3>. HIDE DEF K
    <3>. QED
      BY <3>1, FS_EmptySet
  <2>11. CASE cache.free[p] = 1
    <3>1. (\A r \in Holders : p \notin pv[r]) /\ (\A k \in DOMAIN cache.kv : cache.kv[k] # p)
      BY <2>8, <2>11
    <3>2. Cardinality(G) = 0 /\ Cardinality(K) = 0
      BY <2>9, <2>10, <3>1
    <3>. QED
      BY <2>11, <3>2 DEF G
  <2>12. CASE cache.free[p] = 0 /\ \E k \in DOMAIN cache.kv : cache.kv[k] = p
    <3>1. PICK k \in DOMAIN cache.kv : cache.kv[k] = p
      BY <2>12
    <3>2. K = {k}
      BY <2>8, <3>1
    <3>3. \A r \in Holders : p \notin pv[r]
      BY <2>8, <3>1
    <3>4. Cardinality(G) = 0
      BY <2>9, <3>3
    <3>. HIDE DEF K
    <3>5. Cardinality(K) = 1
      BY <3>2, FS_Singleton
    <3>. QED
      BY <2>12, <3>4, <3>5 DEF G, K
  <2>13. CASE cache.free[p] = 0 /\ \E r \in Holders : p \in pv[r]
    <3>1. PICK r \in Holders : p \in pv[r]
      BY <2>13
    <3>2. PICK i : <<r, i>> \in G
      BY <2>6, <3>1
    <3>3. \A k \in DOMAIN cache.kv : cache.kv[k] # p
      BY <2>8, <3>1
    <3>4. ASSUME NEW h \in G PROVE h = <<r, i>>
      <4>1. PICK s \in Holders, j \in 1 .. Cardinality(Pages) : h = <<s, j>>
        BY <2>5, <3>4
      <4>2. p \in pv[s]
        BY <2>6, <3>4, <4>1
      <4>3. s = r
        BY <2>8, <3>1, <4>2
      <4>4. /\ i \in (PageCount(req[r].prot) + 1) .. Len(req[r].pages) /\ req[r].pages[i] = p
            /\ j \in (PageCount(req[r].prot) + 1) .. Len(req[r].pages) /\ req[r].pages[j] = p
        BY <2>4, <3>2, <3>4, <4>1, <4>3
      <4>5. i \in 1 .. Len(req[r].pages) /\ j \in 1 .. Len(req[r].pages)
        BY <2>3, <4>4
      <4>6. i = j
        BY <2>3, <4>4, <4>5
      <4>. QED
        BY <4>1, <4>3, <4>6
    <3>5. G = {<<r, i>>}
      BY <3>2, <3>4
    <3>6. Cardinality(G) = 1
      BY <3>5, FS_Singleton
    <3>7. Cardinality(K) = 0
      BY <2>10, <3>3
    <3>. HIDE DEF K
    <3>. QED
      BY <2>13, <3>6, <3>7 DEF G, K
  <2>. QED
    BY <2>7, <2>8, <2>11, <2>12, <2>13
<1>. QED
  BY <1>1, MemoryInvariance, PTL

\* SizesExact: the counters are exact, the tree is well formed, and no row,
\* output, chunk or pass in flight is counted out of its range, so that no
\* row is handed out twice.
THEOREM SizesAreExact ==
    Spec /\ []PausesKeep /\ []ChunksFit => []SizesExact
<1>1. SInv /\ CInv /\ MInv => TypeOK
  <2>1. SUFFICES ASSUME SInv, CInv, MInv PROVE TypeOK
    OBVIOUS
  <2>2. cache.free \in [Pages -> 0 .. 1]
    BY <2>1 DEF MInv, MemInv, PageInv
  <2>3. cache.lock \in [cache.nodes -> Nat]
    BY <2>1 DEF CInv, CacheInv, Exact
  <2>4. /\ \A r \in Reqs : req[r].out \in 0 .. MaxNew[r] /\ req[r].chunks \in 0 .. 2
        /\ rows \in 0 .. MaxRunning /\ Len(results) <= 2
    BY <2>1 DEF MInv, NInv, Counts
  <2>5. ASSUME NEW r \in Reqs, req[r].holds PROVE req[r].prot <= Len(req[r].pages) * PageSize
    <3>. DEFINE n == req[r].prot
                l == Len(req[r].pages)
    <3>1. n \in Nat /\ req[r].pages \in Seq(Pages) /\ PageCount(n) <= l
      BY <2>1, <2>5 DEF MInv, MemInv, Row, Holders
    <3>2. l \in Int
      BY <3>1
    <3>. HIDE DEF n, l
    <3>3. PageCount(n) \in Nat /\ \A i \in Int : i * PageSize \in Int /\ (i * PageSize >= n <=> i >= PageCount(n))
      BY <3>1, PageBounds
    <3>4. n <= l * PageSize
      BY <3>1, <3>2, <3>3
    <3>. QED
      BY <3>4 DEF n, l
  <2>6. /\ chunked \in Reqs \cup {None}
        /\ pc \in {"start", "prefill", "admit", "batch", "decode", "retract", "recheck", "forward",
                   "process", "pause", "retractall", "crashed"}
    BY <2>1 DEF SInv, Types, LoopTypes
  <2>. QED
    BY <2>2, <2>3, <2>4, <2>5, <2>6 DEF TypeOK
<1>2. TypeOK /\ CountersExact(cache) /\ WellFormed(cache) => SizesExact
  BY DEF SizesExact
<1>. QED
  BY <1>1, <1>2, SchedulerInvariance, CacheInvariance, MemoryInvariance, TreeIsExact, PTL

\* RowsRead: a request reads the KV of its own tokens from every page of its
\* row, also from those that another request computed, and the pages of its
\* cached prefix are the very pages of the tree.
THEOREM RowsAreRead ==
    Spec /\ []PausesKeep /\ []ChunksFit => []RowsRead
<1>1. CInv /\ MInv => RowsRead
  <2>1. SUFFICES ASSUME CInv, MInv, NEW r \in Holders
        PROVE  /\ CachedPrefix(cache, Ids(r, req[r].prot)) = Ids(r, req[r].prot)
               /\ CachedPages(cache, Ids(r, req[r].prot)) = SubSeq(req[r].pages, 1, PageCount(req[r].prot))
               /\ \A i \in 1 .. Len(req[r].pages) :
                    content[req[r].pages[i]] = Ids(r, Min({i * PageSize, Max({req[r].kv, req[r].prefix})}))
    BY DEF RowsRead
  <2>. DEFINE q == req[r]
              n == q.prot
              a == PageCount(n)
              L == Len(q.pages)
              key == Ids(r, n)
  <2>2. r \in Reqs /\ Row(cache, content, r, q) /\ PageInv(cache, PrivateIn(req, Holders)) /\ Faithful(cache, content)
    BY <2>1 DEF MInv, MemInv, Holders
  <2>3. /\ n \in Nat /\ q.prefix \in Nat /\ q.kv \in Nat /\ n % PageSize = 0 /\ n <= q.prefix
        /\ q.pages \in Seq(Pages) /\ a <= L
        /\ \A i \in 1 .. a : Ids(r, i * PageSize) \in DOMAIN cache.kv /\ cache.kv[Ids(r, i * PageSize)] = q.pages[i]
        /\ \A i \in (a + 1) .. L : content[q.pages[i]] = Upto(r, i, Have(q))
    BY <2>2 DEF Row
  <2>4. Shape(cache, Toks)
    BY <2>1 DEF CInv, CacheInv, Tree
  <2>5. a \in Nat /\ n = a * PageSize
    BY <2>3, PagedLen
  <2>6. L \in Nat
    BY <2>3
  <2>7. Whole(cache, r, n)
    BY <2>3 DEF Whole
  <2>8. ASSUME NEW i \in 1 .. a PROVE i * PageSize \in Nat /\ i * PageSize <= n
    BY <2>2, RowPrefix
  <2>. HIDE DEF q, n, a, L
  <2>9. CachedPrefix(cache, key) = key
    <3>. DEFINE p == CachedPrefix(cache, key)
    <3>1. key \in Seq(Toks) /\ Len(key) = n /\ IsPrefix(key, key)
      BY <2>2, <2>3, IdsPrefix
    <3>2. \A t \in Seq(Toks) : IsPrefix(t, key) /\ Len(t) = n => t = key
      BY <2>2, <2>3, IdsPrefix
    <3>. HIDE DEF key
    <3>3. /\ p \in Seq(Toks) /\ IsPrefix(p, key) /\ Len(p) <= Len(key)
          /\ \A t \in DOMAIN cache.kv : IsPrefix(t, key) => Len(t) <= Len(p)
      BY <2>4, <3>1, CachedPrefixMeaning
    <3>. HIDE DEF p
    <3>4. Len(p) \in Nat
      BY <3>3
    <3>5. n > 0 => key \in DOMAIN cache.kv
      <4>1. SUFFICES ASSUME n > 0 PROVE key \in DOMAIN cache.kv
        OBVIOUS
      <4>2. a # 0
        BY <2>5, <4>1, PageSizeAssumption
      <4>3. a \in 1 .. a
        BY <2>5, <4>2
      <4>. QED
        BY <2>3, <2>5, <4>3 DEF key
    <3>6. Len(p) = n
      BY <2>3, <3>1, <3>3, <3>4, <3>5
    <3>7. p = key
      BY <3>2, <3>3, <3>6
    <3>. QED
      BY <3>7 DEF p
  <2>10. CachedPages(cache, key) = SubSeq(q.pages, 1, a)
    <3>. DEFINE s == CachedPages(cache, key)
                t == SubSeq(q.pages, 1, a)
    <3>1. s \in Seq(Pages) /\ Len(s) = a /\ \A i \in 1 .. a : s[i] = cache.kv[Ids(r, i * PageSize)]
      BY <2>2, <2>3, <2>7, CachedRow DEF a
    <3>2. t \in Seq(Pages) /\ Len(t) = a /\ \A i \in 1 .. a : t[i] = q.pages[i]
      BY <2>3, <2>5, <2>6 DEF L
    <3>. HIDE DEF s, t
    <3>3. \A i \in 1 .. a : s[i] = t[i]
      BY <2>3, <3>1, <3>2
    <3>4. s = t
      BY <3>1, <3>2, <3>3
    <3>. QED
      BY <3>4 DEF s, t
  <2>11. ASSUME NEW i \in 1 .. L
         PROVE  content[q.pages[i]] = Ids(r, Min({i * PageSize, Max({q.kv, q.prefix})}))
    <3>. DEFINE m == i * PageSize
                h == Max({q.kv, q.prefix})
    <3>1. m \in Nat
      BY <2>6, <2>11, PageSizeAssumption
    <3>2. h = Have(q) /\ h \in Nat /\ n <= h
      <4>. DEFINE x == q.kv
                  y == q.prefix
      <4>0. x \in Int /\ y \in Int
        BY <2>3
      <4>. HIDE DEF x, y
      <4>1. Max({x, y}) = IF x <= y THEN y ELSE x
        BY <4>0, MinOf
      <4>2. h = IF q.kv <= q.prefix THEN q.prefix ELSE q.kv
        BY <4>1 DEF x, y
      <4>. QED
        BY <2>3, <4>2 DEF Have
    <3>. HIDE DEF h
    <3>3. Min({m, h}) = IF m <= h THEN m ELSE h
      BY <3>1, <3>2, MinOf
    <3>4. CASE i \in 1 .. a
      <4>1. content[q.pages[i]] = Ids(r, m)
        <5>1. Ids(r, m) \in DOMAIN cache.kv /\ cache.kv[Ids(r, m)] = q.pages[i]
          BY <2>3, <3>4
        <5>. QED
          BY <2>2, <5>1 DEF Faithful
      <4>2. m <= h
        BY <2>3, <2>8, <3>1, <3>2, <3>4
      <4>. QED
        BY <3>3, <4>1, <4>2 DEF h
    <3>5. CASE i \in (a + 1) .. L
      <4>1. content[q.pages[i]] = Ids(r, IF m <= h THEN m ELSE h)
        BY <2>3, <3>2, <3>5 DEF Upto
      <4>. QED
        BY <3>3, <4>1 DEF h
    <3>. QED
      BY <2>5, <2>6, <2>11, <3>4, <3>5
  <2>. QED
    BY <2>9, <2>10, <2>11 DEF q, n, a, L, key
<1>. QED
  BY <1>1, CacheInvariance, MemoryInvariance, PTL

=============================================================================
