--------------------------- MODULE SchedulerProof ---------------------------
(***************************************************************************)
(* No request is lost, none is answered twice, the rows of the request     *)
(* pool are counted exactly, and so are the locks of the radix cache, for  *)
(* any number of requests, any prompts, any size of the pools, in both     *)
(* event loops, with chunked prefill, mixed batches, retraction and aborts.*)
(*                                                                         *)
(* The invariant SInv follows the requests through one iteration of the    *)
(* event loop: where each of them is between two actions (Placed), which   *)
(* of them own a row (Held), what the passes in flight may still say       *)
(* about them (InFlight), and how many chunks of a prompt are in flight    *)
(* (Chunks).                                                               *)
(*                                                                         *)
(* The second part is about the cache.  CacheInv(c, nd, T) says that c is  *)
(* a radix tree whose nodes are locked once for every holder at or below   *)
(* them and whose counters are the sizes of its unlocked and of its locked *)
(* nodes; first every operation of RadixCache is shown to keep it, then    *)
(* (CInv) every step of the scheduler, whose holders SInv knows.           *)
(***************************************************************************)
EXTENDS Scheduler, CommonLemmas, FiniteSetTheorems

\* The pauses that keep every request: not of the overlapped event loop while
\* the last batch is a prefill batch, and not with retraction while the
\* prefill of a request goes on.
PausesKeep == pc = "pause" => /\ args.overlap => last.mode # "extend"
                              /\ paused = "retract" => chunked = None

Batches == [mode : {"none", "extend", "decode"}, reqs : Seq(Reqs),
            chunked : Reqs \cup {None}, decoding : SUBSET Reqs]

\* A batch, or what is left of it while its results are processed.
Proper(b) == /\ b \in Batches /\ IsInjective(b.reqs)
             /\ b.mode # "extend" => b.chunked = None

ReqTypes ==
  /\ DOMAIN req = Reqs
  /\ \A r \in Reqs : DOMAIN req[r] = DOMAIN FreshReq
  /\ \A r \in Reqs : /\ req[r].chunks \in Nat
                     /\ req[r].holds \in BOOLEAN /\ req[r].finished \in BOOLEAN
                     /\ req[r].sent \in BOOLEAN /\ req[r].retracted \in BOOLEAN
                     /\ req[r].output \in BOOLEAN /\ req[r].answers \in 0 .. 1

QueueTypes ==
  /\ waiting \in Seq(Reqs) /\ IsInjective(waiting)
  /\ running \in Seq(Reqs) /\ IsInjective(running)
  /\ DOMAIN adder = DOMAIN NoAdder /\ adder.can \in Seq(Reqs) /\ IsInjective(adder.can)
  /\ adder.idx \in Nat

LoopTypes ==
  /\ args \in Configs
  /\ rows \in Int /\ chunked \in Reqs \cup {None}
  /\ pc \in {"start", "pause", "prefill", "admit", "batch", "decode", "retract", "recheck", "forward",
             "process", "retractall", "crashed"}
  /\ Proper(last) /\ (last.mode = "none" => last = NoBatch)
  /\ Proper(cur) /\ (cur.mode = "none" => cur = NoBatch)
  /\ results \in Seq(Batches) /\ \A i \in DOMAIN results : Proper(results[i])

\* What is known of a request in every state.
Answers ==
  \A r \in Reqs :
    /\ req[r].output = req[r].finished
    /\ req[r].finished => req[r].answers = 1
    /\ req[r].holds => req[r].answers = 0
    /\ ~req[r].sent => ~req[r].holds /\ req[r].answers = 0

Admitting == pc \in {"admit", "batch"}

\* The requests of a prefill batch that is being made or is not merged yet.
Prefill ==
  IF pc \in {"start", "pause", "process", "retractall"} THEN IF cur.mode = "extend" THEN ToSet(cur.reqs) ELSE {}
  ELSE IF pc = "prefill" THEN {chunked} \ {None}
  ELSE IF Admitting THEN ToSet(adder.can)
  ELSE {}

\* A request is in one place; those that are being admitted are still in the
\* queue, where they come first.
Placed ==
  /\ ToSet(waiting) \cap ToSet(running) = {}
  /\ ToSet(running) \cap Prefill = {}
  /\ ~Admitting => ToSet(waiting) \cap Prefill = {}
  /\ Admitting => /\ adder.idx \in 1 .. Len(waiting) + 1
                  /\ \A i \in 1 .. Len(waiting) : waiting[i] \in ToSet(adder.can) <=> i < adder.idx
                  /\ \A r \in ToSet(adder.can) : ~Finished(r)
  /\ \A r \in ToSet(waiting) : req[r].sent /\ req[r].answers = 0
  /\ \A r \in Reqs : req[r].sent /\ req[r].answers = 0 => r \in ToSet(waiting) \cup ToSet(running) \cup Prefill
  /\ pc \in {"retract", "recheck", "forward", "retractall"} => \A r \in ToSet(running) : ~Finished(r)
  /\ chunked # None => chunked \in Prefill /\ ~Finished(chunked)

\* The rows that are free but counted for the requests being admitted.
Pledged == IF pc = "prefill" THEN (IF chunked = None THEN 0 ELSE 1)
           ELSE IF Admitting THEN Len(adder.can) ELSE 0

Held ==
  /\ IsFiniteSet(Holders)
  /\ \A r \in Reqs : req[r].holds <=> r \in ToSet(running) \cup Prefill /\ ~Finished(r)
  /\ rows = MaxRunning - Cardinality(Holders) + Pledged

\* b is what is left of batch a.
LeftOf(b, a) == b.mode = a.mode /\ b.chunked = a.chunked /\ ToSet(b.reqs) \subseteq ToSet(a.reqs)

\* The requests of batch b, whose results may be processed an iteration
\* later, are neither queued nor given up.
Live(b) == args.overlap => \A r \in ToSet(b.reqs) : (Finished(r) \/ req[r].holds) /\ r \notin ToSet(waiting)

PendingLast == IF args.overlap /\ last # NoBatch THEN 1 ELSE 0
PendingCur == IF pc = "process" /\ cur # NoBatch THEN 1 ELSE 0

InFlight ==
  /\ pc # "process" => cur = last
  /\ Len(results) = PendingLast + PendingCur
  /\ PendingLast = 1 => LeftOf(results[1], last)
  /\ PendingCur = 1 => LeftOf(results[Len(results)], cur)
  /\ \A i \in DOMAIN results : \A r \in ToSet(results[i].reqs) : Skipped(r) \/ req[r].holds
  /\ pc \in {"start", "pause", "prefill", "admit", "batch", "decode", "retractall"} => Live(last)
  /\ pc = "process" => Live(cur)
  /\ pc = "retractall" => results = << >>

\* The result of a chunk of r is to come.
ChunkPending(i, r) == results[i].chunked = r /\ r \in ToSet(results[i].reqs)

Chunks ==
  /\ pc \in {"start", "pause", "process", "retractall"} => chunked = cur.chunked
  /\ pc = "prefill" => chunked = last.chunked
  /\ Admitting /\ adder.can = <<>> => last.chunked = None
  /\ pc \in {"decode", "retract", "recheck", "forward"} => last.chunked = None
  /\ \A i \in DOMAIN results : \A r \in Reqs : ChunkPending(i, r) => req[r].chunks >= 1
  /\ \A i, j \in DOMAIN results : \A r \in Reqs :
       i # j /\ ChunkPending(i, r) /\ ChunkPending(j, r) => req[r].chunks >= 2
  /\ \A i \in DOMAIN results : chunked # None /\ chunked \in ToSet(results[i].reqs) => results[i].chunked = chunked

Types == ReqTypes /\ QueueTypes /\ LoopTypes

SInv == /\ Types /\ Answers
        /\ pc # "crashed" => Placed /\ Held /\ InFlight /\ Chunks

---------------------------------------------------------------------------
(* Selecting from a list and sorting it. *)

\* Every number up to the size of a finite set of numbers is the rank of one
\* of its members.
LEMMA Ranks ==
    ASSUME NEW n \in Nat, NEW at \in SUBSET (1 .. n)
    PROVE  /\ IsFiniteSet(at) /\ Cardinality(at) \in Nat
           /\ \A k \in 1 .. Cardinality(at) : \E i \in at : Cardinality({j \in at : j <= i}) = k
           /\ \A i \in at : Cardinality({j \in at : j <= i}) \in 1 .. Cardinality(at)
<1>. DEFINE below(i) == {j \in at : j <= i}
            f == [i \in at |-> Cardinality(below(i))]
            m == Cardinality(at)
<1>1. IsFiniteSet(1 .. n)
  BY FS_Interval
<1>2. IsFiniteSet(at) /\ m \in Nat
  BY <1>1, FS_Subset, FS_CardinalityType
<1>3. ASSUME NEW i \in at
      PROVE  IsFiniteSet(below(i)) /\ Cardinality(below(i)) \in 1 .. m
  <2>1. below(i) \in SUBSET at
    OBVIOUS
  <2>2. IsFiniteSet(below(i)) /\ Cardinality(below(i)) <= m /\ Cardinality(below(i)) \in Nat
    BY <2>1, <1>2, FS_Subset, FS_CardinalityType
  <2>3. i \in below(i)
    OBVIOUS
  <2>4. Cardinality(below(i)) # 0
    BY <2>2, <2>3, FS_EmptySet
  <2>. QED
    BY <2>2, <2>4, <1>2
<1>4. ASSUME NEW i \in at, NEW k \in at, i < k
      PROVE  Cardinality(below(i)) < Cardinality(below(k))
  <2>1. \A j \in at : j \in Int
    OBVIOUS
  <2>2. below(i) \subseteq below(k)
    <3>1. SUFFICES ASSUME NEW j \in at, j <= i PROVE j <= k
      OBVIOUS
    <3>. QED
      BY <3>1, <1>4, <2>1
  <2>3. k \in below(k) /\ k \notin below(i)
    BY <1>4, <2>1
  <2>4. /\ Cardinality(below(i)) <= Cardinality(below(k))
        /\ Cardinality(below(k)) = Cardinality(below(i)) => below(k) = below(i)
    BY <2>2, <1>3, FS_Subset
  <2>. QED
    BY <2>3, <2>4, <1>3
<1>5. f \in [at -> 1 .. m]
  BY <1>3
<1>6. IsInjective(f)
  <2>1. SUFFICES ASSUME NEW i \in at, NEW k \in at, f[i] = f[k], i # k
                 PROVE  FALSE
    BY DEF IsInjective
  <2>2. f[i] = Cardinality(below(i)) /\ f[k] = Cardinality(below(k))
    OBVIOUS
  <2>3. i < k \/ k < i
    BY <2>1
  <2>4. Cardinality(below(i)) \in Nat /\ Cardinality(below(k)) \in Nat
    BY <1>3
  <2>5. Cardinality(below(i)) = Cardinality(below(k))
    BY <2>1, <2>2, <2>4
  <2>6. CASE i < k
    BY <2>4, <2>5, <2>6, <1>4
  <2>7. CASE k < i
    BY <2>4, <2>5, <2>7, <1>4
  <2>. QED
    BY <2>3, <2>6, <2>7
<1>7. f \in Injection(at, 1 .. m)
  BY <1>5, <1>6 DEF Injection
<1>8. IsFiniteSet(1 .. m) /\ Cardinality(1 .. m) = m
  BY <1>2, FS_Interval
<1>9. f \in Surjection(at, 1 .. m)
  BY <1>7, <1>8, FS_Injection
<1>10. \A k \in 1 .. m : \E i \in at : f[i] = k
  BY <1>9 DEF Surjection
<1>11. \A i \in at : f[i] = Cardinality(below(i))
  OBVIOUS
<1>. QED
  BY <1>2, <1>3, <1>10, <1>11

\* A selection from a list without repetitions.
LEMMA ThoseMeaning ==
    ASSUME NEW T, NEW rs \in Seq(T), IsInjective(rs), NEW S
    PROVE  /\ Those(rs, S) \in Seq(T) /\ IsInjective(Those(rs, S))
           /\ ToSet(Those(rs, S)) = ToSet(rs) \cap S
<1>. DEFINE at == {i \in DOMAIN rs : rs[i] \in S}
            m == Cardinality(at)
            R(i) == Cardinality({j \in at : j <= i})
            p == [k \in 1 .. m |-> CHOOSE i \in at : R(i) = k]
            t == Those(rs, S)
<1>1. Len(rs) \in Nat /\ DOMAIN rs = 1 .. Len(rs) /\ \A i \in 1 .. Len(rs) : rs[i] \in T
  OBVIOUS
<1>2. at \in SUBSET (1 .. Len(rs))
  BY <1>1
<1>3. m \in Nat /\ (\A k \in 1 .. m : \E i \in at : R(i) = k) /\ (\A i \in at : R(i) \in 1 .. m)
  BY <1>1, <1>2, Ranks
<1>4. t = [k \in 1 .. m |-> rs[CHOOSE i \in at : R(i) = k]]
  BY DEF Those
<1>5. \A k \in 1 .. m : p[k] \in at /\ R(p[k]) = k /\ t[k] = rs[p[k]]
  BY <1>3, <1>4
<1>6. \A i \in at : rs[i] \in S /\ i \in DOMAIN rs /\ rs[i] \in T
  BY <1>1
<1>7. DOMAIN t = 1 .. m
  BY <1>4
<1>. HIDE DEF p, R, t, m
<1>8. \A k \in 1 .. m : t[k] \in T
  BY <1>5, <1>6
<1>9. t \in Seq(T)
  <2>1. t = [k \in 1 .. m |-> t[k]]
    BY <1>4, <1>7 DEF t, R, m
  <2>2. t \in [1 .. m -> T]
    BY <2>1, <1>8
  <2>. QED
    BY <2>2, <1>3
<1>10. IsInjective(t)
  <2>1. SUFFICES ASSUME NEW a \in 1 .. m, NEW b \in 1 .. m, t[a] = t[b]
                 PROVE  a = b
    BY <1>7 DEF IsInjective
  <2>2. rs[p[a]] = rs[p[b]] /\ p[a] \in DOMAIN rs /\ p[b] \in DOMAIN rs
    BY <2>1, <1>5, <1>6
  <2>3. p[a] = p[b]
    BY <2>2 DEF IsInjective
  <2>. QED
    BY <2>3, <1>5
<1>11. ASSUME NEW i \in at PROVE \E k \in 1 .. m : t[k] = rs[i]
  <2>1. R(i) \in 1 .. m
    BY <1>3
  <2>2. p[R(i)] \in at /\ R(p[R(i)]) = R(i)
    BY <2>1, <1>5
  <2>3. p[R(i)] = i
    <3>1. SUFFICES ASSUME NEW a \in at, NEW b \in at, R(a) = R(b) PROVE a = b
      BY <2>2
    <3>2. {j \in at : j <= a} \in SUBSET at /\ {j \in at : j <= b} \in SUBSET at /\ IsFiniteSet(at)
      BY <1>1, <1>2, Ranks
    <3>3. CASE a < b
      <4>1. {j \in at : j <= a} \in SUBSET {j \in at : j <= b}
        BY <1>2, <3>3
      <4>2. IsFiniteSet({j \in at : j <= b})
        BY <3>2, FS_Subset
      <4>3. {j \in at : j <= b} = {j \in at : j <= a}
        BY <4>1, <4>2, <3>1, FS_Subset DEF R
      <4>. QED
        BY <4>3, <1>2, <3>3
    <3>4. CASE b < a
      <4>1. {j \in at : j <= b} \in SUBSET {j \in at : j <= a}
        BY <1>2, <3>4
      <4>2. IsFiniteSet({j \in at : j <= a})
        BY <3>2, FS_Subset
      <4>3. {j \in at : j <= a} = {j \in at : j <= b}
        BY <4>1, <4>2, <3>1, FS_Subset DEF R
      <4>. QED
        BY <4>3, <1>2, <3>4
    <3>. QED
      BY <1>2, <3>3, <3>4
  <2>. QED
    BY <2>1, <2>3, <1>5
<1>12. ToSet(t) = ToSet(rs) \cap S
  <2>1. ASSUME NEW x \in ToSet(t) PROVE x \in ToSet(rs) \cap S
    <3>1. PICK k \in 1 .. m : x = t[k]
      BY <1>7 DEF ToSet
    <3>2. x = rs[p[k]] /\ p[k] \in at
      BY <3>1, <1>5
    <3>. QED
      BY <3>2, <1>6 DEF ToSet
  <2>2. ASSUME NEW x \in ToSet(rs) \cap S PROVE x \in ToSet(t)
    <3>1. PICK i \in DOMAIN rs : x = rs[i]
      BY DEF ToSet
    <3>2. i \in at
      BY <3>1, <2>2
    <3>3. PICK k \in 1 .. m : t[k] = rs[i]
      BY <3>2, <1>11
    <3>. QED
      BY <3>1, <3>3, <1>7 DEF ToSet
  <2>. QED
    BY <2>1, <2>2
<1>. QED
  BY <1>9, <1>10, <1>12 DEF t

\* A sorted list has the members of the list.
LEMMA SortedMeaning ==
    ASSUME NEW T, NEW rs \in Seq(T), IsInjective(rs), NEW s \in Sorted(rs)
    PROVE  s \in Seq(T) /\ IsInjective(s) /\ ToSet(s) = ToSet(rs)
<1>1. PICK p \in Bijection(DOMAIN rs, DOMAIN rs) : s = [i \in DOMAIN rs |-> rs[p[i]]]
  BY DEF Sorted
<1>2. /\ Len(rs) \in Nat /\ DOMAIN rs = 1 .. Len(rs) /\ \A i \in 1 .. Len(rs) : rs[i] \in T
  OBVIOUS
<1>3. /\ p \in [DOMAIN rs -> DOMAIN rs] /\ \A i \in DOMAIN rs : \E j \in DOMAIN rs : p[j] = i
      /\ \A i, j \in DOMAIN rs : p[i] = p[j] => i = j
  BY DEF Bijection, Injection, Surjection, IsInjective
<1>4. DOMAIN s = DOMAIN rs /\ \A i \in DOMAIN rs : s[i] = rs[p[i]] /\ p[i] \in DOMAIN rs
  BY <1>1, <1>3
<1>5. s \in [1 .. Len(rs) -> T]
  BY <1>1, <1>2, <1>3
<1>6. s \in Seq(T)
  BY <1>5, <1>2
<1>7. IsInjective(s)
  BY <1>3, <1>4 DEF IsInjective
<1>8. ToSet(s) = ToSet(rs)
  <2>1. ASSUME NEW x \in ToSet(s) PROVE x \in ToSet(rs)
    BY <1>4 DEF ToSet
  <2>2. ASSUME NEW x \in ToSet(rs) PROVE x \in ToSet(s)
    <3>1. PICK i \in DOMAIN rs : x = rs[i]
      BY DEF ToSet
    <3>2. PICK j \in DOMAIN rs : p[j] = i
      BY <1>3
    <3>. QED
      BY <3>1, <3>2, <1>4 DEF ToSet
  <2>. QED
    BY <2>1, <2>2
<1>. QED
  BY <1>6, <1>7, <1>8

---------------------------------------------------------------------------
(* The steps that move no request. *)

\* What the invariant says of a Req object does not change.
Same(r) ==
  /\ req'[r].chunks = req[r].chunks /\ req'[r].holds = req[r].holds
  /\ req'[r].finished = req[r].finished /\ req'[r].sent = req[r].sent
  /\ req'[r].retracted = req[r].retracted /\ req'[r].output = req[r].output
  /\ req'[r].answers = req[r].answers

ReqShape == DOMAIN req = Reqs /\ \A r \in Reqs : DOMAIN req[r] = DOMAIN FreshReq

\* The other parts of the invariant that are about Req objects do not
\* change with them.
LEMMA SameReqs ==
    ASSUME ReqTypes, Answers, ReqShape', \A r \in Reqs : Same(r)
    PROVE  /\ ReqTypes' /\ Answers' /\ Holders' = Holders
           /\ \A r \in Reqs : Finished(r)' = Finished(r) /\ Skipped(r)' = Skipped(r)
<1>1. ReqTypes'
  BY DEF ReqTypes, ReqShape, Same
<1>2. Answers'
  BY DEF Answers, Same
<1>3. Holders' = Holders
  BY DEF Holders, Same
<1>4. \A r \in Reqs : Finished(r)' = Finished(r) /\ Skipped(r)' = Skipped(r)
  BY DEF Finished, Skipped, Same
<1>. QED
  BY <1>1, <1>2, <1>3, <1>4

\* One Req object changes.
LEMMA ReqUpdate ==
    ASSUME ReqShape, NEW r \in Reqs, NEW q, DOMAIN q = DOMAIN FreshReq, req' = [req EXCEPT ![r] = q]
    PROVE  ReqShape' /\ req'[r] = q /\ \A x \in Reqs : x # r => Same(x)
  BY DEF ReqShape, Same

\* An engine that has just been started.
LEMMA InitInv == Init => SInv
<1>. SUFFICES ASSUME Init PROVE SInv
  OBVIOUS
<1>. USE ReqsAssumption
<1>1. << >> \in Seq(Reqs) /\ IsInjective(<< >>) /\ ToSet(<< >>) = {}
  BY DEF IsInjective, ToSet
<1>2. ReqTypes
  <2>1. DOMAIN req = Reqs /\ \A r \in Reqs : req[r] = FreshReq
    BY DEF Init
  <2>2. /\ FreshReq.chunks \in Nat /\ FreshReq.holds \in BOOLEAN /\ FreshReq.finished \in BOOLEAN
        /\ FreshReq.sent \in BOOLEAN /\ FreshReq.retracted \in BOOLEAN
        /\ FreshReq.output \in BOOLEAN /\ FreshReq.answers \in 0 .. 1
    BY DEF FreshReq
  <2>. QED
    BY <2>1, <2>2 DEF ReqTypes
<1>3. QueueTypes
  BY <1>1 DEF Init, QueueTypes, NoAdder
<1>4. Proper(NoBatch)
  BY <1>1 DEF Proper, NoBatch, Batches
<1>5. LoopTypes
  BY <1>4 DEF Init, LoopTypes
<1>6. Answers
  BY DEF Init, Answers, FreshReq
<1>7. Prefill = {} /\ Holders = {}
  BY DEF Init, Prefill, NoBatch, Holders, FreshReq
<1>8. Placed
  BY <1>1, <1>7 DEF Init, Placed, Admitting, FreshReq
<1>9. Held
  BY <1>1, <1>7, FS_EmptySet DEF Init, Held, Pledged, Admitting, FreshReq
<1>10. InFlight
  BY <1>1 DEF Init, InFlight, PendingLast, PendingCur, Live, NoBatch
<1>11. Chunks
  BY DEF Init, Chunks, NoBatch, Admitting
<1>. QED
  BY <1>2, <1>3, <1>5, <1>6, <1>8, <1>9, <1>10, <1>11 DEF SInv, Types

\* All the lists are of requests.
LEMMA Members ==
    ASSUME Types
    PROVE  /\ ToSet(waiting) \subseteq Reqs /\ ToSet(running) \subseteq Reqs /\ ToSet(adder.can) \subseteq Reqs
           /\ ToSet(last.reqs) \subseteq Reqs /\ ToSet(cur.reqs) \subseteq Reqs /\ Prefill \subseteq Reqs
           /\ \A i \in DOMAIN results : ToSet(results[i].reqs) \subseteq Reqs
<1>1. ASSUME NEW s \in Seq(Reqs) PROVE ToSet(s) \subseteq Reqs
  BY DEF ToSet
<1>2. /\ ToSet(waiting) \subseteq Reqs /\ ToSet(running) \subseteq Reqs /\ ToSet(adder.can) \subseteq Reqs
  BY <1>1 DEF Types, QueueTypes
<1>3. ASSUME NEW b \in Batches PROVE ToSet(b.reqs) \subseteq Reqs
  BY <1>1 DEF Batches
<1>4. /\ ToSet(last.reqs) \subseteq Reqs /\ ToSet(cur.reqs) \subseteq Reqs
      /\ \A i \in DOMAIN results : ToSet(results[i].reqs) \subseteq Reqs
  BY <1>3 DEF Types, LoopTypes, Proper
<1>5. Prefill \subseteq Reqs
  BY <1>2, <1>4 DEF Prefill, Types, LoopTypes
<1>. QED
  BY <1>2, <1>4, <1>5

Kept == /\ UNCHANGED <<args, waiting, running, chunked, rows, last, cur, results, adder>>
        /\ ReqShape' /\ \A r \in Reqs : Same(r)

\* The event loop goes on, and only the cache, the pause or the pages of
\* requests change.
LEMMA OnlyPcInv ==
    ASSUME SInv, Kept,
           \/ pc = "recheck" /\ pc' \in {"forward", "retract"}
           \/ pc = "retract" /\ pc' \in {"forward", "crashed"}
           \/ pc = "admit" /\ pc' = "batch"
           \/ pc = "start" /\ pc' = "pause"
           \/ pc \in {"pause", "retractall"} /\ pc' = "start"
           \/ pc' = pc
    PROVE  SInv'
<1>0. Types /\ Answers
  BY DEF SInv
<1>1. /\ ReqTypes' /\ Answers' /\ Holders' = Holders
      /\ \A r \in Reqs : Finished(r)' = Finished(r) /\ Skipped(r)' = Skipped(r)
  BY <1>0, SameReqs DEF Kept, Types
<1>2. Types'
  BY <1>0, <1>1 DEF Kept, Types, QueueTypes, LoopTypes
<1>3. SUFFICES ASSUME pc' # "crashed" PROVE (Placed /\ Held /\ InFlight /\ Chunks)'
  BY <1>1, <1>2 DEF SInv
<1>4. pc # "crashed"
  BY <1>3
<1>5. Prefill' = Prefill /\ Pledged' = Pledged /\ Admitting' = Admitting
  BY <1>3 DEF Kept, Prefill, Pledged, Admitting
<1>6. Placed'
  <2>1. (\A r \in ToSet(adder.can) : ~Finished(r))' <=> \A r \in ToSet(adder.can) : ~Finished(r)
    BY <1>0, <1>1, Members DEF Kept
  <2>2. (\A r \in ToSet(running) : ~Finished(r))' <=> \A r \in ToSet(running) : ~Finished(r)
    BY <1>0, <1>1, Members DEF Kept
  <2>3. (chunked # None => chunked \in Prefill /\ ~Finished(chunked))'
    BY <1>0, <1>1, <1>4, <1>5, Members DEF Kept, SInv, Placed
  <2>4. (\A r \in ToSet(waiting) : req[r].sent /\ req[r].answers = 0)'
    BY <1>0, <1>4, Members DEF Kept, SInv, Placed, Same
  <2>5. (\A r \in Reqs : req[r].sent /\ req[r].answers = 0 => r \in ToSet(waiting) \cup ToSet(running) \cup Prefill)'
    BY <1>4, <1>5 DEF Kept, SInv, Placed, Same
  <2>. QED
    BY <1>3, <1>4, <1>5, <2>1, <2>2, <2>3, <2>4, <2>5 DEF Kept, SInv, Placed
<1>7. Held'
  BY <1>1, <1>4, <1>5 DEF Kept, SInv, Held, Same
<1>8. InFlight'
  <2>1. PendingLast' = PendingLast /\ PendingCur' = PendingCur
    BY <1>3, <1>4 DEF Kept, PendingLast, PendingCur
  <2>2. Live(last)' <=> Live(last)
    BY <1>0, <1>1, Members DEF Kept, Live, Same
  <2>3. Live(cur)' <=> Live(cur)
    BY <1>0, <1>1, Members DEF Kept, Live, Same
  <2>4. (\A i \in DOMAIN results : \A r \in ToSet(results[i].reqs) : Skipped(r) \/ req[r].holds)'
    BY <1>0, <1>1, <1>4, Members DEF Kept, SInv, InFlight, Same
  <2>. QED
    BY <1>3, <1>4, <2>1, <2>2, <2>3, <2>4 DEF Kept, SInv, InFlight, LeftOf
<1>9. Chunks'
  BY <1>3, <1>4, <1>5 DEF Kept, SInv, Chunks, ChunkPending, Same
<1>. QED
  BY <1>6, <1>7, <1>8, <1>9

\* Whoever is in a batch was accepted.
LEMMA BatchSent ==
    ASSUME SInv, pc # "crashed", NEW r \in Reqs, ~req[r].sent
    PROVE  r \notin ToSet(waiting) /\ r \notin ToSet(running) /\ r \notin Prefill
           /\ ~Finished(r) /\ ~req[r].holds
<1>1. req[r].answers = 0 /\ ~req[r].holds
  BY DEF SInv, Answers
<1>2. ~Finished(r)
  BY <1>1 DEF SInv, Answers, Finished
<1>3. r \notin ToSet(running) /\ r \notin Prefill
  BY <1>1, <1>2 DEF SInv, Held
<1>4. r \notin ToSet(waiting)
  BY DEF SInv, Placed
<1>. QED
  BY <1>1, <1>2, <1>3, <1>4

\* handle_generate_request: the request is queued, once.
LEMMA ReceiveInv ==
    ASSUME SInv, NEW r \in Reqs, Receive(r)
    PROVE  SInv'
<1>. USE DEF Receive, InputUnchanged
<1>0. pc = "start" /\ pc' = "start" /\ Types
  BY DEF SInv
<1>1. /\ ReqShape' /\ req'[r].sent = TRUE
      /\ \A x \in Reqs : x # r => Same(x)
      /\ \A x \in Reqs : /\ req'[x].chunks = req[x].chunks /\ req'[x].holds = req[x].holds
                         /\ req'[x].finished = req[x].finished
                         /\ req'[x].retracted = req[x].retracted /\ req'[x].output = req[x].output
                         /\ req'[x].answers = req[x].answers
  BY <1>0 DEF Types, ReqTypes, ReqShape, Same, FreshReq
<1>2. r \notin ToSet(waiting) /\ r \notin ToSet(running) /\ r \notin Prefill /\ req[r].answers = 0
  BY <1>0, BatchSent DEF SInv, Answers
<1>3. waiting' \in Seq(Reqs) /\ IsInjective(waiting') /\ ToSet(waiting') = ToSet(waiting) \cup {r}
  BY <1>0, <1>2, ToSetAppend, AppendAt DEF Types, QueueTypes
<1>4. Types'
  <2>1. ReqTypes'
    BY <1>0, <1>1 DEF Types, ReqTypes, ReqShape, Same
  <2>2. QueueTypes' /\ LoopTypes'
    BY <1>0, <1>3 DEF Types, QueueTypes, LoopTypes
  <2>. QED
    BY <2>1, <2>2 DEF Types
<1>5. Answers'
  BY <1>1 DEF SInv, Answers, Same
<1>6. Prefill' = Prefill /\ Pledged' = Pledged /\ Admitting' = Admitting /\ ~Admitting
  BY <1>0 DEF Prefill, Pledged, Admitting
<1>7. /\ Holders' = Holders
      /\ \A x \in Reqs : Finished(x)' = Finished(x) /\ Skipped(x)' = Skipped(x)
  BY <1>1 DEF Holders, Finished, Skipped
<1>8. Placed'
  <2>1. (\A x \in ToSet(waiting) : req[x].sent /\ req[x].answers = 0)'
    BY <1>0, <1>1, <1>2, <1>3, Members DEF SInv, Placed, Same
  <2>2. (\A x \in Reqs : req[x].sent /\ req[x].answers = 0 => x \in ToSet(waiting) \cup ToSet(running) \cup Prefill)'
    BY <1>0, <1>1, <1>3, <1>6 DEF SInv, Placed, Same
  <2>3. (chunked # None => chunked \in Prefill /\ ~Finished(chunked))'
    BY <1>0, <1>1, <1>6, Members DEF SInv, Placed, Finished
  <2>. QED
    BY <1>0, <1>2, <1>3, <1>6, <2>1, <2>2, <2>3 DEF SInv, Placed
<1>9. Held'
  BY <1>0, <1>1, <1>6, <1>7 DEF SInv, Held
<1>10. InFlight'
  <2>1. PendingLast' = PendingLast /\ PendingCur' = PendingCur
    BY <1>0 DEF PendingLast, PendingCur
  <2>2. Live(last)'
    <3>1. ASSUME args.overlap, NEW x \in ToSet(last.reqs)
          PROVE  x # r /\ (Finished(x)' \/ req'[x].holds) /\ x \notin ToSet(waiting')
      BY <3>1, <1>0, <1>1, <1>3, <1>7, Members, BatchSent DEF SInv, InFlight, Live
    <3>. QED
      BY <3>1 DEF Live
  <2>3. (\A i \in DOMAIN results : \A x \in ToSet(results[i].reqs) : Skipped(x) \/ req[x].holds)'
    BY <1>0, <1>1, <1>7, Members DEF SInv, InFlight
  <2>. QED
    BY <1>0, <2>1, <2>2, <2>3 DEF SInv, InFlight, LeftOf
<1>11. Chunks'
  BY <1>0, <1>1, <1>6 DEF SInv, Chunks, ChunkPending
<1>. QED
  BY <1>4, <1>5, <1>8, <1>9, <1>10, <1>11 DEF SInv

\* abort_request: a queued request is dropped and answered, one of a batch
\* stays where it is.
LEMMA AbortInv ==
    ASSUME SInv, NEW r \in Reqs, AbortRequest(r)
    PROVE  SInv'
<1>. USE DEF AbortRequest, InputUnchanged
<1>0. pc = "start" /\ pc' = "start" /\ Types
  BY DEF SInv
<1>1. CASE req' = [req EXCEPT ![r].toFinish = TRUE] /\ UNCHANGED waiting
  <2>1. ReqShape' /\ \A x \in Reqs : Same(x)
    BY <1>0, <1>1 DEF Types, ReqTypes, ReqShape, Same, FreshReq
  <2>. QED
    BY <1>0, <1>1, <2>1, OnlyPcInv DEF Kept, Types, LoopTypes
<1>2. CASE /\ Contains(waiting, r)
           /\ waiting' = Those(waiting, Reqs \ {r})
           /\ req' = [req EXCEPT ![r].answers = @ + 1]
  <2>1. /\ ReqShape' /\ req'[r].answers = req[r].answers + 1
        /\ \A x \in Reqs : x # r => Same(x)
        /\ \A x \in Reqs : /\ req'[x].chunks = req[x].chunks /\ req'[x].holds = req[x].holds
                           /\ req'[x].finished = req[x].finished /\ req'[x].sent = req[x].sent
                           /\ req'[x].retracted = req[x].retracted /\ req'[x].output = req[x].output
    <3>. DEFINE q == [req[r] EXCEPT !.answers = @ + 1]
    <3>1. ReqShape /\ req' = [req EXCEPT ![r] = q]
      BY <1>0, <1>2 DEF Types, ReqTypes, ReqShape
    <3>2. /\ DOMAIN q = DOMAIN FreshReq /\ q.answers = req[r].answers + 1
          /\ q.chunks = req[r].chunks /\ q.holds = req[r].holds /\ q.finished = req[r].finished
          /\ q.sent = req[r].sent /\ q.retracted = req[r].retracted /\ q.output = req[r].output
      BY <3>1 DEF ReqShape, FreshReq
    <3>. HIDE DEF q
    <3>3. ReqShape' /\ req'[r] = q /\ \A x \in Reqs : x # r => Same(x)
      BY <3>1, <3>2, ReqUpdate
    <3>. QED
      BY <3>2, <3>3 DEF Same
  <2>2. r \in ToSet(waiting)
    BY <1>0, <1>2 DEF Contains, ToSet, Types, QueueTypes
  <2>3. Prefill' = Prefill /\ Pledged' = Pledged /\ Admitting' = Admitting /\ ~Admitting
    BY <1>0 DEF Prefill, Pledged, Admitting
  <2>4. req[r].answers = 0 /\ req[r].sent /\ r \notin ToSet(running) /\ r \notin Prefill
    BY <1>0, <2>2, <2>3 DEF SInv, Placed
  <2>5. ~req[r].holds /\ ~req[r].finished
    BY <1>0, <2>4 DEF SInv, Held, Answers
  <2>6. waiting' \in Seq(Reqs) /\ IsInjective(waiting') /\ ToSet(waiting') = ToSet(waiting) \ {r}
    <3>1. /\ waiting' \in Seq(Reqs) /\ IsInjective(waiting')
          /\ ToSet(waiting') = ToSet(waiting) \cap (Reqs \ {r})
      BY <1>0, <1>2, ThoseMeaning DEF Types, QueueTypes
    <3>. QED
      BY <3>1, <1>0, Members
  <2>7. Types'
    <3>1. ReqTypes'
      BY <1>0, <2>1, <2>4 DEF Types, ReqTypes, ReqShape, Same
    <3>2. QueueTypes' /\ LoopTypes'
      BY <1>0, <2>6 DEF Types, QueueTypes, LoopTypes
    <3>. QED
      BY <3>1, <3>2 DEF Types
  <2>8. Answers'
    BY <2>1, <2>4, <2>5 DEF SInv, Answers, Same
  <2>9. /\ Holders' = Holders
        /\ \A x \in Reqs : Finished(x)' = Finished(x) /\ Skipped(x)' = Skipped(x)
    BY <2>1 DEF Holders, Finished, Skipped
  <2>10. Placed'
    <3>1. (\A x \in ToSet(waiting) : req[x].sent /\ req[x].answers = 0)'
      BY <1>0, <2>1, <2>6, Members DEF SInv, Placed, Same
    <3>2. (\A x \in Reqs : req[x].sent /\ req[x].answers = 0 => x \in ToSet(waiting) \cup ToSet(running) \cup Prefill)'
      BY <1>0, <2>1, <2>3, <2>4, <2>6 DEF SInv, Placed, Same
    <3>3. (chunked # None => chunked \in Prefill /\ ~Finished(chunked))'
      BY <1>0, <2>3, <2>9, Members DEF SInv, Placed
    <3>. QED
      BY <1>0, <2>3, <2>6, <3>1, <3>2, <3>3 DEF SInv, Placed
  <2>11. Held'
    BY <1>0, <2>1, <2>3, <2>9 DEF SInv, Held
  <2>12. InFlight'
    <3>1. PendingLast' = PendingLast /\ PendingCur' = PendingCur
      BY <1>0 DEF PendingLast, PendingCur
    <3>2. Live(last)'
      BY <1>0, <2>1, <2>6, <2>9, Members DEF SInv, InFlight, Live
    <3>3. (\A i \in DOMAIN results : \A x \in ToSet(results[i].reqs) : Skipped(x) \/ req[x].holds)'
      BY <1>0, <2>1, <2>9, Members DEF SInv, InFlight
    <3>. QED
      BY <1>0, <3>1, <3>2, <3>3 DEF SInv, InFlight, LeftOf
  <2>13. Chunks'
    BY <1>0, <2>1, <2>3 DEF SInv, Chunks, ChunkPending
  <2>. QED
    BY <2>7, <2>8, <2>10, <2>11, <2>12, <2>13 DEF SInv
<1>. QED
  BY <1>1, <1>2

\* flush_cache, which resets the pools, happens when nobody holds a row.
LEMMA FlushInv ==
    ASSUME SInv, FlushCache
    PROVE  SInv'
<1>. USE DEF FlushCache
<1>0. pc = "start" /\ pc' = "start" /\ Types /\ cur = last
  BY DEF SInv, InFlight
<1>1. ToSet(<< >>) = {} /\ IsInjective(<< >>) /\ << >> \in Seq(Reqs)
  BY DEF ToSet, IsInjective
<1>2. Prefill = {} /\ Prefill' = {} /\ ToSet(running) = {}
  BY <1>0, <1>1 DEF Prefill, ReqsOf, NoBatch
<1>3. chunked = None /\ chunked' = None
  BY <1>0, <1>2 DEF SInv, Placed
<1>4. Holders = {} /\ Holders' = {}
  BY <1>0, <1>2 DEF SInv, Held, Holders
<1>5. ReqShape' /\ \A x \in Reqs : Same(x)
  BY <1>0 DEF Types, ReqTypes, ReqShape, Same
<1>6. Proper(NoBatch)
  BY <1>1 DEF Proper, NoBatch, Batches
<1>7. Types' /\ Answers'
  BY <1>0, <1>6, ReqsAssumption DEF SInv, Types, ReqTypes, QueueTypes, LoopTypes, Answers
<1>8. Placed'
  BY <1>0, <1>2, <1>3 DEF SInv, Placed, Admitting
<1>9. Held'
  BY <1>0, <1>2, <1>4, FS_EmptySet, ReqsAssumption DEF SInv, Held, Pledged, Admitting
<1>10. InFlight'
  BY <1>0, <1>1 DEF InFlight, PendingLast, PendingCur, Live, NoBatch
<1>11. Chunks'
  BY <1>0, <1>3 DEF Chunks, NoBatch, Admitting
<1>. QED
  BY <1>7, <1>8, <1>9, <1>10, <1>11 DEF SInv

---------------------------------------------------------------------------
(* Making a batch. *)

\* Caching what a request has computed changes nothing else of it.
LEMMA UnfinishKeeps ==
    ASSUME ReqShape, NEW c, NEW r \in Reqs
    PROVE  LET q == Unfinish(c, r).req
           IN  /\ DOMAIN q = DOMAIN FreshReq /\ q.chunks = req[r].chunks /\ q.holds = req[r].holds
               /\ q.finished = req[r].finished /\ q.sent = req[r].sent
               /\ q.retracted = req[r].retracted /\ q.output = req[r].output
               /\ q.answers = req[r].answers
  BY DEF ReqShape, Unfinish, UnfinishHolding, FreshReq

\* get_next_batch_to_run up to the prefill: every unfinished request of the
\* last prefill batch but the chunked one joins the running batch.
LEMMA MergeInv ==
    ASSUME SInv, MergeLast
    PROVE  SInv'
<1>0. /\ pc = "start" /\ pc' = "prefill" /\ paused' = paused /\ Types /\ Answers /\ ReqShape
      /\ UNCHANGED <<args, waiting, chunked, last, cur, results, adder>>
  BY DEF SInv, MergeLast, Types, ReqTypes, ReqShape
<1>. DEFINE keep == IF last.mode = "extend" THEN Joining(last.reqs, {chunked, last.chunked}) ELSE << >>
            u == Unfinish(cache, chunked)
<1>1. /\ running' = running \o keep
      /\ req' = IF chunked = None THEN req ELSE [req EXCEPT ![chunked] = u.req]
      /\ rows' = IF chunked = None THEN rows ELSE rows + 1
  BY DEF MergeLast
<1>2. /\ cur = last /\ chunked = last.chunked
      /\ Prefill = (IF last.mode = "extend" THEN ToSet(last.reqs) ELSE {})
      /\ Prefill' = {chunked} \ {None}
  BY <1>0 DEF SInv, InFlight, Chunks, Prefill
<1>3. /\ keep \in Seq(Reqs) /\ IsInjective(keep)
      /\ ToSet(keep) = {x \in Prefill : ~Finished(x) /\ x # chunked}
  <2>1. CASE last.mode = "extend"
    <3>1. last.reqs \in Seq(Reqs) /\ IsInjective(last.reqs) /\ ToSet(last.reqs) \subseteq Reqs
      BY <1>0, Members DEF Types, LoopTypes, Proper, Batches
    <3>. DEFINE S == {r \in Reqs : ~Finished(r)} \ {chunked}
    <3>2. keep = Those(last.reqs, S)
      BY <2>1, <1>2 DEF Joining
    <3>3. \A x \in Reqs : x \in S <=> ~Finished(x) /\ x # chunked
      OBVIOUS
    <3>. HIDE DEF keep, S
    <3>4. keep \in Seq(Reqs) /\ IsInjective(keep) /\ ToSet(keep) = ToSet(last.reqs) \cap S
      BY <3>1, <3>2, ThoseMeaning
    <3>5. Prefill = ToSet(last.reqs)
      BY <2>1, <1>2
    <3>. QED
      BY <3>1, <3>3, <3>4, <3>5
  <2>2. CASE last.mode # "extend"
    <3>1. keep = << >> /\ Prefill = {}
      BY <2>2, <1>2
    <3>2. << >> \in Seq(Reqs) /\ IsInjective(<< >>) /\ ToSet(<< >>) = {}
      BY DEF IsInjective, ToSet
    <3>. HIDE DEF keep
    <3>. QED
      BY <3>1, <3>2
  <2>. QED
    BY <2>1, <2>2
<1>. HIDE DEF keep, u
<1>4. /\ running \in Seq(Reqs) /\ IsInjective(running) /\ ToSet(running) \cap ToSet(keep) = {}
  BY <1>0, <1>3 DEF SInv, Placed, Types, QueueTypes
<1>5. /\ running' \in Seq(Reqs) /\ IsInjective(running') /\ ToSet(running') = ToSet(running) \cup ToSet(keep)
  BY <1>1, <1>3, <1>4, ToSetConcat, ConcatAt
<1>6. ReqShape' /\ \A x \in Reqs : Same(x)
  <2>1. CASE chunked = None
    BY <2>1, <1>0, <1>1 DEF ReqShape, Same
  <2>2. CASE chunked # None
    <3>1. chunked \in Reqs
      BY <2>2, <1>0 DEF Types, LoopTypes
    <3>2. /\ DOMAIN u.req = DOMAIN FreshReq /\ u.req.chunks = req[chunked].chunks
          /\ u.req.holds = req[chunked].holds /\ u.req.finished = req[chunked].finished
          /\ u.req.sent = req[chunked].sent /\ u.req.retracted = req[chunked].retracted
          /\ u.req.output = req[chunked].output /\ u.req.answers = req[chunked].answers
      BY <3>1, <1>0, UnfinishKeeps DEF u
    <3>3. ReqShape' /\ req'[chunked] = u.req /\ \A x \in Reqs : x # chunked => Same(x)
      BY <3>1, <3>2, <1>0, <1>1, <2>2, ReqUpdate
    <3>4. Same(chunked)
      BY <3>2, <3>3 DEF Same
    <3>. QED
      BY <3>3, <3>4
  <2>. QED
    BY <2>1, <2>2
<1>7. /\ ReqTypes' /\ Answers' /\ Holders' = Holders
      /\ \A r \in Reqs : Finished(r)' = Finished(r) /\ Skipped(r)' = Skipped(r)
  BY <1>0, <1>6, SameReqs DEF Types
<1>8. Types'
  BY <1>0, <1>1, <1>5, <1>7 DEF Types, QueueTypes, LoopTypes
<1>9. Prefill \subseteq Reqs /\ ToSet(running) \subseteq Reqs /\ ToSet(waiting) \subseteq Reqs
  BY <1>0, Members
<1>10. chunked # None => chunked \in Prefill /\ ~Finished(chunked)
  BY <1>0 DEF SInv, Placed
<1>11. ~Admitting /\ ~Admitting'
  BY <1>0 DEF Admitting
<1>12. Placed'
  <2>1. (\A r \in ToSet(waiting) : req[r].sent /\ req[r].answers = 0)'
    BY <1>0, <1>6, <1>9 DEF SInv, Placed, Same
  <2>2. (\A r \in Reqs : req[r].sent /\ req[r].answers = 0 => r \in ToSet(waiting) \cup ToSet(running) \cup Prefill)'
    <3>1. SUFFICES ASSUME NEW r \in Reqs, req'[r].sent, req'[r].answers = 0
                   PROVE  r \in ToSet(waiting) \cup ToSet(running') \cup Prefill'
      BY <1>0
    <3>2. req[r].sent /\ req[r].answers = 0
      BY <3>1, <1>6 DEF Same
    <3>3. r \in ToSet(waiting) \cup ToSet(running) \cup Prefill /\ ~Finished(r)
      BY <3>2, <1>0 DEF SInv, Placed, Answers, Finished
    <3>. QED
      BY <3>3, <1>2, <1>3, <1>5, ReqsAssumption
  <2>3. (chunked # None => chunked \in Prefill /\ ~Finished(chunked))'
    BY <1>0, <1>2, <1>7, <1>9, <1>10
  <2>4. ToSet(waiting') \cap ToSet(running') = {} /\ ToSet(waiting') \cap Prefill' = {}
    BY <1>0, <1>2, <1>3, <1>5, <1>10, <1>11 DEF SInv, Placed
  <2>5. ToSet(running') \cap Prefill' = {}
    BY <1>0, <1>2, <1>3, <1>5, <1>10 DEF SInv, Placed
  <2>. QED
    BY <1>0, <1>11, <2>1, <2>2, <2>3, <2>4, <2>5 DEF Placed
<1>13. Held'
  <2>1. (\A r \in Reqs : req[r].holds <=> r \in ToSet(running) \cup Prefill /\ ~Finished(r))'
    <3>1. SUFFICES ASSUME NEW r \in Reqs
                   PROVE  req'[r].holds <=> r \in ToSet(running') \cup Prefill' /\ ~Finished(r)'
      OBVIOUS
    <3>2. req[r].holds <=> r \in ToSet(running) \cup Prefill /\ ~Finished(r)
      BY <1>0 DEF SInv, Held
    <3>3. r \in ToSet(running') \cup Prefill' /\ ~Finished(r) <=> r \in ToSet(running) \cup Prefill /\ ~Finished(r)
      BY <1>2, <1>3, <1>5, <1>10, ReqsAssumption
    <3>. QED
      BY <3>2, <3>3, <1>6, <1>7 DEF Same
  <2>2. Pledged = 0 /\ Pledged' = IF chunked = None THEN 0 ELSE 1
    BY <1>0 DEF Pledged, Admitting
  <2>3. IsFiniteSet(Holders) /\ rows = MaxRunning - Cardinality(Holders) + Pledged
    BY <1>0 DEF SInv, Held
  <2>4. Cardinality(Holders) \in Nat
    BY <2>3, FS_CardinalityType
  <2>5. rows' = MaxRunning - Cardinality(Holders') + Pledged'
    BY <2>2, <2>3, <2>4, <1>1, <1>7, ReqsAssumption
  <2>. QED
    BY <2>1, <2>3, <2>5, <1>7 DEF Held
<1>14. InFlight'
  <2>1. PendingLast' = PendingLast /\ PendingCur' = PendingCur
    BY <1>0 DEF PendingLast, PendingCur
  <2>2. Live(last)' <=> Live(last)
    BY <1>0, <1>6, <1>7, Members DEF Live, Same
  <2>3. (\A i \in DOMAIN results : \A r \in ToSet(results[i].reqs) : Skipped(r) \/ req[r].holds)'
    BY <1>0, <1>6, <1>7, Members DEF SInv, InFlight, Same
  <2>. QED
    BY <1>0, <2>1, <2>2, <2>3 DEF SInv, InFlight, LeftOf
<1>15. Chunks'
  BY <1>0, <1>2, <1>6, <1>11 DEF SInv, Chunks, ChunkPending, Same
<1>. QED
  BY <1>7, <1>8, <1>12, <1>13, <1>14, <1>15 DEF SInv, Types

\* The list of one request, and the empty one.
LEMMA ShortLists ==
    ASSUME NEW T
    PROVE  /\ << >> \in Seq(T) /\ IsInjective(<< >>) /\ ToSet(<< >>) = {}
           /\ \A x \in T : <<x>> \in Seq(T) /\ IsInjective(<<x>>) /\ ToSet(<<x>>) = {x} /\ Len(<<x>>) = 1
  BY DEF IsInjective, ToSet

\* The adder starts with the request whose prefill goes on, if there is one.
LEMMA PrefillMove ==
    ASSUME SInv, pc = "prefill",
           UNCHANGED <<args, waiting, running, rows, last, cur, results, paused>>,
           ReqShape', \A x \in Reqs : Same(x), chunked' \in {chunked, None},
           \/ pc' = "decode" /\ chunked = None /\ adder' = adder
           \/ /\ pc' = "admit" /\ DOMAIN adder' = DOMAIN NoAdder /\ adder'.idx = 1
              /\ adder'.can = IF chunked = None THEN << >> ELSE <<chunked>>
    PROVE  SInv'
<1>0. Types /\ Answers
  BY DEF SInv
<1>1. /\ ReqTypes' /\ Answers' /\ Holders' = Holders
      /\ \A r \in Reqs : Finished(r)' = Finished(r) /\ Skipped(r)' = Skipped(r)
  BY <1>0, SameReqs DEF Types
<1>2. /\ adder'.can \in Seq(Reqs) /\ IsInjective(adder'.can)
      /\ pc' = "admit" => /\ ToSet(adder'.can) = {chunked} \ {None}
                          /\ Len(adder'.can) = IF chunked = None THEN 0 ELSE 1
  <2>1. CASE pc' = "decode"
    BY <2>1, <1>0 DEF Types, QueueTypes
  <2>2. CASE pc' = "admit" /\ chunked = None
    BY <2>2, ShortLists
  <2>3. CASE pc' = "admit" /\ chunked # None
    <3>1. chunked \in Reqs
      BY <2>3, <1>0 DEF Types, LoopTypes
    <3>2. /\ <<chunked>> \in Seq(Reqs) /\ IsInjective(<<chunked>>)
          /\ ToSet(<<chunked>>) = {chunked} /\ Len(<<chunked>>) = 1
      BY <3>1, ShortLists
    <3>3. adder'.can = <<chunked>>
      BY <2>3
    <3>. QED
      BY <3>1, <3>2, <3>3, <2>3
  <2>. QED
    BY <2>1, <2>2, <2>3
<1>3. Types'
  <2>1. QueueTypes'
    BY <1>0, <1>2 DEF Types, QueueTypes
  <2>2. LoopTypes'
    BY <1>0 DEF Types, LoopTypes
  <2>. QED
    BY <1>1, <2>1, <2>2 DEF Types
<1>4. Prefill = {chunked} \ {None} /\ Prefill' = Prefill
  BY <1>2 DEF Prefill, Admitting
<1>5. Pledged' = Pledged
  BY <1>2 DEF Pledged, Admitting
<1>6. Prefill \subseteq Reqs /\ ToSet(running) \subseteq Reqs /\ ToSet(waiting) \subseteq Reqs
  BY <1>0, Members
<1>7. ~Admitting /\ (Admitting' <=> pc' = "admit") /\ pc' \notin {"retract", "recheck", "forward", "crashed"}
  BY DEF Admitting
<1>8. Placed'
  <2>1. (\A r \in ToSet(waiting) : req[r].sent /\ req[r].answers = 0)'
    BY <1>6 DEF SInv, Placed, Same
  <2>2. (\A r \in Reqs : req[r].sent /\ req[r].answers = 0 => r \in ToSet(waiting) \cup ToSet(running) \cup Prefill)'
    BY <1>4 DEF SInv, Placed, Same
  <2>3. (chunked # None => chunked \in Prefill /\ ~Finished(chunked))'
    BY <1>1, <1>4, <1>6 DEF SInv, Placed
  <2>4. ToSet(waiting) \cap Prefill = {} /\ ToSet(running) \cap Prefill = {} /\ ToSet(waiting) \cap ToSet(running) = {}
    BY <1>7 DEF SInv, Placed
  <2>5. Admitting' => /\ adder'.idx \in 1 .. Len(waiting) + 1
                      /\ \A i \in 1 .. Len(waiting) : waiting[i] \in ToSet(adder'.can) <=> i < adder'.idx
                      /\ \A r \in ToSet(adder'.can) : ~Finished(r)'
    <3>1. SUFFICES ASSUME pc' = "admit"
                   PROVE  /\ adder'.idx \in 1 .. Len(waiting) + 1
                          /\ \A i \in 1 .. Len(waiting) : waiting[i] \in ToSet(adder'.can) <=> i < adder'.idx
                          /\ \A r \in ToSet(adder'.can) : ~Finished(r)'
      BY <1>7
    <3>2. adder'.idx = 1 /\ waiting \in Seq(Reqs) /\ Len(waiting) \in Nat
      BY <3>1, <1>0 DEF Types, QueueTypes
    <3>3. \A i \in 1 .. Len(waiting) : waiting[i] \in ToSet(waiting)
      BY <3>2 DEF ToSet
    <3>4. ToSet(adder'.can) = Prefill
      BY <3>1, <1>2, <1>4
    <3>5. \A r \in Prefill : ~Finished(r)'
      BY <1>1, <1>4, <1>6 DEF SInv, Placed
    <3>. QED
      BY <2>4, <3>2, <3>3, <3>4, <3>5
  <2>. QED
    BY <1>4, <1>7, <2>1, <2>2, <2>3, <2>4, <2>5 DEF Placed
<1>9. Held'
  BY <1>1, <1>4, <1>5 DEF SInv, Held, Same
<1>10. InFlight'
  <2>1. PendingLast' = PendingLast /\ PendingCur' = PendingCur
    BY <1>7 DEF PendingLast, PendingCur
  <2>2. Live(last)' <=> Live(last)
    BY <1>0, <1>1, Members DEF Live, Same
  <2>3. (\A i \in DOMAIN results : \A r \in ToSet(results[i].reqs) : Skipped(r) \/ req[r].holds)'
    BY <1>0, <1>1, Members DEF SInv, InFlight, Same
  <2>. QED
    BY <1>7, <2>1, <2>2, <2>3 DEF SInv, InFlight, LeftOf
<1>11. Chunks'
  <2>1. /\ Admitting' /\ adder'.can = <<>> => last.chunked = None
        /\ pc' = "decode" => last.chunked = None
    BY <1>2, <1>7 DEF SInv, Chunks
  <2>2. \A i \in DOMAIN results : chunked' # None /\ chunked' \in ToSet(results[i].reqs) => results[i].chunked = chunked'
    BY DEF SInv, Chunks
  <2>3. /\ (\A i \in DOMAIN results : \A r \in Reqs : ChunkPending(i, r) => req[r].chunks >= 1)'
        /\ (\A i, j \in DOMAIN results : \A r \in Reqs :
              i # j /\ ChunkPending(i, r) /\ ChunkPending(j, r) => req[r].chunks >= 2)'
    BY DEF SInv, Chunks, ChunkPending, Same
  <2>. QED
    BY <1>7, <2>1, <2>2, <2>3 DEF Chunks
<1>. QED
  BY <1>1, <1>3, <1>8, <1>9, <1>10, <1>11 DEF SInv

\* get_new_batch_prefill up to the queue: the chunked request comes first.
LEMMA BeginInv ==
    ASSUME SInv, BeginPrefill
    PROVE  SInv'
<1>0. /\ Types /\ ReqShape /\ pc = "prefill"
      /\ UNCHANGED <<args, waiting, running, rows, last, cur, results, paused>>
  BY DEF SInv, BeginPrefill, Types, ReqTypes, ReqShape
<1>. DEFINE mixed == IF args.mixed THEN Len(running) ELSE 0
            a == [can |-> <<>>, idx |-> 1, total |-> mixed + Reserved, cur |-> mixed,
                  input |-> MaxPrefillTokens - mixed, chunk |-> args.chunk - mixed]
<1>1. CASE /\ pc' = "decode" /\ chunked = None
           /\ UNCHANGED <<req, chunked, adder>>
  <2>1. ReqShape' /\ \A x \in Reqs : Same(x)
    BY <1>0, <1>1 DEF ReqShape, Same
  <2>. QED
    BY <2>1, <1>0, <1>1, PrefillMove
<1>2. CASE /\ pc' = "admit" /\ chunked = None /\ adder' = a
           /\ UNCHANGED <<req, chunked>>
  <2>1. ReqShape' /\ \A x \in Reqs : Same(x)
    BY <1>0, <1>2 DEF ReqShape, Same
  <2>2. DOMAIN adder' = DOMAIN NoAdder /\ adder'.idx = 1 /\ adder'.can = << >>
    BY <1>2 DEF NoAdder
  <2>. QED
    BY <2>1, <2>2, <1>0, <1>2, PrefillMove
<1>3. ASSUME NEW len, NEW new, chunked # None, pc' = "admit", adder' = Spend(a, chunked, len, new),
             req' = [req EXCEPT ![chunked].fill = req[chunked].prefix + len], chunked' \in {chunked, None}
      PROVE  SInv'
  <2>0. chunked \in Reqs
    BY <1>0, <1>3 DEF Types, LoopTypes
  <2>1. ReqShape' /\ \A x \in Reqs : Same(x)
    BY <1>0, <1>3, <2>0 DEF ReqShape, Same, FreshReq
  <2>2. DOMAIN adder' = DOMAIN NoAdder /\ adder'.idx = 1 /\ adder'.can = Append(<< >>, chunked)
    BY <1>3 DEF NoAdder, Spend
  <2>3. Append(<< >>, chunked) = <<chunked>>
    BY <2>0
  <2>. QED
    BY <2>1, <2>2, <2>3, <1>0, <1>3, PrefillMove
<1>. DEFINE extend == SeqLen(chunked) - req[chunked].prefix
            l == ChunkLen(extend, a)
<1>4. \/ /\ pc' = "decode" /\ chunked = None
         /\ UNCHANGED <<req, chunked, adder>>
      \/ /\ pc' = "admit" /\ chunked = None /\ adder' = a
         /\ UNCHANGED <<req, chunked>>
      \/ /\ chunked # None /\ pc' = "admit"
         /\ adder' = Spend(a, chunked, l, IF l < extend THEN 0 ELSE MaxNew[chunked])
         /\ req' = [req EXCEPT ![chunked].fill = req[chunked].prefix + l]
         /\ chunked' \in {chunked, None}
  BY DEF BeginPrefill
<1>. HIDE DEF l, extend, a
<1>. QED
  BY <1>1, <1>2, <1>3, <1>4

\* No request could be added to a prefill batch.
LEMMA NoPrefillInv ==
    ASSUME SInv, NoPrefill
    PROVE  SInv'
<1>. USE DEF NoPrefill
<1>0. /\ pc = "batch" /\ pc' = "decode" /\ Types /\ ReqShape /\ Admitting /\ ~Admitting'
      /\ UNCHANGED <<args, waiting, running, rows, last, cur, results, paused, req, chunked>>
  BY DEF SInv, Types, ReqTypes, ReqShape, Admitting
<1>1. Prefill = {} /\ Prefill' = {} /\ Pledged = 0 /\ Pledged' = 0
  BY <1>0, ShortLists DEF Prefill, Pledged, Admitting
<1>2. chunked = None /\ last.chunked = None
  BY <1>0, <1>1 DEF SInv, Placed, Chunks
<1>3. Types' /\ Answers'
  <2>1. DOMAIN NoAdder = DOMAIN NoAdder /\ NoAdder.can \in Seq(Reqs) /\ IsInjective(NoAdder.can) /\ NoAdder.idx \in Nat
    BY ShortLists DEF NoAdder
  <2>. QED
    BY <1>0, <2>1 DEF SInv, Types, ReqTypes, QueueTypes, LoopTypes, Answers
<1>4. Placed'
  BY <1>0, <1>1, <1>2, ShortLists DEF SInv, Placed, Finished
<1>5. Held'
  BY <1>0, <1>1 DEF SInv, Held, Holders, Finished
<1>6. InFlight'
  BY <1>0 DEF SInv, InFlight, PendingLast, PendingCur, Live, Finished, Skipped, LeftOf
<1>7. Chunks'
  BY <1>0, <1>2 DEF SInv, Chunks, ChunkPending
<1>. QED
  BY <1>3, <1>4, <1>5, <1>6, <1>7 DEF SInv

\* A request of the queue is added, and owns a row.
LEMMA AdmitMove ==
    ASSUME SInv, pc = "admit", adder.idx <= Len(waiting), pc' \in {"admit", "batch", "crashed"},
           UNCHANGED <<args, waiting, running, rows, last, cur, results, paused>>,
           NEW r, r = waiting[adder.idx],
           NEW q, req' = [req EXCEPT ![r] = q],
           DOMAIN q = DOMAIN FreshReq, q.holds = TRUE,
           q.chunks = req[r].chunks, q.finished = req[r].finished, q.sent = req[r].sent,
           q.retracted = req[r].retracted, q.output = req[r].output, q.answers = req[r].answers,
           DOMAIN adder' = DOMAIN NoAdder, adder'.can = Append(adder.can, r), adder'.idx = adder.idx + 1,
           chunked' \in {chunked, r}, chunked' = r /\ chunked # None => pc' = "crashed"
    PROVE  SInv'
<1>0. Types /\ Answers /\ ReqShape /\ Admitting /\ pc # "crashed"
  BY DEF SInv, Types, ReqTypes, ReqShape, Admitting
<1>1. /\ waiting \in Seq(Reqs) /\ Len(waiting) \in Nat /\ adder.idx \in 1 .. Len(waiting)
      /\ adder.can \in Seq(Reqs) /\ IsInjective(adder.can) /\ IsInjective(waiting)
      /\ DOMAIN waiting = 1 .. Len(waiting)
  BY <1>0 DEF SInv, Types, QueueTypes, Placed
<1>2. /\ r \in Reqs /\ r \in ToSet(waiting)
      /\ \A i \in 1 .. Len(waiting) : waiting[i] = r => i = adder.idx
  <2>1. r \in Reqs
    BY <1>1
  <2>2. r \in ToSet(waiting)
    BY <1>1 DEF ToSet
  <2>3. \A i \in 1 .. Len(waiting) : waiting[i] = r => i = adder.idx
    BY <1>1 DEF IsInjective
  <2>. QED
    BY <2>1, <2>2, <2>3
<1>3. r \notin ToSet(adder.can) /\ Prefill = ToSet(adder.can) /\ r \notin ToSet(running)
  <2>1. waiting[adder.idx] \in ToSet(adder.can) <=> adder.idx < adder.idx
    BY <1>0, <1>1 DEF SInv, Placed
  <2>. QED
    BY <2>1, <1>0, <1>1, <1>2 DEF SInv, Placed, Prefill, Admitting
<1>4. /\ adder'.can \in Seq(Reqs) /\ IsInjective(adder'.can) /\ ToSet(adder'.can) = ToSet(adder.can) \cup {r}
      /\ Len(adder'.can) = Len(adder.can) + 1 /\ Len(adder.can) \in Nat
  BY <1>1, <1>2, <1>3, ToSetAppend, AppendAt
<1>5. ReqShape' /\ req'[r] = q /\ \A x \in Reqs : x # r => Same(x)
  BY <1>0, <1>2, ReqUpdate
<1>6. \A x \in Reqs : /\ req'[x].chunks = req[x].chunks /\ req'[x].finished = req[x].finished
                      /\ req'[x].sent = req[x].sent /\ req'[x].retracted = req[x].retracted
                      /\ req'[x].output = req[x].output /\ req'[x].answers = req[x].answers
  BY <1>5 DEF Same
<1>7. req'[r].holds = TRUE /\ \A x \in Reqs : x # r => req'[x].holds = req[x].holds
  BY <1>5 DEF Same
<1>8. req[r].sent /\ req[r].answers = 0 /\ ~Finished(r) /\ ~req[r].holds
  BY <1>0, <1>2, <1>3 DEF SInv, Placed, Held, Answers, Finished
<1>9. Types'
  <2>1. ReqTypes'
    BY <1>0, <1>5, <1>6, <1>7, Zenon DEF Types, ReqTypes, ReqShape
  <2>2. QueueTypes'
    BY <1>0, <1>1, <1>4 DEF Types, QueueTypes
  <2>3. LoopTypes'
    BY <1>0, <1>2 DEF Types, LoopTypes
  <2>. QED
    BY <2>1, <2>2, <2>3 DEF Types
<1>10. Answers'
  BY <1>6, <1>7, <1>8 DEF SInv, Answers
<1>11. SUFFICES ASSUME pc' # "crashed" PROVE (Placed /\ Held /\ InFlight /\ Chunks)'
  BY <1>9, <1>10 DEF SInv
<1>12. Admitting' /\ Prefill' = Prefill \cup {r} /\ Pledged' = Pledged + 1 /\ Pledged = Len(adder.can)
  BY <1>3, <1>4, <1>11 DEF Prefill, Pledged, Admitting
<1>13. /\ \A x \in Reqs : Finished(x)' = Finished(x) /\ Skipped(x)' = Skipped(x)
       /\ Holders' = Holders \cup {r} /\ r \notin Holders
  BY <1>2, <1>6, <1>7, <1>8 DEF Holders, Finished, Skipped
<1>14. /\ Prefill \subseteq Reqs /\ ToSet(running) \subseteq Reqs /\ ToSet(waiting) \subseteq Reqs
       /\ ToSet(last.reqs) \subseteq Reqs /\ ToSet(adder.can) \subseteq Reqs
  BY <1>0, Members
<1>15. Placed'
  <2>1. (\A x \in ToSet(waiting) : req[x].sent /\ req[x].answers = 0)'
    BY <1>0, <1>6, <1>14 DEF SInv, Placed
  <2>2. (\A x \in Reqs : req[x].sent /\ req[x].answers = 0 => x \in ToSet(waiting) \cup ToSet(running) \cup Prefill)'
    BY <1>0, <1>6, <1>12 DEF SInv, Placed
  <2>3. (chunked # None => chunked \in Prefill /\ ~Finished(chunked))'
    BY <1>0, <1>2, <1>8, <1>12, <1>13, <1>14 DEF SInv, Placed
  <2>4. ToSet(running) \cap Prefill' = {} /\ ToSet(waiting) \cap ToSet(running) = {}
    BY <1>0, <1>3, <1>12 DEF SInv, Placed
  <2>5. adder'.idx \in 1 .. Len(waiting) + 1
    BY <1>1
  <2>6. \A i \in 1 .. Len(waiting) : waiting[i] \in ToSet(adder'.can) <=> i < adder'.idx
    <3>1. SUFFICES ASSUME NEW i \in 1 .. Len(waiting)
                   PROVE  waiting[i] \in ToSet(adder'.can) <=> i < adder'.idx
      OBVIOUS
    <3>2. waiting[i] \in ToSet(adder.can) <=> i < adder.idx
      BY <1>0 DEF SInv, Placed
    <3>3. waiting[i] = r <=> i = adder.idx
      BY <1>1, <1>2
    <3>. QED
      BY <3>2, <3>3, <1>1, <1>4
  <2>7. \A x \in ToSet(adder'.can) : ~Finished(x)'
    BY <1>0, <1>2, <1>4, <1>8, <1>13, <1>14 DEF SInv, Placed
  <2>. QED
    BY <1>11, <1>12, <2>1, <2>2, <2>3, <2>4, <2>5, <2>6, <2>7 DEF Placed
<1>16. Held'
  <2>1. (\A x \in Reqs : req[x].holds <=> x \in ToSet(running) \cup Prefill /\ ~Finished(x))'
    BY <1>0, <1>2, <1>7, <1>8, <1>12, <1>13 DEF SInv, Held
  <2>2. /\ IsFiniteSet(Holders) /\ Cardinality(Holders) \in Nat
        /\ rows = MaxRunning - Cardinality(Holders) + Pledged
    BY <1>0, FS_CardinalityType DEF SInv, Held
  <2>3. IsFiniteSet(Holders') /\ Cardinality(Holders') = Cardinality(Holders) + 1
    BY <2>2, <1>13, FS_AddElement
  <2>4. rows' = MaxRunning - Cardinality(Holders') + Pledged'
    BY <2>2, <2>3, <1>4, <1>12, ReqsAssumption
  <2>. QED
    BY <2>1, <2>3, <2>4 DEF Held
<1>17. InFlight'
  <2>1. PendingLast' = PendingLast /\ PendingCur' = PendingCur
    BY <1>11 DEF PendingLast, PendingCur
  <2>2. Live(last) /\ Live(last)'
    BY <1>0, <1>7, <1>13, <1>14, Members DEF SInv, InFlight, Live
  <2>3. (\A i \in DOMAIN results : \A x \in ToSet(results[i].reqs) : Skipped(x) \/ req[x].holds)'
    BY <1>0, <1>7, <1>13, Members DEF SInv, InFlight
  <2>. QED
    BY <1>0, <1>11, <2>1, <2>2, <2>3 DEF SInv, InFlight, LeftOf
<1>18. Chunks'
  <2>1. adder'.can # << >>
    BY <1>4, ShortLists
  <2>2. \A i \in DOMAIN results : chunked' # None /\ chunked' \in ToSet(results[i].reqs) => results[i].chunked = chunked'
    <3>1. CASE chunked' = chunked
      BY <3>1, <1>0 DEF SInv, Chunks
    <3>2. CASE chunked' = r
      <4>1. args.overlap => r \notin ToSet(last.reqs)
        BY <1>0, <1>2 DEF SInv, InFlight, Live
      <4>2. \A i \in DOMAIN results : i = 1 /\ LeftOf(results[1], last) /\ args.overlap
        <5>1. /\ Len(results) = PendingLast + PendingCur /\ PendingCur = 0
              /\ PendingLast \in {0, 1} /\ (PendingLast = 1 => args.overlap) /\ (PendingLast = 1 => LeftOf(results[1], last))
          BY <1>0 DEF SInv, InFlight, PendingCur, PendingLast
        <5>2. DOMAIN results = 1 .. Len(results) /\ Len(results) \in Nat
          BY <1>0 DEF Types, LoopTypes
        <5>. QED
          BY <5>1, <5>2
      <4>. QED
        BY <3>2, <4>1, <4>2 DEF LeftOf
    <3>. QED
      BY <3>1, <3>2
  <2>3. /\ (\A i \in DOMAIN results : \A x \in Reqs : ChunkPending(i, x) => req[x].chunks >= 1)'
        /\ (\A i, j \in DOMAIN results : \A x \in Reqs :
              i # j /\ ChunkPending(i, x) /\ ChunkPending(j, x) => req[x].chunks >= 2)'
    BY <1>0, <1>6 DEF SInv, Chunks, ChunkPending
  <2>. QED
    BY <1>11, <2>1, <2>2, <2>3 DEF Chunks
<1>. QED
  BY <1>15, <1>16, <1>17, <1>18

\* The loop over the waiting queue in get_new_batch_prefill.
LEMMA AdmitInv ==
    ASSUME SInv, AdmitNext
    PROVE  SInv'
<1>0. /\ Types /\ ReqShape /\ pc = "admit"
      /\ UNCHANGED <<args, waiting, running, rows, last, cur, results, paused>>
  BY DEF SInv, AdmitNext, Types, ReqTypes, ReqShape
<1>1. CASE pc' = "batch" /\ UNCHANGED <<req, adder, chunked>>
  <2>1. ReqShape' /\ \A x \in Reqs : Same(x)
    BY <1>0, <1>1 DEF ReqShape, Same
  <2>. QED
    BY <2>1, <1>0, <1>1, OnlyPcInv DEF Kept, Types, LoopTypes
<1>. DEFINE r == waiting[adder.idx]
            n == CachedPrefix(cache, MatchKey(r))
            c == MatchPrefix(cache, MatchKey(r))
            add == AddOneReq(r, c, n, adder)
            a == Spend(adder, r, add.len, IF add.result = "all" THEN MaxNew[r] ELSE 0)
            q == [req[r] EXCEPT !.prefix = Len(n), !.prot = Len(n), !.node = n,
                                !.pages = CachedPages(c, n), !.holds = TRUE,
                                !.fill = Len(n) + add.len]
<1>2. CASE /\ ~(adder.idx > Len(waiting))
           /\ req' = [req EXCEPT ![r] = q]
           /\ adder' = [a EXCEPT !.idx = @ + 1]
           /\ chunked' = IF add.result = "chunk" THEN r ELSE chunked
           /\ pc' = IF add.result = "chunk" /\ chunked # None THEN "crashed"
                  ELSE IF BudgetState(IncLockRef(c, n), a) = "continue" THEN "admit" ELSE "batch"
  <2>1. /\ pc' \in {"admit", "batch", "crashed"} /\ chunked' \in {chunked, r}
        /\ chunked' = r /\ chunked # None => pc' = "crashed" \/ chunked = r
    <3>. HIDE DEF q, a, add, c, n, r
    <3>. QED
      BY <1>2
  <2>2. /\ waiting \in Seq(Reqs) /\ adder.idx \in 1 .. Len(waiting)
    <3>. HIDE DEF q, a, add, c, n, r
    <3>1. waiting \in Seq(Reqs) /\ ~(adder.idx > Len(waiting))
      BY <1>0, <1>2 DEF Types, QueueTypes
    <3>2. adder.idx \in 1 .. Len(waiting) + 1
      BY <1>0 DEF SInv, Placed, Admitting
    <3>. QED
      BY <3>1, <3>2
  <2>3. r \in Reqs
    BY <2>2
  <2>4. chunked # r
    <3>1. waiting[adder.idx] \in ToSet(adder.can) <=> adder.idx < adder.idx
      BY <1>0, <2>2 DEF SInv, Placed, Admitting
    <3>2. chunked # None => chunked \in ToSet(adder.can)
      BY <1>0 DEF SInv, Placed, Prefill, Admitting
    <3>. QED
      BY <2>2, <2>3, <3>1, <3>2, ReqsAssumption
  <2>5. /\ DOMAIN q = DOMAIN FreshReq /\ q.holds = TRUE
        /\ q.chunks = req[r].chunks /\ q.finished = req[r].finished /\ q.sent = req[r].sent
        /\ q.retracted = req[r].retracted /\ q.output = req[r].output /\ q.answers = req[r].answers
    BY <1>0, <2>3 DEF ReqShape, FreshReq
  <2>6. /\ DOMAIN adder' = DOMAIN NoAdder /\ adder'.can = Append(adder.can, r)
        /\ adder'.idx = adder.idx + 1
    BY <1>0, <1>2 DEF Types, QueueTypes, NoAdder, Spend
  <2>. HIDE DEF q, a, add, c, n, r
  <2>7. r = waiting[adder.idx] /\ adder.idx <= Len(waiting) /\ req' = [req EXCEPT ![r] = q]
    BY <1>2, <2>2 DEF r
  <2>. QED
    BY <1>0, <2>1, <2>4, <2>5, <2>6, <2>7, AdmitMove
<1>3. \/ pc' = "batch" /\ UNCHANGED <<req, adder, chunked>>
      \/ /\ ~(adder.idx > Len(waiting))
         /\ req' = [req EXCEPT ![r] = q]
         /\ adder' = [a EXCEPT !.idx = @ + 1]
         /\ chunked' = IF add.result = "chunk" THEN r ELSE chunked
         /\ pc' = IF add.result = "chunk" /\ chunked # None THEN "crashed"
                  ELSE IF BudgetState(IncLockRef(c, n), a) = "continue" THEN "admit" ELSE "batch"
  BY Zenon DEF AdmitNext
<1>. QED
  BY <1>1, <1>2, <1>3

\* What a new batch changes.
LEMMA NewBatchMeaning ==
    ASSUME SInv, NewBatch
    PROVE  LET rs == adder.can
               dec == IF args.mixed THEN Unfinished(running) ELSE << >>
               batch == [mode |-> "extend", reqs |-> rs \o dec, chunked |-> chunked, decoding |-> ToSet(dec)]
           IN  /\ pc = "batch" /\ pc' \in {"process", "crashed"} /\ rs # << >>
               /\ cur' = batch /\ results' = Append(results, batch)
               /\ rows' = rows - Len(rs) /\ adder' = NoAdder
               /\ waiting' = Those(waiting, Reqs \ ToSet(rs))
               /\ running' = IF args.mixed THEN << >> ELSE running
               /\ UNCHANGED <<args, chunked, last, paused>>
               /\ ReqShape'
               /\ \A x \in Reqs : /\ req'[x].holds = req[x].holds /\ req'[x].finished = req[x].finished
                                  /\ req'[x].sent = req[x].sent /\ req'[x].output = req[x].output
                                  /\ req'[x].answers = req[x].answers
                                  /\ req'[x].retracted = (req[x].retracted /\ ~Contains(rs, x))
                                  /\ req'[x].chunks = IF x = chunked THEN req[x].chunks + 1 ELSE req[x].chunks
<1>. DEFINE rs == adder.can
            dec == IF args.mixed THEN Unfinished(running) ELSE << >>
            batch == [mode |-> "extend", reqs |-> rs \o dec, chunked |-> chunked, decoding |-> ToSet(dec)]
            from == [r \in Reqs |-> IF Contains(dec, r) THEN req[r].kv ELSE req[r].prefix]
            to == [r \in Reqs |-> IF Contains(dec, r) THEN req[r].kv + 1 ELSE req[r].fill]
            extend == SumFunction([i \in 1 .. Len(rs) |-> to[rs[i]] - from[rs[i]]])
            New(r, pages) == [req[r] EXCEPT !.pages = IF r \in DOMAIN pages THEN pages[r] ELSE @,
                                            !.kv = IF r \in DOMAIN pages THEN to[r] ELSE @,
                                            !.fill = IF Contains(dec, r) THEN SeqLen(r) ELSE @,
                                            !.retracted = @ /\ ~Contains(rs, r),
                                            !.chunks = IF r = chunked THEN @ + 1 ELSE @]
<1>1. PICK c \in EvictFromTreeCache(cache, IF PageSize = 1 THEN extend ELSE extend + Len(rs) * PageSize) :
        LET m == Allocate(c, rs, from, to)
        IN  \E d \in EvictFromTreeCache(m.cache, Len(dec) * PageSize) :
              LET k == Allocate(d, dec, from, to)
                  pages == [r \in ToSet(rs) \cup ToSet(dec) |-> IF r \in ToSet(rs) THEN m.pages[r] ELSE k.pages[r]]
              IN  (/\ cache' = k.cache
                   /\ content' = Written(from, to, pages)
                   /\ req' = [r \in Reqs |-> New(r, pages)]
                   /\ rows' = rows - Len(rs)
                   /\ pc' = IF m.ok /\ k.ok /\ rows >= Len(rs) THEN "process" ELSE "crashed"
                   /\ cur' = batch /\ results' = Append(results, batch))
                  /\ waiting' = Those(waiting, Reqs \ ToSet(rs))
                  /\ running' = IF args.mixed THEN << >> ELSE running
  BY Zenon DEF NewBatch
<1>. DEFINE m == Allocate(c, rs, from, to)
<1>2. PICK d \in EvictFromTreeCache(m.cache, Len(dec) * PageSize) :
              LET k == Allocate(d, dec, from, to)
                  pages == [r \in ToSet(rs) \cup ToSet(dec) |-> IF r \in ToSet(rs) THEN m.pages[r] ELSE k.pages[r]]
              IN  (/\ cache' = k.cache
                   /\ content' = Written(from, to, pages)
                   /\ req' = [r \in Reqs |-> New(r, pages)]
                   /\ rows' = rows - Len(rs)
                   /\ pc' = IF m.ok /\ k.ok /\ rows >= Len(rs) THEN "process" ELSE "crashed"
                   /\ cur' = batch /\ results' = Append(results, batch))
                  /\ waiting' = Those(waiting, Reqs \ ToSet(rs))
                  /\ running' = IF args.mixed THEN << >> ELSE running
  BY <1>1
<1>. DEFINE k == Allocate(d, dec, from, to)
            pages == [r \in ToSet(rs) \cup ToSet(dec) |-> IF r \in ToSet(rs) THEN m.pages[r] ELSE k.pages[r]]
<1>3. /\ req' = [r \in Reqs |-> New(r, pages)] /\ rows' = rows - Len(rs) /\ pc' \in {"process", "crashed"}
      /\ cur' = batch /\ results' = Append(results, batch)
  BY <1>2, Zenon
<1>4. ReqShape
  BY DEF SInv, Types, ReqTypes, ReqShape
<1>5. ASSUME NEW r \in Reqs, NEW p
      PROVE  /\ DOMAIN New(r, p) = DOMAIN FreshReq
             /\ New(r, p).holds = req[r].holds /\ New(r, p).finished = req[r].finished
             /\ New(r, p).sent = req[r].sent /\ New(r, p).output = req[r].output
             /\ New(r, p).answers = req[r].answers
             /\ New(r, p).retracted = (req[r].retracted /\ ~Contains(rs, r))
             /\ New(r, p).chunks = IF r = chunked THEN req[r].chunks + 1 ELSE req[r].chunks
  <2>. HIDE DEF rs, dec, to
  <2>. QED
    BY <1>4 DEF ReqShape, FreshReq
<1>6. /\ pc = "batch" /\ rs # << >> /\ adder' = NoAdder
      /\ waiting' = Those(waiting, Reqs \ ToSet(rs))
      /\ running' = IF args.mixed THEN << >> ELSE running
      /\ UNCHANGED <<args, chunked, last, paused>>
  <2>1. /\ pc = "batch" /\ rs # << >> /\ adder' = NoAdder
        /\ UNCHANGED <<args, full, chunked, last, ratio, paused>>
    BY Zenon DEF NewBatch
  <2>2. /\ waiting' = Those(waiting, Reqs \ ToSet(rs))
        /\ running' = IF args.mixed THEN << >> ELSE running
    BY <1>2, Zenon
  <2>. QED
    BY <2>1, <2>2
<1>. HIDE DEF New, pages
<1>7. DOMAIN req' = Reqs /\ \A r \in Reqs : req'[r] = New(r, pages)
  BY <1>3
<1>8. /\ ReqShape'
      /\ \A x \in Reqs : /\ req'[x].holds = req[x].holds /\ req'[x].finished = req[x].finished
                         /\ req'[x].sent = req[x].sent /\ req'[x].output = req[x].output
                         /\ req'[x].answers = req[x].answers
                         /\ req'[x].retracted = (req[x].retracted /\ ~Contains(rs, x))
                         /\ req'[x].chunks = IF x = chunked THEN req[x].chunks + 1 ELSE req[x].chunks
  BY <1>5, <1>7 DEF ReqShape
<1>. QED
  BY <1>3, <1>6, <1>8

\* A batch that is run is added to the passes in flight.
LEMMA AddBatch ==
    ASSUME SInv, pc # "crashed", NEW b, Proper(b), results' = Append(results, b)
    PROVE  /\ results' \in Seq(Batches) /\ Len(results) \in Nat /\ Len(results') = Len(results) + 1
           /\ DOMAIN results = 1 .. Len(results) /\ DOMAIN results' = 1 .. Len(results')
           /\ results'[Len(results) + 1] = b
           /\ \A i \in DOMAIN results : i \in DOMAIN results' /\ results'[i] = results[i]
           /\ \A i \in DOMAIN results' : i \in DOMAIN results \/ i = Len(results) + 1
           /\ \A i \in DOMAIN results' : Proper(results'[i])
<1>1. results \in Seq(Batches) /\ b \in Batches /\ \A i \in DOMAIN results : Proper(results[i])
  BY DEF SInv, Types, LoopTypes, Proper
<1>2. /\ results' \in Seq(Batches) /\ Len(results) \in Nat /\ Len(results') = Len(results) + 1
      /\ results'[Len(results) + 1] = b /\ \A i \in 1 .. Len(results) : results'[i] = results[i]
  BY <1>1, AppendAt
<1>3. DOMAIN results = 1 .. Len(results) /\ DOMAIN results' = 1 .. Len(results')
  BY <1>1, <1>2
<1>4. \A i \in DOMAIN results' : i \in DOMAIN results \/ i = Len(results) + 1
  BY <1>2, <1>3
<1>5. \A i \in DOMAIN results' : Proper(results'[i])
  BY <1>1, <1>2, <1>3, <1>4
<1>. QED
  BY <1>2, <1>3, <1>4, <1>5

\* prepare_for_extend: the requests of the batch leave the queue and use the
\* rows counted for them; with mixed chunks the running requests come along.
LEMMA NewBatchInv ==
    ASSUME SInv, NewBatch
    PROVE  SInv'
<1>. DEFINE rs == adder.can
            dec == IF args.mixed THEN Unfinished(running) ELSE << >>
            batch == [mode |-> "extend", reqs |-> rs \o dec, chunked |-> chunked, decoding |-> ToSet(dec)]
<1>1. /\ pc = "batch" /\ pc' \in {"process", "crashed"} /\ rs # << >>
      /\ cur' = batch /\ results' = Append(results, batch)
      /\ rows' = rows - Len(rs) /\ adder' = NoAdder
      /\ waiting' = Those(waiting, Reqs \ ToSet(rs))
      /\ running' = IF args.mixed THEN << >> ELSE running
      /\ UNCHANGED <<args, chunked, last, paused>>
      /\ ReqShape'
      /\ \A x \in Reqs : /\ req'[x].holds = req[x].holds /\ req'[x].finished = req[x].finished
                         /\ req'[x].sent = req[x].sent /\ req'[x].output = req[x].output
                         /\ req'[x].answers = req[x].answers
                         /\ req'[x].retracted = (req[x].retracted /\ ~Contains(rs, x))
                         /\ req'[x].chunks = IF x = chunked THEN req[x].chunks + 1 ELSE req[x].chunks
  BY NewBatchMeaning
<1>2. Types /\ Answers /\ ReqShape /\ Admitting /\ Prefill = ToSet(rs) /\ Pledged = Len(rs)
  BY <1>1 DEF SInv, Types, ReqTypes, ReqShape, Prefill, Pledged, Admitting
<1>3. /\ rs \in Seq(Reqs) /\ IsInjective(rs) /\ Len(rs) \in Nat /\ ToSet(rs) \subseteq Reqs
      /\ running \in Seq(Reqs) /\ IsInjective(running) /\ ToSet(running) \subseteq Reqs
      /\ waiting \in Seq(Reqs) /\ IsInjective(waiting) /\ ToSet(waiting) \subseteq Reqs
  BY <1>2, Members DEF Types, QueueTypes
<1>4. /\ dec \in Seq(Reqs) /\ IsInjective(dec)
      /\ ToSet(dec) = {x \in ToSet(running) : args.mixed /\ ~Finished(x)}
  <2>1. CASE args.mixed
    <3>. DEFINE S == {r \in Reqs : ~Finished(r)}
    <3>1. dec = Those(running, S)
      BY <2>1 DEF Unfinished
    <3>2. \A x \in Reqs : x \in S <=> ~Finished(x)
      OBVIOUS
    <3>. HIDE DEF dec, S
    <3>3. dec \in Seq(Reqs) /\ IsInjective(dec) /\ ToSet(dec) = ToSet(running) \cap S
      BY <3>1, <1>3, ThoseMeaning
    <3>. QED
      BY <3>2, <3>3, <1>3, <2>1
  <2>2. CASE ~args.mixed
    <3>1. dec = << >>
      BY <2>2
    <3>. HIDE DEF dec
    <3>. QED
      BY <3>1, <2>2, ShortLists
  <2>. QED
    BY <2>1, <2>2
<1>. HIDE DEF dec, rs
<1>5. ToSet(rs) \cap ToSet(running) = {} /\ ToSet(waiting) \cap ToSet(running) = {}
  BY <1>1, <1>2 DEF SInv, Placed
<1>6. /\ rs \o dec \in Seq(Reqs) /\ IsInjective(rs \o dec) /\ ToSet(rs \o dec) = ToSet(rs) \cup ToSet(dec)
  <2>1. ToSet(rs) \cap ToSet(dec) = {}
    BY <1>4, <1>5
  <2>. QED
    BY <2>1, <1>3, <1>4, ToSetConcat, ConcatAt
<1>7. /\ waiting' \in Seq(Reqs) /\ IsInjective(waiting') /\ ToSet(waiting') = ToSet(waiting) \ ToSet(rs)
  <2>. DEFINE S == Reqs \ ToSet(rs)
  <2>1. waiting' = Those(waiting, S) /\ \A x \in Reqs : x \in S <=> x \notin ToSet(rs)
    BY <1>1
  <2>. HIDE DEF S
  <2>2. /\ waiting' \in Seq(Reqs) /\ IsInjective(waiting') /\ ToSet(waiting') = ToSet(waiting) \cap S
    BY <2>1, <1>3, ThoseMeaning
  <2>. QED
    BY <2>1, <2>2, <1>3
<1>8. /\ running' \in Seq(Reqs) /\ IsInjective(running')
      /\ ToSet(running') = IF args.mixed THEN {} ELSE ToSet(running)
  BY <1>1, <1>3, ShortLists
<1>9. chunked \in Reqs \cup {None} /\ ToSet(dec) \subseteq Reqs
  BY <1>2, <1>3, <1>4 DEF Types, LoopTypes
<1>10. Proper(batch)
  BY <1>6, <1>9 DEF Proper, Batches
<1>11. /\ batch.mode = "extend" /\ batch.chunked = chunked /\ ToSet(batch.reqs) = ToSet(rs) \cup ToSet(dec)
       /\ batch # NoBatch
  BY <1>6 DEF NoBatch
<1>. HIDE DEF batch
<1>12. Types'
  <2>1. ReqTypes'
    <3>1. \A x \in Reqs : req'[x].retracted \in BOOLEAN
      BY <1>1, <1>2 DEF Types, ReqTypes
    <3>2. \A x \in Reqs : req'[x].chunks \in Nat
      BY <1>1, <1>2 DEF Types, ReqTypes
    <3>. QED
      BY <1>1, <1>2, <3>1, <3>2 DEF Types, ReqTypes, ReqShape
  <2>2. QueueTypes'
    BY <1>1, <1>7, <1>8, ShortLists DEF QueueTypes, NoAdder
  <2>3. rows' \in Int
    BY <1>1, <1>2, <1>3 DEF Types, LoopTypes
  <2>4. results' \in Seq(Batches) /\ \A i \in DOMAIN results' : Proper(results'[i])
    BY <1>1, <1>10, AddBatch
  <2>5. LoopTypes'
    BY <1>1, <1>2, <1>10, <1>11, <2>3, <2>4 DEF Types, LoopTypes
  <2>. QED
    BY <2>1, <2>2, <2>5 DEF Types
<1>13. Answers'
  BY <1>1, <1>2 DEF Answers
<1>14. SUFFICES ASSUME pc' = "process" PROVE (Placed /\ Held /\ InFlight /\ Chunks)'
  BY <1>1, <1>12, <1>13 DEF SInv
<1>15. Prefill' = ToSet(rs) \cup ToSet(dec) /\ ~Admitting' /\ Pledged' = 0
  BY <1>1, <1>11, <1>14 DEF Prefill, Admitting, Pledged
<1>16. Holders' = Holders /\ \A x \in Reqs : Finished(x)' = Finished(x)
  BY <1>1 DEF Holders, Finished
<1>17. \A x \in ToSet(rs) \cup ToSet(dec) : ~Finished(x) /\ req[x].holds
  <2>1. \A x \in ToSet(rs) : ~Finished(x)
    BY <1>1, <1>2 DEF SInv, Placed, rs
  <2>2. \A x \in ToSet(rs) \cup ToSet(dec) : ~Finished(x) /\ x \in ToSet(running) \cup Prefill
    BY <2>1, <1>2, <1>4
  <2>. QED
    BY <2>2, <1>1, <1>3, <1>9 DEF SInv, Held
<1>18. Placed'
  <2>1. (\A x \in ToSet(waiting) : req[x].sent /\ req[x].answers = 0)'
    BY <1>1, <1>3, <1>7 DEF SInv, Placed
  <2>2. (\A x \in Reqs : req[x].sent /\ req[x].answers = 0 => x \in ToSet(waiting) \cup ToSet(running) \cup Prefill)'
    <3>1. SUFFICES ASSUME NEW x \in Reqs, req[x].sent, req[x].answers = 0
                   PROVE  x \in ToSet(waiting') \cup ToSet(running') \cup Prefill'
      BY <1>1
    <3>2. x \in ToSet(waiting) \cup ToSet(running) \cup ToSet(rs) /\ ~Finished(x)
      BY <3>1, <1>1, <1>2 DEF SInv, Placed, Answers, Finished
    <3>. QED
      BY <3>2, <1>4, <1>7, <1>8, <1>15
  <2>3. (chunked # None => chunked \in Prefill /\ ~Finished(chunked))'
    BY <1>1, <1>2, <1>9, <1>15, <1>16 DEF SInv, Placed
  <2>4. /\ ToSet(waiting') \cap ToSet(running') = {}
        /\ ToSet(waiting') \cap Prefill' = {}
    BY <1>4, <1>5, <1>7, <1>8, <1>15
  <2>5. ToSet(running') \cap Prefill' = {}
    BY <1>4, <1>5, <1>8, <1>15
  <2>. QED
    BY <1>14, <1>15, <2>1, <2>2, <2>3, <2>4, <2>5 DEF Placed
<1>19. Held'
  <2>1. (\A x \in Reqs : req[x].holds <=> x \in ToSet(running) \cup Prefill /\ ~Finished(x))'
    <3>1. SUFFICES ASSUME NEW x \in Reqs
                   PROVE  req[x].holds <=> x \in ToSet(running') \cup Prefill' /\ ~Finished(x)
      BY <1>1, <1>16
    <3>2. req[x].holds <=> x \in ToSet(running) \cup Prefill /\ ~Finished(x)
      BY <1>1 DEF SInv, Held
    <3>. QED
      BY <3>2, <1>2, <1>4, <1>8, <1>15
  <2>2. /\ IsFiniteSet(Holders) /\ Cardinality(Holders) \in Nat
        /\ rows = MaxRunning - Cardinality(Holders) + Len(rs)
    BY <1>1, <1>2, FS_CardinalityType DEF SInv, Held
  <2>3. rows' = MaxRunning - Cardinality(Holders') + Pledged'
    BY <2>2, <1>1, <1>3, <1>15, <1>16, ReqsAssumption
  <2>. QED
    BY <2>1, <2>2, <2>3, <1>16 DEF Held
<1>20. /\ Len(results) \in Nat /\ Len(results') = Len(results) + 1
       /\ DOMAIN results = 1 .. Len(results) /\ DOMAIN results' = 1 .. Len(results')
       /\ results'[Len(results) + 1] = batch
       /\ \A i \in DOMAIN results : i \in DOMAIN results' /\ results'[i] = results[i]
       /\ \A i \in DOMAIN results' : i \in DOMAIN results \/ i = Len(results) + 1
  BY <1>1, <1>10, AddBatch
<1>21. InFlight'
  <2>1. PendingLast' = PendingLast /\ PendingCur = 0 /\ PendingCur' = 1 /\ PendingLast \in {0, 1}
    BY <1>1, <1>11, <1>14 DEF PendingLast, PendingCur
  <2>2. Len(results) = PendingLast /\ (PendingLast = 1 => LeftOf(results[1], last))
    BY <1>1, <2>1 DEF SInv, InFlight
  <2>3. Len(results') = PendingLast' + PendingCur'
    BY <2>1, <2>2, <1>20
  <2>4. PendingLast' = 1 => LeftOf(results'[1], last')
    <3>1. SUFFICES ASSUME PendingLast = 1 PROVE LeftOf(results'[1], last')
      BY <2>1
    <3>2. 1 \in DOMAIN results /\ last' = last
      BY <3>1, <2>2, <1>20, <1>1
    <3>3. results'[1] = results[1]
      BY <3>2, <1>20
    <3>. QED
      BY <3>1, <3>2, <3>3, <2>2
  <2>5. LeftOf(results'[Len(results')], cur')
    BY <1>1, <1>20 DEF LeftOf
  <2>6. Live(cur)'
    <3>1. \A x \in ToSet(cur'.reqs) : req'[x].holds /\ x \notin ToSet(waiting')
      BY <1>1, <1>3, <1>4, <1>5, <1>7, <1>9, <1>11, <1>17
    <3>. QED
      BY <3>1 DEF Live
  <2>7. (\A i \in DOMAIN results : \A x \in ToSet(results[i].reqs) : Skipped(x) \/ req[x].holds)'
    <3>1. SUFFICES ASSUME NEW i \in DOMAIN results', NEW x \in ToSet(results'[i].reqs)
                   PROVE  Skipped(x)' \/ req'[x].holds
      OBVIOUS
    <3>2. CASE i = Len(results) + 1
      BY <3>1, <3>2, <1>1, <1>3, <1>9, <1>11, <1>17, <1>20
    <3>3. CASE i \in DOMAIN results
      <4>1. x \in ToSet(results[i].reqs) /\ x \in Reqs
        BY <3>1, <3>3, <1>2, <1>20, Members
      <4>2. Skipped(x) \/ req[x].holds
        BY <4>1, <3>3, <1>1 DEF SInv, InFlight
      <4>3. CASE req[x].holds
        BY <4>1, <4>3, <1>1
      <4>4. CASE Finished(x)
        BY <4>1, <4>4, <1>16 DEF Skipped
      <4>5. CASE req[x].retracted
        <5>1. CASE Contains(rs, x)
          <6>1. x \in ToSet(rs)
            BY <5>1, <1>3 DEF Contains, ToSet
          <6>. QED
            BY <6>1, <1>17, <1>1, <4>1
        <5>2. CASE ~Contains(rs, x)
          BY <4>1, <4>5, <5>2, <1>1 DEF Skipped
        <5>. QED
          BY <5>1, <5>2
      <4>. QED
        BY <4>2, <4>3, <4>4, <4>5 DEF Skipped
    <3>. QED
      BY <3>2, <3>3, <1>20
  <2>. QED
    BY <1>14, <2>3, <2>4, <2>5, <2>6, <2>7 DEF InFlight
<1>22. Chunks'
  <2>1. chunked' = cur'.chunked
    BY <1>1, <1>11
  <2>2. ASSUME NEW i \in DOMAIN results', NEW x \in Reqs, ChunkPending(i, x)'
        PROVE  /\ req'[x].chunks >= 1
               /\ i \in DOMAIN results => ChunkPending(i, x)
               /\ i = Len(results) + 1 => x = chunked
    <3>1. i \in DOMAIN results => ChunkPending(i, x)
      BY <2>2, <1>20 DEF ChunkPending
    <3>2. i = Len(results) + 1 => x = chunked
      BY <2>2, <1>11, <1>20 DEF ChunkPending
    <3>3. req[x].chunks \in Nat
      BY <1>2 DEF Types, ReqTypes
    <3>4. i \in DOMAIN results => req[x].chunks >= 1
      BY <3>1, <1>1 DEF SInv, Chunks
    <3>. QED
      BY <3>1, <3>2, <3>3, <3>4, <1>1, <1>20
  <2>3. ASSUME NEW i \in DOMAIN results', NEW j \in DOMAIN results', NEW x \in Reqs,
               i # j, ChunkPending(i, x)', ChunkPending(j, x)'
        PROVE  req'[x].chunks >= 2
    <3>1. /\ i \in DOMAIN results => ChunkPending(i, x)
          /\ j \in DOMAIN results => ChunkPending(j, x)
          /\ i = Len(results) + 1 \/ j = Len(results) + 1 => x = chunked
      BY <2>2, <2>3
    <3>2. req[x].chunks \in Nat
      BY <1>2 DEF Types, ReqTypes
    <3>3. CASE i \in DOMAIN results /\ j \in DOMAIN results
      <4>1. req[x].chunks >= 2
        BY <3>1, <3>3, <2>3, <1>1 DEF SInv, Chunks
      <4>. QED
        BY <4>1, <3>2, <1>1
    <3>4. CASE i = Len(results) + 1 \/ j = Len(results) + 1
      <4>1. x = chunked /\ (i \in DOMAIN results \/ j \in DOMAIN results)
        BY <3>1, <3>4, <2>3, <1>20
      <4>2. req[x].chunks >= 1
        BY <4>1, <3>1, <1>1 DEF SInv, Chunks
      <4>. QED
        BY <4>1, <4>2, <3>2, <1>1
    <3>. QED
      BY <3>3, <3>4, <1>20
  <2>4. ASSUME NEW i \in DOMAIN results', chunked' # None, chunked' \in ToSet(results'[i].reqs)
        PROVE  results'[i].chunked = chunked'
    <3>1. CASE i \in DOMAIN results
      BY <3>1, <2>4, <1>1, <1>20 DEF SInv, Chunks
    <3>2. CASE i = Len(results) + 1
      BY <3>2, <1>1, <1>11, <1>20
    <3>. QED
      BY <3>1, <3>2, <1>20
  <2>. QED
    BY <1>14, <1>15, <2>1, <2>2, <2>3, <2>4 DEF Chunks
<1>. QED
  BY <1>18, <1>19, <1>21, <1>22

---------------------------------------------------------------------------
(* Decoding and retraction. *)

\* The running requests that are not finished.
LEMMA UnfinishedMeaning ==
    ASSUME Types
    PROVE  /\ Unfinished(running) \in Seq(Reqs) /\ IsInjective(Unfinished(running))
           /\ ToSet(Unfinished(running)) = {x \in ToSet(running) : ~Finished(x)}
<1>. DEFINE S == {r \in Reqs : ~Finished(r)}
            u == Unfinished(running)
<1>1. running \in Seq(Reqs) /\ IsInjective(running) /\ ToSet(running) \subseteq Reqs
  BY Members DEF Types, QueueTypes
<1>2. u = Those(running, S) /\ \A x \in Reqs : x \in S <=> ~Finished(x)
  BY DEF Unfinished
<1>. HIDE DEF S, u
<1>3. u \in Seq(Reqs) /\ IsInjective(u) /\ ToSet(u) = ToSet(running) \cap S
  BY <1>1, <1>2, ThoseMeaning
<1>4. u \in Seq(Reqs) /\ IsInjective(u) /\ ToSet(u) = {x \in ToSet(running) : ~Finished(x)}
  BY <1>1, <1>2, <1>3
<1>. QED
  BY <1>4 DEF u

\* What the memory check does to the running batch: the finished requests
\* leave it, the others are kept or sorted.
LEMMA CheckMeaning ==
    ASSUME SInv, CheckDecodeMem
    PROVE  /\ pc = "decode" /\ pc' \in {"process", "forward", "retract"}
           /\ cur' = IF pc' = "process" THEN NoBatch ELSE cur
           /\ running' \in Seq(Reqs) /\ IsInjective(running')
           /\ ToSet(running') = {x \in ToSet(running) : ~Finished(x)}
           /\ UNCHANGED <<args, req, waiting, chunked, rows, last, results, adder, paused>>
<1>. DEFINE rs == Unfinished(running)
<1>1. pc = "decode" /\ UNCHANGED <<args, req, waiting, chunked, rows, last, results, adder, paused>>
  BY DEF CheckDecodeMem
<1>2. /\ rs \in Seq(Reqs) /\ IsInjective(rs)
      /\ ToSet(rs) = {x \in ToSet(running) : ~Finished(x)}
  BY UnfinishedMeaning DEF SInv
<1>3. CASE rs = << >>
  <2>1. running' = rs /\ cur' = NoBatch /\ pc' = "process"
    BY <1>3 DEF CheckDecodeMem
  <2>. HIDE DEF rs
  <2>. QED
    BY <2>1, <1>1, <1>2
<1>4. CASE rs # << >>
  <2>1. PICK c \in EvictFromTreeCache(cache, NewPageCount(rs) * PageSize) :
                /\ cache' = c /\ UNCHANGED cur
                /\ full' = (full /\ Len(rs) = Len(running))
                /\ running' \in IF DecodeMemOk(c, rs) THEN {rs} ELSE Sorted(rs)
                /\ ratio' \in {x \in Ratios : x <= ratio}
                /\ pc' = IF DecodeMemOk(c, rs) THEN "forward" ELSE "retract"
    BY <1>4, Zenon DEF CheckDecodeMem
  <2>. HIDE DEF rs
  <2>2. running' \in Sorted(rs) \/ running' = rs
    BY <2>1
  <2>3. /\ running' \in Seq(Reqs) /\ IsInjective(running') /\ ToSet(running') = ToSet(rs)
    BY <2>2, <1>2, SortedMeaning
  <2>. QED
    BY <2>1, <2>3, <1>1, <1>2
<1>. QED
  BY <1>3, <1>4

\* update_running_batch up to retraction: only finished requests leave the
\* running batch.
LEMMA CheckDecodeMemInv ==
    ASSUME SInv, CheckDecodeMem
    PROVE  SInv'
<1>1. /\ pc = "decode" /\ pc' \in {"process", "forward", "retract"}
      /\ cur' = IF pc' = "process" THEN NoBatch ELSE cur
      /\ running' \in Seq(Reqs) /\ IsInjective(running')
      /\ ToSet(running') = {x \in ToSet(running) : ~Finished(x)}
      /\ UNCHANGED <<args, req, waiting, chunked, rows, last, results, adder, paused>>
  BY CheckMeaning
<1>2. Types /\ Answers /\ ReqShape /\ ReqShape' /\ \A x \in Reqs : Same(x)
  BY <1>1 DEF SInv, Types, ReqTypes, ReqShape, Same
<1>3. /\ ReqTypes' /\ Answers' /\ Holders' = Holders
      /\ \A r \in Reqs : Finished(r)' = Finished(r) /\ Skipped(r)' = Skipped(r)
  BY <1>2, SameReqs DEF Types
<1>4. Prefill = {} /\ Prefill' = {} /\ Pledged = 0 /\ Pledged' = 0 /\ ~Admitting /\ ~Admitting'
  BY <1>1 DEF Prefill, Pledged, Admitting, NoBatch
<1>5. chunked = None /\ last.chunked = None /\ cur = last
  BY <1>1, <1>4 DEF SInv, Placed, Chunks, InFlight
<1>6. Proper(NoBatch) /\ ToSet(NoBatch.reqs) = {} /\ NoBatch.chunked = None
  BY ShortLists DEF Proper, NoBatch, Batches
<1>7. Types'
  <2>1. QueueTypes'
    BY <1>1, <1>2 DEF Types, QueueTypes
  <2>2. LoopTypes'
    BY <1>1, <1>2, <1>6 DEF Types, LoopTypes
  <2>. QED
    BY <2>1, <2>2, <1>3 DEF Types
<1>8. ToSet(running) \subseteq Reqs /\ ToSet(waiting) \subseteq Reqs /\ ToSet(last.reqs) \subseteq Reqs
  BY <1>2, Members
<1>9. Placed'
  <2>1. (\A x \in ToSet(waiting) : req[x].sent /\ req[x].answers = 0)'
    BY <1>1 DEF SInv, Placed
  <2>2. (\A x \in Reqs : req[x].sent /\ req[x].answers = 0 => x \in ToSet(waiting) \cup ToSet(running) \cup Prefill)'
    <3>1. SUFFICES ASSUME NEW x \in Reqs, req[x].sent, req[x].answers = 0
                   PROVE  x \in ToSet(waiting') \cup ToSet(running')
      BY <1>1, <1>4
    <3>2. x \in ToSet(waiting) \cup ToSet(running) /\ ~Finished(x)
      BY <3>1, <1>1, <1>2, <1>4 DEF SInv, Placed, Answers, Finished
    <3>. QED
      BY <3>2, <1>1
  <2>3. ToSet(waiting') \cap ToSet(running') = {}
    BY <1>1 DEF SInv, Placed
  <2>4. (\A x \in ToSet(running) : ~Finished(x))'
    BY <1>1, <1>3, <1>8
  <2>. QED
    BY <1>1, <1>4, <1>5, <2>1, <2>2, <2>3, <2>4 DEF Placed
<1>10. Held'
  <2>1. (\A x \in Reqs : req[x].holds <=> x \in ToSet(running) \cup Prefill /\ ~Finished(x))'
    <3>1. SUFFICES ASSUME NEW x \in Reqs
                   PROVE  req[x].holds <=> x \in ToSet(running') /\ ~Finished(x)
      BY <1>1, <1>3, <1>4
    <3>2. req[x].holds <=> x \in ToSet(running) /\ ~Finished(x)
      BY <1>1, <1>4 DEF SInv, Held
    <3>. QED
      BY <3>2, <1>1
  <2>. QED
    BY <2>1, <1>1, <1>3, <1>4 DEF SInv, Held
<1>11. InFlight'
  <2>1. PendingLast' = PendingLast /\ PendingCur = 0 /\ PendingCur' = 0
    BY <1>1, <1>6 DEF PendingLast, PendingCur
  <2>2. pc' = "process" => Live(cur)'
    BY <1>1, <1>6 DEF Live
  <2>3. (\A i \in DOMAIN results : \A x \in ToSet(results[i].reqs) : Skipped(x) \/ req[x].holds)'
    BY <1>1, <1>2, <1>3, Members DEF SInv, InFlight
  <2>. QED
    BY <1>1, <1>5, <2>1, <2>2, <2>3 DEF SInv, InFlight, LeftOf
<1>12. Chunks'
  BY <1>1, <1>4, <1>5, <1>6 DEF SInv, Chunks, ChunkPending
<1>. QED
  BY <1>3, <1>7, <1>9, <1>10, <1>11, <1>12 DEF SInv

\* All but the last request, and the last one.
LEMMA FrontLast ==
    ASSUME NEW S, NEW q \in Seq(S), IsInjective(q), Len(q) > 1
    PROVE  /\ Front(q) \in Seq(S) /\ IsInjective(Front(q)) /\ Last(q) \in S
           /\ Last(q) \notin ToSet(Front(q)) /\ ToSet(q) = ToSet(Front(q)) \cup {Last(q)}
<1>. DEFINE n == Len(q) - 1
            x == SubSeq(q, 1, n)
            y == SubSeq(q, n + 1, Len(q))
<1>1. Len(q) \in Nat /\ n \in 0 .. Len(q) /\ n + 1 = Len(q) /\ Last(q) = q[Len(q)] /\ Front(q) = x
  BY DEF Last, Front
<1>2. /\ x \in Seq(S) /\ IsInjective(x)
      /\ ToSet(x) \cap ToSet(y) = {} /\ ToSet(q) = ToSet(x) \cup ToSet(y)
  BY <1>1, ToSetCut
<1>3. Len(y) = 1 /\ y[1] = q[Len(q)] /\ y \in Seq(S)
  BY <1>1, SubSeqAt
<1>4. ToSet(y) = {q[Len(q)]}
  BY <1>3 DEF ToSet
<1>5. q[Len(q)] \in S
  BY <1>1
<1>. HIDE DEF n, x, y
<1>. QED
  BY <1>1, <1>2, <1>4, <1>5

\* A pass in flight whose results are processed in a later iteration was
\* not of a chunk, while the running batch decodes.
LEMMA NoChunkInFlight ==
    ASSUME SInv, pc \in {"decode", "retract", "recheck", "forward"}, NEW i \in DOMAIN results
    PROVE  results[i].chunked = None
<1>1. Len(results) = PendingLast /\ PendingLast \in {0, 1} /\ last.chunked = None
  <2>1. PendingCur = 0 /\ PendingLast \in {0, 1}
    BY DEF PendingCur, PendingLast
  <2>. QED
    BY <2>1 DEF SInv, InFlight, Chunks
<1>2. results \in Seq(Batches)
  BY DEF SInv, Types, LoopTypes
<1>3. i = 1 /\ PendingLast = 1
  BY <1>1, <1>2
<1>4. LeftOf(results[1], last)
  BY <1>3 DEF SInv, InFlight
<1>. QED
  BY <1>1, <1>3, <1>4 DEF LeftOf

\* release_req: a running request gives up its row, waits again, and what its
\* pass in flight says is ignored.
LEMMA RetractMove ==
    ASSUME SInv, NEW r \in Reqs, NEW rest \in Seq(Reqs), NEW steps, IsInjective(rest), r \notin ToSet(rest),
           ToSet(running) = ToSet(rest) \cup {r}, Retract(r, rest, steps),
           \/ pc = "retract" /\ pc' = "recheck"
           \/ pc = "retractall" /\ pc' = "retractall",
           UNCHANGED <<args, chunked, last, cur, results, adder>>
    PROVE  SInv'
<1>. DEFINE q == [Released(req[r]) EXCEPT !.retracted = TRUE, !.chunks = 0]
<1>1. /\ rows' = rows + 1 /\ running' = rest /\ waiting' = Append(waiting, r)
      /\ req' = [req EXCEPT ![r] = [Released(@) EXCEPT !.retracted = TRUE, !.chunks = 0]]
  BY Zenon DEF Retract
<1>2. Types /\ Answers /\ ReqShape /\ Placed /\ Held /\ InFlight /\ Chunks
  BY DEF SInv, Types, ReqTypes, ReqShape
<1>3. req' = [req EXCEPT ![r] = q]
  BY <1>1, <1>2 DEF ReqShape
<1>4. /\ DOMAIN q = DOMAIN FreshReq /\ q.chunks = 0 /\ q.holds = FALSE /\ q.retracted = TRUE
      /\ q.finished = req[r].finished /\ q.sent = req[r].sent
      /\ q.output = req[r].output /\ q.answers = req[r].answers
  BY <1>2 DEF ReqShape, FreshReq, Released
<1>. HIDE DEF q
<1>5. ReqShape' /\ req'[r] = q /\ \A x \in Reqs : x # r => Same(x)
  BY <1>2, <1>3, <1>4, ReqUpdate
<1>6. Prefill' = Prefill /\ Pledged = 0 /\ Pledged' = 0 /\ ~Admitting /\ ~Admitting'
  BY DEF Prefill, Pledged, Admitting
<1>7. /\ ~Finished(r) /\ req[r].holds /\ req[r].sent /\ req[r].answers = 0
      /\ r \notin ToSet(waiting) /\ r \notin Prefill
  <2>1. ~Finished(r) /\ r \notin ToSet(waiting) /\ r \notin Prefill /\ r \in ToSet(running)
    BY <1>2 DEF Placed
  <2>2. req[r].holds
    BY <2>1, <1>2 DEF Held
  <2>3. req[r].sent /\ req[r].answers = 0
    BY <2>2, <1>2 DEF Answers
  <2>. QED
    BY <2>1, <2>2, <2>3
<1>8. waiting' \in Seq(Reqs) /\ IsInjective(waiting') /\ ToSet(waiting') = ToSet(waiting) \cup {r}
  BY <1>1, <1>2, <1>7, ToSetAppend, AppendAt DEF Types, QueueTypes
<1>9. Types'
  <2>1. ReqTypes'
    <3>1. \A x \in Reqs : req'[x].retracted \in BOOLEAN /\ req'[x].holds \in BOOLEAN
      BY <1>2, <1>4, <1>5, Zenon DEF Types, ReqTypes, Same
    <3>. QED
      BY <3>1, <1>2, <1>4, <1>5 DEF Types, ReqTypes, ReqShape, Same
  <2>2. QueueTypes'
    BY <1>1, <1>2, <1>8 DEF Types, QueueTypes
  <2>3. LoopTypes'
    BY <1>1, <1>2 DEF Types, LoopTypes
  <2>. QED
    BY <2>1, <2>2, <2>3 DEF Types
<1>10. Answers'
  BY <1>2, <1>4, <1>5, <1>7 DEF Answers, Same
<1>11. \A x \in Reqs : Finished(x)' = Finished(x)
  BY <1>4, <1>5 DEF Finished, Same
<1>12. ToSet(running) \subseteq Reqs /\ ToSet(waiting) \subseteq Reqs
  BY <1>2, Members
<1>13. Placed'
  <2>1. (\A x \in ToSet(waiting) : req[x].sent /\ req[x].answers = 0)'
    BY <1>2, <1>4, <1>5, <1>7, <1>8, <1>12 DEF Placed, Same
  <2>2. (\A x \in Reqs : req[x].sent /\ req[x].answers = 0 => x \in ToSet(waiting) \cup ToSet(running) \cup Prefill)'
    BY <1>1, <1>2, <1>5, <1>6, <1>8 DEF Placed, Same
  <2>3. ToSet(waiting') \cap ToSet(running') = {} /\ ToSet(running') \cap Prefill' = {}
    BY <1>1, <1>2, <1>6, <1>8 DEF Placed
  <2>4. ToSet(waiting') \cap Prefill' = {}
    BY <1>2, <1>6, <1>7, <1>8 DEF Placed
  <2>5. (\A x \in ToSet(running) : ~Finished(x))'
    BY <1>1, <1>2, <1>11, <1>12 DEF Placed
  <2>6. (chunked # None => chunked \in Prefill /\ ~Finished(chunked))'
    BY <1>2, <1>6, <1>11 DEF Placed, Types, LoopTypes
  <2>. QED
    BY <1>6, <2>1, <2>2, <2>3, <2>4, <2>5, <2>6 DEF Placed
<1>14. Held'
  <2>1. (\A x \in Reqs : req[x].holds <=> x \in ToSet(running) \cup Prefill /\ ~Finished(x))'
    <3>1. SUFFICES ASSUME NEW x \in Reqs
                   PROVE  req'[x].holds <=> x \in ToSet(rest) \cup Prefill /\ ~Finished(x)
      BY <1>1, <1>6, <1>11
    <3>2. CASE x = r
      BY <3>2, <1>4, <1>5, <1>7
    <3>3. CASE x # r
      BY <3>3, <1>2, <1>5 DEF Held, Same
    <3>. QED
      BY <3>2, <3>3
  <2>2. r \in Holders /\ Holders' = Holders \ {r}
    BY <1>4, <1>5, <1>7 DEF Holders, Same
  <2>3. /\ IsFiniteSet(Holders) /\ Cardinality(Holders) \in Nat
        /\ rows = MaxRunning - Cardinality(Holders)
    BY <1>2, <1>6, FS_CardinalityType, ReqsAssumption DEF Held
  <2>4. IsFiniteSet(Holders') /\ Cardinality(Holders') = Cardinality(Holders) - 1
    BY <2>2, <2>3, FS_RemoveElement
  <2>5. rows' = MaxRunning - Cardinality(Holders') + Pledged'
    BY <2>3, <2>4, <1>1, <1>6, ReqsAssumption
  <2>. QED
    BY <2>1, <2>4, <2>5 DEF Held
<1>15. InFlight'
  <2>1. PendingLast' = PendingLast /\ PendingCur = 0 /\ PendingCur' = 0 /\ cur = last
    BY <1>2 DEF PendingLast, PendingCur, InFlight
  <2>2. (\A i \in DOMAIN results : \A x \in ToSet(results[i].reqs) : Skipped(x) \/ req[x].holds)'
    <3>1. SUFFICES ASSUME NEW i \in DOMAIN results, NEW x \in ToSet(results[i].reqs)
                   PROVE  Skipped(x)' \/ req'[x].holds
      OBVIOUS
    <3>2. x \in Reqs /\ (Skipped(x) \/ req[x].holds)
      BY <1>2, Members DEF InFlight
    <3>3. CASE x = r
      BY <3>3, <1>4, <1>5 DEF Skipped
    <3>4. CASE x # r
      BY <3>2, <3>4, <1>5 DEF Skipped, Finished, Same
    <3>. QED
      BY <3>3, <3>4
  <2>3. pc' = "retractall" => Live(last)' /\ results' = << >>
    <3>1. SUFFICES ASSUME pc' = "retractall" PROVE Live(last)' /\ results' = << >>
      OBVIOUS
    <3>2. results = << >> /\ Len(results) = PendingLast + PendingCur
      BY <3>1, <1>2 DEF InFlight
    <3>3. args.overlap => last = NoBatch
      BY <3>2, <2>1 DEF PendingLast
    <3>4. ToSet(NoBatch.reqs) = {}
      BY ShortLists DEF NoBatch
    <3>. QED
      BY <3>2, <3>3, <3>4 DEF Live
  <2>. QED
    BY <1>2, <2>1, <2>2, <2>3 DEF InFlight, LeftOf
<1>16. Chunks'
  <2>1. \A i \in DOMAIN results : results[i].chunked = None
    <3>1. CASE pc = "retract"
      BY <3>1, NoChunkInFlight
    <3>2. CASE pc = "retractall"
      BY <3>2, <1>2 DEF InFlight
    <3>. QED
      BY <3>1, <3>2
  <2>2. \A i \in DOMAIN results' : \A x \in Reqs : ~ChunkPending(i, x)'
    BY <2>1, ReqsAssumption DEF ChunkPending
  <2>. QED
    BY <1>2, <1>6, <2>2 DEF Chunks
<1>. QED
  BY <1>9, <1>10, <1>13, <1>14, <1>15, <1>16 DEF SInv

\* retract_decode: the last of the sorted requests, as long as there are two.
LEMMA RetractDecodeInv ==
    ASSUME SInv, RetractDecode
    PROVE  SInv'
<1>1. pc = "retract" /\ UNCHANGED <<args, chunked, last, cur, results, adder>>
  BY DEF RetractDecode
<1>2. Types /\ ReqShape /\ running \in Seq(Reqs) /\ IsInjective(running)
  BY DEF SInv, Types, ReqTypes, QueueTypes, ReqShape
<1>3. CASE ~(Len(running) > 1)
  <2>1. pc' \in {"forward", "crashed"} /\ UNCHANGED <<req, rows, running, waiting>>
    BY <1>3 DEF RetractDecode
  <2>2. ReqShape' /\ \A x \in Reqs : Same(x)
    BY <2>1, <1>2 DEF ReqShape, Same
  <2>. QED
    BY <2>1, <2>2, <1>1, OnlyPcInv DEF Kept
<1>4. CASE Len(running) > 1
  <2>1. pc' = "recheck" /\ Retract(Last(running), Front(running), Len(running) - 1)
    BY <1>4 DEF RetractDecode
  <2>2. /\ Front(running) \in Seq(Reqs) /\ IsInjective(Front(running)) /\ Last(running) \in Reqs
        /\ Last(running) \notin ToSet(Front(running))
        /\ ToSet(running) = ToSet(Front(running)) \cup {Last(running)}
    BY <1>2, <1>4, FrontLast
  <2>. QED
    BY <2>1, <2>2, <1>1, RetractMove
<1>. QED
  BY <1>3, <1>4

\* retract_all of a pause: all running requests, one by one.
LEMMA RetractAllInv ==
    ASSUME SInv, RetractAll
    PROVE  SInv'
<1>1. pc = "retractall" /\ UNCHANGED <<args, chunked, last, cur, results, adder>>
  BY DEF RetractAll
<1>2. Types /\ ReqShape /\ running \in Seq(Reqs) /\ IsInjective(running)
  BY DEF SInv, Types, ReqTypes, QueueTypes, ReqShape
<1>3. CASE running = << >>
  <2>1. pc' = "start" /\ UNCHANGED <<req, rows, running, waiting>>
    BY <1>3 DEF RetractAll
  <2>2. ReqShape' /\ \A x \in Reqs : Same(x)
    BY <2>1, <1>2 DEF ReqShape, Same
  <2>. QED
    BY <2>1, <2>2, <1>1, OnlyPcInv DEF Kept
<1>4. CASE running # << >>
  <2>1. pc' = "retractall" /\ Retract(Head(running), Tail(running), Len(running))
    BY <1>1, <1>4 DEF RetractAll
  <2>2. /\ Tail(running) \in Seq(Reqs) /\ IsInjective(Tail(running)) /\ Head(running) \in Reqs
        /\ Head(running) \notin ToSet(Tail(running))
        /\ ToSet(running) = ToSet(Tail(running)) \cup {Head(running)}
    BY <1>2, <1>4, ToSetTail, TailAt
  <2>. QED
    BY <2>1, <2>2, <1>1, RetractMove
<1>. QED
  BY <1>3, <1>4

\* What the rest of a pause does: results that were in flight are processed,
\* the last batch is forgotten, which was not one of prefill; with
\* retraction, the running requests are about to wait again.
LEMMA PauseRestMeaning ==
    ASSUME SInv, PausesKeep, PauseRest
    PROVE  /\ pc = "pause" /\ pc' \in {"start", "retractall"}
           /\ UNCHANGED <<args, req, waiting, rows, adder, chunked>>
           /\ running' \in Seq(Reqs) /\ IsInjective(running')
           /\ ToSet(running') = IF pc' = "start" THEN ToSet(running)
                                ELSE {x \in ToSet(running) : ~Finished(x)}
           /\ pc' = "retractall" => chunked = None
           /\ args.overlap => last' = NoBatch /\ cur' = NoBatch /\ last.mode # "extend"
           /\ ~args.overlap => last' = last /\ cur' = cur
           /\ results' = << >>
<1>1. /\ pc = "pause" /\ pc' \in {"start", "retractall"} /\ UNCHANGED <<args, req, waiting, rows, adder>>
      /\ running' = IF pc' = "retractall" THEN Unfinished(running) ELSE running
      /\ pc' = "retractall" => chunked' = None /\ paused = "retract"
      /\ pc' = "start" => chunked' = chunked
  BY DEF PauseRest
<1>2. /\ args.overlap => last.mode # "extend"
      /\ pc' = "retractall" => chunked = None
  BY <1>1 DEF PausesKeep
<1>3. /\ running \in Seq(Reqs) /\ IsInjective(running)
      /\ Unfinished(running) \in Seq(Reqs) /\ IsInjective(Unfinished(running))
      /\ ToSet(Unfinished(running)) = {x \in ToSet(running) : ~Finished(x)}
  BY UnfinishedMeaning DEF SInv, Types, QueueTypes
<1>4. /\ Len(results) = PendingLast /\ cur = last /\ results \in Seq(Batches)
  <2>1. PendingCur = 0 /\ PendingLast \in {0, 1}
    BY <1>1 DEF PendingCur, PendingLast
  <2>. QED
    BY <1>1, <2>1 DEF SInv, InFlight, Types, LoopTypes
<1>5. CASE args.overlap /\ last # NoBatch
  <2>1. results' = Tail(results) /\ last' = NoBatch /\ cur' = NoBatch
    BY <1>5 DEF PauseRest
  <2>2. Len(results) = 1
    BY <1>4, <1>5 DEF PendingLast
  <2>3. results' = << >>
    BY <1>4, <2>1, <2>2
  <2>. QED
    BY <1>1, <1>2, <1>3, <1>5, <2>1, <2>3
<1>6. CASE ~(args.overlap /\ last # NoBatch)
  <2>1. results' = results /\ last' = last /\ cur' = cur
    BY <1>6 DEF PauseRest
  <2>2. Len(results) = 0
    BY <1>4, <1>6 DEF PendingLast
  <2>3. results' = << >>
    BY <1>4, <2>1, <2>2
  <2>. QED
    BY <1>1, <1>2, <1>3, <1>4, <1>6, <2>1, <2>3
<1>. QED
  BY <1>5, <1>6

\* pause_generation after the results in flight: it loses nobody.
LEMMA PauseRestInv ==
    ASSUME SInv, PausesKeep, PauseRest
    PROVE  SInv'
<1>1. /\ pc = "pause" /\ pc' \in {"start", "retractall"}
      /\ UNCHANGED <<args, req, waiting, rows, adder, chunked>>
      /\ running' \in Seq(Reqs) /\ IsInjective(running')
      /\ ToSet(running') = IF pc' = "start" THEN ToSet(running)
                           ELSE {x \in ToSet(running) : ~Finished(x)}
      /\ pc' = "retractall" => chunked = None
      /\ args.overlap => last' = NoBatch /\ cur' = NoBatch /\ last.mode # "extend"
      /\ ~args.overlap => last' = last /\ cur' = cur
      /\ results' = << >>
  BY PauseRestMeaning
<1>2. Types /\ Answers /\ ReqShape /\ Placed /\ Held /\ InFlight /\ Chunks
  BY <1>1 DEF SInv, Types, ReqTypes, ReqShape
<1>3. ReqShape' /\ \A x \in Reqs : Same(x)
  BY <1>1, <1>2 DEF ReqShape, Same
<1>4. /\ ReqTypes' /\ Answers' /\ Holders' = Holders
      /\ \A r \in Reqs : Finished(r)' = Finished(r) /\ Skipped(r)' = Skipped(r)
  BY <1>2, <1>3, SameReqs DEF Types
<1>5. cur = last /\ cur' = last' /\ chunked = cur.chunked
  BY <1>1, <1>2 DEF InFlight, Chunks
<1>6. Proper(NoBatch) /\ ToSet(NoBatch.reqs) = {} /\ NoBatch.chunked = None /\ NoBatch.mode = "none"
  BY ShortLists DEF Proper, NoBatch, Batches
<1>7. /\ cur'.mode = "extend" <=> cur.mode = "extend"
      /\ cur'.mode = "extend" => cur' = cur
      /\ chunked = cur'.chunked
  <2>1. Proper(last)
    BY <1>2 DEF Types, LoopTypes
  <2>. QED
    BY <2>1, <1>1, <1>5, <1>6 DEF Proper
<1>8. Prefill' = Prefill /\ Pledged = 0 /\ Pledged' = 0 /\ ~Admitting /\ ~Admitting'
  BY <1>1, <1>7 DEF Prefill, Pledged, Admitting
<1>9. Types'
  <2>1. QueueTypes'
    BY <1>1, <1>2 DEF Types, QueueTypes
  <2>2. LoopTypes'
    BY <1>1, <1>2, <1>6 DEF Types, LoopTypes
  <2>. QED
    BY <2>1, <2>2, <1>4 DEF Types
<1>10. ToSet(running) \subseteq Reqs /\ ToSet(last.reqs) \subseteq Reqs
  BY <1>2, Members
<1>11. Placed'
  <2>1. (\A x \in ToSet(waiting) : req[x].sent /\ req[x].answers = 0)'
    BY <1>1, <1>2 DEF Placed
  <2>2. (\A x \in Reqs : req[x].sent /\ req[x].answers = 0 => x \in ToSet(waiting) \cup ToSet(running) \cup Prefill)'
    <3>1. SUFFICES ASSUME NEW x \in Reqs, req[x].sent, req[x].answers = 0
                   PROVE  x \in ToSet(waiting') \cup ToSet(running') \cup Prefill'
      BY <1>1
    <3>2. x \in ToSet(waiting) \cup ToSet(running) \cup Prefill /\ ~Finished(x)
      BY <3>1, <1>2 DEF Placed, Answers, Finished
    <3>. QED
      BY <3>2, <1>1, <1>8
  <2>3. /\ ToSet(waiting') \cap ToSet(running') = {} /\ ToSet(running') \cap Prefill' = {}
        /\ ToSet(waiting') \cap Prefill' = {}
    BY <1>1, <1>2, <1>8 DEF Placed
  <2>4. pc' = "retractall" => (\A x \in ToSet(running) : ~Finished(x))'
    BY <1>1, <1>4, <1>10
  <2>5. (chunked # None => chunked \in Prefill /\ ~Finished(chunked))'
    BY <1>1, <1>2, <1>4, <1>8 DEF Placed, Types, LoopTypes
  <2>. QED
    BY <1>1, <1>8, <2>1, <2>2, <2>3, <2>4, <2>5 DEF Placed
<1>12. Held'
  <2>1. (\A x \in Reqs : req[x].holds <=> x \in ToSet(running) \cup Prefill /\ ~Finished(x))'
    <3>1. SUFFICES ASSUME NEW x \in Reqs
                   PROVE  req[x].holds <=> x \in ToSet(running') \cup Prefill /\ ~Finished(x)
      BY <1>1, <1>4, <1>8
    <3>2. req[x].holds <=> x \in ToSet(running) \cup Prefill /\ ~Finished(x)
      BY <1>2 DEF Held
    <3>. QED
      BY <3>2, <1>1
  <2>. QED
    BY <2>1, <1>1, <1>2, <1>4, <1>8 DEF Held
<1>13. InFlight'
  <2>1. PendingLast' = 0 /\ PendingCur' = 0 /\ Len(results') = 0
    BY <1>1 DEF PendingLast, PendingCur
  <2>2. Live(last)'
    BY <1>1, <1>6 DEF Live
  <2>. QED
    BY <1>1, <1>5, <2>1, <2>2 DEF InFlight
<1>14. Chunks'
  BY <1>1, <1>7, <1>8 DEF Chunks
<1>. QED
  BY <1>4, <1>9, <1>11, <1>12, <1>13, <1>14 DEF SInv

\* The steps that only look at the memory, begin a pause or continue.
LEMMA QuietInv ==
    ASSUME SInv,
           \/ Recheck \/ Continue \/ IdleCheck
           \/ \E mode \in args.pauses : Pause(mode)
           \/ UNCHANGED vars
    PROVE  SInv'
<1>1. ReqShape
  BY DEF SInv, Types, ReqTypes, ReqShape
<1>2. ASSUME UNCHANGED <<args, waiting, running, chunked, rows, last, cur, results, adder, req>>
      PROVE  Kept
  BY <1>1, <1>2 DEF Kept, ReqShape, Same
<1>3. CASE Recheck
  BY <1>2, <1>3, OnlyPcInv DEF Recheck
<1>4. CASE Continue
  BY <1>2, <1>4, OnlyPcInv DEF Continue
<1>5. CASE IdleCheck
  BY <1>2, <1>5, OnlyPcInv DEF IdleCheck
<1>6. CASE \E mode \in args.pauses : Pause(mode)
  BY <1>2, <1>6, OnlyPcInv DEF Pause
<1>7. CASE UNCHANGED vars
  BY <1>2, <1>7, OnlyPcInv DEF vars
<1>. QED
  BY <1>3, <1>4, <1>5, <1>6, <1>7

\* A decoding pass changes nothing of a request but its pages.
LEMMA DecodeMeaning ==
    ASSUME SInv, Decode
    PROVE  LET batch == [mode |-> "decode", reqs |-> running, chunked |-> None, decoding |-> {}]
           IN  /\ pc = "forward" /\ pc' \in {"process", "crashed"}
               /\ cur' = batch /\ results' = Append(results, batch)
               /\ UNCHANGED <<args, waiting, running, chunked, rows, last, adder, paused>>
               /\ ReqShape' /\ \A x \in Reqs : Same(x)
<1>. DEFINE from == [r \in Reqs |-> req[r].kv]
            to == [r \in Reqs |-> req[r].kv + 1]
            batch == [mode |-> "decode", reqs |-> running, chunked |-> None, decoding |-> {}]
<1>1. /\ pc = "forward" /\ UNCHANGED <<args, waiting, running, chunked, rows, last, adder, paused>>
  BY DEF Decode
<1>2. PICK c \in EvictFromTreeCache(cache, Len(running) * PageSize) :
           LET m == Allocate(c, running, from, to)
           IN  /\ cache' = m.cache
               /\ content' = Written(from, to, m.pages)
               /\ req' = [r \in Reqs |-> IF r \in DOMAIN m.pages
                                         THEN [req[r] EXCEPT !.pages = m.pages[r], !.kv = @ + 1]
                                         ELSE req[r]]
               /\ pc' = IF m.ok THEN "process" ELSE "crashed"
               /\ cur' = batch /\ results' = Append(results, batch)
  BY Zenon DEF Decode
<1>. DEFINE m == Allocate(c, running, from, to)
<1>3. /\ req' = [r \in Reqs |-> IF r \in DOMAIN m.pages
                                THEN [req[r] EXCEPT !.pages = m.pages[r], !.kv = @ + 1]
                                ELSE req[r]]
      /\ pc' = IF m.ok THEN "process" ELSE "crashed"
      /\ cur' = batch /\ results' = Append(results, batch)
  BY <1>2, Zenon
<1>. HIDE DEF m, from, to
<1>4. ReqShape
  BY DEF SInv, Types, ReqTypes, ReqShape
<1>5. ReqShape' /\ \A x \in Reqs : Same(x)
  <2>1. DOMAIN req' = Reqs
    BY <1>3
  <2>2. ASSUME NEW x \in Reqs PROVE DOMAIN req'[x] = DOMAIN FreshReq /\ Same(x)
    <3>1. \/ req'[x] = [req[x] EXCEPT !.pages = m.pages[x], !.kv = @ + 1]
          \/ req'[x] = req[x]
      BY <1>3
    <3>. QED
      BY <3>1, <1>4 DEF ReqShape, FreshReq, Same
  <2>. QED
    BY <2>1, <2>2 DEF ReqShape
<1>. QED
  BY <1>1, <1>3, <1>5

\* prepare_for_decode and run_batch.
LEMMA DecodeInv ==
    ASSUME SInv, Decode
    PROVE  SInv'
<1>. DEFINE batch == [mode |-> "decode", reqs |-> running, chunked |-> None, decoding |-> {}]
<1>1. /\ pc = "forward" /\ pc' \in {"process", "crashed"}
      /\ cur' = batch /\ results' = Append(results, batch)
      /\ UNCHANGED <<args, waiting, running, chunked, rows, last, adder, paused>>
      /\ ReqShape' /\ \A x \in Reqs : Same(x)
  BY DecodeMeaning
<1>2. Types /\ Answers
  BY DEF SInv
<1>3. /\ ReqTypes' /\ Answers' /\ Holders' = Holders
      /\ \A r \in Reqs : Finished(r)' = Finished(r) /\ Skipped(r)' = Skipped(r)
  BY <1>1, <1>2, SameReqs DEF Types
<1>4. /\ running \in Seq(Reqs) /\ IsInjective(running) /\ ToSet(running) \subseteq Reqs
      /\ ToSet(waiting) \subseteq Reqs
  BY <1>2, Members DEF Types, QueueTypes
<1>5. Proper(batch)
  BY <1>4 DEF Proper, Batches
<1>6. /\ batch.mode = "decode" /\ batch.chunked = None /\ batch.reqs = running /\ batch # NoBatch
  BY DEF NoBatch
<1>. HIDE DEF batch
<1>7. /\ results' \in Seq(Batches) /\ Len(results) \in Nat /\ Len(results') = Len(results) + 1
      /\ DOMAIN results = 1 .. Len(results) /\ DOMAIN results' = 1 .. Len(results')
      /\ results'[Len(results) + 1] = batch
      /\ \A i \in DOMAIN results : i \in DOMAIN results' /\ results'[i] = results[i]
      /\ \A i \in DOMAIN results' : i \in DOMAIN results \/ i = Len(results) + 1
      /\ \A i \in DOMAIN results' : Proper(results'[i])
  BY <1>1, <1>5, AddBatch
<1>8. Types'
  <2>1. QueueTypes'
    BY <1>1, <1>2 DEF Types, QueueTypes
  <2>2. LoopTypes'
    BY <1>1, <1>2, <1>5, <1>6, <1>7 DEF Types, LoopTypes
  <2>. QED
    BY <2>1, <2>2, <1>3 DEF Types
<1>9. SUFFICES ASSUME pc' = "process" PROVE (Placed /\ Held /\ InFlight /\ Chunks)'
  BY <1>1, <1>3, <1>8 DEF SInv
<1>10. Prefill = {} /\ Prefill' = {} /\ Pledged = 0 /\ Pledged' = 0 /\ ~Admitting /\ ~Admitting'
  BY <1>1, <1>6, <1>9 DEF Prefill, Pledged, Admitting
<1>11. chunked = None
  BY <1>1, <1>10 DEF SInv, Placed
<1>12. \A x \in ToSet(running) : ~Finished(x) /\ req[x].holds /\ x \notin ToSet(waiting)
  <2>1. \A x \in ToSet(running) : ~Finished(x) /\ x \notin ToSet(waiting)
    BY <1>1 DEF SInv, Placed
  <2>. QED
    BY <2>1, <1>1, <1>4 DEF SInv, Held
<1>13. Placed'
  <2>1. (\A x \in ToSet(waiting) : req[x].sent /\ req[x].answers = 0)'
    BY <1>1, <1>4 DEF SInv, Placed, Same
  <2>2. (\A x \in Reqs : req[x].sent /\ req[x].answers = 0 => x \in ToSet(waiting) \cup ToSet(running) \cup Prefill)'
    BY <1>1, <1>10 DEF SInv, Placed, Same
  <2>. QED
    BY <1>1, <1>9, <1>10, <1>11, <2>1, <2>2 DEF SInv, Placed
<1>14. Held'
  BY <1>1, <1>3, <1>10 DEF SInv, Held, Same
<1>15. InFlight'
  <2>1. PendingLast' = PendingLast /\ PendingCur = 0 /\ PendingCur' = 1 /\ PendingLast \in {0, 1}
    BY <1>1, <1>6, <1>9 DEF PendingLast, PendingCur
  <2>2. Len(results) = PendingLast /\ (PendingLast = 1 => LeftOf(results[1], last))
    BY <1>1, <2>1 DEF SInv, InFlight
  <2>3. Len(results') = PendingLast' + PendingCur'
    BY <2>1, <2>2, <1>7
  <2>4. PendingLast' = 1 => LeftOf(results'[1], last')
    <3>1. SUFFICES ASSUME PendingLast = 1 PROVE LeftOf(results'[1], last')
      BY <2>1
    <3>2. 1 \in DOMAIN results /\ last' = last
      BY <3>1, <2>2, <1>7, <1>1
    <3>3. results'[1] = results[1]
      BY <3>2, <1>7
    <3>. QED
      BY <3>1, <3>2, <3>3, <2>2
  <2>5. LeftOf(results'[Len(results')], cur')
    BY <1>1, <1>7 DEF LeftOf
  <2>6. Live(cur)'
    <3>1. \A x \in ToSet(cur'.reqs) : req'[x].holds /\ x \notin ToSet(waiting')
      BY <1>1, <1>4, <1>6, <1>12 DEF Same
    <3>. QED
      BY <3>1 DEF Live
  <2>7. (\A i \in DOMAIN results : \A x \in ToSet(results[i].reqs) : Skipped(x) \/ req[x].holds)'
    <3>1. SUFFICES ASSUME NEW i \in DOMAIN results', NEW x \in ToSet(results'[i].reqs)
                   PROVE  Skipped(x)' \/ req'[x].holds
      OBVIOUS
    <3>2. CASE i = Len(results) + 1
      <4>1. x \in ToSet(running)
        BY <3>1, <3>2, <1>6, <1>7
      <4>. QED
        BY <4>1, <1>1, <1>4, <1>12 DEF Same
    <3>3. CASE i \in DOMAIN results
      <4>1. x \in ToSet(results[i].reqs) /\ x \in Reqs
        BY <3>1, <3>3, <1>2, <1>7, Members
      <4>2. Skipped(x) \/ req[x].holds
        BY <4>1, <3>3, <1>1 DEF SInv, InFlight
      <4>. QED
        BY <4>1, <4>2, <1>1, <1>3 DEF Same
    <3>. QED
      BY <3>2, <3>3, <1>7
  <2>. QED
    BY <1>9, <2>3, <2>4, <2>5, <2>6, <2>7 DEF InFlight
<1>16. Chunks'
  <2>1. \A i \in DOMAIN results' : results'[i].chunked = None
    <3>1. \A i \in DOMAIN results : results[i].chunked = None
      BY <1>1, NoChunkInFlight
    <3>. QED
      BY <3>1, <1>6, <1>7
  <2>2. \A i \in DOMAIN results' : \A x \in Reqs : ~ChunkPending(i, x)'
    BY <2>1, ReqsAssumption DEF ChunkPending
  <2>. QED
    BY <1>1, <1>6, <1>9, <1>10, <1>11, <2>2 DEF Chunks
<1>. QED
  BY <1>13, <1>14, <1>15, <1>16

---------------------------------------------------------------------------
(* Results. *)

\* Results are processed at the end of an iteration, and the head of the
\* batch in turn is one of its requests.
LEMMA ProcessHead ==
    ASSUME SInv, ProcessResult
    PROVE  /\ pc \in {"process", "pause"}
           /\ results \in Seq(Batches) /\ results # << >> /\ Head(results) = results[1]
           /\ 1 \in DOMAIN results /\ Proper(results[1]) /\ results[1].reqs \in Seq(Reqs)
           /\ results[1].reqs # << >> /\ IsInjective(results[1].reqs)
           /\ Head(results[1].reqs) \in ToSet(results[1].reqs) /\ Head(results[1].reqs) \in Reqs
<1>1. /\ pc \in {"process", "pause"} /\ results # << >> /\ Head(results).reqs # << >>
      /\ results \in Seq(Batches) /\ \A i \in DOMAIN results : Proper(results[i])
  BY DEF SInv, Types, LoopTypes, ProcessResult, Ready
<1>2. Len(results) \in Nat /\ Len(results) > 0 /\ Head(results) = results[1] /\ 1 \in DOMAIN results
  BY <1>1
<1>3. Proper(results[1]) /\ results[1].reqs # << >>
  BY <1>1, <1>2
<1>4. results[1].reqs \in Seq(Reqs) /\ IsInjective(results[1].reqs)
  BY <1>3 DEF Proper, Batches
<1>5. Head(results[1].reqs) \in ToSet(results[1].reqs) /\ Head(results[1].reqs) \in Reqs
  BY <1>3, <1>4, ToSetTail, TailAt
<1>. QED
  BY <1>1, <1>2, <1>3, <1>4, <1>5

\* The head of the batch leaves it.
LEMMA ProcessTrim ==
    ASSUME SInv, ProcessResult
    PROVE  /\ results' \in Seq(Batches) /\ Len(results') = Len(results) /\ DOMAIN results' = DOMAIN results
           /\ \A i \in DOMAIN results : i # 1 => results'[i] = results[i]
           /\ results'[1].mode = results[1].mode /\ results'[1].chunked = results[1].chunked
           /\ ToSet(results'[1].reqs) = ToSet(results[1].reqs) \ {Head(results[1].reqs)}
           /\ \A i \in DOMAIN results : Proper(results'[i])
<1>. DEFINE b == results[1]
            t == [b EXCEPT !.reqs = Tail(@)]
<1>1. /\ results \in Seq(Batches) /\ results # << >> /\ Head(results) = results[1]
      /\ 1 \in DOMAIN results /\ Proper(b) /\ b.reqs \in Seq(Reqs) /\ b.reqs # << >> /\ IsInjective(b.reqs)
  BY ProcessHead
<1>2. results' = <<t>> \o Tail(results)
  BY <1>1 DEF ProcessResult, ProcessOne
<1>3. /\ Tail(b.reqs) \in Seq(Reqs) /\ IsInjective(Tail(b.reqs))
      /\ ToSet(Tail(b.reqs)) = ToSet(b.reqs) \ {Head(b.reqs)}
  <2>1. /\ IsInjective(Tail(b.reqs)) /\ ToSet(b.reqs) = ToSet(Tail(b.reqs)) \cup {Head(b.reqs)}
        /\ Head(b.reqs) \notin ToSet(Tail(b.reqs)) /\ Tail(b.reqs) \in Seq(Reqs)
    BY <1>1, ToSetTail, TailAt
  <2>. QED
    BY <2>1
<1>4. /\ t.mode = b.mode /\ t.chunked = b.chunked /\ t.reqs = Tail(b.reqs) /\ t.decoding = b.decoding
      /\ t \in Batches
  BY <1>1, <1>3 DEF Proper, Batches
<1>5. Proper(t)
  BY <1>1, <1>3, <1>4 DEF Proper
<1>. HIDE DEF t
<1>6. /\ Tail(results) \in Seq(Batches) /\ Len(results) \in Nat /\ Len(Tail(results)) = Len(results) - 1
      /\ \A j \in 1 .. Len(Tail(results)) : j + 1 \in 1 .. Len(results) /\ Tail(results)[j] = results[j + 1]
  BY <1>1, TailAt
<1>7. <<t>> \in Seq(Batches) /\ Len(<<t>>) = 1 /\ <<t>>[1] = t
  BY <1>4
<1>8. /\ results' \in Seq(Batches) /\ Len(results') = 1 + Len(Tail(results))
      /\ \A k \in 1 .. 1 : results'[k] = <<t>>[k]
      /\ \A k \in 1 .. Len(Tail(results)) : results'[1 + k] = Tail(results)[k]
  BY <1>2, <1>6, <1>7, ConcatAt
<1>9. /\ Len(results') = Len(results) /\ results'[1] = t
      /\ DOMAIN results = 1 .. Len(results) /\ DOMAIN results' = 1 .. Len(results')
  BY <1>1, <1>6, <1>7, <1>8
<1>10. ASSUME NEW i \in DOMAIN results, i # 1 PROVE results'[i] = results[i]
  <2>1. i - 1 \in 1 .. Len(Tail(results)) /\ i = 1 + (i - 1) /\ i = (i - 1) + 1
    BY <1>6, <1>9, <1>10
  <2>. QED
    BY <2>1, <1>6, <1>8
<1>11. \A i \in DOMAIN results : Proper(results'[i])
  BY <1>5, <1>9, <1>10 DEF SInv, Types, LoopTypes
<1>. QED
  BY <1>3, <1>4, <1>8, <1>9, <1>10, <1>11

\* What the result of a pass does to the request: it accounts for a chunk or
\* for a token, or the request ends and gives its row back.
LEMMA ProcessMeaning ==
    ASSUME SInv, ProcessResult
    PROVE  LET b == results[1]
               r == Head(b.reqs)
           IN  /\ ReqShape' /\ \A x \in Reqs : x # r => Same(x)
               /\ req'[r].sent = req[r].sent /\ req'[r].retracted = req[r].retracted
               /\ \/ /\ rows' = rows
                     /\ req'[r].holds = req[r].holds /\ req'[r].finished = req[r].finished
                     /\ req'[r].output = req[r].output /\ req'[r].answers = req[r].answers
                     /\ \/ req'[r].chunks = req[r].chunks
                        \/ b.mode = "extend" /\ req[r].chunks > 0 /\ req'[r].chunks = req[r].chunks - 1
                  \/ /\ ~Skipped(r) /\ ~(b.mode = "extend" /\ req[r].chunks > 0)
                     /\ rows' = rows + 1 /\ req'[r].chunks = req[r].chunks
                     /\ req'[r].holds = FALSE /\ req'[r].finished = TRUE /\ req'[r].output = TRUE
                     /\ req'[r].answers = IF req[r].output THEN req[r].answers ELSE req[r].answers + 1
<1>. DEFINE b == results[1]
            r == Head(b.reqs)
            q == [req[r] EXCEPT !.out = @ + 1]
            prompt == b.mode = "extend" /\ r \notin b.decoding
            midChunk == b.mode = "extend" /\ req[r].chunks > 0
            goOn == ~Skipped(r) /\ ~midChunk
<1>1. Head(results) = b /\ r \in Reqs /\ ReqShape
  BY ProcessHead DEF SInv, Types, ReqTypes, ReqShape
<1>2. PICK stop \in BOOLEAN : ProcessOne(stop)
  BY DEF ProcessResult
<1>. DEFINE ends == q.toFinish \/ q.out >= MaxNew[r] \/ stop
            e == [Released(q) EXCEPT !.finished = TRUE, !.output = TRUE,
                                     !.answers = IF q.output THEN @ ELSE @ + 1]
            u == [Unfinish(cache, r).req EXCEPT !.out = q.out]
            k == [req[r] EXCEPT !.chunks = IF Skipped(r) THEN @ ELSE @ - 1]
<1>3. \/ /\ ~goOn
         /\ req' = [req EXCEPT ![r].chunks = IF Skipped(r) THEN @ ELSE @ - 1]
         /\ rows' = rows
      \/ goOn /\ req' = [req EXCEPT ![r] = e] /\ rows' = rows + 1
      \/ goOn /\ prompt /\ req' = [req EXCEPT ![r] = u] /\ rows' = rows
      \/ goOn /\ req' = [req EXCEPT ![r] = q] /\ rows' = rows
  BY <1>1, <1>2 DEF ProcessOne
<1>4. /\ DOMAIN q = DOMAIN FreshReq /\ q.chunks = req[r].chunks /\ q.holds = req[r].holds
      /\ q.finished = req[r].finished /\ q.sent = req[r].sent /\ q.retracted = req[r].retracted
      /\ q.output = req[r].output /\ q.answers = req[r].answers
  BY <1>1 DEF ReqShape, FreshReq
<1>5. /\ DOMAIN k = DOMAIN FreshReq /\ k.holds = req[r].holds
      /\ k.chunks = (IF Skipped(r) THEN req[r].chunks ELSE req[r].chunks - 1)
      /\ k.finished = req[r].finished /\ k.sent = req[r].sent /\ k.retracted = req[r].retracted
      /\ k.output = req[r].output /\ k.answers = req[r].answers
  BY <1>1 DEF ReqShape, FreshReq
<1>6. /\ DOMAIN u = DOMAIN FreshReq /\ u.chunks = req[r].chunks /\ u.holds = req[r].holds
      /\ u.finished = req[r].finished /\ u.sent = req[r].sent /\ u.retracted = req[r].retracted
      /\ u.output = req[r].output /\ u.answers = req[r].answers
  <2>. DEFINE v == Unfinish(cache, r).req
  <2>1. /\ DOMAIN v = DOMAIN FreshReq /\ v.chunks = req[r].chunks /\ v.holds = req[r].holds
        /\ v.finished = req[r].finished /\ v.sent = req[r].sent /\ v.retracted = req[r].retracted
        /\ v.output = req[r].output /\ v.answers = req[r].answers
    BY <1>1, UnfinishKeeps
  <2>2. u = [v EXCEPT !.out = q.out]
    OBVIOUS
  <2>. HIDE DEF v, u, q
  <2>. QED
    BY <2>1, <2>2 DEF FreshReq
<1>. HIDE DEF q, r, b
<1>7. /\ DOMAIN e = DOMAIN FreshReq /\ e.chunks = req[r].chunks /\ e.holds = FALSE
      /\ e.finished = TRUE /\ e.output = TRUE /\ e.sent = req[r].sent /\ e.retracted = req[r].retracted
      /\ e.answers = IF req[r].output THEN req[r].answers ELSE req[r].answers + 1
  BY <1>4 DEF FreshReq, Released
<1>. HIDE DEF e, u, k
<1>8. CASE ~goOn /\ req' = [req EXCEPT ![r].chunks = IF Skipped(r) THEN @ ELSE @ - 1] /\ rows' = rows
  <2>1. req' = [req EXCEPT ![r] = k]
    BY <1>1, <1>8 DEF k, ReqShape
  <2>2. ReqShape' /\ req'[r] = k /\ \A x \in Reqs : x # r => Same(x)
    BY <2>1, <1>1, <1>5, ReqUpdate
  <2>. QED
    BY <2>2, <1>5, <1>8 DEF r, b
<1>9. CASE goOn /\ req' = [req EXCEPT ![r] = e] /\ rows' = rows + 1
  <2>1. ReqShape' /\ req'[r] = e /\ \A x \in Reqs : x # r => Same(x)
    BY <1>1, <1>7, <1>9, ReqUpdate
  <2>. QED
    BY <2>1, <1>7, <1>9 DEF r, b
<1>10. CASE goOn /\ prompt /\ req' = [req EXCEPT ![r] = u] /\ rows' = rows
  <2>1. ReqShape' /\ req'[r] = u /\ \A x \in Reqs : x # r => Same(x)
    BY <1>1, <1>6, <1>10, ReqUpdate
  <2>. QED
    BY <2>1, <1>6, <1>10 DEF r, b
<1>11. CASE goOn /\ req' = [req EXCEPT ![r] = q] /\ rows' = rows
  <2>1. ReqShape' /\ req'[r] = q /\ \A x \in Reqs : x # r => Same(x)
    BY <1>1, <1>4, <1>11, ReqUpdate
  <2>. QED
    BY <2>1, <1>4, <1>11 DEF r, b
<1>. QED
  BY <1>3, <1>8, <1>9, <1>10, <1>11

\* A chunk that is in flight twice is in flight in the older pass, too.
LEMMA ChunkInBoth ==
    ASSUME SInv, pc \in {"process", "pause"}, NEW i \in DOMAIN results, i # 1, NEW r \in Reqs,
           ChunkPending(i, r), r \in ToSet(results[1].reqs)
    PROVE  ChunkPending(1, r)
<1>1. results \in Seq(Batches) /\ PendingLast \in {0, 1} /\ PendingCur \in {0, 1}
  BY DEF SInv, Types, LoopTypes, PendingLast, PendingCur
<1>2. Len(results) = PendingLast + PendingCur /\ Len(results) \in Nat /\ DOMAIN results = 1 .. Len(results)
  BY <1>1 DEF SInv, InFlight
<1>3. i = Len(results) /\ PendingCur = 1 /\ 1 \in DOMAIN results
  BY <1>1, <1>2
<1>4. LeftOf(results[i], cur)
  BY <1>3 DEF SInv, InFlight
<1>5. r = chunked
  BY <1>4 DEF SInv, Chunks, LeftOf, ChunkPending
<1>6. results[1].chunked = chunked
  BY <1>3, <1>5, ReqsAssumption DEF SInv, Chunks
<1>. QED
  BY <1>5, <1>6 DEF ChunkPending

\* process_batch_result for one request, in this iteration or the next one:
\* a request that ends holds its row until then, and is not the one whose
\* prefill goes on.
LEMMA ProcessInv ==
    ASSUME SInv, ProcessResult
    PROVE  SInv'
<1>. DEFINE b == results[1]
<1>0. PICK r \in Reqs : r = Head(b.reqs)
  BY ProcessHead
<1>1. /\ pc \in {"process", "pause"} /\ 1 \in DOMAIN results /\ Proper(b) /\ r \in ToSet(b.reqs) /\ r \in Reqs
  BY <1>0, ProcessHead
<1>2. /\ results' \in Seq(Batches) /\ Len(results') = Len(results) /\ DOMAIN results' = DOMAIN results
      /\ \A i \in DOMAIN results : i # 1 => results'[i] = results[i]
      /\ results'[1].mode = b.mode /\ results'[1].chunked = b.chunked
      /\ ToSet(results'[1].reqs) = ToSet(b.reqs) \ {r}
      /\ \A i \in DOMAIN results : Proper(results'[i])
  BY <1>0, ProcessTrim
<1>3. /\ ReqShape' /\ \A x \in Reqs : x # r => Same(x)
      /\ req'[r].sent = req[r].sent /\ req'[r].retracted = req[r].retracted
  BY <1>0, ProcessMeaning
<1>4. \/ /\ rows' = rows
         /\ req'[r].holds = req[r].holds /\ req'[r].finished = req[r].finished
         /\ req'[r].output = req[r].output /\ req'[r].answers = req[r].answers
         /\ \/ req'[r].chunks = req[r].chunks
            \/ b.mode = "extend" /\ req[r].chunks > 0 /\ req'[r].chunks = req[r].chunks - 1
      \/ /\ ~Skipped(r) /\ ~(b.mode = "extend" /\ req[r].chunks > 0)
         /\ rows' = rows + 1 /\ req'[r].chunks = req[r].chunks
         /\ req'[r].holds = FALSE /\ req'[r].finished = TRUE /\ req'[r].output = TRUE
         /\ req'[r].answers = IF req[r].output THEN req[r].answers ELSE req[r].answers + 1
  BY <1>0, ProcessMeaning
<1>5. UNCHANGED <<args, waiting, running, chunked, last, cur, adder, paused, pc>>
  BY DEF ProcessResult
<1>6. Types /\ Answers /\ Placed /\ Held /\ InFlight /\ Chunks
  BY <1>1 DEF SInv
<1>7. /\ ToSet(waiting) \subseteq Reqs /\ ToSet(running) \subseteq Reqs /\ ToSet(cur.reqs) \subseteq Reqs
      /\ \A i \in DOMAIN results : ToSet(results[i].reqs) \subseteq Reqs
  BY <1>6, Members
<1>. HIDE DEF b
<1>8. /\ Prefill' = Prefill /\ Pledged' = 0 /\ Pledged = 0 /\ ~Admitting /\ ~Admitting'
      /\ PendingLast' = PendingLast /\ PendingCur' = PendingCur
  BY <1>1, <1>5 DEF Prefill, Pledged, Admitting, PendingLast, PendingCur
\* The batches and the requests left of them.
<1>9. \A i \in DOMAIN results :
        /\ results'[i].mode = results[i].mode /\ results'[i].chunked = results[i].chunked
        /\ ToSet(results'[i].reqs) \subseteq ToSet(results[i].reqs)
  BY <1>1, <1>2 DEF b
<1>10. \A i \in DOMAIN results : \A x \in Reqs : ChunkPending(i, x)' => ChunkPending(i, x)
  BY <1>9 DEF ChunkPending
<1>11. ASSUME NEW i \in DOMAIN results, ChunkPending(i, r)' PROVE i # 1 /\ ChunkPending(i, r) /\ ChunkPending(1, r)
  <2>1. i # 1 /\ ChunkPending(i, r)
    BY <1>1, <1>2, <1>10, <1>11 DEF ChunkPending
  <2>. QED
    BY <2>1, <1>1, ChunkInBoth DEF b
<1>12. Chunks'
  <2>1. req[r].chunks \in Nat /\ (req'[r].chunks = req[r].chunks \/ req'[r].chunks = req[r].chunks - 1)
    BY <1>1, <1>4, <1>6 DEF Types, ReqTypes
  <2>2. ASSUME NEW i \in DOMAIN results, NEW x \in Reqs, ChunkPending(i, x)'
        PROVE  req'[x].chunks >= 1
    <3>1. CASE x = r
      <4>1. req[r].chunks >= 2
        BY <3>1, <2>2, <1>1, <1>6, <1>11 DEF Chunks
      <4>. QED
        BY <3>1, <4>1, <2>1
    <3>2. CASE x # r
      BY <3>2, <2>2, <1>3, <1>6, <1>10 DEF Chunks, Same
    <3>. QED
      BY <3>1, <3>2
  <2>3. ASSUME NEW i \in DOMAIN results, NEW j \in DOMAIN results, NEW x \in Reqs,
               i # j, ChunkPending(i, x)', ChunkPending(j, x)'
        PROVE  req'[x].chunks >= 2
    <3>1. x # r
      <4>1. SUFFICES ASSUME x = r PROVE FALSE
        OBVIOUS
      <4>2. i # 1 /\ j # 1
        BY <4>1, <2>3, <1>11
      <4>3. Len(results) = PendingLast + PendingCur /\ PendingLast \in {0, 1} /\ PendingCur \in {0, 1}
        BY <1>6 DEF InFlight, PendingLast, PendingCur
      <4>4. DOMAIN results = 1 .. Len(results)
        BY <1>6 DEF Types, LoopTypes
      <4>. QED
        BY <4>2, <4>3, <4>4, <2>3
    <3>2. req[x].chunks >= 2
      BY <2>3, <1>6, <1>10 DEF Chunks
    <3>. QED
      BY <3>1, <3>2, <1>3 DEF Same
  <2>4. ASSUME NEW i \in DOMAIN results, chunked # None, chunked \in ToSet(results'[i].reqs)
        PROVE  results'[i].chunked = chunked
    BY <2>4, <1>6, <1>9 DEF Chunks
  <2>. QED
    BY <1>1, <1>2, <1>5, <1>6, <1>8, <2>2, <2>3, <2>4 DEF Chunks
<1>13. PendingLast' = 1 => LeftOf(results'[1], last')
  BY <1>1, <1>5, <1>6, <1>8, <1>9 DEF InFlight, LeftOf
<1>14. PendingCur' = 1 => LeftOf(results'[Len(results')], cur')
  <2>1. SUFFICES ASSUME PendingCur = 1 PROVE LeftOf(results'[Len(results')], cur')
    BY <1>8
  <2>2. LeftOf(results[Len(results)], cur) /\ DOMAIN results = 1 .. Len(results) /\ Len(results) \in Nat
    BY <2>1, <1>6 DEF InFlight, Types, LoopTypes
  <2>3. Len(results) \in DOMAIN results
    BY <2>2, <1>1
  <2>. QED
    BY <2>2, <2>3, <1>2, <1>5, <1>9 DEF LeftOf
<1>15. QueueTypes' /\ LoopTypes'
  <2>1. rows' \in Int
    BY <1>4, <1>6 DEF Types, LoopTypes
  <2>2. LoopTypes'
    BY <2>1, <1>1, <1>2, <1>5, <1>6 DEF Types, LoopTypes
  <2>3. QueueTypes'
    BY <1>5, <1>6 DEF Types, QueueTypes
  <2>. QED
    BY <2>2, <2>3
<1>16. CASE /\ rows' = rows
            /\ req'[r].holds = req[r].holds /\ req'[r].finished = req[r].finished
            /\ req'[r].output = req[r].output /\ req'[r].answers = req[r].answers
            /\ \/ req'[r].chunks = req[r].chunks
               \/ b.mode = "extend" /\ req[r].chunks > 0 /\ req'[r].chunks = req[r].chunks - 1
  <2>1. \A x \in Reqs : /\ req'[x].holds = req[x].holds /\ req'[x].finished = req[x].finished
                        /\ req'[x].sent = req[x].sent /\ req'[x].retracted = req[x].retracted
                        /\ req'[x].output = req[x].output /\ req'[x].answers = req[x].answers
    BY <1>3, <1>16 DEF Same
  <2>2. \A x \in Reqs : req'[x].chunks \in Nat
    BY <1>3, <1>6, <1>16 DEF Types, ReqTypes, Same
  <2>3. ReqTypes'
    BY <2>1, <2>2, <1>3, <1>6 DEF Types, ReqTypes, ReqShape
  <2>4. Answers'
    BY <2>1, <1>6 DEF Answers
  <2>5. Holders' = Holders /\ \A x \in Reqs : Finished(x)' = Finished(x) /\ Skipped(x)' = Skipped(x)
    BY <2>1 DEF Holders, Finished, Skipped
  <2>6. Placed'
    <3>1. (\A x \in ToSet(waiting) : req[x].sent /\ req[x].answers = 0)'
      BY <2>1, <1>5, <1>6, <1>7 DEF Placed
    <3>2. (\A x \in Reqs : req[x].sent /\ req[x].answers = 0 => x \in ToSet(waiting) \cup ToSet(running) \cup Prefill)'
      BY <2>1, <1>5, <1>6, <1>8 DEF Placed
    <3>3. (chunked # None => chunked \in Prefill /\ ~Finished(chunked))'
      BY <2>5, <1>5, <1>6, <1>8 DEF Placed, Types, LoopTypes
    <3>. QED
      BY <3>1, <3>2, <3>3, <1>1, <1>5, <1>6, <1>8 DEF Placed
  <2>7. Held'
    BY <2>1, <2>5, <1>5, <1>6, <1>8, <1>16 DEF Held
  <2>8. InFlight'
    <3>1. (\A i \in DOMAIN results : \A x \in ToSet(results[i].reqs) : Skipped(x) \/ req[x].holds)'
      BY <2>1, <2>5, <1>2, <1>6, <1>7, <1>9 DEF InFlight
    <3>2. Live(cur)'
      BY <2>1, <2>5, <1>1, <1>5, <1>6, <1>7 DEF InFlight, Live
    <3>3. cur' = last' => Live(last)'
      BY <3>2
    <3>. QED
      BY <3>1, <3>2, <3>3, <1>1, <1>2, <1>5, <1>6, <1>8, <1>13, <1>14 DEF InFlight
  <2>. QED
    BY <2>3, <2>4, <2>6, <2>7, <2>8, <1>12, <1>15 DEF SInv, Types
<1>17. CASE /\ ~Skipped(r) /\ ~(b.mode = "extend" /\ req[r].chunks > 0)
            /\ rows' = rows + 1 /\ req'[r].chunks = req[r].chunks
            /\ req'[r].holds = FALSE /\ req'[r].finished = TRUE /\ req'[r].output = TRUE
            /\ req'[r].answers = IF req[r].output THEN req[r].answers ELSE req[r].answers + 1
  <2>1. req[r].holds /\ ~Finished(r)
    BY <1>1, <1>6, <1>17 DEF InFlight, Skipped, b
  <2>2. req[r].answers = 0 /\ req[r].output = FALSE /\ req[r].sent
    <3>1. req[r].output = req[r].finished /\ req[r].finished = FALSE
      BY <2>1, <1>1, <1>6, Zenon DEF Answers, Finished, Types, ReqTypes
    <3>. QED
      BY <3>1, <2>1, <1>1, <1>6 DEF Answers
  <2>3. req'[r].answers = 1
    BY <2>2, <1>17
  <2>4. r \in ToSet(running) \cup Prefill /\ r \notin ToSet(waiting)
    BY <2>1, <1>1, <1>6, <1>8 DEF Held, Placed
  <2>5. chunked # r
    <3>1. SUFFICES ASSUME chunked = r PROVE FALSE
      OBVIOUS
    <3>2. b.chunked = r
      BY <3>1, <1>1, <1>6, ReqsAssumption DEF Chunks, b
    <3>3. b.mode = "extend"
      BY <3>2, <1>1, ReqsAssumption DEF Proper
    <3>4. ChunkPending(1, r)
      BY <3>2, <1>1 DEF ChunkPending, b
    <3>5. req[r].chunks >= 1 /\ req[r].chunks \in Nat
      BY <3>4, <1>1, <1>6 DEF Chunks, Types, ReqTypes
    <3>. QED
      BY <3>3, <3>5, <1>17
  <2>6. ReqTypes'
    <3>1. \A x \in Reqs : /\ req'[x].holds \in BOOLEAN /\ req'[x].finished \in BOOLEAN
                          /\ req'[x].output \in BOOLEAN
      BY <1>3, <1>6, <1>17, Zenon DEF Types, ReqTypes, Same
    <3>. QED
      BY <3>1, <2>3, <1>3, <1>6, <1>17 DEF Types, ReqTypes, ReqShape, Same
  <2>7. Answers'
    <3>1. SUFFICES ASSUME NEW x \in Reqs
                   PROVE  /\ req'[x].output = req'[x].finished
                          /\ req'[x].finished => req'[x].answers = 1
                          /\ req'[x].holds => req'[x].answers = 0
                          /\ ~req'[x].sent => ~req'[x].holds /\ req'[x].answers = 0
      BY DEF Answers
    <3>2. CASE x = r
      BY <3>2, <2>2, <2>3, <1>3, <1>17
    <3>3. CASE x # r
      BY <3>3, <1>3, <1>6 DEF Answers, Same
    <3>. QED
      BY <3>2, <3>3
  <2>8. /\ \A x \in Reqs : x # r => Finished(x)' = Finished(x) /\ Skipped(x)' = Skipped(x)
        /\ Finished(r)' /\ Skipped(r)'
    BY <1>3, <1>17 DEF Finished, Skipped, Same
  <2>9. Placed'
    <3>1. (\A x \in ToSet(waiting) : req[x].sent /\ req[x].answers = 0)'
      BY <2>4, <1>3, <1>5, <1>6, <1>7 DEF Placed, Same
    <3>2. (\A x \in Reqs : req[x].sent /\ req[x].answers = 0 => x \in ToSet(waiting) \cup ToSet(running) \cup Prefill)'
      BY <2>3, <1>3, <1>5, <1>6, <1>8 DEF Placed, Same
    <3>3. (chunked # None => chunked \in Prefill /\ ~Finished(chunked))'
      BY <2>5, <2>8, <1>5, <1>6, <1>8 DEF Placed, Types, LoopTypes
    <3>. QED
      BY <3>1, <3>2, <3>3, <1>1, <1>5, <1>6, <1>8 DEF Placed
  <2>10. Held'
    <3>1. (\A x \in Reqs : req[x].holds <=> x \in ToSet(running) \cup Prefill /\ ~Finished(x))'
      <4>1. SUFFICES ASSUME NEW x \in Reqs
                     PROVE  req'[x].holds <=> x \in ToSet(running) \cup Prefill /\ ~Finished(x)'
        BY <1>5, <1>8
      <4>2. CASE x = r
        BY <4>2, <2>8, <1>17
      <4>3. CASE x # r
        BY <4>3, <2>8, <1>3, <1>6 DEF Held, Same
      <4>. QED
        BY <4>2, <4>3
    <3>2. r \in Holders /\ Holders' = Holders \ {r}
      BY <2>1, <1>1, <1>3, <1>17 DEF Holders, Same
    <3>3. /\ IsFiniteSet(Holders) /\ Cardinality(Holders) \in Nat
          /\ rows = MaxRunning - Cardinality(Holders)
      BY <1>6, <1>8, FS_CardinalityType, ReqsAssumption DEF Held
    <3>4. IsFiniteSet(Holders') /\ Cardinality(Holders') = Cardinality(Holders) - 1
      BY <3>2, <3>3, FS_RemoveElement
    <3>5. rows' = MaxRunning - Cardinality(Holders') + Pledged'
      BY <3>3, <3>4, <1>8, <1>17, ReqsAssumption
    <3>. QED
      BY <3>1, <3>4, <3>5 DEF Held
  <2>11. InFlight'
    <3>1. (\A i \in DOMAIN results : \A x \in ToSet(results[i].reqs) : Skipped(x) \/ req[x].holds)'
      <4>1. SUFFICES ASSUME NEW i \in DOMAIN results, NEW x \in ToSet(results'[i].reqs)
                     PROVE  Skipped(x)' \/ req'[x].holds
        BY <1>2
      <4>2. x \in Reqs /\ (Skipped(x) \/ req[x].holds)
        BY <4>1, <1>6, <1>7, <1>9 DEF InFlight
      <4>. QED
        BY <4>2, <2>8, <1>3 DEF Same
    <3>2. Live(cur)'
      <4>1. SUFFICES ASSUME args.overlap, NEW x \in ToSet(cur.reqs)
                     PROVE  (Finished(x)' \/ req'[x].holds) /\ x \notin ToSet(waiting)
        BY <1>5 DEF Live
      <4>2. x \in Reqs /\ (Finished(x) \/ req[x].holds) /\ x \notin ToSet(waiting)
        BY <4>1, <1>1, <1>6, <1>7 DEF InFlight, Live
      <4>. QED
        BY <4>2, <2>8, <1>3 DEF Same
    <3>3. cur' = last' => Live(last)'
      BY <3>2
    <3>. QED
      BY <3>1, <3>2, <3>3, <1>1, <1>2, <1>5, <1>6, <1>8, <1>13, <1>14 DEF InFlight
  <2>. QED
    BY <2>6, <2>7, <2>9, <2>10, <2>11, <1>12, <1>15 DEF SInv, Types
<1>. QED
  BY <1>4, <1>16, <1>17

\* The batch whose results are processed leaves the passes in flight; what
\* was second becomes first.
LEMMA EndTrim ==
    ASSUME SInv, EndIteration
    PROVE  \E k \in {0, 1} :
             /\ Len(results') = Len(results) - k
             /\ \A i \in DOMAIN results' : i + k \in DOMAIN results /\ results'[i] = results[i + k]
             /\ k = 1 <=> Ready
             /\ results' \in Seq(Batches)
<1>1. results \in Seq(Batches) /\ results' = IF Ready THEN Tail(results) ELSE results
  BY DEF SInv, Types, LoopTypes, EndIteration
<1>2. CASE Ready
  <2>1. results # << >> /\ results' = Tail(results)
    BY <1>1, <1>2 DEF Ready
  <2>2. /\ Tail(results) \in Seq(Batches) /\ Len(results) \in Nat /\ Len(Tail(results)) = Len(results) - 1
        /\ \A j \in 1 .. Len(Tail(results)) : j + 1 \in 1 .. Len(results) /\ Tail(results)[j] = results[j + 1]
    BY <1>1, <2>1, TailAt
  <2>3. DOMAIN results = 1 .. Len(results) /\ DOMAIN results' = 1 .. Len(results')
    BY <1>1, <2>1, <2>2
  <2>. QED
    BY <1>2, <2>1, <2>2, <2>3
<1>3. CASE ~Ready
  <2>1. results' = results /\ Len(results) \in Nat /\ DOMAIN results = 1 .. Len(results)
    BY <1>1, <1>3
  <2>2. Len(results) - 0 = Len(results) /\ \A i \in DOMAIN results : i + 0 = i
    BY <2>1
  <2>3. /\ Len(results') = Len(results) - 0 /\ results' \in Seq(Batches)
        /\ \A i \in DOMAIN results' : i + 0 \in DOMAIN results /\ results'[i] = results[i + 0]
    BY <1>1, <2>1, <2>2
  <2>. QED
    BY <1>3, <2>3
<1>. QED
  BY <1>2, <1>3

\* The end of an iteration: this batch becomes the last one.
LEMMA EndIterationInv ==
    ASSUME SInv, EndIteration
    PROVE  SInv'
<1>1. /\ pc = "process" /\ pc' = "start" /\ last' = cur
      /\ UNCHANGED <<args, req, waiting, running, chunked, rows, cur, adder, paused>>
  BY DEF EndIteration
<1>2. PICK k \in {0, 1} :
        /\ Len(results') = Len(results) - k
        /\ \A i \in DOMAIN results' : i + k \in DOMAIN results /\ results'[i] = results[i + k]
        /\ k = 1 <=> Ready
        /\ results' \in Seq(Batches)
  BY EndTrim
<1>3. Types /\ Answers /\ Placed /\ Held /\ InFlight /\ Chunks /\ ReqShape /\ results \in Seq(Batches)
  BY <1>1 DEF SInv, Types, ReqTypes, ReqShape, LoopTypes
<1>4. ReqShape' /\ \A x \in Reqs : Same(x)
  BY <1>1, <1>3 DEF ReqShape, Same
<1>5. /\ ReqTypes' /\ Answers' /\ Holders' = Holders
      /\ \A r \in Reqs : Finished(r)' = Finished(r) /\ Skipped(r)' = Skipped(r)
  BY <1>3, <1>4, SameReqs DEF Types
<1>6. \A i \in DOMAIN results' : Proper(results'[i])
  BY <1>2, <1>3 DEF Types, LoopTypes
<1>7. Types'
  <2>1. QueueTypes'
    BY <1>1, <1>3 DEF Types, QueueTypes
  <2>2. LoopTypes'
    BY <1>1, <1>2, <1>3, <1>6 DEF Types, LoopTypes
  <2>. QED
    BY <2>1, <2>2, <1>5 DEF Types
<1>8. Prefill' = Prefill /\ Pledged = 0 /\ Pledged' = 0 /\ ~Admitting /\ ~Admitting'
  BY <1>1 DEF Prefill, Pledged, Admitting
<1>9. /\ ToSet(waiting) \subseteq Reqs /\ ToSet(cur.reqs) \subseteq Reqs
      /\ \A i \in DOMAIN results : ToSet(results[i].reqs) \subseteq Reqs
  BY <1>3, Members
<1>10. Placed'
  <2>1. (\A x \in ToSet(waiting) : req[x].sent /\ req[x].answers = 0)'
    BY <1>1, <1>3 DEF Placed
  <2>2. (\A x \in Reqs : req[x].sent /\ req[x].answers = 0 => x \in ToSet(waiting) \cup ToSet(running) \cup Prefill)'
    BY <1>1, <1>3, <1>8 DEF Placed
  <2>3. (chunked # None => chunked \in Prefill /\ ~Finished(chunked))'
    BY <1>1, <1>3, <1>5, <1>8 DEF Placed, Types, LoopTypes
  <2>. QED
    BY <1>1, <1>3, <1>8, <2>1, <2>2, <2>3 DEF Placed
<1>11. Held'
  BY <1>1, <1>3, <1>5, <1>8 DEF Held
<1>12. InFlight'
  <2>1. /\ PendingLast \in {0, 1} /\ PendingCur \in {0, 1} /\ Len(results) = PendingLast + PendingCur
        /\ PendingCur = 1 <=> cur # NoBatch
        /\ PendingLast = 1 <=> args.overlap /\ last # NoBatch
        /\ PendingCur' = 0 /\ PendingLast' = IF args.overlap THEN PendingCur ELSE 0
        /\ Len(results) \in Nat /\ Len(results') \in Nat
    BY <1>1, <1>2, <1>3 DEF InFlight, PendingLast, PendingCur
  <2>2. results # << >> <=> Len(results) > 0
    BY <1>3
  <2>3. k = IF args.overlap THEN PendingLast ELSE PendingCur
    BY <1>2, <2>1, <2>2 DEF Ready
  <2>4. Len(results') = PendingLast' + PendingCur'
    BY <1>2, <2>1, <2>3
  <2>5. PendingLast' = 1 => LeftOf(results'[1], last')
    <3>1. SUFFICES ASSUME PendingLast' = 1 PROVE LeftOf(results'[1], cur)
      BY <1>1
    <3>2. PendingCur = 1 /\ Len(results') = 1 /\ 1 + k = Len(results)
      BY <3>1, <2>1, <2>3, <2>4
    <3>3. results'[1] = results[Len(results)]
      BY <3>2, <1>2
    <3>. QED
      BY <3>2, <3>3, <1>3 DEF InFlight
  <2>6. (\A i \in DOMAIN results : \A x \in ToSet(results[i].reqs) : Skipped(x) \/ req[x].holds)'
    BY <1>1, <1>2, <1>3, <1>5, <1>9 DEF InFlight
  <2>7. Live(last)'
    BY <1>1, <1>3, <1>5, <1>9 DEF InFlight, Live
  <2>. QED
    BY <1>1, <2>1, <2>4, <2>5, <2>6, <2>7 DEF InFlight
<1>13. Chunks'
  <2>1. \A i \in DOMAIN results' : \A x \in Reqs : ChunkPending(i, x)' => ChunkPending(i + k, x) /\ i + k \in DOMAIN results
    BY <1>2 DEF ChunkPending
  <2>2. \A i \in DOMAIN results' : i \in Nat
    BY <1>2
  <2>3. \A i \in DOMAIN results' : \A x \in Reqs : ChunkPending(i, x)' => req'[x].chunks >= 1
    BY <2>1, <1>1, <1>3 DEF Chunks
  <2>4. \A i, j \in DOMAIN results' : \A x \in Reqs :
          i # j /\ ChunkPending(i, x)' /\ ChunkPending(j, x)' => req'[x].chunks >= 2
    <3>1. SUFFICES ASSUME NEW i \in DOMAIN results', NEW j \in DOMAIN results', NEW x \in Reqs,
                          i # j, ChunkPending(i, x)', ChunkPending(j, x)'
                   PROVE  req[x].chunks >= 2
      BY <1>1
    <3>2. /\ i + k # j + k /\ i + k \in DOMAIN results /\ j + k \in DOMAIN results
          /\ ChunkPending(i + k, x) /\ ChunkPending(j + k, x)
      BY <3>1, <2>1, <2>2
    <3>. QED
      BY <3>2, <1>3 DEF Chunks
  <2>5. \A i \in DOMAIN results' : chunked' # None /\ chunked' \in ToSet(results'[i].reqs) => results'[i].chunked = chunked'
    BY <1>1, <1>2, <1>3 DEF Chunks
  <2>. QED
    BY <1>1, <1>3, <1>8, <2>3, <2>4, <2>5 DEF Chunks
<1>. QED
  BY <1>5, <1>7, <1>10, <1>11, <1>12, <1>13 DEF SInv

---------------------------------------------------------------------------
(* The theorems. *)

\* Every step of the event loop and of the clients keeps the invariant.
LEMMA StepInv ==
    ASSUME SInv, PausesKeep, [Next]_vars
    PROVE  SInv'
<1>1. CASE MergeLast
  BY <1>1, MergeInv
<1>2. CASE BeginPrefill
  BY <1>2, BeginInv
<1>3. CASE AdmitNext
  BY <1>3, AdmitInv
<1>4. CASE NewBatch
  BY <1>4, NewBatchInv
<1>5. CASE NoPrefill
  BY <1>5, NoPrefillInv
<1>6. CASE CheckDecodeMem
  BY <1>6, CheckDecodeMemInv
<1>7. CASE RetractDecode
  BY <1>7, RetractDecodeInv
<1>8. CASE Decode
  BY <1>8, DecodeInv
<1>9. CASE ProcessResult
  BY <1>9, ProcessInv
<1>10. CASE EndIteration
  BY <1>10, EndIterationInv
<1>11. CASE RetractAll
  BY <1>11, RetractAllInv
<1>12. CASE \E r \in Reqs : Receive(r) \/ AbortRequest(r)
  BY <1>12, ReceiveInv, AbortInv
<1>13. CASE FlushCache
  BY <1>13, FlushInv
<1>14. CASE PauseRest
  BY <1>14, PauseRestInv
<1>15. CASE \/ Recheck \/ Continue \/ IdleCheck
            \/ \E mode \in args.pauses : Pause(mode)
            \/ UNCHANGED vars
  BY <1>15, QuietInv
<1>. QED
  BY <1>1, <1>2, <1>3, <1>4, <1>5, <1>6, <1>7, <1>8, <1>9, <1>10, <1>11, <1>12, <1>13, <1>14, <1>15, Zenon
     DEF Next, Step

\* The requests are where the event loop thinks they are, in every state of
\* get_next_batch_to_run, run_batch and process_batch_result.
THEOREM SchedulerInvariance ==
    Spec /\ []PausesKeep => []SInv
<1>1. Init => SInv
  BY InitInv
<1>2. SInv /\ PausesKeep /\ [Next]_vars => SInv'
  BY StepInv
<1>. QED
  BY <1>1, <1>2, PTL DEF Spec

\* Every list is without repetitions and no two have a request in common, so
\* a request has one place.
LEMMA OnePlace ==
    ASSUME SInv
    PROVE  NoRequestLost
<1>. DEFINE e == IF cur.mode = "extend" THEN cur.reqs ELSE << >>
            w == waiting \o running
            s == w \o e
<1>1. SUFFICES ASSUME pc = "start", NEW r \in Reqs, req[r].sent, req[r].answers = 0
               PROVE  Cardinality(Places(r)) = 1
  BY DEF NoRequestLost
<1>2. Types /\ Placed /\ Prefill = ToSet(e) /\ ~Admitting
  BY <1>1, ShortLists DEF SInv, Prefill, Admitting
<1>3. /\ waiting \in Seq(Reqs) /\ IsInjective(waiting) /\ running \in Seq(Reqs) /\ IsInjective(running)
      /\ e \in Seq(Reqs) /\ IsInjective(e)
  BY <1>2, ShortLists DEF Types, QueueTypes, LoopTypes, Proper, Batches
<1>4. /\ ToSet(waiting) \cap ToSet(running) = {} /\ ToSet(waiting) \cap ToSet(e) = {}
      /\ ToSet(running) \cap ToSet(e) = {} /\ r \in ToSet(waiting) \cup ToSet(running) \cup ToSet(e)
  BY <1>1, <1>2 DEF Placed
<1>. HIDE DEF e
<1>5. w \in Seq(Reqs) /\ IsInjective(w) /\ ToSet(w) = ToSet(waiting) \cup ToSet(running)
  BY <1>3, <1>4, ToSetConcat, ConcatAt
<1>6. Places(r) = {i \in DOMAIN s : s[i] = r}
  BY DEF Places, e
<1>. HIDE DEF w
<1>7. ToSet(w) \cap ToSet(e) = {}
  BY <1>4, <1>5
<1>8. IsInjective(s) /\ ToSet(s) = ToSet(w) \cup ToSet(e)
  BY <1>3, <1>5, <1>7, ToSetConcat
<1>. HIDE DEF s
<1>9. r \in ToSet(s)
  BY <1>4, <1>5, <1>8
<1>10. PICK i \in DOMAIN s : s[i] = r
  BY <1>9 DEF ToSet
<1>11. {j \in DOMAIN s : s[j] = r} = {i}
  BY <1>8, <1>10 DEF IsInjective
<1>. QED
  BY <1>6, <1>11, FS_Singleton

\* A request that was accepted and not answered is in one place, once, at the
\* start of every iteration of the event loop: no admission, chunk, merge,
\* retraction, abort or flush drops or duplicates it.
THEOREM RequestsKept ==
    Spec /\ []PausesKeep => []NoRequestLost
<1>1. SInv => NoRequestLost
  BY OnePlace
<1>. QED
  BY <1>1, SchedulerInvariance, PTL

\* A request is answered at most once, holds nothing once it is answered, and
\* the free rows of the request pool are the ones no request holds.
THEOREM AnsweredExactlyOnce ==
    Spec /\ []PausesKeep => []AnsweredOnce
<1>1. SInv => AnsweredOnce
  <2>1. SUFFICES ASSUME SInv PROVE AnsweredOnce
    OBVIOUS
  <2>2. ASSUME NEW r \in Reqs PROVE req[r].answers <= 1 /\ (req[r].answers = 1 => ~req[r].holds)
    BY <2>1 DEF SInv, Types, ReqTypes, Answers
  <2>3. ASSUME pc = "start" PROVE rows = MaxRunning - Cardinality(Holders)
    <3>1. Pledged = 0 /\ Held
      BY <2>1, <2>3 DEF SInv, Pledged, Admitting
    <3>. QED
      BY <3>1, FS_CardinalityType, ReqsAssumption DEF Held
  <2>. QED
    BY <2>2, <2>3 DEF AnsweredOnce
<1>. QED
  BY <1>1, SchedulerInvariance, PTL

---------------------------------------------------------------------------
(* The tree.  Tokens are members of T. *)

\* A list of whole pages.
Paged(s) == Len(s) % PageSize = 0

\* Nodes end cached prefixes, which consist of whole pages.
Shape(c, T) ==
  /\ DOMAIN c = DOMAIN EmptyCache
  /\ DOMAIN c.kv \subseteq Seq(T) /\ c.nodes \subseteq DOMAIN c.kv /\ IsFiniteSet(c.nodes)
  /\ \A p \in DOMAIN c.kv : Len(p) > 0 /\ Paged(p)
  /\ c.evictable \in Int /\ c.protected \in Int /\ c.free \in [Pages -> Int]

\* Prefixes of what is cached are cached.
Closed(c, T) == \A p \in DOMAIN c.kv, q \in Seq(T) : IsPrefix(q, p) /\ Len(q) > 0 /\ Paged(q) => q \in DOMAIN c.kv

\* Node m is where the cached prefix p is kept: every node at or below p is
\* at or below m.  Where two nodes part there is a node.
Owns(c, m, p) == m \in c.nodes /\ IsPrefix(p, m) /\ \A k \in c.nodes : IsPrefix(p, k) => IsPrefix(m, k)

\* Every cached prefix is kept in one node.
Branching(c) == \A p \in DOMAIN c.kv : \E m \in c.nodes : Owns(c, m, p)

\* A radix tree of whole pages.
Tree(c, T) == Shape(c, T) /\ Closed(c, T) /\ Branching(c)

\* The prefix that match_prefix finds.
LEMMA CachedPrefixMeaning ==
    ASSUME NEW T, NEW c, Shape(c, T), NEW key \in Seq(T)
    PROVE  LET p == CachedPrefix(c, key)
           IN  /\ p \in Seq(T) /\ IsPrefix(p, key) /\ Len(p) <= Len(key)
               /\ p = << >> \/ p \in DOMAIN c.kv
               /\ \A q \in DOMAIN c.kv : IsPrefix(q, key) => IsPrefix(q, p) /\ Len(q) <= Len(p)
<1>. DEFINE Q == {q \in DOMAIN c.kv : IsPrefix(q, key)}
            I == {0} \cup {Len(q) : q \in Q}
            n == Max(I)
            p == SubSeq(key, 1, n)
<1>0. \A q \in DOMAIN c.kv : q \in Seq(T) /\ Len(q) \in Nat
  BY DEF Shape
<1>1. \A q \in Q : q \in Seq(T) /\ Len(q) \in Nat /\ Len(q) <= Len(key)
  BY <1>0, PrefixOrder
<1>2. Len(key) \in Nat /\ I \subseteq 0 .. Len(key) /\ I # {}
  BY <1>1
<1>. HIDE DEF I
<1>b. I \subseteq Nat /\ \A i \in I : i <= Len(key)
  BY <1>2
<1>3. n \in I /\ \A i \in I : i <= n
  BY <1>b, <1>2, GreatestNat
<1>4. n \in 0 .. Len(key)
  BY <1>2, <1>3
<1>5. p \in Seq(T) /\ Len(p) = n /\ IsPrefix(p, key)
  BY <1>4, PrefixCut
<1>6. CachedPrefix(c, key) = p
  BY DEF CachedPrefix, I
<1>. HIDE DEF p, n
<1>7. ASSUME NEW q \in DOMAIN c.kv, IsPrefix(q, key) PROVE IsPrefix(q, p) /\ Len(q) <= Len(p)
  <2>1. q \in Q /\ Len(q) \in I
    BY <1>7 DEF I
  <2>2. q \in Seq(T) /\ Len(q) <= Len(p)
    BY <2>1, <1>0, <1>3, <1>5
  <2>. QED
    BY <2>2, <1>5, <1>7, PrefixOrder
<1>8. p = << >> \/ p \in DOMAIN c.kv
  <2>1. CASE n = 0
    BY <2>1, <1>5
  <2>2. CASE n # 0
    <3>1. PICK q \in Q : Len(q) = n
      BY <2>2, <1>3 DEF I
    <3>2. IsPrefix(q, p) /\ q \in Seq(T) /\ Len(p) <= Len(q)
      BY <3>1, <1>0, <1>5, <1>7
    <3>3. q = p
      BY <3>2, <1>5, PrefixOrder
    <3>. QED
      BY <3>1, <3>3
  <2>. QED
    BY <2>1, <2>2
<1>9. Len(p) <= Len(key)
  BY <1>4, <1>5
<1>. QED
  BY <1>5, <1>6, <1>7, <1>8, <1>9

\* The node above a node.
LEMMA ParentMeaning ==
    ASSUME NEW T, NEW c, Shape(c, T), NEW n \in Seq(T), Len(n) > 0
    PROVE  LET p == Parent(c, n)
           IN  /\ p \in Seq(T) /\ IsPrefix(p, n) /\ Len(p) < Len(n) /\ p \in c.nodes \cup {<< >>}
               /\ Len(p) \in Nat /\ Len(n) \in Nat
               /\ \A k \in c.nodes : IsPrefix(k, n) /\ k # n => IsPrefix(k, p) /\ Len(k) <= Len(p)
<1>. DEFINE above == {m \in c.nodes : IsStrictPrefix(m, n)}
            I == {Len(m) : m \in above}
            p == Parent(c, n)
<1>1. \A m \in c.nodes : m \in Seq(T) /\ Len(m) \in Nat
  BY DEF Shape
<1>2. \A m \in above : m \in c.nodes /\ m \in Seq(T) /\ IsPrefix(m, n) /\ m # n /\ Len(m) \in 0 .. Len(n) /\ Len(m) < Len(n)
  BY <1>1, PrefixOrder DEF IsStrictPrefix
<1>3. \A k \in c.nodes : IsPrefix(k, n) /\ k # n => k \in above
  BY DEF IsStrictPrefix
<1>4. CASE above = {}
  <2>1. p = << >>
    BY <1>4 DEF Parent
  <2>2. << >> \in Seq(T) /\ IsPrefix(<< >>, n) /\ Len(<< >>) = 0
    BY PrefixOrder
  <2>3. \A k \in c.nodes : ~(IsPrefix(k, n) /\ k # n)
    BY <1>3, <1>4
  <2>. HIDE DEF above, p
  <2>4. /\ p \in Seq(T) /\ IsPrefix(p, n) /\ Len(p) < Len(n) /\ p \in c.nodes \cup {<< >>}
        /\ Len(p) \in Nat /\ Len(n) \in Nat
    BY <2>1, <2>2
  <2>5. \A k \in c.nodes : IsPrefix(k, n) /\ k # n => IsPrefix(k, p) /\ Len(k) <= Len(p)
    BY <2>3
  <2>. QED
    BY <2>4, <2>5, Zenon DEF p
<1>5. CASE above # {}
  <2>. HIDE DEF above
  <2>0. \A m \in above : Len(m) \in 0 .. Len(n)
    BY <1>2
  <2>a. PICK x : x \in above
    BY <1>5
  <2>b. Len(x) \in I
    BY <2>a
  <2>c. I \subseteq 0 .. Len(n)
    BY <2>0
  <2>1. Len(n) \in Nat /\ I \subseteq 0 .. Len(n) /\ I # {}
    BY <2>b, <2>c
  <2>e. I \subseteq Nat /\ \A i \in I : i <= Len(n)
    BY <2>1
  <2>2. Max(I) \in I /\ \A i \in I : i <= Max(I)
    BY <2>1, <2>e, GreatestNat
  <2>3. \E m \in above : \A k \in above : Len(k) <= Len(m)
    BY <2>2
  <2>4. p = CHOOSE m \in above : \A k \in above : Len(k) <= Len(m)
    BY <1>5 DEF Parent, above
  <2>. HIDE DEF p
  <2>5. p \in above /\ \A k \in above : Len(k) <= Len(p)
    BY <2>3, <2>4
  <2>6. \A k \in above : IsPrefix(k, p)
    BY <2>5, <1>2, PrefixOrder
  <2>. QED
    BY <2>5, <2>6, <1>2, <1>3 DEF p
<1>. QED
  BY <1>4, <1>5

\* The node above is the only one that is directly above.
LEMMA ParentUnique ==
    ASSUME NEW T, NEW c, Shape(c, T), NEW n \in Seq(T), Len(n) > 0, NEW x \in c.nodes \cup {<< >>},
           IsPrefix(x, n), x # n, \A k \in c.nodes : IsPrefix(k, n) /\ k # n => Len(k) <= Len(x)
    PROVE  Parent(c, n) = x
<1>. DEFINE p == Parent(c, n)
<1>1. /\ p \in Seq(T) /\ IsPrefix(p, n) /\ Len(p) < Len(n) /\ p \in c.nodes \cup {<< >>}
      /\ Len(p) \in Nat /\ Len(n) \in Nat
      /\ \A k \in c.nodes : IsPrefix(k, n) /\ k # n => IsPrefix(k, p) /\ Len(k) <= Len(p)
  BY ParentMeaning
<1>. HIDE DEF p
<1>2. x \in Seq(T) /\ Len(x) \in Nat /\ (x = << >> => Len(x) = 0)
  <2>1. CASE x = << >>
    BY <2>1
  <2>2. CASE x \in c.nodes
    <3>1. x \in Seq(T)
      BY <2>2 DEF Shape
    <3>. QED
      BY <3>1
  <2>. QED
    BY <2>1, <2>2
<1>3. Len(p) <= Len(x)
  <2>1. CASE p = << >>
    BY <2>1, <1>2
  <2>2. CASE p \in c.nodes
    BY <2>2, <1>1
  <2>. QED
    BY <2>1, <2>2, <1>1
<1>4. Len(x) <= Len(p)
  <2>1. CASE x = << >>
    BY <2>1, <1>1
  <2>2. CASE x \in c.nodes
    BY <2>2, <1>1
  <2>. QED
    BY <2>1, <2>2
<1>5. IsPrefix(x, p)
  BY <1>1, <1>2, <1>4, PrefixOrder
<1>6. x = p
  BY <1>1, <1>2, <1>3, <1>5, PrefixOrder
<1>. QED
  BY <1>6 DEF p

---------------------------------------------------------------------------
(* Sizes of sets of nodes. *)

\* The key of a node has the tokens behind those of the node above.
LEMMA NodeLenType ==
    ASSUME NEW T, NEW c, Shape(c, T), NEW n \in c.nodes
    PROVE  NodeLen(c, n) \in Nat /\ NodeLen(c, n) = Len(n) - Len(Parent(c, n)) /\ n \in Seq(T) /\ Len(n) > 0
<1>1. n \in Seq(T) /\ Len(n) > 0
  BY DEF Shape
<1>2. Len(Parent(c, n)) < Len(n) /\ Len(Parent(c, n)) \in Nat /\ Len(n) \in Nat
  BY <1>1, ParentMeaning
<1>. QED
  BY <1>1, <1>2 DEF NodeLen

\* The tokens of a set of nodes, one node at a time.
LEMMA TokensRemove ==
    ASSUME NEW T, NEW c, Shape(c, T), NEW S \in SUBSET c.nodes
    PROVE  /\ Tokens(c, S) \in Int
           /\ \A x \in S : Tokens(c, S) = NodeLen(c, x) + Tokens(c, S \ {x})
<1>. DEFINE g == [n \in S |-> NodeLen(c, n)]
<1>1. IsFiniteSet(S)
  BY FS_Subset DEF Shape
<1>2. \A x \in S : NodeLen(c, x) \in Int
  BY NodeLenType
<1>3. Tokens(c, S) = SumFunctionOnSet(g, S) /\ \A x \in S : g[x] \in Int /\ g[x] = NodeLen(c, x)
  BY <1>2 DEF Tokens
<1>. HIDE DEF g
<1>4. /\ SumFunctionOnSet(g, S) \in Int
      /\ \A x \in S : SumFunctionOnSet(g, S) = g[x] + SumFunctionOnSet(g, S \ {x})
  BY <1>1, <1>3, SumRemove
<1>5. ASSUME NEW x \in S PROVE SumFunctionOnSet(g, S \ {x}) = Tokens(c, S \ {x})
  <2>. DEFINE R == S \ {x}
              h == [n \in R |-> NodeLen(c, n)]
  <2>1. IsFiniteSet(R)
    BY <1>1, FS_Subset
  <2>2. \A y \in R : g[y] = h[y]
    BY <1>3
  <2>3. Tokens(c, R) = SumFunctionOnSet(h, R)
    BY DEF Tokens
  <2>. HIDE DEF h, R
  <2>4. SumFunctionOnSet(g, R) = SumFunctionOnSet(h, R)
    BY <2>1, <2>2, SumSame
  <2>. QED
    BY <2>3, <2>4 DEF R
<1>. QED
  BY <1>3, <1>4, <1>5

\* The tokens of two sets of nodes that have no node in common.
LEMMA TokensUnion ==
    ASSUME NEW T, NEW c, Shape(c, T), NEW A \in SUBSET c.nodes, NEW B \in SUBSET c.nodes, A \cap B = {}
    PROVE  Tokens(c, A \cup B) = Tokens(c, A) + Tokens(c, B)
<1>. DEFINE g == [n \in A \cup B |-> NodeLen(c, n)]
            a == [n \in A |-> NodeLen(c, n)]
            b == [n \in B |-> NodeLen(c, n)]
<1>1. IsFiniteSet(A) /\ IsFiniteSet(B)
  BY FS_Subset DEF Shape
<1>2. \A x \in A \cup B : NodeLen(c, x) \in Int
  BY NodeLenType
<1>3. /\ Tokens(c, A \cup B) = SumFunctionOnSet(g, A \cup B)
      /\ Tokens(c, A) = SumFunctionOnSet(a, A) /\ Tokens(c, B) = SumFunctionOnSet(b, B)
  BY DEF Tokens
<1>4. /\ \A x \in A \cup B : g[x] \in Int
      /\ \A x \in A : g[x] = a[x]
      /\ \A x \in B : g[x] = b[x]
  BY <1>2
<1>. HIDE DEF g, a, b
<1>5. SumFunctionOnSet(g, A) = SumFunctionOnSet(a, A)
  BY <1>1, <1>4, SumSame
<1>6. SumFunctionOnSet(g, B) = SumFunctionOnSet(b, B)
  BY <1>1, <1>4, SumSame
<1>7. SumFunctionOnSet(g, A \cup B) = SumFunctionOnSet(g, A) + SumFunctionOnSet(g, B)
  BY <1>1, <1>4, SumUnion
<1>. QED
  BY <1>3, <1>5, <1>6, <1>7

\* The tokens of a set of nodes depend on the lengths of its keys only.
LEMMA TokensSame ==
    ASSUME NEW c, NEW d, NEW S, \A n \in S : NodeLen(c, n) = NodeLen(d, n)
    PROVE  Tokens(c, S) = Tokens(d, S)
<1>1. [n \in S |-> NodeLen(c, n)] = [n \in S |-> NodeLen(d, n)]
  OBVIOUS
<1>. QED
  BY <1>1 DEF Tokens

---------------------------------------------------------------------------
(* Splitting a node. *)

\* Cache d is c with a node that ends at p above node child.
SplitOf(c, d, p, child) ==
  /\ DOMAIN d = DOMAIN EmptyCache
  /\ d.nodes = c.nodes \cup {p} /\ d.kv = c.kv /\ d.free = c.free
  /\ d.evictable = c.evictable /\ d.protected = c.protected
  /\ d.lock = [m \in c.nodes \cup {p} |-> IF m = p THEN c.lock[child] ELSE c.lock[m]]

\* _split_node makes a node above the one that keeps p, with the locks of that
\* node.
LEMMA SplitMeaning ==
    ASSUME NEW T, NEW c, Tree(c, T), NEW p \in DOMAIN c.kv, p \notin c.nodes
    PROVE  \E child \in c.nodes : Owns(c, child, p) /\ SplitOf(c, SplitNode(c, p), p, child)
<1>. DEFINE below == {m \in c.nodes : IsStrictPrefix(p, m)}
            child == CHOOSE m \in below : \A k \in below : Len(m) <= Len(k)
            d == SplitNode(c, p)
<1>1. p \in Seq(T) /\ Len(p) > 0 /\ p # << >> /\ \A m \in c.nodes : m \in Seq(T) /\ Len(m) \in Nat
  BY DEF Tree, Shape
<1>2. PICK m \in c.nodes : Owns(c, m, p)
  BY DEF Tree, Branching
<1>3. m \in below /\ \A k \in below : IsPrefix(m, k)
  BY <1>1, <1>2 DEF Owns, IsStrictPrefix
<1>4. \A k \in below : k \in Seq(T) /\ Len(m) <= Len(k)
  BY <1>1, <1>3, PrefixOrder
<1>. HIDE DEF below
<1>5. child \in below /\ \A k \in below : Len(child) <= Len(k)
  BY <1>3, <1>4
<1>. HIDE DEF child
<1>6. child = m
  BY <1>1, <1>2, <1>3, <1>4, <1>5, PrefixOrder
<1>7. d = [c EXCEPT !.nodes = @ \cup {p},
                    !.lock = [x \in c.nodes \cup {p} |-> IF x = p THEN c.lock[child] ELSE c.lock[x]]]
  BY <1>1 DEF SplitNode, child, below
<1>8. DOMAIN c = DOMAIN EmptyCache
  BY DEF Tree, Shape
<1>9. SplitOf(c, d, p, child)
  BY <1>7, <1>8 DEF SplitOf, EmptyCache
<1>. QED
  BY <1>2, <1>6, <1>9

\* A tree whose node is split is a tree.
LEMMA SplitTree ==
    ASSUME NEW T, NEW c, Tree(c, T), NEW p \in DOMAIN c.kv, p \notin c.nodes, NEW child \in c.nodes,
           Owns(c, child, p), NEW d, SplitOf(c, d, p, child)
    PROVE  Tree(d, T)
<1>1. /\ \A q \in DOMAIN c.kv : q \in Seq(T)
      /\ \A m \in c.nodes : m \in DOMAIN c.kv
  BY DEF Tree, Shape
<1>2. Shape(d, T)
  <2>1. IsFiniteSet(c.nodes \cup {p})
    BY FS_AddElement DEF Tree, Shape
  <2>. QED
    BY <2>1 DEF Tree, Shape, SplitOf
<1>3. Closed(d, T)
  BY DEF Tree, Closed, SplitOf
<1>4. ASSUME NEW q \in DOMAIN c.kv PROVE \E m \in d.nodes : Owns(d, m, q)
  <2>1. PICK m \in c.nodes : Owns(c, m, q)
    BY DEF Tree, Branching
  <2>2. d.nodes = c.nodes \cup {p}
    BY DEF SplitOf
  <2>3. CASE ~IsPrefix(q, p)
    BY <2>1, <2>2, <2>3 DEF Owns
  <2>4. CASE IsPrefix(q, p) /\ IsPrefix(m, p)
    BY <2>1, <2>2, <2>4 DEF Owns
  <2>5. CASE IsPrefix(q, p) /\ ~IsPrefix(m, p)
    <3>1. q \in Seq(T) /\ p \in Seq(T) /\ m \in Seq(T) /\ child \in Seq(T) /\ Len(p) \in Nat /\ Len(m) \in Nat
      BY <1>1
    <3>2. IsPrefix(p, child) /\ IsPrefix(q, child)
      BY <2>5, <3>1, PrefixOrder DEF Owns
    <3>3. IsPrefix(m, child)
      BY <2>1, <3>2 DEF Owns
    <3>4. IsPrefix(p, m)
      <4>1. ~(Len(m) <= Len(p))
        BY <2>5, <3>1, <3>2, <3>3, PrefixOrder
      <4>. QED
        BY <3>1, <3>2, <3>3, <4>1, PrefixOrder
    <3>5. ASSUME NEW k \in c.nodes, IsPrefix(q, k) PROVE IsPrefix(p, k)
      <4>1. IsPrefix(m, k) /\ k \in Seq(T)
        BY <1>1, <2>1, <3>5 DEF Owns
      <4>. QED
        BY <3>1, <3>4, <4>1, PrefixOrder
    <3>6. IsPrefix(p, p)
      BY <3>1, PrefixOrder
    <3>7. Owns(d, p, q)
      BY <2>2, <2>5, <3>5, <3>6 DEF Owns
    <3>. QED
      BY <2>2, <3>7
  <2>. QED
    BY <2>3, <2>4, <2>5
<1>5. Branching(d)
  BY <1>4 DEF Branching, SplitOf
<1>. QED
  BY <1>2, <1>3, <1>5 DEF Tree

\* A split divides the tokens of one node and leaves those of the others alone.
LEMMA SplitLens ==
    ASSUME NEW T, NEW c, Tree(c, T), NEW p \in DOMAIN c.kv, p \notin c.nodes, NEW child \in c.nodes,
           Owns(c, child, p), NEW d, SplitOf(c, d, p, child)
    PROVE  /\ \A m \in c.nodes \ {child} : NodeLen(d, m) = NodeLen(c, m)
           /\ NodeLen(d, child) + NodeLen(d, p) = NodeLen(c, child)
<1>0. Shape(c, T) /\ Shape(d, T) /\ d.nodes = c.nodes \cup {p}
  BY SplitTree DEF Tree, SplitOf
<1>1. \A q \in d.nodes : q \in Seq(T) /\ Len(q) > 0 /\ Len(q) \in Nat
  BY <1>0 DEF Shape
<1>2. p \in Seq(T) /\ Len(p) > 0 /\ child \in Seq(T) /\ IsPrefix(p, child) /\ p # child /\ Len(p) < Len(child)
  <2>1. p \in Seq(T) /\ Len(p) > 0 /\ child \in Seq(T) /\ IsPrefix(p, child) /\ p # child
    BY <1>0, <1>1 DEF Owns
  <2>. QED
    BY <2>1, <1>1, <1>0, PrefixOrder
<1>3. ASSUME NEW m \in c.nodes \ {child} PROVE Parent(d, m) = Parent(c, m)
  <2>. DEFINE x == Parent(c, m)
  <2>1. /\ x \in Seq(T) /\ IsPrefix(x, m) /\ Len(x) < Len(m) /\ x \in c.nodes \cup {<< >>}
        /\ Len(x) \in Nat /\ Len(m) \in Nat /\ m \in Seq(T) /\ Len(m) > 0
        /\ \A k \in c.nodes : IsPrefix(k, m) /\ k # m => Len(k) <= Len(x)
    BY <1>0, <1>1, ParentMeaning
  <2>. HIDE DEF x
  <2>2. ASSUME IsPrefix(p, m) PROVE Len(p) <= Len(x)
    <3>1. IsPrefix(child, m) /\ child # m
      BY <2>2 DEF Owns
    <3>2. Len(child) <= Len(x)
      BY <2>1, <3>1
    <3>. QED
      BY <1>0, <1>1, <1>2, <2>1, <3>2
  <2>3. x \in d.nodes \cup {<< >>} /\ x # m /\ \A k \in d.nodes : IsPrefix(k, m) /\ k # m => Len(k) <= Len(x)
    BY <1>0, <2>1, <2>2
  <2>4. Parent(d, m) = x
    BY <1>0, <2>1, <2>3, ParentUnique
  <2>. QED
    BY <2>4 DEF x
<1>4. Parent(d, child) = p
  <2>1. ASSUME NEW k \in d.nodes, IsPrefix(k, child), k # child PROVE Len(k) <= Len(p)
    <3>1. SUFFICES ASSUME ~(Len(k) <= Len(p)) PROVE FALSE
      OBVIOUS
    <3>2. k \in c.nodes /\ k \in Seq(T) /\ Len(k) \in Nat /\ Len(p) \in Nat /\ Len(p) <= Len(k)
      BY <3>1, <1>0, <1>1
    <3>3. IsPrefix(p, k)
      BY <2>1, <3>2, <1>2, PrefixOrder
    <3>4. IsPrefix(child, k)
      BY <3>2, <3>3 DEF Owns
    <3>5. Len(child) <= Len(k)
      BY <3>4, <3>2, <1>2, PrefixOrder
    <3>. QED
      BY <2>1, <3>2, <3>5, <1>2, PrefixOrder
  <2>. QED
    BY <2>1, <1>0, <1>1, <1>2, ParentUnique
<1>5. Parent(d, p) = Parent(c, child)
  <2>. DEFINE x == Parent(c, child)
  <2>1. /\ x \in Seq(T) /\ IsPrefix(x, child) /\ Len(x) < Len(child) /\ x \in c.nodes \cup {<< >>}
        /\ Len(x) \in Nat
        /\ \A k \in c.nodes : IsPrefix(k, child) /\ k # child => Len(k) <= Len(x)
    BY <1>0, <1>1, ParentMeaning
  <2>. HIDE DEF x
  <2>2. IsPrefix(x, p) /\ x # p
    <3>1. CASE x = << >>
      BY <3>1, <1>2, PrefixOrder
    <3>2. CASE x \in c.nodes
      <4>1. ~IsPrefix(p, x)
        <5>1. SUFFICES ASSUME IsPrefix(p, x) PROVE FALSE
          OBVIOUS
        <5>2. IsPrefix(child, x)
          BY <5>1, <3>2 DEF Owns
        <5>3. Len(child) <= Len(x)
          BY <5>2, <1>2, <2>1, PrefixOrder
        <5>. QED
          BY <5>3, <2>1, <1>0, <1>1
      <4>2. Len(x) <= Len(p)
        BY <4>1, <1>0, <1>1, <1>2, <2>1, PrefixOrder
      <4>3. IsPrefix(x, p)
        BY <4>2, <1>2, <2>1, PrefixOrder
      <4>. QED
        BY <4>3, <3>2
    <3>. QED
      BY <3>1, <3>2, <2>1
  <2>3. ASSUME NEW k \in d.nodes, IsPrefix(k, p), k # p PROVE Len(k) <= Len(x)
    <3>1. k \in c.nodes /\ k \in Seq(T)
      BY <2>3, <1>0, <1>1
    <3>2. IsPrefix(k, child) /\ Len(k) <= Len(p)
      BY <2>3, <3>1, <1>2, PrefixOrder
    <3>3. k # child
      BY <3>2, <1>0, <1>1, <1>2
    <3>. QED
      BY <3>1, <3>2, <3>3, <2>1
  <2>4. x \in d.nodes \cup {<< >>}
    BY <1>0, <2>1
  <2>5. Parent(d, p) = x
    BY <2>2, <2>3, <2>4, <1>0, <1>1, <1>2, ParentUnique
  <2>. QED
    BY <2>5 DEF x
<1>6. \A m \in c.nodes \ {child} : NodeLen(d, m) = NodeLen(c, m)
  BY <1>3 DEF NodeLen
<1>7. NodeLen(d, child) + NodeLen(d, p) = NodeLen(c, child)
  <2>1. Len(Parent(c, child)) \in Nat
    BY <1>0, <1>1, ParentMeaning
  <2>. QED
    BY <1>0, <1>1, <1>4, <1>5, <2>1 DEF NodeLen
<1>. QED
  BY <1>6, <1>7

\* Sets of old nodes keep their sizes, those with child when they get p.
Reshaped(c, d, p, child) ==
  \A S \in SUBSET c.nodes : /\ child \notin S => Tokens(d, S) = Tokens(c, S)
                            /\ child \in S => Tokens(d, S \cup {p}) = Tokens(c, S)

\* The counters stay true when the two halves have the same locks.
LEMMA SplitTokens ==
    ASSUME NEW T, NEW c, Tree(c, T), NEW p \in DOMAIN c.kv, p \notin c.nodes, NEW child \in c.nodes,
           Owns(c, child, p), NEW d, SplitOf(c, d, p, child)
    PROVE  Reshaped(c, d, p, child)
<1>0. SUFFICES ASSUME NEW S \in SUBSET c.nodes
               PROVE  /\ child \notin S => Tokens(d, S) = Tokens(c, S)
                      /\ child \in S => Tokens(d, S \cup {p}) = Tokens(c, S)
  BY DEF Reshaped
<1>1. Shape(c, T) /\ Shape(d, T) /\ d.nodes = c.nodes \cup {p}
  BY SplitTree DEF Tree, SplitOf
<1>2. /\ \A m \in c.nodes \ {child} : NodeLen(d, m) = NodeLen(c, m)
      /\ NodeLen(d, child) + NodeLen(d, p) = NodeLen(c, child)
  BY SplitLens
<1>3. CASE child \notin S
  <2>1. \A m \in S : NodeLen(d, m) = NodeLen(c, m)
    BY <1>2, <1>3
  <2>. QED
    BY <2>1, <1>3, TokensSame
<1>4. CASE child \in S
  <2>. DEFINE R == S \ {child}
  <2>1. \A m \in R : NodeLen(d, m) = NodeLen(c, m)
    BY <1>2
  <2>2. Tokens(d, R) = Tokens(c, R)
    <3>. HIDE DEF R
    <3>. QED
      BY <2>1, TokensSame
  <2>3. Tokens(c, S) = NodeLen(c, child) + Tokens(c, R)
    BY <1>1, <1>4, TokensRemove
  <2>4. /\ S \cup {p} \in SUBSET d.nodes /\ p \in S \cup {p} /\ (S \cup {p}) \ {p} = S
        /\ S \in SUBSET d.nodes /\ R \in SUBSET d.nodes /\ R \in SUBSET c.nodes
    BY <1>1
  <2>5. Tokens(d, S \cup {p}) = NodeLen(d, p) + Tokens(d, S)
    BY <1>1, <2>4, TokensRemove
  <2>6. Tokens(d, S) = NodeLen(d, child) + Tokens(d, R)
    BY <1>1, <1>4, <2>4, TokensRemove
  <2>7. Tokens(d, R) \in Int /\ NodeLen(d, p) \in Int /\ NodeLen(d, child) \in Int
    <3>1. p \in d.nodes /\ child \in d.nodes
      BY <1>1
    <3>2. NodeLen(d, p) \in Int /\ NodeLen(d, child) \in Int
      BY <1>1, <3>1, NodeLenType
    <3>. QED
      BY <1>1, <2>4, <3>2, TokensRemove
  <2>. HIDE DEF R
  <2>8. Tokens(d, S \cup {p}) = Tokens(c, S)
    BY <1>2, <2>2, <2>3, <2>5, <2>6, <2>7
  <2>. QED
    BY <1>4, <2>8
<1>. QED
  BY <1>3, <1>4

---------------------------------------------------------------------------
(* Locks.  nd gives the node that each of its requests holds. *)

\* Holders hold nodes of the tree, or its root.
Anchored(c, nd) == \A r \in DOMAIN nd : nd[r] \in c.nodes \cup {<< >>}

\* The holders at or below node n, when nd[r] is the node that r holds.
Below(n, nd) == {r \in DOMAIN nd : IsPrefix(n, nd[r])}

\* A node is locked once for every holder at or below it.
Exact(c, nd) == c.lock \in [c.nodes -> Nat] /\ \A n \in c.nodes : c.lock[n] = Cardinality(Below(n, nd))

\* What every operation of the cache keeps, for the holders nd.
CacheInv(c, nd, T) ==
  Tree(c, T) /\ IsFiniteSet(DOMAIN nd) /\ Anchored(c, nd) /\ Exact(c, nd) /\ CountersExact(c)

\* A split keeps the locks and the counters exact.
LEMMA SplitKeeps ==
    ASSUME NEW T, NEW c, NEW nd, CacheInv(c, nd, T), NEW p \in DOMAIN c.kv \cup {<< >>}
    PROVE  LET d == SplitNode(c, p)
           IN  /\ CacheInv(d, nd, T) /\ p \in d.nodes \cup {<< >>}
               /\ c.nodes \subseteq d.nodes /\ d.nodes \subseteq c.nodes \cup {p}
               /\ d.kv = c.kv /\ d.free = c.free
<1>1. CASE p = << >> \/ p \in c.nodes
  <2>1. SplitNode(c, p) = c
    BY <1>1 DEF SplitNode
  <2>. QED
    BY <1>1, <2>1
<1>2. CASE p \in DOMAIN c.kv /\ p \notin c.nodes
  <2>. DEFINE d == SplitNode(c, p)
  <2>1. Tree(c, T) /\ Anchored(c, nd) /\ Exact(c, nd) /\ CountersExact(c) /\ IsFiniteSet(DOMAIN nd)
    BY DEF CacheInv
  <2>2. PICK child \in c.nodes : Owns(c, child, p) /\ SplitOf(c, d, p, child)
    BY <1>2, <2>1, SplitMeaning
  <2>. HIDE DEF d
  <2>3. Tree(d, T)
    BY <1>2, <2>1, <2>2, SplitTree
  <2>b. Reshaped(c, d, p, child)
    BY <1>2, <2>1, <2>2, SplitTokens
  <2>4. /\ d.nodes = c.nodes \cup {p} /\ d.kv = c.kv /\ d.free = c.free
        /\ d.evictable = c.evictable /\ d.protected = c.protected
        /\ d.lock = [m \in c.nodes \cup {p} |-> IF m = p THEN c.lock[child] ELSE c.lock[m]]
    BY <2>2 DEF SplitOf
  <2>5. Anchored(d, nd)
    BY <2>1, <2>4 DEF Anchored
  <2>6. Below(p, nd) = Below(child, nd)
    <3>1. /\ p \in Seq(T) /\ child \in Seq(T) /\ IsPrefix(p, child) /\ Len(p) > 0 /\ Len(child) > 0
          /\ \A k \in c.nodes : k \in Seq(T)
      BY <1>2, <2>1, <2>2 DEF Owns, Tree, Shape
    <3>2. \A k \in c.nodes : IsPrefix(p, k) <=> IsPrefix(child, k)
      BY <3>1, <2>2, PrefixOrder DEF Owns
    <3>3. ~IsPrefix(p, << >>) /\ ~IsPrefix(child, << >>)
      BY <3>1 DEF IsPrefix
    <3>4. ASSUME NEW r \in DOMAIN nd PROVE IsPrefix(p, nd[r]) <=> IsPrefix(child, nd[r])
      BY <2>1, <3>2, <3>3 DEF Anchored
    <3>. QED
      BY <3>4 DEF Below
  <2>7. Exact(d, nd)
    <3>1. c.lock[child] \in Nat /\ c.lock[child] = Cardinality(Below(p, nd))
      BY <2>1, <2>6 DEF Exact
    <3>2. d.lock \in [d.nodes -> Nat]
      BY <2>1, <2>4, <3>1 DEF Exact
    <3>3. \A n \in d.nodes : d.lock[n] = Cardinality(Below(n, nd))
      BY <1>2, <2>1, <2>4, <3>1 DEF Exact
    <3>. QED
      BY <3>2, <3>3 DEF Exact
  <2>8. CountersExact(d)
    <3>. DEFINE Z == {n \in c.nodes : c.lock[n] = 0}
                P == {n \in c.nodes : c.lock[n] > 0}
                Zd == {n \in d.nodes : d.lock[n] = 0}
                Pd == {n \in d.nodes : d.lock[n] > 0}
    <3>1. c.evictable = Tokens(c, Z) /\ c.protected = Tokens(c, P)
      BY <2>1 DEF CountersExact
    <3>2. /\ \A n \in c.nodes : d.lock[n] = c.lock[n] /\ n # p
          /\ d.lock[p] = c.lock[child] /\ c.lock[child] \in Nat
      BY <1>2, <2>1, <2>4 DEF Exact
    <3>3. Z \in SUBSET c.nodes /\ P \in SUBSET c.nodes
      OBVIOUS
    <3>4. CASE c.lock[child] = 0
      <4>a. Zd = Z \cup {p}
        BY <2>4, <3>2, <3>4
      <4>b. Pd = P
        <5>1. \A n \in c.nodes : d.lock[n] = c.lock[n]
          BY <3>2
        <5>2. d.lock[p] = 0
          BY <3>2, <3>4
        <5>. QED
          <6>1. \A n : n \in Pd <=> n \in c.nodes /\ d.lock[n] > 0
            BY <2>4, <5>2
          <6>2. \A n : n \in Pd <=> n \in P
            BY <6>1, <5>1
          <6>. HIDE DEF Pd, P
          <6>. QED
            BY <6>2
      <4>c. child \in Z /\ child \notin P
        BY <3>4
      <4>1. Zd = Z \cup {p} /\ Pd = P /\ child \in Z /\ child \notin P
        BY <4>a, <4>b, <4>c
      <4>. HIDE DEF Z, P, Zd, Pd
      <4>d. Tokens(d, Z \cup {p}) = Tokens(c, Z)
        BY <2>b, <3>3, <4>c DEF Reshaped
      <4>e. Tokens(d, P) = Tokens(c, P)
        BY <2>b, <3>3, <4>c DEF Reshaped
      <4>2. Tokens(d, Z \cup {p}) = Tokens(c, Z) /\ Tokens(d, P) = Tokens(c, P)
        BY <4>d, <4>e
      <4>3. d.evictable = Tokens(d, Zd) /\ d.protected = Tokens(d, Pd)
        BY <2>4, <3>1, <4>1, <4>2
      <4>. QED
        BY <4>3 DEF CountersExact, Zd, Pd
    <3>5. CASE c.lock[child] # 0
      <4>a. Zd = Z
        BY <2>4, <3>2, <3>5
      <4>b. Pd = P \cup {p}
        BY <2>4, <3>2, <3>5
      <4>c. child \notin Z /\ child \in P
        BY <3>2, <3>5
      <4>1. Zd = Z /\ Pd = P \cup {p} /\ child \notin Z /\ child \in P
        BY <4>a, <4>b, <4>c
      <4>. HIDE DEF Z, P, Zd, Pd
      <4>d. Tokens(d, P \cup {p}) = Tokens(c, P)
        BY <2>b, <3>3, <4>c DEF Reshaped
      <4>e. Tokens(d, Z) = Tokens(c, Z)
        BY <2>b, <3>3, <4>c DEF Reshaped
      <4>2. Tokens(d, P \cup {p}) = Tokens(c, P) /\ Tokens(d, Z) = Tokens(c, Z)
        BY <4>d, <4>e
      <4>3. d.evictable = Tokens(d, Zd) /\ d.protected = Tokens(d, Pd)
        BY <2>4, <3>1, <4>1, <4>2
      <4>. QED
        BY <4>3 DEF CountersExact, Zd, Pd
    <3>. QED
      BY <3>4, <3>5
  <2>9. CacheInv(d, nd, T)
    BY <2>1, <2>3, <2>5, <2>7, <2>8 DEF CacheInv
  <2>. QED
    BY <2>4, <2>9 DEF d
<1>. QED
  BY <1>1, <1>2

---------------------------------------------------------------------------
(* Whole pages. *)

\* The pages of a number of whole pages.
LEMMA PageCountOf ==
    ASSUME NEW k \in Int
    PROVE  PageCount(k * PageSize) = k /\ CeilPaged(k * PageSize) = k * PageSize
           /\ FloorPaged(k * PageSize) = k * PageSize
<1>. DEFINE P == PageSize
<1>1. P \in Nat \ {0}
  BY PageSizeAssumption
<1>. HIDE DEF P
<1>2. k * P = P * k /\ P * k \in Int
  BY <1>1
<1>3. P - 1 \in 0 .. P - 1 /\ k * P + P - 1 = P * k + (P - 1)
  BY <1>1, <1>2
<1>4. (k * P + P - 1) \div P = k
  BY <1>1, <1>3, DivUnique
<1>5. 0 \in 0 .. P - 1 /\ P * k + 0 = k * P
  BY <1>1, <1>2
<1>6. (k * P) \div P = k
  BY <1>1, <1>5, DivUnique
<1>. QED
  BY <1>4, <1>6 DEF PageCount, CeilPaged, FloorPaged, P

\* A length in whole pages.
LEMMA PagedLen ==
    ASSUME NEW n \in Nat, n % PageSize = 0
    PROVE  PageCount(n) \in Nat /\ n = PageCount(n) * PageSize
<1>. DEFINE P == PageSize
            k == n \div P
<1>1. P \in Nat \ {0}
  BY PageSizeAssumption
<1>2. n = P * k + (n % P) /\ k \in Int
  BY <1>1, DivMod
<1>3. n % P = 0
  OBVIOUS
<1>. HIDE DEF P, k
<1>4. n = P * k /\ P * k = k * P
  BY <1>1, <1>2, <1>3
<1>5. k \in Nat
  <2>1. CASE k < 0
    <3>1. P * k < P * 0
      BY <2>1, <1>1, <1>2, TimesOrder
    <3>2. P * 0 = 0
      BY <1>1
    <3>. QED
      BY <3>1, <3>2, <1>4
  <2>. QED
    BY <2>1, <1>2
<1>6. PageCount(n) = k
  BY <1>2, <1>4, PageCountOf DEF P
<1>. QED
  BY <1>4, <1>5, <1>6 DEF P

\* A number of whole pages is a multiple of the page size.
LEMMA PagesLen ==
    ASSUME NEW k \in Int
    PROVE  (k * PageSize) % PageSize = 0
<1>. DEFINE P == PageSize
<1>1. P \in Nat \ {0}
  BY PageSizeAssumption
<1>. HIDE DEF P
<1>2. 0 \in 0 .. P - 1 /\ P * k + 0 = k * P
  BY <1>1
<1>3. (P * k + 0) % P = 0
  BY <1>1, <1>2, ModUnique
<1>. QED
  BY <1>2, <1>3 DEF P

\* Lengths in whole pages are ordered as their numbers of pages are.
LEMMA PageCountOrder ==
    ASSUME NEW m \in Nat, NEW n \in Nat, m % PageSize = 0, n % PageSize = 0
    PROVE  /\ m < n <=> PageCount(m) < PageCount(n)
           /\ m = n <=> PageCount(m) = PageCount(n)
<1>. DEFINE P == PageSize
            a == PageCount(m)
            b == PageCount(n)
<1>1. P \in Nat \ {0}
  BY PageSizeAssumption
<1>2. a \in Nat /\ b \in Nat /\ m = a * P /\ n = b * P
  BY PagedLen
<1>. HIDE DEF P, a, b
<1>3. a * P = P * a /\ b * P = P * b
  BY <1>1, <1>2
<1>4. (a < b <=> P * a < P * b) /\ (P * a = P * b => a = b)
  BY <1>1, <1>2, TimesOrder
<1>. QED
  BY <1>2, <1>3, <1>4 DEF a, b

---------------------------------------------------------------------------
(* A new leaf. *)

\* The cached prefixes that key adds to those of its prefix p.
Added(key, p) == {SubSeq(key, 1, i * PageSize) : i \in (PageCount(Len(p)) + 1) .. PageCount(Len(key))}

\* The new prefixes are those of key, in whole pages, that are longer than p.
LEMMA AddedMeaning ==
    ASSUME NEW T, NEW key \in Seq(T), Paged(key), NEW p \in Seq(T), Paged(p), IsPrefix(p, key)
    PROVE  \A q : q \in Added(key, p) <=> q \in Seq(T) /\ IsPrefix(q, key) /\ Paged(q) /\ Len(q) > Len(p)
<1>. DEFINE P == PageSize
            a == PageCount(Len(p))
            b == PageCount(Len(key))
<1>1. P \in Nat \ {0} /\ Len(p) \in Nat /\ Len(key) \in Nat
  BY PageSizeAssumption
<1>2. a \in Nat /\ b \in Nat /\ Len(p) = a * P /\ Len(key) = b * P
  BY <1>1, PagedLen DEF Paged
<1>. HIDE DEF P, a, b
<1>3. ASSUME NEW i \in (a + 1) .. b
      PROVE  /\ SubSeq(key, 1, i * P) \in Seq(T) /\ IsPrefix(SubSeq(key, 1, i * P), key)
             /\ Paged(SubSeq(key, 1, i * P)) /\ Len(SubSeq(key, 1, i * P)) > Len(p)
  <2>1. i \in Nat /\ i > a /\ i <= b
    BY <1>2
  <2>2. P * a < P * i /\ P * i <= P * b
    BY <2>1, <1>1, <1>2, TimesOrder
  <2>3. i * P \in 0 .. Len(key) /\ i * P > Len(p)
    <3>1. P * a = a * P /\ P * i = i * P /\ P * b = b * P /\ i * P \in Nat
      BY <1>1, <1>2, <2>1
    <3>. QED
      BY <2>2, <3>1, <1>1, <1>2
  <2>. DEFINE u == SubSeq(key, 1, i * P)
  <2>4. u \in Seq(T) /\ Len(u) = i * P /\ IsPrefix(u, key)
    BY <2>3, PrefixCut
  <2>5. (i * P) % P = 0
    BY <2>1, PagesLen DEF P
  <2>. HIDE DEF u
  <2>6. Paged(u) /\ Len(u) > Len(p)
    BY <2>3, <2>4, <2>5 DEF Paged, P
  <2>. QED
    BY <2>4, <2>6 DEF u
<1>4. ASSUME NEW q \in Seq(T), IsPrefix(q, key), Paged(q), Len(q) > Len(p)
      PROVE  \E i \in (a + 1) .. b : q = SubSeq(key, 1, i * P)
  <2>. DEFINE i == PageCount(Len(q))
  <2>1. Len(q) \in Nat /\ Len(q) <= Len(key)
    BY <1>4, PrefixOrder
  <2>2. i \in Nat /\ Len(q) = i * P
    BY <1>4, <2>1, PagedLen DEF Paged, P
  <2>. HIDE DEF i
  <2>3. i > a /\ i <= b
    <3>1. P * a = a * P /\ P * i = i * P /\ P * b = b * P
      BY <1>1, <1>2, <2>2
    <3>2. P * a < P * i /\ P * i <= P * b
      BY <3>1, <1>2, <1>4, <2>1, <2>2
    <3>. QED
      BY <3>2, <1>1, <1>2, <2>2, TimesOrder
  <2>. DEFINE u == SubSeq(key, 1, i * P)
  <2>4. i * P \in 0 .. Len(key)
    BY <2>1, <2>2
  <2>5. u \in Seq(T) /\ Len(u) = Len(q) /\ IsPrefix(u, key)
    BY <2>2, <2>4, PrefixCut
  <2>. HIDE DEF u
  <2>6. IsPrefix(q, u)
    BY <1>4, <2>1, <2>5, PrefixOrder
  <2>7. q = u
    BY <1>4, <2>1, <2>5, <2>6, PrefixOrder
  <2>. QED
    BY <1>2, <2>2, <2>3, <2>7 DEF u
<1>5. \A q : q \in Added(key, p) <=> \E i \in (a + 1) .. b : q = SubSeq(key, 1, i * P)
  BY DEF Added, a, b, P
<1>6. ASSUME NEW q, q \in Added(key, p)
      PROVE  q \in Seq(T) /\ IsPrefix(q, key) /\ Paged(q) /\ Len(q) > Len(p)
  <2>1. PICK i \in (a + 1) .. b : q = SubSeq(key, 1, i * P)
    BY <1>5, <1>6, Zenon
  <2>. QED
    BY <2>1, <1>3, Zenon
<1>7. ASSUME NEW q, q \in Seq(T), IsPrefix(q, key), Paged(q), Len(q) > Len(p)
      PROVE  q \in Added(key, p)
  BY <1>4, <1>5, <1>7, Zenon
<1>. QED
  BY <1>6, <1>7, Zenon

\* Cache e is d with the leaf key of n tokens, which is cached down to its
\* prefix p.
LeafOf(d, e, key, p, n) ==
  /\ DOMAIN e = DOMAIN EmptyCache
  /\ e.nodes = d.nodes \cup {key} /\ e.free = d.free
  /\ DOMAIN e.kv = DOMAIN d.kv \cup Added(key, p)
  /\ e.evictable = d.evictable + n /\ e.protected = d.protected
  /\ e.lock = [m \in d.nodes \cup {key} |-> IF m = key THEN 0 ELSE d.lock[m]]

\* p is the longest cached prefix of key, and ends a node.
LeafAt(d, key, p, T) ==
  /\ key \in Seq(T) /\ Paged(key) /\ p # key
  /\ p \in d.nodes \cup {<< >>} /\ IsPrefix(p, key)
  /\ \A q \in DOMAIN d.kv : IsPrefix(q, key) => IsPrefix(q, p) /\ Len(q) <= Len(p)

\* A new leaf is below p and has no node below it, and none of the new
\* prefixes is above an old node.
LEMMA LeafFacts ==
    ASSUME NEW T, NEW d, Tree(d, T), NEW key, NEW p, LeafAt(d, key, p, T)
    PROVE  /\ p \in Seq(T) /\ Paged(p) /\ Len(p) < Len(key) /\ Len(p) \in Nat /\ Len(key) \in Nat
           /\ key \notin DOMAIN d.kv
           /\ \A k \in d.nodes : ~IsPrefix(key, k)
           /\ \A q \in Added(key, p), k \in d.nodes : ~IsPrefix(q, k)
           /\ key \in Added(key, p)
           /\ \A q \in Added(key, p) : q \in Seq(T) /\ IsPrefix(q, key) /\ Paged(q) /\ Len(q) > Len(p) /\ Len(q) \in Nat
<1>1. p \in Seq(T) /\ Paged(p)
  <2>1. CASE p = << >>
    <3>1. p \in Seq(T) /\ Len(p) = 0
      BY <2>1
    <3>2. 0 % PageSize = 0
      BY PageSizeAssumption
    <3>. QED
      BY <3>1, <3>2 DEF Paged
  <2>2. CASE p \in d.nodes
    BY <2>2 DEF Tree, Shape
  <2>. QED
    BY <2>1, <2>2 DEF LeafAt
<1>2. key \in Seq(T) /\ Paged(key) /\ p # key /\ IsPrefix(p, key)
  BY DEF LeafAt
<1>3. Len(p) < Len(key) /\ Len(p) \in Nat /\ Len(key) \in Nat
  BY <1>1, <1>2, PrefixOrder
<1>4. \A q : q \in Added(key, p) <=> q \in Seq(T) /\ IsPrefix(q, key) /\ Paged(q) /\ Len(q) > Len(p)
  BY <1>1, <1>2, AddedMeaning
<1>5. key \in Added(key, p)
  BY <1>2, <1>3, <1>4, PrefixOrder
<1>6. ASSUME NEW q \in Added(key, p) PROVE q \notin DOMAIN d.kv
  <2>1. IsPrefix(q, key) /\ Len(q) > Len(p) /\ q \in Seq(T)
    BY <1>4
  <2>. QED
    BY <2>1, <1>3 DEF LeafAt
<1>7. ASSUME NEW q \in Added(key, p), NEW k \in d.nodes PROVE ~IsPrefix(q, k)
  <2>1. k \in DOMAIN d.kv
    BY DEF Tree, Shape
  <2>2. q \in Seq(T) /\ Len(q) > 0 /\ Paged(q)
    BY <1>3, <1>4
  <2>. QED
    BY <1>6, <2>1, <2>2 DEF Tree, Closed
<1>. QED
  BY <1>1, <1>3, <1>4, <1>5, <1>6, <1>7

\* A tree with a new leaf is a tree.
LEMMA LeafTree ==
    ASSUME NEW T, NEW d, Tree(d, T), NEW key, NEW p, LeafAt(d, key, p, T), NEW n \in Int,
           NEW e, LeafOf(d, e, key, p, n)
    PROVE  Tree(e, T)
<1>1. /\ p \in Seq(T) /\ Paged(p) /\ Len(p) < Len(key) /\ Len(p) \in Nat /\ Len(key) \in Nat
      /\ key \notin DOMAIN d.kv
      /\ \A q \in Added(key, p), k \in d.nodes : ~IsPrefix(q, k)
      /\ key \in Added(key, p)
      /\ \A q \in Added(key, p) : q \in Seq(T) /\ IsPrefix(q, key) /\ Paged(q) /\ Len(q) > Len(p) /\ Len(q) \in Nat
  BY LeafFacts
<1>2. /\ key \in Seq(T) /\ Paged(key) /\ IsPrefix(p, key) /\ p \in d.nodes \cup {<< >>}
      /\ \A q \in DOMAIN d.kv : IsPrefix(q, key) => IsPrefix(q, p) /\ Len(q) <= Len(p)
  BY DEF LeafAt
<1>3. Shape(d, T) /\ Closed(d, T) /\ Branching(d)
  BY DEF Tree
<1>4. /\ DOMAIN e = DOMAIN EmptyCache
      /\ e.nodes = d.nodes \cup {key} /\ e.free = d.free /\ DOMAIN e.kv = DOMAIN d.kv \cup Added(key, p)
      /\ e.evictable = d.evictable + n /\ e.protected = d.protected
  BY DEF LeafOf
<1>5. Shape(e, T)
  <2>1. IsFiniteSet(e.nodes)
    <3>1. IsFiniteSet(d.nodes)
      BY <1>3 DEF Shape
    <3>2. IsFiniteSet(d.nodes \cup {key})
      BY <3>1, FS_AddElement
    <3>. QED
      BY <3>2, <1>4
  <2>2. DOMAIN e.kv \subseteq Seq(T) /\ e.nodes \subseteq DOMAIN e.kv
    BY <1>1, <1>3, <1>4 DEF Shape
  <2>3. \A q \in DOMAIN e.kv : Len(q) > 0 /\ Paged(q)
    BY <1>1, <1>3, <1>4 DEF Shape
  <2>4. e.evictable \in Int /\ e.protected \in Int /\ e.free \in [Pages -> Int]
    BY <1>3, <1>4 DEF Shape
  <2>. QED
    BY <1>4, <2>1, <2>2, <2>3, <2>4 DEF Shape
<1>6. \A q : q \in Added(key, p) <=> q \in Seq(T) /\ IsPrefix(q, key) /\ Paged(q) /\ Len(q) > Len(p)
  BY <1>1, <1>2, AddedMeaning
<1>7. Closed(e, T)
  <2>1. SUFFICES ASSUME NEW x \in DOMAIN e.kv, NEW q \in Seq(T), IsPrefix(q, x), Len(q) > 0, Paged(q)
                 PROVE  q \in DOMAIN e.kv
    BY DEF Closed
  <2>2. CASE x \in DOMAIN d.kv
    BY <2>1, <2>2, <1>3, <1>4 DEF Closed
  <2>3. CASE x \in Added(key, p)
    <3>1. IsPrefix(q, key) /\ Len(q) \in Nat
      BY <2>1, <2>3, <1>1, <1>2, PrefixOrder
    <3>2. CASE Len(q) > Len(p)
      BY <2>1, <3>1, <3>2, <1>4, <1>6
    <3>3. CASE Len(q) <= Len(p)
      <4>1. IsPrefix(q, p)
        BY <3>1, <3>3, <2>1, <1>1, <1>2, PrefixOrder
      <4>2. p \in d.nodes
        BY <2>1, <3>1, <3>3, <1>1, <1>2
      <4>3. p \in DOMAIN d.kv
        BY <4>2, <1>3 DEF Shape
      <4>. QED
        BY <2>1, <4>1, <4>3, <1>3, <1>4 DEF Closed
    <3>. QED
      BY <3>1, <3>2, <3>3, <1>1
  <2>. QED
    BY <2>2, <2>3, <1>4
<1>8. ASSUME NEW q \in DOMAIN e.kv PROVE \E m \in e.nodes : Owns(e, m, q)
  <2>1. CASE q \in Added(key, p)
    <3>1. Owns(e, key, q)
      BY <2>1, <1>1, <1>2, <1>4, PrefixOrder DEF Owns
    <3>. QED
      BY <3>1 DEF Owns
  <2>2. CASE q \in DOMAIN d.kv
    <3>1. PICK m \in d.nodes : Owns(d, m, q)
      BY <2>2, <1>3 DEF Branching
    <3>2. ASSUME IsPrefix(q, key) PROVE IsPrefix(m, key)
      <4>1. IsPrefix(q, p) /\ Len(q) <= Len(p) /\ Len(q) > 0
        BY <2>2, <3>2, <1>2, <1>3 DEF Shape
      <4>2. p \in d.nodes
        <5>1. q \in Seq(T) /\ Len(q) \in Nat
          BY <2>2, <1>3 DEF Shape
        <5>2. p # << >>
          BY <4>1, <5>1
        <5>. QED
          BY <5>2, <1>2
      <4>3. IsPrefix(m, p) /\ m \in Seq(T)
        BY <3>1, <4>1, <4>2, <1>3 DEF Owns, Shape
      <4>. QED
        BY <4>3, <1>1, <1>2, PrefixOrder
    <3>3. Owns(e, m, q)
      BY <3>1, <3>2, <1>4 DEF Owns
    <3>. QED
      BY <3>3 DEF Owns
  <2>. QED
    BY <2>1, <2>2, <1>4
<1>9. Branching(e)
  BY <1>8 DEF Branching
<1>. QED
  BY <1>5, <1>7, <1>9 DEF Tree

\* The nodes keep their lengths, and the leaf has the tokens behind p.
LEMMA LeafLens ==
    ASSUME NEW T, NEW d, Tree(d, T), NEW key, NEW p, LeafAt(d, key, p, T), NEW n \in Int,
           NEW e, LeafOf(d, e, key, p, n)
    PROVE  /\ \A m \in d.nodes : NodeLen(e, m) = NodeLen(d, m)
           /\ NodeLen(e, key) = Len(key) - Len(p)
<1>1. /\ p \in Seq(T) /\ Len(p) < Len(key) /\ Len(p) \in Nat /\ Len(key) \in Nat
      /\ \A k \in d.nodes : ~IsPrefix(key, k)
  BY LeafFacts
<1>2. /\ key \in Seq(T) /\ IsPrefix(p, key) /\ p \in d.nodes \cup {<< >>} /\ p # key
      /\ \A q \in DOMAIN d.kv : IsPrefix(q, key) => Len(q) <= Len(p)
  BY DEF LeafAt
<1>3. Shape(d, T) /\ Shape(e, T) /\ e.nodes = d.nodes \cup {key}
  BY LeafTree DEF Tree, LeafOf
<1>4. Parent(e, key) = p
  <2>1. \A k \in e.nodes : IsPrefix(k, key) /\ k # key => Len(k) <= Len(p)
    BY <1>2, <1>3 DEF Shape
  <2>. QED
    BY <2>1, <1>1, <1>2, <1>3, ParentUnique
<1>5. ASSUME NEW m \in d.nodes PROVE Parent(e, m) = Parent(d, m)
  <2>. DEFINE x == Parent(d, m)
  <2>1. m \in Seq(T) /\ Len(m) > 0
    BY <1>3 DEF Shape
  <2>2. /\ x \in Seq(T) /\ IsPrefix(x, m) /\ Len(x) < Len(m) /\ x \in d.nodes \cup {<< >>}
        /\ Len(x) \in Nat /\ Len(m) \in Nat
        /\ \A k \in d.nodes : IsPrefix(k, m) /\ k # m => Len(k) <= Len(x)
    BY <1>3, <2>1, ParentMeaning
  <2>. HIDE DEF x
  <2>3. x \in e.nodes \cup {<< >>} /\ x # m /\ \A k \in e.nodes : IsPrefix(k, m) /\ k # m => Len(k) <= Len(x)
    BY <1>1, <1>3, <2>2
  <2>4. Parent(e, m) = x
    BY <1>3, <2>1, <2>2, <2>3, ParentUnique
  <2>. QED
    BY <2>4 DEF x
<1>. QED
  BY <1>4, <1>5 DEF NodeLen

\* Sets of old nodes keep their sizes, and have k tokens more with key.
Grown(d, e, key, k) == \A S \in SUBSET d.nodes : /\ Tokens(e, S) = Tokens(d, S) /\ Tokens(d, S) \in Int
                                                  /\ Tokens(e, S \cup {key}) = Tokens(d, S) + k

\* The leaf is the only change of the sizes.
LEMMA LeafTokens ==
    ASSUME NEW T, NEW d, Tree(d, T), NEW key, NEW p, LeafAt(d, key, p, T), NEW n \in Int,
           NEW e, LeafOf(d, e, key, p, n)
    PROVE  Grown(d, e, key, Len(key) - Len(p))
<1>1. /\ \A m \in d.nodes : NodeLen(e, m) = NodeLen(d, m)
      /\ NodeLen(e, key) = Len(key) - Len(p)
  BY LeafLens
<1>2. Shape(d, T) /\ Shape(e, T) /\ e.nodes = d.nodes \cup {key}
  BY LeafTree DEF Tree, LeafOf
<1>3. key \notin d.nodes
  BY LeafFacts, <1>2 DEF Shape
<1>4. SUFFICES ASSUME NEW S \in SUBSET d.nodes
               PROVE  /\ Tokens(e, S) = Tokens(d, S) /\ Tokens(d, S) \in Int
                      /\ Tokens(e, S \cup {key}) = Tokens(d, S) + (Len(key) - Len(p))
  BY DEF Grown
<1>5. Tokens(e, S) = Tokens(d, S)
  <2>1. \A m \in S : NodeLen(e, m) = NodeLen(d, m)
    BY <1>1
  <2>. QED
    BY <2>1, TokensSame
<1>6. Tokens(d, S) \in Int
  BY <1>2, TokensRemove
<1>7. S \cup {key} \in SUBSET e.nodes /\ key \in S \cup {key} /\ (S \cup {key}) \ {key} = S
  BY <1>2, <1>3
<1>8. Tokens(e, S \cup {key}) = NodeLen(e, key) + Tokens(e, S)
  BY <1>2, <1>7, TokensRemove
<1>9. Len(key) \in Int /\ Len(p) \in Int
  BY LeafFacts
<1>. QED
  BY <1>1, <1>5, <1>6, <1>8, <1>9

\* What insert does when the key is not cached as a whole.
LEMMA InsertMeaning ==
    ASSUME NEW T, NEW c, Shape(c, T), NEW key \in Seq(T), NEW ps, CachedPrefix(c, key) # key
    PROVE  LET p == CachedPrefix(c, key)
               d == SplitNode(c, p)
               e == Insert(c, key, ps)
           IN  DOMAIN d = DOMAIN EmptyCache =>
                 /\ LeafOf(d, e, key, p, Len(key) - Len(p))
                 /\ e.kv = [q \in (DOMAIN d.kv) \cup Added(key, p) |->
                              IF q \in Added(key, p) THEN ps[PageCount(Len(q))] ELSE d.kv[q]]
<1>. DEFINE p == CachedPrefix(c, key)
            d == SplitNode(c, p)
            e == Insert(c, key, ps)
<1>1. e = [d EXCEPT !.nodes = @ \cup {key},
                    !.kv = [q \in (DOMAIN d.kv) \cup Added(key, p) |->
                                IF q \in Added(key, p) THEN ps[PageCount(Len(q))] ELSE d.kv[q]],
                    !.lock = [m \in d.nodes \cup {key} |-> IF m = key THEN 0 ELSE d.lock[m]],
                    !.evictable = @ + (Len(key) - Len(p))]
  BY Zenon DEF Insert, InsertLeaf, Added
<1>. HIDE DEF p, d, e
<1>2. SUFFICES ASSUME DOMAIN d = DOMAIN EmptyCache
               PROVE  /\ LeafOf(d, e, key, p, Len(key) - Len(p))
                      /\ e.kv = [q \in (DOMAIN d.kv) \cup Added(key, p) |->
                                   IF q \in Added(key, p) THEN ps[PageCount(Len(q))] ELSE d.kv[q]]
  BY DEF p, d, e
<1>. QED
  BY <1>1, <1>2 DEF LeafOf, EmptyCache

\* insert keeps the locks and the counters exact, and ends at a node.
LEMMA InsertKeeps ==
    ASSUME NEW T, NEW c, NEW nd, CacheInv(c, nd, T), NEW key \in Seq(T), Paged(key), NEW ps
    PROVE  LET e == Insert(c, key, ps)
           IN  /\ CacheInv(e, nd, T) /\ key \in e.nodes \cup {<< >>}
               /\ c.nodes \subseteq e.nodes /\ e.free = c.free
<1>. DEFINE p == CachedPrefix(c, key)
            d == SplitNode(c, p)
            e == Insert(c, key, ps)
            n == Len(key) - Len(p)
<1>1. /\ p \in Seq(T) /\ IsPrefix(p, key) /\ p \in DOMAIN c.kv \cup {<< >>}
      /\ \A q \in DOMAIN c.kv : IsPrefix(q, key) => IsPrefix(q, p) /\ Len(q) <= Len(p)
  BY CachedPrefixMeaning DEF CacheInv, Tree
<1>2. /\ CacheInv(d, nd, T) /\ p \in d.nodes \cup {<< >>}
      /\ c.nodes \subseteq d.nodes
      /\ d.kv = c.kv /\ d.free = c.free
  BY <1>1, SplitKeeps
<1>3. CASE p = key
  <2>1. e = d
    BY <1>3 DEF Insert, InsertLeaf
  <2>. QED
    BY <2>1, <1>2, <1>3
<1>4. CASE p # key
  <2>1. Tree(d, T) /\ Shape(d, T) /\ DOMAIN d = DOMAIN EmptyCache
    BY <1>2 DEF CacheInv, Tree, Shape
  <2>2. LeafOf(d, e, key, p, n)
    BY <1>4, <2>1, InsertMeaning DEF CacheInv, Tree
  <2>. HIDE DEF p, d, e
  <2>3. LeafAt(d, key, p, T)
    BY <1>1, <1>2, <1>4 DEF LeafAt
  <2>4. n \in Int
    BY <1>1
  <2>. HIDE DEF n
  <2>5. Tree(e, T)
    BY <2>1, <2>2, <2>3, <2>4, LeafTree
  <2>6. /\ key \notin DOMAIN d.kv /\ \A k \in d.nodes : ~IsPrefix(key, k)
        /\ Len(key) \in Nat /\ Len(p) \in Nat /\ Len(p) < Len(key)
    BY <2>1, <2>3, LeafFacts
  <2>7. /\ e.nodes = d.nodes \cup {key} /\ e.free = d.free
        /\ e.evictable = d.evictable + n /\ e.protected = d.protected
        /\ e.lock = [m \in d.nodes \cup {key} |-> IF m = key THEN 0 ELSE d.lock[m]]
    BY <2>2 DEF LeafOf
  <2>8. Anchored(d, nd) /\ Exact(d, nd) /\ CountersExact(d) /\ IsFiniteSet(DOMAIN nd)
    BY <1>2 DEF CacheInv
  <2>9. Anchored(e, nd)
    BY <2>7, <2>8 DEF Anchored
  <2>10. Below(key, nd) = {}
    <3>1. ASSUME NEW r \in DOMAIN nd PROVE ~IsPrefix(key, nd[r])
      <4>1. CASE nd[r] = << >>
        BY <4>1, <2>6 DEF IsPrefix
      <4>2. CASE nd[r] \in d.nodes
        BY <4>2, <2>6
      <4>. QED
        BY <4>1, <4>2, <2>8 DEF Anchored
    <3>. QED
      BY <3>1 DEF Below
  <2>11. Exact(e, nd)
    <3>1. key \notin d.nodes
      BY <2>1, <2>6 DEF Shape
    <3>2. e.lock \in [e.nodes -> Nat]
      BY <2>7, <2>8 DEF Exact
    <3>3. Cardinality(Below(key, nd)) = 0
      BY <2>10, FS_EmptySet
    <3>4. \A m \in e.nodes : e.lock[m] = Cardinality(Below(m, nd))
      BY <2>7, <2>8, <3>1, <3>3 DEF Exact
    <3>. QED
      BY <3>2, <3>4 DEF Exact
  <2>12. Grown(d, e, key, Len(key) - Len(p))
    BY <2>1, <2>2, <2>3, <2>4, LeafTokens
  <2>13. CountersExact(e)
    <3>. DEFINE Z == {m \in d.nodes : d.lock[m] = 0}
                P == {m \in d.nodes : d.lock[m] > 0}
                Ze == {m \in e.nodes : e.lock[m] = 0}
                Pe == {m \in e.nodes : e.lock[m] > 0}
    <3>1. d.evictable = Tokens(d, Z) /\ d.protected = Tokens(d, P)
      BY <2>8 DEF CountersExact
    <3>2. key \notin d.nodes
      BY <2>1, <2>6 DEF Shape
    <3>3. (\A m \in d.nodes : e.lock[m] = d.lock[m]) /\ e.lock[key] = 0
      BY <2>7, <3>2
    <3>4. Ze = Z \cup {key}
      BY <2>7, <3>2, <3>3
    <3>5. Pe = P
      BY <2>7, <3>2, <3>3
    <3>6. Z \in SUBSET d.nodes /\ P \in SUBSET d.nodes
      OBVIOUS
    <3>. HIDE DEF Z, P, Ze, Pe
    <3>7. e.evictable = Tokens(e, Ze) /\ e.protected = Tokens(e, Pe)
      BY <2>7, <2>12, <3>1, <3>4, <3>5, <3>6 DEF n, Grown
    <3>. QED
      BY <3>7 DEF CountersExact, Ze, Pe
  <2>14. CacheInv(e, nd, T)
    BY <2>5, <2>8, <2>9, <2>11, <2>13 DEF CacheInv
  <2>. QED
    BY <1>2, <2>7, <2>14 DEF e
<1>. QED
  BY <1>3, <1>4

---------------------------------------------------------------------------
(* Pages and locks. *)

\* Sizes depend on the nodes only.
LEMMA SameNodes ==
    ASSUME NEW c, NEW d, d.nodes = c.nodes
    PROVE  \A S : Tokens(d, S) = Tokens(c, S)
<1>1. \A n : NodeLen(d, n) = NodeLen(c, n)
  BY DEF NodeLen, Parent
<1>. QED
  BY <1>1, TokensSame

\* The free list and the counters are no part of the tree.
LEMMA SameTree ==
    ASSUME NEW T, NEW c, Tree(c, T), NEW d, DOMAIN d = DOMAIN EmptyCache,
           d.nodes = c.nodes, d.kv = c.kv, d.free \in [Pages -> Int], d.evictable \in Int, d.protected \in Int
    PROVE  Tree(d, T)
<1>1. Shape(d, T)
  BY DEF Tree, Shape
<1>2. Closed(d, T)
  BY DEF Tree, Closed
<1>3. Branching(d)
  BY DEF Tree, Branching, Owns
<1>. QED
  BY <1>1, <1>2, <1>3 DEF Tree

\* What happens to the free list only is nothing to the tree.
LEMMA PagesKeep ==
    ASSUME NEW T, NEW c, NEW nd, CacheInv(c, nd, T), NEW d, DOMAIN d = DOMAIN EmptyCache,
           d.nodes = c.nodes, d.kv = c.kv, d.lock = c.lock, d.free \in [Pages -> Int],
           d.evictable = c.evictable, d.protected = c.protected
    PROVE  CacheInv(d, nd, T)
<1>1. Tree(c, T) /\ c.evictable \in Int /\ c.protected \in Int
  BY DEF CacheInv, Tree, Shape
<1>2. Tree(d, T)
  BY <1>1, SameTree
<1>3. Anchored(d, nd) /\ Exact(d, nd)
  BY DEF CacheInv, Anchored, Exact
<1>4. \A S : Tokens(d, S) = Tokens(c, S)
  BY SameNodes
<1>5. CountersExact(d)
  <2>1. CountersExact(c)
    BY DEF CacheInv
  <2>. QED
    BY <1>4, <2>1 DEF CountersExact
<1>. QED
  BY <1>2, <1>3, <1>5 DEF CacheInv

\* Freeing pages leaves the tree alone.
LEMMA FreeKeeps ==
    ASSUME NEW T, NEW c, NEW nd, CacheInv(c, nd, T), NEW ps
    PROVE  LET d == Free(c, ps)
           IN  /\ CacheInv(d, nd, T) /\ d.nodes = c.nodes /\ d.kv = c.kv
               /\ d.free = [p \in Pages |-> IF p \in ps THEN c.free[p] + 1 ELSE c.free[p]]
<1>. DEFINE d == Free(c, ps)
            f == [p \in Pages |-> IF p \in ps THEN c.free[p] + 1 ELSE c.free[p]]
<1>1. DOMAIN c = DOMAIN EmptyCache /\ c.free \in [Pages -> Int]
  BY DEF CacheInv, Tree, Shape
<1>2. d = [c EXCEPT !.free = f]
  BY <1>1 DEF Free, EmptyCache
<1>3. f \in [Pages -> Int]
  BY <1>1
<1>. HIDE DEF d, f
<1>4. /\ DOMAIN d = DOMAIN EmptyCache /\ d.nodes = c.nodes /\ d.kv = c.kv /\ d.lock = c.lock
      /\ d.evictable = c.evictable /\ d.protected = c.protected /\ d.free = f
  BY <1>1, <1>2 DEF EmptyCache
<1>5. CacheInv(d, nd, T)
  BY <1>3, <1>4, PagesKeep
<1>. QED
  BY <1>4, <1>5 DEF d, f

\* Allocating pages leaves the tree alone.
LEMMA TakeKeeps ==
    ASSUME NEW T, NEW c, NEW nd, CacheInv(c, nd, T), NEW ps
    PROVE  LET d == Take(c, ps)
           IN  /\ CacheInv(d, nd, T) /\ d.nodes = c.nodes /\ d.kv = c.kv
               /\ d.free = [p \in Pages |-> IF p \in ps THEN c.free[p] - 1 ELSE c.free[p]]
<1>. DEFINE d == Take(c, ps)
            f == [p \in Pages |-> IF p \in ps THEN c.free[p] - 1 ELSE c.free[p]]
<1>1. DOMAIN c = DOMAIN EmptyCache /\ c.free \in [Pages -> Int]
  BY DEF CacheInv, Tree, Shape
<1>2. d = [c EXCEPT !.free = f]
  BY <1>1 DEF Take, EmptyCache
<1>3. f \in [Pages -> Int]
  BY <1>1
<1>. HIDE DEF d, f
<1>4. /\ DOMAIN d = DOMAIN EmptyCache /\ d.nodes = c.nodes /\ d.kv = c.kv /\ d.lock = c.lock
      /\ d.evictable = c.evictable /\ d.protected = c.protected /\ d.free = f
  BY <1>1, <1>2 DEF EmptyCache
<1>5. CacheInv(d, nd, T)
  BY <1>3, <1>4, PagesKeep
<1>. QED
  BY <1>4, <1>5 DEF d, f

\* The holders nd2 are those of nd and r, which holds n.
Joins(nd, nd2, r, n) ==
  /\ r \notin DOMAIN nd /\ DOMAIN nd2 = DOMAIN nd \cup {r}
  /\ nd2[r] = n /\ \A x \in DOMAIN nd : nd2[x] = nd[x]

\* A holder of n is one holder more at the nodes on the path to n, and at no
\* other.
LEMMA JoinBelow ==
    ASSUME NEW nd, NEW nd2, NEW r, NEW n, Joins(nd, nd2, r, n), IsFiniteSet(DOMAIN nd), NEW m
    PROVE  /\ IsFiniteSet(DOMAIN nd2) /\ IsFiniteSet(Below(m, nd)) /\ IsFiniteSet(Below(m, nd2))
           /\ Cardinality(Below(m, nd)) \in Nat
           /\ Cardinality(Below(m, nd2)) = Cardinality(Below(m, nd)) + (IF IsPrefix(m, n) THEN 1 ELSE 0)
<1>1. IsFiniteSet(DOMAIN nd2)
  BY FS_AddElement DEF Joins
<1>2. IsFiniteSet(Below(m, nd))
  <2>1. Below(m, nd) \in SUBSET DOMAIN nd
    BY DEF Below
  <2>. QED
    BY <2>1, FS_Subset
<1>3. Cardinality(Below(m, nd)) \in Nat
  BY <1>2, FS_CardinalityType
<1>4. CASE IsPrefix(m, n)
  <2>1. Below(m, nd2) = Below(m, nd) \cup {r} /\ r \notin Below(m, nd)
    BY <1>4 DEF Below, Joins
  <2>. QED
    BY <1>1, <1>2, <1>3, <1>4, <2>1, FS_AddElement
<1>5. CASE ~IsPrefix(m, n)
  <2>1. Below(m, nd2) = Below(m, nd)
    BY <1>5 DEF Below, Joins
  <2>. QED
    BY <1>1, <1>2, <1>3, <1>5, <2>1
<1>. QED
  BY <1>4, <1>5

\* A is a part of Z, apart from P.
Part(c, Z, P, A) == /\ Z \subseteq c.nodes /\ P \subseteq c.nodes /\ Z \cap P = {} /\ A \subseteq Z

\* The tokens of Z and P, when those of A go from one to the other.
Moved(c, Z, P, A) == /\ Tokens(c, A) \in Int /\ Tokens(c, Z) \in Int /\ Tokens(c, P) \in Int
                     /\ Tokens(c, Z \ A) = Tokens(c, Z) - Tokens(c, A)
                     /\ Tokens(c, P \cup A) = Tokens(c, P) + Tokens(c, A)

\* Locking moves tokens between the two counters: those of A, a part of Z.
LEMMA TokensMove ==
    ASSUME NEW T, NEW c, Shape(c, T), NEW Z, NEW P, NEW A, Part(c, Z, P, A)
    PROVE  Moved(c, Z, P, A)
<1>. DEFINE Z2 == Z \ A
<1>1. /\ A \in SUBSET c.nodes /\ Z2 \in SUBSET c.nodes /\ Z2 \cap A = {} /\ P \cap A = {}
      /\ Z2 \cup A = Z /\ Z \in SUBSET c.nodes /\ P \in SUBSET c.nodes
  BY DEF Part
<1>. HIDE DEF Z2
<1>2. Tokens(c, A) \in Int /\ Tokens(c, Z) \in Int /\ Tokens(c, P) \in Int /\ Tokens(c, Z2) \in Int
  BY <1>1, TokensRemove
<1>3. Tokens(c, Z2 \cup A) = Tokens(c, Z2) + Tokens(c, A)
  BY <1>1, TokensUnion
<1>4. Tokens(c, P \cup A) = Tokens(c, P) + Tokens(c, A)
  BY <1>1, TokensUnion
<1>. QED
  BY <1>1, <1>2, <1>3, <1>4 DEF Z2, Moved

\* inc_lock_ref for a new holder keeps the locks and the counters exact: the
\* nodes that had no holder become protected.
LEMMA IncKeeps ==
    ASSUME NEW T, NEW c, NEW nd, CacheInv(c, nd, T), NEW nd2, NEW r, NEW n \in c.nodes \cup {<< >>},
           Joins(nd, nd2, r, n)
    PROVE  LET d == IncLockRef(c, n)
           IN  CacheInv(d, nd2, T) /\ d.nodes = c.nodes /\ d.kv = c.kv /\ d.free = c.free
<1>. DEFINE d == IncLockRef(c, n)
            Z == {m \in c.nodes : c.lock[m] = 0}
            P == {m \in c.nodes : c.lock[m] > 0}
            A == {m \in Path(c, n) : c.lock[m] = 0}
            Z2 == {m \in d.nodes : d.lock[m] = 0}
            P2 == {m \in d.nodes : d.lock[m] > 0}
            l == [m \in c.nodes |-> IF m \in Path(c, n) THEN c.lock[m] + 1 ELSE c.lock[m]]
<1>1. /\ Tree(c, T) /\ Anchored(c, nd) /\ Exact(c, nd) /\ CountersExact(c) /\ IsFiniteSet(DOMAIN nd)
      /\ Shape(c, T)
  BY DEF CacheInv, Tree
<1>2. DOMAIN c = DOMAIN EmptyCache /\ c.free \in [Pages -> Int] /\ c.evictable \in Int /\ c.protected \in Int
  BY <1>1 DEF Shape
<1>3. d = [c EXCEPT !.lock = l, !.evictable = @ - Tokens(c, A), !.protected = @ + Tokens(c, A)]
  BY <1>2 DEF IncLockRef, PathTokens, EmptyCache
<1>. HIDE DEF d, l, A
<1>4. /\ DOMAIN d = DOMAIN EmptyCache /\ d.nodes = c.nodes /\ d.kv = c.kv /\ d.free = c.free /\ d.lock = l
      /\ d.evictable = c.evictable - Tokens(c, A) /\ d.protected = c.protected + Tokens(c, A)
  BY <1>2, <1>3 DEF EmptyCache
<1>5. \A m \in c.nodes : /\ c.lock[m] \in Nat /\ (m \in Path(c, n) <=> IsPrefix(m, n))
                         /\ l[m] = IF IsPrefix(m, n) THEN c.lock[m] + 1 ELSE c.lock[m]
  BY <1>1 DEF Path, l, Exact
<1>6. Exact(d, nd2)
  <2>1. ASSUME NEW m \in c.nodes
        PROVE  l[m] = Cardinality(Below(m, nd2)) /\ l[m] \in Nat
    <3>1. c.lock[m] = Cardinality(Below(m, nd))
      BY <1>1 DEF Exact
    <3>2. Cardinality(Below(m, nd2)) = Cardinality(Below(m, nd)) + (IF IsPrefix(m, n) THEN 1 ELSE 0)
      BY <1>1, JoinBelow
    <3>. QED
      BY <1>5, <3>1, <3>2
  <2>2. l \in [c.nodes -> Nat]
    BY <2>1 DEF l
  <2>. QED
    BY <1>4, <2>1, <2>2 DEF Exact
<1>7. Anchored(d, nd2)
  BY <1>1, <1>4 DEF Anchored, Joins
<1>8. IsFiniteSet(DOMAIN nd2)
  BY <1>1, JoinBelow
<1>9. A \in SUBSET Z /\ Z \in SUBSET c.nodes /\ P \in SUBSET c.nodes /\ Z \cap P = {}
  BY DEF A, Path
<1>10. Z2 = Z \ A
  <2>1. \A m : m \in Z2 <=> m \in c.nodes /\ l[m] = 0
    BY <1>4
  <2>2. \A m \in c.nodes : m \in A <=> IsPrefix(m, n) /\ c.lock[m] = 0
    BY DEF A, Path
  <2>3. \A m \in c.nodes : l[m] = 0 <=> c.lock[m] = 0 /\ ~IsPrefix(m, n)
    BY <1>5
  <2>4. \A m : m \in Z2 <=> m \in Z \ A
    BY <2>1, <2>2, <2>3
  <2>. HIDE DEF Z2, Z
  <2>. QED
    BY <2>4
<1>11. P2 = P \cup A
  <2>1. \A m : m \in P2 <=> m \in c.nodes /\ l[m] > 0
    BY <1>4
  <2>2. \A m : m \in A <=> m \in c.nodes /\ IsPrefix(m, n) /\ c.lock[m] = 0
    BY DEF A, Path
  <2>3. \A m \in c.nodes : l[m] > 0 <=> c.lock[m] > 0 \/ (c.lock[m] = 0 /\ IsPrefix(m, n))
    BY <1>5
  <2>4. \A m : m \in P2 <=> m \in P \cup A
    BY <2>1, <2>2, <2>3
  <2>. HIDE DEF P2, P
  <2>. QED
    BY <2>4
<1>12. c.evictable = Tokens(c, Z) /\ c.protected = Tokens(c, P)
  BY <1>1 DEF CountersExact
<1>13. Tree(d, T)
  <2>1. Tokens(c, A) \in Int
    <3>1. A \in SUBSET c.nodes
      BY <1>9
    <3>. QED
      BY <1>1, <3>1, TokensRemove
  <2>2. d.evictable \in Int /\ d.protected \in Int
    BY <1>2, <1>4, <2>1
  <2>. QED
    BY <1>1, <1>2, <1>4, <2>2, SameTree
<1>14. CountersExact(d)
  <2>1. \A S : Tokens(d, S) = Tokens(c, S)
    BY <1>4, SameNodes
  <2>. HIDE DEF Z, P, Z2, P2
  <2>2. Tokens(c, Z2) = Tokens(c, Z) - Tokens(c, A) /\ Tokens(c, P2) = Tokens(c, P) + Tokens(c, A)
    <3>1. Shape(c, T) /\ Part(c, Z, P, A)
      BY <1>1, <1>9 DEF Part
    <3>2. Moved(c, Z, P, A)
      BY <3>1, TokensMove
    <3>. QED
      BY <3>2, <1>10, <1>11 DEF Moved
  <2>3. d.evictable = Tokens(d, Z2) /\ d.protected = Tokens(d, P2)
    BY <1>4, <1>12, <2>1, <2>2
  <2>. QED
    BY <2>3 DEF CountersExact, Z2, P2
<1>15. CacheInv(d, nd2, T)
  BY <1>6, <1>7, <1>8, <1>13, <1>14 DEF CacheInv
<1>. QED
  BY <1>4, <1>15 DEF d

\* dec_lock_ref for a holder that leaves keeps the locks and the counters
\* exact: the nodes that lose their last holder become evictable.
LEMMA DecKeeps ==
    ASSUME NEW T, NEW c, NEW nd, CacheInv(c, nd, T), NEW nd2, NEW r, NEW n, Joins(nd2, nd, r, n)
    PROVE  LET d == DecLockRef(c, n)
           IN  /\ CacheInv(d, nd2, T) /\ d.nodes = c.nodes /\ d.kv = c.kv /\ d.free = c.free
               /\ n \in c.nodes \cup {<< >>}
<1>. DEFINE d == DecLockRef(c, n)
            Z == {m \in c.nodes : c.lock[m] = 0}
            P == {m \in c.nodes : c.lock[m] > 0}
            A == {m \in Path(c, n) : c.lock[m] = 1}
            Z2 == {m \in d.nodes : d.lock[m] = 0}
            P2 == {m \in d.nodes : d.lock[m] > 0}
            l == [m \in c.nodes |-> IF m \in Path(c, n) THEN c.lock[m] - 1 ELSE c.lock[m]]
<1>1. /\ Tree(c, T) /\ Anchored(c, nd) /\ Exact(c, nd) /\ CountersExact(c) /\ IsFiniteSet(DOMAIN nd)
      /\ Shape(c, T)
  BY DEF CacheInv, Tree
<1>a. n \in c.nodes \cup {<< >>}
  BY <1>1 DEF Anchored, Joins
<1>2. DOMAIN c = DOMAIN EmptyCache /\ c.free \in [Pages -> Int] /\ c.evictable \in Int /\ c.protected \in Int
  BY <1>1 DEF Shape
<1>3. d = [c EXCEPT !.lock = l, !.evictable = @ + Tokens(c, A), !.protected = @ - Tokens(c, A)]
  BY <1>2 DEF DecLockRef, PathTokens, EmptyCache
<1>. HIDE DEF d, l, A
<1>4. /\ DOMAIN d = DOMAIN EmptyCache /\ d.nodes = c.nodes /\ d.kv = c.kv /\ d.free = c.free /\ d.lock = l
      /\ d.evictable = c.evictable + Tokens(c, A) /\ d.protected = c.protected - Tokens(c, A)
  BY <1>2, <1>3 DEF EmptyCache
<1>8. IsFiniteSet(DOMAIN nd2)
  <2>1. DOMAIN nd2 \in SUBSET DOMAIN nd
    BY DEF Joins
  <2>. QED
    BY <1>1, <2>1, FS_Subset
<1>5. \A m \in c.nodes : /\ c.lock[m] \in Nat /\ (m \in Path(c, n) <=> IsPrefix(m, n))
                         /\ l[m] = IF IsPrefix(m, n) THEN c.lock[m] - 1 ELSE c.lock[m]
  BY <1>1 DEF Path, l, Exact
<1>6. ASSUME NEW m \in c.nodes
      PROVE  l[m] = Cardinality(Below(m, nd2)) /\ l[m] \in Nat
  <2>1. c.lock[m] = Cardinality(Below(m, nd))
    BY <1>1 DEF Exact
  <2>2. Cardinality(Below(m, nd)) = Cardinality(Below(m, nd2)) + (IF IsPrefix(m, n) THEN 1 ELSE 0)
        /\ Cardinality(Below(m, nd2)) \in Nat
    BY <1>8, JoinBelow
  <2>. QED
    BY <1>5, <2>1, <2>2
<1>b. Exact(d, nd2)
  <2>2. l \in [c.nodes -> Nat]
    BY <1>6 DEF l
  <2>. QED
    BY <1>4, <1>6, <2>2 DEF Exact
<1>7. Anchored(d, nd2)
  BY <1>1, <1>4 DEF Anchored, Joins
<1>9. A \in SUBSET P /\ Z \in SUBSET c.nodes /\ P \in SUBSET c.nodes /\ P \cap Z = {}
  BY DEF A, Path
<1>10. P2 = P \ A
  <2>1. \A m : m \in P2 <=> m \in c.nodes /\ l[m] > 0
    BY <1>4
  <2>2. \A m \in c.nodes : m \in A <=> IsPrefix(m, n) /\ c.lock[m] = 1
    BY DEF A, Path
  <2>3. \A m \in c.nodes : l[m] > 0 <=> c.lock[m] > 0 /\ ~(c.lock[m] = 1 /\ IsPrefix(m, n))
    BY <1>5
  <2>4. \A m : m \in P2 <=> m \in P \ A
    BY <2>1, <2>2, <2>3
  <2>. HIDE DEF P2, P
  <2>. QED
    BY <2>4
<1>11. Z2 = Z \cup A
  <2>1. \A m : m \in Z2 <=> m \in c.nodes /\ l[m] = 0
    BY <1>4
  <2>2. \A m : m \in A <=> m \in c.nodes /\ IsPrefix(m, n) /\ c.lock[m] = 1
    BY DEF A, Path
  <2>a. \A m \in c.nodes : l[m] \in Nat
    BY <1>6
  <2>3. \A m \in c.nodes : l[m] = 0 <=> c.lock[m] = 0 \/ (c.lock[m] = 1 /\ IsPrefix(m, n))
    BY <1>5, <2>a
  <2>4. \A m : m \in Z2 <=> m \in Z \cup A
    BY <2>1, <2>2, <2>3
  <2>. HIDE DEF Z2, Z
  <2>. QED
    BY <2>4
<1>12. c.evictable = Tokens(c, Z) /\ c.protected = Tokens(c, P)
  BY <1>1 DEF CountersExact
<1>13. Tree(d, T)
  <2>1. Tokens(c, A) \in Int
    <3>1. A \in SUBSET c.nodes
      BY <1>9
    <3>. QED
      BY <1>1, <3>1, TokensRemove
  <2>2. d.evictable \in Int /\ d.protected \in Int
    BY <1>2, <1>4, <2>1
  <2>. QED
    BY <1>1, <1>2, <1>4, <2>2, SameTree
<1>14. CountersExact(d)
  <2>1. \A S : Tokens(d, S) = Tokens(c, S)
    BY <1>4, SameNodes
  <2>. HIDE DEF Z, P, Z2, P2
  <2>2. Tokens(c, P2) = Tokens(c, P) - Tokens(c, A) /\ Tokens(c, Z2) = Tokens(c, Z) + Tokens(c, A)
    <3>1. Shape(c, T) /\ Part(c, P, Z, A)
      BY <1>1, <1>9 DEF Part
    <3>2. Moved(c, P, Z, A)
      BY <3>1, TokensMove
    <3>. QED
      BY <3>2, <1>10, <1>11 DEF Moved
  <2>3. d.evictable = Tokens(d, Z2) /\ d.protected = Tokens(d, P2)
    BY <1>4, <1>12, <2>1, <2>2
  <2>. QED
    BY <2>3 DEF CountersExact, Z2, P2
<1>15. CacheInv(d, nd2, T)
  BY <1>b, <1>7, <1>8, <1>13, <1>14 DEF CacheInv
<1>. QED
  BY <1>4, <1>15, <1>a DEF d

---------------------------------------------------------------------------
(* Eviction. *)

\* The cached prefixes that are kept in the nodes ns.
Gone(c, ns) == {p \in DOMAIN c.kv : \E n \in ns : IsPrefix(p, n) /\ Len(p) > Len(Parent(c, n))}

\* What leaves with ns is what the nodes of ns own.
LEMMA GoneOwned ==
    ASSUME NEW T, NEW c, Tree(c, T), NEW ns \in SUBSET c.nodes, NEW p \in DOMAIN c.kv, NEW m, Owns(c, m, p)
    PROVE  p \in Gone(c, ns) <=> m \in ns
<1>1. Shape(c, T) /\ m \in c.nodes /\ IsPrefix(p, m) /\ \A k \in c.nodes : IsPrefix(p, k) => IsPrefix(m, k)
  BY DEF Tree, Owns
<1>2. p \in Seq(T) /\ Len(p) > 0 /\ Len(p) \in Nat /\ \A k \in c.nodes : k \in Seq(T) /\ Len(k) > 0 /\ Len(k) \in Nat
  BY <1>1 DEF Shape
<1>3. ASSUME m \in ns PROVE p \in Gone(c, ns)
  <2>. DEFINE k == Parent(c, m)
  <2>1. /\ k \in Seq(T) /\ IsPrefix(k, m) /\ Len(k) < Len(m) /\ k \in c.nodes \cup {<< >>} /\ Len(k) \in Nat
    BY <1>1, <1>2, ParentMeaning
  <2>. HIDE DEF k
  <2>2. SUFFICES ASSUME Len(p) <= Len(k) PROVE FALSE
    BY <1>1, <1>2, <1>3, <2>1 DEF Gone, k
  <2>3. IsPrefix(p, k)
    BY <1>1, <1>2, <2>1, <2>2, PrefixOrder
  <2>4. k \in c.nodes
    BY <1>2, <2>1, <2>2
  <2>5. IsPrefix(m, k)
    BY <1>1, <2>3, <2>4
  <2>. QED
    BY <1>1, <1>2, <2>1, <2>5, PrefixOrder
<1>4. ASSUME p \in Gone(c, ns) PROVE m \in ns
  <2>1. PICK n \in ns : IsPrefix(p, n) /\ Len(p) > Len(Parent(c, n))
    BY <1>4 DEF Gone
  <2>2. n \in c.nodes /\ IsPrefix(m, n)
    BY <1>1, <2>1
  <2>3. CASE m # n
    <3>1. Len(m) <= Len(Parent(c, n)) /\ Len(Parent(c, n)) \in Nat
      BY <1>1, <1>2, <2>2, <2>3, ParentMeaning
    <3>2. Len(p) <= Len(m)
      BY <1>1, <1>2, PrefixOrder
    <3>. QED
      BY <1>1, <1>2, <2>1, <3>1, <3>2
  <2>. QED
    BY <2>3
<1>. QED
  BY <1>3, <1>4

\* Nodes that leave with all below them, and that nobody holds.
Loose(c, ns) == /\ ns \subseteq c.nodes /\ \A n \in ns : Descendants(c, n) \subseteq ns
                /\ \A n \in ns : c.lock[n] = 0

\* e is c without the nodes ns, up to the pages that are free.
Without(c, e, ns) ==
  /\ DOMAIN e = DOMAIN EmptyCache /\ e.nodes = c.nodes \ ns
  /\ e.kv = [p \in DOMAIN c.kv \ Gone(c, ns) |-> c.kv[p]]
  /\ e.lock = [m \in c.nodes \ ns |-> c.lock[m]]
  /\ e.evictable = c.evictable - Tokens(c, ns) /\ e.protected = c.protected

\* What evict does to the fields of the cache when the nodes ns leave.
LEMMA RemoveMeaning ==
    ASSUME NEW T, NEW c, Tree(c, T), NEW ns
    PROVE  LET e == RemoveNodes(c, ns)
           IN  /\ Without(c, e, ns)
               /\ e.free = [p \in Pages |-> IF p \in {c.kv[q] : q \in Gone(c, ns)} THEN c.free[p] + 1 ELSE c.free[p]]
<1>. DEFINE e == RemoveNodes(c, ns)
            gone == Gone(c, ns)
            left == c.nodes \ ns
            kv == [p \in (DOMAIN c.kv) \ gone |-> c.kv[p]]
            lock == [m \in left |-> c.lock[m]]
            f == [p \in Pages |-> IF p \in {c.kv[q] : q \in gone} THEN c.free[p] + 1 ELSE c.free[p]]
            t == Tokens(c, ns)
<1>1. DOMAIN c = DOMAIN EmptyCache
  BY DEF Tree, Shape
<1>2. Free(c, {c.kv[p] : p \in gone}) = [c EXCEPT !.free = f]
  BY <1>1 DEF Free, EmptyCache
<1>3. e = [[c EXCEPT !.free = f] EXCEPT !.nodes = left, !.kv = kv, !.lock = lock, !.evictable = @ - t]
  <2>1. e = [Free(c, {c.kv[p] : p \in gone}) EXCEPT !.nodes = left, !.kv = kv, !.lock = lock, !.evictable = @ - t]
    BY DEF RemoveNodes, Gone
  <2>. QED
    BY <1>2, <2>1
<1>. HIDE DEF e, gone, left, kv, lock, f, t
<1>4. /\ DOMAIN e = DOMAIN EmptyCache /\ e.nodes = left /\ e.kv = kv /\ e.lock = lock /\ e.free = f
      /\ e.evictable = c.evictable - t /\ e.protected = c.protected
  BY <1>1, <1>3 DEF EmptyCache
<1>. QED
  BY <1>4 DEF Without, e, gone, left, kv, lock, f, t

\* A tree without nodes that leave with all below them is a tree.
LEMMA RemoveTree ==
    ASSUME NEW T, NEW c, Tree(c, T), NEW ns, Loose(c, ns), NEW e, Without(c, e, ns), e.free \in [Pages -> Int]
    PROVE  Tree(e, T) /\ \A n \in e.nodes : NodeLen(e, n) = NodeLen(c, n)
<1>0. Shape(c, T) /\ Closed(c, T) /\ Branching(c)
  BY DEF Tree
<1>1. /\ \A p \in DOMAIN c.kv : p \in Seq(T) /\ Len(p) > 0 /\ Len(p) \in Nat
      /\ \A n \in c.nodes : n \in DOMAIN c.kv /\ n \in Seq(T) /\ Len(n) > 0 /\ Len(n) \in Nat
  BY <1>0 DEF Shape
<1>2. ns \in SUBSET c.nodes /\ \A n \in ns, m \in c.nodes : IsPrefix(n, m) => m \in ns
  BY DEF Loose, Descendants
<1>3. /\ e.nodes = c.nodes \ ns /\ DOMAIN e.kv = DOMAIN c.kv \ Gone(c, ns)
  BY DEF Without
<1>4. \A n \in c.nodes : Owns(c, n, n)
  BY <1>1, PrefixOrder DEF Owns
<1>5. Shape(e, T)
  <2>1. e.nodes \subseteq DOMAIN e.kv
    BY <1>0, <1>1, <1>2, <1>3, <1>4, GoneOwned
  <2>2. IsFiniteSet(e.nodes)
    <3>1. e.nodes \in SUBSET c.nodes /\ IsFiniteSet(c.nodes)
      BY <1>0, <1>3 DEF Shape
    <3>. QED
      BY <3>1, FS_Subset
  <2>3. e.evictable \in Int /\ e.protected \in Int
    <3>1. Tokens(c, ns) \in Int
      BY <1>0, <1>2, TokensRemove
    <3>. QED
      BY <1>0, <3>1 DEF Without, Shape
  <2>4. DOMAIN e.kv \subseteq Seq(T) /\ \A p \in DOMAIN e.kv : Len(p) > 0 /\ Paged(p)
    BY <1>0, <1>3 DEF Shape
  <2>. QED
    BY <2>1, <2>2, <2>3, <2>4 DEF Shape, Without
<1>6. Closed(e, T)
  <2>1. SUFFICES ASSUME NEW p \in DOMAIN e.kv, NEW q \in Seq(T), IsPrefix(q, p), Len(q) > 0, Paged(q),
                        q \notin DOMAIN e.kv
                 PROVE  FALSE
    BY DEF Closed
  <2>2. p \in DOMAIN c.kv /\ p \notin Gone(c, ns) /\ p \in Seq(T)
    BY <1>1, <1>3
  <2>3. q \in DOMAIN c.kv /\ q \in Gone(c, ns)
    BY <1>0, <1>3, <2>1, <2>2 DEF Closed
  <2>4. PICK m \in c.nodes : Owns(c, m, p)
    BY <1>0, <2>2 DEF Branching
  <2>5. PICK k \in c.nodes : Owns(c, k, q)
    BY <1>0, <2>3 DEF Branching
  <2>6. k \in ns /\ m \notin ns
    BY <1>2, <2>2, <2>3, <2>4, <2>5, GoneOwned
  <2>7. IsPrefix(p, m)
    BY <2>4 DEF Owns
  <2>8. IsPrefix(q, m)
    BY <1>1, <2>1, <2>2, <2>7, PrefixOrder
  <2>9. IsPrefix(k, m)
    BY <2>5, <2>8 DEF Owns
  <2>. QED
    BY <1>2, <2>6, <2>9
<1>7. Branching(e)
  <2>1. SUFFICES ASSUME NEW p \in DOMAIN e.kv PROVE \E m \in e.nodes : Owns(e, m, p)
    BY DEF Branching
  <2>2. p \in DOMAIN c.kv /\ p \notin Gone(c, ns)
    BY <1>3
  <2>3. PICK m \in c.nodes : Owns(c, m, p)
    BY <1>0, <2>2 DEF Branching
  <2>4. m \notin ns
    BY <1>2, <2>2, <2>3, GoneOwned
  <2>. QED
    BY <1>3, <2>3, <2>4 DEF Owns
<1>8. ASSUME NEW n \in e.nodes PROVE NodeLen(e, n) = NodeLen(c, n)
  <2>. DEFINE k == Parent(c, n)
  <2>1. n \in c.nodes /\ n \notin ns /\ n \in Seq(T) /\ Len(n) > 0
    BY <1>1, <1>3
  <2>2. /\ k \in Seq(T) /\ IsPrefix(k, n) /\ Len(k) < Len(n) /\ k \in c.nodes \cup {<< >>} /\ Len(k) \in Nat
        /\ \A j \in c.nodes : IsPrefix(j, n) /\ j # n => Len(j) <= Len(k)
    BY <1>0, <2>1, ParentMeaning
  <2>. HIDE DEF k
  <2>3. k \in e.nodes \cup {<< >>}
    BY <1>2, <1>3, <2>1, <2>2
  <2>4. k # n /\ \A j \in e.nodes : IsPrefix(j, n) /\ j # n => Len(j) <= Len(k)
    BY <1>3, <2>2
  <2>5. Parent(e, n) = k
    BY <1>5, <2>1, <2>2, <2>3, <2>4, ParentUnique
  <2>. QED
    BY <2>5 DEF NodeLen, k
<1>. QED
  BY <1>5, <1>6, <1>7, <1>8 DEF Tree

\* The nodes of holders stay, and the evictable counter loses what has left.
LEMMA RemoveKeeps ==
    ASSUME NEW T, NEW c, NEW nd, CacheInv(c, nd, T), NEW ns, Loose(c, ns)
    PROVE  CacheInv(RemoveNodes(c, ns), nd, T)
<1>. DEFINE e == RemoveNodes(c, ns)
            Z == {m \in c.nodes : c.lock[m] = 0}
            P == {m \in c.nodes : c.lock[m] > 0}
            Z2 == {m \in e.nodes : e.lock[m] = 0}
            P2 == {m \in e.nodes : e.lock[m] > 0}
<1>1. /\ Tree(c, T) /\ Anchored(c, nd) /\ Exact(c, nd) /\ CountersExact(c) /\ IsFiniteSet(DOMAIN nd)
      /\ Shape(c, T)
  BY DEF CacheInv, Tree
<1>2. Without(c, e, ns) /\ e.free \in [Pages -> Int]
  <2>1. c.free \in [Pages -> Int]
    BY <1>1 DEF Shape
  <2>2. /\ Without(c, e, ns)
        /\ e.free = [p \in Pages |-> IF p \in {c.kv[q] : q \in Gone(c, ns)} THEN c.free[p] + 1 ELSE c.free[p]]
    BY <1>1, RemoveMeaning
  <2>. QED
    BY <2>1, <2>2
<1>. HIDE DEF e
<1>3. Tree(e, T) /\ \A n \in e.nodes : NodeLen(e, n) = NodeLen(c, n)
  BY <1>1, <1>2, RemoveTree
<1>4. /\ e.nodes = c.nodes \ ns /\ e.lock = [m \in c.nodes \ ns |-> c.lock[m]]
      /\ e.evictable = c.evictable - Tokens(c, ns) /\ e.protected = c.protected
  BY <1>2 DEF Without
<1>5. /\ \A m \in c.nodes : c.lock[m] \in Nat /\ c.lock[m] = Cardinality(Below(m, nd))
      /\ \A m \in ns : m \in c.nodes /\ c.lock[m] = 0
  BY <1>1 DEF Exact, Loose
<1>6. ASSUME NEW r \in DOMAIN nd PROVE nd[r] \notin ns
  <2>1. SUFFICES ASSUME nd[r] \in ns PROVE FALSE
    OBVIOUS
  <2>2. nd[r] \in Seq(T)
    BY <1>1, <1>5, <2>1 DEF Shape
  <2>3. r \in Below(nd[r], nd)
    BY <2>2, PrefixOrder DEF Below
  <2>4. Cardinality(Below(nd[r], nd)) = 0
    BY <1>5, <2>1
  <2>5. IsFiniteSet(Below(nd[r], nd))
    <3>1. Below(nd[r], nd) \in SUBSET DOMAIN nd
      BY DEF Below
    <3>. QED
      BY <1>1, <3>1, FS_Subset
  <2>. QED
    BY <2>3, <2>4, <2>5, FS_EmptySet
<1>7. Anchored(e, nd)
  BY <1>1, <1>4, <1>6 DEF Anchored
<1>8. Exact(e, nd)
  <2>1. e.lock \in [e.nodes -> Nat]
    BY <1>4, <1>5
  <2>2. \A n \in e.nodes : e.lock[n] = Cardinality(Below(n, nd))
    BY <1>4, <1>5
  <2>. QED
    BY <2>1, <2>2 DEF Exact
<1>9. Part(c, Z, P, ns)
  BY <1>5 DEF Part
<1>10. Z2 = Z \ ns
  BY <1>4
<1>11. P2 = P
  <2>1. \A m : m \in P2 <=> m \in c.nodes /\ m \notin ns /\ c.lock[m] > 0
    BY <1>4
  <2>2. \A m : m \in P2 <=> m \in P
    BY <2>1, <1>5
  <2>. HIDE DEF P2, P
  <2>. QED
    BY <2>2
<1>12. c.evictable = Tokens(c, Z) /\ c.protected = Tokens(c, P)
  BY <1>1 DEF CountersExact
<1>13. Z2 \subseteq e.nodes /\ P2 \subseteq e.nodes
  OBVIOUS
<1>. HIDE DEF Z, P, Z2, P2
<1>14. Moved(c, Z, P, ns)
  BY <1>1, <1>9, TokensMove
<1>15. Tokens(e, Z2) = Tokens(c, Z2) /\ Tokens(e, P2) = Tokens(c, P2)
  <2>1. \A n \in Z2 : NodeLen(e, n) = NodeLen(c, n)
    BY <1>3, <1>13
  <2>2. \A n \in P2 : NodeLen(e, n) = NodeLen(c, n)
    BY <1>3, <1>13
  <2>. QED
    BY <2>1, <2>2, TokensSame
<1>16. e.evictable = Tokens(e, Z2)
  BY <1>4, <1>10, <1>12, <1>14, <1>15 DEF Moved
<1>17. e.protected = Tokens(e, P2)
  BY <1>4, <1>11, <1>12, <1>15
<1>18. CountersExact(e)
  BY <1>16, <1>17 DEF CountersExact, Z2, P2
<1>. QED
  BY <1>1, <1>3, <1>7, <1>8, <1>18 DEF CacheInv, e

\* Whatever the strategy, eviction leaves a cache of the same holders.
LEMMA EvictKeeps ==
    ASSUME NEW T, NEW c, NEW nd, CacheInv(c, nd, T), NEW n, NEW e \in EvictFromTreeCache(c, n)
    PROVE  CacheInv(e, nd, T)
<1>1. CASE e = c
  BY <1>1
<1>2. CASE e # c
  <2>1. e \in Evict(c, n)
    BY <1>2 DEF EvictFromTreeCache
  <2>2. PICK ns \in SUBSET Removable(c) : (\A m \in ns : Descendants(c, m) \subseteq ns) /\ e = RemoveNodes(c, ns)
    BY <2>1 DEF Evict
  <2>3. \A m \in ns : m \in c.nodes /\ \A k \in Descendants(c, m) : c.lock[k] = 0
    BY <2>2 DEF Removable
  <2>4. \A m \in ns : m \in Descendants(c, m)
    <3>1. \A m \in c.nodes : m \in Seq(T)
      BY DEF CacheInv, Tree, Shape
    <3>. QED
      BY <2>3, <3>1, PrefixOrder DEF Descendants
  <2>5. Loose(c, ns)
    BY <2>2, <2>3, <2>4 DEF Loose
  <2>. QED
    BY <2>2, <2>5, RemoveKeeps
<1>. QED
  BY <1>1, <1>2

---------------------------------------------------------------------------
(* The cache of the scheduler. *)

\* The tokens of all requests, and what SubSeq reads behind the end.
Text(r) == Prompt[r] \o [i \in 1 .. MaxNew[r] + 1 |-> Sampled]
Toks == {Text(r)[k] : r \in Reqs, k \in Nat}

\* The node that each holder has locked.
Nodes == [r \in Holders |-> req[r].node]

\* The numbers that keys and budgets are computed from.
Numbers ==
  /\ \A r \in Reqs : req[r].fill \in Int /\ req[r].prefix \in Int /\ req[r].out \in Int
  /\ adder.total \in Int /\ adder.chunk \in Int /\ ratio \in Ratios

\* The inductive invariant of the cache in the scheduler, next to SInv.
CInv == CacheInv(cache, Nodes, Toks) /\ Numbers

\* The first n tokens of a request.
LEMMA IdsMeaning ==
    ASSUME NEW r \in Reqs, NEW n \in Int
    PROVE  Ids(r, n) \in Seq(Toks) /\ Len(Ids(r, n)) = IF n > 0 THEN n ELSE 0
<1>. DEFINE s == Text(r)
            S == ToSet(Prompt[r]) \cup {Sampled}
            k == IF n > 0 THEN n ELSE 0
<1>1. s \in Seq(S)
  <2>1. Prompt[r] \in Seq(S)
    <3>1. Prompt[r] \in Seq(ToSet(Prompt[r]))
      BY SizesAssumption
    <3>. HIDE DEF S
    <3>2. ToSet(Prompt[r]) \subseteq S
      BY DEF S
    <3>. QED
      BY <3>1, <3>2
  <2>2. MaxNew[r] + 1 \in Nat
    BY SizesAssumption
  <2>3. [i \in 1 .. MaxNew[r] + 1 |-> Sampled] \in Seq(S)
    BY <2>2
  <2>. QED
    BY <2>1, <2>3 DEF Text
<1>2. Ids(r, n) = SubSeq(s, 1, n)
  BY DEF Ids, Text
<1>3. SubSeq(s, 1, n) = [i \in 1 .. k |-> s[i]]
  <2>. HIDE DEF s, S
  <2>. QED
    BY <1>1
<1>4. \A i \in 1 .. k : s[i] \in Toks
  <2>1. \A i \in Nat : s[i] \in Toks
    BY DEF Toks
  <2>. HIDE DEF s
  <2>. QED
    BY <2>1
<1>5. k \in Nat
  OBVIOUS
<1>6. Ids(r, n) = [i \in 1 .. k |-> s[i]]
  BY <1>2, <1>3
<1>. HIDE DEF s, k
<1>. QED
  BY <1>4, <1>5, <1>6 DEF k

\* Lengths in whole pages.
LEMMA FloorMeaning ==
    ASSUME NEW n \in Int
    PROVE  FloorPaged(n) \in Int /\ CeilPaged(n) \in Int /\ FloorPaged(n) % PageSize = 0
<1>1. PageSize \in Nat \ {0}
  BY PageSizeAssumption
<1>2. n \div PageSize \in Int /\ (n + PageSize - 1) \div PageSize \in Int
  BY <1>1
<1>3. (n \div PageSize) * PageSize \in Int /\ ((n + PageSize - 1) \div PageSize) * PageSize \in Int
  BY <1>1, <1>2
<1>4. ((n \div PageSize) * PageSize) % PageSize = 0
  BY <1>2, PagesLen
<1>. QED
  BY <1>3, <1>4 DEF FloorPaged, CeilPaged

\* A prefix of a request that is cached has whole pages.
LEMMA PagedIds ==
    ASSUME NEW r \in Reqs, NEW n \in Int
    PROVE  Ids(r, FloorPaged(n)) \in Seq(Toks) /\ Paged(Ids(r, FloorPaged(n)))
<1>1. FloorPaged(n) \in Int /\ FloorPaged(n) % PageSize = 0 /\ 0 % PageSize = 0
  BY FloorMeaning, PageSizeAssumption
<1>. QED
  BY <1>1, IdsMeaning DEF Paged

\* The tokens of the free pages are a number.
LEMMA AvailableType ==
    ASSUME NEW c, c.free \in [Pages -> Int]
    PROVE  AvailableSize(c) \in Int
<1>1. \A p \in Pages : c.free[p] \in Int
  OBVIOUS
<1>2. SumFunctionOnSet(c.free, Pages) \in Int
  BY <1>1, PagesAssumption, SumRemove
<1>. QED
  BY <1>2, PageSizeAssumption DEF AvailableSize

\* A holder leaves, or takes another node.
LEMMA HolderLeaves ==
    ASSUME NEW r \in Holders
    PROVE  /\ Joins([x \in Holders \ {r} |-> req[x].node], Nodes, r, req[r].node)
           /\ \A key : Joins([x \in Holders \ {r} |-> req[x].node], [Nodes EXCEPT ![r] = key], r, key)
  BY DEF Joins, Nodes

\* cache_unfinished_req moves the lock of r to the node of its prefix.
LEMMA UnfinishCache ==
    ASSUME CInv, ReqShape, NEW r \in Holders
    PROVE  LET key == Ids(r, FloorPaged(req[r].fill))
               u == Unfinish(cache, r)
           IN  /\ CacheInv(u.cache, [Nodes EXCEPT ![r] = key], Toks)
               /\ u.req.node = key /\ u.req.fill = req[r].fill /\ u.req.prefix = req[r].fill
               /\ u.req.out = req[r].out
<1>. DEFINE key == Ids(r, FloorPaged(req[r].fill))
            q == req[r]
            c == Insert(cache, key, q.pages)
            ps == PageSlice(q, q.prot, Len(CachedPrefix(cache, key)))
            d == Free(c, ps)
            e == DecLockRef(d, q.node)
            f == IncLockRef(e, key)
            nd == [x \in Holders \ {r} |-> req[x].node]
            nd2 == [Nodes EXCEPT ![r] = key]
<1>1. r \in Reqs /\ q.fill \in Int /\ CacheInv(cache, Nodes, Toks)
  BY DEF CInv, Numbers, Holders
<1>2. key \in Seq(Toks) /\ Paged(key)
  BY <1>1, PagedIds
<1>3. Joins(nd, Nodes, r, q.node) /\ Joins(nd, nd2, r, key)
  BY HolderLeaves
<1>. HIDE DEF key, nd, nd2
<1>4. CacheInv(c, Nodes, Toks) /\ key \in c.nodes \cup {<< >>}
  BY <1>1, <1>2, InsertKeeps
<1>. HIDE DEF c, ps
<1>5. CacheInv(d, Nodes, Toks) /\ d.nodes = c.nodes
  <2>1. CacheInv(Free(c, ps), Nodes, Toks)
    BY <1>4, FreeKeeps
  <2>2. DOMAIN c = DOMAIN EmptyCache
    BY <1>4 DEF CacheInv, Tree, Shape
  <2>3. Free(c, ps).nodes = c.nodes
    BY <2>2 DEF Free, EmptyCache
  <2>. QED
    BY <2>1, <2>3
<1>. HIDE DEF d
<1>6. CacheInv(e, nd, Toks) /\ e.nodes = d.nodes
  BY <1>3, <1>5, DecKeeps
<1>. HIDE DEF e
<1>7. CacheInv(f, nd2, Toks)
  BY <1>3, <1>4, <1>5, <1>6, IncKeeps
<1>8. Unfinish(cache, r).cache = f
  BY DEF Unfinish, UnfinishHolding, f, e, d, c, ps, key
<1>9. LET p == Unfinish(cache, r).req
      IN  p.node = key /\ p.fill = q.fill /\ p.prefix = q.fill /\ p.out = q.out
  BY <1>1 DEF Unfinish, UnfinishHolding, ReqShape, FreshReq, key
<1>. QED
  BY <1>7, <1>8, <1>9 DEF key, nd2

\* cache_finished_req gives the lock of r back.
LEMMA FinishCache ==
    ASSUME CInv, NEW r \in Holders, NEW out, NEW insert \in BOOLEAN
    PROVE  CacheInv(Finish(cache, r, out, insert), [x \in Holders \ {r} |-> req[x].node], Toks)
<1>. DEFINE key == Ids(r, FloorPaged(req[r].fill))
            q == req[r]
            had == IF insert THEN Len(CachedPrefix(cache, key)) ELSE Len(key)
            len == Min({q.kv, Len(Prompt[r]) + out})
            c == IF insert THEN Insert(cache, key, q.pages) ELSE cache
            d == Free(c, PageSlice(q, q.prot, had))
            e == Free(d, PageSlice(q, Len(key), len))
            f == DecLockRef(e, q.node)
            nd == [x \in Holders \ {r} |-> req[x].node]
<1>1. r \in Reqs /\ q.fill \in Int /\ CacheInv(cache, Nodes, Toks)
  BY DEF CInv, Numbers, Holders
<1>2. key \in Seq(Toks) /\ Paged(key)
  BY <1>1, PagedIds
<1>3. Joins(nd, Nodes, r, q.node)
  BY HolderLeaves
<1>. HIDE DEF key, nd
<1>4. CacheInv(c, Nodes, Toks)
  BY <1>1, <1>2, InsertKeeps
<1>. HIDE DEF c
<1>5. CacheInv(d, Nodes, Toks)
  BY <1>4, FreeKeeps
<1>. HIDE DEF d
<1>6. CacheInv(e, Nodes, Toks)
  BY <1>5, FreeKeeps
<1>. HIDE DEF e
<1>7. CacheInv(f, nd, Toks)
  BY <1>3, <1>6, DecKeeps
<1>8. Finish(cache, r, out, insert) = f
  BY DEF Finish, FinishFrom, f, e, d, c, key
<1>. QED
  BY <1>7, <1>8 DEF nd

\* A prefix that is matched is a node afterwards.
LEMMA MatchCache ==
    ASSUME CInv, NEW r \in Reqs
    PROVE  LET n == CachedPrefix(cache, MatchKey(r))
               c == MatchPrefix(cache, MatchKey(r))
           IN  /\ CacheInv(c, Nodes, Toks) /\ n \in c.nodes \cup {<< >>} /\ n \in Seq(Toks)
               /\ c.kv = cache.kv /\ c.free = cache.free
<1>. DEFINE key == MatchKey(r)
            n == CachedPrefix(cache, key)
            c == SplitNode(cache, n)
<1>1. CacheInv(cache, Nodes, Toks) /\ Shape(cache, Toks)
  BY DEF CInv, CacheInv, Tree
<1>2. key \in Seq(Toks)
  <2>1. SeqLen(r) - 1 \in Int
    BY SizesAssumption DEF SeqLen, CInv, Numbers
  <2>. QED
    BY <2>1, PagedIds DEF MatchKey
<1>. HIDE DEF key
<1>3. n \in Seq(Toks) /\ n \in DOMAIN cache.kv \cup {<< >>}
  BY <1>1, <1>2, CachedPrefixMeaning
<1>. HIDE DEF n
<1>4. CacheInv(c, Nodes, Toks) /\ n \in c.nodes \cup {<< >>} /\ c.kv = cache.kv /\ c.free = cache.free
  BY <1>1, <1>3, SplitKeeps
<1>. QED
  BY <1>3, <1>4 DEF MatchPrefix, n, key

\* The allocation for a batch leaves the tree alone.
LEMMA AllocateCache ==
    ASSUME NEW T, NEW nd, NEW c, CacheInv(c, nd, T), NEW rs, NEW from, NEW to
    PROVE  CacheInv(Allocate(c, rs, from, to).cache, nd, T)
<1>. DEFINE n == [i \in 1 .. Len(rs) |-> PageCount(to[rs[i]]) - PageCount(from[rs[i]])]
            new == FreePages(c, SumFunction(n))
            ok == SumFunction(n) * PageSize <= AvailableSize(c)
            ps == ToSet(new)
<1>1. Allocate(c, rs, from, to).cache = IF ok THEN Take(c, ps) ELSE c
  BY DEF Allocate
<1>. HIDE DEF ps, ok
<1>2. CacheInv(Take(c, ps), nd, T)
  BY TakeKeeps
<1>. QED
  BY <1>1, <1>2

\* The holders after a step that changes one Req object.
LEMMA OneNode ==
    ASSUME ReqShape, NEW r \in Reqs, NEW q, req' = [req EXCEPT ![r] = q]
    PROVE  /\ (q.holds <=> req[r].holds) /\ q.node = req[r].node => Nodes' = Nodes
           /\ r \in Holders /\ ~q.holds => Nodes' = [x \in Holders \ {r} |-> req[x].node]
           /\ r \in Holders /\ q.holds => Nodes' = [Nodes EXCEPT ![r] = q.node]
           /\ r \notin Holders /\ q.holds => Joins(Nodes, Nodes', r, q.node)
<1>1. req'[r] = q /\ \A x \in Reqs : x # r => req'[x] = req[x]
  BY DEF ReqShape
<1>2. \A x : x \in Holders <=> x \in Reqs /\ req[x].holds
  BY Zenon DEF Holders
<1>3. \A x : x \in Holders' <=> x \in Reqs /\ req'[x].holds
  BY Zenon DEF Holders
<1>4. Nodes = [x \in Holders |-> req[x].node] /\ Nodes' = [x \in Holders' |-> req'[x].node]
  BY DEF Nodes
<1>5. ASSUME q.holds <=> req[r].holds, q.node = req[r].node PROVE Nodes' = Nodes
  <2>1. Holders' = Holders
    <3>1. \A x : x \in Holders' <=> x \in Holders
      BY <1>1, <1>2, <1>3, <1>5, Zenon
    <3>. QED
      BY <3>1
  <2>2. \A x \in Holders : x \in Reqs /\ req'[x].node = req[x].node
    BY <1>1, <1>2, <1>5
  <2>. QED
    BY <1>4, <2>1, <2>2
<1>6. ASSUME r \in Holders, ~q.holds PROVE Nodes' = [x \in Holders \ {r} |-> req[x].node]
  <2>1. Holders' = Holders \ {r}
    <3>1. \A x : x \in Holders' <=> x \in Holders /\ x # r
      BY <1>1, <1>2, <1>3, <1>6, Zenon
    <3>. QED
      BY <3>1
  <2>2. \A x \in Holders \ {r} : req'[x].node = req[x].node
    BY <1>1, <1>2
  <2>. QED
    BY <1>4, <2>1, <2>2
<1>7. ASSUME r \in Holders, q.holds PROVE Nodes' = [Nodes EXCEPT ![r] = q.node]
  <2>1. Holders' = Holders
    <3>1. \A x : x \in Holders' <=> x \in Holders
      BY <1>1, <1>2, <1>3, <1>7, Zenon
    <3>. QED
      BY <3>1
  <2>2. \A x \in Holders : x \in Reqs /\ (x # r => req'[x].node = req[x].node)
    BY <1>1, <1>2
  <2>. QED
    BY <1>1, <1>4, <1>7, <2>1, <2>2
<1>8. ASSUME r \notin Holders, q.holds PROVE Joins(Nodes, Nodes', r, q.node)
  <2>1. Holders' = Holders \cup {r}
    <3>1. \A x : x \in Holders' <=> x \in Holders \/ x = r
      BY <1>1, <1>2, <1>3, <1>8, Zenon
    <3>. QED
      BY <3>1
  <2>2. \A x \in Holders : x # r /\ req'[x].node = req[x].node
    BY <1>1, <1>2, <1>8
  <2>. QED
    BY <1>1, <1>4, <1>8, <2>1, <2>2 DEF Joins
<1>. QED
  BY <1>5, <1>6, <1>7, <1>8, Zenon

\* The locks when a step leaves the holders and their nodes alone.
LEMMA NodesKept ==
    ASSUME Holders' = Holders, \A x \in Holders : req'[x].node = req[x].node
    PROVE  Nodes' = Nodes
  BY DEF Nodes

\* The numbers after a step that changes one Req object.
LEMMA OneNumber ==
    ASSUME ReqShape, Numbers, NEW r \in Reqs, NEW q, req' = [req EXCEPT ![r] = q],
           q.fill \in Int, q.prefix \in Int, q.out \in Int
    PROVE  \A x \in Reqs : req'[x].fill \in Int /\ req'[x].prefix \in Int /\ req'[x].out \in Int
  BY DEF ReqShape, Numbers

\* Steps that leave requests alone, and may evict.
LEMMA QuietCache ==
    ASSUME CInv, req' = req, adder' = adder \/ adder' = NoAdder, ratio' \in Ratios,
           cache' = cache \/ \E n : cache' \in EvictFromTreeCache(cache, n)
    PROVE  CInv'
<1>1. CacheInv(cache', Nodes, Toks)
  <2>1. CacheInv(cache, Nodes, Toks)
    BY DEF CInv
  <2>2. CASE cache' = cache
    BY <2>1, <2>2
  <2>3. CASE \E n : cache' \in EvictFromTreeCache(cache, n)
    BY <2>1, <2>3, EvictKeeps
  <2>. QED
    BY <2>2, <2>3
<1>2. Nodes' = Nodes
  BY DEF Nodes, Holders
<1>3. Numbers'
  BY DEF CInv, Numbers, NoAdder
<1>. QED
  BY <1>1, <1>2, <1>3 DEF CInv

\* A request that arrives or is aborted in the queue has no lock.
LEMMA MessageCache ==
    ASSUME SInv, CInv, NEW r \in Reqs, Receive(r) \/ AbortRequest(r)
    PROVE  CInv'
<1>1. UNCHANGED <<cache, adder, ratio>> /\ ReqShape
  BY DEF Receive, AbortRequest, InputUnchanged, SInv, Types, ReqTypes, ReqShape
<1>2. DOMAIN req[r] = DOMAIN FreshReq /\ r \in DOMAIN req
  BY <1>1 DEF ReqShape
<1>3. PICK q : /\ req' = [req EXCEPT ![r] = q] /\ (q.holds <=> req[r].holds) /\ q.node = req[r].node
               /\ q.fill = req[r].fill /\ q.prefix = req[r].prefix /\ q.out = req[r].out
  <2>. DEFINE a == [req[r] EXCEPT !.sent = TRUE]
              b == [req[r] EXCEPT !.answers = req[r].answers + 1]
              c == [req[r] EXCEPT !.toFinish = TRUE]
  <2>1. \/ req' = [req EXCEPT ![r] = a]
        \/ req' = [req EXCEPT ![r] = b]
        \/ req' = [req EXCEPT ![r] = c]
    BY DEF Receive, AbortRequest
  <2>2. /\ a.holds = req[r].holds /\ a.node = req[r].node
        /\ a.fill = req[r].fill /\ a.prefix = req[r].prefix /\ a.out = req[r].out
    BY <1>2 DEF FreshReq
  <2>3. /\ b.holds = req[r].holds /\ b.node = req[r].node
        /\ b.fill = req[r].fill /\ b.prefix = req[r].prefix /\ b.out = req[r].out
    BY <1>2 DEF FreshReq
  <2>4. /\ c.holds = req[r].holds /\ c.node = req[r].node
        /\ c.fill = req[r].fill /\ c.prefix = req[r].prefix /\ c.out = req[r].out
    BY <1>2 DEF FreshReq
  <2>. HIDE DEF a, b, c
  <2>. QED
    BY <2>1, <2>2, <2>3, <2>4, Zenon
<1>4. Nodes' = Nodes
  BY <1>1, <1>3, OneNode, Zenon
<1>5. req[r].fill \in Int /\ req[r].prefix \in Int /\ req[r].out \in Int /\ Numbers
  BY DEF CInv, Numbers
<1>6. \A x \in Reqs : req'[x].fill \in Int /\ req'[x].prefix \in Int /\ req'[x].out \in Int
  BY <1>1, <1>3, <1>5, OneNumber
<1>7. Numbers'
  BY <1>1, <1>5, <1>6 DEF Numbers
<1>. QED
  BY <1>1, <1>4, <1>7 DEF CInv

\* The empty cache, which nobody holds.
LEMMA EmptyInv ==
    ASSUME NEW T, NEW nd, DOMAIN nd = {}
    PROVE  CacheInv(EmptyCache, nd, T)
<1>. DEFINE c == EmptyCache
<1>1. /\ DOMAIN c = DOMAIN EmptyCache /\ c.nodes = {} /\ c.kv = << >> /\ c.lock = << >>
      /\ c.evictable = 0 /\ c.protected = 0 /\ c.free = [p \in Pages |-> 1]
  BY DEF EmptyCache
<1>2. IsFiniteSet({}) /\ DOMAIN << >> = {}
  BY FS_EmptySet
<1>. HIDE DEF c
<1>3. Shape(c, T)
  BY <1>1, <1>2 DEF Shape
<1>4. Closed(c, T) /\ Branching(c)
  BY <1>1, <1>2 DEF Closed, Branching
<1>5. Anchored(c, nd) /\ Exact(c, nd)
  BY <1>1, <1>2 DEF Anchored, Exact
<1>6. CountersExact(c)
  <2>. DEFINE Z == {n \in c.nodes : c.lock[n] = 0}
              P == {n \in c.nodes : c.lock[n] > 0}
  <2>1. Z = {} /\ P = {}
    BY <1>1
  <2>2. Tokens(c, {}) = 0
    BY <1>2, SumPicked DEF Tokens
  <2>. HIDE DEF Z, P
  <2>3. c.evictable = Tokens(c, Z) /\ c.protected = Tokens(c, P)
    BY <1>1, <2>1, <2>2
  <2>. QED
    BY <2>3 DEF CountersExact, Z, P
<1>. QED
  BY <1>2, <1>3, <1>4, <1>5, <1>6 DEF CacheInv, Tree, c

\* The scheduler starts with an empty cache, without holders.
LEMMA InitCache == Init => CInv
<1>. SUFFICES ASSUME Init PROVE CInv
  OBVIOUS
<1>1. cache = EmptyCache /\ adder = NoAdder /\ ratio \in Ratios /\ req = [r \in Reqs |-> FreshReq]
  BY DEF Init
<1>2. DOMAIN Nodes = {}
  <2>1. \A r \in Reqs : req[r].holds = FALSE
    BY <1>1 DEF FreshReq
  <2>2. Holders = {}
    BY <2>1, Zenon DEF Holders
  <2>. QED
    BY <2>2 DEF Nodes
<1>3. CacheInv(cache, Nodes, Toks)
  BY <1>1, <1>2, EmptyInv
<1>4. Numbers
  BY <1>1 DEF Numbers, NoAdder, FreshReq
<1>. QED
  BY <1>3, <1>4 DEF CInv

\* flush_cache empties the tree only when no request holds a node.
LEMMA FlushCacheCache ==
    ASSUME SInv, CInv, FlushCache
    PROVE  CInv'
<1>1. /\ pc = "start" /\ running = << >> /\ ReqsOf(cur) = << >> /\ cache' = EmptyCache
      /\ UNCHANGED <<req, adder, ratio>> /\ ReqsOf(last) = << >>
  BY DEF FlushCache
<1>2. ToSet(running) = {} /\ Prefill = {}
  BY <1>1, ShortLists DEF Prefill, ReqsOf
<1>3. \A r \in Reqs : ~req[r].holds
  BY <1>1, <1>2 DEF SInv, Held
<1>4. DOMAIN Nodes' = {}
  <2>1. Holders' = {}
    BY <1>1, <1>3, Zenon DEF Holders
  <2>. QED
    BY <2>1 DEF Nodes
<1>5. CacheInv(cache', Nodes', Toks)
  BY <1>1, <1>4, EmptyInv
<1>6. Numbers'
  BY <1>1 DEF CInv, Numbers
<1>. QED
  BY <1>5, <1>6 DEF CInv

\* A request gives its pages to the tree and goes on with the node of the tree.
LEMMA UnfinishStep ==
    ASSUME SInv, CInv, NEW r \in Holders, NEW q, req' = [req EXCEPT ![r] = q],
           q.node = Unfinish(cache, r).req.node, q.holds, cache' = Unfinish(cache, r).cache
    PROVE  CacheInv(cache', Nodes', Toks)
<1>. DEFINE key == Ids(r, FloorPaged(req[r].fill))
            u == Unfinish(cache, r)
<1>1. ReqShape /\ r \in Reqs
  BY DEF SInv, Types, ReqTypes, ReqShape, Holders
<1>2. CacheInv(u.cache, [Nodes EXCEPT ![r] = key], Toks) /\ u.req.node = key
  BY <1>1, UnfinishCache
<1>. HIDE DEF u, key
<1>3. Nodes' = [Nodes EXCEPT ![r] = q.node]
  BY <1>1, OneNode, Zenon
<1>4. q.node = key
  BY <1>2 DEF u
<1>. QED
  BY <1>2, <1>3, <1>4 DEF u

\* The last batch is merged: the prompt of the chunked request is cached.
LEMMA MergeCache ==
    ASSUME SInv, CInv, MergeLast
    PROVE  CInv'
<1>. DEFINE u == Unfinish(cache, chunked)
<1>1. /\ pc = "start" /\ UNCHANGED <<adder, ratio>>
      /\ cache' = IF chunked = None THEN cache ELSE u.cache
      /\ req' = IF chunked = None THEN req ELSE [req EXCEPT ![chunked] = u.req]
  BY DEF MergeLast
<1>2. CASE chunked = None
  BY <1>1, <1>2, QuietCache DEF CInv, Numbers
<1>3. CASE chunked # None
  <2>1. chunked \in Reqs /\ ReqShape
    BY <1>3 DEF SInv, Types, LoopTypes, ReqTypes, ReqShape
  <2>2. req[chunked].holds
    BY <1>1, <1>3, <2>1 DEF SInv, Held, Placed
  <2>3. chunked \in Holders
    BY <2>1, <2>2, Zenon DEF Holders
  <2>4. u.req.holds
    <3>1. u.req.holds = req[chunked].holds
      BY <2>1, UnfinishKeeps
    <3>. QED
      BY <2>2, <3>1
  <2>5. u.req.fill = req[chunked].fill /\ u.req.prefix = req[chunked].fill /\ u.req.out = req[chunked].out
    BY <2>1, <2>3, UnfinishCache
  <2>6. CacheInv(cache', Nodes', Toks)
    BY <1>1, <1>3, <2>3, <2>4, UnfinishStep
  <2>7. \A x \in Reqs : req'[x].fill \in Int /\ req'[x].prefix \in Int /\ req'[x].out \in Int
    <3>1. Numbers /\ u.req.fill \in Int /\ u.req.prefix \in Int /\ u.req.out \in Int
      BY <2>1, <2>5 DEF CInv, Numbers
    <3>2. req' = [req EXCEPT ![chunked] = u.req]
      BY <1>1, <1>3
    <3>. HIDE DEF u
    <3>. QED
      BY <2>1, <3>1, <3>2, OneNumber
  <2>8. Numbers'
    BY <1>1, <2>7 DEF CInv, Numbers
  <2>. QED
    BY <2>6, <2>8 DEF CInv
<1>. QED
  BY <1>2, <1>3

\* What is reserved for the running requests is a number of tokens.
LEMMA ReservedType ==
    ASSUME SInv, CInv
    PROVE  Reserved \in Int
<1>. DEFINE g == [r \in ToSet(running) |-> (MaxNew[r] - req[r].out) * ratio]
<1>1. running \in Seq(Reqs) /\ Len(running) \in Nat /\ ToSet(running) \subseteq Reqs
  BY Members DEF SInv, Types, QueueTypes
<1>2. IsFiniteSet(ToSet(running))
  <2>1. running \in Surjection(1 .. Len(running), ToSet(running))
    BY <1>1 DEF ToSet, Surjection
  <2>2. IsFiniteSet(1 .. Len(running))
    BY <1>1, FS_Interval
  <2>. QED
    BY <2>1, <2>2, FS_Surjection
<1>3. ASSUME NEW r \in ToSet(running) PROVE g[r] \in Int
  <2>1. MaxNew[r] - req[r].out \in Int
    BY <1>1, SizesAssumption DEF CInv, Numbers
  <2>2. ratio \in {0, 1}
    BY DEF CInv, Numbers, Ratios
  <2>. QED
    BY <2>1, <2>2
<1>4. DOMAIN g = ToSet(running)
  OBVIOUS
<1>5. Reserved = SumFunctionOnSet(g, ToSet(running))
  BY <1>4 DEF Reserved, SumFunction
<1>. HIDE DEF g
<1>. QED
  BY <1>2, <1>3, <1>5, SumRemove

\* The least of three numbers is one of them.
LEMMA MinOfThree ==
    ASSUME NEW x \in Int, NEW y \in Int, NEW z \in Int
    PROVE  Min({x, y, z}) \in Int
<1>1. \E m \in {x, y, z} : \A k \in {x, y, z} : m <= k
  BY SMT
<1>2. Min({x, y, z}) \in {x, y, z}
  BY <1>1 DEF Min
<1>. QED
  BY <1>2

\* get_new_batch_prefill starts: the chunked request gets its next chunk.
LEMMA BeginCache ==
    ASSUME SInv, CInv, BeginPrefill
    PROVE  CInv'
<1>. DEFINE mixed == IF args.mixed THEN Len(running) ELSE 0
            a == [can |-> <<>>, idx |-> 1, total |-> mixed + Reserved, cur |-> mixed,
                  input |-> MaxPrefillTokens - mixed, chunk |-> args.chunk - mixed]
            extend == SeqLen(chunked) - req[chunked].prefix
            l == ChunkLen(extend, a)
            new == IF l < extend THEN 0 ELSE MaxNew[chunked]
<1>1. /\ UNCHANGED <<cache, ratio>>
      /\ \/ UNCHANGED <<req, adder>>
         \/ UNCHANGED req /\ adder' = a
         \/ /\ chunked # None /\ adder' = Spend(a, chunked, l, new)
            /\ req' = [req EXCEPT ![chunked].fill = req[chunked].prefix + l]
  BY DEF BeginPrefill
<1>2. a.total \in Int /\ a.chunk \in Int /\ DOMAIN a = DOMAIN NoAdder
  <2>1. args.chunk \in Int
    BY SizesAssumption DEF SInv, Types, LoopTypes
  <2>2. mixed \in Int
    BY DEF SInv, Types, QueueTypes
  <2>3. Reserved \in Int
    BY ReservedType
  <2>. HIDE DEF mixed
  <2>. QED
    BY <2>1, <2>2, <2>3 DEF NoAdder
<1>. HIDE DEF a
<1>3. CASE UNCHANGED <<req, adder>>
  BY <1>1, <1>3, QuietCache DEF CInv, Numbers
<1>4. CASE UNCHANGED req /\ adder' = a
  <2>1. Nodes' = Nodes
    BY <1>4 DEF Nodes, Holders
  <2>2. Numbers'
    BY <1>1, <1>2, <1>4 DEF CInv, Numbers
  <2>. QED
    BY <1>1, <2>1, <2>2 DEF CInv
<1>5. CASE /\ chunked # None /\ adder' = Spend(a, chunked, l, new)
           /\ req' = [req EXCEPT ![chunked].fill = req[chunked].prefix + l]
  <2>. DEFINE q == [req[chunked] EXCEPT !.fill = req[chunked].prefix + l]
  <2>1. chunked \in Reqs /\ ReqShape
    BY <1>5 DEF SInv, Types, LoopTypes, ReqTypes, ReqShape
  <2>2. req[chunked].prefix \in Int /\ req[chunked].out \in Int /\ Numbers
    BY <2>1 DEF CInv, Numbers
  <2>3. extend \in Int
    BY <2>1, <2>2, SizesAssumption DEF SeqLen
  <2>. HIDE DEF extend
  <2>4. AvailableSize(cache) \in Int /\ cache.evictable \in Int
    BY AvailableType DEF CInv, CacheInv, Tree, Shape
  <2>5. l \in Int
    BY <1>2, <2>3, <2>4, MinOfThree DEF ChunkLen
  <2>. HIDE DEF l
  <2>6. new \in Int
    BY <2>1, SizesAssumption
  <2>. HIDE DEF new
  <2>7. req' = [req EXCEPT ![chunked] = q]
    BY <1>5, <2>1 DEF ReqShape
  <2>8. /\ q.holds = req[chunked].holds /\ q.node = req[chunked].node
        /\ q.fill \in Int /\ q.prefix \in Int /\ q.out \in Int
    BY <2>1, <2>2, <2>5 DEF ReqShape, FreshReq
  <2>. HIDE DEF q
  <2>9. Nodes' = Nodes
    BY <2>1, <2>7, <2>8, OneNode, Zenon
  <2>10. \A x \in Reqs : req'[x].fill \in Int /\ req'[x].prefix \in Int /\ req'[x].out \in Int
    BY <2>1, <2>2, <2>7, <2>8, OneNumber
  <2>11. adder'.total \in Int /\ adder'.chunk \in Int
    <3>1. CeilPaged(l) \in Int
      BY <2>5, FloorMeaning
    <3>2. adder'.total = a.total + CeilPaged(l) + new /\ adder'.chunk = a.chunk - CeilPaged(l)
      BY <1>2, <1>5 DEF Spend, NoAdder
    <3>. QED
      BY <1>2, <2>6, <3>1, <3>2
  <2>12. Numbers'
    BY <1>1, <2>2, <2>10, <2>11 DEF Numbers
  <2>. QED
    BY <1>1, <2>9, <2>12 DEF CInv
<1>. QED
  BY <1>1, <1>3, <1>4, <1>5

\* A request is added with all its tokens, with a chunk of them, or not.
LEMMA AddLen ==
    ASSUME NEW r, NEW c, NEW n, NEW a
    PROVE  AddOneReq(r, c, n, a).len \in {0, SeqLen(r) - Len(n), FloorPaged(a.chunk)}
<1>. DEFINE extend == SeqLen(r) - Len(n)
            trunc == FloorPaged(a.chunk)
            full1 == extend + Max({MaxNew[r] - req[r].out, 0}) >= Min({RemTotal(c, a), RemTotal(IncLockRef(c, n), a)})
            full2 == CeilPaged(extend) >= a.input /\ a.can # << >>
            all == CeilPaged(extend) <= a.chunk
            none == trunc <= 0
<1>1. AddOneReq(r, c, n, a) = IF full1 THEN [result |-> "no_token", len |-> 0]
                              ELSE IF full2 THEN [result |-> "other", len |-> 0]
                              ELSE IF all THEN [result |-> "all", len |-> extend]
                              ELSE IF none THEN [result |-> "other", len |-> 0]
                              ELSE [result |-> "chunk", len |-> trunc]
  BY Zenon DEF AddOneReq
<1>. HIDE DEF extend, trunc, full1, full2, all, none
<1>2. AddOneReq(r, c, n, a).len \in {0, extend, trunc}
  BY <1>1
<1>. QED
  BY <1>2 DEF extend, trunc

\* A request of the queue is matched against the tree, may be admitted and
\* then holds its node, or ends the admission.
LEMMA AdmitCache ==
    ASSUME SInv, CInv, AdmitNext
    PROVE  CInv'
<1>. DEFINE r == waiting[adder.idx]
            n == CachedPrefix(cache, MatchKey(r))
            c == MatchPrefix(cache, MatchKey(r))
            add == AddOneReq(r, c, n, adder)
            new == IF add.result = "all" THEN MaxNew[r] ELSE 0
            a == Spend(adder, r, add.len, new)
            q == [req[r] EXCEPT !.prefix = Len(n), !.prot = Len(n), !.node = n,
                                !.pages = CachedPages(c, n), !.holds = TRUE,
                                !.fill = Len(n) + add.len]
<1>1. /\ pc = "admit" /\ UNCHANGED ratio
      /\ \/ UNCHANGED <<cache, req, adder>>
         \/ /\ ~(adder.idx > Len(waiting)) /\ cache' = c /\ UNCHANGED <<req, adder>>
         \/ /\ ~(adder.idx > Len(waiting)) /\ cache' = IncLockRef(c, n)
            /\ req' = [req EXCEPT ![r] = q] /\ adder' = [a EXCEPT !.idx = @ + 1]
  BY Zenon DEF AdmitNext
<1>2. ReqShape /\ waiting \in Seq(Reqs) /\ Placed /\ Held /\ Numbers /\ Admitting /\ DOMAIN adder = DOMAIN NoAdder
  BY <1>1 DEF SInv, Types, ReqTypes, ReqShape, QueueTypes, CInv, Admitting
<1>3. CASE UNCHANGED <<cache, req, adder>>
  BY <1>1, <1>3, QuietCache DEF CInv, Numbers
<1>4. ASSUME ~(adder.idx > Len(waiting)) PROVE r \in Reqs /\ ~req[r].holds
  <2>1. adder.idx \in 1 .. Len(waiting)
    BY <1>2, <1>4 DEF Placed
  <2>2. r \in Reqs /\ r \in ToSet(waiting)
    BY <1>2, <2>1 DEF ToSet
  <2>3. r \notin ToSet(adder.can) /\ r \notin ToSet(running)
    BY <1>2, <2>1, <2>2 DEF Placed
  <2>4. Prefill = ToSet(adder.can)
    BY <1>1 DEF Prefill, Admitting
  <2>. HIDE DEF r
  <2>. QED
    BY <1>2, <2>2, <2>3, <2>4 DEF Held
<1>5. ASSUME ~(adder.idx > Len(waiting))
      PROVE  CacheInv(c, Nodes, Toks) /\ n \in c.nodes \cup {<< >>} /\ n \in Seq(Toks)
  <2>. HIDE DEF r
  <2>. QED
    BY <1>4, <1>5, MatchCache
<1>6. CASE ~(adder.idx > Len(waiting)) /\ cache' = c /\ UNCHANGED <<req, adder>>
  <2>1. Nodes' = Nodes
    BY <1>6 DEF Nodes, Holders
  <2>2. CacheInv(cache', Nodes', Toks)
    BY <1>5, <1>6, <2>1
  <2>3. Numbers'
    BY <1>1, <1>2, <1>6 DEF Numbers
  <2>. QED
    BY <2>2, <2>3 DEF CInv
<1>7. CASE /\ ~(adder.idx > Len(waiting)) /\ cache' = IncLockRef(c, n)
           /\ req' = [req EXCEPT ![r] = q] /\ adder' = [a EXCEPT !.idx = @ + 1]
  <2>1. r \in Reqs /\ r \notin Holders
    BY <1>4, <1>7, Zenon DEF Holders
  <2>2. CacheInv(c, Nodes, Toks) /\ n \in c.nodes \cup {<< >>} /\ n \in Seq(Toks)
    BY <1>5, <1>7
  <2>3. Len(n) \in Nat /\ req[r].out \in Int /\ adder.chunk \in Int /\ adder.total \in Int
    BY <1>2, <2>1, <2>2 DEF Numbers
  <2>4. SeqLen(r) \in Int
    BY <2>1, <2>3, SizesAssumption DEF SeqLen
  <2>. HIDE DEF r, n, c
  <2>5. add.len \in Int
    <3>a. SeqLen(r) - Len(n) \in Int
      BY <2>3, <2>4
    <3>1. FloorPaged(adder.chunk) \in Int
      BY <2>3, FloorMeaning
    <3>2. add.len \in {0, SeqLen(r) - Len(n), FloorPaged(adder.chunk)}
      BY AddLen
    <3>. HIDE DEF add
    <3>. QED
      BY <3>a, <3>1, <3>2
  <2>6. new \in Int
    BY <2>1, SizesAssumption
  <2>. HIDE DEF add, new
  <2>7. /\ q.holds = TRUE /\ q.node = n /\ q.fill \in Int /\ q.prefix \in Int /\ q.out \in Int
    BY <1>2, <2>1, <2>3, <2>5 DEF ReqShape, FreshReq
  <2>8. adder'.total = adder.total + CeilPaged(add.len) + new /\ adder'.chunk = adder.chunk - CeilPaged(add.len)
    BY <1>2, <1>7 DEF Spend, NoAdder
  <2>. HIDE DEF q, a
  <2>9. req' = [req EXCEPT ![r] = q] /\ cache' = IncLockRef(c, n)
    BY <1>7
  <2>10. Joins(Nodes, Nodes', r, n)
    <3>1. Joins(Nodes, Nodes', r, q.node)
      BY <1>2, <2>1, <2>7, <2>9, OneNode, Zenon
    <3>. QED
      BY <2>7, <3>1
  <2>11. CacheInv(cache', Nodes', Toks)
    BY <2>2, <2>9, <2>10, IncKeeps
  <2>12. \A x \in Reqs : req'[x].fill \in Int /\ req'[x].prefix \in Int /\ req'[x].out \in Int
    BY <1>2, <2>1, <2>7, <2>9, OneNumber
  <2>13. CeilPaged(add.len) \in Int
    BY <2>5, FloorMeaning
  <2>14. Numbers'
    BY <1>1, <1>2, <2>3, <2>6, <2>8, <2>12, <2>13 DEF Numbers
  <2>. QED
    BY <2>11, <2>14 DEF CInv
<1>. QED
  BY <1>1, <1>3, <1>6, <1>7

\* A batch gets its pages: the cache may lose unlocked nodes, the holders
\* keep theirs.
LEMMA NewBatchCache ==
    ASSUME SInv, CInv, NewBatch
    PROVE  CInv'
<1>. DEFINE rs == adder.can
            dec == IF args.mixed THEN Unfinished(running) ELSE << >>
            batch == [mode |-> "extend", reqs |-> rs \o dec, chunked |-> chunked, decoding |-> ToSet(dec)]
            from == [r \in Reqs |-> IF Contains(dec, r) THEN req[r].kv ELSE req[r].prefix]
            to == [r \in Reqs |-> IF Contains(dec, r) THEN req[r].kv + 1 ELSE req[r].fill]
            extend == SumFunction([i \in 1 .. Len(rs) |-> to[rs[i]] - from[rs[i]]])
            New(r, pages) == [req[r] EXCEPT !.pages = IF r \in DOMAIN pages THEN pages[r] ELSE @,
                                            !.kv = IF r \in DOMAIN pages THEN to[r] ELSE @,
                                            !.fill = IF Contains(dec, r) THEN SeqLen(r) ELSE @,
                                            !.retracted = @ /\ ~Contains(rs, r),
                                            !.chunks = IF r = chunked THEN @ + 1 ELSE @]
<1>1. PICK c \in EvictFromTreeCache(cache, IF PageSize = 1 THEN extend ELSE extend + Len(rs) * PageSize) :
        LET m == Allocate(c, rs, from, to)
        IN  \E d \in EvictFromTreeCache(m.cache, Len(dec) * PageSize) :
              LET k == Allocate(d, dec, from, to)
                  pages == [r \in ToSet(rs) \cup ToSet(dec) |-> IF r \in ToSet(rs) THEN m.pages[r] ELSE k.pages[r]]
              IN  (/\ cache' = k.cache
                   /\ content' = Written(from, to, pages)
                   /\ req' = [r \in Reqs |-> New(r, pages)]
                   /\ rows' = rows - Len(rs)
                   /\ pc' = IF m.ok /\ k.ok /\ rows >= Len(rs) THEN "process" ELSE "crashed"
                   /\ cur' = batch /\ results' = Append(results, batch))
                  /\ waiting' = Those(waiting, Reqs \ ToSet(rs))
                  /\ running' = IF args.mixed THEN << >> ELSE running
  BY Zenon DEF NewBatch
<1>. DEFINE m == Allocate(c, rs, from, to)
<1>2. PICK d \in EvictFromTreeCache(m.cache, Len(dec) * PageSize) :
              LET k == Allocate(d, dec, from, to)
                  pages == [r \in ToSet(rs) \cup ToSet(dec) |-> IF r \in ToSet(rs) THEN m.pages[r] ELSE k.pages[r]]
              IN  (/\ cache' = k.cache
                   /\ content' = Written(from, to, pages)
                   /\ req' = [r \in Reqs |-> New(r, pages)]
                   /\ rows' = rows - Len(rs)
                   /\ pc' = IF m.ok /\ k.ok /\ rows >= Len(rs) THEN "process" ELSE "crashed"
                   /\ cur' = batch /\ results' = Append(results, batch))
                  /\ waiting' = Those(waiting, Reqs \ ToSet(rs))
                  /\ running' = IF args.mixed THEN << >> ELSE running
  BY <1>1
<1>. DEFINE k == Allocate(d, dec, from, to)
            pages == [r \in ToSet(rs) \cup ToSet(dec) |-> IF r \in ToSet(rs) THEN m.pages[r] ELSE k.pages[r]]
<1>3. cache' = Allocate(d, dec, from, to).cache /\ req' = [r \in Reqs |-> New(r, pages)]
  BY <1>2, Zenon
<1>. HIDE DEF pages
<1>4. adder' = NoAdder /\ ratio' = ratio
  BY DEF NewBatch
<1>5. ReqShape /\ Numbers /\ CacheInv(cache, Nodes, Toks)
  BY DEF SInv, Types, ReqTypes, ReqShape, CInv
<1>6. CacheInv(c, Nodes, Toks)
  BY <1>1, <1>5, EvictKeeps
<1>. HIDE DEF from, to, extend, rs, dec
<1>7. CacheInv(m.cache, Nodes, Toks)
  BY <1>6, AllocateCache
<1>. HIDE DEF m
<1>8. CacheInv(d, Nodes, Toks)
  BY <1>2, <1>7, EvictKeeps
<1>9. CacheInv(cache', Nodes, Toks)
  BY <1>3, <1>8, AllocateCache
<1>10. ASSUME NEW r \in Reqs
       PROVE  /\ New(r, pages).holds = req[r].holds /\ New(r, pages).node = req[r].node
              /\ New(r, pages).fill \in Int /\ New(r, pages).prefix \in Int /\ New(r, pages).out \in Int
  <2>1. req[r].fill \in Int /\ req[r].prefix \in Int /\ req[r].out \in Int
    BY <1>5 DEF Numbers
  <2>2. SeqLen(r) \in Int
    BY <2>1, SizesAssumption DEF SeqLen
  <2>. QED
    BY <1>5, <2>1, <2>2 DEF ReqShape, FreshReq
<1>. HIDE DEF New
<1>11. \A r \in Reqs : req'[r] = New(r, pages)
  BY <1>3
<1>12. Nodes' = Nodes
  <2>1. \A r \in Reqs : req'[r].holds = req[r].holds /\ req'[r].node = req[r].node
    BY <1>10, <1>11
  <2>2. Holders' = Holders
    BY <2>1, Zenon DEF Holders
  <2>3. \A r \in Holders : req'[r].node = req[r].node
    BY <2>1 DEF Holders
  <2>. QED
    BY <2>2, <2>3, NodesKept
<1>13. Numbers'
  <2>1. \A r \in Reqs : req'[r].fill \in Int /\ req'[r].prefix \in Int /\ req'[r].out \in Int
    BY <1>10, <1>11
  <2>. QED
    BY <1>4, <1>5, <2>1 DEF Numbers, NoAdder
<1>. QED
  BY <1>9, <1>12, <1>13 DEF CInv

\* A decode pass takes pages, and no lock.
LEMMA DecodeCache ==
    ASSUME SInv, CInv, Decode
    PROVE  CInv'
<1>. DEFINE from == [r \in Reqs |-> req[r].kv]
            to == [r \in Reqs |-> req[r].kv + 1]
            New(r, pages) == IF r \in DOMAIN pages THEN [req[r] EXCEPT !.pages = pages[r], !.kv = @ + 1] ELSE req[r]
<1>1. PICK c \in EvictFromTreeCache(cache, Len(running) * PageSize) :
        /\ cache' = Allocate(c, running, from, to).cache
        /\ \E pages : req' = [r \in Reqs |-> New(r, pages)]
  BY Zenon DEF Decode
<1>2. PICK pages : req' = [r \in Reqs |-> New(r, pages)]
  BY <1>1
<1>3. adder' = adder /\ ratio' = ratio
  BY DEF Decode
<1>4. ReqShape /\ Numbers /\ CacheInv(cache, Nodes, Toks)
  BY DEF SInv, Types, ReqTypes, ReqShape, CInv
<1>. HIDE DEF from, to
<1>5. CacheInv(c, Nodes, Toks)
  BY <1>1, <1>4, EvictKeeps
<1>6. CacheInv(cache', Nodes, Toks)
  BY <1>1, <1>5, AllocateCache
<1>7. ASSUME NEW r \in Reqs
      PROVE  /\ New(r, pages).holds = req[r].holds /\ New(r, pages).node = req[r].node
             /\ New(r, pages).fill \in Int /\ New(r, pages).prefix \in Int /\ New(r, pages).out \in Int
  BY <1>4 DEF ReqShape, FreshReq, Numbers
<1>. HIDE DEF New
<1>8. \A r \in Reqs : req'[r] = New(r, pages)
  BY <1>2
<1>9. Nodes' = Nodes
  <2>1. \A r \in Reqs : req'[r].holds = req[r].holds /\ req'[r].node = req[r].node
    BY <1>7, <1>8
  <2>2. Holders' = Holders
    BY <2>1, Zenon DEF Holders
  <2>3. \A r \in Holders : req'[r].node = req[r].node
    BY <2>1 DEF Holders
  <2>. QED
    BY <2>2, <2>3, NodesKept
<1>10. Numbers'
  <2>1. \A r \in Reqs : req'[r].fill \in Int /\ req'[r].prefix \in Int /\ req'[r].out \in Int
    BY <1>7, <1>8
  <2>. QED
    BY <1>3, <1>4, <2>1 DEF Numbers
<1>. QED
  BY <1>6, <1>9, <1>10 DEF CInv

\* A request of the running batch that is given up gives its lock back.
LEMMA RetractCache ==
    ASSUME SInv, CInv, NEW r \in Holders, NEW rest, NEW steps, Retract(r, rest, steps), adder' = adder, ratio' \in Ratios
    PROVE  CInv'
<1>. DEFINE q == [Released(req[r]) EXCEPT !.retracted = TRUE, !.chunks = 0]
            f == Finish(cache, r, req[r].out, FALSE)
            nd == [x \in Holders \ {r} |-> req[x].node]
<1>1. PICK c \in EvictFromTreeCache(f, steps * RetractSteps) : cache' = c
  BY Zenon DEF Retract
<1>2. req' = [req EXCEPT ![r] = [Released(@) EXCEPT !.retracted = TRUE, !.chunks = 0]]
  BY Zenon DEF Retract
<1>3. r \in Reqs /\ ReqShape /\ Numbers
  BY DEF Holders, SInv, Types, ReqTypes, ReqShape, CInv
<1>4. req' = [req EXCEPT ![r] = q]
  BY <1>2, <1>3 DEF ReqShape
<1>5. q.holds = FALSE /\ q.fill \in Int /\ q.prefix \in Int /\ q.out \in Int
  BY <1>3 DEF ReqShape, FreshReq, Released, Numbers
<1>. HIDE DEF q
<1>6. Nodes' = nd
  BY <1>3, <1>4, <1>5, OneNode, Zenon
<1>7. CacheInv(f, nd, Toks)
  BY FinishCache
<1>. HIDE DEF f, nd
<1>8. CacheInv(cache', nd, Toks)
  BY <1>1, <1>7, EvictKeeps
<1>9. \A x \in Reqs : req'[x].fill \in Int /\ req'[x].prefix \in Int /\ req'[x].out \in Int
  BY <1>3, <1>4, <1>5, OneNumber
<1>10. Numbers'
  BY <1>3, <1>9 DEF Numbers
<1>. QED
  BY <1>6, <1>8, <1>10 DEF CInv

\* A request of the running batch that can be retracted owns its lock.
LEMMA RunningHolds ==
    ASSUME SInv, pc \in {"retract", "retractall"}, NEW r \in ToSet(running)
    PROVE  r \in Holders
<1>1. r \in Reqs
  BY Members DEF SInv
<1>2. req[r].holds
  BY <1>1 DEF SInv, Placed, Held
<1>. QED
  BY <1>1, <1>2, Zenon DEF Holders

\* retract_decode gives back the lock of every request it retracts.
LEMMA RetractDecodeCache ==
    ASSUME SInv, CInv, RetractDecode
    PROVE  CInv'
<1>1. pc = "retract" /\ adder' = adder
  BY DEF RetractDecode
<1>2. running \in Seq(Reqs) /\ IsInjective(running) /\ ratio \in Ratios
  BY DEF SInv, Types, QueueTypes, CInv, Numbers
<1>3. CASE ~(Len(running) > 1)
  <2>1. ratio' \in Ratios /\ UNCHANGED <<cache, req>>
    BY <1>3 DEF RetractDecode
  <2>. QED
    BY <1>1, <2>1, QuietCache
<1>4. CASE Len(running) > 1
  <2>1. Retract(Last(running), Front(running), Len(running) - 1) /\ ratio' = ratio
    BY <1>4 DEF RetractDecode
  <2>2. Last(running) \in ToSet(running)
    <3>1. ToSet(running) = ToSet(Front(running)) \cup {Last(running)}
      BY <1>2, <1>4, FrontLast
    <3>. HIDE DEF Last
    <3>. QED
      BY <3>1
  <2>3. Last(running) \in Holders
    BY <1>1, <2>2, RunningHolds
  <2>. QED
    BY <1>1, <1>2, <2>1, <2>3, RetractCache
<1>. QED
  BY <1>3, <1>4

\* A pause with retraction gives back every lock of the running batch.
LEMMA RetractAllCache ==
    ASSUME SInv, CInv, RetractAll
    PROVE  CInv'
<1>1. pc = "retractall" /\ adder' = adder /\ ratio' = ratio
  BY DEF RetractAll
<1>2. running \in Seq(Reqs) /\ IsInjective(running) /\ ratio \in Ratios
  BY DEF SInv, Types, QueueTypes, CInv, Numbers
<1>3. CASE running = << >>
  <2>1. UNCHANGED <<cache, req>>
    BY <1>3 DEF RetractAll
  <2>. QED
    BY <1>1, <1>2, <2>1, QuietCache
<1>4. CASE running # << >>
  <2>1. Retract(Head(running), Tail(running), Len(running))
    BY <1>4 DEF RetractAll
  <2>2. Head(running) \in ToSet(running)
    BY <1>2, <1>4, ToSetTail
  <2>3. Head(running) \in Holders
    BY <1>1, <2>2, RunningHolds
  <2>. QED
    BY <1>1, <1>2, <2>1, <2>3, RetractCache
<1>. QED
  BY <1>3, <1>4

\* The result of a pass: the request ends, or its prompt is cached, or only
\* its counters change.
LEMMA ProcessCache ==
    ASSUME SInv, CInv, ProcessResult
    PROVE  CInv'
<1>. DEFINE b == results[1]
            r == Head(b.reqs)
            q == [req[r] EXCEPT !.out = @ + 1]
<1>1. /\ Head(results) = b /\ r \in Reqs /\ ReqShape /\ pc # "crashed" /\ r \in ToSet(b.reqs) /\ 1 \in DOMAIN results
      /\ Numbers /\ adder' = adder /\ ratio' = ratio
  BY ProcessHead DEF SInv, Types, ReqTypes, ReqShape, CInv, ProcessResult
<1>2. PICK stop \in BOOLEAN : ProcessOne(stop)
  BY DEF ProcessResult
<1>. DEFINE e == [Released(q) EXCEPT !.finished = TRUE, !.output = TRUE,
                                     !.answers = IF q.output THEN @ ELSE @ + 1]
            v == Unfinish(cache, r).req
            u == [v EXCEPT !.out = q.out]
            k == [req[r] EXCEPT !.chunks = IF Skipped(r) THEN @ ELSE @ - 1]
<1>3. \/ req' = [req EXCEPT ![r].chunks = IF Skipped(r) THEN @ ELSE @ - 1] /\ cache' = cache
      \/ ~Skipped(r) /\ req' = [req EXCEPT ![r] = e] /\ cache' = Finish(cache, r, q.out, TRUE)
      \/ ~Skipped(r) /\ req' = [req EXCEPT ![r] = u] /\ cache' = Unfinish(cache, r).cache
      \/ req' = [req EXCEPT ![r] = q] /\ cache' = cache
  BY <1>1, <1>2 DEF ProcessOne
<1>4. req[r].fill \in Int /\ req[r].prefix \in Int /\ req[r].out \in Int
  BY <1>1 DEF Numbers
<1>5. q.holds = req[r].holds /\ q.node = req[r].node /\ q.fill \in Int /\ q.prefix \in Int /\ q.out \in Int
  BY <1>1, <1>4 DEF ReqShape, FreshReq
<1>6. k.holds = req[r].holds /\ k.node = req[r].node /\ k.fill \in Int /\ k.prefix \in Int /\ k.out \in Int
  BY <1>1, <1>4 DEF ReqShape, FreshReq
<1>a. DOMAIN q = DOMAIN FreshReq
  BY <1>1 DEF ReqShape
<1>7. ASSUME ~Skipped(r) PROVE r \in Holders
  <2>1. req[r].holds
    BY <1>1, <1>7 DEF SInv, InFlight
  <2>. HIDE DEF r
  <2>. QED
    BY <1>1, <2>1, Zenon DEF Holders
<1>b. CASE req' = [req EXCEPT ![r].chunks = IF Skipped(r) THEN @ ELSE @ - 1] /\ cache' = cache
  <2>1. req' = [req EXCEPT ![r] = k]
    BY <1>1, <1>b DEF ReqShape
  <2>. HIDE DEF k, r, b
  <2>2. Nodes' = Nodes
    BY <1>1, <1>6, <2>1, OneNode, Zenon
  <2>3. \A x \in Reqs : req'[x].fill \in Int /\ req'[x].prefix \in Int /\ req'[x].out \in Int
    BY <1>1, <1>6, <2>1, OneNumber
  <2>4. Numbers'
    BY <1>1, <2>3 DEF Numbers
  <2>. QED
    BY <1>b, <2>2, <2>4 DEF CInv
<1>. HIDE DEF q, k, r, b
<1>8. CASE req' = [req EXCEPT ![r] = q] /\ cache' = cache
  <2>2. Nodes' = Nodes
    BY <1>1, <1>5, <1>8, OneNode, Zenon
  <2>3. \A x \in Reqs : req'[x].fill \in Int /\ req'[x].prefix \in Int /\ req'[x].out \in Int
    BY <1>1, <1>5, <1>8, OneNumber
  <2>4. Numbers'
    BY <1>1, <2>3 DEF Numbers
  <2>. QED
    BY <1>8, <2>2, <2>4 DEF CInv
<1>9. CASE ~Skipped(r) /\ req' = [req EXCEPT ![r] = e] /\ cache' = Finish(cache, r, q.out, TRUE)
  <2>. DEFINE nd == [x \in Holders \ {r} |-> req[x].node]
  <2>1. e.holds = FALSE /\ e.fill \in Int /\ e.prefix \in Int /\ e.out \in Int
    BY <1>a, <1>5 DEF FreshReq, Released
  <2>2. r \in Holders
    BY <1>7, <1>9
  <2>. HIDE DEF e
  <2>3. Nodes' = nd
    BY <1>1, <1>9, <2>1, <2>2, OneNode, Zenon
  <2>4. CacheInv(cache', nd, Toks)
    BY <1>9, <2>2, FinishCache
  <2>5. \A x \in Reqs : req'[x].fill \in Int /\ req'[x].prefix \in Int /\ req'[x].out \in Int
    BY <1>1, <1>9, <2>1, OneNumber
  <2>6. Numbers'
    BY <1>1, <2>5 DEF Numbers
  <2>. QED
    BY <2>3, <2>4, <2>6 DEF CInv
<1>10. CASE ~Skipped(r) /\ req' = [req EXCEPT ![r] = u] /\ cache' = Unfinish(cache, r).cache
  <2>2. r \in Holders /\ req[r].holds
    BY <1>7, <1>10, Zenon DEF Holders
  <2>3. /\ v.fill = req[r].fill /\ v.prefix = req[r].fill
    BY <1>1, <2>2, UnfinishCache
  <2>4. DOMAIN v = DOMAIN FreshReq /\ v.holds = req[r].holds
    BY <1>1, UnfinishKeeps
  <2>. HIDE DEF v
  <2>5. u.holds = v.holds /\ u.node = v.node /\ u.fill \in Int /\ u.prefix \in Int /\ u.out \in Int
    BY <1>4, <1>5, <2>3, <2>4 DEF FreshReq
  <2>. HIDE DEF u
  <2>6. u.holds /\ u.node = Unfinish(cache, r).req.node
    BY <2>2, <2>4, <2>5 DEF v
  <2>7. CacheInv(cache', Nodes', Toks)
    BY <1>10, <2>2, <2>6, UnfinishStep
  <2>8. \A x \in Reqs : req'[x].fill \in Int /\ req'[x].prefix \in Int /\ req'[x].out \in Int
    BY <1>1, <1>10, <2>5, OneNumber
  <2>9. Numbers'
    BY <1>1, <2>8 DEF Numbers
  <2>. QED
    BY <2>7, <2>9 DEF CInv
<1>. QED
  BY <1>3, <1>b, <1>8, <1>9, <1>10

\* check_decode_mem may evict, and leaves the requests alone.
LEMMA CheckDecodeCache ==
    ASSUME SInv, CInv, CheckDecodeMem
    PROVE  CInv'
<1>1. req' = req /\ adder' = adder
  BY DEF CheckDecodeMem
<1>. DEFINE rs == Unfinished(running)
<1>2. CASE rs = << >>
  <2>1. cache' = cache /\ ratio' = ratio
    BY <1>2 DEF CheckDecodeMem
  <2>. QED
    BY <1>1, <2>1, QuietCache DEF CInv, Numbers
<1>3. CASE rs # << >>
  <2>1. PICK c \in EvictFromTreeCache(cache, NewPageCount(rs) * PageSize) :
          cache' = c /\ ratio' \in {x \in Ratios : x <= ratio}
    BY <1>3, Zenon DEF CheckDecodeMem
  <2>2. (\E n : cache' \in EvictFromTreeCache(cache, n)) /\ ratio' \in Ratios
    BY <2>1
  <2>. QED
    BY <1>1, <2>2, QuietCache
<1>. QED
  BY <1>2, <1>3

\* The steps that are about neither the cache nor a request.
LEMMA OtherCache ==
    ASSUME SInv, CInv,
           \/ NoPrefill \/ Recheck \/ EndIteration \/ PauseRest \/ Continue \/ IdleCheck
           \/ \E mode \in args.pauses : Pause(mode)
           \/ UNCHANGED vars
    PROVE  CInv'
<1>0. ratio \in Ratios
  BY DEF CInv, Numbers
<1>1. CASE NoPrefill \/ EndIteration \/ PauseRest \/ Continue \/ IdleCheck
  <2>1. req' = req /\ cache' = cache /\ (adder' = adder \/ adder' = NoAdder) /\ ratio' \in Ratios
    BY <1>0, <1>1 DEF NoPrefill, EndIteration, PauseRest, Continue, IdleCheck
  <2>. QED
    BY <2>1, QuietCache
<1>2. CASE \/ \E mode \in args.pauses : Pause(mode)
           \/ UNCHANGED vars
  <2>1. req' = req /\ cache' = cache /\ adder' = adder /\ ratio' \in Ratios
    BY <1>0, <1>2 DEF Pause, vars
  <2>. QED
    BY <2>1, QuietCache
<1>3. CASE Recheck
  <2>1. req' = req /\ adder' = adder /\ ratio' \in Ratios
    BY <1>0, <1>3 DEF Recheck
  <2>2. \E n : cache' \in EvictFromTreeCache(cache, n)
    BY <1>3, Zenon DEF Recheck
  <2>. QED
    BY <2>1, <2>2, QuietCache
<1>. QED
  BY <1>1, <1>2, <1>3

\* Every step of the scheduler keeps the locks and the counters exact.
LEMMA StepCache ==
    ASSUME SInv, CInv, [Next]_vars
    PROVE  CInv'
<1>1. CASE MergeLast
  BY <1>1, MergeCache
<1>2. CASE BeginPrefill
  BY <1>2, BeginCache
<1>3. CASE AdmitNext
  BY <1>3, AdmitCache
<1>4. CASE NewBatch
  BY <1>4, NewBatchCache
<1>5. CASE CheckDecodeMem
  BY <1>5, CheckDecodeCache
<1>6. CASE RetractDecode
  BY <1>6, RetractDecodeCache
<1>7. CASE Decode
  BY <1>7, DecodeCache
<1>8. CASE ProcessResult
  BY <1>8, ProcessCache
<1>9. CASE RetractAll
  BY <1>9, RetractAllCache
<1>10. CASE \E r \in Reqs : Receive(r) \/ AbortRequest(r)
  BY <1>10, MessageCache
<1>11. CASE FlushCache
  BY <1>11, FlushCacheCache
<1>12. CASE \/ NoPrefill \/ Recheck \/ EndIteration \/ PauseRest \/ Continue \/ IdleCheck
            \/ \E mode \in args.pauses : Pause(mode)
            \/ UNCHANGED vars
  BY <1>12, OtherCache
<1>. QED
  BY <1>1, <1>2, <1>3, <1>4, <1>5, <1>6, <1>7, <1>8, <1>9, <1>10, <1>11, <1>12, Zenon DEF Next, Step

\* In every reachable state the cache is a radix tree of whole pages, each
\* node of it is locked once for every request that holds a node at or below
\* it, and the two counters are the sizes of the unlocked and of the locked
\* nodes (inc_lock_ref, dec_lock_ref, _split_node, insert and evict of
\* radix_cache.py, under every sequence of calls that scheduler.py makes).
THEOREM CacheInvariance ==
    Spec /\ []PausesKeep => []CInv
<1>1. Init => CInv
  BY InitCache
<1>2. SInv /\ CInv /\ [Next]_vars => CInv'
  BY StepCache
<1>. QED
  BY <1>1, <1>2, SchedulerInvariance, PTL DEF Spec

\* LocksExact: no lock is leaked by a retraction, an abort, a chunk or a
\* finished request, none is given back twice, and the nodes that a request
\* in flight reads are there and cannot be evicted.
THEOREM LocksAreExact ==
    Spec /\ []PausesKeep => []LocksExact
<1>1. CInv => LocksExact
  <2>1. SUFFICES ASSUME CInv, NEW n \in cache.nodes
                 PROVE  cache.lock[n] = Cardinality({r \in Holders : IsPrefix(n, req[r].node)})
    BY DEF LocksExact
  <2>2. cache.lock[n] = Cardinality(Below(n, Nodes))
    BY <2>1 DEF CInv, CacheInv, Exact
  <2>3. Below(n, Nodes) = {r \in Holders : IsPrefix(n, req[r].node)}
    BY DEF Below, Nodes
  <2>. QED
    BY <2>2, <2>3
<1>. QED
  BY <1>1, CacheInvariance, PTL

\* evictable_size and protected_size, on which the admission of requests
\* rests, always count what is in the tree, and the tree is well formed.
THEOREM TreeIsExact ==
    Spec /\ []PausesKeep => [](CountersExact(cache) /\ WellFormed(cache))
<1>1. CInv => CountersExact(cache) /\ WellFormed(cache)
  <2>1. SUFFICES ASSUME CInv PROVE CountersExact(cache) /\ WellFormed(cache)
    OBVIOUS
  <2>2. CountersExact(cache) /\ Shape(cache, Toks) /\ Closed(cache, Toks) /\ Branching(cache)
    BY <2>1 DEF CInv, CacheInv, Tree
  <2>3. ASSUME NEW p \in DOMAIN cache.kv
        PROVE  /\ Len(p) % PageSize = 0 /\ Len(p) > 0 /\ \E n \in cache.nodes : IsPrefix(p, n)
               /\ Len(p) > PageSize => SubSeq(p, 1, Len(p) - PageSize) \in DOMAIN cache.kv
    <3>1. p \in Seq(Toks) /\ Len(p) \in Nat /\ Len(p) % PageSize = 0 /\ Len(p) > 0
      BY <2>2 DEF Shape, Paged
    <3>2. \E n \in cache.nodes : IsPrefix(p, n)
      BY <2>2 DEF Branching, Owns
    <3>3. ASSUME Len(p) > PageSize PROVE SubSeq(p, 1, Len(p) - PageSize) \in DOMAIN cache.kv
      <4>. DEFINE m == Len(p) - PageSize
                  q == SubSeq(p, 1, m)
      <4>1. m \in 1 .. Len(p)
        BY <3>1, <3>3, PageSizeAssumption
      <4>2. q \in Seq(Toks) /\ Len(q) = m /\ IsPrefix(q, p)
        BY <3>1, <4>1, PrefixCut
      <4>3. m % PageSize = 0
        <5>1. PageCount(Len(p)) \in Nat /\ Len(p) = PageCount(Len(p)) * PageSize
          BY <3>1, PagedLen
        <5>2. PICK k \in Nat : Len(p) = k * PageSize
          BY <5>1
        <5>3. m = (k - 1) * PageSize
          BY <5>2, PageSizeAssumption
        <5>. QED
          BY <5>2, <5>3, PagesLen
      <4>. HIDE DEF m, q
      <4>4. Len(q) > 0 /\ Paged(q)
        BY <4>1, <4>2, <4>3 DEF Paged
      <4>5. q \in DOMAIN cache.kv
        BY <2>2, <4>2, <4>4 DEF Closed
      <4>. QED
        BY <4>5 DEF q, m
    <3>. QED
      BY <3>1, <3>2, <3>3
  <2>4. cache.nodes \subseteq DOMAIN cache.kv
    BY <2>2 DEF Shape
  <2>. QED
    BY <2>2, <2>3, <2>4 DEF WellFormed
<1>. QED
  BY <1>1, CacheInvariance, PTL

=============================================================================
