----------------------------- MODULE Scheduler ------------------------------
(***************************************************************************)
(* The scheduler of the SGLang runtime (managers/scheduler.py,             *)
(* schedule_batch.py, schedule_policy.py, the output processor) over the   *)
(* radix cache and the page allocator: waiting queue, admission by the     *)
(* PrefillAdder, chunked prefill, the running batch, retraction, aborts,   *)
(* flushing and pausing, in the normal event loop and in the one that      *)
(* overlaps a batch with the processing of the one before.                 *)
(*                                                                         *)
(* One iteration of the event loop is cut at the points where the code     *)
(* loops over requests; messages are received only between iterations.     *)
(* The model is abstracted to the number of tokens it emits: every token   *)
(* is Sampled, and a batch may end any of its requests (end of sequence,   *)
(* stop string, grammar).  A forward pass has written its KV pages by the  *)
(* time a later pass reads or writes them: the passes share one stream.    *)
(***************************************************************************)
EXTENDS RadixCache, TLC

CONSTANTS
  Reqs,               \* the requests that clients may send
  Prompt,             \* origin_input_ids of every request
  MaxNew,             \* sampling_params.max_new_tokens of every request
  Sampled,            \* the token the model emits
  None,               \* no request
  MaxPrefillTokens,   \* max_prefill_tokens
  MaxRunning,         \* pp_max_micro_batch_size, the size of the request pool
  RetractSteps,       \* SGLANG_RETRACT_DECODE_STEPS
  Configs             \* the server arguments, and what clients do, to look at:
                      \*   chunk    chunked_prefill_size
                      \*   overlap  enable_overlap
                      \*   mixed    is_mixed_chunk
                      \*   pauses   the modes in which clients pause the engine
                      \*   aborts   whether clients abort requests

\* init_req_max_new_tokens and validate_input_length: a request fits the
\* pool with two tokens to spare.
ASSUME FitsPool == \A r \in Reqs : Len(Prompt[r]) + MaxNew[r] <= PoolTokens - 2
ASSUME ReqsAssumption == None \notin Reqs /\ MaxRunning \in Nat
ASSUME SizesAssumption == /\ \A r \in Reqs : /\ Prompt[r] \in Seq(ToSet(Prompt[r])) /\ Len(Prompt[r]) > 0
                                            /\ MaxNew[r] \in Nat \ {0}
                          /\ \A a \in Configs : a.chunk % PageSize = 0 /\ a.chunk \in Nat \ {0}

VARIABLES
  args,     \* the configuration, a member of Configs
  cache,    \* the radix cache and the allocator
  content,  \* content[p]: the tokens whose KV page p was last written with
  req,      \* the Req objects
  waiting,  \* waiting_queue
  running,  \* running_batch.reqs
  full,     \* running_batch.batch_is_full
  chunked,  \* chunked_req
  rows,     \* number of free rows of req_to_token_pool
  last,     \* last_batch
  cur,      \* the batch of this iteration
  results,  \* batches whose results are not processed
  adder,    \* the PrefillAdder of this iteration
  ratio,    \* new_token_ratio
  paused,   \* _engine_paused, with the mode while the pause is being made
  pc        \* where the event loop is; "crashed" after an exception

vars == <<args, cache, content, req, waiting, running, full, chunked, rows, last, cur,
          results, adder, ratio, paused, pc>>

NoBatch == [mode |-> "none", reqs |-> <<>>, chunked |-> None, decoding |-> {}]
NoAdder == [can |-> <<>>, idx |-> 1, total |-> 0, cur |-> 0, input |-> 0, chunk |-> 0]

\* The share of its remaining tokens that a running request is expected to
\* use.  It starts anywhere between a minimum, less than one token here, and
\* 1, decays with every decoding batch and is estimated anew on retraction;
\* the two ends are kept.
Ratios == {0, 1}

FreshReq == [out |-> 0, fill |-> 0, prefix |-> 0, prot |-> 0, kv |-> 0, pages |-> <<>>,
             node |-> <<>>, chunks |-> 0, retracted |-> FALSE, holds |-> FALSE,
             toFinish |-> FALSE, finished |-> FALSE, output |-> FALSE, answers |-> 0,
             sent |-> FALSE]

Init == /\ args \in Configs
        /\ cache = EmptyCache
        /\ content = [p \in Pages |-> <<>>]
        /\ req = [r \in Reqs |-> FreshReq]
        /\ waiting = <<>> /\ running = <<>> /\ full = FALSE
        /\ chunked = None /\ rows = MaxRunning
        /\ last = NoBatch /\ cur = NoBatch /\ results = <<>>
        /\ adder = NoAdder /\ ratio \in Ratios /\ paused = "no" /\ pc = "start"

---------------------------------------------------------------------------
(* Requests. *)

SeqLen(r) == Len(Prompt[r]) + req[r].out
Ids(r, n) == SubSeq(Prompt[r] \o [i \in 1 .. MaxNew[r] + 1 |-> Sampled], 1, n)
Finished(r) == req[r].finished

\* The elements of rs that are in S, in their order.
Those(rs, S) ==
  LET at == {i \in DOMAIN rs : rs[i] \in S}
  IN  [k \in 1 .. Cardinality(at) |-> rs[CHOOSE i \in at : Cardinality({j \in at : j <= i}) = k]]

Unfinished(rs) == Those(rs, {r \in Reqs : ~Finished(r)})

\* Pages number a+1 .. b of a request, a and b in tokens.
PageSlice(q, a, b) == {q.pages[i] : i \in (PageCount(a) + 1) .. PageCount(b)}

\* init_next_round_input with a tree: all tokens but the last may be matched.
MatchKey(r) == Ids(r, FloorPaged(SeqLen(r) - 1))

\* cache_unfinished_req: the tree takes over the pages of the request, what
\* it had already is freed, and the request holds node hold of the tree.
UnfinishHolding(c, r, key, hold) ==
  LET q == req[r]
      d == Free(Insert(c, key, q.pages), PageSlice(q, q.prot, Len(CachedPrefix(c, key))))
      e == IncLockRef(DecLockRef(d, q.node), hold)
  IN  [cache |-> e,
       req |-> [q EXCEPT !.pages = CachedPages(e, key) \o SubSeq(@, PageCount(Len(key)) + 1, Len(@)),
                         !.prot = Len(key), !.prefix = q.fill, !.node = key]]

Unfinish(c, r) == UnfinishHolding(c, r, Ids(r, FloorPaged(req[r].fill)), Ids(r, FloorPaged(req[r].fill)))

\* cache_finished_req for a request that ends with out tokens (insert) or is
\* retracted: from token first on what the tree does not take is freed, up
\* to the len tokens that are accounted for.
FinishFrom(c, r, insert, first, len) ==
  LET q == req[r]
      key == Ids(r, FloorPaged(q.fill))
      had == IF insert THEN Len(CachedPrefix(c, key)) ELSE Len(key)
      d == IF insert THEN Insert(c, key, q.pages) ELSE c
  IN  DecLockRef(Free(Free(d, PageSlice(q, first, had)), PageSlice(q, Len(key), len)), q.node)

\* The tail behind the last whole page is not freed.
FinishKeepsTail(c, r, out, insert) == FinishFrom(c, r, insert, req[r].prot, 0)

\* The token that came last is not counted.
FinishForgetsLast(c, r, out, insert) ==
  FinishFrom(c, r, insert, req[r].prot, Min({req[r].kv, Len(Prompt[r]) + out - 1}))

Finish(c, r, out, insert) ==
  FinishFrom(c, r, insert, req[r].prot, Min({req[r].kv, Len(Prompt[r]) + out}))

Released(q) == [q EXCEPT !.holds = FALSE, !.pages = <<>>, !.node = <<>>, !.prot = 0,
                         !.kv = 0, !.fill = 0, !.prefix = 0]

---------------------------------------------------------------------------
(* Messages, handled at the start of an iteration (process_input_requests). *)

InputUnchanged == UNCHANGED <<args, cache, content, running, full, chunked, rows, last, cur,
                              results, adder, ratio, paused, pc>>

\* The decoding batch is the running batch itself.
ReqsOf(b) == IF b.mode = "decode" THEN running ELSE b.reqs

Receive(r) == /\ pc = "start" /\ ~req[r].sent
              /\ waiting' = Append(waiting, r)
              /\ req' = [req EXCEPT ![r].sent = TRUE]
              /\ InputUnchanged

\* A queued request is dropped and answered; one of a batch is marked and
\* ends with its next token.
AbortRequest(r) ==
  /\ pc = "start" /\ args.aborts /\ req[r].sent
  /\ \/ /\ Contains(waiting, r)
        /\ waiting' = Those(waiting, Reqs \ {r})
        /\ req' = [req EXCEPT ![r].answers = @ + 1]
     \/ /\ Contains(running, r) \/ Contains(ReqsOf(cur), r)
        /\ ~Finished(r) /\ ~req[r].toFinish
        /\ req' = [req EXCEPT ![r].toFinish = TRUE]
        /\ UNCHANGED waiting
  /\ InputUnchanged

\* flush_cache, when no request is in a batch.
FlushCache ==
  /\ pc = "start"
  /\ running = <<>> /\ ReqsOf(last) = <<>> /\ ReqsOf(cur) = <<>> /\ results = <<>>
  /\ cache' = EmptyCache /\ rows' = MaxRunning
  /\ last' = NoBatch /\ cur' = NoBatch
  /\ UNCHANGED <<args, content, req, waiting, running, full, chunked, results, adder, ratio, paused, pc>>

---------------------------------------------------------------------------
(* get_next_batch_to_run. *)

Idle == /\ \A r \in Reqs : req[r].sent => req[r].answers > 0
        /\ last = NoBatch /\ results = <<>>

\* The request whose prefill goes on is merged, too.
JoiningChunked(rs, exclude) == Unfinished(rs)

\* The batch is not merged with the requests that run already.
JoiningFirst(rs, exclude) ==
  IF running # <<>> THEN <<>> ELSE Those(rs, {r \in Reqs : ~Finished(r)} \ exclude)

\* filter_batch of the last prefill batch.
Joining(rs, exclude) == Those(rs, {r \in Reqs : ~Finished(r)} \ exclude)

\* The chunked request gives its pages to the tree and its row back; the
\* unfinished requests of the last prefill batch join the running batch, or
\* become it, with the batch_is_full of a new batch.
MergeLast ==
  /\ pc = "start" /\ paused = "no" /\ ~Idle
  /\ LET u == Unfinish(cache, chunked)
         extend == last.mode = "extend"
         keep == IF extend THEN Joining(last.reqs, {chunked, last.chunked}) ELSE <<>>
         fewer == extend /\ Len(keep) < Len(last.reqs)
         new == running = <<>> /\ keep # <<>>
     IN  /\ cache' = IF chunked = None THEN cache ELSE u.cache
         /\ req' = IF chunked = None THEN req ELSE [req EXCEPT ![chunked] = u.req]
         /\ rows' = IF chunked = None THEN rows ELSE rows + 1
         /\ running' = running \o keep
         /\ full' = (full /\ ~fewer /\ ~new)
  /\ pc' = "prefill"
  /\ UNCHANGED <<args, content, waiting, chunked, last, cur, results, adder, ratio, paused>>

\* What the PrefillAdder reserves for the running requests.
Reserved == SumFunction([r \in ToSet(running) |-> (MaxNew[r] - req[r].out) * ratio])

\* add_chunked_req: the next chunk is as long as the budgets allow.
ChunkLen(extend, a) == Min({extend, a.chunk, AvailableSize(cache) + cache.evictable - a.total})

\* _update_prefill_budget
Spend(a, r, len, new) == [a EXCEPT !.can = Append(@, r), !.total = @ + CeilPaged(len) + new,
                                   !.cur = @ + CeilPaged(len), !.input = @ - CeilPaged(len),
                                   !.chunk = @ - CeilPaged(len)]

\* get_new_batch_prefill up to the queue.
BeginPrefill ==
  /\ pc = "prefill"
  /\ LET skip == (full \/ waiting = <<>>) /\ chunked = None
         noRow == MaxRunning - Len(running) <= 0 /\ chunked = None
         mixed == IF args.mixed THEN Len(running) ELSE 0
         a == [can |-> <<>>, idx |-> 1, total |-> mixed + Reserved, cur |-> mixed,
               input |-> MaxPrefillTokens - mixed, chunk |-> args.chunk - mixed]
         extend == SeqLen(chunked) - req[chunked].prefix
         len == ChunkLen(extend, a)
     IN  \/ /\ skip \/ noRow
            /\ pc' = "decode" /\ full' = (full \/ ~skip)
            /\ UNCHANGED <<req, chunked, adder>>
         \/ /\ ~skip /\ ~noRow /\ chunked = None
            /\ pc' = "admit" /\ adder' = a
            /\ UNCHANGED <<req, chunked, full>>
         \/ /\ chunked # None
            /\ pc' = "admit"
            /\ adder' = Spend(a, chunked, len, IF len < extend THEN 0 ELSE MaxNew[chunked])
            /\ req' = [req EXCEPT ![chunked].fill = req[chunked].prefix + len]
            /\ chunked' = IF len < extend THEN chunked ELSE None
            /\ UNCHANGED full
  /\ UNCHANGED <<args, cache, content, waiting, running, rows, last, cur, results, ratio, paused>>

RemTotal(c, a) == AvailableSize(c) + c.evictable - a.total
RemCur(c, a) == AvailableSize(c) + c.evictable - a.cur

\* budget_state after a request was added.
BudgetState(c, a) == IF RemTotal(c, a) <= 0 \/ RemCur(c, a) <= 0 THEN "no_token"
                     ELSE IF a.input <= 0 \/ a.chunk <= 0 THEN "other" ELSE "continue"

\* add_one_req for a request that matched node n in tree c: whether it is
\* added with all its tokens, with a chunk of them, or why not.  The budget
\* is looked at again once the prefix is locked.
AddOneReq(r, c, n, a) ==
  LET extend == SeqLen(r) - Len(n)
      total == extend + Max({MaxNew[r] - req[r].out, 0})
      rem == Min({RemTotal(c, a), RemTotal(IncLockRef(c, n), a)})
      trunc == FloorPaged(a.chunk)
  IN  IF total >= rem THEN [result |-> "no_token", len |-> 0]
      ELSE IF CeilPaged(extend) >= a.input /\ a.can # <<>> THEN [result |-> "other", len |-> 0]
      ELSE IF CeilPaged(extend) <= a.chunk THEN [result |-> "all", len |-> extend]
      ELSE IF trunc <= 0 THEN [result |-> "other", len |-> 0]
      ELSE [result |-> "chunk", len |-> trunc]

\* The next request of the waiting queue: it is matched, which may split a
\* node, and added, or the queue is left for this iteration.
AdmitNext ==
  /\ pc = "admit"
  /\ LET done == adder.idx > Len(waiting)
         noRow == Len(adder.can) >= MaxRunning - Len(running)
         r == waiting[adder.idx]
         n == CachedPrefix(cache, MatchKey(r))
         c == MatchPrefix(cache, MatchKey(r))
         add == AddOneReq(r, c, n, adder)
         d == IncLockRef(c, n)
         a == Spend(adder, r, add.len, IF add.result = "all" THEN MaxNew[r] ELSE 0)
     IN  \/ /\ done \/ full \/ noRow
            /\ pc' = "batch" /\ full' = (full \/ ~done)
            /\ UNCHANGED <<cache, req, adder, chunked>>
         \/ /\ ~done /\ ~full /\ ~noRow /\ add.len = 0
            /\ cache' = c
            /\ pc' = "batch" /\ full' = (add.result = "no_token")
            /\ UNCHANGED <<req, adder, chunked>>
         \/ /\ ~done /\ ~full /\ ~noRow /\ add.len > 0
            /\ cache' = d
            /\ req' = [req EXCEPT ![r] = [@ EXCEPT !.prefix = Len(n), !.prot = Len(n), !.node = n,
                                                   !.pages = CachedPages(c, n), !.holds = TRUE,
                                                   !.fill = Len(n) + add.len]]
            /\ adder' = [a EXCEPT !.idx = @ + 1]
            /\ chunked' = IF add.result = "chunk" THEN r ELSE chunked
            /\ full' = (BudgetState(d, a) = "no_token")
            /\ pc' = IF add.result = "chunk" /\ chunked # None THEN "crashed"
                     ELSE IF BudgetState(d, a) = "continue" THEN "admit" ELSE "batch"
  /\ UNCHANGED <<args, content, waiting, running, rows, last, cur, results, ratio, paused>>

\* Pages for requests that grow from from[r] to to[r] tokens: alloc_extend,
\* alloc_decode.  They are taken from the free list in the order of the batch.
Allocate(c, rs, from, to) ==
  LET n == [i \in 1 .. Len(rs) |-> PageCount(to[rs[i]]) - PageCount(from[rs[i]])]
      start == [i \in 1 .. Len(rs) |-> SumFunctionOnSet(n, 1 .. i - 1)]
      new == FreePages(c, SumFunction(n))
      ok == SumFunction(n) * PageSize <= AvailableSize(c)
  IN  [ok |-> ok,
       cache |-> IF ok THEN Take(c, ToSet(new)) ELSE c,
       pages |-> [r \in ToSet(rs) |->
                    LET i == CHOOSE j \in 1 .. Len(rs) : rs[j] = r
                    IN  req[r].pages \o (IF ok THEN SubSeq(new, start[i] + 1, start[i] + n[i]) ELSE <<>>)]]

\* The forward pass writes tokens from[r]+1 .. to[r] of every request.
Written(from, to, pages) ==
  [p \in Pages |->
     LET Hits(r) == {i \in 1 .. Len(pages[r]) :
                       pages[r][i] = p /\ i * PageSize > from[r] /\ (i - 1) * PageSize < to[r]}
         writers == {r \in DOMAIN pages : Hits(r) # {}}
     IN  IF writers = {} THEN content[p]
         ELSE LET r == CHOOSE x \in writers : TRUE
                  i == CHOOSE x \in Hits(r) : TRUE
              IN  Ids(r, Min({i * PageSize, to[r]}))]

\* prepare_for_extend with alloc_for_extend; with mixed chunks the running
\* requests that are not finished decode one token in the same batch.
NewBatch ==
  /\ pc = "batch" /\ adder.can # <<>>
  /\ LET rs == adder.can
         dec == IF args.mixed THEN Unfinished(running) ELSE <<>>
         from == [r \in Reqs |-> IF Contains(dec, r) THEN req[r].kv ELSE req[r].prefix]
         to == [r \in Reqs |-> IF Contains(dec, r) THEN req[r].kv + 1 ELSE req[r].fill]
         extend == SumFunction([i \in 1 .. Len(rs) |-> to[rs[i]] - from[rs[i]]])
         batch == [mode |-> "extend", reqs |-> rs \o dec, chunked |-> chunked, decoding |-> ToSet(dec)]
     IN  \E c \in EvictFromTreeCache(cache, IF PageSize = 1 THEN extend ELSE extend + Len(rs) * PageSize) :
           LET m == Allocate(c, rs, from, to)
           IN  \E d \in EvictFromTreeCache(m.cache, Len(dec) * PageSize) :
                 LET k == Allocate(d, dec, from, to)
                     pages == [r \in ToSet(rs) \cup ToSet(dec) |-> IF r \in ToSet(rs) THEN m.pages[r] ELSE k.pages[r]]
                 IN  /\ cache' = k.cache
                     /\ content' = Written(from, to, pages)
                     /\ req' = [r \in Reqs |->
                           [req[r] EXCEPT !.pages = IF r \in DOMAIN pages THEN pages[r] ELSE @,
                                          !.kv = IF r \in DOMAIN pages THEN to[r] ELSE @,
                                          !.fill = IF Contains(dec, r) THEN SeqLen(r) ELSE @,
                                          !.retracted = @ /\ ~Contains(rs, r),
                                          !.chunks = IF r = chunked THEN @ + 1 ELSE @]]
                     /\ rows' = rows - Len(rs)
                     /\ pc' = IF m.ok /\ k.ok /\ rows >= Len(rs) THEN "process" ELSE "crashed"
                     /\ cur' = batch /\ results' = Append(results, batch)
         /\ waiting' = Those(waiting, Reqs \ ToSet(rs))
         /\ running' = IF args.mixed THEN <<>> ELSE running
  /\ adder' = NoAdder
  /\ UNCHANGED <<args, full, chunked, last, ratio, paused>>

NoPrefill == /\ pc = "batch" /\ adder.can = <<>>
             /\ adder' = NoAdder /\ pc' = "decode"
             /\ UNCHANGED <<args, cache, content, req, waiting, running, full, chunked, rows, last, cur,
                            results, ratio, paused>>

---------------------------------------------------------------------------
(* update_running_batch. *)

\* new_page_count_next_decode: the requests that need a new page for their
\* next token, reckoned from the length the scheduler knows, of which ahead
\* tokens have no KV yet.
NeedingPage(rs, ahead) == {r \in ToSet(rs) : PageSize = 1 \/ (SeqLen(r) - ahead) % PageSize = 0}

NewPageCount(rs) == Cardinality(NeedingPage(rs, IF args.overlap THEN 0 ELSE 1))

\* The batch decodes whether or not there is room.
DecodeMemAlways(c, rs) == TRUE

DecodeMemOk(c, rs) == NewPageCount(rs) * PageSize <= AvailableSize(c)

\* retract_decode gives up the requests with the fewest output tokens first.
MoreOutput(a, b) == \/ req[a].out > req[b].out
                    \/ req[a].out = req[b].out /\ Len(Prompt[a]) < Len(Prompt[b])

\* The sort is stable.
Sorted(rs) ==
  LET Before(i, j) == MoreOutput(rs[i], rs[j]) \/ (~MoreOutput(rs[j], rs[i]) /\ i < j)
  IN  {[i \in DOMAIN rs |-> rs[p[i]]] :
         p \in {p \in Bijection(DOMAIN rs, DOMAIN rs) : \A i, j \in DOMAIN rs : i < j => Before(p[i], p[j])}}

CheckDecodeMem ==
  /\ pc = "decode"
  /\ LET rs == Unfinished(running)
     IN  IF rs = <<>>
         THEN /\ running' = <<>> /\ full' = (full /\ running = <<>>)
              /\ cur' = NoBatch /\ pc' = "process" /\ UNCHANGED <<cache, ratio>>
         ELSE \E c \in EvictFromTreeCache(cache, NewPageCount(rs) * PageSize) :
                /\ cache' = c /\ UNCHANGED cur
                /\ full' = (full /\ Len(rs) = Len(running))
                /\ running' \in IF DecodeMemOk(c, rs) THEN {rs} ELSE Sorted(rs)
                /\ ratio' \in {x \in Ratios : x <= ratio}
                /\ pc' = IF DecodeMemOk(c, rs) THEN "forward" ELSE "retract"
  /\ UNCHANGED <<args, content, req, waiting, chunked, rows, last, results, adder, paused>>

\* release_req and the queue: a request gives up its pages, which are not
\* inserted into the tree, and waits again.
Retract(r, rest, steps) ==
  \E c \in EvictFromTreeCache(Finish(cache, r, req[r].out, FALSE), steps * RetractSteps) :
     /\ cache' = c
     /\ req' = [req EXCEPT ![r] = [Released(@) EXCEPT !.retracted = TRUE, !.chunks = 0]]
     /\ rows' = rows + 1
     /\ running' = rest
     /\ waiting' = Append(waiting, r)
     /\ full' = FALSE

\* One round of the loop of retract_decode; the last request stays.
RetractDecode ==
  /\ pc = "retract"
  /\ IF Len(running) > 1
     THEN /\ Retract(Last(running), Front(running), Len(running) - 1)
          /\ pc' = "recheck" /\ UNCHANGED ratio
     ELSE /\ ratio' \in Ratios
          /\ pc' = IF AvailableSize(cache) > 0 THEN "forward" ELSE "crashed"
          /\ UNCHANGED <<cache, req, rows, running, waiting, full>>
  /\ UNCHANGED <<args, content, chunked, last, cur, results, adder, paused>>

Recheck ==
  /\ pc = "recheck"
  /\ \E c \in EvictFromTreeCache(cache, NewPageCount(running) * PageSize) :
       /\ cache' = c
       /\ ratio' \in IF DecodeMemOk(c, running) THEN Ratios ELSE {ratio}
       /\ pc' = IF DecodeMemOk(c, running) THEN "forward" ELSE "retract"
  /\ UNCHANGED <<args, content, req, waiting, running, full, chunked, rows, last, cur, results, adder,
                 paused>>

\* prepare_for_decode and run_batch.
Decode ==
  /\ pc = "forward"
  /\ LET from == [r \in Reqs |-> req[r].kv]
         to == [r \in Reqs |-> req[r].kv + 1]
         batch == [mode |-> "decode", reqs |-> running, chunked |-> None, decoding |-> {}]
     IN  \E c \in EvictFromTreeCache(cache, Len(running) * PageSize) :
           LET m == Allocate(c, running, from, to)
           IN  /\ cache' = m.cache
               /\ content' = Written(from, to, m.pages)
               /\ req' = [r \in Reqs |-> IF r \in DOMAIN m.pages
                                         THEN [req[r] EXCEPT !.pages = m.pages[r], !.kv = @ + 1]
                                         ELSE req[r]]
               /\ pc' = IF m.ok THEN "process" ELSE "crashed"
               /\ cur' = batch /\ results' = Append(results, batch)
  /\ UNCHANGED <<args, waiting, running, full, chunked, rows, last, adder, ratio, paused>>

---------------------------------------------------------------------------
(* Results: of this batch in the normal loop, of the last one with overlap. *)

\* A request that was retracted while its pass was in flight is not skipped.
SkippedFinishedOnly(r) == Finished(r)

Skipped(r) == Finished(r) \/ req[r].retracted

\* process_batch_result for the first request left of a batch: it gets a
\* token and ends, or its prompt is cached, or its chunk is accounted for.
ProcessOne(stop) ==
  LET b == Head(results)
      r == Head(b.reqs)
      q == [req[r] EXCEPT !.out = @ + 1]
      ends == q.toFinish \/ q.out >= MaxNew[r] \/ stop
      prompt == b.mode = "extend" /\ r \notin b.decoding
      midChunk == b.mode = "extend" /\ req[r].chunks > 0
      goOn == ~Skipped(r) /\ ~midChunk
  IN  /\ results' = <<[b EXCEPT !.reqs = Tail(@)]>> \o Tail(results)
      /\ \/ /\ ~goOn
            /\ stop = FALSE
            /\ req' = [req EXCEPT ![r].chunks = IF Skipped(r) THEN @ ELSE @ - 1]
            /\ UNCHANGED <<cache, rows>>
         \/ /\ goOn /\ ends
            /\ cache' = Finish(cache, r, q.out, TRUE)
            /\ req' = [req EXCEPT ![r] = [Released(q) EXCEPT !.finished = TRUE, !.output = TRUE,
                                                            !.answers = IF q.output THEN @ ELSE @ + 1]]
            /\ rows' = rows + 1
         \/ /\ goOn /\ ~ends /\ prompt
            /\ cache' = Unfinish(cache, r).cache
            /\ req' = [req EXCEPT ![r] = [Unfinish(cache, r).req EXCEPT !.out = q.out]]
            /\ UNCHANGED rows
         \/ /\ goOn /\ ~ends /\ ~prompt
            /\ req' = [req EXCEPT ![r] = q]
            /\ UNCHANGED <<cache, rows>>

\* Whether this iteration has results to process.
Ready == results # <<>> /\ IF args.overlap THEN last # NoBatch ELSE cur # NoBatch

ProcessResult ==
  /\ pc \in {"process", "pause"} /\ Ready /\ Head(results).reqs # <<>>
  /\ \E stop \in BOOLEAN : ProcessOne(stop)
  /\ UNCHANGED <<args, content, waiting, running, full, chunked, last, cur, adder, ratio, paused, pc>>

EndIteration ==
  /\ pc = "process" /\ (Ready => Head(results).reqs = <<>>)
  /\ results' = IF Ready THEN Tail(results) ELSE results
  /\ last' = cur
  /\ pc' = "start"
  /\ UNCHANGED <<args, cache, content, req, waiting, running, full, chunked, rows, cur, adder, ratio, paused>>

---------------------------------------------------------------------------
(* pause_generation and continue_generation. *)

Pause(mode) ==
  /\ pc = "start" /\ paused = "no"
  /\ paused' = mode /\ pc' = "pause"
  /\ UNCHANGED <<args, cache, content, req, waiting, running, full, chunked, rows, last, cur, results,
                 adder, ratio>>

\* The results in flight are processed first (ProcessResult); the engine
\* forgets the last batch; in mode retract the running requests wait again.
PauseRest ==
  /\ pc = "pause" /\ (args.overlap /\ Ready => Head(results).reqs = <<>>)
  /\ LET drop == args.overlap /\ last # NoBatch
     IN  /\ results' = IF drop THEN Tail(results) ELSE results
         /\ last' = IF drop THEN NoBatch ELSE last
         /\ cur' = IF drop THEN NoBatch ELSE cur
  /\ IF paused = "retract"
     THEN running' = Unfinished(running) /\ full' = FALSE /\ chunked' = None /\ pc' = "retractall"
     ELSE UNCHANGED <<running, full, chunked>> /\ pc' = "start"
  /\ UNCHANGED <<args, cache, content, req, waiting, rows, adder, ratio, paused>>

RetractAll ==
  /\ pc = "retractall"
  /\ IF running = <<>>
     THEN pc' = "start" /\ UNCHANGED <<cache, req, rows, running, waiting, full>>
     ELSE Retract(Head(running), Tail(running), Len(running)) /\ UNCHANGED pc
  /\ UNCHANGED <<args, content, chunked, last, cur, results, adder, ratio, paused>>

Continue == /\ pc = "start" /\ paused # "no" /\ paused' = "no"
            /\ UNCHANGED <<args, cache, content, req, waiting, running, full, chunked, rows, last, cur,
                           results, adder, ratio, pc>>

\* self_check_during_idle resets new_token_ratio.
IdleCheck == /\ pc = "start" /\ paused = "no" /\ Idle
             /\ ratio' \in Ratios
             /\ UNCHANGED <<args, cache, content, req, waiting, running, full, chunked, rows, last, cur,
                            results, adder, paused, pc>>

Step == \/ MergeLast \/ BeginPrefill \/ AdmitNext \/ NewBatch \/ NoPrefill \/ CheckDecodeMem
        \/ RetractDecode \/ Recheck \/ Decode \/ ProcessResult \/ EndIteration
        \/ PauseRest \/ RetractAll

Next == \/ Step
        \/ \E r \in Reqs : Receive(r) \/ AbortRequest(r)
        \/ FlushCache
        \/ \E mode \in args.pauses : Pause(mode)
        \/ Continue
        \/ IdleCheck

Spec == Init /\ [][Next]_vars

\* The event loop is a thread of its own: it takes a step whenever it can
\* (weak fairness of Step, whose ENABLED is written out); a paused engine is
\* continued.
CanStep == pc \notin {"start", "crashed"} \/ (pc = "start" /\ paused = "no" /\ ~Idle)
Fairness == ([]<>~CanStep \/ []<><<Step>>_vars) /\ WF_vars(Continue)
FairSpec == Spec /\ Fairness

---------------------------------------------------------------------------
(* Properties. *)

\* The variables have their types: no page is in the free list twice, every
\* row number and chunk count is in its range.
TypeOK ==
  /\ cache.free \in [Pages -> 0 .. 1] /\ cache.lock \in [cache.nodes -> Nat]
  /\ rows \in 0 .. MaxRunning
  /\ \A r \in Reqs : /\ req[r].out \in 0 .. MaxNew[r] /\ req[r].chunks \in 0 .. 2
                      /\ req[r].holds => req[r].prot <= Len(req[r].pages) * PageSize
  /\ chunked \in Reqs \cup {None} /\ Len(results) <= 2
  /\ pc \in {"start", "prefill", "admit", "batch", "decode", "retract", "recheck", "forward",
             "process", "pause", "retractall", "crashed"}

Holders == {r \in Reqs : req[r].holds}

\* self_check_during_busy, page by page: a page is free, cached, or the
\* private page of one request, and only one of these.
PagesConserved ==
  \A p \in Pages :
    cache.free[p]
      + Cardinality({k \in DOMAIN cache.kv : cache.kv[k] = p})
      + Cardinality({h \in Holders \X (1 .. Cardinality(Pages)) :
                       /\ h[2] > req[h[1]].prot \div PageSize /\ h[2] <= Len(req[h[1]].pages)
                       /\ req[h[1]].pages[h[2]] = p}) = 1

\* A node is locked once for every request that holds it or a node below.
LocksExact ==
  \A n \in cache.nodes :
    cache.lock[n] = Cardinality({r \in Holders : IsPrefix(n, req[r].node)})

\* The sizes that admission and retraction reckon with are the real ones.
SizesExact == TypeOK /\ CountersExact(cache) /\ WellFormed(cache)

\* What a request reads: its cached prefix is in the tree with the very
\* pages of its row, and every page of it holds the KV of its own tokens,
\* whoever computed them.
RowsRead ==
  \A r \in Holders :
    /\ CachedPrefix(cache, Ids(r, req[r].prot)) = Ids(r, req[r].prot)
    /\ CachedPages(cache, Ids(r, req[r].prot)) = SubSeq(req[r].pages, 1, PageCount(req[r].prot))
    /\ \A i \in 1 .. Len(req[r].pages) :
         content[req[r].pages[i]] = Ids(r, Min({i * PageSize, Max({req[r].kv, req[r].prefix})}))

\* The memory that admission and retraction promise is there: no allocation
\* fails, no second request is chunked.
NeverCrashes == pc # "crashed"

\* A request that was accepted and not answered is in one place, once: the
\* queue, the running batch, or the prefill batch that is not merged yet.
Places(r) == LET s == waiting \o running \o (IF cur.mode = "extend" THEN cur.reqs ELSE <<>>)
             IN  {i \in DOMAIN s : s[i] = r}
NoRequestLost ==
  pc = "start" => \A r \in Reqs : req[r].sent /\ req[r].answers = 0 => Cardinality(Places(r)) = 1

\* Every request is answered at most once, also when it is aborted,
\* retracted or finished while a pass is in flight, and a request that is
\* answered holds nothing.
AnsweredOnce ==
  /\ \A r \in Reqs : req[r].answers <= 1 /\ (req[r].answers = 1 => ~req[r].holds)
  /\ pc = "start" => rows = MaxRunning - Cardinality(Holders)

\* Every request is answered.
AllAnswered == \A r \in Reqs : req[r].sent ~> req[r].answers = 1
=============================================================================
