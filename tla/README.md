# In-network collectives and the SGLang scheduler: a TLA+ verification project

This directory specifies and verifies two parts of this repository: the
in-network collectives of `rdma_incc/`, where a programmable switch adds up the
payloads of RDMA packets on their way between servers, and the core of the
serving runtime in `sglang/`, the scheduler with its radix cache and KV page
allocator. At this commit nothing in `sglang/` calls `rdma_incc`; the two are
separate systems, and so are their models.

## The system

### In-network collectives

| Component | State | Operations | Hard because |
|---|---|---|---|
| Allreduce data plane (`switch/allreduce_ingress.p4`, `aggregator.p4`, `allreduce_sendout.p4`, `allreduce_egress.p4`) | per group a window of slots: `reg_bitmap` (version, bitmap), `aggregator_array` (even words, odd words) | first pass (count, add, maybe recirculate), second pass (read the odd words, multicast or unicast), turn an acknowledgement around | two passes that are not atomic; retransmissions and duplicates; slots and 24-bit sequence numbers are reused |
| RC queue pairs (hardware, configured by `server/rdma.cpp`, `rdma_group.cpp`) | send window, expected number, retry count | transmit, time out, handle ACK, NAK and result | loss anywhere, timers that fire too early, wrap-around, error state |
| Allreduce controller (`switch/allreduce_grpc.py`) | free segments, free group numbers, free nodes, use of recirculation ports, undo lists; the tables of the switch | `CreateGroup`, `DestroyGroup` | long sequences of requests; a request that raises half-way; stale registers |
| Server library (`server/rdma_group.cpp`) | queue depths, block counter | `allreduce`: split, post, poll; rendezvous; return of the groups | window accounting over two queue pairs, agreement between ranks, error completions |
| Broadcast data plane (`switch/broadcast_egress.p4`, `_sendout`, `_ingress`) | per group `reg_bitmap`, `reg_psn`, `reg_prev_psn` | replicate the root's packets; merge the receivers' answers into one | answers of different age, lost and repeated ones, numbers that wrap, registers left by an earlier group |
| Life of a group (`rdma_group.cpp`: constructor, `exchange_info_socket`, destructor) | sockets, group numbers held by rank 0 | rendezvous, `CreateGroup` per queue pair, connect, leave | no barriers, refused and failing RPCs, several jobs on one controller |
| NCCL-tests integration (`nccl-tests/src/inc_all_reduce.cu`) | ring of buffers, one CUDA event each, three streams, completion counters | copy in, send, copy out, without blocking | buffer reuse over several asynchronous queues and over calls |
| Reduce data plane and controllers of reduce and broadcast (`switch/reduce_*`, `*_grpc.py`) | as allreduce | as allreduce | as allreduce |
| Benchmark driver (`server/main.cpp`, `inc.hpp`) | queue depths | push/poll loop, socket barrier | shutdown order |

How they interact: rank 0 collects the addresses of all ranks' queue pairs and
asks the controller for a group per queue pair. The controller reserves
resources, writes the tables, clears the bitmap registers and answers with the
switch's address and *the rank's own queue pair number*: every rank's queue pair
is connected, through the switch, to itself. A rank sends its data as RDMA
WRITEs; the switch holds it back until all ranks' packets with the same sequence
number are in and sends the sum to all of them; each rank's card acknowledges
the WRITE that carries the sum, and the switch turns this acknowledgement around
to the same rank, where it completes the rank's own request. No other
acknowledgement exists. A rank that waits for a straggler, or whose result was
lost, simply times out and retransmits, and the switch answers a retransmission
from the slot.

What makes it correct: each contribution is added exactly once although packets
are repeated; a slot is not reused while someone may still need it; completion
means that the result is in the buffer; the ranks agree on which piece of the
buffer a sequence number stands for; the controller's groups do not share slots,
numbers or nodes, exist when they are needed and come back; a merged
acknowledgement promises only what everybody has; a buffer of the pipeline is
not overwritten while a copy or a message needs it.

### SGLang scheduler

| Component | State | Operations | Hard because |
|---|---|---|---|
| Radix cache (`mem_cache/radix_cache.py`) and page allocator (`allocator.py`, `common.py`) | tree of token sequences with lock counts, `evictable_size_`, `protected_size_`; free pages | match (with split), insert, lock, unlock, evict, allocate, free | shared prefixes, duplicates that are freed, partial pages |
| Scheduler (`managers/scheduler.py`, `schedule_batch.py`, `schedule_policy.py`, output processor) | waiting queue, running batch, chunked request, last and current batch, result queue, requests' rows and pages | both event loops: receive, admit, prefill in chunks, mix, decode, retract, process results; abort, flush, pause, continue | results are applied one iteration late, to requests that have finished, been aborted or been retracted since; admission by estimates; a pool at its limit |

What makes it correct: every page and row has exactly one owner, locks and sizes
are what the requests' references say, a forward pass reads the keys and values
of its own tokens, no allocation fails, and every accepted request is answered
exactly once.

Around the scheduler are the tokenizer and detokenizer managers, the grammar
queue, other caches, disaggregation, parallelism, models and the HTTP front end;
`PROJECT.json` lists them with the reason why they are not modelled.
It also lists the hazards of all parts line by line.

## Modules

| Module | Models |
|---|---|
| `AllreduceSwitch` | One group's registers and what a packet does to them in either pass. |
| `AllreduceSpec` | What allreduce promises, without a network: packets are offered, their exact sums are delivered in order to every rank. |
| `IncAllreduce` | Composition: `AllreduceSwitch`, one queue pair per rank, lossy FIFO links. |
| `IncAllreduceInv` | The inductive invariant `IInv`. |
| `CommonLemmas` | Facts about remainders, lists and sums that the proofs share. |
| `AllreduceProof`, `BroadcastAckProof`, `RDMAGroupProof`, `GroupLifetimeProof`, `SegmentPipelineProof`, `SchedulerProof`, `SchedulerMemoryProof` | Proofs. `AllreduceProof` is about the switch: `IncAllreduce` and `GroupController`, whose specification is called `CtlSpec` so that one module can use both. |
| `SegmentAllocator` | The controller's memory allocator, as operators on the list of free segments. |
| `GroupController` | The controller, with the tables it writes. |
| `RDMAGroup` | The `allreduce` loop of the server library on two queue pairs. |
| `BroadcastSpec`, `BroadcastAck` | A reliable broadcast; the merging of answers in the egress pipeline, with root, receivers and lossy links. |
| `GroupLifetime` | The life of an `RDMAGroup` object on the ranks of several jobs that share a controller. |
| `SegmentPipeline` | `incAllReduce` with its three CUDA streams. |
| `RadixCache` | The radix cache and the page allocator, as operators on one record. |
| `Scheduler` | The scheduler over `RadixCache`. |
| `MC*` | Bounds and values for TLC. |

### AllreduceSwitch, IncAllreduce

A payload word is the *set of contributions* that were added up in it:
`<<r, i>>` is what rank `r` puts into packet `i`, and a sum that has a
contribution twice also contains `Twice`. The even words (`d0`, `agg0`) and the
odd words (`d1`, `agg1`) of a payload are kept apart because they leave the
registers in different passes. Packets are numbered without bound; all that
switch and cards ever look at is `Psn(idx)`, the number modulo `PsnMod` (2^24 in
the code), and the slot, the number modulo the window.

`FirstPass` is the whole first pass: `BitmapUpdate`, `Aggregated` (the three
outcomes of `agg_action`, in its order of priority), `Full`, and the queueing of
`Recirculated` at the recirculation port, or the drop. The recirculated packet
then waits in `recir` as long as it likes. `SwitchSecondPass` reads the odd
words and hands the packet to its `Receivers`. `SwitchBackward` is `swap_addr`.

The queue pairs are hardware. Their go-back-N rules are marked external in the
map; they come from the attributes that `move_qp_to_rts` sets and from what the
code relies on. `Send` reads the buffer when it transmits, and results are
written into the same buffer (`allreduce` works in place), so that a
retransmission may carry a sum. Any packet may be lost at any of three places,
queues drop at their tail, timers fire whenever something is outstanding, and a
rank whose retries are exhausted stops for good. A card that merges
acknowledgements is covered by the loss of acknowledgements.

### SegmentAllocator, GroupController

Addresses are counted in slots. An RPC is one step, because the server has one
worker. `CreateGroupRaises` is the request that fails at `ip2port`: everything
before the exception stays, and the undo list is lost; what it took is recorded
in the history variable `leaked`. Of the registers the bits of `reg_bitmap` are
kept, as the set `dirty` of pairs of a slot and a member; `Traffic` is a packet of
a group that sets one, and the history variable `sent` notes which bits a group's
own packets have set since it was created. `FreeSeg` keeps the code's order of
operations, including the lookup of the right neighbour under an index that is
off by one after the left neighbour was deleted.

### RDMAGroup

Sizes are in bytes, with `Mtu` bytes to a packet. One turn of the loop is `Push`
and `Poll`; splitting them further would add nothing, since the loop sees the
cards only through the completion queues. The cards and the switch are
abstracted to what `IncAllreduce` establishes: the messages of a queue pair
complete in order, each once every rank has sent the message with that number.
A queue pair may give up, and then flushes its messages.

### BroadcastAck

The switch keeps no data of a broadcast. `Merge` is the way of an answer through
the whole egress pipeline: the round's bitmap, the oldest number of the round, and
what the root is told. `broadcast_ack_egress` marks an ACK that is not the last of
its round to be dropped, but `restore_table` is applied next, has an entry for
every member (`broadcast_grpc.py:88-91`) and takes the mark off again
(`broadcast_egress.p4:309`, `317`): every answer goes on to the root, with the
number of the round before if its own round is not complete.

`md.psn - reg < 0` is written on operands of type `bit<32>`, with the comment
"signed". The constant `Signed` says how it is compiled. As declared it is
unsigned and never true, and `broadcast_unsigned` shows the harm; with `Signed` it
is what the comment says, the sign of a difference of numbers that were shifted to
the left so that their highest bit is the sign. Everything else the project says
about broadcast is under the condition that the comparison is signed, or, in the
proofs, that there is only one receiver. `Init` leaves `psn` arbitrary:
`CreateGroup` resets `reg_bitmap` and `reg_prev_psn` only.

### GroupLifetime

One action for each step of `exchange_info_socket`, for a call and its return,
and for the steps of the destructor. The protocol is reduced to what
`IncAllreduce` shows, with answers that may be lost; a queue pair without an answer
gives up after its retries. `ModifyQPs` makes any of the rank's queue pairs ready
to send (`rts`), and perhaps not all: the results of `ibv_modify_qp` are not looked
at, and an address that is none may well be refused. Messages are counted on a
queue pair that is not ready, too, since the result of `ibv_post_send` is not
looked at either; nobody sends them and no timer runs for them. An RPC may fail before or after the controller has
executed it. The NULL group of a refused request is taken for a group by the
code, which then reads members that the reply does not have: undefined, and
modelled as a crash of rank 0 or as an address that leads nowhere. A client whose
rank 0 has died reads zeros from the closed connection, and takes them for
addresses. Queue pair numbers are not reused.

### SegmentPipeline

The four steps of the host loop are separate actions, and streams and cards run
in between. A stream is a queue of operations; an event notes how many operations
its stream had been given, which is all that `cudaEventQuery` and
`cudaStreamWaitEvent` depend on. Buffers hold the name of the segment that is in
them. One rank is modelled: messages complete whenever the environment likes, in
order, and that ranks agree is `SameNumberSamePiece`.

### RadixCache, Scheduler

A tree node is the sequence of tokens from the root to its end, so the tree is a
set of sequences; pages are model values, and the ghost `content` says which
tokens a page was last written for. Which leaf `evict` takes first is left open.
An iteration of the event loop is cut where the code loops over requests, and
client messages arrive between iterations, as in `process_input_requests`. The
model's output is one token, `Sampled`; any batch may end any of its requests.
`new_token_ratio` is one of its two ends. `args` is chosen from `Configs` in the
initial state, so one run covers several configurations.

Left out: LoRA and priority admission, preemption, hierarchical-cache hooks,
sliding-window and Mamba pools, speculative decoding, pipeline and data
parallelism, embeddings, grammars, the queue limit, the `ignore_eos` path of
admission and all policies but first come, first served.

## Runs

| Run | Shows |
|---|---|
| `core` | 2 ranks, 2 slots, 4 sequence numbers, 5 packets, queues of 1. Inductive invariant (types and exact results included), held slots, reduced data never counted, completion means result, half the window is enough, refinement of `AllreduceSpec`; all ranks complete once faults cease. |
| `core_window` | 4 slots, so that a rank has two packets under way and a lost result is noticed by a NAK; 5 packets, 8 sequence numbers, one retry after which a rank stops for good: exact results. |
| `controller_mixed` | 4 slots, windows of 1 and 2 slots (3 is an invalid size), 3 group numbers, 3 nodes, one request that raises: nothing is lost or given out twice, tables agree, slots are exclusive, and their registers hold what the group's own packets have set. While all windows had one size, a refusal is honest. |
| `library_flow` | 2 ranks, calls of 21, 3 and 7 bytes on one and two queue pairs, one rank whose queue pairs may fail: flow control, agreement, results of healthy calls, termination without failures. |
| `library_status` | **Violation.** Error completions are counted as completions. |
| `broadcast` | 2 receivers, 7 packets, 6 sequence numbers, signed comparison: merged answers promise only what all have; refinement of `BroadcastSpec`; completion once faults cease. |
| `broadcast_unsigned` | **Violation.** With the comparison as declared, unsigned, a merged answer promises what a receiver does not have. |
| `group_lifetime` | A job of two ranks and one of one rank, two group numbers, one failing RPC, queue pairs that do not become ready: groups exist when messages need them, results find connected queue pairs, groups are returned after everything was reduced, to the right owner; every process ends, but for one that waits on a queue pair of its own that never became ready to send. |
| `segment_pipeline` | Three buffers, four calls of up to five segments, two queue pairs, two messages in flight: buffers, results, numbering, termination. |
| `sched_tokens` | 3 requests with shared prefixes, a pool of 8 tokens, pages of one token; normal, overlapped, mixed and pausing configurations. |
| `sched_live` | Pages of two tokens, both event loops: pages are conserved, every accepted request is answered. |
| `sched_inplace` | **Violation.** Pausing in place under overlap loses a prefill batch. |

Bounds. With two slots and four sequence numbers a group of five packets uses
each slot at least twice and wraps the numbers once; two ranks already show a
rank a window ahead of another. More ranks, packets and larger windows are the
business of the proofs. `MaxInFlight` bounds the packets on all links together
(a state constraint, so that longer queues are cut off rather than forbidden);
`QueueCap` is part of the model, a port's queue with tail drop; that it is 1 makes
drops frequent and overtaking a matter of the three kinds of queues, and longer
queues are the business of the proofs. Exhausted retries (`GiveUp`, after
`RetryCnt` retransmissions) are in `core_window`; `core` has none, because it
checks `Completes`, and neither constraint nor symmetry. `MaxBits` bounds the bits
that are set in all registers together: states with more are checked and not
continued; one bit is enough to survive its group, or to be wiped out by another. `MaxFailed` bounds the requests that raise. Seven
broadcast packets go round six sequence numbers with two outstanding. Two
group numbers for four requests make the controller refuse one or both groups of
a job that comes late, and give numbers that came back to the other job; `RpcFaults` is 1. Five segments and three buffers use
buffers twice within a call and again in the next one. The scheduler's three
requests want up to six tokens each of a pool of eight, so that admission,
eviction, retraction and chunking all happen; each may be sent once. Six pages
of two tokens leave room for two of three requests, and some of them are retracted
on the way to their answer. `core_window` has at most three packets on all links
together, which is enough to lose one result and receive the next.

Fairness. `FairSpec` of `IncAllreduce` assumes weak fairness of what hardware
does on its own: a card that may transmit does, a packet at the head of a queue
is handled, the transport timer fires while a packet is unacknowledged. Links
may still lose everything for ever, so `Completes` is conditional: if from some
time on nothing is lost and no timer fires while packets of that rank are on
their way, then every rank completes. It is stated for runs without exhausted
retries (`GiveUp = FALSE`): with a finite number of retries a straggler defeats
every protocol. `FairSpec` of `RDMAGroup` assumes that the calling threads and
the cards run. `BroadcastAck` assumes the same of its cards, and `Completes` has
the same condition. `GroupLifetime` assumes nothing of the network: a queue pair
that is ready to send and gets no answer gives up after `retry_cnt` timeouts, and
that is enough for every process to end. Nothing of the kind is assumed of a queue
pair that is not ready: `EveryRankEnds` says that only a rank with an unsent
message on such a queue pair of its own (`Stuck`) stays, and holds up nobody else. `SegmentPipeline` assumes that the host thread, the streams
and the other ranks run. The scheduler's `FairSpec` is weak fairness of the
event loop, which is one thread that never blocks, and of the client that
continues a paused engine. `group_lifetime` and `segment_pipeline` do not check
for deadlock, since processes end; that they end well is their liveness property.

Each property of each passing run has a mutant in `PROJECT.json`, a plausible
bug of the code (a guard left out, an index off by one, a register not cleared)
under which TLC finds the property violated. The mutants are operators right
before the definition that they replace; nothing else uses them.

The type invariant of a module is a conjunct of the invariant that depends on it
most: `IInv`, `ResourcesConserved` (with `MemoryConserved` and `IdsConserved`),
`WindowRespected`, `MergedIsReceived`, `MessageHasGroup`, `BuffersKept` (with
`SendBufferKept` and `ReceiveBufferKept`) and the scheduler's `SizesExact`.

## Findings

Shown by a run:

* `poll_cq` of `rdma_group.cpp` ignores the status of a completion. After
  `retry_cnt` retries of about a millisecond, which a rank that enters
  `allreduce` late causes easily, the call returns data that was not reduced
  (`library_status`).
* `pause_generation` under overlap sets `last_batch = None` before the prefill
  batch was merged into `running_batch` (`scheduler.py:2434`): its requests are
  lost and keep their pages (`sched_inplace`).
* `reg_psn_update` (`broadcast_egress.p4:132`) compares `bit<32>` numbers with
  `md.psn - reg < 0` and the comment "signed". As declared, the test is never true
  and a NAK that follows the ACK of another receiver does not lower the number of
  the round (`broadcast_unsigned`). A cast to `int<32>` would say what the comment
  does.

Met while modelling, and kept out of the configurations of the passing runs or
stated as a condition of their properties:

* `free_seg` (`allreduce_grpc.py:117-123`) deletes the left neighbour and then
  looks for the right one under its old index. Memory is never lost or given out
  twice, but free neighbours stay apart, and after groups with different windows
  a large window may be refused although all memory is free. `RefusalHonest` is
  therefore conditional on windows of one size.
* `post_message_to_qps` posts a message of length 0 when the last block has a
  single packet (with the defaults: 65537 to 65792 bytes);
  `inc_all_reduce.cu:443` asserts that this does not happen because the switch
  cannot handle it.
* `exchange_info_socket` (`rdma_group.cpp:251`) does not test for the NULL
  group, and a constructor that throws returns no groups: `NothingLeftBehind`
  speaks of jobs that reach their destructor. `inc.hpp` tests for group 0, but
  asserts the number of members of the reply before.
* `modify_qp_to_rts` and `post_message` ignore the results of `ibv_modify_qp`
  (`rdma_group.cpp:294`, `317`, `327`) and `ibv_post_send` (`413`), and the message
  is counted. A rank one of whose queue pairs did not become ready, for example
  because it read zeros from a rank 0 that has died, waits for ever in `allreduce`.
  `EveryRankEnds` excepts it.
* The comment at `broadcast_egress.p4:287` says that only NAKs of an incomplete
  round are forwarded; `restore_table` undoes the drop of ACKs. The root gets an
  ACK with an old number, which it ignores (`ImplementsBroadcast`); what is lost is
  the saving of packets on the root's link.
* Rank 0 returns the groups as soon as its own calls have returned. Data is not
  lost (`DestroyedWhenReduced`), but a rank whose last result was lost is not
  served any more, and learns of it only through the completion status that
  `poll_cq` ignores.
* `pause_generation` in mode `retract` drops `chunked_req` without retracting it
  (`scheduler.py:2445`), while `io_struct.py:1079-1081` says that all running
  requests go back to the queue. The configuration `Paused` has no chunks.
* Under overlap and with pages of several tokens `new_page_count_next_decode`
  (`schedule_batch.py:1530-1537`) counts one page too few for a request at a page
  boundary after an iteration that ran a prefill; the allocation then fails.
  Mixed batches reserve one token for each decoding request where a page may be
  needed (`schedule_policy.py:343`, `scheduler.py:1884`). `NeverCrashes` is
  checked with pages of one token.
* `add_chunked_req` (`schedule_policy.py:454-472`) takes the least of the chunk
  budget and of `rem_total_tokens` for the length of the next chunk without
  testing that it is positive. In a mixed batch each decoding request takes one
  token of both budgets first, and what the running requests may still generate
  is taken from `rem_total_tokens`; with more running requests than tokens in a
  chunk, or more reserved than is free, the chunk has no or a negative length.
  TLC reaches this with mixed chunks of 3 tokens under overlap. The proofs about
  pages exclude it (`ChunksFit`).
* An abort of a request in the grammar queue sets `to_finish` and `grammar =
  None`, but `move_ready_grammar_requests` tests `finished()` and goes on to use
  the grammar (`scheduler.py:2130`).

## Proofs

`tlapm` checks the theorems for every value of the constants, under the
assumptions that the modules name:

| Assumption | Says | Why |
|---|---|---|
| `WAssumption`, `QueueCapAssumption` | a window and a queue hold at least one packet | |
| `PsnModAssumption` | the window divides the number of sequence numbers and is smaller | windows are powers of two, at most 2^14 slots; there are 2^24 numbers |
| `BroadcastAssumption` | the root's window is less than half of the sequence numbers | the registers compare by the sign of a difference; with an odd modulus one window more would do harm |
| `LifetimeAssumption` | group numbers are not 0 and different, calls use queue pairs 0 and 1 | `free_group` of the controller; `NULL_GROUP` is 0 |
| `ControllerAssumption` | there is memory and a recirculation port; the other limits are any natural numbers | the constants of `allreduce_grpc.py` |
| `PipelineAssumption` | there is a buffer, a queue pair and room for a message; each segment has a message | the constants of `inc_all_reduce.cu`; a segment is never empty |
| `ReqsAssumption` | `None` is no request; the request pool has a size | |
| `PagesAssumption`, `PageSizeAssumption` | there are finitely many pages, of at least one token | |
| `SizesAssumption` | prompts are nonempty lists and at least one token is asked for; the chunk budget is a positive multiple of the page size | `io_struct.py:284` refuses an empty prompt, `server_args.py:3998` other chunk budgets; `max_new_tokens` may be 0, and then acts as 1 (`check_finished` runs after a token) |
| `ConfigAssumption` | sizes are positive and two blocks fit the server window | the checks of the constructor, `rdma_group.cpp:87-116` |

* `CommonLemmas` has the arithmetic: numbers with equal remainders are a
  multiple of the modulus apart, a remainder of a remainder, distances on a
  circle. The provers know `%` only through `DivMod` and `ModUnique`. And it
  says what `Tail`, `Append`, `SubSeq` and `\o` do to the positions and to the
  set of elements of a sequence, that a set of naturals has a least element and a
  bounded one a greatest, that prefixes are ordered, and what sums over finite sets
  do when an element leaves or two sets are joined.

### IncAllreduce

The inductive invariant is in `IncAllreduceInv`. That results are exact
is not inductive, and neither is that a slot is held while a packet waits for
its second pass: both depend on how far apart packets on their way can be. `IInv`
says that

1. a rank's transmissions stay within `ServerWin` of what it has got
   acknowledged, acknowledgements lag behind results, and results behind what
   every rank has sent (`QueuePairInv`);
2. a slot in use holds one contribution of each rank in its bitmap (`SlotInv`);
3. links are FIFO up to a lag: whatever is in front of a packet `k` in a queue,
   or has come out of it before, is below `k + ServerWin` (`UplinkInv`,
   `RecirInv`, `DownlinkInv`);
4. what was delivered, or is about to be, has been served by its slot, which
   still holds it or something newer (`Served`, `DeliveredInv`);
5. acknowledgements on their way are in order, and between what the requester
   knows and what the responder has (`AckInv`).

From 3 and 1, a packet `k` on its way implies that nobody has sent `k + W` or
later, since `2 * ServerWin <= W`: this is what halving the window is for, and
why no slot is taken from a packet that still needs it (`WindowBound`,
`VersionBound`). From 4, the version that a packet finds in its slot is the
packet's own or the one of exactly a window ago, so that comparing versions
modulo 2^24 never errs (`FirstPassMeaning`); and from 5 and 1 an
acknowledgement is never mistaken for one a circle away (`AckMeaning`). TLC
checks `IInv` in `core`, which includes `TypeOK`.

`AllreduceProof` begins with the lemmas on slots and sequence numbers: packets
that share a slot are at least a window apart (`SlotApart`), packets less than 2^24
apart have different numbers (`PsnApart`), and what the circular distance of nearby
packets is (`AheadForward`, `AheadBackward`). It proves type correctness first, then
that `IInv` is inductive, one lemma for each action
(`SendStep`, `RecvAckStep`, `FirstPassStep`, ...; everything that only takes a
packet out of a queue goes through `ShrinkStep`), and from it:

| Theorem | States |
|---|---|
| `Invariance` | `Spec => []IInv` |
| `ResultsAreExact` | results are exact sums (`ResultExact`) |
| `SlotHeldOverRecirculation` | the second pass reads the packet's own sum (`RecirculatedSlotHeld`) |
| `SlotsNotReclaimed` | half the window is enough (`SlotNotReclaimed`) |
| `ReducedDataIsNotAdded` | sums sent by retransmissions are not added (`ReducedDataNeverCounts`) |
| `CompletionsMeanResults` | a completion means a result (`CompletionMeansResult`) |
| `Refinement` | the protocol implements `AllreduceSpec` (`ImplementsAllreduce`) |

They hold for any number of ranks, packets, slots and sequence numbers, any
queue capacity and any retry limit; nothing is assumed about losses or timers.

### BroadcastAck

`MergedIsReceived` is not inductive: the switch keeps one number for a round
and compares it with answers that may come from long ago. The theorems assume
`Comparable`: the comparison is signed, or there is one receiver and nothing to
compare. `BInv` puts
everything that stands for a packet in one chain,

    una - 1 <= back <= prev_psn <= psn, up[r] < epsn[r] <= una + Window

where `At` gives the packet that a number modulo `PsnMod` stands for, seen from
`una`. Answers are in order on each link (`UpOrder`), so the oldest of a round is
not older than the promise of the round before (`RegOrder`), merged answers are
in order, too (`BackOrder`), and whatever the comparison by sign looks at is
less than half a circle apart. What `reg_psn` has before the first round may be
anything; the proof needs nothing about it while `bitmap` is empty.

| Theorem | States |
|---|---|
| `BroadcastInvariance` | `Spec => []BInv`, as all three if `Comparable` |
| `MergedAnswersSound` | what was gathered and promised has been received (`MergedIsReceived`) |
| `BroadcastRefinement` | the switch implements `BroadcastSpec` (`ImplementsBroadcast`) |

### GroupLifetime

`LInv` has two parts. About the controller: what is on rank 0's list of groups is
its own (`ListedIsOwn`), because numbers are unique (`Numbers`) and leave the
list with the group; and, unless the answer to an RPC was lost, every group of the
job is on the list (`OwnIsListed`). About the messages: a queue pair without an
error has at most one message that the switch has not reduced (`Messages`), and
no rank has posted fewer than the switch has reduced (`Sums`); so when rank 0 is
through, everybody has sent everything, without any barrier. `Ready` adds that
what the switch has counted came over a queue pair that is ready to send: a rank
that connects its queue pairs has posted nothing yet.

| Theorem | States |
|---|---|
| `LifetimeInvariance` | `Spec => [](LInv /\ Ready)` |
| `MessagesFindTheirGroup` | messages under way have a group, in a job whose requests were granted and until rank 0 enters its destructor (`MessageHasGroup`) |
| `NoDataLeftOut` | groups are destroyed after all data is reduced (`DestroyedWhenReduced`) |
| `GroupsReturned` | all groups are returned (`NothingLeftBehind`) |
| `ResultsWaitForConnection` | results meet connected queue pairs only (`ResultsReachConnected`) |
| `OthersGroupsKept` | nobody destroys another job's group (`OwnGroupsOnly`) |

### RDMAGroup

That ranks agree on their messages is a statement about two ranks at different
places of different calls. `GInv` makes it one about each rank alone: the message
of block `b` of call `c` on a queue pair has number `Before(c - 1, q) + b + 1`,
whatever the pace of completions (`Layout`, `Placed`). `Before` counts the
messages of earlier calls as the cardinality of a set, so that it needs no
recursion. A call begins when everything before it has been polled (`Depths`), so
that the window of one call has nothing of another. `BlockSplit` and
`BlocksCover` show that the pieces of a call are disjoint and make up its buffer.

| Theorem | States |
|---|---|
| `LibraryInvariance` | `Spec => []GInv` |
| `FlowControl` | window and queues are never exceeded (`WindowRespected`) |
| `RanksAgree` | one number, one piece (`SameNumberSamePiece`) |
| `ReturnedIsReduced` | healthy calls return reduced buffers (`HealthyReturnReduced`) |

### SegmentAllocator, GroupController

The allocator needs no induction over its list. `alloc_seg` and `free_seg` both
replace neighbouring segments by new ones that lie between the rest
(`Replaced`); `ReplacedSlots` says that such a list is in order again and which
slots it has, and `AllocMeaning` and `FreeMeaning` are instances of it. The
latter covers the index that `free_seg` uses after it has deleted the left
neighbour: what it looks up there is a segment further to the right, which cannot
start at the end of the block, so the block is joined with the left one only and
nothing else happens.

`CInv` says about everything that was granted and not given back (`Held`, which
includes what failed requests took) that two grants share nothing (`Separate`),
that what is free is what no grant has (`FreeGroups`, `FreeNodes`, `FreeMemory`,
`Ports`), that each metadata entry is one of a grant that is held (`Entries`),
and that a group has all its entries in all tables (`Complete`). `Entries` is what
carries `SlotsExclusive`: the entries of a failed request stay, and lead to slots
that stay taken. `Complete` needs `Separate` for the numbers and nodes, and the
members by way of the metadata table itself: a member has one entry, which names
one group. `Aligned` is for `RefusalHonest`: while there is one window size, all
segments begin at its multiples, and end there or at the end of the memory.
`RegistersExact` rests on `Separate`, too: clearing the slots of a new group, or
a packet of another one, must not touch the bits of this group.

| Theorem | States |
|---|---|
| `ControllerInvariance` | `CtlSpec => []CInv` |
| `NothingLostOrDoubled` | resources are conserved and the controller does not exit (`ResourcesConserved`) |
| `GroupsKeptApart` | groups do not share slots (`SlotsExclusive`) |
| `ResultsReachMembers` | multicast reaches the members (`MulticastReachesMembers`) |
| `RefusalsHonest` | refusals are honest while there is one window size (`RefusalHonest`) |
| `RegistersKept` | registers hold what the group's own packets have set (`RegistersExact`) |

### SegmentPipeline

A buffer is safe because of things far from it: the order within three streams,
which event was recorded on which of them, what the user's stream waits for, and
which completions have been polled. `PInv` fixes for each of them where it is:

1. The user's stream has three operations for each call, so that the number of
   those executed (`UserDone`) says which call's data is in the buffer
   (`UserOps`). The wait of a call covers all copies of its results.
2. Copies to send buffers are behind the wait for the data and of segments from
   `middle` to `tail` (`InOps`); a released segment is in its buffer
   (`CopiedSegments`, `Released`).
3. Copies from receive buffers are of the call that the user's stream is at, and
   of segments less than `QueueSize` behind `tail` (`OutOps`). The step that
   would use such a buffer again looks at an event that covers the copy
   (`BufferEvents`). Across calls no event is looked at: a new call sends
   nothing before its data was produced, the data is produced after the wait of
   the call before, and so there are no copies left.
4. Messages are posted in order and without gaps (`WireOrder`, `SentMessages`),
   and what has been polled on a queue pair ends between the last messages of
   two segments: those of the first `head + complete_seg` segments have been
   polled and no others (`PolledMessages`). This is why counting last messages
   is enough, and why they count for the right segment (`HeadSegment`).
5. A segment that is done on all queue pairs has all its sums in its receive
   buffer (`ReceivedSums`), and results are in the user's buffer but for copies
   to come (`CopiedResults`).

| Theorem | States |
|---|---|
| `PipelineInvariance` | `Spec => []PInv` |
| `BuffersNeverShared` | no buffer is used for two segments at once (`BuffersKept`, with the type invariant) |
| `ResultsCopiedExactly` | the user's stream finds exact results (`ResultExact`) |
| `MessagesNumberedAlike` | one number, one piece (`SameNumberSamePiece`) |

The number of a message is stated as the number of messages that are not after
it, and proved by a bijection; neither needs recursion.

### Scheduler

Neither `NoRequestLost` nor `AnsweredOnce` is inductive: both speak of the start of
an iteration, and what holds there depends on what every step in between did with
a request that a pass in flight also knows. `SInv` says for every point of the
event loop:

1. `Placed`: a request that was accepted and not answered is in exactly one of the
   queue, the running batch and the prefill batch that is being made or not merged
   yet (`Prefill`). Requests being admitted are the first ones of the queue.
2. `Held`: the requests that own a row are those of the running and of the prefill
   batch that have not finished. The rows are counted up to the ones pledged to the
   batch being made (`Pledged`): the chunked request gives its row back when the
   last batch is merged and takes one again with the next.
3. `InFlight`: which results are to come (`PendingLast`, `PendingCur`), of which
   batch they are what is left (`LeftOf`), and that a request whose result is to
   come holds its row or will be skipped. With overlap the requests of the last
   batch are not in the queue (`Live`), so that none of them is admitted a second
   time before its result came.
4. `Chunks`: the counter `is_chunked` of a request is at least the number of its
   chunks in flight, which is what keeps the result of a chunk from being taken for
   the first token.
5. `Types`, `Answers`: lists have no repetitions, and a request with an answer owns
   nothing.

The theorems have the hypothesis `[]PausesKeep`: while a pause is made, the
overlapped loop has no prefill batch that is not merged, and no request is being
chunked when the pause retracts. It excludes exactly the two losses the findings
are about and no other pause; run `sched_inplace` shows the first of them.

The cache is the second part. `LocksExact` is not inductive either: that a node
has one lock for each request that holds a node at or below it survives
`dec_lock_ref` only if the node is still where it was, survives `_split_node` only
if the new node gets the locks of the old one, and survives eviction only if
nothing below an unlocked node is locked. `CacheInv(c, nd, T)`, where `nd` gives
the node of each holder, has four parts:

1. `Tree`: cached prefixes are whole pages and closed under prefixes (`Shape`,
   `Closed`), and every one of them is kept in exactly one node, the nearest at or
   below it (`Owns`, `Branching`), so that two nodes part at a node.
2. `Anchored`: what a holder holds is a node of the tree, or the root.
3. `Exact`: the lock of a node is the number of holders at or below it (`Below`).
   A node with a holder below it is therefore locked, and what eviction removes is
   closed under going down (`Loose`).
4. `CountersExact`: `evictable_size_` and `protected_size_` are the sums of the key
   lengths of the unlocked and of the locked nodes. A split divides one summand in
   two on the same side (`Reshaped`), a new leaf adds one (`Grown`), a lock moves
   the nodes of a path that had no lock from one sum to the other (`Moved`).

`SplitKeeps`, `InsertKeeps`, `IncKeeps`, `DecKeeps`, `EvictKeeps`, `FreeKeeps` and
`TakeKeeps` say that each operation keeps it, for the holders that it leaves.
`CInv` is this invariant for the requests that own a row (`Nodes`), and `StepCache`
shows that every action of the scheduler calls the operations on the holders it
should: `SInv` is needed for that, since a request may be retracted, aborted or
finished only while it holds its node.

Sums over finite sets are proved about in `CommonLemmas`. The library's theorems on
folds take operators as parameters, so the fold behind `SumFunctionOnSet` is shown
to exist and to be unique from its equation (`SumSolution`, `SumAgree`), by
inductions stated for a set of numbers or of subsets instead of a predicate
(`NatsBy`, `SubsetsBy`); that the order of the summands does not matter
(`SumRemove`) and the sum over a disjoint union (`SumUnion`) follow.

The memory is the third part, `SchedulerMemoryProof`. That a page has one owner
(`PagesConserved`) and that a request reads the KV of its own tokens (`RowsRead`)
depend on each other: a page is freed, cached or handed on by its position in a
row, so the right page is chosen only if the row is right, and the row is right
only if nobody else was given one of its pages. And the length of a row at any
moment depends on the passes in flight. `MInv` has two conjuncts:

1. `MemInv(c, ct, rq, H)`: every page is free, cached for one prefix, or in the
   private part of the row of one of the holders `H` (`PageInv`, `PrivateOf`); a
   cached page has the KV of the prefix it is cached for (`Faithful`); and the row
   of a holder (`Row`) begins with the pages that the tree has for its node and goes
   on with different pages that hold its own tokens up to what was computed
   (`Upto`, `Have`).
2. `NInv`: the numbers of a request (`LenOf`). Between two passes a request in a
   batch has KV for all its tokens but the last and the ones that are due from
   passes in flight (`Dues`), `is_chunked` is the number of its chunks in flight
   (`Chks`), and its row has exactly the pages for that (`Batched`); a request that
   is being added has the pages of its prefix (`Adding`). After a failed allocation
   only what the other theorems need is kept (`Counts`).

The operations come first: what a list of free pages is (`FreePagesMeaning`), how
an allocation is shared out, to all requests of a batch or to none (`Shares`,
`AllocateMeaning`, `AllotPool`), what a forward pass writes and why nobody else sees it
(`WrittenMem`), which duplicates `cache_unfinished_req` and `cache_finished_req`
free when somebody else cached the same tokens first (`InsertRow`, `UnfinishMem`,
`FinishMem`), and that eviction takes no page of a holder (`EvictMem`). Then each
action, with `SInv` for who is where and `CInv` for the tree: `MergeMem`, `BeginMem`,
`AdmitStepMem`, `NewBatchMem`, `DecodeMem`, `ProcessMem`, `RetractsMem` and so on,
put together in `StepMem`.

The theorems about the memory have a second hypothesis, `[]ChunksFit`: when the
prefill of a request goes on, `add_chunked_req` has budgets that are not negative.
The code does not ensure it (see the findings), and with a negative length the row
of the request would shrink below its prefix. `PausesKeep` and `ChunksFit` both
hold in every state of `sched_tokens` and of `sched_live`, which TLC has
checked, so that the theorems speak of all that those runs explore: both event
loops, chunks, mixed batches, retraction, aborts and pauses.

Lists are filtered by the ranks of the elements that stay (`Those`) and sorted by a
bijection of positions (`Sorted`), so that `ThoseMeaning` and `SortedMeaning` need
no induction over lists.

| Theorem | States |
|---|---|
| `SchedulerInvariance` | `Spec /\ []PausesKeep => []SInv` |
| `RequestsKept` | accepted requests are in one place, once (`NoRequestLost`) |
| `AnsweredExactlyOnce` | at most one answer, nothing held after it, rows exact (`AnsweredOnce`) |
| `CacheInvariance` | `Spec /\ []PausesKeep => []CInv` |
| `LocksAreExact` | locks are those of the requests in flight (`LocksExact`) |
| `TreeIsExact` | `CountersExact` and `WellFormed` of the cache |
| `MemoryInvariance` | `Spec /\ []PausesKeep /\ []ChunksFit => []MInv` |
| `PagesAreConserved` | every page has exactly one owner (`PagesConserved`) |
| `SizesAreExact` | counters, rows and lengths are exact and in range (`SizesExact`) |
| `RowsAreRead` | requests read the KV of their own tokens (`RowsRead`) |

### Only model-checked

* Liveness (`Completes`, `AllReturn`, `EveryRankEnds`, `AllConsumed` and those of
  the scheduler): it needs fairness.
* `NeverCrashes`. It compares the budget of the admission with what is free when
  the batch is allocated, and holds for pages of one token only (see the
  findings). The theorems on pages do not depend on it: they also hold in the
  state after a failed allocation.

## Plan

1. `ReduceSwitch`: the variant of `AllreduceSwitch` with a root.
2. The tokenizer manager's request bookkeeping, and the grammar queue.

## Not modelled

Header layouts and checksums, DCQCN marking, the TEST and DEBUG variants of the
P4 programs, layer-2 forwarding of other traffic, switch start-up and topology
files, CUDA kernels, the shell tooling; saturation of the adders (the code
states that the workload does not overflow, `aggregator.p4:22`); the reuse of a
queue pair number for which a failed request has left an entry behind; the
reduce data plane; message sequence numbers.

Of `sglang/`: everything but the scheduler, its radix cache and its allocator.
Models, layers, kernels, argument parsing and HTTP are by far most of its lines
and have no protocol state to explore; what has (see the components in
`PROJECT.json`) is left for later.
