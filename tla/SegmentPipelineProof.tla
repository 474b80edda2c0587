------------------------ MODULE SegmentPipelineProof ------------------------
(***************************************************************************)
(* The ring of buffers of incAllReduce is safe for any number of calls,    *)
(* segments, messages, buffers and queue pairs, and any pace of the host,  *)
(* the three streams and the network.                                      *)
(*                                                                         *)
(* The invariant PInv says where in each stream the operations of a call   *)
(* are, which segments they may concern, and which messages have been      *)
(* sent, have completed and have been polled.                              *)
(***************************************************************************)
EXTENDS SegmentPipeline, CommonLemmas, FiniteSetTheorems

Events == [stream : Stream, after : Nat]
Ops == [op : {"produce", "consume"}, call : Nat]
       \cup [op : {"wait"}, event : Events]
       \cup [op : {"in", "out"}, call : Nat, seg : Nat]
WireMessages == [call : Nat, seg : Nat, msg : Nat, last : BOOLEAN]

\* Messages of segment s of call c.
Size(c, s) == Calls[c][s + 1]

\* What the streams have to execute, and how much they have executed.
UserQ == queue["user"]
InQ == queue["d2h"]
OutQ == queue["h2d"]
UserDone == given["user"] - Len(UserQ)
InDone == given["d2h"] - Len(InQ)
OutDone == given["h2d"] - Len(OutQ)

\* The host is in a call.
Busy == pc # "app"

Types ==
    /\ pc \in {"app", "tail", "middle", "head", "post"}
    /\ call \in 0..Len(Calls) /\ (Busy => call > 0)
    /\ head \in Nat /\ middle \in Nat /\ tail \in Nat
    /\ msg_sent \in [Slot -> 0..MaxMessages]
    /\ complete_seg \in [QP -> Nat]
    /\ wire \in Seq(WireMessages)
    /\ completed \in [QP -> Nat] /\ polled \in [QP -> Nat]
    /\ queue \in [Stream -> Seq(Ops)] /\ given \in [Stream -> Nat]
    /\ copy_event \in [Slot -> Events]
    /\ sendbuff \in Nat
    /\ s_mr \in [Slot -> Nat \X Nat]
    /\ r_mr \in [Slot -> [1..MaxMessages -> [QP -> Nat \X Nat]]]
    /\ recvbuff \in [0..(MaxSegments - 1) -> SUBSET (Nat \X Nat)]

\* The three indices, and the number of completed segments.
Indices ==
    /\ head <= middle /\ middle <= tail /\ tail <= head + QueueSize
    /\ Busy => tail <= Segments(call)
    /\ \A q \in QP : head + complete_seg[q] <= middle
    /\ ~Busy => head = middle

\* The user's stream has three operations for each call: number n, of call c,
\* fills the buffer, waits for all copies of the call, or uses the result.
UserOp(o, n, c, outs, outdone) ==
    \/ n = 3 * c - 2 /\ o = Produce(c)
    \/ /\ n = 3 * c - 1
       /\ o.op = "wait" /\ o.event.stream = "h2d"
       /\ \A j \in 1..Len(outs) : outs[j].call <= c => outdone + j <= o.event.after
    \/ n = 3 * c /\ o = Consume(c)

UserOps ==
    /\ UserDone \in Nat
    /\ UserDone + Len(UserQ) = IF Busy THEN 3 * call - 2 ELSE 3 * call
    /\ 3 * sendbuff - 2 <= UserDone /\ UserDone <= 3 * sendbuff
    /\ \A k \in 1..Len(UserQ) : \E c \in 1..call : UserOp(UserQ[k], UserDone + k, c, OutQ, OutDone)

\* The user's stream has filled the buffer for the current call.
Produced == UserDone >= 3 * call - 2

\* One of the first n operations waits for operation x of the user's stream.
WaitsFor(ops, n, x) == \E j \in 1..n : ops[j].op = "wait" /\ ops[j].event.after >= x

\* Copies to the send buffers are of the current call, of segments that have
\* not been released, and behind the wait for the user's data.
InOps ==
    /\ InDone \in Nat
    /\ \A k \in 1..Len(InQ) :
         \/ InQ[k].op = "wait" /\ InQ[k].event.stream = "user"
         \/ /\ Busy
            /\ \E s \in middle..(tail - 1) : InQ[k] = CopyIn(call, s)
            /\ Produced \/ WaitsFor(InQ, k - 1, 3 * call - 2)
    /\ Busy => Produced \/ WaitsFor(InQ, Len(InQ), 3 * call - 2)

\* The receive buffer of a segment holds its sums.
Holds(mr, c, s) == \A m \in 1..Size(c, s), q \in QP : mr[s % QueueSize][m][q] = <<c, s>>

\* Copies from the receive buffers are of the call whose data the user's
\* stream has produced last and whose results it still waits for.
OutOps ==
    /\ OutDone \in Nat
    /\ \A k \in 1..Len(OutQ) :
         /\ UserDone = 3 * sendbuff - 2
         /\ \E s \in 0..(Segments(sendbuff) - 1) :
              /\ OutQ[k] = CopyOut(sendbuff, s)
              /\ sendbuff = call => s < head
              /\ Busy /\ sendbuff = call => tail <= s + QueueSize
              /\ Holds(r_mr, sendbuff, s)

\* The copies of a segment that are still to be executed come no later than
\* its event.
Covers(event, ops, done, o) == \A k \in 1..Len(ops) : ops[k] = o => done + k <= event.after

\* The events of the buffers: of the copy in while the segment has not been
\* released, and of the copy out after it has been copied out.
BufferEvents ==
    /\ \A i \in Slot : copy_event[i].after <= given[copy_event[i].stream]
    /\ Busy => \A s \in middle..(tail - 1) :
         /\ copy_event[s % QueueSize].stream = "d2h"
         /\ Covers(copy_event[s % QueueSize], InQ, InDone, CopyIn(call, s))
    /\ Busy => \A s \in 0..(head - 1) : tail <= s + QueueSize =>
         /\ copy_event[s % QueueSize].stream = "h2d"
         /\ Covers(copy_event[s % QueueSize], OutQ, OutDone, CopyOut(call, s))

\* A call whose data has not been produced has got nowhere.
NotProduced ==
    /\ Busy /\ ~Produced => middle = 0
    /\ \A c \in 1..call : UserDone < 3 * c - 2 /\ (c < call \/ ~Busy) => Segments(c) = 0

\* An operation is still to be executed.
Pending(ops, o) == \E k \in 1..Len(ops) : ops[k] = o

\* A segment is in its send buffer as soon as its copy is not pending.
CopiedSegments ==
    Busy => \A s \in head..(tail - 1) :
        \/ Pending(InQ, CopyIn(call, s))
        \/ s_mr[s % QueueSize] = <<call, s>> /\ Produced

\* Message a comes before b, by call, segment and message.
Before(a, b) ==
    \/ a.call < b.call
    \/ a.call = b.call /\ a.seg < b.seg
    \/ a.call = b.call /\ a.seg = b.seg /\ a.msg < b.msg

\* A message of the calls.
Proper(w) ==
    /\ w.call \in 1..Len(Calls) /\ w.seg \in 0..(Segments(w.call) - 1)
    /\ w.msg \in 1..Size(w.call, w.seg)
    /\ w.last <=> w.msg = Size(w.call, w.seg)

\* The messages are those of the calls, in order.
WireOrder ==
    /\ \A n \in 1..Len(wire) :
         /\ Proper(wire[n]) /\ wire[n].call <= call
         /\ Busy /\ wire[n].call = call =>
              /\ wire[n].seg < middle
              /\ wire[n].seg >= head => wire[n].msg <= msg_sent[wire[n].seg % QueueSize]
    /\ \A n, k \in 1..Len(wire) : n < k => Before(wire[n], wire[k])

OnWire(w, c, s, m) == \E n \in 1..Len(w) : w[n].call = c /\ w[n].seg = s /\ w[n].msg = m

\* What has been sent.
SentMessages ==
    /\ \A c \in 1..call : (c < call \/ ~Busy) =>
         \A s \in 0..(Segments(c) - 1) : \A m \in 1..Size(c, s) : OnWire(wire, c, s, m)
    /\ Busy => \A s \in 0..(head - 1) : \A m \in 1..Size(call, s) : OnWire(wire, call, s, m)
    /\ Busy => \A s \in head..(middle - 1) :
         /\ msg_sent[s % QueueSize] <= Size(call, s)
         /\ \A m \in 1..msg_sent[s % QueueSize] : OnWire(wire, call, s, m)
         /\ \A t \in (s + 1)..(middle - 1) :
              msg_sent[t % QueueSize] > 0 => msg_sent[s % QueueSize] = Size(call, s)

\* The last messages of the segments up to x, and no others, are among the
\* first n messages.
PolledUpTo(w, c, n, x) ==
    \A k \in 1..Len(w) : w[k].call = c /\ w[k].last => (k <= n <=> w[k].seg < x)

\* The last messages of the first x segments have been sent.
SentUpTo(w, c, x) == \A s \in 0..(x - 1) : \E n \in 1..Len(w) : w[n].call = c /\ w[n].seg = s /\ w[n].last

\* What has been polled: everything of the calls before, and of the segments
\* up to head and complete_seg.
PolledMessages ==
    \A q \in QP :
        /\ polled[q] <= completed[q] /\ completed[q] <= Len(wire)
        /\ \A n \in 1..Len(wire) : wire[n].call < call \/ ~Busy => n <= polled[q]
        /\ Busy => PolledUpTo(wire, call, polled[q], head + complete_seg[q])
        /\ Busy => SentUpTo(wire, call, head + complete_seg[q])

\* Completed messages have left their part of the sum.
ReceivedSums ==
    Busy => \A q \in QP : \A n \in 1..completed[q] :
        wire[n].call = call /\ wire[n].seg >= head =>
            r_mr[wire[n].seg % QueueSize][wire[n].msg][q] = <<call, wire[n].seg>>

\* The result of a call is complete but for the copies to come.
CopiedResults ==
    UserDone \in {3 * sendbuff - 2, 3 * sendbuff - 1} => \A s \in 0..(Segments(sendbuff) - 1) :
        \/ recvbuff[s] = {<<sendbuff, s>>}
        \/ Pending(OutQ, CopyOut(sendbuff, s))
        \/ sendbuff = call /\ Busy /\ s >= head

PInv == /\ Types /\ Indices /\ UserOps /\ InOps /\ OutOps /\ BufferEvents /\ NotProduced
        /\ CopiedSegments /\ WireOrder /\ SentMessages /\ PolledMessages /\ ReceivedSums /\ CopiedResults

-----------------------------------------------------------------------------
(* Bounds, buffers and operations. *)

\* A finite sequence of numbers is bounded.
LEMMA SeqBounded ==
    ASSUME NEW q \in Seq(Nat)
    PROVE  \E b \in Nat : \A i \in 1..Len(q) : q[i] <= b
<1>. DEFINE len == Len(q)
            B(n) == \E b \in Nat : \A i \in 1..n : q[i] <= b
            I == {n \in 0..len : ~B(n)}
<1>1. len \in Nat /\ \A i \in 1..len : q[i] \in Nat
  OBVIOUS
<1>. HIDE DEF len, B
<1>2. I \subseteq Nat /\ len \in 0..len
  BY <1>1
<1>3. ASSUME I # {} PROVE FALSE
  <2>. DEFINE n == Min(I)
  <2>1. n \in I /\ \A i \in I : n <= i
    BY <1>2, <1>3, LeastNat
  <2>. HIDE DEF n
  <2>2. n \in 0..len /\ ~B(n)
    BY <2>1
  <2>3. n # 0
    <3>1. ASSUME n = 0 PROVE B(n)
      <4>1. \A i \in 1..n : q[i] <= 0
        BY <3>1
      <4>. QED
        BY <4>1 DEF B
    <3>. QED
      BY <3>1, <2>2
  <2>. DEFINE m == n - 1
  <2>4. m \in 0..len /\ m < n /\ m \in Nat /\ n \in Nat
    BY <1>1, <2>2, <2>3
  <2>5. m \notin I
    BY <2>1, <2>4
  <2>6. B(m)
    BY <2>4, <2>5
  <2>7. PICK b \in Nat : \A i \in 1..m : q[i] <= b
    BY <2>6 DEF B
  <2>8. n \in 1..len /\ q[n] \in Nat
    BY <1>1, <2>2, <2>3
  <2>9. PICK t \in Nat : b <= t /\ q[n] <= t
    <3>1. b <= b + q[n] /\ q[n] <= b + q[n] /\ b + q[n] \in Nat
      BY <2>8
    <3>. QED
      BY <3>1
  <2>10. ASSUME NEW i \in 1..n PROVE q[i] <= t
    <3>1. i = n \/ i \in 1..m
      BY <2>8
    <3>2. q[i] \in Nat
      BY <1>1, <2>8
    <3>. QED
      BY <3>1, <3>2, <2>7, <2>9
  <2>. QED
    BY <2>2, <2>10 DEF B
<1>4. B(len)
  BY <1>2, <1>3
<1>. QED
  BY <1>4 DEF B, len

\* Sizes of the calls.
LEMMA CallSizes ==
    /\ MaxMessages \in Nat /\ MaxSegments \in Nat
    /\ \A c \in 1..Len(Calls) :
         /\ Segments(c) \in Nat /\ Segments(c) <= MaxSegments
         /\ \A s \in 0..(Segments(c) - 1) :
              Calls[c][s + 1] \in Nat /\ 1 <= Calls[c][s + 1] /\ Calls[c][s + 1] <= MaxMessages
<1>. DEFINE N == Nat \ {0}
<1>0. Calls \in Seq(Seq(N))
  BY PipelineAssumption
<1>. HIDE DEF N
<1>1. Len(Calls) \in Nat /\ DOMAIN Calls = 1..Len(Calls) /\ \A c \in 1..Len(Calls) : Calls[c] \in Seq(N)
  BY <1>0
<1>2. \A c \in 1..Len(Calls) : /\ Len(Calls[c]) \in Nat /\ DOMAIN Calls[c] = 1..Len(Calls[c])
                               /\ \A s \in 1..Len(Calls[c]) : Calls[c][s] \in N
  BY <1>1
<1>3. \A c \in 1..Len(Calls) : \A s \in 1..Len(Calls[c]) : Calls[c][s] \in Nat /\ 1 <= Calls[c][s]
  BY <1>2 DEF N
<1>4. \A c \in 1..Len(Calls) : Calls[c] \in Seq(Nat)
  BY <1>1, <1>3 DEF N
\* A bound for each call, and one for all.
<1>. DEFINE P(c, b) == b \in Nat /\ \A s \in 1..Len(Calls[c]) : Calls[c][s] <= b
            bounds == [c \in 1..Len(Calls) |-> CHOOSE b : P(c, b)]
            lens == [c \in 1..Len(Calls) |-> Len(Calls[c])]
<1>5. \A c \in 1..Len(Calls) : P(c, bounds[c])
  <2>1. ASSUME NEW c \in 1..Len(Calls) PROVE \E b : P(c, b)
    <3>1. \E b \in Nat : \A s \in 1..Len(Calls[c]) : Calls[c][s] <= b
      BY <1>4, SeqBounded
    <3>. QED
      BY <3>1
  <2>. QED
    BY <2>1
<1>. HIDE DEF bounds
<1>6. bounds \in Seq(Nat) /\ Len(bounds) = Len(Calls)
  BY <1>1, <1>5 DEF bounds
<1>7. PICK b \in Nat : \A c \in 1..Len(Calls) : bounds[c] <= b
  BY <1>6, SeqBounded
<1>8. lens \in Seq(Nat) /\ Len(lens) = Len(Calls)
  BY <1>1, <1>2
<1>9. PICK e \in Nat : \A c \in 1..Len(Calls) : lens[c] <= e
  BY <1>8, SeqBounded
<1>. DEFINE S == {0} \cup UNION {ToSet(Calls[c]) : c \in DOMAIN Calls}
            T == {0} \cup {Segments(c) : c \in DOMAIN Calls}
<1>10. \A x \in S : x = 0 \/ \E c \in 1..Len(Calls) : \E s \in 1..Len(Calls[c]) : x = Calls[c][s]
  <2>. SUFFICES ASSUME NEW x \in S, x # 0 PROVE \E c \in 1..Len(Calls) : \E s \in 1..Len(Calls[c]) : x = Calls[c][s]
    OBVIOUS
  <2>1. PICK c \in 1..Len(Calls) : x \in ToSet(Calls[c])
    BY <1>1
  <2>. QED
    BY <2>1, <1>2 DEF ToSet
<1>11. \A c \in 1..Len(Calls) : \A s \in 1..Len(Calls[c]) : Calls[c][s] \in S
  <2>. SUFFICES ASSUME NEW c \in 1..Len(Calls), NEW s \in 1..Len(Calls[c]) PROVE Calls[c][s] \in S
    OBVIOUS
  <2>1. Calls[c][s] \in ToSet(Calls[c])
    BY <1>2 DEF ToSet
  <2>. QED
    BY <2>1, <1>1
<1>12. \A x \in T : x = 0 \/ \E c \in 1..Len(Calls) : x = Len(Calls[c])
  BY <1>1 DEF Segments
<1>13. \A c \in 1..Len(Calls) : Len(Calls[c]) \in T
  BY <1>1 DEF Segments
<1>14. S # {} /\ T # {}
  OBVIOUS
<1>. HIDE DEF S, T
<1>15. \A c \in 1..Len(Calls) : \A s \in 1..Len(Calls[c]) : Calls[c][s] <= b
  <2>. SUFFICES ASSUME NEW c \in 1..Len(Calls), NEW s \in 1..Len(Calls[c]) PROVE Calls[c][s] <= b
    OBVIOUS
  <2>1. bounds[c] \in Nat /\ Calls[c][s] <= bounds[c] /\ bounds[c] <= b /\ Calls[c][s] \in Nat
    BY <1>3, <1>5, <1>7
  <2>. QED
    BY <2>1
<1>16. S \subseteq Nat /\ \A x \in S : x <= b
  <2>1. \A x \in S : x \in Nat
    BY <1>3, <1>10
  <2>. QED
    BY <2>1, <1>10, <1>15
<1>17. T \subseteq Nat /\ \A x \in T : x <= e
  <2>1. \A c \in 1..Len(Calls) : Len(Calls[c]) <= e
    BY <1>9
  <2>. QED
    BY <2>1, <1>2, <1>12
<1>18. Max(S) \in S /\ (\A x \in S : x <= Max(S)) /\ Max(T) \in T /\ \A x \in T : x <= Max(T)
  BY <1>14, <1>16, <1>17, GreatestNat
<1>19. MaxMessages = Max(S) /\ MaxSegments = Max(T)
  BY DEF MaxMessages, MaxSegments, S, T
<1>20. MaxMessages \in Nat /\ MaxSegments \in Nat
  BY <1>16, <1>17, <1>18, <1>19
<1>21. ASSUME NEW c \in 1..Len(Calls)
       PROVE  /\ Segments(c) \in Nat /\ Segments(c) <= MaxSegments
              /\ \A s \in 0..(Segments(c) - 1) :
                   Calls[c][s + 1] \in Nat /\ 1 <= Calls[c][s + 1] /\ Calls[c][s + 1] <= MaxMessages
  <2>1. Segments(c) = Len(Calls[c]) /\ Segments(c) \in Nat /\ Segments(c) <= MaxSegments
    BY <1>2, <1>13, <1>18, <1>19 DEF Segments
  <2>2. \A s \in 0..(Segments(c) - 1) : s + 1 \in 1..Len(Calls[c])
    BY <2>1
  <2>. QED
    BY <2>1, <2>2, <1>3, <1>11, <1>18, <1>19
<1>. QED
  BY <1>20, <1>21

\* Segments that are less than QueueSize apart have different buffers.
LEMMA Buffers ==
    /\ QueueSize \in Nat \ {0}
    /\ \A s \in Nat : s % QueueSize \in Slot
    /\ \A s, t \in Nat : s < t /\ t < s + QueueSize => s % QueueSize # t % QueueSize
<1>1. QueueSize \in Nat \ {0}
  BY PipelineAssumption
<1>2. ASSUME NEW s \in Nat PROVE s % QueueSize \in Slot
  <2>1. s \in Int
    OBVIOUS
  <2>. QED
    BY <1>1, <2>1, DivMod DEF Slot
<1>3. ASSUME NEW s \in Nat, NEW t \in Nat, s < t, t < s + QueueSize, s % QueueSize = t % QueueSize PROVE FALSE
  <2>1. s \in Int /\ t \in Int
    OBVIOUS
  <2>2. s + QueueSize <= t
    BY <1>1, <1>3, <2>1, SameModApart
  <2>. QED
    BY <1>1, <1>3, <2>2
<1>. QED
  BY <1>1, <1>2, <1>3

\* The operations and what they are given.
LEMMA OpFacts ==
    /\ \A c : Produce(c).op = "produce" /\ Produce(c).call = c
    /\ \A c : Consume(c).op = "consume" /\ Consume(c).call = c
    /\ \A e : WaitFor(e).op = "wait" /\ WaitFor(e).event = e
    /\ \A c, s : CopyIn(c, s).op = "in" /\ CopyIn(c, s).call = c /\ CopyIn(c, s).seg = s
    /\ \A c, s : CopyOut(c, s).op = "out" /\ CopyOut(c, s).call = c /\ CopyOut(c, s).seg = s
    /\ \A st, n : Recorded(st, n).stream = st /\ Recorded(st, n).after = n
  BY DEF Produce, Consume, WaitFor, CopyIn, CopyOut, Recorded

LEMMA OpTypes ==
    /\ \A c \in Nat : Produce(c) \in Ops /\ Consume(c) \in Ops
    /\ \A e \in Events : WaitFor(e) \in Ops
    /\ \A c \in Nat, s \in Nat : CopyIn(c, s) \in Ops /\ CopyOut(c, s) \in Ops
    /\ \A st \in Stream, n \in Nat : Recorded(st, n) \in Events
  BY DEF Produce, Consume, WaitFor, CopyIn, CopyOut, Recorded, Ops, Events

\* Numbers and sequences of a state.
LEMMA StateFacts ==
    ASSUME Types
    PROVE  /\ call \in Nat /\ call <= Len(Calls) /\ head \in Nat /\ middle \in Nat /\ tail \in Nat /\ sendbuff \in Nat
           /\ UserQ \in Seq(Ops) /\ InQ \in Seq(Ops) /\ OutQ \in Seq(Ops) /\ wire \in Seq(WireMessages)
           /\ Len(UserQ) \in Nat /\ Len(InQ) \in Nat /\ Len(OutQ) \in Nat /\ Len(wire) \in Nat
           /\ UserDone \in Int /\ InDone \in Int /\ OutDone \in Int
           /\ given["user"] \in Nat /\ given["d2h"] \in Nat /\ given["h2d"] \in Nat
<1>1. call \in Nat /\ call <= Len(Calls)
  BY PipelineAssumption DEF Types
<1>2. UserQ \in Seq(Ops) /\ InQ \in Seq(Ops) /\ OutQ \in Seq(Ops) /\ wire \in Seq(WireMessages)
  BY DEF Types, Stream, UserQ, InQ, OutQ
<1>3. Len(UserQ) \in Nat /\ Len(InQ) \in Nat /\ Len(OutQ) \in Nat /\ Len(wire) \in Nat
  BY <1>2
<1>4. given["user"] \in Nat /\ given["d2h"] \in Nat /\ given["h2d"] \in Nat
  BY DEF Types, Stream
<1>5. UserDone \in Int /\ InDone \in Int /\ OutDone \in Int
  BY <1>3, <1>4 DEF UserDone, InDone, OutDone
<1>. QED
  BY <1>1, <1>2, <1>3, <1>4, <1>5 DEF Types

\* The events and the messages of a state.
LEMMA ElementFacts ==
    ASSUME Types
    PROVE  /\ \A i \in Slot : copy_event[i] \in Events /\ copy_event[i].stream \in Stream /\ copy_event[i].after \in Nat
           /\ \A n \in 1..Len(wire) :
                wire[n].call \in Nat /\ wire[n].seg \in Nat /\ wire[n].msg \in Nat /\ wire[n].last \in BOOLEAN
           /\ \A q \in QP : complete_seg[q] \in Nat /\ completed[q] \in Nat /\ polled[q] \in Nat
           /\ \A i \in Slot : msg_sent[i] \in Nat
<1>1. \A i \in Slot : copy_event[i] \in Events
  BY DEF Types
<1>2. \A e \in Events : e.stream \in Stream /\ e.after \in Nat
  BY DEF Events
<1>3. wire \in Seq(WireMessages)
  BY DEF Types
<1>. DEFINE M == WireMessages
<1>4. \A w \in M : w.call \in Nat /\ w.seg \in Nat /\ w.msg \in Nat /\ w.last \in BOOLEAN
  BY DEF WireMessages
<1>. HIDE DEF M
<1>5. \A n \in 1..Len(wire) : wire[n] \in M
  <2>1. wire \in Seq(M)
    BY <1>3 DEF M
  <2>. QED
    BY <2>1
<1>6. \A q \in QP : complete_seg[q] \in Nat /\ completed[q] \in Nat /\ polled[q] \in Nat
  BY DEF Types
<1>7. \A i \in Slot : msg_sent[i] \in Nat
  BY CallSizes DEF Types
<1>. QED
  BY <1>1, <1>2, <1>4, <1>5, <1>6, <1>7

\* When an event has occurred.
LEMMA OccurredDone ==
    ASSUME NEW e, Occurred(e)
    PROVE  /\ e.stream = "user" => UserDone >= e.after
           /\ e.stream = "d2h" => InDone >= e.after
           /\ e.stream = "h2d" => OutDone >= e.after
  BY DEF Occurred, UserDone, InDone, OutDone, UserQ, InQ, OutQ

LEMMA Sizes ==
    /\ Len(Calls) \in Nat /\ MaxMessages \in Nat /\ MaxSegments \in Nat
    /\ \A c \in 1..Len(Calls) :
         /\ Segments(c) \in Nat /\ Segments(c) <= MaxSegments
         /\ \A s \in 0..(Segments(c) - 1) : Size(c, s) \in Nat /\ 1 <= Size(c, s) /\ Size(c, s) <= MaxMessages
<1>1. Len(Calls) \in Nat
  BY PipelineAssumption
<1>. QED
  BY <1>1, CallSizes DEF Size

-----------------------------------------------------------------------------
(* Where the user's stream is, and where the messages are. *)

\* Once the data of a call has been produced, the user's stream stays there
\* until the call returns.
LEMMA AtCall ==
    ASSUME Types, UserOps
    PROVE  /\ sendbuff <= call
           /\ Busy /\ Produced => UserDone = 3 * call - 2 /\ sendbuff = call
<1>1. /\ call \in Nat /\ sendbuff \in Nat /\ UserDone \in Int /\ Len(UserQ) \in Nat
  BY StateFacts
<1>2. /\ UserDone + Len(UserQ) = IF Busy THEN 3 * call - 2 ELSE 3 * call
      /\ 3 * sendbuff - 2 <= UserDone /\ UserDone <= 3 * sendbuff
  BY DEF UserOps
<1>3. UserDone <= 3 * call /\ (Busy => UserDone <= 3 * call - 2)
  BY <1>1, <1>2
<1>. QED
  BY <1>1, <1>2, <1>3 DEF Produced

\* The place of a message follows from its call, segment and number.
LEMMA Places ==
    ASSUME Types, WireOrder, NEW n \in 1..Len(wire), NEW k \in 1..Len(wire)
    PROVE  /\ Before(wire[k], wire[n]) => k < n
           /\ wire[n].call = wire[k].call /\ wire[n].seg = wire[k].seg /\ wire[n].msg = wire[k].msg => n = k
<1>1. /\ wire[n].call \in Nat /\ wire[n].seg \in Nat /\ wire[n].msg \in Nat
      /\ wire[k].call \in Nat /\ wire[k].seg \in Nat /\ wire[k].msg \in Nat
  BY ElementFacts
<1>2. n \in Nat /\ k \in Nat
  BY StateFacts
<1>3. (n < k => Before(wire[n], wire[k])) /\ (k < n => Before(wire[k], wire[n]))
  BY DEF WireOrder
<1>4. n = k => ~Before(wire[k], wire[n])
  BY <1>1 DEF Before
<1>5. ~(Before(wire[k], wire[n]) /\ Before(wire[n], wire[k]))
  BY <1>1 DEF Before
<1>6. wire[n].call = wire[k].call /\ wire[n].seg = wire[k].seg /\ wire[n].msg = wire[k].msg
        => ~Before(wire[k], wire[n]) /\ ~Before(wire[n], wire[k])
  BY <1>1 DEF Before
<1>. QED
  BY <1>2, <1>3, <1>4, <1>5, <1>6

\* What a message on the wire is.
LEMMA OfTheCalls ==
    ASSUME Types, WireOrder, NEW n \in 1..Len(wire)
    PROVE  /\ wire[n].call \in Nat /\ wire[n].seg \in Nat /\ wire[n].msg \in Nat
           /\ wire[n].call \in 1..Len(Calls) /\ wire[n].call <= call /\ wire[n].seg < Segments(wire[n].call)
           /\ Size(wire[n].call, wire[n].seg) \in Nat
           /\ 1 <= wire[n].msg /\ wire[n].msg <= Size(wire[n].call, wire[n].seg)
           /\ wire[n].last <=> wire[n].msg = Size(wire[n].call, wire[n].seg)
<1>1. Proper(wire[n]) /\ wire[n].call <= call
  BY DEF WireOrder
<1>2. wire[n].call \in Nat /\ wire[n].seg \in Nat /\ wire[n].msg \in Nat
  BY ElementFacts
<1>. DEFINE w == wire[n]
            sz == Size(w.call, w.seg)
<1>3. w.call \in 1..Len(Calls) /\ w.seg \in 0..(Segments(w.call) - 1)
  BY <1>1 DEF Proper
<1>4. sz \in Nat /\ Segments(w.call) \in Nat
  BY <1>3, Sizes
<1>5. w.msg \in 1..sz /\ (w.last <=> w.msg = sz)
  BY <1>1 DEF Proper
<1>. HIDE DEF sz
<1>6. w.seg < Segments(w.call) /\ 1 <= w.msg /\ w.msg <= sz
  BY <1>3, <1>4, <1>5
<1>. QED
  BY <1>1, <1>2, <1>3, <1>4, <1>5, <1>6 DEF sz

\* A message that has not been polled is of the current call and of a segment
\* that is being sent.
LEMMA NotPolled ==
    ASSUME PInv, NEW q \in QP, NEW n \in 1..Len(wire), polled[q] < n
    PROVE  Busy /\ wire[n].call = call /\ head <= wire[n].seg /\ wire[n].seg < middle
<1>. USE DEF PInv
<1>1. /\ polled[q] \in Nat /\ complete_seg[q] \in Nat /\ head \in Nat /\ n \in Nat /\ call \in Nat /\ Len(wire) \in Nat
  BY ElementFacts, StateFacts
<1>2. wire[n].call \in Nat /\ wire[n].call <= call /\ wire[n].seg \in Nat /\ wire[n].msg \in Nat
      /\ wire[n].msg <= Size(wire[n].call, wire[n].seg) /\ Size(wire[n].call, wire[n].seg) \in Nat
      /\ wire[n].seg < Segments(wire[n].call)
  BY OfTheCalls
<1>3. ~(n <= polled[q])
  BY <1>1
<1>4. Busy /\ ~(wire[n].call < call)
  BY <1>3 DEF PolledMessages
<1>5. wire[n].call = call
  BY <1>1, <1>2, <1>4
<1>6. wire[n].seg < middle
  BY <1>4, <1>5 DEF WireOrder
<1>7. ASSUME wire[n].seg < head PROVE FALSE
  <2>. DEFINE s == wire[n].seg
  <2>1. s \in Nat /\ s \in 0..(head + complete_seg[q] - 1) /\ s < head + complete_seg[q]
    BY <1>1, <1>2, <1>7
  <2>. HIDE DEF s
  <2>2. SentUpTo(wire, call, head + complete_seg[q])
    BY <1>4 DEF PolledMessages
  <2>3. PICK k \in 1..Len(wire) : wire[k].call = call /\ wire[k].seg = s /\ wire[k].last
    <3>. DEFINE x == head + complete_seg[q]
    <3>1. s \in 0..(x - 1)
      BY <1>1, <2>1
    <3>2. SentUpTo(wire, call, x)
      BY <2>2
    <3>. HIDE DEF x
    <3>3. \A t \in 0..(x - 1) : \E j \in 1..Len(wire) : wire[j].call = call /\ wire[j].seg = t /\ wire[j].last
      BY <3>2, Zenon DEF SentUpTo
    <3>. QED
      BY <3>1, <3>3, Zenon
  <2>4. wire[k].msg = Size(call, s)
    BY <2>3, OfTheCalls
  <2>5. k <= polled[q] /\ k \in Nat
    BY <1>1, <1>4, <2>1, <2>3 DEF PolledMessages, PolledUpTo
  <2>6. k < n
    BY <1>1, <1>3, <2>5
  <2>7. Before(wire[k], wire[n])
    BY <2>6 DEF WireOrder
  <2>. QED
    BY <1>2, <1>5, <2>3, <2>4, <2>7 DEF Before, s
<1>. QED
  BY <1>1, <1>2, <1>4, <1>5, <1>6, <1>7

\* A segment that has been released is in its send buffer, and the user's
\* stream waits for its result.
LEMMA Released ==
    ASSUME PInv, Busy, NEW s \in head..(middle - 1)
    PROVE  /\ s_mr[s % QueueSize] = <<call, s>> /\ UserDone = 3 * call - 2 /\ sendbuff = call
           /\ s \in Nat /\ s \in 0..(Segments(call) - 1)
<1>. USE DEF PInv
<1>1. head \in Nat /\ middle \in Nat /\ tail \in Nat /\ s \in Nat /\ call \in 1..Len(Calls)
  BY StateFacts DEF Types
<1>2. Segments(call) \in Nat
  BY <1>1, Sizes
<1>3. head <= middle /\ middle <= tail /\ tail <= Segments(call)
  BY DEF Indices
<1>4. s \in head..(tail - 1) /\ s \in 0..(Segments(call) - 1)
  BY <1>1, <1>2, <1>3
<1>5. ASSUME NEW k \in 1..Len(InQ), InQ[k] = CopyIn(call, s) PROVE FALSE
  <2>1. CASE InQ[k].op = "wait"
    BY <1>5, <2>1, OpFacts
  <2>2. CASE \E t \in middle..(tail - 1) : InQ[k] = CopyIn(call, t)
    <3>1. PICK t \in middle..(tail - 1) : InQ[k] = CopyIn(call, t)
      BY <2>2
    <3>2. CopyIn(call, t).seg = t /\ CopyIn(call, s).seg = s
      BY DEF CopyIn
    <3>3. t = s
      BY <3>1, <3>2, <1>5
    <3>. QED
      BY <3>3, <1>1
  <2>. QED
    BY <2>1, <2>2 DEF InOps
<1>6. ~Pending(InQ, CopyIn(call, s))
  BY <1>5 DEF Pending
<1>7. s_mr[s % QueueSize] = <<call, s>> /\ Produced
  BY <1>4, <1>6 DEF CopiedSegments
<1>8. UserDone = 3 * call - 2 /\ sendbuff = call
  BY <1>7, AtCall
<1>. QED
  BY <1>1, <1>4, <1>7, <1>8

-----------------------------------------------------------------------------
(* The streams. *)

\* The host, the network card, the events and the numbers of operations given
\* are left alone.
StreamOnly ==
    /\ pc' = pc /\ call' = call /\ head' = head /\ middle' = middle /\ tail' = tail
    /\ msg_sent' = msg_sent /\ complete_seg' = complete_seg
    /\ wire' = wire /\ completed' = completed /\ polled' = polled
    /\ given' = given /\ copy_event' = copy_event /\ Busy' = Busy

\* A stream that executes an operation has one operation less.
LEMMA RunQueue ==
    ASSUME PInv, NEW st \in Stream, Run(st)
    PROVE  /\ StreamOnly /\ queue[st] # << >> /\ queue' = [queue EXCEPT ![st] = Tail(queue[st])]
           /\ queue' \in [Stream -> Seq(Ops)]
           /\ UserDone' = IF st = "user" THEN UserDone + 1 ELSE UserDone
           /\ InDone' = IF st = "d2h" THEN InDone + 1 ELSE InDone
           /\ OutDone' = IF st = "h2d" THEN OutDone + 1 ELSE OutDone
           /\ UserQ' = IF st = "user" THEN Tail(UserQ) ELSE UserQ
           /\ InQ' = IF st = "d2h" THEN Tail(InQ) ELSE InQ
           /\ OutQ' = IF st = "h2d" THEN Tail(OutQ) ELSE OutQ
<1>1. StreamOnly
  BY DEF Run, host, nic, StreamOnly, Busy
<1>2. queue[st] # << >> /\ queue' = [queue EXCEPT ![st] = Tail(queue[st])]
  BY DEF Run
<1>3. queue \in [Stream -> Seq(Ops)] /\ given \in [Stream -> Nat]
  BY DEF PInv, Types
<1>. DEFINE q == queue[st]
<1>4. q \in Seq(Ops) /\ q # << >>
  BY <1>2, <1>3
<1>. HIDE DEF q
<1>5. Tail(q) \in Seq(Ops) /\ Len(q) \in Nat /\ Len(Tail(q)) = Len(q) - 1
  BY <1>4, TailAt
<1>6. queue' = [queue EXCEPT ![st] = Tail(q)] /\ queue' \in [Stream -> Seq(Ops)]
  BY <1>2, <1>3, <1>5 DEF q
<1>7. /\ \A x \in Stream : queue'[x] = IF x = st THEN Tail(q) ELSE queue[x]
  BY <1>3, <1>6
<1>8. "user" \in Stream /\ "d2h" \in Stream /\ "h2d" \in Stream
  BY DEF Stream
<1>9. /\ UserQ' = IF st = "user" THEN Tail(UserQ) ELSE UserQ
      /\ InQ' = IF st = "d2h" THEN Tail(InQ) ELSE InQ
      /\ OutQ' = IF st = "h2d" THEN Tail(OutQ) ELSE OutQ
  BY <1>7, <1>8 DEF UserQ, InQ, OutQ, q
<1>10. given' = given
  BY <1>1 DEF StreamOnly
<1>11. given["user"] \in Nat /\ given["d2h"] \in Nat /\ given["h2d"] \in Nat
  BY <1>3, <1>8
<1>12. UserDone' = IF st = "user" THEN UserDone + 1 ELSE UserDone
  <2>1. UserDone' = given["user"] - Len(UserQ')
    BY <1>10 DEF UserDone
  <2>2. CASE st = "user"
    <3>1. Len(UserQ') = Len(UserQ) - 1 /\ Len(UserQ) \in Nat
      BY <1>5, <1>9, <2>2 DEF UserQ, q
    <3>. QED
      BY <3>1, <2>1, <2>2, <1>11 DEF UserDone
  <2>3. CASE st # "user"
    BY <2>1, <2>3, <1>9 DEF UserDone
  <2>. QED
    BY <2>2, <2>3
<1>13. InDone' = IF st = "d2h" THEN InDone + 1 ELSE InDone
  <2>1. InDone' = given["d2h"] - Len(InQ')
    BY <1>10 DEF InDone
  <2>2. CASE st = "d2h"
    <3>1. Len(InQ') = Len(InQ) - 1 /\ Len(InQ) \in Nat
      BY <1>5, <1>9, <2>2 DEF InQ, q
    <3>. QED
      BY <3>1, <2>1, <2>2, <1>11 DEF InDone
  <2>3. CASE st # "d2h"
    BY <2>1, <2>3, <1>9 DEF InDone
  <2>. QED
    BY <2>2, <2>3
<1>14. OutDone' = IF st = "h2d" THEN OutDone + 1 ELSE OutDone
  <2>1. OutDone' = given["h2d"] - Len(OutQ')
    BY <1>10 DEF OutDone
  <2>2. CASE st = "h2d"
    <3>1. Len(OutQ') = Len(OutQ) - 1 /\ Len(OutQ) \in Nat
      BY <1>5, <1>9, <2>2 DEF OutQ, q
    <3>. QED
      BY <3>1, <2>1, <2>2, <1>11 DEF OutDone
  <2>3. CASE st # "h2d"
    BY <2>1, <2>3, <1>9 DEF OutDone
  <2>. QED
    BY <2>2, <2>3
<1>. QED
  BY <1>1, <1>2, <1>6, <1>9, <1>12, <1>13, <1>14

\* What the user's stream does.
LEMMA RunUser ==
    ASSUME PInv, Run("user")
    PROVE  /\ s_mr' = s_mr /\ r_mr' = r_mr /\ recvbuff' = recvbuff
           /\ \E c \in 1..call :
                \/ UserDone + 1 = 3 * c - 2 /\ sendbuff' = c
                \/ /\ UserDone + 1 = 3 * c - 1 /\ sendbuff' = sendbuff
                   /\ \A j \in 1..Len(OutQ) : ~(OutQ[j].call <= c)
                \/ UserDone + 1 = 3 * c /\ sendbuff' = sendbuff
<1>. USE DEF PInv
<1>. DEFINE o == Head(UserQ)
<1>1. UserQ \in Seq(Ops) /\ UserQ # << >> /\ o = UserQ[1] /\ 1 \in 1..Len(UserQ)
  <2>1. UserQ \in Seq(Ops) /\ UserQ # << >>
    BY StateFacts DEF Run, UserQ
  <2>. QED
    BY <2>1, TailAt
<1>2. PICK c \in 1..call : UserOp(o, UserDone + 1, c, OutQ, OutDone)
  BY <1>1 DEF UserOps
<1>3. Execute(o)
  <2>1. "user" \in Stream
    BY DEF Stream
  <2>. QED
    BY <2>1 DEF Run, UserQ
<1>. HIDE DEF o
<1>4. CASE UserDone + 1 = 3 * c - 2 /\ o = Produce(c)
  <2>1. o.op = "produce" /\ o.call = c
    BY <1>4 DEF Produce
  <2>2. sendbuff' = c /\ UNCHANGED <<s_mr, r_mr, recvbuff>>
    BY <1>3, <2>1 DEF Execute
  <2>. QED
    BY <1>4, <2>2
<1>5. CASE /\ UserDone + 1 = 3 * c - 1
           /\ o.op = "wait" /\ o.event.stream = "h2d"
           /\ \A j \in 1..Len(OutQ) : OutQ[j].call <= c => OutDone + j <= o.event.after
  <2>1. Occurred(o.event) /\ UNCHANGED <<sendbuff, s_mr, r_mr, recvbuff>>
    BY <1>3, <1>5 DEF Execute, memory
  <2>2. OutDone >= o.event.after
    BY <2>1, <1>5, OccurredDone
  <2>3. OutDone \in Int /\ Len(OutQ) \in Nat
    BY StateFacts
  <2>4. o \in Ops
    BY <1>1, TailAt DEF o
  <2>5. o.event \in Events
    BY <2>4, <1>5 DEF Ops
  <2>6. o.event.after \in Nat
    BY <2>5 DEF Events
  <2>. DEFINE a == o.event.after
  <2>. HIDE DEF a
  <2>7. ASSUME NEW j \in 1..Len(OutQ), OutQ[j].call <= c PROVE FALSE
    <3>1. OutDone + j <= a /\ OutDone >= a /\ a \in Nat
      BY <2>2, <2>6, <2>7, <1>5 DEF a
    <3>2. j \in Nat /\ j > 0
      BY <2>3
    <3>. QED
      BY <3>1, <3>2, <2>3
  <2>. QED
    BY <1>5, <2>1, <2>7
<1>6. CASE UserDone + 1 = 3 * c /\ o = Consume(c)
  <2>1. o.op = "consume"
    BY <1>6 DEF Consume
  <2>2. UNCHANGED <<sendbuff, s_mr, r_mr, recvbuff>>
    BY <1>3, <2>1 DEF Execute, memory
  <2>. QED
    BY <1>6, <2>2
<1>. QED
  BY <1>2, <1>4, <1>5, <1>6 DEF UserOp

\* The first operation of a stream goes, and the others move up.
LEMMA MoveUp ==
    ASSUME NEW ops \in Seq(Ops), ops # << >>
    PROVE  /\ Len(ops) \in Nat /\ Len(Tail(ops)) = Len(ops) - 1 /\ 1 \in 1..Len(ops)
           /\ \A k \in 1..Len(Tail(ops)) : k \in Nat /\ k + 1 \in 1..Len(ops) /\ Tail(ops)[k] = ops[k + 1]
           /\ \A k \in 1..Len(ops) : k = 1 \/ (k - 1 \in 1..Len(Tail(ops)) /\ Tail(ops)[k - 1] = ops[k])
<1>1. /\ Len(ops) \in Nat /\ Len(Tail(ops)) = Len(ops) - 1 /\ 1 \in 1..Len(ops)
      /\ \A k \in 1..Len(Tail(ops)) : k + 1 \in 1..Len(ops) /\ Tail(ops)[k] = ops[k + 1]
  BY TailAt
<1>. DEFINE t == Tail(ops)
<1>. HIDE DEF t
<1>2. \A k \in 1..Len(t) : k \in Nat
  BY <1>1 DEF t
<1>3. ASSUME NEW k \in 1..Len(ops), k # 1 PROVE k - 1 \in 1..Len(t) /\ t[k - 1] = ops[k]
  <2>1. k - 1 \in 1..Len(t) /\ (k - 1) + 1 = k
    BY <1>1, <1>3 DEF t
  <2>2. t[k - 1] = ops[(k - 1) + 1]
    BY <2>1, <1>1 DEF t
  <2>. QED
    BY <2>1, <2>2
<1>. QED
  BY <1>1, <1>2, <1>3 DEF t

LEMMA UserStep ==
    ASSUME PInv, Run("user")
    PROVE  PInv'
<1>. USE DEF PInv
<1>0. "user" \in Stream
  BY DEF Stream
<1>1. /\ StreamOnly /\ UserQ # << >> /\ queue' \in [Stream -> Seq(Ops)]
      /\ UserDone' = UserDone + 1 /\ InDone' = InDone /\ OutDone' = OutDone
      /\ UserQ' = Tail(UserQ) /\ InQ' = InQ /\ OutQ' = OutQ
  BY <1>0, RunQueue DEF UserQ
<1>2. s_mr' = s_mr /\ r_mr' = r_mr /\ recvbuff' = recvbuff
  BY RunUser
<1>3. PICK c \in 1..call :
        \/ UserDone + 1 = 3 * c - 2 /\ sendbuff' = c
        \/ /\ UserDone + 1 = 3 * c - 1 /\ sendbuff' = sendbuff
           /\ \A j \in 1..Len(OutQ) : ~(OutQ[j].call <= c)
        \/ UserDone + 1 = 3 * c /\ sendbuff' = sendbuff
  BY RunUser
<1>4. /\ call \in Nat /\ call <= Len(Calls) /\ sendbuff \in Nat /\ UserDone \in Nat /\ Len(OutQ) \in Nat /\ c \in Nat
      /\ head \in Nat /\ middle \in Nat /\ UserQ \in Seq(Ops) /\ Len(UserQ) \in Nat
  BY StateFacts DEF UserOps
<1>5. /\ 3 * sendbuff - 2 <= UserDone /\ UserDone <= 3 * sendbuff
  BY DEF UserOps
<1>6. \/ UserDone + 1 = 3 * c - 2 /\ sendbuff' = c
      \/ UserDone + 1 = 3 * c - 1 /\ sendbuff' = sendbuff /\ c = sendbuff
      \/ UserDone + 1 = 3 * c /\ sendbuff' = sendbuff /\ c = sendbuff
  BY <1>3, <1>4, <1>5
<1>7. sendbuff' \in Nat /\ 3 * sendbuff' - 2 <= UserDone + 1 /\ UserDone + 1 <= 3 * sendbuff'
  BY <1>4, <1>6
<1>8. Types'
  BY <1>1, <1>2, <1>7 DEF Types, StreamOnly
<1>9. Indices'
  BY <1>1 DEF Indices, StreamOnly
<1>10. UserOps'
  <2>1. UserDone' \in Nat
    BY <1>1, <1>4
  <2>2. /\ Len(Tail(UserQ)) = Len(UserQ) - 1
        /\ \A k \in 1..Len(Tail(UserQ)) : k \in Nat /\ k + 1 \in 1..Len(UserQ) /\ Tail(UserQ)[k] = UserQ[k + 1]
    BY <1>1, <1>4, MoveUp
  <2>3. UserDone' + Len(UserQ') = UserDone + Len(UserQ)
    BY <2>2, <1>1, <1>4
  <2>4. UserDone' + Len(UserQ') = IF Busy' THEN 3 * call' - 2 ELSE 3 * call'
    BY <2>3, <1>1 DEF UserOps, StreamOnly
  <2>5. ASSUME NEW k \in 1..Len(Tail(UserQ))
        PROVE  \E d \in 1..call : UserOp(Tail(UserQ)[k], (UserDone + 1) + k, d, OutQ, OutDone)
    <3>1. k + 1 \in 1..Len(UserQ) /\ Tail(UserQ)[k] = UserQ[k + 1] /\ k \in Nat
      BY <2>2
    <3>2. UserDone + (k + 1) = (UserDone + 1) + k
      BY <3>1, <1>4
    <3>3. \E d \in 1..call : UserOp(UserQ[k + 1], UserDone + (k + 1), d, OutQ, OutDone)
      BY <3>1 DEF UserOps
    <3>. QED
      BY <3>1, <3>2, <3>3
  <2>6. \A k \in 1..Len(UserQ') : \E d \in 1..call' : UserOp(UserQ'[k], UserDone' + k, d, OutQ', OutDone')
    BY <2>5, <1>1 DEF StreamOnly
  <2>. QED
    BY <2>1, <2>4, <2>6, <1>1, <1>7 DEF UserOps
<1>11. Produced => Produced'
  BY <1>1, <1>4 DEF Produced, StreamOnly
<1>12. InOps'
  <2>1. call' = call /\ InQ' = InQ /\ InDone' = InDone /\ Busy' = Busy /\ middle' = middle /\ tail' = tail
    BY <1>1 DEF StreamOnly
  <2>2. \A x : WaitsFor(InQ', x, 3 * call' - 2) <=> WaitsFor(InQ, x, 3 * call - 2)
    BY <2>1, Zenon
  <2>3. \A s : CopyIn(call', s) = CopyIn(call, s)
    BY <2>1, Zenon
  <2>. QED
    BY <2>1, <2>2, <2>3, <1>11 DEF InOps
<1>13. \A k \in 1..Len(OutQ) : FALSE
  <2>. SUFFICES ASSUME NEW k \in 1..Len(OutQ) PROVE FALSE
    OBVIOUS
  <2>1. UserDone = 3 * sendbuff - 2 /\ OutQ[k].call = sendbuff
    <3>1. PICK s : OutQ[k] = CopyOut(sendbuff, s)
      BY DEF OutOps
    <3>2. CopyOut(sendbuff, s).call = sendbuff
      BY DEF CopyOut
    <3>. QED
      BY <3>1, <3>2 DEF OutOps
  <2>2. UserDone + 1 = 3 * c - 1 /\ c = sendbuff
    BY <2>1, <1>4, <1>6
  <2>3. ~(OutQ[k].call <= c)
    BY <2>2, <1>3, <1>4
  <2>. QED
    BY <2>1, <2>2, <2>3, <1>4
<1>15. OutOps'
  <2>1. OutQ' = OutQ /\ OutDone' = OutDone /\ OutDone \in Nat
    BY <1>1 DEF OutOps
  <2>. QED
    BY <2>1, <1>13 DEF OutOps
<1>16. BufferEvents'
  BY <1>1 DEF BufferEvents, StreamOnly
<1>17. NotProduced'
  <2>1. call' = call /\ Busy' = Busy /\ middle' = middle /\ UserDone' = UserDone + 1
    BY <1>1 DEF StreamOnly
  <2>2. Busy' /\ ~Produced' => middle' = 0
    BY <2>1, <1>11 DEF NotProduced
  <2>3. \A d \in 1..call : UserDone' < 3 * d - 2 => UserDone < 3 * d - 2
    BY <2>1, <1>4
  <2>4. \A d \in 1..call' : UserDone' < 3 * d - 2 /\ (d < call' \/ ~Busy') => Segments(d) = 0
    BY <2>1, <2>3 DEF NotProduced
  <2>. QED
    BY <2>2, <2>4 DEF NotProduced
<1>18. CopiedSegments'
  <2>1. /\ call' = call /\ InQ' = InQ /\ Busy' = Busy /\ head' = head /\ tail' = tail /\ s_mr' = s_mr
    BY <1>1, <1>2 DEF StreamOnly
  <2>. QED
    BY <2>1, <1>11 DEF CopiedSegments
<1>19. WireOrder' /\ SentMessages' /\ PolledMessages'
  BY <1>1 DEF StreamOnly, WireOrder, SentMessages, PolledMessages
<1>20. ReceivedSums'
  BY <1>1, <1>2 DEF StreamOnly, ReceivedSums
<1>21. CopiedResults'
  <2>1. /\ call' = call /\ OutQ' = OutQ /\ Busy' = Busy /\ head' = head /\ recvbuff' = recvbuff /\ UserDone' = UserDone + 1
    BY <1>1, <1>2 DEF StreamOnly
  <2>2. CASE UserDone + 1 = 3 * c - 2 /\ sendbuff' = c
    <3>1. UserDone < 3 * c - 2
      BY <2>2, <1>4
    <3>2. CASE c = call /\ Busy
      <4>1. middle = 0
        BY <3>1, <3>2, <1>4 DEF NotProduced, Produced
      <4>2. head = 0
        BY <4>1, <1>4 DEF Indices
      <4>3. \A s \in 0..(Segments(c) - 1) : s >= head
        BY <4>2
      <4>. QED
        BY <4>3, <3>2, <2>1, <2>2 DEF CopiedResults
    <3>3. CASE c < call \/ ~Busy
      <4>1. Segments(c) = 0
        BY <3>1, <3>3 DEF NotProduced
      <4>2. \A s \in 0..(Segments(c) - 1) : FALSE
        BY <4>1
      <4>. QED
        BY <4>2, <2>2 DEF CopiedResults
    <3>. QED
      BY <3>2, <3>3, <1>4
  <2>3. CASE UserDone + 1 = 3 * c - 1 /\ sendbuff' = sendbuff /\ c = sendbuff
    <3>1. UserDone = 3 * sendbuff - 2
      BY <2>3, <1>4
    <3>. QED
      BY <3>1, <2>1, <2>3 DEF CopiedResults
  <2>4. CASE UserDone + 1 = 3 * c /\ sendbuff' = sendbuff /\ c = sendbuff
    <3>1. UserDone' # 3 * sendbuff' - 2 /\ UserDone' # 3 * sendbuff' - 1
      BY <2>1, <2>4, <1>4
    <3>. QED
      BY <3>1 DEF CopiedResults
  <2>. QED
    BY <2>2, <2>3, <2>4, <1>6
<1>. QED
  BY <1>8, <1>9, <1>10, <1>12, <1>15, <1>16, <1>17, <1>18, <1>19, <1>20, <1>21

\* What the stream of the copies to the send buffers does.
LEMMA RunIn ==
    ASSUME PInv, Run("d2h")
    PROVE  /\ sendbuff' = sendbuff /\ r_mr' = r_mr /\ recvbuff' = recvbuff
           /\ \/ InQ[1].op = "wait" /\ UserDone >= InQ[1].event.after /\ s_mr' = s_mr
              \/ /\ Busy /\ Produced /\ InQ[1].op # "wait"
                 /\ \E s \in middle..(tail - 1) :
                      InQ[1] = CopyIn(call, s) /\ s_mr' = [s_mr EXCEPT ![s % QueueSize] = <<call, s>>]
<1>. USE DEF PInv
<1>. DEFINE o == Head(InQ)
<1>1. InQ \in Seq(Ops) /\ InQ # << >> /\ o = InQ[1] /\ 1 \in 1..Len(InQ)
  <2>1. InQ \in Seq(Ops) /\ InQ # << >>
    BY StateFacts DEF Run, InQ
  <2>. QED
    BY <2>1, TailAt
<1>2. Execute(o)
  <2>1. "d2h" \in Stream
    BY DEF Stream
  <2>. QED
    BY <2>1 DEF Run, InQ
<1>. HIDE DEF o
<1>3. CASE o.op = "wait" /\ o.event.stream = "user"
  <2>1. Occurred(o.event) /\ UNCHANGED <<sendbuff, s_mr, r_mr, recvbuff>>
    BY <1>2, <1>3 DEF Execute, memory
  <2>2. UserDone >= o.event.after
    BY <2>1, <1>3, OccurredDone
  <2>. QED
    BY <2>1, <2>2, <1>1, <1>3
<1>4. CASE /\ Busy
           /\ \E s \in middle..(tail - 1) : o = CopyIn(call, s)
           /\ Produced \/ WaitsFor(InQ, 1 - 1, 3 * call - 2)
  <2>1. PICK s \in middle..(tail - 1) : o = CopyIn(call, s)
    BY <1>4
  <2>2. o.op = "in" /\ o.seg = s
    BY <2>1 DEF CopyIn
  <2>3. Produced
    <3>1. \A j \in 1..(1 - 1) : FALSE
      OBVIOUS
    <3>. QED
      BY <3>1, <1>4 DEF WaitsFor
  <2>4. sendbuff = call
    BY <2>3, <1>4, AtCall
  <2>5. s_mr' = [s_mr EXCEPT ![s % QueueSize] = <<call, s>>] /\ UNCHANGED <<sendbuff, r_mr, recvbuff>>
    BY <2>2, <2>4, <1>2 DEF Execute
  <2>. QED
    BY <2>1, <2>2, <2>3, <2>5, <1>1, <1>4
<1>5. \/ o.op = "wait" /\ o.event.stream = "user"
      \/ /\ Busy
         /\ \E s \in middle..(tail - 1) : o = CopyIn(call, s)
         /\ Produced \/ WaitsFor(InQ, 1 - 1, 3 * call - 2)
  BY <1>1 DEF InOps
<1>. QED
  BY <1>3, <1>4, <1>5

\* A wait that is executed has been waited for; the others move up.
LEMMA WaitMovesUp ==
    ASSUME NEW ops \in Seq(Ops), ops # << >>, NEW x \in Int, NEW n \in 1..Len(ops), WaitsFor(ops, n, x),
           NEW u \in Int, ops[1].op = "wait" => u >= ops[1].event.after
    PROVE  u >= x \/ WaitsFor(Tail(ops), n - 1, x)
<1>1. PICK j \in 1..n : ops[j].op = "wait" /\ ops[j].event.after >= x
  BY DEF WaitsFor
<1>2. /\ Len(ops) \in Nat /\ Len(Tail(ops)) = Len(ops) - 1 /\ 1 \in 1..Len(ops)
      /\ \A k \in 1..Len(ops) : k = 1 \/ (k - 1 \in 1..Len(Tail(ops)) /\ Tail(ops)[k - 1] = ops[k])
  BY MoveUp
<1>3. j \in 1..Len(ops) /\ j \in Nat /\ n \in Nat
  BY <1>2
<1>4. CASE j = 1
  <2>1. ops[1] \in Ops
    BY <1>2
  <2>2. ops[1].event \in Events
    BY <2>1, <1>1, <1>4 DEF Ops
  <2>3. ops[1].event.after \in Nat
    BY <2>2 DEF Events
  <2>4. u >= ops[1].event.after /\ ops[1].event.after >= x
    BY <1>1, <1>4
  <2>. DEFINE a == ops[1].event.after
  <2>. HIDE DEF a
  <2>5. u >= a /\ a >= x /\ a \in Nat
    BY <2>3, <2>4 DEF a
  <2>. QED
    BY <2>5
<1>5. CASE j # 1
  <2>1. j - 1 \in 1..Len(Tail(ops)) /\ Tail(ops)[j - 1] = ops[j]
    BY <1>2, <1>3, <1>5
  <2>2. j - 1 \in 1..(n - 1)
    BY <1>3, <1>5
  <2>. QED
    BY <2>1, <2>2, <1>1 DEF WaitsFor
<1>. QED
  BY <1>4, <1>5

LEMMA InStep ==
    ASSUME PInv, Run("d2h")
    PROVE  PInv'
<1>. USE DEF PInv
<1>0. "d2h" \in Stream
  BY DEF Stream
<1>1. /\ StreamOnly /\ InQ # << >> /\ queue' \in [Stream -> Seq(Ops)]
      /\ UserDone' = UserDone /\ InDone' = InDone + 1 /\ OutDone' = OutDone
      /\ UserQ' = UserQ /\ InQ' = Tail(InQ) /\ OutQ' = OutQ
  BY <1>0, RunQueue DEF InQ
<1>2. sendbuff' = sendbuff /\ r_mr' = r_mr /\ recvbuff' = recvbuff
  BY RunIn
<1>3. \/ InQ[1].op = "wait" /\ UserDone >= InQ[1].event.after /\ s_mr' = s_mr
      \/ /\ Busy /\ Produced /\ InQ[1].op # "wait"
         /\ \E s \in middle..(tail - 1) :
              InQ[1] = CopyIn(call, s) /\ s_mr' = [s_mr EXCEPT ![s % QueueSize] = <<call, s>>]
  BY RunIn
<1>4. /\ call \in Nat /\ head \in Nat /\ middle \in Nat /\ tail \in Nat /\ UserDone \in Int /\ InDone \in Nat
      /\ InQ \in Seq(Ops) /\ Len(InQ) \in Nat
  BY StateFacts DEF InOps
<1>5. /\ Len(Tail(InQ)) = Len(InQ) - 1 /\ 1 \in 1..Len(InQ)
      /\ \A k \in 1..Len(Tail(InQ)) : k \in Nat /\ k + 1 \in 1..Len(InQ) /\ Tail(InQ)[k] = InQ[k + 1]
      /\ \A k \in 1..Len(InQ) : k = 1 \/ (k - 1 \in 1..Len(Tail(InQ)) /\ Tail(InQ)[k - 1] = InQ[k])
  BY <1>1, <1>4, MoveUp
<1>6. call' = call /\ head' = head /\ middle' = middle /\ tail' = tail /\ Busy' = Busy
  BY <1>1 DEF StreamOnly
<1>7. Produced' <=> Produced
  BY <1>1, <1>6 DEF Produced
<1>8. head <= middle /\ middle <= tail /\ tail <= head + QueueSize /\ QueueSize \in Nat \ {0}
  BY Buffers DEF Indices
<1>9. Types'
  <2>1. s_mr' \in [Slot -> Nat \X Nat]
    <3>1. CASE s_mr' = s_mr
      BY <3>1 DEF Types
    <3>2. CASE \E s \in middle..(tail - 1) : s_mr' = [s_mr EXCEPT ![s % QueueSize] = <<call, s>>]
      <4>1. PICK s \in middle..(tail - 1) : s_mr' = [s_mr EXCEPT ![s % QueueSize] = <<call, s>>]
        BY <3>2
      <4>2. <<call, s>> \in Nat \X Nat
        BY <1>4
      <4>. QED
        BY <4>1, <4>2 DEF Types
    <3>. QED
      BY <3>1, <3>2, <1>3
  <2>. QED
    BY <2>1, <1>1, <1>2 DEF Types, StreamOnly
<1>10. Indices' /\ WireOrder' /\ SentMessages' /\ PolledMessages'
  BY <1>1 DEF StreamOnly, Indices, WireOrder, SentMessages, PolledMessages
<1>11. UserOps' /\ NotProduced'
  BY <1>1, <1>2, <1>6, <1>7 DEF UserOps, NotProduced
<1>12. OutOps' /\ CopiedResults' /\ ReceivedSums'
  <2>1. OutOps'
    BY <1>1, <1>2, <1>6 DEF OutOps
  <2>2. CopiedResults'
    BY <1>1, <1>2, <1>6 DEF CopiedResults
  <2>3. ReceivedSums'
    BY <1>1, <1>2 DEF ReceivedSums, StreamOnly
  <2>. QED
    BY <2>1, <2>2, <2>3
<1>. DEFINE x == 3 * call - 2
<1>13. x \in Int /\ (Produced <=> UserDone >= x)
  BY <1>4 DEF Produced
<1>14. ASSUME NEW n \in 1..Len(InQ), WaitsFor(InQ, n, x) PROVE Produced \/ WaitsFor(Tail(InQ), n - 1, x)
  <2>1. InQ[1].op = "wait" => UserDone >= InQ[1].event.after
    BY <1>3
  <2>. HIDE DEF x
  <2>2. UserDone >= x \/ WaitsFor(Tail(InQ), n - 1, x)
    BY <2>1, <1>1, <1>4, <1>13, <1>14, WaitMovesUp
  <2>. QED
    BY <2>2, <1>13
<1>15. InOps'
  <2>1. InDone' \in Nat
    BY <1>1, <1>4
  <2>2. ASSUME NEW k \in 1..Len(Tail(InQ))
        PROVE  \/ Tail(InQ)[k].op = "wait" /\ Tail(InQ)[k].event.stream = "user"
               \/ /\ Busy
                  /\ \E s \in middle..(tail - 1) : Tail(InQ)[k] = CopyIn(call, s)
                  /\ Produced \/ WaitsFor(Tail(InQ), k - 1, x)
    <3>. DEFINE n == k + 1
    <3>1. n \in 1..Len(InQ) /\ k \in Nat /\ n - 1 = k /\ Tail(InQ)[k] = InQ[n]
      BY <1>5
    <3>2. \/ InQ[n].op = "wait" /\ InQ[n].event.stream = "user"
          \/ /\ Busy
             /\ \E s \in middle..(tail - 1) : InQ[n] = CopyIn(call, s)
             /\ Produced \/ WaitsFor(InQ, n - 1, x)
      BY <3>1 DEF InOps
    <3>3. k \in 1..Len(InQ)
      BY <1>4, <1>5
    <3>4. WaitsFor(InQ, k, x) => Produced \/ WaitsFor(Tail(InQ), k - 1, x)
      BY <3>3, <1>14
    <3>. HIDE DEF n, x
    <3>. QED
      BY <3>1, <3>2, <3>4
  <2>3. Busy => Produced \/ WaitsFor(Tail(InQ), Len(Tail(InQ)), x)
    <3>. DEFINE n == Len(InQ)
    <3>1. n \in 1..Len(InQ) /\ Len(Tail(InQ)) = n - 1
      BY <1>4, <1>5
    <3>2. Busy => Produced \/ WaitsFor(InQ, n, x)
      BY DEF InOps
    <3>. QED
      BY <3>1, <3>2, <1>14
  <2>4. x = 3 * call' - 2
    BY <1>6
  <2>. HIDE DEF x
  <2>5. /\ \A k \in 1..Len(InQ') :
            \/ InQ'[k].op = "wait" /\ InQ'[k].event.stream = "user"
            \/ /\ Busy'
               /\ \E s \in middle'..(tail' - 1) : InQ'[k] = CopyIn(call', s)
               /\ Produced' \/ WaitsFor(InQ', k - 1, x)
        /\ Busy' => Produced' \/ WaitsFor(InQ', Len(InQ'), x)
    BY <2>2, <2>3, <1>1, <1>6, <1>7
  <2>. QED
    BY <2>1, <2>4, <2>5 DEF InOps
<1>16. BufferEvents'
  <2>1. ASSUME Busy, NEW s \in middle..(tail - 1)
        PROVE  Covers(copy_event[s % QueueSize], Tail(InQ), InDone + 1, CopyIn(call, s))
    <3>1. Covers(copy_event[s % QueueSize], InQ, InDone, CopyIn(call, s))
      BY <2>1 DEF BufferEvents
    <3>. DEFINE a == copy_event[s % QueueSize].after
    <3>2. ASSUME NEW k \in 1..Len(Tail(InQ)), Tail(InQ)[k] = CopyIn(call, s) PROVE InDone + 1 + k <= a
      <4>1. k + 1 \in 1..Len(InQ) /\ Tail(InQ)[k] = InQ[k + 1] /\ k \in Nat
        BY <1>5
      <4>2. InDone + (k + 1) <= a
        BY <4>1, <3>1, <3>2 DEF Covers
      <4>3. InDone + (k + 1) = InDone + 1 + k
        BY <4>1, <1>4
      <4>. QED
        BY <4>2, <4>3
    <3>. QED
      BY <3>2 DEF Covers
  <2>2. copy_event' = copy_event /\ given' = given
    BY <1>1 DEF StreamOnly
  <2>. QED
    BY <2>1, <2>2, <1>1, <1>6 DEF BufferEvents
<1>17. CopiedSegments'
  <2>. SUFFICES ASSUME Busy, NEW s \in head..(tail - 1)
                PROVE  \/ Pending(Tail(InQ), CopyIn(call, s))
                       \/ s_mr'[s % QueueSize] = <<call, s>> /\ Produced
    BY <1>1, <1>6, <1>7 DEF CopiedSegments
  <2>a. s \in Nat
    BY <1>4
  <2>0. s \in Nat /\ s % QueueSize \in Slot
    BY <2>a, Buffers
  <2>1. CASE Pending(InQ, CopyIn(call, s))
    <3>1. PICK k \in 1..Len(InQ) : InQ[k] = CopyIn(call, s)
      BY <2>1 DEF Pending
    <3>2. CASE k = 1
      <4>1. InQ[1].op = "in"
        BY <3>1, <3>2 DEF CopyIn
      <4>2. PICK t \in middle..(tail - 1) : InQ[1] = CopyIn(call, t) /\ s_mr' = [s_mr EXCEPT ![t % QueueSize] = <<call, t>>]
        BY <4>1, <1>3
      <4>3. CopyIn(call, t).seg = t /\ CopyIn(call, s).seg = s
        BY DEF CopyIn
      <4>4. t = s
        BY <4>2, <4>3, <3>1, <3>2
      <4>5. s_mr \in [Slot -> Nat \X Nat]
        BY DEF Types
      <4>. QED
        BY <4>1, <4>2, <4>4, <4>5, <2>0, <1>3
    <3>3. CASE k # 1
      BY <3>1, <3>3, <1>5 DEF Pending
    <3>. QED
      BY <3>2, <3>3
  <2>2. CASE s_mr[s % QueueSize] = <<call, s>> /\ Produced
    <3>1. CASE s_mr' = s_mr
      BY <2>2, <3>1
    <3>2. CASE \E t \in middle..(tail - 1) : s_mr' = [s_mr EXCEPT ![t % QueueSize] = <<call, t>>]
      <4>1. PICK t \in middle..(tail - 1) : s_mr' = [s_mr EXCEPT ![t % QueueSize] = <<call, t>>]
        BY <3>2
      <4>a. t \in Nat
        BY <1>4
      <4>2. t \in Nat /\ t % QueueSize \in Slot /\ s_mr \in [Slot -> Nat \X Nat]
        BY <4>a, Buffers DEF Types
      <4>3. t = s \/ (s < t /\ t < s + QueueSize) \/ (t < s /\ s < t + QueueSize)
        BY <4>2, <2>0, <1>4, <1>8
      <4>4. t = s \/ t % QueueSize # s % QueueSize
        BY <4>2, <4>3, <2>0, Buffers
      <4>. QED
        BY <4>1, <4>2, <4>4, <2>0, <2>2
    <3>. QED
      BY <3>1, <3>2, <1>3
  <2>. QED
    BY <2>1, <2>2 DEF CopiedSegments
<1>. QED
  BY <1>9, <1>10, <1>11, <1>12, <1>15, <1>16, <1>17

\* The call whose results are being copied out.
LEMMA CopyingCall ==
    ASSUME Types, UserOps, UserDone = 3 * sendbuff - 2
    PROVE  sendbuff \in 1..Len(Calls) /\ sendbuff \in Nat /\ Segments(sendbuff) \in Nat
<1>1. sendbuff \in Nat /\ call \in Nat /\ call <= Len(Calls) /\ UserDone \in Nat /\ Len(Calls) \in Nat
  BY StateFacts, Sizes DEF UserOps
<1>2. sendbuff <= call
  BY AtCall
<1>3. sendbuff \in 1..Len(Calls)
  BY <1>1, <1>2
<1>. QED
  BY <1>1, <1>3, Sizes

\* A receive buffer with all the sums of a segment has nothing else to copy.
LEMMA PiecesHeld ==
    ASSUME NEW c \in 1..Len(Calls), NEW s \in 0..(Segments(c) - 1), Holds(r_mr, c, s)
    PROVE  Pieces(c, s) = {<<c, s>>}
<1>1. Size(c, s) \in Nat /\ 1 <= Size(c, s)
  BY Sizes
<1>2. Pieces(c, s) = {r_mr[s % QueueSize][m][q] : m \in 1..Size(c, s), q \in QP}
  BY DEF Pieces, Size
<1>. DEFINE p == <<c, s>>
            z == Size(c, s)
<1>3. \A m \in 1..z, q \in QP : r_mr[s % QueueSize][m][q] = p
  BY DEF Holds
<1>4. PICK q \in QP : TRUE
  BY PipelineAssumption
<1>5. 1 \in 1..z
  BY <1>1
<1>6. Pieces(c, s) = {r_mr[s % QueueSize][m][x] : m \in 1..z, x \in QP}
  BY <1>2
<1>. HIDE DEF p, z
<1>7. Pieces(c, s) \subseteq {p}
  BY <1>3, <1>6
<1>8. p \in Pieces(c, s)
  BY <1>3, <1>4, <1>5, <1>6
<1>. QED
  BY <1>7, <1>8 DEF p

\* What the stream of the copies from the receive buffers does.
LEMMA RunOut ==
    ASSUME PInv, Run("h2d")
    PROVE  /\ sendbuff' = sendbuff /\ s_mr' = s_mr /\ r_mr' = r_mr /\ sendbuff \in 1..Len(Calls)
           /\ \E s \in 0..(Segments(sendbuff) - 1) :
                OutQ[1] = CopyOut(sendbuff, s) /\ recvbuff' = [recvbuff EXCEPT ![s] = {<<sendbuff, s>>}]
<1>. USE DEF PInv
<1>. DEFINE o == Head(OutQ)
<1>1. OutQ \in Seq(Ops) /\ OutQ # << >> /\ o = OutQ[1] /\ 1 \in 1..Len(OutQ)
  <2>1. OutQ \in Seq(Ops) /\ OutQ # << >>
    BY StateFacts DEF Run, OutQ
  <2>. QED
    BY <2>1, TailAt
<1>2. Execute(o)
  BY DEF Run, OutQ
<1>. HIDE DEF o
<1>3. PICK s \in 0..(Segments(sendbuff) - 1) : o = CopyOut(sendbuff, s) /\ Holds(r_mr, sendbuff, s)
  BY <1>1 DEF OutOps
<1>4. o.op = "out" /\ o.call = sendbuff /\ o.seg = s
  BY <1>3 DEF CopyOut
<1>5. sendbuff \in 1..Len(Calls)
  BY <1>1, CopyingCall DEF OutOps
<1>6. Pieces(sendbuff, s) = {<<sendbuff, s>>}
  BY <1>3, <1>5, PiecesHeld
<1>7. recvbuff' = [recvbuff EXCEPT ![s] = Pieces(sendbuff, s)] /\ UNCHANGED <<sendbuff, s_mr, r_mr>>
  BY <1>2, <1>4 DEF Execute
<1>. QED
  BY <1>1, <1>3, <1>5, <1>6, <1>7

LEMMA OutStep ==
    ASSUME PInv, Run("h2d")
    PROVE  PInv'
<1>. USE DEF PInv
<1>0. "h2d" \in Stream
  BY DEF Stream
<1>1. /\ StreamOnly /\ OutQ # << >> /\ queue' \in [Stream -> Seq(Ops)]
      /\ UserDone' = UserDone /\ InDone' = InDone /\ OutDone' = OutDone + 1
      /\ UserQ' = UserQ /\ InQ' = InQ /\ OutQ' = Tail(OutQ)
  BY <1>0, RunQueue DEF OutQ
<1>2. sendbuff' = sendbuff /\ s_mr' = s_mr /\ r_mr' = r_mr /\ sendbuff \in 1..Len(Calls)
  BY RunOut
<1>3. PICK c : c = sendbuff
  OBVIOUS
<1>4. PICK s \in 0..(Segments(c) - 1) :
        OutQ[1] = CopyOut(c, s) /\ recvbuff' = [recvbuff EXCEPT ![s] = {<<c, s>>}]
  BY RunOut, <1>3
<1>5. /\ call \in Nat /\ head \in Nat /\ middle \in Nat /\ tail \in Nat /\ UserDone \in Int /\ OutDone \in Nat
      /\ OutQ \in Seq(Ops) /\ Len(OutQ) \in Nat
  BY StateFacts DEF OutOps
<1>6. /\ Len(Tail(OutQ)) = Len(OutQ) - 1 /\ 1 \in 1..Len(OutQ)
      /\ \A k \in 1..Len(Tail(OutQ)) : k \in Nat /\ k + 1 \in 1..Len(OutQ) /\ Tail(OutQ)[k] = OutQ[k + 1]
      /\ \A k \in 1..Len(OutQ) : k = 1 \/ (k - 1 \in 1..Len(Tail(OutQ)) /\ Tail(OutQ)[k - 1] = OutQ[k])
  BY <1>1, <1>5, MoveUp
<1>7. call' = call /\ head' = head /\ middle' = middle /\ tail' = tail /\ Busy' = Busy
  BY <1>1 DEF StreamOnly
<1>8. Produced' <=> Produced
  BY <1>1, <1>7 DEF Produced
<1>9. c \in Nat /\ Segments(c) \in Nat /\ s \in Nat /\ s \in 0..(MaxSegments - 1) /\ MaxSegments \in Nat
  BY <1>2, <1>3, Sizes
<1>10. recvbuff \in [0..(MaxSegments - 1) -> SUBSET (Nat \X Nat)]
  BY DEF Types
<1>11. Types'
  <2>1. {<<c, s>>} \in SUBSET (Nat \X Nat)
    BY <1>9
  <2>2. recvbuff' \in [0..(MaxSegments - 1) -> SUBSET (Nat \X Nat)]
    BY <2>1, <1>4, <1>10
  <2>. QED
    BY <2>2, <1>1, <1>2 DEF Types, StreamOnly
<1>12. Indices' /\ WireOrder' /\ SentMessages' /\ PolledMessages'
  BY <1>1 DEF StreamOnly, Indices, WireOrder, SentMessages, PolledMessages
<1>13. InOps' /\ NotProduced' /\ CopiedSegments'
  <2>1. InOps'
    BY <1>1, <1>7, <1>8 DEF InOps
  <2>2. NotProduced'
    BY <1>1, <1>7, <1>8 DEF NotProduced
  <2>3. CopiedSegments'
    BY <1>1, <1>2, <1>7, <1>8 DEF CopiedSegments
  <2>. QED
    BY <2>1, <2>2, <2>3
<1>14. ReceivedSums'
  BY <1>1, <1>2 DEF ReceivedSums, StreamOnly
<1>15. UserOps'
  <2>1. ASSUME NEW o, NEW n, NEW d, UserOp(o, n, d, OutQ, OutDone) PROVE UserOp(o, n, d, Tail(OutQ), OutDone + 1)
    <3>1. ASSUME \A j \in 1..Len(OutQ) : OutQ[j].call <= d => OutDone + j <= o.event.after,
                 NEW j \in 1..Len(Tail(OutQ)), Tail(OutQ)[j].call <= d
          PROVE  (OutDone + 1) + j <= o.event.after
      <4>1. j \in Nat /\ j + 1 \in 1..Len(OutQ) /\ Tail(OutQ)[j] = OutQ[j + 1]
        BY <1>6
      <4>2. OutDone + (j + 1) <= o.event.after
        BY <4>1, <3>1
      <4>3. OutDone + (j + 1) = (OutDone + 1) + j
        BY <4>1, <1>5
      <4>. QED
        BY <4>2, <4>3
    <3>. QED
      BY <2>1, <3>1 DEF UserOp
  <2>2. \A k \in 1..Len(UserQ) : \E d \in 1..call : UserOp(UserQ[k], UserDone + k, d, Tail(OutQ), OutDone + 1)
    BY <2>1 DEF UserOps
  <2>. QED
    BY <2>2, <1>1, <1>2, <1>7 DEF UserOps
<1>16. OutOps'
  <2>1. OutDone' \in Nat
    BY <1>1, <1>5
  <2>2. \A k \in 1..Len(Tail(OutQ)) :
          /\ UserDone = 3 * sendbuff - 2
          /\ \E t \in 0..(Segments(sendbuff) - 1) :
               /\ Tail(OutQ)[k] = CopyOut(sendbuff, t)
               /\ sendbuff = call => t < head
               /\ Busy /\ sendbuff = call => tail <= t + QueueSize
               /\ Holds(r_mr, sendbuff, t)
    BY <1>6 DEF OutOps
  <2>. QED
    BY <2>1, <2>2, <1>1, <1>2, <1>7 DEF OutOps
<1>17. BufferEvents'
  <2>1. ASSUME NEW e, NEW o, Covers(e, OutQ, OutDone, o) PROVE Covers(e, Tail(OutQ), OutDone + 1, o)
    <3>. DEFINE a == e.after
    <3>1. ASSUME NEW k \in 1..Len(Tail(OutQ)), Tail(OutQ)[k] = o PROVE OutDone + 1 + k <= a
      <4>1. k + 1 \in 1..Len(OutQ) /\ Tail(OutQ)[k] = OutQ[k + 1] /\ k \in Nat
        BY <1>6
      <4>2. OutDone + (k + 1) <= a
        BY <4>1, <2>1, <3>1 DEF Covers
      <4>3. OutDone + (k + 1) = OutDone + 1 + k
        BY <4>1, <1>5
      <4>. QED
        BY <4>2, <4>3
    <3>. QED
      BY <3>1 DEF Covers
  <2>2. copy_event' = copy_event /\ given' = given
    BY <1>1 DEF StreamOnly
  <2>. QED
    BY <2>1, <2>2, <1>1, <1>7 DEF BufferEvents
<1>18. CopiedResults'
  <2>. SUFFICES ASSUME UserDone \in {3 * c - 2, 3 * c - 1}, NEW t \in 0..(Segments(c) - 1)
                PROVE  \/ recvbuff'[t] = {<<c, t>>}
                       \/ Pending(Tail(OutQ), CopyOut(c, t))
                       \/ c = call /\ Busy /\ t >= head
    BY <1>1, <1>2, <1>3, <1>7 DEF CopiedResults
  <2>1. t \in 0..(MaxSegments - 1)
    BY <1>2, <1>3, <1>9, Sizes
  <2>2. t = s => recvbuff'[t] = {<<c, t>>}
    BY <2>1, <1>4, <1>10
  <2>3. t # s => recvbuff'[t] = recvbuff[t]
    BY <2>1, <1>4, <1>10
  <2>4. CASE Pending(OutQ, CopyOut(c, t))
    <3>1. PICK k \in 1..Len(OutQ) : OutQ[k] = CopyOut(c, t)
      BY <2>4 DEF Pending
    <3>2. CASE k = 1
      <4>1. CopyOut(c, t).seg = t /\ CopyOut(c, s).seg = s
        BY DEF CopyOut
      <4>2. t = s
        BY <4>1, <3>1, <3>2, <1>4
      <4>. QED
        BY <4>2, <2>2
    <3>3. CASE k # 1
      BY <3>1, <3>3, <1>6 DEF Pending
    <3>. QED
      BY <3>2, <3>3
  <2>. QED
    BY <2>2, <2>3, <2>4, <1>3 DEF CopiedResults
<1>. QED
  BY <1>11, <1>12, <1>13, <1>14, <1>15, <1>16, <1>17, <1>18

-----------------------------------------------------------------------------
(* The network. *)

\* Two segments between head and tail have different buffers.
LEMMA RingSlots ==
    ASSUME Types, Indices, NEW s \in head..(tail - 1), NEW t \in head..(tail - 1)
    PROVE  s \in Nat /\ t \in Nat /\ s % QueueSize \in Slot /\ (s = t \/ s % QueueSize # t % QueueSize)
<1>1. head \in Nat /\ tail \in Nat /\ QueueSize \in Nat /\ tail <= head + QueueSize
  BY StateFacts, Buffers DEF Indices
<1>2. s \in Nat /\ t \in Nat
  BY <1>1
<1>3. t = s \/ (s < t /\ t < s + QueueSize) \/ (t < s /\ s < t + QueueSize)
  BY <1>1, <1>2
<1>. QED
  BY <1>2, <1>3, Buffers

\* A segment that is being copied out and the segments behind it.
LEMMA OutSlots ==
    ASSUME Types, NEW s \in Nat, tail <= s + QueueSize, s < head, NEW t \in head..(tail - 1)
    PROVE  s % QueueSize # t % QueueSize
<1>1. head \in Nat /\ tail \in Nat /\ QueueSize \in Nat
  BY StateFacts, Buffers
<1>2. t \in Nat /\ s < t /\ t < s + QueueSize
  BY <1>1
<1>. QED
  BY <1>2, Buffers

LEMMA CompleteStep ==
    ASSUME PInv, NEW q \in QP, Complete(q)
    PROVE  PInv'
<1>. USE DEF PInv
<1>1. /\ pc' = pc /\ call' = call /\ head' = head /\ middle' = middle /\ tail' = tail
      /\ msg_sent' = msg_sent /\ complete_seg' = complete_seg /\ wire' = wire /\ polled' = polled
      /\ queue' = queue /\ given' = given /\ copy_event' = copy_event
      /\ sendbuff' = sendbuff /\ s_mr' = s_mr /\ recvbuff' = recvbuff
  BY DEF Complete, host, streams
<1>2. /\ Busy' = Busy /\ UserQ' = UserQ /\ InQ' = InQ /\ OutQ' = OutQ
      /\ UserDone' = UserDone /\ InDone' = InDone /\ OutDone' = OutDone
  BY <1>1 DEF Busy, UserQ, InQ, OutQ, UserDone, InDone, OutDone
<1>3. Produced' <=> Produced
  BY <1>1, <1>2 DEF Produced
<1>. DEFINE n == completed[q] + 1
<1>4. /\ completed \in [QP -> Nat] /\ completed[q] \in Nat /\ completed[q] < Len(wire) /\ Len(wire) \in Nat
      /\ polled[q] <= completed[q] /\ polled[q] \in Nat
      /\ completed' = [completed EXCEPT ![q] = completed[q] + 1]
  BY StateFacts DEF Complete, Types, PolledMessages
<1>5. n \in 1..Len(wire) /\ polled[q] < n /\ n \in Nat
  BY <1>4
<1>. DEFINE s == wire[n].seg
            m == wire[n].msg
<1>6. Busy /\ wire[n].call = call /\ head <= s /\ s < middle /\ s \in Nat
  <2>. HIDE DEF n
  <2>. QED
    BY <1>5, NotPolled, OfTheCalls
<1>7. head \in Nat /\ middle \in Nat /\ tail \in Nat /\ middle <= tail /\ call \in Nat /\ call \in 1..Len(Calls)
  BY <1>6, StateFacts DEF Indices, Types
<1>8. s \in head..(middle - 1) /\ s \in head..(tail - 1)
  BY <1>6, <1>7
<1>9. r_mr' = [r_mr EXCEPT ![s % QueueSize][m][q] = s_mr[s % QueueSize]]
  BY DEF Complete
<1>10. s_mr[s % QueueSize] = <<call, s>> /\ UserDone = 3 * call - 2 /\ sendbuff = call
  BY <1>6, <1>8, Released
<1>11. m \in 1..MaxMessages
  <2>. HIDE DEF n
  <2>1. /\ m \in Nat /\ 1 <= m /\ m <= Size(call, s) /\ s < Segments(call)
    BY <1>5, <1>6, OfTheCalls
  <2>2. Segments(call) \in Nat /\ Size(call, s) \in Nat /\ Size(call, s) <= MaxMessages /\ MaxMessages \in Nat
    BY <2>1, <1>6, <1>7, Sizes
  <2>. QED
    BY <2>1, <2>2
<1>12. s % QueueSize \in Slot
  BY <1>6, Buffers
<1>13. r_mr \in [Slot -> [1..MaxMessages -> [QP -> Nat \X Nat]]]
  BY DEF Types
<1>. DEFINE i == s % QueueSize
            v == <<call, s>>
<1>14. i \in Slot /\ v \in Nat \X Nat /\ r_mr' = [r_mr EXCEPT ![i][m][q] = v]
  BY <1>6, <1>7, <1>9, <1>10, <1>12
<1>. HIDE DEF n, s, m, i, v
<1>15. r_mr' \in [Slot -> [1..MaxMessages -> [QP -> Nat \X Nat]]]
  BY <1>11, <1>13, <1>14
<1>16. r_mr'[i][m][q] = v
  <2>1. PICK g : g = [r_mr[i] EXCEPT ![m][q] = v]
    OBVIOUS
  <2>2. r_mr'[i] = g
    BY <2>1, <1>13, <1>14
  <2>3. r_mr[i] \in [1..MaxMessages -> [QP -> Nat \X Nat]] /\ r_mr[i][m] \in [QP -> Nat \X Nat]
    BY <1>11, <1>13, <1>14
  <2>4. g[m] = [r_mr[i][m] EXCEPT ![q] = v]
    BY <2>1, <2>3, <1>11
  <2>5. g[m][q] = v
    BY <2>3, <2>4
  <2>. QED
    BY <2>2, <2>5
<1>17. \A j \in Slot, x \in 1..MaxMessages, p \in QP :
         j # i \/ x # m \/ p # q => r_mr'[j][x][p] = r_mr[j][x][p]
  <2>1. \A j \in Slot : j # i => r_mr'[j] = r_mr[j]
    BY <1>13, <1>14
  <2>2. \A x \in 1..MaxMessages : x # m => r_mr'[i][x] = r_mr[i][x]
    BY <1>13, <1>14
  <2>3. \A p \in QP : p # q => r_mr'[i][m][p] = r_mr[i][m][p]
    BY <1>11, <1>13, <1>14
  <2>. QED
    BY <2>1, <2>2, <2>3
<1>18. \A p \in QP : p # q => completed'[p] = completed[p]
  BY <1>4
<1>19. completed'[q] = n
  BY <1>4 DEF n
<1>20. Types'
  <2>1. completed' \in [QP -> Nat]
    BY <1>4
  <2>. QED
    BY <2>1, <1>1, <1>2, <1>15 DEF Types
<1>21. Indices' /\ UserOps' /\ InOps' /\ BufferEvents' /\ NotProduced' /\ CopiedSegments'
  <2>1. Indices' /\ UserOps' /\ NotProduced'
    BY <1>1, <1>2, <1>3 DEF Indices, UserOps, NotProduced
  <2>2. InOps'
    BY <1>1, <1>2, <1>3 DEF InOps
  <2>3. BufferEvents'
    BY <1>1, <1>2 DEF BufferEvents
  <2>4. CopiedSegments'
    BY <1>1, <1>2, <1>3 DEF CopiedSegments
  <2>. QED
    BY <2>1, <2>2, <2>3, <2>4
<1>22. WireOrder' /\ SentMessages'
  <2>1. WireOrder'
    BY <1>1, <1>2 DEF WireOrder
  <2>2. SentMessages'
    BY <1>1, <1>2 DEF SentMessages
  <2>. QED
    BY <2>1, <2>2
<1>23. CopiedResults'
  BY <1>1, <1>2 DEF CopiedResults
<1>24. PolledMessages'
  <2>1. ASSUME NEW p \in QP PROVE polled[p] <= completed'[p] /\ completed'[p] <= Len(wire)
    <3>1. CASE p = q
      BY <3>1, <1>4, <1>19 DEF n
    <3>2. CASE p # q
      BY <3>2, <1>18 DEF PolledMessages
    <3>. QED
      BY <3>1, <3>2
  <2>. QED
    BY <2>1, <1>1, <1>2 DEF PolledMessages
<1>25. ReceivedSums'
  <2>. SUFFICES ASSUME NEW p \in QP, NEW k \in 1..completed'[p], wire[k].call = call, wire[k].seg >= head
                PROVE  r_mr'[wire[k].seg % QueueSize][wire[k].msg][p] = <<call, wire[k].seg>>
    BY <1>1, <1>2 DEF ReceivedSums
  <2>1. completed[p] \in Nat /\ completed'[p] \in Nat /\ completed'[p] <= Len(wire)
    <3>1. completed[p] \in Nat /\ completed[p] <= Len(wire)
      BY <1>4 DEF PolledMessages
    <3>. QED
      BY <3>1, <1>4, <1>5, <1>18, <1>19
  <2>2. k \in 1..Len(wire)
    BY <2>1, <1>4
  <2>. DEFINE t == wire[k].seg
              x == wire[k].msg
              j == t % QueueSize
  <2>3. t \in Nat /\ x \in Nat /\ 1 <= x /\ x <= Size(call, t) /\ t < Segments(call)
    BY <2>2, OfTheCalls
  <2>4. t < middle
    BY <2>2, <1>6 DEF WireOrder
  <2>5. t \in head..(tail - 1)
    BY <2>3, <2>4, <1>7
  <2>6. x \in 1..MaxMessages
    <3>1. Segments(call) \in Nat /\ Size(call, t) \in Nat /\ Size(call, t) <= MaxMessages /\ MaxMessages \in Nat
      BY <2>3, <1>7, Sizes
    <3>. QED
      BY <3>1, <2>3
  <2>7. j \in Slot /\ (t = s \/ j # i)
    BY <2>5, <1>8, RingSlots DEF i
  <2>. HIDE DEF t, x, j
  <2>8. CASE j = i /\ x = m /\ p = q
    BY <2>7, <2>8, <1>16 DEF v, t, x, j
  <2>9. CASE j # i \/ x # m \/ p # q
    <3>1. r_mr'[j][x][p] = r_mr[j][x][p]
      BY <2>6, <2>7, <2>9, <1>17
    <3>2. k \in 1..completed[p]
      <4>1. CASE p # q
        BY <4>1, <1>18
      <4>2. CASE p = q
        <5>1. k # n
          BY <4>2, <2>9 DEF i, s, m, t, x, j
        <5>. QED
          BY <5>1, <4>2, <1>4, <1>19 DEF n
      <4>. QED
        BY <4>1, <4>2
    <3>3. r_mr[j][x][p] = <<call, t>>
      BY <3>2, <1>6 DEF ReceivedSums, t, x, j
    <3>. QED
      BY <3>1, <3>3 DEF t, x, j
  <2>. QED
    BY <2>8, <2>9
<1>26. OutOps'
  <2>1. ASSUME NEW t \in 0..(Segments(call) - 1), t < head, tail <= t + QueueSize, Holds(r_mr, call, t)
        PROVE  Holds(r_mr', call, t)
    <3>1. t \in Nat /\ t % QueueSize \in Slot
      <4>1. t \in Nat
        BY <1>7, Sizes
      <4>. QED
        BY <4>1, Buffers
    <3>2. t % QueueSize # i
      BY <2>1, <3>1, <1>8, OutSlots DEF i
    <3>3. Size(call, t) \in Nat /\ Size(call, t) <= MaxMessages /\ MaxMessages \in Nat
      BY <1>7, Sizes
    <3>4. \A x \in 1..Size(call, t) : x \in 1..MaxMessages
      BY <3>3
    <3>. DEFINE j == t % QueueSize
    <3>5. \A x \in 1..Size(call, t), p \in QP : r_mr[j][x][p] = <<call, t>>
      BY <2>1 DEF Holds
    <3>. HIDE DEF j
    <3>6. j \in Slot /\ j # i
      BY <3>1, <3>2 DEF j
    <3>7. \A x \in 1..Size(call, t), p \in QP : r_mr'[j][x][p] = <<call, t>>
      BY <3>4, <3>5, <3>6, <1>17
    <3>. QED
      BY <3>7 DEF Holds, j
  <2>2. \A k \in 1..Len(OutQ) : \E t \in 0..(Segments(call) - 1) :
          /\ OutQ[k] = CopyOut(call, t) /\ t < head /\ tail <= t + QueueSize /\ Holds(r_mr', call, t)
    BY <2>1, <1>6, <1>10 DEF OutOps
  <2>3. PICK c : c = call
    OBVIOUS
  <2>4. sendbuff' = c /\ call' = c /\ UserDone' = 3 * c - 2
    BY <2>3, <1>1, <1>2, <1>10
  <2>5. \A k \in 1..Len(OutQ) : \E t \in 0..(Segments(c) - 1) :
          /\ OutQ[k] = CopyOut(c, t) /\ t < head /\ tail <= t + QueueSize /\ Holds(r_mr', c, t)
    BY <2>2, <2>3
  <2>6. OutDone \in Nat
    BY DEF OutOps
  <2>. QED
    BY <2>4, <2>5, <2>6, <1>1, <1>2 DEF OutOps
<1>. QED
  BY <1>20, <1>21, <1>22, <1>23, <1>24, <1>25, <1>26

-----------------------------------------------------------------------------
(* The host. *)

\* Only the step of the loop changes.
Idle ==
    /\ Busy' = Busy /\ pc' \in {"app", "tail", "middle", "head", "post"}
    /\ call' = call /\ head' = head /\ middle' = middle /\ tail' = tail
    /\ msg_sent' = msg_sent /\ complete_seg' = complete_seg
    /\ wire' = wire /\ completed' = completed /\ polled' = polled
    /\ queue' = queue /\ given' = given /\ copy_event' = copy_event
    /\ sendbuff' = sendbuff /\ s_mr' = s_mr /\ r_mr' = r_mr /\ recvbuff' = recvbuff

LEMMA IdleStep ==
    ASSUME PInv, Idle
    PROVE  PInv'
<1>. USE DEF PInv, Idle
<1>1. /\ UserQ' = UserQ /\ InQ' = InQ /\ OutQ' = OutQ
      /\ UserDone' = UserDone /\ InDone' = InDone /\ OutDone' = OutDone
  BY DEF UserQ, InQ, OutQ, UserDone, InDone, OutDone
<1>2. Produced' <=> Produced
  BY <1>1 DEF Produced
<1>3. Types'
  BY DEF Types
<1>4. Indices'
  BY DEF Indices
<1>5. UserOps'
  BY <1>1 DEF UserOps
<1>6. InOps'
  BY <1>1, <1>2 DEF InOps
<1>7. OutOps'
  BY <1>1 DEF OutOps
<1>8. BufferEvents'
  BY <1>1 DEF BufferEvents
<1>9. NotProduced'
  BY <1>1, <1>2 DEF NotProduced
<1>10. CopiedSegments'
  BY <1>1, <1>2 DEF CopiedSegments
<1>11. WireOrder'
  BY DEF WireOrder
<1>12. SentMessages'
  BY DEF SentMessages
<1>13. PolledMessages'
  BY DEF PolledMessages
<1>14. ReceivedSums'
  BY DEF ReceivedSums
<1>15. CopiedResults'
  BY <1>1 DEF CopiedResults
<1>. QED
  BY <1>3, <1>4, <1>5, <1>6, <1>7, <1>8, <1>9, <1>10, <1>11, <1>12, <1>13, <1>14, <1>15

\* A stream is given one more operation.
LEMMA Longer ==
    ASSUME NEW ops \in Seq(Ops), NEW o \in Ops
    PROVE  /\ Append(ops, o) \in Seq(Ops) /\ Len(ops) \in Nat /\ Len(Append(ops, o)) = Len(ops) + 1
           /\ Append(ops, o)[Len(ops) + 1] = o /\ Len(ops) + 1 \in 1..Len(Append(ops, o))
           /\ \A k \in 1..Len(ops) : k \in 1..Len(Append(ops, o)) /\ k \in Nat /\ Append(ops, o)[k] = ops[k]
           /\ \A k \in 1..Len(Append(ops, o)) : k \in 1..Len(ops) \/ k = Len(ops) + 1
<1>1. /\ Append(ops, o) \in Seq(Ops) /\ Len(ops) \in Nat /\ Len(Append(ops, o)) = Len(ops) + 1
      /\ Append(ops, o)[Len(ops) + 1] = o
      /\ \A k \in 1..Len(ops) : Append(ops, o)[k] = ops[k]
      /\ \A k \in 1..Len(Append(ops, o)) : k \in 1..Len(ops) \/ k = Len(ops) + 1
  BY AppendAt
<1>. DEFINE a == Append(ops, o)
<1>. HIDE DEF a
<1>2. Len(ops) + 1 \in 1..Len(a) /\ \A k \in 1..Len(ops) : k \in 1..Len(a) /\ k \in Nat
  BY <1>1 DEF a
<1>. QED
  BY <1>1, <1>2 DEF a

\* A wait stays in a longer queue.
LEMMA WaitStays ==
    ASSUME NEW ops, NEW more, NEW n \in Nat, NEW m \in Nat, n <= m, NEW x,
           \A k \in 1..n : more[k] = ops[k], WaitsFor(ops, n, x)
    PROVE  WaitsFor(more, m, x)
<1>1. PICK j \in 1..n : ops[j].op = "wait" /\ ops[j].event.after >= x
  BY DEF WaitsFor
<1>2. j \in 1..m /\ more[j] = ops[j]
  OBVIOUS
<1>. QED
  BY <1>1, <1>2 DEF WaitsFor

\* A copy to a send buffer is started.
TailMoves ==
    /\ pc = "tail" /\ tail < Segments(call) /\ HasRoom /\ Reusable
    /\ queue' = [queue EXCEPT !["d2h"] = Append(queue["d2h"], CopyIn(call, tail))]
    /\ given' = [given EXCEPT !["d2h"] = given["d2h"] + 1]
    /\ copy_event' = [copy_event EXCEPT ![tail % QueueSize] = Recorded("d2h", given'["d2h"])]
    /\ tail' = tail + 1
    /\ pc' = "middle"
    /\ UNCHANGED <<call, head, middle, msg_sent, complete_seg, nic, memory>>

LEMMA TailMovesStep ==
    ASSUME PInv, TailMoves
    PROVE  PInv'
<1>. USE DEF PInv
<1>1. /\ call' = call /\ head' = head /\ middle' = middle
      /\ msg_sent' = msg_sent /\ complete_seg' = complete_seg
      /\ wire' = wire /\ completed' = completed /\ polled' = polled
      /\ sendbuff' = sendbuff /\ s_mr' = s_mr /\ r_mr' = r_mr /\ recvbuff' = recvbuff
      /\ tail' = tail + 1 /\ pc' = "middle" /\ Busy /\ Busy'
  BY DEF TailMoves, nic, memory, Busy
<1>2. /\ call \in Nat /\ head \in Nat /\ middle \in Nat /\ tail \in Nat /\ InQ \in Seq(Ops) /\ Len(InQ) \in Nat
      /\ InDone \in Nat /\ UserDone \in Int /\ OutDone \in Nat /\ Len(OutQ) \in Nat /\ OutQ \in Seq(Ops)
  BY StateFacts DEF InOps, OutOps
<1>3. call \in 1..Len(Calls) /\ Segments(call) \in Nat
  <2>1. call \in 1..Len(Calls)
    BY <1>1, <1>2, Sizes DEF Types
  <2>. QED
    BY <2>1, Sizes
<1>. DEFINE o == CopyIn(call, tail)
<1>4. o \in Ops
  BY <1>2, OpTypes
<1>5. o.op = "in" /\ o.seg = tail /\ \A s : o = CopyIn(call, s) => s = tail
  BY DEF CopyIn
<1>. HIDE DEF o
<1>6. /\ queue' = [queue EXCEPT !["d2h"] = Append(InQ, o)] /\ given' = [given EXCEPT !["d2h"] = given["d2h"] + 1]
  BY DEF TailMoves, InQ, o
<1>7. /\ Append(InQ, o) \in Seq(Ops) /\ Len(Append(InQ, o)) = Len(InQ) + 1
      /\ Append(InQ, o)[Len(InQ) + 1] = o /\ Len(InQ) + 1 \in 1..Len(Append(InQ, o))
      /\ \A k \in 1..Len(InQ) : k \in 1..Len(Append(InQ, o)) /\ k \in Nat /\ Append(InQ, o)[k] = InQ[k]
      /\ \A k \in 1..Len(Append(InQ, o)) : k \in 1..Len(InQ) \/ k = Len(InQ) + 1
  BY <1>2, <1>4, Longer
<1>8. queue \in [Stream -> Seq(Ops)] /\ given \in [Stream -> Nat] /\ "user" \in Stream /\ "d2h" \in Stream /\ "h2d" \in Stream
  BY DEF Types, Stream
<1>9. queue' \in [Stream -> Seq(Ops)] /\ UserQ' = UserQ /\ InQ' = Append(InQ, o) /\ OutQ' = OutQ
  BY <1>6, <1>7, <1>8 DEF UserQ, InQ, OutQ
<1>10. /\ given' \in [Stream -> Nat] /\ given'["user"] = given["user"]
       /\ given'["d2h"] = given["d2h"] + 1 /\ given'["h2d"] = given["h2d"] /\ given["d2h"] \in Nat
  BY <1>6, <1>8
<1>11. UserDone' = UserDone /\ OutDone' = OutDone
  BY <1>9, <1>10 DEF UserDone, OutDone
<1>12. InDone' = InDone
  <2>1. InDone' = (given["d2h"] + 1) - (Len(InQ) + 1)
    BY <1>7, <1>9, <1>10 DEF InDone
  <2>. QED
    BY <2>1, <1>2, <1>10 DEF InDone
<1>13. Produced' <=> Produced
  BY <1>1, <1>11 DEF Produced
<1>14. /\ head <= middle /\ middle <= tail /\ QueueSize \in Nat \ {0}
       /\ tail < Segments(call) /\ tail < head + QueueSize
  BY <1>2, Buffers DEF TailMoves, HasRoom, Indices
<1>15. tail % QueueSize \in Slot
  BY <1>2, Buffers
<1>. DEFINE i == tail % QueueSize
            e == Recorded("d2h", given["d2h"] + 1)
<1>16. copy_event' = [copy_event EXCEPT ![i] = e] /\ i \in Slot
  BY <1>10, <1>15 DEF TailMoves
<1>17. e \in Events /\ e.stream = "d2h" /\ e.after = given["d2h"] + 1
  <2>1. given["d2h"] + 1 \in Nat
    BY <1>10
  <2>. QED
    BY <2>1, <1>8, OpTypes DEF Recorded
<1>. HIDE DEF i, e
<1>18. copy_event' \in [Slot -> Events] /\ copy_event'[i] = e /\ \A j \in Slot : j # i => copy_event'[j] = copy_event[j]
  BY <1>16, <1>17 DEF Types
<1>19. Types'
  <2>1. tail' \in Nat /\ call > 0
    BY <1>1, <1>2, <1>3
  <2>2. given' \in [Stream -> Nat] /\ copy_event' \in [Slot -> Events] /\ queue' \in [Stream -> Seq(Ops)]
    BY <1>9, <1>10, <1>18
  <2>. QED
    BY <2>1, <2>2, <1>1 DEF Types
<1>20. Indices'
  BY <1>1, <1>2, <1>3, <1>14 DEF Indices
<1>21. UserOps' /\ NotProduced'
  BY <1>1, <1>9, <1>11, <1>13 DEF UserOps, NotProduced
<1>22. WireOrder' /\ SentMessages' /\ PolledMessages' /\ ReceivedSums'
  <2>1. WireOrder' /\ SentMessages'
    BY <1>1 DEF WireOrder, SentMessages
  <2>2. PolledMessages' /\ ReceivedSums'
    BY <1>1 DEF PolledMessages, ReceivedSums
  <2>. QED
    BY <2>1, <2>2
<1>23. CopiedResults'
  BY <1>1, <1>9, <1>11 DEF CopiedResults
<1>. DEFINE x == 3 * call - 2
<1>24. ASSUME NEW n \in Nat, NEW m \in Nat, n <= m, n <= Len(InQ), WaitsFor(InQ, n, x) PROVE WaitsFor(Append(InQ, o), m, x)
  <2>1. \A k \in 1..n : Append(InQ, o)[k] = InQ[k]
    BY <1>2, <1>7, <1>24
  <2>. HIDE DEF x
  <2>. QED
    BY <2>1, <1>24, WaitStays
<1>25. InOps'
  <2>1. ASSUME NEW k \in 1..Len(Append(InQ, o))
        PROVE  \/ Append(InQ, o)[k].op = "wait" /\ Append(InQ, o)[k].event.stream = "user"
               \/ /\ \E s \in middle..tail : Append(InQ, o)[k] = CopyIn(call, s)
                  /\ Produced \/ WaitsFor(Append(InQ, o), k - 1, x)
    <3>1. CASE k \in 1..Len(InQ)
      <4>1. Append(InQ, o)[k] = InQ[k] /\ k \in Nat /\ k - 1 \in Nat /\ k - 1 <= Len(InQ)
        BY <3>1, <1>2, <1>7
      <4>2. CASE InQ[k].op = "wait" /\ InQ[k].event.stream = "user"
        BY <4>1, <4>2
      <4>3. CASE (\E s \in middle..(tail - 1) : InQ[k] = CopyIn(call, s)) /\ (Produced \/ WaitsFor(InQ, k - 1, x))
        <5>1. PICK s \in middle..(tail - 1) : InQ[k] = CopyIn(call, s)
          BY <4>3
        <5>2. s \in middle..tail
          BY <1>2
        <5>3. WaitsFor(InQ, k - 1, x) => WaitsFor(Append(InQ, o), k - 1, x)
          BY <4>1, <1>24
        <5>. QED
          BY <5>1, <5>2, <5>3, <4>1, <4>3
      <4>. QED
        BY <4>2, <4>3, <3>1, <1>1 DEF InOps
    <3>2. CASE k = Len(InQ) + 1
      <4>1. Append(InQ, o)[k] = CopyIn(call, tail) /\ tail \in middle..tail
        BY <3>2, <1>2, <1>7, <1>14 DEF o
      <4>2. k - 1 = Len(InQ) /\ Len(InQ) \in Nat
        BY <3>2, <1>2
      <4>3. Produced \/ WaitsFor(InQ, Len(InQ), x)
        BY <1>1 DEF InOps
      <4>4. WaitsFor(InQ, Len(InQ), x) => WaitsFor(Append(InQ, o), k - 1, x)
        BY <4>2, <1>24
      <4>. QED
        BY <4>1, <4>3, <4>4
    <3>. QED
      BY <3>1, <3>2, <1>7
  <2>2. Produced \/ WaitsFor(Append(InQ, o), Len(Append(InQ, o)), x)
    <3>1. Produced \/ WaitsFor(InQ, Len(InQ), x)
      BY <1>1 DEF InOps
    <3>. DEFINE m == Len(Append(InQ, o))
    <3>2. m \in Nat /\ Len(InQ) <= m
      BY <1>2, <1>7
    <3>3. WaitsFor(InQ, Len(InQ), x) => WaitsFor(Append(InQ, o), m, x)
      BY <3>2, <1>2, <1>24
    <3>. QED
      BY <3>1, <3>3
  <2>3. x = 3 * call' - 2 /\ tail = tail' - 1
    BY <1>1, <1>2
  <2>. HIDE DEF x
  <2>4. /\ \A k \in 1..Len(InQ') :
            \/ InQ'[k].op = "wait" /\ InQ'[k].event.stream = "user"
            \/ /\ Busy'
               /\ \E s \in middle'..(tail' - 1) : InQ'[k] = CopyIn(call', s)
               /\ Produced' \/ WaitsFor(InQ', k - 1, x)
        /\ Busy' => Produced' \/ WaitsFor(InQ', Len(InQ'), x)
    BY <2>1, <2>2, <2>3, <1>1, <1>9, <1>13
  <2>. QED
    BY <2>3, <2>4, <1>2, <1>12 DEF InOps
<1>26. CopiedSegments'
  <2>. SUFFICES ASSUME NEW s \in head..tail
                PROVE  \/ Pending(Append(InQ, o), CopyIn(call, s))
                       \/ s_mr[s % QueueSize] = <<call, s>> /\ Produced
    <3>1. tail' - 1 = tail
      BY <1>1, <1>2
    <3>. QED
      BY <3>1, <1>1, <1>9, <1>13 DEF CopiedSegments
  <2>1. CASE s = tail
    BY <2>1, <1>7 DEF Pending, o
  <2>2. CASE s # tail
    <3>1. s \in head..(tail - 1)
      BY <2>2, <1>2
    <3>2. Pending(InQ, CopyIn(call, s)) => Pending(Append(InQ, o), CopyIn(call, s))
      BY <1>7 DEF Pending
    <3>. QED
      BY <3>1, <3>2, <1>1 DEF CopiedSegments
  <2>. QED
    BY <2>1, <2>2
<1>27. BufferEvents'
  <2>1. ASSUME NEW j \in Slot PROVE copy_event'[j].after <= given'[copy_event'[j].stream]
    <3>1. CASE j = i
      BY <3>1, <1>10, <1>17, <1>18
    <3>2. CASE j # i
      <4>1. copy_event[j].after <= given[copy_event[j].stream] /\ copy_event[j].stream \in Stream /\ copy_event[j].after \in Nat
        BY ElementFacts DEF BufferEvents
      <4>. DEFINE st == copy_event[j].stream
                  a == copy_event[j].after
      <4>2. copy_event'[j].after = a /\ copy_event'[j].stream = st
        BY <3>2, <1>18
      <4>. HIDE DEF st, a
      <4>3. a <= given[st] /\ st \in Stream /\ a \in Nat
        BY <4>1 DEF st, a
      <4>4. given[st] \in Nat /\ given'[st] \in Nat /\ given[st] <= given'[st]
        BY <4>3, <1>6, <1>8
      <4>5. a <= given'[st]
        BY <4>3, <4>4
      <4>. QED
        BY <4>2, <4>5
    <3>. QED
      BY <3>1, <3>2
  <2>2. ASSUME NEW s \in middle..tail
        PROVE  copy_event'[s % QueueSize].stream = "d2h" /\ Covers(copy_event'[s % QueueSize], Append(InQ, o), InDone, CopyIn(call, s))
    <3>1. CASE s = tail
      <4>1. copy_event'[s % QueueSize] = e
        BY <3>1, <1>18 DEF i
      <4>2. ASSUME NEW k \in 1..Len(Append(InQ, o)) PROVE InDone + k <= e.after
        <5>1. k \in Nat /\ k <= Len(InQ) + 1 /\ InDone = given["d2h"] - Len(InQ)
          BY <1>2, <1>7 DEF InDone
        <5>. QED
          BY <5>1, <1>2, <1>10, <1>17, SMTT(30)
      <4>. QED
        BY <4>1, <4>2, <1>17 DEF Covers
    <3>2. CASE s # tail
      <4>1. s \in middle..(tail - 1) /\ s \in Nat /\ s < tail /\ tail < s + QueueSize
        BY <3>2, <1>2, <1>14
      <4>2. s % QueueSize # i /\ s % QueueSize \in Slot
        BY <4>1, <1>2, Buffers DEF i
      <4>3. copy_event'[s % QueueSize] = copy_event[s % QueueSize]
        BY <4>2, <1>18
      <4>4. copy_event[s % QueueSize].stream = "d2h" /\ Covers(copy_event[s % QueueSize], InQ, InDone, CopyIn(call, s))
        BY <4>1, <1>1 DEF BufferEvents
      <4>5. o # CopyIn(call, s)
        BY <3>2, <1>5
      <4>6. Covers(copy_event[s % QueueSize], Append(InQ, o), InDone, CopyIn(call, s))
        <5>. DEFINE z == CopyIn(call, s)
                    ev == copy_event[s % QueueSize]
        <5>. HIDE DEF z, ev
        <5>1. o # z /\ Covers(ev, InQ, InDone, z)
          BY <4>4, <4>5 DEF z, ev
        <5>2. Covers(ev, Append(InQ, o), InDone, z)
          BY <5>1, <1>7 DEF Covers
        <5>. QED
          BY <5>2 DEF z, ev
      <4>. QED
        BY <4>3, <4>4, <4>6
    <3>. QED
      BY <3>1, <3>2
  <2>3. ASSUME NEW s \in 0..(head - 1), tail + 1 <= s + QueueSize
        PROVE  copy_event'[s % QueueSize].stream = "h2d" /\ Covers(copy_event'[s % QueueSize], OutQ, OutDone, CopyOut(call, s))
    <3>1. s \in Nat /\ s < tail /\ tail < s + QueueSize /\ tail <= s + QueueSize
      BY <2>3, <1>2, <1>14
    <3>2. s % QueueSize # i /\ s % QueueSize \in Slot
      BY <3>1, <1>2, Buffers DEF i
    <3>3. copy_event'[s % QueueSize] = copy_event[s % QueueSize]
      BY <3>2, <1>18
    <3>4. copy_event[s % QueueSize].stream = "h2d" /\ Covers(copy_event[s % QueueSize], OutQ, OutDone, CopyOut(call, s))
      BY <3>1, <1>1 DEF BufferEvents
    <3>. QED
      BY <3>3, <3>4
  <2>4. tail' - 1 = tail /\ tail' = tail + 1
    BY <1>1, <1>2
  <2>. QED
    BY <2>1, <2>2, <2>3, <2>4, <1>1, <1>9, <1>11, <1>12 DEF BufferEvents
<1>28. OutOps'
  <2>1. ASSUME NEW k \in 1..Len(OutQ), NEW s \in 0..(Segments(call) - 1), OutQ[k] = CopyOut(call, s),
               s < head, tail <= s + QueueSize
        PROVE  tail + 1 <= s + QueueSize
    <3>. SUFFICES ASSUME tail = s + QueueSize PROVE FALSE
      BY <1>2, <1>3, <1>14, <2>1
    <3>1. s \in Nat /\ s \in 0..(head - 1) /\ ~(tail < QueueSize)
      BY <2>1, <1>2, <1>3, <1>14
    <3>2. tail % QueueSize = s % QueueSize
      <4>. DEFINE one == 1
      <4>1. tail = s + QueueSize * one /\ one \in Int /\ s \in Int
        BY <3>1, <1>14
      <4>. HIDE DEF one
      <4>. QED
        BY <4>1, <1>14, ModAddMultiple
    <3>3. Occurred(copy_event[s % QueueSize])
      BY <3>1, <3>2 DEF TailMoves, Reusable
    <3>4. copy_event[s % QueueSize].stream = "h2d" /\ Covers(copy_event[s % QueueSize], OutQ, OutDone, CopyOut(call, s))
      BY <2>1, <3>1, <1>1 DEF BufferEvents
    <3>5. OutDone + k <= copy_event[s % QueueSize].after
      BY <2>1, <3>4 DEF Covers
    <3>6. OutDone >= copy_event[s % QueueSize].after
      BY <3>3, <3>4, OccurredDone
    <3>7. copy_event[s % QueueSize].after \in Nat
      BY <3>1, Buffers, ElementFacts
    <3>. DEFINE a == copy_event[s % QueueSize].after
    <3>. HIDE DEF a
    <3>8. OutDone + k <= a /\ OutDone >= a /\ a \in Nat /\ k \in Nat /\ k > 0
      BY <3>5, <3>6, <3>7, <1>2 DEF a
    <3>. QED
      BY <3>8, <1>2
  <2>2. ASSUME NEW k \in 1..Len(OutQ)
        PROVE  /\ UserDone = 3 * sendbuff - 2
               /\ \E s \in 0..(Segments(sendbuff) - 1) :
                    /\ OutQ[k] = CopyOut(sendbuff, s)
                    /\ sendbuff = call => s < head
                    /\ sendbuff = call => tail + 1 <= s + QueueSize
                    /\ Holds(r_mr, sendbuff, s)
    <3>1. PICK s \in 0..(Segments(sendbuff) - 1) :
             /\ OutQ[k] = CopyOut(sendbuff, s)
             /\ sendbuff = call => s < head
             /\ sendbuff = call => tail <= s + QueueSize
             /\ Holds(r_mr, sendbuff, s)
      BY <1>1 DEF OutOps
    <3>2. sendbuff = call => tail + 1 <= s + QueueSize
      BY <2>1, <3>1
    <3>. QED
      BY <3>1, <3>2 DEF OutOps
  <2>. QED
    BY <2>2, <1>1, <1>2, <1>9, <1>11 DEF OutOps
<1>. QED
  BY <1>19, <1>20, <1>21, <1>22, <1>23, <1>25, <1>26, <1>27, <1>28

\* A segment is released for sending.
MiddleMoves ==
    /\ pc = "middle" /\ CopiedIn
    /\ msg_sent' = ResetSent(middle % QueueSize)
    /\ middle' = middle + 1
    /\ pc' = "head"
    /\ UNCHANGED <<call, head, tail, complete_seg, nic, streams, memory>>

LEMMA MiddleMovesStep ==
    ASSUME PInv, MiddleMoves
    PROVE  PInv'
<1>. USE DEF PInv
<1>1. /\ call' = call /\ head' = head /\ tail' = tail /\ complete_seg' = complete_seg
      /\ wire' = wire /\ completed' = completed /\ polled' = polled
      /\ queue' = queue /\ given' = given /\ copy_event' = copy_event
      /\ sendbuff' = sendbuff /\ s_mr' = s_mr /\ r_mr' = r_mr /\ recvbuff' = recvbuff
      /\ middle' = middle + 1 /\ pc' = "head" /\ Busy /\ Busy'
  BY DEF MiddleMoves, nic, streams, memory, Busy
<1>2. /\ UserQ' = UserQ /\ InQ' = InQ /\ OutQ' = OutQ
      /\ UserDone' = UserDone /\ InDone' = InDone /\ OutDone' = OutDone
  BY <1>1 DEF UserQ, InQ, OutQ, UserDone, InDone, OutDone
<1>3. Produced' <=> Produced
  BY <1>1, <1>2 DEF Produced
<1>4. /\ call \in Nat /\ head \in Nat /\ middle \in Nat /\ tail \in Nat /\ Len(InQ) \in Nat /\ InDone \in Nat
      /\ call \in 1..Len(Calls)
  BY <1>1, StateFacts DEF InOps, Types
<1>5. /\ head <= middle /\ middle < tail /\ tail <= head + QueueSize /\ tail <= Segments(call) /\ Segments(call) \in Nat
      /\ QueueSize \in Nat
  BY <1>1, <1>4, Buffers, Sizes DEF MiddleMoves, CopiedIn, Indices
<1>6. middle \in middle..(tail - 1) /\ middle \in head..(tail - 1)
  BY <1>4, <1>5
\* The copy of the segment has been executed.
<1>7. ASSUME NEW k \in 1..Len(InQ), InQ[k] = CopyIn(call, middle) PROVE FALSE
  <2>. DEFINE ev == copy_event[middle % QueueSize]
              a == ev.after
  <2>1. ev.stream = "d2h" /\ Covers(ev, InQ, InDone, CopyIn(call, middle))
    BY <1>1, <1>6 DEF BufferEvents
  <2>2. InDone + k <= a
    BY <2>1, <1>7 DEF Covers
  <2>3. Occurred(ev)
    BY DEF MiddleMoves, CopiedIn
  <2>4. InDone >= a
    BY <2>1, <2>3, OccurredDone
  <2>5. a \in Nat
    BY <1>4, Buffers, ElementFacts
  <2>. HIDE DEF a
  <2>. QED
    BY <2>2, <2>4, <2>5, <1>4
<1>8. Produced
  <2>1. ~Pending(InQ, CopyIn(call, middle))
    BY <1>7 DEF Pending
  <2>. QED
    BY <2>1, <1>1, <1>6 DEF CopiedSegments
<1>. DEFINE i == middle % QueueSize
<1>9. i \in Slot
  BY <1>4, Buffers
<1>10. msg_sent' = [msg_sent EXCEPT ![i] = 0]
  BY DEF MiddleMoves, ResetSent
<1>. HIDE DEF i
<1>11. /\ msg_sent' \in [Slot -> 0..MaxMessages] /\ msg_sent'[i] = 0
       /\ \A j \in Slot : j # i => msg_sent'[j] = msg_sent[j]
  BY <1>9, <1>10, Sizes DEF Types
<1>12. \A s \in head..(middle - 1) : s \in Nat /\ msg_sent'[s % QueueSize] = msg_sent[s % QueueSize]
  <2>. SUFFICES ASSUME NEW s \in head..(middle - 1)
                PROVE  s \in Nat /\ msg_sent'[s % QueueSize] = msg_sent[s % QueueSize]
    OBVIOUS
  <2>1. s \in Nat /\ s \in head..(tail - 1) /\ s # middle
    BY <1>4, <1>5
  <2>2. s % QueueSize \in Slot /\ s % QueueSize # i
    BY <2>1, <1>6, RingSlots DEF i
  <2>. QED
    BY <2>1, <2>2, <1>11
<1>13. Types'
  <2>1. middle' \in Nat
    BY <1>1, <1>4
  <2>. QED
    BY <2>1, <1>1, <1>11 DEF Types
<1>14. Indices'
  <2>1. \A q \in QP : head + complete_seg[q] <= middle + 1
    <3>1. \A q \in QP : head + complete_seg[q] <= middle /\ complete_seg[q] \in Nat
      BY ElementFacts DEF Indices
    <3>. QED
      BY <3>1, <1>4
  <2>2. head <= middle + 1 /\ middle + 1 <= tail
    BY <1>4, <1>5
  <2>. QED
    BY <2>1, <2>2, <1>1, <1>5 DEF Indices
<1>15. UserOps' /\ OutOps'
  <2>1. UserOps'
    BY <1>1, <1>2 DEF UserOps
  <2>2. OutOps'
    BY <1>1, <1>2 DEF OutOps
  <2>. QED
    BY <2>1, <2>2
<1>16. InOps'
  <2>1. ASSUME NEW k \in 1..Len(InQ), NEW s \in middle..(tail - 1), InQ[k] = CopyIn(call, s) PROVE s \in (middle + 1)..(tail - 1)
    <3>1. s # middle
      BY <2>1, <1>7
    <3>. QED
      BY <3>1, <1>4
  <2>2. \A k \in 1..Len(InQ) :
         \/ InQ[k].op = "wait" /\ InQ[k].event.stream = "user"
         \/ /\ \E s \in (middle + 1)..(tail - 1) : InQ[k] = CopyIn(call, s)
            /\ Produced
    BY <2>1, <1>8 DEF InOps
  <2>. QED
    BY <2>2, <1>1, <1>2, <1>3, <1>8 DEF InOps
<1>17. BufferEvents'
  <2>1. \A s \in (middle + 1)..(tail - 1) : s \in middle..(tail - 1)
    BY <1>4
  <2>. QED
    BY <2>1, <1>1, <1>2 DEF BufferEvents
<1>18. NotProduced' /\ CopiedSegments'
  <2>1. NotProduced'
    BY <1>1, <1>2, <1>3, <1>8 DEF NotProduced
  <2>2. CopiedSegments'
    BY <1>1, <1>2, <1>3 DEF CopiedSegments
  <2>. QED
    BY <2>1, <2>2
<1>19. WireOrder'
  <2>1. ASSUME NEW n \in 1..Len(wire), wire[n].call = call
        PROVE  /\ wire[n].seg < middle + 1
               /\ wire[n].seg >= head => wire[n].msg <= msg_sent'[wire[n].seg % QueueSize]
    <3>1. /\ wire[n].seg < middle /\ wire[n].seg \in Nat
          /\ wire[n].seg >= head => wire[n].msg <= msg_sent[wire[n].seg % QueueSize]
      BY <2>1, <1>1, ElementFacts DEF WireOrder
    <3>2. wire[n].seg >= head => wire[n].seg \in head..(middle - 1)
      BY <3>1, <1>4
    <3>. QED
      BY <3>1, <3>2, <1>4, <1>12
  <2>. QED
    BY <2>1, <1>1 DEF WireOrder
<1>20. SentMessages'
  <2>1. ASSUME NEW s \in head..middle
        PROVE  /\ msg_sent'[s % QueueSize] <= Size(call, s)
               /\ \A m \in 1..msg_sent'[s % QueueSize] : OnWire(wire, call, s, m)
               /\ \A t \in (s + 1)..middle :
                    msg_sent'[t % QueueSize] > 0 => msg_sent'[s % QueueSize] = Size(call, s)
    <3>1. CASE s = middle
      <4>1. msg_sent'[s % QueueSize] = 0
        BY <3>1, <1>11 DEF i
      <4>2. Size(call, s) \in Nat
        BY <3>1, <1>4, <1>5, Sizes
      <4>3. \A t \in (s + 1)..middle : FALSE
        BY <3>1, <1>4
      <4>. QED
        BY <4>1, <4>2, <4>3
    <3>2. CASE s # middle
      <4>1. s \in head..(middle - 1) /\ s \in Nat
        BY <3>2, <1>4
      <4>2. msg_sent'[s % QueueSize] = msg_sent[s % QueueSize]
        BY <4>1, <1>12
      <4>3. /\ msg_sent[s % QueueSize] <= Size(call, s)
            /\ \A m \in 1..msg_sent[s % QueueSize] : OnWire(wire, call, s, m)
            /\ \A t \in (s + 1)..(middle - 1) :
                    msg_sent[t % QueueSize] > 0 => msg_sent[s % QueueSize] = Size(call, s)
        BY <4>1, <1>1 DEF SentMessages
      <4>4. ASSUME NEW t \in (s + 1)..middle, msg_sent'[t % QueueSize] > 0 PROVE msg_sent[s % QueueSize] = Size(call, s)
        <5>1. t # middle
          BY <4>4, <1>11 DEF i
        <5>2. t \in head..(middle - 1) /\ t \in (s + 1)..(middle - 1)
          BY <5>1, <4>1, <1>4
        <5>3. msg_sent'[t % QueueSize] = msg_sent[t % QueueSize]
          BY <5>2, <1>12
        <5>. QED
          BY <5>2, <5>3, <4>3, <4>4
      <4>. QED
        BY <4>2, <4>3, <4>4
    <3>. QED
      BY <3>1, <3>2
  <2>2. middle' - 1 = middle
    BY <1>1, <1>4
  <2>. QED
    BY <2>1, <2>2, <1>1 DEF SentMessages
<1>21. PolledMessages' /\ ReceivedSums'
  BY <1>1 DEF PolledMessages, ReceivedSums
<1>22. CopiedResults'
  BY <1>1, <1>2 DEF CopiedResults
<1>. QED
  BY <1>13, <1>14, <1>15, <1>16, <1>17, <1>18, <1>19, <1>20, <1>21, <1>22

\* When the last message of the first segment has been polled on all queue
\* pairs, all its messages have been sent and its receive buffer holds its sums.
LEMMA HeadSegment ==
    ASSUME PInv, Busy, middle > head, SegmentDone
    PROVE  /\ head \in 0..(Segments(call) - 1) /\ UserDone = 3 * call - 2 /\ sendbuff = call
           /\ \A m \in 1..Size(call, head) : OnWire(wire, call, head, m)
           /\ Holds(r_mr, call, head)
<1>. USE DEF PInv
<1>1. head \in Nat /\ middle \in Nat /\ call \in Nat /\ Len(wire) \in Nat /\ call \in 1..Len(Calls)
  BY StateFacts DEF Types
<1>2. head \in head..(middle - 1)
  BY <1>1
<1>3. UserDone = 3 * call - 2 /\ sendbuff = call /\ head \in 0..(Segments(call) - 1)
  BY <1>2, Released
<1>. DEFINE z == Size(call, head)
            h == head % QueueSize
<1>4. z \in Nat /\ h \in Slot /\ msg_sent[h] \in Nat
  BY <1>1, <1>3, Sizes, Buffers, ElementFacts
\* The last message.
<1>5. ASSUME NEW q \in QP
      PROVE  \E n \in 1..Len(wire) : /\ wire[n].call = call /\ wire[n].seg = head /\ wire[n].msg = z
                                     /\ n <= polled[q]
  <2>1. complete_seg[q] \in Nat /\ complete_seg[q] > 0
    BY ElementFacts DEF SegmentDone
  <2>2. head \in 0..(head + complete_seg[q] - 1) /\ head < head + complete_seg[q]
    BY <2>1, <1>1
  <2>3. SentUpTo(wire, call, head + complete_seg[q])
    BY DEF PolledMessages
  <2>4. PICK n \in 1..Len(wire) : wire[n].call = call /\ wire[n].seg = head /\ wire[n].last
    BY <1>1, <2>1, <2>2, <2>3 DEF SentUpTo
  <2>5. wire[n].msg = z
    BY <2>4, OfTheCalls
  <2>6. n <= polled[q]
    BY <2>2, <2>4 DEF PolledMessages, PolledUpTo
  <2>. QED
    BY <2>4, <2>5, <2>6
<1>6. z <= msg_sent[h]
  <2>1. PICK q \in QP : TRUE
    BY PipelineAssumption
  <2>2. PICK n \in 1..Len(wire) : wire[n].call = call /\ wire[n].seg = head /\ wire[n].msg = z
    BY <1>5, <2>1
  <2>. QED
    BY <2>2, <1>1 DEF WireOrder
<1>7. ASSUME NEW m \in 1..z PROVE OnWire(wire, call, head, m)
  <2>1. m \in 1..msg_sent[h]
    BY <1>4, <1>6
  <2>. QED
    BY <2>1, <1>2 DEF SentMessages
<1>8. ASSUME NEW m \in 1..z, NEW q \in QP PROVE r_mr[h][m][q] = <<call, head>>
  <2>1. PICK k \in 1..Len(wire) : wire[k].call = call /\ wire[k].seg = head /\ wire[k].msg = m
    BY <1>7 DEF OnWire
  <2>2. PICK n \in 1..Len(wire) : wire[n].call = call /\ wire[n].seg = head /\ wire[n].msg = z /\ n <= polled[q]
    BY <1>5
  <2>3. m \in Nat /\ m <= z /\ n \in Nat /\ k \in Nat
    BY <1>1, <1>4
  <2>4. k <= n
    <3>1. CASE m = z
      <4>1. k = n
        BY <3>1, <2>1, <2>2, Places
      <4>. QED
        BY <4>1, <2>3
    <3>2. CASE m < z
      <4>1. Before(wire[k], wire[n])
        BY <3>2, <2>1, <2>2 DEF Before
      <4>2. k < n
        BY <4>1, Places
      <4>. QED
        BY <4>2, <2>3
    <3>. QED
      BY <3>1, <3>2, <2>3, <1>4
  <2>5. polled[q] \in Nat /\ completed[q] \in Nat /\ polled[q] <= completed[q]
    BY ElementFacts DEF PolledMessages
  <2>6. k \in 1..completed[q]
    BY <2>2, <2>3, <2>4, <2>5
  <2>7. wire[k].call = call /\ wire[k].seg >= head
    BY <2>1, <1>1
  <2>8. r_mr[wire[k].seg % QueueSize][wire[k].msg][q] = <<call, wire[k].seg>>
    BY <2>6, <2>7 DEF ReceivedSums
  <2>. QED
    BY <2>1, <2>8
<1>. QED
  BY <1>3, <1>7, <1>8 DEF Holds

\* The copy of a result is started.
HeadMoves ==
    /\ pc = "head" /\ middle > head /\ SegmentDone
    /\ complete_seg' = [q \in QP |-> IF complete_seg[q] > 0 THEN complete_seg[q] - 1 ELSE 0]
    /\ queue' = [queue EXCEPT !["h2d"] = Append(queue["h2d"], CopyOut(call, head))]
    /\ given' = [given EXCEPT !["h2d"] = given["h2d"] + 1]
    /\ copy_event' = [copy_event EXCEPT ![head % QueueSize] = Recorded("h2d", given'["h2d"])]
    /\ head' = head + 1
    /\ pc' = "post"
    /\ UNCHANGED <<call, middle, tail, msg_sent, nic, memory>>

LEMMA HeadMovesStep ==
    ASSUME PInv, HeadMoves
    PROVE  PInv'
<1>. USE DEF PInv
<1>1. /\ call' = call /\ middle' = middle /\ tail' = tail /\ msg_sent' = msg_sent
      /\ wire' = wire /\ completed' = completed /\ polled' = polled
      /\ sendbuff' = sendbuff /\ s_mr' = s_mr /\ r_mr' = r_mr /\ recvbuff' = recvbuff
      /\ head' = head + 1 /\ pc' = "post" /\ Busy /\ Busy'
  BY DEF HeadMoves, nic, memory, Busy
<1>2. /\ call \in Nat /\ head \in Nat /\ middle \in Nat /\ tail \in Nat /\ OutQ \in Seq(Ops) /\ Len(OutQ) \in Nat
      /\ OutDone \in Nat /\ UserDone \in Nat /\ Len(UserQ) \in Nat /\ call \in 1..Len(Calls) /\ Len(wire) \in Nat
  BY <1>1, StateFacts DEF OutOps, UserOps, Types
<1>3. /\ head \in 0..(Segments(call) - 1) /\ UserDone = 3 * call - 2 /\ sendbuff = call
      /\ \A m \in 1..Size(call, head) : OnWire(wire, call, head, m)
      /\ Holds(r_mr, call, head)
  BY <1>1, HeadSegment DEF HeadMoves
<1>4. /\ head < middle /\ middle <= tail /\ tail <= head + QueueSize /\ tail <= Segments(call) /\ Segments(call) \in Nat
      /\ QueueSize \in Nat
  BY <1>1, <1>2, Buffers, Sizes DEF HeadMoves, Indices
<1>5. /\ complete_seg' \in [QP -> Nat]
      /\ \A q \in QP : complete_seg[q] \in Nat /\ complete_seg'[q] \in Nat /\ (head + 1) + complete_seg'[q] = head + complete_seg[q]
  <2>1. \A q \in QP : complete_seg[q] \in Nat /\ complete_seg[q] > 0 /\ complete_seg'[q] = complete_seg[q] - 1
    BY ElementFacts DEF HeadMoves, SegmentDone
  <2>2. \A q \in QP : complete_seg'[q] \in Nat /\ (head + 1) + complete_seg'[q] = head + complete_seg[q]
    BY <2>1, <1>2
  <2>3. complete_seg' = [q \in QP |-> complete_seg'[q]]
    BY DEF HeadMoves
  <2>4. complete_seg' \in [QP -> Nat]
    BY <2>2, <2>3
  <2>. QED
    BY <2>1, <2>2, <2>4
<1>. DEFINE o == CopyOut(call, head)
<1>6. o \in Ops
  BY <1>2, OpTypes
<1>7. o.op = "out" /\ o.seg = head /\ o.call = call /\ \A c, s : o = CopyOut(c, s) => s = head /\ c = call
  BY DEF CopyOut
<1>. HIDE DEF o
<1>8. /\ queue' = [queue EXCEPT !["h2d"] = Append(OutQ, o)] /\ given' = [given EXCEPT !["h2d"] = given["h2d"] + 1]
  BY DEF HeadMoves, OutQ, o
<1>9. /\ Append(OutQ, o) \in Seq(Ops) /\ Len(Append(OutQ, o)) = Len(OutQ) + 1
      /\ Append(OutQ, o)[Len(OutQ) + 1] = o /\ Len(OutQ) + 1 \in 1..Len(Append(OutQ, o))
      /\ \A k \in 1..Len(OutQ) : k \in 1..Len(Append(OutQ, o)) /\ k \in Nat /\ Append(OutQ, o)[k] = OutQ[k]
      /\ \A k \in 1..Len(Append(OutQ, o)) : k \in 1..Len(OutQ) \/ k = Len(OutQ) + 1
  BY <1>2, <1>6, Longer
<1>10. queue \in [Stream -> Seq(Ops)] /\ given \in [Stream -> Nat] /\ "user" \in Stream /\ "d2h" \in Stream /\ "h2d" \in Stream
  BY DEF Types, Stream
<1>11. queue' \in [Stream -> Seq(Ops)] /\ UserQ' = UserQ /\ InQ' = InQ /\ OutQ' = Append(OutQ, o)
  BY <1>8, <1>9, <1>10 DEF UserQ, InQ, OutQ
<1>12. /\ given' \in [Stream -> Nat] /\ given'["user"] = given["user"]
       /\ given'["d2h"] = given["d2h"] /\ given'["h2d"] = given["h2d"] + 1 /\ given["h2d"] \in Nat
  BY <1>8, <1>10
<1>13. UserDone' = UserDone /\ InDone' = InDone
  BY <1>11, <1>12 DEF UserDone, InDone
<1>14. OutDone' = OutDone
  <2>1. OutDone' = (given["h2d"] + 1) - (Len(OutQ) + 1)
    BY <1>9, <1>11, <1>12 DEF OutDone
  <2>. QED
    BY <2>1, <1>2, <1>12, SMTT(30) DEF OutDone
<1>15. Produced' <=> Produced
  BY <1>1, <1>13 DEF Produced
<1>. DEFINE i == head % QueueSize
            e == Recorded("h2d", given["h2d"] + 1)
<1>16. i \in Slot
  BY <1>2, Buffers
<1>17. copy_event' = [copy_event EXCEPT ![i] = e]
  BY <1>12 DEF HeadMoves
<1>18. e \in Events /\ e.stream = "h2d" /\ e.after = given["h2d"] + 1
  <2>1. given["h2d"] + 1 \in Nat
    BY <1>12
  <2>. QED
    BY <2>1, <1>10, OpTypes DEF Recorded
<1>. HIDE DEF i, e
<1>19. copy_event' \in [Slot -> Events] /\ copy_event'[i] = e /\ \A j \in Slot : j # i => copy_event'[j] = copy_event[j]
  BY <1>16, <1>17, <1>18 DEF Types
<1>20. Types'
  <2>1. head' \in Nat /\ call > 0
    BY <1>1, <1>2
  <2>2. given' \in [Stream -> Nat] /\ copy_event' \in [Slot -> Events] /\ queue' \in [Stream -> Seq(Ops)]
    BY <1>11, <1>12, <1>19
  <2>. QED
    BY <2>1, <2>2, <1>1, <1>5 DEF Types
<1>21. Indices'
  <2>1. \A q \in QP : head' + complete_seg'[q] <= middle'
    BY <1>1, <1>5 DEF Indices
  <2>2. head' <= middle' /\ middle' <= tail' /\ tail' <= head' + QueueSize /\ tail' <= Segments(call')
    BY <1>1, <1>2, <1>4
  <2>. QED
    BY <2>1, <2>2, <1>1 DEF Indices
<1>22. UserOps'
  <2>1. ASSUME NEW k \in 1..Len(UserQ)
        PROVE  \E d \in 1..call : UserOp(UserQ[k], UserDone + k, d, Append(OutQ, o), OutDone)
    <3>1. PICK d \in 1..call : UserOp(UserQ[k], UserDone + k, d, OutQ, OutDone)
      BY DEF UserOps
    <3>2. UserDone + Len(UserQ) = 3 * call - 2
      BY <1>1 DEF UserOps
    <3>3. UserDone + k = 3 * d - 1 => d < call
      BY <3>2, <1>2
    <3>. DEFINE u == UserQ[k]
                n == UserDone + k
    <3>4. n = 3 * d - 1 => ~(o.call <= d)
      BY <3>3, <1>2, <1>7
    <3>5. UserOp(u, n, d, OutQ, OutDone)
      BY <3>1
    <3>. HIDE DEF u, n
    <3>6. ASSUME n = 3 * d - 1, \A j \in 1..Len(OutQ) : OutQ[j].call <= d => OutDone + j <= u.event.after
          PROVE  \A j \in 1..Len(Append(OutQ, o)) : Append(OutQ, o)[j].call <= d => OutDone + j <= u.event.after
      BY <3>4, <3>6, <1>9
    <3>7. UserOp(u, n, d, Append(OutQ, o), OutDone)
      BY <3>5, <3>6 DEF UserOp
    <3>. QED
      BY <3>7 DEF u, n
  <2>. QED
    BY <2>1, <1>1, <1>11, <1>13, <1>14 DEF UserOps
<1>23. InOps' /\ NotProduced'
  <2>1. InOps'
    BY <1>1, <1>11, <1>13, <1>15 DEF InOps
  <2>2. NotProduced'
    BY <1>1, <1>13, <1>15 DEF NotProduced
  <2>. QED
    BY <2>1, <2>2
<1>24. CopiedSegments'
  <2>1. \A s \in (head + 1)..(tail - 1) : s \in head..(tail - 1)
    BY <1>2
  <2>. QED
    BY <2>1, <1>1, <1>11, <1>15 DEF CopiedSegments
<1>25. WireOrder'
  <2>1. ASSUME NEW n \in 1..Len(wire), wire[n].seg >= head + 1 PROVE wire[n].seg >= head
    <3>1. wire[n].seg \in Nat
      BY ElementFacts
    <3>. QED
      BY <3>1, <2>1, <1>2
  <2>. QED
    BY <2>1, <1>1 DEF WireOrder
<1>26. SentMessages'
  <2>1. ASSUME NEW s \in 0..head PROVE \A m \in 1..Size(call, s) : OnWire(wire, call, s, m)
    <3>1. CASE s = head
      BY <3>1, <1>3
    <3>2. CASE s # head
      <4>1. s \in 0..(head - 1)
        BY <3>2, <1>2
      <4>. QED
        BY <4>1, <1>1 DEF SentMessages
    <3>. QED
      BY <3>1, <3>2
  <2>2. \A s \in (head + 1)..(middle - 1) : s \in head..(middle - 1)
    BY <1>2
  <2>3. head' - 1 = head
    BY <1>1, <1>2
  <2>. QED
    BY <2>1, <2>2, <2>3, <1>1 DEF SentMessages
<1>27. PolledMessages'
  <2>1. ASSUME NEW q \in QP
        PROVE  /\ polled[q] <= completed[q] /\ completed[q] <= Len(wire)
               /\ \A n \in 1..Len(wire) : wire[n].call < call => n <= polled[q]
               /\ PolledUpTo(wire, call, polled[q], head' + complete_seg'[q])
               /\ SentUpTo(wire, call, head' + complete_seg'[q])
    <3>. DEFINE x == head + complete_seg[q]
    <3>1. head' + complete_seg'[q] = x
      BY <1>1, <1>5
    <3>2. /\ polled[q] <= completed[q] /\ completed[q] <= Len(wire)
          /\ \A n \in 1..Len(wire) : wire[n].call < call => n <= polled[q]
      BY <1>1 DEF PolledMessages
    <3>3. PolledUpTo(wire, call, polled[q], x)
      BY <1>1 DEF PolledMessages
    <3>4. SentUpTo(wire, call, x)
      BY <1>1 DEF PolledMessages
    <3>. HIDE DEF x
    <3>5. PolledUpTo(wire, call, polled[q], head' + complete_seg'[q])
      BY <3>1, <3>3, Zenon
    <3>6. SentUpTo(wire, call, head' + complete_seg'[q])
      BY <3>1, <3>4, Zenon
    <3>. QED
      BY <3>2, <3>5, <3>6
  <2>. QED
    BY <2>1, <1>1 DEF PolledMessages
<1>28. ReceivedSums'
  <2>. SUFFICES ASSUME NEW q \in QP, NEW n \in 1..completed[q], wire[n].call = call, wire[n].seg >= head + 1
                PROVE  r_mr[wire[n].seg % QueueSize][wire[n].msg][q] = <<call, wire[n].seg>>
    BY <1>1 DEF ReceivedSums
  <2>1. completed[q] \in Nat /\ completed[q] <= Len(wire)
    BY ElementFacts DEF PolledMessages
  <2>2. n \in 1..Len(wire)
    BY <2>1, <1>2
  <2>3. wire[n].seg \in Nat
    BY <2>2, ElementFacts
  <2>4. wire[n].seg >= head
    BY <2>3, <1>2
  <2>. QED
    BY <2>4, <1>1 DEF ReceivedSums
<1>29. CopiedResults'
  <2>. SUFFICES ASSUME UserDone \in {3 * sendbuff - 2, 3 * sendbuff - 1}, NEW s \in 0..(Segments(sendbuff) - 1)
                PROVE  \/ recvbuff[s] = {<<sendbuff, s>>}
                       \/ Pending(Append(OutQ, o), CopyOut(sendbuff, s))
                       \/ sendbuff = call /\ s >= head + 1
    BY <1>1, <1>11, <1>13 DEF CopiedResults
  <2>1. Pending(OutQ, CopyOut(sendbuff, s)) => Pending(Append(OutQ, o), CopyOut(sendbuff, s))
    BY <1>9 DEF Pending
  <2>2. s = head => Pending(Append(OutQ, o), CopyOut(sendbuff, s))
    BY <1>3, <1>9 DEF Pending, o
  <2>3. s >= head => s = head \/ s >= head + 1
    BY <1>2, <1>3, <1>4
  <2>. QED
    BY <2>1, <2>2, <2>3 DEF CopiedResults
<1>30. OutOps'
  <2>1. ASSUME NEW k \in 1..Len(Append(OutQ, o))
        PROVE  \E s \in 0..(Segments(call) - 1) :
                    /\ Append(OutQ, o)[k] = CopyOut(call, s)
                    /\ s < head + 1 /\ tail <= s + QueueSize
                    /\ Holds(r_mr, call, s)
    <3>1. CASE k \in 1..Len(OutQ)
      <4>1. PICK s \in 0..(Segments(call) - 1) :
                    OutQ[k] = CopyOut(call, s) /\ s < head /\ tail <= s + QueueSize /\ Holds(r_mr, call, s)
        BY <3>1, <1>1, <1>3 DEF OutOps
      <4>2. s < head + 1
        BY <4>1, <1>2, <1>4
      <4>. QED
        BY <4>1, <4>2, <3>1, <1>9
    <3>2. CASE k = Len(OutQ) + 1
      <4>1. Append(OutQ, o)[k] = CopyOut(call, head) /\ head < head + 1
        BY <3>2, <1>2, <1>9 DEF o
      <4>. QED
        BY <4>1, <1>3, <1>4
    <3>. QED
      BY <3>1, <3>2, <1>9
  <2>2. PICK c : c = call
    OBVIOUS
  <2>3. sendbuff' = c /\ call' = c /\ UserDone' = 3 * c - 2
    BY <2>2, <1>1, <1>3, <1>13
  <2>4. \A k \in 1..Len(OutQ') : \E s \in 0..(Segments(c) - 1) :
          OutQ'[k] = CopyOut(c, s) /\ s < head' /\ tail' <= s + QueueSize /\ Holds(r_mr', c, s)
    BY <2>1, <2>2, <1>1, <1>11
  <2>5. OutDone' \in Nat
    BY <1>2, <1>14
  <2>. QED
    BY <2>3, <2>4, <2>5 DEF OutOps
<1>31. BufferEvents'
  <2>1. ASSUME NEW j \in Slot PROVE copy_event'[j].after <= given'[copy_event'[j].stream]
    <3>1. CASE j = i
      BY <3>1, <1>12, <1>18, <1>19
    <3>2. CASE j # i
      <4>1. copy_event[j].after <= given[copy_event[j].stream] /\ copy_event[j].stream \in Stream /\ copy_event[j].after \in Nat
        BY ElementFacts DEF BufferEvents
      <4>. DEFINE st == copy_event[j].stream
                  a == copy_event[j].after
      <4>2. copy_event'[j].after = a /\ copy_event'[j].stream = st
        BY <3>2, <1>19
      <4>. HIDE DEF st, a
      <4>3. a <= given[st] /\ st \in Stream /\ a \in Nat
        BY <4>1 DEF st, a
      <4>4. given[st] \in Nat /\ given'[st] \in Nat /\ given[st] <= given'[st]
        BY <4>3, <1>8, <1>10
      <4>5. a <= given'[st]
        BY <4>3, <4>4
      <4>. QED
        BY <4>2, <4>5
    <3>. QED
      BY <3>1, <3>2
  <2>2. ASSUME NEW s \in middle..(tail - 1)
        PROVE  copy_event'[s % QueueSize].stream = "d2h" /\ Covers(copy_event'[s % QueueSize], InQ, InDone, CopyIn(call, s))
    <3>1. s \in Nat /\ s \in head..(tail - 1) /\ head \in head..(tail - 1) /\ s # head
      BY <1>2, <1>4
    <3>2. s % QueueSize # i /\ s % QueueSize \in Slot
      BY <3>1, RingSlots DEF i
    <3>3. copy_event'[s % QueueSize] = copy_event[s % QueueSize]
      BY <3>2, <1>19
    <3>4. copy_event[s % QueueSize].stream = "d2h" /\ Covers(copy_event[s % QueueSize], InQ, InDone, CopyIn(call, s))
      BY <1>1 DEF BufferEvents
    <3>. QED
      BY <3>3, <3>4
  <2>3. ASSUME NEW s \in 0..head, tail <= s + QueueSize
        PROVE  copy_event'[s % QueueSize].stream = "h2d" /\ Covers(copy_event'[s % QueueSize], Append(OutQ, o), OutDone, CopyOut(call, s))
    <3>1. CASE s = head
      <4>1. copy_event'[s % QueueSize] = e
        BY <3>1, <1>19 DEF i
      <4>2. ASSUME NEW k \in 1..Len(Append(OutQ, o)) PROVE OutDone + k <= e.after
        <5>1. k \in Nat /\ k <= Len(OutQ) + 1 /\ OutDone = given["h2d"] - Len(OutQ)
          BY <1>2, <1>9 DEF OutDone
        <5>. QED
          BY <5>1, <1>2, <1>12, <1>18, SMTT(30)
      <4>. QED
        BY <4>1, <4>2, <1>18 DEF Covers
    <3>2. CASE s # head
      <4>1. s \in 0..(head - 1) /\ s \in Nat /\ s < head /\ head \in head..(tail - 1)
        BY <3>2, <1>2, <1>4
      <4>2. s % QueueSize # i
        BY <4>1, <2>3, OutSlots DEF i
      <4>3. s % QueueSize \in Slot
        BY <4>1, Buffers
      <4>4. copy_event'[s % QueueSize] = copy_event[s % QueueSize]
        BY <4>2, <4>3, <1>19
      <4>5. copy_event[s % QueueSize].stream = "h2d" /\ Covers(copy_event[s % QueueSize], OutQ, OutDone, CopyOut(call, s))
        BY <4>1, <2>3, <1>1 DEF BufferEvents
      <4>6. o # CopyOut(call, s)
        BY <3>2, <1>7
      <4>7. Covers(copy_event[s % QueueSize], Append(OutQ, o), OutDone, CopyOut(call, s))
        <5>. DEFINE z == CopyOut(call, s)
                    ev == copy_event[s % QueueSize]
        <5>. HIDE DEF z, ev
        <5>1. o # z /\ Covers(ev, OutQ, OutDone, z)
          BY <4>5, <4>6 DEF z, ev
        <5>2. Covers(ev, Append(OutQ, o), OutDone, z)
          BY <5>1, <1>9 DEF Covers
        <5>. QED
          BY <5>2 DEF z, ev
      <4>. QED
        BY <4>4, <4>5, <4>7
    <3>. QED
      BY <3>1, <3>2
  <2>4. head' - 1 = head
    BY <1>1, <1>2
  <2>. QED
    BY <2>1, <2>2, <2>3, <2>4, <1>1, <1>11, <1>13, <1>14 DEF BufferEvents
<1>. QED
  BY <1>20, <1>21, <1>22, <1>23, <1>24, <1>25, <1>26, <1>27, <1>28, <1>29, <1>30, <1>31

-----------------------------------------------------------------------------
(* Polling and posting. *)

\* Sets whose elements correspond have the same size.
LEMMA SameSize ==
    ASSUME NEW S, NEW T, IsFiniteSet(S), NEW f \in [S -> T],
           \A a, b \in S : f[a] = f[b] => a = b,
           \A t \in T : \E a \in S : f[a] = t
    PROVE  IsFiniteSet(T) /\ Cardinality(T) = Cardinality(S) /\ Cardinality(S) \in Nat
<1>1. f \in Surjection(S, T)
  BY DEF Surjection
<1>2. f \in Injection(S, T)
  BY DEF Injection, IsInjective
<1>. QED
  BY <1>1, <1>2, FS_Surjection, FS_CardinalityType

\* Numbers from e on without a gap.
LEMMA CountUp ==
    ASSUME NEW e \in Nat, NEW I, I \subseteq Nat, NEW b \in Nat, \A x \in I : e <= x /\ x <= b,
           \A x \in I : \A y \in e..x : y \in I
    PROVE  Cardinality(I) \in Nat /\ \A x \in Nat : x \in I <=> e <= x /\ x < e + Cardinality(I)
<1>1. CASE I = {}
  <2>1. Cardinality(I) = 0
    BY <1>1, FS_EmptySet
  <2>. QED
    BY <2>1, <1>1
<1>2. CASE I # {}
  <2>. DEFINE m == Max(I)
  <2>1. m \in I /\ \A x \in I : x <= m
    BY <1>2, GreatestNat
  <2>. HIDE DEF m
  <2>2. m \in Nat /\ e <= m
    BY <2>1
  <2>3. \A x \in I : x \in e..m
    BY <2>1, <2>2
  <2>4. \A x \in e..m : x \in I
    BY <2>1
  <2>5. I = e..m
    BY <2>3, <2>4
  <2>6. Cardinality(e..m) = m - e + 1
    <3>1. e \in Int /\ m \in Int /\ ~(e > m)
      BY <2>2
    <3>. QED
      BY <3>1, FS_Interval
  <2>. QED
    BY <2>2, <2>5, <2>6
<1>. QED
  BY <1>1, <1>2

\* The completions that are polled on queue pair q, and how many segments have
\* completed there then.
NewlyLast(q) == {n \in (polled[q] + 1)..completed[q] : wire[n].last}
Ended(q) == head + complete_seg[q] + Cardinality(NewlyLast(q))

LEMMA Polling ==
    ASSUME PInv, Busy, NEW q \in QP
    PROVE  /\ Cardinality(NewlyLast(q)) \in Nat /\ Ended(q) \in Nat /\ Ended(q) <= middle
           /\ PolledUpTo(wire, call, completed[q], Ended(q))
           /\ SentUpTo(wire, call, Ended(q))
<1>. USE DEF PInv
<1>. DEFINE p == polled[q]
            c == completed[q]
            e == head + complete_seg[q]
            L == NewlyLast(q)
            I == {wire[n].seg : n \in L}
<1>1. /\ p \in Nat /\ c \in Nat /\ e \in Nat /\ head \in Nat /\ middle \in Nat /\ call \in Nat
      /\ p <= c /\ c <= Len(wire) /\ Len(wire) \in Nat /\ e <= middle /\ complete_seg[q] \in Nat
  <2>1. /\ polled[q] \in Nat /\ completed[q] \in Nat /\ complete_seg[q] \in Nat
    BY ElementFacts
  <2>2. head \in Nat /\ middle \in Nat /\ call \in Nat /\ Len(wire) \in Nat
    BY StateFacts
  <2>3. polled[q] <= completed[q] /\ completed[q] <= Len(wire) /\ head + complete_seg[q] <= middle
    BY DEF PolledMessages, Indices
  <2>. QED
    BY <2>1, <2>2, <2>3
<1>2. PolledUpTo(wire, call, p, e) /\ SentUpTo(wire, call, e)
  BY DEF PolledMessages
<1>3. \A n \in L : n \in Nat /\ n \in 1..Len(wire) /\ p < n /\ n <= c /\ wire[n].last
  BY <1>1 DEF NewlyLast
<1>4. \A n \in 1..Len(wire) : p < n /\ n <= c /\ wire[n].last => n \in L
  BY <1>1 DEF NewlyLast
<1>. HIDE DEF p, c, e, L
<1>5. ASSUME NEW n \in 1..Len(wire), p < n
      PROVE  /\ wire[n].call = call /\ wire[n].seg \in Nat /\ head <= wire[n].seg /\ wire[n].seg < middle
             /\ wire[n].last => e <= wire[n].seg
  <2>1. wire[n].call = call /\ head <= wire[n].seg /\ wire[n].seg < middle
    BY <1>5, NotPolled DEF p
  <2>2. wire[n].seg \in Nat
    BY ElementFacts
  <2>3. n \in Nat /\ ~(n <= p)
    BY <1>1, <1>5
  <2>4. wire[n].last => ~(wire[n].seg < e)
    BY <2>1, <2>3, <1>2 DEF PolledUpTo
  <2>. QED
    BY <2>1, <2>2, <2>4, <1>1
\* Last messages of the call are told apart by their segments.
<1>6. ASSUME NEW n \in 1..Len(wire), NEW k \in 1..Len(wire), wire[n].call = call, wire[k].call = call,
             wire[n].last, wire[k].last, wire[n].seg = wire[k].seg
      PROVE  n = k
  <2>1. wire[n].msg = Size(call, wire[n].seg) /\ wire[k].msg = Size(call, wire[n].seg)
    BY <1>6, OfTheCalls
  <2>. QED
    BY <2>1, <1>6, Places
\* Their segments have no gap.
<1>7. ASSUME NEW n \in L, NEW u \in Nat, e <= u, u < wire[n].seg PROVE u \in I
  <2>1. n \in 1..Len(wire) /\ p < n /\ n <= c /\ n \in Nat
    BY <1>3
  <2>. DEFINE t == wire[n].seg
  <2>2. wire[n].call = call /\ t \in Nat /\ head <= t /\ t < middle
    BY <2>1, <1>5
  <2>3. 1 <= wire[n].msg /\ wire[n].msg \in Nat
    BY <2>1, OfTheCalls
  <2>4. wire[n].msg <= msg_sent[t % QueueSize] /\ t % QueueSize \in Slot
    BY <2>1, <2>2, Buffers DEF WireOrder
  <2>5. msg_sent[t % QueueSize] > 0
    <3>1. msg_sent[t % QueueSize] \in Nat
      BY <2>4, ElementFacts
    <3>. QED
      BY <3>1, <2>3, <2>4
  <2>6. u \in head..(middle - 1) /\ t \in (u + 1)..(middle - 1)
    <3>1. head <= e
      BY <1>1 DEF e
    <3>. QED
      BY <3>1, <2>2, <1>1, <1>7
  <2>. DEFINE z == Size(call, u)
  <2>7. msg_sent[u % QueueSize] = z /\ \A m \in 1..msg_sent[u % QueueSize] : OnWire(wire, call, u, m)
    BY <2>5, <2>6 DEF SentMessages
  <2>8. z \in Nat /\ 1 <= z
    <3>1. u \in 0..(Segments(call) - 1)
      BY <2>6, Released
    <3>2. call \in 1..Len(Calls)
      BY StateFacts DEF Types
    <3>. QED
      BY <3>1, <3>2, Sizes
  <2>9. OnWire(wire, call, u, z)
    <3>. HIDE DEF z
    <3>1. z \in 1..msg_sent[u % QueueSize]
      BY <2>7, <2>8
    <3>. QED
      BY <3>1, <2>7
  <2>10. PICK k \in 1..Len(wire) : wire[k].call = call /\ wire[k].seg = u /\ wire[k].msg = z
    BY <2>9 DEF OnWire
  <2>11. wire[k].last
    BY <2>10, OfTheCalls
  <2>12. Before(wire[k], wire[n])
    BY <2>2, <2>10, <1>7 DEF Before
  <2>13. k < n /\ k \in Nat
    BY <2>1, <2>12, Places
  <2>14. ~(k <= p)
    <3>1. ~(u < e)
      BY <1>1, <1>7
    <3>. QED
      BY <3>1, <2>10, <2>11, <1>2 DEF PolledUpTo
  <2>15. p < k /\ k <= c
    BY <2>1, <2>13, <2>14, <1>1
  <2>16. k \in L
    BY <2>11, <2>15, <1>4
  <2>. QED
    BY <2>10, <2>16
<1>8. /\ I \subseteq Nat /\ \A x \in I : e <= x /\ x <= middle
      /\ \A x \in I : x < middle
  <2>1. \A n \in L : wire[n].seg \in Nat /\ e <= wire[n].seg /\ wire[n].seg < middle
    BY <1>3, <1>5
  <2>. QED
    BY <2>1, <1>1
<1>9. \A x \in I : \A y \in e..x : y \in I
  <2>. SUFFICES ASSUME NEW x \in I, NEW y \in e..x, y # x PROVE y \in I
    OBVIOUS
  <2>1. PICK n \in L : x = wire[n].seg
    OBVIOUS
  <2>2. x \in Nat
    BY <1>8
  <2>3. y \in Nat /\ e <= y /\ y < x
    BY <2>2, <1>1
  <2>. QED
    BY <2>1, <2>3, <1>7
<1>10. IsFiniteSet(L)
  <2>1. L \in SUBSET Nat /\ \A n \in L : n <= c
    BY <1>3
  <2>. QED
    BY <2>1, <1>1, FS_BoundedSetOfNaturals
<1>11. Cardinality(I) = Cardinality(L)
  <2>. DEFINE f == [n \in L |-> wire[n].seg]
  <2>1. f \in [L -> I] /\ \A x \in I : \E n \in L : f[n] = x
    OBVIOUS
  <2>2. \A n, k \in L : f[n] = f[k] => n = k
    BY <1>3, <1>5, <1>6
  <2>. HIDE DEF f, I
  <2>. QED
    BY <2>1, <2>2, <1>10, SameSize
<1>. HIDE DEF I
<1>12. Cardinality(I) \in Nat /\ \A x \in Nat : x \in I <=> e <= x /\ x < e + Cardinality(I)
  BY <1>1, <1>8, <1>9, CountUp
<1>. DEFINE r == e + Cardinality(L)
<1>13. Ended(q) = r /\ Cardinality(NewlyLast(q)) = Cardinality(L)
  BY DEF Ended, e, L
<1>14. r \in Nat /\ e <= r /\ \A x \in Nat : x \in I <=> e <= x /\ x < r
  BY <1>1, <1>11, <1>12
<1>. HIDE DEF r
<1>15. r <= middle
  <2>1. CASE r = e
    BY <2>1, <1>1
  <2>2. CASE r # e
    <3>1. r - 1 \in Nat /\ e <= r - 1 /\ r - 1 < r
      BY <2>2, <1>1, <1>14
    <3>2. r - 1 \in I
      BY <3>1, <1>14
    <3>3. r - 1 < middle
      BY <3>2, <1>8
    <3>. QED
      BY <3>3, <1>1, <1>14
  <2>. QED
    BY <2>1, <2>2
<1>16. \A x \in I : \E n \in L : x = wire[n].seg
  BY DEF I
<1>17. \A n \in L : wire[n].seg \in I
  BY DEF I
<1>18. PolledUpTo(wire, call, c, r)
  <2>. SUFFICES ASSUME NEW n \in 1..Len(wire), wire[n].call = call, wire[n].last
                PROVE  n <= c <=> wire[n].seg < r
    BY DEF PolledUpTo
  <2>1. n \in Nat /\ wire[n].seg \in Nat
    BY <1>1, ElementFacts
  <2>2. CASE n <= p
    <3>1. wire[n].seg < e
      BY <2>2, <1>2 DEF PolledUpTo
    <3>. QED
      BY <3>1, <2>1, <2>2, <1>1, <1>14
  <2>3. CASE p < n /\ n <= c
    <3>1. n \in L
      BY <2>3, <1>4
    <3>2. wire[n].seg < r
      BY <3>1, <2>1, <1>14, <1>17
    <3>. QED
      BY <3>2, <2>3
  <2>4. CASE c < n
    <3>1. p < n
      BY <2>1, <2>4, <1>1
    <3>2. e <= wire[n].seg
      BY <3>1, <1>5
    <3>3. ASSUME wire[n].seg < r PROVE FALSE
      <4>1. wire[n].seg \in I
        BY <3>2, <3>3, <2>1, <1>14
      <4>2. PICK k \in L : wire[n].seg = wire[k].seg
        BY <4>1, <1>16
      <4>3. k \in 1..Len(wire) /\ p < k /\ k <= c /\ wire[k].last /\ k \in Nat
        BY <1>3
      <4>4. wire[k].call = call
        BY <4>3, <1>5
      <4>5. n = k
        BY <4>2, <4>3, <4>4, <1>6
      <4>. QED
        BY <4>3, <4>5, <2>4, <1>1
    <3>. QED
      BY <3>3, <2>1, <2>4, <1>1
  <2>. QED
    BY <2>1, <2>2, <2>3, <2>4, <1>1
<1>19. SentUpTo(wire, call, r)
  <2>. SUFFICES ASSUME NEW s \in 0..(r - 1)
                PROVE  \E n \in 1..Len(wire) : wire[n].call = call /\ wire[n].seg = s /\ wire[n].last
    BY DEF SentUpTo
  <2>1. s \in Nat /\ s < r
    BY <1>14
  <2>2. CASE s < e
    <3>1. s \in 0..(e - 1)
      BY <2>1, <2>2, <1>1
    <3>. QED
      BY <3>1, <1>2 DEF SentUpTo
  <2>3. CASE e <= s
    <3>1. PICK n \in L : s = wire[n].seg
      BY <2>1, <2>3, <1>14, <1>16
    <3>. QED
      BY <3>1, <1>3, <1>5
  <2>. QED
    BY <2>1, <2>2, <2>3, <1>1
<1>. QED
  BY <1>11, <1>12, <1>13, <1>14, <1>15, <1>18, <1>19 DEF c

\* All completion queues are polled.
Polls ==
    /\ Busy /\ Busy' /\ pc' = "tail"
    /\ polled' = completed
    /\ complete_seg' = [q \in QP |-> complete_seg[q] + Cardinality(NewlyLast(q))]
    /\ call' = call /\ head' = head /\ middle' = middle /\ tail' = tail
    /\ completed' = completed
    /\ queue' = queue /\ given' = given /\ copy_event' = copy_event
    /\ sendbuff' = sendbuff /\ s_mr' = s_mr /\ r_mr' = r_mr /\ recvbuff' = recvbuff

LEMMA PollsStep ==
    ASSUME PInv, Polls, wire' \in Seq(WireMessages), msg_sent' \in [Slot -> 0..MaxMessages]
    PROVE  /\ Types' /\ Indices' /\ UserOps' /\ InOps' /\ OutOps' /\ BufferEvents' /\ NotProduced'
           /\ CopiedSegments' /\ CopiedResults'
<1>. USE DEF PInv, Polls
<1>1. /\ UserQ' = UserQ /\ InQ' = InQ /\ OutQ' = OutQ
      /\ UserDone' = UserDone /\ InDone' = InDone /\ OutDone' = OutDone
  BY DEF UserQ, InQ, OutQ, UserDone, InDone, OutDone
<1>2. Produced' <=> Produced
  BY <1>1 DEF Produced
<1>3. \A q \in QP : /\ complete_seg'[q] \in Nat /\ head + complete_seg'[q] = Ended(q) /\ Ended(q) <= middle
  <2>. SUFFICES ASSUME NEW q \in QP
                PROVE  complete_seg'[q] \in Nat /\ head + complete_seg'[q] = Ended(q) /\ Ended(q) <= middle
    OBVIOUS
  <2>1. Cardinality(NewlyLast(q)) \in Nat /\ Ended(q) <= middle
    BY Polling
  <2>2. complete_seg[q] \in Nat /\ head \in Nat
    BY ElementFacts, StateFacts
  <2>3. complete_seg'[q] = complete_seg[q] + Cardinality(NewlyLast(q))
    OBVIOUS
  <2>. QED
    BY <2>1, <2>2, <2>3 DEF Ended
<1>4. Types'
  <2>1. complete_seg' = [q \in QP |-> complete_seg'[q]]
    OBVIOUS
  <2>2. complete_seg' \in [QP -> Nat]
    BY <2>1, <1>3
  <2>. QED
    BY <2>2 DEF Types
<1>5. Indices'
  BY <1>3 DEF Indices
<1>6. UserOps'
  BY <1>1 DEF UserOps
<1>7. InOps'
  BY <1>1, <1>2 DEF InOps
<1>8. OutOps'
  BY <1>1 DEF OutOps
<1>9. BufferEvents'
  BY <1>1 DEF BufferEvents
<1>10. NotProduced'
  BY <1>1, <1>2 DEF NotProduced
<1>11. CopiedSegments'
  BY <1>1, <1>2 DEF CopiedSegments
<1>12. CopiedResults'
  BY <1>1 DEF CopiedResults
<1>. QED
  BY <1>4, <1>5, <1>6, <1>7, <1>8, <1>9, <1>10, <1>11, <1>12

\* The part of the invariant on the messages polled, for the messages so far.
LEMMA PolledSoFar ==
    ASSUME PInv, Polls, NEW q \in QP
    PROVE  /\ completed[q] \in Nat /\ completed[q] <= Len(wire) /\ Len(wire) \in Nat
           /\ \A n \in 1..Len(wire) : wire[n].call < call => n <= completed[q]
           /\ PolledUpTo(wire, call, completed[q], head + complete_seg'[q])
           /\ SentUpTo(wire, call, head + complete_seg'[q])
           /\ head + complete_seg'[q] \in Nat
<1>. USE DEF PInv
<1>1. /\ completed[q] \in Nat /\ polled[q] \in Nat /\ Len(wire) \in Nat /\ complete_seg[q] \in Nat /\ head \in Nat
      /\ polled[q] <= completed[q] /\ completed[q] <= Len(wire)
  BY ElementFacts, StateFacts DEF PolledMessages
<1>2. \A n \in 1..Len(wire) : wire[n].call < call => n <= completed[q]
  <2>1. \A n \in 1..Len(wire) : wire[n].call < call => n <= polled[q]
    BY DEF PolledMessages
  <2>. QED
    BY <2>1, <1>1
<1>3. /\ Cardinality(NewlyLast(q)) \in Nat /\ PolledUpTo(wire, call, completed[q], Ended(q)) /\ SentUpTo(wire, call, Ended(q))
      /\ Ended(q) \in Nat
  BY Polling DEF Polls
<1>4. complete_seg'[q] = complete_seg[q] + Cardinality(NewlyLast(q))
  BY DEF Polls
<1>5. head + complete_seg'[q] = Ended(q)
  BY <1>1, <1>3, <1>4 DEF Ended
<1>. QED
  BY <1>1, <1>2, <1>3, <1>5, Zenon

\* No message is posted.
LEMMA NothingPosted ==
    ASSUME PInv, Polls, wire' = wire, msg_sent' = msg_sent
    PROVE  PInv'
<1>1. wire' \in Seq(WireMessages) /\ msg_sent' \in [Slot -> 0..MaxMessages]
  BY DEF PInv, Types
<1>2. /\ Types' /\ Indices' /\ UserOps' /\ InOps' /\ OutOps' /\ BufferEvents' /\ NotProduced'
      /\ CopiedSegments' /\ CopiedResults'
  BY <1>1, PollsStep
<1>3. /\ call' = call /\ head' = head /\ middle' = middle /\ completed' = completed /\ polled' = completed
      /\ r_mr' = r_mr /\ Busy /\ Busy'
  BY DEF Polls
<1>4. WireOrder'
  BY <1>3 DEF PInv, WireOrder
<1>5. SentMessages'
  BY <1>3 DEF PInv, SentMessages
<1>6. ReceivedSums'
  BY <1>3 DEF PInv, ReceivedSums
<1>7. PolledMessages'
  <2>1. ASSUME NEW q \in QP
        PROVE  /\ polled'[q] <= completed'[q] /\ completed'[q] <= Len(wire')
               /\ \A n \in 1..Len(wire') : wire'[n].call < call' => n <= polled'[q]
               /\ PolledUpTo(wire', call', polled'[q], head' + complete_seg'[q])
               /\ SentUpTo(wire', call', head' + complete_seg'[q])
    <3>1. /\ completed[q] \in Nat /\ completed[q] <= Len(wire)
          /\ \A n \in 1..Len(wire) : wire[n].call < call => n <= completed[q]
          /\ PolledUpTo(wire, call, completed[q], head + complete_seg'[q])
          /\ SentUpTo(wire, call, head + complete_seg'[q])
      BY PolledSoFar
    <3>. QED
      BY <3>1, <1>3
  <2>. QED
    BY <2>1, <1>3 DEF PolledMessages
<1>. QED
  BY <1>2, <1>4, <1>5, <1>6, <1>7 DEF PInv

\* The next message of segment s.
NextMessage(s) ==
    [call |-> call, seg |-> s, msg |-> msg_sent[s % QueueSize] + 1,
     last |-> msg_sent[s % QueueSize] + 1 = Calls[call][s + 1]]

\* A message of the first segment that is not sent is posted.
LEMMA MessagePosted ==
    ASSUME PInv, Polls, NEW s \in head..(middle - 1), Unsent(s), \A t \in head..(s - 1) : ~Unsent(t),
           wire' = Append(wire, NextMessage(s)),
           msg_sent' = [msg_sent EXCEPT ![s % QueueSize] = msg_sent[s % QueueSize] + 1]
    PROVE  PInv'
<1>. USE DEF PInv
<1>1. /\ call' = call /\ head' = head /\ middle' = middle /\ completed' = completed /\ polled' = completed
      /\ r_mr' = r_mr /\ Busy /\ Busy'
  BY DEF Polls
<1>2. /\ head \in Nat /\ middle \in Nat /\ tail \in Nat /\ call \in Nat /\ call \in 1..Len(Calls)
      /\ wire \in Seq(WireMessages) /\ Len(wire) \in Nat /\ middle <= tail /\ s \in Nat
  BY <1>1, StateFacts DEF Types, Indices
<1>3. s \in 0..(Segments(call) - 1)
  BY <1>1, Released
<1>. DEFINE i == s % QueueSize
            z == Size(call, s)
            v == msg_sent[i] + 1
            w == NextMessage(s)
            a == Append(wire, w)
            l == Len(wire) + 1
<1>4. /\ i \in Slot /\ z \in Nat /\ z <= MaxMessages /\ MaxMessages \in Nat /\ msg_sent[i] \in Nat
      /\ msg_sent \in [Slot -> 0..MaxMessages]
  <2>1. i \in Slot
    BY <1>2, Buffers
  <2>. QED
    BY <2>1, <1>2, <1>3, Sizes, ElementFacts DEF Types
<1>5. msg_sent[i] < z
  BY DEF Unsent, Size
<1>6. w.call = call /\ w.seg = s /\ w.msg = v /\ (w.last <=> v = z) /\ w.last \in BOOLEAN
  BY DEF NextMessage, Size
<1>7. v \in Nat /\ v <= z /\ 1 <= v /\ v \in 0..MaxMessages
  BY <1>4, <1>5
<1>8. w \in WireMessages
  BY <1>2, <1>4 DEF NextMessage, WireMessages
<1>. HIDE DEF w
<1>9. /\ a \in Seq(WireMessages) /\ Len(a) = l /\ a[l] = w /\ l \in 1..Len(a) /\ l \in Nat
      /\ \A n \in 1..Len(wire) : n \in 1..Len(a) /\ n \in Nat /\ a[n] = wire[n]
      /\ \A n \in 1..Len(a) : n \in 1..Len(wire) \/ n = l
  <2>1. /\ a \in Seq(WireMessages) /\ Len(a) = Len(wire) + 1 /\ a[Len(wire) + 1] = w
        /\ \A n \in 1..Len(wire) : a[n] = wire[n]
        /\ \A n \in 1..Len(a) : n \in 1..Len(wire) \/ n = Len(wire) + 1
    BY <1>2, <1>8, AppendAt
  <2>. HIDE DEF a
  <2>. QED
    BY <2>1, <1>2
<1>10. wire' = a /\ msg_sent' = [msg_sent EXCEPT ![i] = v]
  BY DEF w
<1>. HIDE DEF i, z, v, a, l
<1>11. /\ msg_sent' \in [Slot -> 0..MaxMessages] /\ msg_sent'[i] = v
       /\ \A j \in Slot : j # i => msg_sent'[j] = msg_sent[j]
  BY <1>4, <1>7, <1>10
<1>12. /\ Types' /\ Indices' /\ UserOps' /\ InOps' /\ OutOps' /\ BufferEvents' /\ NotProduced'
       /\ CopiedSegments' /\ CopiedResults'
  BY <1>9, <1>10, <1>11, PollsStep
\* Messages sent of the segments being sent.
<1>13. ASSUME NEW t \in head..(middle - 1)
       PROVE  /\ t \in Nat /\ msg_sent[t % QueueSize] \in Nat /\ msg_sent'[t % QueueSize] \in Nat
              /\ t = s => msg_sent[t % QueueSize] = msg_sent[i] /\ msg_sent'[t % QueueSize] = v
              /\ t # s => msg_sent'[t % QueueSize] = msg_sent[t % QueueSize]
              /\ msg_sent[t % QueueSize] <= msg_sent'[t % QueueSize]
  <2>1. t \in head..(tail - 1) /\ s \in head..(tail - 1)
    BY <1>2
  <2>2. t \in Nat /\ t % QueueSize \in Slot /\ (t = s \/ t % QueueSize # i)
    BY <2>1, RingSlots DEF i
  <2>3. msg_sent[t % QueueSize] \in Nat
    BY <2>2, ElementFacts
  <2>4. t = s => msg_sent[t % QueueSize] = msg_sent[i] /\ msg_sent'[t % QueueSize] = v
    BY <1>11 DEF i
  <2>5. t # s => msg_sent'[t % QueueSize] = msg_sent[t % QueueSize]
    BY <2>2, <1>11
  <2>6. msg_sent[i] <= v
    BY <1>4 DEF v
  <2>. QED
    BY <2>2, <2>3, <2>4, <2>5, <2>6, <1>4, <1>7
<1>14. ASSUME NEW n \in 1..Len(wire) PROVE Before(wire[n], w)
  <2>1. /\ wire[n].call \in Nat /\ wire[n].seg \in Nat /\ wire[n].msg \in Nat /\ wire[n].call <= call /\ 1 <= wire[n].msg
    BY OfTheCalls
  <2>. DEFINE t == wire[n].seg
  <2>2. CASE wire[n].call < call
    BY <2>2, <1>6 DEF Before
  <2>3. CASE wire[n].call = call
    <3>1. t < middle /\ (t >= head => wire[n].msg <= msg_sent[t % QueueSize])
      BY <2>3, <1>1 DEF WireOrder
    <3>2. CASE t < s
      BY <3>2, <2>3, <1>6 DEF Before
    <3>3. CASE t = s
      <4>1. wire[n].msg <= msg_sent[i]
        BY <3>1, <3>3, <1>2 DEF i
      <4>2. wire[n].msg < v
        BY <4>1, <2>1, <1>4 DEF v
      <4>. QED
        BY <4>2, <3>3, <2>3, <1>6 DEF Before
    <3>4. CASE t > s
      <4>1. t \in head..(middle - 1) /\ t \in (s + 1)..(middle - 1) /\ t >= head
        BY <3>1, <3>4, <2>1, <1>2, SMTT(30)
      <4>2. msg_sent[t % QueueSize] > 0
        BY <4>1, <3>1, <2>1, <1>13
      <4>3. msg_sent[i] = z
        BY <4>1, <4>2, <1>1 DEF SentMessages, i, z
      <4>. QED
        BY <4>3, <1>4, <1>5
    <3>. QED
      BY <3>2, <3>3, <3>4, <2>1, <1>2
  <2>. QED
    BY <2>1, <2>2, <2>3, <1>2
<1>15. WireOrder'
  <2>1. Proper(w)
    <3>1. Size(w.call, w.seg) = z /\ Segments(w.call) = Segments(call)
      BY <1>6 DEF z
    <3>2. w.call \in 1..Len(Calls) /\ w.seg \in 0..(Segments(w.call) - 1) /\ w.msg \in 1..z
      BY <3>1, <1>2, <1>3, <1>4, <1>6, <1>7
    <3>. QED
      BY <3>1, <3>2, <1>6 DEF Proper
  <2>2. ASSUME NEW n \in 1..Len(a)
        PROVE  /\ Proper(a[n]) /\ a[n].call <= call
               /\ a[n].call = call =>
                   /\ a[n].seg < middle
                   /\ a[n].seg >= head => a[n].msg <= msg_sent'[a[n].seg % QueueSize]
    <3>1. CASE n \in 1..Len(wire)
      <4>1. /\ Proper(wire[n]) /\ wire[n].call <= call /\ wire[n].seg \in Nat /\ wire[n].msg \in Nat
            /\ wire[n].call = call =>
                   /\ wire[n].seg < middle
                   /\ wire[n].seg >= head => wire[n].msg <= msg_sent[wire[n].seg % QueueSize]
        BY <3>1, <1>1, ElementFacts DEF WireOrder
      <4>. DEFINE t == wire[n].seg
                  x == wire[n].msg
      <4>2. ASSUME wire[n].call = call, t >= head PROVE x <= msg_sent'[t % QueueSize]
        <5>1. t \in head..(middle - 1) /\ x <= msg_sent[t % QueueSize] /\ x \in Nat
          BY <4>1, <4>2, <1>2
        <5>2. /\ msg_sent[t % QueueSize] \in Nat /\ msg_sent'[t % QueueSize] \in Nat
              /\ msg_sent[t % QueueSize] <= msg_sent'[t % QueueSize]
          BY <5>1, <1>13
        <5>. HIDE DEF x, t
        <5>. QED
          BY <5>1, <5>2
      <4>. QED
        BY <4>1, <4>2, <3>1, <1>9
    <3>2. CASE n = l
      <4>1. a[n] = w
        BY <3>2, <1>9
      <4>2. w.call <= call /\ w.seg < middle /\ w.msg = v /\ w.seg = s
        BY <1>2, <1>6
      <4>3. msg_sent'[w.seg % QueueSize] = v /\ v <= v
        BY <1>6, <1>7, <1>11 DEF i
      <4>. QED
        BY <4>1, <4>2, <4>3, <2>1
    <3>. QED
      BY <3>1, <3>2, <1>9
  <2>3. ASSUME NEW n \in 1..Len(a), NEW k \in 1..Len(a), n < k PROVE Before(a[n], a[k])
    <3>1. CASE n \in 1..Len(wire) /\ k \in 1..Len(wire)
      BY <2>3, <3>1, <1>9 DEF WireOrder
    <3>2. CASE n \in 1..Len(wire) /\ k = l
      BY <3>2, <1>9, <1>14
    <3>3. CASE n = l
      <4>1. k <= l /\ k \in Nat
        BY <1>9
      <4>. QED
        BY <4>1, <3>3, <2>3, <1>9
    <3>. QED
      BY <3>1, <3>2, <3>3, <1>9
  <2>. QED
    BY <2>2, <2>3, <1>1, <1>10 DEF WireOrder
<1>16. ASSUME NEW c, NEW t, NEW m, OnWire(wire, c, t, m) PROVE OnWire(a, c, t, m)
  BY <1>9, <1>16 DEF OnWire
<1>17. OnWire(a, call, s, v)
  BY <1>6, <1>9 DEF OnWire
<1>18. SentMessages'
  <2>1. ASSUME NEW t \in head..(middle - 1)
        PROVE  /\ msg_sent'[t % QueueSize] <= Size(call, t)
               /\ \A m \in 1..msg_sent'[t % QueueSize] : OnWire(a, call, t, m)
               /\ \A y \in (t + 1)..(middle - 1) :
                    msg_sent'[y % QueueSize] > 0 => msg_sent'[t % QueueSize] = Size(call, t)
    <3>0. /\ msg_sent[t % QueueSize] <= Size(call, t)
          /\ \A m \in 1..msg_sent[t % QueueSize] : OnWire(wire, call, t, m)
          /\ \A y \in (t + 1)..(middle - 1) :
                    msg_sent[y % QueueSize] > 0 => msg_sent[t % QueueSize] = Size(call, t)
      BY <1>1 DEF SentMessages
    <3>1. CASE t = s
      <4>1. msg_sent'[t % QueueSize] = v /\ msg_sent[t % QueueSize] = msg_sent[i] /\ Size(call, t) = z
        BY <3>1, <1>13 DEF z
      <4>2. ASSUME NEW m \in 1..v PROVE OnWire(a, call, t, m)
        <5>1. m = v \/ m \in 1..msg_sent[i]
          BY <1>4, <1>7 DEF v
        <5>2. m \in 1..msg_sent[i] => OnWire(a, call, t, m)
          BY <3>0, <4>1, <1>16
        <5>. QED
          BY <5>1, <5>2, <3>1, <1>17
      <4>3. ASSUME NEW y \in (t + 1)..(middle - 1), msg_sent'[y % QueueSize] > 0 PROVE FALSE
        <5>1. y \in head..(middle - 1) /\ y # s
          BY <3>1, <1>2
        <5>2. msg_sent[y % QueueSize] > 0
          BY <5>1, <4>3, <1>13
        <5>3. msg_sent[i] = z
          BY <5>2, <3>0, <4>1
        <5>. QED
          BY <5>3, <1>4, <1>5
      <4>. QED
        BY <4>1, <4>2, <4>3, <1>7
    <3>2. CASE t # s
      <4>1. msg_sent'[t % QueueSize] = msg_sent[t % QueueSize] /\ t \in Nat
        BY <3>2, <1>13
      <4>2. \A m \in 1..msg_sent'[t % QueueSize] : OnWire(a, call, t, m)
        BY <3>0, <4>1, <1>16
      <4>3. ASSUME NEW y \in (t + 1)..(middle - 1), msg_sent'[y % QueueSize] > 0
            PROVE  msg_sent[t % QueueSize] = Size(call, t)
        <5>1. CASE y = s
          <6>1. t \in head..(s - 1)
            BY <5>1, <4>1, <1>2
          <6>2. ~(msg_sent[t % QueueSize] < Size(call, t))
            BY <6>1 DEF Unsent, Size
          <6>3. Size(call, t) \in Nat /\ msg_sent[t % QueueSize] \in Nat
            <7>1. t \in 0..(Segments(call) - 1)
              BY <1>1, Released
            <7>. QED
              BY <7>1, <1>2, <1>13, Sizes
          <6>. QED
            BY <6>2, <6>3, <3>0
        <5>2. CASE y # s
          <6>1. y \in head..(middle - 1)
            BY <4>1, <1>2
          <6>2. msg_sent[y % QueueSize] > 0
            BY <6>1, <5>2, <4>3, <1>13
          <6>. QED
            BY <6>2, <3>0
        <5>. QED
          BY <5>1, <5>2
      <4>. QED
        BY <3>0, <4>1, <4>2, <4>3
    <3>. QED
      BY <3>1, <3>2
  <2>2. \A c \in 1..call : c < call => \A t \in 0..(Segments(c) - 1) : \A m \in 1..Size(c, t) : OnWire(a, c, t, m)
    BY <1>16 DEF SentMessages
  <2>3. \A t \in 0..(head - 1) : \A m \in 1..Size(call, t) : OnWire(a, call, t, m)
    BY <1>1, <1>16 DEF SentMessages
  <2>. QED
    BY <2>1, <2>2, <2>3, <1>1, <1>10 DEF SentMessages
<1>19. PolledMessages'
  <2>1. ASSUME NEW q \in QP
        PROVE  /\ completed[q] <= Len(a) /\ completed[q] <= completed[q]
               /\ \A n \in 1..Len(a) : a[n].call < call => n <= completed[q]
               /\ PolledUpTo(a, call, completed[q], head + complete_seg'[q])
               /\ SentUpTo(a, call, head + complete_seg'[q])
    <3>. DEFINE x == head + complete_seg'[q]
                c == completed[q]
    <3>1. /\ c \in Nat /\ c <= Len(wire)
          /\ \A n \in 1..Len(wire) : wire[n].call < call => n <= c
          /\ PolledUpTo(wire, call, c, x)
          /\ SentUpTo(wire, call, x) /\ x \in Nat
      BY PolledSoFar
    <3>. HIDE DEF x, c
    <3>2. c <= Len(a) /\ c <= c /\ c < l
      BY <3>1, <1>2, <1>9 DEF l
    <3>3. \A n \in 1..Len(a) : a[n].call < call => n <= c
      <4>1. ~(w.call < call)
        BY <1>2, <1>6
      <4>. QED
        BY <4>1, <3>1, <1>9
    <3>4. SentUpTo(a, call, x)
      BY <3>1, <1>9, ZenonT(40) DEF SentUpTo
    <3>5. ~(s < x)
      <4>1. SUFFICES ASSUME s < x PROVE FALSE
        OBVIOUS
      <4>2. s \in 0..(x - 1)
        BY <4>1, <3>1, <1>2
      <4>3. PICK n \in 1..Len(wire) : wire[n].call = call /\ wire[n].seg = s /\ wire[n].last
        BY <4>2, <3>1 DEF SentUpTo
      <4>4. wire[n].msg = z
        BY <4>3, OfTheCalls DEF z
      <4>5. wire[n].msg <= msg_sent[i]
        BY <4>3, <1>1, <1>2 DEF WireOrder, i
      <4>. QED
        BY <4>4, <4>5, <1>4, <1>5
    <3>6. PolledUpTo(a, call, c, x)
      <4>. SUFFICES ASSUME NEW n \in 1..Len(a), a[n].call = call, a[n].last PROVE n <= c <=> a[n].seg < x
        BY DEF PolledUpTo
      <4>1. CASE n \in 1..Len(wire)
        BY <4>1, <3>1, <1>9 DEF PolledUpTo
      <4>2. CASE n = l
        <5>1. ~(n <= c)
          BY <4>2, <3>1, <3>2, <1>9
        <5>2. ~(a[n].seg < x)
          BY <4>2, <3>5, <1>6, <1>9
        <5>. QED
          BY <5>1, <5>2
      <4>. QED
        BY <4>1, <4>2, <1>9
    <3>. QED
      BY <3>2, <3>3, <3>4, <3>6 DEF x, c
  <2>. QED
    BY <2>1, <1>1, <1>10 DEF PolledMessages
<1>20. ReceivedSums'
  <2>1. ASSUME NEW q \in QP, NEW n \in 1..completed[q], a[n].call = call, a[n].seg >= head
        PROVE  r_mr[a[n].seg % QueueSize][a[n].msg][q] = <<call, a[n].seg>>
    <3>1. completed[q] \in Nat /\ completed[q] <= Len(wire)
      BY ElementFacts DEF PolledMessages
    <3>2. n \in 1..Len(wire)
      BY <3>1, <1>2
    <3>3. a[n] = wire[n]
      BY <3>2, <1>9
    <3>4. r_mr[wire[n].seg % QueueSize][wire[n].msg][q] = <<call, wire[n].seg>>
      BY <2>1, <3>3, <1>1 DEF ReceivedSums
    <3>. QED
      BY <3>3, <3>4
  <2>2. ASSUME NEW q \in QP, NEW n \in 1..completed'[q], wire'[n].call = call', wire'[n].seg >= head'
        PROVE  r_mr'[wire'[n].seg % QueueSize][wire'[n].msg][q] = <<call', wire'[n].seg>>
    BY <2>1, <2>2, <1>1, <1>10
  <2>. QED
    BY <2>2 DEF ReceivedSums
<1>. QED
  BY <1>12, <1>15, <1>18, <1>19, <1>20

\* The steps of the loop.
LEMMA LoopStep ==
    ASSUME PInv, StepTail \/ StepMiddle \/ StepHead
    PROVE  PInv'
<1>1. CASE StepTail
  <2>1. CASE tail < Segments(call) /\ HasRoom /\ Reusable
    <3>1. TailMoves
      BY <1>1, <2>1 DEF StepTail, TailMoves
    <3>. QED
      BY <3>1, TailMovesStep
  <2>2. CASE ~(tail < Segments(call) /\ HasRoom /\ Reusable)
    <3>1. Idle
      BY <1>1, <2>2 DEF StepTail, Idle, Busy, streams, nic, memory
    <3>. QED
      BY <3>1, IdleStep
  <2>. QED
    BY <2>1, <2>2
<1>2. CASE StepMiddle
  <2>1. CASE CopiedIn
    <3>1. MiddleMoves
      BY <1>2, <2>1 DEF StepMiddle, MiddleMoves
    <3>. QED
      BY <3>1, MiddleMovesStep
  <2>2. CASE ~CopiedIn
    <3>1. Idle
      BY <1>2, <2>2 DEF StepMiddle, Idle, Busy, streams, nic, memory
    <3>. QED
      BY <3>1, IdleStep
  <2>. QED
    BY <2>1, <2>2
<1>3. CASE StepHead
  <2>1. CASE middle > head /\ SegmentDone
    <3>1. HeadMoves
      BY <1>3, <2>1 DEF StepHead, HeadMoves
    <3>. QED
      BY <3>1, HeadMovesStep
  <2>2. CASE ~(middle > head /\ SegmentDone)
    <3>1. Idle
      BY <1>3, <2>2 DEF StepHead, Idle, Busy, streams, nic, memory
    <3>. QED
      BY <3>1, IdleStep
  <2>. QED
    BY <2>1, <2>2
<1>. QED
  BY <1>1, <1>2, <1>3

LEMMA PostStep ==
    ASSUME PInv, StepPost
    PROVE  PInv'
<1>1. CASE head = middle
  <2>1. Idle
    BY <1>1 DEF StepPost, Idle, Busy, streams, memory
  <2>. QED
    BY <2>1, IdleStep
<1>2. CASE head # middle
  <2>. DEFINE unsent == {s \in head..(middle - 1) : Unsent(s)}
              s == NextSegment(unsent)
  <2>1. Polls
    BY <1>2 DEF StepPost, Polls, Busy, NewlyLast, streams, memory
  <2>2. CASE Available /\ unsent # {}
    <3>1. unsent \subseteq Nat /\ unsent \subseteq head..(middle - 1)
      BY StateFacts, SMTT(30) DEF PInv
    <3>2. s \in unsent /\ \A t \in unsent : s <= t
      <4>. HIDE DEF unsent
      <4>1. Min(unsent) \in unsent /\ \A t \in unsent : Min(unsent) <= t
        BY <2>2, <3>1, LeastNat
      <4>. QED
        BY <4>1 DEF NextSegment
    <3>3. /\ wire' = Append(wire, NextMessage(s))
          /\ msg_sent' = [msg_sent EXCEPT ![s % QueueSize] = msg_sent[s % QueueSize] + 1]
      BY <1>2, <2>2 DEF StepPost, NextMessage
    <3>4. s \in head..(middle - 1) /\ Unsent(s)
      BY <3>2
    <3>5. head \in Nat /\ middle \in Nat
      BY StateFacts DEF PInv
    <3>6. ASSUME NEW t \in head..(s - 1), Unsent(t) PROVE FALSE
      <4>. HIDE DEF s
      <4>1. t \in head..(middle - 1) /\ t < s /\ t \in Nat /\ s \in Nat
        BY <3>4, <3>5
      <4>2. t \in unsent
        BY <4>1, <3>6
      <4>. QED
        BY <4>1, <4>2, <3>2
    <3>. HIDE DEF s
    <3>. QED
      BY <2>1, <3>3, <3>4, <3>6, MessagePosted
  <2>3. CASE ~(Available /\ unsent # {})
    <3>1. wire' = wire /\ msg_sent' = msg_sent
      BY <1>2, <2>3 DEF StepPost
    <3>. QED
      BY <2>1, <3>1, NothingPosted
  <2>. QED
    BY <2>2, <2>3
<1>. QED
  BY <1>1, <1>2

\* A stream is given two more operations.
LEMMA LongerByTwo ==
    ASSUME NEW ops \in Seq(Ops), NEW x \in Ops, NEW y \in Ops
    PROVE  LET a == ops \o <<x, y>>
           IN  /\ a \in Seq(Ops) /\ Len(a) = Len(ops) + 2 /\ (\A k \in 1..Len(ops) : a[k] = ops[k])
               /\ a[Len(ops) + 1] = x /\ a[Len(ops) + 2] = y
               /\ \A k \in 1..Len(a) : k \in 1..Len(ops) \/ k = Len(ops) + 1 \/ k = Len(ops) + 2
<1>1. PICK more : more = <<x, y>>
  OBVIOUS
<1>2. more \in Seq(Ops) /\ Len(more) = 2 /\ more[1] = x /\ more[2] = y
  BY <1>1
<1>3. more \in Seq(Ops)
  BY <1>2
<1>4. PICK a : a = ops \o more
  OBVIOUS
<1>5. /\ a \in Seq(Ops) /\ Len(ops) \in Nat /\ Len(a) = Len(ops) + Len(more)
      /\ \A k \in 1..Len(ops) : a[k] = ops[k]
      /\ \A k \in 1..Len(more) : a[Len(ops) + k] = more[k]
  BY <1>3, <1>4, ConcatAt
<1>6. 1 \in 1..Len(more) /\ 2 \in 1..Len(more)
  BY <1>2
<1>7. Len(a) = Len(ops) + 2 /\ \A k \in 1..Len(a) : k \in 1..Len(ops) \/ k = Len(ops) + 1 \/ k = Len(ops) + 2
  BY <1>2, <1>5
<1>8. a[Len(ops) + 1] = x /\ a[Len(ops) + 2] = y
  BY <1>2, <1>5, <1>6
<1>. QED
  BY <1>1, <1>4, <1>5, <1>7, <1>8

\* A call returns.
LEMMA LeaveStep ==
    ASSUME PInv, Leave
    PROVE  PInv'
<1>. USE DEF PInv
<1>1. /\ call' = call /\ head' = head /\ middle' = middle /\ tail' = tail
      /\ msg_sent' = msg_sent /\ complete_seg' = complete_seg
      /\ wire' = wire /\ completed' = completed /\ polled' = polled
      /\ sendbuff' = sendbuff /\ s_mr' = s_mr /\ r_mr' = r_mr /\ recvbuff' = recvbuff
      /\ pc' = "app" /\ Busy /\ ~Busy' /\ head = Segments(call)
  BY DEF Leave, nic, memory, Busy
<1>2. /\ call \in Nat /\ head \in Nat /\ middle \in Nat /\ tail \in Nat /\ sendbuff \in Nat
      /\ UserQ \in Seq(Ops) /\ Len(UserQ) \in Nat /\ Len(OutQ) \in Nat /\ Len(wire) \in Nat
      /\ UserDone \in Nat /\ OutDone \in Nat /\ InDone \in Nat /\ given["user"] \in Nat /\ given["h2d"] \in Nat
      /\ call \in 1..Len(Calls)
  BY <1>1, StateFacts DEF InOps, OutOps, UserOps, Types
<1>3. head = middle /\ middle = tail
  BY <1>1, <1>2 DEF Indices
<1>. DEFINE e == LastCopy
            more == <<WaitFor(e), Consume(call)>>
            a == UserQ \o more
            l == Len(UserQ)
<1>4. e \in Events /\ e.stream = "h2d" /\ e.after = given["h2d"]
  <2>1. "h2d" \in Stream
    BY DEF Stream
  <2>. QED
    BY <2>1, <1>2, OpTypes DEF Recorded, LastCopy
<1>. HIDE DEF e
<1>6. WaitFor(e).op = "wait" /\ WaitFor(e).event = e
  BY DEF WaitFor
<1>7. queue' = [queue EXCEPT !["user"] = a] /\ given' = [given EXCEPT !["user"] = given["user"] + 2]
  BY DEF Leave, UserQ, e
<1>. HIDE DEF more
<1>8. /\ a \in Seq(Ops) /\ Len(a) = l + 2 /\ (\A k \in 1..l : a[k] = UserQ[k])
      /\ a[l + 1] = WaitFor(e) /\ a[l + 2] = Consume(call)
      /\ \A k \in 1..Len(a) : k \in 1..l \/ k = l + 1 \/ k = l + 2
  <2>1. WaitFor(e) \in Ops /\ Consume(call) \in Ops
    BY <1>2, <1>4, OpTypes
  <2>. QED
    BY <2>1, <1>2, LongerByTwo DEF more
<1>. HIDE DEF a, l
<1>9. l = Len(UserQ) /\ l \in Nat
  BY <1>2 DEF l
<1>10. queue \in [Stream -> Seq(Ops)] /\ given \in [Stream -> Nat] /\ "user" \in Stream /\ "d2h" \in Stream /\ "h2d" \in Stream
  BY DEF Types, Stream
<1>11. queue' \in [Stream -> Seq(Ops)] /\ UserQ' = a /\ InQ' = InQ /\ OutQ' = OutQ
  BY <1>7, <1>8, <1>10 DEF UserQ, InQ, OutQ
<1>12. /\ given' \in [Stream -> Nat] /\ given'["user"] = given["user"] + 2
       /\ given'["d2h"] = given["d2h"] /\ given'["h2d"] = given["h2d"]
  BY <1>7, <1>10
<1>13. UserDone' = UserDone /\ InDone' = InDone /\ OutDone' = OutDone
  <2>1. UserDone' = (given["user"] + 2) - (l + 2)
    BY <1>8, <1>11, <1>12 DEF UserDone
  <2>2. UserDone = given["user"] - l
    BY <1>9 DEF UserDone
  <2>3. UserDone' = UserDone
    BY <2>1, <2>2, <1>2, <1>9
  <2>. QED
    BY <2>3, <1>11, <1>12 DEF InDone, OutDone
<1>14. Produced' <=> Produced
  BY <1>1, <1>13 DEF Produced
<1>. DEFINE zero == 0
<1>15. zero \in Slot /\ copy_event' = [copy_event EXCEPT ![zero] = e]
  BY Buffers DEF Slot, Leave, e
<1>. HIDE DEF zero
<1>16. /\ copy_event' \in [Slot -> Events] /\ copy_event'[zero] = e
       /\ \A j \in Slot : j # zero => copy_event'[j] = copy_event[j]
  BY <1>4, <1>15 DEF Types
<1>17. Types'
  BY <1>1, <1>11, <1>12, <1>16 DEF Types
<1>18. Indices'
  BY <1>1, <1>3 DEF Indices
<1>19. UserOps'
  <2>1. UserDone + l = 3 * call - 2
    BY <1>1, <1>9 DEF UserOps
  <2>2. ASSUME NEW k \in 1..Len(a) PROVE \E c \in 1..call : UserOp(a[k], UserDone + k, c, OutQ, OutDone)
    <3>0. call \in 1..call
      BY <1>2
    <3>1. CASE k \in 1..l
      BY <3>1, <1>8, <1>9 DEF UserOps
    <3>2. CASE k = l + 1
      <4>1. UserDone + k = 3 * call - 1
        BY <3>2, <2>1, <1>2, <1>9
      <4>2. a[k].op = "wait" /\ a[k].event = e
        BY <3>2, <1>6, <1>8
      <4>3. ASSUME NEW j \in 1..Len(OutQ) PROVE OutDone + j <= e.after
        BY <1>2, <1>4 DEF OutDone
      <4>. QED
        BY <3>0, <4>1, <4>2, <4>3, <1>4 DEF UserOp
    <3>3. CASE k = l + 2
      <4>1. UserDone + k = 3 * call
        BY <3>3, <2>1, <1>2, <1>9
      <4>. QED
        BY <3>0, <4>1, <3>3, <1>8 DEF UserOp
    <3>. QED
      BY <3>1, <3>2, <3>3, <1>8
  <2>3. UserDone + Len(a) = 3 * call
    BY <2>1, <1>2, <1>8, <1>9
  <2>. QED
    BY <2>2, <2>3, <1>1, <1>2, <1>11, <1>13 DEF UserOps
<1>20. InOps'
  <2>1. ASSUME NEW k \in 1..Len(InQ) PROVE InQ[k].op = "wait" /\ InQ[k].event.stream = "user"
    <3>1. ~ \E s \in middle..(tail - 1) : InQ[k] = CopyIn(call, s)
      BY <1>2, <1>3
    <3>. QED
      BY <3>1 DEF InOps
  <2>. QED
    BY <2>1, <1>1, <1>2, <1>11, <1>13 DEF InOps
<1>21. OutOps'
  BY <1>1, <1>11, <1>13 DEF OutOps
<1>22. BufferEvents'
  <2>1. ASSUME NEW j \in Slot PROVE copy_event'[j].after <= given'[copy_event'[j].stream]
    <3>1. CASE j = zero
      BY <3>1, <1>2, <1>4, <1>12, <1>16
    <3>2. CASE j # zero
      <4>1. copy_event[j].after <= given[copy_event[j].stream] /\ copy_event[j].stream \in Stream /\ copy_event[j].after \in Nat
        BY ElementFacts DEF BufferEvents
      <4>. DEFINE st == copy_event[j].stream
                  f == copy_event[j].after
      <4>2. copy_event'[j].after = f /\ copy_event'[j].stream = st
        BY <3>2, <1>16
      <4>. HIDE DEF st, f
      <4>3. f <= given[st] /\ st \in Stream /\ f \in Nat
        BY <4>1 DEF st, f
      <4>4. given[st] \in Nat /\ given'[st] \in Nat /\ given[st] <= given'[st]
        BY <4>3, <1>7, <1>10
      <4>5. f <= given'[st]
        BY <4>3, <4>4
      <4>. QED
        BY <4>2, <4>5
    <3>. QED
      BY <3>1, <3>2
  <2>. QED
    BY <2>1, <1>1 DEF BufferEvents
<1>23. NotProduced'
  <2>1. ASSUME NEW c \in 1..call, UserDone < 3 * c - 2 PROVE Segments(c) = 0
    <3>1. CASE c < call
      BY <2>1, <3>1 DEF NotProduced
    <3>2. CASE c = call
      <4>1. ~Produced
        BY <2>1, <3>2, <1>2 DEF Produced
      <4>2. middle = 0
        BY <4>1, <1>1 DEF NotProduced
      <4>. QED
        BY <4>2, <3>2, <1>1, <1>3
    <3>. QED
      BY <3>1, <3>2, <1>2
  <2>. QED
    BY <2>1, <1>1, <1>13 DEF NotProduced
<1>24. CopiedSegments' /\ ReceivedSums'
  BY <1>1 DEF CopiedSegments, ReceivedSums
<1>25. WireOrder'
  BY <1>1 DEF WireOrder
<1>26. SentMessages'
  <2>1. ASSUME NEW c \in 1..call, NEW s \in 0..(Segments(c) - 1), NEW m \in 1..Size(c, s) PROVE OnWire(wire, c, s, m)
    <3>1. CASE c < call
      BY <3>1 DEF SentMessages
    <3>2. CASE c = call
      BY <3>2, <1>1 DEF SentMessages
    <3>. QED
      BY <3>1, <3>2, <1>2
  <2>. QED
    BY <2>1, <1>1 DEF SentMessages
<1>27. PolledMessages'
  <2>1. ASSUME NEW q \in QP, NEW n \in 1..Len(wire) PROVE n <= polled[q]
    <3>1. polled[q] \in Nat
      BY ElementFacts
    <3>. SUFFICES ASSUME polled[q] < n PROVE FALSE
      BY <3>1, <1>2
    <3>2. head <= wire[n].seg /\ wire[n].seg < middle /\ wire[n].seg \in Nat
      BY NotPolled, ElementFacts
    <3>. QED
      BY <3>2, <1>2, <1>3
  <2>. QED
    BY <2>1, <1>1 DEF PolledMessages
<1>28. CopiedResults'
  <2>1. ASSUME UserDone \in {3 * sendbuff - 2, 3 * sendbuff - 1}, NEW s \in 0..(Segments(sendbuff) - 1)
        PROVE  recvbuff[s] = {<<sendbuff, s>>} \/ Pending(OutQ, CopyOut(sendbuff, s))
    <3>1. ~(sendbuff = call /\ s >= head)
      BY <1>1, <1>2
    <3>. QED
      BY <2>1, <3>1 DEF CopiedResults
  <2>. QED
    BY <2>1, <1>1, <1>11, <1>13 DEF CopiedResults
<1>. QED
  BY <1>17, <1>18, <1>19, <1>20, <1>21, <1>22, <1>23, <1>24, <1>25, <1>26, <1>27, <1>28

\* A sequence of one element put behind another one.
LEMMA ConcatOne ==
    ASSUME NEW ops \in Seq(Ops), NEW x \in Ops
    PROVE  ops \o <<x>> = Append(ops, x)
  OBVIOUS

\* A call begins.
LEMMA EnterStep ==
    ASSUME PInv, Enter
    PROVE  PInv'
<1>. USE DEF PInv
<1>1. /\ call' = call + 1 /\ head' = 0 /\ middle' = 0 /\ tail' = 0
      /\ msg_sent' = msg_sent /\ complete_seg' = complete_seg
      /\ wire' = wire /\ completed' = completed /\ polled' = polled
      /\ sendbuff' = sendbuff /\ s_mr' = s_mr /\ r_mr' = r_mr /\ recvbuff' = recvbuff
      /\ pc' = "tail" /\ ~Busy /\ Busy' /\ call < Len(Calls)
  BY DEF Enter, nic, memory, Busy
<1>2. /\ call \in Nat /\ head \in Nat /\ middle \in Nat /\ sendbuff \in Nat
      /\ UserQ \in Seq(Ops) /\ Len(UserQ) \in Nat /\ InQ \in Seq(Ops) /\ Len(InQ) \in Nat /\ Len(wire) \in Nat
      /\ UserDone \in Nat /\ OutDone \in Nat /\ InDone \in Nat
      /\ given["user"] \in Nat /\ given["d2h"] \in Nat /\ Len(Calls) \in Nat
  BY StateFacts, Sizes DEF InOps, OutOps, UserOps, Types
<1>3. call + 1 \in Nat /\ call + 1 \in 1..Len(Calls) /\ Segments(call + 1) \in Nat
  <2>1. call + 1 \in Nat /\ call + 1 \in 1..Len(Calls)
    BY <1>1, <1>2
  <2>. DEFINE c == call + 1
  <2>. HIDE DEF c
  <2>2. c \in 1..Len(Calls) => Segments(c) \in Nat
    BY Sizes
  <2>. QED
    BY <2>1, <2>2 DEF c
<1>4. \A q \in QP : complete_seg[q] = 0
  <2>. SUFFICES ASSUME NEW q \in QP PROVE complete_seg[q] = 0
    OBVIOUS
  <2>1. complete_seg[q] \in Nat /\ head + complete_seg[q] <= middle /\ head = middle
    BY <1>1, ElementFacts DEF Indices
  <2>. QED
    BY <2>1, <1>2
<1>. DEFINE e == Recorded("user", given["user"] + 1)
            o == Produce(call + 1)
            w == WaitFor(e)
<1>5. e \in Events /\ e.stream = "user" /\ e.after = given["user"] + 1
  <2>1. "user" \in Stream /\ given["user"] + 1 \in Nat
    BY <1>2 DEF Stream
  <2>. QED
    BY <2>1, OpTypes DEF Recorded
<1>6. /\ queue' = [queue EXCEPT !["user"] = Append(UserQ, o), !["d2h"] = InQ \o <<w>>]
      /\ given' = [given EXCEPT !["user"] = given["user"] + 1, !["d2h"] = given["d2h"] + 1]
      /\ copy_event' = [copy_event EXCEPT ![0] = e]
  BY <1>1 DEF Enter, BeforeCopyIn, UserQ, InQ
<1>. HIDE DEF e
<1>7. w \in Ops /\ w.op = "wait" /\ w.event = e
  BY <1>5, OpTypes DEF WaitFor
<1>8. o \in Ops
  BY <1>3, OpTypes
<1>. HIDE DEF o, w
<1>9. InQ \o <<w>> = Append(InQ, w)
  BY <1>2, <1>7, ConcatOne
<1>. DEFINE a == Append(UserQ, o)
            b == Append(InQ, w)
            l == Len(UserQ)
            m == Len(InQ)
<1>10. /\ a \in Seq(Ops) /\ Len(a) = l + 1 /\ a[l + 1] = o
       /\ \A k \in 1..l : a[k] = UserQ[k]
       /\ \A k \in 1..Len(a) : k \in 1..l \/ k = l + 1
  BY <1>2, <1>8, Longer
<1>11. /\ b \in Seq(Ops) /\ Len(b) = m + 1 /\ b[m + 1] = w /\ m + 1 \in 1..Len(b)
       /\ \A k \in 1..m : b[k] = InQ[k]
       /\ \A k \in 1..Len(b) : k \in 1..m \/ k = m + 1
  BY <1>2, <1>7, Longer
<1>12. queue' = [queue EXCEPT !["user"] = a, !["d2h"] = b]
  BY <1>6, <1>9
<1>13. l = Len(UserQ) /\ m = Len(InQ) /\ l \in Nat /\ m \in Nat
  BY <1>2
<1>. HIDE DEF a, b, l, m
<1>14. queue \in [Stream -> Seq(Ops)] /\ given \in [Stream -> Nat] /\ "user" \in Stream /\ "d2h" \in Stream /\ "h2d" \in Stream
  BY DEF Types, Stream
<1>15. queue' \in [Stream -> Seq(Ops)] /\ UserQ' = a /\ InQ' = b /\ OutQ' = OutQ
  BY <1>10, <1>11, <1>12, <1>14 DEF UserQ, InQ, OutQ
<1>16. /\ given' \in [Stream -> Nat] /\ given'["user"] = given["user"] + 1
       /\ given'["d2h"] = given["d2h"] + 1 /\ given'["h2d"] = given["h2d"]
  <2>1. PICK g : g = [given EXCEPT !["user"] = given["user"] + 1]
    OBVIOUS
  <2>2. g \in [Stream -> Nat] /\ g["user"] = given["user"] + 1 /\ g["d2h"] = given["d2h"] /\ g["h2d"] = given["h2d"]
    BY <2>1, <1>14
  <2>3. given' = [g EXCEPT !["d2h"] = given["d2h"] + 1]
    BY <2>1, <1>6
  <2>. QED
    BY <2>2, <2>3, <1>2, <1>14, SMTT(30)
<1>17. UserDone' = UserDone /\ InDone' = InDone /\ OutDone' = OutDone
  <2>1. UserDone' = (given["user"] + 1) - (l + 1) /\ UserDone = given["user"] - l
    BY <1>10, <1>13, <1>15, <1>16 DEF UserDone
  <2>2. InDone' = (given["d2h"] + 1) - (m + 1) /\ InDone = given["d2h"] - m
    BY <1>11, <1>13, <1>15, <1>16 DEF InDone
  <2>3. \A x, y \in Nat : (x + 1) - (y + 1) = x - y
    OBVIOUS
  <2>4. UserDone' = UserDone /\ InDone' = InDone
    BY <2>1, <2>2, <2>3, <1>2, <1>13
  <2>. QED
    BY <2>4, <1>15, <1>16 DEF OutDone
<1>18. UserDone + l = 3 * call /\ given["user"] + 1 = 3 * call + 1 /\ UserDone <= 3 * call
  BY <1>1, <1>2, <1>13 DEF UserOps, UserDone
<1>19. sendbuff <= call /\ sendbuff # call + 1
  <2>1. sendbuff <= call
    BY AtCall
  <2>. QED
    BY <2>1, <1>2
<1>20. \A n \in 1..Len(wire) : wire[n].call \in Nat /\ wire[n].call <= call /\ wire[n].call # call + 1 /\ wire[n].call <= call + 1
  <2>1. \A n \in 1..Len(wire) : wire[n].call \in Nat /\ wire[n].call <= call
    BY ElementFacts DEF WireOrder
  <2>. QED
    BY <2>1, <1>2
<1>21. 3 * (call + 1) - 2 = 3 * call + 1
  BY <1>2
<1>. DEFINE zero == 0
<1>22. zero \in Slot /\ copy_event' = [copy_event EXCEPT ![zero] = e]
  BY <1>6, Buffers DEF Slot
<1>. HIDE DEF zero
<1>23. /\ copy_event' \in [Slot -> Events] /\ copy_event'[zero] = e
       /\ \A j \in Slot : j # zero => copy_event'[j] = copy_event[j]
  BY <1>5, <1>22 DEF Types
<1>24. Types'
  <2>1. call' \in 0..Len(Calls) /\ call' > 0
    BY <1>1, <1>2
  <2>. QED
    BY <2>1, <1>1, <1>15, <1>16, <1>23 DEF Types
<1>25. Indices'
  <2>1. /\ head' <= middle' /\ middle' <= tail' /\ tail' <= head' + QueueSize
    BY <1>1, Buffers
  <2>2. tail' <= Segments(call')
    BY <1>1, <1>3
  <2>3. \A q \in QP : head' + complete_seg'[q] <= middle'
    BY <1>1, <1>4
  <2>. QED
    BY <2>1, <2>2, <2>3, <1>1 DEF Indices
<1>26. UserOps'
  <2>1. ASSUME NEW k \in 1..Len(a) PROVE \E c \in 1..(call + 1) : UserOp(a[k], UserDone + k, c, OutQ, OutDone)
    <3>1. CASE k \in 1..l
      <4>1. PICK c \in 1..call : UserOp(UserQ[k], UserDone + k, c, OutQ, OutDone)
        BY <3>1, <1>13 DEF UserOps
      <4>2. c \in 1..(call + 1)
        BY <1>2
      <4>. QED
        BY <4>1, <4>2, <3>1, <1>10
    <3>2. CASE k = l + 1
      <4>. DEFINE c == call + 1
      <4>1. c \in 1..(call + 1)
        BY <1>2
      <4>2. UserDone + k = 3 * c - 2
        BY <3>2, <1>2, <1>13, <1>18
      <4>3. a[k] = Produce(c)
        BY <3>2, <1>10 DEF o
      <4>. HIDE DEF c
      <4>4. UserOp(a[k], UserDone + k, c, OutQ, OutDone)
        BY <4>2, <4>3 DEF UserOp
      <4>. QED
        BY <4>1, <4>4
    <3>. QED
      BY <3>1, <3>2, <1>10
  <2>2. UserDone + Len(a) = 3 * (call + 1) - 2
    BY <1>2, <1>10, <1>13, <1>18
  <2>. QED
    BY <2>1, <2>2, <1>1, <1>2, <1>15, <1>17 DEF UserOps
<1>27. InOps'
  <2>. DEFINE x == 3 * (call + 1) - 2
  <2>1. ASSUME NEW k \in 1..Len(b) PROVE b[k].op = "wait" /\ b[k].event.stream = "user"
    <3>1. CASE k \in 1..m
      <4>1. InQ[k].op = "wait" /\ InQ[k].event.stream = "user"
        BY <3>1, <1>1, <1>13 DEF InOps
      <4>. QED
        BY <4>1, <3>1, <1>11
    <3>2. CASE k = m + 1
      BY <3>2, <1>5, <1>7, <1>11
    <3>. QED
      BY <3>1, <3>2, <1>11
  <2>2. w.event.after >= x
    BY <1>2, <1>5, <1>7, <1>18, <1>21
  <2>. HIDE DEF x
  <2>3. WaitsFor(b, Len(b), x)
    BY <2>2, <1>7, <1>11 DEF WaitsFor
  <2>4. WaitsFor(InQ', Len(InQ'), 3 * call' - 2)
    BY <2>3, <1>1, <1>15 DEF x
  <2>. QED
    BY <2>1, <2>4, <1>2, <1>15, <1>17 DEF InOps
<1>28. OutOps'
  <2>1. ASSUME NEW k \in 1..Len(OutQ)
        PROVE  /\ UserDone = 3 * sendbuff - 2
               /\ \E s \in 0..(Segments(sendbuff) - 1) : OutQ[k] = CopyOut(sendbuff, s) /\ Holds(r_mr, sendbuff, s)
    BY DEF OutOps
  <2>2. sendbuff' # call'
    BY <1>1, <1>19
  <2>. QED
    BY <2>1, <2>2, <1>1, <1>2, <1>15, <1>17 DEF OutOps
<1>29. BufferEvents'
  <2>1. ASSUME NEW j \in Slot PROVE copy_event'[j].after <= given'[copy_event'[j].stream]
    <3>1. CASE j = zero
      BY <3>1, <1>2, <1>5, <1>16, <1>23
    <3>2. CASE j # zero
      <4>1. copy_event[j].after <= given[copy_event[j].stream] /\ copy_event[j].stream \in Stream /\ copy_event[j].after \in Nat
        BY ElementFacts DEF BufferEvents
      <4>. DEFINE st == copy_event[j].stream
                  f == copy_event[j].after
      <4>2. copy_event'[j].after = f /\ copy_event'[j].stream = st
        BY <3>2, <1>23
      <4>. HIDE DEF st, f
      <4>3. f <= given[st] /\ st \in Stream /\ f \in Nat
        BY <4>1 DEF st, f
      <4>4. given[st] \in Nat /\ given'[st] \in Nat /\ given[st] <= given'[st]
        BY <4>3, <1>14, <1>16 DEF Stream
      <4>5. f <= given'[st]
        BY <4>3, <4>4
      <4>. QED
        BY <4>2, <4>5
    <3>. QED
      BY <3>1, <3>2
  <2>2. ASSUME NEW s \in middle'..(tail' - 1) PROVE FALSE
    BY <1>1
  <2>3. ASSUME NEW s \in 0..(head' - 1) PROVE FALSE
    BY <1>1
  <2>. QED
    BY <2>1, <2>2, <2>3 DEF BufferEvents
<1>30. NotProduced'
  <2>1. ASSUME NEW c \in 1..(call + 1), UserDone < 3 * c - 2, c < call + 1 PROVE Segments(c) = 0
    <3>1. c \in 1..call
      BY <2>1, <1>2
    <3>. QED
      BY <2>1, <3>1, <1>1 DEF NotProduced
  <2>. QED
    BY <2>1, <1>1, <1>17 DEF NotProduced
<1>31. CopiedSegments'
  <2>1. ASSUME NEW s \in head'..(tail' - 1) PROVE FALSE
    BY <1>1
  <2>. QED
    BY <2>1 DEF CopiedSegments
<1>32. WireOrder'
  BY <1>1, <1>20 DEF WireOrder
<1>33. SentMessages'
  <2>1. ASSUME NEW c \in 1..(call + 1), c < call + 1, NEW s \in 0..(Segments(c) - 1), NEW n \in 1..Size(c, s)
        PROVE  OnWire(wire, c, s, n)
    <3>1. c \in 1..call
      BY <2>1, <1>2
    <3>. QED
      BY <3>1, <1>1 DEF SentMessages
  <2>2. ASSUME NEW s \in 0..(head' - 1) PROVE FALSE
    BY <1>1
  <2>3. ASSUME NEW s \in head'..(middle' - 1) PROVE FALSE
    BY <1>1
  <2>. QED
    BY <2>1, <2>2, <2>3, <1>1 DEF SentMessages
<1>34. PolledMessages'
  <2>1. ASSUME NEW q \in QP
        PROVE  /\ polled[q] <= completed[q] /\ completed[q] <= Len(wire)
               /\ \A n \in 1..Len(wire) : n <= polled[q]
               /\ PolledUpTo(wire, call + 1, polled[q], 0)
               /\ SentUpTo(wire, call + 1, 0)
    <3>1. /\ polled[q] <= completed[q] /\ completed[q] <= Len(wire)
          /\ \A n \in 1..Len(wire) : n <= polled[q]
      BY <1>1 DEF PolledMessages
    <3>2. PolledUpTo(wire, call + 1, polled[q], 0)
      BY <1>20 DEF PolledUpTo
    <3>3. SentUpTo(wire, call + 1, 0)
      <4>1. ASSUME NEW s \in 0..(0 - 1) PROVE FALSE
        OBVIOUS
      <4>. QED
        BY <4>1 DEF SentUpTo
    <3>. QED
      BY <3>1, <3>2, <3>3
  <2>2. \A q \in QP : head' + complete_seg'[q] = 0
    BY <1>1, <1>4
  <2>. QED
    BY <2>1, <2>2, <1>1 DEF PolledMessages
<1>35. ReceivedSums'
  <2>1. ASSUME NEW q \in QP, NEW n \in 1..completed[q] PROVE wire[n].call # call + 1
    <3>1. completed[q] \in Nat /\ completed[q] <= Len(wire)
      BY ElementFacts DEF PolledMessages
    <3>2. n \in 1..Len(wire)
      BY <3>1, <1>2
    <3>. QED
      BY <3>2, <1>20
  <2>. QED
    BY <2>1, <1>1 DEF ReceivedSums
<1>36. CopiedResults'
  BY <1>1, <1>15, <1>17 DEF CopiedResults
<1>. QED
  BY <1>24, <1>25, <1>26, <1>27, <1>28, <1>29, <1>30, <1>31, <1>32, <1>33, <1>34, <1>35, <1>36

-----------------------------------------------------------------------------
(* The invariant. *)

LEMMA PInvInit == Init => PInv
<1>. SUFFICES ASSUME Init PROVE PInv
  OBVIOUS
<1>. USE DEF Init
<1>1. "user" \in Stream /\ "d2h" \in Stream /\ "h2d" \in Stream
  BY DEF Stream
<1>2. UserQ = << >> /\ InQ = << >> /\ OutQ = << >> /\ ~Busy
  BY <1>1 DEF UserQ, InQ, OutQ, Busy
<1>3. Len(UserQ) = 0 /\ Len(InQ) = 0 /\ Len(OutQ) = 0 /\ Len(wire) = 0
  BY <1>2
<1>4. given["user"] = 0 /\ given["d2h"] = 0 /\ given["h2d"] = 0
  BY <1>1
<1>5. UserDone = 0 /\ InDone = 0 /\ OutDone = 0
  BY <1>3, <1>4 DEF UserDone, InDone, OutDone
<1>6. Types
  <2>1. MaxMessages \in Nat /\ MaxSegments \in Nat /\ Len(Calls) \in Nat
    BY Sizes
  <2>2. Nothing \in Nat \X Nat
    BY DEF Nothing
  <2>3. pc \in {"app", "tail", "middle", "head", "post"} /\ call \in 0..Len(Calls) /\ ~Busy
    BY <2>1, <1>2
  <2>4. head \in Nat /\ middle \in Nat /\ tail \in Nat /\ sendbuff \in Nat
    OBVIOUS
  <2>5. msg_sent \in [Slot -> 0..MaxMessages]
    BY <2>1
  <2>6. complete_seg \in [QP -> Nat] /\ completed \in [QP -> Nat] /\ polled \in [QP -> Nat] /\ given \in [Stream -> Nat]
    OBVIOUS
  <2>7. wire \in Seq(WireMessages)
    OBVIOUS
  <2>8. queue \in [Stream -> Seq(Ops)]
    OBVIOUS
  <2>9. copy_event \in [Slot -> Events]
    <3>1. [stream |-> "user", after |-> 0] \in Events
      BY <1>1 DEF Events
    <3>. QED
      BY <3>1
  <2>10. s_mr \in [Slot -> Nat \X Nat]
    BY <2>2
  <2>11. r_mr \in [Slot -> [1..MaxMessages -> [QP -> Nat \X Nat]]]
    BY <2>2
  <2>12. recvbuff \in [0..(MaxSegments - 1) -> SUBSET (Nat \X Nat)]
    OBVIOUS
  <2>. QED
    BY <2>3, <2>4, <2>5, <2>6, <2>7, <2>8, <2>9, <2>10, <2>11, <2>12 DEF Types
<1>7. Indices
  BY <1>2, Buffers DEF Indices
<1>8. UserOps
  BY <1>2, <1>3, <1>5 DEF UserOps
<1>9. InOps /\ OutOps
  BY <1>2, <1>3, <1>5 DEF InOps, OutOps
<1>10. BufferEvents
  BY <1>2, <1>4 DEF BufferEvents
<1>11. NotProduced
  BY <1>2 DEF NotProduced
<1>12. CopiedSegments /\ ReceivedSums
  BY <1>2 DEF CopiedSegments, ReceivedSums
<1>13. WireOrder
  BY <1>3 DEF WireOrder
<1>14. SentMessages
  BY <1>2 DEF SentMessages
<1>15. PolledMessages
  BY <1>2, <1>3 DEF PolledMessages
<1>16. CopiedResults
  BY <1>5 DEF CopiedResults
<1>. QED
  BY <1>6, <1>7, <1>8, <1>9, <1>10, <1>11, <1>12, <1>13, <1>14, <1>15, <1>16 DEF PInv

LEMMA PInvStep == PInv /\ [Next]_vars => PInv'
<1>. SUFFICES ASSUME PInv, [Next]_vars PROVE PInv'
  OBVIOUS
<1>1. CASE Enter
  BY <1>1, EnterStep
<1>2. CASE StepTail \/ StepMiddle \/ StepHead
  BY <1>2, LoopStep
<1>3. CASE StepPost
  BY <1>3, PostStep
<1>4. CASE Leave
  BY <1>4, LeaveStep
<1>5. ASSUME NEW s \in Stream, Run(s) PROVE PInv'
  <2>1. CASE s = "user"
    BY <1>5, <2>1, UserStep
  <2>2. CASE s = "d2h"
    BY <1>5, <2>2, InStep
  <2>3. CASE s = "h2d"
    BY <1>5, <2>3, OutStep
  <2>. QED
    BY <2>1, <2>2, <2>3 DEF Stream
<1>6. ASSUME NEW q \in QP, Complete(q) PROVE PInv'
  BY <1>6, CompleteStep
<1>7. CASE UNCHANGED vars
  <2>1. pc \in {"app", "tail", "middle", "head", "post"}
    BY DEF PInv, Types
  <2>2. Idle
    BY <1>7, <2>1 DEF vars, Idle, Busy
  <2>. QED
    BY <2>2, IdleStep
<1>. QED
  BY <1>1, <1>2, <1>3, <1>4, <1>5, <1>6, <1>7 DEF Next, Host

\* What the host, the streams and the network card of incAllReduce have done
\* and have still to do agree at all times: the operations of the streams, the
\* events of the buffers, the messages sent, completed and polled, and what is
\* in the buffers.
THEOREM PipelineInvariance == Spec => []PInv
<1>1. Init => PInv
  BY PInvInit
<1>2. PInv /\ [Next]_vars => PInv'
  BY PInvStep
<1>. QED
  BY <1>1, <1>2, PTL DEF Spec

-----------------------------------------------------------------------------
(* What the invariant says of the buffers and of the results. *)

\* A message in flight is of the current call and of a segment being sent,
\* which is in its send buffer.
LEMMA InFlightIsSent ==
    ASSUME PInv, NEW n \in 1..Len(wire), InFlight(n)
    PROVE  /\ Busy /\ wire[n].call = call /\ wire[n].seg \in head..(middle - 1) /\ wire[n].seg \in head..(tail - 1)
           /\ s_mr[wire[n].seg % QueueSize] = <<call, wire[n].seg>> /\ sendbuff = call
<1>. USE DEF PInv
<1>1. PICK q \in QP : completed[q] < n
  BY DEF InFlight
<1>2. /\ completed[q] \in Nat /\ polled[q] \in Nat /\ polled[q] <= completed[q] /\ n \in Nat
      /\ head \in Nat /\ middle \in Nat /\ tail \in Nat /\ middle <= tail /\ wire[n].seg \in Nat
  BY ElementFacts, StateFacts, SMTT(30) DEF PolledMessages, Indices
<1>3. polled[q] < n
  BY <1>1, <1>2
<1>4. Busy /\ wire[n].call = call /\ head <= wire[n].seg /\ wire[n].seg < middle
  BY <1>3, NotPolled
<1>5. wire[n].seg \in head..(middle - 1) /\ wire[n].seg \in head..(tail - 1)
  BY <1>2, <1>4
<1>. DEFINE s == wire[n].seg
<1>6. s \in head..(middle - 1)
  BY <1>5
<1>. HIDE DEF s
<1>7. s_mr[s % QueueSize] = <<call, s>> /\ sendbuff = call
  BY <1>4, <1>6, Released
<1>. QED
  BY <1>4, <1>5, <1>7 DEF s

\* The host loop keeps its three indices in order and no further apart than
\* SEGMENT_QUEUE_SIZE, counts no more completed segments than that, and no
\* event is recorded behind what its stream has been given.
LEMMA TypeOKHolds == PInv => TypeOK
<1>. SUFFICES ASSUME PInv PROVE TypeOK
  OBVIOUS
<1>. USE DEF PInv
<1>1. /\ head \in Nat /\ middle \in Nat /\ tail \in Nat /\ QueueSize \in Nat
      /\ head <= middle /\ middle <= tail /\ tail <= head + QueueSize
  BY StateFacts, Buffers DEF Indices
<1>2. 0 <= head /\ head <= middle /\ middle <= tail /\ tail - head <= QueueSize
  BY <1>1
<1>3. ASSUME NEW q \in QP PROVE complete_seg[q] \in 0..QueueSize
  <2>1. complete_seg[q] \in Nat /\ head + complete_seg[q] <= middle
    BY ElementFacts DEF Indices
  <2>. QED
    BY <2>1, <1>1
<1>4. complete_seg \in [QP -> 0..QueueSize]
  <2>1. complete_seg = [q \in QP |-> complete_seg[q]]
    BY DEF Types
  <2>. QED
    BY <2>1, <1>3
<1>5. \A q \in QP : polled[q] <= completed[q] /\ completed[q] <= Len(wire)
  BY DEF PolledMessages
<1>6. \A i \in Slot : copy_event[i].after <= given[copy_event[i].stream]
  BY DEF BufferEvents
<1>. QED
  BY <1>2, <1>4, <1>5, <1>6 DEF TypeOK, Types

LEMMA SendBufferKeptHolds == PInv => SendBufferKept
<1>. SUFFICES ASSUME PInv, NEW n \in DOMAIN wire, InFlight(n)
              PROVE  /\ s_mr[wire[n].seg % QueueSize] = <<wire[n].call, wire[n].seg>>
                     /\ \A k \in DOMAIN InQ : InQ[k].op = "in" => InQ[k].seg % QueueSize # wire[n].seg % QueueSize
  BY DEF SendBufferKept, InQ
<1>1. wire \in Seq(WireMessages) /\ InQ \in Seq(Ops) /\ middle \in Nat /\ tail \in Nat /\ head \in Nat /\ head <= middle
  BY StateFacts DEF PInv, Indices
<1>2. n \in 1..Len(wire)
  BY <1>1
<1>. DEFINE t == wire[n].seg
<1>3. /\ Busy /\ wire[n].call = call /\ t \in head..(middle - 1) /\ t \in head..(tail - 1)
      /\ s_mr[t % QueueSize] = <<call, t>>
  BY <1>2, InFlightIsSent
<1>4. ASSUME NEW k \in DOMAIN InQ, InQ[k].op = "in" PROVE InQ[k].seg % QueueSize # t % QueueSize
  <2>1. k \in 1..Len(InQ)
    BY <1>1
  <2>2. \/ InQ[k].op = "wait"
        \/ \E s \in middle..(tail - 1) : InQ[k] = CopyIn(call, s)
    BY <2>1 DEF PInv, InOps
  <2>3. PICK s \in middle..(tail - 1) : InQ[k] = CopyIn(call, s)
    BY <1>4, <2>2
  <2>4. InQ[k].seg = s
    BY <2>3 DEF CopyIn
  <2>. HIDE DEF t
  <2>5. s \in head..(tail - 1) /\ s # t
    BY <1>1, <1>3
  <2>6. s % QueueSize # t % QueueSize
    BY <2>5, <1>3, RingSlots DEF PInv
  <2>. QED
    BY <2>4, <2>6
<1>. QED
  BY <1>3, <1>4

LEMMA ReceiveBufferKeptHolds == PInv => ReceiveBufferKept
<1>. SUFFICES ASSUME PInv, NEW k \in DOMAIN OutQ, OutQ[k].op = "out", NEW n \in DOMAIN wire, InFlight(n)
              PROVE  wire[n].seg % QueueSize # OutQ[k].seg % QueueSize
  BY DEF ReceiveBufferKept, OutQ
<1>1. wire \in Seq(WireMessages) /\ OutQ \in Seq(Ops)
  BY StateFacts DEF PInv
<1>2. n \in 1..Len(wire) /\ k \in 1..Len(OutQ)
  BY <1>1
<1>. DEFINE t == wire[n].seg
<1>3. Busy /\ sendbuff = call /\ t \in head..(tail - 1)
  BY <1>2, InFlightIsSent
<1>4. PICK s \in 0..(Segments(sendbuff) - 1) :
          /\ OutQ[k] = CopyOut(sendbuff, s)
          /\ sendbuff = call => s < head
          /\ Busy /\ sendbuff = call => tail <= s + QueueSize
  BY <1>2 DEF PInv, OutOps
<1>5. OutQ[k].seg = s /\ s \in Nat
  <2>1. OutQ[k].seg = s
    BY <1>4 DEF CopyOut
  <2>2. s \in Nat
    OBVIOUS
  <2>. QED
    BY <2>1, <2>2
<1>. HIDE DEF t
<1>6. s % QueueSize # t % QueueSize
  BY <1>3, <1>4, <1>5, OutSlots DEF PInv
<1>. QED
  BY <1>5, <1>6 DEF t

\* No buffer of incAllReduce is used for two segments at once: while a message
\* is in flight nothing is copied into its send buffer (cudaMemcpyAsync on
\* d2h_stream), and no result is being copied out of a receive buffer that the
\* network card may write to, whatever the call it is of.
THEOREM BuffersNeverShared == Spec => []BuffersKept
<1>1. PInv => BuffersKept
  BY TypeOKHolds, SendBufferKeptHolds, ReceiveBufferKeptHolds DEF BuffersKept
<1>. QED
  BY <1>1, PipelineInvariance, PTL

LEMMA ResultExactHolds == PInv => ResultExact
<1>. SUFFICES ASSUME PInv, UserQ # << >>, Head(UserQ).op = "consume",
                     NEW s \in 0..(Segments(Head(UserQ).call) - 1)
              PROVE  recvbuff[s] = {<<Head(UserQ).call, s>>}
  BY DEF ResultExact, UserQ
<1>. USE DEF PInv
<1>. DEFINE o == Head(UserQ)
<1>1. UserQ \in Seq(Ops) /\ o = UserQ[1] /\ 1 \in 1..Len(UserQ)
  <2>1. UserQ \in Seq(Ops)
    BY StateFacts
  <2>. QED
    BY <2>1, TailAt
<1>2. PICK c \in 1..call : UserOp(o, UserDone + 1, c, OutQ, OutDone)
  BY <1>1 DEF UserOps
<1>3. o.op = "consume"
  OBVIOUS
<1>. HIDE DEF o
<1>4. UserDone + 1 = 3 * c /\ o = Consume(c)
  <2>1. o # Produce(c)
    BY <1>3 DEF Produce
  <2>. QED
    BY <2>1, <1>2, <1>3 DEF UserOp
<1>5. o.call = c
  BY <1>4 DEF Consume
<1>6. /\ c \in Nat /\ sendbuff \in Nat /\ UserDone \in Int /\ call \in Nat /\ Len(UserQ) \in Nat /\ Len(UserQ) >= 1
      /\ 3 * sendbuff - 2 <= UserDone /\ UserDone <= 3 * sendbuff
  BY <1>1, StateFacts DEF UserOps
<1>7. sendbuff = c /\ UserDone = 3 * sendbuff - 1
  BY <1>4, <1>6
<1>8. s \in 0..(Segments(sendbuff) - 1)
  BY <1>5, <1>7 DEF o
<1>9. ~Pending(OutQ, CopyOut(sendbuff, s))
  <2>1. SUFFICES ASSUME NEW k \in 1..Len(OutQ) PROVE FALSE
    BY DEF Pending
  <2>2. UserDone = 3 * sendbuff - 2
    BY DEF OutOps
  <2>. QED
    BY <2>2, <1>6, <1>7
<1>10. ~(sendbuff = call /\ Busy)
  <2>1. SUFFICES ASSUME sendbuff = call, Busy PROVE FALSE
    OBVIOUS
  <2>2. UserDone + Len(UserQ) = 3 * call - 2
    BY <2>1 DEF UserOps
  <2>. QED
    BY <2>1, <2>2, <1>6, <1>7
<1>11. recvbuff[s] = {<<sendbuff, s>>}
  BY <1>7, <1>8, <1>9, <1>10 DEF CopiedResults
<1>. QED
  BY <1>5, <1>7, <1>11 DEF o

\* The user's stream comes to the work after incAllReduce only when every
\* segment of the user's buffer holds the sums of that segment of that call,
\* although the host waits for nothing and the calls follow each other.
THEOREM ResultsCopiedExactly == Spec => []ResultExact
<1>1. PInv => ResultExact
  BY ResultExactHolds
<1>. QED
  BY <1>1, PipelineInvariance, PTL

\* The messages of the calls.
LEMMA MessageParts ==
    /\ \A c \in 1..Len(Calls) : \A s \in 0..(Segments(c) - 1) : \A m \in 1..Size(c, s) : <<c, s, m>> \in Messages
    /\ \A x \in Messages : \E c \in 1..Len(Calls) : \E s \in 0..(Segments(c) - 1) : \E m \in 1..Size(c, s) : x = <<c, s, m>>
<1>1. DOMAIN Calls = 1..Len(Calls) /\ \A c \in 1..Len(Calls) : Segments(c) \in Nat /\ DOMAIN Calls[c] = 1..Segments(c)
  BY PipelineAssumption DEF Segments
<1>2. ASSUME NEW c \in 1..Len(Calls), NEW s \in 0..(Segments(c) - 1), NEW m \in 1..Size(c, s) PROVE <<c, s, m>> \in Messages
  <2>. DEFINE t == s + 1
  <2>1. t \in DOMAIN Calls[c] /\ s = t - 1
    BY <1>1
  <2>2. m \in 1..Calls[c][t]
    BY DEF Size
  <2>. HIDE DEF t
  <2>3. <<c, s, m>> \in {<<c, t - 1, k>> : k \in 1..Calls[c][t]}
    BY <2>1, <2>2
  <2>4. <<c, s, m>> \in UNION {{<<c, u - 1, k>> : k \in 1..Calls[c][u]} : u \in DOMAIN Calls[c]}
    BY <2>1, <2>3
  <2>. QED
    BY <2>4, <1>1 DEF Messages
<1>3. ASSUME NEW x \in Messages
      PROVE  \E c \in 1..Len(Calls) : \E s \in 0..(Segments(c) - 1) : \E m \in 1..Size(c, s) : x = <<c, s, m>>
  <2>1. PICK c \in 1..Len(Calls) : x \in UNION {{<<c, u - 1, k>> : k \in 1..Calls[c][u]} : u \in DOMAIN Calls[c]}
    BY <1>1 DEF Messages
  <2>2. PICK u \in DOMAIN Calls[c] : x \in {<<c, u - 1, k>> : k \in 1..Calls[c][u]}
    BY <2>1
  <2>3. PICK m \in 1..Calls[c][u] : x = <<c, u - 1, m>>
    BY <2>2
  <2>. DEFINE s == u - 1
  <2>4. s \in 0..(Segments(c) - 1) /\ u = s + 1 /\ x = <<c, s, m>>
    BY <1>1, <2>3
  <2>. HIDE DEF s
  <2>5. m \in 1..Size(c, s)
    BY <2>4 DEF Size
  <2>. QED
    BY <2>4, <2>5
<1>. QED
  BY <1>2, <1>3

\* When a message has been sent, so have those before it.
LEMMA SentBefore ==
    ASSUME PInv, NEW n \in 1..Len(wire),
           NEW c \in 1..Len(Calls), NEW s \in 0..(Segments(c) - 1), NEW m \in 1..Size(c, s),
           \/ c < wire[n].call
           \/ c = wire[n].call /\ s < wire[n].seg
           \/ c = wire[n].call /\ s = wire[n].seg /\ m <= wire[n].msg
    PROVE  OnWire(wire, c, s, m)
<1>. USE DEF PInv
<1>. DEFINE t == wire[n].seg
            z == Size(c, s)
<1>1. /\ call \in Nat /\ head \in Nat /\ middle \in Nat /\ tail \in Nat /\ middle <= tail /\ Len(Calls) \in Nat
      /\ wire[n].call \in Nat /\ wire[n].call <= call /\ t \in Nat /\ wire[n].msg \in Nat /\ 1 <= wire[n].msg
  BY StateFacts, OfTheCalls, Sizes DEF Indices
<1>2. c \in Nat /\ c <= call /\ c \in 1..call /\ Segments(c) \in Nat /\ s \in Nat /\ z \in Nat /\ m \in Nat
  <2>1. Segments(c) \in Nat /\ z \in Nat
    BY Sizes
  <2>. HIDE DEF z
  <2>2. c \in Nat /\ c <= call /\ s \in Nat
    BY <2>1, <1>1
  <2>3. m \in Nat
    BY <2>1 DEF z
  <2>. QED
    BY <2>1, <2>2, <2>3, <1>1
<1>3. CASE c < call \/ ~Busy
  BY <1>2, <1>3 DEF SentMessages
<1>4. CASE c = call /\ Busy
  <2>1. wire[n].call = call /\ (s < t \/ (s = t /\ m <= wire[n].msg))
    BY <1>1, <1>2, <1>4
  <2>2. t < middle /\ (t >= head => wire[n].msg <= msg_sent[t % QueueSize])
    BY <2>1, <1>4 DEF WireOrder
  <2>3. CASE s < head
    <3>1. s \in 0..(head - 1)
      BY <2>3, <1>1, <1>2
    <3>. QED
      BY <3>1, <1>4 DEF SentMessages
  <2>4. CASE s >= head
    <3>1. s \in head..(middle - 1) /\ t >= head /\ t \in head..(middle - 1) /\ s % QueueSize \in Slot /\ t % QueueSize \in Slot
      <4>1. s \in head..(middle - 1) /\ t >= head /\ t \in head..(middle - 1)
        BY <2>1, <2>2, <2>4, <1>1, <1>2, SMTT(30)
      <4>. HIDE DEF t
      <4>2. s \in Nat /\ t \in Nat
        BY <1>1, <1>2
      <4>. QED
        BY <4>1, <4>2, Buffers
    <3>. DEFINE ms == msg_sent[s % QueueSize]
                mt == msg_sent[t % QueueSize]
    <3>2. ms \in Nat /\ mt \in Nat
      BY <3>1, ElementFacts
    <3>3. \A k \in 1..ms : OnWire(wire, call, s, k)
      BY <3>1, <1>4 DEF SentMessages
    <3>4. wire[n].msg <= mt
      BY <2>2, <3>1
    <3>5. CASE s = t
      <4>1. m <= wire[n].msg /\ mt = ms
        BY <2>1, <3>5, <1>1, <1>2
      <4>. HIDE DEF ms, mt
      <4>2. m \in 1..ms
        BY <4>1, <3>2, <3>4, <1>1, <1>2
      <4>. QED
        BY <4>2, <3>3, <1>4
    <3>6. CASE s < t
      <4>1. t \in (s + 1)..(middle - 1) /\ mt > 0
        BY <3>6, <3>2, <3>4, <2>2, <1>1, <1>2, SMTT(30)
      <4>2. ms = z
        BY <4>1, <3>1, <1>4 DEF SentMessages
      <4>3. m \in 1..ms
        BY <4>2
      <4>. HIDE DEF ms
      <4>. QED
        BY <4>3, <3>3, <1>4
    <3>. QED
      BY <3>5, <3>6, <2>1
  <2>. QED
    BY <2>3, <2>4, <1>1, <1>2
<1>. QED
  BY <1>1, <1>2, <1>3, <1>4

LEMMA SameNumberSamePieceHolds == PInv => SameNumberSamePiece
<1>. SUFFICES ASSUME PInv, NEW n \in DOMAIN wire
              PROVE  LET w == <<wire[n].call, wire[n].seg, wire[n].msg>>
                     IN  w \in Messages /\ n = Cardinality({x \in Messages : NotAfter(x, w)})
  BY DEF SameNumberSamePiece
<1>. USE DEF PInv
<1>. DEFINE M(k) == <<wire[k].call, wire[k].seg, wire[k].msg>>
            S == {x \in Messages : NotAfter(x, M(n))}
            f == [k \in 1..n |-> M(k)]
<1>1. wire \in Seq(WireMessages) /\ Len(wire) \in Nat
  BY StateFacts
<1>2. n \in 1..Len(wire) /\ n \in Nat /\ \A k \in 1..n : k \in 1..Len(wire) /\ k \in Nat /\ k <= n
  BY <1>1
<1>3. ASSUME NEW k \in 1..Len(wire)
      PROVE  /\ wire[k].call \in Nat /\ wire[k].seg \in Nat /\ wire[k].msg \in Nat /\ M(k) \in Messages
             /\ M(k)[1] = wire[k].call /\ M(k)[2] = wire[k].seg /\ M(k)[3] = wire[k].msg
  <2>1. Proper(wire[k]) /\ wire[k].call \in Nat /\ wire[k].seg \in Nat /\ wire[k].msg \in Nat
    BY ElementFacts DEF WireOrder
  <2>2. /\ wire[k].call \in 1..Len(Calls) /\ wire[k].seg \in 0..(Segments(wire[k].call) - 1)
        /\ wire[k].msg \in 1..Size(wire[k].call, wire[k].seg)
    BY <2>1 DEF Proper
  <2>3. M(k) \in Messages
    BY <2>2, MessageParts
  <2>. QED
    BY <2>1, <2>3
<1>4. ASSUME NEW k \in 1..n PROVE NotAfter(M(k), M(n))
  <2>1. k \in 1..Len(wire) /\ (k < n \/ k = n)
    BY <1>2
  <2>2. k < n => Before(wire[k], wire[n])
    BY <1>2, <2>1 DEF WireOrder
  <2>. DEFINE a == wire[k]
              b == wire[n]
  <2>3. /\ M(k)[1] = a.call /\ M(k)[2] = a.seg /\ M(k)[3] = a.msg
        /\ M(n)[1] = b.call /\ M(n)[2] = b.seg /\ M(n)[3] = b.msg
    OBVIOUS
  <2>4. a.call \in Nat /\ a.seg \in Nat /\ a.msg \in Nat
    BY <2>1, <1>3
  <2>. HIDE DEF M
  <2>5. CASE k = n
    <3>1. a.call = b.call /\ a.seg = b.seg /\ a.msg <= b.msg
      BY <2>5, <2>4
    <3>. QED
      BY <3>1, <2>3 DEF NotAfter
  <2>6. CASE Before(a, b)
    <3>. HIDE DEF a, b
    <3>1. \/ a.call < b.call
          \/ a.call = b.call /\ a.seg < b.seg
          \/ a.call = b.call /\ a.seg = b.seg /\ a.msg < b.msg
      BY <2>6 DEF Before
    <3>2. b.msg \in Nat
      BY <1>2, <1>3 DEF b
    <3>3. a.msg < b.msg => a.msg <= b.msg
      BY <2>4, <3>2
    <3>. QED
      BY <3>1, <3>3, <2>3 DEF NotAfter
  <2>. QED
    BY <2>1, <2>2, <2>5, <2>6
<1>5. \A k \in 1..n : M(k) \in S
  BY <1>2, <1>3, <1>4
<1>6. ASSUME NEW a \in 1..n, NEW b \in 1..n, M(a) = M(b) PROVE a = b
  <2>1. a \in 1..Len(wire) /\ b \in 1..Len(wire)
    BY <1>2
  <2>2. wire[a].call = wire[b].call /\ wire[a].seg = wire[b].seg /\ wire[a].msg = wire[b].msg
    BY <1>6
  <2>. QED
    BY <2>1, <2>2, Places
<1>7. ASSUME NEW x \in S PROVE \E a \in 1..n : M(a) = x
  <2>1. PICK c \in 1..Len(Calls) : \E s \in 0..(Segments(c) - 1) : \E m \in 1..Size(c, s) : x = <<c, s, m>>
    BY MessageParts
  <2>2. PICK s \in 0..(Segments(c) - 1) : \E m \in 1..Size(c, s) : x = <<c, s, m>>
    BY <2>1
  <2>3. PICK m \in 1..Size(c, s) : x = <<c, s, m>>
    BY <2>2
  <2>4. x[1] = c /\ x[2] = s /\ x[3] = m /\ NotAfter(x, M(n))
    BY <2>3
  <2>5. \/ c < wire[n].call
        \/ c = wire[n].call /\ s < wire[n].seg
        \/ c = wire[n].call /\ s = wire[n].seg /\ m <= wire[n].msg
    BY <2>4, <1>2, <1>3 DEF NotAfter
  <2>6. OnWire(wire, c, s, m)
    BY <2>5, <1>2, SentBefore
  <2>7. PICK k \in 1..Len(wire) : wire[k].call = c /\ wire[k].seg = s /\ wire[k].msg = m
    BY <2>6 DEF OnWire
  <2>8. ~Before(wire[n], wire[k])
    <3>1. /\ wire[k].call \in Nat /\ wire[k].seg \in Nat /\ wire[k].msg \in Nat
          /\ wire[n].call \in Nat /\ wire[n].seg \in Nat /\ wire[n].msg \in Nat
      BY <1>2, <1>3
    <3>. QED
      BY <3>1, <2>5, <2>7 DEF Before
  <2>9. ~(n < k)
    BY <2>8, <1>2 DEF WireOrder
  <2>10. k \in 1..n
    BY <2>9, <1>1, <1>2
  <2>11. M(k) = x
    BY <2>3, <2>7
  <2>. QED
    BY <2>10, <2>11
<1>8. f \in [1..n -> S]
  BY <1>5
<1>9. \A k \in 1..n : f[k] = M(k)
  OBVIOUS
<1>10. IsFiniteSet(1..n) /\ Cardinality(1..n) = n
  <2>. DEFINE one == 1
  <2>1. one \in Int /\ n \in Int /\ ~(one > n) /\ n - one + 1 = n
    BY <1>2
  <2>. HIDE DEF one
  <2>2. IsFiniteSet(one..n) /\ Cardinality(one..n) = n - one + 1
    BY <2>1, FS_Interval
  <2>. QED
    BY <2>1, <2>2 DEF one
<1>. HIDE DEF M, S, f
<1>11. (\A a, b \in 1..n : f[a] = f[b] => a = b) /\ \A x \in S : \E a \in 1..n : f[a] = x
  BY <1>6, <1>7, <1>9
<1>12. Cardinality(S) = Cardinality(1..n)
  BY <1>8, <1>10, <1>11, SameSize
<1>13. M(n) \in Messages /\ n = Cardinality(S)
  BY <1>2, <1>3, <1>10, <1>12
<1>. QED
  BY <1>13 DEF M, S

\* try_post_message cuts the calls into the same sequence of messages at every
\* pace of the copies and the completions: message n of a rank is the n-th
\* message of all calls, so that the switch adds up the same piece of every
\* rank although the ranks never agree on the order.
THEOREM MessagesNumberedAlike == Spec => []SameNumberSamePiece
<1>1. PInv => SameNumberSamePiece
  BY SameNumberSamePieceHolds
<1>. QED
  BY <1>1, PipelineInvariance, PTL
=============================================================================
