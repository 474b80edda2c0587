--------------------------- MODULE SegmentPipeline ---------------------------
(***************************************************************************)
(* incAllReduce of the NCCL-tests integration (inc_all_reduce.cu), on one  *)
(* rank: the user's buffer is cut into segments, which pass through a ring *)
(* of host buffers.  A segment is copied to its send buffer (d2h_stream),  *)
(* sent as messages on all queue pairs, and its result is copied from the  *)
(* receive buffer (h2d_stream).  The host loop starts the copies and the   *)
(* messages and never blocks: it looks at one CUDA event per buffer and at *)
(* the completion queues.  The user's own work is on a third stream, and   *)
(* the calls are issued one after the other without waiting for it.        *)
(*                                                                         *)
(* A stream executes its operations in order.  Recording an event on a     *)
(* stream notes how many operations the stream has been given; the event   *)
(* is complete when as many have been executed.                            *)
(*                                                                         *)
(* The other ranks and the switch decide when a message completes; those   *)
(* of a queue pair complete in order (IncAllreduce).  use_send is off: no  *)
(* receive is posted.                                                      *)
(***************************************************************************)
EXTENDS Integers, Sequences, FiniteSets, SequencesExt

CONSTANTS
    Calls,       \* the calls: for each the messages (nmsg) of its segments
    QueueSize,   \* SEGMENT_QUEUE_SIZE
    Window,      \* messages of a queue pair that may be in flight
    QP           \* the queue pairs

ASSUME PipelineAssumption ==
    /\ QueueSize \in Nat \ {0} /\ Window \in Nat \ {0}
    /\ Calls \in Seq(Seq(Nat \ {0}))
    /\ IsFiniteSet(QP) /\ QP # {}

Slot == 0..(QueueSize - 1)
Stream == {"user", "d2h", "h2d"}

VARIABLES
    pc,             \* the host: in the application or at a step of the loop
    call,           \* calls begun
    head, middle, tail,   \* segments copied out, released for sending, copied in
    msg_sent,       \* slot -> messages sent of its segment
    complete_seg,   \* queue pair -> sq_complete_seg
    wire,           \* all messages posted (the same on every queue pair)
    completed,      \* queue pair -> how many of them have completed
    polled,         \* queue pair -> how many completions have been polled
    queue,          \* stream -> operations to execute
    given,          \* stream -> how many operations it has been given
    copy_event,     \* slot -> what its event was recorded on last
    sendbuff,       \* which call's input is in the user's buffer
    s_mr,           \* slot -> the segment in the send buffer
    r_mr,           \* slot -> message -> queue pair -> of which segment the sum is
    recvbuff        \* segment -> the segments whose sums its pieces are

host == <<pc, call, head, middle, tail, msg_sent, complete_seg>>
nic == <<wire, completed, polled>>
streams == <<queue, given, copy_event>>
memory == <<sendbuff, s_mr, r_mr, recvbuff>>
vars == <<pc, call, head, middle, tail, msg_sent, complete_seg, wire, completed,
          polled, queue, given, copy_event, sendbuff, s_mr, r_mr, recvbuff>>

Nothing == <<0, 0>>
Segments(c) == Len(Calls[c])
MaxMessages == Max({0} \cup UNION {ToSet(Calls[c]) : c \in DOMAIN Calls})
MaxSegments == Max({0} \cup {Segments(c) : c \in DOMAIN Calls})

Init ==
    /\ pc = "app"
    /\ call = 0
    /\ head = 0 /\ middle = 0 /\ tail = 0
    /\ msg_sent = [i \in Slot |-> 0]
    /\ complete_seg = [q \in QP |-> 0]
    /\ wire = << >>
    /\ completed = [q \in QP |-> 0]
    /\ polled = [q \in QP |-> 0]
    /\ queue = [s \in Stream |-> << >>]
    /\ given = [s \in Stream |-> 0]
    /\ copy_event = [i \in Slot |-> [stream |-> "user", after |-> 0]]
    /\ sendbuff = 0
    /\ s_mr = [i \in Slot |-> Nothing]
    /\ r_mr = [i \in Slot |-> [m \in 1..MaxMessages |-> [q \in QP |-> Nothing]]]
    /\ recvbuff = [s \in 0..(MaxSegments - 1) |-> {}]

-----------------------------------------------------------------------------
(* CUDA streams and events. *)

\* Operations of a stream.
Produce(c) == [op |-> "produce", call |-> c]
Consume(c) == [op |-> "consume", call |-> c]
WaitFor(event) == [op |-> "wait", event |-> event]
CopyIn(c, s) == [op |-> "in", call |-> c, seg |-> s]
CopyOut(c, s) == [op |-> "out", call |-> c, seg |-> s]

\* cudaEventRecord on a stream that has been given n operations.
Recorded(stream, n) == [stream |-> stream, after |-> n]

\* cudaEventQuery(event) == cudaSuccess
Occurred(event) ==
    given[event.stream] - Len(queue[event.stream]) >= event.after

\* The sums in the receive buffer of segment s of call c.
Pieces(c, s) == {r_mr[s % QueueSize][m][q] : m \in 1..Calls[c][s + 1], q \in QP}

\* What an operation waits for and does to the memory.
Execute(o) ==
    \/ o.op = "wait" /\ Occurred(o.event) /\ UNCHANGED memory
    \/ o.op = "consume" /\ UNCHANGED memory
    \/ /\ o.op = "produce"
       /\ sendbuff' = o.call
       /\ UNCHANGED <<s_mr, r_mr, recvbuff>>
    \/ /\ o.op = "in"
       /\ s_mr' = [s_mr EXCEPT ![o.seg % QueueSize] = <<sendbuff, o.seg>>]
       /\ UNCHANGED <<sendbuff, r_mr, recvbuff>>
    \/ /\ o.op = "out"
       /\ recvbuff' = [recvbuff EXCEPT ![o.seg] = Pieces(o.call, o.seg)]
       /\ UNCHANGED <<sendbuff, s_mr, r_mr>>

\* A stream executes its next operation.
Run(stream) ==
    /\ queue[stream] # << >>
    /\ Execute(Head(queue[stream]))
    /\ queue' = [queue EXCEPT ![stream] = Tail(@)]
    /\ UNCHANGED <<host, nic, given, copy_event>>

\* The next message of a queue pair completes: its part of the sum has been
\* written to the receive buffer.
Complete(q) ==
    /\ completed[q] < Len(wire)
    /\ LET m == wire[completed[q] + 1]
           i == m.seg % QueueSize
       IN  r_mr' = [r_mr EXCEPT ![i][m.msg][q] = s_mr[i]]
    /\ completed' = [completed EXCEPT ![q] = @ + 1]
    /\ UNCHANGED <<host, streams, wire, polled, sendbuff, s_mr, recvbuff>>

-----------------------------------------------------------------------------
(* incAllReduce *)

\* cudaStreamWaitEvent(d2h_stream, copy_event[0])
BeforeCopyIn(event) == <<WaitFor(event)>>

\* The user's stream is given the work that fills the buffer, then the call
\* is made: everything before the loop.
Enter ==
    /\ pc = "app"
    /\ call < Len(Calls)
    /\ call' = call + 1
    /\ LET event == Recorded("user", given["user"] + 1)
           before == BeforeCopyIn(event)
       IN  /\ copy_event' = [copy_event EXCEPT ![0] = event]
           /\ queue' = [queue EXCEPT !["user"] = Append(@, Produce(call')),
                                     !["d2h"] = @ \o before]
           /\ given' = [given EXCEPT !["user"] = @ + 1, !["d2h"] = @ + Len(before)]
    /\ head' = 0 /\ middle' = 0 /\ tail' = 0
    /\ pc' = "tail"
    /\ UNCHANGED <<msg_sent, complete_seg, nic, memory>>

\* Mutant: the copy out of the buffer's last segment is not waited for.
ReusableAlways == TRUE

\* The buffer for the next segment: its last result has been copied out.
Reusable == tail < QueueSize \/ Occurred(copy_event[tail % QueueSize])

\* A buffer whose segment has gone through.
HasRoom == tail - head < QueueSize

\* First step of the loop: start the copy of the next segment, if there is
\* one and a buffer for it.
StepTail ==
    /\ pc = "tail"
    /\ head < Segments(call)
    /\ IF tail < Segments(call) /\ HasRoom /\ Reusable
       THEN /\ queue' = [queue EXCEPT !["d2h"] = Append(@, CopyIn(call, tail))]
            /\ given' = [given EXCEPT !["d2h"] = @ + 1]
            /\ copy_event' = [copy_event EXCEPT ![tail % QueueSize] =
                                  Recorded("d2h", given'["d2h"])]
            /\ tail' = tail + 1
       ELSE UNCHANGED <<streams, tail>>
    /\ pc' = "middle"
    /\ UNCHANGED <<call, head, middle, msg_sent, complete_seg, nic, memory>>

\* Mutant: the count is not reset when the buffer is used again.
ResetSentNot(i) == msg_sent

\* msg_sent[middle_index] = 0
ResetSent(i) == [msg_sent EXCEPT ![i] = 0]

\* The segment after the last released one is in its send buffer.
CopiedIn == tail > middle /\ Occurred(copy_event[middle % QueueSize])

\* Second step: release a segment that has been copied in for sending.
StepMiddle ==
    /\ pc = "middle"
    /\ IF CopiedIn
       THEN /\ msg_sent' = ResetSent(middle % QueueSize)
            /\ middle' = middle + 1
       ELSE UNCHANGED <<msg_sent, middle>>
    /\ pc' = "head"
    /\ UNCHANGED <<call, head, tail, complete_seg, nic, streams, memory>>

\* poll_segment: the last message of a segment has completed everywhere.
SegmentDone == \A q \in QP : complete_seg[q] > 0

\* Third step: start the copy of the result of a completed segment.
StepHead ==
    /\ pc = "head"
    /\ IF middle > head /\ SegmentDone
       THEN /\ complete_seg' = [q \in QP |->
                   IF complete_seg[q] > 0 THEN complete_seg[q] - 1 ELSE 0]
            /\ queue' = [queue EXCEPT !["h2d"] = Append(@, CopyOut(call, head))]
            /\ given' = [given EXCEPT !["h2d"] = @ + 1]
            /\ copy_event' = [copy_event EXCEPT ![head % QueueSize] =
                                  Recorded("h2d", given'["h2d"])]
            /\ head' = head + 1
       ELSE UNCHANGED <<complete_seg, streams, head>>
    /\ pc' = "post"
    /\ UNCHANGED <<call, middle, tail, msg_sent, nic, memory>>

\* available_wr # 0, after poll_cqs
Available == \A q \in QP : Len(wire) - polled'[q] < Window

Unsent(s) == msg_sent[s % QueueSize] < Calls[call][s + 1]

\* Mutant: the segment of which least has been sent.
NextSegmentLeast(unsent) ==
    CHOOSE s \in unsent : \A t \in unsent :
        msg_sent[s % QueueSize] <= msg_sent[t % QueueSize]

\* The first segment with a message to send.
NextSegment(unsent) == CHOOSE s \in unsent : \A t \in unsent : s <= t

\* Fourth step, try_post_message: poll all completion queues, and post the
\* next message on all queue pairs if there is room for it.
StepPost ==
    /\ pc = "post"
    /\ IF head = middle
       THEN UNCHANGED <<polled, complete_seg, wire, msg_sent>>
       ELSE LET unsent == {s \in head..(middle - 1) : Unsent(s)}
                s == NextSegment(unsent)
            IN  /\ polled' = completed
                /\ complete_seg' = [q \in QP |-> complete_seg[q] +
                       Cardinality({n \in (polled[q] + 1)..completed[q] : wire[n].last})]
                /\ IF Available /\ unsent # {}
                   THEN /\ wire' = Append(wire,
                              [call |-> call, seg |-> s,
                               msg |-> msg_sent[s % QueueSize] + 1,
                               last |-> msg_sent[s % QueueSize] + 1 = Calls[call][s + 1]])
                        /\ msg_sent' = [msg_sent EXCEPT ![s % QueueSize] = @ + 1]
                   ELSE UNCHANGED <<wire, msg_sent>>
    /\ pc' = "tail"
    /\ UNCHANGED <<call, head, middle, tail, completed, streams, memory>>

\* Mutant: the user's stream waits for the last copy into a send buffer.
LastCopyIn == Recorded("d2h", given["d2h"])

\* copy_event[0], recorded on h2d_stream after the loop
LastCopy == Recorded("h2d", given["h2d"])

\* The loop is through: the user's stream waits for the copies, the call
\* returns, and the user's stream is given the work that uses the result.
Leave ==
    /\ pc = "tail"
    /\ head = Segments(call)
    /\ copy_event' = [copy_event EXCEPT ![0] = LastCopy]
    /\ queue' = [queue EXCEPT !["user"] = @ \o <<WaitFor(LastCopy), Consume(call)>>]
    /\ given' = [given EXCEPT !["user"] = @ + 2]
    /\ pc' = "app"
    /\ UNCHANGED <<call, head, middle, tail, msg_sent, complete_seg, nic, memory>>

Host == Enter \/ StepTail \/ StepMiddle \/ StepHead \/ StepPost \/ Leave

Next ==
    \/ Host
    \/ \E s \in Stream : Run(s)
    \/ \E q \in QP : Complete(q)

Spec == Init /\ [][Next]_vars

\* The host thread runs, the streams execute what they are given, and the
\* other ranks make the same calls, so that messages complete.
FairSpec ==
    /\ Spec
    /\ WF_vars(Host)
    /\ \A s \in Stream : WF_vars(Run(s))
    /\ \A q \in QP : WF_vars(Complete(q))

-----------------------------------------------------------------------------
(* Properties. *)

\* Everything has its type, the three indices are in order and no more apart
\* than there are buffers (head, middle, tail of incAllReduce).
TypeOK ==
    /\ pc \in {"app", "tail", "middle", "head", "post"}
    /\ call \in 0..Len(Calls)
    /\ 0 <= head /\ head <= middle /\ middle <= tail /\ tail - head <= QueueSize
    /\ msg_sent \in [Slot -> 0..MaxMessages]
    /\ complete_seg \in [QP -> 0..QueueSize]
    /\ \A q \in QP : polled[q] <= completed[q] /\ completed[q] <= Len(wire)
    /\ \A i \in Slot : copy_event[i].after <= given[copy_event[i].stream]

\* Message n is in flight on some queue pair: the network card may read its
\* part of the send buffer and write its part of the receive buffer.
InFlight(n) == \E q \in QP : completed[q] < n

\* While a message is in flight its send buffer holds its segment, and no
\* copy into that buffer has been started (cudaMemcpyAsync to s_mr).
SendBufferKept ==
    \A n \in DOMAIN wire : InFlight(n) =>
        /\ s_mr[wire[n].seg % QueueSize] = <<wire[n].call, wire[n].seg>>
        /\ \A k \in DOMAIN queue["d2h"] :
              LET o == queue["d2h"][k]
              IN  o.op = "in" => o.seg % QueueSize # wire[n].seg % QueueSize

\* While a copy out of a receive buffer is under way no message that writes
\* to that buffer is in flight, be it of the same call or of the next one: the
\* calls do not wait for the copies of the call before.
ReceiveBufferKept ==
    \A k \in DOMAIN queue["h2d"] :
        LET o == queue["h2d"][k]
        IN  o.op = "out" => \A n \in DOMAIN wire :
                InFlight(n) => wire[n].seg % QueueSize # o.seg % QueueSize

\* The buffers are never used for two segments at once, and the queue of
\* segments keeps its order and its size.
BuffersKept == TypeOK /\ SendBufferKept /\ ReceiveBufferKept

\* When the user's stream comes to the work after a call, every piece of the
\* result is the sum of the piece of that call's input.
ResultExact ==
    queue["user"] # << >> /\ Head(queue["user"]).op = "consume" =>
        LET c == Head(queue["user"]).call
        IN  \A s \in 0..(Segments(c) - 1) : recvbuff[s] = {<<c, s>>}

\* All messages <<call, segment, message>> of all calls.
Messages ==
    UNION {UNION {{<<c, s - 1, m>> : m \in 1..Calls[c][s]} : s \in DOMAIN Calls[c]} :
               c \in DOMAIN Calls}

\* Message a is b or comes before b, by call, segment and message.
NotAfter(a, b) ==
    \/ a[1] < b[1]
    \/ a[1] = b[1] /\ a[2] < b[2]
    \/ a[1] = b[1] /\ a[2] = b[2] /\ a[3] <= b[3]

\* The order of the messages does not depend on how fast the copies and the
\* completions are: ranks that never exchange a word about it put the same
\* piece into the message with the same number, and the switch adds these up.
\* The number of a message is how many there are up to it.
SameNumberSamePiece ==
    \A n \in DOMAIN wire :
        LET w == <<wire[n].call, wire[n].seg, wire[n].msg>>
        IN  w \in Messages /\ n = Cardinality({x \in Messages : NotAfter(x, w)})

\* All calls return and the user's stream comes to its end.
AllConsumed ==
    <>[](call = Len(Calls) /\ pc = "app" /\ \A s \in Stream : queue[s] = << >>)
=============================================================================
