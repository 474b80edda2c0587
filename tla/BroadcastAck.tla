---------------------------- MODULE BroadcastAck ----------------------------
(***************************************************************************)
(* One broadcast group at work (switch/broadcast_ingress.p4,               *)
(* broadcast_sendout.p4, broadcast_egress.p4).  The switch copies the      *)
(* root's packets to all receivers and keeps nothing of them; what the     *)
(* receivers answer is merged, in the egress pipeline, into the answers of *)
(* the single peer that the root's queue pair believes to talk to.         *)
(*                                                                         *)
(* The registers of a group hold one round of answers: bitmap, the         *)
(* receivers heard of in this round, and psn, the oldest number they have  *)
(* acknowledged.  When the last receiver answers, that number goes to the  *)
(* root and to prev_psn, and the next answer starts a new round.           *)
(*                                                                         *)
(* Numbers are 24 bits wide, shifted to the left before they are compared; *)
(* here they are modulo PsnMod.  The code asks whether their difference is *)
(* negative, with operands of type bit<32> and a comment that says         *)
(* "signed".  The types make it never negative, the comment makes it the   *)
(* circular order; Signed says which of the two the compiled program does. *)
(*                                                                         *)
(* The message numbers (msn) take the same way through the same code; the  *)
(* root uses them for nothing but credits, and they are left out.  The     *)
(* queue pairs are hardware: the go-back-N rules below are those of        *)
(* reliable connections.                                                   *)
(***************************************************************************)
EXTENDS Integers, Sequences

CONSTANTS
    Receiver,   \* the members of the group without the root
    N,          \* packets of the broadcast
    PsnMod,     \* 2^24 in the code
    Window,     \* packets the root's card has outstanding at most
    QueueCap,   \* packets a link holds; further ones are dropped
    Signed      \* the compiled comparison of numbers is signed

ASSUME BroadcastAssumption ==
    /\ N \in Nat /\ QueueCap \in Nat \ {0} /\ Window \in Nat \ {0}
    /\ PsnMod \in Nat /\ Window < PsnMod \div 2
    /\ Receiver # {} /\ Signed \in BOOLEAN

VARIABLES
    una, nxt, hi,   \* root: oldest unacknowledged, next to send, end of what was sent
    epsn,           \* receiver -> next packet expected
    nakked,         \* receiver -> it has reported the gap that it is waiting at
    down,           \* receiver -> packets on their way to it
    up,             \* receiver -> its answers on their way to the switch
    back,           \* answers on their way from the switch to the root
    bitmap, psn, prev_psn   \* reg_bitmap, reg_psn, reg_prev_psn

rootVars == <<una, nxt, hi>>
recvVars == <<epsn, nakked>>
regVars == <<bitmap, psn, prev_psn>>
vars == <<rootVars, recvVars, down, up, back, regVars>>

Psn(i) == i % PsnMod
Answer(kind, p) == [kind |-> kind, psn |-> p]
Queue(q, x) == IF Len(q) < QueueCap THEN Append(q, x) ELSE q

\* CreateGroup clears bitmap and sets prev_psn to the number before the
\* first; psn is what the last group with this number has left.
Init ==
    /\ una = 0 /\ nxt = 0 /\ hi = 0
    /\ epsn = [r \in Receiver |-> 0]
    /\ nakked = [r \in Receiver |-> FALSE]
    /\ down = [r \in Receiver |-> << >>]
    /\ up = [r \in Receiver |-> << >>]
    /\ back = << >>
    /\ bitmap = {} /\ prev_psn = PsnMod - 1
    /\ psn \in 0..(PsnMod - 1)

-----------------------------------------------------------------------------
(* Root and receivers. *)

\* The next packet is sent; the switch copies it to everybody but the root,
\* and each copy may be dropped.
Send ==
    /\ nxt < N /\ nxt < una + Window
    /\ \E reached \in SUBSET Receiver :
         down' = [r \in Receiver |-> IF r \in reached THEN Queue(down[r], nxt) ELSE down[r]]
    /\ nxt' = nxt + 1
    /\ hi' = IF nxt + 1 > hi THEN nxt + 1 ELSE hi
    /\ UNCHANGED <<una, recvVars, up, back, regVars>>

\* The transport timer: go back to the oldest unacknowledged packet.
Timeout ==
    /\ una < nxt
    /\ nxt' = una
    /\ UNCHANGED <<una, hi, recvVars, down, up, back, regVars>>

\* The expected packet is acknowledged, a gap is reported once, and a packet
\* from before is acknowledged again, with the newest number.
Receive(r) ==
    /\ down[r] # << >>
    /\ down' = [down EXCEPT ![r] = Tail(@)]
    /\ LET ahead == (Psn(Head(down[r])) - Psn(epsn[r])) % PsnMod
       IN  \/ /\ ahead = 0
              /\ epsn' = [epsn EXCEPT ![r] = @ + 1]
              /\ nakked' = [nakked EXCEPT ![r] = FALSE]
              /\ up' = [up EXCEPT ![r] = Queue(@, Answer("ack", Psn(epsn[r])))]
           \/ /\ ahead \in 1..(PsnMod \div 2 - 1)
              /\ nakked' = [nakked EXCEPT ![r] = TRUE]
              /\ up' = [up EXCEPT ![r] = IF nakked[r] THEN @
                                         ELSE Queue(@, Answer("nak", Psn(epsn[r])))]
              /\ UNCHANGED epsn
           \/ /\ ahead >= PsnMod \div 2
              /\ up' = [up EXCEPT ![r] = Queue(@, Answer("ack", Psn(epsn[r] - 1)))]
              /\ UNCHANGED <<epsn, nakked>>
    /\ UNCHANGED <<rootVars, back, regVars>>

\* The root looks an answer's number up among the packets it has sent.  An
\* ACK acknowledges everything up to its number, a NAK everything before it
\* and asks for a retransmission from there on.
RootReceive ==
    /\ back # << >>
    /\ back' = Tail(back)
    /\ LET a == Head(back)
           known == {i \in una..(hi - 1) : Psn(i) = a.psn}
           first == CHOOSE i \in known : TRUE
       IN  \/ /\ known = {}
              /\ UNCHANGED <<una, nxt>>
           \/ /\ known # {} /\ a.kind = "ack"
              /\ una' = first + 1
              /\ nxt' = IF nxt > first THEN nxt ELSE first + 1
           \/ /\ known # {} /\ a.kind = "nak"
              /\ una' = first /\ nxt' = first
    /\ UNCHANGED <<hi, recvVars, down, up, regVars>>

-----------------------------------------------------------------------------
(* broadcast_ack_egress. *)

\* md.psn - reg < 0: an unsigned difference is never negative.
Older(p, q) == Signed /\ (p - q) % PsnMod >= PsnMod \div 2

\* Mutant: a round that is complete is not closed.
NewBitmapOpen(r) == bitmap \cup {r}

\* reg_bitmap_update
NewBitmap(r) == IF bitmap = Receiver THEN {r} ELSE bitmap \cup {r}

\* Mutant: the number of a NAK is not decremented.
AckedByPlain(a) == a.psn

\* get_psn, get_dec_psn: the number up to which an answer acknowledges.
AckedBy(a) == IF a.kind = "ack" THEN a.psn ELSE (a.psn - 1) % PsnMod

\* psn_init, psn_update
NewPsn(r, p) == IF NewBitmap(r) = {r} \/ Older(p, psn) THEN p ELSE psn

\* Mutant: every answer is incremented.
PutSnIncremented(a, acked) == (acked + 1) % PsnMod

\* inc_psn, put_sn: the number of the answer that the root gets.
PutSn(a, acked) == IF a.kind = "ack" THEN acked ELSE (acked + 1) % PsnMod

\* The answer of a receiver passes the egress pipeline.  In the last answer
\* of a round the root gets the oldest number of the round, and prev_psn
\* keeps it; before that an ACK goes on with prev_psn, and a NAK with the
\* number behind it.  (broadcast_ack_egress marks the ACK to be dropped, but
\* restore_table, which has an entry for every member and is applied next,
\* takes the mark off again.)
Merge(r) ==
    /\ up[r] # << >>
    /\ up' = [up EXCEPT ![r] = Tail(@)]
    /\ LET a == Head(up[r])
           p == NewPsn(r, AckedBy(a))
           last == NewBitmap(r) = Receiver
           acked == IF last THEN p ELSE prev_psn
       IN  /\ bitmap' = NewBitmap(r)
           /\ psn' = p
           /\ prev_psn' = acked
           /\ back' = Queue(back, Answer(a.kind, PutSn(a, acked)))
    /\ UNCHANGED <<rootVars, recvVars, down>>

\* Answers are lost, too.
LoseUp(r) ==
    /\ up[r] # << >>
    /\ up' = [up EXCEPT ![r] = Tail(@)]
    /\ UNCHANGED <<rootVars, recvVars, down, back, regVars>>

LoseBack ==
    /\ back # << >>
    /\ back' = Tail(back)
    /\ UNCHANGED <<rootVars, recvVars, down, up, regVars>>

Next ==
    \/ Send \/ Timeout \/ RootReceive \/ LoseBack
    \/ \E r \in Receiver : Receive(r) \/ Merge(r) \/ LoseUp(r)

Spec == Init /\ [][Next]_vars

\* What the hardware does on its own: cards send, timers fire, packets at the
\* head of a link are handled.
Fairness ==
    /\ WF_vars(Send) /\ WF_vars(Timeout) /\ WF_vars(RootReceive)
    /\ \A r \in Receiver : WF_vars(Receive(r)) /\ WF_vars(Merge(r))

FairSpec == Spec /\ Fairness

-----------------------------------------------------------------------------
(* Properties. *)

\* Type invariant.
TypeOK ==
    /\ una \in 0..N /\ nxt \in una..N /\ hi \in nxt..N
    /\ epsn \in [Receiver -> 0..N]
    /\ bitmap \subseteq Receiver
    /\ psn \in 0..(PsnMod - 1) /\ prev_psn \in 0..(PsnMod - 1)

\* The packet that number p stands for, seen from packet base.
Near(p, base) == CHOOSE i \in (base - PsnMod \div 2)..(base + PsnMod \div 2 - 1) : Psn(i) = p

\* What the switch has promised the root, and will repeat in a NAK, every
\* receiver has got; and what a round has gathered so far, every receiver
\* heard of in it has got.
MergedIsReceived ==
    /\ TypeOK
    /\ \A r \in Receiver : Near(prev_psn, una) < epsn[r]
    /\ bitmap # {} => \A r \in bitmap : Near(psn, una) < epsn[r]

\* The broadcast is reliable: the root's completion of a packet, by whichever
\* merged, lost, delayed or repeated answers, means that all have it.
Abstract == INSTANCE BroadcastSpec WITH delivered <- epsn, completed <- una
ImplementsBroadcast == Abstract!SafeSpec

\* A step that loses nothing, and no timer that fires while anything is on
\* its way.
Quiet == back = << >> /\ \A r \in Receiver : down[r] = << >> /\ up[r] = << >>
Faultless ==
    \/ Send /\ \A r \in Receiver : down'[r] # down[r]
    \/ Timeout /\ Quiet
    \/ RootReceive
    \/ \E r \in Receiver : \/ Receive(r) /\ Len(up[r]) < QueueCap
                           \/ Merge(r) /\ Len(back) < QueueCap

\* If the faults come to an end, the root completes everything.  A round may
\* be closed by an answer that is older than what the others have to say; then
\* it takes the root's timer to make the receivers repeat what the switch has
\* forgotten.
Completes == <>[][Faultless]_vars => <>(una = N)
=============================================================================
