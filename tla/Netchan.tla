------------------------------ MODULE Netchan ------------------------------
(***************************************************************************)
(* One direction of a netchan (qcommon/net_chan.c): the sender's half of   *)
(* one netchan_t, the receiver's half of the peer's, and the UDP network   *)
(* between them.  A message shorter than FRAGMENT_SIZE is one packet; a    *)
(* longer one is cut into fragments that share its sequence number, the    *)
(* last of them shorter than FRAGMENT_SIZE (it may be empty).              *)
(*                                                                         *)
(* The network keeps every packet ever sent and may hand any of them to    *)
(* the receiver at any time, or never: that is loss, duplication, delay    *)
(* and reordering.                                                         *)
(*                                                                         *)
(* A definition named Bug... is the definition below it with a mistake in  *)
(* it: the specification never uses it, and a property must fail with it.  *)
(***************************************************************************)
EXTENDS Integers, Sequences

CONSTANTS
    Byte,               \* what a message is made of
    Message,            \* the messages the upper layer may transmit
    FRAGMENT_SIZE,      \* payload of a full fragment
    MAX_MSGLEN,         \* longest message, and the size of both buffers
    MaxSequence         \* bound on outgoingSequence, for model checking

ASSUME NetchanAssumption ==
    /\ FRAGMENT_SIZE \in Nat \ {0}
    /\ MAX_MSGLEN \in Nat
    /\ MaxSequence \in Nat
    /\ \A m \in Message : m \in Seq(Byte) /\ Len(m) <= MAX_MSGLEN

VARIABLES
    outgoingSequence,   \* sequence number of the message being (or next) sent
    unsentFragments,    \* a fragmented message is only partly on the wire
    unsentFragmentStart,
    unsentBuffer,       \* unsentBuffer[0..unsentLength-1]
    network,            \* every packet sent so far
    incomingSequence,   \* last message accepted
    fragmentSequence,   \* message being reassembled
    fragmentBuffer,     \* fragmentBuffer[0..fragmentLength-1]
    sent,               \* history: sent[s] is the message numbered s
    delivered           \* history: what Netchan_Process returned qtrue for

sender   == <<outgoingSequence, unsentFragments, unsentFragmentStart, unsentBuffer>>
receiver == <<incomingSequence, fragmentSequence, fragmentBuffer>>
vars     == <<sender, network, receiver, sent, delivered>>

-----------------------------------------------------------------------------
\* A fragment carries its offset; its length is Len(data).
Packet == [seq : Nat, fragmented : BOOLEAN, start : Nat, data : Seq(Byte)]

\* Netchan_Setup for both ends, and the unsent buffer of a cleared netchan_t.
Init ==
    /\ outgoingSequence = 1
    /\ unsentFragments = FALSE
    /\ unsentFragmentStart = 0
    /\ unsentBuffer = <<>>
    /\ network = {}
    /\ incomingSequence = 0
    /\ fragmentSequence = 0
    /\ fragmentBuffer = <<>>
    /\ sent = <<>>
    /\ delivered = <<>>

-----------------------------------------------------------------------------
(* The sender. *)

\* How much of message m the fragment that begins at start carries.
FragmentLength(m, start) ==
    IF start + FRAGMENT_SIZE > Len(m) THEN Len(m) - start ELSE FRAGMENT_SIZE

\* BUG: the end of the message is taken for the last fragment, full or not.
BugIsLastFragment(m, start) == start + FragmentLength(m, start) = Len(m)

\* A fragment of full length is never the last one, even when it reaches the
\* end of the message: the receiver takes only a short one for the last.
IsLastFragment(m, start) ==
    LET n == FragmentLength(m, start)
    IN  start + n = Len(m) /\ n # FRAGMENT_SIZE

\* BUG: a short fragment advances the offset by a full one.
BugSendFragment(m, start) ==
    /\ network' = network \cup
          {[seq |-> outgoingSequence, fragmented |-> TRUE, start |-> start,
            data |-> SubSeq(m, start + 1, start + FragmentLength(m, start))]}
    /\ unsentFragmentStart' = start + FRAGMENT_SIZE
    /\ unsentBuffer' = m
    /\ outgoingSequence' = outgoingSequence
    /\ unsentFragments' = TRUE

\* Send the fragment of m at start and advance.
SendFragment(m, start) ==
    LET n == FragmentLength(m, start)
    IN  /\ network' = network \cup
              {[seq |-> outgoingSequence, fragmented |-> TRUE, start |-> start,
                data |-> SubSeq(m, start + 1, start + n)]}
        /\ unsentFragmentStart' = start + n
        /\ unsentBuffer' = m
        /\ IF IsLastFragment(m, start)
           THEN outgoingSequence' = outgoingSequence + 1 /\ unsentFragments' = FALSE
           ELSE unsentFragments' = TRUE /\ UNCHANGED outgoingSequence

\* BUG: the offset is not advanced.
BugTransmitNextFragment ==
    /\ unsentFragments
    /\ SendFragment(unsentBuffer, 0)
    /\ UNCHANGED <<receiver, sent, delivered>>

Netchan_TransmitNextFragment ==
    /\ unsentFragments
    /\ SendFragment(unsentBuffer, unsentFragmentStart)
    /\ UNCHANGED <<receiver, sent, delivered>>

\* BUG: a message is transmitted in the middle of a fragmented one.
BugCallerMayTransmit == TRUE

\* Netchan_Transmit does not look at unsentFragments: every caller does first
\* (SV_Netchan_Transmit queues instead, CL_WritePacket has flushed them all).
CallerMayTransmit == ~unsentFragments

Netchan_Transmit(m) ==
    /\ CallerMayTransmit
    /\ outgoingSequence <= MaxSequence
    /\ sent' = Append(sent, m)
    /\ IF Len(m) >= FRAGMENT_SIZE
       THEN SendFragment(m, 0)
       ELSE /\ network' = network \cup
                  {[seq |-> outgoingSequence, fragmented |-> FALSE, start |-> 0,
                    data |-> m]}
            /\ unsentFragmentStart' = 0
            /\ outgoingSequence' = outgoingSequence + 1
            /\ UNCHANGED <<unsentFragments, unsentBuffer>>
    /\ UNCHANGED <<receiver, delivered>>

-----------------------------------------------------------------------------
(* The receiver: Netchan_Process(p) for a packet p that is not stale. *)

Accept(p, msg) ==
    /\ incomingSequence' = p.seq
    /\ delivered' = Append(delivered, [seq |-> p.seq, msg |-> msg])

ProcessWhole(p) ==
    /\ ~p.fragmented
    /\ Accept(p, p.data)
    /\ UNCHANGED <<fragmentSequence, fragmentBuffer>>

\* BUG: the reassembly is not started over for another message.
BugGathered(p) == fragmentBuffer

\* What has been gathered of p's message: a new sequence number starts over.
Gathered(p) == IF p.seq = fragmentSequence THEN fragmentBuffer ELSE <<>>

\* Not the fragment that comes next, or no room for it: keep what is there.
ProcessFragmentIgnored(p) ==
    /\ p.fragmented
    /\ \/ p.start # Len(Gathered(p))
       \/ Len(Gathered(p)) + Len(p.data) > MAX_MSGLEN
    /\ fragmentSequence' = p.seq
    /\ fragmentBuffer' = Gathered(p)
    /\ UNCHANGED <<incomingSequence, delivered>>

ProcessFragment(p) ==
    LET whole == Gathered(p) \o p.data
    IN  /\ p.fragmented
        /\ p.start = Len(Gathered(p))
        /\ Len(whole) <= MAX_MSGLEN
        /\ fragmentSequence' = p.seq
        /\ IF Len(p.data) = FRAGMENT_SIZE
           THEN fragmentBuffer' = whole /\ UNCHANGED <<incomingSequence, delivered>>
           ELSE fragmentBuffer' = <<>> /\ Accept(p, whole)

\* BUG: the last accepted sequence number is accepted again.
BugNotStale(p) == p.seq >= incomingSequence

\* Out of order and duplicated packets are discarded.
NotStale(p) == p.seq > incomingSequence

Netchan_Process(p) ==
    /\ NotStale(p)
    /\ ProcessWhole(p) \/ ProcessFragmentIgnored(p) \/ ProcessFragment(p)
    /\ UNCHANGED <<sender, network, sent>>

-----------------------------------------------------------------------------
Next ==
    \/ \E m \in Message : Netchan_Transmit(m)
    \/ Netchan_TransmitNextFragment
    \/ \E p \in network : Netchan_Process(p)

Spec == Init /\ [][Next]_vars

\* SV_SendClientMessages sends the next fragment of a pending message on every
\* server frame whose rate delay has passed, CL_WritePacket in a loop.
Fairness == WF_vars(Netchan_TransmitNextFragment)

FairSpec == Spec /\ Fairness

-----------------------------------------------------------------------------
(* Properties. *)

\* The state has the shape net_chan.c declares; what is buffered fits.
TypeOK ==
    /\ outgoingSequence \in Nat \ {0}
    /\ unsentFragments \in BOOLEAN
    /\ unsentBuffer \in Seq(Byte) /\ Len(unsentBuffer) <= MAX_MSGLEN
    /\ unsentFragmentStart \in 0..Len(unsentBuffer)
    /\ network \subseteq Packet
    /\ incomingSequence \in Nat
    /\ fragmentSequence \in Nat
    /\ fragmentBuffer \in Seq(Byte) /\ Len(fragmentBuffer) <= MAX_MSGLEN
    /\ sent \in Seq(Seq(Byte))
    /\ delivered \in Seq([seq : Nat, msg : Seq(Byte)])

\* Netchan_Process never hands up a message that was not transmitted under
\* that sequence number, byte for byte: fragments of two messages are never
\* put together, none is skipped and none is used twice.
DeliveredWhole ==
    \A i \in DOMAIN delivered :
        /\ delivered[i].seq \in DOMAIN sent
        /\ delivered[i].msg = sent[delivered[i].seq]

\* Messages come up in the order they were transmitted, each at most once,
\* whatever the network duplicates or reorders.
DeliveredInOrder ==
    \A i, j \in DOMAIN delivered : i < j => delivered[i].seq < delivered[j].seq

\* A half-received message can always be completed by packets the sender has
\* sent or still has to send: the reassembly never reaches a point from which
\* the rest of the message, arriving in order, would not be accepted.
ReassemblyCanContinue ==
    fragmentBuffer # <<>> /\ fragmentSequence > incomingSequence =>
        \/ \E p \in network : /\ p.seq = fragmentSequence
                              /\ p.fragmented
                              /\ p.start = Len(fragmentBuffer)
        \/ /\ unsentFragments
           /\ outgoingSequence = fragmentSequence
           /\ unsentFragmentStart <= Len(fragmentBuffer)

\* A fragmented message does not stay half sent: the exit condition of
\* Netchan_TransmitNextFragment is met for every message length.
FragmentsFinish == unsentFragments ~> ~unsentFragments

\* A netchan is a message channel.
Abstract == INSTANCE MessageChannel WITH
                Message <- Message, sent <- sent, delivered <- delivered
RefinesMessageChannel == Abstract!Spec
=============================================================================
