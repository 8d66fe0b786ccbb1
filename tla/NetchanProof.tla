---------------------------- MODULE NetchanProof ----------------------------
(***************************************************************************)
(* Proofs about Netchan for every set of messages and every fragment size. *)
(* The inductive invariant says, besides the types, what every packet on   *)
(* the network is a piece of (NetworkInv), that the reassembly buffer is a *)
(* prefix of one message (ReceiverInv), and that after every full fragment *)
(* the next one exists or is about to (ChainInv).                          *)
(***************************************************************************)
EXTENDS Netchan, SequenceTheorems, TLAPS

\* The sender's buffer holds the message numbered outgoingSequence while some
\* of it is unsent.
SenderInv ==
    /\ Len(sent) = IF unsentFragments THEN outgoingSequence
                                      ELSE outgoingSequence - 1
    /\ unsentFragments => /\ unsentBuffer = sent[outgoingSequence]
                          /\ unsentFragmentStart <= Len(unsentBuffer)

\* A packet carries a message, or the part of one at its offset; a fragment
\* that is not full reaches the message's end.
PieceOf(p, m) ==
    IF p.fragmented
    THEN /\ p.start + Len(p.data) <= Len(m)
         /\ p.data = SubSeq(m, p.start + 1, p.start + Len(p.data))
         /\ Len(p.data) # FRAGMENT_SIZE => p.start + Len(p.data) = Len(m)
    ELSE p.data = m

NetworkInv == \A p \in network : p.seq \in DOMAIN sent /\ PieceOf(p, sent[p.seq])

ReceiverInv ==
    fragmentBuffer # <<>> =>
        /\ fragmentSequence \in DOMAIN sent
        /\ Len(fragmentBuffer) <= Len(sent[fragmentSequence])
        /\ fragmentBuffer = SubSeq(sent[fragmentSequence], 1, Len(fragmentBuffer))

\* The fragment of message s at offset n is on the network or comes next.
Available(s, n) ==
    \/ \E q \in network : q.seq = s /\ q.fragmented /\ q.start = n
    \/ unsentFragments /\ outgoingSequence = s /\ unsentFragmentStart = n

ChainInv ==
    /\ \A p \in network : p.fragmented /\ Len(p.data) = FRAGMENT_SIZE
           => Available(p.seq, p.start + FRAGMENT_SIZE)
    /\ fragmentBuffer # <<>> => Available(fragmentSequence, Len(fragmentBuffer))

HistoryInv ==
    /\ DeliveredWhole
    /\ DeliveredInOrder
    /\ incomingSequence = Abstract!LastSeq(delivered)

IInv ==
    TypeOK /\ SenderInv /\ NetworkInv /\ ReceiverInv /\ ChainInv /\ HistoryInv

-----------------------------------------------------------------------------
(* The sender. *)

\* A fragment stays inside the message, and is short only at its end.
LEMMA FragmentBounds ==
    ASSUME NEW m \in Seq(Byte), NEW start \in 0..Len(m)
    PROVE  LET n    == FragmentLength(m, start)
               data == SubSeq(m, start + 1, start + n)
           IN  /\ n \in 0..FRAGMENT_SIZE
               /\ start + n <= Len(m)
               /\ n # FRAGMENT_SIZE => start + n = Len(m)
               /\ data \in Seq(Byte)
               /\ Len(data) = n
  <1> DEFINE n == FragmentLength(m, start)
  <1>1. /\ n \in 0..FRAGMENT_SIZE
        /\ start + n <= Len(m)
        /\ n # FRAGMENT_SIZE => start + n = Len(m)
    BY NetchanAssumption DEF FragmentLength
  <1>2. \A i \in start + 1 .. start + n : m[i] \in Byte
    BY <1>1
  <1>3. /\ SubSeq(m, start + 1, start + n) \in Seq(Byte)
        /\ Len(SubSeq(m, start + 1, start + n))
              = IF start + 1 <= start + n THEN start + n - (start + 1) + 1 ELSE 0
    BY <1>1, <1>2, SubSeqProperties
  <1> QED BY <1>1, <1>3

\* What one SendFragment puts on the network and leaves in the sender.
LEMMA SendFragmentEffect ==
    ASSUME TypeOK,
           NEW m \in Seq(Byte), NEW start \in 0..Len(m), SendFragment(m, start)
    PROVE  \E p \in Packet :
               /\ network' = network \cup {p}
               /\ p.seq = outgoingSequence /\ p.fragmented /\ p.start = start
               /\ PieceOf(p, m)
               /\ Len(p.data) \in Nat
               /\ unsentBuffer' = m
               /\ unsentFragmentStart' = start + Len(p.data)
               /\ IF Len(p.data) = FRAGMENT_SIZE
                  THEN unsentFragments' = TRUE
                       /\ outgoingSequence' = outgoingSequence
                  ELSE unsentFragments' = FALSE
                       /\ outgoingSequence' = outgoingSequence + 1
  <1> DEFINE n == FragmentLength(m, start)
             p == [seq |-> outgoingSequence, fragmented |-> TRUE, start |-> start,
                   data |-> SubSeq(m, start + 1, start + n)]
  <1>1. /\ n \in 0..FRAGMENT_SIZE
        /\ start + n <= Len(m)
        /\ n # FRAGMENT_SIZE => start + n = Len(m)
        /\ p.data \in Seq(Byte)
        /\ Len(p.data) = n
    BY FragmentBounds
  <1>2. p \in Packet
    BY <1>1 DEF Packet, TypeOK
  <1>3. PieceOf(p, m)
    BY <1>1 DEF PieceOf
  <1>4. IsLastFragment(m, start) <=> n # FRAGMENT_SIZE
    BY <1>1 DEF IsLastFragment
  <1>5. /\ network' = network \cup {p}
        /\ unsentBuffer' = m
        /\ unsentFragmentStart' = start + n
        /\ IF n = FRAGMENT_SIZE
           THEN unsentFragments' = TRUE /\ outgoingSequence' = outgoingSequence
           ELSE unsentFragments' = FALSE /\ outgoingSequence' = outgoingSequence + 1
    BY <1>4 DEF SendFragment
  <1>6. p.seq = outgoingSequence /\ p.fragmented /\ p.start = start
    OBVIOUS
  <1> HIDE DEF n, p
  <1> QED BY SMTT(30), <1>1, <1>2, <1>3, <1>5, <1>6

\* A sender step that adds packet p of message outgoingSequence keeps what is
\* known of the packets, of the reassembly and of what is still to come.
LEMMA AddFragment ==
    ASSUME IInv, NEW p \in Packet,
           sent' \in Seq(Seq(Byte)), Len(sent') = outgoingSequence,
           \A s \in DOMAIN sent : s \in DOMAIN sent' /\ sent'[s] = sent[s],
           network' = network \cup {p},
           p.seq = outgoingSequence, p.fragmented,
           Len(p.data) \in Nat,
           unsentFragments => p.start = unsentFragmentStart,
           PieceOf(p, sent'[outgoingSequence]),
           unsentFragmentStart' = p.start + Len(p.data),
           unsentBuffer' = sent'[outgoingSequence],
           Len(unsentBuffer') <= MAX_MSGLEN,
           IF Len(p.data) = FRAGMENT_SIZE
           THEN unsentFragments' = TRUE /\ outgoingSequence' = outgoingSequence
           ELSE unsentFragments' = FALSE /\ outgoingSequence' = outgoingSequence + 1,
           UNCHANGED <<receiver, delivered>>
    PROVE  IInv'
  <1>0. /\ outgoingSequence \in Nat \ {0}
        /\ DOMAIN sent' = 1..outgoingSequence
        /\ unsentBuffer' \in Seq(Byte)
        /\ DOMAIN sent = 1..Len(sent)
        /\ p.start \in Nat
        /\ UNCHANGED <<incomingSequence, fragmentSequence, fragmentBuffer, delivered>>
    BY DEF IInv, TypeOK, Packet, receiver
  <1>1. TypeOK'
    <2>1. outgoingSequence' \in Nat \ {0}
      BY <1>0
    <2>2. unsentFragments' \in BOOLEAN
      OBVIOUS
    <2>3. unsentFragmentStart' \in 0..Len(unsentBuffer')
      <3>1. p.start + Len(p.data) <= Len(unsentBuffer')
        BY DEF PieceOf
      <3>2. p.start + Len(p.data) \in Nat /\ Len(unsentBuffer') \in Nat
        BY <1>0
      <3> QED BY <3>1, <3>2
    <2>4. network' \subseteq Packet
      BY <1>0 DEF IInv, TypeOK
    <2> QED BY <1>0, <2>1, <2>2, <2>3, <2>4 DEF IInv, TypeOK
  <1>2. SenderInv'
    BY SMTT(30), <1>0 DEF SenderInv, PieceOf
  <1>3. NetworkInv'
    BY <1>0 DEF IInv, NetworkInv
  <1>4. ReceiverInv'
    BY <1>0 DEF IInv, ReceiverInv
  <1>5. ChainInv'
    <2>1. ASSUME NEW s, NEW k, Available(s, k)
          PROVE  Available(s, k)'
      BY <2>1 DEF Available
    <2>2. ASSUME Len(p.data) = FRAGMENT_SIZE
          PROVE  Available(p.seq, p.start + FRAGMENT_SIZE)'
      BY <2>2 DEF Available
    <2>3. ASSUME NEW q \in network', q.fragmented, Len(q.data) = FRAGMENT_SIZE
          PROVE  Available(q.seq, q.start + FRAGMENT_SIZE)'
      BY <2>1, <2>2, <2>3 DEF IInv, ChainInv
    <2>4. ASSUME fragmentBuffer' # <<>>
          PROVE  Available(fragmentSequence, Len(fragmentBuffer))'
      <3>1. Available(fragmentSequence, Len(fragmentBuffer))
        BY <1>0, <2>4 DEF IInv, ChainInv
      <3> QED BY <1>0, <3>1, <2>1
    <2> QED BY <2>3, <2>4 DEF ChainInv
  <1>6. HistoryInv'
    BY <1>0 DEF IInv, HistoryInv, DeliveredWhole, DeliveredInOrder, Abstract!LastSeq
  <1> QED BY <1>1, <1>2, <1>3, <1>4, <1>5, <1>6 DEF IInv

(* Handing a message to Netchan_Transmit keeps the inductive invariant: the    *)
(* new message takes a number above every number on the wire.               *)
LEMMA TransmitStep ==
    ASSUME IInv, NEW m \in Message, Netchan_Transmit(m)
    PROVE  IInv'
  <1>1. m \in Seq(Byte) /\ Len(m) <= MAX_MSGLEN /\ Len(m) \in Nat
    BY NetchanAssumption
  <1>2. /\ ~unsentFragments
        /\ Len(sent) = outgoingSequence - 1
        /\ outgoingSequence \in Nat \ {0}
        /\ sent \in Seq(Seq(Byte))
        /\ sent' = Append(sent, m)
        /\ UNCHANGED <<receiver, delivered>>
    BY DEF Netchan_Transmit, CallerMayTransmit, IInv, SenderInv, TypeOK
  <1>3. /\ sent' \in Seq(Seq(Byte))
        /\ Len(sent') = outgoingSequence
        /\ \A s \in DOMAIN sent : s \in DOMAIN sent' /\ sent'[s] = sent[s]
        /\ sent'[outgoingSequence] = m
    BY <1>1, <1>2
  <1>4. CASE Len(m) >= FRAGMENT_SIZE
    <2>1. SendFragment(m, 0)
      BY <1>4 DEF Netchan_Transmit
    <2>2. TypeOK /\ 0 \in 0..Len(m)
      BY <1>1 DEF IInv
    <2>3. PICK p \in Packet :
             /\ network' = network \cup {p}
             /\ p.seq = outgoingSequence /\ p.fragmented /\ p.start = 0
             /\ PieceOf(p, m)
             /\ Len(p.data) \in Nat
             /\ unsentBuffer' = m
             /\ unsentFragmentStart' = 0 + Len(p.data)
             /\ IF Len(p.data) = FRAGMENT_SIZE
                THEN unsentFragments' = TRUE
                     /\ outgoingSequence' = outgoingSequence
                ELSE unsentFragments' = FALSE
                     /\ outgoingSequence' = outgoingSequence + 1
      BY <2>1, <2>2, <1>1, SendFragmentEffect
    <2> QED BY <1>1, <1>2, <1>3, <2>3, AddFragment
  <1>5. CASE Len(m) < FRAGMENT_SIZE
    <2> DEFINE p == [seq |-> outgoingSequence, fragmented |-> FALSE, start |-> 0,
                     data |-> m]
    <2>1. /\ network' = network \cup {p}
          /\ unsentFragmentStart' = 0
          /\ outgoingSequence' = outgoingSequence + 1
          /\ UNCHANGED <<unsentFragments, unsentBuffer>>
      BY <1>1, <1>5, NetchanAssumption DEF Netchan_Transmit
    <2>2. /\ p \in Packet /\ p.seq = outgoingSequence
          /\ ~p.fragmented /\ p.data = m
      BY <1>1, <1>2 DEF Packet
    <2> HIDE DEF p
    <2>3. TypeOK'
      BY <1>2, <1>3, <2>1, <2>2 DEF IInv, TypeOK, receiver
    <2>4. SenderInv'
      BY <1>2, <1>3, <2>1 DEF SenderInv
    <2>5. NetworkInv'
      <3>1. PieceOf(p, m)
        BY <2>2 DEF PieceOf
      <3>2. outgoingSequence \in DOMAIN sent'
        BY <1>2, <1>3
      <3> QED BY <1>3, <2>1, <2>2, <3>1, <3>2 DEF IInv, NetworkInv
    <2>6. ReceiverInv'
      BY <1>2, <1>3 DEF IInv, ReceiverInv, receiver
    <2>7. ChainInv'
      BY <1>2, <2>1, <2>2 DEF IInv, ChainInv, Available, receiver
    <2>8. HistoryInv'
      BY <1>2, <1>3 DEF IInv, HistoryInv, DeliveredWhole, DeliveredInOrder,
                        Abstract!LastSeq, receiver
    <2> QED BY <2>3, <2>4, <2>5, <2>6, <2>7, <2>8 DEF IInv
  <1> QED BY <1>1, <1>4, <1>5, NetchanAssumption

(* Netchan_TransmitNextFragment keeps the inductive invariant: the fragment it *)
(* sends is cut from the message kept in unsentBuffer.                       *)
LEMMA TransmitNextFragmentStep ==
    ASSUME IInv, Netchan_TransmitNextFragment
    PROVE  IInv'
  <1>1. /\ SendFragment(unsentBuffer, unsentFragmentStart)
        /\ UNCHANGED <<receiver, sent, delivered>>
        /\ unsentFragments
    BY DEF Netchan_TransmitNextFragment
  <1>2. /\ TypeOK
        /\ unsentBuffer \in Seq(Byte) /\ Len(unsentBuffer) <= MAX_MSGLEN
        /\ unsentFragmentStart \in 0..Len(unsentBuffer)
        /\ Len(sent) = outgoingSequence
        /\ unsentBuffer = sent[outgoingSequence]
        /\ sent \in Seq(Seq(Byte))
    BY <1>1 DEF IInv, TypeOK, SenderInv
  <1>3. PICK p \in Packet :
             /\ network' = network \cup {p}
             /\ p.seq = outgoingSequence /\ p.fragmented
             /\ p.start = unsentFragmentStart
             /\ PieceOf(p, unsentBuffer)
             /\ Len(p.data) \in Nat
             /\ unsentBuffer' = unsentBuffer
             /\ unsentFragmentStart' = unsentFragmentStart + Len(p.data)
             /\ IF Len(p.data) = FRAGMENT_SIZE
                THEN unsentFragments' = TRUE
                     /\ outgoingSequence' = outgoingSequence
                ELSE unsentFragments' = FALSE
                     /\ outgoingSequence' = outgoingSequence + 1
    BY <1>1, <1>2, SendFragmentEffect
  <1> QED BY <1>1, <1>2, <1>3, AddFragment

-----------------------------------------------------------------------------
(* The receiver. *)

\* Accepting message s after an earlier one keeps the history whole and ordered.
LEMMA AcceptHistory ==
    ASSUME IInv, NEW s \in DOMAIN sent, s > incomingSequence,
           incomingSequence' = s,
           delivered' = Append(delivered, [seq |-> s, msg |-> sent[s]]),
           UNCHANGED sent
    PROVE  HistoryInv'
  <1> DEFINE d == [seq |-> s, msg |-> sent[s]]
             n == Len(delivered)
  <1>1. /\ sent \in Seq(Seq(Byte))
        /\ delivered \in Seq([seq : Nat, msg : Seq(Byte)])
        /\ s \in Nat
    BY DEF IInv, TypeOK
  <1>2. d \in [seq : Nat, msg : Seq(Byte)] /\ d.seq = s /\ d.msg = sent[s]
    BY <1>1
  <1>2a. delivered' = Append(delivered, d)
    OBVIOUS
  <1> HIDE DEF d
  <1>3. /\ n \in Nat
        /\ Len(delivered') = n + 1
        /\ DOMAIN delivered' = 1..(n + 1)
        /\ DOMAIN delivered = 1..n
        /\ \A i \in 1..n : delivered'[i] = delivered[i]
        /\ delivered'[n + 1] = d
        /\ \A i \in 1..n : delivered[i].seq \in Nat
    <2>1. \A i \in 1..n : delivered[i] \in [seq : Nat, msg : Seq(Byte)]
      BY <1>1, ElementOfSeq
    <2> QED BY SMTT(30), <1>1, <1>2, <1>2a, <2>1
  <1>4. DeliveredWhole'
    BY <1>2, <1>3 DEF IInv, HistoryInv, DeliveredWhole
  <1>5. \A i \in 1..n : delivered[i].seq <= incomingSequence
    <2>1. SUFFICES ASSUME NEW i \in 1..n
                   PROVE  delivered[i].seq <= incomingSequence
      OBVIOUS
    <2>2. delivered # <<>> /\ incomingSequence = delivered[n].seq
      BY <1>3 DEF IInv, HistoryInv, Abstract!LastSeq
    <2>3. i < n => delivered[i].seq < delivered[n].seq
      BY <1>3 DEF IInv, HistoryInv, DeliveredInOrder
    <2> QED BY <1>3, <2>2, <2>3
  <1>6. DeliveredInOrder'
    <2>1. SUFFICES ASSUME NEW i \in 1..(n + 1), NEW j \in 1..(n + 1), i < j
                   PROVE  delivered'[i].seq < delivered'[j].seq
      BY <1>3 DEF DeliveredInOrder
    <2>2. CASE j = n + 1
      <3>1. i \in 1..n /\ delivered[i].seq <= incomingSequence
        BY <1>3, <1>5, <2>1, <2>2
      <3>2. incomingSequence \in Nat
        BY DEF IInv, TypeOK
      <3> QED BY SMTT(30), <1>1, <1>2, <1>3, <2>2, <3>1, <3>2
    <2>3. CASE j # n + 1
      <3>1. i \in 1..n /\ j \in 1..n
        BY <1>3, <2>1, <2>3
      <3> QED BY <1>3, <2>1, <3>1 DEF IInv, HistoryInv, DeliveredInOrder
    <2> QED BY <2>2, <2>3
  <1>7. incomingSequence' = Abstract!LastSeq(delivered)'
    BY <1>2, <1>3 DEF Abstract!LastSeq
  <1> QED BY <1>4, <1>6, <1>7 DEF HistoryInv

\* The buffer kept for p's message is a prefix of it.
LEMMA GatheredPrefix ==
    ASSUME IInv, NEW p \in network
    PROVE  /\ p \in Packet
           /\ p.seq \in DOMAIN sent /\ p.seq \in Nat /\ PieceOf(p, sent[p.seq])
           /\ sent[p.seq] \in Seq(Byte)
           /\ Gathered(p) \in Seq(Byte)
           /\ Len(Gathered(p)) <= MAX_MSGLEN
           /\ Len(Gathered(p)) <= Len(sent[p.seq])
           /\ Gathered(p) = SubSeq(sent[p.seq], 1, Len(Gathered(p)))
           /\ Gathered(p) # <<>> => Available(p.seq, Len(Gathered(p)))
  <1>1. /\ p \in Packet /\ p.seq \in Nat
        /\ p.seq \in DOMAIN sent /\ PieceOf(p, sent[p.seq])
        /\ sent[p.seq] \in Seq(Byte)
        /\ fragmentBuffer \in Seq(Byte) /\ Len(fragmentBuffer) <= MAX_MSGLEN
    BY DEF IInv, TypeOK, NetworkInv, Packet
  <1>2. CASE Gathered(p) = <<>>
    <2>1. SubSeq(sent[p.seq], 1, 0) = <<>> /\ Len(<<>>) = 0 /\ <<>> \in Seq(Byte)
      BY <1>1, SubSeqEmpty
    <2>2. Len(sent[p.seq]) \in Nat
      BY <1>1
    <2> QED BY <1>1, <1>2, <2>1, <2>2, NetchanAssumption
  <1>3. CASE Gathered(p) # <<>>
    <2>1. p.seq = fragmentSequence /\ Gathered(p) = fragmentBuffer
      BY <1>3 DEF Gathered
    <2> QED BY <1>1, <1>3, <2>1 DEF IInv, ReceiverInv, ChainInv
  <1> QED BY <1>2, <1>3

\* The next fragment of a message extends the prefix.
LEMMA ExtendPrefix ==
    ASSUME IInv, NEW p \in network, p.fragmented, p.start = Len(Gathered(p))
    PROVE  LET whole == Gathered(p) \o p.data
           IN  /\ whole \in Seq(Byte)
               /\ Len(whole) = p.start + Len(p.data)
               /\ Len(whole) <= Len(sent[p.seq])
               /\ whole = SubSeq(sent[p.seq], 1, Len(whole))
               /\ Len(p.data) # FRAGMENT_SIZE => whole = sent[p.seq]
  <1> DEFINE m == sent[p.seq]
             k == p.start
             l == k + Len(p.data)
  <1>1. /\ m \in Seq(Byte)
        /\ p.data \in Seq(Byte)
        /\ k \in Nat /\ l \in Nat /\ k <= l
        /\ Gathered(p) \in Seq(Byte)
        /\ Gathered(p) = SubSeq(m, 1, k)
    BY GatheredPrefix DEF Packet
  <1>2. /\ l <= Len(m)
        /\ p.data = SubSeq(m, k + 1, l)
        /\ Len(p.data) # FRAGMENT_SIZE => l = Len(m)
    BY GatheredPrefix DEF PieceOf
  <1>3. SubSeq(m, 1, k) \o SubSeq(m, k + 1, l) = SubSeq(m, 1, l)
    <2> HIDE DEF k, l, m
    <2>0. Len(m) \in Nat /\ k \in Nat /\ l \in Nat /\ k <= l /\ l <= Len(m)
      BY <1>1, <1>2
    <2>1. 1 \in 1..Len(m) + 1 /\ k \in 1 - 1 .. Len(m) /\ l \in k..Len(m)
      BY <2>0
    <2> QED BY <1>1, <2>1, ConcatAdjacentSubSeq
  <1>4. /\ Gathered(p) \o p.data \in Seq(Byte)
        /\ Len(Gathered(p) \o p.data) = l
    BY <1>1
  <1>5. Gathered(p) \o p.data = SubSeq(m, 1, l)
    BY <1>1, <1>2, <1>3
  <1>6. l = Len(m) => SubSeq(m, 1, l) = m
    <2> HIDE DEF m, l
    <2> QED BY <1>1, SubSeqFull
  <1> QED BY <1>2, <1>4, <1>5, <1>6

(* Netchan_Process keeps the inductive invariant whichever packet of the wire  *)
(* it is given, old, duplicated or early.                                    *)
LEMMA ProcessStep ==
    ASSUME IInv, NEW p \in network, Netchan_Process(p)
    PROVE  IInv'
  <1>1. /\ p.seq > incomingSequence
        /\ UNCHANGED <<sender, network, sent>>
        /\ UNCHANGED <<outgoingSequence, unsentFragments, unsentFragmentStart,
                       unsentBuffer>>
    BY DEF Netchan_Process, NotStale, sender
  <1>2. /\ p \in Packet
        /\ p.seq \in DOMAIN sent /\ p.seq \in Nat /\ PieceOf(p, sent[p.seq])
        /\ sent[p.seq] \in Seq(Byte)
        /\ TypeOK
    BY GatheredPrefix DEF IInv
  <1>3. SenderInv' /\ NetworkInv'
    BY <1>1 DEF IInv, SenderInv, NetworkInv
  <1>4. ASSUME NEW s, NEW k, Available(s, k) PROVE Available(s, k)'
    BY <1>1, <1>4 DEF Available
  <1>5. SUFFICES /\ fragmentBuffer' \in Seq(Byte)
                 /\ Len(fragmentBuffer') <= MAX_MSGLEN
                 /\ fragmentSequence' \in Nat
                 /\ incomingSequence' \in Nat
                 /\ delivered' \in Seq([seq : Nat, msg : Seq(Byte)])
                 /\ ReceiverInv'
                 /\ fragmentBuffer' # <<>> =>
                        Available(fragmentSequence', Len(fragmentBuffer'))
                 /\ HistoryInv'
    <2>1. TypeOK'
      BY <1>1, <1>2, <1>5 DEF TypeOK
    <2>2. ASSUME NEW q \in network', q.fragmented, Len(q.data) = FRAGMENT_SIZE
          PROVE  Available(q.seq, q.start + FRAGMENT_SIZE)'
      BY <1>1, <1>4, <2>2 DEF IInv, ChainInv
    <2>3. fragmentBuffer' # <<>> =>
              Available(fragmentSequence, Len(fragmentBuffer))'
      BY <1>1, <1>5 DEF Available
    <2> QED BY <1>3, <1>5, <2>1, <2>2, <2>3 DEF IInv, ChainInv
  <1>6. ASSUME NEW msg, msg = sent[p.seq], Accept(p, msg)
        PROVE  /\ incomingSequence' \in Nat
               /\ delivered' \in Seq([seq : Nat, msg : Seq(Byte)])
               /\ HistoryInv'
    <2>1. /\ incomingSequence' = p.seq
          /\ delivered' = Append(delivered, [seq |-> p.seq, msg |-> sent[p.seq]])
      BY <1>6 DEF Accept
    <2> QED BY <1>1, <1>2, <2>1, AcceptHistory DEF TypeOK
  <1>7. ASSUME UNCHANGED <<incomingSequence, delivered>>
        PROVE  HistoryInv'
    BY <1>1, <1>7 DEF IInv, HistoryInv, DeliveredWhole, DeliveredInOrder,
                      Abstract!LastSeq
  <1>8. CASE ProcessWhole(p)
    <2>1. /\ Accept(p, p.data) /\ p.data = sent[p.seq]
          /\ UNCHANGED <<fragmentSequence, fragmentBuffer>>
      BY <1>2, <1>8 DEF ProcessWhole, PieceOf
    <2>2. ReceiverInv'
      BY <1>1, <2>1 DEF IInv, ReceiverInv
    <2> QED BY <1>2, <1>6, <2>1, <2>2 DEF IInv, TypeOK, ChainInv
  <1>9. CASE ProcessFragmentIgnored(p)
    <2>1. /\ fragmentSequence' = p.seq /\ fragmentBuffer' = Gathered(p)
          /\ UNCHANGED <<incomingSequence, delivered>>
      BY <1>9 DEF ProcessFragmentIgnored
    <2>2. ReceiverInv'
      BY <1>1, <2>1, GatheredPrefix DEF ReceiverInv
    <2> QED BY <1>2, <1>7, <2>1, <2>2, GatheredPrefix DEF TypeOK
  <1>10. CASE ProcessFragment(p)
    <2> DEFINE whole == Gathered(p) \o p.data
    <2>1. /\ p.fragmented /\ p.start = Len(Gathered(p))
          /\ Len(whole) <= MAX_MSGLEN
          /\ fragmentSequence' = p.seq
      BY <1>10 DEF ProcessFragment
    <2>2. /\ whole \in Seq(Byte)
          /\ Len(whole) = p.start + Len(p.data)
          /\ Len(whole) <= Len(sent[p.seq])
          /\ whole = SubSeq(sent[p.seq], 1, Len(whole))
          /\ Len(p.data) # FRAGMENT_SIZE => whole = sent[p.seq]
      BY <2>1, ExtendPrefix
    <2>3. CASE Len(p.data) = FRAGMENT_SIZE
      <3>1. fragmentBuffer' = whole /\ UNCHANGED <<incomingSequence, delivered>>
        BY <1>10, <2>3 DEF ProcessFragment
      <3>2. ReceiverInv'
        BY <1>1, <1>2, <2>1, <2>2, <3>1 DEF ReceiverInv
      <3>3. Available(p.seq, Len(whole))
        BY <2>1, <2>2, <2>3 DEF IInv, ChainInv
      <3> QED BY <1>2, <1>7, <2>1, <2>2, <3>1, <3>2, <3>3 DEF TypeOK
    <2>4. CASE Len(p.data) # FRAGMENT_SIZE
      <3>1. fragmentBuffer' = <<>> /\ Accept(p, whole)
        BY <1>10, <2>4 DEF ProcessFragment
      <3>2. ReceiverInv'
        BY <3>1 DEF ReceiverInv
      <3>3. <<>> \in Seq(Byte) /\ Len(<<>>) <= MAX_MSGLEN
        BY NetchanAssumption
      <3> HIDE DEF whole
      <3> QED BY <1>2, <1>6, <2>1, <2>2, <2>4, <3>1, <3>2, <3>3
    <2> QED BY <2>3, <2>4
  <1> QED BY <1>8, <1>9, <1>10 DEF Netchan_Process

-----------------------------------------------------------------------------
(* The theorems. *)

(* A channel fresh from Netchan_Setup satisfies the inductive invariant.      *)
LEMMA InitIInv == Init => IInv
  <1> SUFFICES ASSUME Init PROVE IInv
    OBVIOUS
  <1>1. TypeOK
    <2>1. \A S : <<>> \in Seq(S)
      OBVIOUS
    <2>2. Len(<<>>) <= MAX_MSGLEN
      BY NetchanAssumption
    <2>3. unsentFragments \in BOOLEAN
      BY DEF Init
    <2>4. /\ outgoingSequence \in Nat \ {0} /\ unsentFragmentStart \in 0..Len(unsentBuffer)
          /\ incomingSequence \in Nat /\ fragmentSequence \in Nat
      BY DEF Init
    <2>5. /\ unsentBuffer \in Seq(Byte) /\ Len(unsentBuffer) <= MAX_MSGLEN
          /\ fragmentBuffer \in Seq(Byte) /\ Len(fragmentBuffer) <= MAX_MSGLEN
          /\ sent \in Seq(Seq(Byte))
          /\ delivered \in Seq([seq : Nat, msg : Seq(Byte)])
      BY <2>1, <2>2 DEF Init
    <2>6. network \subseteq Packet
      BY DEF Init
    <2> QED BY <2>3, <2>4, <2>5, <2>6 DEF TypeOK
  <1>2. SenderInv /\ NetworkInv /\ ReceiverInv /\ ChainInv /\ HistoryInv
    BY DEF Init, SenderInv, NetworkInv, ReceiverInv, ChainInv, HistoryInv,
           DeliveredWhole, DeliveredInOrder, Abstract!LastSeq
  <1> QED BY <1>1, <1>2 DEF IInv

(* No step of the sender, of the receiver or of the network breaks it.        *)
LEMMA NextIInv == IInv /\ [Next]_vars => IInv'
  <1> SUFFICES ASSUME IInv, [Next]_vars PROVE IInv'
    OBVIOUS
  <1>1. ASSUME NEW m \in Message, Netchan_Transmit(m) PROVE IInv'
    BY <1>1, TransmitStep
  <1>2. CASE Netchan_TransmitNextFragment
    BY <1>2, TransmitNextFragmentStep
  <1>3. ASSUME NEW p \in network, Netchan_Process(p) PROVE IInv'
    BY <1>3, ProcessStep
  <1>4. CASE UNCHANGED vars
    <2>1. UNCHANGED <<outgoingSequence, unsentFragments, unsentFragmentStart,
                      unsentBuffer, network, incomingSequence, fragmentSequence,
                      fragmentBuffer, sent, delivered>>
      BY <1>4 DEF vars, sender, receiver
    <2> QED BY <2>1 DEF IInv, TypeOK, SenderInv, NetworkInv, ReceiverInv, ChainInv,
            Available, HistoryInv, DeliveredWhole, DeliveredInOrder, Abstract!LastSeq
  <1> QED BY <1>1, <1>2, <1>3, <1>4 DEF Next

(* The inductive invariant holds in every reachable state of the channel.     *)
THEOREM Invariance == Spec => []IInv
  <1> QED BY InitIInv, NextIInv, PTL DEF Spec

\* The variables of net_chan.c keep their types, and neither the fragment
\* buffer nor the unsent buffer ever holds more than MAX_MSGLEN.
THEOREM TypeCorrect == Spec => []TypeOK
  <1>1. IInv => TypeOK
    BY DEF IInv
  <1> QED BY <1>1, Invariance, PTL

\* Whatever the network loses, duplicates or reorders, a message that
\* Netchan_Process hands up is the one transmitted under its number.
THEOREM WholeMessages == Spec => []DeliveredWhole
  <1>1. IInv => DeliveredWhole
    BY DEF IInv, HistoryInv
  <1> QED BY <1>1, Invariance, PTL

\* Messages come up in the order of their numbers, none of them twice.
THEOREM OrderedMessages == Spec => []DeliveredInOrder
  <1>1. IInv => DeliveredInOrder
    BY DEF IInv, HistoryInv
  <1> QED BY <1>1, Invariance, PTL

\* A partly reassembled message can always be completed.
THEOREM ReassemblyContinues == Spec => []ReassemblyCanContinue
  <1>1. IInv => ReassemblyCanContinue
    <2> SUFFICES ASSUME IInv, fragmentBuffer # <<>>
                 PROVE  \/ \E p \in network : /\ p.seq = fragmentSequence
                                              /\ p.fragmented
                                              /\ p.start = Len(fragmentBuffer)
                        \/ /\ unsentFragments
                           /\ outgoingSequence = fragmentSequence
                           /\ unsentFragmentStart <= Len(fragmentBuffer)
      BY DEF ReassemblyCanContinue
    <2>1. Available(fragmentSequence, Len(fragmentBuffer))
      BY DEF IInv, ChainInv
    <2>2. Len(fragmentBuffer) \in Nat
      BY DEF IInv, TypeOK
    <2> QED BY <2>1, <2>2 DEF Available
  <1> QED BY <1>1, Invariance, PTL

\* A step of the netchan is a step of a message channel or changes nothing that
\* the channel's users see.
LEMMA StepSimulation == IInv /\ [Next]_vars => [Abstract!Next]_(Abstract!chan)
  <1> SUFFICES ASSUME IInv, [Next]_vars PROVE [Abstract!Next]_(Abstract!chan)
    OBVIOUS
  <1>1. ASSUME NEW m \in Message, Netchan_Transmit(m) PROVE Abstract!Next
    BY <1>1 DEF Netchan_Transmit, Abstract!Next, Abstract!Send
  <1>2. CASE Netchan_TransmitNextFragment
    BY <1>2 DEF Netchan_TransmitNextFragment, Abstract!chan
  <1>3. ASSUME NEW p \in network, Netchan_Process(p)
        PROVE  Abstract!Next \/ UNCHANGED Abstract!chan
    <2>1. /\ UNCHANGED sent
          /\ p.seq > Abstract!LastSeq(delivered)
          /\ p.seq \in 1..Len(sent)
          /\ PieceOf(p, sent[p.seq])
      BY <1>3, GatheredPrefix DEF Netchan_Process, NotStale, IInv, HistoryInv, TypeOK
    <2>2. ASSUME Accept(p, sent[p.seq]) PROVE Abstract!Next
      BY <2>1, <2>2 DEF Accept, Abstract!Next, Abstract!Deliver
    <2>3. CASE ProcessWhole(p)
      BY <2>1, <2>2, <2>3 DEF ProcessWhole, PieceOf
    <2>4. CASE ProcessFragmentIgnored(p)
      BY <2>1, <2>4 DEF ProcessFragmentIgnored, Abstract!chan
    <2>5. CASE ProcessFragment(p)
      <3>1. p.fragmented /\ p.start = Len(Gathered(p))
        BY <2>5 DEF ProcessFragment
      <3>2. Len(p.data) # FRAGMENT_SIZE => Gathered(p) \o p.data = sent[p.seq]
        BY <3>1, ExtendPrefix
      <3>3. \/ UNCHANGED <<incomingSequence, delivered>>
            \/ Accept(p, sent[p.seq])
        BY <2>5, <3>2 DEF ProcessFragment
      <3> QED BY <2>1, <2>2, <3>3 DEF Abstract!chan
    <2> QED BY <1>3, <2>3, <2>4, <2>5 DEF Netchan_Process
  <1>4. CASE UNCHANGED vars
    BY <1>4 DEF vars, Abstract!chan
  <1> QED BY <1>1, <1>2, <1>3, <1>4 DEF Next

\* The netchan implements the message channel it is used as.
THEOREM Refinement == Spec => RefinesMessageChannel
  <1>1. Init => Abstract!Init
    BY DEF Init, Abstract!Init
  <1> QED BY <1>1, Invariance, StepSimulation, PTL
          DEF Spec, RefinesMessageChannel, Abstract!Spec
=============================================================================
