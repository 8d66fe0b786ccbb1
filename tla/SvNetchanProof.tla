--------------------------- MODULE SvNetchanProof ---------------------------
(***************************************************************************)
(* Proofs about SvNetchan for messages of any size, queues of any length   *)
(* and sequence numbers that wrap anywhere.  The inductive invariant ties  *)
(* the packet sent last to what is still unsent (LastInv), the message     *)
(* being sent to the sequence and the string it was encoded with           *)
(* (CurrentInv), and what waits in the queue to the client's last command  *)
(* (QueueInv), whose number and string go together (StringInv).            *)
(***************************************************************************)
EXTENDS SvNetchan, SequenceTheorems, TLAPS

\* What is unsent belongs to a message encoded for the present sequence.
CurrentInv ==
    /\ unsent > 0 => current.keySequence = outgoingSequence
    /\ ~current.msg.overtaken => current.string = current.msg.ack

\* What was not overtaken acknowledges the last client command still.
UpToDate(m) == ~m.overtaken => m.ack = lastClientCommand

QueueInv == \A i \in DOMAIN queue : UpToDate(queue[i])

\* The string kept is that of the command last counted.
StringInv == lastClientCommandString = lastClientCommand

\* The packet p was sent when so much of its message was unsent as is now.
Latest(p) ==
    /\ p.left = unsent
    /\ IF unsent > 0 THEN p.enc = current /\ p.sequence = outgoingSequence
                     ELSE outgoingSequence = Succ(p.sequence)

\* Packet q may follow packet p on the wire.
Follows(p, q) ==
    IF SameMessage(p, q) THEN q.enc = p.enc /\ q.left = p.left - 1 ELSE p.left = 0

\* Steps put one packet on the wire or two; the last one is the latest.
LastInv ==
    /\ Len(out) \in 0..2
    /\ Len(out) = 2 => Follows(out[1], out[2])
    /\ IF out = <<>> THEN unsent = 0 ELSE Latest(out[Len(out)])

KeyInv == KeyedBySequence /\ KeyedByAckUnlessOvertaken

IInv == TypeOK /\ CurrentInv /\ QueueInv /\ StringInv /\ LastInv /\ KeyInv

-----------------------------------------------------------------------------
(* Numbers and packets. *)

\* The next number is a number, and another one.
LEMMA SuccIsNumber ==
    ASSUME NEW n \in Number
    PROVE  Succ(n) \in Number /\ Succ(n) # n
  <1>1. Modulus \in Nat /\ Modulus > 2
    BY SvNetchanAssumption
  <1>2. CASE n + 1 = Modulus
    <2>1. (n + 1) % Modulus = 0
      BY <1>1, <1>2
    <2> QED BY <2>1, <1>1, <1>2 DEF Succ, Number
  <1>3. CASE n + 1 < Modulus
    <2>1. (n + 1) % Modulus = n + 1
      BY <1>1, <1>3 DEF Number
    <2> QED BY <2>1, <1>1, <1>3 DEF Succ, Number
  <1> QED BY <1>1, <1>2, <1>3 DEF Number

\* A command after the last one is a command.
LEMMA NextCommandIsCommand ==
    ASSUME lastClientCommand \in Command PROVE NextCommand \in Command
  <1> QED BY SvNetchanAssumption DEF NextCommand, Command

\* A step that sends packet p of what is now unsent leaves it the latest.
LEMMA FragmentIsLatest ==
    ASSUME TypeOK, CurrentInv, unsent > 0, NextFragment
    PROVE  /\ unsent' \in 0..MaxPackets - 1
           /\ outgoingSequence' \in Number
           /\ current' \in Encoded
           /\ CurrentInv'
           /\ NextFragmentPacket \in Sent
           /\ NextFragmentPacket.left = unsent'
           /\ NextFragmentPacket.enc = current /\ current' = current
           /\ NextFragmentPacket.sequence = outgoingSequence
           /\ outgoingSequence' = IF unsent' > 0 THEN outgoingSequence
                                                 ELSE Succ(outgoingSequence)
  <1>1. /\ unsent \in 1..MaxPackets - 1 /\ outgoingSequence \in Number
        /\ current \in Encoded
    BY SvNetchanAssumption DEF TypeOK
  <1>2. unsent' = unsent - 1 /\ current' = current
    BY DEF NextFragment
  <1>3. unsent' \in 0..MaxPackets - 1 /\ (unsent' > 0 <=> unsent # 1)
    BY <1>1, <1>2, SvNetchanAssumption
  <1>4. outgoingSequence' = IF unsent' > 0 THEN outgoingSequence
                                           ELSE Succ(outgoingSequence)
    BY <1>3 DEF NextFragment
  <1>5. outgoingSequence' \in Number
    BY <1>1, <1>4, SuccIsNumber
  <1>6. CurrentInv'
    BY <1>2, <1>3, <1>4, <1>1 DEF CurrentInv
  <1>7. /\ NextFragmentPacket \in Sent
        /\ NextFragmentPacket.left = unsent'
        /\ NextFragmentPacket.enc = current
        /\ NextFragmentPacket.sequence = outgoingSequence
    BY <1>1, <1>2, <1>3, SvNetchanAssumption DEF NextFragmentPacket, Sent
  <1> QED BY <1>1, <1>2, <1>3, <1>4, <1>5, <1>6, <1>7

\* So does handing a whole message to the netchan.
LEMMA FirstIsLatest ==
    ASSUME NEW m \in Message, NEW s \in Number, lastClientCommand \in Command,
           StringInv, UpToDate(m),
           Transmit(SV_Netchan_Encode(m, s), s)
    PROVE  LET enc == SV_Netchan_Encode(m, s)
               p   == FirstPacket(enc, s)
           IN  /\ unsent' \in 0..MaxPackets - 1
               /\ outgoingSequence' \in Number
               /\ current' \in Encoded
               /\ CurrentInv'
               /\ p \in Sent
               /\ p.left = unsent' /\ p.enc = enc /\ p.sequence = s
               /\ current' = enc
               /\ outgoingSequence' = IF unsent' > 0 THEN s ELSE Succ(s)
               /\ enc.keySequence = s
               /\ enc.msg = m /\ enc.string = lastClientCommand
  <1> DEFINE enc == SV_Netchan_Encode(m, s)
  <1> DEFINE p == FirstPacket(enc, s)
  <1>1. enc \in Encoded /\ enc.keySequence = s /\ enc.msg = m /\ enc.string = lastClientCommand
    BY DEF SV_Netchan_Encode, Encoded, StringInv
  <1>2. current' = enc /\ unsent' = m.packets - 1
    BY <1>1 DEF Transmit
  <1>3. m.packets \in 1..MaxPackets
    BY DEF Message
  <1>4. unsent' \in 0..MaxPackets - 1 /\ (unsent' > 0 <=> m.packets # 1)
    BY <1>2, <1>3, SvNetchanAssumption
  <1>5. outgoingSequence' = IF unsent' > 0 THEN s ELSE Succ(s)
    BY <1>1, <1>4 DEF Transmit
  <1>6. outgoingSequence' \in Number
    BY <1>5, SuccIsNumber
  <1>7. p = [enc |-> enc, sequence |-> s, left |-> m.packets - 1]
    BY <1>1 DEF FirstPacket
  <1>8. p \in Sent /\ p.left = unsent' /\ p.enc = enc /\ p.sequence = s
    BY <1>1, <1>2, <1>4, <1>7 DEF Sent
  <1>9. CurrentInv'
    BY <1>1, <1>2, <1>5 DEF CurrentInv, UpToDate
  <1> QED BY <1>1, <1>2, <1>4, <1>5, <1>6, <1>8, <1>9

\* Packet p is encoded as it should be.
WellKeyed(p) ==
    /\ p.enc.keySequence = p.sequence
    /\ ~p.enc.msg.overtaken => p.enc.string = p.enc.msg.ack

\* What a step that sends packet q first has to leave behind: q follows what was
\* sent before it, and is sent with the right key.
Continues(q) == WellKeyed(q) /\ (out # <<>> => Follows(out[Len(out)], q))

-----------------------------------------------------------------------------
(* The steps. *)

\* The fragment sent next continues the message that is on the wire.
LEMMA FragmentContinues ==
    ASSUME IInv, unsent > 0, NextFragment
    PROVE  Continues(NextFragmentPacket)
  <1>1. /\ NextFragmentPacket.left = unsent'
        /\ NextFragmentPacket.enc = current
        /\ NextFragmentPacket.sequence = outgoingSequence
        /\ unsent' = unsent - 1
    BY FragmentIsLatest DEF IInv, NextFragment
  <1>2. WellKeyed(NextFragmentPacket)
    BY <1>1 DEF IInv, CurrentInv, WellKeyed
  <1>3. out # <<>> => Latest(out[Len(out)])
    BY DEF IInv, LastInv
  <1>4. out # <<>> => Follows(out[Len(out)], NextFragmentPacket)
    BY <1>1, <1>3 DEF Latest, Follows, SameMessage
  <1> QED BY <1>2, <1>4 DEF Continues

\* A message transmitted through a free netchan follows a complete one.
LEMMA MessageContinues ==
    ASSUME IInv, unsent = 0, NEW n \in 1..MaxPackets, TransmitNow(n)
    PROVE  LET p == FirstPacket(SV_Netchan_Encode(Built(n), outgoingSequence),
                                outgoingSequence)
           IN  /\ out' = <<p>>
               /\ Continues(p)
               /\ Built(n) \in Message
  <1> DEFINE p == FirstPacket(SV_Netchan_Encode(Built(n), outgoingSequence),
                              outgoingSequence)
  <1>1. /\ Built(n) \in Message
        /\ UpToDate(Built(n)) /\ Built(n).ack = lastClientCommand
    BY DEF IInv, TypeOK, Built, Message, UpToDate
  <1>2. outgoingSequence \in Number /\ lastClientCommand \in Command /\ StringInv
    BY DEF IInv, TypeOK
  <1>3. out' = <<p>> /\ Transmit(SV_Netchan_Encode(Built(n), outgoingSequence), outgoingSequence)
    BY DEF TransmitNow
  <1>4. /\ p.enc = SV_Netchan_Encode(Built(n), outgoingSequence)
        /\ p.enc.keySequence = outgoingSequence
        /\ p.sequence = outgoingSequence
        /\ p.enc.msg = Built(n) /\ p.enc.string = lastClientCommand
    BY <1>1, <1>2, <1>3, FirstIsLatest
  <1>5. WellKeyed(p)
    BY <1>1, <1>4 DEF WellKeyed
  <1>6. ASSUME out # <<>> PROVE Follows(out[Len(out)], p)
    <2> DEFINE last == out[Len(out)]
    <2>1. Latest(last)
      BY <1>6 DEF IInv, LastInv
    <2>2. last \in Sent
      BY <1>6, ElementOfSeq, EmptySeq, LenProperties DEF IInv, TypeOK
    <2>3. last.sequence \in Number
      BY <2>2 DEF Sent
    <2>4. last.left = 0 /\ outgoingSequence = Succ(last.sequence)
      BY <2>1 DEF Latest
    <2>5. last.sequence # p.sequence
      BY <2>3, <2>4, <1>4, SuccIsNumber
    <2> QED BY <2>4, <2>5 DEF Follows, SameMessage
  <1> QED BY <1>1, <1>3, <1>5, <1>6 DEF Continues

\* Once packet q has been sent, it is the latest.
Leaves(q) ==
    /\ q.left = unsent'
    /\ IF unsent' > 0 THEN q.enc = current' /\ q.sequence = outgoingSequence'
                      ELSE outgoingSequence' = Succ(q.sequence)

\* One packet sent with the right key leaves the invariant of the wire.
LEMMA OnePacket ==
    ASSUME NEW q \in Sent, out' = <<q>>, WellKeyed(q), Leaves(q)
    PROVE  out' \in Seq(Sent) /\ LastInv' /\ KeyInv'
  <1>1. out' \in Seq(Sent) /\ Len(out') = 1 /\ out'[Len(out')] = q /\ out' # <<>>
    OBVIOUS
  <1>2. LastInv'
    BY <1>1 DEF LastInv, Latest, Leaves
  <1>3. KeyInv'
    BY <1>1 DEF KeyInv, KeyedBySequence, KeyedByAckUnlessOvertaken, WellKeyed
  <1> QED BY <1>1, <1>2, <1>3

\* So do two.
LEMMA TwoPackets ==
    ASSUME NEW p \in Sent, NEW q \in Sent, out' = <<p, q>>,
           WellKeyed(p), WellKeyed(q), Leaves(q), Follows(p, q)
    PROVE  out' \in Seq(Sent) /\ LastInv' /\ KeyInv'
  <1>1. /\ out' \in Seq(Sent) /\ Len(out') = 2 /\ out'[Len(out')] = q /\ out' # <<>>
        /\ DOMAIN out' = {1, 2} /\ out'[1] = p /\ out'[2] = q
    OBVIOUS
  <1>2. LastInv'
    BY <1>1 DEF LastInv, Latest, Leaves, Follows, SameMessage
  <1>3. KeyInv'
    BY <1>1 DEF KeyInv, KeyedBySequence, KeyedByAckUnlessOvertaken, WellKeyed
  <1> QED BY <1>1, <1>2, <1>3

\* Transmitting through a free netchan keeps the invariant.
LEMMA TransmitNowStep ==
    ASSUME IInv, unsent = 0, NEW n \in 1..MaxPackets, TransmitNow(n),
           nextId' = Succ(nextId), UNCHANGED client
    PROVE  IInv'
  <1> DEFINE enc == SV_Netchan_Encode(Built(n), outgoingSequence)
  <1> DEFINE p == FirstPacket(enc, outgoingSequence)
  <1>1. /\ nextId \in Number /\ outgoingSequence \in Number
        /\ lastClientCommand \in Command /\ lastClientCommandString \in Command
        /\ queue \in Seq(Message) /\ Len(queue) <= MaxQueue
        /\ lastClientCommand' = lastClientCommand
        /\ lastClientCommandString' = lastClientCommandString
    BY DEF IInv, TypeOK, client
  <1>2. out' = <<p>> /\ Continues(p) /\ Built(n) \in Message
    BY MessageContinues
  <1>3. UpToDate(Built(n)) /\ StringInv
    BY DEF Built, UpToDate, IInv
  <1>4. Transmit(enc, outgoingSequence) /\ queue' = queue
    BY DEF TransmitNow
  <1>5. /\ unsent' \in 0..MaxPackets - 1
        /\ outgoingSequence' \in Number
        /\ current' \in Encoded
        /\ CurrentInv'
        /\ p \in Sent
        /\ p.left = unsent' /\ p.enc = enc /\ p.sequence = outgoingSequence
        /\ current' = enc
        /\ outgoingSequence' = IF unsent' > 0 THEN outgoingSequence ELSE Succ(outgoingSequence)
    BY <1>1, <1>2, <1>3, <1>4, FirstIsLatest
  <1>6. Leaves(p)
    BY <1>5 DEF Leaves
  <1>7. WellKeyed(p)
    BY <1>2 DEF Continues
  <1>8. out' \in Seq(Sent) /\ LastInv' /\ KeyInv'
    BY <1>2, <1>5, <1>6, <1>7, OnePacket
  <1>9. nextId' \in Number
    BY <1>1, SuccIsNumber
  <1>10. TypeOK'
    BY <1>1, <1>4, <1>5, <1>8, <1>9 DEF TypeOK
  <1>11. QueueInv' /\ StringInv'
    BY <1>1, <1>4 DEF IInv, QueueInv, UpToDate, StringInv
  <1> QED BY <1>5, <1>8, <1>10, <1>11 DEF IInv

\* SV_Netchan_Transmit keeps it, behind unsent fragments too.
LEMMA TransmitStep ==
    ASSUME IInv, NEW n \in 1..MaxPackets, SV_Netchan_Transmit(n)
    PROVE  IInv'
  <1>1. CASE unsent > 0
    <2> DEFINE m == Built(n)
    <2>1. /\ nextId' = Succ(nextId) /\ lastClientCommand' = lastClientCommand
          /\ lastClientCommandString' = lastClientCommandString
          /\ Len(queue) < MaxQueue /\ queue' = Append(queue, m)
          /\ NextFragment /\ out' = <<NextFragmentPacket>>
      BY <1>1 DEF SV_Netchan_Transmit, client
    <2>2. /\ nextId \in Number /\ lastClientCommand \in Command
          /\ lastClientCommandString \in Command
          /\ queue \in Seq(Message)
      BY DEF IInv, TypeOK
    <2>3. m \in Message /\ UpToDate(m)
      BY <2>2 DEF Built, Message, UpToDate
    <2>4. /\ queue' \in Seq(Message) /\ Len(queue') = Len(queue) + 1
          /\ \A i \in DOMAIN queue' : (i \in DOMAIN queue /\ queue'[i] = queue[i]) \/ queue'[i] = m
      <3> HIDE DEF m
      <3>1. queue' = Append(queue, m) /\ queue \in Seq(Message) /\ m \in Message
        BY <2>1, <2>2, <2>3
      <3>2. /\ queue' \in Seq(Message) /\ Len(queue') = Len(queue) + 1
            /\ DOMAIN queue' = 1..Len(queue) + 1 /\ DOMAIN queue = 1..Len(queue)
            /\ Len(queue) \in Nat
            /\ \A i \in 1..Len(queue) : queue'[i] = queue[i]
            /\ queue'[Len(queue) + 1] = m
        BY <3>1, AppendProperties, LenProperties
      <3>3. ASSUME NEW i \in DOMAIN queue'
            PROVE  (i \in DOMAIN queue /\ queue'[i] = queue[i]) \/ queue'[i] = m
        <4>1. i \in 1..Len(queue) \/ i = Len(queue) + 1
          BY <3>2, <3>3
        <4> QED BY <3>2, <4>1
      <3> QED BY <3>2, <3>3
    <2>5. Len(queue') <= MaxQueue
      BY <2>1, <2>2, <2>4, SvNetchanAssumption, LenProperties
    <2>6. QueueInv' /\ StringInv'
      BY <2>1, <2>3, <2>4 DEF IInv, QueueInv, UpToDate, StringInv
    <2>7. /\ unsent' \in 0..MaxPackets - 1
          /\ outgoingSequence' \in Number
          /\ current' \in Encoded
          /\ CurrentInv'
          /\ NextFragmentPacket \in Sent
          /\ NextFragmentPacket.left = unsent'
          /\ NextFragmentPacket.enc = current /\ current' = current
          /\ NextFragmentPacket.sequence = outgoingSequence
          /\ outgoingSequence' = IF unsent' > 0 THEN outgoingSequence
                                                ELSE Succ(outgoingSequence)
      BY <1>1, <2>1, FragmentIsLatest DEF IInv
    <2>8. Leaves(NextFragmentPacket)
      BY <2>7 DEF Leaves
    <2>9. WellKeyed(NextFragmentPacket)
      BY <1>1, <2>1, FragmentContinues DEF Continues
    <2>10. out' \in Seq(Sent) /\ LastInv' /\ KeyInv'
      BY <2>1, <2>7, <2>8, <2>9, OnePacket
    <2>11. nextId' \in Number
      BY <2>1, <2>2, SuccIsNumber
    <2>12. TypeOK'
      BY <2>1, <2>2, <2>4, <2>5, <2>7, <2>10, <2>11 DEF TypeOK
    <2> QED BY <2>6, <2>7, <2>10, <2>12 DEF IInv
  <1>2. CASE ~(unsent > 0)
    <2>1. unsent = 0
      BY <1>2, SvNetchanAssumption DEF IInv, TypeOK
    <2>2. TransmitNow(n) /\ nextId' = Succ(nextId) /\ UNCHANGED client
      BY <1>2 DEF SV_Netchan_Transmit
    <2> QED BY <2>1, <2>2, TransmitNowStep
  <1> QED BY <1>1, <1>2

\* Head and Tail of what waits.
LEMMA QueueShrinks ==
    ASSUME IInv, queue # <<>>, queue' = Tail(queue), lastClientCommand' = lastClientCommand
    PROVE  /\ Head(queue) \in Message /\ UpToDate(Head(queue))
           /\ queue' \in Seq(Message) /\ Len(queue') <= MaxQueue
           /\ QueueInv'
  <1>1. queue \in Seq(Message) /\ Len(queue) <= MaxQueue /\ QueueInv
    BY DEF IInv, TypeOK
  <1>2. Len(queue) \in Nat /\ Len(queue) # 0 /\ DOMAIN queue = 1..Len(queue)
    BY <1>1, EmptySeq, LenProperties
  <1>3. Head(queue) = queue[1] /\ 1 \in DOMAIN queue
    BY <1>1, <1>2, HeadTailProperties
  <1>4. Head(queue) \in Message
    BY <1>1, <1>3, ElementOfSeq, <1>2
  <1>5. UpToDate(Head(queue))
    BY <1>1, <1>3 DEF QueueInv
  <1>6. /\ Tail(queue) \in Seq(Message) /\ Len(Tail(queue)) = Len(queue) - 1
        /\ \A i \in 1..Len(Tail(queue)) : Tail(queue)[i] = queue[i + 1]
    BY <1>1, HeadTailProperties
  <1>7. DOMAIN queue' = 1..Len(queue) - 1
    BY <1>6, LenProperties
  <1>8. Len(queue') <= MaxQueue
    BY <1>1, <1>2, <1>6, SvNetchanAssumption
  <1>9. ASSUME NEW i \in DOMAIN queue'
        PROVE  ~queue'[i].overtaken => queue'[i].ack = lastClientCommand'
    <2>1. i \in 1..Len(Tail(queue)) /\ i + 1 \in DOMAIN queue
      BY <1>2, <1>6, <1>7, <1>9
    <2>2. queue'[i] = queue[i + 1]
      BY <2>1, <1>6
    <2> QED BY <2>1, <2>2, <1>1 DEF QueueInv, UpToDate
  <1>10. QueueInv'
    BY <1>9 DEF QueueInv, UpToDate
  <1> QED BY <1>4, <1>5, <1>6, <1>8, <1>10

\* The last fragment and the queued message that goes out right behind it.
LEMMA LastFragment ==
    ASSUME IInv, unsent = 1, queue # <<>>, lastClientCommand' = lastClientCommand
    PROVE  LET s == Succ(outgoingSequence)
               p == NextFragmentPacket
               q == FirstPacket(Popped, s)
           IN  Transmit(Popped, s) /\ out' = <<p, q>> /\ queue' = Tail(queue)
                  => /\ p \in Sent /\ q \in Sent
                     /\ Continues(p) /\ Follows(p, q) /\ WellKeyed(q)
                     /\ Leaves(q)
                     /\ unsent' \in 0..MaxPackets - 1
                     /\ outgoingSequence' \in Number
                     /\ current' \in Encoded
                     /\ CurrentInv'
  <1> DEFINE s == Succ(outgoingSequence)
  <1> DEFINE p == NextFragmentPacket
  <1> DEFINE q == FirstPacket(Popped, s)
  <1> SUFFICES ASSUME Transmit(Popped, s), out' = <<p, q>>, queue' = Tail(queue)
               PROVE  /\ p \in Sent /\ q \in Sent
                      /\ Continues(p) /\ Follows(p, q) /\ WellKeyed(q)
                      /\ Leaves(q)
                      /\ unsent' \in 0..MaxPackets - 1
                      /\ outgoingSequence' \in Number
                      /\ current' \in Encoded
                      /\ CurrentInv'
    OBVIOUS
  <1>1. /\ outgoingSequence \in Number /\ lastClientCommand \in Command
        /\ current \in Encoded /\ unsent \in 0..MaxPackets - 1
        /\ current.keySequence = outgoingSequence
        /\ ~current.msg.overtaken => current.string = current.msg.ack
    BY DEF IInv, TypeOK, CurrentInv
  <1>2. s \in Number /\ s # outgoingSequence
    BY <1>1, SuccIsNumber
  <1>3. Head(queue) \in Message /\ UpToDate(Head(queue)) /\ StringInv
    BY QueueShrinks DEF IInv
  <1>4. Popped = SV_Netchan_Encode(Head(queue), s)
    BY DEF Popped
  <1>5. /\ unsent' \in 0..MaxPackets - 1
        /\ outgoingSequence' \in Number
        /\ current' \in Encoded
        /\ CurrentInv'
        /\ q \in Sent
        /\ q.left = unsent' /\ q.enc = Popped /\ q.sequence = s
        /\ current' = Popped
        /\ outgoingSequence' = IF unsent' > 0 THEN s ELSE Succ(s)
        /\ Popped.keySequence = s
        /\ Popped.msg = Head(queue) /\ Popped.string = lastClientCommand
    BY <1>1, <1>2, <1>3, <1>4, FirstIsLatest
  <1>6. /\ p = [enc |-> current, sequence |-> outgoingSequence, left |-> unsent - 1]
        /\ 0 \in 0..MaxPackets - 1 /\ unsent - 1 = 0
    BY SvNetchanAssumption DEF NextFragmentPacket
  <1>7. p \in Sent /\ p.left = 0 /\ p.enc = current /\ p.sequence = outgoingSequence
    BY <1>1, <1>6 DEF Sent
  <1>8. WellKeyed(p)
    BY <1>1, <1>7 DEF WellKeyed
  <1>9. out # <<>> => Latest(out[Len(out)])
    BY DEF IInv, LastInv
  <1>10. out # <<>> => Follows(out[Len(out)], p)
    BY <1>7, <1>9 DEF Latest, Follows, SameMessage
  <1>11. Follows(p, q)
    BY <1>2, <1>5, <1>7 DEF Follows, SameMessage
  <1>12. WellKeyed(q)
    BY <1>3, <1>5 DEF WellKeyed, UpToDate
  <1>13. Leaves(q)
    BY <1>5 DEF Leaves
  <1> QED BY <1>5, <1>7, <1>8, <1>10, <1>11, <1>12, <1>13 DEF Continues

\* SV_Netchan_TransmitNextFragment keeps the invariant.
LEMMA TransmitNextFragmentStep ==
    ASSUME IInv, SV_Netchan_TransmitNextFragment
    PROVE  IInv'
  <1> DEFINE s == Succ(outgoingSequence)
  <1> DEFINE q == FirstPacket(Popped, s)
  <1>1. /\ nextId \in Number /\ lastClientCommand \in Command
        /\ lastClientCommandString \in Command
        /\ nextId' = nextId /\ lastClientCommand' = lastClientCommand
        /\ lastClientCommandString' = lastClientCommandString
        /\ queue \in Seq(Message) /\ Len(queue) <= MaxQueue
    BY DEF IInv, TypeOK, SV_Netchan_TransmitNextFragment, client
  <1>1a. StringInv'
    BY <1>1 DEF IInv, StringInv
  <1>2. CASE unsent = 1 /\ queue # <<>>
    <2>1. Transmit(Popped, s) /\ out' = <<NextFragmentPacket, q>> /\ queue' = Tail(queue)
      BY <1>2 DEF SV_Netchan_TransmitNextFragment
    <2>2. /\ NextFragmentPacket \in Sent /\ q \in Sent
          /\ Continues(NextFragmentPacket) /\ WellKeyed(q) /\ Leaves(q)
          /\ Follows(NextFragmentPacket, q)
          /\ unsent' \in 0..MaxPackets - 1
          /\ outgoingSequence' \in Number
          /\ current' \in Encoded
          /\ CurrentInv'
      BY <1>1, <1>2, <2>1, LastFragment
    <2>3. WellKeyed(NextFragmentPacket)
      BY <2>2 DEF Continues
    <2>4. out' \in Seq(Sent) /\ LastInv' /\ KeyInv'
      BY <2>1, <2>2, <2>3, TwoPackets
    <2>5. queue' \in Seq(Message) /\ Len(queue') <= MaxQueue /\ QueueInv'
      BY <1>1, <1>2, <2>1, QueueShrinks
    <2>6. TypeOK'
      BY <1>1, <2>2, <2>4, <2>5 DEF TypeOK
    <2> QED BY <1>1a, <2>2, <2>4, <2>5, <2>6 DEF IInv
  <1>3. CASE ~(unsent = 1 /\ queue # <<>>)
    <2>1. unsent > 0 /\ NextFragment /\ out' = <<NextFragmentPacket>> /\ queue' = queue
      BY <1>3 DEF SV_Netchan_TransmitNextFragment
    <2>2. /\ unsent' \in 0..MaxPackets - 1
          /\ outgoingSequence' \in Number
          /\ current' \in Encoded
          /\ CurrentInv'
          /\ NextFragmentPacket \in Sent
          /\ NextFragmentPacket.left = unsent'
          /\ NextFragmentPacket.enc = current /\ current' = current
          /\ NextFragmentPacket.sequence = outgoingSequence
          /\ outgoingSequence' = IF unsent' > 0 THEN outgoingSequence
                                                ELSE Succ(outgoingSequence)
      BY <2>1, FragmentIsLatest DEF IInv
    <2>3. Leaves(NextFragmentPacket)
      BY <2>2 DEF Leaves
    <2>4. WellKeyed(NextFragmentPacket)
      BY <2>1, FragmentContinues DEF Continues
    <2>5. out' \in Seq(Sent) /\ LastInv' /\ KeyInv'
      BY <2>1, <2>2, <2>3, <2>4, OnePacket
    <2>6. QueueInv'
      BY <1>1, <2>1 DEF IInv, QueueInv, UpToDate
    <2>7. TypeOK'
      BY <1>1, <2>1, <2>2, <2>5 DEF TypeOK
    <2> QED BY <1>1a, <2>2, <2>5, <2>6, <2>7 DEF IInv
  <1> QED BY <1>2, <1>3

\* What an executed client command overtakes is not current any more; the
\* netchan and what was sent are left alone.
LEMMA ClientCommandStep ==
    ASSUME IInv, ClientCommand PROVE IInv'
  <1>1. /\ lastClientCommand' \in Command /\ lastClientCommandString' = lastClientCommand'
        /\ nextId' = nextId /\ outgoingSequence' = outgoingSequence /\ current' = current
        /\ unsent' = unsent /\ queue' = Overtaken /\ out' = out
    BY NextCommandIsCommand DEF ClientCommand, IInv, TypeOK
  <1>2. /\ queue \in Seq(Message) /\ Len(queue) <= MaxQueue
        /\ DOMAIN queue = 1..Len(queue) /\ Len(queue) \in Nat
    BY LenProperties DEF IInv, TypeOK
  <1>3. /\ DOMAIN queue' = 1..Len(queue)
        /\ \A i \in 1..Len(queue) : queue'[i] \in Message /\ queue'[i].overtaken
    <2> SUFFICES ASSUME NEW i \in 1..Len(queue)
                 PROVE  queue'[i] \in Message /\ queue'[i].overtaken
      BY <1>1, <1>2 DEF Overtaken
    <2>1. queue[i] \in Message
      BY <1>2
    <2>2. queue'[i] = [queue[i] EXCEPT !.overtaken = TRUE]
      BY <1>1, <1>2 DEF Overtaken
    <2> QED BY <2>1, <2>2 DEF Message
  <1>4. queue' = [i \in 1..Len(queue) |-> queue'[i]]
    BY <1>1, <1>2 DEF Overtaken
  <1>5. queue' \in Seq(Message) /\ Len(queue') = Len(queue)
    BY <1>2, <1>3, <1>4, SMTT(30)
  <1>6. TypeOK'
    BY <1>1, <1>2, <1>5 DEF IInv, TypeOK
  <1>7. CurrentInv' /\ StringInv'
    BY <1>1 DEF IInv, CurrentInv, StringInv
  <1>8. QueueInv'
    BY <1>3 DEF QueueInv, UpToDate
  <1>9. LastInv'
    BY <1>1 DEF IInv, LastInv, Latest, Follows, SameMessage
  <1>10. KeyInv'
    BY <1>1 DEF IInv, KeyInv, KeyedBySequence, KeyedByAckUnlessOvertaken
  <1> QED BY <1>6, <1>7, <1>8, <1>9, <1>10 DEF IInv

-----------------------------------------------------------------------------
(* The theorems. *)

\* Nothing has been sent at first.
LEMMA InitIInv == Init => IInv
  <1> SUFFICES ASSUME Init PROVE IInv
    OBVIOUS
  <1>1. /\ nextId = 1 /\ lastClientCommand = 0 /\ lastClientCommandString = 0
        /\ outgoingSequence = 1
        /\ current = [msg |-> NoMessage, string |-> 0, keySequence |-> 0]
        /\ unsent = 0 /\ queue = <<>> /\ out = <<>>
    BY DEF Init
  <1>2. /\ 1 \in Number /\ 0 \in Number /\ 0 \in Command /\ 0 \in 0..MaxPackets - 1
        /\ 1 \in 1..MaxPackets
    BY SvNetchanAssumption DEF Number, Command
  <1>3. NoMessage \in Message
    BY <1>2 DEF NoMessage, Message
  <1>4. current \in Encoded
    BY <1>1, <1>2, <1>3 DEF Encoded
  <1>5. Len(queue) = 0 /\ Len(out) = 0 /\ DOMAIN queue = {} /\ DOMAIN out = {}
    BY <1>1
  <1>6. TypeOK
    BY <1>1, <1>2, <1>4, <1>5, SvNetchanAssumption DEF TypeOK
  <1>7. CurrentInv
    BY <1>1 DEF CurrentInv, NoMessage
  <1>8. QueueInv /\ StringInv /\ KeyInv
    BY <1>1, <1>5 DEF QueueInv, StringInv, KeyInv, KeyedBySequence, KeyedByAckUnlessOvertaken
  <1>9. LastInv
    BY <1>1, <1>5 DEF LastInv
  <1> QED BY <1>6, <1>7, <1>8, <1>9 DEF IInv

\* Every step of the server keeps the invariant.
LEMMA NextIInv == IInv /\ [Next]_vars => IInv'
  <1> SUFFICES ASSUME IInv, [Next]_vars PROVE IInv'
    OBVIOUS
  <1>1. CASE Frame
    <2>1. PICK n \in 1..MaxPackets : SV_SendClientMessages(n)
      BY <1>1 DEF Frame
    <2> QED BY <2>1, TransmitStep, TransmitNextFragmentStep DEF SV_SendClientMessages
  <1>2. CASE \E n \in 1..MaxPackets : SendGameState(n)
    BY <1>2, TransmitStep DEF SendGameState
  <1>3. CASE ClientCommand
    BY <1>3, ClientCommandStep
  <1>4. CASE UNCHANGED vars
    <2>1. /\ nextId' = nextId /\ lastClientCommand' = lastClientCommand
          /\ lastClientCommandString' = lastClientCommandString
          /\ outgoingSequence' = outgoingSequence /\ current' = current
          /\ unsent' = unsent /\ queue' = queue /\ out' = out
      BY <1>4 DEF vars, client
    <2> QED BY <2>1 DEF IInv, TypeOK, CurrentInv, QueueInv, UpToDate, StringInv, LastInv, Latest,
                        Follows, SameMessage, KeyInv, KeyedBySequence, KeyedByAckUnlessOvertaken
  <1> QED BY <1>1, <1>2, <1>3, <1>4 DEF Next

\* What a step sends first follows what was sent last.
LEMMA FirstFollows ==
    ASSUME IInv, Next, out' # out, out # <<>>
    PROVE  Follows(out[Len(out)], out'[1])
  <1>1. unsent = 0 \/ unsent > 0
    BY SvNetchanAssumption DEF IInv, TypeOK
  <1>2. ASSUME NEW n \in 1..MaxPackets, SV_Netchan_Transmit(n)
        PROVE  Follows(out[Len(out)], out'[1])
    <2>1. CASE unsent > 0
      <3>1. NextFragment /\ out' = <<NextFragmentPacket>>
        BY <1>2, <2>1 DEF SV_Netchan_Transmit
      <3>2. Continues(NextFragmentPacket)
        BY <2>1, <3>1, FragmentContinues
      <3> QED BY <3>1, <3>2 DEF Continues
    <2>2. CASE unsent = 0
      <3> DEFINE p == FirstPacket(SV_Netchan_Encode(Built(n), outgoingSequence),
                                  outgoingSequence)
      <3>1. TransmitNow(n)
        BY <1>2, <2>2 DEF SV_Netchan_Transmit
      <3>2. out' = <<p>> /\ Continues(p)
        BY <2>2, <3>1, MessageContinues
      <3> QED BY <3>2 DEF Continues
    <2> QED BY <1>1, <2>1, <2>2
  <1>3. ASSUME SV_Netchan_TransmitNextFragment
        PROVE  Follows(out[Len(out)], out'[1])
    <2>1. CASE unsent = 1 /\ queue # <<>>
      <3> DEFINE q == FirstPacket(Popped, Succ(outgoingSequence))
      <3>1. /\ Transmit(Popped, Succ(outgoingSequence))
            /\ out' = <<NextFragmentPacket, q>> /\ queue' = Tail(queue)
        BY <1>3, <2>1 DEF SV_Netchan_TransmitNextFragment
      <3>2. lastClientCommand' = lastClientCommand
        BY <1>3 DEF SV_Netchan_TransmitNextFragment, client
      <3>3. Continues(NextFragmentPacket)
        BY <2>1, <3>1, <3>2, LastFragment
      <3> QED BY <3>1, <3>3 DEF Continues
    <2>2. CASE ~(unsent = 1 /\ queue # <<>>)
      <3>1. unsent > 0 /\ NextFragment /\ out' = <<NextFragmentPacket>>
        BY <1>3, <2>2 DEF SV_Netchan_TransmitNextFragment
      <3>2. Continues(NextFragmentPacket)
        BY <3>1, FragmentContinues
      <3> QED BY <3>1, <3>2 DEF Continues
    <2> QED BY <2>1, <2>2
  <1>4. ~ClientCommand
    BY DEF ClientCommand
  <1>5. CASE Frame
    <2>1. PICK n \in 1..MaxPackets : SV_SendClientMessages(n)
      BY <1>5 DEF Frame
    <2> QED BY <2>1, <1>2, <1>3 DEF SV_SendClientMessages
  <1>6. CASE \E n \in 1..MaxPackets : SendGameState(n)
    BY <1>6, <1>2 DEF SendGameState
  <1> QED BY <1>4, <1>5, <1>6 DEF Next

\* The netchan, its queue and the packets it sends hang together in every state.
THEOREM Invariance == Spec => []IInv
  <1> QED BY InitIInv, NextIInv, PTL DEF Spec

\* Whatever the server sends, its send path holds what it may hold.
THEOREM TypeCorrect == Spec => []TypeOK
  <1>1. IInv => TypeOK
    BY DEF IInv
  <1> QED BY <1>1, Invariance, PTL

\* SV_Netchan_Encode's sequence is the one the message leaves under, for queued
\* messages too, which are encoded before the counter has moved.
THEOREM SequenceKeyed == Spec => []KeyedBySequence
  <1>1. IInv => KeyedBySequence
    BY DEF IInv, KeyInv
  <1> QED BY <1>1, Invariance, PTL

\* Sent at once or after any wait, a message is encoded with the string of the
\* client command it acknowledges, so that its client can read it, unless another
\* command was executed while it waited: the number and the string, kept apart,
\* are never seen to disagree.
THEOREM AckKeyed == Spec => []KeyedByAckUnlessOvertaken
  <1>1. IInv => KeyedByAckUnlessOvertaken
    BY DEF IInv, KeyInv
  <1> QED BY <1>1, Invariance, PTL

\* Whatever is queued meanwhile, the packets of a message leave one after the
\* other, the last of them before the first of the next: SV_Netchan_Transmit never
\* cuts a message short, and queued messages wait for the last fragment.
THEOREM NotInterleaved == Spec => NoInterleaving
  <1>1. ASSUME IInv, [Next]_vars
        PROVE  [Consecutive(LAMBDA p, q :
                   IF SameMessage(p, q) THEN q.enc = p.enc /\ q.left = p.left - 1
                                        ELSE p.left = 0)]_vars
    <2>1. CASE UNCHANGED vars
      BY <2>1
    <2>2. CASE Next
      <3>1. out # <<>> /\ out' # out => Follows(out[Len(out)], out'[1])
        BY <1>1, <2>2, FirstFollows
      <3>2. Len(out') = 2 => Follows(out'[1], out'[2])
        BY <1>1, NextIInv DEF IInv, LastInv
      <3> QED BY <3>1, <3>2 DEF Consecutive, Follows
    <2> QED BY <1>1, <2>1, <2>2
  <1> QED BY <1>1, Invariance, PTL DEF Spec, NoInterleaving
=============================================================================
