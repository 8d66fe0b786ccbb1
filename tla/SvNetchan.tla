----------------------------- MODULE SvNetchan -----------------------------
(***************************************************************************)
(* The server's send path to one client (server/sv_net_chan.c): messages   *)
(* built while an earlier one is still partly unsent wait in               *)
(* netchan_start_queue, and every message is encoded, when it is handed to *)
(* the netchan, with the last client command and the netchan sequence.     *)
(*                                                                         *)
(* A message is its place in the order of building, the reliable           *)
(* acknowledge written at its head, and the number of packets it takes; a  *)
(* history field tells whether a client command overtook it in the queue.  *)
(* Numbers are kept modulo Modulus, so the model runs for ever.  The text  *)
(* of a client command is its number.                                      *)
(*                                                                         *)
(* Definitions named Bug... are plausible mistakes, each the mutated form  *)
(* of the definition that follows it; the specification uses none of them. *)
(***************************************************************************)
EXTENDS Integers, Sequences

CONSTANTS
    Modulus,            \* message ids and sequence numbers wrap here
    Commands,           \* client commands wrap here
    MaxPackets,         \* packets of the largest message
    MaxQueue            \* bound on the queue, for model checking

ASSUME SvNetchanAssumption ==
    /\ Modulus \in Nat /\ Modulus > 2
    /\ Commands \in Nat /\ Commands > 1
    /\ MaxPackets \in Nat \ {0}
    /\ MaxQueue \in Nat

VARIABLES
    nextId,             \* id the next message built will get
    lastClientCommand,  \* last client command executed
    lastClientCommandString,
    outgoingSequence,
    current,            \* the message the netchan is sending, as encoded
    unsent,             \* packets of it left; 0 is unsentFragments = qfalse
    queue,              \* netchan_start_queue, oldest first, not encoded
    out                 \* packets put on the wire by the last step that did

client == <<lastClientCommand, lastClientCommandString>>
vars == <<nextId, client, outgoingSequence, current, unsent, queue, out>>

Number == 0..Modulus - 1
Succ(n) == (n + 1) % Modulus

Command == 0..Commands - 1
NextCommand == (lastClientCommand + 1) % Commands

Message == [id : Number, ack : Command, packets : 1..MaxPackets, overtaken : BOOLEAN]
Encoded == [msg : Message, string : Command, keySequence : Number]
Sent    == [enc : Encoded, sequence : Number, left : 0..MaxPackets - 1]

NoMessage == [id |-> 0, ack |-> 0, packets |-> 1, overtaken |-> FALSE]

Init ==
    /\ nextId = 1
    /\ lastClientCommand = 0
    /\ lastClientCommandString = 0
    /\ outgoingSequence = 1
    /\ current = [msg |-> NoMessage, string |-> 0, keySequence |-> 0]
    /\ unsent = 0
    /\ queue = <<>>
    /\ out = <<>>

-----------------------------------------------------------------------------
(* The netchan below: Netchan says what it does with a message. *)

\* The key is the challenge, the netchan sequence s and the string of the last
\* client command executed, as they are when the message is encoded.
SV_Netchan_Encode(m, s) ==
    [msg |-> m, string |-> lastClientCommandString, keySequence |-> s]

\* Netchan_TransmitNextFragment: the last fragment frees the netchan.
NextFragment ==
    /\ unsent' = unsent - 1
    /\ outgoingSequence' =
          IF unsent = 1 THEN Succ(outgoingSequence) ELSE outgoingSequence
    /\ UNCHANGED current

NextFragmentPacket ==
    [enc |-> current, sequence |-> outgoingSequence, left |-> unsent - 1]

\* BUG: the packet that is sent at once is still counted as unsent.
BugStartFragments(enc, s) ==
    /\ current' = enc
    /\ unsent' = IF enc.msg.packets = 1 THEN 0 ELSE enc.msg.packets
    /\ outgoingSequence' = IF enc.msg.packets = 1 THEN Succ(s) ELSE s

\* Netchan_Transmit of enc as number s: all but its first packet are left.
Transmit(enc, s) ==
    /\ current' = enc
    /\ unsent' = enc.msg.packets - 1
    /\ outgoingSequence' = IF enc.msg.packets = 1 THEN Succ(s) ELSE s

FirstPacket(enc, s) ==
    [enc |-> enc, sequence |-> s, left |-> enc.msg.packets - 1]

-----------------------------------------------------------------------------
(* sv_net_chan.c *)

\* The message a caller of SV_SendMessageToClient has just written.
Built(n) ==
    [id |-> nextId, ack |-> lastClientCommand, packets |-> n, overtaken |-> FALSE]

TransmitNow(n) ==
    LET enc == SV_Netchan_Encode(Built(n), outgoingSequence)
    IN  /\ Transmit(enc, outgoingSequence)
        /\ out' = <<FirstPacket(enc, outgoingSequence)>>
        /\ UNCHANGED queue

\* BUG: unsentFragments is not looked at.
BugTransmit(n) ==
    TransmitNow(n) /\ nextId' = Succ(nextId) /\ UNCHANGED client

\* Behind unsent fragments the message is queued, and one fragment of the
\* current message is sent instead.
SV_Netchan_Transmit(n) ==
    /\ nextId' = Succ(nextId)
    /\ IF unsent > 0
       THEN /\ Len(queue) < MaxQueue
            /\ queue' = Append(queue, Built(n))
            /\ NextFragment
            /\ out' = <<NextFragmentPacket>>
       ELSE TransmitNow(n)
    /\ UNCHANGED client

\* BUG: encoded before the last fragment of the current message has gone.
BugPopped == SV_Netchan_Encode(Head(queue), outgoingSequence)

Popped == SV_Netchan_Encode(Head(queue), Succ(outgoingSequence))

\* When the last fragment leaves, the oldest queued message follows at once.
SV_Netchan_TransmitNextFragment ==
    /\ unsent > 0
    /\ IF unsent = 1 /\ queue # <<>>
       THEN LET s == Succ(outgoingSequence)
            IN  /\ Transmit(Popped, s)
                /\ out' = <<NextFragmentPacket, FirstPacket(Popped, s)>>
                /\ queue' = Tail(queue)
       ELSE /\ NextFragment
            /\ out' = <<NextFragmentPacket>>
            /\ UNCHANGED queue
    /\ UNCHANGED <<nextId, client>>

-----------------------------------------------------------------------------
(* The server around it. *)

\* BUG: the frame does not continue a message that was too large.
BugSendClientMessages(n) == unsent = 0 /\ SV_Netchan_Transmit(n)

\* One client's turn in SV_SendClientMessages, when its snapshot is due.
SV_SendClientMessages(n) ==
    \/ SV_Netchan_TransmitNextFragment
    \/ unsent = 0 /\ SV_Netchan_Transmit(n)

\* A gamestate (or the last snapshot before a drop) is sent whenever a packet
\* of the client calls for it, whatever is unsent.
SendGameState(n) == SV_Netchan_Transmit(n)

\* What waits in the queue while a client command is executed is overtaken by it.
Overtaken == [i \in DOMAIN queue |-> [queue[i] EXCEPT !.overtaken = TRUE]]

\* BUG: a command is only counted, and its string kept for the next one.
BugClientCommand ==
    /\ lastClientCommand' = NextCommand
    /\ lastClientCommandString' = lastClientCommand
    /\ queue' = Overtaken
    /\ UNCHANGED <<nextId, outgoingSequence, current, unsent, out>>

\* SV_ClientCommand: another client command has been executed (one that sends
\* its client a gamestate is SendGameState first), and is remembered.
ClientCommand ==
    /\ lastClientCommand' = NextCommand
    /\ lastClientCommandString' = NextCommand
    /\ queue' = Overtaken
    /\ UNCHANGED <<nextId, outgoingSequence, current, unsent, out>>

Frame == \E n \in 1..MaxPackets : SV_SendClientMessages(n)

Next ==
    \/ Frame
    \/ \E n \in 1..MaxPackets : SendGameState(n)
    \/ ClientCommand

Spec == Init /\ [][Next]_vars

\* SV_Frame calls SV_SendClientMessages for every client, always.
FairSpec == Spec /\ WF_vars(Frame)

-----------------------------------------------------------------------------
(* Properties. *)

\* The netchan and the queue hold what svs.clients[] may hold: never more unsent
\* than a message has packets after its first, whichever path started it.
TypeOK ==
    /\ nextId \in Number
    /\ lastClientCommand \in Command
    /\ lastClientCommandString \in Command
    /\ outgoingSequence \in Number
    /\ current \in Encoded
    /\ unsent \in 0..MaxPackets - 1
    /\ queue \in Seq(Message) /\ Len(queue) <= MaxQueue
    /\ out \in Seq(Sent)

\* Consecutive packets of the wire, those of this step after those of the last.
Consecutive(P(_, _)) ==
    /\ out # <<>> /\ out' # out => P(out[Len(out)], out'[1])
    /\ Len(out') = 2 => P(out'[1], out'[2])

SameMessage(p, q) == p.sequence = q.sequence

\* Under one sequence number goes one message, from its first packet to its
\* last, and nothing in between: a fragmented gamestate is never cut short.
NoInterleaving ==
    [][Consecutive(LAMBDA p, q :
        IF SameMessage(p, q) THEN q.enc = p.enc /\ q.left = p.left - 1
                             ELSE p.left = 0)]_vars

\* Every message goes out under the sequence number it was encoded with, which
\* is the one the client decodes it with.
KeyedBySequence == \A i \in DOMAIN out : out[i].enc.keySequence = out[i].sequence

\* Sent at once or after any wait, a message is encoded with the string of the
\* command it acknowledges, which is the one the client decodes it with, unless
\* another command was executed while it waited.
KeyedByAckUnlessOvertaken ==
    \A i \in DOMAIN out :
        ~out[i].enc.msg.overtaken => out[i].enc.string = out[i].enc.msg.ack

\* A message once begun is sent to the end.
MessageFinishes ==
    \A k \in Number : unsent > 0 /\ outgoingSequence = k
                          ~> unsent = 0 \/ outgoingSequence # k

(* What sv_net_chan.c says of itself, and does not do. *)

\* "buffer them and make sure they get sent in correct order"
SentInOrder ==
    [][Consecutive(LAMBDA p, q :
        SameMessage(p, q) \/ q.enc.msg.id = Succ(p.enc.msg.id))]_vars

\* "modify the key with the last received and with this message acknowledged
\* client command": queued or not.
KeyedByAck == \A i \in DOMAIN out : out[i].enc.string = out[i].enc.msg.ack

\* "insert it in the queue, the message will be encoded and sent later"
QueuedIsSent == queue # <<>> ~> queue = <<>>
=============================================================================
