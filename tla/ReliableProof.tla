---------------------------- MODULE ReliableProof ----------------------------
(***************************************************************************)
(* Proofs about Reliable for every ring size and every number of commands  *)
(* and messages.  The inductive invariant says what each ring still holds  *)
(* (RingsInv), what every message in flight says and acknowledges          *)
(* (ToServerInv, ToClientInv), that nobody acknowledges or executes what   *)
(* was not issued (CountersInv), and what has been executed (SvHistoryInv,  *)
(* ClHistoryInv).                                                          *)
(***************************************************************************)
EXTENDS Reliable, FiniteSetTheorems, SequenceTheorems, NaturalsInduction, WellFoundedInduction, TLAPS

ClientRec == [connected : BOOLEAN, reliableSequence : Nat,
              reliableAcknowledge : Nat, reliableCommands : Ring,
              serverCommandSequence : Nat, serverCommands : Ring,
              lastExecutedServerCommand : Nat]
ServerRec == [state : {"active", "zombie"}, reliableSequence : Nat,
              reliableAcknowledge : Nat, reliableCommands : Ring,
              lastClientCommand : Nat, lastClientCommandString : Int,
              drops : 0..2, lost : BOOLEAN, skipped : Nat]

Message == [ack : Nat, key : Int, from : Nat, texts : Seq(Int)]

\* t is what the client issued as command n, or the disconnect that has taken
\* its slot.
ClientSaid(n, t) == t = n \/ (t = Disconnect /\ ~clc.connected)

\* t is what the server issued as command n, or what a drop left in its slot.
ServerSaid(n, t) ==
    \/ t = n
    \/ /\ cl.state = "zombie"
       /\ \/ t \in {DropNotice, PlayerGone, Disconnect}
          \/ t = n - MAX_RELIABLE_COMMANDS /\ n = cl.skipped

TypeInv ==
    /\ clc \in ClientRec /\ cl \in ServerRec
    /\ toServer \in Seq(Message) /\ toClient \in Seq(Message)
    /\ clExecuted \in Seq(Int) /\ svExecuted \in Seq(Int)
    /\ clc.connected => Pending(clc) \in 0..MAX_RELIABLE_COMMANDS
    /\ cl.state = "active" => Pending(cl) \in 0..MAX_RELIABLE_COMMANDS /\ cl.drops = 0
    /\ ~cl.lost

CountersInv ==
    /\ clc.reliableAcknowledge <= cl.lastClientCommand
    /\ cl.lastClientCommand <= clc.reliableSequence
    /\ cl.reliableAcknowledge <= clc.serverCommandSequence
    /\ clc.serverCommandSequence <= cl.reliableSequence

\* n is one of the last MAX_RELIABLE_COMMANDS numbers up to last.
Recent(n, last) == last - MAX_RELIABLE_COMMANDS < n /\ n <= last

RingsInv ==
    /\ clc.connected =>
          \A n \in Nat : Recent(n, clc.reliableSequence) => clc.reliableCommands[Slot(n)] = n
    /\ cl.state = "active" =>
          \A n \in Nat : Recent(n, cl.reliableSequence) => cl.reliableCommands[Slot(n)] = n
    /\ \A n \in Nat : cl.reliableAcknowledge < n /\ n <= cl.reliableSequence =>
          ServerSaid(n, cl.reliableCommands[Slot(n)])
    /\ \A n \in Nat : Recent(n, clc.serverCommandSequence) =>
          ServerSaid(n, clc.serverCommands[Slot(n)])

\* What is known of a message to the server,
ToServerSays(m) ==
    /\ m.from >= 1 /\ m.from <= cl.lastClientCommand + 1
    /\ m.from + Len(m.texts) - 1 <= clc.reliableSequence
    /\ \A k \in 1..Len(m.texts) : ClientSaid(m.from + k - 1, m.texts[k])
    /\ cl.reliableAcknowledge <= m.ack /\ m.ack <= clc.serverCommandSequence
    /\ ServerSaid(m.ack, m.key)

\* and of one to the client.
ToClientSays(m) ==
    /\ m.from >= 1 /\ m.from <= clc.serverCommandSequence + 1
    /\ m.from + Len(m.texts) - 1 <= cl.reliableSequence
    /\ \A k \in 1..Len(m.texts) : ServerSaid(m.from + k - 1, m.texts[k])
    /\ clc.reliableAcknowledge <= m.ack /\ m.ack <= cl.lastClientCommand
    /\ ClientSaid(m.ack, m.key)

\* Later messages acknowledge no less than earlier ones.
AcksGrow(queue) == \A i, j \in 1..Len(queue) : i < j => queue[i].ack <= queue[j].ack

ToServerInv ==
    (\A i \in 1..Len(toServer) : ToServerSays(toServer[i])) /\ AcksGrow(toServer)
ToClientInv ==
    (\A i \in 1..Len(toClient) : ToClientSays(toClient[i])) /\ AcksGrow(toClient)

SvHistoryInv ==
    /\ Len(svExecuted) = cl.lastClientCommand
    /\ \A i \in 1..Len(svExecuted) :
          \/ svExecuted[i] = i
          \/ svExecuted[i] = Disconnect /\ ~clc.connected /\ cl.state = "zombie"
    /\ ClientSaid(cl.lastClientCommand, cl.lastClientCommandString)

ClHistoryInv ==
    /\ Len(clExecuted) = clc.lastExecutedServerCommand
    /\ \A i \in 1..Len(clExecuted) :
          /\ ServerSaid(i, clExecuted[i])
          /\ clExecuted[i] = Disconnect => ~clc.connected /\ i = Len(clExecuted)

IInv ==
    /\ TypeInv /\ CountersInv /\ RingsInv
    /\ ToServerInv /\ ToClientInv /\ SvHistoryInv /\ ClHistoryInv

-----------------------------------------------------------------------------
(* Slots of a ring. *)

LEMMA DivMod ==
    ASSUME NEW m \in Nat \ {0}, NEW n \in Int
    PROVE  n \div m \in Int /\ n = m * (n \div m) + (n % m) /\ n % m \in 0..m - 1
  OBVIOUS

LEMMA SmallMultiple ==
    ASSUME NEW m \in Nat \ {0}, NEW q \in Int, m * q < m, m * q > 0
    PROVE  FALSE
  OBVIOUS

LEMMA ModUnique ==
    ASSUME NEW m \in Nat \ {0}, NEW n \in Int, NEW q \in Int, NEW r \in 0..m - 1, n = m * q + r
    PROVE  n % m = r
  OBVIOUS

LEMMA SlotInRing ==
    ASSUME NEW n \in Int
    PROVE  Slot(n) \in 0..MAX_RELIABLE_COMMANDS - 1
  BY DivMod, ReliableAssumption DEF Slot

LEMMA TextInRing ==
    ASSUME NEW ring \in Ring, NEW n \in Int
    PROVE  ring[Slot(n)] \in Int
  <1>1. Slot(n) \in 0..MAX_RELIABLE_COMMANDS - 1
    BY SlotInRing
  <1> QED BY <1>1 DEF Ring

\* One round later the slot is the same.
LEMMA SlotOneRound ==
    ASSUME NEW n \in Int
    PROVE  Slot(n + MAX_RELIABLE_COMMANDS) = Slot(n)
  <1> DEFINE m == MAX_RELIABLE_COMMANDS
  <1>1. m \in Nat \ {0}
    BY ReliableAssumption
  <1>2. PICK q \in Int : n = m * q + (n % m)
    BY <1>1, DivMod
  <1>3. n % m \in 0..m - 1
    BY <1>1, DivMod
  <1>4. n + m = m * (q + 1) + (n % m)
    BY <1>1, <1>2, <1>3
  <1>5. (n + m) % m = n % m
    <2>1. n + m \in Int /\ q + 1 \in Int
      BY <1>1
    <2> DEFINE r == n % m
               p == q + 1
               k == n + m
    <2>2. r \in 0..m - 1 /\ k = m * p + r /\ p \in Int /\ k \in Int
      BY <1>3, <1>4, <2>1
    <2> HIDE DEF m, r, p, k
    <2>3. k % m = r
      BY <1>1, <2>2, ModUnique
    <2> QED BY <2>3 DEF r, k
  <1> QED BY <1>5 DEF Slot

\* Numbers less than a round apart have different slots.
LEMMA SlotsDiffer ==
    ASSUME NEW a \in Int, NEW b \in Int, a < b, b < a + MAX_RELIABLE_COMMANDS
    PROVE  Slot(a) # Slot(b)
  <1> DEFINE m == MAX_RELIABLE_COMMANDS
  <1>1. m \in Nat \ {0}
    BY ReliableAssumption
  <1>2. PICK q \in Int : a = m * q + (a % m)
    BY <1>1, DivMod
  <1>3. PICK p \in Int : b = m * p + (b % m)
    BY <1>1, DivMod
  <1>4. SUFFICES ASSUME a % m = b % m PROVE FALSE
    BY DEF Slot
  <1>5. b - a = m * (p - q)
    BY <1>1, <1>2, <1>3, <1>4, DivMod
  <1>6. p - q \in Int /\ m * (p - q) > 0 /\ m * (p - q) < m
    BY <1>1, <1>5
  <1> HIDE DEF m
  <1> QED BY <1>1, <1>6, SmallMultiple

-----------------------------------------------------------------------------
(* Commands that are put in a ring. *)

LEMMA ClientPut ==
    ASSUME NEW c \in ClientRec, NEW t \in Int
    PROVE  LET p == Put(c, t)
               n == c.reliableSequence + 1
           IN  /\ p \in ClientRec
               /\ p.reliableSequence = n
               /\ p.reliableCommands = [c.reliableCommands EXCEPT ![Slot(n)] = t]
               /\ p.connected = c.connected
               /\ p.reliableAcknowledge = c.reliableAcknowledge
               /\ p.serverCommandSequence = c.serverCommandSequence
               /\ p.serverCommands = c.serverCommands
               /\ p.lastExecutedServerCommand = c.lastExecutedServerCommand
  <1> DEFINE n    == c.reliableSequence + 1
             ring == [c.reliableCommands EXCEPT ![Slot(n)] = t]
  <1>1. n \in Nat /\ Slot(n) \in 0..MAX_RELIABLE_COMMANDS - 1
    BY SlotInRing DEF ClientRec
  <1>2. ring \in Ring
    BY <1>1 DEF ClientRec, Ring
  <1>3. Put(c, t) = [c EXCEPT !.reliableSequence = n, !.reliableCommands = ring]
    BY DEF Put, ClientRec
  <1> HIDE DEF n, ring
  <1>4. LET p == Put(c, t)
        IN  /\ p \in ClientRec
            /\ p.reliableSequence = n /\ p.reliableCommands = ring
            /\ p.connected = c.connected
            /\ p.reliableAcknowledge = c.reliableAcknowledge
            /\ p.serverCommandSequence = c.serverCommandSequence
            /\ p.serverCommands = c.serverCommands
            /\ p.lastExecutedServerCommand = c.lastExecutedServerCommand
    BY <1>1, <1>2, <1>3 DEF ClientRec
  <1> QED BY <1>4 DEF n, ring

LEMMA ServerPut ==
    ASSUME NEW s \in ServerRec, NEW t \in Int
    PROVE  LET p == Put(s, t)
               n == s.reliableSequence + 1
           IN  /\ p \in ServerRec
               /\ p.reliableSequence = n
               /\ p.reliableCommands = [s.reliableCommands EXCEPT ![Slot(n)] = t]
               /\ p.state = s.state
               /\ p.reliableAcknowledge = s.reliableAcknowledge
               /\ p.lastClientCommand = s.lastClientCommand
               /\ p.lastClientCommandString = s.lastClientCommandString
               /\ p.drops = s.drops /\ p.lost = s.lost /\ p.skipped = s.skipped
  <1> DEFINE n    == s.reliableSequence + 1
             ring == [s.reliableCommands EXCEPT ![Slot(n)] = t]
  <1>1. n \in Nat /\ Slot(n) \in 0..MAX_RELIABLE_COMMANDS - 1
    BY SlotInRing DEF ServerRec
  <1>2. ring \in Ring
    BY <1>1 DEF ServerRec, Ring
  <1>3. Put(s, t) = [s EXCEPT !.reliableSequence = n, !.reliableCommands = ring]
    BY DEF Put, ServerRec
  <1> HIDE DEF n, ring
  <1>4. LET p == Put(s, t)
        IN  /\ p \in ServerRec
            /\ p.reliableSequence = n /\ p.reliableCommands = ring
            /\ p.state = s.state
            /\ p.reliableAcknowledge = s.reliableAcknowledge
            /\ p.lastClientCommand = s.lastClientCommand
            /\ p.lastClientCommandString = s.lastClientCommandString
            /\ p.drops = s.drops /\ p.lost = s.lost /\ p.skipped = s.skipped
    BY <1>1, <1>2, <1>3 DEF ServerRec
  <1> QED BY <1>4 DEF n, ring

-----------------------------------------------------------------------------
(* Greatest elements, and queues. *)

\* A set of numbers with an upper bound has a greatest element.
LEMMA MaxOfBounded ==
    ASSUME NEW S \in SUBSET Int, S # {}, NEW b \in Int, \A x \in S : x <= b
    PROVE  Max(S) \in S /\ \A x \in S : x <= Max(S)
  <1> DEFINE R == {p \in Nat \X Nat : p[1] < p[2]}
             T == {b - x : x \in S}
  <1>1. IsWellFoundedOn(R, Nat)
    BY NatLessThanWellFounded DEF OpToRel
  <1>2. T \subseteq Nat /\ T # {}
    <2>1. \A x \in S : x \in Int /\ b - x \in Nat
      OBVIOUS
    <2> QED BY <2>1
  <1> HIDE DEF R, T
  <1>3. PICK least \in T : \A y \in T : <<y, least>> \notin R
    BY <1>1, <1>2, WFMin
  <1>4. ASSUME NEW y \in T PROVE least <= y
    <2>1. y \in Nat /\ least \in Nat /\ <<y, least>> \in Nat \X Nat
      BY <1>2, <1>3
    <2>2. ~(<<y, least>>[1] < <<y, least>>[2])
      BY <1>3, <2>1 DEF R
    <2> QED BY <2>1, <2>2
  <1>5. b - least \in S /\ \A x \in S : b - least >= x
    BY <1>4 DEF T
  <1>6. \E x \in S : \A y \in S : x >= y
    BY <1>5
  <1>7. Max(S) \in S /\ \A y \in S : Max(S) >= y
    BY <1>6 DEF Max
  <1> QED BY <1>7

\* What is left of a queue when its first messages have gone.
LEMMA Rest ==
    ASSUME NEW queue \in Seq(Message), NEW i \in 1..Len(queue)
    PROVE  LET r == SubSeq(queue, i + 1, Len(queue))
           IN  /\ r \in Seq(Message)
               /\ Len(r) = Len(queue) - i
               /\ \A j \in 1..Len(r) : i + j \in 1..Len(queue) /\ r[j] = queue[i + j]
               /\ AcksGrow(queue) => AcksGrow(r)
  <1> DEFINE r == SubSeq(queue, i + 1, Len(queue))
  <1>1. /\ r \in Seq(Message)
        /\ Len(r) = Len(queue) - i
        /\ \A j \in 1..Len(r) : i + j \in 1..Len(queue) /\ r[j] = queue[i + j]
    BY SubSeqProperties
  <1> HIDE DEF r
  <1>2. ASSUME AcksGrow(queue), NEW j \in 1..Len(r), NEW k \in 1..Len(r), j < k
        PROVE  r[j].ack <= r[k].ack
    <2>1. i + j \in 1..Len(queue) /\ i + k \in 1..Len(queue) /\ i + j < i + k
      BY <1>1, <1>2
    <2>2. queue[i + j].ack <= queue[i + k].ack
      BY <1>2, <2>1 DEF AcksGrow
    <2> QED BY <1>1, <2>2
  <1>3. AcksGrow(queue) => AcksGrow(r)
    BY <1>2 DEF AcksGrow
  <1> QED BY <1>1, <1>3 DEF r

\* A queue with one more message.
LEMMA Sent ==
    ASSUME NEW queue \in Seq(Message), NEW m \in Message
    PROVE  LET r == Append(queue, m)
           IN  /\ r \in Seq(Message)
               /\ \A j \in 1..Len(r) : r[j] = m \/ (j \in 1..Len(queue) /\ r[j] = queue[j])
               /\ AcksGrow(queue) /\ (\A j \in 1..Len(queue) : queue[j].ack <= m.ack)
                     => AcksGrow(r)
  <1> DEFINE r == Append(queue, m)
  <1>1. /\ r \in Seq(Message) /\ Len(r) = Len(queue) + 1 /\ r[Len(r)] = m
        /\ \A j \in 1..Len(queue) : r[j] = queue[j]
    OBVIOUS
  <1>2. m.ack \in Nat
    BY DEF Message
  <1> HIDE DEF r
  <1>3. ASSUME AcksGrow(queue), \A j \in 1..Len(queue) : queue[j].ack <= m.ack,
               NEW j \in 1..Len(r), NEW k \in 1..Len(r), j < k
        PROVE  r[j].ack <= r[k].ack
    <2>1. j \in 1..Len(queue)
      BY <1>1, <1>3
    <2>2. CASE k = Len(r)
      BY <1>1, <1>3, <2>1, <2>2
    <2>3. CASE k # Len(r)
      BY <1>1, <1>3, <2>1, <2>3 DEF AcksGrow
    <2> QED BY <2>2, <2>3
  <1>4. \A j \in 1..Len(r) : r[j] = m \/ (j \in 1..Len(queue) /\ r[j] = queue[j])
    BY <1>1
  <1>5. r \in Seq(Message) /\ (AcksGrow(queue) /\ (\A j \in 1..Len(queue) : queue[j].ack <= m.ack)
            => AcksGrow(r))
    BY <1>1, <1>3 DEF AcksGrow
  <1> QED BY <1>4, <1>5 DEF r

-----------------------------------------------------------------------------
(* What a drop does to the server's record. *)

\* A command put in a ring is found there, so are the others of its round, and
\* the ring has nothing else new.
LEMMA RingPut ==
    ASSUME NEW ring \in Ring, NEW n \in Int, NEW t \in Int
    PROVE  LET r == [ring EXCEPT ![Slot(n)] = t]
           IN  /\ r[Slot(n)] = t
               /\ \A k \in Int : k < n /\ n - MAX_RELIABLE_COMMANDS < k =>
                     r[Slot(k)] = ring[Slot(k)]
               /\ \A k \in Int : r[Slot(k)] = ring[Slot(k)] \/ r[Slot(k)] = t
  <1> DEFINE r == [ring EXCEPT ![Slot(n)] = t]
  <1>1. \A k \in Int : Slot(k) \in 0..MAX_RELIABLE_COMMANDS - 1
    BY SlotInRing
  <1>2. \A k \in Int : r[Slot(k)] = IF Slot(k) = Slot(n) THEN t ELSE ring[Slot(k)]
    BY <1>1 DEF Ring
  <1>3. \A k \in Int : k < n /\ n - MAX_RELIABLE_COMMANDS < k => Slot(k) # Slot(n)
    BY SlotsDiffer, ReliableAssumption
  <1> QED BY <1>2, <1>3

\* What becomes of a ring when the commands a..b of a message are written in it:
\* a slot holds the last of them that is its own, or what it held.
LEMMA WrittenEffect ==
    ASSUME NEW ring \in Ring, NEW msg, NEW a \in Int, NEW b \in Int,
           \A k \in a..b : Text(msg, k) \in Int
    PROVE  LET r == Written(ring, msg, a..b)
           IN  /\ r \in Ring
               /\ \A i \in Int :
                     \/ /\ r[Slot(i)] = ring[Slot(i)]
                        /\ \A k \in a..b : Slot(k) # Slot(i)
                     \/ \E k \in a..b :
                           /\ Slot(k) = Slot(i) /\ r[Slot(i)] = Text(msg, k)
                           /\ \A j \in a..b : Slot(j) = Slot(i) => j <= k
  <1> DEFINE here(i) == {k \in a..b : Slot(k) = i}
             Value(i) == IF here(i) = {} THEN ring[i] ELSE Text(msg, Max(here(i)))
             r == Written(ring, msg, a..b)
  <1>1. r = [i \in DOMAIN ring |-> Value(i)] /\ DOMAIN ring = 0..MAX_RELIABLE_COMMANDS - 1
    BY DEF Written, Ring
  <1>2. ASSUME NEW i, here(i) # {}
        PROVE  Max(here(i)) \in here(i) /\ \A k \in here(i) : k <= Max(here(i))
    <2>1. here(i) \in SUBSET Int /\ \A k \in here(i) : k <= b
      OBVIOUS
    <2> HIDE DEF here
    <2> QED BY <1>2, <2>1, MaxOfBounded
  <1>3. ASSUME NEW i \in 0..MAX_RELIABLE_COMMANDS - 1 PROVE Value(i) \in Int
    <2>1. CASE here(i) = {}
      BY <2>1 DEF Ring
    <2>2. CASE here(i) # {}
      <3>1. Max(here(i)) \in a..b
        BY <1>2, <2>2
      <3> QED BY <2>2, <3>1
    <2> QED BY <2>1, <2>2
  <1> HIDE DEF r, Value
  <1>4. r \in Ring
    BY <1>1, <1>3 DEF Ring
  <1>5. ASSUME NEW i \in Int
        PROVE  \/ /\ r[Slot(i)] = ring[Slot(i)]
                  /\ \A k \in a..b : Slot(k) # Slot(i)
               \/ \E k \in a..b :
                     /\ Slot(k) = Slot(i) /\ r[Slot(i)] = Text(msg, k)
                     /\ \A j \in a..b : Slot(j) = Slot(i) => j <= k
    <2>1. r[Slot(i)] = Value(Slot(i))
      BY <1>1, SlotInRing
    <2>2. CASE here(Slot(i)) = {}
      BY <2>1, <2>2 DEF Value
    <2>3. CASE here(Slot(i)) # {}
      <3>1. Max(here(Slot(i))) \in here(Slot(i)) /\ \A k \in here(Slot(i)) : k <= Max(here(Slot(i)))
        BY <1>2, <2>3
      <3>2. r[Slot(i)] = Text(msg, Max(here(Slot(i))))
        BY <2>1, <2>3 DEF Value
      <3> QED BY <3>1, <3>2
    <2> QED BY <2>2, <2>3
  <1> QED BY <1>4, <1>5 DEF r

\* All of s but its numbers and its ring is e's too.
SameBut(s, e) ==
    /\ e.state = s.state /\ e.reliableAcknowledge = s.reliableAcknowledge
    /\ e.lastClientCommand = s.lastClientCommand
    /\ e.lastClientCommandString = s.lastClientCommandString
    /\ e.drops = s.drops /\ e.lost = s.lost

\* Several commands put in the server's ring: the others stay where they were.
LEMMA PutAllEffect ==
    ASSUME NEW s \in ServerRec, NEW texts \in Seq(Int)
    PROVE  LET p == PutAll(s, texts)
               n == s.reliableSequence
           IN  /\ p \in ServerRec /\ SameBut(s, p) /\ p.skipped = s.skipped
               /\ p.reliableSequence = n + Len(texts)
               /\ \A i \in Int :
                     \/ /\ p.reliableCommands[Slot(i)] = s.reliableCommands[Slot(i)]
                        /\ i \notin n + 1..n + Len(texts)
                     \/ \E j \in 1..Len(texts) : p.reliableCommands[Slot(i)] = texts[j]
  <1> DEFINE n    == s.reliableSequence
             last == n + Len(texts)
             msg  == [from |-> n + 1, texts |-> texts]
             ring == Written(s.reliableCommands, msg, n + 1..last)
             p    == PutAll(s, texts)
  <1>1. n \in Nat /\ Len(texts) \in Nat /\ last \in Nat /\ s.reliableCommands \in Ring
    BY DEF ServerRec
  <1>2. ASSUME NEW k \in n + 1..last
        PROVE  k - n \in 1..Len(texts) /\ Text(msg, k) = texts[k - n] /\ Text(msg, k) \in Int
    <2>1. k - n \in 1..Len(texts) /\ k - (n + 1) + 1 = k - n
      BY <1>1
    <2>2. Text(msg, k) = texts[k - n]
      BY <2>1 DEF Text
    <2> QED BY <2>1, <2>2
  <1>3. p = [s EXCEPT !.reliableSequence = last, !.reliableCommands = ring]
    BY DEF PutAll
  <1> HIDE DEF n, msg, p
  <1>4. /\ ring \in Ring
        /\ \A i \in Int :
              \/ /\ ring[Slot(i)] = s.reliableCommands[Slot(i)]
                 /\ \A k \in n + 1..last : Slot(k) # Slot(i)
              \/ \E k \in n + 1..last : ring[Slot(i)] = Text(msg, k)
    <2> DEFINE first == n + 1
               old   == s.reliableCommands
               Effect(r) ==
                   /\ r \in Ring
                   /\ \A i \in Int :
                         \/ /\ r[Slot(i)] = old[Slot(i)]
                            /\ \A k \in first..last : Slot(k) # Slot(i)
                         \/ \E k \in first..last :
                               /\ Slot(k) = Slot(i) /\ r[Slot(i)] = Text(msg, k)
                               /\ \A j \in first..last : Slot(j) = Slot(i) => j <= k
    <2>1. first \in Int /\ last \in Int /\ old \in Ring /\ \A k \in first..last : Text(msg, k) \in Int
      BY <1>1, <1>2
    <2>2. ring = Written(old, msg, first..last)
      OBVIOUS
    <2> HIDE DEF first, last, old, ring
    <2>3. Effect(Written(old, msg, first..last))
      BY <2>1, WrittenEffect
    <2>4. Effect(ring)
      BY <2>2, <2>3
    <2> QED BY <2>4 DEF first, old
  <1> HIDE DEF ring, last
  <1>5. /\ p \in ServerRec /\ SameBut(s, p) /\ p.skipped = s.skipped
        /\ p.reliableSequence = last /\ p.reliableCommands = ring
    BY <1>1, <1>3, <1>4 DEF ServerRec, SameBut
  <1>6. ASSUME NEW i \in Int
        PROVE  \/ /\ p.reliableCommands[Slot(i)] = s.reliableCommands[Slot(i)]
                  /\ i \notin n + 1..last
               \/ \E j \in 1..Len(texts) : p.reliableCommands[Slot(i)] = texts[j]
    <2>1. CASE /\ ring[Slot(i)] = s.reliableCommands[Slot(i)]
               /\ \A k \in n + 1..last : Slot(k) # Slot(i)
      BY <1>5, <2>1
    <2>2. ASSUME NEW k \in n + 1..last, ring[Slot(i)] = Text(msg, k)
          PROVE  \E j \in 1..Len(texts) : p.reliableCommands[Slot(i)] = texts[j]
      BY <1>2, <1>5, <2>2
    <2> QED BY <1>4, <2>1, <2>2
  <1> QED BY <1>5, <1>6 DEF p, n, last

\* A farewell says the notice, what the game adds, and at last the disconnect.
LEMMA FarewellSays ==
    ASSUME NEW k \in GameCommands
    PROVE  /\ Farewell(k) \in Seq(Int) /\ Len(Farewell(k)) = k + 2 /\ k \in Nat
           /\ \A j \in 1..k + 2 : Farewell(k)[j] \in {DropNotice, PlayerGone, Disconnect}
           /\ \A j \in 1..k + 1 : Farewell(k)[j] \in {DropNotice, PlayerGone}
  <1> DEFINE first  == <<DropNotice>>
             middle == [i \in 1..k |-> PlayerGone]
             final  == <<Disconnect>>
  <1>1. k \in Nat /\ DropNotice \in Int /\ PlayerGone \in Int /\ Disconnect \in Int
    BY ReliableAssumption DEF DropNotice, PlayerGone, Disconnect
  <1>2. /\ first \in Seq(Int) /\ Len(first) = 1 /\ first[1] = DropNotice
        /\ final \in Seq(Int) /\ Len(final) = 1 /\ final[1] = Disconnect
    BY <1>1
  <1>3. middle \in Seq(Int) /\ Len(middle) = k /\ \A j \in 1..k : middle[j] = PlayerGone
    BY <1>1
  <1>4. Farewell(k) = first \o middle \o final
    BY DEF Farewell
  <1> HIDE DEF first, middle, final
  <1>5. /\ first \o middle \in Seq(Int) /\ Len(first \o middle) = k + 1
        /\ \A j \in 1..k + 1 :
              (first \o middle)[j] = IF j <= 1 THEN first[j] ELSE middle[j - 1]
    <2>1. /\ first \o middle \in Seq(Int)
          /\ Len(first \o middle) = Len(first) + Len(middle)
          /\ \A j \in 1..Len(first) + Len(middle) :
                (first \o middle)[j] = IF j <= Len(first) THEN first[j] ELSE middle[j - Len(first)]
      BY <1>2, <1>3, ConcatProperties
    <2>2. Len(first) + Len(middle) = k + 1
      BY <1>1, <1>2, <1>3
    <2> QED BY <1>2, <2>1, <2>2
  <1>6. \A j \in 1..k + 1 : (first \o middle)[j] \in {DropNotice, PlayerGone}
    <2> TAKE j \in 1..k + 1
    <2>1. CASE j = 1
      BY <1>1, <1>2, <1>5, <2>1
    <2>2. CASE j # 1
      <3>1. j - 1 \in 1..k /\ ~(j <= 1)
        BY <1>1, <2>2
      <3> QED BY <1>3, <1>5, <3>1
    <2> QED BY <2>1, <2>2
  <1>7. /\ Farewell(k) \in Seq(Int) /\ Len(Farewell(k)) = k + 2
        /\ \A j \in 1..k + 2 :
              Farewell(k)[j] = IF j <= k + 1 THEN (first \o middle)[j] ELSE final[j - (k + 1)]
    <2> DEFINE both == first \o middle
    <2>1. both \in Seq(Int) /\ Len(both) = k + 1
      BY <1>5
    <2>2. Farewell(k) = both \o final
      BY <1>4
    <2> HIDE DEF both
    <2>3. /\ both \o final \in Seq(Int)
          /\ Len(both \o final) = Len(both) + Len(final)
          /\ \A j \in 1..Len(both) + Len(final) :
                (both \o final)[j] = IF j <= Len(both) THEN both[j] ELSE final[j - Len(both)]
      BY <1>2, <2>1, ConcatProperties
    <2>4. Len(both) + Len(final) = k + 2
      BY <1>1, <1>2, <2>1
    <2> QED BY <2>1, <2>2, <2>3, <2>4 DEF both
  <1>8. \A j \in 1..k + 1 : Farewell(k)[j] \in {DropNotice, PlayerGone}
    <2> TAKE j \in 1..k + 1
    <2>1. j \in 1..k + 2 /\ j <= k + 1
      BY <1>1
    <2> QED BY <1>6, <1>7, <2>1
  <1>9. Farewell(k)[k + 2] = Disconnect
    <2>1. PICK l \in 1..k + 2 : l = k + 2
      BY <1>1
    <2>2. ~(l <= k + 1) /\ l - (k + 1) = 1
      BY <1>1, <2>1
    <2>3. Farewell(k)[l] = final[1]
      BY <1>7, <2>2
    <2> QED BY <1>2, <2>1, <2>3
  <1>10. \A j \in 1..k + 2 : j = k + 2 \/ j \in 1..k + 1
    BY <1>1
  <1> QED BY <1>1, <1>7, <1>8, <1>9, <1>10

\* The last round of a live client's ring, the beginning of a farewell included.
Holds(s) ==
    \A n \in Nat : Recent(n, s.reliableSequence) =>
        s.reliableCommands[Slot(n)] \in {n, DropNotice, PlayerGone}

\* d is what is left of s when it has been dropped.
DroppedFrom(s, d) ==
    /\ d \in ServerRec
    /\ d.state = "zombie"
    /\ d.reliableSequence >= s.reliableSequence
    /\ d.reliableAcknowledge = s.reliableAcknowledge
    /\ d.lastClientCommand = s.lastClientCommand
    /\ d.lastClientCommandString = s.lastClientCommandString
    /\ d.lost = s.lost
    /\ \A n \in Nat : s.reliableAcknowledge < n /\ n <= d.reliableSequence =>
          \/ d.reliableCommands[Slot(n)] \in {n, DropNotice, PlayerGone, Disconnect}
          \/ d.reliableCommands[Slot(n)] = n - MAX_RELIABLE_COMMANDS /\ n = d.skipped

\* What Gone leaves alone.
LEMMA GoneEffect ==
    ASSUME NEW p \in ServerRec, p.drops \in 0..1
    PROVE  LET d == Gone(p)
           IN  /\ d \in ServerRec /\ d.state = "zombie" /\ d.drops = p.drops + 1
               /\ d.reliableSequence = p.reliableSequence
               /\ d.reliableCommands = p.reliableCommands
               /\ d.reliableAcknowledge = p.reliableAcknowledge
               /\ d.lastClientCommand = p.lastClientCommand
               /\ d.lastClientCommandString = p.lastClientCommandString
               /\ d.lost = p.lost /\ d.skipped = p.skipped
  <1>1. p.drops + 1 \in 0..2
    OBVIOUS
  <1> QED BY <1>1 DEF Gone, ServerRec

\* SV_AddServerCommand for a full ring.
LEMMA OverflowDrops ==
    ASSUME NEW s \in ServerRec, s.drops \in 0..1, Overflows(s), Holds(s),
           NEW d \in DropOnOverflow(s)
    PROVE  DroppedFrom(s, d) /\ d.drops = s.drops + 1
  <1> DEFINE m     == MAX_RELIABLE_COMMANDS
             n     == s.reliableSequence
             taken == [s EXCEPT !.reliableSequence = n + 1, !.skipped = n + 1]
             Said  == {DropNotice, PlayerGone, Disconnect}
  <1>1. n \in Nat /\ s.reliableAcknowledge = n - m /\ m \in Nat \ {0} /\ s.reliableAcknowledge \in Nat
    BY ReliableAssumption DEF Overflows, Pending, ServerRec
  <1>2. PICK k \in GameCommands : d = Gone(PutAll(taken, Farewell(k)))
    BY DEF DropOnOverflow
  <1>3. /\ taken \in ServerRec /\ SameBut(s, taken) /\ taken.skipped = n + 1
        /\ taken.reliableSequence = n + 1 /\ taken.reliableCommands = s.reliableCommands
    <2> DEFINE next == n + 1
    <2>1. next \in Nat /\ taken = [s EXCEPT !.reliableSequence = next, !.skipped = next]
      BY <1>1
    <2> HIDE DEF next, taken
    <2>2. /\ taken \in ServerRec /\ SameBut(s, taken) /\ taken.skipped = next
          /\ taken.reliableSequence = next /\ taken.reliableCommands = s.reliableCommands
      BY <2>1 DEF ServerRec, SameBut
    <2> QED BY <2>2 DEF next
  <1>4. /\ Farewell(k) \in Seq(Int) /\ Len(Farewell(k)) = k + 2 /\ k \in Nat
        /\ \A j \in 1..k + 2 : Farewell(k)[j] \in Said
    BY FarewellSays
  <1>5. PICK p : p = PutAll(taken, Farewell(k))
    OBVIOUS
  <1> HIDE DEF taken
  <1>6. /\ p \in ServerRec /\ SameBut(taken, p) /\ p.skipped = n + 1
        /\ p.reliableSequence = n + 1 + (k + 2)
        /\ \A i \in Int :
              \/ /\ p.reliableCommands[Slot(i)] = s.reliableCommands[Slot(i)]
                 /\ i \notin n + 1 + 1..n + 1 + (k + 2)
              \/ p.reliableCommands[Slot(i)] \in Said
    <2>1. /\ p \in ServerRec /\ SameBut(taken, p) /\ p.skipped = taken.skipped
          /\ p.reliableSequence = taken.reliableSequence + Len(Farewell(k))
          /\ \A i \in Int :
                \/ /\ p.reliableCommands[Slot(i)] = taken.reliableCommands[Slot(i)]
                   /\ i \notin taken.reliableSequence + 1..taken.reliableSequence + Len(Farewell(k))
                \/ \E j \in 1..Len(Farewell(k)) : p.reliableCommands[Slot(i)] = Farewell(k)[j]
      BY <1>3, <1>4, <1>5, PutAllEffect
    <2> QED BY <1>3, <1>4, <2>1
  <1>7. /\ d \in ServerRec /\ d.state = "zombie" /\ d.drops = s.drops + 1
        /\ d.reliableSequence = p.reliableSequence
        /\ d.reliableCommands = p.reliableCommands
        /\ d.reliableAcknowledge = s.reliableAcknowledge
        /\ d.lastClientCommand = s.lastClientCommand
        /\ d.lastClientCommandString = s.lastClientCommandString
        /\ d.lost = s.lost /\ d.skipped = n + 1
    BY <1>2, <1>3, <1>5, <1>6, GoneEffect DEF SameBut
  <1> HIDE DEF m, n
  <1>8. ASSUME NEW i \in Nat, s.reliableAcknowledge < i, i <= d.reliableSequence
        PROVE  \/ d.reliableCommands[Slot(i)] \in {i, DropNotice, PlayerGone, Disconnect}
               \/ d.reliableCommands[Slot(i)] = i - m /\ i = d.skipped
    <2>1. CASE d.reliableCommands[Slot(i)] \in Said
      BY <2>1
    <2>2. CASE /\ d.reliableCommands[Slot(i)] = s.reliableCommands[Slot(i)]
               /\ i \notin n + 1 + 1..n + 1 + (k + 2)
      <3>1. CASE i <= n
        <4>1. s.reliableCommands[Slot(i)] \in {i, DropNotice, PlayerGone}
          BY <1>1, <1>8, <3>1 DEF Holds, Recent, m, n
        <4> QED BY <2>2, <4>1
      <3>2. CASE i = n + 1
        <4>1. n + 1 - m \in Nat /\ Recent(n + 1 - m, n)
          BY <1>1 DEF Recent, m
        <4>2. s.reliableCommands[Slot(n + 1 - m)] \in {n + 1 - m, DropNotice, PlayerGone}
          BY <4>1 DEF Holds, n
        <4>3. Slot(i) = Slot(n + 1 - m)
          <5>1. n + 1 - m \in Int /\ (n + 1 - m) + m = i
            BY <1>1, <3>2
          <5> QED BY <5>1, SlotOneRound DEF m
        <4>4. n + 1 - m = i - m
          BY <1>1, <3>2
        <4>5. d.reliableCommands[Slot(i)] \in {i - m, DropNotice, PlayerGone}
          BY <2>2, <4>2, <4>3, <4>4
        <4> QED BY <1>7, <3>2, <4>5
      <3>3. i <= n \/ i = n + 1
        BY SMTT(30), <1>1, <1>4, <1>6, <1>7, <1>8, <2>2
      <3> QED BY <3>1, <3>2, <3>3
    <2> QED BY <1>6, <1>7, <2>1, <2>2
  <1>9. d.reliableSequence >= s.reliableSequence
    BY <1>1, <1>4, <1>6, <1>7 DEF n
  <1> QED BY <1>7, <1>8, <1>9 DEF DroppedFrom, m

\* SV_DropClient of a live client, full ring or not.
LEMMA DropEffect ==
    ASSUME NEW s \in ServerRec, s.state = "active", s.drops = 0,
           Pending(s) \in 0..MAX_RELIABLE_COMMANDS, Holds(s),
           NEW d \in SV_DropClient(s)
    PROVE  DroppedFrom(s, d)
  <1> DEFINE n    == s.reliableSequence
             room == MAX_RELIABLE_COMMANDS - Pending(s)
             Said == {DropNotice, PlayerGone, Disconnect}
  <1>1. /\ n \in Nat /\ s.reliableAcknowledge \in Nat /\ room \in Nat
        /\ n = s.reliableAcknowledge + (MAX_RELIABLE_COMMANDS - room)
        /\ MAX_RELIABLE_COMMANDS \in Nat \ {0}
    BY ReliableAssumption DEF Pending, ServerRec
  <1>2. PICK k \in GameCommands :
           \/ Len(Farewell(k)) <= room /\ d = Gone(PutAll(s, Farewell(k)))
           \/ /\ Len(Farewell(k)) > room
              /\ \E e \in DropOnOverflow(PutAll(s, SubSeq(Farewell(k), 1, room))) :
                    d = [e EXCEPT !.drops = @ + 1]
    <2>1. \A k \in GameCommands : Len(Farewell(k)) <= room \/ Len(Farewell(k)) > room
      <3> TAKE k \in GameCommands
      <3>1. Len(Farewell(k)) \in Nat
        BY FarewellSays
      <3> QED BY <1>1, <3>1
    <2> QED BY <2>1 DEF SV_DropClient
  <1>3. /\ Farewell(k) \in Seq(Int) /\ Len(Farewell(k)) = k + 2 /\ k \in Nat
        /\ \A j \in 1..k + 2 : Farewell(k)[j] \in Said
        /\ \A j \in 1..k + 1 : Farewell(k)[j] \in {DropNotice, PlayerGone}
    BY FarewellSays
  <1>4. ASSUME NEW i \in Nat, s.reliableAcknowledge < i, i <= n
        PROVE  s.reliableCommands[Slot(i)] \in {i, DropNotice, PlayerGone}
    BY <1>1, <1>4 DEF Holds, Recent
  <1> HIDE DEF n, room
  <1>5. CASE Len(Farewell(k)) <= room /\ d = Gone(PutAll(s, Farewell(k)))
    <2>1. PICK p : p = PutAll(s, Farewell(k))
      OBVIOUS
    <2>2. /\ p \in ServerRec /\ SameBut(s, p)
          /\ p.reliableSequence = n + (k + 2)
          /\ \A i \in Int :
                \/ /\ p.reliableCommands[Slot(i)] = s.reliableCommands[Slot(i)]
                   /\ i \notin n + 1..n + (k + 2)
                \/ p.reliableCommands[Slot(i)] \in Said
      <3>1. /\ p \in ServerRec /\ SameBut(s, p)
            /\ p.reliableSequence = n + Len(Farewell(k))
            /\ \A i \in Int :
                  \/ /\ p.reliableCommands[Slot(i)] = s.reliableCommands[Slot(i)]
                     /\ i \notin n + 1..n + Len(Farewell(k))
                  \/ \E j \in 1..Len(Farewell(k)) : p.reliableCommands[Slot(i)] = Farewell(k)[j]
        BY <1>3, <2>1, PutAllEffect DEF n
      <3> QED BY <1>3, <3>1
    <2>3. /\ d \in ServerRec /\ d.state = "zombie"
          /\ d.reliableSequence = p.reliableSequence
          /\ d.reliableCommands = p.reliableCommands
          /\ d.reliableAcknowledge = s.reliableAcknowledge
          /\ d.lastClientCommand = s.lastClientCommand
          /\ d.lastClientCommandString = s.lastClientCommandString
          /\ d.lost = s.lost
      BY <1>5, <2>1, <2>2, GoneEffect DEF SameBut
    <2>4. ASSUME NEW i \in Nat, s.reliableAcknowledge < i, i <= d.reliableSequence
          PROVE  d.reliableCommands[Slot(i)] \in {i, DropNotice, PlayerGone, Disconnect}
      <3>1. CASE d.reliableCommands[Slot(i)] \in Said
        BY <3>1
      <3>2. CASE /\ d.reliableCommands[Slot(i)] = s.reliableCommands[Slot(i)]
                 /\ i \notin n + 1..n + (k + 2)
        <4>1. i <= n
          BY SMTT(30), <1>1, <1>3, <2>2, <2>3, <2>4, <3>2
        <4> QED BY <1>4, <2>4, <3>2, <4>1
      <3> QED BY <2>2, <2>3, <3>1, <3>2
    <2>5. d.reliableSequence >= s.reliableSequence
      BY <1>1, <1>3, <2>2, <2>3 DEF n
    <2> QED BY <2>3, <2>4, <2>5 DEF DroppedFrom
  <1>6. ASSUME Len(Farewell(k)) > room,
               NEW e \in DropOnOverflow(PutAll(s, SubSeq(Farewell(k), 1, room))),
               d = [e EXCEPT !.drops = @ + 1]
        PROVE  DroppedFrom(s, d)
    <2>1. PICK texts : texts = SubSeq(Farewell(k), 1, room)
      OBVIOUS
    <2>2. /\ texts \in Seq(Int) /\ Len(texts) = room
          /\ \A j \in 1..room : texts[j] \in {DropNotice, PlayerGone}
      <3>1. room <= Len(Farewell(k)) /\ \A j \in 1..room : j \in 1..k + 1
        BY <1>1, <1>3, <1>6
      <3>2. texts \in Seq(Int) /\ Len(texts) = room /\ \A j \in 1..room : texts[j] = Farewell(k)[j]
        <4>1. \A j \in 1..room : j \in 1..Len(Farewell(k))
          BY <1>1, <1>3, <3>1
        <4>2. texts = [j \in 1..room |-> Farewell(k)[1 + j - 1]]
          BY <1>1, <1>3, <2>1
        <4>3. \A j \in 1..room : Farewell(k)[j] \in Int /\ 1 + j - 1 = j
          BY <1>1, <1>3, <4>1
        <4> QED BY <1>1, <4>2, <4>3
      <3> QED BY <1>3, <3>1, <3>2
    <2>3. PICK p : p = PutAll(s, texts)
      OBVIOUS
    <2>4. /\ p \in ServerRec /\ SameBut(s, p)
          /\ p.reliableSequence = n + room
          /\ \A i \in Int :
                \/ /\ p.reliableCommands[Slot(i)] = s.reliableCommands[Slot(i)]
                   /\ i \notin n + 1..n + room
                \/ p.reliableCommands[Slot(i)] \in {DropNotice, PlayerGone}
      <3>1. /\ p \in ServerRec /\ SameBut(s, p)
            /\ p.reliableSequence = n + Len(texts)
            /\ \A i \in Int :
                  \/ /\ p.reliableCommands[Slot(i)] = s.reliableCommands[Slot(i)]
                     /\ i \notin n + 1..n + Len(texts)
                  \/ \E j \in 1..Len(texts) : p.reliableCommands[Slot(i)] = texts[j]
        BY <2>2, <2>3, PutAllEffect DEF n
      <3> QED BY <2>2, <3>1
    <2>5. Overflows(p)
      BY <1>1, <2>4 DEF Overflows, Pending, SameBut
    <2>6. Holds(p)
      <3>1. SUFFICES ASSUME NEW i \in Nat, Recent(i, n + room)
                     PROVE  p.reliableCommands[Slot(i)] \in {i, DropNotice, PlayerGone}
        BY <2>4 DEF Holds
      <3>2. s.reliableAcknowledge < i /\ i <= n + room
        BY <1>1, <3>1 DEF Recent
      <3>3. CASE /\ p.reliableCommands[Slot(i)] = s.reliableCommands[Slot(i)]
                 /\ i \notin n + 1..n + room
        <4>1. i <= n
          BY <1>1, <3>2, <3>3
        <4> QED BY <1>4, <3>2, <3>3, <4>1
      <3> QED BY <2>4, <3>3
    <2>7. DroppedFrom(p, e) /\ e.drops = 1
      BY <1>6, <2>1, <2>3, <2>4, <2>5, <2>6, OverflowDrops DEF SameBut
    <2>8. /\ d \in ServerRec /\ d.state = "zombie"
          /\ d.reliableSequence = e.reliableSequence
          /\ d.reliableCommands = e.reliableCommands
          /\ d.reliableAcknowledge = e.reliableAcknowledge
          /\ d.lastClientCommand = e.lastClientCommand
          /\ d.lastClientCommandString = e.lastClientCommandString
          /\ d.lost = e.lost /\ d.skipped = e.skipped
      <3>1. e \in ServerRec /\ e.state = "zombie" /\ e.drops + 1 \in 0..2
        BY <2>7 DEF DroppedFrom
      <3> QED BY <1>6, <3>1 DEF ServerRec
    <2>9. e.reliableSequence \in Nat /\ d.reliableSequence >= s.reliableSequence
      BY <1>1, <2>4, <2>7, <2>8 DEF DroppedFrom, ServerRec, n
    <2> QED BY <2>4, <2>7, <2>8, <2>9 DEF DroppedFrom, SameBut
  <1> QED BY <1>2, <1>5, <1>6

-----------------------------------------------------------------------------
(* What a message brings. *)

\* The commands after number n, of a message that leaves no gap after n.
LEMMA AfterIsInterval ==
    ASSUME NEW msg \in Message, NEW n \in Nat, msg.from <= n + 1
    PROVE  /\ Last(msg) \in Int
           /\ After(msg, n) = n + 1..Last(msg)
           /\ \A k \in n + 1..Last(msg) : /\ Text(msg, k) \in Int
                                          /\ k - msg.from + 1 \in 1..Len(msg.texts)
  <1>1. msg.from \in Nat /\ msg.texts \in Seq(Int) /\ Len(msg.texts) \in Nat
    BY DEF Message
  <1>2. Last(msg) = msg.from + Len(msg.texts) - 1 /\ Last(msg) \in Int
    BY <1>1 DEF Last
  <1>3. After(msg, n) = n + 1..Last(msg)
    BY <1>1, <1>2 DEF After
  <1>4. ASSUME NEW k \in n + 1..Last(msg)
        PROVE  k - msg.from + 1 \in 1..Len(msg.texts)
    BY SMTT(30), <1>1, <1>2
  <1>5. ASSUME NEW k \in n + 1..Last(msg)
        PROVE  Text(msg, k) \in Int
    BY <1>1, <1>4 DEF Text
  <1> QED BY <1>2, <1>3, <1>4, <1>5

\* What the server executes are the numbers that follow the last one it has
\* executed, and no disconnect is in them but as the last.
LEMMA ToExecuteIsInterval ==
    ASSUME NEW msg \in Message, cl.lastClientCommand \in Nat,
           msg.from <= cl.lastClientCommand + 1, ToExecute(msg) # {}
    PROVE  LET last == Max(ToExecute(msg))
           IN  /\ last \in Nat /\ cl.lastClientCommand < last /\ last <= Last(msg)
               /\ ToExecute(msg) = cl.lastClientCommand + 1..last
               /\ Cardinality(ToExecute(msg)) = last - cl.lastClientCommand
               /\ \A k \in cl.lastClientCommand + 1..last :
                     /\ Text(msg, k) \in Int
                     /\ k - msg.from + 1 \in 1..Len(msg.texts)
                     /\ k < last => Text(msg, k) # Disconnect
  <1> DEFINE n    == cl.lastClientCommand
             todo == ToExecute(msg)
             last == Max(todo)
  <1>1. /\ Last(msg) \in Int
        /\ After(msg, n) = n + 1..Last(msg)
        /\ \A k \in n + 1..Last(msg) : /\ Text(msg, k) \in Int
                                       /\ k - msg.from + 1 \in 1..Len(msg.texts)
    BY AfterIsInterval
  <1>2. todo = {k \in n + 1..Last(msg) :
                    \A j \in n + 1..Last(msg) : j < k => Text(msg, j) # Disconnect}
    BY <1>1 DEF ToExecute
  <1> HIDE DEF todo
  <1>3. todo \in SUBSET Int /\ todo # {} /\ \A x \in todo : x <= Last(msg)
    BY <1>1, <1>2 DEF todo
  <1>4. last \in todo /\ \A x \in todo : x <= last
    BY <1>1, <1>3, MaxOfBounded
  <1> HIDE DEF last
  <1>5. last \in n + 1..Last(msg) /\ \A j \in n + 1..Last(msg) : j < last => Text(msg, j) # Disconnect
    BY <1>2, <1>4
  <1>6. todo = n + 1..last
    <2>1. ASSUME NEW k \in n + 1..last PROVE k \in todo
      BY <1>1, <1>2, <1>5
    <2>2. ASSUME NEW k \in todo PROVE k \in n + 1..last
      BY <1>1, <1>2, <1>4, <1>5
    <2> QED BY <2>1, <2>2
  <1>7. Cardinality(todo) = last - n
    <2>1. last \in Int /\ n + 1 \in Int /\ n + 1 <= last
      BY <1>5
    <2> QED BY <1>6, <2>1, FS_Interval
  <1> QED BY <1>1, <1>5, <1>6, <1>7 DEF todo, last

\* What CL_ParseCommandString makes of the client's ring: its last round is the
\* message's where it is new.
LEMMA StoreEffect ==
    ASSUME NEW c \in ClientRec, NEW msg \in Message, msg.from <= c.serverCommandSequence + 1
    PROVE  LET d == StoreCommands(c, msg)
           IN  /\ d \in ClientRec
               /\ d.connected = c.connected
               /\ d.reliableSequence = c.reliableSequence
               /\ d.reliableAcknowledge = c.reliableAcknowledge
               /\ d.reliableCommands = c.reliableCommands
               /\ d.lastExecutedServerCommand = c.lastExecutedServerCommand
               /\ d.serverCommandSequence >= c.serverCommandSequence
               /\ d.serverCommandSequence \in {c.serverCommandSequence, Last(msg)}
               /\ \A n \in Nat : Recent(n, d.serverCommandSequence) =>
                     \/ /\ Recent(n, c.serverCommandSequence)
                        /\ d.serverCommands[Slot(n)] = c.serverCommands[Slot(n)]
                     \/ /\ n - msg.from + 1 \in 1..Len(msg.texts)
                        /\ d.serverCommands[Slot(n)] = Text(msg, n)
  <1> DEFINE old  == c.serverCommandSequence
             last == Last(msg)
             new  == After(msg, old)
             ring == Written(c.serverCommands, msg, new)
             d    == StoreCommands(c, msg)
  <1>1. old \in Nat /\ c.serverCommands \in Ring
    BY DEF ClientRec
  <1>2. /\ last \in Int
        /\ new = old + 1..last
        /\ \A k \in old + 1..last : /\ Text(msg, k) \in Int
                                    /\ k - msg.from + 1 \in 1..Len(msg.texts)
    BY <1>1, AfterIsInterval
  <1>3. CASE new = {}
    <2>1. d = c
      BY <1>3 DEF StoreCommands
    <2> QED BY <1>1, <2>1
  <1>4. CASE new # {}
    <2>1. d = [c EXCEPT !.serverCommandSequence = last, !.serverCommands = ring]
      BY <1>4 DEF StoreCommands
    <2> HIDE DEF new, ring, d, last
    <2>2. last \in Nat /\ old < last
      BY <1>1, <1>2, <1>4
    <2> DEFINE first == old + 1
    <2>3. first \in Int /\ new = first..last /\ ring = Written(c.serverCommands, msg, new)
      BY <1>1, <1>2 DEF ring
    <2>4. ring \in Ring
      <3>1. \A k \in first..last : Text(msg, k) \in Int
        BY <1>2
      <3> HIDE DEF first
      <3>2. Written(c.serverCommands, msg, first..last) \in Ring
        BY <1>1, <2>2, <2>3, <3>1, WrittenEffect
      <3> QED BY <2>3, <3>2
    <2>5. ASSUME NEW n \in Nat, Recent(n, last)
          PROVE  \/ /\ Recent(n, old)
                    /\ ring[Slot(n)] = c.serverCommands[Slot(n)]
                 \/ /\ n - msg.from + 1 \in 1..Len(msg.texts)
                    /\ ring[Slot(n)] = Text(msg, n)
      <3>1. ASSUME NEW k \in new, k > n PROVE Slot(k) # Slot(n)
        <4>1. k \in Int /\ n \in Int /\ n < k /\ k < n + MAX_RELIABLE_COMMANDS
          BY <1>1, <1>2, <2>2, <2>5, <3>1, ReliableAssumption DEF Recent
        <4> QED BY <4>1, SlotsDiffer
      <3>2. \/ /\ ring[Slot(n)] = c.serverCommands[Slot(n)]
               /\ \A k \in new : Slot(k) # Slot(n)
            \/ \E k \in new : /\ Slot(k) = Slot(n) /\ ring[Slot(n)] = Text(msg, k)
                              /\ \A j \in new : Slot(j) = Slot(n) => j <= k
        <4>1. n \in Int /\ \A k \in first..last : Text(msg, k) \in Int
          BY <1>2, <2>3
        <4> HIDE DEF first
        <4> QED BY <1>1, <2>2, <2>3, <4>1, WrittenEffect
      <3>3. CASE n <= old
        <4>1. Recent(n, old)
          BY <1>1, <2>2, <2>5, <3>3, ReliableAssumption DEF Recent
        <4>2. \A k \in new : k > n
          BY <1>1, <1>2, <3>3
        <4> QED BY <3>1, <3>2, <4>1, <4>2
      <3>4. CASE n > old
        <4>1. n \in new
          BY <1>1, <1>2, <2>5, <3>4 DEF Recent
        <4>2. PICK k \in new : Slot(k) = Slot(n) /\ ring[Slot(n)] = Text(msg, k) /\ n <= k
          BY <3>2, <4>1
        <4>3. k = n
          <5>1. k \in Int /\ ~(k > n)
            BY <1>1, <1>2, <3>1, <4>2
          <5> QED BY <4>2, <5>1
        <4> QED BY <1>2, <4>1, <4>2, <4>3
      <3> QED BY <1>1, <3>3, <3>4
    <2>6. /\ d \in ClientRec
          /\ d.connected = c.connected
          /\ d.reliableSequence = c.reliableSequence
          /\ d.reliableAcknowledge = c.reliableAcknowledge
          /\ d.reliableCommands = c.reliableCommands
          /\ d.lastExecutedServerCommand = c.lastExecutedServerCommand
          /\ d.serverCommandSequence = last
          /\ d.serverCommands = ring
      BY <2>1, <2>2, <2>4 DEF ClientRec
    <2> QED BY <1>1, <2>2, <2>5, <2>6 DEF last, d
  <1> QED BY <1>3, <1>4

-----------------------------------------------------------------------------
(* What was said stays said, and queues change in three ways. *)

\* No step takes a number back, reopens a connection or revives a client.
Onward ==
    /\ clc' \in ClientRec /\ cl' \in ServerRec
    /\ clc'.connected => clc.connected
    /\ cl.state = "zombie" => cl'.state = "zombie" /\ cl'.skipped = cl.skipped
    /\ cl.lastClientCommand <= cl'.lastClientCommand
    /\ cl.reliableSequence <= cl'.reliableSequence
    /\ clc.reliableSequence <= clc'.reliableSequence
    /\ clc.serverCommandSequence <= clc'.serverCommandSequence

LEMMA ClientSaidStays ==
    ASSUME NEW n, NEW t, Onward, ClientSaid(n, t)
    PROVE  ClientSaid(n, t)'
  BY DEF ClientSaid, Onward

LEMMA ServerSaidStays ==
    ASSUME NEW n, NEW t, Onward, ServerSaid(n, t)
    PROVE  ServerSaid(n, t)'
  BY DEF ServerSaid, Onward

LEMMA ToServerSaysStays ==
    ASSUME TypeInv, Onward, NEW m \in Message, ToServerSays(m), cl'.reliableAcknowledge <= m.ack
    PROVE  ToServerSays(m)'
  <1>1. /\ m.ack \in Nat /\ m.from \in Nat /\ Len(m.texts) \in Nat
        /\ clc.reliableSequence \in Nat /\ clc'.reliableSequence \in Nat
        /\ clc.serverCommandSequence \in Nat /\ clc'.serverCommandSequence \in Nat
        /\ cl.lastClientCommand \in Nat /\ cl'.lastClientCommand \in Nat
    BY DEF TypeInv, Onward, Message, ClientRec, ServerRec
  <1>2. \A k \in 1..Len(m.texts) : ClientSaid(m.from + k - 1, m.texts[k])'
    BY ClientSaidStays DEF ToServerSays
  <1>3. ServerSaid(m.ack, m.key)'
    BY ServerSaidStays DEF ToServerSays
  <1>4. /\ m.from >= 1 /\ m.from <= cl'.lastClientCommand + 1
        /\ m.from + Len(m.texts) - 1 <= clc'.reliableSequence
        /\ m.ack <= clc'.serverCommandSequence
    <2>1. /\ m.from >= 1 /\ m.from <= cl.lastClientCommand + 1
          /\ m.from + Len(m.texts) - 1 <= clc.reliableSequence
          /\ m.ack <= clc.serverCommandSequence
      BY DEF ToServerSays
    <2>2. /\ cl.lastClientCommand <= cl'.lastClientCommand
          /\ clc.reliableSequence <= clc'.reliableSequence
          /\ clc.serverCommandSequence <= clc'.serverCommandSequence
      BY DEF Onward
    <2> DEFINE last == m.from + Len(m.texts) - 1
    <2>3. last \in Int
      BY <1>1
    <2> HIDE DEF last
    <2>4. last <= clc'.reliableSequence
      BY SMTT(30), <1>1, <2>1, <2>2, <2>3 DEF last
    <2>5. m.from <= cl'.lastClientCommand + 1
      BY <1>1, <2>1, <2>2, SMTT(30)
    <2>6. m.ack <= clc'.serverCommandSequence
      BY <1>1, <2>1, <2>2, SMTT(30)
    <2> QED BY <2>1, <2>4, <2>5, <2>6 DEF last
  <1> QED BY <1>2, <1>3, <1>4 DEF ToServerSays

LEMMA ToClientSaysStays ==
    ASSUME TypeInv, Onward, NEW m \in Message, ToClientSays(m), clc'.reliableAcknowledge <= m.ack
    PROVE  ToClientSays(m)'
  <1>1. /\ m.ack \in Nat /\ m.from \in Nat /\ Len(m.texts) \in Nat
        /\ clc.serverCommandSequence \in Nat /\ clc'.serverCommandSequence \in Nat
        /\ cl.reliableSequence \in Nat /\ cl'.reliableSequence \in Nat
        /\ cl.lastClientCommand \in Nat /\ cl'.lastClientCommand \in Nat
    BY DEF TypeInv, Onward, Message, ClientRec, ServerRec
  <1>2. \A k \in 1..Len(m.texts) : ServerSaid(m.from + k - 1, m.texts[k])'
    BY ServerSaidStays DEF ToClientSays
  <1>3. ClientSaid(m.ack, m.key)'
    BY ClientSaidStays DEF ToClientSays
  <1>4. /\ m.from >= 1 /\ m.from <= clc'.serverCommandSequence + 1
        /\ m.from + Len(m.texts) - 1 <= cl'.reliableSequence
        /\ m.ack <= cl'.lastClientCommand
    <2>1. /\ m.from >= 1 /\ m.from <= clc.serverCommandSequence + 1
          /\ m.from + Len(m.texts) - 1 <= cl.reliableSequence
          /\ m.ack <= cl.lastClientCommand
      BY DEF ToClientSays
    <2>2. /\ cl.lastClientCommand <= cl'.lastClientCommand
          /\ cl.reliableSequence <= cl'.reliableSequence
          /\ clc.serverCommandSequence <= clc'.serverCommandSequence
      BY DEF Onward
    <2> DEFINE last == m.from + Len(m.texts) - 1
    <2>3. last \in Int
      BY <1>1
    <2> HIDE DEF last
    <2>4. last <= cl'.reliableSequence
      BY SMTT(30), <1>1, <2>1, <2>2, <2>3 DEF last
    <2>5. m.from <= clc'.serverCommandSequence + 1
      BY <1>1, <2>1, <2>2, SMTT(30)
    <2>6. m.ack <= cl'.lastClientCommand
      BY <1>1, <2>1, <2>2, SMTT(30)
    <2> QED BY <2>1, <2>4, <2>5, <2>6 DEF last
  <1> QED BY <1>2, <1>3, <1>4 DEF ToClientSays

\* Nothing sent, nothing received.
LEMMA ToServerStays ==
    ASSUME TypeInv, ToServerInv, Onward, toServer' = toServer,
           cl'.reliableAcknowledge = cl.reliableAcknowledge
    PROVE  ToServerInv'
  <1>1. ASSUME NEW i \in 1..Len(toServer) PROVE ToServerSays(toServer[i])'
    <2> DEFINE m == toServer[i]
    <2>1. m \in Message /\ ToServerSays(m)
      BY DEF TypeInv, ToServerInv
    <2>2. cl'.reliableAcknowledge <= m.ack
      BY <2>1 DEF ToServerSays
    <2>3. ASSUME NEW k \in Message, k = m PROVE ToServerSays(k)'
      BY <2>1, <2>2, <2>3, ToServerSaysStays
    <2> QED BY <2>1, <2>3
  <1> QED BY <1>1 DEF ToServerInv, AcksGrow

LEMMA ToClientStays ==
    ASSUME TypeInv, ToClientInv, Onward, toClient' = toClient,
           clc'.reliableAcknowledge = clc.reliableAcknowledge
    PROVE  ToClientInv'
  <1>1. ASSUME NEW i \in 1..Len(toClient) PROVE ToClientSays(toClient[i])'
    <2> DEFINE m == toClient[i]
    <2>1. m \in Message /\ ToClientSays(m)
      BY DEF TypeInv, ToClientInv
    <2>2. clc'.reliableAcknowledge <= m.ack
      BY <2>1 DEF ToClientSays
    <2>3. ASSUME NEW k \in Message, k = m PROVE ToClientSays(k)'
      BY <2>1, <2>2, <2>3, ToClientSaysStays
    <2> QED BY <2>1, <2>3
  <1> QED BY <1>1 DEF ToClientInv, AcksGrow

\* The oldest messages have gone, and one of them may have been read.
LEMMA ToServerRest ==
    ASSUME TypeInv, ToServerInv, Onward, NEW i \in 1..Len(toServer),
           toServer' = SubSeq(toServer, i + 1, Len(toServer)),
           \/ cl'.reliableAcknowledge = cl.reliableAcknowledge
           \/ cl'.reliableAcknowledge = toServer[i].ack
    PROVE  toServer' \in Seq(Message) /\ ToServerInv'
  <1>1. toServer \in Seq(Message) /\ AcksGrow(toServer)
    BY DEF TypeInv, ToServerInv
  <1>2. /\ toServer' \in Seq(Message)
        /\ Len(toServer') = Len(toServer) - i
        /\ \A j \in 1..Len(toServer') :
              i + j \in 1..Len(toServer) /\ toServer'[j] = toServer[i + j]
        /\ AcksGrow(toServer')
    BY <1>1, Rest
  <1>3. ASSUME NEW j \in 1..Len(toServer') PROVE ToServerSays(toServer[j])'
    <2> DEFINE m == toServer[i + j]
    <2>1. i + j \in 1..Len(toServer) /\ i < i + j /\ m = toServer'[j] /\ m \in Message
      BY SMTT(30), <1>1, <1>2
    <2>2. ToServerSays(m)
      BY <2>1 DEF ToServerInv
    <2>3. toServer[i].ack <= m.ack
      BY <1>1, <2>1 DEF AcksGrow
    <2>4. cl'.reliableAcknowledge <= m.ack
      BY <2>2, <2>3 DEF ToServerSays
    <2>5. ASSUME NEW k \in Message, k = m PROVE ToServerSays(k)'
      BY <2>2, <2>4, <2>5, ToServerSaysStays
    <2>6. ASSUME NEW k \in Message, k = toServer'[j] PROVE ToServerSays(k)'
      BY <2>1, <2>5, <2>6
    <2> QED BY <2>1, <2>6
  <1>4. AcksGrow(toServer)'
    BY <1>2 DEF AcksGrow
  <1> QED BY <1>2, <1>3, <1>4 DEF ToServerInv

LEMMA ToServerSent ==
    ASSUME TypeInv, ToServerInv, Onward, NEW m \in Message,
           toServer' = Append(toServer, m), ToServerSays(m)',
           \A j \in 1..Len(toServer) : toServer[j].ack <= m.ack,
           cl'.reliableAcknowledge = cl.reliableAcknowledge
    PROVE  toServer' \in Seq(Message) /\ ToServerInv'
  <1>1. toServer \in Seq(Message) /\ AcksGrow(toServer)
    BY DEF TypeInv, ToServerInv
  <1>2. /\ toServer' \in Seq(Message)
        /\ \A j \in 1..Len(toServer') :
              toServer'[j] = m \/ (j \in 1..Len(toServer) /\ toServer'[j] = toServer[j])
        /\ AcksGrow(toServer')
    BY <1>1, Sent
  <1>3. ASSUME NEW j \in 1..Len(toServer') PROVE ToServerSays(toServer[j])'
    <2>1. CASE toServer'[j] = m
      BY <2>1
    <2>2. CASE j \in 1..Len(toServer) /\ toServer'[j] = toServer[j]
      <3> DEFINE k == toServer[j]
      <3>1. k \in Message /\ ToServerSays(k)
        BY <1>1, <2>2 DEF ToServerInv
      <3>2. cl'.reliableAcknowledge <= k.ack
        BY <3>1 DEF ToServerSays
      <3>3. ASSUME NEW h \in Message, h = k PROVE ToServerSays(h)'
        BY <3>1, <3>2, <3>3, ToServerSaysStays
      <3>4. ASSUME NEW h \in Message, h = toServer'[j] PROVE ToServerSays(h)'
        BY <2>2, <3>3, <3>4
      <3> QED BY <2>2, <3>1, <3>4
    <2> QED BY <1>2, <2>1, <2>2
  <1>4. AcksGrow(toServer)'
    BY <1>2 DEF AcksGrow
  <1> QED BY <1>2, <1>3, <1>4 DEF ToServerInv

LEMMA ToClientRest ==
    ASSUME TypeInv, ToClientInv, Onward, NEW i \in 1..Len(toClient),
           toClient' = SubSeq(toClient, i + 1, Len(toClient)),
           \/ clc'.reliableAcknowledge = clc.reliableAcknowledge
           \/ clc'.reliableAcknowledge = toClient[i].ack
    PROVE  toClient' \in Seq(Message) /\ ToClientInv'
  <1>1. toClient \in Seq(Message) /\ AcksGrow(toClient)
    BY DEF TypeInv, ToClientInv
  <1>2. /\ toClient' \in Seq(Message)
        /\ Len(toClient') = Len(toClient) - i
        /\ \A j \in 1..Len(toClient') :
              i + j \in 1..Len(toClient) /\ toClient'[j] = toClient[i + j]
        /\ AcksGrow(toClient')
    BY <1>1, Rest
  <1>3. ASSUME NEW j \in 1..Len(toClient') PROVE ToClientSays(toClient[j])'
    <2> DEFINE m == toClient[i + j]
    <2>1. i + j \in 1..Len(toClient) /\ i < i + j /\ m = toClient'[j] /\ m \in Message
      BY <1>1, <1>2
    <2>2. ToClientSays(m)
      BY <2>1 DEF ToClientInv
    <2>3. toClient[i].ack <= m.ack
      BY <1>1, <2>1 DEF AcksGrow
    <2>4. clc'.reliableAcknowledge <= m.ack
      BY <2>2, <2>3 DEF ToClientSays
    <2>5. ASSUME NEW k \in Message, k = m PROVE ToClientSays(k)'
      BY <2>2, <2>4, <2>5, ToClientSaysStays
    <2>6. ASSUME NEW k \in Message, k = toClient'[j] PROVE ToClientSays(k)'
      BY <2>1, <2>5, <2>6
    <2> QED BY <2>1, <2>6
  <1>4. AcksGrow(toClient)'
    BY <1>2 DEF AcksGrow
  <1> QED BY <1>2, <1>3, <1>4 DEF ToClientInv

LEMMA ToClientSent ==
    ASSUME TypeInv, ToClientInv, Onward, NEW m \in Message,
           toClient' = Append(toClient, m), ToClientSays(m)',
           \A j \in 1..Len(toClient) : toClient[j].ack <= m.ack,
           clc'.reliableAcknowledge = clc.reliableAcknowledge
    PROVE  toClient' \in Seq(Message) /\ ToClientInv'
  <1>1. toClient \in Seq(Message) /\ AcksGrow(toClient)
    BY DEF TypeInv, ToClientInv
  <1>2. /\ toClient' \in Seq(Message)
        /\ \A j \in 1..Len(toClient') :
              toClient'[j] = m \/ (j \in 1..Len(toClient) /\ toClient'[j] = toClient[j])
        /\ AcksGrow(toClient')
    BY <1>1, Sent
  <1>3. ASSUME NEW j \in 1..Len(toClient') PROVE ToClientSays(toClient[j])'
    <2>1. CASE toClient'[j] = m
      BY <2>1
    <2>2. CASE j \in 1..Len(toClient) /\ toClient'[j] = toClient[j]
      <3> DEFINE k == toClient[j]
      <3>1. k \in Message /\ ToClientSays(k)
        BY <1>1, <2>2 DEF ToClientInv
      <3>2. clc'.reliableAcknowledge <= k.ack
        BY <3>1 DEF ToClientSays
      <3>3. ASSUME NEW h \in Message, h = k PROVE ToClientSays(h)'
        BY <3>1, <3>2, <3>3, ToClientSaysStays
      <3>4. ASSUME NEW h \in Message, h = toClient'[j] PROVE ToClientSays(h)'
        BY <2>2, <3>3, <3>4
      <3> QED BY <2>2, <3>1, <3>4
    <2> QED BY <1>2, <2>1, <2>2
  <1>4. AcksGrow(toClient)'
    BY <1>2 DEF AcksGrow
  <1> QED BY <1>2, <1>3, <1>4 DEF ToClientInv

-----------------------------------------------------------------------------
(* What the client sends. *)

\* A packet of connection c says what it should when c's ring does.
LEMMA ClientMessageSays ==
    ASSUME TypeInv, CountersInv, RingsInv, Onward, cl' = cl,
           NEW c \in ClientRec, NEW m, m = ClientMessage(c),
           c.reliableAcknowledge <= cl.lastClientCommand,
           c.reliableAcknowledge <= c.reliableSequence,
           c.reliableSequence = clc'.reliableSequence,
           c.serverCommandSequence = clc.serverCommandSequence,
           c.serverCommands = clc.serverCommands,
           \A n \in Nat : c.reliableAcknowledge < n /\ n <= c.reliableSequence =>
               ClientSaid(n, c.reliableCommands[Slot(n)])'
    PROVE  m \in Message /\ m.ack = clc.serverCommandSequence /\ ToServerSays(m)'
  <1> DEFINE a   == c.reliableAcknowledge
             s   == c.serverCommandSequence
             len == c.reliableSequence - a
             key == c.serverCommands[Slot(s)]
             texts == PendingTexts(c)
  <1>1. /\ a \in Nat /\ s \in Nat /\ len \in Nat /\ a + len = c.reliableSequence
        /\ c.reliableCommands \in Ring /\ c.serverCommands \in Ring
    BY DEF ClientRec
  <1>2. key \in Int
    BY <1>1, TextInRing
  <1>3. /\ texts \in Seq(Int) /\ Len(texts) = len
        /\ \A k \in 1..len : texts[k] = c.reliableCommands[Slot(a + k)]
    <2>1. texts = [k \in 1..len |-> c.reliableCommands[Slot(a + k)]]
      BY DEF PendingTexts, Pending
    <2>2. \A k \in 1..len : c.reliableCommands[Slot(a + k)] \in Int
      <3>1. \A k \in 1..len : a + k \in Int
        BY <1>1
      <3> QED BY <1>1, <3>1, TextInRing
    <2> HIDE DEF texts, len
    <2> QED BY <1>1, <2>1, <2>2
  <1>4. m = [ack |-> s, key |-> key, from |-> a + 1, texts |-> texts]
    BY DEF ClientMessage
  <1> HIDE DEF key, texts, len
  <1>5. /\ m \in Message /\ m.ack = s /\ m.key = key /\ m.from = a + 1 /\ m.texts = texts
    BY <1>1, <1>2, <1>3, <1>4 DEF Message
  <1>6. ServerSaid(s, key)'
    <2>1. Recent(s, clc.serverCommandSequence)
      BY <1>1, ReliableAssumption DEF Recent
    <2>2. ServerSaid(s, key)
      BY <1>1, <2>1 DEF RingsInv, key
    <2> QED BY <2>2, ServerSaidStays
  <1>7. ASSUME NEW k \in 1..len PROVE ClientSaid(a + k, texts[k])'
    <2>1. a + k \in Nat /\ a < a + k /\ a + k <= c.reliableSequence
      BY <1>1
    <2>2. texts[k] = c.reliableCommands[Slot(a + k)]
      BY <1>3
    <2> QED BY <2>1, <2>2 DEF ClientSaid
  <1>8. /\ m.from >= 1 /\ m.from <= cl'.lastClientCommand + 1
        /\ m.from + Len(m.texts) - 1 <= clc'.reliableSequence
        /\ cl'.reliableAcknowledge <= m.ack /\ m.ack <= clc'.serverCommandSequence
    <2>1. m.from + Len(m.texts) - 1 = c.reliableSequence
      <3>1. Len(m.texts) = len /\ m.from = a + 1
        BY <1>3, <1>5
      <3> QED BY SMTT(30), <1>1, <3>1
    <2>2. cl.lastClientCommand \in Nat
      BY DEF TypeInv, ServerRec
    <2> QED BY <1>1, <1>5, <2>1, <2>2 DEF CountersInv, Onward
  <1>9. ASSUME NEW k \in 1..Len(m.texts) PROVE ClientSaid(m.from + k - 1, m.texts[k])'
    <2>1. m.from + k - 1 = a + k /\ k \in 1..len
      BY <1>1, <1>3, <1>5
    <2> QED BY <1>5, <1>7, <2>1 DEF ClientSaid
  <1> QED BY <1>5, <1>6, <1>8, <1>9 DEF ToServerSays

\* CL_Disconnect of a connection c that differs from clc only in what it has
\* acknowledged or executed.
LEMMA DisconnectStep ==
    ASSUME IInv, clc.connected, NEW c \in ClientRec,
           c.reliableSequence = clc.reliableSequence,
           c.reliableCommands = clc.reliableCommands,
           c.serverCommandSequence = clc.serverCommandSequence,
           c.serverCommands = clc.serverCommands,
           clc.reliableAcknowledge <= c.reliableAcknowledge,
           c.reliableAcknowledge <= cl.lastClientCommand,
           CL_Disconnect(c), cl' = cl, svExecuted' = svExecuted
    PROVE  /\ Onward /\ CountersInv' /\ RingsInv'
           /\ toServer' \in Seq(Message) /\ ToServerInv' /\ SvHistoryInv'
           /\ ~clc'.connected
           /\ clc'.reliableAcknowledge = c.reliableAcknowledge
           /\ clc'.lastExecutedServerCommand = c.lastExecutedServerCommand
  <1> DEFINE n    == c.reliableSequence + 1
             ring == c.reliableCommands
             last == Put(c, Disconnect)
  <1>1. TypeInv /\ CountersInv /\ RingsInv /\ ToServerInv /\ SvHistoryInv
    BY DEF IInv
  <1>2. /\ c.reliableSequence \in Nat /\ c.reliableAcknowledge \in Nat /\ ring \in Ring
        /\ n \in Nat /\ Disconnect \in Int
        /\ cl.lastClientCommand \in Nat /\ clc \in ClientRec /\ cl \in ServerRec
    BY SMTT(30), <1>1 DEF ClientRec, ServerRec, TypeInv, Disconnect
  <1>3. /\ last \in ClientRec
        /\ last.reliableSequence = n
        /\ last.reliableCommands = [ring EXCEPT ![Slot(n)] = Disconnect]
        /\ last.reliableAcknowledge = c.reliableAcknowledge
        /\ last.serverCommandSequence = clc.serverCommandSequence
        /\ last.serverCommands = clc.serverCommands
        /\ last.lastExecutedServerCommand = c.lastExecutedServerCommand
    BY <1>2, ClientPut
  <1> HIDE DEF last
  <1>4. /\ clc' \in ClientRec /\ ~clc'.connected
        /\ clc'.reliableSequence = n
        /\ clc'.reliableAcknowledge = c.reliableAcknowledge
        /\ clc'.serverCommandSequence = clc.serverCommandSequence
        /\ clc'.serverCommands = clc.serverCommands
        /\ clc'.lastExecutedServerCommand = c.lastExecutedServerCommand
    <2>1. clc' = [last EXCEPT !.connected = FALSE]
      BY DEF CL_Disconnect, last
    <2> QED BY <1>3, <2>1 DEF ClientRec
  <1>5. Onward
    <2>1. clc.reliableSequence <= clc'.reliableSequence
      BY <1>2, <1>4
    <2>2. clc.serverCommandSequence <= clc'.serverCommandSequence
      BY <1>2, <1>4 DEF ClientRec
    <2>3. cl.lastClientCommand <= cl'.lastClientCommand /\ cl.reliableSequence <= cl'.reliableSequence
      BY <1>2 DEF ServerRec
    <2> QED BY <1>2, <1>4, <2>1, <2>2, <2>3 DEF Onward
  <1>6. ASSUME NEW k \in Nat, last.reliableAcknowledge < k, k <= last.reliableSequence
        PROVE  ClientSaid(k, last.reliableCommands[Slot(k)])'
    <2>1. last.reliableCommands[Slot(k)] \in {ring[Slot(k)], Disconnect}
      BY <1>2, <1>3, RingPut
    <2>2. CASE k = n
      <3>1. last.reliableCommands[Slot(k)] = Disconnect
        BY <1>2, <1>3, <2>2, RingPut
      <3> QED BY <1>4, <3>1 DEF ClientSaid
    <2>3. CASE k # n
      <3>1. Recent(k, clc.reliableSequence)
        BY SMTT(30), <1>1, <1>2, <1>3, <1>6, <2>3, ReliableAssumption
        DEF Recent, TypeInv, Pending, ClientRec
      <3>2. ring[Slot(k)] = k
        BY <1>1, <3>1 DEF RingsInv
      <3> QED BY <1>4, <2>1, <3>2 DEF ClientSaid
    <2> QED BY <2>2, <2>3
  <1>7. CountersInv'
    <2>1. clc.reliableSequence <= n
      BY <1>2
    <2> QED BY <1>1, <1>2, <1>4, <2>1 DEF CountersInv
  <1>8. RingsInv'
    <2>1. ASSUME NEW k \in Nat, Recent(k, clc'.serverCommandSequence)
          PROVE  ServerSaid(k, clc'.serverCommands[Slot(k)])
      BY <1>1, <1>4, <2>1 DEF RingsInv
    <2> QED BY <1>1, <1>4, <2>1 DEF RingsInv, ServerSaid
  <1>9. SvHistoryInv'
    BY <1>1, <1>4 DEF SvHistoryInv, ClientSaid
  <1>10. toServer' \in Seq(Message) /\ ToServerInv'
    <2>1. CASE toServer' = toServer
      <3>1. toServer' \in Seq(Message)
        BY <1>1, <2>1 DEF TypeInv
      <3> QED BY <1>1, <1>5, <2>1, <3>1, ToServerStays
    <2>2. CASE toServer' = Append(toServer, ClientMessage(last))
      <3>1. PICK m : m = ClientMessage(last)
        OBVIOUS
      <3>2. m \in Message /\ m.ack = clc.serverCommandSequence /\ ToServerSays(m)'
        <4>1. /\ last.reliableAcknowledge <= cl.lastClientCommand
              /\ last.reliableAcknowledge <= last.reliableSequence
          BY <1>1, <1>2, <1>3 DEF CountersInv, ClientRec
        <4>2. PICK l \in ClientRec : l = last
          BY <1>3
        <4>3. \A k \in Nat : l.reliableAcknowledge < k /\ k <= l.reliableSequence =>
                 ClientSaid(k, l.reliableCommands[Slot(k)])'
          BY <1>6, <4>2 DEF ClientSaid
        <4> QED BY <1>1, <1>3, <1>4, <1>5, <3>1, <4>1, <4>2, <4>3, ClientMessageSays
      <3>3. \A j \in 1..Len(toServer) : toServer[j].ack <= m.ack
        BY <1>1, <3>2 DEF ToServerInv, ToServerSays
      <3> QED BY <1>1, <1>5, <2>2, <3>1, <3>2, <3>3, ToServerSent
    <2> QED BY <2>1, <2>2 DEF CL_Disconnect, last
  <1> QED BY <1>4, <1>5, <1>7, <1>8, <1>9, <1>10

-----------------------------------------------------------------------------
(* The client's steps. *)

LEMMA UserDisconnectsStep ==
    ASSUME IInv, UserDisconnects
    PROVE  IInv'
  <1>1. TypeInv /\ CountersInv /\ ToClientInv /\ ClHistoryInv /\ clc.connected
    BY DEF IInv, UserDisconnects
  <1>2. /\ CL_Disconnect(clc) /\ cl' = cl /\ svExecuted' = svExecuted
        /\ toClient' = toClient /\ clExecuted' = clExecuted
    BY DEF UserDisconnects
  <1>3. /\ Onward /\ CountersInv' /\ RingsInv'
        /\ toServer' \in Seq(Message) /\ ToServerInv' /\ SvHistoryInv'
        /\ ~clc'.connected
        /\ clc'.reliableAcknowledge = clc.reliableAcknowledge
        /\ clc'.lastExecutedServerCommand = clc.lastExecutedServerCommand
    <2>1. PICK c \in ClientRec : c = clc
      BY <1>1 DEF TypeInv
    <2>2. CL_Disconnect(c)
      BY <1>2, <2>1
    <2>3. clc.reliableAcknowledge <= c.reliableAcknowledge
      BY <2>1 DEF ClientRec
    <2> QED BY <1>1, <1>2, <2>1, <2>2, <2>3, DisconnectStep DEF CountersInv
  <1>4. TypeInv'
    BY <1>1, <1>2, <1>3 DEF TypeInv, Onward
  <1>5. ToClientInv'
    BY <1>1, <1>2, <1>3, ToClientStays
  <1>6. ClHistoryInv'
    BY <1>1, <1>2, <1>3 DEF ClHistoryInv, ServerSaid
  <1> QED BY <1>3, <1>4, <1>5, <1>6 DEF IInv

LEMMA AddReliableCommandStep ==
    ASSUME IInv, CL_AddReliableCommand
    PROVE  IInv'
  <1>1. /\ TypeInv /\ CountersInv /\ RingsInv /\ ToServerInv /\ ToClientInv
        /\ SvHistoryInv /\ ClHistoryInv /\ clc.connected
    BY DEF IInv, CL_AddReliableCommand
  <1>2. /\ cl' = cl /\ svExecuted' = svExecuted
        /\ toClient' = toClient /\ clExecuted' = clExecuted
    BY DEF CL_AddReliableCommand
  <1>3. CASE CL_Disconnect(clc)
    BY <1>1, <1>2, <1>3, UserDisconnectsStep DEF UserDisconnects
  <1>4. CASE /\ Pending(clc) < MAX_RELIABLE_COMMANDS
             /\ clc' = Put(clc, clc.reliableSequence + 1) /\ toServer' = toServer
    <2> DEFINE n    == clc.reliableSequence + 1
               ring == clc.reliableCommands
    <2>1. /\ clc \in ClientRec /\ cl \in ServerRec
          /\ clc.reliableSequence \in Nat /\ clc.reliableAcknowledge \in Nat
          /\ cl.lastClientCommand \in Nat
          /\ ring \in Ring /\ n \in Nat /\ n \in Int
      BY <1>1 DEF TypeInv, ClientRec, ServerRec
    <2>2. /\ clc' \in ClientRec /\ clc'.connected
          /\ clc'.reliableSequence = n
          /\ clc'.reliableCommands = [ring EXCEPT ![Slot(n)] = n]
          /\ clc'.reliableAcknowledge = clc.reliableAcknowledge
          /\ clc'.serverCommandSequence = clc.serverCommandSequence
          /\ clc'.serverCommands = clc.serverCommands
          /\ clc'.lastExecutedServerCommand = clc.lastExecutedServerCommand
      BY <1>1, <1>4, <2>1, ClientPut
    <2>3. Onward
      BY <1>1, <1>2, <2>1, <2>2 DEF Onward, ClientRec, ServerRec
    <2>4. CountersInv'
      BY <1>1, <1>2, <2>1, <2>2 DEF CountersInv
    <2>5. RingsInv'
      <3>1. ASSUME NEW k \in Nat, Recent(k, n)
            PROVE  clc'.reliableCommands[Slot(k)] = k
        <4>1. CASE k = n
          BY <2>1, <2>2, <4>1, RingPut
        <4>2. CASE k # n
          <5>1. k < n /\ n - MAX_RELIABLE_COMMANDS < k /\ Recent(k, clc.reliableSequence)
            BY <2>1, <3>1, <4>2, ReliableAssumption DEF Recent
          <5>2. clc'.reliableCommands[Slot(k)] = ring[Slot(k)]
            BY <2>1, <2>2, <5>1, RingPut
          <5> QED BY <1>1, <5>1, <5>2 DEF RingsInv
        <4> QED BY <4>1, <4>2
      <3> QED BY <1>1, <1>2, <2>2, <3>1 DEF RingsInv, ServerSaid
    <2>6. TypeInv'
      <3>1. Pending(clc') \in 0..MAX_RELIABLE_COMMANDS
        BY SMTT(30), <1>1, <1>4, <2>1, <2>2, ReliableAssumption DEF TypeInv, Pending
      <3> QED BY <1>1, <1>2, <1>4, <2>2, <3>1 DEF TypeInv
    <2>7. ToServerInv' /\ ToClientInv'
      BY <1>1, <1>2, <1>4, <2>2, <2>3, ToServerStays, ToClientStays
    <2>8. SvHistoryInv' /\ ClHistoryInv'
      BY <1>1, <1>2, <2>2 DEF SvHistoryInv, ClHistoryInv, ClientSaid, ServerSaid
    <2> QED BY <2>4, <2>5, <2>6, <2>7, <2>8 DEF IInv
  <1>5. Pending(clc) >= MAX_RELIABLE_COMMANDS \/ Pending(clc) < MAX_RELIABLE_COMMANDS
    BY <1>1, ReliableAssumption DEF TypeInv
  <1> QED BY <1>3, <1>4, <1>5 DEF CL_AddReliableCommand

LEMMA WritePacketStep ==
    ASSUME IInv, CL_WritePacket
    PROVE  IInv'
  <1>1. /\ TypeInv /\ CountersInv /\ RingsInv /\ ToServerInv /\ ToClientInv
        /\ SvHistoryInv /\ ClHistoryInv /\ clc.connected
    BY DEF IInv, CL_WritePacket
  <1>2. /\ clc' = clc /\ cl' = cl /\ svExecuted' = svExecuted
        /\ toClient' = toClient /\ clExecuted' = clExecuted
        /\ toServer' = Append(toServer, ClientMessage(clc))
    BY DEF CL_WritePacket
  <1>3. Onward
    BY SMTT(30), <1>1, <1>2 DEF Onward, TypeInv, ClientRec, ServerRec
  <1>4. PICK c \in ClientRec : c = clc
    BY <1>1 DEF TypeInv
  <1>5. PICK m : m = ClientMessage(c)
    OBVIOUS
  <1>6. m \in Message /\ m.ack = clc.serverCommandSequence /\ ToServerSays(m)'
    <2>1. c.reliableAcknowledge \in Nat /\ c.reliableSequence \in Nat /\ cl.lastClientCommand \in Nat
      BY <1>1, <1>4 DEF ClientRec, ServerRec, TypeInv
    <2>2. /\ c.reliableAcknowledge <= cl.lastClientCommand
          /\ c.reliableAcknowledge <= c.reliableSequence
      BY <1>1, <1>4, <2>1 DEF CountersInv
    <2>3. ASSUME NEW n \in Nat, c.reliableAcknowledge < n, n <= c.reliableSequence
          PROVE  ClientSaid(n, c.reliableCommands[Slot(n)])'
      <3>1. Recent(n, clc.reliableSequence)
        BY SMTT(30), <1>1, <1>4, <2>1, <2>3, ReliableAssumption DEF Recent, TypeInv, Pending
      <3> QED BY <1>1, <1>4, <3>1 DEF RingsInv, ClientSaid
    <2> QED BY <1>1, <1>2, <1>3, <1>4, <1>5, <2>2, <2>3, ClientMessageSays
  <1>7. \A j \in 1..Len(toServer) : toServer[j].ack <= m.ack
    BY <1>1, <1>6 DEF ToServerInv, ToServerSays
  <1>8. toServer' \in Seq(Message) /\ ToServerInv'
    BY <1>1, <1>2, <1>3, <1>4, <1>5, <1>6, <1>7, ToServerSent
  <1>9. ToClientInv'
    BY <1>1, <1>2, <1>3, ToClientStays
  <1>10. TypeInv' /\ CountersInv' /\ RingsInv' /\ SvHistoryInv' /\ ClHistoryInv'
    BY <1>1, <1>2, <1>8
    DEF TypeInv, CountersInv, RingsInv, SvHistoryInv, ClHistoryInv, ClientSaid, ServerSaid
  <1> QED BY <1>8, <1>9, <1>10 DEF IInv

\* An acknowledge that reaches a live connection makes sense, and leaves no
\* more pending than there was.
LEMMA ClientAcknowledged ==
    ASSUME IInv, clc.connected, NEW msg \in Message, ToClientSays(msg)
    PROVE  LET c == AcknowledgedBy(clc, msg)
           IN  /\ c \in ClientRec /\ c.connected
               /\ c.reliableAcknowledge = msg.ack
               /\ c.reliableSequence = clc.reliableSequence
               /\ c.reliableCommands = clc.reliableCommands
               /\ c.serverCommandSequence = clc.serverCommandSequence
               /\ c.serverCommands = clc.serverCommands
               /\ c.lastExecutedServerCommand = clc.lastExecutedServerCommand
               /\ clc.reliableAcknowledge <= msg.ack /\ msg.ack <= cl.lastClientCommand
               /\ Pending(c) \in 0..MAX_RELIABLE_COMMANDS
  <1>1. /\ clc \in ClientRec /\ msg.ack \in Nat
        /\ clc.reliableSequence \in Nat /\ clc.reliableAcknowledge \in Nat
        /\ cl.lastClientCommand \in Nat
        /\ Pending(clc) \in 0..MAX_RELIABLE_COMMANDS
    BY DEF IInv, TypeInv, ClientRec, ServerRec, Message
  <1>2. /\ clc.reliableAcknowledge <= msg.ack /\ msg.ack <= cl.lastClientCommand
        /\ cl.lastClientCommand <= clc.reliableSequence
    BY DEF IInv, CountersInv, ToClientSays
  <1>3. MakesSense(clc, msg)
    BY <1>1, <1>2, ReliableAssumption DEF MakesSense, Pending
  <1>4. AcknowledgedBy(clc, msg) = [clc EXCEPT !.reliableAcknowledge = msg.ack]
    BY <1>3 DEF AcknowledgedBy
  <1>5. clc.reliableSequence - msg.ack \in 0..MAX_RELIABLE_COMMANDS
    BY <1>1, <1>2, ReliableAssumption DEF Pending
  <1> QED BY <1>1, <1>2, <1>4, <1>5 DEF ClientRec, Pending

LEMMA ParseServerMessageStep ==
    ASSUME IInv, NEW i \in DOMAIN toClient, CL_ParseServerMessage(i)
    PROVE  IInv'
  <1> DEFINE c == AcknowledgedBy(clc, toClient[i])
  <1>1. /\ TypeInv /\ CountersInv /\ RingsInv /\ ToServerInv /\ ToClientInv
        /\ SvHistoryInv /\ ClHistoryInv /\ clc.connected
    BY DEF IInv, CL_ParseServerMessage
  <1>2. /\ cl' = cl /\ svExecuted' = svExecuted /\ clExecuted' = clExecuted
        /\ toClient' = SubSeq(toClient, i + 1, Len(toClient))
    BY DEF CL_ParseServerMessage
  <1>3. i \in 1..Len(toClient)
    BY <1>1 DEF TypeInv
  <1>4. PICK msg \in Message : msg = toClient[i]
    BY <1>1, <1>3 DEF TypeInv
  <1>5. ToClientSays(msg)
    BY <1>1, <1>3, <1>4 DEF ToClientInv
  <1>6. /\ c \in ClientRec /\ c.connected
        /\ c.reliableAcknowledge = msg.ack
        /\ c.reliableSequence = clc.reliableSequence
        /\ c.reliableCommands = clc.reliableCommands
        /\ c.serverCommandSequence = clc.serverCommandSequence
        /\ c.serverCommands = clc.serverCommands
        /\ c.lastExecutedServerCommand = clc.lastExecutedServerCommand
        /\ clc.reliableAcknowledge <= msg.ack /\ msg.ack <= cl.lastClientCommand
        /\ Pending(c) \in 0..MAX_RELIABLE_COMMANDS
    BY <1>1, <1>4, <1>5, ClientAcknowledged
  <1>7. /\ clc \in ClientRec /\ cl \in ServerRec
        /\ clc.reliableSequence \in Nat /\ clc.serverCommandSequence \in Nat
        /\ cl.lastClientCommand \in Nat /\ cl.reliableSequence \in Nat
        /\ msg.ack \in Nat /\ msg.from \in Nat /\ Len(msg.texts) \in Nat
        /\ cl.reliableAcknowledge \in Nat
    BY <1>1 DEF TypeInv, ClientRec, ServerRec, Message
  <1> HIDE DEF c
  <1>8. CASE CL_Disconnect(c)
    <2>1. /\ Onward /\ CountersInv' /\ RingsInv'
          /\ toServer' \in Seq(Message) /\ ToServerInv' /\ SvHistoryInv'
          /\ ~clc'.connected
          /\ clc'.reliableAcknowledge = msg.ack
          /\ clc'.lastExecutedServerCommand = clc.lastExecutedServerCommand
      <3>1. PICK k \in ClientRec : k = c
        BY <1>6
      <3> QED BY <1>1, <1>2, <1>6, <1>8, <3>1, DisconnectStep
    <2>2. toClient' \in Seq(Message) /\ ToClientInv'
      BY <1>1, <1>2, <1>3, <1>4, <2>1, ToClientRest
    <2>3. TypeInv'
      BY <1>1, <1>2, <2>1, <2>2 DEF TypeInv, Onward
    <2>4. ClHistoryInv'
      BY <1>1, <1>2, <2>1 DEF ClHistoryInv, ServerSaid
    <2> QED BY <2>1, <2>2, <2>3, <2>4 DEF IInv
  <1>9. CASE (clc' = c \/ clc' = StoreCommands(c, msg)) /\ toServer' = toServer
    <2>1. /\ clc' \in ClientRec /\ clc'.connected
          /\ clc'.reliableAcknowledge = msg.ack
          /\ clc'.reliableSequence = clc.reliableSequence
          /\ clc'.reliableCommands = clc.reliableCommands
          /\ clc'.lastExecutedServerCommand = clc.lastExecutedServerCommand
          /\ clc'.serverCommandSequence >= clc.serverCommandSequence
          /\ clc'.serverCommandSequence \in {clc.serverCommandSequence, Last(msg)}
          /\ \A n \in Nat : Recent(n, clc'.serverCommandSequence) =>
                \/ /\ Recent(n, clc.serverCommandSequence)
                   /\ clc'.serverCommands[Slot(n)] = clc.serverCommands[Slot(n)]
                \/ /\ n - msg.from + 1 \in 1..Len(msg.texts)
                   /\ clc'.serverCommands[Slot(n)] = Text(msg, n)
      <3>1. CASE clc' = c
        BY <1>6, <1>7, <3>1
      <3>2. CASE clc' = StoreCommands(c, msg)
        <4>1. msg.from <= c.serverCommandSequence + 1
          BY <1>5, <1>6 DEF ToClientSays
        <4> QED BY <1>6, <3>2, <4>1, StoreEffect
      <3> QED BY <1>9, <3>1, <3>2
    <2>2. clc'.serverCommandSequence \in Nat /\ Last(msg) \in Int
      BY <1>7, <2>1 DEF ClientRec, Last
    <2>3. Last(msg) <= cl.reliableSequence
      BY <1>5, <1>7 DEF ToClientSays, Last
    <2>4. Onward
      BY <1>1, <1>2, <1>7, <2>1 DEF Onward
    <2>5. CountersInv'
      BY SMTT(30), <1>1, <1>2, <1>6, <1>7, <2>1, <2>2, <2>3 DEF CountersInv
    <2>6. RingsInv'
      <3>1. ASSUME NEW n \in Nat, Recent(n, clc'.serverCommandSequence)
            PROVE  ServerSaid(n, clc'.serverCommands[Slot(n)])
        <4>1. CASE /\ Recent(n, clc.serverCommandSequence)
                   /\ clc'.serverCommands[Slot(n)] = clc.serverCommands[Slot(n)]
          BY <1>1, <4>1 DEF RingsInv
        <4>2. CASE /\ n - msg.from + 1 \in 1..Len(msg.texts)
                   /\ clc'.serverCommands[Slot(n)] = Text(msg, n)
          <5> DEFINE k == n - msg.from + 1
          <5>1. k \in 1..Len(msg.texts) /\ msg.from + k - 1 = n /\ Text(msg, n) = msg.texts[k]
            BY <1>7, <4>2 DEF Text
          <5>2. ServerSaid(msg.from + k - 1, msg.texts[k])
            BY <1>5, <5>1 DEF ToClientSays
          <5> QED BY <4>2, <5>1, <5>2
        <4> QED BY <2>1, <3>1, <4>1, <4>2
      <3> QED BY <1>1, <1>2, <2>1, <3>1 DEF RingsInv, ServerSaid
    <2>7. toClient' \in Seq(Message) /\ ToClientInv'
      BY <1>1, <1>2, <1>3, <1>4, <2>1, <2>4, ToClientRest
    <2>8. ToServerInv'
      BY <1>1, <1>2, <1>9, <2>4, ToServerStays
    <2>9. TypeInv'
      <3>1. Pending(clc') \in 0..MAX_RELIABLE_COMMANDS
        BY <1>6, <2>1 DEF Pending
      <3> QED BY <1>1, <1>2, <1>9, <2>1, <2>7, <3>1 DEF TypeInv
    <2>10. SvHistoryInv' /\ ClHistoryInv'
      BY <1>1, <1>2, <2>1 DEF SvHistoryInv, ClHistoryInv, ClientSaid, ServerSaid
    <2> QED BY <2>5, <2>6, <2>7, <2>8, <2>9, <2>10 DEF IInv
  <1> QED BY <1>4, <1>8, <1>9 DEF CL_ParseServerMessage, c

LEMMA GetServerCommandStep ==
    ASSUME IInv, CL_GetServerCommand
    PROVE  IInv'
  <1> DEFINE n    == clc.lastExecutedServerCommand + 1
             text == clc.serverCommands[Slot(n)]
             c    == [clc EXCEPT !.lastExecutedServerCommand = n]
  <1>1. /\ TypeInv /\ CountersInv /\ RingsInv /\ ToServerInv /\ ToClientInv
        /\ SvHistoryInv /\ ClHistoryInv /\ clc.connected
    BY DEF IInv, CL_GetServerCommand
  <1>2. /\ cl' = cl /\ svExecuted' = svExecuted /\ toClient' = toClient
        /\ n <= clc.serverCommandSequence
    BY DEF CL_GetServerCommand
  <1>3. CASE CycledOut(n)
    BY <1>1, <1>2, <1>3, UserDisconnectsStep DEF UserDisconnects, CL_GetServerCommand
  <1>4. CASE ~CycledOut(n)
    <2>1. /\ clc \in ClientRec /\ cl \in ServerRec
          /\ n \in Nat /\ n \in Int /\ clc.serverCommandSequence \in Nat
          /\ clc.serverCommands \in Ring /\ n = clc.lastExecutedServerCommand + 1
          /\ clc.lastExecutedServerCommand \in Nat
      BY <1>1 DEF TypeInv, ClientRec
    <2>2. text \in Int
      BY <2>1, TextInRing
    <2>3. /\ c \in ClientRec /\ c.connected
          /\ c.reliableAcknowledge = clc.reliableAcknowledge
          /\ c.reliableSequence = clc.reliableSequence
          /\ c.reliableCommands = clc.reliableCommands
          /\ c.serverCommandSequence = clc.serverCommandSequence
          /\ c.serverCommands = clc.serverCommands
          /\ c.lastExecutedServerCommand = n
      BY <1>1, <2>1 DEF ClientRec
    <2>4. ServerSaid(n, text)
      <3>1. Recent(n, clc.serverCommandSequence)
        BY <1>2, <1>4, <2>1, ReliableAssumption DEF Recent, CycledOut
      <3> QED BY <1>1, <2>1, <3>1 DEF RingsInv
    <2>5. clExecuted' = Append(clExecuted, text)
      BY <1>4 DEF CL_GetServerCommand
    <2>6. \/ text = Disconnect /\ CL_Disconnect(c)
          \/ text # Disconnect /\ clc' = c /\ toServer' = toServer
      BY <1>4 DEF CL_GetServerCommand
    <2> HIDE DEF c, text, n
    <2>7. /\ Len(clExecuted) = n - 1
          /\ clExecuted' \in Seq(Int) /\ Len(clExecuted') = n /\ clExecuted'[n] = text
          /\ \A i \in 1..n - 1 : i \in 1..Len(clExecuted) /\ clExecuted'[i] = clExecuted[i]
      BY SMTT(30), <1>1, <2>1, <2>2, <2>5 DEF TypeInv, ClHistoryInv, n
    <2>8. /\ Onward /\ TypeInv' /\ CountersInv' /\ RingsInv' /\ ToServerInv' /\ SvHistoryInv'
          /\ clc'.reliableAcknowledge = clc.reliableAcknowledge
          /\ clc'.lastExecutedServerCommand = n
          /\ clc'.connected <=> text # Disconnect
      <3>1. CASE text = Disconnect
        <4>1. /\ Onward /\ CountersInv' /\ RingsInv'
              /\ toServer' \in Seq(Message) /\ ToServerInv' /\ SvHistoryInv'
              /\ ~clc'.connected
              /\ clc'.reliableAcknowledge = clc.reliableAcknowledge
              /\ clc'.lastExecutedServerCommand = n
          <5>1. PICK k \in ClientRec : k = c
            BY <2>3
          <5>2. clc.reliableAcknowledge <= k.reliableAcknowledge
            BY <2>1, <2>3, <5>1 DEF ClientRec
          <5>3. k.reliableAcknowledge <= cl.lastClientCommand
            BY <1>1, <2>3, <5>1 DEF CountersInv
          <5> QED BY <1>1, <1>2, <2>3, <2>6, <3>1, <5>1, <5>2, <5>3, DisconnectStep
        <4>2. TypeInv'
          BY <1>1, <1>2, <2>7, <4>1 DEF TypeInv, Onward
        <4> QED BY <3>1, <4>1, <4>2
      <3>2. CASE text # Disconnect
        <4>1. clc' = c /\ toServer' = toServer
          BY <2>6, <3>2
        <4>2. Onward
          BY <1>1, <1>2, <2>1, <2>3, <4>1 DEF Onward, ClientRec, ServerRec
        <4>3. CountersInv' /\ RingsInv' /\ SvHistoryInv'
          BY <1>1, <1>2, <2>3, <4>1
          DEF CountersInv, RingsInv, SvHistoryInv, ClientSaid, ServerSaid
        <4>4. ToServerInv'
          BY <1>1, <1>2, <4>1, <4>2, ToServerStays
        <4>5. TypeInv'
          BY <1>1, <1>2, <2>3, <2>7, <4>1 DEF TypeInv, Pending
        <4> QED BY <2>3, <3>2, <4>1, <4>2, <4>3, <4>4, <4>5
      <3> QED BY <3>1, <3>2
    <2>9. ToClientInv'
      BY <1>1, <1>2, <2>8, ToClientStays
    <2>10. ClHistoryInv'
      <3>1. ASSUME NEW i \in 1..n
            PROVE  /\ ServerSaid(i, clExecuted'[i])
                   /\ clExecuted'[i] = Disconnect => ~clc'.connected /\ i = n
        <4>1. CASE i = n
          BY <2>4, <2>7, <2>8, <4>1
        <4>2. CASE i # n
          <5>1. i \in 1..Len(clExecuted) /\ clExecuted'[i] = clExecuted[i]
            BY SMTT(30), <2>1, <2>7, <4>2
          <5> QED BY <1>1, <5>1 DEF ClHistoryInv
        <4> QED BY <4>1, <4>2
      <3> QED BY <1>2, <2>7, <2>8, <3>1 DEF ClHistoryInv, ServerSaid
    <2> QED BY <2>8, <2>9, <2>10 DEF IInv
  <1> QED BY <1>3, <1>4

-----------------------------------------------------------------------------
(* The server's steps. *)

\* The server's record becomes s, which has acknowledged or executed more, or
\* what a drop makes of s.
LEMMA ServerRecordStep ==
    ASSUME IInv, cl.state = "active", NEW s \in ServerRec,
           s.state = "active", s.drops = 0, ~s.lost,
           s.reliableSequence = cl.reliableSequence,
           s.reliableCommands = cl.reliableCommands,
           cl.reliableAcknowledge <= s.reliableAcknowledge,
           s.reliableAcknowledge <= clc.serverCommandSequence,
           cl.lastClientCommand <= s.lastClientCommand,
           s.lastClientCommand <= clc.reliableSequence,
           cl' = s \/ DroppedFrom(s, cl'), clc' = clc
    PROVE  /\ Onward /\ CountersInv' /\ RingsInv'
           /\ cl'.reliableAcknowledge = s.reliableAcknowledge
           /\ cl'.lastClientCommand = s.lastClientCommand
           /\ cl'.lastClientCommandString = s.lastClientCommandString
           /\ ~cl'.lost
           /\ cl'.state = "active" =>
                 Pending(cl') \in 0..MAX_RELIABLE_COMMANDS /\ cl'.drops = 0
  <1>1. TypeInv /\ CountersInv /\ RingsInv
    BY DEF IInv
  <1>2. /\ clc \in ClientRec /\ cl \in ServerRec
        /\ clc.reliableSequence \in Nat /\ clc.serverCommandSequence \in Nat
        /\ clc.reliableAcknowledge \in Nat
        /\ cl.lastClientCommand \in Nat /\ s.lastClientCommand \in Nat
        /\ cl.reliableSequence \in Nat /\ cl.reliableAcknowledge \in Nat
        /\ s.reliableAcknowledge \in Nat
        /\ Pending(cl) \in 0..MAX_RELIABLE_COMMANDS
    BY <1>1 DEF TypeInv, ClientRec, ServerRec
  <1>3. /\ cl' \in ServerRec
        /\ cl'.reliableSequence >= cl.reliableSequence
        /\ cl'.reliableAcknowledge = s.reliableAcknowledge
        /\ cl'.lastClientCommand = s.lastClientCommand
        /\ cl'.lastClientCommandString = s.lastClientCommandString
        /\ ~cl'.lost
    BY <1>2 DEF DroppedFrom
  <1>4. Onward
    BY <1>2, <1>3 DEF Onward
  <1>5. CountersInv'
    <2>1. cl'.reliableSequence \in Nat
      BY <1>3 DEF ServerRec
    <2> QED BY <1>1, <1>2, <1>3, <2>1 DEF CountersInv
  <1>6. ASSUME cl' = s
        PROVE  RingsInv' /\ Pending(cl') \in 0..MAX_RELIABLE_COMMANDS /\ cl'.drops = 0
    <2>1. RingsInv'
      <3>1. ASSUME NEW n \in Nat, cl'.reliableAcknowledge < n, n <= cl'.reliableSequence
            PROVE  ServerSaid(n, cl.reliableCommands[Slot(n)])'
        <4>1. cl.reliableAcknowledge < n /\ n <= cl.reliableSequence
          BY <1>2, <1>3, <1>6, <3>1
        <4>2. ServerSaid(n, cl.reliableCommands[Slot(n)])
          BY <1>1, <4>1 DEF RingsInv
        <4> QED BY <1>6, <4>2 DEF ServerSaid
      <3>2. \A n \in Nat : Recent(n, cl'.reliableSequence) => cl'.reliableCommands[Slot(n)] = n
        BY <1>1, <1>6 DEF RingsInv
      <3>3. ASSUME NEW n \in Nat, Recent(n, clc.serverCommandSequence)
            PROVE  ServerSaid(n, clc.serverCommands[Slot(n)])'
        BY <1>1, <1>6, <3>3 DEF RingsInv, ServerSaid
      <3>4. clc.connected => \A n \in Nat :
               Recent(n, clc.reliableSequence) => clc.reliableCommands[Slot(n)] = n
        BY <1>1 DEF RingsInv
      <3> QED BY <1>3, <3>1, <3>2, <3>3, <3>4 DEF RingsInv, ServerSaid
    <2>2. s.reliableSequence - s.reliableAcknowledge \in 0..MAX_RELIABLE_COMMANDS
      BY <1>1, <1>2, ReliableAssumption DEF CountersInv, Pending
    <2> QED BY <1>6, <2>1, <2>2 DEF Pending
  <1>7. ASSUME DroppedFrom(s, cl')
        PROVE  RingsInv' /\ cl'.state = "zombie"
    <2>1. cl'.state = "zombie"
      BY <1>7 DEF DroppedFrom
    <2>2. ASSUME NEW n \in Nat, cl'.reliableAcknowledge < n, n <= cl'.reliableSequence
          PROVE  ServerSaid(n, cl.reliableCommands[Slot(n)])'
      BY <1>3, <1>7, <2>1, <2>2 DEF DroppedFrom, ServerSaid
    <2>3. ASSUME NEW n \in Nat, Recent(n, clc.serverCommandSequence)
          PROVE  ServerSaid(n, clc.serverCommands[Slot(n)])'
      <3>1. ServerSaid(n, clc.serverCommands[Slot(n)])
        BY <1>1, <2>3 DEF RingsInv
      <3> QED BY <2>1, <3>1 DEF ServerSaid
    <2>4. clc.connected => \A n \in Nat :
             Recent(n, clc.reliableSequence) => clc.reliableCommands[Slot(n)] = n
      BY <1>1 DEF RingsInv
    <2> QED BY <2>1, <2>2, <2>3, <2>4 DEF RingsInv, ServerSaid
  <1> QED BY <1>3, <1>4, <1>5, <1>6, <1>7

\* The ring of a live client has its last round.
LEMMA LiveHolds ==
    ASSUME IInv, cl.state = "active", NEW s,
           s.reliableSequence = cl.reliableSequence, s.reliableCommands = cl.reliableCommands
    PROVE  Holds(s)
  BY DEF IInv, RingsInv, Holds

\* What was executed is untouched by a step that ends at a zombie or where it
\* began.
LEMMA HistoriesStay ==
    ASSUME SvHistoryInv, ClHistoryInv, Onward, clc' = clc,
           svExecuted' = svExecuted, clExecuted' = clExecuted,
           cl'.lastClientCommand = cl.lastClientCommand,
           cl'.lastClientCommandString = cl.lastClientCommandString
    PROVE  SvHistoryInv' /\ ClHistoryInv'
  <1>1. SvHistoryInv'
    BY DEF SvHistoryInv, ClientSaid, Onward
  <1>2. ClHistoryInv'
    BY DEF ClHistoryInv, ServerSaid, Onward
  <1> QED BY <1>1, <1>2

LEMMA DropStep ==
    ASSUME IInv, Drop
    PROVE  IInv'
  <1>1. /\ TypeInv /\ CountersInv /\ RingsInv /\ ToServerInv /\ ToClientInv
        /\ SvHistoryInv /\ ClHistoryInv
    BY DEF IInv
  <1>2. /\ cl' \in SV_DropClient(cl) /\ clc' = clc /\ toServer' = toServer /\ toClient' = toClient
        /\ clExecuted' = clExecuted /\ svExecuted' = svExecuted
    BY DEF Drop
  <1>3. PICK s \in ServerRec : s = cl
    BY <1>1 DEF TypeInv
  <1>4. s.state = "active" /\ s.drops = 0 /\ ~s.lost /\ Pending(s) \in 0..MAX_RELIABLE_COMMANDS
    BY <1>1, <1>3 DEF TypeInv, ServerRec, Drop
  <1>5. DroppedFrom(s, cl')
    BY <1>2, <1>3, <1>4, LiveHolds, DropEffect
  <1>6. /\ s.reliableAcknowledge <= clc.serverCommandSequence
        /\ s.lastClientCommand <= clc.reliableSequence
        /\ cl.reliableAcknowledge <= s.reliableAcknowledge
        /\ cl.lastClientCommand <= s.lastClientCommand
    BY <1>1, <1>3 DEF CountersInv, ServerRec
  <1>7. /\ Onward /\ CountersInv' /\ RingsInv'
        /\ cl'.reliableAcknowledge = cl.reliableAcknowledge
        /\ cl'.lastClientCommand = cl.lastClientCommand
        /\ cl'.lastClientCommandString = cl.lastClientCommandString
        /\ ~cl'.lost
        /\ cl'.state = "active" => Pending(cl') \in 0..MAX_RELIABLE_COMMANDS /\ cl'.drops = 0
    BY <1>2, <1>3, <1>4, <1>5, <1>6, ServerRecordStep
  <1>8. TypeInv'
    BY <1>1, <1>2, <1>7 DEF TypeInv, Onward
  <1>9. ToServerInv' /\ ToClientInv'
    BY <1>1, <1>2, <1>7, ToServerStays, ToClientStays
  <1>10. SvHistoryInv' /\ ClHistoryInv'
    BY <1>1, <1>2, <1>7, HistoriesStay
  <1> QED BY <1>7, <1>8, <1>9, <1>10 DEF IInv

LEMMA SendServerCommandStep ==
    ASSUME IInv, SV_SendServerCommand
    PROVE  IInv'
  <1> DEFINE n    == cl.reliableSequence + 1
             ring == cl.reliableCommands
  <1>1. /\ TypeInv /\ CountersInv /\ RingsInv /\ ToServerInv /\ ToClientInv
        /\ SvHistoryInv /\ ClHistoryInv
    BY DEF IInv
  <1>2. /\ cl' \in SV_AddServerCommand(cl, n)
        /\ clc' = clc /\ toServer' = toServer /\ toClient' = toClient
        /\ clExecuted' = clExecuted /\ svExecuted' = svExecuted
    BY DEF SV_SendServerCommand
  <1>3. PICK s \in ServerRec : s = cl
    BY <1>1 DEF TypeInv
  <1>4. s.state = "active" /\ s.drops = 0 /\ ~s.lost /\ Pending(s) \in 0..MAX_RELIABLE_COMMANDS
    BY <1>1, <1>3 DEF TypeInv, ServerRec, SV_SendServerCommand
  <1>5. /\ clc \in ClientRec /\ ring \in Ring /\ n \in Nat /\ n \in Int
        /\ clc.serverCommandSequence \in Nat
        /\ cl.reliableSequence \in Nat /\ cl.reliableAcknowledge \in Nat
        /\ cl.lastClientCommand \in Nat
    BY <1>1, <1>3 DEF TypeInv, ClientRec, ServerRec
  <1>6. /\ Onward /\ CountersInv' /\ RingsInv'
        /\ cl'.reliableAcknowledge = cl.reliableAcknowledge
        /\ cl'.lastClientCommand = cl.lastClientCommand
        /\ cl'.lastClientCommandString = cl.lastClientCommandString
        /\ ~cl'.lost
        /\ cl'.state = "active" => Pending(cl') \in 0..MAX_RELIABLE_COMMANDS /\ cl'.drops = 0
    <2>1. CASE Overflows(cl)
      <3>1. cl' \in DropOnOverflow(s)
        BY <1>2, <1>3, <1>4, <2>1 DEF SV_AddServerCommand
      <3>2. DroppedFrom(s, cl')
        BY <1>3, <1>4, <2>1, <3>1, LiveHolds, OverflowDrops
      <3>3. /\ s.reliableAcknowledge <= clc.serverCommandSequence
            /\ s.lastClientCommand <= clc.reliableSequence
            /\ cl.reliableAcknowledge <= s.reliableAcknowledge
            /\ cl.lastClientCommand <= s.lastClientCommand
        BY <1>1, <1>3 DEF CountersInv, ServerRec
      <3> QED BY <1>2, <1>3, <1>4, <3>2, <3>3, ServerRecordStep
    <2>2. CASE ~Overflows(cl)
      <3>1. /\ cl' \in ServerRec /\ cl'.state = "active"
            /\ cl'.reliableSequence = n
            /\ cl'.reliableCommands = [ring EXCEPT ![Slot(n)] = n]
            /\ cl'.reliableAcknowledge = cl.reliableAcknowledge
            /\ cl'.lastClientCommand = cl.lastClientCommand
            /\ cl'.lastClientCommandString = cl.lastClientCommandString
            /\ cl'.drops = 0 /\ ~cl'.lost
        <4>1. cl' = Put(s, n)
          BY <1>2, <1>3, <1>4, <2>2 DEF SV_AddServerCommand
        <4> QED BY <1>3, <1>4, <1>5, <4>1, ServerPut
      <3>2. Onward
        BY <1>2, <1>4, <1>3, <1>5, <3>1 DEF Onward, ClientRec
      <3>3. CountersInv'
        BY <1>1, <1>2, <1>5, <3>1 DEF CountersInv
      <3>4. ASSUME NEW k \in Nat, Recent(k, n)
            PROVE  cl'.reliableCommands[Slot(k)] = k
        <4>1. CASE k = n
          BY <1>5, <3>1, <4>1, RingPut
        <4>2. CASE k # n
          <5>1. k < n /\ n - MAX_RELIABLE_COMMANDS < k /\ Recent(k, cl.reliableSequence)
            BY <1>5, <3>4, <4>2, ReliableAssumption DEF Recent
          <5>2. cl'.reliableCommands[Slot(k)] = ring[Slot(k)]
            BY <1>5, <3>1, <5>1, RingPut
          <5> QED BY <1>1, <1>3, <1>4, <5>1, <5>2 DEF RingsInv
        <4> QED BY <4>1, <4>2
      <3>5. Pending(cl') \in 1..MAX_RELIABLE_COMMANDS
        BY <1>3, <1>4, <1>5, <2>2, <3>1, ReliableAssumption DEF Pending, Overflows
      <3>6. ASSUME NEW k \in Nat, cl'.reliableAcknowledge < k, k <= cl'.reliableSequence
            PROVE  ServerSaid(k, cl.reliableCommands[Slot(k)])'
        <4>1. Recent(k, n)
          BY <1>5, <3>1, <3>5, <3>6, ReliableAssumption DEF Recent, Pending
        <4> QED BY <3>4, <4>1 DEF ServerSaid
      <3>7. ASSUME NEW k \in Nat, Recent(k, clc.serverCommandSequence)
            PROVE  ServerSaid(k, clc.serverCommands[Slot(k)])'
        BY <1>1, <1>2, <1>3, <1>4, <3>7 DEF RingsInv, ServerSaid
      <3>8. RingsInv'
        BY <1>1, <1>2, <3>1, <3>4, <3>6, <3>7 DEF RingsInv, ServerSaid
      <3> QED BY <3>1, <3>2, <3>3, <3>5, <3>8
    <2> QED BY <2>1, <2>2
  <1>7. TypeInv'
    BY <1>1, <1>2, <1>6 DEF TypeInv, Onward
  <1>8. ToServerInv' /\ ToClientInv'
    BY <1>1, <1>2, <1>6, ToServerStays, ToClientStays
  <1>9. SvHistoryInv' /\ ClHistoryInv'
    BY <1>1, <1>2, <1>6, HistoriesStay
  <1> QED BY <1>6, <1>7, <1>8, <1>9 DEF IInv

LEMMA SendClientSnapshotStep ==
    ASSUME IInv, SV_SendClientSnapshot
    PROVE  IInv'
  <1> DEFINE a     == cl.reliableAcknowledge
             len   == cl.reliableSequence - a
             texts == PendingTexts(cl)
  <1>1. /\ TypeInv /\ CountersInv /\ RingsInv /\ ToServerInv /\ ToClientInv
        /\ SvHistoryInv /\ ClHistoryInv
    BY DEF IInv
  <1>2. /\ clc' = clc /\ cl' = cl /\ toServer' = toServer
        /\ clExecuted' = clExecuted /\ svExecuted' = svExecuted
        /\ toClient' = Append(toClient, [ack |-> cl.lastClientCommand,
              key |-> cl.lastClientCommandString, from |-> a + 1, texts |-> texts])
    BY DEF SV_SendClientSnapshot
  <1>3. /\ cl \in ServerRec /\ clc \in ClientRec
        /\ a \in Nat /\ cl.reliableSequence \in Nat /\ cl.reliableCommands \in Ring
        /\ cl.lastClientCommand \in Nat /\ cl.lastClientCommandString \in Int
        /\ clc.serverCommandSequence \in Nat /\ clc.reliableAcknowledge \in Nat
        /\ clc.reliableSequence \in Nat
    BY <1>1 DEF TypeInv, ServerRec, ClientRec
  <1>4. len \in Nat /\ a + len = cl.reliableSequence
    BY <1>1, <1>3 DEF CountersInv
  <1>5. /\ texts \in Seq(Int) /\ Len(texts) = len
        /\ \A k \in 1..len : texts[k] = cl.reliableCommands[Slot(a + k)]
    <2>1. texts = [k \in 1..len |-> cl.reliableCommands[Slot(a + k)]]
      BY DEF PendingTexts, Pending
    <2>2. \A k \in 1..len : cl.reliableCommands[Slot(a + k)] \in Int
      <3>1. \A k \in 1..len : a + k \in Int
        BY <1>3, <1>4
      <3> QED BY <1>3, <3>1, TextInRing
    <2> HIDE DEF texts, len
    <2> QED BY <1>4, <2>1, <2>2
  <1>6. Onward
    BY <1>2, <1>3 DEF Onward
  <1> HIDE DEF texts, len
  <1>7. PICK m \in Message : m = [ack |-> cl.lastClientCommand,
              key |-> cl.lastClientCommandString, from |-> a + 1, texts |-> texts]
    <2> DEFINE sent == [ack |-> cl.lastClientCommand,
              key |-> cl.lastClientCommandString, from |-> a + 1, texts |-> texts]
    <2>1. a + 1 \in Nat
      BY <1>3
    <2>2. sent \in Message
      BY <1>3, <1>5, <2>1 DEF Message
    <2> QED BY <2>2
  <1>8. /\ m.ack = cl.lastClientCommand /\ m.key = cl.lastClientCommandString
        /\ m.from = a + 1 /\ m.texts = texts
    BY <1>7
  <1>9. ToClientSays(m)
    <2>1. ASSUME NEW k \in 1..Len(m.texts) PROVE ServerSaid(m.from + k - 1, m.texts[k])
      <3>1. k \in 1..len /\ m.from + k - 1 = a + k /\ a + k \in Nat
        <4>1. Len(m.texts) = len /\ m.from = a + 1
          BY <1>5, <1>8
        <4>2. k \in 1..len
          BY <2>1, <4>1
        <4> QED BY SMTT(30), <1>3, <1>4, <4>1, <4>2
      <3>2. a < a + k /\ a + k <= cl.reliableSequence
        BY SMTT(30), <1>3, <1>4, <3>1
      <3>3. m.texts[k] = cl.reliableCommands[Slot(a + k)]
        BY <1>5, <1>8, <3>1
      <3> QED BY <1>1, <3>1, <3>2, <3>3 DEF RingsInv
    <2>2. m.from + Len(m.texts) - 1 = cl.reliableSequence
      <3>1. Len(m.texts) = len /\ m.from = a + 1
        BY <1>5, <1>8
      <3> QED BY SMTT(30), <1>3, <1>4, <3>1
    <2>3. m.from >= 1 /\ m.from <= clc.serverCommandSequence + 1
      BY <1>1, <1>3, <1>8 DEF CountersInv
    <2>4. clc.reliableAcknowledge <= m.ack /\ m.ack <= cl.lastClientCommand
      BY <1>1, <1>3, <1>8 DEF CountersInv
    <2>5. ClientSaid(m.ack, m.key)
      BY <1>1, <1>8 DEF SvHistoryInv
    <2>6. m.from + Len(m.texts) - 1 <= cl.reliableSequence
      BY <1>3, <2>2
    <2> QED BY <2>1, <2>3, <2>4, <2>5, <2>6 DEF ToClientSays
  <1>10. toClient' \in Seq(Message) /\ ToClientInv'
    <2>1. ToClientSays(m)'
      <3>1. clc'.reliableAcknowledge <= m.ack
        BY <1>2, <1>9 DEF ToClientSays
      <3> QED BY <1>1, <1>6, <1>9, <3>1, ToClientSaysStays
    <2>2. \A j \in 1..Len(toClient) : toClient[j].ack <= m.ack
      BY <1>1, <1>8 DEF ToClientInv, ToClientSays
    <2> QED BY <1>1, <1>2, <1>6, <1>7, <2>1, <2>2, ToClientSent
  <1>11. ToServerInv'
    BY <1>1, <1>2, <1>6, ToServerStays
  <1>12. TypeInv' /\ CountersInv' /\ RingsInv' /\ SvHistoryInv' /\ ClHistoryInv'
    BY <1>1, <1>2, <1>10
    DEF TypeInv, CountersInv, RingsInv, SvHistoryInv, ClHistoryInv, ClientSaid, ServerSaid
  <1> QED BY <1>10, <1>11, <1>12 DEF IInv

\* An acknowledge that reaches a live client's record makes sense.
LEMMA ServerAcknowledged ==
    ASSUME IInv, cl.state = "active", NEW msg \in Message, ToServerSays(msg)
    PROVE  LET s == AcknowledgedBy(cl, msg)
           IN  /\ MakesSense(cl, msg)
               /\ s \in ServerRec /\ s.state = "active" /\ s.drops = 0 /\ ~s.lost
               /\ s.reliableAcknowledge = msg.ack
               /\ s.reliableSequence = cl.reliableSequence
               /\ s.reliableCommands = cl.reliableCommands
               /\ s.lastClientCommand = cl.lastClientCommand
               /\ s.lastClientCommandString = cl.lastClientCommandString
               /\ cl.reliableAcknowledge <= msg.ack
               /\ msg.ack <= clc.serverCommandSequence
               /\ Pending(s) \in 0..MAX_RELIABLE_COMMANDS
  <1>1. /\ cl \in ServerRec /\ msg.ack \in Nat
        /\ cl.reliableSequence \in Nat /\ cl.reliableAcknowledge \in Nat
        /\ clc.serverCommandSequence \in Nat
        /\ Pending(cl) \in 0..MAX_RELIABLE_COMMANDS /\ cl.drops = 0 /\ ~cl.lost
    BY DEF IInv, TypeInv, ClientRec, ServerRec, Message
  <1>2. /\ cl.reliableAcknowledge <= msg.ack /\ msg.ack <= clc.serverCommandSequence
        /\ clc.serverCommandSequence <= cl.reliableSequence
    BY DEF IInv, CountersInv, ToServerSays
  <1>3. MakesSense(cl, msg)
    BY <1>1, <1>2, ReliableAssumption DEF MakesSense, Pending
  <1>4. AcknowledgedBy(cl, msg) = [cl EXCEPT !.reliableAcknowledge = msg.ack]
    BY <1>3 DEF AcknowledgedBy
  <1>5. cl.reliableSequence - msg.ack \in 0..MAX_RELIABLE_COMMANDS
    BY <1>1, <1>2, ReliableAssumption DEF Pending
  <1> QED BY <1>1, <1>2, <1>3, <1>4, <1>5 DEF ServerRec, Pending

\* What a message that is no garbage does to the server: nothing is lost, and
\* the history grows by what the client issued.
LEMMA ExecuteCommandsEffect ==
    ASSUME IInv, cl.state = "active", NEW msg \in Message, ToServerSays(msg),
           NEW s, s = AcknowledgedBy(cl, msg), ExecuteCommands(s, msg), clc' = clc
    PROVE  /\ Onward /\ CountersInv' /\ RingsInv' /\ SvHistoryInv'
           /\ svExecuted' \in Seq(Int)
           /\ cl'.reliableAcknowledge = msg.ack /\ ~cl'.lost
           /\ cl'.state = "active" =>
                 Pending(cl') \in 0..MAX_RELIABLE_COMMANDS /\ cl'.drops = 0
  <1> DEFINE n    == cl.lastClientCommand
             todo == ToExecute(msg)
  <1>1. TypeInv /\ CountersInv /\ RingsInv /\ SvHistoryInv
    BY DEF IInv
  <1>2. /\ s \in ServerRec /\ s.state = "active" /\ s.drops = 0 /\ ~s.lost
        /\ s.reliableAcknowledge = msg.ack
        /\ s.reliableSequence = cl.reliableSequence
        /\ s.reliableCommands = cl.reliableCommands
        /\ s.lastClientCommand = n
        /\ s.lastClientCommandString = cl.lastClientCommandString
        /\ cl.reliableAcknowledge <= msg.ack
        /\ msg.ack <= clc.serverCommandSequence
        /\ Pending(s) \in 0..MAX_RELIABLE_COMMANDS
    BY ServerAcknowledged
  <1>3. /\ n \in Nat /\ msg.from \in Nat /\ msg.from <= n + 1
        /\ n <= clc.reliableSequence /\ clc.reliableSequence \in Nat
        /\ Len(msg.texts) \in Nat
        /\ svExecuted \in Seq(Int) /\ Len(svExecuted) = n
    BY <1>1 DEF TypeInv, CountersInv, SvHistoryInv, ClientRec, ServerRec, ToServerSays, Message
  <1>4. CASE todo = {}
    <2>1. cl' = s /\ svExecuted' = svExecuted
      BY <1>4 DEF ExecuteCommands
    <2>2. /\ Onward /\ CountersInv' /\ RingsInv'
          /\ cl'.reliableAcknowledge = s.reliableAcknowledge
          /\ cl'.lastClientCommand = s.lastClientCommand
          /\ cl'.lastClientCommandString = s.lastClientCommandString
          /\ ~cl'.lost
          /\ cl'.state = "active" =>
                Pending(cl') \in 0..MAX_RELIABLE_COMMANDS /\ cl'.drops = 0
      BY SMTT(30), <1>2, <1>3, <2>1, ServerRecordStep
    <2>3. SvHistoryInv'
      BY <1>1, <1>2, <2>1, <2>2 DEF SvHistoryInv, ClientSaid, Onward
    <2> QED BY <1>2, <1>3, <2>1, <2>2, <2>3
  <1>5. CASE todo # {}
    <2> PICK last : last = Max(todo)
      OBVIOUS
    <2> PICK text : text = Text(msg, last)
      OBVIOUS
    <2> DEFINE done == [s EXCEPT !.lastClientCommand = last, !.lastClientCommandString = text]
    <2>1. /\ last \in Nat /\ n < last /\ last <= Last(msg)
          /\ todo = n + 1..last
          /\ Cardinality(todo) = last - n
          /\ \A k \in n + 1..last : /\ Text(msg, k) \in Int
                                    /\ k - msg.from + 1 \in 1..Len(msg.texts)
                                    /\ k < last => Text(msg, k) # Disconnect
      BY <1>3, <1>5, ToExecuteIsInterval
    <2>12. /\ last \in Nat /\ n < last /\ last <= Last(msg)
           /\ todo = n + 1..last /\ Cardinality(todo) = last - n
      BY <2>1
    <2>2. n + 1 \in todo
      <3>1. n + 1 \in n + 1..last
        BY <1>3, <2>12
      <3> QED BY <2>12, <3>1
    <2>3. /\ cl' \in IF text = Disconnect THEN SV_DropClient(done) ELSE {done}
          /\ svExecuted' = svExecuted \o [i \in 1..Cardinality(todo) |-> Text(msg, n + i)]
      BY <1>5, <2>2 DEF ExecuteCommands
    <2> HIDE DEF todo
    <2>4. text \in Int
      BY <1>3, <2>1
    <2>5. /\ done \in ServerRec /\ done.state = "active" /\ done.drops = 0 /\ ~done.lost
          /\ done.reliableAcknowledge = msg.ack
          /\ done.reliableSequence = cl.reliableSequence
          /\ done.reliableCommands = cl.reliableCommands
          /\ done.lastClientCommand = last /\ done.lastClientCommandString = text
          /\ Pending(done) = Pending(s)
      BY <1>2, <2>1, <2>4 DEF ServerRec, Pending
    <2>6. last <= clc.reliableSequence
      <3>1. Last(msg) <= clc.reliableSequence /\ Last(msg) \in Int
        BY <1>3 DEF ToServerSays, Last
      <3> QED BY <1>3, <2>1, <3>1
    <2> HIDE DEF done
    <2>7. cl' = done \/ DroppedFrom(done, cl')
      <3>1. \A d \in SV_DropClient(done) : DroppedFrom(done, d)
        BY <1>2, <2>5, LiveHolds, DropEffect
      <3> QED BY <2>3, <3>1
    <2>8. /\ Onward /\ CountersInv' /\ RingsInv'
          /\ cl'.reliableAcknowledge = msg.ack
          /\ cl'.lastClientCommand = last
          /\ cl'.lastClientCommandString = text
          /\ ~cl'.lost
          /\ cl'.state = "active" =>
                Pending(cl') \in 0..MAX_RELIABLE_COMMANDS /\ cl'.drops = 0
      <3>1. cl.lastClientCommand <= done.lastClientCommand
        BY <1>3, <2>5, <2>12
      <3> QED BY <1>2, <2>5, <2>6, <2>7, <3>1, ServerRecordStep
    <2>9. /\ svExecuted' \in Seq(Int) /\ Len(svExecuted') = last
          /\ \A i \in 1..last : svExecuted'[i] = IF i <= n THEN svExecuted[i] ELSE Text(msg, i)
      <3> PICK len \in Nat : len = last - n
        BY <1>3, <2>12
      <3> DEFINE more == [i \in 1..len |-> Text(msg, n + i)]
      <3>1. \A i \in 1..len : n + i \in n + 1..last
        BY SMTT(30), <1>3, <2>1
      <3>2. \A i \in 1..len : Text(msg, n + i) \in Int
        BY <2>1, <3>1
      <3>3. more \in Seq(Int) /\ Len(more) = len
        BY <3>2
      <3>4. svExecuted' = svExecuted \o more
        BY <2>1, <2>3
      <3>5. \A i \in 1..len : more[i] = Text(msg, n + i)
        OBVIOUS
      <3> HIDE DEF more
      <3>6. /\ svExecuted' \in Seq(Int)
            /\ Len(svExecuted') = Len(svExecuted) + Len(more)
            /\ \A i \in 1..Len(svExecuted) : svExecuted'[i] = svExecuted[i]
            /\ \A i \in 1..Len(more) : svExecuted'[Len(svExecuted) + i] = more[i]
        <4> PICK old \in Seq(Int) : old = svExecuted
          BY <1>3
        <4>1. /\ old \o more \in Seq(Int)
              /\ Len(old \o more) = Len(old) + Len(more)
              /\ \A i \in 1..Len(old) : (old \o more)[i] = old[i]
              /\ \A i \in 1..Len(more) : (old \o more)[Len(old) + i] = more[i]
          BY SMTT(30), <3>3
        <4> QED BY <3>4, <4>1
      <3>7. Len(svExecuted') = last
        <4>1. Len(svExecuted') = n + len
          BY <1>3, <3>3, <3>6
        <4>2. n \in Int /\ last \in Int
          BY <1>3, <2>12
        <4> HIDE DEF n
        <4>3. n + len = last
          BY <4>2
        <4> QED BY <4>1, <4>3
      <3>8. ASSUME NEW i \in 1..last
            PROVE  svExecuted'[i] = IF i <= n THEN svExecuted[i] ELSE Text(msg, i)
        <4>1. CASE i <= n
          BY <1>3, <2>1, <3>6, <4>1
        <4>2. CASE i > n
          <5>1. i - n \in 1..len /\ n + (i - n) = i
            BY SMTT(30), <1>3, <2>1, <4>2
          <5>2. svExecuted'[i] = more[i - n]
            BY <1>3, <3>3, <3>6, <5>1
          <5>3. more[i - n] = Text(msg, n + (i - n))
            BY <3>5, <5>1
          <5> QED BY <1>3, <4>2, <5>1, <5>2, <5>3
        <4> QED BY <1>3, <2>1, <4>1, <4>2
      <3> QED BY <3>6, <3>7, <3>8
    <2>10. ASSUME NEW k \in n + 1..last PROVE ClientSaid(k, Text(msg, k))
      <3> DEFINE j == k - msg.from + 1
      <3>1. j \in 1..Len(msg.texts) /\ msg.from + j - 1 = k /\ Text(msg, k) = msg.texts[j]
        BY SMTT(30), <1>3, <2>1, <2>10 DEF Text
      <3>2. ClientSaid(msg.from + j - 1, msg.texts[j])
        BY <3>1 DEF ToServerSays
      <3> QED BY <3>1, <3>2
    <2>11. SvHistoryInv'
      <3>1. ClientSaid(last, text)'
        <4>1. ClientSaid(last, text)
          BY <1>3, <2>1, <2>10
        <4> QED BY <2>8, <4>1, ClientSaidStays
      <3>2. ASSUME NEW i \in 1..last
            PROVE  \/ svExecuted'[i] = i
                   \/ svExecuted'[i] = Disconnect /\ ~clc'.connected /\ cl'.state = "zombie"
        <4>1. CASE i <= n
          <5>1. i \in 1..Len(svExecuted) /\ svExecuted'[i] = svExecuted[i]
            BY <1>3, <2>1, <2>9, <4>1
          <5> QED BY <1>1, <5>1 DEF SvHistoryInv
        <4>2. CASE i > n
          <5>1. i \in n + 1..last /\ svExecuted'[i] = Text(msg, i)
            BY <1>3, <2>1, <2>9, <4>2
          <5>2. ClientSaid(i, Text(msg, i))
            BY <2>10, <5>1
          <5>3. CASE Text(msg, i) = i
            BY <5>1, <5>3
          <5>4. CASE Text(msg, i) = Disconnect /\ ~clc.connected
            <6>1. i = last
              BY <1>3, <2>1, <5>1, <5>4
            <6>2. text = Disconnect
              BY <5>4, <6>1
            <6>3. cl'.state = "zombie"
              <7>1. cl' \in SV_DropClient(done)
                BY <2>3, <6>2
              <7>2. DroppedFrom(done, cl')
                BY <1>2, <2>5, <7>1, LiveHolds, DropEffect
              <7> QED BY <7>2 DEF DroppedFrom
            <6> QED BY <5>1, <5>4, <6>3
          <5> QED BY <5>2, <5>3, <5>4 DEF ClientSaid
        <4> QED BY <1>3, <2>1, <4>1, <4>2
      <3> QED BY <2>8, <2>9, <3>1, <3>2 DEF SvHistoryInv, ClientSaid
    <2> QED BY <2>8, <2>9, <2>11
  <1> QED BY <1>4, <1>5

LEMMA PacketEventStep ==
    ASSUME IInv, NEW i \in DOMAIN toServer, NEW outdated \in BOOLEAN,
           SV_PacketEvent(i, outdated)
    PROVE  IInv'
  <1>1. /\ TypeInv /\ CountersInv /\ RingsInv /\ ToServerInv /\ ToClientInv
        /\ SvHistoryInv /\ ClHistoryInv
    BY DEF IInv
  <1>2. /\ clc' = clc /\ toClient' = toClient /\ clExecuted' = clExecuted
        /\ toServer' = SubSeq(toServer, i + 1, Len(toServer))
    BY DEF SV_PacketEvent
  <1>3. i \in 1..Len(toServer)
    BY <1>1 DEF TypeInv
  <1>4. PICK msg \in Message : msg = toServer[i]
    BY <1>1, <1>3 DEF TypeInv
  <1>5. ToServerSays(msg)
    BY <1>1, <1>3, <1>4 DEF ToServerInv
  <1>6. /\ Onward /\ CountersInv' /\ RingsInv' /\ SvHistoryInv'
        /\ svExecuted' \in Seq(Int) /\ ~cl'.lost
        /\ cl'.reliableAcknowledge \in {cl.reliableAcknowledge, msg.ack}
        /\ cl'.state = "active" =>
              Pending(cl') \in 0..MAX_RELIABLE_COMMANDS /\ cl'.drops = 0
    <2>1. CASE cl.state = "zombie"
      <3>1. cl' = cl /\ svExecuted' = svExecuted
        BY <2>1 DEF SV_PacketEvent
      <3>2. Onward
        BY SMTT(30), <1>1, <1>2, <3>1 DEF Onward, TypeInv, ClientRec, ServerRec
      <3> QED BY <1>1, <1>2, <2>1, <3>1, <3>2
              DEF CountersInv, RingsInv, SvHistoryInv, TypeInv, ClientSaid, ServerSaid
    <2>2. CASE cl.state # "zombie"
      <3> PICK s : s = AcknowledgedBy(cl, msg)
        OBVIOUS
      <3>1. cl.state = "active"
        BY <1>1, <2>2 DEF TypeInv, ServerRec
      <3>2. /\ s \in ServerRec /\ s.state = "active" /\ s.drops = 0 /\ ~s.lost
            /\ s.reliableAcknowledge = msg.ack
            /\ s.reliableSequence = cl.reliableSequence
            /\ s.reliableCommands = cl.reliableCommands
            /\ s.lastClientCommand = cl.lastClientCommand
            /\ s.lastClientCommandString = cl.lastClientCommandString
            /\ cl.reliableAcknowledge <= msg.ack
            /\ msg.ack <= clc.serverCommandSequence
            /\ Pending(s) \in 0..MAX_RELIABLE_COMMANDS
        BY <1>5, <3>1, ServerAcknowledged
      <3>3. \/ cl' \in {s} \cup SV_DropClient(s) /\ svExecuted' = svExecuted
            \/ ExecuteCommands(s, msg)
        BY <1>4, <2>2 DEF SV_PacketEvent, SV_ExecuteClientMessage
      <3>4. CASE cl' \in {s} \cup SV_DropClient(s) /\ svExecuted' = svExecuted
        <4>1. cl' = s \/ DroppedFrom(s, cl')
          <5>1. \A d \in SV_DropClient(s) : DroppedFrom(s, d)
            BY <3>1, <3>2, LiveHolds, DropEffect
          <5> QED BY <3>4, <5>1
        <4>2. /\ s.lastClientCommand <= clc.reliableSequence
              /\ cl.lastClientCommand <= s.lastClientCommand
          BY <1>1, <3>2 DEF CountersInv, TypeInv, ServerRec
        <4>3. /\ Onward /\ CountersInv' /\ RingsInv'
              /\ cl'.reliableAcknowledge = s.reliableAcknowledge
              /\ cl'.lastClientCommand = s.lastClientCommand
              /\ cl'.lastClientCommandString = s.lastClientCommandString
              /\ ~cl'.lost
              /\ cl'.state = "active" =>
                    Pending(cl') \in 0..MAX_RELIABLE_COMMANDS /\ cl'.drops = 0
          BY <1>2, <3>1, <3>2, <4>1, <4>2, ServerRecordStep
        <4>4. SvHistoryInv'
          BY <1>1, <1>2, <3>2, <3>4, <4>3, HistoriesStay
        <4> QED BY <1>1, <3>2, <3>4, <4>3, <4>4 DEF TypeInv
      <3>5. CASE ExecuteCommands(s, msg)
        BY <1>2, <1>5, <3>1, <3>5, ExecuteCommandsEffect
      <3> QED BY <3>3, <3>4, <3>5
    <2> QED BY <2>1, <2>2
  <1>7. toServer' \in Seq(Message) /\ ToServerInv'
    BY <1>1, <1>2, <1>3, <1>4, <1>6, ToServerRest
  <1>8. ToClientInv'
    BY <1>1, <1>2, <1>6, ToClientStays
  <1>9. ClHistoryInv'
    BY <1>1, <1>2, <1>6 DEF ClHistoryInv, ServerSaid, Onward
  <1>10. TypeInv'
    BY <1>1, <1>2, <1>6, <1>7 DEF TypeInv, Onward
  <1> QED BY <1>6, <1>7, <1>8, <1>9, <1>10 DEF IInv

-----------------------------------------------------------------------------
(* The theorems. *)

LEMMA InitIInv == Init => IInv
  <1> SUFFICES ASSUME Init PROVE IInv
    OBVIOUS
  <1>1. EmptyRing \in Ring /\ \A n \in Int : EmptyRing[Slot(n)] = 0
    <2>1. \A n \in Int : Slot(n) \in 0..MAX_RELIABLE_COMMANDS - 1
      BY SlotInRing
    <2> QED BY <2>1 DEF EmptyRing, Ring
  <1>2. /\ clc = [connected |-> TRUE, reliableSequence |-> 0, reliableAcknowledge |-> 0,
                  reliableCommands |-> EmptyRing, serverCommandSequence |-> 0,
                  serverCommands |-> EmptyRing, lastExecutedServerCommand |-> 0]
        /\ cl = [state |-> "active", reliableSequence |-> 0, reliableAcknowledge |-> 0,
                 reliableCommands |-> EmptyRing, lastClientCommand |-> 0,
                 lastClientCommandString |-> 0, drops |-> 0, lost |-> FALSE,
                 skipped |-> 0]
        /\ toServer = <<>> /\ toClient = <<>> /\ clExecuted = <<>> /\ svExecuted = <<>>
    BY DEF Init
  <1> HIDE DEF EmptyRing
  <1>3. TypeInv
    BY <1>1, <1>2, ReliableAssumption DEF TypeInv, ClientRec, ServerRec, Pending
  <1>4. CountersInv
    BY <1>2 DEF CountersInv
  <1>5. RingsInv
    <2>1. \A n \in Nat : Recent(n, 0) => n = 0
      BY ReliableAssumption DEF Recent
    <2> QED BY <1>1, <1>2, <2>1 DEF RingsInv, ServerSaid
  <1>6. ToServerInv /\ ToClientInv
    BY <1>2 DEF ToServerInv, ToClientInv, AcksGrow
  <1>7. SvHistoryInv /\ ClHistoryInv
    BY <1>2 DEF SvHistoryInv, ClHistoryInv, ClientSaid
  <1> QED BY <1>3, <1>4, <1>5, <1>6, <1>7 DEF IInv

LEMMA NextIInv == IInv /\ [Next]_vars => IInv'
  <1> SUFFICES ASSUME IInv, [Next]_vars PROVE IInv'
    OBVIOUS
  <1>1. CASE SV_SendServerCommand
    BY <1>1, SendServerCommandStep
  <1>2. CASE Drop
    BY <1>2, DropStep
  <1>3. CASE SV_SendClientSnapshot
    BY <1>3, SendClientSnapshotStep
  <1>4. ASSUME NEW i \in DOMAIN toServer, NEW outdated \in BOOLEAN, SV_PacketEvent(i, outdated)
        PROVE  IInv'
    BY <1>4, PacketEventStep
  <1>5. CASE CL_AddReliableCommand
    BY <1>5, AddReliableCommandStep
  <1>6. CASE UserDisconnects
    BY <1>6, UserDisconnectsStep
  <1>7. CASE CL_WritePacket
    BY <1>7, WritePacketStep
  <1>8. ASSUME NEW i \in DOMAIN toClient, CL_ParseServerMessage(i)
        PROVE  IInv'
    BY <1>8, ParseServerMessageStep
  <1>9. CASE CL_GetServerCommand
    BY <1>9, GetServerCommandStep
  <1>10. CASE UNCHANGED vars
    <2>1. /\ clc' = clc /\ cl' = cl /\ toServer' = toServer /\ toClient' = toClient
          /\ clExecuted' = clExecuted /\ svExecuted' = svExecuted
      BY <1>10 DEF vars
    <2>2. TypeInv' /\ CountersInv' /\ RingsInv'
      BY <2>1 DEF IInv, TypeInv, CountersInv, RingsInv, ServerSaid
    <2>3. ToServerInv' /\ ToClientInv'
      BY <2>1 DEF IInv, ToServerInv, ToClientInv, ToServerSays, ToClientSays, AcksGrow,
          ClientSaid, ServerSaid
    <2>4. SvHistoryInv' /\ ClHistoryInv'
      BY <2>1 DEF IInv, SvHistoryInv, ClHistoryInv, ClientSaid, ServerSaid
    <2> QED BY <2>2, <2>3, <2>4 DEF IInv
  <1> QED BY <1>1, <1>2, <1>3, <1>4, <1>5, <1>6, <1>7, <1>8, <1>9, <1>10 DEF Next

\* The inductive invariant holds in every state of every behaviour.
THEOREM Inductive == Spec => []IInv
  <1> QED BY InitIInv, NextIInv, PTL DEF Spec

LEMMA RingsHoldFromIInv == IInv => RingsHold
  <1> SUFFICES ASSUME IInv PROVE RingsHold
    OBVIOUS
  <1>1. TypeInv /\ CountersInv /\ RingsInv /\ ToServerInv /\ ToClientInv
    BY DEF IInv
  <1>2. TypeOK
    <2>1. ASSUME NEW m \in {toServer[i] : i \in DOMAIN toServer} \cup
                           {toClient[i] : i \in DOMAIN toClient}
          PROVE  m.ack \in Nat /\ m.key \in Int /\ m.from \in Nat /\ m.texts \in Seq(Int)
      <3>1. m \in Message
        BY <1>1 DEF TypeInv
      <3> QED BY <3>1 DEF Message
    <2> QED BY <1>1, <2>1 DEF TypeInv, TypeOK, ClientRec, ServerRec
  <1>3. /\ clc.reliableSequence \in Nat /\ clc.reliableAcknowledge \in Nat
        /\ clc.serverCommandSequence \in Nat
        /\ cl.reliableSequence \in Nat /\ cl.reliableAcknowledge \in Nat
        /\ cl.lastClientCommand \in Nat
    BY <1>1 DEF TypeInv, ClientRec, ServerRec
  <1>4. ASSUME clc.connected, Pending(clc) < MAX_RELIABLE_COMMANDS, NEW i \in DOMAIN toClient
        PROVE  ~Garbled(clc, toClient[i])
    <2>1. PICK m \in Message : m = toClient[i]
      BY <1>1 DEF TypeInv
    <2>2. ToClientSays(m)
      <3>1. i \in 1..Len(toClient)
        BY <1>1 DEF TypeInv
      <3> QED BY <1>1, <2>1, <3>1 DEF ToClientInv
    <2>3. m.key = m.ack /\ m.ack \in Nat
      BY <1>4, <2>2 DEF ToClientSays, ClientSaid, Message
    <2>4. clc.reliableAcknowledge <= m.ack /\ m.ack <= cl.lastClientCommand
      BY <2>2 DEF ToClientSays
    <2>5. Recent(m.ack, clc.reliableSequence)
      BY <1>1, <1>3, <1>4, <2>3, <2>4, ReliableAssumption DEF Recent, Pending, CountersInv
    <2>6. clc.reliableCommands[Slot(m.ack)] = m.ack
      BY <1>1, <1>4, <2>3, <2>5 DEF RingsInv
    <2> QED BY <2>1, <2>3, <2>6 DEF Garbled
  <1>5. ASSUME cl.state = "active", Pending(cl) < MAX_RELIABLE_COMMANDS, NEW i \in DOMAIN toServer
        PROVE  ~Garbled(cl, toServer[i])
    <2>1. PICK m \in Message : m = toServer[i]
      BY <1>1 DEF TypeInv
    <2>2. ToServerSays(m)
      <3>1. i \in 1..Len(toServer)
        BY <1>1 DEF TypeInv
      <3> QED BY <1>1, <2>1, <3>1 DEF ToServerInv
    <2>3. m.key = m.ack /\ m.ack \in Nat
      BY <1>5, <2>2 DEF ToServerSays, ServerSaid, Message
    <2>4. cl.reliableAcknowledge <= m.ack /\ m.ack <= clc.serverCommandSequence
      BY <2>2 DEF ToServerSays
    <2>5. Recent(m.ack, cl.reliableSequence)
      BY <1>1, <1>3, <1>5, <2>3, <2>4, ReliableAssumption DEF Recent, Pending, CountersInv
    <2>6. cl.reliableCommands[Slot(m.ack)] = m.ack
      BY <1>1, <1>5, <2>3, <2>5 DEF RingsInv
    <2> QED BY <2>1, <2>3, <2>6 DEF Garbled
  <1> QED BY <1>2, <1>4, <1>5 DEF RingsHold, KeyHeldUnlessFull

LEMMA InOrderFromIInv == IInv => ServerExecutesInOrder /\ ClientExecutesInOrder
  <1> SUFFICES ASSUME IInv PROVE ServerExecutesInOrder /\ ClientExecutesInOrder
    OBVIOUS
  <1>1. TypeInv /\ SvHistoryInv /\ ClHistoryInv
    BY DEF IInv
  <1>2. ServerExecutesInOrder
    BY <1>1 DEF TypeInv, SvHistoryInv, ServerExecutesInOrder
  <1>3. ASSUME NEW i \in DOMAIN clExecuted
        PROVE  \/ clExecuted[i] = i
               \/ /\ cl.state = "zombie"
                  /\ \/ clExecuted[i] \in {DropNotice, PlayerGone}
                     \/ clExecuted[i] = Disconnect /\ i = Len(clExecuted)
                     \/ clExecuted[i] = i - MAX_RELIABLE_COMMANDS /\ i = cl.skipped
    <2>1. /\ ServerSaid(i, clExecuted[i])
          /\ clExecuted[i] = Disconnect => i = Len(clExecuted)
      BY <1>1 DEF TypeInv, ClHistoryInv
    <2> QED BY <2>1 DEF ServerSaid
  <1> QED BY <1>2, <1>3 DEF ClientExecutesInOrder

LEMMA NoGapFromIInv == IInv => NoGap
  <1> SUFFICES ASSUME IInv PROVE NoGap
    OBVIOUS
  <1>1. TypeInv /\ ToServerInv /\ ToClientInv
    BY DEF IInv
  <1>2. DOMAIN toServer = 1..Len(toServer) /\ DOMAIN toClient = 1..Len(toClient)
    BY <1>1 DEF TypeInv
  <1>3. \A i \in DOMAIN toServer : toServer[i].from <= cl.lastClientCommand + 1
    BY <1>1, <1>2 DEF ToServerInv, ToServerSays
  <1>4. \A i \in DOMAIN toClient : toClient[i].from <= clc.serverCommandSequence + 1
    BY <1>1, <1>2 DEF ToClientInv, ToClientSays
  <1> QED BY <1>1, <1>3, <1>4 DEF NoGap, TypeInv

\* SV_ClientCommand: the client's commands are executed in order, each once,
\* none left out, for rings of any size and however packets repeat them.
THEOREM ServerOrder == Spec => []ServerExecutesInOrder
  <1> QED BY Inductive, InOrderFromIInv, PTL

\* CL_GetServerCommand: so are the server's commands, until it drops the client
\* and then but for what the drop itself adds, however much that is, and the slot
\* of the number SV_AddServerCommand takes without storing a command.
THEOREM ClientOrder == Spec => []ClientExecutesInOrder
  <1> QED BY Inductive, InOrderFromIInv, PTL

\* SV_ClientCommand never drops a client for commands lost, and
\* CL_ParseCommandString may take the first new command for the next one.
THEOREM NoGaps == Spec => []NoGap
  <1> QED BY Inductive, NoGapFromIInv, PTL

\* The records keep their types, live rings their sizes, and a ring that is not
\* full the key of every message in flight (SV_Netchan_Decode, CL_Netchan_Decode).
THEOREM Rings == Spec => []RingsHold
  <1> QED BY Inductive, RingsHoldFromIInv, PTL
=============================================================================
