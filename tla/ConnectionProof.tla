--------------------------- MODULE ConnectionProof ---------------------------
(***************************************************************************)
(* Proofs about Connection for every number of clients, ports, slots and   *)
(* challenges, in three layers.  Whatever the network and the router do,   *)
(* types are kept and the game agrees with the engine (IInv).  While the   *)
(* router keeps each client's port, a client's address is its own, and so  *)
(* is its slot (OwnInv).  If packets also arrive in order, what is on the  *)
(* way in a handshake is of the challenge the client has, or of one the    *)
(* server would no longer take (HandshakeInv).                             *)
(***************************************************************************)
EXTENDS Connection, FiniteSetTheorems, SequenceTheorems, NaturalsInduction, WellFoundedInduction, TLAPS

SlotRec   == [state : {"free", "zombie", "connected", "primed", "active"},
              adr : Port \cup {0}, qport : Client \cup {0}, challenge : 0..MaxIssued,
              heard : BOOLEAN, told : BOOLEAN]
EntryRec  == [adr : Port \cup {0}, number : 0..MaxIssued, connected : BOOLEAN,
              wasrefused : BOOLEAN, time : 0..MaxIssued]
ClientRec == [state : {"disconnected", "connecting", "challenging", "connected"},
              challenge : 0..MaxIssued, heard : BOOLEAN]

Request == {p \in [kind : {"getchallenge", "connect", "move", "disconnect"},
                   adr : Port, challenge : 0..MaxIssued] :
               p.kind = "connect" => p.challenge # 0}
Answer  == [kind : {"challengeResponse"}, challenge : 1..MaxIssued]
           \cup [kind : {"connectResponse", "oobDisconnect"}]
           \cup [kind : {"message"}, challenge : 0..MaxIssued, last : BOOLEAN]

ServerInv ==
    /\ slots \in [Slot -> SlotRec] /\ challenges \in [Entry -> EntryRec]
    /\ issued \in 0..MaxIssued
    /\ game \in [Slot -> {"disconnected", "connecting", "connected"}]
    /\ GameAgrees

\* A client knows a challenge from the answer to its request on.
ClientInv ==
    /\ client \in [Client -> ClientRec] /\ port \in [Client -> Port]
    /\ \A c \in Client : client[c].challenge # 0
                            <=> client[c].state \in {"challenging", "connected"}

NetInv ==
    /\ toServer \in [Client -> Seq(Request)] /\ toClient \in [Client -> Seq(Answer)]
    /\ \A c \in Client : Len(toServer[c]) <= MaxInFlight /\ Len(toClient[c]) <= MaxInFlight

IInv == ServerInv /\ ClientInv /\ NetInv

-----------------------------------------------------------------------------
(* While the router keeps the ports. *)

\* An address is one client's, and what comes from it that client's.
AddressInv ==
    /\ port = FirstPort
    /\ \A i \in Slot : slots[i].state # "free"
                          => slots[i].qport \in Client /\ slots[i].adr = FirstPort[slots[i].qport]
    /\ \A c \in Client : \A n \in DOMAIN toServer[c] : toServer[c][n].adr = FirstPort[c]

OwnInv == AddressInv /\ OneSlotEach /\ ReservedForTrusted

-----------------------------------------------------------------------------
(* And if packets arrive in order. *)

\* Of the entries of an address one at most has not been connected with.
EntriesInv ==
    /\ \A e \in Entry : challenges[e].number <= issued
    /\ \A d, e \in Entry :
          /\ challenges[d].adr = challenges[e].adr /\ challenges[e].adr # 0
          /\ ~challenges[d].connected /\ ~challenges[e].connected
          => d = e

Connects(c) == Arrives(toServer[c], "connect")
Requests(c) == Arrives(toServer[c], "getchallenge")
Given(c)    == Arrives(toClient[c], "challengeResponse")

\* The server would not take k from client c.
Dead(c, k) ==
    \A e \in Entry : ~(challenges[e].adr = FirstPort[c] /\ challenges[e].number = k)

\* It has not taken k from client c, who gets another number if it asks again.
Unused(c, k) ==
    \A e \in Entry : challenges[e].adr = FirstPort[c] /\ challenges[e].number = k
                        => ~challenges[e].connected

\* Nobody knows a number that was not issued.
KnownInv(c) ==
    /\ client[c].challenge <= issued
    /\ \A n \in Connects(c) : toServer[c][n].challenge <= issued
    /\ \A n \in Given(c) : toClient[c][n].challenge <= issued

\* A connect on the way is with the client's present challenge or in vain.
ConnectsInv(c) ==
    client[c].challenge # 0 =>
        \A n \in Connects(c) : \/ toServer[c][n].challenge = client[c].challenge
                               \/ Dead(c, toServer[c][n].challenge)

\* What a request on the way may still make void has not been connected with;
\* what was sent before it is of an earlier handshake than what comes after it.
RequestsInv(c) ==
    \A n \in Requests(c) :
        /\ client[c].state = "challenging" => Unused(c, client[c].challenge)
        /\ \A k \in Connects(c) : k > n => Unused(c, toServer[c][k].challenge)
        /\ \A j \in Connects(c) : j < n =>
              /\ toServer[c][j].challenge # client[c].challenge
              /\ \A k \in Connects(c) : k > n => toServer[c][j].challenge # toServer[c][k].challenge

\* A challenge on its way to the client is newer than all that the client knows
\* or has used, which are void, and nothing it could take for an answer follows.
GivenInv(c) ==
    \A n \in Given(c) :
        /\ Unused(c, toClient[c][n].challenge)
        /\ client[c].challenge < toClient[c][n].challenge
        /\ client[c].state = "challenging" => Dead(c, client[c].challenge)
        /\ \A k \in Connects(c) : /\ toServer[c][k].challenge < toClient[c][n].challenge
                                  /\ Dead(c, toServer[c][k].challenge)
        /\ \A k \in Given(c) : k > n => /\ toClient[c][k].challenge > toClient[c][n].challenge
                                        /\ Dead(c, toClient[c][n].challenge)
        /\ \A k \in Arrives(toClient[c], "connectResponse") : k < n

\* The client's slot, if it has one, is of the challenge it knows, once the server
\* has said that there is one.
Admitted(c) ==
    \/ client[c].state = "connected"
    \/ client[c].state = "challenging" /\ Arrives(toClient[c], "connectResponse") # {}

AnswerInv(c) ==
    Admitted(c) => \A i \in Slot : slots[i].state # "free" /\ slots[i].qport = c
                                      => slots[i].challenge = client[c].challenge

Handshake(c) ==
    KnownInv(c) /\ ConnectsInv(c) /\ RequestsInv(c) /\ GivenInv(c) /\ AnswerInv(c)

HandshakeInv == EntriesInv /\ \A c \in Client : Handshake(c)

-----------------------------------------------------------------------------
(* Lemmas about the operators. *)

\* A set of numbers that is not empty has a least.
LEMMA MinOfNaturals ==
    ASSUME NEW S \in SUBSET Nat, S # {}
    PROVE  Min(S) \in S /\ \A x \in S : Min(S) <= x
  <1> DEFINE R == {p \in Nat \X Nat : p[1] < p[2]}
  <1>1. IsWellFoundedOn(R, Nat)
    BY NatLessThanWellFounded DEF OpToRel
  <1> HIDE DEF R
  <1>2. PICK least \in S : \A y \in S : <<y, least>> \notin R
    BY <1>1, WFMin
  <1>3. ASSUME NEW y \in S PROVE least <= y
    <2>1. y \in Nat /\ least \in Nat /\ <<y, least>> \in Nat \X Nat
      BY <1>2
    <2>2. ~(<<y, least>>[1] < <<y, least>>[2])
      BY <1>2, <2>1 DEF R
    <2> QED BY <2>1, <2>2
  <1>4. \E x \in S : \A y \in S : x <= y
    BY <1>3
  <1> QED BY <1>4 DEF Min

\* The first of some slots or entries is one of them.
LEMMA FirstOf ==
    ASSUME NEW n \in Nat, NEW S \in SUBSET (1..n), S # {}
    PROVE  Min(S) \in S
  <1>1. S \in SUBSET Nat
    OBVIOUS
  <1> QED BY <1>1, MinOfNaturals

\* What is left of a queue when its packet i has arrived: packets of the queue,
\* no more of them; if packets arrive in order, those after i.
LEMMA RestOfQueue ==
    ASSUME NEW T, NEW queue \in Seq(T), NEW i \in 1..Len(queue), NEW rest \in Rest(queue, i)
    PROVE  /\ rest \in Seq(T) /\ Len(rest) <= Len(queue)
           /\ \A j \in 1..Len(rest) : \E k \in 1..Len(queue) : rest[j] = queue[k]
           /\ Ordered => /\ Len(rest) = Len(queue) - i
                         /\ \A j \in 1..Len(rest) : /\ i + j \in 1..Len(queue)
                                                    /\ rest[j] = queue[i + j]
  <1> DEFINE after  == SubSeq(queue, i + 1, Len(queue))
             before == SubSeq(queue, 1, i - 1)
  <1>1. /\ after \in Seq(T) /\ Len(after) = Len(queue) - i
        /\ \A j \in 1..Len(after) : i + j \in 1..Len(queue) /\ after[j] = queue[i + j]
    BY SubSeqProperties
  <1>2. /\ before \in Seq(T) /\ Len(before) = i - 1
        /\ \A j \in 1..Len(before) : j \in 1..Len(queue) /\ before[j] = queue[j]
    BY SubSeqProperties
  <1> HIDE DEF after, before
  <1>3. CASE Ordered
    <2>1. rest = after
      BY <1>3 DEF Rest, after
    <2> QED BY <2>1, <1>1
  <1>4. CASE ~Ordered /\ rest = queue
    BY <1>4
  <1>5. CASE ~Ordered /\ rest = before \o after
    <2>1. /\ rest \in Seq(T) /\ Len(rest) = Len(before) + Len(after)
          /\ \A j \in 1..Len(before) + Len(after) :
                rest[j] = IF j <= Len(before) THEN before[j] ELSE after[j - Len(before)]
      BY <1>1, <1>2, <1>5, ConcatProperties
    <2>2. Len(rest) = Len(queue) - 1
      <3>1. /\ Len(rest) = Len(before) + Len(after) /\ Len(before) = i - 1
            /\ Len(after) = Len(queue) - i /\ Len(queue) \in Nat
        BY <2>1, <1>1, <1>2
      <3> QED BY <3>1
    <2>3. ASSUME NEW j \in 1..Len(rest) PROVE \E k \in 1..Len(queue) : rest[j] = queue[k]
      <3>1. CASE j \in 1..Len(before)
        BY <3>1, <2>1, <1>2
      <3>2. CASE j \notin 1..Len(before)
        <4>1. j - Len(before) \in 1..Len(after) /\ rest[j] = after[j - Len(before)]
          BY <3>2, <2>1, <1>1, <1>2
        <4> QED BY <4>1, <1>1
      <3> QED BY <3>1, <3>2
    <2> QED BY <1>5, <2>1, <2>2, <2>3
  <1>6. ~Ordered => rest = queue \/ rest = before \o after
    BY DEF Rest, before, after
  <1> QED BY <1>3, <1>4, <1>5, <1>6

\* A packet sent is the last of the queue, or lost.
LEMMA SendEffect ==
    ASSUME NEW T, NEW queue \in Seq(T), NEW packet \in T, Len(queue) <= MaxInFlight
    PROVE  LET sent == Send(queue, packet)
           IN  /\ sent \in Seq(T) /\ Len(sent) <= MaxInFlight
               /\ \/ sent = queue
                  \/ /\ Len(sent) = Len(queue) + 1
                     /\ \A j \in 1..Len(queue) : sent[j] = queue[j]
                     /\ sent[Len(sent)] = packet
  <1>1. MaxInFlight \in Nat /\ Len(queue) \in Nat
    BY ConnectionAssumption
  <1>2. /\ Append(queue, packet) \in Seq(T)
        /\ Len(Append(queue, packet)) = Len(queue) + 1
        /\ \A j \in 1..Len(queue) : Append(queue, packet)[j] = queue[j]
        /\ Append(queue, packet)[Len(queue) + 1] = packet
    BY AppendProperties
  <1> QED BY <1>1, <1>2 DEF Send

-----------------------------------------------------------------------------
(* Whatever the network and the router do: the parts of the steps. *)

\* A reply leaves the queues queues of answers.
LEMMA ReplyKeeps ==
    ASSUME NetInv, NEW adr, NEW packet \in Answer, Reply(adr, packet)
    PROVE  /\ toClient' \in [Client -> Seq(Answer)]
           /\ \A c \in Client : Len(toClient'[c]) <= MaxInFlight
  <1>1. ASSUME NEW c \in Client
        PROVE  /\ Send(toClient[c], packet) \in Seq(Answer)
               /\ Len(Send(toClient[c], packet)) <= MaxInFlight
    BY SendEffect DEF NetInv
  <1>2. toClient' = [c \in Client |->
            IF port[c] = adr THEN Send(toClient[c], packet) ELSE toClient[c]]
    BY DEF Reply
  <1> HIDE DEF Send
  <1> QED BY <1>1, <1>2 DEF NetInv

\* What is left of a queue when a packet has arrived is a queue of packets.
LEMMA RestKeeps ==
    ASSUME NEW T, NEW f \in [Client -> Seq(T)], \A d \in Client : Len(f[d]) <= MaxInFlight,
           NEW c \in Client, NEW n \in DOMAIN f[c], NEW rest \in Rest(f[c], n)
    PROVE  /\ [f EXCEPT ![c] = rest] \in [Client -> Seq(T)]
           /\ \A d \in Client : Len([f EXCEPT ![c] = rest][d]) <= MaxInFlight
  <1>1. f[c] \in Seq(T) /\ n \in 1..Len(f[c]) /\ MaxInFlight \in Nat
    BY ConnectionAssumption
  <1>2. rest \in Seq(T) /\ Len(rest) <= Len(f[c]) /\ Len(rest) \in Nat /\ Len(f[c]) \in Nat
    BY <1>1, RestOfQueue
  <1> QED BY <1>1, <1>2

LEMMA WithoutFirstKeeps ==
    ASSUME ServerInv, NEW adr PROVE WithoutFirst(adr) \in [Entry -> EntryRec]
  <1> DEFINE of == {e \in Entry : challenges[e].adr = adr}
  <1>1. NoEntry \in EntryRec
    BY ConnectionAssumption DEF NoEntry, EntryRec
  <1>2. WithoutFirst(adr) = IF of = {} THEN challenges
                            ELSE [challenges EXCEPT ![Min(of)] = NoEntry]
    BY DEF WithoutFirst
  <1> QED BY <1>1, <1>2 DEF ServerInv

LEMMA NoSlotIsSlot == NoSlot \in SlotRec /\ NoSlot.state = "free"
  <1> QED BY ConnectionAssumption DEF NoSlot, SlotRec

\* A slot that is freed, or left to a zombie, is no longer of interest.
LEMMA DropToKeeps ==
    ASSUME ServerInv, UNCHANGED issued, NEW i \in Slot, NEW adr \in Port \cup {0},
           NEW state \in {"free", "zombie"}, slots[i].state # "free", DropTo(i, adr, state)
    PROVE  ServerInv'
  <1> DEFINE left == IF state = "free" THEN NoSlot
                     ELSE [slots[i] EXCEPT !.state = state, !.adr = adr, !.heard = FALSE,
                                           !.told = slots[i].state # "connected"]
  <1>1. left \in SlotRec /\ left.state = state
    BY NoSlotIsSlot DEF ServerInv, SlotRec
  <1>2. slots' = [slots EXCEPT ![i] = left] /\ game' = [game EXCEPT ![i] = "disconnected"]
    BY DEF DropTo
  <1>3. challenges' \in [Entry -> EntryRec]
    BY WithoutFirstKeeps DEF DropTo
  <1> HIDE DEF left
  <1>4. slots' \in [Slot -> SlotRec]
        /\ game' \in [Slot -> {"disconnected", "connecting", "connected"}]
    BY <1>1, <1>2 DEF ServerInv
  <1>5. GameAgrees'
    BY <1>1, <1>2 DEF ServerInv, GameAgrees, Live
  <1> QED BY <1>3, <1>4, <1>5 DEF ServerInv

LEMMA HeardInKeeps ==
    ASSUME ServerInv, UNCHANGED issued, NEW i \in Slot, NEW adr \in Port, Live(slots[i]),
           NEW state \in After(slots[i].state) \cup {slots[i].state}, HeardIn(i, adr, state)
    PROVE  ServerInv'
  <1> DEFINE heard == [slots[i] EXCEPT !.state = state, !.adr = adr, !.heard = TRUE]
  <1>0. slots[i] \in SlotRec
    BY DEF ServerInv
  <1>1. state \in {"connected", "primed", "active"}
        /\ (state = "active" => slots[i].state \in {"primed", "active"})
    BY DEF Live, After
  <1>2. heard \in SlotRec /\ heard.state = state
    BY <1>0, <1>1 DEF SlotRec
  <1>3. slots' = [slots EXCEPT ![i] = heard]
    BY DEF HeardIn, ServerInv
  <1>4. game' = IF slots[i].state = "primed" /\ state = "active"
                THEN [game EXCEPT ![i] = "connected"] ELSE game
    BY DEF HeardIn
  <1> HIDE DEF heard
  <1>5. slots' \in [Slot -> SlotRec]
        /\ game' \in [Slot -> {"disconnected", "connecting", "connected"}]
    BY <1>2, <1>3, <1>4 DEF ServerInv
  <1>6. GameAgrees'
    BY <1>1, <1>2, <1>3, <1>4 DEF ServerInv, GameAgrees, Live
  <1>7. challenges' \in [Entry -> EntryRec]
    BY DEF HeardIn, ServerInv
  <1> QED BY <1>5, <1>6, <1>7 DEF ServerInv

\* The server's and the clients' parts keep when theirs do not change.
LEMMA ServerStays == ServerInv /\ UNCHANGED server => ServerInv'
  <1> QED BY DEF ServerInv, server, GameAgrees, Live

LEMMA ClientStays == ClientInv /\ UNCHANGED <<client, port>> => ClientInv'
  <1> QED BY DEF ClientInv

-----------------------------------------------------------------------------
(* One lemma per action: packets that reach the server. *)

LEMMA GetChallengeStep ==
    ASSUME IInv, NEW adr \in Port, SV_GetChallenge(adr)
    PROVE  /\ ServerInv' /\ toClient' \in [Client -> Seq(Answer)]
           /\ \A c \in Client : Len(toClient'[c]) <= MaxInFlight
  <1>1. ServerInv /\ NetInv
    BY DEF IInv
  <1>2. CASE issued = MaxIssued /\ UNCHANGED <<server, toClient>>
    <2>1. ServerInv'
      BY <1>1, <1>2, ServerStays
    <2> QED BY <2>1, <1>1, <1>2 DEF NetInv
  <1>3. ASSUME issued < MaxIssued, issued' = issued + 1, NEW e, NEW time \in 0..MaxIssued,
               challenges' = [challenges EXCEPT ![e] =
                   [adr |-> adr, number |-> issued + 1, connected |-> FALSE,
                    wasrefused |-> FALSE, time |-> time]],
               UNCHANGED <<slots, game>>
        PROVE  ServerInv'
    <2>1. issued + 1 \in 0..MaxIssued
      BY <1>1, <1>3, ConnectionAssumption DEF ServerInv
    <2>2. [adr |-> adr, number |-> issued + 1, connected |-> FALSE, wasrefused |-> FALSE,
           time |-> time] \in EntryRec
      BY <2>1 DEF EntryRec
    <2>3. challenges' \in [Entry -> EntryRec]
      BY <1>1, <1>3, <2>2 DEF ServerInv
    <2> QED BY <1>1, <1>3, <2>1, <2>3 DEF ServerInv, GameAgrees, Live
  <1>4. CASE ~(issued = MaxIssued /\ UNCHANGED <<server, toClient>>)
    <2> DEFINE e     == EntryFor(adr)
               reuse == ~challenges[e].connected /\ challenges[e].adr = adr
               entry == [adr |-> adr, number |-> issued + 1, connected |-> FALSE,
                         wasrefused |-> FALSE,
                         time |-> IF reuse THEN challenges[e].time ELSE issued + 1]
    <2>1. /\ issued < MaxIssued /\ issued' = issued + 1
          /\ challenges' = [challenges EXCEPT ![e] = entry]
          /\ Reply(adr, [kind |-> "challengeResponse", challenge |-> issued + 1])
          /\ UNCHANGED <<slots, game>>
      BY <1>4 DEF SV_GetChallenge
    <2>2. issued + 1 \in 1..MaxIssued
      BY <1>1, <2>1, ConnectionAssumption DEF ServerInv
    <2>3. [kind |-> "challengeResponse", challenge |-> issued + 1] \in Answer
      BY <2>2 DEF Answer
    <2>4. /\ toClient' \in [Client -> Seq(Answer)]
          /\ \A c \in Client : Len(toClient'[c]) <= MaxInFlight
      BY <1>1, <2>1, <2>3, ReplyKeeps
    <2> HIDE DEF e
    <2>5. CASE e \in Entry
      <3>1. (IF reuse THEN challenges[e].time ELSE issued + 1) \in 0..MaxIssued
        BY <1>1, <2>2, <2>5 DEF ServerInv, EntryRec
      <3> QED BY <1>3, <2>1, <2>4, <3>1
    <2>6. CASE e \notin Entry
      <3>1. challenges' = challenges /\ issued' \in 0..MaxIssued
        BY <1>1, <2>1, <2>2, <2>6 DEF ServerInv
      <3> QED BY <1>1, <2>1, <2>4, <3>1 DEF ServerInv, GameAgrees, Live
    <2> QED BY <2>5, <2>6
  <1> QED BY <1>2, <1>4

\* The slot a connect is given is one that it may be given.
LEMMA SlotGiven ==
    ASSUME NEW adr, NEW qport, SlotsFor(adr, qport) # {}
    PROVE  Min(SlotsFor(adr, qport)) \in SlotsFor(adr, qport)
  <1>1. SlotsFor(adr, qport) \in SUBSET (1..MAXCLIENTS)
    BY DEF SlotsFor, Slot
  <1> QED BY <1>1, FirstOf, ConnectionAssumption

LEMMA EnterStep ==
    ASSUME IInv, UNCHANGED issued, NEW e, NEW adr \in Port, NEW c \in Client, NEW number \in 0..MaxIssued,
           Enter(e, adr, c, number)
    PROVE  /\ ServerInv' /\ toClient' \in [Client -> Seq(Answer)]
           /\ \A d \in Client : Len(toClient'[d]) <= MaxInFlight
  <1> DEFINE i == Min(SlotsFor(adr, c))
  <1>1. ServerInv /\ NetInv
    BY DEF IInv
  <1>2. challenges' \in [Entry -> EntryRec]
    BY ZenonT(30), <1>1 DEF Enter, ServerInv, EntryRec
  <1>3. CASE Refused
    BY <1>1, <1>2, <1>3 DEF Refused, ServerInv, NetInv, GameAgrees, Live
  <1>4. CASE SlotsFor(adr, c) # {} /\ Deny(i)
    <2>1. i \in SlotsFor(adr, c) /\ i \in Slot
      BY <1>4, SlotGiven DEF SlotsFor
    <2> HIDE DEF i
    <2>2. /\ slots' = [slots EXCEPT ![i] = NoSlot] /\ UNCHANGED toClient
          /\ game' = [game EXCEPT ![i] = "disconnected"]
      BY <1>4 DEF Deny
    <2> QED BY <1>1, <1>2, <2>1, <2>2, NoSlotIsSlot
            DEF ServerInv, NetInv, GameAgrees, Live
  <1>5. CASE SlotsFor(adr, c) # {} /\ Admit(i, adr, c, number)
    <2>1. i \in SlotsFor(adr, c) /\ i \in Slot
      BY <1>5, SlotGiven DEF SlotsFor
    <2> HIDE DEF i
    <2> DEFINE new == [state |-> "connected", adr |-> adr, qport |-> c, challenge |-> number,
                       heard |-> TRUE, told |-> FALSE]
    <2>2. /\ slots' = [slots EXCEPT ![i] = new] /\ game' = [game EXCEPT ![i] = "connecting"]
          /\ Reply(adr, [kind |-> "connectResponse"])
      BY <1>5 DEF Admit
    <2>3. new \in SlotRec /\ new.state = "connected" /\ new.qport = c
      BY DEF SlotRec
    <2> HIDE DEF new
    <2>4. /\ toClient' \in [Client -> Seq(Answer)]
          /\ \A d \in Client : Len(toClient'[d]) <= MaxInFlight
      <3>1. [kind |-> "connectResponse"] \in Answer
        BY DEF Answer
      <3> QED BY <1>1, <2>2, <3>1, ReplyKeeps
    <2>5. slots' \in [Slot -> SlotRec] /\ GameAgrees'
          /\ game' \in [Slot -> {"disconnected", "connecting", "connected"}]
      BY <1>1, <2>1, <2>2, <2>3 DEF ServerInv, GameAgrees, Live
    <2> QED BY <1>1, <1>2, <2>4, <2>5 DEF ServerInv
  <1> QED BY <1>3, <1>4, <1>5 DEF Enter

LEMMA DirectConnectStep ==
    ASSUME IInv, NEW adr \in Port, NEW c \in Client, NEW number \in 0..MaxIssued,
           SV_DirectConnect(adr, c, number)
    PROVE  /\ ServerInv' /\ toClient' \in [Client -> Seq(Answer)]
           /\ \A d \in Client : Len(toClient'[d]) <= MaxInFlight
  <1> DEFINE e == Min(Proofs(adr, number))
  <1>1. ServerInv /\ NetInv /\ UNCHANGED issued
    BY DEF IInv, SV_DirectConnect
  <1>2. CASE Enter(e, adr, c, number)
    BY <1>1, <1>2, EnterStep
  <1>3. CASE Refused /\ challenges' \in [Entry -> EntryRec]
    BY <1>1, <1>3 DEF Refused, ServerInv, NetInv, GameAgrees, Live
  <1>4. CASE Refused /\ challenges' = [challenges EXCEPT ![e].wasrefused = TRUE]
    <2>1. challenges' \in [Entry -> EntryRec]
      BY ZenonT(30), <1>1, <1>4 DEF ServerInv, EntryRec
    <2> QED BY <1>3, <1>4, <2>1
  <1>5. CASE Refused /\ UNCHANGED challenges
    BY <1>1, <1>3, <1>5 DEF ServerInv
  <1> QED BY <1>2, <1>4, <1>5 DEF SV_DirectConnect

\* The slot of a netchan packet is one that is not free.
LEMMA SlotFound ==
    ASSUME NEW qport, {i \in Slot : slots[i].state # "free" /\ slots[i].qport = qport} # {}
    PROVE  LET i == Min({j \in Slot : slots[j].state # "free" /\ slots[j].qport = qport})
           IN  i \in Slot /\ slots[i].state # "free" /\ slots[i].qport = qport
  <1> DEFINE found == {j \in Slot : slots[j].state # "free" /\ slots[j].qport = qport}
  <1>1. found \in SUBSET (1..MAXCLIENTS)
    BY DEF Slot
  <1>2. Min(found) \in found
    BY <1>1, FirstOf, ConnectionAssumption
  <1> QED BY <1>2

LEMMA ExecuteStep ==
    ASSUME ServerInv, UNCHANGED issued, NEW i \in Slot, Live(slots[i]), NEW packet \in Request,
           SV_ExecuteClientMessage(i, packet)
    PROVE  ServerInv'
  <1>1. packet.adr \in Port /\ slots[i].state # "free"
    BY DEF Request, Live
  <1>2. CASE \E state \in After(slots[i].state) \cup {slots[i].state} :
                HeardIn(i, packet.adr, state)
    BY <1>1, <1>2, HeardInKeeps
  <1>3. CASE DropTo(i, packet.adr, "zombie")
    BY <1>1, <1>3, DropToKeeps
  <1>4. CASE slots' = [slots EXCEPT ![i].adr = packet.adr] /\ UNCHANGED <<game, challenges>>
    BY <1>1, <1>4 DEF ServerInv, SlotRec, GameAgrees, Live
  <1> QED BY <1>2, <1>3, <1>4 DEF SV_ExecuteClientMessage

LEMMA SequencedPacketStep ==
    ASSUME IInv, NEW packet \in Request, NEW c \in Client, SV_SequencedPacket(packet, c)
    PROVE  /\ ServerInv' /\ toClient' \in [Client -> Seq(Answer)]
           /\ \A d \in Client : Len(toClient'[d]) <= MaxInFlight
  <1> DEFINE found == {j \in Slot : slots[j].state # "free" /\ slots[j].qport = c}
             i     == Min(found)
  <1>1. ServerInv /\ NetInv /\ UNCHANGED issued /\ packet.adr \in Port
    BY DEF IInv, SV_SequencedPacket, Request
  <1>2. CASE found = {}
    <2>1. /\ Reply(packet.adr, [kind |-> "oobDisconnect"])
          /\ UNCHANGED <<slots, game, challenges>>
      BY <1>2 DEF SV_SequencedPacket
    <2>2. [kind |-> "oobDisconnect"] \in Answer
      BY DEF Answer
    <2>3. ServerInv'
      BY <1>1, <2>1 DEF ServerInv, GameAgrees, Live
    <2> QED BY <1>1, <2>1, <2>2, <2>3, ReplyKeeps
  <1>3. CASE found # {}
    <2>1. i \in Slot /\ slots[i].state # "free"
      BY <1>3, SlotFound
    <2>2. /\ UNCHANGED toClient
          /\ \/ Live(slots[i]) /\ SV_ExecuteClientMessage(i, packet)
             \/ ~Live(slots[i]) /\ slots' = [slots EXCEPT ![i].adr = packet.adr]
                /\ UNCHANGED <<game, challenges>>
      BY <1>3 DEF SV_SequencedPacket
    <2> HIDE DEF i
    <2>3. ServerInv'
      <3>1. CASE Live(slots[i]) /\ SV_ExecuteClientMessage(i, packet)
        BY <1>1, <2>1, <3>1, ExecuteStep
      <3>2. CASE slots' = [slots EXCEPT ![i].adr = packet.adr] /\ UNCHANGED <<game, challenges>>
        BY <1>1, <2>1, <3>2 DEF ServerInv, SlotRec, GameAgrees, Live
      <3> QED BY <2>2, <3>1, <3>2
    <2> QED BY <1>1, <2>2, <2>3 DEF NetInv
  <1> QED BY <1>2, <1>3

LEMMA ServerPacketStep ==
    ASSUME IInv, NEW c \in Client, NEW n \in DOMAIN toServer[c], SV_PacketEvent(c, n)
    PROVE  IInv'
  <1> DEFINE packet == toServer[c][n]
  <1>1. ClientInv /\ NetInv /\ UNCHANGED <<client, port>>
    BY DEF IInv, SV_PacketEvent
  <1>2. packet \in Request
    BY <1>1 DEF NetInv
  <1>3. packet.adr \in Port /\ packet.challenge \in 0..MaxIssued
    BY <1>2 DEF Request
  <1>4. /\ ServerInv' /\ toClient' \in [Client -> Seq(Answer)]
        /\ \A d \in Client : Len(toClient'[d]) <= MaxInFlight
    <2>1. CASE packet.kind = "getchallenge"
      BY <2>1, <1>3, GetChallengeStep DEF SV_PacketEvent
    <2>2. CASE packet.kind = "connect"
      BY <2>2, <1>3, DirectConnectStep DEF SV_PacketEvent
    <2>3. CASE packet.kind \notin {"getchallenge", "connect"}
      BY <2>3, <1>2, SequencedPacketStep DEF SV_PacketEvent
    <2> QED BY <2>1, <2>2, <2>3
  <1>5. /\ toServer' \in [Client -> Seq(Request)]
        /\ \A d \in Client : Len(toServer'[d]) <= MaxInFlight
    <2>1. PICK rest \in Rest(toServer[c], n) : toServer' = [toServer EXCEPT ![c] = rest]
      BY DEF SV_PacketEvent
    <2> QED BY <1>1, <2>1, RestKeeps DEF NetInv
  <1> QED BY <1>1, <1>4, <1>5, ClientStays DEF IInv, NetInv

-----------------------------------------------------------------------------
(* The clients' actions. *)

LEMMA PacketIsRequest ==
    ASSUME ClientInv, NEW c \in Client, NEW kind \in {"getchallenge", "move", "disconnect"}
    PROVE  Packet(c, kind) \in Request
  <1> QED BY DEF Packet, Request, ClientInv, ClientRec

LEMMA ConnectIsRequest ==
    ASSUME ClientInv, NEW c \in Client, client[c].state = "challenging"
    PROVE  Packet(c, "connect") \in Request
  <1> QED BY DEF Packet, Request, ClientInv, ClientRec

\* What a client may be: it knows a challenge or not, as its state says.
Sound(record) ==
    /\ record \in ClientRec
    /\ record.challenge # 0 <=> record.state \in {"challenging", "connected"}

LEMMA SoundKeeps ==
    ASSUME ClientInv, NEW c \in Client, NEW record, Sound(record),
           client' = [client EXCEPT ![c] = record], UNCHANGED port
    PROVE  ClientInv'
  <1> QED BY DEF ClientInv, Sound

LEMMA DisconnectKeeps ==
    ASSUME IInv, NEW c \in Client, NEW record, Sound(record), CL_Disconnect(c, record),
           UNCHANGED port
    PROVE  /\ ClientInv' /\ toServer' \in [Client -> Seq(Request)]
           /\ \A d \in Client : Len(toServer'[d]) <= MaxInFlight
  <1> DEFINE sent == Send(toServer[c], Packet(c, "disconnect"))
  <1>1. ClientInv /\ NetInv
    BY DEF IInv
  <1>2. ClientInv'
    BY <1>1, SoundKeeps DEF CL_Disconnect
  <1>3. sent \in Seq(Request) /\ Len(sent) <= MaxInFlight
    BY <1>1, PacketIsRequest, SendEffect DEF NetInv
  <1>4. toServer' = [toServer EXCEPT ![c] = sent] \/ toServer' = toServer
    BY DEF CL_Disconnect
  <1> HIDE DEF sent
  <1> QED BY <1>1, <1>2, <1>3, <1>4 DEF NetInv

LEMMA NobodyIsSound == Sound(Nobody) /\ Sound([Nobody EXCEPT !.state = "connecting"])
  <1>1. 0 \in 0..MaxIssued
    BY ConnectionAssumption
  <1>2. Nobody \in ClientRec /\ [Nobody EXCEPT !.state = "connecting"] \in ClientRec
    BY <1>1 DEF Nobody, ClientRec
  <1> QED BY <1>2 DEF Nobody, Sound

LEMMA ChallengedIsSound ==
    ASSUME NEW r, Sound(r), NEW number \in 1..MaxIssued
    PROVE  Sound(Challenged(r, number))
  <1>1. number \in 0..MaxIssued /\ number # 0
    BY ConnectionAssumption
  <1>2. r \in ClientRec
    BY DEF Sound
  <1>3. /\ Challenged(r, number) \in ClientRec
        /\ Challenged(r, number).state = "challenging"
        /\ Challenged(r, number).challenge = number
    BY <1>1, <1>2 DEF Challenged, ClientRec
  <1> QED BY <1>1, <1>3 DEF Sound

\* The commands of the user, and CL_CheckTimeout.
LEMMA ClientCommandStep ==
    ASSUME IInv, NEW c \in Client,
           CL_Connect_f(c) \/ CL_Disconnect_f(c) \/ CL_CheckTimeout(c)
    PROVE  IInv'
  <1>1. /\ ServerInv /\ NetInv /\ UNCHANGED <<server, port, toClient>>
        /\ \/ CL_Disconnect(c, Nobody)
           \/ CL_Disconnect(c, [Nobody EXCEPT !.state = "connecting"])
    BY DEF IInv, CL_Connect_f, CL_Disconnect_f, CL_CheckTimeout
  <1>2. /\ ClientInv' /\ toServer' \in [Client -> Seq(Request)]
        /\ \A d \in Client : Len(toServer'[d]) <= MaxInFlight
    BY <1>1, NobodyIsSound, DisconnectKeeps
  <1> QED BY <1>1, <1>2, ServerStays DEF IInv, NetInv

LEMMA FrameStep ==
    ASSUME IInv, NEW c \in Client, CL_Frame(c)
    PROVE  IInv'
  <1>1. ServerInv /\ ClientInv /\ NetInv /\ UNCHANGED <<server, client, port, toClient>>
    BY DEF IInv, CL_Frame
  <1>2. PICK kind \in {"getchallenge", "connect", "move"} :
            /\ Packet(c, kind) \in Request
            /\ toServer' = [toServer EXCEPT ![c] = Append(@, Packet(c, kind))]
    <2>1. client[c].state \in {"connecting", "challenging", "connected"}
      BY <1>1 DEF CL_Frame, ClientInv, ClientRec
    <2> QED BY <1>1, <2>1, PacketIsRequest, ConnectIsRequest DEF CL_Frame
  <1>3. Len(toServer[c]) < MaxInFlight /\ MaxInFlight \in Nat
    BY ConnectionAssumption DEF CL_Frame
  <1> DEFINE sent == Append(toServer[c], Packet(c, kind))
  <1>4. sent \in Seq(Request) /\ Len(sent) = Len(toServer[c]) + 1 /\ Len(toServer[c]) \in Nat
    BY <1>1, <1>2, AppendProperties DEF NetInv
  <1>5. Len(sent) <= MaxInFlight
    BY <1>3, <1>4
  <1>6. toServer' = [toServer EXCEPT ![c] = sent]
    BY <1>2
  <1> HIDE DEF sent
  <1>7. NetInv'
    BY <1>1, <1>4, <1>5, <1>6 DEF NetInv
  <1> QED BY <1>1, <1>7, ServerStays, ClientStays DEF IInv

LEMMA ClientSilentStep ==
    ASSUME IInv, NEW c \in Client, ClientSilent(c)
    PROVE  IInv'
  <1>1. ServerInv /\ ClientInv /\ NetInv /\ UNCHANGED <<server, port, toServer, toClient>>
    BY DEF IInv, ClientSilent
  <1>2. ClientInv'
    BY <1>1 DEF ClientSilent, ClientInv, ClientRec
  <1> QED BY <1>1, <1>2, ServerStays DEF IInv, NetInv

LEMMA RebindStep ==
    ASSUME IInv, NEW c \in Client, NEW p \in Port, Rebind(c, p)
    PROVE  IInv'
  <1>1. ServerInv /\ ClientInv /\ NetInv /\ UNCHANGED <<server, client, toServer, toClient>>
    BY DEF IInv, Rebind
  <1>2. ClientInv'
    BY <1>1 DEF Rebind, ClientInv
  <1> QED BY <1>1, <1>2, ServerStays DEF IInv, NetInv

\* What a packet makes of a client: it is left, or disconnects.
LEMMA ClientPacketEffect ==
    ASSUME IInv, NEW c \in Client, NEW n \in DOMAIN toClient[c], CL_PacketEvent(c, n)
    PROVE  \/ CL_Disconnect(c, Nobody)
           \/ \E record : /\ Sound(record) /\ UNCHANGED toServer
                          /\ client' = [client EXCEPT ![c] = record]
  <1> DEFINE packet == toClient[c][n]
             r      == [client[c] EXCEPT !.heard = TRUE]
  <1>1. packet \in Answer
    BY DEF IInv, NetInv
  <1>2. client[c] \in ClientRec /\ Sound(client[c])
    BY DEF IInv, ClientInv, Sound
  <1>3. Sound(r)
    BY <1>2 DEF Sound, ClientRec
  <1>4. ASSUME NEW record, Sound(record), Become(c, record)
        PROVE  \E kept : /\ Sound(kept) /\ UNCHANGED toServer
                         /\ client' = [client EXCEPT ![c] = kept]
    <2> DEFINE kept == [record EXCEPT !.heard = record.state = "connected"]
    <2>1. Sound(kept)
      BY <1>4 DEF Sound, ClientRec
    <2> QED BY <1>4, <2>1 DEF Become
  <1>5. CASE packet.kind = "challengeResponse" /\ r.state = "connecting"
             /\ Become(c, Challenged(r, packet.challenge))
    <2>1. packet.challenge \in 1..MaxIssued
      BY <1>1, <1>5 DEF Answer
    <2>2. Sound(Challenged(r, packet.challenge))
      BY <1>3, <2>1, ChallengedIsSound
    <2> QED BY <1>4, <1>5, <2>2
  <1>6. CASE AwaitsConnect(r) /\ Become(c, [r EXCEPT !.state = "connected"])
    <2>1. Sound([r EXCEPT !.state = "connected"])
      BY <1>3, <1>6 DEF Sound, AwaitsConnect, ClientRec
    <2> QED BY <1>4, <1>6, <2>1
  <1>7. CASE Become(c, r)
    BY <1>3, <1>4, <1>7
  <1>8. CASE packet.kind = "message" /\ CL_ParseServerMessage(c, r, packet)
    BY <1>7, <1>8 DEF CL_ParseServerMessage
  <1>9. CASE packet.kind # "message" /\ CL_ConnectionlessPacket(c, r, packet)
    BY <1>5, <1>6, <1>7, <1>9 DEF CL_ConnectionlessPacket
  <1> QED BY <1>8, <1>9 DEF CL_PacketEvent

LEMMA ClientPacketStep ==
    ASSUME IInv, NEW c \in Client, NEW n \in DOMAIN toClient[c], CL_PacketEvent(c, n)
    PROVE  IInv'
  <1>1. ServerInv /\ ClientInv /\ NetInv /\ UNCHANGED <<server, port>>
    BY DEF IInv, CL_PacketEvent
  <1>2. /\ ClientInv' /\ toServer' \in [Client -> Seq(Request)]
        /\ \A d \in Client : Len(toServer'[d]) <= MaxInFlight
    <2>1. CASE CL_Disconnect(c, Nobody)
      BY <1>1, <2>1, NobodyIsSound, DisconnectKeeps
    <2>2. CASE \E record : /\ Sound(record) /\ UNCHANGED toServer
                           /\ client' = [client EXCEPT ![c] = record]
      BY <1>1, <2>2, SoundKeeps DEF NetInv
    <2> QED BY <2>1, <2>2, ClientPacketEffect
  <1>3. /\ toClient' \in [Client -> Seq(Answer)]
        /\ \A d \in Client : Len(toClient'[d]) <= MaxInFlight
    <2>1. PICK rest \in Rest(toClient[c], n) : toClient' = [toClient EXCEPT ![c] = rest]
      BY DEF CL_PacketEvent
    <2> QED BY <1>1, <2>1, RestKeeps DEF NetInv
  <1> QED BY <1>1, <1>2, <1>3, ServerStays DEF IInv, NetInv

-----------------------------------------------------------------------------
(* The server's frame. *)

LEMMA SendMessagesStep ==
    ASSUME IInv, NEW i \in Slot, SV_SendClientMessages(i)
    PROVE  IInv'
  <1>1. ServerInv /\ ClientInv /\ NetInv /\ UNCHANGED <<server, client, port, toServer>>
    BY DEF IInv, SV_SendClientMessages
  <1> DEFINE message == [kind |-> "message", challenge |-> slots[i].challenge,
                         last |-> slots[i].told]
  <1>2. message \in Answer
    BY <1>1 DEF ServerInv, SlotRec, Answer
  <1>3. Reply(slots[i].adr, message)
    BY DEF SV_SendClientMessages
  <1>4. NetInv'
    BY <1>1, <1>2, <1>3, ReplyKeeps DEF NetInv
  <1> QED BY <1>1, <1>4, ServerStays, ClientStays DEF IInv

\* SV_CheckTimeouts, SlotSilent, and a kick.
LEMMA SlotStep ==
    ASSUME IInv, NEW i \in Slot, SV_CheckTimeouts(i) \/ Kick(i) \/ SlotSilent(i)
    PROVE  IInv'
  <1>1. /\ ServerInv /\ ClientInv /\ NetInv
        /\ UNCHANGED <<issued, client, port, toServer, toClient>>
    BY DEF IInv, SV_CheckTimeouts, Kick, SlotSilent
  <1>2. slots[i] \in SlotRec /\ slots[i].adr \in Port \cup {0}
    BY <1>1 DEF ServerInv, SlotRec
  <1>3. ServerInv'
    <2>1. CASE Live(slots[i]) /\ \E state \in {"free", "zombie"} : DropTo(i, slots[i].adr, state)
      <3>1. slots[i].state # "free"
        BY <2>1 DEF Live
      <3> QED BY <1>1, <1>2, <2>1, <3>1, DropToKeeps
    <2>2. CASE /\ slots[i].state = "zombie" /\ slots' = [slots EXCEPT ![i] = NoSlot]
               /\ UNCHANGED <<game, challenges>>
      BY <1>1, <2>2, NoSlotIsSlot DEF ServerInv, GameAgrees, Live
    <2>3. CASE SlotSilent(i)
      BY ZenonT(30), <1>1, <2>3 DEF SlotSilent, ServerInv, SlotRec, GameAgrees, Live
    <2> QED BY <2>1, <2>2, <2>3 DEF SV_CheckTimeouts, Kick
  <1> QED BY <1>1, <1>3, ClientStays DEF IInv, NetInv

-----------------------------------------------------------------------------
(* Whatever the network and the router do: the invariant. *)

LEMMA InitIInv == Init => IInv
  <1> SUFFICES ASSUME Init PROVE IInv
    OBVIOUS
  <1>1. 0 \in 0..MaxIssued /\ MaxInFlight \in Nat
    BY ConnectionAssumption
  <1>2. ServerInv
    <2>1. NoEntry \in EntryRec
      BY <1>1 DEF NoEntry, EntryRec
    <2> QED BY <1>1, <2>1, NoSlotIsSlot DEF Init, ServerInv, GameAgrees, Live
  <1>3. ClientInv
    BY <1>1, ConnectionAssumption DEF Init, ClientInv, ClientRec
  <1>4. NetInv
    BY <1>1, EmptySeq DEF Init, NetInv
  <1> QED BY <1>2, <1>3, <1>4 DEF IInv

LEMMA NextIInv == IInv /\ [Next]_vars => IInv'
  <1> SUFFICES ASSUME IInv, [Next]_vars PROVE IInv'
    OBVIOUS
  <1>1. CASE UNCHANGED vars
    BY <1>1, ServerStays, ClientStays DEF vars, server, IInv, NetInv
  <1>2. ASSUME NEW c \in Client, NEW n \in DOMAIN toServer[c], SV_PacketEvent(c, n) PROVE IInv'
    BY <1>2, ServerPacketStep
  <1>3. ASSUME NEW c \in Client, NEW n \in DOMAIN toClient[c], CL_PacketEvent(c, n) PROVE IInv'
    BY <1>3, ClientPacketStep
  <1>4. ASSUME NEW c \in Client, CL_Connect_f(c) \/ CL_Disconnect_f(c) \/ CL_CheckTimeout(c)
        PROVE IInv'
    BY <1>4, ClientCommandStep
  <1>5. ASSUME NEW c \in Client, CL_Frame(c) PROVE IInv'
    BY <1>5, FrameStep
  <1>6. ASSUME NEW c \in Client, ClientSilent(c) PROVE IInv'
    BY <1>6, ClientSilentStep
  <1>7. ASSUME NEW c \in Client, NEW p \in Port, Rebind(c, p) PROVE IInv'
    BY <1>7, RebindStep
  <1>8. ASSUME NEW i \in Slot, SV_SendClientMessages(i) PROVE IInv'
    BY <1>8, SendMessagesStep
  <1>9. ASSUME NEW i \in Slot, SV_CheckTimeouts(i) \/ Kick(i) \/ SlotSilent(i) PROVE IInv'
    BY <1>9, SlotStep
  <1> QED BY <1>1, <1>2, <1>3, <1>4, <1>5, <1>6, <1>7, <1>8, <1>9 DEF Next

\* The invariant holds whatever the network loses, delays and doubles, and
\* whichever port a client's packets come from.
THEOREM Inductive == Spec => []IInv
  <1> QED BY InitIInv, NextIInv, PTL DEF Spec

\* Engine and game agree on who plays (the run connection_disorder checks it):
\* the game has a player exactly in the live slots, in the world in the active.
THEOREM GameAndEngine == Spec => []GameAgrees
  <1>1. IInv => GameAgrees
    BY DEF IInv, ServerInv
  <1> QED BY Inductive, <1>1, PTL

\* The tables keep their types, the queues their bound, and a client knows a
\* challenge when it is waiting for an answer to it or has had it.
THEOREM TypeCorrect == Spec => []TypeOK
  <1>1. IInv => TypeOK
    BY DEF IInv, ServerInv, ClientInv, NetInv, TypeOK, SlotRec, EntryRec, ClientRec
  <1> QED BY Inductive, <1>1, PTL

-----------------------------------------------------------------------------
(* While the router keeps the ports: whose the slots are. *)

\* Nobody gets a slot in this step, and who keeps one keeps its challenge.
SlotsStay ==
    \A i \in Slot : slots'[i].state # "free" =>
        /\ slots[i].state # "free"
        /\ slots'[i].qport = slots[i].qport /\ slots'[i].challenge = slots[i].challenge
        /\ slots'[i].adr \in {slots[i].adr, FirstPort[slots[i].qport]}

\* Client c gets slot i with challenge number in this step.
Gets(c, i, number) ==
    /\ i \in SlotsFor(FirstPort[c], c)
    /\ slots' = [slots EXCEPT ![i] =
           [state |-> "connected", adr |-> FirstPort[c], qport |-> c, challenge |-> number,
            heard |-> TRUE, told |-> FALSE]]

\* The slots a client would be found in are those it has.
LEMMA OwnSlots ==
    ASSUME AddressInv, NEW c \in Client, NEW i \in Slot
    PROVE  Same(i, FirstPort[c], c) <=> slots[i].state # "free" /\ slots[i].qport = c
  <1>1. ASSUME slots[i].state # "free", slots[i].adr = FirstPort[c] PROVE slots[i].qport = c
    <2>1. slots[i].qport \in Client /\ FirstPort[slots[i].qport] = FirstPort[c]
      BY <1>1 DEF AddressInv
    <2> QED BY <2>1, ConnectionAssumption
  <1> QED BY <1>1 DEF Same

\* Whether they stay or one is got, slots are held by their owners, one each.
LEMMA StayKeepsOwn ==
    ASSUME AddressInv, OneSlotEach, ReservedForTrusted, SlotsStay
    PROVE  /\ \A i \in Slot : slots'[i].state # "free" =>
                 slots'[i].qport \in Client /\ slots'[i].adr = FirstPort[slots'[i].qport]
           /\ OneSlotEach' /\ ReservedForTrusted'
  <1>1. \A i \in Slot : slots'[i].state # "free" =>
           slots'[i].qport \in Client /\ slots'[i].adr = FirstPort[slots'[i].qport]
    BY DEF AddressInv, SlotsStay
  <1>2. OneSlotEach'
    BY DEF OneSlotEach, SlotsStay
  <1>3. ReservedForTrusted'
    BY ConnectionAssumption DEF ReservedForTrusted, SlotsStay, Slot
  <1> QED BY <1>1, <1>2, <1>3

LEMMA GetKeepsOwn ==
    ASSUME ServerInv, AddressInv, OneSlotEach, ReservedForTrusted,
           NEW c \in Client, NEW i \in Slot, NEW number, Gets(c, i, number)
    PROVE  /\ \A j \in Slot : slots'[j].state # "free" =>
                 slots'[j].qport \in Client /\ slots'[j].adr = FirstPort[slots'[j].qport]
           /\ OneSlotEach' /\ ReservedForTrusted'
           /\ slots[i].state # "free" => slots[i].qport = c
           /\ \A j \in Slot : j # i => ~(slots[j].state # "free" /\ slots[j].qport = c)
  <1> DEFINE own == {j \in Slot : Same(j, FirstPort[c], c)}
  <1>1. /\ slots'[i].state = "connected" /\ slots'[i].adr = FirstPort[c] /\ slots'[i].qport = c
        /\ \A j \in Slot : j # i => slots'[j] = slots[j]
    BY DEF Gets, ServerInv
  <1>2. \A j \in Slot : j \in own <=> slots[j].state # "free" /\ slots[j].qport = c
    BY OwnSlots
  <1>3. \/ i \in own
        \/ own = {} /\ slots[i].state = "free" /\ (c \in Trusted \/ i \notin 1..PrivateClients)
    BY DEF Gets, SlotsFor
  <1> HIDE DEF own
  <1>4. slots[i].state # "free" => slots[i].qport = c
    BY <1>2, <1>3
  <1>5. \A j \in Slot : j # i => ~(slots[j].state # "free" /\ slots[j].qport = c)
    BY <1>2, <1>3 DEF OneSlotEach
  <1>6. \A j \in Slot : slots'[j].state # "free" =>
           slots'[j].qport \in Client /\ slots'[j].adr = FirstPort[slots'[j].qport]
    BY <1>1 DEF AddressInv
  <1>7. OneSlotEach'
    BY <1>1, <1>5 DEF OneSlotEach
  <1>8. i \in 1..PrivateClients => c \in Trusted
    BY <1>2, <1>3 DEF ReservedForTrusted
  <1>9. 1..PrivateClients \subseteq Slot
    BY ConnectionAssumption DEF Slot
  <1>10. ReservedForTrusted'
    BY <1>1, <1>8, <1>9 DEF ReservedForTrusted
  <1> QED BY <1>4, <1>5, <1>6, <1>7, <1>10

LEMMA DropToStays ==
    ASSUME ServerInv, NEW i \in Slot, NEW adr \in {slots[i].adr, FirstPort[slots[i].qport]},
           NEW state \in {"free", "zombie"}, slots[i].state # "free", DropTo(i, adr, state)
    PROVE  SlotsStay
  <1> DEFINE left == IF state = "free" THEN NoSlot
                     ELSE [slots[i] EXCEPT !.state = state, !.adr = adr, !.heard = FALSE,
                                           !.told = slots[i].state # "connected"]
  <1>1. /\ left.state # "free" =>
              left.qport = slots[i].qport /\ left.challenge = slots[i].challenge /\ left.adr = adr
    BY DEF ServerInv, SlotRec, NoSlot
  <1>2. slots' = [slots EXCEPT ![i] = left]
    BY DEF DropTo
  <1> HIDE DEF left
  <1>3. \A j \in Slot : slots'[j] = IF j = i THEN left ELSE slots[j]
    BY <1>2 DEF ServerInv
  <1> QED BY <1>1, <1>3 DEF SlotsStay

\* A slot whose state changes, as it does with a packet of its client, stays.
LEMMA HeardInStays ==
    ASSUME ServerInv, NEW i \in Slot, NEW adr, adr = FirstPort[slots[i].qport],
           slots[i].state # "free", NEW state, HeardIn(i, adr, state)
    PROVE  SlotsStay
  <1> DEFINE heard == [slots[i] EXCEPT !.state = state, !.adr = adr, !.heard = TRUE]
  <1>1. heard.qport = slots[i].qport /\ heard.challenge = slots[i].challenge /\ heard.adr = adr
    BY DEF ServerInv, SlotRec
  <1>2. slots' = [slots EXCEPT ![i] = heard]
    BY DEF HeardIn, ServerInv
  <1> HIDE DEF heard
  <1>3. \A j \in Slot : slots'[j] = IF j = i THEN heard ELSE slots[j]
    BY <1>2 DEF ServerInv
  <1> QED BY <1>1, <1>3 DEF SlotsStay

LEMMA ReaddressStays ==
    ASSUME ServerInv, NEW i \in Slot, NEW adr, adr = FirstPort[slots[i].qport],
           slots[i].state # "free", slots' = [slots EXCEPT ![i].adr = adr]
    PROVE  SlotsStay
  <1> QED BY DEF ServerInv, SlotRec, SlotsStay

\* What a packet of the netchan does to the slots.
LEMMA SequencedPacketStays ==
    ASSUME IInv, NEW packet \in Request, NEW c \in Client, packet.adr = FirstPort[c],
           SV_SequencedPacket(packet, c)
    PROVE  SlotsStay
  <1> DEFINE found == {j \in Slot : slots[j].state # "free" /\ slots[j].qport = c}
             i     == Min(found)
  <1>1. ServerInv
    BY DEF IInv
  <1>2. CASE UNCHANGED slots
    BY <1>2 DEF SlotsStay
  <1>3. CASE found # {}
    <2>1. i \in Slot /\ slots[i].state # "free" /\ slots[i].qport = c
      BY <1>3, SlotFound
    <2>2. \/ SV_ExecuteClientMessage(i, packet)
          \/ slots' = [slots EXCEPT ![i].adr = packet.adr]
      BY <1>3 DEF SV_SequencedPacket
    <2> HIDE DEF i
    <2>3. CASE slots' = [slots EXCEPT ![i].adr = packet.adr]
      BY <1>1, <2>1, <2>3, ReaddressStays
    <2>4. CASE \E state : HeardIn(i, packet.adr, state)
      BY <1>1, <2>1, <2>4, HeardInStays
    <2>5. CASE DropTo(i, packet.adr, "zombie")
      BY <1>1, <2>1, <2>5, DropToStays
    <2> QED BY <2>2, <2>3, <2>4, <2>5 DEF SV_ExecuteClientMessage
  <1>4. CASE found = {}
    BY <1>2, <1>4 DEF SV_SequencedPacket
  <1> QED BY <1>3, <1>4

\* What a connect does: nobody gets a slot, or the client does.
LEMMA DirectConnectGives ==
    ASSUME IInv, NEW c \in Client, NEW number, SV_DirectConnect(FirstPort[c], c, number)
    PROVE  \/ SlotsStay
           \/ \E i \in Slot : Gets(c, i, number)
  <1> DEFINE adr == FirstPort[c]
             i   == Min(SlotsFor(adr, c))
             e   == Min(Proofs(adr, number))
  <1>1. ServerInv
    BY DEF IInv
  <1>2. CASE UNCHANGED slots
    BY <1>2 DEF SlotsStay
  <1>3. CASE SlotsFor(adr, c) # {} /\ Deny(i)
    BY <1>1, <1>3 DEF Deny, SlotsStay, ServerInv, NoSlot
  <1>4. CASE SlotsFor(adr, c) # {} /\ Admit(i, adr, c, number)
    <2>1. i \in SlotsFor(adr, c) /\ i \in Slot
      BY <1>4, SlotGiven DEF SlotsFor
    <2> QED BY <1>4, <2>1 DEF Admit, Gets
  <1>5. CASE Enter(e, adr, c, number)
    BY <1>2, <1>3, <1>4, <1>5 DEF Enter, Refused
  <1> QED BY <1>2, <1>5 DEF SV_DirectConnect, Refused

\* What is in a queue when a packet of it has arrived was in it before.
LEMMA RestFrom ==
    ASSUME NEW T, NEW f \in [Client -> Seq(T)], NEW c \in Client, NEW n \in DOMAIN f[c],
           NEW rest \in Rest(f[c], n)
    PROVE  LET g == [f EXCEPT ![c] = rest]
           IN  \A d \in Client : \A j \in DOMAIN g[d] : \E k \in DOMAIN f[d] : g[d][j] = f[d][k]
  <1>2. f[c] \in Seq(T) /\ n \in 1..Len(f[c])
    OBVIOUS
  <1>3. /\ rest \in Seq(T)
        /\ \A j \in 1..Len(rest) : \E k \in 1..Len(f[c]) : rest[j] = f[c][k]
    BY <1>2, RestOfQueue
  <1>4. \A d \in Client : [f EXCEPT ![c] = rest][d] = IF d = c THEN rest ELSE f[d]
    OBVIOUS
  <1>5. DOMAIN f[c] = 1..Len(f[c]) /\ DOMAIN rest = 1..Len(rest)
    BY <1>2, <1>3
  <1> DEFINE g == [f EXCEPT ![c] = rest]
  <1>6. \A d \in Client : g[d] = IF d = c THEN rest ELSE f[d]
    BY <1>4
  <1> HIDE DEF g
  <1>7. ASSUME NEW d \in Client, NEW j \in DOMAIN g[d]
        PROVE  \E k \in DOMAIN f[d] : g[d][j] = f[d][k]
    <2>1. CASE d = c
      <3>1. j \in 1..Len(rest) /\ g[d][j] = rest[j]
        BY <1>5, <1>6, <1>7, <2>1
      <3> QED BY <1>3, <1>5, <2>1, <3>1
    <2>2. CASE d # c
      <3>1. g[d] = f[d]
        BY <1>6, <2>2
      <3> QED BY <3>1, <1>7
    <2> QED BY <2>1, <2>2
  <1> QED BY <1>7 DEF g

\* Where what client c sends goes: its queue gets the packet, or loses it.
LEMMA ClientSends ==
    ASSUME IInv, NEW c \in Client, NEW packet \in Request, NEW f,
           f \in {Append(toServer[c], packet), Send(toServer[c], packet)},
           toServer' = [toServer EXCEPT ![c] = f]
    PROVE  /\ \A d \in Client : d # c => toServer'[d] = toServer[d]
           /\ \/ toServer'[c] = toServer[c]
              \/ /\ Len(toServer'[c]) = Len(toServer[c]) + 1
                 /\ \A j \in 1..Len(toServer[c]) : toServer'[c][j] = toServer[c][j]
                 /\ toServer'[c][Len(toServer[c]) + 1] = packet
  <1>1. toServer \in [Client -> Seq(Request)] /\ toServer[c] \in Seq(Request)
    BY DEF IInv, NetInv
  <1>2. toServer'[c] = f /\ \A d \in Client : d # c => toServer'[d] = toServer[d]
    BY <1>1
  <1>3. CASE f = Append(toServer[c], packet)
    BY <1>1, <1>2, <1>3, AppendProperties
  <1>4. CASE f = toServer[c]
    BY <1>2, <1>4
  <1> QED BY <1>2, <1>3, <1>4 DEF Send

\* Every client action puts one packet of the client in its queue, or none.
LEMMA ClientSendsOne ==
    ASSUME IInv, NEW c \in Client,
           \/ CL_Connect_f(c) \/ CL_Disconnect_f(c) \/ CL_Frame(c) \/ CL_CheckTimeout(c)
           \/ ClientSilent(c) \/ \E n \in DOMAIN toClient[c] : CL_PacketEvent(c, n)
    PROVE  /\ \A d \in Client : d # c => toServer'[d] = toServer[d]
           /\ \/ toServer'[c] = toServer[c]
              \/ \E packet \in Request :
                    /\ packet.adr = port[c]
                    /\ Len(toServer'[c]) = Len(toServer[c]) + 1
                    /\ \A j \in 1..Len(toServer[c]) : toServer'[c][j] = toServer[c][j]
                    /\ toServer'[c][Len(toServer[c]) + 1] = packet
  <1>1. ASSUME NEW kind \in {"getchallenge", "connect", "move", "disconnect"},
               Packet(c, kind) \in Request, NEW f,
               f \in {Append(toServer[c], Packet(c, kind)), Send(toServer[c], Packet(c, kind))},
               toServer' = [toServer EXCEPT ![c] = f]
        PROVE  /\ \A d \in Client : d # c => toServer'[d] = toServer[d]
               /\ \/ toServer'[c] = toServer[c]
                  \/ \E packet \in Request :
                        /\ packet.adr = port[c]
                        /\ Len(toServer'[c]) = Len(toServer[c]) + 1
                        /\ \A j \in 1..Len(toServer[c]) : toServer'[c][j] = toServer[c][j]
                        /\ toServer'[c][Len(toServer[c]) + 1] = packet
    <2>1. Packet(c, kind).adr = port[c]
      BY DEF Packet
    <2>2. PICK packet \in Request : packet = Packet(c, kind)
      BY <1>1
    <2>3. f \in {Append(toServer[c], packet), Send(toServer[c], packet)}
      BY <1>1, <2>2
    <2>4. /\ \A d \in Client : d # c => toServer'[d] = toServer[d]
          /\ \/ toServer'[c] = toServer[c]
             \/ /\ Len(toServer'[c]) = Len(toServer[c]) + 1
                /\ \A j \in 1..Len(toServer[c]) : toServer'[c][j] = toServer[c][j]
                /\ toServer'[c][Len(toServer[c]) + 1] = packet
      BY <1>1, <2>3, ClientSends
    <2> QED BY <2>1, <2>2, <2>4
  <1>2. CASE UNCHANGED toServer
    BY <1>2
  <1>3. ASSUME NEW record, CL_Disconnect(c, record)
        PROVE  \/ UNCHANGED toServer
               \/ /\ Packet(c, "disconnect") \in Request
                  /\ toServer' = [toServer EXCEPT ![c] = Send(toServer[c], Packet(c, "disconnect"))]
    BY <1>3, PacketIsRequest DEF CL_Disconnect, IInv
  <1>4. CASE \E record : CL_Disconnect(c, record)
    BY <1>1, <1>2, <1>3, <1>4
  <1>5. CASE CL_Frame(c)
    <2>1. client[c].state \in {"connecting", "challenging", "connected"}
      BY <1>5 DEF CL_Frame, IInv, ClientInv, ClientRec
    <2>2. PICK kind \in {"getchallenge", "connect", "move"} :
              /\ Packet(c, kind) \in Request
              /\ toServer' = [toServer EXCEPT ![c] = Append(@, Packet(c, kind))]
      BY <1>5, <2>1, PacketIsRequest, ConnectIsRequest DEF CL_Frame, IInv
    <2> QED BY <1>1, <2>2
  <1>6. CASE \E n \in DOMAIN toClient[c] : CL_PacketEvent(c, n)
    BY <1>2, <1>4, <1>6, ClientPacketEffect
  <1> QED BY <1>2, <1>4, <1>5, <1>6
          DEF CL_Connect_f, CL_Disconnect_f, CL_CheckTimeout, ClientSilent

\* The packets of a client come from its address.
LEMMA PacketsOwn ==
    ASSUME ~Rebinding, IInv, AddressInv, [Next]_vars
    PROVE  /\ port' = FirstPort
           /\ \A c \in Client : \A n \in DOMAIN toServer'[c] : toServer'[c][n].adr = FirstPort[c]
  <1>1. port' = port
    BY DEF Next, vars, Rebind, SV_PacketEvent, CL_PacketEvent, CL_Connect_f, CL_Disconnect_f,
           CL_Frame, CL_CheckTimeout, ClientSilent, SV_SendClientMessages, SV_CheckTimeouts,
           Kick, SlotSilent
  <1>2. CASE UNCHANGED toServer
    BY <1>1, <1>2 DEF AddressInv
  <1>3. ASSUME NEW c \in Client, NEW n \in DOMAIN toServer[c], SV_PacketEvent(c, n)
        PROVE  \A d \in Client : \A j \in DOMAIN toServer'[d] : toServer'[d][j].adr = FirstPort[d]
    <2>1. toServer \in [Client -> Seq(Request)]
      BY DEF IInv, NetInv
    <2> PICK rest \in Rest(toServer[c], n) : toServer' = [toServer EXCEPT ![c] = rest]
      BY <1>3 DEF SV_PacketEvent
    <2>2. \A d \in Client : \A j \in DOMAIN toServer'[d] :
             \E k \in DOMAIN toServer[d] : toServer'[d][j] = toServer[d][k]
      BY <2>1, RestFrom
    <2> QED BY <2>2 DEF AddressInv
  <1>4. ASSUME NEW c \in Client,
               \/ CL_Connect_f(c) \/ CL_Disconnect_f(c) \/ CL_Frame(c) \/ CL_CheckTimeout(c)
               \/ ClientSilent(c) \/ \E n \in DOMAIN toClient[c] : CL_PacketEvent(c, n)
        PROVE  \A d \in Client : \A j \in DOMAIN toServer'[d] : toServer'[d][j].adr = FirstPort[d]
    <2>1. /\ toServer[c] \in Seq(Request) /\ toServer'[c] \in Seq(Request)
      BY NextIInv DEF IInv, NetInv
    <2>2. CASE UNCHANGED toServer
      BY <2>2 DEF AddressInv
    <2>3. \A d \in Client : d # c => toServer'[d] = toServer[d]
      BY <1>4, ClientSendsOne
    <2>4. \A j \in 1..Len(toServer'[c]) : toServer'[c][j].adr = FirstPort[c]
      <3>1. \A j \in 1..Len(toServer[c]) : toServer[c][j].adr = FirstPort[c]
        BY <2>1 DEF AddressInv
      <3>2. CASE toServer'[c] = toServer[c]
        BY <3>1, <3>2
      <3>3. CASE \E packet \in Request :
                    /\ packet.adr = port[c]
                    /\ Len(toServer'[c]) = Len(toServer[c]) + 1
                    /\ \A j \in 1..Len(toServer[c]) : toServer'[c][j] = toServer[c][j]
                    /\ toServer'[c][Len(toServer[c]) + 1] = packet
        <4>1. Len(toServer[c]) \in Nat /\ port[c] = FirstPort[c]
          BY <2>1 DEF AddressInv
        <4>2. ASSUME NEW j \in 1..Len(toServer'[c])
              PROVE  j \in 1..Len(toServer[c]) \/ j = Len(toServer[c]) + 1
          BY <3>3, <4>1
        <4> QED BY <3>1, <3>3, <4>1, <4>2
      <3> QED BY <1>4, <3>2, <3>3, ClientSendsOne
    <2> QED BY <2>1, <2>3, <2>4 DEF AddressInv
  <1>5. ASSUME NEW i \in Slot,
               SV_SendClientMessages(i) \/ SV_CheckTimeouts(i) \/ Kick(i) \/ SlotSilent(i)
        PROVE  UNCHANGED toServer
    BY <1>5 DEF SV_SendClientMessages, SV_CheckTimeouts, Kick, SlotSilent
  <1>6. CASE UNCHANGED vars
    BY <1>2, <1>6 DEF vars
  <1> QED BY <1>1, <1>2, <1>3, <1>4, <1>5, <1>6 DEF Next, Rebind, AddressInv

\* What the server's own actions do to the slots.
LEMMA SlotActionStays ==
    ASSUME IInv, NEW i \in Slot, SV_CheckTimeouts(i) \/ Kick(i) \/ SlotSilent(i)
    PROVE  SlotsStay
  <1>1. ServerInv
    BY DEF IInv
  <1>2. CASE Live(slots[i]) /\ \E state \in {"free", "zombie"} : DropTo(i, slots[i].adr, state)
    BY <1>1, <1>2, DropToStays DEF Live
  <1>3. CASE slots' = [slots EXCEPT ![i] = NoSlot]
    BY <1>1, <1>3 DEF ServerInv, SlotsStay, NoSlot
  <1>4. CASE SlotSilent(i)
    BY <1>1, <1>4 DEF SlotSilent, Live, ServerInv, SlotRec, SlotsStay
  <1> QED BY <1>2, <1>3, <1>4 DEF SV_CheckTimeouts, Kick

\* What a step does to the slots.
LEMMA SlotsEffect ==
    ASSUME IInv, AddressInv, [Next]_vars
    PROVE  SlotsStay \/ \E c \in Client, i \in Slot : \E number : Gets(c, i, number)
  <1>1. ServerInv
    BY DEF IInv
  <1>2. ASSUME UNCHANGED slots PROVE SlotsStay
    BY <1>2 DEF SlotsStay
  <1>3. ASSUME NEW c \in Client, NEW n \in DOMAIN toServer[c], SV_PacketEvent(c, n)
        PROVE  SlotsStay \/ \E i \in Slot : \E number : Gets(c, i, number)
    <2> DEFINE packet == toServer[c][n]
    <2>1. packet \in Request /\ packet.adr = FirstPort[c]
      BY DEF IInv, NetInv, AddressInv
    <2>2. CASE packet.kind = "getchallenge"
      <3>1. SV_GetChallenge(packet.adr)
        BY <1>3, <2>2 DEF SV_PacketEvent
      <3>2. UNCHANGED slots
        BY <3>1 DEF SV_GetChallenge, server
      <3> QED BY <1>2, <3>2
    <2>3. CASE packet.kind = "connect"
      BY <1>3, <2>1, <2>3, DirectConnectGives DEF SV_PacketEvent
    <2>4. CASE packet.kind \notin {"getchallenge", "connect"}
      BY <1>3, <2>1, <2>4, SequencedPacketStays DEF SV_PacketEvent
    <2> QED BY <2>2, <2>3, <2>4
  <1>4. ASSUME NEW i \in Slot, SV_CheckTimeouts(i) \/ Kick(i) \/ SlotSilent(i)
        PROVE  SlotsStay
    BY <1>4, SlotActionStays
  <1>5. ASSUME NEW c \in Client,
               \/ CL_Connect_f(c) \/ CL_Disconnect_f(c) \/ CL_Frame(c) \/ CL_CheckTimeout(c)
               \/ ClientSilent(c) \/ (\E n \in DOMAIN toClient[c] : CL_PacketEvent(c, n))
               \/ \E p \in Port : Rebind(c, p)
        PROVE  UNCHANGED slots
    BY <1>5 DEF CL_Connect_f, CL_Disconnect_f, CL_Frame, CL_CheckTimeout, ClientSilent,
                CL_PacketEvent, Rebind, server
  <1>6. ASSUME NEW i \in Slot, SV_SendClientMessages(i) PROVE UNCHANGED slots
    BY <1>6 DEF SV_SendClientMessages, server
  <1> QED BY <1>2, <1>3, <1>4, <1>5, <1>6 DEF Next, vars

LEMMA InitOwn == Init => OwnInv
  <1> QED BY ConnectionAssumption
          DEF Init, OwnInv, AddressInv, OneSlotEach, ReservedForTrusted, NoSlot, Slot

LEMMA NextOwn == ~Rebinding /\ IInv /\ OwnInv /\ [Next]_vars => OwnInv'
  <1> SUFFICES ASSUME ~Rebinding, IInv, OwnInv, [Next]_vars PROVE OwnInv'
    OBVIOUS
  <1>1. /\ \A j \in Slot : slots'[j].state # "free" =>
              slots'[j].qport \in Client /\ slots'[j].adr = FirstPort[slots'[j].qport]
        /\ OneSlotEach' /\ ReservedForTrusted'
    BY SlotsEffect, StayKeepsOwn, GetKeepsOwn DEF OwnInv, IInv
  <1> QED BY <1>1, PacketsOwn DEF OwnInv, AddressInv

\* While the router keeps every client's port, a client's address and slot are
\* its own, and the reserved slots are held by those with the password.
THEOREM OwnSlotsInductive ==
    ASSUME ~Rebinding PROVE Spec => []OwnInv
  <1> QED BY InitOwn, NextOwn, Inductive, PTL DEF Spec

\* While the router keeps every client's port, no client holds two slots.
THEOREM OneSlot ==
    ASSUME ~Rebinding PROVE Spec => []OneSlotEach
  <1>1. OwnInv => OneSlotEach
    BY DEF OwnInv
  <1> QED BY OwnSlotsInductive, <1>1, PTL

\* While the router keeps every client's port, the slots keep their types, and
\* the reserved ones are held by none but those with the password.
THEOREM Slots ==
    ASSUME ~Rebinding PROVE Spec => []SlotsHold
  <1>1. OwnInv => ReservedForTrusted
    BY DEF OwnInv
  <1> QED BY OwnSlotsInductive, TypeCorrect, <1>1, PTL DEF SlotsHold

\* While the router keeps every client's port, a live client's slot is not given
\* to another.
THEOREM KeptSlot ==
    ASSUME ~Rebinding PROVE Spec => SlotKept
  <1>1. IInv /\ OwnInv /\ [Next]_vars =>
          \A i \in Slot : Live(slots[i]) /\ Live(slots'[i]) => slots'[i].qport = slots[i].qport
    <2> SUFFICES ASSUME IInv, OwnInv, [Next]_vars, NEW i \in Slot,
                        Live(slots[i]), Live(slots'[i])
                 PROVE  slots'[i].qport = slots[i].qport
      OBVIOUS
    <2>1. slots[i].state # "free" /\ slots'[i].state # "free"
      BY DEF Live
    <2>2. CASE SlotsStay
      BY <2>1, <2>2 DEF SlotsStay
    <2>3. ASSUME NEW c \in Client, NEW j \in Slot, NEW number, Gets(c, j, number)
          PROVE  slots'[i].qport = slots[i].qport
      <3>1. slots[j].state # "free" => slots[j].qport = c
        BY <2>3, GetKeepsOwn DEF OwnInv, IInv
      <3>2. slots'[i].qport = IF i = j THEN c ELSE slots[i].qport
        BY <2>3 DEF Gets, IInv, ServerInv
      <3> QED BY <2>1, <3>1, <3>2
    <2> QED BY <2>2, <2>3, SlotsEffect DEF OwnInv
  <1> QED BY <1>1, Inductive, OwnSlotsInductive, PTL DEF Spec, SlotKept

-----------------------------------------------------------------------------
(* And if packets arrive in order: what a step may do to a handshake. *)

\* In this step the connects and requests left for the server are those after
\* the n-th packet, and the answers for the client those after the n-th.
LaterRequests(c, n) ==
    \A j \in DOMAIN toServer'[c] : toServer'[c][j].kind \in {"connect", "getchallenge"}
        => n + j \in DOMAIN toServer[c] /\ toServer'[c][j] = toServer[c][n + j]

LaterAnswers(c, n) ==
    \A j \in DOMAIN toClient'[c] : toClient'[c][j].kind \in {"challengeResponse", "connectResponse"}
        => n + j \in DOMAIN toClient[c] /\ toClient'[c][j] = toClient[c][n + j]

\* Nobody gets or uses a number of client c in this step.
EntriesStay(c) ==
    \A e \in Entry : challenges'[e].adr = FirstPort[c] =>
        /\ challenges[e].adr = FirstPort[c]
        /\ challenges'[e].number = challenges[e].number
        /\ challenges'[e].connected = challenges[e].connected

\* Client c gets no slot in this step.
SlotsStayOf(c) ==
    \A i \in Slot : slots'[i].state # "free" /\ slots'[i].qport = c =>
        /\ slots[i].state # "free" /\ slots[i].qport = c
        /\ slots'[i].challenge = slots[i].challenge

\* Client c keeps its challenge and its state, or is connected by an answer that
\* was on the way, or has left the handshake.
ClientKeeps(c) ==
    \/ client'[c].state = client[c].state /\ client'[c].challenge = client[c].challenge
    \/ /\ client[c].state = "challenging" /\ client'[c].state = "connected"
       /\ client'[c].challenge = client[c].challenge
       /\ Arrives(toClient[c], "connectResponse") # {}
    \/ client'[c].state \in {"disconnected", "connecting"} /\ client'[c].challenge = 0

LEMMA QueuePositions ==
    /\ \A s \in Seq(Request) : /\ \A j \in DOMAIN s : j \in Nat /\ s[j] \in Request
                               /\ \A j \in Arrives(s, "connect") : s[j].challenge \in Nat \ {0}
    /\ \A t \in Seq(Answer) : /\ \A j \in DOMAIN t : j \in Nat /\ t[j] \in Answer
                              /\ \A j \in Arrives(t, "challengeResponse") :
                                    t[j].challenge \in Nat \ {0}
  <1>1. MaxIssued \in Nat
    BY ConnectionAssumption
  <1>2. \A p \in Request : p.kind = "connect" => p.challenge \in Nat \ {0}
    BY <1>1 DEF Request
  <1>3. \A p \in Answer : p.kind = "challengeResponse" => p.challenge \in Nat \ {0}
    BY <1>1 DEF Answer
  <1>4. /\ \A s \in Seq(Request) : \A j \in DOMAIN s : j \in Nat /\ s[j] \in Request
        /\ \A t \in Seq(Answer) : \A j \in DOMAIN t : j \in Nat /\ t[j] \in Answer
    OBVIOUS
  <1> QED BY <1>2, <1>3, <1>4 DEF Arrives

LEMMA Positions ==
    ASSUME IInv, NEW c \in Client
    PROVE  /\ \A j \in Connects(c) : j \in Nat /\ toServer[c][j].challenge \in Nat \ {0}
           /\ \A j \in Requests(c) : j \in Nat
           /\ \A j \in Given(c) : j \in Nat /\ toClient[c][j].challenge \in Nat \ {0}
           /\ \A j \in Arrives(toClient[c], "connectResponse") : j \in Nat
           /\ client[c].challenge \in Nat /\ issued \in Nat
           /\ client[c].challenge # 0 <=> client[c].state \in {"challenging", "connected"}
  <1>1. toServer[c] \in Seq(Request) /\ toClient[c] \in Seq(Answer)
    BY DEF IInv, NetInv
  <1>2. client[c].challenge \in Nat /\ issued \in Nat
    BY ConnectionAssumption DEF IInv, ClientInv, ClientRec, ServerInv
  <1>3. client[c].challenge # 0 <=> client[c].state \in {"challenging", "connected"}
    BY DEF IInv, ClientInv
  <1>4. /\ \A j \in Connects(c) : j \in Nat /\ toServer[c][j].challenge \in Nat \ {0}
        /\ \A j \in Requests(c) : j \in Nat
    BY <1>1, QueuePositions DEF Connects, Requests, Arrives
  <1>5. /\ \A j \in Given(c) : j \in Nat /\ toClient[c][j].challenge \in Nat \ {0}
        /\ \A j \in Arrives(toClient[c], "connectResponse") : j \in Nat
    BY <1>1, QueuePositions DEF Given, Arrives
  <1> QED BY <1>2, <1>3, <1>4, <1>5

LEMMA PositionsNext ==
    ASSUME IInv', NEW c \in Client
    PROVE  /\ \A j \in Connects(c)' : j \in Nat /\ toServer'[c][j].challenge \in Nat \ {0}
           /\ \A j \in Requests(c)' : j \in Nat
           /\ \A j \in Given(c)' : j \in Nat /\ toClient'[c][j].challenge \in Nat \ {0}
           /\ \A j \in Arrives(toClient'[c], "connectResponse") : j \in Nat
           /\ client'[c].challenge \in Nat /\ issued' \in Nat
           /\ client'[c].challenge # 0 <=> client'[c].state \in {"challenging", "connected"}
  <1>1. toServer'[c] \in Seq(Request) /\ toClient'[c] \in Seq(Answer)
    BY DEF IInv, NetInv
  <1>2. client'[c].challenge \in Nat /\ issued' \in Nat
    BY ConnectionAssumption DEF IInv, ClientInv, ClientRec, ServerInv
  <1>3. client'[c].challenge # 0 <=> client'[c].state \in {"challenging", "connected"}
    BY DEF IInv, ClientInv
  <1>4. /\ \A j \in Connects(c)' : j \in Nat /\ toServer'[c][j].challenge \in Nat \ {0}
        /\ \A j \in Requests(c)' : j \in Nat
    BY <1>1, QueuePositions DEF Connects, Requests, Arrives
  <1>5. /\ \A j \in Given(c)' : j \in Nat /\ toClient'[c][j].challenge \in Nat \ {0}
        /\ \A j \in Arrives(toClient'[c], "connectResponse") : j \in Nat
    BY <1>1, QueuePositions DEF Given, Arrives
  <1> QED BY <1>2, <1>3, <1>4, <1>5

LEMMA LaterRequestsAre ==
    ASSUME NEW c \in Client, NEW n \in Nat, LaterRequests(c, n)
    PROVE  /\ \A j \in Connects(c)' :
                 n + j \in Connects(c) /\ toServer'[c][j].challenge = toServer[c][n + j].challenge
           /\ \A j \in Requests(c)' : n + j \in Requests(c)
  <1> QED BY DEF LaterRequests, Connects, Requests, Arrives

LEMMA LaterAnswersAre ==
    ASSUME NEW c \in Client, NEW n \in Nat, LaterAnswers(c, n)
    PROVE  /\ \A j \in Given(c)' :
                 n + j \in Given(c) /\ toClient'[c][j].challenge = toClient[c][n + j].challenge
           /\ \A j \in Arrives(toClient'[c], "connectResponse") :
                 n + j \in Arrives(toClient[c], "connectResponse")
  <1> QED BY DEF LaterAnswers, Given, Arrives

\* What the server would not take it will not take, and what it has not taken is
\* still that.
LEMMA VoidStays ==
    ASSUME NEW c \in Client, EntriesStay(c), NEW k
    PROVE  /\ Dead(c, k) => Dead(c, k)'
           /\ Unused(c, k) => Unused(c, k)'
  <1> QED BY DEF EntriesStay, Dead, Unused

\* A step in which nothing is added to client c's handshake.
LEMMA QuietStep ==
    ASSUME IInv, IInv', NEW c \in Client, NEW n1 \in Nat, NEW n2 \in Nat, Handshake(c),
           LaterRequests(c, n1), LaterAnswers(c, n2), EntriesStay(c), SlotsStayOf(c),
           ClientKeeps(c), issued <= issued'
    PROVE  Handshake(c)'
  <1>1. /\ \A j \in Connects(c)' :
              n1 + j \in Connects(c) /\ toServer'[c][j].challenge = toServer[c][n1 + j].challenge
        /\ \A j \in Requests(c)' : n1 + j \in Requests(c)
    BY LaterRequestsAre
  <1>2. /\ \A j \in Given(c)' :
              n2 + j \in Given(c) /\ toClient'[c][j].challenge = toClient[c][n2 + j].challenge
        /\ \A j \in Arrives(toClient'[c], "connectResponse") :
              n2 + j \in Arrives(toClient[c], "connectResponse")
    BY LaterAnswersAre
  <1>3. /\ \A j \in Connects(c) : j \in Nat /\ toServer[c][j].challenge \in Nat \ {0}
        /\ \A j \in Requests(c) : j \in Nat
        /\ \A j \in Given(c) : j \in Nat /\ toClient[c][j].challenge \in Nat \ {0}
        /\ client[c].challenge \in Nat /\ issued \in Nat
    BY Positions
  <1>4. /\ \A j \in Connects(c)' : j \in Nat
        /\ \A j \in Requests(c)' : j \in Nat
        /\ \A j \in Given(c)' : j \in Nat
        /\ \A j \in Arrives(toClient'[c], "connectResponse") : j \in Nat
        /\ client'[c].challenge \in Nat /\ issued' \in Nat
        /\ client'[c].challenge # 0 <=> client'[c].state \in {"challenging", "connected"}
    BY PositionsNext
  <1>5. \A k : (Dead(c, k) => Dead(c, k)') /\ (Unused(c, k) => Unused(c, k)')
    BY VoidStays
  <1>6. /\ client'[c].challenge # 0 => client'[c].challenge = client[c].challenge
        /\ client'[c].state = "challenging" => client[c].state = "challenging"
        /\ client'[c].challenge = client[c].challenge \/ client'[c].challenge = 0
    BY <1>4 DEF ClientKeeps
  <1>7. KnownInv(c)'
    BY <1>1, <1>2, <1>3, <1>4, <1>6 DEF Handshake, KnownInv
  <1>8. ConnectsInv(c)'
    BY <1>1, <1>5, <1>6 DEF Handshake, ConnectsInv, Dead
  <1>9. RequestsInv(c)'
    <2> SUFFICES ASSUME NEW n \in Requests(c)'
                 PROVE  /\ client'[c].state = "challenging" => Unused(c, client[c].challenge)'
                        /\ \A k \in Connects(c)' : k > n => Unused(c, toServer[c][k].challenge)'
                        /\ \A j \in Connects(c)' : j < n =>
                              /\ toServer'[c][j].challenge # client'[c].challenge
                              /\ \A k \in Connects(c)' : k > n =>
                                    toServer'[c][j].challenge # toServer'[c][k].challenge
      BY DEF RequestsInv
    <2>1. /\ client[c].state = "challenging" => Unused(c, client[c].challenge)
          /\ \A k \in Connects(c) : k > n1 + n => Unused(c, toServer[c][k].challenge)
          /\ \A j \in Connects(c) : j < n1 + n =>
                /\ toServer[c][j].challenge # client[c].challenge
                /\ \A k \in Connects(c) : k > n1 + n =>
                      toServer[c][j].challenge # toServer[c][k].challenge
      BY <1>1 DEF Handshake, RequestsInv
    <2>2. client'[c].state = "challenging" => Unused(c, client[c].challenge)'
      BY <1>4, <1>5, <1>6, <2>1 DEF Unused
    <2>3. \A k \in Connects(c)' : k > n => n1 + k > n1 + n
      BY <1>4
    <2>4. \A k \in Connects(c)' : k > n => Unused(c, toServer'[c][k].challenge)
      BY <1>1, <2>1, <2>3
    <2>5. \A k \in Connects(c)' : k > n => Unused(c, toServer[c][k].challenge)'
      BY <1>5, <2>4 DEF Unused
    <2>6. \A j \in Connects(c)' : j < n => n1 + j < n1 + n
      BY <1>4
    <2>7. ASSUME NEW j \in Connects(c)', j < n
          PROVE  /\ toServer'[c][j].challenge # client'[c].challenge
                 /\ \A k \in Connects(c)' : k > n =>
                       toServer'[c][j].challenge # toServer'[c][k].challenge
      <3>1. /\ n1 + j \in Connects(c) /\ n1 + j < n1 + n
            /\ toServer'[c][j].challenge = toServer[c][n1 + j].challenge
            /\ toServer[c][n1 + j].challenge # 0
        BY <1>1, <1>3, <2>6, <2>7
      <3> QED BY <1>1, <1>6, <2>1, <2>3, <3>1
    <2> QED BY <2>2, <2>5, <2>7
  <1>10. GivenInv(c)'
    <2> SUFFICES ASSUME NEW n \in Given(c)'
                 PROVE  /\ Unused(c, toClient[c][n].challenge)'
                        /\ client'[c].challenge < toClient'[c][n].challenge
                        /\ client'[c].state = "challenging" => Dead(c, client[c].challenge)'
                        /\ \A k \in Connects(c)' :
                              /\ toServer'[c][k].challenge < toClient'[c][n].challenge
                              /\ Dead(c, toServer[c][k].challenge)'
                        /\ \A k \in Given(c)' : k > n =>
                              /\ toClient'[c][k].challenge > toClient'[c][n].challenge
                              /\ Dead(c, toClient[c][n].challenge)'
                        /\ \A k \in Arrives(toClient'[c], "connectResponse") : k < n
      BY DEF GivenInv
    <2> DEFINE number == toClient[c][n2 + n].challenge
    <2>1. /\ n \in Nat /\ n2 + n \in Given(c) /\ toClient'[c][n].challenge = number
          /\ number \in Nat \ {0}
      BY <1>2, <1>3, <1>4
    <2>2. /\ Unused(c, number) /\ client[c].challenge < number
          /\ client[c].state = "challenging" => Dead(c, client[c].challenge)
          /\ \A k \in Connects(c) : /\ toServer[c][k].challenge < number
                                    /\ Dead(c, toServer[c][k].challenge)
          /\ \A k \in Given(c) : k > n2 + n => toClient[c][k].challenge > number /\ Dead(c, number)
          /\ \A k \in Arrives(toClient[c], "connectResponse") : k < n2 + n
      BY <2>1 DEF Handshake, GivenInv
    <2> HIDE DEF number
    <2>3. Unused(c, toClient[c][n].challenge)'
      BY <1>5, <2>1, <2>2 DEF Unused
    <2>4. client'[c].challenge < toClient'[c][n].challenge
      BY <1>3, <1>6, <2>1, <2>2
    <2>5. client'[c].state = "challenging" => Dead(c, client[c].challenge)'
      BY <1>4, <1>5, <1>6, <2>2 DEF Dead
    <2>6. \A k \in Connects(c)' : /\ toServer'[c][k].challenge < toClient'[c][n].challenge
                                 /\ Dead(c, toServer[c][k].challenge)'
      <3>1. ASSUME NEW k \in Connects(c)'
            PROVE  /\ toServer'[c][k].challenge < number
                   /\ Dead(c, toServer'[c][k].challenge)
        BY <1>1, <2>2
      <3>2. \A k \in Connects(c)' : Dead(c, toServer[c][k].challenge)'
        BY <1>5, <3>1 DEF Dead
      <3> QED BY <2>1, <3>1, <3>2
    <2>7. \A k \in Given(c)' : k > n => /\ toClient'[c][k].challenge > toClient'[c][n].challenge
                                       /\ Dead(c, toClient[c][n].challenge)'
      BY <1>2, <1>4, <1>5, <2>1, <2>2 DEF Dead
    <2>8. \A k \in Arrives(toClient'[c], "connectResponse") : k < n
      BY <1>2, <1>4, <2>1, <2>2
    <2> QED BY <2>3, <2>4, <2>5, <2>6, <2>7, <2>8
  <1>11. AnswerInv(c)'
    <2>1. Admitted(c)' => Admitted(c) /\ client'[c].challenge = client[c].challenge
      BY <1>2, <1>4, <1>6 DEF Admitted, ClientKeeps
    <2> QED BY <2>1 DEF Handshake, AnswerInv, SlotsStayOf
  <1> QED BY <1>7, <1>8, <1>9, <1>10, <1>11 DEF Handshake

\* Entries are dropped in this step, and nothing else becomes of them.
EntriesKept ==
    /\ UNCHANGED issued
    /\ \A e \in Entry : /\ challenges'[e].number \in {challenges[e].number, 0}
                        /\ challenges'[e].adr # 0 =>
                              /\ challenges'[e].adr = challenges[e].adr
                              /\ challenges'[e].number = challenges[e].number
                              /\ challenges'[e].connected = challenges[e].connected

LEMMA KeptEntries ==
    ASSUME IInv, IInv', EntriesInv, EntriesKept
    PROVE  EntriesInv' /\ \A c \in Client : EntriesStay(c)
  <1>1. \A c \in Client : FirstPort[c] # 0
    BY ConnectionAssumption
  <1>2. issued \in Nat
    BY ConnectionAssumption DEF IInv, ServerInv
  <1>3. \A e \in Entry : challenges'[e].number <= issued'
    BY <1>2 DEF EntriesKept, EntriesInv
  <1>4. ASSUME NEW d \in Entry, NEW e \in Entry,
               challenges'[d].adr = challenges'[e].adr, challenges'[e].adr # 0,
               ~challenges'[d].connected, ~challenges'[e].connected
        PROVE  d = e
    BY <1>4 DEF EntriesKept, EntriesInv
  <1>5. EntriesInv'
    BY <1>3, <1>4 DEF EntriesInv
  <1>6. \A c \in Client : EntriesStay(c)
    BY <1>1 DEF EntriesKept, EntriesStay
  <1> QED BY <1>5, <1>6

LEMMA WithoutFirstKept ==
    ASSUME ServerInv, NEW adr, challenges' = WithoutFirst(adr), UNCHANGED issued
    PROVE  EntriesKept
  <1> DEFINE of == {e \in Entry : challenges[e].adr = adr}
  <1>1. challenges' = IF of = {} THEN challenges ELSE [challenges EXCEPT ![Min(of)] = NoEntry]
    BY DEF WithoutFirst
  <1>2. NoEntry.adr = 0 /\ NoEntry.number = 0
    BY DEF NoEntry
  <1> HIDE DEF of
  <1>3. \A e \in Entry : challenges'[e] \in {challenges[e], NoEntry}
    BY <1>1 DEF ServerInv
  <1> QED BY <1>2, <1>3 DEF EntriesKept

LEMMA UnchangedKept ==
    ASSUME UNCHANGED <<challenges, issued>> PROVE EntriesKept
  <1> QED BY DEF EntriesKept

LEMMA StayOf ==
    ASSUME SlotsStay PROVE \A c \in Client : SlotsStayOf(c)
  <1> QED BY DEF SlotsStay, SlotsStayOf

\* A queue that does not change, or gets what does not matter to a handshake.
LEMMA SameRequestsLater ==
    ASSUME IInv, NEW c \in Client, toServer'[c] = toServer[c]
    PROVE  LaterRequests(c, 0)
  <1>1. toServer[c] \in Seq(Request)
    BY DEF IInv, NetInv
  <1> QED BY <1>1 DEF LaterRequests

LEMMA MoreRequestsLater ==
    ASSUME IInv, IInv', NEW c \in Client, Len(toServer'[c]) = Len(toServer[c]) + 1,
           \A j \in 1..Len(toServer[c]) : toServer'[c][j] = toServer[c][j],
           toServer'[c][Len(toServer[c]) + 1].kind \notin {"connect", "getchallenge"}
    PROVE  LaterRequests(c, 0)
  <1>1. toServer[c] \in Seq(Request) /\ toServer'[c] \in Seq(Request)
    BY DEF IInv, NetInv
  <1>2. Len(toServer[c]) \in Nat
    BY <1>1
  <1>3. ASSUME NEW j \in DOMAIN toServer'[c]
        PROVE  j \in Nat /\ (j \in 1..Len(toServer[c]) \/ j = Len(toServer[c]) + 1)
    BY <1>1, <1>2
  <1>4. ASSUME NEW j \in DOMAIN toServer'[c], toServer'[c][j].kind \in {"connect", "getchallenge"}
        PROVE  0 + j \in DOMAIN toServer[c] /\ toServer'[c][j] = toServer[c][0 + j]
    <2>1. j \in 1..Len(toServer[c]) /\ 0 + j = j
      BY <1>3, <1>4
    <2> QED BY <1>1, <2>1
  <1> QED BY <1>4 DEF LaterRequests

LEMMA SameAnswersLater ==
    ASSUME IInv, NEW c \in Client, toClient'[c] = toClient[c]
    PROVE  LaterAnswers(c, 0)
  <1>1. toClient[c] \in Seq(Answer)
    BY DEF IInv, NetInv
  <1> QED BY <1>1 DEF LaterAnswers

\* What a reply does to the queue of a client.
LEMMA ReplyEffect ==
    ASSUME IInv, NEW adr, NEW packet \in Answer, Reply(adr, packet), NEW c \in Client
    PROVE  \/ toClient'[c] = toClient[c]
           \/ /\ port[c] = adr
              /\ Len(toClient'[c]) = Len(toClient[c]) + 1
              /\ \A j \in 1..Len(toClient[c]) : toClient'[c][j] = toClient[c][j]
              /\ toClient'[c][Len(toClient[c]) + 1] = packet
  <1>1. toClient[c] \in Seq(Answer) /\ Len(toClient[c]) <= MaxInFlight
    BY DEF IInv, NetInv
  <1>2. toClient'[c] = IF port[c] = adr THEN Send(toClient[c], packet) ELSE toClient[c]
    BY DEF Reply
  <1>3. \/ Send(toClient[c], packet) = toClient[c]
        \/ /\ Len(Send(toClient[c], packet)) = Len(toClient[c]) + 1
           /\ \A j \in 1..Len(toClient[c]) : Send(toClient[c], packet)[j] = toClient[c][j]
           /\ Send(toClient[c], packet)[Len(Send(toClient[c], packet))] = packet
    BY <1>1, SendEffect
  <1> HIDE DEF Send
  <1> QED BY <1>2, <1>3

LEMMA ReplyLater ==
    ASSUME IInv, IInv', NEW adr, NEW packet \in Answer, Reply(adr, packet), NEW c \in Client,
           packet.kind \notin {"challengeResponse", "connectResponse"}
    PROVE  LaterAnswers(c, 0)
  <1>1. toClient[c] \in Seq(Answer) /\ toClient'[c] \in Seq(Answer)
    BY DEF IInv, NetInv
  <1>2. Len(toClient[c]) \in Nat
    BY <1>1
  <1>3. CASE toClient'[c] = toClient[c]
    BY <1>3, SameAnswersLater
  <1>4. CASE /\ Len(toClient'[c]) = Len(toClient[c]) + 1
             /\ \A j \in 1..Len(toClient[c]) : toClient'[c][j] = toClient[c][j]
             /\ toClient'[c][Len(toClient[c]) + 1] = packet
    <2>1. ASSUME NEW j \in DOMAIN toClient'[c]
          PROVE  j \in Nat /\ (j \in 1..Len(toClient[c]) \/ j = Len(toClient[c]) + 1)
      BY <1>1, <1>2, <1>4
    <2>2. ASSUME NEW j \in DOMAIN toClient'[c],
                 toClient'[c][j].kind \in {"challengeResponse", "connectResponse"}
          PROVE  0 + j \in DOMAIN toClient[c] /\ toClient'[c][j] = toClient[c][0 + j]
      <3>1. j \in 1..Len(toClient[c]) /\ 0 + j = j
        BY <1>4, <2>1, <2>2
      <3> QED BY <1>1, <1>4, <3>1
    <2> QED BY <2>2 DEF LaterAnswers
  <1> QED BY <1>3, <1>4, ReplyEffect

\* What is left when packet n has arrived is what comes after it.
LEMMA RestIsAfter ==
    ASSUME Ordered, NEW T, NEW q \in Seq(T), NEW n \in DOMAIN q, NEW rest \in Rest(q, n)
    PROVE  /\ n \in Nat
           /\ \A j \in DOMAIN rest : n + j \in DOMAIN q /\ rest[j] = q[n + j]
  <1>1. n \in 1..Len(q) /\ DOMAIN q = 1..Len(q)
    OBVIOUS
  <1>2. /\ rest \in Seq(T)
        /\ \A j \in 1..Len(rest) : n + j \in 1..Len(q) /\ rest[j] = q[n + j]
    BY <1>1, RestOfQueue
  <1>3. DOMAIN rest = 1..Len(rest)
    BY <1>2
  <1> QED BY <1>1, <1>2, <1>3

LEMMA ArrivedRequest ==
    ASSUME Ordered, IInv, NEW c \in Client, NEW n \in DOMAIN toServer[c], SV_PacketEvent(c, n)
    PROVE  /\ n \in Nat /\ LaterRequests(c, n)
           /\ \A d \in Client \ {c} : LaterRequests(d, 0)
  <1>1. toServer \in [Client -> Seq(Request)] /\ toServer[c] \in Seq(Request)
    BY DEF IInv, NetInv
  <1>2. PICK rest \in Rest(toServer[c], n) : toServer' = [toServer EXCEPT ![c] = rest]
    BY DEF SV_PacketEvent
  <1>3. /\ n \in Nat
        /\ \A j \in DOMAIN rest : n + j \in DOMAIN toServer[c] /\ rest[j] = toServer[c][n + j]
    BY <1>1, RestIsAfter
  <1>4. toServer'[c] = rest /\ \A d \in Client \ {c} : toServer'[d] = toServer[d]
    BY <1>1, <1>2
  <1>5. LaterRequests(c, n)
    BY <1>3, <1>4 DEF LaterRequests
  <1> QED BY <1>3, <1>4, <1>5, SameRequestsLater

LEMMA ArrivedAnswer ==
    ASSUME Ordered, IInv, NEW c \in Client, NEW n \in DOMAIN toClient[c], CL_PacketEvent(c, n)
    PROVE  /\ n \in Nat /\ LaterAnswers(c, n)
           /\ \A d \in Client \ {c} : LaterAnswers(d, 0)
  <1>1. toClient \in [Client -> Seq(Answer)] /\ toClient[c] \in Seq(Answer)
    BY DEF IInv, NetInv
  <1>2. PICK rest \in Rest(toClient[c], n) : toClient' = [toClient EXCEPT ![c] = rest]
    BY DEF CL_PacketEvent
  <1>3. /\ n \in Nat
        /\ \A j \in DOMAIN rest : n + j \in DOMAIN toClient[c] /\ rest[j] = toClient[c][n + j]
    BY <1>1, RestIsAfter
  <1>4. toClient'[c] = rest /\ \A d \in Client \ {c} : toClient'[d] = toClient[d]
    BY <1>1, <1>2
  <1>5. LaterAnswers(c, n)
    BY <1>3, <1>4 DEF LaterAnswers
  <1> QED BY <1>3, <1>4, <1>5, SameAnswersLater

-----------------------------------------------------------------------------
(* The steps in which a handshake gets no further. *)

LEMMA SlotActionHandshake ==
    ASSUME IInv, IInv', HandshakeInv, NEW i \in Slot,
           SV_CheckTimeouts(i) \/ Kick(i) \/ SlotSilent(i) \/ SV_SendClientMessages(i)
    PROVE  HandshakeInv'
  <1>1. ServerInv /\ issued \in Nat /\ UNCHANGED <<issued, client, toServer>>
    BY ConnectionAssumption
       DEF IInv, ServerInv, SV_CheckTimeouts, Kick, SlotSilent, SV_SendClientMessages, server
  <1>2. EntriesKept
    <2>1. CASE UNCHANGED challenges
      BY <1>1, <2>1, UnchangedKept
    <2>2. CASE \E state : DropTo(i, slots[i].adr, state)
      BY <1>1, <2>2, WithoutFirstKept DEF DropTo
    <2> QED BY <2>1, <2>2 DEF SV_CheckTimeouts, Kick, SlotSilent, SV_SendClientMessages, server
  <1>3. SlotsStay
    <2>1. CASE SV_SendClientMessages(i)
      BY <2>1 DEF SV_SendClientMessages, server, SlotsStay
    <2> QED BY <2>1, SlotActionStays
  <1>4. ASSUME NEW c \in Client PROVE LaterAnswers(c, 0)
    <2>1. CASE UNCHANGED toClient
      BY <2>1, SameAnswersLater
    <2>2. CASE SV_SendClientMessages(i)
      <3> DEFINE message == [kind |-> "message", challenge |-> slots[i].challenge,
                             last |-> slots[i].told]
      <3>1. message \in Answer
        BY <1>1 DEF ServerInv, SlotRec, Answer
      <3>2. Reply(slots[i].adr, message)
        BY <2>2 DEF SV_SendClientMessages
      <3>3. message.kind \notin {"challengeResponse", "connectResponse"}
        OBVIOUS
      <3> HIDE DEF message
      <3> QED BY <3>1, <3>2, <3>3, ReplyLater
    <2> QED BY <2>1, <2>2 DEF SV_CheckTimeouts, Kick, SlotSilent
  <1>5. ASSUME NEW c \in Client PROVE Handshake(c)'
    <2>1. LaterRequests(c, 0) /\ ClientKeeps(c) /\ issued <= issued'
      BY <1>1, SameRequestsLater DEF ClientKeeps
    <2>2. EntriesStay(c) /\ SlotsStayOf(c) /\ Handshake(c)
      BY <1>2, <1>3, KeptEntries, StayOf DEF HandshakeInv
    <2> QED BY <1>4, <2>1, <2>2, QuietStep
  <1> QED BY <1>2, <1>5, KeptEntries DEF HandshakeInv

\* A step that a client takes alone: what becomes of its own handshake is left,
\* the others' are as they were.
LEMMA AloneHandshake ==
    ASSUME IInv, IInv', HandshakeInv, NEW c \in Client, UNCHANGED server,
           \A d \in Client \ {c} : /\ toServer'[d] = toServer[d] /\ toClient'[d] = toClient[d]
                                   /\ client'[d] = client[d],
           Handshake(c)'
    PROVE  HandshakeInv'
  <1>1. UNCHANGED <<slots, challenges, issued>> /\ issued \in Nat
    BY ConnectionAssumption DEF server, IInv, ServerInv
  <1>2. EntriesKept /\ SlotsStay
    BY <1>1, UnchangedKept DEF SlotsStay
  <1>3. ASSUME NEW d \in Client \ {c} PROVE Handshake(d)'
    <2>1. LaterRequests(d, 0) /\ LaterAnswers(d, 0)
      BY SameRequestsLater, SameAnswersLater
    <2>2. ClientKeeps(d) /\ issued <= issued'
      BY <1>1 DEF ClientKeeps
    <2>3. EntriesStay(d) /\ SlotsStayOf(d) /\ Handshake(d)
      BY <1>2, KeptEntries, StayOf DEF HandshakeInv
    <2> QED BY <2>1, <2>2, <2>3, QuietStep
  <1> QED BY <1>2, <1>3, KeptEntries DEF HandshakeInv

\* A client sends what does not matter to the handshake, and takes no part in it.
LEMMA AsideHandshake ==
    ASSUME IInv, IInv', HandshakeInv, NEW c \in Client, NEW n \in Nat, UNCHANGED server,
           LaterRequests(c, 0), LaterAnswers(c, n), ClientKeeps(c)
    PROVE  Handshake(c)'
  <1>1. UNCHANGED <<slots, challenges, issued>> /\ issued <= issued'
    BY ConnectionAssumption DEF server, IInv, ServerInv
  <1>2. EntriesStay(c) /\ SlotsStayOf(c) /\ Handshake(c)
    BY <1>1 DEF EntriesStay, SlotsStayOf, HandshakeInv
  <1> QED BY <1>1, <1>2, QuietStep

\* Disconnecting, a client leaves the handshake.
LEMMA DisconnectAside ==
    ASSUME IInv, IInv', NEW c \in Client, NEW record, CL_Disconnect(c, record),
           record.challenge = 0, record.state \in {"disconnected", "connecting"}
    PROVE  /\ LaterRequests(c, 0) /\ ClientKeeps(c)
           /\ \A d \in Client \ {c} : toServer'[d] = toServer[d] /\ client'[d] = client[d]
  <1>1. toServer \in [Client -> Seq(Request)] /\ client \in [Client -> ClientRec] /\ ClientInv
    BY DEF IInv, NetInv, ClientInv
  <1>2. client' = [client EXCEPT ![c] = record]
    BY DEF CL_Disconnect
  <1>3. ClientKeeps(c) /\ \A d \in Client \ {c} : client'[d] = client[d]
    BY <1>1, <1>2 DEF ClientKeeps
  <1>4. CASE UNCHANGED toServer
    BY <1>3, <1>4, SameRequestsLater
  <1>5. CASE toServer' = [toServer EXCEPT ![c] = Send(toServer[c], Packet(c, "disconnect"))]
    <2>1. Packet(c, "disconnect") \in Request /\ Packet(c, "disconnect").kind = "disconnect"
      BY <1>1, PacketIsRequest DEF Packet
    <2>2. PICK packet \in Request : packet = Packet(c, "disconnect")
      BY <2>1
    <2>3. /\ \A d \in Client : d # c => toServer'[d] = toServer[d]
          /\ \/ toServer'[c] = toServer[c]
             \/ /\ Len(toServer'[c]) = Len(toServer[c]) + 1
                /\ \A j \in 1..Len(toServer[c]) : toServer'[c][j] = toServer[c][j]
                /\ toServer'[c][Len(toServer[c]) + 1] = packet
      BY <1>5, <2>2, ClientSends
    <2>4. LaterRequests(c, 0)
      BY <2>1, <2>2, <2>3, SameRequestsLater, MoreRequestsLater
    <2> QED BY <1>3, <2>3, <2>4
  <1> QED BY <1>4, <1>5 DEF CL_Disconnect

LEMMA CommandHandshake ==
    ASSUME IInv, IInv', HandshakeInv, NEW c \in Client,
           CL_Connect_f(c) \/ CL_Disconnect_f(c) \/ CL_CheckTimeout(c) \/ ClientSilent(c)
    PROVE  HandshakeInv'
  <1>1. UNCHANGED <<server, toClient>>
    BY DEF CL_Connect_f, CL_Disconnect_f, CL_CheckTimeout, ClientSilent
  <1>2. /\ LaterRequests(c, 0) /\ ClientKeeps(c)
        /\ \A d \in Client \ {c} : toServer'[d] = toServer[d] /\ client'[d] = client[d]
    <2>1. CASE \/ CL_Disconnect(c, Nobody)
               \/ CL_Disconnect(c, [Nobody EXCEPT !.state = "connecting"])
      <3>1. /\ Nobody.challenge = 0 /\ Nobody.state = "disconnected"
            /\ [Nobody EXCEPT !.state = "connecting"].challenge = 0
            /\ [Nobody EXCEPT !.state = "connecting"].state = "connecting"
        BY DEF Nobody
      <3> QED BY <2>1, <3>1, DisconnectAside
    <2>2. CASE ClientSilent(c)
      <3>1. LaterRequests(c, 0) /\ UNCHANGED toServer
        BY <2>2, SameRequestsLater DEF ClientSilent
      <3>2. ClientKeeps(c) /\ \A d \in Client \ {c} : client'[d] = client[d]
        BY <2>2 DEF ClientSilent, ClientKeeps, IInv, ClientInv, ClientRec
      <3> QED BY <3>1, <3>2
    <2> QED BY <2>1, <2>2 DEF CL_Connect_f, CL_Disconnect_f, CL_CheckTimeout
  <1>3. LaterAnswers(c, 0)
    BY <1>1, SameAnswersLater
  <1>4. Handshake(c)'
    BY <1>1, <1>2, <1>3, AsideHandshake
  <1> QED BY <1>1, <1>2, <1>4, AloneHandshake

-----------------------------------------------------------------------------
(* A client asks for a challenge, or to connect with the one it has. *)

\* The connects and requests in a queue that has got one more packet.
LEMMA OneMore ==
    ASSUME IInv, IInv', NEW c \in Client, NEW packet \in Request,
           Len(toServer'[c]) = Len(toServer[c]) + 1,
           \A j \in 1..Len(toServer[c]) : toServer'[c][j] = toServer[c][j],
           toServer'[c][Len(toServer[c]) + 1] = packet
    PROVE  LET last == Len(toServer[c]) + 1
           IN  /\ last \in Nat
               /\ \A j \in Connects(c) : j < last
               /\ \A j \in Requests(c) : j < last
               /\ \A j \in Connects(c)' :
                     \/ j \in Connects(c) /\ toServer'[c][j].challenge = toServer[c][j].challenge
                     \/ j = last /\ packet.kind = "connect"
                        /\ toServer'[c][j].challenge = packet.challenge
               /\ \A j \in Requests(c)' :
                     j \in Requests(c) \/ (j = last /\ packet.kind = "getchallenge")
  <1>1. toServer[c] \in Seq(Request) /\ toServer'[c] \in Seq(Request)
    BY DEF IInv, NetInv
  <1>2. Len(toServer[c]) \in Nat /\ DOMAIN toServer[c] = 1..Len(toServer[c])
        /\ DOMAIN toServer'[c] = 1..Len(toServer[c]) + 1
    BY <1>1
  <1>3. \A j \in DOMAIN toServer[c] : j < Len(toServer[c]) + 1
    BY <1>2
  <1>4. \A j \in DOMAIN toServer'[c] :
           \/ j \in DOMAIN toServer[c] /\ toServer'[c][j] = toServer[c][j]
           \/ j = Len(toServer[c]) + 1 /\ toServer'[c][j] = packet
    BY <1>2
  <1> QED BY <1>2, <1>3, <1>4 DEF Connects, Requests, Arrives

\* What stays when only the queue to the server changes.
LEMMA SentOnly ==
    ASSUME NEW c \in Client, UNCHANGED <<server, client, toClient>>
    PROVE  /\ Given(c)' = Given(c)
           /\ \A k : Dead(c, k) => Dead(c, k)'
           /\ \A k : Unused(c, k) => Unused(c, k)'
           /\ AnswerInv(c) => AnswerInv(c)'
           /\ client' = client /\ toClient' = toClient /\ issued' = issued
  <1>1. UNCHANGED <<slots, challenges, issued, client, toClient>>
    BY DEF server
  <1> QED BY <1>1 DEF Given, Arrives, Dead, Unused, AnswerInv, Admitted

LEMMA GivenStays ==
    ASSUME NEW c \in Client, UNCHANGED <<server, client, toClient>>, GivenInv(c),
           \A n \in Given(c) : \A k \in Connects(c)' :
              /\ toServer'[c][k].challenge < toClient[c][n].challenge
              /\ Dead(c, toServer'[c][k].challenge)
    PROVE  GivenInv(c)'
  <1>1. /\ Given(c)' = Given(c)
        /\ \A k : Dead(c, k) => Dead(c, k)'
        /\ \A k : Unused(c, k) => Unused(c, k)'
        /\ client' = client /\ toClient' = toClient
    BY SentOnly
  <1> SUFFICES ASSUME NEW n \in Given(c)
               PROVE  /\ Unused(c, toClient[c][n].challenge)'
                      /\ client[c].challenge < toClient[c][n].challenge
                      /\ client[c].state = "challenging" => Dead(c, client[c].challenge)'
                      /\ \A k \in Connects(c)' : /\ toServer'[c][k].challenge < toClient[c][n].challenge
                                                 /\ Dead(c, toServer[c][k].challenge)'
                      /\ \A k \in Given(c) : k > n =>
                            /\ toClient[c][k].challenge > toClient[c][n].challenge
                            /\ Dead(c, toClient[c][n].challenge)'
                      /\ \A k \in Arrives(toClient[c], "connectResponse") : k < n
    BY <1>1 DEF GivenInv
  <1>2. Unused(c, toClient[c][n].challenge)'
    BY <1>1 DEF GivenInv, Unused
  <1>3. client[c].state = "challenging" => Dead(c, client[c].challenge)'
    BY <1>1 DEF GivenInv, Dead
  <1>4. \A k \in Connects(c)' : Dead(c, toServer[c][k].challenge)'
    BY <1>1 DEF Dead
  <1>5. \A k \in Given(c) : k > n => Dead(c, toClient[c][n].challenge)'
    BY <1>1 DEF GivenInv, Dead
  <1> QED BY <1>2, <1>3, <1>4, <1>5 DEF GivenInv

LEMMA RequestSent ==
    ASSUME IInv, IInv', NEW c \in Client, Handshake(c), UNCHANGED <<server, client, toClient>>,
           client[c].state = "connecting", NEW packet \in Request, packet.kind = "getchallenge",
           Len(toServer'[c]) = Len(toServer[c]) + 1,
           \A j \in 1..Len(toServer[c]) : toServer'[c][j] = toServer[c][j],
           toServer'[c][Len(toServer[c]) + 1] = packet
    PROVE  Handshake(c)'
  <1> DEFINE last == Len(toServer[c]) + 1
  <1>1. /\ last \in Nat
        /\ \A j \in Connects(c) : j < last
        /\ \A j \in Connects(c)' :
              j \in Connects(c) /\ toServer'[c][j].challenge = toServer[c][j].challenge
        /\ \A j \in Requests(c)' : j \in Requests(c) \/ j = last
    BY OneMore
  <1> HIDE DEF last
  <1>2. /\ \A j \in Connects(c) : j \in Nat /\ toServer[c][j].challenge \in Nat \ {0}
        /\ client[c].challenge = 0
    BY Positions
  <1>3. /\ Given(c)' = Given(c)
        /\ \A k : Dead(c, k) => Dead(c, k)'
        /\ \A k : Unused(c, k) => Unused(c, k)'
        /\ client' = client /\ toClient' = toClient /\ issued' = issued /\ AnswerInv(c)'
    BY SentOnly DEF Handshake
  <1>4. KnownInv(c)'
    BY <1>1, <1>3 DEF Handshake, KnownInv
  <1>5. ConnectsInv(c)'
    BY <1>2, <1>3 DEF ConnectsInv
  <1>6. RequestsInv(c)'
    <2> SUFFICES ASSUME NEW n \in Requests(c)'
                 PROVE  /\ \A k \in Connects(c)' : k > n => Unused(c, toServer[c][k].challenge)'
                        /\ \A j \in Connects(c)' : j < n =>
                              /\ toServer'[c][j].challenge # 0
                              /\ \A k \in Connects(c)' : k > n =>
                                    toServer'[c][j].challenge # toServer'[c][k].challenge
      BY <1>2, <1>3 DEF RequestsInv
    <2>1. CASE n = last
      <3>1. \A k \in Connects(c)' : ~(k > n)
        BY <1>1, <1>2, <2>1
      <3> QED BY <1>1, <1>2, <3>1
    <2>2. CASE n \in Requests(c)
      <3>1. /\ \A k \in Connects(c) : k > n => Unused(c, toServer[c][k].challenge)
            /\ \A j, k \in Connects(c) : j < n /\ k > n =>
                  toServer[c][j].challenge # toServer[c][k].challenge
        BY <2>2 DEF Handshake, RequestsInv
      <3>2. \A k \in Connects(c)' : k > n => Unused(c, toServer'[c][k].challenge)
        BY <1>1, <3>1
      <3>3. \A k \in Connects(c)' : k > n => Unused(c, toServer[c][k].challenge)'
        BY <1>3, <3>2 DEF Unused
      <3> QED BY <1>1, <1>2, <3>1, <3>3
    <2> QED BY <1>1, <2>1, <2>2
  <1>7. GivenInv(c)'
    <2>1. ASSUME NEW n \in Given(c), NEW k \in Connects(c)'
          PROVE  /\ toServer'[c][k].challenge < toClient[c][n].challenge
                 /\ Dead(c, toServer'[c][k].challenge)
      BY <1>1 DEF Handshake, GivenInv
    <2> QED BY <1>3, <2>1, GivenStays DEF Handshake
  <1> QED BY <1>3, <1>4, <1>5, <1>6, <1>7 DEF Handshake

LEMMA ConnectSent ==
    ASSUME IInv, IInv', NEW c \in Client, Handshake(c), UNCHANGED <<server, client, toClient>>,
           client[c].state = "challenging", NEW packet \in Request, packet.kind = "connect",
           packet.challenge = client[c].challenge,
           Len(toServer'[c]) = Len(toServer[c]) + 1,
           \A j \in 1..Len(toServer[c]) : toServer'[c][j] = toServer[c][j],
           toServer'[c][Len(toServer[c]) + 1] = packet
    PROVE  Handshake(c)'
  <1> DEFINE last == Len(toServer[c]) + 1
             number == client[c].challenge
  <1>1. /\ last \in Nat
        /\ \A j \in Requests(c) : j < last
        /\ \A j \in Connects(c)' :
              \/ j \in Connects(c) /\ toServer'[c][j].challenge = toServer[c][j].challenge
              \/ j = last /\ toServer'[c][j].challenge = number
        /\ \A j \in Requests(c)' : j \in Requests(c)
    BY OneMore
  <1> HIDE DEF last
  <1>2. /\ \A j \in Connects(c) : j \in Nat
        /\ \A j \in Requests(c) : j \in Nat
        /\ number \in Nat \ {0}
    BY Positions
  <1>3. /\ Given(c)' = Given(c)
        /\ \A k : Dead(c, k) => Dead(c, k)'
        /\ \A k : Unused(c, k) => Unused(c, k)'
        /\ client' = client /\ toClient' = toClient /\ issued' = issued /\ AnswerInv(c)'
    BY SentOnly DEF Handshake
  <1>4. KnownInv(c)'
    BY <1>1, <1>3 DEF Handshake, KnownInv
  <1>5. ConnectsInv(c)'
    <2>1. ASSUME NEW j \in Connects(c)'
          PROVE  toServer'[c][j].challenge = number \/ Dead(c, toServer'[c][j].challenge)
      BY <1>1, <1>2 DEF Handshake, ConnectsInv
    <2> QED BY <1>3, <2>1 DEF ConnectsInv, Dead
  <1>6. RequestsInv(c)'
    <2> SUFFICES ASSUME NEW n \in Requests(c)'
                 PROVE  /\ Unused(c, number)'
                        /\ \A k \in Connects(c)' : k > n => Unused(c, toServer[c][k].challenge)'
                        /\ \A j \in Connects(c)' : j < n =>
                              /\ toServer'[c][j].challenge # number
                              /\ \A k \in Connects(c)' : k > n =>
                                    toServer'[c][j].challenge # toServer'[c][k].challenge
      BY <1>3 DEF RequestsInv
    <2>1. /\ n \in Nat /\ n < last /\ Unused(c, number)
          /\ \A k \in Connects(c) : k > n => Unused(c, toServer[c][k].challenge)
          /\ \A j \in Connects(c) : j < n =>
                /\ toServer[c][j].challenge # number
                /\ \A k \in Connects(c) : k > n =>
                      toServer[c][j].challenge # toServer[c][k].challenge
      BY <1>1, <1>2 DEF Handshake, RequestsInv
    <2>2. \A j \in Connects(c)' : j < n => j \in Connects(c)
      BY <1>1, <2>1
    <2>3. \A k \in Connects(c)' : k > n => Unused(c, toServer'[c][k].challenge)
      BY <1>1, <2>1
    <2>4. \A k \in Connects(c)' : k > n => Unused(c, toServer[c][k].challenge)'
      BY <1>3, <2>3 DEF Unused
    <2>5. Unused(c, number)'
      BY <1>3, <2>1 DEF Unused
    <2>6. ASSUME NEW j \in Connects(c)', j < n, NEW k \in Connects(c)', k > n
          PROVE  /\ toServer'[c][j].challenge # number
                 /\ toServer'[c][j].challenge # toServer'[c][k].challenge
      <3>1. j \in Connects(c) /\ toServer'[c][j].challenge = toServer[c][j].challenge
        BY <1>1, <2>1, <2>6
      <3> QED BY <1>1, <2>1, <2>6, <3>1
    <2>7. \A j \in Connects(c)' : j < n => toServer'[c][j].challenge # number
      BY <1>1, <2>1
    <2> QED BY <2>4, <2>5, <2>6, <2>7
  <1>7. GivenInv(c)'
    <2>1. ASSUME NEW n \in Given(c), NEW k \in Connects(c)'
          PROVE  /\ toServer'[c][k].challenge < toClient[c][n].challenge
                 /\ Dead(c, toServer'[c][k].challenge)
      BY <1>1 DEF Handshake, GivenInv
    <2> QED BY <1>3, <2>1, GivenStays DEF Handshake
  <1> QED BY <1>3, <1>4, <1>5, <1>6, <1>7 DEF Handshake

LEMMA FrameHandshake ==
    ASSUME IInv, IInv', HandshakeInv, NEW c \in Client, CL_Frame(c)
    PROVE  HandshakeInv'
  <1>1. UNCHANGED <<server, client, toClient>> /\ Handshake(c)
    BY DEF CL_Frame, HandshakeInv
  <1>2. client[c].state \in {"connecting", "challenging", "connected"}
    BY DEF CL_Frame, IInv, ClientInv, ClientRec
  <1>3. PICK kind \in {"getchallenge", "connect", "move"} :
            /\ kind = "getchallenge" => client[c].state = "connecting"
            /\ kind = "connect" => client[c].state = "challenging"
            /\ Packet(c, kind) \in Request
            /\ toServer' = [toServer EXCEPT ![c] = Append(@, Packet(c, kind))]
    BY <1>2, PacketIsRequest, ConnectIsRequest DEF CL_Frame, IInv
  <1>4. PICK packet \in Request : packet = Packet(c, kind)
    BY <1>3
  <1>5. packet.kind = kind /\ packet.challenge = client[c].challenge
    BY <1>4 DEF Packet
  <1>6. toServer \in [Client -> Seq(Request)] /\ toServer[c] \in Seq(Request)
    BY DEF IInv, NetInv
  <1>7. /\ \A d \in Client \ {c} : toServer'[d] = toServer[d]
        /\ toServer'[c] = Append(toServer[c], packet)
    BY <1>3, <1>4, <1>6
  <1>8. /\ Len(toServer'[c]) = Len(toServer[c]) + 1
        /\ \A j \in 1..Len(toServer[c]) : toServer'[c][j] = toServer[c][j]
        /\ toServer'[c][Len(toServer[c]) + 1] = packet
    BY <1>6, <1>7, AppendProperties
  <1>9. Handshake(c)'
    <2>1. CASE kind = "getchallenge"
      BY <1>1, <1>3, <1>5, <1>8, <2>1, RequestSent
    <2>2. CASE kind = "connect"
      BY <1>1, <1>3, <1>5, <1>8, <2>2, ConnectSent
    <2>3. CASE kind = "move"
      <3>1. LaterRequests(c, 0) /\ LaterAnswers(c, 0)
        BY <1>1, <1>5, <1>8, <2>3, MoreRequestsLater, SameAnswersLater
      <3>2. ClientKeeps(c)
        BY <1>1 DEF ClientKeeps
      <3> QED BY <1>1, <3>1, <3>2, AsideHandshake
    <2> QED BY <2>1, <2>2, <2>3
  <1> QED BY <1>1, <1>7, <1>9, AloneHandshake

-----------------------------------------------------------------------------
(* A client gets a challenge, or the answer to its connect. *)

\* What stays when the client takes a packet and sends nothing.
LEMMA TakenOnly ==
    ASSUME NEW c \in Client, UNCHANGED <<server, toServer>>
    PROVE  /\ Connects(c)' = Connects(c) /\ Requests(c)' = Requests(c)
           /\ \A k : Dead(c, k) => Dead(c, k)'
           /\ \A k : Unused(c, k) => Unused(c, k)'
           /\ toServer' = toServer /\ issued' = issued /\ slots' = slots
  <1>1. UNCHANGED <<slots, challenges, issued, toServer>>
    BY DEF server
  <1> QED BY <1>1 DEF Connects, Requests, Arrives, Dead, Unused

LEMMA ChallengeTaken ==
    ASSUME IInv, IInv', NEW c \in Client, Handshake(c), UNCHANGED <<server, toServer>>,
           client[c].state = "connecting", NEW n \in Nat, n \in Given(c), LaterAnswers(c, n),
           client'[c].state = "challenging", client'[c].challenge = toClient[c][n].challenge
    PROVE  Handshake(c)'
  <1> DEFINE number == toClient[c][n].challenge
  <1>1. /\ \A j \in Given(c)' :
              n + j \in Given(c) /\ toClient'[c][j].challenge = toClient[c][n + j].challenge
        /\ \A j \in Arrives(toClient'[c], "connectResponse") :
              n + j \in Arrives(toClient[c], "connectResponse")
    BY LaterAnswersAre
  <1>2. /\ \A j \in Given(c)' : j \in Nat \ {0}
        /\ \A j \in Arrives(toClient'[c], "connectResponse") : j \in Nat \ {0}
    <2>1. toClient'[c] \in Seq(Answer)
      BY DEF IInv, NetInv
    <2> QED BY <2>1 DEF Given, Arrives
  <1>3. /\ Connects(c)' = Connects(c) /\ Requests(c)' = Requests(c)
        /\ \A k : Dead(c, k) => Dead(c, k)'
        /\ \A k : Unused(c, k) => Unused(c, k)'
        /\ toServer' = toServer /\ issued' = issued /\ slots' = slots
    BY TakenOnly
  <1>4. /\ Unused(c, number)
        /\ \A k \in Connects(c) : toServer[c][k].challenge < number
                                  /\ Dead(c, toServer[c][k].challenge)
        /\ \A k \in Given(c) : k > n => toClient[c][k].challenge > number /\ Dead(c, number)
        /\ \A k \in Arrives(toClient[c], "connectResponse") : k < n
    BY DEF Handshake, GivenInv
  <1>5. /\ number \in Nat \ {0}
        /\ \A k \in Connects(c) : k \in Nat /\ toServer[c][k].challenge \in Nat
        /\ \A k \in Given(c) : k \in Nat /\ toClient[c][k].challenge \in Nat
    BY Positions
  <1>6. \A j \in Arrives(toClient'[c], "connectResponse") : FALSE
    BY <1>1, <1>2, <1>4
  <1>7. number <= issued
    BY DEF Handshake, KnownInv
  <1> HIDE DEF number
  <1>8. client'[c].challenge = number
    BY DEF number
  <1>9. KnownInv(c)'
    BY <1>1, <1>3, <1>7, <1>8 DEF Handshake, KnownInv
  <1>10. ConnectsInv(c)'
    <2>1. \A k \in Connects(c) : Dead(c, toServer[c][k].challenge)'
      BY <1>3, <1>4 DEF Dead
    <2> QED BY <1>3, <2>1 DEF ConnectsInv
  <1>11. RequestsInv(c)'
    <2>1. Unused(c, client[c].challenge)'
      BY <1>3, <1>4, <1>8 DEF Unused
    <2>2. \A k \in Connects(c) : toServer[c][k].challenge # number
      BY <1>4, <1>5
    <2>3. ASSUME NEW m \in Requests(c)
          PROVE  \A k \in Connects(c) : k > m => Unused(c, toServer[c][k].challenge)'
      <3>1. \A k \in Connects(c) : k > m => Unused(c, toServer[c][k].challenge)
        BY DEF Handshake, RequestsInv
      <3> QED BY <1>3, <3>1 DEF Unused
    <2>4. ASSUME NEW m \in Requests(c), NEW j \in Connects(c), j < m
          PROVE  \A k \in Connects(c) : k > m => toServer[c][j].challenge # toServer[c][k].challenge
      BY <2>4 DEF Handshake, RequestsInv
    <2> QED BY <1>3, <1>8, <2>1, <2>2, <2>3, <2>4 DEF RequestsInv
  <1>12. GivenInv(c)'
    <2> SUFFICES ASSUME NEW m \in Given(c)'
                 PROVE  /\ Unused(c, toClient[c][m].challenge)'
                        /\ number < toClient'[c][m].challenge
                        /\ Dead(c, client[c].challenge)'
                        /\ \A k \in Connects(c) : toServer[c][k].challenge < toClient'[c][m].challenge
                        /\ \A k \in Connects(c) : Dead(c, toServer[c][k].challenge)'
                        /\ \A k \in Given(c)' : k > m =>
                              toClient'[c][k].challenge > toClient'[c][m].challenge
                        /\ \A k \in Given(c)' : k > m => Dead(c, toClient[c][m].challenge)'
      BY <1>3, <1>6, <1>8 DEF GivenInv
    <2>1. /\ m \in Nat \ {0} /\ n + m \in Given(c) /\ n + m > n
          /\ toClient'[c][m].challenge = toClient[c][n + m].challenge
      BY <1>1, <1>2
    <2>2. /\ Unused(c, toClient[c][n + m].challenge)
          /\ number < toClient[c][n + m].challenge /\ Dead(c, number)
          /\ \A k \in Connects(c) : toServer[c][k].challenge < toClient[c][n + m].challenge
          /\ \A k \in Given(c) : k > n + m => /\ toClient[c][k].challenge > toClient[c][n + m].challenge
                                              /\ Dead(c, toClient[c][n + m].challenge)
      BY <1>4, <1>5, <2>1 DEF Handshake, GivenInv
    <2>3. Unused(c, toClient[c][m].challenge)'
      BY <1>3, <2>1, <2>2 DEF Unused
    <2>4. Dead(c, client[c].challenge)'
      BY <1>3, <1>8, <2>2 DEF Dead
    <2>5. \A k \in Connects(c) : Dead(c, toServer[c][k].challenge)'
      BY <1>3, <1>4 DEF Dead
    <2>6. ASSUME NEW k \in Given(c)', k > m
          PROVE  /\ toClient'[c][k].challenge > toClient'[c][m].challenge
                 /\ Dead(c, toClient'[c][m].challenge)
      <3>1. n + k \in Given(c) /\ n + k > n + m
        BY <1>1, <1>2, <2>1, <2>6
      <3> QED BY <1>1, <2>1, <2>2, <3>1
    <2>7. \A k \in Given(c)' : k > m => Dead(c, toClient[c][m].challenge)'
      BY <1>3, <2>6 DEF Dead
    <2> QED BY <2>1, <2>2, <2>3, <2>4, <2>5, <2>6, <2>7
  <1>13. AnswerInv(c)'
    BY <1>6 DEF AnswerInv, Admitted
  <1> QED BY <1>9, <1>10, <1>11, <1>12, <1>13 DEF Handshake

LEMMA ClientPacketHandshake ==
    ASSUME Ordered, IInv, IInv', HandshakeInv, NEW c \in Client, NEW n \in DOMAIN toClient[c],
           CL_PacketEvent(c, n)
    PROVE  HandshakeInv'
  <1> DEFINE packet == toClient[c][n]
             r      == [client[c] EXCEPT !.heard = TRUE]
  <1>1. /\ UNCHANGED server /\ Handshake(c)
        /\ toServer \in [Client -> Seq(Request)] /\ client \in [Client -> ClientRec]
    BY DEF CL_PacketEvent, HandshakeInv, IInv, NetInv, ClientInv
  <1>2. /\ n \in Nat /\ LaterAnswers(c, n)
        /\ \A d \in Client \ {c} : LaterAnswers(d, 0) /\ toClient'[d] = toClient[d]
    BY ArrivedAnswer DEF CL_PacketEvent, IInv, NetInv
  <1>3. /\ r.state = client[c].state /\ r.challenge = client[c].challenge /\ r \in ClientRec
        /\ r.heard
    BY <1>1 DEF ClientRec
  <1> HIDE DEF r
  <1>4. ASSUME NEW record \in ClientRec, Become(c, record)
        PROVE  /\ UNCHANGED toServer /\ \A d \in Client \ {c} : client'[d] = client[d]
               /\ client'[c].state = record.state /\ client'[c].challenge = record.challenge
    BY <1>1, <1>4 DEF Become, ClientRec
  <1>5. ASSUME LaterRequests(c, 0), ClientKeeps(c),
               \A d \in Client \ {c} : toServer'[d] = toServer[d] /\ client'[d] = client[d]
        PROVE  HandshakeInv'
    <2>1. Handshake(c)'
      BY <1>1, <1>2, <1>5, AsideHandshake
    <2> QED BY <1>1, <1>2, <1>5, <2>1, AloneHandshake
  <1>6. CASE Become(c, r)
    <2>1. ClientKeeps(c)
      BY <1>3, <1>4, <1>6 DEF ClientKeeps
    <2> QED BY <1>3, <1>4, <1>5, <1>6, <2>1, SameRequestsLater
  <1>7. CASE CL_Disconnect(c, Nobody)
    <2>1. Nobody.challenge = 0 /\ Nobody.state = "disconnected"
      BY DEF Nobody
    <2> QED BY <1>5, <1>7, <2>1, DisconnectAside
  <1>8. CASE packet.kind = "connectResponse" /\ AwaitsConnect(r)
             /\ Become(c, [r EXCEPT !.state = "connected"])
    <2> DEFINE record == [r EXCEPT !.state = "connected"]
    <2>1. record \in ClientRec /\ record.state = "connected" /\ record.challenge = r.challenge
      BY <1>3 DEF ClientRec
    <2> HIDE DEF record
    <2>2. Become(c, record)
      BY <1>8 DEF record
    <2>3. n \in Arrives(toClient[c], "connectResponse") /\ r.state = "challenging"
      BY <1>8 DEF Arrives, AwaitsConnect
    <2>4. ClientKeeps(c)
      BY <1>3, <1>4, <2>1, <2>2, <2>3 DEF ClientKeeps
    <2> QED BY <1>4, <1>5, <2>1, <2>2, <2>4, SameRequestsLater
  <1>9. CASE packet.kind = "challengeResponse" /\ r.state = "connecting"
             /\ Become(c, Challenged(r, packet.challenge))
    <2> DEFINE record == Challenged(r, packet.challenge)
    <2>1. n \in Given(c) /\ packet \in Answer
      BY <1>9 DEF Given, Arrives, IInv, NetInv
    <2>2. packet.challenge \in 0..MaxIssued
      BY <1>9, <2>1, ConnectionAssumption DEF Answer
    <2> HIDE DEF packet
    <2>3. /\ record \in ClientRec /\ record.state = "challenging"
          /\ record.challenge = packet.challenge
      BY <1>3, <2>2 DEF Challenged, ClientRec
    <2> HIDE DEF record
    <2>4. Become(c, record)
      BY <1>9 DEF record
    <2>5. /\ UNCHANGED toServer /\ \A d \in Client \ {c} : client'[d] = client[d]
          /\ client'[c].state = "challenging" /\ client'[c].challenge = toClient[c][n].challenge
      BY <1>4, <2>3, <2>4 DEF packet
    <2>6. Handshake(c)'
      BY <1>1, <1>2, <1>3, <1>9, <2>1, <2>5, ChallengeTaken
    <2> QED BY <1>1, <1>2, <2>5, <2>6, AloneHandshake
  <1>10. \/ packet.kind = "message" /\ CL_ParseServerMessage(c, r, packet)
         \/ packet.kind # "message" /\ CL_ConnectionlessPacket(c, r, packet)
    BY DEF CL_PacketEvent, r
  <1> HIDE DEF packet
  <1>11. CASE CL_ParseServerMessage(c, r, packet)
    BY <1>6, <1>7, <1>11 DEF CL_ParseServerMessage
  <1>12. CASE CL_ConnectionlessPacket(c, r, packet)
    BY <1>6, <1>7, <1>8, <1>9, <1>12 DEF CL_ConnectionlessPacket
  <1> QED BY <1>10, <1>11, <1>12

-----------------------------------------------------------------------------
(* The server answers a request for a challenge. *)

LEMMA EntryExists ==
    ASSUME ServerInv, NEW adr
    PROVE  /\ EntryFor(adr) \in Entry
           /\ \A e \in Entry : ~challenges[e].connected /\ challenges[e].adr = adr =>
                 /\ challenges[EntryFor(adr)].adr = adr
                 /\ ~challenges[EntryFor(adr)].connected
  <1> DEFINE unused == {e \in Entry : ~challenges[e].connected /\ challenges[e].adr = adr}
             oldest == {e \in Entry : \A f \in Entry : challenges[e].time <= challenges[f].time}
             times  == {challenges[e].time : e \in Entry}
  <1>1. MAX_CHALLENGES \in Nat \ {0} /\ MaxIssued \in Nat
    BY ConnectionAssumption
  <1>2. unused \in SUBSET (1..MAX_CHALLENGES) /\ oldest \in SUBSET (1..MAX_CHALLENGES)
    BY DEF Entry
  <1>3. EntryFor(adr) = IF unused # {} THEN Min(unused) ELSE Min(oldest)
    BY DEF EntryFor
  <1>4. unused # {} => Min(unused) \in unused
    BY <1>1, <1>2, FirstOf
  <1>5. oldest # {}
    <2>1. \A e \in Entry : challenges[e].time \in Nat
      BY <1>1 DEF ServerInv, EntryRec
    <2>2. times \in SUBSET Nat
      BY <2>1
    <2>3. times # {}
      BY <1>1 DEF Entry
    <2>4. Min(times) \in times /\ \A t \in times : Min(times) <= t
      BY <2>2, <2>3, MinOfNaturals
    <2>5. PICK e \in Entry : challenges[e].time = Min(times)
      BY <2>4
    <2>6. \A f \in Entry : challenges[f].time \in times
      OBVIOUS
    <2> HIDE DEF times
    <2> QED BY <2>4, <2>5, <2>6
  <1>6. Min(oldest) \in oldest
    BY <1>1, <1>2, <1>5, FirstOf
  <1> QED BY <1>3, <1>4, <1>6

\* The number given out is new, and what was unused from the address is void.
LEMMA RequestAnswered ==
    ASSUME IInv, EntriesInv, NEW c \in Client, SV_GetChallenge(FirstPort[c]), issued < MaxIssued
    PROVE  /\ issued' = issued + 1 /\ EntriesInv' /\ UNCHANGED <<slots, game>>
           /\ Reply(FirstPort[c], [kind |-> "challengeResponse", challenge |-> issued + 1])
           /\ \A d \in Client \ {c} : EntriesStay(d)
           /\ \A k : k <= issued => (Dead(c, k) => Dead(c, k)') /\ (Unused(c, k) => Dead(c, k)')
           /\ Unused(c, issued)'
  <1> DEFINE adr   == FirstPort[c]
             e     == EntryFor(adr)
             reuse == ~challenges[e].connected /\ challenges[e].adr = adr
             entry == [adr |-> adr, number |-> issued + 1, connected |-> FALSE,
                       wasrefused |-> FALSE,
                       time |-> IF reuse THEN challenges[e].time ELSE issued + 1]
  <1>1. /\ issued' = issued + 1 /\ UNCHANGED <<slots, game>>
        /\ challenges' = [challenges EXCEPT ![e] = entry]
        /\ Reply(adr, [kind |-> "challengeResponse", challenge |-> issued + 1])
    <2>1. issued # MaxIssued
      BY ConnectionAssumption DEF IInv, ServerInv
    <2> QED BY <2>1 DEF SV_GetChallenge
  <1>2. /\ e \in Entry
        /\ \A f \in Entry : ~challenges[f].connected /\ challenges[f].adr = adr =>
              challenges[e].adr = adr /\ ~challenges[e].connected
    BY EntryExists DEF IInv
  <1>3. issued \in Nat /\ \A f \in Entry : challenges[f].number \in Nat
    BY ConnectionAssumption DEF IInv, ServerInv, EntryRec
  <1>4. entry.adr = adr /\ entry.number = issued + 1 /\ ~entry.connected
    OBVIOUS
  <1>5. adr # 0 /\ \A d \in Client \ {c} : FirstPort[d] # adr
    BY ConnectionAssumption
  <1> HIDE DEF e, entry, adr
  <1>6. challenges'[e] = entry /\ \A f \in Entry : f # e => challenges'[f] = challenges[f]
    BY <1>1, <1>2 DEF IInv, ServerInv
  <1>7. \A f \in Entry : challenges[f].number <= issued
    BY DEF EntriesInv
  <1>8. \A f \in Entry : ~challenges[f].connected /\ challenges[f].adr = adr => f = e
    BY <1>2, <1>5 DEF EntriesInv
  <1>9. EntriesInv'
    <2>1. \A f \in Entry : challenges'[f].number <= issued'
      BY <1>1, <1>3, <1>4, <1>6, <1>7
    <2>2. ASSUME NEW d \in Entry, NEW f \in Entry,
                 challenges'[d].adr = challenges'[f].adr, challenges'[f].adr # 0,
                 ~challenges'[d].connected, ~challenges'[f].connected
          PROVE  d = f
      BY <1>4, <1>6, <1>8, <2>2 DEF EntriesInv
    <2> QED BY <2>1, <2>2 DEF EntriesInv
  <1>10. \A d \in Client \ {c} : EntriesStay(d)
    BY <1>4, <1>5, <1>6 DEF EntriesStay
  <1>11. \A k : k <= issued => k # issued + 1
    BY <1>3
  <1>12. ASSUME NEW k, k <= issued
         PROVE  (Dead(c, k) => Dead(c, k)') /\ (Unused(c, k) => Dead(c, k)')
    BY <1>4, <1>6, <1>8, <1>11, <1>12 DEF Dead, Unused, adr
  <1>13. Unused(c, issued)'
    <2>1. ASSUME NEW f \in Entry, f # e PROVE challenges'[f].number # issued'
      <3>1. challenges'[f].number <= issued /\ challenges'[f].number \in Nat
        BY <1>3, <1>6, <1>7, <2>1
      <3> QED BY <1>1, <1>3, <3>1
    <2> QED BY <1>4, <1>6, <2>1 DEF Unused
  <1> QED BY <1>1, <1>9, <1>10, <1>12, <1>13 DEF adr

\* The answers in a queue to which the server has replied.
LEMMA OneMoreAnswer ==
    ASSUME IInv, IInv', NEW c \in Client, NEW adr, NEW packet \in Answer, Reply(adr, packet)
    PROVE  LET last == Len(toClient[c]) + 1
           IN  /\ last \in Nat
               /\ \A j \in Given(c) : j < last
               /\ \A j \in Arrives(toClient[c], "connectResponse") : j < last
               /\ \A j \in Given(c)' :
                     \/ j \in Given(c) /\ toClient'[c][j].challenge = toClient[c][j].challenge
                     \/ /\ j = last /\ port[c] = adr /\ packet.kind = "challengeResponse"
                        /\ toClient'[c][j].challenge = packet.challenge
               /\ \A j \in Arrives(toClient'[c], "connectResponse") :
                     \/ j \in Arrives(toClient[c], "connectResponse")
                     \/ j = last /\ port[c] = adr /\ packet.kind = "connectResponse"
  <1> DEFINE last == Len(toClient[c]) + 1
  <1>1. toClient[c] \in Seq(Answer) /\ toClient'[c] \in Seq(Answer)
    BY DEF IInv, NetInv
  <1>2. Len(toClient[c]) \in Nat /\ DOMAIN toClient[c] = 1..Len(toClient[c])
        /\ DOMAIN toClient'[c] = 1..Len(toClient'[c])
    BY <1>1
  <1>3. \A j \in DOMAIN toClient[c] : j < last
    BY <1>2
  <1>4. \A j \in DOMAIN toClient'[c] :
           \/ j \in DOMAIN toClient[c] /\ toClient'[c][j] = toClient[c][j]
           \/ j = last /\ port[c] = adr /\ toClient'[c][j] = packet
    <2>1. CASE toClient'[c] = toClient[c]
      BY <2>1
    <2>2. CASE /\ port[c] = adr
               /\ Len(toClient'[c]) = Len(toClient[c]) + 1
               /\ \A j \in 1..Len(toClient[c]) : toClient'[c][j] = toClient[c][j]
               /\ toClient'[c][Len(toClient[c]) + 1] = packet
      <3>1. DOMAIN toClient'[c] = 1..Len(toClient[c]) + 1
        BY <1>2, <2>2
      <3>2. ASSUME NEW j \in DOMAIN toClient'[c]
            PROVE  j \in DOMAIN toClient[c] \/ j = last
        BY <1>2, <3>1
      <3> QED BY <1>2, <2>2, <3>2
    <2> QED BY <2>1, <2>2, ReplyEffect
  <1>5. last \in Nat
    BY <1>2
  <1> HIDE DEF last
  <1>6. /\ \A j \in Given(c)' :
              \/ j \in Given(c) /\ toClient'[c][j].challenge = toClient[c][j].challenge
              \/ /\ j = last /\ port[c] = adr /\ packet.kind = "challengeResponse"
                 /\ toClient'[c][j].challenge = packet.challenge
        /\ \A j \in Arrives(toClient'[c], "connectResponse") :
              \/ j \in Arrives(toClient[c], "connectResponse")
              \/ j = last /\ port[c] = adr /\ packet.kind = "connectResponse"
    BY <1>4 DEF Given, Arrives
  <1>7. /\ \A j \in Given(c) : j < last
        /\ \A j \in Arrives(toClient[c], "connectResponse") : j < last
    BY <1>3 DEF Given, Arrives
  <1> QED BY <1>5, <1>6, <1>7 DEF last

\* A reply to one client does not reach another.
LEMMA ReplyToOne ==
    ASSUME IInv, port = FirstPort, NEW c \in Client, NEW packet \in Answer,
           Reply(FirstPort[c], packet), NEW d \in Client \ {c}
    PROVE  toClient'[d] = toClient[d]
  <1>1. FirstPort[d] # FirstPort[c]
    BY ConnectionAssumption
  <1> QED BY <1>1, ReplyEffect

LEMMA AskerHandshake ==
    ASSUME Ordered, IInv, IInv', EntriesInv, NEW c \in Client, Handshake(c),
           NEW n \in Requests(c), SV_PacketEvent(c, n), SV_GetChallenge(FirstPort[c]),
           issued < MaxIssued
    PROVE  Handshake(c)'
  <1> DEFINE answer == [kind |-> "challengeResponse", challenge |-> issued + 1]
             last   == Len(toClient[c]) + 1
  <1>1. /\ issued' = issued + 1 /\ UNCHANGED <<slots, client>> /\ Reply(FirstPort[c], answer)
        /\ \A k : k <= issued => (Dead(c, k) => Dead(c, k)') /\ (Unused(c, k) => Dead(c, k)')
        /\ Unused(c, issued)'
    BY RequestAnswered DEF SV_PacketEvent
  <1>2. /\ issued \in Nat /\ issued' \in Nat
        /\ \A x \in Nat : x <= issued => x <= issued' /\ x < issued'
    BY <1>1, Positions
  <1>3. answer \in Answer /\ answer.kind = "challengeResponse" /\ answer.challenge = issued'
    <2>1. issued + 1 \in 1..MaxIssued
      BY <1>2, ConnectionAssumption
    <2> QED BY <1>1, <2>1 DEF Answer
  <1> HIDE DEF answer
  <1>4. /\ last \in Nat
        /\ \A j \in Given(c) : j < last
        /\ \A j \in Arrives(toClient[c], "connectResponse") : j < last
        /\ \A j \in Given(c)' :
              \/ j \in Given(c) /\ toClient'[c][j].challenge = toClient[c][j].challenge
              \/ j = last /\ toClient'[c][j].challenge = issued'
        /\ \A j \in Arrives(toClient'[c], "connectResponse") :
              j \in Arrives(toClient[c], "connectResponse")
    BY <1>1, <1>3, OneMoreAnswer
  <1> HIDE DEF last
  <1>5. n \in Nat /\ LaterRequests(c, n)
    BY ArrivedRequest DEF Requests, Arrives
  <1>6. /\ \A j \in Connects(c)' :
              n + j \in Connects(c) /\ toServer'[c][j].challenge = toServer[c][n + j].challenge
        /\ \A j \in Requests(c)' : n + j \in Requests(c)
    BY <1>5, LaterRequestsAre
  <1>7. /\ \A j \in Connects(c)' : j \in Nat \ {0}
        /\ \A j \in Requests(c)' : j \in Nat \ {0}
    <2>1. toServer'[c] \in Seq(Request)
      BY DEF IInv, NetInv
    <2> QED BY <2>1 DEF Connects, Requests, Arrives
  <1>8. /\ client[c].challenge \in Nat /\ client[c].challenge <= issued
        /\ \A j \in Connects(c) : toServer[c][j].challenge \in Nat
                                  /\ toServer[c][j].challenge <= issued
        /\ \A j \in Given(c) : j \in Nat /\ toClient[c][j].challenge \in Nat
                               /\ toClient[c][j].challenge <= issued
    BY Positions DEF Handshake, KnownInv
  \* What is left on the way to the server, and what the client waits with, is void.
  <1>9. ASSUME NEW j \in Connects(c)'
        PROVE  /\ toServer'[c][j].challenge <= issued
               /\ Unused(c, toServer'[c][j].challenge)
    <2>1. n + j \in Connects(c) /\ n + j > n
      BY <1>5, <1>6, <1>7
    <2> QED BY <1>6, <1>8, <2>1 DEF Handshake, RequestsInv
  <1>10. \A j \in Connects(c)' : Dead(c, toServer[c][j].challenge)'
    BY <1>1, <1>9 DEF Dead
  <1>11. client'[c].state = "challenging" => Dead(c, client[c].challenge)'
    <2>1. client[c].state = "challenging" => Unused(c, client[c].challenge)
      BY DEF Handshake, RequestsInv
    <2> QED BY <1>1, <1>8, <2>1 DEF Dead
  <1>12. KnownInv(c)'
    <2>1. client'[c].challenge <= issued'
      BY <1>1, <1>2, <1>8
    <2>2. \A j \in Connects(c)' : toServer'[c][j].challenge <= issued'
      BY <1>2, <1>6, <1>8
    <2>3. \A j \in Given(c)' : toClient'[c][j].challenge <= issued'
      BY <1>2, <1>4, <1>8
    <2> QED BY <2>1, <2>2, <2>3 DEF KnownInv
  <1>13. ConnectsInv(c)'
    BY <1>10 DEF ConnectsInv
  <1>14. \A k : Dead(c, k)' => Unused(c, k)'
    BY DEF Dead, Unused
  <1>15. RequestsInv(c)'
    <2> SUFFICES ASSUME NEW m \in Requests(c)'
                 PROVE  /\ client'[c].state = "challenging" => Unused(c, client[c].challenge)'
                        /\ \A k \in Connects(c)' : k > m => Unused(c, toServer[c][k].challenge)'
                        /\ \A j \in Connects(c)' : j < m =>
                              /\ toServer'[c][j].challenge # client'[c].challenge
                              /\ \A k \in Connects(c)' : k > m =>
                                    toServer'[c][j].challenge # toServer'[c][k].challenge
      BY DEF RequestsInv
    <2>1. /\ client'[c].state = "challenging" => Unused(c, client[c].challenge)'
          /\ \A k \in Connects(c)' : k > m => Unused(c, toServer[c][k].challenge)'
      BY <1>10, <1>11 DEF Dead, Unused
    <2>2. ASSUME NEW j \in Connects(c)', j < m
          PROVE  /\ toServer'[c][j].challenge # client'[c].challenge
                 /\ \A k \in Connects(c)' : k > m =>
                       toServer'[c][j].challenge # toServer'[c][k].challenge
      <3>1. n + m \in Requests(c) /\ n + j < n + m
        BY <1>5, <1>6, <1>7, <2>2
      <3>2. \A k \in Connects(c)' : k > m => n + k > n + m
        BY <1>5, <1>7
      <3> QED BY <1>1, <1>6, <3>1, <3>2 DEF Handshake, RequestsInv
    <2> QED BY <2>1, <2>2
  <1>16. GivenInv(c)'
    <2> SUFFICES ASSUME NEW m \in Given(c)'
                 PROVE  /\ Unused(c, toClient[c][m].challenge)'
                        /\ client'[c].challenge < toClient'[c][m].challenge
                        /\ \A k \in Connects(c)' : toServer'[c][k].challenge < toClient'[c][m].challenge
                        /\ \A k \in Given(c)' : k > m =>
                              toClient'[c][k].challenge > toClient'[c][m].challenge
                        /\ \A k \in Given(c)' : k > m => Dead(c, toClient[c][m].challenge)'
                        /\ \A k \in Arrives(toClient'[c], "connectResponse") : k < m
      BY <1>10, <1>11 DEF GivenInv
    <2>1. CASE m \in Given(c) /\ toClient'[c][m].challenge = toClient[c][m].challenge
      <3> DEFINE number == toClient[c][m].challenge
      <3>1. /\ Unused(c, number) /\ client[c].challenge < number
            /\ \A k \in Connects(c) : toServer[c][k].challenge < number
            /\ \A k \in Given(c) : k > m => toClient[c][k].challenge > number
            /\ \A k \in Arrives(toClient[c], "connectResponse") : k < m
        BY <2>1 DEF Handshake, GivenInv
      <3>2. number <= issued /\ number < issued' /\ toClient'[c][m].challenge = number
        BY <1>2, <1>8, <2>1
      <3> HIDE DEF number
      <3>3. Dead(c, toClient[c][m].challenge)'
        BY <1>1, <3>1, <3>2 DEF Dead
      <3>4. Unused(c, toClient[c][m].challenge)'
        BY <3>3 DEF Dead, Unused
      <3>5. \A k \in Given(c)' : k > m => toClient'[c][k].challenge > number
        BY <1>4, <3>1, <3>2
      <3> QED BY <1>1, <1>4, <1>6, <3>1, <3>2, <3>3, <3>4, <3>5
    <2>2. CASE m = last /\ toClient'[c][m].challenge = issued'
      <3>1. Unused(c, toClient[c][m].challenge)'
        BY <1>1, <2>2 DEF Unused
      <3>2. \A k \in Given(c)' : ~(k > m)
        BY <1>4, <1>8, <2>2
      <3>3. client'[c].challenge < issued'
        BY <1>1, <1>2, <1>8
      <3>4. \A k \in Connects(c)' : toServer'[c][k].challenge < issued'
        BY <1>2, <1>6, <1>8
      <3>5. \A k \in Arrives(toClient'[c], "connectResponse") : k < m
        BY <1>4, <2>2
      <3> QED BY <2>2, <3>1, <3>2, <3>3, <3>4, <3>5
    <2> QED BY <1>4, <2>1, <2>2
  <1>17. AnswerInv(c)'
    BY <1>1, <1>4 DEF Handshake, AnswerInv, Admitted
  <1> QED BY <1>12, <1>13, <1>15, <1>16, <1>17 DEF Handshake

-----------------------------------------------------------------------------
(* The server takes a connect. *)

\* What a client that has proved its address gets: a slot with the number it
\* connects with and an answer, or neither.
LEMMA EnterEffect ==
    ASSUME IInv, NEW c \in Client, NEW number, Proofs(FirstPort[c], number) # {},
           Enter(Min(Proofs(FirstPort[c], number)), FirstPort[c], c, number)
    PROVE  \E e \in Entry :
              /\ challenges[e].adr = FirstPort[c] /\ challenges[e].number = number
              /\ challenges' = [challenges EXCEPT ![e].connected = TRUE]
              /\ \/ SlotsStay /\ UNCHANGED toClient
                 \/ \E i \in Slot : Gets(c, i, number)
                                    /\ Reply(FirstPort[c], [kind |-> "connectResponse"])
  <1> DEFINE adr == FirstPort[c]
             i   == Min(SlotsFor(adr, c))
             e   == Min(Proofs(adr, number))
  <1>1. ServerInv
    BY DEF IInv
  <1>2. Proofs(adr, number) \in SUBSET (1..MAX_CHALLENGES)
    BY DEF Proofs, Entry
  <1>3. e \in Proofs(adr, number)
    BY <1>2, FirstOf, ConnectionAssumption
  <1>4. /\ e \in Entry /\ challenges[e].adr = adr /\ challenges[e].number = number
    BY <1>3 DEF Proofs
  <1>5. challenges' = [challenges EXCEPT ![e].connected = TRUE]
    BY DEF Enter
  <1>6. CASE Refused
    BY <1>4, <1>5, <1>6 DEF Refused, SlotsStay
  <1>7. CASE SlotsFor(adr, c) # {} /\ Deny(i)
    <2>1. SlotsStay /\ UNCHANGED toClient
      BY <1>1, <1>7 DEF Deny, SlotsStay, ServerInv, NoSlot
    <2> QED BY <1>4, <1>5, <2>1
  <1>8. CASE SlotsFor(adr, c) # {} /\ Admit(i, adr, c, number)
    <2>1. i \in SlotsFor(adr, c) /\ i \in Slot
      BY <1>8, SlotGiven DEF SlotsFor
    <2>2. Gets(c, i, number) /\ Reply(adr, [kind |-> "connectResponse"])
      BY <1>8, <2>1 DEF Admit, Gets
    <2> QED BY <1>4, <1>5, <2>1, <2>2
  <1> QED BY <1>6, <1>7, <1>8 DEF Enter

LEMMA EnterOthers ==
    ASSUME IInv, EntriesInv, NEW c \in Client, NEW e \in Entry, UNCHANGED issued,
           challenges[e].adr = FirstPort[c], challenges' = [challenges EXCEPT ![e].connected = TRUE]
    PROVE  /\ EntriesInv' /\ \A d \in Client \ {c} : EntriesStay(d)
           /\ \A k : Dead(c, k) => Dead(c, k)'
           /\ \A k : k # challenges[e].number => (Unused(c, k) => Unused(c, k)')
  <1>1. /\ \A f \in Entry : /\ challenges'[f].adr = challenges[f].adr
                            /\ challenges'[f].number = challenges[f].number
                            /\ f # e => challenges'[f].connected = challenges[f].connected
        /\ challenges'[e].connected
    BY DEF IInv, ServerInv, EntryRec
  <1>2. \A d \in Client \ {c} : FirstPort[d] # FirstPort[c]
    BY ConnectionAssumption
  <1>3. EntriesInv'
    BY <1>1 DEF EntriesInv
  <1>4. \A d \in Client \ {c} : EntriesStay(d)
    BY ZenonT(30), <1>1, <1>2 DEF EntriesStay
  <1>5. \A k : Dead(c, k) => Dead(c, k)'
    BY <1>1 DEF Dead
  <1>6. \A k : k # challenges[e].number => (Unused(c, k) => Unused(c, k)')
    BY <1>1 DEF Unused
  <1> QED BY <1>3, <1>4, <1>5, <1>6

LEMMA EnterHandshake ==
    ASSUME Ordered, IInv, IInv', OwnInv, EntriesInv, NEW c \in Client, Handshake(c),
           NEW n \in Connects(c), SV_PacketEvent(c, n), UNCHANGED issued,
           NEW e \in Entry, challenges[e].adr = FirstPort[c],
           challenges[e].number = toServer[c][n].challenge,
           challenges' = [challenges EXCEPT ![e].connected = TRUE],
           \/ SlotsStay /\ UNCHANGED toClient
           \/ \E i \in Slot : /\ Gets(c, i, toServer[c][n].challenge)
                              /\ Reply(FirstPort[c], [kind |-> "connectResponse"])
    PROVE  Handshake(c)'
  <1> DEFINE number == toServer[c][n].challenge
             answer == [kind |-> "connectResponse"]
  <1>1. /\ \A k : Dead(c, k) => Dead(c, k)'
        /\ \A k : k # number => (Unused(c, k) => Unused(c, k)')
        /\ client' = client /\ issued' = issued
    BY EnterOthers DEF SV_PacketEvent
  <1>2. ~Dead(c, number)
    BY DEF Dead
  <1>3. /\ n \in Nat /\ number \in Nat \ {0} /\ client[c].challenge \in Nat
        /\ client[c].challenge # 0 <=> client[c].state \in {"challenging", "connected"}
    BY Positions
  \* The number is the client's present one, if it has one, and no newer is on the way.
  <1>4. client[c].challenge # 0 => number = client[c].challenge
    BY <1>2 DEF Handshake, ConnectsInv
  <1>5. \A m \in Given(c) : FALSE
    BY <1>2 DEF Handshake, GivenInv
  <1>6. LaterRequests(c, n)
    BY ArrivedRequest DEF Connects, Arrives
  <1>7. /\ \A j \in Connects(c)' :
              n + j \in Connects(c) /\ toServer'[c][j].challenge = toServer[c][n + j].challenge
        /\ \A j \in Requests(c)' : n + j \in Requests(c)
    BY <1>3, <1>6, LaterRequestsAre
  <1>8. /\ \A j \in Connects(c)' : j \in Nat \ {0}
        /\ \A j \in Requests(c)' : j \in Nat \ {0}
    <2>1. toServer'[c] \in Seq(Request)
      BY DEF IInv, NetInv
    <2> QED BY <2>1 DEF Connects, Requests, Arrives
  <1>9. \A m \in Given(c)' : FALSE
    <2>1. CASE UNCHANGED toClient
      BY <1>5, <2>1 DEF Given, Arrives
    <2>2. CASE Reply(FirstPort[c], answer)
      <3>1. answer \in Answer /\ answer.kind # "challengeResponse"
        BY DEF Answer
      <3> HIDE DEF answer
      <3> QED BY <1>5, <2>2, <3>1, OneMoreAnswer
    <2> QED BY <2>1, <2>2
  <1>10. KnownInv(c)'
    BY <1>1, <1>7, <1>9 DEF Handshake, KnownInv
  <1>11. ConnectsInv(c)'
    <2>1. ASSUME NEW j \in Connects(c)', client[c].challenge # 0
          PROVE  \/ toServer'[c][j].challenge = client[c].challenge
                 \/ Dead(c, toServer'[c][j].challenge)
      BY <1>7, <2>1 DEF Handshake, ConnectsInv
    <2> QED BY <1>1, <2>1 DEF ConnectsInv, Dead
  <1>12. RequestsInv(c)'
    <2> SUFFICES ASSUME NEW m \in Requests(c)'
                 PROVE  /\ client[c].state # "challenging"
                        /\ \A k \in Connects(c)' : k > m => Unused(c, toServer[c][k].challenge)'
                        /\ \A j \in Connects(c)' : j < m =>
                              /\ toServer'[c][j].challenge # client[c].challenge
                              /\ \A k \in Connects(c)' : k > m =>
                                    toServer'[c][j].challenge # toServer'[c][k].challenge
      BY <1>1 DEF RequestsInv
    <2>1. n + m \in Requests(c) /\ n < n + m
      BY <1>3, <1>7, <1>8
    <2>2. /\ number # client[c].challenge
          /\ \A k \in Connects(c) : k > n + m => /\ number # toServer[c][k].challenge
                                                 /\ Unused(c, toServer[c][k].challenge)
          /\ \A j \in Connects(c) : j < n + m =>
                /\ toServer[c][j].challenge # client[c].challenge
                /\ \A k \in Connects(c) : k > n + m =>
                      toServer[c][j].challenge # toServer[c][k].challenge
      BY <2>1 DEF Handshake, RequestsInv
    <2>3. client[c].state # "challenging"
      BY <1>3, <1>4, <2>2
    <2>4. ASSUME NEW k \in Connects(c)', k > m
          PROVE  /\ n + k > n + m /\ toServer'[c][k].challenge # number
                 /\ Unused(c, toServer'[c][k].challenge)
      <3>1. n + k > n + m
        BY <1>3, <1>8, <2>4
      <3> QED BY <1>7, <2>2, <3>1
    <2>5. \A k \in Connects(c)' : k > m => Unused(c, toServer[c][k].challenge)'
      BY <1>1, <2>4 DEF Unused
    <2>6. ASSUME NEW j \in Connects(c)', j < m
          PROVE  /\ toServer'[c][j].challenge # client[c].challenge
                 /\ \A k \in Connects(c)' : k > m =>
                       toServer'[c][j].challenge # toServer'[c][k].challenge
      <3>1. n + j \in Connects(c) /\ n + j < n + m
            /\ toServer'[c][j].challenge = toServer[c][n + j].challenge
        BY <1>3, <1>7, <1>8, <2>6
      <3> QED BY <1>7, <2>2, <2>4, <3>1
    <2> QED BY <2>3, <2>5, <2>6
  <1>13. GivenInv(c)'
    BY <1>9 DEF GivenInv
  <1>14. AnswerInv(c)'
    <2>1. CASE SlotsStay /\ UNCHANGED toClient
      BY <1>1, <2>1 DEF Handshake, AnswerInv, Admitted, SlotsStay
    <2>2. ASSUME NEW i \in Slot, Gets(c, i, number), Admitted(c)'
          PROVE  \A j \in Slot : slots'[j].state # "free" /\ slots'[j].qport = c
                                    => slots'[j].challenge = client[c].challenge
      <3>1. client[c].challenge = number
        BY <1>1, <1>3, <1>4, <2>2 DEF Admitted
      <3>2. \A j \in Slot : j # i => ~(slots[j].state # "free" /\ slots[j].qport = c)
        BY <2>2, GetKeepsOwn DEF OwnInv, IInv
      <3>3. /\ slots'[i].challenge = number
            /\ \A j \in Slot : j # i => slots'[j] = slots[j]
        BY <2>2 DEF Gets, IInv, ServerInv
      <3> QED BY <3>1, <3>2, <3>3
    <2> QED BY <1>1, <2>1, <2>2 DEF AnswerInv
  <1> QED BY <1>10, <1>11, <1>12, <1>13, <1>14 DEF Handshake

\* Steps of the server on a packet of client c: the handshakes of the others.
LEMMA OthersHandshake ==
    ASSUME Ordered, IInv, IInv', NEW c \in Client, NEW n \in DOMAIN toServer[c],
           SV_PacketEvent(c, n), NEW d \in Client \ {c}, Handshake(d),
           EntriesStay(d), SlotsStayOf(d), LaterAnswers(d, 0), issued <= issued'
    PROVE  Handshake(d)'
  <1>1. LaterRequests(d, 0) /\ ClientKeeps(d)
    BY ArrivedRequest DEF SV_PacketEvent, ClientKeeps
  <1> QED BY <1>1, QuietStep

\* A connect that is not taken, or a packet of the netchan: a quiet step for all.
LEMMA QuietPacket ==
    ASSUME Ordered, IInv, IInv', HandshakeInv, NEW c \in Client, NEW n \in DOMAIN toServer[c],
           SV_PacketEvent(c, n), EntriesKept, SlotsStay, \A d \in Client : LaterAnswers(d, 0)
    PROVE  HandshakeInv'
  <1>1. n \in Nat /\ LaterRequests(c, n) /\ \A d \in Client \ {c} : LaterRequests(d, 0)
    BY ArrivedRequest
  <1>2. EntriesInv' /\ (\A d \in Client : EntriesStay(d)) /\ \A d \in Client : SlotsStayOf(d)
    BY KeptEntries, StayOf DEF HandshakeInv
  <1>3. issued <= issued' /\ \A d \in Client : ClientKeeps(d)
    BY ConnectionAssumption DEF EntriesKept, SV_PacketEvent, ClientKeeps, IInv, ServerInv
  <1>4. ASSUME NEW d \in Client PROVE Handshake(d)'
    <2>1. Handshake(d)
      BY DEF HandshakeInv
    <2> QED BY <1>1, <1>2, <1>3, <2>1, QuietStep
  <1> QED BY <1>2, <1>4 DEF HandshakeInv

LEMMA RequestHandshake ==
    ASSUME Ordered, IInv, IInv', port = FirstPort, HandshakeInv,
           NEW c \in Client, NEW n \in Requests(c), SV_PacketEvent(c, n),
           SV_GetChallenge(FirstPort[c])
    PROVE  HandshakeInv'
  <1>1. n \in DOMAIN toServer[c]
    BY DEF Requests, Arrives
  <1>2. EntriesInv /\ Handshake(c) /\ \A d \in Client : Handshake(d)
    BY DEF HandshakeInv
  <1>3. CASE UNCHANGED server /\ UNCHANGED toClient
    <2>1. EntriesKept /\ SlotsStay
      BY <1>3, UnchangedKept DEF server, SlotsStay
    <2>2. \A d \in Client : LaterAnswers(d, 0)
      BY <1>3, SameAnswersLater
    <2> QED BY <1>1, <2>1, <2>2, QuietPacket
  <1>4. CASE issued < MaxIssued
    <2> DEFINE answer == [kind |-> "challengeResponse", challenge |-> issued + 1]
    <2>1. /\ issued' = issued + 1 /\ EntriesInv' /\ UNCHANGED slots /\ Reply(FirstPort[c], answer)
          /\ \A d \in Client \ {c} : EntriesStay(d)
      BY <1>2, <1>4, RequestAnswered
    <2>2. issued \in Nat /\ issued < MaxIssued /\ MaxIssued \in Nat
      BY <1>4, ConnectionAssumption DEF IInv, ServerInv
    <2>3. issued + 1 \in 1..MaxIssued /\ issued <= issued'
      BY <2>1, <2>2
    <2>4. answer \in Answer
      BY <2>3 DEF Answer
    <2> HIDE DEF answer
    <2>5. \A d \in Client \ {c} : toClient'[d] = toClient[d]
      BY <2>1, <2>4, ReplyToOne
    <2>6. \A d \in Client \ {c} : LaterAnswers(d, 0)
      BY <2>5, SameAnswersLater
    <2>7. \A d \in Client : SlotsStayOf(d)
      BY <2>1 DEF SlotsStayOf
    <2>8. \A d \in Client \ {c} : Handshake(d)'
      BY <1>1, <1>2, <2>1, <2>3, <2>6, <2>7, OthersHandshake
    <2>9. Handshake(c)'
      BY <1>2, <1>4, AskerHandshake
    <2> QED BY <2>1, <2>8, <2>9 DEF HandshakeInv
  <1> QED BY <1>3, <1>4 DEF SV_GetChallenge

LEMMA ConnectHandshake ==
    ASSUME Ordered, IInv, IInv', OwnInv, HandshakeInv,
           NEW c \in Client, NEW n \in Connects(c), SV_PacketEvent(c, n),
           SV_DirectConnect(FirstPort[c], c, toServer[c][n].challenge)
    PROVE  HandshakeInv'
  <1> DEFINE adr    == FirstPort[c]
             number == toServer[c][n].challenge
             first  == Min(Proofs(adr, number))
             answer == [kind |-> "connectResponse"]
  <1>1. n \in DOMAIN toServer[c] /\ ServerInv /\ port = FirstPort
    BY DEF Connects, Arrives, IInv, OwnInv, AddressInv
  <1>2. EntriesInv /\ Handshake(c) /\ \A d \in Client : Handshake(d)
    BY DEF HandshakeInv
  <1>3. issued' = issued /\ issued <= issued'
    BY <1>1, ConnectionAssumption DEF SV_DirectConnect, ServerInv
  <1>4. CASE Refused /\ EntriesKept
    <2>1. \A d \in Client : LaterAnswers(d, 0)
      BY <1>4, SameAnswersLater DEF Refused
    <2>2. SlotsStay
      BY <1>4 DEF Refused, SlotsStay
    <2> QED BY <1>1, <1>4, <2>1, <2>2, QuietPacket
  <1>5. CASE Refused /\ UNCHANGED challenges
    BY <1>3, <1>4, <1>5, UnchangedKept
  <1>6. CASE Refused /\ challenges' = [challenges EXCEPT ![first].wasrefused = TRUE]
    <2> HIDE DEF first
    <2>1. \A e \in Entry : /\ challenges'[e].adr = challenges[e].adr
                           /\ challenges'[e].number = challenges[e].number
                           /\ challenges'[e].connected = challenges[e].connected
      BY <1>1, <1>6 DEF ServerInv, EntryRec
    <2>2. EntriesKept
      BY <1>3, <2>1 DEF EntriesKept
    <2> QED BY <1>4, <1>6, <2>2
  <1>7. CASE Proofs(adr, number) # {} /\ Enter(first, adr, c, number)
    <2>1. PICK e \in Entry :
              /\ challenges[e].adr = adr /\ challenges[e].number = number
              /\ challenges' = [challenges EXCEPT ![e].connected = TRUE]
              /\ \/ SlotsStay /\ UNCHANGED toClient
                 \/ \E i \in Slot : Gets(c, i, number) /\ Reply(adr, answer)
      BY <1>7, EnterEffect
    <2>2. EntriesInv' /\ \A d \in Client \ {c} : EntriesStay(d)
      BY <1>2, <1>3, <2>1, EnterOthers
    <2>3. \A d \in Client \ {c} : LaterAnswers(d, 0)
      <3>1. CASE UNCHANGED toClient
        BY <3>1, SameAnswersLater
      <3>2. CASE Reply(adr, answer)
        <4>1. answer \in Answer
          BY DEF Answer
        <4> HIDE DEF answer
        <4>2. \A d \in Client \ {c} : toClient'[d] = toClient[d]
          BY <1>1, <3>2, <4>1, ReplyToOne
        <4> QED BY <4>2, SameAnswersLater
      <3> QED BY <2>1, <3>1, <3>2
    <2>4. \A d \in Client \ {c} : SlotsStayOf(d)
      <3>1. CASE SlotsStay
        BY <3>1, StayOf
      <3>2. ASSUME NEW i \in Slot, Gets(c, i, number) PROVE \A d \in Client \ {c} : SlotsStayOf(d)
        <4>1. slots'[i].qport = c /\ \A j \in Slot : j # i => slots'[j] = slots[j]
          BY <1>1, <3>2 DEF Gets, ServerInv
        <4> QED BY <4>1 DEF SlotsStayOf
      <3> QED BY <2>1, <3>1, <3>2
    <2>5. \A d \in Client \ {c} : Handshake(d)'
      BY <1>1, <1>2, <1>3, <2>2, <2>3, <2>4, OthersHandshake
    <2>6. Handshake(c)'
      BY <1>2, <1>3, <2>1, EnterHandshake
    <2> QED BY <2>2, <2>5, <2>6 DEF HandshakeInv
  <1> QED BY <1>5, <1>6, <1>7 DEF SV_DirectConnect

LEMMA SequencedHandshake ==
    ASSUME Ordered, IInv, IInv', OwnInv, HandshakeInv,
           NEW c \in Client, NEW n \in DOMAIN toServer[c], SV_PacketEvent(c, n),
           SV_SequencedPacket(toServer[c][n], c)
    PROVE  HandshakeInv'
  <1> DEFINE packet == toServer[c][n]
             answer == [kind |-> "oobDisconnect"]
  <1>1. /\ packet \in Request /\ packet.adr = FirstPort[c] /\ ServerInv
        /\ UNCHANGED issued
    BY DEF IInv, NetInv, OwnInv, AddressInv, SV_SequencedPacket
  <1>2. SlotsStay
    BY SMTT(30), <1>1, SequencedPacketStays
  <1>3. EntriesKept
    <2>1. CASE UNCHANGED challenges
      BY <1>1, <2>1, UnchangedKept
    <2>2. ASSUME NEW i, NEW state, DropTo(i, packet.adr, state) PROVE EntriesKept
      BY <1>1, <2>2, WithoutFirstKept DEF DropTo
    <2> QED BY Zenon, <2>1, <2>2 DEF SV_SequencedPacket, SV_ExecuteClientMessage, HeardIn
  <1>4. ASSUME NEW d \in Client PROVE LaterAnswers(d, 0)
    <2>1. CASE UNCHANGED toClient
      BY <2>1, SameAnswersLater
    <2>2. CASE Reply(packet.adr, answer)
      <3>1. answer \in Answer /\ answer.kind \notin {"challengeResponse", "connectResponse"}
        BY DEF Answer
      <3> HIDE DEF answer
      <3> QED BY <2>2, <3>1, ReplyLater
    <2> QED BY <2>1, <2>2 DEF SV_SequencedPacket
  <1> QED BY <1>2, <1>3, <1>4, QuietPacket

LEMMA ServerPacketHandshake ==
    ASSUME Ordered, IInv, IInv', OwnInv, HandshakeInv,
           NEW c \in Client, NEW n \in DOMAIN toServer[c], SV_PacketEvent(c, n)
    PROVE  HandshakeInv'
  <1> DEFINE packet == toServer[c][n]
  <1>1. packet \in Request /\ packet.adr = FirstPort[c] /\ port = FirstPort
    BY DEF IInv, NetInv, OwnInv, AddressInv
  <1>2. CASE packet.kind = "getchallenge"
    <2>1. n \in Requests(c) /\ SV_GetChallenge(FirstPort[c])
      BY <1>1, <1>2 DEF Requests, Arrives, SV_PacketEvent
    <2> QED BY <1>1, <2>1, RequestHandshake
  <1>3. CASE packet.kind = "connect"
    <2>1. n \in Connects(c) /\ SV_DirectConnect(FirstPort[c], c, packet.challenge)
      BY <1>1, <1>3 DEF Connects, Arrives, SV_PacketEvent
    <2> QED BY <2>1, ConnectHandshake
  <1>4. CASE packet.kind \notin {"getchallenge", "connect"}
    <2>1. SV_SequencedPacket(packet, c)
      BY <1>4 DEF SV_PacketEvent
    <2> QED BY <2>1, SequencedHandshake
  <1> QED BY <1>2, <1>3, <1>4

-----------------------------------------------------------------------------
(* The handshake as a whole. *)

LEMMA InitHandshake == Init => HandshakeInv
  <1> SUFFICES ASSUME Init PROVE HandshakeInv
    OBVIOUS
  <1>1. EntriesInv
    BY DEF Init, EntriesInv, NoEntry
  <1>2. ASSUME NEW c \in Client PROVE Handshake(c)
    <2>1. /\ Connects(c) = {} /\ Requests(c) = {} /\ Given(c) = {}
          /\ client[c].challenge = 0 /\ client[c].state = "disconnected" /\ issued = 0
      BY DEF Init, Connects, Requests, Given, Arrives
    <2> QED BY <2>1 DEF Handshake, KnownInv, ConnectsInv, RequestsInv, GivenInv, AnswerInv, Admitted
  <1> QED BY <1>1, <1>2 DEF HandshakeInv

LEMMA NextHandshake ==
    ~Rebinding /\ Ordered /\ IInv /\ IInv' /\ OwnInv /\ HandshakeInv /\ [Next]_vars
        => HandshakeInv'
  <1> SUFFICES ASSUME ~Rebinding, Ordered, IInv, IInv', OwnInv, HandshakeInv, [Next]_vars
               PROVE  HandshakeInv'
    OBVIOUS
  <1>1. CASE UNCHANGED vars
    <2>1. EntriesKept /\ SlotsStay /\ issued <= issued'
      BY <1>1, UnchangedKept, ConnectionAssumption DEF vars, SlotsStay, IInv, ServerInv
    <2>2. ASSUME NEW c \in Client PROVE Handshake(c)'
      <3>1. LaterRequests(c, 0) /\ LaterAnswers(c, 0) /\ ClientKeeps(c)
        BY <1>1, SameRequestsLater, SameAnswersLater DEF vars, ClientKeeps
      <3>2. EntriesStay(c) /\ SlotsStayOf(c) /\ Handshake(c)
        BY <2>1, KeptEntries, StayOf DEF HandshakeInv
      <3> QED BY <2>1, <3>1, <3>2, QuietStep
    <2> QED BY <2>1, <2>2, KeptEntries DEF HandshakeInv
  <1>2. ASSUME NEW c \in Client, NEW n \in DOMAIN toServer[c], SV_PacketEvent(c, n)
        PROVE  HandshakeInv'
    BY <1>2, ServerPacketHandshake
  <1>3. ASSUME NEW c \in Client, NEW n \in DOMAIN toClient[c], CL_PacketEvent(c, n)
        PROVE  HandshakeInv'
    BY <1>3, ClientPacketHandshake
  <1>4. ASSUME NEW c \in Client,
               CL_Connect_f(c) \/ CL_Disconnect_f(c) \/ CL_CheckTimeout(c) \/ ClientSilent(c)
        PROVE  HandshakeInv'
    BY <1>4, CommandHandshake
  <1>5. ASSUME NEW c \in Client, CL_Frame(c) PROVE HandshakeInv'
    BY <1>5, FrameHandshake
  <1>6. ASSUME NEW i \in Slot,
               \/ SV_CheckTimeouts(i) \/ Kick(i) \/ SlotSilent(i) \/ SV_SendClientMessages(i)
        PROVE  HandshakeInv'
    BY <1>6, SlotActionHandshake
  <1> QED BY <1>1, <1>2, <1>3, <1>4, <1>5, <1>6 DEF Next, Rebind

\* While the router keeps the ports and packets arrive in order, what is on the
\* way in a handshake is of the challenge the client has, or void.
THEOREM HandshakeInductive ==
    ASSUME ~Rebinding, Ordered PROVE Spec => []HandshakeInv
  <1> QED BY InitHandshake, NextHandshake, Inductive, OwnSlotsInductive, PTL DEF Spec

\* While the router keeps the ports and packets arrive in order, a client that
\* is connected and has a live slot has it with the challenge it connected with,
\* so the two understand each other's packets.
THEOREM ChallengesAgree ==
    ASSUME ~Rebinding, Ordered PROVE Spec => []ConnectionAgrees
  <1>1. HandshakeInv => ConnectionAgrees
    BY DEF HandshakeInv, Handshake, AnswerInv, Admitted, ConnectionAgrees, Live
  <1> QED BY HandshakeInductive, <1>1, PTL
=============================================================================
