------------------------- MODULE ConfigstringsProof -------------------------
(***************************************************************************)
(* Proofs about Configstrings, for any configstrings, values and bounds.   *)
(* The invariant says of a gamestate of this map, under way or with the    *)
(* client, that with the commands that follow it it amounts to the         *)
(* server's configstrings (Becomes); and that whatever a client that has   *)
(* this map's gamestate has received or sent since, is of this map.        *)
(***************************************************************************)
EXTENDS Configstrings, FiniteSetTheorems, SequenceTheorems, TLAPS

Command == [index : Index, value : 0..MaxValue + MaxServerId]

Message == [gamestate : Strings \cup {<<>>}, upTo : Nat, since : BOOLEAN]

Packet == [serverId : 0..MaxServerId, since : BOOLEAN, move : BOOLEAN]

TypeInv ==
    /\ TypeOK
    /\ commands \in Seq(Command)
    /\ toClient \in Seq(Message) /\ toServer \in Seq(Packet)

\* The message holds a gamestate of the server's present map.
ThisMap(m) == m.gamestate # <<>> /\ m.gamestate[SystemInfo] >= sv.restartedServerId

\* Messages tell of ever more commands, none that are not there.
OrderInv ==
    \A k \in DOMAIN toClient :
        /\ client.received <= toClient[k].upTo /\ toClient[k].upTo <= Len(commands)
        /\ \A j \in DOMAIN toClient : j < k => toClient[j].upTo <= toClient[k].upTo

\* The serverId that both sides tell each other is never later than the server's.
IdInv ==
    /\ sv.configstrings[SystemInfo] \in sv.restartedServerId..sv.serverId
    /\ history.gamestate <= sv.serverId /\ client.serverId <= sv.serverId
    /\ \A n \in DOMAIN commands :
          commands[n].index = SystemInfo => commands[n].value <= sv.serverId
    /\ \A k \in DOMAIN toClient :
          toClient[k].gamestate # <<>> => toClient[k].gamestate[SystemInfo] <= sv.serverId
    /\ \A k \in DOMAIN toServer : toServer[k].serverId <= sv.serverId

\* The commands after from are of the server's present map.
OfThisMap(from) ==
    \A n \in from + 1..Len(commands) :
        commands[n].index = SystemInfo => commands[n].value >= sv.restartedServerId

\* String v of i becomes value when the commands after from are executed.
Becomes(v, from, i, value) ==
    /\ \A n \in from + 1..Len(commands) :
          (commands[n].index = i /\ \A j \in n + 1..Len(commands) : commands[j].index # i)
             => commands[n].value = value
    /\ (\A n \in from + 1..Len(commands) : commands[n].index # i) => v = value

\* The server will send i when the client enters the world.
Pending(i) == cl.state = "primed" /\ i \in cl.csUpdated

\* The strings become the server's, as far as the client may see them.
BecomeRight(strings, from) ==
    \A i \in Index \ hidden :
        Pending(i) \/ Becomes(strings[i], from, i, sv.configstrings[i])

\* A gamestate of this map that is under way.
GamestateInv ==
    \A k \in DOMAIN toClient :
        ThisMap(toClient[k]) =>
            /\ OfThisMap(toClient[k].upTo)
            /\ BecomeRight(toClient[k].gamestate, toClient[k].upTo)

\* A client that has a gamestate of this map, and nothing from before it.
Settled == HasGamestate /\ ~history.replayed

ClientInv ==
    Settled =>
        /\ OfThisMap(client.mark)
        /\ client.serverId >= sv.restartedServerId
        /\ client.executed >= client.mark =>
              BecomeRight(client.configstrings, client.executed)

\* A client that is connected has been sent no gamestate of this map.
ConnectedInv ==
    cl.state = "connected" =>
        /\ ~HasGamestate
        /\ \A k \in DOMAIN toClient : ~ThisMap(toClient[k])

\* While a gamestate is under way nobody has, or tells, anything since; and what
\* a settled client sent since it was sent a gamestate is of this map.
SinceInv ==
    /\ \A k \in DOMAIN toClient :
          toClient[k].gamestate # <<>> =>
             /\ ~client.since
             /\ \A j \in DOMAIN toServer : ~toServer[j].since
             /\ \A j \in 1..k : ~toClient[j].since
    /\ Settled =>
          \A k \in DOMAIN toServer :
              toServer[k].since => toServer[k].serverId >= sv.restartedServerId

IInv ==
    /\ TypeInv /\ OrderInv /\ IdInv /\ GamestateInv /\ ClientInv /\ ConnectedInv /\ SinceInv

-----------------------------------------------------------------------------
(* What the invariant says of each part of the state. *)

LEMMA Constants ==
    /\ MaxValue \in Nat /\ MaxServerId \in Nat \ {0}
    /\ IsFiniteSet(Index) /\ SystemInfo \in Index /\ GameString \subseteq Index
    /\ SystemInfo \notin GameString
  <1>1. IsFiniteSet(GameString \cup {SystemInfo})
    BY FS_Singleton, FS_Union, ConfigstringsAssumption
  <1> QED BY <1>1, ConfigstringsAssumption DEF Index

LEMMA SvFields ==
    ASSUME TypeInv
    PROVE  /\ sv.serverId \in 1..MaxServerId /\ sv.serverId \in Int
           /\ sv.restartedServerId \in 1..MaxServerId /\ sv.restartedServerId \in Int
           /\ sv.restartedServerId <= sv.serverId
           /\ sv.configstrings \in Strings
           /\ \A i \in Index : sv.configstrings[i] \in 0..MaxValue + MaxServerId
           /\ sv.configstrings[SystemInfo] \in Int
           /\ sv = [serverId |-> sv.serverId, restartedServerId |-> sv.restartedServerId,
                    configstrings |-> sv.configstrings]
  <1>1. sv \in [serverId : 1..MaxServerId, restartedServerId : 1..MaxServerId,
                configstrings : Strings] /\ sv.restartedServerId <= sv.serverId
    BY DEF TypeInv, TypeOK
  <1>2. \A i \in Index : sv.configstrings[i] \in 0..MaxValue + MaxServerId
    BY <1>1 DEF Strings
  <1>3. sv.configstrings[SystemInfo] \in Int
    BY <1>2, Constants
  <1> QED BY <1>1, <1>2, <1>3, Constants

LEMMA ClFields ==
    ASSUME TypeInv
    PROVE  /\ cl.state \in {"connected", "primed", "active"} /\ cl.csUpdated \subseteq Index
           /\ cl = [state |-> cl.state, csUpdated |-> cl.csUpdated]
           /\ hidden \subseteq GameString
  BY DEF TypeInv, TypeOK

LEMMA ClientFields ==
    ASSUME TypeInv
    PROVE  /\ client.state \in {"connected", "loading", "primed"}
           /\ client.configstrings \in Strings
           /\ client.serverId \in 0..MaxServerId /\ client.serverId \in Int
           /\ client.received \in 0..Len(commands) /\ client.received \in Nat
           /\ client.executed \in 0..Len(commands) /\ client.executed \in Nat
           /\ client.mark \in 0..Len(commands) /\ client.mark \in Nat
           /\ client.since \in BOOLEAN /\ client.executed <= client.received
           /\ Len(commands) \in Nat /\ DOMAIN commands = 1..Len(commands)
           /\ history.gamestate \in 0..MaxServerId /\ history.gamestate \in Int
           /\ history.replayed \in BOOLEAN
  <1>1. /\ client \in [state : {"connected", "loading", "primed"}, configstrings : Strings,
                       serverId : 0..MaxServerId, received : 0..Len(commands),
                       executed : 0..Len(commands), mark : 0..Len(commands), since : BOOLEAN]
        /\ client.executed <= client.received
        /\ history \in [replayed : BOOLEAN, gamestate : 0..MaxServerId]
        /\ commands \in Seq(Command)
    BY DEF TypeInv, TypeOK
  <1>2. Len(commands) \in Nat /\ DOMAIN commands = 1..Len(commands)
    BY <1>1
  <1> QED BY <1>1, <1>2, Constants

LEMMA CommandFields ==
    ASSUME TypeInv, NEW n \in 1..Len(commands)
    PROVE  /\ n \in Nat /\ commands[n] \in Command /\ commands[n].index \in Index
           /\ commands[n].value \in 0..MaxValue + MaxServerId /\ commands[n].value \in Nat
  <1>1. commands \in Seq(Command) /\ Len(commands) \in Nat
    BY DEF TypeInv
  <1>2. commands[n] \in Command
    BY <1>1
  <1> QED BY <1>1, <1>2, Constants DEF Command

LEMMA DownFields ==
    ASSUME TypeInv, NEW k \in DOMAIN toClient
    PROVE  /\ k \in 1..Len(toClient) /\ k \in Nat /\ Len(toClient) \in Nat
           /\ toClient[k] \in Message
           /\ toClient[k].upTo \in Nat /\ toClient[k].since \in BOOLEAN
           /\ toClient[k].gamestate # <<>> => /\ toClient[k].gamestate \in Strings
                                              /\ toClient[k].gamestate[SystemInfo] \in Int
  <1>1. toClient \in Seq(Message)
    BY DEF TypeInv
  <1>2. k \in 1..Len(toClient) /\ Len(toClient) \in Nat /\ toClient[k] \in Message
    BY <1>1
  <1>3. toClient[k].gamestate \in Strings \cup {<<>>}
    BY <1>2 DEF Message
  <1>4. ASSUME toClient[k].gamestate \in Strings PROVE toClient[k].gamestate[SystemInfo] \in Int
    <2>1. toClient[k].gamestate[SystemInfo] \in 0..MaxValue + MaxServerId
      BY <1>4, Constants DEF Strings
    <2> QED BY <2>1, Constants
  <1> QED BY <1>2, <1>3, <1>4 DEF Message

LEMMA UpFields ==
    ASSUME TypeInv, NEW k \in DOMAIN toServer
    PROVE  /\ k \in 1..Len(toServer) /\ k \in Nat /\ Len(toServer) \in Nat
           /\ toServer[k] \in Packet
           /\ toServer[k].serverId \in 0..MaxServerId /\ toServer[k].serverId \in Int
           /\ toServer[k].since \in BOOLEAN /\ toServer[k].move \in BOOLEAN
  <1>1. toServer \in Seq(Packet)
    BY DEF TypeInv
  <1>2. k \in 1..Len(toServer) /\ Len(toServer) \in Nat /\ toServer[k] \in Packet
    BY <1>1
  <1> QED BY <1>2, Constants DEF Packet

-----------------------------------------------------------------------------
(* Commands the server adds. *)

\* block is added, with commands for the strings in S: a string for which there
\* is none, and which is not pending, is as it was.
Adds(block, S) ==
    /\ block \in Seq(Command)
    /\ commands' = commands \o block
    /\ \A n \in DOMAIN block :
          /\ block[n].index \in S
          /\ block[n].index \notin hidden' => block[n].value = sv'.configstrings[block[n].index]
    /\ \A i \in S : \E n \in DOMAIN block : block[n].index = i
    /\ cl.state = "connected" \/ \A i \in Index \ hidden' :
          i \notin S /\ ~Pending(i)' =>
              i \notin hidden /\ ~Pending(i) /\ sv'.configstrings[i] = sv.configstrings[i]

LEMMA Appended ==
    ASSUME TypeInv, NEW block \in Seq(Command), commands' = commands \o block
    PROVE  /\ commands' \in Seq(Command) /\ Len(block) \in Nat
           /\ Len(commands') = Len(commands) + Len(block) /\ Len(commands') \in Nat
           /\ Len(commands) <= Len(commands')
           /\ \A n \in 1..Len(commands) : commands'[n] = commands[n]
           /\ \A n \in 1..Len(block) : /\ Len(commands) + n \in 1..Len(commands')
                                       /\ commands'[Len(commands) + n] = block[n]
           /\ \A n \in 1..Len(commands') :
                 n \notin 1..Len(commands) => /\ n - Len(commands) \in 1..Len(block)
                                              /\ commands'[n] = block[n - Len(commands)]
  <1>1. commands \in Seq(Command)
    BY DEF TypeInv
  <1> QED BY <1>1

LEMMA StillBecomes ==
    ASSUME TypeInv, NEW block, NEW S, Adds(block, S), NEW from \in 0..Len(commands),
           NEW v, NEW i \in Index \ hidden', NEW value, value = sv'.configstrings[i],
           i \in S \/ Becomes(v, from, i, value)
    PROVE  Becomes(v, from, i, value)'
  <1> DEFINE old == Len(commands)
             new == Len(commands')
  <1>1. /\ Len(block) \in Nat /\ old \in Nat /\ new \in Nat /\ new = old + Len(block)
        /\ \A n \in 1..old : commands'[n] = commands[n]
        /\ \A n \in 1..Len(block) : old + n \in 1..new /\ commands'[old + n] = block[n]
        /\ \A n \in 1..new :
              n \notin 1..old => n - old \in 1..Len(block) /\ commands'[n] = block[n - old]
    BY Appended, ClientFields DEF Adds
  <1>2. DOMAIN block = 1..Len(block)
    BY DEF Adds
  <1>3. \A n \in 1..Len(block) :
            block[n].index \in S /\ (block[n].index = i => block[n].value = value)
    BY <1>2 DEF Adds
  <1>4. i \in S => \E n \in 1..Len(block) : block[n].index = i
    BY <1>2 DEF Adds
  <1>5. from \in Nat /\ from <= old
    BY <1>1
  <1> HIDE DEF old, new
  <1>6. ASSUME NEW n \in from + 1..new, commands'[n].index = i,
               \A j \in n + 1..new : commands'[j].index # i
        PROVE  commands'[n].value = value
    <2>0. n \in Int /\ n \in 1..new
      BY <1>1, <1>5
    <2>1. CASE n \in 1..old
      <3>1. i \notin S
        <4>1. SUFFICES ASSUME i \in S PROVE FALSE
          OBVIOUS
        <4>2. PICK p \in 1..Len(block) : block[p].index = i
          BY <1>4, <4>1
        <4>3. old + p \in n + 1..new /\ commands'[old + p].index = i
          BY <1>1, <2>1, <4>2
        <4> QED BY <1>6, <4>3
      <3>2. Becomes(v, from, i, value)
        BY <3>1
      <3>3. n \in from + 1..old
        BY <1>1, <1>5, <2>0, <2>1
      <3>4. \A j \in n + 1..old : commands[j].index # i
        <4>1. ASSUME NEW j \in n + 1..old PROVE commands[j].index # i
          <5>1. j \in n + 1..new /\ j \in 1..old
            BY <1>1, <2>0, <4>1
          <5> QED BY <1>1, <1>6, <5>1
        <4> QED BY <4>1
      <3>5. commands[n].index = i
        BY <1>1, <1>6, <2>1
      <3>6. commands[n].value = value
        BY <3>2, <3>3, <3>4, <3>5 DEF Becomes, old
      <3> QED BY <1>1, <2>1, <3>6
    <2>2. CASE n \notin 1..old
      <3>1. n - old \in 1..Len(block) /\ commands'[n] = block[n - old]
        BY <1>1, <2>0, <2>2
      <3> QED BY <1>3, <1>6, <3>1
    <2> QED BY <2>1, <2>2
  <1>7. ASSUME \A n \in from + 1..new : commands'[n].index # i
        PROVE  v = value
    <2>1. i \notin S
      <3>1. SUFFICES ASSUME i \in S PROVE FALSE
        OBVIOUS
      <3>2. PICK p \in 1..Len(block) : block[p].index = i
        BY <1>4, <3>1
      <3>3. old + p \in from + 1..new /\ commands'[old + p].index = i
        BY <1>1, <1>5, <3>2
      <3> QED BY <1>7, <3>3
    <2>2. \A n \in from + 1..old : commands[n].index # i
      <3>1. ASSUME NEW n \in from + 1..old PROVE commands[n].index # i
        <4>1. n \in from + 1..new /\ n \in 1..old
          BY <1>1, <1>5
        <4> QED BY <1>1, <1>7, <4>1
      <3> QED BY <3>1
    <2> QED BY <2>1, <2>2 DEF Becomes, old
  <1> QED BY <1>6, <1>7 DEF Becomes, new

LEMMA StillRight ==
    ASSUME TypeInv, NEW block, NEW S, Adds(block, S), cl.state # "connected",
           NEW strings, NEW from \in 0..Len(commands), BecomeRight(strings, from)
    PROVE  BecomeRight(strings, from)'
  <1>1. ASSUME NEW i \in Index \ hidden', ~Pending(i)'
        PROVE  Becomes(strings[i], from, i, sv.configstrings[i])'
    <2>1. PICK value : value = sv'.configstrings[i]
      OBVIOUS
    <2>2. PICK v : v = strings[i]
      OBVIOUS
    <2>3. i \in S \/ Becomes(v, from, i, value)
      <3>1. CASE i \notin S
        <4>1. i \notin hidden /\ ~Pending(i) /\ sv'.configstrings[i] = sv.configstrings[i]
          BY <1>1, <3>1 DEF Adds
        <4> QED BY <2>1, <2>2, <4>1 DEF BecomeRight
      <3> QED BY <3>1
    <2>4. Becomes(v, from, i, value)'
      BY <2>1, <2>3, StillBecomes
    <2> QED BY <2>1, <2>2, <2>4 DEF Becomes
  <1> QED BY <1>1 DEF BecomeRight

LEMMA StillOfThisMap ==
    ASSUME TypeInv, NEW block, NEW S, Adds(block, S), hidden' \subseteq GameString,
           sv'.restartedServerId = sv.restartedServerId,
           sv'.configstrings[SystemInfo] >= sv.restartedServerId,
           NEW from \in 0..Len(commands), OfThisMap(from)
    PROVE  OfThisMap(from)'
  <1>1. SUFFICES ASSUME NEW n \in from + 1..Len(commands'), commands'[n].index = SystemInfo
                 PROVE  commands'[n].value >= sv.restartedServerId
    BY DEF OfThisMap
  <1>2. /\ Len(block) \in Nat /\ Len(commands) \in Nat /\ Len(commands') \in Nat
        /\ \A j \in 1..Len(commands) : commands'[j] = commands[j]
        /\ \A j \in 1..Len(commands') :
              j \notin 1..Len(commands) => /\ j - Len(commands) \in 1..Len(block)
                                           /\ commands'[j] = block[j - Len(commands)]
    BY Appended, ClientFields DEF Adds
  <1>3. n \in 1..Len(commands')
    BY <1>2
  <1>4. CASE n \in 1..Len(commands)
    <2>1. n \in from + 1..Len(commands) /\ commands'[n] = commands[n]
      BY <1>2, <1>4
    <2> QED BY <1>1, <2>1 DEF OfThisMap
  <1>5. CASE n \notin 1..Len(commands)
    <2>1. PICK p \in 1..Len(block) : commands'[n] = block[p]
      BY <1>2, <1>3, <1>5
    <2>2. DOMAIN block = 1..Len(block)
      BY DEF Adds
    <2>3. SystemInfo \notin hidden'
      BY Constants
    <2>4. block[p].value = sv'.configstrings[SystemInfo]
      BY <1>1, <2>1, <2>2, <2>3 DEF Adds
    <2> QED BY <2>1, <2>4
  <1> QED BY <1>4, <1>5

\* Whatever the server does with strings and commands in a running map, while
\* packets may be lost.
LEMMA ServerChanges ==
    ASSUME IInv, NEW block, NEW S, Adds(block, S),
           sv' \in [serverId : 1..MaxServerId, restartedServerId : 1..MaxServerId,
                    configstrings : Strings],
           sv'.restartedServerId = sv.restartedServerId, sv.serverId <= sv'.serverId,
           sv'.configstrings[SystemInfo] \in sv.restartedServerId..sv'.serverId,
           hidden' \subseteq GameString,
           cl' \in [state : {"connected", "primed", "active"}, csUpdated : SUBSET Index],
           cl'.state = "connected" => cl.state = "connected",
           client' = client, toClient' = toClient, history' = history,
           toServer' \in Seq(Packet),
           \A j \in DOMAIN toServer' : \E k \in DOMAIN toServer : toServer'[j] = toServer[k]
    PROVE  IInv'
  <1>1. /\ TypeInv /\ OrderInv /\ IdInv /\ GamestateInv /\ ClientInv /\ ConnectedInv /\ SinceInv
    BY DEF IInv
  <1>2. /\ commands' \in Seq(Command) /\ Len(block) \in Nat
        /\ Len(commands) \in Nat /\ Len(commands') \in Nat /\ Len(commands) <= Len(commands')
        /\ \A n \in 1..Len(commands) : commands'[n] = commands[n]
        /\ \A n \in 1..Len(commands') :
              n \notin 1..Len(commands) => /\ n - Len(commands) \in 1..Len(block)
                                           /\ commands'[n] = block[n - Len(commands)]
    BY <1>1, Appended, ClientFields DEF Adds
  <1>3. /\ sv.serverId \in Int /\ sv'.serverId \in Int /\ sv.restartedServerId \in Int
        /\ sv.restartedServerId <= sv.serverId
        /\ sv'.configstrings[SystemInfo] \in Int
        /\ sv.restartedServerId <= sv'.configstrings[SystemInfo]
        /\ sv'.configstrings[SystemInfo] <= sv'.serverId
    BY <1>1, SvFields, Constants
  <1>4. TypeInv'
    <2>1. \A n \in DOMAIN commands' : commands'[n].index \in Index /\ commands'[n].value \in Nat
      <3>1. \A n \in DOMAIN commands' : commands'[n] \in Command
        BY <1>2
      <3> QED BY <3>1, Constants DEF Command
    <2>2. client \in [state : {"connected", "loading", "primed"}, configstrings : Strings,
                   serverId : 0..MaxServerId, received : 0..Len(commands'),
                   executed : 0..Len(commands'), mark : 0..Len(commands'), since : BOOLEAN]
      <3>1. client \in [state : {"connected", "loading", "primed"}, configstrings : Strings,
                   serverId : 0..MaxServerId, received : 0..Len(commands),
                   executed : 0..Len(commands), mark : 0..Len(commands), since : BOOLEAN]
        BY <1>1 DEF TypeInv, TypeOK
      <3>2. 0..Len(commands) \subseteq 0..Len(commands')
        BY <1>2
      <3> QED BY <3>1, <3>2
    <2>3. sv'.restartedServerId <= sv'.serverId
      BY <1>3
    <2> QED BY <1>1, <1>2, <2>1, <2>2, <2>3 DEF TypeInv, TypeOK
  <1>5. OrderInv'
    <2>1. ASSUME NEW k \in DOMAIN toClient PROVE toClient[k].upTo <= Len(commands')
      <3>1. toClient[k].upTo <= Len(commands) /\ toClient[k].upTo \in Nat
        BY <1>1, DownFields DEF OrderInv
      <3> QED BY <1>2, <3>1
    <2> QED BY <1>1, <2>1 DEF OrderInv
  <1>6. IdInv'
    <2>1. ASSUME NEW n \in DOMAIN commands', commands'[n].index = SystemInfo
          PROVE  commands'[n].value <= sv'.serverId
      <3>1. n \in 1..Len(commands')
        BY <1>2
      <3>2. CASE n \in 1..Len(commands)
        <4>1. commands[n].value <= sv.serverId /\ commands[n].value \in Nat
          BY <1>1, <1>2, <2>1, <3>2, CommandFields, ClientFields DEF IdInv
        <4> QED BY <1>2, <1>3, <3>2, <4>1
      <3>3. CASE n \notin 1..Len(commands)
        <4>1. PICK p \in 1..Len(block) : commands'[n] = block[p]
          BY <1>2, <3>1, <3>3
        <4>2. DOMAIN block = 1..Len(block)
          BY DEF Adds
        <4>3. SystemInfo \notin hidden'
          BY Constants
        <4>4. block[p].index = SystemInfo /\ p \in DOMAIN block
          BY <2>1, <4>1, <4>2
        <4>5. block[p].value = sv'.configstrings[SystemInfo]
          <5>1. \A i \in DOMAIN block :
                    block[i].index \notin hidden' =>
                        block[i].value = sv'.configstrings[block[i].index]
            BY DEF Adds
          <5> QED BY ONLY <4>3, <4>4, <5>1
        <4> QED BY <1>3, <4>1, <4>5
      <3> QED BY <3>2, <3>3
    <2>2. history.gamestate <= sv'.serverId /\ client.serverId <= sv'.serverId
      <3>1. history.gamestate <= sv.serverId /\ client.serverId <= sv.serverId
        BY <1>1 DEF IdInv
      <3> QED BY <1>1, <1>3, <3>1, ClientFields
    <2>3. ASSUME NEW k \in DOMAIN toClient, toClient[k].gamestate # <<>>
          PROVE  toClient[k].gamestate[SystemInfo] <= sv'.serverId
      <3>1. /\ toClient[k].gamestate[SystemInfo] <= sv.serverId
            /\ toClient[k].gamestate[SystemInfo] \in Int
        BY <1>1, <2>3, DownFields DEF IdInv
      <3> QED BY <1>3, <3>1
    <2>4. ASSUME NEW j \in DOMAIN toServer' PROVE toServer'[j].serverId <= sv'.serverId
      <3>1. PICK k \in DOMAIN toServer : toServer'[j] = toServer[k]
        OBVIOUS
      <3>2. toServer[k].serverId <= sv.serverId /\ toServer[k].serverId \in Int
        BY <1>1, UpFields DEF IdInv
      <3> QED BY <1>3, <3>1, <3>2
    <2> QED BY <1>3, <2>1, <2>2, <2>3, <2>4 DEF IdInv
  <1>7. ASSUME NEW from \in 0..Len(commands), OfThisMap(from) PROVE OfThisMap(from)'
    BY <1>1, <1>3, <1>7, StillOfThisMap
  <1>8. ASSUME cl.state # "connected", NEW strings, NEW from \in 0..Len(commands),
               BecomeRight(strings, from)
        PROVE  BecomeRight(strings, from)'
    BY <1>1, <1>8, StillRight
  <1>9. GamestateInv'
    <2>1. ASSUME NEW k \in DOMAIN toClient, ThisMap(toClient[k])
          PROVE  OfThisMap(toClient[k].upTo)' /\ BecomeRight(toClient[k].gamestate, toClient[k].upTo)'
      <3>1. cl.state # "connected"
        BY <1>1, <2>1 DEF ConnectedInv
      <3>2. PICK from \in 0..Len(commands) : from = toClient[k].upTo
        BY <1>1, <1>2, DownFields DEF OrderInv
      <3>3. PICK strings : strings = toClient[k].gamestate
        OBVIOUS
      <3>4. OfThisMap(from) /\ BecomeRight(strings, from)
        BY <1>1, <2>1, <3>2, <3>3 DEF GamestateInv
      <3>5. OfThisMap(from)' /\ BecomeRight(strings, from)'
        BY <1>7, <1>8, <3>1, <3>4
      <3>6. from = toClient'[k].upTo /\ strings = toClient'[k].gamestate
        BY <3>2, <3>3
      <3> QED BY <3>5, <3>6 DEF OfThisMap, BecomeRight, Becomes
    <2>2. ASSUME NEW k \in DOMAIN toClient' PROVE ThisMap(toClient[k])' => ThisMap(toClient[k])
      BY DEF ThisMap
    <2> QED BY <2>1, <2>2 DEF GamestateInv
  <1>10. ClientInv'
    <2>1. ASSUME Settled
          PROVE  /\ OfThisMap(client.mark)' /\ client.serverId >= sv.restartedServerId
                 /\ client.executed >= client.mark =>
                       BecomeRight(client.configstrings, client.executed)'
      <3>1. cl.state # "connected"
        BY <1>1, <2>1 DEF ConnectedInv, Settled
      <3>2. PICK mark \in 0..Len(commands) : mark = client.mark
        BY <1>1, ClientFields
      <3>3. PICK from \in 0..Len(commands) : from = client.executed
        BY <1>1, ClientFields
      <3>4. PICK strings : strings = client.configstrings
        OBVIOUS
      <3>5. OfThisMap(mark)'
        BY <1>1, <1>7, <2>1, <3>2 DEF ClientInv
      <3>6. client.executed >= client.mark => BecomeRight(strings, from)'
        BY <1>1, <1>8, <2>1, <3>1, <3>3, <3>4 DEF ClientInv
      <3>7. client'.mark = mark /\ client'.executed = from /\ client'.configstrings = strings
        BY <3>2, <3>3, <3>4
      <3>8. OfThisMap(client.mark)'
        BY <3>5, <3>7 DEF OfThisMap
      <3>9. client.executed >= client.mark =>
                BecomeRight(client.configstrings, client.executed)'
        BY <3>6, <3>7 DEF BecomeRight, Becomes
      <3>10. client.serverId >= sv.restartedServerId
        BY <1>1, <2>1 DEF ClientInv
      <3> QED BY <3>8, <3>9, <3>10
    <2>2. Settled' => Settled
      BY DEF Settled, HasGamestate
    <2> QED BY <2>1, <2>2 DEF ClientInv
  <1>11. ConnectedInv'
    BY <1>1 DEF ConnectedInv, HasGamestate, ThisMap
  <1>12. SinceInv'
    <2>1. Settled' => Settled
      BY DEF Settled, HasGamestate
    <2>2. ASSUME NEW j \in DOMAIN toServer' PROVE \E k \in DOMAIN toServer : toServer'[j] = toServer[k]
      OBVIOUS
    <2>3. ASSUME NEW k \in DOMAIN toClient, toClient[k].gamestate # <<>>
          PROVE  /\ ~client.since
                 /\ \A j \in DOMAIN toServer' : ~toServer'[j].since
                 /\ \A j \in 1..k : ~toClient[j].since
      BY <1>1, <2>2, <2>3 DEF SinceInv
    <2>4. ASSUME Settled, NEW j \in DOMAIN toServer', toServer'[j].since
          PROVE  toServer'[j].serverId >= sv.restartedServerId
      BY <1>1, <2>2, <2>4 DEF SinceInv
    <2> QED BY <2>1, <2>3, <2>4 DEF SinceInv
  <1> QED BY <1>4, <1>5, <1>6, <1>9, <1>10, <1>11, <1>12 DEF IInv

-----------------------------------------------------------------------------
(* The server's actions. *)

\* SV_SetConfigstring, of a string to a value that it may have.
LEMMA Set ==
    ASSUME IInv, NEW i \in Index, NEW value \in 0..MaxValue + MaxServerId,
           i = SystemInfo => value = sv.serverId, SetConfigstring(i, value),
           hidden' = hidden, client' = client, toServer' = toServer, toClient' = toClient,
           history' = history
    PROVE  IInv'
  <1>1. TypeInv /\ IdInv
    BY DEF IInv
  <1> DEFINE strings == [sv.configstrings EXCEPT ![i] = value]
  <1>2. /\ sv' = [sv EXCEPT !.configstrings = strings]
        /\ commands' = IF cl.state = "active"
                       THEN Append(commands, CsCommand(strings, i)) ELSE commands
        /\ cl' = IF cl.state = "primed" THEN [cl EXCEPT !.csUpdated = @ \cup {i}] ELSE cl
    BY DEF SetConfigstring
  <1>3. /\ strings \in Strings /\ strings[i] = value
        /\ \A j \in Index : j # i => strings[j] = sv.configstrings[j]
    <2>1. sv.configstrings \in Strings
      BY <1>1, SvFields
    <2> QED BY <2>1 DEF Strings
  <1>4. strings[SystemInfo] \in sv.restartedServerId..sv.serverId
    <2>1. CASE i = SystemInfo
      <3>1. sv.serverId \in sv.restartedServerId..sv.serverId
        BY <1>1, SvFields
      <3> QED BY <1>3, <2>1, <3>1
    <2>2. CASE i # SystemInfo
      BY <1>1, <1>3, <2>2, Constants DEF IdInv
    <2> QED BY <2>1, <2>2
  <1> DEFINE c == CsCommand(strings, i)
  <1>5. c \in Command /\ c.index = i /\ (i \notin hidden => c.value = value)
    <2>1. 0 \in 0..MaxValue + MaxServerId
      BY Constants
    <2> QED BY <1>3, <2>1 DEF CsCommand, Command
  <1> HIDE DEF strings, c
  <1>6. /\ sv' \in [serverId : 1..MaxServerId, restartedServerId : 1..MaxServerId,
                    configstrings : Strings]
        /\ sv'.restartedServerId = sv.restartedServerId /\ sv'.serverId = sv.serverId
        /\ sv'.configstrings = strings
    <2>1. sv \in [serverId : 1..MaxServerId, restartedServerId : 1..MaxServerId,
                  configstrings : Strings]
      BY <1>1 DEF TypeInv, TypeOK
    <2> QED BY <1>2, <1>3, <2>1
  <1>7. /\ cl \in [state : {"connected", "primed", "active"}, csUpdated : SUBSET Index]
        /\ hidden \subseteq GameString
    BY <1>1 DEF TypeInv, TypeOK
  <1>8. /\ cl' \in [state : {"connected", "primed", "active"}, csUpdated : SUBSET Index]
        /\ cl'.state = cl.state
        /\ cl.state = "primed" => cl'.csUpdated = cl.csUpdated \cup {i}
    <2>1. CASE cl.state = "primed"
      <3> DEFINE u == cl.csUpdated \cup {i}
      <3>1. u \in SUBSET Index /\ cl' = [cl EXCEPT !.csUpdated = u]
        BY <1>2, <1>7, <2>1
      <3> HIDE DEF u
      <3>2. /\ cl' \in [state : {"connected", "primed", "active"}, csUpdated : SUBSET Index]
            /\ cl'.state = cl.state /\ cl'.csUpdated = u
        BY <1>7, <3>1
      <3> QED BY <3>2 DEF u
    <2>2. CASE cl.state # "primed"
      BY <1>2, <1>7, <2>2
    <2> QED BY <2>1, <2>2
  <1>9. \E block, S : Adds(block, S)
    <2>1. CASE cl.state = "active"
      <3>1. commands' = Append(commands, c) /\ commands \in Seq(Command)
        BY <1>1, <1>2, <2>1 DEF c, TypeInv
      <3> DEFINE block == <<c>>
      <3>2. /\ block \in Seq(Command) /\ commands' = commands \o block
            /\ DOMAIN block = {1} /\ block[1] = c
        <4>1. Append(commands, c) = commands \o <<c>>
          BY <1>5, <3>1
        <4> QED BY <1>5, <3>1, <4>1
      <3> HIDE DEF block
      <3>3. ~Pending(i)'
        BY <1>8, <2>1 DEF Pending
      <3>4. Adds(block, {i})
        BY <1>3, <1>5, <1>6, <2>1, <3>2 DEF Adds, Pending
      <3> QED BY <3>4
    <2>2. CASE cl.state # "active"
      <3>1. commands' = commands \o <<>> /\ <<>> \in Seq(Command)
        BY <1>1, <1>2, <2>2 DEF TypeInv
      <3>2. ASSUME cl.state # "connected", NEW j \in Index \ hidden', ~Pending(j)'
            PROVE  j \notin hidden /\ ~Pending(j) /\ sv'.configstrings[j] = sv.configstrings[j]
        <4>1. cl.state = "primed"
          BY <1>7, <2>2, <3>2
        <4>2. j \notin cl.csUpdated /\ j # i
          BY <1>8, <3>2, <4>1 DEF Pending
        <4> QED BY <1>3, <1>6, <3>2, <4>2 DEF Pending
      <3>3. Adds(<<>>, {})
        BY <3>1, <3>2 DEF Adds
      <3> QED BY <3>3
    <2> QED BY <2>1, <2>2
  <1>10. PICK block, S : Adds(block, S)
    BY <1>9
  <1>11. /\ sv.serverId <= sv'.serverId
         /\ sv'.configstrings[SystemInfo] \in sv.restartedServerId..sv'.serverId
    BY <1>1, <1>4, <1>6, SvFields
  <1>12. toServer' \in Seq(Packet) /\ \A j \in DOMAIN toServer' : toServer'[j] = toServer[j]
    BY <1>1 DEF TypeInv
  <1> QED BY <1>6, <1>7, <1>8, <1>10, <1>11, <1>12, ServerChanges

LEMMA Hide ==
    ASSUME IInv, NEW i \in GameString, SetConfigstringRestrictions(i)
    PROVE  IInv'
  <1>1. TypeInv /\ IdInv
    BY DEF IInv
  <1> DEFINE c == [index |-> i, value |-> IF i \in hidden THEN sv.configstrings[i] ELSE 0]
  <1>2. /\ hidden' = IF i \in hidden THEN hidden \ {i} ELSE hidden \cup {i}
        /\ commands' = IF cl.state = "connected" THEN commands ELSE Append(commands, c)
        /\ sv' = sv /\ cl' = cl /\ client' = client /\ toServer' = toServer
        /\ toClient' = toClient /\ history' = history
    BY DEF SetConfigstringRestrictions, Added
  <1>3. i \in Index /\ i # SystemInfo
    BY Constants
  <1>4. c \in Command /\ c.index = i /\ (i \notin hidden' => c.value = sv.configstrings[i])
    <2>1. sv.configstrings[i] \in 0..MaxValue + MaxServerId /\ 0 \in 0..MaxValue + MaxServerId
      BY <1>1, <1>3, SvFields, Constants
    <2>2. (IF i \in hidden THEN sv.configstrings[i] ELSE 0) \in 0..MaxValue + MaxServerId
      BY <2>1
    <2>3. i \notin hidden' => i \in hidden
      BY <1>2
    <2> QED BY <1>3, <2>2, <2>3 DEF Command
  <1> HIDE DEF c
  <1>5. \A j \in Index : j # i => (j \in hidden' <=> j \in hidden)
    BY <1>2
  <1>6. \E block, S : Adds(block, S)
    <2>1. CASE cl.state # "connected"
      <3>1. commands' = Append(commands, c) /\ commands \in Seq(Command)
        BY <1>1, <1>2, <2>1 DEF TypeInv
      <3> DEFINE block == <<c>>
      <3>2. /\ block \in Seq(Command) /\ commands' = commands \o block
            /\ DOMAIN block = {1} /\ block[1] = c
        <4>1. Append(commands, c) = commands \o <<c>>
          BY <1>4, <3>1
        <4> QED BY <1>4, <3>1, <4>1
      <3> HIDE DEF block
      <3>3. Adds(block, {i})
        BY <1>2, <1>4, <1>5, <3>2 DEF Adds, Pending
      <3> QED BY <3>3
    <2>2. CASE cl.state = "connected"
      <3>1. commands' = commands \o <<>> /\ <<>> \in Seq(Command)
        BY <1>1, <1>2, <2>2 DEF TypeInv
      <3>2. Adds(<<>>, {})
        BY <2>2, <3>1 DEF Adds
      <3> QED BY <3>2
    <2> QED BY <2>1, <2>2
  <1>7. PICK block, S : Adds(block, S)
    BY <1>6
  <1>8. /\ sv' \in [serverId : 1..MaxServerId, restartedServerId : 1..MaxServerId,
                    configstrings : Strings]
        /\ sv'.restartedServerId = sv.restartedServerId /\ sv.serverId <= sv'.serverId
        /\ sv'.configstrings[SystemInfo] \in sv.restartedServerId..sv'.serverId
    BY <1>1, <1>2, SvFields DEF IdInv, TypeInv, TypeOK
  <1>9. /\ hidden' \subseteq GameString
        /\ cl' \in [state : {"connected", "primed", "active"}, csUpdated : SUBSET Index]
        /\ cl'.state = cl.state
    BY <1>1, <1>2 DEF TypeInv, TypeOK
  <1>10. toServer' \in Seq(Packet) /\ \A j \in DOMAIN toServer' : toServer'[j] = toServer[j]
    BY <1>1, <1>2 DEF TypeInv
  <1> QED BY <1>2, <1>7, <1>8, <1>9, <1>10, ServerChanges

\* All flagged strings are listed.
LEMMA FlaggedIs ==
    ASSUME NEW updated \in SUBSET Index
    PROVE  /\ Cardinality(updated) \in Nat
           /\ Flagged(updated) \in [1..Cardinality(updated) -> updated]
           /\ \A i \in updated : \E n \in 1..Cardinality(updated) : Flagged(updated)[n] = i
  <1>1. IsFiniteSet(updated)
    BY Constants, FS_Subset
  <1>2. PICK size \in Nat : ExistsBijection(1..size, updated)
    BY <1>1, FS_NatBijection
  <1>3. Cardinality(updated) = size
    BY <1>2, FS_CountingElements
  <1>4. PICK f : f \in Bijection(1..size, updated)
    BY <1>2 DEF ExistsBijection
  <1>5. /\ f \in [1..size -> updated] /\ DOMAIN f = 1..size
        /\ \A i \in updated : \E n \in 1..size : f[n] = i
    BY <1>4 DEF Bijection, Injection, Surjection
  <1>6. /\ Flagged(updated) \in [1..size -> updated]
        /\ \A i \in updated : \E n \in DOMAIN Flagged(updated) : Flagged(updated)[n] = i
    BY ZenonT(30), <1>3, <1>5 DEF Flagged
  <1> QED BY <1>3, <1>6

\* SV_ClientEnterWorld sends all that the client does not know of.
LEMMA Enter ==
    ASSUME TypeInv, NEW strings, strings = sv'.configstrings, strings \in Strings,
           NEW updated \in SUBSET Index, hidden' = hidden, EnterWorld(strings, updated),
           cl.state # "connected" =>
               \A i \in Index \ updated : ~Pending(i) /\ strings[i] = sv.configstrings[i]
    PROVE  \E block, S : Adds(block, S)
  <1> DEFINE size == Cardinality(updated)
             list == Flagged(updated)
             block == [n \in 1..size |-> CsCommand(strings, list[n])]
  <1>1. /\ size \in Nat /\ list \in [1..size -> updated]
        /\ \A i \in updated : \E n \in 1..size : list[n] = i
    BY FlaggedIs
  <1>2. cl' = [state |-> "active", csUpdated |-> {}] /\ commands' = commands \o block
    BY DEF EnterWorld
  <1> HIDE DEF size, list
  <1>3. ASSUME NEW n \in 1..size
        PROVE  /\ block[n] \in Command /\ block[n].index = list[n]
               /\ list[n] \notin hidden => block[n].value = strings[list[n]]
    <2>1. list[n] \in Index
      BY <1>1
    <2>2. strings[list[n]] \in 0..MaxValue + MaxServerId /\ 0 \in 0..MaxValue + MaxServerId
      BY <2>1, Constants DEF Strings
    <2> QED BY <2>1, <2>2 DEF CsCommand, Command
  <1>4. DOMAIN block = 1..size
    OBVIOUS
  <1>5. block = [n \in 1..size |-> block[n]]
    OBVIOUS
  <1> HIDE DEF block
  <1>6. block \in Seq(Command)
    BY <1>1, <1>3, <1>5
  <1>7. \A n \in DOMAIN block :
            /\ block[n].index \in updated
            /\ block[n].index \notin hidden' =>
                  block[n].value = sv'.configstrings[block[n].index]
    BY <1>1, <1>3, <1>4
  <1>8. \A i \in updated : \E n \in DOMAIN block : block[n].index = i
    BY <1>1, <1>3, <1>4
  <1>9. Adds(block, updated)
    BY <1>2, <1>6, <1>7, <1>8 DEF Adds
  <1> QED BY <1>9

LEMMA Restart ==
    ASSUME IInv, SV_MapRestart_f
    PROVE  IInv'
  <1>1. TypeInv /\ IdInv
    BY DEF IInv
  <1>2. PICK i \in GameString, value \in 0..MaxValue :
            LET strings == [sv.configstrings EXCEPT ![i] = value]
                changed == IF value = sv.configstrings[i] THEN {} ELSE {i}
                unsent  == IF cl.state = "connected" THEN {} ELSE changed
            IN  /\ sv' = [sv EXCEPT !.serverId = @ + 1, !.configstrings = strings]
                /\ EnterWorld(strings, cl.csUpdated \cup unsent)
    BY DEF SV_MapRestart_f
  <1> DEFINE strings == [sv.configstrings EXCEPT ![i] = value]
             changed == IF value = sv.configstrings[i] THEN {} ELSE {i}
             unsent == IF cl.state = "connected" THEN {} ELSE changed
             updated == cl.csUpdated \cup unsent
             id == sv.serverId + 1
  <1>3. /\ sv' = [sv EXCEPT !.serverId = id, !.configstrings = strings]
        /\ EnterWorld(strings, updated)
        /\ sv.serverId < MaxServerId
        /\ hidden' = hidden /\ client' = client /\ toServer' = toServer
        /\ toClient' = toClient /\ history' = history
    BY <1>2 DEF SV_MapRestart_f
  <1>4. i \in Index /\ i # SystemInfo /\ value \in 0..MaxValue + MaxServerId
    BY Constants
  <1>5. /\ strings \in Strings /\ strings[i] = value
        /\ \A j \in Index : j # i => strings[j] = sv.configstrings[j]
    <2>1. sv.configstrings \in Strings
      BY <1>1, SvFields
    <2> QED BY <1>4, <2>1 DEF Strings
  <1>6. strings[SystemInfo] = sv.configstrings[SystemInfo]
    BY <1>4, <1>5, Constants
  <1>7. id \in 1..MaxServerId /\ sv.serverId <= id /\ sv.serverId \in Int
    BY <1>1, <1>3, SvFields, Constants
  <1>8. updated \in SUBSET Index
    BY <1>1, <1>4, ClFields
  <1>9. cl.state # "connected" =>
            \A j \in Index \ updated : ~Pending(j) /\ strings[j] = sv.configstrings[j]
    <2>1. ASSUME cl.state # "connected", NEW j \in Index \ updated
          PROVE  ~Pending(j) /\ strings[j] = sv.configstrings[j]
      <3>1. j \notin cl.csUpdated /\ j \notin changed
        BY <2>1
      <3>2. strings[j] = sv.configstrings[j]
        BY <1>5, <3>1
      <3> QED BY <3>1, <3>2 DEF Pending
    <2> QED BY <2>1
  <1> HIDE DEF strings, updated, id
  <1>10. /\ sv' \in [serverId : 1..MaxServerId, restartedServerId : 1..MaxServerId,
                     configstrings : Strings]
         /\ sv'.restartedServerId = sv.restartedServerId /\ sv'.serverId = id
         /\ sv'.configstrings = strings
    <2>1. sv \in [serverId : 1..MaxServerId, restartedServerId : 1..MaxServerId,
                  configstrings : Strings]
      BY <1>1 DEF TypeInv, TypeOK
    <2> QED BY <1>3, <1>5, <1>7, <2>1
  <1>11. PICK block, S : Adds(block, S)
    BY <1>1, <1>3, <1>5, <1>8, <1>9, <1>10, Enter
  <1>12. /\ sv.serverId <= sv'.serverId
         /\ sv'.configstrings[SystemInfo] \in sv.restartedServerId..sv'.serverId
    <2>1. sv.configstrings[SystemInfo] \in sv.restartedServerId..sv.serverId
      BY <1>1 DEF IdInv
    <2> QED BY <1>1, <1>6, <1>7, <1>10, <2>1, SvFields
  <1>13. /\ hidden' \subseteq GameString
         /\ cl' \in [state : {"connected", "primed", "active"}, csUpdated : SUBSET Index]
         /\ cl'.state # "connected"
    BY <1>1, <1>3, ClFields DEF EnterWorld
  <1>14. toServer' \in Seq(Packet) /\ \A j \in DOMAIN toServer' : toServer'[j] = toServer[j]
    BY <1>1, <1>3 DEF TypeInv
  <1> QED BY <1>3, <1>10, <1>11, <1>12, <1>13, <1>14, ServerChanges

\* Nothing that is under way, or that the client has, is of the new map.
LEMMA Spawn ==
    ASSUME IInv, SV_SpawnServer
    PROVE  IInv'
  <1>1. /\ TypeInv /\ OrderInv /\ IdInv /\ GamestateInv /\ ClientInv /\ ConnectedInv /\ SinceInv
    BY DEF IInv
  <1> DEFINE id == sv.serverId + 1
  <1>2. PICK strings \in [GameString -> 0..MaxValue] :
            sv' = [serverId |-> id, restartedServerId |-> id,
                   configstrings |-> [i \in Index |-> IF i = SystemInfo THEN id ELSE strings[i]]]
    BY DEF SV_SpawnServer
  <1>3. /\ id <= MaxServerId /\ hidden' = {} /\ cl' = [cl EXCEPT !.state = "connected"]
        /\ commands' = commands /\ client' = client /\ toServer' = toServer
        /\ toClient' = toClient /\ history' = history
    BY DEF SV_SpawnServer
  <1>4. id \in 1..MaxServerId /\ sv.serverId < id /\ sv.serverId \in Int /\ id \in Int
    BY <1>1, <1>3, SvFields, Constants
  <1> HIDE DEF id
  <1>5. /\ sv'.serverId = id /\ sv'.restartedServerId = id
        /\ sv'.configstrings \in Strings /\ sv'.configstrings[SystemInfo] = id
        /\ sv' \in [serverId : 1..MaxServerId, restartedServerId : 1..MaxServerId,
                    configstrings : Strings]
    <2> DEFINE s == [i \in Index |-> IF i = SystemInfo THEN id ELSE strings[i]]
    <2>1. ASSUME NEW i \in Index PROVE s[i] \in 0..MaxValue + MaxServerId
      <3>1. id \in 0..MaxValue + MaxServerId
        BY <1>4, Constants
      <3>2. i # SystemInfo => strings[i] \in 0..MaxValue + MaxServerId
        <4>1. i # SystemInfo => strings[i] \in 0..MaxValue
          BY DEF Index
        <4> QED BY <4>1, Constants
      <3> QED BY <3>1, <3>2
    <2>2. s \in Strings /\ s[SystemInfo] = id
      BY <2>1, Constants DEF Strings
    <2>3. sv' = [serverId |-> id, restartedServerId |-> id, configstrings |-> s]
      BY <1>2
    <2> HIDE DEF s
    <2> QED BY <1>4, <2>2, <2>3
  <1>6. /\ cl' \in [state : {"connected", "primed", "active"}, csUpdated : SUBSET Index]
        /\ cl'.state = "connected"
    BY <1>1, <1>3, ClFields
  <1>7. TypeInv'
    <2>1. sv'.restartedServerId <= sv'.serverId /\ hidden' \subseteq GameString
      BY <1>3, <1>4, <1>5
    <2>2. /\ \A n \in DOMAIN commands : commands[n].index \in Index /\ commands[n].value \in Nat
          /\ client \in [state : {"connected", "loading", "primed"}, configstrings : Strings,
                         serverId : 0..MaxServerId, received : 0..Len(commands),
                         executed : 0..Len(commands), mark : 0..Len(commands), since : BOOLEAN]
          /\ client.executed <= client.received
          /\ history \in [replayed : BOOLEAN, gamestate : 0..MaxServerId]
      BY <1>1 DEF TypeInv, TypeOK
    <2>3. TypeOK'
      BY <1>3, <1>5, <1>6, <2>1, <2>2 DEF TypeOK
    <2> QED BY <1>1, <1>3, <2>3 DEF TypeInv
  <1>8. OrderInv'
    BY <1>1, <1>3 DEF OrderInv
  <1>9. ~HasGamestate'
    <2>1. history.gamestate <= sv.serverId /\ history.gamestate \in Int
      BY <1>1, ClientFields DEF IdInv
    <2> QED BY <1>3, <1>4, <1>5, <2>1 DEF HasGamestate
  <1>10. ASSUME NEW k \in DOMAIN toClient PROVE ~ThisMap(toClient[k])'
    <2>1. toClient[k].gamestate # <<>> =>
              toClient[k].gamestate[SystemInfo] <= sv.serverId
              /\ toClient[k].gamestate[SystemInfo] \in Int
      BY <1>1, DownFields DEF IdInv
    <2> QED BY <1>3, <1>4, <1>5, <2>1 DEF ThisMap
  <1>11. IdInv'
    <2>1. \A n \in DOMAIN commands :
              commands[n].index = SystemInfo => commands[n].value <= id
      <3>1. ASSUME NEW n \in DOMAIN commands, commands[n].index = SystemInfo
            PROVE  commands[n].value <= id
        <4>1. commands[n].value <= sv.serverId /\ commands[n].value \in Nat
          BY <1>1, <3>1, ClientFields, CommandFields DEF IdInv
        <4> QED BY <1>4, <4>1
      <3> QED BY <3>1
    <2>2. history.gamestate <= id /\ client.serverId <= id
      <3>1. history.gamestate <= sv.serverId /\ client.serverId <= sv.serverId
        BY <1>1 DEF IdInv
      <3> QED BY <1>1, <1>4, <3>1, ClientFields
    <2>3. \A k \in DOMAIN toClient :
              toClient[k].gamestate # <<>> => toClient[k].gamestate[SystemInfo] <= id
      <3>1. ASSUME NEW k \in DOMAIN toClient, toClient[k].gamestate # <<>>
            PROVE  toClient[k].gamestate[SystemInfo] <= id
        <4>1. toClient[k].gamestate[SystemInfo] <= sv.serverId
              /\ toClient[k].gamestate[SystemInfo] \in Int
          BY <1>1, <3>1, DownFields DEF IdInv
        <4> QED BY <1>4, <4>1
      <3> QED BY <3>1
    <2>4. \A k \in DOMAIN toServer : toServer[k].serverId <= id
      <3>1. ASSUME NEW k \in DOMAIN toServer PROVE toServer[k].serverId <= id
        <4>1. toServer[k].serverId <= sv.serverId /\ toServer[k].serverId \in Int
          BY <1>1, UpFields DEF IdInv
        <4> QED BY <1>4, <4>1
      <3> QED BY <3>1
    <2> QED BY <1>3, <1>4, <1>5, <2>1, <2>2, <2>3, <2>4 DEF IdInv
  <1>12. GamestateInv' /\ ConnectedInv'
    BY <1>3, <1>9, <1>10 DEF GamestateInv, ConnectedInv
  <1>13. ClientInv'
    BY <1>9 DEF ClientInv, Settled
  <1>14. SinceInv'
    BY <1>1, <1>3, <1>9 DEF SinceInv, Settled
  <1> QED BY <1>7, <1>8, <1>11, <1>12, <1>13, <1>14 DEF IInv

\* What is left when the k-th is taken, and those before it are lost.
LEMMA LaterIs ==
    ASSUME NEW T, NEW queue \in Seq(T), NEW k \in 1..Len(queue), NEW r,
           r = SubSeq(queue, k + 1, Len(queue))
    PROVE  /\ r \in Seq(T) /\ Len(r) = Len(queue) - k /\ Len(r) \in Nat
           /\ \A j \in 1..Len(r) : k + j \in 1..Len(queue) /\ r[j] = queue[k + j]
  BY SubSeqProperties

\* What was under way when a gamestate is sent.
LEMMA BeforeMessages ==
    ASSUME NEW queue \in Seq(Message)
    PROVE  /\ Before(queue) \in Seq(Message) /\ Len(Before(queue)) = Len(queue)
           /\ \A n \in 1..Len(queue) :
                 /\ ~Before(queue)[n].since /\ Before(queue)[n].upTo = queue[n].upTo
                 /\ Before(queue)[n].gamestate = queue[n].gamestate
  <1>1. ASSUME NEW n \in 1..Len(queue)
        PROVE  /\ [queue[n] EXCEPT !.since = FALSE] \in Message
               /\ ~[queue[n] EXCEPT !.since = FALSE].since
               /\ [queue[n] EXCEPT !.since = FALSE].upTo = queue[n].upTo
               /\ [queue[n] EXCEPT !.since = FALSE].gamestate = queue[n].gamestate
    <2>1. queue[n] \in Message
      OBVIOUS
    <2> DEFINE m == queue[n]
    <2>2. m \in Message
      BY <2>1
    <2> HIDE DEF m
    <2>3. /\ [m EXCEPT !.since = FALSE] \in Message /\ ~[m EXCEPT !.since = FALSE].since
          /\ [m EXCEPT !.since = FALSE].upTo = m.upTo
          /\ [m EXCEPT !.since = FALSE].gamestate = m.gamestate
      BY <2>2 DEF Message
    <2> QED BY <2>3 DEF m
  <1>2. Before(queue) = [n \in 1..Len(queue) |-> [queue[n] EXCEPT !.since = FALSE]]
    BY DEF Before
  <1>3. \A n \in 1..Len(queue) : Before(queue)[n] = [queue[n] EXCEPT !.since = FALSE]
    BY <1>2
  <1>4. Before(queue) \in [1..Len(queue) -> Message] /\ Len(queue) \in Nat
    BY <1>1, <1>2
  <1>5. Before(queue) \in Seq(Message) /\ Len(Before(queue)) = Len(queue)
    BY <1>4
  <1> QED BY <1>1, <1>3, <1>5

LEMMA BeforePackets ==
    ASSUME NEW queue \in Seq(Packet)
    PROVE  /\ Before(queue) \in Seq(Packet) /\ Len(Before(queue)) = Len(queue)
           /\ \A n \in 1..Len(queue) :
                 ~Before(queue)[n].since /\ Before(queue)[n].serverId = queue[n].serverId
  <1>1. ASSUME NEW n \in 1..Len(queue)
        PROVE  /\ [queue[n] EXCEPT !.since = FALSE] \in Packet
               /\ ~[queue[n] EXCEPT !.since = FALSE].since
               /\ [queue[n] EXCEPT !.since = FALSE].serverId = queue[n].serverId
    <2> DEFINE m == queue[n]
    <2>1. m \in Packet
      OBVIOUS
    <2> HIDE DEF m
    <2>2. /\ [m EXCEPT !.since = FALSE] \in Packet /\ ~[m EXCEPT !.since = FALSE].since
          /\ [m EXCEPT !.since = FALSE].serverId = m.serverId
      BY <2>1 DEF Packet
    <2> QED BY <2>2 DEF m
  <1>2. Before(queue) = [n \in 1..Len(queue) |-> [queue[n] EXCEPT !.since = FALSE]]
    BY DEF Before
  <1>3. \A n \in 1..Len(queue) : Before(queue)[n] = [queue[n] EXCEPT !.since = FALSE]
    BY <1>2
  <1>4. Before(queue) \in [1..Len(queue) -> Packet] /\ Len(queue) \in Nat
    BY <1>1, <1>2
  <1>5. Before(queue) \in Seq(Packet) /\ Len(Before(queue)) = Len(queue)
    BY <1>4
  <1> QED BY <1>1, <1>3, <1>5

\* The gamestate is what the server has, and nothing sent before it tells the
\* server that the client has one.
LEMMA SendGamestate ==
    ASSUME IInv, SV_SendClientGameState, NEW rest \in Seq(Packet), toServer' = Before(rest),
           \A j \in DOMAIN rest : \E k \in DOMAIN toServer : rest[j] = toServer[k]
    PROVE  IInv'
  <1>1. /\ TypeInv /\ OrderInv /\ IdInv /\ GamestateInv /\ ClientInv /\ ConnectedInv /\ SinceInv
    BY DEF IInv
  <1> DEFINE old == Len(toClient)
             m == [gamestate |-> sv.configstrings, upTo |-> Len(commands), since |-> FALSE]
  <1>2. /\ cl' = [cl EXCEPT !.state = "primed"] /\ toClient' = Append(Before(toClient), m)
        /\ client' = [client EXCEPT !.since = FALSE]
        /\ sv' = sv /\ hidden' = hidden /\ commands' = commands /\ history' = history
    BY DEF SV_SendClientGameState
  <1>3. toClient \in Seq(Message) /\ old \in Nat /\ DOMAIN toClient = 1..old
    BY <1>1 DEF TypeInv
  <1>4. m \in Message /\ m.gamestate = sv.configstrings /\ m.upTo = Len(commands) /\ ~m.since
    BY <1>1, SvFields, ClientFields DEF Message
  <1> HIDE DEF m
  <1>5. /\ toClient' \in Seq(Message) /\ DOMAIN toClient' = 1..old + 1
        /\ toClient'[old + 1] = m
        /\ \A k \in 1..old : /\ ~toClient'[k].since /\ toClient'[k].upTo = toClient[k].upTo
                             /\ toClient'[k].gamestate = toClient[k].gamestate
    <2> DEFINE b == Before(toClient)
    <2>1. /\ b \in Seq(Message) /\ Len(b) = old
          /\ \A n \in 1..old : /\ ~b[n].since /\ b[n].upTo = toClient[n].upTo
                               /\ b[n].gamestate = toClient[n].gamestate
      BY <1>3, BeforeMessages
    <2> HIDE DEF b, old
    <2>2. toClient' = Append(b, m)
      BY <1>2 DEF b
    <2>3. /\ toClient' \in Seq(Message) /\ Len(toClient') = old + 1 /\ toClient'[old + 1] = m
          /\ \A n \in 1..old : toClient'[n] = b[n]
      BY <1>3, <1>4, <2>1, <2>2
    <2> QED BY <2>1, <2>3
  <1> HIDE DEF old
  <1>6. \A k \in DOMAIN toClient' : k \in Int /\ (k \in 1..old \/ k = old + 1)
    BY <1>3, <1>5
  <1>7. /\ toServer' \in Seq(Packet) /\ \A j \in DOMAIN toServer' : ~toServer'[j].since
        /\ \A j \in DOMAIN toServer' :
              \E k \in DOMAIN toServer : toServer'[j].serverId = toServer[k].serverId
    <2>1. /\ Before(rest) \in Seq(Packet) /\ Len(Before(rest)) = Len(rest)
          /\ \A n \in 1..Len(rest) :
                ~Before(rest)[n].since /\ Before(rest)[n].serverId = rest[n].serverId
      BY BeforePackets
    <2>2. DOMAIN rest = 1..Len(rest) /\ DOMAIN toServer' = 1..Len(rest)
      BY <2>1
    <2>3. ASSUME NEW j \in DOMAIN toServer'
          PROVE  \E k \in DOMAIN toServer : toServer'[j].serverId = toServer[k].serverId
      <3>1. PICK k \in DOMAIN toServer : rest[j] = toServer[k]
        BY <2>2
      <3> QED BY <2>1, <2>2, <3>1
    <2> QED BY <2>1, <2>2, <2>3
  <1>8. /\ cl' \in [state : {"connected", "primed", "active"}, csUpdated : SUBSET Index]
        /\ cl'.state = "primed" /\ cl'.csUpdated = cl.csUpdated
    BY <1>1, <1>2, ClFields
  <1>9. /\ client' \in [state : {"connected", "loading", "primed"}, configstrings : Strings,
                        serverId : 0..MaxServerId, received : 0..Len(commands),
                        executed : 0..Len(commands), mark : 0..Len(commands), since : BOOLEAN]
        /\ client'.received = client.received /\ client'.executed = client.executed
        /\ client'.mark = client.mark /\ client'.serverId = client.serverId
        /\ client'.configstrings = client.configstrings /\ ~client'.since
    <2>1. client \in [state : {"connected", "loading", "primed"}, configstrings : Strings,
                      serverId : 0..MaxServerId, received : 0..Len(commands),
                      executed : 0..Len(commands), mark : 0..Len(commands), since : BOOLEAN]
      BY <1>1 DEF TypeInv, TypeOK
    <2> QED BY <1>2, <2>1
  <1>10. TypeInv'
    BY <1>1, <1>2, <1>5, <1>7, <1>8, <1>9 DEF TypeInv, TypeOK
  <1>11. OrderInv'
    <2>1. Len(commands) \in Nat /\ client.received <= Len(commands) /\ client.received \in Nat
      BY <1>1, ClientFields
    <2>2. \A k \in 1..old : /\ client.received <= toClient[k].upTo
                            /\ toClient[k].upTo <= Len(commands)
                            /\ \A j \in 1..old : j < k => toClient[j].upTo <= toClient[k].upTo
      BY <1>1, <1>3 DEF OrderInv
    <2>3. ASSUME NEW k \in DOMAIN toClient'
          PROVE  /\ client.received <= toClient'[k].upTo /\ toClient'[k].upTo <= Len(commands)
                 /\ \A j \in DOMAIN toClient' : j < k => toClient'[j].upTo <= toClient'[k].upTo
      <3>1. CASE k \in 1..old
        <4>1. \A j \in DOMAIN toClient' : j < k => j \in 1..old
          BY <1>3, <1>6, <3>1
        <4> QED BY <1>5, <2>2, <3>1, <4>1
      <3>2. CASE k = old + 1
        <4>1. \A j \in DOMAIN toClient' : j < k => j \in 1..old
          BY <1>3, <1>6, <3>2
        <4> QED BY SMTT(30), <1>4, <1>5, <2>1, <2>2, <3>2, <4>1
      <3> QED BY <1>6, <3>1, <3>2
    <2> QED BY <1>2, <1>9, <2>3 DEF OrderInv
  <1>12. IdInv'
    <2>1. ASSUME NEW k \in DOMAIN toClient', toClient'[k].gamestate # <<>>
          PROVE  toClient'[k].gamestate[SystemInfo] <= sv.serverId
      <3>1. CASE k \in 1..old
        BY <1>1, <1>3, <1>5, <2>1, <3>1 DEF IdInv
      <3>2. CASE k = old + 1
        BY <1>1, <1>4, <1>5, <3>2, SvFields DEF IdInv
      <3> QED BY <1>6, <3>1, <3>2
    <2>2. \A j \in DOMAIN toServer' : toServer'[j].serverId <= sv.serverId
      BY <1>1, <1>7 DEF IdInv
    <2> QED BY <1>1, <1>2, <1>9, <2>1, <2>2 DEF IdInv
  <1>13. ASSUME cl.state # "connected", NEW strings, NEW from, BecomeRight(strings, from)
         PROVE  BecomeRight(strings, from)'
    <2>1. \A i : Pending(i) => Pending(i)'
      BY <1>8 DEF Pending
    <2> QED BY <1>2, <1>13, <2>1 DEF BecomeRight, Becomes
  <1>14. GamestateInv'
    <2>1. ASSUME NEW k \in DOMAIN toClient', ThisMap(toClient[k])'
          PROVE  OfThisMap(toClient[k].upTo)' /\ BecomeRight(toClient[k].gamestate, toClient[k].upTo)'
      <3>1. CASE k \in 1..old
        <4>1. ThisMap(toClient[k]) /\ k \in DOMAIN toClient
          BY <1>2, <1>3, <1>5, <2>1, <3>1 DEF ThisMap
        <4>2. cl.state # "connected"
          BY <1>1, <4>1 DEF ConnectedInv
        <4>3. PICK strings, from : strings = toClient[k].gamestate /\ from = toClient[k].upTo
          OBVIOUS
        <4>4. OfThisMap(from) /\ BecomeRight(strings, from)
          BY <1>1, <4>1, <4>3 DEF GamestateInv
        <4>5. OfThisMap(from)'
          BY <1>2, <4>4 DEF OfThisMap
        <4>6. BecomeRight(strings, from)'
          BY <1>13, <4>2, <4>4
        <4>7. toClient'[k].upTo = from /\ toClient'[k].gamestate = strings
          BY <1>5, <3>1, <4>3
        <4> QED BY <4>5, <4>6, <4>7 DEF OfThisMap, BecomeRight, Becomes
      <3>2. CASE k = old + 1
        <4>1. toClient'[k].upTo = Len(commands) /\ toClient'[k].gamestate = sv.configstrings
          BY <1>4, <1>5, <3>2
        <4>2. \A n \in Len(commands) + 1..Len(commands) : FALSE
          BY <1>1, ClientFields
        <4> QED BY <1>2, <4>1, <4>2 DEF OfThisMap, BecomeRight, Becomes
      <3> QED BY <1>6, <2>1, <3>1, <3>2
    <2> QED BY <2>1 DEF GamestateInv
  <1>15. ClientInv'
    <2>1. Settled' => Settled
      BY <1>2 DEF Settled, HasGamestate
    <2>2. ASSUME Settled
          PROVE  /\ OfThisMap(client.mark)' /\ client'.serverId >= sv'.restartedServerId
                 /\ client'.executed >= client'.mark =>
                       BecomeRight(client.configstrings, client.executed)'
      <3>1. cl.state # "connected"
        BY <1>1, <2>2 DEF ConnectedInv, Settled
      <3>2. PICK strings, from : strings = client.configstrings /\ from = client.executed
        OBVIOUS
      <3>3. OfThisMap(client.mark)'
        BY <1>1, <1>2, <1>9, <2>2 DEF ClientInv, OfThisMap
      <3>4. client.executed >= client.mark => BecomeRight(strings, from)'
        BY <1>1, <1>13, <2>2, <3>1, <3>2 DEF ClientInv
      <3>5. client'.executed >= client'.mark =>
                BecomeRight(client.configstrings, client.executed)'
        <4>1. client'.configstrings = strings /\ client'.executed = from
              /\ client'.mark = client.mark
          BY <1>9, <3>2
        <4> QED BY <3>2, <3>4, <4>1 DEF BecomeRight, Becomes
      <3>6. client'.serverId >= sv'.restartedServerId
        BY <1>1, <1>2, <1>9, <2>2 DEF ClientInv
      <3> QED BY <3>3, <3>5, <3>6
    <2> QED BY <2>1, <2>2 DEF ClientInv
  <1>16. ConnectedInv'
    BY <1>8 DEF ConnectedInv
  <1>17. SinceInv'
    <2>1. ASSUME NEW k \in DOMAIN toClient', NEW j \in 1..k PROVE ~toClient'[j].since
      <3>1. j \in 1..old \/ j = old + 1
        BY <1>3, <1>6
      <3> QED BY <1>4, <1>5, <3>1
    <2> QED BY <1>7, <1>9, <2>1 DEF SinceInv
  <1> QED BY <1>10, <1>11, <1>12, <1>14, <1>15, <1>16, <1>17 DEF IInv

LEMMA ClientMessage ==
    ASSUME IInv, NEW n \in DOMAIN toServer, SV_ExecuteClientMessage(n)
    PROVE  IInv'
  <1>1. TypeInv /\ IdInv
    BY DEF IInv
  <1> DEFINE m == toServer[n]
             rest == SubSeq(toServer, n + 1, Len(toServer))
             sent == m.serverId # sv.serverId /\ ~Outdated(m) /\ m.since
             enters == m.serverId = sv.serverId /\ m.move /\ cl.state = "primed"
  <1>2. IF sent
        THEN SV_SendClientGameState /\ toServer' = Before(rest)
        ELSE /\ toServer' = rest
             /\ IF enters THEN EnterWorld(sv.configstrings, cl.csUpdated)
                          ELSE UNCHANGED <<cl, commands>>
             /\ UNCHANGED <<sv, hidden, client, toClient, history>>
    BY DEF SV_ExecuteClientMessage
  <1>3. toServer \in Seq(Packet) /\ n \in 1..Len(toServer)
    BY <1>1 DEF TypeInv
  <1>4. rest \in Seq(Packet) /\ \A j \in DOMAIN rest : \E k \in DOMAIN toServer : rest[j] = toServer[k]
    <2> DEFINE r == rest
    <2>1. r = SubSeq(toServer, n + 1, Len(toServer))
      OBVIOUS
    <2> HIDE DEF r
    <2>2. /\ r \in Seq(Packet) /\ Len(r) \in Nat
          /\ \A j \in 1..Len(r) : n + j \in 1..Len(toServer) /\ r[j] = toServer[n + j]
      BY SMTT(30), <1>3, <2>1, LaterIs
    <2>3. \A j \in DOMAIN r : \E k \in DOMAIN toServer : r[j] = toServer[k]
      BY <1>3, <2>2
    <2> QED BY <2>2, <2>3 DEF r
  <1> HIDE DEF m, rest, sent, enters
  <1>5. CASE sent
    BY <1>2, <1>4, <1>5, SendGamestate
  <1>6. CASE ~sent
    <2>1. /\ toServer' = rest /\ sv' = sv /\ hidden' = hidden /\ client' = client
          /\ toClient' = toClient /\ history' = history
      BY <1>2, <1>6
    <2>2. /\ \E block, S : Adds(block, S)
          /\ cl' \in [state : {"connected", "primed", "active"}, csUpdated : SUBSET Index]
          /\ cl'.state = "connected" => cl.state = "connected"
      <3>1. CASE enters
        <4>1. EnterWorld(sv.configstrings, cl.csUpdated)
          BY <1>2, <1>6, <3>1
        <4>2. /\ sv.configstrings \in Strings /\ cl.csUpdated \in SUBSET Index
              /\ \A i \in Index \ cl.csUpdated : ~Pending(i)
          BY <1>1, SvFields, ClFields DEF Pending
        <4>3. \E block, S : Adds(block, S)
          BY <1>1, <2>1, <4>1, <4>2, Enter
        <4> QED BY <4>1, <4>3 DEF EnterWorld
      <3>2. CASE ~enters
        <4>1. cl' = cl /\ commands' = commands
          BY <1>2, <1>6, <3>2
        <4>2. commands' = commands \o <<>> /\ <<>> \in Seq(Command)
          BY <1>1, <4>1 DEF TypeInv
        <4>3. Adds(<<>>, {})
          BY <2>1, <4>1, <4>2 DEF Adds, Pending
        <4> QED BY <1>1, <4>1, <4>3 DEF TypeInv, TypeOK
      <3> QED BY <3>1, <3>2
    <2>3. PICK block, S : Adds(block, S)
      BY <2>2
    <2>4. /\ sv' \in [serverId : 1..MaxServerId, restartedServerId : 1..MaxServerId,
                      configstrings : Strings]
          /\ sv'.restartedServerId = sv.restartedServerId /\ sv.serverId <= sv'.serverId
          /\ sv'.configstrings[SystemInfo] \in sv.restartedServerId..sv'.serverId
          /\ hidden' \subseteq GameString
      BY <1>1, <2>1, SvFields DEF IdInv, TypeInv, TypeOK
    <2>5. toServer' \in Seq(Packet)
          /\ \A j \in DOMAIN toServer' : \E k \in DOMAIN toServer : toServer'[j] = toServer[k]
      BY <1>4, <2>1
    <2> QED BY <2>1, <2>2, <2>3, <2>4, <2>5, ServerChanges
  <1> QED BY <1>5, <1>6

LEMMA SendSnapshot ==
    ASSUME IInv, SV_SendClientSnapshot
    PROVE  IInv'
  <1>1. /\ TypeInv /\ OrderInv /\ IdInv /\ GamestateInv /\ ClientInv /\ ConnectedInv /\ SinceInv
    BY DEF IInv
  <1> DEFINE old == Len(toClient)
             m == [gamestate |-> <<>>, upTo |-> Len(commands), since |-> TRUE]
  <1>2. /\ toClient' = Append(toClient, m)
        /\ sv' = sv /\ hidden' = hidden /\ cl' = cl /\ commands' = commands /\ client' = client
        /\ toServer' = toServer /\ history' = history
    BY DEF SV_SendClientSnapshot
  <1>3. toClient \in Seq(Message) /\ old \in Nat /\ DOMAIN toClient = 1..old
    BY <1>1 DEF TypeInv
  <1>4. m \in Message /\ m.gamestate = <<>> /\ m.upTo = Len(commands)
    BY <1>1, ClientFields DEF Message
  <1> HIDE DEF m
  <1>5. /\ toClient' \in Seq(Message) /\ DOMAIN toClient' = 1..old + 1
        /\ toClient'[old + 1] = m /\ \A k \in 1..old : toClient'[k] = toClient[k]
    BY <1>2, <1>3, <1>4
  <1> HIDE DEF old
  <1>6. \A k \in DOMAIN toClient' : k \in Int /\ (k \in 1..old \/ k = old + 1)
    BY <1>3, <1>5
  <1>7. TypeInv'
    BY <1>1, <1>2, <1>5 DEF TypeInv, TypeOK
  <1>8. OrderInv'
    <2>1. Len(commands) \in Nat /\ client.received <= Len(commands) /\ client.received \in Nat
      BY <1>1, ClientFields
    <2>2. \A k \in 1..old : /\ client.received <= toClient[k].upTo
                            /\ toClient[k].upTo <= Len(commands)
                            /\ \A j \in 1..old : j < k => toClient[j].upTo <= toClient[k].upTo
      BY <1>1, <1>3 DEF OrderInv
    <2>3. ASSUME NEW k \in DOMAIN toClient'
          PROVE  /\ client.received <= toClient'[k].upTo /\ toClient'[k].upTo <= Len(commands)
                 /\ \A j \in DOMAIN toClient' : j < k => toClient'[j].upTo <= toClient'[k].upTo
      <3>1. CASE k \in 1..old
        <4>1. \A j \in DOMAIN toClient' : j < k => j \in 1..old
          BY <1>3, <1>6, <3>1
        <4> QED BY <1>5, <2>2, <3>1, <4>1
      <3>2. CASE k = old + 1
        <4>1. \A j \in DOMAIN toClient' : j < k => j \in 1..old
          BY <1>3, <1>6, <3>2
        <4> QED BY <1>4, <1>5, <2>1, <2>2, <3>2, <4>1
      <3> QED BY <1>6, <3>1, <3>2
    <2> QED BY <1>2, <2>3 DEF OrderInv
  <1>9. \A k \in DOMAIN toClient' :
            toClient'[k].gamestate # <<>> =>
                k \in 1..old /\ k \in DOMAIN toClient /\ toClient'[k] = toClient[k]
    BY <1>3, <1>4, <1>5, <1>6
  <1>10. IdInv'
    BY <1>1, <1>2, <1>9 DEF IdInv
  <1>11. GamestateInv' /\ ConnectedInv'
    <2>1. ASSUME NEW k \in DOMAIN toClient', ThisMap(toClient[k])'
          PROVE  ThisMap(toClient[k]) /\ k \in DOMAIN toClient /\ toClient'[k] = toClient[k]
      BY <1>2, <1>9, <2>1 DEF ThisMap
    <2>2. ASSUME NEW k \in DOMAIN toClient', ThisMap(toClient[k])'
          PROVE  OfThisMap(toClient[k].upTo)' /\ BecomeRight(toClient[k].gamestate, toClient[k].upTo)'
      BY <1>1, <1>2, <2>1, <2>2 DEF GamestateInv, OfThisMap, BecomeRight, Becomes, Pending
    <2>3. ConnectedInv'
      BY <1>1, <1>2, <2>1 DEF ConnectedInv, HasGamestate
    <2> QED BY <2>2, <2>3 DEF GamestateInv
  <1>12. ClientInv'
    BY <1>1, <1>2 DEF ClientInv, Settled, HasGamestate, OfThisMap, BecomeRight, Becomes, Pending
  <1>13. SinceInv'
    <2>1. ASSUME NEW k \in DOMAIN toClient', toClient'[k].gamestate # <<>>, NEW j \in 1..k
          PROVE  ~toClient'[j].since
      <3>1. k \in 1..old /\ toClient[k].gamestate # <<>> /\ k \in DOMAIN toClient
        BY <1>9, <2>1
      <3>2. j \in 1..old
        BY <1>3, <3>1
      <3> QED BY <1>1, <1>5, <3>1, <3>2 DEF SinceInv
    <2> QED BY <1>1, <1>2, <1>9, <2>1 DEF SinceInv, Settled, HasGamestate
  <1> QED BY <1>7, <1>8, <1>10, <1>11, <1>12, <1>13 DEF IInv

-----------------------------------------------------------------------------
(* The client's actions. *)

\* What is under way after the k-th message is taken.
LEMMA Taken ==
    ASSUME IInv, NEW k \in DOMAIN toClient,
           toClient' = SubSeq(toClient, k + 1, Len(toClient)),
           sv' = sv, hidden' = hidden, cl' = cl, commands' = commands, toServer' = toServer,
           client'.since = toClient[k].since, client'.received <= toClient[k].upTo,
           client'.received \in Int
    PROVE  /\ toClient' \in Seq(Message) /\ OrderInv' /\ GamestateInv'
           /\ \A j \in DOMAIN toClient' : \E i \in DOMAIN toClient : toClient'[j] = toClient[i]
           /\ \A j \in DOMAIN toClient' :
                 toClient'[j].gamestate # <<>> =>
                     /\ ~client'.since
                     /\ \A i \in DOMAIN toServer' : ~toServer'[i].since
                     /\ \A i \in 1..j : ~toClient'[i].since
  <1>1. TypeInv /\ OrderInv /\ GamestateInv /\ SinceInv
    BY DEF IInv
  <1>2. toClient \in Seq(Message) /\ k \in 1..Len(toClient) /\ Len(toClient) \in Nat
    BY <1>1 DEF TypeInv
  <1>3. PICK p \in 1..Len(toClient) : p = k
    BY <1>2
  <1> DEFINE r == SubSeq(toClient, p + 1, Len(toClient))
  <1>4. /\ r \in Seq(Message) /\ Len(r) \in Nat
        /\ \A j \in 1..Len(r) : p + j \in 1..Len(toClient) /\ r[j] = toClient[p + j]
    <2> DEFINE q == r
    <2>1. q = SubSeq(toClient, p + 1, Len(toClient))
      OBVIOUS
    <2> HIDE DEF q
    <2>2. /\ q \in Seq(Message) /\ Len(q) \in Nat
          /\ \A j \in 1..Len(q) : p + j \in 1..Len(toClient) /\ q[j] = toClient[p + j]
      <3>1. toClient \in Seq(Message) /\ p \in 1..Len(toClient)
        BY <1>2
      <3> QED BY ONLY <2>1, <3>1, LaterIs
    <2> QED BY <2>2 DEF q
  <1>5. toClient' = r
    BY <1>3
  <1> HIDE DEF r
  <1>6. /\ toClient' \in Seq(Message) /\ DOMAIN toClient' = 1..Len(r) /\ Len(r) \in Nat
        /\ \A j \in 1..Len(r) : p + j \in DOMAIN toClient /\ toClient'[j] = toClient[p + j]
    <2>1. DOMAIN toClient = 1..Len(toClient) /\ DOMAIN r = 1..Len(r)
      BY <1>2, <1>4
    <2> QED BY ONLY <1>4, <1>5, <2>1
  <1>7. p \in Nat /\ p = k
    BY <1>2, <1>3
  <1>8. OrderInv'
    <2>1. \A b \in DOMAIN toClient : \A a \in DOMAIN toClient :
              a < b => toClient[a].upTo <= toClient[b].upTo
      BY <1>1 DEF OrderInv
    <2>2. ASSUME NEW j \in 1..Len(r)
          PROVE  /\ client'.received <= toClient'[j].upTo /\ toClient'[j].upTo <= Len(commands)
                 /\ \A i \in 1..Len(r) : i < j => toClient'[i].upTo <= toClient'[j].upTo
      <3>1. toClient[k].upTo <= toClient[p + j].upTo
        <4>1. p < p + j
          BY <1>6, <1>7
        <4>2. p \in DOMAIN toClient /\ p + j \in DOMAIN toClient
          BY <1>6, <1>7
        <4>3. toClient[p].upTo <= toClient[p + j].upTo
          BY ONLY <2>1, <4>1, <4>2
        <4>4. toClient[p] = toClient[k]
          BY ONLY <1>7, Zenon
        <4> QED BY ONLY <4>3, <4>4, Zenon
      <3>2. toClient[k].upTo \in Int /\ toClient[p + j].upTo \in Int
        <4>1. \A i \in DOMAIN toClient : toClient[i].upTo \in Int
          BY <1>1, DownFields
        <4>2. p + j \in DOMAIN toClient
          BY <1>6
        <4> QED BY ONLY <4>1, <4>2, k \in DOMAIN toClient
      <3>3. client'.received <= toClient[p + j].upTo
        BY SMTT(30), <3>1, <3>2
      <3>4. ASSUME NEW i \in 1..Len(r), i < j PROVE toClient'[i].upTo <= toClient'[j].upTo
        <4>1. p + i < p + j
          BY <1>6, <1>7, <3>4
        <4>2. p + i \in DOMAIN toClient /\ p + j \in DOMAIN toClient
          BY <1>6
        <4>3. toClient[p + i].upTo <= toClient[p + j].upTo
          BY ONLY <2>1, <4>1, <4>2
        <4> QED BY <1>6, <4>3
      <3>5. toClient[p + j].upTo <= Len(commands)
        BY <1>1, <1>6 DEF OrderInv
      <3> QED BY <1>6, <3>3, <3>4, <3>5
    <2> QED BY <1>6, <2>2 DEF OrderInv
  <1>9. GamestateInv'
    <2>1. ASSUME NEW j \in 1..Len(r), ThisMap(toClient[j])'
          PROVE  OfThisMap(toClient[j].upTo)' /\ BecomeRight(toClient[j].gamestate, toClient[j].upTo)'
      <3>1. PICK i \in DOMAIN toClient : i = p + j
        BY <1>6
      <3>2. toClient'[j] = toClient[i]
        BY <1>6, <3>1
      <3>3. ThisMap(toClient[i])
        BY <2>1, <3>2 DEF ThisMap
      <3>4. PICK strings, from : strings = toClient[i].gamestate /\ from = toClient[i].upTo
        OBVIOUS
      <3>5. OfThisMap(from) /\ BecomeRight(strings, from)
        BY <1>1, <3>3, <3>4 DEF GamestateInv
      <3>6. OfThisMap(from)' /\ BecomeRight(strings, from)'
        BY <3>5 DEF OfThisMap, BecomeRight, Becomes, Pending
      <3>7. toClient'[j].upTo = from /\ toClient'[j].gamestate = strings
        BY <3>2, <3>4
      <3> QED BY <3>6, <3>7 DEF OfThisMap, BecomeRight, Becomes
    <2> QED BY <1>6, <2>1 DEF GamestateInv
  <1>10. \A j \in DOMAIN toClient' : \E i \in DOMAIN toClient : toClient'[j] = toClient[i]
    BY <1>6
  <1>11. ASSUME NEW j \in 1..Len(r), toClient'[j].gamestate # <<>>
         PROVE  /\ ~client'.since
                /\ \A i \in DOMAIN toServer' : ~toServer'[i].since
                /\ \A i \in 1..j : ~toClient'[i].since
    <2>1. p + j \in DOMAIN toClient /\ toClient[p + j].gamestate # <<>>
      BY <1>6, <1>11
    <2>2. /\ \A i \in DOMAIN toServer : ~toServer[i].since
          /\ \A i \in 1..p + j : ~toClient[i].since
      BY <1>1, <2>1 DEF SinceInv
    <2>3. k \in 1..p + j
      BY <1>2, <1>6, <1>7
    <2>4. ASSUME NEW i \in 1..j PROVE ~toClient'[i].since
      <3>1. Len(r) \in Nat /\ p \in Nat
        BY <1>6, <1>7
      <3>2. i \in 1..Len(r) /\ p + i \in 1..p + j
        BY ONLY <3>1, j \in 1..Len(r), i \in 1..j
      <3> QED BY <1>6, <2>2, <3>2
    <2> QED BY <2>2, <2>3, <2>4
  <1> QED BY <1>6, <1>8, <1>9, <1>10, <1>11

LEMMA TakeSnapshot ==
    ASSUME IInv, NEW k \in DOMAIN toClient, CL_ParseServerMessage(k),
           toClient[k].gamestate = <<>>
    PROVE  IInv'
  <1>1. /\ TypeInv /\ OrderInv /\ IdInv /\ GamestateInv /\ ClientInv /\ ConnectedInv /\ SinceInv
    BY DEF IInv
  <1> DEFINE m == toClient[k]
             upTo == m.upTo
             since == m.since
  <1>2. /\ toClient' = SubSeq(toClient, k + 1, Len(toClient))
        /\ client' = [client EXCEPT !.received = upTo, !.since = since]
        /\ history' = history
        /\ sv' = sv /\ hidden' = hidden /\ cl' = cl /\ commands' = commands /\ toServer' = toServer
    BY DEF CL_ParseServerMessage
  <1>3. /\ upTo \in 0..Len(commands) /\ upTo \in Int /\ since \in BOOLEAN
        /\ client.received <= upTo /\ client.executed <= upTo
    <2>1. client.received <= upTo /\ upTo <= Len(commands) /\ upTo \in Nat
      BY <1>1, DownFields DEF OrderInv
    <2> HIDE DEF upTo
    <2>2. client.executed <= upTo /\ upTo \in 0..Len(commands)
      BY <1>1, <2>1, ClientFields
    <2>3. since \in BOOLEAN
      BY <1>1, DownFields
    <2> QED BY <2>1, <2>2, <2>3
  <1> HIDE DEF upTo, since
  <1>4. /\ client' \in [state : {"connected", "loading", "primed"}, configstrings : Strings,
                        serverId : 0..MaxServerId, received : 0..Len(commands),
                        executed : 0..Len(commands), mark : 0..Len(commands), since : BOOLEAN]
        /\ client'.received = upTo /\ client'.executed = client.executed
        /\ client'.mark = client.mark /\ client'.serverId = client.serverId
        /\ client'.configstrings = client.configstrings /\ client'.since = since
    <2>1. client \in [state : {"connected", "loading", "primed"}, configstrings : Strings,
                      serverId : 0..MaxServerId, received : 0..Len(commands),
                      executed : 0..Len(commands), mark : 0..Len(commands), since : BOOLEAN]
      BY <1>1 DEF TypeInv, TypeOK
    <2> QED BY <1>2, <1>3, <2>1
  <1>5. client'.since = toClient[k].since /\ client'.received <= toClient[k].upTo
        /\ client'.received \in Int
    BY <1>3, <1>4 DEF upTo, since
  <1>6. /\ toClient' \in Seq(Message) /\ OrderInv' /\ GamestateInv'
        /\ \A j \in DOMAIN toClient' : \E i \in DOMAIN toClient : toClient'[j] = toClient[i]
        /\ \A j \in DOMAIN toClient' :
              toClient'[j].gamestate # <<>> =>
                  /\ ~client'.since
                  /\ \A i \in DOMAIN toServer' : ~toServer'[i].since
                  /\ \A i \in 1..j : ~toClient'[i].since
    BY <1>2, <1>5, Taken
  <1>7. TypeInv'
    BY <1>1, <1>2, <1>3, <1>4, <1>6 DEF TypeInv, TypeOK
  <1>8. IdInv'
    <2>1. \A j \in DOMAIN toClient' :
              toClient'[j].gamestate # <<>> => toClient'[j].gamestate[SystemInfo] <= sv.serverId
      BY <1>1, <1>6 DEF IdInv
    <2> QED BY <1>1, <1>2, <1>4, <2>1 DEF IdInv
  <1>9. ClientInv'
    BY <1>1, <1>2, <1>4 DEF ClientInv, Settled, HasGamestate, OfThisMap, BecomeRight, Becomes,
       Pending
  <1>10. ConnectedInv'
    <2>1. cl.state = "connected" => \A j \in DOMAIN toClient' : ~ThisMap(toClient[j])'
      BY <1>1, <1>2, <1>6 DEF ConnectedInv, ThisMap
    <2> QED BY <1>1, <1>2, <2>1 DEF ConnectedInv, HasGamestate
  <1>11. SinceInv'
    BY <1>1, <1>2, <1>6 DEF SinceInv, Settled, HasGamestate
  <1> QED BY <1>6, <1>7, <1>8, <1>9, <1>10, <1>11 DEF IInv

LEMMA TakeGamestate ==
    ASSUME IInv, NEW k \in DOMAIN toClient, CL_ParseServerMessage(k),
           toClient[k].gamestate # <<>>
    PROVE  IInv'
  <1>1. /\ TypeInv /\ OrderInv /\ IdInv /\ GamestateInv /\ ClientInv /\ ConnectedInv /\ SinceInv
    BY DEF IInv
  <1> DEFINE m == toClient[k]
             upTo == m.upTo
             since == m.since
             strings == m.gamestate
             id == strings[SystemInfo]
  <1>2. PICK state \in {"loading", "primed"} :
            client' = [client EXCEPT !.state = state, !.received = client.executed,
                                     !.mark = upTo, !.since = since,
                                     !.configstrings = strings, !.serverId = id]
    BY DEF CL_ParseServerMessage
  <1>3. /\ toClient' = SubSeq(toClient, k + 1, Len(toClient))
        /\ history' = [replayed |-> FALSE, gamestate |-> id]
        /\ sv' = sv /\ hidden' = hidden /\ cl' = cl /\ commands' = commands /\ toServer' = toServer
    BY DEF CL_ParseServerMessage
  <1>4. /\ upTo \in 0..Len(commands) /\ upTo \in Int /\ ~since /\ since \in BOOLEAN
        /\ client.executed <= upTo /\ client.executed \in 0..Len(commands)
        /\ client.executed \in Nat
    <2>1. client.received <= upTo /\ upTo <= Len(commands) /\ upTo \in Nat
      BY <1>1, DownFields DEF OrderInv
    <2>2. ~since /\ since \in BOOLEAN
      <3>1. k \in 1..k
        BY <1>1, DownFields
      <3> QED BY <1>1, <3>1, DownFields DEF SinceInv
    <2> HIDE DEF upTo
    <2>3. client.executed <= upTo /\ upTo \in 0..Len(commands)
      BY <1>1, <2>1, ClientFields
    <2> QED BY <1>1, <2>1, <2>2, <2>3, ClientFields
  <1>5. strings \in Strings /\ id \in 0..MaxServerId /\ id <= sv.serverId /\ id \in Int
    <2>1. strings \in Strings /\ id \in Int /\ id <= sv.serverId
      BY <1>1, DownFields DEF IdInv
    <2>2. id \in 0..MaxValue + MaxServerId
      BY <2>1, Constants DEF Strings
    <2> HIDE DEF id
    <2>3. id \in 0..MaxServerId
      BY <1>1, <2>1, <2>2, SvFields, Constants
    <2> QED BY <2>1, <2>3
  <1>6. ThisMap(m) => OfThisMap(upTo) /\ BecomeRight(strings, upTo)
    BY <1>1 DEF GamestateInv
  <1>7. id >= sv.restartedServerId => ThisMap(m)
    BY DEF ThisMap
  <1>8. ThisMap(m) => cl.state # "connected"
    BY <1>1 DEF ConnectedInv
  <1> HIDE DEF upTo, since, strings, id, m
  <1>9. /\ client' \in [state : {"connected", "loading", "primed"}, configstrings : Strings,
                        serverId : 0..MaxServerId, received : 0..Len(commands),
                        executed : 0..Len(commands), mark : 0..Len(commands), since : BOOLEAN]
        /\ client'.received = client.executed /\ client'.executed = client.executed
        /\ client'.mark = upTo /\ client'.serverId = id
        /\ client'.configstrings = strings /\ client'.since = since
    <2>1. client \in [state : {"connected", "loading", "primed"}, configstrings : Strings,
                      serverId : 0..MaxServerId, received : 0..Len(commands),
                      executed : 0..Len(commands), mark : 0..Len(commands), since : BOOLEAN]
      BY <1>1 DEF TypeInv, TypeOK
    <2> QED BY <1>2, <1>4, <1>5, <2>1
  <1>10. client'.since = toClient[k].since /\ client'.received <= toClient[k].upTo
         /\ client'.received \in Int
    BY <1>4, <1>9 DEF upTo, since, m
  <1>11. /\ toClient' \in Seq(Message) /\ OrderInv' /\ GamestateInv'
         /\ \A j \in DOMAIN toClient' : \E i \in DOMAIN toClient : toClient'[j] = toClient[i]
         /\ \A j \in DOMAIN toClient' :
               toClient'[j].gamestate # <<>> =>
                   /\ ~client'.since
                   /\ \A i \in DOMAIN toServer' : ~toServer'[i].since
                   /\ \A i \in 1..j : ~toClient'[i].since
    BY <1>3, <1>10, Taken
  <1>12. TypeInv'
    <2>1. client'.executed <= client'.received
      BY <1>4, <1>9
    <2>2. history' \in [replayed : BOOLEAN, gamestate : 0..MaxServerId]
      BY <1>3, <1>5
    <2> QED BY <1>1, <1>3, <1>9, <1>11, <2>1, <2>2 DEF TypeInv, TypeOK
  <1>13. IdInv'
    <2>1. \A j \in DOMAIN toClient' :
              toClient'[j].gamestate # <<>> => toClient'[j].gamestate[SystemInfo] <= sv.serverId
      BY <1>1, <1>11 DEF IdInv
    <2>2. history'.gamestate <= sv.serverId /\ client'.serverId <= sv.serverId
      BY <1>3, <1>5, <1>9
    <2> QED BY <1>1, <1>3, <2>1, <2>2 DEF IdInv
  <1>14. HasGamestate' => ThisMap(m)
    BY <1>3, <1>7 DEF HasGamestate
  <1>15. ClientInv'
    <2>1. ASSUME Settled'
          PROVE  /\ OfThisMap(client.mark)' /\ client'.serverId >= sv'.restartedServerId
                 /\ client'.executed >= client'.mark =>
                       BecomeRight(client.configstrings, client.executed)'
      <3>1. OfThisMap(upTo) /\ BecomeRight(strings, upTo)
        BY <1>6, <1>14, <2>1 DEF Settled
      <3>2. PICK text, from : text = strings /\ from = upTo
        OBVIOUS
      <3>3. OfThisMap(from)' /\ BecomeRight(text, from)'
        BY <1>3, <3>1, <3>2 DEF OfThisMap, BecomeRight, Becomes, Pending
      <3>4. client'.executed >= client'.mark => client'.executed = from
        BY <1>4, <1>9, <3>2
      <3>5. client'.mark = from /\ client'.configstrings = text
        BY <1>9, <3>2
      <3>6. client'.serverId >= sv'.restartedServerId
        BY <1>3, <1>9, <2>1 DEF Settled, HasGamestate
      <3>7. OfThisMap(client.mark)'
        BY <3>3, <3>5 DEF OfThisMap
      <3>8. client'.executed >= client'.mark =>
                BecomeRight(client.configstrings, client.executed)'
        BY <3>3, <3>4, <3>5 DEF BecomeRight, Becomes
      <3> QED BY <3>6, <3>7, <3>8
    <2> QED BY <2>1 DEF ClientInv
  <1>16. ConnectedInv'
    <2>1. cl.state = "connected" => \A j \in DOMAIN toClient' : ~ThisMap(toClient[j])'
      BY <1>1, <1>3, <1>11 DEF ConnectedInv, ThisMap
    <2> QED BY <1>3, <1>8, <1>14, <2>1 DEF ConnectedInv
  <1>17. SinceInv'
    <2>1. \A j \in DOMAIN toServer : ~toServer[j].since
      BY <1>1 DEF SinceInv
    <2> QED BY <1>3, <1>11, <2>1 DEF SinceInv
  <1> QED BY <1>11, <1>12, <1>13, <1>15, <1>16, <1>17 DEF IInv

LEMMA Load ==
    ASSUME IInv, CL_InitCGame
    PROVE  IInv'
  <1>1. /\ TypeInv /\ OrderInv /\ IdInv /\ GamestateInv /\ ClientInv /\ ConnectedInv /\ SinceInv
    BY DEF IInv
  <1>2. /\ client' = [client EXCEPT !.state = "primed"]
        /\ sv' = sv /\ hidden' = hidden /\ cl' = cl /\ commands' = commands
        /\ toServer' = toServer /\ toClient' = toClient /\ history' = history
    BY DEF CL_InitCGame
  <1>3. /\ client' \in [state : {"connected", "loading", "primed"}, configstrings : Strings,
                        serverId : 0..MaxServerId, received : 0..Len(commands),
                        executed : 0..Len(commands), mark : 0..Len(commands), since : BOOLEAN]
        /\ client'.received = client.received /\ client'.executed = client.executed
        /\ client'.mark = client.mark /\ client'.serverId = client.serverId
        /\ client'.configstrings = client.configstrings /\ client'.since = client.since
    <2>1. client \in [state : {"connected", "loading", "primed"}, configstrings : Strings,
                      serverId : 0..MaxServerId, received : 0..Len(commands),
                      executed : 0..Len(commands), mark : 0..Len(commands), since : BOOLEAN]
      BY <1>1 DEF TypeInv, TypeOK
    <2> QED BY <1>2, <2>1
  <1>4. TypeInv' /\ OrderInv' /\ IdInv'
    BY <1>1, <1>2, <1>3 DEF TypeInv, TypeOK, OrderInv, IdInv
  <1>5. GamestateInv' /\ ClientInv'
    BY <1>1, <1>2, <1>3 DEF GamestateInv, ThisMap, ClientInv, Settled, HasGamestate, OfThisMap,
       BecomeRight, Becomes, Pending
  <1>6. ConnectedInv' /\ SinceInv'
    BY <1>1, <1>2, <1>3 DEF ConnectedInv, SinceInv, Settled, HasGamestate, ThisMap
  <1> QED BY <1>4, <1>5, <1>6 DEF IInv

\* When the next command is executed, its string is what it set it to.
LEMMA ExecutesRight ==
    ASSUME TypeInv, NEW strings \in Strings, NEW from \in 0..Len(commands) - 1, NEW new,
           BecomeRight(strings, from),
           new = [strings EXCEPT ![commands[from + 1].index] = commands[from + 1].value]
    PROVE  BecomeRight(new, from + 1)
  <1> DEFINE n == from + 1
             c == commands[n]
             end == Len(commands)
  <1>1. end \in Nat /\ from \in Nat /\ n \in Nat /\ n \in 1..end
    BY ClientFields
  <1>2. c.index \in Index
    BY <1>1, CommandFields
  <1>3. /\ new[c.index] = c.value
        /\ \A j \in Index : j # c.index => new[j] = strings[j]
    BY <1>2 DEF Strings
  <1>4. ASSUME NEW i \in Index \ hidden, ~Pending(i)
        PROVE  Becomes(new[i], n, i, sv.configstrings[i])
    <2> DEFINE value == sv.configstrings[i]
    <2>1. Becomes(strings[i], from, i, value)
      BY <1>4 DEF BecomeRight
    <2>2. /\ \A m \in from + 1..end :
                (commands[m].index = i /\ \A j \in m + 1..end : commands[j].index # i)
                   => commands[m].value = value
          /\ (\A m \in from + 1..end : commands[m].index # i) => strings[i] = value
      BY <2>1 DEF Becomes
    <2> HIDE DEF value, end, c, n
    <2>3. \A m \in from + 1..end : m = n \/ m \in n + 1..end
      BY <1>1 DEF n
    <2>4. \A m \in n + 1..end : m \in from + 1..end
      BY <1>1 DEF n
    <2>5. n \in from + 1..end
      BY <1>1 DEF n
    <2>6. (\A m \in n + 1..end : commands[m].index # i) => new[i] = value
      BY <1>3, <2>2, <2>3, <2>5 DEF c
    <2>7. \A m \in n + 1..end :
              (commands[m].index = i /\ \A j \in m + 1..end : commands[j].index # i)
                 => commands[m].value = value
      BY <2>2, <2>4
    <2> QED BY <2>6, <2>7 DEF Becomes, value, end
  <1> QED BY <1>4 DEF BecomeRight

LEMMA Executes ==
    ASSUME IInv, Execute
    PROVE  IInv'
  <1>1. /\ TypeInv /\ OrderInv /\ IdInv /\ GamestateInv /\ ClientInv /\ ConnectedInv /\ SinceInv
    BY DEF IInv
  <1>2. PICK from \in 0..Len(commands) : from = client.executed
    BY <1>1, ClientFields
  <1> DEFINE n == from + 1
             c == commands[n]
             strings == [client.configstrings EXCEPT ![c.index] = c.value]
             id == IF c.index = SystemInfo THEN c.value ELSE client.serverId
  <1>3. /\ n <= client.received
        /\ client' = [client EXCEPT !.executed = n, !.configstrings = strings, !.serverId = id]
        /\ history' = [history EXCEPT !.replayed = @ \/ n <= client.mark]
        /\ sv' = sv /\ hidden' = hidden /\ cl' = cl /\ commands' = commands
        /\ toServer' = toServer /\ toClient' = toClient
    BY <1>2 DEF Execute
  <1>4. /\ Len(commands) \in Nat /\ from \in Nat /\ n \in Nat /\ n \in 1..Len(commands)
        /\ from \in 0..Len(commands) - 1 /\ client.mark \in Nat /\ client.received \in Nat
    BY <1>1, <1>3, ClientFields
  <1>5. c.index \in Index /\ c.value \in 0..MaxValue + MaxServerId
    BY <1>1, <1>4, CommandFields
  <1>6. strings \in Strings
    BY <1>1, <1>5, ClientFields DEF Strings
  <1>7. id \in 0..MaxServerId /\ id <= sv.serverId
    <2>1. CASE c.index = SystemInfo
      <3>1. c.value <= sv.serverId /\ c.value \in Nat
        BY <1>1, <1>4, <2>1, ClientFields, CommandFields DEF IdInv
      <3>2. c.value \in 0..MaxServerId
        <4> HIDE DEF c
        <4> QED BY <1>1, <3>1, SvFields, Constants
      <3> QED BY <2>1, <3>1, <3>2
    <2>2. CASE c.index # SystemInfo
      BY <1>1, <2>2, ClientFields DEF IdInv
    <2> QED BY <2>1, <2>2
  <1> HIDE DEF strings, id
  <1>8. /\ client' \in [state : {"connected", "loading", "primed"}, configstrings : Strings,
                        serverId : 0..MaxServerId, received : 0..Len(commands),
                        executed : 0..Len(commands), mark : 0..Len(commands), since : BOOLEAN]
        /\ client'.received = client.received /\ client'.executed = n
        /\ client'.mark = client.mark /\ client'.serverId = id
        /\ client'.configstrings = strings /\ client'.since = client.since
    <2>1. client \in [state : {"connected", "loading", "primed"}, configstrings : Strings,
                      serverId : 0..MaxServerId, received : 0..Len(commands),
                      executed : 0..Len(commands), mark : 0..Len(commands), since : BOOLEAN]
      BY <1>1 DEF TypeInv, TypeOK
    <2>2. n \in 0..Len(commands)
      BY <1>4
    <2> HIDE DEF n
    <2> QED BY <1>3, <1>6, <1>7, <2>1, <2>2
  <1>9. /\ history' \in [replayed : BOOLEAN, gamestate : 0..MaxServerId]
        /\ history'.gamestate = history.gamestate
        /\ ~history'.replayed => ~history.replayed /\ ~(n <= client.mark)
    <2> DEFINE replayed == history.replayed \/ n <= client.mark
    <2>1. history \in [replayed : BOOLEAN, gamestate : 0..MaxServerId]
      BY <1>1 DEF TypeInv, TypeOK
    <2>2. replayed \in BOOLEAN /\ history' = [history EXCEPT !.replayed = replayed]
      BY <1>3
    <2>3. ~replayed => ~history.replayed /\ ~(n <= client.mark)
      OBVIOUS
    <2> HIDE DEF replayed
    <2>4. history'.replayed = replayed /\ history'.gamestate = history.gamestate
          /\ history' \in [replayed : BOOLEAN, gamestate : 0..MaxServerId]
      BY <2>1, <2>2
    <2> QED BY <2>3, <2>4
  <1>10. TypeInv'
    <2>1. client'.executed <= client'.received
      BY <1>3, <1>8
    <2> QED BY <1>1, <1>3, <1>8, <1>9, <2>1 DEF TypeInv, TypeOK
  <1>11. OrderInv' /\ IdInv'
    BY <1>1, <1>3, <1>7, <1>8, <1>9 DEF OrderInv, IdInv
  <1>12. GamestateInv'
    BY <1>1, <1>3 DEF GamestateInv, ThisMap, OfThisMap, BecomeRight, Becomes, Pending
  <1>13. ConnectedInv' /\ SinceInv'
    BY <1>1, <1>3, <1>8, <1>9 DEF ConnectedInv, SinceInv, Settled, HasGamestate, ThisMap
  <1>14. ClientInv'
    <2>1. ASSUME Settled'
          PROVE  /\ OfThisMap(client.mark)' /\ client'.serverId >= sv'.restartedServerId
                 /\ BecomeRight(client.configstrings, client.executed)'
      <3>1. Settled /\ n > client.mark
        BY <1>3, <1>4, <1>9, <2>1 DEF Settled, HasGamestate
      <3>2. /\ OfThisMap(client.mark) /\ client.serverId >= sv.restartedServerId
            /\ client.executed >= client.mark =>
                  BecomeRight(client.configstrings, client.executed)
        BY <1>1, <3>1 DEF ClientInv
      <3>3. from >= client.mark
        BY <1>4, <3>1
      <3>4. BecomeRight(client.configstrings, from)
        BY <1>2, <3>2, <3>3
      <3>5. PICK text \in Strings : text = client.configstrings
        BY <1>1, ClientFields
      <3>6. BecomeRight(strings, n)
        <4>1. BecomeRight(text, from) /\ strings = [text EXCEPT ![commands[from + 1].index] =
                                                        commands[from + 1].value]
          BY <3>4, <3>5 DEF strings
        <4> QED BY <1>1, <1>4, <4>1, ExecutesRight
      <3>7. OfThisMap(client.mark)'
        BY <1>3, <1>8, <3>2 DEF OfThisMap
      <3>8. BecomeRight(client.configstrings, client.executed)'
        <4>1. PICK new, m : new = strings /\ m = n
          OBVIOUS
        <4>2. BecomeRight(new, m)
          BY <3>6, <4>1
        <4>3. BecomeRight(new, m)'
          BY <1>3, <4>2 DEF BecomeRight, Becomes, Pending
        <4>4. client'.configstrings = new /\ client'.executed = m
          BY <1>8, <4>1
        <4> QED BY <4>3, <4>4 DEF BecomeRight, Becomes
      <3>9. id >= sv.restartedServerId
        <4>1. CASE c.index = SystemInfo
          <5>1. n \in client.mark + 1..Len(commands)
            BY <1>4, <3>1
          <5> QED BY <3>2, <4>1, <5>1 DEF OfThisMap, id
        <4>2. CASE c.index # SystemInfo
          BY <3>2, <4>2 DEF id
        <4> QED BY <4>1, <4>2
      <3> QED BY <1>3, <1>8, <3>7, <3>8, <3>9
    <2> QED BY <2>1 DEF ClientInv
  <1> QED BY <1>10, <1>11, <1>12, <1>13, <1>14 DEF IInv

LEMMA Writes ==
    ASSUME IInv, CL_WritePacket
    PROVE  IInv'
  <1>1. /\ TypeInv /\ OrderInv /\ IdInv /\ GamestateInv /\ ClientInv /\ ConnectedInv /\ SinceInv
    BY DEF IInv
  <1> DEFINE p == [serverId |-> client.serverId, since |-> client.since,
                   move |-> client.state = "primed"]
  <1>2. /\ toServer' = Append(toServer, p)
        /\ sv' = sv /\ hidden' = hidden /\ cl' = cl /\ commands' = commands
        /\ client' = client /\ toClient' = toClient /\ history' = history
    BY DEF CL_WritePacket
  <1>3. p \in Packet /\ p.serverId = client.serverId /\ p.since = client.since
    BY <1>1, ClientFields DEF Packet
  <1>4. toServer \in Seq(Packet)
    BY <1>1 DEF TypeInv
  <1> HIDE DEF p
  <1>5. /\ toServer' \in Seq(Packet)
        /\ \A j \in DOMAIN toServer' :
              toServer'[j] = p \/ \E k \in DOMAIN toServer : toServer'[j] = toServer[k]
    BY <1>2, <1>3, <1>4
  <1>6. TypeInv' /\ OrderInv' /\ GamestateInv' /\ ClientInv' /\ ConnectedInv'
    <2>1. TypeInv' /\ OrderInv'
      BY <1>1, <1>2, <1>5 DEF TypeInv, TypeOK, OrderInv
    <2>2. GamestateInv' /\ ClientInv'
      BY <1>1, <1>2 DEF GamestateInv, ThisMap, ClientInv, Settled, HasGamestate, OfThisMap,
         BecomeRight, Becomes, Pending
    <2>3. ConnectedInv'
      BY <1>1, <1>2 DEF ConnectedInv, HasGamestate, ThisMap
    <2> QED BY <2>1, <2>2, <2>3
  <1>7. IdInv'
    <2>1. \A j \in DOMAIN toServer' : toServer'[j].serverId <= sv.serverId
      BY <1>1, <1>3, <1>5 DEF IdInv
    <2> QED BY <1>1, <1>2, <2>1 DEF IdInv
  <1>8. SinceInv'
    <2>1. ASSUME NEW k \in DOMAIN toClient, toClient[k].gamestate # <<>>
          PROVE  \A j \in DOMAIN toServer' : ~toServer'[j].since
      BY <1>1, <1>3, <1>5, <2>1 DEF SinceInv
    <2>2. ASSUME Settled, NEW j \in DOMAIN toServer', toServer'[j].since
          PROVE  toServer'[j].serverId >= sv.restartedServerId
      <3>1. CASE toServer'[j] = p
        BY <1>1, <1>3, <2>2, <3>1 DEF ClientInv
      <3>2. CASE \E k \in DOMAIN toServer : toServer'[j] = toServer[k]
        BY <1>1, <2>2, <3>2 DEF SinceInv
      <3> QED BY <1>5, <3>1, <3>2
    <2> QED BY <1>1, <1>2, <2>1, <2>2 DEF SinceInv, Settled, HasGamestate
  <1> QED BY <1>6, <1>7, <1>8 DEF IInv

-----------------------------------------------------------------------------
(* The theorems. *)

LEMMA InitInv == Init => IInv
  <1> SUFFICES ASSUME Init PROVE IInv
    OBVIOUS
  <1> DEFINE strings == [i \in Index |-> IF i = SystemInfo THEN 1 ELSE 0]
             none == [i \in Index |-> 0]
  <1>1. /\ sv = [serverId |-> 1, restartedServerId |-> 1, configstrings |-> strings]
        /\ client = [state |-> "connected", configstrings |-> none, serverId |-> 0,
                     received |-> 0, executed |-> 0, mark |-> 0, since |-> TRUE]
    BY DEF Init
  <1>2. /\ hidden = {} /\ cl = [state |-> "connected", csUpdated |-> {}]
        /\ commands = <<>> /\ toServer = <<>> /\ toClient = <<>>
        /\ history = [replayed |-> FALSE, gamestate |-> 0]
    BY DEF Init
  <1>3. strings \in Strings /\ none \in Strings /\ strings[SystemInfo] = 1
    BY Constants DEF Strings
  <1> HIDE DEF strings, none
  <1>4. /\ sv.serverId = 1 /\ sv.restartedServerId = 1 /\ sv.configstrings[SystemInfo] = 1
        /\ client.serverId = 0 /\ client.received = 0 /\ ~HasGamestate
        /\ Len(commands) = 0 /\ DOMAIN commands = {} /\ DOMAIN toServer = {} /\ DOMAIN toClient = {}
    BY <1>1, <1>2, <1>3 DEF HasGamestate
  <1>5. TypeInv
    <2>1. sv \in [serverId : 1..MaxServerId, restartedServerId : 1..MaxServerId,
                  configstrings : Strings]
      BY <1>1, <1>3, Constants
    <2>2. client \in [state : {"connected", "loading", "primed"}, configstrings : Strings,
                      serverId : 0..MaxServerId, received : 0..Len(commands),
                      executed : 0..Len(commands), mark : 0..Len(commands), since : BOOLEAN]
      BY <1>1, <1>3, <1>4, Constants
    <2>3. client.executed <= client.received
      BY <1>1
    <2>4. history \in [replayed : BOOLEAN, gamestate : 0..MaxServerId]
      BY <1>2, Constants
    <2> QED BY <1>2, <1>4, <2>1, <2>2, <2>3, <2>4 DEF TypeInv, TypeOK
  <1>6. OrderInv /\ GamestateInv /\ ClientInv /\ ConnectedInv /\ SinceInv
    BY <1>4 DEF OrderInv, GamestateInv, ClientInv, ConnectedInv, SinceInv, Settled
  <1>7. IdInv
    BY <1>2, <1>4 DEF IdInv
  <1> QED BY <1>5, <1>6, <1>7 DEF IInv

LEMMA NextInv == IInv /\ [Next]_vars => IInv'
  <1> SUFFICES ASSUME IInv, [Next]_vars PROVE IInv'
    OBVIOUS
  <1>1. TypeInv
    BY DEF IInv
  <1>2. CASE GameSetsConfigstring
    <2>1. PICK i \in GameString, value \in 0..MaxValue : SetConfigstring(i, value)
      BY <1>2 DEF GameSetsConfigstring
    <2>2. i \in Index /\ i # SystemInfo /\ value \in 0..MaxValue + MaxServerId
      BY Constants
    <2> QED BY <1>2, <2>1, <2>2, Set DEF GameSetsConfigstring
  <1>3. CASE UpdateSystemInfo
    <2>1. PICK value : value = sv.serverId
      OBVIOUS
    <2>2. value \in 0..MaxValue + MaxServerId /\ SystemInfo \in Index
      BY <1>1, <2>1, SvFields, Constants
    <2> QED BY <1>3, <2>1, <2>2, Set DEF UpdateSystemInfo
  <1>4. ASSUME NEW i \in GameString, SetConfigstringRestrictions(i) PROVE IInv'
    BY <1>4, Hide
  <1>5. ASSUME NEW n \in DOMAIN toClient, CL_ParseServerMessage(n) PROVE IInv'
    BY <1>5, TakeSnapshot, TakeGamestate
  <1>6. CASE UNCHANGED vars
    BY <1>6 DEF vars, IInv, TypeInv, TypeOK, OrderInv, IdInv, GamestateInv, ClientInv,
       ConnectedInv, SinceInv, Settled, HasGamestate, ThisMap, OfThisMap, BecomeRight,
       Becomes, Pending
  <1> QED BY <1>2, <1>3, <1>4, <1>5, <1>6, Spawn, Restart, SendSnapshot, ClientMessage, Load,
          Executes, Writes DEF Next

\* The invariant holds in every reachable state: however maps, restarts and
\* messages of server and client interleave, a gamestate of this map amounts,
\* with the commands that follow it, to the server's configstrings.
THEOREM Inductive == Spec => []IInv
  <1>1. Init => IInv
    BY InitInv
  <1>2. IInv /\ [Next]_vars => IInv'
    BY NextInv
  <1> QED BY <1>1, <1>2, PTL DEF Spec

\* A client that plays the server's map from a gamestate of it, and has executed
\* every command, has every configstring it may see as SV_SetConfigstring,
\* SV_SpawnServer and SV_UpdateConfigstrings left it on the server, unless it
\* has executed commands from before the gamestate.
THEOREM StringsFollow == Spec => []StringsHold
  <1>1. IInv => StringsHold
    <2> SUFFICES ASSUME IInv PROVE StringsHold
      OBVIOUS
    <2>1. TypeInv /\ ClientInv
      BY DEF IInv
    <2>2. SUFFICES ASSUME CaughtUp, HasGamestate, ~history.replayed, NEW i \in Index \ hidden
                   PROVE  client.configstrings[i] = sv.configstrings[i]
      BY <2>1 DEF StringsHold, TypeInv, ReliableUnlessReplayed, Agrees
    <2>3. PICK end : end = client.executed
      OBVIOUS
    <2>4. end = Len(commands) /\ end \in Nat /\ client.mark <= end /\ end + 1..end = {}
      BY <2>1, <2>2, <2>3, ClientFields DEF CaughtUp
    <2>5. BecomeRight(client.configstrings, end)
      BY <2>1, <2>2, <2>3, <2>4, ClientFields DEF ClientInv, Settled
    <2>6. ~Pending(i)
      BY <2>2 DEF CaughtUp, Pending
    <2> QED BY <2>4, <2>5, <2>6 DEF BecomeRight, Becomes
  <1> QED BY <1>1, Inductive, PTL

\* SV_ExecuteClientMessage does not send a client the gamestate of a map again
\* once the client has it, which would make it load the map anew, unless the
\* client has executed commands from before that gamestate.
THEOREM SentOnce == Spec => OneGamestatePerMap
  <1>1. IInv /\ [Next]_vars => [GamestateSent => history.replayed \/ ~HasGamestate]_vars
    <2> SUFFICES ASSUME IInv, [Next]_vars, GamestateSent PROVE ~Settled
      BY DEF Settled
    <2>1. TypeInv /\ IdInv /\ SinceInv
      BY DEF IInv
    <2>2. toClient \in Seq(Message) /\ toServer \in Seq(Packet)
      BY <2>1 DEF TypeInv
    <2>3. PICK n \in DOMAIN toServer :
              toServer[n].serverId # sv.serverId /\ ~Outdated(toServer[n]) /\ toServer[n].since
      <3>1. ASSUME NEW n \in DOMAIN toServer, SV_ExecuteClientMessage(n)
            PROVE  toServer[n].serverId # sv.serverId /\ ~Outdated(toServer[n])
                     /\ toServer[n].since
        BY <2>2, <3>1 DEF SV_ExecuteClientMessage, GamestateSent
      <3>2. ~SV_SendClientSnapshot
        BY <2>2 DEF SV_SendClientSnapshot, GamestateSent
      <3>3. ASSUME NEW k \in DOMAIN toClient, CL_ParseServerMessage(k) PROVE FALSE
        <4>1. Len(toClient') = Len(toClient) - k
          BY <2>2, <3>3, LaterIs DEF CL_ParseServerMessage
        <4> QED BY <2>2, <4>1 DEF GamestateSent
      <3>4. toClient' # toClient
        BY <2>2 DEF GamestateSent
      <3> QED BY <3>1, <3>2, <3>3, <3>4 DEF Next, GameSetsConfigstring, UpdateSystemInfo,
              SetConfigstringRestrictions, SV_SpawnServer, SV_MapRestart_f, CL_InitCGame,
              Execute, CL_WritePacket, vars
    <2>4. PICK id \in Int : id = toServer[n].serverId
      BY <2>1, UpFields
    <2>5. id <= sv.serverId /\ id # sv.serverId /\ ~(id \in sv.restartedServerId..sv.serverId - 1)
      BY <2>1, <2>3, <2>4 DEF IdInv, Outdated
    <2>6. ~(id >= sv.restartedServerId)
      BY <2>1, <2>5, SvFields
    <2> QED BY <2>1, <2>3, <2>4, <2>6 DEF SinceInv
  <1> QED BY <1>1, Inductive, PTL DEF Spec, OneGamestatePerMap
=============================================================================
