----------------------------- MODULE SpawnQueue -----------------------------
(***************************************************************************)
(* Those who wait to spawn: the ring buffer of each team's spawn queue     *)
(* (g_main.c), the commands that join and leave teams and queues, and the  *)
(* following of other players, which exchanges the waiting player's        *)
(* playerState, with its clientNum, for that of the one who is followed    *)
(* (g_cmds.c, g_team.c, g_client.c, g_active.c).                           *)
(***************************************************************************)
EXTENDS Integers, Sequences, FiniteSetsExt

CONSTANTS
    MAX_CLIENTS,        \* the size of the ring, and the number of clients
    Teams,
    StickySpec          \* clients that go on following who is dead

VARIABLES
    clients,            \* level.clients
    queues,             \* level.alienSpawnQueue, level.humanSpawnQueue
    strayed             \* history: who left a team stayed in its queue

vars == <<clients, queues, strayed>>

Client == 0..MAX_CLIENTS - 1

\* For every client in turn, from the first: Op of what is so far and the client.
ForClients(Op(_, _), cs) ==
    MapThenFoldSet(LAMBDA c, s : Op(s, c), cs, LAMBDA c : c, Max, Client)

\* A slot nobody has used: num is ps.clientNum, target sess.spectatorClient,
\* class whether pers.classSelection is one.
Unused == [connected |-> FALSE, team |-> "none", spec |-> "not", target |-> -1,
           num |-> 0, class |-> FALSE]

\* BUG: the ring does not close.
BugPlus1(i) == i + 1

Plus1(i) == (i + 1) % MAX_CLIENTS
Minus1(i) == (i + MAX_CLIENTS - 1) % MAX_CLIENTS

\* G_InitSpawnQueue
Init ==
    /\ clients = [c \in Client |-> Unused]
    /\ queues = [t \in Teams |-> [slot |-> [i \in Client |-> -1], front |-> 0, back |-> Minus1(0)]]
    /\ strayed = FALSE

-----------------------------------------------------------------------------
(* The queue *)

\* G_GetSpawnQueueLength: a full queue counts as empty.
Length(q) == (q.back - q.front + 1) % MAX_CLIENTS

\* G_SearchSpawnQueue
Queued(q, c) == \E i \in Client : q.slot[i] = c

\* BUG: the client is put in front.
BugPushed(q, c) ==
    IF Queued(q, c) THEN q
    ELSE [q EXCEPT !.front = Minus1(@), !.slot[Minus1(q.front)] = c]

\* G_PushSpawnQueue
Pushed(q, c) ==
    IF Queued(q, c) THEN q
    ELSE [q EXCEPT !.back = Plus1(@), !.slot[Plus1(q.back)] = c]

\* G_PopSpawnQueue
Popped(q) == [q EXCEPT !.slot[q.front] = -1, !.front = Plus1(@)]

\* The places from front to back.
Places(q) ==
    LET n == ((q.back - q.front) % MAX_CLIENTS) + 1
    IN  IF Length(q) = 0 THEN {} ELSE {(q.front + k) % MAX_CLIENTS : k \in 0..n - 1}

Offset(q, i) == (i - q.front) % MAX_CLIENTS

\* BUG: the last place is not cleared.
BugRemoved(q, c) ==
    LET at == {i \in Places(q) : q.slot[i] = c}
    IN  IF at = {} THEN q
        ELSE LET p == CHOOSE i \in at : TRUE
             IN  [q EXCEPT !.back = Minus1(@),
                           !.slot = [i \in Client |->
                               IF i \in Places(q) /\ i # q.back /\ Offset(q, i) >= Offset(q, p)
                               THEN q.slot[Plus1(i)] ELSE q.slot[i]]]

\* G_RemoveFromSpawnQueue: those behind move up, and the place behind the last
\* one, which is empty, is copied too.
Removed(q, c) ==
    LET at == {i \in Places(q) : q.slot[i] = c}
    IN  IF at = {} THEN q
        ELSE LET p == CHOOSE i \in at : TRUE
             IN  [q EXCEPT !.back = Minus1(@),
                           !.slot = [i \in Client |->
                               IF i \in Places(q) /\ Offset(q, i) >= Offset(q, p)
                               THEN q.slot[Plus1(i)] ELSE q.slot[i]]]

-----------------------------------------------------------------------------
(* Following *)

\* G_StopFollowing
StopFollowing(cs, c) ==
    [cs EXCEPT ![c].spec = IF cs[c].team = "none" THEN "free" ELSE "locked",
               ![c].target = -1, ![c].num = c]

\* Whom c may follow next, in the order of the search; where c follows nobody
\* it starts after client 0 and takes client 0 last.
Followable(cs, c, d) ==
    /\ d # c /\ cs[d].connected /\ cs[d].team # "none"
    /\ c \in StickySpec \/ cs[d].spec = "not"
    /\ cs[c].team # "none" => cs[d].team = cs[c].team

Candidates(cs, c, dir) ==
    LET base == IF cs[c].target = -1 THEN 0 ELSE cs[c].target
        last == IF cs[c].target = -1 THEN MAX_CLIENTS ELSE MAX_CLIENTS - 1
    IN  SelectSeq([k \in 1..last |-> (base + dir * k) % MAX_CLIENTS],
                  LAMBDA d : Followable(cs, c, d))

\* G_FollowNewClient, with G_FollowLockView where the target is waiting too.
FollowNewClient(cs, c, dir) ==
    LET d == Candidates(cs, c, dir)[1]
    IN  IF cs[c].spec = "not" \/ Candidates(cs, c, dir) = <<>> THEN cs
        ELSE [cs EXCEPT ![c].target = d, ![c].spec = "follow",
                        ![c].num = IF cs[d].spec # "not" THEN d ELSE @]

FollowNewOrStop(cs, c) ==
    IF Candidates(cs, c, 1) = <<>> THEN StopFollowing(cs, c) ELSE FollowNewClient(cs, c, 1)

\* G_StopFromFollowing: those who follow client n look for another.
StopFromFollowing(cs, n) ==
    ForClients(LAMBDA s, c : IF s[c].spec = "follow" /\ s[c].target = n
                             THEN FollowNewOrStop(s, c) ELSE s, cs)

-----------------------------------------------------------------------------
(* Clients *)

\* ClientSpawn, what it does to spectators.
Spawned(cs, c) ==
    LET s1 == IF cs[c].target # -1 THEN "free" ELSE cs[c].spec
        s2 == IF cs[c].class THEN s1 ELSE IF cs[c].team = "none" THEN "free" ELSE "locked"
    IN  [cs EXCEPT ![c].target = -1, ![c].spec = s2, ![c].num = c]

\* ClientConnect and ClientBegin; the queues are not looked at.
ClientBegin(c) ==
    /\ ~clients[c].connected
    /\ clients' = Spawned([clients EXCEPT ![c] = [Unused EXCEPT !.connected = TRUE,
                                                               !.spec = "free"]], c)
    /\ UNCHANGED <<queues, strayed>>

\* BUG: the queue is left alone.
BugLeaver(c) == -1

\* Whom G_LeaveTeam takes out of the queue: the client its playerState names.
Leaver(c) == clients[c].num

\* G_LeaveTeam
LeaveTeam(c) ==
    LET t == clients[c].team
    IN  IF t = "none"
        THEN [cs |-> IF clients[c].spec = "follow" THEN StopFollowing(clients, c) ELSE clients,
              qs |-> queues]
        ELSE [cs |-> StopFromFollowing(clients, clients[c].num),
              qs |-> [queues EXCEPT ![t] = Removed(@, Leaver(c))]]

\* Does c leave its team and stay in the queue?
Strays(c) ==
    LET t == clients[c].team
    IN  t # "none" /\ clients[c].num # c /\ Queued(queues[t], c)

\* G_ChangeTeam
G_ChangeTeam(c, team) ==
    /\ clients[c].connected /\ clients[c].team # team
    /\ clients' = Spawned([LeaveTeam(c).cs EXCEPT ![c].team = team, ![c].class = FALSE], c)
    /\ queues' = LeaveTeam(c).qs
    /\ strayed' = (strayed \/ Strays(c))

ClientDisconnect(c) ==
    /\ clients[c].connected
    /\ clients' = [LeaveTeam(c).cs EXCEPT ![c].connected = FALSE, ![c].spec = "not"]
    /\ queues' = LeaveTeam(c).qs
    /\ strayed' = (strayed \/ Strays(c))

\* Cmd_Class_f of a spectator, with a class or weapon that is allowed.
Cmd_Class_f(c) ==
    LET t  == clients[c].team
        cs == IF clients[c].spec = "follow" THEN StopFollowing(clients, c) ELSE clients
    IN  /\ clients[c].connected /\ clients[c].spec # "not" /\ t # "none"
        /\ queues' = [queues EXCEPT ![t] = Pushed(@, c)]
        /\ clients' = [cs EXCEPT ![c].class = @ \/ ~Queued(queues[t], c)]
        /\ UNCHANGED strayed

\* SpectatorThink with the attack button pressed.
SpectatorThink(c) ==
    LET t  == clients[c].team
        cs == IF clients[c].spec = "follow" THEN StopFollowing(clients, c) ELSE clients
        queued == t # "none" /\ Queued(queues[t], c)
    IN  /\ clients[c].connected /\ clients[c].spec # "not"
        /\ clients' = IF queued THEN [cs EXCEPT ![c].class = FALSE] ELSE cs
        /\ queues' = IF queued THEN [queues EXCEPT ![t] = Removed(@, cs[c].num)] ELSE queues
        /\ UNCHANGED strayed

\* Cmd_Follow_f of one player.
Cmd_Follow_f(c, d) ==
    /\ clients[c].connected /\ clients[c].spec # "not"
    /\ d # c /\ clients[d].connected
    /\ c \in StickySpec \/ clients[d].spec = "not"
    /\ clients[c].team # "none" => clients[d].team = clients[c].team
    /\ clients' = [clients EXCEPT ![c].spec = "follow", ![c].target = d]
    /\ UNCHANGED <<queues, strayed>>

\* Cmd_Follow_f without a name, which is G_ToggleFollow, and Cmd_FollowCycle_f.
Cmd_FollowCycle_f(c) ==
    /\ clients[c].connected /\ clients[c].spec # "not"
    /\ \/ /\ clients[c].spec = "follow"
          /\ clients' = StopFollowing(clients, c)
       \/ \E dir \in {1, -1} : clients' = FollowNewClient(clients, c, dir)
    /\ UNCHANGED <<queues, strayed>>

\* A player dies and respawns as a spectator; those who follow him look for
\* another, or at the place he waits in.
respawn(c) ==
    /\ clients[c].connected /\ clients[c].spec = "not"
    /\ clients' =
          ForClients(LAMBDA s, f :
                        IF s[f].spec # "follow" \/ s[f].target # c THEN s
                        ELSE IF f \in StickySpec THEN [s EXCEPT ![f].num = c]
                        ELSE FollowNewOrStop(s, f),
                     Spawned([clients EXCEPT ![c].class = FALSE], c))
    /\ UNCHANGED <<queues, strayed>>

\* SpectatorClientEndFrame: the playerState of the one who is followed.
EndFrame(cs) ==
    ForClients(LAMBDA s, c :
                  IF s[c].connected /\ s[c].spec = "follow" /\ s[s[c].target].connected
                  THEN [s EXCEPT ![c].num = s[s[c].target].num] ELSE s, cs)

\* BUG: who came last is spawned, who came first is taken out.
BugNextInTurn(q) == q.slot[q.back]

\* Who spawns next.
NextInTurn(q) == q.slot[q.front]

\* G_SpawnClients of team t, for which a spawn point is free.
SpawnClients(s, t) ==
    IF Length(s.qs[t]) = 0 THEN s
    ELSE LET c == NextInTurn(s.qs[t])
         IN  [cs |-> Spawned([StopFollowing(s.cs, c) EXCEPT ![c].spec = "not"], c),
              qs |-> [s.qs EXCEPT ![t] = Popped(@)]]

\* G_RunFrame, with a free spawn point for the teams in `free`.
G_RunFrame(free) ==
    LET s == FoldSet(LAMBDA t, r : SpawnClients(r, t),
                     [cs |-> EndFrame(clients), qs |-> queues], free)
    IN  /\ clients' = s.cs /\ queues' = s.qs
        /\ UNCHANGED strayed

Next ==
    \/ \E c \in Client :
          \/ ClientBegin(c) \/ ClientDisconnect(c)
          \/ \E t \in Teams \cup {"none"} : G_ChangeTeam(c, t)
          \/ Cmd_Class_f(c) \/ SpectatorThink(c)
          \/ \E d \in Client : Cmd_Follow_f(c, d)
          \/ Cmd_FollowCycle_f(c) \/ respawn(c)
    \/ \E free \in SUBSET Teams : G_RunFrame(free)

Spec == Init /\ [][Next]_vars

-----------------------------------------------------------------------------
(* Properties *)

Members(q) == {q.slot[i] : i \in Client} \ {-1}

\* G_GetSpawnQueueLength takes a queue in which every client waits for empty.
Full(q) == Members(q) = Client

\* Clients, targets and places are in their ranges.
TypeOK ==
    /\ clients \in [Client -> [connected : BOOLEAN, team : Teams \cup {"none"},
                               spec : {"not", "free", "locked", "follow"},
                               target : Client \cup {-1}, num : Client, class : BOOLEAN]]
    /\ \A t \in Teams : queues[t] \in [slot : [Client -> Client \cup {-1}],
                                       front : Client, back : Client]

\* The places from front to back hold the clients that wait, each once, and
\* all others hold nobody: through pushes, pops and removals from the middle,
\* around the end of the ring.
QueueWhole ==
    \A t \in Teams : LET q == queues[t] IN
        /\ \A i, j \in Client : q.slot[i] = q.slot[j] /\ q.slot[i] # -1 => i = j
        /\ ~Full(q) => \A i \in Client : q.slot[i] # -1 <=> i \in Places(q)

\* Who waits is connected, on that team, not playing, and has chosen what to
\* spawn as: as long as nobody left while his playerState was another's, and
\* the queue was never full.
MembersBelong ==
    ~strayed => \A t \in Teams : ~Full(queues[t]) =>
        \A c \in Members(queues[t]) :
            clients[c].connected /\ clients[c].team = t /\ clients[c].spec # "not" /\ clients[c].class

\* Those ahead of c.
Ahead(q, c) ==
    {q.slot[j] : j \in {j \in Places(q) : \E i \in Places(q) :
                            q.slot[i] = c /\ Offset(q, j) < Offset(q, i)}}

\* Nobody is overtaken: whoever is ahead of a waiting client was ahead before.
NobodyOvertakes ==
    [][queues' # queues => \A t \in Teams :
          \A c \in Members(queues[t]) \cap Members(queues'[t]) :
          ~Full(queues[t]) /\ ~Full(queues'[t]) =>
              Ahead(queues'[t], c) \subseteq Ahead(queues[t], c)]_vars

\* "remove a specific client from a spawn queue" (g_main.c:866): who leaves the
\* team or the server does not wait any longer.
LeaversAreOut ==
    \A t \in Teams : \A c \in Members(queues[t]) : clients[c].connected /\ clients[c].team = t
=============================================================================
