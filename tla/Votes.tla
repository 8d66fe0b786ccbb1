-------------------------------- MODULE Votes --------------------------------
(***************************************************************************)
(* Votes of everybody and of a team: calling, casting, and taking back the *)
(* ballot of one who leaves (Cmd_CallVote_f, Cmd_Vote_f, G_Vote), the      *)
(* count in every frame (G_CheckVote) and the command that is executed     *)
(* three seconds after a vote passed (G_ExecuteVote).  Thresholds are 50%  *)
(* or more; a vote's command is its number.                                *)
(***************************************************************************)
EXTENDS Integers, Sequences, FiniteSets

CONSTANTS
    Clients,
    Teams,              \* with "none", whose votes are everybody's
    Thresholds,         \* per cent
    VOTE_TIME,          \* in frames
    ExecuteDelay,       \* in frames
    MaxVotes            \* bound on the votes called in each team

\* A threshold is half or more, unless the operator sets g_suddenDeathVotePercent
\* lower.  Parts lets TLC look at it.
VotesAssumption ==
    /\ IsFiniteSet(Clients) /\ "none" \in Teams
    /\ \A threshold \in Thresholds : threshold \in Nat /\ threshold >= 50
    /\ VOTE_TIME \in Nat \ {0} /\ ExecuteDelay \in Nat

VARIABLES
    clients,            \* connected, team; voted and vote, sets of teams (vote,
                        \* read only with voted, is cleared with it)
    level,              \* the vote of each team: voteTime, voteExecuteTime
                        \* (as frames gone by, -1 is 0), yes, no, threshold,
                        \* and the number of the vote in voteString
    restarted,          \* level.restarted
    ballots,            \* history: who voted yes or no, and is still there
    passed, executed,   \* history: votes that passed and were executed
    returned            \* history: teams whose vote saw one leave and return

vars == <<clients, level, restarted, ballots, passed, executed, returned>>

\* A slot nobody has: ClientConnect clears all of it.
Gone == [connected |-> FALSE, team |-> "none", voted |-> {}, vote |-> {}]

NoBallots == [c \in Clients |-> "none"]

Init ==
    /\ clients = [c \in Clients |-> Gone]
    /\ level = [t \in Teams |-> [time |-> -1, execute |-> -1, yes |-> 0, no |-> 0,
                                 threshold |-> 50, number |-> 0]]
    /\ restarted = FALSE
    /\ ballots = [t \in Teams |-> NoBallots]
    /\ passed = [t \in Teams |-> <<>>] /\ executed = passed
    /\ returned = {}

\* numVotingClients
Voting(t) ==
    {c \in Clients : clients[c].connected /\ (t = "none" \/ clients[c].team = t)}

-----------------------------------------------------------------------------
\* Cast and taken back, G_Vote changes the count that pers.vote says.
Counted(l, c, t, by) ==
    IF t \in c.vote THEN [l EXCEPT !.yes = @ + by] ELSE [l EXCEPT !.no = @ + by]

\* BUG: the ballot stays when the client goes.
BugTakenBack(c, t) == level[t]

\* G_Vote of one who leaves.  The bit in voted stays.
TakenBack(c, t) ==
    IF level[t].time # -1 /\ t \in clients[c].voted
    THEN Counted(level[t], clients[c], t, -1) ELSE level[t]

\* G_Vote of one who votes.
Cast(c, t, yes) ==
    LET v == IF yes THEN clients[c].vote \cup {t} ELSE clients[c].vote \ {t}
    IN  [clients EXCEPT ![c].vote = v, ![c].voted = @ \cup {t}]

\* BUG: a passed vote that waits is overwritten.
BugPending(t) == FALSE

\* A vote that has passed is not executed yet.
Pending(t) == level[t].execute # -1

\* Cmd_CallVote_f: what is pending is executed even if the call is then refused,
\* for its caller's limit or its arguments.  "map" votes restart at once.
Cmd_CallVote_f(c, t, threshold) ==
    /\ c \in Voting(t)
    /\ level[t].time = -1
    /\ \/ /\ level[t].number < MaxVotes[t]
          /\ level' = [level EXCEPT ![t].execute = IF Pending(t) THEN -1 ELSE @, ![t].time = 0,
                                    ![t].yes = 1, ![t].number = @ + 1, ![t].threshold = threshold]
          /\ clients' = Cast(c, t, TRUE)
          /\ ballots' = [ballots EXCEPT ![t][c] = "yes"]
       \/ /\ level' = [level EXCEPT ![t].execute = IF Pending(t) THEN -1 ELSE @,
                                    ![t].threshold = 50]
          /\ UNCHANGED <<clients, ballots>>
    /\ executed' = [executed EXCEPT ![t] = IF Pending(t) THEN Append(@, level[t].number) ELSE @]
    /\ restarted' \in IF Pending(t) THEN BOOLEAN ELSE {FALSE}
    /\ UNCHANGED <<passed, returned>>

Cmd_Vote_f(c, t) ==
    /\ c \in Voting(t) /\ level[t].time # -1 /\ t \notin clients[c].voted
    /\ \E yes \in BOOLEAN :
          /\ clients' = Cast(c, t, yes)
          /\ level' = [level EXCEPT ![t] = Counted(@, clients'[c], t, 1)]
          /\ ballots' = [ballots EXCEPT ![t][c] = IF yes THEN "yes" ELSE "no"]
    /\ UNCHANGED <<restarted, passed, executed, returned>>

-----------------------------------------------------------------------------
(* Clients *)

ClientBegin(c) ==
    /\ ~clients[c].connected
    /\ clients' = [clients EXCEPT ![c] = [Gone EXCEPT !.connected = TRUE]]
    /\ UNCHANGED <<level, restarted, ballots, passed, executed, returned>>

\* G_ChangeTeam with G_LeaveTeam
G_ChangeTeam(c, team) ==
    LET old  == clients[c].team
        back == clients[c].voted \cap ({team} \ {"none"})
    IN  /\ clients[c].connected /\ old # team
        /\ back \cap returned = {}                 \* a bound: one return in a vote
        /\ clients' = [clients EXCEPT ![c].team = team]
        /\ IF old = "none" THEN UNCHANGED <<level, ballots>>
           ELSE /\ level' = [level EXCEPT ![old] = TakenBack(c, old)]
                /\ ballots' = [ballots EXCEPT ![old][c] = "none"]
        /\ returned' = returned \cup back
        /\ UNCHANGED <<restarted, passed, executed>>

\* With G_LeaveTeam, and G_Vote for TEAM_NONE.
ClientDisconnect(c) ==
    LET gone == {clients[c].team, "none"}
    IN  /\ clients[c].connected
        /\ clients' = [clients EXCEPT ![c] = Gone]
        /\ level' = [t \in Teams |-> IF t \in gone THEN TakenBack(c, t) ELSE level[t]]
        /\ ballots' = [t \in Teams |-> IF t \in gone THEN [ballots[t] EXCEPT ![c] = "none"]
                                       ELSE ballots[t]]
        /\ UNCHANGED <<restarted, passed, executed, returned>>

-----------------------------------------------------------------------------
(* Counting *)

\* BUG: no more than half is enough.
BugMajority(l, n) == 100 * l.yes >= n * l.threshold

\* More yes than the threshold, of n.
Majority(l, n) == 100 * l.yes > n * l.threshold

\* BUG: the time does not run out.
BugComplete(t, l) == l.yes + l.no = Cardinality(Voting(t))

\* The last vote was cast, or the time is up: who did not vote does not count.
Complete(t, l) == l.time >= VOTE_TIME \/ l.yes + l.no = Cardinality(Voting(t))

Passes(t, l) ==
    IF Complete(t, l) THEN l.yes # 0 /\ Majority(l, l.yes + l.no)
    ELSE Majority(l, Cardinality(Voting(t)))

\* "cancel vote if timed out", or if it cannot pass any more.
Ends(t, l) ==
    /\ l.time # -1
    /\ Complete(t, l) \/ Passes(t, l)
          \/ 100 * l.no > Cardinality(Voting(t)) * (100 - l.threshold)

Due(l) == l.execute > ExecuteDelay

\* G_CheckVote
CheckVote(t, l) ==
    LET due == IF Due(l) THEN [l EXCEPT !.execute = -1] ELSE l
    IN  IF ~Ends(t, l) THEN due
        ELSE [due EXCEPT !.time = -1, !.yes = 0, !.no = 0,
                         !.execute = IF Passes(t, l) THEN 0 ELSE @]

\* What G_CheckVote does for the teams of ls besides, with these votes.
CheckVotes(ls) ==
    LET ended == {t \in DOMAIN ls : Ends(t, ls[t])}
        due   == {t \in DOMAIN ls : Due(ls[t])}
    IN  /\ level' = [t \in Teams |-> IF t \in DOMAIN ls THEN CheckVote(t, ls[t]) ELSE level[t]]
        /\ passed' = [t \in Teams |-> IF t \in ended /\ Passes(t, ls[t])
                                      THEN Append(passed[t], ls[t].number) ELSE passed[t]]
        /\ executed' = [t \in Teams |-> IF t \in due THEN Append(executed[t], ls[t].number)
                                        ELSE executed[t]]
        /\ restarted' \in IF due = {} THEN {FALSE} ELSE BOOLEAN
        /\ clients' = [c \in Clients |-> [clients[c] EXCEPT !.voted = @ \ ended, !.vote = @ \ ended]]
        /\ ballots' = [t \in Teams |-> IF t \in ended THEN NoBallots ELSE ballots[t]]
        /\ returned' = returned \ ended

Older(n) == IF n = -1 THEN n ELSE n + 1

G_RunFrame ==
    CheckVotes([t \in Teams |-> [level[t] EXCEPT !.time = Older(@), !.execute = Older(@)]])

\* cancelvote and passvote: "everyone voted No", or Yes.
G_admin_endvote(t, cancel) ==
    LET n == Cardinality(Voting(t))
    IN  /\ level[t].time # -1
        /\ CheckVotes([u \in {t} |-> [level[t] EXCEPT !.no = IF cancel THEN n ELSE 0,
                                                      !.yes = IF cancel THEN 0 ELSE n]])

Next ==
    /\ ~restarted
    /\ \/ \E c \in Clients :
             \/ ClientBegin(c) \/ ClientDisconnect(c)
             \/ \E t \in Teams : G_ChangeTeam(c, t) \/ Cmd_Vote_f(c, t)
             \/ \E t \in Teams, threshold \in Thresholds : Cmd_CallVote_f(c, t, threshold)
       \/ G_RunFrame
       \/ \E t \in Teams, cancel \in BOOLEAN : G_admin_endvote(t, cancel)

Spec == Init /\ [][Next]_vars

-----------------------------------------------------------------------------
(* Properties *)

\* Times, counts and bits are in their ranges; a vote runs VOTE_TIME at most,
\* and nobody has voted where none is in progress.
TypeOK ==
    /\ \A c \in Clients :
          /\ clients[c].team \in Teams /\ clients[c].vote \subseteq Teams
          /\ \A t \in clients[c].voted : level[t].time # -1
    /\ \A t \in Teams :
          /\ level[t].time \in -1..VOTE_TIME - 1 /\ level[t].execute \in -1..ExecuteDelay
          /\ t \notin returned => level[t].yes \in 0..Cardinality(Clients)
                               /\ level[t].no \in 0..Cardinality(Clients)

Ballots(t, b) == {c \in Clients : ballots[t][c] = b}

Exact(t) ==
    level[t].yes = Cardinality(Ballots(t, "yes")) /\ level[t].no = Cardinality(Ballots(t, "no"))

\* The counts are those of the clients who voted and are still there, who left
\* the team or the server has no say; where nobody left a team and returned to
\* it while its vote was in progress.
CountsExact == \A t \in Teams \ returned : Exact(t)

\* A vote that passes by itself was voted for by more of those still there
\* than voted against it, whoever came or went before it was over.
MajorityPasses ==
    [][passed' # passed /\ G_RunFrame => \A t \in Teams \ returned :
          passed'[t] # passed[t] =>
              Cardinality(Ballots(t, "yes")) > Cardinality(Ballots(t, "no"))]_vars

\* What was voted for is executed, once, in the order it passed, though another
\* vote is called, and its command written over the last one's, before that one
\* is due.
ExecutedInTurn ==
    \A t \in Teams :
        executed[t] \o (IF Pending(t) THEN <<level[t].number>> ELSE <<>>) = passed[t]

\* "if( !voting && !( ent->client->pers.voted & ( 1 << team ) ) ) return"
\* (g_main.c): a ballot is taken back once.
TakenBackOnce == \A t \in Teams : Exact(t)
=============================================================================
