----------------------------- MODULE ClientTime -----------------------------
(***************************************************************************)
(* The client's sense of server time and what cgame makes of it:           *)
(* CL_SetCGameTime and CL_AdjustTimeDelta keep cl.serverTime close behind  *)
(* the newest snapshot (cl_cgame.c), CG_ProcessSnapshots moves from one    *)
(* snapshot to the next so that the time lies between them                 *)
(* (cg_snapshot.c).  The constants of the code are scaled down.            *)
(***************************************************************************)
EXTENDS Integers, Sequences

CONSTANTS
    RESET_TIME,         \* 500: deltas further off than this are set anew
    FastTime,           \* 100: and than this halved
    Nudges,             \* values of cl_timeNudge
    Ring,               \* snapshots this much older than the newest cannot
                        \* be read any more
    MaxSnaps,           \* bounds on the snapshots, on both clocks, and on
    MaxTime, MaxStep,   \* the length of a client frame
    MaxInits            \* and on the times cgame starts

\* cl_timeNudge is cut off at 30 ms either way, and the clocks run for longer than
\* that.  Parts lets TLC look at it.
TimeAssumption ==
    /\ MaxSnaps \in Nat \ {0} /\ MaxTime \in Nat /\ MaxStep \in Nat
    /\ RESET_TIME \in Int /\ FastTime \in Int /\ Ring \in Int
    /\ \A nudge \in Nudges : nudge \in Int /\ nudge >= -MaxTime

VARIABLES
    svTime,             \* svs.time
    sent,               \* snapshots sent: serverTime, active (its snapFlags)
    arrived,            \* the numbers of those the client parsed
    cl,                 \* cls.state, realtime and the times of cl; reset is
                        \* history: has CL_AdjustTimeDelta set the time anew
                        \* since cgame started?
    cg                  \* cgame's snap and nextSnap by number, time, processed

vars == <<svTime, sent, arrived, cl, cg>>

\* CG_Init, with the newest message of the time as processedSnapshotNum; 0 is
\* no snapshot.
FreshCgame(n) == [snap |-> 0, next |-> 0, processed |-> n, time |-> 0, error |-> ""]

Init ==
    /\ svTime = 0 /\ sent = <<>> /\ arrived = {}
    /\ cl = [state |-> "primed", realtime |-> 0, serverTime |-> 0, oldServerTime |-> 0,
             delta |-> 0, oldFrame |-> 0, newSnapshots |-> FALSE, extrapolated |-> FALSE,
             inits |-> 1, error |-> "", reset |-> FALSE]
    /\ cg = FreshCgame(0)

Newest == IF arrived = {} THEN 0 ELSE CHOOSE n \in arrived : \A m \in arrived : m <= n
ServerTime(n) == sent[n].serverTime

Max2(x, y) == IF x > y THEN x ELSE y

-----------------------------------------------------------------------------
(* The server and the network *)

Tick == svTime < MaxTime /\ svTime' = svTime + 1 /\ UNCHANGED <<sent, arrived, cl, cg>>

\* The first snapshots may come from before the client is in the world.
SV_SendClientSnapshot ==
    /\ Len(sent) < MaxSnaps
    /\ \E active \in BOOLEAN :
          /\ sent # <<>> /\ sent[Len(sent)].active => active
          /\ sent' = Append(sent, [serverTime |-> svTime, active |-> active])
    /\ UNCHANGED <<svTime, arrived, cl, cg>>

\* Any snapshot newer than the newest may arrive.
CL_ParseSnapshot ==
    /\ \E n \in Newest + 1..Len(sent) : arrived' = arrived \cup {n}
    /\ cl' = [cl EXCEPT !.newSnapshots = TRUE]
    /\ UNCHANGED <<svTime, sent, cg>>

-----------------------------------------------------------------------------
(* CL_SetCGameTime *)

\* CL_FirstSnapshot
FirstSnapshot(c) ==
    IF ~c.newSnapshots THEN c
    ELSE IF ~sent[Newest].active THEN [c EXCEPT !.newSnapshots = FALSE]
    ELSE [c EXCEPT !.newSnapshots = FALSE, !.state = "active",
                   !.delta = ServerTime(Newest) - c.realtime,
                   !.oldServerTime = ServerTime(Newest)]

Off(c) ==
    LET d == ServerTime(Newest) - c.realtime - c.delta IN Max2(d, -d)

\* CL_AdjustTimeDelta
AdjustTimeDelta(c) ==
    LET newDelta == ServerTime(Newest) - c.realtime
    IN  IF Off(c) > RESET_TIME
        THEN [c EXCEPT !.newSnapshots = FALSE, !.reset = TRUE, !.delta = newDelta,
                       !.oldServerTime = ServerTime(Newest), !.serverTime = ServerTime(Newest)]
        ELSE IF Off(c) > FastTime
        THEN [c EXCEPT !.newSnapshots = FALSE, !.delta = (@ + newDelta) \div 2]
        ELSE [c EXCEPT !.newSnapshots = FALSE, !.extrapolated = FALSE,
                       !.delta = IF c.extrapolated THEN @ - 2 ELSE @ + 1]

\* BUG: the time may run back with the delta.
BugForward(c, t) == t

\* "guarantee that time will never flow backwards"
Forward(c, t) == Max2(t, c.oldServerTime)

\* The time of this frame; a snapshot older than the last frame's is an error.
SetTime(c, nudge) ==
    IF ServerTime(Newest) < c.oldFrame THEN [c EXCEPT !.error = "snapshot"]
    ELSE LET t == Forward(c, c.realtime + c.delta - nudge)
         IN  [c EXCEPT !.oldFrame = ServerTime(Newest), !.serverTime = t, !.oldServerTime = t,
                       !.extrapolated = @ \/ c.realtime + c.delta >= ServerTime(Newest) - 1]

SetCGameTime(c, nudge) ==
    LET c1 == IF c.state = "active" THEN c ELSE FirstSnapshot(c)
        c2 == SetTime(c1, nudge)
    IN  IF c1.state # "active" THEN c1
        ELSE IF c2.newSnapshots /\ c2.error = "" THEN AdjustTimeDelta(c2) ELSE c2

-----------------------------------------------------------------------------
(* CG_ProcessSnapshots *)

\* CL_GetSnapshot returns those that arrived and are not too old.
Readable(n) == n \in arrived /\ n > Newest - Ring

\* BUG: the search begins one too late.
BugNextRead(g) ==
    LET ns == {n \in g.processed + 2..Newest : Readable(n)}
    IN  IF ns = {} THEN 0 ELSE CHOOSE n \in ns : \A m \in ns : n <= m

\* CG_ReadNextSnapshot: the next one that can be read, 0 if there is none.
NextRead(g) ==
    LET ns == {n \in g.processed + 1..Newest : Readable(n)}
    IN  IF ns = {} THEN 0 ELSE CHOOSE n \in ns : \A m \in ns : n <= m

\* BUG: processedSnapshotNum is not advanced.
BugReadUpTo(g, n) == g.processed

\* processedSnapshotNum after the search.
ReadUpTo(g, n) == IF n = 0 THEN Max2(g.processed, Newest) ELSE n

\* BUG: a time at the next snapshot counts as before it.
BugBetween(g) == g.time >= ServerTime(g.snap) /\ g.time <= ServerTime(g.next)

\* "we have a nice interpolating state"
Between(g) == g.time >= ServerTime(g.snap) /\ g.time < ServerTime(g.next)

\* One round of either loop of CG_ProcessSnapshots: until there is a snapshot
\* of the world, those that come are read and thrown away.
Round(g) ==
    LET n == NextRead(g)
        got == [g EXCEPT !.processed = ReadUpTo(g, n)]
    IN  IF g.snap = 0
        THEN IF n # 0 /\ sent[n].active THEN [got EXCEPT !.snap = n] ELSE got
        ELSE IF g.next = 0
        THEN IF n = 0 THEN got
             ELSE IF ServerTime(n) < ServerTime(g.snap)
             THEN [got EXCEPT !.next = n, !.error = "backwards"]
             ELSE [got EXCEPT !.next = n]
        ELSE IF Between(g) THEN g
        ELSE [g EXCEPT !.snap = g.next, !.next = 0]

\* The rounds come to rest where nothing is left to read or the time lies
\* between the two.
Rounds(g) ==
    LET round[k \in 0..3 * MaxSnaps] ==
            IF k = 0 THEN g
            ELSE LET p == round[k - 1] IN IF p.error # "" THEN p ELSE Round(p)
    IN  round[3 * MaxSnaps]

\* Then the time is not left before the first of them.
ProcessSnapshots(g, time) ==
    LET r == Rounds([g EXCEPT !.time = time])
        t == IF r.snap = 0 THEN r.time ELSE Max2(r.time, ServerTime(r.snap))
    IN  IF r.error # "" THEN r
        ELSE IF r.next # 0 /\ ServerTime(r.next) <= t
        THEN [r EXCEPT !.time = t, !.error = "next"]
        ELSE [r EXCEPT !.time = t]

\* CL_Frame: the clock, CL_SetCGameTime, and CG_DrawActiveFrame.
CL_Frame ==
    \E msec \in 1..MaxStep, nudge \in Nudges :
        LET c == SetCGameTime([cl EXCEPT !.realtime = @ + msec], nudge)
        IN  /\ cl.realtime + msec <= MaxTime
            /\ cl.error = "" /\ cg.error = ""
            /\ cl' = c
            /\ cg' = IF c.error # "" THEN cg ELSE ProcessSnapshots(cg, c.serverTime)
            /\ UNCHANGED <<svTime, sent, arrived>>

\* CL_Vid_Restart_f: cgame starts again, the client's times stay.
CL_Vid_Restart_f ==
    /\ cl.inits < MaxInits /\ cl.error = "" /\ cg.error = ""
    /\ cl' = [cl EXCEPT !.state = "primed", !.inits = @ + 1, !.reset = FALSE]
    /\ cg' = FreshCgame(Newest)
    /\ UNCHANGED <<svTime, sent, arrived>>

Next == Tick \/ SV_SendClientSnapshot \/ CL_ParseSnapshot \/ CL_Frame \/ CL_Vid_Restart_f

Spec == Init /\ [][Next]_vars

-----------------------------------------------------------------------------
(* Properties *)

\* Times and numbers are in their ranges.
TypeOK ==
    /\ svTime \in 0..MaxTime /\ arrived \subseteq DOMAIN sent
    /\ cl.state \in {"primed", "active"} /\ cl.realtime \in 0..MaxTime
    /\ cl.oldServerTime <= 3 * MaxTime + MaxSnaps
    /\ cl.state = "active" => Newest # 0 /\ sent[Newest].active
    /\ {cg.snap, cg.next} \subseteq DOMAIN sent \cup {0}
    /\ cg.next # 0 => cg.snap # 0 /\ cg.snap < cg.next /\ cg.next <= cg.processed

\* "this should never happen": none of the errors that CL_SetCGameTime and
\* CG_ProcessSnapshots check for is met, however late, sparse or old the
\* snapshots are, with resets of the time and a cgame that starts again.
NoError == cl.error = "" /\ cg.error = ""

\* What cgame draws lies between its two snapshots; it extrapolates only when
\* nothing newer can be read.
ViewHolds ==
    [][cl'.realtime # cl.realtime /\ cg'.snap # 0 =>
          /\ ServerTime(cg'.snap) <= cg'.time
          /\ cg'.next # 0 => cg'.time < ServerTime(cg'.next)
          /\ cg'.next = 0 => \A n \in cg'.snap + 1..Newest : ~Readable(n)]_vars

\* The time cgame draws does not run back, unless CL_AdjustTimeDelta has set it anew.
ForwardUnlessReset ==
    [][~cl'.reset /\ cg.snap # 0 /\ cl'.inits = cl.inits => cg'.time >= cg.time]_vars

\* "guarantee that time will never flow backwards, even if serverTimeDelta made
\* an adjustment or cl_timeNudge was changed" (cl_cgame.c:1073).
TimeForward == [][cg.snap # 0 /\ cl'.inits = cl.inits => cg'.time >= cg.time]_vars
=============================================================================
