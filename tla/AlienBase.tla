----------------------------- MODULE AlienBase ------------------------------
(***************************************************************************)
(* The aliens' base (game/g_buildable.c): what may be built for the build  *)
(* points there are, marked buildables that make room for others, points   *)
(* that come back slowly when something is destroyed, and the creep an     *)
(* outpost dies without.                                                   *)
(*                                                                         *)
(* Between buildables there are slot numbers, which may outlive what they  *)
(* point to.  A frame runs all slots in order and then counts points and   *)
(* spawns; commands come between frames and use those counts.  How long    *)
(* building, dying and receding take is left open, but outposts look for   *)
(* creep in each Frame: it stands for the 500 ms at most between two looks,*)
(* and a slot is free for 1000 ms before it is used again.                 *)
(*                                                                         *)
(* Places lie on a line.  Left out: sudden death, cheats, the room at a    *)
(* place, the builders' own timers, humans.                                *)
(***************************************************************************)
EXTENDS Integers, Sequences, FiniteSetsExt

CONSTANTS
    NumSlots,
    Sites,              \* the places where each kind can stand
    CreepRange,         \* CREEP_BASESIZE
    Cost,               \* buildPoints of each kind
    BuildPoints,        \* g_alienBuildPoints
    MarkModes           \* values of g_markDeconstruct

VARIABLES
    mark,               \* g_markDeconstruct
    ents,               \* g_entities
    level               \* alienBuildPoints, numAlienSpawns, alienBuildPointQueue

vars == <<mark, ents, level>>

Slot == 1..NumSlots
Mother == {"spawn", "overmind"}

\* life follows spawned, health, think and EF_DEAD.  An outpost has its
\* parentNode, 0 for NULL, and whether killedBy, set by that parent's death,
\* is a mate.
Buildable(kind, place, life) ==
    [kind |-> kind, place |-> place, life |-> life, deconstruct |-> FALSE,
     powered |-> TRUE, parent |-> 0, byMate |-> FALSE]

\* A free slot, which may be used again if it is not fresh.
Free(fresh) ==
    [Buildable("none", 0, IF fresh THEN "fresh" ELSE "none") EXCEPT !.powered = FALSE]

Living(e) == e.life \in {"building", "alive"}
Used(es)  == {i \in Slot : es[i].kind # "none"}
Counted(es) == {i \in Used(es) : es[i].life # "dead"}
Spawns(es)  == {i \in Used(es) : es[i].kind = "spawn" /\ Living(es[i])}
CostOf(es, S) == MapThenSumSet(LAMBDA i : Cost[es[i].kind], S)

\* G_FindBuildable: the first overmind that is not EF_DEAD, 0 if there is none.
FoundOvermind(es) ==
    LET o == {i \in Counted(es) : es[i].kind = "overmind"}
    IN  IF o = {} THEN 0 ELSE Min(o)

\* With no human's buildable in a slot the overmind had, the cached pointer is
\* renewed whenever it is used.
G_Overmind(es) == LET o == FoundOvermind(es) IN o # 0 /\ es[o].life = "alive"

\* G_CountSpawns and G_CalculateBuildPoints
Points(es, queue) == Max({0, BuildPoints - queue - CostOf(es, Counted(es))})
Count(es, queue) ==
    [points |-> Points(es, queue), spawns |-> Cardinality(Spawns(es)), queue |-> queue]

\* The layout of the map: an overmind and an egg.
Init ==
    /\ mark \in MarkModes
    /\ ents = [i \in Slot |-> CASE i = 1 -> Buildable("overmind", Min(Sites.overmind), "alive")
                                [] i = 2 -> Buildable("spawn", Min(Sites.spawn), "alive")
                                [] OTHER -> Free(FALSE)]
    /\ level = Count(ents, 0)

-----------------------------------------------------------------------------
(* Creep *)

Dist(p, q) == IF p > q THEN p - q ELSE q - p

\* What gives creep at a place.
Creep(es, p) ==
    {i \in Used(es) : /\ es[i].kind \in Mother /\ es[i].life = "alive"
                      /\ Dist(p, es[i].place) <= CreepRange}

\* The first of the closest.
Closest(es, p) ==
    CHOOSE i \in Creep(es, p) : \A j \in Creep(es, p) :
        LET d == Dist(p, es[i].place)  e == Dist(p, es[j].place)
        IN  d < e \/ (d = e /\ i <= j)

\* BUG: a parent that is dying still counts.
BugHasParent(es, e) == e.parent # 0 /\ es[e.parent].kind # "none"

\* parentNode is in use and has health, whatever it is by now.
HasParent(es, e) == e.parent # 0 /\ Living(es[e.parent])

\* AGeneric_Die of slot i, whose parent and mark are not read from then on (an
\* overmind's mark is); with ASpawn_Die its children know who did it.
Die(es, i, mate) ==
    [j \in Slot |->
        IF j = i THEN [es[i] EXCEPT !.life = "dying", !.powered = FALSE, !.parent = 0,
                                    !.deconstruct = @ /\ es[i].kind = "overmind"]
        ELSE IF es[i].kind \in Mother /\ Living(es[j]) /\ es[j].parent = i
        THEN [es[j] EXCEPT !.byMate = mate] ELSE es[j]]

\* G_FreeEntity
FreeEntity(es, i) == [es EXCEPT ![i] = Free(TRUE)]

\* AGeneric_Think of a living outpost: without creep it dies.
LookForCreep(es, i) ==
    LET e == [es[i] EXCEPT !.powered = G_Overmind(es)]
    IN  CASE HasParent(es, e) -> [es EXCEPT ![i] = e]
          [] ~HasParent(es, e) /\ Creep(es, e.place) # {} ->
                [es EXCEPT ![i] = [e EXCEPT !.parent = Closest(es, e.place)]]
          [] OTHER -> Die([es EXCEPT ![i] = e], i, FALSE)

-----------------------------------------------------------------------------
(* A frame *)

\* BUG: who was dying comes to its think again, and queues its points again.
BugQueued(e) == IF e.byMate THEN 0 ELSE 2 * Cost[e.kind]

\* G_QueueBuildPoints: nothing if the killer is a mate.
Queued(e) == IF e.byMate THEN 0 ELSE Cost[e.kind]

\* One slot's turn; due says that what it waits for has come.
Think(s, i, due) ==
    LET e  == s.ents[i]
        up == IF due /\ e.life = "building" THEN [s.ents EXCEPT ![i].life = "alive"]
              ELSE s.ents
    IN  CASE Living(e) /\ e.kind = "outpost" -> [s EXCEPT !.ents = LookForCreep(up, i)]
          [] Living(e) /\ e.kind # "outpost" -> [s EXCEPT !.ents = up]
          [] due /\ e.life = "dying" ->
                [ents |-> [s.ents EXCEPT ![i].life = "dead"], queue |-> s.queue + Queued(e)]
          [] due /\ e.life = "dead" -> [s EXCEPT !.ents = FreeEntity(@, i)]
          [] OTHER -> s

Waiting == {i \in Slot : ents[i].life \in {"building", "dying", "dead"}}

\* drip points leave the queue; not those that joined an empty one just now.
Frame(due, drip) ==
    LET rested == [i \in Slot |-> IF ents[i].kind = "none" THEN Free(FALSE) ELSE ents[i]]
        turn[i \in 0..NumSlots] ==
            IF i = 0 THEN [ents |-> rested, queue |-> level.queue]
            ELSE LET before == turn[i - 1] IN Think(before, i, i \in due)
    IN  /\ ents' = turn[NumSlots].ents
        /\ level' = Count(ents', turn[NumSlots].queue - drip)
        /\ UNCHANGED mark

\* A frame in which nobody's next think has come.
ShortFrame(drip) ==
    /\ level' = Count(ents, level.queue - drip)
    /\ UNCHANGED <<mark, ents>>

-----------------------------------------------------------------------------
(* Building *)

Collides(p) == {i \in Used(ents) : ents[i].place = p}

\* Marked buildables that may be removed for a kind at p.
Removable(kind, p) ==
    {i \in Used(ents) :
        /\ Living(ents[i]) /\ ents[i].deconstruct
        /\ ents[i].kind = "overmind" => kind = "overmind"
        /\ i \in Collides(p) \/ ents[i].powered}

\* Those that must be removed: what is in the way, and the old overmind.
Must(kind, p) ==
    {i \in Removable(kind, p) : i \in Collides(p) \/ <<ents[i].kind, kind>> = <<"overmind", "overmind">>}

Yield(S) == CostOf(ents, {i \in S : ents[i].powered})

\* G_CompareBuildablesForRemoval; equal ranks are removed in any order, as the
\* times they were marked at are left out.
Rank(kind, p, i) ==
    CASE i \in Collides(p) -> 0
      [] i \notin Collides(p) /\ kind = "spawn" /\ ents[i].kind = "spawn" /\ level.spawns = 1 -> 9
      [] OTHER -> IF ents[i].kind = kind THEN 1
                  ELSE CASE ents[i].kind = "outpost" -> 2
                         [] ents[i].kind = "spawn" -> 3
                         [] ents[i].kind = "overmind" -> 4

\* A beginning of the sorted list, no longer than what it yields requires.
IsRemoval(R, kind, p, extra) ==
    LET rest == R \ Must(kind, p)
    IN  /\ Must(kind, p) \subseteq R
        /\ Yield(R) >= extra
        /\ \A i \in R, j \in Removable(kind, p) \ R : Rank(kind, p, i) <= Rank(kind, p, j)
        /\ rest # {} => \E i \in rest : /\ \A j \in R : Rank(kind, p, j) <= Rank(kind, p, i)
                                        /\ Yield(R \ {i}) < extra

\* BUG: the last spawn is not kept.
BugKeepsSpawn(R) == TRUE

KeepsSpawn(R) ==
    level.spawns > 0 => level.spawns - Cardinality({i \in R : ents[i].kind = "spawn"}) >= 1

\* G_SufficientBPAvailable without marks, and with them.
Affords(kind, p, R) ==
    LET extra == Cost[kind] - level.points
    IN  \/ mark = 0 /\ extra <= 0 /\ Collides(p) = {} /\ R = {}
        \/ /\ mark # 0
           /\ mark = 1 => Collides(p) = {}
           /\ mark = 2 => \A i \in Collides(p) : ents[i].kind = kind
           /\ Collides(p) \subseteq Must(kind, p)
           /\ IsRemoval(R, kind, p, extra)
           /\ KeepsSpawn(R)

\* BUG: another overmind may be built if one is dying.
BugIsUnique(kind) ==
    LET o == FoundOvermind(ents)
    IN  kind = "overmind" /\ o # 0 => ents[o].deconstruct \/ ~Living(ents[o])

\* uniqueTest
IsUnique(kind) ==
    LET o == FoundOvermind(ents) IN kind = "overmind" /\ o # 0 => ents[o].deconstruct

\* BUG: a slot is used again at once.
BugUsable(es) == {i \in Slot : es[i].kind = "none"}

\* Slots G_Spawn would take, the first of them.
Usable(es) == {i \in Slot : es[i].life = "none"}

\* G_BuildIfValid: G_CanBuild, G_FreeMarkedBuildables and the rest of G_Build.
\* With no usable slot a new one would be opened, which NumSlots bounds.
Build(kind, p, R) ==
    LET freed == FoldSet(LAMBDA i, es : FreeEntity(Die(es, i, FALSE), i), ents, R)
    IN  /\ IsUnique(kind)
        /\ kind # "overmind" => G_Overmind(ents)
        /\ kind = "outpost" => Creep(ents, p) # {}
        /\ Affords(kind, p, R)
        /\ Usable(freed) # {}
        /\ ents' = [freed EXCEPT ![Min(Usable(freed))] = Buildable(kind, p, "building")]
        /\ UNCHANGED <<mark, level>>

-----------------------------------------------------------------------------
(* Destroying *)

\* Cmd_Destroy_f: the builder prevents an explosion;
Defuse(i) ==
    /\ ents[i].life = "dying"
    /\ level' = [level EXCEPT !.queue = @ + Queued(ents[i])]
    /\ ents' = FreeEntity(ents, i)
    /\ UNCHANGED mark

\* marks or unmarks;
Mark(i) ==
    /\ Living(ents[i]) /\ mark # 0
    /\ ents' = [ents EXCEPT ![i].deconstruct = ~@]
    /\ UNCHANGED <<mark, level>>

\* BUG: one spawn may go when there is one.
BugSpares(i) == ~(ents[i].kind = "spawn" /\ level.spawns <= 0 /\ mark = 0)

\* With no marks the last spawn is not destroyed.
Spares(i) == ~(ents[i].kind = "spawn" /\ level.spawns <= 1 /\ mark = 0)

\* deconstructs;
Deconstruct(i) ==
    /\ Living(ents[i]) /\ mark = 0 /\ Spares(i)
    /\ ents' = FreeEntity(ents, i)
    /\ UNCHANGED <<mark, level>>

\* or, with "destroy", blows it up (there is no unmarking then).
Destroy(i) ==
    /\ Living(ents[i]) /\ Spares(i)
    /\ ents' = Die(ents, i, TRUE)
    /\ UNCHANGED <<mark, level>>

\* G_Damage by a human, or by the world.
Enemy(i) ==
    /\ Living(ents[i])
    /\ ents' = Die(ents, i, FALSE)
    /\ UNCHANGED <<mark, level>>

BuildSomething ==
    \E kind \in Mother \cup {"outpost"} : \E p \in Sites[kind] :
        \E R \in SUBSET Removable(kind, p) : Build(kind, p, R)

Next ==
    \/ \E drip \in 0..Min({1, level.queue}) :
            \/ \E due \in SUBSET Waiting : Frame(due, drip)
            \/ ShortFrame(drip)
    \/ BuildSomething
    \/ \E i \in Slot : Defuse(i) \/ Mark(i) \/ Deconstruct(i) \/ Destroy(i) \/ Enemy(i)

-----------------------------------------------------------------------------
(* Properties *)

\* Types: no two uses of a slot are mixed up, and points are never negative.
TypeOK ==
    /\ mark \in MarkModes
    /\ \A i \in Slot :
        \/ ents[i] \in {Free(FALSE), Free(TRUE)}
        \/ /\ ents[i].kind \in DOMAIN Sites /\ ents[i].place \in Sites[ents[i].kind]
           /\ ents[i].life \in {"building", "alive", "dying", "dead"}
           /\ ents[i].parent \in 0..NumSlots
           /\ ents[i].parent # 0 \/ ents[i].byMate => ents[i].kind = "outpost"
    /\ level.points \in 0..BuildPoints /\ level.spawns \in 0..NumSlots /\ level.queue \in Nat

\* What a living outpost takes for its parent is one: a finished egg or
\* overmind whose creep reaches it, and never what was built in the slot that
\* one has left.
ParentIsCreep ==
    \A i \in Slot : Living(ents[i]) /\ HasParent(ents, ents[i])
                        => ents[i].parent \in Creep(ents, ents[i].place)

\* What is spent: points of all that stands or is dying, and those in the queue.
Spent == CostOf(ents, Counted(ents)) + level.queue

\* More is spent than there is, and more than before, only by a second build
\* with a count of the frame before: not by deaths, defusing, points that come
\* back or marked buildables that are replaced.
Overspends == ~UNCHANGED <<ents, level>> /\ Spent' > BuildPoints /\ Spent' > Spent
OnlyStaleCountOverspends ==
    [][Overspends => BuildSomething /\ level.points > Points(ents, level.queue)]_vars

\* Builders do not remove the last living egg, unless there are more or fewer
\* eggs than in the last count, or they blow it up while marks are in use.
LosesSpawns == ents' # ents /\ Spawns(ents) # {} /\ Spawns(ents)' = {}
LastSpawnKept ==
    [][LosesSpawns =>
        \/ level.spawns # Cardinality(Spawns(ents))
        \/ \E i \in Slot : Enemy(i)
        \/ mark # 0 /\ \E i \in Slot : Destroy(i)]_vars

\* A second living overmind is built only where the first in the slots is one
\* that was marked and is dying, which hides the other.
LivingOverminds == {i \in Used(ents) : ents[i].kind = "overmind" /\ Living(ents[i])}
OneOvermind ==
    [][ents' # ents /\ Cardinality(LivingOverminds') > Max({1, Cardinality(LivingOverminds)}) =>
        \E i \in Slot : /\ ents[i].kind = "overmind" /\ ents[i].life = "dying"
                        /\ ents[i].deconstruct /\ \A j \in LivingOverminds : i < j]_vars
=============================================================================
