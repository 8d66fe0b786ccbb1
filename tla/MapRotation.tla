---------------------------- MODULE MapRotation -----------------------------
(***************************************************************************)
(* Map rotations (game/g_maprotation.c): lists of maps, of other rotations *)
(* to change to, of conditions and of returns.  G_AdvanceMapRotation finds *)
(* the next map; G_GotoDestination and G_StartMapRotation call it again    *)
(* for the rotation changed to, so that it runs as a stack of calls here.  *)
(* A node is <<condition, destination>>, "" where there is no condition.   *)
(***************************************************************************)
EXTENDS Integers, Sequences, Functions

CONSTANTS
    Cases,              \* files: functions from names to nodes; and whether
                        \* the console changes rotations
    MaxCalls,           \* more calls than the stack of the QVM holds
    MaxStack            \* bound on g_mapRotationStack between advances

VARIABLES
    rotations, console, \* mapRotations, all of it; the case's console
    current,            \* g_currentMapRotation
    stack,              \* g_mapRotationStack
    nodes,              \* g_mapRotationNodes, nodes are numbered from 0
    holds,              \* the conditions that are true in this advance
    calls,              \* calls of G_AdvanceMapRotation under way
    issued,             \* the map of G_IssueMapChange, by its node
    left                \* history: for each rotation, where it was left

vars == <<rotations, console, current, stack, nodes, holds, calls, issued, left>>

NOT_ROTATING == ""
NoMap == <<"", 0>>

IsRotation(name) == name \in DOMAIN rotations
Node(rot, i) == rotations[rot][i + 1]
Conditions == {n[1] : n \in UNION {Range(rotations[r]) : r \in DOMAIN rotations}} \ {"", "random"}

\* BUG: the end of the list is not wrapped.
BugNodeIndexAfter(i, rot) == i + 1

NodeIndexAfter(i, rot) == (i + 1) % Len(rotations[rot])

\* G_InitMapRotations with g_initialMapRotation.
Init ==
    /\ \E c \in Cases : rotations = c[1] /\ console = c[2]
    /\ current \in DOMAIN rotations
    /\ stack = <<>>
    /\ nodes = [r \in DOMAIN rotations |-> 0]
    /\ holds = {} /\ calls = <<>> /\ issued = NoMap
    /\ left = nodes

-----------------------------------------------------------------------------
(* G_AdvanceMapRotation *)

Frame(rot) == [rot |-> rot, node |-> nodes[rot], done |-> FALSE]

\* ExitLevel, or the console's advanceMapRotation.
Begin ==
    /\ calls = <<>> /\ current # NOT_ROTATING /\ Len(stack) <= MaxStack
    /\ holds' \in SUBSET Conditions
    /\ calls' = <<Frame(current)>>
    /\ issued' = NoMap
    /\ UNCHANGED <<rotations, console, current, stack, nodes, left>>

Top == calls[Len(calls)]
Running == calls # <<>> /\ Len(calls) <= MaxCalls /\ ~Top.done
Here == Node(Top.rot, Top.node)

\* Top is left at its node for a map or for a call.
Leave(next) ==
    /\ calls' = [calls EXCEPT ![Len(calls)].done = TRUE] \o next
    /\ left' = [left EXCEPT ![Top.rot] = Top.node]

MoveOn ==
    /\ calls' = [calls EXCEPT ![Len(calls)].node = NodeIndexAfter(@, Top.rot)]
    /\ UNCHANGED <<current, stack, issued, left>>

\* BUG: the name is read, but stays on the stack.
BugPopped == stack

\* G_PopRotationStack, which returns the last name.
Popped == SubSeq(stack, 1, Len(stack) - 1)

\* BUG: the rotation returned to is current, but not advanced.
BugReturn ==
    IF stack = <<>> THEN MoveOn
    ELSE /\ stack' = Popped
         /\ current' = stack[Len(stack)]
         /\ Leave(<<>>)
         /\ UNCHANGED issued

\* G_PopRotationStack and G_StartMapRotation; with an empty stack it is passed.
Return ==
    IF stack = <<>> THEN MoveOn
    ELSE /\ stack' = Popped
         /\ current' = stack[Len(stack)]
         /\ Leave(<<Frame(stack[Len(stack)])>>)
         /\ UNCHANGED issued

\* The nodes G_GotoDestination finds a map at.
Listed(rot, map) == {i \in 1..Len(rotations[rot]) : rotations[rot][i] = <<"", map>>}

\* G_GotoDestination: a rotation, with G_PushRotationStack, or a map of this one, or nothing.
GotoDestination(name) ==
    \/ /\ IsRotation(name)
       /\ stack' = Append(stack, current)
       /\ current' = name
       /\ Leave(<<Frame(name)>>)
       /\ UNCHANGED issued
    \/ /\ ~IsRotation(name)
       /\ issued' = IF Listed(Top.rot, name) = {} THEN issued
                    ELSE <<Top.rot, CHOOSE i \in Listed(Top.rot, name) :
                                        \A j \in Listed(Top.rot, name) : i <= j>>
       /\ Leave(<<>>)
       /\ UNCHANGED <<current, stack>>

\* One node of the list.
EvaluateNode ==
    /\ Running
    /\ \/ /\ Here[1] \notin {""} \cup holds            \* "random" may fail
          /\ MoveOn
       \/ /\ Here[1] \in {"", "random"} \cup holds
          /\ IF Here[2] = "return" THEN Return ELSE GotoDestination(Here[2])
    /\ UNCHANGED <<rotations, console, nodes, holds>>

\* BUG: the node of the rotation that is current by now is set.
BugNodeSet == [nodes EXCEPT ![current] = NodeIndexAfter(Top.node, Top.rot)]

\* G_SetCurrentNodeByIndex
NodeSet == [nodes EXCEPT ![Top.rot] = NodeIndexAfter(Top.node, Top.rot)]

\* After the call that changed the rotation or the map, this one returns.
SetCurrentNode ==
    /\ calls # <<>> /\ Len(calls) <= MaxCalls /\ Top.done
    /\ nodes' = NodeSet
    /\ calls' = SubSeq(calls, 1, Len(calls) - 1)
    /\ UNCHANGED <<rotations, console, current, stack, holds, issued, left>>

\* The console's mapRotation: an unknown name clears the stack all the same.
Svcmd_MapRotation_f ==
    /\ calls = <<>> /\ console
    /\ \/ \E name \in DOMAIN rotations :
             /\ stack' = IF current = NOT_ROTATING THEN <<>> ELSE <<current>>
             /\ current' = name
       \/ stack' = <<>> /\ UNCHANGED current
    /\ issued' = NoMap
    /\ UNCHANGED <<rotations, console, nodes, holds, calls, left>>

G_StopMapRotation ==
    /\ calls = <<>> /\ console
    /\ current' = NOT_ROTATING /\ issued' = NoMap
    /\ UNCHANGED <<rotations, console, stack, nodes, holds, calls, left>>

Next ==
    \/ Begin \/ EvaluateNode \/ SetCurrentNode
    \/ Svcmd_MapRotation_f \/ G_StopMapRotation

Spec == Init /\ [][Next]_vars

-----------------------------------------------------------------------------
(* Properties *)

\* Nodes are nodes of their rotations, and rotations have names.
TypeOK ==
    /\ current \in DOMAIN rotations \cup {NOT_ROTATING} /\ Range(stack) \subseteq DOMAIN rotations
    /\ \A r \in DOMAIN rotations : nodes[r] \in 0..Len(rotations[r]) - 1
    /\ \A k \in DOMAIN calls : calls[k].node \in 0..Len(rotations[calls[k].rot]) - 1

\* An advance finds a map: ExitLevel has stopped the frames by then, and with no
\* map command they would never start again.  So it is for files whose
\* conditional maps are also listed without a condition.
FindsMap == [][calls # <<>> /\ calls' = <<>> => issued' # NoMap]_vars

\* Between advances every rotation stands behind the node it was left at, be it
\* for a map, for another rotation or for the one it was called from.
Resumes ==
    calls = <<>> => \A r \in DOMAIN rotations :
        nodes[r] \in {0, NodeIndexAfter(left[r], r)}

\* An advance ends: the calls it makes of itself are bounded.  So it is where
\* no rotation with a return is called or set twice in a row.
AdvanceEnds == Len(calls) <= MaxCalls

\* "The if keyword is used ... to decide whether or not to branch to the
\* specified map" (misc/manual.lyx): after a map that was branched to, the
\* rotation goes on behind that map.
BranchesStay ==
    calls = <<>> /\ issued # NoMap => nodes[issued[1]] = issued[2] % Len(rotations[issued[1]])
=============================================================================
