------------------------------ MODULE MCParts -------------------------------
(* Each of the parts on a small instance. *)
EXTENDS Parts

\* More blocks than the window holds, an empty file between two others, a file
\* the server refuses, and a network with delays of more than a second.
SmallDownloads ==
    {<<<<6, 2>>, TRUE>>, <<<<1, 0, 2>>, TRUE>>, <<<<2, -1>>, TRUE>>, <<<<6>>, FALSE>>}

\* Buckets run dry and are reclaimed for another address more than two ticks
\* after their last query, those in the middle of a chain too: three addresses
\* share one, the fourth has its own.
SmallQueryHash == <<1, 1, 1, 2>>

\* Of the servers the master hears from, two share a chain.
SmallHash == <<1, 1, 2>>

\* Rotations that call and return, also from within each other; that change to
\* each other for ever; and one the console interferes with.
M(map) == <<"", map>>
SmallRotations ==
    {<<[A |-> <<M("m1"), <<"c", "B">>, M("m2"), M("C")>>,
        B |-> <<M("m3"), M("return")>>,
        C |-> <<M("m4"), <<"random", "m4">>, M("B"), M("return")>>], FALSE>>,
     <<[A |-> <<M("m1"), M("B")>>, B |-> <<M("m2"), M("A")>>], FALSE>>,
     <<[A |-> <<M("m1"), <<"c", "m3">>, M("m2"), M("m3"), <<"d", "B">>>>,
        B |-> <<M("m4"), <<"random", "m5">>, M("m5")>>], TRUE>>}

\* One vote of everybody, two of the team.
SmallVotes == [none |-> 1, aliens |-> 2]

\* The egg's creep reaches the outpost, and an overmind's only from one place;
\* three overminds have room.
SmallSites == [overmind |-> 1..3, spawn |-> {2}, outpost |-> {1}]
SmallCost  == [overmind |-> 0, spawn |-> 1, outpost |-> 1]
=============================================================================
