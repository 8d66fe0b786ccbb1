------------------------------ MODULE BGAlloc -------------------------------
(***************************************************************************)
(* The game's heap (game/bg_alloc.c): a pool cut into blocks in use and    *)
(* free nodes that form a doubly linked list.  BG_Alloc takes a node of    *)
(* the size asked for or the tail of the smallest larger one, BG_Free      *)
(* appends a block to the free node that ends where it begins or makes it  *)
(* the head of the list, BG_DefragmentMemory joins neighbours.  The unit   *)
(* is the 32 bytes that sizes are rounded to.                              *)
(***************************************************************************)
EXTENDS Integers, Sequences, FiniteSetsExt, Functions

CONSTANTS
    POOLSIZE,
    Sizes               \* what callers ask for, rounded with its header

VARIABLES
    node,               \* the free nodes, by address: size, prev, next
    freeHead, freeMem,
    used,               \* blocks in use: address to size
    refused,            \* the size BG_Alloc could not serve last, 0 if it could
    fault               \* BG_Free wrote through a null freeHead

vars == <<node, freeHead, freeMem, used, refused, fault>>

NULL == -1
Address == 0..POOLSIZE - 1

\* BG_InitMemory
Init ==
    /\ node = [x \in {0} |-> [size |-> POOLSIZE, prev |-> NULL, next |-> NULL]]
    /\ freeHead = 0 /\ freeMem = POOLSIZE
    /\ used = [x \in {} |-> 0]
    /\ refused = 0 /\ fault = FALSE

-----------------------------------------------------------------------------
\* The nodes met by following next from h.
List(ns, h) ==
    LET walk[n \in 0..POOLSIZE] ==
            IF n = 0 THEN (IF h = NULL THEN <<>> ELSE <<h>>)
            ELSE LET w == walk[n - 1]
                     last == w[Len(w)]
                 IN  IF w = <<>> \/ ns[last].next = NULL THEN w ELSE Append(w, ns[last].next)
    IN  walk[POOLSIZE]

Dropped(ns, x) == Restrict(ns, DOMAIN ns \ {x})

\* BUG: the next node keeps its prev pointer to the node taken out.
BugWithout(ns, x) ==
    LET p == ns[x].prev
    IN  Dropped(IF p # NULL THEN [ns EXCEPT ![p].next = ns[x].next] ELSE ns, x)

\* The list without node x.
Without(ns, x) ==
    LET p  == ns[x].prev
        nx == ns[x].next
        n1 == IF p # NULL THEN [ns EXCEPT ![p].next = nx] ELSE ns
        n2 == IF nx # NULL THEN [n1 EXCEPT ![nx].prev = p] ELSE n1
    IN  Dropped(n2, x)

\* BUG: the first node that is large enough is cut.
BugBest(allocsize) ==
    LET fits == SelectSeq(List(node, freeHead), LAMBDA x : node[x].size >= allocsize)
    IN  IF fits = <<>> THEN NULL ELSE fits[1]

\* The node to take: the first of the exact size, or the first of the smallest
\* that are larger.
Best(allocsize) ==
    LET list == List(node, freeHead)
        fits == {i \in DOMAIN list : node[list[i]].size >= allocsize}
    IN  IF fits = {} THEN NULL
        ELSE list[CHOOSE i \in fits : \A j \in fits :
                    \/ node[list[i]].size < node[list[j]].size
                    \/ node[list[i]].size = node[list[j]].size /\ i <= j]

\* BUG: the block is cut from the front of the node.
BugBlock(x, allocsize) == x

\* The block is cut from the end of the node.
Block(x, allocsize) == x + node[x].size - allocsize

BG_Alloc(allocsize) ==
    LET x == Best(allocsize)
        exact == node[x].size = allocsize
        block == Block(x, allocsize)
    IN  IF x = NULL
        THEN /\ refused' = allocsize                       \* Com_Error
             /\ UNCHANGED <<node, freeHead, freeMem, used, fault>>
        ELSE /\ node' = IF exact THEN Without(node, x)
                        ELSE [node EXCEPT ![x].size = @ - allocsize]
             /\ freeHead' = IF exact /\ x = freeHead THEN node[x].next ELSE freeHead
             /\ freeMem' = freeMem - allocsize
             /\ used' = [a \in DOMAIN used \cup {block} |->
                            IF a = block THEN allocsize ELSE used[a]]
             /\ refused' = 0
             /\ UNCHANGED fault

\* BUG: the old head does not learn of the node before it.
BugNewHead(ns, x, size) ==
    [a \in DOMAIN ns \cup {x} |->
        IF a = x THEN [size |-> size, prev |-> NULL, next |-> freeHead] ELSE ns[a]]

\* Node x in front of the list.
NewHead(ns, x, size) ==
    [a \in DOMAIN ns \cup {x} |->
        IF a = x THEN [size |-> size, prev |-> NULL, next |-> freeHead]
        ELSE IF a = freeHead THEN [ns[a] EXCEPT !.prev = x] ELSE ns[a]]

\* BG_Free.  Where no free node ends at the block, the head of the list is
\* written to without asking whether there is one.
BG_Free(block) ==
    LET size == used[block]
        before == {x \in DOMAIN node : x + node[x].size = block}
    IN  /\ freeMem' = freeMem + size
        /\ used' = Restrict(used, DOMAIN used \ {block})
        /\ refused' = 0
        /\ IF before # {}
           THEN /\ \E x \in before : node' = [node EXCEPT ![x].size = @ + size]
                /\ UNCHANGED <<freeHead, fault>>
           ELSE /\ fault' = (freeHead = NULL)
                /\ node' = NewHead(node, block, size)
                /\ freeHead' = block

\* BUG: only the head is looked at.
BugJoins(s) ==
    IF s.head # NULL /\ s.head + s.node[s.head].size \in DOMAIN s.node THEN {s.head} ELSE {}

\* The first node of the list that ends where another begins, with that other.
Joins(s) ==
    LET list == List(s.node, s.head)
        firsts == {i \in DOMAIN list : list[i] + s.node[list[i]].size \in DOMAIN s.node}
    IN  IF firsts = {} THEN {} ELSE {list[Min(firsts)]}

\* Node x takes in its neighbour.
Joined(s, x) ==
    LET y == x + s.node[x].size
        n == Without(s.node, y)
    IN  [node |-> [n EXCEPT ![x].size = @ + s.node[y].size],
         head |-> IF y = s.head THEN s.node[y].next ELSE s.head]

BG_DefragmentMemory ==
    LET pass[n \in 0..POOLSIZE] ==
            IF n = 0 THEN [node |-> node, head |-> freeHead]
            ELSE LET s == pass[n - 1]
                 IN  IF Joins(s) = {} THEN s ELSE Joined(s, CHOOSE x \in Joins(s) : TRUE)
    IN  /\ node' = pass[POOLSIZE].node /\ freeHead' = pass[POOLSIZE].head
        /\ refused' = 0
        /\ UNCHANGED <<freeMem, used, fault>>

Next ==
    /\ ~fault
    /\ \/ \E size \in Sizes : BG_Alloc(size)
       \/ \E block \in DOMAIN used : BG_Free(block)
       \/ BG_DefragmentMemory

Spec == Init /\ [][Next]_vars

-----------------------------------------------------------------------------
(* Properties *)

\* Free nodes and blocks in use lie in the pool.
TypeOK ==
    /\ DOMAIN node \subseteq Address /\ freeHead \in Address \cup {NULL}
    /\ \A x \in DOMAIN node :
          /\ node[x].size \in 1..POOLSIZE - x
          /\ {node[x].prev, node[x].next} \subseteq DOMAIN node \cup {NULL}
    /\ \A x \in DOMAIN used : used[x] \in Sizes
    /\ freeMem \in 0..POOLSIZE

\* Every unit of the pool is in one free node or in one block in use, and
\* freeMem is what is free: nothing is lost or given out twice.
PoolTiled ==
    LET free  == UNION {{<<x, i>> : i \in x..x + node[x].size - 1} : x \in DOMAIN node}
        taken == UNION {{<<x, i>> : i \in x..x + used[x] - 1} : x \in DOMAIN used}
    IN  /\ DOMAIN node \cap DOMAIN used = {}
        /\ \A i \in Address : Cardinality({u \in free \cup taken : u[2] = i}) = 1
        /\ freeMem = Cardinality(free)

\* The list reaches every free node once, the same way back as forth.
ListWhole ==
    LET list == List(node, freeHead)
    IN  /\ IsInjective(list) /\ Range(list) = DOMAIN node
        /\ \A i \in DOMAIN list : node[list[i]].prev = (IF i = 1 THEN NULL ELSE list[i - 1])

\* "Same size, just remove" before "Keep track of the smallest free slot": a
\* larger node is cut only where none has the size asked for, and the rest
\* left in it is as small as can be.
LeastLeft ==
    [][\A x \in DOMAIN node \cap DOMAIN node' :
          node'[x].size < node[x].size =>
              \A y \in DOMAIN node :
                  LET size == node[x].size - node'[x].size
                  IN  node[y].size > size => node[y].size >= node[x].size]_vars

\* What BG_Alloc refuses fits in no free node, and BG_DefragmentMemory leaves
\* no two neighbours behind, wherever in the list they were.
RefusedForGood ==
    [][/\ refused' # 0 => \A x \in DOMAIN node : node[x].size < refused'
       /\ used' = used /\ node' # node =>
              \A x, y \in DOMAIN node' : x + node'[x].size # y]_vars

\* A block that is freed while the pool is used up can always be allocated
\* again: BG_Free never meets an empty list.
NoFault == ~fault
=============================================================================
