--------------------------- MODULE SnapshotProof ---------------------------
(***************************************************************************)
(* Proofs about Snapshot, for any set of entity numbers, any sizes of the  *)
(* rings and any bounds that SnapshotAssumption allows.  The invariant has *)
(* four strands: messages are in order and a gamestate is never answered   *)
(* twice (OrderInv, GamestateInv); a message a delta may be made from was  *)
(* a snapshot of this map, still in its frame if it is recent (BuiltInv);  *)
(* the client has it, if it is recent (HadInv); and what a frame, a        *)
(* message or a snapshot holds is what was meant (OldInv, KeptInv).        *)
(***************************************************************************)
EXTENDS Snapshot, FiniteSetTheorems, SequenceTheorems, TLAPS

EntityState == Numbers \X Sequence

Message == [kind : {"gamestate", "snapshot", "empty"}, sequence : 1..MaxSequence,
            map : 1..MaxMaps, base : Sequence, old : Seq(Entity), new : Seq(Entity)]

Packet == [map : 0..MaxMaps, ack : Sequence, delta : BOOLEAN]

TypeInv == TypeOK /\ down \in Seq(Message) /\ up \in Seq(Packet)

\* The entities meant by a message are in the order of their numbers.
MeantInv ==
    /\ meant \in [1..MaxSequence -> Seq(EntityState)]
    /\ \A n \in 1..MaxSequence :
          /\ Len(meant[n]) <= Cardinality(Numbers)
          /\ \A j, k \in 1..Len(meant[n]) : j < k => meant[n][j][1] < meant[n][k][1]

\* Messages under way are later than those taken, and earlier than the next;
\* none is of a later map than the server's.
OrderInv ==
    /\ cl.snapNum <= cl.sequence /\ cl.sequence < sv.outgoing
    /\ cl.serverId <= sv.map
    /\ sv.gamestateMessageNum < sv.outgoing
    /\ \A k \in DOMAIN down :
          /\ cl.sequence < down[k].sequence /\ down[k].sequence < sv.outgoing
          /\ cl.serverId <= down[k].map /\ down[k].map <= sv.map
          /\ \A j \in DOMAIN down :
                j < k => down[j].sequence < down[k].sequence /\ down[j].map <= down[k].map
    /\ \A k \in DOMAIN up : up[k].ack <= cl.sequence /\ up[k].map <= cl.serverId

\* A gamestate under way is for a map the client does not have yet, and the
\* only one for that map: it is sent again only when it cannot be under way.
GamestateInv ==
    /\ \A k \in DOMAIN down :
          down[k].kind = "gamestate" =>
             /\ cl.serverId < down[k].map
             /\ down[k].map = sv.map => down[k].sequence = sv.gamestateMessageNum
             /\ \A j \in DOMAIN down :
                   down[j].kind = "gamestate" /\ down[j].map = down[k].map => j = k
    /\ cl.serverId = sv.map =>
          \A k \in DOMAIN up : up[k].map # sv.map => up[k].ack < sv.gamestateMessageNum
    /\ sv.state = "active" => cl.serverId = sv.map

\* Message n was a snapshot of this map; as long as its slot is its own, the
\* frame and, until they roll off, its entities are what was meant.
Built(n) ==
    LET f == frames[Slot(n)]
    IN  /\ n \in 1..sv.outgoing - 1
        /\ sv.outgoing - n < PACKET_BACKUP =>
              /\ f.num = Len(meant[n])
              /\ f.num > 0 =>
                    /\ f.first + f.num <= sv.next
                    /\ f.first > sv.next - RingSize =>
                          ReadFrom(snapshotEntities, f.first, f.num) = meant[n]

\* Wherever the server may take a base n from, it built snapshot n.
NeedsBuilt(n) ==
    \/ sv.state = "active" /\ sv.deltaMessage = n
    \/ \E k \in DOMAIN up : up[k].delta /\ up[k].map = sv.map /\ up[k].ack = n
    \/ cl.snapValid /\ cl.serverId = sv.map /\ cl.snapNum = n
    \/ \E k \in DOMAIN down :
          down[k].kind # "gamestate" /\ down[k].map = sv.map /\ down[k].sequence = n

BuiltInv == \A n \in 1..MaxSequence : NeedsBuilt(n) => Built(n)

\* The client had snapshot n for its present gamestate, and has it as long as
\* the slot is n's.
Had(n) ==
    /\ cl.snapValid
    /\ n \in 1..cl.snapNum
    /\ cl.snapNum - n < PACKET_BACKUP =>
          snapshots[Slot(n)].valid /\ snapshots[Slot(n)].messageNum = n

\* Whatever the server has for a base, and whatever a message has, the client had.
NeedsHad(n) ==
    \/ sv.state = "active" /\ sv.deltaMessage = n
    \/ \E k \in DOMAIN up : up[k].delta /\ up[k].map = cl.serverId /\ up[k].ack = n
    \/ cl.snapValid /\ cl.snapNum = n
    \/ \E k \in DOMAIN down : down[k].base = n

HadInv ==
    /\ \A n \in 1..MaxSequence : NeedsHad(n) => Had(n)
    /\ \A k \in DOMAIN down :
          down[k].base > 0 =>
             /\ down[k].map = cl.serverId
             /\ down[k].sequence - down[k].base < PACKET_BACKUP - 3

\* A message has the states that were meant, old and new; unless it is one of
\* the crowded ones, neither is its base, and few entities appear in it.
OldInv ==
    \A k \in DOMAIN down :
        /\ down[k].base > 0 /\ down[k].sequence \notin crowded =>
              /\ down[k].base \notin crowded
              /\ ~(Cardinality(Appearing(down[k])) >= ParseMargin)
        /\ down[k].base > 0 => down[k].old = meant[down[k].base]
        /\ down[k].kind # "gamestate" => down[k].new = meant[down[k].sequence]

\* A valid snapshot is of the last PACKET_BACKUP messages and is in its slot.
\* If it does not come from a crowded delta it has, until its entities roll
\* off, the states that were meant.
Kept(s) ==
    LET snap == snapshots[s]
    IN  snap.valid =>
          /\ Slot(snap.messageNum) = s
          /\ snap.messageNum \in 1..cl.snapNum
          /\ cl.snapNum - snap.messageNum < PACKET_BACKUP
          /\ snap.first + snap.num <= cl.parseNum
          /\ snap.messageNum \notin crowded =>
                /\ snap.num = Len(meant[snap.messageNum])
                /\ cl.parseNum - snap.first < MAX_PARSE_ENTITIES =>
                      ReadFrom(parseEntities, snap.first, snap.num) = meant[snap.messageNum]

KeptInv == \A s \in 0..PACKET_BACKUP - 1 : Kept(s)

IInv ==
    /\ TypeInv /\ MeantInv /\ OrderInv /\ GamestateInv
    /\ BuiltInv /\ HadInv /\ OldInv /\ KeptInv

-----------------------------------------------------------------------------
(* Places in a ring. *)

LEMMA DivMod ==
    ASSUME NEW m \in Nat \ {0}, NEW n \in Int
    PROVE  n \div m \in Int /\ n = m * (n \div m) + (n % m) /\ n % m \in 0..m - 1
  OBVIOUS

LEMMA SameSum == \A a, b, c \in Int : c + a = c + b => a = b
  OBVIOUS

LEMMA SmallMultiple ==
    ASSUME NEW m \in Nat \ {0}, NEW q \in Int, m * q < m, m * q > 0
    PROVE  FALSE
  OBVIOUS

LEMMA PlaceInRing ==
    ASSUME NEW m \in Nat \ {0}, NEW first \in Nat, NEW k \in Nat
    PROVE  (first + k - 1) % m \in 0..m - 1
  <1> DEFINE x == first + k - 1
  <1>1. x \in Int
    OBVIOUS
  <1> HIDE DEF x
  <1>2. x % m \in 0..m - 1
    BY <1>1, DivMod
  <1> QED BY <1>2 DEF x

\* Numbers less than a round apart have different places.
LEMMA PlacesDiffer ==
    ASSUME NEW m \in Nat \ {0}, NEW a \in Int, NEW b \in Int, a < b, b < a + m
    PROVE  a % m # b % m
  <1>1. PICK q \in Int : a = m * q + (a % m)
    BY DivMod
  <1>2. PICK p \in Int : b = m * p + (b % m)
    BY DivMod
  <1>3. SUFFICES ASSUME a % m = b % m PROVE FALSE
    OBVIOUS
  <1>4. b - a = m * (p - q)
    BY <1>1, <1>2, <1>3, DivMod
  <1>5. p - q \in Int /\ m * (p - q) > 0 /\ m * (p - q) < m
    BY <1>4
  <1> QED BY <1>5, SmallMultiple

LEMMA SlotInRing ==
    ASSUME NEW n \in Int
    PROVE  Slot(n) \in 0..PACKET_BACKUP - 1
  BY DivMod, SnapshotAssumption DEF Slot

LEMMA SlotsDiffer ==
    ASSUME NEW a \in Int, NEW b \in Int, a # b, a - b < PACKET_BACKUP, b - a < PACKET_BACKUP
    PROVE  Slot(a) # Slot(b)
  <1>1. PACKET_BACKUP \in Nat \ {0}
    BY SnapshotAssumption
  <1>2. CASE a < b
    <2>1. b < a + PACKET_BACKUP
      BY <1>1
    <2> QED BY <1>1, <1>2, <2>1, PlacesDiffer DEF Slot
  <1>3. CASE b < a
    <2>1. a < b + PACKET_BACKUP
      BY <1>1
    <2> QED BY <1>1, <1>3, <2>1, PlacesDiffer DEF Slot
  <1> QED BY <1>2, <1>3

\* Of the last PACKET_BACKUP messages one has the slot.
LEMMA SlotTaken ==
    ASSUME NEW n \in Int, NEW s \in 0..PACKET_BACKUP - 1
    PROVE  \E k \in Int : k <= n /\ k > n - PACKET_BACKUP /\ Slot(k) = s
  <1> DEFINE m == PACKET_BACKUP
             x == n - s
             d == x % m
  <1>1. m \in Nat \ {0} /\ s \in Int /\ x \in Int
    BY SnapshotAssumption
  <1> HIDE DEF m, x
  <1>2. PICK q \in Int : x = m * q + d
    BY <1>1, DivMod
  <1>3. d \in 0..m - 1
    BY <1>1, DivMod
  <1> HIDE DEF d
  <1>4. n - d = m * q + s
    BY <1>1, <1>2, <1>3 DEF x
  <1>5. (n - d) % m = s
    <2> DEFINE k == n - d
               r == k % m
    <2>1. k \in Int /\ k = m * q + s
      BY <1>1, <1>3, <1>4
    <2> HIDE DEF k
    <2>2. PICK p \in Int : k = m * p + r
      BY <1>1, <2>1, DivMod
    <2>3. r \in 0..m - 1
      BY <1>1, <2>1, DivMod
    <2> HIDE DEF r
    <2>4. m * (p - q) = s - r /\ m * (q - p) = r - s
      BY <1>1, <2>1, <2>2, <2>3
    <2>5. p - q \in Int /\ q - p \in Int /\ s \in 0..m - 1
      BY DEF m
    <2>6. ~(s - r > 0) /\ ~(r - s > 0)
      BY <1>1, <2>3, <2>4, <2>5, SmallMultiple
    <2>7. r = s
      BY <1>1, <2>3, <2>5, <2>6
    <2> QED BY <2>7 DEF k, r
  <1>6. n - d \in Int /\ n - d <= n /\ n - d > n - m
    BY <1>1, <1>3
  <1> QED BY <1>5, <1>6 DEF Slot, m

-----------------------------------------------------------------------------
(* Lists that are written in a ring of m places and read from it. *)

LEMMA RingSizeIs ==
    ASSUME NEW m \in Nat \ {0}, NEW ring, DOMAIN ring = 0..m - 1
    PROVE  Cardinality(DOMAIN ring) = m
  <1>1. m - 1 \in Int /\ ~(0 > m - 1) /\ (m - 1) - 0 + 1 = m
    OBVIOUS
  <1>2. Cardinality(0..m - 1) = IF 0 > m - 1 THEN 0 ELSE (m - 1) - 0 + 1
    BY <1>1, FS_Interval
  <1> QED BY <1>1, <1>2

\* A set of numbers with an upper bound has a greatest element.
LEMMA GreatestOfBounded ==
    ASSUME NEW S \in SUBSET Int, S # {}, NEW b \in Int, \A x \in S : x <= b
    PROVE  \E x \in S : \A y \in S : x >= y
  <1> DEFINE R == {p \in Nat \X Nat : p[1] < p[2]}
             T == {b - x : x \in S}
  <1>1. IsWellFoundedOn(R, Nat)
    BY NatLessThanWellFounded DEF OpToRel
  <1>2. T \subseteq Nat /\ T # {}
    <2>1. \A x \in S : x \in Int /\ b - x \in Nat
      OBVIOUS
    <2> QED BY <2>1
  <1> HIDE DEF R, T
  <1>3. PICK least \in T : \A y \in T : <<y, least>> \notin R
    BY <1>1, <1>2, WFMin
  <1>4. ASSUME NEW y \in T PROVE least <= y
    <2>1. y \in Nat /\ least \in Nat /\ <<y, least>> \in Nat \X Nat
      BY <1>2, <1>3
    <2>2. ~(<<y, least>>[1] < <<y, least>>[2])
      BY <1>3, <2>1 DEF R
    <2> QED BY <2>1, <2>2
  <1>5. b - least \in S /\ \A x \in S : b - least >= x
    BY <1>4 DEF T
  <1> QED BY <1>5

LEMMA WrittenType ==
    ASSUME NEW m \in Nat \ {0}, NEW T, NEW ring \in [0..m - 1 -> T],
           NEW first \in Nat, NEW list \in Seq(T)
    PROVE  Written(ring, first, list) \in [0..m - 1 -> T]
  <1> DEFINE At(i) == {k \in 1..Len(list) : (first + k - 1) % Cardinality(DOMAIN ring) = i}
             Last(i) == CHOOSE k \in At(i) : \A j \in At(i) : k >= j
  <1>1. ASSUME NEW i \in 0..m - 1, At(i) # {}
        PROVE  list[Last(i)] \in T
    <2>1. At(i) \in SUBSET Int /\ Len(list) \in Int /\ \A x \in At(i) : x <= Len(list)
      OBVIOUS
    <2> HIDE DEF At
    <2>2. \E x \in At(i) : \A y \in At(i) : x >= y
      BY <1>1, <2>1, GreatestOfBounded
    <2>3. Last(i) \in At(i)
      BY <2>2
    <2>4. Last(i) \in 1..Len(list)
      BY <2>3 DEF At
    <2> QED BY <2>4
  <1>2. Written(ring, first, list) =
            [i \in 0..m - 1 |-> IF At(i) = {} THEN ring[i] ELSE list[Last(i)]]
    BY DEF Written
  <1> HIDE DEF At, Last
  <1> QED BY <1>1, <1>2

\* A place of the list has what was written there.
LEMMA WrittenInside ==
    ASSUME NEW m \in Nat \ {0}, NEW ring, DOMAIN ring = 0..m - 1,
           NEW first \in Nat, NEW list, Len(list) \in 0..m, NEW k \in 1..Len(list)
    PROVE  Written(ring, first, list)[(first + k - 1) % m] = list[k]
  <1> DEFINE i == (first + k - 1) % m
             At(p) == {j \in 1..Len(list) : (first + j - 1) % Cardinality(DOMAIN ring) = p}
             Last(p) == CHOOSE j \in At(p) : \A y \in At(p) : j >= y
  <1>1. Cardinality(DOMAIN ring) = m
    BY RingSizeIs
  <1>2. i \in 0..m - 1
    BY PlaceInRing
  <1>3. ASSUME NEW j \in 1..Len(list), j # k
        PROVE  (first + j - 1) % m # (first + k - 1) % m
    <2> DEFINE a == first + j - 1
               b == first + k - 1
    <2>1. a \in Int /\ b \in Int /\ (a < b \/ b < a) /\ a < b + m /\ b < a + m
      BY <1>3
    <2> HIDE DEF a, b
    <2>2. a % m # b % m
      BY <2>1, PlacesDiffer
    <2> QED BY <2>2 DEF a, b
  <1>4. At(i) = {k}
    BY <1>1, <1>3
  <1>5. Written(ring, first, list) =
            [p \in DOMAIN ring |-> IF At(p) = {} THEN ring[p] ELSE list[Last(p)]]
    BY DEF Written
  <1> HIDE DEF i, At
  <1>6. Last(i) = k
    <2>1. \E x \in At(i) : \A y \in At(i) : x >= y
      BY <1>4
    <2>2. Last(i) \in At(i)
      BY <2>1
    <2> QED BY <1>4, <2>2
  <1> HIDE DEF Last
  <1>7. Written(ring, first, list)[i] = list[k]
    BY <1>2, <1>4, <1>5, <1>6
  <1> QED BY <1>7 DEF i

\* A list that was written is read back.
LEMMA ReadBack ==
    ASSUME NEW m \in Nat \ {0}, NEW ring, DOMAIN ring = 0..m - 1,
           NEW first \in Nat, NEW T, NEW list \in Seq(T), Len(list) <= m
    PROVE  ReadFrom(Written(ring, first, list), first, Len(list)) = list
  <1> DEFINE w == Written(ring, first, list)
  <1>1. DOMAIN w = 0..m - 1
    BY DEF Written
  <1>2. Cardinality(DOMAIN w) = m
    BY <1>1, RingSizeIs
  <1>3. Len(list) \in 0..m
    OBVIOUS
  <1>4. ASSUME NEW k \in 1..Len(list) PROVE w[(first + k - 1) % m] = list[k]
    <2>1. Written(ring, first, list)[(first + k - 1) % m] = list[k]
      BY ONLY <1>3, WrittenInside, DOMAIN ring = 0..m - 1, m \in Nat \ {0}, first \in Nat, k \in 1..Len(list)
    <2> QED BY <2>1
  <1> HIDE DEF w
  <1>5. ReadFrom(w, first, Len(list)) = [k \in 1..Len(list) |-> list[k]]
    BY <1>2, <1>4 DEF ReadFrom
  <1>6. list = [k \in 1..Len(list) |-> list[k]]
    OBVIOUS
  <1> QED BY <1>5, <1>6 DEF w

\* Entities written less than a round before the place where writing goes on
\* from, are still there when it has not come round to them.
LEMMA ReadKept ==
    ASSUME NEW m \in Nat \ {0}, NEW ring, DOMAIN ring = 0..m - 1,
           NEW first \in Nat, NEW num \in Nat, NEW next \in Nat, NEW list, Len(list) \in Nat,
           first + num <= next, next + Len(list) - first <= m
    PROVE  ReadFrom(Written(ring, next, list), first, num) = ReadFrom(ring, first, num)
  <1> DEFINE w == Written(ring, next, list)
  <1>1. DOMAIN w = 0..m - 1
    BY DEF Written
  <1>2. Cardinality(DOMAIN w) = m /\ Cardinality(DOMAIN ring) = m
    BY <1>1, RingSizeIs
  <1>3. ASSUME NEW k \in 1..num
        PROVE  w[(first + k - 1) % m] = ring[(first + k - 1) % m]
    <2>1. (first + k - 1) % m \in 0..m - 1
      BY PlaceInRing
    <2>2. ASSUME NEW j \in 1..Len(list)
          PROVE  (next + j - 1) % m # (first + k - 1) % m
      <3> DEFINE a == first + k - 1
                 b == next + j - 1
      <3>1. a \in Int /\ b \in Int /\ a < b /\ b < a + m
        OBVIOUS
      <3> HIDE DEF a, b
      <3>2. a % m # b % m
        BY <3>1, PlacesDiffer
      <3> QED BY <3>2 DEF a, b
    <2> DEFINE i == (first + k - 1) % m
    <2>3. i \in 0..m - 1 /\ \A j \in 1..Len(list) : (next + j - 1) % m # i
      BY <2>1, <2>2
    <2> HIDE DEF i
    <2>4. {j \in 1..Len(list) : (next + j - 1) % m = i} = {}
      BY <2>3
    <2>5. w[i] = ring[i]
      BY <1>2, <2>3, <2>4 DEF Written
    <2> QED BY <2>5 DEF i
  <1> HIDE DEF w
  <1>4. ReadFrom(w, first, num) = ReadFrom(ring, first, num)
    BY <1>2, <1>3 DEF ReadFrom
  <1> QED BY <1>4 DEF w

LEMMA ReadType ==
    ASSUME NEW m \in Nat \ {0}, NEW T, NEW ring \in [0..m - 1 -> T],
           NEW first \in Nat, NEW num \in Nat
    PROVE  ReadFrom(ring, first, num) \in Seq(T) /\ Len(ReadFrom(ring, first, num)) = num
  <1>1. Cardinality(DOMAIN ring) = m
    BY RingSizeIs
  <1>2. \A k \in 1..num : (first + k - 1) % m \in 0..m - 1
    BY PlaceInRing
  <1> DEFINE r == ReadFrom(ring, first, num)
  <1>3. r \in [1..num -> T]
    BY <1>1, <1>2 DEF ReadFrom
  <1> HIDE DEF r
  <1>4. r \in Seq(T) /\ Len(r) = num
    BY <1>3
  <1> QED BY <1>4 DEF r

-----------------------------------------------------------------------------
(* Sorted numbers. *)

\* A finite set of numbers can be listed in ascending order: each is put at
\* the place given by how many are less than it.
LEMMA CanBeSorted ==
    ASSUME NEW S \in SUBSET Nat, IsFiniteSet(S)
    PROVE  \E list \in [1..Cardinality(S) -> S] :
              \A j, k \in DOMAIN list : j < k => list[j] < list[k]
  <1> DEFINE n == Cardinality(S)
             Below(x) == {y \in S : y < x}
             rank == [x \in S |-> Cardinality(Below(x))]
  <1>1. n \in Nat
    BY FS_CardinalityType
  <1>2. ASSUME NEW x \in S PROVE IsFiniteSet(Below(x)) /\ Cardinality(Below(x)) \in 0..n - 1
    <2>1. Below(x) \in SUBSET S /\ Below(x) # S
      OBVIOUS
    <2> HIDE DEF Below
    <2>2. IsFiniteSet(Below(x)) /\ Cardinality(Below(x)) <= n /\ Cardinality(Below(x)) # n
      BY <2>1, FS_Subset
    <2> HIDE DEF n
    <2> QED BY <1>1, <2>2, FS_CardinalityType
  <1>3. ASSUME NEW x \in S, NEW y \in S, x < y
        PROVE  rank[x] < rank[y]
    <2>0. \A z \in S : z \in Int
      OBVIOUS
    <2>1. Below(x) \in SUBSET Below(y) /\ Below(x) # Below(y)
      <3>1. \A z \in S : z < x => z < y
        BY <1>3, <2>0
      <3>2. x \in Below(y) /\ x \notin Below(x)
        BY <1>3, <2>0
      <3> QED BY <3>1, <3>2
    <2> HIDE DEF Below
    <2>2. IsFiniteSet(Below(y)) /\ Cardinality(Below(y)) \in 0..n - 1 /\ Cardinality(Below(x)) \in 0..n - 1
      BY <1>2
    <2>3. Cardinality(Below(x)) <= Cardinality(Below(y)) /\ Cardinality(Below(x)) # Cardinality(Below(y))
      BY <2>1, <2>2, FS_Subset
    <2> HIDE DEF n
    <2> QED BY <1>1, <2>2, <2>3
  <1>4. rank \in [S -> 0..n - 1]
    BY <1>2
  <1> HIDE DEF rank, Below
  <1>5. rank \in Injection(S, 0..n - 1)
    <2>1. ASSUME NEW x \in S, NEW y \in S, rank[x] = rank[y] PROVE x = y
      <3>1. rank[x] \in Int /\ x \in Int /\ y \in Int
        BY <1>4
      <3> QED BY <1>3, <2>1, <3>1
    <2> QED BY <1>4, <2>1 DEF Injection, IsInjective
  <1>6. IsFiniteSet(0..n - 1) /\ Cardinality(0..n - 1) = n
    <2> HIDE DEF n
    <2>1. IsFiniteSet(0..n - 1) /\ Cardinality(0..n - 1) = IF 0 > n - 1 THEN 0 ELSE (n - 1) - 0 + 1
      BY <1>1, FS_Interval
    <2> QED BY <1>1, <2>1
  <1>7. rank \in Surjection(S, 0..n - 1)
    <2>1. Cardinality(S) = Cardinality(0..n - 1) <=> rank \in Surjection(S, 0..n - 1)
      BY <1>5, <1>6, FS_Injection
    <2> QED BY <1>6, <2>1
  <1> HIDE DEF n
  <1>8. ASSUME NEW j \in 1..n PROVE \E x \in S : rank[x] = j - 1
    BY <1>1, <1>7 DEF Surjection
  <1> DEFINE At(j) == CHOOSE x \in S : rank[x] = j - 1
             list == [j \in 1..n |-> At(j)]
  <1>9. ASSUME NEW j \in 1..n PROVE list[j] \in S /\ rank[list[j]] = j - 1
    BY <1>8
  <1>10. list \in [1..n -> S]
    BY <1>8
  <1> HIDE DEF list
  <1>11. ASSUME NEW j \in 1..n, NEW k \in 1..n, j < k PROVE list[j] < list[k]
    <2>1. list[j] \in S /\ list[k] \in S /\ rank[list[j]] < rank[list[k]]
      BY <1>1, <1>9, <1>11
    <2>2. rank[list[j]] \in Int /\ rank[list[k]] \in Int /\ list[j] \in Int /\ list[k] \in Int
      <3>1. rank[list[j]] \in 0..n - 1 /\ rank[list[k]] \in 0..n - 1
        BY <1>4, <2>1
      <3>2. (\A z \in S : z \in Int) /\ (\A r \in 0..n - 1 : r \in Int)
        OBVIOUS
      <3> HIDE DEF n
      <3> QED BY <2>1, <3>1, <3>2, Zenon
    <2>3. CASE list[k] < list[j]
      <3>1. rank[list[k]] < rank[list[j]]
        BY <1>3, <2>1, <2>3
      <3> QED BY <2>1, <2>2, <3>1
    <2>4. CASE list[k] = list[j]
      BY <2>1, <2>2, <2>4
    <2> QED BY <2>2, <2>3, <2>4
  <1> QED BY <1>10, <1>11 DEF n

\* The visible numbers are listed in ascending order.
LEMMA Sorted ==
    ASSUME NEW S \in SUBSET Numbers
    PROVE  /\ InOrder(S) \in Seq(S) /\ Len(InOrder(S)) = Cardinality(S)
           /\ Cardinality(S) \in 0..Cardinality(Numbers)
           /\ \A j, k \in 1..Len(InOrder(S)) : j < k => InOrder(S)[j] < InOrder(S)[k]
  <1> DEFINE list == InOrder(S)
  <1>1. IsFiniteSet(S) /\ S \in SUBSET Nat /\ Cardinality(S) <= Cardinality(Numbers)
    BY FS_Subset, SnapshotAssumption
  <1>2. Cardinality(S) \in Nat /\ Cardinality(Numbers) \in Nat
    BY <1>1, FS_CardinalityType, SnapshotAssumption
  <1>3. list \in [1..Cardinality(S) -> S] /\ \A j, k \in DOMAIN list : j < k => list[j] < list[k]
    BY <1>1, CanBeSorted DEF InOrder
  <1> HIDE DEF list
  <1>4. list \in Seq(S) /\ Len(list) = Cardinality(S)
    BY <1>2, <1>3
  <1>5. \A j, k \in 1..Len(list) : j < k => list[j] < list[k]
    BY <1>2, <1>3, <1>4
  <1>6. list \in Seq(S) /\ Len(list) = Cardinality(S)
        /\ Cardinality(S) \in 0..Cardinality(Numbers)
        /\ \A j, k \in 1..Len(list) : j < k => list[j] < list[k]
    BY <1>1, <1>2, <1>4, <1>5
  <1> QED BY <1>6 DEF list

\* Before the j-th of the old states come, of the new ones, at most those of
\* the j - 1 entities before it and of entities that appear.
LEMMA FewBefore ==
    ASSUME NEW old \in Seq(EntityState), NEW new \in Seq(EntityState),
           \A i, k \in 1..Len(old) : i < k => old[i][1] < old[k][1],
           \A i, k \in 1..Len(new) : i < k => new[i][1] < new[k][1],
           NEW j \in 1..Len(old)
    PROVE  LET T == {k \in 1..Len(new) : new[k][1] < old[j][1]}
               A == {k \in 1..Len(new) : \A i \in 1..Len(old) : old[i][1] # new[k][1]}
           IN  /\ Cardinality(T) \in Nat /\ Cardinality(A) \in Nat
               /\ Cardinality(T) <= j - 1 + Cardinality(A)
  <1> DEFINE T == {k \in 1..Len(new) : new[k][1] < old[j][1]}
             A == {k \in 1..Len(new) : \A i \in 1..Len(old) : old[i][1] # new[k][1]}
             B == T \ A
             f == [k \in B |-> CHOOSE i \in 1..Len(old) : old[i][1] = new[k][1]]
  <1>1. Len(old) \in Nat /\ Len(new) \in Nat /\ j \in Int
    OBVIOUS
  <1>2. /\ \A i \in 1..Len(old) : old[i][1] \in Int
        /\ \A k \in 1..Len(new) : new[k][1] \in Int
    <2>1. /\ \A i \in 1..Len(old) : old[i][1] \in Numbers
          /\ \A k \in 1..Len(new) : new[k][1] \in Numbers
      BY DEF EntityState
    <2>2. \A x \in Numbers : x \in Int
      BY SnapshotAssumption
    <2> QED BY <2>1, <2>2
  <1>3. ASSUME NEW k \in B
        PROVE  f[k] \in 1..j - 1 /\ f[k] \in 1..Len(old) /\ old[f[k]][1] = new[k][1]
    <2>1. k \in 1..Len(new) /\ new[k][1] < old[j][1]
          /\ \E i \in 1..Len(old) : old[i][1] = new[k][1]
      OBVIOUS
    <2>2. f[k] \in 1..Len(old) /\ old[f[k]][1] = new[k][1]
      BY <2>1
    <2> HIDE DEF f, B
    <2>3. f[k] \in Int /\ f[k] >= 1 /\ f[k] <= Len(old)
      BY <1>1, <2>2
    <2>4. f[k] # j
      BY <1>2, <2>1, <2>2
    <2>5. ~(j < f[k])
      BY <1>2, <2>1, <2>2
    <2> QED BY <1>1, <2>2, <2>3, <2>4, <2>5
  <1>4. IsFiniteSet(1..Len(new)) /\ T \in SUBSET (1..Len(new)) /\ A \in SUBSET (1..Len(new))
        /\ B \in SUBSET T /\ T \in SUBSET (B \cup A) /\ B \in SUBSET (1..Len(new))
    BY <1>1, FS_Interval
  <1>5. IsFiniteSet(1..j - 1) /\ Cardinality(1..j - 1) = j - 1
    <2>1. j - 1 \in Int /\ j >= 1
      BY <1>1
    <2>2. IsFiniteSet(1..j - 1) /\ Cardinality(1..j - 1) = IF 1 > j - 1 THEN 0 ELSE (j - 1) - 1 + 1
      BY <2>1, FS_Interval
    <2> QED BY <2>1, <2>2
  <1>6. f = [k \in B |-> f[k]]
    OBVIOUS
  <1>7. \A k \in B : k \in 1..Len(new)
    OBVIOUS
  <1> HIDE DEF f, B, T, A
  <1>8. f \in Injection(B, 1..j - 1)
    <2>1. ASSUME NEW i \in B, NEW k \in B, f[i] = f[k] PROVE i = k
      <3>1. new[i][1] = new[k][1] /\ i \in 1..Len(new) /\ k \in 1..Len(new)
        BY <1>3, <1>7, <2>1
      <3> QED BY <1>1, <1>2, <3>1
    <2> QED BY <1>3, <1>6, <2>1 DEF Injection, IsInjective
  <1>9. IsFiniteSet(B) /\ Cardinality(B) <= j - 1
    BY <1>5, <1>8, FS_Injection
  <1>10. IsFiniteSet(A) /\ IsFiniteSet(T) /\ IsFiniteSet(B \cap A) /\ IsFiniteSet(B \cup A)
    BY <1>4, <1>9, FS_Subset, FS_Union
  <1>11. Cardinality(B \cup A) = Cardinality(B) + Cardinality(A) - Cardinality(B \cap A)
    BY <1>9, <1>10, FS_Union
  <1>12. Cardinality(T) <= Cardinality(B \cup A)
    BY <1>4, <1>10, FS_Subset
  <1>13. /\ Cardinality(T) \in Nat /\ Cardinality(A) \in Nat /\ Cardinality(B) \in Nat
         /\ Cardinality(B \cap A) \in Nat
    BY <1>9, <1>10, FS_CardinalityType
  <1>14. Cardinality(T) <= j - 1 + Cardinality(A)
    BY <1>1, <1>9, <1>11, <1>12, <1>13
  <1> QED BY <1>13, <1>14 DEF T, A

-----------------------------------------------------------------------------
(* Messages under way. *)

\* What is left when the k-th is taken, and those before it are lost.
LEMMA RestIs ==
    ASSUME NEW T, NEW net \in Seq(T), NEW k \in 1..Len(net)
    PROVE  LET r == Rest(net, k)
           IN  /\ r \in Seq(T) /\ Len(r) = Len(net) - k /\ Len(r) \in Nat
               /\ \A j \in 1..Len(r) : k + j \in 1..Len(net) /\ r[j] = net[k + j]
  BY SubSeqProperties DEF Rest

\* But for the last, messages of r are those of net, d places on.
Follows(r, net, d) ==
    \A j \in 1..Len(r) : j # Len(r) => j + d \in 1..Len(net) /\ r[j] = net[j + d]

\* What is sent is last; the others keep their order.
LEMMA PutIs ==
    ASSUME NEW T, NEW net \in Seq(T), NEW m \in T, NEW r,
           r = Append(net, m) \/ (net # <<>> /\ r = Append(Tail(net), m))
    PROVE  /\ r \in Seq(T) /\ Len(r) \in Nat \ {0} /\ r[Len(r)] = m
           /\ r = Append(net, m) => Len(r) = Len(net) + 1
           /\ r # Append(net, m) => Len(r) = Len(net)
           /\ Follows(r, net, 0) \/ Follows(r, net, 1)
  <1>1. CASE r = Append(net, m)
    <2>2. r \in Seq(T) /\ Len(r) = Len(net) + 1 /\ r[Len(r)] = m
      BY <1>1
    <2>3. ASSUME NEW j \in 1..Len(r), j # Len(r)
          PROVE  j + 0 \in 1..Len(net) /\ r[j] = net[j + 0]
      BY <1>1, <2>2, <2>3
    <2>4. Len(r) \in Nat \ {0}
      BY <2>2
    <2>5. Follows(r, net, 0)
      BY <2>3 DEF Follows
    <2> QED BY <1>1, <2>2, <2>4, <2>5
  <1>2. CASE r # Append(net, m)
    <2> DEFINE t == Tail(net)
    <2>1. r = Append(t, m) /\ net # <<>>
      BY <1>2
    <2>2. t \in Seq(T) /\ Len(t) = Len(net) - 1 /\ \A j \in 1..Len(t) : t[j] = net[j + 1]
      BY <2>1
    <2> HIDE DEF t
    <2>3. r \in Seq(T) /\ Len(r) = Len(t) + 1 /\ r[Len(r)] = m /\ Len(net) \in Nat
          /\ \A j \in 1..Len(t) : r[j] = t[j]
      BY <2>1, <2>2
    <2>4. ASSUME NEW j \in 1..Len(r), j # Len(r)
          PROVE  j + 1 \in 1..Len(net) /\ r[j] = net[j + 1]
      <3>1. j \in 1..Len(t) /\ j + 1 \in 1..Len(net)
        BY <2>2, <2>3, <2>4
      <3> QED BY <2>2, <2>3, <3>1
    <2>5. Len(r) = Len(net) /\ Len(r) \in Nat \ {0}
      BY <2>2, <2>3
    <2>6. Follows(r, net, 1)
      BY <2>4 DEF Follows
    <2> QED BY <1>2, <2>3, <2>5, <2>6
  <1> QED BY <1>1, <1>2

-----------------------------------------------------------------------------
(* What the invariant says of each part of the state. *)

LEMMA Constants ==
    /\ PACKET_BACKUP \in Nat \ {0} /\ PACKET_BACKUP > 3
    /\ Cardinality(Numbers) \in Nat \ {0}
    /\ RingSize \in Nat \ {0} /\ RingSize >= Cardinality(Numbers)
    /\ MAX_PARSE_ENTITIES \in Nat \ {0} /\ ParseMargin \in Nat
    /\ Cardinality(Numbers) < MAX_PARSE_ENTITIES
    /\ ParseMargin > 0 /\ ParseMargin < MAX_PARSE_ENTITIES
    /\ MaxSequence \in Nat /\ MaxMaps \in Nat \ {0}
    /\ MaxDown \in Nat \ {0} /\ MaxUp \in Nat \ {0}
  <1>1. Cardinality(Numbers) \in Nat
    BY FS_CardinalityType, SnapshotAssumption
  <1>2. Cardinality(Numbers) # 0
    BY FS_EmptySet, SnapshotAssumption
  <1> QED BY <1>1, <1>2, SnapshotAssumption

LEMMA SvFields ==
    ASSUME TypeInv
    PROVE  /\ sv.map \in 1..MaxMaps /\ sv.map \in Int
           /\ sv.outgoing \in 1..MaxSequence + 1 /\ sv.outgoing \in Int
           /\ sv.gamestateMessageNum \in -1..MaxSequence /\ sv.gamestateMessageNum \in Int
           /\ sv.deltaMessage \in -1..MaxSequence /\ sv.deltaMessage \in Int
           /\ sv.next \in Nat /\ sv.gentity \in BOOLEAN
           /\ sv.state \in {"connected", "primed", "active"}
  <1>1. sv \in [map : 1..MaxMaps, state : {"connected", "primed", "active"},
               gentity : BOOLEAN, outgoing : 1..MaxSequence + 1,
               gamestateMessageNum : -1..MaxSequence, deltaMessage : -1..MaxSequence,
               next : Nat]
    BY DEF TypeInv, TypeOK
  <1> QED BY <1>1, Constants

LEMMA ClFields ==
    ASSUME TypeInv
    PROVE  /\ cl.serverId \in 0..MaxMaps /\ cl.serverId \in Int
           /\ cl.sequence \in Sequence /\ cl.sequence \in Nat
           /\ cl.snapNum \in Sequence /\ cl.snapNum \in Nat
           /\ cl.snapValid \in BOOLEAN /\ cl.parseNum \in Nat
  <1>1. cl \in [serverId : 0..MaxMaps, sequence : Sequence, snapNum : Sequence,
               snapValid : BOOLEAN, parseNum : Nat]
    BY DEF TypeInv, TypeOK
  <1> QED BY <1>1, Constants DEF Sequence

LEMMA DownFields ==
    ASSUME TypeInv, NEW k \in DOMAIN down
    PROVE  /\ k \in 1..Len(down) /\ Len(down) \in Nat
           /\ down[k] \in Message
           /\ down[k].kind \in {"gamestate", "snapshot", "empty"}
           /\ down[k].sequence \in 1..MaxSequence /\ down[k].sequence \in Int
           /\ down[k].map \in 1..MaxMaps /\ down[k].map \in Int
           /\ down[k].base \in 0..MaxSequence /\ down[k].base \in Nat
           /\ down[k].old \in Seq(Entity) /\ down[k].new \in Seq(Entity)
  <1>1. down \in Seq(Message)
    BY DEF TypeInv
  <1>2. k \in 1..Len(down) /\ Len(down) \in Nat /\ down[k] \in Message
    BY <1>1
  <1> QED BY <1>2, Constants DEF Message, Sequence

LEMMA UpFields ==
    ASSUME TypeInv, NEW k \in DOMAIN up
    PROVE  /\ k \in 1..Len(up) /\ Len(up) \in Nat
           /\ up[k] \in Packet
           /\ up[k].map \in 0..MaxMaps /\ up[k].map \in Int
           /\ up[k].ack \in 0..MaxSequence /\ up[k].ack \in Nat
           /\ up[k].delta \in BOOLEAN
  <1>1. up \in Seq(Packet)
    BY DEF TypeInv
  <1>2. k \in 1..Len(up) /\ Len(up) \in Nat /\ up[k] \in Packet
    BY <1>1
  <1> QED BY <1>2, Constants DEF Packet, Sequence

LEMMA FrameFields ==
    ASSUME TypeInv, NEW s \in 0..PACKET_BACKUP - 1
    PROVE  /\ frames[s] \in [first : Nat, num : 0..Cardinality(Numbers)]
           /\ frames[s].first \in Nat /\ frames[s].num \in 0..Cardinality(Numbers)
           /\ frames[s].num \in Nat
  <1>1. frames[s] \in [first : Nat, num : 0..Cardinality(Numbers)]
    BY DEF TypeInv, TypeOK
  <1> QED BY <1>1, Constants

LEMMA SnapFields ==
    ASSUME TypeInv, NEW s \in 0..PACKET_BACKUP - 1
    PROVE  /\ snapshots[s].valid \in BOOLEAN /\ snapshots[s].messageNum \in 0..MaxSequence
           /\ snapshots[s].messageNum \in Nat
           /\ snapshots[s].first \in Nat /\ snapshots[s].num \in Nat
  <1>1. snapshots[s] \in [valid : BOOLEAN, messageNum : Sequence, first : Nat, num : Nat]
    BY DEF TypeInv, TypeOK
  <1> QED BY <1>1, Constants DEF Sequence

LEMMA Shapes ==
    ASSUME TypeInv
    PROVE  /\ snapshotEntities \in [0..RingSize - 1 -> Entity]
           /\ parseEntities \in [0..MAX_PARSE_ENTITIES - 1 -> Entity]
           /\ DOMAIN frames = 0..PACKET_BACKUP - 1
           /\ DOMAIN snapshots = 0..PACKET_BACKUP - 1
           /\ down \in Seq(Message) /\ up \in Seq(Packet)
           /\ DOMAIN down = 1..Len(down) /\ DOMAIN up = 1..Len(up)
           /\ Len(down) \in Nat /\ Len(up) \in Nat
           /\ Len(down) <= MaxDown /\ Len(up) <= MaxUp
  BY DEF TypeInv, TypeOK

LEMMA MeantFields ==
    ASSUME MeantInv, NEW n \in 1..MaxSequence
    PROVE  /\ meant[n] \in Seq(EntityState) /\ meant[n] \in Seq(Entity)
           /\ Len(meant[n]) \in 0..Cardinality(Numbers) /\ Len(meant[n]) \in Nat
           /\ DOMAIN meant = 1..MaxSequence
  <1>1. meant[n] \in Seq(EntityState) /\ Len(meant[n]) <= Cardinality(Numbers)
        /\ DOMAIN meant = 1..MaxSequence
    BY DEF MeantInv
  <1>2. EntityState \subseteq Entity
    BY DEF EntityState, Entity
  <1>3. meant[n] \in Seq(Entity)
    BY <1>1, <1>2
  <1> QED BY <1>1, <1>3, Constants

-----------------------------------------------------------------------------
(* Snapshots the server built. *)

\* What was built stays while another list is written in the ring.
LEMMA BuiltKept ==
    ASSUME TypeInv, NEW n \in Int, Built(n), NEW list, Len(list) \in Nat,
           sv'.next = sv.next + Len(list),
           snapshotEntities' = Written(snapshotEntities, sv.next, list),
           sv'.outgoing \in Int, sv.outgoing <= sv'.outgoing,
           sv'.outgoing - n < PACKET_BACKUP => frames'[Slot(n)] = frames[Slot(n)],
           meant'[n] = meant[n]
    PROVE  Built(n)'
  <1> DEFINE fr == frames[Slot(n)]
  <1>1. Slot(n) \in 0..PACKET_BACKUP - 1
    BY SlotInRing
  <1>2. fr.first \in Nat /\ fr.num \in Nat
    BY <1>1, FrameFields
  <1>3. n \in 1..sv'.outgoing - 1
    BY SvFields DEF Built
  <1>4. SUFFICES ASSUME sv'.outgoing - n < PACKET_BACKUP
        PROVE  /\ fr.num = Len(meant[n])
               /\ fr.num > 0 =>
                     /\ fr.first + fr.num <= sv'.next
                     /\ fr.first > sv'.next - RingSize =>
                           ReadFrom(snapshotEntities', fr.first, fr.num) = meant[n]
    BY <1>3 DEF Built
  <1>5. sv.outgoing - n < PACKET_BACKUP
    <2>1. sv.outgoing \in Int /\ PACKET_BACKUP \in Int
      BY SvFields, Constants
    <2> DEFINE a == sv.outgoing
               b == sv'.outgoing
    <2>2. a \in Int /\ b \in Int /\ a <= b /\ b - n < PACKET_BACKUP
      BY <1>4, <2>1
    <2> HIDE DEF a, b
    <2>3. a - n < PACKET_BACKUP
      BY ONLY <2>1, <2>2, n \in Int
    <2> QED BY <2>3 DEF a
  <1>6. /\ fr.num = Len(meant[n])
        /\ fr.num > 0 =>
              /\ fr.first + fr.num <= sv.next
              /\ fr.first > sv.next - RingSize =>
                    ReadFrom(snapshotEntities, fr.first, fr.num) = meant[n]
    BY <1>5 DEF Built
  <1> HIDE DEF fr
  <1>7. ASSUME fr.num > 0
        PROVE  /\ fr.first + fr.num <= sv'.next
               /\ fr.first > sv'.next - RingSize =>
                     ReadFrom(snapshotEntities', fr.first, fr.num) = meant[n]
    <2> DEFINE first == fr.first
               num == fr.num
               next == sv.next
    <2>1. first \in Nat /\ num \in Nat /\ next \in Nat /\ first + num <= next
      BY <1>2, <1>6, <1>7, SvFields
    <2>2. RingSize \in Nat \ {0} /\ DOMAIN snapshotEntities = 0..RingSize - 1
      BY Constants, Shapes
    <2> HIDE DEF first, num, next
    <2>3. first + num <= next + Len(list)
      BY <2>1
    <2>4. ASSUME first > next + Len(list) - RingSize
          PROVE  /\ next + Len(list) - first <= RingSize
                 /\ first > next - RingSize
      BY <2>1, <2>2, <2>4
    <2>5. ASSUME first > next + Len(list) - RingSize
          PROVE  ReadFrom(Written(snapshotEntities, next, list), first, num)
                    = ReadFrom(snapshotEntities, first, num)
      BY ONLY <2>1, <2>2, <2>4, <2>5, ReadKept, Len(list) \in Nat
    <2>6. ASSUME fr.first > sv'.next - RingSize
          PROVE  ReadFrom(snapshotEntities', fr.first, fr.num) = meant[n]
      <3>1. first > next + Len(list) - RingSize
        <4>1. sv'.next = next + Len(list)
          BY DEF next
        <4>2. first > sv'.next - RingSize
          BY <2>6 DEF first
        <4>3. first \in Nat /\ next \in Nat /\ Len(list) \in Nat /\ RingSize \in Nat
          BY <2>1, <2>2
        <4> QED BY ONLY <4>1, <4>2, <4>3
      <3>2. ReadFrom(snapshotEntities, fr.first, fr.num) = meant[n]
        BY <1>6, <1>7, <2>4, <3>1 DEF first, next
      <3> QED BY <2>5, <3>1, <3>2 DEF first, num, next
    <2> QED BY <2>3, <2>6 DEF first, num, next
  <1> QED BY <1>6, <1>7

\* What SV_SendClientSnapshot does, with list for what it wrote to the ring,
\* base for what it took as a base, and m for the message.
SentAs(list, base, m) ==
    /\ list \in Seq(EntityState) /\ Len(list) \in 0..Cardinality(Numbers)
    /\ \A j, k \in 1..Len(list) : j < k => list[j][1] < list[k][1]
    /\ Len(list) > 0 => sv.gentity
    /\ sv.outgoing \in 1..MaxSequence
    /\ sv' = [sv EXCEPT !.outgoing = @ + 1, !.next = @ + Len(list)]
    /\ frames' = [frames EXCEPT ![Slot(sv.outgoing)] = Frame(list)]
    /\ snapshotEntities' = Written(snapshotEntities, sv.next, list)
    /\ meant' = [meant EXCEPT ![sv.outgoing] = list]
    /\ base # 0 => /\ base = sv.deltaMessage /\ base > 0
                   /\ sv.state = "active"
                   /\ sv.outgoing - base < PACKET_BACKUP - 3
                   /\ frames'[Slot(base)].first > sv'.next - RingSize
    /\ m.kind \in {"snapshot", "empty"} /\ m.sequence = sv.outgoing /\ m.map = sv.map
    /\ m.base = base
    /\ base = 0 => m.old = <<>>
    /\ base # 0 => m.old = ReadFrom(snapshotEntities', frames'[Slot(base)].first,
                                    frames'[Slot(base)].num)
    /\ m.new = ReadFrom(snapshotEntities', frames'[Slot(sv.outgoing)].first,
                        frames'[Slot(sv.outgoing)].num)
    /\ m = [kind |-> m.kind, sequence |-> m.sequence, map |-> m.map, base |-> m.base,
            old |-> m.old, new |-> m.new]
    /\ down' = Put(down, MaxDown, m)
    /\ crowded' = IF base # 0 /\ (base \in crowded \/ Cardinality(Appearing(m)) >= ParseMargin)
                  THEN crowded \cup {sv.outgoing} ELSE crowded
    /\ cl' = cl /\ snapshots' = snapshots /\ parseEntities' = parseEntities /\ up' = up

LEMMA Sending ==
    ASSUME TypeInv, NEW visible \in SUBSET Numbers, NEW overflowed \in BOOLEAN,
           SV_SendClientSnapshot(visible, overflowed)
    PROVE  \E list, base, m : SentAs(list, base, m)
  <1> DEFINE order == InOrder(IF sv.gentity THEN visible ELSE {})
             list  == [k \in 1..Len(order) |-> <<order[k], sv.outgoing>>]
             fr    == [frames EXCEPT ![Slot(sv.outgoing)] = Frame(list)]
             ring  == Written(snapshotEntities, sv.next, list)
             next  == sv.next + Len(list)
             base  == DeltaBase(fr, next)
             from  == fr[Slot(base)]
             to    == fr[Slot(sv.outgoing)]
             message == [kind |-> "snapshot", sequence |-> sv.outgoing, map |-> sv.map,
                    base |-> base,
                    old |-> IF base = 0 THEN <<>> ELSE ReadFrom(ring, from.first, from.num),
                    new |-> ReadFrom(ring, to.first, to.num)]
             m == IF overflowed THEN [message EXCEPT !.kind = "empty"] ELSE message
  <1>1. /\ sv.outgoing <= MaxSequence
        /\ sv' = [sv EXCEPT !.outgoing = @ + 1, !.next = @ + Len(list)]
        /\ frames' = fr
        /\ snapshotEntities' = ring
        /\ down' = Put(down, MaxDown, m)
        /\ meant' = [meant EXCEPT ![sv.outgoing] = list]
        /\ crowded' = IF base # 0 /\ (base \in crowded \/ Cardinality(Appearing(message)) >= ParseMargin)
                      THEN crowded \cup {sv.outgoing} ELSE crowded
        /\ cl' = cl /\ snapshots' = snapshots /\ parseEntities' = parseEntities /\ up' = up
    BY Zenon DEF SV_SendClientSnapshot
  <1>2. sv.outgoing \in 1..MaxSequence
    <2>1. sv.outgoing <= MaxSequence /\ sv.outgoing \in 1..MaxSequence + 1 /\ MaxSequence \in Nat
      BY Zenon, <1>1, SvFields, Constants
    <2> QED BY ONLY SMTT(30), <2>1
  <1>3. /\ list \in Seq(EntityState) /\ Len(list) \in 0..Cardinality(Numbers)
        /\ \A j, k \in 1..Len(list) : j < k => list[j][1] < list[k][1]
        /\ Len(list) > 0 => sv.gentity
    <2> DEFINE S == IF sv.gentity THEN visible ELSE {}
    <2>1. S \in SUBSET Numbers /\ (~sv.gentity => S = {})
      OBVIOUS
    <2> HIDE DEF S
    <2> DEFINE o == InOrder(S)
               l == [k \in 1..Len(o) |-> <<o[k], sv.outgoing>>]
    <2>2. o \in Seq(S) /\ Len(o) = Cardinality(S) /\ Cardinality(S) \in 0..Cardinality(Numbers)
          /\ \A j, k \in 1..Len(o) : j < k => o[j] < o[k]
      BY <2>1, Sorted
    <2>3. ~sv.gentity => Len(o) = 0
      BY <2>1, <2>2, FS_EmptySet
    <2> HIDE DEF o
    <2>4. \A k \in 1..Len(o) : <<o[k], sv.outgoing>> \in EntityState
      BY <1>2, <2>1, <2>2, Constants DEF EntityState, Sequence
    <2>5. l \in Seq(EntityState) /\ Len(l) = Len(o) /\ Len(l) \in Nat
      BY <2>2, <2>4
    <2>6. \A k \in 1..Len(l) : l[k][1] = o[k]
      BY <2>5
    <2> HIDE DEF l
    <2>7. /\ l \in Seq(EntityState) /\ Len(l) \in 0..Cardinality(Numbers)
          /\ \A j, k \in 1..Len(l) : j < k => l[j][1] < l[k][1]
          /\ Len(l) > 0 => sv.gentity
      BY <2>2, <2>3, <2>5, <2>6
    <2> QED BY <2>7 DEF l, o, S
  <1> HIDE DEF list, order
  <1>4. fr = [frames EXCEPT ![Slot(sv.outgoing)] = Frame(list)]
        /\ ring = Written(snapshotEntities, sv.next, list)
        /\ next = sv.next + Len(list)
    OBVIOUS
  <1> HIDE DEF fr, ring, next
  <1>5. sv'.next = next
    <2>1. sv \in [map : 1..MaxMaps, state : {"connected", "primed", "active"},
               gentity : BOOLEAN, outgoing : 1..MaxSequence + 1,
               gamestateMessageNum : -1..MaxSequence, deltaMessage : -1..MaxSequence,
               next : Nat]
      BY DEF TypeInv, TypeOK
    <2> QED BY <1>1, <1>4, <2>1
  <1>6. base # 0 => /\ base = sv.deltaMessage /\ base > 0
                    /\ sv.state = "active"
                    /\ sv.outgoing - base < PACKET_BACKUP - 3
                    /\ fr[Slot(base)].first > next - RingSize
    BY Zenon DEF DeltaBase
  <1> HIDE DEF base
  <1>8. /\ m.kind \in {"snapshot", "empty"} /\ m.sequence = sv.outgoing /\ m.map = sv.map
        /\ m.base = base
        /\ base = 0 => m.old = <<>>
        /\ base # 0 => m.old = ReadFrom(ring, from.first, from.num)
        /\ m.new = ReadFrom(ring, to.first, to.num)
        /\ m = [kind |-> m.kind, sequence |-> m.sequence, map |-> m.map, base |-> m.base,
                old |-> m.old, new |-> m.new]
        /\ m.old = message.old /\ m.new = message.new
    OBVIOUS
  <1>7. Appearing(m) = Appearing(message)
    BY <1>8 DEF Appearing
  <1> HIDE DEF m, message
  <1>9. SentAs(list, base, m)
    <2>1. /\ sv' = [sv EXCEPT !.outgoing = @ + 1, !.next = @ + Len(list)]
          /\ frames' = [frames EXCEPT ![Slot(sv.outgoing)] = Frame(list)]
          /\ snapshotEntities' = Written(snapshotEntities, sv.next, list)
          /\ meant' = [meant EXCEPT ![sv.outgoing] = list]
          /\ down' = Put(down, MaxDown, m)
          /\ crowded' = IF base # 0 /\ (base \in crowded \/ Cardinality(Appearing(m)) >= ParseMargin)
                        THEN crowded \cup {sv.outgoing} ELSE crowded
          /\ cl' = cl /\ snapshots' = snapshots /\ parseEntities' = parseEntities /\ up' = up
      BY <1>1, <1>4, <1>7
    <2>2. base # 0 => /\ base = sv.deltaMessage /\ base > 0
                      /\ sv.state = "active"
                      /\ sv.outgoing - base < PACKET_BACKUP - 3
                      /\ frames'[Slot(base)].first > sv'.next - RingSize
      BY <1>1, <1>5, <1>6, Zenon
    <2>3. /\ base # 0 => m.old = ReadFrom(snapshotEntities', frames'[Slot(base)].first,
                                          frames'[Slot(base)].num)
          /\ m.new = ReadFrom(snapshotEntities', frames'[Slot(sv.outgoing)].first,
                              frames'[Slot(sv.outgoing)].num)
      BY <1>1, <1>8, ZenonT(60)
    <2> QED BY <1>2, <1>3, <1>8, <2>1, <2>2, <2>3, Zenon DEF SentAs
  <1> QED BY <1>9

-----------------------------------------------------------------------------
(* SV_SendClientSnapshot. *)

\* What is under way when m is sent.
LEMMA DownPut ==
    ASSUME TypeInv, NEW m \in Message, down' = Put(down, MaxDown, m)
    PROVE  /\ down' \in Seq(Message) /\ Len(down') <= MaxDown
           /\ Len(down') \in Nat \ {0} /\ DOMAIN down' = 1..Len(down')
           /\ down'[Len(down')] = m
           /\ \E d \in {0, 1} : \A j \in DOMAIN down' :
                 j # Len(down') => j + d \in DOMAIN down /\ down'[j] = down[j + d]
  <1> DEFINE r == Put(down, MaxDown, m)
  <1>1. down \in Seq(Message) /\ Len(down) <= MaxDown /\ MaxDown \in Nat \ {0}
        /\ DOMAIN down = 1..Len(down)
    BY Shapes, Constants
  <1>4. down' = r /\ r = Put(down, MaxDown, m)
    OBVIOUS
  <1> HIDE DEF r
  <1>5. Len(down) \in Nat
    BY Shapes
  <1>6. \/ r = Append(down, m) /\ Len(down) < MaxDown
        \/ down # <<>> /\ r = Append(Tail(down), m)
    BY <1>1, <1>4, <1>5 DEF Put
  <1>7. /\ r \in Seq(Message) /\ Len(r) \in Nat \ {0} /\ r[Len(r)] = m
        /\ r = Append(down, m) => Len(r) = Len(down) + 1
        /\ r # Append(down, m) => Len(r) = Len(down)
    BY SMTT(30), <1>1, <1>6, PutIs
  <1>8. Follows(r, down, 0) \/ Follows(r, down, 1)
    BY <1>1, <1>6, PutIs
  <1>9. Append(down, m) # Append(Tail(down), m) \/ down = <<>>
    <2>1. down # <<>> => Len(Append(down, m)) = Len(down) + 1 /\ Len(Append(Tail(down), m)) = Len(down)
      BY <1>1
    <2> QED BY <1>5, <2>1
  <1>2. Len(r) <= MaxDown
    BY <1>1, <1>5, <1>6, <1>7, <1>9
  <1>3. DOMAIN r = 1..Len(r)
    BY SMTT(30), <1>7
  <1>10. \E d \in {0, 1} : \A j \in DOMAIN r :
              j # Len(r) => j + d \in DOMAIN down /\ r[j] = down[j + d]
    BY Zenon, <1>1, <1>3, <1>8 DEF Follows
  <1> QED BY Zenon, <1>2, <1>3, <1>4, <1>7, <1>10

\* A message that is sent is the latest.
LEMMA PutOrder ==
    ASSUME TypeInv, OrderInv, NEW m \in Message, down' = Put(down, MaxDown, m),
           m.sequence = sv.outgoing, m.map = sv.map,
           sv'.outgoing = sv.outgoing + 1, sv'.map = sv.map,
           sv'.gamestateMessageNum \in Int, sv'.gamestateMessageNum < sv'.outgoing,
           cl' = cl, \A k \in DOMAIN up' : up'[k].ack <= cl.sequence /\ up'[k].map <= cl.serverId
    PROVE  OrderInv'
  <1> DEFINE n == Len(down')
  <1>1. PICK d \in {0, 1} : \A j \in DOMAIN down' :
            j # n => j + d \in DOMAIN down /\ down'[j] = down[j + d]
    BY DownPut
  <1>2. n \in Nat \ {0} /\ DOMAIN down' = 1..n /\ down'[n] = m
    BY DownPut
  <1> HIDE DEF n
  <1>3. sv.outgoing \in Int /\ sv.map \in Int /\ cl.sequence \in Int /\ cl.serverId \in Int
        /\ cl.snapNum \in Int
    BY SvFields, ClFields
  <1>4. cl.snapNum <= cl.sequence /\ cl.sequence < sv.outgoing /\ cl.serverId <= sv.map
    BY DEF OrderInv
  <1>5. ASSUME NEW k \in DOMAIN down'
        PROVE  /\ cl.sequence < down'[k].sequence /\ down'[k].sequence < sv.outgoing + 1
               /\ cl.serverId <= down'[k].map /\ down'[k].map <= sv.map
    <2>1. CASE k = n
      BY <1>2, <1>3, <1>4, <2>1
    <2>2. CASE k # n
      <3>1. k + d \in DOMAIN down /\ down'[k] = down[k + d]
        BY <1>1, <2>2
      <3>2. down[k + d].sequence \in Int /\ down[k + d].map \in Int
        BY <3>1, DownFields
      <3>3. /\ cl.sequence < down[k + d].sequence /\ down[k + d].sequence < sv.outgoing
            /\ cl.serverId <= down[k + d].map /\ down[k + d].map <= sv.map
        BY <3>1 DEF OrderInv
      <3> QED BY <1>3, <3>1, <3>2, <3>3
    <2> QED BY <2>1, <2>2
  <1>6. ASSUME NEW k \in DOMAIN down', NEW j \in DOMAIN down', j < k
        PROVE  down'[j].sequence < down'[k].sequence /\ down'[j].map <= down'[k].map
    <2>1. j # n
      BY <1>2, <1>6
    <2>2. j + d \in DOMAIN down /\ down'[j] = down[j + d]
      BY <1>1, <2>1
    <2>3. CASE k = n
      BY <1>2, <2>2, <2>3 DEF OrderInv
    <2>4. CASE k # n
      <3>1. k + d \in DOMAIN down /\ down'[k] = down[k + d]
        BY <1>1, <2>4
      <3>2. j + d < k + d
        BY <1>2, <1>6
      <3> QED BY <2>2, <3>1, <3>2 DEF OrderInv
    <2> QED BY <2>3, <2>4
  <1>7. cl'.snapNum <= cl'.sequence /\ cl'.sequence < sv'.outgoing /\ cl'.serverId <= sv'.map
    BY <1>3, <1>4
  <1>8. \A k \in DOMAIN down' :
            /\ cl'.sequence < down'[k].sequence /\ down'[k].sequence < sv'.outgoing
            /\ cl'.serverId <= down'[k].map /\ down'[k].map <= sv'.map
            /\ \A j \in DOMAIN down' :
                  j < k => down'[j].sequence < down'[k].sequence /\ down'[j].map <= down'[k].map
    BY <1>5, <1>6
  <1>9. \A k \in DOMAIN up' : up'[k].ack <= cl'.sequence /\ up'[k].map <= cl'.serverId
    OBVIOUS
  <1> QED BY <1>7, <1>8, <1>9 DEF OrderInv

LEMMA SentFields ==
    ASSUME TypeInv, NEW list, NEW base, NEW m, SentAs(list, base, m)
    PROVE  /\ sv'.outgoing = sv.outgoing + 1 /\ sv'.next = sv.next + Len(list)
           /\ sv'.map = sv.map /\ sv'.state = sv.state /\ sv'.gentity = sv.gentity
           /\ sv'.gamestateMessageNum = sv.gamestateMessageNum
           /\ sv'.deltaMessage = sv.deltaMessage
           /\ sv' \in [map : 1..MaxMaps, state : {"connected", "primed", "active"},
               gentity : BOOLEAN, outgoing : 1..MaxSequence + 1,
               gamestateMessageNum : -1..MaxSequence, deltaMessage : -1..MaxSequence,
               next : Nat]
  <1>1. sv \in [map : 1..MaxMaps, state : {"connected", "primed", "active"},
               gentity : BOOLEAN, outgoing : 1..MaxSequence + 1,
               gamestateMessageNum : -1..MaxSequence, deltaMessage : -1..MaxSequence,
               next : Nat]
    BY DEF TypeInv, TypeOK
  <1>2. sv' = [sv EXCEPT !.outgoing = @ + 1, !.next = @ + Len(list)]
        /\ sv.outgoing \in 1..MaxSequence /\ Len(list) \in 0..Cardinality(Numbers)
    BY DEF SentAs
  <1>3. sv.outgoing + 1 \in 1..MaxSequence + 1 /\ sv.next + Len(list) \in Nat
    <2>1. MaxSequence \in Nat /\ Cardinality(Numbers) \in Nat /\ sv.next \in Nat
      BY Constants, SvFields
    <2> QED BY ONLY <1>2, <2>1
  <1> QED BY <1>1, <1>2, <1>3

LEMMA SentFrames ==
    ASSUME TypeInv, NEW list, NEW base, NEW m, SentAs(list, base, m)
    PROVE  /\ frames' \in [0..PACKET_BACKUP - 1 -> [first : Nat, num : 0..Cardinality(Numbers)]]
           /\ frames'[Slot(sv.outgoing)].num = Len(list)
           /\ Len(list) > 0 => frames'[Slot(sv.outgoing)].first = sv.next
           /\ \A n \in Int : Slot(n) # Slot(sv.outgoing) => frames'[Slot(n)] = frames[Slot(n)]
  <1> DEFINE s == Slot(sv.outgoing)
  <1>1. s \in 0..PACKET_BACKUP - 1
    BY SlotInRing, SvFields
  <1>2. frames[s] \in [first : Nat, num : 0..Cardinality(Numbers)]
    BY <1>1, FrameFields
  <1>3. frames \in [0..PACKET_BACKUP - 1 -> [first : Nat, num : 0..Cardinality(Numbers)]]
    BY DEF TypeInv, TypeOK
  <1>4. Len(list) \in 0..Cardinality(Numbers) /\ (Len(list) > 0 => sv.gentity)
    BY DEF SentAs
  <1>5. /\ Frame(list) \in [first : Nat, num : 0..Cardinality(Numbers)]
        /\ Frame(list).num = Len(list)
        /\ Len(list) > 0 => Frame(list).first = sv.next
    <2>1. CASE sv.gentity
      BY <1>4, <2>1, SvFields DEF Frame
    <2>2. CASE ~sv.gentity
      <3>1. Len(list) = 0
        BY <1>4, <2>2
      <3>2. Frame(list) = [frames[s] EXCEPT !.num = 0]
        BY <2>2 DEF Frame
      <3> HIDE DEF s
      <3> QED BY SMTT(30), <1>2, <3>1, <3>2, Constants
    <2> QED BY <2>1, <2>2
  <1> DEFINE v == Frame(list)
             F == [first : Nat, num : 0..Cardinality(Numbers)]
  <1>6. frames' = [frames EXCEPT ![s] = v]
    BY DEF SentAs
  <1>60. v \in F
    BY <1>5
  <1> HIDE DEF s, v
  <1>7. frames' \in [0..PACKET_BACKUP - 1 -> F] /\ frames'[s] = v
    <2> HIDE DEF F
    <2>1. frames \in [0..PACKET_BACKUP - 1 -> F]
      BY <1>3 DEF F
    <2> QED BY ONLY <1>1, <1>6, <1>60, <2>1
  <1>8. ASSUME NEW n \in Int, Slot(n) # s PROVE frames'[Slot(n)] = frames[Slot(n)]
    <2>1. Slot(n) \in 0..PACKET_BACKUP - 1
      BY SlotInRing
    <2> QED BY <1>3, <1>6, <1>8, <2>1
  <1>9. frames'[s].num = Len(list) /\ (Len(list) > 0 => frames'[s].first = sv.next)
    BY <1>5, <1>7 DEF v
  <1> QED BY <1>7, <1>8, <1>9, Zenon DEF s

LEMMA SentMeant ==
    ASSUME MeantInv, NEW list, NEW base, NEW m, SentAs(list, base, m)
    PROVE  /\ MeantInv'
           /\ meant'[sv.outgoing] = list
           /\ \A n \in 1..MaxSequence : n # sv.outgoing => meant'[n] = meant[n]
  <1>1. meant' = [meant EXCEPT ![sv.outgoing] = list] /\ sv.outgoing \in 1..MaxSequence
        /\ list \in Seq(EntityState) /\ Len(list) \in 0..Cardinality(Numbers)
        /\ \A j, k \in 1..Len(list) : j < k => list[j][1] < list[k][1]
    BY DEF SentAs
  <1>2. meant \in [1..MaxSequence -> Seq(EntityState)]
    BY DEF MeantInv
  <1>3. meant'[sv.outgoing] = list /\ \A n \in 1..MaxSequence : n # sv.outgoing => meant'[n] = meant[n]
    BY <1>1, <1>2
  <1>4. meant' \in [1..MaxSequence -> Seq(EntityState)]
    BY <1>1, <1>2
  <1>5. ASSUME NEW n \in 1..MaxSequence
        PROVE  /\ Len(meant'[n]) <= Cardinality(Numbers)
               /\ \A j, k \in 1..Len(meant'[n]) : j < k => meant'[n][j][1] < meant'[n][k][1]
    <2>1. CASE n = sv.outgoing
      BY <1>1, <1>3, <2>1, Constants
    <2>2. CASE n # sv.outgoing
      BY <1>3, <2>2 DEF MeantInv
    <2> QED BY <2>1, <2>2
  <1> QED BY <1>3, <1>4, <1>5 DEF MeantInv

LEMMA ReadNone ==
    ASSUME NEW ring, NEW first
    PROVE  ReadFrom(ring, first, 0) = <<>>
  BY DEF ReadFrom

\* A snapshot's entities are read back as they were written.
LEMMA SentRead ==
    ASSUME TypeInv, NEW list, NEW base, NEW m, SentAs(list, base, m)
    PROVE  /\ snapshotEntities' \in [0..RingSize - 1 -> Entity]
           /\ Len(list) \in Nat /\ list \in Seq(Entity)
           /\ ReadFrom(snapshotEntities', frames'[Slot(sv.outgoing)].first,
                       frames'[Slot(sv.outgoing)].num) = list
           /\ m.new = list
  <1>1. list \in Seq(EntityState) /\ Len(list) \in 0..Cardinality(Numbers)
        /\ snapshotEntities' = Written(snapshotEntities, sv.next, list)
        /\ m.new = ReadFrom(snapshotEntities', frames'[Slot(sv.outgoing)].first,
                            frames'[Slot(sv.outgoing)].num)
    BY DEF SentAs
  <1>2. list \in Seq(Entity) /\ Len(list) \in Nat /\ Len(list) <= RingSize
    <2>1. EntityState \subseteq Entity
      BY DEF EntityState, Entity
    <2>2. list \in Seq(Entity)
      BY <1>1, <2>1
    <2> QED BY <1>1, <2>2, Constants
  <1>3. snapshotEntities \in [0..RingSize - 1 -> Entity] /\ sv.next \in Nat
        /\ DOMAIN snapshotEntities = 0..RingSize - 1 /\ RingSize \in Nat \ {0}
    BY Shapes, SvFields, Constants
  <1>4. snapshotEntities' \in [0..RingSize - 1 -> Entity]
    <2> DEFINE next == sv.next
               size == RingSize
    <2>1. next \in Nat /\ size \in Nat \ {0} /\ snapshotEntities \in [0..size - 1 -> Entity]
      BY <1>3
    <2> HIDE DEF next, size
    <2>2. Written(snapshotEntities, next, list) \in [0..size - 1 -> Entity]
      BY ONLY <1>2, <2>1, WrittenType
    <2> QED BY <1>1, <2>2 DEF next, size
  <1>5. frames'[Slot(sv.outgoing)].num = Len(list)
        /\ (Len(list) > 0 => frames'[Slot(sv.outgoing)].first = sv.next)
    BY SentFrames
  <1>6. ReadFrom(snapshotEntities', frames'[Slot(sv.outgoing)].first,
                 frames'[Slot(sv.outgoing)].num) = list
    <2>1. CASE Len(list) = 0
      <3>1. list = <<>>
        BY <1>2, <2>1
      <3> QED BY <1>5, <2>1, <3>1, ReadNone
    <2>2. CASE Len(list) # 0
      <3> DEFINE next == sv.next
                 size == RingSize
      <3>1. next \in Nat /\ size \in Nat \ {0} /\ DOMAIN snapshotEntities = 0..size - 1
            /\ Len(list) <= size
        BY <1>2, <1>3
      <3> HIDE DEF next, size
      <3>2. ReadFrom(Written(snapshotEntities, next, list), next, Len(list)) = list
        BY ONLY <1>2, <3>1, ReadBack
      <3>3. ReadFrom(snapshotEntities', sv.next, Len(list)) = list
        BY <1>1, <3>2 DEF next
      <3>4. Len(list) > 0
        BY <1>2, <2>2
      <3> QED BY <1>5, <3>3, <3>4
    <2> QED BY <2>1, <2>2
  <1> QED BY <1>1, <1>2, <1>4, <1>6

LEMMA SentBuilds ==
    ASSUME TypeInv, MeantInv, NEW list, NEW base, NEW m, SentAs(list, base, m),
           NEW n \in 1..MaxSequence, n = sv.outgoing \/ Built(n)
    PROVE  Built(n)'
  <1>1. sv.outgoing \in 1..MaxSequence /\ sv.outgoing \in Int
        /\ snapshotEntities' = Written(snapshotEntities, sv.next, list)
    BY SvFields DEF SentAs
  <1>2. sv'.outgoing = sv.outgoing + 1 /\ sv'.next = sv.next + Len(list)
    BY SentFields
  <1>3. n \in Int /\ PACKET_BACKUP \in Int
    BY Constants
  <1>4. Len(list) \in Nat
    BY SentRead
  <1>5. CASE n = sv.outgoing
    <2> DEFINE fr == frames'[Slot(n)]
    <2>1. fr.num = Len(list) /\ (Len(list) > 0 => fr.first = sv.next)
          /\ ReadFrom(snapshotEntities', fr.first, fr.num) = list
      BY <1>5, SentFrames, SentRead
    <2>2. meant'[n] = list
      BY <1>5, SentMeant
    <2>3. n \in 1..sv'.outgoing - 1
      BY <1>1, <1>2, <1>5
    <2>4. fr.num > 0 => fr.first + fr.num <= sv'.next
      BY <1>2, <1>4, <2>1, SvFields
    <2> QED BY <2>1, <2>2, <2>3, <2>4 DEF Built
  <1>6. CASE n # sv.outgoing
    <2>1. Built(n) /\ n < sv.outgoing
      BY <1>1, <1>3, <1>6 DEF Built
    <2>2. meant'[n] = meant[n]
      BY <1>6, SentMeant
    <2>3. ASSUME sv'.outgoing - n < PACKET_BACKUP
          PROVE  frames'[Slot(n)] = frames[Slot(n)]
      <3> DEFINE a == sv.outgoing
      <3>1. a \in Int /\ a - n < PACKET_BACKUP /\ n - a < PACKET_BACKUP /\ n # a
        BY <1>1, <1>2, <1>3, <2>1, <2>3, Constants
      <3> HIDE DEF a
      <3>2. Slot(a) # Slot(n)
        BY ONLY <1>3, <3>1, SlotsDiffer
      <3> QED BY <1>3, <3>2, SentFrames DEF a
    <2>4. sv'.outgoing \in Int /\ sv.outgoing <= sv'.outgoing
      BY <1>1, <1>2
    <2> QED BY <1>1, <1>2, <1>3, <1>4, <2>1, <2>2, <2>3, <2>4, BuiltKept
  <1> QED BY <1>5, <1>6

\* The old states in a message are those of the base.
LEMMA SentDelta ==
    ASSUME TypeInv, MeantInv, NEW list, NEW base, NEW m, SentAs(list, base, m),
           base # 0, NEW b \in 1..MaxSequence, b = base, Built(b)
    PROVE  m.old = meant'[b] /\ meant'[b] = meant[b]
  <1> DEFINE fr == frames'[Slot(b)]
  <1>1. /\ sv.outgoing - b < PACKET_BACKUP - 3
        /\ fr.first > sv'.next - RingSize
        /\ m.old = ReadFrom(snapshotEntities', fr.first, fr.num)
    BY DEF SentAs
  <1>2. Built(b)'
    BY SentBuilds
  <1>3. sv'.outgoing = sv.outgoing + 1 /\ sv.outgoing \in Int /\ b \in Int /\ PACKET_BACKUP \in Int
    BY SentFields, SvFields, Constants
  <1>4. sv'.outgoing - b < PACKET_BACKUP
    BY <1>1, <1>3
  <1>5. /\ fr.num = Len(meant'[b])
        /\ fr.num > 0 => ReadFrom(snapshotEntities', fr.first, fr.num) = meant'[b]
    BY <1>1, <1>2, <1>4 DEF Built
  <1>6. meant'[b] \in Seq(EntityState) /\ Len(meant'[b]) \in Nat
    <2>1. meant' \in [1..MaxSequence -> Seq(EntityState)]
      BY SentMeant DEF MeantInv
    <2> QED BY <2>1
  <1>7. b # sv.outgoing
    BY <1>3 DEF Built
  <1>8. meant'[b] = meant[b]
    BY <1>7, SentMeant
  <1> HIDE DEF fr
  <1>9. CASE fr.num = 0
    <2>1. meant'[b] = <<>>
      <3> DEFINE x == meant'[b]
      <3>1. x \in Seq(EntityState) /\ Len(x) = 0
        BY <1>5, <1>6, <1>9
      <3> HIDE DEF x
      <3>2. x = <<>>
        BY <3>1
      <3> QED BY <3>2 DEF x
    <2> QED BY <1>1, <1>8, <1>9, <2>1, ReadNone
  <1>10. CASE fr.num # 0
    <2>1. fr.num > 0
      BY <1>5, <1>6, <1>10
    <2> QED BY <1>1, <1>5, <1>8, <2>1
  <1> QED BY <1>9, <1>10

LEMMA SentTypes ==
    ASSUME TypeInv, MeantInv, NEW list, NEW base, NEW m, SentAs(list, base, m)
    PROVE  TypeInv' /\ m \in Message
  <1>1. /\ m.kind \in {"snapshot", "empty"} /\ m.sequence = sv.outgoing /\ m.map = sv.map
        /\ m.base = base
        /\ base = 0 => m.old = <<>>
        /\ base # 0 => base = sv.deltaMessage /\ base > 0
        /\ base # 0 => m.old = ReadFrom(snapshotEntities', frames'[Slot(base)].first,
                                        frames'[Slot(base)].num)
        /\ m = [kind |-> m.kind, sequence |-> m.sequence, map |-> m.map, base |-> m.base,
                old |-> m.old, new |-> m.new]
        /\ sv.outgoing \in 1..MaxSequence
        /\ cl' = cl /\ snapshots' = snapshots /\ parseEntities' = parseEntities /\ up' = up
        /\ down' = Put(down, MaxDown, m)
    BY DEF SentAs
  <1>2. m.new \in Seq(Entity)
    BY SentRead
  <1>3. base \in Sequence
    <2>1. base = 0 \/ (base \in -1..MaxSequence /\ base > 0)
      BY <1>1, SvFields, Zenon
    <2>2. MaxSequence \in Nat
      BY Constants
    <2> QED BY ONLY <2>1, <2>2 DEF Sequence
  <1>4. m.old \in Seq(Entity)
    <2>1. CASE base = 0
      <3>1. m.old = <<>> /\ <<>> \in Seq(Entity)
        BY <1>1, <2>1
      <3> QED BY <3>1, Zenon
    <2>2. CASE base # 0
      <3> DEFINE fr == frames'[Slot(base)]
                 size == RingSize
      <3>1. base \in Int
        BY <1>3, Constants DEF Sequence
      <3>2. Slot(base) \in 0..PACKET_BACKUP - 1
        BY <3>1, SlotInRing
      <3>3. fr \in [first : Nat, num : 0..Cardinality(Numbers)]
        BY <3>2, SentFrames
      <3>4. fr.first \in Nat /\ fr.num \in Nat
        BY <3>3, Constants
      <3>5. snapshotEntities' \in [0..size - 1 -> Entity] /\ size \in Nat \ {0}
        BY SentRead, Constants
      <3> HIDE DEF fr, size
      <3>6. ReadFrom(snapshotEntities', fr.first, fr.num) \in Seq(Entity)
        <4> DEFINE ring == snapshotEntities'
                   first == fr.first
                   num == fr.num
        <4>1. ring \in [0..size - 1 -> Entity] /\ first \in Nat /\ num \in Nat
          BY <3>4, <3>5
        <4> HIDE DEF ring, first, num
        <4>2. ReadFrom(ring, first, num) \in Seq(Entity)
          BY ONLY <3>5, <4>1, ReadType
        <4> QED BY <4>2 DEF ring, first, num
      <3> QED BY <1>1, <2>2, <3>6 DEF fr
    <2> QED BY <2>1, <2>2
  <1>5. m \in Message
    <2>1. sv.map \in 1..MaxMaps
      BY SvFields
    <2> QED BY <1>1, <1>2, <1>3, <1>4, <2>1 DEF Message
  <1>6. down' \in Seq(Message) /\ Len(down') <= MaxDown
    BY <1>1, <1>5, DownPut
  <1>7. /\ snapshotEntities' \in [0..RingSize - 1 -> Entity]
        /\ frames' \in [0..PACKET_BACKUP - 1 -> [first : Nat, num : 0..Cardinality(Numbers)]]
        /\ sv' \in [map : 1..MaxMaps, state : {"connected", "primed", "active"},
               gentity : BOOLEAN, outgoing : 1..MaxSequence + 1,
               gamestateMessageNum : -1..MaxSequence, deltaMessage : -1..MaxSequence,
               next : Nat]
    BY SentRead, SentFrames, SentFields
  <1> QED BY <1>1, <1>5, <1>6, <1>7 DEF TypeInv, TypeOK

LEMMA SentOrder ==
    ASSUME TypeInv, MeantInv, OrderInv, NEW list, NEW base, NEW m, SentAs(list, base, m)
    PROVE  OrderInv'
  <1>1. m.sequence = sv.outgoing /\ m.map = sv.map /\ down' = Put(down, MaxDown, m)
        /\ cl' = cl /\ up' = up
    BY DEF SentAs
  <1>2. m \in Message
    BY SentTypes
  <1>3. sv'.outgoing = sv.outgoing + 1 /\ sv'.map = sv.map
        /\ sv'.gamestateMessageNum = sv.gamestateMessageNum
    BY SentFields
  <1>4. sv'.gamestateMessageNum \in Int /\ sv'.gamestateMessageNum < sv'.outgoing
    BY <1>3, SvFields DEF OrderInv
  <1>5. \A k \in DOMAIN up' : up'[k].ack <= cl.sequence /\ up'[k].map <= cl.serverId
    BY <1>1 DEF OrderInv
  <1> QED BY <1>1, <1>2, <1>3, <1>4, <1>5, PutOrder

LEMMA SentGamestates ==
    ASSUME TypeInv, MeantInv, GamestateInv, NEW list, NEW base, NEW m, SentAs(list, base, m)
    PROVE  GamestateInv'
  <1>1. m.kind # "gamestate" /\ down' = Put(down, MaxDown, m) /\ cl' = cl /\ up' = up
    BY DEF SentAs
  <1>2. m \in Message
    BY SentTypes
  <1>3. /\ sv'.map = sv.map /\ sv'.state = sv.state
        /\ sv'.gamestateMessageNum = sv.gamestateMessageNum
    BY SentFields
  <1> DEFINE n == Len(down')
  <1>4. PICK d \in {0, 1} : \A j \in DOMAIN down' :
            j # n => j + d \in DOMAIN down /\ down'[j] = down[j + d]
    BY <1>1, <1>2, DownPut
  <1>5. n \in Nat \ {0} /\ DOMAIN down' = 1..n /\ down'[n] = m
    BY <1>1, <1>2, DownPut
  <1> HIDE DEF n
  <1>6. ASSUME NEW k \in DOMAIN down', down'[k].kind = "gamestate"
        PROVE  /\ cl.serverId < down'[k].map
               /\ down'[k].map = sv.map => down'[k].sequence = sv.gamestateMessageNum
               /\ \A j \in DOMAIN down' :
                     down'[j].kind = "gamestate" /\ down'[j].map = down'[k].map => j = k
    <2>1. k # n
      BY <1>1, <1>5, <1>6
    <2>2. k + d \in DOMAIN down /\ down'[k] = down[k + d]
      BY <1>4, <2>1
    <2>3. ASSUME NEW j \in DOMAIN down',
                 down'[j].kind = "gamestate" /\ down'[j].map = down'[k].map
          PROVE  j = k
      <3>1. j # n
        BY <1>1, <1>5, <2>3
      <3>2. j + d \in DOMAIN down /\ down'[j] = down[j + d]
        BY <1>4, <3>1
      <3>3. j + d = k + d
        BY <1>6, <2>2, <2>3, <3>2 DEF GamestateInv
      <3> QED BY <1>5, <3>3
    <2> QED BY <1>6, <2>2, <2>3 DEF GamestateInv
  <1>7. cl.serverId = sv.map =>
            \A k \in DOMAIN up : up[k].map # sv.map => up[k].ack < sv.gamestateMessageNum
    BY DEF GamestateInv
  <1>8. sv.state = "active" => cl.serverId = sv.map
    BY DEF GamestateInv
  <1> QED BY <1>1, <1>3, <1>6, <1>7, <1>8 DEF GamestateInv

LEMMA SentBuiltInv ==
    ASSUME TypeInv, MeantInv, BuiltInv, NEW list, NEW base, NEW m, SentAs(list, base, m)
    PROVE  BuiltInv'
  <1>1. /\ m.kind # "gamestate" /\ m.sequence = sv.outgoing
        /\ down' = Put(down, MaxDown, m) /\ cl' = cl /\ up' = up
    BY DEF SentAs
  <1>2. m \in Message
    BY SentTypes
  <1>3. sv'.map = sv.map /\ sv'.state = sv.state /\ sv'.deltaMessage = sv.deltaMessage
    BY SentFields
  <1>4. PICK d \in {0, 1} : \A j \in DOMAIN down' :
            j # Len(down') => j + d \in DOMAIN down /\ down'[j] = down[j + d]
    BY <1>1, <1>2, DownPut
  <1>5. down'[Len(down')] = m
    BY <1>1, <1>2, DownPut
  <1>6. ASSUME NEW n \in 1..MaxSequence, NeedsBuilt(n)'
        PROVE  n = sv.outgoing \/ NeedsBuilt(n)
    <2>1. CASE sv'.state = "active" /\ sv'.deltaMessage = n
      BY <1>3, <2>1 DEF NeedsBuilt
    <2>2. CASE \E k \in DOMAIN up' : up'[k].delta /\ up'[k].map = sv'.map /\ up'[k].ack = n
      BY <1>1, <1>3, <2>2 DEF NeedsBuilt
    <2>3. CASE cl'.snapValid /\ cl'.serverId = sv'.map /\ cl'.snapNum = n
      BY <1>1, <1>3, <2>3 DEF NeedsBuilt
    <2>4. CASE \E k \in DOMAIN down' :
                  down'[k].kind # "gamestate" /\ down'[k].map = sv'.map /\ down'[k].sequence = n
      <3>1. PICK k \in DOMAIN down' :
                down'[k].kind # "gamestate" /\ down'[k].map = sv'.map /\ down'[k].sequence = n
        BY <2>4
      <3>2. CASE k = Len(down')
        BY <1>1, <1>5, <3>1, <3>2
      <3>3. CASE k # Len(down')
        <4>1. k + d \in DOMAIN down /\ down'[k] = down[k + d]
          BY <1>4, <3>3
        <4> QED BY <1>3, <3>1, <4>1 DEF NeedsBuilt
      <3> QED BY <3>2, <3>3
    <2> QED BY <1>6, <2>1, <2>2, <2>3, <2>4 DEF NeedsBuilt
  <1>7. ASSUME NEW n \in 1..MaxSequence, NeedsBuilt(n)'
        PROVE  Built(n)'
    <2>1. n = sv.outgoing \/ Built(n)
      BY <1>6, <1>7 DEF BuiltInv
    <2> QED BY <2>1, SentBuilds
  <1> QED BY <1>7 DEF BuiltInv

LEMMA SentHadInv ==
    ASSUME TypeInv, MeantInv, GamestateInv, HadInv,
           NEW list, NEW base, NEW m, SentAs(list, base, m)
    PROVE  HadInv'
  <1>1. /\ m.sequence = sv.outgoing /\ m.base = base /\ m.map = sv.map
        /\ down' = Put(down, MaxDown, m) /\ cl' = cl /\ up' = up /\ snapshots' = snapshots
        /\ base # 0 => /\ base = sv.deltaMessage /\ sv.state = "active"
                       /\ sv.outgoing - base < PACKET_BACKUP - 3
    BY DEF SentAs
  <1>2. m \in Message
    BY SentTypes
  <1>3. sv'.map = sv.map /\ sv'.state = sv.state /\ sv'.deltaMessage = sv.deltaMessage
    BY SentFields
  <1>4. PICK d \in {0, 1} : \A j \in DOMAIN down' :
            j # Len(down') => j + d \in DOMAIN down /\ down'[j] = down[j + d]
    BY <1>1, <1>2, DownPut
  <1>5. down'[Len(down')] = m
    BY <1>1, <1>2, DownPut
  <1>6. ASSUME NEW n \in 1..MaxSequence, NeedsHad(n)'
        PROVE  NeedsHad(n)
    <2>0. n # 0
      BY Constants
    <2>1. CASE sv'.state = "active" /\ sv'.deltaMessage = n
      BY <1>3, <2>1 DEF NeedsHad
    <2>2. CASE \E k \in DOMAIN up' : up'[k].delta /\ up'[k].map = cl'.serverId /\ up'[k].ack = n
      BY <1>1, <1>3, <2>2 DEF NeedsHad
    <2>3. CASE cl'.snapValid /\ cl'.snapNum = n
      BY <1>1, <2>3 DEF NeedsHad
    <2>4. CASE \E k \in DOMAIN down' : down'[k].base = n
      <3>1. PICK k \in DOMAIN down' : down'[k].base = n
        BY <2>4
      <3>2. CASE k = Len(down')
        BY <1>1, <1>5, <2>0, <3>1, <3>2 DEF NeedsHad
      <3>3. CASE k # Len(down')
        <4>1. k + d \in DOMAIN down /\ down'[k] = down[k + d]
          BY <1>4, <3>3
        <4> QED BY <3>1, <4>1 DEF NeedsHad
      <3> QED BY <3>2, <3>3
    <2> QED BY <1>6, <2>1, <2>2, <2>3, <2>4 DEF NeedsHad
  <1>7. ASSUME NEW n \in 1..MaxSequence, NeedsHad(n)'
        PROVE  Had(n)'
    <2>1. Had(n)
      BY <1>6, <1>7 DEF HadInv
    <2> QED BY <1>1, <2>1 DEF Had
  <1>8. ASSUME NEW k \in DOMAIN down', down'[k].base > 0
        PROVE  /\ down'[k].map = cl.serverId
               /\ down'[k].sequence - down'[k].base < PACKET_BACKUP - 3
    <2>1. CASE k = Len(down')
      <3>1. base # 0
        BY <1>1, <1>5, <1>8, <2>1
      <3>2. cl.serverId = sv.map
        BY <1>1, <3>1 DEF GamestateInv
      <3> QED BY <1>1, <1>5, <2>1, <3>1, <3>2
    <2>2. CASE k # Len(down')
      BY <1>4, <1>8, <2>2 DEF HadInv
    <2> QED BY <2>1, <2>2
  <1>9. \A k \in DOMAIN down' :
            down'[k].base > 0 => /\ down'[k].map = cl'.serverId
                                 /\ down'[k].sequence - down'[k].base < PACKET_BACKUP - 3
    BY <1>1, <1>8
  <1> QED BY <1>7, <1>9 DEF HadInv

LEMMA SentOldInv ==
    ASSUME TypeInv, MeantInv, OrderInv, BuiltInv, HadInv, OldInv,
           NEW list, NEW base, NEW m, SentAs(list, base, m)
    PROVE  OldInv'
  <1>1. /\ m.sequence = sv.outgoing /\ m.base = base
        /\ down' = Put(down, MaxDown, m)
        /\ base # 0 => base = sv.deltaMessage /\ base > 0 /\ sv.state = "active"
        /\ sv.outgoing \in 1..MaxSequence
    BY DEF SentAs
  <1>7. crowded' = IF base # 0 /\ (base \in crowded \/ Cardinality(Appearing(m)) >= ParseMargin)
                   THEN crowded \cup {sv.outgoing} ELSE crowded
    BY DEF SentAs
  <1>2. m \in Message
    BY SentTypes
  <1>4. PICK d \in {0, 1} : \A j \in DOMAIN down' :
            j # Len(down') => j + d \in DOMAIN down /\ down'[j] = down[j + d]
    BY <1>1, <1>2, DownPut
  <1>5. down'[Len(down')] = m
    BY <1>1, <1>2, DownPut
  <1>6. ASSUME NEW k \in DOMAIN down'
        PROVE  /\ down'[k].base > 0 => down'[k].old = meant'[down'[k].base]
               /\ down'[k].kind # "gamestate" => down'[k].new = meant'[down'[k].sequence]
               /\ down'[k].base > 0 /\ down'[k].sequence \notin crowded' =>
                     /\ down'[k].base \notin crowded'
                     /\ ~(Cardinality(Appearing(down'[k])) >= ParseMargin)
    <2>1. CASE k = Len(down')
      <3>1. m.new = list /\ meant'[sv.outgoing] = list
        BY SentRead, SentMeant
      <3>2. ASSUME m.base > 0 PROVE m.old = meant'[m.base]
        <4>1. base # 0 /\ sv.deltaMessage = base /\ sv.state = "active" /\ base > 0
          BY <1>1, <3>2
        <4>2. PICK b \in 1..MaxSequence : b = base
          BY <4>1, SvFields, Constants
        <4>3. NeedsBuilt(b)
          BY <4>1, <4>2 DEF NeedsBuilt
        <4>4. Built(b)
          BY <4>3 DEF BuiltInv
        <4>5. m.old = meant'[b]
          BY <4>1, <4>2, <4>4, SentDelta
        <4> QED BY <1>1, <4>2, <4>5
      <3>3. m.base > 0 /\ m.sequence \notin crowded' =>
               m.base \notin crowded' /\ ~(Cardinality(Appearing(m)) >= ParseMargin)
        BY <1>1, <1>7
      <3> QED BY <1>1, <1>5, <2>1, <3>1, <3>2, <3>3
    <2>2. CASE k # Len(down')
      <3>1. k + d \in DOMAIN down /\ down'[k] = down[k + d]
        BY <1>4, <2>2
      <3> DEFINE x == down[k + d]
      <3>2. /\ x.base > 0 => x.old = meant[x.base]
            /\ x.kind # "gamestate" => x.new = meant[x.sequence]
            /\ x.base > 0 /\ x.sequence \notin crowded =>
                  x.base \notin crowded /\ ~(Cardinality(Appearing(x)) >= ParseMargin)
        BY <3>1 DEF OldInv
      <3>3. x.sequence \in 1..MaxSequence /\ x.base \in 0..MaxSequence /\ x.sequence # sv.outgoing
        BY <3>1, DownFields, SvFields DEF OrderInv
      <3>4. x.base > 0 => x.base \in 1..MaxSequence /\ x.base # sv.outgoing
        <4>1. ASSUME x.base > 0 PROVE x.base \in 1..MaxSequence /\ x.base # sv.outgoing
          <5>1. PICK b \in 1..MaxSequence : b = x.base
            BY <3>3, <4>1, Constants
          <5>2. NeedsHad(b)
            BY <3>1, <5>1 DEF NeedsHad
          <5>3. b <= cl.snapNum
            BY <5>2, ClFields DEF HadInv, Had
          <5>4. cl.snapNum <= cl.sequence /\ cl.sequence < sv.outgoing
            BY DEF OrderInv
          <5> QED BY <5>1, <5>3, <5>4, ClFields, SvFields
        <4> QED BY <4>1
      <3>5. meant'[x.sequence] = meant[x.sequence] /\ (x.base > 0 => meant'[x.base] = meant[x.base])
        BY <3>3, <3>4, SentMeant
      <3> HIDE DEF x
      <3>6. down'[k] = x
        BY <3>1 DEF x
      <3>7. x.base > 0 /\ x.sequence \notin crowded' =>
               x.base \notin crowded' /\ ~(Cardinality(Appearing(x)) >= ParseMargin)
        BY <1>7, <3>2, <3>4
      <3> QED BY <3>2, <3>5, <3>6, <3>7
    <2> QED BY <2>1, <2>2
  <1> QED BY <1>6 DEF OldInv

LEMMA SentKeptInv ==
    ASSUME TypeInv, MeantInv, OrderInv, KeptInv,
           NEW list, NEW base, NEW m, SentAs(list, base, m)
    PROVE  KeptInv'
  <1>1. cl' = cl /\ snapshots' = snapshots /\ parseEntities' = parseEntities
        /\ \A n : n \in crowded => n \in crowded'
    BY DEF SentAs
  <1>2. ASSUME NEW s \in 0..PACKET_BACKUP - 1
        PROVE  Kept(s)'
    <2> DEFINE n == snapshots[s].messageNum
    <2>1. Kept(s)
      BY DEF KeptInv
    <2>2. snapshots[s].valid => n \in 1..MaxSequence /\ n # sv.outgoing
      <3>1. snapshots[s].valid => n \in 1..cl.snapNum
        BY <2>1 DEF Kept
      <3>2. cl.snapNum < sv.outgoing
        BY ClFields, SvFields DEF OrderInv
      <3> QED BY <3>1, <3>2, ClFields, SvFields, SnapFields, Constants
    <2>3. snapshots[s].valid => meant'[n] = meant[n]
      BY <2>2, SentMeant
    <2> QED BY <1>1, <2>1, <2>3 DEF Kept
  <1> QED BY <1>2 DEF KeptInv

LEMMA Send ==
    ASSUME IInv, NEW visible \in SUBSET Numbers, NEW overflowed \in BOOLEAN,
           SV_SendClientSnapshot(visible, overflowed)
    PROVE  IInv'
  <1>1. TypeInv /\ MeantInv /\ OrderInv /\ GamestateInv /\ BuiltInv /\ HadInv /\ OldInv /\ KeptInv
    BY DEF IInv
  <1>2. PICK list, base, m : SentAs(list, base, m)
    BY <1>1, Sending
  <1>3. TypeInv' /\ MeantInv' /\ OrderInv' /\ GamestateInv'
    BY <1>1, <1>2, SentTypes, SentMeant, SentOrder, SentGamestates
  <1>4. BuiltInv' /\ HadInv' /\ OldInv' /\ KeptInv'
    BY <1>1, <1>2, SentBuiltInv, SentHadInv, SentOldInv, SentKeptInv
  <1> QED BY <1>3, <1>4 DEF IInv

-----------------------------------------------------------------------------
(* Snapshots of other clients, and a new map. *)

LEMMA Other ==
    ASSUME IInv, OtherClientSnapshot
    PROVE  IInv'
  <1>1. TypeInv /\ MeantInv /\ OrderInv /\ GamestateInv /\ BuiltInv /\ HadInv /\ OldInv /\ KeptInv
    BY DEF IInv
  <1> DEFINE list == <<Blank>>
  <1>2. /\ snapshotEntities' = Written(snapshotEntities, sv.next, list)
        /\ sv' = [sv EXCEPT !.next = @ + 1]
        /\ frames' = frames /\ cl' = cl /\ snapshots' = snapshots
        /\ parseEntities' = parseEntities /\ down' = down /\ up' = up /\ meant' = meant /\ crowded' = crowded
    BY DEF OtherClientSnapshot
  <1>3. list \in Seq(Entity) /\ Len(list) = 1
    BY DEF Entity, Blank
  <1> HIDE DEF list
  <1>4. /\ sv'.next = sv.next + 1 /\ sv'.outgoing = sv.outgoing /\ sv'.map = sv.map
        /\ sv'.state = sv.state /\ sv'.deltaMessage = sv.deltaMessage
        /\ sv'.gamestateMessageNum = sv.gamestateMessageNum
        /\ sv' \in [map : 1..MaxMaps, state : {"connected", "primed", "active"},
               gentity : BOOLEAN, outgoing : 1..MaxSequence + 1,
               gamestateMessageNum : -1..MaxSequence, deltaMessage : -1..MaxSequence,
               next : Nat]
    <2>1. sv \in [map : 1..MaxMaps, state : {"connected", "primed", "active"},
               gentity : BOOLEAN, outgoing : 1..MaxSequence + 1,
               gamestateMessageNum : -1..MaxSequence, deltaMessage : -1..MaxSequence,
               next : Nat]
      BY <1>1 DEF TypeInv, TypeOK
    <2> DEFINE next == sv.next + 1
    <2>2. next \in Nat /\ sv' = [sv EXCEPT !.next = next]
      BY <1>1, <1>2, SvFields
    <2> HIDE DEF next
    <2>3. /\ sv'.next = next /\ sv'.outgoing = sv.outgoing /\ sv'.map = sv.map
          /\ sv'.state = sv.state /\ sv'.deltaMessage = sv.deltaMessage
          /\ sv'.gamestateMessageNum = sv.gamestateMessageNum
      BY <2>1, <2>2
    <2>4. sv' \in [map : 1..MaxMaps, state : {"connected", "primed", "active"},
               gentity : BOOLEAN, outgoing : 1..MaxSequence + 1,
               gamestateMessageNum : -1..MaxSequence, deltaMessage : -1..MaxSequence,
               next : Nat]
      BY <2>1, <2>2
    <2> QED BY <2>3, <2>4 DEF next
  <1>5. snapshotEntities' \in [0..RingSize - 1 -> Entity]
    <2> DEFINE next == sv.next
               size == RingSize
    <2>1. next \in Nat /\ size \in Nat \ {0} /\ snapshotEntities \in [0..size - 1 -> Entity]
      BY <1>1, Shapes, SvFields, Constants
    <2> HIDE DEF next, size
    <2>2. Written(snapshotEntities, next, list) \in [0..size - 1 -> Entity]
      BY ONLY <1>3, <2>1, WrittenType
    <2> QED BY <1>2, <2>2 DEF next, size
  <1>6. TypeInv'
    BY <1>1, <1>2, <1>4, <1>5 DEF TypeInv, TypeOK
  <1>7. MeantInv' /\ OldInv' /\ KeptInv'
    BY <1>1, <1>2 DEF MeantInv, OldInv, KeptInv, Kept
  <1>8. OrderInv' /\ GamestateInv'
    BY <1>1, <1>2, <1>4 DEF OrderInv, GamestateInv
  <1>9. BuiltInv'
    <2>1. ASSUME NEW n \in 1..MaxSequence, NeedsBuilt(n)' PROVE Built(n)'
      <3>1. NeedsBuilt(n)
        BY <1>2, <1>4, <2>1 DEF NeedsBuilt
      <3>2. Built(n)
        BY <1>1, <3>1 DEF BuiltInv
      <3>3. /\ n \in Int /\ Len(list) \in Nat /\ sv'.next = sv.next + Len(list)
            /\ snapshotEntities' = Written(snapshotEntities, sv.next, list)
            /\ sv'.outgoing \in Int /\ sv.outgoing <= sv'.outgoing
            /\ frames'[Slot(n)] = frames[Slot(n)] /\ meant'[n] = meant[n]
        BY <1>1, <1>2, <1>3, <1>4, SvFields
      <3> QED BY <1>1, <3>2, <3>3, BuiltKept
    <2> QED BY <2>1 DEF BuiltInv
  <1>10. HadInv'
    <2>1. ASSUME NEW n \in 1..MaxSequence, NeedsHad(n)' PROVE Had(n)'
      <3>1. NeedsHad(n)
        BY <1>2, <1>4, <2>1 DEF NeedsHad
      <3> QED BY <1>1, <1>2, <3>1 DEF HadInv, Had
    <2>2. \A k \in DOMAIN down' :
              down'[k].base > 0 => /\ down'[k].map = cl'.serverId
                                   /\ down'[k].sequence - down'[k].base < PACKET_BACKUP - 3
      BY <1>1, <1>2 DEF HadInv
    <2> QED BY <2>1, <2>2 DEF HadInv
  <1> QED BY <1>6, <1>7, <1>8, <1>9, <1>10 DEF IInv

\* On a new map nothing that is known of the server's snapshots counts.
LEMMA Spawn ==
    ASSUME IInv, SV_SpawnServer
    PROVE  IInv'
  <1>1. TypeInv /\ MeantInv /\ OrderInv /\ GamestateInv /\ BuiltInv /\ HadInv /\ OldInv /\ KeptInv
    BY DEF IInv
  <1>2. /\ sv.map < MaxMaps
        /\ sv' = [sv EXCEPT !.map = @ + 1, !.state = "connected", !.gentity = FALSE, !.next = 0]
        /\ snapshotEntities' = [i \in DOMAIN snapshotEntities |-> Blank]
        /\ frames' = frames /\ cl' = cl /\ snapshots' = snapshots
        /\ parseEntities' = parseEntities /\ down' = down /\ up' = up /\ meant' = meant /\ crowded' = crowded
    BY DEF SV_SpawnServer
  <1>3. sv.map + 1 \in 1..MaxMaps /\ sv.map \in Int
    BY <1>1, <1>2, SvFields, Constants
  <1>4. /\ sv'.outgoing = sv.outgoing /\ sv'.map = sv.map + 1
        /\ sv'.state = "connected"
        /\ sv'.gamestateMessageNum = sv.gamestateMessageNum
        /\ sv' \in [map : 1..MaxMaps, state : {"connected", "primed", "active"},
               gentity : BOOLEAN, outgoing : 1..MaxSequence + 1,
               gamestateMessageNum : -1..MaxSequence, deltaMessage : -1..MaxSequence,
               next : Nat]
    <2>1. sv \in [map : 1..MaxMaps, state : {"connected", "primed", "active"},
               gentity : BOOLEAN, outgoing : 1..MaxSequence + 1,
               gamestateMessageNum : -1..MaxSequence, deltaMessage : -1..MaxSequence,
               next : Nat]
      BY <1>1 DEF TypeInv, TypeOK
    <2> DEFINE map == sv.map + 1
    <2>2. map \in 1..MaxMaps /\ sv' = [sv EXCEPT !.map = map, !.state = "connected",
                                                 !.gentity = FALSE, !.next = 0]
      BY <1>2, <1>3
    <2> HIDE DEF map
    <2>3. /\ sv'.outgoing = sv.outgoing /\ sv'.map = map
          /\ sv'.state = "connected"
          /\ sv'.gamestateMessageNum = sv.gamestateMessageNum
      BY <2>1, <2>2
    <2>4. sv' \in [map : 1..MaxMaps, state : {"connected", "primed", "active"},
               gentity : BOOLEAN, outgoing : 1..MaxSequence + 1,
               gamestateMessageNum : -1..MaxSequence, deltaMessage : -1..MaxSequence,
               next : Nat]
      BY <2>1, <2>2
    <2> QED BY <2>3, <2>4 DEF map
  <1>5. snapshotEntities' \in [0..RingSize - 1 -> Entity]
    <2>1. snapshotEntities \in [0..RingSize - 1 -> Entity] /\ Blank \in Entity
      BY <1>1, Shapes DEF Entity, Blank
    <2> QED BY <1>2, <2>1
  <1>6. TypeInv'
    BY <1>1, <1>2, <1>4, <1>5 DEF TypeInv, TypeOK
  <1>7. MeantInv' /\ OldInv' /\ KeptInv'
    BY <1>1, <1>2 DEF MeantInv, OldInv, KeptInv, Kept
  <1>8. \A k \in DOMAIN down : down[k].map <= sv.map /\ down[k].map \in Int
    BY <1>1, DownFields DEF OrderInv
  <1>9. cl.serverId <= sv.map /\ cl.serverId \in Int
    BY <1>1, ClFields DEF OrderInv
  <1>10. \A k \in DOMAIN up : up[k].map <= cl.serverId /\ up[k].map \in Int
    BY <1>1, UpFields DEF OrderInv
  <1>11. OrderInv'
    <2>1. \A k \in DOMAIN down : down[k].map <= sv'.map
      BY <1>3, <1>4, <1>8
    <2>2. cl.serverId <= sv'.map
      BY <1>3, <1>4, <1>9
    <2> QED BY <1>1, <1>2, <1>4, <2>1, <2>2 DEF OrderInv
  <1>12. /\ \A k \in DOMAIN down : down[k].map # sv'.map
         /\ \A k \in DOMAIN up : up[k].map # sv'.map
         /\ cl.serverId # sv'.map
    BY <1>3, <1>4, <1>8, <1>9, <1>10
  <1>13. GamestateInv'
    BY <1>1, <1>2, <1>4, <1>12 DEF GamestateInv
  <1>14. BuiltInv'
    <2>1. ASSUME NEW n \in 1..MaxSequence, NeedsBuilt(n)' PROVE FALSE
      BY <1>2, <1>4, <1>12, <2>1 DEF NeedsBuilt
    <2> QED BY <2>1 DEF BuiltInv
  <1>15. HadInv'
    <2>1. ASSUME NEW n \in 1..MaxSequence, NeedsHad(n)' PROVE Had(n)'
      <3>1. NeedsHad(n)
        BY <1>2, <1>4, <2>1 DEF NeedsHad
      <3> QED BY <1>1, <1>2, <3>1 DEF HadInv, Had
    <2>2. \A k \in DOMAIN down' :
              down'[k].base > 0 => /\ down'[k].map = cl'.serverId
                                   /\ down'[k].sequence - down'[k].base < PACKET_BACKUP - 3
      BY <1>1, <1>2 DEF HadInv
    <2> QED BY <2>1, <2>2 DEF HadInv
  <1> QED BY <1>6, <1>7, <1>11, <1>13, <1>14, <1>15 DEF IInv

-----------------------------------------------------------------------------
(* SV_ExecuteClientMessage. *)

\* Packets left when one is taken were there before.
LEMMA UpRest ==
    ASSUME TypeInv, NEW k \in DOMAIN up, up' = Rest(up, k)
    PROVE  /\ up' \in Seq(Packet) /\ Len(up') <= MaxUp
           /\ \A j \in DOMAIN up' : \E i \in DOMAIN up : up'[j] = up[i]
  <1>1. up \in Seq(Packet) /\ k \in 1..Len(up) /\ Len(up) \in Nat /\ Len(up) <= MaxUp
        /\ MaxUp \in Nat
    BY Shapes, Constants
  <1>2. PICK i \in 1..Len(up) : i = k
    BY <1>1
  <1> DEFINE r == Rest(up, i)
  <1>6. /\ r \in Seq(Packet) /\ Len(r) = Len(up) - i
        /\ \A j \in 1..Len(r) : i + j \in 1..Len(up) /\ r[j] = up[i + j]
    BY <1>1, RestIs
  <1>3. /\ up' \in Seq(Packet) /\ Len(up') = Len(up) - k
        /\ \A j \in 1..Len(up') : k + j \in 1..Len(up) /\ up'[j] = up[k + j]
    BY <1>2, <1>6
  <1>4. DOMAIN up' = 1..Len(up') /\ DOMAIN up = 1..Len(up)
    BY <1>1, <1>3
  <1>5. Len(up') <= MaxUp
    BY <1>1, <1>3
  <1> QED BY <1>3, <1>4, <1>5

LEMMA Move ==
    ASSUME IInv, NEW k \in DOMAIN up, up' = Rest(up, k),
           up[k].map = sv.map, sv' = SV_UserMove(up[k]), down' = down,
           frames' = frames, snapshotEntities' = snapshotEntities, cl' = cl,
           snapshots' = snapshots, parseEntities' = parseEntities, meant' = meant, crowded' = crowded
    PROVE  IInv'
  <1>1. TypeInv /\ MeantInv /\ OrderInv /\ GamestateInv /\ BuiltInv /\ HadInv /\ OldInv /\ KeptInv
    BY DEF IInv
  <1> DEFINE p == up[k]
  <1>2. p.map \in Int /\ p.ack \in 0..MaxSequence /\ p.ack \in Nat /\ p.delta \in BOOLEAN
    BY <1>1, UpFields
  <1>3. /\ up' \in Seq(Packet) /\ Len(up') <= MaxUp
        /\ \A j \in DOMAIN up' : \E i \in DOMAIN up : up'[j] = up[i]
    BY <1>1, UpRest
  <1>4. cl.serverId = sv.map
    <2>1. p.map <= cl.serverId /\ cl.serverId <= sv.map
      BY <1>1 DEF OrderInv
    <2> QED BY <1>1, <1>2, <2>1, ClFields, SvFields
  <1>5. /\ sv'.outgoing = sv.outgoing /\ sv'.map = sv.map /\ sv'.next = sv.next
        /\ sv'.gamestateMessageNum = sv.gamestateMessageNum
        /\ sv'.deltaMessage = -1 \/ (p.delta /\ sv'.deltaMessage = p.ack)
    BY <1>1, SvFields DEF SV_UserMove, TypeInv, TypeOK
  <1>6. sv' \in [map : 1..MaxMaps, state : {"connected", "primed", "active"},
               gentity : BOOLEAN, outgoing : 1..MaxSequence + 1,
               gamestateMessageNum : -1..MaxSequence, deltaMessage : -1..MaxSequence,
               next : Nat]
    <2>1. sv \in [map : 1..MaxMaps, state : {"connected", "primed", "active"},
               gentity : BOOLEAN, outgoing : 1..MaxSequence + 1,
               gamestateMessageNum : -1..MaxSequence, deltaMessage : -1..MaxSequence,
               next : Nat]
      BY <1>1 DEF TypeInv, TypeOK
    <2> DEFINE delta == IF p.delta /\ sv.state = "active" THEN p.ack ELSE -1
               state == IF sv.state = "primed" THEN "active" ELSE sv.state
               gentity == sv.gentity \/ sv.state = "primed"
    <2>2. delta \in -1..MaxSequence
      BY <1>2, Constants
    <2>3. state \in {"connected", "primed", "active"} /\ gentity \in BOOLEAN
      BY <1>1, SvFields
    <2>4. sv' = [sv EXCEPT !.deltaMessage = delta, !.state = state, !.gentity = gentity]
      BY DEF SV_UserMove
    <2> HIDE DEF delta, state, gentity
    <2> QED BY <2>1, <2>2, <2>3, <2>4
  <1> HIDE DEF p
  <1>7. TypeInv'
    BY <1>1, <1>3, <1>6 DEF TypeInv, TypeOK
  <1>8. MeantInv' /\ OldInv' /\ KeptInv'
    BY <1>1 DEF MeantInv, OldInv, KeptInv, Kept
  <1>9. OrderInv'
    BY <1>1, <1>3, <1>5 DEF OrderInv
  <1>10. GamestateInv'
    BY <1>1, <1>3, <1>4, <1>5 DEF GamestateInv
  <1>11. BuiltInv'
    <2>1. ASSUME NEW n \in 1..MaxSequence, NeedsBuilt(n)' PROVE Built(n)'
      <3>1. NeedsBuilt(n)
        <4>1. CASE sv'.state = "active" /\ sv'.deltaMessage = n
          <5>1. n # -1
            BY Constants
          <5>2. p.delta /\ p.ack = n
            BY <1>5, <4>1, <5>1
          <5> QED BY <5>2 DEF NeedsBuilt, p
        <4>2. CASE \E j \in DOMAIN up' : up'[j].delta /\ up'[j].map = sv'.map /\ up'[j].ack = n
          BY <1>3, <1>5, <4>2 DEF NeedsBuilt
        <4>3. CASE cl'.snapValid /\ cl'.serverId = sv'.map /\ cl'.snapNum = n
          BY <1>5, <4>3 DEF NeedsBuilt
        <4>4. CASE \E j \in DOMAIN down' :
                      down'[j].kind # "gamestate" /\ down'[j].map = sv'.map /\ down'[j].sequence = n
          BY <1>5, <4>4 DEF NeedsBuilt
        <4> QED BY <2>1, <4>1, <4>2, <4>3, <4>4 DEF NeedsBuilt
      <3>2. Built(n)
        BY <1>1, <3>1 DEF BuiltInv
      <3> QED BY <1>5, <3>2 DEF Built
    <2> QED BY <2>1 DEF BuiltInv
  <1>12. HadInv'
    <2>1. ASSUME NEW n \in 1..MaxSequence, NeedsHad(n)' PROVE Had(n)'
      <3>1. NeedsHad(n)
        <4>1. CASE sv'.state = "active" /\ sv'.deltaMessage = n
          <5>1. n # -1
            BY Constants
          <5>2. p.delta /\ p.ack = n /\ p.map = cl.serverId
            BY <1>4, <1>5, <4>1, <5>1 DEF p
          <5> QED BY <5>2 DEF NeedsHad, p
        <4>2. CASE \E j \in DOMAIN up' : up'[j].delta /\ up'[j].map = cl'.serverId /\ up'[j].ack = n
          BY <1>3, <4>2 DEF NeedsHad
        <4>3. CASE cl'.snapValid /\ cl'.snapNum = n
          BY <4>3 DEF NeedsHad
        <4>4. CASE \E j \in DOMAIN down' : down'[j].base = n
          BY <4>4 DEF NeedsHad
        <4> QED BY <2>1, <4>1, <4>2, <4>3, <4>4 DEF NeedsHad
      <3> QED BY <1>1, <3>1 DEF HadInv, Had
    <2>2. \A j \in DOMAIN down' :
              down'[j].base > 0 => /\ down'[j].map = cl'.serverId
                                   /\ down'[j].sequence - down'[j].base < PACKET_BACKUP - 3
      BY <1>1 DEF HadInv
    <2> QED BY <2>1, <2>2 DEF HadInv
  <1> QED BY <1>7, <1>8, <1>9, <1>10, <1>11, <1>12 DEF IInv

\* The gamestate is sent when none for this map can be under way or taken: the
\* client acknowledges something later, and is still on another map.
LEMMA Gamestate ==
    ASSUME IInv, NEW k \in DOMAIN up, up' = Rest(up, k),
           up[k].map # sv.map, up[k].ack > sv.gamestateMessageNum, SV_SendClientGameState,
           frames' = frames, snapshotEntities' = snapshotEntities, cl' = cl,
           snapshots' = snapshots, parseEntities' = parseEntities, meant' = meant, crowded' = crowded
    PROVE  IInv'
  <1>1. TypeInv /\ MeantInv /\ OrderInv /\ GamestateInv /\ BuiltInv /\ HadInv /\ OldInv /\ KeptInv
    BY DEF IInv
  <1> DEFINE m == [kind |-> "gamestate", sequence |-> sv.outgoing, map |-> sv.map,
                   base |-> 0, old |-> <<>>, new |-> <<>>]
  <1>2. /\ sv.outgoing <= MaxSequence
        /\ sv' = [sv EXCEPT !.state = "primed", !.gamestateMessageNum = sv.outgoing,
                            !.outgoing = @ + 1]
        /\ down' = Put(down, MaxDown, m)
    BY DEF SV_SendClientGameState
  <1>3. sv.outgoing \in 1..MaxSequence /\ sv.outgoing \in Int /\ sv.outgoing + 1 \in 1..MaxSequence + 1
        /\ sv.outgoing \in -1..MaxSequence
    <2>1. sv.outgoing <= MaxSequence /\ sv.outgoing \in 1..MaxSequence + 1 /\ MaxSequence \in Nat
      BY <1>1, <1>2, SvFields, Constants
    <2> QED BY ONLY <2>1
  <1>4. m \in Message
    BY <1>1, <1>3, SvFields, Constants DEF Message, Sequence
  <1>5. m.kind = "gamestate" /\ m.sequence = sv.outgoing /\ m.map = sv.map /\ m.base = 0
    OBVIOUS
  <1> HIDE DEF m
  <1>6. /\ up' \in Seq(Packet) /\ Len(up') <= MaxUp
        /\ \A j \in DOMAIN up' : \E i \in DOMAIN up : up'[j] = up[i]
    BY <1>1, UpRest
  <1>7. /\ sv'.outgoing = sv.outgoing + 1 /\ sv'.map = sv.map /\ sv'.next = sv.next
        /\ sv'.gamestateMessageNum = sv.outgoing /\ sv'.state = "primed"
        /\ sv' \in [map : 1..MaxMaps, state : {"connected", "primed", "active"},
               gentity : BOOLEAN, outgoing : 1..MaxSequence + 1,
               gamestateMessageNum : -1..MaxSequence, deltaMessage : -1..MaxSequence,
               next : Nat]
    <2>1. sv \in [map : 1..MaxMaps, state : {"connected", "primed", "active"},
               gentity : BOOLEAN, outgoing : 1..MaxSequence + 1,
               gamestateMessageNum : -1..MaxSequence, deltaMessage : -1..MaxSequence,
               next : Nat]
      BY <1>1 DEF TypeInv, TypeOK
    <2> DEFINE o == sv.outgoing
               n == sv.outgoing + 1
    <2>2. o \in -1..MaxSequence /\ n \in 1..MaxSequence + 1
          /\ sv' = [sv EXCEPT !.state = "primed", !.gamestateMessageNum = o, !.outgoing = n]
      BY <1>2, <1>3
    <2> HIDE DEF o, n
    <2>3. /\ sv'.outgoing = n /\ sv'.map = sv.map /\ sv'.next = sv.next
          /\ sv'.gamestateMessageNum = o /\ sv'.state = "primed"
      BY <2>1, <2>2
    <2>4. sv' \in [map : 1..MaxMaps, state : {"connected", "primed", "active"},
               gentity : BOOLEAN, outgoing : 1..MaxSequence + 1,
               gamestateMessageNum : -1..MaxSequence, deltaMessage : -1..MaxSequence,
               next : Nat]
      BY <2>1, <2>2
    <2> QED BY <2>3, <2>4 DEF o, n
  <1>8. cl.serverId < sv.map
    <2>1. cl.serverId # sv.map
      <3>1. cl.serverId = sv.map => up[k].ack < sv.gamestateMessageNum
        BY <1>1 DEF GamestateInv
      <3> QED BY <1>1, <3>1, UpFields, SvFields
    <2>2. cl.serverId <= sv.map
      BY <1>1 DEF OrderInv
    <2> QED BY <1>1, <2>1, <2>2, SvFields, ClFields
  <1>9. \A j \in DOMAIN down : down[j].kind = "gamestate" => down[j].map # sv.map
    <2>1. ASSUME NEW j \in DOMAIN down, down[j].kind = "gamestate", down[j].map = sv.map
          PROVE  FALSE
      <3>1. down[j].sequence = sv.gamestateMessageNum
        BY <1>1, <2>1 DEF GamestateInv
      <3>2. cl.sequence < down[j].sequence /\ up[k].ack <= cl.sequence
        BY <1>1 DEF OrderInv
      <3> QED BY SMTT(30), <1>1, <3>1, <3>2, DownFields, UpFields, SvFields, ClFields
    <2> QED BY <2>1
  <1> DEFINE n == Len(down')
  <1>10. PICK d \in {0, 1} : \A j \in DOMAIN down' :
            j # n => j + d \in DOMAIN down /\ down'[j] = down[j + d]
    BY <1>1, <1>2, <1>4, DownPut
  <1>11. /\ down' \in Seq(Message) /\ Len(down') <= MaxDown
         /\ n \in Nat \ {0} /\ DOMAIN down' = 1..n /\ down'[n] = m
    BY <1>1, <1>2, <1>4, DownPut
  <1> HIDE DEF n
  <1>12. TypeInv'
    BY <1>1, <1>6, <1>7, <1>11 DEF TypeInv, TypeOK
  <1>13. MeantInv' /\ KeptInv'
    BY <1>1 DEF MeantInv, KeptInv, Kept
  <1>14. OrderInv'
    <2>1. \A j \in DOMAIN up' : up'[j].ack <= cl.sequence /\ up'[j].map <= cl.serverId
      BY <1>1, <1>6 DEF OrderInv
    <2>2. sv'.gamestateMessageNum \in Int /\ sv'.gamestateMessageNum < sv'.outgoing
      BY <1>3, <1>7
    <2> QED BY <1>1, <1>2, <1>4, <1>5, <1>7, <2>1, <2>2, PutOrder
  <1>15. GamestateInv'
    <2>1. ASSUME NEW j \in DOMAIN down', down'[j].kind = "gamestate"
          PROVE  /\ cl.serverId < down'[j].map
                 /\ down'[j].map = sv.map => down'[j].sequence = sv.outgoing
                 /\ \A i \in DOMAIN down' :
                       down'[i].kind = "gamestate" /\ down'[i].map = down'[j].map => i = j
      <3>1. CASE j = n
        <4>1. ASSUME NEW i \in DOMAIN down',
                     down'[i].kind = "gamestate" /\ down'[i].map = down'[j].map, i # n
              PROVE  FALSE
          <5>1. i + d \in DOMAIN down /\ down'[i] = down[i + d]
            BY <1>10, <4>1
          <5> QED BY <1>5, <1>9, <1>11, <3>1, <4>1, <5>1
        <4> QED BY <1>5, <1>8, <1>11, <3>1, <4>1
      <3>2. CASE j # n
        <4>1. j + d \in DOMAIN down /\ down'[j] = down[j + d]
          BY <1>10, <3>2
        <4>2. down'[j].map # sv.map /\ cl.serverId < down'[j].map
          BY <1>1, <1>9, <2>1, <4>1 DEF GamestateInv
        <4>3. ASSUME NEW i \in DOMAIN down',
                     down'[i].kind = "gamestate" /\ down'[i].map = down'[j].map
              PROVE  i = j
          <5>1. i # n
            BY <1>5, <1>11, <4>2, <4>3
          <5>2. i + d \in DOMAIN down /\ down'[i] = down[i + d]
            BY <1>10, <5>1
          <5>3. i + d = j + d
            BY <1>1, <2>1, <4>1, <4>3, <5>2 DEF GamestateInv
          <5> QED BY <1>11, <5>3
        <4> QED BY <4>2, <4>3
      <3> QED BY <3>1, <3>2
    <2>2. cl.serverId # sv.map
      BY <1>1, <1>8, SvFields, ClFields
    <2> QED BY <1>7, <2>1, <2>2 DEF GamestateInv
  <1>16. BuiltInv'
    <2>1. ASSUME NEW i \in 1..MaxSequence, NeedsBuilt(i)' PROVE Built(i)'
      <3>1. NeedsBuilt(i)
        <4>2. CASE \E j \in DOMAIN up' : up'[j].delta /\ up'[j].map = sv'.map /\ up'[j].ack = i
          BY <1>6, <1>7, <4>2 DEF NeedsBuilt
        <4>3. CASE cl'.snapValid /\ cl'.serverId = sv'.map /\ cl'.snapNum = i
          BY <1>7, <4>3 DEF NeedsBuilt
        <4>4. CASE \E j \in DOMAIN down' :
                      down'[j].kind # "gamestate" /\ down'[j].map = sv'.map /\ down'[j].sequence = i
          BY SMTT(30), <1>5, <1>7, <1>10, <1>11, <4>4 DEF NeedsBuilt
        <4> QED BY <1>7, <2>1, <4>2, <4>3, <4>4 DEF NeedsBuilt
      <3>2. Built(i)
        BY <1>1, <3>1 DEF BuiltInv
      <3>3. /\ i \in 1..sv'.outgoing - 1
            /\ sv'.outgoing - i < PACKET_BACKUP => sv.outgoing - i < PACKET_BACKUP
        <4>1. i \in 1..sv.outgoing - 1 /\ PACKET_BACKUP \in Int
          BY <3>2, Constants DEF Built
        <4> QED BY <1>3, <1>7, <4>1
      <3> QED BY <1>7, <3>2, <3>3 DEF Built
    <2> QED BY <2>1 DEF BuiltInv
  <1>17. HadInv'
    <2>1. ASSUME NEW i \in 1..MaxSequence, NeedsHad(i)' PROVE Had(i)'
      <3>0. i # 0
        BY Constants
      <3>1. NeedsHad(i)
        <4>2. CASE \E j \in DOMAIN up' : up'[j].delta /\ up'[j].map = cl'.serverId /\ up'[j].ack = i
          BY <1>6, <4>2 DEF NeedsHad
        <4>3. CASE cl'.snapValid /\ cl'.snapNum = i
          BY <4>3 DEF NeedsHad
        <4>4. CASE \E j \in DOMAIN down' : down'[j].base = i
          BY <1>5, <1>10, <1>11, <3>0, <4>4 DEF NeedsHad
        <4> QED BY <1>7, <2>1, <4>2, <4>3, <4>4 DEF NeedsHad
      <3> QED BY <1>1, <3>1 DEF HadInv, Had
    <2>2. \A j \in DOMAIN down' :
              down'[j].base > 0 => /\ down'[j].map = cl'.serverId
                                   /\ down'[j].sequence - down'[j].base < PACKET_BACKUP - 3
      BY <1>1, <1>5, <1>10, <1>11 DEF HadInv
    <2> QED BY <2>1, <2>2 DEF HadInv
  <1>18. OldInv'
    BY <1>1, <1>5, <1>10, <1>11 DEF OldInv
  <1> QED BY <1>12, <1>13, <1>14, <1>15, <1>16, <1>17, <1>18 DEF IInv

LEMMA Ignored ==
    ASSUME IInv, NEW k \in DOMAIN up, up' = Rest(up, k), sv' = sv, down' = down,
           frames' = frames, snapshotEntities' = snapshotEntities, cl' = cl,
           snapshots' = snapshots, parseEntities' = parseEntities, meant' = meant, crowded' = crowded
    PROVE  IInv'
  <1>1. TypeInv /\ MeantInv /\ OrderInv /\ GamestateInv /\ BuiltInv /\ HadInv /\ OldInv /\ KeptInv
    BY DEF IInv
  <1>2. /\ up' \in Seq(Packet) /\ Len(up') <= MaxUp
        /\ \A j \in DOMAIN up' : \E i \in DOMAIN up : up'[j] = up[i]
    BY <1>1, UpRest
  <1>3. TypeInv'
    BY <1>1, <1>2 DEF TypeInv, TypeOK
  <1>4. MeantInv' /\ OldInv' /\ KeptInv'
    BY <1>1 DEF MeantInv, OldInv, KeptInv, Kept
  <1>5. OrderInv' /\ GamestateInv'
    BY <1>1, <1>2 DEF OrderInv, GamestateInv
  <1>6. BuiltInv'
    <2>1. ASSUME NEW n \in 1..MaxSequence, NeedsBuilt(n)' PROVE Built(n)'
      <3>1. NeedsBuilt(n)
        BY <1>2, <2>1 DEF NeedsBuilt
      <3> QED BY <1>1, <3>1 DEF BuiltInv, Built
    <2> QED BY <2>1 DEF BuiltInv
  <1>7. HadInv'
    <2>1. ASSUME NEW n \in 1..MaxSequence, NeedsHad(n)' PROVE Had(n)'
      <3>1. NeedsHad(n)
        BY <1>2, <2>1 DEF NeedsHad
      <3> QED BY <1>1, <3>1 DEF HadInv, Had
    <2> QED BY <1>1, <2>1 DEF HadInv
  <1> QED BY <1>3, <1>4, <1>5, <1>6, <1>7 DEF IInv

LEMMA Execute ==
    ASSUME IInv, NEW k \in DOMAIN up, SV_ExecuteClientMessage(k)
    PROVE  IInv'
  <1>1. /\ up' = Rest(up, k)
        /\ frames' = frames /\ snapshotEntities' = snapshotEntities /\ cl' = cl
        /\ snapshots' = snapshots /\ parseEntities' = parseEntities /\ meant' = meant /\ crowded' = crowded
    BY DEF SV_ExecuteClientMessage
  <1>2. CASE up[k].map = sv.map
    <2>1. sv' = SV_UserMove(up[k]) /\ down' = down
      BY <1>2 DEF SV_ExecuteClientMessage
    <2> QED BY <1>1, <1>2, <2>1, Move
  <1>3. CASE up[k].map # sv.map /\ up[k].ack > sv.gamestateMessageNum
    <2>1. SV_SendClientGameState
      BY <1>3 DEF SV_ExecuteClientMessage
    <2> QED BY <1>1, <1>3, <2>1, Gamestate
  <1>4. CASE up[k].map # sv.map /\ ~(up[k].ack > sv.gamestateMessageNum)
    <2>1. sv' = sv /\ down' = down
      BY <1>4 DEF SV_ExecuteClientMessage
    <2> QED BY <1>1, <2>1, Ignored
  <1> QED BY <1>2, <1>3, <1>4

-----------------------------------------------------------------------------
(* CL_WritePacket. *)

LEMMA Write ==
    ASSUME IInv, CL_WritePacket
    PROVE  IInv'
  <1>1. TypeInv /\ MeantInv /\ OrderInv /\ GamestateInv /\ BuiltInv /\ HadInv /\ OldInv /\ KeptInv
    BY DEF IInv
  <1> DEFINE p == [map |-> cl.serverId, ack |-> cl.sequence, delta |-> AsksDelta]
  <1>2. /\ up' = Put(up, MaxUp, p) /\ sv' = sv /\ down' = down
        /\ frames' = frames /\ snapshotEntities' = snapshotEntities /\ cl' = cl
        /\ snapshots' = snapshots /\ parseEntities' = parseEntities /\ meant' = meant /\ crowded' = crowded
    BY DEF CL_WritePacket
  <1>3. p \in Packet
    BY <1>1, ClFields DEF Packet, AsksDelta
  <1>4. p.map = cl.serverId /\ p.ack = cl.sequence
        /\ (p.delta => cl.snapValid /\ p.ack = cl.snapNum)
    BY DEF AsksDelta
  <1> HIDE DEF p
  <1>5. /\ up' \in Seq(Packet) /\ Len(up') <= MaxUp
        /\ \A j \in DOMAIN up' : up'[j] = p \/ \E i \in DOMAIN up : up'[j] = up[i]
    <2>1. up \in Seq(Packet) /\ Len(up) <= MaxUp /\ Len(up) \in Nat /\ MaxUp \in Nat \ {0}
          /\ DOMAIN up = 1..Len(up)
      BY <1>1, Shapes, Constants
    <2> DEFINE r == up'
    <2>2. \/ r = Append(up, p) /\ Len(up) < MaxUp
          \/ up # <<>> /\ r = Append(Tail(up), p)
      BY <1>2, <2>1 DEF Put
    <2> HIDE DEF r
    <2>3. /\ r \in Seq(Packet) /\ Len(r) \in Nat \ {0} /\ r[Len(r)] = p
          /\ r = Append(up, p) => Len(r) = Len(up) + 1
          /\ r # Append(up, p) => Len(r) = Len(up)
      BY SMTT(30), <1>3, <2>1, <2>2, PutIs
    <2>4. Follows(r, up, 0) \/ Follows(r, up, 1)
      BY <1>3, <2>1, <2>2, PutIs
    <2>5. Append(up, p) # Append(Tail(up), p) \/ up = <<>>
      <3>1. up # <<>> => Len(Append(up, p)) = Len(up) + 1 /\ Len(Append(Tail(up), p)) = Len(up)
        BY <1>3, <2>1
      <3> QED BY <2>1, <3>1
    <2>6. Len(r) <= MaxUp
      BY <2>1, <2>2, <2>3, <2>5
    <2>7. ASSUME NEW j \in DOMAIN r, r[j] # p PROVE \E i \in DOMAIN up : r[j] = up[i]
      <3>1. DOMAIN r = 1..Len(r)
        BY SMTT(30), <2>3
      <3>2. j # Len(r) /\ j \in 1..Len(r)
        BY Zenon, <2>3, <2>7, <3>1
      <3>3. PICK d \in {0, 1} : Follows(r, up, d)
        BY <2>4
      <3>4. j + d \in 1..Len(up) /\ r[j] = up[j + d]
        BY <3>2, <3>3 DEF Follows
      <3> QED BY <2>1, <3>4
    <2> QED BY <2>3, <2>6, <2>7 DEF r
  <1>6. TypeInv'
    BY <1>1, <1>2, <1>5 DEF TypeInv, TypeOK
  <1>7. MeantInv' /\ OldInv' /\ KeptInv'
    BY <1>1, <1>2 DEF MeantInv, OldInv, KeptInv, Kept
  <1>8. OrderInv'
    <2>1. \A j \in DOMAIN up' : up'[j].ack <= cl.sequence /\ up'[j].map <= cl.serverId
      <3>1. \A i \in DOMAIN up : up[i].ack <= cl.sequence /\ up[i].map <= cl.serverId
        BY <1>1 DEF OrderInv
      <3>2. p.ack <= cl.sequence /\ p.map <= cl.serverId
        BY <1>1, <1>4, ClFields
      <3> QED BY <1>5, <3>1, <3>2
    <2> QED BY <1>1, <1>2, <2>1 DEF OrderInv
  <1>9. GamestateInv'
    <2>1. cl.serverId = sv.map =>
              \A j \in DOMAIN up' : up'[j].map # sv.map => up'[j].ack < sv.gamestateMessageNum
      BY <1>1, <1>4, <1>5 DEF GamestateInv
    <2> QED BY <1>1, <1>2, <2>1 DEF GamestateInv
  <1>10. BuiltInv'
    <2>1. ASSUME NEW n \in 1..MaxSequence, NeedsBuilt(n)' PROVE Built(n)'
      <3>1. NeedsBuilt(n)
        <4>1. CASE \E j \in DOMAIN up' : up'[j].delta /\ up'[j].map = sv'.map /\ up'[j].ack = n
          BY <1>2, <1>4, <1>5, <4>1 DEF NeedsBuilt
        <4>2. CASE ~ \E j \in DOMAIN up' : up'[j].delta /\ up'[j].map = sv'.map /\ up'[j].ack = n
          BY <1>2, <2>1, <4>2 DEF NeedsBuilt
        <4> QED BY <4>1, <4>2
      <3> QED BY <1>1, <1>2, <3>1 DEF BuiltInv, Built
    <2> QED BY <2>1 DEF BuiltInv
  <1>11. HadInv'
    <2>1. ASSUME NEW n \in 1..MaxSequence, NeedsHad(n)' PROVE Had(n)'
      <3>1. NeedsHad(n)
        <4>1. CASE \E j \in DOMAIN up' : up'[j].delta /\ up'[j].map = cl'.serverId /\ up'[j].ack = n
          BY <1>2, <1>4, <1>5, <4>1 DEF NeedsHad
        <4>2. CASE ~ \E j \in DOMAIN up' : up'[j].delta /\ up'[j].map = cl'.serverId /\ up'[j].ack = n
          BY <1>2, <2>1, <4>2 DEF NeedsHad
        <4> QED BY <4>1, <4>2
      <3> QED BY <1>1, <1>2, <3>1 DEF HadInv, Had
    <2> QED BY <1>1, <1>2, <2>1 DEF HadInv
  <1> QED BY <1>6, <1>7, <1>8, <1>9, <1>10, <1>11 DEF IInv

-----------------------------------------------------------------------------
(* CL_ParseServerMessage. *)

\* Messages left when one is taken are later ones.
LEMMA DownRest ==
    ASSUME TypeInv, OrderInv, NEW k \in DOMAIN down, down' = Rest(down, k)
    PROVE  /\ down' \in Seq(Message) /\ Len(down') <= MaxDown
           /\ \A j \in DOMAIN down' :
                 /\ k + j \in DOMAIN down /\ j \in Int /\ k \in Int /\ down'[j] = down[k + j]
                 /\ down[k].sequence < down'[j].sequence
                 /\ down[k].map <= down'[j].map
  <1>1. down \in Seq(Message) /\ k \in 1..Len(down) /\ Len(down) \in Nat /\ Len(down) <= MaxDown
        /\ MaxDown \in Nat
    BY Shapes, Constants
  <1>2. PICK i \in 1..Len(down) : i = k
    BY <1>1
  <1> DEFINE r == Rest(down, i)
  <1>3. /\ r \in Seq(Message) /\ Len(r) = Len(down) - i
        /\ \A j \in 1..Len(r) : i + j \in 1..Len(down) /\ r[j] = down[i + j]
    BY <1>1, RestIs
  <1>4. /\ down' \in Seq(Message) /\ Len(down') = Len(down) - k
        /\ \A j \in 1..Len(down') : k + j \in 1..Len(down) /\ down'[j] = down[k + j]
    BY <1>2, <1>3
  <1>5. DOMAIN down' = 1..Len(down') /\ DOMAIN down = 1..Len(down)
    BY <1>1, <1>4
  <1>6. Len(down') <= MaxDown
    BY <1>1, <1>4
  <1>7. ASSUME NEW j \in DOMAIN down'
        PROVE  /\ k + j \in DOMAIN down /\ j \in Int /\ k \in Int /\ down'[j] = down[k + j]
               /\ down[k].sequence < down'[j].sequence
               /\ down[k].map <= down'[j].map
    <2>1. k + j \in DOMAIN down /\ down'[j] = down[k + j] /\ k < k + j /\ j \in Int /\ k \in Int
      BY <1>1, <1>4, <1>5
    <2> QED BY <2>1 DEF OrderInv
  <1> QED BY <1>4, <1>6, <1>7

\* The client goes on to a later message, and never to an earlier map.
LEMMA TakenOrder ==
    ASSUME TypeInv, OrderInv, NEW k \in DOMAIN down, down' = Rest(down, k),
           sv' = sv, up' = up, cl'.sequence = down[k].sequence,
           cl'.serverId = cl.serverId \/ cl'.serverId = down[k].map,
           cl'.snapNum <= cl'.sequence
    PROVE  OrderInv'
  <1>1. \A j \in DOMAIN down' :
            /\ k + j \in DOMAIN down /\ j \in Int /\ k \in Int /\ down'[j] = down[k + j]
            /\ down[k].sequence < down'[j].sequence
            /\ down[k].map <= down'[j].map
    BY DownRest
  <1>2. /\ cl.sequence < down[k].sequence /\ down[k].sequence < sv.outgoing
        /\ cl.serverId <= down[k].map /\ down[k].map <= sv.map
    BY DEF OrderInv
  <1>3. /\ down[k].sequence \in Int /\ down[k].map \in Int /\ cl.sequence \in Int
        /\ cl.serverId \in Int /\ sv.outgoing \in Int /\ sv.map \in Int
    BY DownFields, ClFields, SvFields
  <1>4. cl'.serverId \in Int /\ cl.serverId <= cl'.serverId /\ cl'.serverId <= down[k].map
    BY <1>2, <1>3
  <1>5. ASSUME NEW j \in DOMAIN down'
        PROVE  /\ cl'.sequence < down'[j].sequence /\ down'[j].sequence < sv.outgoing
               /\ cl'.serverId <= down'[j].map /\ down'[j].map <= sv.map
               /\ \A i \in DOMAIN down' :
                     i < j => down'[i].sequence < down'[j].sequence /\ down'[i].map <= down'[j].map
    <2>1. /\ k + j \in DOMAIN down /\ down'[j] = down[k + j]
          /\ down[k].sequence < down'[j].sequence
          /\ down[k].map <= down'[j].map
      BY <1>1
    <2>2. down[k + j].sequence < sv.outgoing /\ down[k + j].map <= sv.map /\ down[k + j].map \in Int
      BY <2>1, DownFields DEF OrderInv
    <2>3. cl'.serverId <= down'[j].map
      BY <1>3, <1>4, <2>1, <2>2
    <2>4. ASSUME NEW i \in DOMAIN down', i < j
          PROVE  down'[i].sequence < down'[j].sequence /\ down'[i].map <= down'[j].map
      <3>1. k + i \in DOMAIN down /\ down'[i] = down[k + i] /\ k + i < k + j
        BY <1>1, <2>4
      <3> QED BY <2>1, <3>1 DEF OrderInv
    <2> QED BY <2>1, <2>2, <2>3, <2>4
  <1>6. ASSUME NEW j \in DOMAIN up PROVE up[j].ack <= cl'.sequence /\ up[j].map <= cl'.serverId
    <2>1. up[j].ack <= cl.sequence /\ up[j].map <= cl.serverId
      BY DEF OrderInv
    <2> QED BY SMTT(30), <1>2, <1>3, <1>4, <2>1, UpFields
  <1>7. cl'.sequence < sv.outgoing /\ cl'.serverId <= sv.map /\ sv.gamestateMessageNum < sv.outgoing
    BY <1>2, <1>3, <1>4 DEF OrderInv
  <1> QED BY <1>5, <1>6, <1>7 DEF OrderInv

\* Taking anything but a gamestate changes nothing about gamestates.
LEMMA TakenGamestates ==
    ASSUME TypeInv, OrderInv, GamestateInv, NEW k \in DOMAIN down, down' = Rest(down, k),
           sv' = sv, up' = up, cl'.serverId = cl.serverId
    PROVE  GamestateInv'
  <1>1. \A j \in DOMAIN down' :
            /\ k + j \in DOMAIN down /\ j \in Int /\ k \in Int /\ down'[j] = down[k + j]
    BY DownRest
  <1>2. ASSUME NEW j \in DOMAIN down', down'[j].kind = "gamestate"
        PROVE  /\ cl.serverId < down'[j].map
               /\ down'[j].map = sv.map => down'[j].sequence = sv.gamestateMessageNum
               /\ \A i \in DOMAIN down' :
                     down'[i].kind = "gamestate" /\ down'[i].map = down'[j].map => i = j
    <2>1. k + j \in DOMAIN down /\ down'[j] = down[k + j]
      BY <1>1
    <2>2. ASSUME NEW i \in DOMAIN down',
                 down'[i].kind = "gamestate" /\ down'[i].map = down'[j].map
          PROVE  i = j
      <3>1. k + i \in DOMAIN down /\ down'[i] = down[k + i] /\ i \in Int /\ j \in Int /\ k \in Int
        BY <1>1
      <3>2. k + i = k + j
        BY <1>2, <2>1, <2>2, <3>1 DEF GamestateInv
      <3> QED BY ONLY <3>1, <3>2, SameSum, Zenon
    <2> QED BY <1>2, <2>1, <2>2 DEF GamestateInv
  <1> QED BY <1>2 DEF GamestateInv

LEMMA TakeGamestate ==
    ASSUME IInv, NEW k \in DOMAIN down, down' = Rest(down, k),
           down[k].kind = "gamestate", CL_ParseGamestate(down[k]),
           sv' = sv, frames' = frames, snapshotEntities' = snapshotEntities,
           up' = up, meant' = meant, crowded' = crowded
    PROVE  IInv'
  <1>1. TypeInv /\ MeantInv /\ OrderInv /\ GamestateInv /\ BuiltInv /\ HadInv /\ OldInv /\ KeptInv
    BY DEF IInv
  <1> DEFINE m == down[k]
  <1>2. /\ cl' = [serverId |-> m.map, sequence |-> m.sequence, snapNum |-> 0,
                  snapValid |-> FALSE, parseNum |-> 0]
        /\ snapshots' = [s \in DOMAIN snapshots |->
                           [valid |-> FALSE, messageNum |-> 0, first |-> 0, num |-> 0]]
        /\ parseEntities' = [i \in DOMAIN parseEntities |-> Blank]
    BY DEF CL_ParseGamestate
  <1>3. /\ m.sequence \in 1..MaxSequence /\ m.sequence \in Int
        /\ m.map \in 1..MaxMaps /\ m.map \in Int
    BY <1>1, DownFields
  <1>4. \A j \in DOMAIN down' :
            /\ k + j \in DOMAIN down /\ j \in Int /\ k \in Int /\ down'[j] = down[k + j]
            /\ m.sequence < down'[j].sequence
            /\ m.map <= down'[j].map
    BY <1>1, DownRest
  <1>5. down' \in Seq(Message) /\ Len(down') <= MaxDown
    BY <1>1, DownRest
  <1>6. /\ cl.serverId < m.map /\ (m.map = sv.map => m.sequence = sv.gamestateMessageNum)
        /\ m.map <= sv.map /\ cl.sequence < m.sequence
    BY <1>1 DEF GamestateInv, OrderInv
  <1>7. /\ cl.serverId \in Int /\ cl.sequence \in Int /\ sv.map \in Int
        /\ sv.gamestateMessageNum \in Int
    BY <1>1, ClFields, SvFields
  <1>8. sv.state # "active"
    <2>1. sv.state = "active" => cl.serverId = sv.map
      BY <1>1 DEF GamestateInv
    <2> QED BY <1>3, <1>6, <1>7, <2>1
  <1>9. ASSUME NEW j \in DOMAIN up PROVE up[j].map # m.map
    <2>1. up[j].map <= cl.serverId /\ up[j].map \in Int
      BY <1>1, UpFields DEF OrderInv
    <2> QED BY <1>3, <1>6, <1>7, <2>1
  <1>10. ASSUME NEW j \in DOMAIN down' PROVE ~(down'[j].base > 0)
    <2>1. k + j \in DOMAIN down /\ down'[j] = down[k + j] /\ m.map <= down'[j].map
      BY <1>4
    <2>2. down[k + j].base > 0 => down[k + j].map = cl.serverId
      BY <1>1, <2>1 DEF HadInv
    <2> QED BY <1>3, <1>6, <1>7, <2>1, <2>2
  <1> HIDE DEF m
  <1>11. TypeInv'
    <2>1. cl' \in [serverId : 0..MaxMaps, sequence : Sequence, snapNum : Sequence,
               snapValid : BOOLEAN, parseNum : Nat]
      BY <1>2, <1>3, Constants DEF Sequence
    <2>2. snapshots' \in [0..PACKET_BACKUP - 1 ->
          [valid : BOOLEAN, messageNum : Sequence, first : Nat, num : Nat]]
      BY <1>1, <1>2, Shapes, Constants DEF Sequence
    <2>3. parseEntities' \in [0..MAX_PARSE_ENTITIES - 1 -> Entity]
      <3>1. DOMAIN parseEntities = 0..MAX_PARSE_ENTITIES - 1 /\ Blank \in Entity
        BY <1>1, Shapes DEF Blank, Entity
      <3> QED BY <1>2, <3>1
    <2> QED BY <1>1, <1>5, <2>1, <2>2, <2>3 DEF TypeInv, TypeOK
  <1>12. MeantInv'
    BY <1>1 DEF MeantInv
  <1>13. OrderInv'
    <2>1. cl'.sequence = down[k].sequence /\ cl'.serverId = down[k].map /\ cl'.snapNum <= cl'.sequence
      BY <1>2, <1>3 DEF m
    <2> QED BY <1>1, <2>1, TakenOrder
  <1>14. GamestateInv'
    <2>1. ASSUME NEW j \in DOMAIN down', down'[j].kind = "gamestate"
          PROVE  /\ m.map < down'[j].map
                 /\ down'[j].map = sv.map => down'[j].sequence = sv.gamestateMessageNum
                 /\ \A i \in DOMAIN down' :
                       down'[i].kind = "gamestate" /\ down'[i].map = down'[j].map => i = j
      <3>1. k + j \in DOMAIN down /\ down'[j] = down[k + j] /\ m.sequence < down'[j].sequence
            /\ m.map <= down'[j].map
        BY <1>4
      <3>2. down'[j].map # m.map
        <4>1. ASSUME down'[j].map = m.map PROVE FALSE
          <5>1. k + j = k
            BY <1>1, <2>1, <3>1, <4>1 DEF GamestateInv, m
          <5> QED BY <1>3, <3>1, <5>1 DEF m
        <4> QED BY <4>1
      <3>3. m.map < down'[j].map
        BY <1>1, <1>3, <3>1, <3>2, DownFields
      <3>4. ASSUME NEW i \in DOMAIN down',
                   down'[i].kind = "gamestate" /\ down'[i].map = down'[j].map
            PROVE  i = j
        <4>1. k + i \in DOMAIN down /\ down'[i] = down[k + i] /\ i \in Int /\ j \in Int /\ k \in Int
          BY <1>4
        <4>2. k + i = k + j
          BY <1>1, <2>1, <3>1, <3>4, <4>1 DEF GamestateInv
        <4> QED BY ONLY <4>1, <4>2, SameSum, Zenon
      <3> QED BY <1>1, <2>1, <3>1, <3>3, <3>4 DEF GamestateInv
    <2>2. ASSUME m.map = sv.map, NEW j \in DOMAIN up
          PROVE  up[j].ack < sv.gamestateMessageNum
      <3>1. up[j].ack <= cl.sequence /\ up[j].ack \in Int
        BY <1>1, UpFields DEF OrderInv
      <3> QED BY <1>3, <1>6, <1>7, <2>2, <3>1
    <2>3. cl'.serverId = m.map
      BY <1>2
    <2> QED BY <1>8, <2>1, <2>2, <2>3 DEF GamestateInv
  <1>15. BuiltInv'
    <2>1. ASSUME NEW n \in 1..MaxSequence, NeedsBuilt(n)' PROVE Built(n)'
      <3>1. NeedsBuilt(n)
        <4>1. ~cl'.snapValid
          BY <1>2
        <4> QED BY <1>4, <1>8, <2>1, <4>1 DEF NeedsBuilt
      <3> QED BY <1>1, <3>1 DEF BuiltInv, Built
    <2> QED BY <2>1 DEF BuiltInv
  <1>16. HadInv'
    <2>1. ASSUME NEW n \in 1..MaxSequence, NeedsHad(n)' PROVE FALSE
      <3>1. ~cl'.snapValid /\ cl'.serverId = m.map
        BY <1>2
      <3>2. n > 0
        BY Constants
      <3> QED BY <1>8, <1>9, <1>10, <2>1, <3>1, <3>2 DEF NeedsHad
    <2> QED BY <1>10, <2>1 DEF HadInv
  <1>17. OldInv'
    BY <1>1, <1>4 DEF OldInv
  <1>18. KeptInv'
    <2>1. \A s \in 0..PACKET_BACKUP - 1 : ~snapshots'[s].valid
      BY <1>1, <1>2, Shapes
    <2> QED BY <2>1 DEF KeptInv, Kept
  <1> QED BY <1>11, <1>12, <1>13, <1>14, <1>15, <1>16, <1>17, <1>18 DEF IInv

\* What the client has of a snapshot stays while entities are written.
LEMMA KeptKept ==
    ASSUME TypeInv, NEW s \in 0..PACKET_BACKUP - 1, Kept(s), NEW list, Len(list) \in Nat,
           parseEntities' = Written(parseEntities, cl.parseNum, list),
           cl'.parseNum = cl.parseNum + Len(list), cl'.snapNum \in Nat,
           snapshots'[s] = snapshots[s], meant' = meant, crowded' = crowded,
           snapshots[s].valid => /\ cl.snapNum <= cl'.snapNum
                                 /\ cl'.snapNum - snapshots[s].messageNum < PACKET_BACKUP
    PROVE  Kept(s)'
  <1> DEFINE snap == snapshots[s]
             n == snap.messageNum
  <1>1. snap.first \in Nat /\ snap.num \in Nat /\ n \in Nat /\ cl.parseNum \in Nat
        /\ cl.snapNum \in Nat
    BY SnapFields, ClFields
  <1>2. SUFFICES ASSUME snap.valid
        PROVE  /\ Slot(n) = s
               /\ n \in 1..cl'.snapNum
               /\ cl'.snapNum - n < PACKET_BACKUP
               /\ snap.first + snap.num <= cl'.parseNum
               /\ n \notin crowded =>
                     /\ snap.num = Len(meant[n])
                     /\ cl'.parseNum - snap.first < MAX_PARSE_ENTITIES =>
                           ReadFrom(parseEntities', snap.first, snap.num) = meant[n]
    BY DEF Kept
  <1>3. /\ Slot(n) = s
        /\ n \in 1..cl.snapNum
        /\ snap.first + snap.num <= cl.parseNum
        /\ n \notin crowded =>
              /\ snap.num = Len(meant[n])
              /\ cl.parseNum - snap.first < MAX_PARSE_ENTITIES =>
                    ReadFrom(parseEntities, snap.first, snap.num) = meant[n]
    BY <1>2 DEF Kept
  <1>4. cl.snapNum <= cl'.snapNum /\ cl'.snapNum - n < PACKET_BACKUP
    BY <1>2
  <1>5. n \in 1..cl'.snapNum
    BY <1>1, <1>3, <1>4
  <1> DEFINE first == snap.first
             num == snap.num
             next == cl.parseNum
             size == MAX_PARSE_ENTITIES
  <1>6. first \in Nat /\ num \in Nat /\ next \in Nat /\ first + num <= next
        /\ size \in Nat \ {0} /\ DOMAIN parseEntities = 0..size - 1
    BY <1>1, <1>3, Shapes, Constants
  <1>7. cl'.parseNum = next + Len(list) /\ parseEntities' = Written(parseEntities, next, list)
    OBVIOUS
  <1>8. n \notin crowded /\ next - first < size => ReadFrom(parseEntities, first, num) = meant[n]
    BY <1>3
  <1> HIDE DEF first, num, next, size
  <1>9. first + num <= next + Len(list)
    BY <1>6
  <1>10. ASSUME n \notin crowded, (next + Len(list)) - first < size
         PROVE  ReadFrom(parseEntities', first, num) = meant[n]
    <2>1. next - first < size /\ next + Len(list) - first <= size
      BY <1>6, <1>10
    <2>2. ReadFrom(Written(parseEntities, next, list), first, num)
             = ReadFrom(parseEntities, first, num)
      BY ONLY <1>6, <2>1, ReadKept, Len(list) \in Nat
    <2> QED BY <1>7, <1>8, <1>10, <2>1, <2>2
  <1>11. n \notin crowded /\ cl'.parseNum - first < size =>
            ReadFrom(parseEntities', first, num) = meant[n]
    BY <1>7, <1>10
  <1> QED BY <1>3, <1>4, <1>5, <1>7, <1>9, <1>11 DEF first, num, next, size

\* Taking a message makes nothing a base that the server had not built.
LEMMA TakenBuilt ==
    ASSUME TypeInv, OrderInv, BuiltInv, NEW k \in DOMAIN down, down' = Rest(down, k),
           down[k].kind # "gamestate",
           sv' = sv, frames' = frames, snapshotEntities' = snapshotEntities,
           up' = up, meant' = meant, crowded' = crowded, cl'.serverId = cl.serverId,
           cl'.snapValid => \/ cl.snapValid /\ cl'.snapNum = cl.snapNum
                            \/ cl'.snapNum = down[k].sequence
    PROVE  BuiltInv'
  <1>1. \A j \in DOMAIN down' : k + j \in DOMAIN down /\ down'[j] = down[k + j]
    BY DownRest
  <1>2. cl.serverId = sv.map => down[k].map = sv.map
    <2>1. /\ cl.serverId <= down[k].map /\ down[k].map <= sv.map
          /\ down[k].map \in Int /\ sv.map \in Int
      BY DownFields, SvFields DEF OrderInv
    <2> QED BY <2>1
  <1>3. ASSUME NEW n \in 1..MaxSequence, NeedsBuilt(n)' PROVE Built(n)'
    <2>1. NeedsBuilt(n)
      <3>1. CASE cl'.snapValid /\ cl'.serverId = sv'.map /\ cl'.snapNum = n
        BY <1>2, <3>1 DEF NeedsBuilt
      <3>2. CASE ~(cl'.snapValid /\ cl'.serverId = sv'.map /\ cl'.snapNum = n)
        BY <1>1, <1>3, <3>2 DEF NeedsBuilt
      <3> QED BY <3>1, <3>2
    <2> QED BY <2>1 DEF BuiltInv, Built
  <1> QED BY <1>3 DEF BuiltInv

LEMMA TakenOld ==
    ASSUME TypeInv, OrderInv, OldInv, NEW k \in DOMAIN down, down' = Rest(down, k),
           meant' = meant, crowded' = crowded
    PROVE  OldInv'
  <1>1. \A j \in DOMAIN down' : k + j \in DOMAIN down /\ down'[j] = down[k + j]
    BY DownRest
  <1> QED BY <1>1 DEF OldInv

\* When a message brings no snapshot, the client has what it had.
LEMMA TakenHad ==
    ASSUME TypeInv, OrderInv, HadInv, NEW k \in DOMAIN down, down' = Rest(down, k),
           sv' = sv, up' = up, snapshots' = snapshots, cl'.serverId = cl.serverId,
           cl'.snapValid = cl.snapValid, cl'.snapNum = cl.snapNum
    PROVE  HadInv'
  <1>1. \A j \in DOMAIN down' : k + j \in DOMAIN down /\ down'[j] = down[k + j]
    BY DownRest
  <1>2. ASSUME NEW n \in 1..MaxSequence, NeedsHad(n)' PROVE Had(n)'
    <2>1. NeedsHad(n)
      BY <1>1, <1>2 DEF NeedsHad
    <2> QED BY <2>1 DEF HadInv, Had
  <1>3. \A j \in DOMAIN down' :
            down'[j].base > 0 => /\ down'[j].map = cl'.serverId
                                 /\ down'[j].sequence - down'[j].base < PACKET_BACKUP - 3
    BY <1>1 DEF HadInv
  <1> QED BY <1>2, <1>3 DEF HadInv

LEMMA TakeEmpty ==
    ASSUME IInv, NEW k \in DOMAIN down, down' = Rest(down, k),
           down[k].kind # "gamestate", cl' = [cl EXCEPT !.sequence = down[k].sequence],
           snapshots' = snapshots, parseEntities' = parseEntities,
           sv' = sv, frames' = frames, snapshotEntities' = snapshotEntities,
           up' = up, meant' = meant, crowded' = crowded
    PROVE  IInv'
  <1>1. TypeInv /\ MeantInv /\ OrderInv /\ GamestateInv /\ BuiltInv /\ HadInv /\ OldInv /\ KeptInv
    BY DEF IInv
  <1> DEFINE q == down[k].sequence
  <1>2. q \in 1..MaxSequence /\ q \in Int /\ cl.sequence < q
    BY <1>1, DownFields DEF OrderInv
  <1>3. q \in Sequence
    BY <1>2, Constants DEF Sequence
  <1>4. cl \in [serverId : 0..MaxMaps, sequence : Sequence, snapNum : Sequence,
                snapValid : BOOLEAN, parseNum : Nat]
    BY <1>1 DEF TypeInv, TypeOK
  <1>5. cl' = [cl EXCEPT !.sequence = q]
    OBVIOUS
  <1> HIDE DEF q
  <1>6. /\ cl' \in [serverId : 0..MaxMaps, sequence : Sequence, snapNum : Sequence,
                    snapValid : BOOLEAN, parseNum : Nat]
        /\ cl'.sequence = q /\ cl'.serverId = cl.serverId /\ cl'.snapNum = cl.snapNum
        /\ cl'.snapValid = cl.snapValid /\ cl'.parseNum = cl.parseNum
    BY <1>3, <1>4, <1>5
  <1>7. TypeInv'
    <2>1. down' \in Seq(Message) /\ Len(down') <= MaxDown
      BY <1>1, DownRest
    <2> QED BY <1>1, <1>6, <2>1 DEF TypeInv, TypeOK
  <1>8. MeantInv'
    BY <1>1 DEF MeantInv
  <1>9. OrderInv'
    <2>1. cl.snapNum <= cl.sequence /\ cl.snapNum \in Int /\ cl.sequence \in Int
      BY <1>1, ClFields DEF OrderInv
    <2>2. cl'.snapNum <= cl'.sequence /\ cl'.sequence = down[k].sequence
      BY <1>2, <1>6, <2>1 DEF q
    <2> QED BY <1>1, <1>6, <2>2, TakenOrder
  <1>10. GamestateInv'
    BY <1>1, <1>6, TakenGamestates
  <1>11. BuiltInv' /\ HadInv' /\ OldInv'
    BY <1>1, <1>6, TakenBuilt, TakenHad, TakenOld
  <1>12. KeptInv'
    BY <1>1, <1>6 DEF KeptInv, Kept
  <1> QED BY <1>7, <1>8, <1>9, <1>10, <1>11, <1>12 DEF IInv

\* The base of a snapshot under way for the client's map is in its slot.
LEMMA BaseHeld ==
    ASSUME TypeInv, OrderInv, HadInv, NEW k \in DOMAIN down, down[k].base > 0
    PROVE  /\ snapshots[Slot(down[k].base)].valid
           /\ snapshots[Slot(down[k].base)].messageNum = down[k].base
  <1> DEFINE n == down[k].base
             q == down[k].sequence
  <1>1. n \in 1..MaxSequence /\ n \in Int /\ q \in Int
    BY DownFields, Constants
  <1>2. Had(n)
    BY <1>1 DEF HadInv, NeedsHad
  <1>3. cl.snapNum < q /\ cl.snapNum \in Int
    <2>1. cl.snapNum <= cl.sequence /\ cl.sequence < q
      BY DEF OrderInv
    <2> QED BY <1>1, <2>1, ClFields
  <1>4. q - n < PACKET_BACKUP - 3
    BY DEF HadInv
  <1> HIDE DEF n, q
  <1>5. cl.snapNum - n < PACKET_BACKUP
    BY <1>1, <1>3, <1>4, Constants
  <1> QED BY <1>2, <1>5 DEF Had, n

\* What CL_ParsePacketEntities may give, whatever the base.
LEMMA ParsedType ==
    ASSUME TypeInv, NEW k \in DOMAIN down,
           NEW list \in CL_ParsePacketEntities(down[k], snapshots[Slot(down[k].base)])
    PROVE  list \in Seq(Entity) /\ Len(list) \in Nat
  <1> DEFINE new == down[k].new
             num == snapshots[Slot(down[k].base)].num
  <1>1. new \in Seq(Entity) /\ Len(new) \in Nat
    BY DownFields
  <1>2. num \in Nat
    <2>1. down[k].base \in Int
      BY DownFields
    <2>2. Slot(down[k].base) \in 0..PACKET_BACKUP - 1
      BY <2>1, SlotInRing
    <2> QED BY <2>2, SnapFields
  <1>3. list = new \/ \E n \in Len(new)..Len(new) + num : list = [i \in 1..n |-> Blank]
    BY Zenon DEF CL_ParsePacketEntities
  <1> HIDE DEF new, num
  <1>4. CASE list = new
    BY <1>1, <1>4
  <1>5. CASE \E n \in Len(new)..Len(new) + num : list = [i \in 1..n |-> Blank]
    <2>1. PICK n \in Len(new)..Len(new) + num : list = [i \in 1..n |-> Blank]
      BY <1>5
    <2>2. n \in Nat /\ Blank \in Entity
      BY <1>1, <1>2 DEF Blank, Entity
    <2> QED BY <2>1, <2>2
  <1> QED BY <1>3, <1>4, <1>5

\* Applied to a base that passes the client's tests, a delta gives the states
\* that were meant, if it is not crowded: the margin of the last test leaves
\* enough room for those that are written before an old one is read.
LEMMA ParsedIs ==
    ASSUME IInv, NEW k \in DOMAIN down, down[k].kind # "gamestate",
           Usable(down[k], snapshots[Slot(down[k].base)]),
           NEW list \in CL_ParsePacketEntities(down[k], snapshots[Slot(down[k].base)]),
           down[k].sequence \notin crowded
    PROVE  list = meant[down[k].sequence]
  <1>1. TypeInv /\ MeantInv /\ OrderInv /\ HadInv /\ OldInv /\ KeptInv
    BY DEF IInv
  <1> DEFINE m == down[k]
             n == m.base
             old == snapshots[Slot(n)]
             q == m.sequence
  <1>2. m.new = meant[q] /\ q \in 1..MaxSequence
    BY <1>1, DownFields DEF OldInv
  <1>3. CASE n = 0
    BY <1>2, <1>3 DEF CL_ParsePacketEntities
  <1>4. CASE n # 0
    <2>1. n \in 1..MaxSequence /\ n \in Int /\ n > 0
      BY <1>1, <1>4, DownFields, Constants
    <2>2. old.valid /\ old.messageNum = n
      BY <1>1, <2>1, BaseHeld
    <2>3. Slot(n) \in 0..PACKET_BACKUP - 1
      BY <2>1, SlotInRing
    <2>4. Kept(Slot(n))
      BY <1>1, <2>3 DEF KeptInv
    <2>5. cl.parseNum - old.first <= MAX_PARSE_ENTITIES - ParseMargin
      BY <1>4 DEF Usable
    <2>6. m.old = meant[n]
      BY <1>1, <2>1 DEF OldInv
    <2> DEFINE first == old.first
               next == cl.parseNum
    <2>7. first \in Nat /\ next \in Nat
      BY <1>1, <2>3, SnapFields, ClFields
    <2>16. n \notin crowded /\ ~(Cardinality(Appearing(m)) >= ParseMargin)
      BY <1>1, <2>1 DEF OldInv
    <2>8. /\ old.num = Len(meant[n])
          /\ next - first < MAX_PARSE_ENTITIES =>
                ReadFrom(parseEntities, first, old.num) = meant[n]
      BY <2>2, <2>4, <2>16 DEF Kept
    <2> HIDE DEF first, next
    <2>9. next - first <= MAX_PARSE_ENTITIES - ParseMargin
      BY <2>5 DEF first, next
    <2>10. next - first < MAX_PARSE_ENTITIES
      BY <2>7, <2>9, Constants
    <2>11. ReadFrom(parseEntities, first, old.num) = meant[n]
      BY <2>8, <2>10
    <2>12. /\ meant[n] \in Seq(EntityState) /\ meant[q] \in Seq(EntityState)
           /\ \A i, j \in 1..Len(meant[q]) : i < j => meant[q][i][1] < meant[q][j][1]
           /\ \A i, j \in 1..Len(meant[n]) : i < j => meant[n][i][1] < meant[n][j][1]
      BY <1>1, <1>2, <2>1, MeantFields DEF MeantInv
    <2>13. Cardinality(DOMAIN parseEntities) = MAX_PARSE_ENTITIES
      BY <1>1, Shapes, Constants, RingSizeIs
    <2>14. ASSUME NEW j \in 1..Len(m.old) PROVE Intact(m, old, j)
      <3>1. parseEntities[(first + j - 1) % MAX_PARSE_ENTITIES] = m.old[j]
        <4>1. j \in 1..old.num
          BY <2>6, <2>8
        <4>2. ReadFrom(parseEntities, first, old.num)[j]
                 = parseEntities[(first + j - 1) % MAX_PARSE_ENTITIES]
          BY <2>13, <4>1 DEF ReadFrom
        <4> QED BY <2>6, <2>11, <4>2
      <3> DEFINE x == m.old[j][1]
                 before == Cardinality({i \in 1..Len(m.new) : m.new[i][1] < x})
                 appear == Cardinality(Appearing(m))
      <3>2. /\ before \in Nat /\ appear \in Nat
            /\ before <= j - 1 + appear
        <4> DEFINE o == m.old
                   w == m.new
                   T == {i \in 1..Len(w) : w[i][1] < o[j][1]}
                   A == {i \in 1..Len(w) : \A h \in 1..Len(o) : o[h][1] # w[i][1]}
        <4>1. /\ o \in Seq(EntityState) /\ w \in Seq(EntityState)
              /\ \A h, i \in 1..Len(o) : h < i => o[h][1] < o[i][1]
              /\ \A h, i \in 1..Len(w) : h < i => w[h][1] < w[i][1]
          BY <1>2, <2>6, <2>12
        <4>2. before = Cardinality(T) /\ appear = Cardinality(A)
          BY DEF Appearing
        <4>3. j \in 1..Len(o)
          OBVIOUS
        <4> HIDE DEF o, w, before, appear
        <4>4. /\ Cardinality(T) \in Nat /\ Cardinality(A) \in Nat
              /\ Cardinality(T) <= j - 1 + Cardinality(A)
          BY ONLY <4>1, <4>3, FewBefore
        <4> QED BY <4>2, <4>4
      <3>3. appear < ParseMargin
        BY <2>16, <3>2, Constants
      <3>4. j \in Int /\ j >= 1
        <4>1. Len(m.old) \in Nat
          BY <2>6, <2>12
        <4> QED BY <4>1
      <3> HIDE DEF before, appear
      <3>5. next + before < first + j - 1 + MAX_PARSE_ENTITIES
        BY <2>7, <2>9, <3>2, <3>3, <3>4, Constants
      <3> QED BY <3>1, <3>5 DEF Intact, before, first, next
    <2>15. old.num = Len(m.old)
      BY <2>6, <2>8
    <2> QED BY <1>2, <2>14, <2>15 DEF CL_ParsePacketEntities
  <1> QED BY <1>3, <1>4

LEMMA TakeUnusable ==
    ASSUME IInv, NEW k \in DOMAIN down, down' = Rest(down, k),
           down[k].kind # "gamestate", NEW list \in Seq(Entity),
           cl' = [cl EXCEPT !.sequence = down[k].sequence, !.parseNum = @ + Len(list)],
           parseEntities' = Written(parseEntities, cl.parseNum, list),
           snapshots' = snapshots,
           sv' = sv, frames' = frames, snapshotEntities' = snapshotEntities,
           up' = up, meant' = meant, crowded' = crowded
    PROVE  IInv'
  <1>1. TypeInv /\ MeantInv /\ OrderInv /\ GamestateInv /\ BuiltInv /\ HadInv /\ OldInv /\ KeptInv
    BY DEF IInv
  <1> DEFINE q == down[k].sequence
             next == cl.parseNum
             new == next + Len(list)
  <1>2. q \in 1..MaxSequence /\ q \in Int /\ cl.sequence < q /\ next \in Nat /\ new \in Nat
    BY <1>1, DownFields, ClFields DEF OrderInv
  <1>3. q \in Sequence
    BY SMTT(30), <1>2, Constants DEF Sequence
  <1>4. Len(list) \in Nat
    OBVIOUS
  <1>5. cl \in [serverId : 0..MaxMaps, sequence : Sequence, snapNum : Sequence,
                snapValid : BOOLEAN, parseNum : Nat]
    BY <1>1 DEF TypeInv, TypeOK
  <1>6. cl' = [cl EXCEPT !.sequence = q, !.parseNum = new]
    OBVIOUS
  <1>7. parseEntities' = Written(parseEntities, next, list)
    OBVIOUS
  <1>8. new = next + Len(list)
    OBVIOUS
  <1> HIDE DEF q, new
  <1>9. /\ cl' \in [serverId : 0..MaxMaps, sequence : Sequence, snapNum : Sequence,
                    snapValid : BOOLEAN, parseNum : Nat]
        /\ cl'.sequence = q /\ cl'.serverId = cl.serverId /\ cl'.snapNum = cl.snapNum
        /\ cl'.snapValid = cl.snapValid /\ cl'.parseNum = new
    BY <1>2, <1>3, <1>5, <1>6
  <1>10. TypeInv'
    <2>1. down' \in Seq(Message) /\ Len(down') <= MaxDown
      BY <1>1, DownRest
    <2>2. parseEntities' \in [0..MAX_PARSE_ENTITIES - 1 -> Entity]
      <3> DEFINE size == MAX_PARSE_ENTITIES
      <3>1. size \in Nat \ {0} /\ parseEntities \in [0..size - 1 -> Entity]
        BY <1>1, Shapes, Constants
      <3> HIDE DEF size, next
      <3>2. Written(parseEntities, next, list) \in [0..size - 1 -> Entity]
        BY ONLY <1>2, <1>4, <3>1, WrittenType
      <3> QED BY <1>7, <3>2 DEF size
    <2> QED BY <1>1, <1>9, <2>1, <2>2 DEF TypeInv, TypeOK
  <1>11. MeantInv'
    BY <1>1 DEF MeantInv
  <1>12. OrderInv'
    <2>1. cl.snapNum <= cl.sequence /\ cl.snapNum \in Int /\ cl.sequence \in Int
      BY <1>1, ClFields DEF OrderInv
    <2>2. cl'.snapNum <= cl'.sequence /\ cl'.sequence = down[k].sequence
      BY <1>2, <1>9, <2>1 DEF q
    <2> QED BY <1>1, <1>9, <2>2, TakenOrder
  <1>13. GamestateInv'
    BY <1>1, <1>9, TakenGamestates
  <1>14. BuiltInv' /\ HadInv' /\ OldInv'
    BY <1>1, <1>9, TakenBuilt, TakenHad, TakenOld
  <1>15. ASSUME NEW s \in 0..PACKET_BACKUP - 1 PROVE Kept(s)'
    <2>1. Kept(s)
      BY <1>1 DEF KeptInv
    <2>2. /\ cl'.parseNum = cl.parseNum + Len(list) /\ cl'.snapNum \in Nat
          /\ snapshots'[s] = snapshots[s]
      BY <1>1, <1>8, <1>9, ClFields
    <2>3. snapshots[s].valid => /\ cl.snapNum <= cl'.snapNum
                                /\ cl'.snapNum - snapshots[s].messageNum < PACKET_BACKUP
      BY <1>1, <1>9, <2>1, ClFields DEF Kept
    <2> QED BY <1>1, <1>4, <1>7, <2>1, <2>2, <2>3, KeptKept
  <1>16. KeptInv'
    BY <1>15 DEF KeptInv
  <1> QED BY <1>10, <1>11, <1>12, <1>13, <1>14, <1>16 DEF IInv

\* The slots a snapshot clears, and the snapshots after it.
Cleared(m) == {Slot(n) : n \in Skipped(m)}

TakesSnapshot(m, list) ==
    /\ snapshots' =
          [[s \in DOMAIN snapshots |->
               IF s \in Cleared(m) THEN [snapshots[s] EXCEPT !.valid = FALSE] ELSE snapshots[s]]
           EXCEPT ![Slot(m.sequence)] = [valid |-> TRUE, messageNum |-> m.sequence,
                                         first |-> cl.parseNum, num |-> Len(list)]]
    /\ cl' = [cl EXCEPT !.sequence = m.sequence, !.snapNum = m.sequence,
                        !.snapValid = TRUE, !.parseNum = @ + Len(list)]
    /\ parseEntities' = Written(parseEntities, cl.parseNum, list)

LEMMA TakenSnapshots ==
    ASSUME TypeInv, NEW k \in DOMAIN down, NEW list, Len(list) \in Nat,
           TakesSnapshot(down[k], list)
    PROVE  /\ snapshots'[Slot(down[k].sequence)] =
                 [valid |-> TRUE, messageNum |-> down[k].sequence,
                  first |-> cl.parseNum, num |-> Len(list)]
           /\ \A s \in 0..PACKET_BACKUP - 1 :
                 s # Slot(down[k].sequence) =>
                    IF s \in Cleared(down[k]) THEN ~snapshots'[s].valid
                                              ELSE snapshots'[s] = snapshots[s]
           /\ snapshots' \in [0..PACKET_BACKUP - 1 ->
                 [valid : BOOLEAN, messageNum : Sequence, first : Nat, num : Nat]]
  <1> DEFINE m == down[k]
             t == Slot(m.sequence)
             S == Cleared(m)
             snap == [valid |-> TRUE, messageNum |-> m.sequence,
                      first |-> cl.parseNum, num |-> Len(list)]
             clear == [s \in DOMAIN snapshots |->
                        IF s \in S THEN [snapshots[s] EXCEPT !.valid = FALSE] ELSE snapshots[s]]
             Snaps == [valid : BOOLEAN, messageNum : Sequence, first : Nat, num : Nat]
  <1>1. snapshots' = [clear EXCEPT ![t] = snap]
    BY DEF TakesSnapshot
  <1>2. t \in 0..PACKET_BACKUP - 1
    BY DownFields, SlotInRing
  <1>3. snap \in Snaps
    <2>1. m.sequence \in Sequence /\ cl.parseNum \in Nat
      BY SMTT(30), DownFields, ClFields, Constants DEF Sequence
    <2> QED BY <2>1
  <1>4. snapshots \in [0..PACKET_BACKUP - 1 -> Snaps]
    BY DEF TypeInv, TypeOK
  <1> HIDE DEF S, t, snap
  <1>5. ASSUME NEW s \in 0..PACKET_BACKUP - 1
        PROVE  /\ clear[s] \in Snaps
               /\ IF s \in S THEN ~clear[s].valid ELSE clear[s] = snapshots[s]
    BY <1>4
  <1>6. DOMAIN clear = 0..PACKET_BACKUP - 1
    BY <1>4
  <1> HIDE DEF clear, Snaps
  <1>7. snapshots'[t] = snap
    BY <1>1, <1>2, <1>6
  <1>8. \A s \in 0..PACKET_BACKUP - 1 :
            s # t => IF s \in S THEN ~snapshots'[s].valid ELSE snapshots'[s] = snapshots[s]
    BY <1>1, <1>5, <1>6
  <1>9. snapshots' \in [0..PACKET_BACKUP - 1 -> Snaps]
    <2>1. clear \in [0..PACKET_BACKUP - 1 -> Snaps]
      <3>1. clear = [s \in 0..PACKET_BACKUP - 1 |-> clear[s]]
        BY <1>4 DEF clear
      <3> QED BY <1>5, <3>1
    <2> QED BY <1>1, <1>2, <1>3, <2>1
  <1> QED BY <1>7, <1>8, <1>9 DEF S, t, snap, Snaps

\* The slot of a snapshot that is less than PACKET_BACKUP older than the new
\* one is neither used nor cleared.
LEMMA SlotSpared ==
    ASSUME TypeInv, OrderInv, NEW k \in DOMAIN down, NEW n \in 1..cl.snapNum,
           down[k].sequence - n < PACKET_BACKUP
    PROVE  Slot(n) # Slot(down[k].sequence) /\ Slot(n) \notin Cleared(down[k])
  <1> DEFINE q == down[k].sequence
  <1>1. q \in Int /\ cl.snapNum \in Int /\ n \in Int
    BY DownFields, ClFields
  <1>2. n <= cl.snapNum /\ cl.snapNum < q
    <2>1. cl.snapNum <= cl.sequence /\ cl.sequence < q /\ cl.sequence \in Int
      BY ClFields DEF OrderInv
    <2> QED BY <1>1, <2>1
  <1>3. q - n < PACKET_BACKUP
    OBVIOUS
  <1> HIDE DEF q
  <1>4. Slot(n) # Slot(q)
    <2>1. n # q /\ n - q < PACKET_BACKUP
      BY <1>1, <1>2, Constants
    <2> QED BY <1>1, <1>3, <2>1, SlotsDiffer
  <1>5. ASSUME NEW i \in Skipped(down[k]) PROVE Slot(i) # Slot(n)
    <2>1. i \in Int /\ i < q /\ i > cl.snapNum
      BY Constants DEF Skipped, Sequence, q
    <2>2. i # n /\ i - n < PACKET_BACKUP /\ n - i < PACKET_BACKUP
      BY <1>1, <1>2, <1>3, <2>1, Constants
    <2> QED BY <1>1, <2>1, <2>2, SlotsDiffer
  <1> QED BY <1>4, <1>5 DEF Cleared, q

\* And the other way round: a slot that is spared has a snapshot that new.
LEMMA SparedIsNew ==
    ASSUME TypeInv, OrderInv, NEW k \in DOMAIN down, NEW s \in 0..PACKET_BACKUP - 1,
           Kept(s), snapshots[s].valid, s # Slot(down[k].sequence), s \notin Cleared(down[k])
    PROVE  down[k].sequence - snapshots[s].messageNum < PACKET_BACKUP
  <1> DEFINE q == down[k].sequence
             n == snapshots[s].messageNum
  <1>1. q \in 1..MaxSequence /\ q \in Int /\ cl.snapNum \in Nat /\ n \in Int
    BY DownFields, ClFields, SnapFields
  <1>2. Slot(n) = s /\ n \in 1..cl.snapNum /\ cl.snapNum - n < PACKET_BACKUP
    BY DEF Kept
  <1>3. cl.snapNum < q
    <2>1. cl.snapNum <= cl.sequence /\ cl.sequence < q /\ cl.sequence \in Int
      BY ClFields DEF OrderInv
    <2> QED BY <1>1, <2>1
  <1>4. s # Slot(q)
    OBVIOUS
  <1>5. ASSUME NEW i \in Int, i < q, i > cl.snapNum, i > q - PACKET_BACKUP PROVE s # Slot(i)
    <2>1. i \in Skipped(down[k])
      <3>1. i \in Sequence
        BY <1>1, <1>5, Constants DEF Sequence
      <3> QED BY <1>5, <3>1 DEF Skipped
    <2> QED BY <2>1 DEF Cleared
  <1> HIDE DEF q, n
  <1>6. PICK i \in Int : i <= q /\ i > q - PACKET_BACKUP /\ Slot(i) = s
    BY <1>1, SlotTaken
  <1>7. i < q
    BY <1>1, <1>4, <1>6
  <1>8. i <= cl.snapNum
    BY <1>1, <1>5, <1>6, <1>7
  <1>9. i = n
    <2>1. i - n < PACKET_BACKUP /\ n - i < PACKET_BACKUP
      BY <1>1, <1>2, <1>3, <1>6, <1>8, Constants
    <2> QED BY <1>1, <1>2, <1>6, <2>1, SlotsDiffer
  <1>10. q - n < PACKET_BACKUP
    BY <1>1, <1>6, <1>9, Constants
  <1> QED BY <1>10 DEF q, n

LEMMA TakenKept ==
    ASSUME TypeInv, MeantInv, OrderInv, KeptInv, NEW k \in DOMAIN down,
           NEW list \in Seq(Entity),
           down[k].sequence \notin crowded => list = meant[down[k].sequence],
           TakesSnapshot(down[k], list), meant' = meant, crowded' = crowded,
           cl'.snapNum = down[k].sequence, cl'.parseNum = cl.parseNum + Len(list)
    PROVE  KeptInv'
  <1>0. PICK q \in 1..MaxSequence : q = down[k].sequence
    BY DownFields
  <1>1. /\ q \in 1..MaxSequence /\ q \in Nat /\ cl.snapNum \in Nat /\ cl.parseNum \in Nat
        /\ down[k].sequence = q
    BY <1>0, DownFields, ClFields
  <1> DEFINE t == Slot(q)
  <1>2. /\ list \in Seq(Entity) /\ Len(list) \in Nat
        /\ q \notin crowded => meant[q] = list /\ Len(list) \in 0..Cardinality(Numbers)
    BY <1>0, <1>1, MeantFields
  <1>3. cl.snapNum < q
    <2>1. cl.snapNum <= cl.sequence /\ cl.sequence < q /\ cl.sequence \in Int
      BY <1>1, ClFields DEF OrderInv
    <2> QED BY <1>1, <2>1
  <1>4. /\ snapshots'[t] = [valid |-> TRUE, messageNum |-> q, first |-> cl.parseNum,
                            num |-> Len(list)]
        /\ \A s \in 0..PACKET_BACKUP - 1 :
              s # t => IF s \in Cleared(down[k]) THEN ~snapshots'[s].valid
                                                 ELSE snapshots'[s] = snapshots[s]
    BY <1>1, <1>2, TakenSnapshots
  <1>5. parseEntities' = Written(parseEntities, cl.parseNum, list)
    BY DEF TakesSnapshot
  <1>6. Kept(t)'
    <2>1. ASSUME q \notin crowded
          PROVE  ReadFrom(parseEntities', cl.parseNum, Len(list)) = list
      <3> DEFINE size == MAX_PARSE_ENTITIES
                 next == cl.parseNum
      <3>1. size \in Nat \ {0} /\ DOMAIN parseEntities = 0..size - 1
            /\ Len(list) <= size /\ next \in Nat
        BY SMTT(30), <1>1, <1>2, <2>1, Shapes, Constants
      <3> HIDE DEF size, next
      <3>2. ReadFrom(Written(parseEntities, next, list), next, Len(list)) = list
        BY ONLY <1>2, <3>1, ReadBack
      <3> QED BY <1>5, <3>2 DEF next
    <2>2. q \in 1..q /\ q - q < PACKET_BACKUP
      BY <1>1, Constants
    <2>3. /\ snapshots'[t].valid /\ snapshots'[t].messageNum = q
          /\ snapshots'[t].first = cl.parseNum /\ snapshots'[t].num = Len(list)
      BY <1>4
    <2>4. cl.parseNum + Len(list) <= cl'.parseNum
      BY <1>1, <1>2
    <2>5. (q \notin crowded => meant'[q] = list) /\ cl'.snapNum = q
      BY <1>1, <1>2
    <2> HIDE DEF t
    <2>6. t = Slot(q)
      BY DEF t
    <2> QED BY <2>1, <2>2, <2>3, <2>4, <2>5, <2>6 DEF Kept
  <1>7. ASSUME NEW s \in 0..PACKET_BACKUP - 1, s # t PROVE Kept(s)'
    <2>1. CASE ~snapshots'[s].valid
      BY <2>1 DEF Kept
    <2>2. CASE snapshots'[s].valid
      <3>1. s \notin Cleared(down[k]) /\ snapshots'[s] = snapshots[s]
        BY <1>4, <1>7, <2>2
      <3>2. Kept(s) /\ snapshots[s].valid
        BY <2>2, <3>1 DEF KeptInv
      <3>3. q - snapshots[s].messageNum < PACKET_BACKUP
        BY <1>1, <1>7, <3>1, <3>2, SparedIsNew
      <3>4. cl.snapNum <= cl'.snapNum /\ cl'.snapNum \in Nat
        BY <1>1, <1>3
      <3>5. cl'.snapNum - snapshots[s].messageNum < PACKET_BACKUP
        BY <1>1, <3>3
      <3> QED BY <1>2, <1>5, <3>1, <3>2, <3>4, <3>5, KeptKept
    <2> QED BY <2>1, <2>2
  <1> QED BY <1>6, <1>7 DEF KeptInv

LEMMA TakenBases ==
    ASSUME TypeInv, OrderInv, HadInv, NEW k \in DOMAIN down, down' = Rest(down, k),
           NEW list, Len(list) \in Nat, TakesSnapshot(down[k], list),
           sv' = sv, up' = up, cl'.serverId = cl.serverId, cl'.snapValid,
           cl'.snapNum = down[k].sequence
    PROVE  HadInv'
  <1> DEFINE q == down[k].sequence
             t == Slot(q)
  <1>1. q \in Nat /\ q \in 1..MaxSequence /\ cl.snapNum \in Nat
    BY DownFields, ClFields
  <1>2. cl.snapNum < q
    <2>1. cl.snapNum <= cl.sequence /\ cl.sequence < q /\ cl.sequence \in Int
      BY ClFields DEF OrderInv
    <2> QED BY <1>1, <2>1
  <1>3. /\ snapshots'[t] = [valid |-> TRUE, messageNum |-> q, first |-> cl.parseNum,
                            num |-> Len(list)]
        /\ \A s \in 0..PACKET_BACKUP - 1 :
              s # t => IF s \in Cleared(down[k]) THEN ~snapshots'[s].valid
                                                 ELSE snapshots'[s] = snapshots[s]
    BY TakenSnapshots
  <1>4. \A j \in DOMAIN down' : k + j \in DOMAIN down /\ down'[j] = down[k + j]
    BY DownRest
  <1>5. ASSUME NEW n \in 1..MaxSequence, NeedsHad(n)' PROVE Had(n)'
    <2>1. CASE n = q
      <3>1. n \in 1..cl'.snapNum
        BY <1>1, <2>1
      <3>2. snapshots'[Slot(n)].valid /\ snapshots'[Slot(n)].messageNum = n
        BY <1>3, <2>1
      <3> QED BY <3>1, <3>2 DEF Had
    <2>2. CASE n # q
      <3>1. NeedsHad(n)
        BY <1>4, <1>5, <2>2 DEF NeedsHad
      <3>2. Had(n)
        BY <3>1 DEF HadInv
      <3>3. n \in 1..cl.snapNum /\ n \in Int
        BY <3>2 DEF Had
      <3>4. n \in 1..cl'.snapNum
        BY <1>1, <1>2, <3>3
      <3>5. ASSUME cl'.snapNum - n < PACKET_BACKUP
            PROVE  snapshots'[Slot(n)].valid /\ snapshots'[Slot(n)].messageNum = n
        <4>1. q - n < PACKET_BACKUP
          BY <3>5
        <4>2. cl.snapNum - n < PACKET_BACKUP
          BY SMTT(30), <1>1, <1>2, <3>3, <4>1, Constants
        <4>3. snapshots[Slot(n)].valid /\ snapshots[Slot(n)].messageNum = n
          BY <3>2, <4>2 DEF Had
        <4>4. Slot(n) # t /\ Slot(n) \notin Cleared(down[k])
          BY <3>3, <4>1, SlotSpared
        <4>5. snapshots'[Slot(n)] = snapshots[Slot(n)]
          BY <1>3, <3>3, <4>4, SlotInRing
        <4> QED BY <4>3, <4>5
      <3> QED BY <3>4, <3>5 DEF Had
    <2> QED BY <2>1, <2>2
  <1>6. \A j \in DOMAIN down' :
            down'[j].base > 0 => /\ down'[j].map = cl'.serverId
                                 /\ down'[j].sequence - down'[j].base < PACKET_BACKUP - 3
    BY <1>4 DEF HadInv
  <1> QED BY <1>5, <1>6 DEF HadInv

LEMMA TakeUsable ==
    ASSUME IInv, NEW k \in DOMAIN down, down' = Rest(down, k),
           down[k].kind # "gamestate", NEW list \in Seq(Entity),
           down[k].sequence \notin crowded => list = meant[down[k].sequence],
           TakesSnapshot(down[k], list),
           sv' = sv, frames' = frames, snapshotEntities' = snapshotEntities,
           up' = up, meant' = meant, crowded' = crowded
    PROVE  IInv'
  <1>1. TypeInv /\ MeantInv /\ OrderInv /\ GamestateInv /\ BuiltInv /\ HadInv /\ OldInv /\ KeptInv
    BY DEF IInv
  <1> DEFINE q == down[k].sequence
             next == cl.parseNum
             new == next + Len(list)
  <1>2. q \in 1..MaxSequence /\ q \in Int /\ next \in Nat
    BY <1>1, DownFields, ClFields
  <1>3. q \in Sequence
    BY <1>2, Constants DEF Sequence
  <1>4. list \in Seq(Entity) /\ Len(list) \in Nat
    OBVIOUS
  <1>5. cl \in [serverId : 0..MaxMaps, sequence : Sequence, snapNum : Sequence,
                snapValid : BOOLEAN, parseNum : Nat]
    BY <1>1 DEF TypeInv, TypeOK
  <1>6. /\ cl' = [cl EXCEPT !.sequence = q, !.snapNum = q, !.snapValid = TRUE, !.parseNum = new]
        /\ parseEntities' = Written(parseEntities, next, list)
    BY DEF TakesSnapshot
  <1>7. new \in Nat
    BY <1>2, <1>4
  <1>8. q \notin crowded => list = meant[q]
    OBVIOUS
  <1> HIDE DEF q, new
  <1>9. /\ cl' \in [serverId : 0..MaxMaps, sequence : Sequence, snapNum : Sequence,
                    snapValid : BOOLEAN, parseNum : Nat]
        /\ cl'.sequence = q /\ cl'.serverId = cl.serverId /\ cl'.snapNum = q
        /\ cl'.snapValid /\ cl'.parseNum = new
    BY <1>3, <1>5, <1>6, <1>7
  <1>10. TypeInv'
    <2>1. down' \in Seq(Message) /\ Len(down') <= MaxDown
      BY <1>1, DownRest
    <2>2. parseEntities' \in [0..MAX_PARSE_ENTITIES - 1 -> Entity]
      <3> DEFINE size == MAX_PARSE_ENTITIES
      <3>1. size \in Nat \ {0} /\ parseEntities \in [0..size - 1 -> Entity]
        BY <1>1, Shapes, Constants
      <3> HIDE DEF size, next
      <3>2. Written(parseEntities, next, list) \in [0..size - 1 -> Entity]
        BY ONLY <1>2, <1>4, <3>1, WrittenType
      <3> QED BY <1>6, <3>2 DEF size
    <2>3. snapshots' \in [0..PACKET_BACKUP - 1 ->
            [valid : BOOLEAN, messageNum : Sequence, first : Nat, num : Nat]]
      BY <1>1, <1>4, TakenSnapshots
    <2> QED BY <1>1, <1>9, <2>1, <2>2, <2>3 DEF TypeInv, TypeOK
  <1>11. MeantInv'
    BY <1>1 DEF MeantInv
  <1>12. OrderInv'
    <2>1. cl'.snapNum <= cl'.sequence /\ cl'.sequence = down[k].sequence
      BY <1>2, <1>9 DEF q
    <2> QED BY <1>1, <1>9, <2>1, TakenOrder
  <1>13. GamestateInv'
    BY <1>1, <1>9, TakenGamestates
  <1>14. BuiltInv' /\ OldInv'
    BY <1>1, <1>9, TakenBuilt, TakenOld DEF q
  <1>15. HadInv'
    BY <1>1, <1>4, <1>9, TakenBases DEF q
  <1>16. KeptInv'
    BY <1>1, <1>8, <1>9, TakenKept DEF q, new
  <1> QED BY <1>10, <1>11, <1>12, <1>13, <1>14, <1>15, <1>16 DEF IInv

LEMMA Take ==
    ASSUME IInv, NEW k \in DOMAIN down, CL_ParseServerMessage(k)
    PROVE  IInv'
  <1> DEFINE m == down[k]
             old == snapshots[Slot(m.base)]
  <1>1. /\ down' = Rest(down, k)
        /\ sv' = sv /\ frames' = frames /\ snapshotEntities' = snapshotEntities
        /\ up' = up /\ meant' = meant /\ crowded' = crowded
    BY DEF CL_ParseServerMessage
  <1>2. m.kind \in {"gamestate", "snapshot", "empty"}
    BY DownFields DEF IInv
  <1>3. CASE m.kind = "gamestate"
    <2>1. CL_ParseGamestate(m)
      BY <1>3 DEF CL_ParseServerMessage
    <2> QED BY <1>1, <1>3, <2>1, TakeGamestate
  <1>4. CASE m.kind = "empty"
    <2>1. cl' = [cl EXCEPT !.sequence = m.sequence]
          /\ snapshots' = snapshots /\ parseEntities' = parseEntities
      BY <1>4 DEF CL_ParseServerMessage
    <2> QED BY <1>1, <1>4, <2>1, TakeEmpty
  <1>5. CASE m.kind = "snapshot"
    <2>1. CL_ParseSnapshot(m)
      BY <1>5 DEF CL_ParseServerMessage
    <2>4. PICK list \in CL_ParsePacketEntities(m, old) :
              IF Usable(m, old)
              THEN TakesSnapshot(m, list)
              ELSE /\ cl' = [cl EXCEPT !.sequence = m.sequence, !.parseNum = @ + Len(list)]
                   /\ parseEntities' = Written(parseEntities, cl.parseNum, list)
                   /\ snapshots' = snapshots
      BY <2>1 DEF CL_ParseSnapshot, TakesSnapshot, Cleared
    <2>5. list \in Seq(Entity)
      BY <2>4, ParsedType DEF IInv
    <2>2. CASE Usable(m, old)
      <3>1. m.sequence \notin crowded => list = meant[m.sequence]
        BY <1>5, <2>2, <2>4, ParsedIs
      <3>2. TakesSnapshot(m, list)
        BY <2>2, <2>4
      <3> QED BY <1>1, <1>5, <2>5, <3>1, <3>2, TakeUsable
    <2>3. CASE ~Usable(m, old)
      <3>1. /\ cl' = [cl EXCEPT !.sequence = m.sequence, !.parseNum = @ + Len(list)]
            /\ parseEntities' = Written(parseEntities, cl.parseNum, list)
            /\ snapshots' = snapshots
        BY <2>3, <2>4
      <3> QED BY ZenonT(30), <1>1, <1>5, <2>5, <3>1, TakeUnusable
    <2> QED BY <2>2, <2>3
  <1> QED BY <1>2, <1>3, <1>4, <1>5

-----------------------------------------------------------------------------
(* The invariant, and what follows from it. *)

LEMMA InitInv == Init => IInv
  <1> SUFFICES ASSUME Init PROVE IInv
    OBVIOUS
  <1>1. /\ sv = [map |-> 1, state |-> "connected", gentity |-> TRUE, outgoing |-> 1,
                 gamestateMessageNum |-> -1, deltaMessage |-> 0, next |-> 0]
        /\ cl = [serverId |-> 0, sequence |-> 0, snapNum |-> 0, snapValid |-> FALSE,
                 parseNum |-> 0]
        /\ down = <<>> /\ up = <<>>
    BY DEF Init
  <1>2. TypeInv
    <2>1. sv \in [map : 1..MaxMaps, state : {"connected", "primed", "active"},
               gentity : BOOLEAN, outgoing : 1..MaxSequence + 1,
               gamestateMessageNum : -1..MaxSequence, deltaMessage : -1..MaxSequence,
               next : Nat]
      BY <1>1, Constants
    <2>2. cl \in [serverId : 0..MaxMaps, sequence : Sequence, snapNum : Sequence,
               snapValid : BOOLEAN, parseNum : Nat]
      BY <1>1, Constants DEF Sequence
    <2>3. frames \in [0..PACKET_BACKUP - 1 -> [first : Nat, num : 0..Cardinality(Numbers)]]
      BY Constants DEF Init
    <2>4. snapshotEntities \in [0..RingSize - 1 -> Entity]
      BY DEF Init, Blank, Entity
    <2>5. snapshots \in [0..PACKET_BACKUP - 1 ->
            [valid : BOOLEAN, messageNum : Sequence, first : Nat, num : Nat]]
      BY Constants DEF Init, Sequence
    <2>6. parseEntities \in [0..MAX_PARSE_ENTITIES - 1 -> Entity]
      BY DEF Init, Blank, Entity
    <2>7. down \in Seq(Message) /\ up \in Seq(Packet) /\ Len(down) <= MaxDown /\ Len(up) <= MaxUp
      BY <1>1, Constants
    <2> QED BY <2>1, <2>2, <2>3, <2>4, <2>5, <2>6, <2>7 DEF TypeInv, TypeOK
  <1>3. MeantInv
    <2>1. meant = [s \in 1..MaxSequence |-> <<>>]
      BY DEF Init
    <2> QED BY <2>1, Constants DEF MeantInv
  <1>4. OrderInv /\ GamestateInv /\ BuiltInv /\ HadInv /\ OldInv
    <2>1. DOMAIN down = {} /\ DOMAIN up = {}
      BY <1>1
    <2>2. OrderInv
      BY <1>1, <2>1 DEF OrderInv
    <2>3. GamestateInv
      BY <1>1, <2>1 DEF GamestateInv
    <2>4. BuiltInv
      BY <1>1, <2>1 DEF BuiltInv, NeedsBuilt
    <2>5. HadInv
      BY <1>1, <2>1 DEF HadInv, NeedsHad
    <2>6. OldInv
      BY <2>1 DEF OldInv
    <2> QED BY <2>2, <2>3, <2>4, <2>5, <2>6
  <1>5. KeptInv
    BY DEF Init, KeptInv, Kept
  <1> QED BY <1>2, <1>3, <1>4, <1>5 DEF IInv

LEMMA NextInv == IInv /\ [Next]_vars => IInv'
  <1> SUFFICES ASSUME IInv, [Next]_vars PROVE IInv'
    OBVIOUS
  <1>1. CASE \E visible \in Views : SV_SendClientSnapshot(visible, FALSE)
    BY <1>1, Send, SnapshotAssumption
  <1>2. CASE SV_SendClientSnapshot(Numbers, TRUE)
    BY <1>2, Send
  <1>3. CASE OtherClientSnapshot
    BY <1>3, Other
  <1>4. CASE SV_SpawnServer
    BY <1>4, Spawn
  <1>5. CASE \E k \in DOMAIN up : SV_ExecuteClientMessage(k)
    BY <1>5, Execute
  <1>6. CASE \E k \in DOMAIN down : CL_ParseServerMessage(k)
    BY <1>6, Take
  <1>7. CASE CL_WritePacket
    BY <1>7, Write
  <1>8. CASE UNCHANGED vars
    BY SMTT(30), <1>8 DEF vars, IInv, TypeInv, TypeOK, MeantInv, OrderInv, GamestateInv, BuiltInv,
         NeedsBuilt, Built, HadInv, NeedsHad, Had, OldInv, KeptInv, Kept
  <1> QED BY <1>1, <1>2, <1>3, <1>4, <1>5, <1>6, <1>7, <1>8 DEF Next

\* The invariant holds in every state of every behaviour.
THEOREM Inductive == Spec => []IInv
  BY InitInv, NextInv, PTL DEF Spec

\* When cgame is given a snapshot, its entities are those the server saw for
\* that message, unless it comes from a delta in which ParseMargin entities or
\* more appeared: CL_GetSnapshot's two age checks, of the snapshot's slot and
\* of its entities, leave nothing that was written over.
THEOREM CgameSees == Spec => []CgameSeesWhatWasSent
  <1>1. IInv => CgameSeesWhatWasSent
    <2> SUFFICES ASSUME IInv, NEW n \in (1..MaxSequence) \ crowded, CL_GetSnapshot(n)
                 PROVE  LET s == snapshots[Slot(n)]
                        IN  ReadFrom(parseEntities, s.first, s.num) = meant[n]
      BY DEF CgameSeesWhatWasSent
    <2>1. TypeInv /\ KeptInv
      BY DEF IInv
    <2>2. /\ n <= cl.snapNum /\ cl.snapNum - n < PACKET_BACKUP
          /\ snapshots[Slot(n)].valid
          /\ cl.parseNum - snapshots[Slot(n)].first < MAX_PARSE_ENTITIES
      BY DEF CL_GetSnapshot
    <2> DEFINE i == snapshots[Slot(n)].messageNum
    <2>3. n \in Int /\ Slot(n) \in 0..PACKET_BACKUP - 1
      BY SlotInRing
    <2>4. Kept(Slot(n))
      BY <2>1, <2>3 DEF KeptInv
    <2>5. /\ Slot(i) = Slot(n) /\ i <= cl.snapNum /\ cl.snapNum - i < PACKET_BACKUP
          /\ i \notin crowded =>
                ReadFrom(parseEntities, snapshots[Slot(n)].first, snapshots[Slot(n)].num) = meant[i]
      BY <2>2, <2>4 DEF Kept
    <2>6. i \in Int /\ cl.snapNum \in Int
      BY <2>1, <2>3, SnapFields, ClFields
    <2> HIDE DEF i
    <2>7. i = n
      <3>1. i - n < PACKET_BACKUP /\ n - i < PACKET_BACKUP
        BY <2>2, <2>3, <2>5, <2>6, Constants
      <3> QED BY <2>3, <2>5, <2>6, <3>1, SlotsDiffer
    <2> QED BY <2>5, <2>7
  <1> QED BY <1>1, Inductive, PTL

\* Rings and counters keep their types, and no message under way is a delta
\* from a snapshot the client does not have: "Delta from invalid frame" and
\* "Delta frame too old" in CL_ParseSnapshot really are not supposed to happen.
THEOREM Bases == Spec => []BasesHold
  <1>1. IInv => BasesHold
    <2> SUFFICES ASSUME IInv PROVE TypeOK /\ BaseIsHeld
      BY DEF BasesHold
    <2>1. TypeInv /\ OrderInv /\ HadInv
      BY DEF IInv
    <2>2. BaseIsHeld
      BY <2>1, BaseHeld DEF BaseIsHeld
    <2> QED BY <2>1, <2>2 DEF TypeInv
  <1> QED BY <1>1, Inductive, PTL

\* A delta is made from the entities of the message it names: the server's
\* checks on the age of the frame and of its entities are enough.
THEOREM BaseStates == Spec => []BaseIsIntact
  <1>1. IInv => BaseIsIntact
    BY DEF IInv, OldInv, BaseIsIntact
  <1> QED BY <1>1, Inductive, PTL
=============================================================================
