----------------------------- MODULE RateLimit ------------------------------
(***************************************************************************)
(* The leaky buckets in front of the server's connectionless queries       *)
(* (sv_main.c): SVC_BucketForAddress finds or makes the bucket of an       *)
(* address, in an array and in hash chains of prev and next pointers, and  *)
(* reclaims buckets that have run dry; SVC_RateLimit fills and drains it.  *)
(***************************************************************************)
EXTENDS Integers, Sequences, FiniteSets, Functions

CONSTANTS
    Addresses,
    Hash,               \* SVC_HashForAddress
    MAX_BUCKETS,
    Burst, Period,      \* the limits of the caller, the same for all
    MaxTime             \* bound on Sys_Milliseconds

\* 0 is the address of a free bucket.  Parts lets TLC look at it.
RateLimitAssumption ==
    /\ 0 \notin Addresses /\ MAX_BUCKETS \in Nat
    /\ Burst \in Nat /\ Period \in Nat \ {0} /\ MaxTime \in Nat \ {0}

VARIABLES
    now,
    buckets,            \* the array; address 0 is a free bucket, NA_BAD
    bucketHashes,       \* first bucket of each chain, 0 is NULL
    answered            \* history: the times each address was answered at

vars == <<now, buckets, bucketHashes, answered>>

Free == [address |-> 0, lastTime |-> 0, burst |-> 0, prev |-> 0, next |-> 0]
Bucket == 1..MAX_BUCKETS
Hashes == {Hash[a] : a \in Addresses}

Init ==
    /\ now = 1
    /\ buckets = [i \in Bucket |-> Free]
    /\ bucketHashes = [h \in Hashes |-> 0]
    /\ answered = [a \in Addresses |-> <<>>]

-----------------------------------------------------------------------------
\* Every bucket of a chain, following next from its head.
Chain(heads, bs, h) ==
    LET walk[n \in 0..MAX_BUCKETS] ==
            IF n = 0 THEN (IF heads[h] = 0 THEN <<>> ELSE <<heads[h]>>)
            ELSE LET w == walk[n - 1]
                     last == w[Len(w)]
                 IN  IF w = <<>> \/ bs[last].next = 0 THEN w ELSE Append(w, bs[last].next)
    IN  walk[MAX_BUCKETS]

InChain(a) ==
    {i \in Range(Chain(bucketHashes, buckets, Hash[a])) : buckets[i].address = a}

\* BUG: the next bucket keeps its prev pointer to the reclaimed one.
BugUnlinked(s, i) ==
    LET b == s.buckets[i]
        bs == [s.buckets EXCEPT ![i] = Free]
    IN  [buckets |-> IF b.prev # 0 THEN [bs EXCEPT ![b.prev].next = b.next] ELSE bs,
         heads |-> IF b.prev = 0 THEN [s.heads EXCEPT ![Hash[b.address]] = b.next] ELSE s.heads]

\* A bucket is taken out of its chain and cleared.
Unlinked(s, i) ==
    LET b == s.buckets[i]
        bs1 == [s.buckets EXCEPT ![i] = Free]
        bs2 == IF b.prev # 0 THEN [bs1 EXCEPT ![b.prev].next = b.next] ELSE bs1
        bs3 == IF b.next # 0 THEN [bs2 EXCEPT ![b.next].prev = b.prev] ELSE bs2
    IN  [buckets |-> bs3,
         heads |-> IF b.prev = 0 THEN [s.heads EXCEPT ![Hash[b.address]] = b.next] ELSE s.heads]

Expired(b) == b.lastTime > 0 /\ now - b.lastTime > Burst * Period

\* The array is searched for the first bucket that is free or can be reclaimed.
FirstUsable ==
    LET stops == {i \in Bucket : Expired(buckets[i]) \/ buckets[i].address = 0}
    IN  IF stops = {} THEN {} ELSE {CHOOSE i \in stops : \A j \in stops : i <= j}

\* A bucket for an address that has none: the first free or expired one, at
\* the head of its chain.
Allocated(a, i) ==
    LET s  == IF Expired(buckets[i])
              THEN Unlinked([buckets |-> buckets, heads |-> bucketHashes], i)
              ELSE [buckets |-> buckets, heads |-> bucketHashes]
        head == s.heads[Hash[a]]
        bs == [s.buckets EXCEPT ![i] = [Free EXCEPT !.address = a, !.lastTime = now,
                                                    !.next = head]]
    IN  [buckets |-> IF head # 0 THEN [bs EXCEPT ![head].prev = i] ELSE bs,
         heads |-> [s.heads EXCEPT ![Hash[a]] = i]]

\* BUG: what has not run out yet is forgotten.
BugDrained(b) ==
    LET expired == (now - b.lastTime) \div Period
    IN  [b EXCEPT !.burst = 0, !.lastTime = now]

\* SVC_RateLimit: what has run out since lastTime, in whole periods.
Drained(b) ==
    LET expired == (now - b.lastTime) \div Period
    IN  IF expired > b.burst THEN [b EXCEPT !.burst = 0, !.lastTime = now]
        ELSE [b EXCEPT !.burst = @ - expired,
                       !.lastTime = now - ((now - b.lastTime) % Period)]

HasRoom(b) == b.burst < Burst

\* SVC_RateLimitAddress: the query is answered if its bucket has room for a
\* drop; without a bucket it is not.
SVC_RateLimitAddress(a) ==
    LET found == InChain(a)
        bucket == IF found # {} THEN found ELSE FirstUsable
    IN  IF bucket = {}
        THEN UNCHANGED <<buckets, bucketHashes, answered>>
        ELSE LET i == CHOOSE i \in bucket : TRUE
                 s == IF found # {} THEN [buckets |-> buckets, heads |-> bucketHashes]
                      ELSE Allocated(a, i)
                 b == Drained(s.buckets[i])
             IN  /\ bucketHashes' = s.heads
                 /\ IF HasRoom(b)
                    THEN /\ buckets' = [s.buckets EXCEPT ![i] = [b EXCEPT !.burst = @ + 1]]
                         /\ answered' = [answered EXCEPT ![a] = Append(@, now)]
                    ELSE /\ buckets' = [s.buckets EXCEPT ![i] = b]
                         /\ UNCHANGED answered

Query == \E a \in Addresses : SVC_RateLimitAddress(a) /\ UNCHANGED now

Tick == now < MaxTime /\ now' = now + 1 /\ UNCHANGED <<buckets, bucketHashes, answered>>

Next == Query \/ Tick

Spec == Init /\ [][Next]_vars

-----------------------------------------------------------------------------
(* Properties *)

\* Buckets have their shapes.
TypeOK ==
    /\ buckets \in [Bucket -> [address : Addresses \cup {0}, lastTime : 0..MaxTime,
                               burst : 0..Burst, prev : 0..MAX_BUCKETS, next : 0..MAX_BUCKETS]]
    /\ bucketHashes \in [Hashes -> 0..MAX_BUCKETS]

\* Every chain holds the buckets of its hash, each once, linked both ways, and
\* no address has two: whatever was reclaimed from the middle of which chain.
ChainsExact ==
    /\ \A h \in Hashes :
          LET c == Chain(bucketHashes, buckets, h)
          IN  /\ IsInjective(c)
              /\ Range(c) = {i \in Bucket : buckets[i].address # 0 /\ Hash[buckets[i].address] = h}
              /\ \A k \in 1..Len(c) : buckets[c[k]].prev = (IF k = 1 THEN 0 ELSE c[k - 1])
    /\ \A i, j \in Bucket : buckets[i].address = buckets[j].address => i = j \/ buckets[i].address = 0

\* Between any two answers an address had no more than Burst answers and one
\* for each period and its beginning, though its bucket may have been given to
\* another address in between.
LimitHolds ==
    \A a \in Addresses : \A i, j \in 1..Len(answered[a]) :
        i <= j => j - i + 1 <= Burst + 1 + (answered[a][j] - answered[a][i]) \div Period

\* What the buckets keep to: their chains and their limit.
BucketsHold == TypeOK /\ ChainsExact /\ LimitHolds
=============================================================================
