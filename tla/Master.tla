------------------------------- MODULE Master --------------------------------
(***************************************************************************)
(* The master server's table of game servers (master/servers.c and         *)
(* messages.c): heartbeats, the challenge a server must answer before it   *)
(* is listed, and entries that time out, which are found and removed only  *)
(* while somebody walks along their chain or looks for a free slot.        *)
(*                                                                         *)
(* A chain is the sequence of its slots.  A challenge is the second it was *)
(* built in.  Left out: address mappings, loopback addresses, protocols,   *)
(* numbers of players, packet sizes, motd and statistics.                  *)
(***************************************************************************)
EXTENDS Integers, Sequences, FiniteSets, Lists

CONSTANTS
    Addresses,
    Hash,               \* Sv_AddressHash
    MaxServers,         \* max_nb_servers
    TIMEOUT_HEARTBEAT, TIMEOUT_INFORESPONSE, TIMEOUT_CHALLENGE,
    MaxTime             \* bound on crt_time, in seconds

\* A heartbeat keeps an entry no longer than an infoResponse does.  Parts lets
\* TLC look at it.
MasterAssumption ==
    /\ Addresses # {} /\ MaxServers \in Nat \ {0} /\ MaxTime \in Nat \ {0}
    /\ TIMEOUT_HEARTBEAT \in Nat /\ TIMEOUT_INFORESPONSE \in Nat /\ TIMEOUT_CHALLENGE \in Nat
    /\ TIMEOUT_HEARTBEAT <= TIMEOUT_INFORESPONSE

VARIABLES
    crt_time,
    servers,            \* the array
    hash_table,
    last_alloc,
    asked,              \* challenges on their way to an address or back
    answered            \* history: the newest challenge each address answered

vars == <<crt_time, servers, hash_table, last_alloc, asked, answered>>

Slot   == 0..MaxServers - 1
Hashes == {Hash[a] : a \in Addresses}
Never  == 0

\* known says that there was an infoResponse: maxclients is not 0.
Entry(a) == [address |-> a, active |-> TRUE, timeout |-> Never, challenge |-> Never, known |-> FALSE]
NoEntry  == [Entry(CHOOSE a \in Addresses : TRUE) EXCEPT !.active = FALSE]

Init ==
    /\ crt_time = 1
    /\ servers = [i \in Slot |-> NoEntry]
    /\ hash_table = [h \in Hashes |-> <<>>]
    /\ last_alloc = MaxServers - 1
    /\ asked = [a \in Addresses |-> {}]
    /\ answered = [a \in Addresses |-> Never]

-----------------------------------------------------------------------------
(* The table *)

Expired(i) == servers[i].timeout < crt_time
Live(i)    == servers[i].active /\ ~Expired(i)
Has(i, a)  == ~Expired(i) /\ servers[i].address = a

\* What is left of the table when some slots are removed.
Without(removed) ==
    [table |-> [h \in Hashes |-> Kept(hash_table[h], removed)],
     servers |-> [i \in Slot |-> IF i \in removed THEN NoEntry ELSE servers[i]]]

\* The search in the chain of a removes what has timed out before it finds a.
Found(a)  == {i \in Slot : servers[i].active /\ Has(i, a)}
Passed(a) ==
    LET chain == hash_table[Hash[a]]
    IN  {chain[k] : k \in {n \in DOMAIN chain :
            Expired(chain[n]) /\ \A m \in 1..n - 1 : ~Has(chain[m], a)}}

\* BUG: what is put on top stays where it was.
BugOnTop(chain, i) == <<i>> \o chain

OnTop(chain, i) == <<i>> \o Kept(chain, {i})

\* BUG: the entry allocated last is not looked at again.
BugFreeSlots(left) == {n \in 1..MaxServers - 1 :
                        LET i == (last_alloc + n) % MaxServers
                        IN  ~left[i].active \/ left[i].timeout < crt_time}

\* Free entries, by their distance from last_alloc; Sv_IsActive finds those
\* that have timed out.
FreeSlots(left) == {n \in 1..MaxServers :
                        LET i == (last_alloc + n) % MaxServers
                        IN  ~left[i].active \/ left[i].timeout < crt_time}

-----------------------------------------------------------------------------
(* Messages *)

\* BUG: a challenge is never renewed.
BugOutdated(e) == e.challenge = Never

\* The challenge has timed out, or there is none.
Outdated(e) == e.challenge = Never \/ e.challenge + TIMEOUT_CHALLENGE < crt_time

\* What a heartbeat makes of an entry: SendGetInfo is a part of it.
Beaten(e) ==
    [e EXCEPT !.timeout = IF e.known THEN @ ELSE crt_time + TIMEOUT_HEARTBEAT,
              !.challenge = IF Outdated(e) THEN crt_time ELSE @]

\* HandleMessage of a heartbeat with the table left, and the entry in slot i.
Beats(left, table, i, e) ==
    /\ servers' = [left EXCEPT ![i] = Beaten(e)]
    /\ hash_table' = [table EXCEPT ![Hash[e.address]] = OnTop(@, i)]
    /\ asked' = [asked EXCEPT ![e.address] = @ \cup {Beaten(e).challenge}]

Heartbeat(a) ==
    LET w == Without(Passed(a))
        n == CHOOSE k \in FreeSlots(w.servers) : \A m \in FreeSlots(w.servers) : k <= m
        i == (last_alloc + n) % MaxServers
    IN  /\ \/ /\ Found(a) # {}
              /\ \E j \in Found(a) : Beats(w.servers, w.table, j, servers[j])
              /\ UNCHANGED last_alloc
           \/ /\ Found(a) = {} /\ FreeSlots(w.servers) # {}
              /\ LET v == Without(Passed(a) \cup {i}) IN Beats(v.servers, v.table, i, Entry(a))
              /\ last_alloc' = i
           \/ /\ Found(a) = {} /\ FreeSlots(w.servers) = {}
              /\ servers' = w.servers /\ hash_table' = w.table
              /\ UNCHANGED <<last_alloc, asked>>
        /\ UNCHANGED <<crt_time, answered>>

\* BUG: an answer is taken however old the challenge is.
BugIsAnswer(e, challenge) == e.challenge # Never /\ challenge = e.challenge

\* HandleInfoResponse takes the answer to a challenge that has not timed out.
IsAnswer(e, challenge) == ~Outdated(e) /\ challenge = e.challenge

\* Sv_GetByAddr puts what it finds on top of the chain.
Looked(a) ==
    LET table == Without(Passed(a)).table
    IN  hash_table' = IF Found(a) = {} THEN table
                      ELSE [table EXCEPT ![Hash[a]] = OnTop(@, CHOOSE i \in Found(a) : TRUE)]

\* An infoResponse, which may come late and twice.
InfoResponse(a, challenge) ==
    /\ challenge \in asked[a]
    /\ Looked(a)
    /\ servers' = [i \in Slot |->
          IF i \in Found(a) /\ IsAnswer(servers[i], challenge)
          THEN [servers[i] EXCEPT !.known = TRUE, !.timeout = crt_time + TIMEOUT_INFORESPONSE]
          ELSE Without(Passed(a)).servers[i]]
    /\ answered' = IF answered[a] < challenge THEN [answered EXCEPT ![a] = challenge] ELSE answered
    /\ UNCHANGED <<crt_time, last_alloc, asked>>

\* An infoResponse that is refused, for its challenge or as it lacks a host name,
\* a protocol or a number of clients; and a game statistic, taken elsewhere.
Refused(a) ==
    /\ Looked(a)
    /\ servers' = Without(Passed(a)).servers
    /\ UNCHANGED <<crt_time, last_alloc, asked, answered>>

\* Positions Sv_GetFirst and Sv_GetNext stop at along one chain: what has timed
\* out is removed, and the entry behind it taken for the one looked at.
Visited(chain) ==
    LET at[k \in Nat] ==
          \/ k = 1
          \/ k > 1 /\ at[k - 1] /\ ~Expired(chain[k - 1])
          \/ k > 2 /\ at[k - 2] /\ Expired(chain[k - 2])
    IN  {chain[k] : k \in {n \in DOMAIN chain : at[n]}}

Listed == {i \in UNION {Visited(hash_table[h]) : h \in Hashes} : ~Expired(i)}

\* HandleGetServers
GetServers ==
    LET w == Without({i \in UNION {Visited(hash_table[h]) : h \in Hashes} : Expired(i)})
    IN  /\ servers' = w.servers /\ hash_table' = w.table
        /\ UNCHANGED <<crt_time, last_alloc, asked, answered>>

Second ==
    /\ crt_time < MaxTime /\ crt_time' = crt_time + 1
    /\ UNCHANGED <<servers, hash_table, last_alloc, asked, answered>>

Next ==
    \/ \E a \in Addresses : Heartbeat(a)
    \/ \E a \in Addresses : \E c \in asked[a] : InfoResponse(a, c)
    \/ \E a \in Addresses : Refused(a)
    \/ GetServers
    \/ Second

-----------------------------------------------------------------------------
(* Properties *)

TypeOK ==
    /\ crt_time \in 1..MaxTime /\ last_alloc \in Slot
    /\ \A i \in Slot : /\ servers[i].address \in Addresses
                       /\ servers[i].timeout \in 0..MaxTime + TIMEOUT_INFORESPONSE
                       /\ servers[i].challenge \in 0..crt_time
    /\ \A h \in Hashes : hash_table[h] \in Seq(Slot)

\* Every entry in use is in one chain, once, and in the chain of its address;
\* no other is in any; and no address has two entries.
TableWhole ==
    /\ \A h \in Hashes, i \in Slot :
        Cardinality({k \in DOMAIN hash_table[h] : hash_table[h][k] = i})
            = IF servers[i].active /\ Hash[servers[i].address] = h THEN 1 ELSE 0
    /\ \A i, j \in Slot : i # j /\ servers[i].active /\ servers[j].active
                            => servers[i].address # servers[j].address

\* Who is listed has answered a challenge, and not after it had timed out: his
\* time on the list ends when that of the newest one he answered can.
ListedHaveAnswered ==
    \A i \in Slot : Live(i) /\ servers[i].known =>
        LET c == answered[servers[i].address]
        IN  c # Never /\ servers[i].timeout <= c + TIMEOUT_CHALLENGE + TIMEOUT_INFORESPONSE

\* A heartbeat is refused only if every entry is another server's that has not
\* timed out, wherever those that have lie in the chains and in the array.
RefusedOnlyIfFull ==
    \A a \in Addresses :
        Found(a) = {} /\ FreeSlots(Without(Passed(a)).servers) = {}
            => \A i \in Slot : Live(i) /\ servers[i].address # a

\* "Add every relevant server" (messages.c:232).  It does not hold: a server
\* behind one that timed out is left out of the answer.
ListsAll == \A i \in Slot : Live(i) => i \in Listed
=============================================================================
