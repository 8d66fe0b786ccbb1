---------------------------- MODULE DownloadProof ----------------------------
(***************************************************************************)
(* Proofs about Download, for any files, any window that is no longer than *)
(* the numbers a block can have, and any bounds (DownloadAssumption).  The *)
(* invariant says at which stage a download is; each stage ties together   *)
(* what the client has, which acknowledges are under way, what the server  *)
(* has counted and read, and which blocks are under way.                   *)
(***************************************************************************)
EXTENDS Download, SequenceTheorems, TLAPS

Command == [cmd : {"download", "nextdl", "stopdl", "donedl"}, arg : Nat]

Data == Nat \X Nat

Message == [kind : {"block", "refusal"}, block : Int, data : Data]

\* Block n of file f: one more than those with data is the Eof block.
BlockOf(f, n) == IF n < files[f] THEN <<f, n + 1>> ELSE Eof

Counters == [name : 0..Len(files), open : BOOLEAN, current : Nat, client : Nat,
             xmit : Nat, count : Nat, eof : BOOLEAN]

TypeInv ==
    /\ files \in Seq(Int) \ {<<>>} /\ punctual \in BOOLEAN /\ <<files, punctual>> \in Cases
    /\ dl \in Counters
    /\ window \in [0..MAX_DOWNLOAD_WINDOW - 1 -> Data]
    /\ late \in BOOLEAN /\ state \in {"connected", "primed"}
    /\ cl \in [file : -1..Len(files), block : Nat, data : Seq(Data)]
    /\ saved \in [DOMAIN files -> Seq(Data)]
    /\ commands \in Seq(Command) /\ down \in Seq(Message)

\* The server's counters d fit each other, and the window w holds the blocks
\* between them.
Reading(d, w) ==
    /\ d.count \in 0..files[d.name]
    /\ d.current = IF d.eof THEN d.count + 1 ELSE d.count
    /\ d.eof => d.count = files[d.name]
    /\ d.client <= d.current /\ d.current <= d.client + MAX_DOWNLOAD_WINDOW
    /\ d.xmit <= d.current
    /\ \A n \in d.client..d.current - 1 : w[n % MAX_DOWNLOAD_WINDOW] = BlockOf(d.name, n)

Serving == dl.open /\ dl.name \in 1..Len(files) /\ files[dl.name] >= 0 /\ Reading(dl, window)

\* The first of the commands q acknowledge the blocks from c to z - 1.
Acks(q, c, z) ==
    /\ c <= z /\ z <= c + Len(q)
    /\ \A k \in 1..Len(q) : c + k <= z => q[k] = [cmd |-> "nextdl", arg |-> c + (k - 1)]

Acking(z) == Acks(commands, dl.client, z)

\* The client has nothing yet of the file it downloads.
Fresh ==
    /\ state = "connected"
    /\ cl.file \in 1..Len(files) /\ cl.block = 0 /\ cl.data = <<>>

(* The stages of a download. *)

\* Its request is under way, and nothing else.
Asked ==
    /\ Fresh /\ dl.name = 0 /\ ~dl.open /\ ~late /\ down = <<>>
    /\ commands = <<[cmd |-> "download", arg |-> cl.file]>>

\* The server has the request.
Waiting ==
    Fresh /\ dl.name = cl.file /\ ~dl.open /\ ~late /\ down = <<>> /\ commands = <<>>

\* The server has refused.
Refused ==
    /\ Fresh /\ dl.name = 0 /\ ~dl.open /\ commands = <<>>
    /\ \A k \in 1..Len(down) : down[k].kind = "refusal"

\* The client has given up.
GivenUp ==
    state = "connected" /\ cl.file = -1 /\ dl.name = 0 /\ ~dl.open /\ commands = <<>>

\* What is under way to the client: blocks of file f it has, those before b, or
\* as they are in the file; in a row up to the one before x, if only lost blocks
\* are late.
AsInFile(q, f, b, c, x) ==
    \A k \in 1..Len(q) : \E n \in 0..c - 1 :
        /\ q[k].kind = "block" /\ q[k].block = Short(n)
        /\ n < b \/ q[k].data = BlockOf(f, n)
        /\ punctual => n + Len(q) = x + (k - 1)

SentInv == AsInFile(down, cl.file, cl.block, dl.current, dl.xmit)

\* Blocks go and acknowledges come.
Running ==
    /\ state = "connected" /\ Serving /\ cl.file = dl.name
    /\ cl.block <= files[cl.file] /\ cl.block <= ShortRange /\ cl.block <= dl.current
    /\ Len(cl.data) = cl.block /\ \A i \in 1..cl.block : cl.data[i] = <<cl.file, i>>
    /\ Acking(cl.block) /\ Len(commands) + dl.client = cl.block
    /\ SentInv
    /\ punctual /\ late => down = <<>> /\ commands = <<>>

\* The client has the file and has asked for the next one.
Changing ==
    /\ Fresh /\ Serving /\ cl.file = dl.name + 1 /\ punctual
    /\ dl.eof /\ dl.xmit = dl.current /\ ~late /\ down = <<>>
    /\ dl.client < dl.current /\ Acking(dl.current)
    /\ Len(commands) + dl.client = dl.current + 1
    /\ commands[Len(commands)] = [cmd |-> "download", arg |-> cl.file]

\* The client has all files and asks for a gamestate.
Ending ==
    /\ cl.file = 0
    /\ \/ /\ state = "connected" /\ Serving /\ dl.eof
          /\ dl.client < dl.current /\ Acking(dl.current)
          /\ dl.current < dl.client + Len(commands)
          /\ commands[dl.current - dl.client + 1].cmd = "donedl"
       \/ /\ state = "connected" /\ ~dl.open /\ dl.name = 0
          /\ commands # <<>> /\ commands[1].cmd = "donedl"
       \/ state = "primed" /\ ~dl.open /\ dl.name = 0

Stage ==
    Asked \/ Waiting \/ Refused \/ GivenUp \/ Running \/ Changing \/ Ending

IInv == TypeInv /\ SavedIsServed /\ Stage

-----------------------------------------------------------------------------
(* Numbers. *)

LEMMA DivMod ==
    ASSUME NEW m \in Nat \ {0}, NEW n \in Int
    PROVE  n \div m \in Int /\ n = m * (n \div m) + (n % m) /\ n % m \in 0..m - 1
  OBVIOUS

LEMMA SmallMultiple ==
    ASSUME NEW m \in Nat \ {0}, NEW q \in Int, m * q < m, m * q > 0
    PROVE  FALSE
  OBVIOUS

\* Numbers less than a round apart have different places.
LEMMA PlacesDiffer ==
    ASSUME NEW m \in Nat \ {0}, NEW a \in Int, NEW b \in Int, a < b, b < a + m
    PROVE  a % m # b % m
  <1>1. PICK q \in Int : a = m * q + (a % m)
    BY DivMod
  <1>2. PICK p \in Int : b = m * p + (b % m)
    BY DivMod
  <1>3. SUFFICES ASSUME a % m = b % m PROVE FALSE
    OBVIOUS
  <1>4. b - a = m * (p - q)
    BY <1>1, <1>2, <1>3, DivMod
  <1>5. p - q \in Int /\ m * (p - q) > 0 /\ m * (p - q) < m
    BY <1>4
  <1> QED BY <1>5, SmallMultiple

LEMMA SmallMod == ASSUME NEW m \in Nat \ {0}, NEW n \in 0..m - 1 PROVE n % m = n
  <1>1. n = m * (n \div m) + (n % m) /\ n \div m \in Int /\ n % m \in 0..m - 1
    BY DivMod
  <1> DEFINE q == n \div m
             r == n % m
  <1>2. q \in Int /\ r \in 0..m - 1 /\ n = m * q + r
    BY <1>1
  <1> HIDE DEF q, r
  <1>3. m * q \in Int /\ m * q < m /\ m * q > -m
    BY <1>2
  <1>4. ~(m * q > 0)
    BY <1>2, <1>3, SmallMultiple
  <1>5. ~(m * (-q) > 0)
    <2>1. m * (-q) = -(m * q) /\ -q \in Int
      BY <1>2
    <2> QED BY <1>2, <1>3, <2>1, SmallMultiple
  <1>6. m * q = 0
    BY <1>2, <1>3, <1>4, <1>5
  <1> QED BY <1>2, <1>6 DEF r

LEMMA NextMod == ASSUME NEW m \in Nat \ {0}, NEW n \in m..2 * m - 1 PROVE n % m = n - m
  <1>1. n = m * (n \div m) + (n % m) /\ n \div m \in Int /\ n % m \in 0..m - 1
    BY DivMod
  <1> DEFINE q == n \div m
             r == n % m
  <1>2. q \in Int /\ r \in 0..m - 1 /\ n = m * q + r
    BY <1>1
  <1> HIDE DEF q, r
  <1>3. CASE q = 1
    BY <1>2, <1>3 DEF r
  <1>4. CASE q <= 0
    <2>1. m * q <= 0
      BY <1>2, <1>4
    <2> QED BY <1>2, <2>1
  <1>5. CASE q >= 2
    <2>1. m * q >= 2 * m
      BY <1>2, <1>5
    <2> QED BY <1>2, <2>1
  <1> QED BY <1>2, <1>3, <1>4, <1>5

\* A block that is less than a window ahead is known by its number.
LEMMA ShortTells ==
    ASSUME DownloadAssumption, NEW n \in Nat, NEW b \in Nat, b <= ShortRange,
           n < b + MAX_DOWNLOAD_WINDOW, Short(n) = b
    PROVE  n = b /\ b < ShortRange
  <1>1. ShortRange \in Nat \ {0} /\ MAX_DOWNLOAD_WINDOW <= ShortRange /\ MAX_DOWNLOAD_WINDOW \in Nat
    BY DEF DownloadAssumption
  <1> DEFINE m == 2 * ShortRange
             x == n + ShortRange
  <1>2. /\ m \in Nat \ {0} /\ x \in Nat /\ x < m + ShortRange /\ m = 2 * ShortRange
        /\ x = n + ShortRange /\ (x % m) - ShortRange = b
    BY <1>1 DEF Short
  <1> HIDE DEF m, x
  <1>3. CASE x < m
    <2>1. x % m = x
      BY <1>2, <1>3, SmallMod
    <2> QED BY <1>1, <1>2, <1>3, <2>1
  <1>4. CASE x >= m
    <2>1. x % m = x - m
      BY SMTT(30), <1>1, <1>2, <1>4, NextMod
    <2> QED BY <1>1, <1>2, <2>1
  <1> QED BY <1>2, <1>3, <1>4

-----------------------------------------------------------------------------
(* Reading ahead. *)

LEMMA CounterFields ==
    ASSUME NEW d \in Counters
    PROVE  /\ d.name \in 0..Len(files) /\ d.open \in BOOLEAN /\ d.eof \in BOOLEAN
           /\ d.current \in Nat /\ d.client \in Nat /\ d.xmit \in Nat /\ d.count \in Nat
  BY DEF Counters

LEMMA BlockIsData ==
    ASSUME TypeInv, NEW f \in 1..Len(files), NEW n \in Nat
    PROVE  BlockOf(f, n) \in Data
  <1>1. Len(files) \in Nat /\ f \in Nat
    BY DEF TypeInv
  <1> QED BY <1>1 DEF BlockOf, Eof, Data

\* What is read is the next blocks, as many as the window has room for.
LEMMA ReadsNext ==
    ASSUME DownloadAssumption, TypeInv, NEW d \in Counters, d.name \in 1..Len(files),
           files[d.name] >= 0, Reading(d, window)
    PROVE  LET list == Reads(d).list
               r == Reads(d).d
           IN  /\ list \in Seq(Data) /\ Len(list) \in Nat
               /\ d.current + Len(list) <= d.client + MAX_DOWNLOAD_WINDOW
               /\ \A k \in 1..Len(list) : list[k] = BlockOf(d.name, d.current + (k - 1))
               /\ r \in Counters
               /\ r.name = d.name /\ r.open = d.open /\ r.client = d.client /\ r.xmit = d.xmit
               /\ r.current = d.current + Len(list)
               /\ r.count \in 0..files[d.name]
               /\ r.current = IF r.eof THEN r.count + 1 ELSE r.count
               /\ r.eof => r.count = files[d.name]
               /\ d.eof => r.current = d.current /\ r.eof
  <1> DEFINE size == files[d.name]
             name == d.name
             current == d.current
             count == d.count
             eof == d.eof
             left == size - count
             room == Room(d)
             toRead == IF left < room THEN left ELSE room
             atEnd == count + toRead = size /\ ~eof /\ toRead < room
             blocks == [k \in 1..toRead |-> <<name, count + k>>]
             last == IF atEnd THEN <<Eof>> ELSE <<>>
             list == blocks \o last
             r == [d EXCEPT !.count = @ + toRead, !.current = @ + Len(list),
                            !.eof = @ \/ atEnd]
  <1>1. Reads(d).list = list /\ Reads(d).d = r
    BY DEF Reads
  <1>2. /\ name \in 1..Len(files) /\ name \in Nat /\ current \in Nat /\ count \in Nat
        /\ eof \in BOOLEAN /\ d.client \in Nat
    <2>1. Len(files) \in Nat
      BY DEF TypeInv
    <2> QED BY <2>1, CounterFields
  <1>3. size \in Nat
    <2>1. files[d.name] \in Int
      BY DEF TypeInv
    <2> QED BY <2>1
  <1>4. /\ room \in Nat /\ room = MAX_DOWNLOAD_WINDOW - (current - d.client)
        /\ MAX_DOWNLOAD_WINDOW \in Nat
    BY <1>2 DEF Room, Reading, DownloadAssumption
  <1>5. /\ count \in 0..size /\ current = (IF eof THEN count + 1 ELSE count)
        /\ eof => count = size
    BY DEF Reading
  <1>6. /\ left \in Nat /\ toRead \in Nat /\ toRead <= left /\ toRead <= room
        /\ count + toRead <= size
        /\ atEnd => count + toRead = size /\ ~eof /\ toRead < room
    BY <1>2, <1>3, <1>4, <1>5
  <1>7. eof => toRead = 0 /\ ~atEnd
    BY <1>2, <1>3, <1>4, <1>5
  <1> HIDE DEF r, size, name, current, count, eof, left, room, toRead, atEnd
  <1>8. /\ blocks \in Seq(Data) /\ Len(blocks) = toRead
        /\ \A k \in 1..toRead : blocks[k] = <<name, count + k>>
    <2>1. \A k \in 1..toRead : <<name, count + k>> \in Data
      BY <1>2, <1>6 DEF Data
    <2> QED BY <1>6, <2>1
  <1>9. last \in Seq(Data) /\ Len(last) = IF atEnd THEN 1 ELSE 0
    <2>1. Eof \in Data
      BY DEF Eof, Data
    <2> QED BY <2>1
  <1>10. atEnd => last[1] = Eof
    OBVIOUS
  <1> HIDE DEF blocks, last
  <1>11. /\ list \in Seq(Data) /\ Len(list) = toRead + Len(last)
         /\ \A k \in 1..Len(list) :
               list[k] = IF k <= toRead THEN blocks[k] ELSE last[k - toRead]
    <2>1. /\ list \in Seq(Data) /\ Len(list) = Len(blocks) + Len(last)
          /\ \A k \in 1..Len(blocks) + Len(last) :
                list[k] = IF k <= Len(blocks) THEN blocks[k] ELSE last[k - Len(blocks)]
      BY ONLY <1>8, <1>9, ConcatProperties
    <2> QED BY ONLY <1>8, <2>1
  <1> HIDE DEF list
  <1>12. Len(list) = (IF atEnd THEN toRead + 1 ELSE toRead) /\ Len(list) \in Nat
    BY <1>6, <1>9, <1>11
  <1>13. current + Len(list) <= d.client + MAX_DOWNLOAD_WINDOW
    BY ONLY SMTT(30), <1>2, <1>4, <1>6, <1>12
  <1>14. ASSUME NEW k \in 1..Len(list) PROVE list[k] = BlockOf(name, current + (k - 1))
    <2>1. ~eof /\ current = count /\ k \in Nat
      BY <1>5, <1>7, <1>12
    <2>2. CASE k <= toRead
      <3>1. list[k] = <<name, count + k>>
        BY <1>8, <1>11, <2>2
      <3>2. count + (k - 1) < size /\ count + (k - 1) + 1 = count + k
        BY ONLY <1>2, <1>3, <1>6, <2>1, <2>2
      <3> QED BY <2>1, <3>1, <3>2 DEF BlockOf, size, name
    <2>3. CASE k > toRead
      <3>1. atEnd /\ k - toRead = 1
        BY <1>6, <1>12, <2>1, <2>3
      <3>2. list[k] = Eof
        BY <1>6, <1>10, <1>11, <2>1, <2>3, <3>1
      <3>3. ~(count + (k - 1) < size)
        BY ONLY <1>2, <1>3, <1>6, <2>1, <3>1
      <3> QED BY <2>1, <3>2, <3>3 DEF BlockOf, size, name
    <2> QED BY <1>6, <2>1, <2>2, <2>3
  <1>15. /\ r.count = count + toRead /\ r.current = current + Len(list)
         /\ r.eof = (eof \/ atEnd)
         /\ r.name = d.name /\ r.open = d.open /\ r.client = d.client /\ r.xmit = d.xmit
    BY DEF Counters, count, current, eof, r
  <1>16. r \in Counters
    <2>1. count + toRead \in Nat /\ current + Len(list) \in Nat
      BY <1>2, <1>6, <1>12
    <2> QED BY <2>1, <1>2 DEF Counters, count, current, eof, atEnd, r
  <1>17. /\ r.count \in 0..size /\ r.current = (IF r.eof THEN r.count + 1 ELSE r.count)
         /\ r.eof => r.count = size
         /\ eof => r.current = current /\ r.eof
    <2>1. CASE eof
      <3>1. r.eof /\ ~atEnd /\ toRead = 0
        BY ONLY <1>7, <1>15, <2>1
      <3> QED BY ONLY <1>2, <1>3, <1>5, <1>6, <1>12, <1>15, <2>1, <3>1
    <2>2. CASE ~eof /\ atEnd
      <3>1. r.eof
        BY ONLY <1>15, <2>2
      <3> QED BY ONLY <1>2, <1>3, <1>5, <1>6, <1>12, <1>15, <2>2, <3>1
    <2>3. CASE ~eof /\ ~atEnd
      BY ONLY <1>2, <1>3, <1>5, <1>6, <1>7, <1>12, <1>15, <2>3
    <2> QED BY <2>1, <2>2, <2>3
  <1>18. list \in Seq(Data) /\ Len(list) \in Nat
    BY <1>11, <1>12
  <1>19. Reads(d).list = list /\ Reads(d).d = r
    BY <1>1 DEF r, list, blocks, last, toRead, atEnd, left, room, size, name, count, eof
  <1> QED BY <1>19, <1>13, <1>14, <1>15, <1>16, <1>17, <1>18 DEF size, name, current, eof

\* The window keeps the blocks it has and takes the ones read.
LEMMA FilledHolds ==
    ASSUME DownloadAssumption, TypeInv, NEW d \in Counters, d.name \in 1..Len(files),
           Reading(d, window), NEW list \in Seq(Data),
           d.current + Len(list) <= d.client + MAX_DOWNLOAD_WINDOW,
           \A k \in 1..Len(list) : list[k] = BlockOf(d.name, d.current + (k - 1))
    PROVE  /\ Filled(d, list) \in [0..MAX_DOWNLOAD_WINDOW - 1 -> Data]
           /\ \A n \in d.client..d.current + Len(list) - 1 :
                 Filled(d, list)[n % MAX_DOWNLOAD_WINDOW] = BlockOf(d.name, n)
  <1> DEFINE m == MAX_DOWNLOAD_WINDOW
             at(i) == {k \in 1..Len(list) : (d.current + k - 1) % m = i}
             filled == Filled(d, list)
  <1>1. m \in Nat \ {0} /\ d.current \in Nat /\ d.client \in Nat /\ Len(list) \in Nat
    BY CounterFields DEF DownloadAssumption
  <1>2. DOMAIN window = 0..m - 1 /\ \A i \in 0..m - 1 : window[i] \in Data
    BY DEF TypeInv
  <1>3. d.client <= d.current /\ Len(list) <= m
    BY <1>1 DEF Reading
  <1>4. /\ DOMAIN filled = 0..m - 1
        /\ \A i \in 0..m - 1 :
              filled[i] = IF at(i) = {} THEN window[i]
                          ELSE list[CHOOSE k \in at(i) : \A j \in at(i) : k >= j]
    BY <1>2 DEF Filled
  <1>5. \A a, b \in Int : a < b /\ b < a + m => a % m # b % m
    BY <1>1, PlacesDiffer
  <1>6. \A i \in 0..m - 1 : \A j, k \in at(i) : ~(j < k)
    <2> SUFFICES ASSUME NEW i \in 0..m - 1, NEW j \in 1..Len(list), NEW k \in 1..Len(list),
                        (d.current + j - 1) % m = i, (d.current + k - 1) % m = i, j < k
                 PROVE  FALSE
      OBVIOUS
    <2>1. /\ d.current + j - 1 \in Int /\ d.current + k - 1 \in Int
          /\ d.current + j - 1 < d.current + k - 1
          /\ d.current + k - 1 < d.current + j - 1 + m
      BY ONLY <1>1, <1>3, j \in 1..Len(list), k \in 1..Len(list), j < k
    <2> QED BY <1>5, <2>1
  <1> HIDE DEF filled
  <1>7. ASSUME NEW i \in 0..m - 1, NEW k \in at(i) PROVE filled[i] = list[k]
    <2>1. \A j \in at(i) : k >= j /\ j >= k
      <3>1. \A j \in at(i) : j \in Int /\ ~(j < k) /\ ~(k < j)
        BY <1>1, <1>6
      <3>2. k \in Int
        BY <1>1
      <3> QED BY <3>1, <3>2
    <2>2. (CHOOSE x \in at(i) : \A j \in at(i) : x >= j) = k
      <3> DEFINE c == CHOOSE x \in at(i) : \A j \in at(i) : x >= j
      <3>1. c \in at(i)
        BY <2>1
      <3> HIDE DEF c
      <3>2. c \in 1..Len(list) /\ k \in 1..Len(list) /\ k >= c /\ c >= k
        BY <2>1, <3>1
      <3>3. c = k
        BY ONLY <1>1, <3>2
      <3> QED BY <3>3 DEF c
    <2> QED BY <1>4, <2>2
  <1>8. ASSUME NEW i \in 0..m - 1, at(i) = {} PROVE filled[i] = window[i]
    BY <1>4, <1>8
  <1>9. \A i \in 0..m - 1 : filled[i] \in Data
    <2> SUFFICES ASSUME NEW i \in 0..m - 1 PROVE filled[i] \in Data
      OBVIOUS
    <2>1. CASE at(i) = {}
      BY <1>2, <1>8, <2>1
    <2>2. CASE at(i) # {}
      <3>1. PICK k \in at(i) : TRUE
        BY <2>2
      <3>2. list[k] \in Data
        OBVIOUS
      <3> QED BY <1>7, <3>2
    <2> QED BY <2>1, <2>2
  <1>10. filled \in [0..m - 1 -> Data]
    <2>1. filled = [i \in 0..m - 1 |-> filled[i]]
      BY <1>4 DEF filled, Filled
    <2> QED BY <1>9, <2>1
  <1>11. d.current + Len(list) <= d.client + m
    OBVIOUS
  <1>12. ASSUME NEW n \in d.client..d.current + Len(list) - 1
         PROVE  filled[n % m] = BlockOf(d.name, n)
    <2>0. n \in Int /\ d.client <= n /\ n <= d.current + Len(list) - 1
      BY ONLY <1>1, n \in d.client..d.current + Len(list) - 1
    <2>1. n \in Int /\ n % m \in 0..m - 1
      BY <1>1, <2>0, DivMod
    <2>2. CASE n < d.current
      <3>1. at(n % m) = {}
        <4> SUFFICES ASSUME NEW k \in 1..Len(list), (d.current + k - 1) % m = n % m
                     PROVE  FALSE
          OBVIOUS
        <4>1. /\ d.current + k - 1 \in Int /\ n < d.current + k - 1
              /\ d.current + k - 1 < n + m
          BY ONLY SMTT(30), <1>1, <1>11, <2>0, <2>2, k \in 1..Len(list)
        <4> QED BY <1>5, <2>1, <4>1
      <3>2. n \in d.client..d.current - 1
        BY ONLY <1>1, <2>0, <2>2
      <3>3. window[n % m] = BlockOf(d.name, n)
        BY <3>2 DEF Reading
      <3> QED BY <1>8, <2>1, <3>1, <3>3
    <2>3. CASE n >= d.current
      <3> DEFINE k == n - d.current + 1
      <3>1. k \in 1..Len(list) /\ d.current + k - 1 = n /\ d.current + (k - 1) = n
        BY ONLY <1>1, <2>0, <2>3
      <3>2. k \in at(n % m)
        BY <3>1
      <3>3. filled[n % m] = list[k]
        BY <1>7, <2>1, <3>2
      <3> QED BY <3>1, <3>3
    <2> QED BY <1>1, <2>1, <2>2, <2>3
  <1> QED BY <1>10, <1>12 DEF filled

\* Opening a file starts to count from nothing.
LEMMA OpenedReads ==
    ASSUME DownloadAssumption, TypeInv, dl.name \in 1..Len(files), files[dl.name] >= 0,
           dl.open => Reading(dl, window)
    PROVE  /\ Opened \in Counters /\ Opened.name = dl.name /\ Opened.open
           /\ Reading(Opened, window)
           /\ dl.open => Opened = dl
           /\ ~dl.open => Opened.client = 0 /\ Opened.xmit = 0 /\ ~Opened.eof
  <1>1. dl \in Counters
    BY DEF TypeInv
  <1>2. CASE dl.open
    BY <1>1, <1>2 DEF Opened
  <1>3. CASE ~dl.open
    <2>1. /\ Opened \in Counters /\ Opened.name = dl.name /\ Opened.open = TRUE
          /\ Opened.current = 0 /\ Opened.client = 0 /\ Opened.xmit = 0
          /\ Opened.count = 0 /\ Opened.eof = FALSE
      BY <1>1, <1>3 DEF Opened, Counters
    <2>2. files[dl.name] \in Int /\ MAX_DOWNLOAD_WINDOW \in Nat
      BY DEF TypeInv, DownloadAssumption
    <2>3. Reading(Opened, window)
      BY <2>1, <2>2 DEF Reading
    <2> QED BY <1>3, <2>1, <2>3
  <1> QED BY <1>2, <1>3

\* A block that is sent is the one after the last, or, late, the oldest one;
\* what was not acknowledged is sent as it is in the file.
LEMMA Served ==
    ASSUME DownloadAssumption, TypeInv, dl.name \in 1..Len(files), files[dl.name] >= 0,
           dl.open => Reading(dl, window), SV_WriteDownloadToClient
    PROVE  /\ UNCHANGED <<files, punctual, state, cl, saved, commands>>
           /\ window' \in [0..MAX_DOWNLOAD_WINDOW - 1 -> Data]
           /\ dl' \in Counters /\ dl'.open /\ dl'.name = dl.name
           /\ dl'.client = Opened.client /\ Reading(dl', window')
           /\ Opened.current <= dl'.current
           /\ Opened.eof => dl'.current = Opened.current /\ dl'.eof
           /\ \/ dl'.xmit = Opened.xmit /\ late' = late /\ down' = down
              \/ \E n \in 0..dl'.current - 1, b \in Data :
                    /\ n = Opened.xmit \/ (late /\ n = Opened.client)
                    /\ dl'.xmit = n + 1 /\ late' = FALSE
                    /\ n < Opened.client \/ b = BlockOf(dl.name, n)
                    /\ Send([kind |-> "block", block |-> Short(n), data |-> b])
  <1> DEFINE o == Opened
             list == Reads(o).list
             r == Reads(o).d
             filled == Filled(o, list)
             m == MAX_DOWNLOAD_WINDOW
  <1>1. /\ o \in Counters /\ o.name = dl.name /\ o.open /\ Reading(o, window)
        /\ o.name \in 1..Len(files) /\ files[o.name] >= 0
    BY OpenedReads
  <1>2. /\ UNCHANGED <<files, punctual, state, cl, saved, commands>>
        /\ window' = filled
        /\ \/ dl' = r /\ late' = late /\ down' = down
           \/ \E n \in NextToSend(r) :
                 /\ dl' = [r EXCEPT !.xmit = n + 1] /\ late' = FALSE
                 /\ Send([kind |-> "block", block |-> Short(n), data |-> filled[n % m]])
    <2>1. ~RefuseDownload
      <3>1. files[dl.name] \in Int
        BY DEF TypeInv
      <3> QED BY <3>1 DEF RefuseDownload
    <2> QED BY <2>1, Zenon DEF SV_WriteDownloadToClient
  <1> HIDE DEF o
  <1>3. /\ list \in Seq(Data) /\ Len(list) \in Nat
        /\ o.current + Len(list) <= o.client + m
        /\ \A k \in 1..Len(list) : list[k] = BlockOf(o.name, o.current + (k - 1))
        /\ r \in Counters
        /\ r.name = o.name /\ r.open = o.open /\ r.client = o.client /\ r.xmit = o.xmit
        /\ r.current = o.current + Len(list)
        /\ r.count \in 0..files[o.name]
        /\ r.current = (IF r.eof THEN r.count + 1 ELSE r.count)
        /\ r.eof => r.count = files[o.name]
        /\ o.eof => r.current = o.current /\ r.eof
    BY <1>1, ReadsNext
  <1> HIDE DEF list, r
  <1>4. /\ filled \in [0..m - 1 -> Data]
        /\ \A n \in o.client..o.current + Len(list) - 1 : filled[n % m] = BlockOf(o.name, n)
    BY <1>1, <1>3, FilledHolds
  <1> HIDE DEF filled
  <1>5. /\ o.client \in Nat /\ o.current \in Nat /\ o.xmit \in Nat
        /\ r.client \in Nat /\ r.current \in Nat /\ r.xmit \in Nat
    BY <1>1, <1>3, CounterFields
  <1>6. o.client <= o.current /\ o.xmit <= o.current
    BY <1>1 DEF Reading
  <1>7. /\ r.client <= r.current /\ r.current <= r.client + m
        /\ o.current <= r.current /\ r.xmit <= r.current
    BY <1>3, <1>5, <1>6
  <1>8. \A n \in r.client..r.current - 1 : filled[n % m] = BlockOf(r.name, n)
    <2>1. r.client..r.current - 1 = o.client..o.current + Len(list) - 1 /\ r.name = o.name
      BY ONLY SMTT(30), <1>3, <1>5
    <2>2. ASSUME NEW n \in r.client..r.current - 1 PROVE filled[n % m] = BlockOf(r.name, n)
      BY <1>4, <2>1, Zenon
    <2> QED BY <2>2
  <1>9. CASE dl' = r /\ late' = late /\ down' = down
    <2>1. Reading(r, filled)
      BY <1>3, <1>7, <1>8 DEF Reading
    <2> QED BY <1>1, <1>2, <1>3, <1>4, <1>7, <1>9, <2>1 DEF o
  <1>10. ASSUME NEW n \in NextToSend(r), dl' = [r EXCEPT !.xmit = n + 1], late' = FALSE,
                Send([kind |-> "block", block |-> Short(n), data |-> filled[n % m]])
         PROVE  /\ dl' \in Counters /\ dl'.open /\ dl'.name = dl.name
                /\ dl'.client = o.client /\ Reading(dl', window')
                /\ o.current <= dl'.current
                /\ o.eof => dl'.current = o.current /\ dl'.eof
                /\ \E k \in 0..dl'.current - 1, b \in Data :
                      /\ k = o.xmit \/ (late /\ k = o.client)
                      /\ dl'.xmit = k + 1 /\ late' = FALSE
                      /\ k < o.client \/ b = BlockOf(dl.name, k)
                      /\ Send([kind |-> "block", block |-> Short(k), data |-> b])
    <2>1. /\ n = o.xmit \/ (late /\ n = o.client)
          /\ n \in 0..r.current - 1
      BY <1>3, <1>5, <1>7 DEF NextToSend
    <2>2. /\ dl' \in Counters
          /\ dl'.name = r.name /\ dl'.open = r.open /\ dl'.current = r.current
          /\ dl'.client = r.client /\ dl'.xmit = n + 1 /\ dl'.count = r.count
          /\ dl'.eof = r.eof
      <3>1. n + 1 \in Nat /\ r \in Counters /\ dl' = [r EXCEPT !.xmit = n + 1]
        BY <1>3, <1>5, <1>10, <2>1
      <3> QED BY ONLY <3>1 DEF Counters
    <2>3. n + 1 <= r.current
      BY <1>5, <2>1
    <2>4. Reading(dl', window')
      BY <1>2, <1>3, <1>7, <1>8, <2>2, <2>3 DEF Reading
    <2>5. n \in Int /\ n % m \in 0..m - 1
      <3>1. n \in Int /\ m \in Nat \ {0}
        BY <1>5, <2>1 DEF DownloadAssumption
      <3> QED BY ONLY <3>1, DivMod
    <2>6. filled[n % m] \in Data
      BY <1>4, <2>5
    <2>7. n < o.client \/ filled[n % m] = BlockOf(dl.name, n)
      <3>1. CASE n >= o.client
        <4>1. n \in r.client..r.current - 1
          BY <1>3, <1>5, <2>1, <3>1
        <4> QED BY <1>1, <1>3, <1>8, <4>1
      <3> QED BY <1>5, <2>5, <3>1
    <2> QED BY <1>1, <1>3, <1>7, <1>10, <2>1, <2>2, <2>4, <2>6, <2>7
  <1> QED
    <2>1. CASE \E n \in NextToSend(r) :
                 /\ dl' = [r EXCEPT !.xmit = n + 1] /\ late' = FALSE
                 /\ Send([kind |-> "block", block |-> Short(n), data |-> filled[n % m]])
      BY <1>2, <1>4, <1>10, <2>1 DEF o
    <2> QED BY <1>2, <1>9, <2>1

-----------------------------------------------------------------------------
(* Blocks under way. *)

LEMMA TailIs ==
    ASSUME NEW S, NEW q \in Seq(S), q # <<>>
    PROVE  /\ Tail(q) \in Seq(S) /\ Len(q) \in Nat /\ Len(q) > 0 /\ Head(q) = q[1] /\ q[1] \in S
           /\ Len(Tail(q)) = Len(q) - 1
           /\ \A k \in 1..Len(Tail(q)) : k + 1 \in 1..Len(q) /\ Tail(q)[k] = q[k + 1]
  <1>1. Tail(q) \in Seq(S) /\ Len(Tail(q)) = Len(q) - 1
    BY HeadTailProperties
  <1>2. Len(q) \in Nat /\ Len(q) > 0
    BY EmptySeq, LenProperties
  <1>3. \A k \in 1..Len(Tail(q)) : k + 1 \in 1..Len(q) /\ Tail(q)[k] = q[k + 1]
    BY <1>1, <1>2
  <1> QED BY <1>1, <1>2, <1>3

LEMMA AppendIs ==
    ASSUME NEW S, NEW q \in Seq(S), NEW m \in S
    PROVE  /\ Append(q, m) \in Seq(S) /\ Len(Append(q, m)) = Len(q) + 1 /\ Len(q) \in Nat
           /\ \A k \in 1..Len(q) : Append(q, m)[k] = q[k]
           /\ Append(q, m)[Len(q) + 1] = m
  BY AppendProperties, LenProperties

\* The client gets further, the server reads further.
LEMMA FurtherIsInFile ==
    ASSUME NEW q \in Seq(Message), NEW f, NEW b \in Nat, NEW c \in Nat, NEW x \in Nat,
           NEW b2 \in Nat, NEW c2 \in Nat, b <= b2, c <= c2, AsInFile(q, f, b, c, x)
    PROVE  AsInFile(q, f, b2, c2, x)
  <1> SUFFICES ASSUME NEW k \in 1..Len(q)
               PROVE  \E n \in 0..c2 - 1 :
                         /\ q[k].kind = "block" /\ q[k].block = Short(n)
                         /\ n < b2 \/ q[k].data = BlockOf(f, n)
                         /\ punctual => n + Len(q) = x + (k - 1)
    BY DEF AsInFile
  <1>1. PICK n \in 0..c - 1 :
           /\ q[k].kind = "block" /\ q[k].block = Short(n)
           /\ n < b \/ q[k].data = BlockOf(f, n)
           /\ punctual => n + Len(q) = x + (k - 1)
    BY Zenon DEF AsInFile
  <1>2. n \in 0..c2 - 1 /\ (n < b => n < b2)
    OBVIOUS
  <1> QED BY <1>1, <1>2, Zenon

\* The oldest block arrives or is lost.
LEMMA RestIsInFile ==
    ASSUME NEW q \in Seq(Message), q # <<>>, NEW f, NEW b \in Nat, NEW c \in Nat,
           NEW x \in Nat, AsInFile(q, f, b, c, x)
    PROVE  AsInFile(Tail(q), f, b, c, x)
  <1> SUFFICES ASSUME NEW k \in 1..Len(Tail(q))
               PROVE  \E n \in 0..c - 1 :
                         /\ Tail(q)[k].kind = "block" /\ Tail(q)[k].block = Short(n)
                         /\ n < b \/ Tail(q)[k].data = BlockOf(f, n)
                         /\ punctual => n + Len(Tail(q)) = x + (k - 1)
    BY DEF AsInFile
  <1>1. /\ k + 1 \in 1..Len(q) /\ Tail(q)[k] = q[k + 1] /\ Len(Tail(q)) = Len(q) - 1
        /\ Len(q) \in Nat
    BY TailIs
  <1>2. PICK n \in 0..c - 1 :
           /\ q[k + 1].kind = "block" /\ q[k + 1].block = Short(n)
           /\ n < b \/ q[k + 1].data = BlockOf(f, n)
           /\ punctual => n + Len(q) = x + ((k + 1) - 1)
    BY <1>1, Zenon DEF AsInFile
  <1>3. n + Len(q) = x + ((k + 1) - 1) => n + Len(Tail(q)) = x + (k - 1)
    BY <1>1
  <1> QED BY <1>1, <1>2, <1>3, Zenon

LEMMA BlockIsMessage ==
    ASSUME DownloadAssumption, NEW n \in Int, NEW t \in Data
    PROVE  [kind |-> "block", block |-> Short(n), data |-> t] \in Message
  <1> DEFINE y == n + ShortRange
             z == 2 * ShortRange
  <1>1. y \in Int /\ z \in Nat \ {0} /\ ShortRange \in Nat
    BY DEF DownloadAssumption
  <1> HIDE DEF y, z
  <1>2. y % z \in 0..z - 1 /\ z \in Nat
    BY <1>1, DivMod
  <1>3. (y % z) - ShortRange \in Int
    BY <1>1, <1>2
  <1>4. Short(n) \in Int
    BY <1>3 DEF Short, y, z
  <1> QED BY <1>4 DEF Message

\* The oldest message may be lost for another one.
LEMMA SendIs ==
    ASSUME DownloadAssumption, down \in Seq(Message), NEW m \in Message, Send(m)
    PROVE  /\ down' \in Seq(Message)
           /\ down' = Append(down, m) \/ (down # <<>> /\ down' = Append(Tail(down), m))
  <1>1. down # <<>> => Tail(down) \in Seq(Message)
    BY TailIs
  <1>2. ~(Len(down) < MaxDown) => down # <<>>
    BY DEF DownloadAssumption
  <1> QED BY <1>1, <1>2, AppendIs DEF Send

\* Another block is sent.
LEMMA SentIsInFile ==
    ASSUME DownloadAssumption, down \in Seq(Message), NEW f, NEW b \in Nat, NEW c \in Nat,
           NEW x \in Nat, AsInFile(down, f, b, c, x),
           NEW n \in 0..c - 1, NEW t \in Data,
           n < b \/ t = BlockOf(f, n), punctual => n = x \/ down = <<>>,
           Send([kind |-> "block", block |-> Short(n), data |-> t])
    PROVE  down' \in Seq(Message) /\ AsInFile(down', f, b, c, n + 1)
  <1> DEFINE m == [kind |-> "block", block |-> Short(n), data |-> t]
  <1>1. m \in Message /\ m.kind = "block" /\ m.block = Short(n) /\ m.data = t
    <2>1. m \in Message
      BY BlockIsMessage
    <2> QED BY <2>1
  <1> HIDE DEF m
  <1>2. ASSUME NEW q \in Seq(Message), AsInFile(q, f, b, c, x),
               punctual => n = x \/ q = <<>>
        PROVE  Append(q, m) \in Seq(Message) /\ AsInFile(Append(q, m), f, b, c, n + 1)
    <2> DEFINE q2 == Append(q, m)
    <2>0. q2 \in Seq(Message) /\ Len(q2) = Len(q) + 1 /\ Len(q) \in Nat
      BY <1>1, AppendIs
    <2>1. /\ q2 \in Seq(Message) /\ Len(q2) = Len(q) + 1 /\ Len(q) \in Nat
          /\ \A k \in 1..Len(q) : q2[k] = q[k]
          /\ q2[Len(q) + 1] = m
      BY <1>1, AppendIs
    <2>2. q = <<>> => Len(q) = 0
      OBVIOUS
    <2> HIDE DEF q2
    <2>3. ASSUME NEW k \in 1..Len(q2)
          PROVE  \E i \in 0..c - 1 :
                    /\ q2[k].kind = "block" /\ q2[k].block = Short(i)
                    /\ i < b \/ q2[k].data = BlockOf(f, i)
                    /\ punctual => i + Len(q2) = n + 1 + (k - 1)
      <3>1. CASE k = Len(q) + 1
        <4>1. n + Len(q2) = n + 1 + (k - 1)
          BY <2>1, <3>1
        <4>2. q2[k] = m
          BY <2>1, <3>1
        <4> QED BY <1>1, <4>1, <4>2, Zenon
      <3>2. CASE k \in 1..Len(q)
        <4>1. PICK i \in 0..c - 1 :
                 /\ q[k].kind = "block" /\ q[k].block = Short(i)
                 /\ i < b \/ q[k].data = BlockOf(f, i)
                 /\ punctual => i + Len(q) = x + (k - 1)
          BY <1>2, <3>2, Zenon DEF AsInFile
        <4>2. punctual => n = x
          BY <1>2, <2>1, <2>2, <3>2
        <4>3. i + Len(q) = x + (k - 1) /\ n = x => i + Len(q2) = n + 1 + (k - 1)
          BY ONLY <2>0, <3>2, n \in 0..c - 1, i \in 0..c - 1, x \in Nat, c \in Nat
        <4>4. q2[k] = q[k]
          BY <2>1, <3>2
        <4> QED BY <4>1, <4>2, <4>3, <4>4, Zenon
      <3> QED BY <2>1, <3>1, <3>2
    <2>4. AsInFile(q2, f, b, c, n + 1)
      BY <2>3, Zenon DEF AsInFile
    <2> QED BY <2>1, <2>4 DEF q2
  <1>3. /\ down' \in Seq(Message)
        /\ down' = Append(down, m) \/ (down # <<>> /\ down' = Append(Tail(down), m))
    BY <1>1, SendIs DEF m
  <1>4. down # <<>> =>
           /\ Tail(down) \in Seq(Message) /\ AsInFile(Tail(down), f, b, c, x)
           /\ punctual => n = x \/ Tail(down) = <<>>
    BY TailIs, RestIsInFile
  <1> QED BY <1>2, <1>3, <1>4

-----------------------------------------------------------------------------
(* Acknowledges under way. *)

LEMMA RestAcks ==
    ASSUME NEW q \in Seq(Command), NEW c \in Nat, NEW z \in Nat, c < z, Acks(q, c, z)
    PROVE  /\ q # <<>> /\ Head(q) = [cmd |-> "nextdl", arg |-> c]
           /\ Tail(q) \in Seq(Command) /\ Len(Tail(q)) = Len(q) - 1
           /\ Acks(Tail(q), c + 1, z)
  <1>1. Len(q) \in Nat /\ c <= z /\ z <= c + Len(q)
    BY DEF Acks
  <1>2. Len(q) > 0
    BY ONLY <1>1, c \in Nat, z \in Nat, c < z
  <1>3. q # <<>>
    BY <1>2
  <1>4. /\ Tail(q) \in Seq(Command) /\ Head(q) = q[1]
        /\ Len(Tail(q)) = Len(q) - 1
        /\ \A k \in 1..Len(Tail(q)) : k + 1 \in 1..Len(q) /\ Tail(q)[k] = q[k + 1]
    BY <1>3, TailIs
  <1>5. 1 \in 1..Len(q) /\ c + 1 <= z /\ c + (1 - 1) = c
    BY ONLY <1>1, <1>2, c \in Nat, z \in Nat, c < z
  <1>6. q[1] = [cmd |-> "nextdl", arg |-> c]
    <2>1. q[1] = [cmd |-> "nextdl", arg |-> c + (1 - 1)]
      BY <1>5, Zenon DEF Acks
    <2> QED BY <1>5, <2>1, Zenon
  <1>7. ASSUME NEW k \in 1..Len(Tail(q)), (c + 1) + k <= z
        PROVE  Tail(q)[k] = [cmd |-> "nextdl", arg |-> (c + 1) + (k - 1)]
    <2>1. k \in Int
      OBVIOUS
    <2>2. c + (k + 1) <= z /\ (c + 1) + (k - 1) = c + ((k + 1) - 1)
      BY ONLY <2>1, <1>7, c \in Nat, z \in Nat
    <2>3. k + 1 \in 1..Len(q) /\ Tail(q)[k] = q[k + 1]
      BY <1>4
    <2>4. q[k + 1] = [cmd |-> "nextdl", arg |-> c + ((k + 1) - 1)]
      BY <2>2, <2>3, Zenon DEF Acks
    <2> QED BY <2>2, <2>3, <2>4, Zenon
  <1>8. c + 1 <= z /\ z <= (c + 1) + Len(Tail(q))
    BY <1>1, <1>4, <1>5
  <1>9. Acks(Tail(q), c + 1, z)
    BY <1>7, <1>8, Zenon DEF Acks
  <1> QED BY <1>3, <1>4, <1>6, <1>9

LEMMA MoreAcks ==
    ASSUME NEW q \in Seq(Command), NEW c \in Nat, NEW z \in Nat, Acks(q, c, z),
           NEW m \in Command
    PROVE  /\ Append(q, m) \in Seq(Command) /\ Len(Append(q, m)) = Len(q) + 1
           /\ Append(q, m)[Len(q) + 1] = m
           /\ Acks(Append(q, m), c, z)
           /\ z = c + Len(q) /\ m = [cmd |-> "nextdl", arg |-> z] =>
                 Acks(Append(q, m), c, z + 1)
  <1> DEFINE p == Append(q, m)
  <1>0. p \in Seq(Command) /\ Len(p) = Len(q) + 1 /\ Len(q) \in Nat
    BY AppendIs
  <1>1. (\A k \in 1..Len(q) : p[k] = q[k]) /\ p[Len(q) + 1] = m
    BY AppendIs
  <1> HIDE DEF p
  <1>2. c <= z /\ z <= c + Len(q)
    BY DEF Acks
  <1>3. \A k \in 1..Len(p) : k \in 1..Len(q) \/ k = Len(q) + 1
    BY ONLY <1>0
  <1>4. ASSUME NEW k \in 1..Len(p), k = Len(q) + 1
        PROVE  ~(c + k <= z) /\ (z = c + Len(q) => c + (k - 1) = z)
    BY ONLY <1>0, <1>2, <1>4, c \in Nat, z \in Nat
  <1>5. ASSUME NEW k \in 1..Len(q)
        PROVE  /\ c + k <= z => q[k] = [cmd |-> "nextdl", arg |-> c + (k - 1)]
               /\ z = c + Len(q) => c + k <= z
    <2>1. c + k <= z => q[k] = [cmd |-> "nextdl", arg |-> c + (k - 1)]
      BY Zenon DEF Acks
    <2>2. z = c + Len(q) => c + k <= z
      BY ONLY <1>0, k \in 1..Len(q), c \in Nat
    <2> QED BY <2>1, <2>2
  <1>6. Acks(p, c, z)
    <2>1. \A k \in 1..Len(p) : c + k <= z => p[k] = [cmd |-> "nextdl", arg |-> c + (k - 1)]
      BY <1>1, <1>3, <1>4, <1>5, Zenon
    <2>2. c <= z /\ z <= c + Len(p)
      BY <1>0, <1>2
    <2> QED BY <2>1, <2>2, Zenon DEF Acks
  <1>7. z = c + Len(q) /\ m = [cmd |-> "nextdl", arg |-> z] => Acks(p, c, z + 1)
    <2> SUFFICES ASSUME z = c + Len(q), m = [cmd |-> "nextdl", arg |-> z]
                 PROVE  Acks(p, c, z + 1)
      OBVIOUS
    <2>1. ASSUME NEW k \in 1..Len(p)
          PROVE  p[k] = [cmd |-> "nextdl", arg |-> c + (k - 1)]
      <3>1. CASE k \in 1..Len(q)
        BY <1>1, <1>5, <3>1, Zenon
      <3>2. CASE k = Len(q) + 1
        BY <1>1, <1>4, <3>2, Zenon
      <3> QED BY <1>3, <3>1, <3>2
    <2>2. c <= z + 1 /\ z + 1 <= c + Len(p)
      BY <1>0, <1>2
    <2> QED BY <2>1, <2>2, Zenon DEF Acks
  <1> QED BY <1>0, <1>1, <1>6, <1>7 DEF p

LEMMA TwoMore ==
    ASSUME NEW q \in Seq(Command), NEW a \in Command, NEW b \in Command
    PROVE  q \o <<a, b>> = Append(Append(q, a), b)
  <1>1. Append(Append(q, a), b) \in Seq(Command) /\ q \o <<a, b>> \in Seq(Command)
    OBVIOUS
  <1> QED BY <1>1

-----------------------------------------------------------------------------
(* Steps. *)

Same == UNCHANGED <<files, punctual>>

LEMMA TypeStep ==
    ASSUME TypeInv, Same, dl' \in Counters,
           window' \in [0..MAX_DOWNLOAD_WINDOW - 1 -> Data],
           late' \in BOOLEAN, state' \in {"connected", "primed"},
           cl' \in [file : -1..Len(files), block : Nat, data : Seq(Data)],
           saved' \in [DOMAIN files -> Seq(Data)],
           commands' \in Seq(Command), down' \in Seq(Message)
    PROVE  TypeInv'
  BY DEF TypeInv, Same, Counters

LEMMA ServingStep ==
    ASSUME Same, dl'.open, dl'.name \in 1..Len(files), files[dl'.name] >= 0,
           Reading(dl', window')
    PROVE  Serving'
  BY DEF Serving, Reading, BlockOf, Eof, Same

LEMMA AckingStep == ASSUME NEW z, Acks(commands', dl'.client, z') PROVE Acking(z)'
  BY DEF Acking, Acks

LEMMA SentStep ==
    ASSUME Same, AsInFile(down', cl'.file, cl'.block, dl'.current, dl'.xmit)
    PROVE  SentInv'
  BY DEF SentInv, AsInFile, BlockOf, Eof, Short, Same

LEMMA SavedStep == ASSUME SavedIsServed, UNCHANGED <<files, saved>> PROVE SavedIsServed'
  BY DEF SavedIsServed, Content

LEMMA Fields ==
    ASSUME TypeInv
    PROVE  /\ dl \in Counters /\ cl.block \in Nat /\ cl.data \in Seq(Data)
           /\ dl.current \in Nat /\ dl.client \in Nat /\ dl.xmit \in Nat /\ dl.count \in Nat
           /\ dl.open \in BOOLEAN /\ dl.eof \in BOOLEAN /\ late \in BOOLEAN
           /\ punctual \in BOOLEAN /\ cl.file \in -1..Len(files) /\ dl.name \in 0..Len(files)
           /\ Len(files) \in Nat /\ Len(commands) \in Nat /\ Len(down) \in Nat
           /\ commands \in Seq(Command) /\ down \in Seq(Message)
           /\ files \in Seq(Int) /\ \A i \in 1..Len(files) : files[i] \in Int
  BY SMTT(30), CounterFields DEF TypeInv

\* The server sends something, or refuses.
LEMMA WriteKeeps ==
    ASSUME DownloadAssumption, IInv, SV_WriteDownloadToClient
    PROVE  IInv'
  <1>0. TypeInv /\ SavedIsServed /\ Stage
    BY DEF IInv
  <1>1. CASE RefuseDownload
    <2>1. /\ UNCHANGED <<files, punctual, window, late, state, cl, saved, commands>>
          /\ dl.name # 0 /\ ~dl.open /\ files[dl.name] < 0
          /\ dl' = [dl EXCEPT !.name = 0] /\ state = "connected"
          /\ Send([kind |-> "refusal", block |-> 0, data |-> Eof])
      BY <1>1 DEF RefuseDownload, SV_WriteDownloadToClient
    <2>2. Waiting
      BY <1>0, <2>1 DEF Stage, Asked, Refused, GivenUp, Running, Changing, Ending, Serving
    <2>3. /\ dl' \in Counters /\ dl'.name = 0 /\ ~dl'.open
      <3>1. dl \in Counters /\ 0 \in 0..Len(files)
        BY <1>0, Fields
      <3> QED BY <2>1, <3>1 DEF Counters
    <2>4. down' = <<[kind |-> "refusal", block |-> 0, data |-> Eof]>>
      <3>1. down = <<>> /\ Len(down) = 0 /\ MaxDown \in Nat \ {0}
        BY <2>2 DEF Waiting, DownloadAssumption
      <3> QED BY <2>1, <3>1 DEF Send
    <2>5. down' \in Seq(Message) /\ Len(down') = 1 /\ down'[1].kind = "refusal"
      <3>1. [kind |-> "refusal", block |-> 0, data |-> Eof] \in Message
        BY DEF Message, Data, Eof
      <3> QED BY <2>4, <3>1
    <2>6. TypeInv'
      BY <1>0, <2>1, <2>3, <2>5, TypeStep DEF TypeInv, Same
    <2>7. Refused'
      BY <2>1, <2>2, <2>3, <2>5 DEF Refused, Waiting, Fresh
    <2>8. SavedIsServed'
      BY <1>0, <2>1, SavedStep
    <2> QED BY <2>6, <2>7, <2>8 DEF IInv, Stage
  <1>2. CASE ~RefuseDownload
    <2>1. dl.name # 0 /\ files[dl.name] >= 0 /\ state = "connected"
      BY <1>2 DEF SV_WriteDownloadToClient
    <2>2. Waiting \/ Running \/ Changing \/ (Ending /\ Serving /\ dl.eof)
      BY <1>0, <2>1 DEF Stage, Asked, Refused, GivenUp, Ending
    <2>3. dl.name \in 1..Len(files) /\ (dl.open => Reading(dl, window))
      <3>1. dl.name \in 1..Len(files)
        BY <1>0, <2>1, Fields
      <3> QED BY <2>2, <3>1 DEF Waiting, Running, Changing, Serving
    <2>4. /\ UNCHANGED <<files, punctual, state, cl, saved, commands>>
          /\ window' \in [0..MAX_DOWNLOAD_WINDOW - 1 -> Data]
          /\ dl' \in Counters /\ dl'.open /\ dl'.name = dl.name
          /\ dl'.client = Opened.client /\ Reading(dl', window')
          /\ Opened.current <= dl'.current
          /\ Opened.eof => dl'.current = Opened.current /\ dl'.eof
      BY <1>0, <2>1, <2>3, Served
    <2>5. \/ dl'.xmit = Opened.xmit /\ late' = late /\ down' = down
          \/ \E n \in 0..dl'.current - 1, b \in Data :
                /\ n = Opened.xmit \/ (late /\ n = Opened.client)
                /\ dl'.xmit = n + 1 /\ late' = FALSE
                /\ n < Opened.client \/ b = BlockOf(dl.name, n)
                /\ Send([kind |-> "block", block |-> Short(n), data |-> b])
      BY <1>0, <2>1, <2>3, Served
    <2>6. /\ dl.open => Opened = dl
          /\ ~dl.open => Opened.client = 0 /\ Opened.xmit = 0 /\ ~Opened.eof
          /\ Opened \in Counters
      BY <1>0, <2>1, <2>3, OpenedReads
    <2>7. Same /\ SavedIsServed' /\ Serving'
      <3>1. Same
        BY <2>4 DEF Same
      <3>2. Serving'
        BY <2>1, <2>3, <2>4, <3>1, ServingStep
      <3> QED BY <1>0, <2>4, <3>1, <3>2, SavedStep
    <2>8. ASSUME down' \in Seq(Message), late' \in BOOLEAN PROVE TypeInv'
      BY <1>0, <2>4, <2>7, <2>8, TypeStep DEF TypeInv
    <2>9. CASE Waiting \/ Running
      <3>1. /\ cl.file = dl.name /\ cl.block <= files[cl.file] /\ cl.block <= ShortRange
            /\ Len(cl.data) = cl.block /\ \A i \in 1..cl.block : cl.data[i] = <<cl.file, i>>
            /\ cl.block <= Opened.current
            /\ Acks(commands, Opened.client, cl.block)
            /\ Len(commands) + Opened.client = cl.block
            /\ AsInFile(down, cl.file, cl.block, Opened.current, Opened.xmit)
            /\ punctual /\ late => down = <<>> /\ commands = <<>>
        <4>1. CASE Waiting
          <5>1. /\ cl.file = dl.name /\ cl.block = 0 /\ cl.data = <<>> /\ commands = <<>>
                /\ down = <<>> /\ ~late /\ ~dl.open
            BY <4>1 DEF Waiting, Fresh
          <5>2. Opened.client = 0 /\ Opened.xmit = 0 /\ Opened.current \in Nat
            BY <2>6, <5>1, CounterFields
          <5>3. Len(commands) = 0 /\ Len(down) = 0 /\ Len(cl.data) = 0 /\ ShortRange \in Nat
            BY <5>1 DEF DownloadAssumption
          <5>4. Acks(commands, Opened.client, cl.block)
            BY <5>1, <5>2, <5>3 DEF Acks
          <5>5. AsInFile(down, cl.file, cl.block, Opened.current, Opened.xmit)
            BY <5>3 DEF AsInFile
          <5> QED BY <2>1, <5>1, <5>2, <5>3, <5>4, <5>5
        <4>2. CASE Running
          BY <2>6, <4>2 DEF Running, Serving, Acking, SentInv
        <4> QED BY <2>9, <4>1, <4>2
      <3>2. /\ cl.block \in Nat /\ dl'.current \in Nat /\ dl'.xmit \in Nat
            /\ Opened.client \in Nat /\ Opened.current \in Nat /\ Opened.xmit \in Nat
            /\ down \in Seq(Message) /\ late \in BOOLEAN
        BY <1>0, <2>4, <2>6, CounterFields, Fields
      <3>3. /\ down' \in Seq(Message) /\ late' \in BOOLEAN
            /\ AsInFile(down', cl.file, cl.block, dl'.current, dl'.xmit)
            /\ punctual /\ late' => down' = <<>> /\ commands = <<>>
        <4>1. AsInFile(down, cl.file, cl.block, dl'.current, Opened.xmit)
          BY <2>4, <3>1, <3>2, FurtherIsInFile
        <4>2. CASE dl'.xmit = Opened.xmit /\ late' = late /\ down' = down
          BY <3>1, <3>2, <4>1, <4>2
        <4>3. CASE \E n \in 0..dl'.current - 1, b \in Data :
                      /\ n = Opened.xmit \/ (late /\ n = Opened.client)
                      /\ dl'.xmit = n + 1 /\ late' = FALSE
                      /\ n < Opened.client \/ b = BlockOf(dl.name, n)
                      /\ Send([kind |-> "block", block |-> Short(n), data |-> b])
          <5>1. PICK n \in 0..dl'.current - 1, b \in Data :
                      /\ n = Opened.xmit \/ (late /\ n = Opened.client)
                      /\ dl'.xmit = n + 1 /\ late' = FALSE
                      /\ n < Opened.client \/ b = BlockOf(dl.name, n)
                      /\ Send([kind |-> "block", block |-> Short(n), data |-> b])
            BY <4>3
          <5>2. Opened.client <= cl.block
            BY <3>1 DEF Acks
          <5>3. n < cl.block \/ b = BlockOf(cl.file, n)
            BY <3>1, <3>2, <5>1, <5>2
          <5>4. punctual => n = Opened.xmit \/ down = <<>>
            BY <3>1, <5>1
          <5>5. down' \in Seq(Message) /\ AsInFile(down', cl.file, cl.block, dl'.current, n + 1)
            BY <3>2, <4>1, <5>1, <5>3, <5>4, SentIsInFile
          <5> QED BY <5>1, <5>5
        <4> QED BY <2>5, <4>2, <4>3
      <3>4. SentInv'
        BY <2>4, <2>7, <3>3, SentStep
      <3>5. Acking(cl.block)'
        BY <2>4, <3>1, AckingStep
      <3>6. Running'
        <4>1. /\ state' = "connected" /\ cl' = cl /\ commands' = commands /\ files' = files
              /\ punctual' = punctual /\ dl'.name = dl.name /\ dl'.client = Opened.client
              /\ cl.block <= dl'.current
          BY <2>1, <2>4, <3>1, <3>2
        <4> QED BY <2>7, <3>1, <3>3, <3>4, <3>5, <4>1 DEF Running
      <3> QED BY <2>7, <2>8, <3>3, <3>6 DEF IInv, Stage
    <2>10. CASE Changing
      <3>1. /\ Fresh /\ cl.file = dl.name + 1 /\ punctual /\ dl.open
            /\ dl.eof /\ dl.xmit = dl.current /\ ~late /\ down = <<>>
            /\ dl.client < dl.current /\ Acks(commands, dl.client, dl.current)
            /\ Len(commands) + dl.client = dl.current + 1
            /\ commands[Len(commands)] = [cmd |-> "download", arg |-> cl.file]
        BY <2>10 DEF Changing, Serving, Acking
      <3>2. /\ dl'.current = dl.current /\ dl'.client = dl.client /\ dl'.eof
            /\ dl.current \in Nat
        BY <1>0, <2>4, <2>6, <3>1, Fields
      <3>3. dl'.xmit = dl.xmit /\ late' = late /\ down' = down
        <4>1. ASSUME NEW n \in 0..dl'.current - 1 PROVE ~(n = Opened.xmit)
          BY <2>6, <3>1, <3>2
        <4> QED BY <2>5, <2>6, <3>1, <4>1
      <3>4. Acking(dl.current)'
        BY <2>4, <3>1, <3>2, AckingStep
      <3>5. Fresh'
        BY <2>4, <3>1 DEF Fresh
      <3>6. Changing'
        BY <2>4, <2>7, <3>1, <3>2, <3>3, <3>4, <3>5 DEF Changing
      <3>7. TypeInv'
        BY <1>0, <2>8, <3>3, Fields
      <3> QED BY <2>7, <3>6, <3>7 DEF IInv, Stage
    <2>11. CASE Ending /\ Serving /\ dl.eof
      <3>1. /\ cl.file = 0 /\ state = "connected" /\ dl.open /\ dl.eof
            /\ dl.client < dl.current /\ Acks(commands, dl.client, dl.current)
            /\ dl.current < dl.client + Len(commands)
            /\ commands[dl.current - dl.client + 1].cmd = "donedl"
        BY <2>1, <2>11 DEF Ending, Serving, Acking
      <3>2. dl'.current = dl.current /\ dl'.client = dl.client /\ dl'.eof
        BY <2>4, <2>6, <3>1
      <3>3. down' \in Seq(Message) /\ late' \in BOOLEAN
        <4>1. down \in Seq(Message) /\ late \in BOOLEAN
          BY <1>0, Fields
        <4>2. ASSUME NEW n \in 0..dl'.current - 1, NEW b \in Data,
                     Send([kind |-> "block", block |-> Short(n), data |-> b])
              PROVE  down' \in Seq(Message)
          BY <4>1, <4>2, BlockIsMessage, SendIs
        <4> QED BY <2>5, <4>1, <4>2
      <3>4. Acking(dl.current)'
        BY <2>4, <3>1, <3>2, AckingStep
      <3>5. Ending'
        BY <2>4, <2>7, <3>1, <3>2, <3>4 DEF Ending
      <3> QED BY <2>7, <2>8, <3>3, <3>5 DEF IInv, Stage
    <2> QED BY <2>2, <2>9, <2>10, <2>11
  <1> QED BY <1>1, <1>2

\* The stages in which the server has the file open.
LEMMA OpenStages ==
    ASSUME IInv, dl.open
    PROVE  Running \/ Changing \/ (Ending /\ Serving /\ dl.eof /\ state = "connected")
  BY DEF IInv, Stage, Asked, Waiting, Refused, GivenUp, Ending

LEMMA SecondKeeps == ASSUME DownloadAssumption, IInv, SecondPasses PROVE IInv'
  <1>1. TypeInv /\ SavedIsServed
    BY DEF IInv
  <1>2. /\ UNCHANGED <<files, punctual, dl, window, state, cl, saved, commands, down>>
        /\ ~late /\ dl.open /\ late' = TRUE /\ (punctual => down = <<>> /\ commands = <<>>)
    BY DEF SecondPasses
  <1>3. TypeInv' /\ Same
    <2>1. Same
      BY <1>2 DEF Same
    <2> QED BY <1>1, <1>2, <2>1, TypeStep DEF TypeInv
  <1>4. SavedIsServed'
    BY <1>1, <1>2, SavedStep
  <1>5. ~Changing
    <2>1. SUFFICES ASSUME Changing PROVE FALSE
      OBVIOUS
    <2>2. /\ commands = <<>> /\ dl.client < dl.current
          /\ Len(commands) + dl.client = dl.current + 1
      BY <1>2, <2>1 DEF Changing
    <2>3. Len(commands) = 0 /\ dl.client \in Nat /\ dl.current \in Nat
      BY <1>1, <2>2, Fields
    <2> QED BY <2>2, <2>3
  <1>6. Serving => Serving'
    BY <1>2, <1>3, ServingStep DEF Serving
  <1>7. CASE Running
    <2>1. SentInv'
      BY <1>2, <1>3, <1>7, SentStep DEF Running, SentInv
    <2>2. Acking(cl.block)'
      BY <1>2, <1>7, AckingStep DEF Running, Acking
    <2>3. Running'
      BY <1>2, <1>6, <1>7, <2>1, <2>2 DEF Running
    <2> QED BY <1>3, <1>4, <2>3 DEF IInv, Stage
  <1>8. CASE Ending /\ Serving /\ dl.eof /\ state = "connected"
    <2>1. Acking(dl.current)'
      BY <1>2, <1>8, AckingStep DEF Ending, Acking, Serving
    <2>2. Ending'
      BY <1>2, <1>6, <1>8, <2>1 DEF Ending, Serving
    <2> QED BY <1>3, <1>4, <2>2 DEF IInv, Stage
  <1> QED BY <1>2, <1>5, <1>7, <1>8, OpenStages

LEMMA LoseKeeps == ASSUME DownloadAssumption, IInv, LoseBlock PROVE IInv'
  <1>1. TypeInv /\ SavedIsServed /\ Stage
    BY DEF IInv
  <1>2. /\ UNCHANGED <<files, punctual, dl, window, late, state, cl, saved, commands>>
        /\ down # <<>> /\ down' = Tail(down)
    BY DEF LoseBlock
  <1>3. /\ down \in Seq(Message) /\ down' \in Seq(Message)
        /\ \A k \in 1..Len(down') : k + 1 \in 1..Len(down) /\ down'[k] = down[k + 1]
    BY <1>1, <1>2, Fields, TailIs
  <1>4. TypeInv' /\ Same
    <2>1. Same
      BY <1>2 DEF Same
    <2> QED BY <1>1, <1>2, <1>3, <2>1, TypeStep DEF TypeInv
  <1>5. SavedIsServed'
    BY <1>1, <1>2, SavedStep
  <1>6. Serving => Serving'
    BY <1>2, <1>4, ServingStep DEF Serving
  <1>7. CASE Running
    <2>1. AsInFile(down', cl.file, cl.block, dl.current, dl.xmit)
      BY <1>1, <1>2, <1>3, <1>7, Fields, RestIsInFile DEF Running, SentInv
    <2>2. SentInv'
      BY <1>2, <1>4, <2>1, SentStep
    <2>3. Acking(cl.block)'
      BY <1>2, <1>7, AckingStep DEF Running, Acking
    <2>4. Running'
      BY <1>2, <1>6, <1>7, <2>2, <2>3 DEF Running
    <2> QED BY <1>4, <1>5, <2>4 DEF IInv, Stage
  <1>8. CASE Ending
    <2>1. Serving => (Acking(dl.current) => Acking(dl.current)')
      BY <1>2, <1>8, AckingStep DEF Acking
    <2>2. Ending'
      BY <1>2, <1>6, <1>8, <2>1 DEF Ending
    <2> QED BY <1>4, <1>5, <2>2 DEF IInv, Stage
  <1>9. CASE Refused
    <2>1. Refused'
      BY <1>2, <1>3, <1>9 DEF Refused, Fresh
    <2> QED BY <1>4, <1>5, <2>1 DEF IInv, Stage
  <1>10. CASE GivenUp
    <2>1. GivenUp'
      BY <1>2, <1>10 DEF GivenUp
    <2> QED BY <1>4, <1>5, <2>1 DEF IInv, Stage
  <1>11. CASE Asked \/ Waiting \/ Changing
    BY <1>2, <1>11 DEF Asked, Waiting, Changing
  <1> QED BY <1>1, <1>7, <1>8, <1>9, <1>10, <1>11 DEF Stage

-----------------------------------------------------------------------------
(* Commands arrive. *)

LEMMA ClosedIs ==
    ASSUME TypeInv
    PROVE  /\ Closed(dl) \in Counters /\ Closed(dl).name = 0 /\ ~Closed(dl).open
           /\ \A n \in 0..Len(files) :
                 LET d == [Closed(dl) EXCEPT !.name = n]
                 IN  d \in Counters /\ d.name = n /\ ~d.open
  <1>1. dl \in Counters /\ 0 \in 0..Len(files)
    BY Fields
  <1> QED BY ONLY <1>1 DEF Closed, Counters

\* An acknowledge under way is of the block the server waits for.  The one of
\* the Eof block ends the download.
LEMMA AckArrives ==
    ASSUME DownloadAssumption, TypeInv, Serving, NEW z \in Nat, dl.client < z,
           z <= dl.current, Acking(z), SV_ClientCommand
    PROVE  /\ UNCHANGED <<files, punctual, state, window, cl, saved, down>>
           /\ commands # <<>> /\ commands' = Tail(commands)
           /\ commands' \in Seq(Command) /\ Len(commands') = Len(commands) - 1
           /\ \/ dl.client = files[dl.name] /\ dl' = Closed(dl) /\ late' = late
              \/ /\ dl.client < files[dl.name] /\ late' = FALSE
                 /\ dl' = [dl EXCEPT !.client = @ + 1]
                 /\ dl' \in Counters /\ Reading(dl', window)
                 /\ Acks(commands', dl'.client, z)
  <1>1. /\ dl \in Counters /\ dl.client \in Nat /\ dl.current \in Nat /\ dl.count \in Nat
        /\ dl.xmit \in Nat /\ commands \in Seq(Command)
        /\ dl.name \in 1..Len(files) /\ dl.name \in Nat /\ files[dl.name] \in Int
    BY SMTT(30), Fields DEF Serving
  <1>2. /\ commands # <<>> /\ Head(commands) = [cmd |-> "nextdl", arg |-> dl.client]
        /\ Tail(commands) \in Seq(Command) /\ Len(Tail(commands)) = Len(commands) - 1
        /\ Acks(Tail(commands), dl.client + 1, z)
    BY <1>1, RestAcks DEF Acking
  <1>3. /\ UNCHANGED <<files, punctual, window, cl, saved, down>>
        /\ commands' = Tail(commands)
        /\ SV_NextDownload_f(dl.client)
    BY <1>2 DEF SV_ClientCommand
  <1>4. window[dl.client % MAX_DOWNLOAD_WINDOW] = BlockOf(dl.name, dl.client)
    <2>1. dl.client \in dl.client..dl.current - 1
      BY <1>1
    <2> QED BY <2>1, Zenon DEF Serving, Reading
  <1>5. dl.client <= files[dl.name]
    <2>1. dl.current <= files[dl.name] + 1
      BY <1>1 DEF Serving, Reading
    <2> QED BY <1>1, <2>1
  <1>6. CASE dl.client = files[dl.name]
    <2>1. BlockOf(dl.name, dl.client) = Eof
      BY <1>1, <1>6 DEF BlockOf
    <2> QED BY <1>2, <1>3, <1>4, <1>6, <2>1 DEF SV_NextDownload_f
  <1>7. CASE dl.client < files[dl.name]
    <2>1. BlockOf(dl.name, dl.client) # Eof
      BY <1>1, <1>7 DEF BlockOf, Eof
    <2>2. dl' = [dl EXCEPT !.client = @ + 1] /\ late' = FALSE /\ state' = state
      BY <1>3, <1>4, <2>1 DEF SV_NextDownload_f
    <2>3. /\ dl' \in Counters /\ dl'.client = dl.client + 1
          /\ dl'.name = dl.name /\ dl'.current = dl.current /\ dl'.xmit = dl.xmit
          /\ dl'.count = dl.count /\ dl'.eof = dl.eof
      <3>1. dl.client + 1 \in Nat
        BY <1>1
      <3> QED BY ONLY <1>1, <2>2, <3>1 DEF Counters
    <2>4. Reading(dl', window)
      <3>1. /\ dl'.client <= dl'.current /\ dl'.current <= dl'.client + MAX_DOWNLOAD_WINDOW
            /\ \A n \in dl'.client..dl'.current - 1 : n \in dl.client..dl.current - 1
        <4>1. dl.current <= dl.client + MAX_DOWNLOAD_WINDOW /\ MAX_DOWNLOAD_WINDOW \in Nat
          BY DEF Serving, Reading, DownloadAssumption
        <4> QED BY SMTT(30), <1>1, <2>3, <4>1
      <3> QED BY <2>3, <3>1 DEF Serving, Reading
    <2> QED BY <1>2, <1>3, <1>7, <2>2, <2>3, <2>4
  <1>8. dl.client = files[dl.name] \/ dl.client < files[dl.name]
    BY <1>1, <1>5
  <1> QED BY <1>6, <1>7, <1>8, Zenon

LEMMA CommandKeeps == ASSUME DownloadAssumption, IInv, SV_ClientCommand PROVE IInv'
  <1>1. TypeInv /\ SavedIsServed /\ Stage
    BY DEF IInv
  <1>2. /\ UNCHANGED <<files, punctual, window, cl, saved, down>>
        /\ commands # <<>> /\ commands' = Tail(commands) /\ state = "connected"
    BY DEF SV_ClientCommand
  <1>3. /\ commands \in Seq(Command) /\ commands' \in Seq(Command)
        /\ Head(commands) = commands[1]
        /\ Len(commands') = Len(commands) - 1 /\ Len(commands) \in Nat /\ Len(commands) > 0
        /\ \A k \in 1..Len(commands') :
              k + 1 \in 1..Len(commands) /\ commands'[k] = commands[k + 1]
    BY <1>1, <1>2, Fields, TailIs
  <1>3a. /\ Len(commands') = Len(commands) - 1 /\ Len(commands) \in Nat
        /\ dl.client \in Nat /\ dl.current \in Nat
    BY <1>1, <1>3, Fields
  <1>4. Same
    BY <1>2 DEF Same
  <1>5. SavedIsServed'
    BY <1>1, <1>2, SavedStep
  <1>6. ASSUME dl' \in Counters, late' \in BOOLEAN, state' \in {"connected", "primed"}
        PROVE  TypeInv'
    BY <1>1, <1>2, <1>3, <1>4, <1>6, TypeStep DEF TypeInv
  <1>7. /\ dl \in Counters /\ dl.client \in Nat /\ dl.current \in Nat /\ dl.count \in Nat
        /\ cl.block \in Nat /\ late \in BOOLEAN /\ Len(files) \in Nat
        /\ \A i \in 1..Len(files) : files[i] \in Int
    BY <1>1, Fields
  <1>8. /\ Closed(dl) \in Counters /\ Closed(dl).name = 0 /\ ~Closed(dl).open
        /\ \A n \in 0..Len(files) :
              LET d == [Closed(dl) EXCEPT !.name = n]
              IN  d \in Counters /\ d.name = n /\ ~d.open
    BY <1>1, ClosedIs
  <1>9. CASE Asked
    <2>1. /\ Fresh /\ cl.file \in 1..Len(files) /\ ~late /\ down = <<>>
          /\ commands = <<[cmd |-> "download", arg |-> cl.file]>>
      BY <1>9 DEF Asked, Fresh
    <2>2. /\ dl' = [Closed(dl) EXCEPT !.name = cl.file]
          /\ late' = late /\ state' = state
      BY <2>1 DEF SV_ClientCommand
    <2>3. cl.file \in 0..Len(files)
      BY <1>7, <2>1
    <2>4. dl' \in Counters /\ dl'.name = cl.file /\ ~dl'.open
      BY <1>8, <2>2, <2>3
    <2>5. commands' = <<>>
      BY <1>2, <2>1
    <2>6. Waiting'
      BY <1>2, <2>1, <2>2, <2>4, <2>5 DEF Waiting, Fresh
    <2> QED BY <1>2, <1>5, <1>6, <1>7, <2>2, <2>4, <2>6 DEF IInv, Stage
  <1>10. CASE Running
    <2>1. /\ Serving /\ Acking(cl.block) /\ Len(commands) + dl.client = cl.block
          /\ cl.block <= dl.current /\ cl.block <= files[cl.file] /\ cl.file = dl.name
          /\ dl.name \in 1..Len(files) /\ SentInv
      BY <1>10 DEF Running, Serving
    <2>2. dl.client < cl.block
      BY <1>3, <1>7, <2>1
    <2>3. ~(dl.client = files[dl.name])
      BY <1>7, <2>1, <2>2
    <2>4. /\ late' = FALSE /\ dl' = [dl EXCEPT !.client = @ + 1] /\ state' = state
          /\ dl' \in Counters /\ Reading(dl', window) /\ Acks(commands', dl'.client, cl.block)
      BY <1>1, <1>7, <2>1, <2>2, <2>3, AckArrives
    <2>5. /\ dl'.client = dl.client + 1 /\ dl'.open = dl.open /\ dl'.name = dl.name
          /\ dl'.current = dl.current /\ dl'.xmit = dl.xmit
      BY <1>7, <2>4 DEF Counters
    <2>6. Serving'
      BY <1>2, <1>4, <2>1, <2>4, <2>5, ServingStep DEF Serving
    <2>7. Acking(cl.block)'
      BY <1>2, <2>4, AckingStep
    <2>8. SentInv'
      BY <1>2, <1>4, <2>1, <2>5, SentStep DEF SentInv
    <2>9. Len(commands') + dl'.client = cl.block
      BY <1>3, <1>7, <2>1, <2>5
    <2>10. Running'
      BY <1>2, <1>10, <2>4, <2>5, <2>6, <2>7, <2>8, <2>9 DEF Running
    <2> QED BY <1>2, <1>5, <1>6, <2>4, <2>10 DEF IInv, Stage
  <1>11. CASE Changing
    <2>1. /\ Serving /\ Acking(dl.current) /\ Len(commands) + dl.client = dl.current + 1
          /\ dl.client < dl.current /\ dl.eof /\ cl.file = dl.name + 1 /\ Fresh
          /\ dl.name \in 1..Len(files) /\ down = <<>> /\ ~late /\ dl.xmit = dl.current
          /\ commands[Len(commands)] = [cmd |-> "download", arg |-> cl.file]
          /\ dl.current = files[dl.name] + 1 /\ punctual
      BY <1>11 DEF Changing, Serving, Reading
    <2>2. /\ state' = state
          /\ \/ dl.client = files[dl.name] /\ dl' = Closed(dl) /\ late' = late
             \/ /\ dl.client < files[dl.name] /\ late' = FALSE
                /\ dl' = [dl EXCEPT !.client = @ + 1]
                /\ dl' \in Counters /\ Reading(dl', window)
                /\ Acks(commands', dl'.client, dl.current)
      <3>1. dl.current <= dl.current
        BY <1>3a
      <3> QED BY <1>1, <1>7, <2>1, <3>1, AckArrives
    <2>3. Fresh'
      BY <1>2, <2>1, <2>2 DEF Fresh
    <2>4. CASE dl.client = files[dl.name] /\ dl' = Closed(dl) /\ late' = late
      <3>1. Len(commands) = 2 /\ Len(commands') = 1
        <4>1. /\ Len(commands) + dl.client = dl.current + 1
              /\ dl.current = dl.client + 1
          BY <2>1, <2>4
        <4> QED BY ONLY SMTT(30), <1>3a, <4>1
      <3>2. commands'[1] = [cmd |-> "download", arg |-> cl.file]
        BY <1>3, <2>1, <3>1
      <3>3. commands' = <<[cmd |-> "download", arg |-> cl.file]>>
        BY <1>3, <3>1, <3>2
      <3>4. Asked'
        BY <1>2, <1>8, <2>1, <2>3, <2>4, <3>3 DEF Asked
      <3> QED BY <1>2, <1>5, <1>6, <1>7, <1>8, <2>2, <2>4, <3>4 DEF IInv, Stage
    <2>5. CASE /\ dl.client < files[dl.name] /\ late' = FALSE
               /\ dl' = [dl EXCEPT !.client = @ + 1]
               /\ dl' \in Counters /\ Reading(dl', window)
               /\ Acks(commands', dl'.client, dl.current)
      <3>1. /\ dl'.client = dl.client + 1 /\ dl'.open = dl.open /\ dl'.name = dl.name
            /\ dl'.current = dl.current /\ dl'.xmit = dl.xmit /\ dl'.eof = dl.eof
        BY <1>7, <2>5 DEF Counters
      <3>2. Serving'
        BY <1>2, <1>4, <2>1, <2>5, <3>1, ServingStep DEF Serving
      <3>3. Acking(dl.current)'
        BY <2>5, <3>1, AckingStep
      <3>4. /\ dl'.client < dl'.current /\ Len(commands') + dl'.client = dl'.current + 1
            /\ Len(commands') \in 1..Len(commands') /\ Len(commands') + 1 = Len(commands)
        <4>1. /\ Len(commands) + dl.client = dl.current + 1
              /\ dl.client < files[dl.name] /\ files[dl.name] \in Int
              /\ dl.current = files[dl.name] + 1
          BY <1>7, <2>1, <2>5
        <4> QED BY ONLY SMTT(30), <1>3a, <3>1, <4>1
      <3>5. commands'[Len(commands')] = [cmd |-> "download", arg |-> cl.file]
        BY <1>3, <2>1, <3>4
      <3>6. Changing'
        BY <1>2, <2>1, <2>3, <2>5, <3>1, <3>2, <3>3, <3>4, <3>5 DEF Changing
      <3> QED BY <1>2, <1>5, <1>6, <2>2, <2>5, <3>6 DEF IInv, Stage
    <2> QED BY <2>2, <2>4, <2>5
  <1>12. CASE Ending /\ dl.open
    <2>1. /\ Serving /\ Acking(dl.current) /\ dl.client < dl.current /\ dl.eof
          /\ dl.current < dl.client + Len(commands) /\ cl.file = 0
          /\ commands[dl.current - dl.client + 1].cmd = "donedl"
          /\ dl.name \in 1..Len(files) /\ dl.current = files[dl.name] + 1
      BY <1>12 DEF Ending, Serving, Reading
    <2>2. /\ state' = state
          /\ \/ dl.client = files[dl.name] /\ dl' = Closed(dl) /\ late' = late
             \/ /\ dl.client < files[dl.name] /\ late' = FALSE
                /\ dl' = [dl EXCEPT !.client = @ + 1]
                /\ dl' \in Counters /\ Reading(dl', window)
                /\ Acks(commands', dl'.client, dl.current)
      <3>1. dl.current <= dl.current
        BY <1>3a
      <3> QED BY <1>1, <1>7, <2>1, <3>1, AckArrives
    <2>3. CASE dl.client = files[dl.name] /\ dl' = Closed(dl) /\ late' = late
      <3>1. dl.current - dl.client + 1 = 2 /\ Len(commands') >= 1
        BY <1>3, <1>7, <2>1, <2>3
      <3>2. 1 \in 1..Len(commands') /\ commands'[1] = commands[2]
        BY <1>3, <3>1
      <3>3. commands' # <<>> /\ commands'[1].cmd = "donedl"
        BY <1>3, <2>1, <3>1, <3>2
      <3>4. Ending'
        BY <1>2, <1>8, <2>1, <2>2, <2>3, <3>3 DEF Ending
      <3> QED BY <1>2, <1>5, <1>6, <1>7, <1>8, <2>2, <2>3, <3>4 DEF IInv, Stage
    <2>4. CASE /\ dl.client < files[dl.name] /\ late' = FALSE
               /\ dl' = [dl EXCEPT !.client = @ + 1]
               /\ dl' \in Counters /\ Reading(dl', window)
               /\ Acks(commands', dl'.client, dl.current)
      <3>1. /\ dl'.client = dl.client + 1 /\ dl'.open = dl.open /\ dl'.name = dl.name
            /\ dl'.current = dl.current /\ dl'.xmit = dl.xmit /\ dl'.eof = dl.eof
        BY <1>7, <2>4 DEF Counters
      <3>2. Serving'
        BY <1>2, <1>4, <2>1, <2>4, <3>1, ServingStep DEF Serving
      <3>3. Acking(dl.current)'
        BY <2>4, <3>1, AckingStep
      <3>4. /\ dl'.client < dl'.current /\ dl'.current < dl'.client + Len(commands')
            /\ dl'.current - dl'.client + 1 = dl.current - dl.client
            /\ dl.current - dl.client \in 1..Len(commands')
        <4>1. /\ dl.current < dl.client + Len(commands)
              /\ dl.client < files[dl.name] /\ files[dl.name] \in Int
              /\ dl.current = files[dl.name] + 1
          BY <1>7, <2>1, <2>4
        <4> QED BY ONLY <1>3a, <3>1, <4>1
      <3>5. commands'[dl'.current - dl'.client + 1].cmd = "donedl"
        BY <1>3, <2>1, <3>4
      <3>6. Ending'
        BY <1>2, <2>1, <2>2, <2>4, <3>1, <3>2, <3>3, <3>4, <3>5 DEF Ending
      <3> QED BY <1>2, <1>5, <1>6, <2>2, <2>4, <3>6 DEF IInv, Stage
    <2> QED BY <2>2, <2>3, <2>4
  <1>13. CASE Ending /\ ~dl.open
    <2>1. cl.file = 0 /\ dl.name = 0 /\ commands[1].cmd = "donedl"
      BY <1>2, <1>13 DEF Ending, Serving
    <2>2. state' = "primed" /\ dl' = dl /\ late' = late
      BY <1>3, <2>1 DEF SV_ClientCommand
    <2>3. Ending'
      BY <1>2, <1>13, <2>1, <2>2 DEF Ending
    <2> QED BY <1>5, <1>6, <1>7, <2>2, <2>3 DEF IInv, Stage
  <1>14. CASE Waiting \/ Refused \/ GivenUp
    BY <1>2, <1>14 DEF Waiting, Refused, GivenUp
  <1> QED BY <1>1, <1>9, <1>10, <1>11, <1>12, <1>13, <1>14 DEF Stage

-----------------------------------------------------------------------------
(* Blocks arrive. *)

\* The block that arrives is one the client has, or is told by its number.
LEMMA BlockArrives ==
    ASSUME DownloadAssumption, TypeInv, Running, down # <<>>
    PROVE  /\ Head(down).kind = "block"
           /\ Expected(Head(down)) =>
                 /\ cl.block < ShortRange /\ cl.block < dl.current
                 /\ Head(down).data = BlockOf(cl.file, cl.block)
                 /\ punctual => cl.block + Len(down) = dl.xmit
  <1>1. /\ cl.block \in Nat /\ dl.current \in Nat /\ dl.client \in Nat /\ dl.xmit \in Nat
        /\ Len(down) \in Nat /\ down \in Seq(Message)
    BY Fields
  <1>2. Head(down) = down[1] /\ 1 \in 1..Len(down)
    BY <1>1, TailIs
  <1>3. PICK n \in 0..dl.current - 1 :
           /\ down[1].kind = "block" /\ down[1].block = Short(n)
           /\ n < cl.block \/ down[1].data = BlockOf(cl.file, n)
           /\ punctual => n + Len(down) = dl.xmit + (1 - 1)
    BY <1>2, Zenon DEF Running, SentInv, AsInFile
  <1>4. /\ cl.block <= ShortRange /\ dl.client <= cl.block
        /\ dl.current <= dl.client + MAX_DOWNLOAD_WINDOW /\ MAX_DOWNLOAD_WINDOW \in Nat
    BY DEF Running, Acking, Acks, Serving, Reading, DownloadAssumption
  <1>5. n \in Nat /\ n < dl.current /\ n < cl.block + MAX_DOWNLOAD_WINDOW
    BY ONLY <1>1, <1>4, n \in 0..dl.current - 1
  <1>6. CASE Expected(Head(down))
    <2>1. Short(n) = cl.block
      BY <1>2, <1>3, <1>6, Zenon DEF Expected
    <2>2. n = cl.block /\ cl.block < ShortRange
      BY <1>1, <1>4, <1>5, <2>1, ShortTells
    <2>3. ~(n < cl.block) /\ dl.xmit + (1 - 1) = dl.xmit
      BY <1>1, <2>2
    <2> QED BY <1>2, <1>3, <1>5, <2>2, <2>3
  <1> QED BY <1>2, <1>3, <1>6

\* A file of which the client has as many blocks as the server is the server's.
LEMMA HasContent ==
    ASSUME TypeInv, NEW f \in 1..Len(files), NEW q \in Seq(Data), Len(q) = files[f],
           \A i \in 1..files[f] : q[i] = <<f, i>>
    PROVE  q = Content(f)
  <1>1. q = [i \in 1..Len(q) |-> q[i]]
    OBVIOUS
  <1> QED BY <1>1 DEF Content

LEMMA ParseKeeps == ASSUME DownloadAssumption, IInv, CL_ParseDownload PROVE IInv'
  <1>1. TypeInv /\ SavedIsServed /\ Stage
    BY DEF IInv
  <1>2. /\ UNCHANGED <<files, punctual, dl, window, late, state>>
        /\ down # <<>> /\ down' = Tail(down) /\ cl.file # -1
    BY DEF CL_ParseDownload
  <1>3. /\ down \in Seq(Message) /\ down' \in Seq(Message) /\ Head(down) = down[1]
        /\ Len(down) \in Nat /\ Len(down) > 0 /\ Len(down') = Len(down) - 1
    BY <1>1, <1>2, Fields, TailIs
  <1>4. Same
    BY <1>2 DEF Same
  <1>5. ASSUME commands' \in Seq(Command), saved' \in [DOMAIN files -> Seq(Data)],
               cl' \in [file : -1..Len(files), block : Nat, data : Seq(Data)]
        PROVE  TypeInv'
    BY <1>1, <1>2, <1>3, <1>4, <1>5, TypeStep DEF TypeInv
  <1>6. UNCHANGED saved => SavedIsServed'
    BY <1>1, <1>2, SavedStep
  <1>7. Serving => Serving'
    BY <1>2, <1>4, ServingStep DEF Serving
  <1>8. /\ commands \in Seq(Command) /\ Len(commands) \in Nat /\ Len(files) \in Nat
        /\ cl.block \in Nat /\ cl.data \in Seq(Data) /\ cl.file \in -1..Len(files)
        /\ dl.client \in Nat /\ dl.current \in Nat /\ dl.xmit \in Nat
        /\ cl \in [file : -1..Len(files), block : Nat, data : Seq(Data)]
        /\ saved \in [DOMAIN files -> Seq(Data)]
    BY <1>1, Fields DEF TypeInv
  <1>9. CASE Refused
    <2>1. cl.file \in 1..Len(files) /\ Head(down).kind = "refusal"
      BY <1>3, <1>9 DEF Refused, Fresh
    <2>2. cl' = Gone /\ UNCHANGED <<saved, commands>>
      BY <1>8, <2>1 DEF CL_ParseDownload
    <2>3. Gone \in [file : -1..Len(files), block : Nat, data : Seq(Data)]
      BY <1>8 DEF Gone
    <2>4. GivenUp'
      BY <1>2, <1>9, <2>2 DEF Refused, GivenUp, Gone, Fresh
    <2> QED BY <1>5, <1>6, <1>8, <2>2, <2>3, <2>4 DEF IInv, Stage
  <1>10. CASE Ending
    <2>1. Add("stopdl", 0) /\ UNCHANGED <<cl, saved>>
      BY <1>10 DEF Ending, CL_ParseDownload
    <2> DEFINE m == [cmd |-> "stopdl", arg |-> 0]
    <2>2. m \in Command /\ commands' = Append(commands, m)
      BY <2>1 DEF Add, Command
    <2> HIDE DEF m
    <2>3. /\ commands' \in Seq(Command) /\ Len(commands') = Len(commands) + 1
          /\ \A k \in 1..Len(commands) : commands'[k] = commands[k]
      BY <1>8, <2>2, AppendIs
    <2>4. CASE Serving /\ state = "connected"
      <3>1. /\ Acks(commands, dl.client, dl.current) /\ dl.eof /\ dl.client < dl.current
            /\ dl.current < dl.client + Len(commands)
            /\ commands[dl.current - dl.client + 1].cmd = "donedl"
        BY <1>10, <2>4 DEF Ending, Serving, Acking
      <3>2. Acks(commands', dl.client, dl.current)
        BY <1>8, <2>2, <3>1, MoreAcks
      <3>3. Acking(dl.current)'
        BY <1>2, <3>2, AckingStep
      <3>4. /\ dl.current - dl.client + 1 \in 1..Len(commands)
            /\ dl.current < dl.client + Len(commands')
        BY SMTT(30), <1>8, <2>3, <3>1
      <3>5. commands'[dl.current - dl.client + 1].cmd = "donedl"
        BY <2>3, <3>1, <3>4
      <3>6. Ending'
        BY <1>2, <1>7, <1>10, <2>1, <2>4, <3>1, <3>3, <3>4, <3>5 DEF Ending
      <3> QED BY <1>5, <1>6, <1>8, <2>1, <2>3, <3>6 DEF IInv, Stage
    <2>5. CASE ~Serving \/ state # "connected"
      <3>1. commands # <<>> => 1 \in 1..Len(commands) /\ commands' # <<>>
        BY <1>8, <2>3
      <3>2. Ending'
        BY <1>2, <1>10, <2>1, <2>3, <2>5, <3>1 DEF Ending
      <3> QED BY <1>5, <1>6, <1>8, <2>1, <2>3, <3>2 DEF IInv, Stage
    <2> QED BY <2>4, <2>5
  <1>11. CASE Running
    <2> DEFINE file == cl.file
               block == cl.block
               n == Len(commands)
    <2>1. /\ Serving /\ file = dl.name /\ file \in 1..Len(files) /\ files[file] \in Int
          /\ block <= files[file] /\ block <= ShortRange /\ block <= dl.current
          /\ Len(cl.data) = block /\ \A i \in 1..block : cl.data[i] = <<file, i>>
          /\ Acks(commands, dl.client, block) /\ n + dl.client = block
          /\ AsInFile(down, file, block, dl.current, dl.xmit)
          /\ state = "connected" /\ (punctual /\ late => down = <<>> /\ commands = <<>>)
      <3>1. dl.name \in 1..Len(files)
        BY <1>11 DEF Running, Serving
      <3>2. files[dl.name] \in Int
        BY <1>1, <3>1, Fields
      <3> QED BY <1>11, <3>1, <3>2 DEF Running, Acking, SentInv
    <2>2. /\ Head(down).kind = "block"
          /\ Expected(Head(down)) =>
                /\ block < ShortRange /\ block < dl.current
                /\ Head(down).data = BlockOf(file, block)
                /\ punctual => block + Len(down) = dl.xmit
      BY <1>1, <1>2, <1>11, BlockArrives
    <2>3. AsInFile(down', file, block, dl.current, dl.xmit)
      BY <1>2, <1>3, <1>8, <2>1, RestIsInFile
    <2>4. ~(punctual /\ late)
      BY <1>2, <2>1
    <2>5. CASE ~Expected(Head(down))
      <3>1. UNCHANGED <<cl, saved, commands>>
        BY SMTT(30), <1>8, <2>1, <2>2, <2>5 DEF CL_ParseDownload
      <3>2. SentInv'
        BY <1>2, <1>4, <2>3, <3>1, SentStep
      <3>3. Acking(cl.block)'
        BY <1>2, <2>1, <3>1, AckingStep
      <3>4. Running'
        BY <1>2, <1>7, <2>1, <2>4, <3>1, <3>2, <3>3 DEF Running
      <3> QED BY <1>5, <1>6, <1>8, <3>1, <3>4 DEF IInv, Stage
    <2>6. CASE Expected(Head(down)) /\ block < files[file]
      <3> DEFINE data == <<file, block + 1>>
                 m == [cmd |-> "nextdl", arg |-> block]
      <3>1. Head(down).data = data /\ data # Eof
        BY SMTT(30), <1>8, <2>1, <2>2, <2>6 DEF BlockOf, Eof
      <3>2. /\ cl' = [cl EXCEPT !.block = @ + 1, !.data = Append(@, data)]
            /\ commands' = Append(commands, m) /\ saved' = saved
        <4>1. cl.file # 0 /\ Head(down).kind # "refusal"
          BY <1>8, <2>1, <2>2
        <4>2. /\ cl' = [cl EXCEPT !.block = @ + 1, !.data = Append(@, Head(down).data)]
              /\ Add("nextdl", cl.block) /\ UNCHANGED saved
          BY <2>6, <3>1, <4>1, Zenon DEF CL_ParseDownload
        <4> QED BY <3>1, <4>2 DEF Add
      <3>3. data \in Data /\ m \in Command /\ block + 1 \in Nat
        <4>1. block \in Nat /\ file \in Nat
          BY <1>8, <2>1
        <4> QED BY ONLY <4>1 DEF Data, Command
      <3> HIDE DEF data, m
      <3>4. /\ Append(cl.data, data) \in Seq(Data) /\ Len(Append(cl.data, data)) = block + 1
            /\ \A i \in 1..block : Append(cl.data, data)[i] = cl.data[i]
            /\ Append(cl.data, data)[block + 1] = data
        BY SMTT(30), <1>8, <2>1, <3>3, AppendIs
      <3>5. /\ cl'.file = file /\ cl'.block = block + 1 /\ cl'.data = Append(cl.data, data)
            /\ cl' \in [file : -1..Len(files), block : Nat, data : Seq(Data)]
        BY <1>8, <3>2, <3>3, <3>4
      <3>6. /\ commands' \in Seq(Command) /\ Len(commands') = n + 1
            /\ Acks(commands', dl.client, block + 1)
        <4>1. m = [cmd |-> "nextdl", arg |-> block] /\ block = dl.client + n
          BY <1>8, <2>1 DEF m
        <4> QED BY <1>8, <2>1, <3>2, <3>3, <4>1, MoreAcks
      <3>7. /\ block + 1 <= files[file] /\ block + 1 <= ShortRange /\ block + 1 <= dl.current
            /\ Len(commands') + dl.client = block + 1
        <4>1. ShortRange \in Nat
          BY DEF DownloadAssumption
        <4>2. /\ block < files[file] /\ block < ShortRange /\ block < dl.current
              /\ n + dl.client = block /\ Len(commands') = n + 1 /\ files[file] \in Int
          BY <2>1, <2>2, <2>6, <3>6
        <4>3. block \in Nat /\ dl.current \in Nat /\ dl.client \in Nat /\ n \in Nat
          BY <1>8
        <4> HIDE DEF file, block, n
        <4> QED BY ONLY SMTT(30), <4>1, <4>2, <4>3
      <3>8. \A i \in 1..block + 1 : cl'.data[i] = <<file, i>>
        <4>1. \A i \in 1..block + 1 : i \in 1..block \/ i = block + 1
          BY <1>8
        <4> QED BY <2>1, <3>4, <3>5, <4>1 DEF data
      <3>9. SentInv'
        <4>1. block <= block + 1 /\ dl.current <= dl.current
          BY <1>8
        <4>2. AsInFile(down', file, block + 1, dl.current, dl.xmit)
          BY <1>3, <1>8, <2>3, <3>3, <4>1, FurtherIsInFile
        <4> QED BY <1>2, <1>4, <3>5, <4>2, SentStep
      <3>10. Acking(cl.block)'
        BY <1>2, <3>5, <3>6, AckingStep
      <3>11. Running'
        BY <1>2, <1>7, <2>1, <2>4, <3>4, <3>5, <3>7, <3>8, <3>9, <3>10 DEF Running
      <3> QED BY <1>5, <1>6, <1>8, <3>2, <3>5, <3>6, <3>11 DEF IInv, Stage
    <2>7. CASE Expected(Head(down)) /\ ~(block < files[file])
      <3>1. block = files[file]
        BY <1>8, <2>1, <2>7
      <3>2. cl.data = Content(file)
        BY <1>1, <1>8, <2>1, <3>1, HasContent
      <3>3. CL_NextDownload
        <4>1. Head(down).data = Eof
          BY <2>2, <2>7 DEF BlockOf
        <4> QED BY <2>1, <2>2, <2>7, <4>1 DEF CL_ParseDownload
      <3>4. saved' = [saved EXCEPT ![file] = cl.data]
        BY <3>3 DEF CL_NextDownload
      <3>5. saved' \in [DOMAIN files -> Seq(Data)]
        BY <1>8, <3>4
      <3>6. SavedIsServed'
        <4>1. \A f \in DOMAIN files : saved'[f] = saved[f] \/ saved'[f] = Content(f)
          BY <1>8, <3>2, <3>4
        <4> QED BY <1>1, <1>2, <4>1 DEF SavedIsServed, Content
      <3>7. /\ dl.current = block + 1 /\ dl.eof /\ dl.client < dl.current
            /\ dl.xmit <= dl.current
        <4>1. /\ dl.count <= files[file]
              /\ dl.current = IF dl.eof THEN dl.count + 1 ELSE dl.count
              /\ dl.count \in Int /\ dl.xmit <= dl.current
          <5>1. /\ dl.count \in 0..files[dl.name] /\ dl.xmit <= dl.current
                /\ dl.current = IF dl.eof THEN dl.count + 1 ELSE dl.count
            BY <2>1, Zenon DEF Serving, Reading
          <5>2. file = dl.name /\ files[file] \in Int
            BY <2>1
          <5> QED BY <5>1, <5>2
        <4>2. block < dl.current
          BY <2>2, <2>7
        <4>3. dl.client <= block
          BY <2>1 DEF Acks
        <4>4. block \in Nat /\ dl.client \in Nat /\ dl.current \in Nat
          BY <1>8
        <4>5. dl.eof
          BY ONLY <3>1, <4>1, <4>2, <4>4
        <4>6. dl.current = block + 1
          BY ONLY <3>1, <4>1, <4>2, <4>4, <4>5
        <4> QED BY ONLY <4>1, <4>3, <4>4, <4>5, <4>6
      <3> DEFINE a == [cmd |-> "nextdl", arg |-> block]
                 acked == Append(commands, a)
      <3>8. a \in Command
        BY <1>8 DEF Command
      <3>9. /\ acked \in Seq(Command) /\ Len(acked) = n + 1
            /\ Acks(acked, dl.client, block + 1)
        <4>1. block = dl.client + n
          BY <1>8, <2>1
        <4> QED BY <1>8, <2>1, <3>8, <4>1, MoreAcks
      <3> HIDE DEF acked
      <3>10. ASSUME NEW b \in Command, commands' = Append(acked, b)
             PROVE  /\ commands' \in Seq(Command) /\ Len(commands') = n + 2
                    /\ commands'[n + 2] = b
                    /\ Acking(dl.current)' /\ Len(commands') + dl.client = dl.current + 1
        <4>1. /\ commands' \in Seq(Command) /\ Len(commands') = Len(acked) + 1
              /\ commands'[Len(acked) + 1] = b /\ Acks(commands', dl.client, block + 1)
          BY SMTT(30), <1>8, <3>9, <3>10, MoreAcks
        <4>2. Len(acked) + 1 = n + 2 /\ (n + 2) + dl.client = dl.current + 1
          BY SMTT(30), <1>8, <2>1, <3>7, <3>9
        <4>3. Acking(dl.current)'
          BY <1>2, <3>7, <4>1, AckingStep
        <4> QED BY <4>1, <4>2, <4>3
      <3>11. CASE file < Len(files)
        <4> DEFINE b == [cmd |-> "download", arg |-> file + 1]
        <4>1. b \in Command /\ file + 1 \in 1..Len(files)
          BY SMTT(30), <1>8, <2>1, <3>11 DEF Command
        <4>2. /\ cl' = [file |-> file + 1, block |-> 0, data |-> <<>>]
              /\ commands' = commands \o <<a, b>>
          BY <3>2, <3>3, <3>11 DEF CL_NextDownload, AddTwo
        <4>3. commands' = Append(acked, b)
          BY <1>8, <3>8, <4>1, <4>2, TwoMore DEF acked
        <4>4. /\ cl' \in [file : -1..Len(files), block : Nat, data : Seq(Data)]
              /\ cl'.file = file + 1
          BY <1>8, <4>1, <4>2
        <4>5. Fresh'
          BY <1>2, <2>1, <4>1, <4>2 DEF Fresh
        <4>6. punctual
          <5>1. <<files, punctual>> \in Cases /\ ~(Len(files) = 1)
            <6>1. <<files, punctual>> \in Cases
              BY <1>1 DEF TypeInv
            <6>2. file \in 1..Len(files) /\ Len(files) \in Nat /\ file < Len(files)
              BY <1>8, <2>1, <3>11
            <6>3. ASSUME NEW last \in Nat, NEW i \in 1..last, i < last PROVE last # 1
              BY <6>3
            <6>4. ~(Len(files) = 1)
              BY <6>2, <6>3, Zenon
            <6> QED BY <6>1, <6>4
          <5> QED BY <5>1 DEF DownloadAssumption
        <4>7. dl.xmit = dl.current /\ down' = <<>> /\ ~late
          <5>1. block + Len(down) = dl.xmit
            BY <2>2, <2>7, <4>6
          <5>2. dl.xmit = dl.current /\ Len(down') = 0
            BY <1>3, <1>8, <3>7, <5>1
          <5> QED BY <1>3, <2>4, <4>6, <5>2, EmptySeq
        <4>8. Changing'
          BY <1>2, <1>7, <2>1, <3>7, <3>10, <4>1, <4>3, <4>4, <4>5, <4>6, <4>7 DEF Changing
        <4> QED BY <1>5, <3>5, <3>6, <3>10, <4>1, <4>3, <4>4, <4>8 DEF IInv, Stage
      <3>12. CASE ~(file < Len(files))
        <4> DEFINE b == [cmd |-> "donedl", arg |-> 0]
        <4>1. b \in Command
          BY DEF Command
        <4>2. cl' = [cl EXCEPT !.file = 0] /\ commands' = commands \o <<a, b>>
          BY <3>2, <3>3, <3>12 DEF CL_NextDownload, AddTwo
        <4>3. commands' = Append(acked, b)
          BY <1>8, <3>8, <4>1, <4>2, TwoMore DEF acked
        <4>4. /\ cl' \in [file : -1..Len(files), block : Nat, data : Seq(Data)]
              /\ cl'.file = 0
          <5>1. /\ cl \in [file : -1..Len(files), block : Nat, data : Seq(Data)]
                /\ 0 \in -1..Len(files)
            BY <1>8
          <5> QED BY ONLY <4>2, <5>1
        <4>5. /\ dl.current - dl.client + 1 = n + 2
              /\ dl.current < dl.client + (n + 2)
          <5>1. n + dl.client = block /\ dl.current = block + 1 /\ block \in Nat
            BY <1>8, <2>1, <3>7
          <5>2. dl.client \in Nat /\ dl.current \in Nat /\ n \in Nat
            BY <1>8
          <5> QED BY ONLY <5>1, <5>2
        <4>6. Ending'
          BY SMTT(30), <1>2, <1>7, <2>1, <3>7, <3>10, <4>1, <4>3, <4>4, <4>5 DEF Ending
        <4> QED BY <1>5, <3>5, <3>6, <3>10, <4>1, <4>3, <4>4, <4>6 DEF IInv, Stage
      <3> QED BY <3>11, <3>12
    <2> QED BY <2>5, <2>6, <2>7
  <1>12. CASE Asked \/ Waiting \/ Changing \/ GivenUp
    BY <1>2, <1>12 DEF Asked, Waiting, Changing, GivenUp
  <1> QED BY <1>1, <1>9, <1>10, <1>11, <1>12 DEF Stage

-----------------------------------------------------------------------------
(* Theorems. *)

LEMMA InitInv == ASSUME DownloadAssumption, Init PROVE IInv
  <1>1. PICK c \in Cases : files = c[1] /\ punctual = c[2]
    BY DEF Init
  <1>2. /\ files \in Seq(Int) \ {<<>>} /\ punctual \in BOOLEAN /\ <<files, punctual>> \in Cases
    <2>1. c \in (Seq(Int) \ {<<>>}) \X BOOLEAN
      BY DEF DownloadAssumption
    <2>2. c = <<files, punctual>>
      BY <1>1, <2>1
    <2> QED BY <1>1, <2>1, <2>2
  <1>3. Len(files) \in Nat /\ DOMAIN files = 1..Len(files) /\ 1 \in 1..Len(files)
    BY <1>2, EmptySeq, LenProperties
  <1>4. /\ dl = [name |-> 0, open |-> FALSE, current |-> 0, client |-> 0, xmit |-> 0,
                 count |-> 0, eof |-> FALSE]
        /\ window = [i \in 0..MAX_DOWNLOAD_WINDOW - 1 |-> Eof]
        /\ late = FALSE /\ state = "connected"
        /\ cl = [file |-> 1, block |-> 0, data |-> <<>>]
        /\ saved = [f \in DOMAIN files |-> <<>>]
        /\ commands = <<[cmd |-> "download", arg |-> 1]>> /\ down = <<>>
    BY DEF Init
  <1>5. TypeInv
    <2>1. dl \in Counters
      BY <1>3, <1>4 DEF Counters
    <2>2. window \in [0..MAX_DOWNLOAD_WINDOW - 1 -> Data]
      BY <1>4 DEF Eof, Data
    <2>3. cl \in [file : -1..Len(files), block : Nat, data : Seq(Data)]
      BY <1>3, <1>4
    <2>4. saved \in [DOMAIN files -> Seq(Data)]
      BY <1>4
    <2>5. commands \in Seq(Command) /\ down \in Seq(Message)
      <3>1. [cmd |-> "download", arg |-> 1] \in Command
        BY DEF Command
      <3> QED BY <1>4, <3>1
    <2> QED BY <1>2, <1>4, <2>1, <2>2, <2>3, <2>4, <2>5 DEF TypeInv
  <1>6. SavedIsServed
    BY <1>4 DEF SavedIsServed
  <1>7. Asked
    BY <1>3, <1>4 DEF Asked, Fresh
  <1> QED BY <1>5, <1>6, <1>7 DEF IInv, Stage

LEMMA StutterKeeps == ASSUME IInv, UNCHANGED vars PROVE IInv'
  <1>1. /\ UNCHANGED <<files, punctual, dl, window, late, state, cl, saved, commands, down>>
        /\ Same
    BY DEF vars, Same
  <1>2. TypeInv /\ SavedIsServed /\ Stage
    BY DEF IInv
  <1>3. TypeInv'
    BY <1>1, <1>2, TypeStep DEF TypeInv
  <1>4. SavedIsServed'
    BY <1>1, <1>2, SavedStep
  <1>5. Serving => Serving'
    BY <1>1, ServingStep DEF Serving
  <1>6. SentInv => SentInv'
    BY <1>1, SentStep DEF SentInv
  <1>7. /\ Acking(cl.block) => Acking(cl.block)'
        /\ Acking(dl.current) => Acking(dl.current)'
    BY <1>1, AckingStep DEF Acking
  <1>8. Fresh => Fresh'
    BY <1>1 DEF Fresh
  <1>9. Asked \/ Waiting \/ Refused \/ GivenUp => Asked' \/ Waiting' \/ Refused' \/ GivenUp'
    BY <1>1, <1>8 DEF Asked, Waiting, Refused, GivenUp
  <1>10. Running => Running'
    BY <1>1, <1>5, <1>6, <1>7 DEF Running
  <1>11. Changing => Changing'
    BY <1>1, <1>5, <1>7, <1>8 DEF Changing
  <1>12. Ending => Ending'
    BY <1>1, <1>5, <1>7 DEF Ending
  <1> QED BY <1>2, <1>3, <1>4, <1>9, <1>10, <1>11, <1>12 DEF IInv, Stage

LEMMA NextInv == ASSUME DownloadAssumption, IInv, [Next]_vars PROVE IInv'
  <1>1. CASE SV_WriteDownloadToClient
    BY <1>1, WriteKeeps
  <1>2. CASE SecondPasses
    BY <1>2, SecondKeeps
  <1>3. CASE SV_ClientCommand
    BY <1>3, CommandKeeps
  <1>4. CASE CL_ParseDownload
    BY <1>4, ParseKeeps
  <1>5. CASE LoseBlock
    BY <1>5, LoseKeeps
  <1>6. CASE UNCHANGED vars
    BY <1>6, StutterKeeps
  <1> QED BY <1>1, <1>2, <1>3, <1>4, <1>5, <1>6 DEF Next

\* The stages are kept to: whatever is lost, late or refused, what the server
\* counts, what is under way and what the client has fit each other.
THEOREM Inductive == ASSUME DownloadAssumption PROVE Spec => []IInv
  <1>1. Init => IInv
    BY InitInv
  <1>2. IInv /\ [Next]_vars => IInv'
    BY NextInv
  <1> QED BY <1>1, <1>2, PTL DEF Spec

LEMMA StagesHold == ASSUME IInv PROVE DownloadHolds
  <1>1. TypeInv /\ SavedIsServed /\ Stage
    BY DEF IInv
  <1>2. TypeOK
    BY <1>1 DEF TypeInv, TypeOK, Counters
  <1>3. WindowHolds
    <2>1. SUFFICES ASSUME dl.open, dl.name # 0
                   PROVE  Reading(dl, window)
      BY DEF WindowHolds, Reading, BlockOf
    <2> QED BY <2>1, OpenStages DEF Running, Changing, Serving
  <1>4. NotBroken
    BY <1>1 DEF TypeInv, NotBroken
  <1> QED BY <1>1, <1>2, <1>3, <1>4 DEF DownloadHolds

\* Reading ahead never goes over a block that may have to be sent again, the
\* files the client keeps are the server's, and a client that acknowledges what
\* it gets is never dropped for a broken download (sv_client.c:573).
THEOREM DownloadsHold == ASSUME DownloadAssumption PROVE Spec => []DownloadHolds
  BY Inductive, StagesHold, PTL
=============================================================================
