------------------------------ MODULE Download ------------------------------
(***************************************************************************)
(* Download of files from the server: sv_client.c pumps blocks through a   *)
(* sliding window into the snapshots it sends, CL_ParseDownload writes     *)
(* them down and acknowledges each with a reliable command.                *)
(*                                                                         *)
(* Client commands are reliable: they come in order, once, late (Reliable).*)
(* Blocks ride in messages that come in order or are lost.  A snapshot     *)
(* holds one block here, as on the slowest rate: more blocks in a snapshot *)
(* are snapshots in quick succession.  A block is its file and its place   *)
(* in the file, an Eof block has no data.  Reads of the file succeed.      *)
(***************************************************************************)
EXTENDS Integers, Sequences

CONSTANTS
    Cases,              \* lists of files (their blocks, -1 refused), and
                        \* whether only a lost block is ever a second late
    MAX_DOWNLOAD_WINDOW,
    ShortRange,         \* 32768: block numbers are sent as a signed short
    MaxDown,            \* bound on blocks under way
    MaxCommands         \* bound on client commands under way

\* There is something to download; a window is no longer than the numbers a
\* block can have; and with several files only lost blocks are late (NotBroken
\* says why).  Parts lets TLC look at it.
DownloadAssumption ==
    /\ MAX_DOWNLOAD_WINDOW \in Nat \ {0} /\ ShortRange \in Nat
    /\ MAX_DOWNLOAD_WINDOW <= ShortRange
    /\ MaxDown \in Nat \ {0} /\ MaxCommands \in Nat
    /\ Cases \subseteq (Seq(Int) \ {<<>>}) \X BOOLEAN
    /\ \A c \in Cases : c[2] \/ Len(c[1]) = 1

VARIABLES
    files, punctual,    \* downloadList, all of it; the case's network
    dl,                 \* the download fields of the server's client_t
    window,             \* downloadBlocks and downloadBlockSize
    late,               \* svs.time - downloadSendTime > 1000
    state,              \* the server's state of the client
    cl,                 \* the download fields of the client's clc
    saved,              \* files on the client's disk, under their names
    commands, down      \* client commands and blocks under way

vars == <<files, punctual, dl, window, late, state, cl, saved, commands, down>>

Eof == <<0, 0>>
Content(f) == [i \in 1..files[f] |-> <<f, i>>]
Short(n) == ((n + ShortRange) % (2 * ShortRange)) - ShortRange

Init ==
    /\ \E c \in Cases : files = c[1] /\ punctual = c[2]
    /\ dl = [name |-> 0, open |-> FALSE, current |-> 0, client |-> 0, xmit |-> 0,
             count |-> 0, eof |-> FALSE]
    /\ window = [i \in 0..MAX_DOWNLOAD_WINDOW - 1 |-> Eof]
    /\ late = FALSE
    /\ state = "connected"
    /\ cl = [file |-> 1, block |-> 0, data |-> <<>>]
    /\ saved = [f \in DOMAIN files |-> <<>>]
    /\ commands = <<[cmd |-> "download", arg |-> 1]>>
    /\ down = <<>>

-----------------------------------------------------------------------------
(* Server *)

\* The file is opened when the first snapshot after the request is written.
Opened ==
    IF dl.open THEN dl
    ELSE [dl EXCEPT !.open = TRUE, !.current = 0, !.client = 0, !.xmit = 0,
                    !.count = 0, !.eof = FALSE]

\* BUG: the window is filled by one block too many.
BugRoom(d) == MAX_DOWNLOAD_WINDOW + 1 - (d.current - d.client)

\* Blocks that can still be read before the oldest one is acknowledged.
Room(d) == MAX_DOWNLOAD_WINDOW - (d.current - d.client)

\* Reading ahead to the end of the window, then the Eof block if it fits.
Reads(d) ==
    LET toRead == LET left == files[d.name] - d.count
                  IN  IF left < Room(d) THEN left ELSE Room(d)
        atEnd  == d.count + toRead = files[d.name] /\ ~d.eof /\ toRead < Room(d)
        list   == [k \in 1..toRead |-> <<d.name, d.count + k>>]
                     \o IF atEnd THEN <<Eof>> ELSE <<>>
    IN  [list |-> list,
         d    |-> [d EXCEPT !.count = @ + toRead, !.current = @ + Len(list),
                            !.eof = @ \/ atEnd]]

Filled(d, list) ==
    [i \in DOMAIN window |->
        LET at == {k \in 1..Len(list) : (d.current + k - 1) % MAX_DOWNLOAD_WINDOW = i}
        IN  IF at = {} THEN window[i] ELSE list[CHOOSE k \in at : \A j \in at : k >= j]]

\* BUG: retransmission starts behind the window's first block.
BugNextToSend(d) ==
    IF d.client = d.current THEN {}
    ELSE IF d.xmit < d.current THEN {d.xmit}
    ELSE IF late THEN {d.client + 1} \cap 0..d.current - 1 ELSE {}

\* The next block, if one is to be sent: when the whole window was sent, from
\* its start again once the last block or acknowledge is a second old.
NextToSend(d) ==
    IF d.client = d.current THEN {}
    ELSE IF d.xmit < d.current THEN {d.xmit}
    ELSE IF late THEN {d.client} ELSE {}

Send(m) == down' = IF Len(down) < MaxDown THEN Append(down, m) ELSE Append(Tail(down), m)

\* A file that may not be downloaded, or is not there, is refused, once.
RefuseDownload ==
    /\ dl.name # 0 /\ ~dl.open /\ files[dl.name] < 0
    /\ Send([kind |-> "refusal", block |-> 0, data |-> Eof])
    /\ dl' = [dl EXCEPT !.name = 0]
    /\ UNCHANGED <<files, punctual, window, late, state, cl, saved, commands>>

SV_WriteDownloadToClient ==
    /\ state = "connected"
    /\ \/ RefuseDownload
       \/ /\ dl.name # 0 /\ files[dl.name] >= 0
          /\ LET r == Reads(Opened)
                 filled == Filled(Opened, r.list)
             IN  /\ window' = filled
                 /\ \/ /\ NextToSend(r.d) = {}
                       /\ dl' = r.d
                       /\ UNCHANGED <<late, down>>
                    \/ \E n \in NextToSend(r.d) :
                          /\ dl' = [r.d EXCEPT !.xmit = n + 1]
                          /\ Send([kind |-> "block", block |-> Short(n),
                                   data |-> filled[n % MAX_DOWNLOAD_WINDOW]])
                          /\ late' = FALSE
          /\ UNCHANGED <<files, punctual, state, cl, saved, commands>>

\* A second passes since downloadSendTime.
SecondPasses ==
    /\ ~late /\ dl.open
    /\ punctual => down = <<>> /\ commands = <<>>
    /\ late' = TRUE
    /\ UNCHANGED <<files, punctual, dl, window, state, cl, saved, commands, down>>

\* SV_CloseDownload clears neither the counters nor the sizes of the blocks.
Closed(d) == [d EXCEPT !.open = FALSE, !.name = 0]

\* SV_DropClient: the download is closed with the client.
DropClient == state' = "dropped" /\ dl' = Closed(dl)

SV_NextDownload_f(block) ==
    IF block # dl.client
    THEN DropClient /\ UNCHANGED late
    ELSE IF window[dl.client % MAX_DOWNLOAD_WINDOW] = Eof
    THEN dl' = Closed(dl) /\ UNCHANGED <<late, state>>
    ELSE dl' = [dl EXCEPT !.client = @ + 1] /\ late' = FALSE /\ UNCHANGED state

\* SV_ClientCommand for the oldest command under way; donedl asks for a new
\* gamestate, which ends the model.
SV_ClientCommand ==
    /\ commands # <<>> /\ state = "connected"
    /\ commands' = Tail(commands)
    /\ LET c == Head(commands)
       IN  \/ /\ c.cmd = "download"
              /\ dl' = [Closed(dl) EXCEPT !.name = c.arg]
              /\ UNCHANGED <<late, state>>
           \/ c.cmd = "nextdl" /\ SV_NextDownload_f(c.arg)
           \/ /\ c.cmd = "stopdl"
              /\ dl' = Closed(dl)
              /\ UNCHANGED <<late, state>>
           \/ /\ c.cmd = "donedl"
              /\ state' = "primed"
              /\ UNCHANGED <<dl, late>>
    /\ UNCHANGED <<files, punctual, window, cl, saved, down>>

-----------------------------------------------------------------------------
(* Client *)

Gone == [file |-> -1, block |-> 0, data |-> <<>>]

Add(cmd, arg) == commands' = Append(commands, [cmd |-> cmd, arg |-> arg])

\* BUG: the next file is asked for before the last block is acknowledged.
BugAddTwo(c1, a1, c2, a2) ==
    commands' = commands \o <<[cmd |-> c2, arg |-> a2], [cmd |-> c1, arg |-> a1]>>

\* The acknowledge of the Eof block, and what the client does next.
AddTwo(c1, a1, c2, a2) ==
    commands' = commands \o <<[cmd |-> c1, arg |-> a1], [cmd |-> c2, arg |-> a2]>>

\* CL_NextDownload after the Eof block of a file: the file has its name
\* already when its checksum is compared.
CL_NextDownload ==
    /\ saved' = [saved EXCEPT ![cl.file] = cl.data]
    /\ IF cl.data # Content(cl.file)
       THEN cl' = Gone /\ Add("nextdl", cl.block)
       ELSE IF cl.file < Len(files)
       THEN /\ cl' = [file |-> cl.file + 1, block |-> 0, data |-> <<>>]
            /\ AddTwo("nextdl", cl.block, "download", cl.file + 1)
       ELSE /\ cl' = [cl EXCEPT !.file = 0]
            /\ AddTwo("nextdl", cl.block, "donedl", 0)

\* BUG: a block is taken whatever its number.
BugExpected(m) == TRUE

Expected(m) == m.block = cl.block

CL_ParseDownload ==
    /\ down # <<>>
    /\ down' = Tail(down)
    /\ LET m == Head(down)
       IN
        /\ cl.file # -1 /\ Len(commands) < MaxCommands
        /\ \/ /\ cl.file = 0
              /\ Add("stopdl", 0)
              /\ UNCHANGED <<cl, saved>>
           \/ /\ cl.file # 0 /\ m.kind = "refusal"
              /\ cl' = Gone
              /\ UNCHANGED <<saved, commands>>
           \/ /\ cl.file # 0 /\ m.kind = "block" /\ ~Expected(m)
              /\ UNCHANGED <<cl, saved, commands>>
           \/ /\ cl.file # 0 /\ m.kind = "block" /\ Expected(m) /\ m.data # Eof
              /\ cl' = [cl EXCEPT !.block = @ + 1, !.data = Append(@, m.data)]
              /\ Add("nextdl", cl.block)
              /\ UNCHANGED saved
           \/ /\ cl.file # 0 /\ m.kind = "block" /\ Expected(m) /\ m.data = Eof
              /\ CL_NextDownload
        /\ UNCHANGED <<files, punctual, dl, window, late, state>>

\* The snapshot with the oldest block under way is lost.
LoseBlock ==
    /\ down # <<>>
    /\ down' = Tail(down)
    /\ UNCHANGED <<files, punctual, dl, window, late, state, cl, saved, commands>>

-----------------------------------------------------------------------------
Next ==
    \/ SV_WriteDownloadToClient
    \/ SecondPasses
    \/ SV_ClientCommand
    \/ CL_ParseDownload
    \/ LoseBlock

\* A block sent again and again arrives: of each number, infinitely often sent.
Arrives(n) == CL_ParseDownload /\ Head(down).block = n

Fairness ==
    /\ WF_vars(SV_WriteDownloadToClient)
    /\ WF_vars(SecondPasses)
    /\ WF_vars(SV_ClientCommand)
    /\ \A n \in 0..ShortRange - 1 : SF_vars(Arrives(n))

Spec == Init /\ [][Next]_vars
FairSpec == Spec /\ Fairness

-----------------------------------------------------------------------------
(* Properties *)

\* Counters, blocks and names have their shapes.
TypeOK ==
    /\ <<files, punctual>> \in Cases
    /\ dl \in [name : 0..Len(files), open : BOOLEAN, current : Nat, client : Nat,
               xmit : Nat, count : Nat, eof : BOOLEAN]
    /\ late \in BOOLEAN
    /\ state \in {"connected", "dropped", "primed"}
    /\ cl.file \in -1..Len(files) /\ cl.block \in Nat

\* The blocks of the window between the acknowledged one and the one read last
\* are the file's, in order: reading ahead never goes over a block that may
\* have to be sent again.
WindowHolds ==
    dl.open /\ dl.name # 0 =>
        \A n \in dl.client..dl.current - 1 :
            window[n % MAX_DOWNLOAD_WINDOW] =
                IF n < files[dl.name] THEN <<dl.name, n + 1>> ELSE Eof

\* A file that gets its name on the client's disk is the server's file.
SavedIsServed ==
    \A f \in DOMAIN files : saved[f] # <<>> => saved[f] = Content(f)

\* "The argument will be the last acknowledged block from the client, it should
\* be the same as cl->downloadClientBlock" (sv_client.c:573): a client that
\* acknowledges what it gets is never dropped for a broken download.
NotBroken == state # "dropped"

\* What a download keeps to at every moment.
DownloadHolds == TypeOK /\ WindowHolds /\ SavedIsServed /\ NotBroken

\* When no file is refused, all of them arrive and the client gets its new
\* gamestate, whatever is lost.
DownloadsFinish ==
    (\A f \in DOMAIN files : files[f] >= 0) ~>
        (state = "primed" /\ \A f \in DOMAIN files : saved[f] = Content(f))
=============================================================================
