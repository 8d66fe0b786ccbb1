# Librelous: a TLA+ verification project

Librelous is a fork of Tremulous on the ioquake3 engine: a dedicated server, a
client with a renderer, a game that runs in a virtual machine on the server
(`game`), one that runs on the client (`cgame`), a user interface and a master
server. This directory holds TLA+ models of the parts of it in which control,
order and failure decide whether it is correct, the TLC configurations that
check them on small instances, and TLAPS proofs of what matters most about them.

Paths below are relative to the source directory of the repository
(`src/src/` in `PROJECT.json`).

1. [The system](#1-the-system)
2. [Modules and how they correspond to the code](#2-modules-and-how-they-correspond-to-the-code)
3. [Runs: what is checked, and on which instances](#3-runs)
4. [Fairness](#4-fairness)
5. [Proofs](#5-proofs)
6. [What the code says of itself, and does not do](#6-what-the-code-says-of-itself-and-does-not-do)
7. [What is not modelled](#7-what-is-not-modelled)
8. [Plan](#8-plan)
9. [Running it](#9-running-it)

---

## 1. The system

Server, client, game and cgame are each a single thread that runs a frame over
and over. Concurrency is between the machines: every frame reads the UDP packets
that came in, in the order they came in, does its work, and sends packets. The
hard behaviours are therefore those of a distributed program: packets are lost,
doubled, delayed and overtake each other; a client disappears in the middle of
anything; timeouts, retries and late answers race; and the state each side keeps
about the other is always a little old. Within one process the hazards are
callbacks (the engine calls the game, which calls the engine), ring buffers that
wrap, and tables that fill.

### The network stack, from the bottom

| Part | State | Operations | Hard | Correct when |
|---|---|---|---|---|
| **netchan** `qcommon/net_chan.c` | `netchan_t`: outgoing and incoming sequence, unsent buffer, fragment buffer | `Netchan_Transmit`, `Netchan_TransmitNextFragment`, `Netchan_Process` | loss, duplication, reordering, fragments of two messages, boundary lengths | what comes up is a message that was sent, whole, once, in order; a partial message never blocks |
| **server send path** `server/sv_net_chan.c` | the queue `netchan_start_queue` before the netchan; the encoding key | `SV_Netchan_Transmit`, `SV_Netchan_TransmitNextFragment`, `SV_Netchan_Encode` | messages that are built while another is half sent, and encoded later than built | fragments never cut short; each message is encoded with what its receiver decodes it with |
| **reliable commands** `sv_main.c`, `sv_client.c`, `cl_main.c`, `cl_parse.c`, `cl_net_chan.c` | rings of 64 strings each way, sequence and acknowledge numbers | add a command, write and read a message, execute, drop, disconnect | repetition, ring overflow, ring slots used as keys, a drop that itself adds commands | commands execute in order, once, none skipped, until somebody disconnects |
| **connections** `sv_client.c`, `sv_main.c`, `cl_main.c` | challenge table, client slots and their states, the client's connection state, the game's idea of who plays | getchallenge, connect, disconnect, drop, zombies, timeouts, both sides' retries | late and doubled handshake packets, address translation, refusals half way, forgotten clients | one slot each, reserved slots kept, engine and game agree, slots are freed, handshakes end |
| **configstrings and maps** `sv_init.c`, `sv_ccmds.c`, `cl_parse.c`, `cl_cgame.c` | `sv.serverId`, configstrings, per client `csUpdated`, the client's copy | map change, map restart, gamestate, "cs" commands, restrictions | changes while a client loads; restarts between gamestate and first move; old commands after a new gamestate | a client that has caught up has the server's configstrings, and loads each map once |
| **snapshots** `sv_snapshot.c`, `cg_snapshot.c` | ring of frames per client, shared ring of entities, the client's copies | choose a delta base, write, parse, interpolate | a base whose ring slot has been reused on either side | every delta is applied to the base it was made from |
| **downloads** `sv_client.c`, `cl_parse.c`, `cl_curl.c` | window of eight blocks, acknowledgements by reliable command | open, window, retransmit, stop | late acknowledgements against retransmission, reconnect during a download | the file is written in order, completely |
| **pure server** `sv_client.c`, `files.c` | checksum feed, `gotCP`, `pureAuthentic` | `cp` commands, `UserMove` | feed changes with the map while an answer is on the way | nobody unpure plays, nobody pure is dropped |
| **rate limits** `sv_main.c` | leaky buckets, hash chains | take, expire, reuse | buckets reused while hashed | a chain never loses or doubles a bucket |
| **VoIP relay** `sv_client.c` | queue of packets per client | enqueue, write | a partly sent queue | packets leave once, in order |
| **client time** `cl_cgame.c`, `cg_snapshot.c` | the clock behind the newest snapshot, cgame's two snapshots | adjust, reset, advance, read | late and sparse snapshots, a cgame that starts again | what is drawn lies between two snapshots and does not run back |

How they interact: `SV_Frame` runs the game (`VM_Call GAME_RUN_FRAME`), which
sets configstrings and sends commands through traps; then `SV_CheckTimeouts` and
`SV_SendClientMessages` build one message per client (acknowledge, pending
reliable commands, snapshot) which goes through `SV_Netchan_Transmit` into the
netchan. `SV_PacketEvent` finds the slot of a packet by qport, decodes it and
executes its reliable commands and move; that may send a gamestate, enter the
client into the world or drop it, each of which calls the game. The client's
frame mirrors this: `CL_PacketEvent` parses, `CL_CheckForResend` or `CL_SendCmd`
sends, cgame draws the snapshots and pulls the commands that belong to them out
of the ring (`CL_GetServerCommand`).

### Around it

| Part | State and operations | Where it is hard |
|---|---|---|
| command buffer, cvars (`cmd.c`, `cvar.c`) | text buffer executed a line at a time, `wait`, `vstr`; cvars with latching | commands that insert commands |
| events and memory (`common.c`) | ring of pushed events, journal; two-ended hunk with temporary memory; zone | marks and temporary memory at both ends |
| message bit streams (`msg.c`, `huffman.c`) | pure codecs and field deltas | width of fields, overflow flag |
| virtual machines (`vm*.c`) | interpreter and code generators | re-entry |
| game: clients (`g_client.c`, `g_active.c`, `g_session.c`) | spawn queues, following, sessions across maps | a client leaves at any point of a queue, with another's `playerState` |
| game: buildables (`g_buildable.c`) | build points, power and creep, marks and removal | points and spawns counted once a frame, across build, kill, mark, replace; slots used again |
| game: votes and admin (`g_cmds.c`, `g_admin.c`) | one vote per team, levels, bans | voters that leave, execution delay |
| game: match (`g_main.c`, `g_maprotation.c`) | stages, exit rules, intermission, rotations with conditions and calls | cycles, and the place each rotation is left at |
| game: movers and triggers (`g_mover.c`) | binary mover state machine | blocked and re-triggered movers |
| game: heap (`bg_alloc.c`) | free list with coalescing | neighbours at the ends |
| master server (`master/`) | table of servers, challenges, expiry | heartbeats, reuse of a slot in a hash chain |
| renderer, sound, ui, console, platform, file system, collision, vendored libraries | drawing, mixing, menus, I/O, geometry | numerical or I/O: out of a model checker's reach |

`PROJECT.json` lists every part with its files, its status and the reason when
it is not modelled, and under `hazards` the places, with their lines, where this
code can go wrong in ways a test would hardly reach.

## 2. Modules and how they correspond to the code

```
Configstrings      configstrings, gamestates, serverId     one client, one server
Snapshot           deltas, frames and entities in rings    one client, one server
   above
Reliable           command rings, acknowledges, keys       one client, one server
   above
SvNetchan          queue before the server's netchan       one client's send path
   above
MessageChannel <-- Netchan     fragments and sequences     one direction
                   (refinement: WITH the same sent, delivered)

Connection         challenges, slots, states, timeouts     all clients, one server

Parts              one of the following at a time:
   server:         Download    RateLimit   Voip
   client:         ClientTime
   game:           SpawnQueue  MapRotation  Votes  AlienBase  BGAlloc
   master server:  Master
```

Each layer's module assumes of the one below it what that one's module shows:
`Reliable` lets messages be lost but not reordered, doubled or cut, which is
what `MessageChannel` promises and `Netchan` is shown to implement;
`Configstrings` lets the client receive each command once and in order, which is
what `Reliable` shows; `Download` uses both: blocks come in order or not at all,
acknowledgements in order and for certain; and `Netchan`'s guard that no message
is transmitted in the middle of another (`CallerMayTransmit`) is what `SvNetchan`
establishes for the server (`NoInterleaving`) and the loop in `CL_WritePacket`
for the client.

The modules under `Parts` share no state with each other. `Parts` instantiates
each of them for any values of its constants and lets one of them run while the
others rest: it has the states of each, not their product, and its properties are
the modules' own, under the condition that the part is the one that runs. `MCParts`
names the small instances that TLC checks. `Lists` has what several of them do
with sequences.

In all modules an operation has the name of the C function it models, a variable
the name of the field it stands for, and `map` in `PROJECT.json` names the lines
of every definition. Definitions named `Bug...` are the plausible mistakes with
which a property must fail; specifications never use them.

### Netchan and MessageChannel

`Netchan` is one direction: the sending half of one `netchan_t`, the receiving
half of its peer, and the network, a set of packets any of which may arrive at
any time, any number of times, or never. Messages are sequences of bytes, cut at
`FRAGMENT_SIZE`; a fragment of full length is never the last one, so a message
whose length is a multiple of `FRAGMENT_SIZE` ends in an empty fragment.
`Netchan_Process` is three actions' worth of cases: a whole packet, a fragment
that is ignored because it is not the next or does not fit, and one that is
appended. `sent` and `delivered` are history variables; `MessageChannel` is the
abstract specification over just those two.

Left out: the loopback queue and `NET_OutOfBandPrint`, which only move
datagrams; the qport (in `Connection`); the unreachable return for a reassembly
buffer that is full, since the buffer has the size of the longest message.

### SvNetchan

`nextId` numbers messages in the order they are built; `current` and `unsent` are
the netchan's unsent buffer and how many packets of it are left; `queue` is
`netchan_start_queue`. `Built(n)` is a message of `n` packets, with the reliable
acknowledge it carries in its header, which is `lastClientCommand` when it is
written; `SV_Netchan_Encode` takes the key from `lastClientCommandString` and the
netchan sequence *at the moment of encoding*, which for a queued message is later.
The number and the string of the last client command are two variables, as they
are two fields, set one after the other (`sv_client.c:1334-1335`). `overtaken` in a message is
history: a client command was executed while it waited in the queue. `out` holds the
packets of the last step that sent any. All numbers are kept modulo `Modulus`, so the model
runs for ever, and sequences wrap as the code's 32-bit ones do. The bound
`MaxQueue` on the queue is the model's: the code's is memory.

### Reliable

Two records, `clc` and `cl`, with the fields of the same names. A command's text
is its number, so that "in order, once each" is `text[i] = i`; the ring's slot
`n % MAX_RELIABLE_COMMANDS` is kept as in the code, and so is the use of a
slot's string as key, which is how a message garbles: `Garbled` compares the
key the sender used with what the receiver's ring now holds. What a garbled
message does is left open between what the parsers can make of it.
`SV_ExecuteClientMessage` has its `outdated` branch (another map) and the
acknowledge that makes no sense; `SV_AddServerCommand` its overflow, with the
recursive drop; `CL_AddReliableCommand` its own.

A drop is a `Farewell`: the notice, what the game adds while
`GAME_CLIENT_DISCONNECT` runs and the client is still active
(`sv_client.c:383`; `g_client.c:1722` sets `CS_PLAYERS`, which `sv_init.c:140-151` sends to
the dropped client too, in several commands if the string is long), and the
disconnect. How many commands the game adds is one of `GameCommands`, none among
them: a client that is only primed has its configstrings flagged instead. If the
farewell overflows the ring, the drop begins again within the drop, and what is
left of the first one finds a zombie. `skipped` and `drops` in `cl` are history: the number
that was counted up and not stored, and how often the game was told.

Abstractions: commands that the game issues while executing one are later steps
of their own; the three disconnect packets of `CL_Disconnect` are one; "active"
is any state from `CS_PRIMED` on (before, `SV_AddServerCommand` takes nothing).

### Connection (MCConnection)

Challenges, slots, the game's `pers.connected`, the clients and their packets.
All clients are behind one router, the case a qport exists for: they share the
base address, an address is a port the router gave out, and the router may
change it (`Rebind`, switched by `Rebinding`). Time is not counted: `heard` says
that a packet came lately and may turn false (`SlotSilent`, `ClientSilent`), a
zombie's time may be up at any moment. What depends on cvars and on the game (ping
limits, reconnect limit, refusal, kick) is left open and switched by `Picky`.
`Ordered` FALSE lets packets overtake and double each other.

`SV_DirectConnect` follows the order of the code: challenge, ping, the client's
own slot or a free one past the reserved, wipe, ask the game, admit or deny.
`SV_DropClient` clears the *first* challenge of the address, makes a zombie, and
can tell the client only in a state in which `SV_AddServerCommand` takes
commands (`told`).

Abstractions: leftovers in a free slot are wiped, since nothing reads them; a
client is sent the next message when the last one has arrived, so that messages
do not keep everything else out of the small network; local and LAN clients, userinfo
checks and heartbeats are left out; another map shows only as its effect on
which packets are executed.

### Configstrings

`sv` has `serverId`, `restartedServerId` and the configstrings of which
`SystemInfo` carries `sv_serverid`; `cl` the client's state and `csUpdated`;
`commands` the "cs" commands in order. A message carries a gamestate or just
says how many commands there were; losing one is receiving a later one. `since`
is what the comparison with `gamestateMessageNum` says: whether this message was
sent after the last gamestate. `Delayed` selects the restarts that `SV_Frame`
orders when a delay is up, after which it updates the systeminfo at once; those of
the console or a vote change `sv.serverId` some frames before the systeminfo.
`hidden` is the restriction list, as far as it concerns this client.

Abstractions: `sv_pure` is 0; no downloads (they are in `Download`; a map may
still take time to load);
long strings are not cut into `bcs` chunks; other commands are left out, and so
is the special treatment of `CS_SERVERINFO` under `SVF_NOSERVERINFO`.

### Snapshot

`frames` and `snapshotEntities` are the server's rings (the second one shared by
all clients), `snapshots` and `parseEntities` the client's; `down` and `up` the
messages under way, of which any may be lost. An entity state is its number and
the sequence of the message it came with; a delta is kept as the old list it was
made from and the new list it describes; `CL_ParsePacketEntities` gives the new list
if the client's copy of the base is the old one, and anything at all otherwise. The
copy must be whole (`Intact`) when the parser comes to each of its places, for what
is written while the delta is read may go over it. The counters are the code's: a frame's place in a ring
is its number modulo the ring, and whether it is still there is decided by the
age checks of both sides, none of which the other side knows of. `meant` is
history: what the server saw for each message; `crowded` the messages whose delta has
as many entities that are not in its base as the client's margin, or more, and those
made from such a one. A new client has an entity from `SV_DirectConnect` on; a map
change takes it away until the client enters the world. Other clients take entities from
the same ring (`OtherClientSnapshot`), a map change starts it again.

Left out: what is visible, fields and their widths, teleport bits.

### Download

The server's window (`dl`, `window`) is filled, sent and acknowledged as in
`SV_WriteDownloadToClient`; `late` says that a second has passed since the last
block went out, which is when it starts again at the first unacknowledged one.
The client's commands `download`, `nextdl`, `donedl`, `stopdl` are a sequence in
which nothing is lost; blocks are a set of messages in order of which any is lost.
`punctual` is an instance's promise that commands take less than a second.

### Voip, RateLimit, BGAlloc

Three data structures, operation by operation. `Voip` is the array in which the
server keeps voice packets for a client, with the move that follows a write
(`Stops` are the places at which the packets before do not fit any more);
`RateLimit` the leaky buckets with their array, both pointers of their chains,
expiry, reclaiming and draining, for the queries the server limits: status and rcon; `BGAlloc` the game's heap with a list of free nodes by
address, in units of the 32 bytes sizes are rounded to. The history variables
`queuedIds`, `written`, `answered` and `refused` record what came of the calls.

### SpawnQueue

A client is what the engine's slot holds of it (`connected`) and what the game
does: team, kind of spectator, whom he follows, the `clientNum` in his
`playerState` (`num`), which following exchanges, and whether he has chosen a
class. `queues` are the rings with `front` and `back`. Every command, the frame's
`G_SpawnClients` and disconnects are actions. `strayed` is history: somebody left
a team or the server while `num` was not his own.

### MapRotation

A rotation file is a constant, in several cases; a node is a condition and a
destination. `G_AdvanceMapRotation`, which calls itself through
`G_GotoDestination`, runs as a stack of calls (`calls`), one action per iteration
of its loop; `issued` is the map change it came to; `left` is history: the node
each rotation was left at. The console may start and stop rotations in between; one
that does not exist clears the stack all the same.

### Votes

Per team the counts, the time left, the number of the vote and when it is
executed; per client the team, `pers.voted` and `pers.vote`. `ballots` is history,
kept apart from the counts: how each client's last ballot in this vote was, and
none once he has left; `passed` and `executed` are the votes in order. A call executes
the vote that passed and waits, and sets the threshold to 50, before anything can
refuse it (`g_cmds.c:987-990`): `Cmd_CallVote_f` has both ends.

### AlienBase

`ents` are the game's entities by slot, which is what buildables remember of each
other: `parent` is a slot, which may be free or another's by the time it is used.
`Frame` runs the thinks of all slots in order, then counts points and spawns
(`level`), as `G_RunFrame` does; commands between frames use those counts.
`ShortFrame` is a frame in which nobody's think is due. How long building, dying
and receding take is open. `Build` is `G_CanBuild` with `G_SufficientBPAvailable`,
the removal of marked buildables and `G_Build`; which of equally ranked ones go is
open, as the times they were marked at are left out. Places are points on a line.

Left out: humans (power, zones, repeaters), sudden death, cheats, the room a
buildable takes, the builders' own timers, what buildables do to players.

### ClientTime

`svTime` and `sent` are the server's, `arrived` which snapshots came; `cl` has the
client's clock and its correction, `cg` cgame's two snapshots and time. The
constants of the code (reset beyond 500 ms, fast correction beyond 100) are scaled
down to a few ticks. `CL_Vid_Restart_f` starts cgame anew.

### Master

`servers` is the array, `hash_table` the chains, each as the sequence of its
slots, `last_alloc` where the search for a free slot begins. An entry that has
timed out stays where it is until a walk along its chain or the search meets it
(`Passed`, `FreeSlots`, `Visited`). `asked` are the challenges on their way, never
lost for good and answered any number of times; a challenge is the second it was
made in. `answered` is history.

## 3. Runs

Eleven runs pass, one shows a disagreement between the code and what it says of
itself. Every property of a passing run fails with a mutant of the code
(`mutants` in `PROJECT.json`; a property that is a conjunction has one for each
part). Names that end in `Hold(s)` collect what a component keeps to: its type
invariant and the invariants and action properties its module explains.

| Run | Question | Instance | Distinct states |
|---|---|---|---|
| `netchan` | Does the netchan deliver messages whole, in order, at most once, and finish what it starts, whatever the network does? Does it implement `MessageChannel`? | fragments of 2, messages of length 1 to 4: below, at and above each fragment boundary, three fragments at most, two of equal length; 3 messages | 5,125 |
| `svnetchan` | However gamestates and snapshots pile up: are messages kept apart, encoded with the sequence they leave under and the string of the command they acknowledge, and finished? | up to 3 packets per message, 2 queued, sequences modulo 3, client commands modulo 2 | 136,226 |
| `svnetchan_order` | Are messages sent in the order they are built? (No: section 6.) | the same | |
| `reliable` | With loss, overflow, drops and disconnects, are commands executed in order, once each, without gaps, and are keys found (`RingsHold`)? | rings of 3, 4 pending, 5 commands each way, 0 to 2 of the game in a drop, 1 message in flight each way | 1,904,994 |
| `reliable_live` | Is every command executed in the end, unless the connection ends (`CommandsArrive`)? | rings of 2, 1 pending, 2 commands each way, none of the game in a drop, after which the question is settled | 36,464 |
| `connection` | One slot each, reserved slots reserved (`SlotsHold`), no live slot given away? | two clients, two slots of which one is reserved, two challenges, a picky server | 1,573,482 |
| `connection_disorder` | Do engine and game agree on who plays, whatever is late, doubled or refused, and whichever port packets come from? | one client, three challenges issued, table of two, two ports | 1,182,546 |
| `connection_live` | Do a connected client and its slot share a challenge? Are slots freed and handshakes finished? | one client, three challenges issued, table of two | 28,979 |
| `configstrings` | Does a client that has caught up have the server's strings (`StringsHold`), and each map's gamestate once? | one game string and the systeminfo, three maps or restarts, 2 messages in flight each way, strings hidden and shown | 3,349,832 |
| `configstrings_live` | Does the client catch up with every map and restart? | the same, two maps or restarts, with delayed restarts | 42,994 |
| `snapshot` | Is every delta made from, and applied to, what the client acknowledged, and does cgame see what the server saw? | three entities; rings of 6 frames, 6 and 4 entities, a margin of 2; 5 messages, 2 maps, up to 2 entities of other clients | 1,119,564 |
| `parts` | The ten parts, one at a time (next table) | in `MCParts.tla` and `Parts.cfg` | 353,363 |

| Property of `parts` | Question | Instance |
|---|---|---|
| `DownloadHolds`, `DownloadsFinish` | Is the window the file's, is what is saved what is served, is nobody dropped who acknowledges in time; does every file arrive? | window of 3; files of 6 and 2 blocks, an empty one between two others, one that is refused, and a network with delays of more than a second |
| `VoiceHolds` | Is voice relayed once and in order, where a snapshot leaves no more than it takes? | 5 slots, packets of length 1 and 2, 4 to a message, 6 packets |
| `BucketsHold` | Are chains whole, and is nobody answered too often, whichever bucket is reclaimed? | 3 buckets for 4 addresses, of which three share a chain; bursts of 1, one answer per 2 ticks, 5 ticks: buckets are reclaimed from the beginning, the middle and the end of a chain |
| `HeapHolds` | Do nodes and blocks tile the pool; is the node that is cut the smallest; is what is refused too large? | a pool of 7, blocks of 1 to 3 |
| `QueuesHold` | Is the ring whole; do those in it belong there; is nobody overtaken? | 3 clients, one team |
| `RotationsHold` | Does every advance end, and with a map; does every rotation go on where it was left? | rotations that call and return, that change to each other for ever, and one the console interferes with |
| `VotesHold` | Do ballots of those still there decide, and is what passed executed once, in turn? | 2 clients, everybody's vote and one team's, 3 votes |
| `TimeHolds` | Are the errors that "should never happen" never met; does what is drawn lie between two snapshots, and not run back? | 3 snapshots in 3 ticks, a ring of 2, steps of up to 3 ticks, one restart of cgame |
| `BaseHolds` | Is more spent than there is only with a stale count; is the last egg kept; is there one overmind; is a parent always one? | 3 slots, 3 places for overminds, an egg, an outpost; 2 points; with and without marks |
| `ServersHold` | Is every entry in its chain once; is only listed who answered in time; is a heartbeat refused only if the table is full? | 2 entries, 3 servers, 2 chains; time-outs of 1, 2 and 1 seconds in 4 |

Why these bounds are enough for the cases to happen:

- *netchan*: the boundary is `Len = k * FRAGMENT_SIZE`; with fragments of 2 the
  lengths 1 to 4 are below, at and above it, and three messages are enough for
  two of them to be mixed in the reassembly while a third overtakes. The proof
  (section 5) covers all other sizes.
- *svnetchan*: three packets give a first, a middle and a last; two queued
  messages, a queue that is popped while another arrives. Modulo 3 is enough
  to tell a number from its neighbours, and client commands modulo 2 to tell one
  from the next; the proof covers any modulus above 2, and any of commands above 1.
- *reliable*: with three slots the ring wraps within five commands; four pending is
  one more than the ring has room for, so overflow, drop and disconnect happen
  with full and half-full rings. With fewer slots the number that did not fit
  never names a slot that still has an older command in it (section 6). Also
  checked outside: rings of 2 with 4 commands and 2 messages in flight each way
  (1,251,019 states), rings of 3 with 4 commands and 2 messages (5,834,395).
- *connection*: the reserved slot, the free one, and the client that finds
  neither; two entries in the table with as many clients, so that challenges
  are pushed out. In `connection_disorder` a packet may be held back and
  delivered again any number of times but only one is in flight per direction:
  two unordered packets in flight each way without port changes were checked
  too (378,961 states, same result), both together exceed 10 million states.
  `connection_live` needs three challenges, the smallest number with which a
  late `connectResponse` could meet a newer handshake.
- *snapshot*: both rings of entities roll over within the five messages, on the
  server also through other clients, and the map changes once. The margin of 2 is
  smaller than the snapshots of up to three entities, as the code's 128 is than its
  1024, so deltas are met that go over their own base (`crowded`). The six slots of the frame
  rings do not come round in five messages; the proof covers that
  (section 5), and TLC another instance: 5 slots, 6 messages and two of the three views
  (1,537,714 states, same result), with which too few deltas are made for
  the mutants to show.
- *parts*: each structure is one element larger than its smallest full one: three
  clients in a ring (first, middle, last), a pool with room for a used block
  between two free nodes, a window that must go round once. More than that
  was checked outside: `AlienBase` with the other two values of `g_markDeconstruct`
  (107,106 states), `SpawnQueue` with players who spectate sticky (66 seconds),
  `RateLimit` for 6 ticks (270,412 states), `Master` for 5 seconds (324,880 states), with the same results.
- *configstrings*: the three ids are a map, its restart, and another map (or two
  maps, or two restarts), the shortest history in which the range
  `restartedServerId .. serverId - 1` is neither empty nor everything.

Deadlock is checked in `svnetchan` and `svnetchan_order`, whose numbers wrap and
which never stop; the other models come to a stop at their bounds.

## 4. Fairness

- *The code's own steps.* Server and client run `Com_Frame` for ever, and every
  frame sends: weak fairness on `Frame` (SvNetchan), `SV_SendClientSnapshot`,
  `CL_WritePacket`, `CL_Frame`, on cgame's steps, on `UpdateSystemInfo` (a check
  of each `SV_Frame`) and on the timeouts, whose clocks do not stop.
- *The network.* Strong fairness on receiving a message: UDP may lose any packet
  but not for ever all of a kind that is sent again and again. It is stated per
  kind of packet in `Connection` (getchallenge, connect, move, and each of the
  server's), and separately for gamestates and snapshots in `Configstrings`. A
  network that loses every connect has no handshake; no code can help that.
- *No fairness* on what a user, the operator or the game decides: commands,
  disconnects, kicks, map changes. `connection_live` has `Picky` FALSE, as a
  server that refuses at every turn lets nobody in.
- *Downloads.* Weak fairness on the pump that writes blocks into snapshots, on the
  server's reading of commands and on the passing of a second; strong fairness on
  the arrival of each block number. It is stated in `Parts`, where downloads run.
- `FragmentsFinish` assumes that whoever has unsent fragments sends the next one:
  the client does in a loop before each packet, the server at each client's turn
  when its rate delay is over.

## 5. Proofs

Every theorem is checked by TLAPS to its last leaf, without any assumption but
those named in the modules (`NetchanAssumption`, `ReliableAssumption` and so on, which
TLC evaluates in the runs; those of the parts for their instances in `Parts`) and the
hypotheses named below. They hold for all values of the constants: rings, buffers,
moduli, numbers of clients, ports, entities, configstrings, commands, messages and
files. Each property below is one that a run checks on a small instance; none is
inductive, and each subsection says which invariant is and why. The invariants
were checked by TLC, on the run's instance, before they were proved.

### NetchanProof

The properties are not inductive: that a delivered message equals the one that was
sent depends on what has been gathered, which depends on what is on the wire,
which depends on what the sender has cut so far. The invariant follows that path:

- `SenderInv`: `sent` has as many messages as there were numbers used; while
  fragments are unsent, `unsentBuffer` is the message of `outgoingSequence`, and
  `unsentFragmentStart` does not lie beyond it.
- `NetworkInv`: every packet is a piece of the message of its number: the whole
  when it is not a fragment, else the part at its offset, full unless last.
- `ReceiverInv`: what is gathered is a prefix of the message of
  `fragmentSequence`.
- `ChainInv`: every full fragment on the wire has its successor there too, or
  the sender is just about to send it, and so has what is gathered. Without it `ReassemblyCanContinue` is not
  inductive: one has to know that the chain of fragments has no hole.
- `HistoryInv`: `delivered` is whole and increasing, and its last number is
  `incomingSequence`.

Theorems: `TypeCorrect` (no overflow of either buffer), `WholeMessages`,
`OrderedMessages`, `ReassemblyContinues`, and `Refinement`: the netchan implements
`MessageChannel`. `Netchan_Transmit` maps to `Send`, a `Netchan_Process` that
returns true to `Deliver`, everything else to a stutter.

### SvNetchanProof

- `LastInv`: the packet sent last says exactly what is still unsent (which
  message, how many packets), or, if none is, has the number before the next;
  and two packets of one step follow each other. This is what makes
  `NoInterleaving`, a property of two consecutive sends, provable: the first
  packet of a step is compared with state, not with history.
- `CurrentInv`: what is unsent was encoded for the present sequence.
- `QueueInv`, `StringInv`: a message that waits and was not overtaken acknowledges the command
  that was executed last; and the string that is remembered is that command's: the two
  fields agree, though each is set for itself. So a message that is popped has the
  key its acknowledge names.

Theorems: `TypeCorrect`, `SequenceKeyed` (every message leaves under the number
it was encoded with, also when it waited and was encoded before the counter
moved), `AckKeyed` (and with the string of the command it acknowledges, also when it
waited, unless overtaken), and the action property `NotInterleaved`.

### ReliableProof

That a command is executed in its turn is a matter of four places: the sender's
ring, the messages under way, the receiver's ring and what was executed. Both
directions have the same invariant, and need each other's, because what a ring
may overwrite depends on what the other side has acknowledged.

- `ClientSaid(n, t)`, `ServerSaid(n, t)`: text `t` is what command `n` was given as, or
  what a disconnect, or a drop with a full ring, put in its slot.
- `RingsInv`: while a connection is up, its ring holds the last
  `MAX_RELIABLE_COMMANDS` commands; whatever is not acknowledged was said.
- `ToServerInv`, `ToClientInv`: what a message says of every command it carries was
  said; it starts no later than its receiver needs; later messages acknowledge
  no less. This gives `NoGap`.
- `CountersInv`: nobody acknowledges what was not issued.
- `SvHistoryInv`, `ClHistoryInv`: what was executed was said, under its number.

Theorems: `ServerOrder`, `ClientOrder`, `NoGaps`, `Rings` (types, ring sizes, and the
key of every message is found unless a ring is full). The proof of `ClientOrder`
failed at first, and rightly: `SV_AddServerCommand` sends a dropped client an old
command again (section 6). The property names that exception now, by the number that
was counted up and not stored (`skipped`), wherever the farewell puts it and however many
commands of the game come before or after it: `GameCommands` is any set of numbers. The run has
rings of three, the smallest that show it.

### ConnectionProof

Three layers, each on the one before, so that every theorem has just the
hypotheses it needs:

- `IInv`, of any network and router: types, and `GameAgrees`: the game has a player
  exactly in the live slots. Theorems `TypeCorrect` and `GameAndEngine`.
- `OwnInv`, if the router keeps each client's port (`~Rebinding`): an address is one
  client's, in slots and in packets; no client has two slots; reserved slots are held by
  those with the password. Theorems `OneSlot`, `Slots`, `KeptSlot`. Without the
  hypothesis they are false (section 6).
- `HandshakeInv`, if packets also arrive in order (`Ordered`): of the entries of an
  address at most one has not been connected with; the requests, answers and
  connects under way are of the challenge the client has, or of one the server would not
  take any more; and what follows an answer in the queue is fit for the state in which
  the client then is. Theorem `ChallengesAgree`. Where packets overtake each
  other, a late `connectResponse` may be taken for that of a newer handshake.

### SnapshotProof

A delta is right if three things agree: the base that the server names, the
states it has kept of that base, and the states the client has kept. Neither side
knows what the other has dropped; the age checks must be enough. The invariant has four
strands:

- `OrderInv`, `GamestateInv`: messages are in order, acknowledges do not run ahead, and a
  gamestate under way is of a map the client has not, and the only one of it.
- `BuiltInv`: whatever the server may be asked to make a delta from (acknowledged,
  or still to be acknowledged) was a snapshot of this map, and its frame still has
  it, and its entities, if it passes the age checks.
- `HadInv`: whatever may be a base is a snapshot the client took for its present
  gamestate, and still has, if it is recent.
- `OldInv`, `KeptInv`: what frames, messages and the client's ring hold is what was
  meant when the message was built.

Theorems: `CgameSees` (what `CL_GetSnapshot` gives is what the server saw),
`Bases` ("Delta from invalid frame" and "Delta frame too old" do not happen),
`BaseStates`. `SnapshotAssumption` says that each ring of entities has room for one
snapshot (at most 1024 entities; the client's ring has 2048 places, the server's 2048 for each
client slot when it is dedicated and 256 for each otherwise, `sv_init.c:305-308`: a listen server of fewer than four
slots is covered as long as its snapshots are no larger than its ring). The margin of the
client's age check may be smaller than a snapshot, as 128 is: what is written while a delta is read is
then the entities before the place the parser has come to, which either are in the base, and
so no more than its places passed by, or appear. As long as fewer appear than the
margin, nothing goes over a place that is still to be read (`FewBefore`).
Where more do, the new list may be anything, and the message is in `crowded`, with all that are made
from it: `CgameSees` makes no claim about those. The code does not exclude them: neither side compares
the number of entities that appear with the margin (section 6).

### ConfigstringsProof

`ReliableUnlessReplayed` speaks of a client that has caught up, which is the end of a
long way: gamestate sent, received, commands executed, map loaded, world
entered, while maps change, restart, and strings are set. The invariant follows
it with one notion: `Becomes(v, from, i, value)`: string `v` of `i` becomes `value` when
the commands after `from` are executed, that is, the last of them for `i` has that value,
or there is none and `v` has it.

- `GamestateInv`: a gamestate of this map that is under way becomes the server's
  strings, but for those that the server will still send when the client enters
  the world (`Pending`) and those hidden from the client.
- `ClientInv`: so do the strings of a client that is `Settled`: it has a gamestate of
  this map and has executed nothing from before it. Without the second half this
  is false, and so is the property (section 6).
- `ConnectedInv`: a client that the server holds for connected has been sent no
  gamestate of this map; `IdInv`: no serverId, in a string, a command or a packet, is
  later than the server's.
- `SinceInv`: while a gamestate is under way nothing that was sent after it has
  arrived; what a settled client says with `since` is of this map. `OneGamestatePerMap`, an
  action property, is these two: a packet that makes the server send a gamestate has
  `since`, and a serverId that is neither the server's nor between the restart's and
  the server's, which `SinceInv` and `IdInv` exclude for a settled client.

Theorems: `StringsFollow` (with the types: `StringsHold`) and `SentOnce`.

### DownloadProof

`WindowHolds` is about the server alone, but what keeps it true and nobody dropped is
an agreement of both sides, which changes as a download goes on. The invariant
is a choice of stages, and each step of the model leads from one of them to the
same or the next:

- `Asked`, `Waiting`, `Refused`, `GivenUp`: before the file is open, or without it.
- `Running`: the client has the first blocks of the file; the commands under way
  acknowledge, in a row, those from the server's `client` to the client's `block`
  (`Acking`), so the next acknowledge is the one the server waits for; what is under
  way to the client is what it has or what is in the file (`SentInv`).
- `Changing`, `Ending`: the client has the Eof block and has asked for the next
  file, or for a gamestate, behind its last acknowledges.

Block numbers travel as 16 bits: `ShortTells` shows that a number which fits is the
block the client waits for, as a window is no longer than half of the numbers;
`FilledHolds`, that blocks of a window have different places in it, so that what is
read does not go over what may be sent again. `SentInv` says more when only lost
blocks are late (`punctual`): the blocks under way are in a row and end with the one
sent last. So when the Eof block is taken nothing is left under way that would be
acknowledged as a block of the next file, which is how `NotBroken` fails otherwise
(section 6). For one file no such promise is needed.

Theorem: `DownloadsHold` (`DownloadHolds`), for all lists of files, refused ones among
them, all lengths of window and bounds on what is under way.

### PartsProof

One invariant for each of six parts; that the others leave its variables alone
is a case of each step.

*Induction without a rule.* A chain, a list without an element and a sum of lengths
are functions defined by recursion, and the library's rules of induction take an
operator as parameter. They are therefore stated for sets: `Induction` (a set of
numbers with 0 and each next one has them all) follows from `LeastOf`, which is the
well-foundedness of finite sets under inclusion; `Iterates` gives the function that a
step defines from its first value, where step and values are sets. From these come
the facts about `Kept` (`KeptBy`, `KeptSifts`: what is left is in order, each element
once) and about chains (`ChainIs`). The definitions of the models that iterate are
written as functions on `0..n` for this.

- *Voice*. What was written, followed by what waits, is `queuedIds`, which grows
  (`VoiceInv`): so what is thrown away for a download is taken out of the one and the
  other by number (`PendingThrownAway`). What a snapshot takes is no more than
  there is (`TakenInQueue`), as it is the least of `Stops`.
- *Servers*. Every chain enumerates, each once, the active entries of its hash, and no
  address has two (`Whole`); who is known has answered a challenge, and his time-out ends
  no later than that answer allows (`Answered`), which is said of timed-out entries too, as
  a late answer may revive one. A heartbeat sets a time-out anew: that
  it allows no more than an answer does is `MasterAssumption`'s inequality.
- *Buckets*. For each hash there is a sequence which the pointers spell both ways, with
  all of its buckets and without repetition (`WellChained`). Unlinking from the middle
  (`UnlinkedWell`) and linking at the head (`GivenWell`) keep it, and `ChainIs` shows
  that the walk the model makes finds this sequence. The limit is about any two
  answers; `Drops` says what its bucket knows of each of them: of the answers after it, all but
  those still in the bucket have run out since. An address without a bucket
  might as well have an empty one (`Limited`), since only what has run dry is reclaimed.
- *Votes*. `TeamInv`: the bits `voted` and `vote` of a client who has a say tell his
  ballot (`Counts`, `SaidBy`), so the counts are those of the ballots; nobody has voted
  where no vote is in progress, and none is in progress while one waits to be executed
  (`OneAtATime`). A ballot given or taken back changes one count by one (`CastOne`); who
  returns to a team with his bit still set is the exception `returned`. `MajorityPasses`
  needs besides that those who voted have a say (so there are no more of them than
  `Voting`), and thresholds of a half or more: `VotesAssumption`, which an operator breaks who sets
  `g_suddenDeathVotePercent` or the like below 50.
- *Time*. Client and cgame agree though either starts anew: as long as the client is not
  active cgame has no snapshot, and none of the world waits for it unread (`Follows`,
  `Quiet`), so cgame's first snapshot is never one that the client has not begun with.
  cgame's time is ahead of the client's last one only if its snapshot is, which is why it
  does not run back when the next frame takes the later of the two. What
  `CG_ProcessSnapshots` leaves is one of two states (`Rests`): `Progress`
  grows by one with each round that is not at rest (`RoundAdvances`) and is at most twice the number of
  snapshots, so the model's `3 * MaxSnaps` rounds are all there can be. The delta
  grows by one for a snapshot at most (`TimesKept`). `TimeAssumption` asks that no nudge
  exceeds the clocks: `cl_timeNudge` is cut off at 30 ms.
- *Downloads*. An instance has its own copies of definitions, so those of `D` in `Parts` and of the
  instance of `DownloadProof` are shown to be equal first (`SameNext` and others).

Theorems: `Voice` (`VoiceHolds`), `Servers` (`ServersHold`), `Buckets` (`BucketsHold`),
`Votes` (`VotesHold`, an action property in it), `Time` (`TimeHolds`, two of them),
`DownloadsHold` (`DownloadHolds`), for any numbers of slots, packets, addresses, hashes,
servers, buckets, clients, teams, votes and snapshots, and any lengths of frames.

### Only model-checked

All liveness (TLAPS 1.4.5 has no support for `ENABLED`, on which fairness rests):
`FragmentsFinish`, `MessageFinishes`, `CommandsArrive`, `GoneIsFreed`, `HandshakeFinishes`,
`CatchesUp`, `DownloadsFinish`. And of the parts, the game's heap (`HeapHolds`), spawn queues
(`QueuesHold`), map rotations (`RotationsHold`) and the aliens' base (`BaseHolds`): TLC covers
their instances, and a proof of each is a project of its own.

## 6. What the code says of itself, and does not do

While modelling, comments of the code turned out not to hold of it. One is a
run that TLC shows violated (`findings`):

**`SentInOrder`** (`svnetchan_order`). `sv_net_chan.c:173`: "then buffer them and
make sure they get sent in correct order". When `SV_Netchan_Transmit` finds
unsent fragments it queues the message and sends one fragment (190). If that
is the last one, the netchan is free while messages wait, and the next
message built is transmitted at once, before them.

The others are stated in the modules, each in a section of this name, and can be
seen with the module's cfg when its properties are replaced by the one named:

| Property | Says | Does |
|---|---|---|
| `SvNetchan!KeyedByAck` | `sv_net_chan.c:66`: key modified with "the last received and with this message acknowledged client command" | a queued message is encoded later (150), with the string of a later command than the one it acknowledges |
| `SvNetchan!QueuedIsSent` | `sv_net_chan.c:186`: "the message will be encoded and sent later" | only `SV_Netchan_TransmitNextFragment` looks at the queue, and only when it sends a last fragment: with one-packet messages from then on, the queue stays |
| `Reliable!ClientFindsKey` | `cl_net_chan.c:115`: key of the "acknowledged client command" | with a full ring the acknowledged command's slot has been overwritten (`cl_main.c:523-524` lets it be filled) |
| `Reliable!ServerFindsKey` | `sv_net_chan.c:117`, the same | `sv_main.c:147`, the same |
| `Reliable!DisconnectFits` | `cl_main.c:521`: "also leave one slot open for the disconnect command" | the check (523) does not leave it |
| `Reliable!DropsOnce` | `sv_main.c:145-146`: "so a broadcast print added by SV_DropClient() doesn't cause a recursive drop client" | `SV_DropClient` becomes a zombie only after its notice: a notice that makes the overflow drops again, and the game is told twice |
| `Connection!ForgottenNotices` | `cl_main.c:2261-2263`: "the server will send out of band disconnect packets to the client so it doesn't have to wait for the full timeout period" | `CL_PacketEvent` sets `lastPacketTime` (2713) before `CL_DisconnectPacket` asks whether nothing came for three seconds (2278): it never acts, and every such packet puts the timeout off |
| `Configstrings!PlaysThisMap` | `sv_init.c:553-554`: "when we get the next packet from a connected client, the new gamestate will be sent" | a map restart (`sv_ccmds.c:187-210`) makes active every client that is at least `CS_CONNECTED`, also one that still has the gamestate of the map before |
| `Connection!ChallengeUsable` | `sv_client.c:34-35`: "Returns a challenge number that can be used in a subsequent connectResponse command" | a repeated getchallenge gives the same entry a new number (89); the client has taken the first |
| `Reliable!NoneTwice` | `sv_main.c:143-144`: "if we would be losing an old command that hasn't been acknowledged, we must drop the connection" | the number of the command that did not fit is counted up before the drop (142) and its slot not written: it still has the command from a ring's length before, which is sent and executed a second time |
| `Connection!SlotKept`, with `Rebinding` TRUE and a third port | `sv_main.c:844-846` fixes up a port that a translating router changed | `sv_client.c:221-223` takes a connect from a port that another live client had when last heard for that client's reconnect; with two clients, one of them trusted, `ReservedForTrusted` and `OneSlotEach` go the same way, as a reservation is looked at only for a new slot. `connection_disorder` has one client, so theorems and runs about slots assume that ports stay |
| `Configstrings!ChangesReach` | `sv_init.c:601-603`: "any configstring changes should be reliably transmitted to all clients" | `cl_cgame.c:785-788` starts executing from before the gamestate, so old changes overwrite its strings |
| `Configstrings!ResentOnlyIfDropped` | `sv_client.c:1647-1648`: gamestate resent "if we can tell that the client has dropped the last" | for the same reason an old systeminfo command takes the client's serverId back, and it is sent the gamestate it has |
| `Configstrings!HiddenIsBlank` | `sv_init.c:42`: "Send a blank config string for this client if it's listed" | `SV_SendClientGameState` (`sv_client.c:453-459`) does not look at the list |
| `Configstrings!CatchesRestart`, with `Delayed` FALSE | `sv_client.c:1643`: "they just haven't caught the map_restart yet" | `sv_ccmds.c:155` changes `sv.serverId` before the systeminfo (`sv_main.c:1088-1091`); a client made active by two restarts in a row may never be told apart from one that is about to catch up |
| `Download!NotBroken`, with commands that take more than a second | `sv_client.c:573`: "it should be the same as cl->downloadClientBlock" | blocks sent again are acknowledged again; the second acknowledgement comes when the server has moved on, and it drops the client |
| `Voip!RelayedOnce` | `sv_client.c:860`: "Check to see if there is any VoIP queued for a client, and send if there is" | the rest is moved down by as many packets as were sent, not all that are left (900): with more left than sent, some are doubled and others lost |
| `BGAlloc!NoFault` | a block can be freed | with the pool used up `freeHead` is NULL, and `BG_Free` writes through it (`bg_alloc.c:148`) |
| `SpawnQueue!LeaversAreOut` | `g_main.c:866`: "remove a specific client from a spawn queue" | `G_LeaveTeam` (`g_team.c:172`) removes `ps.clientNum`, which is the followed player's while he follows: the wrong one leaves the queue |
| `ClientTime!TimeForward` | `cl_cgame.c:1073`: "guarantee that time will never flow backwards" | `CL_AdjustTimeDelta` sets `oldServerTime`, which the check (1076) compares with, back with the time itself (906) |
| `MapRotation!BranchesStay` | `misc/manual.lyx`: `if` decides "whether or not to branch to the specified map" | `G_AdvanceMapRotation` follows the condition to its target but not its index (`g_maprotation.c:951-954`): the rotation goes on behind the condition, not behind the map |
| `Votes!TakenBackOnce` | `g_main.c:2037`: nothing to take back for who has not voted | `pers.voted` is not cleared when a ballot is taken back: who leaves a team, returns and leaves again is taken back twice |
| `Master!ListsAll` | `messages.c:232`: "Add every relevant server" | `Sv_GetNext` (`servers.c:526-564`) takes the entry behind a removed one as the current one and goes on to the next: a live server behind one that timed out is left out of the answer |

Also met, and not stated as properties:

- `cl_parse.c:199-201`: of an invalid snapshot "no changes to the state will be made
  at all"; its entities take places in `parseEntities`. `client.h:88` wants room there
  for `PACKET_BACKUP` frames of entities, which 2048 is not; the age check makes up
  for it, with a margin of 128 where a snapshot may hold 1024: a delta in which 128 or
  more entities appear at once may overwrite, while it is read, those of its own base
  (`cl_parse.c:256`). Without the exception of `crowded` messages TLC finds
  `CgameSeesWhatWasSent` violated that way. It takes a base as old as the check lets pass.
- The refusal of a download is a single unreliable message: when it is lost and
  the name is forgotten, the client waits. Block numbers are 16 bits on the wire
  and 32 on both sides.
- `G_GetSpawnQueueLength` takes a queue in which every client waits for empty.
- `CL_AdjustTimeDelta` computes a shorter `resetTime` for a local server
  (`cl_cgame.c:891-895`) and does not use it.
- Rotations whose conditions leave no map issue no map change; a rotation with a
  return that is called twice in a row, or two that call each other, advance
  without end, as may a jump from the console. `goto` is not parsed; the manual
  says 16 rotations, the code has 64; validation errors are only printed; the
  cvar that keeps the stack has room for 256 characters.
- `G_Overmind` and `G_Reactor` (`g_buildable.c:514`, `529`) look for the building when
  the cached pointer is good and trust it when it is not; the comment
  (498-503) says otherwise. With no human's buildable in the slot it makes no
  difference.
- A marked overmind that is dying hides a second one from the test whether
  there is one, which asks only for the mark (`g_buildable.c:3347`), so that a
  third may be built: the exception in `OneOvermind`.
- The points of an outpost whose egg a mate destroyed come back at once
  (`g_buildable.c:2473-2482`), also when that was long ago and an enemy kills the outpost;
  for an egg that is deconstructed, the comment's own example, `killedBy` is not set.
- Between two counts several builders can spend the same points, and deconstruct
  the last eggs: the exceptions in `OnlyStaleCountOverspends` and `LastSpawnKept`.

The passing properties are stated so as to hold beside these: `KeyedByAckUnlessOvertaken`, `CgameSeesWhatWasSent`,
`KeyHeldUnlessFull`, `ReliableUnlessReplayed`, `OneGamestatePerMap`,
`HandshakeFinishes`, `NotBroken`, `RelayedOnceIfHalved`, `ClientExecutesInOrder`, `MembersBelong`, `CountsExact`,
`ForwardUnlessReset` and those of `AlienBase` name the exception in the formula, not in the model.
They therefore do not detect what they except: `VoiceHolds` not the half-sent queue that is moved
down wrongly, `QueuesHold` not the wrong player's leaving, `BaseHolds` not the overspending and the
last egg lost to a stale count. The properties that do are in the table, or are these
without their exception, and TLC refutes them.
`ConnectionAgrees` holds as long as the router keeps a client's port; a client
whose port changes in the middle of a handshake may have two challenges at
once, and meet the server on the older one.

## 7. What is not modelled

`components` in `PROJECT.json` names every part. The reasons are of three kinds:

- *planned*: control that a model can hold and that this project will (section 8);
- *numerical or data*: movement, combat, collision, rendering, mixing, codecs,
  bytecode; TLA+ can state them but TLC cannot explore them and a model would
  repeat the code line for line;
- *input and output*: file systems, sockets, window systems, consoles.

Assumed of what is outside: the game keeps to its traps; the random challenges are
different from each other; nobody forges packets from an address that is not
theirs.

## 8. Plan

Proofs. Done: `Netchan`, `SvNetchan`, `Reliable`, `Connection`, `Configstrings`,
`Snapshot`: each safety property that a run of the network stack checks; of the parts,
`Download`, `Voip`, `RateLimit`, `Votes`, `ClientTime` and `Master`. Left are `SpawnQueue`, `BGAlloc`,
`MapRotation` and `AlienBase`. No module that is to be proved about declares a recursive operator.

Models: the pure server protocol (answers to an old feed), the humans' power and
zones next to `AlienBase`, match flow (stages, exit rules, intermission), movers, the
two-ended hunk, the event queue, the command buffer; and a composition of
`Reliable` above `SvNetchan`, in which keys, queue and sequence meet, for
`gamestateMessageNum` of a gamestate that waits in the queue.

## 9. Running it

```
tlasany Netchan.tla                               # parse
tlc -workers 2 -config Netchan.cfg MCNetchan.tla  # model-check
tlapm NetchanProof.tla                            # prove
```

Each run of `PROJECT.json` names its module and cfg. `configstrings` has the most
states; `parts` and `connection` take two to three minutes, the others about one or
less. `NetchanProof` and `SvNetchanProof` are proved within a minute, the other
modules of proofs in two to four, but for `PartsProof`, which takes fifteen.
