# Verification of qfusion

TLA+ models of the parts of qfusion (the engine of Warsow) whose correctness depends on
order: packets that are lost and overtake each other, commands sent again under numbers that
start anew, frames compressed against frames that may be gone, threads that share a pipe,
transactions that a crash cuts in two, answers that come when nobody waits for them anymore.
Paths below are relative to `src/source/`. `PROJECT.json` lists, for each definition, the lines
that it models.

## 1. Inventory

qfusion is a client, a server and the modules that both load. Each program is one loop over
frames (`Qcommon_Frame`: read packets, run the game, send packets) on one thread; a few
services have threads of their own, fed by pipes.

| Part | State | Operations | What is hard | What makes it correct |
|---|---|---|---|---|
| Network channel, `qcommon/net_chan.cpp` | sequence numbers, the fragments not sent yet, the buffer where fragments are put together | `Transmit`, `TransmitNextFragment`, `PushAllFragments`, `DropAllFragments`, `Process` | loss, duplicates, overtaking; a refused send in mid-message; lengths at the boundary of a fragment | what comes out is a whole message of the other end, in order, once; a loss costs one message |
| Reliable commands and handshake, `server/sv_send.cpp`, `server/sv_client.cpp`, `client/cl_main.cpp`, `client/cl_parse.cpp` | a ring of commands at each end with sequence, sent and acknowledged numbers; the states of client and server; configstrings | `SV_AddServerCommand`, `new`, `configstrings`, `baselines`, `precache`, `begin`, `changing`, `reconnect`, `disconnect`, timeouts | the level changes in the middle; numbers start anew with `new`, which is sent again; windows overflow | the client gets into the game with the current configstrings; commands run once, in order; both ends agree whether they are connected |
| Connection requests and slots, `server/sv_oob.cpp`, `server/sv_main.cpp` | challenges, client slots, what the game module knows of each | `SVC_GetChallenge`, `SVC_DirectConnect`, `SV_ClientConnect`, `SV_DropClient`, `SV_CheckTimeouts` | a repeated request takes a slot again; zombies; bots; the limit per host | a slot belongs to one machine; nobody is left in the game without a client; who keeps trying gets in |
| Snapshots, `qcommon/snap_write.cpp`, `snap_read.cpp`, `client/cl_main.cpp` | rings of frames at both ends, one ring of entities for all clients, the last frame acknowledged | write a frame as a delta, parse it, show it, acknowledge it | the frame a delta refers to has left a ring; commands that travel in frames | the client sees what the server built; a command is executed once |
| User commands, `client/cl_input.cpp`, `server/sv_client.cpp`, `cgame/cg_predict.cpp` | rings of moves, those acknowledged, those executed, the saved prediction | make, send again, execute, replay | loss, clocks set back, moves that come late | a move is executed once, as made; the player is shown every move once |
| Command pipes, `qcommon/threads.cpp` | circular buffer, an atomic count of bytes, a condition variable, two positions | `WriteCmd`, `ReadCmds`, `Wait`, `Finish` | two threads, a rewind in the middle of a command, wakes that nobody waits for | a queue that loses nothing and does not stop |
| Match reports, `matchmaker/mm_reliable_pipe.cpp`, `mm_local_storage.cpp`, `mm_query.cpp` | a pipe, a database file, two threads, a request | enqueue, push, fetch, send, poll, mark, terminate | failing statements and requests, crash at any point, exclusive transactions | a finished match is reported; nothing is sent twice for nothing |
| Web server, `server/sv_web.cpp` | a pool of connections, two pipes between threads | listen, receive, ask the game, respond, time out, shut down | connections freed and taken by others while answers are on their way | a response goes to its request; memory has one owner; every request ends |
| Match and teams, `game/g_gametypes.cpp`, `g_gameteams.cpp`, `g_callvotes.cpp` | state of the match, teams and readiness, forced countdowns | join, ready, votes, challengers, aborts, new levels | a countdown that somebody undoes from another side | a match starts only when agreed |
| Matchmaking facade, `server/sv_mm.cpp`, `matchmaker/mm_network_task.h` | the session, the id of the match, tasks and their retries | `CheckMatchUuid`, the tasks' callbacks | a late answer, a task given up, one flag for all tasks | each match has an id of its own |
| Levels and operator commands, `server/sv_init.cpp`, `sv_ccmds.cpp`, `sv_game.cpp` | spawn count, configstrings, baselines | `SV_Map`, `SV_SpawnServer`, `PF_ConfigString` | clients in every state | all clients are moved to the new level |
| Console variables, `qcommon/cvar.cpp` | values and latched values | set, force, latch | order of sets and restarts | a latched value takes effect once |
| Everything else | | | | listed in `PROJECT.json` and section 7: geometry, drawing, sound, file formats, scripts, bots, decoders, platform layers |

How they interact: the client's and the server's frames hand messages to the channel and take
them from it; the game modules run inside the frames and queue commands with
`trap_ServerCmd`/`trap_ConfigString`; the renderer, the sound system, the web server and the match
reports put commands into pipes that other threads read; match reports leave the server's thread through
such a pipe, go through the database file, and are sent by a third thread; the game module and the
facade meet in one configstring, the id of the match.

## 2. Modules

Abstract specifications say what a part promises, detailed ones how the code does it, `MC*`
modules hold the values of constants for TLC, `*Proofs` modules the theorems.

| Module | What it is |
|---|---|
| `OrderedDelivery` | messages come out whole, in order, at most once |
| `NetChan`, `NetChanProofs` | the channel; refines `OrderedDelivery` |
| `ReliableCommands`, `ReliableCommandsProofs` | commands, handshake, level changes over a channel that only loses messages, as `OrderedDelivery` allows |
| `Connections`, `ConnectionsProofs` | challenges, requests and slots, over packets that are lost, doubled and late |
| `Snapshots`, `SnapshotsProofs` | frames, deltas and game commands over `OrderedDelivery` |
| `UserCommands`, `UserCommandsProofs` | moves and prediction over `OrderedDelivery` |
| `CommandQueue` | a queue whose `Finish` waits until it is empty |
| `BufPipe`, `BufPipeProofs` | the pipe between two threads; refines `CommandQueue` |
| `ReportDelivery` | a report stays in the storage until received or set aside |
| `ReliablePipe`, `ReliablePipeProofs` | match reports, the threads and the database; refines `ReportDelivery` |
| `WebServer` | the web server's thread and the main thread, over two `CommandQueue`s |
| `MatchStart` | how a match comes to start, and the fetching of its id |
| `ServerProofs` | the theorems about `WebServer` and those about `MatchStart`, which share nothing |

What one module takes of another it takes as the other's abstract specification: `ReliableCommands`,
`Snapshots` and `UserCommands` keep messages in order and may lose them, which is all that
`OrderedDelivery` says; `ReliablePipe` and `WebServer` use pipes as the sequences of `CommandQueue`.
That keeps each small enough to be checked whole.

Some definitions end in an underscore and a word (`Stale_Never`, `FirstMove_Full`) and say
"Wrong on purpose": each is a plausible bug of the definition after it. Replacing the
definition by it must violate a property, which shows that the property depends on the code.

### NetChan

The variables are the fields of `netchan_t`, one per end, with their names. `Transmit(e)` and
its parts are `Netchan_Transmit` with the callers `SV_Netchan_Transmit` and
`CL_Netchan_Transmit`, which differ when pushing older fragments out fails: the server gives
up, the client goes on. A transmission pushes one fragment per step, because the other end and
the network run in between; `FrameFragment` is `SV_SendClientsFragments`. `Receive(e)` is the whole of
`Netchan_Process`. A byte is a pair of the message's number and its place, so that no byte can
pass for another. The network keeps packets in order but may lose or duplicate one, let it be
overtaken, and a socket may refuse one; each counts as a fault.

Left out: compression (it changes no decision but the length), the game port, which tells
clients behind one address apart, and re-running `Netchan_Setup` on a live channel.

### ReliableCommands

`server` and `client` are records with the fields of `client_t`, `client_static_t` and
`client_state_t` that the handshake uses. A message is a sequence of items (acknowledgement,
commands, serverdata, frame) and is parsed one item per step by the action that models its
handler: `New` is `SV_New_f`, `Precache` is `CL_Precache_f`, and so on. Parsing a message is not
interrupted by the same program's other actions, because both programs run it to its end within
one frame. `ConfigString` is the game changing a configstring, `Map` an operator changing the level,
`TypeCommand` and `Quit` the player.

`numbering` is a history variable: it tells apart the runs of command numbers that begin when
`SV_New_f` resets the counters, which the code itself cannot tell apart. The client sends what is not acknowledged,
`new` included, with every message, whether or not an answer is on its way (`CL_SendMessagesToServer`); so the server
may execute `new` again and believe acknowledgements of another numbering, and the properties have to say what becomes of that.
Two more history variables help them: `misled` has the numberings in which the server took for acknowledged what the client had not
executed, `overtaken` the values of configstrings that were put into a command before the one holding the value they replace.

`MayQuit` says that the player may leave. `MaxToServer` and `MaxToClient` are how many messages may be under way when an end
sends another one; an end that has as many under way waits. `MaxEvents` bounds broadcasts, typed commands, losses and changes of
level together. Timeouts happen when the other end has stopped talking and nothing is on its way: with
timeouts of minutes, an end does not time out because of a lost message or two.

Left out: downloads, user info and demos. The contents of snapshots are `Snapshots`' subject, the moves
in the client's messages `UserCommands`', how a slot is got and lost `Connections`'; other clients share only
`sv.configstrings` and the level with this one.

### BufPipe

One step per access to shared memory: the writer (`Room`, `Mark`, `Lap`, `Copy`, `Add`,
`WakeReader`, `FinishTest`, `FinishWake`) and the reader (`WaitTest`, `Sleep`, `ReadTest`, `Fetch`,
`Unlap`, `Handle`, `Consume`) follow the lines of `QBufPipe_WriteCmd`, `Finish`, `Wait` and
`ReadCmds`. Sizes are counted in ints, since every command is a whole number of them. What the
buffer holds before it is written is junk, as malloc leaves it. `cmdbuf_len` is atomic in
the code, so the model is sequentially consistent. `Timed` says whether a wait has a limit,
`Spurious` whether a condition variable may wake by itself, as POSIX allows. `blockWrite` is
arbitrary in `Init`: both kinds of pipe are checked at once.

`SizeAssumption` asks that a command be no longer than half the buffer, which holds for all users:
a longer one may fit at no time when the free space is split by the end of the buffer.

### ReliablePipe

`EnqueueMatchReport`, `SignalForTermination`, `JoinThreads` are the server's thread; `WriterLoop` ..
`WriterCommit` the writer's, `SenderLoop` .. `SenderCommit` the sender's, each step ending where another
thread, the database or the service may act. `txn` is the database as the holder of the exclusive lock
sees it and `db` what survives a crash. A statement, a commit or a request may fail where the code
handles its failure; `Crash` ends the process, and `PushAgain` is the fatal error of
`LocalReliableStorage::Push` about a report that has an id already. The pipe is the sequence
that `CommandQueue` promises. The service and the database are outside the repository and are modelled
from what the code expects of them (marked external).

Left out: the contents of reports, the wait of 72 ms between attempts and the sender's sleep, whose
lengths matter for fairness only (section 4).

### Snapshots

`SV_SendClientDatagram` is a frame of the server for one client: `SNAP_BuildClientFrameSnap` (the entities
go into the ring that all clients share), `SNAP_WriteFrameSnapToClient` (which frame it is a delta of,
`OldFrame`; which game commands go with it, `DueCommands`) and the sending, which may fail on its way.
`CL_ParseFrame` is `SNAP_ParseFrame` with the client's decision whether the frame can be used,
`CL_Frame` is `CL_UpdateSnapshot` and the client game's execution of the commands, `CL_WriteUcmdsToMessage`
acknowledges, and the server's `SV_ParseMoveCommand` reads that. `SV_NoDelta_f` and `CG_Precache` are the two
ways of asking for a whole frame. Which entities a client is to see is chosen freely from `Worlds`;
what other clients' frames take of the shared ring is chosen from `OtherTakes`.

`SNAP_EmitPacketEntities` and `SNAP_ParsePacketEntities` merge two lists in order of their numbers, as the code
does; `EmitTurn` and `ParseTurn` are one turn of their loops, in which `None` (9999) stands for the number of an entity when a list has
ended. The loops over lists are recursive functions of the number of turns, and so is `Only`, which picks elements of a
sequence, so that proofs can reason about them. `Sent` is what shadowing makes of an entity in a message.
An entity's state is one value: coding it field by field is left out. So are player states and the
match state, which are compressed against the same frame; culling, which is geometry; and several points of view
in a frame, which only a server's own recording has. `Flood` says that commands may not fit, `Reliable`
that the client's connection resends by itself. Any number of frames may come in while one waits to be shown, so that the slot of
the frame that waits may hold another one by then. `executed` is history: each command that the client executed, with
the frame that it meant to show and the frame that the command came with.

### UserCommands

`CL_CreateNewUserCommand` makes a move in the ring, `CL_WriteUcmdsToMessage` sends those not acknowledged
(`FirstMove`), `SV_ParseMoveCommand` stores them, `SV_RunGameFrame` executes those that are due
(`SV_FindNextUserCommand`, `SV_ExecuteClientThinks`) and sends a frame with the number of the last one.
`CGame` is a frame of the client game: `CG_NewFrameSnap` and `CG_PredictMovement`, which goes on from the
prediction it saved (`cg_predict_optimize`) or replays all moves since the frame. What a move does to a player is
left out: a predicted player is the frame that it starts from with the moves applied to it (`PredictedUpTo`).

`made` and `frozen` are history: when each move was made, and the moves that may have been given up for a
reason that the code has, namely a clock that was set back or a move older than `Lag`.

### Connections

A machine is an address (its host) with a game port; `Placements` says which machines share an address.
`SVC_GetChallenge`, `SVC_DirectConnect` (with `SV_ClientConnect`, `TooMany` for `sv_iplimit`, `SlotToReuse`, `SlotFor`
with the bots that make room), `SVC_FakeConnect` (a bot enters), `DropClient`, `SV_New_f`, `SV_Begin_f`, and in
`Tick` the server's `SV_CheckTimeouts` with the zombies. The client's part is `CL_Connect`, `CL_CheckForResend`,
`ClientReceive` (the replies `challenge`, `client_connect`, `reject`), `CL_Timeout` and `CL_Disconnect`. `playing` is what
the game module was told of. A packet may be lost, doubled, or come late; `Delayed` packets are those that took longer
than a tick. `spent` remembers the challenges that were used, for `NoReplay`.

Passwords and bans may be set at any time (`ChangePassword`). A refused reconnect then clears the slot of a client without
telling the game module (`server/sv_client.cpp:99`): `abandoned` is history and has the slots whose players were left behind this way
until the slot is given away. `GameKnows` says that there is no other difference between the game's players and the server's.

Left out: the traffic on a connection (`ReliableCommands`), info and status queries, master servers, rcon,
and TCP connections, which are compiled out.

### WebServer

`SV_Web_Frame` is a frame of the web server's thread in its phases: `SV_Web_Listen` accepts,
`Collect` reads the answers that came (`SV_Web_HandleOutQueryCmd`), `Monitor` and `Serve` are what select() finds and does to
each connection (`Received`, `Responded`, `Sent`, `Timeout`), `CloseDead` frees connections. `SV_Web_GameFrame` is the
main thread's handling of queries (`SV_Web_HandleInQueryCmd`), `SV_Web_Shutdown` and `Join` the end of both. A query carries
a connection, a number and a pointer to the text of the request, an answer a connection, a number and allocated contents;
contents are named after the request whose text the game module read, negatively if that text was freed by then, so that
`OwnAnswer` sees both a wrong receiver and a wrong text.

The pipes are `CommandQueue`'s sequences. They cannot fill up: each holds 0x10000 bytes, there are at most 47
connections, and a connection is followed by another one only after its request was answered or after 15 seconds.
`MaxQueries` is a bound of the model only. The game module is assumed to be loaded until `SV_Web_Shutdown`.

Left out: parsing of HTTP, files, what the game answers, and who is admitted (sessions, addresses, the limit
per address); all of these are choices in `Received` and `SV_Web_HandleInQueryCmd`.

### MatchStart

A server frame is a cycle of `phase`: commands and votes (`Commands`: `JoinTeam`, `Ready`, `NotReady`, `Disconnect`,
`VoteAllready`, `EndMatch`, `NewLevel`), `RunFrame` (the clock), `ChallengerJoins` and
`CheckStateAbort`, the gametype's rules (`ThinkRules`, which calls `StartMatch`), the fetch tasks (`CheckTasks`:
`AnswerId`, `AnswerBad`, `AnswerFails`, `RetryDue`), and `CheckMatchUuid`, which starts a task when the id is empty.
`LaunchState` and `StartMatch` together are `G_Match_LaunchState`; `CheckReadys` starts a countdown when all are ready and takes it back when somebody is not. The id of the match is the configstring that
both sides write; `continueFetch` is the flag that all tasks share.

Assumptions: no gametype's script refuses to return to the warmup, while `Refusable` names the states that it may refuse;
scripts ask for the next state when a limit is hit; the service gives each id once; the server is logged in or not for
a whole behaviour (login blocks the first frame). A unit of time is a countdown, 5 seconds. `MaxStarted` is how many fetch tasks
can be started, after which starting one fails, as it may in the code. A task refused a retry at its due time is never
freed by the code; it has no effect and is not counted.

Left out: scores, overtime and timeouts, the counting of votes, coaches, locks and invitations. They restrict who may join or when
somebody wins; here joining and winning are free choices.

## 3. Runs

| Run | Asks | Shows |
|---|---|---|
| `netchan` | Two messages one way, one the other, whole, in uneven fragments and in full ones, with any two faults: is each delivered whole, in order, once; does a fault cost only its message? | all hold |
| `handshake` | A change of level at any point, a loss, requests sent again, a window of two that overflows, a player who may leave: does the client get into the game or part; do both ends agree? | they agree; the handshake ends, unless the server was misled or the client is out of step (below) |
| `level_change` | Any three of: configstrings of two sizes that share commands, typed commands, a change of level and a loss; a ring that three typed commands overflow: do configstrings converge, is no client left in an old level, do typed commands run once and in order? | all hold, but for the cases below that the properties name: misled, out of step, overtaken, a ring that was overflowed |
| `snapshots` | Frames and acknowledgements lost, an entity that comes and goes, one that is shadowed, other clients in the shared ring: can every frame be decoded, and does it yield what the server built? | both hold |
| `game_commands` | Commands that go with every frame until acknowledged, some of which do not fit: is each executed at most once and in order? | it is, unless its frame was shown in place of one that waited |
| `user_commands` | A loss, a clock set back, moves that come too late: are moves executed once, as made, none skipped without a reason; is every move predicted? | all hold |
| `connections` | Two machines behind one address or two, bots, and three of: kicks, visits, passwords and bans, a fault (which counts for two): does who keeps trying get in; do slots stay with their owners and become free again; is no request used twice; does the game know its players? | all hold; a refused reconnect leaves a player behind, and nothing else does |
| `buf_pipe` | Both kinds of pipe whose waits have a limit: is it a queue, does every writer get to write? | both hold |
| `buf_pipe_stuck` | The same with waits without a limit: does every writer get to write? | No: the wake between the reader's test and its wait is lost, and a writer that spins for room wakes nobody |
| `match_reports` | Two reports, two failures or crashes, one restart: is a report ever forgotten, sent twice for nothing, never settled? | all hold |
| `web_server` | One connection that browsers take in turn while three queries are on their way: does an answer go to its request, is memory owned by one, does every request end? | all hold |
| `match_start` | Two players, votes, challengers, new levels, three fetches that may fail or come late: do matches start only when agreed, each with an id of its own? | all hold |

### Bounds

- `netchan`: fragments of 3 bytes and a buffer of 7 give each way that a message is cut: one packet,
  two full fragments with an empty one after them, three uneven ones that fill the buffer. Two
  messages one way are needed to mix fragments of two; two faults lose one fragment and duplicate
  or delay another. Proved for any number of faults and any lengths (section 5).
- `handshake` and `level_change`: two levels are one change; the handshake is the same whichever two
  they are. One loss is any loss at any point, with everything sent again after it. Two messages under way to the server let a
  request be sent again before it is answered, and messages of the old level be behind one of the new. Rings of 2
  are full after as many commands, so that windows overflow and wrap around; with a room of 2, strings of size 1 join a command and
  strings of size 2 do not. `handshake` has two events (a change of level and a loss) and two messages under way to the client;
  `level_change` three events of any kind and one message: a configstring, another that is put before it and one that is lost, or three
  typed commands, one more than the ring has places for. Every case that a property excepts occurs within these bounds:
  `Connects` without `OutOfStep` or without `Misled`, `ConfigCurrent` without `overtaken` and `TypedInOrder` without `RingHolds` are violated.
- `snapshots`: rings of 4 frames and 5 frames sent, so that the ring wraps and a frame is overwritten; all but
  one may be lost. Two entities, one of them shadowed, are added, changed, removed and left alone on either side of
  each other. Other clients take two entries per frame, as much as the guess `MAX_SNAP_ENTITIES` allows. All three
  properties are proved for rings and worlds of any size, the last as long as that guess is right.
- `game_commands`: two commands in a ring of two, any of which may not fit into any frame; the world stands still. Four places for
  five frames let the last be shown in place of one that waits, and its commands be executed twice.
  Proved for any number of commands, frames and losses.
- `user_commands`: rings of 4 and 5 moves, so that the ring wraps; one loss delays what is sent again; times up to 3 with a
  lag of 2 let a move come too late; the clock may be set back at any move. All four
  properties are proved for rings and times of any size and any losses.
- `connections`: two machines are needed to take each other's slot or challenge, and a table of one challenge makes them
  overwrite each other's. Two slots leave room for a bot, a zombie or the other machine. A request is sent twice before the
  user has to try again. Three acts (a kick, a password or ban, a bot, a visit by who is not keen), or one fault and one act, let a player be
  refused who connects again while he is in the game, so that he is abandoned there; the safety properties are proved for any number of acts and faults.
- `buf_pipe`: a buffer of 6 and commands of 1 to 3 ints end at every distance from the end of the
  buffer: with a mark, without room for one, and exactly at the end. Five commands and the one
  to quit write more than two laps. Its safety is proved for buffers and commands of any sizes.
- `match_reports`: two reports make one wait for the other in the pipe (room for one) and in the database.
  Two fields are one that was written and one that was not. Two faults: one that leads to a retry and one
  during it. One restart finds what the first process left.
- `web_server`: one connection is taken by any number of browsers one after the other, so that up to three queries
  of former owners are on their way when an answer comes; two connections add nothing but permutations, and the proofs
  are for a pool of any size.
- `match_start`: two players make a match of either kind, and one who leaves unmakes it. Gametypes with and without
  teams, time limits and aborts. Three fetches are a late one, the present one and a next one. Times are not
  bounded by the run but by the code (two countdowns).

`CHECK_DEADLOCK FALSE` is said where a system may stop: both ends have sent all that the bounds let them send, or
have parted; the server was stopped for good; the spinning writer of `buf_pipe_stuck`. `connections`, `match_start`
and `buf_pipe` are checked for deadlock.

### Findings beyond the runs

Met while modelling. None is a run of its own: some were confirmed by TLC with a bound or a constant changed,
others follow from reading the lines.

Channel and commands:

- A message of `MAX_MSGLEN` bytes cannot be copied out, though the comment on `Netchan_Process`
  (`qcommon/net_chan.cpp:446`) allows it: the header put back in front does not fit (579), which is fatal.
- The client's window grows to one more than its ring holds (`client/cl_main.cpp:120`, comment 118). The command that is one too
  many overwrites the oldest, and is executed under the number of that and again under its own: commands run twice or out of
  order. `TypedOnce` speaks of behaviours in which that does not happen (`RingHolds`).
- `new` is sent again every 100 ms (`client/cl_main.cpp:2368`), and each time that the server executes it the numbers start anew
  (`server/sv_client.cpp:353`). The client takes up the first numbering and discards the serverdata of the second; it then skips
  commands of the second as executed, a configstring among them. `OutOfStep` names this.
- The messages of a client that has executed more of an older numbering than the server has sent in the present one are thrown away,
  whatever else they hold (`server/sv_client.cpp:1089`). So a `new`, sent again because its answer may have been lost (comment 278),
  may never be read, and the handshake hangs for as long as both ends talk. `Connects` has `OutOfStep` among its outcomes.
- An acknowledgement of another numbering that happens to fit is believed (`server/sv_client.cpp:1089`): the server then takes
  for acknowledged what the client has not executed, and does not send it again. `Misled` names this; the properties about
  commands of the server speak of a server that was not misled.
- A short configstring may be put into an older command than the longer value before it (`server/sv_send.cpp:101`, `109`), so that
  the older value stays at the client, though changes are sent to all connected clients (`game/g_public.h:88`). `overtaken` names this.
- A dropped client's final message is sent once (`server/sv_send.cpp:440`), though a comment
  (`server/sv_main.cpp:373`) says that zombies are kept so that it can be sent again. `EndsAgree` holds by the client's timeout.
- 64 pending commands of up to 1024 characters exceed `MAX_MSGLEN` (`server/sv_send.cpp:178`).

Snapshots and moves:

- The game commands of a frame that was received, acknowledged and replaced by a newer one before it was shown are
  lost: `SNAP_ParseFrame` leaves out a command that an earlier frame carried (`qcommon/snap_read.cpp:374`), and
  `CL_UpdateSnapshot` shows the newest frame only (`client/cl_main.cpp:2245`). So `CommandsOnce` promises at most once, and no run catches what is lost.
- When frames average more than `MAX_SNAP_ENTITIES` entities the shared ring overwrites a frame that deltas are still
  made of (`server/server.h:203` calls the size a guess). `OtherTakes` excludes this, so no run says what happens then.
- A command that does not fit is passed over (`qcommon/snap_write.cpp:364`) and not sent again once a later frame is acknowledged.
- A client that gets 32 frames while it loads (`client/cl_parse.cpp:963` parses each) has the frame that waits to be shown overwritten.
  `CL_UpdateSnapshot` shows what is in the slot, a newer frame, and later that frame again under its own number: its game commands are
  executed twice (`client/cl_main.cpp:2166`). `CommandsOnce` excepts this repetition and no other.
- A condition in `client/cl_input.cpp:295` makes `cl_ucmdMaxResend` ineffective. A client clock set back by more
  than 200 ms makes the server pass over moves. Move 0 is never sent.

Connections:

- A slot taken over by a repeated request while its client is only connected is cleared without `SV_DropClient`: the
  web session and the frames kept for it are not given back, and the count of multi-view clients is not reduced.
- A reconnect that is refused, because a password or ban was set meanwhile, leaves a player in the game without a client until the slot is
  given away: `SV_ClientConnect` clears the slot before it asks (`server/sv_client.cpp:97`, 110). `GameKnows` excepts these players, as `abandoned`.
- `sv_iplimit` counts the connection that is being replaced; a reconnect that comes too soon uses up its challenge without a word; two
  machines behind one address share one challenge.

Pipes and threads:

- A request for a match report that only met the time limit sets the report aside as if it had been refused
  (`matchmaker/mm_query.cpp:64`, `283`; comment `matchmaker/mm_local_storage.h:94`).
- A failed commit leads to the fatal error about a report that is already tagged
  (`matchmaker/mm_local_storage.cpp:494`): the retry that the writer was meant to make cannot work. If a statement fails after some rows of a
  report, these are committed, and the report is sent with the fields it has.
- Web server: a query points to text that is freed with its connection (`server/sv_web.cpp:580`). The main thread, which does not know, then reads freed memory:
  what it makes of it is sent to nobody (`OwnAnswer`), but the read is undefined behaviour, which the model has as contents of no use only. An
  answer's status code is not stored; the count of connections per address counts all; an answer to HEAD for a file ends only by its timeout
  (`server/sv_web.cpp:1238`); an accepted socket is lost when the pool is full; a restart of the game module frees
  answers on their way (`server/sv_game.cpp:444`; the model assumes that it stays loaded).
- Two threads run transfers of one curl multi handle (`qcommon/wswcurl.cpp:655`).

Matches:

- The id may change during a match: the fetch of a countdown that was given up is not cancelled, a second one runs, and the
  late answer overwrites the id. `IdsKept` bounds this by one per fetch given up.
- A challenger who joins takes even a forced countdown back, though `CheckReadys` says never to stop one; without teams it is taken back
  even when nobody could join, because `JoinAnyTeam` returns true.
- A timeout called by a vote has player 0 as its caller, who alone may end it in a gametype without teams
  (`game/g_callvotes.cpp:1488`, `game/g_cmds.cpp:1173`); a vote's caller and a timeout's are inherited by whoever gets the slot.
- A task deferred and refused a retry is never freed (`matchmaker/mm_network_task.h`); a task about a client keeps a
  pointer to the slot, and its answer goes to whoever has the slot by then (`server/sv_mm.cpp:362`).

## 4. Fairness

- `ReliableCommands`: both programs run their frames over and over, so an end that can send, receive or
  parse does. Sending and receiving are strong (SF), since sending is disabled while the channel is full
  and receiving while a message is parsed, and both come back. Timeouts are strong because their
  condition comes and goes until the other end's last messages are read. The player, operator, the game and
  the network are under no obligation.
- `Connections`: programs run and packets that were not lost arrive (WF on receiving at both ends), time passes, a client that is due to
  send again does, one that is told the server's level loads it. Only `Keen` users are bound to connect again;
  faults and acts of others are bounded in number, as no user gets in who is kicked for ever. Deciding that `GetsIn` needs no more than that is the point of
  the run: a slot that counts against its host must be reclaimed first.
- `BufPipe`: each thread is scheduled (WF), and a wait that has a limit ends (WF on `TimeOut`, which only
  exists when `Timed`). Spurious wakes are never owed.
- `ReliablePipe`: each thread goes on, and the service or the time limit of `wswcurl_perform` ends a
  request (WF). `WriterBegin` and `SenderBegin` are strong: the sender sleeps for 667 ms or more
  between transactions while the writer tries every 72 ms, and the writer's transactions are short.
  `FetchNext(r)` is strong because the query picks a row with `order by random()`: a report that can be
  picked again and again is. A server need not be stopped, and `Settles` excuses a process
  that has ended, not one that runs.
- `WebServer`: the thread's frames and the server's frames go on (WF), and so does the shutdown once it waits
  for the thread. Browsers owe nothing; `Answered` holds because connections time out.
- `NetChan`, `Snapshots`, `UserCommands` and `MatchStart` have no fairness: their properties are safety properties.

## 5. Proofs

TLAPS checks the following for every value of the constants that satisfies the module's assumption about sizes,
which is named in the module and evaluated by each run. Apart from sizes, `MatchStart` assumes that a gametype does not refuse the
warmup, and `Faithful` has the hypothesis `RingLasts`. Each proof has the shape `Init => Inv`, one lemma per action for `Inv /\ [Next]_vars => Inv'`,
and the property from `Inv`. Where a model loops over data (the moves that are due, the turns of a merge), the loop is a
recursive function on the numbers of turns; what it computes is proved by taking the smallest turn at which the claim would fail
(the lemmas `Smallest` rest on the library's well-foundedness of the numbers).

- `NetChanProofs`. `TypeCorrect`: its core is the arithmetic of `FragmentLength`: fragments cut by
  dividing what is left evenly never pass the end of the message. `Intact` and `Refinement` (`Implements`) are not
  inductive, as neither says anything about packets on their way or the reassembly buffer. `Inv` adds: a sequence number stands for
  one message; each packet carries a stretch of the message of its number; the reassembly buffer
  holds the beginning of the message it is numbered for; what was delivered is a message of the other end, and
  `incomingSequence` is the newest. `LossStaysLocal` (`LossIsLocal`) needs its own invariant, `LossInv`, because it speaks of what must
  arrive: as long as nothing was overtaken, each message that lost no packet was delivered, or else what the reader has of it, its packets on their
  way and what its sender has yet to send make the message without a gap (`NoGap`), duplicates standing beside what they
  repeat.
- `BufPipeProofs`. `TypeCorrect` says that `cmdbuf_len` stays within the buffer. That is not inductive: what the reader
  takes off depends on where it is. `Inv` says how the commands not handled lie in the buffer (`Layout`): one after the other from where the
  reader is, with at most one turn to the beginning, up to where the writer is, and that `cmdbuf_len` is just what lies
  between plus what was read and not taken off. A writer that has room then never writes over what is not read.
  `QueueSafety` follows: each step is one of `CommandQueue` or none, which is the safety half of `Implements`.
- `ReliablePipeProofs`. `TypeCorrect` with the mutual exclusion of transactions; `Remembered`, `SentOnce` and `Refinement`.
  `NothingForgotten` speaks of `db` alone, but a commit replaces it by `txn`. `Inv` says what `txn` may be (`TxnInv`): `db` outside of
  transactions, `db` with the pipe's first report inserted when the writer commits, `db` without one report that the service
  has or that is set aside when the sender does; that reports in the pipe are there once and nowhere else; and that the
  writer holds a report exactly where it needs one. `SentOnce` (`CopiesCostFaults`) counts: the copies that came and the reports that
  the service has but that will be sent again (`Due`) have each cost a fault (`CopyInv`). A fault takes a report out of the sender's hands and
  into `Due`, and the next copy takes it from there.
- `ServerProofs`, on `WebServer`. `TypeCorrect` (contents have one owner, none is lost) and `OwnAnswers`. `Inv`: numbers of requests differ;
  each query or answer on its way has a number of its own; who has that number is the connection that issued it,
  still waiting (`UnderwayOwn`); an answer was made from its query's text, unless who asked is gone (`AnswersGenuine`). That a
  fresh number exists is a pigeonhole argument over `MaxQueries`.
- `ConnectionsProofs`. `TypeCorrect` (no more challenges than the table holds, none of a host twice), `OneSlot`, `GameIsTold`, `NobodyDisplaced`, `NothingReplayed`. `OneSlot` rests on what
  `SlotFor` chooses: a machine's own slot before any other. `GameIsTold` (`GameKnows`) holds whatever passwords
  and bans are set: whose slot is in use is not abandoned and plays just if spawned (`InUse`). The last needs that a challenge used is in no table
  entry while requests with it are around (`SpentInv`).
- `ServerProofs`, on `MatchStart`. `MatchTypeCorrect`, `MatchesAgreed`, `IdsAreKept`, `IdsAreFresh`. `MatchesInv` adds: a countdown that is
  not forced has everybody in a team ready (`Committed`); the id during a countdown is none or one that no match was played under
  (`UnusedId`); each task under way was given up or is the one that the flag stands for (`Accounted`); an id of the
  service's is there only when the flag is down (`FlagDown`).
- `ReliableCommandsProofs`. `TypeCorrect`: a slot that the code looks at was stored (`Filled`), and the server's numbers stay in order.
  `OwnLevelShown` (`OwnSnapshots`, the first part of `NotStranded`) rests on `LevelInv`: data in the channel are of levels that do not decrease and that the
  client and the server lie at either end of (`ComingInv`); commands name levels that the client has heard of (`SpokenInv`, `GoingInv`); and
  `disconnect` is the last that a zombie says, so that a client that left is told nothing more (`PartingInv`, `Gone`).
  `NobodyStranded` (`NotStranded`) relates both ends within one numbering (`StepInv`): numberings increase along the channel (`NumberInv`); `changing` has
  `reconnect` behind it (`Following`); a message of the current numbering begins no later than behind what the server takes
  for acknowledged and says what the window still holds (`SentInv`, `ParsedInv`); a level that was announced and left has `reconnect`
  behind it (`Recalled`, `Recalls`). What makes these inductive is `OwnAcks`: a server that was not misled takes for acknowledged only what the
  client executed in the numbering that it is in, since an acknowledgement of it that is under way was given by the client, and any other
  that is believed is what `misled` records. It is proved with the rest, so the theorem has no hypothesis.
  `InOrderAndOnce` (`TypedOnce`) looks at all that the server is still to read: the message that it parses, those in the channel, the client's
  ring (`Coming`). There a command behind a newer one has an older number (`StreamInv`): it is a copy that was sent again, or belongs to
  an older numbering. What is as old as the last command executed is known by its number while the server is in the game; after the
  numbers start anew it is not, but the server executes nothing before `begin`, and no `begin` of the level comes before such a command
  (`OldInv`). Every step moves the stream or adds the newest to its end (`Flows`). All this is for as long as the ring of the
  client has a place for each command that waits for an acknowledgement, which the property says (`RingHolds`).
- `SnapshotsProofs`. `Usable`: a frame that the server makes a delta of is one that the client had, and either has still or has
  replaced by one a whole ring newer (`Had`); a frame in the channel is less than a ring newer than the one it refers to
  (`DeltaInv`); together the client has it when it comes.
  `Once` (`CommandsOnce`): the commands that a frame at the client keeps were in no frame before it (`CarryInv`); commands of later frames
  have higher numbers (`KnownInv`); so what is shown next comes after all that was executed, whichever frames were skipped, or is
  what was executed for an older frame in whose place it was shown (`ShowInv`, `KeepInv`). How long a frame waits is not limited. `TypeCorrect` needs that and the merges: their lists hold entities of the world in order.
  `Faithful` (`ViewFaithful`) fits three facts together. A message says of each entity what became of it on the way from one list to
  another, and the reader does that to its own list (`Tells`, `EmitTells`, `ParseTells`); garbage that shadowing left in the reader's list stays where
  it may be. The record that a frame is compressed against is still whole in the ring of entities (`Recorded`). The client's
  frame of the same number is of the same world (`MadeInv`, `NewsInv`). The second holds under the hypothesis `RingLasts`: in the
  time of a frame, this client's entities and those of other clients' frames take no more than this frame's share of the ring,
  `maxclients * MAX_SNAP_ENTITIES`. That is the guess of `server/server.h:203`; without it the property is false (section 3), and the run's
  values satisfy it with equality.
- `UserCommandsProofs`. `Predicts`: the ring has the newest moves where their numbers say, and the saved prediction is the
  frame that is shown with each move up to where prediction goes on (`SavedInv`).
  `ExecutedOnceAsMade`, `SkipsNothing` and `TypeCorrect` follow from `Delivery`: a message on its way begins no later than behind
  what the server executed, unless moves were given up for a reason (`MessagesInv`, `AcksInv`); so the server's ring has each move that
  it has yet to execute, as it was made (`ServerInv`); and the times of the moves executed increase up to `UcmdTime` (`ExecutedInv`). What
  a frame executes is `ThinksFacts`: in the order of times, until nothing is due.

Only model-checked:

- Liveness (`Connects`, `EndsAgree`, `WriteReturns`, `Settles`, `GetsIn`, `Reclaimed`, `Answered`) and `CommandQueue`'s
  fairness within `BufPipe`'s `Implements`: out of the prover's reach, as ENABLED is.
- `ConfigCurrent`, within the bounds of `level_change`. Its exceptions make it true in every state of the run; that there is none other
  for every value of the constants is not proved.

## 6. What is left

The plan was: the channel, which carries everything; the commands, where the protocol is hardest; the pipes, the engine's
concurrency; match reports, its persistence; then moves, snapshots, connections, the web server and matches. All of
these are done. What could follow:

1. `ConfigCurrent` as a theorem, on top of `StepInv`, which has all of it but the order of strings within and between commands.
2. Downloads within the channel, timeouts of a match and the counting of votes: sequential bookkeeping with few orders to get
   wrong, except where section 3 names one.

## 7. Not modelled

The models stand for the parts of the code with state that several actors share, or that loss, delay and crashes reach.
That is a small share of its 300 000 lines. The rest has no such state:

- drawing, sound, fonts, cinematics, the user interface and the client game module: presentation, and file formats;
  the threads of the renderer and the sound system are fed by the pipes of `BufPipe`, whose kind of wait is a parameter there;
- collision, movement, physics, weapons and items: floating-point geometry, run by one thread in one order per frame, whose values are
  out of TLC's reach;
- artificial players: heuristics over geometry, with no protocol of their own;
- bindings of the scripting engine; the scripts themselves are not in the repository's sources of the engine and are choices in
  `MatchStart`;
- the file system, console and its variables, memory, start-up, demos, the message of the day: sequential code over files and
  strings, which tests reach;
- the client's server list and login: single requests whose answers fill lists;
- sockets, threads, the HTTP library and the database: outside the repository, modelled by what the code expects of them.

`PROJECT.json` lists each part with its reason.
