-------------------------- MODULE ReliableCommands --------------------------
(***************************************************************************)
(* Reliable commands between one client and the server, and the handshake  *)
(* that is made of them: new, serverdata, configstrings, baselines,        *)
(* precache, begin; "changing" and "reconnect" when the level changes;     *)
(* "disconnect" when either end leaves.                                    *)
(*                                                                         *)
(* Below them is the channel of NetChan: it loses messages and does no     *)
(* worse (OrderedDelivery).  A message is the sequence of what it holds,   *)
(* parsed one item at a time.  Parsing is not interrupted: the two         *)
(* programs are single-threaded and share nothing but the channel.         *)
(***************************************************************************)
EXTENDS Integers, Sequences, SequencesExt

CONSTANTS
  MAX_RELIABLE_COMMANDS,
  Reserve,          \* what SV_Configstrings_f leaves free in the window
  MAX_CONFIGSTRINGS,
  CsRoom, Sizes,    \* room for strings in a "cs" command, sizes they may have
  MaxLevels, MaxBroadcasts, MaxUserCommands, MaxLoss,
  MaxEvents,        \* of the four together
  MaxToServer, MaxToClient,   \* messages on their way, after which an end does not send
  MayQuit           \* the player may leave

Index == 0 .. MAX_CONFIGSTRINGS - 1

ASSUME SizeAssumption ==
  /\ MAX_RELIABLE_COMMANDS \in Nat \ {0} /\ Reserve \in 0 .. MAX_RELIABLE_COMMANDS
  /\ MAX_CONFIGSTRINGS \in Nat \ {0}
  /\ CsRoom \in Nat /\ Sizes \subseteq 1 .. CsRoom /\ 1 \in Sizes
  /\ MaxLevels \in Nat \ {0}
  /\ {MaxBroadcasts, MaxUserCommands, MaxLoss, MaxEvents, MaxToServer, MaxToClient} \subseteq Nat
  /\ MayQuit \in BOOLEAN

VARIABLES
  server,     \* client_t: what the server keeps for the client
  client,     \* client_static_t and client_state_t
  level,      \* svs.spawncount
  config,     \* sv.configstrings
  svInput, clInput,     \* what is left of the message that an end is parsing
  toServer, toClient,   \* messages in the channel
  \* history
  version,    \* counts the values given to configstrings
  typed,      \* counts the commands typed by the player
  executed,   \* those that the game executed
  broadcasts, losses,
  misled,     \* numberings in which the server took for acknowledged what the client
              \* had not executed
  overtaken   \* versions put before the older one that they replace
\* numbering, at both ends, is history too: each time that the server starts its
\* numbers anew, it is another numbering.

world == <<level, config, version, broadcasts, misled, overtaken>>
vars == <<server, client, world, svInput, clInput, toServer, toClient,
          typed, executed, losses>>

\* A configstring; the version tells apart the values that it is given.
NoString == [version |-> 0, size |-> 0]

\* A command.  num is the number that it was added under.
Command(kind, lev, arg, strings) ==
  [num |-> 0, kind |-> kind, level |-> lev, arg |-> arg, strings |-> strings]
Plain(kind) == Command(kind, 0, 0, <<>>)
Empty == Plain("none")
NoCommands == [i \in 0 .. MAX_RELIABLE_COMMANDS - 1 |-> Empty]
Slot(i) == i % MAX_RELIABLE_COMMANDS

\* Both ends: append a command, and list those not acknowledged. The code passes over
\* empty ones; none of these is, since each slot that is looked at was stored (TypeOK).
Store(e, cmd) ==
  LET n == e.reliableSequence + 1
  IN  [e EXCEPT !.reliableSequence = n,
                !.reliableCommands[Slot(n)] = [cmd EXCEPT !.num = n]]
Pending(e) ==
  [k \in 1 .. e.reliableSequence - e.reliableAcknowledge |->
     LET n == e.reliableAcknowledge + k
     IN  [e.reliableCommands[Slot(n)] EXCEPT !.num = n]]
Window(e) == e.reliableSequence - e.reliableAcknowledge

Init ==   \* after SV_ClientConnect and client_connect
  /\ server = [state |-> "connecting", reliableSequence |-> 0, reliableAcknowledge |-> 0,
               reliableSent |-> 0, reliableCommands |-> NoCommands,
               clientCommandExecuted |-> 0, numbering |-> 0]
  /\ client = Store([state |-> "handshake", reliableSequence |-> 0, reliableAcknowledge |-> 0,
                     reliableCommands |-> NoCommands, lastExecutedServerCommand |-> 0,
                     servercount |-> 0, configstrings |-> [i \in Index |-> NoString],
                     cgame |-> FALSE, snap |-> 0, left |-> "no", numbering |-> 0], Plain("new"))
  /\ level = 1
  /\ config = [i \in Index |-> [version |-> 1, size |-> 1]]
  /\ version = 1
  /\ svInput = <<>> /\ clInput = <<>>
  /\ toServer = <<>> /\ toClient = <<>>
  /\ typed = 0 /\ executed = <<>>
  /\ broadcasts = 0 /\ losses = 0
  /\ misled = {} /\ overtaken = {}
-----------------------------------------------------------------------------
(* Commands of the server *)

\* The window that one more command overflows.
Full(c) == Window(c) = MAX_RELIABLE_COMMANDS

\* SV_DropClient.  When even "disconnect" overflows the window, the number of
\* the command that did is skipped and "disconnect" overwrites an older one.
Dropped(c) ==
  LET d == Store(IF Full(c) THEN [c EXCEPT !.reliableSequence = @ + 1] ELSE c,
                 Plain("disconnect"))
  IN  [d EXCEPT !.state = "zombie", !.reliableSent = d.reliableSequence]

Used(cmd) == FoldLeft(LAMBDA n, s : n + s.size, 0, cmd.strings)

\* Wrong on purpose: commands that were sent already are added to.
Batches_SentToo(c, cmd) ==
  {i \in c.reliableAcknowledge + 1 .. c.reliableSequence :
     LET other == c.reliableCommands[Slot(i)]
     IN  other.kind = "cs" /\ Used(other) + Used(cmd) <= CsRoom}

\* The unsent "cs" commands that have room for one more configstring.
Batches(c, cmd) ==
  {i \in c.reliableSent + 1 .. c.reliableSequence :
     LET other == c.reliableCommands[Slot(i)]
     IN  other.kind = "cs" /\ Used(other) + Used(cmd) <= CsRoom}

\* SV_SendServerCommand and SV_AddServerCommand.
SendServerCommand(c, cmd) ==
  IF c.state = "zombie" THEN c
  ELSE IF cmd.kind = "cs" /\ Batches(c, cmd) # {} THEN
    [c EXCEPT !.reliableCommands[Slot(Max(Batches(c, cmd)))].strings = @ \o cmd.strings]
  ELSE IF Full(c) THEN Dropped(c)
  ELSE Store(c, cmd)

Cs(i) == Command("cs", 0, 0,
                 <<[index |-> i, version |-> config[i].version, size |-> config[i].size]>>)

\* Wrong on purpose: what was sent once is not sent again.
Message_OnlyUnsent(c, items) ==
  [ack |-> c.clientCommandExecuted,
   items |-> SelectSeq(Pending(c), LAMBDA cmd : cmd.num > c.reliableSent) \o items]

\* SV_InitClientMessage and SV_AddReliableCommandsToMessage.
Message(c, items) == [ack |-> c.clientCommandExecuted, items |-> Pending(c) \o items]
AllSent(c) == [c EXCEPT !.reliableSent = c.reliableSequence]

\* The server goes on with c after sending msgs; if that dropped the client,
\* SV_DropClient has sent what is pending, for the first and last time.
Serve(c, msgs) ==
  /\ server' = c
  /\ toClient' = toClient \o msgs \o
       (IF c.state = "zombie" /\ server.state # "zombie" THEN <<Message(c, <<>>)>> ELSE <<>>)

Quiet == svInput = <<>> /\ clInput = <<>>

EventsLeft == broadcasts + typed + losses + level - 1 < MaxEvents

\* SV_SendClientMessages.  A client that has not spawned is sent a message when
\* commands are pending or a second has passed; a spawned one a snapshot.
SendClientMessages ==
  /\ Quiet
  /\ server.state # "zombie"
  /\ Len(toClient) < MaxToClient
  /\ Serve(AllSent(server),
           <<Message(server, IF server.state = "spawned"
                             THEN <<Command("frame", level, 0, <<>>)>> ELSE <<>>)>>)
  /\ UNCHANGED <<client, world, svInput, clInput, toServer, typed, executed, losses>>

\* The string is put before an older one of the same index.
Overtakes(c, cmd) ==
  /\ c.state # "zombie" /\ Batches(c, cmd) # {}
  /\ \E n \in Max(Batches(c, cmd)) + 1 .. c.reliableSequence :
       LET other == c.reliableCommands[Slot(n)]
       IN  other.kind = "cs" /\ \E j \in DOMAIN other.strings :
                                  other.strings[j].index = cmd.strings[1].index

\* PF_ConfigString: the game changes a configstring.
ConfigString == \E i \in Index, size \in Sizes :
  /\ Quiet
  /\ broadcasts < MaxBroadcasts /\ EventsLeft
  /\ broadcasts' = broadcasts + 1
  /\ version' = version + 1
  /\ config' = [config EXCEPT ![i] = [version |-> version', size |-> size]]
  /\ Serve(SendServerCommand(server, Cs(i)'), <<>>)
  /\ overtaken' = overtaken \cup (IF Overtakes(server, Cs(i)') THEN {version'} ELSE {})
  /\ UNCHANGED <<client, level, misled, svInput, clInput, toServer, typed, executed, losses>>

\* SV_Map.
Map ==
  /\ Quiet
  /\ level < MaxLevels /\ EventsLeft
  /\ level' = level + 1
  /\ version' = version + 1
  /\ config' = [i \in Index |-> [version |-> version', size |-> 1]]
  /\ LET awaiting == IF server.state = "zombie" THEN server
                     ELSE [server EXCEPT !.state = "connecting"]
         changing == SendServerCommand(awaiting, Plain("changing"))
     IN  IF changing.state = "zombie" THEN Serve(changing, <<>>)
         ELSE Serve(SendServerCommand(AllSent(changing), Plain("reconnect")),
                    <<Message(changing, <<>>)>>)
  /\ UNCHANGED <<client, misled, overtaken, svInput, clInput, toServer, typed, executed,
                 broadcasts, losses>>
-----------------------------------------------------------------------------
(* The server parses a message: SV_ParseClientMessage *)

\* Wrong on purpose: any acknowledgement is believed.
Acknowledges_Any(c, n) == TRUE

\* An acknowledgement of what was sent and not acknowledged any further.
Acknowledges(c, n) == n \in c.reliableAcknowledge .. c.reliableSent

\* The client has executed the commands up to the n-th of the server's numbering.
HasExecuted(n) ==
  \/ n = 0
  \/ client.numbering = server.numbering /\ n <= client.lastExecutedServerCommand

\* A zombie's packets are not read, and a message is not looked at any further
\* if its acknowledgement is of anything else.
ServerReceive ==
  /\ Quiet
  /\ toServer # <<>>
  /\ Len(toClient) < MaxToClient     \* the handlers answer
  /\ LET msg == Head(toServer)
     IN  IF server.state # "zombie" /\ Acknowledges(server, msg.ack)
         THEN /\ server' = [server EXCEPT !.reliableAcknowledge = msg.ack]
              /\ svInput' = msg.items
              /\ misled' = misled \cup (IF HasExecuted(msg.ack) THEN {} ELSE {server.numbering})
         ELSE UNCHANGED <<server, svInput, misled>>
  /\ toServer' = Tail(toServer)
  /\ UNCHANGED <<client, level, config, version, broadcasts, overtaken, clInput, toClient,
                 typed, executed, losses>>

\* Wrong on purpose: the last command is not taken for an old one.
Executed_OffByOne(c, cmd) == cmd.num < c.clientCommandExecuted

Executed(c, cmd) == cmd.num <= c.clientCommandExecuted

ServerSkips ==
  /\ svInput # <<>>
  /\ Executed(server, Head(svInput))
  /\ svInput' = Tail(svInput)
  /\ UNCHANGED <<server, client, world, clInput, toServer, toClient, typed, executed, losses>>

\* The next command is of this kind, and has not been executed yet.
Taking(kind) ==
  /\ svInput # <<>>
  /\ Head(svInput).kind = kind
  /\ ~Executed(server, Head(svInput))
Noted == [server EXCEPT !.clientCommandExecuted = Head(svInput).num]

\* After the handler; no more is parsed for a client that it dropped.
Handled ==
  /\ svInput' = IF server'.state = "zombie" THEN <<>> ELSE Tail(svInput)
  /\ UNCHANGED <<client, world, clInput, toServer, typed, losses>>

\* Wrong on purpose: the client's numbers do not start anew.
ResetCommandBuffers_KeepExecuted(c) ==
  [c EXCEPT !.reliableAcknowledge = 0, !.reliableSequence = 0, !.reliableSent = 0,
            !.reliableCommands = NoCommands, !.numbering = @ + 1]

ResetCommandBuffers(c) ==
  [c EXCEPT !.clientCommandExecuted = 0, !.reliableAcknowledge = 0,
            !.reliableSequence = 0, !.reliableSent = 0, !.reliableCommands = NoCommands,
            !.numbering = @ + 1]

\* SV_New_f: the message is begun before the counters are reset.
New(c) ==
  IF c.state = "spawned" THEN Serve(c, <<>>)
  ELSE LET reset == [ResetCommandBuffers(c) EXCEPT !.state = "connecting"]
       IN  Serve(reset, <<[ack |-> c.clientCommandExecuted,
                           items |-> <<Command("serverdata", level, reset.numbering, <<>>)>>]>>)
SV_New_f ==
  /\ Taking("new")
  /\ New(Noted)
  /\ Handled /\ UNCHANGED executed

\* SV_Configstrings_f.  Each turn of its loop queues a string, while the window
\* has room; the last part answers with what the client is to ask next.
StartsConnected == IF server.state = "connecting" THEN "connected" ELSE server.state
InLoop == LET cmd == Head(svInput)
          IN  /\ StartsConnected = "connected"
              /\ cmd.level = level
              /\ cmd.arg < MAX_CONFIGSTRINGS
              /\ Window(server) < MAX_RELIABLE_COMMANDS - Reserve
ConfigstringsLoop ==
  /\ Taking("configstrings")
  /\ InLoop
  /\ Serve(SendServerCommand([server EXCEPT !.state = "connected"], Cs(Head(svInput).arg)), <<>>)
  /\ svInput' = [svInput EXCEPT ![1].arg = @ + 1]
  /\ UNCHANGED <<client, world, clInput, toServer, typed, executed, losses>>
SV_Configstrings_f ==
  /\ Taking("configstrings")
  /\ ~InLoop
  /\ LET c == [Noted EXCEPT !.state = StartsConnected]
         start == Head(svInput).arg
     IN  Serve(IF c.state # "connected" THEN c
               ELSE SendServerCommand(c,
                 IF Head(svInput).level # level THEN Plain("reconnect")
                 ELSE IF start = MAX_CONFIGSTRINGS THEN Command("baselines", level, 0, <<>>)
                 ELSE Command("configstrings", level, start, <<>>)), <<>>)
  /\ Handled /\ UNCHANGED executed

\* SV_Baselines_f: the baselines of all entities fit one message.
SV_Baselines_f ==
  /\ Taking("baselines")
  /\ IF Noted.state # "connected" THEN Serve(Noted, <<>>)
     ELSE IF Head(svInput).level # level THEN New(Noted)
     ELSE LET c == SendServerCommand(Noted, Command("precache", level, 0, <<>>))
          IN  Serve(AllSent(c), <<Message(c, <<>>)>>)
  /\ Handled /\ UNCHANGED executed

SV_Begin_f ==
  /\ Taking("begin")
  /\ Serve(IF Noted.state # "connected" THEN Dropped(Noted)
           ELSE IF Head(svInput).level # level
             THEN SendServerCommand(SendServerCommand(Noted, Plain("changing")), Plain("reconnect"))
           ELSE [Noted EXCEPT !.state = "spawned"], <<>>)
  /\ Handled /\ UNCHANGED executed

SV_Disconnect_f ==
  /\ Taking("disconnect")
  /\ Serve(Dropped(Noted), <<>>)
  /\ Handled /\ UNCHANGED executed

\* A command of the game reaches the game once the client has spawned.
ClientCommand ==
  /\ Taking("typed")
  /\ Serve(Noted, <<>>)
  /\ executed' = IF Noted.state = "spawned" THEN Append(executed, Head(svInput).arg) ELSE executed
  /\ Handled

ServerParse == \/ ServerSkips \/ SV_New_f \/ ConfigstringsLoop \/ SV_Configstrings_f
               \/ SV_Baselines_f \/ SV_Begin_f \/ SV_Disconnect_f \/ ClientCommand
-----------------------------------------------------------------------------
(* Commands of the client *)

\* CL_AddReliableCommand tests the window before it adds to it.
ClientFull(k) == k.reliableSequence > k.reliableAcknowledge + MAX_RELIABLE_COMMANDS

\* Com_Error( ERR_DROP ) when it is full.
AddReliableCommand(k, cmd) ==
  IF ClientFull(k)
  THEN [k EXCEPT !.reliableAcknowledge = k.reliableSequence, !.state = "disconnected",
                 !.left = "overflow"]
  ELSE Store(k, cmd)

\* CL_ClearState and the state after it.
ClearState(k, state) ==
  [k EXCEPT !.state = state, !.reliableSequence = 0, !.reliableAcknowledge = 0,
            !.reliableCommands = NoCommands, !.lastExecutedServerCommand = 0,
            !.servercount = 0, !.configstrings = [i \in Index |-> NoString], !.snap = 0]

\* CL_SendMessagesToServer.
MessageToServer(k) == [ack |-> k.lastExecutedServerCommand, items |-> Pending(k)]

\* CL_Disconnect_SendCommand: the same command, three times.  A window that
\* they overflow is emptied.
Farewell(k) ==
  Store(IF ClientFull(k) THEN [k EXCEPT !.reliableAcknowledge = k.reliableSequence] ELSE k,
        Plain("disconnect"))
Goodbye(k) ==
  LET one == Farewell(k)
      two == Farewell(one)
  IN  <<MessageToServer(one), MessageToServer(two), MessageToServer(Farewell(two))>>

\* The client goes on with k; if that disconnected it, CL_Disconnect says so.
Become(k) ==
  IF k.state = "disconnected" /\ client.state # "disconnected"
  THEN /\ client' = ClearState(k, "disconnected")
       /\ toServer' = toServer \o Goodbye(k)
  ELSE client' = k /\ UNCHANGED toServer

Left(k, why) == IF k.state = "disconnected" THEN k
                ELSE [k EXCEPT !.state = "disconnected", !.left = why, !.cgame = FALSE]

SendMessagesToServer ==
  /\ Quiet
  /\ client.state # "disconnected"
  /\ Len(toServer) < MaxToServer
  /\ toServer' = Append(toServer, MessageToServer(client))
  /\ UNCHANGED <<server, client, world, svInput, clInput, toClient, typed, executed, losses>>

\* The player types a command for the server.
TypeCommand ==
  /\ Quiet
  /\ client.state \in {"connected", "active"}
  /\ typed < MaxUserCommands /\ EventsLeft
  /\ typed' = typed + 1
  /\ Become(AddReliableCommand(client, Command("typed", 0, typed', <<>>)))
  /\ UNCHANGED <<server, world, svInput, clInput, toClient, executed, losses>>

Quit ==
  /\ Quiet
  /\ MayQuit
  /\ Become(Left(client, "quit"))
  /\ client' # client
  /\ UNCHANGED <<server, world, svInput, clInput, toClient, typed, executed, losses>>

\* CL_AdjustServerTime: a snapshot that the game module takes ends the handshake.
AdjustServerTime ==
  /\ Quiet
  /\ client.state = "connected"
  /\ client.cgame
  /\ client.snap # 0
  /\ client' = [client EXCEPT !.state = "active"]
  /\ UNCHANGED <<server, world, svInput, clInput, toServer, toClient, typed, executed, losses>>
-----------------------------------------------------------------------------
(* The client parses a message: CL_ParseServerMessage *)

\* The acknowledgement comes first, and is believed.
ClientReceive ==
  /\ Quiet
  /\ toClient # <<>>
  /\ IF client.state = "disconnected" THEN UNCHANGED <<client, clInput>>
     ELSE /\ client' = [client EXCEPT !.reliableAcknowledge = Head(toClient).ack]
          /\ clInput' = Head(toClient).items
  /\ toClient' = Tail(toClient)
  /\ UNCHANGED <<server, world, svInput, toServer, typed, executed, losses>>

\* A command of the server has a number, other items do not.
Numbered(cmd) == cmd.kind \notin {"serverdata", "frame"}
ExecutedHere(cmd) == Numbered(cmd) /\ cmd.num <= client.lastExecutedServerCommand

ClientSkips ==
  /\ clInput # <<>>
  /\ ExecutedHere(Head(clInput))
  /\ clInput' = Tail(clInput)
  /\ UNCHANGED <<server, client, world, svInput, toServer, toClient, typed, executed, losses>>

TakingHere(kind) ==
  /\ clInput # <<>>
  /\ Head(clInput).kind = kind
  /\ ~ExecutedHere(Head(clInput))
NotedHere == IF Numbered(Head(clInput))
             THEN [client EXCEPT !.lastExecutedServerCommand = Head(clInput).num]
             ELSE client
HandledHere ==
  /\ clInput' = Tail(clInput)
  /\ UNCHANGED <<server, world, svInput, toClient, typed, executed, losses>>

\* CL_ParseServerData, if it is waited for; else the message is abandoned.
ParseServerData ==
  /\ TakingHere("serverdata")
  /\ IF client.state = "handshake"
     THEN /\ Become(AddReliableCommand(
                      [ClearState(client, "connected") EXCEPT
                         !.servercount = Head(clInput).level, !.numbering = Head(clInput).arg],
                      Command("configstrings", Head(clInput).level, 0, <<>>)))
          /\ clInput' = Tail(clInput)
     ELSE clInput' = <<>> /\ UNCHANGED <<client, toServer>>
  /\ UNCHANGED <<server, world, svInput, toClient, typed, executed, losses>>

ParseFrame ==
  /\ TakingHere("frame")
  /\ Become([client EXCEPT !.snap = Head(clInput).level])
  /\ HandledHere

\* Strings are put in their places one after the other: the last of an index stays.
With(strings, i) == {j \in DOMAIN strings : strings[j].index = i}
UpdateConfigStrings(old, strings) ==
  [i \in Index |-> IF With(strings, i) = {} THEN old[i]
                   ELSE LET s == strings[Max(With(strings, i))]
                        IN  [version |-> s.version, size |-> s.size]]
ParseConfigstringCommand ==
  /\ TakingHere("cs")
  /\ Become([NotedHere EXCEPT !.configstrings = UpdateConfigStrings(@, Head(clInput).strings)])
  /\ HandledHere

\* CL_ForwardToServer_f: "cmd configstrings" and "cmd baselines" come back.
ForwardToServer ==
  /\ TakingHere("configstrings") \/ TakingHere("baselines")
  /\ IF NotedHere.state \in {"connected", "active"}
     THEN LET k == AddReliableCommand(NotedHere, Head(clInput))
          IN  /\ Become(k)
              /\ clInput' = IF k.left = "overflow" THEN <<>> ELSE Tail(clInput)
     ELSE Become(NotedHere) /\ clInput' = Tail(clInput)
  /\ UNCHANGED <<server, world, svInput, toClient, typed, executed, losses>>

\* CL_Precache_f, with nothing to download: the game module is loaded.
Precache ==
  /\ TakingHere("precache")
  /\ IF NotedHere.state = "connected"
     THEN LET k == AddReliableCommand([NotedHere EXCEPT !.cgame = TRUE],
                                      Command("begin", Head(clInput).level, 0, <<>>))
          IN  /\ Become(k)
              /\ clInput' = IF k.left = "overflow" THEN <<>> ELSE Tail(clInput)
     ELSE Become(NotedHere) /\ clInput' = Tail(clInput)
  /\ UNCHANGED <<server, world, svInput, toClient, typed, executed, losses>>

\* CL_Changing_f.
Changing ==
  /\ TakingHere("changing")
  /\ Become([NotedHere EXCEPT !.state = "connected", !.snap = 0,
                              !.configstrings = [i \in Index |-> NoString]])
  /\ HandledHere

\* CL_ServerReconnect_f.
ServerReconnect ==
  /\ TakingHere("reconnect")
  /\ IF NotedHere.state \in {"connected", "active"}
     THEN LET k == AddReliableCommand(
                     [NotedHere EXCEPT !.state = "handshake", !.cgame = FALSE,
                                       !.configstrings = [i \in Index |-> NoString]],
                     Plain("new"))
          IN  /\ Become(k)
              /\ clInput' = IF k.left = "overflow" THEN <<>> ELSE Tail(clInput)
     ELSE Become(NotedHere) /\ clInput' = Tail(clInput)
  /\ UNCHANGED <<server, world, svInput, toClient, typed, executed, losses>>

\* CL_ServerDisconnect_f: CL_Disconnect clears the counters, and the rest of the
\* message is parsed all the same.
ServerDisconnect ==
  /\ TakingHere("disconnect")
  /\ Become(Left(NotedHere, "closed"))
  /\ HandledHere

ClientParse == \/ ClientSkips \/ ParseServerData \/ ParseFrame \/ ParseConfigstringCommand
               \/ ForwardToServer \/ Precache \/ Changing \/ ServerReconnect \/ ServerDisconnect
-----------------------------------------------------------------------------
(* The channel and the clock *)

LoseToServer ==
  /\ toServer # <<>> /\ losses < MaxLoss /\ EventsLeft
  /\ losses' = losses + 1
  /\ toServer' = Tail(toServer)
  /\ UNCHANGED <<server, client, world, svInput, clInput, toClient, typed, executed>>
LoseToClient ==
  /\ toClient # <<>> /\ losses < MaxLoss /\ EventsLeft
  /\ losses' = losses + 1
  /\ toClient' = Tail(toClient)
  /\ UNCHANGED <<server, client, world, svInput, clInput, toServer, typed, executed>>

\* Wrong on purpose: the server times clients out in the game only.
ServerListens_Spawned == server.state = "spawned"

\* SV_CheckTimeouts and the end of CL_ReadPackets.  The timeouts are longer than
\* losses are: an end times out only when the other has stopped talking.
ServerListens == server.state # "zombie"
ClientListens == client.state # "disconnected"
ServerTimeout ==
  /\ Quiet
  /\ client.state = "disconnected" /\ toServer = <<>>
  /\ ServerListens
  /\ Serve(Dropped(server), <<>>)
  /\ UNCHANGED <<client, world, svInput, clInput, toServer, typed, executed, losses>>
ClientTimeout ==
  /\ Quiet
  /\ server.state = "zombie" /\ toClient = <<>>
  /\ ClientListens
  /\ Become(Left(client, "timeout"))
  /\ UNCHANGED <<server, world, svInput, clInput, toClient, typed, executed, losses>>
-----------------------------------------------------------------------------
Next ==
  \/ SendClientMessages \/ ConfigString \/ Map \/ ServerReceive \/ ServerParse
  \/ SendMessagesToServer \/ TypeCommand \/ Quit \/ AdjustServerTime
  \/ ClientReceive \/ ClientParse
  \/ LoseToServer \/ LoseToClient \/ ServerTimeout \/ ClientTimeout

\* Both programs run their frames over and over: they send, receive and parse.
\* What the player, the game and the network do is left open.
Fairness ==
  /\ SF_vars(SendClientMessages) /\ SF_vars(ServerReceive) /\ WF_vars(ServerParse)
  /\ SF_vars(SendMessagesToServer) /\ SF_vars(ClientReceive) /\ WF_vars(ClientParse)
  /\ SF_vars(AdjustServerTime) /\ SF_vars(ServerTimeout) /\ SF_vars(ClientTimeout)

Safety == Init /\ [][Next]_vars
Spec == Safety /\ Fairness
-----------------------------------------------------------------------------
(* Properties *)

Kinds == {"new", "configstrings", "baselines", "begin", "disconnect", "typed", "cs",
          "precache", "changing", "reconnect", "serverdata", "frame"}
TypeOK ==
  /\ server.state \in {"zombie", "connecting", "connected", "spawned"}
  /\ client.state \in {"disconnected", "handshake", "connected", "active"}
  /\ client.left \in {"no", "closed", "quit", "timeout", "overflow"}
  /\ server.reliableAcknowledge <= server.reliableSent
  /\ server.reliableSent <= server.reliableSequence
  /\ \A i \in DOMAIN svInput : svInput[i].kind \in Kinds
  /\ \A i \in DOMAIN clInput : clInput[i].kind \in Kinds
  /\ level \in 1 .. MaxLevels
  /\ DOMAIN config = Index

\* The client has taken up the server's numbering.
InStep == client.numbering = server.numbering

\* In this numbering the server, which judges an acknowledgement by its value alone,
\* has believed one of another numbering, and may not send again what the client lacks.
Misled == server.numbering \in misled

\* Configstrings converge: a client in the game that has executed every command has
\* each string that the server has (g_public.h: the current ones are sent to clients
\* when they connect, and changes to all connected clients).  Three cases, in which the
\* code breaks that promise, are excepted: the client is out of step, as SV_New_f was
\* executed again after the client had taken up the numbering before; the server was
\* misled; SV_AddServerCommand put the value into a command before the one that holds
\* the value it replaces.
ConfigCurrent ==
  /\ server.state = "spawned"
  /\ client.state \in {"connected", "active"}
  /\ Quiet /\ InStep /\ ~Misled
  /\ client.lastExecutedServerCommand = server.reliableSequence
  => \A i \in Index : client.configstrings[i] = config[i] \/ config[i].version \in overtaken

\* A client in the game shows snapshots of the level that it has loaded.
OwnSnapshots == client.state = "active" => client.snap = client.servercount

\* A client in step that holds the data of a level which the server has left has
\* "reconnect" ahead of it, among what the server still sends: however the change of
\* level crosses the handshake, losses and a second "new", it is not stranded, unless
\* the server was misled; and it shows snapshots of its own level only.
NotStranded ==
  /\ OwnSnapshots
  /\ (/\ client.state \in {"connected", "active"}
      /\ client.servercount # level
      /\ InStep /\ ~Misled
      /\ server.state # "zombie")
     => \E n \in client.lastExecutedServerCommand + 1 .. server.reliableSequence :
          /\ server.reliableAcknowledge < n
          /\ server.reliableCommands[Slot(n)].kind = "reconnect"

\* Commands of the player are executed in the order typed, each at most once, although
\* they are sent again and the numbers start anew: unless the ring of the client once
\* held more than it has slots, which CL_AddReliableCommand's test lets happen.
TypedInOrder == \A i, j \in DOMAIN executed : i < j => executed[i] < executed[j]
RingHolds == Window(client) <= MAX_RELIABLE_COMMANDS
TypedOnce == []RingHolds => []TypedInOrder

\* The handshake ends, and ends again after a change of level, with the client in the
\* game, unless one end leaves, the server was misled, or the client has executed
\* commands of a numbering that the server, having had "new" executed again, has
\* abandoned: the serverdata of the other one is then discarded by the client.
OutOfStep == ~InStep /\ client.lastExecutedServerCommand # 0
Connects == <>[](\/ client.state = "active" /\ server.state = "spawned"
                 \/ client.state = "disconnected"
                 \/ OutOfStep \/ Misled)

\* If one end leaves, the other does not stay.
EndsAgree == <>[](server.state = "zombie" <=> client.state = "disconnected")
=============================================================================
