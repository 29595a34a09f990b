---------------------- MODULE ReliableCommandsProofs ----------------------
(***************************************************************************)
(* Proofs about ReliableCommands, for windows, levels, configstrings and   *)
(* typed commands of any number, and any number of losses.                 *)
(*                                                                         *)
(* TypeInv: the fields are of their types, and every number that was given *)
(* out has a slot that something was stored in.  It gives TypeOK.          *)
(*                                                                         *)
(* LevelInv: levels do not decrease along the channel; "disconnect" is the *)
(* last that a zombie says.  It gives OwnSnapshots.                        *)
(*                                                                         *)
(* StepInv: what the server stored, what is on its way and what the client *)
(* executed fit together within one numbering, and the server, unless      *)
(* misled, believes only acknowledgements that the client gave in it       *)
(* (OwnAcks).  It gives NotStranded.                                       *)
(*                                                                         *)
(* TypedInv: in what the server is still to read, a command that comes     *)
(* behind a newer one has an older number, and what is as old as the last  *)
(* executed is known by its number or comes before the next "begin".  It   *)
(* holds for as long as the client's ring holds what it waits for          *)
(* (RingHolds), and gives TypedOnce.                                       *)
(***************************************************************************)
EXTENDS ReliableCommands, WellFoundedInduction, NaturalsInduction, TLAPS

(* What the variables hold. *)

ServerKinds == {"cs", "configstrings", "baselines", "precache", "changing", "reconnect",
                "disconnect"}
ClientKinds == {"new", "configstrings", "baselines", "begin", "disconnect", "typed"}
DataKinds == {"serverdata", "frame"}
Slots == 0 .. MAX_RELIABLE_COMMANDS - 1

Values == [version : Nat, size : Nat]
Strings == [index : Index, version : Nat, size : Nat]
Commands(kinds) == [num : Nat, kind : kinds, level : Nat, arg : Nat, strings : Seq(Strings)]
Messages(kinds) == [ack : Nat, items : Seq(Commands(kinds))]
StringTables == [Index -> Values]
Rings(kinds) == [Slots -> Commands(kinds \cup {"none"})]

Servers == [state : {"zombie", "connecting", "connected", "spawned"},
            reliableSequence : Nat, reliableAcknowledge : Nat, reliableSent : Nat,
            reliableCommands : Rings(ServerKinds), clientCommandExecuted : Nat, numbering : Nat]
Clients == [state : {"disconnected", "handshake", "connected", "active"},
            reliableSequence : Nat, reliableAcknowledge : Nat,
            reliableCommands : Rings(ClientKinds), lastExecutedServerCommand : Nat,
            servercount : Nat, configstrings : StringTables, cgame : BOOLEAN, snap : Nat,
            left : {"no", "closed", "quit", "timeout", "overflow"}, numbering : Nat]

\* Every number that was given out has a slot that something was stored in.
Filled(e) == \A n \in 1 .. e.reliableSequence : e.reliableCommands[Slot(n)].kind # "none"
Ordered(c) == c.reliableAcknowledge <= c.reliableSent /\ c.reliableSent <= c.reliableSequence
GoodServer(c) == c \in Servers /\ Filled(c) /\ Ordered(c)
GoodClient(k) == k \in Clients /\ Filled(k)

ToClient == Messages(ServerKinds \cup DataKinds)
ToServer == Messages(ClientKinds)
TypeInv ==
  /\ GoodServer(server) /\ GoodClient(client)
  /\ level \in 1 .. MaxLevels /\ config \in [Index -> Values] /\ version \in Nat
  /\ svInput \in Seq(Commands(ClientKinds))
  /\ clInput \in Seq(Commands(ServerKinds \cup DataKinds))
  /\ toServer \in Seq(ToServer) /\ toClient \in Seq(ToClient)
  /\ typed \in Nat /\ executed \in Seq(Nat) /\ broadcasts \in Nat /\ losses \in Nat

(* Levels. *)

IsData(x) == x.kind \in DataKinds

\* No serverdata and no frame.
NoData(items) == \A j \in 1 .. Len(items) : ~IsData(items[j])
Parts(items) == \E j \in 1 .. Len(items) : items[j].kind = "disconnect"

\* The farewell is what a zombie says last, and it is asked nothing more.
PartingInv ==
  /\ \A s \in Slots : server.reliableCommands[s].kind = "disconnect" => server.state = "zombie"
  /\ \A i \in 1 .. Len(toClient) : Parts(toClient[i].items) =>
       server.state = "zombie" /\ \A j \in i .. Len(toClient) : NoData(toClient[j].items)
  /\ Parts(clInput) =>
       /\ server.state = "zombie" /\ NoData(clInput)
       /\ \A j \in 1 .. Len(toClient) : NoData(toClient[j].items)
  /\ server.state = "zombie" /\ svInput # <<>> =>
       svInput[1].kind = "configstrings" /\ ~Executed(server, svInput[1])

\* The level that the client has heard of; the last one, for a client that left.
Known == IF client.left = "no" THEN client.servercount ELSE level
\* Commands and frames are of a level up to this.
Heard(items, lev) == \A j \in 1 .. Len(items) : items[j].kind # "serverdata" => items[j].level <= lev
SpokenInv ==
  /\ \A s \in Slots : server.reliableCommands[s].level <= Known
  /\ Heard(clInput, Known)
  /\ \A i \in 1 .. Len(toClient) : Heard(toClient[i].items, Known)
  /\ server.state = "spawned" => level <= Known
GoingInv ==
  /\ \A s \in Slots : client.reliableCommands[s].level <= Known
  /\ \A i \in 1 .. Len(toServer) : Heard(toServer[i].items, Known)
  /\ Heard(svInput, Known)

\* Data come last in a message, and are of a level between these.
DataWithin(items, low, high) == \A j \in 1 .. Len(items) :
  IsData(items[j]) => j = Len(items) /\ low <= items[j].level /\ items[j].level <= high
\* Levels do not decrease from one message to the other.
DataOrdered(items, others) == \A i \in 1 .. Len(items), j \in 1 .. Len(others) :
  IsData(items[i]) /\ IsData(others[j]) => items[i].level <= others[j].level
ComingInv ==
  /\ DataWithin(clInput, client.servercount, level)
  /\ \A i \in 1 .. Len(toClient) :
       /\ DataWithin(toClient[i].items, client.servercount, level)
       /\ DataOrdered(clInput, toClient[i].items)
       /\ \A j \in i + 1 .. Len(toClient) : DataOrdered(toClient[i].items, toClient[j].items)

\* The client left; it may come back to life while it parses the message that told
\* it to leave, but gets no further.
Gone ==
  /\ client.snap = 0 /\ client.state # "active"
  /\ \/ /\ server.state = "zombie"
        /\ NoData(clInput) /\ \A i \in 1 .. Len(toClient) : NoData(toClient[i].items)
     \/ client.state = "disconnected" /\ clInput = <<>>

LevelInv ==
  /\ PartingInv /\ SpokenInv /\ GoingInv
  /\ client.servercount <= level
  /\ IF client.left = "no"
     THEN /\ ComingInv
          /\ client.state # "disconnected"
          /\ client.snap \in {0, client.servercount}
          /\ client.state = "active" => client.snap = client.servercount
     ELSE Gone

(* Numberings. *)

\* A serverdata is alone in its message, and is of a numbering between these.
NumbersWithin(items, low, high) == \A j \in 1 .. Len(items) : items[j].kind = "serverdata" =>
  Len(items) = 1 /\ low < items[j].arg /\ items[j].arg <= high
\* Numberings increase from one message to the other.
NumbersOrdered(items, others) == \A i \in 1 .. Len(items), j \in 1 .. Len(others) :
  items[i].kind = "serverdata" /\ others[j].kind = "serverdata" => items[i].arg < others[j].arg
NumberInv ==
  /\ client.numbering <= server.numbering
  /\ NumbersWithin(clInput, client.numbering, server.numbering)
  /\ \A i \in 1 .. Len(toClient) :
       /\ NumbersWithin(toClient[i].items, client.numbering, server.numbering)
       /\ NumbersOrdered(clInput, toClient[i].items)
       /\ \A j \in i + 1 .. Len(toClient) : NumbersOrdered(toClient[i].items, toClient[j].items)

\* Unless it was misled, the server takes for acknowledged only commands that a client in
\* step has executed, and none before the client is in step.
OwnAcks == server.state # "zombie" /\ client.state # "disconnected" /\ ~Misled
  => IF InStep THEN server.reliableAcknowledge <= client.lastExecutedServerCommand
     ELSE server.reliableAcknowledge = 0

\* A message that starts the n-th numbering.
Announces(items, n) == Len(items) > 0 /\ items[1].kind = "serverdata" /\ items[1].arg = n
\* The client is in step when the i-th message comes, unless that one is announced after it.
Current(i) == \/ InStep \/ Announces(clInput, server.numbering)
              \/ \E j \in 1 .. i - 1 : Announces(toClient[j].items, server.numbering)

\* "changing" is followed by "reconnect".
Following(c) == \A n \in c.reliableAcknowledge + 1 .. c.reliableSequence :
  c.reliableCommands[Slot(n)].kind = "changing" =>
    n + 1 <= c.reliableSequence /\ c.reliableCommands[Slot(n + 1)].kind = "reconnect"
\* The commands of a message were sent, and those not acknowledged are still in the window.
AsStored(c, items) == \A j \in 1 .. Len(items) : ~IsData(items[j]) =>
  /\ items[j].num <= c.reliableSent
  /\ c.reliableAcknowledge < items[j].num =>
       items[j].kind = c.reliableCommands[Slot(items[j].num)].kind
Consecutive(items) == \A j \in 1 .. Len(items) - 1 :
  ~IsData(items[j]) /\ (~IsData(items[j + 1]) => items[j + 1].num = items[j].num + 1)
\* No command after the n-th is missing before these.
Follows(items, n) == Len(items) > 0 /\ ~IsData(items[1]) => items[1].num <= n + 1
\* "reconnect" comes after the n-th command.
Ahead(c, n) == \E m \in n + 1 .. c.reliableSequence : c.reliableCommands[Slot(m)].kind = "reconnect"
\* A level that was left is announced with "reconnect" behind it.
Recalled(items) ==
  Announces(items, server.numbering) /\ server.reliableAcknowledge = 0 /\ items[1].level # level
  => Ahead(server, 0)

Recalls ==
  /\ client.state \in {"connected", "active"}
  /\ client.servercount # level
  /\ InStep /\ ~Misled
  => Ahead(server, client.lastExecutedServerCommand)
SentInv(i) ==
  /\ Consecutive(toClient[i].items)
  /\ Current(i) => /\ Follows(toClient[i].items, server.reliableAcknowledge)
                   /\ AsStored(server, toClient[i].items)
  /\ Recalled(toClient[i].items)
ParsedInv ==
  /\ Consecutive(clInput)
  /\ Recalled(clInput)
  /\ InStep => /\ AsStored(server, clInput)
               /\ ~Misled => Follows(clInput, client.lastExecutedServerCommand)
               /\ client.lastExecutedServerCommand <= server.reliableSent
StepInv ==
  server.state # "zombie" =>
    /\ NumberInv
    /\ Window(server) <= MAX_RELIABLE_COMMANDS /\ Following(server)
    /\ ParsedInv
    /\ \A i \in 1 .. Len(toClient) : SentInv(i)
    /\ Recalls

(* Typed commands. *)

\* Each of the last numbers has its own command in the ring.
OwnNumbers(k) ==
  /\ \A n \in 1 .. k.reliableSequence : k.reliableSequence - MAX_RELIABLE_COMMANDS < n =>
       k.reliableCommands[Slot(n)].num = n
  /\ \A s \in Slots : k.reliableCommands[s].num <= k.reliableSequence

ItemsOf(s) == {s[j] : j \in 1 .. Len(s)}
\* What the server is still to read: 0 is the message that it is parsing, then come those
\* in the channel, and last what the client may send.
Rank == 0 .. Len(toServer) + 1
Coming(i) == IF i = 0 THEN ItemsOf(svInput)
             ELSE IF i <= Len(toServer) THEN ItemsOf(toServer[i].items)
             ELSE {client.reliableCommands[s] : s \in Slots}
LastExecuted == IF executed = <<>> THEN 0 ELSE executed[Len(executed)]
Old(x) == x.kind = "typed" /\ x.arg <= LastExecuted

RunInv ==
  /\ \A i \in 1 .. Len(executed) : executed[i] <= LastExecuted
  /\ LastExecuted <= typed
  /\ TypedInOrder
\* A command that comes later in the stream than a newer one, comes under an older number.
StreamInv ==
  /\ \A i \in Rank : \A x \in Coming(i) : x.kind = "typed" => x.arg <= typed
  /\ \A i \in Rank : \A j \in i .. Len(toServer) + 1 : \A y \in Coming(i), x \in Coming(j) :
       y.kind = "typed" /\ x.kind = "typed" /\ x.arg <= y.arg => x.num <= y.num
\* The server knows an old command by its number once the client has spawned; before
\* that it does not execute commands, and no "begin" of its level comes before old ones.
OldInv ==
  /\ server.state = "spawned" =>
       \A j \in Rank : \A x \in Coming(j) : Old(x) => Executed(server, x)
  /\ server.state \in {"connecting", "connected"} =>
       \A j \in Rank : \A x \in Coming(j) : Old(x) =>
         /\ \A i \in 0 .. j : \A b \in Coming(i) : b.kind = "begin" => b.level < level
         /\ j > Len(toServer) => client.servercount < level
TypedInv == OwnNumbers(client) /\ RunInv /\ StreamInv /\ OldInv
-----------------------------------------------------------------------------
(* Rings and sequences *)

\* A number's slot is in the ring.
LEMMA SlotType ==
  ASSUME NEW n \in Int
  PROVE  Slot(n) \in Slots /\ \E q \in Int : n = MAX_RELIABLE_COMMANDS * q + Slot(n)
<1>. DEFINE N == MAX_RELIABLE_COMMANDS
<1>0. N \in Nat \ {0}
  BY SizeAssumption
<1>. HIDE DEF N
<1>1. n % N \in 0 .. N - 1 /\ n \div N \in Int
  BY <1>0
<1>2. n = N * (n \div N) + (n % N)
  BY <1>0
<1>. QED BY <1>1, <1>2 DEF N, Slot, Slots

\* Numbers less than a ring apart have different slots.
LEMMA SlotApart ==
  ASSUME NEW a \in Int, NEW b \in Int, a < b, b < a + MAX_RELIABLE_COMMANDS
  PROVE  Slot(a) # Slot(b)
<1>. DEFINE N == MAX_RELIABLE_COMMANDS
<1>0. N \in Nat \ {0}
  BY SizeAssumption
<1>1. SUFFICES ASSUME Slot(a) = Slot(b) PROVE FALSE
  OBVIOUS
<1>2. PICK p \in Int : a = N * p + Slot(a)
  BY SlotType
<1>3. PICK q \in Int : b = N * q + Slot(b)
  BY SlotType
<1>4. Slot(a) \in Int
  BY SlotType, <1>0 DEF Slots
<1>5. b < a + N
  OBVIOUS
<1>. HIDE DEF N
<1>6. b - a = N * (q - p)
  BY <1>0, <1>1, <1>2, <1>3, <1>4
<1>7. q - p >= 1 => N * (q - p) >= N
  BY <1>0
<1>8. q - p <= 0 => N * (q - p) <= 0
  BY <1>0
<1>. QED BY <1>0, <1>5, <1>6, <1>7, <1>8

\* Numbers a ring apart have the same slot.
LEMMA SlotAround ==
  ASSUME NEW a \in Int
  PROVE  Slot(a + MAX_RELIABLE_COMMANDS) = Slot(a)
<1>. DEFINE N == MAX_RELIABLE_COMMANDS
            b == a + N
            s == Slot(a)
            t == Slot(b)
<1>0. N \in Nat \ {0} /\ b \in Int
  BY SizeAssumption
<1>1. PICK p \in Int : a = N * p + s
  BY SlotType
<1>. HIDE DEF b
<1>2. PICK q \in Int : b = N * q + t
  BY <1>0, SlotType
<1>3. s \in 0 .. N - 1 /\ t \in 0 .. N - 1
  BY <1>0, SlotType DEF Slots
<1>. HIDE DEF N, s, t
<1>4. b = a + N
  BY DEF b, N
<1>5. N * (q - p - 1) = s - t
  BY <1>0, <1>1, <1>2, <1>3, <1>4
<1>6. q - p - 1 >= 1 => N * (q - p - 1) >= N
  BY <1>0
<1>7. q - p - 1 <= -1 => N * (q - p - 1) <= -N
  BY <1>0
<1>8. q - p - 1 = 0 => N * (q - p - 1) = 0
  BY <1>0
<1>9. s = t
  BY <1>0, <1>3, <1>5, <1>6, <1>7, <1>8
<1>. QED BY <1>9 DEF s, t, b, N

\* A set of numbers up to n has a greatest one.
LEMMA Greatest ==
  ASSUME NEW n \in Nat, NEW S \in SUBSET (1 .. n), S # {}
  PROVE  Max(S) \in S /\ \A y \in S : Max(S) >= y
<1>. DEFINE T == {n - s : s \in S}
<1>1. T \in SUBSET Nat /\ T # {}
  <2>1. \A s \in S : n - s \in Nat
    OBVIOUS
  <2>2. PICK s \in S : TRUE
    OBVIOUS
  <2>3. n - s \in T
    OBVIOUS
  <2>. QED BY <2>1, <2>3
<1>2. PICK x \in T : \A y \in T : ~(<<y, x>> \in OpToRel(<, Nat))
  BY <1>1, NatLessThanWellFounded, WFMin, Zenon
<1>3. \A a, b \in Nat : a < b => <<a, b>> \in OpToRel(<, Nat)
  BY DEF OpToRel
<1>4. PICK u \in S : x = n - u
  OBVIOUS
<1>5. \A s \in S : n - s \in T /\ n - s \in Nat
  BY <1>1
<1>6. \A s \in S : ~(n - s < x)
  BY <1>1, <1>2, <1>3, <1>5
<1>7. \A s \in S : u >= s
  BY <1>4, <1>6
<1>. QED BY <1>7 DEF Max

\* What taking one off a sequence leaves.
LEMMA TailFacts ==
  ASSUME NEW S, NEW s \in Seq(S), s # <<>>
  PROVE  /\ Tail(s) \in Seq(S) /\ Len(Tail(s)) = Len(s) - 1 /\ Len(s) \in Nat \ {0}
         /\ Head(s) = s[1] /\ s[1] \in S
         /\ \A i \in 1 .. Len(s) - 1 : Tail(s)[i] = s[i + 1]
OBVIOUS

\* What is in two sequences put together.
LEMMA ConcatFacts ==
  ASSUME NEW S, NEW s \in Seq(S), NEW t \in Seq(S)
  PROVE  /\ s \o t \in Seq(S) /\ Len(s \o t) = Len(s) + Len(t)
         /\ \A i \in 1 .. Len(s) : (s \o t)[i] = s[i]
         /\ \A i \in 1 .. Len(t) : (s \o t)[Len(s) + i] = t[i]
         /\ \A i \in 1 .. Len(s \o t) : i \in 1 .. Len(s) \/ i - Len(s) \in 1 .. Len(t)
OBVIOUS

-----------------------------------------------------------------------------
(* Both ends' commands *)

\* What Store does to the server's commands.
LEMMA StoreServer ==
  ASSUME NEW c \in Servers, Filled(c), Ordered(c), NEW cmd \in Commands(ServerKinds)
  PROVE  LET n == c.reliableSequence + 1
         IN  /\ Store(c, cmd) = [c EXCEPT !.reliableSequence = n,
                                  !.reliableCommands = [c.reliableCommands EXCEPT ![Slot(n)] = [cmd EXCEPT !.num = n]]]
             /\ GoodServer(Store(c, cmd))
<1>. DEFINE n == c.reliableSequence + 1
            new == [cmd EXCEPT !.num = n]
            d == Store(c, cmd)
<1>1. n \in Nat
  BY DEF Servers
<1>. HIDE DEF n
<1>2. new \in Commands(ServerKinds) /\ new.kind # "none"
  BY <1>1 DEF Commands, ServerKinds
<1>3. Slot(n) \in Slots /\ \A m \in 1 .. n : Slot(m) \in Slots
  BY <1>1, SlotType
<1>. HIDE DEF new
<1>4. d = [c EXCEPT !.reliableSequence = n, !.reliableCommands = [c.reliableCommands EXCEPT ![Slot(n)] = new]]
  BY DEF Store, Servers, n, new
<1>. HIDE DEF d
<1>5. d \in Servers
  BY <1>1, <1>2, <1>3, <1>4 DEF Servers, Rings, Commands
<1>6. Filled(d)
  <2>. SUFFICES ASSUME NEW m \in 1 .. n PROVE d.reliableCommands[Slot(m)].kind # "none"
    BY <1>1, <1>4 DEF Filled, Servers
  <2>1. CASE Slot(m) = Slot(n)
    BY <1>1, <1>2, <1>3, <1>4, <2>1 DEF Servers, Rings
  <2>2. CASE Slot(m) # Slot(n)
    <3>1. m \in 1 .. c.reliableSequence
      BY <1>1, <2>2 DEF Servers, n
    <3>. QED BY <1>1, <1>3, <1>4, <2>2, <3>1 DEF Servers, Rings, Filled
  <2>. QED BY <2>1, <2>2
<1>7. Ordered(d)
  BY <1>1, <1>4 DEF Ordered, Servers, n
<1>. QED BY <1>4, <1>5, <1>6, <1>7 DEF new, n, d, GoodServer
-----------------------------------------------------------------------------
\* What a new command is.
LEMMA CommandType ==
  ASSUME NEW kinds, NEW kind \in kinds, NEW lev \in Nat, NEW arg \in Nat, NEW strings \in Seq(Strings)
  PROVE  /\ Command(kind, lev, arg, strings) \in Commands(kinds)
         /\ Command(kind, lev, arg, strings).kind = kind
         /\ Command(kind, lev, arg, strings).level = lev
         /\ Command(kind, lev, arg, strings).arg = arg
BY DEF Command, Commands

LEMMA PlainType ==
  ASSUME NEW kinds, NEW kind \in kinds
  PROVE  /\ Plain(kind) \in Commands(kinds)
         /\ Plain(kind).kind = kind /\ Plain(kind).level = 0 /\ Plain(kind).arg = 0
<1>1. <<>> \in Seq(Strings)
  OBVIOUS
<1>. QED BY <1>1 DEF Plain, Command, Commands

\* The server's record is as it was but for a command stored behind the others.
Stores(c, cmd, d) ==
  LET n == c.reliableSequence + 1
  IN  /\ d.reliableSequence = n
      /\ d.reliableCommands = [c.reliableCommands EXCEPT ![Slot(n)] = [cmd EXCEPT !.num = n]]
      /\ d.reliableAcknowledge = c.reliableAcknowledge /\ d.reliableSent = c.reliableSent
      /\ d.state = c.state /\ d.numbering = c.numbering
      /\ d.clientCommandExecuted = c.clientCommandExecuted

\* It was added to a command that was not sent yet.
Batched(c, d) ==
  /\ \A s \in Slots : /\ d.reliableCommands[s].kind = c.reliableCommands[s].kind
                      /\ d.reliableCommands[s].level = c.reliableCommands[s].level
  /\ d.reliableSequence = c.reliableSequence
  /\ d.reliableAcknowledge = c.reliableAcknowledge /\ d.reliableSent = c.reliableSent
  /\ d.state = c.state /\ d.numbering = c.numbering
  /\ d.clientCommandExecuted = c.clientCommandExecuted

\* The client was dropped.
Drops(c, d) ==
  /\ \A s \in Slots : \/ d.reliableCommands[s] = c.reliableCommands[s]
                      \/ /\ d.reliableCommands[s].kind = "disconnect"
                         /\ d.reliableCommands[s].level = 0
  /\ d.reliableAcknowledge = c.reliableAcknowledge
  /\ d.state = "zombie" /\ d.numbering = c.numbering
  /\ d.clientCommandExecuted = c.clientCommandExecuted

LEMMA StoreIs ==
  ASSUME NEW c \in Servers, Filled(c), Ordered(c), NEW cmd \in Commands(ServerKinds)
  PROVE  Store(c, cmd) \in Servers /\ GoodServer(Store(c, cmd)) /\ Stores(c, cmd, Store(c, cmd))
<1>. DEFINE d == Store(c, cmd)
<1>1. LET n == c.reliableSequence + 1
      IN  /\ d = [c EXCEPT !.reliableSequence = n,
                    !.reliableCommands = [c.reliableCommands EXCEPT ![Slot(n)] = [cmd EXCEPT !.num = n]]]
          /\ GoodServer(d)
  BY StoreServer
<1>. HIDE DEF d
<1>2. Stores(c, cmd, d)
  BY <1>1 DEF Stores, Servers
<1>. QED BY <1>1, <1>2 DEF d, GoodServer

LEMMA DroppedIs ==
  ASSUME NEW c \in Servers, Filled(c), Ordered(c)
  PROVE  Dropped(c) \in Servers /\ GoodServer(Dropped(c)) /\ Drops(c, Dropped(c))
<1>. DEFINE e == IF Full(c) THEN [c EXCEPT !.reliableSequence = @ + 1] ELSE c
            f == Store(e, Plain("disconnect"))
            d == Dropped(c)
            n == c.reliableSequence + 1
<1>0. n \in Nat /\ c.reliableSequence \in Nat /\ c.reliableAcknowledge \in Nat /\ c.reliableSent \in Nat
      /\ c.reliableCommands \in Rings(ServerKinds)
  BY DEF Servers
<1>1. /\ e \in Servers /\ e.reliableCommands = c.reliableCommands
      /\ e.reliableAcknowledge = c.reliableAcknowledge /\ e.reliableSent = c.reliableSent
      /\ e.numbering = c.numbering /\ e.clientCommandExecuted = c.clientCommandExecuted
      /\ e.reliableSequence = IF Full(c) THEN n ELSE c.reliableSequence
  BY <1>0 DEF Servers
<1>. HIDE DEF e
<1>2. Filled(e)
  <2>1. CASE ~Full(c)
    BY <1>1, <2>1 DEF Filled
  <2>2. CASE Full(c)
    <3>1. c.reliableSequence = c.reliableAcknowledge + MAX_RELIABLE_COMMANDS
      BY <1>0, <2>2, SizeAssumption DEF Full, Window
    <3>2. c.reliableAcknowledge + 1 \in 1 .. c.reliableSequence
          /\ n = c.reliableAcknowledge + 1 + MAX_RELIABLE_COMMANDS
      BY <1>0, <3>1, SizeAssumption
    <3>3. Slot(n) = Slot(c.reliableAcknowledge + 1)
      BY <1>0, <3>2, SlotAround
    <3>4. \A m \in 1 .. n : m = n \/ m \in 1 .. c.reliableSequence
      BY <1>0
    <3>. QED BY <1>0, <1>1, <2>2, <3>2, <3>3, <3>4 DEF Filled
  <2>. QED BY <2>1, <2>2
<1>3. Ordered(e)
  BY <1>0, <1>1 DEF Ordered
<1>4. Plain("disconnect") \in Commands(ServerKinds)
      /\ Plain("disconnect").kind = "disconnect" /\ Plain("disconnect").level = 0
  BY PlainType DEF ServerKinds
<1>. DEFINE far == Plain("disconnect")
<1>. HIDE DEF far
<1>5. f \in Servers /\ GoodServer(f) /\ Stores(e, far, f)
  BY <1>1, <1>2, <1>3, <1>4, StoreIs DEF far
<1>6. far \in Commands(ServerKinds) /\ far.kind = "disconnect" /\ far.level = 0
  BY <1>4 DEF far
<1>7. d = [f EXCEPT !.state = "zombie", !.reliableSent = f.reliableSequence]
  BY DEF Dropped, e, far
<1>. HIDE DEF f, d
<1>8. /\ d \in Servers /\ d.state = "zombie" /\ d.reliableSent = f.reliableSequence
      /\ d.reliableSequence = f.reliableSequence /\ d.reliableCommands = f.reliableCommands
      /\ d.reliableAcknowledge = f.reliableAcknowledge /\ d.numbering = f.numbering
      /\ d.clientCommandExecuted = f.clientCommandExecuted
  BY <1>5, <1>7 DEF Servers
<1>9. Filled(d) /\ Ordered(d)
  <2>1. /\ Filled(f) /\ Ordered(f)
        /\ f.reliableSequence \in Nat /\ f.reliableSent \in Nat /\ f.reliableAcknowledge \in Nat
    BY <1>5 DEF GoodServer, Servers
  <2>2. Filled(d)
    BY <1>8, <2>1 DEF Filled
  <2>3. Ordered(d)
    BY <1>8, <2>1 DEF Ordered
  <2>. QED BY <2>2, <2>3
<1>10. \A s \in Slots : \/ f.reliableCommands[s] = e.reliableCommands[s]
                        \/ f.reliableCommands[s].kind = "disconnect" /\ f.reliableCommands[s].level = 0
  <2>. DEFINE r == e.reliableSequence + 1
              put == [far EXCEPT !.num = r]
  <2>1. r \in Nat
    BY <1>1 DEF Servers
  <2>2. Slot(r) \in Slots
    BY <2>1, SlotType
  <2>. HIDE DEF r
  <2>3. put.kind = "disconnect" /\ put.level = 0
    BY <1>6, <2>1 DEF Commands
  <2>. HIDE DEF put
  <2>4. f.reliableCommands = [e.reliableCommands EXCEPT ![Slot(r)] = put]
    BY <1>5 DEF Stores, r, put
  <2>5. e.reliableCommands \in [Slots -> Commands(ServerKinds \cup {"none"})]
    BY <1>0, <1>1 DEF Rings
  <2>6. \A s \in Slots : f.reliableCommands[s] = IF s = Slot(r) THEN put ELSE e.reliableCommands[s]
    BY <2>2, <2>4, <2>5
  <2>. SUFFICES ASSUME NEW s \in Slots
                PROVE  \/ f.reliableCommands[s] = e.reliableCommands[s]
                       \/ f.reliableCommands[s].kind = "disconnect" /\ f.reliableCommands[s].level = 0
    OBVIOUS
  <2>7. CASE s = Slot(r)
    <3>1. f.reliableCommands[s] = put
      BY <2>6, <2>7
    <3>. QED BY <2>3, <3>1
  <2>8. CASE s # Slot(r)
    BY <2>6, <2>8
  <2>. QED BY <2>7, <2>8
<1>11. Drops(c, d)
  BY <1>1, <1>5, <1>8, <1>10 DEF Drops, Stores
<1>. QED BY <1>8, <1>9, <1>11 DEF d, GoodServer

\* What becomes of the server's commands when one is sent: it is stored, added to an
\* older one, or drops the client; a zombie is sent nothing.
LEMMA SendIs ==
  ASSUME NEW c \in Servers, Filled(c), Ordered(c), NEW cmd \in Commands(ServerKinds)
  PROVE  LET d == SendServerCommand(c, cmd)
         IN  /\ d \in Servers /\ GoodServer(d)
             /\ c.state = "zombie" => d = c
             /\ c.state # "zombie" => \/ cmd.kind = "cs" /\ Batched(c, d)
                                      \/ Full(c) /\ Drops(c, d)
                                      \/ ~Full(c) /\ Stores(c, cmd, d)
<1>. DEFINE d == SendServerCommand(c, cmd)
            i == Max(Batches(c, cmd))
<1>1. CASE c.state = "zombie"
  BY <1>1 DEF SendServerCommand, GoodServer
<1>2. CASE c.state # "zombie" /\ cmd.kind = "cs" /\ Batches(c, cmd) # {}
  <2>1. d = [c EXCEPT !.reliableCommands[Slot(i)].strings = @ \o cmd.strings]
    BY <1>2 DEF SendServerCommand
  <2>2. Batches(c, cmd) \in SUBSET (1 .. c.reliableSequence) /\ c.reliableSequence \in Nat
    BY DEF Batches, Servers
  <2>3. i \in 1 .. c.reliableSequence
    BY <1>2, <2>2, Greatest
  <2>. DEFINE s == Slot(i)
  <2>4. s \in Slots
    BY <2>3, SlotType
  <2>. DEFINE old == c.reliableCommands[s]
              new == [old EXCEPT !.strings = old.strings \o cmd.strings]
  <2>5. old \in Commands(ServerKinds \cup {"none"}) /\ old.strings \in Seq(Strings) /\ cmd.strings \in Seq(Strings)
    BY <2>4 DEF Servers, Rings, Commands
  <2>6. new \in Commands(ServerKinds \cup {"none"}) /\ new.kind = old.kind /\ new.level = old.level
    <3>. HIDE DEF old
    <3>1. old.strings \o cmd.strings \in Seq(Strings)
      BY <2>5, ConcatFacts
    <3>. DEFINE both == old.strings \o cmd.strings
    <3>. HIDE DEF both
    <3>2. [old EXCEPT !.strings = both] \in Commands(ServerKinds \cup {"none"})
          /\ [old EXCEPT !.strings = both].kind = old.kind /\ [old EXCEPT !.strings = both].level = old.level
      BY <2>5, <3>1 DEF Commands, both
    <3>. QED BY <3>2 DEF both
  <2>7. d = [c EXCEPT !.reliableCommands = [c.reliableCommands EXCEPT ![s] = new]]
    BY <2>1, <2>4 DEF Servers, Rings, Commands
  <2>. HIDE DEF d, new, old, s
  <2>8. /\ d \in Servers /\ d.reliableCommands = [c.reliableCommands EXCEPT ![s] = new]
        /\ d.reliableSequence = c.reliableSequence
        /\ d.reliableAcknowledge = c.reliableAcknowledge /\ d.reliableSent = c.reliableSent
        /\ d.state = c.state /\ d.numbering = c.numbering
        /\ d.clientCommandExecuted = c.clientCommandExecuted
    BY <2>4, <2>6, <2>7 DEF Servers, Rings
  <2>9. \A t \in Slots : /\ d.reliableCommands[t].kind = c.reliableCommands[t].kind
                         /\ d.reliableCommands[t].level = c.reliableCommands[t].level
    BY <2>6, <2>8 DEF old, Servers, Rings
  <2>10. \A m \in 1 .. c.reliableSequence : Slot(m) \in Slots
    BY <2>2, SlotType
  <2>11. Filled(d) /\ Ordered(d)
    BY <2>8, <2>9, <2>10 DEF Filled, Ordered
  <2>. QED BY <1>2, <2>8, <2>9, <2>11 DEF d, Batched, GoodServer
<1>3. CASE c.state # "zombie" /\ ~(cmd.kind = "cs" /\ Batches(c, cmd) # {}) /\ Full(c)
  <2>1. d = Dropped(c)
    BY <1>3 DEF SendServerCommand
  <2>. QED BY <1>3, <2>1, DroppedIs
<1>4. CASE c.state # "zombie" /\ ~(cmd.kind = "cs" /\ Batches(c, cmd) # {}) /\ ~Full(c)
  <2>1. d = Store(c, cmd)
    BY <1>4 DEF SendServerCommand
  <2>. QED BY <1>4, <2>1, StoreIs
<1>. QED BY <1>1, <1>2, <1>3, <1>4

\* What a message of the server holds: its commands from the first that is not
\* acknowledged, and what was put behind them.
LEMMA MessageIs ==
  ASSUME NEW c \in Servers, Filled(c), Ordered(c),
         NEW items \in Seq(Commands(ServerKinds \cup DataKinds))
  PROVE  LET m == Message(c, items)
             w == Window(c)
         IN  /\ w \in Nat /\ m \in ToClient /\ m.ack = c.clientCommandExecuted
             /\ Len(m.items) = w + Len(items)
             /\ \A j \in 1 .. w :
                  /\ m.items[j].num = c.reliableAcknowledge + j
                  /\ m.items[j].kind = c.reliableCommands[Slot(c.reliableAcknowledge + j)].kind
                  /\ m.items[j].level = c.reliableCommands[Slot(c.reliableAcknowledge + j)].level
                  /\ m.items[j].kind \in ServerKinds
             /\ \A j \in 1 .. Len(items) : m.items[w + j] = items[j]
<1>. DEFINE m == Message(c, items)
            w == Window(c)
            p == Pending(c)
            K == Commands(ServerKinds \cup DataKinds)
            a == c.reliableAcknowledge
            item(j) == [c.reliableCommands[Slot(a + j)] EXCEPT !.num = a + j]
<1>1. w \in Nat /\ a \in Nat /\ c.reliableSequence = a + w /\ c.reliableCommands \in Rings(ServerKinds)
      /\ c.clientCommandExecuted \in Nat
  BY DEF Servers, Ordered, Window
<1>2. p = [j \in 1 .. w |-> item(j)]
  BY DEF Pending, Window
<1>. HIDE DEF w, p, a
<1>3. ASSUME NEW j \in 1 .. w
      PROVE  /\ item(j) \in Commands(ServerKinds) /\ item(j).num = a + j
             /\ item(j).kind = c.reliableCommands[Slot(a + j)].kind
             /\ item(j).level = c.reliableCommands[Slot(a + j)].level
  <2>1. a + j \in 1 .. c.reliableSequence /\ a + j \in Nat /\ a + j \in Int
    BY <1>1
  <2>2a. Slot(a + j) \in Slots
    BY <2>1, SlotType
  <2>2b. c.reliableCommands[Slot(a + j)].kind # "none"
    BY <2>1, Zenon DEF Filled
  <2>2. Slot(a + j) \in Slots /\ c.reliableCommands[Slot(a + j)].kind # "none"
    BY <2>2a, <2>2b
  <2>. DEFINE x == c.reliableCommands[Slot(a + j)]
  <2>3. x \in Commands(ServerKinds \cup {"none"}) /\ x.kind # "none"
    BY <1>1, <2>2 DEF Rings
  <2>. HIDE DEF x
  <2>4. /\ [x EXCEPT !.num = a + j] \in Commands(ServerKinds) /\ [x EXCEPT !.num = a + j].num = a + j
        /\ [x EXCEPT !.num = a + j].kind = x.kind /\ [x EXCEPT !.num = a + j].level = x.level
    BY <2>1, <2>3 DEF Commands
  <2>. QED BY <2>4 DEF x
<1>4. \A j \in 1 .. w : item(j) \in K
  BY <1>3 DEF Commands
<1>. HIDE DEF item, K, m
<1>5. p \in Seq(K) /\ Len(p) = w /\ \A j \in 1 .. w : p[j] = item(j)
  BY <1>1, <1>2, <1>4
<1>6. m.ack = c.clientCommandExecuted /\ m.items = p \o items /\ m = [ack |-> c.clientCommandExecuted, items |-> p \o items]
  BY DEF Message, p, m
<1>6a. items \in Seq(K)
  BY DEF K
<1>7. /\ p \o items \in Seq(K) /\ Len(p \o items) = w + Len(items)
      /\ \A j \in 1 .. w : (p \o items)[j] = p[j]
      /\ \A j \in 1 .. Len(items) : (p \o items)[w + j] = items[j]
  <2>1. /\ p \o items \in Seq(K) /\ Len(p \o items) = Len(p) + Len(items)
        /\ \A i \in 1 .. Len(p) : (p \o items)[i] = p[i]
        /\ \A i \in 1 .. Len(items) : (p \o items)[Len(p) + i] = items[i]
    BY <1>5, <1>6a
  <2>. QED BY <1>5, <2>1
<1>8. m \in ToClient
  BY <1>1, <1>6, <1>7 DEF K, ToClient, Messages
<1>9. \A j \in 1 .. w : item(j).kind \in ServerKinds
  BY <1>3 DEF Commands
<1>. QED BY <1>1, <1>3, <1>5, <1>6, <1>7, <1>8, <1>9 DEF m, w, a
-----------------------------------------------------------------------------
(* The client's commands *)

\* The client's record is as it was but for what Store and AddReliableCommand change.
SameClient(k, d) ==
  /\ d.lastExecutedServerCommand = k.lastExecutedServerCommand
  /\ d.servercount = k.servercount /\ d.configstrings = k.configstrings
  /\ d.cgame = k.cgame /\ d.snap = k.snap /\ d.numbering = k.numbering
ClientStores(k, cmd, d) ==
  LET n == k.reliableSequence + 1
  IN  /\ d.reliableSequence = n
      /\ d.reliableCommands = [k.reliableCommands EXCEPT ![Slot(n)] = [cmd EXCEPT !.num = n]]
      /\ d.reliableAcknowledge = k.reliableAcknowledge
      /\ d.state = k.state /\ d.left = k.left /\ SameClient(k, d)
Overflows(k, d) ==
  /\ d.reliableSequence = k.reliableSequence /\ d.reliableCommands = k.reliableCommands
  /\ d.reliableAcknowledge = k.reliableSequence
  /\ d.state = "disconnected" /\ d.left = "overflow" /\ SameClient(k, d)

LEMMA ClientFields ==
  ASSUME NEW k \in Clients
  PROVE  /\ k.reliableSequence \in Nat /\ k.reliableAcknowledge \in Nat
         /\ k.lastExecutedServerCommand \in Nat /\ k.servercount \in Nat /\ k.snap \in Nat
         /\ k.numbering \in Nat
         /\ k.reliableCommands \in [Slots -> Commands(ClientKinds \cup {"none"})]
         /\ k.state \in {"disconnected", "handshake", "connected", "active"}
         /\ k.left \in {"no", "closed", "quit", "timeout", "overflow"}
BY DEF Clients, Rings

LEMMA ClientStoreIs ==
  ASSUME NEW k \in Clients, Filled(k), NEW cmd \in Commands(ClientKinds)
  PROVE  /\ Store(k, cmd) \in Clients /\ Filled(Store(k, cmd))
         /\ ClientStores(k, cmd, Store(k, cmd))
<1>. DEFINE n == k.reliableSequence + 1
            new == [cmd EXCEPT !.num = n]
            d == Store(k, cmd)
<1>1. n \in Nat
  BY ClientFields
<1>. HIDE DEF n
<1>2. new \in Commands(ClientKinds) /\ new.kind # "none"
  BY <1>1 DEF Commands, ClientKinds
<1>3. Slot(n) \in Slots /\ \A m \in 1 .. n : Slot(m) \in Slots
  BY <1>1, SlotType
<1>. HIDE DEF new
<1>4. d = [k EXCEPT !.reliableSequence = n, !.reliableCommands = [k.reliableCommands EXCEPT ![Slot(n)] = new]]
  BY DEF Store, Clients, n, new
<1>. HIDE DEF d
<1>5. d \in Clients
  BY <1>1, <1>2, <1>3, <1>4 DEF Clients, Rings, Commands
<1>6. Filled(d)
  <2>. SUFFICES ASSUME NEW m \in 1 .. n PROVE d.reliableCommands[Slot(m)].kind # "none"
    BY <1>1, <1>4 DEF Filled, Clients
  <2>1. CASE Slot(m) = Slot(n)
    BY <1>1, <1>2, <1>3, <1>4, <2>1 DEF Clients, Rings
  <2>2. CASE Slot(m) # Slot(n)
    <3>1. m \in 1 .. k.reliableSequence
      BY <1>1, <2>2, ClientFields DEF n
    <3>. QED BY <1>1, <1>3, <1>4, <2>2, <3>1 DEF Clients, Rings, Filled
  <2>. QED BY <2>1, <2>2
<1>7. ClientStores(k, cmd, d)
  BY <1>1, <1>4 DEF ClientStores, SameClient, Clients, n, new
<1>. QED BY <1>5, <1>6, <1>7 DEF d

\* A command that the client adds is stored, or disconnects it when its window is over full.
LEMMA AddIs ==
  ASSUME NEW k \in Clients, Filled(k), NEW cmd \in Commands(ClientKinds)
  PROVE  LET d == AddReliableCommand(k, cmd)
         IN  /\ d \in Clients /\ Filled(d)
             /\ IF ClientFull(k) THEN Overflows(k, d) ELSE ClientStores(k, cmd, d)
<1>. DEFINE d == AddReliableCommand(k, cmd)
<1>1. CASE ClientFull(k)
  <2>1. d = [k EXCEPT !.reliableAcknowledge = k.reliableSequence, !.state = "disconnected",
                      !.left = "overflow"]
    BY <1>1 DEF AddReliableCommand
  <2>. HIDE DEF d
  <2>2. d \in Clients /\ Overflows(k, d)
    BY <2>1 DEF Clients, Overflows, SameClient
  <2>3. Filled(d)
    BY <2>2 DEF Filled, Overflows
  <2>. QED BY <1>1, <2>2, <2>3 DEF d
<1>2. CASE ~ClientFull(k)
  BY <1>2, ClientStoreIs DEF AddReliableCommand
<1>. QED BY <1>1, <1>2

\* What CL_ClearState leaves.
Cleared(k, state, d) ==
  /\ d.state = state /\ d.reliableSequence = 0 /\ d.reliableAcknowledge = 0
  /\ d.reliableCommands = NoCommands /\ d.lastExecutedServerCommand = 0
  /\ d.servercount = 0 /\ d.snap = 0
  /\ d.cgame = k.cgame /\ d.left = k.left /\ d.numbering = k.numbering
LEMMA ClearStateIs ==
  ASSUME NEW k \in Clients, NEW state \in {"disconnected", "handshake", "connected", "active"}
  PROVE  LET d == ClearState(k, state) IN d \in Clients /\ Filled(d) /\ Cleared(k, state, d)
<1>. DEFINE d == ClearState(k, state)
<1>1. NoCommands \in Rings(ClientKinds)
  <2>1. <<>> \in Seq(Strings)
    OBVIOUS
  <2>2. Empty \in Commands(ClientKinds \cup {"none"})
    BY <2>1 DEF Empty, Plain, Command, Commands
  <2>. QED BY <2>2 DEF NoCommands, Rings, Slots
<1>2. [i \in Index |-> NoString] \in [Index -> Values]
  BY DEF NoString, Values
<1>. DEFINE none == [i \in Index |-> NoString]
<1>. HIDE DEF none
<1>3. none \in StringTables
  BY <1>2 DEF none, StringTables
<1>4. d = [k EXCEPT !.state = state, !.reliableSequence = 0, !.reliableAcknowledge = 0,
            !.reliableCommands = NoCommands, !.lastExecutedServerCommand = 0,
            !.servercount = 0, !.configstrings = none, !.snap = 0]
  BY DEF ClearState, none
<1>. HIDE DEF d
<1>5. d \in Clients /\ Cleared(k, state, d)
  BY <1>1, <1>3, <1>4 DEF Clients, Cleared
<1>6. Filled(d)
  <2>1. 1 .. d.reliableSequence = {}
    BY <1>5 DEF Cleared
  <2>. QED BY <2>1 DEF Filled
<1>. QED BY <1>5, <1>6 DEF d

\* What a message of the client holds are its commands not acknowledged.
Pends(k, x) == \E n \in 1 .. k.reliableSequence :
  k.reliableAcknowledge < n /\ x = [k.reliableCommands[Slot(n)] EXCEPT !.num = n]
LEMMA ClientMessageIs ==
  ASSUME NEW k \in Clients, Filled(k)
  PROVE  LET m == MessageToServer(k)
         IN  /\ m \in ToServer /\ m.ack = k.lastExecutedServerCommand
             /\ \A j \in 1 .. Len(m.items) : Pends(k, m.items[j])
<1>. DEFINE m == MessageToServer(k)
            a == k.reliableAcknowledge
            w == k.reliableSequence - a
            v == IF w > 0 THEN w ELSE 0
            item(j) == [k.reliableCommands[Slot(a + j)] EXCEPT !.num = a + j]
            p == Pending(k)
            K == Commands(ClientKinds)
<1>1. a \in Nat /\ w \in Int /\ v \in Nat /\ 1 .. w = 1 .. v /\ k.lastExecutedServerCommand \in Nat
  BY ClientFields
<1>2. \A j \in 1 .. v : a + j \in 1 .. k.reliableSequence /\ a < a + j /\ a + j \in Nat /\ a + j \in Int
  BY ClientFields
<1>3. p = [j \in 1 .. w |-> item(j)]
  BY DEF Pending
<1>4. ASSUME NEW j \in 1 .. v
      PROVE  item(j) \in K /\ Pends(k, item(j))
  <2>1. Slot(a + j) \in Slots
    BY <1>2, SlotType
  <2>2. k.reliableCommands[Slot(a + j)].kind # "none"
    BY <1>2, Zenon DEF Filled
  <2>. DEFINE x == k.reliableCommands[Slot(a + j)]
  <2>3. x \in Commands(ClientKinds \cup {"none"}) /\ x.kind # "none"
    BY <2>1, <2>2 DEF Clients, Rings
  <2>. HIDE DEF x
  <2>4. [x EXCEPT !.num = a + j] \in K
    BY <1>2, <2>3 DEF Commands
  <2>5. Pends(k, item(j))
    BY <1>2 DEF Pends
  <2>. QED BY <2>4, <2>5 DEF x
<1>. HIDE DEF item, K, w, v, a, p
<1>5. p \in Seq(K) /\ Len(p) = v /\ \A j \in 1 .. v : p[j] = item(j)
  <2>1. p = [j \in 1 .. v |-> item(j)]
    BY <1>1, <1>3
  <2>. QED BY <1>1, <1>4, <2>1
<1>6. m.ack = k.lastExecutedServerCommand /\ m.items = p
      /\ m = [ack |-> k.lastExecutedServerCommand, items |-> p]
  BY DEF MessageToServer, p
<1>. HIDE DEF m
<1>7. m \in ToServer
  BY <1>1, <1>5, <1>6 DEF K, ToServer, Messages
<1>8. \A j \in 1 .. Len(m.items) : Pends(k, m.items[j])
  BY <1>4, <1>5, <1>6
<1>. QED BY <1>6, <1>7, <1>8 DEF m

\* A command in the farewell says "disconnect", or was there before.
Leaves(k, x) == (x.kind = "disconnect" /\ x.level = 0) \/ Pends(k, x)

LEMMA FarewellIs ==
  ASSUME NEW k \in Clients, Filled(k)
  PROVE  LET d == Farewell(k)
         IN  /\ d \in Clients /\ Filled(d)
             /\ \A x : Leaves(d, x) => Leaves(k, x)
<1>. DEFINE e == IF ClientFull(k) THEN [k EXCEPT !.reliableAcknowledge = k.reliableSequence] ELSE k
            far == Plain("disconnect")
            d == Farewell(k)
            n == k.reliableSequence + 1
<1>0. /\ n \in Nat /\ k.reliableSequence \in Nat /\ k.reliableAcknowledge \in Nat
      /\ k.reliableCommands \in [Slots -> Commands(ClientKinds \cup {"none"})]
  <2>1. /\ k.reliableSequence \in Nat /\ k.reliableAcknowledge \in Nat
        /\ k.reliableCommands \in [Slots -> Commands(ClientKinds \cup {"none"})]
    BY ClientFields
  <2>. QED BY <2>1
<1>1. /\ e \in Clients /\ e.reliableCommands = k.reliableCommands
      /\ e.reliableSequence = k.reliableSequence
      /\ e.reliableAcknowledge >= k.reliableAcknowledge
  <2>1. CASE ClientFull(k)
    <3>1. /\ e \in Clients /\ e.reliableCommands = k.reliableCommands
          /\ e.reliableSequence = k.reliableSequence /\ e.reliableAcknowledge = k.reliableSequence
      BY <2>1 DEF Clients
    <3>2. k.reliableSequence >= k.reliableAcknowledge
      BY <1>0, <2>1, SizeAssumption DEF ClientFull
    <3>. QED BY <3>1, <3>2
  <2>2. CASE ~ClientFull(k)
    BY <1>0, <2>2
  <2>. QED BY <2>1, <2>2
<1>. HIDE DEF e
<1>2. Filled(e)
  BY <1>1 DEF Filled
<1>3. far \in Commands(ClientKinds) /\ far.kind = "disconnect" /\ far.level = 0
  BY PlainType DEF ClientKinds
<1>4. d = Store(e, far)
  BY DEF Farewell, e
<1>. HIDE DEF d, far
<1>5. d \in Clients /\ Filled(d) /\ ClientStores(e, far, d)
  BY <1>1, <1>2, <1>3, <1>4, ClientStoreIs
<1>. DEFINE put == [far EXCEPT !.num = n]
<1>6. d.reliableSequence = n /\ d.reliableAcknowledge = e.reliableAcknowledge
      /\ d.reliableCommands = [k.reliableCommands EXCEPT ![Slot(n)] = put]
  BY <1>1, <1>5 DEF ClientStores
<1>7. put.kind = "disconnect" /\ put.level = 0 /\ put \in Commands(ClientKinds)
  BY <1>0, <1>3 DEF Commands
<1>. HIDE DEF put
<1>8. ASSUME NEW x, Pends(d, x) PROVE Leaves(k, x)
  <2>1. PICK m \in 1 .. n : e.reliableAcknowledge < m /\ x = [d.reliableCommands[Slot(m)] EXCEPT !.num = m]
    BY <1>6, <1>8 DEF Pends
  <2>2. Slot(n) \in Slots /\ Slot(m) \in Slots /\ m \in Nat
    <3>1. n \in Int /\ m \in Int /\ m \in Nat
      BY <1>0
    <3>. QED BY <3>1, SlotType
  <2>3. CASE Slot(m) = Slot(n)
    <3>1. d.reliableCommands[Slot(m)] = put
      BY <1>0, <1>6, <2>2, <2>3
    <3>2. x = [put EXCEPT !.num = m]
      BY <2>1, <3>1
    <3>3. [put EXCEPT !.num = m].kind = "disconnect" /\ [put EXCEPT !.num = m].level = 0
      BY <1>7, <2>2 DEF Commands
    <3>. QED BY <3>2, <3>3 DEF Leaves
  <2>4. CASE Slot(m) # Slot(n)
    <3>1. d.reliableCommands[Slot(m)] = k.reliableCommands[Slot(m)]
      BY <1>0, <1>6, <2>2, <2>4
    <3>2. m \in 1 .. k.reliableSequence /\ k.reliableAcknowledge < m
      <4>1. m # n
        BY <2>4
      <4>2. e.reliableAcknowledge \in Nat
        BY <1>1, ClientFields
      <4>. QED BY <1>0, <1>1, <2>1, <4>1, <4>2
    <3>. QED BY <2>1, <3>1, <3>2 DEF Leaves, Pends
  <2>. QED BY <2>3, <2>4
<1>9. \A x : Leaves(d, x) => Leaves(k, x)
  BY <1>8 DEF Leaves
<1>. QED BY <1>5, <1>9 DEF d

\* The three messages that say goodbye.
LEMMA GoodbyeIs ==
  ASSUME NEW k \in Clients, Filled(k)
  PROVE  LET g == Goodbye(k)
         IN  /\ g \in Seq(ToServer) /\ Len(g) = 3
             /\ \A i \in 1 .. Len(g) : \A j \in 1 .. Len(g[i].items) : Leaves(k, g[i].items[j])
<1>. DEFINE one == Farewell(k)
            two == Farewell(one)
            three == Farewell(two)
<1>1. one \in Clients /\ Filled(one) /\ \A x : Leaves(one, x) => Leaves(k, x)
  BY FarewellIs
<1>. HIDE DEF one
<1>2. two \in Clients /\ Filled(two) /\ \A x : Leaves(two, x) => Leaves(one, x)
  BY <1>1, FarewellIs
<1>. HIDE DEF two
<1>3. three \in Clients /\ Filled(three) /\ \A x : Leaves(three, x) => Leaves(two, x)
  BY <1>2, FarewellIs
<1>. HIDE DEF three
<1>4. Goodbye(k) = <<MessageToServer(one), MessageToServer(two), MessageToServer(three)>>
  BY DEF Goodbye, one, two, three
<1>5. /\ MessageToServer(one) \in ToServer
      /\ \A j \in 1 .. Len(MessageToServer(one).items) : Leaves(k, MessageToServer(one).items[j])
  BY <1>1, ClientMessageIs DEF Leaves
<1>6. /\ MessageToServer(two) \in ToServer
      /\ \A j \in 1 .. Len(MessageToServer(two).items) : Leaves(k, MessageToServer(two).items[j])
  <2>1. \A x : Pends(two, x) => Leaves(two, x)
    BY DEF Leaves
  <2>. QED BY <1>1, <1>2, <2>1, ClientMessageIs
<1>7. /\ MessageToServer(three) \in ToServer
      /\ \A j \in 1 .. Len(MessageToServer(three).items) : Leaves(k, MessageToServer(three).items[j])
  <2>1. \A x : Pends(three, x) => Leaves(three, x)
    BY DEF Leaves
  <2>. QED BY <1>1, <1>2, <1>3, <2>1, ClientMessageIs
<1>. DEFINE g == Goodbye(k)
<1>8. g \in Seq(ToServer) /\ Len(g) = 3 /\ g[1] = MessageToServer(one) /\ g[2] = MessageToServer(two)
      /\ g[3] = MessageToServer(three)
  BY <1>4, <1>5, <1>6, <1>7
<1>. HIDE DEF g
<1>9. \A i \in 1 .. 3 : i = 1 \/ i = 2 \/ i = 3
  OBVIOUS
<1>10. \A i \in 1 .. Len(g) : \A j \in 1 .. Len(g[i].items) : Leaves(k, g[i].items[j])
  BY <1>5, <1>6, <1>7, <1>8, <1>9
<1>. QED BY <1>8, <1>10 DEF g
-----------------------------------------------------------------------------
(* Types *)

\* The server goes on with a good record, and sends what it may.
LEMMA ServeType ==
  ASSUME TypeInv, NEW c \in Servers, GoodServer(c), NEW msgs \in Seq(ToClient), Serve(c, msgs)
  PROVE  GoodServer(server') /\ toClient' \in Seq(ToClient)
<1>. DEFINE last == IF c.state = "zombie" /\ server.state # "zombie" THEN <<Message(c, <<>>)>> ELSE <<>>
<1>1. <<>> \in Seq(Commands(ServerKinds \cup DataKinds))
  OBVIOUS
<1>2. Message(c, <<>>) \in ToClient
  BY <1>1, MessageIs DEF GoodServer
<1>3. last \in Seq(ToClient)
  BY <1>2
<1>4. server' = c /\ toClient' = toClient \o msgs \o last
  BY DEF Serve
<1>. HIDE DEF last
<1>. QED BY <1>3, <1>4 DEF TypeInv, GoodServer, Servers, Filled, Ordered

\* The same for the client.
LEMMA BecomeType ==
  ASSUME TypeInv, NEW k \in Clients, Filled(k), Become(k)
  PROVE  GoodClient(client') /\ toServer' \in Seq(ToServer)
<1>1. CASE k.state = "disconnected" /\ client.state # "disconnected"
  <2>. DEFINE d == ClearState(k, "disconnected")
              g == Goodbye(k)
  <2>1. client' = d /\ toServer' = toServer \o g
    BY <1>1 DEF Become
  <2>2. d \in Clients /\ Filled(d)
    BY ClearStateIs
  <2>3. g \in Seq(ToServer)
    BY GoodbyeIs
  <2>. HIDE DEF d, g
  <2>4. GoodClient(client')
    BY <2>1, <2>2 DEF GoodClient, Filled
  <2>. QED BY <2>1, <2>3, <2>4 DEF TypeInv
<1>2. CASE ~(k.state = "disconnected" /\ client.state # "disconnected")
  <2>1. client' = k /\ toServer' = toServer
    BY <1>2 DEF Become
  <2>. QED BY <2>1 DEF TypeInv, GoodClient, Filled
<1>. QED BY <1>1, <1>2

\* What the server parses is a command of a client.
LEMMA TakenType ==
  ASSUME TypeInv, svInput # <<>>
  PROVE  /\ Head(svInput) \in Commands(ClientKinds) /\ Head(svInput) = svInput[1]
         /\ Head(svInput).num \in Nat /\ Head(svInput).level \in Nat /\ Head(svInput).arg \in Nat
         /\ Head(svInput).kind \in ClientKinds
         /\ Tail(svInput) \in Seq(Commands(ClientKinds))
<1>1. svInput \in Seq(Commands(ClientKinds))
  BY DEF TypeInv
<1>2. Head(svInput) \in Commands(ClientKinds) /\ Head(svInput) = svInput[1] /\ Tail(svInput) \in Seq(Commands(ClientKinds))
  BY <1>1, TailFacts
<1>. DEFINE x == Head(svInput)
<1>. HIDE DEF x
<1>3. x \in Commands(ClientKinds) => x.num \in Nat /\ x.level \in Nat /\ x.arg \in Nat /\ x.kind \in ClientKinds
  BY DEF Commands
<1>. QED BY <1>2, <1>3 DEF x

LEMMA NotedIs ==
  ASSUME TypeInv, svInput # <<>>
  PROVE  /\ Noted \in Servers /\ GoodServer(Noted)
         /\ Noted = [server EXCEPT !.clientCommandExecuted = Noted.clientCommandExecuted]
         /\ Noted.clientCommandExecuted = Head(svInput).num
         /\ Noted.state = server.state /\ Noted.reliableSequence = server.reliableSequence
         /\ Noted.reliableAcknowledge = server.reliableAcknowledge /\ Noted.reliableSent = server.reliableSent
         /\ Noted.reliableCommands = server.reliableCommands /\ Noted.numbering = server.numbering
<1>. DEFINE n == Head(svInput).num
<1>1. n \in Nat
  BY TakenType
<1>2. Noted = [server EXCEPT !.clientCommandExecuted = n]
  BY DEF Noted
<1>. HIDE DEF n
<1>3. server \in Servers /\ Filled(server) /\ Ordered(server)
  BY DEF TypeInv, GoodServer
<1>4. /\ Noted \in Servers /\ Noted.clientCommandExecuted = n
      /\ Noted.state = server.state /\ Noted.reliableSequence = server.reliableSequence
      /\ Noted.reliableAcknowledge = server.reliableAcknowledge /\ Noted.reliableSent = server.reliableSent
      /\ Noted.reliableCommands = server.reliableCommands /\ Noted.numbering = server.numbering
  BY <1>1, <1>2, <1>3 DEF Servers
<1>5. Filled(Noted) /\ Ordered(Noted)
  BY <1>3, <1>4 DEF Filled, Ordered
<1>. QED BY <1>2, <1>4, <1>5 DEF GoodServer, n

\* A change of the state alone.
LEMMA StateIs ==
  ASSUME NEW c \in Servers, GoodServer(c),
         NEW state \in {"zombie", "connecting", "connected", "spawned"}
  PROVE  LET d == [c EXCEPT !.state = state]
         IN  /\ d \in Servers /\ GoodServer(d) /\ d.state = state
             /\ d.reliableSequence = c.reliableSequence
             /\ d.reliableAcknowledge = c.reliableAcknowledge /\ d.reliableSent = c.reliableSent
             /\ d.reliableCommands = c.reliableCommands /\ d.numbering = c.numbering
             /\ d.clientCommandExecuted = c.clientCommandExecuted
<1>. DEFINE d == [c EXCEPT !.state = state]
<1>1. /\ d \in Servers /\ d.state = state
      /\ d.reliableSequence = c.reliableSequence
      /\ d.reliableAcknowledge = c.reliableAcknowledge /\ d.reliableSent = c.reliableSent
      /\ d.reliableCommands = c.reliableCommands /\ d.numbering = c.numbering
      /\ d.clientCommandExecuted = c.clientCommandExecuted
  BY DEF Servers
<1>. HIDE DEF d
<1>2. Filled(d) /\ Ordered(d)
  BY <1>1 DEF GoodServer, Filled, Ordered
<1>. QED BY <1>1, <1>2 DEF GoodServer, d

LEMMA AllSentIs ==
  ASSUME NEW c \in Servers, GoodServer(c)
  PROVE  LET d == AllSent(c)
         IN  /\ d \in Servers /\ GoodServer(d) /\ d.state = c.state
             /\ d.reliableSequence = c.reliableSequence
             /\ d.reliableAcknowledge = c.reliableAcknowledge /\ d.reliableSent = c.reliableSequence
             /\ d.reliableCommands = c.reliableCommands /\ d.numbering = c.numbering
             /\ d.clientCommandExecuted = c.clientCommandExecuted
<1>. DEFINE d == AllSent(c)
<1>0. /\ c.reliableSequence \in Nat /\ c.reliableAcknowledge \in Nat /\ c.reliableSent \in Nat
      /\ Filled(c) /\ Ordered(c)
  BY DEF GoodServer, Servers
<1>1. /\ d \in Servers /\ d.state = c.state
      /\ d.reliableSequence = c.reliableSequence
      /\ d.reliableAcknowledge = c.reliableAcknowledge /\ d.reliableSent = c.reliableSequence
      /\ d.reliableCommands = c.reliableCommands /\ d.numbering = c.numbering
      /\ d.clientCommandExecuted = c.clientCommandExecuted
  BY DEF Servers, AllSent
<1>. HIDE DEF d
<1>2. Filled(d)
  BY <1>0, <1>1 DEF Filled
<1>3. Ordered(d)
  BY <1>0, <1>1 DEF Ordered
<1>. QED BY <1>1, <1>2, <1>3 DEF GoodServer, d

LEMMA ResetIs ==
  ASSUME NEW c \in Servers
  PROVE  LET d == [ResetCommandBuffers(c) EXCEPT !.state = "connecting"]
         IN  /\ d \in Servers /\ GoodServer(d) /\ d.state = "connecting"
             /\ d.reliableSequence = 0 /\ d.reliableAcknowledge = 0 /\ d.reliableSent = 0
             /\ d.reliableCommands = NoCommands /\ d.numbering = c.numbering + 1
             /\ d.clientCommandExecuted = 0
             /\ \A s \in Slots : NoCommands[s].kind = "none" /\ NoCommands[s].level = 0
<1>. DEFINE d == [ResetCommandBuffers(c) EXCEPT !.state = "connecting"]
<1>1. NoCommands \in Rings(ServerKinds) /\ \A s \in Slots : NoCommands[s].kind = "none" /\ NoCommands[s].level = 0
  <2>1. <<>> \in Seq(Strings)
    OBVIOUS
  <2>2. Empty \in Commands(ServerKinds \cup {"none"}) /\ Empty.kind = "none" /\ Empty.level = 0
    BY <2>1 DEF Empty, Plain, Command, Commands
  <2>. QED BY <2>2 DEF NoCommands, Rings, Slots
<1>2. /\ d \in Servers /\ d.state = "connecting"
      /\ d.reliableSequence = 0 /\ d.reliableAcknowledge = 0 /\ d.reliableSent = 0
      /\ d.reliableCommands = NoCommands /\ d.numbering = c.numbering + 1
      /\ d.clientCommandExecuted = 0
  <2>. DEFINE e == ResetCommandBuffers(c)
  <2>1. e = [c EXCEPT !.clientCommandExecuted = 0, !.reliableAcknowledge = 0,
            !.reliableSequence = 0, !.reliableSent = 0, !.reliableCommands = NoCommands,
            !.numbering = c.numbering + 1]
    BY DEF ResetCommandBuffers, Servers
  <2>. HIDE DEF e
  <2>2. /\ e \in Servers
        /\ e.reliableSequence = 0 /\ e.reliableAcknowledge = 0 /\ e.reliableSent = 0
        /\ e.reliableCommands = NoCommands /\ e.numbering = c.numbering + 1
        /\ e.clientCommandExecuted = 0
    <3>. DEFINE n == c.numbering + 1
    <3>1. n \in Nat
      BY DEF Servers
    <3>. HIDE DEF n
    <3>2. e = [c EXCEPT !.clientCommandExecuted = 0, !.reliableAcknowledge = 0,
            !.reliableSequence = 0, !.reliableSent = 0, !.reliableCommands = NoCommands,
            !.numbering = n]
      BY <2>1 DEF n
    <3>3. /\ e \in Servers
          /\ e.reliableSequence = 0 /\ e.reliableAcknowledge = 0 /\ e.reliableSent = 0
          /\ e.reliableCommands = NoCommands /\ e.numbering = n
          /\ e.clientCommandExecuted = 0
      BY <1>1, <3>1, <3>2 DEF Servers
    <3>. QED BY <3>3 DEF n
  <2>3. d = [e EXCEPT !.state = "connecting"]
    BY DEF e
  <2>. HIDE DEF d
  <2>. QED BY <2>2, <2>3 DEF Servers
<1>. HIDE DEF d
<1>3. Filled(d)
  <2>1. 1 .. d.reliableSequence = {}
    BY <1>2
  <2>. QED BY <2>1 DEF Filled
<1>4. Ordered(d)
  BY <1>2 DEF Ordered
<1>. QED BY <1>1, <1>2, <1>3, <1>4 DEF GoodServer, d

\* The message that says where a level begins.
ServerData(c) == [ack |-> c.clientCommandExecuted,
                  items |-> <<Command("serverdata", level, c.numbering + 1, <<>>)>>]
LEMMA ServerDataIs ==
  ASSUME TypeInv, NEW c \in Servers
  PROVE  LET m == ServerData(c)
         IN  /\ m \in ToClient /\ m.ack = c.clientCommandExecuted /\ Len(m.items) = 1
             /\ m.items[1].kind = "serverdata" /\ m.items[1].level = level
             /\ m.items[1].arg = c.numbering + 1
<1>1. c.numbering \in Nat /\ c.clientCommandExecuted \in Nat /\ level \in Nat /\ <<>> \in Seq(Strings)
  BY DEF Servers, TypeInv
<1>. DEFINE x == Command("serverdata", level, c.numbering + 1, <<>>)
<1>2. /\ x \in Commands(ServerKinds \cup DataKinds) /\ x.kind = "serverdata" /\ x.level = level
      /\ x.arg = c.numbering + 1
  BY <1>1 DEF Command, Commands, DataKinds
<1>3. ServerData(c) = [ack |-> c.clientCommandExecuted, items |-> <<x>>]
  BY DEF ServerData
<1>. HIDE DEF x
<1>. QED BY <1>1, <1>2, <1>3 DEF ToClient, Messages

LEMMA NewType ==
  ASSUME TypeInv, NEW c \in Servers, GoodServer(c), New(c)
  PROVE  GoodServer(server') /\ toClient' \in Seq(ToClient)
<1>0. <<>> \in Seq(ToClient)
  OBVIOUS
<1>1. CASE c.state = "spawned"
  BY <1>0, <1>1, ServeType DEF New
<1>2. CASE c.state # "spawned"
  <2>. DEFINE d == [ResetCommandBuffers(c) EXCEPT !.state = "connecting"]
  <2>1. d \in Servers /\ GoodServer(d) /\ d.numbering = c.numbering + 1
    BY ResetIs
  <2>. HIDE DEF d
  <2>2. Serve(d, <<ServerData(c)>>)
    <3>1. Serve(d, <<[ack |-> c.clientCommandExecuted,
                      items |-> <<Command("serverdata", level, d.numbering, <<>>)>>]>>)
      BY <1>2 DEF New, d
    <3>. QED BY <2>1, <3>1 DEF ServerData
  <2>3. ServerData(c) \in ToClient
    BY ServerDataIs
  <2>. DEFINE msgs == <<ServerData(c)>>
  <2>4. msgs \in Seq(ToClient)
    BY <2>3
  <2>. HIDE DEF msgs
  <2>. QED BY <2>1, <2>2, <2>4, ServeType DEF msgs
<1>. QED BY <1>1, <1>2
-----------------------------------------------------------------------------
LEMMA CsIs ==
  ASSUME TypeInv, NEW i \in Index
  PROVE  Cs(i) \in Commands(ServerKinds) /\ Cs(i).kind = "cs" /\ Cs(i).level = 0
<1>1. config[i] \in Values /\ i \in Nat
  BY DEF TypeInv, Index
<1>. DEFINE s == [index |-> i, version |-> config[i].version, size |-> config[i].size]
<1>2. s \in Strings
  BY <1>1 DEF Strings, Values
<1>. DEFINE strings == <<s>>
<1>3. strings \in Seq(Strings)
  BY <1>2
<1>. HIDE DEF s
<1>4. Cs(i) = Command("cs", 0, 0, strings)
  BY DEF Cs, s
<1>. HIDE DEF strings
<1>5. "cs" \in ServerKinds
  BY DEF ServerKinds
<1>. QED BY SMTT(30), <1>3, <1>4, <1>5, CommandType

\* The rest of what the server parses.
LEMMA HandledType ==
  ASSUME TypeInv, svInput # <<>>, Handled
  PROVE  svInput' \in Seq(Commands(ClientKinds))
BY TakenType DEF Handled

LEMMA SendClientMessagesTypes ==
  ASSUME TypeInv, SendClientMessages
  PROVE  TypeInv'
<1>. DEFINE frame == Command("frame", level, 0, <<>>)
            extra == IF server.state = "spawned" THEN <<frame>> ELSE <<>>
            msgs == <<Message(server, extra)>>
<1>1. level \in Nat /\ <<>> \in Seq(Strings) /\ GoodServer(server) /\ server \in Servers
  BY DEF TypeInv, GoodServer
<1>2. frame \in Commands(ServerKinds \cup DataKinds)
  BY <1>1, CommandType DEF DataKinds
<1>. HIDE DEF frame
<1>3. extra \in Seq(Commands(ServerKinds \cup DataKinds))
  <2>1. <<frame>> \in Seq(Commands(ServerKinds \cup DataKinds))
    BY <1>2
  <2>2. <<>> \in Seq(Commands(ServerKinds \cup DataKinds))
    OBVIOUS
  <2>3. extra = <<frame>> \/ extra = <<>>
    OBVIOUS
  <2>. HIDE DEF extra
  <2>. QED BY <2>1, <2>2, <2>3
<1>. HIDE DEF extra
<1>4. Message(server, extra) \in ToClient
  BY <1>1, <1>3, MessageIs DEF GoodServer
<1>5. msgs \in Seq(ToClient)
  BY <1>4
<1>6. Serve(AllSent(server), msgs)
  BY DEF SendClientMessages, msgs, extra, frame
<1>7. AllSent(server) \in Servers /\ GoodServer(AllSent(server))
  BY <1>1, AllSentIs
<1>. HIDE DEF msgs
<1>8. GoodServer(server') /\ toClient' \in Seq(ToClient)
  BY <1>5, <1>6, <1>7, ServeType
<1>. QED BY <1>8 DEF SendClientMessages, TypeInv, world, GoodServer, GoodClient, Filled, Ordered

LEMMA ConfigStringTypes ==
  ASSUME TypeInv, ConfigString
  PROVE  TypeInv'
<1>1. PICK i \in Index, size \in Sizes :
        /\ version' = version + 1 /\ broadcasts' = broadcasts + 1
        /\ config' = [config EXCEPT ![i] = [version |-> version', size |-> size]]
        /\ Serve(SendServerCommand(server, Cs(i)'), <<>>)
        /\ UNCHANGED <<client, level, svInput, clInput, toServer, typed, executed, losses>>
  BY DEF ConfigString
<1>2. version' \in Nat /\ broadcasts' \in Nat /\ size \in Nat /\ i \in Nat
  BY <1>1, SizeAssumption, SMTT(60) DEF TypeInv, Index
<1>3. [version |-> version', size |-> size] \in Values
  BY <1>2 DEF Values
<1>4. config' \in [Index -> Values] /\ config'[i] = [version |-> version', size |-> size]
  BY <1>1, <1>3 DEF TypeInv
<1>. DEFINE s == [index |-> i, version |-> version', size |-> size]
            strings == <<s>>
            cmd == Command("cs", 0, 0, strings)
<1>5. Cs(i)' = cmd
  BY <1>4 DEF Cs
<1>6. s \in Strings
  BY <1>2 DEF Strings
<1>7. strings \in Seq(Strings)
  BY <1>6
<1>. HIDE DEF strings
<1>8. cmd \in Commands(ServerKinds)
  BY <1>7, CommandType DEF ServerKinds
<1>. HIDE DEF cmd
<1>9. server \in Servers /\ Filled(server) /\ Ordered(server)
  BY DEF TypeInv, GoodServer
<1>. DEFINE d == SendServerCommand(server, cmd)
<1>10. d \in Servers /\ GoodServer(d)
  BY <1>8, <1>9, SendIs
<1>11. Serve(d, <<>>)
  BY <1>1, <1>5
<1>. HIDE DEF d
<1>12. <<>> \in Seq(ToClient)
  OBVIOUS
<1>13. GoodServer(server') /\ toClient' \in Seq(ToClient)
  BY <1>10, <1>11, <1>12, ServeType
<1>. QED BY <1>1, <1>2, <1>4, <1>13 DEF TypeInv, GoodServer, GoodClient, Filled, Ordered

\* What becomes of the server's record when the level changes.
Awaiting == IF server.state = "zombie" THEN server ELSE [server EXCEPT !.state = "connecting"]
ToldChanging == SendServerCommand(Awaiting, Plain("changing"))
ToldReconnect == SendServerCommand(AllSent(ToldChanging), Plain("reconnect"))
LEMMA MapServes ==
  ASSUME Map
  PROVE  IF ToldChanging.state = "zombie" THEN Serve(ToldChanging, <<>>)
         ELSE Serve(ToldReconnect, <<Message(ToldChanging, <<>>)>>)
BY DEF Map, Awaiting, ToldChanging, ToldReconnect

LEMMA AwaitingIs ==
  ASSUME TypeInv
  PROVE  /\ Awaiting \in Servers /\ GoodServer(Awaiting)
         /\ Awaiting.state = IF server.state = "zombie" THEN "zombie" ELSE "connecting"
         /\ Awaiting.reliableSequence = server.reliableSequence
         /\ Awaiting.reliableAcknowledge = server.reliableAcknowledge
         /\ Awaiting.reliableSent = server.reliableSent
         /\ Awaiting.reliableCommands = server.reliableCommands
         /\ Awaiting.numbering = server.numbering
         /\ Awaiting.clientCommandExecuted = server.clientCommandExecuted
<1>1. server \in Servers /\ GoodServer(server)
  BY DEF TypeInv, GoodServer
<1>2. CASE server.state = "zombie"
  BY <1>1, <1>2 DEF Awaiting
<1>3. CASE server.state # "zombie"
  <2>. DEFINE d == [server EXCEPT !.state = "connecting"]
  <2>1. Awaiting = d
    BY <1>3 DEF Awaiting
  <2>2. /\ d \in Servers /\ GoodServer(d) /\ d.state = "connecting"
        /\ d.reliableSequence = server.reliableSequence
        /\ d.reliableAcknowledge = server.reliableAcknowledge /\ d.reliableSent = server.reliableSent
        /\ d.reliableCommands = server.reliableCommands /\ d.numbering = server.numbering
        /\ d.clientCommandExecuted = server.clientCommandExecuted
    BY <1>1, StateIs
  <2>. HIDE DEF d
  <2>. QED BY <1>3, <2>1, <2>2
<1>. QED BY <1>2, <1>3

LEMMA MapRecords ==
  ASSUME TypeInv
  PROVE  /\ ToldChanging \in Servers /\ GoodServer(ToldChanging)
         /\ ToldReconnect \in Servers /\ GoodServer(ToldReconnect)
<1>1. Awaiting \in Servers /\ Filled(Awaiting) /\ Ordered(Awaiting)
  BY AwaitingIs DEF GoodServer
<1>2. Plain("changing") \in Commands(ServerKinds) /\ Plain("reconnect") \in Commands(ServerKinds)
  BY PlainType DEF ServerKinds
<1>3. ToldChanging \in Servers /\ GoodServer(ToldChanging)
  BY <1>1, <1>2, SendIs DEF ToldChanging
<1>4. AllSent(ToldChanging) \in Servers /\ GoodServer(AllSent(ToldChanging))
  BY <1>3, AllSentIs
<1>5. ToldReconnect \in Servers /\ GoodServer(ToldReconnect)
  BY <1>2, <1>4, SendIs DEF ToldReconnect, GoodServer
<1>. QED BY <1>3, <1>5

LEMMA MapTypes ==
  ASSUME TypeInv, Map
  PROVE  TypeInv'
<1>1. level' \in 1 .. MaxLevels /\ version' \in Nat /\ config' \in [Index -> Values]
  <2>1. version + 1 \in Nat /\ level + 1 \in 1 .. MaxLevels
    <3>1. version \in Nat /\ level \in 1 .. MaxLevels /\ level < MaxLevels /\ MaxLevels \in Nat
      BY SizeAssumption DEF TypeInv, Map
    <3>. QED BY <3>1
  <2>2. version' = version + 1 /\ level' = level + 1
    BY DEF Map
  <2>3. [version |-> version', size |-> 1] \in Values
    BY <2>1, <2>2 DEF Values
  <2>4. config' = [i \in Index |-> [version |-> version', size |-> 1]]
    BY DEF Map
  <2>. QED BY <2>1, <2>2, <2>3, <2>4
<1>2. <<>> \in Seq(ToClient) /\ <<>> \in Seq(Commands(ServerKinds \cup DataKinds))
  OBVIOUS
<1>3. Message(ToldChanging, <<>>) \in ToClient
  BY <1>2, MapRecords, MessageIs DEF GoodServer
<1>. DEFINE msgs == <<Message(ToldChanging, <<>>)>>
<1>4. msgs \in Seq(ToClient)
  BY <1>3
<1>. HIDE DEF msgs
<1>5. \/ Serve(ToldChanging, <<>>) \/ Serve(ToldReconnect, msgs)
  BY MapServes DEF msgs
<1>6. GoodServer(server') /\ toClient' \in Seq(ToClient)
  BY <1>2, <1>4, <1>5, MapRecords, ServeType
<1>. QED BY <1>1, <1>6 DEF Map, TypeInv, GoodServer, GoodClient, Filled, Ordered

LEMMA ServerReceiveTypes ==
  ASSUME TypeInv, ServerReceive
  PROVE  TypeInv'
<1>. DEFINE msg == Head(toServer)
<1>1. msg \in ToServer /\ Tail(toServer) \in Seq(ToServer)
  BY TailFacts DEF ServerReceive, TypeInv
<1>. HIDE DEF msg
<1>2. msg.ack \in Nat /\ msg.items \in Seq(Commands(ClientKinds))
  BY <1>1 DEF ToServer, Messages
<1>3. toServer' = Tail(toServer)
  BY DEF ServerReceive
<1>4. CASE server.state # "zombie" /\ Acknowledges(server, msg.ack)
  <2>1. server' = [server EXCEPT !.reliableAcknowledge = msg.ack] /\ svInput' = msg.items
    BY <1>4 DEF ServerReceive, msg
  <2>2. msg.ack <= server.reliableSent
    BY <1>2, <1>4 DEF Acknowledges, TypeInv, GoodServer, Servers
  <2>3. /\ server' \in Servers /\ server'.reliableAcknowledge = msg.ack
        /\ server'.reliableSent = server.reliableSent
        /\ server'.reliableSequence = server.reliableSequence
        /\ server'.reliableCommands = server.reliableCommands
    BY <1>2, <2>1 DEF TypeInv, GoodServer, Servers
  <2>4. GoodServer(server')
    BY <2>2, <2>3 DEF TypeInv, GoodServer, Filled, Ordered
  <2>. QED BY <1>1, <1>2, <1>3, <2>1, <2>4 DEF ServerReceive, TypeInv, world, GoodServer, GoodClient, Filled, Ordered
<1>5. CASE ~(server.state # "zombie" /\ Acknowledges(server, msg.ack))
  <2>1. UNCHANGED <<server, svInput>>
    BY <1>5 DEF ServerReceive, msg
  <2>. QED BY <1>1, <1>3, <2>1 DEF ServerReceive, TypeInv, world, GoodServer, GoodClient, Filled, Ordered
<1>. QED BY <1>4, <1>5

\* The server goes on with a good record, and nothing else changes but what it parses.
LEMMA ServedTypes ==
  ASSUME TypeInv, GoodServer(server'), toClient' \in Seq(ToClient),
         svInput' \in Seq(Commands(ClientKinds)), executed' \in Seq(Nat),
         UNCHANGED <<client, world, clInput, toServer, typed, losses>>
  PROVE  TypeInv'
BY DEF TypeInv, world, GoodServer, GoodClient, Filled, Ordered

\* The record that a handler goes on with.
Asked == IF Head(svInput).level # level THEN Plain("reconnect")
         ELSE IF Head(svInput).arg = MAX_CONFIGSTRINGS THEN Command("baselines", level, 0, <<>>)
         ELSE Command("configstrings", level, Head(svInput).arg, <<>>)
ConfigStart == [Noted EXCEPT !.state = StartsConnected]
Configured == IF ConfigStart.state # "connected" THEN ConfigStart
              ELSE SendServerCommand(ConfigStart, Asked)
Baselined == SendServerCommand(Noted, Command("precache", level, 0, <<>>))
ToldAgain == SendServerCommand(SendServerCommand(Noted, Plain("changing")), Plain("reconnect"))
Began == IF Noted.state # "connected" THEN Dropped(Noted)
         ELSE IF Head(svInput).level # level THEN ToldAgain
         ELSE [Noted EXCEPT !.state = "spawned"]
-----------------------------------------------------------------------------
LEMMA ServerSkipsTypes ==
  ASSUME TypeInv, ServerSkips
  PROVE  TypeInv'
<1>1. svInput' \in Seq(Commands(ClientKinds))
  BY TakenType DEF ServerSkips
<1>. QED BY <1>1 DEF ServerSkips, TypeInv, world, GoodServer, GoodClient, Filled, Ordered

LEMMA SV_New_fTypes ==
  ASSUME TypeInv, SV_New_f
  PROVE  TypeInv'
<1>1. svInput # <<>>
  BY DEF SV_New_f, Taking
<1>2. GoodServer(server') /\ toClient' \in Seq(ToClient)
  BY <1>1, NotedIs, NewType DEF SV_New_f
<1>3. svInput' \in Seq(Commands(ClientKinds))
  BY <1>1, HandledType DEF SV_New_f
<1>. QED BY <1>2, <1>3, ServedTypes DEF SV_New_f, Handled, TypeInv

\* The record that the loop goes on with.
Looping == [server EXCEPT !.state = "connected"]
LEMMA LoopIs ==
  ASSUME TypeInv, ConfigstringsLoop
  PROVE  /\ Looping \in Servers /\ GoodServer(Looping) /\ Looping.state = "connected"
         /\ Looping.reliableSequence = server.reliableSequence
         /\ Looping.reliableAcknowledge = server.reliableAcknowledge
         /\ Looping.reliableSent = server.reliableSent
         /\ Looping.reliableCommands = server.reliableCommands
         /\ Looping.numbering = server.numbering
         /\ Looping.clientCommandExecuted = server.clientCommandExecuted
         /\ Head(svInput).arg \in Index
         /\ Serve(SendServerCommand(Looping, Cs(Head(svInput).arg)), <<>>)
<1>1. server \in Servers /\ GoodServer(server)
  BY DEF TypeInv, GoodServer
<1>2. Head(svInput).arg \in Index
  <2>1. Head(svInput).arg \in Nat /\ MAX_CONFIGSTRINGS \in Nat
    BY TakenType, SizeAssumption DEF ConfigstringsLoop, Taking
  <2>2. Head(svInput).arg < MAX_CONFIGSTRINGS
    BY DEF ConfigstringsLoop, InLoop
  <2>. QED BY <2>1, <2>2 DEF Index
<1>3. Serve(SendServerCommand(Looping, Cs(Head(svInput).arg)), <<>>)
  BY DEF ConfigstringsLoop, Looping
<1>. QED BY <1>1, <1>2, <1>3, StateIs DEF Looping

LEMMA ConfigstringsLoopTypes ==
  ASSUME TypeInv, ConfigstringsLoop
  PROVE  TypeInv'
<1>. DEFINE d == SendServerCommand(Looping, Cs(Head(svInput).arg))
<1>1. d \in Servers /\ GoodServer(d)
  BY LoopIs, CsIs, SendIs DEF GoodServer
<1>2. Serve(d, <<>>)
  BY LoopIs
<1>. HIDE DEF d
<1>3. <<>> \in Seq(ToClient)
  OBVIOUS
<1>4. GoodServer(server') /\ toClient' \in Seq(ToClient)
  BY <1>1, <1>2, <1>3, ServeType
<1>5. svInput' \in Seq(Commands(ClientKinds))
  <2>1. svInput # <<>>
    BY DEF ConfigstringsLoop, Taking
  <2>. DEFINE x == svInput[1]
              n == x.arg + 1
  <2>2. x \in Commands(ClientKinds) /\ n \in Nat
    BY <2>1, TakenType
  <2>3. svInput' = [svInput EXCEPT ![1] = [x EXCEPT !.arg = n]]
    BY DEF ConfigstringsLoop
  <2>. HIDE DEF x, n
  <2>4. [x EXCEPT !.arg = n] \in Commands(ClientKinds)
    BY <2>2 DEF Commands
  <2>. DEFINE y == [x EXCEPT !.arg = n]
  <2>. HIDE DEF y
  <2>5. svInput' = [svInput EXCEPT ![1] = y] /\ y \in Commands(ClientKinds)
    BY <2>3, <2>4 DEF y
  <2>6. svInput \in Seq(Commands(ClientKinds))
    BY DEF TypeInv
  <2>7. 1 \in DOMAIN svInput
    BY <2>1, <2>6
  <2>8. svInput' \in [1 .. Len(svInput) -> Commands(ClientKinds)] /\ Len(svInput) \in Nat
    BY <2>5, <2>6, <2>7
  <2>. QED BY <2>8
<1>. QED BY <1>4, <1>5, ServedTypes DEF ConfigstringsLoop, TypeInv

\* What the end of SV_Configstrings_f has the client ask next.
LEMMA AskedIs ==
  ASSUME TypeInv, svInput # <<>>
  PROVE  /\ Asked \in Commands(ServerKinds)
         /\ Asked.kind \in {"reconnect", "baselines", "configstrings"}
         /\ Asked.level \in {0, Head(svInput).level}
         /\ Asked.kind # "reconnect" => Asked.level = level
         /\ Asked.kind = "reconnect" <=> Head(svInput).level # level
<1>1. /\ level \in Nat /\ Head(svInput).arg \in Nat /\ <<>> \in Seq(Strings)
      /\ "reconnect" \in ServerKinds /\ "baselines" \in ServerKinds /\ "configstrings" \in ServerKinds
  BY TakenType DEF TypeInv, ServerKinds
<1>2. CASE Head(svInput).level # level
  BY <1>1, <1>2, PlainType DEF Asked
<1>3. CASE Head(svInput).level = level /\ Head(svInput).arg = MAX_CONFIGSTRINGS
  <2>. DEFINE x == Command("baselines", level, 0, <<>>)
  <2>1. x \in Commands(ServerKinds) /\ x.kind = "baselines" /\ x.level = level
    BY <1>1 DEF Command, Commands
  <2>2. Asked = x
    BY <1>3 DEF Asked
  <2>. HIDE DEF x
  <2>. QED BY <1>3, <2>1, <2>2
<1>4. CASE Head(svInput).level = level /\ Head(svInput).arg # MAX_CONFIGSTRINGS
  <2>. DEFINE x == Command("configstrings", level, Head(svInput).arg, <<>>)
  <2>1. x \in Commands(ServerKinds) /\ x.kind = "configstrings" /\ x.level = level
    BY <1>1 DEF Command, Commands
  <2>2. Asked = x
    BY <1>4 DEF Asked
  <2>. HIDE DEF x
  <2>. QED BY <1>4, <2>1, <2>2
<1>. QED BY <1>2, <1>3, <1>4

LEMMA ConfigstringsIs ==
  ASSUME TypeInv, SV_Configstrings_f
  PROVE  /\ svInput # <<>>
         /\ ConfigStart \in Servers /\ GoodServer(ConfigStart)
         /\ ConfigStart.state = StartsConnected
         /\ ConfigStart.reliableSequence = server.reliableSequence
         /\ ConfigStart.reliableAcknowledge = server.reliableAcknowledge
         /\ ConfigStart.reliableSent = server.reliableSent
         /\ ConfigStart.reliableCommands = server.reliableCommands
         /\ ConfigStart.numbering = server.numbering
         /\ Serve(Configured, <<>>)
         /\ Configured \in Servers /\ GoodServer(Configured)
<1>1. svInput # <<>>
  BY DEF SV_Configstrings_f, Taking
<1>2. StartsConnected \in {"zombie", "connecting", "connected", "spawned"}
  BY DEF StartsConnected, TypeInv, GoodServer, Servers
<1>3. /\ ConfigStart \in Servers /\ GoodServer(ConfigStart)
      /\ ConfigStart.state = StartsConnected
      /\ ConfigStart.reliableSequence = server.reliableSequence
      /\ ConfigStart.reliableAcknowledge = server.reliableAcknowledge
      /\ ConfigStart.reliableSent = server.reliableSent
      /\ ConfigStart.reliableCommands = server.reliableCommands
      /\ ConfigStart.numbering = server.numbering
  <2>1. ConfigStart = [Noted EXCEPT !.state = StartsConnected]
    BY DEF ConfigStart
  <2>2. Noted \in Servers /\ GoodServer(Noted)
    BY <1>1, NotedIs
  <2>3. /\ ConfigStart \in Servers /\ GoodServer(ConfigStart)
        /\ ConfigStart.state = StartsConnected
        /\ ConfigStart.reliableSequence = Noted.reliableSequence
        /\ ConfigStart.reliableAcknowledge = Noted.reliableAcknowledge
        /\ ConfigStart.reliableSent = Noted.reliableSent
        /\ ConfigStart.reliableCommands = Noted.reliableCommands
        /\ ConfigStart.numbering = Noted.numbering
    BY <1>2, <2>1, <2>2, StateIs
  <2>. QED BY <1>1, <2>3, NotedIs
<1>4. Serve(Configured, <<>>)
  BY DEF SV_Configstrings_f, Configured, ConfigStart, Asked
<1>5. Configured \in Servers /\ GoodServer(Configured)
  <2>1. CASE ConfigStart.state # "connected"
    BY <1>3, <2>1 DEF Configured
  <2>2. CASE ConfigStart.state = "connected"
    <3>1. Configured = SendServerCommand(ConfigStart, Asked)
      BY <2>2 DEF Configured
    <3>. QED BY <1>1, <1>3, <3>1, AskedIs, SendIs DEF GoodServer
  <2>. QED BY <2>1, <2>2
<1>. QED BY <1>1, <1>3, <1>4, <1>5

LEMMA SV_Configstrings_fTypes ==
  ASSUME TypeInv, SV_Configstrings_f
  PROVE  TypeInv'
<1>1. <<>> \in Seq(ToClient)
  OBVIOUS
<1>2. GoodServer(server') /\ toClient' \in Seq(ToClient)
  BY <1>1, ConfigstringsIs, ServeType
<1>3. svInput' \in Seq(Commands(ClientKinds))
  BY ConfigstringsIs, HandledType DEF SV_Configstrings_f
<1>. QED BY <1>2, <1>3, ServedTypes DEF SV_Configstrings_f, Handled, TypeInv

LEMMA BaselinedIs ==
  ASSUME TypeInv, svInput # <<>>
  PROVE  /\ Baselined \in Servers /\ GoodServer(Baselined)
         /\ AllSent(Baselined) \in Servers /\ GoodServer(AllSent(Baselined))
         /\ Message(Baselined, <<>>) \in ToClient
<1>1. level \in Nat /\ <<>> \in Seq(Strings) /\ <<>> \in Seq(Commands(ServerKinds \cup DataKinds))
      /\ "precache" \in ServerKinds
  BY DEF TypeInv, ServerKinds
<1>2. Command("precache", level, 0, <<>>) \in Commands(ServerKinds)
  BY <1>1, CommandType
<1>3. Baselined \in Servers /\ GoodServer(Baselined)
  BY <1>2, NotedIs, SendIs DEF Baselined, GoodServer
<1>. QED BY <1>1, <1>3, AllSentIs, MessageIs DEF GoodServer

LEMMA SV_Baselines_fTypes ==
  ASSUME TypeInv, SV_Baselines_f
  PROVE  TypeInv'
<1>0. <<>> \in Seq(ToClient)
  OBVIOUS
<1>1. svInput # <<>>
  BY DEF SV_Baselines_f, Taking
<1>2. GoodServer(server') /\ toClient' \in Seq(ToClient)
  <2>1. CASE Noted.state # "connected"
    <3>1. Serve(Noted, <<>>)
      BY <2>1 DEF SV_Baselines_f
    <3>. QED BY <1>0, <1>1, <3>1, NotedIs, ServeType
  <2>2. CASE Noted.state = "connected" /\ Head(svInput).level # level
    <3>1. New(Noted)
      BY <2>2 DEF SV_Baselines_f
    <3>. QED BY <1>1, <3>1, NotedIs, NewType
  <2>3. CASE Noted.state = "connected" /\ Head(svInput).level = level
    <3>. DEFINE msgs == <<Message(Baselined, <<>>)>>
    <3>1. Serve(AllSent(Baselined), msgs)
      BY <2>3 DEF SV_Baselines_f, Baselined
    <3>2. msgs \in Seq(ToClient)
      BY <1>1, BaselinedIs
    <3>. HIDE DEF msgs
    <3>. QED BY <1>1, <3>1, <3>2, BaselinedIs, ServeType
  <2>. QED BY <2>1, <2>2, <2>3
<1>3. svInput' \in Seq(Commands(ClientKinds))
  BY <1>1, HandledType DEF SV_Baselines_f
<1>. QED BY <1>2, <1>3, ServedTypes DEF SV_Baselines_f, Handled, TypeInv

LEMMA BeganIs ==
  ASSUME TypeInv, svInput # <<>>
  PROVE  /\ Began \in Servers /\ GoodServer(Began)
         /\ SendServerCommand(Noted, Plain("changing")) \in Servers
         /\ GoodServer(SendServerCommand(Noted, Plain("changing")))
<1>1. Noted \in Servers /\ GoodServer(Noted) /\ Filled(Noted) /\ Ordered(Noted)
  BY NotedIs DEF GoodServer
<1>2. Plain("changing") \in Commands(ServerKinds) /\ Plain("reconnect") \in Commands(ServerKinds)
  BY PlainType DEF ServerKinds
<1>. DEFINE c == SendServerCommand(Noted, Plain("changing"))
<1>3. c \in Servers /\ GoodServer(c) /\ Filled(c) /\ Ordered(c)
  BY <1>1, <1>2, SendIs DEF GoodServer
<1>. HIDE DEF c
<1>4. SendServerCommand(c, Plain("reconnect")) \in Servers /\ GoodServer(SendServerCommand(c, Plain("reconnect")))
  BY <1>2, <1>3, SendIs
<1>5. ToldAgain \in Servers /\ GoodServer(ToldAgain)
  BY <1>4 DEF ToldAgain, c
<1>. DEFINE s == [Noted EXCEPT !.state = "spawned"]
<1>6. s \in Servers /\ GoodServer(s)
  BY <1>1, StateIs
<1>. HIDE DEF s
<1>7. Dropped(Noted) \in Servers /\ GoodServer(Dropped(Noted))
  BY <1>1, DroppedIs
<1>8. Began = Dropped(Noted) \/ Began = ToldAgain \/ Began = s
  BY DEF Began, s
<1>. QED BY <1>3, <1>5, <1>6, <1>7, <1>8 DEF c

LEMMA SV_Begin_fTypes ==
  ASSUME TypeInv, SV_Begin_f
  PROVE  TypeInv'
<1>0. <<>> \in Seq(ToClient)
  OBVIOUS
<1>1. svInput # <<>> /\ Serve(Began, <<>>)
  BY DEF SV_Begin_f, Taking, Began, ToldAgain
<1>2. GoodServer(server') /\ toClient' \in Seq(ToClient)
  BY <1>0, <1>1, BeganIs, ServeType
<1>3. svInput' \in Seq(Commands(ClientKinds))
  BY <1>1, HandledType DEF SV_Begin_f
<1>. QED BY <1>2, <1>3, ServedTypes DEF SV_Begin_f, Handled, TypeInv

LEMMA SV_Disconnect_fTypes ==
  ASSUME TypeInv, SV_Disconnect_f
  PROVE  TypeInv'
<1>0. <<>> \in Seq(ToClient)
  OBVIOUS
<1>1. svInput # <<>> /\ Serve(Dropped(Noted), <<>>)
  BY DEF SV_Disconnect_f, Taking
<1>2. Dropped(Noted) \in Servers /\ GoodServer(Dropped(Noted))
  BY <1>1, NotedIs, DroppedIs DEF GoodServer
<1>3. GoodServer(server') /\ toClient' \in Seq(ToClient)
  BY <1>0, <1>1, <1>2, ServeType
<1>4. svInput' \in Seq(Commands(ClientKinds))
  BY <1>1, HandledType DEF SV_Disconnect_f
<1>. QED BY <1>3, <1>4, ServedTypes DEF SV_Disconnect_f, Handled, TypeInv

LEMMA ClientCommandTypes ==
  ASSUME TypeInv, ClientCommand
  PROVE  TypeInv'
<1>0. <<>> \in Seq(ToClient)
  OBVIOUS
<1>1. svInput # <<>> /\ Serve(Noted, <<>>)
  BY DEF ClientCommand, Taking
<1>2. GoodServer(server') /\ toClient' \in Seq(ToClient)
  BY <1>0, <1>1, NotedIs, ServeType
<1>3. svInput' \in Seq(Commands(ClientKinds))
  BY <1>1, HandledType DEF ClientCommand
<1>4. executed' \in Seq(Nat)
  <2>1. Head(svInput).arg \in Nat /\ executed \in Seq(Nat)
    BY <1>1, TakenType DEF TypeInv
  <2>2. executed' = executed \/ executed' = Append(executed, Head(svInput).arg)
    BY DEF ClientCommand
  <2>. QED BY <2>1, <2>2
<1>. QED BY <1>2, <1>3, <1>4, ServedTypes DEF ClientCommand, Handled
-----------------------------------------------------------------------------
\* The client goes on with a good record, and nothing else changes but what it parses.
LEMMA BecomesTypes ==
  ASSUME TypeInv, NEW k \in Clients, Filled(k), Become(k),
         clInput' \in Seq(Commands(ServerKinds \cup DataKinds)), typed' \in Nat,
         UNCHANGED <<server, world, svInput, toClient, executed, losses>>
  PROVE  TypeInv'
<1>1. GoodClient(client') /\ toServer' \in Seq(ToServer)
  BY BecomeType
<1>. QED BY <1>1 DEF TypeInv, world, GoodServer, GoodClient, Filled, Ordered

\* What the client parses is a command of the server, or data.
LEMMA HereType ==
  ASSUME TypeInv, clInput # <<>>
  PROVE  /\ Head(clInput) \in Commands(ServerKinds \cup DataKinds) /\ Head(clInput) = clInput[1]
         /\ Head(clInput).num \in Nat /\ Head(clInput).level \in Nat /\ Head(clInput).arg \in Nat
         /\ Head(clInput).kind \in ServerKinds \cup DataKinds
         /\ Head(clInput).strings \in Seq(Strings)
         /\ Tail(clInput) \in Seq(Commands(ServerKinds \cup DataKinds))
<1>. DEFINE K == Commands(ServerKinds \cup DataKinds)
            x == Head(clInput)
<1>1. clInput \in Seq(K)
  BY DEF TypeInv
<1>2. x \in K /\ x = clInput[1] /\ Tail(clInput) \in Seq(K)
  BY <1>1, TailFacts
<1>. HIDE DEF x
<1>3. x \in K => x.num \in Nat /\ x.level \in Nat /\ x.arg \in Nat /\ x.kind \in ServerKinds \cup DataKinds
                 /\ x.strings \in Seq(Strings)
  BY DEF Commands
<1>. QED BY <1>2, <1>3 DEF x

LEMMA NotedHereIs ==
  ASSUME TypeInv, clInput # <<>>
  PROVE  /\ NotedHere \in Clients /\ Filled(NotedHere)
         /\ NotedHere.state = client.state /\ NotedHere.left = client.left
         /\ NotedHere.reliableSequence = client.reliableSequence
         /\ NotedHere.reliableAcknowledge = client.reliableAcknowledge
         /\ NotedHere.reliableCommands = client.reliableCommands
         /\ NotedHere.servercount = client.servercount /\ NotedHere.snap = client.snap
         /\ NotedHere.numbering = client.numbering
         /\ NotedHere.configstrings = client.configstrings /\ NotedHere.cgame = client.cgame
         /\ NotedHere.lastExecutedServerCommand =
              IF Numbered(Head(clInput)) THEN Head(clInput).num ELSE client.lastExecutedServerCommand
<1>0. client \in Clients /\ Filled(client)
  BY DEF TypeInv, GoodClient
<1>1. CASE ~Numbered(Head(clInput))
  BY <1>0, <1>1 DEF NotedHere
<1>2. CASE Numbered(Head(clInput))
  <2>. DEFINE n == Head(clInput).num
  <2>1. n \in Nat
    BY HereType
  <2>2. NotedHere = [client EXCEPT !.lastExecutedServerCommand = n]
    BY <1>2 DEF NotedHere
  <2>. HIDE DEF n
  <2>3. /\ NotedHere \in Clients
        /\ NotedHere.state = client.state /\ NotedHere.left = client.left
        /\ NotedHere.reliableSequence = client.reliableSequence
        /\ NotedHere.reliableAcknowledge = client.reliableAcknowledge
        /\ NotedHere.reliableCommands = client.reliableCommands
        /\ NotedHere.servercount = client.servercount /\ NotedHere.snap = client.snap
        /\ NotedHere.numbering = client.numbering
        /\ NotedHere.configstrings = client.configstrings /\ NotedHere.cgame = client.cgame
        /\ NotedHere.lastExecutedServerCommand = n
    BY <1>0, <2>1, <2>2 DEF Clients
  <2>4. Filled(NotedHere)
    BY <1>0, <2>3 DEF Filled
  <2>. QED BY <1>2, <2>3, <2>4 DEF n
<1>. QED BY <1>1, <1>2

LEMMA SendMessagesToServerTypes ==
  ASSUME TypeInv, SendMessagesToServer
  PROVE  TypeInv'
<1>1. MessageToServer(client) \in ToServer
  BY ClientMessageIs DEF TypeInv, GoodClient
<1>2. toServer' = Append(toServer, MessageToServer(client)) /\ toServer \in Seq(ToServer)
  BY DEF SendMessagesToServer, TypeInv
<1>. DEFINE m == MessageToServer(client)
<1>. HIDE DEF m
<1>3. toServer' \in Seq(ToServer)
  <2>1. m \in ToServer /\ toServer' = Append(toServer, m)
    BY <1>1, <1>2 DEF m
  <2>. QED BY <1>2, <2>1
<1>. QED BY <1>3 DEF SendMessagesToServer, TypeInv, world, GoodServer, GoodClient, Filled, Ordered

LEMMA TypeCommandTypes ==
  ASSUME TypeInv, TypeCommand
  PROVE  TypeInv'
<1>1. typed' \in Nat /\ <<>> \in Seq(Strings) /\ client \in Clients /\ Filled(client)
      /\ "typed" \in ClientKinds
  BY DEF TypeCommand, TypeInv, GoodClient, ClientKinds
<1>. DEFINE x == Command("typed", 0, typed', <<>>)
            k == AddReliableCommand(client, x)
<1>2. x \in Commands(ClientKinds)
  BY <1>1, CommandType
<1>. HIDE DEF x
<1>3. k \in Clients /\ Filled(k)
  BY <1>1, <1>2, AddIs
<1>. HIDE DEF k
<1>4. Become(k)
  BY DEF TypeCommand, k, x
<1>. QED BY <1>1, <1>3, <1>4, BecomesTypes DEF TypeCommand, TypeInv

\* What leaving changes.
LEMMA LeftIs ==
  ASSUME NEW k \in Clients, Filled(k), NEW why \in {"closed", "quit", "timeout"}
  PROVE  LET d == Left(k, why)
         IN  /\ d \in Clients /\ Filled(d)
             /\ d.state = "disconnected"
             /\ d.left = IF k.state = "disconnected" THEN k.left ELSE why
             /\ d.reliableSequence = k.reliableSequence /\ d.reliableAcknowledge = k.reliableAcknowledge
             /\ d.reliableCommands = k.reliableCommands /\ d.numbering = k.numbering
             /\ d.servercount = k.servercount /\ d.snap = k.snap
             /\ d.lastExecutedServerCommand = k.lastExecutedServerCommand
<1>. DEFINE d == Left(k, why)
<1>1. CASE k.state = "disconnected"
  BY <1>1 DEF Left
<1>2. CASE k.state # "disconnected"
  <2>1. d = [k EXCEPT !.state = "disconnected", !.left = why, !.cgame = FALSE]
    BY <1>2 DEF Left
  <2>. HIDE DEF d
  <2>2. /\ d \in Clients /\ d.state = "disconnected" /\ d.left = why
        /\ d.reliableSequence = k.reliableSequence /\ d.reliableAcknowledge = k.reliableAcknowledge
        /\ d.reliableCommands = k.reliableCommands /\ d.numbering = k.numbering
        /\ d.servercount = k.servercount /\ d.snap = k.snap
        /\ d.lastExecutedServerCommand = k.lastExecutedServerCommand
    BY <2>1 DEF Clients
  <2>3. Filled(d)
    BY <2>2 DEF Filled
  <2>. QED BY <1>2, <2>2, <2>3 DEF d
<1>. QED BY <1>1, <1>2

LEMMA QuitTypes ==
  ASSUME TypeInv, Quit
  PROVE  TypeInv'
<1>1. Left(client, "quit") \in Clients /\ Filled(Left(client, "quit"))
  BY LeftIs DEF TypeInv, GoodClient
<1>. QED BY <1>1, BecomesTypes DEF Quit, TypeInv

LEMMA ClientTimeoutTypes ==
  ASSUME TypeInv, ClientTimeout
  PROVE  TypeInv'
<1>1. Left(client, "timeout") \in Clients /\ Filled(Left(client, "timeout"))
  BY LeftIs DEF TypeInv, GoodClient
<1>. QED BY <1>1, BecomesTypes DEF ClientTimeout, TypeInv

LEMMA AdjustServerTimeTypes ==
  ASSUME TypeInv, AdjustServerTime
  PROVE  TypeInv'
<1>1. client \in Clients /\ Filled(client) /\ client' = [client EXCEPT !.state = "active"]
  BY DEF TypeInv, GoodClient, AdjustServerTime
<1>2. /\ client' \in Clients /\ client'.reliableSequence = client.reliableSequence
      /\ client'.reliableCommands = client.reliableCommands
  BY <1>1 DEF Clients
<1>3. GoodClient(client')
  BY <1>1, <1>2 DEF GoodClient, Filled
<1>. QED BY <1>3 DEF AdjustServerTime, TypeInv, world, GoodServer, GoodClient, Filled, Ordered

LEMMA ClientReceiveTypes ==
  ASSUME TypeInv, ClientReceive
  PROVE  TypeInv'
<1>. DEFINE msg == Head(toClient)
<1>1. msg \in ToClient /\ Tail(toClient) \in Seq(ToClient)
  BY TailFacts DEF ClientReceive, TypeInv
<1>. HIDE DEF msg
<1>2. msg.ack \in Nat /\ msg.items \in Seq(Commands(ServerKinds \cup DataKinds))
  BY <1>1 DEF ToClient, Messages
<1>3. toClient' = Tail(toClient)
  BY DEF ClientReceive
<1>4. CASE client.state = "disconnected"
  BY <1>1, <1>3, <1>4 DEF ClientReceive, TypeInv, world, GoodServer, GoodClient, Filled, Ordered
<1>5. CASE client.state # "disconnected"
  <2>0. client' = [client EXCEPT !.reliableAcknowledge = msg.ack] /\ clInput' = msg.items
    BY <1>5 DEF ClientReceive, msg
  <2>1. client \in Clients /\ Filled(client)
    BY DEF TypeInv, GoodClient
  <2>2. /\ client' \in Clients /\ client'.reliableSequence = client.reliableSequence
        /\ client'.reliableCommands = client.reliableCommands
    BY <1>2, <2>0, <2>1 DEF Clients
  <2>3. GoodClient(client')
    BY <2>1, <2>2 DEF GoodClient, Filled
  <2>. QED BY <1>1, <1>2, <1>3, <2>0, <2>3 DEF ClientReceive, TypeInv, world, GoodServer, GoodClient, Filled, Ordered
<1>. QED BY <1>4, <1>5

LEMMA ClientSkipsTypes ==
  ASSUME TypeInv, ClientSkips
  PROVE  TypeInv'
<1>1. clInput' \in Seq(Commands(ServerKinds \cup DataKinds))
  BY HereType DEF ClientSkips
<1>. QED BY <1>1 DEF ClientSkips, TypeInv, world, GoodServer, GoodClient, Filled, Ordered

\* The client that serverdata make.
Welcomed == [ClearState(client, "connected") EXCEPT
               !.servercount = Head(clInput).level, !.numbering = Head(clInput).arg]
Asking1 == Command("configstrings", Head(clInput).level, 0, <<>>)
LEMMA WelcomedIs ==
  ASSUME TypeInv, clInput # <<>>
  PROVE  /\ Welcomed \in Clients /\ Filled(Welcomed)
         /\ Welcomed.state = "connected" /\ Welcomed.left = client.left
         /\ Welcomed.reliableSequence = 0 /\ Welcomed.reliableAcknowledge = 0
         /\ Welcomed.reliableCommands = NoCommands /\ Welcomed.lastExecutedServerCommand = 0
         /\ Welcomed.snap = 0 /\ Welcomed.servercount = Head(clInput).level
         /\ Welcomed.numbering = Head(clInput).arg
         /\ Asking1 \in Commands(ClientKinds) /\ Asking1.kind = "configstrings"
         /\ Asking1.level = Head(clInput).level
         /\ ~ClientFull(Welcomed)
<1>. DEFINE c == ClearState(client, "connected")
<1>1. Head(clInput).level \in Nat /\ Head(clInput).arg \in Nat /\ <<>> \in Seq(Strings) /\ client \in Clients
      /\ "configstrings" \in ClientKinds
  BY HereType DEF TypeInv, GoodClient, ClientKinds
<1>2. c \in Clients /\ Cleared(client, "connected", c)
  BY <1>1, ClearStateIs
<1>3. Welcomed = [c EXCEPT !.servercount = Head(clInput).level, !.numbering = Head(clInput).arg]
  BY DEF Welcomed
<1>. HIDE DEF c
<1>4. /\ Welcomed \in Clients
      /\ Welcomed.state = "connected" /\ Welcomed.left = client.left
      /\ Welcomed.reliableSequence = 0 /\ Welcomed.reliableAcknowledge = 0
      /\ Welcomed.reliableCommands = NoCommands /\ Welcomed.lastExecutedServerCommand = 0
      /\ Welcomed.snap = 0 /\ Welcomed.servercount = Head(clInput).level
      /\ Welcomed.numbering = Head(clInput).arg
  BY <1>1, <1>2, <1>3 DEF Clients, Cleared
<1>5. Filled(Welcomed)
  <2>1. 1 .. Welcomed.reliableSequence = {}
    BY <1>4
  <2>. QED BY <2>1 DEF Filled
<1>6. /\ Asking1 \in Commands(ClientKinds) /\ Asking1.kind = "configstrings"
      /\ Asking1.level = Head(clInput).level
  BY <1>1 DEF Asking1, Command, Commands
<1>7. ~ClientFull(Welcomed)
  BY <1>4, SizeAssumption DEF ClientFull
<1>. QED BY <1>4, <1>5, <1>6, <1>7

\* A serverdata that is waited for.
LEMMA WelcomeIs ==
  ASSUME TypeInv, ParseServerData, client.state = "handshake"
  PROVE  /\ clInput # <<>> /\ clInput' = Tail(clInput)
         /\ client' = Store(Welcomed, Asking1) /\ toServer' = toServer
         /\ client' \in Clients /\ Filled(client') /\ ClientStores(Welcomed, Asking1, client')
<1>1. clInput # <<>> /\ clInput' = Tail(clInput) /\ Become(AddReliableCommand(Welcomed, Asking1))
  BY DEF ParseServerData, TakingHere, Welcomed, Asking1
<1>2. AddReliableCommand(Welcomed, Asking1) = Store(Welcomed, Asking1)
  BY <1>1, WelcomedIs DEF AddReliableCommand
<1>. DEFINE k == Store(Welcomed, Asking1)
<1>3. k \in Clients /\ Filled(k) /\ ClientStores(Welcomed, Asking1, k)
  BY <1>1, WelcomedIs, ClientStoreIs
<1>. HIDE DEF k
<1>4. Become(k)
  BY <1>1, <1>2 DEF k
<1>5. k.state = "connected"
  BY <1>1, <1>3, WelcomedIs DEF ClientStores
<1>6. client' = k /\ toServer' = toServer
  BY <1>4, <1>5 DEF Become
<1>. QED BY <1>1, <1>3, <1>6 DEF k

LEMMA ParseServerDataTypes ==
  ASSUME TypeInv, ParseServerData
  PROVE  TypeInv'
<1>1. CASE client.state = "handshake"
  <2>1. GoodClient(client') /\ toServer' = toServer
    BY <1>1, WelcomeIs DEF GoodClient, Filled
  <2>2. clInput' \in Seq(Commands(ServerKinds \cup DataKinds))
    BY <1>1, WelcomeIs, HereType
  <2>. QED BY <2>1, <2>2 DEF ParseServerData, TypeInv, world, GoodServer, GoodClient, Filled, Ordered
<1>2. CASE client.state # "handshake"
  <2>1. clInput' \in Seq(Commands(ServerKinds \cup DataKinds))
    BY <1>2 DEF ParseServerData
  <2>. QED BY <1>2, <2>1 DEF ParseServerData, TypeInv, world, GoodServer, GoodClient, Filled, Ordered
<1>. QED BY <1>1, <1>2
-----------------------------------------------------------------------------
LEMMA ParseFrameTypes ==
  ASSUME TypeInv, ParseFrame
  PROVE  TypeInv'
<1>1. clInput # <<>> /\ Head(clInput).level \in Nat
  BY HereType DEF ParseFrame, TakingHere
<1>. DEFINE k == [client EXCEPT !.snap = Head(clInput).level]
<1>2. client \in Clients /\ Filled(client)
  BY DEF TypeInv, GoodClient
<1>3. k \in Clients /\ k.reliableSequence = client.reliableSequence /\ k.reliableCommands = client.reliableCommands
  BY <1>1, <1>2 DEF Clients
<1>4. Become(k)
  BY DEF ParseFrame
<1>. HIDE DEF k
<1>5. Filled(k)
  BY <1>2, <1>3 DEF Filled
<1>6. clInput' \in Seq(Commands(ServerKinds \cup DataKinds))
  BY <1>1, HereType DEF ParseFrame, HandledHere
<1>. QED BY <1>3, <1>4, <1>5, <1>6, BecomesTypes DEF ParseFrame, HandledHere, TypeInv

\* A string that is put in its place.
LEMMA UpdateType ==
  ASSUME NEW old \in StringTables, NEW strings \in Seq(Strings)
  PROVE  UpdateConfigStrings(old, strings) \in StringTables
<1>1. SUFFICES ASSUME NEW i \in Index, With(strings, i) # {}
               PROVE  [version |-> strings[Max(With(strings, i))].version,
                       size |-> strings[Max(With(strings, i))].size] \in Values
  BY DEF UpdateConfigStrings, StringTables
<1>2. With(strings, i) \in SUBSET (1 .. Len(strings)) /\ Len(strings) \in Nat
  BY DEF With
<1>3. Max(With(strings, i)) \in 1 .. Len(strings)
  BY <1>1, <1>2, Greatest
<1>. DEFINE s == strings[Max(With(strings, i))]
<1>4. s \in Strings
  BY <1>3
<1>. HIDE DEF s
<1>5. [version |-> s.version, size |-> s.size] \in Values
  BY <1>4 DEF Strings, Values
<1>. QED BY <1>5 DEF s

\* What a "cs" command makes of the client.
Updated == [NotedHere EXCEPT !.configstrings = UpdateConfigStrings(@, Head(clInput).strings)]
LEMMA UpdatedIs ==
  ASSUME TypeInv, clInput # <<>>
  PROVE  /\ Updated \in Clients /\ Filled(Updated)
         /\ Updated.state = client.state /\ Updated.left = client.left
         /\ Updated.reliableSequence = client.reliableSequence
         /\ Updated.reliableAcknowledge = client.reliableAcknowledge
         /\ Updated.reliableCommands = client.reliableCommands
         /\ Updated.servercount = client.servercount /\ Updated.snap = client.snap
         /\ Updated.numbering = client.numbering
         /\ Updated.lastExecutedServerCommand = NotedHere.lastExecutedServerCommand
<1>. DEFINE table == UpdateConfigStrings(NotedHere.configstrings, Head(clInput).strings)
<1>1. NotedHere \in Clients /\ Filled(NotedHere) /\ NotedHere.configstrings \in StringTables
  BY NotedHereIs DEF Clients
<1>2. table \in StringTables
  BY <1>1, HereType, UpdateType
<1>3. Updated = [NotedHere EXCEPT !.configstrings = table]
  BY <1>1 DEF Updated, Clients
<1>. HIDE DEF table
<1>4. /\ Updated \in Clients
      /\ Updated.state = NotedHere.state /\ Updated.left = NotedHere.left
      /\ Updated.reliableSequence = NotedHere.reliableSequence
      /\ Updated.reliableAcknowledge = NotedHere.reliableAcknowledge
      /\ Updated.reliableCommands = NotedHere.reliableCommands
      /\ Updated.servercount = NotedHere.servercount /\ Updated.snap = NotedHere.snap
      /\ Updated.numbering = NotedHere.numbering
      /\ Updated.lastExecutedServerCommand = NotedHere.lastExecutedServerCommand
  BY <1>1, <1>2, <1>3 DEF Clients
<1>5. Filled(Updated)
  BY <1>1, <1>4 DEF Filled
<1>. QED BY <1>4, <1>5, NotedHereIs

LEMMA ParseConfigstringCommandTypes ==
  ASSUME TypeInv, ParseConfigstringCommand
  PROVE  TypeInv'
<1>1. clInput # <<>>
  BY DEF ParseConfigstringCommand, TakingHere
<1>2. Become(Updated)
  BY DEF ParseConfigstringCommand, Updated
<1>3. clInput' \in Seq(Commands(ServerKinds \cup DataKinds))
  BY <1>1, HereType DEF ParseConfigstringCommand, HandledHere
<1>. QED BY <1>1, <1>2, <1>3, UpdatedIs, BecomesTypes DEF ParseConfigstringCommand, HandledHere, TypeInv

\* What is left to parse after a command that was answered.
LEMMA AnsweredInput ==
  ASSUME TypeInv, clInput # <<>>, clInput' = <<>> \/ clInput' = Tail(clInput)
  PROVE  clInput' \in Seq(Commands(ServerKinds \cup DataKinds))
<1>1. <<>> \in Seq(Commands(ServerKinds \cup DataKinds))
  OBVIOUS
<1>. QED BY <1>1, HereType

LEMMA ForwardToServerTypes ==
  ASSUME TypeInv, ForwardToServer
  PROVE  TypeInv'
<1>1. clInput # <<>> /\ Head(clInput).kind \in {"configstrings", "baselines"}
  BY DEF ForwardToServer, TakingHere
<1>2. NotedHere \in Clients /\ Filled(NotedHere)
  BY <1>1, NotedHereIs
<1>3. Head(clInput) \in Commands(ClientKinds)
  <2>. DEFINE x == Head(clInput)
  <2>1. x \in Commands(ServerKinds \cup DataKinds) /\ x.kind \in {"configstrings", "baselines"}
    BY <1>1, HereType
  <2>. HIDE DEF x
  <2>2. x \in Commands(ClientKinds)
    BY <2>1 DEF Commands, ClientKinds
  <2>. QED BY <2>2 DEF x
<1>. DEFINE k == AddReliableCommand(NotedHere, Head(clInput))
<1>4. k \in Clients /\ Filled(k)
  BY <1>2, <1>3, AddIs
<1>. HIDE DEF k
<1>5. /\ Become(k) \/ Become(NotedHere)
      /\ clInput' = <<>> \/ clInput' = Tail(clInput)
  BY DEF ForwardToServer, k
<1>6. clInput' \in Seq(Commands(ServerKinds \cup DataKinds))
  BY <1>1, <1>5, AnsweredInput
<1>. QED BY <1>2, <1>4, <1>5, <1>6, BecomesTypes DEF ForwardToServer, TypeInv

\* The client with its game module loaded, and what it says then.
Loaded == [NotedHere EXCEPT !.cgame = TRUE]
Beginning == Command("begin", Head(clInput).level, 0, <<>>)
LEMMA LoadedIs ==
  ASSUME TypeInv, clInput # <<>>
  PROVE  /\ Loaded \in Clients /\ Filled(Loaded)
         /\ Loaded.state = client.state /\ Loaded.left = client.left
         /\ Loaded.reliableSequence = client.reliableSequence
         /\ Loaded.reliableAcknowledge = client.reliableAcknowledge
         /\ Loaded.reliableCommands = client.reliableCommands
         /\ Loaded.servercount = client.servercount /\ Loaded.snap = client.snap
         /\ Loaded.numbering = client.numbering
         /\ Loaded.lastExecutedServerCommand = NotedHere.lastExecutedServerCommand
         /\ Beginning \in Commands(ClientKinds) /\ Beginning.kind = "begin"
         /\ Beginning.level = Head(clInput).level
<1>1. NotedHere \in Clients /\ Filled(NotedHere)
  BY NotedHereIs
<1>2. Loaded = [NotedHere EXCEPT !.cgame = TRUE]
  BY DEF Loaded
<1>3. /\ Loaded \in Clients
      /\ Loaded.state = NotedHere.state /\ Loaded.left = NotedHere.left
      /\ Loaded.reliableSequence = NotedHere.reliableSequence
      /\ Loaded.reliableAcknowledge = NotedHere.reliableAcknowledge
      /\ Loaded.reliableCommands = NotedHere.reliableCommands
      /\ Loaded.servercount = NotedHere.servercount /\ Loaded.snap = NotedHere.snap
      /\ Loaded.numbering = NotedHere.numbering
      /\ Loaded.lastExecutedServerCommand = NotedHere.lastExecutedServerCommand
  BY <1>1, <1>2 DEF Clients
<1>4. Filled(Loaded)
  BY <1>1, <1>3 DEF Filled
<1>5. Head(clInput).level \in Nat /\ <<>> \in Seq(Strings) /\ "begin" \in ClientKinds
  BY HereType DEF ClientKinds
<1>6. /\ Beginning \in Commands(ClientKinds) /\ Beginning.kind = "begin"
      /\ Beginning.level = Head(clInput).level
  BY <1>5 DEF Beginning, Command, Commands
<1>. QED BY <1>3, <1>4, <1>6, NotedHereIs

LEMMA PrecacheTypes ==
  ASSUME TypeInv, Precache
  PROVE  TypeInv'
<1>1. clInput # <<>>
  BY DEF Precache, TakingHere
<1>2. NotedHere \in Clients /\ Filled(NotedHere)
  BY <1>1, NotedHereIs
<1>. DEFINE k == AddReliableCommand(Loaded, Beginning)
<1>4. k \in Clients /\ Filled(k)
  BY <1>1, LoadedIs, AddIs
<1>. HIDE DEF k
<1>5. /\ Become(k) \/ Become(NotedHere)
      /\ clInput' = <<>> \/ clInput' = Tail(clInput)
  BY DEF Precache, k, Loaded, Beginning
<1>6. clInput' \in Seq(Commands(ServerKinds \cup DataKinds))
  BY <1>1, <1>5, AnsweredInput
<1>. QED BY <1>2, <1>4, <1>5, <1>6, BecomesTypes DEF Precache, TypeInv

\* The client that "changing" makes, and the one that "reconnect" makes.
NoStrings == [i \in Index |-> NoString]
Told == [NotedHere EXCEPT !.state = "connected", !.snap = 0, !.configstrings = NoStrings]
Greeting == [NotedHere EXCEPT !.state = "handshake", !.cgame = FALSE, !.configstrings = NoStrings]
LEMMA NoStringsType == NoStrings \in StringTables
BY DEF NoStrings, NoString, StringTables, Values

LEMMA ToldIs ==
  ASSUME TypeInv, clInput # <<>>
  PROVE  /\ Told \in Clients /\ Filled(Told)
         /\ Told.state = "connected" /\ Told.snap = 0 /\ Told.left = client.left
         /\ Told.reliableSequence = client.reliableSequence
         /\ Told.reliableAcknowledge = client.reliableAcknowledge
         /\ Told.reliableCommands = client.reliableCommands
         /\ Told.servercount = client.servercount
         /\ Told.numbering = client.numbering
         /\ Told.lastExecutedServerCommand = NotedHere.lastExecutedServerCommand
<1>1. NotedHere \in Clients /\ Filled(NotedHere)
  BY NotedHereIs
<1>2. /\ Told \in Clients
      /\ Told.state = "connected" /\ Told.snap = 0 /\ Told.left = NotedHere.left
      /\ Told.reliableSequence = NotedHere.reliableSequence
      /\ Told.reliableAcknowledge = NotedHere.reliableAcknowledge
      /\ Told.reliableCommands = NotedHere.reliableCommands
      /\ Told.servercount = NotedHere.servercount
      /\ Told.numbering = NotedHere.numbering
      /\ Told.lastExecutedServerCommand = NotedHere.lastExecutedServerCommand
  BY <1>1, NoStringsType DEF Told, Clients
<1>3. Filled(Told)
  BY <1>1, <1>2 DEF Filled
<1>. QED BY <1>2, <1>3, NotedHereIs

LEMMA GreetingIs ==
  ASSUME TypeInv, clInput # <<>>
  PROVE  /\ Greeting \in Clients /\ Filled(Greeting)
         /\ Greeting.state = "handshake" /\ Greeting.snap = client.snap /\ Greeting.left = client.left
         /\ Greeting.reliableSequence = client.reliableSequence
         /\ Greeting.reliableAcknowledge = client.reliableAcknowledge
         /\ Greeting.reliableCommands = client.reliableCommands
         /\ Greeting.servercount = client.servercount
         /\ Greeting.numbering = client.numbering
         /\ Greeting.lastExecutedServerCommand = NotedHere.lastExecutedServerCommand
         /\ Plain("new") \in Commands(ClientKinds) /\ Plain("new").kind = "new" /\ Plain("new").level = 0
<1>1. NotedHere \in Clients /\ Filled(NotedHere)
  BY NotedHereIs
<1>2. /\ Greeting \in Clients
      /\ Greeting.state = "handshake" /\ Greeting.snap = NotedHere.snap /\ Greeting.left = NotedHere.left
      /\ Greeting.reliableSequence = NotedHere.reliableSequence
      /\ Greeting.reliableAcknowledge = NotedHere.reliableAcknowledge
      /\ Greeting.reliableCommands = NotedHere.reliableCommands
      /\ Greeting.servercount = NotedHere.servercount
      /\ Greeting.numbering = NotedHere.numbering
      /\ Greeting.lastExecutedServerCommand = NotedHere.lastExecutedServerCommand
  BY <1>1, NoStringsType DEF Greeting, Clients
<1>3. Filled(Greeting)
  BY <1>1, <1>2 DEF Filled
<1>4. "new" \in ClientKinds
  BY DEF ClientKinds
<1>. QED BY <1>2, <1>3, <1>4, NotedHereIs, PlainType

LEMMA ChangingTypes ==
  ASSUME TypeInv, Changing
  PROVE  TypeInv'
<1>1. clInput # <<>>
  BY DEF Changing, TakingHere
<1>2. Become(Told)
  BY DEF Changing, Told, NoStrings
<1>3. clInput' \in Seq(Commands(ServerKinds \cup DataKinds))
  BY <1>1, HereType DEF Changing, HandledHere
<1>. QED BY <1>1, <1>2, <1>3, ToldIs, BecomesTypes DEF Changing, HandledHere, TypeInv

LEMMA ServerReconnectTypes ==
  ASSUME TypeInv, ServerReconnect
  PROVE  TypeInv'
<1>1. clInput # <<>>
  BY DEF ServerReconnect, TakingHere
<1>2. NotedHere \in Clients /\ Filled(NotedHere)
  BY <1>1, NotedHereIs
<1>. DEFINE k == AddReliableCommand(Greeting, Plain("new"))
<1>4. k \in Clients /\ Filled(k)
  BY <1>1, GreetingIs, AddIs
<1>. HIDE DEF k
<1>5. /\ Become(k) \/ Become(NotedHere)
      /\ clInput' = <<>> \/ clInput' = Tail(clInput)
  BY DEF ServerReconnect, k, Greeting, NoStrings
<1>6. clInput' \in Seq(Commands(ServerKinds \cup DataKinds))
  BY <1>1, <1>5, AnsweredInput
<1>. QED BY <1>2, <1>4, <1>5, <1>6, BecomesTypes DEF ServerReconnect, TypeInv

LEMMA ServerDisconnectTypes ==
  ASSUME TypeInv, ServerDisconnect
  PROVE  TypeInv'
<1>1. clInput # <<>>
  BY DEF ServerDisconnect, TakingHere
<1>. DEFINE k == Left(NotedHere, "closed")
<1>2. k \in Clients /\ Filled(k)
  BY <1>1, NotedHereIs, LeftIs
<1>3. Become(k)
  BY DEF ServerDisconnect
<1>. HIDE DEF k
<1>4. clInput' \in Seq(Commands(ServerKinds \cup DataKinds))
  BY <1>1, HereType DEF ServerDisconnect, HandledHere
<1>. QED BY <1>2, <1>3, <1>4, BecomesTypes DEF ServerDisconnect, HandledHere, TypeInv

LEMMA LossTypes ==
  ASSUME TypeInv, LoseToServer \/ LoseToClient
  PROVE  TypeInv'
<1>1. losses' \in Nat /\ toServer' \in Seq(ToServer) /\ toClient' \in Seq(ToClient)
  <2>1. toServer \in Seq(ToServer) /\ toClient \in Seq(ToClient) /\ losses \in Nat
    BY DEF TypeInv
  <2>2. CASE LoseToServer
    <3>1. Tail(toServer) \in Seq(ToServer)
      BY <2>1, <2>2, TailFacts DEF LoseToServer
    <3>. QED BY <2>1, <2>2, <3>1 DEF LoseToServer
  <2>3. CASE LoseToClient
    <3>1. Tail(toClient) \in Seq(ToClient)
      BY <2>1, <2>3, TailFacts DEF LoseToClient
    <3>. QED BY <2>1, <2>3, <3>1 DEF LoseToClient
  <2>. QED BY <2>2, <2>3
<1>. QED BY <1>1 DEF LoseToServer, LoseToClient, TypeInv, world, GoodServer, GoodClient, Filled, Ordered

LEMMA ServerTimeoutTypes ==
  ASSUME TypeInv, ServerTimeout
  PROVE  TypeInv'
<1>0. <<>> \in Seq(ToClient)
  OBVIOUS
<1>1. Dropped(server) \in Servers /\ GoodServer(Dropped(server))
  BY DroppedIs DEF TypeInv, GoodServer
<1>2. GoodServer(server') /\ toClient' \in Seq(ToClient)
  BY <1>0, <1>1, ServeType DEF ServerTimeout
<1>. QED BY <1>2, ServedTypes DEF ServerTimeout, TypeInv

\* The program starts with these types.
LEMMA InitTypes ==
  ASSUME Init
  PROVE  TypeInv
<1>1. /\ NoCommands \in Rings(ServerKinds) /\ NoCommands \in Rings(ClientKinds)
      /\ "new" \in ClientKinds
  <2>1. <<>> \in Seq(Strings)
    OBVIOUS
  <2>2. Empty \in Commands(ServerKinds \cup {"none"}) /\ Empty \in Commands(ClientKinds \cup {"none"})
    BY <2>1 DEF Empty, Plain, Command, Commands
  <2>. QED BY <2>2 DEF NoCommands, Rings, Slots, ClientKinds
<1>2. NoStrings \in StringTables
  BY NoStringsType
<1>3. GoodServer(server)
  <2>1. server \in Servers /\ server.reliableSequence = 0 /\ server.reliableAcknowledge = 0 /\ server.reliableSent = 0
    BY <1>1 DEF Init, Servers
  <2>2. 1 .. server.reliableSequence = {}
    BY <2>1
  <2>. QED BY <2>1, <2>2 DEF GoodServer, Filled, Ordered
<1>. DEFINE k == [state |-> "handshake", reliableSequence |-> 0, reliableAcknowledge |-> 0,
                  reliableCommands |-> NoCommands, lastExecutedServerCommand |-> 0,
                  servercount |-> 0, configstrings |-> NoStrings,
                  cgame |-> FALSE, snap |-> 0, left |-> "no", numbering |-> 0]
<1>4. k \in Clients /\ k.reliableSequence = 0
  BY <1>1, <1>2 DEF Clients
<1>5. client = Store(k, Plain("new"))
  BY DEF Init, NoStrings
<1>. HIDE DEF k
<1>6. 1 .. k.reliableSequence = {}
  BY <1>4
<1>7. GoodClient(client)
  BY <1>1, <1>4, <1>5, <1>6, PlainType, ClientStoreIs DEF GoodClient, Filled
<1>8. config \in [Index -> Values] /\ level \in 1 .. MaxLevels
  BY SizeAssumption DEF Init, Values
<1>. QED BY <1>3, <1>7, <1>8 DEF Init, TypeInv

LEMMA NextTypes ==
  ASSUME TypeInv, [Next]_vars
  PROVE  TypeInv'
<1>1. CASE ServerParse
  BY <1>1, ServerSkipsTypes, SV_New_fTypes, ConfigstringsLoopTypes, SV_Configstrings_fTypes,
     SV_Baselines_fTypes, SV_Begin_fTypes, SV_Disconnect_fTypes, ClientCommandTypes DEF ServerParse
<1>2. CASE ClientParse
  BY <1>2, ClientSkipsTypes, ParseServerDataTypes, ParseFrameTypes, ParseConfigstringCommandTypes,
     ForwardToServerTypes, PrecacheTypes, ChangingTypes, ServerReconnectTypes,
     ServerDisconnectTypes DEF ClientParse
<1>3. CASE UNCHANGED vars
  BY <1>3 DEF vars, TypeInv, world, GoodServer, GoodClient, Filled, Ordered
<1>. QED
  BY <1>1, <1>2, <1>3, SendClientMessagesTypes, ConfigStringTypes, MapTypes, ServerReceiveTypes,
     SendMessagesToServerTypes, TypeCommandTypes, QuitTypes, AdjustServerTimeTypes,
     ClientReceiveTypes, LossTypes, ServerTimeoutTypes, ClientTimeoutTypes DEF Next

\* TypeInv states more than TypeOK.
LEMMA TypeInvImplies ==
  ASSUME TypeInv
  PROVE  TypeOK
<1>1. /\ server \in Servers /\ server.state \in {"zombie", "connecting", "connected", "spawned"}
      /\ Ordered(server)
  BY DEF TypeInv, GoodServer, Servers
<1>2. client \in Clients
  BY DEF TypeInv, GoodClient
<1>3. \A i \in DOMAIN svInput : svInput[i].kind \in Kinds
  <2>. SUFFICES ASSUME NEW i \in DOMAIN svInput PROVE svInput[i].kind \in Kinds
    OBVIOUS
  <2>1. svInput[i] \in Commands(ClientKinds)
    BY DEF TypeInv
  <2>. QED BY <2>1 DEF Commands, ClientKinds, Kinds
<1>4. \A i \in DOMAIN clInput : clInput[i].kind \in Kinds
  <2>. SUFFICES ASSUME NEW i \in DOMAIN clInput PROVE clInput[i].kind \in Kinds
    OBVIOUS
  <2>1. clInput[i] \in Commands(ServerKinds \cup DataKinds)
    BY DEF TypeInv
  <2>. QED BY <2>1 DEF Commands, ServerKinds, DataKinds, Kinds
<1>. QED BY <1>1, <1>2, <1>3, <1>4, ClientFields DEF TypeInv, TypeOK, Ordered

\* The states, kinds of commands and levels stay the ones that the code knows, and the
\* server's counters (client_t) stay in order: acknowledged, sent, given out.
THEOREM TypeCorrect == Spec => []TypeOK
<1>1. Init => TypeInv
  BY InitTypes
<1>2. TypeInv /\ [Next]_vars => TypeInv'
  BY NextTypes
<1>3. TypeInv => TypeOK
  BY TypeInvImplies
<1>. QED BY <1>1, <1>2, <1>3, PTL DEF Spec, Safety
-----------------------------------------------------------------------------
(* Levels: what the server says *)

LEMMA ItemTypes ==
  ASSUME NEW kinds, NEW items \in Seq(Commands(kinds))
  PROVE  \A j \in 1 .. Len(items) :
           /\ items[j] \in Commands(kinds) /\ items[j].num \in Nat /\ items[j].level \in Nat
           /\ items[j].arg \in Nat /\ items[j].kind \in kinds
<1>. SUFFICES ASSUME NEW j \in 1 .. Len(items)
              PROVE  /\ items[j] \in Commands(kinds) /\ items[j].num \in Nat
                     /\ items[j].level \in Nat /\ items[j].arg \in Nat /\ items[j].kind \in kinds
  OBVIOUS
<1>. DEFINE x == items[j]
<1>1. x \in Commands(kinds)
  OBVIOUS
<1>. HIDE DEF x
<1>2. x.num \in Nat /\ x.level \in Nat /\ x.arg \in Nat /\ x.kind \in kinds
  BY <1>1 DEF Commands
<1>. QED BY <1>1, <1>2 DEF x

LEMMA MessageTypes ==
  ASSUME NEW kinds, NEW msgs \in Seq(Messages(kinds)), NEW i \in 1 .. Len(msgs)
  PROVE  msgs[i] \in Messages(kinds) /\ msgs[i].items \in Seq(Commands(kinds)) /\ msgs[i].ack \in Nat
<1>. DEFINE m == msgs[i]
<1>1. m \in Messages(kinds)
  OBVIOUS
<1>. HIDE DEF m
<1>2. m.items \in Seq(Commands(kinds)) /\ m.ack \in Nat
  BY <1>1 DEF Messages
<1>. QED BY <1>1, <1>2 DEF m

LEMMA HeardMore ==
  ASSUME NEW kinds, NEW items \in Seq(Commands(kinds)), NEW a \in Nat, NEW b \in Nat, a <= b,
         Heard(items, a)
  PROVE  Heard(items, b)
<1>1. \A j \in 1 .. Len(items) : items[j].level \in Nat
  BY ItemTypes
<1>. QED BY <1>1 DEF Heard

LEMMA WithinMore ==
  ASSUME NEW kinds, NEW items \in Seq(Commands(kinds)), NEW a \in Nat, NEW b \in Nat,
         NEW low \in Nat, NEW high \in Nat, low <= a, b <= high, DataWithin(items, a, b)
  PROVE  DataWithin(items, low, high)
<1>1. \A j \in 1 .. Len(items) : items[j].level \in Nat
  BY ItemTypes
<1>. QED BY <1>1 DEF DataWithin

LEMMA WithinOrdered ==
  ASSUME NEW kinds, NEW items \in Seq(Commands(kinds)), NEW others \in Seq(Commands(kinds)),
         NEW a \in Nat, NEW b \in Nat, NEW c \in Nat, DataWithin(items, a, b), DataWithin(others, b, c)
  PROVE  DataOrdered(items, others)
<1>1. \A j \in 1 .. Len(items) : items[j].level \in Nat
  BY ItemTypes
<1>2. \A j \in 1 .. Len(others) : others[j].level \in Nat
  BY ItemTypes
<1>. QED BY <1>1, <1>2 DEF DataWithin, DataOrdered

\* What a command that is stored leaves in the ring.
LEMMA StoredRing ==
  ASSUME NEW kinds, NEW r \in [Slots -> Commands(kinds \cup {"none"})], NEW q \in Nat,
         NEW cmd \in Commands(kinds)
  PROVE  LET n == q + 1
             new == [cmd EXCEPT !.num = n]
             r2 == [r EXCEPT ![Slot(n)] = new]
         IN  /\ Slot(n) \in Slots /\ \A s \in Slots : r2[s] = IF s = Slot(n) THEN new ELSE r[s]
             /\ new.kind = cmd.kind /\ new.level = cmd.level /\ new.arg = cmd.arg /\ new.num = n
<1>. DEFINE n == q + 1
            new == [cmd EXCEPT !.num = n]
<1>1. n \in Int
  OBVIOUS
<1>2. Slot(n) \in Slots
  BY <1>1, SlotType
<1>3. new.kind = cmd.kind /\ new.level = cmd.level /\ new.arg = cmd.arg /\ new.num = n
  BY DEF Commands
<1>. HIDE DEF n, new
<1>4. \A s \in Slots : [r EXCEPT ![Slot(n)] = new][s] = IF s = Slot(n) THEN new ELSE r[s]
  BY <1>2
<1>. QED BY <1>2, <1>3, <1>4 DEF n, new

\* A record that holds levels up to b, and "disconnect" only when the client is dropped.
Speaks(c, b) ==
  /\ \A s \in Slots : c.reliableCommands[s].level <= b
  /\ \A s \in Slots : c.reliableCommands[s].kind = "disconnect" => c.state = "zombie"

LEMMA SpeaksDrop ==
  ASSUME NEW c \in Servers, Filled(c), Ordered(c), NEW b \in Nat, Speaks(c, b)
  PROVE  Speaks(Dropped(c), b) /\ Dropped(c).state = "zombie"
<1>1. Drops(c, Dropped(c))
  BY DroppedIs
<1>2. 0 <= b
  OBVIOUS
<1>. QED BY <1>1, <1>2 DEF Drops, Speaks

LEMMA SpeaksSend ==
  ASSUME NEW c \in Servers, Filled(c), Ordered(c), NEW cmd \in Commands(ServerKinds),
         NEW b \in Nat, Speaks(c, b), cmd.level <= b, cmd.kind # "disconnect"
  PROVE  Speaks(SendServerCommand(c, cmd), b)
<1>. DEFINE d == SendServerCommand(c, cmd)
<1>1. /\ c.state = "zombie" => d = c
      /\ c.state # "zombie" => \/ Batched(c, d) \/ Drops(c, d) \/ Stores(c, cmd, d)
  BY SendIs
<1>. HIDE DEF d
<1>2. CASE c.state = "zombie"
  BY <1>1, <1>2 DEF d
<1>3. CASE c.state # "zombie" /\ Batched(c, d)
  BY <1>3 DEF Batched, Speaks, d
<1>4. CASE c.state # "zombie" /\ Drops(c, d)
  <2>1. 0 <= b
    OBVIOUS
  <2>. QED BY <1>4, <2>1 DEF Drops, Speaks, d
<1>5. CASE c.state # "zombie" /\ Stores(c, cmd, d)
  <2>. DEFINE n == c.reliableSequence + 1
              new == [cmd EXCEPT !.num = n]
  <2>1. c.reliableCommands \in [Slots -> Commands(ServerKinds \cup {"none"})] /\ c.reliableSequence \in Nat
    BY DEF Servers, Rings
  <2>2. /\ \A s \in Slots : d.reliableCommands[s] = IF s = Slot(n) THEN new ELSE c.reliableCommands[s]
        /\ new.kind = cmd.kind /\ new.level = cmd.level
    <3>1. d.reliableCommands = [c.reliableCommands EXCEPT ![Slot(n)] = new]
      BY <1>5 DEF Stores
    <3>. QED BY <2>1, <3>1, StoredRing
  <2>. HIDE DEF n, new
  <2>3. d.state = c.state
    BY <1>5 DEF Stores
  <2>4. \A s \in Slots : d.reliableCommands[s].level <= b
    BY <2>2 DEF Speaks
  <2>5. \A s \in Slots : d.reliableCommands[s].kind = "disconnect" => d.state = "zombie"
    BY <2>2, <2>3 DEF Speaks
  <2>. QED BY <2>4, <2>5 DEF Speaks, d
<1>. QED BY <1>1, <1>2, <1>3, <1>4, <1>5

\* What such a record's message holds, with a frame behind its commands or not.
LEMMA SpeaksMessage ==
  ASSUME NEW c \in Servers, Filled(c), Ordered(c), NEW b \in Nat, Speaks(c, b)
  PROVE  LET m == Message(c, <<>>)
         IN  /\ m \in ToClient /\ Heard(m.items, b) /\ NoData(m.items)
             /\ Parts(m.items) => c.state = "zombie"
<1>. DEFINE m == Message(c, <<>>)
            w == Window(c)
            a == c.reliableAcknowledge
<1>1. <<>> \in Seq(Commands(ServerKinds \cup DataKinds)) /\ Len(<<>>) = 0
  OBVIOUS
<1>2. /\ w \in Nat /\ m \in ToClient /\ Len(m.items) = w + 0
      /\ \A j \in 1 .. w :
           /\ m.items[j].kind = c.reliableCommands[Slot(a + j)].kind
           /\ m.items[j].level = c.reliableCommands[Slot(a + j)].level
           /\ m.items[j].kind \in ServerKinds
  BY <1>1, MessageIs
<1>3. a \in Nat
  BY DEF Servers
<1>. HIDE DEF m, w, a
<1>4. \A j \in 1 .. w : a + j \in Int
  BY <1>2, <1>3
<1>5. \A j \in 1 .. w : Slot(a + j) \in Slots
  BY <1>4, SlotType
<1>6. 1 .. Len(m.items) = 1 .. w
  BY <1>2
<1>7. Heard(m.items, b)
  BY <1>2, <1>5, <1>6 DEF Heard, Speaks
<1>8. NoData(m.items)
  BY <1>2, <1>6 DEF NoData, IsData, ServerKinds, DataKinds
<1>9. Parts(m.items) => c.state = "zombie"
  BY <1>2, <1>5, <1>6 DEF Parts, Speaks
<1>. QED BY <1>2, <1>7, <1>8, <1>9 DEF m

LEMMA SpeaksFrame ==
  ASSUME TypeInv, NEW c \in Servers, Filled(c), Ordered(c), NEW b \in Nat, Speaks(c, b), level <= b,
         c.state # "zombie"
  PROVE  LET m == Message(c, <<Command("frame", level, 0, <<>>)>>)
         IN  m \in ToClient /\ Heard(m.items, b) /\ DataWithin(m.items, level, level) /\ ~Parts(m.items)
<1>. DEFINE x == Command("frame", level, 0, <<>>)
            items == <<x>>
            m == Message(c, items)
            w == Window(c)
            a == c.reliableAcknowledge
<1>1. level \in Nat /\ <<>> \in Seq(Strings) /\ "frame" \in DataKinds
  BY DEF TypeInv, DataKinds
<1>2. x \in Commands(ServerKinds \cup DataKinds) /\ x.kind = "frame" /\ x.level = level
  BY <1>1 DEF Command, Commands
<1>. HIDE DEF x
<1>3. items \in Seq(Commands(ServerKinds \cup DataKinds)) /\ Len(items) = 1 /\ items[1] = x
  BY <1>2
<1>. HIDE DEF items
<1>4. /\ w \in Nat /\ m \in ToClient /\ Len(m.items) = w + 1
      /\ \A j \in 1 .. w :
           /\ m.items[j].kind = c.reliableCommands[Slot(a + j)].kind
           /\ m.items[j].level = c.reliableCommands[Slot(a + j)].level
           /\ m.items[j].kind \in ServerKinds
      /\ m.items[w + 1] = x
  <2>1. /\ w \in Nat /\ m \in ToClient /\ Len(m.items) = w + Len(items)
        /\ \A j \in 1 .. w :
             /\ m.items[j].kind = c.reliableCommands[Slot(a + j)].kind
             /\ m.items[j].level = c.reliableCommands[Slot(a + j)].level
             /\ m.items[j].kind \in ServerKinds
        /\ \A j \in 1 .. Len(items) : m.items[w + j] = items[j]
    BY <1>3, MessageIs
  <2>2. 1 \in 1 .. Len(items)
    BY <1>3
  <2>. QED BY <1>3, <2>1, <2>2
<1>5. a \in Nat
  BY DEF Servers
<1>. HIDE DEF m, w, a
<1>6. \A j \in 1 .. w : a + j \in Int
  BY <1>4, <1>5
<1>7. \A j \in 1 .. w : Slot(a + j) \in Slots
  BY <1>6, SlotType
<1>8. \A j \in 1 .. Len(m.items) : j \in 1 .. w \/ j = w + 1
  BY <1>4
<1>9. Heard(m.items, b)
  BY <1>2, <1>4, <1>7, <1>8 DEF Heard, Speaks
<1>10. DataWithin(m.items, level, level)
  <2>1. \A j \in 1 .. w : ~IsData(m.items[j])
    BY <1>4 DEF IsData, ServerKinds, DataKinds
  <2>. QED BY <1>1, <1>2, <1>4, <1>8, <2>1 DEF DataWithin
<1>11. ~Parts(m.items)
  BY <1>2, <1>4, <1>7, <1>8 DEF Parts, Speaks
<1>. QED BY <1>4, <1>9, <1>10, <1>11 DEF m, items, x

\* A step of the server keeps the levels in order when what it says is.
LEMMA ServerLevels ==
  ASSUME TypeInv, TypeInv', LevelInv, UNCHANGED <<client, clInput, toServer>>, level <= level',
         server.state = "zombie" => server'.state = "zombie",
         Speaks(server', Known'), server'.state = "spawned" => level' <= Known',
         Heard(svInput', Known'),
         server'.state = "zombie" /\ svInput' # <<>> =>
           svInput'[1].kind = "configstrings" /\ ~Executed(server', svInput'[1]),
         NEW sent \in Seq(ToClient), toClient' = toClient \o sent,
         server.state = "zombie" => sent = <<>>,
         \A i \in 1 .. Len(sent) :
           /\ Heard(sent[i].items, Known') /\ DataWithin(sent[i].items, level', level')
           /\ Parts(sent[i].items) =>
                server'.state = "zombie" /\ \A j \in i .. Len(sent) : NoData(sent[j].items)
  PROVE  LevelInv'
<1>. DEFINE n == Len(toClient)
            m == Len(sent)
<1>0. /\ level \in Nat /\ level' \in Nat /\ client.servercount \in Nat /\ client.servercount <= level
      /\ toClient \in Seq(ToClient)
  <2>1. level \in 1 .. MaxLevels /\ level' \in 1 .. MaxLevels /\ client \in Clients
        /\ client.servercount <= level /\ toClient \in Seq(ToClient)
    BY DEF TypeInv, GoodClient, LevelInv
  <2>2. client.servercount \in Nat
    BY <2>1, ClientFields
  <2>. QED BY <2>1, <2>2, SizeAssumption
<1>0a. /\ clInput \in Seq(Commands(ServerKinds \cup DataKinds))
       /\ \A i \in 1 .. n : toClient[i].items \in Seq(Commands(ServerKinds \cup DataKinds))
       /\ \A i \in 1 .. m : sent[i].items \in Seq(Commands(ServerKinds \cup DataKinds))
       /\ \A i \in 1 .. Len(toServer) : toServer[i].items \in Seq(Commands(ClientKinds))
  BY MessageTypes DEF TypeInv, ToClient, ToServer
<1>1. /\ n \in Nat /\ m \in Nat /\ Len(toClient') = n + m
      /\ \A i \in 1 .. n : toClient'[i] = toClient[i]
      /\ \A i \in 1 .. m : toClient'[n + i] = sent[i]
      /\ \A i \in 1 .. n + m : i \in 1 .. n \/ (i - n \in 1 .. m /\ toClient'[i] = sent[i - n])
  <2>1. /\ n \in Nat /\ m \in Nat /\ Len(toClient') = n + m
        /\ \A i \in 1 .. n : toClient'[i] = toClient[i]
        /\ \A i \in 1 .. m : toClient'[n + i] = sent[i]
    BY <1>0, ConcatFacts
  <2>. HIDE DEF n, m
  <2>2. ASSUME NEW i \in 1 .. n + m, i \notin 1 .. n
        PROVE  i - n \in 1 .. m /\ toClient'[i] = sent[i - n]
    <3>1. i - n \in 1 .. m /\ n + (i - n) = i
      BY <2>1, <2>2
    <3>. QED BY <2>1, <3>1
  <2>. QED BY <2>1, <2>2
<1>2. Known <= Known' /\ Known \in Nat /\ Known' \in Nat
  BY <1>0 DEF Known
<1>3. PartingInv'
  <2>1. (\A s \in Slots : server.reliableCommands[s].kind = "disconnect" => server.state = "zombie")'
    BY DEF Speaks
  <2>2. ASSUME NEW i \in 1 .. Len(toClient'), Parts(toClient'[i].items)
        PROVE  server'.state = "zombie" /\ \A j \in i .. Len(toClient') : NoData(toClient'[j].items)
    <3>1. CASE i \in 1 .. n
      <4>1. /\ server.state = "zombie" /\ toClient' = toClient /\ m = 0
            /\ \A j \in i .. Len(toClient) : NoData(toClient[j].items)
        <5>1. Parts(toClient[i].items)
          BY <1>1, <2>2, <3>1
        <5>2. server.state = "zombie" /\ \A j \in i .. Len(toClient) : NoData(toClient[j].items)
          BY <3>1, <5>1 DEF LevelInv, PartingInv
        <5>. QED BY <1>0, <5>2
      <4>. QED BY <4>1
    <3>2. CASE i \notin 1 .. n
      <4>1. i - n \in 1 .. m /\ toClient'[i] = sent[i - n] /\ i \in 1 .. n + m
        BY <1>1, <3>2
      <4>2. server'.state = "zombie" /\ \A j \in i - n .. m : NoData(sent[j].items)
        BY <2>2, <4>1
      <4>. SUFFICES ASSUME NEW j \in i .. Len(toClient') PROVE NoData(toClient'[j].items)
        BY <4>2
      <4>. HIDE DEF n, m
      <4>3. j \in 1 .. n + m /\ j \notin 1 .. n /\ j - n \in i - n .. m
        BY <1>1, <4>1
      <4>4. toClient'[j] = sent[j - n]
        BY <1>1, <4>3
      <4>. QED BY <4>2, <4>3, <4>4
    <3>. QED BY <3>1, <3>2
  <2>3. ASSUME Parts(clInput')
        PROVE  /\ server'.state = "zombie" /\ NoData(clInput')
               /\ \A j \in 1 .. Len(toClient') : NoData(toClient'[j].items)
    <3>1. /\ server.state = "zombie" /\ NoData(clInput)
          /\ \A j \in 1 .. Len(toClient) : NoData(toClient[j].items)
      BY <2>3 DEF LevelInv, PartingInv
    <3>2. toClient' = toClient
      BY <1>0, <3>1
    <3>. QED BY <3>1, <3>2
  <2>. QED BY <2>1, <2>2, <2>3 DEF PartingInv
<1>4. SpokenInv'
  <2>1. Heard(clInput', Known')
    <3>1. Heard(clInput, Known)
      BY DEF LevelInv, SpokenInv
    <3>. QED BY <1>0a, <1>2, <3>1, HeardMore
  <2>2. ASSUME NEW i \in 1 .. Len(toClient')
        PROVE  Heard(toClient'[i].items, Known')
    <3>1. CASE i \in 1 .. n
      <4>1. Heard(toClient[i].items, Known) /\ toClient'[i] = toClient[i]
        BY <1>1, <3>1 DEF LevelInv, SpokenInv
      <4>. QED BY <1>0a, <1>2, <3>1, <4>1, HeardMore
    <3>2. CASE i \notin 1 .. n
      <4>1. i - n \in 1 .. m /\ toClient'[i] = sent[i - n]
        BY <1>1, <3>2
      <4>. QED BY <4>1
    <3>. QED BY <3>1, <3>2
  <2>. QED BY <2>1, <2>2 DEF SpokenInv, Speaks
<1>5. GoingInv'
  <2>1. \A s \in Slots : client.reliableCommands[s].level \in Nat
    <3>1. client.reliableCommands \in [Slots -> Commands(ClientKinds \cup {"none"})]
      BY ClientFields DEF TypeInv, GoodClient
    <3>. QED BY <3>1 DEF Commands
  <2>2. \A s \in Slots : client'.reliableCommands[s].level <= Known'
    BY <1>2, <2>1 DEF LevelInv, GoingInv
  <2>3. ASSUME NEW i \in 1 .. Len(toServer') PROVE Heard(toServer'[i].items, Known')
    <3>1. Heard(toServer[i].items, Known) /\ toServer[i] \in ToServer
      BY SMTT(30) DEF LevelInv, GoingInv, TypeInv
    <3>. QED BY <1>0a, <1>2, <3>1, HeardMore
  <2>. QED BY <2>2, <2>3 DEF GoingInv
<1>6. CASE client.left # "no"
  <2>1. Gone
    BY <1>6 DEF LevelInv
  <2>2. Gone'
    <3>1. CASE server.state = "zombie"
      <4>1. toClient' = toClient
        BY <1>0, <3>1
      <4>. QED BY <2>1, <3>1, <4>1 DEF Gone
    <3>2. CASE server.state # "zombie"
      BY <2>1, <3>2 DEF Gone
    <3>. QED BY <3>1, <3>2
  <2>. QED BY <1>0, <1>3, <1>4, <1>5, <1>6, <2>2 DEF LevelInv
<1>7. CASE client.left = "no"
  <2>1. ComingInv
    BY <1>7 DEF LevelInv
  <2>2. DataWithin(clInput', client'.servercount, level')
    <3>1. DataWithin(clInput, client.servercount, level)
      BY <2>1 DEF ComingInv
    <3>2. /\ clInput \in Seq(Commands(ServerKinds \cup DataKinds))
          /\ clInput' = clInput /\ client' = client
      BY DEF TypeInv
    <3>3. client.servercount <= client.servercount
      BY <1>0
    <3>4. DataWithin(clInput, client.servercount, level')
      BY <1>0, <3>1, <3>2, <3>3, WithinMore
    <3>. QED BY <3>2, <3>4
  <2>5. \A i \in 1 .. m : DataWithin(sent[i].items, level', level')
    OBVIOUS
  <2>6. ASSUME NEW i \in 1 .. n + m
        PROVE  /\ DataWithin(toClient'[i].items, client.servercount, level')
               /\ DataOrdered(clInput, toClient'[i].items)
               /\ \A j \in i + 1 .. n + m : DataOrdered(toClient'[i].items, toClient'[j].items)
    <3>1. CASE i \in 1 .. n
      <4>1. toClient'[i] = toClient[i] /\ DataWithin(toClient[i].items, client.servercount, level)
            /\ DataOrdered(clInput, toClient[i].items)
        BY <1>1, <2>1, <3>1 DEF ComingInv
      <4>2. DataWithin(toClient'[i].items, client.servercount, level')
        BY <1>0, <1>0a, <3>1, <4>1, WithinMore
      <4>3. ASSUME NEW j \in i + 1 .. n + m PROVE DataOrdered(toClient'[i].items, toClient'[j].items)
        <5>1. CASE j \in 1 .. n
          <6>1. j \in i + 1 .. Len(toClient) /\ toClient'[j] = toClient[j]
            BY <1>1, <3>1, <5>1
          <6>. QED BY <2>1, <3>1, <4>1, <6>1 DEF ComingInv
        <5>2. CASE j \notin 1 .. n
          <6>1. j - n \in 1 .. m /\ toClient'[j] = sent[j - n]
            <7>1. j \in 1 .. n + m
              BY <1>1, <3>1
            <7>. QED BY <1>1, <5>2, <7>1
          <6>2. DataWithin(toClient[i].items, client.servercount, level')
            BY <4>1, <4>2
          <6>. QED BY <1>0, <1>0a, <2>5, <3>1, <4>1, <6>1, <6>2, WithinOrdered
        <5>. QED BY <5>1, <5>2
      <4>. QED BY <4>1, <4>2, <4>3
    <3>2. CASE i \notin 1 .. n
      <4>1. i - n \in 1 .. m /\ toClient'[i] = sent[i - n]
        BY <1>1, <3>2
      <4>2. DataWithin(toClient'[i].items, client.servercount, level')
        <5>1. DataWithin(sent[i - n].items, level', level') /\ client.servercount <= level'
              /\ sent[i - n].items \in Seq(Commands(ServerKinds \cup DataKinds))
          <6>1. client.servercount <= level'
            BY <1>0
          <6>2. DataWithin(sent[i - n].items, level', level')
            BY <2>5, <4>1
          <6>3. sent[i - n].items \in Seq(Commands(ServerKinds \cup DataKinds))
            BY <1>0a, <4>1
          <6>. QED BY <6>1, <6>2, <6>3
        <5>. QED BY <1>0, <4>1, <5>1, WithinMore
      <4>3. DataOrdered(clInput, toClient'[i].items)
        BY <1>0, <1>0a, <2>2, <2>5, <4>1, WithinOrdered
      <4>4. ASSUME NEW j \in i + 1 .. n + m PROVE DataOrdered(toClient'[i].items, toClient'[j].items)
        <5>1. j - n \in 1 .. m /\ toClient'[j] = sent[j - n]
          <6>1. j \in 1 .. n + m /\ j \notin 1 .. n
            BY <1>1, <3>2
          <6>. QED BY <1>1, <6>1
        <5>. QED BY <1>0, <1>0a, <2>5, <4>1, <5>1, WithinOrdered
      <4>. QED BY <4>2, <4>3, <4>4
    <3>. QED BY <3>1, <3>2
  <2>7. ComingInv'
    BY <1>1, <2>2, <2>6 DEF ComingInv
  <2>. QED BY <1>0, <1>3, <1>4, <1>5, <1>7, <2>7 DEF LevelInv
<1>. QED BY <1>6, <1>7
-----------------------------------------------------------------------------
\* The same for a step that ends in Serve.
LEMMA ServeLevels ==
  ASSUME TypeInv, TypeInv', LevelInv, UNCHANGED <<client, clInput, toServer>>, level <= level',
         NEW c \in Servers, GoodServer(c), NEW msgs \in Seq(ToClient), Serve(c, msgs),
         server.state = "zombie" => c.state = "zombie" /\ msgs = <<>>,
         Speaks(c, Known'), c.state = "spawned" => level' <= Known',
         Heard(svInput', Known'),
         c.state = "zombie" /\ svInput' # <<>> =>
           svInput'[1].kind = "configstrings" /\ ~Executed(c, svInput'[1]),
         \A i \in 1 .. Len(msgs) :
           /\ Heard(msgs[i].items, Known') /\ DataWithin(msgs[i].items, level', level')
           /\ Parts(msgs[i].items) =>
                c.state = "zombie" /\ \A j \in i .. Len(msgs) : NoData(msgs[j].items)
  PROVE  LevelInv'
<1>. DEFINE far == Message(c, <<>>)
            last == IF c.state = "zombie" /\ server.state # "zombie" THEN <<far>> ELSE <<>>
            sent == msgs \o last
            n == Len(msgs)
<1>0. Known' \in Nat /\ level' \in Nat /\ c.state # "zombie" => last = <<>>
  <2>1. client' \in Clients /\ level' \in 1 .. MaxLevels
    BY DEF TypeInv, GoodClient
  <2>2. client'.servercount \in Nat
    BY <2>1, ClientFields
  <2>. QED BY <2>1, <2>2, SizeAssumption DEF Known
<1>1. far \in ToClient /\ Heard(far.items, Known') /\ NoData(far.items) /\ (Parts(far.items) => c.state = "zombie")
  <2>1. Known' \in Nat
    <3>1. client' \in Clients /\ level' \in 1 .. MaxLevels
      BY DEF TypeInv, GoodClient
    <3>2. client'.servercount \in Nat
      BY <3>1, ClientFields
    <3>. QED BY <3>1, <3>2, SizeAssumption DEF Known
  <2>. QED BY <2>1, SpeaksMessage DEF GoodServer
<1>. HIDE DEF far
<1>2. last \in Seq(ToClient) /\ \A i \in 1 .. Len(last) : last[i] = far /\ Len(last) = 1
  BY <1>1
<1>3. server' = c /\ toClient' = toClient \o sent
  <2>1. server' = c /\ toClient' = toClient \o msgs \o last
    BY DEF Serve, far
  <2>. HIDE DEF last
  <2>2. toClient \in Seq(ToClient)
    BY DEF TypeInv
  <2>. QED BY SMTT(30), <1>2, <2>1, <2>2
<1>4. server.state = "zombie" => sent = <<>>
  OBVIOUS
<1>5. Len(last) = 1 => c.state = "zombie"
  OBVIOUS
<1>. HIDE DEF last, sent
<1>6. /\ sent \in Seq(ToClient) /\ n \in Nat /\ Len(last) \in Nat /\ Len(sent) = n + Len(last)
      /\ \A i \in 1 .. n : sent[i] = msgs[i]
      /\ \A i \in 1 .. Len(sent) : i \in 1 .. n \/ (i = n + 1 /\ Len(last) = 1 /\ sent[i] = far)
  <2>1. /\ sent \in Seq(ToClient) /\ n \in Nat /\ Len(last) \in Nat /\ Len(sent) = n + Len(last)
        /\ \A i \in 1 .. n : sent[i] = msgs[i]
        /\ \A i \in 1 .. Len(last) : sent[n + i] = last[i]
    BY <1>2, ConcatFacts DEF sent
  <2>2. ASSUME NEW i \in 1 .. Len(sent), i \notin 1 .. n
        PROVE  i = n + 1 /\ Len(last) = 1 /\ sent[i] = far
    <3>1. i - n \in 1 .. Len(last) /\ i = n + (i - n)
      BY <2>1, <2>2
    <3>2. Len(last) = 1
      BY <1>2, <3>1
    <3>3. i - n = 1 /\ i = n + 1
      BY <2>1, <3>1, <3>2
    <3>. QED BY <1>2, <2>1, <3>1, <3>2, <3>3
  <2>3. \A i \in 1 .. Len(sent) : i \in 1 .. n \/ (i = n + 1 /\ Len(last) = 1 /\ sent[i] = far)
    BY <2>2
  <2>. QED BY <2>1, <2>3
<1>7. \A i \in 1 .. Len(sent) :
        /\ Heard(sent[i].items, Known') /\ DataWithin(sent[i].items, level', level')
        /\ Parts(sent[i].items) =>
             server'.state = "zombie" /\ \A j \in i .. Len(sent) : NoData(sent[j].items)
  <2>. SUFFICES ASSUME NEW i \in 1 .. Len(sent)
                PROVE  /\ Heard(sent[i].items, Known') /\ DataWithin(sent[i].items, level', level')
                       /\ Parts(sent[i].items) =>
                            server'.state = "zombie" /\ \A j \in i .. Len(sent) : NoData(sent[j].items)
    OBVIOUS
  <2>1. CASE i \in 1 .. n
    <3>1. Heard(sent[i].items, Known') /\ DataWithin(sent[i].items, level', level')
      BY <1>6, <2>1
    <3>2. ASSUME Parts(sent[i].items)
          PROVE  server'.state = "zombie" /\ \A j \in i .. Len(sent) : NoData(sent[j].items)
      <4>1. c.state = "zombie" /\ \A j \in i .. n : NoData(msgs[j].items)
        BY <1>6, <2>1, <3>2
      <4>2. \A j \in i .. Len(sent) : j \in i .. n \/ sent[j] = far
        BY <1>6, <2>1
      <4>3. \A j \in i .. n : sent[j] = msgs[j]
        BY <1>6, <2>1
      <4>. QED BY <1>1, <1>3, <4>1, <4>2, <4>3
    <3>. QED BY <3>1, <3>2
  <2>2. CASE i \notin 1 .. n
    <3>1. i = n + 1 /\ Len(last) = 1 /\ sent[i] = far
      BY <1>6, <2>2
    <3>2. \A j \in i .. Len(sent) : sent[j] = far
      BY <1>6, <3>1
    <3>3. DataWithin(far.items, level', level')
      BY <1>1 DEF DataWithin, NoData
    <3>. QED BY <1>1, <1>3, <1>5, <3>1, <3>2, <3>3
  <2>. QED BY <2>1, <2>2
<1>. QED BY <1>3, <1>4, <1>6, <1>7, ServerLevels

\* The level known is a number no greater than the level.
LEMMA KnownType ==
  ASSUME TypeInv, LevelInv
  PROVE  /\ Known \in Nat /\ level \in Nat /\ Known <= level /\ client.servercount \in Nat
         /\ server \in Servers /\ Filled(server) /\ Ordered(server) /\ GoodServer(server)
         /\ client \in Clients /\ Filled(client)
         /\ Speaks(server, Known)
<1>1. /\ client \in Clients /\ level \in 1 .. MaxLevels /\ client.servercount <= level
      /\ server \in Servers /\ Filled(server) /\ Ordered(server) /\ GoodServer(server)
      /\ client \in Clients /\ Filled(client)
  BY DEF TypeInv, GoodClient, GoodServer, LevelInv
<1>2. client.servercount \in Nat
  BY <1>1, ClientFields
<1>3. Speaks(server, Known)
  BY DEF Speaks, LevelInv, SpokenInv, PartingInv
<1>. QED BY <1>1, <1>2, <1>3, SizeAssumption DEF Known

LEMMA SendClientMessagesLevels ==
  ASSUME TypeInv, TypeInv', LevelInv, SendClientMessages
  PROVE  LevelInv'
<1>. DEFINE frame == Command("frame", level, 0, <<>>)
            m == Message(server, IF server.state = "spawned" THEN <<frame>> ELSE <<>>)
            msgs == <<m>>
<1>1. /\ Serve(AllSent(server), msgs) /\ server.state # "zombie" /\ level' = level
      /\ UNCHANGED <<client, clInput, toServer, svInput>> /\ svInput = <<>>
  BY DEF SendClientMessages, Quiet, world
<1>2. Known' = Known
  BY <1>1 DEF Known
<1>3. m \in ToClient /\ Heard(m.items, Known) /\ DataWithin(m.items, level, level) /\ ~Parts(m.items)
  <2>1. CASE server.state = "spawned"
    <3>1. level <= Known
      BY <2>1 DEF LevelInv, SpokenInv
    <3>. QED BY <1>1, <2>1, <3>1, KnownType, SpeaksFrame
  <2>2. CASE server.state # "spawned"
    <3>1. m = Message(server, <<>>)
      BY <2>2
    <3>. HIDE DEF m
    <3>2. m \in ToClient /\ Heard(m.items, Known) /\ NoData(m.items) /\ ~Parts(m.items)
      BY <1>1, <3>1, KnownType, SpeaksMessage
    <3>. QED BY <3>2 DEF NoData, DataWithin
  <2>. QED BY <2>1, <2>2
<1>. HIDE DEF m
<1>4. msgs \in Seq(ToClient) /\ \A i \in 1 .. Len(msgs) : msgs[i] = m
  BY <1>3
<1>. HIDE DEF msgs
<1>. DEFINE c == AllSent(server)
<1>5. c \in Servers /\ GoodServer(c) /\ c.state = server.state /\ c.reliableCommands = server.reliableCommands
  BY KnownType, AllSentIs
<1>. HIDE DEF c
<1>6. Speaks(c, Known') /\ (c.state = "spawned" => level' <= Known')
  BY <1>1, <1>2, <1>5, KnownType DEF Speaks, LevelInv, SpokenInv
<1>7. Heard(svInput', Known')
  BY <1>1, <1>2 DEF LevelInv, GoingInv
<1>8. level <= level' /\ Serve(c, msgs)
  BY <1>1, KnownType DEF c
<1>. QED BY <1>1, <1>2, <1>3, <1>4, <1>5, <1>6, <1>7, <1>8, ServeLevels

LEMMA ConfigStringLevels ==
  ASSUME TypeInv, TypeInv', LevelInv, ConfigString
  PROVE  LevelInv'
<1>1. PICK i \in Index, size \in Sizes :
        /\ Serve(SendServerCommand(server, Cs(i)'), <<>>)
        /\ UNCHANGED <<client, level, svInput, clInput, toServer>>
  BY DEF ConfigString
<1>. DEFINE cmd == Cs(i)'
            d == SendServerCommand(server, cmd)
<1>2. cmd \in Commands(ServerKinds) /\ cmd.kind = "cs" /\ cmd.level = 0
  <2>1. config'[i] \in Values /\ i \in Nat
    <3>1. config' \in [Index -> Values]
      BY DEF TypeInv
    <3>2. i \in Nat
      BY SizeAssumption DEF Index
    <3>. QED BY <3>1, <3>2
  <2>. DEFINE s == [index |-> i, version |-> config'[i].version, size |-> config'[i].size]
  <2>2. s \in Strings
    BY <2>1 DEF Strings, Values
  <2>. DEFINE strings == <<s>>
  <2>3. strings \in Seq(Strings)
    BY <2>2
  <2>4. cmd = Command("cs", 0, 0, strings)
    BY DEF Cs
  <2>. HIDE DEF strings, cmd
  <2>5. "cs" \in ServerKinds
    BY DEF ServerKinds
  <2>. QED BY SMTT(30), <2>3, <2>4, <2>5, CommandType
<1>. HIDE DEF cmd
<1>3. d \in Servers /\ GoodServer(d) /\ Speaks(d, Known)
      /\ (server.state = "zombie" => d.state = "zombie") /\ (d.state = "spawned" => server.state = "spawned")
  <2>1. d \in Servers /\ GoodServer(d) /\ (server.state = "zombie" => d = server)
        /\ (server.state # "zombie" => Batched(server, d) \/ Drops(server, d) \/ Stores(server, cmd, d))
    BY <1>2, KnownType, SendIs
  <2>2. Speaks(d, Known)
    BY <1>2, KnownType, SpeaksSend
  <2>. HIDE DEF d
  <2>. QED BY <2>1, <2>2 DEF Batched, Drops, Stores
<1>4. Serve(d, <<>>)
  BY <1>1 DEF cmd
<1>. HIDE DEF d
<1>5. Known' = Known /\ level <= level' /\ svInput' = svInput /\ svInput = <<>>
  BY <1>1, KnownType DEF Known, ConfigString, Quiet
<1>6. Heard(svInput', Known')
  BY <1>5 DEF LevelInv, GoingInv
<1>7. d.state = "spawned" => level' <= Known'
  BY <1>1, <1>3, <1>5 DEF LevelInv, SpokenInv
<1>8. <<>> \in Seq(ToClient) /\ 1 .. Len(<<>>) = {}
  OBVIOUS
<1>. QED BY <1>1, <1>3, <1>4, <1>5, <1>6, <1>7, <1>8, ServeLevels

LEMMA MapLevels ==
  ASSUME TypeInv, TypeInv', LevelInv, Map
  PROVE  LevelInv'
<1>1. level' = level + 1 /\ UNCHANGED <<client, svInput, clInput, toServer>> /\ svInput = <<>>
  BY DEF Map, Quiet
<1>2. Known' \in Nat /\ Known <= Known' /\ level <= level'
  BY <1>1, KnownType DEF Known
<1>3. Awaiting \in Servers /\ GoodServer(Awaiting) /\ Speaks(Awaiting, Known')
      /\ Awaiting.state \in {"zombie", "connecting"} /\ (server.state = "zombie" => Awaiting.state = "zombie")
  <2>1. /\ Awaiting \in Servers /\ GoodServer(Awaiting)
        /\ Awaiting.state = IF server.state = "zombie" THEN "zombie" ELSE "connecting"
        /\ Awaiting.reliableCommands = server.reliableCommands
    BY AwaitingIs
  <2>2. \A s \in Slots : server.reliableCommands[s].level \in Nat
    <3>1. server.reliableCommands \in Rings(ServerKinds)
      BY KnownType DEF Servers
    <3>. QED BY <3>1 DEF Rings, Commands
  <2>3. Speaks(server, Known) /\ Known \in Nat
    BY KnownType
  <2>4. Speaks(Awaiting, Known')
    BY <1>2, <2>1, <2>2, <2>3 DEF Speaks
  <2>. QED BY <2>1, <2>4
<1>4. Plain("changing") \in Commands(ServerKinds) /\ Plain("reconnect") \in Commands(ServerKinds)
      /\ Plain("changing").level = 0 /\ Plain("reconnect").level = 0
      /\ Plain("changing").kind # "disconnect" /\ Plain("reconnect").kind # "disconnect"
  BY PlainType DEF ServerKinds
<1>5. /\ ToldChanging \in Servers /\ GoodServer(ToldChanging) /\ Speaks(ToldChanging, Known')
      /\ ToldChanging.state \in {"zombie", "connecting"}
      /\ server.state = "zombie" => ToldChanging.state = "zombie"
  <2>1. /\ (Awaiting.state = "zombie" => ToldChanging = Awaiting)
        /\ (Awaiting.state # "zombie" => \/ Batched(Awaiting, ToldChanging) \/ Drops(Awaiting, ToldChanging)
                                         \/ Stores(Awaiting, Plain("changing"), ToldChanging))
    BY <1>3, <1>4, SendIs DEF GoodServer, ToldChanging
  <2>2. Speaks(ToldChanging, Known')
    <3>1. Speaks(SendServerCommand(Awaiting, Plain("changing")), Known')
      BY <1>2, <1>3, <1>4, SpeaksSend DEF GoodServer
    <3>. QED BY <3>1 DEF ToldChanging
  <2>. QED BY <1>3, <2>1, <2>2, MapRecords DEF Batched, Drops, Stores
<1>. DEFINE e == AllSent(ToldChanging)
<1>6. /\ e \in Servers /\ GoodServer(e) /\ Speaks(e, Known') /\ e.state = ToldChanging.state
  BY <1>5, AllSentIs DEF Speaks
<1>. HIDE DEF e
<1>7. /\ ToldReconnect \in Servers /\ GoodServer(ToldReconnect) /\ Speaks(ToldReconnect, Known')
      /\ ToldReconnect.state \in {"zombie", "connecting"}
  <2>1. /\ (e.state = "zombie" => ToldReconnect = e)
        /\ (e.state # "zombie" => \/ Batched(e, ToldReconnect) \/ Drops(e, ToldReconnect)
                                  \/ Stores(e, Plain("reconnect"), ToldReconnect))
    BY <1>4, <1>6, SendIs DEF GoodServer, ToldReconnect, e
  <2>2. Speaks(ToldReconnect, Known')
    <3>1. Speaks(SendServerCommand(e, Plain("reconnect")), Known')
      BY <1>2, <1>4, <1>6, SpeaksSend DEF GoodServer
    <3>. QED BY <3>1 DEF ToldReconnect, e
  <2>. QED BY <1>5, <1>6, <2>1, <2>2, MapRecords DEF Batched, Drops, Stores
<1>8. Heard(svInput', Known') /\ svInput' = <<>>
  BY <1>1 DEF Heard
<1>9. CASE ToldChanging.state = "zombie"
  <2>1. Serve(ToldChanging, <<>>)
    BY <1>9, MapServes
  <2>2. <<>> \in Seq(ToClient) /\ 1 .. Len(<<>>) = {}
    OBVIOUS
  <2>. QED BY <1>1, <1>2, <1>5, <1>8, <1>9, <2>1, <2>2, ServeLevels
<1>10. CASE ToldChanging.state # "zombie"
  <2>. DEFINE m == Message(ToldChanging, <<>>)
              msgs == <<m>>
  <2>1. m \in ToClient /\ Heard(m.items, Known') /\ NoData(m.items) /\ ~Parts(m.items)
    BY <1>2, <1>5, <1>10, SpeaksMessage DEF GoodServer
  <2>2. DataWithin(m.items, level', level')
    BY <2>1 DEF NoData, DataWithin
  <2>3. Serve(ToldReconnect, msgs)
    BY <1>10, MapServes
  <2>. HIDE DEF m
  <2>4. msgs \in Seq(ToClient) /\ \A i \in 1 .. Len(msgs) : msgs[i] = m
    BY <2>1
  <2>. HIDE DEF msgs
  <2>5. server.state # "zombie"
    BY <1>5, <1>10
  <2>. QED BY <1>1, <1>2, <1>7, <1>8, <1>10, <2>1, <2>2, <2>3, <2>4, <2>5, ServeLevels
<1>. QED BY <1>9, <1>10
-----------------------------------------------------------------------------
\* What is left to parse, after a handler.
LEMMA HandledLevels ==
  ASSUME TypeInv, LevelInv, svInput # <<>>, svInput' = <<>> \/ svInput' = Tail(svInput)
  PROVE  Heard(svInput', Known)
<1>1. svInput \in Seq(Commands(ClientKinds)) /\ Heard(svInput, Known)
  BY DEF TypeInv, LevelInv, GoingInv
<1>2. CASE svInput' = <<>>
  BY <1>2 DEF Heard
<1>3. CASE svInput' = Tail(svInput)
  BY <1>1, <1>3, TailFacts DEF Heard
<1>. QED BY <1>2, <1>3

\* What the server parses is of a level known.
LEMMA TakenLevel ==
  ASSUME TypeInv, LevelInv, svInput # <<>>
  PROVE  Head(svInput).level <= Known
<1>1. svInput \in Seq(Commands(ClientKinds)) /\ Heard(svInput, Known)
  BY DEF TypeInv, LevelInv, GoingInv
<1>2. Head(svInput) = svInput[1] /\ Len(svInput) \in Nat \ {0} /\ svInput[1].kind \in ClientKinds
  BY <1>1, TailFacts, TakenType
<1>. QED BY <1>1, <1>2 DEF Heard, ClientKinds

LEMMA NotedSpeaks ==
  ASSUME TypeInv, LevelInv, svInput # <<>>
  PROVE  Noted \in Servers /\ GoodServer(Noted) /\ Filled(Noted) /\ Ordered(Noted)
         /\ Speaks(Noted, Known) /\ Noted.state = server.state
<1>1. Speaks(server, Known)
  BY KnownType
<1>. QED BY <1>1, NotedIs DEF Speaks, GoodServer

\* A handler of a client that was not dropped, and that says nothing itself.
LEMMA HandlerLevels ==
  ASSUME TypeInv, TypeInv', LevelInv, svInput # <<>>, Handled, server.state # "zombie",
         NEW c \in Servers, GoodServer(c), Serve(c, <<>>), Speaks(c, Known),
         c.state = "spawned" => level <= Known
  PROVE  LevelInv'
<1>1. UNCHANGED <<client, level, clInput, toServer>> /\ level <= level' /\ Known' = Known
  BY KnownType DEF Handled, world, Known
<1>2. server' = c
  BY DEF Serve
<1>3. svInput' = (IF c.state = "zombie" THEN <<>> ELSE Tail(svInput))
  BY <1>2 DEF Handled
<1>4. Heard(svInput', Known')
  BY <1>1, <1>3, HandledLevels
<1>5. <<>> \in Seq(ToClient) /\ 1 .. Len(<<>>) = {}
  OBVIOUS
<1>. QED BY <1>1, <1>3, <1>4, <1>5, ServeLevels

LEMMA ServerReceiveLevels ==
  ASSUME TypeInv, TypeInv', LevelInv, ServerReceive
  PROVE  LevelInv'
<1>1. /\ UNCHANGED <<client, level, clInput, toClient>> /\ Known' = Known /\ toServer # <<>>
      /\ toServer' = Tail(toServer) /\ toServer \in Seq(ToServer) /\ svInput = <<>>
  BY DEF ServerReceive, world, Known, TypeInv, Quiet
<1>2. /\ Len(toServer') = Len(toServer) - 1 /\ Len(toServer) \in Nat \ {0}
      /\ Head(toServer) = toServer[1]
      /\ \A i \in 1 .. Len(toServer) - 1 : toServer'[i] = toServer[i + 1]
  BY <1>1, TailFacts
<1>3. \A i \in 1 .. Len(toServer') : Heard(toServer'[i].items, Known')
  <2>1. \A i \in 1 .. Len(toServer) : Heard(toServer[i].items, Known)
    BY DEF LevelInv, GoingInv
  <2>. QED BY <1>1, <1>2, <2>1
<1>4. Heard(Head(toServer).items, Known)
  BY <1>2 DEF LevelInv, GoingInv
<1>5. CASE server.state # "zombie" /\ Acknowledges(server, Head(toServer).ack)
  <2>1. server' = [server EXCEPT !.reliableAcknowledge = Head(toServer).ack]
        /\ svInput' = Head(toServer).items
    BY <1>5 DEF ServerReceive
  <2>2. server'.state = server.state /\ server'.reliableCommands = server.reliableCommands
    BY <2>1, KnownType DEF Servers
  <2>3. PartingInv'
    BY <1>1, <1>5, <2>2 DEF LevelInv, PartingInv
  <2>4. SpokenInv'
    BY <1>1, <2>2 DEF LevelInv, SpokenInv
  <2>5. GoingInv'
    BY <1>1, <1>3, <1>4, <2>1 DEF LevelInv, GoingInv
  <2>6. client.left = "no" => ComingInv'
    BY <1>1 DEF LevelInv, ComingInv
  <2>7. client.left # "no" => Gone'
    BY <1>1, <2>2 DEF LevelInv, Gone
  <2>. QED BY <1>1, <2>3, <2>4, <2>5, <2>6, <2>7 DEF LevelInv
<1>6. CASE ~(server.state # "zombie" /\ Acknowledges(server, Head(toServer).ack))
  <2>1. UNCHANGED <<server, svInput>>
    BY <1>6 DEF ServerReceive
  <2>. QED BY <1>1, <1>3, <2>1 DEF LevelInv, PartingInv, SpokenInv, GoingInv, ComingInv, Gone, Executed
<1>. QED BY <1>5, <1>6

LEMMA ServerSkipsLevels ==
  ASSUME TypeInv, TypeInv', LevelInv, ServerSkips
  PROVE  LevelInv'
<1>1. /\ UNCHANGED <<server, client, level, clInput, toClient, toServer>> /\ Known' = Known
      /\ svInput # <<>> /\ svInput' = Tail(svInput) /\ Executed(server, Head(svInput))
  BY DEF ServerSkips, world, Known
<1>2. Heard(svInput', Known')
  BY <1>1, HandledLevels
<1>3. Head(svInput) = svInput[1]
  BY <1>1, TakenType
<1>4. server.state # "zombie"
  BY <1>1, <1>3 DEF LevelInv, PartingInv
<1>. QED BY <1>1, <1>2, <1>4 DEF LevelInv, PartingInv, SpokenInv, GoingInv, ComingInv, Gone

\* Commands of other kinds are not parsed for a client that was dropped.
LEMMA TakingAlive ==
  ASSUME TypeInv, LevelInv, NEW kind, kind # "configstrings", Taking(kind)
  PROVE  svInput # <<>> /\ server.state # "zombie"
<1>1. svInput # <<>> /\ Head(svInput).kind = kind
  BY DEF Taking
<1>2. Head(svInput) = svInput[1]
  BY <1>1, TakenType
<1>. QED BY <1>1, <1>2 DEF LevelInv, PartingInv

LEMMA NewLevels ==
  ASSUME TypeInv, TypeInv', LevelInv, svInput # <<>>, Handled, server.state # "zombie", New(Noted)
  PROVE  LevelInv'
<1>1. CASE Noted.state = "spawned"
  <2>1. Serve(Noted, <<>>)
    BY <1>1 DEF New
  <2>2. level <= Known
    BY <1>1, NotedSpeaks DEF LevelInv, SpokenInv
  <2>. QED BY <2>1, <2>2, NotedSpeaks, HandlerLevels
<1>2. CASE Noted.state # "spawned"
  <2>. DEFINE d == [ResetCommandBuffers(Noted) EXCEPT !.state = "connecting"]
              m == ServerData(Noted)
              msgs == <<m>>
  <2>1. /\ d \in Servers /\ GoodServer(d) /\ d.state = "connecting" /\ d.numbering = Noted.numbering + 1
        /\ d.reliableCommands = NoCommands
        /\ \A s \in Slots : NoCommands[s].kind = "none" /\ NoCommands[s].level = 0
    BY NotedSpeaks, ResetIs
  <2>2. Serve(d, msgs)
    <3>. HIDE DEF d
    <3>1. Serve(d, <<[ack |-> Noted.clientCommandExecuted,
                      items |-> <<Command("serverdata", level, d.numbering, <<>>)>>]>>)
      BY <1>2 DEF New, d
    <3>. QED BY <2>1, <3>1 DEF ServerData
  <2>. HIDE DEF d
  <2>3. /\ UNCHANGED <<client, level, clInput, toServer>> /\ Known' = Known /\ level <= level'
        /\ Known \in Nat /\ level \in Nat
    BY KnownType DEF Handled, world, Known
  <2>4. server' = d
    BY <2>2 DEF Serve
  <2>5. svInput' = Tail(svInput)
    BY <2>1, <2>4 DEF Handled
  <2>6. Heard(svInput', Known')
    BY <2>3, <2>5, HandledLevels
  <2>7. Speaks(d, Known')
    BY <2>1, <2>3 DEF Speaks
  <2>8. /\ m \in ToClient /\ Len(m.items) = 1
        /\ m.items[1].kind = "serverdata" /\ m.items[1].level = level
    BY NotedSpeaks, ServerDataIs
  <2>. HIDE DEF m
  <2>9. Heard(m.items, Known') /\ DataWithin(m.items, level', level') /\ ~Parts(m.items)
    BY <2>3, <2>8 DEF Heard, DataWithin, Parts
  <2>10. msgs \in Seq(ToClient) /\ \A i \in 1 .. Len(msgs) : msgs[i] = m
    BY <2>8
  <2>. HIDE DEF msgs
  <2>. QED BY <2>1, <2>2, <2>3, <2>6, <2>7, <2>9, <2>10, ServeLevels
<1>. QED BY <1>1, <1>2

LEMMA SV_New_fLevels ==
  ASSUME TypeInv, TypeInv', LevelInv, SV_New_f
  PROVE  LevelInv'
BY TakingAlive, NewLevels DEF SV_New_f

LEMMA ConfigstringsLoopLevels ==
  ASSUME TypeInv, TypeInv', LevelInv, ConfigstringsLoop
  PROVE  LevelInv'
<1>. DEFINE cmd == Cs(Head(svInput).arg)
            d == SendServerCommand(Looping, cmd)
<1>1. /\ Looping \in Servers /\ GoodServer(Looping) /\ Looping.state = "connected"
      /\ Looping.reliableCommands = server.reliableCommands /\ Head(svInput).arg \in Index
      /\ Looping.clientCommandExecuted = server.clientCommandExecuted
      /\ Serve(d, <<>>)
  BY LoopIs
<1>2. svInput # <<>> /\ server.state # "zombie"
  BY DEF ConfigstringsLoop, Taking, InLoop, StartsConnected
<1>3. Speaks(Looping, Known) /\ Known \in Nat
  <2>1. Speaks(server, Known) /\ Known \in Nat
    BY KnownType
  <2>. QED BY <1>1, <1>2, <2>1 DEF Speaks
<1>4. cmd \in Commands(ServerKinds) /\ cmd.kind = "cs" /\ cmd.level = 0
  BY <1>1, CsIs
<1>. HIDE DEF cmd
<1>5. d \in Servers /\ GoodServer(d) /\ Speaks(d, Known) /\ d.state \in {"connected", "zombie"}
      /\ d.clientCommandExecuted = server.clientCommandExecuted
  <2>1. d \in Servers /\ GoodServer(d)
        /\ (Batched(Looping, d) \/ Drops(Looping, d) \/ Stores(Looping, cmd, d))
    BY <1>1, <1>4, SendIs DEF GoodServer
  <2>2. Speaks(d, Known)
    BY <1>1, <1>3, <1>4, SpeaksSend DEF GoodServer
  <2>. HIDE DEF d
  <2>. QED BY <1>1, <2>1, <2>2 DEF Batched, Drops, Stores
<1>. HIDE DEF d
<1>6. UNCHANGED <<client, level, clInput, toServer>> /\ level <= level' /\ Known' = Known
  BY KnownType DEF ConfigstringsLoop, world, Known
<1>7. /\ Len(svInput') = Len(svInput) /\ Len(svInput) \in Nat \ {0}
      /\ svInput'[1].kind = "configstrings" /\ svInput'[1].num = Head(svInput).num
      /\ svInput'[1].level = Head(svInput).level
      /\ \A j \in 2 .. Len(svInput) : svInput'[j] = svInput[j]
      /\ ~Executed(server, Head(svInput))
  <2>1. Head(svInput).kind = "configstrings" /\ ~Executed(server, Head(svInput))
        /\ svInput' = [svInput EXCEPT ![1].arg = @ + 1] /\ svInput \in Seq(Commands(ClientKinds))
    BY DEF ConfigstringsLoop, Taking, TypeInv
  <2>. DEFINE x == svInput[1]
              n == x.arg + 1
              y == [x EXCEPT !.arg = n]
  <2>2. x = Head(svInput) /\ x \in Commands(ClientKinds) /\ Len(svInput) \in Nat \ {0}
    BY <1>2, <2>1, TailFacts
  <2>3. y.kind = x.kind /\ y.num = x.num /\ y.level = x.level
    <3>. HIDE DEF n, x
    <3>. QED BY <2>2 DEF Commands
  <2>4. svInput' = [svInput EXCEPT ![1] = y]
    BY <2>1
  <2>. HIDE DEF x, y
  <2>5. /\ Len(svInput') = Len(svInput) /\ svInput'[1] = y
        /\ \A j \in 2 .. Len(svInput) : svInput'[j] = svInput[j]
    <3>1. 1 \in DOMAIN svInput /\ DOMAIN svInput = 1 .. Len(svInput)
      BY <2>1, <2>2
    <3>2. DOMAIN svInput' = 1 .. Len(svInput)
      BY <2>4, <3>1
    <3>3. Len(svInput') = Len(svInput)
      BY <2>2, <3>2
    <3>. QED BY <2>2, <2>4, <3>1, <3>3
  <2>. QED BY <2>1, <2>2, <2>3, <2>5
<1>8. Heard(svInput', Known')
  <2>1. Heard(svInput, Known) /\ Head(svInput).level <= Known
    BY <1>2, TakenLevel DEF LevelInv, GoingInv
  <2>2. \A j \in 1 .. Len(svInput) : j = 1 \/ j \in 2 .. Len(svInput)
    BY <1>7
  <2>. QED BY <1>6, <1>7, <2>1, <2>2 DEF Heard
<1>9. ~Executed(d, svInput'[1])
  BY <1>5, <1>7 DEF Executed
<1>10. <<>> \in Seq(ToClient) /\ 1 .. Len(<<>>) = {}
  OBVIOUS
<1>. QED BY <1>1, <1>2, <1>5, <1>6, <1>7, <1>8, <1>9, <1>10, ServeLevels

LEMMA SV_Configstrings_fLevels ==
  ASSUME TypeInv, TypeInv', LevelInv, SV_Configstrings_f
  PROVE  LevelInv'
<1>0. /\ svInput # <<>> /\ ConfigStart \in Servers /\ GoodServer(ConfigStart)
      /\ ConfigStart.state = StartsConnected /\ ConfigStart.reliableCommands = server.reliableCommands
      /\ Serve(Configured, <<>>) /\ Configured \in Servers /\ GoodServer(Configured) /\ Handled
  BY ConfigstringsIs DEF SV_Configstrings_f
<1>1. Speaks(server, Known) /\ Known \in Nat
  BY KnownType
<1>2. Speaks(ConfigStart, Known)
  BY <1>0, <1>1 DEF Speaks, StartsConnected
<1>3. CASE ConfigStart.state # "connected"
  <2>1. Configured = ConfigStart /\ ConfigStart.state = server.state
    BY <1>0, <1>3 DEF Configured, StartsConnected
  <2>2. Configured.state = "spawned" => level <= Known
    BY <2>1 DEF LevelInv, SpokenInv
  <2>3. CASE server.state # "zombie"
    BY <1>0, <1>2, <2>1, <2>2, <2>3, HandlerLevels
  <2>4. CASE server.state = "zombie"
    <3>1. UNCHANGED <<client, level, clInput, toServer>> /\ level <= level' /\ Known' = Known
      BY KnownType DEF SV_Configstrings_f, Handled, world, Known
    <3>2. server' = Configured
      BY <1>0 DEF Serve
    <3>3. svInput' = <<>>
      BY <2>1, <2>4, <3>2 DEF SV_Configstrings_f, Handled
    <3>4. Heard(svInput', Known') /\ <<>> \in Seq(ToClient) /\ 1 .. Len(<<>>) = {}
      BY <3>3 DEF Heard
    <3>. QED BY <1>0, <1>2, <2>1, <2>2, <2>4, <3>1, <3>3, <3>4, ServeLevels
  <2>. QED BY <2>3, <2>4
<1>4. CASE ConfigStart.state = "connected"
  <2>1. Configured = SendServerCommand(ConfigStart, Asked)
    BY <1>4 DEF Configured
  <2>2. /\ Asked \in Commands(ServerKinds) /\ Asked.kind # "disconnect"
        /\ Asked.level \in {0, Head(svInput).level}
    BY <1>0, AskedIs
  <2>3. Asked.level <= Known
    BY <1>0, <1>1, <2>2, TakenLevel
  <2>4. Speaks(Configured, Known)
    BY <1>0, <1>1, <1>2, <2>1, <2>2, <2>3, SpeaksSend DEF GoodServer
  <2>5. server.state # "zombie"
    BY <1>0, <1>4 DEF StartsConnected
  <2>6. Configured.state # "spawned"
    <3>1. \/ Batched(ConfigStart, Configured) \/ Drops(ConfigStart, Configured)
          \/ Stores(ConfigStart, Asked, Configured)
      BY <1>0, <1>4, <2>1, <2>2, SendIs DEF GoodServer
    <3>. QED BY <1>4, <3>1 DEF Batched, Drops, Stores
  <2>. QED BY <1>0, <2>4, <2>5, <2>6, HandlerLevels
<1>. QED BY <1>3, <1>4

LEMMA SV_Baselines_fLevels ==
  ASSUME TypeInv, TypeInv', LevelInv, SV_Baselines_f
  PROVE  LevelInv'
<1>0. svInput # <<>> /\ server.state # "zombie" /\ Handled
  BY TakingAlive DEF SV_Baselines_f
<1>1. /\ Noted \in Servers /\ GoodServer(Noted) /\ Filled(Noted) /\ Ordered(Noted)
      /\ Speaks(Noted, Known) /\ Noted.state = server.state /\ Known \in Nat /\ level \in Nat
  BY <1>0, NotedSpeaks, KnownType
<1>2. CASE Noted.state # "connected"
  <2>1. Serve(Noted, <<>>)
    BY <1>2 DEF SV_Baselines_f
  <2>2. Noted.state = "spawned" => level <= Known
    BY <1>1 DEF LevelInv, SpokenInv
  <2>. QED BY <1>0, <1>1, <2>1, <2>2, HandlerLevels
<1>3. CASE Noted.state = "connected" /\ Head(svInput).level # level
  <2>1. New(Noted)
    BY <1>3 DEF SV_Baselines_f
  <2>. QED BY <1>0, <2>1, NewLevels
<1>4. CASE Noted.state = "connected" /\ Head(svInput).level = level
  <2>. DEFINE cmd == Command("precache", level, 0, <<>>)
              c == Baselined
              m == Message(c, <<>>)
              msgs == <<m>>
  <2>1. Serve(AllSent(c), msgs)
    BY <1>4 DEF SV_Baselines_f, Baselined
  <2>2. cmd \in Commands(ServerKinds) /\ cmd.kind = "precache" /\ cmd.level = level /\ level <= Known
    <3>1. level \in Nat /\ <<>> \in Seq(Strings) /\ "precache" \in ServerKinds
      BY <1>1 DEF ServerKinds
    <3>2. level <= Known
      BY <1>0, <1>4, TakenLevel
    <3>. QED BY <3>1, <3>2 DEF Command, Commands
  <2>. HIDE DEF cmd
  <2>3. c \in Servers /\ GoodServer(c) /\ AllSent(c) \in Servers /\ GoodServer(AllSent(c))
    BY <1>0, BaselinedIs
  <2>4. c = SendServerCommand(Noted, cmd)
    BY DEF Baselined, cmd
  <2>. HIDE DEF c
  <2>5. Speaks(c, Known)
    BY <1>1, <2>2, <2>4, SpeaksSend
  <2>6. c.state # "spawned"
    <3>1. Batched(Noted, c) \/ Drops(Noted, c) \/ Stores(Noted, cmd, c)
      BY <1>0, <1>1, <2>2, <2>4, SendIs
    <3>. QED BY <1>4, <3>1 DEF Batched, Drops, Stores
  <2>. DEFINE e == AllSent(c)
  <2>7. e \in Servers /\ GoodServer(e) /\ e.state = c.state /\ Speaks(e, Known)
    BY <2>3, <2>5, AllSentIs DEF Speaks
  <2>. HIDE DEF e
  <2>8. m \in ToClient /\ Heard(m.items, Known) /\ NoData(m.items) /\ (Parts(m.items) => c.state = "zombie")
    BY <1>1, <2>3, <2>5, SpeaksMessage DEF GoodServer
  <2>. HIDE DEF m
  <2>9. DataWithin(m.items, level, level)
    BY <2>8 DEF NoData, DataWithin
  <2>10. msgs \in Seq(ToClient) /\ \A i \in 1 .. Len(msgs) : msgs[i] = m
    BY <2>8
  <2>. HIDE DEF msgs
  <2>11. UNCHANGED <<client, level, clInput, toServer>> /\ level <= level' /\ Known' = Known
    BY <1>0, KnownType DEF Handled, world, Known
  <2>12. Serve(e, msgs)
    BY <2>1 DEF e
  <2>13. server' = e
    BY <2>12 DEF Serve
  <2>14. svInput' = (IF e.state = "zombie" THEN <<>> ELSE Tail(svInput))
    BY <1>0, <2>13 DEF Handled
  <2>15. Heard(svInput', Known')
    BY <1>0, <2>11, <2>14, HandledLevels
  <2>16. \A i \in 1 .. Len(msgs) :
           /\ Heard(msgs[i].items, Known') /\ DataWithin(msgs[i].items, level', level')
           /\ Parts(msgs[i].items) =>
                e.state = "zombie" /\ \A j \in i .. Len(msgs) : NoData(msgs[j].items)
    <3>1. \A i \in 1 .. Len(msgs) : \A j \in i .. Len(msgs) : j \in 1 .. Len(msgs)
      BY <2>10
    <3>. QED BY <2>7, <2>8, <2>9, <2>10, <2>11, <3>1
  <2>. QED BY <1>0, <2>6, <2>7, <2>10, <2>11, <2>12, <2>14, <2>15, <2>16, ServeLevels
<1>. QED BY <1>2, <1>3, <1>4

LEMMA SV_Begin_fLevels ==
  ASSUME TypeInv, TypeInv', LevelInv, SV_Begin_f
  PROVE  LevelInv'
<1>0. svInput # <<>> /\ server.state # "zombie" /\ Handled /\ Serve(Began, <<>>)
  BY TakingAlive DEF SV_Begin_f, Began, ToldAgain
<1>1. /\ Noted \in Servers /\ GoodServer(Noted) /\ Filled(Noted) /\ Ordered(Noted)
      /\ Speaks(Noted, Known) /\ Noted.state = server.state /\ Known \in Nat /\ level \in Nat
  BY <1>0, NotedSpeaks, KnownType
<1>2. Began \in Servers /\ GoodServer(Began)
  BY <1>0, BeganIs
<1>3. Speaks(Began, Known) /\ (Began.state = "spawned" => level <= Known)
  <2>1. CASE Noted.state # "connected"
    <3>1. Began = Dropped(Noted)
      BY <2>1 DEF Began
    <3>. QED BY <1>1, <3>1, SpeaksDrop
  <2>2. CASE Noted.state = "connected" /\ Head(svInput).level # level
    <3>. DEFINE c == SendServerCommand(Noted, Plain("changing"))
    <3>1. Plain("changing") \in Commands(ServerKinds) /\ Plain("reconnect") \in Commands(ServerKinds)
          /\ Plain("changing").level = 0 /\ Plain("reconnect").level = 0
          /\ Plain("changing").kind = "changing" /\ Plain("reconnect").kind = "reconnect"
      BY PlainType DEF ServerKinds
    <3>2. c \in Servers /\ GoodServer(c) /\ Speaks(c, Known)
      BY <1>0, <1>1, <3>1, BeganIs, SpeaksSend
    <3>3. c.state \in {"connected", "zombie"}
      <4>1. Batched(Noted, c) \/ Drops(Noted, c) \/ Stores(Noted, Plain("changing"), c)
        BY <1>0, <1>1, <3>1, SendIs
      <4>. QED BY <2>2, <4>1 DEF Batched, Drops, Stores
    <3>4. Began = SendServerCommand(c, Plain("reconnect"))
      BY <2>2 DEF Began, ToldAgain
    <3>. HIDE DEF c
    <3>5. Speaks(Began, Known)
      BY <1>1, <3>1, <3>2, <3>4, SpeaksSend DEF GoodServer
    <3>6. Began.state # "spawned"
      <4>1. /\ c.state = "zombie" => Began = c
            /\ c.state # "zombie" => Batched(c, Began) \/ Drops(c, Began) \/ Stores(c, Plain("reconnect"), Began)
        BY <3>1, <3>2, <3>4, SendIs DEF GoodServer
      <4>. QED BY <3>3, <4>1 DEF Batched, Drops, Stores
    <3>. QED BY <3>5, <3>6
  <2>3. CASE Noted.state = "connected" /\ Head(svInput).level = level
    <3>1. Began = [Noted EXCEPT !.state = "spawned"]
      BY <2>3 DEF Began
    <3>2. Began.state = "spawned" /\ Began.reliableCommands = Noted.reliableCommands
      BY <1>1, <3>1, StateIs
    <3>3. Speaks(Began, Known)
      BY <1>1, <2>3, <3>2 DEF Speaks
    <3>. QED BY <1>0, <2>3, <3>3, TakenLevel
  <2>. QED BY <2>1, <2>2, <2>3
<1>. QED BY <1>0, <1>2, <1>3, HandlerLevels

LEMMA SV_Disconnect_fLevels ==
  ASSUME TypeInv, TypeInv', LevelInv, SV_Disconnect_f
  PROVE  LevelInv'
<1>0. svInput # <<>> /\ server.state # "zombie" /\ Handled /\ Serve(Dropped(Noted), <<>>)
  BY TakingAlive DEF SV_Disconnect_f
<1>1. /\ Noted \in Servers /\ GoodServer(Noted) /\ Filled(Noted) /\ Ordered(Noted)
      /\ Speaks(Noted, Known) /\ Known \in Nat
  BY <1>0, NotedSpeaks, KnownType
<1>2. Dropped(Noted) \in Servers /\ GoodServer(Dropped(Noted)) /\ Speaks(Dropped(Noted), Known)
      /\ Dropped(Noted).state = "zombie"
  BY <1>1, DroppedIs, SpeaksDrop
<1>. QED BY <1>0, <1>2, HandlerLevels

LEMMA ClientCommandLevels ==
  ASSUME TypeInv, TypeInv', LevelInv, ClientCommand
  PROVE  LevelInv'
<1>0. svInput # <<>> /\ server.state # "zombie" /\ Handled /\ Serve(Noted, <<>>)
  BY TakingAlive DEF ClientCommand
<1>1. Noted.state = "spawned" => level <= Known
  BY <1>0, NotedSpeaks DEF LevelInv, SpokenInv
<1>. QED BY <1>0, <1>1, NotedSpeaks, HandlerLevels

LEMMA ServerTimeoutLevels ==
  ASSUME TypeInv, TypeInv', LevelInv, ServerTimeout
  PROVE  LevelInv'
<1>0. /\ Serve(Dropped(server), <<>>) /\ svInput = <<>> /\ svInput' = <<>>
      /\ UNCHANGED <<client, level, clInput, toServer>>
  BY DEF ServerTimeout, Quiet, world
<1>1. Known' = Known /\ level <= level' /\ Known \in Nat
  BY <1>0, KnownType DEF Known
<1>2. Dropped(server) \in Servers /\ GoodServer(Dropped(server)) /\ Speaks(Dropped(server), Known)
      /\ Dropped(server).state = "zombie"
  BY <1>1, KnownType, DroppedIs, SpeaksDrop
<1>3. Heard(svInput', Known') /\ <<>> \in Seq(ToClient) /\ 1 .. Len(<<>>) = {}
  BY <1>0 DEF Heard
<1>4. server.state # "zombie"
  BY DEF ServerTimeout, ServerListens
<1>. QED BY <1>0, <1>1, <1>2, <1>3, <1>4, ServeLevels
-----------------------------------------------------------------------------
(* Levels: what the client says *)

\* Fewer items are of no other levels.
LEMMA FewerItems ==
  ASSUME NEW S, NEW s \in Seq(S), NEW t, t = <<>> \/ t = s \/ (s # <<>> /\ t = Tail(s))
  PROVE  /\ \A lev : Heard(s, lev) => Heard(t, lev)
         /\ \A a, b : DataWithin(s, a, b) => DataWithin(t, a, b)
         /\ NoData(s) => NoData(t)
         /\ Parts(t) => Parts(s)
         /\ \A u : DataOrdered(s, u) => DataOrdered(t, u)
<1>1. CASE t = <<>>
  BY <1>1 DEF Heard, DataWithin, NoData, Parts, DataOrdered
<1>2. CASE t = s
  BY <1>2
<1>3. CASE s # <<>> /\ t = Tail(s)
  <2>1. /\ Len(t) = Len(s) - 1 /\ Len(s) \in Nat
        /\ \A i \in 1 .. Len(t) : t[i] = s[i + 1] /\ i + 1 \in 1 .. Len(s)
    BY <1>3, TailFacts
  <2>2. \A lev : Heard(s, lev) => Heard(t, lev)
    BY <2>1 DEF Heard
  <2>3. \A a, b : DataWithin(s, a, b) => DataWithin(t, a, b)
    BY <2>1 DEF DataWithin
  <2>4. NoData(s) => NoData(t)
    BY <2>1 DEF NoData
  <2>5. Parts(t) => Parts(s)
    BY <2>1 DEF Parts
  <2>6. \A u : DataOrdered(s, u) => DataOrdered(t, u)
    BY <2>1 DEF DataOrdered
  <2>. QED BY <2>2, <2>3, <2>4, <2>5, <2>6
<1>. QED BY <1>1, <1>2, <1>3

\* The messages of a goodbye, and of a client, are of levels that are known.
LEMMA ToldLevels ==
  ASSUME NEW k \in Clients, Filled(k), NEW b \in Nat,
         \A s \in Slots : k.reliableCommands[s].level <= b
  PROVE  /\ Heard(MessageToServer(k).items, b)
         /\ \A i \in 1 .. Len(Goodbye(k)) : Heard(Goodbye(k)[i].items, b)
<1>1. ASSUME NEW x, Pends(k, x) PROVE x.level <= b
  <2>1. PICK n \in 1 .. k.reliableSequence : x = [k.reliableCommands[Slot(n)] EXCEPT !.num = n]
    BY <1>1 DEF Pends
  <2>2. n \in Nat /\ n \in Int
    BY ClientFields
  <2>3. Slot(n) \in Slots
    BY <2>2, SlotType
  <2>. DEFINE y == k.reliableCommands[Slot(n)]
  <2>4. y \in Commands(ClientKinds \cup {"none"}) /\ y.level <= b
    <3>1. k.reliableCommands \in [Slots -> Commands(ClientKinds \cup {"none"})]
      BY ClientFields
    <3>. QED BY <2>3, <3>1
  <2>5. x = [y EXCEPT !.num = n]
    BY <2>1
  <2>. HIDE DEF y
  <2>. QED BY <2>4, <2>5 DEF Commands
<1>2. \A x : Leaves(k, x) => x.level <= b
  BY <1>1 DEF Leaves
<1>3. \A j \in 1 .. Len(MessageToServer(k).items) : Pends(k, MessageToServer(k).items[j])
  BY ClientMessageIs
<1>4. \A i \in 1 .. Len(Goodbye(k)) : \A j \in 1 .. Len(Goodbye(k)[i].items) : Leaves(k, Goodbye(k)[i].items[j])
  BY GoodbyeIs
<1>. QED BY <1>1, <1>2, <1>3, <1>4 DEF Heard

\* What a step of the client that goes on with k leaves in the channel.
LEMMA BecomeIs ==
  ASSUME TypeInv, NEW k \in Clients, Filled(k), Become(k)
  PROVE  \/ /\ k.state = "disconnected" /\ client.state # "disconnected"
            /\ client' \in Clients /\ Cleared(k, "disconnected", client')
            /\ toServer' = toServer \o Goodbye(k)
         \/ /\ ~(k.state = "disconnected" /\ client.state # "disconnected")
            /\ client' = k /\ toServer' = toServer
<1>1. CASE k.state = "disconnected" /\ client.state # "disconnected"
  BY <1>1, ClearStateIs DEF Become
<1>2. CASE ~(k.state = "disconnected" /\ client.state # "disconnected")
  BY <1>2 DEF Become
<1>. QED BY <1>1, <1>2

\* A step of the client in its life, or one that ends it, keeps the levels in order.
LEMMA BecomeLevels ==
  ASSUME TypeInv, TypeInv', LevelInv, UNCHANGED <<server, level, svInput, toClient>>,
         NEW k \in Clients, Filled(k), Become(k),
         \A s \in Slots : k.reliableCommands[s].level <= Known,
         k.servercount = client.servercount,
         clInput' = <<>> \/ clInput' = clInput \/ (clInput # <<>> /\ clInput' = Tail(clInput)),
         \/ /\ k.left = "no" /\ client.left = "no" /\ k.state # "disconnected"
            /\ k.snap \in {0, client.servercount}
            /\ k.state = "active" => k.snap = client.servercount
         \/ /\ k.left # "no" /\ k.state # "active"
            /\ client.left # "no" => k.snap = 0
            /\ client.left = "no" => k.state = "disconnected" /\ client.state # "disconnected"
            /\ \/ k.state = "disconnected" /\ clInput' = <<>>
               \/ /\ server.state = "zombie"
                  /\ NoData(clInput) /\ \A i \in 1 .. Len(toClient) : NoData(toClient[i].items)
  PROVE  LevelInv'
<1>0. /\ Known \in Nat /\ level \in Nat /\ Known <= level /\ client.servercount \in Nat
      /\ clInput \in Seq(Commands(ServerKinds \cup DataKinds)) /\ toServer \in Seq(ToServer)
      /\ client.servercount <= level
  BY KnownType DEF TypeInv, LevelInv
<1>1. \/ /\ k.state = "disconnected" /\ client.state # "disconnected"
         /\ client' \in Clients /\ Cleared(k, "disconnected", client')
         /\ toServer' = toServer \o Goodbye(k)
      \/ client' = k /\ toServer' = toServer /\ ~(k.state = "disconnected" /\ client.state # "disconnected")
  BY BecomeIs
<1>2. client'.left = k.left
  BY <1>1 DEF Cleared
<1>3. Known' \in Nat /\ Known <= Known' /\ client'.servercount <= level
      /\ (k.left = "no" => client' = k /\ Known' = Known)
  <2>1. CASE k.left = "no"
    <3>1. client' = k /\ client'.servercount = client.servercount /\ client.left = "no"
      BY <1>1, <2>1
    <3>. QED BY <1>0, <1>2, <2>1, <3>1 DEF Known
  <2>2. CASE k.left # "no"
    <3>1. Known' = level
      BY <1>2, <2>2 DEF Known
    <3>2. client'.servercount = 0 \/ client'.servercount <= level
      <4>1. CASE Cleared(k, "disconnected", client')
        BY <4>1 DEF Cleared
      <4>2. CASE client' = k
        BY <1>0, <1>1, <1>2, <2>2, <4>2
      <4>. QED BY <1>1, <4>1, <4>2
    <3>. QED BY <1>0, <2>2, <3>1, <3>2
  <2>. QED BY <2>1, <2>2
<1>4. /\ \A lev : Heard(clInput, lev) => Heard(clInput', lev)
      /\ \A a, b : DataWithin(clInput, a, b) => DataWithin(clInput', a, b)
      /\ NoData(clInput) => NoData(clInput')
      /\ Parts(clInput') => Parts(clInput)
      /\ \A u : DataOrdered(clInput, u) => DataOrdered(clInput', u)
  BY <1>0, FewerItems
<1>5. PartingInv'
  BY <1>4 DEF LevelInv, PartingInv, Executed
<1>6. SpokenInv'
  <2>1. \A s \in Slots : server.reliableCommands[s].level <= Known'
    <3>1. \A s \in Slots : server.reliableCommands[s].level <= Known /\ server.reliableCommands[s].level \in Nat
      <4>1. server.reliableCommands \in Rings(ServerKinds)
        BY KnownType DEF Servers
      <4>. QED BY <4>1 DEF LevelInv, SpokenInv, Rings, Commands
    <3>. QED BY <1>0, <1>3, <3>1
  <2>2. Heard(clInput', Known')
    <3>1. Heard(clInput, Known)
      BY DEF LevelInv, SpokenInv
    <3>. QED BY <1>0, <1>3, <1>4, <3>1, HeardMore
  <2>3. ASSUME NEW i \in 1 .. Len(toClient) PROVE Heard(toClient[i].items, Known')
    <3>1. Heard(toClient[i].items, Known)
      BY DEF LevelInv, SpokenInv
    <3>2. toClient[i].items \in Seq(Commands(ServerKinds \cup DataKinds))
      BY MessageTypes DEF TypeInv, ToClient
    <3>. QED BY <1>0, <1>3, <3>1, <3>2, HeardMore
  <2>4. server.state = "spawned" => level <= Known'
    BY <1>0, <1>3 DEF LevelInv, SpokenInv
  <2>. QED BY <2>1, <2>2, <2>3, <2>4 DEF SpokenInv
<1>7. GoingInv'
  <2>1. \A s \in Slots : client'.reliableCommands[s].level <= Known'
    <3>1. CASE client' = k
      <4>1. \A s \in Slots : k.reliableCommands[s].level \in Nat
        <5>1. k.reliableCommands \in [Slots -> Commands(ClientKinds \cup {"none"})]
          BY ClientFields
        <5>. QED BY <5>1 DEF Commands
      <4>. QED BY <1>0, <1>3, <3>1, <4>1
    <3>2. CASE Cleared(k, "disconnected", client')
      <4>1. client'.reliableCommands = NoCommands
        BY <3>2 DEF Cleared
      <4>2. \A s \in Slots : NoCommands[s].level = 0
        BY DEF NoCommands, Slots, Empty, Plain, Command
      <4>. QED BY <1>3, <4>1, <4>2
    <3>. QED BY <1>1, <3>1, <3>2
  <2>2. ASSUME NEW i \in 1 .. Len(toServer') PROVE Heard(toServer'[i].items, Known')
    <3>1. \A j \in 1 .. Len(toServer) : Heard(toServer[j].items, Known')
      <4>. SUFFICES ASSUME NEW j \in 1 .. Len(toServer) PROVE Heard(toServer[j].items, Known')
        OBVIOUS
      <4>1. Heard(toServer[j].items, Known)
        BY DEF LevelInv, GoingInv
      <4>2. toServer[j].items \in Seq(Commands(ClientKinds))
        BY MessageTypes DEF TypeInv, ToServer
      <4>. QED BY <1>0, <1>3, <4>1, <4>2, HeardMore
    <3>2. CASE toServer' = toServer
      BY <3>1, <3>2
    <3>3. CASE toServer' = toServer \o Goodbye(k)
      <4>1. Goodbye(k) \in Seq(ToServer) /\ \A j \in 1 .. Len(Goodbye(k)) : Heard(Goodbye(k)[j].items, Known)
        BY <1>0, GoodbyeIs, ToldLevels
      <4>2. \A j \in 1 .. Len(Goodbye(k)) : Heard(Goodbye(k)[j].items, Known')
        <5>. SUFFICES ASSUME NEW j \in 1 .. Len(Goodbye(k)) PROVE Heard(Goodbye(k)[j].items, Known')
          OBVIOUS
        <5>1. Goodbye(k)[j].items \in Seq(Commands(ClientKinds))
          BY <4>1, MessageTypes DEF ToServer
        <5>. QED BY <1>0, <1>3, <4>1, <5>1, HeardMore
      <4>. DEFINE g == Goodbye(k)
      <4>. HIDE DEF g
      <4>3. g \in Seq(ToServer) /\ toServer' = toServer \o g /\ \A j \in 1 .. Len(g) : Heard(g[j].items, Known')
        BY <3>3, <4>1, <4>2 DEF g
      <4>4. /\ \A j \in 1 .. Len(toServer) : toServer'[j] = toServer[j]
            /\ \A j \in 1 .. Len(g) : toServer'[Len(toServer) + j] = g[j]
            /\ i \in 1 .. Len(toServer) \/ i - Len(toServer) \in 1 .. Len(g)
            /\ Len(toServer) \in Nat /\ i \in Int
        BY <1>0, <4>3, ConcatFacts
      <4>5. CASE i \in 1 .. Len(toServer)
        BY <3>1, <4>4, <4>5
      <4>6. CASE i - Len(toServer) \in 1 .. Len(g)
        <5>1. i = Len(toServer) + (i - Len(toServer))
          BY <4>4
        <5>. QED BY <4>3, <4>4, <4>6, <5>1
      <4>. QED BY <4>4, <4>5, <4>6
    <3>. QED BY <1>1, <3>2, <3>3
  <2>3. Heard(svInput, Known')
    <3>1. Heard(svInput, Known) /\ svInput \in Seq(Commands(ClientKinds))
      BY DEF LevelInv, GoingInv, TypeInv
    <3>. QED BY <1>0, <1>3, <3>1, HeardMore
  <2>. QED BY <2>1, <2>2, <2>3 DEF GoingInv
<1>8. CASE k.left = "no"
  <2>1. client' = k /\ client.left = "no" /\ k.servercount = client.servercount
    BY <1>3, <1>8
  <2>2. ComingInv'
    BY <1>4, <1>8, <2>1 DEF LevelInv, ComingInv
  <2>. QED BY <1>2, <1>3, <1>5, <1>6, <1>7, <1>8, <2>1, <2>2 DEF LevelInv
<1>9. CASE k.left # "no"
  <2>1. client'.snap = 0 /\ client'.state # "active" /\ (k.state = "disconnected" => client'.state = "disconnected")
    <3>1. CASE Cleared(k, "disconnected", client')
      BY <3>1 DEF Cleared
    <3>2. CASE client' = k /\ ~(k.state = "disconnected" /\ client.state # "disconnected")
      <4>1. client.left # "no"
        BY <1>9, <3>2
      <4>. QED BY <1>9, <3>2, <4>1
    <3>. QED BY <1>1, <3>1, <3>2
  <2>2. Gone'
    BY <1>4, <1>9, <2>1 DEF Gone
  <2>. QED BY <1>2, <1>3, <1>5, <1>6, <1>7, <1>9, <2>2 DEF LevelInv
<1>. QED BY <1>8, <1>9
-----------------------------------------------------------------------------
\* A command that the client adds is of a level known.
LEMMA AddLevels ==
  ASSUME NEW k \in Clients, Filled(k), NEW cmd \in Commands(ClientKinds), NEW b \in Nat, cmd.level <= b,
         \A s \in Slots : k.reliableCommands[s].level <= b
  PROVE  LET d == AddReliableCommand(k, cmd)
         IN  /\ \A s \in Slots : d.reliableCommands[s].level <= b
             /\ d \in Clients /\ Filled(d) /\ SameClient(k, d)
             /\ \/ d.state = "disconnected" /\ d.left = "overflow"
                \/ d.state = k.state /\ d.left = k.left
<1>. DEFINE d == AddReliableCommand(k, cmd)
<1>1. d \in Clients /\ Filled(d) /\ (Overflows(k, d) \/ ClientStores(k, cmd, d))
  BY AddIs
<1>. HIDE DEF d
<1>2. CASE Overflows(k, d)
  BY <1>1, <1>2 DEF Overflows, d
<1>3. CASE ClientStores(k, cmd, d)
  <2>. DEFINE n == k.reliableSequence + 1
              new == [cmd EXCEPT !.num = n]
  <2>1. k.reliableCommands \in [Slots -> Commands(ClientKinds \cup {"none"})] /\ k.reliableSequence \in Nat
    BY ClientFields
  <2>2. /\ \A s \in Slots : d.reliableCommands[s] = IF s = Slot(n) THEN new ELSE k.reliableCommands[s]
        /\ new.level = cmd.level
    <3>1. d.reliableCommands = [k.reliableCommands EXCEPT ![Slot(n)] = new]
      BY <1>3 DEF ClientStores
    <3>. QED BY <2>1, <3>1, StoredRing
  <2>. HIDE DEF n, new
  <2>3. \A s \in Slots : d.reliableCommands[s].level <= b
    BY <2>2
  <2>. QED BY <1>1, <1>3, <2>3 DEF ClientStores, d
<1>. QED BY <1>1, <1>2, <1>3

\* What the client parses is of a level known, unless it is serverdata.
LEMMA HereLevel ==
  ASSUME TypeInv, LevelInv, clInput # <<>>, Head(clInput).kind # "serverdata"
  PROVE  Head(clInput).level <= Known
<1>1. clInput \in Seq(Commands(ServerKinds \cup DataKinds)) /\ Heard(clInput, Known)
  BY DEF TypeInv, LevelInv, SpokenInv
<1>2. Head(clInput) = clInput[1] /\ Len(clInput) \in Nat \ {0}
  BY <1>1, TailFacts
<1>. QED BY <1>1, <1>2 DEF Heard

\* The client as it is while it lives, and after it left.
LEMMA LifeLevels ==
  ASSUME TypeInv, LevelInv
  PROVE  /\ \A s \in Slots : client.reliableCommands[s].level <= Known
         /\ client.left = "no" => /\ client.state # "disconnected" /\ client.snap \in {0, client.servercount}
                                  /\ client.state = "active" => client.snap = client.servercount
         /\ client.left # "no" =>
              /\ client.snap = 0 /\ client.state # "active"
              /\ clInput # <<>> =>
                   /\ server.state = "zombie"
                   /\ NoData(clInput) /\ \A i \in 1 .. Len(toClient) : NoData(toClient[i].items)
              /\ server.state # "zombie" => client.state = "disconnected"
BY DEF LevelInv, GoingInv, Gone

\* A command that is parsed and changes the client: it lives on, or was gone already.
LEMMA LivesOn ==
  ASSUME TypeInv, TypeInv', LevelInv, UNCHANGED <<server, level, svInput, toClient>>,
         clInput # <<>>, NEW k \in Clients, Filled(k), Become(k),
         \A s \in Slots : k.reliableCommands[s].level <= Known,
         clInput' = <<>> \/ clInput' = Tail(clInput),
         k.servercount = client.servercount,
         k.left = client.left,
         \/ k.state = client.state /\ k.snap = client.snap
         \/ k.state \in {"handshake", "connected"} /\ k.snap \in {0, client.snap}
  PROVE  LevelInv'
<1>1. CASE client.left = "no"
  <2>1. /\ client.state # "disconnected" /\ client.snap \in {0, client.servercount}
        /\ client.state = "active" => client.snap = client.servercount
    BY <1>1, LifeLevels
  <2>2. /\ k.left = "no" /\ k.state # "disconnected" /\ k.snap \in {0, client.servercount}
        /\ k.state = "active" => k.snap = client.servercount
    BY <1>1, <2>1
  <2>. QED BY <1>1, <2>2, BecomeLevels
<1>2. CASE client.left # "no"
  <2>1. /\ client.snap = 0 /\ client.state # "active" /\ server.state = "zombie"
        /\ NoData(clInput) /\ \A i \in 1 .. Len(toClient) : NoData(toClient[i].items)
    BY <1>2, LifeLevels
  <2>2. k.left # "no" /\ k.snap = 0 /\ k.state # "active"
    BY <1>2, <2>1
  <2>. QED BY <1>2, <2>1, <2>2, BecomeLevels
<1>. QED BY <1>1, <1>2

\* A command that is answered, with an answer that its window has no room for.
LEMMA Answers ==
  ASSUME TypeInv, TypeInv', LevelInv, UNCHANGED <<server, level, svInput, toClient>>,
         clInput # <<>>, NEW e \in Clients, Filled(e), NEW cmd \in Commands(ClientKinds),
         cmd.level <= Known,
         \A s \in Slots : e.reliableCommands[s].level <= Known,
         e.servercount = client.servercount, e.left = client.left, client.state \in {"connected", "active"},
         \/ e.state = client.state /\ e.snap = client.snap
         \/ e.state \in {"handshake", "connected"} /\ e.snap \in {0, client.snap},
         Become(AddReliableCommand(e, cmd)),
         clInput' = IF AddReliableCommand(e, cmd).left = "overflow" THEN <<>> ELSE Tail(clInput)
  PROVE  LevelInv'
<1>. DEFINE k == AddReliableCommand(e, cmd)
<1>1. /\ \A s \in Slots : k.reliableCommands[s].level <= Known
      /\ k \in Clients /\ Filled(k) /\ SameClient(e, k)
      /\ \/ k.state = "disconnected" /\ k.left = "overflow"
         \/ k.state = e.state /\ k.left = e.left
  BY AddLevels, KnownType
<1>2. Become(k) /\ clInput' = IF k.left = "overflow" THEN <<>> ELSE Tail(clInput)
  OBVIOUS
<1>. HIDE DEF k
<1>3. k.servercount = client.servercount /\ k.snap = e.snap
  BY <1>1 DEF SameClient
<1>4. CASE k.state = e.state /\ k.left = e.left
  BY <1>1, <1>2, <1>3, <1>4, LivesOn
<1>5. CASE k.state = "disconnected" /\ k.left = "overflow"
  <2>1. clInput' = <<>> /\ k.left # "no" /\ k.state # "active"
    BY <1>2, <1>5
  <2>2. client.left # "no" => k.snap = 0
    BY <1>3, LifeLevels
  <2>3. client.left = "no" => k.state = "disconnected" /\ client.state # "disconnected"
    BY <1>5
  <2>. QED BY <1>1, <1>2, <1>3, <1>5, <2>1, <2>2, <2>3, BecomeLevels
<1>. QED BY <1>1, <1>4, <1>5

LEMMA SendMessagesToServerLevels ==
  ASSUME TypeInv, TypeInv', LevelInv, SendMessagesToServer
  PROVE  LevelInv'
<1>1. /\ UNCHANGED <<server, client, level, svInput, clInput, toClient>> /\ Known' = Known
      /\ toServer' = Append(toServer, MessageToServer(client)) /\ toServer \in Seq(ToServer)
  BY DEF SendMessagesToServer, world, Known, TypeInv
<1>. DEFINE m == MessageToServer(client)
<1>2. Heard(m.items, Known)
  BY LifeLevels, KnownType, ToldLevels
<1>. HIDE DEF m
<1>3. \A i \in 1 .. Len(toServer') : Heard(toServer'[i].items, Known')
  <2>1. \A i \in 1 .. Len(toServer) : Heard(toServer[i].items, Known)
    BY DEF LevelInv, GoingInv
  <2>2. \A i \in 1 .. Len(toServer') : (i \in 1 .. Len(toServer) /\ toServer'[i] = toServer[i]) \/ toServer'[i] = m
    BY <1>1 DEF m
  <2>. QED BY <1>1, <1>2, <2>1, <2>2
<1>. QED BY <1>1, <1>3 DEF LevelInv, PartingInv, SpokenInv, GoingInv, ComingInv, Gone, Executed

LEMMA TypeCommandLevels ==
  ASSUME TypeInv, TypeInv', LevelInv, TypeCommand
  PROVE  LevelInv'
<1>. DEFINE cmd == Command("typed", 0, typed', <<>>)
            k == AddReliableCommand(client, cmd)
<1>1. /\ UNCHANGED <<server, level, svInput, clInput, toClient>> /\ clInput = <<>>
      /\ client.state \in {"connected", "active"} /\ Become(k)
  BY DEF TypeCommand, world, Quiet
<1>2. cmd \in Commands(ClientKinds) /\ cmd.level = 0
  <2>1. typed' \in Nat /\ <<>> \in Seq(Strings) /\ "typed" \in ClientKinds
    BY DEF TypeInv, ClientKinds
  <2>. QED BY <2>1 DEF Command, Commands
<1>. HIDE DEF cmd
<1>3. /\ \A s \in Slots : k.reliableCommands[s].level <= Known
      /\ k \in Clients /\ Filled(k) /\ SameClient(client, k)
      /\ \/ k.state = "disconnected" /\ k.left = "overflow"
         \/ k.state = client.state /\ k.left = client.left
  BY <1>2, AddLevels, KnownType, LifeLevels
<1>. HIDE DEF k
<1>4. k.servercount = client.servercount /\ k.snap = client.snap
  BY <1>3 DEF SameClient
<1>5. CASE k.state = "disconnected" /\ k.left = "overflow"
  <2>1. client.left # "no" => k.snap = 0
    BY <1>4, LifeLevels
  <2>. QED BY <1>1, <1>3, <1>4, <1>5, <2>1, BecomeLevels
<1>6. CASE k.state = client.state /\ k.left = client.left
  <2>1. CASE client.left = "no"
    <3>1. /\ client.state # "disconnected" /\ client.snap \in {0, client.servercount}
          /\ client.state = "active" => client.snap = client.servercount
      BY <2>1, LifeLevels
    <3>. QED BY <1>1, <1>3, <1>4, <1>6, <2>1, <3>1, BecomeLevels
  <2>2. CASE client.left # "no"
    <3>1. /\ client.snap = 0 /\ client.state # "active"
          /\ server.state = "zombie"
          /\ NoData(clInput) /\ \A i \in 1 .. Len(toClient) : NoData(toClient[i].items)
      BY <1>1, <2>2 DEF LevelInv, Gone
    <3>. QED BY <1>1, <1>3, <1>4, <1>6, <2>2, <3>1, BecomeLevels
  <2>. QED BY <2>1, <2>2
<1>. QED BY <1>3, <1>5, <1>6

LEMMA LeavingLevels ==
  ASSUME TypeInv, TypeInv', LevelInv, UNCHANGED <<server, level, svInput, clInput, toClient>>,
         clInput = <<>>, NEW why \in {"quit", "timeout"}, Become(Left(client, why)), client' # client
  PROVE  LevelInv'
<1>. DEFINE k == Left(client, why)
<1>1. /\ k \in Clients /\ Filled(k) /\ k.state = "disconnected"
      /\ k.left = IF client.state = "disconnected" THEN client.left ELSE why
      /\ k.reliableCommands = client.reliableCommands
      /\ k.servercount = client.servercount /\ k.snap = client.snap
  BY KnownType, LeftIs
<1>2. client.state # "disconnected"
  BY DEF Become, Left
<1>3. k.left # "no" /\ Become(k)
  BY <1>1, <1>2
<1>. HIDE DEF k
<1>4. client.left # "no" => k.snap = 0
  BY <1>1, LifeLevels
<1>5. \A s \in Slots : k.reliableCommands[s].level <= Known
  BY <1>1, LifeLevels
<1>. QED BY <1>1, <1>2, <1>3, <1>4, <1>5, BecomeLevels

LEMMA QuitLevels ==
  ASSUME TypeInv, TypeInv', LevelInv, Quit
  PROVE  LevelInv'
BY LeavingLevels DEF Quit, Quiet, world

LEMMA ClientTimeoutLevels ==
  ASSUME TypeInv, TypeInv', LevelInv, ClientTimeout
  PROVE  LevelInv'
<1>1. /\ UNCHANGED <<server, level, svInput, clInput, toClient>> /\ clInput = <<>>
      /\ Become(Left(client, "timeout")) /\ client.state # "disconnected"
  BY DEF ClientTimeout, Quiet, world, ClientListens
<1>2. client' # client
  <2>1. Left(client, "timeout") \in Clients /\ Filled(Left(client, "timeout")) /\ Left(client, "timeout").state = "disconnected"
    BY KnownType, LeftIs
  <2>2. client'.state = "disconnected"
    BY <1>1, <2>1, BecomeIs DEF Cleared
  <2>. QED BY <1>1, <2>2
<1>. QED BY <1>1, <1>2, LeavingLevels

LEMMA AdjustServerTimeLevels ==
  ASSUME TypeInv, TypeInv', LevelInv, AdjustServerTime
  PROVE  LevelInv'
<1>1. /\ UNCHANGED <<server, level, svInput, clInput, toClient, toServer>>
      /\ client' = [client EXCEPT !.state = "active"] /\ client.snap # 0
  BY DEF AdjustServerTime, world
<1>2. /\ client'.state = "active" /\ client'.left = client.left /\ client'.snap = client.snap
      /\ client'.servercount = client.servercount /\ client'.reliableCommands = client.reliableCommands
  BY <1>1, KnownType DEF Clients
<1>3. client.left = "no" /\ client.snap = client.servercount
  BY <1>1, LifeLevels
<1>4. Known' = Known
  BY <1>1, <1>2 DEF Known
<1>5. PartingInv' /\ SpokenInv' /\ GoingInv' /\ ComingInv'
  BY <1>1, <1>2, <1>3, <1>4 DEF LevelInv, PartingInv, SpokenInv, GoingInv, ComingInv, Executed
<1>. QED BY <1>1, <1>2, <1>3, <1>5 DEF LevelInv

\* The channel keeps what is left in it in order.
LEMMA FewerMessages ==
  ASSUME TypeInv, LevelInv, toClient # <<>>
  PROVE  LET t == Tail(toClient)
         IN  /\ \A i \in 1 .. Len(t) : t[i] = toClient[i + 1] /\ i + 1 \in 1 .. Len(toClient)
             /\ Len(t) = Len(toClient) - 1 /\ Len(toClient) \in Nat \ {0} /\ 1 \in 1 .. Len(toClient)
             /\ Head(toClient) = toClient[1]
             /\ \A i \in 1 .. Len(t) : Heard(t[i].items, Known)
             /\ \A i \in 1 .. Len(t) : Parts(t[i].items) =>
                  server.state = "zombie" /\ \A j \in i .. Len(t) : NoData(t[j].items)
             /\ ComingInv =>
                  \A i \in 1 .. Len(t) :
                    /\ DataWithin(t[i].items, client.servercount, level)
                    /\ DataOrdered(clInput, t[i].items)
                    /\ DataOrdered(toClient[1].items, t[i].items)
                    /\ \A j \in i + 1 .. Len(t) : DataOrdered(t[i].items, t[j].items)
<1>. DEFINE t == Tail(toClient)
            n == Len(toClient)
<1>1. /\ \A i \in 1 .. n - 1 : t[i] = toClient[i + 1]
      /\ Len(t) = n - 1 /\ n \in Nat \ {0} /\ Head(toClient) = toClient[1]
  BY TailFacts DEF TypeInv
<1>. HIDE DEF t, n
<1>2. \A i \in 1 .. n - 1 : i + 1 \in 1 .. n /\ i + 1 \in 2 .. n
  BY <1>1
<1>3. \A i \in 1 .. Len(t) : Heard(t[i].items, Known)
  BY <1>1, <1>2 DEF LevelInv, SpokenInv, n
<1>4. ASSUME NEW i \in 1 .. Len(t), Parts(t[i].items)
      PROVE  server.state = "zombie" /\ \A j \in i .. Len(t) : NoData(t[j].items)
  <2>1. t[i] = toClient[i + 1] /\ i + 1 \in 1 .. n
    BY <1>1, <1>2
  <2>2. server.state = "zombie" /\ \A j \in i + 1 .. n : NoData(toClient[j].items)
    BY <1>4, <2>1 DEF LevelInv, PartingInv, n
  <2>3. \A j \in i .. Len(t) : j + 1 \in i + 1 .. n /\ t[j] = toClient[j + 1]
    BY <1>1
  <2>. QED BY <2>2, <2>3
<1>5. ASSUME ComingInv, NEW i \in 1 .. Len(t)
      PROVE  /\ DataWithin(t[i].items, client.servercount, level)
             /\ DataOrdered(clInput, t[i].items)
             /\ DataOrdered(toClient[1].items, t[i].items)
             /\ \A j \in i + 1 .. Len(t) : DataOrdered(t[i].items, t[j].items)
  <2>1. t[i] = toClient[i + 1] /\ i + 1 \in 1 .. n /\ i + 1 \in 2 .. n /\ 1 \in 1 .. n
    BY <1>1, <1>2
  <2>2. \A j \in i + 1 .. Len(t) : t[j] = toClient[j + 1] /\ j + 1 \in (i + 1) + 1 .. n
    BY <1>1
  <2>. QED BY <1>5, <2>1, <2>2 DEF ComingInv, n
<1>6. \A i \in 1 .. Len(t) : t[i] = toClient[i + 1] /\ i + 1 \in 1 .. Len(toClient)
  BY <1>1, <1>2 DEF n
<1>7. 1 \in 1 .. Len(toClient)
  BY <1>1 DEF n
<1>. QED BY <1>1, <1>3, <1>4, <1>5, <1>6, <1>7 DEF t, n

LEMMA ClientReceiveLevels ==
  ASSUME TypeInv, TypeInv', LevelInv, ClientReceive
  PROVE  LevelInv'
<1>1. /\ UNCHANGED <<server, level, svInput, toServer>> /\ toClient # <<>> /\ toClient' = Tail(toClient)
      /\ clInput = <<>>
  BY DEF ClientReceive, world, Quiet
<1>2. CASE client.state = "disconnected"
  <2>1. UNCHANGED <<client, clInput>> /\ client.left # "no"
    BY <1>2, LifeLevels DEF ClientReceive
  <2>2. Known' = Known
    BY <1>1, <2>1 DEF Known
  <2>3. PartingInv'
    <3>1. ~Parts(clInput)
      BY <1>1 DEF Parts
    <3>. QED BY <1>1, <2>1, <3>1, FewerMessages DEF LevelInv, PartingInv, Executed
  <2>4. SpokenInv' /\ GoingInv'
    BY <1>1, <2>1, <2>2, FewerMessages DEF LevelInv, SpokenInv, GoingInv
  <2>5. Gone'
    BY <1>1, <1>2, <2>1, LifeLevels DEF Gone
  <2>. QED BY <1>1, <2>1, <2>3, <2>4, <2>5 DEF LevelInv
<1>3. CASE client.state # "disconnected"
  <2>1. client' = [client EXCEPT !.reliableAcknowledge = Head(toClient).ack]
        /\ clInput' = toClient[1].items
    BY <1>1, <1>3, FewerMessages DEF ClientReceive
  <2>2. /\ client'.state = client.state /\ client'.left = client.left /\ client'.snap = client.snap
        /\ client'.servercount = client.servercount /\ client'.reliableCommands = client.reliableCommands
    BY <2>1, KnownType DEF Clients
  <2>3. Known' = Known
    BY <1>1, <2>2 DEF Known
  <2>. DEFINE n == Len(toClient)
              t == Tail(toClient)
  <2>4. n \in Nat \ {0} /\ Len(t) = n - 1 /\ 1 \in 1 .. n
        /\ \A i \in 1 .. Len(t) : t[i] = toClient[i + 1] /\ i + 1 \in 1 .. n
    BY <1>1, FewerMessages
  <2>5. PartingInv'
    <3>1. \A i \in 1 .. Len(toClient') : Parts(toClient'[i].items) =>
            server.state = "zombie" /\ \A j \in i .. Len(toClient') : NoData(toClient'[j].items)
      BY <1>1, FewerMessages
    <3>2. ASSUME Parts(clInput')
          PROVE  /\ server.state = "zombie" /\ NoData(clInput')
                 /\ \A j \in 1 .. Len(toClient') : NoData(toClient'[j].items)
      <4>1. server.state = "zombie" /\ \A j \in 1 .. n : NoData(toClient[j].items)
        BY <2>1, <2>4, <3>2 DEF LevelInv, PartingInv
      <4>. QED BY <1>1, <2>1, <2>4, <4>1
    <3>. QED BY <1>1, <3>1, <3>2 DEF LevelInv, PartingInv, Executed
  <2>6. SpokenInv'
    <3>1. Heard(clInput', Known')
      BY <2>1, <2>3, <2>4 DEF LevelInv, SpokenInv
    <3>2. \A i \in 1 .. Len(toClient') : Heard(toClient'[i].items, Known')
      BY <1>1, <2>3, FewerMessages
    <3>. QED BY <1>1, <2>3, <3>1, <3>2 DEF LevelInv, SpokenInv
  <2>7. GoingInv'
    BY <1>1, <2>2, <2>3 DEF LevelInv, GoingInv
  <2>8. client.left = "no" => ComingInv'
    <3>. SUFFICES ASSUME client.left = "no" PROVE ComingInv'
      OBVIOUS
    <3>1. ComingInv
      BY DEF LevelInv
    <3>2. DataWithin(clInput', client.servercount, level)
      BY <2>1, <2>4, <3>1 DEF ComingInv
    <3>3. \A i \in 1 .. Len(t) :
            /\ DataWithin(t[i].items, client.servercount, level)
            /\ DataOrdered(toClient[1].items, t[i].items)
            /\ \A j \in i + 1 .. Len(t) : DataOrdered(t[i].items, t[j].items)
      BY <1>1, <3>1, FewerMessages
    <3>. QED BY <1>1, <2>1, <2>2, <3>2, <3>3 DEF ComingInv
  <2>9. client.left # "no" => Gone'
    <3>. SUFFICES ASSUME client.left # "no" PROVE Gone'
      OBVIOUS
    <3>1. /\ client.snap = 0 /\ client.state # "active" /\ server.state = "zombie"
          /\ \A i \in 1 .. n : NoData(toClient[i].items)
      BY <1>3 DEF LevelInv, Gone
    <3>2. NoData(clInput') /\ \A i \in 1 .. Len(t) : NoData(t[i].items)
      BY <2>1, <2>4, <3>1
    <3>. QED BY <1>1, <2>2, <3>1, <3>2 DEF Gone
  <2>. QED BY <1>1, <2>2, <2>5, <2>6, <2>7, <2>8, <2>9 DEF LevelInv
<1>. QED BY <1>2, <1>3

LEMMA LoseToClientLevels ==
  ASSUME TypeInv, TypeInv', LevelInv, LoseToClient
  PROVE  LevelInv'
<1>1. /\ UNCHANGED <<server, client, level, svInput, clInput, toServer>> /\ toClient # <<>>
      /\ toClient' = Tail(toClient) /\ Known' = Known
  BY DEF LoseToClient, world, Known
<1>. DEFINE n == Len(toClient)
            t == Tail(toClient)
<1>2. \A i \in 1 .. Len(t) : t[i] = toClient[i + 1] /\ i + 1 \in 1 .. n
  BY <1>1, FewerMessages
<1>3. PartingInv'
  <2>1. \A i \in 1 .. Len(toClient') : Parts(toClient'[i].items) =>
          server.state = "zombie" /\ \A j \in i .. Len(toClient') : NoData(toClient'[j].items)
    BY <1>1, FewerMessages
  <2>2. Parts(clInput) => /\ server.state = "zombie" /\ NoData(clInput)
                          /\ \A j \in 1 .. n : NoData(toClient[j].items)
    BY DEF LevelInv, PartingInv
  <2>. QED BY <1>1, <1>2, <2>1, <2>2 DEF LevelInv, PartingInv, Executed
<1>4. SpokenInv' /\ GoingInv'
  BY <1>1, FewerMessages DEF LevelInv, SpokenInv, GoingInv
<1>5. client.left = "no" => ComingInv'
  <2>. SUFFICES ASSUME client.left = "no" PROVE ComingInv'
    OBVIOUS
  <2>1. ComingInv
    BY DEF LevelInv
  <2>2. \A i \in 1 .. Len(t) :
          /\ DataWithin(t[i].items, client.servercount, level)
          /\ DataOrdered(clInput, t[i].items)
          /\ \A j \in i + 1 .. Len(t) : DataOrdered(t[i].items, t[j].items)
    BY <1>1, <2>1, FewerMessages
  <2>. QED BY <1>1, <2>1, <2>2 DEF ComingInv
<1>6. client.left # "no" => Gone'
  BY <1>1, <1>2 DEF LevelInv, Gone
<1>. QED BY <1>1, <1>3, <1>4, <1>5, <1>6 DEF LevelInv

LEMMA LoseToServerLevels ==
  ASSUME TypeInv, TypeInv', LevelInv, LoseToServer
  PROVE  LevelInv'
<1>1. /\ UNCHANGED <<server, client, level, svInput, clInput, toClient>> /\ toServer # <<>>
      /\ toServer' = Tail(toServer) /\ Known' = Known /\ toServer \in Seq(ToServer)
  BY DEF LoseToServer, world, Known, TypeInv
<1>2. \A i \in 1 .. Len(toServer') : toServer'[i] = toServer[i + 1] /\ i + 1 \in 1 .. Len(toServer)
  BY <1>1, TailFacts
<1>. QED BY <1>1, <1>2 DEF LevelInv, PartingInv, SpokenInv, GoingInv, ComingInv, Gone, Executed
-----------------------------------------------------------------------------
\* A client that parses data has not left.
LEMMA DataLives ==
  ASSUME TypeInv, LevelInv, clInput # <<>>, Head(clInput).kind \in DataKinds
  PROVE  /\ client.left = "no" /\ ComingInv
         /\ Tail(clInput) = <<>> /\ Len(clInput) = 1
         /\ client.servercount <= Head(clInput).level /\ Head(clInput).level <= level
<1>1. Head(clInput) = clInput[1] /\ Len(clInput) \in Nat \ {0} /\ IsData(clInput[1])
      /\ clInput \in Seq(Commands(ServerKinds \cup DataKinds))
  <2>1. clInput \in Seq(Commands(ServerKinds \cup DataKinds))
    BY DEF TypeInv
  <2>. QED BY <2>1, TailFacts DEF IsData
<1>2. ~NoData(clInput)
  BY <1>1 DEF NoData
<1>3. client.left = "no"
  BY <1>2, LifeLevels
<1>4. ComingInv
  BY <1>3 DEF LevelInv
<1>5. 1 = Len(clInput) /\ client.servercount <= clInput[1].level /\ clInput[1].level <= level
  <2>1. 1 \in 1 .. Len(clInput) /\ DataWithin(clInput, client.servercount, level)
    BY <1>1, <1>4 DEF ComingInv
  <2>. QED BY <1>1, <2>1 DEF DataWithin
<1>6. Tail(clInput) = <<>>
  <2>. DEFINE t == Tail(clInput)
              S == Commands(ServerKinds \cup DataKinds)
  <2>1. t \in Seq(S) /\ Len(t) = 0
    BY <1>1, <1>5, TailFacts
  <2>. HIDE DEF t, S
  <2>2. t = <<>>
    BY <2>1
  <2>. QED BY <2>2 DEF t
<1>. QED BY <1>1, <1>3, <1>4, <1>5, <1>6

LEMMA ClientSkipsLevels ==
  ASSUME TypeInv, TypeInv', LevelInv, ClientSkips
  PROVE  LevelInv'
<1>1. /\ UNCHANGED <<server, client, level, svInput, toServer, toClient>>
      /\ clInput # <<>> /\ clInput' = Tail(clInput) /\ Known' = Known
      /\ clInput \in Seq(Commands(ServerKinds \cup DataKinds))
  BY DEF ClientSkips, world, Known, TypeInv
<1>2. /\ \A lev : Heard(clInput, lev) => Heard(clInput', lev)
      /\ \A a, b : DataWithin(clInput, a, b) => DataWithin(clInput', a, b)
      /\ NoData(clInput) => NoData(clInput')
      /\ Parts(clInput') => Parts(clInput)
      /\ \A u : DataOrdered(clInput, u) => DataOrdered(clInput', u)
  BY <1>1, FewerItems
<1>3. PartingInv' /\ SpokenInv' /\ GoingInv'
  BY <1>1, <1>2 DEF LevelInv, PartingInv, SpokenInv, GoingInv, Executed
<1>4. client.left = "no" => ComingInv'
  BY <1>1, <1>2 DEF LevelInv, ComingInv
<1>5. client.left # "no" => Gone'
  BY <1>1, <1>2 DEF LevelInv, Gone
<1>. QED BY <1>1, <1>3, <1>4, <1>5 DEF LevelInv

LEMMA ParseServerDataLevels ==
  ASSUME TypeInv, TypeInv', LevelInv, ParseServerData
  PROVE  LevelInv'
<1>1. /\ UNCHANGED <<server, level, svInput, toClient>> /\ clInput # <<>>
      /\ Head(clInput).kind = "serverdata" /\ Head(clInput).kind \in DataKinds
  BY DEF ParseServerData, TakingHere, world, DataKinds
<1>2. /\ client.left = "no" /\ ComingInv
      /\ Tail(clInput) = <<>> /\ Len(clInput) = 1
      /\ client.servercount <= Head(clInput).level /\ Head(clInput).level <= level
  BY <1>1, DataLives
<1>3. Known = client.servercount /\ Head(clInput).level \in Nat /\ Known \in Nat /\ level \in Nat
      /\ Head(clInput) = clInput[1] /\ IsData(clInput[1])
  BY <1>1, <1>2, HereType, KnownType DEF Known, IsData
<1>4. clInput' = <<>>
  BY <1>2 DEF ParseServerData
<1>5. PartingInv'
  BY <1>1, <1>4 DEF LevelInv, PartingInv, Executed, Parts
<1>6. CASE client.state # "handshake"
  <2>1. UNCHANGED <<client, toServer>> /\ Known' = Known
    BY <1>1, <1>6 DEF ParseServerData, Known
  <2>2. SpokenInv' /\ GoingInv'
    BY <1>1, <1>4, <2>1 DEF LevelInv, SpokenInv, GoingInv, Heard
  <2>3. ComingInv'
    BY <1>1, <1>2, <1>4, <2>1 DEF ComingInv, DataWithin, DataOrdered
  <2>. QED BY <1>1, <1>2, <1>5, <2>1, <2>2, <2>3 DEF LevelInv
<1>7. CASE client.state = "handshake"
  <2>. DEFINE h == Head(clInput).level
  <2>1. toServer' = toServer /\ ClientStores(Welcomed, Asking1, client')
    BY <1>7, WelcomeIs
  <2>2. /\ client'.left = "no" /\ client'.state = "connected" /\ client'.snap = 0
        /\ client'.servercount = h
    BY <1>1, <1>2, <2>1, WelcomedIs DEF ClientStores, SameClient
  <2>3. \A s \in Slots : client'.reliableCommands[s].level <= h
    <3>1. /\ Welcomed \in Clients /\ Filled(Welcomed) /\ Welcomed.reliableCommands = NoCommands
          /\ Asking1 \in Commands(ClientKinds) /\ Asking1.level = h
      BY <1>1, WelcomedIs
    <3>2. \A s \in Slots : NoCommands[s].level = 0
      BY DEF NoCommands, Slots, Empty, Plain, Command
    <3>. DEFINE n == Welcomed.reliableSequence + 1
                new == [Asking1 EXCEPT !.num = n]
    <3>3. Welcomed.reliableCommands \in [Slots -> Commands(ClientKinds \cup {"none"})] /\ Welcomed.reliableSequence \in Nat
      BY <3>1, ClientFields
    <3>4. /\ \A s \in Slots : client'.reliableCommands[s] = IF s = Slot(n) THEN new ELSE Welcomed.reliableCommands[s]
          /\ new.level = Asking1.level
      <4>1. client'.reliableCommands = [Welcomed.reliableCommands EXCEPT ![Slot(n)] = new]
        BY <2>1 DEF ClientStores
      <4>. QED BY <3>1, <3>3, <4>1, StoredRing
    <3>. HIDE DEF n, new
    <3>5. h \in Nat
      BY <1>3
    <3>. HIDE DEF h
    <3>. QED BY <3>1, <3>2, <3>4, <3>5
  <2>4. Known' = h /\ Known <= h
    BY <1>2, <1>3, <2>2 DEF Known
  <2>. HIDE DEF h
  <2>5. h \in Nat /\ h <= level
    BY <1>2, <1>3 DEF h
  <2>6. SpokenInv'
    <3>1. \A s \in Slots : server.reliableCommands[s].level <= Known /\ server.reliableCommands[s].level \in Nat
      <4>1. server.reliableCommands \in Rings(ServerKinds)
        BY KnownType DEF Servers
      <4>. QED BY <4>1 DEF LevelInv, SpokenInv, Rings, Commands
    <3>2. ASSUME NEW i \in 1 .. Len(toClient) PROVE Heard(toClient[i].items, h)
      <4>1. Heard(toClient[i].items, Known)
        BY DEF LevelInv, SpokenInv
      <4>2. toClient[i].items \in Seq(Commands(ServerKinds \cup DataKinds))
        BY MessageTypes DEF TypeInv, ToClient
      <4>. QED BY <1>3, <2>4, <2>5, <4>1, <4>2, HeardMore
    <3>3. Heard(clInput', h)
      BY <1>4 DEF Heard
    <3>4. server.state = "spawned" => level <= h
      BY <1>3, <2>4, <2>5 DEF LevelInv, SpokenInv
    <3>5. \A s \in Slots : server.reliableCommands[s].level <= h
      BY <1>3, <2>4, <2>5, <3>1
    <3>. QED BY <1>1, <2>4, <3>2, <3>3, <3>4, <3>5 DEF SpokenInv
  <2>7. GoingInv'
    <3>1. ASSUME NEW i \in 1 .. Len(toServer) PROVE Heard(toServer[i].items, h)
      <4>1. Heard(toServer[i].items, Known)
        BY DEF LevelInv, GoingInv
      <4>2. toServer[i].items \in Seq(Commands(ClientKinds))
        BY MessageTypes DEF TypeInv, ToServer
      <4>. QED BY <1>3, <2>4, <2>5, <4>1, <4>2, HeardMore
    <3>2. Heard(svInput, h)
      <4>1. Heard(svInput, Known) /\ svInput \in Seq(Commands(ClientKinds))
        BY DEF LevelInv, GoingInv, TypeInv
      <4>. QED BY <1>3, <2>4, <2>5, <4>1, HeardMore
    <3>. QED BY <1>1, <2>1, <2>3, <2>4, <3>1, <3>2 DEF GoingInv
  <2>8. ComingInv'
    <3>1. DataWithin(clInput', h, level) /\ \A u : DataOrdered(clInput', u)
      BY <1>4 DEF DataWithin, DataOrdered
    <3>2. ASSUME NEW i \in 1 .. Len(toClient) PROVE DataWithin(toClient[i].items, h, level)
      <4>1. DataWithin(toClient[i].items, client.servercount, level) /\ DataOrdered(clInput, toClient[i].items)
        BY <1>2 DEF ComingInv
      <4>2. 1 \in 1 .. Len(clInput) /\ clInput[1].level = h
        BY <1>2, <1>3 DEF h
      <4>3. \A j \in 1 .. Len(toClient[i].items) : IsData(toClient[i].items[j]) => h <= toClient[i].items[j].level
        BY <1>3, <4>1, <4>2 DEF DataOrdered
      <4>. QED BY <4>1, <4>3 DEF DataWithin
    <3>. QED BY <1>1, <1>2, <2>2, <3>1, <3>2 DEF ComingInv
  <2>. QED BY <1>1, <1>5, <2>2, <2>5, <2>6, <2>7, <2>8 DEF LevelInv
<1>. QED BY <1>6, <1>7

LEMMA ParseFrameLevels ==
  ASSUME TypeInv, TypeInv', LevelInv, ParseFrame
  PROVE  LevelInv'
<1>. DEFINE k == [client EXCEPT !.snap = Head(clInput).level]
<1>1. /\ UNCHANGED <<server, level, svInput, toClient>> /\ clInput # <<>> /\ clInput' = Tail(clInput)
      /\ Head(clInput).kind = "frame" /\ Head(clInput).kind \in DataKinds /\ Become(k)
  BY DEF ParseFrame, TakingHere, HandledHere, world, DataKinds
<1>2. client.left = "no" /\ client.servercount <= Head(clInput).level
  BY <1>1, DataLives
<1>3. Head(clInput).level <= Known /\ Known = client.servercount
  BY <1>1, <1>2, HereLevel DEF Known
<1>4. Head(clInput).level \in Nat /\ client.servercount \in Nat
  BY <1>1, HereType, KnownType
<1>5. Head(clInput).level = client.servercount
  BY <1>2, <1>3, <1>4
<1>6. /\ k \in Clients /\ Filled(k) /\ k.left = client.left /\ k.state = client.state
      /\ k.snap = client.servercount /\ k.servercount = client.servercount
      /\ k.reliableCommands = client.reliableCommands
  BY <1>4, <1>5, KnownType DEF Clients, Filled
<1>. HIDE DEF k
<1>7. client.state # "disconnected" /\ \A s \in Slots : k.reliableCommands[s].level <= Known
  BY <1>2, <1>6, LifeLevels
<1>. QED BY <1>1, <1>2, <1>6, <1>7, BecomeLevels

LEMMA ParseConfigstringCommandLevels ==
  ASSUME TypeInv, TypeInv', LevelInv, ParseConfigstringCommand
  PROVE  LevelInv'
<1>1. /\ UNCHANGED <<server, level, svInput, toClient>> /\ clInput # <<>> /\ clInput' = Tail(clInput)
      /\ Become(Updated)
  BY DEF ParseConfigstringCommand, TakingHere, HandledHere, world, Updated
<1>2. /\ Updated \in Clients /\ Filled(Updated) /\ Updated.left = client.left
      /\ Updated.state = client.state /\ Updated.snap = client.snap
      /\ Updated.servercount = client.servercount
      /\ Updated.reliableCommands = client.reliableCommands
  BY <1>1, UpdatedIs
<1>3. \A s \in Slots : Updated.reliableCommands[s].level <= Known
  BY <1>2, LifeLevels
<1>. QED BY <1>1, <1>2, <1>3, LivesOn

\* A command that is only noted.
LEMMA NotedHereLevels ==
  ASSUME TypeInv, TypeInv', LevelInv, UNCHANGED <<server, level, svInput, toClient>>,
         clInput # <<>>, clInput' = Tail(clInput), Become(NotedHere)
  PROVE  LevelInv'
<1>1. /\ NotedHere \in Clients /\ Filled(NotedHere) /\ NotedHere.left = client.left
      /\ NotedHere.state = client.state /\ NotedHere.snap = client.snap
      /\ NotedHere.servercount = client.servercount
      /\ NotedHere.reliableCommands = client.reliableCommands
  BY NotedHereIs
<1>2. \A s \in Slots : NotedHere.reliableCommands[s].level <= Known
  BY <1>1, LifeLevels
<1>. QED BY <1>1, <1>2, LivesOn

LEMMA ForwardToServerLevels ==
  ASSUME TypeInv, TypeInv', LevelInv, ForwardToServer
  PROVE  LevelInv'
<1>1. /\ UNCHANGED <<server, level, svInput, toClient>> /\ clInput # <<>>
      /\ Head(clInput).kind \in {"configstrings", "baselines"}
  BY DEF ForwardToServer, TakingHere, world
<1>2. /\ NotedHere \in Clients /\ Filled(NotedHere) /\ NotedHere.left = client.left
      /\ NotedHere.state = client.state /\ NotedHere.snap = client.snap
      /\ NotedHere.servercount = client.servercount
      /\ NotedHere.reliableCommands = client.reliableCommands
  BY <1>1, NotedHereIs
<1>3. Head(clInput).level <= Known
  BY <1>1, HereLevel
<1>4. Head(clInput) \in Commands(ClientKinds)
  <2>1. Head(clInput) \in Commands(ServerKinds \cup DataKinds) /\ Head(clInput).kind \in ClientKinds
    BY <1>1, HereType DEF ClientKinds
  <2>. QED BY <2>1 DEF Commands
<1>5. \A s \in Slots : NotedHere.reliableCommands[s].level <= Known
  BY <1>2, LifeLevels
<1>6. CASE NotedHere.state \in {"connected", "active"}
  <2>1. /\ Become(AddReliableCommand(NotedHere, Head(clInput)))
        /\ clInput' = IF AddReliableCommand(NotedHere, Head(clInput)).left = "overflow" THEN <<>> ELSE Tail(clInput)
    BY <1>6 DEF ForwardToServer
  <2>. QED BY <1>1, <1>2, <1>3, <1>4, <1>5, <1>6, <2>1, Answers
<1>7. CASE NotedHere.state \notin {"connected", "active"}
  <2>1. Become(NotedHere) /\ clInput' = Tail(clInput)
    BY <1>7 DEF ForwardToServer
  <2>. QED BY <1>1, <2>1, NotedHereLevels
<1>. QED BY <1>6, <1>7

LEMMA PrecacheLevels ==
  ASSUME TypeInv, TypeInv', LevelInv, Precache
  PROVE  LevelInv'
<1>1. /\ UNCHANGED <<server, level, svInput, toClient>> /\ clInput # <<>>
      /\ Head(clInput).kind = "precache"
  BY DEF Precache, TakingHere, world
<1>2. /\ Loaded \in Clients /\ Filled(Loaded) /\ Loaded.left = client.left
      /\ Loaded.state = client.state /\ Loaded.snap = client.snap
      /\ Loaded.servercount = client.servercount
      /\ Loaded.reliableCommands = client.reliableCommands
      /\ Beginning \in Commands(ClientKinds) /\ Beginning.level = Head(clInput).level
      /\ NotedHere.state = client.state
  BY <1>1, LoadedIs, NotedHereIs
<1>3. Beginning.level <= Known /\ \A s \in Slots : Loaded.reliableCommands[s].level <= Known
  BY <1>1, <1>2, HereLevel, LifeLevels
<1>4. CASE NotedHere.state = "connected"
  <2>1. /\ Become(AddReliableCommand(Loaded, Beginning))
        /\ clInput' = IF AddReliableCommand(Loaded, Beginning).left = "overflow" THEN <<>> ELSE Tail(clInput)
    BY <1>4 DEF Precache, Loaded, Beginning
  <2>. QED BY <1>1, <1>2, <1>3, <1>4, <2>1, Answers
<1>5. CASE NotedHere.state # "connected"
  <2>1. Become(NotedHere) /\ clInput' = Tail(clInput)
    BY <1>5 DEF Precache
  <2>. QED BY <1>1, <2>1, NotedHereLevels
<1>. QED BY <1>4, <1>5

LEMMA ChangingLevels ==
  ASSUME TypeInv, TypeInv', LevelInv, Changing
  PROVE  LevelInv'
<1>1. /\ UNCHANGED <<server, level, svInput, toClient>> /\ clInput # <<>> /\ clInput' = Tail(clInput)
      /\ Become(Told)
  BY DEF Changing, TakingHere, HandledHere, world, Told, NoStrings
<1>2. /\ Told \in Clients /\ Filled(Told) /\ Told.left = client.left
      /\ Told.state = "connected" /\ Told.snap = 0
      /\ Told.servercount = client.servercount
      /\ Told.reliableCommands = client.reliableCommands
  BY <1>1, ToldIs
<1>3. \A s \in Slots : Told.reliableCommands[s].level <= Known
  BY <1>2, LifeLevels
<1>. QED BY <1>1, <1>2, <1>3, LivesOn

LEMMA ServerReconnectLevels ==
  ASSUME TypeInv, TypeInv', LevelInv, ServerReconnect
  PROVE  LevelInv'
<1>1. UNCHANGED <<server, level, svInput, toClient>> /\ clInput # <<>>
  BY DEF ServerReconnect, TakingHere, world
<1>2. /\ Greeting \in Clients /\ Filled(Greeting) /\ Greeting.left = client.left
      /\ Greeting.state = "handshake" /\ Greeting.snap = client.snap
      /\ Greeting.servercount = client.servercount
      /\ Greeting.reliableCommands = client.reliableCommands
      /\ Plain("new") \in Commands(ClientKinds) /\ Plain("new").level = 0
      /\ NotedHere.state = client.state
  BY <1>1, GreetingIs, NotedHereIs
<1>3. Plain("new").level <= Known /\ \A s \in Slots : Greeting.reliableCommands[s].level <= Known
  BY <1>2, KnownType, LifeLevels
<1>4. CASE NotedHere.state \in {"connected", "active"}
  <2>1. /\ Become(AddReliableCommand(Greeting, Plain("new")))
        /\ clInput' = IF AddReliableCommand(Greeting, Plain("new")).left = "overflow" THEN <<>> ELSE Tail(clInput)
    BY <1>4 DEF ServerReconnect, Greeting, NoStrings
  <2>. QED BY <1>1, <1>2, <1>3, <1>4, <2>1, Answers
<1>5. CASE NotedHere.state \notin {"connected", "active"}
  <2>1. Become(NotedHere) /\ clInput' = Tail(clInput)
    BY <1>5 DEF ServerReconnect
  <2>. QED BY <1>1, <2>1, NotedHereLevels
<1>. QED BY <1>4, <1>5

LEMMA ServerDisconnectLevels ==
  ASSUME TypeInv, TypeInv', LevelInv, ServerDisconnect
  PROVE  LevelInv'
<1>. DEFINE k == Left(NotedHere, "closed")
<1>1. /\ UNCHANGED <<server, level, svInput, toClient>> /\ clInput # <<>> /\ clInput' = Tail(clInput)
      /\ Head(clInput).kind = "disconnect" /\ Become(k)
  BY DEF ServerDisconnect, TakingHere, HandledHere, world
<1>2. /\ NotedHere \in Clients /\ Filled(NotedHere) /\ NotedHere.left = client.left
      /\ NotedHere.state = client.state /\ NotedHere.snap = client.snap
      /\ NotedHere.servercount = client.servercount
      /\ NotedHere.reliableCommands = client.reliableCommands
  BY <1>1, NotedHereIs
<1>3. /\ k \in Clients /\ Filled(k) /\ k.state = "disconnected"
      /\ k.left = IF client.state = "disconnected" THEN client.left ELSE "closed"
      /\ k.reliableCommands = client.reliableCommands
      /\ k.servercount = client.servercount /\ k.snap = client.snap
  BY <1>2, LeftIs
<1>. HIDE DEF k
<1>4. Parts(clInput)
  <2>1. Head(clInput) = clInput[1] /\ Len(clInput) \in Nat \ {0}
    BY <1>1, TailFacts DEF TypeInv
  <2>2. 1 \in 1 .. Len(clInput) /\ clInput[1].kind = "disconnect"
    BY <1>1, <2>1
  <2>. QED BY <2>2 DEF Parts
<1>5. /\ server.state = "zombie"
      /\ NoData(clInput) /\ \A i \in 1 .. Len(toClient) : NoData(toClient[i].items)
  BY <1>4 DEF LevelInv, PartingInv
<1>6. \A s \in Slots : k.reliableCommands[s].level <= Known
  BY <1>3, LifeLevels
<1>7. CASE client.state = "disconnected"
  BY <1>1, <1>3, <1>6, <1>7, LivesOn
<1>8. CASE client.state # "disconnected"
  <2>1. client.left # "no" => k.snap = 0
    BY <1>3, LifeLevels
  <2>. QED BY <1>1, <1>3, <1>5, <1>6, <1>8, <2>1, BecomeLevels
<1>. QED BY <1>7, <1>8

LEMMA InitLevels ==
  ASSUME Init
  PROVE  LevelInv
<1>1. /\ server.state = "connecting" /\ server.reliableCommands = NoCommands
      /\ level = 1 /\ svInput = <<>> /\ clInput = <<>> /\ toServer = <<>> /\ toClient = <<>>
  BY DEF Init
<1>. DEFINE k == [state |-> "handshake", reliableSequence |-> 0, reliableAcknowledge |-> 0,
                  reliableCommands |-> NoCommands, lastExecutedServerCommand |-> 0,
                  servercount |-> 0, configstrings |-> [i \in Index |-> NoString],
                  cgame |-> FALSE, snap |-> 0, left |-> "no", numbering |-> 0]
<1>2. client = Store(k, Plain("new"))
  BY DEF Init
<1>3. TypeInv
  BY InitTypes
<1>4. \A s \in Slots : NoCommands[s].level = 0 /\ NoCommands[s].kind = "none"
  BY DEF NoCommands, Slots, Empty, Plain, Command
<1>5. /\ client.state = "handshake" /\ client.left = "no" /\ client.snap = 0 /\ client.servercount = 0
      /\ \A s \in Slots : client.reliableCommands[s].level = 0
  <2>1. k.reliableSequence = 0 /\ k.reliableCommands = NoCommands
    OBVIOUS
  <2>. DEFINE new == [Plain("new") EXCEPT !.num = 1]
  <2>2. /\ client.state = "handshake" /\ client.left = "no" /\ client.snap = 0 /\ client.servercount = 0
        /\ client.reliableCommands = [NoCommands EXCEPT ![Slot(1)] = new]
    BY <1>2 DEF Store
  <2>3. new.level = 0
    BY DEF Plain, Command
  <2>. HIDE DEF new
  <2>4. ASSUME NEW s \in Slots PROVE client.reliableCommands[s].level = 0
    <3>1. NoCommands[s].level = 0 /\ s \in DOMAIN NoCommands
      BY <1>4 DEF NoCommands, Slots
    <3>2. client.reliableCommands[s] = IF s = Slot(1) THEN new ELSE NoCommands[s]
      BY <2>2, <3>1
    <3>. QED BY <2>3, <3>1, <3>2
  <2>. QED BY <2>2, <2>4
<1>. HIDE DEF k
<1>6. Known = 0
  BY <1>5 DEF Known
<1>7. PartingInv
  BY <1>1, <1>4 DEF PartingInv, Parts
<1>8. SpokenInv /\ GoingInv
  BY <1>1, <1>4, <1>5, <1>6 DEF SpokenInv, GoingInv, Heard
<1>9. ComingInv
  BY <1>1 DEF ComingInv, DataWithin
<1>. QED BY <1>1, <1>5, <1>7, <1>8, <1>9 DEF LevelInv

LEMMA NextLevels ==
  ASSUME TypeInv, TypeInv', LevelInv, [Next]_vars
  PROVE  LevelInv'
<1>1. CASE Next
  <2>1. CASE SendClientMessages
    BY <2>1, SendClientMessagesLevels
  <2>2. CASE ConfigString
    BY <2>2, ConfigStringLevels
  <2>3. CASE Map
    BY <2>3, MapLevels
  <2>4. CASE ServerReceive
    BY <2>4, ServerReceiveLevels
  <2>5. CASE ServerParse
    BY <2>5, ServerSkipsLevels, SV_New_fLevels, ConfigstringsLoopLevels, SV_Configstrings_fLevels,
       SV_Baselines_fLevels, SV_Begin_fLevels, SV_Disconnect_fLevels, ClientCommandLevels DEF ServerParse
  <2>6. CASE SendMessagesToServer
    BY <2>6, SendMessagesToServerLevels
  <2>7. CASE TypeCommand
    BY <2>7, TypeCommandLevels
  <2>8. CASE Quit
    BY <2>8, QuitLevels
  <2>9. CASE AdjustServerTime
    BY <2>9, AdjustServerTimeLevels
  <2>10. CASE ClientReceive
    BY <2>10, ClientReceiveLevels
  <2>11. CASE ClientParse
    BY <2>11, ClientSkipsLevels, ParseServerDataLevels, ParseFrameLevels, ParseConfigstringCommandLevels,
       ForwardToServerLevels, PrecacheLevels, ChangingLevels, ServerReconnectLevels,
       ServerDisconnectLevels DEF ClientParse
  <2>12. CASE LoseToServer
    BY <2>12, LoseToServerLevels
  <2>13. CASE LoseToClient
    BY <2>13, LoseToClientLevels
  <2>14. CASE ServerTimeout
    BY <2>14, ServerTimeoutLevels
  <2>15. CASE ClientTimeout
    BY <2>15, ClientTimeoutLevels
  <2>. QED BY <1>1, <2>1, <2>2, <2>3, <2>4, <2>5, <2>6, <2>7, <2>8, <2>9, <2>10, <2>11,
              <2>12, <2>13, <2>14, <2>15 DEF Next
<1>2. CASE UNCHANGED vars
  BY <1>2 DEF vars, world, LevelInv, PartingInv, SpokenInv, GoingInv, ComingInv, Gone, Known, Executed
<1>. QED BY <1>1, <1>2

LEMMA LevelsInOrder == Spec => [](TypeInv /\ LevelInv)
<1>1. Init => TypeInv /\ LevelInv
  BY InitTypes, InitLevels
<1>2. TypeInv /\ LevelInv /\ [Next]_vars => (TypeInv /\ LevelInv)'
  BY NextTypes, NextLevels
<1>. QED BY <1>1, <1>2, PTL DEF Spec, Safety

\* A client in the game (CL_AdjustServerTime) shows snapshots of the level that it has
\* loaded, whatever change of level, loss or second "new" crosses its handshake.
THEOREM OwnLevelShown == Spec => []OwnSnapshots
<1>1. TypeInv /\ LevelInv => OwnSnapshots
  BY LifeLevels DEF OwnSnapshots
<1>. QED BY <1>1, LevelsInOrder, PTL
-----------------------------------------------------------------------------
(* In step: what the server stores and says *)

\* The server goes on in its numbering: commands that are not acknowledged stay.
GoesOn(c, d) ==
  /\ d.numbering = c.numbering
  /\ c.reliableAcknowledge <= d.reliableAcknowledge
  /\ c.reliableSent <= d.reliableSent /\ c.reliableSequence <= d.reliableSequence
  /\ Window(d) <= MAX_RELIABLE_COMMANDS
  /\ \A n \in d.reliableAcknowledge + 1 .. c.reliableSequence :
       d.reliableCommands[Slot(n)].kind = c.reliableCommands[Slot(n)].kind

\* A message of the numbering of d, without serverdata.
Says(d, items) ==
  /\ Consecutive(items) /\ Follows(items, d.reliableAcknowledge) /\ AsStored(d, items)
  /\ \A j \in 1 .. Len(items) : items[j].kind # "serverdata"

LEMMA ServerFields ==
  ASSUME NEW c \in Servers
  PROVE  /\ c.reliableSequence \in Nat /\ c.reliableAcknowledge \in Nat /\ c.reliableSent \in Nat
         /\ c.numbering \in Nat /\ c.clientCommandExecuted \in Nat
         /\ c.reliableCommands \in [Slots -> Commands(ServerKinds \cup {"none"})]
         /\ c.state \in {"zombie", "connecting", "connected", "spawned"}
         /\ MAX_RELIABLE_COMMANDS \in Nat \ {0}
BY SizeAssumption DEF Servers, Rings

LEMMA GoesOnTrans ==
  ASSUME NEW c \in Servers, NEW d \in Servers, NEW e \in Servers, GoesOn(c, d), GoesOn(d, e)
  PROVE  GoesOn(c, e)
<1>1. /\ c.reliableSequence \in Nat /\ d.reliableSequence \in Nat /\ e.reliableSequence \in Nat
      /\ c.reliableAcknowledge \in Nat /\ d.reliableAcknowledge \in Nat /\ e.reliableAcknowledge \in Nat
      /\ c.reliableSent \in Nat /\ d.reliableSent \in Nat /\ e.reliableSent \in Nat
  BY ServerFields
<1>2. \A n \in e.reliableAcknowledge + 1 .. c.reliableSequence :
        /\ n \in d.reliableAcknowledge + 1 .. c.reliableSequence
        /\ n \in e.reliableAcknowledge + 1 .. d.reliableSequence
  BY <1>1 DEF GoesOn
<1>. QED BY <1>1, <1>2 DEF GoesOn

\* The same commands, and more of them sent.
LEMMA GoesOnSame ==
  ASSUME NEW c \in Servers, NEW d \in Servers, Window(c) <= MAX_RELIABLE_COMMANDS,
         d.numbering = c.numbering, d.reliableAcknowledge = c.reliableAcknowledge,
         d.reliableSequence = c.reliableSequence, d.reliableCommands = c.reliableCommands,
         c.reliableSent <= d.reliableSent
  PROVE  GoesOn(c, d) /\ (Following(c) => Following(d))
BY ServerFields DEF GoesOn, Window, Following

\* A command that is sent is stored behind the others, or dropped the client.
LEMMA SendGoesOn ==
  ASSUME NEW c \in Servers, Filled(c), Ordered(c), c.state # "zombie",
         Window(c) <= MAX_RELIABLE_COMMANDS, NEW cmd \in Commands(ServerKinds),
         NEW d, d = SendServerCommand(c, cmd), d.state # "zombie"
  PROVE  /\ d \in Servers /\ GoodServer(d) /\ GoesOn(c, d)
         /\ d.state = c.state /\ d.reliableAcknowledge = c.reliableAcknowledge
         /\ d.reliableSent = c.reliableSent
         /\ cmd.kind # "cs" => /\ d.reliableSequence = c.reliableSequence + 1
                               /\ d.reliableCommands[Slot(d.reliableSequence)].kind = cmd.kind
         /\ cmd.kind # "changing" /\ Following(c) => Following(d)
<1>1. /\ d \in Servers /\ GoodServer(d)
      /\ \/ cmd.kind = "cs" /\ Batched(c, d)
         \/ ~Full(c) /\ Stores(c, cmd, d)
  <2>1. /\ d \in Servers /\ GoodServer(d)
        /\ (cmd.kind = "cs" /\ Batched(c, d)) \/ (Full(c) /\ Drops(c, d)) \/ (~Full(c) /\ Stores(c, cmd, d))
    BY SendIs
  <2>. QED BY <2>1 DEF Drops
<1>2. /\ c.reliableSequence \in Nat /\ c.reliableAcknowledge \in Nat /\ c.reliableSent \in Nat
      /\ c.reliableCommands \in [Slots -> Commands(ServerKinds \cup {"none"})]
      /\ MAX_RELIABLE_COMMANDS \in Nat \ {0}
      /\ c.reliableAcknowledge <= c.reliableSequence
  <2>1. /\ c.reliableSequence \in Nat /\ c.reliableAcknowledge \in Nat /\ c.reliableSent \in Nat
        /\ c.reliableCommands \in [Slots -> Commands(ServerKinds \cup {"none"})]
        /\ MAX_RELIABLE_COMMANDS \in Nat \ {0}
    BY ServerFields
  <2>2. c.reliableAcknowledge <= c.reliableSent /\ c.reliableSent <= c.reliableSequence
    BY DEF Ordered
  <2>3. c.reliableAcknowledge <= c.reliableSequence
    BY <2>1, <2>2
  <2>. QED BY <2>1, <2>3
<1>3. CASE cmd.kind = "cs" /\ Batched(c, d)
  <2>1. \A n \in c.reliableAcknowledge + 1 .. c.reliableSequence :
          d.reliableCommands[Slot(n)].kind = c.reliableCommands[Slot(n)].kind
    <3>. SUFFICES ASSUME NEW n \in c.reliableAcknowledge + 1 .. c.reliableSequence
                  PROVE  d.reliableCommands[Slot(n)].kind = c.reliableCommands[Slot(n)].kind
      OBVIOUS
    <3>1. Slot(n) \in Slots
      BY <1>2, SlotType
    <3>. QED BY <1>3, <3>1 DEF Batched
  <2>2. Following(c) => Following(d)
    <3>1. \A n \in c.reliableAcknowledge + 1 .. c.reliableSequence :
            n + 1 <= c.reliableSequence => n + 1 \in c.reliableAcknowledge + 1 .. c.reliableSequence
      BY <1>2
    <3>. QED BY <1>3, <2>1, <3>1 DEF Batched, Following
  <2>. QED BY <1>1, <1>2, <1>3, <2>1, <2>2 DEF Batched, GoesOn, Window
<1>4. CASE ~Full(c) /\ Stores(c, cmd, d)
  <2>. DEFINE q == c.reliableSequence + 1
              new == [cmd EXCEPT !.num = q]
  <2>1. /\ d.reliableSequence = q /\ d.reliableCommands = [c.reliableCommands EXCEPT ![Slot(q)] = new]
        /\ d.reliableAcknowledge = c.reliableAcknowledge /\ d.reliableSent = c.reliableSent
        /\ d.state = c.state /\ d.numbering = c.numbering
    BY <1>4 DEF Stores
  <2>2. \A s \in Slots : d.reliableCommands[s] = IF s = Slot(q) THEN new ELSE c.reliableCommands[s]
    BY <1>2, <2>1, StoredRing
  <2>3. new.kind = cmd.kind /\ Slot(q) \in Slots
    <3>1. q \in Int
      BY <1>2
    <3>. HIDE DEF q
    <3>. QED BY <3>1, SlotType DEF Commands
  <2>. HIDE DEF new
  <2>4. Window(c) < MAX_RELIABLE_COMMANDS
    BY <1>2, <1>4 DEF Full, Window
  <2>5. ASSUME NEW n \in c.reliableAcknowledge + 1 .. c.reliableSequence
        PROVE  d.reliableCommands[Slot(n)] = c.reliableCommands[Slot(n)]
    <3>1. n \in Int /\ q \in Int /\ n < q /\ q < n + MAX_RELIABLE_COMMANDS
      BY <1>2, <2>4 DEF Window
    <3>2. Slot(n) # Slot(q) /\ Slot(n) \in Slots
      BY <3>1, SlotApart, SlotType
    <3>. QED BY <2>2, <3>2
  <2>6. d.reliableCommands[Slot(q)].kind = cmd.kind
    BY <2>2, <2>3
  <2>7. ASSUME cmd.kind # "changing", Following(c) PROVE Following(d)
    <3>. SUFFICES ASSUME NEW n \in c.reliableAcknowledge + 1 .. q, d.reliableCommands[Slot(n)].kind = "changing"
                  PROVE  n + 1 <= q /\ d.reliableCommands[Slot(n + 1)].kind = "reconnect"
      BY <2>1 DEF Following
    <3>1. n # q
      BY <2>6, <2>7
    <3>2. n \in c.reliableAcknowledge + 1 .. c.reliableSequence
      BY <1>2, <3>1
    <3>3. n + 1 <= c.reliableSequence /\ c.reliableCommands[Slot(n + 1)].kind = "reconnect"
      BY <2>5, <2>7, <3>2 DEF Following
    <3>4. n + 1 \in c.reliableAcknowledge + 1 .. c.reliableSequence
      BY <1>2, <3>2, <3>3
    <3>. QED BY <1>2, <2>5, <3>3, <3>4
  <2>8. Window(d) <= MAX_RELIABLE_COMMANDS
    BY <1>2, <2>1, <2>4 DEF Window
  <2>9. GoesOn(c, d)
    BY <1>2, <2>1, <2>5, <2>8 DEF GoesOn
  <2>. QED BY <1>1, <2>1, <2>6, <2>7, <2>9
<1>. QED BY <1>1, <1>3, <1>4

\* "changing" and "reconnect", told one after the other.
LEMMA TellFollowing ==
  ASSUME NEW c \in Servers, Ordered(c), Following(c), NEW d \in Servers, NEW e \in Servers, NEW f \in Servers,
         GoesOn(c, d), d.reliableAcknowledge = c.reliableAcknowledge,
         d.reliableSequence = c.reliableSequence + 1,
         e.reliableSequence = d.reliableSequence, e.reliableCommands = d.reliableCommands,
         e.reliableAcknowledge = d.reliableAcknowledge,
         GoesOn(e, f), f.reliableAcknowledge = e.reliableAcknowledge,
         f.reliableSequence = e.reliableSequence + 1,
         f.reliableCommands[Slot(f.reliableSequence)].kind = "reconnect"
  PROVE  Following(f)
<1>. DEFINE a == c.reliableAcknowledge
            q == c.reliableSequence
<1>1. a \in Nat /\ q \in Nat /\ a <= q
  BY ServerFields DEF Ordered
<1>2. /\ f.reliableAcknowledge = a /\ f.reliableSequence = q + 2
      /\ d.reliableAcknowledge = a /\ e.reliableSequence = q + 1
  BY <1>1
<1>3. \A n \in a + 1 .. q : d.reliableCommands[Slot(n)].kind = c.reliableCommands[Slot(n)].kind
  BY DEF GoesOn
<1>4. \A n \in a + 1 .. q + 1 : f.reliableCommands[Slot(n)].kind = e.reliableCommands[Slot(n)].kind
  BY <1>2 DEF GoesOn
<1>5. \A n \in a + 1 .. q : f.reliableCommands[Slot(n)].kind = c.reliableCommands[Slot(n)].kind
  BY <1>1, <1>3, <1>4
<1>6. ASSUME NEW n \in a + 1 .. q + 2, f.reliableCommands[Slot(n)].kind = "changing"
      PROVE  n + 1 <= q + 2 /\ f.reliableCommands[Slot(n + 1)].kind = "reconnect"
  <2>1. n # q + 2
    BY <1>2, <1>6
  <2>2. CASE n = q + 1
    <3>1. n + 1 = q + 2
      BY <1>1, <2>2
    <3>. QED BY <1>2, <3>1
  <2>3. CASE n \in a + 1 .. q
    <3>1. n + 1 <= q /\ c.reliableCommands[Slot(n + 1)].kind = "reconnect"
      BY <1>5, <1>6, <2>3 DEF Following
    <3>2. n + 1 \in a + 1 .. q
      BY <1>1, <2>3, <3>1
    <3>. QED BY <1>1, <1>5, <3>1, <3>2
  <2>. QED BY <1>1, <2>1, <2>2, <2>3
<1>. QED BY <1>2, <1>6 DEF Following

\* A message of commands, and a frame behind them, is of the numbering.
LEMMA MessageSays ==
  ASSUME NEW c \in Servers, Filled(c), Ordered(c),
         NEW items \in Seq(Commands(ServerKinds \cup DataKinds)), Len(items) <= 1,
         \A j \in 1 .. Len(items) : items[j].kind = "frame",
         NEW d \in Servers, GoesOn(c, d), d.reliableAcknowledge = c.reliableAcknowledge,
         c.reliableSequence <= d.reliableSent
  PROVE  Says(d, Message(c, items).items)
<1>. DEFINE m == Message(c, items)
            w == Window(c)
            a == c.reliableAcknowledge
            x == m.items
<1>1. /\ w \in Nat /\ Len(x) = w + Len(items)
      /\ \A j \in 1 .. w :
           /\ x[j].num = a + j
           /\ x[j].kind = c.reliableCommands[Slot(a + j)].kind
           /\ x[j].kind \in ServerKinds
      /\ \A j \in 1 .. Len(items) : x[w + j] = items[j]
  BY MessageIs
<1>2. a \in Nat /\ w = c.reliableSequence - a /\ c.reliableSequence \in Nat /\ Len(items) \in Nat
      /\ d.reliableSent \in Nat
  BY ServerFields DEF Window
<1>. HIDE DEF w, x
<1>3. \A j \in 1 .. w : ~IsData(x[j]) /\ x[j].kind # "serverdata"
  BY <1>1 DEF IsData, ServerKinds, DataKinds
<1>4. \A j \in 1 .. Len(x) : j \in 1 .. w \/ (j = w + 1 /\ x[j].kind = "frame")
  <2>. SUFFICES ASSUME NEW j \in 1 .. Len(x), j \notin 1 .. w PROVE j = w + 1 /\ x[j].kind = "frame"
    OBVIOUS
  <2>1. j = w + 1 /\ 1 \in 1 .. Len(items)
    BY <1>1, <1>2
  <2>. QED BY <1>1, <2>1
<1>5. \A j \in 1 .. Len(x) : IsData(x[j]) <=> j = w + 1
  BY <1>1, <1>3, <1>4 DEF IsData, DataKinds
<1>6. Consecutive(x)
  <2>. SUFFICES ASSUME NEW j \in 1 .. Len(x) - 1
                PROVE  ~IsData(x[j]) /\ (~IsData(x[j + 1]) => x[j + 1].num = x[j].num + 1)
    BY DEF Consecutive
  <2>1. j \in 1 .. w
    BY <1>1, <1>2
  <2>2. ~IsData(x[j + 1]) => j + 1 \in 1 .. w
    BY <1>1, <1>2, <1>5, <2>1
  <2>3. x[j].num = a + j /\ ~IsData(x[j])
    BY <1>1, <1>3, <2>1
  <2>4. ~IsData(x[j + 1]) => x[j + 1].num = a + (j + 1)
    BY <1>1, <2>2
  <2>5. a + (j + 1) = a + j + 1
    BY SMTT(30), <1>2, <2>1
  <2>. QED BY <2>3, <2>4, <2>5
<1>7. Follows(x, d.reliableAcknowledge)
  <2>. SUFFICES ASSUME Len(x) > 0, ~IsData(x[1]) PROVE x[1].num <= a + 1
    BY DEF Follows
  <2>1. Len(x) \in Nat \ {0}
    BY <1>1, <1>2
  <2>2. 1 \in 1 .. w
    BY <1>1, <1>2, <1>5, <2>1
  <2>. QED BY <1>1, <1>2, <2>2
<1>8. AsStored(d, x)
  <2>. SUFFICES ASSUME NEW j \in 1 .. Len(x), ~IsData(x[j])
                PROVE  /\ x[j].num <= d.reliableSent
                       /\ x[j].kind = d.reliableCommands[Slot(x[j].num)].kind
    BY DEF AsStored
  <2>1. j \in 1 .. w
    BY <1>4, <1>5
  <2>2. x[j].num = a + j /\ a + j \in a + 1 .. c.reliableSequence
    BY SMTT(30), <1>1, <1>2, <2>1
  <2>3. d.reliableCommands[Slot(a + j)].kind = c.reliableCommands[Slot(a + j)].kind
    BY <2>2 DEF GoesOn
  <2>. QED BY <1>1, <1>2, <2>1, <2>2, <2>3
<1>9. \A j \in 1 .. Len(x) : x[j].kind # "serverdata"
  BY <1>3, <1>4
<1>. QED BY <1>6, <1>7, <1>8, <1>9 DEF Says, x
-----------------------------------------------------------------------------
LEMMA FollowsMore ==
  ASSUME NEW kinds, NEW items \in Seq(Commands(kinds)), NEW a \in Nat, NEW b \in Nat, a <= b,
         Follows(items, a)
  PROVE  Follows(items, b)
<1>. SUFFICES ASSUME Len(items) > 0, ~IsData(items[1]) PROVE items[1].num <= b + 1
  BY DEF Follows
<1>1. 1 \in 1 .. Len(items)
  OBVIOUS
<1>2. items[1].num \in Nat
  BY <1>1, ItemTypes
<1>3. items[1].num <= a + 1
  BY DEF Follows
<1>. QED BY <1>2, <1>3

LEMMA SilentIs ==
  ASSUME NEW kinds, NEW items \in Seq(Commands(kinds)), NEW n,
         \A j \in 1 .. Len(items) : items[j].kind # "serverdata"
  PROVE  ~Announces(items, n)
<1>1. Len(items) > 0 => 1 \in 1 .. Len(items)
  OBVIOUS
<1>. QED BY <1>1 DEF Announces

\* What was of the numbering still is.
LEMMA AsStoredOn ==
  ASSUME NEW c \in Servers, NEW d \in Servers, Ordered(c), GoesOn(c, d), NEW kinds,
         NEW items \in Seq(Commands(kinds)), AsStored(c, items)
  PROVE  AsStored(d, items)
<1>1. /\ c.reliableSequence \in Nat /\ d.reliableSequence \in Nat
      /\ c.reliableAcknowledge \in Nat /\ d.reliableAcknowledge \in Nat
      /\ c.reliableSent \in Nat /\ d.reliableSent \in Nat
  BY ServerFields
<1>2. /\ c.reliableAcknowledge <= d.reliableAcknowledge /\ c.reliableSent <= d.reliableSent
      /\ c.reliableSent <= c.reliableSequence
      /\ \A n \in d.reliableAcknowledge + 1 .. c.reliableSequence :
           d.reliableCommands[Slot(n)].kind = c.reliableCommands[Slot(n)].kind
  BY DEF GoesOn, Ordered
<1>3. ASSUME NEW j \in 1 .. Len(items), ~IsData(items[j])
      PROVE  /\ items[j].num <= d.reliableSent
             /\ d.reliableAcknowledge < items[j].num =>
                  items[j].kind = d.reliableCommands[Slot(items[j].num)].kind
  <2>1. items[j].num \in Nat
    BY ItemTypes
  <2>2. /\ items[j].num <= c.reliableSent
        /\ c.reliableAcknowledge < items[j].num =>
             items[j].kind = c.reliableCommands[Slot(items[j].num)].kind
    BY <1>3 DEF AsStored
  <2>. DEFINE n == items[j].num
  <2>3. d.reliableAcknowledge < n => n \in d.reliableAcknowledge + 1 .. c.reliableSequence
    BY <1>1, <1>2, <2>1, <2>2
  <2>4. n <= d.reliableSent
    BY <1>1, <1>2, <2>1, <2>2
  <2>5. d.reliableAcknowledge < n => c.reliableAcknowledge < n
    BY <1>1, <1>2, <2>1
  <2>. QED BY <1>2, <2>2, <2>3, <2>4, <2>5
<1>. QED BY <1>3 DEF AsStored

\* A "reconnect" that was ahead of n still is, unless the commands up to it are acknowledged.
LEMMA AheadOn ==
  ASSUME NEW c \in Servers, NEW d \in Servers, GoesOn(c, d), NEW n \in Nat,
         d.reliableAcknowledge <= n, Ahead(c, n)
  PROVE  Ahead(d, n)
<1>1. /\ c.reliableSequence \in Nat /\ d.reliableSequence \in Nat
      /\ c.reliableAcknowledge \in Nat /\ d.reliableAcknowledge \in Nat
  BY ServerFields
<1>2. PICK m \in n + 1 .. c.reliableSequence : c.reliableCommands[Slot(m)].kind = "reconnect"
  BY DEF Ahead
<1>3. m \in d.reliableAcknowledge + 1 .. c.reliableSequence /\ c.reliableSequence <= d.reliableSequence
  BY <1>1 DEF GoesOn
<1>4. d.reliableCommands[Slot(m)].kind = "reconnect" /\ m \in n + 1 .. d.reliableSequence
  BY <1>1, <1>2, <1>3 DEF GoesOn
<1>. QED BY <1>4 DEF Ahead

\* Types that the following steps need.
LEMMA StepTypes ==
  ASSUME TypeInv
  PROVE  /\ server \in Servers /\ Filled(server) /\ Ordered(server) /\ GoodServer(server)
         /\ client \in Clients /\ Filled(client)
         /\ client.lastExecutedServerCommand \in Nat /\ client.numbering \in Nat
         /\ server.numbering \in Nat /\ level \in Nat
         /\ clInput \in Seq(Commands(ServerKinds \cup DataKinds)) /\ toClient \in Seq(ToClient)
         /\ \A i \in 1 .. Len(toClient) : toClient[i].items \in Seq(Commands(ServerKinds \cup DataKinds))
<1>1. /\ server \in Servers /\ Filled(server) /\ Ordered(server) /\ GoodServer(server)
      /\ client \in Clients /\ Filled(client) /\ level \in Nat
      /\ clInput \in Seq(Commands(ServerKinds \cup DataKinds)) /\ toClient \in Seq(ToClient)
  BY SizeAssumption DEF TypeInv, GoodServer, GoodClient
<1>2. server.numbering \in Nat
  BY <1>1, ServerFields
<1>3. client.lastExecutedServerCommand \in Nat /\ client.numbering \in Nat
  BY <1>1, ClientFields
<1>4. \A i \in 1 .. Len(toClient) : toClient[i].items \in Seq(Commands(ServerKinds \cup DataKinds))
  BY <1>1, MessageTypes DEF ToClient
<1>. QED BY <1>1, <1>2, <1>3, <1>4

\* A step of the server that goes on in its numbering.
LEMMA GoesOnSteps ==
  ASSUME TypeInv, TypeInv', StepInv, OwnAcks', server.state # "zombie", server'.state # "zombie",
         UNCHANGED <<client, clInput>>, misled \subseteq misled', GoesOn(server, server'), Following(server'),
         \/ level' = level
         \/ \E m \in server.reliableSequence + 1 .. server'.reliableSequence :
              server'.reliableCommands[Slot(m)].kind = "reconnect",
         NEW sent \in Seq(ToClient), toClient' = toClient \o sent,
         \A i \in 1 .. Len(sent) : Says(server', sent[i].items)
  PROVE  StepInv'
<1>. DEFINE n == Len(toClient)
            m == Len(sent)
            c == server
            d == server'
<1>0. /\ c \in Servers /\ d \in Servers /\ Ordered(c) /\ n \in Nat /\ m \in Nat
      /\ client.lastExecutedServerCommand \in Nat
      /\ clInput \in Seq(Commands(ServerKinds \cup DataKinds))
      /\ \A i \in 1 .. n : toClient[i].items \in Seq(Commands(ServerKinds \cup DataKinds))
  <2>1. d \in Servers
    BY DEF TypeInv, GoodServer
  <2>2. n \in Nat /\ m \in Nat
    BY StepTypes
  <2>. QED BY <2>1, <2>2, StepTypes
<1>1. /\ c.reliableSequence \in Nat /\ d.reliableSequence \in Nat
      /\ c.reliableAcknowledge \in Nat /\ d.reliableAcknowledge \in Nat
      /\ c.reliableSent \in Nat /\ d.reliableSent \in Nat
  BY <1>0, ServerFields
<1>2. /\ d.numbering = c.numbering
      /\ c.reliableAcknowledge <= d.reliableAcknowledge
      /\ c.reliableSent <= d.reliableSent /\ c.reliableSequence <= d.reliableSequence
      /\ Window(d) <= MAX_RELIABLE_COMMANDS /\ c.reliableSent <= c.reliableSequence
  BY <1>0 DEF GoesOn, Ordered
<1>3. /\ Len(toClient') = n + m
      /\ \A i \in 1 .. n : toClient'[i] = toClient[i]
      /\ \A i \in 1 .. n + m : i \in 1 .. n \/ (i - n \in 1 .. m /\ toClient'[i] = sent[i - n])
  <2>1. /\ Len(toClient') = n + m
        /\ \A i \in 1 .. n : toClient'[i] = toClient[i]
        /\ \A i \in 1 .. m : toClient'[n + i] = sent[i]
        /\ \A i \in 1 .. n + m : i \in 1 .. n \/ i - n \in 1 .. m
    BY StepTypes, ConcatFacts
  <2>2. \A i \in 1 .. n + m : i = n + (i - n)
    BY <1>0
  <2>. QED BY <2>1, <2>2
<1>4. /\ NumberInv /\ ParsedInv /\ Recalls /\ \A i \in 1 .. n : SentInv(i)
  BY DEF StepInv
<1>. HIDE DEF n, m
<1>5. ASSUME NEW i \in 1 .. n + m, i \notin 1 .. n
      PROVE  /\ Says(d, toClient'[i].items)
             /\ \A j \in 1 .. Len(toClient'[i].items) : toClient'[i].items[j].kind # "serverdata"
  BY <1>3, <1>5, SMTT(60) DEF Says, m
<1>6. NumberInv'
  <2>1. client'.numbering <= d.numbering /\ NumbersWithin(clInput', client'.numbering, d.numbering)
    BY <1>2, <1>4 DEF NumberInv
  <2>2. ASSUME NEW i \in 1 .. n + m
        PROVE  /\ NumbersWithin(toClient'[i].items, client'.numbering, d.numbering)
               /\ NumbersOrdered(clInput', toClient'[i].items)
               /\ \A j \in i + 1 .. n + m : NumbersOrdered(toClient'[i].items, toClient'[j].items)
    <3>1. CASE i \in 1 .. n
      <4>1. toClient'[i] = toClient[i]
        BY <1>3, <3>1
      <4>2. /\ NumbersWithin(toClient[i].items, client.numbering, c.numbering)
            /\ NumbersOrdered(clInput, toClient[i].items)
            /\ \A j \in i + 1 .. n : NumbersOrdered(toClient[i].items, toClient[j].items)
        BY <1>4, <3>1 DEF NumberInv, n
      <4>3. ASSUME NEW j \in i + 1 .. n + m PROVE NumbersOrdered(toClient[i].items, toClient'[j].items)
        <5>1. j \in 1 .. n + m
          BY <1>0, <3>1
        <5>2. CASE j \in 1 .. n
          <6>1. j \in i + 1 .. n
            BY <1>0, <5>2
          <6>. QED BY <1>3, <4>2, <5>2, <6>1
        <5>3. CASE j \notin 1 .. n
          BY <1>5, <5>1, <5>3 DEF NumbersOrdered
        <5>. QED BY <5>2, <5>3
      <4>. QED BY <1>2, <4>1, <4>2, <4>3
    <3>2. CASE i \notin 1 .. n
      BY <1>5, <3>2 DEF NumbersWithin, NumbersOrdered
    <3>. QED BY <3>1, <3>2
  <2>. QED BY <1>3, <2>1, <2>2 DEF NumberInv
<1>7. InStep' <=> InStep
  BY <1>2 DEF InStep
<1>12. ~Misled' => ~Misled
  BY <1>2 DEF Misled
<1>8. ASSUME NEW items, Recalled(items) PROVE Recalled(items)'
  <2>. SUFFICES ASSUME Announces(items, d.numbering), d.reliableAcknowledge = 0, items[1].level # level'
                PROVE  Ahead(d, 0)
    BY DEF Recalled
  <2>1. c.reliableAcknowledge = 0
    BY <1>1, <1>2
  <2>2. CASE level' = level
    <3>1. Ahead(c, 0)
      BY <1>2, <1>8, <2>1, <2>2 DEF Recalled
    <3>. QED BY <1>0, <1>1, <3>1, AheadOn
  <2>3. CASE \E k \in c.reliableSequence + 1 .. d.reliableSequence : d.reliableCommands[Slot(k)].kind = "reconnect"
    <3>1. c.reliableSequence + 1 .. d.reliableSequence \subseteq 0 + 1 .. d.reliableSequence
      BY <1>1
    <3>. QED BY <2>3, <3>1 DEF Ahead
  <2>. QED BY <2>2, <2>3
<1>9. ASSUME NEW i \in 1 .. n + m PROVE SentInv(i)'
  <2>1. CASE i \in 1 .. n
    <3>1. SentInv(i) /\ toClient'[i] = toClient[i]
      BY <1>3, <1>4, <2>1
    <3>2. Current(i)' => Current(i)
      <4>1. \A j \in 1 .. i - 1 : toClient'[j] = toClient[j]
        BY <1>0, <1>3, <2>1
      <4>. QED BY <1>2, <1>7, <4>1 DEF Current
    <3>. DEFINE items == toClient[i].items
    <3>3. items \in Seq(Commands(ServerKinds \cup DataKinds))
      BY <1>0, <2>1
    <3>4. Follows(items, c.reliableAcknowledge) => Follows(items, d.reliableAcknowledge)
      <4>. HIDE DEF items
      <4>. QED BY <1>1, <1>2, <3>3, FollowsMore
    <3>5. AsStored(c, items) => AsStored(d, items)
      BY <1>0, <3>3, AsStoredOn
    <3>6. Recalled(items)'
      <4>1. Recalled(items)
        BY <3>1 DEF SentInv
      <4>. QED BY <1>3, <1>8, <2>1, <4>1
    <3>7. Recalled(toClient[i].items)' = Recalled(items)'
      BY <3>1 DEF Recalled, Announces
    <3>. QED BY <3>1, <3>2, <3>4, <3>5, <3>6, <3>7 DEF SentInv
  <2>2. CASE i \notin 1 .. n
    <3>1. /\ Says(d, toClient'[i].items)
          /\ \A j \in 1 .. Len(toClient'[i].items) : toClient'[i].items[j].kind # "serverdata"
      BY <1>5, <2>2
    <3>2. toClient'[i].items \in Seq(Commands(ServerKinds \cup DataKinds))
      <4>1. \A k \in 1 .. Len(toClient') : toClient'[k].items \in Seq(Commands(ServerKinds \cup DataKinds))
        <5>1. toClient' \in Seq(Messages(ServerKinds \cup DataKinds))
          BY DEF TypeInv, ToClient
        <5>. QED BY <5>1, MessageTypes
      <4>. QED BY <1>3, <4>1
    <3>3. ~Announces(toClient'[i].items, d.numbering)
      BY <3>1, <3>2, SilentIs
    <3>. QED BY <3>1, <3>3 DEF SentInv, Says, Recalled
  <2>. QED BY <2>1, <2>2
<1>10. ParsedInv'
  <2>1. Consecutive(clInput') /\ Recalled(clInput)'
    BY <1>4, <1>8 DEF ParsedInv, Recalled, Announces
  <2>2. InStep' => /\ AsStored(d, clInput')
                   /\ ~Misled' => Follows(clInput', client'.lastExecutedServerCommand)
                   /\ client'.lastExecutedServerCommand <= d.reliableSent
    <3>1. InStep => /\ AsStored(c, clInput)
                    /\ ~Misled => Follows(clInput, client.lastExecutedServerCommand)
                    /\ client.lastExecutedServerCommand <= c.reliableSent
      BY <1>4 DEF ParsedInv
    <3>2. AsStored(c, clInput) => AsStored(d, clInput)
      BY <1>0, AsStoredOn
    <3>. QED BY <1>0, <1>1, <1>2, <1>7, <1>12, <3>1, <3>2
  <2>. QED BY <2>1, <2>2 DEF ParsedInv
<1>11. Recalls'
  <2>. DEFINE e == client.lastExecutedServerCommand
  <2>. SUFFICES ASSUME client.state \in {"connected", "active"}, client.servercount # level', InStep, ~Misled'
                PROVE  Ahead(d, e)
    BY <1>7 DEF Recalls
  <2>4. client'.state # "disconnected"
    OBVIOUS
  <2>1. d.reliableAcknowledge <= e
    BY <1>7, <2>4 DEF OwnAcks
  <2>2. CASE level' = level
    <3>1. Ahead(c, e)
      BY <1>4, <1>12, <2>2 DEF Recalls
    <3>. QED BY <1>0, <2>1, <3>1, AheadOn
  <2>3. CASE \E k \in c.reliableSequence + 1 .. d.reliableSequence : d.reliableCommands[Slot(k)].kind = "reconnect"
    <3>1. e <= c.reliableSent
      BY <1>4 DEF ParsedInv
    <3>2. c.reliableSequence + 1 .. d.reliableSequence \subseteq e + 1 .. d.reliableSequence
      BY <1>0, <1>1, <1>2, <3>1
    <3>. QED BY <2>3, <3>2 DEF Ahead
  <2>. QED BY <2>2, <2>3
<1>. QED BY <1>2, <1>3, <1>6, <1>9, <1>10, <1>11 DEF StepInv
-----------------------------------------------------------------------------
\* A step of the server that starts its numbers anew.
LEMMA RenumberSteps ==
  ASSUME TypeInv, TypeInv', StepInv, server.state # "zombie",
         UNCHANGED <<client, clInput, level, misled>>,
         server'.numbering = server.numbering + 1, server'.reliableSequence = 0,
         server'.reliableAcknowledge = 0,
         NEW m \in ToClient, Len(m.items) = 1, m.items[1].kind = "serverdata",
         m.items[1].arg = server.numbering + 1, m.items[1].level = level,
         toClient' = toClient \o <<m>>
  PROVE  StepInv'
<1>. DEFINE n == Len(toClient)
            N == server.numbering
<1>0. /\ n \in Nat /\ N \in Nat /\ client.numbering \in Nat
      /\ clInput \in Seq(Commands(ServerKinds \cup DataKinds))
      /\ \A i \in 1 .. n : toClient[i].items \in Seq(Commands(ServerKinds \cup DataKinds))
      /\ MAX_RELIABLE_COMMANDS \in Nat
  <2>1. n \in Nat
    BY StepTypes
  <2>. QED BY <2>1, StepTypes, SizeAssumption
<1>1. /\ Len(toClient') = n + 1 /\ toClient'[n + 1] = m
      /\ \A i \in 1 .. n : toClient'[i] = toClient[i]
      /\ \A i \in 1 .. n + 1 : i \in 1 .. n \/ i = n + 1
  <2>. DEFINE s == <<m>>
  <2>0. s \in Seq(ToClient) /\ Len(s) = 1 /\ s[1] = m /\ toClient \in Seq(ToClient) /\ 1 \in 1 .. Len(s)
    BY StepTypes
  <2>1. toClient' = toClient \o s
    OBVIOUS
  <2>. HIDE DEF s
  <2>2. /\ Len(toClient') = n + 1 /\ toClient'[n + 1] = m
        /\ \A i \in 1 .. n : toClient'[i] = toClient[i]
    BY <2>0, <2>1, ConcatFacts
  <2>. QED BY <1>0, <2>2
<1>2. NumberInv /\ ParsedInv /\ \A i \in 1 .. n : SentInv(i)
  BY DEF StepInv
<1>. HIDE DEF n
<1>3. ASSUME NEW items \in Seq(Commands(ServerKinds \cup DataKinds)),
             NumbersWithin(items, client.numbering, N)
      PROVE  /\ NumbersWithin(items, client.numbering, N + 1)
             /\ ~Announces(items, N + 1)
             /\ NumbersOrdered(items, m.items)
  <2>1. \A j \in 1 .. Len(items) : items[j].arg \in Nat /\ (items[j].kind = "serverdata" =>
          Len(items) = 1 /\ client.numbering < items[j].arg /\ items[j].arg <= N)
    BY <1>3, ItemTypes DEF NumbersWithin
  <2>2. Len(items) > 0 => 1 \in 1 .. Len(items)
    OBVIOUS
  <2>3. \A j \in 1 .. Len(m.items) : j = 1
    OBVIOUS
  <2>. QED BY <1>0, <2>1, <2>2, <2>3 DEF NumbersWithin, Announces, NumbersOrdered
<1>4. /\ NumbersWithin(clInput, client.numbering, N)
      /\ \A i \in 1 .. n : /\ NumbersWithin(toClient[i].items, client.numbering, N)
                           /\ NumbersOrdered(clInput, toClient[i].items)
                           /\ \A j \in i + 1 .. n : NumbersOrdered(toClient[i].items, toClient[j].items)
      /\ client.numbering <= N
  BY <1>2 DEF NumberInv, n
<1>5. NumberInv'
  <2>1. NumbersWithin(m.items, client.numbering, N + 1)
    <3>1. \A j \in 1 .. Len(m.items) : j = 1
      OBVIOUS
    <3>. QED BY <1>0, <1>4, <3>1 DEF NumbersWithin
  <2>2. NumbersWithin(clInput', client'.numbering, N + 1) /\ NumbersOrdered(clInput', m.items)
    BY <1>0, <1>3, <1>4
  <2>3. ASSUME NEW i \in 1 .. n + 1
        PROVE  /\ NumbersWithin(toClient'[i].items, client'.numbering, N + 1)
               /\ NumbersOrdered(clInput', toClient'[i].items)
               /\ \A j \in i + 1 .. n + 1 : NumbersOrdered(toClient'[i].items, toClient'[j].items)
    <3>1. CASE i \in 1 .. n
      <4>1. NumbersWithin(toClient[i].items, client.numbering, N + 1) /\ NumbersOrdered(toClient[i].items, m.items)
        BY <1>0, <1>3, <1>4, <3>1
      <4>2. \A j \in i + 1 .. n + 1 : j = n + 1 \/ (j \in i + 1 .. n /\ toClient'[j] = toClient[j])
        BY <1>0, <1>1, <3>1
      <4>. QED BY <1>1, <1>4, <3>1, <4>1, <4>2
    <3>2. CASE i = n + 1
      <4>1. i + 1 .. n + 1 = {}
        BY <1>0, <3>2
      <4>. QED BY <1>1, <2>1, <2>2, <3>2, <4>1
    <3>. QED BY <1>1, <3>1, <3>2
  <2>4. client'.numbering <= N + 1
    BY <1>0, <1>4
  <2>. QED BY <1>1, <2>2, <2>3, <2>4 DEF NumberInv
<1>6. ~InStep' /\ ~Announces(clInput', server'.numbering)
      /\ \A i \in 1 .. n : ~Announces(toClient'[i].items, server'.numbering)
  <2>1. client.numbering # N + 1
    BY <1>0, <1>4
  <2>2. \A i \in 1 .. n : ~Announces(toClient[i].items, N + 1)
    BY <1>0, <1>3, <1>4
  <2>3. ~Announces(clInput, N + 1)
    BY <1>0, <1>3, <1>4
  <2>. QED BY <1>1, <2>1, <2>2, <2>3 DEF InStep
<1>7. ASSUME NEW i \in 1 .. n + 1 PROVE SentInv(i)'
  <2>1. ~Current(i)'
    <3>1. \A j \in 1 .. i - 1 : j \in 1 .. n
      BY <1>0
    <3>. QED BY <1>6, <3>1 DEF Current
  <2>2. Consecutive(toClient'[i].items)
    <3>1. CASE i \in 1 .. n
      BY <1>1, <1>2, <3>1 DEF SentInv
    <3>2. CASE i = n + 1
      <4>1. 1 .. Len(m.items) - 1 = {}
        OBVIOUS
      <4>. QED BY <1>1, <3>2, <4>1 DEF Consecutive
    <3>. QED BY <1>1, <3>1, <3>2
  <2>3. Recalled(toClient[i].items)'
    <3>1. CASE i \in 1 .. n
      BY <1>6, <3>1 DEF Recalled
    <3>2. CASE i = n + 1
      BY <1>1, <3>2 DEF Recalled
    <3>. QED BY <1>1, <3>1, <3>2
  <2>. QED BY <2>1, <2>2, <2>3 DEF SentInv
<1>8. ParsedInv' /\ Recalls'
  BY <1>2, <1>6 DEF ParsedInv, Recalls, Recalled
<1>9. Window(server') <= MAX_RELIABLE_COMMANDS /\ Following(server')
  <2>1. Window(server') = 0 /\ 0 + 1 .. 0 = {}
    BY DEF Window
  <2>. QED BY <1>0, <2>1 DEF Following
<1>. QED BY <1>1, <1>5, <1>7, <1>8, <1>9 DEF StepInv

\* A step of the server that ends in Serve, and in which it goes on in its numbering.
LEMMA ServeSteps ==
  ASSUME TypeInv, TypeInv', StepInv, OwnAcks', server.state # "zombie", UNCHANGED <<client, clInput, misled>>,
         NEW c \in Servers, NEW msgs \in Seq(ToClient), Serve(c, msgs),
         c.state # "zombie" =>
           /\ GoesOn(server, c) /\ Following(c)
           /\ \/ level' = level
              \/ \E m \in server.reliableSequence + 1 .. c.reliableSequence :
                   c.reliableCommands[Slot(m)].kind = "reconnect"
           /\ \A i \in 1 .. Len(msgs) : Says(c, msgs[i].items)
  PROVE  StepInv'
<1>1. server' = c
  BY DEF Serve
<1>2. CASE c.state = "zombie"
  BY <1>1, <1>2 DEF StepInv
<1>3. CASE c.state # "zombie"
  <2>1. toClient' = toClient \o msgs
    <3>1. toClient' = toClient \o msgs \o <<>>
      BY <1>3 DEF Serve
    <3>2. toClient \o msgs \in Seq(ToClient)
      BY StepTypes, ConcatFacts
    <3>. DEFINE s == toClient \o msgs
    <3>3. s \in Seq(ToClient) /\ toClient' = s \o <<>>
      BY <3>1, <3>2
    <3>. HIDE DEF s
    <3>4. s \o <<>> = s
      BY <3>3
    <3>. QED BY <3>3, <3>4 DEF s
  <2>. QED BY <1>1, <1>3, <2>1, GoesOnSteps
<1>. QED BY <1>2, <1>3

\* What is known of a client that is in touch.
LEMMA StepFacts ==
  ASSUME TypeInv, StepInv, server.state # "zombie"
  PROVE  /\ server \in Servers /\ GoodServer(server) /\ Filled(server) /\ Ordered(server)
         /\ Window(server) <= MAX_RELIABLE_COMMANDS /\ Following(server)
BY StepTypes DEF StepInv

LEMMA SendClientMessagesSteps ==
  ASSUME TypeInv, TypeInv', StepInv, OwnAcks', SendClientMessages
  PROVE  StepInv'
<1>. DEFINE frame == Command("frame", level, 0, <<>>)
            items == IF server.state = "spawned" THEN <<frame>> ELSE <<>>
            m == Message(server, items)
            msgs == <<m>>
            c == AllSent(server)
<1>1. /\ Serve(c, msgs) /\ server.state # "zombie" /\ level' = level
      /\ UNCHANGED <<client, clInput, misled>>
  BY DEF SendClientMessages, world
<1>2. items \in Seq(Commands(ServerKinds \cup DataKinds)) /\ Len(items) <= 1
      /\ \A j \in 1 .. Len(items) : items[j].kind = "frame"
  <2>1. frame \in Commands(ServerKinds \cup DataKinds) /\ frame.kind = "frame"
    <3>1. level \in Nat /\ <<>> \in Seq(Strings) /\ "frame" \in ServerKinds \cup DataKinds
      BY StepTypes DEF DataKinds
    <3>. QED BY <3>1 DEF Command, Commands
  <2>. HIDE DEF frame
  <2>2. <<frame>> \in Seq(Commands(ServerKinds \cup DataKinds)) /\ Len(<<frame>>) = 1
        /\ \A j \in 1 .. 1 : <<frame>>[j] = frame
    BY <2>1
  <2>3. <<>> \in Seq(Commands(ServerKinds \cup DataKinds)) /\ Len(<<>>) = 0
    OBVIOUS
  <2>4. CASE server.state = "spawned"
    <3>1. items = <<frame>>
      BY <2>4
    <3>. HIDE DEF items
    <3>. QED BY <2>1, <2>2, <3>1
  <2>5. CASE server.state # "spawned"
    <3>1. items = <<>>
      BY <2>5
    <3>. HIDE DEF items
    <3>. QED BY <2>3, <3>1
  <2>. QED BY <2>4, <2>5
<1>. HIDE DEF items
<1>3. /\ server \in Servers /\ GoodServer(server) /\ Filled(server) /\ Ordered(server)
      /\ Window(server) <= MAX_RELIABLE_COMMANDS /\ Following(server)
  BY <1>1, StepFacts
<1>4. /\ c \in Servers /\ c.state = server.state
      /\ c.reliableSequence = server.reliableSequence
      /\ c.reliableAcknowledge = server.reliableAcknowledge /\ c.reliableSent = server.reliableSequence
      /\ c.reliableCommands = server.reliableCommands /\ c.numbering = server.numbering
  BY <1>3, AllSentIs
<1>. HIDE DEF c
<1>5. GoesOn(server, c) /\ Following(c)
  <2>1. server.reliableSent <= c.reliableSent
    BY <1>3, <1>4 DEF Ordered
  <2>. QED BY <1>3, <1>4, <2>1, GoesOnSame
<1>6. Says(c, m.items)
  <2>1. server.reliableSequence <= c.reliableSent
    BY <1>3, <1>4, ServerFields
  <2>. QED BY <1>2, <1>3, <1>4, <1>5, <2>1, MessageSays
<1>7. m \in ToClient
  BY <1>2, <1>3, MessageIs
<1>. HIDE DEF m
<1>8. msgs \in Seq(ToClient) /\ \A i \in 1 .. Len(msgs) : msgs[i] = m
  BY <1>7
<1>. HIDE DEF msgs
<1>. QED BY <1>1, <1>4, <1>5, <1>6, <1>8, ServeSteps

\* Serving a record with no message.
LEMMA ServeNothing ==
  ASSUME TypeInv, TypeInv', StepInv, OwnAcks', server.state # "zombie",
         UNCHANGED <<client, clInput, level, misled>>,
         NEW c \in Servers, Serve(c, <<>>), c.state # "zombie" => GoesOn(server, c) /\ Following(c)
  PROVE  StepInv'
<1>1. <<>> \in Seq(ToClient) /\ 1 .. Len(<<>>) = {}
  OBVIOUS
<1>. QED BY <1>1, ServeSteps

LEMMA ConfigStringSteps ==
  ASSUME TypeInv, TypeInv', StepInv, OwnAcks', server.state # "zombie", ConfigString
  PROVE  StepInv'
<1>1. PICK i \in Index, size \in Sizes :
        /\ Serve(SendServerCommand(server, Cs(i)'), <<>>)
        /\ UNCHANGED <<client, level, misled, svInput, clInput, toServer>>
  BY DEF ConfigString
<1>. DEFINE cmd == Cs(i)'
            d == SendServerCommand(server, cmd)
<1>2. cmd \in Commands(ServerKinds) /\ cmd.kind = "cs"
  <2>1. config'[i] \in Values /\ i \in Nat
    <3>1. config' \in [Index -> Values]
      BY DEF TypeInv
    <3>2. i \in Nat
      BY SizeAssumption DEF Index
    <3>. QED BY <3>1, <3>2
  <2>. DEFINE s == [index |-> i, version |-> config'[i].version, size |-> config'[i].size]
  <2>2. s \in Strings
    BY <2>1 DEF Strings, Values
  <2>. DEFINE strings == <<s>>
  <2>3. strings \in Seq(Strings)
    BY <2>2
  <2>4. cmd = Command("cs", 0, 0, strings)
    BY DEF Cs
  <2>. HIDE DEF strings, cmd
  <2>5. "cs" \in ServerKinds
    BY DEF ServerKinds
  <2>. QED BY SMTT(30), <2>3, <2>4, <2>5, CommandType
<1>. HIDE DEF cmd
<1>3. d \in Servers /\ (d.state # "zombie" => GoesOn(server, d) /\ Following(d))
  <2>1. d \in Servers
    BY <1>2, StepFacts, SendIs
  <2>2. d.state # "zombie" => GoesOn(server, d) /\ Following(d)
    BY <1>2, StepFacts, SendGoesOn
  <2>. QED BY <2>1, <2>2
<1>4. Serve(d, <<>>)
  BY <1>1 DEF cmd
<1>. HIDE DEF d
<1>. QED BY <1>1, <1>3, <1>4, ServeNothing
-----------------------------------------------------------------------------
LEMMA MapSteps ==
  ASSUME TypeInv, TypeInv', StepInv, OwnAcks', server.state # "zombie", Map
  PROVE  StepInv'
<1>. DEFINE c == server
            a == Awaiting
            t == ToldChanging
            e == AllSent(t)
            r == ToldReconnect
            m == Message(t, <<>>)
            msgs == <<m>>
<1>1. UNCHANGED <<client, clInput, misled>>
  BY DEF Map
<1>2. /\ c \in Servers /\ GoodServer(c) /\ Filled(c) /\ Ordered(c)
      /\ Window(c) <= MAX_RELIABLE_COMMANDS /\ Following(c)
      /\ c.reliableSequence \in Nat /\ c.reliableSent \in Nat
  BY StepFacts, ServerFields
<1>3. /\ a \in Servers /\ GoodServer(a) /\ Filled(a) /\ Ordered(a) /\ a.state # "zombie"
      /\ a.reliableSequence = c.reliableSequence /\ a.reliableAcknowledge = c.reliableAcknowledge
      /\ a.reliableSent = c.reliableSent /\ GoesOn(c, a)
      /\ Window(a) <= MAX_RELIABLE_COMMANDS
  <2>1. /\ a \in Servers /\ GoodServer(a) /\ a.state # "zombie"
        /\ a.reliableSequence = c.reliableSequence /\ a.reliableAcknowledge = c.reliableAcknowledge
        /\ a.reliableSent = c.reliableSent /\ a.reliableCommands = c.reliableCommands
        /\ a.numbering = c.numbering
    BY AwaitingIs
  <2>. HIDE DEF a
  <2>2. GoesOn(c, a)
    BY <1>2, <2>1, GoesOnSame
  <2>. QED BY <2>1, <2>2 DEF GoodServer, GoesOn
<1>4. /\ Plain("changing") \in Commands(ServerKinds) /\ Plain("reconnect") \in Commands(ServerKinds)
      /\ Plain("changing").kind = "changing" /\ Plain("reconnect").kind = "reconnect"
  BY PlainType DEF ServerKinds
<1>5. /\ t = SendServerCommand(a, Plain("changing")) /\ t \in Servers /\ GoodServer(t)
      /\ r = SendServerCommand(e, Plain("reconnect")) /\ r \in Servers /\ GoodServer(r)
      /\ e \in Servers /\ GoodServer(e)
  BY MapRecords, AllSentIs DEF ToldChanging, ToldReconnect
<1>6. IF t.state = "zombie" THEN Serve(t, <<>>) ELSE Serve(r, msgs)
  BY MapServes
<1>. HIDE DEF a, t, r
<1>7. CASE t.state = "zombie"
  <2>1. Serve(t, <<>>) /\ <<>> \in Seq(ToClient)
    BY <1>6, <1>7
  <2>. QED BY <1>1, <1>5, <1>7, <2>1, ServeSteps
<1>8. CASE t.state # "zombie"
  <2>1. /\ GoesOn(a, t) /\ t.reliableAcknowledge = c.reliableAcknowledge
        /\ t.reliableSequence = c.reliableSequence + 1 /\ t.reliableSent = c.reliableSent
    BY <1>3, <1>4, <1>5, <1>8, SendGoesOn
  <2>2. GoesOn(c, t) /\ Window(t) <= MAX_RELIABLE_COMMANDS
    BY <1>2, <1>3, <1>5, <2>1, GoesOnTrans DEF GoesOn
  <2>3. /\ e.state = t.state /\ e.reliableSequence = t.reliableSequence
        /\ e.reliableAcknowledge = t.reliableAcknowledge /\ e.reliableSent = t.reliableSequence
        /\ e.reliableCommands = t.reliableCommands /\ e.numbering = t.numbering
    BY <1>5, AllSentIs
  <2>. HIDE DEF e
  <2>4. GoesOn(t, e) /\ Window(e) <= MAX_RELIABLE_COMMANDS /\ Filled(e) /\ Ordered(e) /\ Ordered(t) /\ Filled(t)
    <3>1. t.reliableSent <= e.reliableSent
      BY <1>5, <2>3 DEF GoodServer, Ordered
    <3>2. GoesOn(t, e)
      BY <1>5, <2>2, <2>3, <3>1, GoesOnSame
    <3>. QED BY <1>5, <3>2 DEF GoesOn, GoodServer
  <2>5. m \in ToClient
    <3>1. <<>> \in Seq(Commands(ServerKinds \cup DataKinds))
      OBVIOUS
    <3>. QED BY <1>5, <2>4, <3>1, MessageIs
  <2>6. Serve(r, msgs)
    BY <1>6, <1>8
  <2>7. ASSUME r.state # "zombie"
        PROVE  /\ GoesOn(c, r) /\ Following(r)
               /\ \E n \in c.reliableSequence + 1 .. r.reliableSequence :
                    r.reliableCommands[Slot(n)].kind = "reconnect"
               /\ Says(r, m.items)
    <3>1. /\ GoesOn(e, r) /\ r.reliableAcknowledge = e.reliableAcknowledge
          /\ r.reliableSent = e.reliableSent /\ r.reliableSequence = e.reliableSequence + 1
          /\ r.reliableCommands[Slot(r.reliableSequence)].kind = "reconnect"
      BY <1>4, <1>5, <1>8, <2>3, <2>4, <2>7, SendGoesOn
    <3>2. GoesOn(t, r)
      BY <1>5, <2>4, <3>1, GoesOnTrans
    <3>3. GoesOn(c, r)
      BY <1>2, <1>5, <2>2, <3>2, GoesOnTrans
    <3>4. Following(r)
      BY <1>2, <1>5, <2>1, <2>2, <2>3, <3>1, TellFollowing
    <3>5. Says(r, m.items)
      <4>1. t.reliableSequence <= r.reliableSent /\ r.reliableAcknowledge = t.reliableAcknowledge
        BY <1>2, <2>1, <2>3, <3>1
      <4>2. <<>> \in Seq(Commands(ServerKinds \cup DataKinds)) /\ Len(<<>>) <= 1 /\ 1 .. Len(<<>>) = {}
        OBVIOUS
      <4>. QED BY <1>5, <2>4, <3>2, <4>1, <4>2, MessageSays
    <3>6. r.reliableSequence \in c.reliableSequence + 1 .. r.reliableSequence
      BY <1>2, <2>1, <2>3, <3>1
    <3>. QED BY <3>1, <3>3, <3>4, <3>5, <3>6
  <2>. HIDE DEF m
  <2>8. msgs \in Seq(ToClient) /\ \A i \in 1 .. Len(msgs) : msgs[i] = m
    BY <2>5
  <2>. HIDE DEF msgs
  <2>. QED BY <1>1, <1>5, <2>6, <2>7, <2>8, ServeSteps
<1>. QED BY <1>7, <1>8

LEMMA ServerReceiveSteps ==
  ASSUME TypeInv, TypeInv', StepInv, OwnAcks', server.state # "zombie", ServerReceive
  PROVE  StepInv'
<1>1. /\ UNCHANGED <<client, clInput, level, toClient>> /\ misled \subseteq misled'
      /\ \/ server' = server
         \/ /\ server' = [server EXCEPT !.reliableAcknowledge = Head(toServer).ack]
            /\ Acknowledges(server, Head(toServer).ack)
  BY DEF ServerReceive, world
<1>2. /\ server \in Servers /\ Ordered(server) /\ Window(server) <= MAX_RELIABLE_COMMANDS /\ Following(server)
      /\ server.reliableSequence \in Nat /\ server.reliableAcknowledge \in Nat
  BY StepFacts, ServerFields
<1>3. CASE server' = server
  BY <1>1, <1>3 DEF StepInv, NumberInv, ParsedInv, SentInv, Recalls, Recalled, InStep, Misled, Current
<1>4. CASE server' = [server EXCEPT !.reliableAcknowledge = Head(toServer).ack]
           /\ Acknowledges(server, Head(toServer).ack)
  <2>. DEFINE n == Head(toServer).ack
              a == server.reliableAcknowledge
  <2>1. n \in a .. server.reliableSent
    BY <1>4 DEF Acknowledges
  <2>2. /\ server'.reliableAcknowledge = n /\ server'.reliableSequence = server.reliableSequence
        /\ server'.reliableSent = server.reliableSent /\ server'.numbering = server.numbering
        /\ server'.reliableCommands = server.reliableCommands /\ server'.state = server.state
    BY <1>2, <1>4 DEF Servers
  <2>. HIDE DEF n
  <2>3. n \in Int /\ a <= n
    BY <1>2, <2>1, ServerFields
  <2>4. Window(server') <= MAX_RELIABLE_COMMANDS
    BY <1>2, <2>2, <2>3, ServerFields DEF Window
  <2>5. \A k \in n + 1 .. server.reliableSequence : k \in a + 1 .. server.reliableSequence
    BY <1>2, <2>3
  <2>6. Following(server')
    BY <1>2, <2>2, <2>5 DEF Following
  <2>7. server.reliableSent <= server'.reliableSent /\ server.reliableSequence <= server'.reliableSequence
    BY <1>2, <2>2, ServerFields
  <2>8. GoesOn(server, server')
    BY <2>2, <2>3, <2>4, <2>7 DEF GoesOn
  <2>9. <<>> \in Seq(ToClient) /\ toClient' = toClient \o <<>> /\ 1 .. Len(<<>>) = {}
    BY <1>1, StepTypes
  <2>. QED BY <1>1, <2>2, <2>6, <2>8, <2>9, GoesOnSteps
<1>. QED BY <1>1, <1>3, <1>4

LEMMA ServerSkipsSteps ==
  ASSUME TypeInv, StepInv, ServerSkips
  PROVE  StepInv'
BY DEF ServerSkips, world, StepInv, NumberInv, ParsedInv, SentInv, Recalls, Recalled, InStep, Misled, Current

LEMMA NotedGoesOn ==
  ASSUME TypeInv, StepInv, server.state # "zombie", svInput # <<>>
  PROVE  /\ Noted \in Servers /\ GoodServer(Noted) /\ Filled(Noted) /\ Ordered(Noted)
         /\ Noted.state = server.state
         /\ GoesOn(server, Noted) /\ Following(Noted) /\ Window(Noted) <= MAX_RELIABLE_COMMANDS
<1>1. /\ Noted \in Servers /\ GoodServer(Noted)
      /\ Noted.state = server.state /\ Noted.reliableSequence = server.reliableSequence
      /\ Noted.reliableAcknowledge = server.reliableAcknowledge /\ Noted.reliableSent = server.reliableSent
      /\ Noted.reliableCommands = server.reliableCommands /\ Noted.numbering = server.numbering
  BY NotedIs
<1>2. /\ server \in Servers /\ Window(server) <= MAX_RELIABLE_COMMANDS /\ Following(server)
      /\ server.reliableSent <= Noted.reliableSent
  BY <1>1, StepFacts, ServerFields
<1>3. GoesOn(server, Noted) /\ Following(Noted)
  BY <1>1, <1>2, GoesOnSame
<1>. QED BY <1>1, <1>3 DEF GoodServer, GoesOn

LEMMA NewSteps ==
  ASSUME TypeInv, TypeInv', StepInv, OwnAcks', server.state # "zombie", svInput # <<>>, New(Noted),
         UNCHANGED <<client, clInput, level, misled>>
  PROVE  StepInv'
<1>1. CASE Noted.state = "spawned"
  <2>1. Serve(Noted, <<>>)
    BY <1>1 DEF New
  <2>. QED BY <2>1, NotedGoesOn, ServeNothing
<1>2. CASE Noted.state # "spawned"
  <2>. DEFINE d == [ResetCommandBuffers(Noted) EXCEPT !.state = "connecting"]
              m == ServerData(Noted)
              msgs == <<m>>
  <2>1. Noted \in Servers /\ Noted.numbering = server.numbering
    BY NotedIs
  <2>2. /\ d \in Servers /\ GoodServer(d) /\ d.state = "connecting" /\ d.numbering = server.numbering + 1
        /\ d.reliableSequence = 0 /\ d.reliableAcknowledge = 0 /\ d.reliableSent = 0
    BY <2>1, ResetIs
  <2>3. Serve(d, msgs)
    <3>. HIDE DEF d
    <3>1. Serve(d, <<[ack |-> Noted.clientCommandExecuted,
                      items |-> <<Command("serverdata", level, d.numbering, <<>>)>>]>>)
      BY <1>2 DEF New, d
    <3>. QED BY <2>1, <2>2, <3>1 DEF ServerData
  <2>. HIDE DEF d
  <2>4. /\ m \in ToClient /\ Len(m.items) = 1
        /\ m.items[1].kind = "serverdata" /\ m.items[1].level = level
        /\ m.items[1].arg = server.numbering + 1
    BY <2>1, ServerDataIs
  <2>. HIDE DEF m
  <2>5. server' = d /\ toClient' = toClient \o msgs
    <3>1. server' = d /\ toClient' = toClient \o msgs \o <<>>
      BY <2>2, <2>3 DEF Serve
    <3>2. msgs \in Seq(ToClient)
      BY <2>4
    <3>. DEFINE s == toClient \o msgs
    <3>3. s \in Seq(ToClient)
      BY <3>2, StepTypes, ConcatFacts
    <3>4. toClient' = s \o <<>>
      BY <3>1
    <3>. HIDE DEF s
    <3>5. s \o <<>> = s
      BY <3>3
    <3>. QED BY <3>1, <3>4, <3>5 DEF s
  <2>. QED BY <2>2, <2>4, <2>5, RenumberSteps
<1>. QED BY <1>1, <1>2

LEMMA ConfigstringsLoopSteps ==
  ASSUME TypeInv, TypeInv', StepInv, OwnAcks', server.state # "zombie", ConfigstringsLoop
  PROVE  StepInv'
<1>. DEFINE cmd == Cs(Head(svInput).arg)
            d == SendServerCommand(Looping, cmd)
<1>1. /\ Looping \in Servers /\ GoodServer(Looping) /\ Looping.state = "connected"
      /\ Looping.reliableSequence = server.reliableSequence
      /\ Looping.reliableAcknowledge = server.reliableAcknowledge
      /\ Looping.reliableSent = server.reliableSent
      /\ Looping.reliableCommands = server.reliableCommands
      /\ Looping.numbering = server.numbering
      /\ Head(svInput).arg \in Index /\ Serve(d, <<>>)
  BY LoopIs
<1>2. /\ server \in Servers /\ Window(server) <= MAX_RELIABLE_COMMANDS /\ Following(server)
      /\ server.reliableSent <= Looping.reliableSent
  BY <1>1, StepFacts, ServerFields
<1>3. GoesOn(server, Looping) /\ Following(Looping)
  BY <1>1, <1>2, GoesOnSame
<1>4. Window(Looping) <= MAX_RELIABLE_COMMANDS /\ Filled(Looping) /\ Ordered(Looping)
  BY <1>1, <1>3 DEF GoesOn, GoodServer
<1>5. cmd \in Commands(ServerKinds) /\ cmd.kind = "cs"
  BY <1>1, CsIs
<1>. HIDE DEF cmd
<1>6. d \in Servers /\ (d.state # "zombie" => GoesOn(Looping, d) /\ Following(d))
  <2>1. d \in Servers
    BY <1>1, <1>4, <1>5, SendIs
  <2>2. d.state # "zombie" => GoesOn(Looping, d) /\ Following(d)
    BY <1>1, <1>3, <1>4, <1>5, SendGoesOn
  <2>. QED BY <2>1, <2>2
<1>. HIDE DEF d
<1>7. d.state # "zombie" => GoesOn(server, d)
  BY <1>1, <1>2, <1>3, <1>6, GoesOnTrans
<1>8. UNCHANGED <<client, clInput, level, misled>>
  BY DEF ConfigstringsLoop, world
<1>. QED BY <1>1, <1>6, <1>7, <1>8, ServeNothing

LEMMA SV_Configstrings_fSteps ==
  ASSUME TypeInv, TypeInv', StepInv, OwnAcks', server.state # "zombie", SV_Configstrings_f
  PROVE  StepInv'
<1>. DEFINE c == ConfigStart
            d == Configured
<1>1. /\ svInput # <<>>
      /\ c \in Servers /\ GoodServer(c) /\ c.state = StartsConnected
      /\ c.reliableSequence = server.reliableSequence
      /\ c.reliableAcknowledge = server.reliableAcknowledge
      /\ c.reliableSent = server.reliableSent
      /\ c.reliableCommands = server.reliableCommands
      /\ c.numbering = server.numbering
      /\ Serve(d, <<>>) /\ d \in Servers /\ GoodServer(d)
  BY ConfigstringsIs
<1>2. /\ server \in Servers /\ Window(server) <= MAX_RELIABLE_COMMANDS /\ Following(server)
      /\ server.reliableSent <= c.reliableSent
  BY <1>1, StepFacts, ServerFields
<1>3. d = IF c.state # "connected" THEN c ELSE SendServerCommand(c, Asked)
  BY DEF Configured
<1>4. Asked \in Commands(ServerKinds) /\ Asked.kind # "changing"
  BY <1>1, AskedIs
<1>. HIDE DEF c, d
<1>5. GoesOn(server, c) /\ Following(c)
  BY <1>1, <1>2, GoesOnSame
<1>6. Window(c) <= MAX_RELIABLE_COMMANDS /\ Filled(c) /\ Ordered(c)
  BY <1>1, <1>5 DEF GoesOn, GoodServer
<1>7. UNCHANGED <<client, clInput, level, misled>>
  BY DEF SV_Configstrings_f, Handled, world
<1>8. CASE c.state # "connected"
  BY <1>1, <1>3, <1>5, <1>7, <1>8, ServeNothing
<1>9. CASE c.state = "connected"
  <2>1. d.state # "zombie" => GoesOn(c, d) /\ Following(d)
    BY <1>1, <1>3, <1>4, <1>5, <1>6, <1>9, SendGoesOn
  <2>2. d.state # "zombie" => GoesOn(server, d)
    BY <1>1, <1>2, <1>5, <2>1, GoesOnTrans
  <2>. QED BY <1>1, <1>7, <2>1, <2>2, ServeNothing
<1>. QED BY <1>8, <1>9

LEMMA SV_Baselines_fSteps ==
  ASSUME TypeInv, TypeInv', StepInv, OwnAcks', server.state # "zombie", SV_Baselines_f
  PROVE  StepInv'
<1>0. svInput # <<>> /\ UNCHANGED <<client, clInput, level, misled>>
  BY DEF SV_Baselines_f, Taking, Handled, world
<1>1. /\ Noted \in Servers /\ GoodServer(Noted) /\ Filled(Noted) /\ Ordered(Noted)
      /\ Noted.state = server.state /\ server \in Servers
      /\ GoesOn(server, Noted) /\ Following(Noted) /\ Window(Noted) <= MAX_RELIABLE_COMMANDS
  BY <1>0, NotedGoesOn, StepFacts
<1>2. CASE Noted.state # "connected"
  <2>1. Serve(Noted, <<>>)
    BY <1>2 DEF SV_Baselines_f
  <2>. QED BY <1>0, <1>1, <2>1, ServeNothing
<1>3. CASE Noted.state = "connected" /\ Head(svInput).level # level
  <2>1. New(Noted)
    BY <1>3 DEF SV_Baselines_f
  <2>. QED BY <1>0, <2>1, NewSteps
<1>4. CASE Noted.state = "connected" /\ Head(svInput).level = level
  <2>. DEFINE cmd == Command("precache", level, 0, <<>>)
              c == Baselined
              e == AllSent(c)
              m == Message(c, <<>>)
              msgs == <<m>>
  <2>1. Serve(e, msgs)
    BY <1>4 DEF SV_Baselines_f, Baselined
  <2>2. cmd \in Commands(ServerKinds) /\ cmd.kind = "precache"
    <3>1. level \in Nat /\ <<>> \in Seq(Strings) /\ "precache" \in ServerKinds
      BY StepTypes DEF ServerKinds
    <3>. QED BY <3>1 DEF Command, Commands
  <2>. HIDE DEF cmd
  <2>3. c \in Servers /\ GoodServer(c) /\ e \in Servers /\ GoodServer(e) /\ Filled(c) /\ Ordered(c)
    BY <1>0, BaselinedIs DEF GoodServer
  <2>4. c = SendServerCommand(Noted, cmd)
    BY DEF Baselined, cmd
  <2>. HIDE DEF c
  <2>5. /\ e.state = c.state /\ e.reliableSequence = c.reliableSequence
        /\ e.reliableAcknowledge = c.reliableAcknowledge /\ e.reliableSent = c.reliableSequence
        /\ e.reliableCommands = c.reliableCommands /\ e.numbering = c.numbering
    BY <2>3, AllSentIs
  <2>6. m \in ToClient
    <3>1. <<>> \in Seq(Commands(ServerKinds \cup DataKinds))
      OBVIOUS
    <3>. QED BY <2>3, <3>1, MessageIs
  <2>. HIDE DEF e
  <2>7. ASSUME e.state # "zombie"
        PROVE  GoesOn(server, e) /\ Following(e) /\ Says(e, m.items)
    <3>1. GoesOn(Noted, c) /\ Following(c) /\ Window(c) <= MAX_RELIABLE_COMMANDS
      <4>1. GoesOn(Noted, c) /\ Following(c)
        BY <1>1, <1>4, <2>2, <2>4, <2>5, <2>7, SendGoesOn
      <4>. QED BY <4>1 DEF GoesOn
    <3>2. c.reliableSent <= e.reliableSent
      BY <2>3, <2>5 DEF Ordered
    <3>3. GoesOn(c, e) /\ Following(e)
      BY <2>3, <2>5, <3>1, <3>2, GoesOnSame
    <3>4. GoesOn(server, c)
      BY <1>1, <2>3, <3>1, GoesOnTrans
    <3>5. GoesOn(server, e)
      BY <1>1, <2>3, <3>3, <3>4, GoesOnTrans
    <3>6. Says(e, m.items)
      <4>1. <<>> \in Seq(Commands(ServerKinds \cup DataKinds)) /\ Len(<<>>) <= 1 /\ 1 .. Len(<<>>) = {}
        OBVIOUS
      <4>2. c.reliableSequence <= e.reliableSent
        BY <2>3, <2>5, ServerFields
      <4>. QED BY <2>3, <2>5, <3>3, <4>1, <4>2, MessageSays
    <3>. QED BY <3>3, <3>5, <3>6
  <2>. HIDE DEF m
  <2>8. msgs \in Seq(ToClient) /\ \A i \in 1 .. Len(msgs) : msgs[i] = m
    BY <2>6
  <2>. HIDE DEF msgs
  <2>. QED BY <1>0, <2>1, <2>3, <2>7, <2>8, ServeSteps
<1>. QED BY <1>2, <1>3, <1>4

LEMMA SV_Begin_fSteps ==
  ASSUME TypeInv, TypeInv', StepInv, OwnAcks', server.state # "zombie", SV_Begin_f
  PROVE  StepInv'
<1>0. svInput # <<>> /\ UNCHANGED <<client, clInput, level, misled>> /\ Serve(Began, <<>>)
  BY DEF SV_Begin_f, Taking, Handled, world, Began, ToldAgain
<1>1. /\ Noted \in Servers /\ GoodServer(Noted) /\ Filled(Noted) /\ Ordered(Noted)
      /\ Noted.state = server.state /\ server \in Servers /\ Noted.reliableSequence \in Nat
      /\ GoesOn(server, Noted) /\ Following(Noted) /\ Window(Noted) <= MAX_RELIABLE_COMMANDS
  BY <1>0, NotedGoesOn, StepFacts, ServerFields
<1>2. Began \in Servers /\ GoodServer(Began)
  BY <1>0, BeganIs
<1>3. ASSUME Began.state # "zombie" PROVE GoesOn(Noted, Began) /\ Following(Began)
  <2>1. CASE Noted.state # "connected"
    <3>1. Began = Dropped(Noted)
      BY <2>1 DEF Began
    <3>. QED BY <1>1, <1>3, <3>1, DroppedIs DEF Drops
  <2>2. CASE Noted.state = "connected" /\ Head(svInput).level # level
    <3>. DEFINE c == SendServerCommand(Noted, Plain("changing"))
    <3>1. Plain("changing") \in Commands(ServerKinds) /\ Plain("reconnect") \in Commands(ServerKinds)
          /\ Plain("changing").kind = "changing" /\ Plain("reconnect").kind = "reconnect"
      BY PlainType DEF ServerKinds
    <3>2. c \in Servers /\ GoodServer(c) /\ Filled(c) /\ Ordered(c)
      BY <1>0, BeganIs DEF GoodServer
    <3>3. Began = SendServerCommand(c, Plain("reconnect"))
      BY <2>2 DEF Began, ToldAgain
    <3>4. c.state # "zombie"
      BY <1>3, <3>3 DEF SendServerCommand
    <3>5. /\ GoesOn(Noted, c) /\ c.reliableAcknowledge = Noted.reliableAcknowledge
          /\ c.reliableSequence = Noted.reliableSequence + 1
      BY <1>1, <2>2, <3>1, <3>4, SendGoesOn
    <3>. HIDE DEF c
    <3>6. Window(c) <= MAX_RELIABLE_COMMANDS
      BY <3>5 DEF GoesOn
    <3>7. /\ GoesOn(c, Began) /\ Began.reliableAcknowledge = c.reliableAcknowledge
          /\ Began.reliableSequence = c.reliableSequence + 1
          /\ Began.reliableCommands[Slot(Began.reliableSequence)].kind = "reconnect"
      BY <1>3, <3>1, <3>2, <3>3, <3>4, <3>6, SendGoesOn
    <3>8. Following(Began)
      BY <1>1, <1>2, <3>2, <3>5, <3>7, TellFollowing
    <3>. QED BY <1>1, <1>2, <3>2, <3>5, <3>7, <3>8, GoesOnTrans
  <2>3. CASE Noted.state = "connected" /\ Head(svInput).level = level
    <3>1. Began = [Noted EXCEPT !.state = "spawned"]
      BY <2>3 DEF Began
    <3>2. /\ Began.reliableSequence = Noted.reliableSequence
          /\ Began.reliableAcknowledge = Noted.reliableAcknowledge /\ Began.reliableSent = Noted.reliableSent
          /\ Began.reliableCommands = Noted.reliableCommands /\ Began.numbering = Noted.numbering
      BY <1>1, <3>1, StateIs
    <3>3. Noted.reliableSent <= Began.reliableSent
      BY <1>1, <3>2, ServerFields
    <3>. QED BY <1>1, <1>2, <3>2, <3>3, GoesOnSame
  <2>. QED BY <2>1, <2>2, <2>3
<1>4. Began.state # "zombie" => GoesOn(server, Began) /\ Following(Began)
  BY <1>1, <1>2, <1>3, GoesOnTrans
<1>. QED BY <1>0, <1>2, <1>4, ServeNothing

LEMMA DroppingSteps ==
  ASSUME TypeInv, TypeInv', StepInv, OwnAcks', server.state # "zombie", SV_Disconnect_f \/ ServerTimeout
  PROVE  StepInv'
<1>1. CASE SV_Disconnect_f
  <2>1. Serve(Dropped(Noted), <<>>) /\ svInput # <<>>
    BY <1>1 DEF SV_Disconnect_f, Taking
  <2>2. Dropped(Noted).state = "zombie"
    BY <2>1, NotedGoesOn, DroppedIs DEF Drops
  <2>. QED BY <2>1, <2>2 DEF Serve, StepInv
<1>2. CASE ServerTimeout
  <2>1. Serve(Dropped(server), <<>>)
    BY <1>2 DEF ServerTimeout
  <2>2. Dropped(server).state = "zombie"
    BY StepFacts, DroppedIs DEF Drops
  <2>. QED BY <2>1, <2>2 DEF Serve, StepInv
<1>. QED BY <1>1, <1>2

LEMMA ClientCommandSteps ==
  ASSUME TypeInv, TypeInv', StepInv, OwnAcks', server.state # "zombie", ClientCommand
  PROVE  StepInv'
<1>1. svInput # <<>> /\ Serve(Noted, <<>>) /\ UNCHANGED <<client, clInput, level, misled>>
  BY DEF ClientCommand, Taking, Handled, world
<1>. QED BY <1>1, NotedGoesOn, ServeNothing

\* A client that was dropped stays so.
LEMMA ZombieStays ==
  ASSUME TypeInv, LevelInv, server.state = "zombie",
         SendClientMessages \/ ConfigString \/ Map \/ ServerReceive \/ ServerParse \/ ServerTimeout
  PROVE  server'.state = "zombie"
<1>1. CASE SendClientMessages \/ ServerTimeout
  BY <1>1 DEF SendClientMessages, ServerTimeout, ServerListens
<1>2. CASE ConfigString
  <2>1. PICK i \in Index, size \in Sizes : Serve(SendServerCommand(server, Cs(i)'), <<>>)
    BY <1>2 DEF ConfigString
  <2>. QED BY <2>1 DEF Serve, SendServerCommand
<1>3. CASE Map
  <2>1. ToldChanging.state = "zombie"
    BY DEF ToldChanging, Awaiting, SendServerCommand
  <2>. QED BY <1>3, <2>1, MapServes DEF Serve
<1>4. CASE ServerReceive
  BY <1>4 DEF ServerReceive
<1>5. CASE ServerSkips
  BY <1>5 DEF ServerSkips
<1>6. CASE ConfigstringsLoop
  BY <1>6 DEF ConfigstringsLoop, InLoop, StartsConnected
<1>7. CASE SV_Configstrings_f
  <2>1. Serve(Configured, <<>>) /\ ConfigStart.state = StartsConnected
    BY <1>7, ConfigstringsIs
  <2>2. Configured.state = "zombie"
    BY <2>1 DEF Configured, StartsConnected
  <2>. QED BY <2>1, <2>2 DEF Serve
<1>8. CASE SV_New_f \/ SV_Baselines_f \/ SV_Begin_f \/ SV_Disconnect_f \/ ClientCommand
  <2>1. PICK kind \in {"new", "baselines", "begin", "disconnect", "typed"} : Taking(kind)
    BY <1>8 DEF SV_New_f, SV_Baselines_f, SV_Begin_f, SV_Disconnect_f, ClientCommand
  <2>. QED BY <2>1, TakingAlive
<1>. QED BY <1>1, <1>2, <1>3, <1>4, <1>5, <1>6, <1>7, <1>8 DEF ServerParse

LEMMA ServerSteps ==
  ASSUME TypeInv, TypeInv', LevelInv, StepInv, OwnAcks',
         SendClientMessages \/ ConfigString \/ Map \/ ServerReceive \/ ServerParse \/ ServerTimeout
  PROVE  StepInv'
<1>1. CASE server.state = "zombie"
  BY <1>1, ZombieStays DEF StepInv
<1>2. CASE server.state # "zombie"
  <2>1. CASE SV_New_f
    <3>1. svInput # <<>> /\ New(Noted) /\ UNCHANGED <<client, clInput, level, misled>>
      BY <2>1 DEF SV_New_f, Taking, Handled, world
    <3>. QED BY <1>2, <3>1, NewSteps
  <2>. QED BY <1>2, <2>1, SendClientMessagesSteps, ConfigStringSteps, MapSteps, ServerReceiveSteps,
              ServerSkipsSteps, ConfigstringsLoopSteps, SV_Configstrings_fSteps, SV_Baselines_fSteps,
              SV_Begin_fSteps, DroppingSteps, ClientCommandSteps DEF ServerParse
<1>. QED BY <1>1, <1>2
-----------------------------------------------------------------------------
(* In step: what the client parses *)

\* A step of the client that takes nothing from the channel.
LEMMA ClientGoesOn ==
  ASSUME StepInv, server.state # "zombie", UNCHANGED <<server, level, misled, toClient>>,
         NumberInv', ParsedInv', Recalls', \A i \in 1 .. Len(toClient) : Current(i)' => Current(i)
  PROVE  StepInv'
<1>1. ASSUME NEW i \in 1 .. Len(toClient) PROVE SentInv(i)'
  <2>1. SentInv(i)
    BY DEF StepInv
  <2>2. Current(i)' => Current(i)
    OBVIOUS
  <2>. QED BY <2>1, <2>2 DEF SentInv, Recalled
<1>. QED BY <1>1 DEF StepInv

\* A step of the client that parses nothing, and enters no level.
LEMMA StandsSteps ==
  ASSUME StepInv, OwnAcks, UNCHANGED <<server, level, misled, toClient, clInput>>,
         client'.numbering = client.numbering,
         client'.lastExecutedServerCommand = client.lastExecutedServerCommand,
         client'.servercount = client.servercount,
         client'.state \in {"connected", "active"} => client.state \in {"connected", "active"},
         client'.state # "disconnected" => client.state # "disconnected"
  PROVE  StepInv' /\ OwnAcks'
<1>0. OwnAcks'
  BY DEF OwnAcks, InStep, Misled
<1>1. CASE server.state = "zombie"
  BY <1>0, <1>1 DEF StepInv
<1>2. CASE server.state # "zombie"
  <2>1. NumberInv' /\ ParsedInv' /\ Recalls'
    BY <1>2 DEF StepInv, NumberInv, ParsedInv, Recalls, Recalled, InStep, Misled
  <2>2. \A i \in 1 .. Len(toClient) : Current(i)' => Current(i)
    BY DEF Current, InStep
  <2>. QED BY <1>0, <1>2, <2>1, <2>2, ClientGoesOn
<1>. QED BY <1>1, <1>2

\* A message that is abandoned, by a client that leaves or has no use for it.
LEMMA AbandonsSteps ==
  ASSUME TypeInv, StepInv, OwnAcks, UNCHANGED <<server, level, misled, toClient>>, clInput' = <<>>,
         client'.numbering = client.numbering,
         \/ client'.lastExecutedServerCommand = 0 /\ client'.state = "disconnected"
         \/ client' = client
  PROVE  StepInv' /\ OwnAcks'
<1>0. OwnAcks'
  BY DEF OwnAcks, InStep, Misled
<1>1. CASE server.state = "zombie"
  BY <1>0, <1>1 DEF StepInv
<1>2. CASE server.state # "zombie"
  <2>1. NumberInv'
    BY <1>2 DEF StepInv, NumberInv, NumbersWithin, NumbersOrdered
  <2>2. ParsedInv'
    <3>1. 0 <= server.reliableSent
      BY StepTypes, ServerFields
    <3>2. Consecutive(clInput') /\ Recalled(clInput)' /\ AsStored(server', clInput')
          /\ Follows(clInput', client'.lastExecutedServerCommand)
      BY DEF Consecutive, Recalled, Announces, AsStored, Follows
    <3>3. InStep' => client'.lastExecutedServerCommand <= server.reliableSent
      BY <1>2, <3>1 DEF StepInv, ParsedInv, InStep
    <3>. QED BY <3>2, <3>3 DEF ParsedInv
  <2>3. Recalls'
    BY <1>2 DEF StepInv, Recalls, InStep, Misled
  <2>4. \A i \in 1 .. Len(toClient) : Current(i)' => Current(i)
    BY DEF Current, InStep, Announces
  <2>. QED BY <1>0, <1>2, <2>1, <2>2, <2>3, <2>4, ClientGoesOn
<1>. QED BY <1>1, <1>2

\* An item that is parsed, other than serverdata; e is the last command executed after it.
LEMMA ItemSteps ==
  ASSUME TypeInv, StepInv, OwnAcks, server.state # "zombie", UNCHANGED <<server, level, misled, toClient>>,
         clInput # <<>>, clInput' = Tail(clInput), Head(clInput).kind # "serverdata",
         client'.numbering = client.numbering, Recalls',
         NEW e \in Nat, client'.lastExecutedServerCommand = e, client.lastExecutedServerCommand <= e,
         client'.state # "disconnected" => client.state # "disconnected",
         \/ IsData(Head(clInput)) /\ e = client.lastExecutedServerCommand
         \/ ~IsData(Head(clInput)) /\ Head(clInput).num <= e
            /\ e \in {client.lastExecutedServerCommand, Head(clInput).num}
  PROVE  StepInv' /\ OwnAcks'
<1>. DEFINE x == Head(clInput)
            t == Tail(clInput)
            n == Len(clInput)
            K == Commands(ServerKinds \cup DataKinds)
<1>1. /\ clInput \in Seq(K) /\ t \in Seq(K) /\ Len(t) = n - 1 /\ n \in Nat \ {0} /\ x = clInput[1]
      /\ \A i \in 1 .. n - 1 : t[i] = clInput[i + 1]
  BY StepTypes, TailFacts
<1>2. clInput' = t /\ x.kind # "serverdata" /\ x.num \in Nat
  BY HereType
<1>3. NumberInv /\ ParsedInv
  BY DEF StepInv
<1>. HIDE DEF x, t, n, K
<1>4. \A i \in 1 .. n - 1 : i + 1 \in 1 .. n /\ i \in 1 .. n
  BY <1>1
<1>5. \A j \in 1 .. n : clInput[j].kind # "serverdata"
  <2>. SUFFICES ASSUME NEW j \in 1 .. n, clInput[j].kind = "serverdata" PROVE FALSE
    OBVIOUS
  <2>1. n = 1
    BY <1>3 DEF NumberInv, NumbersWithin, n
  <2>2. j = 1
    BY <2>1
  <2>. QED BY <1>1, <1>2, <2>2
<1>6. \A j \in 1 .. Len(t) : t[j].kind # "serverdata"
  BY <1>1, <1>4, <1>5
<1>7. NumberInv'
  BY <1>2, <1>3, <1>6 DEF NumberInv, NumbersWithin, NumbersOrdered
<1>8. ~Announces(t, server.numbering)
  BY <1>1, <1>6, SilentIs DEF K
<1>9. \A i \in 1 .. Len(toClient) : Current(i)' => Current(i)
  BY <1>2, <1>8 DEF Current, InStep
<1>10. Consecutive(t)
  <2>1. Consecutive(clInput)
    BY <1>3 DEF ParsedInv
  <2>. SUFFICES ASSUME NEW j \in 1 .. Len(t) - 1
                PROVE  ~IsData(t[j]) /\ (~IsData(t[j + 1]) => t[j + 1].num = t[j].num + 1)
    BY DEF Consecutive
  <2>2. /\ j \in 1 .. n - 1 /\ j + 1 \in 1 .. n - 1
    BY <1>1
  <2>3. t[j] = clInput[j + 1] /\ t[j + 1] = clInput[(j + 1) + 1]
    BY <1>1, <2>2
  <2>. QED BY <2>1, <2>2, <2>3 DEF Consecutive, n
<1>0. OwnAcks'
  <2>1. server.reliableAcknowledge \in Nat /\ client.lastExecutedServerCommand \in Nat
    BY StepTypes, ServerFields
  <2>2. server.reliableAcknowledge <= client.lastExecutedServerCommand => server.reliableAcknowledge <= e
    BY <2>1
  <2>. QED BY <2>2 DEF OwnAcks, InStep, Misled
<1>11. ASSUME InStep
       PROVE  AsStored(server, t) /\ Follows(t, e) /\ e <= server.reliableSent
  <2>1. /\ AsStored(server, clInput)
        /\ client.lastExecutedServerCommand <= server.reliableSent /\ Consecutive(clInput)
    BY <1>3, <1>11 DEF ParsedInv
  <2>2. AsStored(server, t)
    <3>. DEFINE Stored(y) == ~IsData(y) =>
                  /\ y.num <= server.reliableSent
                  /\ server.reliableAcknowledge < y.num =>
                       y.kind = server.reliableCommands[Slot(y.num)].kind
    <3>1. \A j \in 1 .. n : Stored(clInput[j])
      BY <2>1 DEF AsStored, n
    <3>2. Len(t) = n - 1 /\ \A j \in 1 .. n - 1 : j + 1 \in 1 .. n /\ t[j] = clInput[j + 1]
      BY <1>1, <1>4
    <3>. HIDE DEF Stored
    <3>3. \A j \in 1 .. n - 1 : Stored(t[j])
      BY <3>1, <3>2
    <3>. QED BY <3>2, <3>3 DEF AsStored, Stored
  <2>3. 1 \in 1 .. n
    BY <1>1
  <2>4. e <= server.reliableSent
    <3>1. ~IsData(x) => x.num <= server.reliableSent
      BY <1>1, <2>1, <2>3 DEF AsStored, n
    <3>. QED BY <2>1, <3>1 DEF x
  <2>5. Follows(t, e)
    <3>. SUFFICES ASSUME Len(t) > 0, ~IsData(t[1]) PROVE t[1].num <= e + 1
      BY DEF Follows
    <3>1. 1 \in 1 .. n - 1 /\ t[1] = clInput[1 + 1]
      BY <1>1
    <3>2. ~IsData(clInput[1]) /\ clInput[1 + 1].num = clInput[1].num + 1
      BY <2>1, <3>1 DEF Consecutive, n
    <3>3. x.num <= e
      BY <1>1, <3>2 DEF x
    <3>. QED BY <1>1, <1>2, <3>1, <3>2, <3>3
  <2>. QED BY <2>2, <2>4, <2>5
<1>12. ParsedInv'
  <2>1. Recalled(clInput)'
    BY <1>2, <1>8 DEF Recalled
  <2>2. InStep' <=> InStep
    BY DEF InStep
  <2>. QED BY <1>2, <1>10, <1>11, <2>1, <2>2 DEF ParsedInv
<1>. QED BY <1>0, <1>7, <1>9, <1>12, ClientGoesOn

\* The command that a client in step executes is the next one, as the server has it.
LEMMA NextCommand ==
  ASSUME TypeInv, LevelInv, StepInv, OwnAcks, server.state # "zombie", InStep, ~Misled,
         clInput # <<>>, ~IsData(Head(clInput)), ~ExecutedHere(Head(clInput))
  PROVE  LET n == Head(clInput).num
         IN  /\ n = client.lastExecutedServerCommand + 1
             /\ server.reliableAcknowledge < n /\ n <= server.reliableSequence
             /\ server.reliableCommands[Slot(n)].kind = Head(clInput).kind
<1>. DEFINE x == Head(clInput)
            e == client.lastExecutedServerCommand
<1>1. /\ x = clInput[1] /\ Len(clInput) \in Nat \ {0} /\ x.num \in Nat /\ e \in Nat
  BY StepTypes, TailFacts, HereType
<1>2. /\ AsStored(server, clInput) /\ Follows(clInput, e)
  BY DEF StepInv, ParsedInv
<1>3. e < x.num
  <2>1. Numbered(x)
    BY DEF Numbered, IsData, DataKinds
  <2>. QED BY <1>1, <2>1 DEF ExecutedHere
<1>4. x.num <= e + 1
  BY <1>1, <1>2 DEF Follows
<1>5. x.num = e + 1
  BY <1>1, <1>3, <1>4
<1>6. server.reliableAcknowledge <= e
  <2>1. client.state # "disconnected"
    BY LifeLevels
  <2>. QED BY <2>1 DEF OwnAcks
<1>7. server.reliableAcknowledge \in Nat /\ server.reliableSequence \in Nat /\ server.reliableSent \in Nat
      /\ server.reliableSent <= server.reliableSequence
  BY StepTypes, ServerFields DEF Ordered
<1>8. server.reliableAcknowledge < x.num
  BY <1>1, <1>5, <1>6, <1>7
<1>9. x.num <= server.reliableSent /\ server.reliableCommands[Slot(x.num)].kind = x.kind
  <2>1. 1 \in 1 .. Len(clInput)
    BY <1>1
  <2>. QED BY <1>1, <1>2, <1>8, <2>1 DEF AsStored
<1>10. x.num <= server.reliableSequence
  BY <1>1, <1>7, <1>9
<1>. QED BY <1>5, <1>8, <1>9, <1>10

\* A command of the server that is executed.
LEMMA CommandSteps ==
  ASSUME TypeInv, LevelInv, StepInv, OwnAcks, server.state # "zombie", UNCHANGED <<server, level, misled, toClient>>,
         clInput # <<>>, clInput' = Tail(clInput),
         ~IsData(Head(clInput)), ~ExecutedHere(Head(clInput)),
         client'.numbering = client.numbering, client'.servercount = client.servercount,
         client'.lastExecutedServerCommand = Head(clInput).num,
         client'.state \in {"connected", "active"} =>
           \/ Head(clInput).kind = "changing"
           \/ client.state \in {"connected", "active"} /\ Head(clInput).kind # "reconnect"
  PROVE  StepInv' /\ OwnAcks'
<1>. DEFINE n == Head(clInput).num
            e == client.lastExecutedServerCommand
<1>1. n \in Nat /\ e \in Nat /\ server.reliableSequence \in Nat
  BY HereType, StepTypes, ServerFields
<1>2. Recalls'
  <2>. SUFFICES ASSUME client'.state \in {"connected", "active"}, client.servercount # level, InStep, ~Misled
                PROVE  Ahead(server, n)
    BY DEF Recalls, InStep, Misled
  <2>1. /\ n = e + 1 /\ server.reliableAcknowledge < n /\ n <= server.reliableSequence
        /\ server.reliableCommands[Slot(n)].kind = Head(clInput).kind
    BY NextCommand
  <2>2. CASE Head(clInput).kind = "changing"
    <3>1. n \in server.reliableAcknowledge + 1 .. server.reliableSequence
      <4>1. server.reliableAcknowledge \in Nat
        BY StepTypes, ServerFields
      <4>. HIDE DEF n
      <4>. QED BY <1>1, <2>1, <4>1
    <3>2. n + 1 <= server.reliableSequence /\ server.reliableCommands[Slot(n + 1)].kind = "reconnect"
      BY <2>1, <2>2, <3>1 DEF StepInv, Following
    <3>3. n + 1 \in n + 1 .. server.reliableSequence
      <4>. HIDE DEF n
      <4>. QED BY <1>1, <3>2
    <3>. QED BY <3>2, <3>3 DEF Ahead
  <2>3. CASE client.state \in {"connected", "active"} /\ Head(clInput).kind # "reconnect"
    <3>1. Ahead(server, e)
      BY <2>3 DEF StepInv, Recalls
    <3>2. PICK m \in e + 1 .. server.reliableSequence : server.reliableCommands[Slot(m)].kind = "reconnect"
      BY <3>1 DEF Ahead
    <3>3. m # n
      BY <2>1, <2>3, <3>2
    <3>. HIDE DEF n
    <3>4. m \in n + 1 .. server.reliableSequence
      BY <1>1, <2>1, <3>3
    <3>. QED BY <3>2, <3>4 DEF Ahead
  <2>. QED BY <2>2, <2>3
<1>3. Head(clInput).kind # "serverdata"
  BY DEF IsData, DataKinds
<1>4. e <= n
  <2>1. Numbered(Head(clInput))
    BY DEF Numbered, IsData, DataKinds
  <2>. QED BY <1>1, <2>1 DEF ExecutedHere
<1>5. client.state # "disconnected"
  BY LifeLevels
<1>. QED BY <1>1, <1>2, <1>3, <1>4, <1>5, ItemSteps
-----------------------------------------------------------------------------
(* In step: the client's actions *)

\* A client that goes on with k, when that parses nothing.
LEMMA BecomeSteps ==
  ASSUME TypeInv, StepInv, OwnAcks, UNCHANGED <<server, level, misled, toClient>>, NEW k \in Clients, Filled(k), Become(k),
         k.numbering = client.numbering,
         k.lastExecutedServerCommand = client.lastExecutedServerCommand,
         k.servercount = client.servercount, clInput = <<>>, clInput' = <<>>,
         k.state \in {client.state, "disconnected"}
  PROVE  StepInv' /\ OwnAcks'
<1>1. \/ /\ k.state = "disconnected" /\ client.state # "disconnected"
         /\ client' \in Clients /\ Cleared(k, "disconnected", client')
      \/ client' = k
  BY BecomeIs
<1>2. CASE Cleared(k, "disconnected", client')
  BY <1>2, AbandonsSteps DEF Cleared
<1>3. CASE client' = k
  BY <1>3, StandsSteps
<1>. QED BY <1>1, <1>2, <1>3

LEMMA TypeCommandSteps ==
  ASSUME TypeInv, TypeInv', StepInv, OwnAcks, TypeCommand
  PROVE  StepInv' /\ OwnAcks'
<1>. DEFINE cmd == Command("typed", 0, typed', <<>>)
            k == AddReliableCommand(client, cmd)
<1>1. /\ UNCHANGED <<server, level, misled, toClient>> /\ clInput = <<>> /\ clInput' = <<>> /\ Become(k)
  BY DEF TypeCommand, world, Quiet
<1>2. cmd \in Commands(ClientKinds)
  <2>1. typed' \in Nat /\ <<>> \in Seq(Strings) /\ "typed" \in ClientKinds
    BY DEF TypeInv, ClientKinds
  <2>. QED BY <2>1, CommandType
<1>. HIDE DEF cmd
<1>3. /\ k \in Clients /\ Filled(k)
      /\ IF ClientFull(client) THEN Overflows(client, k) ELSE ClientStores(client, cmd, k)
  BY <1>2, StepTypes, AddIs
<1>. HIDE DEF k
<1>4. SameClient(client, k) /\ k.state \in {client.state, "disconnected"}
  BY <1>3 DEF Overflows, ClientStores
<1>. QED BY <1>1, <1>3, <1>4, BecomeSteps DEF SameClient

LEMMA LeavingSteps ==
  ASSUME TypeInv, StepInv, OwnAcks, Quit \/ ClientTimeout
  PROVE  StepInv' /\ OwnAcks'
<1>1. PICK why \in {"quit", "timeout"} : Become(Left(client, why))
  BY DEF Quit, ClientTimeout
<1>2. UNCHANGED <<server, level, misled, toClient>> /\ clInput = <<>> /\ clInput' = <<>>
  BY DEF Quit, ClientTimeout, world, Quiet
<1>. DEFINE k == Left(client, why)
<1>3. /\ k \in Clients /\ Filled(k) /\ k.state = "disconnected" /\ k.numbering = client.numbering
      /\ k.servercount = client.servercount
      /\ k.lastExecutedServerCommand = client.lastExecutedServerCommand
  BY StepTypes, LeftIs
<1>. HIDE DEF k
<1>4. Become(k)
  BY <1>1 DEF k
<1>. QED BY <1>2, <1>3, <1>4, BecomeSteps

LEMMA AdjustServerTimeSteps ==
  ASSUME TypeInv, StepInv, OwnAcks, AdjustServerTime
  PROVE  StepInv' /\ OwnAcks'
<1>1. /\ UNCHANGED <<server, level, misled, toClient, clInput>> /\ client.state = "connected"
      /\ client' = [client EXCEPT !.state = "active"] /\ client \in Clients
  BY StepTypes DEF AdjustServerTime, world
<1>2. /\ client'.numbering = client.numbering /\ client'.servercount = client.servercount
      /\ client'.lastExecutedServerCommand = client.lastExecutedServerCommand
  BY <1>1 DEF Clients
<1>. QED BY <1>1, <1>2, StandsSteps

\* What stays out of the channel when its first message is taken.
LEMMA TakenSteps ==
  ASSUME TypeInv, StepInv, OwnAcks, server.state # "zombie", toClient # <<>>, toClient' = Tail(toClient),
         UNCHANGED <<server, level, misled>>, client'.numbering = client.numbering,
         client'.lastExecutedServerCommand = client.lastExecutedServerCommand,
         client'.state = client.state, client'.servercount = client.servercount,
         \/ clInput' = clInput
         \/ clInput = <<>> /\ clInput' = toClient[1].items /\ client.state # "disconnected"
  PROVE  StepInv' /\ OwnAcks'
<1>. DEFINE n == Len(toClient)
            t == Tail(toClient)
<1>1. /\ Len(t) = n - 1 /\ n \in Nat \ {0}
      /\ \A i \in 1 .. n - 1 : t[i] = toClient[i + 1] /\ i + 1 \in 1 .. n
      /\ toClient' = t
  <2>1. /\ Len(t) = n - 1 /\ n \in Nat \ {0} /\ \A i \in 1 .. n - 1 : t[i] = toClient[i + 1]
    BY StepTypes, TailFacts
  <2>. HIDE DEF n, t
  <2>2. \A i \in 1 .. n - 1 : i + 1 \in 1 .. n
    BY <2>1
  <2>. QED BY <2>1, <2>2 DEF t
<1>. HIDE DEF t
<1>2. NumberInv /\ ParsedInv /\ Recalls /\ \A i \in 1 .. n : SentInv(i)
  BY DEF StepInv
<1>. HIDE DEF n
<1>3. 1 \in 1 .. n /\ \A i \in 1 .. n - 1 : i + 1 \in 1 + 1 .. n
  BY <1>1
<1>4. /\ \A i \in 1 .. n :
           /\ NumbersWithin(toClient[i].items, client.numbering, server.numbering)
           /\ NumbersOrdered(clInput, toClient[i].items)
           /\ \A j \in i + 1 .. n : NumbersOrdered(toClient[i].items, toClient[j].items)
      /\ client.numbering <= server.numbering
      /\ NumbersWithin(clInput, client.numbering, server.numbering)
  BY <1>2 DEF NumberInv, n
<1>5. NumberInv'
  <2>1. ASSUME NEW i \in 1 .. n - 1
        PROVE  /\ NumbersWithin(t[i].items, client.numbering, server.numbering)
               /\ NumbersOrdered(clInput', t[i].items)
               /\ \A j \in i + 1 .. n - 1 : NumbersOrdered(t[i].items, t[j].items)
    <3>1. t[i] = toClient[i + 1] /\ i + 1 \in 1 .. n /\ i + 1 \in 1 + 1 .. n
      BY <1>1, <1>3
    <3>2. \A j \in i + 1 .. n - 1 : t[j] = toClient[j + 1] /\ j + 1 \in (i + 1) + 1 .. n
      BY <1>1
    <3>3. NumbersOrdered(clInput', t[i].items)
      BY <1>3, <1>4, <3>1
    <3>. QED BY <1>4, <3>1, <3>2, <3>3
  <2>2. NumbersWithin(clInput', client.numbering, server.numbering)
    BY <1>3, <1>4
  <2>. QED BY <1>1, <1>4, <2>1, <2>2 DEF NumberInv
<1>6. \A i \in 1 .. n - 1 : Current(i)' => Current(i + 1)
  <2>. SUFFICES ASSUME NEW i \in 1 .. n - 1, Current(i)' PROVE Current(i + 1)
    OBVIOUS
  <2>1. CASE InStep' \/ (Announces(clInput', server.numbering) /\ clInput' = clInput)
    BY <2>1 DEF Current, InStep
  <2>2. CASE Announces(clInput', server.numbering) /\ clInput' = toClient[1].items
    <3>1. 1 \in 1 .. (i + 1) - 1
      BY <1>1
    <3>. QED BY <2>2, <3>1 DEF Current
  <2>3. CASE \E j \in 1 .. i - 1 : Announces(toClient'[j].items, server.numbering)
    <3>1. PICK j \in 1 .. i - 1 : Announces(t[j].items, server.numbering)
      BY <1>1, <2>3
    <3>2. j \in 1 .. n - 1 /\ j + 1 \in 1 .. (i + 1) - 1
      BY <1>1
    <3>3. Announces(toClient[j + 1].items, server.numbering)
      BY <1>1, <3>1, <3>2
    <3>. QED BY <3>2, <3>3 DEF Current
  <2>. QED BY <2>1, <2>2, <2>3 DEF Current
<1>7. \A i \in 1 .. n - 1 : SentInv(i)'
  <2>. SUFFICES ASSUME NEW i \in 1 .. n - 1 PROVE SentInv(i)'
    OBVIOUS
  <2>1. toClient'[i] = toClient[i + 1] /\ SentInv(i + 1) /\ (Current(i)' => Current(i + 1))
    BY <1>1, <1>2, <1>6
  <2>. QED BY <2>1 DEF SentInv, Recalled
<1>8. ParsedInv'
  <2>1. CASE clInput' = clInput
    BY <1>2, <2>1 DEF ParsedInv, Recalled, InStep, Misled
  <2>2. CASE clInput = <<>> /\ clInput' = toClient[1].items /\ client.state # "disconnected"
    <3>. DEFINE items == toClient[1].items
    <3>1. SentInv(1)
      BY <1>2, <1>3
    <3>2. Consecutive(items) /\ Recalled(items)
      BY <3>1 DEF SentInv
    <3>3. ASSUME InStep
          PROVE  /\ AsStored(server, items)
                 /\ ~Misled => Follows(items, client.lastExecutedServerCommand)
                 /\ client.lastExecutedServerCommand <= server.reliableSent
      <4>1. Current(1)
        BY <3>3 DEF Current
      <4>2. Follows(items, server.reliableAcknowledge) /\ AsStored(server, items)
        BY <3>1, <4>1 DEF SentInv
      <4>3. ~Misled => server.reliableAcknowledge <= client.lastExecutedServerCommand
        BY <2>2, <3>3 DEF OwnAcks
      <4>4. items \in Seq(Commands(ServerKinds \cup DataKinds))
        BY <1>3, StepTypes DEF n
      <4>5. server.reliableAcknowledge \in Nat /\ client.lastExecutedServerCommand \in Nat
        BY StepTypes, ServerFields
      <4>. HIDE DEF items
      <4>6. ~Misled => Follows(items, client.lastExecutedServerCommand)
        BY <4>2, <4>3, <4>4, <4>5, FollowsMore
      <4>. QED BY <1>2, <3>3, <4>2, <4>6 DEF ParsedInv
    <3>. QED BY <2>2, <3>2, <3>3 DEF ParsedInv, Recalled, InStep, Misled
  <2>. QED BY <2>1, <2>2
<1>9. Recalls'
  BY <1>2 DEF Recalls, InStep, Misled
<1>10. Window(server') <= MAX_RELIABLE_COMMANDS /\ Following(server')
  BY DEF StepInv
<1>11. OwnAcks'
  BY DEF OwnAcks, InStep, Misled
<1>. QED BY <1>1, <1>5, <1>7, <1>8, <1>9, <1>10, <1>11 DEF StepInv

LEMMA ClientReceiveSteps ==
  ASSUME TypeInv, StepInv, OwnAcks, server.state # "zombie", ClientReceive
  PROVE  StepInv' /\ OwnAcks'
<1>1. /\ UNCHANGED <<server, level, misled>> /\ toClient # <<>> /\ toClient' = Tail(toClient) /\ clInput = <<>>
      /\ Head(toClient) = toClient[1] /\ client \in Clients
  BY StepTypes, TailFacts DEF ClientReceive, world, Quiet
<1>2. CASE client.state = "disconnected"
  <2>1. UNCHANGED <<client, clInput>>
    BY <1>2 DEF ClientReceive
  <2>. QED BY <1>1, <2>1, TakenSteps
<1>3. CASE client.state # "disconnected"
  <2>1. client' = [client EXCEPT !.reliableAcknowledge = Head(toClient).ack] /\ clInput' = toClient[1].items
    BY <1>1, <1>3 DEF ClientReceive
  <2>2. /\ client'.numbering = client.numbering /\ client'.state = client.state
        /\ client'.lastExecutedServerCommand = client.lastExecutedServerCommand
        /\ client'.servercount = client.servercount
    BY <1>1, <2>1 DEF Clients
  <2>. QED BY <1>1, <1>3, <2>1, <2>2, TakenSteps
<1>. QED BY <1>2, <1>3

LEMMA LoseToClientSteps ==
  ASSUME TypeInv, StepInv, OwnAcks, server.state # "zombie", LoseToClient
  PROVE  StepInv' /\ OwnAcks'
<1>1. /\ UNCHANGED <<server, client, level, misled, clInput>> /\ toClient # <<>> /\ toClient' = Tail(toClient)
  BY DEF LoseToClient, world
<1>. QED BY <1>1, TakenSteps
-----------------------------------------------------------------------------
LEMMA ClientSkipsSteps ==
  ASSUME TypeInv, StepInv, OwnAcks, server.state # "zombie", ClientSkips
  PROVE  StepInv' /\ OwnAcks'
<1>1. /\ UNCHANGED <<server, client, level, misled, toClient>> /\ clInput # <<>> /\ clInput' = Tail(clInput)
      /\ Numbered(Head(clInput)) /\ Head(clInput).num <= client.lastExecutedServerCommand
  BY DEF ClientSkips, world, ExecutedHere
<1>2. ~IsData(Head(clInput)) /\ Head(clInput).kind # "serverdata"
  BY <1>1 DEF Numbered, IsData, DataKinds
<1>3. Recalls' /\ client.lastExecutedServerCommand \in Nat
  BY <1>1, StepTypes DEF StepInv, Recalls, InStep, Misled
<1>. QED BY <1>1, <1>2, <1>3, ItemSteps

LEMMA ParseFrameSteps ==
  ASSUME TypeInv, StepInv, OwnAcks, server.state # "zombie", ParseFrame
  PROVE  StepInv' /\ OwnAcks'
<1>. DEFINE k == [client EXCEPT !.snap = Head(clInput).level]
<1>1. /\ UNCHANGED <<server, level, misled, toClient>> /\ clInput # <<>> /\ clInput' = Tail(clInput)
      /\ Head(clInput).kind = "frame" /\ Become(k)
  BY DEF ParseFrame, TakingHere, HandledHere, world
<1>2. client \in Clients /\ Head(clInput).level \in Nat /\ client.lastExecutedServerCommand \in Nat
  BY <1>1, StepTypes, HereType
<1>3. /\ k.numbering = client.numbering /\ k.state = client.state
      /\ k.lastExecutedServerCommand = client.lastExecutedServerCommand
      /\ k.servercount = client.servercount
  BY <1>2 DEF Clients
<1>. HIDE DEF k
<1>4. client' = k
  BY <1>1, <1>3 DEF Become
<1>5. Recalls'
  BY <1>1, <1>3, <1>4 DEF StepInv, Recalls, InStep, Misled
<1>6. IsData(Head(clInput)) /\ Head(clInput).kind # "serverdata"
  BY <1>1 DEF IsData, DataKinds
<1>. QED BY <1>1, <1>2, <1>3, <1>4, <1>5, <1>6, ItemSteps

\* A command that is executed, with what it makes of the client.
LEMMA ExecutedSteps ==
  ASSUME TypeInv, LevelInv, StepInv, OwnAcks, server.state # "zombie", UNCHANGED <<server, level, misled, toClient>>,
         clInput # <<>>, clInput' = Tail(clInput),
         ~IsData(Head(clInput)), ~ExecutedHere(Head(clInput)),
         NEW k \in Clients, Become(k), k.state # "disconnected" \/ client.state = "disconnected",
         k.numbering = client.numbering, k.servercount = client.servercount,
         k.lastExecutedServerCommand = NotedHere.lastExecutedServerCommand,
         \/ k.state = client.state /\ Head(clInput).kind # "reconnect"
         \/ k.state \notin {"connected", "active"}
         \/ Head(clInput).kind = "changing"
  PROVE  StepInv' /\ OwnAcks'
<1>1. client' = k
  BY DEF Become
<1>2. Numbered(Head(clInput))
  BY DEF Numbered, IsData, DataKinds
<1>3. NotedHere.lastExecutedServerCommand = Head(clInput).num
  BY <1>2, NotedHereIs
<1>4. client'.state \in {"connected", "active"} =>
        \/ Head(clInput).kind = "changing"
        \/ client.state \in {"connected", "active"} /\ Head(clInput).kind # "reconnect"
  BY <1>1
<1>. QED BY <1>1, <1>3, <1>4, CommandSteps

\* The command that is taken is not data.
LEMMA TakenIsCommand ==
  ASSUME TypeInv, NEW kind \in ServerKinds, TakingHere(kind)
  PROVE  clInput # <<>> /\ Head(clInput).kind = kind /\ ~IsData(Head(clInput)) /\ ~ExecutedHere(Head(clInput))
BY DEF TakingHere, IsData, DataKinds, ServerKinds

LEMMA ParseConfigstringCommandSteps ==
  ASSUME TypeInv, LevelInv, StepInv, OwnAcks, server.state # "zombie", ParseConfigstringCommand
  PROVE  StepInv' /\ OwnAcks'
<1>1. /\ UNCHANGED <<server, level, misled, toClient>> /\ clInput' = Tail(clInput)
      /\ TakingHere("cs") /\ "cs" \in ServerKinds /\ Become(Updated)
  BY DEF ParseConfigstringCommand, HandledHere, world, Updated, ServerKinds
<1>2. clInput # <<>> /\ Head(clInput).kind = "cs" /\ ~IsData(Head(clInput)) /\ ~ExecutedHere(Head(clInput))
  BY <1>1, TakenIsCommand
<1>3. /\ Updated \in Clients /\ Updated.state = client.state /\ Updated.servercount = client.servercount
      /\ Updated.numbering = client.numbering
      /\ Updated.lastExecutedServerCommand = NotedHere.lastExecutedServerCommand
  BY <1>2, UpdatedIs
<1>4. Updated.state # "disconnected" \/ client.state = "disconnected"
  BY <1>3
<1>. QED BY <1>1, <1>2, <1>3, <1>4, ExecutedSteps

\* A command that is only noted.
LEMMA NotedHereSteps ==
  ASSUME TypeInv, LevelInv, StepInv, OwnAcks, server.state # "zombie", UNCHANGED <<server, level, misled, toClient>>,
         clInput # <<>>, clInput' = Tail(clInput), ~IsData(Head(clInput)), ~ExecutedHere(Head(clInput)),
         Become(NotedHere),
         Head(clInput).kind # "reconnect" \/ client.state \notin {"connected", "active"}
  PROVE  StepInv' /\ OwnAcks'
<1>1. /\ NotedHere \in Clients /\ NotedHere.state = client.state
      /\ NotedHere.servercount = client.servercount /\ NotedHere.numbering = client.numbering
  BY NotedHereIs
<1>2. NotedHere.state # "disconnected" \/ client.state = "disconnected"
  BY <1>1
<1>. QED BY <1>1, <1>2, ExecutedSteps

\* A command that is answered; e is the client as it answers.
LEMMA AnswerSteps ==
  ASSUME TypeInv, LevelInv, StepInv, OwnAcks, server.state # "zombie", UNCHANGED <<server, level, misled, toClient>>,
         clInput # <<>>, ~IsData(Head(clInput)), ~ExecutedHere(Head(clInput)),
         NEW e \in Clients, Filled(e), NEW cmd \in Commands(ClientKinds),
         client.state # "disconnected", e.state # "disconnected", e.left = client.left,
         e.numbering = client.numbering, e.servercount = client.servercount,
         e.lastExecutedServerCommand = NotedHere.lastExecutedServerCommand,
         \/ e.state = client.state /\ Head(clInput).kind # "reconnect"
         \/ e.state \notin {"connected", "active"},
         Become(AddReliableCommand(e, cmd)),
         clInput' = IF AddReliableCommand(e, cmd).left = "overflow" THEN <<>> ELSE Tail(clInput)
  PROVE  StepInv' /\ OwnAcks'
<1>. DEFINE k == AddReliableCommand(e, cmd)
<1>0. client.left = "no"
  BY LifeLevels
<1>1. /\ k \in Clients /\ Filled(k)
      /\ IF ClientFull(e) THEN Overflows(e, k) ELSE ClientStores(e, cmd, k)
  BY AddIs
<1>2. Become(k) /\ clInput' = IF k.left = "overflow" THEN <<>> ELSE Tail(clInput)
  OBVIOUS
<1>. HIDE DEF k
<1>3. CASE Overflows(e, k)
  <2>1. k.state = "disconnected" /\ clInput' = <<>> /\ k.numbering = client.numbering
    BY <1>2, <1>3 DEF Overflows, SameClient
  <2>2. Cleared(k, "disconnected", client')
    BY <1>1, <1>2, <2>1, BecomeIs
  <2>. QED BY <2>1, <2>2, AbandonsSteps DEF Cleared
<1>4. CASE ClientStores(e, cmd, k)
  <2>1. /\ k.state = e.state /\ k.left = "no" /\ k.numbering = client.numbering
        /\ k.servercount = client.servercount
        /\ k.lastExecutedServerCommand = NotedHere.lastExecutedServerCommand
    BY <1>0, <1>4 DEF ClientStores, SameClient
  <2>2. clInput' = Tail(clInput)
    BY <1>2, <2>1
  <2>. QED BY <1>1, <1>2, <2>1, <2>2, ExecutedSteps
<1>. QED BY <1>1, <1>3, <1>4

LEMMA ForwardToServerSteps ==
  ASSUME TypeInv, LevelInv, StepInv, OwnAcks, server.state # "zombie", ForwardToServer
  PROVE  StepInv' /\ OwnAcks'
<1>1. /\ UNCHANGED <<server, level, misled, toClient>>
      /\ TakingHere("configstrings") \/ TakingHere("baselines")
      /\ "configstrings" \in ServerKinds /\ "baselines" \in ServerKinds
  BY DEF ForwardToServer, world, ServerKinds
<1>2. /\ clInput # <<>> /\ ~IsData(Head(clInput)) /\ ~ExecutedHere(Head(clInput))
      /\ Head(clInput).kind \in {"configstrings", "baselines"}
  BY <1>1, TakenIsCommand
<1>3. /\ NotedHere \in Clients /\ Filled(NotedHere) /\ NotedHere.state = client.state
      /\ NotedHere.left = client.left
      /\ NotedHere.servercount = client.servercount /\ NotedHere.numbering = client.numbering
  BY <1>2, NotedHereIs
<1>4. Head(clInput) \in Commands(ClientKinds)
  <2>1. Head(clInput) \in Commands(ServerKinds \cup DataKinds) /\ Head(clInput).kind \in ClientKinds
    BY <1>2, HereType DEF ClientKinds
  <2>. QED BY <2>1 DEF Commands
<1>5. CASE NotedHere.state \in {"connected", "active"}
  <2>1. /\ Become(AddReliableCommand(NotedHere, Head(clInput)))
        /\ clInput' = IF AddReliableCommand(NotedHere, Head(clInput)).left = "overflow" THEN <<>> ELSE Tail(clInput)
    BY <1>5 DEF ForwardToServer
  <2>2. client.state # "disconnected" /\ NotedHere.state # "disconnected" /\ Head(clInput).kind # "reconnect"
    BY <1>2, <1>3, <1>5
  <2>. QED BY <1>1, <1>2, <1>3, <1>4, <2>1, <2>2, AnswerSteps
<1>6. CASE NotedHere.state \notin {"connected", "active"}
  <2>1. Become(NotedHere) /\ clInput' = Tail(clInput)
    BY <1>6 DEF ForwardToServer
  <2>. QED BY <1>1, <1>2, <2>1, NotedHereSteps
<1>. QED BY <1>5, <1>6

LEMMA PrecacheSteps ==
  ASSUME TypeInv, LevelInv, StepInv, OwnAcks, server.state # "zombie", Precache
  PROVE  StepInv' /\ OwnAcks'
<1>1. UNCHANGED <<server, level, misled, toClient>> /\ TakingHere("precache") /\ "precache" \in ServerKinds
  BY DEF Precache, world, ServerKinds
<1>2. /\ clInput # <<>> /\ ~IsData(Head(clInput)) /\ ~ExecutedHere(Head(clInput))
      /\ Head(clInput).kind = "precache"
  BY <1>1, TakenIsCommand
<1>3. /\ Loaded \in Clients /\ Filled(Loaded) /\ Loaded.state = client.state /\ Loaded.left = client.left
      /\ Loaded.servercount = client.servercount /\ Loaded.numbering = client.numbering
      /\ Loaded.lastExecutedServerCommand = NotedHere.lastExecutedServerCommand
      /\ Beginning \in Commands(ClientKinds) /\ NotedHere.state = client.state
  BY <1>2, LoadedIs, NotedHereIs
<1>4. CASE NotedHere.state = "connected"
  <2>1. /\ Become(AddReliableCommand(Loaded, Beginning))
        /\ clInput' = IF AddReliableCommand(Loaded, Beginning).left = "overflow" THEN <<>> ELSE Tail(clInput)
    BY <1>4 DEF Precache, Loaded, Beginning
  <2>2. client.state # "disconnected" /\ Loaded.state # "disconnected" /\ Head(clInput).kind # "reconnect"
    BY <1>2, <1>3, <1>4
  <2>. QED BY <1>1, <1>2, <1>3, <2>1, <2>2, AnswerSteps
<1>5. CASE NotedHere.state # "connected"
  <2>1. Become(NotedHere) /\ clInput' = Tail(clInput)
    BY <1>5 DEF Precache
  <2>. QED BY <1>1, <1>2, <2>1, NotedHereSteps
<1>. QED BY <1>4, <1>5

LEMMA ChangingSteps ==
  ASSUME TypeInv, LevelInv, StepInv, OwnAcks, server.state # "zombie", Changing
  PROVE  StepInv' /\ OwnAcks'
<1>1. /\ UNCHANGED <<server, level, misled, toClient>> /\ clInput' = Tail(clInput) /\ Become(Told)
      /\ TakingHere("changing") /\ "changing" \in ServerKinds
  BY DEF Changing, HandledHere, world, Told, NoStrings, ServerKinds
<1>2. /\ clInput # <<>> /\ ~IsData(Head(clInput)) /\ ~ExecutedHere(Head(clInput))
      /\ Head(clInput).kind = "changing"
  BY <1>1, TakenIsCommand
<1>3. /\ Told \in Clients /\ Told.state = "connected"
      /\ Told.servercount = client.servercount /\ Told.numbering = client.numbering
      /\ Told.lastExecutedServerCommand = NotedHere.lastExecutedServerCommand
  BY <1>2, ToldIs
<1>4. Told.state # "disconnected"
  BY <1>3
<1>. QED BY <1>1, <1>2, <1>3, <1>4, ExecutedSteps

LEMMA ServerReconnectSteps ==
  ASSUME TypeInv, LevelInv, StepInv, OwnAcks, server.state # "zombie", ServerReconnect
  PROVE  StepInv' /\ OwnAcks'
<1>1. UNCHANGED <<server, level, misled, toClient>> /\ TakingHere("reconnect") /\ "reconnect" \in ServerKinds
  BY DEF ServerReconnect, world, ServerKinds
<1>2. clInput # <<>> /\ ~IsData(Head(clInput)) /\ ~ExecutedHere(Head(clInput))
  BY <1>1, TakenIsCommand
<1>3. /\ Greeting \in Clients /\ Filled(Greeting) /\ Greeting.state = "handshake"
      /\ Greeting.left = client.left
      /\ Greeting.servercount = client.servercount /\ Greeting.numbering = client.numbering
      /\ Greeting.lastExecutedServerCommand = NotedHere.lastExecutedServerCommand
      /\ Plain("new") \in Commands(ClientKinds) /\ NotedHere.state = client.state
  BY <1>2, GreetingIs, NotedHereIs
<1>4. CASE NotedHere.state \in {"connected", "active"}
  <2>1. /\ Become(AddReliableCommand(Greeting, Plain("new")))
        /\ clInput' = IF AddReliableCommand(Greeting, Plain("new")).left = "overflow" THEN <<>> ELSE Tail(clInput)
    BY <1>4 DEF ServerReconnect, Greeting, NoStrings
  <2>2. client.state # "disconnected" /\ Greeting.state \notin {"disconnected", "connected", "active"}
    BY <1>3, <1>4
  <2>. QED BY <1>1, <1>2, <1>3, <2>1, <2>2, AnswerSteps
<1>5. CASE NotedHere.state \notin {"connected", "active"}
  <2>1. Become(NotedHere) /\ clInput' = Tail(clInput)
    BY <1>5 DEF ServerReconnect
  <2>. QED BY <1>1, <1>2, <1>3, <1>5, <2>1, NotedHereSteps
<1>. QED BY <1>4, <1>5

\* Only a client that the server has dropped is told that it is.
LEMMA ServerDisconnectSteps ==
  ASSUME TypeInv, LevelInv, server.state # "zombie"
  PROVE  ~ServerDisconnect
<1>. SUFFICES ASSUME ServerDisconnect PROVE FALSE
  OBVIOUS
<1>1. clInput # <<>> /\ Head(clInput).kind = "disconnect"
  BY DEF ServerDisconnect, TakingHere
<1>2. Head(clInput) = clInput[1] /\ Len(clInput) \in Nat \ {0}
  BY <1>1, StepTypes, TailFacts
<1>3. 1 \in 1 .. Len(clInput) /\ clInput[1].kind = "disconnect"
  BY <1>1, <1>2
<1>. QED BY <1>3 DEF Parts, LevelInv, PartingInv

\* The handshake: the client takes up the numbering that is announced to it.
LEMMA ParseServerDataSteps ==
  ASSUME TypeInv, LevelInv, StepInv, OwnAcks, server.state # "zombie", ParseServerData
  PROVE  StepInv' /\ OwnAcks'
<1>. DEFINE x == Head(clInput)
<1>1. /\ UNCHANGED <<server, level, misled, toClient>> /\ clInput # <<>> /\ x.kind = "serverdata"
      /\ x.kind \in DataKinds
  BY DEF ParseServerData, TakingHere, world, DataKinds
<1>2. CASE client.state # "handshake"
  <2>1. client' = client /\ clInput' = <<>>
    BY <1>2 DEF ParseServerData
  <2>. QED BY <1>1, <2>1, AbandonsSteps
<1>3. CASE client.state = "handshake"
  <2>1. clInput' = <<>> /\ Len(clInput) = 1 /\ x = clInput[1]
    <3>1. clInput' = Tail(clInput)
      BY <1>3, WelcomeIs
    <3>. QED BY <1>1, <3>1, DataLives, StepTypes, TailFacts
  <2>2. /\ client'.numbering = x.arg /\ client'.lastExecutedServerCommand = 0
        /\ client'.servercount = x.level /\ client'.state = "connected"
    <3>1. /\ Welcomed.state = "connected" /\ Welcomed.lastExecutedServerCommand = 0
          /\ Welcomed.servercount = x.level /\ Welcomed.numbering = x.arg
      BY <1>1, WelcomedIs
    <3>. QED BY <1>3, <3>1, WelcomeIs DEF ClientStores, SameClient
  <2>3. NumberInv /\ ParsedInv
    BY DEF StepInv
  <2>. HIDE DEF x
  <2>4. 1 \in 1 .. Len(clInput) /\ x.arg \in Nat /\ server.numbering \in Nat
        /\ server.reliableAcknowledge \in Nat /\ server.reliableSent \in Nat
    BY <1>1, <2>1, HereType, StepTypes, ServerFields DEF x
  <2>5. x.arg <= server.numbering
    BY <1>1, <2>1, <2>3, <2>4 DEF NumberInv, NumbersWithin
  <2>6. NumberInv'
    <3>1. ASSUME NEW i \in 1 .. Len(toClient)
          PROVE  /\ NumbersWithin(toClient[i].items, x.arg, server.numbering)
                 /\ NumbersOrdered(clInput', toClient[i].items)
                 /\ \A j \in i + 1 .. Len(toClient) : NumbersOrdered(toClient[i].items, toClient[j].items)
      <4>1. /\ NumbersWithin(toClient[i].items, client.numbering, server.numbering)
            /\ NumbersOrdered(clInput, toClient[i].items)
            /\ \A j \in i + 1 .. Len(toClient) : NumbersOrdered(toClient[i].items, toClient[j].items)
        BY <2>3 DEF NumberInv
      <4>2. NumbersWithin(toClient[i].items, x.arg, server.numbering)
        BY <1>1, <2>1, <2>4, <4>1 DEF NumbersWithin, NumbersOrdered
      <4>3. NumbersOrdered(clInput', toClient[i].items)
        BY <2>1 DEF NumbersOrdered
      <4>. QED BY <4>1, <4>2, <4>3
    <3>2. NumbersWithin(clInput', client'.numbering, server.numbering)
      BY <2>1 DEF NumbersWithin
    <3>. QED BY <1>1, <2>2, <2>5, <3>1, <3>2 DEF NumberInv
  <2>7. InStep' => Announces(clInput, server.numbering)
    BY <1>1, <2>1, <2>2 DEF InStep, Announces
  <2>8. \A i \in 1 .. Len(toClient) : Current(i)' => Current(i)
    <3>1. ~Announces(clInput', server.numbering)
      BY <2>1 DEF Announces
    <3>. QED BY <1>1, <2>7, <3>1 DEF Current
  <2>9. ParsedInv'
    <3>1. Consecutive(clInput') /\ Recalled(clInput)' /\ AsStored(server', clInput')
          /\ Follows(clInput', client'.lastExecutedServerCommand)
      BY <2>1 DEF Consecutive, Recalled, Announces, AsStored, Follows
    <3>. QED BY <1>1, <2>2, <2>4, <3>1 DEF ParsedInv
  <2>11. OwnAcks'
    <3>1. x.arg = server.numbering \/ x.arg < server.numbering
      BY <2>4, <2>5
    <3>2. client.numbering < x.arg /\ client.numbering \in Nat
      BY <1>1, <2>1, <2>3, <2>4, StepTypes DEF NumberInv, NumbersWithin
    <3>3. ~InStep
      BY <2>4, <3>1, <3>2 DEF InStep
    <3>4. ~Misled => server.reliableAcknowledge = 0
      BY <1>3, <3>3 DEF OwnAcks
    <3>5. server.reliableAcknowledge = 0 => server.reliableAcknowledge <= 0
      OBVIOUS
    <3>. QED BY <1>1, <2>2, <3>4, <3>5 DEF OwnAcks, Misled
  <2>10. Recalls'
    <3>. SUFFICES ASSUME InStep', ~Misled', x.level # level PROVE Ahead(server, 0)
      BY <1>1, <2>2 DEF Recalls
    <3>1. server.reliableAcknowledge <= 0
      BY <1>1, <2>2, <2>11 DEF OwnAcks
    <3>2. server.reliableAcknowledge = 0
      BY <2>4, <3>1
    <3>. QED BY <2>1, <2>3, <2>7, <3>2 DEF ParsedInv, Recalled
  <2>. QED BY <1>1, <2>6, <2>8, <2>9, <2>10, <2>11, ClientGoesOn
<1>. QED BY <1>2, <1>3

LEMMA ClientSteps ==
  ASSUME TypeInv, TypeInv', LevelInv, StepInv, OwnAcks,
         \/ SendMessagesToServer \/ TypeCommand \/ Quit \/ AdjustServerTime
         \/ ClientReceive \/ ClientParse \/ LoseToServer \/ LoseToClient \/ ClientTimeout
  PROVE  StepInv' /\ OwnAcks'
<1>1. CASE SendMessagesToServer \/ LoseToServer
  <2>1. UNCHANGED <<server, client, level, misled, toClient, clInput>>
    BY <1>1 DEF SendMessagesToServer, LoseToServer, world
  <2>. QED BY <2>1, StandsSteps
<1>2. CASE TypeCommand \/ Quit \/ ClientTimeout \/ AdjustServerTime
  BY <1>2, TypeCommandSteps, LeavingSteps, AdjustServerTimeSteps
<1>3. CASE ClientReceive \/ ClientParse \/ LoseToClient
  <2>1. CASE server.state = "zombie"
    <3>1. server' = server
      BY <1>3 DEF ClientReceive, ClientParse, LoseToClient, ClientSkips, ParseServerData, ParseFrame,
         ParseConfigstringCommand, ForwardToServer, Precache, Changing, ServerReconnect,
         ServerDisconnect, HandledHere
    <3>. QED BY <2>1, <3>1 DEF StepInv, OwnAcks
  <2>2. CASE server.state # "zombie"
    BY <1>3, <2>2, ClientReceiveSteps, LoseToClientSteps, ClientSkipsSteps, ParseServerDataSteps,
       ParseFrameSteps, ParseConfigstringCommandSteps, ForwardToServerSteps, PrecacheSteps,
       ChangingSteps, ServerReconnectSteps, ServerDisconnectSteps DEF ClientParse
  <2>. QED BY <2>1, <2>2
<1>. QED BY <1>1, <1>2, <1>3

LEMMA InitSteps ==
  ASSUME Init
  PROVE  StepInv /\ OwnAcks
<1>1. /\ server.reliableSequence = 0 /\ server.reliableAcknowledge = 0 /\ server.reliableSent = 0
      /\ server.numbering = 0 /\ clInput = <<>> /\ toClient = <<>>
  BY DEF Init
<1>2. client.state = "handshake" /\ client.numbering = 0 /\ client.lastExecutedServerCommand = 0
  BY DEF Init, Store
<1>3. NumberInv
  BY <1>1, <1>2 DEF NumberInv, NumbersWithin
<1>4. Window(server) <= MAX_RELIABLE_COMMANDS /\ Following(server)
  <2>1. Window(server) = 0 /\ 0 + 1 .. 0 = {}
    BY <1>1 DEF Window
  <2>. QED BY <1>1, <2>1, SizeAssumption DEF Following
<1>5. ParsedInv
  BY <1>1, <1>2 DEF ParsedInv, Consecutive, Recalled, Announces, AsStored, Follows
<1>6. Recalls
  BY <1>2 DEF Recalls
<1>7. OwnAcks
  BY <1>1, <1>2 DEF OwnAcks
<1>. QED BY <1>1, <1>3, <1>4, <1>5, <1>6, <1>7 DEF StepInv

\* What is not the counters of acknowledgements.
Kept(c, d) == /\ DOMAIN d = DOMAIN c
              /\ d.reliableAcknowledge = c.reliableAcknowledge /\ d.numbering = c.numbering
Counts(c) == "reliableAcknowledge" \in DOMAIN c /\ "numbering" \in DOMAIN c

LEMMA StoreKeeps ==
  ASSUME NEW c, NEW cmd, Counts(c)
  PROVE  Kept(c, Store(c, cmd))
BY DEF Store, Kept, Counts

LEMMA DroppedKeeps ==
  ASSUME NEW c, Counts(c)
  PROVE  Kept(c, Dropped(c))
<1>. DEFINE f == IF Full(c) THEN [c EXCEPT !.reliableSequence = @ + 1] ELSE c
            d == Store(f, Plain("disconnect"))
<1>1. Kept(c, f)
  BY DEF Kept, Counts
<1>2. Kept(f, d)
  BY <1>1, StoreKeeps DEF Kept, Counts
<1>3. Dropped(c) = [d EXCEPT !.state = "zombie", !.reliableSent = d.reliableSequence]
  BY DEF Dropped
<1>. HIDE DEF d, f
<1>4. Kept(d, Dropped(c))
  BY <1>1, <1>2, <1>3 DEF Kept, Counts
<1>. QED BY <1>1, <1>2, <1>4 DEF Kept

LEMMA SendKeeps ==
  ASSUME NEW c, NEW cmd, Counts(c)
  PROVE  Kept(c, SendServerCommand(c, cmd))
<1>1. CASE c.state = "zombie"
  BY <1>1 DEF SendServerCommand, Kept
<1>2. CASE c.state # "zombie" /\ cmd.kind = "cs" /\ Batches(c, cmd) # {}
  <2>. DEFINE s == Slot(Max(Batches(c, cmd)))
  <2>. HIDE DEF s
  <2>1. SendServerCommand(c, cmd) = [c EXCEPT !.reliableCommands[s].strings = @ \o cmd.strings]
    BY <1>2 DEF SendServerCommand, s
  <2>. QED BY <2>1 DEF Kept, Counts
<1>3. CASE c.state # "zombie" /\ ~(cmd.kind = "cs" /\ Batches(c, cmd) # {})
  BY <1>3, StoreKeeps, DroppedKeeps DEF SendServerCommand
<1>. QED BY <1>1, <1>2, <1>3

LEMMA KeptTrans ==
  ASSUME NEW c, NEW d, NEW e, Kept(c, d), Kept(d, e)
  PROVE  Kept(c, e)
BY DEF Kept

LEMMA NewAcks ==
  ASSUME TypeInv, LevelInv, StepInv, OwnAcks, server.state # "zombie", New(Noted), Kept(server, Noted),
         client' = client, misled' = misled
  PROVE  OwnAcks'
<1>1. CASE Noted.state = "spawned"
  <2>1. server' = Noted
    BY <1>1 DEF New, Serve
  <2>. QED BY <2>1 DEF Kept, OwnAcks, InStep, Misled
<1>2. CASE Noted.state # "spawned"
  <2>1. server' = [ResetCommandBuffers(Noted) EXCEPT !.state = "connecting"]
    BY <1>2 DEF New, Serve
  <2>2. server \in Servers
    BY StepTypes
  <2>3. "numbering" \in DOMAIN Noted /\ "reliableAcknowledge" \in DOMAIN Noted
    BY <2>2 DEF Kept, Servers
  <2>4. server'.reliableAcknowledge = 0 /\ server'.numbering = Noted.numbering + 1
    BY <2>1, <2>3 DEF ResetCommandBuffers
  <2>5. client.numbering <= server.numbering /\ server.numbering \in Nat /\ client.numbering \in Nat
    BY StepTypes DEF StepInv, NumberInv
  <2>6. client.numbering # server.numbering + 1
    BY <2>5
  <2>. QED BY <2>4, <2>6 DEF Kept, OwnAcks, InStep
<1>. QED BY <1>1, <1>2

LEMMA ServerAcks ==
  ASSUME TypeInv, LevelInv, StepInv, OwnAcks,
         SendClientMessages \/ ConfigString \/ Map \/ ServerReceive \/ ServerParse \/ ServerTimeout
  PROVE  OwnAcks'
<1>0. server \in Servers /\ Counts(server) /\ client' = client
  <2>1. server \in Servers
    BY StepTypes
  <2>2. client' = client
    BY DEF SendClientMessages, ConfigString, Map, ServerReceive, ServerParse, ServerTimeout, ServerSkips,
       SV_New_f, ConfigstringsLoop, SV_Configstrings_f, SV_Baselines_f, SV_Begin_f, SV_Disconnect_f,
       ClientCommand, Handled
  <2>. QED BY <2>1, <2>2 DEF Counts, Servers
<1>1. CASE server.state = "zombie"
  BY <1>1, ZombieStays DEF OwnAcks
<1>2. CASE server.state # "zombie" /\ ServerReceive
  <2>1. CASE server' = server /\ misled' = misled
    BY <1>0, <2>1 DEF OwnAcks, InStep, Misled
  <2>2. CASE /\ server' = [server EXCEPT !.reliableAcknowledge = Head(toServer).ack]
             /\ misled' = misled \cup (IF HasExecuted(Head(toServer).ack) THEN {} ELSE {server.numbering})
    <3>. DEFINE n == Head(toServer).ack
    <3>. HIDE DEF n
    <3>1. server'.reliableAcknowledge = n /\ server'.numbering = server.numbering
      BY <1>0, <2>2 DEF Servers, n
    <3>2. ~Misled' => HasExecuted(n)
      BY <2>2, <3>1 DEF Misled, n
    <3>3. 0 <= client.lastExecutedServerCommand
      BY StepTypes
    <3>4. InStep' <=> InStep
      BY <1>0, <3>1 DEF InStep
    <3>. QED BY <1>0, <3>1, <3>2, <3>3, <3>4 DEF HasExecuted, OwnAcks, InStep
  <2>. QED BY <1>2, <2>1, <2>2 DEF ServerReceive
<1>3. CASE server.state # "zombie" /\ ~ServerReceive
  <2>1. misled' = misled
    BY <1>3 DEF SendClientMessages, ConfigString, Map, ServerParse, ServerTimeout, ServerSkips,
       SV_New_f, ConfigstringsLoop, SV_Configstrings_f, SV_Baselines_f, SV_Begin_f, SV_Disconnect_f,
       ClientCommand, Handled, world
  <2>2. Kept(server, server') => OwnAcks'
    BY <1>0, <1>3, <2>1 DEF Kept, OwnAcks, InStep, Misled
  <2>3. Kept(server, Noted)
    BY <1>0 DEF Noted, Kept, Counts
  <2>4. Counts(Noted)
    BY <1>0, <2>3 DEF Kept, Counts
  <2>5. CASE SendClientMessages \/ ServerSkips \/ ClientCommand
    <3>1. server' \in {AllSent(server), server, Noted}
      BY <2>5 DEF SendClientMessages, ServerSkips, ClientCommand, Serve
    <3>2. Kept(server, AllSent(server)) /\ Kept(server, server)
      BY <1>0 DEF AllSent, Kept, Counts
    <3>. QED BY <2>2, <2>3, <3>1, <3>2
  <2>6. CASE ConfigString
    <3>1. PICK i \in Index, size \in Sizes : server' = SendServerCommand(server, Cs(i)')
      BY <2>6 DEF ConfigString, Serve
    <3>. QED BY <1>0, <2>2, <3>1, SendKeeps
  <2>7. CASE Map
    <3>1. Kept(server, Awaiting) /\ Counts(Awaiting)
      BY <1>0 DEF Awaiting, Kept, Counts
    <3>2. Kept(server, ToldChanging)
      BY <3>1, SendKeeps, KeptTrans DEF ToldChanging
    <3>3. Kept(server, AllSent(ToldChanging)) /\ Counts(AllSent(ToldChanging))
      BY <1>0, <3>2 DEF AllSent, Kept, Counts
    <3>4. Kept(server, ToldReconnect)
      BY <3>3, SendKeeps, KeptTrans DEF ToldReconnect
    <3>5. server' = ToldChanging \/ server' = ToldReconnect
      BY <2>7, MapServes DEF Serve
    <3>. QED BY <2>2, <3>2, <3>4, <3>5
  <2>8. CASE SV_New_f
    BY <1>0, <1>3, <2>1, <2>3, <2>8, NewAcks DEF SV_New_f
  <2>9. CASE ConfigstringsLoop
    <3>1. Kept(server, Looping) /\ Counts(Looping)
      BY <1>0 DEF Looping, Kept, Counts
    <3>2. server' = SendServerCommand(Looping, Cs(Head(svInput).arg))
      BY <2>9 DEF ConfigstringsLoop, Serve, Looping
    <3>. QED BY <2>2, <3>1, <3>2, SendKeeps, KeptTrans
  <2>10. CASE SV_Configstrings_f
    <3>1. Kept(server, ConfigStart) /\ Counts(ConfigStart)
      BY <1>0, <2>3 DEF ConfigStart, Kept, Counts
    <3>2. Kept(server, Configured)
      BY <3>1, SendKeeps, KeptTrans DEF Configured
    <3>3. server' = Configured
      BY <2>10, ConfigstringsIs DEF Serve
    <3>. QED BY <2>2, <3>2, <3>3
  <2>11. CASE SV_Baselines_f
    <3>1. CASE New(Noted)
      BY <1>0, <1>3, <2>1, <2>3, <3>1, NewAcks
    <3>2. CASE server' = Noted
      BY <2>2, <2>3, <3>2
    <3>3. CASE server' = AllSent(Baselined)
      <4>1. Kept(server, Baselined)
        BY <2>3, <2>4, SendKeeps, KeptTrans DEF Baselined
      <4>2. Kept(server, AllSent(Baselined))
        BY <1>0, <4>1 DEF AllSent, Kept, Counts
      <4>. QED BY <2>2, <3>3, <4>2
    <3>. QED BY <2>11, <3>1, <3>2, <3>3 DEF SV_Baselines_f, Serve, Baselined
  <2>12. CASE SV_Begin_f
    <3>1. server' = Began
      BY <2>12 DEF SV_Begin_f, Serve, Began, ToldAgain
    <3>2. Kept(server, Dropped(Noted))
      BY <2>3, <2>4, DroppedKeeps, KeptTrans
    <3>3. Kept(server, ToldAgain)
      <4>. DEFINE d == SendServerCommand(Noted, Plain("changing"))
      <4>1. Kept(Noted, d)
        BY <2>4, SendKeeps
      <4>. HIDE DEF d
      <4>2. Counts(d)
        BY <2>4, <4>1 DEF Kept, Counts
      <4>3. Kept(d, SendServerCommand(d, Plain("reconnect")))
        BY <4>2, SendKeeps
      <4>. QED BY <2>3, <4>1, <4>3, KeptTrans DEF ToldAgain, d
    <3>4. Kept(server, [Noted EXCEPT !.state = "spawned"])
      BY <2>3, <2>4 DEF Kept, Counts
    <3>. QED BY <2>2, <3>1, <3>2, <3>3, <3>4 DEF Began
  <2>13. CASE SV_Disconnect_f \/ ServerTimeout
    <3>1. server' = Dropped(Noted) \/ server' = Dropped(server)
      BY <2>13 DEF SV_Disconnect_f, ServerTimeout, Serve
    <3>2. Kept(server, Dropped(Noted)) /\ Kept(server, Dropped(server))
      BY <1>0, <2>3, <2>4, DroppedKeeps, KeptTrans
    <3>. QED BY <2>2, <3>1, <3>2
  <2>. QED BY <1>3, <2>5, <2>6, <2>7, <2>8, <2>9, <2>10, <2>11, <2>12, <2>13 DEF ServerParse
<1>. QED BY <1>1, <1>2, <1>3

LEMMA NextSteps ==
  ASSUME TypeInv, TypeInv', LevelInv, StepInv, OwnAcks, [Next]_vars
  PROVE  StepInv' /\ OwnAcks'
<1>1. CASE SendClientMessages \/ ConfigString \/ Map \/ ServerReceive \/ ServerParse \/ ServerTimeout
  BY <1>1, ServerSteps, ServerAcks
<1>2. CASE \/ SendMessagesToServer \/ TypeCommand \/ Quit \/ AdjustServerTime
           \/ ClientReceive \/ ClientParse \/ LoseToServer \/ LoseToClient \/ ClientTimeout
  BY <1>2, ClientSteps
<1>3. CASE UNCHANGED vars
  BY <1>3 DEF vars, world, StepInv, NumberInv, ParsedInv, SentInv, Recalls, Recalled, InStep, Misled,
     Current, OwnAcks
<1>. QED BY <1>1, <1>2, <1>3 DEF Next

\* However changes of level, the handshake, losses and requests that are sent again cross, a
\* client in step that holds the data of a level which the server has left has "reconnect"
\* ahead of it among what the server still sends, unless SV_ParseClientMessage has believed
\* an acknowledgement of another numbering in this one.
THEOREM NobodyStranded == Spec => []NotStranded
<1>1. Init => StepInv /\ OwnAcks
  BY InitSteps
<1>2. TypeInv /\ TypeInv' /\ LevelInv /\ StepInv /\ OwnAcks /\ [Next]_vars => StepInv' /\ OwnAcks'
  BY NextSteps
<1>3. TypeInv /\ LevelInv /\ StepInv /\ OwnAcks => NotStranded
  <2>. SUFFICES ASSUME TypeInv, LevelInv, StepInv, OwnAcks PROVE NotStranded
    OBVIOUS
  <2>1. client.state = "active" => client.snap = client.servercount
    BY LifeLevels
  <2>2. ASSUME client.state \in {"connected", "active"}, client.servercount # level,
               InStep, ~Misled, server.state # "zombie"
        PROVE  \E n \in client.lastExecutedServerCommand + 1 .. server.reliableSequence :
                 /\ server.reliableAcknowledge < n
                 /\ server.reliableCommands[Slot(n)].kind = "reconnect"
    <3>1. PICK n \in client.lastExecutedServerCommand + 1 .. server.reliableSequence :
            server.reliableCommands[Slot(n)].kind = "reconnect"
      BY <2>2 DEF StepInv, Recalls, Ahead
    <3>2. server.reliableAcknowledge <= client.lastExecutedServerCommand
      BY <2>2 DEF OwnAcks
    <3>3. server.reliableAcknowledge \in Nat /\ client.lastExecutedServerCommand \in Nat
          /\ server.reliableSequence \in Nat
      BY StepTypes, ServerFields
    <3>4. server.reliableAcknowledge < n
      BY <3>2, <3>3
    <3>. QED BY <3>1, <3>4
  <2>. QED BY <2>1, <2>2 DEF NotStranded, OwnSnapshots
<1>. QED BY <1>1, <1>2, <1>3, LevelsInOrder, PTL DEF Spec, Safety
-----------------------------------------------------------------------------
(* Typed commands *)

\* What the server is to read are commands.
StreamTypes == \A i \in Rank : \A x \in Coming(i) :
  x \in Commands(ClientKinds \cup {"none"}) /\ x.num \in Nat /\ x.arg \in Nat /\ x.level \in Nat

LEMMA ItemsTypes ==
  ASSUME NEW s \in Seq(Commands(ClientKinds)), NEW x \in ItemsOf(s)
  PROVE  x \in Commands(ClientKinds \cup {"none"})
<1>1. PICK j \in 1 .. Len(s) : x = s[j]
  BY DEF ItemsOf
<1>2. x \in Commands(ClientKinds)
  BY <1>1
<1>. QED BY <1>2 DEF Commands

LEMMA ComingTypes == TypeInv => StreamTypes
<1>. SUFFICES ASSUME TypeInv, NEW i \in Rank, NEW x \in Coming(i)
              PROVE  x \in Commands(ClientKinds \cup {"none"})
  <2>1. \A x \in Commands(ClientKinds \cup {"none"}) : x.num \in Nat /\ x.arg \in Nat /\ x.level \in Nat
    BY DEF Commands
  <2>. QED BY <2>1 DEF StreamTypes
<1>1. svInput \in Seq(Commands(ClientKinds)) /\ toServer \in Seq(ToServer) /\ client \in Clients
  BY DEF TypeInv, GoodClient
<1>2. CASE i = 0
  BY <1>1, <1>2, ItemsTypes DEF Coming
<1>3. CASE i # 0 /\ i <= Len(toServer)
  <2>1. i \in 1 .. Len(toServer)
    BY <1>1, <1>3 DEF Rank
  <2>2. toServer[i].items \in Seq(Commands(ClientKinds))
    BY <1>1, <2>1, MessageTypes DEF ToServer
  <2>3. Coming(i) = ItemsOf(toServer[i].items)
    BY <1>3 DEF Coming
  <2>. QED BY <2>2, <2>3, ItemsTypes
<1>4. CASE i # 0 /\ ~(i <= Len(toServer))
  <2>1. Coming(i) = {client.reliableCommands[s] : s \in Slots}
    BY <1>4 DEF Coming
  <2>2. client.reliableCommands \in [Slots -> Commands(ClientKinds \cup {"none"})]
    BY <1>1, ClientFields
  <2>. QED BY <2>1, <2>2
<1>. QED BY <1>2, <1>3, <1>4

LEMMA ComingTypesNext == TypeInv' => StreamTypes'
BY ComingTypes, PTL

\* The place of the ring in the stream.
LEMMA RingRank ==
  ASSUME TypeInv
  PROVE  /\ Len(toServer) \in Nat /\ 0 \in Rank /\ Len(toServer) + 1 \in Rank
         /\ Coming(0) = ItemsOf(svInput)
         /\ \A i \in 1 .. Len(toServer) : i \in Rank /\ Coming(i) = ItemsOf(toServer[i].items)
         /\ Coming(Len(toServer) + 1) = {client.reliableCommands[s] : s \in Slots}
<1>1. Len(toServer) \in Nat
  BY DEF TypeInv
<1>. QED BY <1>1 DEF Rank, Coming

\* x was in the stream at m, or was added to the ring now, later than all others.
Newer(x) == x.kind = "typed" /\ typed < x.arg /\ x.arg <= typed' /\
  \A s \in Slots : client.reliableCommands[s].num < x.num
\* It is a "begin" of a level that the client holds the data of.
Begins(x) == x.kind = "begin" /\ (server'.state = "zombie" \/ x.level <= client.servercount)

\* The stream of a step: what comes at i came at m[i], or is added to the ring.
Flows(m, added) ==
  /\ m \in [Rank' -> Rank] /\ \A i \in Rank' : \A j \in Rank' : i <= j => m[i] <= m[j]
  /\ m[Len(toServer') + 1] = Len(toServer) + 1
  /\ \A i \in Rank' : \A x \in Coming(i)' : x.kind \in {"typed", "begin"} =>
       \/ x \in Coming(m[i])
       \/ i = Len(toServer') + 1 /\ x = added /\ (Newer(x) \/ Begins(x))

LEMMA FlowsStream ==
  ASSUME TypeInv, TypeInv', StreamInv, NEW m, NEW added, Flows(m, added), typed <= typed'
  PROVE  StreamInv'
<1>0. typed \in Nat /\ typed' \in Nat /\ Len(toServer) \in Nat /\ Len(toServer') \in Nat
  BY DEF TypeInv
<1>. DEFINE L == Len(toServer')
<1>1. ASSUME NEW i \in Rank', NEW x \in Coming(i)', x.kind = "typed"
      PROVE  /\ x.arg \in Nat /\ x.num \in Nat /\ m[i] \in Rank
             /\ x \in Coming(m[i]) \/ (i = L + 1 /\ x = added /\ Newer(x))
  <2>1. x.arg \in Nat /\ x.num \in Nat
    BY ComingTypesNext DEF StreamTypes
  <2>2. m[i] \in Rank
    BY DEF Flows
  <2>3. x \in Coming(m[i]) \/ (i = L + 1 /\ x = added /\ (Newer(x) \/ Begins(x)))
    BY <1>1 DEF Flows
  <2>. QED BY <1>1, <2>1, <2>2, <2>3 DEF Begins
<1>2. ASSUME NEW i \in Rank', NEW x \in Coming(i)', x.kind = "typed" PROVE x.arg <= typed'
  <2>1. CASE x \in Coming(m[i])
    <3>1. x.arg <= typed
      BY <1>1, <1>2, <2>1 DEF StreamInv
    <3>. QED BY <1>0, <1>1, <1>2, <3>1
  <2>2. CASE Newer(x)
    BY <2>2 DEF Newer
  <2>. QED BY <1>1, <1>2, <2>1, <2>2
<1>3. ASSUME NEW i \in Rank', NEW j \in i .. L + 1, NEW y \in Coming(i)', NEW x \in Coming(j)',
             y.kind = "typed", x.kind = "typed", x.arg <= y.arg
      PROVE  x.num <= y.num
  <2>0. j \in Rank' /\ i <= j /\ i \in Nat
    BY <1>0 DEF Rank
  <2>1. /\ y.arg \in Nat /\ y.num \in Nat /\ m[i] \in Rank
        /\ y \in Coming(m[i]) \/ (i = L + 1 /\ y = added /\ Newer(y))
    BY <1>1, <1>3
  <2>2. /\ x.arg \in Nat /\ x.num \in Nat /\ m[j] \in Rank
        /\ x \in Coming(m[j]) \/ (j = L + 1 /\ x = added /\ Newer(x))
    BY <1>1, <1>3, <2>0
  <2>3. CASE y \in Coming(m[i]) /\ x \in Coming(m[j])
    <3>1. m[i] <= m[j]
      BY <2>0 DEF Flows
    <3>2. m[j] \in m[i] .. Len(toServer) + 1
      BY <1>0, <2>1, <2>2, <3>1 DEF Rank
    <3>. QED BY <1>3, <2>1, <2>3, <3>2 DEF StreamInv
  <2>4. CASE y \in Coming(m[i]) /\ x = added /\ Newer(x)
    <3>1. y.arg <= typed
      BY <1>3, <2>1, <2>4 DEF StreamInv
    <3>2. typed < x.arg
      BY <2>4 DEF Newer
    <3>. QED BY <1>0, <1>3, <2>1, <2>2, <3>1, <3>2
  <2>5. CASE i = L + 1 /\ y = added /\ Newer(y) /\ x \in Coming(m[j])
    <3>1. j = L + 1 /\ m[j] = Len(toServer) + 1
      BY <1>0, <2>0, <2>5 DEF Flows
    <3>2. PICK s \in Slots : x = client.reliableCommands[s]
      BY <2>5, <3>1, RingRank
    <3>3. x.num < y.num
      BY <2>5, <3>2 DEF Newer
    <3>. QED BY <2>1, <2>2, <3>3
  <2>6. CASE y = added /\ x = added
    BY <2>1, <2>6
  <2>. QED BY <2>1, <2>2, <2>3, <2>4, <2>5, <2>6
<1>4. \A i \in Rank' : \A x \in Coming(i)' : x.kind = "typed" => x.arg <= typed'
  BY <1>2
<1>5. \A i \in Rank' : \A j \in i .. L + 1 : \A y \in Coming(i)', x \in Coming(j)' :
        y.kind = "typed" /\ x.kind = "typed" /\ x.arg <= y.arg => x.num <= y.num
  BY <1>3
<1>. QED BY <1>4, <1>5 DEF StreamInv
-----------------------------------------------------------------------------
\* Nothing in the stream is of a level that the client has not heard of.
LEMMA ComingLevels ==
  ASSUME TypeInv, LevelInv, NEW i \in Rank, NEW x \in Coming(i)
  PROVE  x.level <= Known
<1>0. x.kind # "serverdata"
  <2>1. x \in Commands(ClientKinds \cup {"none"})
    BY ComingTypes DEF StreamTypes
  <2>. QED BY <2>1 DEF Commands, ClientKinds
<1>1. ASSUME NEW s, Heard(s, Known), x \in ItemsOf(s) PROVE x.level <= Known
  BY <1>0, <1>1 DEF Heard, ItemsOf
<1>2. CASE i = 0
  BY <1>1, <1>2 DEF Coming, LevelInv, GoingInv
<1>3. CASE i # 0 /\ i <= Len(toServer)
  <2>1. i \in 1 .. Len(toServer)
    BY <1>3 DEF Rank, TypeInv
  <2>. QED BY <1>1, <1>3, <2>1 DEF Coming, LevelInv, GoingInv
<1>4. CASE i # 0 /\ ~(i <= Len(toServer))
  BY <1>4 DEF Coming, LevelInv, GoingInv
<1>. QED BY <1>2, <1>3, <1>4

\* How a step may change the server's part in OldInv.
Onward ==
  /\ server'.state = "spawned" =>
       server.state = "spawned" /\ server.clientCommandExecuted <= server'.clientCommandExecuted
  /\ server'.state \in {"connecting", "connected"} =>
       \/ server.state \in {"connecting", "connected"} /\ level' = level
       \/ level < level' /\ client' = client

LEMMA FlowsOld ==
  ASSUME TypeInv, TypeInv', LevelInv, RunInv, OldInv, NEW m, NEW added, Flows(m, added),
         executed' = executed, Onward,
         \A s \in Slots : client'.reliableCommands[s].kind = "typed" =>
           client'.servercount = client.servercount
  PROVE  OldInv'
<1>. DEFINE L == Len(toServer')
<1>0. /\ typed \in Nat /\ Len(toServer) \in Nat /\ L \in Nat /\ LastExecuted <= typed
      /\ LastExecuted \in Nat /\ level \in Nat /\ level' \in Nat /\ Known <= level /\ Known \in Nat
      /\ client.servercount \in Nat /\ client.servercount <= level
      /\ server.clientCommandExecuted \in Nat /\ server'.clientCommandExecuted \in Nat
  <2>1. typed \in Nat /\ Len(toServer) \in Nat /\ L \in Nat /\ executed \in Seq(Nat)
        /\ level' \in 1 .. MaxLevels /\ server \in Servers /\ server' \in Servers
    BY SMTT(30) DEF TypeInv, GoodServer
  <2>2. LastExecuted \in Nat
    BY <2>1 DEF LastExecuted
  <2>3. server.clientCommandExecuted \in Nat /\ server'.clientCommandExecuted \in Nat
    BY <2>1 DEF Servers
  <2>4. level' \in Nat
    BY <2>1, SizeAssumption
  <2>. QED BY <2>1, <2>2, <2>3, <2>4, KnownType DEF RunInv, LevelInv
<1>1. ASSUME NEW j \in Rank', NEW x \in Coming(j)', Old(x)'
      PROVE  /\ x \in Coming(m[j]) /\ m[j] \in Rank /\ Old(x) /\ x.num \in Nat
             /\ x.kind = "typed" /\ j \in Nat /\ j <= L + 1
  <2>1. x.num \in Nat /\ x.arg \in Nat
    BY ComingTypesNext DEF StreamTypes
  <2>2. Old(x) /\ x.kind = "typed" /\ x.arg <= LastExecuted
    BY <1>1 DEF Old, LastExecuted
  <2>3. ~Newer(x)
    BY <1>0, <2>1, <2>2 DEF Newer
  <2>4. x \in Coming(m[j]) /\ m[j] \in Rank
    BY <2>2, <2>3 DEF Flows, Begins
  <2>. QED BY <1>0, <2>1, <2>2, <2>4 DEF Rank
<1>2. ASSUME server'.state = "spawned", NEW j \in Rank', NEW x \in Coming(j)', Old(x)'
      PROVE  Executed(server, x)'
  <2>1. x \in Coming(m[j]) /\ m[j] \in Rank /\ Old(x) /\ x.num \in Nat
    BY <1>1, <1>2
  <2>2. server.state = "spawned" /\ server.clientCommandExecuted <= server'.clientCommandExecuted
    BY <1>2 DEF Onward
  <2>3. x.num <= server.clientCommandExecuted
    BY <2>1, <2>2 DEF OldInv, Executed
  <2>. QED BY <1>0, <2>1, <2>2, <2>3 DEF Executed
<1>3. ASSUME server'.state \in {"connecting", "connected"},
             NEW j \in Rank', NEW x \in Coming(j)', Old(x)',
             NEW i \in 0 .. j, NEW b \in Coming(i)', b.kind = "begin"
      PROVE  b.level < level'
  <2>1. /\ x \in Coming(m[j]) /\ m[j] \in Rank /\ Old(x) /\ j \in Nat /\ j <= L + 1
    BY <1>1, <1>3
  <2>2. i \in Rank' /\ i <= j /\ m[i] \in Rank /\ m[i] <= m[j]
    <3>1. i \in Rank' /\ i <= j
      BY <1>0, <2>1 DEF Rank
    <3>. QED BY <3>1 DEF Flows
  <2>3. b.level \in Nat
    BY <2>2, ComingTypesNext DEF StreamTypes
  <2>4. b \in Coming(m[i]) \/ (i = L + 1 /\ Begins(b))
    BY <1>3, <2>2 DEF Flows, Newer
  <2>5. i = L + 1 => m[j] = Len(toServer) + 1
    BY <1>0, <2>1, <2>2 DEF Flows
  <2>6. m[i] \in 0 .. m[j] /\ m[j] \in Nat
    BY <1>0, <2>1, <2>2 DEF Rank
  <2>7. Begins(b) => b.level <= client.servercount
    BY <1>3 DEF Begins
  <2>8. CASE server.state \in {"connecting", "connected"} /\ level' = level
    <3>1. /\ \A k \in 0 .. m[j] : \A a \in Coming(k) : a.kind = "begin" => a.level < level
          /\ m[j] > Len(toServer) => client.servercount < level
      BY <2>1, <2>8 DEF OldInv
    <3>2. CASE b \in Coming(m[i])
      BY <1>3, <2>6, <2>8, <3>1, <3>2
    <3>3. CASE i = L + 1 /\ Begins(b)
      BY <1>0, <2>3, <2>5, <2>7, <2>8, <3>1, <3>3
    <3>. QED BY <2>4, <3>2, <3>3
  <2>9. CASE level < level'
    <3>1. b \in Coming(m[i]) => b.level <= Known
      BY <2>2, ComingLevels
    <3>. QED BY <1>0, <2>3, <2>4, <2>7, <2>9, <3>1
  <2>. QED BY <1>3, <2>8, <2>9 DEF Onward
<1>4. ASSUME server'.state \in {"connecting", "connected"},
             NEW j \in Rank', NEW x \in Coming(j)', Old(x)', j > L
      PROVE  client'.servercount < level'
  <2>1. /\ x \in Coming(m[j]) /\ m[j] \in Rank /\ Old(x) /\ x.kind = "typed" /\ j = L + 1
    BY <1>0, <1>1, <1>4
  <2>2. m[j] = Len(toServer) + 1
    BY <2>1 DEF Flows
  <2>3. client'.servercount = client.servercount
    <3>1. Coming(j)' = {client'.reliableCommands[s] : s \in Slots}
      BY <1>0, <2>1 DEF Coming
    <3>. QED BY <1>4, <2>1, <3>1
  <2>4. CASE server.state \in {"connecting", "connected"} /\ level' = level
    <3>1. m[j] > Len(toServer)
      BY <1>0, <2>2
    <3>2. client.servercount < level
      BY <2>1, <2>4, <3>1 DEF OldInv
    <3>. QED BY <2>3, <2>4, <3>2
  <2>5. CASE level < level'
    BY <1>0, <2>3, <2>5
  <2>. QED BY <1>4, <2>4, <2>5 DEF Onward
<1>. QED BY <1>2, <1>3, <1>4 DEF OldInv

\* The server reads on.
LEMMA ReadFlows ==
  ASSUME TypeInv, TypeInv', UNCHANGED <<client, toServer>>,
         \A x \in ItemsOf(svInput') : x.kind \in {"typed", "begin"} => x \in ItemsOf(svInput)
  PROVE  \E m : Flows(m, Empty)
<1>. DEFINE m == [i \in Rank' |-> i]
<1>1. Rank' = Rank
  BY DEF Rank
<1>2. m \in [Rank' -> Rank] /\ \A i \in Rank' : m[i] = i
  BY <1>1
<1>3. Len(toServer') + 1 \in Rank' /\ toServer' = toServer
  BY RingRank, <1>1
<1>. HIDE DEF m
<1>4. ASSUME NEW i \in Rank', NEW x \in Coming(i)', x.kind \in {"typed", "begin"}
      PROVE  x \in Coming(i)
  <2>1. CASE i = 0
    BY <1>4, <2>1 DEF Coming
  <2>2. CASE i # 0
    BY <1>3, <1>4, <2>2 DEF Coming
  <2>. QED BY <2>1, <2>2
<1>5. Flows(m, Empty)
  BY <1>2, <1>3, <1>4 DEF Flows
<1>. QED BY <1>5

\* The first message leaves the channel; it is read, or it is not.
LEMMA TakeFlows ==
  ASSUME TypeInv, TypeInv', client' = client, toServer # <<>>, toServer' = Tail(toServer),
         svInput' = svInput \/ svInput' = Head(toServer).items
  PROVE  \E m : Flows(m, Empty)
<1>. DEFINE L == Len(toServer)
<1>1. /\ Len(toServer') = L - 1 /\ L \in Nat \ {0} /\ Head(toServer) = toServer[1]
      /\ \A i \in 1 .. L - 1 : toServer'[i] = toServer[i + 1]
  <2>1. toServer \in Seq(ToServer)
    BY DEF TypeInv
  <2>. QED BY <2>1, TailFacts
<1>. DEFINE zero == IF svInput' = svInput THEN 0 ELSE 1
            m == [i \in Rank' |-> IF i = 0 THEN zero ELSE i + 1]
<1>2. Rank = 0 .. L + 1 /\ Rank' = 0 .. L /\ zero \in {0, 1}
  <2>1. L - 1 + 1 = L
    BY <1>1
  <2>. QED BY <1>1, <2>1 DEF Rank
<1>. HIDE DEF zero
<1>3. m \in [Rank' -> Rank] /\ \A i \in Rank' : m[i] = IF i = 0 THEN zero ELSE i + 1
  <2>1. \A i \in Rank' : (IF i = 0 THEN zero ELSE i + 1) \in Rank
    BY <1>1, <1>2
  <2>. QED BY <2>1
<1>. HIDE DEF m, L
<1>4. \A i \in Rank' : \A j \in Rank' : i <= j => m[i] <= m[j]
  BY SMTT(30), <1>1, <1>2, <1>3
<1>5. m[Len(toServer') + 1] = L + 1
  <2>1. L \in Rank' /\ L # 0
    BY <1>1, <1>2
  <2>2. Len(toServer') + 1 = L
    BY <1>1
  <2>. QED BY <1>3, <2>1, <2>2
<1>6. ASSUME NEW i \in Rank', NEW x \in Coming(i)'
      PROVE  x \in Coming(m[i])
  <2>1. CASE i = 0
    <3>1. x \in ItemsOf(svInput') /\ m[i] = zero
      BY <1>3, <1>6, <2>1 DEF Coming
    <3>2. Coming(0) = ItemsOf(svInput) /\ Coming(1) = ItemsOf(Head(toServer).items)
      BY <1>1 DEF Coming, L
    <3>. QED BY <3>1, <3>2 DEF zero
  <2>2. CASE i # 0 /\ i <= L - 1
    <3>1. m[i] = i + 1 /\ i \in 1 .. L - 1 /\ i + 1 # 0 /\ i + 1 <= L
      BY <1>1, <1>2, <1>3, <2>2
    <3>2. Coming(i)' = ItemsOf(toServer'[i].items)
      BY <1>1, <2>2 DEF Coming
    <3>3. Coming(i + 1) = ItemsOf(toServer[i + 1].items)
      BY <3>1 DEF Coming, L
    <3>. QED BY <1>1, <1>6, <3>1, <3>2, <3>3
  <2>3. CASE i # 0 /\ ~(i <= L - 1)
    <3>1. m[i] = i + 1 /\ i + 1 # 0 /\ ~(i + 1 <= L)
      BY <1>1, <1>2, <1>3, <2>3
    <3>2. Coming(i)' = {client.reliableCommands[s] : s \in Slots}
      BY <1>1, <2>3 DEF Coming
    <3>3. Coming(i + 1) = {client.reliableCommands[s] : s \in Slots}
      BY <3>1 DEF Coming, L
    <3>. QED BY <1>6, <3>1, <3>2, <3>3
  <2>. QED BY <2>1, <2>2, <2>3
<1>7. Flows(m, Empty)
  BY <1>3, <1>4, <1>5, <1>6 DEF Flows, L
<1>. QED BY <1>7

\* The client tells what is in its ring, and may add to it.
LEMMA TellFlows ==
  ASSUME TypeInv, TypeInv', svInput' = svInput, NEW msgs \in Seq(ToServer), toServer' = toServer \o msgs,
         \A i \in 1 .. Len(msgs) : \A x \in ItemsOf(msgs[i].items) : x.kind \in {"typed", "begin"} =>
           \E s \in Slots : x = client.reliableCommands[s],
         NEW added,
         \A s \in Slots : client'.reliableCommands[s].kind \in {"typed", "begin"} =>
           \/ \E t \in Slots : client'.reliableCommands[s] = client.reliableCommands[t]
           \/ client'.reliableCommands[s] = added /\ (Newer(added) \/ Begins(added))
  PROVE  \E m : Flows(m, added)
<1>. DEFINE L == Len(toServer)
            n == Len(msgs)
            ring == {client.reliableCommands[s] : s \in Slots}
<1>1. /\ Len(toServer') = L + n /\ L \in Nat /\ n \in Nat
      /\ \A i \in 1 .. L : toServer'[i] = toServer[i]
      /\ \A i \in 1 .. n : toServer'[L + i] = msgs[i]
  <2>1. toServer \in Seq(ToServer)
    BY DEF TypeInv
  <2>. QED BY <2>1, ConcatFacts
<1>. DEFINE m == [i \in Rank' |-> IF i <= L THEN i ELSE L + 1]
<1>2. Rank = 0 .. L + 1 /\ Rank' = 0 .. L + n + 1
  BY <1>1 DEF Rank
<1>3. m \in [Rank' -> Rank] /\ \A i \in Rank' : m[i] = IF i <= L THEN i ELSE L + 1
  <2>1. \A i \in Rank' : (IF i <= L THEN i ELSE L + 1) \in Rank
    BY <1>1, <1>2
  <2>. QED BY <2>1
<1>. HIDE DEF m, L, n
<1>4. \A i \in Rank' : \A j \in Rank' : i <= j => m[i] <= m[j]
  BY SMTT(30), <1>1, <1>2, <1>3
<1>5. m[Len(toServer') + 1] = L + 1
  <2>1. L + n + 1 \in Rank' /\ ~(L + n + 1 <= L)
    BY <1>1, <1>2
  <2>. QED BY <1>1, <1>3, <2>1
<1>6. Coming(L + 1) = ring
  BY <1>1 DEF Coming, L
<1>. HIDE DEF ring
<1>7. ASSUME NEW i \in Rank', NEW x \in Coming(i)', x.kind \in {"typed", "begin"}
      PROVE  \/ x \in Coming(m[i])
             \/ i = Len(toServer') + 1 /\ x = added /\ (Newer(x) \/ Begins(x))
  <2>1. CASE i = 0
    <3>1. m[i] = 0 /\ Coming(0)' = Coming(0)
      BY <1>1, <1>3, <2>1 DEF Coming
    <3>. QED BY <1>7, <2>1, <3>1
  <2>2. CASE i # 0 /\ i <= L
    <3>1. m[i] = i /\ i \in 1 .. L /\ i <= Len(toServer')
      BY <1>1, <1>2, <1>3, <2>2
    <3>2. Coming(i)' = ItemsOf(toServer'[i].items) /\ Coming(i) = ItemsOf(toServer[i].items)
      BY <2>2, <3>1 DEF Coming, L
    <3>. QED BY <1>1, <1>7, <3>1, <3>2
  <2>3. CASE i # 0 /\ ~(i <= L) /\ i <= L + n
    <3>. DEFINE k == i - L
    <3>1. m[i] = L + 1 /\ k \in 1 .. n /\ L + k = i
      BY <1>1, <1>2, <1>3, <2>3
    <3>2. Coming(i)' = ItemsOf(msgs[k].items)
      <4>1. Coming(i)' = ItemsOf(toServer'[i].items)
        BY <1>1, <2>3 DEF Coming
      <4>2. toServer'[i] = msgs[k]
        BY <1>1, <3>1
      <4>. QED BY <4>1, <4>2
    <3>3. x \in ring
      <4>1. k \in 1 .. Len(msgs) /\ x \in ItemsOf(msgs[k].items)
        BY <1>7, <3>1, <3>2 DEF n
      <4>2. \E s \in Slots : x = client.reliableCommands[s]
        BY <1>7, <4>1
      <4>. QED BY <4>2 DEF ring
    <3>. QED BY <1>6, <3>1, <3>3
  <2>4. CASE i # 0 /\ ~(i <= L + n)
    <3>1. i = L + n + 1 /\ m[i] = L + 1
      BY <1>1, <1>2, <1>3, <2>4
    <3>2. Coming(i)' = {client'.reliableCommands[s] : s \in Slots}
      BY <1>1, <2>4 DEF Coming
    <3>3. PICK s \in Slots : x = client'.reliableCommands[s]
      BY <1>7, <3>2
    <3>4. CASE \E t \in Slots : x = client.reliableCommands[t]
      BY <1>6, <3>1, <3>4 DEF ring
    <3>5. CASE x = added /\ (Newer(added) \/ Begins(added))
      BY <1>1, <3>1, <3>5
    <3>. QED BY <1>7, <3>3, <3>4, <3>5
  <2>. QED BY <2>1, <2>2, <2>3, <2>4
<1>8. Flows(m, added)
  BY <1>3, <1>4, <1>5, <1>7 DEF Flows, L
<1>. QED BY <1>8
-----------------------------------------------------------------------------
\* What a step keeps, by where its commands come from.
LEMMA FlowsTyped ==
  ASSUME TypeInv, TypeInv', LevelInv, TypedInv, NEW m, NEW added, Flows(m, added),
         typed <= typed', executed' = executed, Onward, OwnNumbers(client'),
         \A s \in Slots : client'.reliableCommands[s].kind = "typed" =>
           client'.servercount = client.servercount
  PROVE  TypedInv'
<1>1. RunInv /\ StreamInv /\ OldInv
  BY DEF TypedInv
<1>2. StreamInv'
  BY <1>1, FlowsStream
<1>3. OldInv'
  BY <1>1, FlowsOld
<1>4. RunInv'
  <2>1. executed \in Seq(Nat) /\ typed \in Nat /\ typed' \in Nat
    BY DEF TypeInv
  <2>2. LastExecuted \in Nat /\ LastExecuted' = LastExecuted
    BY <2>1 DEF LastExecuted
  <2>3. LastExecuted' <= typed'
    BY <1>1, <2>1, <2>2 DEF RunInv
  <2>. QED BY <1>1, <2>2, <2>3 DEF RunInv, TypedInOrder
<1>. QED BY <1>2, <1>3, <1>4 DEF TypedInv

\* The server reads or acts.
LEMMA ReadTyped ==
  ASSUME TypeInv, TypeInv', LevelInv, TypedInv, UNCHANGED <<client, toServer, typed, executed>>, Onward,
         \A x \in ItemsOf(svInput') : x.kind \in {"typed", "begin"} => x \in ItemsOf(svInput)
  PROVE  TypedInv'
<1>1. PICK m : Flows(m, Empty)
  BY ReadFlows
<1>2. OwnNumbers(client') /\ typed <= typed'
  BY DEF TypedInv, TypeInv
<1>. QED BY <1>1, <1>2, FlowsTyped

\* A command of the server changes no number of the client's.
Reacts(c, d) == d.state \in {c.state, "zombie"} /\ d.clientCommandExecuted = c.clientCommandExecuted

LEMMA SendReacts ==
  ASSUME NEW c \in Servers, NEW cmd
  PROVE  Reacts(c, SendServerCommand(c, cmd))
<1>. DEFINE d == SendServerCommand(c, cmd)
<1>1. Reacts(c, c)
  BY DEF Reacts
<1>2. Reacts(c, Store(c, cmd))
  BY DEF Reacts, Store, Servers
<1>3. Reacts(c, Dropped(c))
  BY DEF Reacts, Dropped, Store, Servers
<1>4. ASSUME NEW s, NEW r PROVE Reacts(c, [c EXCEPT !.reliableCommands = r])
  BY DEF Reacts, Servers
<1>5. CASE cmd.kind = "cs" /\ Batches(c, cmd) # {} /\ c.state # "zombie"
  <2>. DEFINE i == Slot(Max(Batches(c, cmd)))
              r == [c.reliableCommands EXCEPT ![i].strings = @ \o cmd.strings]
  <2>1. d = [c EXCEPT !.reliableCommands[i].strings = @ \o cmd.strings]
    BY <1>5 DEF SendServerCommand
  <2>. HIDE DEF i, d
  <2>2. d = [c EXCEPT !.reliableCommands = r]
    BY <2>1
  <2>. HIDE DEF r
  <2>. QED BY <1>4, <2>2 DEF d
<1>6. CASE ~(cmd.kind = "cs" /\ Batches(c, cmd) # {} /\ c.state # "zombie")
  BY <1>1, <1>2, <1>3, <1>6 DEF SendServerCommand
<1>. QED BY <1>5, <1>6

LEMMA ReactsOnward ==
  ASSUME TypeInv, level' = level, Reacts(server, server')
  PROVE  Onward
<1>1. server.clientCommandExecuted \in Nat
  BY DEF TypeInv, GoodServer, Servers
<1>. QED BY <1>1 DEF Reacts, Onward

LEMMA SendClientMessagesTyped ==
  ASSUME TypeInv, TypeInv', LevelInv, TypedInv, SendClientMessages
  PROVE  TypedInv'
<1>1. /\ UNCHANGED <<client, toServer, typed, executed, svInput, level>>
      /\ server' = AllSent(server)
  BY DEF SendClientMessages, Serve, world
<1>2. Reacts(server, server')
  BY <1>1, KnownType, AllSentIs DEF Reacts
<1>. QED BY <1>1, <1>2, ReactsOnward, ReadTyped

LEMMA ConfigStringTyped ==
  ASSUME TypeInv, TypeInv', LevelInv, TypedInv, ConfigString
  PROVE  TypedInv'
<1>1. PICK i \in Index, size \in Sizes : Serve(SendServerCommand(server, Cs(i)'), <<>>)
  BY DEF ConfigString
<1>2. UNCHANGED <<client, toServer, typed, executed, svInput, level>>
  BY DEF ConfigString
<1>3. Reacts(server, server')
  BY <1>1, KnownType, SendReacts DEF Serve
<1>. QED BY <1>2, <1>3, ReactsOnward, ReadTyped

\* No "begin" that is under way is of the new level.
LEMMA MapTyped ==
  ASSUME TypeInv, TypeInv', LevelInv, TypedInv, Map
  PROVE  TypedInv'
<1>1. /\ UNCHANGED <<client, toServer, typed, executed, svInput>> /\ level < level'
  BY KnownType DEF Map
<1>2. server'.state # "spawned"
  <2>1. Awaiting \in Servers /\ Awaiting.state # "spawned"
    BY AwaitingIs
  <2>2. ToldChanging \in Servers /\ ToldChanging.state # "spawned"
    BY <2>1, MapRecords, SendReacts DEF ToldChanging, Reacts
  <2>3. ToldReconnect.state # "spawned"
    <3>1. AllSent(ToldChanging) \in Servers /\ AllSent(ToldChanging).state # "spawned"
      BY <2>2, MapRecords, AllSentIs
    <3>. QED BY <3>1, SendReacts DEF ToldReconnect, Reacts
  <2>4. server' \in {ToldChanging, ToldReconnect}
    BY MapServes DEF Serve
  <2>. QED BY <2>2, <2>3, <2>4
<1>3. Onward
  BY <1>1, <1>2 DEF Onward
<1>. QED BY <1>1, <1>3, ReadTyped

LEMMA TakeTyped ==
  ASSUME TypeInv, TypeInv', LevelInv, TypedInv, ServerReceive \/ LoseToServer
  PROVE  TypedInv'
<1>1. /\ toServer # <<>> /\ toServer' = Tail(toServer) /\ UNCHANGED <<client, typed, executed, level>>
      /\ svInput' = svInput \/ svInput' = Head(toServer).items
  BY DEF ServerReceive, LoseToServer, world
<1>2. PICK m : Flows(m, Empty)
  BY <1>1, TakeFlows
<1>3. Reacts(server, server')
  <2>1. \/ server' = server
        \/ server' = [server EXCEPT !.reliableAcknowledge = Head(toServer).ack]
    BY DEF ServerReceive, LoseToServer
  <2>. QED BY <2>1, KnownType DEF Reacts, Servers
<1>4. OwnNumbers(client') /\ typed <= typed'
  BY <1>1 DEF TypedInv, TypeInv
<1>5. Onward
  BY <1>1, <1>3, ReactsOnward
<1>. QED BY <1>1, <1>2, <1>4, <1>5, FlowsTyped

\* A command of the client was handled.
LEMMA HandledTyped ==
  ASSUME TypeInv, TypeInv', LevelInv, TypedInv, svInput # <<>>, executed' = executed, Onward,
         UNCHANGED <<client, toServer, typed>>, svInput' = <<>> \/ svInput' = Tail(svInput)
  PROVE  TypedInv'
<1>1. ItemsOf(svInput') \subseteq ItemsOf(svInput)
  <2>1. svInput \in Seq(Commands(ClientKinds))
    BY DEF TypeInv
  <2>2. /\ Len(Tail(svInput)) = Len(svInput) - 1 /\ Len(svInput) \in Nat \ {0}
        /\ \A i \in 1 .. Len(svInput) - 1 : Tail(svInput)[i] = svInput[i + 1]
    BY <2>1, TailFacts
  <2>3. ItemsOf(<<>>) = {}
    BY DEF ItemsOf
  <2>4. ItemsOf(Tail(svInput)) \subseteq ItemsOf(svInput)
    <3>1. \A i \in 1 .. Len(svInput) - 1 : i + 1 \in 1 .. Len(svInput)
      BY <2>2
    <3>. QED BY <2>2, <3>1 DEF ItemsOf
  <2>. QED BY <2>3, <2>4
<1>. QED BY <1>1, ReadTyped

LEMMA ServerSkipsTyped ==
  ASSUME TypeInv, TypeInv', LevelInv, TypedInv, ServerSkips
  PROVE  TypedInv'
<1>1. /\ svInput # <<>> /\ svInput' = Tail(svInput)
      /\ UNCHANGED <<server, client, toServer, typed, executed, level>>
  BY DEF ServerSkips, world
<1>2. Onward
  BY <1>1, ReactsOnward DEF Reacts
<1>. QED BY <1>1, <1>2, HandledTyped

\* What is taken has a higher number than what was executed.
LEMMA TakenAbove ==
  ASSUME TypeInv, NEW kind, Taking(kind)
  PROVE  /\ svInput # <<>> /\ Noted \in Servers /\ GoodServer(Noted) /\ Noted.state = server.state
         /\ Noted.clientCommandExecuted = Head(svInput).num
         /\ server.clientCommandExecuted < Head(svInput).num
         /\ server.clientCommandExecuted \in Nat /\ Head(svInput).num \in Nat
<1>1. svInput # <<>> /\ ~(Head(svInput).num <= server.clientCommandExecuted)
  BY DEF Taking, Executed
<1>2. server.clientCommandExecuted \in Nat
  BY DEF TypeInv, GoodServer, Servers
<1>. QED BY <1>1, <1>2, TakenType, NotedIs

\* The server's handlers, but for those that execute the player's commands.
LEMMA NewTyped ==
  ASSUME TypeInv, TypeInv', LevelInv, TypedInv, NEW kind, kind # "configstrings", Taking(kind),
         New(Noted), Handled, executed' = executed
  PROVE  TypedInv'
<1>1. /\ Noted \in Servers /\ Noted.state = server.state
      /\ server.clientCommandExecuted <= Noted.clientCommandExecuted
      /\ svInput # <<>> /\ server.state # "zombie"
  BY TakenAbove, TakingAlive
<1>2. UNCHANGED <<client, toServer, typed, level>> /\ (svInput' = <<>> \/ svInput' = Tail(svInput))
  BY DEF Handled, world
<1>3. Onward
  <2>1. CASE Noted.state = "spawned"
    <3>1. server' = Noted
      BY <2>1 DEF New, Serve
    <3>. QED BY <1>1, <2>1, <3>1 DEF Onward
  <2>2. CASE Noted.state # "spawned"
    <3>. DEFINE d == [ResetCommandBuffers(Noted) EXCEPT !.state = "connecting"]
    <3>1. d.state = "connecting"
      BY <1>1, ResetIs
    <3>2. server' = d
      BY <2>2 DEF New, Serve
    <3>. HIDE DEF d
    <3>3. server.state \in {"connecting", "connected"}
      BY <1>1, <2>2 DEF TypeInv, GoodServer, Servers
    <3>4. server'.state = "connecting" /\ level' = level
      BY <1>2, <3>1, <3>2
    <3>. QED BY <3>3, <3>4 DEF Onward
  <2>. QED BY <2>1, <2>2
<1>. QED BY <1>1, <1>2, <1>3, HandledTyped

LEMMA SV_New_fTyped ==
  ASSUME TypeInv, TypeInv', LevelInv, TypedInv, SV_New_f
  PROVE  TypedInv'
BY NewTyped DEF SV_New_f
-----------------------------------------------------------------------------
LEMMA ConfigstringsLoopTyped ==
  ASSUME TypeInv, TypeInv', LevelInv, TypedInv, ConfigstringsLoop
  PROVE  TypedInv'
<1>1. /\ UNCHANGED <<client, toServer, typed, executed, level>>
      /\ svInput # <<>> /\ Head(svInput).kind = "configstrings"
      /\ svInput' = [svInput EXCEPT ![1].arg = @ + 1]
  BY DEF ConfigstringsLoop, Taking, world
<1>2. Onward
  <2>1. server.state \in {"connecting", "connected"}
    BY DEF ConfigstringsLoop, InLoop, StartsConnected
  <2>2. Reacts(Looping, server')
    BY LoopIs, SendReacts DEF Serve
  <2>3. Looping.state = "connected"
    BY LoopIs
  <2>4. server'.state # "spawned"
    BY <2>2, <2>3 DEF Reacts
  <2>. QED BY <1>1, <2>1, <2>4 DEF Onward
<1>3. ASSUME NEW x \in ItemsOf(svInput'), x.kind \in {"typed", "begin"} PROVE x \in ItemsOf(svInput)
  <2>1. svInput \in Seq(Commands(ClientKinds)) /\ svInput[1].kind = "configstrings"
    BY <1>1, TakenType DEF TypeInv
  <2>2. PICK j \in 1 .. Len(svInput') : x = svInput'[j]
    BY DEF ItemsOf
  <2>3. Len(svInput') = Len(svInput) /\ DOMAIN svInput' = DOMAIN svInput
    BY <1>1, <2>1
  <2>4. j \in 1 .. Len(svInput)
    BY <2>3
  <2>5. CASE j = 1
    <3>1. svInput'[1] = [svInput[1] EXCEPT !.arg = @ + 1]
      BY <1>1, <2>1, <2>4, <2>5
    <3>2. svInput[1] \in Commands(ClientKinds)
      BY <2>1, <2>4, <2>5
    <3>3. svInput'[1].kind = "configstrings"
      BY <2>1, <3>1, <3>2 DEF Commands
    <3>. QED BY <1>3, <2>2, <2>5, <3>3
  <2>6. CASE j # 1
    <3>1. svInput'[j] = svInput[j]
      BY <1>1, <2>1, <2>4, <2>6
    <3>. QED BY <2>2, <2>4, <3>1 DEF ItemsOf
  <2>. QED BY <2>5, <2>6
<1>. QED BY <1>1, <1>2, <1>3, ReadTyped

\* A handler that answers, for a client that stays in the state it was in.
LEMMA ReactTyped ==
  ASSUME TypeInv, TypeInv', LevelInv, TypedInv, NEW kind, Taking(kind), NEW c, Reacts(c, server'),
         c.clientCommandExecuted = Noted.clientCommandExecuted,
         \/ c.state = server.state
         \/ c.state # "spawned" /\ server.state \in {"connecting", "connected"},
         Handled, executed' = executed
  PROVE  TypedInv'
<1>1. UNCHANGED <<client, toServer, typed, level>> /\ (svInput' = <<>> \/ svInput' = Tail(svInput))
  BY DEF Handled, world
<1>2. /\ svInput # <<>> /\ server.clientCommandExecuted < Noted.clientCommandExecuted
      /\ server.clientCommandExecuted \in Nat /\ Noted.clientCommandExecuted \in Nat
  BY TakenAbove
<1>3. server.clientCommandExecuted <= server'.clientCommandExecuted
  BY <1>2 DEF Reacts
<1>4. Onward
  BY <1>1, <1>3 DEF Reacts, Onward
<1>. QED BY <1>1, <1>2, <1>4, HandledTyped

LEMMA SV_Configstrings_fTyped ==
  ASSUME TypeInv, TypeInv', LevelInv, TypedInv, SV_Configstrings_f
  PROVE  TypedInv'
<1>1. Taking("configstrings") /\ Handled /\ executed' = executed
  BY DEF SV_Configstrings_f
<1>2. ConfigStart \in Servers /\ ConfigStart.state = StartsConnected /\ server' = Configured
  BY ConfigstringsIs DEF Serve
<1>3. Reacts(ConfigStart, server')
  BY <1>2, SendReacts DEF Configured, Reacts
<1>4. ConfigStart.clientCommandExecuted = Noted.clientCommandExecuted
  <2>1. Noted \in Servers
    BY <1>1, TakenAbove
  <2>. QED BY <2>1 DEF ConfigStart, Servers
<1>5. \/ ConfigStart.state = server.state
      \/ ConfigStart.state # "spawned" /\ server.state \in {"connecting", "connected"}
  BY <1>2 DEF StartsConnected
<1>. QED BY <1>1, <1>3, <1>4, <1>5, ReactTyped

LEMMA SV_Baselines_fTyped ==
  ASSUME TypeInv, TypeInv', LevelInv, TypedInv, SV_Baselines_f
  PROVE  TypedInv'
<1>1. Taking("baselines") /\ Handled /\ executed' = executed
  BY DEF SV_Baselines_f
<1>2. Noted \in Servers /\ Noted.state = server.state
  BY <1>1, TakenAbove
<1>3. CASE Noted.state = "connected" /\ Head(svInput).level # level
  BY <1>1, <1>3, NewTyped DEF SV_Baselines_f
<1>4. CASE ~(Noted.state = "connected" /\ Head(svInput).level # level)
  <2>1. Reacts(Noted, server')
    <3>1. CASE Noted.state # "connected"
      BY <3>1 DEF SV_Baselines_f, Serve, Reacts
    <3>2. CASE Noted.state = "connected" /\ Head(svInput).level = level
      <4>1. server' = AllSent(Baselined)
        BY <3>2 DEF SV_Baselines_f, Baselined, Serve
      <4>2. /\ AllSent(Baselined).state = Baselined.state
            /\ AllSent(Baselined).clientCommandExecuted = Baselined.clientCommandExecuted
        BY <1>1, TakenAbove, BaselinedIs, AllSentIs
      <4>3. Reacts(Noted, Baselined)
        BY <1>2, SendReacts DEF Baselined
      <4>. QED BY <4>1, <4>2, <4>3 DEF Reacts
    <3>. QED BY <1>4, <3>1, <3>2
  <2>. QED BY <1>1, <1>2, <2>1, ReactTyped
<1>. QED BY <1>3, <1>4

\* A client spawns with no old command under way.
LEMMA SV_Begin_fTyped ==
  ASSUME TypeInv, TypeInv', LevelInv, TypedInv, SV_Begin_f
  PROVE  TypedInv'
<1>1. /\ Taking("begin") /\ Handled /\ executed' = executed /\ server' = Began
  BY DEF SV_Begin_f, Serve, Began, ToldAgain
<1>2. Noted \in Servers /\ Noted.state = server.state /\ svInput # <<>> /\ Head(svInput).kind = "begin"
  BY <1>1, TakenAbove DEF Taking
<1>3. CASE Noted.state # "connected"
  <2>1. Reacts(Noted, server')
    BY <1>1, <1>2, <1>3 DEF Began, Reacts, Dropped, Store, Servers
  <2>. QED BY <1>1, <1>2, <2>1, ReactTyped
<1>4. CASE Noted.state = "connected" /\ Head(svInput).level # level
  <2>. DEFINE c == SendServerCommand(Noted, Plain("changing"))
  <2>1. c \in Servers /\ Reacts(Noted, c)
    BY <1>2, BeganIs, SendReacts
  <2>2. server' = SendServerCommand(c, Plain("reconnect"))
    BY <1>1, <1>4 DEF Began, ToldAgain
  <2>. HIDE DEF c
  <2>3. Reacts(c, server')
    BY <2>1, <2>2, SendReacts
  <2>4. Reacts(Noted, server')
    BY <2>1, <2>3 DEF Reacts
  <2>. QED BY <1>1, <1>2, <2>4, ReactTyped
<1>5. CASE Noted.state = "connected" /\ Head(svInput).level = level
  <2>1. UNCHANGED <<client, toServer, typed, level>> /\ (svInput' = <<>> \/ svInput' = Tail(svInput))
    BY <1>1 DEF Handled, world
  <2>2. server'.state = "spawned"
    BY <1>1, <1>2, <1>5 DEF Began, Servers
  <2>3. ASSUME NEW j \in Rank, NEW x \in Coming(j) PROVE ~Old(x)
    <3>1. Head(svInput) \in Coming(0)
      <4>1. svInput \in Seq(Commands(ClientKinds)) /\ Head(svInput) = svInput[1]
        BY <1>2, TakenType DEF TypeInv
      <4>2. 1 \in 1 .. Len(svInput)
        BY <1>2, <4>1
      <4>. QED BY <4>1, <4>2 DEF Coming, ItemsOf
    <3>2. 0 \in 0 .. j
      BY DEF Rank, TypeInv
    <3>3. ~(Head(svInput).level < level)
      BY <1>5, KnownType
    <3>. QED BY <1>2, <1>5, <3>1, <3>2, <3>3 DEF TypedInv, OldInv
  <2>4. Rank' = Rank /\ \A j \in Rank : Coming(j)' \subseteq Coming(j)
    <3>1. ItemsOf(svInput') \subseteq ItemsOf(svInput)
      <4>1. svInput \in Seq(Commands(ClientKinds))
        BY DEF TypeInv
      <4>2. /\ Len(Tail(svInput)) = Len(svInput) - 1 /\ Len(svInput) \in Nat \ {0}
            /\ \A i \in 1 .. Len(svInput) - 1 : Tail(svInput)[i] = svInput[i + 1]
        BY <1>2, <4>1, TailFacts
      <4>3. ItemsOf(<<>>) = {} /\ \A i \in 1 .. Len(svInput) - 1 : i + 1 \in 1 .. Len(svInput)
        BY <4>2 DEF ItemsOf
      <4>. QED BY <2>1, <4>2, <4>3 DEF ItemsOf
    <3>2. Coming(0)' = ItemsOf(svInput') /\ Coming(0) = ItemsOf(svInput)
      BY DEF Coming
    <3>3. \A j \in Rank : j # 0 => Coming(j)' = Coming(j)
      BY <2>1 DEF Coming
    <3>4. Rank' = Rank
      BY <2>1 DEF Rank
    <3>. QED BY <3>1, <3>2, <3>3, <3>4
  <2>5. LastExecuted' = LastExecuted /\ \A x : Old(x)' <=> Old(x)
    BY <1>1 DEF LastExecuted, Old
  <2>6. OldInv'
    BY <2>2, <2>3, <2>4, <2>5 DEF OldInv
  <2>7. StreamInv'
    <3>1. PICK m : Flows(m, Empty)
      <4>1. ItemsOf(svInput') \subseteq ItemsOf(svInput)
        BY <2>4, RingRank DEF Coming
      <4>. QED BY <2>1, <4>1, ReadFlows
    <3>2. typed <= typed'
      BY <2>1 DEF TypeInv
    <3>. QED BY <3>1, <3>2, FlowsStream DEF TypedInv
  <2>8. RunInv' /\ OwnNumbers(client')
    BY <1>1, <2>1, <2>5 DEF RunInv, TypedInv, TypedInOrder
  <2>. QED BY <2>6, <2>7, <2>8 DEF TypedInv
<1>. QED BY <1>3, <1>4, <1>5

LEMMA DroppingTyped ==
  ASSUME TypeInv, TypeInv', LevelInv, TypedInv, SV_Disconnect_f \/ ServerTimeout
  PROVE  TypedInv'
<1>1. CASE SV_Disconnect_f
  <2>1. Taking("disconnect") /\ Handled /\ executed' = executed /\ server' = Dropped(Noted)
    BY <1>1 DEF SV_Disconnect_f, Serve
  <2>2. Noted \in Servers /\ Noted.state = server.state
    BY <2>1, TakenAbove
  <2>3. Reacts(Noted, server')
    BY <2>1, <2>2 DEF Reacts, Dropped, Store, Servers
  <2>. QED BY <2>1, <2>2, <2>3, ReactTyped
<1>2. CASE ServerTimeout
  <2>1. /\ UNCHANGED <<client, toServer, typed, executed, svInput, level>>
        /\ server' = Dropped(server)
    BY <1>2 DEF ServerTimeout, Serve, world
  <2>2. Reacts(server, server')
    BY <2>1, KnownType DEF Reacts, Dropped, Store, Servers
  <2>. QED BY <2>1, <2>2, ReactsOnward, ReadTyped
<1>. QED BY <1>1, <1>2

\* What is executed is newer than all that was, and all that is as old comes under a
\* number that is not executed again.
LEMMA ClientCommandTyped ==
  ASSUME TypeInv, TypeInv', LevelInv, TypedInv, ClientCommand
  PROVE  TypedInv'
<1>1. /\ Taking("typed") /\ Handled /\ server' = Noted
      /\ executed' = IF Noted.state = "spawned" THEN Append(executed, Head(svInput).arg) ELSE executed
  BY DEF ClientCommand, Serve
<1>2. /\ Noted.state = server.state /\ svInput # <<>> /\ Head(svInput).kind = "typed"
      /\ Noted.clientCommandExecuted = Head(svInput).num
      /\ server.clientCommandExecuted < Head(svInput).num
      /\ server.clientCommandExecuted \in Nat /\ Head(svInput).num \in Nat
  BY <1>1, TakenAbove DEF Taking
<1>3. CASE server.state # "spawned"
  <2>1. Reacts(Noted, server') /\ executed' = executed
    BY <1>1, <1>2, <1>3 DEF Reacts
  <2>. QED BY <1>1, <1>2, <2>1, ReactTyped
<1>4. CASE server.state = "spawned"
  <2>. DEFINE h == Head(svInput)
              n == Len(executed)
  <2>0. /\ UNCHANGED <<client, toServer, typed, level>> /\ svInput' = Tail(svInput)
        /\ executed' = Append(executed, h.arg) /\ server'.state = "spawned"
        /\ server'.clientCommandExecuted = h.num
    BY <1>1, <1>2, <1>4 DEF Handled, world
  <2>1. /\ executed \in Seq(Nat) /\ typed \in Nat /\ n \in Nat /\ LastExecuted \in Nat
        /\ h.arg \in Nat /\ h.num \in Nat /\ h.kind = "typed"
    <3>1. executed \in Seq(Nat) /\ typed \in Nat
      BY DEF TypeInv
    <3>. QED BY <1>2, <3>1, TakenType DEF LastExecuted
  <2>2. h \in Coming(0) /\ 0 \in Rank
    <3>1. svInput \in Seq(Commands(ClientKinds)) /\ h = svInput[1]
      BY <1>2, TakenType DEF TypeInv
    <3>2. 1 \in 1 .. Len(svInput)
      BY <1>2, <3>1
    <3>. QED BY <3>1, <3>2, RingRank DEF ItemsOf
  <2>. HIDE DEF h
  <2>3. LastExecuted < h.arg /\ h.arg <= typed
    <3>1. ~Executed(server, h)
      BY <1>2 DEF Executed, h
    <3>2. ~Old(h)
      BY <1>4, <2>2, <3>1 DEF TypedInv, OldInv
    <3>3. h.arg <= typed
      BY <2>1, <2>2 DEF TypedInv, StreamInv
    <3>. QED BY <2>1, <3>2, <3>3 DEF Old
  <2>4. /\ Len(executed') = n + 1 /\ executed'[n + 1] = h.arg
        /\ \A i \in 1 .. n : executed'[i] = executed[i]
        /\ \A i \in 1 .. n + 1 : i \in 1 .. n \/ i = n + 1
        /\ LastExecuted' = h.arg /\ DOMAIN executed' = 1 .. n + 1 /\ DOMAIN executed = 1 .. n
    BY <2>0, <2>1 DEF LastExecuted
  <2>5. RunInv'
    <3>1. \A i \in 1 .. n : executed[i] \in Nat /\ executed[i] < h.arg
      BY <2>1, <2>3 DEF TypedInv, RunInv
    <3>2. \A i \in 1 .. n + 1 : executed'[i] <= h.arg
      BY <2>1, <2>4, <3>1
    <3>3. ASSUME NEW i \in 1 .. n + 1, NEW j \in 1 .. n + 1, i < j PROVE executed'[i] < executed'[j]
      <4>1. i \in 1 .. n
        BY <2>1, <3>3
      <4>2. CASE j \in 1 .. n
        BY <2>4, <3>3, <4>1, <4>2 DEF TypedInv, RunInv, TypedInOrder
      <4>3. CASE j = n + 1
        BY <2>4, <3>1, <4>1, <4>3
      <4>. QED BY <2>4, <4>2, <4>3
    <3>4. TypedInOrder'
      BY <2>4, <3>3 DEF TypedInOrder
    <3>. QED BY <2>0, <2>3, <2>4, <3>2, <3>4 DEF RunInv
  <2>6. Rank' = Rank /\ \A j \in Rank : Coming(j)' \subseteq Coming(j)
    <3>1. ItemsOf(svInput') \subseteq ItemsOf(svInput)
      <4>1. svInput \in Seq(Commands(ClientKinds))
        BY DEF TypeInv
      <4>2. /\ Len(Tail(svInput)) = Len(svInput) - 1 /\ Len(svInput) \in Nat \ {0}
            /\ \A i \in 1 .. Len(svInput) - 1 : Tail(svInput)[i] = svInput[i + 1]
        BY <1>2, <4>1, TailFacts
      <4>3. \A i \in 1 .. Len(svInput) - 1 : i + 1 \in 1 .. Len(svInput)
        BY <4>2
      <4>. QED BY <2>0, <4>2, <4>3 DEF ItemsOf
    <3>2. Coming(0)' = ItemsOf(svInput') /\ Coming(0) = ItemsOf(svInput)
      BY DEF Coming
    <3>3. \A j \in Rank : j # 0 => Coming(j)' = Coming(j)
      BY <2>0 DEF Coming
    <3>4. Rank' = Rank
      BY <2>0 DEF Rank
    <3>. QED BY <3>1, <3>2, <3>3, <3>4
  <2>7. OldInv'
    <3>1. ASSUME NEW j \in Rank, NEW x \in Coming(j), x.kind = "typed", x.arg <= h.arg
          PROVE  x.num <= h.num
      <4>1. j \in 0 .. Len(toServer) + 1
        BY DEF Rank
      <4>. QED BY <2>1, <2>2, <3>1, <4>1 DEF TypedInv, StreamInv
    <3>2. \A j \in Rank : \A x \in Coming(j)' : Old(x)' => Executed(server, x)'
      BY <2>0, <2>4, <2>6, <3>1 DEF Old, Executed
    <3>. QED BY <2>0, <2>6, <3>2 DEF OldInv
  <2>8. StreamInv'
    <3>1. PICK m : Flows(m, Empty)
      <4>1. ItemsOf(svInput') \subseteq ItemsOf(svInput)
        BY <2>6, RingRank DEF Coming
      <4>. QED BY <2>0, <4>1, ReadFlows
    <3>2. typed <= typed'
      BY <2>0, <2>1
    <3>. QED BY <3>1, <3>2, FlowsStream DEF TypedInv
  <2>. QED BY <2>0, <2>5, <2>7, <2>8 DEF TypedInv
<1>. QED BY <1>3, <1>4
-----------------------------------------------------------------------------
(* Typed commands: the client's part *)

\* A record that stores a command has each of its numbers in the ring, as before.
LEMMA OwnStore ==
  ASSUME NEW k \in Clients, OwnNumbers(k), NEW cmd \in Commands(ClientKinds), NEW d, ClientStores(k, cmd, d)
  PROVE  OwnNumbers(d)
<1>. DEFINE n == k.reliableSequence + 1
            new == [cmd EXCEPT !.num = n]
<1>0. k.reliableSequence \in Nat
  BY ClientFields
<1>0a. n \in Nat
  BY <1>0
<1>1. /\ k.reliableCommands \in [Slots -> Commands(ClientKinds \cup {"none"})]
      /\ k.reliableSequence \in Nat /\ n \in Nat
  BY <1>0a, ClientFields
<1>2. /\ d.reliableSequence = n
      /\ d.reliableCommands = [k.reliableCommands EXCEPT ![Slot(n)] = new]
  BY DEF ClientStores
<1>3. /\ Slot(n) \in Slots /\ new.num = n
      /\ \A s \in Slots : d.reliableCommands[s] = IF s = Slot(n) THEN new ELSE k.reliableCommands[s]
  BY <1>1, <1>2, StoredRing
<1>. HIDE DEF new
<1>4. \A s \in Slots : k.reliableCommands[s].num \in Nat
  <2>1. \A x \in Commands(ClientKinds \cup {"none"}) : x.num \in Nat
    BY DEF Commands
  <2>. QED BY <1>1, <2>1
<1>5. ASSUME NEW s \in Slots PROVE d.reliableCommands[s].num <= n
  <2>1. k.reliableCommands[s].num <= k.reliableSequence
    BY DEF OwnNumbers
  <2>. QED BY <1>1, <1>3, <1>4, <2>1
<1>6. ASSUME NEW m \in 1 .. n, n - MAX_RELIABLE_COMMANDS < m PROVE d.reliableCommands[Slot(m)].num = m
  <2>1. CASE m = n
    BY <1>3, <2>1
  <2>2. CASE m # n
    <3>1. /\ m \in Int /\ n \in Int /\ m < n /\ n < m + MAX_RELIABLE_COMMANDS
          /\ m \in 1 .. k.reliableSequence /\ k.reliableSequence - MAX_RELIABLE_COMMANDS < m
      BY <1>1, <1>6, <2>2, SizeAssumption
    <3>2. Slot(m) # Slot(n) /\ Slot(m) \in Slots
      BY <3>1, SlotApart, SlotType
    <3>3. k.reliableCommands[Slot(m)].num = m
      BY <3>1 DEF OwnNumbers
    <3>. QED BY <1>3, <3>2, <3>3
  <2>. QED BY <2>1, <2>2
<1>. QED BY <1>2, <1>5, <1>6 DEF OwnNumbers

\* An empty ring.
LEMMA NoneTyped == \A s \in Slots : NoCommands[s].kind = "none" /\ NoCommands[s].num = 0
BY DEF NoCommands, Slots, Empty, Plain, Command

LEMMA OwnEmpty ==
  ASSUME NEW d, d.reliableSequence = 0, d.reliableCommands = NoCommands
  PROVE  OwnNumbers(d)
<1>1. 1 .. d.reliableSequence = {}
  OBVIOUS
<1>. QED BY <1>1, NoneTyped DEF OwnNumbers

\* The ring, its numbers and what is loaded are the client's.
SameRing(k) ==
  /\ k.reliableSequence = client.reliableSequence
  /\ k.reliableAcknowledge = client.reliableAcknowledge
  /\ k.reliableCommands = client.reliableCommands /\ k.servercount = client.servercount

\* What is sent is what the ring holds, as long as it holds all that is not acknowledged.
LEMMA PendsRing ==
  ASSUME TypeInv, RingHolds, OwnNumbers(client), NEW k, SameRing(k), NEW x, Pends(k, x)
  PROVE  \E s \in Slots : x = client.reliableCommands[s]
<1>1. /\ client.reliableCommands \in [Slots -> Commands(ClientKinds \cup {"none"})]
      /\ client.reliableSequence \in Nat /\ client.reliableAcknowledge \in Nat
  BY ClientFields DEF TypeInv, GoodClient
<1>2. PICK n \in 1 .. client.reliableSequence :
        /\ client.reliableAcknowledge < n
        /\ x = [client.reliableCommands[Slot(n)] EXCEPT !.num = n]
  BY DEF Pends, SameRing
<1>3. n \in Int /\ client.reliableSequence - MAX_RELIABLE_COMMANDS < n
  BY <1>1, <1>2, SizeAssumption DEF RingHolds, Window
<1>4. Slot(n) \in Slots
  BY <1>3, SlotType
<1>. DEFINE y == client.reliableCommands[Slot(n)]
<1>5. y.num = n
  BY <1>2, <1>3 DEF OwnNumbers
<1>6. y \in Commands(ClientKinds \cup {"none"})
  BY <1>1, <1>4
<1>7. x = [y EXCEPT !.num = n]
  BY <1>2
<1>8. y = client.reliableCommands[Slot(n)]
  OBVIOUS
<1>. HIDE DEF y
<1>9. x = y
  BY <1>5, <1>6, <1>7 DEF Commands
<1>. QED BY <1>4, <1>8, <1>9

\* A step of the client, by what it sends and what it adds to the ring.
LEMMA ClientTyped ==
  ASSUME TypeInv, TypeInv', LevelInv, TypedInv, UNCHANGED <<server, level, svInput, executed>>,
         typed <= typed', NEW msgs \in Seq(ToServer), toServer' = toServer \o msgs,
         \A i \in 1 .. Len(msgs) : \A x \in ItemsOf(msgs[i].items) : x.kind \in {"typed", "begin"} =>
           \E s \in Slots : x = client.reliableCommands[s],
         NEW added,
         \A s \in Slots : client'.reliableCommands[s].kind \in {"typed", "begin"} =>
           \/ \E t \in Slots : client'.reliableCommands[s] = client.reliableCommands[t]
           \/ client'.reliableCommands[s] = added /\ (Newer(added) \/ Begins(added)),
         OwnNumbers(client'),
         \A s \in Slots : client'.reliableCommands[s].kind = "typed" =>
           client'.servercount = client.servercount
  PROVE  TypedInv'
<1>1. PICK m : Flows(m, added)
  BY TellFlows
<1>2. Onward
  BY ReactsOnward DEF Reacts
<1>. QED BY <1>1, <1>2, FlowsTyped

\* Nothing is sent, and the ring stays as it was.
LEMMA RingKept ==
  ASSUME TypeInv, TypeInv', LevelInv, TypedInv, UNCHANGED <<server, level, svInput, executed, typed>>,
         NEW msgs \in Seq(ToServer), toServer' = toServer \o msgs,
         \A i \in 1 .. Len(msgs) : \A x \in ItemsOf(msgs[i].items) : x.kind \in {"typed", "begin"} =>
           \E s \in Slots : x = client.reliableCommands[s],
         client'.reliableSequence = client.reliableSequence,
         client'.reliableCommands = client.reliableCommands, client'.servercount = client.servercount
  PROVE  TypedInv'
<1>1. OwnNumbers(client')
  BY DEF TypedInv, OwnNumbers
<1>2. typed <= typed'
  BY DEF TypeInv
<1>3. \A s \in Slots : \E t \in Slots : client'.reliableCommands[s] = client.reliableCommands[t]
  OBVIOUS
<1>. QED BY <1>1, <1>2, <1>3, ClientTyped

LEMMA Silent ==
  ASSUME TypeInv, toServer' = toServer
  PROVE  /\ <<>> \in Seq(ToServer) /\ toServer' = toServer \o <<>> /\ Len(<<>>) = 0 /\ 1 .. Len(<<>>) = {}
<1>1. toServer \in Seq(ToServer)
  BY DEF TypeInv
<1>. QED BY <1>1

\* The client goes on with the same ring, or leaves.
LEMMA BecomeTyped ==
  ASSUME TypeInv, TypeInv', LevelInv, RingHolds, TypedInv,
         UNCHANGED <<server, level, svInput, executed, typed>>,
         NEW k \in Clients, Filled(k), SameRing(k), Become(k)
  PROVE  TypedInv'
<1>1. CASE client' = k /\ toServer' = toServer
  <2>1. /\ client'.reliableSequence = client.reliableSequence
        /\ client'.reliableCommands = client.reliableCommands /\ client'.servercount = client.servercount
    BY <1>1 DEF SameRing
  <2>. QED BY <1>1, <2>1, Silent, RingKept
<1>2. CASE Cleared(k, "disconnected", client') /\ toServer' = toServer \o Goodbye(k)
  <2>. DEFINE g == Goodbye(k)
  <2>1. /\ g \in Seq(ToServer)
        /\ \A i \in 1 .. Len(g) : \A j \in 1 .. Len(g[i].items) : Leaves(k, g[i].items[j])
    BY GoodbyeIs
  <2>2. toServer' = toServer \o g
    BY <1>2
  <2>. HIDE DEF g
  <2>3. ASSUME NEW i \in 1 .. Len(g), NEW x \in ItemsOf(g[i].items), x.kind \in {"typed", "begin"}
        PROVE  \E s \in Slots : x = client.reliableCommands[s]
    <3>1. PICK j \in 1 .. Len(g[i].items) : x = g[i].items[j]
      BY <2>3 DEF ItemsOf
    <3>2. Leaves(k, x)
      BY <2>1, <2>3, <3>1
    <3>3. Pends(k, x)
      BY <2>3, <3>2 DEF Leaves
    <3>. QED BY <3>3, PendsRing DEF TypedInv
  <2>4. OwnNumbers(client') /\ \A s \in Slots : client'.reliableCommands[s].kind = "none"
    BY <1>2, OwnEmpty, NoneTyped DEF Cleared
  <2>5. typed <= typed'
    BY DEF TypeInv
  <2>. QED BY <2>1, <2>2, <2>3, <2>4, <2>5, ClientTyped
<1>. QED BY <1>1, <1>2, BecomeIs

\* A ring that holds what is not acknowledged has room for one more command.
LEMMA AddTyped ==
  ASSUME TypeInv, TypeInv', LevelInv, RingHolds, TypedInv,
         UNCHANGED <<server, level, svInput, executed>>, typed <= typed',
         NEW k \in Clients, Filled(k), SameRing(k), k.state # "disconnected",
         NEW cmd \in Commands(ClientKinds), Become(AddReliableCommand(k, cmd)),
         cmd.kind = "typed" => typed < cmd.arg /\ cmd.arg <= typed',
         cmd.kind = "begin" => server.state = "zombie" \/ cmd.level <= client.servercount
  PROVE  TypedInv'
<1>. DEFINE d == Store(k, cmd)
            n == k.reliableSequence + 1
            new == [cmd EXCEPT !.num = n]
<1>0. k.reliableSequence \in Nat
  BY ClientFields
<1>0a. n \in Nat
  BY <1>0
<1>1. /\ k.reliableSequence \in Nat /\ k.reliableAcknowledge \in Nat /\ n \in Nat
      /\ k.reliableCommands \in [Slots -> Commands(ClientKinds \cup {"none"})]
  BY <1>0a, ClientFields
<1>2. ~ClientFull(k)
  BY <1>1, SizeAssumption DEF RingHolds, Window, ClientFull, SameRing
<1>3. d \in Clients /\ Filled(d) /\ ClientStores(k, cmd, d)
  BY ClientStoreIs
<1>4. client' = d /\ toServer' = toServer
  <2>1. Become(d)
    BY <1>2 DEF AddReliableCommand
  <2>2. d.state # "disconnected"
    BY <1>3 DEF ClientStores
  <2>. QED BY <2>1, <2>2 DEF Become
<1>. HIDE DEF d
<1>5. /\ \A s \in Slots : client'.reliableCommands[s] = IF s = Slot(n) THEN new ELSE client.reliableCommands[s]
      /\ new.kind = cmd.kind /\ new.level = cmd.level /\ new.arg = cmd.arg /\ new.num = n
  <2>1. d.reliableCommands = [k.reliableCommands EXCEPT ![Slot(n)] = new]
    BY <1>3 DEF ClientStores
  <2>2. /\ \A s \in Slots : d.reliableCommands[s] = IF s = Slot(n) THEN new ELSE k.reliableCommands[s]
        /\ new.kind = cmd.kind /\ new.level = cmd.level /\ new.arg = cmd.arg /\ new.num = n
    BY <1>1, <2>1, StoredRing
  <2>. HIDE DEF new
  <2>. QED BY <1>4, <2>2 DEF SameRing
<1>6. client'.servercount = client.servercount
  BY <1>3, <1>4 DEF ClientStores, SameClient, SameRing
<1>7. OwnNumbers(client')
  <2>1. OwnNumbers(k)
    BY DEF TypedInv, OwnNumbers, SameRing
  <2>. QED BY <1>3, <1>4, <2>1, OwnStore
<1>. HIDE DEF new
<1>8. new.kind = "typed" => Newer(new)
  <2>1. ASSUME NEW s \in Slots PROVE client.reliableCommands[s].num < n
    <3>1. client.reliableCommands[s].num <= k.reliableSequence
      BY DEF TypedInv, OwnNumbers, SameRing
    <3>2. client.reliableCommands[s].num \in Nat
      <4>1. client.reliableCommands[s] \in Commands(ClientKinds \cup {"none"})
        BY <1>1 DEF SameRing
      <4>. QED BY <4>1 DEF Commands
    <3>. QED BY <1>1, <3>1, <3>2
  <2>. QED BY <1>5, <2>1 DEF Newer
<1>9. new.kind = "begin" => Begins(new)
  BY <1>5 DEF Begins
<1>10. ASSUME NEW s \in Slots, client'.reliableCommands[s].kind \in {"typed", "begin"}
       PROVE  \/ \E t \in Slots : client'.reliableCommands[s] = client.reliableCommands[t]
              \/ client'.reliableCommands[s] = new /\ (Newer(new) \/ Begins(new))
  BY <1>5, <1>8, <1>9, <1>10
<1>11. <<>> \in Seq(ToServer) /\ toServer' = toServer \o <<>> /\ 1 .. Len(<<>>) = {}
  BY <1>4, Silent
<1>. QED BY <1>6, <1>7, <1>10, <1>11, ClientTyped
-----------------------------------------------------------------------------
LEMMA SendMessagesToServerTyped ==
  ASSUME TypeInv, TypeInv', LevelInv, RingHolds, TypedInv, SendMessagesToServer
  PROVE  TypedInv'
<1>. DEFINE m == MessageToServer(client)
<1>1. UNCHANGED <<server, client, level, svInput, executed, typed>> /\ toServer' = Append(toServer, m)
  BY DEF SendMessagesToServer, world
<1>2. m \in ToServer /\ \A j \in 1 .. Len(m.items) : Pends(client, m.items[j])
  BY KnownType, ClientMessageIs
<1>. HIDE DEF m
<1>3. /\ <<m>> \in Seq(ToServer) /\ Len(<<m>>) = 1 /\ <<m>>[1] = m
      /\ toServer' = toServer \o <<m>>
  <2>1. toServer \in Seq(ToServer)
    BY DEF TypeInv
  <2>. QED BY <1>1, <1>2, <2>1
<1>4. ASSUME NEW x \in ItemsOf(m.items) PROVE \E s \in Slots : x = client.reliableCommands[s]
  <2>1. PICK j \in 1 .. Len(m.items) : x = m.items[j]
    BY DEF ItemsOf
  <2>2. Pends(client, x)
    BY <1>2, <2>1
  <2>. QED BY <2>2, PendsRing DEF SameRing, TypedInv
<1>. DEFINE msgs == <<m>>
<1>5. msgs \in Seq(ToServer) /\ toServer' = toServer \o msgs /\ \A i \in 1 .. Len(msgs) : msgs[i] = m
  BY <1>3
<1>. HIDE DEF msgs
<1>. QED BY <1>1, <1>4, <1>5, RingKept

\* The player's next command is newer than all.
LEMMA TypeCommandTyped ==
  ASSUME TypeInv, TypeInv', LevelInv, RingHolds, TypedInv, TypeCommand
  PROVE  TypedInv'
<1>. DEFINE cmd == Command("typed", 0, typed', <<>>)
<1>1. /\ UNCHANGED <<server, level, svInput, executed>> /\ typed' = typed + 1
      /\ client.state # "disconnected" /\ Become(AddReliableCommand(client, cmd))
  BY DEF TypeCommand, world
<1>2. typed \in Nat /\ typed' \in Nat
  BY DEF TypeInv
<1>3. cmd \in Commands(ClientKinds) /\ cmd.kind = "typed" /\ cmd.arg = typed'
  <2>1. <<>> \in Seq(Strings) /\ "typed" \in ClientKinds
    BY DEF ClientKinds
  <2>. QED BY <1>2, <2>1 DEF Command, Commands
<1>. HIDE DEF cmd
<1>4. typed <= typed' /\ typed < cmd.arg /\ cmd.arg <= typed'
  BY <1>1, <1>2, <1>3
<1>5. client \in Clients /\ Filled(client) /\ SameRing(client)
  BY KnownType DEF SameRing
<1>. QED BY <1>1, <1>3, <1>4, <1>5, AddTyped

LEMMA LeavingTyped ==
  ASSUME TypeInv, TypeInv', LevelInv, RingHolds, TypedInv, Quit \/ ClientTimeout
  PROVE  TypedInv'
<1>1. PICK why \in {"quit", "timeout"} : Become(Left(client, why))
  BY DEF Quit, ClientTimeout
<1>2. UNCHANGED <<server, level, svInput, executed, typed>>
  BY DEF Quit, ClientTimeout, world
<1>. DEFINE k == Left(client, why)
<1>3. k \in Clients /\ Filled(k) /\ SameRing(k)
  BY KnownType, LeftIs DEF SameRing
<1>4. Become(k)
  BY <1>1
<1>. HIDE DEF k
<1>. QED BY <1>2, <1>3, <1>4, BecomeTyped

\* A frame of the client, a message that comes in, a command that is skipped or lost.
LEMMA PassingTyped ==
  ASSUME TypeInv, TypeInv', LevelInv, TypedInv,
         AdjustServerTime \/ ClientReceive \/ ClientSkips \/ LoseToClient
  PROVE  TypedInv'
<1>1. /\ UNCHANGED <<server, level, svInput, executed, typed>> /\ toServer' = toServer
      /\ \/ client' = client
         \/ client' = [client EXCEPT !.state = "active"]
         \/ client' = [client EXCEPT !.reliableAcknowledge = Head(toClient).ack]
  BY DEF AdjustServerTime, ClientReceive, ClientSkips, LoseToClient, world
<1>2. /\ client'.reliableSequence = client.reliableSequence
      /\ client'.reliableCommands = client.reliableCommands /\ client'.servercount = client.servercount
  BY <1>1, KnownType DEF Clients
<1>. QED BY <1>1, <1>2, Silent, RingKept

LEMMA ParseFrameTyped ==
  ASSUME TypeInv, TypeInv', LevelInv, RingHolds, TypedInv, ParseFrame
  PROVE  TypedInv'
<1>. DEFINE k == [client EXCEPT !.snap = Head(clInput).level]
<1>1. UNCHANGED <<server, level, svInput, executed, typed>> /\ clInput # <<>> /\ Become(k)
  BY DEF ParseFrame, TakingHere, HandledHere, world
<1>2. client \in Clients /\ Filled(client) /\ Head(clInput).level \in Nat
  BY <1>1, KnownType, HereType
<1>3. k \in Clients /\ SameRing(k)
  BY <1>2 DEF Clients, SameRing
<1>. HIDE DEF k
<1>4. Filled(k)
  BY <1>2, <1>3 DEF Filled, SameRing
<1>. QED BY <1>1, <1>3, <1>4, BecomeTyped

LEMMA ParseConfigstringCommandTyped ==
  ASSUME TypeInv, TypeInv', LevelInv, RingHolds, TypedInv, ParseConfigstringCommand
  PROVE  TypedInv'
<1>1. UNCHANGED <<server, level, svInput, executed, typed>> /\ clInput # <<>> /\ Become(Updated)
  BY DEF ParseConfigstringCommand, TakingHere, HandledHere, world, Updated
<1>2. Updated \in Clients /\ Filled(Updated) /\ SameRing(Updated)
  BY <1>1, UpdatedIs DEF SameRing
<1>. QED BY <1>1, <1>2, BecomeTyped

LEMMA NotedTyped ==
  ASSUME TypeInv, TypeInv', LevelInv, RingHolds, TypedInv, clInput # <<>>, Become(NotedHere),
         UNCHANGED <<server, level, svInput, executed, typed>>
  PROVE  TypedInv'
<1>1. NotedHere \in Clients /\ Filled(NotedHere) /\ SameRing(NotedHere)
  BY NotedHereIs DEF SameRing
<1>. QED BY <1>1, BecomeTyped

LEMMA ForwardToServerTyped ==
  ASSUME TypeInv, TypeInv', LevelInv, RingHolds, TypedInv, ForwardToServer
  PROVE  TypedInv'
<1>1. /\ UNCHANGED <<server, level, svInput, executed, typed>> /\ clInput # <<>>
      /\ Head(clInput).kind \in {"configstrings", "baselines"}
  BY DEF ForwardToServer, TakingHere, world
<1>2. NotedHere \in Clients /\ Filled(NotedHere) /\ SameRing(NotedHere)
  BY <1>1, NotedHereIs DEF SameRing
<1>3. Head(clInput) \in Commands(ClientKinds)
  <2>1. Head(clInput) \in Commands(ServerKinds \cup DataKinds) /\ Head(clInput).kind \in ClientKinds
    BY <1>1, HereType DEF ClientKinds
  <2>. QED BY <2>1 DEF Commands
<1>4. CASE NotedHere.state \in {"connected", "active"}
  <2>1. Become(AddReliableCommand(NotedHere, Head(clInput)))
    BY <1>4 DEF ForwardToServer
  <2>2. typed <= typed'
    BY <1>1 DEF TypeInv
  <2>. QED BY <1>1, <1>2, <1>3, <1>4, <2>1, <2>2, AddTyped
<1>5. CASE NotedHere.state \notin {"connected", "active"}
  <2>1. Become(NotedHere)
    BY <1>5 DEF ForwardToServer
  <2>. QED BY <1>1, <2>1, NotedTyped
<1>. QED BY <1>4, <1>5

\* The client says "begin" for the level that it holds the data of.
LEMMA PrecacheTyped ==
  ASSUME TypeInv, TypeInv', LevelInv, RingHolds, TypedInv, Precache
  PROVE  TypedInv'
<1>1. /\ UNCHANGED <<server, level, svInput, executed, typed>> /\ clInput # <<>>
      /\ Head(clInput).kind = "precache"
  BY DEF Precache, TakingHere, world
<1>2. /\ Loaded \in Clients /\ Filled(Loaded) /\ SameRing(Loaded) /\ Loaded.state = client.state
      /\ NotedHere.state = client.state
      /\ Beginning \in Commands(ClientKinds) /\ Beginning.kind = "begin"
      /\ Beginning.level = Head(clInput).level
  BY <1>1, LoadedIs, NotedHereIs DEF SameRing
<1>3. server.state = "zombie" \/ Beginning.level <= client.servercount
  <2>1. Head(clInput).level <= Known
    BY <1>1, HereLevel
  <2>2. client.left # "no" => server.state = "zombie"
    BY <1>1, LifeLevels
  <2>. QED BY <1>2, <2>1, <2>2 DEF Known
<1>4. CASE NotedHere.state = "connected"
  <2>1. Become(AddReliableCommand(Loaded, Beginning))
    BY <1>4 DEF Precache, Loaded, Beginning
  <2>2. typed <= typed'
    BY <1>1 DEF TypeInv
  <2>. QED BY <1>1, <1>2, <1>3, <1>4, <2>1, <2>2, AddTyped
<1>5. CASE NotedHere.state # "connected"
  <2>1. Become(NotedHere)
    BY <1>5 DEF Precache
  <2>. QED BY <1>1, <2>1, NotedTyped
<1>. QED BY <1>4, <1>5

LEMMA ChangingTyped ==
  ASSUME TypeInv, TypeInv', LevelInv, RingHolds, TypedInv, Changing
  PROVE  TypedInv'
<1>1. UNCHANGED <<server, level, svInput, executed, typed>> /\ clInput # <<>> /\ Become(Told)
  BY DEF Changing, TakingHere, HandledHere, world, Told, NoStrings
<1>2. Told \in Clients /\ Filled(Told) /\ SameRing(Told)
  BY <1>1, ToldIs DEF SameRing
<1>. QED BY <1>1, <1>2, BecomeTyped

LEMMA ServerReconnectTyped ==
  ASSUME TypeInv, TypeInv', LevelInv, RingHolds, TypedInv, ServerReconnect
  PROVE  TypedInv'
<1>1. UNCHANGED <<server, level, svInput, executed, typed>> /\ clInput # <<>>
  BY DEF ServerReconnect, TakingHere, world
<1>2. /\ Greeting \in Clients /\ Filled(Greeting) /\ SameRing(Greeting) /\ Greeting.state = "handshake"
      /\ Plain("new") \in Commands(ClientKinds) /\ Plain("new").kind = "new"
  BY <1>1, GreetingIs DEF SameRing
<1>3. CASE NotedHere.state \in {"connected", "active"}
  <2>1. Become(AddReliableCommand(Greeting, Plain("new")))
    BY <1>3 DEF ServerReconnect, Greeting, NoStrings
  <2>2. typed <= typed'
    BY <1>1 DEF TypeInv
  <2>. DEFINE new == Plain("new")
  <2>. HIDE DEF new
  <2>3. new \in Commands(ClientKinds) /\ new.kind = "new" /\ Become(AddReliableCommand(Greeting, new))
    BY <1>2, <2>1 DEF new
  <2>4. Greeting.state # "disconnected" /\ new.kind # "typed" /\ new.kind # "begin"
    BY <1>2, <2>3
  <2>. QED BY <1>1, <1>2, <2>2, <2>3, <2>4, AddTyped
<1>4. CASE NotedHere.state \notin {"connected", "active"}
  <2>1. Become(NotedHere)
    BY <1>4 DEF ServerReconnect
  <2>. QED BY <1>1, <2>1, NotedTyped
<1>. QED BY <1>3, <1>4

LEMMA ServerDisconnectTyped ==
  ASSUME TypeInv, TypeInv', LevelInv, RingHolds, TypedInv, ServerDisconnect
  PROVE  TypedInv'
<1>. DEFINE k == Left(NotedHere, "closed")
<1>1. UNCHANGED <<server, level, svInput, executed, typed>> /\ clInput # <<>> /\ Become(k)
  BY DEF ServerDisconnect, TakingHere, HandledHere, world
<1>2. NotedHere \in Clients /\ Filled(NotedHere) /\ SameRing(NotedHere)
  BY <1>1, NotedHereIs DEF SameRing
<1>3. k \in Clients /\ Filled(k) /\ SameRing(k)
  BY <1>2, LeftIs DEF SameRing
<1>. HIDE DEF k
<1>. QED BY <1>1, <1>3, BecomeTyped

\* serverdata leave nothing typed in the ring.
LEMMA ParseServerDataTyped ==
  ASSUME TypeInv, TypeInv', LevelInv, TypedInv, ParseServerData
  PROVE  TypedInv'
<1>1. UNCHANGED <<server, level, svInput, executed, typed>>
  BY DEF ParseServerData, world
<1>2. CASE client.state # "handshake"
  <2>1. client' = client /\ toServer' = toServer
    BY <1>2 DEF ParseServerData
  <2>. QED BY <1>1, <2>1, Silent, RingKept
<1>3. CASE client.state = "handshake"
  <2>1. /\ clInput # <<>> /\ toServer' = toServer /\ ClientStores(Welcomed, Asking1, client')
    BY <1>3, WelcomeIs
  <2>2. /\ Welcomed \in Clients /\ Welcomed.reliableSequence = 0 /\ Welcomed.reliableCommands = NoCommands
        /\ Asking1 \in Commands(ClientKinds) /\ Asking1.kind = "configstrings"
    BY <2>1, WelcomedIs
  <2>3. OwnNumbers(client')
    BY <2>1, <2>2, OwnEmpty, OwnStore
  <2>. DEFINE n == Welcomed.reliableSequence + 1
              new == [Asking1 EXCEPT !.num = n]
  <2>4. /\ \A s \in Slots : client'.reliableCommands[s] = IF s = Slot(n) THEN new ELSE NoCommands[s]
        /\ new.kind = "configstrings"
    <3>1. client'.reliableCommands = [Welcomed.reliableCommands EXCEPT ![Slot(n)] = new]
      BY <2>1 DEF ClientStores
    <3>2. Welcomed.reliableCommands \in [Slots -> Commands(ClientKinds \cup {"none"})]
          /\ Welcomed.reliableSequence \in Nat
      BY <2>2, ClientFields
    <3>. QED BY <2>2, <3>1, <3>2, StoredRing
  <2>. HIDE DEF n, new
  <2>5. \A s \in Slots : client'.reliableCommands[s].kind \notin {"typed", "begin"}
    BY <2>4, NoneTyped
  <2>6. typed <= typed'
    BY <1>1 DEF TypeInv
  <2>7. <<>> \in Seq(ToServer) /\ toServer' = toServer \o <<>> /\ 1 .. Len(<<>>) = {}
    BY <2>1, Silent
  <2>. QED BY <1>1, <2>3, <2>5, <2>6, <2>7, ClientTyped
<1>. QED BY <1>2, <1>3
-----------------------------------------------------------------------------
LEMMA InitTyped ==
  ASSUME Init
  PROVE  TypedInv
<1>1. TypeInv /\ client \in Clients
  BY InitTypes DEF TypeInv, GoodClient
<1>. DEFINE k == [state |-> "handshake", reliableSequence |-> 0, reliableAcknowledge |-> 0,
                  reliableCommands |-> NoCommands, lastExecutedServerCommand |-> 0,
                  servercount |-> 0, configstrings |-> [i \in Index |-> NoString],
                  cgame |-> FALSE, snap |-> 0, left |-> "no", numbering |-> 0]
            new == [Plain("new") EXCEPT !.num = 1]
<1>2. client = Store(k, Plain("new"))
  BY DEF Init
<1>3. client.reliableSequence = 1 /\ client.reliableCommands = [NoCommands EXCEPT ![Slot(1)] = new]
  BY <1>2 DEF Store
<1>4. new.kind = "new" /\ new.num = 1
  BY DEF Plain, Command
<1>. HIDE DEF k, new
<1>5. Slot(1) \in Slots /\ \A s \in Slots : client.reliableCommands[s] = IF s = Slot(1) THEN new ELSE NoCommands[s]
  <2>1. Slot(1) \in Slots
    BY SlotType
  <2>2. DOMAIN NoCommands = Slots
    BY DEF NoCommands, Slots
  <2>. QED BY <1>3, <2>1, <2>2
<1>6. OwnNumbers(client)
  <2>1. \A n \in 1 .. client.reliableSequence : n = 1
    BY <1>3
  <2>2. \A s \in Slots : client.reliableCommands[s].num \in {0, 1}
    BY <1>4, <1>5, NoneTyped
  <2>. QED BY <1>3, <1>4, <1>5, <2>1, <2>2 DEF OwnNumbers
<1>7. ASSUME NEW i \in Rank, NEW x \in Coming(i) PROVE x.kind # "typed"
  <2>1. svInput = <<>> /\ toServer = <<>>
    BY DEF Init
  <2>2. CASE i = 0
    <3>1. Coming(i) = {}
      BY <2>1, <2>2 DEF Coming, ItemsOf
    <3>. QED BY <3>1
  <2>3. CASE i # 0
    <3>1. i = 1 /\ Len(toServer) = 0
      BY <2>1, <2>3 DEF Rank
    <3>2. Coming(i) = {client.reliableCommands[s] : s \in Slots}
      BY <3>1 DEF Coming
    <3>. QED BY <1>4, <1>5, <3>2, NoneTyped
  <2>. QED BY <2>2, <2>3
<1>8. executed = <<>> /\ typed = 0 /\ Len(toServer) = 0
  BY DEF Init
<1>9. RunInv
  BY <1>8 DEF RunInv, LastExecuted, TypedInOrder
<1>10. StreamInv
  BY <1>7 DEF StreamInv
<1>11. OldInv
  BY <1>7 DEF OldInv, Old
<1>. QED BY <1>6, <1>9, <1>10, <1>11 DEF TypedInv

LEMMA NextTyped ==
  ASSUME TypeInv, TypeInv', LevelInv, RingHolds, TypedInv, [Next]_vars
  PROVE  TypedInv'
<1>1. CASE Next
  <2>1. CASE SendClientMessages
    BY <2>1, SendClientMessagesTyped
  <2>2. CASE ConfigString
    BY <2>2, ConfigStringTyped
  <2>3. CASE Map
    BY <2>3, MapTyped
  <2>4. CASE ServerReceive \/ LoseToServer
    BY <2>4, TakeTyped
  <2>5. CASE ServerParse
    BY <2>5, ServerSkipsTyped, SV_New_fTyped, ConfigstringsLoopTyped, SV_Configstrings_fTyped,
       SV_Baselines_fTyped, SV_Begin_fTyped, DroppingTyped, ClientCommandTyped DEF ServerParse
  <2>6. CASE SendMessagesToServer
    BY <2>6, SendMessagesToServerTyped
  <2>7. CASE TypeCommand
    BY <2>7, TypeCommandTyped
  <2>8. CASE Quit \/ ClientTimeout
    BY <2>8, LeavingTyped
  <2>9. CASE AdjustServerTime \/ ClientReceive \/ LoseToClient
    BY <2>9, PassingTyped
  <2>10. CASE ClientParse
    BY <2>10, PassingTyped, ParseServerDataTyped, ParseFrameTyped, ParseConfigstringCommandTyped,
       ForwardToServerTyped, PrecacheTyped, ChangingTyped, ServerReconnectTyped,
       ServerDisconnectTyped DEF ClientParse
  <2>11. CASE ServerTimeout
    BY <2>11, DroppingTyped
  <2>. QED BY <1>1, <2>1, <2>2, <2>3, <2>4, <2>5, <2>6, <2>7, <2>8, <2>9, <2>10, <2>11 DEF Next
<1>2. CASE UNCHANGED vars
  <2>1. UNCHANGED <<server, level, svInput, executed, typed, client>> /\ toServer' = toServer
    BY <1>2 DEF vars, world
  <2>. QED BY <2>1, Silent, RingKept
<1>. QED BY <1>1, <1>2

\* Commands of the player are executed in the order typed and each at most once
\* (SV_ParseClientMessage skips the numbers executed), whatever is lost, sent again or
\* numbered anew by a second "new", as long as CL_AddReliableCommand never has more
\* commands waiting for an acknowledgement than its ring has places.  It tests this one
\* command too late (cl_main.cpp:120); the one too many overwrites the oldest, and may
\* be executed twice: under the number of that, and under its own.
THEOREM InOrderAndOnce == Spec => TypedOnce
<1>1. Init => TypedInv
  BY InitTyped
<1>2. TypeInv /\ TypeInv' /\ LevelInv /\ RingHolds /\ TypedInv /\ [Next]_vars => TypedInv'
  BY NextTyped
<1>3. TypedInv => TypedInOrder
  BY DEF TypedInv, RunInv
<1>. QED BY <1>1, <1>2, <1>3, LevelsInOrder, PTL DEF Spec, Safety, TypedOnce
=============================================================================
