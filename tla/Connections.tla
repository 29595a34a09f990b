---------------------------- MODULE Connections ----------------------------
(***************************************************************************)
(* How machines get into a server: challenges, requests to connect, client *)
(* slots with their zombies, timeouts, the limit per host, reconnects that *)
(* take over a slot, bots that make room, and what the game module knows   *)
(* of each slot. Packets are lost, doubled, overtaken and late.            *)
(*                                                                         *)
(* A machine is a base address (its host) with a game port of its own. The *)
(* traffic on an established connection is ReliableCommands' subject: here *)
(* "new" and "begin" just arrive. Times are counted in ticks, of which no  *)
(* packet takes longer than one unless it is late.                         *)
(***************************************************************************)
EXTENDS Integers, Sequences, FiniteSetsExt, SequencesExt

CONSTANTS
  Machines, Hosts,
  Placements,          \* ways in which machines may share the hosts' addresses
  Keen,                \* those whose users connect again and never leave
  Bot, Nobody,
  maxclients, MAX_CHALLENGES,
  sv_iplimit, sv_reconnectlimit, sv_zombietime, sv_timeout,
  Resend, MaxResend,   \* ticks between requests, requests after the first
  MaxFaults, MaxFlight,\* bounds, and one on what people do: the operator's acts
  MaxActs,             \* and the visits of users who are not keen, with each fault
  FaultWeight          \* counted for so many of them

ASSUME SizesAssumption ==
  /\ Keen \subseteq Machines /\ {Bot, Nobody} \cap Machines = {} /\ Bot # Nobody
  /\ Placements \subseteq [Machines -> Hosts]
  /\ {maxclients, MAX_CHALLENGES} \subseteq Nat \ {0}
  /\ {sv_iplimit, sv_reconnectlimit, sv_zombietime, sv_timeout, Resend, MaxResend,
      MaxFaults, MaxActs, MaxFlight, FaultWeight} \subseteq Nat

VARIABLES
  host,                \* host[m]: base address of machine m
  challenges,          \* the table, oldest first: [host, challenge]
  slots,               \* [state, machine, age, since]: ages of its last packet
                       \* and of its connection
  playing,             \* slots whose players are in the game, as the game module knows
  abandoned,           \* those of them whose clients were cleared by a refused reconnect
  welcome,             \* machines that the game lets in
  machine,             \* [state, count, wait] of each machine's client
  up, down,            \* packets
  spent,               \* challenges that were used, of which copies may be on their way
  faults, acts         \* how many there were

serverVars == <<challenges, slots, playing, abandoned, welcome, spent>>
moving == <<serverVars, machine, up, down, faults, acts>>
vars == <<host, moving>>

Slots == 1 .. maxclients
Live == {"connecting", "connected", "spawned"}
Has(s, m) == slots[s].state # "free" /\ slots[s].machine = m
Serves(s, m) == slots[s].state \in Live /\ slots[s].machine = m
IsBot(s) == slots[s].state \in Live /\ slots[s].machine = Bot

Idle == [state |-> "idle", count |-> 0, wait |-> Resend]
FreeSlot == [state |-> "free", machine |-> Nobody, age |-> 0, since |-> 0]

Init ==
  /\ host \in Placements
  /\ challenges = <<>>
  /\ slots = [s \in Slots |-> FreeSlot]
  /\ playing = {} /\ abandoned = {}
  /\ welcome \in SUBSET Machines /\ Keen \subseteq welcome
  /\ machine = [m \in Machines |-> Idle]
  /\ up = {} /\ down = {} /\ spent = {}
  /\ faults = 0 /\ acts = 0

-----------------------------------------------------------------------------
(* Packets. A packet is received and gone, unless it is a doubled one. *)

Packet(m, kind, c) == [machine |-> m, kind |-> kind, challenge |-> c, late |-> FALSE]
Request(m) == Packet(m, "getchallenge", 0)
Reject(m, again) == Packet(m, IF again THEN "reject" ELSE "refuse", 0)

Of(m, packets) == {p \in packets : p.machine = m}
Room(m, packets) == Cardinality(Of(m, packets)) < MaxFlight
Known == {p.challenge : p \in up \cup down} \cup {challenges[i].challenge : i \in DOMAIN challenges}

\* A number that nobody holds: 15 random bits.
FreshChallenge == CHOOSE c \in 1 .. Cardinality(Known) + 1 : c \notin Known

\* The challenges that were used and of which packets are still on their way.
StillAround(used, packets) == used \cap {p.challenge : p \in packets}

Events == acts + FaultWeight * faults
Fault == faults < MaxFaults /\ Events + FaultWeight <= MaxActs /\ faults' = faults + 1

Lose ==
  /\ Fault
  /\ \/ \E p \in up : up' = up \ {p} /\ UNCHANGED down
     \/ \E p \in down : down' = down \ {p} /\ UNCHANGED up
  /\ spent' = StillAround(spent, up')
  /\ UNCHANGED <<challenges, slots, playing, abandoned, welcome, machine, acts>>

Delayed(packets, p) == (packets \ {p}) \cup {[p EXCEPT !.late = TRUE]}

\* A packet takes longer than a tick; with twice, a copy of it does.
Delay(twice) ==
  /\ Fault
  /\ \/ \E p \in up : /\ ~p.late
                      /\ up' = Delayed(up, p) \cup (IF twice THEN {p} ELSE {})
                      /\ UNCHANGED down
     \/ \E p \in down : /\ ~p.late
                        /\ down' = Delayed(down, p) \cup (IF twice THEN {p} ELSE {})
                        /\ UNCHANGED up
  /\ UNCHANGED <<serverVars, machine, acts>>

-----------------------------------------------------------------------------
(* The server *)

\* Wrong on purpose: the table grows.
RoomForOne_Grows(table) == table

\* The oldest challenge is overwritten when the table is full.
RoomForOne(table) == IF Len(table) = MAX_CHALLENGES THEN Tail(table) ELSE table

\* SVC_GetChallenge: a host has one challenge; the oldest makes room.
SVC_GetChallenge(p) ==
  LET mine  == {i \in DOMAIN challenges : challenges[i].host = host[p.machine]}
      entry == IF mine = {} THEN [host |-> host[p.machine], challenge |-> FreshChallenge]
               ELSE challenges[Min(mine)]
  IN  /\ p.kind = "getchallenge"
      /\ challenges' = IF mine = {} THEN Append(RoomForOne(challenges), entry) ELSE challenges
      /\ up' = up \ {p}
      /\ down' = down \cup {Packet(p.machine, "challenge", entry.challenge)}
      /\ UNCHANGED <<slots, playing, abandoned, welcome, spent, machine, faults, acts>>

\* Wrong on purpose: the challenge stays valid.
Spend_Keep(i) == challenges

\* The challenge was used.
Spend(i) == RemoveAt(challenges, i)

\* sv_iplimit: a zombie counts half.
TooMany(h) ==
  LET ofHost(states) == {s \in Slots : /\ slots[s].state \in states
                                      /\ slots[s].machine \in Machines
                                      /\ host[slots[s].machine] = h}
  IN  Cardinality(ofHost({"zombie"})) + 2 * Cardinality(ofHost(Live)) >= 2 * sv_iplimit

\* Wrong on purpose: looks for slots in use only, not for its zombie.
SlotToReuse_Live(m) == {s \in Slots : Serves(s, m)}

\* The slots that the machine has already.
SlotToReuse(m) == {s \in Slots : Has(s, m)}

\* Wrong on purpose: any bot goes first.
SlotFor_BotFirst(m) ==
  LET free == {s \in Slots : slots[s].state = "free"}
      bots == {s \in Slots : IsBot(s)}
  IN  IF bots # {} THEN Max(bots) ELSE IF free # {} THEN Min(free) ELSE 0

\* Wrong on purpose: bots keep their slots.
SlotFor_FreeOnly(m) ==
  LET free == {s \in Slots : slots[s].state = "free"}
  IN  IF free # {} THEN Min(free) ELSE 0

\* A free slot, or else the last one that a bot has, or none.
SlotFor(m) ==
  LET free == {s \in Slots : slots[s].state = "free"}
      bots == {s \in Slots : IsBot(s)}
  IN  IF free # {} THEN Min(free) ELSE IF bots # {} THEN Max(bots) ELSE 0

\* Wrong on purpose: a client in the game is not further than connected.
GameTold_Connected(state) == state = "connected"

\* Does SV_DropClient tell the game about a client in that state?
GameTold(state) == state \in {"connected", "spawned"}

\* SV_DropClient: the game is told unless the client was only connecting.
DropClient(s) ==
  /\ slots' = [slots EXCEPT ![s].state = "zombie"]
  /\ playing' = IF GameTold(slots[s].state) THEN playing \ {s} ELSE playing

\* SVC_DirectConnect: the challenge is checked and used up before anything else.
SVC_DirectConnect(p) ==
  LET m     == p.machine
      mine  == {i \in DOMAIN challenges : challenges[i].host = host[m]}
      valid == mine # {} /\ challenges[Min(mine)].challenge = p.challenge
      own   == SlotToReuse(m)
      soon  == own # {} /\ slots[Min(own)].since < sv_reconnectlimit
      s     == IF own # {} THEN Min(own) ELSE SlotFor(m)
      answer(a) == down' = down \cup {a}
      refused == UNCHANGED <<slots, playing, abandoned>> /\ spent' = StillAround(spent, up')
  IN  /\ p.kind = "connect"
      /\ up' = up \ {p}
      /\ challenges' = IF valid THEN Spend(Min(mine)) ELSE challenges
      /\ IF ~valid \/ TooMany(host[m]) THEN answer(Reject(m, TRUE)) /\ refused
         ELSE IF soon THEN UNCHANGED down /\ refused
         ELSE IF s = 0 THEN answer(Reject(m, TRUE)) /\ refused
         ELSE IF m \notin welcome
         \* the slot was cleared already, and a bot in it dropped, but no player
         THEN /\ slots' = [slots EXCEPT ![s] = FreeSlot]
              /\ playing' = IF IsBot(s) THEN playing \ {s} ELSE playing
              /\ abandoned' = IF slots[s].state = "spawned" /\ ~IsBot(s)
                              THEN abandoned \cup {s} ELSE abandoned
              /\ answer(Reject(m, FALSE))
              /\ spent' = StillAround(spent, up')
         ELSE /\ slots' = [slots EXCEPT ![s] =
                   [state |-> "connecting", machine |-> m, age |-> 0, since |-> 0]]
              /\ playing' = playing \ {s}    \* ClientConnect: the player is connecting
              /\ abandoned' = abandoned \ {s}
              /\ answer(Packet(m, "client_connect", 0))
              /\ spent' = StillAround(spent \cup {p.challenge}, up')
      /\ UNCHANGED <<welcome, machine, faults, acts>>

ServerReceive == \E p \in up : SVC_GetChallenge(p) \/ SVC_DirectConnect(p)

\* SVC_FakeConnect: a bot gets a free slot only, and is in the game at once.
SVC_FakeConnect(s) ==
  /\ s = Min({t \in Slots : slots[t].state = "free"} \cup {maxclients + 1})
  /\ slots' = [slots EXCEPT ![s] =
       [state |-> "spawned", machine |-> Bot, age |-> 0, since |-> 0]]
  /\ playing' = playing \cup {s} /\ abandoned' = abandoned \ {s}
  /\ UNCHANGED <<challenges, welcome, spent, machine, up, down, faults, acts>>

Act == Events < MaxActs /\ acts' = acts + 1

\* The operator or the game drops somebody.
Kick(s) ==
  /\ slots[s].state \in Live
  /\ Act
  /\ DropClient(s)
  /\ UNCHANGED <<challenges, abandoned, welcome, spent, machine, up, down, faults>>

\* The password changes, or somebody is banned.
ChangePassword(w) ==
  /\ w # welcome /\ Keen \subseteq w
  /\ Act
  /\ welcome' = w
  /\ UNCHANGED <<challenges, slots, playing, abandoned, spent, machine, up, down, faults>>

-----------------------------------------------------------------------------
(* The clients *)

Become(m, state) == machine' = [machine EXCEPT ![m].state = state]
MachineOnly == UNCHANGED <<serverVars, down, faults, acts>>

\* A person or a level that loads takes longer than a packet that is not late.
Settled(m) == \A p \in Of(m, up \cup down) : p.late

\* CL_Connect: the first request goes out in the next frame.
CL_Connect(m) ==
  /\ machine[m].state = "idle" /\ Settled(m)
  /\ IF m \in Keen THEN UNCHANGED acts ELSE Act
  /\ machine' = [machine EXCEPT ![m] = [Idle EXCEPT !.state = "connecting"]]
  /\ UNCHANGED <<serverVars, up, down, faults>>

\* A request was sent.
Resent(r) == [r EXCEPT !.count = r.count + 1, !.wait = 0]

\* CL_CheckForResend
CL_CheckForResend(m) ==
  /\ machine[m].state = "connecting" /\ machine[m].wait >= Resend
  /\ IF machine[m].count > MaxResend
     THEN machine' = [machine EXCEPT ![m] = Idle] /\ UNCHANGED up
     ELSE /\ machine' = [machine EXCEPT ![m] = Resent(@)]
          /\ Room(m, up) /\ up' = up \cup {Request(m)}
  /\ MachineOnly

\* What a client that is connecting makes of an answer; others are ignored.
ClientReceive ==
  \E p \in down :
    LET m == p.machine
        r == machine[m]
    IN  /\ down' = down \ {p}
        /\ machine' = IF r.state # "connecting" THEN machine
                      ELSE CASE p.kind = "challenge" -> [machine EXCEPT ![m].wait = 0]
                             [] p.kind = "client_connect" -> [machine EXCEPT ![m] = [Idle EXCEPT !.state = "handshake"]]
                             [] p.kind = "refuse" -> [machine EXCEPT ![m] = Idle]
                             [] OTHER -> machine
        /\ up' = IF r.state = "connecting" /\ p.kind = "challenge"
                 THEN up \cup {Packet(m, "connect", p.challenge)} ELSE up
        /\ UNCHANGED <<serverVars, faults, acts>>

\* CL_ReadPackets: the server has not talked to it for cl_timeout.
CL_Timeout(m) ==
  /\ machine[m].state \notin {"idle", "connecting"}
  /\ \A s \in Slots : ~Serves(s, m)
  /\ machine' = [machine EXCEPT ![m] = Idle]
  /\ UNCHANGED up /\ MachineOnly

\* The user leaves, or the program ends; the server is told, or it is not.
CL_Disconnect(m, told) ==
  /\ m \notin Keen /\ machine[m].state # "idle"
  /\ told => machine[m].state # "connecting"
  /\ machine' = [machine EXCEPT ![m] = Idle]
  /\ IF told THEN \E s \in Slots : Serves(s, m) /\ DropClient(s)
     ELSE UNCHANGED <<slots, playing>>
  /\ UNCHANGED <<challenges, abandoned, welcome, spent, up, down, faults, acts>>

-----------------------------------------------------------------------------
(* An established connection *)

\* SV_New_f
SV_New_f(s) ==
  LET m == slots[s].machine
  IN  /\ slots[s].state = "connecting" /\ m \in Machines
      /\ machine[m].state = "handshake" /\ Become(m, "loading")
      /\ slots' = [slots EXCEPT ![s].state = "connected"]
      /\ UNCHANGED <<challenges, playing, abandoned, welcome, spent, up, down, faults, acts>>

\* SV_Begin_f, once the level is loaded.
SV_Begin_f(s) ==
  LET m == slots[s].machine
  IN  /\ Serves(s, m) /\ m \in Machines /\ machine[m].state = "loading"
      /\ Settled(m)
      /\ Become(m, "active")
      /\ IF slots[s].state = "connected"
         THEN /\ slots' = [slots EXCEPT ![s].state = "spawned"]
              /\ playing' = playing \cup {s}
         ELSE DropClient(s)
      /\ UNCHANGED <<challenges, abandoned, welcome, spent, up, down, faults, acts>>

\* Does the server hear from the machine of a slot?
Talks(s) ==
  \/ slots[s].machine = Bot
  \/ slots[s].machine \in Machines
     /\ machine[slots[s].machine].state \in {"handshake", "loading", "active"}

\* Wrong on purpose: only those who got further than connecting time out.
TimesOut_Connected(r) == r.state \in {"connected", "spawned"} /\ r.age > sv_timeout

\* A slot that the server has not heard of for sv_timeout.
TimesOut(r) == r.state \in Live /\ r.age > sv_timeout

\* A tick passes, and SV_CheckTimeouts frees zombies and silent clients.
Tick ==
  LET older(n, limit) == Min({n + 1, limit})
      aged(s) == [slots[s] EXCEPT
        !.age = IF slots[s].state \in Live /\ Talks(s) THEN 0
                ELSE older(@, Max({sv_timeout, sv_zombietime}) + 1),
        !.since = IF slots[s].machine = Bot THEN 0 ELSE older(@, sv_reconnectlimit)]
      over(s) == aged(s).state = "zombie" /\ aged(s).age > sv_zombietime
  IN  /\ \A p \in up \cup down : p.late
      /\ slots' = [s \in Slots |-> IF slots[s].state = "free" \/ over(s) \/ TimesOut(aged(s))
                                  THEN FreeSlot ELSE aged(s)]
      /\ playing' = playing \ {s \in Slots : TimesOut(aged(s)) /\ GameTold(slots[s].state)}
      /\ machine' = [m \in Machines |->
           [machine[m] EXCEPT !.wait = IF @ < Resend THEN @ + 1 ELSE @]]
      /\ UNCHANGED <<challenges, abandoned, welcome, spent, up, down, faults, acts>>

-----------------------------------------------------------------------------
Operator ==
  \/ \E s \in Slots : Kick(s) \/ SVC_FakeConnect(s)
  \/ \E w \in SUBSET Machines : ChangePassword(w)

Client(m) ==
  \/ CL_Connect(m) \/ CL_CheckForResend(m) \/ CL_Timeout(m)
  \/ \E told \in BOOLEAN : CL_Disconnect(m, told)

Step ==
  \/ Lose \/ \E twice \in BOOLEAN : Delay(twice)
  \/ ServerReceive \/ ClientReceive \/ Operator \/ Tick
  \/ \E s \in Slots : SV_New_f(s) \/ SV_Begin_f(s)
  \/ \E m \in Machines : Client(m)

Next == Step /\ UNCHANGED host

\* Programs run and packets arrive; only keen users are bound to come again.
Fairness ==
  /\ WF_moving(ServerReceive) /\ WF_moving(ClientReceive) /\ WF_moving(Tick)
  /\ \A s \in Slots : WF_moving(SV_New_f(s)) /\ WF_moving(SV_Begin_f(s))
  /\ \A m \in Machines : WF_moving(CL_CheckForResend(m)) /\ WF_moving(CL_Timeout(m))
  /\ \A m \in Keen : WF_moving(CL_Connect(m))

Spec == Init /\ [][Next]_vars /\ Fairness

-----------------------------------------------------------------------------
(* Properties *)

\* The state is well formed; no host has two challenges, and there are no more of
\* them than the table holds.
TypeOK ==
  /\ Len(challenges) <= MAX_CHALLENGES
  /\ \A i \in DOMAIN challenges :
       /\ challenges[i].host \in Hosts /\ challenges[i].challenge \in Nat
       /\ \A j \in 1 .. i - 1 : challenges[j].host # challenges[i].host
  /\ \A s \in Slots :
       /\ slots[s].state \in Live \cup {"free", "zombie"}
       /\ slots[s].machine \in Machines \cup {Bot, Nobody}
       /\ slots[s].age \in Nat /\ slots[s].since \in Nat
  /\ \A m \in Machines :
       /\ machine[m].state \in {"idle", "connecting", "handshake", "loading", "active"}
       /\ machine[m].count \in 0 .. MaxResend + 1 /\ machine[m].wait \in 0 .. Resend
  /\ \A p \in up \cup down : p.machine \in Machines /\ p.challenge \in Nat
  /\ playing \subseteq Slots /\ abandoned \subseteq Slots
  /\ spent \subseteq Nat /\ welcome \subseteq Machines

\* A machine has one slot, however often and fast it connects again, and whatever
\* becomes of the packets of its attempts: its zombie is taken over as well.
OneSlotEach == \A s, t \in Slots, m \in Machines : Has(s, m) /\ Has(t, m) => s = t

\* No slot changes hands while somebody has it: a machine's own is taken over by
\* itself only, and a bot's by a machine for which there is no free slot.
NotDisplaced ==
  [][\A s \in Slots :
       slots[s].state # "free" /\ slots'[s].state # "free" /\ slots'[s].machine # slots[s].machine
         => IsBot(s) /\ \A t \in Slots : slots[t].state # "free"]_vars

\* A copy of a request that was used before does not touch the slots.
NoReplay ==
  [][\A p \in up :
       p.kind = "connect" /\ p.challenge \in spent /\ p \notin up' => slots' = slots]_vars

\* The game has those players in the game that the server has, however they came and
\* went, and besides them only those who asked to connect again and were refused: the
\* server clears such a client's slot without telling the game of it, and the player stays
\* in the game until the slot is given away.
GameKnows ==
  /\ \A s \in abandoned : slots[s].state = "free"
  /\ playing = abandoned \cup {s \in Slots : slots[s].state = "spawned"}

\* Who keeps trying gets in and stays, although packets get lost and come late, bots take
\* free slots, and slots of earlier attempts count against its host.
InGame(m) == machine[m].state = "active" /\ \E s \in Slots : Serves(s, m) /\ slots[s].state = "spawned"
GetsIn == \A m \in Keen : <>[]InGame(m)

\* A machine that has left does not keep its slot, even if the server was not told.
Reclaimed ==
  \A s \in Slots, m \in Machines : []<>~(Has(s, m) /\ machine[m].state = "idle")
=============================================================================
