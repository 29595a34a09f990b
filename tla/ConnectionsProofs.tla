------------------------- MODULE ConnectionsProofs -------------------------
(***************************************************************************)
(* What Connections guarantees for any number of machines, hosts, slots,   *)
(* challenges and faults, and whatever the limits and times are.           *)
(***************************************************************************)
EXTENDS Connections, SequenceTheorems, FunctionTheorems, FiniteSetTheorems,
        WellFoundedInduction, TLAPS

(* The inductive invariants. *)

SlotRecord == [state : Live \cup {"free", "zombie"}, machine : Machines \cup {Bot, Nobody},
               age : Nat, since : Nat]

SlotTypes == slots \in [Slots -> SlotRecord] /\ abandoned \subseteq Slots
SlotInv == SlotTypes /\ OneSlotEach /\ GameKnows

Entry == [host : Hosts, challenge : Nat \ {0}]
PacketRecord ==
  [machine : Machines, challenge : Nat, late : BOOLEAN,
   kind : {"getchallenge", "challenge", "connect", "client_connect", "reject", "refuse"}]

\* A challenge is in the table once, and not at all once it was used, as long as
\* requests with it may come.
PacketTypes ==
  /\ IsFiniteSet(up) /\ IsFiniteSet(down) /\ up \subseteq PacketRecord /\ down \subseteq PacketRecord
  /\ \A p \in up : p.kind = "getchallenge" => p.challenge = 0
ChallengesDiffer ==
  \A i, j \in 1 .. Len(challenges) : challenges[i].challenge = challenges[j].challenge => i = j
SpentInv ==
  \A n \in spent : /\ n # 0 /\ \E p \in up : p.challenge = n
                   /\ \A i \in 1 .. Len(challenges) : challenges[i].challenge # n
ChallengeInv ==
  /\ host \in [Machines -> Hosts] /\ challenges \in Seq(Entry)
  /\ PacketTypes /\ ChallengesDiffer /\ SpentInv

\* The table is never overfull, and no host is in it twice.
TableInv ==
  /\ Len(challenges) <= MAX_CHALLENGES
  /\ \A i, j \in 1 .. Len(challenges) : challenges[i].host = challenges[j].host => i = j
ClientRecord == [state : {"idle", "connecting", "handshake", "loading", "active"},
                 count : 0 .. MaxResend + 1, wait : 0 .. Resend]
ClientInv == machine \in [Machines -> ClientRecord] /\ welcome \subseteq Machines

-----------------------------------------------------------------------------
(* Least and greatest elements, and sequences *)

LEMMA Smallest ==
  ASSUME NEW T \in SUBSET Nat, T # {}
  PROVE  \E x \in T : \A y \in T : x <= y
<1>1. PICK x \in T : \A y \in T : ~(<<y, x>> \in OpToRel(<, Nat))
  BY NatLessThanWellFounded, WFMin, Zenon
<1>2. \A a, b \in Nat : a < b => <<a, b>> \in OpToRel(<, Nat)
  BY DEF OpToRel
<1>3. \A y \in T : ~(y < x)
  BY <1>1, <1>2
<1> QED BY <1>3

LEMMA MinIn ==
  ASSUME NEW T \in SUBSET Nat, T # {}
  PROVE  Min(T) \in T /\ \A y \in T : Min(T) <= y
BY Smallest DEF Min

LEMMA MaxIn ==
  ASSUME NEW n \in Nat, NEW T \in SUBSET (0 .. n), T # {}
  PROVE  Max(T) \in T
<1> DEFINE S == {n - t : t \in T}
<1>1. S \in SUBSET Nat /\ S # {}
  <2>1. \A t \in T : n - t \in Nat
    OBVIOUS
  <2>2. PICK t \in T : TRUE
    OBVIOUS
  <2>3. n - t \in S
    OBVIOUS
  <2> QED BY <2>1, <2>3
<1>2. PICK x \in S : \A y \in S : x <= y
  BY <1>1, Smallest
<1>3. PICK u \in T : x = n - u
  OBVIOUS
<1>4. \A t \in T : x <= n - t
  BY <1>2
<1>5. \A t \in T : u >= t
  BY <1>3, <1>4
<1> QED BY <1>5 DEF Max

LEMMA Removed ==
  ASSUME NEW S, NEW s \in Seq(S), NEW i \in 1 .. Len(s)
  PROVE  /\ RemoveAt(s, i) \in Seq(S) /\ Len(RemoveAt(s, i)) = Len(s) - 1
         /\ \A k \in 1 .. Len(s) - 1 : RemoveAt(s, i)[k] = s[IF k < i THEN k ELSE k + 1]
<1> DEFINE a == SubSeq(s, 1, i - 1)
           b == SubSeq(s, i + 1, Len(s))
<1>1. /\ a \in Seq(S) /\ Len(a) = i - 1
      /\ \A k \in 1 .. i - 1 : a[k] = s[k]
  BY SubSeqProperties
<1>2. /\ b \in Seq(S) /\ Len(b) = Len(s) - i
      /\ \A k \in 1 .. Len(s) - i : b[k] = s[k + i]
  BY SubSeqProperties
<1> HIDE DEF a, b
<1>3. /\ a \o b \in Seq(S) /\ Len(a \o b) = Len(s) - 1
      /\ \A k \in 1 .. Len(s) - 1 : (a \o b)[k] = IF k <= i - 1 THEN a[k] ELSE b[k - (i - 1)]
  <2>1. Len(a) + Len(b) = Len(s) - 1
    BY <1>1, <1>2
  <2>2. /\ a \o b \in Seq(S) /\ Len(a \o b) = Len(a) + Len(b)
        /\ \A k \in 1 .. Len(a) + Len(b) : (a \o b)[k] = IF k <= Len(a) THEN a[k] ELSE b[k - Len(a)]
    BY <1>1, <1>2, ConcatProperties
  <2> QED BY <1>1, <2>1, <2>2
<1>4. \A k \in 1 .. Len(s) - 1 : (a \o b)[k] = s[IF k < i THEN k ELSE k + 1]
  <2> SUFFICES ASSUME NEW k \in 1 .. Len(s) - 1 PROVE (a \o b)[k] = s[IF k < i THEN k ELSE k + 1]
    OBVIOUS
  <2>1. CASE k < i
    BY <2>1, <1>1, <1>3
  <2>2. CASE ~(k < i)
    <3>1. k - (i - 1) \in 1 .. Len(s) - i /\ (k - (i - 1)) + i = k + 1 /\ ~(k <= i - 1)
      BY <2>2
    <3> QED BY <2>2, <3>1, <1>2, <1>3
  <2> QED BY <2>1, <2>2
<1> QED BY <1>3, <1>4 DEF RemoveAt, a, b

LEMMA TailIn ==
  ASSUME NEW S, NEW s \in Seq(S), s # <<>>
  PROVE  /\ Tail(s) \in Seq(S) /\ Len(Tail(s)) = Len(s) - 1
         /\ \A i \in 1 .. Len(s) - 1 : Tail(s)[i] = s[i + 1]
BY HeadTailProperties

LEMMA AppendIn ==
  ASSUME NEW S, NEW s \in Seq(S), NEW e \in S
  PROVE  /\ Append(s, e) \in Seq(S) /\ Len(Append(s, e)) = Len(s) + 1
         /\ \A i \in 1 .. Len(s) + 1 : Append(s, e)[i] = IF i = Len(s) + 1 THEN e ELSE s[i]
OBVIOUS

-----------------------------------------------------------------------------
(* Slots *)

LEMMA Constants ==
  /\ maxclients \in Nat \ {0} /\ MAX_CHALLENGES \in Nat \ {0}
  /\ Bot \notin Machines /\ Nobody \notin Machines /\ Bot # Nobody
  /\ Placements \subseteq [Machines -> Hosts]
  /\ sv_timeout \in Nat /\ sv_zombietime \in Nat /\ sv_reconnectlimit \in Nat
BY SizesAssumption

LEMMA FreeSlotType == FreeSlot \in SlotRecord /\ FreeSlot.state = "free"
BY DEF FreeSlot, SlotRecord

\* A free slot, or the last one of a bot when none is free, or none.
LEMMA SlotForWhom ==
  ASSUME NEW m
  PROVE  \/ SlotFor(m) = 0
         \/ SlotFor(m) \in Slots /\ slots[SlotFor(m)].state = "free"
         \/ /\ SlotFor(m) \in Slots /\ IsBot(SlotFor(m))
            /\ \A t \in Slots : slots[t].state # "free"
<1> DEFINE free == {s \in Slots : slots[s].state = "free"}
           bots == {s \in Slots : IsBot(s)}
<1>1. free \in SUBSET Nat /\ bots \in SUBSET (0 .. maxclients)
  BY Constants DEF Slots
<1>2. CASE free # {}
  <2>1. SlotFor(m) = Min(free)
    BY <1>2 DEF SlotFor
  <2>2. Min(free) \in free
    BY <1>1, <1>2, MinIn
  <2> QED BY <2>1, <2>2
<1>3. CASE free = {} /\ bots # {}
  <2>1. SlotFor(m) = Max(bots)
    BY <1>3 DEF SlotFor
  <2>2. Max(bots) \in bots
    BY <1>1, <1>3, MaxIn, Constants
  <2> QED BY <1>3, <2>1, <2>2
<1>4. CASE free = {} /\ bots = {}
  BY <1>4 DEF SlotFor
<1> QED BY <1>2, <1>3, <1>4

\* A step that leaves the slots alone.
LEMMA QuietStep ==
  ASSUME SlotInv, UNCHANGED <<slots, playing, abandoned>>
  PROVE  SlotInv'
BY DEF SlotInv, SlotTypes, OneSlotEach, Has, GameKnows

\* A step that changes the record of one slot: its player joins or leaves the game with
\* it, or is abandoned.
LEMMA OneSlotStep ==
  ASSUME SlotInv, NEW s \in Slots, NEW r \in SlotRecord,
         slots' = [slots EXCEPT ![s] = r],
         \A m \in Machines : r.machine = m /\ r.state # "free" =>
            \A t \in Slots : Has(t, m) => t = s,
         NEW left \in BOOLEAN, left => r.state = "free",
         playing' = IF left \/ r.state = "spawned" THEN playing \cup {s} ELSE playing \ {s},
         abandoned' = IF left THEN abandoned \cup {s} ELSE abandoned \ {s}
  PROVE  SlotInv'
<1> USE DEF SlotInv
<1>1. /\ slots' \in [Slots -> SlotRecord] /\ slots'[s] = r
      /\ \A t \in Slots : t # s => slots'[t] = slots[t]
  BY DEF SlotTypes
<1>2. SlotTypes'
  BY <1>1 DEF SlotTypes
<1>3. OneSlotEach'
  BY <1>1 DEF OneSlotEach, Has
<1>4. \A t \in abandoned' : slots'[t].state = "free"
  BY <1>1 DEF GameKnows, SlotTypes
<1>5. playing' = abandoned' \cup {t \in Slots : slots'[t].state = "spawned"}
  <2>1. \A t : t \in playing <=> t \in abandoned \/ (t \in Slots /\ slots[t].state = "spawned")
    BY DEF GameKnows
  <2> QED BY <1>1, <2>1
<1> QED BY <1>2, <1>3, <1>4, <1>5 DEF GameKnows

\* Whose slot is in use is not abandoned, and plays if spawned.
LEMMA InUse ==
  ASSUME SlotInv, NEW s \in Slots, slots[s].state # "free"
  PROVE  s \notin abandoned /\ (s \in playing <=> slots[s].state = "spawned")
BY DEF SlotInv, GameKnows

\* A step that changes the state of a slot that somebody has.
LEMMA StateStep ==
  ASSUME SlotInv, NEW s \in Slots, abandoned' = abandoned,
         NEW state \in Live \cup {"zombie"}, slots[s].state # "free",
         slots' = [slots EXCEPT ![s].state = state],
         playing' = IF state = "spawned" THEN playing \cup {s} ELSE playing \ {s}
  PROVE  SlotInv' /\ slots'[s].machine = slots[s].machine
                  /\ \A t \in Slots : t # s => slots'[t] = slots[t]
<1> DEFINE r == [slots[s] EXCEPT !.state = state]
<1>1. slots[s] \in SlotRecord /\ slots \in [Slots -> SlotRecord]
  BY DEF SlotInv, SlotTypes
<1>2. r \in SlotRecord /\ r.state = state /\ r.machine = slots[s].machine
  BY <1>1 DEF SlotRecord
<1>3. slots' = [slots EXCEPT ![s] = r]
  OBVIOUS
<1> HIDE DEF r
<1>4. \A m \in Machines : r.machine = m => Has(s, m)
  BY <1>2 DEF Has
<1>5. \A m \in Machines : r.machine = m /\ r.state # "free" =>
        \A t \in Slots : Has(t, m) => t = s
  BY <1>4 DEF SlotInv, OneSlotEach
<1>6. abandoned' = abandoned \ {s}
  BY InUse
<1>7. SlotInv'
  BY <1>2, <1>3, <1>5, <1>6, OneSlotStep
<1> QED BY <1>1, <1>2, <1>3, <1>7

LEMMA DropStep ==
  ASSUME SlotInv, NEW s \in Slots, abandoned' = abandoned, slots[s].state \in Live, DropClient(s)
  PROVE  SlotInv' /\ slots'[s].machine = slots[s].machine
                  /\ \A t \in Slots : t # s => slots'[t] = slots[t]
<1>1. /\ slots' = [slots EXCEPT ![s].state = "zombie"]
      /\ playing' = IF GameTold(slots[s].state) THEN playing \ {s} ELSE playing
  BY DEF DropClient
<1>2. slots[s].state # "free" /\ "zombie" \in Live \cup {"zombie"} /\ "zombie" # "spawned"
  BY DEF Live
<1>3. slots[s].state # "spawned" => s \notin playing
  BY <1>2, InUse
<1>4. ~GameTold(slots[s].state) => slots[s].state # "spawned"
  BY DEF GameTold
<1>5. playing' = playing \ {s}
  BY <1>1, <1>3, <1>4
<1> QED BY <1>1, <1>2, <1>5, StateStep

-----------------------------------------------------------------------------
(* The steps that change slots *)

\* What NotDisplaced says of one step.
Undisplaced ==
  \A s \in Slots :
    slots[s].state # "free" /\ slots'[s].state # "free" /\ slots'[s].machine # slots[s].machine
      => IsBot(s) /\ \A t \in Slots : slots[t].state # "free"

LEMMA ConnectStep ==
  ASSUME SlotInv, NEW p, p.machine \in Machines, SVC_DirectConnect(p)
  PROVE  SlotInv' /\ Undisplaced
<1> DEFINE m == p.machine
           own == SlotToReuse(m)
           s == IF own # {} THEN Min(own) ELSE SlotFor(m)
           taken == [state |-> "connecting", machine |-> m, age |-> 0, since |-> 0]
<1>2. \/ UNCHANGED <<slots, playing, abandoned>>
      \/ /\ s # 0
         /\ slots' = [slots EXCEPT ![s] = FreeSlot]
         /\ playing' = IF IsBot(s) THEN playing \ {s} ELSE playing
         /\ abandoned' = IF slots[s].state = "spawned" /\ ~IsBot(s)
                         THEN abandoned \cup {s} ELSE abandoned
      \/ /\ s # 0
         /\ slots' = [slots EXCEPT ![s] = taken]
         /\ playing' = playing \ {s}
         /\ abandoned' = abandoned \ {s}
  BY Zenon DEF SVC_DirectConnect
<1>3. CASE UNCHANGED <<slots, playing, abandoned>>
  BY <1>3, QuietStep DEF Undisplaced
<1>4. ASSUME own # {}
      PROVE  s \in Slots /\ Has(s, m) /\ \A t \in Slots : Has(t, m) => t = s
  <2>1. own \in SUBSET Nat /\ s = Min(own)
    BY <1>4 DEF SlotToReuse, Slots
  <2>2. s \in own
    BY <1>4, <2>1, MinIn
  <2>3. s \in Slots /\ Has(s, m)
    BY <2>2 DEF SlotToReuse
  <2> QED BY <2>3 DEF SlotInv, OneSlotEach
<1>5. ASSUME own = {}, s # 0
      PROVE  /\ s \in Slots /\ \A t \in Slots : ~Has(t, m)
             /\ \/ slots[s].state = "free"
                \/ IsBot(s) /\ \A t \in Slots : slots[t].state # "free"
  <2>1. s = SlotFor(m)
    BY <1>5
  <2>2. \A t \in Slots : ~Has(t, m)
    BY <1>5 DEF SlotToReuse
  <2> QED BY <1>5, <2>1, <2>2, SlotForWhom
<1> HIDE DEF own, s
<1>6. ASSUME s # 0
      PROVE  /\ s \in Slots /\ \A t \in Slots : Has(t, m) => t = s
             /\ \/ Has(s, m) \/ slots[s].state = "free"
                \/ IsBot(s) /\ \A t \in Slots : slots[t].state # "free"
  BY <1>4, <1>5, <1>6
<1>7. slots \in [Slots -> SlotRecord]
  BY DEF SlotInv, SlotTypes
<1>8. CASE /\ s # 0 /\ slots' = [slots EXCEPT ![s] = FreeSlot]
           /\ playing' = IF IsBot(s) THEN playing \ {s} ELSE playing
           /\ abandoned' = IF slots[s].state = "spawned" /\ ~IsBot(s)
                           THEN abandoned \cup {s} ELSE abandoned
  <2> DEFINE left == s \in abandoned \/ (slots[s].state = "spawned" /\ ~IsBot(s))
  <2>1. s \in Slots
    BY <1>6, <1>8
  <2>2. s \in playing <=> s \in abandoned \/ slots[s].state = "spawned"
    BY <2>1 DEF SlotInv, GameKnows
  <2>3. IsBot(s) => s \notin abandoned
    BY <2>1, InUse DEF IsBot, Live
  <2>4. SlotInv'
    <3>1. FreeSlot.state # "spawned" /\ FreeSlot.state = "free" /\ left \in BOOLEAN
      BY FreeSlotType
    <3>2. playing' = IF left THEN playing \cup {s} ELSE playing \ {s}
      BY <1>8, <2>2, <2>3
    <3>3. abandoned' = IF left THEN abandoned \cup {s} ELSE abandoned \ {s}
      BY <1>8, <2>2, <2>3
    <3> HIDE DEF left
    <3> QED BY <1>8, <2>1, <3>1, <3>2, <3>3, FreeSlotType, OneSlotStep
  <2>5. Undisplaced
    BY <1>7, <1>8, <2>1, FreeSlotType DEF Undisplaced
  <2> QED BY <2>4, <2>5
<1>9. CASE /\ s # 0 /\ slots' = [slots EXCEPT ![s] = taken]
           /\ playing' = playing \ {s} /\ abandoned' = abandoned \ {s}
  <2>1. s \in Slots
    BY <1>6, <1>9
  <2>2. taken \in SlotRecord /\ taken.state = "connecting" /\ taken.machine = m
    BY DEF SlotRecord, Live
  <2> HIDE DEF taken
  <2>3. SlotInv'
    BY <1>6, <1>9, <2>1, <2>2, OneSlotStep
  <2>4. Undisplaced
    <3>1. slots'[s] = taken /\ \A t \in Slots : t # s => slots'[t] = slots[t]
      BY <1>7, <1>9, <2>1
    <3>2. Has(s, m) => slots[s].machine = m
      BY DEF Has
    <3> QED BY <1>6, <1>9, <2>2, <3>1, <3>2 DEF Undisplaced
  <2> QED BY <2>3, <2>4
<1> QED BY <1>2, <1>3, <1>8, <1>9

LEMMA FakeConnectStep ==
  ASSUME SlotInv, NEW s \in Slots, SVC_FakeConnect(s)
  PROVE  SlotInv' /\ Undisplaced
<1> DEFINE free == {t \in Slots : slots[t].state = "free"}
           bot == [state |-> "spawned", machine |-> Bot, age |-> 0, since |-> 0]
<1>1. /\ s = Min(free \cup {maxclients + 1}) /\ slots' = [slots EXCEPT ![s] = bot]
      /\ playing' = playing \cup {s} /\ abandoned' = abandoned \ {s}
  BY DEF SVC_FakeConnect
<1>2. s \in free
  <2>1. free \cup {maxclients + 1} \in SUBSET Nat /\ free \cup {maxclients + 1} # {}
    BY Constants DEF Slots
  <2>2. s \in free \cup {maxclients + 1}
    BY <1>1, <2>1, MinIn
  <2>3. s # maxclients + 1
    BY Constants DEF Slots
  <2> QED BY <2>2, <2>3
<1>3. slots[s].state = "free" /\ slots \in [Slots -> SlotRecord]
  BY <1>2 DEF SlotInv, SlotTypes
<1>4. bot \in SlotRecord /\ bot.state = "spawned" /\ bot.machine \notin Machines
  BY Constants DEF SlotRecord, Live
<1> HIDE DEF bot
<1>5. SlotInv'
  BY <1>1, <1>4, OneSlotStep
<1>6. Undisplaced
  BY <1>1, <1>3 DEF Undisplaced
<1> QED BY <1>5, <1>6

LEMMA StaysPut ==
  ASSUME NEW s \in Slots, slots'[s].machine = slots[s].machine,
         \A t \in Slots : t # s => slots'[t] = slots[t]
  PROVE  Undisplaced
BY DEF Undisplaced

LEMMA KickStep ==
  ASSUME SlotInv, NEW s \in Slots, Kick(s)
  PROVE  SlotInv' /\ Undisplaced
<1>1. slots[s].state \in Live /\ DropClient(s) /\ abandoned' = abandoned
  BY DEF Kick
<1> QED BY <1>1, DropStep, StaysPut

LEMMA DisconnectStep ==
  ASSUME SlotInv, NEW m \in Machines, NEW told \in BOOLEAN, CL_Disconnect(m, told)
  PROVE  SlotInv' /\ Undisplaced
<1>1. abandoned' = abandoned
      /\ (UNCHANGED <<slots, playing>> \/ \E s \in Slots : Serves(s, m) /\ DropClient(s))
  BY DEF CL_Disconnect
<1>2. CASE UNCHANGED <<slots, playing>>
  BY <1>1, <1>2, QuietStep DEF Undisplaced
<1>3. CASE \E s \in Slots : Serves(s, m) /\ DropClient(s)
  <2>1. PICK s \in Slots : slots[s].state \in Live /\ DropClient(s)
    BY <1>3 DEF Serves
  <2> QED BY <1>1, <2>1, DropStep, StaysPut
<1> QED BY <1>1, <1>2, <1>3

LEMMA NewStep ==
  ASSUME SlotInv, NEW s \in Slots, SV_New_f(s)
  PROVE  SlotInv' /\ Undisplaced
<1>1. /\ slots[s].state = "connecting" /\ UNCHANGED <<playing, abandoned>>
      /\ slots' = [slots EXCEPT ![s].state = "connected"]
  BY DEF SV_New_f
<1>2. playing' = playing \ {s}
  BY <1>1, InUse
<1>3. "connected" \in Live \cup {"zombie"} /\ slots[s].state # "free"
  BY <1>1 DEF Live
<1> QED BY <1>1, <1>2, <1>3, StateStep, StaysPut

LEMMA BeginStep ==
  ASSUME SlotInv, NEW s \in Slots, SV_Begin_f(s)
  PROVE  SlotInv' /\ Undisplaced
<1>1. /\ slots[s].state \in Live /\ abandoned' = abandoned
      /\ IF slots[s].state = "connected"
         THEN /\ slots' = [slots EXCEPT ![s].state = "spawned"]
              /\ playing' = playing \cup {s}
         ELSE DropClient(s)
  BY DEF SV_Begin_f, Serves
<1>2. CASE slots[s].state = "connected"
  <2>1. /\ "spawned" \in Live \cup {"zombie"} /\ slots[s].state # "free"
        /\ playing' = playing \cup {s}
    BY <1>1, <1>2 DEF Live
  <2> QED BY <1>1, <1>2, <2>1, StateStep, StaysPut
<1>3. CASE slots[s].state # "connected"
  BY <1>1, <1>3, DropStep, StaysPut
<1> QED BY <1>2, <1>3

LEMMA TickStep ==
  ASSUME SlotInv, Tick
  PROVE  SlotInv' /\ Undisplaced
<1> DEFINE older(n, limit) == Min({n + 1, limit})
           top == Max({sv_timeout, sv_zombietime}) + 1
           aged(s) == [slots[s] EXCEPT
             !.age = IF slots[s].state \in Live /\ Talks(s) THEN 0 ELSE older(@, top),
             !.since = IF slots[s].machine = Bot THEN 0 ELSE older(@, sv_reconnectlimit)]
           over(s) == aged(s).state = "zombie" /\ aged(s).age > sv_zombietime
<1>1. /\ slots' = [s \in Slots |-> IF slots[s].state = "free" \/ over(s) \/ TimesOut(aged(s))
                                   THEN FreeSlot ELSE aged(s)]
      /\ playing' = playing \ {s \in Slots : TimesOut(aged(s)) /\ GameTold(slots[s].state)}
      /\ abandoned' = abandoned
  BY Zenon DEF Tick
<1>2. \A n, limit \in Nat : older(n, limit) \in Nat
  <2> SUFFICES ASSUME NEW n \in Nat, NEW limit \in Nat PROVE Min({n + 1, limit}) \in Nat
    OBVIOUS
  <2>1. {n + 1, limit} \in SUBSET Nat /\ {n + 1, limit} # {}
    OBVIOUS
  <2>2. Min({n + 1, limit}) \in {n + 1, limit}
    BY <2>1, MinIn
  <2> QED BY <2>1, <2>2
<1>3. top \in Nat
  <2>1. /\ {sv_timeout, sv_zombietime} \in SUBSET (0 .. sv_timeout + sv_zombietime)
        /\ {sv_timeout, sv_zombietime} # {} /\ sv_timeout + sv_zombietime \in Nat
    BY Constants
  <2>2. Max({sv_timeout, sv_zombietime}) \in {sv_timeout, sv_zombietime}
    BY <2>1, MaxIn
  <2> QED BY <2>2, Constants
<1> HIDE DEF older, top
<1>4. ASSUME NEW s \in Slots
      PROVE  /\ aged(s) \in SlotRecord /\ aged(s).state = slots[s].state
             /\ aged(s).machine = slots[s].machine
  <2>1. slots[s] \in SlotRecord
    BY DEF SlotInv, SlotTypes
  <2>2. slots[s].age \in Nat /\ slots[s].since \in Nat
    BY <2>1 DEF SlotRecord
  <2>3. older(slots[s].age, top) \in Nat /\ older(slots[s].since, sv_reconnectlimit) \in Nat
    BY <1>2, <1>3, <2>2, Constants
  <2> DEFINE a == IF slots[s].state \in Live /\ Talks(s) THEN 0 ELSE older(slots[s].age, top)
             b == IF slots[s].machine = Bot THEN 0 ELSE older(slots[s].since, sv_reconnectlimit)
             aging == [slots[s] EXCEPT !.age = a]
  <2>4. a \in Nat /\ b \in Nat
    BY <2>3
  <2>5. aged(s) = [aging EXCEPT !.since = b]
    BY <2>1 DEF SlotRecord
  <2> HIDE DEF a, b, aged
  <2>6. /\ aging \in SlotRecord /\ aging.state = slots[s].state
        /\ aging.machine = slots[s].machine
    BY <2>1, <2>4 DEF SlotRecord
  <2> HIDE DEF aging
  <2> QED BY <2>4, <2>5, <2>6 DEF SlotRecord
<1> HIDE DEF aged, over
<1>5. ASSUME NEW s \in Slots
      PROVE  /\ slots'[s] \in SlotRecord
             /\ \/ slots'[s].state = "free"
                \/ /\ slots'[s].state = slots[s].state /\ slots'[s].machine = slots[s].machine
                   /\ ~TimesOut(aged(s))
             /\ slots[s].state = "spawned" => (slots'[s].state = "free" <=> TimesOut(aged(s)))
  <2>1. over(s) => aged(s).state = "zombie"
    BY DEF over
  <2> QED BY <1>1, <1>4, <2>1, FreeSlotType
<1>6. slots' \in [Slots -> SlotRecord]
  BY <1>1, <1>5
<1>7. \A s \in Slots, m \in Machines : Has(s, m)' => Has(s, m)
  BY <1>5 DEF Has
<1>8. SlotTypes'
  BY <1>1, <1>6 DEF SlotInv, SlotTypes
<1>9. OneSlotEach'
  BY <1>7 DEF SlotInv, OneSlotEach
<1>10. \A s \in Slots : slots[s].state = "free" => slots'[s].state = "free"
  BY <1>1, FreeSlotType
<1>11. GameKnows'
  <2>1. \A s : s \in playing <=> s \in abandoned \/ (s \in Slots /\ slots[s].state = "spawned")
    BY DEF SlotInv, GameKnows
  <2>2. \A s \in Slots : slots'[s].state = "spawned" <=> slots[s].state = "spawned" /\ ~TimesOut(aged(s))
    BY <1>5
  <2>3. \A s \in Slots : slots[s].state = "spawned" => GameTold(slots[s].state)
    BY DEF GameTold
  <2>4. \A s \in abandoned : s \in Slots /\ slots[s].state = "free" /\ slots'[s].state = "free"
    BY <1>10 DEF SlotInv, SlotTypes, GameKnows
  <2>5. \A s \in abandoned : ~GameTold(slots[s].state)
    BY <2>4 DEF GameTold
  <2>6. playing' = abandoned' \cup {s \in Slots : slots'[s].state = "spawned"}
    BY <1>1, <2>1, <2>2, <2>3, <2>5
  <2> QED BY <1>1, <2>4, <2>6 DEF GameKnows
<1>12. Undisplaced
  BY <1>5 DEF Undisplaced
<1> QED BY <1>8, <1>9, <1>11, <1>12 DEF SlotInv

LEMMA SlotInit == Init => SlotInv
<1> SUFFICES ASSUME Init PROVE SlotInv
  OBVIOUS
<1>1. \A s \in Slots : slots[s].state = "free"
  BY FreeSlotType DEF Init
<1>2. SlotTypes
  BY FreeSlotType DEF Init, SlotTypes
<1>3. OneSlotEach
  BY <1>1 DEF OneSlotEach, Has
<1>4. GameKnows
  BY <1>1 DEF Init, GameKnows
<1> QED BY <1>2, <1>3, <1>4 DEF SlotInv

-----------------------------------------------------------------------------
(* The steps that change challenges and packets *)

\* What NoReplay says of one step.
Unreplayed ==
  \A p \in up : p.kind = "connect" /\ p.challenge \in spent /\ p \notin up' => slots' = slots

\* There is always a number that nobody holds.
LEMMA FreshIsUnknown ==
  ASSUME ChallengeInv
  PROVE  /\ FreshChallenge \in Nat \ {0} /\ FreshChallenge \notin spent
         /\ \A i \in 1 .. Len(challenges) : challenges[i].challenge # FreshChallenge
<1> DEFINE P == up \cup down
           D == 1 .. Len(challenges)
           A == {p.challenge : p \in P}
           B == {challenges[i].challenge : i \in D}
           f == [p \in P |-> p.challenge]
           g == [i \in D |-> challenges[i].challenge]
<1>1. DOMAIN challenges = D /\ Len(challenges) \in Nat
  BY DEF ChallengeInv
<1>2. IsFiniteSet(P) /\ IsFiniteSet(D)
  <2>1. IsFiniteSet(P)
    BY FS_Union, Zenon DEF ChallengeInv, PacketTypes
  <2>2. 1 \in Int /\ Len(challenges) \in Int
    BY <1>1
  <2> QED BY <2>1, <2>2, FS_Interval, Zenon
<1>3. f \in Surjection(P, A)
  BY Fun_IsSurj
<1>4. g \in Surjection(D, B)
  BY Fun_IsSurj
<1>5. Known = A \cup B
  BY <1>1 DEF Known
<1> HIDE DEF P, D, A, B, f, g
<1>6. IsFiniteSet(Known)
  BY <1>2, <1>3, <1>4, <1>5, FS_Surjection, FS_Union
<1> DEFINE k == Cardinality(Known)
<1>7. k \in Nat
  BY <1>6, FS_CardinalityType
<1>8. ~(1 .. k + 1 \subseteq Known)
  <2> SUFFICES ASSUME 1 .. k + 1 \subseteq Known PROVE FALSE
    OBVIOUS
  <2>1. Cardinality(1 .. k + 1) <= k
    BY <1>6, FS_Subset
  <2>2. Cardinality(1 .. k + 1) = k + 1
    <3>1. k + 1 \in Nat \ {0}
      BY <1>7
    <3> HIDE DEF k
    <3>2. Cardinality(1 .. k + 1) = IF 1 > k + 1 THEN 0 ELSE (k + 1) - 1 + 1
      BY <3>1, FS_Interval
    <3> QED BY <3>1, <3>2, <1>7
  <2> HIDE DEF k
  <2> QED BY <2>1, <2>2, <1>7
<1>9. FreshChallenge \in 1 .. k + 1 /\ FreshChallenge \notin Known
  BY <1>8, Zenon DEF FreshChallenge
<1>10. \A n \in spent : n \in Known
  <2>1. \A n \in spent : n \in A
    BY DEF ChallengeInv, SpentInv, A, P
  <2> QED BY <2>1, <1>5
<1>11. \A i \in 1 .. Len(challenges) : challenges[i].challenge \in Known
  BY <1>5, Zenon DEF B, D
<1>12. FreshChallenge \in Nat \ {0}
  BY <1>7, <1>9
<1> QED BY <1>9, <1>10, <1>11, <1>12

\* The packets and challenges are untouched, or requests come in on their way.
LEMMA CarriedStep ==
  ASSUME ChallengeInv, UNCHANGED <<host, challenges, spent>>,
         up \subseteq up', IsFiniteSet(up'), IsFiniteSet(down'),
         up' \subseteq PacketRecord, down' \subseteq PacketRecord,
         \A p \in up' \ up : p.kind = "getchallenge" => p.challenge = 0
  PROVE  ChallengeInv'
<1> USE DEF ChallengeInv
<1>1. PacketTypes'
  BY DEF PacketTypes
<1>2. ChallengesDiffer'
  BY DEF ChallengesDiffer
<1>3. SpentInv'
  BY DEF SpentInv
<1> QED BY <1>1, <1>2, <1>3

LEMMA UntouchedStep ==
  ASSUME ChallengeInv, UNCHANGED <<host, challenges, spent, up, down>>
  PROVE  ChallengeInv' /\ Unreplayed
<1>1. Unreplayed
  BY DEF Unreplayed
<1>2. /\ up \subseteq up' /\ IsFiniteSet(up') /\ IsFiniteSet(down')
      /\ up' \subseteq PacketRecord /\ down' \subseteq PacketRecord
      /\ \A p \in up' \ up : p.kind = "getchallenge" => p.challenge = 0
  BY DEF ChallengeInv, PacketTypes
<1> QED BY <1>1, <1>2, CarriedStep

LEMMA PacketType ==
  ASSUME NEW m \in Machines, NEW c \in Nat,
         NEW kind \in {"getchallenge", "challenge", "connect", "client_connect", "reject", "refuse"}
  PROVE  /\ Packet(m, kind, c) \in PacketRecord /\ Packet(m, kind, c).kind = kind
         /\ Packet(m, kind, c).challenge = c
BY DEF Packet, PacketRecord

LEMMA Finite ==
  ASSUME NEW S, IsFiniteSet(S), NEW e
  PROVE  IsFiniteSet(S \ {e}) /\ IsFiniteSet(S \cup {e})
BY FS_AddElement, FS_RemoveElement

LEMMA LateType ==
  ASSUME NEW p \in PacketRecord
  PROVE  /\ [p EXCEPT !.late = TRUE] \in PacketRecord
         /\ [p EXCEPT !.late = TRUE].kind = p.kind
         /\ [p EXCEPT !.late = TRUE].challenge = p.challenge
BY DEF PacketRecord

LEMMA LoseStep ==
  ASSUME ChallengeInv, Lose, UNCHANGED host
  PROVE  ChallengeInv' /\ Unreplayed
<1> USE DEF ChallengeInv
<1>1. /\ UNCHANGED <<challenges, slots>> /\ spent' = StillAround(spent, up')
      /\ up' \subseteq up /\ down' \subseteq down
  BY DEF Lose
<1>2. PacketTypes'
  BY <1>1, FS_Subset DEF PacketTypes
<1>3. ChallengesDiffer'
  BY <1>1 DEF ChallengesDiffer
<1>4. SpentInv'
  BY <1>1 DEF SpentInv, StillAround
<1>5. Unreplayed
  BY <1>1 DEF Unreplayed
<1> QED BY <1>1, <1>2, <1>3, <1>4, <1>5

LEMMA DelayedFacts ==
  ASSUME NEW packets, packets \subseteq PacketRecord, IsFiniteSet(packets), NEW p \in packets,
         NEW twice \in BOOLEAN
  PROVE  LET after == Delayed(packets, p) \cup (IF twice THEN {p} ELSE {})
         IN  /\ after \subseteq PacketRecord /\ IsFiniteSet(after)
             /\ \A q \in after : \E r \in packets : q.kind = r.kind /\ q.challenge = r.challenge
             /\ \A r \in packets : \E q \in after : q.challenge = r.challenge
<1> DEFINE late == [p EXCEPT !.late = TRUE]
           after == Delayed(packets, p) \cup (IF twice THEN {p} ELSE {})
<1>1. late \in PacketRecord /\ late.kind = p.kind /\ late.challenge = p.challenge
  BY LateType
<1>2. after = (packets \ {p}) \cup {late} \cup (IF twice THEN {p} ELSE {})
  BY DEF Delayed
<1> HIDE DEF late, after
<1>3. IsFiniteSet((packets \ {p}) \cup {late}) /\ IsFiniteSet((packets \ {p}) \cup {late} \cup {p})
  BY Finite
<1>4. IsFiniteSet(after)
  <2>1. CASE twice
    BY <1>2, <1>3, <2>1
  <2>2. CASE ~twice
    <3>1. after = (packets \ {p}) \cup {late}
      BY <1>2, <2>2
    <3> QED BY <1>3, <3>1
  <2> QED BY <2>1, <2>2
<1>5. late \in after /\ \A r \in packets : r # p => r \in after
  BY <1>2
<1>6. \A q \in after : q = late \/ q \in packets
  BY <1>2
<1>7. after \subseteq PacketRecord
  BY <1>1, <1>6
<1>8. \A q \in after : \E r \in packets : q.kind = r.kind /\ q.challenge = r.challenge
  BY <1>1, <1>6
<1>9. \A r \in packets : \E q \in after : q.challenge = r.challenge
  BY <1>1, <1>5
<1> QED BY <1>4, <1>7, <1>8, <1>9 DEF after

LEMMA DelayStep ==
  ASSUME ChallengeInv, NEW twice \in BOOLEAN, Delay(twice), UNCHANGED host
  PROVE  ChallengeInv' /\ Unreplayed
<1> USE DEF ChallengeInv
<1>1. UNCHANGED <<challenges, slots, spent>>
  BY DEF Delay, serverVars
<1>2. Unreplayed
  BY <1>1 DEF Unreplayed
<1>3. CASE UNCHANGED down /\ \E p \in up : up' = Delayed(up, p) \cup (IF twice THEN {p} ELSE {})
  <2>1. PICK p \in up : up' = Delayed(up, p) \cup (IF twice THEN {p} ELSE {})
    BY <1>3
  <2>2. /\ up' \subseteq PacketRecord /\ IsFiniteSet(up')
        /\ \A q \in up' : \E r \in up : q.kind = r.kind /\ q.challenge = r.challenge
        /\ \A r \in up : \E q \in up' : q.challenge = r.challenge
    <3> DEFINE after == Delayed(up, p) \cup (IF twice THEN {p} ELSE {})
    <3>1. up \subseteq PacketRecord /\ IsFiniteSet(up)
      BY DEF PacketTypes
    <3>2. /\ after \subseteq PacketRecord /\ IsFiniteSet(after)
          /\ \A q \in after : \E r \in up : q.kind = r.kind /\ q.challenge = r.challenge
          /\ \A r \in up : \E q \in after : q.challenge = r.challenge
      BY <3>1, DelayedFacts
    <3> QED BY <2>1, <3>2, Zenon
  <2>3. PacketTypes'
    BY <1>3, <2>2 DEF PacketTypes
  <2>4. ChallengesDiffer'
    BY <1>1 DEF ChallengesDiffer
  <2>5. SpentInv'
    BY <1>1, <2>2 DEF SpentInv
  <2> QED BY <1>1, <1>2, <2>3, <2>4, <2>5
<1>4. CASE UNCHANGED up /\ \E p \in down : down' = Delayed(down, p) \cup (IF twice THEN {p} ELSE {})
  <2>1. PICK p \in down : down' = Delayed(down, p) \cup (IF twice THEN {p} ELSE {})
    BY <1>4
  <2>2. down' \subseteq PacketRecord /\ IsFiniteSet(down')
    <3> DEFINE after == Delayed(down, p) \cup (IF twice THEN {p} ELSE {})
    <3>1. down \subseteq PacketRecord /\ IsFiniteSet(down)
      BY DEF PacketTypes
    <3>2. /\ after \subseteq PacketRecord /\ IsFiniteSet(after)
          /\ \A q \in after : \E r \in down : q.kind = r.kind /\ q.challenge = r.challenge
          /\ \A r \in down : \E q \in after : q.challenge = r.challenge
      BY <3>1, DelayedFacts
    <3> QED BY <2>1, <3>2, Zenon
  <2>3. /\ up \subseteq up' /\ IsFiniteSet(up') /\ up' \subseteq PacketRecord
        /\ \A q \in up' \ up : q.kind = "getchallenge" => q.challenge = 0
    BY <1>4 DEF PacketTypes
  <2> QED BY <1>1, <1>2, <2>2, <2>3, CarriedStep
<1> QED BY <1>3, <1>4, Zenon DEF Delay

\* The table with room for one more challenge: entries of the table, each once.
LEMMA Roomy ==
  ASSUME NEW t \in Seq(Entry),
         \A i, j \in 1 .. Len(t) : t[i].challenge = t[j].challenge => i = j
  PROVE  LET r == RoomForOne(t)
         IN  /\ r \in Seq(Entry)
             /\ \A i \in 1 .. Len(r) : \E k \in 1 .. Len(t) : r[i] = t[k]
             /\ \A i, j \in 1 .. Len(r) : r[i].challenge = r[j].challenge => i = j
<1>1. CASE Len(t) # MAX_CHALLENGES
  BY <1>1 DEF RoomForOne
<1>2. CASE Len(t) = MAX_CHALLENGES
  <2>1. t # <<>>
    BY <1>2, Constants
  <2>2. /\ RoomForOne(t) = Tail(t) /\ Tail(t) \in Seq(Entry) /\ Len(Tail(t)) = Len(t) - 1
        /\ \A i \in 1 .. Len(t) - 1 : Tail(t)[i] = t[i + 1] /\ i + 1 \in 1 .. Len(t)
    BY <1>2, <2>1, TailIn DEF RoomForOne
  <2>3. \A i, j \in 1 .. Len(t) - 1 : Tail(t)[i].challenge = Tail(t)[j].challenge => i = j
    <3> SUFFICES ASSUME NEW i \in 1 .. Len(t) - 1, NEW j \in 1 .. Len(t) - 1,
                        Tail(t)[i].challenge = Tail(t)[j].challenge
                 PROVE  i = j
      OBVIOUS
    <3>1. i + 1 = j + 1
      BY <2>2
    <3> QED BY <3>1
  <2> QED BY <2>2, <2>3
<1> QED BY <1>1, <1>2

LEMMA GetChallengeStep ==
  ASSUME ChallengeInv, NEW p \in up, SVC_GetChallenge(p), UNCHANGED host
  PROVE  ChallengeInv' /\ Unreplayed
<1> USE DEF ChallengeInv
<1> DEFINE mine == {i \in DOMAIN challenges : challenges[i].host = host[p.machine]}
           entry == IF mine = {} THEN [host |-> host[p.machine], challenge |-> FreshChallenge]
                    ELSE challenges[Min(mine)]
<1>1. /\ p.kind = "getchallenge" /\ UNCHANGED <<slots, spent>> /\ up' = up \ {p}
      /\ challenges' = IF mine = {} THEN Append(RoomForOne(challenges), entry) ELSE challenges
      /\ down' = down \cup {Packet(p.machine, "challenge", entry.challenge)}
  BY Zenon DEF SVC_GetChallenge
<1>2. p.machine \in Machines /\ p.challenge = 0 /\ host[p.machine] \in Hosts
  <2>1. p \in PacketRecord /\ p.challenge = 0
    BY <1>1 DEF PacketTypes
  <2> QED BY <2>1 DEF PacketRecord
<1>3. DOMAIN challenges = 1 .. Len(challenges)
  OBVIOUS
<1>4. entry \in Entry
  <2>1. CASE mine = {}
    BY <2>1, <1>2, FreshIsUnknown DEF Entry
  <2>2. CASE mine # {}
    <3>1. mine \in SUBSET Nat
      BY <1>3
    <3>2. Min(mine) \in 1 .. Len(challenges)
      BY <2>2, <3>1, <1>3, MinIn
    <3> QED BY <2>2, <3>2
  <2> QED BY <2>1, <2>2
<1>5. mine = {} => entry.challenge = FreshChallenge
  OBVIOUS
<1> HIDE DEF entry, mine
<1>6. entry.challenge \in Nat
  BY <1>4 DEF Entry
<1>7. PacketTypes'
  <2>1. Packet(p.machine, "challenge", entry.challenge) \in PacketRecord
    BY <1>2, <1>6, PacketType
  <2>2. IsFiniteSet(up') /\ IsFiniteSet(down')
    BY <1>1, Finite DEF PacketTypes
  <2> QED BY <1>1, <2>1, <2>2 DEF PacketTypes
<1>8. /\ challenges' \in Seq(Entry) /\ ChallengesDiffer'
      /\ \A n \in spent, i \in 1 .. Len(challenges') : challenges'[i].challenge # n
  <2>1. CASE mine # {}
    BY <1>1, <2>1 DEF ChallengesDiffer, SpentInv
  <2>2. CASE mine = {}
    <3> DEFINE r == RoomForOne(challenges)
    <3>1. /\ r \in Seq(Entry)
          /\ \A i \in 1 .. Len(r) : \E k \in 1 .. Len(challenges) : r[i] = challenges[k]
          /\ \A i, j \in 1 .. Len(r) : r[i].challenge = r[j].challenge => i = j
      BY Roomy DEF ChallengesDiffer
    <3>2. challenges' = Append(r, entry)
      BY <1>1, <2>2
    <3> HIDE DEF r
    <3>3. /\ challenges' \in Seq(Entry) /\ Len(challenges') = Len(r) + 1 /\ Len(r) \in Nat
          /\ \A i \in 1 .. Len(r) + 1 : challenges'[i] = IF i = Len(r) + 1 THEN entry ELSE r[i]
      BY <1>4, <3>1, <3>2, AppendIn
    <3>4. entry.challenge \notin spent
          /\ \A i \in 1 .. Len(r) : r[i].challenge # entry.challenge /\ r[i].challenge \notin spent
      <4>1. entry.challenge = FreshChallenge
        BY <1>5, <2>2
      <4>2. /\ FreshChallenge \notin spent
            /\ \A k \in 1 .. Len(challenges) : challenges[k].challenge # FreshChallenge
        BY FreshIsUnknown
      <4>3. \A k \in 1 .. Len(challenges) : challenges[k].challenge \notin spent
        BY DEF SpentInv
      <4> QED BY <4>1, <4>2, <4>3, <3>1, Zenon
    <3>5. ChallengesDiffer'
      <4>1. SUFFICES ASSUME NEW i \in 1 .. Len(r) + 1, NEW j \in 1 .. Len(r) + 1,
                            challenges'[i].challenge = challenges'[j].challenge
                     PROVE  i = j
        BY <3>3 DEF ChallengesDiffer
      <4>2. CASE i = Len(r) + 1
        BY <4>1, <4>2, <3>3, <3>4
      <4>3. CASE j = Len(r) + 1
        BY <4>1, <4>3, <3>3, <3>4
      <4>4. CASE i \in 1 .. Len(r) /\ j \in 1 .. Len(r)
        <5>1. challenges'[i] = r[i] /\ challenges'[j] = r[j]
          BY <4>4, <3>3
        <5>2. r[i].challenge = r[j].challenge
          BY <4>1, <5>1, Zenon
        <5> QED BY <4>4, <5>2, <3>1, Zenon
      <4> QED BY <4>2, <4>3, <4>4, <3>3
    <3> QED BY <3>3, <3>4, <3>5
  <2> QED BY <2>1, <2>2
<1>9. SpentInv'
  <2>1. \A n \in spent : \E q \in up' : q.challenge = n
    BY <1>1, <1>2 DEF SpentInv
  <2> QED BY <2>1, <1>1, <1>8 DEF SpentInv
<1>10. Unreplayed
  BY <1>1 DEF Unreplayed
<1> QED BY <1>7, <1>8, <1>9, <1>10

LEMMA ConnectSpends ==
  ASSUME ChallengeInv, NEW p \in up, SVC_DirectConnect(p), UNCHANGED host
  PROVE  ChallengeInv' /\ Unreplayed
<1> USE DEF ChallengeInv
<1> DEFINE m == p.machine
           mine == {i \in DOMAIN challenges : challenges[i].host = host[m]}
           valid == mine # {} /\ challenges[Min(mine)].challenge = p.challenge
<1>1. /\ up' = up \ {p}
      /\ challenges' = IF valid THEN Spend(Min(mine)) ELSE challenges
      /\ down' = down \/ \E again \in BOOLEAN : down' = down \cup {Reject(m, again)}
         \/ down' = down \cup {Packet(m, "client_connect", 0)}
      /\ \/ spent' = StillAround(spent, up')
         \/ valid /\ spent' = StillAround(spent \cup {p.challenge}, up')
      /\ ~valid => slots' = slots
  BY Zenon DEF SVC_DirectConnect
<1>2. m \in Machines /\ p \in PacketRecord
  BY DEF PacketTypes, PacketRecord
<1>3. PacketTypes'
  <2>1. \A again \in BOOLEAN : Reject(m, again) \in PacketRecord
    BY <1>2, PacketType DEF Reject
  <2>2. Packet(m, "client_connect", 0) \in PacketRecord
    BY <1>2, PacketType
  <2>3. down' \subseteq PacketRecord /\ IsFiniteSet(down')
    <3>1. \E e \in PacketRecord : down' = down \/ down' = down \cup {e}
      BY <1>1, <2>1, <2>2
    <3>2. PICK e \in PacketRecord : down' = down \/ down' = down \cup {e}
      BY <3>1
    <3>3. IsFiniteSet(down \cup {e}) /\ IsFiniteSet(down) /\ down \subseteq PacketRecord
      BY Finite DEF PacketTypes
    <3> QED BY <3>2, <3>3
  <2>4. IsFiniteSet(up')
    BY <1>1, Finite DEF PacketTypes
  <2> QED BY <1>1, <2>3, <2>4 DEF PacketTypes
<1>4. DOMAIN challenges = 1 .. Len(challenges)
  OBVIOUS
<1>5. CASE ~valid
  <2>1. challenges' = challenges /\ spent' = StillAround(spent, up') /\ slots' = slots
    BY <1>1, <1>5
  <2>2. ChallengesDiffer'
    BY <2>1 DEF ChallengesDiffer
  <2>3. SpentInv'
    BY <2>1 DEF SpentInv, StillAround
  <2>4. Unreplayed
    BY <2>1 DEF Unreplayed
  <2> QED BY <1>3, <2>1, <2>2, <2>3, <2>4
<1>6. CASE valid
  <2> DEFINE i == Min(mine)
  <2>1. i \in 1 .. Len(challenges) /\ challenges[i].challenge = p.challenge
    <3>1. mine \in SUBSET Nat /\ mine # {}
      BY <1>4, <1>6
    <3>2. i \in mine
      BY <3>1, MinIn
    <3> QED BY <3>2, <1>4, <1>6
  <2>2. challenges' = RemoveAt(challenges, i)
    BY <1>1, <1>6 DEF Spend
  <2> HIDE DEF i, valid, mine
  <2>3. /\ challenges' \in Seq(Entry) /\ Len(challenges') = Len(challenges) - 1
        /\ \A k \in 1 .. Len(challenges) - 1 : challenges'[k] = challenges[IF k < i THEN k ELSE k + 1]
    BY <2>1, <2>2, Removed
  <2>4. Len(challenges) \in Nat
    OBVIOUS
  <2>5. \A k \in 1 .. Len(challenges') :
          \E j \in 1 .. Len(challenges) : j # i /\ challenges'[k] = challenges[j]
    <3> SUFFICES ASSUME NEW k \in 1 .. Len(challenges')
                 PROVE  \E j \in 1 .. Len(challenges) : j # i /\ challenges'[k] = challenges[j]
      OBVIOUS
    <3> DEFINE j == IF k < i THEN k ELSE k + 1
    <3>1. j \in 1 .. Len(challenges) /\ j # i /\ challenges'[k] = challenges[j]
      BY <2>1, <2>3, <2>4
    <3> QED BY <3>1
  <2>6. ChallengesDiffer'
    <3> SUFFICES ASSUME NEW a \in 1 .. Len(challenges'), NEW b \in 1 .. Len(challenges'),
                        challenges'[a].challenge = challenges'[b].challenge
                 PROVE  a = b
      BY DEF ChallengesDiffer
    <3> DEFINE x == IF a < i THEN a ELSE a + 1
               y == IF b < i THEN b ELSE b + 1
    <3>1. /\ x \in 1 .. Len(challenges) /\ challenges'[a] = challenges[x]
          /\ y \in 1 .. Len(challenges) /\ challenges'[b] = challenges[y]
      BY <2>1, <2>3, <2>4
    <3> HIDE DEF x, y
    <3>2. x = y
      BY <3>1 DEF ChallengesDiffer
    <3> QED BY <3>2, <2>1 DEF x, y
  <2>7. \A k \in 1 .. Len(challenges') :
          challenges'[k].challenge # p.challenge /\ challenges'[k].challenge \notin spent
    BY <2>1, <2>5 DEF ChallengesDiffer, SpentInv
  <2>8. p.challenge # 0 /\ p.challenge \notin spent
    <3>1. challenges[i] \in Entry
      BY <2>1
    <3> QED BY <2>1, <3>1 DEF Entry, SpentInv
  <2>9. spent' \subseteq spent \cup {p.challenge} /\ \A n \in spent' : \E q \in up' : q.challenge = n
    BY <1>1 DEF StillAround
  <2>10. SpentInv'
    BY <2>7, <2>8, <2>9 DEF SpentInv
  <2>11. Unreplayed
    BY <1>1, <2>8 DEF Unreplayed
  <2> QED BY <1>3, <2>3, <2>6, <2>10, <2>11
<1> QED BY <1>5, <1>6

LEMMA ResendStep ==
  ASSUME ChallengeInv, NEW m \in Machines, CL_CheckForResend(m), UNCHANGED host
  PROVE  ChallengeInv' /\ Unreplayed
<1>1. /\ UNCHANGED <<challenges, spent, down, slots>>
      /\ up' = up \/ up' = up \cup {Request(m)}
  BY DEF CL_CheckForResend, MachineOnly, serverVars
<1>2. Request(m) \in PacketRecord /\ Request(m).challenge = 0
  BY PacketType DEF Request
<1>3. IsFiniteSet(up \cup {Request(m)}) /\ IsFiniteSet(up) /\ IsFiniteSet(down)
  BY Finite DEF ChallengeInv, PacketTypes
<1>4. /\ up \subseteq up' /\ IsFiniteSet(up') /\ IsFiniteSet(down')
      /\ up' \subseteq PacketRecord /\ down' \subseteq PacketRecord
      /\ \A p \in up' \ up : p.kind = "getchallenge" => p.challenge = 0
  BY <1>1, <1>2, <1>3 DEF ChallengeInv, PacketTypes
<1> QED BY <1>1, <1>4, CarriedStep DEF Unreplayed

LEMMA ReceiveStep ==
  ASSUME ChallengeInv, ClientReceive, UNCHANGED host
  PROVE  ChallengeInv' /\ Unreplayed
<1>1. PICK p \in down :
        /\ down' = down \ {p} /\ UNCHANGED <<challenges, spent, slots>>
        /\ up' = up \/ up' = up \cup {Packet(p.machine, "connect", p.challenge)}
  BY DEF ClientReceive, serverVars
<1>2. p.machine \in Machines /\ p.challenge \in Nat
  BY DEF ChallengeInv, PacketTypes, PacketRecord
<1> DEFINE q == Packet(p.machine, "connect", p.challenge)
<1>3. q \in PacketRecord /\ q.kind = "connect"
  BY <1>2, PacketType
<1> HIDE DEF q
<1>4. IsFiniteSet(up \cup {q}) /\ IsFiniteSet(up) /\ IsFiniteSet(down \ {p})
  BY Finite DEF ChallengeInv, PacketTypes
<1>5. /\ up \subseteq up' /\ IsFiniteSet(up') /\ IsFiniteSet(down')
      /\ up' \subseteq PacketRecord /\ down' \subseteq PacketRecord
      /\ \A r \in up' \ up : r.kind = "getchallenge" => r.challenge = 0
  BY <1>1, <1>3, <1>4 DEF ChallengeInv, PacketTypes, q
<1> QED BY <1>1, <1>5, CarriedStep DEF Unreplayed

LEMMA ChallengeInit == Init => ChallengeInv
<1> SUFFICES ASSUME Init PROVE ChallengeInv
  OBVIOUS
<1>1. host \in [Machines -> Hosts]
  BY Constants DEF Init
<1>2. challenges \in Seq(Entry) /\ ChallengesDiffer
  BY DEF Init, ChallengesDiffer
<1>3. PacketTypes /\ SpentInv
  BY FS_EmptySet DEF Init, PacketTypes, SpentInv
<1> QED BY <1>1, <1>2, <1>3 DEF ChallengeInv

-----------------------------------------------------------------------------
(* The theorems *)

LEMMA NextStep ==
  ASSUME SlotInv, ChallengeInv, [Next]_vars
  PROVE  (SlotInv /\ ChallengeInv)' /\ Undisplaced /\ Unreplayed
<1>1. ASSUME UNCHANGED <<slots, playing, abandoned>>
      PROVE  SlotInv' /\ Undisplaced
  BY <1>1, QuietStep DEF Undisplaced
<1>2. CASE UNCHANGED vars
  <2>1. UNCHANGED <<host, challenges, slots, playing, abandoned, spent, up, down>>
    BY <1>2 DEF vars, moving, serverVars
  <2> QED BY <2>1, <1>1, UntouchedStep
<1> SUFFICES ASSUME Step, UNCHANGED host
             PROVE  (SlotInv /\ ChallengeInv)' /\ Undisplaced /\ Unreplayed
  BY <1>2 DEF Next
<1>3. CASE Lose
  <2>1. UNCHANGED <<slots, playing, abandoned>>
    BY <1>3 DEF Lose
  <2> QED BY <2>1, <1>1, <1>3, LoseStep
<1>4. ASSUME NEW twice \in BOOLEAN, Delay(twice)
      PROVE  (SlotInv /\ ChallengeInv)' /\ Undisplaced /\ Unreplayed
  <2>1. UNCHANGED <<slots, playing, abandoned>>
    BY <1>4 DEF Delay, serverVars
  <2> QED BY <2>1, <1>1, <1>4, DelayStep
<1>5. CASE ServerReceive
  <2>1. PICK p \in up : SVC_GetChallenge(p) \/ SVC_DirectConnect(p)
    BY <1>5 DEF ServerReceive
  <2>2. CASE SVC_GetChallenge(p)
    <3>1. UNCHANGED <<slots, playing, abandoned>>
      BY <2>2 DEF SVC_GetChallenge
    <3> QED BY <3>1, <1>1, <2>2, GetChallengeStep
  <2>3. CASE SVC_DirectConnect(p)
    <3>1. p.machine \in Machines
      BY DEF ChallengeInv, PacketTypes, PacketRecord
    <3> QED BY <3>1, <2>3, ConnectStep, ConnectSpends
  <2> QED BY <2>1, <2>2, <2>3
<1>6. CASE ClientReceive
  <2>1. UNCHANGED <<slots, playing, abandoned>>
    BY <1>6 DEF ClientReceive, serverVars
  <2> QED BY <2>1, <1>1, <1>6, ReceiveStep
<1>7. ASSUME NEW s \in Slots, Kick(s) \/ SVC_FakeConnect(s)
      PROVE  (SlotInv /\ ChallengeInv)' /\ Undisplaced /\ Unreplayed
  <2>1. UNCHANGED <<challenges, spent, up, down>>
    BY <1>7 DEF Kick, SVC_FakeConnect
  <2> QED BY <2>1, <1>7, KickStep, FakeConnectStep, UntouchedStep
<1>8. ASSUME NEW w \in SUBSET Machines, ChangePassword(w)
      PROVE  (SlotInv /\ ChallengeInv)' /\ Undisplaced /\ Unreplayed
  <2>1. UNCHANGED <<challenges, spent, up, down, slots, playing, abandoned>>
    BY <1>8 DEF ChangePassword
  <2> QED BY <2>1, <1>1, UntouchedStep
<1>9. CASE Tick
  <2>1. UNCHANGED <<challenges, spent, up, down>>
    BY <1>9 DEF Tick
  <2> QED BY <2>1, <1>9, TickStep, UntouchedStep
<1>10. ASSUME NEW s \in Slots, SV_New_f(s) \/ SV_Begin_f(s)
       PROVE  (SlotInv /\ ChallengeInv)' /\ Undisplaced /\ Unreplayed
  <2>1. UNCHANGED <<challenges, spent, up, down>>
    BY <1>10 DEF SV_New_f, SV_Begin_f
  <2> QED BY <2>1, <1>10, NewStep, BeginStep, UntouchedStep
<1>11. ASSUME NEW m \in Machines, CL_Connect(m) \/ CL_Timeout(m)
       PROVE  (SlotInv /\ ChallengeInv)' /\ Undisplaced /\ Unreplayed
  <2>1. UNCHANGED <<challenges, spent, up, down, slots, playing, abandoned>>
    BY <1>11 DEF CL_Connect, CL_Timeout, MachineOnly, serverVars
  <2> QED BY <2>1, <1>1, UntouchedStep
<1>12. ASSUME NEW m \in Machines, CL_CheckForResend(m)
       PROVE  (SlotInv /\ ChallengeInv)' /\ Undisplaced /\ Unreplayed
  <2>1. UNCHANGED <<slots, playing, abandoned>>
    BY <1>12 DEF CL_CheckForResend, MachineOnly, serverVars
  <2> QED BY <2>1, <1>1, <1>12, ResendStep
<1>13. ASSUME NEW m \in Machines, NEW told \in BOOLEAN, CL_Disconnect(m, told)
       PROVE  (SlotInv /\ ChallengeInv)' /\ Undisplaced /\ Unreplayed
  <2>1. UNCHANGED <<challenges, spent, up, down>>
    BY <1>13 DEF CL_Disconnect
  <2> QED BY <2>1, <1>13, DisconnectStep, UntouchedStep
<1> QED BY <1>3, <1>4, <1>5, <1>6, <1>7, <1>8, <1>9, <1>10, <1>11, <1>12, <1>13
     DEF Step, Operator, Client

LEMMA Invariant == Spec => [](SlotInv /\ ChallengeInv)
<1>1. (SlotInv /\ ChallengeInv) /\ [Next]_vars => (SlotInv /\ ChallengeInv)'
  BY NextStep
<1> QED BY SlotInit, ChallengeInit, <1>1, PTL DEF Spec

-----------------------------------------------------------------------------
(* The table of challenges and the clients *)

\* Adding an entry of a host that has none, with room made for it.
LEMMA TableGrows ==
  ASSUME TableInv, challenges \in Seq(Entry), NEW e \in Entry,
         \A i \in 1 .. Len(challenges) : challenges[i].host # e.host,
         challenges' = Append(RoomForOne(challenges), e)
  PROVE  TableInv'
<1> DEFINE r == RoomForOne(challenges)
<1>1. /\ r \in Seq(Entry) /\ Len(r) < MAX_CHALLENGES
      /\ \E d \in {0, 1} : \A i \in 1 .. Len(r) : r[i] = challenges[i + d] /\ i + d \in 1 .. Len(challenges)
  <2>1. CASE Len(challenges) # MAX_CHALLENGES
    <3>1. r = challenges /\ Len(challenges) \in Nat /\ \A i \in 1 .. Len(challenges) : i + 0 = i
      BY <2>1 DEF RoomForOne
    <3> HIDE DEF r
    <3>2. Len(r) < MAX_CHALLENGES
      BY <2>1, <3>1, Constants DEF TableInv
    <3> QED BY <3>1, <3>2
  <2>2. CASE Len(challenges) = MAX_CHALLENGES
    <3>1. challenges # <<>> /\ r = Tail(challenges)
      BY <2>2, Constants DEF RoomForOne
    <3>2. /\ r \in Seq(Entry) /\ Len(r) = Len(challenges) - 1
          /\ \A i \in 1 .. Len(challenges) - 1 : r[i] = challenges[i + 1]
      BY <3>1, TailIn
    <3> HIDE DEF r
    <3>3. \A i \in 1 .. Len(r) : r[i] = challenges[i + 1] /\ i + 1 \in 1 .. Len(challenges)
      BY <2>2, <3>2, Constants
    <3> QED BY <2>2, <3>2, <3>3, Constants
  <2> QED BY <2>1, <2>2
<1>2. PICK d \in {0, 1} : \A i \in 1 .. Len(r) : r[i] = challenges[i + d] /\ i + d \in 1 .. Len(challenges)
  BY <1>1
<1> HIDE DEF r
<1>3. /\ Len(challenges') = Len(r) + 1 /\ Len(r) \in Nat
      /\ \A i \in 1 .. Len(r) + 1 : challenges'[i] = IF i = Len(r) + 1 THEN e ELSE r[i]
  BY <1>1, AppendIn DEF r
<1>4. Len(challenges') <= MAX_CHALLENGES
  BY <1>1, <1>3, Constants
<1>5. SUFFICES ASSUME NEW i \in 1 .. Len(r) + 1, NEW j \in 1 .. Len(r) + 1,
                      challenges'[i].host = challenges'[j].host
               PROVE  i = j
  BY <1>3, <1>4 DEF TableInv
<1>6. \A k \in 1 .. Len(r) : r[k].host # e.host
  BY <1>2
<1>7. CASE i = Len(r) + 1 \/ j = Len(r) + 1
  BY <1>3, <1>5, <1>6, <1>7
<1>8. CASE i \in 1 .. Len(r) /\ j \in 1 .. Len(r)
  <2>1. challenges[i + d].host = challenges[j + d].host
    BY <1>2, <1>3, <1>5, <1>8
  <2>2. i + d = j + d
    BY <2>1, <1>2, <1>8 DEF TableInv
  <2> QED BY <2>2
<1> QED BY <1>7, <1>8, <1>3

\* Taking one out.
LEMMA TableShrinks ==
  ASSUME TableInv, challenges \in Seq(Entry), NEW i \in 1 .. Len(challenges),
         challenges' = RemoveAt(challenges, i)
  PROVE  TableInv'
<1>1. /\ challenges' \in Seq(Entry) /\ Len(challenges') = Len(challenges) - 1
      /\ \A k \in 1 .. Len(challenges) - 1 : challenges'[k] = challenges[IF k < i THEN k ELSE k + 1]
  BY Removed
<1>2. Len(challenges') <= MAX_CHALLENGES
  BY <1>1, Constants DEF TableInv
<1>3. SUFFICES ASSUME NEW a \in 1 .. Len(challenges) - 1, NEW b \in 1 .. Len(challenges) - 1,
                      challenges'[a].host = challenges'[b].host
               PROVE  a = b
  BY <1>1, <1>2 DEF TableInv
<1> DEFINE x == IF a < i THEN a ELSE a + 1
           y == IF b < i THEN b ELSE b + 1
<1>4. /\ x \in 1 .. Len(challenges) /\ challenges'[a] = challenges[x]
      /\ y \in 1 .. Len(challenges) /\ challenges'[b] = challenges[y]
  BY <1>1
<1> HIDE DEF x, y
<1>5. x = y
  BY <1>3, <1>4 DEF TableInv
<1> QED BY <1>5 DEF x, y

LEMMA TableStep ==
  ASSUME ChallengeInv, TableInv, [Next]_vars
  PROVE  TableInv'
<1>1. CASE UNCHANGED challenges
  BY <1>1 DEF TableInv
<1>2. ASSUME NEW p \in up, SVC_GetChallenge(p)
      PROVE  TableInv'
  <2> DEFINE mine == {i \in DOMAIN challenges : challenges[i].host = host[p.machine]}
             entry == IF mine = {} THEN [host |-> host[p.machine], challenge |-> FreshChallenge]
                      ELSE challenges[Min(mine)]
  <2>1. challenges' = IF mine = {} THEN Append(RoomForOne(challenges), entry) ELSE challenges
    BY <1>2, Zenon DEF SVC_GetChallenge
  <2>2. CASE mine = {}
    <3>1. challenges \in Seq(Entry) /\ DOMAIN challenges = 1 .. Len(challenges)
      BY DEF ChallengeInv
    <3>2. host[p.machine] \in Hosts
      BY DEF ChallengeInv, PacketTypes, PacketRecord
    <3>3. entry \in Entry /\ entry.host = host[p.machine]
      BY <2>2, <3>2, FreshIsUnknown DEF Entry
    <3>4. \A i \in 1 .. Len(challenges) : challenges[i].host # entry.host
      BY <2>2, <3>1, <3>3
    <3> HIDE DEF entry
    <3> QED BY <2>1, <2>2, <3>1, <3>3, <3>4, TableGrows
  <2> QED BY <2>1, <2>2, <1>1
<1>3. ASSUME NEW p \in up, SVC_DirectConnect(p)
      PROVE  TableInv'
  <2> DEFINE mine == {i \in DOMAIN challenges : challenges[i].host = host[p.machine]}
  <2>1. \/ UNCHANGED challenges
        \/ mine # {} /\ challenges' = RemoveAt(challenges, Min(mine))
    BY <1>3, Zenon DEF SVC_DirectConnect, Spend
  <2>2. CASE mine # {} /\ challenges' = RemoveAt(challenges, Min(mine))
    <3>1. challenges \in Seq(Entry) /\ DOMAIN challenges = 1 .. Len(challenges)
      BY DEF ChallengeInv
    <3>2. mine \in SUBSET Nat /\ mine # {}
      BY <2>2, <3>1
    <3>3. Min(mine) \in 1 .. Len(challenges)
      BY <3>1, <3>2, MinIn
    <3> HIDE DEF mine
    <3> QED BY <2>2, <3>1, <3>3, TableShrinks
  <2> QED BY <2>1, <2>2, <1>1
<1>4. CASE UNCHANGED vars
  BY <1>4, <1>1 DEF vars, moving, serverVars
<1>5. ASSUME Step, ~ServerReceive
      PROVE  UNCHANGED challenges
  <2>1. ASSUME NEW s \in Slots, Kick(s) \/ SVC_FakeConnect(s) \/ SV_New_f(s) \/ SV_Begin_f(s)
        PROVE  UNCHANGED challenges
    BY <2>1 DEF Kick, SVC_FakeConnect, SV_New_f, SV_Begin_f
  <2>2. ASSUME NEW m \in Machines, Client(m)
        PROVE  UNCHANGED challenges
    BY <2>2 DEF Client, CL_Connect, CL_CheckForResend, CL_Timeout, CL_Disconnect, MachineOnly, serverVars
  <2>3. CASE Lose \/ \E twice \in BOOLEAN : Delay(twice)
    BY <2>3 DEF Lose, Delay, serverVars
  <2>4. CASE ClientReceive \/ Tick \/ \E w \in SUBSET Machines : ChangePassword(w)
    BY <2>4 DEF ClientReceive, Tick, ChangePassword, serverVars
  <2> QED BY <1>5, <2>1, <2>2, <2>3, <2>4 DEF Step, Operator
<1> QED BY <1>1, <1>2, <1>3, <1>4, <1>5 DEF Next, ServerReceive

\* Only the state of a client, or nothing, is something else.
LEMMA Becomes ==
  ASSUME ClientInv, NEW m \in Machines,
         NEW st \in {"idle", "connecting", "handshake", "loading", "active"},
         machine' = [machine EXCEPT ![m].state = st], UNCHANGED welcome
  PROVE  ClientInv'
BY DEF ClientInv, ClientRecord

LEMMA IdleType ==
  /\ Idle \in ClientRecord /\ [Idle EXCEPT !.state = "connecting"] \in ClientRecord
  /\ [Idle EXCEPT !.state = "handshake"] \in ClientRecord
<1>1. 0 \in 0 .. MaxResend + 1 /\ Resend \in 0 .. Resend
  BY SizesAssumption
<1> QED BY <1>1 DEF Idle, ClientRecord

LEMMA ResentType ==
  ASSUME NEW r \in ClientRecord, r.count <= MaxResend
  PROVE  Resent(r) \in ClientRecord
<1>1. MaxResend \in Nat /\ Resend \in Nat
  BY SizesAssumption
<1>2. r.count \in 0 .. MaxResend + 1
  BY DEF ClientRecord
<1>3. r.count + 1 \in 0 .. MaxResend + 1 /\ 0 \in 0 .. Resend
  BY <1>1, <1>2
<1> DEFINE q == [r EXCEPT !.count = r.count + 1]
<1>4. q \in ClientRecord
  BY <1>3 DEF ClientRecord
<1>5. Resent(r) = [q EXCEPT !.wait = 0]
  BY DEF Resent, ClientRecord
<1> HIDE DEF q
<1>6. [q EXCEPT !.wait = 0] \in ClientRecord
  BY <1>3, <1>4 DEF ClientRecord
<1> QED BY <1>5, <1>6

LEMMA ClientStep ==
  ASSUME ChallengeInv, ClientInv, [Next]_vars
  PROVE  ClientInv'
<1>1. CASE UNCHANGED <<machine, welcome>>
  BY <1>1 DEF ClientInv
<1>2. ASSUME NEW m \in Machines, Client(m)
      PROVE  ClientInv'
  <2>1. UNCHANGED welcome
    BY <1>2 DEF Client, CL_Connect, CL_CheckForResend, CL_Timeout, CL_Disconnect, MachineOnly, serverVars
  <2>2. ASSUME NEW r \in ClientRecord, machine' = [machine EXCEPT ![m] = r]
        PROVE  ClientInv'
    BY <2>1, <2>2 DEF ClientInv
  <2>3. CASE CL_CheckForResend(m) /\ machine[m].count <= MaxResend
    <3>1. machine' = [machine EXCEPT ![m] = Resent(machine[m])]
      BY <2>3, SizesAssumption DEF CL_CheckForResend, ClientInv, ClientRecord
    <3>2. machine[m] \in ClientRecord
      BY DEF ClientInv
    <3>3. Resent(machine[m]) \in ClientRecord
      BY <2>3, <3>2, ResentType
    <3> QED BY <2>2, <3>1, <3>3
  <2>4. CASE ~(CL_CheckForResend(m) /\ machine[m].count <= MaxResend)
    <3>1. \E r \in ClientRecord : machine' = [machine EXCEPT ![m] = r]
      <4>1. machine[m].count \in Nat
        BY SizesAssumption DEF ClientInv, ClientRecord
      <4>2. ASSUME CL_CheckForResend(m)
            PROVE  machine' = [machine EXCEPT ![m] = Idle]
        BY <2>4, <4>1, <4>2, SizesAssumption DEF CL_CheckForResend
      <4> QED BY <1>2, <4>2, IdleType DEF Client, CL_Connect, CL_Timeout, CL_Disconnect
    <3> QED BY <2>2, <3>1
  <2> QED BY <2>3, <2>4
<1>3. CASE ClientReceive
  <2>1. PICK p \in down :
          /\ UNCHANGED welcome
          /\ \/ UNCHANGED machine
             \/ machine' = [machine EXCEPT ![p.machine].wait = 0]
             \/ machine' = [machine EXCEPT ![p.machine] = [Idle EXCEPT !.state = "handshake"]]
             \/ machine' = [machine EXCEPT ![p.machine] = Idle]
    BY <1>3, Zenon DEF ClientReceive, serverVars
  <2>2. p.machine \in Machines
    BY DEF ChallengeInv, PacketTypes, PacketRecord
  <2>3. CASE machine' = [machine EXCEPT ![p.machine].wait = 0]
    <3>1. 0 \in 0 .. Resend
      BY SizesAssumption
    <3> QED BY <2>1, <2>2, <2>3, <3>1 DEF ClientInv, ClientRecord
  <2>4. ASSUME NEW r \in ClientRecord, machine' = [machine EXCEPT ![p.machine] = r]
        PROVE  ClientInv'
    BY <2>1, <2>2, <2>4 DEF ClientInv
  <2> QED BY <1>1, <2>1, <2>3, <2>4, IdleType
<1>4. ASSUME NEW s \in Slots, SV_New_f(s) \/ SV_Begin_f(s)
      PROVE  ClientInv'
  <2>1. PICK st \in {"loading", "active"} :
          machine' = [machine EXCEPT ![slots[s].machine].state = st]
          /\ slots[s].machine \in Machines /\ UNCHANGED welcome
    BY <1>4 DEF SV_New_f, SV_Begin_f, Become
  <2> QED BY <2>1, Becomes
<1>5. CASE Tick
  <2>1. /\ UNCHANGED welcome
        /\ machine' = [m \in Machines |->
             [machine[m] EXCEPT !.wait = IF machine[m].wait < Resend THEN machine[m].wait + 1
                                         ELSE machine[m].wait]]
    BY <1>5, Zenon DEF Tick
  <2>2. \A m \in Machines : [machine[m] EXCEPT !.wait = IF machine[m].wait < Resend
            THEN machine[m].wait + 1 ELSE machine[m].wait] \in ClientRecord
    BY SizesAssumption DEF ClientInv, ClientRecord
  <2> QED BY <2>1, <2>2 DEF ClientInv
<1>6. ASSUME NEW w \in SUBSET Machines, ChangePassword(w)
      PROVE  ClientInv'
  BY <1>6 DEF ChangePassword, ClientInv
<1>7. CASE ServerReceive \/ Lose \/ \E twice \in BOOLEAN : Delay(twice)
  <2>1. UNCHANGED <<machine, welcome>>
    BY <1>7 DEF ServerReceive, SVC_GetChallenge, SVC_DirectConnect, Lose, Delay, serverVars
  <2> QED BY <2>1, <1>1
<1>8. ASSUME NEW s \in Slots, Kick(s) \/ SVC_FakeConnect(s)
      PROVE  ClientInv'
  <2>1. UNCHANGED <<machine, welcome>>
    BY <1>8 DEF Kick, SVC_FakeConnect
  <2> QED BY <2>1, <1>1
<1>9. CASE UNCHANGED vars
  <2>1. UNCHANGED <<machine, welcome>>
    BY <1>9 DEF vars, moving, serverVars
  <2> QED BY <2>1, <1>1
<1> QED BY <1>2, <1>3, <1>4, <1>5, <1>6, <1>7, <1>8, <1>9 DEF Next, Step, Operator

LEMMA TableInit == Init => TableInv /\ ClientInv
<1> SUFFICES ASSUME Init PROVE TableInv /\ ClientInv
  OBVIOUS
<1>1. TableInv
  BY SizesAssumption DEF Init, TableInv
<1>2. ClientInv
  BY IdleType DEF Init, ClientInv
<1> QED BY <1>1, <1>2

LEMMA TableInvariant == Spec => [](TableInv /\ ClientInv)
<1>1. ChallengeInv /\ TableInv /\ ClientInv /\ [Next]_vars => (TableInv /\ ClientInv)'
  BY TableStep, ClientStep
<1> QED BY TableInit, Invariant, <1>1, PTL DEF Spec

-----------------------------------------------------------------------------
\* The state is well formed whatever comes in: the table of challenges is never overfull
\* and has no host twice.
THEOREM TypeCorrect == Spec => []TypeOK
<1>1. SlotInv /\ ChallengeInv /\ TableInv /\ ClientInv => TypeOK
  <2> SUFFICES ASSUME SlotInv, ChallengeInv, TableInv, ClientInv PROVE TypeOK
    OBVIOUS
  <2>1. challenges \in Seq(Entry) /\ DOMAIN challenges = 1 .. Len(challenges)
    BY DEF ChallengeInv
  <2>2. \A i \in DOMAIN challenges :
          /\ challenges[i].host \in Hosts /\ challenges[i].challenge \in Nat
          /\ \A j \in 1 .. i - 1 : challenges[j].host # challenges[i].host
    <3> SUFFICES ASSUME NEW i \in 1 .. Len(challenges)
                 PROVE  /\ challenges[i].host \in Hosts /\ challenges[i].challenge \in Nat
                        /\ \A j \in 1 .. i - 1 : challenges[j].host # challenges[i].host
      BY <2>1
    <3>1. challenges[i] \in Entry
      BY <2>1
    <3>2. \A j \in 1 .. i - 1 : j \in 1 .. Len(challenges) /\ j # i
      BY <2>1
    <3> QED BY <3>1, <3>2 DEF Entry, TableInv
  <2>3. \A s \in Slots :
          /\ slots[s].state \in Live \cup {"free", "zombie"}
          /\ slots[s].machine \in Machines \cup {Bot, Nobody}
          /\ slots[s].age \in Nat /\ slots[s].since \in Nat
    BY DEF SlotInv, SlotTypes, SlotRecord
  <2>4. \A m \in Machines :
          /\ machine[m].state \in {"idle", "connecting", "handshake", "loading", "active"}
          /\ machine[m].count \in 0 .. MaxResend + 1 /\ machine[m].wait \in 0 .. Resend
    BY DEF ClientInv, ClientRecord
  <2>5. \A p \in up \cup down : p.machine \in Machines /\ p.challenge \in Nat
    BY DEF ChallengeInv, PacketTypes, PacketRecord
  <2>6. /\ playing \subseteq Slots /\ abandoned \subseteq Slots
        /\ spent \subseteq Nat /\ welcome \subseteq Machines
    <3>1. \A n \in spent : \E p \in up : p.challenge = n
      BY DEF ChallengeInv, SpentInv
    <3>2. abandoned \subseteq Slots /\ playing \subseteq Slots
      BY DEF SlotInv, SlotTypes, GameKnows
    <3> QED BY <3>1, <3>2, <2>5 DEF ClientInv
  <2> QED BY <2>2, <2>3, <2>4, <2>5, <2>6 DEF TypeOK, TableInv
<1> QED BY <1>1, Invariant, TableInvariant, PTL

\* No machine ever has two slots.
THEOREM OneSlot == Spec => []OneSlotEach
<1>1. SlotInv => OneSlotEach
  BY DEF SlotInv
<1> QED BY <1>1, Invariant, PTL

\* The game module and the server agree on who is in the game, except for those whose
\* reconnects were refused: they stay until their slots are given away.
THEOREM GameIsTold == Spec => []GameKnows
<1>1. SlotInv => GameKnows
  BY DEF SlotInv
<1> QED BY <1>1, Invariant, PTL

\* Only bots lose their slots to others, and only when no slot is free.
THEOREM NobodyDisplaced == Spec => NotDisplaced
<1>1. SlotInv /\ ChallengeInv /\ [Next]_vars => [Undisplaced]_vars
  BY NextStep
<1>2. Spec => [][Undisplaced]_vars
  BY <1>1, Invariant, PTL DEF Spec
<1> QED BY <1>2 DEF NotDisplaced, Undisplaced

\* A copy of a request that was used does not touch the slots.
THEOREM NothingReplayed == Spec => NoReplay
<1>1. SlotInv /\ ChallengeInv /\ [Next]_vars => [Unreplayed]_vars
  BY NextStep
<1>2. Spec => [][Unreplayed]_vars
  BY <1>1, Invariant, PTL DEF Spec
<1> QED BY <1>2 DEF NoReplay, Unreplayed
=============================================================================
