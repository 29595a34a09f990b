----------------------------- MODULE Snapshots -----------------------------
(***************************************************************************)
(* The frames a server sends to one client: what it keeps to compress a    *)
(* frame against one that the client acknowledged, what the client keeps   *)
(* to undo that, and the game commands that travel in frames, over a       *)
(* channel that loses frames and moves but never reorders them (NetChan).  *)
(*                                                                         *)
(* An entity's state is one value; a delta writes it or leaves it out, and *)
(* a new entity is written whole (both ends hold the same baselines).      *)
(* Player states and match state are compressed against the same frame     *)
(* and are left out, as are several points of view in a frame, which only  *)
(* a server's own recording has.                                           *)
(***************************************************************************)
EXTENDS Integers, Sequences, SequencesExt

CONSTANTS
  NumEnts,            \* entities are numbered from 1 to this
  Vals,               \* states of an entity
  Gone,               \* what an entity is that no client is shown
  Garbage,            \* what the state of a shadowed entity is replaced with
  Worlds,             \* what the client may be shown at a frame
  Shadowable,         \* entities that may be shadowed
  UPDATE_BACKUP,      \* frames kept at either end
  MAX_SNAP_ENTITIES,  \* the guess that sizes the ring of entities
  maxclients,
  OtherTakes,         \* entries that the other clients' frames may take
  MAX_RELIABLE_COMMANDS, \* game commands kept for a client
  COMMAND_FRAMES,     \* age at which a game command is no longer sent
  Flood,              \* may game commands not fit in a frame?
  Reliable,           \* is the client on a reliable connection?
  Asks,               \* frames after which it may ask for an uncompressed one
  MaxFrame, MaxCommand, MaxFlight    \* bounds

Ents == 1 .. NumEnts
None == 9999          \* stands for the number of an entity when a list has ended

ASSUME SizesAssumption ==
  /\ UPDATE_BACKUP \in {4, 8, 16, 32, 64}
  /\ MAX_SNAP_ENTITIES \in Nat \ {0} /\ maxclients \in Nat \ {0}
  /\ MAX_RELIABLE_COMMANDS \in Nat \ {0} /\ COMMAND_FRAMES \in Nat
  /\ NumEnts \in 1 .. None - 1 /\ OtherTakes \subseteq Nat
  /\ Gone \notin Vals /\ Garbage \notin Vals \cup {Gone}
  /\ Worlds # {} /\ Worlds \subseteq [Ents -> Vals \cup {Gone}]
  /\ {Flood, Reliable} \subseteq BOOLEAN /\ Shadowable \subseteq Ents
  /\ Asks \cup {MaxFrame, MaxCommand, MaxFlight} \subseteq Nat

UPDATE_MASK == UPDATE_BACKUP - 1
Slot(f) == f % UPDATE_BACKUP
Slots == 0 .. UPDATE_BACKUP - 1
num_entities == maxclients * UPDATE_BACKUP * MAX_SNAP_ENTITIES

VARIABLES
  framenum,           \* number of the last frame
  entities,           \* the ring of entities that all clients' frames share
  next_entities,      \* entries ever put there
  snapShots,          \* the server's record of its last frames
  lastframe,          \* last frame acknowledged, as the server knows it
  nodelta, nodelta_frame,
  lastSentFrameNum,
  gameCommands,       \* ring of [id, framenum]
  gameCommandCurrent,
  down, up,           \* frames and acknowledgements on their way
  backup,             \* the client's record of its last frames
  receivedSnapNum, pendingSnapNum, currentSnapNum,
  precacheDone,
  executed            \* [id, shown, frame]: the game commands that the client executed, in
                      \* order, the frame that it took them for, and the one they came with

serverVars == <<framenum, entities, next_entities, snapShots, lastSentFrameNum>>
ackVars == <<lastframe, nodelta, nodelta_frame>>
commandVars == <<gameCommands, gameCommandCurrent>>
clientVars == <<backup, receivedSnapNum, pendingSnapNum, currentSnapNum,
                precacheDone, executed>>
vars == <<serverVars, ackVars, commandVars, down, up, clientVars>>

-----------------------------------------------------------------------------
(* What a delta holds *)

\* The elements of s that are in S. (SelectSeq as a recursive function, which proofs
\* can reason about.)
Only(s, S) ==
  LET upTo[n \in 0 .. Len(s)] ==
        IF n = 0 THEN <<>>
        ELSE IF s[n] \in S THEN Append(upTo[n - 1], s[n]) ELSE upTo[n - 1]
  IN  upTo[Len(s)]

\* The entities of a world in the order of their numbers.
EntityList(w) ==
  Only([n \in 1 .. NumEnts |-> [number |-> n, val |-> w[n]]], [number : Ents, val : Vals])

NumberAt(list, i) == IF i <= Len(list) THEN list[i].number ELSE None

\* What the message says of an entity: a shadowed one is made to look otherwise.
Sent(e, shadowed) == IF e.number \in shadowed THEN [e EXCEPT !.val = Garbage] ELSE e

\* One turn of the loop over the old list from o on and the new one from n on: an
\* entity that is new or has changed goes into the message, and one to be removed.
EmitTurn(from, to, shadowed, t) ==
  LET oldnum == NumberAt(from, t.o)
      newnum == NumberAt(to, t.n)
      new    == Sent(to[t.n], shadowed)
  IN  IF t.n > Len(to) /\ t.o > Len(from) THEN t
      ELSE IF newnum = oldnum
      THEN [o |-> t.o + 1, n |-> t.n + 1,
            out |-> IF new = from[t.o] THEN t.out ELSE Append(t.out, new)]
      ELSE IF newnum < oldnum
      THEN [t EXCEPT !.n = t.n + 1, !.out = Append(t.out, new)]
      ELSE [t EXCEPT !.o = t.o + 1,
                     !.out = Append(t.out, [number |-> oldnum, val |-> Gone])]

\* What goes into the message to get from one list to the other.
SNAP_EmitPacketEntities(from, to, shadowed) ==
  LET turn[k \in 0 .. Len(from) + Len(to)] ==
        IF k = 0 THEN [o |-> 1, n |-> 1, out |-> <<>>]
        ELSE EmitTurn(from, to, shadowed, turn[k - 1])
  IN  turn[Len(from) + Len(to)].out

\* Wrong on purpose: what the message says nothing of at its end is dropped.
ParseTurn_NoRest(old, msg, t) ==
  LET oldnum == NumberAt(old, t.o)
      newnum == NumberAt(msg, t.n)
  IN  IF t.n > Len(msg) THEN t
      ELSE IF oldnum < newnum
      THEN [t EXCEPT !.o = t.o + 1, !.out = Append(t.out, old[t.o])]
      ELSE [o |-> IF oldnum = newnum THEN t.o + 1 ELSE t.o, n |-> t.n + 1,
            out |-> IF msg[t.n].val = Gone THEN t.out ELSE Append(t.out, msg[t.n])]

\* One turn of the loops over the old list from o on and the message from n on: an old
\* entity is unchanged, or what the message says comes in its place or between.
ParseTurn(old, msg, t) ==
  LET oldnum == NumberAt(old, t.o)
      newnum == NumberAt(msg, t.n)
  IN  IF t.n > Len(msg) /\ t.o > Len(old) THEN t
      ELSE IF oldnum < newnum
      THEN [t EXCEPT !.o = t.o + 1, !.out = Append(t.out, old[t.o])]
      ELSE [o |-> IF oldnum = newnum THEN t.o + 1 ELSE t.o, n |-> t.n + 1,
            out |-> IF msg[t.n].val = Gone THEN t.out ELSE Append(t.out, msg[t.n])]

\* The list the client makes of its own old list and the message.
SNAP_ParsePacketEntities(old, msg) ==
  LET turn[k \in 0 .. Len(old) + Len(msg)] ==
        IF k = 0 THEN [o |-> 1, n |-> 1, out |-> <<>>]
        ELSE ParseTurn(old, msg, turn[k - 1])
  IN  turn[Len(old) + Len(msg)].out

-----------------------------------------------------------------------------
NoSnap == [frame |-> 0, first |-> 0, num |-> 0]
NoFrame == [valid |-> FALSE, frame |-> 0, ents |-> <<>>, cmds |-> <<>>,
            world |-> CHOOSE w \in Worlds : TRUE]
NoCommand == [id |-> 0, framenum |-> 0]

Init ==
  /\ framenum = 0
  /\ entities = [i \in 0 .. num_entities - 1 |-> [number |-> 0, val |-> Gone]]
  /\ next_entities = 0
  /\ snapShots = [s \in Slots |-> NoSnap]
  /\ lastframe = -1 /\ nodelta = FALSE /\ nodelta_frame = 0
  /\ lastSentFrameNum = 0
  /\ gameCommands = [i \in 0 .. MAX_RELIABLE_COMMANDS - 1 |-> NoCommand]
  /\ gameCommandCurrent = 0
  /\ down = <<>> /\ up = <<>>
  /\ backup = [s \in Slots |-> NoFrame]
  /\ receivedSnapNum = 0 /\ pendingSnapNum = 0 /\ currentSnapNum = 0
  /\ precacheDone = FALSE
  /\ executed = <<>>

\* SV_AddGameCommand: the command belongs to the next frame to be sent.
SV_AddGameCommand ==
  /\ gameCommandCurrent < MaxCommand
  /\ gameCommandCurrent' = gameCommandCurrent + 1
  /\ gameCommands' = [gameCommands EXCEPT
       ![gameCommandCurrent' % MAX_RELIABLE_COMMANDS] =
          [id |-> gameCommandCurrent',
           framenum |-> IF lastSentFrameNum # 0 THEN lastSentFrameNum + 1 ELSE framenum]]
  /\ UNCHANGED <<serverVars, ackVars, down, up, clientVars>>

\* The client asked for a frame that is not compressed (it starts a recording).
SV_NoDelta_f ==
  /\ framenum \in Asks /\ ~nodelta
  /\ nodelta' = TRUE /\ nodelta_frame' = 0 /\ lastframe' = -1
  /\ UNCHANGED <<serverVars, commandVars, down, up, clientVars>>

\* The ring once list is put behind the first n entries.
Stored(ring, n, list) ==
  [i \in DOMAIN ring |->
     LET k == (i - n) % num_entities
     IN  IF k < Len(list) THEN list[k + 1] ELSE ring[i]]

\* The entities that other clients' frames put there first.
Others(taken) == [i \in 1 .. taken |-> [number |-> 0, val |-> Gone]]

\* The entities of a frame of which the server keeps a record.
Kept(ring, snap) ==
  [k \in 1 .. snap.num |-> ring[(snap.first + k - 1) % num_entities]]

\* Wrong on purpose: a record is taken to last one frame longer than it does.
OldFrame_Longer(f, nd) ==
  IF lastframe <= 0 \/ lastframe > f \/ nd \/ f > lastframe + UPDATE_BACKUP
  THEN <<>>
  ELSE <<snapShots[Slot(lastframe)]>>

\* The frame to compress frame f against, or none.
OldFrame(f, nd) ==
  IF lastframe <= 0 \/ lastframe > f \/ nd \/ f >= lastframe + UPDATE_MASK
  THEN <<>>
  ELSE <<snapShots[Slot(lastframe)]>>

\* The game commands that frame f carries: those that are due and still fit.
DueCommands(f, unfit) ==
  LET turns == [k \in 1 .. MAX_RELIABLE_COMMANDS |->
                  gameCommands[(gameCommandCurrent - MAX_RELIABLE_COMMANDS + k)
                               % MAX_RELIABLE_COMMANDS]]
  IN  Only(turns, {c \in Range(turns) :
                     /\ c.id # 0
                     /\ c.framenum + COMMAND_FRAMES >= f
                     /\ c.framenum <= f
                     /\ lastframe >= 0 => c.framenum > lastframe
                     /\ c.id \notin unfit})

\* SV_SendClientDatagram at a new frame: the world is built into a frame,
\* the frame is compressed and goes out, and may be lost on its way.
SV_SendClientDatagram(w, shadowed, taken, unfit, lost) ==
  LET f     == framenum + 1
      list  == EntityList(w)
      \* an unreliable client has to acknowledge the frame before deltas go on
      ndf   == IF nodelta /\ ~Reliable /\ nodelta_frame = 0 THEN f ELSE nodelta_frame
      nd    == nodelta /\ ~(~Reliable /\ nodelta_frame # 0 /\ lastframe >= nodelta_frame)
      old   == OldFrame(f, nd)
      first == next_entities + taken
      ring  == Stored(Stored(entities, next_entities, Others(taken)), first, list)
      base  == IF old = <<>> THEN <<>> ELSE Kept(ring, old[1])
      news  == SNAP_EmitPacketEntities(base, list, shadowed)
      cmds  == DueCommands(f, unfit)
  IN  /\ framenum < MaxFrame
      /\ framenum' = f
      /\ snapShots' = [snapShots EXCEPT ![Slot(f)] =
           [frame |-> f, first |-> first, num |-> Len(list)]]
      /\ entities' = ring
      /\ next_entities' = first + Len(list)
      /\ nodelta_frame' = ndf
      /\ nodelta' = (nd /\ ~Reliable)
      /\ lastSentFrameNum' = f
      /\ lost \/ Len(down) < MaxFlight
      /\ down' = IF lost THEN down
                 ELSE Append(down, [frame |-> f, deltaFrameNum |-> lastframe,
                                    delta |-> old # <<>>, news |-> news,
                                    cmds |-> cmds, world |-> w])
      /\ UNCHANGED <<lastframe, commandVars, up, clientVars>>

\* SV_ParseMoveCommand, as far as the acknowledgement goes.
SV_ParseMoveCommand ==
  /\ up # <<>>
  /\ lastframe' = Head(up)
  /\ up' = Tail(up)
  /\ UNCHANGED <<serverVars, nodelta, nodelta_frame, commandVars, down, clientVars>>

-----------------------------------------------------------------------------
(* The client *)

\* Can what came in be made of what the client still has?
ValidFrame(m) ==
  \/ ~m.delta
  \/ /\ m.deltaFrameNum > 0
     /\ Slot(m.deltaFrameNum) # Slot(m.frame)   \* else it was just overwritten
     /\ backup[Slot(m.deltaFrameNum)].valid
     /\ backup[Slot(m.deltaFrameNum)].frame = m.deltaFrameNum

\* Wrong on purpose: whatever a usable frame carries is executed.
NewCommands_All(m) == IF ValidFrame(m) THEN m.cmds ELSE <<>>

\* The commands of a frame that are taken for not yet handled. lastFrame is a
\* pointer: it is the new frame's own record when the slots are the same.
NewCommands(m) ==
  LET own  == receivedSnapNum > 0 /\ Slot(receivedSnapNum) = Slot(m.frame)
      last == IF own THEN [valid |-> ValidFrame(m), frame |-> m.frame]
              ELSE backup[Slot(receivedSnapNum)]
  IN  Only(m.cmds, {c \in Range(m.cmds) :
                      /\ ValidFrame(m)
                      /\ \/ receivedSnapNum <= 0 \/ ~last.valid
                         \/ m.frame > last.frame + (m.frame - c.framenum)})

CL_ParseFrame ==
  /\ down # <<>>
  /\ LET m     == Head(down)
         valid == ValidFrame(m)
         old   == IF m.delta THEN backup[Slot(m.deltaFrameNum)].ents ELSE <<>>
     IN  /\ backup' = [backup EXCEPT ![Slot(m.frame)] =
              [valid |-> valid, frame |-> m.frame,
               ents |-> IF valid THEN SNAP_ParsePacketEntities(old, m.news) ELSE <<>>,
               cmds |-> NewCommands(m), world |-> m.world]]
         /\ receivedSnapNum' = IF valid THEN m.frame ELSE receivedSnapNum
  /\ down' = Tail(down)
  /\ UNCHANGED <<serverVars, ackVars, commandVars, up, pendingSnapNum,
                 currentSnapNum, precacheDone, executed>>

\* CL_UpdateSnapshot: the newest frame that came in is the next to be shown.
NextPending ==
  LET later == {i \in currentSnapNum + 1 .. receivedSnapNum :
                  backup[Slot(i)].valid /\ backup[Slot(i)].frame > currentSnapNum}
  IN  IF pendingSnapNum # 0 \/ currentSnapNum = receivedSnapNum \/ later = {}
      THEN pendingSnapNum
      ELSE backup[Slot(CHOOSE i \in later : \A j \in later : j <= i)].frame

\* A client frame: CL_UpdateSnapshot, then CL_AdjustServerTime, which fires the
\* pending frame when its time is reached. The game module refuses it while it
\* still loads.
CL_Frame(reached) ==
  LET pending == NextPending
      snap    == backup[Slot(pending)]
      fire    == pending # 0 /\ reached /\ precacheDone /\ snap.valid
  IN  /\ pendingSnapNum' = IF fire THEN 0 ELSE pending
      /\ currentSnapNum' = IF fire THEN pending ELSE currentSnapNum
      /\ executed' = IF fire
           THEN executed \o [i \in DOMAIN snap.cmds |->
                  [id |-> snap.cmds[i].id, shown |-> pending, frame |-> snap.frame]]
           ELSE executed
      /\ UNCHANGED <<serverVars, ackVars, commandVars, down, up, backup,
                     receivedSnapNum, precacheDone>>

CG_Precache ==
  /\ ~precacheDone
  /\ precacheDone' = TRUE
  /\ UNCHANGED <<serverVars, ackVars, commandVars, down, up, backup,
                 receivedSnapNum, pendingSnapNum, currentSnapNum, executed>>

\* Wrong on purpose: acknowledges the frame that it waits for.
CL_WriteUcmdsToMessage_Next ==
  /\ currentSnapNum > 0
  /\ Len(up) < MaxFlight
  /\ up' = Append(up, receivedSnapNum + 1)
  /\ UNCHANGED <<serverVars, ackVars, commandVars, down, clientVars>>

\* CL_WriteUcmdsToMessage: an active client acknowledges what it has.
CL_WriteUcmdsToMessage ==
  /\ currentSnapNum > 0
  /\ Len(up) < MaxFlight
  /\ up' = Append(up, IF receivedSnapNum <= 0 THEN -1
                      ELSE backup[Slot(receivedSnapNum)].frame)
  /\ UNCHANGED <<serverVars, ackVars, commandVars, down, clientVars>>

-----------------------------------------------------------------------------
Next ==
  \/ SV_AddGameCommand \/ SV_NoDelta_f
  \/ \E w \in Worlds, sh \in SUBSET Shadowable, taken \in OtherTakes,
        unfit \in (IF Flood THEN SUBSET (1 .. gameCommandCurrent) ELSE {{}}),
        lost \in BOOLEAN : SV_SendClientDatagram(w, sh, taken, unfit, lost)
  \/ SV_ParseMoveCommand
  \/ CL_ParseFrame \/ CG_Precache \/ CL_WriteUcmdsToMessage
  \/ \E reached \in BOOLEAN : CL_Frame(reached)

Spec == Init /\ [][Next]_vars

-----------------------------------------------------------------------------
(* Properties *)

Snap == [frame : 0 .. MaxFrame, first : Nat, num : Nat]
Entity == [number : Ents \cup {0}, val : Vals \cup {Gone, Garbage}]
Command == [id : 0 .. MaxCommand, framenum : Nat]

\* The state is well formed at either end and in between.
TypeOK ==
  /\ framenum \in 0 .. MaxFrame /\ lastframe \in -1 .. MaxFrame
  /\ DOMAIN entities = 0 .. num_entities - 1
  /\ \A i \in DOMAIN entities : entities[i] \in Entity
  /\ next_entities \in Nat
  /\ snapShots \in [Slots -> Snap]
  /\ nodelta \in BOOLEAN /\ nodelta_frame \in 0 .. MaxFrame
  /\ lastSentFrameNum \in 0 .. MaxFrame
  /\ gameCommandCurrent \in 0 .. MaxCommand
  /\ \A i \in DOMAIN gameCommands : gameCommands[i] \in Command
  /\ \A i \in DOMAIN up : up[i] \in -1 .. MaxFrame
  /\ \A s \in Slots : backup[s].frame \in 0 .. MaxFrame /\ backup[s].world \in Worlds
                      /\ \A i \in DOMAIN backup[s].ents : backup[s].ents[i] \in Entity
  /\ {receivedSnapNum, pendingSnapNum, currentSnapNum} \subseteq 0 .. MaxFrame
  /\ precacheDone \in BOOLEAN

\* The client never gets a frame made of one that it does not have: what the
\* reader reports as "not supposed to happen!" or "Delta frame too old." does
\* not happen, however many frames and acknowledgements are lost.
AlwaysUsable == \A s \in Slots : backup[s].frame # 0 => backup[s].valid

\* What the client makes of a frame is what the server built: the same
\* entities, each as it was or as shadowing made it look.
ViewFaithful ==
  \A s \in Slots : backup[s].valid =>
    LET seen  == backup[s].ents
        built == EntityList(backup[s].world)
    IN  /\ Len(seen) = Len(built)
        /\ \A i \in DOMAIN seen : /\ seen[i].number = built[i].number
                                  /\ seen[i].val \in {built[i].val, Garbage}
        /\ \A i \in DOMAIN seen : seen[i].number \notin Shadowable => seen[i] = built[i]

\* A game command is executed once and after those given before it, although every frame
\* carries all that the server does not know to have arrived. One thing alone makes the
\* client execute a frame's commands again: the frame came in over the slot of an older one
\* that waited to be shown, and was shown in its place before it is shown itself.
CommandsOnce ==
  \A i, j \in DOMAIN executed :
    LET one == executed[i]
        other == executed[j]
    IN  i < j => \/ one.id < other.id
                 \/ one.frame = other.frame /\ one.shown < one.frame /\ one.shown < other.shown
=============================================================================
