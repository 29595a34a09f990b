--------------------------- MODULE SnapshotsProofs ---------------------------
(***************************************************************************)
(* Proofs about Snapshots, for any number of frames, entities and clients, *)
(* and any losses.                                                         *)
(*                                                                         *)
(* Usable: every frame that comes in can be made of what the client still  *)
(* has. AlwaysUsable says nothing of what is on its way, so it is not      *)
(* inductive. The argument: frames come in in the order of their numbers   *)
(* (InOrder), so the client's ring holds the newest ones that came in      *)
(* (RingInv), and all that it acknowledged it had (Had). A frame that was  *)
(* acknowledged leaves the ring only for one a whole ring newer, and no    *)
(* delta is made of a frame that is nearly a ring old.                     *)
(*                                                                         *)
(* Once: game commands are executed once and in their order, but for those *)
(* of a frame that is shown in place of an older one that waited, over     *)
(* which it came in. A frame that the client has carries only commands     *)
(* that no frame before it had (CarryInv), later commands belong to frames *)
(* that are not earlier (KnownInv), and so what is executed comes after    *)
(* all that was executed with earlier frames, whatever frames were         *)
(* skipped; what waits is never older than what was executed (ShowInv).    *)
(*                                                                         *)
(* Faithful: what the client makes of a frame is what the server built.    *)
(* Three facts fit together: a message says what became of one list of     *)
(* entities on the way to another, and the reader does that to its own     *)
(* list (Tells, EmitTells, ParseTells: both loops are merges); the record  *)
(* that a frame is compressed against is still whole in the ring of        *)
(* entities (Recorded, RingLasts); and the client's frame of the same      *)
(* number is of the same world (MadeInv, NewsInv).                         *)
(***************************************************************************)
EXTENDS Snapshots, TLAPS, SequenceTheorems, FiniteSetTheorems, WellFoundedInduction

\* The client had frame a, and what is in its place now is a or a ring newer.
Had(a) ==
  a > 0 => /\ a <= receivedSnapNum
           /\ \/ backup[Slot(a)].frame = a
              \/ backup[Slot(a)].frame >= a + UPDATE_BACKUP

Numbers ==
  /\ framenum \in Nat /\ receivedSnapNum \in Nat /\ receivedSnapNum <= framenum
  /\ lastframe \in Int /\ Had(lastframe)

RingInv ==
  /\ DOMAIN backup = Slots
  /\ \A s \in Slots : /\ backup[s].frame \in 0 .. receivedSnapNum
                      /\ backup[s].frame # 0 => backup[s].valid /\ Slot(backup[s].frame) = s
  /\ receivedSnapNum > 0 => backup[Slot(receivedSnapNum)].frame = receivedSnapNum

UpInv ==
  /\ up \in Seq(Int)
  /\ \A i \in 1 .. Len(up) : Had(up[i])

InOrder ==
  /\ \A i \in 1 .. Len(down) : down[i].frame \in receivedSnapNum + 1 .. framenum
  /\ \A i, j \in 1 .. Len(down) : i < j => down[i].frame < down[j].frame

DeltaInv ==
  \A i \in 1 .. Len(down) :
    down[i].delta => /\ down[i].deltaFrameNum \in Nat \ {0} /\ Had(down[i].deltaFrameNum)
                     /\ down[i].frame < down[i].deltaFrameNum + UPDATE_MASK

DownInv == (\E S : down \in Seq(S)) /\ InOrder /\ DeltaInv

Inv == Numbers /\ RingInv /\ UpInv /\ DownInv

-----------------------------------------------------------------------------
\* Slots of the ring: a number is found where it was put, and numbers less than a ring
\* apart do not get into each other's way.
LEMMA SlotFacts ==
  /\ UPDATE_BACKUP \in Nat \ {0} /\ UPDATE_MASK \in Nat /\ UPDATE_MASK < UPDATE_BACKUP
  /\ \A f \in Nat : Slot(f) \in Slots
  /\ \A f, g \in Nat : f < g /\ Slot(f) = Slot(g) => g >= f + UPDATE_BACKUP
<1>1. UPDATE_BACKUP \in {4, 8, 16, 32, 64}
  BY SizesAssumption
<1>2. \A f \in Nat : Slot(f) \in Slots
  BY <1>1 DEF Slot, Slots
<1>3. ASSUME NEW f \in Nat, NEW g \in Nat, f < g, Slot(f) = Slot(g)
      PROVE  g >= f + UPDATE_BACKUP
  <2>1. CASE UPDATE_BACKUP = 4
    BY <1>3, <2>1 DEF Slot
  <2>2. CASE UPDATE_BACKUP = 8
    BY <1>3, <2>2 DEF Slot
  <2>3. CASE UPDATE_BACKUP = 16
    BY <1>3, <2>3 DEF Slot
  <2>4. CASE UPDATE_BACKUP = 32
    BY <1>3, <2>4 DEF Slot
  <2>5. CASE UPDATE_BACKUP = 64
    BY <1>3, <2>5 DEF Slot
  <2>. QED BY <1>1, <2>1, <2>2, <2>3, <2>4, <2>5
<1>. QED BY <1>1, <1>2, <1>3 DEF UPDATE_MASK

\* The client's steps but for parsing, and the server's but for sending and reading an
\* acknowledgement, change nothing that the invariant speaks of.
LEMMA StutterKeeps ==
  ASSUME Inv, UNCHANGED <<framenum, receivedSnapNum, lastframe, backup, up, down>>
  PROVE  Inv'
BY DEF Inv, Numbers, RingInv, UpInv, DownInv, InOrder, DeltaInv, Had

\* The next frame that comes in can be made of what the client has.
LEMMA Decodable ==
  ASSUME Inv, CL_ParseFrame, NEW m, m = down[1]
  PROVE  /\ 1 \in 1 .. Len(down) /\ ValidFrame(m)
         /\ m.frame \in receivedSnapNum + 1 .. framenum /\ m.frame \in Nat \ {0}
         /\ receivedSnapNum \in Nat /\ framenum \in Nat
<1>1. 1 \in 1 .. Len(down)
  BY DEF CL_ParseFrame, Inv, DownInv
<1>2. /\ m.frame \in receivedSnapNum + 1 .. framenum /\ m.frame \in Nat \ {0}
      /\ receivedSnapNum \in Nat /\ framenum \in Nat
  BY <1>1 DEF Inv, DownInv, InOrder, Numbers
<1>3. ValidFrame(m)
  <2>1. SUFFICES ASSUME m.delta PROVE ValidFrame(m)
    BY DEF ValidFrame
  <2>2. /\ m.deltaFrameNum \in Nat \ {0} /\ Had(m.deltaFrameNum)
        /\ m.frame < m.deltaFrameNum + UPDATE_MASK
    BY <1>1, <2>1 DEF Inv, DownInv, DeltaInv
  <2>3. Slot(m.deltaFrameNum) \in Slots /\ UPDATE_MASK < UPDATE_BACKUP
    BY <2>2, SlotFacts
  <2>4. /\ m.deltaFrameNum <= receivedSnapNum
        /\ backup[Slot(m.deltaFrameNum)].frame \in 0 .. receivedSnapNum
        /\ \/ backup[Slot(m.deltaFrameNum)].frame = m.deltaFrameNum
           \/ backup[Slot(m.deltaFrameNum)].frame >= m.deltaFrameNum + UPDATE_BACKUP
    BY <2>2, <2>3 DEF Had, Inv, RingInv
  <2>5. backup[Slot(m.deltaFrameNum)].frame = m.deltaFrameNum
    BY <1>2, <2>2, <2>3, <2>4, SlotFacts
  <2>6. backup[Slot(m.deltaFrameNum)].valid
    BY <2>2, <2>3, <2>5 DEF Inv, RingInv
  <2>7. Slot(m.deltaFrameNum) # Slot(m.frame)
    BY <1>2, <2>2, <2>4, SlotFacts
  <2>. QED BY <2>2, <2>5, <2>6, <2>7 DEF ValidFrame
<1>. QED BY <1>1, <1>2, <1>3

\* A frame that comes in can be decoded, and the older ones stay where they were unless
\* they are a ring older.
LEMMA ParseKeeps ==
  ASSUME Inv, CL_ParseFrame
  PROVE  Inv'
<1>. DEFINE m == down[1]
<1>1. /\ Len(down) \in Nat \ {0} /\ Head(down) = m
      /\ Len(Tail(down)) = Len(down) - 1
      /\ \A i \in 1 .. Len(down) - 1 : Tail(down)[i] = down[i + 1]
      /\ down' = Tail(down) /\ 1 \in 1 .. Len(down)
  BY DEF CL_ParseFrame, Inv, DownInv
<1>2. /\ m.frame \in receivedSnapNum + 1 .. framenum /\ m.frame \in Nat \ {0}
      /\ receivedSnapNum \in Nat /\ framenum \in Nat
  BY <1>1 DEF Inv, DownInv, InOrder, Numbers
<1>3. ValidFrame(m)
  BY Decodable
<1>4. PICK e, c, w : backup' = [backup EXCEPT ![Slot(m.frame)] =
            [valid |-> ValidFrame(m), frame |-> m.frame, ents |-> e, cmds |-> c, world |-> w]]
  BY <1>1 DEF CL_ParseFrame
<1>5. receivedSnapNum' = m.frame /\ UNCHANGED <<framenum, lastframe, up>>
  BY <1>1, <1>3 DEF CL_ParseFrame, serverVars, ackVars
<1>6. /\ Slot(m.frame) \in Slots /\ DOMAIN backup = Slots
      /\ backup'[Slot(m.frame)].valid /\ backup'[Slot(m.frame)].frame = m.frame
      /\ \A s \in Slots \ {Slot(m.frame)} : backup'[s] = backup[s]
      /\ DOMAIN backup' = Slots
  BY <1>2, <1>3, <1>4, SlotFacts DEF Inv, RingInv
<1>7. ASSUME NEW a \in Int, Had(a)
      PROVE  Had(a)'
  <2>1. SUFFICES ASSUME a > 0
                 PROVE  /\ a <= m.frame
                        /\ \/ backup'[Slot(a)].frame = a
                           \/ backup'[Slot(a)].frame >= a + UPDATE_BACKUP
    BY <1>5 DEF Had
  <2>2. a \in Nat /\ a <= receivedSnapNum /\ a < m.frame /\ Slot(a) \in Slots
    BY <1>2, <1>7, <2>1, SlotFacts DEF Had
  <2>3. CASE Slot(a) = Slot(m.frame)
    BY <1>2, <1>6, <2>2, <2>3, SlotFacts
  <2>4. CASE Slot(a) # Slot(m.frame)
    BY <1>2, <1>6, <1>7, <2>1, <2>2, <2>4 DEF Had
  <2>. QED BY <2>2, <2>3, <2>4
<1>8. Numbers'
  BY <1>2, <1>5, <1>7 DEF Inv, Numbers
<1>9. RingInv'
  <2>1. ASSUME NEW s \in Slots
        PROVE  /\ backup'[s].frame \in 0 .. m.frame
               /\ backup'[s].frame # 0 => backup'[s].valid /\ Slot(backup'[s].frame) = s
    <3>1. CASE s = Slot(m.frame)
      BY <1>2, <1>6, <3>1
    <3>2. CASE s # Slot(m.frame)
      BY <1>2, <1>6, <3>2 DEF Inv, RingInv
    <3>. QED BY <3>1, <3>2
  <2>. QED BY <1>5, <1>6, <2>1 DEF RingInv
<1>10. UpInv'
  BY <1>5, <1>7 DEF Inv, UpInv
<1>11. InOrder'
  <2>1. Len(down') = Len(down) - 1 /\ \A i \in 1 .. Len(down') : down'[i] = down[i + 1]
    BY <1>1
  <2>2. \A i \in 1 .. Len(down') : m.frame < down[i + 1].frame /\ down[i + 1].frame <= framenum
                                   /\ down[i + 1].frame \in Int
    BY <1>1, <2>1 DEF Inv, DownInv, InOrder, Numbers
  <2>3. \A i, j \in 1 .. Len(down') : i < j => down'[i].frame < down'[j].frame
    BY <1>1, <2>1 DEF Inv, DownInv, InOrder
  <2>4. \A i \in 1 .. Len(down') : down'[i].frame \in m.frame + 1 .. framenum
    BY <1>2, <2>1, <2>2, SMTT(30)
  <2>5. receivedSnapNum' = m.frame /\ framenum' = framenum
    BY <1>5
  <2>. QED BY <2>3, <2>4, <2>5 DEF InOrder
<1>12. DeltaInv'
  <2>1. ASSUME NEW i \in 1 .. Len(down'), down'[i].delta
        PROVE  /\ down'[i].deltaFrameNum \in Nat \ {0} /\ Had(down[i].deltaFrameNum)'
               /\ down'[i].frame < down'[i].deltaFrameNum + UPDATE_MASK
    <3>1. down'[i] = down[i + 1] /\ i + 1 \in 1 .. Len(down)
      BY <1>1
    <3>2. /\ down[i + 1].deltaFrameNum \in Nat \ {0} /\ Had(down[i + 1].deltaFrameNum)
          /\ down[i + 1].frame < down[i + 1].deltaFrameNum + UPDATE_MASK
      BY <2>1, <3>1 DEF Inv, DownInv, DeltaInv
    <3>. DEFINE d == down[i + 1].deltaFrameNum
    <3>3. d > 0 => /\ d <= receivedSnapNum'
                   /\ \/ backup'[Slot(d)].frame = d
                      \/ backup'[Slot(d)].frame >= d + UPDATE_BACKUP
      BY <1>7, <3>2 DEF Had
    <3>. QED BY <3>1, <3>2, <3>3 DEF Had
  <2>. QED BY <2>1 DEF DeltaInv
<1>13. \E S : down' \in Seq(S)
  BY <1>1 DEF Inv, DownInv
<1>. QED BY <1>8, <1>9, <1>10, <1>11, <1>12, <1>13 DEF Inv, DownInv

\* A frame that goes out is newer than all before, and a delta of it is of a frame that was
\* acknowledged and is less than a ring old.
LEMMA SendKeeps ==
  ASSUME Inv, NEW w, NEW sh, NEW taken, NEW unfit, NEW lost \in BOOLEAN,
         SV_SendClientDatagram(w, sh, taken, unfit, lost)
  PROVE  Inv'
<1>1. /\ framenum' = framenum + 1 /\ UNCHANGED <<receivedSnapNum, lastframe, backup, up>>
      /\ framenum \in Nat /\ receivedSnapNum \in Nat /\ receivedSnapNum <= framenum
  BY DEF SV_SendClientDatagram, clientVars, Inv, Numbers
<1>2. PICK nd, news, cmds :
        down' = IF lost THEN down
                ELSE Append(down, [frame |-> framenum + 1, deltaFrameNum |-> lastframe,
                                   delta |-> OldFrame(framenum + 1, nd) # <<>>, news |-> news,
                                   cmds |-> cmds, world |-> w])
  BY DEF SV_SendClientDatagram
<1>3. \A a : Had(a)' <=> Had(a)
  BY <1>1 DEF Had
<1>4. Numbers' /\ RingInv' /\ UpInv'
  BY <1>1, <1>3 DEF Inv, Numbers, RingInv, UpInv
<1>5. CASE down' = down
  BY <1>1, <1>3, <1>4, <1>5 DEF Inv, DownInv, InOrder, DeltaInv
<1>6. CASE ~lost
  <2>. DEFINE m == [frame |-> framenum + 1, deltaFrameNum |-> lastframe,
                    delta |-> OldFrame(framenum + 1, nd) # <<>>, news |-> news,
                    cmds |-> cmds, world |-> w]
  <2>1. PICK S : down \in Seq(S)
    BY DEF Inv, DownInv
  <2>2. /\ down' = Append(down, m) /\ Len(down) \in Nat /\ Len(down') = Len(down) + 1
        /\ \A i \in 1 .. Len(down) : down'[i] = down[i]
        /\ down'[Len(down) + 1] = m
        /\ down' \in Seq(S \cup {m})
    BY <1>2, <1>6, <2>1
  <2>3. InOrder'
    <3>1. \A i \in 1 .. Len(down) : /\ down[i].frame \in receivedSnapNum + 1 .. framenum
                                    /\ down[i].frame < m.frame
      BY <1>1 DEF Inv, DownInv, InOrder
    <3>2. \A i \in 1 .. Len(down') : down'[i].frame \in receivedSnapNum' + 1 .. framenum'
      BY <1>1, <2>2, <3>1
    <3>3. ASSUME NEW i \in 1 .. Len(down'), NEW j \in 1 .. Len(down'), i < j
          PROVE  down'[i].frame < down'[j].frame
      <4>1. i \in 1 .. Len(down) /\ (j \in 1 .. Len(down) \/ j = Len(down) + 1)
        BY <2>2, <3>3
      <4>2. CASE j \in 1 .. Len(down)
        BY <2>2, <3>3, <4>1, <4>2 DEF Inv, DownInv, InOrder
      <4>3. CASE j = Len(down) + 1
        <5>1. down'[j] = m
          BY <2>2, <4>3
        <5>. QED BY <2>2, <3>1, <4>1, <5>1
      <4>. QED BY <4>1, <4>2, <4>3
    <3>. QED BY <3>2, <3>3 DEF InOrder
  <2>4. m.delta => /\ lastframe \in Nat \ {0} /\ Had(lastframe)
                   /\ framenum + 1 < lastframe + UPDATE_MASK
    <3>1. SUFFICES ASSUME OldFrame(framenum + 1, nd) # <<>>
                   PROVE  /\ lastframe \in Nat \ {0} /\ Had(lastframe)
                          /\ framenum + 1 < lastframe + UPDATE_MASK
      OBVIOUS
    <3>2. ~(lastframe <= 0) /\ ~(framenum + 1 >= lastframe + UPDATE_MASK)
      BY <3>1 DEF OldFrame
    <3>3. UPDATE_MASK \in Nat /\ lastframe \in Int /\ Had(lastframe)
      BY SlotFacts DEF Inv, Numbers
    <3>. QED BY <1>1, <3>2, <3>3
  <2>5. DeltaInv'
    <3>1. ASSUME NEW i \in 1 .. Len(down'), down'[i].delta
          PROVE  /\ down'[i].deltaFrameNum \in Nat \ {0} /\ Had(down[i].deltaFrameNum)'
                 /\ down'[i].frame < down'[i].deltaFrameNum + UPDATE_MASK
      <4>1. CASE i = Len(down) + 1
        <5>1. down'[i].deltaFrameNum = lastframe /\ down'[i].frame = framenum + 1
          BY <2>2, <4>1
        <5>. QED BY <1>1, <2>2, <2>4, <3>1, <4>1, <5>1 DEF Had
      <4>2. CASE i \in 1 .. Len(down)
        BY <1>1, <2>2, <3>1, <4>2 DEF Inv, DownInv, DeltaInv, Had
      <4>. QED BY <2>2, <4>1, <4>2
    <3>. QED BY <3>1 DEF DeltaInv
  <2>. QED BY <1>4, <2>2, <2>3, <2>5 DEF Inv, DownInv
<1>. QED BY <1>2, <1>5, <1>6

\* The client acknowledges a frame that it has, the newest, and the server learns of it.
LEMMA AcknowledgeKeeps ==
  ASSUME Inv, CL_WriteUcmdsToMessage \/ SV_ParseMoveCommand \/ SV_NoDelta_f
  PROVE  Inv'
<1>1. UNCHANGED <<framenum, receivedSnapNum, backup, down>>
  BY DEF CL_WriteUcmdsToMessage, SV_ParseMoveCommand, SV_NoDelta_f, serverVars, clientVars
<1>2. \A a : Had(a)' <=> Had(a)
  BY <1>1 DEF Had
<1>3. RingInv' /\ DownInv'
  BY <1>1 DEF Inv, RingInv, DownInv, InOrder, DeltaInv, Had
<1>4. CASE CL_WriteUcmdsToMessage
  <2>. DEFINE a == IF receivedSnapNum <= 0 THEN -1 ELSE backup[Slot(receivedSnapNum)].frame
  <2>1. a \in Int /\ Had(a)
    BY SlotFacts DEF Inv, Numbers, RingInv, Had
  <2>2. up' = Append(up, a) /\ lastframe' = lastframe
    BY <1>4 DEF CL_WriteUcmdsToMessage, ackVars
  <2>3. /\ up \in Seq(Int) /\ Len(up) \in Nat /\ Len(up') = Len(up) + 1 /\ up' \in Seq(Int)
        /\ \A i \in 1 .. Len(up) : up'[i] = up[i]
        /\ up'[Len(up) + 1] = a
    BY <2>1, <2>2 DEF Inv, UpInv
  <2>4. \A i \in 1 .. Len(up') : Had(up'[i])
    BY <2>1, <2>3, SMTT(30) DEF Inv, UpInv
  <2>5. Had(lastframe)' /\ \A i \in 1 .. Len(up') : Had(up[i])'
    BY <1>1, <2>2, <2>4 DEF Inv, Numbers, Had
  <2>. QED BY <1>1, <1>3, <2>2, <2>3, <2>5 DEF Inv, Numbers, UpInv
<1>5. CASE SV_ParseMoveCommand
  <2>1. lastframe' = Head(up) /\ up' = Tail(up) /\ up # <<>>
    BY <1>5 DEF SV_ParseMoveCommand
  <2>2. /\ up \in Seq(Int) /\ Len(up) \in Nat \ {0} /\ up[1] \in Int /\ Head(up) = up[1]
        /\ up' \in Seq(Int) /\ Len(up') = Len(up) - 1
        /\ \A i \in 1 .. Len(up') : up'[i] = up[i + 1] /\ i + 1 \in 1 .. Len(up)
    BY <2>1 DEF Inv, UpInv
  <2>3. Had(up[1]) /\ \A i \in 1 .. Len(up') : Had(up'[i])
    <3>1. 1 \in 1 .. Len(up) /\ \A i \in 1 .. Len(up) : Had(up[i])
      BY <2>2 DEF Inv, UpInv
    <3>. QED BY <2>2, <3>1
  <2>4. Had(lastframe)' /\ \A i \in 1 .. Len(up') : Had(up[i])'
    BY <1>1, <2>1, <2>2, <2>3 DEF Had
  <2>. QED BY <1>1, <1>3, <2>1, <2>2, <2>4 DEF Inv, Numbers, UpInv
<1>6. CASE SV_NoDelta_f
  <2>1. lastframe' = -1 /\ up' = up
    BY <1>6 DEF SV_NoDelta_f
  <2>2. Had(lastframe)' /\ UpInv'
    BY <1>1, <2>1 DEF Had, Inv, UpInv
  <2>. QED BY <1>1, <1>3, <2>1, <2>2 DEF Inv, Numbers
<1>. QED BY <1>4, <1>5, <1>6

-----------------------------------------------------------------------------
\* The client's ring always holds what it acknowledged, less than a ring ago.
THEOREM Invariance == Spec => []Inv
<1>1. Init => Inv
  BY SlotFacts DEF Init, NoFrame, Inv, Numbers, RingInv, UpInv, DownInv, InOrder, DeltaInv, Had
<1>2. Inv /\ [Next]_vars => Inv'
  <2>1. SUFFICES ASSUME Inv, [Next]_vars PROVE Inv'
    OBVIOUS
  <2>2. CASE SV_AddGameCommand \/ CG_Precache \/ (\E reached \in BOOLEAN : CL_Frame(reached))
             \/ UNCHANGED vars
    <3>1. UNCHANGED <<framenum, receivedSnapNum, lastframe, backup, up, down>>
      BY <2>2 DEF SV_AddGameCommand, CG_Precache, CL_Frame, vars, serverVars, ackVars, clientVars
    <3>. QED BY <2>1, <3>1, StutterKeeps
  <2>3. CASE CL_ParseFrame
    BY <2>1, <2>3, ParseKeeps
  <2>4. CASE \E w \in Worlds, sh \in SUBSET Shadowable, taken \in OtherTakes,
               unfit \in (IF Flood THEN SUBSET (1 .. gameCommandCurrent) ELSE {{}}),
               lost \in BOOLEAN : SV_SendClientDatagram(w, sh, taken, unfit, lost)
    BY <2>1, <2>4, SendKeeps
  <2>5. CASE CL_WriteUcmdsToMessage \/ SV_ParseMoveCommand \/ SV_NoDelta_f
    BY <2>1, <2>5, AcknowledgeKeeps
  <2>. QED BY <2>1, <2>2, <2>3, <2>4, <2>5 DEF Next
<1>. QED BY <1>1, <1>2, PTL DEF Spec

\* No frame comes in that the client cannot decode, whatever is lost, for any size of the
\* rings that the code could use: what SNAP_ParseFrameHeader reports of deltas that it has
\* no frame for cannot happen.
THEOREM Usable == Spec => []AlwaysUsable
<1>1. Inv => AlwaysUsable
  BY DEF Inv, RingInv, AlwaysUsable
<1>. QED BY Invariance, <1>1, PTL

-----------------------------------------------------------------------------
(* Loops: the prover is told nothing of recursion, so that what a loop computes  *)
(* is shown from the least turn at which it would not.                           *)

\* A set of numbers has a least one.
LEMMA Smallest ==
  ASSUME NEW T \in SUBSET Nat, T # {}
  PROVE  \E x \in T : \A y \in T : x <= y
<1>1. PICK x \in T : \A y \in T : ~(<<y, x>> \in OpToRel(<, Nat))
  BY NatLessThanWellFounded, WFMin, Zenon
<1>2. \A a, b \in Nat : a < b => <<a, b>> \in OpToRel(<, Nat)
  BY DEF OpToRel
<1>3. \A y \in T : ~(y < x)
  BY <1>1, <1>2
<1>. QED BY <1>3

\* What holds before the first turn, and after each if it holds before it, holds after all.
LEMMA Through ==
  ASSUME NEW N \in Nat, NEW P, NEW f, f[0] \in P[0],
         \A k \in 1 .. N : f[k - 1] \in P[k - 1] => f[k] \in P[k]
  PROVE  \A k \in 0 .. N : f[k] \in P[k]
<1>. DEFINE T == {k \in 0 .. N : f[k] \notin P[k]}
<1>1. SUFFICES ASSUME T # {} PROVE FALSE
  OBVIOUS
<1>2. PICK k \in T : \A m \in T : k <= m
  <2>1. T \in SUBSET Nat
    OBVIOUS
  <2>. QED BY <1>1, <2>1, Smallest
<1>3. k \in 1 .. N /\ k - 1 \in 0 .. N /\ ~(k <= k - 1)
  BY <1>2
<1>4. k - 1 \notin T
  BY <1>2, <1>3
<1>. QED BY <1>2, <1>3, <1>4

\* f is what a loop from x computes in N turns.
Runs(f, N, X, x, step) ==
  f \in [0 .. N -> X] /\ f[0] = x /\ \A k \in 1 .. N : f[k] = step[k][f[k - 1]]

\* A loop of N turns has a state after each.
LEMMA Iterate ==
  ASSUME NEW N \in Nat, NEW X, NEW x \in X, NEW step \in [1 .. N -> [X -> X]]
  PROVE  \E f : Runs(f, N, X, x, step)
<1>. DEFINE Is(f, n) == Runs(f, n, X, x, step)
            T == {n \in 0 .. N : ~\E f : Is(f, n)}
<1>1. SUFFICES ASSUME T # {} PROVE FALSE
  <2>1. N \in 0 .. N
    OBVIOUS
  <2>. HIDE DEF Is
  <2>2. T = {} => \E f : Is(f, N)
    BY <2>1
  <2>. QED BY <2>2 DEF Is
<1>2. PICK n \in T : \A m \in T : n <= m
  <2>1. T \in SUBSET Nat
    OBVIOUS
  <2>. QED BY <1>1, <2>1, Smallest
<1>3. CASE n = 0
  <2>1. Is([k \in 0 .. 0 |-> x], 0)
    BY DEF Runs
  <2>. QED BY <1>2, <1>3, <2>1
<1>4. CASE n # 0
  <2>1. n \in 1 .. N /\ n - 1 \in 0 .. N /\ ~(n <= n - 1)
    BY <1>2, <1>4
  <2>2. PICK f : Is(f, n - 1)
    BY <1>2, <2>1
  <2>. DEFINE g == [k \in 0 .. n |-> IF k = n THEN step[n][f[n - 1]] ELSE f[k]]
  <2>3. f[n - 1] \in X /\ step[n][f[n - 1]] \in X
    BY <2>1, <2>2 DEF Runs
  <2>4. g \in [0 .. n -> X] /\ g[0] = x
    BY <2>1, <2>2, <2>3 DEF Runs
  <2>5. ASSUME NEW k \in 1 .. n PROVE g[k] = step[k][g[k - 1]]
    <3>1. g[k - 1] = f[k - 1]
      BY <2>1
    <3>2. CASE k = n
      BY <2>1, <3>1, <3>2
    <3>3. CASE k # n
      <4>1. k \in 1 .. n - 1 /\ g[k] = f[k]
        BY <2>1, <3>3
      <4>. QED BY <2>2, <3>1, <4>1 DEF Runs
    <3>. QED BY <3>2, <3>3
  <2>6. Is(g, n)
    BY <2>4, <2>5 DEF Runs
  <2>. QED BY <1>2, <2>6
<1>. QED BY <1>3, <1>4

\* Only, turn by turn.
LEMMA OnlyIs ==
  ASSUME NEW T, NEW s \in Seq(T), NEW S
  PROVE  \E f \in [0 .. Len(s) -> Seq(T)] :
           /\ f[0] = <<>> /\ f[Len(s)] = Only(s, S)
           /\ \A k \in 1 .. Len(s) :
                f[k] = IF s[k] \in S THEN Append(f[k - 1], s[k]) ELSE f[k - 1]
<1>. DEFINE N == Len(s)
            X == Seq(T)
            step == [k \in 1 .. N |-> [q \in X |-> IF s[k] \in S THEN Append(q, s[k]) ELSE q]]
            Is(f) == f = [n \in 0 .. N |-> IF n = 0 THEN <<>>
                            ELSE IF s[n] \in S THEN Append(f[n - 1], s[n]) ELSE f[n - 1]]
            upTo == CHOOSE f : Is(f)
<1>1. N \in Nat /\ <<>> \in X /\ step \in [1 .. N -> [X -> X]]
  <2>1. ASSUME NEW k \in 1 .. N, NEW q \in X
        PROVE  (IF s[k] \in S THEN Append(q, s[k]) ELSE q) \in X
    BY ElementOfSeq, AppendProperties
  <2>. QED BY <2>1
<1>2. PICK f : Runs(f, N, X, <<>>, step)
  <2>. HIDE DEF N, X, step
  <2>. QED BY <1>1, Iterate
<1>3. ASSUME NEW k \in 1 .. N
      PROVE  f[k] = IF s[k] \in S THEN Append(f[k - 1], s[k]) ELSE f[k - 1]
  <2>1. k - 1 \in 0 .. N
    BY <1>1
  <2>2. f[k - 1] \in X /\ f[k] = step[k][f[k - 1]]
    BY <1>2, <2>1 DEF Runs
  <2>. QED BY <2>2
<1>4. Is(f)
  <2>1. ASSUME NEW n \in 0 .. N
        PROVE  f[n] = IF n = 0 THEN <<>>
                      ELSE IF s[n] \in S THEN Append(f[n - 1], s[n]) ELSE f[n - 1]
    <3>1. CASE n = 0
      BY <1>2, <3>1 DEF Runs
    <3>2. CASE n # 0
      <4>1. n \in 1 .. N
        BY <1>1, <3>2
      <4>. QED BY <1>2, <1>3, <3>2, <4>1
    <3>. QED BY <3>1, <3>2
  <2>2. f = [n \in 0 .. N |-> f[n]]
    BY <1>2 DEF Runs
  <2>. QED BY <2>1, <2>2
<1>5. Is(upTo)
  BY <1>4
<1>6. ASSUME NEW k \in 1 .. N
      PROVE  upTo[k] = IF s[k] \in S THEN Append(upTo[k - 1], s[k]) ELSE upTo[k - 1]
  <2>1. k \in 0 .. N /\ k # 0
    BY <1>1
  <2>. HIDE DEF upTo
  <2>. QED BY <1>5, <2>1
<1>7. upTo[N] = Only(s, S)
  BY DEF Only
<1>. HIDE DEF upTo
<1>8. \A n \in 0 .. N : upTo[n] \in X
  <2>. DEFINE P == [n \in 0 .. N |-> X]
  <2>1. upTo[0] \in P[0]
    BY <1>1, <1>5
  <2>2. ASSUME NEW k \in 1 .. N, upTo[k - 1] \in P[k - 1] PROVE upTo[k] \in P[k]
    <3>1. upTo[k] = IF s[k] \in S THEN Append(upTo[k - 1], s[k]) ELSE upTo[k - 1]
      BY <1>6
    <3>2. upTo[k - 1] \in X
      BY <1>1, <2>2
    <3>3. upTo[k] \in X
      BY <3>1, <3>2, ElementOfSeq, AppendProperties
    <3>. QED BY <1>1, <3>3
  <2>3. \A k \in 0 .. N : upTo[k] \in P[k]
    <3>. HIDE DEF P, N
    <3>. QED BY <1>1, <2>1, <2>2, Through
  <2>. QED BY <2>3
<1>9. upTo \in [0 .. N -> X] /\ upTo[0] = <<>>
  BY <1>1, <1>5, <1>8
<1>. QED BY <1>6, <1>7, <1>9

\* e says where the elements of q are in s, in order.
Embeds(e, q, s, n) ==
  /\ e \in [1 .. Len(q) -> 1 .. n]
  /\ \A i, j \in 1 .. Len(q) : i < j => e[i] < e[j]
  /\ \A i \in 1 .. Len(q) : q[i] = s[e[i]]

\* Only leaves out what is not in S, and keeps the order.
LEMMA OnlyFacts ==
  ASSUME NEW T, NEW s \in Seq(T), NEW S
  PROVE  /\ Only(s, S) \in Seq(T)
         /\ \E e : /\ Embeds(e, Only(s, S), s, Len(s))
                   /\ \A i \in 1 .. Len(Only(s, S)) : s[e[i]] \in S
                   /\ \A k \in 1 .. Len(s) : s[k] \in S => \E i \in 1 .. Len(Only(s, S)) : e[i] = k
<1>. DEFINE N == Len(s)
            All(e, q, n) == /\ Embeds(e, q, s, n)
                            /\ \A i \in 1 .. Len(q) : s[e[i]] \in S
                            /\ \A k \in 1 .. n : s[k] \in S => \E i \in 1 .. Len(q) : e[i] = k
            P == [n \in 0 .. N |-> {q \in Seq(T) : \E e : All(e, q, n)}]
<1>1. PICK f \in [0 .. N -> Seq(T)] :
           /\ f[0] = <<>> /\ f[N] = Only(s, S)
           /\ \A k \in 1 .. N : f[k] = IF s[k] \in S THEN Append(f[k - 1], s[k]) ELSE f[k - 1]
  BY OnlyIs
<1>2. N \in Nat
  OBVIOUS
<1>3. f[0] \in P[0]
  <2>1. All([i \in 1 .. 0 |-> 1], <<>>, 0)
    BY DEF Embeds
  <2>. HIDE DEF All
  <2>. QED BY <1>1, <1>2, <2>1
<1>4. ASSUME NEW k \in 1 .. N, f[k - 1] \in P[k - 1] PROVE f[k] \in P[k]
  <2>1. k - 1 \in 0 .. N /\ k \in 0 .. N /\ k \in Nat
    BY <1>2
  <2>. DEFINE q == f[k - 1]
  <2>2. q \in Seq(T) /\ s[k] \in T
    BY <1>1, <2>1, ElementOfSeq
  <2>3. PICK e : All(e, q, k - 1)
    <3>. HIDE DEF All
    <3>. QED BY <1>4, <2>1
  <2>4. f[k] = IF s[k] \in S THEN Append(q, s[k]) ELSE q
    BY <1>1
  <2>. HIDE DEF q
  <2>5. CASE s[k] \in S
    <3>. DEFINE r == Append(q, s[k])
                g == [i \in 1 .. Len(r) |-> IF i \in 1 .. Len(q) THEN e[i] ELSE k]
    <3>1. /\ r \in Seq(T) /\ Len(r) = Len(q) + 1 /\ Len(q) \in Nat /\ r[Len(q) + 1] = s[k]
          /\ \A i \in 1 .. Len(q) : r[i] = q[i]
      BY <2>2, AppendProperties
    <3>. HIDE DEF r
    <3>2. /\ \A i \in 1 .. Len(q) : g[i] = e[i] /\ e[i] \in 1 .. k - 1
          /\ g[Len(q) + 1] = k
          /\ \A i \in 1 .. Len(r) : i \in 1 .. Len(q) \/ i = Len(q) + 1
      <4>1. \A i \in 1 .. Len(q) : e[i] \in 1 .. k - 1
        BY <2>3 DEF Embeds
      <4>2. /\ Len(q) + 1 \in 1 .. Len(r) /\ Len(q) + 1 \notin 1 .. Len(q)
            /\ \A i \in 1 .. Len(q) : i \in 1 .. Len(r)
            /\ \A i \in 1 .. Len(r) : i \in 1 .. Len(q) \/ i = Len(q) + 1
        BY <3>1
      <4>3. \A i \in 1 .. Len(q) : g[i] = e[i]
        BY <4>2
      <4>4. g[Len(q) + 1] = k
        BY <4>2
      <4>. QED BY <4>1, <4>2, <4>3, <4>4
    <3>3. g \in [1 .. Len(r) -> 1 .. k]
      <4>1. ASSUME NEW i \in 1 .. Len(r) PROVE g[i] \in 1 .. k
        <5>. HIDE DEF g
        <5>. QED BY <2>1, <3>2
      <4>. QED BY <4>1
    <3>4. ASSUME NEW i \in 1 .. Len(r), NEW j \in 1 .. Len(r), i < j PROVE g[i] < g[j]
      <4>. HIDE DEF g
      <4>1. CASE j = Len(q) + 1
        <5>1. i \in 1 .. Len(q) /\ g[j] = k
          BY <3>1, <3>2, <3>4, <4>1
        <5>. QED BY <2>1, <3>2, <5>1
      <4>2. CASE j \in 1 .. Len(q)
        <5>1. i \in 1 .. Len(q)
          BY <3>1, <3>4, <4>2
        <5>. QED BY <2>3, <3>2, <3>4, <4>2, <5>1 DEF Embeds
      <4>. QED BY <3>2, <4>1, <4>2
    <3>5. \A i \in 1 .. Len(r) : r[i] = s[g[i]] /\ s[g[i]] \in S
      <4>. HIDE DEF g
      <4>. QED BY <2>3, <2>5, <3>1, <3>2 DEF Embeds
    <3>6. ASSUME NEW j \in 1 .. k, s[j] \in S PROVE \E i \in 1 .. Len(r) : g[i] = j
      <4>. HIDE DEF g
      <4>1. CASE j = k
        BY <3>1, <3>2, <4>1
      <4>2. CASE j \in 1 .. k - 1
        <5>1. PICK i \in 1 .. Len(q) : e[i] = j
          BY <2>3, <3>6, <4>2
        <5>2. i \in 1 .. Len(r) /\ g[i] = j
          BY <3>1, <3>2, <5>1
        <5>. QED BY <5>2
      <4>. QED BY <2>1, <4>1, <4>2
    <3>. HIDE DEF g
    <3>7. All(g, r, k)
      BY <3>3, <3>4, <3>5, <3>6 DEF Embeds
    <3>. HIDE DEF All
    <3>8. r \in P[k]
      BY <2>1, <3>1, <3>7
    <3>. QED BY <2>4, <2>5, <3>8 DEF r
  <2>6. CASE s[k] \notin S
    <3>1. All(e, q, k)
      <4>1. \A j \in 1 .. k : s[j] \in S => j \in 1 .. k - 1
        BY <2>1, <2>6
      <4>2. e \in [1 .. Len(q) -> 1 .. k]
        BY <2>1, <2>3 DEF Embeds
      <4>. QED BY <2>3, <4>1, <4>2 DEF Embeds
    <3>. HIDE DEF All
    <3>. QED BY <2>1, <2>2, <2>4, <2>6, <3>1
  <2>. QED BY <2>5, <2>6
<1>5. f[N] \in P[N]
  <2>1. \A k \in 0 .. N : f[k] \in P[k]
    <3>. HIDE DEF P, N
    <3>. QED BY <1>2, <1>3, <1>4, Through
  <2>. QED BY <1>2, <2>1
<1>. HIDE DEF All
<1>6. Only(s, S) \in Seq(T) /\ \E e : All(e, Only(s, S), N)
  BY <1>1, <1>2, <1>5
<1>. QED BY <1>6 DEF All

-----------------------------------------------------------------------------
(* Rings of any size *)

\* A remainder is told by what it leaves.
LEMMA Remainder ==
  ASSUME NEW N \in Nat \ {0}, NEW a \in Int
  PROVE  a % N \in 0 .. N - 1 /\ \E q \in Int : a = N * q + (a % N)
<1>1. a % N \in 0 .. N - 1
  OBVIOUS
<1>2. a \div N \in Int
  OBVIOUS
<1>3. a = N * (a \div N) + (a % N)
  OBVIOUS
<1>. QED BY <1>1, <1>2, <1>3

\* Two remainders of the same number are the same.
LEMMA OneRemainder ==
  ASSUME NEW N \in Nat \ {0}, NEW p \in Int, NEW q \in Int, NEW r \in 0 .. N - 1,
         NEW t \in 0 .. N - 1, N * p + r = N * q + t
  PROVE  r = t
<1>1. N * (p - q) = t - r
  OBVIOUS
<1>2. p - q >= 1 => N * (p - q) >= N
  OBVIOUS
<1>3. p - q <= -1 => N * (p - q) <= -N
  OBVIOUS
<1>4. p - q = 0 => N * (p - q) = 0
  OBVIOUS
<1>. QED BY <1>1, <1>2, <1>3, <1>4

\* The remainder of a number that is whole rings behind r is r.
LEMMA RemainderIs ==
  ASSUME NEW N \in Nat \ {0}, NEW a \in Int, NEW q \in Int, NEW r \in 0 .. N - 1, a = N * q + r
  PROVE  a % N = r
BY Remainder, OneRemainder

\* Places less than a ring apart are not the same.
LEMMA Apart ==
  ASSUME NEW N \in Nat \ {0}, NEW a \in Int, NEW b \in Int, a < b, b < a + N
  PROVE  a % N # b % N
<1>1. SUFFICES ASSUME a % N = b % N PROVE FALSE
  OBVIOUS
<1>2. PICK p \in Int : a = N * p + (a % N)
  BY Remainder
<1>3. PICK q \in Int : b = N * q + (b % N)
  BY Remainder
<1>4. a % N \in Int
  BY Remainder
<1>5. b - a = N * (q - p)
  BY <1>1, <1>2, <1>3, <1>4
<1>6. q - p >= 1 => N * (q - p) >= N
  OBVIOUS
<1>7. q - p <= 0 => N * (q - p) <= 0
  OBVIOUS
<1>. QED BY <1>5, <1>6, <1>7

-----------------------------------------------------------------------------
(* Game commands are executed once and in order *)

GameCommand == [id : Nat \ {0}, framenum : Nat]

\* Commands that are kept at either end, or on their way.
Known(c) ==
  \/ \E i \in 0 .. MAX_RELIABLE_COMMANDS - 1 : c = gameCommands[i] /\ c.id # 0
  \/ \E i \in 1 .. Len(down) : \E k \in 1 .. Len(down[i].cmds) : c = down[i].cmds[k]
  \/ \E s \in Slots : \E k \in 1 .. Len(backup[s].cmds) : c = backup[s].cmds[k]

Ascending(cmds) == \A i, j \in 1 .. Len(cmds) : i < j => cmds[i].id < cmds[j].id

\* cmds may be what frame f carries.
Carries(cmds, f) ==
  /\ cmds \in Seq(GameCommand) /\ Ascending(cmds)
  /\ \A k \in 1 .. Len(cmds) : cmds[k].framenum <= f

\* The server keeps its last commands, each in its place.
KeepInv ==
  /\ gameCommandCurrent \in Nat /\ lastSentFrameNum = framenum
  /\ gameCommands \in [0 .. MAX_RELIABLE_COMMANDS - 1 -> [id : Nat, framenum : Nat]]
  /\ \A j \in Int : gameCommandCurrent - MAX_RELIABLE_COMMANDS < j /\ j <= gameCommandCurrent
       => gameCommands[j % MAX_RELIABLE_COMMANDS].id = IF j >= 1 THEN j ELSE 0

\* Later commands belong to frames that are not earlier, and a command of a frame later than
\* those from which commands were executed comes after these.
KnownInv ==
  /\ \A c : Known(c) => /\ c.id \in 1 .. gameCommandCurrent /\ c.framenum \in 0 .. framenum + 1
                        /\ framenum = 0 => c.framenum = 0
  /\ \A c, d : Known(c) /\ Known(d) /\ c.id <= d.id => c.framenum <= d.framenum
  /\ \A c : Known(c) => \A k \in 1 .. Len(executed) :
       c.framenum > executed[k].frame => executed[k].id < c.id

\* A frame that the client has carries only commands that none before it has or had.
CarryInv ==
  /\ \A i \in 1 .. Len(down) : Carries(down[i].cmds, down[i].frame)
  /\ \A s \in Slots : Carries(backup[s].cmds, backup[s].frame)
  /\ \A s, t \in Slots : 0 < backup[t].frame /\ backup[t].frame < backup[s].frame =>
       \A k \in 1 .. Len(backup[s].cmds) : backup[s].cmds[k].framenum > backup[t].frame
  /\ \A s \in Slots, n \in 1 .. Len(executed) : executed[n].frame < backup[s].frame =>
       \A k \in 1 .. Len(backup[s].cmds) : backup[s].cmds[k].framenum > executed[n].frame

\* What was executed came with the frame that was shown or with one in its place.
Executed == [id : Nat, shown : Nat, frame : Nat \ {0}]
ExecutedInv ==
  /\ executed \in Seq(Executed)
  /\ \A k \in 1 .. Len(executed) :
       /\ executed[k].id \in 1 .. gameCommandCurrent
       /\ executed[k].shown <= currentSnapNum
       /\ executed[k].shown <= executed[k].frame /\ executed[k].frame <= receivedSnapNum

\* In the place of the frame that waits to be shown is itself or a later one, and none from
\* before those whose commands were executed.
ShowInv ==
  /\ currentSnapNum \in 0 .. receivedSnapNum /\ pendingSnapNum \in Nat
  /\ pendingSnapNum # 0 => /\ pendingSnapNum > currentSnapNum
                           /\ backup[Slot(pendingSnapNum)].frame >= pendingSnapNum
                           /\ \A k \in 1 .. Len(executed) :
                                executed[k].frame <= backup[Slot(pendingSnapNum)].frame
  /\ ExecutedInv /\ CommandsOnce

OnceInv == KeepInv /\ KnownInv /\ CarryInv /\ ShowInv

\* What of the state these say something of.
commandState == <<framenum, lastSentFrameNum, gameCommands, gameCommandCurrent, down, backup,
                  receivedSnapNum, pendingSnapNum, currentSnapNum, executed>>

\* The other steps change nothing that this speaks of.
LEMMA CommandStutter ==
  ASSUME OnceInv, UNCHANGED commandState
  PROVE  OnceInv'
BY DEF OnceInv, KeepInv, KnownInv, Known, CarryInv, Carries, ShowInv, ExecutedInv, CommandsOnce,
       commandState

\* A new command is numbered above all others and belongs to the frame to come.
LEMMA AddOnce ==
  ASSUME Inv, OnceInv, SV_AddGameCommand
  PROVE  OnceInv'
<1>. DEFINE g == gameCommandCurrent
            N == MAX_RELIABLE_COMMANDS
            new == [id |-> g + 1, framenum |-> IF framenum # 0 THEN framenum + 1 ELSE framenum]
<1>1. /\ N \in Nat \ {0} /\ g \in Nat /\ framenum \in Nat /\ (g + 1) % N \in 0 .. N - 1
      /\ receivedSnapNum \in Nat
  <2>1. N \in Nat \ {0} /\ g \in Nat /\ framenum \in Nat /\ receivedSnapNum \in Nat /\ g + 1 \in Int
    BY SizesAssumption DEF OnceInv, KeepInv, Inv, Numbers
  <2>. HIDE DEF N, g
  <2>. QED BY <2>1, Remainder
<1>2. /\ gameCommandCurrent' = g + 1
      /\ gameCommands' = [gameCommands EXCEPT ![(g + 1) % N] = new]
      /\ UNCHANGED <<framenum, lastSentFrameNum, down, backup, receivedSnapNum, pendingSnapNum,
                     currentSnapNum, executed>>
  BY DEF SV_AddGameCommand, serverVars, clientVars, OnceInv, KeepInv
<1>3. gameCommands \in [0 .. N - 1 -> [id : Nat, framenum : Nat]]
  BY DEF OnceInv, KeepInv
<1>4. new \in [id : Nat, framenum : Nat] /\ new.id = g + 1 /\ new.framenum \in 0 .. framenum + 1
      /\ (framenum = 0 => new.framenum = 0) /\ (framenum # 0 => new.framenum = framenum + 1)
  BY <1>1
<1>. HIDE DEF new
<1>5. KeepInv'
  <2>1. gameCommands' \in [0 .. N - 1 -> [id : Nat, framenum : Nat]]
    BY <1>1, <1>2, <1>3, <1>4
  <2>2. ASSUME NEW j \in Int, g + 1 - N < j, j <= g + 1
        PROVE  gameCommands'[j % N].id = IF j >= 1 THEN j ELSE 0
    <3>1. CASE j = g + 1
      BY <1>1, <1>2, <1>3, <1>4, <3>1
    <3>2. CASE j <= g
      <4>1. j % N # (g + 1) % N /\ j % N \in 0 .. N - 1
        <5>1. N \in Nat \ {0} /\ j \in Int /\ g + 1 \in Int /\ j < g + 1 /\ g + 1 < j + N
          BY <1>1, <2>2, <3>2
        <5>. HIDE DEF N, g
        <5>. QED BY <5>1, Apart, Remainder
      <4>2. gameCommands'[j % N] = gameCommands[j % N]
        BY <1>1, <1>2, <1>3, <4>1
      <4>3. gameCommands[j % N].id = IF j >= 1 THEN j ELSE 0
        BY <1>1, <2>2, <3>2 DEF OnceInv, KeepInv
      <4>. QED BY <4>2, <4>3
    <3>. QED BY <1>1, <2>2, <3>1, <3>2
  <2>3. gameCommandCurrent' = g + 1 /\ g + 1 \in Nat
    BY <1>1, <1>2
  <2>. QED BY <1>1, <1>2, <2>1, <2>2, <2>3 DEF KeepInv, OnceInv
<1>6. \A c : Known(c)' => Known(c) \/ c = new
  <2>1. \A i \in 0 .. N - 1 : gameCommands'[i] = new \/ gameCommands'[i] = gameCommands[i]
    BY <1>1, <1>2, <1>3
  <2>. QED BY <1>2, <2>1 DEF Known
<1>7. ASSUME NEW c, Known(c)
      PROVE  c.id \in 1 .. g /\ c.framenum \in 0 .. framenum + 1 /\ (framenum = 0 => c.framenum = 0)
  BY <1>7 DEF OnceInv, KnownInv
<1>8. KnownInv'
  <2>1. \A c : Known(c)' => /\ c.id \in 1 .. g + 1 /\ c.framenum \in 0 .. framenum + 1
                            /\ framenum = 0 => c.framenum = 0
    BY <1>1, <1>4, <1>6, <1>7
  <2>2. ASSUME NEW c, NEW d, Known(c)', Known(d)', c.id <= d.id PROVE c.framenum <= d.framenum
    <3>1. CASE Known(c) /\ Known(d)
      BY <2>2, <3>1 DEF OnceInv, KnownInv
    <3>2. CASE d = new
      <4>1. c.framenum \in 0 .. framenum + 1 /\ (framenum = 0 => c.framenum = 0)
        BY <2>1, <2>2
      <4>. QED BY <1>1, <1>4, <3>2, <4>1
    <3>3. CASE c = new /\ Known(d)
      BY <1>1, <1>4, <1>7, <2>2, <3>3
    <3>. QED BY <1>6, <2>2, <3>1, <3>2, <3>3
  <2>3. ASSUME NEW c, Known(c)', NEW k \in 1 .. Len(executed), c.framenum > executed[k].frame
        PROVE  executed[k].id < c.id
    <3>1. executed[k].id \in 1 .. g
      BY DEF OnceInv, ShowInv, ExecutedInv
    <3>2. CASE Known(c)
      BY <2>3, <3>2 DEF OnceInv, KnownInv
    <3>. QED BY <1>1, <1>4, <1>6, <2>3, <3>1, <3>2
  <2>. QED BY <1>2, <2>1, <2>2, <2>3 DEF KnownInv
<1>9. CarryInv'
  BY <1>2 DEF OnceInv, CarryInv, Carries
<1>10. ShowInv'
  <2>1. ExecutedInv'
    <3>1. \A k \in 1 .. Len(executed) : executed[k].id \in 1 .. g + 1
      BY <1>1 DEF OnceInv, ShowInv, ExecutedInv
    <3>. QED BY <1>2, <3>1 DEF OnceInv, ShowInv, ExecutedInv
  <2>2. CommandsOnce'
    BY <1>2 DEF OnceInv, ShowInv, CommandsOnce
  <2>. QED BY <1>2, <2>1, <2>2 DEF OnceInv, ShowInv
<1>. QED BY <1>5, <1>8, <1>9, <1>10 DEF OnceInv

\* Part of an ascending list of commands is one.
LEMMA PartAscends ==
  ASSUME NEW s \in Seq(GameCommand), Ascending(s), NEW S
  PROVE  /\ Only(s, S) \in Seq(GameCommand) /\ Ascending(Only(s, S))
         /\ \A i \in 1 .. Len(Only(s, S)) :
              Only(s, S)[i] \in S /\ \E k \in 1 .. Len(s) : Only(s, S)[i] = s[k]
<1>. DEFINE q == Only(s, S)
<1>1. q \in Seq(GameCommand)
  BY OnlyFacts
<1>2. PICK e : Embeds(e, q, s, Len(s)) /\ \A i \in 1 .. Len(q) : s[e[i]] \in S
  BY OnlyFacts
<1>. HIDE DEF q
<1>3. Ascending(q)
  BY <1>2 DEF Ascending, Embeds
<1>4. \A i \in 1 .. Len(q) : q[i] \in S /\ \E k \in 1 .. Len(s) : q[i] = s[k]
  BY <1>2 DEF Embeds
<1>. QED BY <1>1, <1>3, <1>4 DEF q

\* What a frame is given to carry.
LEMMA DueFacts ==
  ASSUME OnceInv, NEW f \in Nat, NEW unfit
  PROVE  /\ Carries(DueCommands(f, unfit), f)
         /\ \A i \in 1 .. Len(DueCommands(f, unfit)) : Known(DueCommands(f, unfit)[i])
<1>. DEFINE N == MAX_RELIABLE_COMMANDS
            g == gameCommandCurrent
            at(k) == (g - N + k) % N
            turns == [k \in 1 .. N |-> gameCommands[at(k)]]
            S == {c \in Range(turns) :
                     /\ c.id # 0
                     /\ c.framenum + COMMAND_FRAMES >= f
                     /\ c.framenum <= f
                     /\ lastframe >= 0 => c.framenum > lastframe
                     /\ c.id \notin unfit}
            T == [id : Nat, framenum : Nat]
            q == DueCommands(f, unfit)
<1>1. N \in Nat \ {0} /\ g \in Nat /\ \A k \in 1 .. N : at(k) \in 0 .. N - 1
  <2>1. N \in Nat \ {0} /\ g \in Nat
    BY SizesAssumption DEF OnceInv, KeepInv
  <2>2. ASSUME NEW k \in 1 .. N PROVE at(k) \in 0 .. N - 1
    <3>1. g - N + k \in Int
      BY <2>1
    <3>. QED BY <2>1, <3>1, Remainder
  <2>. QED BY <2>1, <2>2
<1>2. gameCommands \in [0 .. N - 1 -> T]
  BY DEF OnceInv, KeepInv
<1>3. turns \in Seq(T) /\ Len(turns) = N /\ \A k \in 1 .. N : turns[k] = gameCommands[at(k)]
  <2>1. \A k \in 1 .. N : gameCommands[at(k)] \in T
    BY <1>1, <1>2
  <2>. HIDE DEF T, at
  <2>. QED BY <1>1, <2>1, SeqDef
<1>4. \A k \in 1 .. N : turns[k].id = IF g - N + k >= 1 THEN g - N + k ELSE 0
  <2>1. ASSUME NEW k \in 1 .. N PROVE gameCommands[at(k)].id = IF g - N + k >= 1 THEN g - N + k ELSE 0
    BY <1>1 DEF OnceInv, KeepInv
  <2>. QED BY <1>3, <2>1
<1>5. q = Only(turns, S)
  BY DEF DueCommands
<1>. HIDE DEF q, turns
<1>6. q \in Seq(T) /\ \E e : /\ Embeds(e, q, turns, N)
                             /\ \A i \in 1 .. Len(q) : turns[e[i]] \in S
  <2>. HIDE DEF S, T
  <2>. QED BY <1>3, <1>5, OnlyFacts
<1>7. PICK e : Embeds(e, q, turns, N) /\ \A i \in 1 .. Len(q) : turns[e[i]] \in S
  BY <1>6
<1>8. ASSUME NEW i \in 1 .. Len(q)
      PROVE  /\ e[i] \in 1 .. N /\ q[i] = turns[e[i]] /\ q[i] \in T
             /\ q[i].id # 0 /\ q[i].framenum <= f /\ q[i].id = g - N + e[i] /\ Known(q[i])
  <2>1. e[i] \in 1 .. N /\ q[i] = turns[e[i]] /\ q[i] \in S
    BY <1>7 DEF Embeds
  <2>2. q[i].id # 0 /\ q[i].framenum <= f /\ q[i] \in T
    BY <1>6, <2>1, ElementOfSeq
  <2>3. q[i].id = g - N + e[i]
    BY <1>4, <2>1, <2>2
  <2>4. Known(q[i])
    <3>1. at(e[i]) \in 0 .. N - 1 /\ q[i] = gameCommands[at(e[i])]
      BY <1>1, <1>3, <2>1
    <3>. HIDE DEF at
    <3>. QED BY <2>2, <3>1 DEF Known
  <2>. QED BY <2>1, <2>2, <2>3, <2>4
<1>9. q \in Seq(GameCommand)
  <2>1. \A i \in 1 .. Len(q) : q[i] \in GameCommand
    BY <1>8 DEF GameCommand
  <2>2. q = [i \in 1 .. Len(q) |-> q[i]] /\ Len(q) \in Nat
    BY <1>6
  <2>. QED BY <2>1, <2>2, SeqDef
<1>10. Ascending(q)
  <2>1. ASSUME NEW i \in 1 .. Len(q), NEW j \in 1 .. Len(q), i < j PROVE q[i].id < q[j].id
    <3>1. e[i] < e[j]
      BY <1>7, <2>1 DEF Embeds
    <3>2. /\ e[i] \in 1 .. N /\ e[j] \in 1 .. N
          /\ q[i].id = g - N + e[i] /\ q[j].id = g - N + e[j]
      BY <1>8
    <3>3. N \in Nat /\ g \in Nat
      BY <1>1
    <3>. HIDE DEF N, g
    <3>. QED BY ONLY <3>1, <3>2, <3>3
  <2>. QED BY <2>1 DEF Ascending
<1>. QED BY <1>8, <1>9, <1>10 DEF Carries, q

\* A frame that goes out carries commands that the server keeps.
LEMMA SendOnce ==
  ASSUME Inv, OnceInv, NEW w, NEW sh, NEW taken, NEW unfit, NEW lost \in BOOLEAN,
         SV_SendClientDatagram(w, sh, taken, unfit, lost)
  PROVE  OnceInv'
<1>. DEFINE f == framenum + 1
            cmds == DueCommands(f, unfit)
<1>1. /\ framenum' = f /\ lastSentFrameNum' = f /\ f \in Nat /\ framenum \in Nat
      /\ UNCHANGED <<gameCommands, gameCommandCurrent, backup, receivedSnapNum, pendingSnapNum,
                     currentSnapNum, executed>>
  BY DEF SV_SendClientDatagram, commandVars, clientVars, Inv, Numbers
<1>2. PICK m : m.cmds = cmds /\ m.frame = f /\ down' = IF lost THEN down ELSE Append(down, m)
  <2>1. PICK delta, news :
          down' = IF lost THEN down
                  ELSE Append(down, [frame |-> f, deltaFrameNum |-> lastframe, delta |-> delta,
                                     news |-> news, cmds |-> cmds, world |-> w])
    BY DEF SV_SendClientDatagram
  <2>2. \E m : m.cmds = cmds /\ m.frame = f /\ down' = IF lost THEN down ELSE Append(down, m)
    BY <2>1
  <2>. QED BY <2>2
<1>3. Carries(cmds, f) /\ \A i \in 1 .. Len(cmds) : Known(cmds[i])
  BY <1>1, DueFacts
<1>. HIDE DEF cmds
<1>4. /\ Len(down) \in Nat
      /\ \A i \in 1 .. Len(down') :
           (i \in 1 .. Len(down) /\ down'[i] = down[i]) \/ down'[i] = m
  <2>1. PICK S : down \in Seq(S)
    BY DEF Inv, DownInv
  <2>2. CASE lost
    BY <1>2, <2>1, <2>2
  <2>3. CASE ~lost
    BY <1>2, <2>1, <2>3
  <2>. QED BY <2>2, <2>3
<1>5. \A c : Known(c)' => Known(c)
  <2>1. SUFFICES ASSUME NEW c, Known(c)', NEW i \in 1 .. Len(down'),
                        NEW k \in 1 .. Len(down'[i].cmds), c = down'[i].cmds[k]
                 PROVE  Known(c)
    BY <1>1 DEF Known
  <2>2. CASE i \in 1 .. Len(down) /\ down'[i] = down[i]
    BY <2>1, <2>2 DEF Known
  <2>3. CASE down'[i] = m
    BY <1>2, <1>3, <2>1, <2>3
  <2>. QED BY <1>4, <2>2, <2>3
<1>6. KeepInv'
  BY <1>1 DEF OnceInv, KeepInv
<1>7. KnownInv'
  <2>1. ASSUME NEW c, Known(c)'
        PROVE  c.id \in 1 .. gameCommandCurrent /\ c.framenum \in 0 .. f + 1
    <3>1. c.id \in 1 .. gameCommandCurrent /\ c.framenum \in 0 .. framenum + 1
      BY <1>5, <2>1 DEF OnceInv, KnownInv
    <3>. QED BY <1>1, <3>1
  <2>2. f # 0
    BY <1>1
  <2>. QED BY <1>1, <1>5, <2>1, <2>2 DEF OnceInv, KnownInv
<1>8. CarryInv'
  <2>1. \A i \in 1 .. Len(down') : Carries(down'[i].cmds, down'[i].frame)
    BY <1>2, <1>3, <1>4 DEF OnceInv, CarryInv
  <2>. QED BY <1>1, <2>1 DEF OnceInv, CarryInv, Carries
<1>9. ShowInv'
  BY <1>1 DEF OnceInv, ShowInv, ExecutedInv, CommandsOnce
<1>. QED BY <1>6, <1>7, <1>8, <1>9 DEF OnceInv

\* What is taken from a frame was not taken from one before it.
LEMMA NewFacts ==
  ASSUME Inv, OnceInv, CL_ParseFrame, NEW m, m = down[1]
  PROVE  /\ Carries(NewCommands(m), m.frame)
         /\ \A i \in 1 .. Len(NewCommands(m)) :
              /\ Known(NewCommands(m)[i])
              /\ receivedSnapNum > 0 => NewCommands(m)[i].framenum > receivedSnapNum
<1>. DEFINE own == receivedSnapNum > 0 /\ Slot(receivedSnapNum) = Slot(m.frame)
            last == IF own THEN [valid |-> ValidFrame(m), frame |-> m.frame]
                    ELSE backup[Slot(receivedSnapNum)]
            S == {c \in Range(m.cmds) :
                      /\ ValidFrame(m)
                      /\ \/ receivedSnapNum <= 0 \/ ~last.valid
                         \/ m.frame > last.frame + (m.frame - c.framenum)}
            q == NewCommands(m)
<1>1. /\ 1 \in 1 .. Len(down) /\ ValidFrame(m)
      /\ m.frame \in receivedSnapNum + 1 .. framenum /\ m.frame \in Nat \ {0}
      /\ receivedSnapNum \in Nat /\ framenum \in Nat
  BY Decodable
<1>2. Carries(m.cmds, m.frame)
  BY <1>1 DEF OnceInv, CarryInv
<1>3. q = Only(m.cmds, S)
  BY DEF NewCommands
<1>4. receivedSnapNum > 0 => last.valid /\ last.frame \in Nat /\ last.frame >= receivedSnapNum
  <2>1. receivedSnapNum > 0 =>
          /\ backup[Slot(receivedSnapNum)].frame = receivedSnapNum
          /\ backup[Slot(receivedSnapNum)].valid
    BY <1>1, SlotFacts DEF Inv, RingInv
  <2>. QED BY <1>1, <2>1
<1>. HIDE DEF q, own, last
<1>5. /\ q \in Seq(GameCommand) /\ Ascending(q)
      /\ \A i \in 1 .. Len(q) : q[i] \in S /\ \E k \in 1 .. Len(m.cmds) : q[i] = m.cmds[k]
  <2>. HIDE DEF S
  <2>. QED BY <1>2, <1>3, PartAscends DEF Carries
<1>6. ASSUME NEW i \in 1 .. Len(q)
      PROVE  /\ Known(q[i]) /\ q[i].framenum <= m.frame
             /\ receivedSnapNum > 0 => q[i].framenum > receivedSnapNum
  <2>1. q[i] \in S /\ q[i] \in GameCommand
    BY <1>5, ElementOfSeq
  <2>2. PICK k \in 1 .. Len(m.cmds) : q[i] = m.cmds[k]
    BY <1>5
  <2>3. Known(q[i]) /\ q[i].framenum <= m.frame
    BY <1>1, <1>2, <2>2 DEF Known, Carries
  <2>4. ASSUME receivedSnapNum > 0 PROVE q[i].framenum > receivedSnapNum
    <3>1. q[i].framenum \in Nat /\ m.frame > last.frame + (m.frame - q[i].framenum)
      BY <1>1, <1>4, <2>1, <2>4 DEF GameCommand
    <3>. QED BY <1>1, <1>4, <2>4, <3>1
  <2>. QED BY <2>3, <2>4
<1>. QED BY <1>5, <1>6 DEF Carries, q

\* A frame that comes in brings commands newer than all frames that came in before; in the
\* place of the one that waits there is never an older one.
LEMMA ParseOnce ==
  ASSUME Inv, OnceInv, CL_ParseFrame
  PROVE  OnceInv'
<1>1. PICK m : m = down[1] /\ m = Head(down)
  BY DEF CL_ParseFrame, Inv, DownInv
<1>2. /\ 1 \in 1 .. Len(down) /\ ValidFrame(m)
      /\ m.frame \in receivedSnapNum + 1 .. framenum /\ m.frame \in Nat \ {0}
      /\ receivedSnapNum \in Nat /\ framenum \in Nat /\ Slot(m.frame) \in Slots
  BY <1>1, Decodable, SlotFacts
<1>3. PICK cmds : cmds = NewCommands(m)
  OBVIOUS
<1>4. PICK e, w : backup' = [backup EXCEPT ![Slot(m.frame)] =
            [valid |-> TRUE, frame |-> m.frame, ents |-> e, cmds |-> cmds, world |-> w]]
  BY <1>1, <1>2, <1>3 DEF CL_ParseFrame
<1>5. /\ receivedSnapNum' = m.frame /\ down' = Tail(down)
      /\ UNCHANGED <<framenum, lastSentFrameNum, gameCommands, gameCommandCurrent,
                     pendingSnapNum, currentSnapNum, executed>>
  BY <1>1, <1>2 DEF CL_ParseFrame, serverVars, commandVars
<1>6. /\ Carries(cmds, m.frame)
      /\ \A i \in 1 .. Len(cmds) :
           Known(cmds[i]) /\ (receivedSnapNum > 0 => cmds[i].framenum > receivedSnapNum)
  BY <1>1, <1>3, NewFacts
<1>. DEFINE b == backup'[Slot(m.frame)]
<1>7. /\ b.frame = m.frame /\ b.cmds = cmds
      /\ \A s \in Slots : backup'[s] = b \/ (s # Slot(m.frame) /\ backup'[s] = backup[s])
      /\ \A s \in Slots : backup[s].frame \in 0 .. receivedSnapNum
  BY <1>2, <1>4 DEF Inv, RingInv
<1>. HIDE DEF b
<1>8. /\ Len(down') = Len(down) - 1 /\ Len(down) \in Nat
      /\ \A i \in 1 .. Len(down') : down'[i] = down[i + 1] /\ i + 1 \in 1 .. Len(down)
  <2>1. PICK S : down \in Seq(S)
    BY DEF Inv, DownInv
  <2>. QED BY <1>2, <1>5, <2>1
<1>9. \A c : Known(c)' => Known(c)
  <2>1. ASSUME NEW c, NEW i \in 1 .. Len(down'), NEW k \in 1 .. Len(down'[i].cmds),
               c = down'[i].cmds[k]
        PROVE  Known(c)
    BY <1>8, <2>1 DEF Known
  <2>2. ASSUME NEW c, NEW s \in Slots, NEW k \in 1 .. Len(backup'[s].cmds),
               c = backup'[s].cmds[k]
        PROVE  Known(c)
    <3>1. CASE backup'[s] = b
      BY <1>6, <1>7, <2>2, <3>1
    <3>2. CASE backup'[s] = backup[s]
      BY <2>2, <3>2 DEF Known
    <3>. QED BY <1>7, <3>1, <3>2
  <2>3. ASSUME NEW c, Known(c)' PROVE Known(c)
    <3>1. \/ \E i \in 0 .. MAX_RELIABLE_COMMANDS - 1 : c = gameCommands[i] /\ c.id # 0
          \/ \E i \in 1 .. Len(down') : \E k \in 1 .. Len(down'[i].cmds) : c = down'[i].cmds[k]
          \/ \E s \in Slots : \E k \in 1 .. Len(backup'[s].cmds) : c = backup'[s].cmds[k]
      BY <1>5, <2>3 DEF Known
    <3>2. CASE \E i \in 0 .. MAX_RELIABLE_COMMANDS - 1 : c = gameCommands[i] /\ c.id # 0
      BY <3>2 DEF Known
    <3>. QED BY <2>1, <2>2, <3>1, <3>2
  <2>. QED BY <2>3
<1>10. KeepInv' /\ KnownInv'
  BY <1>5, <1>9 DEF OnceInv, KeepInv, KnownInv
<1>11. currentSnapNum \in 0 .. receivedSnapNum /\ pendingSnapNum \in Nat
  BY DEF OnceInv, ShowInv
<1>12. ShowInv'
  <2>1. currentSnapNum \in 0 .. m.frame
    BY <1>2, <1>11
  <2>2. \A k \in 1 .. Len(executed) : executed[k].frame <= receivedSnapNum
    BY DEF OnceInv, ShowInv, ExecutedInv
  <2>3. executed \in Seq(Executed) /\ \A k \in 1 .. Len(executed) : executed[k].frame \in Nat
    <3>1. executed \in Seq(Executed)
      BY DEF OnceInv, ShowInv, ExecutedInv
    <3>2. \A k \in 1 .. Len(executed) : executed[k] \in Executed
      BY <3>1, ElementOfSeq
    <3>. QED BY <3>1, <3>2 DEF Executed
  <2>4. ExecutedInv'
    <3>1. \A k \in 1 .. Len(executed) : executed[k].frame <= m.frame
      BY <1>2, <2>2, <2>3
    <3>. QED BY <1>5, <3>1 DEF OnceInv, ShowInv, ExecutedInv
  <2>5. CommandsOnce'
    BY <1>5 DEF OnceInv, ShowInv, CommandsOnce
  <2>6. ASSUME pendingSnapNum # 0
        PROVE  /\ backup'[Slot(pendingSnapNum)].frame >= pendingSnapNum
               /\ \A k \in 1 .. Len(executed) :
                    executed[k].frame <= backup'[Slot(pendingSnapNum)].frame
    <3>. DEFINE s == Slot(pendingSnapNum)
    <3>1. /\ s \in Slots /\ backup[s].frame >= pendingSnapNum
          /\ \A k \in 1 .. Len(executed) : executed[k].frame <= backup[s].frame
      BY <1>11, <2>6, SlotFacts DEF OnceInv, ShowInv
    <3>. HIDE DEF s
    <3>2. CASE backup'[s] = b
      <4>1. backup[s].frame \in 0 .. receivedSnapNum
        BY <1>7, <3>1
      <4>2. m.frame >= pendingSnapNum
        BY <1>2, <1>11, <3>1, <4>1
      <4>3. \A k \in 1 .. Len(executed) : executed[k].frame <= m.frame
        BY <1>2, <2>2, <2>3
      <4>. QED BY <1>7, <3>2, <4>2, <4>3 DEF s
    <3>. QED BY <1>7, <3>1, <3>2 DEF s
  <2>. QED BY <1>5, <2>1, <2>4, <2>5, <2>6 DEF OnceInv, ShowInv
<1>13. CarryInv'
  <2>1. \A i \in 1 .. Len(down') : Carries(down'[i].cmds, down'[i].frame)
    BY <1>8 DEF OnceInv, CarryInv
  <2>2. \A s \in Slots : Carries(backup'[s].cmds, backup'[s].frame)
    BY <1>6, <1>7 DEF OnceInv, CarryInv
  <2>3. ASSUME NEW s \in Slots, NEW t \in Slots, 0 < backup'[t].frame,
               backup'[t].frame < backup'[s].frame, NEW k \in 1 .. Len(backup'[s].cmds)
        PROVE  backup'[s].cmds[k].framenum > backup'[t].frame
    <3>1. CASE backup'[t] = b
      <4>1. backup'[s].frame \in 0 .. m.frame
        BY <1>2, <1>7
      <4>. QED BY <1>2, <1>7, <2>3, <3>1, <4>1
    <3>2. CASE backup'[t] = backup[t] /\ backup'[s] = b
      <4>1. cmds[k].framenum > receivedSnapNum /\ cmds[k] \in GameCommand
        BY <1>2, <1>6, <1>7, <2>3, <3>2, ElementOfSeq DEF Carries
      <4>2. backup[t].frame \in 0 .. receivedSnapNum /\ backup'[s].cmds = cmds
        BY <1>7, <3>2
      <4>. QED BY <1>2, <3>2, <4>1, <4>2 DEF GameCommand
    <3>3. CASE backup'[t] = backup[t] /\ backup'[s] = backup[s]
      BY <2>3, <3>3 DEF OnceInv, CarryInv
    <3>. QED BY <1>7, <3>1, <3>2, <3>3
  <2>4. ASSUME NEW s \in Slots, NEW n \in 1 .. Len(executed),
               executed[n].frame < backup'[s].frame, NEW k \in 1 .. Len(backup'[s].cmds)
        PROVE  backup'[s].cmds[k].framenum > executed[n].frame
    <3>1. executed[n].frame \in Nat \ {0} /\ executed[n].frame <= receivedSnapNum
      <4>1. executed \in Seq(Executed)
        BY DEF OnceInv, ShowInv, ExecutedInv
      <4>2. executed[n] \in Executed
        BY <4>1, ElementOfSeq
      <4>. QED BY <4>2 DEF Executed, OnceInv, ShowInv, ExecutedInv
    <3>2. CASE backup'[s] = b
      <4>1. cmds[k].framenum > receivedSnapNum /\ cmds[k] \in GameCommand
        BY <1>2, <1>6, <1>7, <2>4, <3>1, <3>2, ElementOfSeq DEF Carries
      <4>. QED BY <1>2, <1>7, <3>1, <3>2, <4>1 DEF GameCommand
    <3>3. CASE backup'[s] = backup[s]
      BY <2>4, <3>3 DEF OnceInv, CarryInv
    <3>. QED BY <1>7, <3>2, <3>3
  <2>. QED BY <1>5, <2>1, <2>2, <2>3, <2>4 DEF CarryInv
<1>. QED BY <1>10, <1>12, <1>13 DEF OnceInv

\* Later than the frame that is shown is the one to be shown, and in its place there is
\* itself or a later one, and none from before those whose commands were executed.
LEMMA PendingFacts ==
  ASSUME Inv, OnceInv
  PROVE  /\ NextPending \in Nat
         /\ NextPending # 0 => /\ NextPending > currentSnapNum
                               /\ backup[Slot(NextPending)].frame >= NextPending
                               /\ \A k \in 1 .. Len(executed) :
                                    executed[k].frame <= backup[Slot(NextPending)].frame
<1>. DEFINE later == {i \in currentSnapNum + 1 .. receivedSnapNum :
                        backup[Slot(i)].valid /\ backup[Slot(i)].frame > currentSnapNum}
            best == CHOOSE i \in later : \A j \in later : j <= i
<1>1. /\ currentSnapNum \in Nat /\ receivedSnapNum \in Nat /\ pendingSnapNum \in Nat
      /\ pendingSnapNum # 0 => /\ pendingSnapNum > currentSnapNum
                               /\ backup[Slot(pendingSnapNum)].frame >= pendingSnapNum
                               /\ \A k \in 1 .. Len(executed) :
                                    executed[k].frame <= backup[Slot(pendingSnapNum)].frame
      /\ \A k \in 1 .. Len(executed) : executed[k].frame <= receivedSnapNum
  BY DEF OnceInv, ShowInv, ExecutedInv, Inv, Numbers
<1>2. CASE NextPending = pendingSnapNum
  BY <1>1, <1>2
<1>3. CASE NextPending # pendingSnapNum
  <2>1. later # {} /\ NextPending = backup[Slot(best)].frame
    BY <1>3 DEF NextPending
  <2>2. /\ receivedSnapNum \in currentSnapNum + 1 .. receivedSnapNum
        /\ backup[Slot(receivedSnapNum)].frame = receivedSnapNum
        /\ Slot(receivedSnapNum) \in Slots
    BY <1>1, <2>1, SlotFacts DEF Inv, RingInv
  <2>3. receivedSnapNum \in later /\ \A j \in later : j <= receivedSnapNum
    BY <1>1, <2>2 DEF Inv, RingInv
  <2>4. best \in later /\ \A j \in later : j <= best
    <3>. HIDE DEF later
    <3>. QED BY <2>3
  <2>. HIDE DEF best
  <2>5. best = receivedSnapNum
    BY <1>1, <2>3, <2>4
  <2>. QED BY <1>1, <2>1, <2>2, <2>5
<1>. QED BY <1>2, <1>3

\* The commands of a frame come after all that were executed from earlier ones, and before
\* those of frames to come; from the same one they were executed for an earlier one only.
LEMMA FrameOnce ==
  ASSUME Inv, OnceInv, NEW reached \in BOOLEAN, CL_Frame(reached)
  PROVE  OnceInv'
<1>1. PICK p : p = NextPending
  OBVIOUS
<1>. DEFINE snap == backup[Slot(p)]
            cmds == snap.cmds
            f == snap.frame
            fire == p # 0 /\ reached /\ precacheDone /\ snap.valid
            new == [i \in DOMAIN cmds |-> [id |-> cmds[i].id, shown |-> p, frame |-> f]]
<1>2. /\ pendingSnapNum' = IF fire THEN 0 ELSE p
      /\ currentSnapNum' = IF fire THEN p ELSE currentSnapNum
      /\ executed' = IF fire THEN executed \o new ELSE executed
      /\ UNCHANGED <<framenum, lastSentFrameNum, gameCommands, gameCommandCurrent, down, backup,
                     receivedSnapNum>>
  BY <1>1 DEF CL_Frame, serverVars, commandVars
<1>3. /\ p \in Nat /\ currentSnapNum \in Nat /\ receivedSnapNum \in Nat
      /\ currentSnapNum \in 0 .. receivedSnapNum /\ Slot(p) \in Slots
      /\ p # 0 => /\ p > currentSnapNum /\ f >= p
                  /\ \A k \in 1 .. Len(executed) : executed[k].frame <= f
  BY <1>1, PendingFacts, SlotFacts DEF OnceInv, ShowInv, Inv, Numbers
<1>4. \A c : Known(c)' <=> Known(c)
  BY <1>2 DEF Known
<1>5. KeepInv'
  BY <1>2 DEF OnceInv, KeepInv
<1>6. CASE ~fire
  <2>1. ShowInv'
    BY <1>2, <1>3, <1>6 DEF OnceInv, ShowInv, ExecutedInv, CommandsOnce
  <2>2. KnownInv' /\ CarryInv'
    BY <1>2, <1>4, <1>6 DEF OnceInv, KnownInv, CarryInv, Carries
  <2>. QED BY <1>5, <2>1, <2>2 DEF OnceInv
<1>7. CASE fire
  <2>1. /\ p # 0 /\ p > currentSnapNum /\ f >= p /\ f \in 0 .. receivedSnapNum
        /\ f \in Nat \ {0} /\ p <= receivedSnapNum
        /\ \A k \in 1 .. Len(executed) : executed[k].frame <= f
    <3>1. f \in 0 .. receivedSnapNum
      BY <1>3 DEF Inv, RingInv
    <3>. QED BY <1>3, <1>7, <3>1
  <2>2. /\ cmds \in Seq(GameCommand) /\ Ascending(cmds)
        /\ \A k \in 1 .. Len(cmds) : cmds[k] \in GameCommand /\ cmds[k].framenum <= f /\ Known(cmds[k])
        /\ \A n \in 1 .. Len(executed) : executed[n].frame < f =>
             \A k \in 1 .. Len(cmds) : cmds[k].framenum > executed[n].frame
    <3>1. Carries(cmds, f)
      BY <1>3 DEF OnceInv, CarryInv
    <3>2. \A k \in 1 .. Len(cmds) : Known(cmds[k])
      BY <1>3 DEF Known
    <3>3. \A n \in 1 .. Len(executed) : executed[n].frame < f =>
             \A k \in 1 .. Len(cmds) : cmds[k].framenum > executed[n].frame
      BY <1>3 DEF OnceInv, CarryInv
    <3>4. cmds \in Seq(GameCommand) /\ \A k \in 1 .. Len(cmds) : cmds[k] \in GameCommand
      BY <3>1, ElementOfSeq DEF Carries
    <3>. QED BY <3>1, <3>2, <3>3, <3>4 DEF Carries
  <2>3. \A s \in Slots : f < backup[s].frame =>
          \A k \in 1 .. Len(backup[s].cmds) : backup[s].cmds[k].framenum > f
    BY <1>3, <2>1 DEF OnceInv, CarryInv
  <2>. HIDE DEF snap, fire, f
  <2>4. /\ executed \in Seq(Executed) /\ Len(executed) \in Nat /\ Len(cmds) \in Nat
        /\ \A k \in 1 .. Len(executed) :
             /\ executed[k].id \in Nat /\ executed[k].shown \in Nat /\ executed[k].frame \in Nat
             /\ executed[k].id <= gameCommandCurrent /\ executed[k].id >= 1
             /\ executed[k].shown <= currentSnapNum
             /\ executed[k].shown <= executed[k].frame
    <3>1. Len(cmds) \in Nat
      <4>. HIDE DEF cmds
      <4>. QED BY <2>2
    <3>2. executed \in Seq(Executed)
      BY DEF OnceInv, ShowInv, ExecutedInv
    <3>3. \A k \in 1 .. Len(executed) : executed[k] \in Executed
      BY <3>2, ElementOfSeq
    <3>4. gameCommandCurrent \in Nat
      BY DEF OnceInv, KeepInv
    <3>. QED BY <3>1, <3>2, <3>3, <3>4 DEF Executed, OnceInv, ShowInv, ExecutedInv
  <2>5. /\ new \in Seq(Executed) /\ Len(new) = Len(cmds)
        /\ \A k \in 1 .. Len(cmds) : new[k] = [id |-> cmds[k].id, shown |-> p, frame |-> f]
    <3>1. DOMAIN cmds = 1 .. Len(cmds) /\ \A k \in 1 .. Len(cmds) : cmds[k].id \in Nat
      BY <2>2 DEF GameCommand
    <3>. HIDE DEF cmds
    <3>2. \A k \in 1 .. Len(cmds) : [id |-> cmds[k].id, shown |-> p, frame |-> f] \in Executed
      BY <1>3, <2>1, <3>1 DEF Executed
    <3>. QED BY <2>4, <3>1, <3>2, SeqDef
  <2>. HIDE DEF new, cmds
  <2>. DEFINE ex == executed \o new
              n == Len(executed)
  <2>6. /\ ex \in Seq(Executed) /\ Len(ex) = n + Len(cmds) /\ executed' = ex
        /\ \A k \in 1 .. Len(ex) :
             \/ k \in 1 .. n /\ ex[k] = executed[k]
             \/ /\ k - n \in 1 .. Len(cmds) /\ k > n
                /\ ex[k] = [id |-> cmds[k - n].id, shown |-> p, frame |-> f]
    <3>1. executed' = ex
      BY <1>2, <1>7
    <3>2. ex \in Seq(Executed) /\ Len(ex) = n + Len(cmds)
      <4>1. executed \in Seq(Executed) /\ new \in Seq(Executed)
        BY <2>4, <2>5
      <4>2. executed \o new \in Seq(Executed) /\ Len(executed \o new) = Len(executed) + Len(new)
        BY ONLY <4>1, ConcatProperties
      <4>. QED BY <2>5, <4>2
    <3>3. ASSUME NEW k \in 1 .. n PROVE ex[k] = executed[k]
      BY <2>4, <2>5
    <3>4. ASSUME NEW k \in 1 .. Len(ex), k \notin 1 .. n
          PROVE  /\ k - n \in 1 .. Len(cmds) /\ k > n
                 /\ ex[k] = [id |-> cmds[k - n].id, shown |-> p, frame |-> f]
      <4>1. k - n \in 1 .. Len(cmds) /\ k \in n + 1 .. n + Len(new)
        BY <2>4, <2>5, <3>2, <3>4
      <4>2. ex[k] = new[k - n]
        BY <2>4, <2>5, <4>1
      <4>. QED BY <2>4, <2>5, <4>1, <4>2
    <3>. HIDE DEF ex
    <3>. QED BY <3>1, <3>2, <3>3, <3>4
  <2>. HIDE DEF ex
  <2>7. ASSUME NEW i \in 1 .. n, NEW k \in 1 .. Len(cmds)
        PROVE  \/ executed[i].id < cmds[k].id
               \/ executed[i].frame = f /\ executed[i].shown < f /\ executed[i].shown < p
    <3>1. CASE executed[i].frame < f
      BY <2>2, <3>1 DEF OnceInv, KnownInv
    <3>2. CASE executed[i].frame = f
      BY <1>3, <2>1, <2>4, <3>2
    <3>. QED BY <2>1, <2>4, <3>1, <3>2
  <2>8. \A k \in 1 .. Len(cmds) : cmds[k].id \in 1 .. gameCommandCurrent
    BY <2>2 DEF OnceInv, KnownInv
  <2>9. ShowInv'
    <3>1. ASSUME NEW k \in 1 .. Len(ex)
          PROVE  /\ ex[k].id \in 1 .. gameCommandCurrent /\ ex[k].shown <= p
                 /\ ex[k].shown <= ex[k].frame /\ ex[k].frame <= receivedSnapNum
      <4>1. CASE k \in 1 .. n /\ ex[k] = executed[k]
        <5>1. executed[k].id \in 1 .. gameCommandCurrent /\ executed[k].frame <= receivedSnapNum
          BY <4>1 DEF OnceInv, ShowInv, ExecutedInv
        <5>. QED BY <1>3, <2>1, <2>4, <4>1, <5>1
      <4>2. CASE /\ k - n \in 1 .. Len(cmds)
                 /\ ex[k] = [id |-> cmds[k - n].id, shown |-> p, frame |-> f]
        BY <1>3, <2>1, <2>8, <4>2
      <4>. QED BY <2>6, <4>1, <4>2
    <3>2. ASSUME NEW i \in 1 .. Len(ex), NEW j \in 1 .. Len(ex), i < j
          PROVE  \/ ex[i].id < ex[j].id
                 \/ /\ ex[i].frame = ex[j].frame /\ ex[i].shown < ex[i].frame
                    /\ ex[i].shown < ex[j].shown
      <4>1. CASE i \in 1 .. n /\ ex[i] = executed[i] /\ j \in 1 .. n /\ ex[j] = executed[j]
        <5>1. DOMAIN executed = 1 .. n
          BY <2>4
        <5>. QED BY <3>2, <4>1, <5>1 DEF OnceInv, ShowInv, CommandsOnce
      <4>2. CASE /\ i \in 1 .. n /\ ex[i] = executed[i] /\ j - n \in 1 .. Len(cmds)
                 /\ ex[j] = [id |-> cmds[j - n].id, shown |-> p, frame |-> f]
        BY <2>7, <4>2
      <4>3. CASE /\ i - n \in 1 .. Len(cmds) /\ j - n \in 1 .. Len(cmds)
                 /\ ex[i] = [id |-> cmds[i - n].id, shown |-> p, frame |-> f]
                 /\ ex[j] = [id |-> cmds[j - n].id, shown |-> p, frame |-> f]
        <5>1. i - n < j - n
          BY <2>4, <2>6, <3>2
        <5>2. cmds[i - n].id < cmds[j - n].id
          BY <2>2, <4>3, <5>1 DEF Ascending
        <5>. QED BY <4>3, <5>2
      <4>4. ~(i > n /\ j \in 1 .. n)
        BY <2>4, <2>6, <3>2
      <4>. QED BY <2>6, <4>1, <4>2, <4>3, <4>4
    <3>3. ExecutedInv'
      BY <1>2, <1>7, <2>6, <3>1 DEF ExecutedInv
    <3>4. CommandsOnce'
      <4>1. DOMAIN ex = 1 .. Len(ex)
        BY <2>6
      <4>. QED BY <2>6, <3>2, <4>1 DEF CommandsOnce
    <3>5. p \in 0 .. receivedSnapNum
      BY <1>3, <2>1
    <3>. QED BY <1>2, <1>7, <3>3, <3>4, <3>5 DEF ShowInv
  <2>10. KnownInv'
    <3>1. ASSUME NEW c, Known(c), NEW k \in 1 .. Len(ex), c.framenum > ex[k].frame
          PROVE  ex[k].id < c.id
      <4>1. /\ c.framenum \in Nat /\ c.id \in Int
        BY <3>1 DEF OnceInv, KnownInv
      <4>2. CASE k \in 1 .. n /\ ex[k] = executed[k]
        BY <3>1, <4>2 DEF OnceInv, KnownInv
      <4>3. CASE k - n \in 1 .. Len(cmds) /\ ex[k] = [id |-> cmds[k - n].id, shown |-> p, frame |-> f]
        <5>. DEFINE d == cmds[k - n]
        <5>1. Known(d) /\ d.framenum \in Nat /\ d.id \in Nat /\ d.framenum <= f
          BY <2>2, <4>3 DEF GameCommand
        <5>2. ~(c.framenum <= d.framenum)
          BY <2>1, <3>1, <4>1, <4>3, <5>1
        <5>. HIDE DEF d
        <5>3. ~(c.id <= d.id)
          BY <3>1, <5>1, <5>2 DEF OnceInv, KnownInv
        <5>. QED BY <4>1, <4>3, <5>1, <5>3 DEF d
      <4>. QED BY <2>6, <4>2, <4>3
    <3>. QED BY <1>2, <1>4, <1>7, <2>6, <3>1 DEF OnceInv, KnownInv
  <2>11. CarryInv'
    <3>1. ASSUME NEW s \in Slots, NEW k \in 1 .. Len(ex), ex[k].frame < backup[s].frame,
                 NEW i \in 1 .. Len(backup[s].cmds)
          PROVE  backup[s].cmds[i].framenum > ex[k].frame
      <4>1. CASE k \in 1 .. n /\ ex[k] = executed[k]
        BY <3>1, <4>1 DEF OnceInv, CarryInv
      <4>2. CASE ex[k] = [id |-> cmds[k - n].id, shown |-> p, frame |-> f]
        BY <2>3, <3>1, <4>2
      <4>. QED BY <2>6, <4>1, <4>2
    <3>. QED BY <1>2, <1>7, <2>6, <3>1 DEF OnceInv, CarryInv, Carries
  <2>. QED BY <1>5, <2>9, <2>10, <2>11 DEF OnceInv
<1>. QED BY <1>6, <1>7

\* What commands are known, carried and executed: the invariant.
THEOREM CommandInvariance == Spec => []OnceInv
<1>1. Init => OnceInv
  <2>1. SUFFICES ASSUME Init PROVE OnceInv
    OBVIOUS
  <2>2. /\ MAX_RELIABLE_COMMANDS \in Nat \ {0}
        /\ \A j \in Int : j % MAX_RELIABLE_COMMANDS \in 0 .. MAX_RELIABLE_COMMANDS - 1
    BY SizesAssumption, Remainder
  <2>3. KeepInv
    <3>1. /\ gameCommandCurrent = 0 /\ lastSentFrameNum = framenum
          /\ gameCommands = [i \in 0 .. MAX_RELIABLE_COMMANDS - 1 |-> NoCommand]
      BY <2>1 DEF Init
    <3>2. NoCommand \in [id : Nat, framenum : Nat] /\ NoCommand.id = 0
      BY DEF NoCommand
    <3>. HIDE DEF NoCommand
    <3>3. gameCommands \in [0 .. MAX_RELIABLE_COMMANDS - 1 -> [id : Nat, framenum : Nat]]
      BY <3>1, <3>2
    <3>4. \A j \in Int : gameCommands[j % MAX_RELIABLE_COMMANDS].id = 0
      BY <2>2, <3>1, <3>2
    <3>5. \A j \in Int : 0 - MAX_RELIABLE_COMMANDS < j /\ j <= 0 =>
            gameCommands[j % MAX_RELIABLE_COMMANDS].id = IF j >= 1 THEN j ELSE 0
      BY <3>4
    <3>. QED BY <3>1, <3>3, <3>5 DEF KeepInv
  <2>4. \A c : ~Known(c)
    BY <2>1 DEF Init, Known, NoCommand, NoFrame
  <2>5. CarryInv
    <3>1. down = <<>> /\ \A s \in Slots : backup[s] = NoFrame
      BY <2>1 DEF Init
    <3>2. NoFrame.frame = 0 /\ NoFrame.cmds = <<>>
      BY DEF NoFrame
    <3>3. Carries(<<>>, 0) /\ Len(down) = 0
      BY <3>1 DEF Carries, Ascending
    <3>. QED BY <2>1, <3>1, <3>2, <3>3 DEF CarryInv, Init
  <2>6. ShowInv
    BY <2>1 DEF Init, ShowInv, ExecutedInv, CommandsOnce
  <2>. QED BY <2>3, <2>4, <2>5, <2>6 DEF OnceInv, KnownInv
<1>2. Inv /\ OnceInv /\ [Next]_vars => OnceInv'
  <2>1. SUFFICES ASSUME Inv, OnceInv, [Next]_vars PROVE OnceInv'
    OBVIOUS
  <2>2. CASE SV_NoDelta_f \/ SV_ParseMoveCommand \/ CG_Precache \/ CL_WriteUcmdsToMessage
             \/ UNCHANGED vars
    <3>1. UNCHANGED commandState
      BY <2>2 DEF SV_NoDelta_f, SV_ParseMoveCommand, CG_Precache, CL_WriteUcmdsToMessage, vars,
                  serverVars, commandVars, clientVars, commandState
    <3>. QED BY <2>1, <3>1, CommandStutter
  <2>3. CASE SV_AddGameCommand
    BY <2>1, <2>3, AddOnce
  <2>4. CASE \E w \in Worlds, sh \in SUBSET Shadowable, taken \in OtherTakes,
               unfit \in (IF Flood THEN SUBSET (1 .. gameCommandCurrent) ELSE {{}}),
               lost \in BOOLEAN : SV_SendClientDatagram(w, sh, taken, unfit, lost)
    BY <2>1, <2>4, SendOnce
  <2>5. CASE CL_ParseFrame
    BY <2>1, <2>5, ParseOnce
  <2>6. CASE \E reached \in BOOLEAN : CL_Frame(reached)
    BY <2>1, <2>6, FrameOnce
  <2>. QED BY <2>1, <2>2, <2>3, <2>4, <2>5, <2>6 DEF Next
<1>. QED BY <1>1, <1>2, Invariance, PTL DEF Spec

\* Game commands are executed once and in the order in which they were given, however many
\* frames and acknowledgements are lost, except that those of a frame that came in over one
\* that waited, and was shown in its place, are executed again when it is shown itself.
THEOREM Once == Spec => []CommandsOnce
<1>1. OnceInv => CommandsOnce
  BY DEF OnceInv, ShowInv
<1>. QED BY CommandInvariance, <1>1, PTL

-----------------------------------------------------------------------------
(* What deltas of lists of entities do *)

\* States of the loops over two lists.
Merges(p, q) == [o : 1 .. Len(p) + 1, n : 1 .. Len(q) + 1, out : Seq(Entity)]

\* Numbers of entities, and the one that stands for the end of a list.
LEMMA EntityFacts ==
  /\ NumEnts \in Nat \ {0} /\ Ents = 1 .. NumEnts
  /\ \A n \in Ents \cup {0} : n \in Nat /\ n < None
  /\ None \in Nat
<1>1. NumEnts \in 1 .. None - 1 /\ None \in Nat
  BY SizesAssumption DEF None
<1>2. NumEnts \in Nat \ {0} /\ Ents = 1 .. NumEnts
  BY <1>1 DEF Ents
<1>3. \A n \in 1 .. NumEnts : n \in Nat /\ n < None
  BY <1>1
<1>4. 0 < None
  BY DEF None
<1>. QED BY <1>1, <1>2, <1>3, <1>4

\* What is next in a list.
LEMMA NumberAtFacts ==
  ASSUME NEW p \in Seq(Entity), NEW o \in 1 .. Len(p) + 1
  PROVE  /\ NumberAt(p, o) \in Nat
         /\ o <= Len(p) => /\ NumberAt(p, o) = p[o].number /\ NumberAt(p, o) < None
                           /\ p[o] \in Entity /\ NumberAt(p, o) \in Ents \cup {0}
         /\ o > Len(p) => NumberAt(p, o) = None /\ o = Len(p) + 1
<1>1. Len(p) \in Nat
  OBVIOUS
<1>2. CASE o <= Len(p)
  <2>1. o \in 1 .. Len(p)
    BY <1>1, <1>2
  <2>2. p[o] \in Entity
    BY <2>1, ElementOfSeq
  <2>3. p[o].number \in Ents \cup {0}
    BY <2>2 DEF Entity
  <2>4. NumberAt(p, o) = p[o].number /\ ~(o > Len(p))
    BY <1>1, <1>2 DEF NumberAt
  <2>5. p[o].number \in Nat /\ p[o].number < None
    BY <2>3, EntityFacts
  <2>. QED BY ONLY <2>2, <2>3, <2>4, <2>5
<1>3. CASE o > Len(p)
  BY <1>1, <1>3, EntityFacts DEF NumberAt
<1>. QED BY <1>1, <1>2, <1>3

\* A turn of either loop.
LEMMA EmitStays ==
  ASSUME NEW p \in Seq(Entity), NEW q \in Seq(Entity), NEW sh, NEW t \in Merges(p, q)
  PROVE  EmitTurn(p, q, sh, t) \in Merges(p, q)
<1>. DEFINE x == NumberAt(p, t.o)
            y == NumberAt(q, t.n)
            new == Sent(q[t.n], sh)
<1>1. /\ t.o \in 1 .. Len(p) + 1 /\ t.n \in 1 .. Len(q) + 1 /\ t.out \in Seq(Entity)
      /\ t = [o |-> t.o, n |-> t.n, out |-> t.out] /\ Len(p) \in Nat /\ Len(q) \in Nat
  BY DEF Merges
<1>2. /\ x \in Nat
      /\ t.o <= Len(p) => x < None /\ x \in Ents \cup {0}
      /\ t.o > Len(p) => x = None
  BY <1>1, NumberAtFacts
<1>3. /\ y \in Nat
      /\ t.n <= Len(q) => y < None
      /\ t.n > Len(q) => y = None
  BY <1>1, NumberAtFacts
<1>4. t.n <= Len(q) => new \in Entity
  <2>1. SUFFICES ASSUME t.n <= Len(q) PROVE new \in Entity
    OBVIOUS
  <2>2. q[t.n] \in Entity
    BY <1>1, <2>1, NumberAtFacts
  <2>. QED BY <2>2 DEF Entity, Sent
<1>. HIDE DEF x, y, new
<1>5. CASE t.n > Len(q) /\ t.o > Len(p)
  BY <1>5 DEF EmitTurn
<1>6. CASE ~(t.n > Len(q) /\ t.o > Len(p)) /\ y = x
  <2>1. t.n <= Len(q) /\ t.o <= Len(p)
    BY <1>1, <1>2, <1>3, <1>6, EntityFacts
  <2>2. EmitTurn(p, q, sh, t) = [o |-> t.o + 1, n |-> t.n + 1,
                                 out |-> IF new = p[t.o] THEN t.out ELSE Append(t.out, new)]
    BY <1>6 DEF EmitTurn, x, y, new
  <2>3. (IF new = p[t.o] THEN t.out ELSE Append(t.out, new)) \in Seq(Entity)
    BY <1>1, <1>4, <2>1, AppendProperties
  <2>. QED BY <1>1, <2>1, <2>2, <2>3 DEF Merges
<1>7. CASE ~(t.n > Len(q) /\ t.o > Len(p)) /\ y < x
  <2>1. t.n <= Len(q)
    BY <1>1, <1>2, <1>3, <1>7, EntityFacts
  <2>2. EmitTurn(p, q, sh, t) = [o |-> t.o, n |-> t.n + 1, out |-> Append(t.out, new)]
    <3>1. y # x
      BY <1>2, <1>3, <1>7
    <3>. QED BY <1>1, <1>7, <3>1 DEF EmitTurn, x, y, new
  <2>3. Append(t.out, new) \in Seq(Entity)
    BY <1>1, <1>4, <2>1, AppendProperties
  <2>. QED BY <1>1, <2>1, <2>2, <2>3 DEF Merges
<1>8. CASE ~(t.n > Len(q) /\ t.o > Len(p)) /\ x < y
  <2>1. t.o <= Len(p)
    BY <1>1, <1>2, <1>3, <1>8, EntityFacts
  <2>. DEFINE e == [number |-> x, val |-> Gone]
  <2>2. EmitTurn(p, q, sh, t) = [o |-> t.o + 1, n |-> t.n, out |-> Append(t.out, e)]
    <3>1. y # x /\ ~(y < x)
      BY <1>2, <1>3, <1>8
    <3>. QED BY <1>1, <1>8, <3>1 DEF EmitTurn, x, y
  <2>3. e \in Entity
    BY <1>2, <2>1 DEF Entity
  <2>. HIDE DEF e
  <2>4. Append(t.out, e) \in Seq(Entity)
    BY <1>1, <2>3, AppendProperties
  <2>. QED BY <1>1, <2>1, <2>2, <2>4 DEF Merges
<1>. QED BY <1>2, <1>3, <1>5, <1>6, <1>7, <1>8

\* A turn of the reader's loop.
LEMMA ParseStays ==
  ASSUME NEW p \in Seq(Entity), NEW q \in Seq(Entity), NEW t \in Merges(p, q)
  PROVE  ParseTurn(p, q, t) \in Merges(p, q)
<1>. DEFINE x == NumberAt(p, t.o)
            y == NumberAt(q, t.n)
<1>1. /\ t.o \in 1 .. Len(p) + 1 /\ t.n \in 1 .. Len(q) + 1 /\ t.out \in Seq(Entity)
      /\ t = [o |-> t.o, n |-> t.n, out |-> t.out] /\ Len(p) \in Nat /\ Len(q) \in Nat
  BY DEF Merges
<1>2. /\ x \in Nat
      /\ t.o <= Len(p) => x < None /\ p[t.o] \in Entity
      /\ t.o > Len(p) => x = None
  BY <1>1, NumberAtFacts
<1>3. /\ y \in Nat
      /\ t.n <= Len(q) => y < None /\ q[t.n] \in Entity
      /\ t.n > Len(q) => y = None
  BY <1>1, NumberAtFacts
<1>. HIDE DEF x, y
<1>5. CASE t.n > Len(q) /\ t.o > Len(p)
  BY <1>5 DEF ParseTurn
<1>6. CASE ~(t.n > Len(q) /\ t.o > Len(p)) /\ x < y
  <2>1. t.o <= Len(p)
    BY <1>1, <1>2, <1>3, <1>6, EntityFacts
  <2>2. ParseTurn(p, q, t) = [o |-> t.o + 1, n |-> t.n, out |-> Append(t.out, p[t.o])]
    BY <1>1, <1>6 DEF ParseTurn, x, y
  <2>3. Append(t.out, p[t.o]) \in Seq(Entity)
    BY <1>1, <1>2, <2>1, AppendProperties
  <2>. QED BY <1>1, <2>1, <2>2, <2>3 DEF Merges
<1>7. CASE ~(t.n > Len(q) /\ t.o > Len(p)) /\ ~(x < y)
  <2>1. t.n <= Len(q) /\ (x = y => t.o <= Len(p))
    BY <1>1, <1>2, <1>3, <1>7, EntityFacts
  <2>2. ParseTurn(p, q, t) = [o |-> IF x = y THEN t.o + 1 ELSE t.o, n |-> t.n + 1,
                              out |-> IF q[t.n].val = Gone THEN t.out ELSE Append(t.out, q[t.n])]
    BY <1>7 DEF ParseTurn, x, y
  <2>3. (IF q[t.n].val = Gone THEN t.out ELSE Append(t.out, q[t.n])) \in Seq(Entity)
    BY <1>1, <1>3, <2>1, AppendProperties
  <2>4. (IF x = y THEN t.o + 1 ELSE t.o) \in 1 .. Len(p) + 1
    BY <1>1, <2>1
  <2>. QED BY <1>1, <2>1, <2>2, <2>3, <2>4 DEF Merges
<1>. QED BY <1>5, <1>6, <1>7

\* The loops, turn by turn.
EmitRun(f, p, q, sh) ==
  /\ f[0] = [o |-> 1, n |-> 1, out |-> <<>>]
  /\ \A k \in 1 .. Len(p) + Len(q) : f[k] = EmitTurn(p, q, sh, f[k - 1])
  /\ \A k \in 0 .. Len(p) + Len(q) : f[k] \in Merges(p, q)
  /\ f[Len(p) + Len(q)].out = SNAP_EmitPacketEntities(p, q, sh)

ParseRun(f, p, q) ==
  /\ f[0] = [o |-> 1, n |-> 1, out |-> <<>>]
  /\ \A k \in 1 .. Len(p) + Len(q) : f[k] = ParseTurn(p, q, f[k - 1])
  /\ \A k \in 0 .. Len(p) + Len(q) : f[k] \in Merges(p, q)
  /\ f[Len(p) + Len(q)].out = SNAP_ParsePacketEntities(p, q)

\* SNAP_EmitPacketEntities, turn by turn.
LEMMA EmitIs ==
  ASSUME NEW p \in Seq(Entity), NEW q \in Seq(Entity), NEW sh
  PROVE  \E f : EmitRun(f, p, q, sh)
<1>. DEFINE N == Len(p) + Len(q)
            X == Merges(p, q)
            start == [o |-> 1, n |-> 1, out |-> <<>>]
            step == [k \in 1 .. N |-> [t \in X |-> EmitTurn(p, q, sh, t)]]
            Is(f) == f = [k \in 0 .. N |-> IF k = 0 THEN start ELSE EmitTurn(p, q, sh, f[k - 1])]
            turn == CHOOSE f : Is(f)
<1>1. N \in Nat /\ start \in X /\ step \in [1 .. N -> [X -> X]]
  <2>1. start \in X
    BY DEF Merges
  <2>2. \A t \in X : EmitTurn(p, q, sh, t) \in X
    BY EmitStays
  <2>. HIDE DEF X, start
  <2>. QED BY <2>1, <2>2
<1>2. PICK f : Runs(f, N, X, start, step)
  <2>. HIDE DEF N, X, step, start
  <2>. QED BY <1>1, Iterate
<1>. HIDE DEF X, start
<1>3. \E g : Is(g)
  <2>1. ASSUME NEW k \in 0 .. N
        PROVE  f[k] = IF k = 0 THEN start ELSE EmitTurn(p, q, sh, f[k - 1])
    <3>1. k # 0 => k \in 1 .. N /\ k - 1 \in 0 .. N
      BY <1>1
    <3>2. CASE k # 0
      <4>1. f[k - 1] \in X /\ f[k] = step[k][f[k - 1]]
        BY <1>2, <3>1, <3>2 DEF Runs
      <4>. QED BY <3>1, <3>2, <4>1
    <3>3. f[0] = start
      BY <1>2 DEF Runs
    <3>. QED BY <3>2, <3>3
  <2>2. f = [k \in 0 .. N |-> f[k]]
    BY <1>2 DEF Runs
  <2>. QED BY <2>1, <2>2
<1>4. Is(turn)
  BY <1>3
<1>5. turn[N].out = SNAP_EmitPacketEntities(p, q, sh)
  BY DEF SNAP_EmitPacketEntities, start
<1>. HIDE DEF turn
<1>6. turn[0] = start
  BY <1>1, <1>4
<1>7. ASSUME NEW k \in 1 .. N PROVE turn[k] = EmitTurn(p, q, sh, turn[k - 1])
  <2>1. k \in 0 .. N /\ k # 0
    BY <1>1
  <2>. QED BY <1>4, <2>1
<1>8. \A k \in 0 .. N : turn[k] \in X
  <2>. DEFINE P == [k \in 0 .. N |-> X]
  <2>1. turn[0] \in P[0]
    BY <1>1, <1>6
  <2>2. ASSUME NEW k \in 1 .. N, turn[k - 1] \in P[k - 1] PROVE turn[k] \in P[k]
    <3>1. k \in 0 .. N /\ k - 1 \in 0 .. N
      BY <1>1
    <3>2. turn[k - 1] \in X
      BY <2>2, <3>1
    <3>. QED BY <1>7, <3>1, <3>2, EmitStays DEF X
  <2>3. \A k \in 0 .. N : turn[k] \in P[k]
    <3>. HIDE DEF P, N
    <3>. QED BY <1>1, <2>1, <2>2, Through
  <2>. QED BY <2>3
<1>. QED BY <1>5, <1>6, <1>7, <1>8 DEF start, X, EmitRun

\* SNAP_ParsePacketEntities, turn by turn.
LEMMA ParseIs ==
  ASSUME NEW p \in Seq(Entity), NEW q \in Seq(Entity)
  PROVE  \E f : ParseRun(f, p, q)
<1>. DEFINE N == Len(p) + Len(q)
            X == Merges(p, q)
            start == [o |-> 1, n |-> 1, out |-> <<>>]
            step == [k \in 1 .. N |-> [t \in X |-> ParseTurn(p, q, t)]]
            Is(f) == f = [k \in 0 .. N |-> IF k = 0 THEN start ELSE ParseTurn(p, q, f[k - 1])]
            turn == CHOOSE f : Is(f)
<1>1. N \in Nat /\ start \in X /\ step \in [1 .. N -> [X -> X]]
  <2>1. start \in X
    BY DEF Merges
  <2>2. \A t \in X : ParseTurn(p, q, t) \in X
    BY ParseStays
  <2>. HIDE DEF X, start
  <2>. QED BY <2>1, <2>2
<1>2. PICK f : Runs(f, N, X, start, step)
  <2>. HIDE DEF N, X, step, start
  <2>. QED BY <1>1, Iterate
<1>. HIDE DEF X, start
<1>3. \E g : Is(g)
  <2>1. ASSUME NEW k \in 0 .. N
        PROVE  f[k] = IF k = 0 THEN start ELSE ParseTurn(p, q, f[k - 1])
    <3>1. k # 0 => k \in 1 .. N /\ k - 1 \in 0 .. N
      BY <1>1
    <3>2. CASE k # 0
      <4>1. f[k - 1] \in X /\ f[k] = step[k][f[k - 1]]
        BY <1>2, <3>1, <3>2 DEF Runs
      <4>. QED BY <3>1, <3>2, <4>1
    <3>3. f[0] = start
      BY <1>2 DEF Runs
    <3>. QED BY <3>2, <3>3
  <2>2. f = [k \in 0 .. N |-> f[k]]
    BY <1>2 DEF Runs
  <2>. QED BY <2>1, <2>2
<1>4. Is(turn)
  BY <1>3
<1>5. turn[N].out = SNAP_ParsePacketEntities(p, q)
  BY DEF SNAP_ParsePacketEntities, start
<1>. HIDE DEF turn
<1>6. turn[0] = start
  BY <1>1, <1>4
<1>7. ASSUME NEW k \in 1 .. N PROVE turn[k] = ParseTurn(p, q, turn[k - 1])
  <2>1. k \in 0 .. N /\ k # 0
    BY <1>1
  <2>. QED BY <1>4, <2>1
<1>8. \A k \in 0 .. N : turn[k] \in X
  <2>. DEFINE P == [k \in 0 .. N |-> X]
  <2>1. turn[0] \in P[0]
    BY <1>1, <1>6
  <2>2. ASSUME NEW k \in 1 .. N, turn[k - 1] \in P[k - 1] PROVE turn[k] \in P[k]
    <3>1. k \in 0 .. N /\ k - 1 \in 0 .. N
      BY <1>1
    <3>2. turn[k - 1] \in X
      BY <2>2, <3>1
    <3>. QED BY <1>7, <3>1, <3>2, ParseStays DEF X
  <2>3. \A k \in 0 .. N : turn[k] \in P[k]
    <3>. HIDE DEF P, N
    <3>. QED BY <1>1, <2>1, <2>2, Through
  <2>. QED BY <2>3
<1>. QED BY <1>5, <1>6, <1>7, <1>8 DEF start, X, ParseRun

\* What comes of either is a list of entities.
LEMMA DeltaTypes ==
  ASSUME NEW p \in Seq(Entity), NEW q \in Seq(Entity), NEW sh
  PROVE  /\ SNAP_EmitPacketEntities(p, q, sh) \in Seq(Entity)
         /\ SNAP_ParsePacketEntities(p, q) \in Seq(Entity)
<1>1. Len(p) + Len(q) \in 0 .. Len(p) + Len(q)
  OBVIOUS
<1>2. SNAP_EmitPacketEntities(p, q, sh) \in Seq(Entity)
  BY <1>1, EmitIs DEF Merges, EmitRun
<1>3. SNAP_ParsePacketEntities(p, q) \in Seq(Entity)
  BY <1>1, ParseIs DEF Merges, ParseRun
<1>. QED BY <1>2, <1>3

Sorted(q) == \A i, j \in 1 .. Len(q) : i < j => q[i].number < q[j].number

\* q lists the entities of D in the order of their numbers, each as g has it.
Tells(q, g, D) ==
  /\ q \in Seq(Entity) /\ Sorted(q)
  /\ \A i \in 1 .. Len(q) : q[i].number \in D /\ q[i].val = g[q[i].number]
  /\ \A n \in D : \E i \in 1 .. Len(q) : q[i].number = n

\* What comes behind all that is listed is appended.
LEMMA TellsMore ==
  ASSUME NEW q, NEW g, NEW D \in SUBSET Ents, Tells(q, g, D), NEW e \in Entity,
         e.number \in Ents, e.val = g[e.number], \A n \in D : n < e.number
  PROVE  Tells(Append(q, e), g, D \cup {e.number})
<1>. DEFINE r == Append(q, e)
<1>1. /\ r \in Seq(Entity) /\ Len(r) = Len(q) + 1 /\ Len(q) \in Nat /\ r[Len(q) + 1] = e
      /\ \A i \in 1 .. Len(q) : r[i] = q[i]
  BY AppendProperties DEF Tells
<1>. HIDE DEF r
<1>2. \A i \in 1 .. Len(r) : i \in 1 .. Len(q) \/ i = Len(q) + 1
  BY <1>1
<1>3. Sorted(r)
  <2>1. ASSUME NEW i \in 1 .. Len(r), NEW j \in 1 .. Len(r), i < j PROVE r[i].number < r[j].number
    <3>1. i \in 1 .. Len(q)
      BY <1>1, <2>1
    <3>2. CASE j \in 1 .. Len(q)
      BY <1>1, <2>1, <3>1, <3>2 DEF Tells, Sorted
    <3>3. CASE j = Len(q) + 1
      BY <1>1, <3>1, <3>3 DEF Tells
    <3>. QED BY <1>2, <3>2, <3>3
  <2>. QED BY <2>1 DEF Sorted
<1>4. \A i \in 1 .. Len(r) : r[i].number \in D \cup {e.number} /\ r[i].val = g[r[i].number]
  BY <1>1, <1>2 DEF Tells
<1>5. ASSUME NEW n \in D \cup {e.number} PROVE \E i \in 1 .. Len(r) : r[i].number = n
  <2>1. CASE n = e.number
    BY <1>1, <2>1
  <2>2. CASE n \in D
    <3>1. PICK i \in 1 .. Len(q) : q[i].number = n
      BY <2>2 DEF Tells
    <3>. QED BY <1>1, <3>1
  <2>. QED BY <2>1, <2>2
<1>. QED BY <1>1, <1>3, <1>4, <1>5 DEF Tells, r

\* p is a list of entities in the order of their numbers.
Proper(p) == p \in Seq(Entity) /\ Sorted(p) /\ \A i \in 1 .. Len(p) : p[i].number \in Ents

\* Two lists of entities are merged in order: what was passed in one is less than what is
\* next in the other.
Merging(p, q, o, n) ==
  /\ o \in 1 .. Len(p) + 1 /\ n \in 1 .. Len(q) + 1
  /\ \A i \in 1 .. o - 1 : p[i].number < NumberAt(q, n)
  /\ \A i \in 1 .. n - 1 : q[i].number < NumberAt(p, o)

\* Numbers of the entities that were passed.
Passed(p, q, o, n) == {p[i].number : i \in 1 .. o - 1} \cup {q[i].number : i \in 1 .. n - 1}

\* What is next in either list is behind all that was passed.
LEMMA PassedLess ==
  ASSUME NEW p, NEW q, Proper(p), Proper(q), NEW o, NEW n, Merging(p, q, o, n)
  PROVE  /\ Passed(p, q, o, n) \subseteq Ents
         /\ \A h \in Passed(p, q, o, n) : h < NumberAt(p, o) /\ h < NumberAt(q, n)
<1>P. /\ p \in Seq(Entity) /\ Sorted(p) /\ \A i \in 1 .. Len(p) : p[i].number \in Ents
      /\ q \in Seq(Entity) /\ Sorted(q) /\ \A i \in 1 .. Len(q) : q[i].number \in Ents
  BY DEF Proper
<1>. USE <1>P
<1>1. Len(p) \in Nat /\ Len(q) \in Nat /\ o \in 1 .. Len(p) + 1 /\ n \in 1 .. Len(q) + 1
  BY DEF Merging
<1>2. ASSUME NEW i \in 1 .. o - 1
      PROVE  p[i].number \in Ents /\ p[i].number < NumberAt(p, o) /\ p[i].number < NumberAt(q, n)
  <2>1. i \in 1 .. Len(p)
    BY <1>1
  <2>2. CASE o <= Len(p)
    <3>1. o \in 1 .. Len(p) /\ i < o
      BY <1>1, <2>2
    <3>2. NumberAt(p, o) = p[o].number
      BY <1>1, <2>2, NumberAtFacts
    <3>. QED BY <2>1, <3>1, <3>2 DEF Merging, Sorted
  <2>3. CASE o > Len(p)
    BY <1>1, <2>1, <2>3, NumberAtFacts, EntityFacts DEF Merging
  <2>. QED BY <1>1, <2>2, <2>3
<1>3. ASSUME NEW i \in 1 .. n - 1
      PROVE  q[i].number \in Ents /\ q[i].number < NumberAt(p, o) /\ q[i].number < NumberAt(q, n)
  <2>1. i \in 1 .. Len(q)
    BY <1>1
  <2>2. CASE n <= Len(q)
    <3>1. n \in 1 .. Len(q) /\ i < n
      BY <1>1, <2>2
    <3>2. NumberAt(q, n) = q[n].number
      BY <1>1, <2>2, NumberAtFacts
    <3>. QED BY <2>1, <3>1, <3>2 DEF Merging, Sorted
  <2>3. CASE n > Len(q)
    BY <1>1, <2>1, <2>3, NumberAtFacts, EntityFacts DEF Merging
  <2>. QED BY <1>1, <2>2, <2>3
<1>. QED BY <1>2, <1>3 DEF Passed

\* What is next is less than all behind it.
LEMMA NextLess ==
  ASSUME NEW p, Proper(p), NEW o \in 1 .. Len(p)
  PROVE  /\ NumberAt(p, o) = p[o].number /\ p[o].number < NumberAt(p, o + 1)
         /\ p[o] \in Entity /\ p[o].number \in Ents
         /\ o + 1 \in 1 .. Len(p) + 1 /\ (o + 1) - 1 = o
<1>P. p \in Seq(Entity) /\ Sorted(p) /\ \A i \in 1 .. Len(p) : p[i].number \in Ents
  BY DEF Proper
<1>. USE <1>P
<1>1. Len(p) \in Nat /\ o \in 1 .. Len(p) + 1 /\ o + 1 \in 1 .. Len(p) + 1
  OBVIOUS
<1>2. NumberAt(p, o) = p[o].number /\ p[o] \in Entity
  BY <1>1, NumberAtFacts
<1>3. CASE o + 1 <= Len(p)
  <2>1. NumberAt(p, o + 1) = p[o + 1].number /\ o + 1 \in 1 .. Len(p) /\ o < o + 1
    BY <1>1, <1>3, NumberAtFacts
  <2>. QED BY <1>1, <1>2, <2>1 DEF Sorted
<1>4. CASE o + 1 > Len(p)
  <2>1. NumberAt(p, o + 1) = None
    BY <1>1, <1>4, NumberAtFacts
  <2>2. p[o].number < None
    BY EntityFacts
  <2>. QED BY <1>1, <1>2, <2>1, <2>2
<1>. QED BY <1>1, <1>3, <1>4

\* What is next in both is passed in both.
PassBoth(p, q, o, n) ==
  /\ Merging(p, q, o + 1, n + 1)
  /\ Passed(p, q, o + 1, n + 1) = Passed(p, q, o, n) \cup {p[o].number}

\* A turn that takes the next of both.
LEMMA MergeBoth ==
  ASSUME NEW p, NEW q, Proper(p), Proper(q), NEW o \in 1 .. Len(p),
         NEW n \in 1 .. Len(q), Merging(p, q, o, n),
         p[o].number = q[n].number
  PROVE  PassBoth(p, q, o, n)
<1>P. /\ p \in Seq(Entity) /\ Sorted(p) /\ \A i \in 1 .. Len(p) : p[i].number \in Ents
      /\ q \in Seq(Entity) /\ Sorted(q) /\ \A i \in 1 .. Len(q) : q[i].number \in Ents
  BY DEF Proper
<1>. USE <1>P
<1>1. /\ p[o].number < NumberAt(p, o + 1) /\ q[n].number < NumberAt(q, n + 1)
      /\ NumberAt(p, o) = p[o].number /\ NumberAt(q, n) = q[n].number
      /\ p[o].number \in Ents /\ q[n].number \in Ents
      /\ o + 1 \in 1 .. Len(p) + 1 /\ n + 1 \in 1 .. Len(q) + 1
  BY NextLess
<1>2. /\ \A i \in 1 .. (o + 1) - 1 : i \in 1 .. o - 1 \/ i = o
      /\ \A i \in 1 .. (n + 1) - 1 : i \in 1 .. n - 1 \/ i = n
      /\ \A i \in 1 .. o - 1 : i \in 1 .. Len(p) /\ i \in 1 .. (o + 1) - 1
      /\ \A i \in 1 .. n - 1 : i \in 1 .. Len(q) /\ i \in 1 .. (n + 1) - 1
      /\ o \in 1 .. (o + 1) - 1 /\ n \in 1 .. (n + 1) - 1
  OBVIOUS
<1>3. NumberAt(p, o + 1) \in Nat /\ NumberAt(q, n + 1) \in Nat
  BY <1>1, NumberAtFacts
<1>4. ASSUME NEW i \in 1 .. (o + 1) - 1 PROVE p[i].number < NumberAt(q, n + 1)
  <2>1. CASE i = o
    BY <1>1, <2>1
  <2>2. CASE i \in 1 .. o - 1
    <3>1. p[i].number < q[n].number /\ p[i].number \in Ents
      BY <1>1, <1>2, <2>2 DEF Merging
    <3>2. p[i].number \in Nat /\ q[n].number \in Nat
      BY <1>1, <3>1, EntityFacts
    <3>. QED BY <1>1, <1>3, <3>1, <3>2
  <2>. QED BY <1>2, <2>1, <2>2
<1>5. ASSUME NEW i \in 1 .. (n + 1) - 1 PROVE q[i].number < NumberAt(p, o + 1)
  <2>1. CASE i = n
    BY <1>1, <2>1
  <2>2. CASE i \in 1 .. n - 1
    <3>1. q[i].number < p[o].number /\ q[i].number \in Ents
      BY <1>1, <1>2, <2>2 DEF Merging
    <3>2. q[i].number \in Nat /\ p[o].number \in Nat
      BY <1>1, <3>1, EntityFacts
    <3>. QED BY <1>1, <1>3, <3>1, <3>2
  <2>. QED BY <1>2, <2>1, <2>2
<1>6. Merging(p, q, o + 1, n + 1)
  BY <1>1, <1>4, <1>5 DEF Merging
<1>7. Passed(p, q, o + 1, n + 1) = Passed(p, q, o, n) \cup {p[o].number}
  BY <1>2 DEF Passed
<1>. QED BY <1>6, <1>7 DEF PassBoth

\* What is next in one only is passed there, and is not in the other.
PassFirst(p, q, o, n) ==
  /\ Merging(p, q, o + 1, n)
  /\ Passed(p, q, o + 1, n) = Passed(p, q, o, n) \cup {p[o].number}
  /\ \A i \in 1 .. Len(q) : q[i].number # p[o].number

\* A turn that takes the next of the first.
LEMMA MergeFirst ==
  ASSUME NEW p, NEW q, Proper(p), Proper(q), NEW o \in 1 .. Len(p), NEW n,
         Merging(p, q, o, n), p[o].number < NumberAt(q, n)
  PROVE  PassFirst(p, q, o, n)
<1>P. /\ p \in Seq(Entity) /\ Sorted(p) /\ \A i \in 1 .. Len(p) : p[i].number \in Ents
      /\ q \in Seq(Entity) /\ Sorted(q) /\ \A i \in 1 .. Len(q) : q[i].number \in Ents
  BY DEF Proper
<1>. USE <1>P
<1>0. n \in 1 .. Len(q) + 1 /\ Len(q) \in Nat
  BY DEF Merging
<1>1. /\ p[o].number < NumberAt(p, o + 1) /\ NumberAt(p, o) = p[o].number
      /\ p[o].number \in Ents /\ o + 1 \in 1 .. Len(p) + 1
  BY NextLess
<1>2. /\ \A i \in 1 .. (o + 1) - 1 : i \in 1 .. o - 1 \/ i = o
      /\ \A i \in 1 .. o - 1 : i \in 1 .. Len(p) /\ i \in 1 .. (o + 1) - 1
      /\ o \in 1 .. (o + 1) - 1
      /\ \A i \in 1 .. n - 1 : i \in 1 .. Len(q)
  BY <1>0
<1>3. NumberAt(p, o + 1) \in Nat
  BY <1>1, NumberAtFacts
<1>4. \A i \in 1 .. (o + 1) - 1 : p[i].number < NumberAt(q, n)
  BY <1>2 DEF Merging
<1>5. ASSUME NEW i \in 1 .. n - 1 PROVE q[i].number < NumberAt(p, o + 1)
  <2>1. q[i].number < p[o].number /\ q[i].number \in Ents
    BY <1>1, <1>2 DEF Merging
  <2>. QED BY <1>1, <1>3, <2>1, EntityFacts
<1>6. Merging(p, q, o + 1, n)
  BY <1>0, <1>1, <1>4, <1>5 DEF Merging
<1>7. Passed(p, q, o + 1, n) = Passed(p, q, o, n) \cup {p[o].number}
  BY <1>2 DEF Passed
<1>8. ASSUME NEW i \in 1 .. Len(q), q[i].number = p[o].number PROVE FALSE
  <2>1. CASE i < n
    <3>1. i \in 1 .. n - 1
      BY <1>0, <2>1
    <3>2. q[i].number < p[o].number
      BY <1>1, <3>1 DEF Merging
    <3>. QED BY <1>1, <1>8, <3>2, EntityFacts
  <2>2. CASE i = n
    <3>1. NumberAt(q, n) = q[n].number
      BY <1>0, <2>2, NumberAtFacts
    <3>. QED BY <1>1, <1>8, <2>2, <3>1, EntityFacts
  <2>3. CASE i > n
    <3>1. n \in 1 .. Len(q) /\ q[n].number < q[i].number
      BY <1>0, <2>3 DEF Sorted
    <3>2. NumberAt(q, n) = q[n].number /\ q[n].number \in Ents
      BY <1>0, <3>1, NumberAtFacts
    <3>. QED BY <1>1, <1>8, <3>1, <3>2, EntityFacts
  <2>. QED BY <1>0, <2>1, <2>2, <2>3
<1>. QED BY <1>6, <1>7, <1>8 DEF PassFirst

\* Either list may be called the first.
LEMMA MergeSwap ==
  ASSUME NEW p, NEW q, NEW o, NEW n
  PROVE  /\ Merging(p, q, o, n) <=> Merging(q, p, n, o)
         /\ Passed(p, q, o, n) = Passed(q, p, n, o)
BY DEF Merging, Passed

States == Vals \cup {Gone, Garbage}

\* The entities that there are.
There(g) == {n \in Ents : g[n] # Gone}

\* How a world looks when some of it is shadowed.
Seen(w, sh) == [n \in Ents |-> IF w[n] = Gone THEN Gone ELSE IF n \in sh THEN Garbage ELSE w[n]]

\* What a list tells, entity by entity.
LEMMA TellsNumbers ==
  ASSUME NEW p, NEW g, NEW D \in SUBSET Ents, Tells(p, g, D)
  PROVE  /\ p \in Seq(Entity) /\ Sorted(p) /\ Len(p) \in Nat
         /\ \A i \in 1 .. Len(p) : /\ p[i].number \in Ents /\ p[i].number \in D
                                   /\ p[i].val = g[p[i].number] /\ p[i] \in Entity
BY ElementOfSeq DEF Tells

\* At the end of both lists all was passed.
LEMMA PassedAll ==
  ASSUME NEW p, NEW g, NEW C \in SUBSET Ents, Tells(p, g, C),
         NEW q, NEW h, NEW D \in SUBSET Ents, Tells(q, h, D),
         NEW o, NEW n, Merging(p, q, o, n), o + n - 2 >= Len(p) + Len(q)
  PROVE  Passed(p, q, o, n) = C \cup D
<1>1. /\ Len(p) \in Nat /\ Len(q) \in Nat
      /\ \A i \in 1 .. Len(p) : p[i].number \in C
      /\ \A i \in 1 .. Len(q) : q[i].number \in D
  BY TellsNumbers
<1>2. o \in 1 .. Len(p) + 1 /\ n \in 1 .. Len(q) + 1
  BY DEF Merging
<1>3. 1 .. o - 1 = 1 .. Len(p) /\ 1 .. n - 1 = 1 .. Len(q)
  BY <1>1, <1>2
<1>4. /\ \A c \in C : \E i \in 1 .. Len(p) : p[i].number = c
      /\ \A d \in D : \E i \in 1 .. Len(q) : q[i].number = d
  BY DEF Tells
<1>5. Passed(p, q, o, n) \subseteq C \cup D
  BY <1>1, <1>3 DEF Passed
<1>6. C \cup D \subseteq Passed(p, q, o, n)
  BY <1>3, <1>4 DEF Passed
<1>. QED BY <1>5, <1>6

\* An entity is its number and its state.
LEMMA SameEntity ==
  ASSUME NEW d \in Entity, NEW e \in Entity, d.number = e.number
  PROVE  d = e <=> d.val = e.val
BY DEF Entity

\* A message holds the entities whose looks are not what they were, each as it looks.
LEMMA EmitTells ==
  ASSUME NEW b \in [Ents -> States], NEW p, Tells(p, b, There(b)),
         NEW w \in [Ents -> States], NEW q, Tells(q, w, There(w)), NEW sh
  PROVE  Tells(SNAP_EmitPacketEntities(p, q, sh), Seen(w, sh),
               {n \in Ents : Seen(w, sh)[n] # b[n]})
<1>. DEFINE d == Seen(w, sh)
            D == {n \in Ents : d[n] # b[n]}
            N == Len(p) + Len(q)
            Done(t) == D \cap Passed(p, q, t.o, t.n)
            Good(t) == Merging(p, q, t.o, t.n) /\ Tells(t.out, d, Done(t))
            P == [k \in 0 .. N |-> {t \in Merges(p, q) : Good(t) /\ t.o + t.n - 2 >= k}]
<1>1. /\ There(b) \in SUBSET Ents /\ There(w) \in SUBSET Ents /\ D \in SUBSET Ents
      /\ \A n \in Ents : d[n] = IF w[n] = Gone THEN Gone ELSE IF n \in sh THEN Garbage ELSE w[n]
      /\ Garbage # Gone
  BY SizesAssumption DEF There, Seen
<1>2. /\ p \in Seq(Entity) /\ Sorted(p) /\ Len(p) \in Nat
      /\ \A i \in 1 .. Len(p) : /\ p[i].number \in Ents /\ p[i].number \in There(b)
                                /\ p[i].val = b[p[i].number] /\ p[i] \in Entity
      /\ \A n \in There(b) : \E i \in 1 .. Len(p) : p[i].number = n
  BY <1>1, TellsNumbers DEF Tells
<1>3. /\ q \in Seq(Entity) /\ Sorted(q) /\ Len(q) \in Nat
      /\ \A i \in 1 .. Len(q) : /\ q[i].number \in Ents /\ q[i].number \in There(w)
                                /\ q[i].val = w[q[i].number] /\ q[i] \in Entity
      /\ \A n \in There(w) : \E i \in 1 .. Len(q) : q[i].number = n
  BY <1>1, TellsNumbers DEF Tells
<1>. HIDE DEF d, D
<1>P. Proper(p) /\ Proper(q)
  BY <1>2, <1>3 DEF Proper
<1>R. PICK f : EmitRun(f, p, q, sh)
  BY <1>2, <1>3, EmitIs
<1>4. /\ f[0] = [o |-> 1, n |-> 1, out |-> <<>>]
      /\ \A k \in 1 .. N : f[k] = EmitTurn(p, q, sh, f[k - 1])
      /\ \A k \in 0 .. N : f[k] \in Merges(p, q)
      /\ f[N].out = SNAP_EmitPacketEntities(p, q, sh)
  BY <1>R DEF EmitRun
<1>5. N \in Nat /\ N \in 0 .. N
  BY <1>2, <1>3
<1>6. f[0] \in P[0]
  <2>1. Merging(p, q, 1, 1) /\ Passed(p, q, 1, 1) = {}
    BY <1>2, <1>3 DEF Merging, Passed
  <2>2. Tells(<<>>, d, {})
    BY DEF Tells, Sorted
  <2>3. Good(f[0]) /\ f[0].o + f[0].n - 2 >= 0
    <3>1. f[0].o = 1 /\ f[0].n = 1 /\ f[0].out = <<>>
      BY <1>4
    <3>2. D \cap {} = {}
      OBVIOUS
    <3>3. Merging(p, q, f[0].o, f[0].n) /\ Passed(p, q, f[0].o, f[0].n) = {}
      BY <2>1, <3>1
    <3>4. Tells(f[0].out, d, Done(f[0]))
      BY <2>2, <3>1, <3>2, <3>3
    <3>5. f[0].o + f[0].n - 2 >= 0
      BY <3>1
    <3>. QED BY <3>3, <3>4, <3>5
  <2>. HIDE DEF Good
  <2>. QED BY <1>4, <1>5, <2>3
\* An entity that is in the new list is sent as it looks.
<1>7. ASSUME NEW i \in 1 .. Len(q)
      PROVE  /\ Sent(q[i], sh) \in Entity /\ Sent(q[i], sh).number = q[i].number
             /\ Sent(q[i], sh).val = d[q[i].number] /\ d[q[i].number] # Gone
  <2>1. q[i] \in Entity /\ q[i].number \in There(w) /\ q[i].val = w[q[i].number] /\ q[i].number \in Ents
    BY <1>3
  <2>2. /\ Sent(q[i], sh) \in Entity /\ Sent(q[i], sh).number = q[i].number
        /\ Sent(q[i], sh).val = IF q[i].number \in sh THEN Garbage ELSE q[i].val
    BY <2>1 DEF Sent, Entity
  <2>. QED BY <1>1, <2>1, <2>2 DEF There
<1>8. ASSUME NEW k \in 1 .. N, f[k - 1] \in P[k - 1] PROVE f[k] \in P[k]
  <2>1. k - 1 \in 0 .. N /\ k \in 0 .. N /\ k \in Nat
    BY <1>5
  <2>2. PICK t : t = f[k - 1] /\ t \in Merges(p, q) /\ Good(t) /\ t.o + t.n - 2 >= k - 1
    <3>. HIDE DEF Good
    <3>. QED BY <1>8, <2>1
  <2>3. /\ t.o \in 1 .. Len(p) + 1 /\ t.n \in 1 .. Len(q) + 1
        /\ t = [o |-> t.o, n |-> t.n, out |-> t.out]
    BY <2>2 DEF Merges
  <2>4. f[k] = EmitTurn(p, q, sh, t) /\ f[k] \in Merges(p, q)
    BY <1>4, <2>1, <2>2
  <2>. DEFINE x == NumberAt(p, t.o)
              y == NumberAt(q, t.n)
              new == Sent(q[t.n], sh)
  <2>5. /\ x \in Nat
        /\ t.o <= Len(p) => t.o \in 1 .. Len(p) /\ x = p[t.o].number /\ x < None /\ x \in Ents
        /\ t.o > Len(p) => x = None /\ t.o = Len(p) + 1
    BY <1>2, <2>3, NumberAtFacts
  <2>6. /\ y \in Nat
        /\ t.n <= Len(q) => t.n \in 1 .. Len(q) /\ y = q[t.n].number /\ y < None /\ y \in Ents
        /\ t.n > Len(q) => y = None /\ t.n = Len(q) + 1
    BY <1>3, <2>3, NumberAtFacts
  <2>7. /\ Passed(p, q, t.o, t.n) \subseteq Ents /\ Done(t) \in SUBSET Ents
        /\ \A h \in Done(t) : h < x /\ h < y
    BY <1>P, <2>2, PassedLess
  <2>8. SUFFICES Good(f[k]) /\ f[k].o + f[k].n - 2 >= k
    <3>. HIDE DEF Good
    <3>. QED BY <2>1, <2>4
  <2>. HIDE DEF x, y, new, P
  <2>9. CASE t.n > Len(q) /\ t.o > Len(p)
    <3>1. f[k] = t
      BY <2>4, <2>9 DEF EmitTurn
    <3>2. t.o + t.n - 2 >= k
      BY <1>2, <1>3, <2>1, <2>5, <2>6, <2>9
    <3>. QED BY <2>2, <3>1, <3>2
  <2>10. CASE ~(t.n > Len(q) /\ t.o > Len(p)) /\ y = x
    <3>1. t.o \in 1 .. Len(p) /\ t.n \in 1 .. Len(q) /\ x = p[t.o].number /\ y = q[t.n].number /\ x \in Ents
      BY <1>2, <1>3, <2>3, <2>5, <2>6, <2>10
    <3>2. f[k] = [o |-> t.o + 1, n |-> t.n + 1,
                  out |-> IF new = p[t.o] THEN t.out ELSE Append(t.out, new)]
      BY <2>4, <2>10 DEF EmitTurn, x, y, new
    <3>3. /\ Merging(p, q, t.o + 1, t.n + 1)
          /\ Passed(p, q, t.o + 1, t.n + 1) = Passed(p, q, t.o, t.n) \cup {x}
      <4>1. Merging(p, q, t.o, t.n) /\ p[t.o].number = q[t.n].number
        BY <2>2, <2>10, <3>1
      <4>2. PassBoth(p, q, t.o, t.n)
        BY <1>P, <3>1, <4>1, MergeBoth
      <4>. QED BY <3>1, <4>2 DEF PassBoth
    <3>4. /\ new \in Entity /\ new.number = x /\ new.val = d[x]
          /\ p[t.o].val = b[x] /\ p[t.o] \in Entity
      <4>1. new \in Entity /\ new.number = y /\ new.val = d[y]
        BY <1>7, <3>1 DEF new
      <4>2. p[t.o].val = b[x] /\ p[t.o] \in Entity
        BY <1>2, <3>1
      <4>. QED BY ONLY <2>10, <4>1, <4>2
    <3>5. (new = p[t.o]) <=> x \notin D
      BY <3>1, <3>4, SameEntity DEF D
    <3>6. Tells(f[k].out, d, Done(f[k]))
      <4>1. CASE x \in D
        <5>1. Done(f[k]) = Done(t) \cup {new.number} /\ f[k].out = Append(t.out, new)
          BY <3>2, <3>3, <3>4, <3>5, <4>1
        <5>2. new.number \in Ents /\ new.val = d[new.number] /\ \A h \in Done(t) : h < new.number
          BY <2>7, <3>1, <3>4
        <5>3. Tells(t.out, d, Done(t)) /\ Done(t) \in SUBSET Ents
          BY <2>2, <2>7
        <5>4. Tells(Append(t.out, new), d, Done(t) \cup {new.number})
          <6>. HIDE DEF Done
          <6>. QED BY <3>4, <5>2, <5>3, TellsMore
        <5>. QED BY <5>1, <5>4
      <4>2. CASE x \notin D
        <5>1. Done(f[k]) = Done(t) /\ f[k].out = t.out
          BY <3>2, <3>3, <3>5, <4>2
        <5>. QED BY <2>2, <5>1
      <4>. QED BY <4>1, <4>2
    <3>7. f[k].o = t.o + 1 /\ f[k].n = t.n + 1
      BY <3>2
    <3>. QED BY <2>1, <2>2, <2>3, <3>3, <3>6, <3>7
  <2>11. CASE ~(t.n > Len(q) /\ t.o > Len(p)) /\ y < x
    <3>1. t.n \in 1 .. Len(q) /\ y = q[t.n].number /\ y \in Ents
      BY <1>2, <1>3, <2>3, <2>5, <2>6, <2>11, EntityFacts
    <3>2. f[k] = [o |-> t.o, n |-> t.n + 1, out |-> Append(t.out, new)]
      <4>1. y # x
        BY <2>5, <2>6, <2>11
      <4>. QED BY <2>3, <2>4, <2>11, <4>1 DEF EmitTurn, x, y, new
    <3>3. /\ Merging(p, q, t.o, t.n + 1)
          /\ Passed(p, q, t.o, t.n + 1) = Passed(p, q, t.o, t.n) \cup {y}
          /\ \A i \in 1 .. Len(p) : p[i].number # y
      <4>1. Merging(q, p, t.n, t.o) /\ q[t.n].number < NumberAt(p, t.o)
        BY <2>2, <2>11, <3>1, MergeSwap DEF x
      <4>2. PassFirst(q, p, t.n, t.o)
        BY <1>P, <3>1, <4>1, MergeFirst
      <4>. QED BY <3>1, <4>2, MergeSwap DEF PassFirst
    <3>4. /\ new \in Entity /\ new.number = y /\ new.val = d[y] /\ d[y] # Gone
      BY <1>7, <3>1 DEF new
    <3>5. y \in D
      <4>1. y \notin There(b)
        BY <1>2, <3>3
      <4>. QED BY <3>1, <3>4, <4>1 DEF D, There
    <3>6. Tells(f[k].out, d, Done(f[k]))
      <4>1. Done(f[k]) = Done(t) \cup {new.number} /\ f[k].out = Append(t.out, new)
        BY <3>2, <3>3, <3>4, <3>5
      <4>2. new.number \in Ents /\ new.val = d[new.number] /\ \A h \in Done(t) : h < new.number
        BY <2>7, <3>1, <3>4
      <4>3. Tells(t.out, d, Done(t)) /\ Done(t) \in SUBSET Ents
        BY <2>2, <2>7
      <4>4. Tells(Append(t.out, new), d, Done(t) \cup {new.number})
        <5>. HIDE DEF Done
        <5>. QED BY <3>4, <4>2, <4>3, TellsMore
      <4>. QED BY <4>1, <4>4
    <3>7. f[k].o = t.o /\ f[k].n = t.n + 1
      BY <3>2
    <3>. QED BY <2>1, <2>2, <2>3, <3>3, <3>6, <3>7
  <2>12. CASE ~(t.n > Len(q) /\ t.o > Len(p)) /\ x < y
    <3>1. t.o \in 1 .. Len(p) /\ x = p[t.o].number /\ x \in Ents
      BY <1>2, <1>3, <2>3, <2>5, <2>6, <2>12, EntityFacts
    <3>. DEFINE e == [number |-> x, val |-> Gone]
    <3>2. f[k] = [o |-> t.o + 1, n |-> t.n, out |-> Append(t.out, e)]
      <4>1. y # x /\ ~(y < x)
        BY <2>5, <2>6, <2>12
      <4>. QED BY <2>3, <2>4, <2>12, <4>1 DEF EmitTurn, x, y
    <3>3. /\ Merging(p, q, t.o + 1, t.n)
          /\ Passed(p, q, t.o + 1, t.n) = Passed(p, q, t.o, t.n) \cup {x}
          /\ \A i \in 1 .. Len(q) : q[i].number # x
      <4>1. p[t.o].number < NumberAt(q, t.n)
        BY <2>12, <3>1 DEF y
      <4>2. Merging(p, q, t.o, t.n)
        BY <2>2
      <4>3. PassFirst(p, q, t.o, t.n)
        BY <1>P, <3>1, <4>1, <4>2, MergeFirst
      <4>. QED BY <3>1, <4>3 DEF PassFirst
    <3>4. d[x] = Gone /\ x \in D
      <4>1. x \notin There(w) /\ x \in There(b)
        BY <1>2, <1>3, <3>1, <3>3
      <4>. QED BY <1>1, <3>1, <4>1 DEF D, There
    <3>5. e \in Entity /\ e.number = x /\ e.val = d[x]
      BY <3>1, <3>4 DEF Entity
    <3>. HIDE DEF e
    <3>6. Tells(f[k].out, d, Done(f[k]))
      <4>1. Done(f[k]) = Done(t) \cup {e.number} /\ f[k].out = Append(t.out, e)
        BY <3>2, <3>3, <3>4, <3>5
      <4>2. e.number \in Ents /\ e.val = d[e.number] /\ \A h \in Done(t) : h < e.number
        BY <2>7, <3>1, <3>5
      <4>3. Tells(t.out, d, Done(t)) /\ Done(t) \in SUBSET Ents
        BY <2>2, <2>7
      <4>4. Tells(Append(t.out, e), d, Done(t) \cup {e.number})
        <5>. HIDE DEF Done
        <5>. QED BY <3>5, <4>2, <4>3, TellsMore
      <4>. QED BY <4>1, <4>4
    <3>7. f[k].o = t.o + 1 /\ f[k].n = t.n
      BY <3>2
    <3>. QED BY <2>1, <2>2, <2>3, <3>3, <3>6, <3>7
  <2>. QED BY <2>5, <2>6, <2>9, <2>10, <2>11, <2>12
<1>9. f[N] \in P[N]
  <2>1. \A k \in 0 .. N : f[k] \in P[k]
    <3>. HIDE DEF P, N
    <3>. QED BY <1>5, <1>6, <1>8, Through
  <2>. QED BY <1>5, <2>1
<1>10. Good(f[N]) /\ f[N].o + f[N].n - 2 >= N
  <2>. HIDE DEF Good
  <2>. QED BY <1>5, <1>9
<1>11. Passed(p, q, f[N].o, f[N].n) = There(b) \cup There(w)
  BY <1>1, <1>10, PassedAll
<1>12. D \subseteq There(b) \cup There(w)
  BY <1>1 DEF D, There
<1>13. Done(f[N]) = D
  BY <1>11, <1>12
<1>. QED BY <1>4, <1>10, <1>13 DEF d, D

\* The client makes of its list and a message what the message says, and keeps the rest.
LEMMA ParseTells ==
  ASSUME NEW g \in [Ents -> States], NEW p, Tells(p, g, There(g)),
         NEW d, NEW D \in SUBSET Ents, NEW q, Tells(q, d, D),
         NEW h \in [Ents -> States], \A n \in Ents : h[n] = IF n \in D THEN d[n] ELSE g[n]
  PROVE  Tells(SNAP_ParsePacketEntities(p, q), h, There(h))
<1>. DEFINE N == Len(p) + Len(q)
            Done(t) == There(h) \cap Passed(p, q, t.o, t.n)
            Good(t) == Merging(p, q, t.o, t.n) /\ Tells(t.out, h, Done(t))
            P == [k \in 0 .. N |-> {t \in Merges(p, q) : Good(t) /\ t.o + t.n - 2 >= k}]
<1>1. /\ There(g) \in SUBSET Ents /\ There(h) \in SUBSET Ents
      /\ \A n \in Ents : n \in There(h) <=> h[n] # Gone
  BY DEF There
<1>2. /\ p \in Seq(Entity) /\ Sorted(p) /\ Len(p) \in Nat
      /\ \A i \in 1 .. Len(p) : /\ p[i].number \in Ents /\ p[i].number \in There(g)
                                /\ p[i].val = g[p[i].number] /\ p[i] \in Entity
  BY <1>1, TellsNumbers
<1>3. /\ q \in Seq(Entity) /\ Sorted(q) /\ Len(q) \in Nat
      /\ \A i \in 1 .. Len(q) : /\ q[i].number \in Ents /\ q[i].number \in D
                                /\ q[i].val = d[q[i].number] /\ q[i] \in Entity
      /\ \A n \in D : \E i \in 1 .. Len(q) : q[i].number = n
  BY TellsNumbers DEF Tells
<1>P. Proper(p) /\ Proper(q)
  BY <1>2, <1>3 DEF Proper
<1>R. PICK f : ParseRun(f, p, q)
  BY <1>2, <1>3, ParseIs
<1>4. /\ f[0] = [o |-> 1, n |-> 1, out |-> <<>>]
      /\ \A k \in 1 .. N : f[k] = ParseTurn(p, q, f[k - 1])
      /\ \A k \in 0 .. N : f[k] \in Merges(p, q)
      /\ f[N].out = SNAP_ParsePacketEntities(p, q)
  BY <1>R DEF ParseRun
<1>5. N \in Nat /\ N \in 0 .. N
  BY <1>2, <1>3
<1>6. f[0] \in P[0]
  <2>1. Merging(p, q, 1, 1) /\ Passed(p, q, 1, 1) = {}
    BY <1>2, <1>3 DEF Merging, Passed
  <2>2. Tells(<<>>, h, {})
    BY DEF Tells, Sorted
  <2>3. Good(f[0]) /\ f[0].o + f[0].n - 2 >= 0
    <3>1. f[0].o = 1 /\ f[0].n = 1 /\ f[0].out = <<>>
      BY <1>4
    <3>2. There(h) \cap {} = {}
      OBVIOUS
    <3>3. Merging(p, q, f[0].o, f[0].n) /\ Passed(p, q, f[0].o, f[0].n) = {}
      BY <2>1, <3>1
    <3>4. Tells(f[0].out, h, Done(f[0]))
      BY <2>2, <3>1, <3>2, <3>3
    <3>5. f[0].o + f[0].n - 2 >= 0
      BY <3>1
    <3>. QED BY <3>3, <3>4, <3>5
  <2>. HIDE DEF Good
  <2>. QED BY <1>4, <1>5, <2>3
<1>7. ASSUME NEW k \in 1 .. N, f[k - 1] \in P[k - 1] PROVE f[k] \in P[k]
  <2>1. k - 1 \in 0 .. N /\ k \in 0 .. N /\ k \in Nat
    BY <1>5
  <2>2. PICK t : t = f[k - 1] /\ t \in Merges(p, q) /\ Good(t) /\ t.o + t.n - 2 >= k - 1
    <3>. HIDE DEF Good
    <3>. QED BY <1>7, <2>1
  <2>3. /\ t.o \in 1 .. Len(p) + 1 /\ t.n \in 1 .. Len(q) + 1
        /\ t = [o |-> t.o, n |-> t.n, out |-> t.out]
    BY <2>2 DEF Merges
  <2>4. f[k] = ParseTurn(p, q, t) /\ f[k] \in Merges(p, q)
    BY <1>4, <2>1, <2>2
  <2>. DEFINE x == NumberAt(p, t.o)
              y == NumberAt(q, t.n)
  <2>5. /\ x \in Nat
        /\ t.o <= Len(p) => t.o \in 1 .. Len(p) /\ x = p[t.o].number /\ x < None /\ x \in Ents
        /\ t.o > Len(p) => x = None /\ t.o = Len(p) + 1
    BY <1>2, <2>3, NumberAtFacts
  <2>6. /\ y \in Nat
        /\ t.n <= Len(q) => t.n \in 1 .. Len(q) /\ y = q[t.n].number /\ y < None /\ y \in Ents
        /\ t.n > Len(q) => y = None /\ t.n = Len(q) + 1
    BY <1>3, <2>3, NumberAtFacts
  <2>7. /\ Done(t) \in SUBSET Ents
        /\ \A i \in Done(t) : i < x /\ i < y
    BY <1>P, <2>2, PassedLess
  <2>8. SUFFICES Good(f[k]) /\ f[k].o + f[k].n - 2 >= k
    <3>. HIDE DEF Good
    <3>. QED BY <2>1, <2>4
  <2>. HIDE DEF x, y, P
  \* An entity e that is passed, and appended unless it is gone.
  <2>A. ASSUME NEW e \in Entity, e.number \in Ents, e.val = h[e.number],
               \A i \in Done(t) : i < e.number,
               Done(f[k]) = There(h) \cap (Passed(p, q, t.o, t.n) \cup {e.number}),
               f[k].out = IF e.val = Gone THEN t.out ELSE Append(t.out, e)
        PROVE  Tells(f[k].out, h, Done(f[k]))
    <3>1. Tells(t.out, h, Done(t))
      BY <2>2
    <3>2. CASE e.val = Gone
      <4>1. Done(f[k]) = Done(t)
        BY <1>1, <2>A, <3>2
      <4>. QED BY <2>A, <3>1, <3>2, <4>1
    <3>3. CASE e.val # Gone
      <4>1. Done(f[k]) = Done(t) \cup {e.number}
        BY <1>1, <2>A, <3>3
      <4>2. Tells(Append(t.out, e), h, Done(t) \cup {e.number})
        <5>. HIDE DEF Done
        <5>. QED BY <2>7, <2>A, <3>1, TellsMore
      <4>. QED BY <2>A, <3>3, <4>1, <4>2
    <3>. QED BY <3>2, <3>3
  <2>9. CASE t.n > Len(q) /\ t.o > Len(p)
    <3>1. f[k] = t
      BY <2>4, <2>9 DEF ParseTurn
    <3>2. t.o + t.n - 2 >= k
      BY <1>2, <1>3, <2>1, <2>5, <2>6, <2>9
    <3>. QED BY <2>2, <3>1, <3>2
  <2>10. CASE ~(t.n > Len(q) /\ t.o > Len(p)) /\ x < y
    <3>1. t.o \in 1 .. Len(p) /\ x = p[t.o].number /\ x \in Ents
      BY <1>2, <1>3, <2>3, <2>5, <2>6, <2>10, EntityFacts
    <3>2. f[k] = [o |-> t.o + 1, n |-> t.n, out |-> Append(t.out, p[t.o])]
      BY <2>3, <2>4, <2>10 DEF ParseTurn, x, y
    <3>3. /\ Merging(p, q, t.o + 1, t.n)
          /\ Passed(p, q, t.o + 1, t.n) = Passed(p, q, t.o, t.n) \cup {x}
          /\ \A i \in 1 .. Len(q) : q[i].number # x
      <4>1. p[t.o].number < NumberAt(q, t.n)
        BY <2>10, <3>1 DEF y
      <4>2. Merging(p, q, t.o, t.n)
        BY <2>2
      <4>3. PassFirst(p, q, t.o, t.n)
        BY <1>P, <3>1, <4>1, <4>2, MergeFirst
      <4>. QED BY <3>1, <4>3 DEF PassFirst
    <3>4. x \notin D
      BY <1>3, <3>3
    <3>5. p[t.o] \in Entity /\ p[t.o].val = h[x] /\ h[x] # Gone
      <4>1. p[t.o] \in Entity /\ p[t.o].val = g[x] /\ x \in There(g)
        BY <1>2, <3>1
      <4>. QED BY <3>1, <3>4, <4>1 DEF There
    <3>6. f[k].o = t.o + 1 /\ f[k].n = t.n /\ f[k].out = Append(t.out, p[t.o])
      BY <3>2
    <3>7. Tells(f[k].out, h, Done(f[k]))
      BY <2>7, <2>A, <3>1, <3>3, <3>5, <3>6
    <3>. QED BY <2>1, <2>2, <2>3, <3>3, <3>6, <3>7
  <2>11. CASE ~(t.n > Len(q) /\ t.o > Len(p)) /\ x = y
    <3>1. t.o \in 1 .. Len(p) /\ t.n \in 1 .. Len(q) /\ x = p[t.o].number /\ y = q[t.n].number /\ x \in Ents
      BY <1>2, <1>3, <2>3, <2>5, <2>6, <2>11
    <3>2. f[k] = [o |-> t.o + 1, n |-> t.n + 1,
                  out |-> IF q[t.n].val = Gone THEN t.out ELSE Append(t.out, q[t.n])]
      <4>1. ~(x < y)
        BY <2>5, <2>6, <2>11
      <4>. QED BY <2>4, <2>11, <4>1 DEF ParseTurn, x, y
    <3>3. /\ Merging(p, q, t.o + 1, t.n + 1)
          /\ Passed(p, q, t.o + 1, t.n + 1) = Passed(p, q, t.o, t.n) \cup {x}
      <4>1. Merging(p, q, t.o, t.n) /\ p[t.o].number = q[t.n].number
        BY <2>2, <2>11, <3>1
      <4>2. PassBoth(p, q, t.o, t.n)
        BY <1>P, <3>1, <4>1, MergeBoth
      <4>. QED BY <3>1, <4>2 DEF PassBoth
    <3>4. q[t.n] \in Entity /\ q[t.n].number = x /\ q[t.n].val = h[x]
      <4>1. q[t.n] \in Entity /\ q[t.n].number = y /\ q[t.n].val = h[y]
        BY <1>3, <2>6, <3>1
      <4>. QED BY <2>11, <4>1
    <3>6. /\ f[k].o = t.o + 1 /\ f[k].n = t.n + 1
          /\ f[k].out = IF q[t.n].val = Gone THEN t.out ELSE Append(t.out, q[t.n])
      BY <3>2
    <3>7. Tells(f[k].out, h, Done(f[k]))
      BY <2>7, <2>A, <3>1, <3>3, <3>4, <3>6
    <3>. QED BY <2>1, <2>2, <2>3, <3>3, <3>6, <3>7
  <2>12. CASE ~(t.n > Len(q) /\ t.o > Len(p)) /\ y < x
    <3>1. t.n \in 1 .. Len(q) /\ y = q[t.n].number /\ y \in Ents
      BY <1>2, <1>3, <2>3, <2>5, <2>6, <2>12, EntityFacts
    <3>2. f[k] = [o |-> t.o, n |-> t.n + 1,
                  out |-> IF q[t.n].val = Gone THEN t.out ELSE Append(t.out, q[t.n])]
      <4>1. ~(x < y) /\ x # y
        BY <2>5, <2>6, <2>12
      <4>. QED BY <2>4, <2>12, <4>1 DEF ParseTurn, x, y
    <3>3. /\ Merging(p, q, t.o, t.n + 1)
          /\ Passed(p, q, t.o, t.n + 1) = Passed(p, q, t.o, t.n) \cup {y}
      <4>1. Merging(q, p, t.n, t.o) /\ q[t.n].number < NumberAt(p, t.o)
        BY <2>2, <2>12, <3>1, MergeSwap DEF x
      <4>2. PassFirst(q, p, t.n, t.o)
        BY <1>P, <3>1, <4>1, MergeFirst
      <4>. QED BY <3>1, <4>2, MergeSwap DEF PassFirst
    <3>4. q[t.n] \in Entity /\ q[t.n].number = y /\ q[t.n].val = h[y]
      BY <1>3, <3>1
    <3>6. /\ f[k].o = t.o /\ f[k].n = t.n + 1
          /\ f[k].out = IF q[t.n].val = Gone THEN t.out ELSE Append(t.out, q[t.n])
      BY <3>2
    <3>7. Tells(f[k].out, h, Done(f[k]))
      <4>1. Done(f[k]) = There(h) \cap (Passed(p, q, t.o, t.n) \cup {q[t.n].number})
        BY <3>3, <3>4, <3>6
      <4>2. q[t.n].number \in Ents /\ q[t.n].val = h[q[t.n].number]
        BY <3>1, <3>4
      <4>3. \A i \in Done(t) : i < q[t.n].number
        BY <2>7, <3>4
      <4>. HIDE DEF Done
      <4>. QED BY <2>A, <3>4, <3>6, <4>1, <4>2, <4>3
    <3>. QED BY <2>1, <2>2, <2>3, <3>3, <3>6, <3>7
  <2>. QED BY <2>5, <2>6, <2>9, <2>10, <2>11, <2>12
<1>9. f[N] \in P[N]
  <2>1. \A k \in 0 .. N : f[k] \in P[k]
    <3>. HIDE DEF P, N
    <3>. QED BY <1>5, <1>6, <1>7, Through
  <2>. QED BY <1>5, <2>1
<1>10. Good(f[N]) /\ f[N].o + f[N].n - 2 >= N
  <2>. HIDE DEF Good
  <2>. QED BY <1>5, <1>9
<1>11. Passed(p, q, f[N].o, f[N].n) = There(g) \cup D
  BY <1>1, <1>10, PassedAll
<1>12. There(h) \subseteq There(g) \cup D
  BY DEF There
<1>13. Done(f[N]) = There(h)
  BY <1>11, <1>12
<1>. QED BY <1>4, <1>10, <1>13

\* A world is listed.
LEMMA ListTells ==
  ASSUME NEW w \in Worlds
  PROVE  w \in [Ents -> States] /\ Tells(EntityList(w), w, There(w))
<1>. DEFINE R == [number : Ents, val : Vals \cup {Gone}]
            S == [number : Ents, val : Vals]
            s == [n \in 1 .. NumEnts |-> [number |-> n, val |-> w[n]]]
            q == EntityList(w)
<1>1. w \in [Ents -> Vals \cup {Gone}] /\ Gone \notin Vals
  BY SizesAssumption
<1>2. NumEnts \in Nat /\ Ents = 1 .. NumEnts
  BY EntityFacts
<1>3. s \in Seq(R) /\ Len(s) = NumEnts /\ \A n \in Ents : s[n].number = n /\ s[n].val = w[n]
  <2>1. s \in [1 .. NumEnts -> R]
    BY <1>1, <1>2
  <2>2. s \in Seq(R)
    <3>. HIDE DEF s, R
    <3>. QED BY <1>2, <2>1, SeqDef
  <2>3. Len(s) = NumEnts
    BY <1>2, <2>1
  <2>. QED BY <1>2, <2>2, <2>3
<1>4. \A n \in Ents : s[n] \in S <=> w[n] # Gone
  BY <1>1, <1>2
<1>5. q = Only(s, S)
  BY DEF EntityList
<1>. HIDE DEF s, q, S, R
<1>6. /\ q \in Seq(R)
      /\ \E e : /\ Embeds(e, q, s, Len(s))
                /\ \A i \in 1 .. Len(q) : s[e[i]] \in S
                /\ \A k \in 1 .. Len(s) : s[k] \in S => \E i \in 1 .. Len(q) : e[i] = k
  <2>1. /\ Only(s, S) \in Seq(R)
        /\ \E e : /\ Embeds(e, Only(s, S), s, Len(s))
                  /\ \A i \in 1 .. Len(Only(s, S)) : s[e[i]] \in S
                  /\ \A k \in 1 .. Len(s) : s[k] \in S => \E i \in 1 .. Len(Only(s, S)) : e[i] = k
    BY <1>3, OnlyFacts
  <2>. QED BY ONLY <1>5, <2>1
<1>7. PICK e : /\ Embeds(e, q, s, Len(s))
               /\ \A i \in 1 .. Len(q) : s[e[i]] \in S
               /\ \A k \in 1 .. Len(s) : s[k] \in S => \E i \in 1 .. Len(q) : e[i] = k
  BY <1>6
<1>8. \A i \in 1 .. Len(q) : /\ e[i] \in Ents /\ q[i] = s[e[i]] /\ q[i].number = e[i]
                             /\ q[i].val = w[e[i]] /\ w[e[i]] # Gone
  BY <1>2, <1>3, <1>4, <1>7 DEF Embeds
<1>9. Sorted(q)
  <2>1. \A i, j \in 1 .. Len(q) : i < j => e[i] < e[j]
    BY <1>7 DEF Embeds
  <2>. QED BY <1>8, <2>1 DEF Sorted
<1>10. q \in Seq(Entity)
  <2>1. R \subseteq Entity
    BY DEF R, Entity
  <2>2. \A i \in 1 .. Len(q) : q[i] \in Entity
    BY <1>6, <2>1, ElementOfSeq
  <2>3. Len(q) \in Nat /\ q \in [1 .. Len(q) -> R] 
    BY <1>6, LenProperties
  <2>4. q \in [1 .. Len(q) -> Entity]
    BY <2>1, <2>3
  <2>. QED BY <2>3, <2>4, SeqDef
<1>11. ASSUME NEW n \in There(w) PROVE \E i \in 1 .. Len(q) : q[i].number = n
  <2>1. n \in 1 .. Len(s) /\ s[n] \in S
    BY <1>2, <1>3, <1>4, <1>11 DEF There
  <2>2. PICK i \in 1 .. Len(q) : e[i] = n
    BY <1>7, <2>1
  <2>. QED BY <1>8, <2>2
<1>12. \A i \in 1 .. Len(q) : q[i].number \in There(w) /\ q[i].val = w[q[i].number]
  BY <1>8 DEF There
<1>13. w \in [Ents -> States]
  BY <1>1 DEF States
<1>. QED BY <1>9, <1>10, <1>11, <1>12, <1>13 DEF Tells, q

-----------------------------------------------------------------------------
(* The ring of entities *)

\* What a round of all clients' frames may take of the ring, so that a record lasts as
\* long as it is used.
Share == maxclients * MAX_SNAP_ENTITIES

\* The ring of entities has room for UPDATE_BACKUP shares.
LEMMA RingFacts ==
  /\ Share \in Nat \ {0} /\ num_entities \in Nat \ {0} /\ num_entities = UPDATE_BACKUP * Share
  /\ UPDATE_BACKUP \in Nat /\ UPDATE_BACKUP >= 1 /\ Share <= num_entities
<1>1. /\ maxclients \in Nat \ {0} /\ MAX_SNAP_ENTITIES \in Nat \ {0}
      /\ UPDATE_BACKUP \in Nat \ {0}
  BY SizesAssumption
<1>2. \A a, b \in Nat \ {0} : a * b \in Nat \ {0} /\ b <= a * b
  <2>1. SUFFICES ASSUME NEW a \in Nat \ {0}, NEW b \in Nat \ {0}
                 PROVE  a * b \in Nat \ {0} /\ b <= a * b
    OBVIOUS
  <2>2. a * b = (a - 1) * b + b
    OBVIOUS
  <2>3. a - 1 \in Nat /\ (a - 1) * b \in Nat
    OBVIOUS
  <2>. QED BY <2>2, <2>3
<1>3. Share \in Nat \ {0}
  BY <1>1, <1>2 DEF Share
<1>4. num_entities = UPDATE_BACKUP * Share
  BY <1>1 DEF num_entities, Share
<1>. QED BY <1>1, <1>2, <1>3, <1>4

\* The ring has its size whatever is put there.
LEMMA StoredDomain ==
  ASSUME NEW ring, DOMAIN ring = 0 .. num_entities - 1, NEW n, NEW list
  PROVE  DOMAIN Stored(ring, n, list) = 0 .. num_entities - 1
BY DEF Stored

\* What is put into the ring is found in its place.
LEMMA StoredNew ==
  ASSUME NEW ring, DOMAIN ring = 0 .. num_entities - 1, NEW n \in Int, NEW list,
         Len(list) \in 0 .. num_entities, NEW a \in Int, n <= a, a < n + Len(list)
  PROVE  Stored(ring, n, list)[a % num_entities] = list[a - n + 1]
<1>. DEFINE N == num_entities
            i == a % N
            L == Len(list)
<1>1. N \in Nat \ {0} /\ L \in 0 .. N
  BY RingFacts
<1>2. i \in 0 .. N - 1 /\ \E p \in Int : a = N * p + i
  <2>. HIDE DEF N
  <2>. QED BY <1>1, Remainder
<1>3. PICK p \in Int : a = N * p + i
  BY <1>2
<1>4. Stored(ring, n, list)[i] = IF (i - n) % N < L THEN list[((i - n) % N) + 1] ELSE ring[i]
  BY <1>2 DEF Stored
<1>. HIDE DEF N, i, L
<1>5. i - n = N * (-p) + (a - n) /\ a - n \in 0 .. N - 1 /\ -p \in Int /\ i - n \in Int
  BY <1>1, <1>2, <1>3 DEF L
<1>6. (i - n) % N = a - n
  BY <1>1, <1>5, RemainderIs
<1>7. a - n < L
  BY <1>1 DEF L
<1>8. Stored(ring, n, list)[i] = list[a - n + 1]
  BY <1>4, <1>6, <1>7
<1>. QED BY <1>8 DEF i, N

\* What is less than a ring behind what is put there stays.
LEMMA StoredOld ==
  ASSUME NEW ring, DOMAIN ring = 0 .. num_entities - 1, NEW n \in Int, NEW list,
         Len(list) \in 0 .. num_entities, NEW a \in Int, a < n, a >= n + Len(list) - num_entities
  PROVE  Stored(ring, n, list)[a % num_entities] = ring[a % num_entities]
<1>. DEFINE N == num_entities
            i == a % N
            L == Len(list)
<1>1. N \in Nat \ {0} /\ L \in 0 .. N
  BY RingFacts
<1>2. i \in 0 .. N - 1 /\ \E p \in Int : a = N * p + i
  <2>. HIDE DEF N
  <2>. QED BY <1>1, Remainder
<1>3. PICK p \in Int : a = N * p + i
  BY <1>2
<1>4. Stored(ring, n, list)[i] = IF (i - n) % N < L THEN list[((i - n) % N) + 1] ELSE ring[i]
  BY <1>2 DEF Stored
<1>5. a >= n + L - N
  OBVIOUS
<1>. HIDE DEF N, i, L
<1>6. i - n = N * (-p - 1) + (a - n + N)
  BY <1>1, <1>2, <1>3
<1>7. a - n + N \in 0 .. N - 1 /\ -p - 1 \in Int /\ i - n \in Int
  BY <1>1, <1>2, <1>5
<1>8. (i - n) % N = a - n + N
  BY <1>1, <1>6, <1>7, RemainderIs
<1>9. ~(a - n + N < L)
  BY <1>1, <1>5
<1>10. Stored(ring, n, list)[i] = ring[i]
  BY <1>4, <1>8, <1>9
<1>. QED BY <1>10 DEF i, N

\* Two lists of the same entities are of one length and have them in the same places.
LEMMA SameNumbers ==
  ASSUME NEW D \in SUBSET Ents, NEW p, NEW g, Tells(p, g, D), NEW q, NEW h, Tells(q, h, D)
  PROVE  Len(p) = Len(q) /\ \A i \in 1 .. Len(p) : p[i].number = q[i].number
<1>1. /\ Len(p) \in Nat /\ Len(q) \in Nat /\ Sorted(p) /\ Sorted(q)
      /\ \A i \in 1 .. Len(p) : p[i].number \in D /\ p[i].number \in Nat
      /\ \A i \in 1 .. Len(q) : q[i].number \in D /\ q[i].number \in Nat
  BY TellsNumbers, EntityFacts
<1>2. /\ \A i \in 1 .. Len(p) : \E j \in 1 .. Len(q) : q[j].number = p[i].number
      /\ \A i \in 1 .. Len(q) : \E j \in 1 .. Len(p) : p[j].number = q[i].number
  BY <1>1 DEF Tells
<1>. DEFINE Bad == {i \in Nat : i \in 1 .. Len(p) /\ i \in 1 .. Len(q) /\ p[i].number # q[i].number}
<1>3. Bad = {}
  <2>1. SUFFICES ASSUME Bad # {} PROVE FALSE
    OBVIOUS
  <2>2. PICK i \in Bad : \A j \in Bad : i <= j
    BY <2>1, Smallest
  <2>3. \A j \in 1 .. i - 1 : p[j].number = q[j].number
    BY <1>1, <2>2
  <2>. DEFINE x == p[i].number
              y == q[i].number
  <2>4. i \in 1 .. Len(p) /\ i \in 1 .. Len(q) /\ x # y /\ x \in Nat /\ y \in Nat
    BY <1>1, <2>2
  <2>. HIDE DEF Bad, x, y
  <2>5. CASE x < y
    <3>1. PICK j \in 1 .. Len(q) : q[j].number = x
      BY <1>2, <2>4 DEF x
    <3>2. CASE j < i
      <4>1. p[j].number = x /\ j \in 1 .. Len(p) /\ p[j].number < x
        BY <1>1, <2>3, <2>4, <3>1, <3>2 DEF Sorted, x
      <4>. QED BY <1>1, <2>4, <4>1
    <3>3. CASE i < j
      <4>1. y < x
        BY <2>4, <3>1, <3>3, <1>1 DEF Sorted, y
      <4>. QED BY <2>4, <2>5, <4>1
    <3>. QED BY <1>1, <2>4, <3>1, <3>2, <3>3 DEF y
  <2>6. CASE y < x
    <3>1. PICK j \in 1 .. Len(p) : p[j].number = y
      BY <1>2, <2>4 DEF y
    <3>2. CASE j < i
      <4>1. q[j].number = y /\ j \in 1 .. Len(q) /\ q[j].number < y
        BY <1>1, <2>3, <2>4, <3>1, <3>2 DEF Sorted, y
      <4>. QED BY <1>1, <2>4, <4>1
    <3>3. CASE i < j
      <4>1. x < y
        BY <2>4, <3>1, <3>3, <1>1 DEF Sorted, x
      <4>. QED BY <2>4, <2>6, <4>1
    <3>. QED BY <1>1, <2>4, <3>1, <3>2, <3>3 DEF x
  <2>. QED BY <2>4, <2>5, <2>6
<1>4. \A i \in 1 .. Len(p) : i \in 1 .. Len(q) => p[i].number = q[i].number
  BY <1>1, <1>3
<1>. HIDE DEF Bad
<1>5. ~(Len(p) < Len(q))
  <2>1. SUFFICES ASSUME Len(p) < Len(q) PROVE FALSE
    OBVIOUS
  <2>. DEFINE i == Len(p) + 1
  <2>2. i \in 1 .. Len(q) /\ \A j \in 1 .. Len(p) : j \in 1 .. Len(q) /\ j < i
    BY <1>1, <2>1
  <2>. HIDE DEF i
  <2>3. PICK j \in 1 .. Len(p) : p[j].number = q[i].number
    BY <1>2, <2>2
  <2>4. q[j].number = q[i].number /\ q[j].number < q[i].number /\ q[i].number \in Nat
    BY <1>1, <1>4, <2>2, <2>3 DEF Sorted
  <2>. QED BY <2>4
<1>6. ~(Len(q) < Len(p))
  <2>1. SUFFICES ASSUME Len(q) < Len(p) PROVE FALSE
    OBVIOUS
  <2>. DEFINE i == Len(q) + 1
  <2>2. i \in 1 .. Len(p) /\ \A j \in 1 .. Len(q) : j \in 1 .. Len(p) /\ j < i
    BY <1>1, <2>1
  <2>. HIDE DEF i
  <2>3. PICK j \in 1 .. Len(q) : q[j].number = p[i].number
    BY <1>2, <2>2
  <2>4. p[j].number = p[i].number /\ p[j].number < p[i].number /\ p[i].number \in Nat
    BY <1>1, <1>4, <2>2, <2>3 DEF Sorted
  <2>. QED BY <2>4
<1>. QED BY <1>1, <1>4, <1>5, <1>6

-----------------------------------------------------------------------------
(* What the client sees *)

Plain == [Ents -> Vals \cup {Gone}]

\* g is w as shadowing may make it look.
Looks(g, w) ==
  /\ g \in [Ents -> States]
  /\ \A n \in Ents : /\ g[n] = Gone <=> w[n] = Gone
                     /\ g[n] \in {w[n], Garbage}
                     /\ n \notin Shadowable => g[n] = w[n]

\* ents lists what w may look like.
View(ents, w) == \E g : Looks(g, w) /\ Tells(ents, g, There(g))

\* A view that a message is put to becomes a view of the new world, if it was one of the
\* world that the message was made from.
LEMMA ParseLooks ==
  ASSUME NEW b \in Plain, NEW base, Tells(base, b, There(b)), NEW old, View(old, b),
         NEW w \in Worlds, NEW sh \in SUBSET Shadowable
  PROVE  View(SNAP_ParsePacketEntities(old, SNAP_EmitPacketEntities(base, EntityList(w), sh)), w)
<1>1. PICK g : Looks(g, b) /\ Tells(old, g, There(g))
  BY DEF View
<1>. DEFINE d == Seen(w, sh)
            D == {n \in Ents : d[n] # b[n]}
            h == [n \in Ents |-> IF n \in D THEN d[n] ELSE g[n]]
            msg == SNAP_EmitPacketEntities(base, EntityList(w), sh)
<1>2. /\ w \in [Ents -> Vals \cup {Gone}] /\ Garbage \notin Vals \cup {Gone} /\ Gone \notin Vals
      /\ Vals \cup {Gone} \subseteq States /\ Gone \in States /\ Garbage \in States
      /\ Plain = [Ents -> Vals \cup {Gone}]
  BY SizesAssumption DEF States, Plain
<1>3. /\ w \in [Ents -> States] /\ Tells(EntityList(w), w, There(w)) /\ b \in [Ents -> States]
      /\ g \in [Ents -> States]
  BY <1>1, <1>2, ListTells DEF Looks
<1>4. Tells(msg, d, D)
  BY <1>3, EmitTells
<1>5. ASSUME NEW n \in Ents
      PROVE  /\ h[n] \in States /\ h[n] = IF n \in D THEN d[n] ELSE g[n]
             /\ h[n] = Gone <=> w[n] = Gone
             /\ h[n] \in {w[n], Garbage}
             /\ n \notin Shadowable => h[n] = w[n]
  <2>1. d[n] = IF w[n] = Gone THEN Gone ELSE IF n \in sh THEN Garbage ELSE w[n]
    BY DEF Seen
  <2>2. /\ g[n] = Gone <=> b[n] = Gone
        /\ g[n] \in {b[n], Garbage}
        /\ n \notin Shadowable => g[n] = b[n]
    BY <1>1 DEF Looks
  <2>3. n \in D <=> d[n] # b[n]
    OBVIOUS
  <2>4. b[n] # Garbage /\ w[n] # Garbage /\ w[n] \in States /\ g[n] \in States
    BY <1>2, <1>3
  <2>5. h[n] = IF n \in D THEN d[n] ELSE g[n]
    OBVIOUS
  <2>. HIDE DEF d, D, h
  <2>6. CASE d[n] # b[n]
    BY <1>2, <2>1, <2>3, <2>4, <2>5, <2>6
  <2>7. CASE d[n] = b[n]
    <3>1. d[n] # Garbage /\ d[n] = w[n] /\ h[n] = g[n]
      BY <2>1, <2>3, <2>4, <2>5, <2>7
    <3>. QED BY <1>2, <2>2, <2>3, <2>4, <2>5, <2>7, <3>1
  <2>. QED BY <2>6, <2>7
<1>6. h \in [Ents -> States] /\ D \in SUBSET Ents
  BY <1>5
<1>. HIDE DEF d, D, h, msg
<1>7. \A n \in Ents : h[n] = IF n \in D THEN d[n] ELSE g[n]
  BY <1>5
<1>8. Tells(SNAP_ParsePacketEntities(old, msg), h, There(h))
  BY <1>1, <1>3, <1>4, <1>6, <1>7, ParseTells
<1>9. Looks(h, w)
  BY <1>5, <1>6 DEF Looks
<1>. QED BY <1>8, <1>9 DEF View, msg

\* A frame that is not compressed is put to nothing.
LEMMA WholeLooks ==
  ASSUME NEW w \in Worlds, NEW sh \in SUBSET Shadowable
  PROVE  View(SNAP_ParsePacketEntities(<<>>, SNAP_EmitPacketEntities(<<>>, EntityList(w), sh)), w)
<1>. DEFINE b == [n \in Ents |-> Gone]
<1>1. b \in Plain /\ b \in [Ents -> States] /\ There(b) = {}
  BY DEF Plain, States, There
<1>2. Tells(<<>>, b, {})
  BY DEF Tells, Sorted
<1>3. Looks(b, b)
  BY <1>1 DEF Looks
<1>. HIDE DEF b
<1>4. Tells(<<>>, b, There(b)) /\ View(<<>>, b)
  BY <1>1, <1>2, <1>3 DEF View
<1>. QED BY <1>1, <1>4, ParseLooks

\* A world looks like itself.
LEMMA OwnLooks ==
  ASSUME NEW w \in Worlds
  PROVE  w \in Plain /\ Tells(EntityList(w), w, There(w))
BY ListTells, SizesAssumption DEF Plain

\* A view has the entities of its world.
LEMMA ViewIs ==
  ASSUME NEW w \in Worlds, NEW ents, View(ents, w)
  PROVE  LET built == EntityList(w)
         IN  /\ Len(ents) = Len(built)
             /\ \A i \in DOMAIN ents : /\ ents[i].number = built[i].number
                                       /\ ents[i].val \in {built[i].val, Garbage}
             /\ \A i \in DOMAIN ents : ents[i].number \notin Shadowable => ents[i] = built[i]
<1>. DEFINE built == EntityList(w)
<1>1. PICK g : Looks(g, w) /\ Tells(ents, g, There(g))
  BY DEF View
<1>2. Tells(built, w, There(w)) /\ There(g) = There(w) /\ There(w) \in SUBSET Ents
  BY <1>1, ListTells DEF There, Looks
<1>. HIDE DEF built
<1>3. Len(ents) = Len(built) /\ \A i \in 1 .. Len(ents) : ents[i].number = built[i].number
  BY <1>1, <1>2, SameNumbers
<1>4. /\ DOMAIN ents = 1 .. Len(ents)
      /\ \A i \in 1 .. Len(ents) : ents[i].val = g[ents[i].number] /\ ents[i].number \in Ents /\ ents[i] \in Entity
      /\ \A i \in 1 .. Len(built) : built[i].val = w[built[i].number] /\ built[i] \in Entity
  <2>1. /\ ents \in Seq(Entity) /\ There(g) \in SUBSET Ents
        /\ \A i \in 1 .. Len(ents) : ents[i].val = g[ents[i].number] /\ ents[i].number \in Ents /\ ents[i] \in Entity
    BY <1>1, <1>2, TellsNumbers
  <2>2. \A i \in 1 .. Len(built) : built[i].val = w[built[i].number] /\ built[i] \in Entity
    BY <1>2, TellsNumbers
  <2>. QED BY <2>1, <2>2
<1>5. ASSUME NEW i \in 1 .. Len(ents)
      PROVE  /\ ents[i].number = built[i].number
             /\ ents[i].val \in {built[i].val, Garbage}
             /\ ents[i].number \notin Shadowable => ents[i] = built[i]
  <2>. DEFINE n == ents[i].number
  <2>1. /\ n \in Ents /\ n = built[i].number /\ ents[i].val = g[n] /\ built[i].val = w[n]
        /\ ents[i] \in Entity /\ built[i] \in Entity
    BY <1>3, <1>4
  <2>2. g[n] \in {w[n], Garbage} /\ (n \notin Shadowable => g[n] = w[n])
    BY <1>1, <2>1 DEF Looks
  <2>. QED BY <2>1, <2>2, SameEntity
<1>. QED BY <1>3, <1>4, <1>5 DEF built

-----------------------------------------------------------------------------
(* The state is well formed *)

\* What the state is made of; what else TypeOK says follows from the other invariants.
TypeInv ==
  /\ framenum <= MaxFrame /\ lastframe >= -1
  /\ \A i \in 1 .. Len(up) : up[i] >= -1
  /\ entities \in [0 .. num_entities - 1 -> Entity]
  /\ next_entities \in Nat
  /\ snapShots \in [Slots -> Snap]
  /\ nodelta \in BOOLEAN /\ nodelta_frame \in 0 .. MaxFrame
  /\ gameCommandCurrent \in 0 .. MaxCommand
  /\ \A i \in 1 .. Len(down) : down[i].world \in Worlds /\ down[i].news \in Seq(Entity)
  /\ \A s \in Slots : backup[s].world \in Worlds /\ backup[s].ents \in Seq(Entity)
  /\ precacheDone \in BOOLEAN

\* The ring holds entities whatever list of them is put there.
LEMMA StoredType ==
  ASSUME NEW ring \in [0 .. num_entities - 1 -> Entity], NEW n \in Int, NEW list \in Seq(Entity)
  PROVE  Stored(ring, n, list) \in [0 .. num_entities - 1 -> Entity]
<1>1. ASSUME NEW i \in 0 .. num_entities - 1
      PROVE  (IF (i - n) % num_entities < Len(list) THEN list[((i - n) % num_entities) + 1] ELSE ring[i]) \in Entity
  <2>. DEFINE N == num_entities
              k == (i - n) % N
  <2>1. N \in Nat \ {0} /\ i - n \in Int
    BY RingFacts
  <2>2. k \in 0 .. N - 1
    <3>. HIDE DEF N
    <3>. QED BY <2>1, Remainder
  <2>. HIDE DEF N, k
  <2>3. CASE k < Len(list)
    <3>1. k + 1 \in 1 .. Len(list)
      BY <2>1, <2>2, <2>3
    <3>2. list[k + 1] \in Entity
      BY <3>1, ElementOfSeq
    <3>. QED BY <2>3, <3>2 DEF k, N
  <2>4. CASE ~(k < Len(list))
    BY <2>4 DEF k, N
  <2>. QED BY <2>3, <2>4
<1>2. DOMAIN ring = 0 .. num_entities - 1
  OBVIOUS
<1>. QED BY <1>1, <1>2 DEF Stored

\* What a record points to is a list of entities.
LEMMA KeptType ==
  ASSUME NEW ring \in [0 .. num_entities - 1 -> Entity], NEW snap, snap.num \in Nat, snap.first \in Nat
  PROVE  Kept(ring, snap) \in Seq(Entity)
<1>1. ASSUME NEW k \in 1 .. snap.num PROVE ring[(snap.first + k - 1) % num_entities] \in Entity
  <2>1. num_entities \in Nat \ {0} /\ snap.first + k - 1 \in Int
    BY RingFacts
  <2>2. (snap.first + k - 1) % num_entities \in 0 .. num_entities - 1
    BY <2>1, Remainder
  <2>. QED BY <2>2
<1>2. Kept(ring, snap) \in [1 .. snap.num -> Entity]
  BY <1>1 DEF Kept
<1>. QED BY <1>2, SeqDef

\* What other clients' frames put into the ring.
LEMMA OthersType ==
  ASSUME NEW taken \in Nat
  PROVE  Others(taken) \in Seq(Entity) /\ Len(Others(taken)) = taken
<1>1. Others(taken) \in [1 .. taken -> Entity]
  BY DEF Others, Entity
<1>2. Others(taken) \in Seq(Entity)
  BY <1>1, SeqDef
<1>. QED BY <1>1, <1>2, LenProperties

\* What a frame that goes out is made of.
LEMMA SendTypes ==
  ASSUME Inv, TypeInv, NEW w \in Worlds, NEW sh, NEW taken \in OtherTakes, NEW unfit,
         NEW lost \in BOOLEAN, SV_SendClientDatagram(w, sh, taken, unfit, lost)
  PROVE  TypeInv'
<1>. DEFINE f == framenum + 1
            list == EntityList(w)
            first == next_entities + taken
            ring == Stored(Stored(entities, next_entities, Others(taken)), first, list)
            base(nd) == IF OldFrame(f, nd) = <<>> THEN <<>> ELSE Kept(ring, OldFrame(f, nd)[1])
            news(nd) == SNAP_EmitPacketEntities(base(nd), list, sh)
            m(nd, cmds) == [frame |-> f, deltaFrameNum |-> lastframe, delta |-> OldFrame(f, nd) # <<>>,
                            news |-> news(nd), cmds |-> cmds, world |-> w]
<1>1. framenum < MaxFrame /\ framenum' = f /\ entities' = ring /\ next_entities' = first + Len(list)
  BY DEF SV_SendClientDatagram
<1>2. snapShots' = [snapShots EXCEPT ![Slot(f)] = [frame |-> f, first |-> first, num |-> Len(list)]]
  BY DEF SV_SendClientDatagram
<1>3. UNCHANGED <<lastframe, gameCommandCurrent, up, backup, precacheDone>>
  BY DEF SV_SendClientDatagram, commandVars, clientVars
<1>4. nodelta' \in BOOLEAN /\ nodelta_frame' \in {f, nodelta_frame}
  BY DEF SV_SendClientDatagram
<1>5. PICK nd, cmds : down' = IF lost THEN down ELSE Append(down, m(nd, cmds))
  BY DEF SV_SendClientDatagram
<1>6. /\ taken \in Nat /\ MaxFrame \in Nat /\ framenum \in Nat /\ f \in Nat /\ Slot(f) \in Slots
      /\ next_entities \in Nat
  BY SizesAssumption, SlotFacts DEF Inv, Numbers, TypeInv
<1>7. list \in Seq(Entity) /\ Len(list) \in Nat
  BY ListTells DEF Tells
<1>8. ring \in [0 .. num_entities - 1 -> Entity]
  <2>. DEFINE r == Stored(entities, next_entities, Others(taken))
  <2>1. r \in [0 .. num_entities - 1 -> Entity]
    <3>1. Others(taken) \in Seq(Entity) /\ next_entities \in Int
      BY <1>6, OthersType
    <3>2. entities \in [0 .. num_entities - 1 -> Entity]
      BY DEF TypeInv
    <3>. QED BY <3>1, <3>2, StoredType
  <2>2. first \in Int
    BY <1>6
  <2>. HIDE DEF r, first, list
  <2>3. Stored(r, first, list) \in [0 .. num_entities - 1 -> Entity]
    BY <1>7, <2>1, <2>2, StoredType
  <2>. QED BY <2>3 DEF r, first
<1>9. base(nd) \in Seq(Entity)
  <2>1. CASE OldFrame(f, nd) = <<>>
    BY <2>1
  <2>2. CASE OldFrame(f, nd) # <<>>
    <3>1. lastframe \in Nat /\ OldFrame(f, nd)[1] = snapShots[Slot(lastframe)]
      BY <2>2 DEF OldFrame, Inv, Numbers
    <3>2. snapShots[Slot(lastframe)] \in Snap
      BY <3>1, SlotFacts DEF TypeInv
    <3>. DEFINE r == OldFrame(f, nd)[1]
    <3>3. r.num \in Nat /\ r.first \in Nat
      BY <3>1, <3>2 DEF Snap
    <3>. HIDE DEF r, ring
    <3>4. Kept(ring, r) \in Seq(Entity)
      BY <1>8, <3>3, KeptType
    <3>. QED BY <2>2, <3>4 DEF r
  <2>. QED BY <2>1, <2>2
<1>10. news(nd) \in Seq(Entity)
  <2>. HIDE DEF base, list
  <2>. QED BY <1>7, <1>9, DeltaTypes
<1>. HIDE DEF ring, base, news, list
<1>11. \A i \in 1 .. Len(down') : down'[i].world \in Worlds /\ down'[i].news \in Seq(Entity)
  <2>1. CASE lost
    BY <1>5, <2>1 DEF TypeInv
  <2>2. CASE ~lost
    <3>1. m(nd, cmds).world \in Worlds /\ m(nd, cmds).news \in Seq(Entity)
      BY <1>10
    <3>. HIDE DEF m
    <3>2. /\ Len(down') = Len(down) + 1 /\ Len(down) \in Nat
          /\ \A i \in 1 .. Len(down) : down'[i] = down[i]
          /\ down'[Len(down) + 1] = m(nd, cmds)
      BY <1>5, <2>2, AppendProperties DEF Inv, DownInv
    <3>. QED BY <3>1, <3>2 DEF TypeInv
  <2>. QED BY <2>1, <2>2
<1>12. snapShots' \in [Slots -> Snap]
  <2>1. [frame |-> f, first |-> first, num |-> Len(list)] \in Snap
    BY <1>1, <1>6, <1>7 DEF Snap
  <2>. QED BY <1>2, <1>6, <2>1 DEF TypeInv
<1>13. framenum' <= MaxFrame /\ nodelta_frame' \in 0 .. MaxFrame /\ next_entities' \in Nat
  BY <1>1, <1>4, <1>6, <1>7 DEF TypeInv
<1>. QED BY <1>1, <1>3, <1>4, <1>8, <1>11, <1>12, <1>13 DEF TypeInv

\* What the client makes of a frame is a list of entities.
LEMMA ParseTypes ==
  ASSUME Inv, TypeInv, CL_ParseFrame
  PROVE  TypeInv'
<1>. DEFINE m == down[1]
            old == IF m.delta THEN backup[Slot(m.deltaFrameNum)].ents ELSE <<>>
            ents == IF ValidFrame(m) THEN SNAP_ParsePacketEntities(old, m.news) ELSE <<>>
<1>1. /\ down # <<>> /\ Len(down) \in Nat \ {0} /\ Head(down) = m /\ 1 \in 1 .. Len(down)
      /\ down' = Tail(down)
  BY DEF CL_ParseFrame, Inv, DownInv
<1>2. /\ Len(down') = Len(down) - 1
      /\ \A i \in 1 .. Len(down') : down'[i] = down[i + 1] /\ i + 1 \in 1 .. Len(down)
  BY <1>1 DEF Inv, DownInv
<1>3. UNCHANGED <<framenum, lastframe, up, entities, next_entities, snapShots, nodelta, nodelta_frame,
                  gameCommandCurrent, precacheDone>>
  BY DEF CL_ParseFrame, serverVars, ackVars, commandVars
<1>4. PICK cmds : backup' = [backup EXCEPT ![Slot(m.frame)] =
         [valid |-> ValidFrame(m), frame |-> m.frame, ents |-> ents, cmds |-> cmds, world |-> m.world]]
  BY <1>1 DEF CL_ParseFrame
<1>5. /\ DOMAIN backup = Slots /\ m.world \in Worlds /\ m.news \in Seq(Entity)
      /\ m.delta => m.deltaFrameNum \in Nat
  BY <1>1 DEF Inv, RingInv, TypeInv, DownInv, DeltaInv
<1>6. old \in Seq(Entity)
  BY <1>5, SlotFacts DEF TypeInv
<1>7. ents \in Seq(Entity)
  <2>. HIDE DEF old, m
  <2>. QED BY <1>5, <1>6, DeltaTypes
<1>. HIDE DEF ents, old, m
<1>8. \A s \in Slots : backup'[s].world \in Worlds /\ backup'[s].ents \in Seq(Entity)
  BY <1>4, <1>5, <1>7 DEF TypeInv
<1>9. \A i \in 1 .. Len(down') : down'[i].world \in Worlds /\ down'[i].news \in Seq(Entity)
  BY <1>2 DEF TypeInv
<1>. QED BY <1>3, <1>8, <1>9 DEF TypeInv

\* The state is made of what it should be: the invariant.
THEOREM TypeInvariance == Spec => []TypeInv
<1>1. Init => TypeInv
  <2>1. SUFFICES ASSUME Init PROVE TypeInv
    OBVIOUS
  <2>2. /\ MaxFrame \in Nat /\ MaxCommand \in Nat /\ (CHOOSE w \in Worlds : TRUE) \in Worlds
    BY SizesAssumption
  <2>3. entities \in [0 .. num_entities - 1 -> Entity]
    BY <2>1 DEF Init, Entity
  <2>4. snapShots \in [Slots -> Snap]
    BY <2>1, <2>2 DEF Init, Snap, NoSnap
  <2>5. \A s \in Slots : backup[s].world \in Worlds /\ backup[s].ents \in Seq(Entity)
    <3>1. NoFrame.world \in Worlds /\ NoFrame.ents \in Seq(Entity)
      BY <2>2 DEF NoFrame
    <3>2. \A s \in Slots : backup[s] = NoFrame
      BY <2>1 DEF Init
    <3>. QED BY <3>1, <3>2
  <2>6. Len(up) = 0 /\ Len(down) = 0
    BY <2>1 DEF Init
  <2>7. /\ \A i \in 1 .. Len(up) : up[i] >= -1
        /\ \A i \in 1 .. Len(down) : down[i].world \in Worlds /\ down[i].news \in Seq(Entity)
    BY <2>6
  <2>8. /\ framenum <= MaxFrame /\ lastframe >= -1 /\ next_entities \in Nat
        /\ nodelta \in BOOLEAN /\ nodelta_frame \in 0 .. MaxFrame
        /\ gameCommandCurrent \in 0 .. MaxCommand /\ precacheDone \in BOOLEAN
    <3>1. /\ framenum = 0 /\ lastframe = -1 /\ next_entities = 0 /\ nodelta = FALSE
          /\ nodelta_frame = 0 /\ gameCommandCurrent = 0 /\ precacheDone = FALSE
      BY ONLY <2>1 DEF Init
    <3>2. framenum <= MaxFrame /\ lastframe >= -1 /\ next_entities \in Nat
      BY ONLY <2>2, <3>1
    <3>3. nodelta_frame \in 0 .. MaxFrame /\ gameCommandCurrent \in 0 .. MaxCommand
      BY ONLY <2>2, <3>1
    <3>4. nodelta \in BOOLEAN /\ precacheDone \in BOOLEAN
      BY ONLY <3>1
    <3>. QED BY <3>2, <3>3, <3>4
  <2>. QED BY <2>3, <2>4, <2>5, <2>7, <2>8 DEF TypeInv
<1>2. Inv /\ TypeInv /\ [Next]_vars => TypeInv'
  <2>1. SUFFICES ASSUME Inv, TypeInv, [Next]_vars PROVE TypeInv'
    OBVIOUS
  <2>. DEFINE rest == <<framenum, entities, next_entities, snapShots, down, backup>>
  <2>2. CASE SV_AddGameCommand
    <3>1. UNCHANGED rest /\ UNCHANGED <<lastframe, up, nodelta, nodelta_frame, precacheDone>>
      BY <2>2 DEF SV_AddGameCommand, serverVars, ackVars, clientVars
    <3>2. gameCommandCurrent' \in 0 .. MaxCommand
      <4>1. gameCommandCurrent < MaxCommand /\ gameCommandCurrent' = gameCommandCurrent + 1
        BY <2>2 DEF SV_AddGameCommand
      <4>2. MaxCommand \in Nat /\ gameCommandCurrent \in 0 .. MaxCommand
        BY <2>1, SizesAssumption DEF TypeInv
      <4>. QED BY <4>1, <4>2
    <3>. QED BY <2>1, <3>1, <3>2 DEF TypeInv
  <2>3. CASE SV_NoDelta_f
    <3>1. /\ UNCHANGED rest /\ UNCHANGED <<up, gameCommandCurrent, precacheDone>>
          /\ nodelta' = TRUE /\ nodelta_frame' = 0 /\ lastframe' = -1
      BY <2>3 DEF SV_NoDelta_f, serverVars, commandVars, clientVars
    <3>2. MaxFrame \in Nat
      BY SizesAssumption
    <3>. QED BY <2>1, <3>1, <3>2 DEF TypeInv
  <2>4. CASE SV_ParseMoveCommand
    <3>1. /\ UNCHANGED rest /\ UNCHANGED <<nodelta, nodelta_frame, gameCommandCurrent, precacheDone>>
          /\ lastframe' = Head(up) /\ up' = Tail(up) /\ up # <<>> /\ up \in Seq(Int)
      BY <2>1, <2>4 DEF SV_ParseMoveCommand, serverVars, commandVars, clientVars, Inv, UpInv
    <3>2. lastframe' >= -1 /\ \A i \in 1 .. Len(up') : up'[i] >= -1
      <4>1. /\ Len(up) \in Nat \ {0} /\ 1 \in 1 .. Len(up) /\ Head(up) = up[1]
            /\ \A i \in 1 .. Len(up') : up'[i] = up[i + 1] /\ i + 1 \in 1 .. Len(up)
        BY <3>1
      <4>. QED BY <2>1, <3>1, <4>1 DEF TypeInv
    <3>. QED BY <2>1, <3>1, <3>2 DEF TypeInv
  <2>5. CASE CL_WriteUcmdsToMessage
    <3>. DEFINE a == IF receivedSnapNum <= 0 THEN -1 ELSE backup[Slot(receivedSnapNum)].frame
    <3>1. /\ UNCHANGED rest
          /\ UNCHANGED <<lastframe, nodelta, nodelta_frame, gameCommandCurrent, precacheDone>>
          /\ up' = Append(up, a) /\ up \in Seq(Int)
      BY <2>1, <2>5 DEF CL_WriteUcmdsToMessage, serverVars, ackVars, commandVars, clientVars, Inv, UpInv
    <3>2. a \in Int /\ a >= -1
      BY <2>1, SlotFacts DEF Inv, Numbers, RingInv
    <3>. HIDE DEF a
    <3>3. /\ Len(up') = Len(up) + 1 /\ Len(up) \in Nat
          /\ \A i \in 1 .. Len(up) : up'[i] = up[i]
          /\ up'[Len(up) + 1] = a
      BY <3>1, <3>2, AppendProperties
    <3>4. \A i \in 1 .. Len(up') : up'[i] >= -1
      BY <2>1, <3>2, <3>3 DEF TypeInv
    <3>. QED BY <2>1, <3>1, <3>4 DEF TypeInv
  <2>6. CASE CG_Precache \/ (\E reached \in BOOLEAN : CL_Frame(reached)) \/ UNCHANGED vars
    <3>1. UNCHANGED rest /\ UNCHANGED <<lastframe, up, nodelta, nodelta_frame, gameCommandCurrent>>
      BY <2>6 DEF CG_Precache, CL_Frame, serverVars, ackVars, commandVars, clientVars, vars
    <3>2. precacheDone' \in BOOLEAN
      BY <2>1, <2>6 DEF CG_Precache, CL_Frame, clientVars, vars, TypeInv
    <3>. QED BY <2>1, <3>1, <3>2 DEF TypeInv
  <2>7. CASE CL_ParseFrame
    BY <2>1, <2>7, ParseTypes
  <2>8. CASE \E w \in Worlds, sh \in SUBSET Shadowable, taken \in OtherTakes,
               unfit \in (IF Flood THEN SUBSET (1 .. gameCommandCurrent) ELSE {{}}),
               lost \in BOOLEAN : SV_SendClientDatagram(w, sh, taken, unfit, lost)
    BY <2>1, <2>8, SendTypes
  <2>. QED BY <2>1, <2>2, <2>3, <2>4, <2>5, <2>6, <2>7, <2>8 DEF Next
<1>. QED BY <1>1, <1>2, Invariance, PTL DEF Spec

\* The numbers of frames that either end keeps are of frames that were sent, the ring of
\* entities holds entities only, and what either end keeps of a frame is what a frame is.
THEOREM TypeCorrect == Spec => []TypeOK
<1>1. Inv /\ OnceInv /\ TypeInv => TypeOK
  <2>1. SUFFICES ASSUME Inv, OnceInv, TypeInv PROVE TypeOK
    OBVIOUS
  <2>2. /\ framenum \in 0 .. MaxFrame /\ MaxFrame \in Nat /\ receivedSnapNum \in 0 .. framenum
        /\ lastframe \in Int /\ Had(lastframe)
    BY <2>1, SizesAssumption DEF Inv, Numbers, TypeInv
  <2>3. \A a \in Int : Had(a) /\ a >= -1 => a \in -1 .. MaxFrame
    BY <2>2 DEF Had
  <2>4. lastframe \in -1 .. MaxFrame /\ \A i \in DOMAIN up : up[i] \in -1 .. MaxFrame
    <3>1. up \in Seq(Int) /\ DOMAIN up = 1 .. Len(up)
      BY <2>1 DEF Inv, UpInv
    <3>. QED BY <2>1, <2>2, <2>3, <3>1, ElementOfSeq DEF TypeInv, Inv, UpInv
  <2>5. /\ \A s \in Slots : backup[s].frame \in 0 .. MaxFrame /\ backup[s].world \in Worlds
        /\ \A s \in Slots : \A i \in DOMAIN backup[s].ents : backup[s].ents[i] \in Entity
    <3>1. \A s \in Slots : backup[s].frame \in 0 .. MaxFrame /\ backup[s].world \in Worlds
      BY <2>1, <2>2 DEF TypeInv, Inv, RingInv
    <3>2. ASSUME NEW s \in Slots, NEW i \in DOMAIN backup[s].ents PROVE backup[s].ents[i] \in Entity
      <4>1. backup[s].ents \in Seq(Entity)
        BY <2>1 DEF TypeInv
      <4>. QED BY <4>1, ElementOfSeq
    <3>. QED BY <3>1, <3>2
  <2>6. {receivedSnapNum, pendingSnapNum, currentSnapNum} \subseteq 0 .. MaxFrame
    <3>1. currentSnapNum \in 0 .. receivedSnapNum /\ pendingSnapNum \in Nat
      BY <2>1 DEF OnceInv, ShowInv
    <3>2. pendingSnapNum \in 0 .. MaxFrame
      <4>1. Slot(pendingSnapNum) \in Slots
        BY <3>1, SlotFacts
      <4>. QED BY <2>1, <2>2, <2>5, <3>1, <4>1 DEF OnceInv, ShowInv
    <3>. QED BY <2>2, <3>1, <3>2
  <2>7. /\ gameCommandCurrent \in 0 .. MaxCommand /\ lastSentFrameNum \in 0 .. MaxFrame
        /\ \A i \in DOMAIN gameCommands : gameCommands[i] \in Command
    <3>1. /\ lastSentFrameNum = framenum /\ MaxCommand \in Nat
          /\ gameCommands \in [0 .. MAX_RELIABLE_COMMANDS - 1 -> [id : Nat, framenum : Nat]]
      BY <2>1, SizesAssumption DEF OnceInv, KeepInv
    <3>2. gameCommandCurrent \in 0 .. MaxCommand
      BY <2>1 DEF TypeInv
    <3>3. ASSUME NEW i \in 0 .. MAX_RELIABLE_COMMANDS - 1 PROVE gameCommands[i] \in Command
      <4>1. gameCommands[i] \in [id : Nat, framenum : Nat]
        BY <3>1
      <4>2. gameCommands[i].id # 0 => Known(gameCommands[i])
        BY DEF Known
      <4>3. gameCommands[i].id \in 0 .. MaxCommand
        BY <2>1, <3>1, <3>2, <4>1, <4>2 DEF OnceInv, KnownInv
      <4>. QED BY <4>1, <4>3 DEF Command
    <3>. QED BY <2>2, <3>1, <3>2, <3>3
  <2>8. DOMAIN entities = 0 .. num_entities - 1 /\ \A i \in DOMAIN entities : entities[i] \in Entity
    BY <2>1 DEF TypeInv
  <2>. QED BY <2>1, <2>2, <2>4, <2>5, <2>6, <2>7, <2>8 DEF TypeOK, TypeInv
<1>. QED BY Invariance, CommandInvariance, TypeInvariance, <1>1, PTL

-----------------------------------------------------------------------------
(* The client sees what the server built *)

\* The frames of all clients in the time of one take no more than a share of the ring:
\* what the guess that sizes it is to ensure.
RingLasts == \A t \in OtherTakes, w \in Worlds : t + Len(EntityList(w)) <= Share

\* A frame f of the world w is on its way or at the client.
Made(f, w) ==
  \/ \E i \in 1 .. Len(down) : down[i].frame = f /\ down[i].world = w
  \/ \E s \in Slots : backup[s].frame = f /\ f # 0 /\ backup[s].world = w

\* The server's record of frame f is of the world w, and all of it is still in the ring.
Recorded(f, w) ==
  /\ snapShots[Slot(f)].num = Len(EntityList(w))
  /\ snapShots[Slot(f)].first + snapShots[Slot(f)].num <= next_entities
  /\ next_entities <= snapShots[Slot(f)].first + (framenum - f + 1) * Share
  /\ \A k \in 1 .. Len(EntityList(w)) :
       entities[(snapShots[Slot(f)].first + k - 1) % num_entities] = EntityList(w)[k]

MadeInv ==
  \A f, w : Made(f, w) => /\ w \in Worlds /\ f \in 1 .. framenum
                          /\ f > framenum - UPDATE_BACKUP => Recorded(f, w)

\* m says what became of the world that it is compressed against, or all there is.
Says(m, sh) ==
  /\ ~m.delta => m.news = SNAP_EmitPacketEntities(<<>>, EntityList(m.world), sh)
  /\ m.delta => \A w : Made(m.deltaFrameNum, w) =>
                  m.news = SNAP_EmitPacketEntities(EntityList(w), EntityList(m.world), sh)

NewsInv == \A i \in 1 .. Len(down) : \E sh \in SUBSET Shadowable : Says(down[i], sh)

ViewInv == \A s \in Slots : backup[s].valid => View(backup[s].ents, backup[s].world)

FaithInv == RingLasts /\ MadeInv /\ NewsInv /\ ViewInv

\* The other steps change nothing that this speaks of.
LEMMA FaithStutter ==
  ASSUME FaithInv, UNCHANGED <<framenum, entities, next_entities, snapShots, down, backup>>
  PROVE  FaithInv'
<1>1. (\A f, w : Made(f, w)' <=> Made(f, w)) /\ (\A f, w : Recorded(f, w)' <=> Recorded(f, w))
  BY DEF Made, Recorded
<1>2. MadeInv' /\ ViewInv'
  BY <1>1 DEF FaithInv, MadeInv, ViewInv
<1>3. NewsInv'
  BY <1>1 DEF FaithInv, NewsInv, Says
<1>. QED BY <1>2, <1>3 DEF FaithInv, RingLasts

\* A record of entries that are in the ring is a list of them.
LEMMA KeptIs ==
  ASSUME NEW ring, NEW snap, NEW list \in Seq(Entity), snap.num = Len(list),
         \A k \in 1 .. Len(list) : ring[(snap.first + k - 1) % num_entities] = list[k]
  PROVE  Kept(ring, snap) = list
<1>1. Kept(ring, snap) = [k \in 1 .. Len(list) |-> list[k]]
  BY DEF Kept
<1>. QED BY <1>1

\* Records outlive what a frame puts into the ring as long as they are used.
LEMMA SendRecords ==
  ASSUME Inv, TypeInv, FaithInv, NEW w \in Worlds, NEW sh, NEW taken \in OtherTakes, NEW unfit,
         NEW lost \in BOOLEAN, SV_SendClientDatagram(w, sh, taken, unfit, lost)
  PROVE  /\ \A g : g = framenum + 1 => Recorded(g, w)'
         /\ \A g, v : /\ g \in 1 .. framenum /\ v \in Worlds
                      /\ g > (framenum + 1) - UPDATE_BACKUP /\ Recorded(g, v)
                     => Recorded(g, v)' /\ snapShots'[Slot(g)] = snapShots[Slot(g)]
<1>. DEFINE f == framenum + 1
            list == EntityList(w)
            L == Len(list)
            N == num_entities
            S == Share
            U == UPDATE_BACKUP
            next == next_entities
            first == next + taken
            mid == Stored(entities, next, Others(taken))
            ring == Stored(mid, first, list)
            new == [frame |-> f, first |-> first, num |-> L]
<1>1. framenum' = f /\ entities' = ring /\ next_entities' = first + L
  BY DEF SV_SendClientDatagram
<1>2. snapShots' = [snapShots EXCEPT ![Slot(f)] = new]
  BY DEF SV_SendClientDatagram
<1>3. /\ taken \in Nat /\ framenum \in Nat /\ f \in Nat /\ Slot(f) \in Slots /\ next \in Nat
      /\ DOMAIN entities = 0 .. N - 1 /\ snapShots \in [Slots -> Snap]
  BY SizesAssumption, SlotFacts DEF Inv, Numbers, TypeInv
<1>4. list \in Seq(Entity) /\ L \in Nat /\ taken + L <= S /\ S <= N /\ S \in Nat /\ N \in Nat
      /\ N = U * S /\ U \in Nat
  BY ListTells, RingFacts DEF Tells, FaithInv, RingLasts
<1>5. Len(Others(taken)) = taken
  BY <1>3, OthersType
<1>6. ASSUME NEW a \in Int, a < next, a >= next + taken + L - N
      PROVE  ring[a % N] = entities[a % N]
  <2>1. DOMAIN mid = 0 .. N - 1 /\ mid[a % N] = entities[a % N]
    <3>1. Len(Others(taken)) \in 0 .. N /\ a >= next + Len(Others(taken)) - N /\ next \in Int
      BY <1>3, <1>4, <1>5, <1>6
    <3>. QED BY <1>3, <1>6, <3>1, StoredOld, StoredDomain
  <2>2. Len(list) \in 0 .. N /\ a < first /\ a >= first + Len(list) - N /\ first \in Int
    BY <1>3, <1>4, <1>6
  <2>. HIDE DEF mid, list, first
  <2>3. ring[a % N] = mid[a % N]
    BY <2>1, <2>2, StoredOld
  <2>. QED BY <2>1, <2>3
<1>7. ASSUME NEW k \in 1 .. L PROVE ring[(first + k - 1) % N] = list[k]
  <2>1. DOMAIN mid = 0 .. N - 1
    BY <1>3, StoredDomain
  <2>. DEFINE a == first + k - 1
  <2>2. /\ Len(list) \in 0 .. N /\ first \in Int /\ a \in Int /\ first <= a /\ a < first + Len(list)
        /\ a - first + 1 = k
    BY <1>3, <1>4
  <2>. HIDE DEF mid, list, first, a
  <2>3. ring[a % N] = list[a - first + 1]
    BY <2>1, <2>2, StoredNew
  <2>. QED BY <2>2, <2>3 DEF a
<1>. HIDE DEF ring, mid, list, N, S, U
<1>8. ASSUME NEW g, g = f PROVE Recorded(g, w)'
  <2>1. snapShots'[Slot(g)] = new
    BY <1>2, <1>3, <1>8
  <2>2. new.num = L /\ new.first = first
    OBVIOUS
  <2>. HIDE DEF new, first
  <2>3. framenum' - g + 1 = 1 /\ 1 * S = S
    BY <1>1, <1>3, <1>4, <1>8
  <2>4. first + L <= next_entities' /\ next_entities' <= first + (framenum' - g + 1) * S
    BY <1>1, <1>3, <1>4, <2>3 DEF first
  <2>5. \A k \in 1 .. L : entities'[(first + k - 1) % N] = list[k]
    BY <1>1, <1>7
  <2>. QED BY <2>1, <2>2, <2>4, <2>5 DEF Recorded, list, S, N
<1>9. ASSUME NEW g \in 1 .. framenum, NEW v \in Worlds, g > f - U, Recorded(g, v)
      PROVE  Recorded(g, v)' /\ snapShots'[Slot(g)] = snapShots[Slot(g)]
  <2>. DEFINE r == snapShots[Slot(g)]
              q == EntityList(v)
              c == framenum - g + 1
  <2>1. Slot(g) \in Slots /\ Slot(g) # Slot(f)
    BY <1>3, <1>4, <1>9, SlotFacts DEF U
  <2>2. snapShots'[Slot(g)] = r
    BY <1>2, <1>3, <2>1
  <2>3. r.first \in Nat /\ r.num \in Nat
    BY <1>3, <2>1 DEF Snap
  <2>4. /\ r.num = Len(q) /\ r.first + r.num <= next /\ next <= r.first + c * S
        /\ \A k \in 1 .. Len(q) : entities[(r.first + k - 1) % N] = q[k]
    BY <1>9 DEF Recorded, N, S
  <2>5. c \in Nat /\ c + 1 <= U /\ framenum' - g + 1 = c + 1
    BY <1>1, <1>3, <1>4, <1>9
  <2>. HIDE DEF r, q, c
  <2>6. (c + 1) * S = c * S + S /\ (c + 1) * S <= U * S /\ c * S \in Nat
    <3>1. U * S = (c + 1) * S + (U - (c + 1)) * S
      BY <1>4, <2>5
    <3>2. U - (c + 1) \in Nat
      BY <1>4, <2>5
    <3>3. \A d \in Nat : d * S \in Nat
      BY <1>4
    <3>4. (U - (c + 1)) * S \in Nat /\ (c + 1) * S \in Nat /\ c * S \in Nat
      BY <2>5, <3>2, <3>3
    <3>5. (c + 1) * S = c * S + S
      BY <1>4, <2>5
    <3>. QED BY <1>4, <3>1, <3>4, <3>5
  <2>. DEFINE x == (c + 1) * S
              y == c * S
              z == U * S
  <2>A. /\ x = y + S /\ x <= z /\ y \in Nat /\ z = N /\ x \in Nat
        /\ next <= r.first + y
    BY <1>4, <2>4, <2>6
  <2>. HIDE DEF x, y, z
  <2>I. /\ next \in Nat /\ taken \in Nat /\ L \in Nat /\ S \in Nat /\ N \in Nat
        /\ next_entities' = next + taken + L /\ taken + L <= S
        /\ r.first \in Nat /\ r.num \in Nat /\ r.first + r.num <= next
    BY <1>1, <1>3, <1>4, <2>3, <2>4
  <2>. HIDE DEF L, next
  <2>B. next_entities' <= r.first + x /\ r.first + r.num <= next_entities'
    BY ONLY <2>A, <2>I
  <2>7. next_entities' <= r.first + (c + 1) * S /\ r.first + r.num <= next_entities'
    BY <2>B DEF x
  <2>8. ASSUME NEW k \in 1 .. Len(q) PROVE ring[(r.first + k - 1) % N] = q[k]
    <3>. DEFINE a == r.first + k - 1
    <3>1. a \in Int /\ a < next /\ a >= next + taken + L - N
      <4>1. k \in Int /\ 1 <= k /\ k <= r.num
        BY <2>4, <2>I
      <4>. QED BY ONLY <2>A, <2>B, <2>I, <4>1, SMTT(30)
    <3>. HIDE DEF a
    <3>2. ring[a % N] = entities[a % N]
      BY <1>6, <3>1 DEF L, next
    <3>. QED BY <2>4, <3>2 DEF a
  <2>9. Recorded(g, v)'
    BY <1>1, <2>2, <2>4, <2>5, <2>7, <2>8 DEF Recorded, q, N, S, r
  <2>. QED BY <2>2, <2>9 DEF r
<1>10. \A g, v : /\ g \in 1 .. framenum /\ v \in Worlds
                  /\ g > (framenum + 1) - UPDATE_BACKUP /\ Recorded(g, v)
                 => Recorded(g, v)' /\ snapShots'[Slot(g)] = snapShots[Slot(g)]
  <2>1. SUFFICES ASSUME NEW g, NEW v, g \in 1 .. framenum, v \in Worlds,
                        g > (framenum + 1) - UPDATE_BACKUP, Recorded(g, v)
                 PROVE  Recorded(g, v)' /\ snapShots'[Slot(g)] = snapShots[Slot(g)]
    OBVIOUS
  <2>2. g > f - U
    BY ONLY <2>1 DEF U
  <2>. QED BY ONLY <1>9, <2>1, <2>2, Zenon
<1>11. \A g : g = framenum + 1 => Recorded(g, w)'
  BY <1>8
<1>. QED BY ONLY <1>10, <1>11, Zenon

\* A frame that goes out says what became of the world that the record it is compressed
\* against is of.
LEMMA SendFaith ==
  ASSUME Inv, TypeInv, FaithInv, NEW w \in Worlds, NEW sh \in SUBSET Shadowable,
         NEW taken \in OtherTakes, NEW unfit, NEW lost \in BOOLEAN,
         SV_SendClientDatagram(w, sh, taken, unfit, lost)
  PROVE  FaithInv'
<1>. DEFINE f == framenum + 1
            list == EntityList(w)
            old(nd) == OldFrame(f, nd)
            base(nd) == IF old(nd) = <<>> THEN <<>> ELSE Kept(entities', old(nd)[1])
            m(nd, cmds) == [frame |-> f, deltaFrameNum |-> lastframe, delta |-> old(nd) # <<>>,
                            news |-> SNAP_EmitPacketEntities(base(nd), list, sh),
                            cmds |-> cmds, world |-> w]
<1>1. framenum' = f /\ UNCHANGED backup /\ framenum \in Nat
  BY DEF SV_SendClientDatagram, clientVars, Inv, Numbers
<1>2. PICK nd, cmds : down' = IF lost THEN down ELSE Append(down, m(nd, cmds))
  <2>. DEFINE ring == Stored(Stored(entities, next_entities, Others(taken)), next_entities + taken, list)
  <2>1. entities' = ring
    BY DEF SV_SendClientDatagram
  <2>2. \E nd, cmds : down' = IF lost THEN down
                      ELSE Append(down, [frame |-> f, deltaFrameNum |-> lastframe, delta |-> old(nd) # <<>>,
                              news |-> SNAP_EmitPacketEntities(
                                         IF old(nd) = <<>> THEN <<>> ELSE Kept(ring, old(nd)[1]), list, sh),
                              cmds |-> cmds, world |-> w])
    BY DEF SV_SendClientDatagram
  <2>. HIDE DEF ring
  <2>. QED BY <2>1, <2>2
<1>N. PICK new : new = m(nd, cmds)
  OBVIOUS
<1>3. /\ new.frame = f /\ new.world = w /\ new.deltaFrameNum = lastframe
      /\ new.delta <=> old(nd) # <<>>
      /\ new.news = SNAP_EmitPacketEntities(base(nd), list, sh)
  BY <1>N
<1>4. /\ Len(down) \in Nat /\ \A i \in 1 .. Len(down) : down'[i] = down[i]
      /\ \/ down' = down
         \/ Len(down') = Len(down) + 1 /\ down'[Len(down) + 1] = new
  <2>1. PICK S : down \in Seq(S)
    BY DEF Inv, DownInv
  <2>. HIDE DEF m
  <2>. QED BY <1>2, <1>N, <2>1, AppendProperties
<1>5. ASSUME NEW i \in 1 .. Len(down')
      PROVE  \/ i \in 1 .. Len(down) /\ down'[i] = down[i]
             \/ i = Len(down) + 1 /\ down'[i] = new
  BY <1>4
<1>6. ASSUME NEW g, NEW v, Made(g, v)' PROVE Made(g, v) \/ (g = f /\ v = w)
  <2>1. CASE \E i \in 1 .. Len(down') : down'[i].frame = g /\ down'[i].world = v
    BY <1>3, <1>5, <2>1 DEF Made
  <2>2. CASE \E s \in Slots : backup'[s].frame = g /\ g # 0 /\ backup'[s].world = v
    BY <1>1, <2>2 DEF Made
  <2>. QED BY <1>6, <2>1, <2>2 DEF Made
<1>7. /\ \A g : g = framenum + 1 => Recorded(g, w)'
      /\ \A g, v : /\ g \in 1 .. framenum /\ v \in Worlds
                   /\ g > (framenum + 1) - UPDATE_BACKUP /\ Recorded(g, v)
                  => Recorded(g, v)' /\ snapShots'[Slot(g)] = snapShots[Slot(g)]
  BY SendRecords, Zenon
<1>U. UPDATE_BACKUP \in Nat \ {0} /\ UPDATE_MASK \in Nat /\ UPDATE_MASK < UPDATE_BACKUP
  BY SlotFacts
<1>8. ASSUME NEW g, NEW v, Made(g, v)
      PROVE  /\ v \in Worlds /\ g \in 1 .. framenum
             /\ g > f - UPDATE_BACKUP => /\ Recorded(g, v)'
                                         /\ snapShots'[Slot(g)] = snapShots[Slot(g)]
  <2>1. v \in Worlds /\ g \in 1 .. framenum /\ (g > framenum - UPDATE_BACKUP => Recorded(g, v))
    BY <1>8 DEF FaithInv, MadeInv
  <2>2. SUFFICES ASSUME g > f - UPDATE_BACKUP
                 PROVE  Recorded(g, v)' /\ snapShots'[Slot(g)] = snapShots[Slot(g)]
    BY <2>1
  <2>3. g > framenum - UPDATE_BACKUP
    BY <1>1, <1>U, <2>1, <2>2
  <2>. QED BY <1>7, <2>1, <2>2, <2>3
<1>9. MadeInv'
  <2>1. ASSUME NEW g, NEW v, Made(g, v)'
        PROVE  /\ v \in Worlds /\ g \in 1 .. framenum'
               /\ g > framenum' - UPDATE_BACKUP => Recorded(g, v)'
    <3>1. CASE Made(g, v)
      <4>1. v \in Worlds /\ g \in 1 .. framenum /\ (g > f - UPDATE_BACKUP => Recorded(g, v)')
        BY <1>8, <3>1
      <4>. QED BY <1>1, <4>1
    <3>2. CASE g = f /\ v = w
      BY <1>1, <1>7, <3>2
    <3>. QED BY <1>6, <2>1, <3>1, <3>2
  <2>. QED BY <2>1 DEF MadeInv
\* The record that the frame is compressed against.
<1>10. ASSUME old(nd) # <<>>, NEW v, Made(lastframe, v)
       PROVE  lastframe \in 1 .. framenum /\ base(nd) = EntityList(v)
  <2>1. ~(lastframe <= 0) /\ ~(f >= lastframe + UPDATE_MASK) /\ old(nd)[1] = snapShots[Slot(lastframe)]
    BY <1>10 DEF OldFrame
  <2>2. lastframe \in 1 .. framenum /\ v \in Worlds
    BY <1>8, <1>10
  <2>3. lastframe > f - UPDATE_BACKUP
    BY <1>1, <1>U, <2>1, <2>2
  <2>4. Recorded(lastframe, v)' /\ lastframe' = lastframe /\ old(nd)[1] = snapShots'[Slot(lastframe)]
    <3>1. lastframe' = lastframe
      BY DEF SV_SendClientDatagram
    <3>2. \A g : g = lastframe => Recorded(g, v)' /\ snapShots'[Slot(g)] = snapShots[Slot(g)]
      BY <1>8, <1>10, <2>3
    <3>3. \A g : g = lastframe => Recorded(g, v)'
      BY <3>2
    <3>4. snapShots'[Slot(lastframe)] = snapShots[Slot(lastframe)]
      BY <3>2
    <3>5. Recorded(lastframe, v)'
      BY <3>1, <3>3
    <3>. QED BY <2>1, <3>1, <3>4, <3>5
  <2>5. EntityList(v) \in Seq(Entity)
    BY <2>2, ListTells DEF Tells
  <2>. DEFINE r == old(nd)[1]
              q == EntityList(v)
  <2>6. r.num = Len(q) /\ \A k \in 1 .. Len(q) : entities'[(r.first + k - 1) % num_entities] = q[k]
    BY <2>4 DEF Recorded
  <2>. HIDE DEF r, q
  <2>7. Kept(entities', r) = q
    BY <2>5, <2>6, KeptIs DEF q
  <2>. QED BY <1>10, <2>2, <2>7 DEF r, q
<1>11. NewsInv'
  <2>1. ASSUME NEW i \in 1 .. Len(down') PROVE \E s \in SUBSET Shadowable : Says(down[i], s)'
    <3>1. CASE i \in 1 .. Len(down) /\ down'[i] = down[i]
      <4>1. PICK s \in SUBSET Shadowable : Says(down[i], s)
        BY <3>1 DEF FaithInv, NewsInv
      <4>2. down[i].delta => down[i].deltaFrameNum # f
        BY <1>1, <3>1 DEF Inv, DownInv, DeltaInv, Had, Numbers
      <4>3. Says(down[i], s)'
        BY <1>6, <3>1, <4>1, <4>2 DEF Says
      <4>. QED BY <4>3
    <3>2. CASE down'[i] = new
      <4>1. new.delta => \A v : Made(lastframe, v)' => new.news = SNAP_EmitPacketEntities(EntityList(v), list, sh)
        <5>1. SUFFICES ASSUME new.delta, NEW v, Made(lastframe, v)'
                       PROVE  new.news = SNAP_EmitPacketEntities(EntityList(v), list, sh)
          OBVIOUS
        <5>2. old(nd) # <<>> /\ lastframe' = lastframe
          BY <1>3, <5>1 DEF SV_SendClientDatagram
        <5>3. lastframe <= framenum /\ lastframe # f
          BY <1>1 DEF Inv, Numbers, Had
        <5>4. Made(lastframe, v)
          <6>1. \A g : g = lastframe => Made(g, v)'
            BY <5>1, <5>2
          <6>. QED BY <1>6, <5>3, <6>1
        <5>5. base(nd) = EntityList(v)
          BY <1>10, <5>2, <5>4
        <5>. HIDE DEF base, list
        <5>. QED BY <1>3, <5>5
      <4>2. ~new.delta => new.news = SNAP_EmitPacketEntities(<<>>, list, sh)
        BY <1>3
      <4>3. lastframe' = lastframe
        BY DEF SV_SendClientDatagram
      <4>4. Says(down[i], sh)'
        <5>1. new.deltaFrameNum = lastframe'
          BY <1>3, <4>3
        <5>. HIDE DEF list
        <5>2. new.delta => \A v : Made(new.deltaFrameNum, v)' =>
                             new.news = SNAP_EmitPacketEntities(EntityList(v), list, sh)
          BY <4>1, <5>1
        <5>3. new.world = w
          BY <1>3
        <5>. QED BY <3>2, <4>2, <5>2, <5>3 DEF Says, list
      <4>. QED BY <4>4
    <3>. QED BY <1>5, <3>1, <3>2
  <2>. QED BY <2>1 DEF NewsInv
<1>12. ViewInv'
  BY <1>1 DEF FaithInv, ViewInv
<1>. QED BY <1>9, <1>11, <1>12 DEF FaithInv, RingLasts

\* A frame that comes in is put to the view that the client has of the frame it says.
LEMMA ParseFaith ==
  ASSUME Inv, TypeInv, FaithInv, CL_ParseFrame
  PROVE  FaithInv'
<1>. DEFINE old(m) == IF m.delta THEN backup[Slot(m.deltaFrameNum)].ents ELSE <<>>
<1>1. /\ down # <<>> /\ Len(down) \in Nat \ {0} /\ Head(down) = down[1] /\ 1 \in 1 .. Len(down)
      /\ down' = Tail(down)
  BY DEF CL_ParseFrame, Inv, DownInv
<1>2. /\ Len(down') = Len(down) - 1
      /\ \A i \in 1 .. Len(down') : down'[i] = down[i + 1] /\ i + 1 \in 1 .. Len(down)
  BY <1>1 DEF Inv, DownInv
<1>3. UNCHANGED <<framenum, entities, next_entities, snapShots>>
  BY DEF CL_ParseFrame, serverVars
<1>4. PICK m : m = down[1]
  OBVIOUS
<1>. DEFINE list == IF ValidFrame(m) THEN SNAP_ParsePacketEntities(old(m), m.news) ELSE <<>>
<1>C. PICK cmds : backup' = [backup EXCEPT ![Slot(m.frame)] =
         [valid |-> ValidFrame(m), frame |-> m.frame, ents |-> list, cmds |-> cmds, world |-> m.world]]
  BY <1>1, <1>4 DEF CL_ParseFrame
<1>5. PICK ents : ents = list
  OBVIOUS
<1>6. /\ DOMAIN backup = Slots /\ m.world \in Worlds /\ m.frame \in Nat \ {0} /\ Slot(m.frame) \in Slots
      /\ m.delta => m.deltaFrameNum \in Nat \ {0} /\ Slot(m.deltaFrameNum) \in Slots
  BY <1>1, <1>4, SlotFacts DEF Inv, Numbers, RingInv, TypeInv, DownInv, InOrder, DeltaInv
<1>7. /\ backup'[Slot(m.frame)].frame = m.frame /\ backup'[Slot(m.frame)].world = m.world
      /\ backup'[Slot(m.frame)].ents = ents /\ (backup'[Slot(m.frame)].valid <=> ValidFrame(m))
      /\ \A s \in Slots : s # Slot(m.frame) => backup'[s] = backup[s]
  <2>. HIDE DEF list
  <2>. QED BY <1>5, <1>6, <1>C
<1>8. Made(m.frame, m.world)
  BY <1>1, <1>4 DEF Made
<1>9. ASSUME NEW g, NEW v, Made(g, v)' PROVE Made(g, v)
  <2>1. CASE \E i \in 1 .. Len(down') : down'[i].frame = g /\ down'[i].world = v
    BY <1>2, <2>1 DEF Made
  <2>2. CASE \E s \in Slots : backup'[s].frame = g /\ g # 0 /\ backup'[s].world = v
    BY <1>7, <1>8, <2>2 DEF Made
  <2>. QED BY <1>9, <2>1, <2>2 DEF Made
<1>10. MadeInv'
  <2>1. \A g, v : Recorded(g, v)' <=> Recorded(g, v)
    BY <1>3 DEF Recorded
  <2>. QED BY <1>3, <1>9, <2>1 DEF FaithInv, MadeInv
<1>11. NewsInv'
  <2>1. ASSUME NEW i \in 1 .. Len(down') PROVE \E s \in SUBSET Shadowable : Says(down[i], s)'
    <3>1. down'[i] = down[i + 1] /\ i + 1 \in 1 .. Len(down)
      BY <1>2
    <3>2. PICK s \in SUBSET Shadowable : Says(down[i + 1], s)
      BY <3>1 DEF FaithInv, NewsInv
    <3>3. Says(down[i], s)'
      BY <1>9, <3>1, <3>2 DEF Says
    <3>. QED BY <3>3
  <2>. QED BY <2>1 DEF NewsInv
<1>12. ASSUME ValidFrame(m) PROVE View(ents, m.world)
  <2>1. PICK sh \in SUBSET Shadowable : Says(m, sh)
    BY <1>1, <1>4 DEF FaithInv, NewsInv
  <2>2. ents = SNAP_ParsePacketEntities(old(m), m.news)
    BY <1>5, <1>12
  <2>3. CASE ~m.delta
    <3>1. old(m) = <<>> /\ m.news = SNAP_EmitPacketEntities(<<>>, EntityList(m.world), sh)
      BY <2>1, <2>3 DEF Says
    <3>. QED BY <1>6, <2>2, <3>1, WholeLooks
  <2>4. CASE m.delta
    <3>. DEFINE b == backup[Slot(m.deltaFrameNum)]
    <3>1. b.valid /\ b.frame = m.deltaFrameNum /\ old(m) = b.ents
      BY <1>12, <2>4 DEF ValidFrame
    <3>2. Made(m.deltaFrameNum, b.world)
      BY <1>6, <2>4, <3>1 DEF Made
    <3>3. m.news = SNAP_EmitPacketEntities(EntityList(b.world), EntityList(m.world), sh)
      BY <2>1, <2>4, <3>2 DEF Says
    <3>4. View(b.ents, b.world) /\ b.world \in Worlds
      BY <1>6, <2>4, <3>1 DEF FaithInv, ViewInv, TypeInv
    <3>. HIDE DEF b
    <3>5. b.world \in Plain /\ Tells(EntityList(b.world), b.world, There(b.world))
      BY <3>4, OwnLooks
    <3>. QED BY <1>6, <2>2, <3>1, <3>3, <3>4, <3>5, ParseLooks
  <2>. QED BY <2>3, <2>4
<1>13. ViewInv'
  <2>1. ASSUME NEW s \in Slots, backup'[s].valid PROVE View(backup'[s].ents, backup'[s].world)
    <3>1. CASE s = Slot(m.frame)
      BY <1>7, <1>12, <2>1, <3>1
    <3>2. CASE s # Slot(m.frame)
      BY <1>7, <2>1, <3>2 DEF FaithInv, ViewInv
    <3>. QED BY <3>1, <3>2
  <2>. QED BY <2>1 DEF ViewInv, View
<1>. QED BY <1>10, <1>11, <1>13 DEF FaithInv, RingLasts

\* What the server keeps of a frame is still what the frame was while it is used, and what a
\* message says is what became of the world that the client sees: the invariant.
THEOREM FaithInvariance == RingLasts /\ Spec => []FaithInv
<1>1. RingLasts /\ Init => FaithInv
  <2>1. SUFFICES ASSUME RingLasts, Init PROVE FaithInv
    OBVIOUS
  <2>2. Len(down) = 0 /\ \A s \in Slots : backup[s].frame = 0 /\ ~backup[s].valid
    BY <2>1 DEF Init, NoFrame
  <2>3. \A f, w : ~Made(f, w)
    BY <2>2 DEF Made
  <2>. QED BY <2>1, <2>2, <2>3 DEF FaithInv, MadeInv, NewsInv, ViewInv
<1>2. Inv /\ TypeInv /\ FaithInv /\ [Next]_vars => FaithInv'
  <2>1. SUFFICES ASSUME Inv, TypeInv, FaithInv, [Next]_vars PROVE FaithInv'
    OBVIOUS
  <2>2. CASE SV_AddGameCommand \/ SV_NoDelta_f \/ SV_ParseMoveCommand \/ CG_Precache
             \/ CL_WriteUcmdsToMessage \/ (\E reached \in BOOLEAN : CL_Frame(reached)) \/ UNCHANGED vars
    <3>1. UNCHANGED <<framenum, entities, next_entities, snapShots, down, backup>>
      BY <2>2 DEF SV_AddGameCommand, SV_NoDelta_f, SV_ParseMoveCommand, CG_Precache,
                  CL_WriteUcmdsToMessage, CL_Frame, vars, serverVars, clientVars
    <3>. QED BY <2>1, <3>1, FaithStutter
  <2>3. CASE CL_ParseFrame
    BY <2>1, <2>3, ParseFaith
  <2>4. CASE \E w \in Worlds, sh \in SUBSET Shadowable, taken \in OtherTakes,
               unfit \in (IF Flood THEN SUBSET (1 .. gameCommandCurrent) ELSE {{}}),
               lost \in BOOLEAN : SV_SendClientDatagram(w, sh, taken, unfit, lost)
    BY <2>1, <2>4, SendFaith
  <2>. QED BY <2>1, <2>2, <2>3, <2>4 DEF Next
<1>. QED BY <1>1, <1>2, Invariance, TypeInvariance, PTL DEF Spec

\* What the client makes of the frames that come in is what the server built, whatever was
\* lost and whatever was shadowed, as long as the ring of entities lasts: the merging of
\* lists, the record in the ring and the frame that the client kept fit together.
THEOREM Faithful == RingLasts /\ Spec => []ViewFaithful
<1>1. TypeInv /\ FaithInv => ViewFaithful
  <2>1. SUFFICES ASSUME TypeInv, FaithInv, NEW s \in Slots, backup[s].valid
                 PROVE  LET seen  == backup[s].ents
                            built == EntityList(backup[s].world)
                        IN  /\ Len(seen) = Len(built)
                            /\ \A i \in DOMAIN seen : /\ seen[i].number = built[i].number
                                                      /\ seen[i].val \in {built[i].val, Garbage}
                            /\ \A i \in DOMAIN seen : seen[i].number \notin Shadowable => seen[i] = built[i]
    BY DEF ViewFaithful
  <2>2. View(backup[s].ents, backup[s].world) /\ backup[s].world \in Worlds
    BY <2>1 DEF FaithInv, ViewInv, TypeInv
  <2>. QED BY <2>2, ViewIs
<1>. QED BY FaithInvariance, TypeInvariance, <1>1, PTL
=============================================================================
