-------------------------- MODULE UserCommandsProofs --------------------------
(***************************************************************************)
(* What UserCommands promises, for rings of any size and any losses.       *)
(*                                                                         *)
(* PredictsAll speaks of the frame that is shown, the ring and the saved   *)
(* prediction. What keeps it: frames on their way are of moves that were   *)
(* made (FramesInv), the ring has its last moves where their numbers say   *)
(* (RingInv), and what was saved is the frame that is still shown with     *)
(* each move up to the one where prediction goes on (SavedInv).            *)
(*                                                                         *)
(* OnceAsMade and NothingSkipped speak of what the server executes. What   *)
(* keeps them is Delivery: a message on its way begins no later than       *)
(* behind what was executed, unless moves were given up (MessagesInv), so  *)
(* the server's ring has each move that it has yet to execute (ServerInv), *)
(* and the times of moves executed increase up to UcmdTime (ExecutedInv).  *)
(***************************************************************************)
EXTENDS UserCommands, SequenceTheorems, FiniteSetTheorems, WellFoundedInduction, TLAPS

Numbers == cmdNum \in Nat /\ ucmdHead \in Nat /\ ucmdHead \in {cmdNum, cmdNum + 1}

\* The newest moves, the one in the making among them, are where their numbers say.
RingInv ==
  /\ DOMAIN cmds = Slots
  /\ \A n \in Nat : n <= ucmdHead /\ n + CMD_BACKUP > ucmdHead => cmds[Slot(n)].num = n

Made == 0 .. cmdNum

FramesInv ==
  /\ UcmdReceived \in Made
  /\ \A i \in 1 .. Len(toServer) : toServer[i].head - 1 \in Made
  /\ \A i \in 1 .. Len(toClient) : toClient[i].frame.ucmdExecuted \in Made
  /\ received.ucmdExecuted \in Made /\ frame.ucmdExecuted \in Made

ChannelsInv == (\E S : toServer \in Seq(S)) /\ (\E S : toClient \in Seq(S))

\* The moves after n, up to m.
Between(n, m) == [k \in 1 .. m - n |-> n + k]

SavedInv ==
  /\ predictFrom \in Nat
  /\ predictFrom > 0 => /\ predictFrom \in frame.ucmdExecuted + 1 .. cmdNum
                        /\ saved = [base |-> frame.built,
                                    moves |-> Between(frame.ucmdExecuted, predictFrom)]

Inv == Numbers /\ RingInv /\ FramesInv /\ ChannelsInv /\ SavedInv

-----------------------------------------------------------------------------
LEMMA SlotFacts ==
  /\ CMD_BACKUP \in Nat \ {0, 1}
  /\ \A n \in Nat : Slot(n) \in Slots
  /\ \A n, m \in Nat : n < m /\ m < n + CMD_BACKUP => Slot(n) # Slot(m)
<1>1. CMD_BACKUP \in {4, 8, 16, 32, 64}
  BY SizesAssumption
<1>2. \A n \in Nat : Slot(n) \in Slots
  BY <1>1 DEF Slot, Slots, CMD_MASK
<1>3. ASSUME NEW n \in Nat, NEW m \in Nat, n < m, m < n + CMD_BACKUP
      PROVE  Slot(n) # Slot(m)
  <2>1. CASE CMD_BACKUP = 4
    BY <1>3, <2>1 DEF Slot
  <2>2. CASE CMD_BACKUP = 8
    BY <1>3, <2>2 DEF Slot
  <2>3. CASE CMD_BACKUP = 16
    BY <1>3, <2>3 DEF Slot
  <2>4. CASE CMD_BACKUP = 32
    BY <1>3, <2>4 DEF Slot
  <2>5. CASE CMD_BACKUP = 64
    BY <1>3, <2>5 DEF Slot
  <2>. QED BY <1>1, <2>1, <2>2, <2>3, <2>4, <2>5
<1>. QED BY <1>1, <1>2, <1>3

\* Moves one after another make one sequence of moves.
LEMMA BetweenConcat ==
  ASSUME NEW a \in Nat, NEW b \in Nat, NEW c \in Nat, a <= b, b <= c
  PROVE  Between(a, b) \o Between(b, c) = Between(a, c)
<1>. DEFINE s == Between(a, b)
            t == Between(b, c)
<1>1. /\ s \in Seq(Nat) /\ Len(s) = b - a /\ \A k \in 1 .. b - a : s[k] = a + k
      /\ t \in Seq(Nat) /\ Len(t) = c - b /\ \A k \in 1 .. c - b : t[k] = b + k
  BY DEF Between
<1>. HIDE DEF s, t
<1>2. /\ s \o t \in Seq(Nat) /\ Len(s \o t) = Len(s) + Len(t)
      /\ \A i \in 1 .. Len(s) + Len(t) : (s \o t)[i] = IF i <= Len(s) THEN s[i] ELSE t[i - Len(s)]
  BY <1>1, ConcatProperties, Zenon
<1>3. Len(s) + Len(t) = c - a
  BY <1>1
<1>4. \A i \in 1 .. c - a : (s \o t)[i] = a + i
  BY <1>1, <1>2, <1>3
<1>5. /\ Between(a, c) \in Seq(Nat) /\ Len(Between(a, c)) = c - a
      /\ \A k \in 1 .. c - a : Between(a, c)[k] = a + k
  BY DEF Between
<1>. DEFINE u == s \o t
            v == Between(a, c)
<1>6. /\ u \in Seq(Nat) /\ v \in Seq(Nat) /\ Len(u) = Len(v)
      /\ \A k \in 1 .. Len(u) : u[k] = v[k]
  BY <1>2, <1>3, <1>4, <1>5
<1>. HIDE DEF u, v
<1>7. u = v
  BY <1>6, SeqEqual, Zenon
<1>. QED BY <1>7 DEF s, t, u, v

\* What is replayed from less than a ring ago is each move since, in order.
LEMMA ReplayFacts ==
  ASSUME Numbers, RingInv, NEW from \in Nat, NEW to \in Nat, from <= to, to <= ucmdHead,
         ucmdHead < from + CMD_BACKUP \/ from = to
  PROVE  Replay(from, to) = Between(from, to)
<1>1. ASSUME NEW k \in 1 .. to - from
      PROVE  cmds[Slot(from + k)].num = from + k
  BY SlotFacts DEF Numbers, RingInv
<1>. QED BY <1>1 DEF Replay, Between

\* Prediction up to a move that is near enough is the frame with each move up to there.
LEMMA Predicted ==
  ASSUME Inv, NEW n \in Nat, From <= n, n <= ucmdHead, Near \/ n = From
  PROVE  PredictedUpTo(n) = [base |-> frame.built, moves |-> Between(frame.ucmdExecuted, n)]
<1>1. /\ ucmdHead \in Nat /\ frame.ucmdExecuted \in Nat /\ CMD_BACKUP \in Nat
      /\ Numbers /\ RingInv /\ SavedInv
  BY SlotFacts DEF Inv, Numbers, FramesInv, Made
<1>2. CASE Usable
  <2>1. /\ From = predictFrom /\ predictFrom \in frame.ucmdExecuted + 1 .. cmdNum
        /\ saved = [base |-> frame.built, moves |-> Between(frame.ucmdExecuted, predictFrom)]
        /\ ucmdHead < predictFrom + CMD_BACKUP /\ predictFrom \in Nat
    BY <1>1, <1>2 DEF Usable, From, SavedInv
  <2>2. Replay(From, n) = Between(predictFrom, n)
    BY <1>1, <2>1, ReplayFacts
  <2>3. saved.moves \o Replay(From, n) = Between(frame.ucmdExecuted, n)
    <3>1. frame.ucmdExecuted <= predictFrom /\ predictFrom <= n /\ n \in Nat
      BY <1>1, <2>1
    <3>2. saved.moves = Between(frame.ucmdExecuted, predictFrom)
      BY <2>1
    <3>3. Between(frame.ucmdExecuted, predictFrom) \o Between(predictFrom, n)
            = Between(frame.ucmdExecuted, n)
      BY <1>1, <2>1, <3>1, BetweenConcat
    <3>. QED BY <2>2, <3>2, <3>3
  <2>. QED BY <1>2, <2>1, <2>3 DEF PredictedUpTo
<1>3. CASE ~Usable
  <2>1. From = frame.ucmdExecuted
    BY <1>3 DEF From
  <2>2. Replay(From, n) = Between(frame.ucmdExecuted, n)
    BY <1>1, <2>1, ReplayFacts DEF Near
  <2>. QED BY <1>3, <2>1, <2>2 DEF PredictedUpTo
<1>. QED BY <1>2, <1>3

-----------------------------------------------------------------------------
\* A new move is begun in a place that no move since a ring ago has.
LEMMA CreateKeeps ==
  ASSUME Inv, NEW t, CL_CreateNewUserCommand(t)
  PROVE  Inv'
<1>1. /\ cmdNum' = ucmdHead /\ ucmdHead' = ucmdHead + 1
      /\ UNCHANGED <<UcmdReceived, toServer, toClient, received, frame, predictFrom, saved>>
      /\ cmds' = [cmds EXCEPT ![Slot(ucmdHead)] = [num |-> ucmdHead, time |-> t],
                              ![Slot(ucmdHead + 1)] = [num |-> ucmdHead + 1, time |-> 0]]
  BY DEF CL_CreateNewUserCommand, cgameVars, serverVars
<1>2. cmdNum \in Nat /\ ucmdHead \in Nat /\ ucmdHead \in {cmdNum, cmdNum + 1} /\ DOMAIN cmds = Slots
  BY DEF Inv, Numbers, RingInv
<1>3. Numbers' /\ cmdNum <= cmdNum' /\ cmdNum' \in Nat
  BY <1>1, <1>2 DEF Numbers
<1>4. RingInv'
  <2>1. DOMAIN cmds' = Slots
    BY <1>1, <1>2
  <2>2. ASSUME NEW n \in Nat, n <= ucmdHead + 1, n + CMD_BACKUP > ucmdHead + 1
        PROVE  cmds'[Slot(n)].num = n
    <3>1. Slot(n) \in Slots /\ Slot(ucmdHead) \in Slots /\ Slot(ucmdHead + 1) \in Slots
      BY <1>2, SlotFacts
    <3>2. CASE n = ucmdHead + 1
      <4>1. cmds'[Slot(ucmdHead + 1)] = [num |-> ucmdHead + 1, time |-> 0]
        BY <1>1, <1>2, <3>1
      <4>. QED BY <3>2, <4>1
    <3>3. CASE n = ucmdHead
      <4>1. Slot(ucmdHead) # Slot(ucmdHead + 1)
        BY <1>2, SlotFacts
      <4>2. cmds'[Slot(ucmdHead)] = [num |-> ucmdHead, time |-> t]
        BY <1>1, <1>2, <3>1, <4>1
      <4>. QED BY <3>3, <4>2
    <3>4. CASE n < ucmdHead
      <4>1. Slot(n) # Slot(ucmdHead) /\ Slot(n) # Slot(ucmdHead + 1)
        BY <1>2, <2>2, <3>4, SlotFacts
      <4>2. cmds'[Slot(n)] = cmds[Slot(n)]
        BY <1>1, <1>2, <3>1, <4>1
      <4>3. n <= ucmdHead /\ n + CMD_BACKUP > ucmdHead
        BY <1>2, <2>2, <3>4, SlotFacts
      <4>4. cmds[Slot(n)].num = n
        BY <4>3 DEF Inv, RingInv
      <4>. QED BY <4>2, <4>4
    <3>. QED BY <1>2, <2>2, <3>2, <3>3, <3>4
  <2>. QED BY <1>1, <2>1, <2>2 DEF RingInv
<1>5. FramesInv'
  <2>1. Made \subseteq Made'
    BY <1>2, <1>3 DEF Made
  <2>. QED BY <1>1, <2>1 DEF Inv, FramesInv
<1>6. ChannelsInv'
  BY <1>1 DEF Inv, ChannelsInv
<1>7. SavedInv'
  BY <1>1, <1>2, <1>3 DEF Inv, SavedInv, FramesInv, Made
<1>. QED BY <1>3, <1>4, <1>5, <1>6, <1>7 DEF Inv

\* A message ends with the newest move that is made.
LEMMA WriteKeeps ==
  ASSUME Inv, NEW arrives \in BOOLEAN, CL_WriteUcmdsToMessage(arrives)
  PROVE  Inv'
<1>1. /\ UNCHANGED <<cmds, cmdNum, ucmdHead, received, frame, predictFrom, saved, UcmdReceived,
                     toClient>>
      /\ \E x : toServer' = IF ~arrives THEN toServer ELSE Append(toServer, [head |-> cmdNum + 1, moves |-> x])
  BY DEF CL_WriteUcmdsToMessage, cgameVars, serverVars
<1>2. PICK x : toServer' = IF ~arrives THEN toServer
                           ELSE Append(toServer, [head |-> cmdNum + 1, moves |-> x])
  BY <1>1
<1>3. PICK S : toServer \in Seq(S)
  BY DEF Inv, ChannelsInv
<1>4. /\ \E T : toServer' \in Seq(T)
      /\ \A i \in 1 .. Len(toServer') : toServer'[i].head - 1 \in Made
  <2>0. cmdNum \in Nat /\ \A i \in 1 .. Len(toServer) : toServer[i].head - 1 \in Made
    BY DEF Inv, Numbers, FramesInv
  <2>1. CASE arrives
    <3>. DEFINE m == [head |-> cmdNum + 1, moves |-> x]
    <3>1. /\ toServer' \in Seq(S \cup {m}) /\ Len(toServer') = Len(toServer) + 1
          /\ Len(toServer) \in Nat
          /\ \A i \in 1 .. Len(toServer) : toServer'[i] = toServer[i]
          /\ toServer'[Len(toServer) + 1] = m
      BY <1>2, <1>3, <2>1
    <3>2. m.head - 1 \in Made
      BY <2>0 DEF Made
    <3>. QED BY <2>0, <3>1, <3>2
  <2>2. CASE ~arrives
    BY <1>2, <1>3, <2>0, <2>2
  <2>. QED BY <2>1, <2>2
<1>5. Made' = Made
  BY <1>1 DEF Made
<1>. QED BY <1>1, <1>4, <1>5 DEF Inv, Numbers, RingInv, FramesInv, ChannelsInv, SavedInv

\* The server takes what was made from a message.
LEMMA ParseMovesKeeps ==
  ASSUME Inv, SV_ParseMoveCommand
  PROVE  Inv'
<1>1. /\ UNCHANGED <<cmds, cmdNum, ucmdHead, received, frame, predictFrom, saved, toClient>>
      /\ toServer # <<>> /\ toServer' = Tail(toServer) /\ UcmdReceived' = Head(toServer).head - 1
  BY DEF SV_ParseMoveCommand, cgameVars, clientVars
<1>2. PICK S : toServer \in Seq(S)
  BY DEF Inv, ChannelsInv
<1>3. /\ toServer' \in Seq(S) /\ Head(toServer) = toServer[1] /\ Len(toServer) \in Nat \ {0}
      /\ Len(toServer') = Len(toServer) - 1
      /\ \A i \in 1 .. Len(toServer') : toServer'[i] = toServer[i + 1] /\ i + 1 \in 1 .. Len(toServer)
      /\ 1 \in 1 .. Len(toServer)
  BY <1>1, <1>2
<1>4. /\ UcmdReceived' \in Made
      /\ \A i \in 1 .. Len(toServer') : toServer'[i].head - 1 \in Made
  <2>1. \A i \in 1 .. Len(toServer) : toServer[i].head - 1 \in Made
    BY DEF Inv, FramesInv
  <2>. QED BY <1>1, <1>3, <2>1
<1>5. Made' = Made
  BY <1>1 DEF Made
<1>. QED BY <1>1, <1>3, <1>4, <1>5 DEF Inv, Numbers, RingInv, FramesInv, ChannelsInv, SavedInv

\* A frame of the game has what was received.
LEMMA RunKeeps ==
  ASSUME Inv, NEW arrives \in BOOLEAN, SV_RunGameFrame(arrives)
  PROVE  Inv'
<1>1. /\ UNCHANGED <<cmds, cmdNum, ucmdHead, received, frame, predictFrom, saved, toServer,
                     UcmdReceived>>
      /\ toClient' = IF ~arrives THEN toClient
                     ELSE Append(toClient,
                            [acknowledged |-> UcmdReceived,
                             frame |-> [built |-> gametime', ucmdExecuted |-> UcmdReceived]])
  BY DEF SV_RunGameFrame, cgameVars, clientVars
<1>2. PICK S : toClient \in Seq(S)
  BY DEF Inv, ChannelsInv
<1>3. /\ \E T : toClient' \in Seq(T)
      /\ \A i \in 1 .. Len(toClient') : toClient'[i].frame.ucmdExecuted \in Made
  <2>0. UcmdReceived \in Made /\ \A i \in 1 .. Len(toClient) : toClient[i].frame.ucmdExecuted \in Made
    BY DEF Inv, FramesInv
  <2>1. CASE arrives
    <3>. DEFINE m == [acknowledged |-> UcmdReceived,
                      frame |-> [built |-> gametime', ucmdExecuted |-> UcmdReceived]]
    <3>1. /\ toClient' \in Seq(S \cup {m}) /\ Len(toClient') = Len(toClient) + 1
          /\ Len(toClient) \in Nat
          /\ \A i \in 1 .. Len(toClient) : toClient'[i] = toClient[i]
          /\ toClient'[Len(toClient) + 1] = m
      BY <1>1, <1>2, <2>1
    <3>2. m.frame.ucmdExecuted \in Made
      BY <2>0
    <3>. QED BY <2>0, <3>1, <3>2
  <2>2. CASE ~arrives
    BY <1>1, <1>2, <2>0, <2>2
  <2>. QED BY <2>1, <2>2
<1>4. Made' = Made
  BY <1>1 DEF Made
<1>. QED BY <1>1, <1>3, <1>4 DEF Inv, Numbers, RingInv, FramesInv, ChannelsInv, SavedInv

LEMMA ParseFrameKeeps ==
  ASSUME Inv, CL_ParseServerMessage
  PROVE  Inv'
<1>1. /\ UNCHANGED <<cmds, cmdNum, ucmdHead, frame, predictFrom, saved, toServer, UcmdReceived>>
      /\ toClient # <<>> /\ toClient' = Tail(toClient) /\ received' = Head(toClient).frame
  BY DEF CL_ParseServerMessage, cgameVars, serverVars
<1>2. PICK S : toClient \in Seq(S)
  BY DEF Inv, ChannelsInv
<1>3. /\ toClient' \in Seq(S) /\ Head(toClient) = toClient[1] /\ Len(toClient) \in Nat \ {0}
      /\ Len(toClient') = Len(toClient) - 1
      /\ \A i \in 1 .. Len(toClient') : toClient'[i] = toClient[i + 1] /\ i + 1 \in 1 .. Len(toClient)
      /\ 1 \in 1 .. Len(toClient)
  BY <1>1, <1>2
<1>4. /\ received'.ucmdExecuted \in Made
      /\ \A i \in 1 .. Len(toClient') : toClient'[i].frame.ucmdExecuted \in Made
  <2>1. \A i \in 1 .. Len(toClient) : toClient[i].frame.ucmdExecuted \in Made
    BY DEF Inv, FramesInv
  <2>. QED BY <1>1, <1>3, <2>1
<1>5. Made' = Made
  BY <1>1 DEF Made
<1>. QED BY <1>1, <1>3, <1>4, <1>5 DEF Inv, Numbers, RingInv, FramesInv, ChannelsInv, SavedInv

\* A new frame makes prediction start from it; a prediction saves what Predicted says.
LEMMA CGameKeeps ==
  ASSUME Inv, CGame
  PROVE  Inv'
<1>1. UNCHANGED <<cmds, cmdNum, ucmdHead, received, toServer, toClient, UcmdReceived>>
  BY DEF CGame, clientVars, serverVars
<1>2. Numbers' /\ RingInv' /\ ChannelsInv' /\ Made' = Made
  BY <1>1 DEF Inv, Numbers, RingInv, ChannelsInv, Made
<1>3. CASE CG_NewFrameSnap
  <2>1. frame' = received /\ predictFrom' = 0
    BY <1>3 DEF CG_NewFrameSnap
  <2>2. FramesInv' /\ SavedInv'
    BY <1>1, <1>2, <2>1 DEF Inv, FramesInv, SavedInv
  <2>. QED BY <1>2, <2>2 DEF Inv
<1>4. CASE CG_PredictMovement
  <2>1. frame' = frame
    BY <1>4 DEF CG_PredictMovement
  <2>2. FramesInv'
    BY <1>1, <1>2, <2>1 DEF Inv, FramesInv
  <2>3. CASE cg_predict_optimize /\ Near /\ ucmdHead - 1 > From
    <3>1. saved' = PredictedUpTo(ucmdHead - 1) /\ predictFrom' = ucmdHead - 1
      BY <1>4, <2>3 DEF CG_PredictMovement
    <3>2. /\ From \in Nat /\ From >= frame.ucmdExecuted /\ frame.ucmdExecuted \in Nat
          /\ ucmdHead \in Nat /\ cmdNum \in Nat /\ ucmdHead <= cmdNum + 1
      BY DEF Inv, Numbers, FramesInv, SavedInv, Made, From, Usable
    <3>3. PredictedUpTo(ucmdHead - 1) = [base |-> frame.built,
                                         moves |-> Between(frame.ucmdExecuted, ucmdHead - 1)]
      <4>1. ucmdHead - 1 \in Nat /\ From <= ucmdHead - 1 /\ ucmdHead - 1 <= ucmdHead
        BY <2>3, <3>2
      <4>. QED BY <2>3, <4>1, Predicted
    <3>4. SavedInv'
      <4>1. predictFrom' \in Nat /\ predictFrom' \in frame.ucmdExecuted + 1 .. cmdNum
        BY <2>3, <3>1, <3>2
      <4>2. saved' = [base |-> frame.built, moves |-> Between(frame.ucmdExecuted, predictFrom')]
        BY <3>1, <3>3
      <4>. QED BY <1>1, <2>1, <4>1, <4>2 DEF SavedInv, Between
    <3>. QED BY <1>2, <2>2, <3>4 DEF Inv
  <2>4. CASE ~(cg_predict_optimize /\ Near /\ ucmdHead - 1 > From)
    <3>1. saved' = saved /\ predictFrom' \in {predictFrom, 0}
      BY <1>4, <2>4 DEF CG_PredictMovement
    <3>2. SavedInv'
      BY <1>1, <2>1, <3>1 DEF Inv, SavedInv, Between
    <3>. QED BY <1>2, <2>2, <3>2 DEF Inv
  <2>. QED BY <2>3, <2>4
<1>. QED BY <1>3, <1>4 DEF CGame

-----------------------------------------------------------------------------
\* The ring, the frames on their way and the saved prediction fit together.
THEOREM Invariance == Spec => []Inv
<1>1. Init => Inv
  <2>1. SUFFICES ASSUME Init PROVE Inv
    OBVIOUS
  <2>2. /\ cmdNum = 0 /\ ucmdHead = 0 /\ predictFrom = 0 /\ UcmdReceived = 0
        /\ toServer = <<>> /\ toClient = <<>>
        /\ received.ucmdExecuted = 0 /\ frame.ucmdExecuted = 0
        /\ cmds = [s \in Slots |-> NoMove]
    BY <2>1 DEF Init, FirstFrame
  <2>3. RingInv
    BY <2>2, SlotFacts DEF RingInv, NoMove
  <2>4. Numbers /\ FramesInv /\ SavedInv
    BY <2>2 DEF Numbers, FramesInv, Made, SavedInv
  <2>5. toServer \in Seq({}) /\ toClient \in Seq({})
    BY <2>2
  <2>. QED BY <2>3, <2>4, <2>5 DEF Inv, ChannelsInv
<1>2. Inv /\ [Next]_vars => Inv'
  <2>1. SUFFICES ASSUME Inv, [Next]_vars PROVE Inv'
    OBVIOUS
  <2>2. CASE \E t \in 1 .. gametime + Ahead : CL_CreateNewUserCommand(t)
    BY <2>1, <2>2, CreateKeeps
  <2>3. CASE \E arrives \in BOOLEAN : CL_WriteUcmdsToMessage(arrives)
    BY <2>1, <2>3, WriteKeeps
  <2>4. CASE \E arrives \in BOOLEAN : SV_RunGameFrame(arrives)
    BY <2>1, <2>4, RunKeeps
  <2>5. CASE CL_ParseServerMessage
    BY <2>1, <2>5, ParseFrameKeeps
  <2>6. CASE SV_ParseMoveCommand
    BY <2>1, <2>6, ParseMovesKeeps
  <2>7. CASE CGame
    BY <2>1, <2>7, CGameKeeps
  <2>8. CASE UNCHANGED vars
    BY <2>1, <2>8 DEF vars, clientVars, cgameVars, serverVars, Inv, Numbers, RingInv, FramesInv,
                      ChannelsInv, SavedInv, Made
  <2>. QED BY <2>1, <2>2, <2>3, <2>4, <2>5, <2>6, <2>7, <2>8 DEF Next
<1>. QED BY <1>1, <1>2, PTL DEF Spec

\* The player is always shown the newest frame with every move after it, once and in order,
\* or the frame alone when it is more than a ring of moves old: for any size of the ring,
\* with and without the saved prediction, whatever messages are lost.
THEOREM Predicts == Spec => []PredictsAll
<1>1. Inv => PredictsAll
  <2>1. SUFFICES ASSUME Inv PROVE PredictsAll
    OBVIOUS
  <2>. DEFINE n == ucmdHead - frame.ucmdExecuted
  <2>2. /\ From \in Nat /\ From >= frame.ucmdExecuted /\ frame.ucmdExecuted \in Nat
        /\ ucmdHead \in Nat /\ From <= ucmdHead /\ CMD_BACKUP \in Nat
    BY <2>1, SlotFacts DEF Inv, Numbers, FramesInv, SavedInv, Made, From, Usable
  <2>3. CASE Near
    <3>1. predictedPlayerState = [base |-> frame.built,
                                  moves |-> Between(frame.ucmdExecuted, ucmdHead)]
      BY <2>1, <2>2, <2>3, Predicted DEF predictedPlayerState
    <3>. QED BY <3>1 DEF PredictsAll, Between
  <2>4. CASE ~Near
    <3>1. ~Usable
      BY <2>4 DEF Near, From, Usable
    <3>2. From = frame.ucmdExecuted /\ n >= CMD_BACKUP
      BY <2>2, <2>4, <3>1 DEF Near, From
    <3>3. predictedPlayerState = [base |-> frame.built, moves |-> Between(From, From)]
      BY <2>1, <2>2, <2>4, <3>2, Predicted DEF predictedPlayerState
    <3>4. Between(From, From) = <<>>
      <4>1. 1 .. From - From = {}
        BY <2>2
      <4>. QED BY <4>1 DEF Between
    <3>. QED BY <3>2, <3>3, <3>4 DEF PredictsAll
  <2>. QED BY <2>3, <2>4
<1>. QED BY Invariance, <1>1, PTL

-----------------------------------------------------------------------------
(* Delivery: what holds of the moves at either end and on their way *)

\* Move n as the player made it.
AsMade(n) == [num |-> n, time |-> made[n]]

Types ==
  /\ cmdNum <= MaxMove /\ (ucmdHead = 0 \/ ucmdHead = cmdNum + 1)
  /\ gametime \in 1 .. MaxTime /\ lost \in 0 .. MaxLost
  /\ cmds \in [Slots -> Move] /\ received \in Frame /\ frame \in Frame
  /\ saved \in Playerstate

\* The client's ring holds the newest moves as they were made.
MadeInv ==
  /\ made \in Seq(Time \ {0}) /\ Len(made) = cmdNum
  /\ \A n \in 1 .. cmdNum : n + CMD_BACKUP > ucmdHead => cmds[Slot(n)] = AsMade(n)

\* The first move of message m.
First(m) == m.head - Len(m.moves)

\* Messages to the server end with later and later moves. One that was sent before
\* moves were given up begins no later than behind the moves executed.
MessagesInv ==
  /\ frozen \in 0 .. cmdNum + 1
  /\ toServer \in Seq([head : 1 .. cmdNum + 1, moves : Seq(Move)])
  /\ \A i \in 1 .. Len(toServer) :
       /\ UcmdReceived < toServer[i].head
       /\ First(toServer[i]) >= 1 /\ Len(toServer[i].moves) <= CMD_MASK
       /\ \A k \in 1 .. Len(toServer[i].moves) :
            toServer[i].moves[k] = AsMade(First(toServer[i]) + k - 1)
       /\ toServer[i].head <= frozen \/ First(toServer[i]) <= UcmdExecuted + 1
       /\ \A j \in i .. Len(toServer) : toServer[i].head <= toServer[j].head

\* What is acknowledged was executed, and what was executed was received.
AcksInv ==
  /\ ucmdAcknowledged \in 0 .. UcmdExecuted
  /\ toClient \in Seq([acknowledged : 0 .. UcmdExecuted, frame : Frame])
  /\ UcmdExecuted \in 0 .. UcmdReceived

\* The server's ring holds moves as they were made, and each one to execute,
\* unless moves were given up.
ServerInv ==
  /\ ucmds \in [Slots -> Move]
  /\ \A s \in Slots : ucmds[s] = NoMove \/ \E n \in 1 .. UcmdReceived : ucmds[s] = AsMade(n)
  /\ \/ UcmdReceived < frozen
     \/ /\ UcmdReceived - UcmdExecuted <= CMD_MASK
        /\ \A n \in UcmdExecuted + 1 .. UcmdReceived : ucmds[Slot(n)] = AsMade(n)

\* The times of moves executed increase up to UcmdTime, which is that of a move
\* executed or one that is too late.
ExecutedInv ==
  /\ executed \in Seq(Move) /\ UcmdTime \in Time
  /\ \A i \in 1 .. Len(executed) :
       /\ \E n \in 1 .. UcmdExecuted : executed[i] = AsMade(n)
       /\ executed[i].time <= UcmdTime
       /\ \A j \in 1 .. i - 1 : executed[j].time < executed[i].time
  /\ \/ UcmdTime <= MinUcmdTime(gametime)
     \/ \E n \in 1 .. UcmdExecuted : UcmdTime = made[n]

Delivery == Types /\ MadeInv /\ MessagesInv /\ AcksInv /\ ServerInv /\ ExecutedInv /\ NothingSkipped

-----------------------------------------------------------------------------
(* What a frame executes *)

\* Numbers have a smallest one; inductions below are on the smallest counterexample.
LEMMA Smallest ==
  ASSUME NEW T \in SUBSET Nat, T # {}
  PROVE  \E x \in T : \A y \in T : x <= y
<1>1. PICK x \in T : \A y \in T : ~(<<y, x>> \in OpToRel(<, Nat))
  BY NatLessThanWellFounded, WFMin, Zenon
<1>2. \A a, b \in Nat : a < b => <<a, b>> \in OpToRel(<, Nat)
  BY DEF OpToRel
<1>3. \A y \in T : ~(y < x)
  BY <1>1, <1>2
<1> QED BY <1>3

\* i is what SV_FindNextUserCommand finds: the first of the oldest moves due.
IsNext(due, i) ==
  i \in due /\ \A j \in due : \/ ucmds[Slot(i)].time < ucmds[Slot(j)].time
                              \/ ucmds[Slot(i)].time = ucmds[Slot(j)].time /\ i <= j

ServerTypes == ucmds \in [Slots -> Move] /\ UcmdExecuted \in Nat /\ UcmdReceived \in Nat

\* Among moves that are due there is a first one of the oldest.
LEMMA NextFound ==
  ASSUME ServerTypes, NEW due \in SUBSET Nat, due # {}
  PROVE  IsNext(due, FindNextUserCommand(due))
<1>. DEFINE at(i) == ucmds[Slot(i)].time
            T == {at(i) : i \in due}
<1>1. \A i \in Nat : at(i) \in Nat
  BY SlotFacts, SizesAssumption DEF ServerTypes, Move, Time
<1>2. T \in SUBSET Nat /\ T # {}
  BY <1>1
<1>3. PICK x \in T : \A y \in T : x <= y
  BY <1>2, Smallest
<1>. DEFINE U == {i \in due : at(i) = x}
<1>4. U \in SUBSET Nat /\ U # {}
  BY <1>3
<1>5. PICK i \in U : \A j \in U : i <= j
  BY <1>4, Smallest
<1>6. i \in due /\ at(i) = x /\ x \in Nat /\ \A j \in due : x <= at(j) /\ at(j) \in Nat
  BY <1>1, <1>3, <1>5
<1>7. \A j \in due : at(i) < at(j) \/ (at(i) = at(j) /\ i <= j)
  BY <1>5, <1>6
<1>8. IsNext(due, i)
  BY <1>6, <1>7 DEF IsNext
<1>. QED BY <1>8 DEF IsNext, FindNextUserCommand

\* The function that Thinks defines by recursion exists.
LEMMA ThinksIs ==
  ASSUME NEW time
  PROVE  \E h : /\ h[0] = <<>> /\ \A k \in 1 .. CMD_BACKUP : h[k] = Think(time, h[k - 1])
                /\ Thinks(time) = h[CMD_BACKUP]
<1>. DEFINE Is(h, n) == h = [k \in 0 .. n |-> IF k = 0 THEN <<>> ELSE Think(time, h[k - 1])]
            T == {n \in Nat : ~\E h : Is(h, n)}
<1>0. CMD_BACKUP \in Nat
  BY SlotFacts
<1>1. T = {}
  <2>1. SUFFICES ASSUME T # {} PROVE FALSE
    OBVIOUS
  <2>2. PICK n \in T : \A m \in T : n <= m
    <3>1. T \in SUBSET Nat
      OBVIOUS
    <3>. QED BY <2>1, <3>1, Smallest
  <2>3. CASE n = 0
    <3>. DEFINE h == [k \in 0 .. 0 |-> <<>>]
    <3>1. Is(h, 0)
      OBVIOUS
    <3>. QED BY <2>2, <2>3, <3>1
  <2>4. CASE n # 0
    <3>1. n \in Nat /\ n - 1 \in Nat /\ ~(n <= n - 1)
      BY <2>4
    <3>2. PICK h : Is(h, n - 1)
      BY <2>2, <3>1
    <3>. DEFINE g == [k \in 0 .. n |-> IF k = n THEN Think(time, h[n - 1]) ELSE h[k]]
                e == [k \in 0 .. n |-> IF k = 0 THEN <<>> ELSE Think(time, g[k - 1])]
    <3>3. \A k \in 0 .. n : g[k] = e[k]
      <4>1. TAKE k \in 0 .. n
      <4>2. CASE k = n
        <5>1. n - 1 \in 0 .. n /\ n - 1 # n
          BY <3>1
        <5>2. g[n - 1] = h[n - 1]
          BY <5>1
        <5>. QED BY <2>4, <4>2, <5>2
      <4>3. CASE k = 0
        <5>1. h[0] = <<>>
          BY <3>1, <3>2
        <5>. QED BY <2>4, <4>3, <5>1
      <4>4. CASE k # 0 /\ k # n
        <5>1. k \in 0 .. n - 1 /\ k - 1 \in 0 .. n /\ k - 1 # n
          BY <3>1, <4>4
        <5>2. h[k] = Think(time, h[k - 1])
          BY <3>2, <4>4, <5>1
        <5>3. g[k - 1] = h[k - 1] /\ g[k] = h[k]
          BY <4>4, <5>1
        <5>. QED BY <4>4, <5>2, <5>3
      <4>. QED BY <4>2, <4>3, <4>4
    <3>4. g = e
      BY <3>3
    <3>5. Is(g, n)
      BY <3>4
    <3>. QED BY <2>2, <3>5
  <2>. QED BY <2>3, <2>4
<1>2. \E h : Is(h, CMD_BACKUP)
  BY <1>0, <1>1
<1>. DEFINE think == CHOOSE h : Is(h, CMD_BACKUP)
<1>3. Is(think, CMD_BACKUP)
  BY <1>2
<1>4. Thinks(time) = think[CMD_BACKUP]
  BY DEF Thinks
<1>. HIDE DEF think
<1>5. think[0] = <<>> /\ \A k \in 1 .. CMD_BACKUP : think[k] = Think(time, think[k - 1])
  BY <1>0, <1>3
<1>. QED BY <1>4, <1>5

\* s is executed from that time on: each of its moves is the first of the oldest
\* that are due after the one before.
Executes(time, s) ==
  /\ s \in Seq(Move)
  /\ \A i \in 1 .. Len(s) :
       LET due == Due(IF i = 1 THEN time ELSE s[i - 1].time)
       IN  \E n \in due : IsNext(due, n) /\ s[i] = ucmds[Slot(n)]

\* One turn of the loop executes one more move, if one is due.
LEMMA ThinkStep ==
  ASSUME ServerTypes, NEW time \in Nat, NEW s, Executes(time, s)
  PROVE  /\ Executes(time, Think(time, s))
         /\ Due(TimeAfter(time, s)) = {} => Think(time, s) = s
         /\ Due(TimeAfter(time, s)) # {} => Len(Think(time, s)) = Len(s) + 1
<1>. DEFINE due == Due(TimeAfter(time, s))
            n == FindNextUserCommand(due)
            u == Append(s, ucmds[Slot(n)])
<1>0. s \in Seq(Move) /\ Len(s) \in Nat
  BY DEF Executes
<1>1. CASE due = {}
  BY <1>1 DEF Think
<1>2. CASE due # {}
  <2>1. due \in SUBSET Nat
    BY DEF Due, ServerTypes
  <2>2. IsNext(due, n) /\ n \in due /\ n \in Nat
    <3>1. IsNext(due, n)
      BY <1>2, <2>1, NextFound
    <3>. QED BY <2>1, <3>1 DEF IsNext
  <2>3. ucmds[Slot(n)] \in Move
    BY <2>2, SlotFacts DEF ServerTypes
  <2>4. Think(time, s) = u
    BY <1>2 DEF Think
  <2>5. /\ u \in Seq(Move) /\ Len(u) = Len(s) + 1 /\ u[Len(s) + 1] = ucmds[Slot(n)]
        /\ \A i \in 1 .. Len(s) : u[i] = s[i]
    <3>. HIDE DEF n
    <3>. QED BY <1>0, <2>3
  <2>6. TimeAfter(time, s) = IF Len(s) + 1 = 1 THEN time ELSE u[Len(s) + 1 - 1].time
    <3>1. s = <<>> <=> Len(s) = 0
      BY <1>0
    <3>2. CASE s = <<>>
      BY <3>1, <3>2 DEF TimeAfter
    <3>3. CASE s # <<>>
      <4>1. Len(s) \in 1 .. Len(s) /\ Len(s) + 1 # 1 /\ Len(s) + 1 - 1 = Len(s)
        BY <1>0, <3>1, <3>3
      <4>2. u[Len(s)] = s[Len(s)]
        BY <2>5, <4>1
      <4>. QED BY <3>3, <4>1, <4>2 DEF TimeAfter
    <3>. QED BY <3>2, <3>3
  <2>. HIDE DEF u, n, due
  <2>. DEFINE dueAt(v, i) == Due(IF i = 1 THEN time ELSE v[i - 1].time)
  <2>7. ASSUME NEW i \in 1 .. Len(u)
        PROVE  \E m \in dueAt(u, i) : IsNext(dueAt(u, i), m) /\ u[i] = ucmds[Slot(m)]
    <3>1. CASE i = Len(s) + 1
      <4>1. dueAt(u, i) = due
        BY <2>6, <3>1 DEF due
      <4>. QED BY <2>2, <2>5, <3>1, <4>1
    <3>2. CASE i # Len(s) + 1
      <4>1. i \in 1 .. Len(s) /\ (i # 1 => i - 1 \in 1 .. Len(s))
        BY <1>0, <2>5, <3>2
      <4>2. u[i] = s[i] /\ (i # 1 => u[i - 1] = s[i - 1])
        BY <2>5, <4>1
      <4>3. dueAt(u, i) = dueAt(s, i)
        BY <4>2
      <4>4. \E m \in dueAt(s, i) : IsNext(dueAt(s, i), m) /\ s[i] = ucmds[Slot(m)]
        BY <4>1 DEF Executes
      <4>. QED BY <4>2, <4>3, <4>4
    <3>. QED BY <3>1, <3>2
  <2>8. Executes(time, u)
    BY <2>5, <2>7 DEF Executes
  <2>. QED BY <1>2, <2>4, <2>5, <2>8 DEF due
<1>. QED BY <1>1, <1>2

\* The times of moves executed increase.
LEMMA TimesIncrease ==
  ASSUME ServerTypes, NEW time \in Nat, NEW s, Executes(time, s)
  PROVE  /\ \A i \in 1 .. Len(s) : s[i] \in Move /\ s[i].time \in Nat /\ time < s[i].time
         /\ \A i \in 1 .. Len(s) : \A j \in 1 .. i - 1 : s[j].time < s[i].time
<1>0. /\ s \in Seq(Move) /\ Len(s) \in Nat
      /\ \A i \in 1 .. Len(s) : s[i] \in Move /\ s[i].time \in Nat
  <2>1. s \in Seq(Move) /\ Len(s) \in Nat
    BY DEF Executes
  <2>2. \A m \in Move : m.time \in Nat
    BY SizesAssumption DEF Move, Time
  <2>3. \A i \in 1 .. Len(s) : s[i] \in Move
    BY <2>1, ElementOfSeq
  <2>. QED BY <2>1, <2>2, <2>3
<1>1. ASSUME NEW i \in 1 .. Len(s)
      PROVE  (IF i = 1 THEN time ELSE s[i - 1].time) < s[i].time
  <2>1. PICK n \in Due(IF i = 1 THEN time ELSE s[i - 1].time) : s[i] = ucmds[Slot(n)]
    BY DEF Executes
  <2>. QED BY <2>1 DEF Due
<1>. DEFINE T == {i \in Nat : i \in 1 .. Len(s) /\ ~( /\ time < s[i].time
                                                  /\ \A j \in 1 .. i - 1 : s[j].time < s[i].time )}
<1>2. T = {}
  <2>1. SUFFICES ASSUME T # {} PROVE FALSE
    OBVIOUS
  <2>2. PICK i \in T : \A m \in T : i <= m
    <3>1. T \in SUBSET Nat
      OBVIOUS
    <3>. QED BY <2>1, <3>1, Smallest
  <2>3. i \in 1 .. Len(s)
    OBVIOUS
  <2>4. CASE i = 1
    BY <1>1, <2>2, <2>3, <2>4
  <2>5. CASE i # 1
    <3>1. i - 1 \in 1 .. Len(s) /\ ~(i <= i - 1)
      BY <1>0, <2>3, <2>5
    <3>2. time < s[i - 1].time /\ \A j \in 1 .. i - 1 - 1 : s[j].time < s[i - 1].time
      <4>1. i - 1 \notin T
        BY <2>2, <3>1
      <4>. QED BY <3>1, <4>1
    <3>3. s[i - 1].time < s[i].time
      BY <1>1, <2>3, <2>5
    <3>4. time < s[i].time
      BY <1>0, <2>3, <3>1, <3>2, <3>3
    <3>5. ASSUME NEW j \in 1 .. i - 1 PROVE s[j].time < s[i].time
      <4>1. CASE j = i - 1
        BY <3>3, <4>1
      <4>2. CASE j # i - 1
        <5>1. j \in 1 .. i - 1 - 1 /\ j \in 1 .. Len(s)
          BY <2>3, <4>2
        <5>2. s[j].time < s[i - 1].time
          BY <3>2, <5>1
        <5>. QED BY <1>0, <2>3, <3>1, <3>3, <5>1, <5>2
      <4>. QED BY <4>1, <4>2
    <3>. QED BY <2>2, <2>3, <3>4, <3>5
  <2>. QED BY <2>4, <2>5
<1>3. ASSUME NEW i \in 1 .. Len(s)
      PROVE  time < s[i].time /\ \A j \in 1 .. i - 1 : s[j].time < s[i].time
  BY <1>2
<1>. QED BY <1>0, <1>3

\* No more moves are executed at once than the ring has places.
LEMMA ExecutesFew ==
  ASSUME ServerTypes, NEW time \in Nat, NEW s, Executes(time, s)
  PROVE  Len(s) <= CMD_BACKUP
<1>1. SUFFICES ASSUME CMD_BACKUP < Len(s) PROVE FALSE
  BY SlotFacts DEF Executes
<1>0. s \in Seq(Move) /\ Len(s) \in Nat /\ CMD_BACKUP \in Nat
  BY SlotFacts DEF Executes
<1>2. \A i \in 1 .. Len(s) : \E p \in Slots : s[i] = ucmds[p]
  <2>1. TAKE i \in 1 .. Len(s)
  <2>2. PICK n \in Due(IF i = 1 THEN time ELSE s[i - 1].time) : s[i] = ucmds[Slot(n)]
    BY DEF Executes
  <2>3. n \in Nat
    BY DEF Due, ServerTypes
  <2>. QED BY <2>2, <2>3, SlotFacts
<1>. DEFINE f == [i \in 1 .. Len(s) |-> CHOOSE p \in Slots : s[i] = ucmds[p]]
<1>3. f \in [1 .. Len(s) -> Slots] /\ \A i \in 1 .. Len(s) : s[i] = ucmds[f[i]]
  BY <1>2
<1>4. /\ IsFiniteSet(1 .. Len(s)) /\ Cardinality(1 .. Len(s)) = Len(s)
      /\ IsFiniteSet(Slots) /\ Cardinality(Slots) = CMD_BACKUP
  <2>1. /\ Cardinality(1 .. Len(s)) = (IF 1 > Len(s) THEN 0 ELSE Len(s) - 1 + 1)
        /\ IsFiniteSet(1 .. Len(s))
    <3>1. Len(s) \in Int /\ 1 \in Int
      BY <1>0
    <3>. QED BY <3>1, FS_Interval
  <2>2. /\ Cardinality(0 .. CMD_MASK) = (IF 0 > CMD_MASK THEN 0 ELSE CMD_MASK - 0 + 1)
        /\ IsFiniteSet(0 .. CMD_MASK)
    <3>1. CMD_MASK \in Int
      BY <1>0 DEF CMD_MASK
    <3>. QED BY <3>1, FS_Interval
  <2>3. CMD_MASK = CMD_BACKUP - 1 /\ CMD_BACKUP > 0
    BY SlotFacts DEF CMD_MASK
  <2>. QED BY <1>0, <1>1, <2>1, <2>2, <2>3 DEF Slots
<1>. HIDE DEF f
<1>5. PICK i, j \in 1 .. Len(s) : i # j /\ f[i] = f[j]
  BY <1>1, <1>3, <1>4, FS_PigeonHole
<1>6. s[i].time = s[j].time /\ s[i].time \in Nat
  BY <1>3, <1>5, TimesIncrease
<1>7. CASE i < j
  BY <1>0, <1>6, <1>7, TimesIncrease
<1>8. CASE j < i
  BY <1>0, <1>6, <1>8, TimesIncrease
<1>. QED BY <1>5, <1>7, <1>8

\* What a frame executes, it executes in the order of times until nothing is due.
LEMMA ThinksFacts ==
  ASSUME ServerTypes, NEW time \in Nat
  PROVE  Executes(time, Thinks(time)) /\ Due(TimeAfter(time, Thinks(time))) = {}
<1>1. PICK h : /\ h[0] = <<>> /\ \A k \in 1 .. CMD_BACKUP : h[k] = Think(time, h[k - 1])
               /\ Thinks(time) = h[CMD_BACKUP]
  BY ThinksIs
<1>0. CMD_BACKUP \in Nat
  BY SlotFacts
<1>. DEFINE P(k) == /\ Executes(time, h[k])
                    /\ Len(h[k]) = k \/ Due(TimeAfter(time, h[k])) = {}
            T == {k \in 0 .. CMD_BACKUP : ~P(k)}
<1>2. T = {}
  <2>1. SUFFICES ASSUME T # {} PROVE FALSE
    OBVIOUS
  <2>2. PICK k \in T : \A m \in T : k <= m
    <3>1. T \in SUBSET Nat
      BY <1>0
    <3>. QED BY <2>1, <3>1, Smallest
  <2>3. CASE k = 0
    <3>1. h[0] = <<>> /\ Executes(time, <<>>) /\ Len(<<>>) = 0
      BY <1>1 DEF Executes
    <3>. QED BY <2>2, <2>3, <3>1
  <2>4. CASE k # 0
    <3>1. k \in 1 .. CMD_BACKUP /\ k - 1 \in 0 .. CMD_BACKUP /\ ~(k <= k - 1)
      BY <1>0, <2>4
    <3>2. k - 1 \notin T
      BY <2>2, <3>1
    <3>3. P(k - 1)
      BY <3>1, <3>2
    <3>4. h[k] = Think(time, h[k - 1])
      BY <1>1, <3>1
    <3>5. /\ Executes(time, h[k])
          /\ Due(TimeAfter(time, h[k - 1])) = {} => h[k] = h[k - 1]
          /\ Due(TimeAfter(time, h[k - 1])) # {} => Len(h[k]) = Len(h[k - 1]) + 1
      BY <3>3, <3>4, ThinkStep
    <3>6. P(k)
      BY <3>1, <3>3, <3>5
    <3>. QED BY <2>2, <3>6
  <2>. QED BY <2>3, <2>4
<1>3. P(CMD_BACKUP)
  BY <1>0, <1>2
<1>. DEFINE s == Thinks(time)
<1>4. Executes(time, s) /\ (Len(s) = CMD_BACKUP \/ Due(TimeAfter(time, s)) = {})
  BY <1>1, <1>3
<1>5. CASE Due(TimeAfter(time, s)) # {}
  <2>. HIDE DEF s
  <2>1. Executes(time, Think(time, s)) /\ Len(Think(time, s)) = Len(s) + 1
    BY <1>4, <1>5, ThinkStep
  <2>2. Len(Think(time, s)) <= CMD_BACKUP
    BY <2>1, ExecutesFew
  <2>. QED BY <1>0, <1>4, <1>5, <2>1, <2>2
<1>. QED BY <1>4, <1>5

-----------------------------------------------------------------------------
(* Moves are executed once, as made, and none is skipped: each step *)

LEMMA BoundsTypes ==
  /\ MaxMove \in Nat /\ MaxTime \in Nat \ {0} /\ MaxLost \in Nat /\ Lag \in Nat /\ Ahead \in Nat
  /\ Time \subseteq Nat /\ 0 \in Time
BY SizesAssumption DEF Time

LEMMA MinMax ==
  ASSUME NEW a \in Nat, NEW b \in Nat
  PROVE  /\ Min({a, b}) = IF a <= b THEN a ELSE b
         /\ Max({a, b}) = IF a <= b THEN b ELSE a
<1>1. PICK x \in {a, b} : x = (IF a <= b THEN a ELSE b) /\ \A y \in {a, b} : x <= y
  OBVIOUS
<1>2. PICK z \in {a, b} : z = (IF a <= b THEN b ELSE a) /\ \A y \in {a, b} : z >= y
  OBVIOUS
<1>3. Min({a, b}) \in {a, b} /\ \A y \in {a, b} : Min({a, b}) <= y
  BY <1>1 DEF Min
<1>4. Max({a, b}) \in {a, b} /\ \A y \in {a, b} : Max({a, b}) >= y
  BY <1>2 DEF Max
<1>. QED BY <1>3, <1>4

\* A message never has more moves than the ring, and without giving up moves it begins
\* with the first that is not acknowledged.
LEMMA FirstMoveFacts ==
  ASSUME NEW head \in Nat, NEW unack \in 1 .. head
  PROVE  /\ FirstMove(unack, head) \in 1 .. head /\ head - FirstMove(unack, head) <= CMD_MASK
         /\ head - unack <= CMD_MASK => FirstMove(unack, head) = unack
<1>1. CMD_MASK \in Nat /\ CMD_MASK >= 3
  BY SizesAssumption DEF CMD_MASK
<1>. QED BY <1>1 DEF FirstMove

\* A new move is added behind those made.
LEMMA CreateDelivers ==
  ASSUME Inv, Delivery, NEW t \in 1 .. gametime + Ahead, CL_CreateNewUserCommand(t)
  PROVE  Delivery'
<1>0. Numbers /\ RingInv /\ FramesInv /\ Types /\ MadeInv /\ MessagesInv /\ AcksInv /\ ServerInv
      /\ ExecutedInv /\ NothingSkipped
  BY DEF Inv, Delivery
<1>1. /\ cmdNum' = ucmdHead /\ ucmdHead' = ucmdHead + 1 /\ ucmdHead <= MaxMove
      /\ made' = (IF ucmdHead = 0 THEN made ELSE Append(made, t))
      /\ cmds' = [cmds EXCEPT ![Slot(ucmdHead)] = [num |-> ucmdHead, time |-> t],
                              ![Slot(ucmdHead + 1)] = [num |-> ucmdHead + 1, time |-> 0]]
  BY DEF CL_CreateNewUserCommand
<1>2. UNCHANGED <<ucmdAcknowledged, received, frozen, frame, predictFrom, saved, gametime, ucmds,
                  UcmdReceived, UcmdExecuted, UcmdTime, executed, toServer, toClient, lost>>
  BY DEF CL_CreateNewUserCommand, cgameVars, serverVars
<1>3. /\ cmdNum \in Nat /\ ucmdHead \in Nat /\ ((ucmdHead = 0 /\ cmdNum = 0) \/ ucmdHead = cmdNum + 1)
      /\ gametime \in 1 .. MaxTime /\ Len(made) = cmdNum /\ made \in Seq(Time \ {0})
      /\ UcmdReceived \in 0 .. cmdNum /\ UcmdExecuted \in 0 .. UcmdReceived
  BY <1>0 DEF Numbers, Types, MadeInv, FramesInv, Made, AcksInv
<1>4. t \in Time \ {0} /\ t \in Nat
  BY <1>3, BoundsTypes DEF Time
<1>5. /\ made' \in Seq(Time \ {0}) /\ Len(made') = cmdNum' /\ cmdNum <= cmdNum'
      /\ \A n \in 1 .. cmdNum : made'[n] = made[n]
      /\ ucmdHead # 0 => made'[ucmdHead] = t
  <2>1. CASE ucmdHead = 0
    BY <1>1, <1>3, <2>1
  <2>2. CASE ucmdHead # 0
    <3>1. made' = Append(made, t) /\ ucmdHead = Len(made) + 1
      BY <1>1, <1>3, <2>2
    <3>. QED BY <1>1, <1>3, <1>4, <3>1, AppendProperties
  <2>. QED BY <2>1, <2>2
<1>6. \A n \in 1 .. cmdNum : AsMade(n)' = AsMade(n)
  BY <1>5 DEF AsMade
<1>7. Types'
  <2>1. Slot(ucmdHead) \in Slots /\ Slot(ucmdHead + 1) \in Slots
    BY <1>3, SlotFacts
  <2>2. [num |-> ucmdHead, time |-> t] \in Move /\ [num |-> ucmdHead + 1, time |-> 0] \in Move
    BY <1>1, <1>3, <1>4, BoundsTypes DEF Move
  <2>3. cmds' \in [Slots -> Move]
    BY <1>0, <1>1, <2>1, <2>2 DEF Types
  <2>. QED BY <1>0, <1>1, <1>2, <2>3 DEF Types
<1>8. MadeInv'
  <2>1. ASSUME NEW n \in 1 .. cmdNum', n + CMD_BACKUP > ucmdHead'
        PROVE  cmds'[Slot(n)] = AsMade(n)'
    <3>1. /\ Slot(n) \in Slots /\ Slot(ucmdHead) \in Slots /\ Slot(ucmdHead + 1) \in Slots
          /\ Slot(ucmdHead) # Slot(ucmdHead + 1) /\ DOMAIN cmds = Slots /\ Slot(n) # Slot(ucmdHead + 1)
      BY <1>0, <1>1, <1>3, <2>1, SlotFacts DEF RingInv
    <3>2. CASE n = ucmdHead
      <4>1. cmds'[Slot(ucmdHead)] = [num |-> ucmdHead, time |-> t]
        BY <1>1, <3>1
      <4>2. made'[n] = t
        BY <1>5, <2>1, <3>2
      <4>. QED BY <3>2, <4>1, <4>2 DEF AsMade
    <3>3. CASE n < ucmdHead
      <4>1. n \in 1 .. cmdNum /\ n + CMD_BACKUP > ucmdHead /\ Slot(n) # Slot(ucmdHead)
        BY <1>1, <1>3, <2>1, <3>3, SlotFacts
      <4>2. cmds'[Slot(n)] = cmds[Slot(n)]
        BY <1>1, <3>1, <4>1
      <4>3. cmds[Slot(n)] = AsMade(n)
        BY <1>0, <4>1 DEF MadeInv
      <4>. QED BY <1>6, <4>1, <4>2, <4>3
    <3>. QED BY <1>1, <1>3, <2>1, <3>2, <3>3
  <2>. QED BY <1>5, <2>1 DEF MadeInv
<1>9. MessagesInv'
  <2>1. /\ toServer \in Seq([head : 1 .. cmdNum + 1, moves : Seq(Move)])
        /\ 1 .. cmdNum + 1 \subseteq 1 .. cmdNum' + 1 /\ frozen \in 0 .. cmdNum' + 1
    BY <1>0, <1>1, <1>3 DEF MessagesInv
  <2>2. [head : 1 .. cmdNum + 1, moves : Seq(Move)] \subseteq [head : 1 .. cmdNum' + 1, moves : Seq(Move)]
    BY <2>1
  <2>3. toServer' \in Seq([head : 1 .. cmdNum' + 1, moves : Seq(Move)])
    BY <1>2, <2>1, <2>2, SeqMonotonic
  <2>4. ASSUME NEW i \in 1 .. Len(toServer), NEW k \in 1 .. Len(toServer[i].moves)
        PROVE  toServer[i].moves[k] = AsMade(First(toServer[i]) + k - 1)'
    <3>1. /\ toServer[i].moves[k] = AsMade(First(toServer[i]) + k - 1)
          /\ First(toServer[i]) >= 1
      BY <1>0 DEF MessagesInv
    <3>2. toServer[i].head \in 1 .. cmdNum + 1 /\ toServer[i].moves \in Seq(Move)
      <4>1. toServer[i] \in [head : 1 .. cmdNum + 1, moves : Seq(Move)]
        BY <2>1, ElementOfSeq
      <4>. QED BY <4>1
    <3>3. First(toServer[i]) + k - 1 \in 1 .. cmdNum
      BY <1>3, <3>1, <3>2, SMTT(30) DEF First
    <3>. QED BY <1>2, <1>5, <3>1, <3>3 DEF AsMade, First
  <2>. QED BY <1>0, <1>2, <2>1, <2>3, <2>4 DEF MessagesInv, First
<1>10. AcksInv'
  BY <1>0, <1>2 DEF AcksInv
<1>11. ServerInv'
  <2>1. 1 .. UcmdReceived \subseteq 1 .. cmdNum /\ UcmdExecuted + 1 .. UcmdReceived \subseteq 1 .. cmdNum
    BY <1>3
  <2>2. \A n \in 1 .. UcmdReceived : AsMade(n)' = AsMade(n)
    BY <1>6, <2>1
  <2>3. \A n \in UcmdExecuted + 1 .. UcmdReceived : AsMade(n)' = AsMade(n)
    BY <1>6, <2>1
  <2>. QED BY <1>0, <1>2, <2>2, <2>3 DEF ServerInv
<1>12. ExecutedInv'
  <2>1. \A n \in 1 .. UcmdExecuted : AsMade(n)' = AsMade(n) /\ made'[n] = made[n]
    BY <1>3, <1>5, <1>6
  <2>. QED BY <1>0, <1>2, <2>1 DEF ExecutedInv, MinUcmdTime
<1>13. NothingSkipped'
  <2>1. \A n \in 1 .. UcmdExecuted : made'[n] = made[n] /\ \A m \in 1 .. n - 1 : made'[m] = made[m]
    BY <1>3, <1>5
  <2>. QED BY <1>0, <1>2, <2>1 DEF NothingSkipped, MinUcmdTime
<1>. QED BY <1>7, <1>8, <1>9, <1>10, <1>11, <1>12, <1>13 DEF Delivery

\* What a message carries is what the ring has, and its first moves are those that are
\* not acknowledged, unless they are given up.
LEMMA WriteDelivers ==
  ASSUME Inv, Delivery, NEW arrives \in BOOLEAN, CL_WriteUcmdsToMessage(arrives)
  PROVE  Delivery'
<1>0. Numbers /\ RingInv /\ FramesInv /\ Types /\ MadeInv /\ MessagesInv /\ AcksInv /\ ServerInv
      /\ ExecutedInv /\ NothingSkipped
  BY DEF Inv, Delivery
<1>. DEFINE head  == cmdNum + 1
            unack == Min({ucmdAcknowledged + 1, head})
            first == FirstMove(unack, head)
            m     == [head |-> head,
                      moves |-> [k \in 1 .. head - first |-> cmds[Slot(first + k - 1)]]]
<1>1. /\ toServer' = (IF ~arrives THEN toServer ELSE Append(toServer, m))
      /\ frozen' = (IF head - unack > CMD_MASK THEN head ELSE frozen)
      /\ lost' = (IF arrives THEN lost ELSE lost + 1) /\ lost' <= MaxLost
  BY DEF CL_WriteUcmdsToMessage, Transmit
<1>2. UNCHANGED <<cmds, cmdNum, ucmdHead, ucmdAcknowledged, received, frame, predictFrom, saved, made,
                  gametime, ucmds, UcmdReceived, UcmdExecuted, UcmdTime, executed, toClient>>
  BY DEF CL_WriteUcmdsToMessage, cgameVars, serverVars
<1>3. /\ cmdNum \in Nat /\ ucmdHead \in Nat /\ ucmdHead <= cmdNum + 1
      /\ UcmdReceived \in 0 .. cmdNum /\ UcmdExecuted \in 0 .. UcmdReceived
      /\ ucmdAcknowledged \in 0 .. UcmdExecuted /\ frozen \in 0 .. cmdNum + 1 /\ lost \in 0 .. MaxLost
  BY <1>0 DEF Numbers, Types, MessagesInv, FramesInv, Made, AcksInv
<1>4. unack = ucmdAcknowledged + 1 /\ unack \in 1 .. head
  <2>1. ucmdAcknowledged + 1 <= head /\ ucmdAcknowledged + 1 \in Nat /\ head \in Nat
    BY <1>3
  <2>. QED BY <1>3, <2>1, MinMax
<1>. HIDE DEF unack
<1>5. /\ CMD_MASK \in Nat \ {0, 1, 2} /\ CMD_MASK = CMD_BACKUP - 1
  BY SizesAssumption DEF CMD_MASK
<1>6. /\ first \in 1 .. head /\ head - first <= CMD_MASK
      /\ head - unack <= CMD_MASK => first = ucmdAcknowledged + 1
  BY <1>3, <1>4, FirstMoveFacts
<1>. HIDE DEF first, head
<1>6a. head \in Nat /\ head = cmdNum + 1 /\ first \in Nat /\ head - first \in Nat
  BY <1>3, <1>6 DEF head
<1>7. \A k \in 1 .. head - first : cmds[Slot(first + k - 1)] = AsMade(first + k - 1)
                                  /\ cmds[Slot(first + k - 1)] \in Move
  <2>1. TAKE k \in 1 .. head - first
  <2>2. first + k - 1 \in 1 .. cmdNum /\ first + k - 1 + CMD_BACKUP > ucmdHead
    BY <1>3, <1>5, <1>6, <1>6a, SlotFacts
  <2>3. Slot(first + k - 1) \in Slots
    BY <2>2, SlotFacts
  <2>. QED BY <1>0, <2>2, <2>3 DEF MadeInv, Types
<1>8. /\ m.head = head /\ m.moves \in Seq(Move) /\ Len(m.moves) = head - first
      /\ \A k \in 1 .. head - first : m.moves[k] = AsMade(first + k - 1)
  BY <1>6a, <1>7
<1>9. m \in [head : 1 .. cmdNum + 1, moves : Seq(Move)]
  BY <1>3, <1>6a, <1>8
<1>10. First(m) = first
  BY <1>3, <1>6a, <1>8 DEF First
<1>. HIDE DEF m
<1>11. frozen <= frozen' /\ frozen' \in 0 .. cmdNum + 1
  BY <1>1, <1>3, <1>6a
<1>12. m.head <= frozen' \/ First(m) <= UcmdExecuted + 1
  BY <1>1, <1>3, <1>4, <1>5, <1>6, <1>6a, <1>8, <1>10, SMTT(30)
<1>13. MessagesInv'
  <2>. DEFINE Rec == [head : 1 .. cmdNum + 1, moves : Seq(Move)]
  <2>1. /\ toServer \in Seq(Rec) /\ Len(toServer) \in Nat
        /\ \A i \in 1 .. Len(toServer) : toServer[i].head \in 1 .. cmdNum + 1
    <3>1. toServer \in Seq(Rec)
      BY <1>0 DEF MessagesInv
    <3>2. \A i \in 1 .. Len(toServer) : toServer[i] \in Rec
      BY <3>1, ElementOfSeq
    <3>. QED BY <3>1, <3>2
  <2>2. \A i \in 1 .. Len(toServer) :
          /\ UcmdReceived < toServer[i].head
          /\ First(toServer[i]) >= 1 /\ Len(toServer[i].moves) <= CMD_MASK
          /\ \A k \in 1 .. Len(toServer[i].moves) :
               toServer[i].moves[k] = AsMade(First(toServer[i]) + k - 1)
          /\ toServer[i].head <= frozen' \/ First(toServer[i]) <= UcmdExecuted + 1
          /\ \A j \in i .. Len(toServer) : toServer[i].head <= toServer[j].head
          /\ toServer[i].head <= m.head
    <3>1. \A i \in 1 .. Len(toServer) : toServer[i].head <= m.head
      BY <1>3, <1>6a, <1>8, <2>1
    <3>2. \A i \in 1 .. Len(toServer) : toServer[i].head <= frozen => toServer[i].head <= frozen'
      BY <1>3, <1>11, <2>1
    <3>. QED BY <1>0, <3>1, <3>2 DEF MessagesInv
  <2>3. CASE arrives
    <3>1. toServer' = Append(toServer, m)
      BY <1>1, <2>3
    <3>2. /\ toServer' \in Seq(Rec) /\ Len(toServer') = Len(toServer) + 1
          /\ \A i \in 1 .. Len(toServer) : toServer'[i] = toServer[i]
          /\ toServer'[Len(toServer) + 1] = m
      BY <1>9, <2>1, <3>1, AppendProperties
    <3>3. ASSUME NEW i \in 1 .. Len(toServer')
          PROVE  /\ UcmdReceived < toServer'[i].head
                 /\ First(toServer'[i]) >= 1 /\ Len(toServer'[i].moves) <= CMD_MASK
                 /\ \A k \in 1 .. Len(toServer'[i].moves) :
                      toServer'[i].moves[k] = AsMade(First(toServer'[i]) + k - 1)
                 /\ toServer'[i].head <= frozen' \/ First(toServer'[i]) <= UcmdExecuted + 1
                 /\ \A j \in i .. Len(toServer') : toServer'[i].head <= toServer'[j].head
      <4>1. CASE i = Len(toServer) + 1
        <5>1. /\ UcmdReceived < m.head /\ First(m) >= 1 /\ Len(m.moves) <= CMD_MASK
              /\ \A k \in 1 .. Len(m.moves) : m.moves[k] = AsMade(First(m) + k - 1)
          BY <1>3, <1>6, <1>6a, <1>8, <1>10
        <5>2. \A j \in i .. Len(toServer') : j = i
          BY <2>1, <3>2, <4>1
        <5>3. toServer'[i] = m /\ m.head <= m.head
          BY <1>3, <1>6a, <1>8, <3>2, <4>1
        <5>. QED BY <1>12, <5>1, <5>2, <5>3
      <4>2. CASE i # Len(toServer) + 1
        <5>1. i \in 1 .. Len(toServer) /\ toServer'[i] = toServer[i]
          <6>1. i \in 1 .. Len(toServer)
            <7>1. Len(toServer) \in Nat /\ i \in 1 .. Len(toServer) + 1
              BY <2>1, <3>2
            <7>. QED BY <4>2, <7>1
          <6>. QED BY <3>2, <6>1
        <5>2. \A j \in i .. Len(toServer') : toServer'[i].head <= toServer'[j].head
          <6>1. TAKE j \in i .. Len(toServer')
          <6>2. CASE j = Len(toServer) + 1
            BY <2>2, <3>2, <5>1, <6>2
          <6>3. CASE j # Len(toServer) + 1
            <7>1. j \in i .. Len(toServer) /\ j \in 1 .. Len(toServer)
              BY <2>1, <3>2, <5>1, <6>3
            <7>. QED BY <2>2, <3>2, <5>1, <7>1
          <6>. QED BY <6>2, <6>3
        <5>. QED BY <2>2, <5>1, <5>2
      <4>. QED BY <4>1, <4>2
    <3>. QED BY <1>2, <1>11, <3>2, <3>3 DEF MessagesInv, AsMade, First
  <2>4. CASE ~arrives
    <3>1. toServer' = toServer
      BY <1>1, <2>4
    <3>. QED BY <1>2, <1>11, <2>1, <2>2, <3>1 DEF MessagesInv, AsMade, First
  <2>. QED BY <2>3, <2>4
<1>14. Types'
  BY <1>0, <1>1, <1>2, <1>3, BoundsTypes DEF Types
<1>15. MadeInv' /\ AcksInv'
  BY <1>0, <1>2 DEF MadeInv, AcksInv, AsMade
<1>16. ServerInv'
  BY <1>0, <1>2, <1>3, <1>11 DEF ServerInv, AsMade
<1>17. ExecutedInv'
  BY <1>0, <1>2 DEF ExecutedInv, AsMade, MinUcmdTime
<1>18. NothingSkipped'
  BY <1>0, <1>2, <1>3, <1>11 DEF NothingSkipped, MinUcmdTime
<1>. QED BY <1>13, <1>14, <1>15, <1>16, <1>17, <1>18 DEF Delivery

\* What a frame acknowledges was executed.
LEMMA ParseFrameDelivers ==
  ASSUME Inv, Delivery, CL_ParseServerMessage
  PROVE  Delivery'
<1>0. Numbers /\ Types /\ MadeInv /\ MessagesInv /\ AcksInv /\ ServerInv /\ ExecutedInv
      /\ NothingSkipped
  BY DEF Inv, Delivery
<1>1. /\ toClient # <<>> /\ ucmdAcknowledged' = Head(toClient).acknowledged
      /\ received' = Head(toClient).frame /\ toClient' = Tail(toClient)
  BY DEF CL_ParseServerMessage
<1>2. UNCHANGED <<cmds, cmdNum, ucmdHead, frozen, frame, predictFrom, saved, made, lost,
                  gametime, ucmds, UcmdReceived, UcmdExecuted, UcmdTime, executed, toServer>>
  BY DEF CL_ParseServerMessage, cgameVars, serverVars
<1>. DEFINE Rec == [acknowledged : 0 .. UcmdExecuted, frame : Frame]
<1>3. toClient \in Seq(Rec)
  BY <1>0 DEF AcksInv
<1>4. Head(toClient) \in Rec /\ Tail(toClient) \in Seq(Rec)
  BY <1>1, <1>3, HeadTailProperties
<1>5. ucmdAcknowledged' \in 0 .. UcmdExecuted /\ received' \in Frame /\ toClient' \in Seq(Rec)
  BY <1>1, <1>4
<1>6. Types' /\ AcksInv'
  BY <1>0, <1>2, <1>5 DEF Types, AcksInv
<1>7. MadeInv' /\ MessagesInv'
  BY <1>0, <1>2 DEF MadeInv, MessagesInv, AsMade, First
<1>8. ServerInv' /\ ExecutedInv' /\ NothingSkipped'
  BY <1>0, <1>2 DEF ServerInv, ExecutedInv, NothingSkipped, AsMade, MinUcmdTime
<1>. QED BY <1>6, <1>7, <1>8 DEF Delivery

\* Moves one after another, all of them made.
LEMMA BetweenSeq ==
  ASSUME NEW a \in Nat, NEW b \in Nat, a <= b, NEW c \in Nat, b <= c
  PROVE  Between(a, b) \in Seq(1 .. c)
<1>. DEFINE n == b - a
            s == Between(a, b)
<1>1. n \in Nat /\ \A k \in 1 .. n : a + k \in 1 .. c
  OBVIOUS
<1>2. s = [k \in 1 .. n |-> a + k]
  BY DEF Between
<1>. HIDE DEF n
<1>3. s \in [1 .. n -> 1 .. c]
  BY <1>1, <1>2
<1>. HIDE DEF s
<1>4. s \in Seq(1 .. c)
  BY <1>1, <1>3, SeqDef
<1>. QED BY <1>4 DEF s

\* What is saved is a prediction: a frame and moves after it.
LEMMA CGameDelivers ==
  ASSUME Inv, Delivery, CGame
  PROVE  Delivery'
<1>0. Numbers /\ FramesInv /\ SavedInv /\ Types /\ MadeInv /\ MessagesInv /\ AcksInv /\ ServerInv
      /\ ExecutedInv /\ NothingSkipped
  BY DEF Inv, Delivery
<1>1. UNCHANGED <<cmds, cmdNum, ucmdHead, ucmdAcknowledged, received, frozen, made, lost, gametime,
                  ucmds, UcmdReceived, UcmdExecuted, UcmdTime, executed, toServer, toClient>>
  BY DEF CGame, clientVars, serverVars
<1>2. frame' \in Frame /\ saved' \in Playerstate
  <2>1. CASE CG_NewFrameSnap
    BY <1>0, <2>1 DEF CG_NewFrameSnap, Types
  <2>2. CASE CG_PredictMovement
    <3>1. frame' = frame /\ frame \in Frame /\ saved \in Playerstate
      BY <1>0, <2>2 DEF CG_PredictMovement, Types
    <3>2. CASE cg_predict_optimize /\ Near /\ ucmdHead - 1 > From
      <4>1. saved' = PredictedUpTo(ucmdHead - 1)
        BY <2>2, <3>2 DEF CG_PredictMovement
      <4>2. /\ From \in Nat /\ From >= frame.ucmdExecuted /\ frame.ucmdExecuted \in Nat
            /\ ucmdHead \in Nat /\ cmdNum \in Nat /\ ucmdHead <= cmdNum + 1 /\ cmdNum <= MaxMove
        BY <1>0 DEF Numbers, FramesInv, SavedInv, Made, From, Usable, Types
      <4>3. PredictedUpTo(ucmdHead - 1) = [base |-> frame.built,
                                           moves |-> Between(frame.ucmdExecuted, ucmdHead - 1)]
        <5>1. ucmdHead - 1 \in Nat /\ From <= ucmdHead - 1 /\ ucmdHead - 1 <= ucmdHead
          BY <3>2, <4>2
        <5>. QED BY <3>2, <5>1, Predicted
      <4>4. Between(frame.ucmdExecuted, ucmdHead - 1) \in Seq(1 .. MaxMove + 1)
        <5>1. MaxMove + 1 \in Nat /\ ucmdHead - 1 <= MaxMove + 1 /\ ucmdHead - 1 \in Nat
              /\ frame.ucmdExecuted <= ucmdHead - 1
          BY <3>2, <4>2, BoundsTypes
        <5>. QED BY <4>2, <5>1, BetweenSeq
      <4>5. frame.built \in 1 .. MaxTime
        BY <3>1 DEF Frame
      <4>. QED BY <3>1, <4>1, <4>3, <4>4, <4>5 DEF Playerstate
    <3>3. CASE ~(cg_predict_optimize /\ Near /\ ucmdHead - 1 > From)
      BY <2>2, <3>1, <3>3 DEF CG_PredictMovement
    <3>. QED BY <3>1, <3>2, <3>3
  <2>. QED BY <2>1, <2>2 DEF CGame
<1>3. Types' /\ AcksInv'
  BY <1>0, <1>1, <1>2 DEF Types, AcksInv
<1>4. MadeInv' /\ MessagesInv'
  BY <1>0, <1>1 DEF MadeInv, MessagesInv, AsMade, First
<1>5. ServerInv' /\ ExecutedInv' /\ NothingSkipped'
  BY <1>0, <1>1 DEF ServerInv, ExecutedInv, NothingSkipped, AsMade, MinUcmdTime
<1>. QED BY <1>3, <1>4, <1>5 DEF Delivery

\* A set of numbers up to n has a greatest one.
LEMMA MaxOfInterval ==
  ASSUME NEW n \in Nat, NEW S \in SUBSET (1 .. n), S # {}
  PROVE  Max(S) \in S /\ \A y \in S : Max(S) >= y
<1>. DEFINE T == {n - s : s \in S}
<1>1. T \in SUBSET Nat /\ T # {}
  <2>1. \A s \in S : n - s \in Nat
    OBVIOUS
  <2>2. PICK s \in S : TRUE
    OBVIOUS
  <2>3. n - s \in T
    OBVIOUS
  <2>. QED BY <2>1, <2>3
<1>2. PICK x \in T : \A y \in T : x <= y
  BY <1>1, Smallest
<1>3. PICK u \in S : x = n - u
  OBVIOUS
<1>4. \A s \in S : x <= n - s
  BY <1>2
<1>5. \A s \in S : u >= s
  BY <1>3, <1>4
<1>. QED BY <1>5 DEF Max

\* A message puts its moves in their places. All those to execute are in it, or are
\* given up.
LEMMA ParseMovesDelivers ==
  ASSUME Inv, Delivery, SV_ParseMoveCommand
  PROVE  Delivery'
<1>0. Numbers /\ FramesInv /\ Types /\ MadeInv /\ MessagesInv /\ AcksInv /\ ServerInv
      /\ ExecutedInv /\ NothingSkipped
  BY DEF Inv, Delivery
<1>. DEFINE m == Head(toServer)
            Rec == [head : 1 .. cmdNum + 1, moves : Seq(Move)]
            At(s) == {k \in 1 .. Len(m.moves) : Slot(First(m) + k - 1) = s}
<1>1. /\ toServer # <<>> /\ toServer' = Tail(toServer) /\ UcmdReceived' = m.head - 1
      /\ ucmds' = [s \in Slots |-> IF At(s) = {} THEN ucmds[s] ELSE m.moves[Max(At(s))]]
  BY DEF SV_ParseMoveCommand, First
<1>2. UNCHANGED <<cmds, cmdNum, ucmdHead, ucmdAcknowledged, received, frozen, frame, predictFrom, saved,
                  made, lost, gametime, UcmdExecuted, UcmdTime, executed, toClient>>
  BY DEF SV_ParseMoveCommand, clientVars, cgameVars
<1>3. /\ cmdNum \in Nat /\ UcmdReceived \in 0 .. cmdNum /\ UcmdExecuted \in 0 .. UcmdReceived
      /\ frozen \in 0 .. cmdNum + 1
  BY <1>0 DEF Numbers, MessagesInv, FramesInv, Made, AcksInv
<1>4. /\ toServer \in Seq(Rec) /\ Len(toServer) \in Nat \ {0} /\ m = toServer[1]
      /\ 1 \in 1 .. Len(toServer) /\ m \in Rec
      /\ toServer' \in Seq(Rec) /\ Len(toServer') = Len(toServer) - 1
      /\ \A i \in 1 .. Len(toServer') : toServer'[i] = toServer[i + 1] /\ i + 1 \in 1 .. Len(toServer)
  <2>1. toServer \in Seq(Rec)
    BY <1>0 DEF MessagesInv
  <2>. HIDE DEF Rec
  <2>. QED BY <1>1, <2>1
<1>5. /\ UcmdReceived < m.head
      /\ First(m) >= 1 /\ Len(m.moves) <= CMD_MASK
      /\ \A k \in 1 .. Len(m.moves) : m.moves[k] = AsMade(First(m) + k - 1)
      /\ m.head <= frozen \/ First(m) <= UcmdExecuted + 1
      /\ \A j \in 1 .. Len(toServer) : m.head <= toServer[j].head
  BY <1>0, <1>4 DEF MessagesInv
<1>6. /\ m.head \in 1 .. cmdNum + 1 /\ m.moves \in Seq(Move) /\ Len(m.moves) \in Nat
      /\ First(m) \in 1 .. cmdNum + 1 /\ m.head = First(m) + Len(m.moves)
      /\ CMD_MASK = CMD_BACKUP - 1 /\ CMD_BACKUP \in Nat
  <2>1. m.head \in 1 .. cmdNum + 1 /\ m.moves \in Seq(Move)
    BY <1>4
  <2>. QED BY <1>3, <1>5, <2>1, SlotFacts DEF First, CMD_MASK
<1>. HIDE DEF m
<1>7. \A k \in 1 .. Len(m.moves) : First(m) + k - 1 \in 1 .. UcmdReceived'
  BY <1>1, <1>6
<1>8. MessagesInv'
  <2>1. ASSUME NEW i \in 1 .. Len(toServer')
        PROVE  /\ UcmdReceived' < toServer'[i].head
               /\ First(toServer'[i]) >= 1 /\ Len(toServer'[i].moves) <= CMD_MASK
               /\ \A k \in 1 .. Len(toServer'[i].moves) :
                    toServer'[i].moves[k] = AsMade(First(toServer'[i]) + k - 1)
               /\ toServer'[i].head <= frozen \/ First(toServer'[i]) <= UcmdExecuted + 1
               /\ \A j \in i .. Len(toServer') : toServer'[i].head <= toServer'[j].head
    <3>1. toServer'[i] = toServer[i + 1] /\ i + 1 \in 1 .. Len(toServer)
      BY <1>4
    <3>2. \A j \in i .. Len(toServer') : toServer'[j] = toServer[j + 1] /\ j + 1 \in i + 1 .. Len(toServer)
      BY <1>4
    <3>3. toServer[i + 1] \in Rec
      BY <1>4, <3>1, ElementOfSeq
    <3>4. UcmdReceived' < toServer[i + 1].head
      BY <1>1, <1>5, <1>6, <3>1, <3>3
    <3>. QED BY <1>0, <3>1, <3>2, <3>4 DEF MessagesInv
  <2>. QED BY <1>0, <1>2, <1>4, <2>1 DEF MessagesInv, AsMade, First
<1>9. \A s \in Slots : \/ ucmds'[s] = ucmds[s] /\ At(s) = {}
                      \/ /\ At(s) # {} /\ Max(At(s)) \in At(s) /\ ucmds'[s] = m.moves[Max(At(s))]
                         /\ ucmds'[s] = AsMade(First(m) + Max(At(s)) - 1)
  <2>1. TAKE s \in Slots
  <2>2. CASE At(s) = {}
    BY <1>1, <2>2
  <2>3. CASE At(s) # {}
    <3>1. Max(At(s)) \in At(s)
      BY <1>6, <2>3, MaxOfInterval
    <3>. HIDE DEF At
    <3>2. Max(At(s)) \in 1 .. Len(m.moves)
      BY <3>1 DEF At
    <3>. QED BY <1>1, <1>5, <2>3, <3>1, <3>2
  <2>. QED BY <2>2, <2>3
<1>10. ucmds' \in [Slots -> Move]
  <2>1. \A s \in Slots : ucmds'[s] \in Move
    <3>1. TAKE s \in Slots
    <3>2. CASE ucmds'[s] = ucmds[s]
      BY <1>0, <3>2 DEF ServerInv
    <3>3. CASE Max(At(s)) \in At(s) /\ ucmds'[s] = m.moves[Max(At(s))]
      <4>1. Max(At(s)) \in 1 .. Len(m.moves)
        BY <3>3
      <4>. QED BY <1>6, <3>3, <4>1, ElementOfSeq
    <3>. QED BY <1>9, <3>2, <3>3
  <2>. QED BY <1>1, <2>1
<1>11. \A s \in Slots : ucmds'[s] = NoMove \/ \E n \in 1 .. UcmdReceived' : ucmds'[s] = AsMade(n)
  <2>1. TAKE s \in Slots
  <2>2. CASE ucmds'[s] = ucmds[s]
    <3>1. 1 .. UcmdReceived \subseteq 1 .. UcmdReceived'
      BY <1>1, <1>3, <1>5, <1>6, SMTT(30)
    <3>. QED BY <1>0, <2>2, <3>1 DEF ServerInv
  <2>3. CASE Max(At(s)) \in At(s) /\ ucmds'[s] = AsMade(First(m) + Max(At(s)) - 1)
    BY <1>7, <2>3
  <2>. QED BY <1>9, <2>2, <2>3
<1>12. \/ UcmdReceived' < frozen
       \/ /\ UcmdReceived' - UcmdExecuted <= CMD_MASK
          /\ \A n \in UcmdExecuted + 1 .. UcmdReceived' : ucmds'[Slot(n)] = AsMade(n)
  <2>1. CASE m.head <= frozen
    BY <1>1, <1>3, <1>6, <2>1
  <2>2. CASE First(m) <= UcmdExecuted + 1
    <3>1. UcmdReceived' - UcmdExecuted <= CMD_MASK
      BY <1>1, <1>3, <1>5, <1>6, <2>2, SMTT(30)
    <3>2. ASSUME NEW n \in UcmdExecuted + 1 .. UcmdReceived'
          PROVE  ucmds'[Slot(n)] = AsMade(n)
      <4>. DEFINE j == n - First(m) + 1
      <4>1. /\ n \in Nat /\ j \in 1 .. Len(m.moves) /\ First(m) + j - 1 = n
        <5>1. n \in Nat /\ First(m) <= n /\ n <= m.head - 1
          BY <1>1, <1>3, <1>6, <2>2
        <5>. QED BY <1>6, <5>1
      <4>2. j \in At(Slot(n)) /\ Slot(n) \in Slots
        BY <4>1, SlotFacts
      <4>. DEFINE k == Max(At(Slot(n)))
      <4>3. /\ k \in At(Slot(n)) /\ ucmds'[Slot(n)] = AsMade(First(m) + k - 1)
        BY <1>9, <4>2
      <4>. HIDE DEF k, j
      <4>4. k \in 1 .. Len(m.moves) /\ Slot(First(m) + k - 1) = Slot(First(m) + j - 1)
        BY <4>1, <4>3
      <4>5. /\ First(m) + k - 1 \in Nat /\ First(m) + j - 1 \in Nat
            /\ First(m) + k - 1 < First(m) + j - 1 + CMD_BACKUP
            /\ First(m) + j - 1 < First(m) + k - 1 + CMD_BACKUP
        BY <1>5, <1>6, <4>1, <4>4, SMTT(30)
      <4>6. First(m) + k - 1 = First(m) + j - 1
        BY <4>4, <4>5, SlotFacts
      <4>. QED BY <4>1, <4>3, <4>6
    <3>. QED BY <3>1, <3>2
  <2>. QED BY <1>5, <2>1, <2>2
<1>13. ServerInv'
  BY <1>2, <1>10, <1>11, <1>12 DEF ServerInv, AsMade
<1>14. AcksInv'
  BY <1>0, <1>1, <1>2, <1>3, <1>5, <1>6 DEF AcksInv
<1>15. Types' /\ MadeInv'
  BY <1>0, <1>2 DEF Types, MadeInv, AsMade
<1>16. ExecutedInv' /\ NothingSkipped'
  BY <1>0, <1>2 DEF ExecutedInv, NothingSkipped, AsMade, MinUcmdTime
<1>. QED BY <1>8, <1>13, <1>14, <1>15, <1>16 DEF Delivery

\* What a frame executes are moves as they were made, in the order of their times.
LEMMA ThinksGenuine ==
  ASSUME ServerTypes, ServerInv, NEW time \in Nat
  PROVE  LET s == Thinks(time)
         IN  /\ s \in Seq(Move)
             /\ \A i \in 1 .. Len(s) :
                  /\ s[i].time \in Nat /\ time < s[i].time
                  /\ \E n \in 1 .. UcmdReceived : s[i] = AsMade(n)
                  /\ \A j \in 1 .. i - 1 : s[j].time < s[i].time
<1>. DEFINE s == Thinks(time)
<1>1. Executes(time, s)
  BY ThinksFacts
<1>. HIDE DEF s
<1>2. /\ \A i \in 1 .. Len(s) : s[i] \in Move /\ s[i].time \in Nat /\ time < s[i].time
      /\ \A i \in 1 .. Len(s) : \A j \in 1 .. i - 1 : s[j].time < s[i].time
  BY <1>1, TimesIncrease
<1>3. ASSUME NEW i \in 1 .. Len(s)
      PROVE  \E n \in 1 .. UcmdReceived : s[i] = AsMade(n)
  <2>1. PICK k \in Due(IF i = 1 THEN time ELSE s[i - 1].time) : s[i] = ucmds[Slot(k)]
    BY <1>1 DEF Executes
  <2>2. Slot(k) \in Slots
    BY <2>1, SlotFacts DEF Due, ServerTypes
  <2>3. s[i] # NoMove
    BY <1>2 DEF NoMove
  <2>. QED BY <2>1, <2>2, <2>3 DEF ServerInv
<1>4. s \in Seq(Move)
  BY <1>1 DEF Executes
<1>. QED BY <1>2, <1>3, <1>4 DEF s

\* A move that is not older than the time from which on moves are executed is executed, if
\* it comes before the moves that were made with its time.
LEMMA ThinksAll ==
  ASSUME ServerTypes, MadeInv, cmdNum \in Nat, UcmdReceived <= cmdNum,
         \A i \in UcmdExecuted + 1 .. UcmdReceived : ucmds[Slot(i)] = AsMade(i),
         NEW time \in Nat, NEW n \in UcmdExecuted + 1 .. UcmdReceived, time < made[n],
         \A m \in 1 .. n - 1 : made[m] < made[n]
  PROVE  LET s == Thinks(time) IN \E i \in 1 .. Len(s) : s[i] = AsMade(n)
<1>. DEFINE s == Thinks(time)
<1>1. Executes(time, s) /\ Due(TimeAfter(time, s)) = {}
  BY ThinksFacts
<1>. HIDE DEF s
<1>2. s \in Seq(Move) /\ Len(s) \in Nat /\ \A i \in 1 .. Len(s) : s[i].time \in Nat
  BY <1>1, TimesIncrease DEF Executes
<1>3. \A i \in UcmdExecuted + 1 .. UcmdReceived :
        i \in 1 .. cmdNum /\ ucmds[Slot(i)].time = made[i] /\ made[i] \in Nat
  <2>1. TAKE i \in UcmdExecuted + 1 .. UcmdReceived
  <2>2. i \in 1 .. cmdNum
    BY DEF ServerTypes
  <2>3. made[i] \in Time \ {0}
    BY <2>2, ElementOfSeq DEF MadeInv
  <2>4. made[i] \in Nat
    BY <2>3, BoundsTypes
  <2>5. ucmds[Slot(i)] = [num |-> i, time |-> made[i]]
    BY DEF AsMade
  <2>. QED BY <2>2, <2>4, <2>5
<1>4. \A at \in Nat : at < made[n] => n \in Due(at)
  BY <1>3 DEF Due
<1>5. s # <<>> /\ s[Len(s)].time >= made[n] /\ Len(s) \in 1 .. Len(s)
  <2>1. s # <<>>
    BY <1>1, <1>4 DEF TimeAfter
  <2>2. Len(s) \in 1 .. Len(s)
    BY <1>2, <2>1
  <2>3. Due(s[Len(s)].time) = {}
    BY <1>1, <2>1 DEF TimeAfter
  <2>. QED BY <1>2, <1>3, <1>4, <2>1, <2>2, <2>3
<1>. DEFINE T == {i \in 1 .. Len(s) : s[i].time >= made[n]}
<1>6. PICK i \in T : \A j \in T : i <= j
  <2>1. T \in SUBSET Nat /\ T # {}
    BY <1>5
  <2>. QED BY <2>1, Smallest
<1>. DEFINE at == IF i = 1 THEN time ELSE s[i - 1].time
<1>7. at \in Nat /\ at < made[n] /\ i \in 1 .. Len(s) /\ s[i].time >= made[n]
  <2>1. CASE i = 1
    BY <1>6, <2>1
  <2>2. CASE i # 1
    <3>1. i - 1 \in 1 .. Len(s) /\ ~(i <= i - 1) /\ i \in 1 .. Len(s)
      BY <1>2, <2>2
    <3>2. i - 1 \notin T
      BY <1>6, <3>1
    <3>. QED BY <1>2, <1>3, <2>2, <3>1, <3>2
  <2>. QED BY <2>1, <2>2
<1>8. PICK k \in Due(at) : IsNext(Due(at), k) /\ s[i] = ucmds[Slot(k)]
  BY <1>1, <1>7 DEF Executes
<1>9. n \in Due(at) /\ k \in UcmdExecuted + 1 .. UcmdReceived
  BY <1>4, <1>7, <1>8 DEF Due
<1>. HIDE DEF at
<1>10. /\ ucmds[Slot(k)].time = made[k] /\ made[k] \in Nat /\ made[n] \in Nat
       /\ ucmds[Slot(n)].time = made[n] /\ made[k] >= made[n]
  BY <1>3, <1>7, <1>8, <1>9
<1>11. made[k] = made[n] /\ k <= n
  BY <1>8, <1>9, <1>10 DEF IsNext
<1>12. k = n
  <2>1. k \in 1 .. n
    BY <1>9, <1>11 DEF ServerTypes
  <2>. QED BY <1>10, <1>11, <2>1
<1>. QED BY <1>7, <1>8, <1>9, <1>12 DEF s

\* A frame executes the moves that were received, each as it was made and later than
\* those before, and skips none without a reason.
LEMMA RunDelivers ==
  ASSUME Inv, Delivery, NEW arrives \in BOOLEAN, SV_RunGameFrame(arrives)
  PROVE  Delivery'
<1>0. Numbers /\ FramesInv /\ Types /\ MadeInv /\ MessagesInv /\ AcksInv /\ ServerInv
      /\ ExecutedInv /\ NothingSkipped
  BY DEF Inv, Delivery
<1>. DEFINE from == Max({UcmdTime, MinUcmdTime(gametime + 1)})
            s    == Thinks(from)
            f    == [acknowledged |-> UcmdReceived,
                     frame |-> [built |-> gametime', ucmdExecuted |-> UcmdReceived]]
<1>1. /\ gametime < MaxTime /\ gametime' = gametime + 1
      /\ executed' = executed \o s /\ UcmdTime' = TimeAfter(from, s)
      /\ UcmdExecuted' = UcmdReceived
      /\ toClient' = (IF ~arrives THEN toClient ELSE Append(toClient, f))
      /\ lost' = (IF arrives THEN lost ELSE lost + 1) /\ lost' <= MaxLost
  BY DEF SV_RunGameFrame, Transmit
<1>2. UNCHANGED <<cmds, cmdNum, ucmdHead, ucmdAcknowledged, received, frozen, frame, predictFrom, saved,
                  made, ucmds, UcmdReceived, toServer>>
  BY DEF SV_RunGameFrame, clientVars, cgameVars
<1>3. /\ cmdNum \in Nat /\ UcmdReceived \in 0 .. cmdNum /\ UcmdExecuted \in 0 .. UcmdReceived
      /\ gametime \in 1 .. MaxTime /\ lost \in 0 .. MaxLost /\ UcmdTime \in Time /\ cmdNum <= MaxMove
      /\ \A n \in 1 .. cmdNum : made[n] \in Time \ {0} /\ made[n] \in Nat
  <2>1. \A n \in 1 .. cmdNum : made[n] \in Time \ {0}
    BY <1>0, ElementOfSeq DEF MadeInv
  <2>. QED BY <1>0, <2>1, BoundsTypes DEF Numbers, FramesInv, Made, AcksInv, Types, ExecutedInv
<1>4. /\ MinUcmdTime(gametime + 1) \in Time /\ MinUcmdTime(gametime + 1) \in Nat /\ UcmdTime \in Nat
      /\ MinUcmdTime(gametime) \in Nat /\ MinUcmdTime(gametime) <= MinUcmdTime(gametime + 1)
  BY <1>1, <1>3, BoundsTypes DEF MinUcmdTime, Time
<1>5. from = IF UcmdTime <= MinUcmdTime(gametime + 1) THEN MinUcmdTime(gametime + 1) ELSE UcmdTime
  BY <1>4, MinMax
<1>. HIDE DEF from
<1>6. from \in Time /\ from \in Nat /\ UcmdTime <= from /\ MinUcmdTime(gametime + 1) <= from
  BY <1>3, <1>4, <1>5
<1>7. ServerTypes
  BY <1>0, <1>3 DEF ServerTypes, ServerInv
<1>8. /\ s \in Seq(Move)
      /\ \A i \in 1 .. Len(s) :
           /\ s[i].time \in Nat /\ from < s[i].time
           /\ \E n \in 1 .. UcmdReceived : s[i] = AsMade(n)
           /\ \A j \in 1 .. i - 1 : s[j].time < s[i].time
  BY <1>0, <1>6, <1>7, ThinksGenuine
<1>9. ASSUME UcmdReceived >= frozen, NEW n \in UcmdExecuted + 1 .. UcmdReceived, from < made[n],
             \A m \in 1 .. n - 1 : made[m] < made[n]
      PROVE  \E i \in 1 .. Len(s) : s[i] = AsMade(n)
  <2>1. \A i \in UcmdExecuted + 1 .. UcmdReceived : ucmds[Slot(i)] = AsMade(i)
    BY <1>0, <1>3, <1>9 DEF ServerInv, MessagesInv
  <2>. QED BY <1>0, <1>3, <1>6, <1>7, <1>9, <2>1, ThinksAll
<1>. HIDE DEF s
<1>10. /\ Len(s) \in Nat /\ Len(executed) \in Nat /\ executed \in Seq(Move)
       /\ executed' \in Seq(Move) /\ Len(executed') = Len(executed) + Len(s)
       /\ \A i \in 1 .. Len(executed) : executed'[i] = executed[i]
       /\ \A i \in 1 .. Len(s) : executed'[Len(executed) + i] = s[i]
  <2>1. executed \in Seq(Move)
    BY <1>0 DEF ExecutedInv
  <2>2. /\ executed \o s \in Seq(Move) /\ Len(executed \o s) = Len(executed) + Len(s)
        /\ \A i \in 1 .. Len(executed) + Len(s) :
             (executed \o s)[i] = IF i <= Len(executed) THEN executed[i] ELSE s[i - Len(executed)]
    BY <1>8, <2>1, ConcatProperties
  <2>3. Len(s) \in Nat /\ Len(executed) \in Nat
    BY <1>8, <2>1
  <2>4. \A i \in 1 .. Len(executed) : executed'[i] = executed[i]
    BY <1>1, <2>2, <2>3
  <2>5. ASSUME NEW i \in 1 .. Len(s) PROVE executed'[Len(executed) + i] = s[i]
    <3>1. /\ Len(executed) + i \in 1 .. Len(executed) + Len(s) /\ ~(Len(executed) + i <= Len(executed))
          /\ Len(executed) + i - Len(executed) = i
      BY <2>3
    <3>. QED BY <1>1, <2>2, <3>1
  <2>. QED BY <1>1, <2>1, <2>2, <2>3, <2>4, <2>5
<1>11. /\ UcmdTime' \in Time /\ from <= UcmdTime'
       /\ \A i \in 1 .. Len(s) : s[i].time <= UcmdTime'
       /\ s = <<>> => UcmdTime' = from
       /\ s # <<>> => \E n \in 1 .. UcmdReceived : UcmdTime' = made[n]
  <2>1. CASE s = <<>>
    <3>1. Len(s) = 0
      BY <2>1
    <3>. QED BY <1>1, <1>6, <2>1, <3>1 DEF TimeAfter
  <2>2. CASE s # <<>>
    <3>1. Len(s) \in 1 .. Len(s) /\ UcmdTime' = s[Len(s)].time
      BY <1>1, <1>8, <1>10, <2>2 DEF TimeAfter
    <3>2. PICK n \in 1 .. UcmdReceived : s[Len(s)] = AsMade(n)
      BY <1>8, <3>1
    <3>3. UcmdTime' = made[n] /\ n \in 1 .. cmdNum
      BY <1>3, <3>1, <3>2 DEF AsMade
    <3>4. \A i \in 1 .. Len(s) : s[i].time <= s[Len(s)].time
      <4>1. TAKE i \in 1 .. Len(s)
      <4>2. CASE i = Len(s)
        BY <1>8, <3>1, <4>2
      <4>3. CASE i # Len(s)
        <5>1. i \in 1 .. Len(s) - 1
          BY <1>10, <4>3
        <5>. QED BY <1>8, <3>1, <5>1, SMTT(30)
      <4>. QED BY <4>2, <4>3
    <3>5. UcmdTime' \in Time /\ \E k \in 1 .. UcmdReceived : UcmdTime' = made[k]
      BY <1>3, <3>3
    <3>6. from <= UcmdTime'
      BY <1>6, <1>8, <3>1
    <3>. QED BY <2>2, <3>1, <3>4, <3>5, <3>6
  <2>. QED BY <2>1, <2>2
<1>12. ExecutedInv'
  <2>1. ASSUME NEW i \in 1 .. Len(executed')
        PROVE  /\ \E n \in 1 .. UcmdReceived : executed'[i] = AsMade(n)
               /\ executed'[i].time <= UcmdTime'
               /\ \A j \in 1 .. i - 1 : executed'[j].time < executed'[i].time
    <3>0. \A j \in 1 .. Len(executed) : executed[j].time <= UcmdTime /\ executed[j].time \in Nat
      <4>1. \A j \in 1 .. Len(executed) : executed[j] \in Move
        BY <1>10, ElementOfSeq
      <4>. QED BY <1>0, <4>1, BoundsTypes DEF ExecutedInv, Move
    <3>1. CASE i \in 1 .. Len(executed)
      <4>1. /\ \E n \in 1 .. UcmdExecuted : executed[i] = AsMade(n)
            /\ \A j \in 1 .. i - 1 : executed[j].time < executed[i].time
        BY <1>0, <3>1 DEF ExecutedInv
      <4>2. 1 .. UcmdExecuted \subseteq 1 .. UcmdReceived /\ UcmdTime <= UcmdTime'
        BY <1>3, <1>4, <1>6, <1>11, BoundsTypes
      <4>3. \A j \in 1 .. i - 1 : executed'[j] = executed[j]
        BY <1>10, <3>1
      <4>4. executed'[i] = executed[i] /\ executed[i].time <= UcmdTime'
        BY <1>4, <1>10, <1>11, <3>0, <3>1, <4>2, BoundsTypes
      <4>. QED BY <4>1, <4>2, <4>3, <4>4
    <3>2. CASE i \notin 1 .. Len(executed)
      <4>. DEFINE k == i - Len(executed)
      <4>1. k \in 1 .. Len(s) /\ i = Len(executed) + k /\ executed'[i] = s[k]
        <5>1. k \in 1 .. Len(s) /\ i = Len(executed) + k
          BY <1>10, <3>2
        <5>. QED BY <1>10, <5>1
      <4>. HIDE DEF k
      <4>2. \A j \in 1 .. i - 1 : executed'[j].time < executed'[i].time
        <5>1. TAKE j \in 1 .. i - 1
        <5>2. CASE j \in 1 .. Len(executed)
          <6>1. executed'[j] = executed[j] /\ executed[j].time <= UcmdTime /\ executed[j].time \in Nat
            BY <1>10, <3>0, <5>2
          <6>2. from < s[k].time /\ s[k].time \in Nat
            BY <1>8, <4>1
          <6>3. executed[j].time < s[k].time
            BY <1>4, <1>6, <6>1, <6>2
          <6>. QED BY <4>1, <6>1, <6>3
        <5>3. CASE j \notin 1 .. Len(executed)
          <6>1. j - Len(executed) \in 1 .. k - 1 /\ j = Len(executed) + (j - Len(executed))
            BY <1>10, <4>1, <5>3
          <6>2. j - Len(executed) \in 1 .. Len(s)
            BY <1>10, <4>1, <6>1
          <6>3. executed'[j] = s[j - Len(executed)]
            BY <1>10, <6>1, <6>2
          <6>. QED BY <1>8, <4>1, <6>1, <6>3
        <5>. QED BY <5>2, <5>3
      <4>. QED BY <1>8, <1>11, <4>1, <4>2
    <3>. QED BY <3>1, <3>2
  <2>2. \/ UcmdTime' <= MinUcmdTime(gametime')
        \/ \E n \in 1 .. UcmdReceived : UcmdTime' = made[n]
    <3>1. CASE s # <<>>
      BY <1>11, <3>1
    <3>2. CASE s = <<>>
      <4>1. UcmdTime' = from
        BY <1>11, <3>2
      <4>2. CASE UcmdTime <= MinUcmdTime(gametime + 1)
        BY <1>1, <1>4, <1>5, <4>1, <4>2
      <4>3. CASE ~(UcmdTime <= MinUcmdTime(gametime + 1))
        <5>1. UcmdTime' = UcmdTime /\ ~(UcmdTime <= MinUcmdTime(gametime))
          BY <1>4, <1>5, <4>1, <4>3
        <5>2. PICK n \in 1 .. UcmdExecuted : UcmdTime = made[n]
          BY <1>0, <5>1 DEF ExecutedInv
        <5>. QED BY <1>3, <5>1, <5>2
      <4>. QED BY <4>2, <4>3
    <3>. QED BY <3>1, <3>2
  <2>. QED BY <1>1, <1>2, <1>10, <1>11, <2>1, <2>2 DEF ExecutedInv, AsMade, MinUcmdTime
<1>13. NothingSkipped'
  <2>1. ASSUME NEW n \in 1 .. UcmdReceived
        PROVE  \/ \E i \in DOMAIN executed' : executed'[i].num = n
               \/ made[n] <= MinUcmdTime(gametime + 1)
               \/ \E m \in 1 .. n - 1 : made[m] >= made[n]
               \/ n < frozen
    <3>0. DOMAIN executed' = 1 .. Len(executed') /\ DOMAIN executed = 1 .. Len(executed)
          /\ n \in 1 .. cmdNum /\ made[n] \in Nat
      BY <1>3, <1>10
    <3>1. CASE n \in 1 .. UcmdExecuted
      <4>1. CASE \E i \in DOMAIN executed : executed[i].num = n
        <5>1. PICK i \in 1 .. Len(executed) : executed[i].num = n
          BY <3>0, <4>1
        <5>2. i \in DOMAIN executed' /\ executed'[i].num = n
          BY <1>10, <3>0, <5>1
        <5>. QED BY <5>2
      <4>2. CASE made[n] <= MinUcmdTime(gametime)
        BY <1>4, <3>0, <4>2
      <4>. QED BY <1>0, <3>1, <4>1, <4>2 DEF NothingSkipped
    <3>2. CASE n \notin 1 .. UcmdExecuted
      <4>1. n \in UcmdExecuted + 1 .. UcmdReceived
        BY <1>3, <3>2
      <4>2. SUFFICES ASSUME ~(made[n] <= MinUcmdTime(gametime + 1)), ~(n < frozen),
                            ~\E m \in 1 .. n - 1 : made[m] >= made[n]
                     PROVE  \E i \in DOMAIN executed' : executed'[i].num = n
        OBVIOUS
      <4>3. UcmdReceived >= frozen
        <5>1. frozen \in Nat
          BY <1>0, <1>3 DEF MessagesInv
        <5>. QED BY <1>3, <4>2, <5>1
      <4>4. \A m \in 1 .. n - 1 : made[m] < made[n]
        <5>1. \A m \in 1 .. n - 1 : m \in 1 .. cmdNum
          BY <1>3, <3>0
        <5>. QED BY <1>3, <3>0, <4>2, <5>1
      <4>5. from < made[n]
        <5>1. CASE UcmdTime <= MinUcmdTime(gametime + 1)
          BY <1>4, <1>5, <3>0, <4>2, <5>1
        <5>2. CASE ~(UcmdTime <= MinUcmdTime(gametime + 1))
          <6>1. ~(UcmdTime <= MinUcmdTime(gametime))
            BY <1>4, <5>2
          <6>2. PICK m \in 1 .. UcmdExecuted : UcmdTime = made[m]
            BY <1>0, <6>1 DEF ExecutedInv
          <6>3. m \in 1 .. n - 1
            BY <1>3, <4>1
          <6>. QED BY <1>5, <4>4, <5>2, <6>2, <6>3
        <5>. QED BY <5>1, <5>2
      <4>6. PICK i \in 1 .. Len(s) : s[i] = AsMade(n)
        BY <1>9, <4>1, <4>3, <4>4, <4>5
      <4>7. Len(executed) + i \in DOMAIN executed' /\ executed'[Len(executed) + i].num = n
        BY <1>10, <3>0, <4>6 DEF AsMade
      <4>. QED BY <4>7
    <3>. QED BY <3>1, <3>2
  <2>. QED BY <1>1, <1>2, <2>1 DEF NothingSkipped, MinUcmdTime
<1>14. AcksInv'
  <2>. DEFINE Rec(n) == [acknowledged : 0 .. n, frame : Frame]
  <2>1. toClient \in Seq(Rec(UcmdExecuted)) /\ ucmdAcknowledged \in 0 .. UcmdExecuted
    BY <1>0 DEF AcksInv
  <2>2. 0 .. UcmdExecuted \subseteq 0 .. UcmdReceived
    BY <1>3
  <2>3. toClient \in Seq(Rec(UcmdReceived))
    <3>1. Rec(UcmdExecuted) \subseteq Rec(UcmdReceived)
      BY <2>2
    <3>. QED BY <2>1, <3>1, SeqMonotonic
  <2>4. f \in Rec(UcmdReceived)
    BY <1>1, <1>3, BoundsTypes DEF Frame
  <2>. HIDE DEF Rec, f
  <2>5. toClient' \in Seq(Rec(UcmdReceived))
    BY <1>1, <2>3, <2>4
  <2>. QED BY <1>1, <1>2, <1>3, <2>1, <2>2, <2>5 DEF AcksInv, Rec
<1>15. ServerInv'
  <2>1. UcmdReceived < frozen \/ UcmdReceived - UcmdReceived <= CMD_MASK
    BY <1>3, SlotFacts DEF CMD_MASK
  <2>2. UcmdReceived + 1 .. UcmdReceived = {}
    BY <1>3
  <2>. QED BY <1>0, <1>1, <1>2, <2>1, <2>2 DEF ServerInv, AsMade
<1>16. MessagesInv'
  <2>1. \A i \in 1 .. Len(toServer) :
          First(toServer[i]) <= UcmdExecuted + 1 => First(toServer[i]) <= UcmdReceived + 1
    <3>1. TAKE i \in 1 .. Len(toServer)
    <3>2. toServer[i] \in [head : 1 .. cmdNum + 1, moves : Seq(Move)]
      BY <1>0, ElementOfSeq DEF MessagesInv
    <3>3. First(toServer[i]) \in Int
      BY <1>3, <3>2 DEF First
    <3>. QED BY <1>3, <3>3
  <2>. QED BY <1>0, <1>1, <1>2, <2>1 DEF MessagesInv, AsMade, First
<1>17. Types' /\ MadeInv'
  BY <1>0, <1>1, <1>2, <1>3, BoundsTypes DEF Types, MadeInv, AsMade
<1>. QED BY <1>12, <1>13, <1>14, <1>15, <1>16, <1>17 DEF Delivery

-----------------------------------------------------------------------------
\* Moves reach the server as they were made, and what was not executed was given up or is
\* on its way, again and again.
THEOREM DeliveryInvariance == Spec => []Delivery
<1>1. Init => Delivery
  <2>1. SUFFICES ASSUME Init PROVE Delivery
    OBVIOUS
  <2>2. /\ cmds = [s \in Slots |-> NoMove] /\ ucmds = [s \in Slots |-> NoMove]
        /\ cmdNum = 0 /\ ucmdHead = 0 /\ ucmdAcknowledged = 0 /\ received = FirstFrame
        /\ frame = FirstFrame /\ saved = [base |-> 1, moves |-> <<>>] /\ gametime = 1
        /\ UcmdReceived = 0 /\ UcmdExecuted = 0 /\ UcmdTime = 0 /\ executed = <<>>
        /\ toServer = <<>> /\ toClient = <<>> /\ lost = 0 /\ made = <<>> /\ frozen = 0
    BY <2>1 DEF Init
  <2>3. NoMove \in Move /\ FirstFrame \in Frame /\ saved \in Playerstate
    BY <2>2, BoundsTypes DEF NoMove, Move, FirstFrame, Frame, Playerstate
  <2>4. Types
    BY <2>2, <2>3, BoundsTypes DEF Types
  <2>5. MadeInv /\ AcksInv
    BY <2>2 DEF MadeInv, AcksInv
  <2>6. MessagesInv
    BY <2>2 DEF MessagesInv
  <2>7. ServerInv
    <3>1. CMD_MASK >= 0 /\ UcmdExecuted + 1 .. UcmdReceived = {} /\ UcmdReceived - UcmdExecuted = 0
      BY <2>2, SlotFacts DEF CMD_MASK
    <3>. QED BY <2>2, <2>3, <3>1 DEF ServerInv
  <2>8. ExecutedInv
    <3>1. UcmdTime <= MinUcmdTime(gametime)
      BY <2>2, BoundsTypes DEF MinUcmdTime
    <3>. QED BY <2>2, <3>1, BoundsTypes DEF ExecutedInv
  <2>9. NothingSkipped
    BY <2>2 DEF NothingSkipped
  <2>. QED BY <2>4, <2>5, <2>6, <2>7, <2>8, <2>9 DEF Delivery
<1>2. Inv /\ Delivery /\ [Next]_vars => Delivery'
  <2>1. SUFFICES ASSUME Inv, Delivery, [Next]_vars PROVE Delivery'
    OBVIOUS
  <2>2. CASE \E t \in 1 .. gametime + Ahead : CL_CreateNewUserCommand(t)
    BY <2>1, <2>2, CreateDelivers
  <2>3. CASE \E arrives \in BOOLEAN : CL_WriteUcmdsToMessage(arrives)
    BY <2>1, <2>3, WriteDelivers
  <2>4. CASE \E arrives \in BOOLEAN : SV_RunGameFrame(arrives)
    BY <2>1, <2>4, RunDelivers
  <2>5. CASE CL_ParseServerMessage
    BY <2>1, <2>5, ParseFrameDelivers
  <2>6. CASE SV_ParseMoveCommand
    BY <2>1, <2>6, ParseMovesDelivers
  <2>7. CASE CGame
    BY <2>1, <2>7, CGameDelivers
  <2>8. CASE UNCHANGED vars
    <3>1. UNCHANGED <<cmds, cmdNum, ucmdHead, ucmdAcknowledged, received, frozen, frame, saved, made,
                      lost, gametime, ucmds, UcmdReceived, UcmdExecuted, UcmdTime, executed, toServer,
                      toClient>>
      BY <2>8 DEF vars, clientVars, cgameVars, serverVars
    <3>2. Types' /\ MadeInv' /\ AcksInv'
      BY <2>1, <3>1 DEF Delivery, Types, MadeInv, AcksInv, AsMade
    <3>3. MessagesInv' /\ ServerInv'
      BY <2>1, <3>1 DEF Delivery, MessagesInv, ServerInv, AsMade, First
    <3>4. ExecutedInv' /\ NothingSkipped'
      BY <2>1, <3>1 DEF Delivery, ExecutedInv, NothingSkipped, AsMade, MinUcmdTime
    <3>. QED BY <3>2, <3>3, <3>4 DEF Delivery
  <2>. QED BY <2>1, <2>2, <2>3, <2>4, <2>5, <2>6, <2>7, <2>8 DEF Next
<1>. QED BY <1>1, <1>2, Invariance, PTL DEF Spec

\* Every move that is executed is one the player made, with the time the player made it,
\* and none is executed twice, although each is sent until it is acknowledged.
THEOREM ExecutedOnceAsMade == Spec => []OnceAsMade
<1>1. Inv /\ Delivery => OnceAsMade
  <2>1. SUFFICES ASSUME Inv, Delivery, NEW i \in DOMAIN executed
                 PROVE  /\ executed[i].num \in DOMAIN made /\ executed[i].time = made[executed[i].num]
                        /\ \A j \in 1 .. i - 1 : /\ executed[j].time < executed[i].time
                                                /\ executed[j].num # executed[i].num
    BY DEF OnceAsMade
  <2>2. /\ executed \in Seq(Move) /\ i \in 1 .. Len(executed) /\ Len(executed) \in Nat
        /\ DOMAIN made = 1 .. cmdNum
        /\ 1 .. UcmdExecuted \subseteq 1 .. cmdNum
    BY <2>1 DEF Inv, Numbers, FramesInv, Made, Delivery, ExecutedInv, MadeInv, AcksInv
  <2>3. ASSUME NEW k \in 1 .. Len(executed)
        PROVE  executed[k].num \in DOMAIN made /\ executed[k].time = made[executed[k].num]
    <3>1. PICK n \in 1 .. UcmdExecuted : executed[k] = AsMade(n)
      BY <2>1 DEF Delivery, ExecutedInv
    <3>. QED BY <2>2, <3>1 DEF AsMade
  <2>4. \A j \in 1 .. i - 1 : j \in 1 .. Len(executed) /\ executed[j].time < executed[i].time
    BY <2>1, <2>2 DEF Delivery, ExecutedInv
  <2>5. \A k \in 1 .. Len(executed) : executed[k].time \in Nat
    <3>1. \A k \in 1 .. Len(executed) : executed[k] \in Move
      BY <2>2, ElementOfSeq
    <3>. QED BY <3>1, BoundsTypes DEF Move
  <2>6. \A j \in 1 .. i - 1 : executed[j].num # executed[i].num
    BY <2>2, <2>3, <2>4, <2>5
  <2>. QED BY <2>2, <2>3, <2>4, <2>6
<1>. QED BY <1>1, Invariance, DeliveryInvariance, PTL

\* Every move that counts as executed was executed, however many messages were lost, unless
\* it came too late, it was not later than a move before it, or the client gave up moves.
THEOREM SkipsNothing == Spec => []NothingSkipped
<1>1. Delivery => NothingSkipped
  BY DEF Delivery
<1>. QED BY <1>1, DeliveryInvariance, PTL

\* The state is well formed: above all, a message never has more moves than the server
\* accepts, nor one that is not made yet.
THEOREM TypeCorrect == Spec => []TypeOK
<1>1. Inv /\ Delivery => TypeOK
  <2>1. SUFFICES ASSUME Inv, Delivery PROVE TypeOK
    OBVIOUS
  <2>0. Numbers /\ FramesInv /\ SavedInv /\ Types /\ MadeInv /\ MessagesInv /\ AcksInv /\ ServerInv
        /\ ExecutedInv
    BY <2>1 DEF Inv, Delivery
  <2>2. /\ cmdNum \in 0 .. MaxMove /\ ucmdHead \in {cmdNum, cmdNum + 1}
        /\ UcmdReceived \in 0 .. cmdNum /\ UcmdExecuted \in 0 .. UcmdReceived
        /\ ucmdAcknowledged \in 0 .. MaxMove /\ predictFrom \in 0 .. MaxMove
    BY <2>0, BoundsTypes DEF Numbers, FramesInv, Made, SavedInv, Types, AcksInv
  <2>3. \A i \in DOMAIN executed : executed[i] \in Move
    BY <2>0 DEF ExecutedInv
  <2>4. ASSUME NEW i \in DOMAIN toServer
        PROVE  toServer[i].moves \in Moves
    <3>. DEFINE m == toServer[i]
                k == Len(m.moves)
                S == [num : 1 .. MaxMove, time : Time \ {0}]
    <3>1. toServer \in Seq([head : 1 .. cmdNum + 1, moves : Seq(Move)])
      BY <2>0 DEF MessagesInv
    <3>2. /\ i \in 1 .. Len(toServer) /\ m.moves \in Seq(Move) /\ k \in Nat /\ m.head \in 1 .. cmdNum + 1
      <4>1. i \in 1 .. Len(toServer)
        BY <3>1
      <4>2. m \in [head : 1 .. cmdNum + 1, moves : Seq(Move)]
        BY <3>1, <4>1, ElementOfSeq
      <4>. QED BY <4>1, <4>2
    <3>3. First(m) >= 1 /\ k <= CMD_MASK /\ \A j \in 1 .. k : m.moves[j] = AsMade(First(m) + j - 1)
      BY <2>0, <3>2 DEF MessagesInv
    <3>4. \A j \in 1 .. k : First(m) + j - 1 \in 1 .. cmdNum
      <4>1. First(m) = m.head - k
        BY DEF First
      <4>. HIDE DEF m, k
      <4>. QED BY <2>2, <3>2, <3>3, <4>1, SMTT(30)
    <3>5. ASSUME NEW n \in 1 .. cmdNum PROVE AsMade(n) \in S
      <4>1. made[n] \in Time \ {0}
        BY <2>0, ElementOfSeq DEF MadeInv
      <4>2. n \in 1 .. MaxMove
        BY <2>2, BoundsTypes
      <4>. QED BY <4>1, <4>2 DEF AsMade
    <3>6. \A j \in 1 .. k : m.moves[j] \in S
      BY <3>3, <3>4, <3>5
    <3>7. m.moves \in [1 .. k -> S]
      <4>1. DOMAIN m.moves = 1 .. k /\ m.moves = [j \in 1 .. k |-> m.moves[j]]
        BY <3>2
      <4>. QED BY <3>6, <4>1
    <3>8. k \in 0 .. CMD_MASK
      BY <3>2, <3>3, SlotFacts DEF CMD_MASK
    <3>. HIDE DEF k, m, S
    <3>9. m.moves \in UNION {[1 .. j -> S] : j \in 0 .. CMD_MASK}
      BY <3>7, <3>8
    <3>. QED BY <3>9 DEF Moves, m, S
  <2>. QED BY <2>0, <2>2, <2>3, <2>4 DEF TypeOK, Types, MadeInv, ServerInv, ExecutedInv
<1>. QED BY <1>1, Invariance, DeliveryInvariance, PTL
=============================================================================
