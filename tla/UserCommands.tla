---------------------------- MODULE UserCommands ----------------------------
(***************************************************************************)
(* The moves of one player: a ring of them at the client, sent again until *)
(* acknowledged, a ring at the server that is executed once per frame of   *)
(* the game, and the client's prediction, which replays over a frame the   *)
(* moves that are not in it yet. Messages may be lost but keep their order *)
(* (NetChan).                                                              *)
(*                                                                         *)
(* A move is its number and the server's time as the client had it then.   *)
(* In a message a move is a delta of the one before it, which the reader   *)
(* has just stored in the place that it reads the delta against, so it     *)
(* comes out as it was. Times are counted in frames of the game.           *)
(***************************************************************************)
EXTENDS Integers, Sequences, FiniteSetsExt

CONSTANTS
  CMD_BACKUP,            \* moves kept at either end
  Lag,                   \* age beyond which a move is not executed (999 ms)
  Ahead,                 \* how far the client's clock may be ahead
  ClockJumps,            \* may the client's clock be set back?
  cg_predict_optimize,
  MaxMove, MaxTime, MaxLost, MaxFlight    \* bounds

ASSUME SizesAssumption ==
  /\ CMD_BACKUP \in {4, 8, 16, 32, 64} /\ Lag \in Nat /\ Ahead \in Nat
  /\ {ClockJumps, cg_predict_optimize} \subseteq BOOLEAN
  /\ {MaxMove, MaxLost, MaxFlight} \subseteq Nat /\ MaxTime \in Nat \ {0}

CMD_MASK == CMD_BACKUP - 1
Slot(n) == n % CMD_BACKUP
Slots == 0 .. CMD_MASK

VARIABLES
  cmds,                  \* the client's ring of [num, time]
  cmdNum, ucmdHead,      \* newest move, and the one being made
  ucmdAcknowledged,
  received,              \* newest frame that came in
  frame, predictFrom,    \* frame shown, last move in the saved prediction
  saved,                 \* the saved prediction: [base, moves]
  gametime,
  ucmds,                 \* the server's ring
  UcmdReceived, UcmdExecuted, UcmdTime,
  executed,              \* moves executed, in order
  toServer, toClient, lost,
  made,                  \* made[n]: time of move n
  frozen                 \* moves before it may have been given up

clientVars == <<cmds, cmdNum, ucmdHead, ucmdAcknowledged, received, made, frozen>>
cgameVars == <<frame, predictFrom, saved>>
serverVars == <<gametime, ucmds, UcmdReceived, UcmdExecuted, UcmdTime, executed>>
vars == <<clientVars, cgameVars, serverVars, toServer, toClient, lost>>

-----------------------------------------------------------------------------
\* Time 0 is that of a move not made yet.
NoMove == [num |-> 0, time |-> 0]

\* A frame of the game: when it was built and the last move that is in it. A
\* client makes moves from the first one on that it is shown.
FirstFrame == [built |-> 1, ucmdExecuted |-> 0]

Init ==
  /\ cmds = [s \in Slots |-> NoMove]
  /\ cmdNum = 0 /\ ucmdHead = 0 /\ ucmdAcknowledged = 0
  /\ received = FirstFrame /\ frame = FirstFrame /\ predictFrom = 0
  /\ saved = [base |-> 1, moves |-> <<>>]
  /\ gametime = 1
  /\ ucmds = [s \in Slots |-> NoMove]
  /\ UcmdReceived = 0 /\ UcmdExecuted = 0 /\ UcmdTime = 0
  /\ executed = <<>>
  /\ toServer = <<>> /\ toClient = <<>> /\ lost = 0
  /\ made = <<>> /\ frozen = 0

\* Sends m, or loses it.
Transmit(channel, m, arrives) ==
  /\ Len(channel) < MaxFlight
  /\ lost' = IF arrives THEN lost ELSE lost + 1
  /\ lost' <= MaxLost

\* CL_CreateNewUserCommand when its time is reached: the move in the making is
\* closed and the next is begun in its place of the ring.
CL_CreateNewUserCommand(t) ==
  /\ ucmdHead <= MaxMove
  /\ ClockJumps \/ ucmdHead = 0 \/ t >= cmds[Slot(cmdNum)].time
  /\ cmdNum' = ucmdHead /\ ucmdHead' = ucmdHead + 1
  /\ cmds' = [cmds EXCEPT ![Slot(ucmdHead)] = [num |-> ucmdHead, time |-> t],
                          ![Slot(ucmdHead + 1)] = [num |-> ucmdHead + 1, time |-> 0]]
  /\ made' = IF ucmdHead = 0 THEN made ELSE Append(made, t)
  /\ UNCHANGED <<ucmdAcknowledged, received, frozen, cgameVars, serverVars,
                 toServer, toClient, lost>>

\* Wrong on purpose: one move too many is sent, from the place of the next.
FirstMove_Full(first, head) == IF head - first > CMD_MASK + 1 THEN head - 3 ELSE first

\* Wrong on purpose: begins behind the first move that is not acknowledged.
FirstMove_Second(first, head) ==
  IF head - first > CMD_MASK THEN head - 3 ELSE IF first < head THEN first + 1 ELSE first

\* The first move of a message that ends before head: the first that is not
\* acknowledged, unless the ring does not hold it anymore. (The count of moves to
\* send once more, taken from cl_ucmdMaxResend, is 0 unless the server acknowledged
\* what was never sent; so ucmdSent is left out.)
FirstMove(first, head) == IF head - first > CMD_MASK THEN head - 3 ELSE first

CL_WriteUcmdsToMessage(arrives) ==
  LET head  == cmdNum + 1
      unack == Min({ucmdAcknowledged + 1, head})
      first == FirstMove(unack, head)
  IN  /\ Transmit(toServer, "move", arrives)
      /\ frozen' = IF head - unack > CMD_MASK THEN head ELSE frozen
      /\ toServer' = IF ~arrives THEN toServer
                     ELSE Append(toServer, [head |-> head,
                            moves |-> [k \in 1 .. head - first |-> cmds[Slot(first + k - 1)]]])
      /\ UNCHANGED <<cmds, cmdNum, ucmdHead, ucmdAcknowledged, received, made, cgameVars,
                     serverVars, toClient>>

\* CL_ParseServerMessage: the acknowledgement and the frame behind it.
CL_ParseServerMessage ==
  /\ toClient # <<>>
  /\ ucmdAcknowledged' = Head(toClient).acknowledged
  /\ received' = Head(toClient).frame
  /\ toClient' = Tail(toClient)
  /\ UNCHANGED <<cmds, cmdNum, ucmdHead, made, frozen, cgameVars, serverVars,
                 toServer, lost>>

-----------------------------------------------------------------------------
(* The client's game module *)

\* Wrong on purpose: prediction goes on from what was saved over an older frame.
CG_NewFrameSnap_KeepSaved ==
  /\ frame' = received
  /\ UNCHANGED <<predictFrom, saved>>

\* The newest frame is shown from now on.
CG_NewFrameSnap ==
  /\ frame' = received /\ predictFrom' = 0
  /\ UNCHANGED saved

\* The moves from ... to, each as the ring has it.
Replay(from, to) == [k \in 1 .. to - from |-> cmds[Slot(from + k)].num]

\* Prediction goes on from what was saved, or starts from the frame.
Usable == cg_predict_optimize /\ predictFrom > 0 /\ ucmdHead - predictFrom < CMD_BACKUP
From   == IF Usable THEN predictFrom ELSE frame.ucmdExecuted
Near   == ucmdHead - From < CMD_BACKUP

\* The state of the player once moves are replayed up to n.
PredictedUpTo(n) ==
  IF Usable THEN [saved EXCEPT !.moves = @ \o Replay(From, n)]
  ELSE [base |-> frame.built, moves |-> Replay(From, n)]

\* What the player is shown: too far from the frame, nothing is replayed.
predictedPlayerState == PredictedUpTo(IF Near THEN ucmdHead ELSE From)

\* Saves the prediction before the move in the making.
CG_PredictMovement ==
  LET save == cg_predict_optimize /\ Near /\ ucmdHead - 1 > From
  IN  /\ saved' = IF save THEN PredictedUpTo(ucmdHead - 1) ELSE saved
      /\ predictFrom' = IF save THEN ucmdHead - 1 ELSE IF Usable THEN predictFrom ELSE 0
      /\ UNCHANGED frame

CGame ==
  /\ \/ frame # received /\ CG_NewFrameSnap
     \/ CG_PredictMovement
  /\ UNCHANGED <<clientVars, serverVars, toServer, toClient, lost>>

-----------------------------------------------------------------------------
(* The server *)

SV_ParseMoveCommand ==
  /\ toServer # <<>>
  /\ LET m     == Head(toServer)
         first == m.head - Len(m.moves)
     IN  /\ UcmdReceived' = m.head - 1
         /\ ucmds' = [s \in Slots |->
              LET there == {k \in 1 .. Len(m.moves) : Slot(first + k - 1) = s}
              IN  IF there = {} THEN ucmds[s] ELSE m.moves[Max(there)]]
  /\ toServer' = Tail(toServer)
  /\ UNCHANGED <<clientVars, cgameVars, gametime, UcmdExecuted, UcmdTime, executed,
                 toClient, lost>>

\* Wrong on purpose: moves of the time reached are executed again.
Due_Again(time) ==
  {i \in UcmdExecuted + 1 .. UcmdReceived : ucmds[Slot(i)].time >= time}

\* The moves to execute from that time on, in the order of their times.
Due(time) == {i \in UcmdExecuted + 1 .. UcmdReceived : ucmds[Slot(i)].time > time}

\* SV_FindNextUserCommand: the first of the oldest.
FindNextUserCommand(due) ==
  CHOOSE i \in due : \A j \in due :
    \/ ucmds[Slot(i)].time < ucmds[Slot(j)].time
    \/ ucmds[Slot(i)].time = ucmds[Slot(j)].time /\ i <= j

\* UcmdTime once the moves s are executed from that time on.
TimeAfter(time, s) == IF s = <<>> THEN time ELSE s[Len(s)].time

\* Adds the move to execute after the moves s, if there is one.
Think(time, s) ==
  LET due == Due(TimeAfter(time, s))
  IN  IF due = {} THEN s ELSE Append(s, ucmds[Slot(FindNextUserCommand(due))])

\* What SV_ExecuteClientThinks executes from that time on. Each move is later than
\* the one before, so its loop executes no place of the ring twice.
Thinks(time) ==
  LET think[k \in 0 .. CMD_BACKUP] == IF k = 0 THEN <<>> ELSE Think(time, think[k - 1])
  IN  think[CMD_BACKUP]

\* The time before which no move is executed anymore.
MinUcmdTime(now) == IF now > Lag THEN now - Lag ELSE 0

\* A frame of the game: the clock advances, pending moves are executed, and a
\* frame goes out with what was received and executed.
SV_RunGameFrame(arrives) ==
  LET from   == Max({UcmdTime, MinUcmdTime(gametime + 1)})
      thinks == Thinks(from)
  IN  /\ gametime < MaxTime
      /\ gametime' = gametime + 1
      /\ executed' = executed \o thinks
      /\ UcmdTime' = TimeAfter(from, thinks)
      /\ UcmdExecuted' = UcmdReceived
      /\ Transmit(toClient, "frame", arrives)
      /\ toClient' = IF ~arrives THEN toClient
                     ELSE Append(toClient,
                            [acknowledged |-> UcmdReceived,
                             frame |-> [built |-> gametime', ucmdExecuted |-> UcmdReceived]])
      /\ UNCHANGED <<clientVars, cgameVars, ucmds, UcmdReceived, toServer>>

-----------------------------------------------------------------------------
Next ==
  \/ \E t \in 1 .. gametime + Ahead : CL_CreateNewUserCommand(t)
  \/ \E arrives \in BOOLEAN : CL_WriteUcmdsToMessage(arrives) \/ SV_RunGameFrame(arrives)
  \/ CL_ParseServerMessage \/ SV_ParseMoveCommand \/ CGame

Spec == Init /\ [][Next]_vars

-----------------------------------------------------------------------------
(* Properties *)

Time == 0 .. MaxTime + Ahead
Move == [num : 0 .. MaxMove + 1, time : Time]
Frame == [built : 1 .. MaxTime, ucmdExecuted : 0 .. MaxMove]
Playerstate == [base : 1 .. MaxTime, moves : Seq(1 .. MaxMove + 1)]
Moves == UNION {[1 .. k -> [num : 1 .. MaxMove, time : Time \ {0}]] : k \in 0 .. CMD_MASK}

\* The state is well formed; a message has no move but closed ones, and never so
\* many that the server drops the client for it.
TypeOK ==
  /\ cmds \in [Slots -> Move] /\ ucmds \in [Slots -> Move]
  /\ cmdNum \in 0 .. MaxMove /\ ucmdHead \in {cmdNum, cmdNum + 1}
  /\ ucmdAcknowledged \in 0 .. MaxMove
  /\ {received, frame} \subseteq Frame /\ predictFrom \in 0 .. MaxMove
  /\ saved \in Playerstate
  /\ gametime \in 1 .. MaxTime
  /\ UcmdReceived \in 0 .. cmdNum /\ UcmdExecuted \in 0 .. UcmdReceived
  /\ UcmdTime \in Time
  /\ \A i \in DOMAIN executed : executed[i] \in Move
  /\ \A i \in DOMAIN toServer : toServer[i].moves \in Moves
  /\ lost \in 0 .. MaxLost /\ Len(made) = cmdNum

\* What is executed is a move as the player made it, and no move twice, although
\* moves are sent again and again: the times of moves executed only increase.
OnceAsMade ==
  \A i \in DOMAIN executed :
    /\ executed[i].num \in DOMAIN made /\ executed[i].time = made[executed[i].num]
    /\ \A j \in 1 .. i - 1 : /\ executed[j].time < executed[i].time
                            /\ executed[j].num # executed[i].num

\* A move that counts as executed was executed, however many messages were lost,
\* unless it came too late, its time was not later than that of a move before it,
\* or the client gave up moves because none was acknowledged for too long.
NothingSkipped ==
  \A n \in 1 .. UcmdExecuted :
    \/ \E i \in DOMAIN executed : executed[i].num = n
    \/ made[n] <= MinUcmdTime(gametime)
    \/ \E m \in 1 .. n - 1 : made[m] >= made[n]
    \/ n < frozen

\* What the player is shown is the newest frame with every move after those in it,
\* each once and in order, unless there are more of them than the ring holds.
PredictsAll ==
  LET n == ucmdHead - frame.ucmdExecuted
  IN  /\ predictedPlayerState.base = frame.built
      /\ \/ predictedPlayerState.moves = [k \in 1 .. n |-> frame.ucmdExecuted + k]
         \/ n >= CMD_BACKUP /\ predictedPlayerState.moves = <<>>

=============================================================================
