------------------------------ MODULE BufPipe ------------------------------
(***************************************************************************)
(* qbufPipe_t: commands of different sizes in a ring of bytes between one  *)
(* thread that writes and one that reads.  The two share cmdbuf_len, which *)
(* only changes atomically, the bytes, and a condition variable.           *)
(*                                                                         *)
(* A position is counted in ints: every command of every user is a whole   *)
(* number of ints, and so is every buffer.  What is left at the end of the *)
(* buffer is then either none or room for an int.                          *)
(***************************************************************************)
EXTENDS Integers, Sequences

CONSTANTS
  bufSize,
  Sizes,        \* sizes of commands
  MaxCommands,  \* bounds the commands written
  Timed,        \* the reader does not wait for ever
  Spurious      \* a wait may end for no reason

ASSUME SizeAssumption ==
  /\ bufSize \in Nat \ {0} /\ MaxCommands \in Nat
  /\ Sizes \subseteq Nat \ {0} /\ 1 \in Sizes    \* 1: the command to quit
  \* A larger one may fit at no time, when the buffer is empty and its end near.
  /\ \A s \in Sizes : 2 * s <= bufSize
  /\ {Timed, Spurious} \subseteq BOOLEAN

\* Every int of a command tells which it belongs to.
Commands == [id : 1 .. MaxCommands + 1, size : Sizes, quit : BOOLEAN]
NoCommand == [id |-> 0, size |-> 1, quit |-> FALSE]
Reset == [cmd |-> NoCommand, off |-> -1]     \* the int that ends a lap
Junk == [cmd |-> NoCommand, off |-> 0]

VARIABLES
  blockWrite,   \* a writer without room waits for it; otherwise it gives up
  buf, cmdbuf_len, terminated,
  write_pos, wpc, wcmd,     \* the writer: where it is, and the command it writes
  read_pos, rpc, taken,     \* the reader, and what it will take off cmdbuf_len
  timeout,                  \* its last wait has timed out
  accepted, handled         \* history

writer == <<write_pos, wpc, wcmd>>
reader == <<read_pos, rpc, taken, timeout>>
pipe == <<blockWrite, buf, cmdbuf_len, terminated>>
vars == <<pipe, writer, reader, accepted, handled>>

Init ==   \* QBufPipe_Create; what malloc returned is not cleared
  /\ blockWrite \in BOOLEAN
  /\ buf = [p \in 0 .. bufSize - 1 |-> Junk]
  /\ cmdbuf_len = 0 /\ terminated = FALSE
  /\ write_pos = 0 /\ wpc = "idle" /\ wcmd = NoCommand
  /\ read_pos = 0 /\ rpc = "wait" /\ taken = 0 /\ timeout = FALSE
  /\ accepted = <<>> /\ handled = <<>>
-----------------------------------------------------------------------------
(* QBufPipe_WriteCmd *)

\* After Finish the writer may go on, as it may between any two commands.
Free == wpc \in {"idle", "finished"}
Written == wcmd.id

Write(size, quit) ==
  /\ Free /\ ~wcmd.quit
  /\ IF terminated THEN UNCHANGED writer
     ELSE /\ wcmd' = [id |-> Written + 1, size |-> size, quit |-> quit]
          /\ wpc' = "room"
          /\ UNCHANGED write_pos
  /\ UNCHANGED <<pipe, reader, accepted, handled>>

WriteCmd == \E size \in Sizes : Written < MaxCommands /\ Write(size, FALSE)

\* The users that do not block tell the reader to quit when it has finished.
WriteQuit == (blockWrite \/ wpc = "finished") /\ Write(1, TRUE)

WriteRemains == bufSize - write_pos
Wraps == WriteRemains = 0

\* Wrong on purpose: a command that just fits begins a new lap.
Laps_Early == WriteRemains # 0 /\ wcmd.size >= WriteRemains

Laps == WriteRemains # 0 /\ wcmd.size > WriteRemains

\* Wrong on purpose: what is left of the lap is not counted.
Needed_NoRemains == IF Laps THEN 1 + wcmd.size ELSE wcmd.size

\* What cmdbuf_len will grow by.
Needed == IF Laps THEN 1 + wcmd.size + WriteRemains ELSE wcmd.size

Room ==
  /\ wpc = "room"
  /\ IF cmdbuf_len + Needed > bufSize
     THEN wpc' = IF blockWrite THEN "room" ELSE "idle"
     ELSE wpc' = IF Laps THEN "mark" ELSE IF Wraps THEN "lap" ELSE "copy"
  /\ UNCHANGED <<pipe, write_pos, wcmd, reader, accepted, handled>>

Mark ==
  /\ wpc = "mark"
  /\ buf' = [buf EXCEPT ![write_pos] = Reset]
  /\ wpc' = "lap"
  /\ UNCHANGED <<blockWrite, cmdbuf_len, terminated, write_pos, wcmd, reader, accepted, handled>>

\* The int of the mark is counted twice: as a command, and as part of the rest.
Lap ==
  /\ wpc = "lap"
  /\ cmdbuf_len' = cmdbuf_len + (IF Wraps THEN 0 ELSE 1 + WriteRemains)
  /\ write_pos' = 0
  /\ wpc' = "copy"
  /\ UNCHANGED <<blockWrite, buf, terminated, wcmd, reader, accepted, handled>>

Copy ==
  /\ wpc = "copy"
  /\ buf' = [p \in DOMAIN buf |->
               IF p \in write_pos .. write_pos + wcmd.size - 1
               THEN [cmd |-> wcmd, off |-> p - write_pos] ELSE buf[p]]
  /\ write_pos' = write_pos + wcmd.size
  /\ wpc' = "add"
  /\ UNCHANGED <<blockWrite, cmdbuf_len, terminated, wcmd, reader, accepted, handled>>

Add ==
  /\ wpc = "add"
  /\ cmdbuf_len' = cmdbuf_len + wcmd.size
  /\ accepted' = Append(accepted, wcmd)
  /\ wpc' = "wake"
  /\ UNCHANGED <<blockWrite, buf, terminated, write_pos, wcmd, reader, handled>>

\* QBufPipe_Wake, with nonempty_mutex held.  All that is ever done with it held
\* is this, or going to sleep: each is one step.
Wake == rpc' = (IF rpc = "asleep" THEN "woken" ELSE rpc) /\ UNCHANGED <<read_pos, taken, timeout>>

WakeReader ==
  /\ wpc = "wake"
  /\ Wake
  /\ wpc' = IF wcmd.quit THEN "finish" ELSE "idle"
  /\ UNCHANGED <<pipe, write_pos, wcmd, accepted, handled>>

(* QBufPipe_Finish *)

Finish ==
  /\ Free /\ ~wcmd.quit
  /\ wpc' = "finish"
  /\ UNCHANGED <<pipe, write_pos, wcmd, reader, accepted, handled>>

FinishTest ==
  /\ wpc = "finish"
  /\ wpc' = IF cmdbuf_len = 0 \/ terminated THEN "finished" ELSE "finishing"
  /\ UNCHANGED <<pipe, write_pos, wcmd, reader, accepted, handled>>

FinishWake ==
  /\ wpc = "finishing"
  /\ Wake
  /\ wpc' = "finish"
  /\ UNCHANGED <<pipe, write_pos, wcmd, accepted, handled>>

Writer == \/ WriteCmd \/ WriteQuit \/ Room \/ Mark \/ Lap \/ Copy \/ Add \/ WakeReader
          \/ Finish \/ FinishTest \/ FinishWake
-----------------------------------------------------------------------------
(* QBufPipe_Wait *)

WaitTest ==
  /\ rpc = "wait"
  /\ rpc' = IF terminated THEN "done" ELSE IF cmdbuf_len = 0 THEN "sleep" ELSE "woken"
  /\ timeout' = FALSE
  /\ UNCHANGED <<pipe, writer, read_pos, taken, accepted, handled>>

Sleep ==
  /\ rpc = "sleep"
  /\ rpc' = "asleep"
  /\ UNCHANGED <<pipe, writer, read_pos, taken, timeout, accepted, handled>>

TimeOut ==
  /\ rpc = "asleep"
  /\ Timed
  /\ rpc' = "woken" /\ timeout' = TRUE
  /\ UNCHANGED <<pipe, writer, read_pos, taken, accepted, handled>>

SpuriousWake ==
  /\ rpc = "asleep"
  /\ Spurious
  /\ rpc' = "woken"
  /\ UNCHANGED <<pipe, writer, read_pos, taken, timeout, accepted, handled>>

(* QBufPipe_ReadCmds *)

ReadTest ==
  /\ rpc \in {"woken", "read"}
  /\ rpc' = IF cmdbuf_len = 0 THEN "wait" ELSE "fetch"
  /\ UNCHANGED <<pipe, writer, read_pos, taken, timeout, accepted, handled>>

\* Wrong on purpose: the int of the mark is not taken off twice.
RestOfLap_Once == bufSize - read_pos

RestOfLap == 1 + (bufSize - read_pos)

\* At the very end the reader rewinds and takes no more off.
FetchPos == IF read_pos >= bufSize THEN 0 ELSE read_pos

Fetch ==
  /\ rpc = "fetch"
  /\ IF buf[FetchPos] = Reset
     THEN /\ rpc' = "unlap" /\ read_pos' = 0
          /\ taken' = RestOfLap
     ELSE /\ rpc' = "handle" /\ read_pos' = FetchPos
          /\ UNCHANGED taken
  /\ UNCHANGED <<pipe, writer, timeout, accepted, handled>>

Unlap ==
  /\ rpc = "unlap"
  /\ cmdbuf_len' = cmdbuf_len - taken
  /\ rpc' = "read"
  /\ UNCHANGED <<blockWrite, buf, terminated, writer, read_pos, taken, timeout, accepted, handled>>

\* What the handler is given is still there when it returns, or is not.
Whole(cmd) == \A i \in 0 .. cmd.size - 1 :
  read_pos + i < bufSize /\ buf[read_pos + i] = [cmd |-> cmd, off |-> i]

\* A handler that returns 0 ends the reading; one that returns more than was
\* written ends it in error.
Handle ==
  /\ rpc = "handle"
  /\ LET cmd == buf[read_pos].cmd
     IN  /\ handled' = Append(handled, IF Whole(cmd) THEN cmd ELSE NoCommand)
         /\ IF cmd.quit \/ cmd.size > cmdbuf_len
            THEN terminated' = TRUE /\ rpc' = "done" /\ UNCHANGED read_pos
            ELSE rpc' = "consume" /\ read_pos' = read_pos + cmd.size /\ UNCHANGED terminated
         /\ taken' = cmd.size
  /\ UNCHANGED <<blockWrite, buf, cmdbuf_len, writer, timeout, accepted>>

Consume ==
  /\ rpc = "consume"
  /\ cmdbuf_len' = cmdbuf_len - taken
  /\ rpc' = "read"
  /\ UNCHANGED <<blockWrite, buf, terminated, writer, read_pos, taken, timeout, accepted, handled>>

Reader == \/ WaitTest \/ Sleep \/ TimeOut \/ SpuriousWake \/ ReadTest \/ Fetch \/ Unlap \/ Handle \/ Consume
-----------------------------------------------------------------------------
\* The pipe is done with when the reader has been told to quit and has.
Done == wcmd.quit /\ wpc = "finished" /\ rpc = "done" /\ UNCHANGED vars

Next == Writer \/ Reader \/ Done

\* Both threads run.  Whether anything more is written is up to the users, and
\* a wait without a limit only ends when it is woken.
Fairness ==
  /\ WF_vars(Room \/ Mark \/ Lap \/ Copy \/ Add \/ WakeReader \/ FinishTest \/ FinishWake)
  /\ WF_vars(WaitTest \/ Sleep \/ ReadTest \/ Fetch \/ Unlap \/ Handle \/ Consume)
  /\ WF_vars(TimeOut)

Spec == Init /\ [][Next]_vars /\ Fairness
-----------------------------------------------------------------------------
(* Properties *)

Cells == [cmd : Commands, off : 0 .. bufSize - 1] \cup {Reset, Junk}

\* The writer never gets so far ahead that it would step on what is not read.
TypeOK ==
  /\ blockWrite \in BOOLEAN
  /\ buf \in [0 .. bufSize - 1 -> Cells]
  /\ cmdbuf_len \in 0 .. bufSize
  /\ terminated \in BOOLEAN /\ timeout \in BOOLEAN
  /\ write_pos \in 0 .. bufSize /\ read_pos \in 0 .. bufSize
  /\ taken \in 0 .. bufSize + 1
  /\ wcmd \in Commands \cup {NoCommand}
  /\ wpc \in {"idle", "room", "mark", "lap", "copy", "add", "wake", "finish", "finishing", "finished"}
  /\ rpc \in {"wait", "sleep", "asleep", "woken", "read", "fetch", "unlap", "handle", "consume", "done"}
  /\ accepted \in Seq(Commands) /\ handled \in Seq(Commands \cup {NoCommand})

\* The pipe is a queue: commands are handled once each, in order and whole, all
\* of them, and Finish returns, when none is left.
Queue == INSTANCE CommandQueue WITH
  Command <- Commands,
  waiting <- SubSeq(accepted, Len(handled) + 1, Len(accepted)),
  finishing <- wpc \in {"finish", "finishing"}
Implements == Queue!Spec

\* Whoever writes gets to write again: no writer waits for room for ever.
WriteReturns == (wpc = "room") ~> Free
=============================================================================
