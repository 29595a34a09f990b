---------------------------- MODULE BufPipeProofs ----------------------------
(***************************************************************************)
(* Proofs about BufPipe, for buffers and commands of any sizes.            *)
(*                                                                         *)
(* TypeOK says that cmdbuf_len stays within the buffer, and is not         *)
(* inductive: what the reader takes off depends on where it is. The        *)
(* invariant says how the commands that were accepted and not handled lie  *)
(* in the buffer (Layout): from where the reader is, one after the other,  *)
(* with at most one turn to the beginning, up to where the writer is; and  *)
(* that cmdbuf_len is just what lies between the two, plus what the reader *)
(* has read and not taken off yet. A writer that has room then never       *)
(* writes over what is not read.                                           *)
(***************************************************************************)
EXTENDS BufPipe, SequenceTheorems, TLAPS

H == Len(handled)
N == Len(accepted)

\* How far the writer's position counts in cmdbuf_len, and what the reader has read of it.
Counted == IF wpc = "add" THEN write_pos - wcmd.size ELSE write_pos
Pending == IF rpc \in {"unlap", "consume"} THEN taken ELSE 0

Writing == {"room", "mark", "lap", "copy", "add"}

Stored(pos, cmd) == \A k \in 0 .. cmd.size - 1 : buf[pos + k] = [cmd |-> cmd, off |-> k]

\* What is between the reader and the writer; w is the first command of the writer's lap
\* if the reader is not in it yet, and e where the reader's lap ends.
Used(w, e) ==
  IF w <= N + 1 THEN Counted + (bufSize - read_pos) + (IF e < bufSize THEN 1 ELSE 0)
  ELSE Counted - read_pos

\* Where the commands lie that are not handled, and where the next one will: at[N + 1].
Places(at, w) ==
  /\ at[N + 1] = Counted
  /\ at[H + 1] = IF w = H + 1 THEN 0 ELSE read_pos
  /\ \A i \in H + 1 .. N : at[i + 1] = IF w = i + 1 THEN 0 ELSE at[i] + accepted[i].size

Bounds(at, w, e) ==
  /\ \A i \in H + 1 .. N : i < w => read_pos <= at[i] /\ at[i] + accepted[i].size <= e
  /\ \A i \in H + 1 .. N : i >= w => at[i] + accepted[i].size <= Counted
  /\ \A i, j \in H + 1 .. N :
       i < j /\ (j < w \/ i >= w) => at[i] + accepted[i].size <= at[j]

Turn(at, w, e) ==
  IF w <= N + 1
  THEN /\ e = IF w = H + 1 THEN read_pos ELSE at[w - 1] + accepted[w - 1].size
       /\ read_pos <= e /\ (e < bufSize => buf[e] = Reset)
  ELSE e = Counted /\ read_pos <= Counted

Layout(at, w, e) ==
  /\ at \in [1 .. N + 1 -> 0 .. bufSize] /\ w \in H + 1 .. N + 2 /\ e \in 0 .. bufSize
  /\ Places(at, w) /\ Bounds(at, w, e) /\ Turn(at, w, e)
  /\ \A i \in H + 1 .. N : Stored(at[i], accepted[i])
  /\ cmdbuf_len = Used(w, e) + Pending
  /\ rpc = "handle" => H < N /\ w # H + 1

\* The writer's part: it has room for what it is about to write.
WriterInv ==
  /\ wpc = "mark" => Laps
  /\ wpc = "lap" => Wraps \/ (Laps /\ buf[write_pos] = Reset)
  /\ wpc \in {"mark", "lap"} => cmdbuf_len + Needed <= bufSize
  /\ wpc \in {"copy", "add"} => cmdbuf_len + wcmd.size <= bufSize
  /\ wpc = "copy" => write_pos + wcmd.size <= bufSize
  /\ wpc = "add" => write_pos >= wcmd.size /\ Stored(write_pos - wcmd.size, wcmd)
  /\ wpc \in Writing => wcmd \in Commands
  /\ ~wcmd.quit => wcmd.id <= MaxCommands
  /\ \A i \in 1 .. N : accepted[i].quit => i = N /\ wcmd.quit /\ wpc \notin Writing

ReaderInv ==
  /\ H <= N
  /\ rpc = "done" <=> terminated
  /\ terminated => H = N /\ wcmd.quit /\ wpc \notin Writing
  /\ rpc = "fetch" => cmdbuf_len > 0

Inv == TypeOK /\ WriterInv /\ ReaderInv /\ (terminated \/ \E at, w, e : Layout(at, w, e))

-----------------------------------------------------------------------------
LEMMA SizeFacts ==
  /\ bufSize \in Nat \ {0}
  /\ \A c \in Commands : c.size \in Nat \ {0} /\ c.size <= bufSize /\ c.size \in Sizes
  /\ NoCommand.size = 1 /\ ~NoCommand.quit /\ NoCommand.id = 0
  /\ 1 \in Sizes
<1>1. \A c \in Commands : c.size \in Sizes
  BY DEF Commands
<1>2. \A s \in Sizes : s \in Nat \ {0} /\ s <= bufSize
  BY SizeAssumption
<1>. QED BY <1>1, <1>2, SizeAssumption DEF NoCommand

LEMMA TypeFacts ==
  ASSUME TypeOK
  PROVE  /\ H \in Nat /\ N \in Nat /\ \A i \in 1 .. N : accepted[i] \in Commands
         /\ write_pos \in 0 .. bufSize /\ read_pos \in 0 .. bufSize /\ cmdbuf_len \in 0 .. bufSize
         /\ taken \in 0 .. bufSize + 1 /\ Pending \in 0 .. bufSize + 1
         /\ wcmd.size \in Nat \ {0} /\ wcmd.size <= bufSize
<1>1. wcmd \in Commands \cup {NoCommand} /\ bufSize \in Nat \ {0}
  BY SizeFacts DEF TypeOK
<1>2. wcmd.size \in Nat \ {0} /\ wcmd.size <= bufSize
  BY <1>1, SizeFacts
<1>. QED BY <1>1, <1>2 DEF TypeOK, H, N, Pending

LEMMA LayoutFacts ==
  ASSUME TypeOK, NEW at, NEW w, NEW e, Layout(at, w, e)
  PROVE  /\ H \in Nat /\ N \in Nat /\ w \in Nat /\ H + 1 <= w /\ w <= N + 2
         /\ e \in 0 .. bufSize /\ bufSize \in Nat \ {0} /\ Counted \in Int
         /\ \A i \in H + 1 .. N :
              /\ i \in 1 .. N /\ i \in Nat /\ accepted[i] \in Commands
              /\ accepted[i].size \in Nat \ {0} /\ at[i] \in 0 .. bufSize
         /\ \A i \in H + 1 .. N + 1 : at[i] \in 0 .. bufSize
<1>1. H \in Nat /\ N \in Nat /\ bufSize \in Nat \ {0} /\ write_pos \in 0 .. bufSize /\ wcmd.size \in Nat
  BY TypeFacts, SizeFacts
<1>2. w \in H + 1 .. N + 2 /\ e \in 0 .. bufSize /\ at \in [1 .. N + 1 -> 0 .. bufSize]
  BY DEF Layout
<1>3. Counted \in Int
  BY <1>1 DEF Counted
<1>4. \A i \in H + 1 .. N + 1 : i \in 1 .. N + 1 /\ at[i] \in 0 .. bufSize
  BY <1>1, <1>2
<1>5. \A i \in H + 1 .. N : i \in 1 .. N /\ i \in Nat /\ i \in H + 1 .. N + 1
  BY <1>1
<1>6. \A i \in H + 1 .. N : accepted[i] \in Commands /\ accepted[i].size \in Nat \ {0}
  BY <1>5, TypeFacts, SizeFacts
<1>. QED BY <1>1, <1>2, <1>3, <1>4, <1>5, <1>6

\* What keeps the layout: nothing moved, and nothing was written over it.
LEMMA SameLayout ==
  ASSUME NEW at, NEW w, NEW e, Layout(at, w, e),
         UNCHANGED <<accepted, handled, read_pos, cmdbuf_len>>,
         Counted' = Counted, Pending' = Pending,
         rpc' = "handle" => rpc = "handle",
         UNCHANGED buf
  PROVE  Layout(at, w, e)'
<1>1. H' = H /\ N' = N
  BY DEF H, N
<1>2. Used(w, e)' = Used(w, e)
  BY <1>1 DEF Used
<1>. QED BY <1>1, <1>2 DEF Layout, Places, Bounds, Turn, Stored

\* What the writer writes leaves the layout alone where it stays off what is not read.
LEMMA UntouchedLayout ==
  ASSUME NEW at, NEW w, NEW e, Layout(at, w, e),
         UNCHANGED <<accepted, handled, read_pos, cmdbuf_len, rpc, taken>>,
         Counted' = Counted,
         \A i \in H + 1 .. N : Stored(at[i], accepted[i])',
         w <= N + 1 /\ e < bufSize => buf'[e] = Reset
  PROVE  Layout(at, w, e)'
<1>1. H' = H /\ N' = N /\ Pending' = Pending
  BY DEF H, N, Pending
<1>2. Used(w, e)' = Used(w, e)
  BY <1>1 DEF Used
<1>3. \A i \in H' + 1 .. N' : Stored(at[i], accepted[i])'
  BY <1>1
<1>4. Turn(at, w, e)'
  BY <1>1 DEF Layout, Turn
<1>. QED BY <1>1, <1>2, <1>3, <1>4 DEF Layout, Places, Bounds

-----------------------------------------------------------------------------
(* The writer *)

\* A command that is to be written.
LEMMA WriteKeeps ==
  ASSUME Inv, WriteCmd \/ WriteQuit
  PROVE  Inv'
<1>1. PICK size \in Sizes, quit \in BOOLEAN :
        Write(size, quit) /\ (quit \/ wcmd.id < MaxCommands)
  BY SizeFacts DEF WriteCmd, WriteQuit, Written
<1>2. /\ TypeOK /\ WriterInv /\ ReaderInv /\ Free /\ ~wcmd.quit
      /\ UNCHANGED <<blockWrite, buf, cmdbuf_len, terminated, write_pos, read_pos, rpc, taken, timeout,
                     accepted, handled>>
      /\ IF terminated THEN wpc' = wpc /\ wcmd' = wcmd
         ELSE /\ wcmd' = [id |-> wcmd.id + 1, size |-> size, quit |-> quit]
              /\ wpc' = "room"
  BY <1>1 DEF Inv, Write, pipe, reader, writer, Written
<1>3. wcmd.id \in Nat /\ wcmd.id <= MaxCommands /\ MaxCommands \in Nat
  BY <1>2, SizeFacts, SizeAssumption DEF TypeOK, Commands, WriterInv
<1>4. wcmd' \in Commands \cup {NoCommand} /\ (wpc' = "room" => wcmd' \in Commands)
  BY <1>1, <1>2, <1>3 DEF TypeOK, Commands, Free
<1>5. TypeOK'
  BY <1>2, <1>4 DEF TypeOK
<1>6. WriterInv'
  <2>1. ~wcmd'.quit => wcmd'.id <= MaxCommands
    BY <1>1, <1>2, <1>3
  <2>2. wpc' \notin {"mark", "lap", "copy", "add"}
    BY <1>2 DEF Free
  <2>3. \A i \in 1 .. N : ~accepted[i].quit
    BY <1>2 DEF WriterInv
  <2>4. wpc' \in Writing => wcmd' \in Commands
    BY <1>2, <1>4, <2>2 DEF Writing, Free
  <2>. QED BY <1>2, <2>1, <2>2, <2>3, <2>4 DEF WriterInv, N
<1>7. ReaderInv'
  BY <1>2 DEF ReaderInv, H, N, Writing
<1>8. ASSUME NEW at, NEW w, NEW e, Layout(at, w, e)
      PROVE  Layout(at, w, e)'
  <2>1. Counted' = Counted /\ Pending' = Pending
    BY <1>2 DEF Counted, Pending, Free
  <2>. QED BY <1>2, <1>8, <2>1, SameLayout
<1>. QED BY <1>2, <1>5, <1>6, <1>7, <1>8 DEF Inv

\* Tests, and wakes.
LEMMA QuietWriterKeeps ==
  ASSUME Inv, Room \/ WakeReader \/ Finish \/ FinishTest \/ FinishWake
  PROVE  Inv'
<1>1. /\ TypeOK /\ WriterInv /\ ReaderInv
      /\ UNCHANGED <<blockWrite, buf, cmdbuf_len, terminated, write_pos, wcmd, read_pos, taken, timeout,
                     accepted, handled>>
      /\ rpc' = rpc \/ (rpc = "asleep" /\ rpc' = "woken")
  BY DEF Inv, Room, WakeReader, Finish, FinishTest, FinishWake, Wake, pipe, reader
<1>2. \/ /\ wpc = "room" /\ cmdbuf_len + Needed <= bufSize
         /\ wpc' = IF Laps THEN "mark" ELSE IF Wraps THEN "lap" ELSE "copy"
      \/ wpc \notin Writing \ {"room"} /\ wpc' = "room" /\ wpc = "room"
      \/ wpc \notin {"mark", "lap", "copy", "add"} /\ wpc' \in {"idle", "finish", "finishing", "finished"}
  <2>1. CASE Room
    <3>1. cmdbuf_len + Needed \in Int /\ bufSize \in Int
      BY <1>1, TypeFacts, SizeFacts DEF Needed, WriteRemains
    <3>. QED BY <2>1, <3>1 DEF Room, Writing
  <2>2. CASE WakeReader \/ Finish \/ FinishTest \/ FinishWake
    BY <2>2 DEF WakeReader, Finish, FinishTest, FinishWake, Free
  <2>. QED BY <2>1, <2>2
<1>3. TypeOK'
  BY <1>1, <1>2 DEF TypeOK
<1>4. WriterInv'
  <2>1. UNCHANGED <<Laps, Wraps, Needed, N>>
    BY <1>1 DEF Laps, Wraps, Needed, WriteRemains, N
  <2>2. Stored(write_pos, wcmd)' <=> Stored(write_pos, wcmd)
    BY <1>1 DEF Stored
  <2>3. wpc' \in Writing => wpc = "room"
    BY <1>2 DEF Writing
  <2>4. wpc' \in {"mark", "lap", "copy"} => cmdbuf_len + Needed <= bufSize
    BY <1>2
  <2>5. (wpc' = "mark" => Laps) /\ (wpc' = "lap" => Wraps) /\ (wpc' = "copy" => ~Laps /\ ~Wraps)
        /\ wpc' # "add"
    BY <1>2
  <2>6. wpc' = "copy" => write_pos + wcmd.size <= bufSize /\ Needed = wcmd.size
    BY <1>1, <2>5, TypeFacts, SizeFacts DEF Laps, Wraps, WriteRemains, Needed
  <2>7. wpc' \in Writing => wcmd \in Commands
    BY <1>1, <2>3 DEF WriterInv, Writing
  <2>8. \A i \in 1 .. N : accepted[i].quit => i = N /\ wcmd.quit /\ wpc' \notin Writing
    BY <1>1, <2>3 DEF WriterInv, Writing
  <2>. QED BY <1>1, <2>1, <2>4, <2>5, <2>6, <2>7, <2>8 DEF WriterInv
<1>5. ReaderInv'
  BY <1>1, <1>2 DEF ReaderInv, H, N, Writing
<1>6. ASSUME NEW at, NEW w, NEW e, Layout(at, w, e)
      PROVE  Layout(at, w, e)'
  <2>1. Counted' = Counted /\ Pending' = Pending
    BY <1>1, <1>2 DEF Counted, Pending, Writing
  <2>. QED BY <1>1, <1>6, <2>1, SameLayout
<1>. QED BY <1>1, <1>3, <1>4, <1>5, <1>6 DEF Inv

\* What lies before the writer: a writer that has room is in the reader's lap when it turns,
\* and stays behind the reader otherwise.
LEMMA RoomFacts ==
  ASSUME TypeOK, WriterInv, NEW at, NEW w, NEW e, Layout(at, w, e)
  PROVE  /\ wpc \in {"mark", "lap"} => w = N + 2
         /\ w <= N + 1 /\ wpc = "copy" => write_pos + wcmd.size <= read_pos
         /\ w <= N + 1 /\ wpc = "add" => write_pos <= read_pos
<1>1. /\ w \in Int /\ H \in Nat /\ N \in Nat /\ w <= N + 2 /\ e \in 0 .. bufSize /\ bufSize \in Nat
      /\ write_pos \in 0 .. bufSize /\ read_pos \in 0 .. bufSize /\ cmdbuf_len \in 0 .. bufSize
      /\ Pending \in 0 .. bufSize + 1 /\ wcmd.size \in Nat \ {0}
  BY TypeFacts, SizeFacts, SMTT(30) DEF Layout
<1>2. w <= N + 1 => cmdbuf_len >= Counted + (bufSize - read_pos)
  <2>1. cmdbuf_len = Used(w, e) + Pending /\ Counted \in Int
    BY <1>1 DEF Layout, Counted
  <2>2. CASE e < bufSize
    BY <1>1, <2>1, <2>2 DEF Used
  <2>3. CASE ~(e < bufSize)
    BY <1>1, <2>1, <2>3 DEF Used
  <2>. QED BY <2>2, <2>3
<1>3. CASE wpc \in {"mark", "lap"}
  <2>1. cmdbuf_len + Needed <= bufSize /\ (Laps \/ Wraps) /\ Counted = write_pos
    BY <1>3 DEF WriterInv, Counted
  <2>2. Needed >= wcmd.size + WriteRemains /\ WriteRemains = bufSize - write_pos
    BY <1>1, <2>1 DEF Needed, Laps, Wraps, WriteRemains
  <2>3. ~(w <= N + 1)
    BY <1>1, <1>2, <2>1, <2>2 DEF Needed
  <2>. QED BY <1>1, <1>3, <2>3
<1>4. CASE wpc \in {"copy", "add"}
  <2>1. cmdbuf_len + wcmd.size <= bufSize
    BY <1>4 DEF WriterInv
  <2>. QED BY <1>1, <1>2, <1>4, <2>1 DEF Counted
<1>. QED BY <1>3, <1>4

\* The mark is put behind all that is not read.
LEMMA MarkKeeps ==
  ASSUME Inv, Mark
  PROVE  Inv'
<1>1. /\ TypeOK /\ WriterInv /\ ReaderInv /\ wpc = "mark" /\ wpc' = "lap"
      /\ UNCHANGED <<blockWrite, cmdbuf_len, terminated, write_pos, wcmd, read_pos, rpc, taken, timeout,
                     accepted, handled>>
      /\ buf' = [buf EXCEPT ![write_pos] = Reset]
  BY DEF Inv, Mark, reader
<1>2. Laps /\ write_pos \in 0 .. bufSize - 1 /\ buf'[write_pos] = Reset
  <2>1. Laps /\ write_pos \in 0 .. bufSize /\ bufSize \in Nat
    BY <1>1, SizeFacts DEF WriterInv, TypeOK
  <2>2. write_pos \in 0 .. bufSize - 1
    BY <2>1 DEF Laps, WriteRemains
  <2>. QED BY <1>1, <2>1, <2>2 DEF TypeOK
<1>3. TypeOK'
  <2>1. buf' \in [0 .. bufSize - 1 -> Cells]
    BY <1>1, <1>2 DEF TypeOK, Cells
  <2>. QED BY <1>1, <2>1 DEF TypeOK
<1>4. WriterInv'
  <2>1. UNCHANGED <<Laps, Wraps, Needed, N>>
    BY <1>1 DEF Laps, Wraps, Needed, WriteRemains, N
  <2>. QED BY <1>1, <1>2, <2>1 DEF WriterInv, Writing
<1>5. ReaderInv'
  BY <1>1 DEF ReaderInv, H, N, Writing
<1>6. PICK at, w, e : Layout(at, w, e)
  BY <1>1 DEF Inv, ReaderInv, Writing
<1>7. Layout(at, w, e)'
  <2>1. w = N + 2 /\ Counted = write_pos /\ Counted' = Counted
    BY <1>1, <1>6, RoomFacts DEF Counted
  <2>2. ASSUME NEW i \in H + 1 .. N
        PROVE  Stored(at[i], accepted[i])'
    <3>1. /\ i \in 1 .. N /\ N \in Nat /\ i < w /\ accepted[i] \in Commands /\ write_pos \in 0 .. bufSize
          /\ accepted[i].size \in Nat
      BY <1>1, <2>1, TypeFacts, SizeFacts
    <3>2. at[i] \in 0 .. bufSize /\ at[i] + accepted[i].size <= write_pos
      BY <1>6, <2>1, <3>1 DEF Layout, Bounds, Turn
    <3>3. ASSUME NEW k \in 0 .. accepted[i].size - 1
          PROVE  buf'[at[i] + k] = buf[at[i] + k]
      BY <1>1, <1>2, <3>1, <3>2, <3>3, SMTT(30) DEF TypeOK
    <3>. QED BY <1>1, <1>6, <3>3 DEF Layout, Stored
  <2>3. ~(w <= N + 1)
    BY <1>1, <2>1, TypeFacts
  <2>. QED BY <1>1, <1>6, <2>1, <2>2, <2>3, UntouchedLayout
<1>. QED BY <1>3, <1>4, <1>5, <1>7 DEF Inv

\* The command is copied to where nothing lies that is not read.
LEMMA CopyKeeps ==
  ASSUME Inv, Copy
  PROVE  Inv'
<1>1. /\ TypeOK /\ WriterInv /\ ReaderInv /\ wpc = "copy" /\ wpc' = "add"
      /\ UNCHANGED <<blockWrite, cmdbuf_len, terminated, wcmd, read_pos, rpc, taken, timeout,
                     accepted, handled>>
      /\ buf' = [p \in DOMAIN buf |->
                   IF p \in write_pos .. write_pos + wcmd.size - 1
                   THEN [cmd |-> wcmd, off |-> p - write_pos] ELSE buf[p]]
      /\ write_pos' = write_pos + wcmd.size
  BY DEF Inv, Copy, reader
<1>2. /\ wcmd \in Commands /\ wcmd.size \in Nat \ {0} /\ write_pos + wcmd.size <= bufSize
      /\ write_pos \in 0 .. bufSize /\ bufSize \in Nat /\ wcmd.size <= bufSize
      /\ DOMAIN buf = 0 .. bufSize - 1 /\ cmdbuf_len + wcmd.size <= bufSize
  BY <1>1, SizeFacts DEF WriterInv, Writing, TypeOK
<1>3. TypeOK'
  <2>1. ASSUME NEW p \in 0 .. bufSize - 1
        PROVE  buf'[p] \in Cells
    <3>1. CASE p \in write_pos .. write_pos + wcmd.size - 1
      <4>1. p - write_pos \in 0 .. bufSize - 1
        BY <1>2, <2>1, <3>1
      <4>. QED BY <1>1, <1>2, <3>1, <4>1 DEF Cells
    <3>2. CASE p \notin write_pos .. write_pos + wcmd.size - 1
      BY <1>1, <1>2, <3>2 DEF TypeOK
    <3>. QED BY <3>1, <3>2
  <2>2. buf' \in [0 .. bufSize - 1 -> Cells]
    BY <1>1, <1>2, <2>1
  <2>3. write_pos' \in 0 .. bufSize
    BY <1>1, <1>2
  <2>. QED BY <1>1, <2>2, <2>3 DEF TypeOK
<1>4. WriterInv'
  <2>1. write_pos' - wcmd'.size = write_pos /\ write_pos' >= wcmd'.size
    BY <1>1, <1>2
  <2>2. ASSUME NEW k \in 0 .. wcmd.size - 1
        PROVE  buf'[write_pos + k] = [cmd |-> wcmd, off |-> k]
    BY <1>1, <1>2, SMTT(30)
  <2>3. Stored(write_pos - wcmd.size, wcmd)'
    BY <1>1, <2>1, <2>2 DEF Stored
  <2>4. cmdbuf_len' + wcmd'.size <= bufSize
    BY <1>1, <1>2
  <2>. QED BY <1>1, <1>2, <2>1, <2>3, <2>4 DEF WriterInv, Writing, N
<1>5. ReaderInv'
  BY <1>1 DEF ReaderInv, H, N, Writing
<1>6. PICK at, w, e : Layout(at, w, e)
  BY <1>1 DEF Inv, ReaderInv, Writing
<1>7. Layout(at, w, e)'
  <2>1. Counted = write_pos /\ Counted' = Counted
    BY <1>1, <1>2 DEF Counted
  <2>2. ASSUME NEW p \in 0 .. bufSize - 1, p < write_pos \/ p >= write_pos + wcmd.size
        PROVE  buf'[p] = buf[p]
    BY <1>1, <1>2, <2>2
  <2>3. /\ w \in H + 1 .. N + 2 /\ e \in 0 .. bufSize /\ H \in Nat /\ N \in Nat
        /\ w <= N + 1 => write_pos + wcmd.size <= read_pos /\ read_pos <= e
        /\ ~(w <= N + 1) => e = write_pos
        /\ read_pos \in 0 .. bufSize
    BY <1>1, <1>6, <2>1, RoomFacts, TypeFacts DEF Layout, Turn
  <2>4. ASSUME NEW i \in H + 1 .. N
        PROVE  Stored(at[i], accepted[i])'
    <3>1. /\ i \in 1 .. N /\ i \in Nat /\ accepted[i] \in Commands
          /\ accepted[i].size \in Nat /\ at[i] \in 0 .. bufSize
          /\ i < w => read_pos <= at[i] /\ at[i] + accepted[i].size <= e
          /\ i >= w => at[i] + accepted[i].size <= write_pos
          /\ Stored(at[i], accepted[i])
      <4>1. /\ i \in 1 .. N /\ i \in Nat /\ accepted[i] \in Commands
            /\ accepted[i].size \in Nat /\ at[i] \in 0 .. bufSize
        BY <1>1, <1>6, LayoutFacts
      <4>. QED BY <1>6, <2>1, <4>1 DEF Layout, Bounds
    <3>2. at[i] + accepted[i].size <= write_pos
          \/ (write_pos + wcmd.size <= at[i] /\ at[i] + accepted[i].size <= bufSize)
      <4>1. /\ wcmd.size \in Nat /\ write_pos \in Nat /\ read_pos \in Nat /\ e \in Nat /\ e <= bufSize
            /\ bufSize \in Nat /\ accepted[i].size \in Nat /\ at[i] \in Nat
        BY <1>2, <2>3, <3>1
      <4>2. CASE i >= w
        BY <3>1, <4>2
      <4>3. CASE i < w /\ w <= N + 1
        <5>1. write_pos + wcmd.size <= read_pos /\ read_pos <= at[i] /\ at[i] + accepted[i].size <= e
          BY <2>3, <3>1, <4>3
        <5>. QED BY <4>1, <5>1
      <4>4. CASE i < w /\ ~(w <= N + 1)
        BY <2>3, <3>1, <4>4
      <4>5. i >= w \/ i < w
        BY <2>3, <3>1
      <4>. QED BY <4>2, <4>3, <4>4, <4>5
    <3>3. ASSUME NEW k \in 0 .. accepted[i].size - 1
          PROVE  buf'[at[i] + k] = buf[at[i] + k]
      <4>1. at[i] + k \in 0 .. bufSize - 1 /\ (at[i] + k < write_pos \/ at[i] + k >= write_pos + wcmd.size)
        <5>1. at[i] \in Nat /\ accepted[i].size \in Nat /\ k \in Nat /\ k < accepted[i].size
              /\ write_pos \in Nat /\ wcmd.size \in Nat /\ write_pos + wcmd.size <= bufSize /\ bufSize \in Nat
              /\ wcmd.size > 0
          BY <1>2, <3>1, <3>3, SMTT(30)
        <5>2. CASE at[i] + accepted[i].size <= write_pos
          BY <5>1, <5>2
        <5>3. CASE write_pos + wcmd.size <= at[i] /\ at[i] + accepted[i].size <= bufSize
          BY <5>1, <5>3
        <5>. QED BY <3>2, <5>2, <5>3
      <4>. QED BY <2>2, <4>1
    <3>. QED BY <1>1, <3>1, <3>3 DEF Stored
  <2>5. w <= N + 1 /\ e < bufSize => buf'[e] = Reset
    <3>1. w <= N + 1 /\ e < bufSize => buf[e] = Reset
      BY <1>6 DEF Layout, Turn
    <3>2. w <= N + 1 => e >= write_pos + wcmd.size
      BY <1>2, <2>3
    <3>. QED BY <1>2, <2>2, <2>3, <3>1, <3>2
  <2>. QED BY <1>1, <1>6, <2>1, <2>4, <2>5, UntouchedLayout
<1>. QED BY <1>3, <1>4, <1>5, <1>7 DEF Inv

\* The writer turns: the reader's lap ends where the writer was.
LEMMA LapKeeps ==
  ASSUME Inv, Lap
  PROVE  Inv'
<1>1. /\ TypeOK /\ WriterInv /\ ReaderInv /\ wpc = "lap" /\ wpc' = "copy" /\ write_pos' = 0
      /\ UNCHANGED <<blockWrite, buf, terminated, wcmd, read_pos, rpc, taken, timeout, accepted, handled>>
      /\ cmdbuf_len' = cmdbuf_len + (IF Wraps THEN 0 ELSE 1 + WriteRemains)
  BY DEF Inv, Lap, reader
<1>2. /\ wcmd \in Commands /\ wcmd.size \in Nat \ {0} /\ bufSize \in Nat \ {0} /\ wcmd.size <= bufSize
      /\ write_pos \in 0 .. bufSize /\ read_pos \in 0 .. bufSize /\ cmdbuf_len \in 0 .. bufSize
      /\ Pending \in 0 .. bufSize + 1 /\ ~terminated
  BY <1>1, TypeFacts, SizeFacts DEF WriterInv, ReaderInv, Writing
<1>3. \/ write_pos = bufSize /\ cmdbuf_len' = cmdbuf_len /\ cmdbuf_len + wcmd.size <= bufSize
      \/ /\ write_pos < bufSize /\ buf[write_pos] = Reset
         /\ cmdbuf_len' = cmdbuf_len + 1 + bufSize - write_pos
         /\ cmdbuf_len + 1 + wcmd.size + bufSize - write_pos <= bufSize
  <2>1. cmdbuf_len + Needed <= bufSize /\ (Wraps \/ (Laps /\ buf[write_pos] = Reset))
    BY <1>1 DEF WriterInv
  <2>2. CASE Wraps
    BY <1>1, <1>2, <2>1, <2>2 DEF Wraps, Laps, Needed, WriteRemains
  <2>3. CASE ~Wraps
    BY <1>1, <1>2, <2>1, <2>3 DEF Wraps, Laps, Needed, WriteRemains
  <2>. QED BY <2>2, <2>3
<1>4. cmdbuf_len' \in 0 .. bufSize /\ cmdbuf_len' + wcmd.size <= bufSize /\ cmdbuf_len' >= cmdbuf_len
  BY <1>2, <1>3
<1>5. TypeOK'
  BY <1>1, <1>2, <1>4 DEF TypeOK
<1>6. WriterInv'
  BY <1>1, <1>2, <1>4 DEF WriterInv, Writing, N
<1>7. ReaderInv'
  BY <1>1, <1>2, <1>4 DEF ReaderInv, H, N, Writing
<1>8. PICK at, w, e : Layout(at, w, e)
  BY <1>1, <1>2 DEF Inv
<1>9. \E at2, w2 : Layout(at2, w2, e)'
  <2>. PICK w2 : w2 = N + 1
    OBVIOUS
  <2>1. /\ w = N + 2 /\ w2 = N + 1 /\ H \in Nat /\ N \in Nat /\ H <= N /\ at \in [1 .. N + 1 -> 0 .. bufSize]
        /\ \A i \in H + 1 .. N : accepted[i].size \in Nat \ {0} /\ at[i] \in 0 .. bufSize /\ i \in 1 .. N
    <3>1. w = N + 2
      BY <1>1, <1>8, RoomFacts
    <3>2. H <= N /\ at \in [1 .. N + 1 -> 0 .. bufSize]
      BY <1>1, <1>8 DEF ReaderInv, Layout
    <3>3. /\ H \in Nat /\ N \in Nat
          /\ \A i \in H + 1 .. N : accepted[i].size \in Nat \ {0} /\ at[i] \in 0 .. bufSize /\ i \in 1 .. N
      BY <1>1, <1>8, LayoutFacts
    <3>. QED BY <3>1, <3>2, <3>3
  <2>2. H' = H /\ N' = N /\ Pending' = Pending /\ Counted = write_pos /\ Counted' = 0
    BY <1>1 DEF H, N, Pending, Counted
  <2>3. e = write_pos /\ read_pos <= e
    BY <1>8, <2>1, <2>2 DEF Layout, Turn
  <2>4. PICK at2 \in [1 .. N + 1 -> 0 .. bufSize] : at2 = [at EXCEPT ![N + 1] = 0]
    <3>1. [at EXCEPT ![N + 1] = 0] \in [1 .. N + 1 -> 0 .. bufSize]
      BY <1>2, <2>1
    <3>. QED BY <3>1
  <2>5. /\ at2[N + 1] = 0 /\ w2 = N + 1
        /\ \A i \in H + 1 .. N : i \in 1 .. N /\ at2[i] = at[i]
    BY <2>1, <2>4
  <2>6. Places(at2, w2)'
    <3>1. CASE H = N
      BY <1>1, <2>1, <2>2, <2>5, <3>1 DEF Places
    <3>2. CASE H < N
      <4>1. at2[H + 1] = read_pos
        <5>1. at[H + 1] = read_pos
          BY <1>8, <2>1 DEF Layout, Places
        <5>. QED BY <2>1, <2>5, <3>2, <5>1
      <4>2. ASSUME NEW i \in H + 1 .. N
            PROVE  at2[i + 1] = IF w2 = i + 1 THEN 0 ELSE at2[i] + accepted[i].size
        <5>1. CASE i = N
          BY <2>5, <5>1
        <5>2. CASE i # N
          <6>1. i + 1 \in H + 1 .. N /\ w # i + 1
            BY <2>1, <5>2
          <6>2. at[i + 1] = at[i] + accepted[i].size
            BY <1>8, <6>1 DEF Layout, Places
          <6>. QED BY <2>1, <2>5, <5>2, <6>1, <6>2
        <5>. QED BY <5>1, <5>2
      <4>. QED BY <1>1, <2>1, <2>2, <2>5, <3>2, <4>1, <4>2 DEF Places
    <3>. QED BY <2>1, <3>1, <3>2
  <2>7. Bounds(at2, w2, e)'
    <3>1. \A i \in H + 1 .. N : i < w2 => read_pos <= at2[i] /\ at2[i] + accepted[i].size <= e
      BY <1>8, <2>1, <2>5 DEF Layout, Bounds
    <3>2. \A i \in H + 1 .. N : ~(i >= w2)
      BY <2>1
    <3>3. \A i, j \in H + 1 .. N : i < j => at2[i] + accepted[i].size <= at2[j]
      BY <1>8, <2>1, <2>5 DEF Layout, Bounds
    <3>. QED BY <1>1, <2>2, <3>1, <3>2, <3>3 DEF Bounds
  <2>8. Turn(at2, w2, e)'
    <3>1. e = IF w2 = H + 1 THEN read_pos ELSE at2[N] + accepted[N].size
      <4>1. CASE H = N
        BY <1>8, <2>1, <2>2, <2>3, <4>1 DEF Layout, Places
      <4>2. CASE H < N
        <5>1. N \in H + 1 .. N /\ w # N + 1
          BY <2>1, <4>2
        <5>2. at[N + 1] = at[N] + accepted[N].size /\ at[N + 1] = Counted
          BY <1>8, <5>1 DEF Layout, Places
        <5>. QED BY <2>1, <2>2, <2>3, <2>5, <4>2, <5>1, <5>2
      <4>. QED BY <2>1, <4>1, <4>2
    <3>2. e < bufSize => buf[e] = Reset
      BY <1>2, <1>3, <2>3
    <3>3. w2 - 1 = N /\ w2 <= N + 1
      BY <2>1
    <3>. QED BY <1>1, <2>1, <2>2, <2>3, <3>1, <3>2, <3>3 DEF Turn
  <2>9. cmdbuf_len' = Used(w2, e)' + Pending'
    <3>1. cmdbuf_len = write_pos - read_pos + Pending
      BY <1>8, <2>1, <2>2 DEF Layout, Used
    <3>2. Used(w2, e)' = bufSize - read_pos + (IF e < bufSize THEN 1 ELSE 0)
      BY <1>1, <1>2, <2>1, <2>2 DEF Used
    <3>. QED BY <1>2, <1>3, <2>2, <2>3, <3>1, <3>2
  <2>10. \A i \in H + 1 .. N : Stored(at2[i], accepted[i])'
    <3>1. ASSUME NEW i \in H + 1 .. N
          PROVE  Stored(at2[i], accepted[i])'
      <4>1. Stored(at[i], accepted[i]) /\ at2[i] = at[i]
        BY <1>8, <2>5 DEF Layout
      <4>. QED BY <1>1, <4>1 DEF Stored
    <3>. QED BY <3>1
  <2>11. rpc' = "handle" => H < N /\ w2 # H + 1
    BY <1>1, <1>8, <2>1 DEF Layout
  <2>12. w2 \in H' + 1 .. N' + 2 /\ e \in 0 .. bufSize
    BY <1>2, <2>1, <2>2, <2>3
  <2>13. at2 \in [1 .. N' + 1 -> 0 .. bufSize]
    BY <2>2, <2>4
  <2>14. \A i \in H' + 1 .. N' : Stored(at2[i], accepted[i])'
    BY <2>2, <2>10
  <2>. QED BY <1>1, <2>2, <2>6, <2>7, <2>8, <2>9, <2>11, <2>12, <2>13, <2>14 DEF Layout
<1>. QED BY <1>5, <1>6, <1>7, <1>9 DEF Inv

\* The command is there for the reader.
LEMMA AddKeeps ==
  ASSUME Inv, Add
  PROVE  Inv'
<1>1. /\ TypeOK /\ WriterInv /\ ReaderInv /\ wpc = "add" /\ wpc' = "wake"
      /\ UNCHANGED <<blockWrite, buf, terminated, write_pos, wcmd, read_pos, rpc, taken, timeout, handled>>
      /\ cmdbuf_len' = cmdbuf_len + wcmd.size
  BY DEF Inv, Add, reader
<1>2. /\ wcmd \in Commands /\ wcmd.size \in Nat \ {0} /\ bufSize \in Nat \ {0}
      /\ write_pos \in 0 .. bufSize /\ read_pos \in 0 .. bufSize /\ cmdbuf_len \in 0 .. bufSize
      /\ cmdbuf_len + wcmd.size <= bufSize /\ write_pos >= wcmd.size
      /\ ~terminated /\ H <= N /\ H \in Nat /\ N \in Nat
  BY <1>1, TypeFacts, SizeFacts DEF WriterInv, ReaderInv, Writing
<1>3. Stored(write_pos - wcmd.size, wcmd)
  BY <1>1 DEF WriterInv
<1>4. /\ accepted \in Seq(Commands) /\ accepted' \in Seq(Commands) /\ H' = H /\ N' = N + 1
      /\ accepted'[N + 1] = wcmd /\ \A i \in 1 .. N : accepted'[i] = accepted[i]
  <2>1. accepted' = Append(accepted, wcmd)
    BY DEF Add
  <2>. QED BY <1>1, <1>2, <2>1, AppendProperties DEF TypeOK, H, N
<1>5. TypeOK'
  BY <1>1, <1>2, <1>4, SMTT(30) DEF TypeOK
<1>6. WriterInv'
  <2>1. \A i \in 1 .. N : ~accepted[i].quit
    BY <1>1 DEF WriterInv, Writing
  <2>2. ASSUME NEW i \in 1 .. N + 1, accepted'[i].quit
        PROVE  i = N + 1 /\ wcmd.quit
    BY <1>2, <1>4, <2>1, <2>2
  <2>. QED BY <1>1, <1>4, <2>2 DEF WriterInv, Writing
<1>7. ReaderInv'
  BY <1>1, <1>2, <1>4 DEF ReaderInv
<1>8. PICK at, w, e : Layout(at, w, e)
  BY <1>1, <1>2 DEF Inv
<1>9. \E at2, w2, e2 : Layout(at2, w2, e2)'
  <2>1. PICK w2, e2 : /\ w = N + 2 => w2 = N + 3 /\ e2 = write_pos
                      /\ w # N + 2 => w2 = w /\ e2 = e
    <3>. WITNESS IF w = N + 2 THEN N + 3 ELSE w, IF w = N + 2 THEN write_pos ELSE e
    <3>. QED OBVIOUS
  <2>2. /\ w \in Nat /\ H + 1 <= w /\ w <= N + 2 /\ e \in 0 .. bufSize
        /\ Counted = write_pos - wcmd.size /\ Counted' = write_pos /\ Pending' = Pending
        /\ \A i \in H + 1 .. N :
             /\ i \in Nat /\ i \in 1 .. N /\ accepted[i].size \in Nat \ {0} /\ at[i] \in 0 .. bufSize
        /\ w = N + 2 => w2 = N + 3 /\ e2 = write_pos /\ e = Counted
        /\ w # N + 2 => w <= N + 1 /\ w2 = w /\ e2 = e
    <3>1. /\ w \in Nat /\ H + 1 <= w /\ w <= N + 2 /\ e \in 0 .. bufSize
          /\ \A i \in H + 1 .. N :
               /\ i \in Nat /\ i \in 1 .. N /\ accepted[i].size \in Nat \ {0} /\ at[i] \in 0 .. bufSize
      BY <1>1, <1>8, LayoutFacts
    <3>2. Counted = write_pos - wcmd.size /\ Counted' = write_pos /\ Pending' = Pending
      BY <1>1 DEF Counted, Pending
    <3>3. w = N + 2 => e = Counted
      BY <1>2, <1>8 DEF Layout, Turn
    <3>4. w # N + 2 => w <= N + 1
      BY <1>2, <3>1
    <3>. QED BY <2>1, <3>1, <3>2, <3>3, <3>4
  <2>3. PICK n \in Nat : n = wcmd.size /\ n > 0 /\ n <= write_pos
    BY <1>2
  <2>4. /\ N \in Nat /\ H \in Nat /\ H <= N /\ w \in Nat /\ H + 1 <= w /\ w <= N + 2 /\ w2 \in Nat
        /\ w = N + 2 => w2 = N + 3
        /\ w # N + 2 => w <= N + 1 /\ w2 = w
    <3>1. w = N + 2 \/ w # N + 2
      OBVIOUS
    <3>. QED BY <1>2, <2>2, <3>1
  <2>5. /\ w = N + 2 => e2 = write_pos /\ e = write_pos - n
        /\ w # N + 2 => e2 = e
    BY <2>2, <2>3
  <2>6. /\ bufSize \in Nat /\ write_pos \in Nat /\ read_pos \in Nat /\ e \in Nat /\ e2 \in Nat
        /\ e <= e2 /\ e2 <= bufSize
    <3>1. CASE w = N + 2
      BY <1>2, <2>2, <2>3, <2>5, <3>1
    <3>2. CASE w # N + 2
      BY <1>2, <2>2, <2>5, <3>2
    <3>. QED BY <3>1, <3>2
  <2>7. Counted = write_pos - n /\ Counted' = write_pos /\ Pending' = Pending
    BY <2>2, <2>3
  <2>8. PICK at2 \in [1 .. N + 2 -> 0 .. bufSize] :
          at2 = [i \in 1 .. N + 2 |-> IF i = N + 2 THEN write_pos ELSE at[i]]
    <3>1. \A i \in 1 .. N + 2 : i # N + 2 => at[i] \in 0 .. bufSize
      BY <1>2, <1>8 DEF Layout
    <3>2. [i \in 1 .. N + 2 |-> IF i = N + 2 THEN write_pos ELSE at[i]] \in [1 .. N + 2 -> 0 .. bufSize]
      BY <1>2, <3>1
    <3>. QED BY <3>2
  <2>9. /\ at2[N + 2] = write_pos
        /\ \A i \in 1 .. N + 1 : at2[i] = at[i]
        /\ at2[N + 1] = write_pos - n
    <3>1. at[N + 1] = Counted
      BY <1>8 DEF Layout, Places
    <3>2. N + 2 \in 1 .. N + 2 /\ \A i \in 1 .. N + 1 : i \in 1 .. N + 2 /\ i # N + 2
      BY <1>2
    <3>3. at2[N + 2] = write_pos /\ \A i \in 1 .. N + 1 : at2[i] = at[i]
      BY <2>8, <3>2
    <3>4. N + 1 \in 1 .. N + 1
      BY <1>2
    <3>. QED BY <2>7, <3>1, <3>3, <3>4
  <2>10. Places(at2, w2)'
    <3>1. at2[H + 1] = IF w2 = H + 1 THEN 0 ELSE read_pos
      <4>1. at[H + 1] = IF w = H + 1 THEN 0 ELSE read_pos
        BY <1>8 DEF Layout, Places
      <4>. QED BY <2>4, <2>9, <4>1
    <3>2. ASSUME NEW i \in H + 1 .. N + 1
          PROVE  at2[i + 1] = IF w2 = i + 1 THEN 0 ELSE at2[i] + accepted'[i].size
      <4>1. CASE i = N + 1
        <5>1. at2[i + 1] = write_pos /\ at2[i] = write_pos - n /\ accepted'[i] = wcmd /\ w2 # i + 1
          <6>1. i + 1 = N + 2
            BY <2>4, <4>1
          <6>2. w2 # N + 2
            BY <2>4
          <6>. QED BY <1>4, <2>9, <4>1, <6>1, <6>2
        <5>2. write_pos \in Nat /\ n \in Nat /\ n = wcmd.size
          BY <2>3, <2>6
        <5>. QED BY <5>1, <5>2
      <4>2. CASE i # N + 1
        <5>1. i \in H + 1 .. N /\ i \in 1 .. N /\ i + 1 \in 1 .. N + 1
          BY <1>2, <4>2
        <5>2. at[i + 1] = IF w = i + 1 THEN 0 ELSE at[i] + accepted[i].size
          BY <1>8, <5>1 DEF Layout, Places
        <5>3. at2[i + 1] = at[i + 1] /\ at2[i] = at[i] /\ accepted'[i] = accepted[i]
          <6>1. i \in 1 .. N + 1
            BY <2>4, <5>1
          <6>. QED BY <1>4, <2>9, <5>1, <6>1
        <5>4. w2 = i + 1 <=> w = i + 1
          BY <2>4, <5>1
        <5>. QED BY <5>2, <5>3, <5>4
      <4>. QED BY <4>1, <4>2
    <3>3. at2[(N + 1) + 1] = write_pos
      BY <2>4, <2>9
    <3>. QED BY <1>1, <1>4, <2>7, <3>1, <3>2, <3>3 DEF Places
  <2>11. ASSUME NEW i \in H + 1 .. N
        PROVE  /\ at2[i] = at[i] /\ accepted'[i] = accepted[i] /\ i \in Nat /\ i <= N
               /\ accepted'[i].size \in Nat /\ at2[i] \in Nat
               /\ i < w => read_pos <= at2[i] /\ at2[i] + accepted'[i].size <= e
               /\ i >= w => at2[i] + accepted'[i].size <= write_pos - n
    <3>1. /\ i \in Nat /\ i \in 1 .. N /\ accepted[i].size \in Nat \ {0} /\ at[i] \in 0 .. bufSize
      BY <2>2
    <3>2. i \in 1 .. N + 1 /\ i <= N
      BY <2>4, <3>1
    <3>3. at2[i] = at[i] /\ accepted'[i] = accepted[i]
      BY <1>4, <2>9, <3>1, <3>2
    <3>4. /\ i < w => read_pos <= at[i] /\ at[i] + accepted[i].size <= e
          /\ i >= w => at[i] + accepted[i].size <= Counted
      BY <1>8 DEF Layout, Bounds
    <3>5. Counted = write_pos - n /\ at[i] \in Nat /\ accepted[i].size \in Nat
      BY <2>7, <2>6, <3>1
    <3>. QED BY <2>3, <2>6, <3>1, <3>2, <3>3, <3>4, <3>5
  <2>12. at2[N + 1] = write_pos - n /\ accepted'[N + 1] = wcmd /\ (w = N + 2 => read_pos <= at2[N + 1])
    <3>1. w = N + 2 => read_pos <= Counted
      BY <1>8, <2>4 DEF Layout, Turn
    <3>. QED BY <1>4, <2>7, <2>9, <3>1
  <2>13. Bounds(at2, w2, e2)'
    <3>1. ASSUME NEW i \in H + 1 .. N + 1, i < w2
          PROVE  read_pos <= at2[i] /\ at2[i] + accepted'[i].size <= e2
      <4>1. CASE i = N + 1
        <5>1. w = N + 2 /\ e2 = write_pos /\ read_pos <= at2[i] /\ at2[i] = write_pos - n /\ accepted'[i] = wcmd
          <6>1. w = N + 2
            BY <2>4, <3>1, <4>1
          <6>. QED BY <2>5, <2>12, <4>1, <6>1
        <5>2. accepted'[i].size = n /\ write_pos \in Nat
          BY <2>3, <2>6, <5>1
        <5>. QED BY <5>1, <5>2
      <4>2. CASE i # N + 1
        <5>1. i \in H + 1 .. N /\ i < w
          BY <2>4, <3>1, <4>2
        <5>2. /\ read_pos <= at2[i] /\ at2[i] + accepted'[i].size <= e
              /\ accepted'[i].size \in Nat /\ at2[i] \in Nat
          BY <2>11, <5>1
        <5>. QED BY <2>6, <5>2
      <4>. QED BY <4>1, <4>2
    <3>2. ASSUME NEW i \in H + 1 .. N + 1, i >= w2
          PROVE  at2[i] + accepted'[i].size <= write_pos
      <4>1. CASE i = N + 1
        BY <2>3, <2>6, <2>12, <4>1
      <4>2. CASE i # N + 1
        <5>1. i \in H + 1 .. N /\ i >= w
          BY <2>4, <3>2, <4>2
        <5>. QED BY <2>3, <2>6, <2>11, <5>1
      <4>. QED BY <4>1, <4>2
    <3>3. ASSUME NEW i \in H + 1 .. N + 1, NEW j \in H + 1 .. N + 1, i < j, j < w2 \/ i >= w2
          PROVE  at2[i] + accepted'[i].size <= at2[j]
      <4>1. i \in H + 1 .. N
        BY <1>2, <3>3
      <4>2. CASE j = N + 1
        <5>1. CASE i < w
          <6>1. w = N + 2 /\ at2[i] + accepted'[i].size <= e
            BY <2>4, <2>11, <3>3, <4>1, <4>2, <5>1
          <6>. QED BY <2>5, <2>12, <4>2, <6>1
        <5>2. CASE i >= w
          BY <2>11, <2>12, <4>1, <4>2, <5>2
        <5>. QED BY <2>4, <2>11, <4>1, <5>1, <5>2
      <4>3. CASE j # N + 1
        <5>1. j \in H + 1 .. N /\ (j < w \/ i >= w)
          BY <2>4, <3>3, <4>3
        <5>2. at[i] + accepted[i].size <= at[j]
          BY <1>8, <3>3, <4>1, <5>1 DEF Layout, Bounds
        <5>. QED BY <2>11, <4>1, <5>1, <5>2
      <4>. QED BY <4>2, <4>3
    <3>. QED BY <1>1, <1>4, <2>7, <3>1, <3>2, <3>3 DEF Bounds
  <2>14. Turn(at2, w2, e2)'
    <3>1. CASE w = N + 2
      <4>1. ~(w2 <= (N + 1) + 1) /\ e2 = write_pos /\ read_pos <= write_pos
        <5>1. w2 = N + 3 /\ e2 = write_pos
          BY <2>4, <2>5, <3>1
        <5>2. read_pos <= write_pos - n
          BY <2>12, <3>1
        <5>3. read_pos <= write_pos
          BY <2>6, <5>2
        <5>. QED BY <2>4, <5>1, <5>3
      <4>. QED BY <1>1, <1>4, <2>7, <4>1 DEF Turn
    <3>2. CASE w # N + 2
      <4>1. /\ e = IF w = H + 1 THEN read_pos ELSE at[w - 1] + accepted[w - 1].size
            /\ read_pos <= e /\ (e < bufSize => buf[e] = Reset)
        BY <1>8, <2>4, <3>2 DEF Layout, Turn
      <4>2. w # H + 1 => w - 1 \in H + 1 .. N
        BY <2>4, <3>2
      <4>3. e = IF w = H + 1 THEN read_pos ELSE at2[w - 1] + accepted'[w - 1].size
        BY <2>11, <4>1, <4>2
      <4>4. w2 = w /\ e2 = e /\ w <= (N + 1) + 1
        BY <2>4, <2>5, <3>2
      <4>. QED BY <1>1, <1>4, <4>1, <4>3, <4>4 DEF Turn
    <3>. QED BY <3>1, <3>2
  <2>15. cmdbuf_len' = Used(w2, e2)' + Pending'
    <3>1. cmdbuf_len = Used(w, e) + Pending /\ Pending \in Int
      BY <1>1, <1>8, TypeFacts DEF Layout
    <3>2. Used(w, e) \in Int /\ Used(w2, e2)' = Used(w, e) + n
      <4>1. N' + 1 = N + 2 /\ read_pos' = read_pos
        BY <1>1, <1>4, <2>4
      <4>2. CASE w = N + 2
        <5>1. Used(w, e) = write_pos - n - read_pos
          BY <2>4, <2>7, <4>2 DEF Used
        <5>2. ~(w2 <= N' + 1)
          BY <2>4, <4>1, <4>2
        <5>3. Used(w2, e2)' = write_pos - read_pos
          BY <2>7, <4>1, <5>2 DEF Used
        <5>. QED BY <2>6, <5>1, <5>3
      <4>3. CASE w # N + 2
        <5>1. Used(w, e) = write_pos - n + (bufSize - read_pos) + (IF e < bufSize THEN 1 ELSE 0)
          BY <2>4, <2>7, <4>3 DEF Used
        <5>2. w2 <= N' + 1 /\ e2 = e
          BY <2>4, <2>5, <4>1, <4>3
        <5>3. Used(w2, e2)' = write_pos + (bufSize - read_pos) + (IF e < bufSize THEN 1 ELSE 0)
          BY <2>7, <4>1, <5>2 DEF Used
        <5>. QED BY <2>6, <5>1, <5>3
      <4>. QED BY <4>2, <4>3
    <3>3. cmdbuf_len' = cmdbuf_len + n /\ Pending' = Pending
      BY <1>1, <2>3, <2>7
    <3>. QED BY <3>1, <3>2, <3>3
  <2>16. ASSUME NEW i \in H' + 1 .. N'
         PROVE  Stored(at2[i], accepted[i])'
    <3>1. CASE i = N + 1
      <4>1. at2[i] = write_pos - n /\ accepted'[i] = wcmd
        BY <2>12, <3>1
      <4>. QED BY <1>1, <1>3, <2>3, <4>1 DEF Stored
    <3>2. CASE i # N + 1
      <4>1. i \in H + 1 .. N
        BY <1>2, <1>4, <3>2
      <4>2. Stored(at[i], accepted[i]) /\ at2[i] = at[i] /\ accepted'[i] = accepted[i]
        BY <1>8, <2>11, <4>1 DEF Layout
      <4>. QED BY <1>1, <4>2 DEF Stored
    <3>. QED BY <3>1, <3>2
  <2>17. rpc' = "handle" => H' < N' /\ w2 # H' + 1
    <3>1. rpc' = "handle" => w # H + 1
      BY <1>1, <1>8 DEF Layout
    <3>2. H' < N' /\ (w2 = H' + 1 => w = H + 1)
      BY <1>4, <2>4
    <3>. QED BY <1>4, <3>1, <3>2
  <2>18. w2 \in H' + 1 .. N' + 2 /\ e2 \in 0 .. bufSize /\ at2 \in [1 .. N' + 1 -> 0 .. bufSize]
    <3>1. N' + 1 = N + 2 /\ N' + 2 = N + 3
      BY <1>2, <1>4
    <3>2. e2 \in 0 .. bufSize /\ w2 \in H + 1 .. N + 3
      BY <2>4, <2>6
    <3>. QED BY <1>4, <2>8, <3>1, <3>2
  <2>19. Layout(at2, w2, e2)'
    BY <2>10, <2>13, <2>14, <2>15, <2>16, <2>17, <2>18 DEF Layout
  <2>. QED BY <2>19
<1>. QED BY <1>5, <1>6, <1>7, <1>9 DEF Inv

-----------------------------------------------------------------------------
(* The reader *)

\* Waits, and tests.
LEMMA QuietReaderKeeps ==
  ASSUME Inv, WaitTest \/ Sleep \/ TimeOut \/ SpuriousWake \/ ReadTest
  PROVE  Inv'
<1>1. /\ TypeOK /\ WriterInv /\ ReaderInv
      /\ UNCHANGED <<blockWrite, buf, cmdbuf_len, terminated, write_pos, wpc, wcmd, read_pos, taken,
                     accepted, handled>>
      /\ timeout' \in BOOLEAN
  BY DEF Inv, WaitTest, Sleep, TimeOut, SpuriousWake, ReadTest, pipe, writer, TypeOK
<1>2. /\ rpc \in {"wait", "sleep", "asleep", "woken", "read"}
      /\ rpc' \in {"wait", "sleep", "asleep", "woken", "fetch", "done"}
      /\ rpc' = "done" <=> rpc = "wait" /\ terminated
      /\ rpc' = "fetch" => cmdbuf_len # 0
  BY DEF WaitTest, Sleep, TimeOut, SpuriousWake, ReadTest
<1>3. TypeOK'
  BY <1>1, <1>2 DEF TypeOK
<1>4. WriterInv'
  BY <1>1 DEF WriterInv, Laps, Wraps, Needed, WriteRemains, Stored, N
<1>5. ReaderInv'
  <2>1. cmdbuf_len \in Nat
    BY <1>1, SizeFacts DEF TypeOK
  <2>2. ~terminated /\ rpc' # "done"
    BY <1>1, <1>2 DEF ReaderInv
  <2>. QED BY <1>1, <1>2, <2>1, <2>2 DEF ReaderInv, H, N
<1>6. ASSUME NEW at, NEW w, NEW e, Layout(at, w, e)
      PROVE  Layout(at, w, e)'
  <2>1. Counted' = Counted /\ Pending' = Pending /\ rpc' # "handle"
    BY <1>1, <1>2 DEF Counted, Pending
  <2>. QED BY <1>1, <1>6, <2>1, SameLayout
<1>. QED BY <1>1, <1>3, <1>4, <1>5, <1>6 DEF Inv

\* The reader turns into the writer's lap.
LEMMA RewindKeeps ==
  ASSUME TypeOK, NEW at, NEW w, NEW e, Layout(at, w, e), w = H + 1, H <= N,
         UNCHANGED <<buf, write_pos, wpc, wcmd, accepted, handled, cmdbuf_len>>,
         read_pos' = 0, cmdbuf_len = Counted + Pending',
         rpc' = "handle" => H < N
  PROVE  \E w2, e2 : Layout(at, w2, e2)'
<1>1. /\ H \in Nat /\ N \in Nat /\ bufSize \in Nat
      /\ \A i \in H + 1 .. N : i \in Nat /\ accepted[i].size \in Nat /\ at[i] \in Nat
  BY LayoutFacts
<1>2. PICK w2, e2 : w2 = N + 2 /\ e2 = Counted
  OBVIOUS
<1>3. e2 \in 0 .. bufSize
  <2>1. N + 1 \in H + 1 .. N + 1
    BY <1>1
  <2>2. at[N + 1] \in 0 .. bufSize
    BY <2>1, LayoutFacts
  <2>. QED BY <1>2, <2>2 DEF Layout, Places
<1>4. H' = H /\ N' = N /\ Counted' = Counted
  BY DEF H, N, Counted
<1>5. Places(at, w2)'
  <2>1. at[N + 1] = Counted /\ at[H + 1] = 0
    BY DEF Layout, Places
  <2>2. w2 # H + 1 /\ \A i \in H + 1 .. N : w2 # i + 1 /\ w # i + 1
    BY <1>1, <1>2
  <2>3. \A i \in H + 1 .. N : at[i + 1] = at[i] + accepted[i].size
    BY <2>2 DEF Layout, Places
  <2>. QED BY <1>4, <2>1, <2>2, <2>3 DEF Places
<1>6. Bounds(at, w2, e2)'
  <2>1. \A i \in H + 1 .. N : 0 <= at[i] /\ at[i] + accepted[i].size <= e2
    BY <1>1, <1>2 DEF Layout, Bounds
  <2>2. \A i \in H + 1 .. N : ~(i >= w2)
    BY <1>1, <1>2
  <2>3. \A i, j \in H + 1 .. N : i < j => at[i] + accepted[i].size <= at[j]
    BY <1>1 DEF Layout, Bounds
  <2>. QED BY <1>4, <2>1, <2>2, <2>3 DEF Bounds
<1>7. Turn(at, w2, e2)' /\ cmdbuf_len' = Used(w2, e2)' + Pending'
  <2>1. ~(w2 <= N + 1) /\ 0 <= Counted /\ Counted \in Int
    BY <1>1, <1>2, <1>3
  <2>2. Turn(at, w2, e2)'
    BY <1>2, <1>4, <2>1 DEF Turn
  <2>3. Used(w2, e2)' = Counted
    BY <1>4, <2>1 DEF Used
  <2>. QED BY <2>2, <2>3
<1>8. \A i \in H + 1 .. N : Stored(at[i], accepted[i])'
  BY DEF Layout, Stored
<1>9. w2 \in H + 1 .. N + 2 /\ w2 # H + 1
  BY <1>1, <1>2
<1>10. Layout(at, w2, e2)'
  BY <1>3, <1>4, <1>5, <1>6, <1>7, <1>8, <1>9 DEF Layout
<1>. QED BY <1>10

\* The reader finds the mark where the lap ends, and a command everywhere else.
LEMMA FetchKeeps ==
  ASSUME Inv, Fetch
  PROVE  Inv'
<1>1. /\ TypeOK /\ WriterInv /\ ReaderInv /\ rpc = "fetch"
      /\ UNCHANGED <<blockWrite, buf, cmdbuf_len, terminated, write_pos, wpc, wcmd, timeout,
                     accepted, handled>>
      /\ IF buf[FetchPos] = Reset
         THEN rpc' = "unlap" /\ read_pos' = 0 /\ taken' = RestOfLap
         ELSE rpc' = "handle" /\ read_pos' = FetchPos /\ taken' = taken
  BY DEF Inv, Fetch, pipe, writer
<1>2. /\ ~terminated /\ H <= N /\ H \in Nat /\ N \in Nat /\ bufSize \in Nat /\ read_pos \in 0 .. bufSize
      /\ taken \in 0 .. bufSize + 1 /\ cmdbuf_len > 0 /\ cmdbuf_len \in 0 .. bufSize
  BY <1>1, TypeFacts, SizeFacts DEF ReaderInv
<1>3. TypeOK'
  <2>1. FetchPos \in 0 .. bufSize /\ RestOfLap \in 0 .. bufSize + 1
    BY <1>2 DEF FetchPos, RestOfLap
  <2>2. read_pos' \in 0 .. bufSize /\ taken' \in 0 .. bufSize + 1 /\ rpc' \in {"unlap", "handle"}
    BY <1>1, <1>2, <2>1
  <2>. QED BY <1>1, <2>2 DEF TypeOK
<1>4. WriterInv'
  BY <1>1 DEF WriterInv, Laps, Wraps, Needed, WriteRemains, Stored, N
<1>5. ReaderInv'
  BY <1>1, <1>2 DEF ReaderInv, H, N
<1>6. PICK at, w, e : Layout(at, w, e)
  BY <1>2 DEF Inv
<1>7. /\ w \in Nat /\ H + 1 <= w /\ w <= N + 2 /\ e \in 0 .. bufSize /\ Counted \in 0 .. bufSize
      /\ at[N + 1] = Counted /\ cmdbuf_len = Used(w, e)
  <2>1. N + 1 \in H + 1 .. N + 1
    BY <1>2
  <2>2. at[N + 1] \in 0 .. bufSize /\ at[N + 1] = Counted
    BY <1>1, <1>6, <2>1, LayoutFacts DEF Layout, Places
  <2>3. cmdbuf_len = Used(w, e) + 0
    BY <1>1, <1>6 DEF Layout, Pending
  <2>4. w \in Nat /\ H + 1 <= w /\ w <= N + 2 /\ e \in 0 .. bufSize
    BY <1>1, <1>6, LayoutFacts
  <2>. QED BY <1>2, <2>2, <2>3, <2>4 DEF Used
<1>8. H < N => /\ H + 1 \in H + 1 .. N /\ accepted[H + 1].size \in Nat \ {0}
               /\ Stored(at[H + 1], accepted[H + 1])
               /\ buf[at[H + 1]] # Reset
  <2>. SUFFICES ASSUME H < N
                PROVE  /\ H + 1 \in H + 1 .. N /\ accepted[H + 1].size \in Nat \ {0}
                       /\ Stored(at[H + 1], accepted[H + 1])
                       /\ buf[at[H + 1]] # Reset
    OBVIOUS
  <2>1. H + 1 \in H + 1 .. N
    BY <1>2
  <2>2. accepted[H + 1].size \in Nat \ {0} /\ at[H + 1] \in 0 .. bufSize
    BY <1>1, <1>6, <2>1, LayoutFacts
  <2>3. Stored(at[H + 1], accepted[H + 1])
    BY <1>6, <2>1 DEF Layout
  <2>4. buf[at[H + 1] + 0] = [cmd |-> accepted[H + 1], off |-> 0]
    BY <2>2, <2>3 DEF Stored
  <2>5. buf[at[H + 1]] = [cmd |-> accepted[H + 1], off |-> 0]
    BY <1>2, <2>2, <2>4
  <2>. QED BY <2>1, <2>2, <2>3, <2>5 DEF Reset
<1>9. CASE read_pos = bufSize
  <2>1. w <= N + 1
    <3>1. CASE w = N + 2
      BY <1>2, <1>7, <1>9, <3>1 DEF Used
    <3>. QED BY <1>2, <1>7, <3>1
  <2>2. e = bufSize /\ Used(w, e) = Counted
    <3>1. read_pos <= e
      BY <1>6, <2>1 DEF Layout, Turn
    <3>2. e = bufSize
      BY <1>2, <1>7, <1>9, <3>1
    <3>. QED BY <1>2, <1>7, <1>9, <2>1, <3>2 DEF Used
  <2>3. w = H + 1
    <3>. SUFFICES ASSUME w # H + 1
                  PROVE  FALSE
      OBVIOUS
    <3>1. H + 1 < w /\ H < N
      BY <1>2, <1>7, <2>1
    <3>2. at[H + 1] = bufSize
      BY <1>6, <1>9 DEF Layout, Places
    <3>3. at[H + 1] + accepted[H + 1].size <= bufSize
      BY <1>6, <1>8, <2>2, <3>1 DEF Layout, Bounds
    <3>4. accepted[H + 1].size \in Nat \ {0}
      BY <1>8, <3>1
    <3>. QED BY <1>2, <3>2, <3>3, <3>4
  <2>4. at[H + 1] = 0 /\ H < N
    <3>1. at[H + 1] = 0
      BY <1>6, <2>3 DEF Layout, Places
    <3>. QED BY <1>2, <1>7, <2>2, <3>1
  <2>5. rpc' = "handle" /\ read_pos' = 0 /\ Pending' = 0
    <3>1. FetchPos = 0
      BY <1>2, <1>9 DEF FetchPos
    <3>2. buf[FetchPos] # Reset
      BY <1>8, <2>4, <3>1
    <3>. QED BY <1>1, <3>1, <3>2 DEF Pending
  <2>6. cmdbuf_len = Counted + Pending'
    BY <1>7, <2>2, <2>5
  <2>7. \E w2, e2 : Layout(at, w2, e2)'
    BY <1>1, <1>2, <1>6, <2>3, <2>4, <2>5, <2>6, RewindKeeps
  <2>. QED BY <1>3, <1>4, <1>5, <2>7 DEF Inv
<1>10. CASE read_pos < bufSize /\ w = H + 1
  <2>1. w <= N + 1
    BY <1>2, <1>10
  <2>2. e = read_pos /\ buf[read_pos] = Reset
    BY <1>6, <1>10, <2>1 DEF Layout, Turn
  <2>3. FetchPos = read_pos
    BY <1>2, <1>10 DEF FetchPos
  <2>4. rpc' = "unlap" /\ read_pos' = 0 /\ taken' = 1 + (bufSize - read_pos)
    BY <1>1, <2>2, <2>3 DEF RestOfLap
  <2>5. Used(w, e) = Counted + (bufSize - read_pos) + 1
    BY <1>10, <2>1, <2>2 DEF Used
  <2>6. cmdbuf_len = Counted + Pending'
    BY <1>2, <1>7, <2>4, <2>5 DEF Pending
  <2>7. \E w2, e2 : Layout(at, w2, e2)'
    BY <1>1, <1>2, <1>6, <1>10, <2>4, <2>6, RewindKeeps
  <2>. QED BY <1>3, <1>4, <1>5, <2>7 DEF Inv
<1>11. CASE read_pos < bufSize /\ w # H + 1
  <2>1. at[H + 1] = read_pos
    BY <1>6, <1>11 DEF Layout, Places
  <2>2. H < N
    <3>1. CASE H = N
      <4>1. w = N + 2 /\ Counted = read_pos
        BY <1>2, <1>7, <1>11, <2>1, <3>1
      <4>2. Used(w, e) = 0
        BY <1>2, <4>1 DEF Used
      <4>. QED BY <1>2, <1>7, <4>2
    <3>. QED BY <1>2, <3>1
  <2>3. rpc' = "handle" /\ read_pos' = read_pos
    <3>1. FetchPos = read_pos
      BY <1>2, <1>11 DEF FetchPos
    <3>. QED BY <1>1, <1>8, <2>1, <2>2, <3>1
  <2>4. H' = H /\ N' = N /\ Counted' = Counted /\ Pending' = Pending
    BY <1>1, <2>3 DEF H, N, Counted, Pending
  <2>5. Layout(at, w, e)'
    <3>1. Used(w, e)' = Used(w, e)
      BY <2>3, <2>4 DEF Used
    <3>2. Places(at, w)' /\ Bounds(at, w, e)' /\ Turn(at, w, e)'
      BY <1>1, <1>6, <2>3, <2>4 DEF Layout, Places, Bounds, Turn
    <3>3. \A i \in H + 1 .. N : Stored(at[i], accepted[i])'
      BY <1>1, <1>6 DEF Layout, Stored
    <3>. QED BY <1>1, <1>6, <1>11, <2>2, <2>4, <3>1, <3>2, <3>3 DEF Layout
  <2>. QED BY <1>3, <1>4, <1>5, <2>5 DEF Inv
<1>. QED BY <1>2, <1>9, <1>10, <1>11

\* What the layout counts is never negative, and more than nothing while a command waits.
LEMMA UsedFacts ==
  ASSUME TypeOK, NEW at, NEW w, NEW e, Layout(at, w, e), H <= N
  PROVE  /\ Used(w, e) \in Nat
         /\ H < N => Used(w, e) > 0
         /\ H < N /\ w # H + 1 =>
              /\ at[H + 1] = read_pos /\ read_pos + accepted[H + 1].size <= bufSize
              /\ accepted[H + 1].size <= Used(w, e)
<1>1. /\ H \in Nat /\ N \in Nat /\ w \in Nat /\ H + 1 <= w /\ w <= N + 2 /\ e \in 0 .. bufSize
      /\ bufSize \in Nat /\ read_pos \in 0 .. bufSize
  BY LayoutFacts, TypeFacts
<1>2. Counted \in 0 .. bufSize
  <2>1. N + 1 \in H + 1 .. N + 1
    BY <1>1
  <2>. QED BY <2>1, LayoutFacts DEF Layout, Places
<1>3. /\ w <= N + 1 => Used(w, e) = Counted + (bufSize - read_pos) + (IF e < bufSize THEN 1 ELSE 0)
      /\ w = N + 2 => Used(w, e) = Counted - read_pos /\ read_pos <= Counted /\ e = Counted
  <2>1. w = N + 2 => ~(w <= N + 1)
    BY <1>1
  <2>. QED BY <2>1 DEF Layout, Used, Turn
<1>4. w <= N + 1 \/ w = N + 2
  BY <1>1
<1>5. Used(w, e) \in Nat
  <2>1. CASE w <= N + 1
    BY <1>1, <1>2, <1>3, <2>1
  <2>2. CASE w = N + 2
    BY <1>1, <1>2, <1>3, <2>2
  <2>. QED BY <1>4, <2>1, <2>2
<1>6. ASSUME H < N
      PROVE  /\ H + 1 \in H + 1 .. N /\ H + 1 \in Nat
             /\ accepted[H + 1].size \in Nat /\ accepted[H + 1].size > 0 /\ at[H + 1] \in Nat
  <2>1. H + 1 \in H + 1 .. N /\ H + 1 \in Nat
    BY <1>1, <1>6
  <2>. QED BY <2>1, LayoutFacts
<1>7. ASSUME H < N, w = H + 1
      PROVE  Used(w, e) > 0
  <2>1. at[H + 1] + accepted[H + 1].size <= Counted
    BY <1>6, <1>7 DEF Layout, Bounds
  <2>2. Counted > 0 /\ w <= N + 1
    BY <1>1, <1>2, <1>6, <1>7, <2>1
  <2>. QED BY <1>1, <1>2, <1>3, <2>2
<1>8. ASSUME H < N, w # H + 1
      PROVE  /\ at[H + 1] = read_pos /\ read_pos + accepted[H + 1].size <= bufSize
             /\ accepted[H + 1].size <= Used(w, e)
  <2>1. H + 1 < w
    BY <1>1, <1>8
  <2>2. at[H + 1] + accepted[H + 1].size <= e
    BY <1>6, <1>8, <2>1 DEF Layout, Bounds
  <2>3. at[H + 1] = read_pos
    BY <1>8 DEF Layout, Places
  <2>4. accepted[H + 1].size \in Nat
    BY <1>6, <1>8
  <2>5. read_pos + accepted[H + 1].size <= e /\ e <= bufSize
    BY <1>1, <2>2, <2>3
  <2>6. CASE w <= N + 1
    BY <1>1, <1>2, <1>3, <2>3, <2>4, <2>5, <2>6
  <2>7. CASE w = N + 2
    BY <1>1, <1>2, <1>3, <2>3, <2>4, <2>5, <2>7
  <2>. QED BY <1>4, <2>6, <2>7
<1>9. H < N => Used(w, e) > 0
  <2>1. ASSUME H < N, w # H + 1
        PROVE  Used(w, e) > 0
    BY <1>5, <1>6, <1>8, <2>1
  <2>. QED BY <1>7, <2>1
<1>. QED BY <1>5, <1>8, <1>9

\* What the reader is given to handle is the next command, whole.
LEMMA HandledFacts ==
  ASSUME Inv, Handle
  PROVE  /\ ~terminated /\ H < N /\ accepted[H + 1] \in Commands
         /\ buf[read_pos].cmd = accepted[H + 1]
         /\ handled' = Append(handled, accepted[H + 1])
         /\ accepted[H + 1].size <= cmdbuf_len
<1>1. TypeOK /\ ReaderInv /\ rpc = "handle" /\ ~terminated /\ H <= N
  BY DEF Inv, Handle, ReaderInv
<1>2. PICK at, w, e : Layout(at, w, e)
  BY <1>1 DEF Inv
<1>3. H < N /\ w # H + 1
  BY <1>1, <1>2 DEF Layout
<1>4. /\ at[H + 1] = read_pos /\ read_pos + accepted[H + 1].size <= bufSize
      /\ accepted[H + 1].size <= Used(w, e)
  BY <1>1, <1>2, <1>3, UsedFacts
<1>5. H \in Nat /\ N \in Nat /\ read_pos \in 0 .. bufSize /\ bufSize \in Nat
  BY <1>1, TypeFacts, SizeFacts
<1>6. H + 1 \in H + 1 .. N
  BY <1>3, <1>5
<1>7. accepted[H + 1] \in Commands /\ accepted[H + 1].size \in Nat \ {0} /\ Stored(read_pos, accepted[H + 1])
  BY <1>1, <1>2, <1>4, <1>6, LayoutFacts DEF Layout
<1>8. buf[read_pos].cmd = accepted[H + 1]
  <2>1. buf[read_pos + 0] = [cmd |-> accepted[H + 1], off |-> 0]
    BY <1>7 DEF Stored
  <2>2. read_pos + 0 = read_pos
    BY <1>5
  <2>. QED BY <2>1, <2>2
<1>9. Whole(accepted[H + 1])
  <2>1. \A i \in 0 .. accepted[H + 1].size - 1 : read_pos + i < bufSize
    BY <1>4, <1>5, <1>7
  <2>. QED BY <1>7, <2>1 DEF Whole, Stored
<1>10. handled' = Append(handled, accepted[H + 1])
  BY <1>8, <1>9 DEF Handle
<1>11. cmdbuf_len = Used(w, e)
  <2>1. cmdbuf_len = Used(w, e) + 0 /\ Used(w, e) \in Nat
    BY <1>1, <1>2, UsedFacts DEF Layout, Pending
  <2>. QED BY <2>1
<1>. QED BY <1>1, <1>3, <1>4, <1>7, <1>8, <1>10, <1>11

LEMMA HandleKeeps ==
  ASSUME Inv, Handle
  PROVE  Inv'
<1>1. /\ TypeOK /\ WriterInv /\ ReaderInv /\ rpc = "handle"
      /\ UNCHANGED <<blockWrite, buf, cmdbuf_len, write_pos, wpc, wcmd, timeout, accepted>>
  BY DEF Inv, Handle, writer
<1>. PICK c : c = accepted[H + 1]
  OBVIOUS
<1>2. /\ ~terminated /\ H < N /\ c \in Commands /\ c.size \in Nat /\ c.size > 0 /\ c.size <= cmdbuf_len
      /\ c.size <= bufSize
      /\ buf[read_pos].cmd = c /\ handled' = Append(handled, c)
      /\ H \in Nat /\ N \in Nat /\ bufSize \in Nat /\ cmdbuf_len \in Nat /\ read_pos \in 0 .. bufSize
  BY <1>1, HandledFacts, TypeFacts, SizeFacts, SMTT(30)
<1>3. /\ taken' = c.size
      /\ \/ c.quit /\ terminated' = TRUE /\ rpc' = "done" /\ read_pos' = read_pos
         \/ ~c.quit /\ terminated' = FALSE /\ rpc' = "consume" /\ read_pos' = read_pos + c.size
  <2>1. ~(c.size > cmdbuf_len) /\ terminated = FALSE
    BY <1>1, <1>2 DEF TypeOK
  <2>. QED BY <1>2, <2>1 DEF Handle
<1>4. handled' \in Seq(Commands \cup {NoCommand}) /\ H' = H + 1 /\ N' = N
  <2>1. handled \in Seq(Commands \cup {NoCommand})
    BY <1>1 DEF TypeOK
  <2>. QED BY <1>1, <1>2, <2>1, AppendProperties DEF H, N
<1>5. PICK at, w, e : Layout(at, w, e)
  BY <1>2 DEF Inv
<1>6. /\ w # H + 1 /\ at[H + 1] = read_pos /\ read_pos + c.size <= bufSize
      /\ w \in Nat /\ H + 2 <= w /\ w <= N + 2 /\ e \in 0 .. bufSize
  <2>1. w # H + 1
    BY <1>1, <1>5 DEF Layout
  <2>2. at[H + 1] = read_pos /\ read_pos + c.size <= bufSize
    BY <1>1, <1>2, <1>5, <2>1, UsedFacts
  <2>3. w \in Nat /\ H + 1 <= w /\ w <= N + 2 /\ e \in 0 .. bufSize
    BY <1>1, <1>5, LayoutFacts
  <2>. QED BY <1>2, <2>1, <2>2, <2>3
<1>7. TypeOK'
  <2>2. read_pos + c.size \in 0 .. bufSize /\ c.size \in 0 .. bufSize + 1
    BY <1>2, <1>6
  <2>1. read_pos' \in 0 .. bufSize /\ taken' \in 0 .. bufSize + 1 /\ terminated' \in BOOLEAN
    BY <1>2, <1>3, <2>2
  <2>. QED BY <1>1, <1>3, <1>4, <2>1 DEF TypeOK
<1>8. WriterInv'
  BY <1>1 DEF WriterInv, Laps, Wraps, Needed, WriteRemains, Stored, N
<1>9. ReaderInv'
  <2>1. H + 1 <= N /\ H + 1 \in 1 .. N
    BY <1>2
  <2>2. c.quit => H + 1 = N /\ wcmd.quit /\ wpc \notin Writing
    BY <1>1, <2>1 DEF WriterInv
  <2>3. (rpc' = "done" <=> terminated') /\ (terminated' => c.quit) /\ rpc' # "fetch"
    BY <1>3
  <2>. QED BY <1>1, <1>4, <2>1, <2>2, <2>3 DEF ReaderInv
<1>10. ASSUME ~terminated'
       PROVE  Layout(at, w, e)'
  <2>1. rpc' = "consume" /\ read_pos' = read_pos + c.size /\ Pending' = c.size /\ Pending = 0
    BY <1>1, <1>3, <1>10 DEF Pending
  <2>2. Counted' = Counted
    BY <1>1 DEF Counted
  <2>3. H + 1 \in H + 1 .. N /\ H + 2 = (H + 1) + 1 /\ \A i \in H + 2 .. N : i \in H + 1 .. N
    BY <1>2
  <2>4. Places(at, w)'
    <3>1. at[(H + 1) + 1] = IF w = (H + 1) + 1 THEN 0 ELSE read_pos + c.size
      BY <1>5, <1>6, <2>3 DEF Layout, Places
    <3>2. \A i \in (H + 1) + 1 .. N : at[i + 1] = IF w = i + 1 THEN 0 ELSE at[i] + accepted[i].size
      BY <1>5, <2>3 DEF Layout, Places
    <3>3. at[N + 1] = Counted
      BY <1>5 DEF Layout, Places
    <3>. QED BY <1>1, <1>4, <2>1, <2>2, <3>1, <3>2, <3>3 DEF Places
  <2>5. Bounds(at, w, e)'
    <3>1. ASSUME NEW i \in (H + 1) + 1 .. N, i < w
          PROVE  read_pos + c.size <= at[i] /\ at[i] + accepted[i].size <= e
      <4>1. i \in H + 1 .. N /\ H + 1 < i
        BY <1>2, <2>3, <3>1
      <4>2. at[H + 1] + accepted[H + 1].size <= at[i]
        BY <1>5, <2>3, <3>1, <4>1 DEF Layout, Bounds
      <4>3. at[i] + accepted[i].size <= e
        BY <1>5, <3>1, <4>1 DEF Layout, Bounds
      <4>. QED BY <1>6, <4>2, <4>3
    <3>2. \A i \in (H + 1) + 1 .. N : i >= w => at[i] + accepted[i].size <= Counted
      BY <1>5, <2>3 DEF Layout, Bounds
    <3>3. \A i, j \in (H + 1) + 1 .. N :
            i < j /\ (j < w \/ i >= w) => at[i] + accepted[i].size <= at[j]
      BY <1>5, <2>3 DEF Layout, Bounds
    <3>. QED BY <1>1, <1>4, <2>1, <2>2, <3>1, <3>2, <3>3 DEF Bounds
  <2>6. read_pos + c.size <= e
    <3>1. H + 1 < w
      BY <1>2, <1>6
    <3>. QED BY <1>5, <1>6, <2>3, <3>1 DEF Layout, Bounds
  <2>7. Turn(at, w, e)'
    <3>1. CASE w <= N + 1
      <4>1. e = at[w - 1] + accepted[w - 1].size /\ (e < bufSize => buf[e] = Reset)
        BY <1>5, <1>6, <3>1 DEF Layout, Turn
      <4>2. w = (H + 1) + 1 => w - 1 = H + 1
        BY <1>2, <1>6
      <4>3. e = IF w = (H + 1) + 1 THEN read_pos + c.size ELSE at[w - 1] + accepted[w - 1].size
        BY <1>6, <4>1, <4>2
      <4>. QED BY <1>1, <1>4, <2>1, <2>2, <2>6, <3>1, <4>1, <4>3 DEF Turn
    <3>2. CASE ~(w <= N + 1)
      <4>1. e = Counted
        BY <1>5, <3>2 DEF Layout, Turn
      <4>. QED BY <1>1, <1>4, <2>1, <2>2, <2>6, <3>2, <4>1 DEF Turn
    <3>. QED BY <3>1, <3>2
  <2>8. cmdbuf_len' = Used(w, e)' + Pending'
    <3>4. read_pos \in Nat /\ Counted \in Int /\ c.size \in Nat /\ bufSize \in Nat
      BY <1>1, <1>2, <1>5, LayoutFacts
    <3>1. cmdbuf_len = Used(w, e) + 0
      BY <1>5, <2>1 DEF Layout
    <3>2. Used(w, e) \in Int /\ Used(w, e)' = Used(w, e) - c.size
      <4>1. CASE w <= N + 1
        <5>1. Used(w, e) = Counted + (bufSize - read_pos) + (IF e < bufSize THEN 1 ELSE 0)
          BY <4>1 DEF Used
        <5>2. Used(w, e)' = Counted + (bufSize - (read_pos + c.size)) + (IF e < bufSize THEN 1 ELSE 0)
          BY <1>4, <2>1, <2>2, <4>1 DEF Used
        <5>. QED BY <3>4, <5>1, <5>2, SMTT(30)
      <4>2. CASE ~(w <= N + 1)
        <5>1. Used(w, e) = Counted - read_pos
          BY <4>2 DEF Used
        <5>2. Used(w, e)' = Counted - (read_pos + c.size)
          BY <1>4, <2>1, <2>2, <4>2 DEF Used
        <5>. QED BY <3>4, <5>1, <5>2, SMTT(30)
      <4>. QED BY <4>1, <4>2
    <3>3. cmdbuf_len' = cmdbuf_len /\ Pending' = c.size /\ c.size \in Int
      BY <1>1, <1>2, <2>1
    <3>. QED BY <3>1, <3>2, <3>3
  <2>9. \A i \in (H + 1) + 1 .. N : Stored(at[i], accepted[i])'
    BY <1>1, <1>5, <2>3 DEF Layout, Stored
  <2>10. w \in (H + 1) + 1 .. N + 2
    BY <1>2, <1>6
  <2>11. at \in [1 .. N + 1 -> 0 .. bufSize]
    BY <1>5 DEF Layout
  <2>. QED BY <1>4, <1>6, <2>1, <2>4, <2>5, <2>7, <2>8, <2>9, <2>10, <2>11 DEF Layout
<1>. QED BY <1>7, <1>8, <1>9, <1>10 DEF Inv

LEMMA LessFits ==
  \A x, y, k, b \in Int : x <= y /\ y + k <= b => x + k <= b
OBVIOUS

\* The reader takes off what it has read.
LEMMA TakeKeeps ==
  ASSUME Inv, Unlap \/ Consume
  PROVE  Inv'
<1>1. /\ TypeOK /\ WriterInv /\ ReaderInv /\ rpc \in {"unlap", "consume"} /\ rpc' = "read"
      /\ UNCHANGED <<blockWrite, buf, terminated, write_pos, wpc, wcmd, read_pos, taken, timeout,
                     accepted, handled>>
      /\ cmdbuf_len' = cmdbuf_len - taken
  BY DEF Inv, Unlap, Consume, writer
<1>2. /\ ~terminated /\ H <= N /\ bufSize \in Nat /\ taken \in Nat /\ cmdbuf_len \in 0 .. bufSize
  BY <1>1, TypeFacts, SizeFacts DEF ReaderInv
<1>3. PICK at, w, e : Layout(at, w, e)
  BY <1>2 DEF Inv
<1>4. cmdbuf_len' = Used(w, e) /\ Used(w, e) \in Nat /\ Pending' = 0
  <2>1. Used(w, e) \in Nat
    BY <1>1, <1>2, <1>3, UsedFacts
  <2>2. cmdbuf_len = Used(w, e) + taken
    BY <1>1, <1>3 DEF Layout, Pending
  <2>. QED BY <1>1, <1>2, <2>1, <2>2 DEF Pending
<1>5. cmdbuf_len' \in 0 .. bufSize /\ cmdbuf_len' <= cmdbuf_len
  BY <1>1, <1>2, <1>4
<1>6. TypeOK'
  BY <1>1, <1>5 DEF TypeOK
<1>7. WriterInv'
  <2>1. UNCHANGED <<Laps, Wraps, Needed, N>>
    BY <1>1 DEF Laps, Wraps, Needed, WriteRemains, N
  <2>2. Needed \in Int /\ wcmd.size \in Nat
    BY <1>1, TypeFacts, SizeFacts DEF Needed, WriteRemains
  <2>3. /\ cmdbuf_len + Needed <= bufSize => cmdbuf_len' + Needed <= bufSize
        /\ cmdbuf_len + wcmd.size <= bufSize => cmdbuf_len' + wcmd.size <= bufSize
    <3>4. cmdbuf_len \in Int /\ cmdbuf_len' \in Int /\ cmdbuf_len' <= cmdbuf_len /\ bufSize \in Int
      BY <1>2, <1>5
    <3>1. ASSUME NEW k \in Int
          PROVE  cmdbuf_len + k <= bufSize => cmdbuf_len' + k <= bufSize
      BY <3>4, LessFits, Zenon
    <3>2. wcmd.size \in Int
      BY <2>2
    <3>. QED BY <2>2, <3>1, <3>2
  <2>. QED BY <1>1, <2>1, <2>3 DEF WriterInv, Stored
<1>8. ReaderInv'
  BY <1>1, <1>2 DEF ReaderInv, H, N
<1>9. Layout(at, w, e)'
  <2>1. H' = H /\ N' = N /\ Counted' = Counted
    BY <1>1 DEF H, N, Counted
  <2>2. Used(w, e)' = Used(w, e)
    BY <1>1, <2>1 DEF Used
  <2>3. cmdbuf_len' = Used(w, e)' + Pending'
    BY <1>4, <2>2
  <2>4. Places(at, w)' /\ Bounds(at, w, e)' /\ Turn(at, w, e)'
    BY <1>1, <1>3, <2>1 DEF Layout, Places, Bounds, Turn
  <2>5. \A i \in H + 1 .. N : Stored(at[i], accepted[i])'
    BY <1>1, <1>3 DEF Layout, Stored
  <2>. QED BY <1>1, <1>3, <2>1, <2>3, <2>4, <2>5 DEF Layout
<1>. QED BY <1>6, <1>7, <1>8, <1>9 DEF Inv

-----------------------------------------------------------------------------
LEMMA InitInv == Init => Inv
<1>. SUFFICES ASSUME Init
              PROVE  Inv
  OBVIOUS
<1>1. TypeOK
  <2>1. bufSize \in Nat \ {0}
    BY SizeFacts
  <2>2. buf \in [0 .. bufSize - 1 -> Cells] /\ cmdbuf_len \in 0 .. bufSize /\ taken \in 0 .. bufSize + 1
    BY <2>1 DEF Init, Cells
  <2>. QED BY <2>1, <2>2 DEF Init, TypeOK
<1>2. H = 0 /\ N = 0 /\ Counted = 0 /\ Pending = 0
  BY DEF Init, H, N, Counted, Pending
<1>3. WriterInv
  <2>1. MaxCommands \in Nat /\ ~wcmd.quit /\ wcmd.id = 0
    BY SizeAssumption, SizeFacts DEF Init
  <2>2. 1 .. N = {}
    BY <1>2
  <2>. QED BY <2>1, <2>2 DEF Init, WriterInv, Writing
<1>4. ReaderInv
  BY <1>2 DEF Init, ReaderInv
<1>5. \E at, w, e : Layout(at, w, e)
  <2>1. PICK at \in [1 .. 1 -> 0 .. bufSize] : at = [i \in 1 .. 1 |-> 0]
    <3>1. 0 \in 0 .. bufSize
      BY SizeFacts
    <3>2. [i \in 1 .. 1 |-> 0] \in [1 .. 1 -> 0 .. bufSize]
      BY <3>1
    <3>. QED BY <3>2
  <2>2. PICK w, e : w = 2 /\ e = 0
    OBVIOUS
  <2>3. at[1] = 0 /\ H + 1 = 1 /\ N + 1 = 1 /\ N + 2 = 2 /\ H + 1 .. N = {} /\ ~(w <= N + 1)
    BY <1>2, <2>1, <2>2
  <2>4. e \in 0 .. bufSize /\ w \in H + 1 .. N + 2 /\ w # H + 1
    BY <1>2, <2>2, SizeFacts
  <2>5. Places(at, w) /\ Bounds(at, w, e) /\ Turn(at, w, e)
    BY <1>2, <2>2, <2>3, <2>4 DEF Init, Places, Bounds, Turn
  <2>6. cmdbuf_len = Used(w, e) + Pending
    BY <1>2, <2>3 DEF Init, Used
  <2>7. Layout(at, w, e)
    BY <2>1, <2>3, <2>4, <2>5, <2>6 DEF Init, Layout
  <2>. QED BY <2>7
<1>. QED BY <1>1, <1>3, <1>4, <1>5 DEF Inv

LEMMA StutterKeeps == Inv /\ UNCHANGED vars => Inv'
<1>. SUFFICES ASSUME Inv, UNCHANGED vars
              PROVE  Inv'
  OBVIOUS
<1>. USE DEF vars, pipe, writer, reader
<1>1. TypeOK' /\ ReaderInv'
  BY DEF Inv, TypeOK, ReaderInv, H, N, Writing
<1>2. WriterInv'
  BY DEF Inv, WriterInv, Laps, Wraps, Needed, WriteRemains, Stored, N
<1>3. ASSUME NEW at, NEW w, NEW e, Layout(at, w, e)
      PROVE  Layout(at, w, e)'
  <2>1. Counted' = Counted /\ Pending' = Pending
    BY DEF Counted, Pending
  <2>. QED BY <1>3, <2>1, SameLayout
<1>. QED BY <1>1, <1>2, <1>3 DEF Inv

LEMMA NextKeeps == Inv /\ [Next]_vars => Inv'
<1>. SUFFICES ASSUME Inv, [Next]_vars
              PROVE  Inv'
  OBVIOUS
<1>1. CASE Writer
  BY <1>1, WriteKeeps, QuietWriterKeeps, MarkKeeps, LapKeeps, CopyKeeps, AddKeeps DEF Writer
<1>2. CASE Reader
  BY <1>2, QuietReaderKeeps, FetchKeeps, HandleKeeps, TakeKeeps DEF Reader
<1>3. CASE Done \/ UNCHANGED vars
  BY <1>3, StutterKeeps DEF Done
<1>. QED BY <1>1, <1>2, <1>3 DEF Next

\* The invariant holds at every step of either thread.
THEOREM Invariance == Spec => []Inv
BY InitInv, NextKeeps, PTL DEF Spec

\* cmdbuf_len never exceeds the buffer and is never taken below nothing, and both
\* positions stay within it, whatever the sizes (qcommon/threads.cpp:243-361).
THEOREM TypeCorrect == Spec => []TypeOK
<1>1. Inv => TypeOK
  BY DEF Inv
<1>. QED BY <1>1, Invariance, PTL

-----------------------------------------------------------------------------
\* What is accepted and not handled.
Waiting == SubSeq(accepted, H + 1, N)
Finishing == wpc \in {"finish", "finishing"}

LEMMA RestFacts ==
  ASSUME NEW s \in Seq(Commands), NEW h \in Nat, h <= Len(s)
  PROVE  /\ SubSeq(s, h + 1, Len(s)) \in Seq(Commands)
         /\ Len(SubSeq(s, h + 1, Len(s))) = Len(s) - h
         /\ \A i \in 1 .. Len(s) - h : SubSeq(s, h + 1, Len(s))[i] = s[h + i]
<1>1. Len(s) \in Nat /\ h + 1 \in Int /\ Len(s) \in Int /\ \A i \in h + 1 .. Len(s) : s[i] \in Commands
  OBVIOUS
<1>2. /\ SubSeq(s, h + 1, Len(s)) \in Seq(Commands)
      /\ Len(SubSeq(s, h + 1, Len(s))) = IF h + 1 <= Len(s) THEN Len(s) - (h + 1) + 1 ELSE 0
      /\ \A i \in 1 .. Len(s) - (h + 1) + 1 : SubSeq(s, h + 1, Len(s))[i] = s[(h + 1) + i - 1]
  BY <1>1, SubSeqProperties
<1>3. Len(s) - (h + 1) + 1 = Len(s) - h /\ (h + 1 <= Len(s) \/ Len(s) - h = 0)
  BY <1>1
<1>4. ASSUME NEW i \in 1 .. Len(s) - h
      PROVE  SubSeq(s, h + 1, Len(s))[i] = s[h + i]
  <2>1. (h + 1) + i - 1 = h + i
    OBVIOUS
  <2>. QED BY <1>2, <1>3, <2>1
<1>. QED BY <1>2, <1>3, <1>4

LEMMA WaitingFacts ==
  ASSUME TypeOK, H <= N
  PROVE  Waiting \in Seq(Commands) /\ Len(Waiting) = N - H
         /\ \A i \in 1 .. N - H : Waiting[i] = accepted[H + i]
<1>1. accepted \in Seq(Commands) /\ H \in Nat
  BY TypeFacts DEF TypeOK
<1>. QED BY <1>1, RestFacts DEF Waiting, N

\* A command accepted is the last of those that wait.
LEMMA AddAccepts ==
  ASSUME Inv, Add
  PROVE  Queue!Accept
<1>1. TypeOK /\ H <= N /\ wcmd \in Commands /\ TypeOK' /\ H' <= N'
  <2>1. Inv'
    BY AddKeeps
  <2>. QED BY <2>1 DEF Inv, ReaderInv, WriterInv, Writing, Add
<1>2. /\ H \in Nat /\ N \in Nat /\ H' = H /\ N' = N + 1
      /\ accepted'[N + 1] = wcmd /\ \A i \in 1 .. N : accepted'[i] = accepted[i]
  <2>1. accepted \in Seq(Commands) /\ accepted' = Append(accepted, wcmd) /\ handled' = handled
    BY <1>1 DEF TypeOK, Add
  <2>. QED BY <1>1, <2>1, AppendProperties, TypeFacts DEF H, N
<1>3. Waiting' \in Seq(Commands) /\ Len(Waiting') = N + 1 - H
      /\ \A i \in 1 .. N + 1 - H : Waiting'[i] = accepted'[H + i]
  <2>1. /\ Waiting' \in Seq(Commands) /\ Len(Waiting') = N' - H'
        /\ \A i \in 1 .. N' - H' : Waiting'[i] = accepted'[H' + i]
    <3>1. accepted' \in Seq(Commands) /\ H' \in Nat /\ H' <= Len(accepted') /\ N' = Len(accepted')
      BY <1>1, <1>2 DEF TypeOK, N
    <3>2. Waiting' = SubSeq(accepted', H' + 1, Len(accepted'))
      BY DEF Waiting, N
    <3>. QED BY <3>1, <3>2, RestFacts
  <2>. QED BY <1>2, <2>1
<1>4. /\ Waiting \in Seq(Commands) /\ Len(Waiting) = N - H
      /\ \A i \in 1 .. N - H : Waiting[i] = accepted[H + i]
  BY <1>1, WaitingFacts
<1>5. Waiting' = Append(Waiting, wcmd)
  <2>1. /\ Append(Waiting, wcmd) \in Seq(Commands) /\ Len(Append(Waiting, wcmd)) = N - H + 1
        /\ \A i \in 1 .. N - H : Append(Waiting, wcmd)[i] = Waiting[i]
        /\ Append(Waiting, wcmd)[N - H + 1] = wcmd
    BY <1>1, <1>4, AppendProperties
  <2>2. ASSUME NEW i \in 1 .. N + 1 - H
        PROVE  Waiting'[i] = Append(Waiting, wcmd)[i]
    <3>1. CASE i = N - H + 1
      <4>1. H + i = N + 1
        BY <1>1, <1>2, <3>1
      <4>. QED BY <1>2, <1>3, <2>1, <3>1, <4>1
    <3>2. CASE i # N - H + 1
      <4>1. i \in 1 .. N - H /\ H + i \in 1 .. N
        BY <1>1, <1>2, <3>2
      <4>. QED BY <1>2, <1>3, <1>4, <2>1, <4>1
    <3>. QED BY <3>1, <3>2
  <2>3. N - H + 1 = N + 1 - H
    BY <1>2
  <2>. QED BY <1>3, <2>1, <2>2, <2>3, SeqEqual
<1>6. ~Finishing /\ Finishing' = Finishing /\ handled' = handled
  BY DEF Add, Finishing
<1>7. wcmd \in Commands /\ ~Finishing /\ Waiting' = Append(Waiting, wcmd) /\ handled' = handled
      /\ Finishing' = Finishing
  BY <1>1, <1>5, <1>6
<1>. QED BY <1>7 DEF Queue!Accept, Waiting, Finishing, H, N

\* The command handled is the first of those that wait.
LEMMA HandleHandles ==
  ASSUME Inv, Handle
  PROVE  Queue!Handle
<1>1. TypeOK /\ H < N /\ handled' = Append(handled, accepted[H + 1]) /\ accepted' = accepted
      /\ H \in Nat /\ N \in Nat /\ accepted[H + 1] \in Commands
  BY HandledFacts, TypeFacts DEF Inv, Handle
<1>2. H' = H + 1 /\ N' = N
  <2>1. handled \in Seq(Commands \cup {NoCommand})
    BY <1>1 DEF TypeOK
  <2>. QED BY <1>1, <2>1, AppendProperties DEF H, N
<1>3. Head(Waiting) = accepted[H + 1] /\ Tail(Waiting) = SubSeq(accepted, (H + 1) + 1, N)
  <2>1. accepted \in Seq(Commands) /\ H + 1 \in 1 .. Len(accepted) /\ N \in H + 1 .. Len(accepted)
    BY <1>1 DEF TypeOK, N
  <2>. QED BY <2>1, HeadTailOfSubSeq DEF Waiting
<1>4. Waiting # <<>>
  <2>1. Len(Waiting) = N - H
    BY <1>1, WaitingFacts
  <2>. QED BY <1>1, <2>1
<1>5. Waiting' = Tail(Waiting) /\ handled' = Append(handled, Head(Waiting)) /\ Finishing' = Finishing
  BY <1>1, <1>2, <1>3 DEF Waiting, Finishing, Handle, writer
<1>. QED BY <1>4, <1>5 DEF Queue!Handle, Waiting, Finishing, H, N

\* Finish returns when none waits.
LEMMA FinishTestFinishes ==
  ASSUME Inv, FinishTest
  PROVE  Queue!Finished \/ UNCHANGED <<Waiting, handled, Finishing>>
<1>1. /\ TypeOK /\ ReaderInv /\ UNCHANGED <<accepted, handled>> /\ wpc = "finish"
      /\ wpc' = IF cmdbuf_len = 0 \/ terminated THEN "finished" ELSE "finishing"
  BY DEF Inv, FinishTest, reader
<1>2. H \in Nat /\ N \in Nat /\ H <= N /\ Pending \in Nat /\ UNCHANGED Waiting
  BY <1>1, TypeFacts DEF ReaderInv, Waiting, H, N
<1>3. CASE terminated
  <2>1. Waiting = <<>>
    BY <1>1, <1>2, <1>3, SubSeqEmpty DEF ReaderInv, Waiting
  <2>. QED BY <1>1, <1>2, <1>3, <2>1 DEF Queue!Finished, Waiting, Finishing, H, N
<1>4. CASE ~terminated /\ cmdbuf_len = 0
  <2>1. PICK at, w, e : Layout(at, w, e)
    BY <1>4 DEF Inv
  <2>2. cmdbuf_len = Used(w, e) + Pending
    BY <2>1 DEF Layout
  <2>3. Used(w, e) \in Nat /\ (H < N => Used(w, e) > 0)
    BY <1>1, <1>2, <2>1, UsedFacts
  <2>4. H = N
    BY <1>2, <1>4, <2>2, <2>3
  <2>5. Waiting = <<>>
    BY <1>2, <2>4, SubSeqEmpty DEF Waiting
  <2>. QED BY <1>1, <1>2, <1>4, <2>5 DEF Queue!Finished, Waiting, Finishing, H, N
<1>5. CASE ~terminated /\ cmdbuf_len # 0
  BY <1>1, <1>2, <1>5 DEF Finishing
<1>. QED BY <1>3, <1>4, <1>5

\* Every step of the pipe is a step of the queue or none at all.
LEMMA StepRefines == Inv /\ [Next]_vars => [Queue!Next]_Queue!vars
<1>. SUFFICES ASSUME Inv, [Next]_vars
              PROVE  Queue!Next \/ UNCHANGED <<Waiting, handled, Finishing>>
  BY DEF Queue!vars, Waiting, Finishing, H, N
<1>1. CASE Add
  BY <1>1, AddAccepts DEF Queue!Next
<1>2. CASE Handle
  BY <1>2, HandleHandles DEF Queue!Next
<1>3. CASE FinishTest
  BY <1>3, FinishTestFinishes DEF Queue!Next
<1>4. CASE WakeReader \/ Finish
  <2>1. UNCHANGED <<Waiting, handled>>
    BY <1>4 DEF WakeReader, Finish, Waiting, H, N
  <2>2. Finishing' = TRUE \/ Finishing' = Finishing
    BY <1>4 DEF WakeReader, Finish, Finishing
  <2>. QED BY <2>1, <2>2 DEF Queue!Next, Queue!Finish, Waiting, Finishing, H, N
<1>5. CASE WriteCmd \/ WriteQuit \/ Room \/ Mark \/ Lap \/ Copy \/ FinishWake
  <2>1. UNCHANGED <<accepted, handled>>
    BY <1>5 DEF WriteCmd, WriteQuit, Write, Room, Mark, Lap, Copy, FinishWake
  <2>2. Finishing' = Finishing
    BY <1>5 DEF WriteCmd, WriteQuit, Write, Free, writer, Room, Mark, Lap, Copy, FinishWake, Finishing
  <2>. QED BY <2>1, <2>2 DEF Waiting, H, N
<1>6. CASE WaitTest \/ Sleep \/ TimeOut \/ SpuriousWake \/ ReadTest \/ Fetch \/ Unlap \/ Consume
  <2>1. UNCHANGED <<accepted, handled, wpc>>
    BY <1>6 DEF WaitTest, Sleep, TimeOut, SpuriousWake, ReadTest, Fetch, Unlap, Consume, writer
  <2>. QED BY <2>1 DEF Waiting, Finishing, H, N
<1>7. CASE Done \/ UNCHANGED vars
  BY <1>7 DEF Done, vars, pipe, writer, Waiting, Finishing, H, N
<1>. QED BY <1>1, <1>2, <1>3, <1>4, <1>5, <1>6, <1>7 DEF Next, Writer, Reader

\* The pipe is a queue, but for liveness: what QBufPipe_WriteCmd has accepted is handled
\* in order, once and whole, and QBufPipe_Finish returns when nothing waits.
THEOREM QueueSafety == Spec => Queue!Init /\ [][Queue!Next]_Queue!vars
<1>1. Init => Queue!Init
  <2>. SUFFICES ASSUME Init
                PROVE  Queue!Init
    OBVIOUS
  <2>1. H = 0 /\ N = 0
    BY DEF Init, H, N
  <2>2. Waiting = <<>>
    BY <2>1, SubSeqEmpty DEF Waiting
  <2>. QED BY <2>2 DEF Init, Queue!Init, Waiting, H, N
<1>. QED BY <1>1, Invariance, StepRefines, PTL DEF Spec
=============================================================================
