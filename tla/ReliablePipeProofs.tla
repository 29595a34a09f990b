------------------------- MODULE ReliablePipeProofs -------------------------
(***************************************************************************)
(* What ReliablePipe guarantees for any number of reports, fields, faults, *)
(* crashes and restarts.                                                   *)
(***************************************************************************)
EXTENDS ReliablePipe, SequenceTheorems, FiniteSetTheorems, TLAPS

\* The inductive invariant.  Threads: the writer holds the first report of the
\* pipe, ends with an empty pipe, and a closed pipe leaves no transaction.
ThreadInv ==
  /\ writer.pc \in {"begin", "push", "commit"} => pipe # <<>>
  /\ writer.pc = "ended" => pipe = <<>>
  /\ writer.last \/ writer.pc = "ended" => phase # "running"
  /\ phase = "closed" => /\ lock = "none" /\ request = "none"
                        /\ writer.pc \in {"loop", "ended"} /\ sender.pc \in {"loop", "ended"}

\* A report in the pipe is there once, and neither stored nor sent yet.
Fresh(r) == r \notin db.pending \cup db.failed /\ received[r] = 0
PipeInv ==
  /\ \A i, j \in 1 .. Len(pipe) : pipe[i] = pipe[j] => i = j
  /\ \A i \in 1 .. Len(pipe) : pipe[i] \in enqueued /\ Fresh(pipe[i])
  /\ \A r \in Reports : ~Fresh(r) => r \in enqueued

\* What a transaction would commit is the database with one report inserted,
\* or with one taken out that the service has or that is set aside.
WriterTxn ==
  IF writer.ok THEN txn = Inserted(db, Head(pipe), Fields)
  ELSE txn = db \/ \E n \in 0 .. Fields - 1 : txn = Inserted(db, Head(pipe), n)
SenderTxn ==
  \/ txn = db
  \/ \E r \in db.pending : \/ txn = MarkAsFailed(db, r)
                           \/ received[r] > 0 /\ txn = MarkAsSent(db, r)
TxnInv ==
  /\ lock = "none" \/ writer.pc = "push" => txn = db
  /\ writer.pc = "commit" => WriterTxn
  /\ sender.pc \in {"fetch", "send", "poll", "mark"} => txn = db
  /\ sender.pc \in {"send", "poll", "mark"} => sender.active \in db.pending
  /\ request = "accepted" => received[sender.active] > 0
  /\ sender.pc = "mark" => /\ sender.answer # "none"
                           /\ sender.answer = "sent" => received[sender.active] > 0
  /\ sender.pc = "commit" => SenderTxn

Inv == TypeOK /\ ThreadInv /\ PipeInv /\ TxnInv /\ NothingForgotten

\* The service has the report, and the sender is about to take it out of the database.
InHand(r) ==
  \/ /\ sender.active = r
     /\ request = "accepted" \/ (sender.pc = "mark" /\ sender.answer = "sent")
  \/ sender.pc = "commit" /\ r \notin txn.pending

\* Reports that will be sent again though the service has them: each has cost a fault
\* already, and so has each copy that came.
Due == {r \in db.pending : received[r] > 0 /\ ~InHand(r)}
CopyInv ==
  /\ IsFiniteSet(Copies) /\ IsFiniteSet(Due)
  /\ Cardinality(Copies) + Cardinality(Due) <= faults

-----------------------------------------------------------------------------
(* The operations on the database *)

\* Each changes the rows of its report and no other.
LEMMA Rows ==
  ASSUME NEW t \in Database, NEW r \in Reports, NEW n \in 0 .. Fields
  PROVE  /\ Inserted(t, r, n) \in Database
         /\ Inserted(t, r, n).pending = t.pending \cup {r}
         /\ Inserted(t, r, n).failed = t.failed
         /\ Inserted(t, r, n).fields[r] = n
         /\ \A q \in Reports \ {r} : Inserted(t, r, n).fields[q] = t.fields[q]
         /\ MarkAsSent(t, r) \in Database
         /\ MarkAsSent(t, r).pending = t.pending \ {r}
         /\ MarkAsSent(t, r).failed = t.failed
         /\ \A q \in Reports \ {r} : MarkAsSent(t, r).fields[q] = t.fields[q]
         /\ MarkAsFailed(t, r) \in Database
         /\ MarkAsFailed(t, r).pending = t.pending \ {r}
         /\ MarkAsFailed(t, r).failed = t.failed \cup {r}
         /\ MarkAsFailed(t, r).fields = t.fields
<1>1. /\ t.pending \in SUBSET Reports /\ t.failed \in SUBSET Reports
      /\ t.fields \in [Reports -> 0 .. Fields] /\ 0 \in 0 .. Fields
  BY SizeAssumption DEF Database
<1>2. /\ [t.fields EXCEPT ![r] = n] \in [Reports -> 0 .. Fields]
      /\ [t.fields EXCEPT ![r] = 0] \in [Reports -> 0 .. Fields]
  BY <1>1
<1> QED BY <1>1, <1>2 DEF Inserted, MarkAsSent, MarkAsFailed, Tables, Database

\* The pipe as a function on 1 .. Len(pipe).
LEMMA PipeRange ==
  ASSUME TypeOK
  PROVE  /\ Range(pipe) = {pipe[i] : i \in 1 .. Len(pipe)}
         /\ \A i \in 1 .. Len(pipe) : pipe[i] \in Reports
         /\ pipe # <<>> => Len(pipe) >= 1 /\ Head(pipe) = pipe[1]
BY DEF TypeOK, Range

LEMMA InvInit == Init => Inv
<1> SUFFICES ASSUME Init PROVE Inv
  OBVIOUS
<1> USE SizeAssumption DEF Init
<1>1. TypeOK
  BY DEF TypeOK, Exclusive, WriterState, SenderState, NewWriter, NewSender, Database, NoRows, Tables
<1>2. ThreadInv
  BY DEF ThreadInv, NewWriter
<1>3. PipeInv
  BY DEF PipeInv, Fresh, NoRows, Tables
<1>4. TxnInv
  BY DEF TxnInv, NewWriter, NewSender
<1>5. NothingForgotten
  BY DEF NothingForgotten
<1> QED BY <1>1, <1>2, <1>3, <1>4, <1>5 DEF Inv

-----------------------------------------------------------------------------
(* The server's thread *)

LEMMA EnqueueStep ==
  ASSUME Inv, NEW r \in Reports, EnqueueMatchReport(r)
  PROVE  Inv'
<1> USE DEF EnqueueMatchReport, storage, service, Inv
<1>1. TypeOK'
  BY DEF TypeOK, Exclusive
<1>2. /\ Len(pipe') = Len(pipe) + 1
      /\ \A i \in 1 .. Len(pipe) : pipe'[i] = pipe[i]
      /\ pipe'[Len(pipe) + 1] = r
      /\ Len(pipe) \in Nat
      /\ pipe # <<>> => Head(pipe') = Head(pipe)
  BY DEF TypeOK
<1>3. ThreadInv'
  BY <1>2 DEF ThreadInv
<1>4. PipeInv'
  BY <1>2 DEF PipeInv, Fresh
<1>5. TxnInv'
  BY <1>2 DEF TxnInv, WriterTxn, SenderTxn, ThreadInv
<1>6. Range(pipe') = Range(pipe) \cup {r}
  <2>1. Range(pipe) = {pipe[i] : i \in 1 .. Len(pipe)}
    BY PipeRange
  <2>2. Range(pipe') = {pipe'[i] : i \in 1 .. Len(pipe) + 1}
    BY <1>1, <1>2, SMTT(20) DEF Range, TypeOK
  <2> QED BY <1>2, <2>1, <2>2
<1>7. NothingForgotten'
  BY <1>6 DEF NothingForgotten
<1> QED BY <1>1, <1>3, <1>4, <1>5, <1>7

LEMMA ServerStep ==
  ASSUME Inv, SignalForTermination \/ JoinThreads \/ Restart
  PROVE  Inv'
<1> USE DEF storage, service, history, Inv
<1>1. CASE SignalForTermination
  BY <1>1 DEF SignalForTermination, TypeOK, Exclusive, ThreadInv, PipeInv, Fresh, TxnInv,
    WriterTxn, SenderTxn, NothingForgotten
<1>2. CASE JoinThreads
  <2> USE <1>2 DEF JoinThreads
  <2>1. pipe = <<>> /\ lock = "none" /\ request = "none"
    BY DEF ThreadInv, TypeOK, Exclusive
  <2>2. TypeOK'
    BY DEF TypeOK, Exclusive
  <2>3. ThreadInv'
    BY <2>1 DEF ThreadInv
  <2>4. PipeInv'
    BY <2>1 DEF PipeInv, Fresh
  <2>5. TxnInv'
    BY DEF TxnInv, WriterTxn, SenderTxn
  <2>6. NothingForgotten'
    BY <2>1 DEF NothingForgotten
  <2> QED BY <2>2, <2>3, <2>4, <2>5, <2>6
<1>3. CASE Restart
  <2> USE <1>3 DEF Restart
  <2>1. lock = "none" /\ request = "none"
    BY DEF ThreadInv
  <2>2. TypeOK'
    BY <2>1, SizeAssumption DEF TypeOK, Exclusive, NewWriter, NewSender, WriterState, SenderState
  <2>3. ThreadInv'
    BY DEF ThreadInv, NewWriter
  <2>4. PipeInv'
    BY DEF PipeInv, Fresh
  <2>5. TxnInv'
    BY <2>1 DEF TxnInv, NewWriter, NewSender
  <2>6. NothingForgotten'
    BY DEF NothingForgotten
  <2> QED BY <2>2, <2>3, <2>4, <2>5, <2>6
<1> QED BY <1>1, <1>2, <1>3

LEMMA DieStep ==
  ASSUME Inv, Crash \/ PushAgain
  PROVE  Inv'
<1>1. Die /\ faults' \in 0 .. MaxFaults
  BY SizeAssumption DEF Crash, PushAgain, Fault, Inv, TypeOK
<1> USE <1>1 DEF Die, Inv
<1>2. Range(pipe) \subseteq Reports
  BY PipeRange
<1>3. TypeOK'
  BY <1>2 DEF TypeOK, Exclusive, NewWriter, NewSender, WriterState, SenderState
<1>4. ThreadInv'
  BY DEF ThreadInv, NewWriter, NewSender
<1>5. PipeInv'
  BY DEF PipeInv, Fresh
<1>6. TxnInv'
  BY DEF TxnInv, NewWriter, NewSender
<1>7. NothingForgotten'
  BY DEF NothingForgotten
<1> QED BY <1>3, <1>4, <1>5, <1>6, <1>7

-----------------------------------------------------------------------------
(* The writer's thread *)

\* Fault counts one more, within the bound.
LEMMA FaultCounted ==
  ASSUME TypeOK, Fault \/ UNCHANGED faults
  PROVE  faults' \in 0 .. MaxFaults
BY SizeAssumption DEF TypeOK, Fault

LEMMA WriterQuietStep ==
  ASSUME Inv, WriterLoop \/ ReadCmds \/ WriterBegin
  PROVE  Inv'
<1> USE DEF storage, service, WriterRest, Inv
<1>1. CASE WriterLoop
  <2> USE <1>1 DEF WriterLoop
  <2>1. TypeOK'
    BY DEF TypeOK, Exclusive, WriterState
  <2>2. ThreadInv' /\ PipeInv' /\ TxnInv' /\ NothingForgotten'
    BY DEF ThreadInv, PipeInv, Fresh, TxnInv, WriterTxn, SenderTxn, NothingForgotten, TypeOK, WriterState
  <2> QED BY <2>1, <2>2
<1>2. CASE ReadCmds
  <2> USE <1>2 DEF ReadCmds
  <2>1. TypeOK'
    BY DEF TypeOK, Exclusive, WriterState
  <2>2. ThreadInv'
    BY DEF ThreadInv, TypeOK, WriterState
  <2>3. PipeInv' /\ TxnInv' /\ NothingForgotten'
    BY DEF PipeInv, Fresh, TxnInv, WriterTxn, SenderTxn, NothingForgotten, TypeOK, WriterState
  <2> QED BY <2>1, <2>2, <2>3
<1>3. CASE WriterBegin
  <2> USE <1>3 DEF WriterBegin, Begin
  <2>1. TypeOK'
    BY DEF TypeOK, Exclusive, WriterState
  <2>2. /\ sender.pc \notin {"fetch", "send", "poll", "mark", "commit"}
        /\ writer' = [writer EXCEPT !.pc = "push"] /\ writer'.pc = "push"
        /\ writer'.last = writer.last /\ txn = db
    BY DEF TypeOK, Exclusive, TxnInv, WriterState
  <2>3. ThreadInv'
    BY <2>2 DEF ThreadInv
  <2>4. PipeInv' /\ NothingForgotten'
    BY DEF PipeInv, Fresh, NothingForgotten
  <2>5. TxnInv'
    BY <2>2 DEF TxnInv
  <2> QED BY <2>1, <2>3, <2>4, <2>5
<1> QED BY <1>1, <1>2, <1>3

LEMMA PushStep ==
  ASSUME Inv, Push
  PROVE  Inv'
<1> USE DEF Push, service, WriterRest, Inv
<1>1. txn = db /\ pipe # <<>> /\ Head(pipe) \in Reports
  BY PipeRange DEF TxnInv, ThreadInv
<1>2. txn' \in Database
  BY <1>1, Rows, SizeAssumption, SMTT(20) DEF TypeOK
<1>3. TypeOK'
  BY <1>2, FaultCounted DEF TypeOK, Exclusive, WriterState
<1>4. ThreadInv'
  BY DEF ThreadInv, TypeOK, WriterState
<1>5. PipeInv' /\ NothingForgotten'
  BY DEF PipeInv, Fresh, NothingForgotten
<1>6. TxnInv'
  <2>1. WriterTxn'
    BY <1>1 DEF WriterTxn, TypeOK, WriterState
  <2> QED BY <2>1 DEF TxnInv, TypeOK, WriterState, Exclusive
<1> QED BY <1>3, <1>4, <1>5, <1>6

\* What the writer commits is the database as it was, or with its report inserted.
LEMMA WriterCommits ==
  ASSUME Inv, writer.pc = "commit"
  PROVE  /\ pipe # <<>> /\ Head(pipe) \in Reports
         /\ txn.failed = db.failed
         /\ txn.pending \in {db.pending, db.pending \cup {Head(pipe)}}
         /\ \A q \in Reports \ {Head(pipe)} : txn.fields[q] = db.fields[q]
         /\ writer.ok => Head(pipe) \in txn.pending /\ txn.fields[Head(pipe)] = Fields
<1>1. pipe # <<>> /\ Head(pipe) \in Reports /\ db \in Database /\ WriterTxn
  BY PipeRange DEF Inv, ThreadInv, TxnInv, TypeOK
<1>2. CASE txn = db /\ ~writer.ok
  BY <1>1, <1>2
<1>3. ASSUME NEW n \in 0 .. Fields, txn = Inserted(db, Head(pipe), n), writer.ok => n = Fields
      PROVE  /\ txn.failed = db.failed
             /\ txn.pending = db.pending \cup {Head(pipe)}
             /\ \A q \in Reports \ {Head(pipe)} : txn.fields[q] = db.fields[q]
             /\ txn.fields[Head(pipe)] = n
  BY <1>1, <1>3, Rows, SMTT(20)
<1>4. \/ txn = db /\ ~writer.ok
      \/ \E n \in 0 .. Fields : txn = Inserted(db, Head(pipe), n) /\ (writer.ok => n = Fields)
  BY <1>1, SizeAssumption DEF WriterTxn
<1> QED BY <1>1, <1>2, <1>3, <1>4

LEMMA WriterCommitStep ==
  ASSUME Inv, WriterCommit
  PROVE  Inv'
<1> DEFINE r == Head(pipe)
<1> USE DEF service, WriterRest, Inv
<1>1. /\ writer.pc = "commit" /\ pipe # <<>> /\ r \in Reports
  BY WriterCommits DEF WriterCommit
<1>2. CASE Fault /\ Rollback /\ UNCHANGED <<pipe, dropped>> /\ writer' = [writer EXCEPT !.pc = "begin"]
  <2> USE <1>2 DEF Rollback
  <2>1. TypeOK'
    BY <1>1, FaultCounted DEF WriterCommit, TypeOK, Exclusive, WriterState
  <2>2. ThreadInv' /\ PipeInv' /\ TxnInv' /\ NothingForgotten'
    BY <1>1 DEF WriterCommit, ThreadInv, PipeInv, Fresh, TxnInv, WriterTxn, SenderTxn, NothingForgotten,
                TypeOK, WriterState, Exclusive
  <2> QED BY <2>1, <2>2
<1>3. CASE /\ Commit
           /\ writer' = [writer EXCEPT !.pc = "read"]
           /\ dropped' = IF writer.ok THEN dropped ELSE dropped \cup {Head(pipe)}
           /\ pipe' = Tail(pipe)
           /\ UNCHANGED faults
  <2> USE <1>3 DEF Commit
  <2>r. WriterRest /\ UNCHANGED <<enqueued, received, request, sender, phase>>
    BY DEF WriterCommit
  <2>1. /\ Len(pipe') = Len(pipe) - 1
        /\ \A i \in 1 .. Len(pipe) - 1 : pipe'[i] = pipe[i + 1]
        /\ Len(pipe) \in Nat /\ Len(pipe) >= 1 /\ r = pipe[1]
        /\ pipe' \in Seq(Reports)
    BY <1>1, PipeRange DEF TypeOK
  <2>2. TypeOK'
    BY <1>1, <2>1, <2>r DEF WriterCommit, TypeOK, Exclusive, WriterState
  <2>3. ThreadInv'
    BY <1>1, <2>r DEF ThreadInv, TypeOK, WriterState
  <2>4. /\ db'.failed = db.failed
        /\ db'.pending \in {db.pending, db.pending \cup {r}}
        /\ \A q \in Reports \ {r} : db'.fields[q] = db.fields[q]
        /\ writer.ok => r \in db'.pending /\ db'.fields[r] = Fields
    BY <1>1, WriterCommits
  <2>5. \A q \in Reports \ {r} : Fresh(q)' = Fresh(q)
    BY <2>4, <2>r DEF Fresh
  <2>6. PipeInv'
    <3>1. \A i \in 1 .. Len(pipe') : pipe'[i] \in Reports \ {r}
      BY <2>1, PipeRange DEF PipeInv
    <3>2. r \in enqueued
      BY <2>1 DEF PipeInv
    <3> QED BY <2>1, <2>5, <2>r, <3>1, <3>2 DEF PipeInv
  <2>7. TxnInv'
    BY <1>1, <2>r DEF TxnInv, TypeOK, Exclusive, WriterState
  <2>8. NothingForgotten'
    <3> SUFFICES ASSUME NEW q \in enqueued
                 PROVE  \/ q \in Range(pipe')
                        \/ q \in db'.pending /\ db'.fields[q] = Fields
                        \/ q \in db'.failed
                        \/ received[q] > 0
                        \/ q \in dropped' \cup lost
      BY <2>r DEF NothingForgotten, WriterCommit
    <3>1. CASE q = r
      BY <2>4, <3>1
    <3>2. CASE q # r
      <4>1. q \in Reports
        BY DEF TypeOK
      <4>2. q \in Range(pipe) => q \in Range(pipe')
        <5> SUFFICES ASSUME NEW i \in 1 .. Len(pipe), q = pipe[i] PROVE q \in Range(pipe')
          BY PipeRange
        <5>1. i - 1 \in 1 .. Len(pipe') /\ pipe'[i - 1] = q
          BY <2>1, <3>2
        <5> QED BY <2>1, <5>1 DEF Range
      <4> QED BY <2>4, <3>2, <4>1, <4>2 DEF NothingForgotten
    <3> QED BY <3>1, <3>2
  <2> QED BY <2>2, <2>3, <2>6, <2>7, <2>8
<1> QED BY <1>2, <1>3 DEF WriterCommit

-----------------------------------------------------------------------------
(* The sender's thread *)

LEMMA SenderQuietStep ==
  ASSUME Inv, SenderLoop \/ SenderBegin \/ SenderBusy
  PROVE  Inv'
<1> USE DEF storage, service, SenderRest, Inv
<1>1. CASE SenderLoop \/ SenderBusy
  <2>1. /\ sender.pc \in {"loop", "begin"} /\ sender'.pc \in {"loop", "begin", "ended"}
        /\ sender' \in SenderState /\ (phase = "closed" => sender'.pc \in {"loop", "ended"})
        /\ UNCHANGED <<storage, service, faults>> /\ SenderRest
    BY <1>1 DEF SenderLoop, SenderBusy, TypeOK, SenderState, ThreadInv
  <2>2. TypeOK'
    BY <2>1 DEF TypeOK, Exclusive
  <2>3. ThreadInv'
    BY <2>1 DEF ThreadInv
  <2>4. PipeInv' /\ NothingForgotten'
    BY <2>1 DEF PipeInv, Fresh, NothingForgotten
  <2>5. TxnInv'
    BY <2>1 DEF TxnInv, WriterTxn, TypeOK, Exclusive
  <2> QED BY <2>2, <2>3, <2>4, <2>5
<1>2. CASE SenderBegin
  <2> USE <1>2 DEF SenderBegin, Begin
  <2>1. /\ sender' \in SenderState /\ sender'.pc = "fetch"
        /\ writer.pc \notin {"push", "commit"} /\ txn = db /\ request = "none"
    BY DEF TypeOK, Exclusive, TxnInv, SenderState
  <2>2. TypeOK'
    BY <2>1 DEF TypeOK, Exclusive
  <2>3. ThreadInv'
    BY <2>1 DEF ThreadInv
  <2>4. PipeInv' /\ NothingForgotten'
    BY DEF PipeInv, Fresh, NothingForgotten
  <2>5. TxnInv'
    BY <2>1 DEF TxnInv
  <2> QED BY <2>2, <2>3, <2>4, <2>5
<1> QED BY <1>1, <1>2

LEMMA FetchStep ==
  ASSUME Inv, Fetch \/ SendForStatusPolling
  PROVE  Inv'
<1> USE DEF storage, service, SenderRest, Inv
<1>0. /\ sender.pc \in {"fetch", "send"} /\ lock = "sender" /\ txn = db
      /\ writer.pc \notin {"push", "commit"} /\ request = "none" /\ phase # "closed"
  BY DEF Fetch, FetchNext, FetchNothing, SendForStatusPolling, TypeOK, Exclusive, TxnInv, ThreadInv
<1>1. /\ sender' \in SenderState
      /\ \/ sender'.pc = "send" /\ sender'.active \in db.pending /\ UNCHANGED request
         \/ sender'.pc = "commit" /\ UNCHANGED request
         \/ sender'.pc = "poll" /\ sender'.active \in db.pending /\ request' = "travelling"
         \/ /\ sender'.pc = "mark" /\ sender'.active \in db.pending /\ sender'.answer = "failed"
            /\ UNCHANGED request
      /\ UNCHANGED <<storage, received, refused>> /\ SenderRest
      /\ faults' \in 0 .. MaxFaults
  <2>1. CASE FetchNothing
    BY <2>1, FaultCounted DEF FetchNothing, TypeOK, SenderState
  <2>2. CASE \E r \in Reports : FetchNext(r)
    BY <1>0, <2>2 DEF FetchNext, TypeOK, SenderState
  <2>3. CASE SendForStatusPolling
    BY <2>3, FaultCounted DEF SendForStatusPolling, TypeOK, SenderState, TxnInv
  <2> QED BY <2>1, <2>2, <2>3 DEF Fetch
<1>2. TypeOK'
  BY <1>0, <1>1 DEF TypeOK, Exclusive
<1>3. ThreadInv'
  BY <1>0, <1>1 DEF ThreadInv
<1>4. PipeInv' /\ NothingForgotten'
  BY <1>1 DEF PipeInv, Fresh, NothingForgotten
<1>5. TxnInv'
  BY <1>0, <1>1 DEF TxnInv, SenderTxn
<1> QED BY <1>2, <1>3, <1>4, <1>5

LEMMA ServiceStep ==
  ASSUME Inv, Service
  PROVE  Inv'
<1> DEFINE r == sender.active
<1> USE DEF threads, storage, service, Inv
<1>1. sender.pc = "poll" /\ r \in db.pending /\ r \in Reports /\ lock = "sender"
  BY DEF Service, TypeOK, Exclusive, TxnInv, Database
<1>2. /\ UNCHANGED <<threads, storage, enqueued, dropped, lost, restarts>>
      /\ faults' \in 0 .. MaxFaults
      /\ request' \in {"accepted", "refused", "busy"}
      /\ refused' \subseteq Reports
      /\ received' \in [Reports -> Nat]
      /\ \A q \in Reports \ {r} : received'[q] = received[q]
      /\ received'[r] >= received[r]
      /\ request' = "accepted" => received'[r] > 0
  BY <1>1, FaultCounted DEF Service, TypeOK
<1>3. TypeOK'
  BY <1>1, <1>2 DEF TypeOK, Exclusive
<1>4. ThreadInv'
  BY <1>1, <1>2 DEF ThreadInv
<1>5. PipeInv'
  <2>1. \A q \in Reports : q # r => Fresh(q)' = Fresh(q)
    BY <1>2 DEF Fresh
  <2>2. ~Fresh(r) /\ r \in enqueued
    BY <1>1 DEF Fresh, PipeInv
  <2>3. \A i \in 1 .. Len(pipe) : pipe[i] \in Reports \ {r}
    BY <2>2, PipeRange DEF PipeInv
  <2> QED BY <1>2, <2>1, <2>2, <2>3 DEF PipeInv
<1>6. NothingForgotten'
  BY <1>2, SMTT(20) DEF NothingForgotten, TypeOK
<1>7. TxnInv'
  BY <1>1, <1>2 DEF TxnInv, TypeOK, Exclusive
<1> QED BY <1>3, <1>4, <1>5, <1>6, <1>7

LEMMA PollStep ==
  ASSUME Inv, Poll
  PROVE  Inv'
<1> USE DEF storage, service, SenderRest, Inv
<1>1. /\ sender.pc = "poll" /\ sender.active \in db.pending /\ lock = "sender" /\ txn = db
      /\ writer.pc \notin {"push", "commit"} /\ phase # "closed"
  BY DEF Poll, TypeOK, Exclusive, TxnInv, ThreadInv
<1>2. /\ sender' \in SenderState /\ sender'.pc = "mark" /\ sender'.active = sender.active
      /\ sender'.answer # "none"
      /\ sender'.answer = "sent" => received[sender.active] > 0
      /\ faults' \in 0 .. MaxFaults
      /\ request' = "none" /\ UNCHANGED <<storage, received, refused>> /\ SenderRest
  <2>1. PICK a \in {"sent", "failed", "retry"} :
          /\ sender' = [sender EXCEPT !.pc = "mark", !.answer = a]
          /\ a = "sent" => request = "accepted"
    BY DEF Poll, Answer
  <2>2. sender \in SenderState
    BY DEF TypeOK
  <2>3. /\ sender' \in SenderState /\ sender'.pc = "mark" /\ sender'.active = sender.active
        /\ sender'.answer = a
    BY <2>1, <2>2 DEF SenderState
  <2>4. request = "accepted" => received[sender.active] > 0
    BY <1>1 DEF TxnInv
  <2>5. faults' \in 0 .. MaxFaults
    BY FaultCounted DEF Poll, Answer
  <2>6. request' = "none" /\ UNCHANGED <<storage, received, refused>> /\ SenderRest
    BY DEF Poll
  <2> QED BY <2>1, <2>3, <2>4, <2>5, <2>6
<1>3. TypeOK'
  BY <1>1, <1>2 DEF TypeOK, Exclusive
<1>4. ThreadInv'
  BY <1>1, <1>2 DEF ThreadInv
<1>5. PipeInv' /\ NothingForgotten'
  BY <1>2 DEF PipeInv, Fresh, NothingForgotten
<1>6. TxnInv'
  BY <1>1, <1>2 DEF TxnInv
<1> QED BY <1>3, <1>4, <1>5, <1>6

LEMMA MarkStep ==
  ASSUME Inv, Mark
  PROVE  Inv'
<1> USE DEF service, SenderRest, Inv
<1>1. /\ sender.pc = "mark" /\ sender.active \in db.pending /\ sender.active \in Reports
      /\ lock = "sender" /\ txn = db /\ db \in Database
      /\ writer.pc \notin {"push", "commit"} /\ request = "none" /\ phase # "closed"
      /\ sender.answer \in {"sent", "failed", "retry"}
      /\ sender.answer = "sent" => received[sender.active] > 0
  BY DEF Mark, TypeOK, Exclusive, TxnInv, ThreadInv, Database, SenderState
<1>2. /\ UNCHANGED <<db, service>> /\ SenderRest
      /\ faults' \in 0 .. MaxFaults
  BY FaultCounted DEF Mark, Rollback
<1>3. PipeInv' /\ NothingForgotten'
  BY <1>2 DEF PipeInv, Fresh, NothingForgotten
<1>4. CASE /\ txn' = CASE sender.answer = "sent"   -> MarkAsSent(txn, sender.active)
                       [] sender.answer = "failed" -> MarkAsFailed(txn, sender.active)
                       [] sender.answer = "retry"  -> txn
           /\ sender' = [NewSender EXCEPT !.pc = "commit"]
           /\ UNCHANGED <<db, lock, faults>>
  <2>1. \/ txn' = db
        \/ txn' = MarkAsFailed(db, sender.active)
        \/ received[sender.active] > 0 /\ txn' = MarkAsSent(db, sender.active)
    BY <1>1, <1>4
  <2>2. sender' \in SenderState /\ sender'.pc = "commit" /\ lock' = "sender"
    BY <1>1, <1>4 DEF NewSender, SenderState
  <2>3. txn' \in Database
    <3>1. /\ MarkAsFailed(db, sender.active) \in Database
          /\ MarkAsSent(db, sender.active) \in Database
      BY <1>1, Rows, SizeAssumption
    <3> QED BY <1>1, <2>1, <3>1
  <2>4. TypeOK'
    BY <1>1, <1>2, <2>2, <2>3 DEF TypeOK, Exclusive
  <2>5. ThreadInv'
    BY <1>1, <1>2, <2>2 DEF ThreadInv
  <2>6. SenderTxn'
    BY <1>1, <1>2, <2>1 DEF SenderTxn, MarkAsFailed, MarkAsSent
  <2>7. TxnInv'
    BY <1>1, <1>2, <2>2, <2>6 DEF TxnInv
  <2> QED BY <1>3, <2>4, <2>5, <2>7
<1>5. CASE Fault /\ Rollback /\ sender' = NewSender
  <2>1. sender' \in SenderState /\ sender'.pc = "loop" /\ lock' = "none" /\ txn' = db /\ txn' \in Database
    BY <1>1, <1>5 DEF NewSender, SenderState, Rollback
  <2>2. TypeOK'
    BY <1>1, <1>2, <2>1 DEF TypeOK, Exclusive
  <2>3. ThreadInv'
    BY <1>1, <1>2, <2>1 DEF ThreadInv
  <2>4. TxnInv'
    BY <1>1, <1>2, <2>1 DEF TxnInv
  <2> QED BY <1>3, <2>2, <2>3, <2>4
<1> QED BY <1>4, <1>5 DEF Mark

\* What the sender commits is the database as it was, or without a report that the
\* service has or that is set aside.
TakenOut(r) ==
  /\ r \in Reports /\ r \in enqueued
  /\ txn.pending = db.pending \ {r}
  /\ \A q \in Reports \ {r} : txn.fields[q] = db.fields[q]
  /\ txn.failed = db.failed \cup {r} \/ (txn.failed = db.failed /\ received[r] > 0)

LEMMA SenderCommits ==
  ASSUME Inv, sender.pc = "commit"
  PROVE  txn = db \/ \E r \in db.pending : TakenOut(r)
<1>1. SenderTxn /\ db \in Database
  BY DEF Inv, TxnInv, TypeOK
<1>2. ASSUME NEW r \in db.pending,
             txn = MarkAsFailed(db, r) \/ (received[r] > 0 /\ txn = MarkAsSent(db, r))
      PROVE  TakenOut(r)
  <2>1. r \in Reports /\ 0 \in 0 .. Fields
    BY <1>1, SizeAssumption DEF Database
  <2>2. r \in enqueued
    BY <2>1 DEF Inv, PipeInv, Fresh
  <2>3. CASE txn = MarkAsFailed(db, r)
    <3>1. /\ txn.pending = db.pending \ {r}
          /\ txn.fields = db.fields
          /\ txn.failed = db.failed \cup {r}
      BY <1>1, <2>1, <2>3, Rows
    <3> QED BY <2>1, <2>2, <3>1 DEF TakenOut
  <2>4. CASE received[r] > 0 /\ txn = MarkAsSent(db, r)
    <3>1. /\ txn.pending = db.pending \ {r}
          /\ \A q \in Reports \ {r} : txn.fields[q] = db.fields[q]
          /\ txn.failed = db.failed
      BY <1>1, <2>1, <2>4, Rows, SMTT(20)
    <3> QED BY <2>1, <2>2, <2>4, <3>1 DEF TakenOut
  <2> QED BY <1>2, <2>3, <2>4
<1> QED BY <1>1, <1>2 DEF SenderTxn

LEMMA SenderCommitStep ==
  ASSUME Inv, SenderCommit
  PROVE  Inv'
<1> USE DEF service, SenderRest, Inv
<1>1. /\ sender.pc = "commit" /\ lock = "sender" /\ txn \in Database
      /\ writer.pc \notin {"push", "commit"} /\ request = "none" /\ phase # "closed"
  BY DEF SenderCommit, TypeOK, Exclusive, ThreadInv
<1>2. /\ sender' \in SenderState /\ sender'.pc = "loop" /\ lock' = "none" /\ txn' = db'
      /\ UNCHANGED service /\ SenderRest
      /\ db' \in {db, txn} /\ db' \in Database
      /\ faults' \in 0 .. MaxFaults
  BY <1>1, FaultCounted DEF SenderCommit, Commit, Rollback, NewSender, SenderState, TypeOK
<1>3. TypeOK'
  BY <1>1, <1>2 DEF TypeOK, Exclusive
<1>4. ThreadInv'
  BY <1>1, <1>2 DEF ThreadInv
<1>5. TxnInv'
  BY <1>1, <1>2 DEF TxnInv
<1>6. PipeInv' /\ NothingForgotten'
  <2>1. CASE db' = db
    BY <1>2, <2>1 DEF PipeInv, Fresh, NothingForgotten
  <2>2. CASE txn # db /\ db' = txn
    <3>1. PICK r \in db.pending :
              /\ r \in Reports /\ r \in enqueued
              /\ db'.pending = db.pending \ {r}
              /\ \A q \in Reports \ {r} : db'.fields[q] = db.fields[q]
              /\ \/ db'.failed = db.failed \cup {r}
                 \/ db'.failed = db.failed /\ received[r] > 0
      BY <1>1, <2>2, SenderCommits DEF TakenOut
    <3>2. \A q \in Reports : q # r => Fresh(q)' = Fresh(q)
      BY <1>2, <3>1 DEF Fresh
    <3>3. \A i \in 1 .. Len(pipe) : pipe[i] \in Reports \ {r}
      BY <3>1, PipeRange DEF PipeInv, Fresh
    <3>4. PipeInv'
      BY <1>2, <3>1, <3>2, <3>3 DEF PipeInv
    <3>5. NothingForgotten'
      <4> SUFFICES ASSUME NEW q \in enqueued
                   PROVE  \/ q \in Range(pipe)
                          \/ q \in db'.pending /\ db'.fields[q] = Fields
                          \/ q \in db'.failed
                          \/ received[q] > 0
                          \/ q \in dropped \cup lost
        BY <1>2 DEF NothingForgotten
      <4>1. q \in Reports
        BY DEF TypeOK
      <4> QED BY <3>1, <4>1 DEF NothingForgotten
    <3> QED BY <3>4, <3>5
  <2> QED BY <1>2, <2>1, <2>2
<1> QED BY <1>3, <1>4, <1>5, <1>6

-----------------------------------------------------------------------------
(* Copies and faults *)

LEMMA Sizes ==
  ASSUME CopyInv, TypeOK
  PROVE  Cardinality(Copies) \in Nat /\ Cardinality(Due) \in Nat /\ faults \in Nat
BY FS_CardinalityType DEF CopyInv, TypeOK

\* Nothing came, and no more is due than a fault pays for.
LEMMA NoMoreDue ==
  ASSUME CopyInv, TypeOK, UNCHANGED received, Due' \subseteq Due,
         faults' \in Nat, faults' >= faults
  PROVE  CopyInv'
<1>1. Copies' = Copies
  BY DEF Copies
<1>2. IsFiniteSet(Due') /\ Cardinality(Due') <= Cardinality(Due)
  BY FS_Subset DEF CopyInv
<1>3. Cardinality(Due') \in Nat
  BY <1>2, FS_CardinalityType
<1> QED BY <1>1, <1>2, <1>3, Sizes DEF CopyInv

LEMMA OneMoreDue ==
  ASSUME CopyInv, TypeOK, UNCHANGED received, NEW r, Due' \subseteq Due \cup {r},
         faults' = faults + 1
  PROVE  CopyInv'
<1>1. Copies' = Copies
  BY DEF Copies
<1>2. /\ IsFiniteSet(Due \cup {r})
      /\ Cardinality(Due \cup {r}) = Cardinality(Due) \/ Cardinality(Due \cup {r}) = Cardinality(Due) + 1
  BY FS_AddElement DEF CopyInv
<1>3. IsFiniteSet(Due') /\ Cardinality(Due') <= Cardinality(Due \cup {r})
  BY <1>2, FS_Subset
<1>4. Cardinality(Due') \in Nat
  BY <1>3, FS_CardinalityType
<1> QED BY <1>1, <1>2, <1>3, <1>4, Sizes DEF CopyInv

LEMMA Counted ==
  ASSUME TypeOK, UNCHANGED faults \/ Fault
  PROVE  faults' \in Nat /\ faults' >= faults /\ (faults' = faults \/ faults' = faults + 1)
BY DEF TypeOK, Fault

\* The sender's transaction leaves all reports in the database but those in hand.
LEMMA HeldByCommit ==
  ASSUME Inv, sender.pc = "commit"
  PROVE  /\ txn.pending \subseteq db.pending
         /\ \E r : \A q \in db.pending : InHand(q) => q = r
<1>1. CASE txn = db
  <2>1. \A q \in db.pending : ~InHand(q)
    BY <1>1 DEF InHand, Inv, TypeOK, Exclusive
  <2> QED BY <1>1, <2>1
<1>2. CASE \E r \in db.pending : TakenOut(r)
  <2>1. PICK r \in db.pending : TakenOut(r)
    BY <1>2
  <2>2. \A q \in db.pending : InHand(q) => q = r
    BY <2>1 DEF TakenOut, InHand, Inv, TypeOK, Exclusive
  <2> QED BY <2>1, <2>2 DEF TakenOut
<1> QED BY <1>1, <1>2, SenderCommits

\* At most one report is in hand.
LEMMA OneInHand ==
  ASSUME Inv
  PROVE  \E r : \A q \in db.pending : InHand(q) => q = r
<1>1. CASE sender.pc = "commit"
  BY <1>1, HeldByCommit
<1>2. CASE sender.pc # "commit"
  BY <1>2 DEF InHand
<1> QED BY <1>1, <1>2

\* A step by which the sender does not move.
LEMMA QuietCopies ==
  ASSUME Inv, CopyInv, UNCHANGED <<db, received, faults>>, UNCHANGED sender, UNCHANGED request,
         sender.pc = "commit" => UNCHANGED txn
  PROVE  CopyInv'
<1>1. Due' \subseteq Due
  BY DEF Due, InHand
<1> QED BY <1>1, NoMoreDue, Counted DEF Inv

LEMMA ServerCopies ==
  ASSUME Inv, CopyInv,
         \/ \E r \in Reports : EnqueueMatchReport(r)
         \/ SignalForTermination \/ JoinThreads \/ Restart
  PROVE  CopyInv'
<1>1. CASE (\E r \in Reports : EnqueueMatchReport(r)) \/ SignalForTermination \/ JoinThreads
  <2>1. UNCHANGED <<db, txn, sender, request, received, faults>>
    BY <1>1 DEF EnqueueMatchReport, SignalForTermination, JoinThreads, storage, service, history
  <2> QED BY <2>1, QuietCopies
<1>2. CASE Restart
  <2>1. UNCHANGED <<db, txn, request, received, faults>> /\ sender' = NewSender /\ phase = "closed"
    BY <1>2 DEF Restart, storage, service
  <2>2. sender.pc \in {"loop", "ended"} /\ request = "none"
    BY <2>1 DEF Inv, ThreadInv
  <2>3. Due' \subseteq Due
    BY <2>1, <2>2 DEF Due, InHand, NewSender
  <2> QED BY <2>1, <2>3, NoMoreDue, Counted DEF Inv
<1> QED BY <1>1, <1>2

\* What was in hand is due once the sender has forgotten it.
LEMMA Forgotten ==
  ASSUME Inv, CopyInv, UNCHANGED <<db, received>>, Fault
  PROVE  CopyInv'
<1>1. PICK r : \A q \in db.pending : InHand(q) => q = r
  BY OneInHand
<1>2. Due' \subseteq Due \cup {r}
  BY <1>1 DEF Due
<1> QED BY <1>2, OneMoreDue DEF Fault, Inv

LEMMA DieCopies ==
  ASSUME Inv, CopyInv, Crash \/ PushAgain
  PROVE  CopyInv'
<1>1. CASE Crash
  BY <1>1, Forgotten DEF Crash, Die
<1>2. CASE PushAgain
  <2>1. /\ UNCHANGED <<db, received, faults>> /\ sender' = NewSender /\ request' = "none"
        /\ lock = "writer"
    BY <1>2 DEF PushAgain, Die, Inv, TypeOK, Exclusive
  <2>2. sender.pc \notin {"mark", "commit"} /\ request = "none"
    BY <2>1 DEF Inv, TypeOK, Exclusive
  <2>3. Due' \subseteq Due
    BY <2>1, <2>2 DEF Due, InHand, NewSender
  <2> QED BY <2>1, <2>3, NoMoreDue, Counted DEF Inv
<1> QED BY <1>1, <1>2

LEMMA WriterCopies ==
  ASSUME Inv, CopyInv, WriterLoop \/ ReadCmds \/ WriterBegin \/ Push \/ WriterCommit
  PROVE  CopyInv'
<1>1. UNCHANGED <<sender, request, received>>
  BY DEF WriterLoop, ReadCmds, WriterBegin, Push, WriterCommit, WriterRest, service
<1>2. faults' \in Nat /\ faults' >= faults
  <2>1. UNCHANGED faults \/ Fault
    BY DEF WriterLoop, ReadCmds, WriterBegin, Push, WriterCommit
  <2> QED BY <2>1, Counted DEF Inv
<1>3. CASE WriterLoop \/ ReadCmds \/ WriterBegin \/ Push
  <2>1. UNCHANGED db /\ (sender.pc = "commit" => UNCHANGED txn)
    BY <1>3 DEF WriterLoop, ReadCmds, WriterBegin, Begin, Push, storage, Inv, TypeOK, Exclusive
  <2>2. Due' \subseteq Due
    BY <1>1, <2>1 DEF Due, InHand
  <2> QED BY <1>1, <1>2, <2>2, NoMoreDue DEF Inv
<1>4. CASE WriterCommit
  <2>1. writer.pc = "commit" /\ lock = "writer" /\ db' \in {db, txn} /\ pipe # <<>>
    BY <1>4 DEF WriterCommit, Commit, Rollback, Inv, TypeOK, Exclusive, ThreadInv
  <2>2. sender.pc \notin {"mark", "commit"} /\ request = "none"
    BY <2>1 DEF Inv, TypeOK, Exclusive
  <2>3. txn = db \/ \E n \in 0 .. Fields : txn = Inserted(db, Head(pipe), n)
    <3>1. WriterTxn
      BY <2>1 DEF Inv, TxnInv
    <3>2. Fields \in 0 .. Fields /\ \A n \in 0 .. Fields - 1 : n \in 0 .. Fields
      BY SizeAssumption
    <3> QED BY <3>1, <3>2 DEF WriterTxn
  <2>4. db'.pending \subseteq db.pending \cup {Head(pipe)}
    <3>1. db \in Database
      BY DEF Inv, TypeOK
    <3> QED BY <2>1, <2>3 DEF Inserted, Tables
  <2>5. received[Head(pipe)] = 0
    BY <2>1, PipeRange DEF Inv, PipeInv, Fresh
  <2>6. Due' \subseteq Due
    BY <1>1, <2>2, <2>4, <2>5 DEF Due, InHand
  <2> QED BY <1>1, <1>2, <2>6, NoMoreDue DEF Inv
<1> QED BY <1>3, <1>4

LEMMA SenderCopies ==
  ASSUME Inv, CopyInv, SenderStep
  PROVE  CopyInv'
<1>1. UNCHANGED received /\ (UNCHANGED faults \/ Fault)
  BY DEF SenderStep, SenderLoop, SenderBegin, SenderBusy, Fetch, FetchNext, FetchNothing,
    SendForStatusPolling, Poll, Answer, Mark, SenderCommit, service
<1>2. CASE UNCHANGED db /\ Fault
  BY <1>1, <1>2, Forgotten
<1>3. ASSUME Due' \subseteq Due PROVE CopyInv'
  BY <1>1, <1>3, NoMoreDue, Counted DEF Inv
<1>4. CASE UNCHANGED faults /\ (SenderLoop \/ SenderBegin \/ SenderBusy \/ Fetch \/ SendForStatusPolling)
  <2>1. sender.pc \notin {"mark", "commit"} /\ request # "accepted" /\ UNCHANGED db
    BY <1>4 DEF SenderLoop, SenderBegin, SenderBusy, Fetch, FetchNext, FetchNothing,
      SendForStatusPolling, storage, Inv, TypeOK, Exclusive
  <2>2. Due' \subseteq Due
    BY <1>1, <2>1 DEF Due, InHand
  <2> QED BY <2>2, <1>3
<1>5. CASE UNCHANGED faults /\ Poll
  <2>1. /\ sender.pc = "poll" /\ UNCHANGED db
        /\ request = "accepted" => sender'.pc = "mark" /\ sender'.answer = "sent"
                                   /\ sender'.active = sender.active
    <3>1. ~Fault
      BY <1>5 DEF Fault, Inv, TypeOK
    <3>2. request = "accepted" => sender' = [sender EXCEPT !.pc = "mark", !.answer = "sent"]
      BY <1>5, <3>1 DEF Poll, Answer
    <3>3. sender \in SenderState
      BY DEF Inv, TypeOK
    <3> QED BY <1>5, <3>2, <3>3 DEF Poll, storage, SenderState
  <2>2. Due' \subseteq Due
    BY <1>1, <2>1 DEF Due, InHand
  <2> QED BY <2>2, <1>3
<1>6. CASE UNCHANGED faults /\ Mark
  <2>1. /\ sender.pc = "mark" /\ request = "none" /\ UNCHANGED db /\ txn = db /\ db \in Database
        /\ sender.active \in Reports
        /\ sender.answer = "sent" => txn' = MarkAsSent(db, sender.active)
        /\ sender'.pc = "commit"
    BY <1>6 DEF Mark, NewSender, Fault, Inv, TypeOK, Exclusive, TxnInv, Database
  <2>2. sender.answer = "sent" => sender.active \notin txn'.pending
    BY <2>1 DEF MarkAsSent, Tables
  <2>3. \A r \in db.pending : InHand(r) => InHand(r)'
    BY <2>1, <2>2 DEF InHand
  <2>4. Due' \subseteq Due
    BY <1>1, <2>1, <2>3 DEF Due
  <2> QED BY <2>4, <1>3
<1>7. CASE SenderCommit /\ Commit
  <2>1. sender.pc = "commit" /\ db' = txn /\ request = "none"
    BY <1>7 DEF SenderCommit, Commit, Inv, TypeOK, Exclusive
  <2>2. txn.pending \subseteq db.pending
    BY <2>1, HeldByCommit
  <2>3. Due' \subseteq Due
    BY <1>1, <2>1, <2>2 DEF Due, InHand
  <2> QED BY <2>3, <1>3
<1>8. UNCHANGED db \/ (SenderCommit /\ Commit)
  BY DEF SenderStep, SenderLoop, SenderBegin, SenderBusy, Begin, Fetch, FetchNext, FetchNothing,
    SendForStatusPolling, Poll, Mark, Rollback, SenderCommit, storage
<1>9. SenderCommit => Commit \/ (Fault /\ UNCHANGED db)
  BY DEF SenderCommit, Rollback
<1> QED BY <1>1, <1>2, <1>4, <1>5, <1>6, <1>7, <1>8, <1>9 DEF SenderStep

\* A report that the service has already was due: its credit pays for the copy.
LEMMA ServiceCopies ==
  ASSUME Inv, CopyInv, Service
  PROVE  CopyInv'
<1> DEFINE r == sender.active
           n == received[r]
<1>1. /\ request = "travelling" /\ sender.pc = "poll" /\ r \in db.pending /\ r \in Reports
      /\ received \in [Reports -> Nat] /\ n \in Nat
      /\ UNCHANGED <<sender, db>>
  BY DEF Service, threads, storage, Inv, TypeOK, Exclusive, TxnInv, Database
<1>2. faults' \in Nat /\ faults' >= faults
  <2>1. UNCHANGED faults \/ Fault
    BY DEF Service
  <2> QED BY <2>1, Counted DEF Inv
<1>3. CASE UNCHANGED received
  <2>1. Due' \subseteq Due
    BY <1>1, <1>3 DEF Due, InHand
  <2> QED BY <1>2, <1>3, <2>1, NoMoreDue DEF Inv
<1>4. CASE request' = "accepted" /\ received' = [received EXCEPT ![r] = n + 1]
  <2> HIDE DEF n
  <2>1. Due' = Due \ {r}
    <3>1. \A q \in db.pending : InHand(q)' <=> q = r
      BY <1>1, <1>4 DEF InHand
    <3>2. \A q \in db.pending : ~InHand(q)
      BY <1>1 DEF InHand
    <3>3. \A q \in db.pending : q # r => received'[q] = received[q]
      BY <1>1, <1>4 DEF Inv, TypeOK, Database
    <3> QED BY <1>1, <3>1, <3>2, <3>3 DEF Due
  <2>2. /\ IsFiniteSet(Due') /\ Cardinality(Due') \in Nat
        /\ r \in Due => Cardinality(Due') = Cardinality(Due) - 1
        /\ Cardinality(Due') <= Cardinality(Due)
    <3>1. IsFiniteSet(Due) /\ IsFiniteSet(Due')
      BY <2>1, FS_RemoveElement DEF CopyInv
    <3> QED BY <2>1, <3>1, FS_RemoveElement, FS_CardinalityType, FS_Subset
  <2>3. received' \in [Reports -> Nat] /\ received'[r] = n + 1
        /\ \A q \in Reports : q # r => received'[q] = received[q]
    BY <1>1, <1>4
  <2>4. CASE n = 0
    <3>1. Copies' = Copies
      <4>1. \A q \in Reports : {q} \X (1 .. received'[q] - 1) = {q} \X (1 .. received[q] - 1)
        <5>1. 1 .. (0 + 1) - 1 = {} /\ 1 .. 0 - 1 = {}
          OBVIOUS
        <5>2. {r} \X (1 .. received'[r] - 1) = {r} \X (1 .. received[r] - 1)
          BY <2>3, <2>4, <5>1 DEF n
        <5> QED BY <2>3, <5>2
      <4> QED BY <4>1 DEF Copies
    <3> QED BY <1>2, <2>2, <3>1, Sizes DEF CopyInv, Inv
  <2>5. CASE n > 0
    <3>1. r \in Due
      BY <1>1, <2>5 DEF Due, InHand, n
    <3>2. Copies' = Copies \cup {<<r, n>>}
      <4>1. \A q \in Reports : q # r => {q} \X (1 .. received'[q] - 1) = {q} \X (1 .. received[q] - 1)
        BY <2>3
      <4>2. 1 .. received'[r] - 1 = (1 .. received[r] - 1) \cup {n}
        BY <1>1, <2>3, <2>5 DEF n
      <4>3. {r} \X (1 .. received'[r] - 1) = ({r} \X (1 .. received[r] - 1)) \cup {<<r, n>>}
        BY <4>2
      <4> QED BY <1>1, <4>1, <4>3 DEF Copies
    <3>3. /\ IsFiniteSet(Copies') /\ Cardinality(Copies') <= Cardinality(Copies) + 1
          /\ Cardinality(Copies') \in Nat
      <4>1. IsFiniteSet(Copies) /\ IsFiniteSet(Copies') /\ Cardinality(Copies) \in Nat
        BY <3>2, FS_AddElement, FS_CardinalityType DEF CopyInv
      <4>2. Cardinality(Copies') = Cardinality(Copies) \/ Cardinality(Copies') = Cardinality(Copies) + 1
        BY <3>2, <4>1, FS_AddElement
      <4> QED BY <4>1, <4>2
    <3> QED BY <1>2, <2>2, <3>1, <3>3, Sizes DEF CopyInv, Inv
  <2> QED BY <1>1, <2>4, <2>5
<1> QED BY <1>3, <1>4 DEF Service

LEMMA CopyInit == Init => CopyInv
<1> SUFFICES ASSUME Init PROVE CopyInv
  OBVIOUS
<1>1. Due = {}
  BY DEF Init, Due, NoRows, Tables
<1>2. Copies = {}
  <2>1. \A r \in Reports : {r} \X (1 .. received[r] - 1) = {}
    BY DEF Init
  <2> QED BY <2>1 DEF Copies
<1>3. faults = 0
  BY DEF Init
<1> QED BY <1>1, <1>2, <1>3, FS_EmptySet DEF CopyInv

LEMMA CopyStep ==
  ASSUME Inv, CopyInv, [Next]_vars
  PROVE  CopyInv'
<1>1. CASE UNCHANGED vars
  BY <1>1, QuietCopies DEF vars, threads, storage, service, history
<1> QED BY <1>1, ServerCopies, DieCopies, WriterCopies, SenderCopies, ServiceCopies
     DEF Next, WriterStep

-----------------------------------------------------------------------------
(* The results *)

LEMMA InvStep ==
  ASSUME Inv, [Next]_vars
  PROVE  Inv'
<1>1. CASE UNCHANGED vars
  BY <1>1 DEF vars, threads, storage, service, history, Inv, TypeOK, Exclusive, ThreadInv, PipeInv,
    Fresh, TxnInv, WriterTxn, SenderTxn, NothingForgotten
<1>2. CASE \E r \in Reports : EnqueueMatchReport(r)
  BY <1>2, EnqueueStep
<1>3. CASE SignalForTermination \/ JoinThreads \/ Restart
  BY <1>3, ServerStep
<1>4. CASE Crash
  BY <1>4, DieStep
<1>5. CASE WriterStep
  BY <1>5, WriterQuietStep, PushStep, DieStep, WriterCommitStep DEF WriterStep
<1>6. CASE SenderStep
  BY <1>6, SenderQuietStep, FetchStep, PollStep, MarkStep, SenderCommitStep DEF SenderStep
<1>7. CASE Service
  BY <1>7, ServiceStep
<1> QED BY <1>1, <1>2, <1>3, <1>4, <1>5, <1>6, <1>7 DEF Next

\* The inductive invariant holds in every state: the state of the two threads, the
\* pipe and the database, and what an open transaction may contain.
THEOREM Invariance == Spec => []Inv
BY InvInit, InvStep, PTL DEF Spec

\* Every variable has its type, and the writer and the sender are never within a
\* transaction at the same time.
THEOREM TypeCorrect == Spec => []TypeOK
<1>1. Inv => TypeOK
  BY DEF Inv
<1> QED BY <1>1, Invariance, PTL

\* No report that was handed over is forgotten by shutdowns, failed statements,
\* failed commits, or crashes: it is in the pipe, whole in the database, set aside or
\* received, unless its rows were refused or a crash found it in memory.
THEOREM Remembered == Spec => []NothingForgotten
<1>1. Inv => NothingForgotten
  BY DEF Inv
<1> QED BY <1>1, Invariance, PTL

\* The inductive invariant of CopiesCostFaults: copies that came, and reports that will be
\* sent again though the service has them, have each cost a fault.
THEOREM CopyInvariance == Spec => []CopyInv
BY Invariance, CopyInit, CopyStep, PTL DEF Spec

\* Without faults the service gets each report once, and each fault costs at most one copy,
\* wherever the fault strikes.
THEOREM SentOnce == Spec => []CopiesCostFaults
<1>1. Inv /\ CopyInv => CopiesCostFaults
  BY Sizes DEF CopyInv, CopiesCostFaults, Inv
<1> QED BY <1>1, Invariance, CopyInvariance, PTL

\* Steps that leave the database and the history alone are stutters.
LEMMA Stutters ==
  ASSUME UNCHANGED <<enqueued, db, received>>
  PROVE  [Promise!Next]_(Promise!vars)
BY DEF Promise!vars

LEMMA PromiseStep ==
  ASSUME Inv, [Next]_vars
  PROVE  [Promise!Next]_(Promise!vars)
<1>1. CASE UNCHANGED vars
  BY <1>1, Stutters DEF vars, storage, service, history
<1>2. CASE \E r \in Reports : EnqueueMatchReport(r)
  <2>1. PICK r \in Reports : EnqueueMatchReport(r)
    BY <1>2
  <2>2. Promise!Enqueue(r)
    BY <2>1 DEF EnqueueMatchReport, Promise!Enqueue, storage, service
  <2> QED BY <2>2 DEF Promise!Next
<1>3. CASE SignalForTermination \/ JoinThreads \/ Restart \/ Crash \/ PushAgain
  BY <1>3, Stutters DEF SignalForTermination, JoinThreads, Restart, Crash, PushAgain, Die,
    storage, service, history
<1>4. CASE WriterLoop \/ ReadCmds \/ WriterBegin \/ Push
  BY <1>4, Stutters DEF WriterLoop, ReadCmds, WriterBegin, Push, Begin, WriterRest, storage, service
<1>5. CASE WriterCommit
  <2> DEFINE r == Head(pipe)
  <2>1. /\ r \in Reports /\ UNCHANGED <<enqueued, received>>
        /\ txn.failed = db.failed
        /\ txn.pending \in {db.pending, db.pending \cup {r}}
        /\ db' \in {db, txn}
    BY <1>5, WriterCommits DEF WriterCommit, WriterRest, service, Commit, Rollback
  <2>2. r \in enqueued /\ Fresh(r)
    <3>1. pipe # <<>> /\ TypeOK
      BY <1>5, WriterCommits DEF WriterCommit, Inv
    <3> QED BY <3>1, PipeRange DEF Inv, PipeInv
  <2>3. CASE db'.pending = db.pending \cup {r} /\ db'.failed = db.failed
    <3>1. Promise!Store(r)
      BY <2>1, <2>2, <2>3 DEF Promise!Store, Fresh
    <3> QED BY <2>1, <3>1 DEF Promise!Next
  <2>4. CASE db'.pending = db.pending /\ db'.failed = db.failed
    BY <2>1, <2>4 DEF Promise!vars
  <2> QED BY <2>1, <2>3, <2>4
<1>6. CASE SenderLoop \/ SenderBegin \/ SenderBusy \/ Fetch \/ SendForStatusPolling \/ Poll
  BY <1>6, Stutters DEF SenderLoop, SenderBegin, SenderBusy, Fetch, FetchNothing, FetchNext,
    SendForStatusPolling, Poll, Begin, SenderRest, storage, service
<1>7. CASE Mark
  BY <1>7, Stutters DEF Mark, Rollback, SenderRest, service
<1>8. CASE SenderCommit
  <2>1. UNCHANGED <<enqueued, received>> /\ db' \in {db, txn} /\ sender.pc = "commit"
    BY <1>8 DEF SenderCommit, SenderRest, service, Commit, Rollback
  <2>2. CASE db' = db
    BY <2>1, <2>2, Stutters
  <2>3. CASE txn # db /\ db' = txn
    <3>1. PICK r \in db.pending :
              /\ r \in Reports
              /\ db'.pending = db.pending \ {r}
              /\ \/ db'.failed = db.failed \cup {r}
                 \/ db'.failed = db.failed /\ received[r] > 0
      BY <2>1, <2>3, SenderCommits DEF TakenOut
    <3>2. Promise!SetAside(r) \/ Promise!Delivered(r)
      BY <2>1, <3>1 DEF Promise!SetAside, Promise!Delivered
    <3> QED BY <3>1, <3>2 DEF Promise!Next
  <2> QED BY <2>1, <2>2, <2>3
<1>9. CASE Service
  <2>1. sender.active \in db.pending /\ sender.active \in Reports /\ UNCHANGED <<enqueued, db>>
    BY <1>9 DEF Service, Inv, TypeOK, Exclusive, TxnInv, Database, storage
  <2>2. CASE UNCHANGED received
    BY <2>1, <2>2, Stutters
  <2>3. CASE received' = [received EXCEPT ![sender.active] = @ + 1]
    <3>1. Promise!Receive(sender.active)
      BY <2>1, <2>3 DEF Promise!Receive
    <3> QED BY <2>1, <3>1 DEF Promise!Next
  <2> QED BY <1>9, <2>2, <2>3 DEF Service
<1> QED BY <1>1, <1>2, <1>3, <1>4, <1>5, <1>6, <1>7, <1>8, <1>9 DEF Next, WriterStep, SenderStep

\* The two threads and the database keep the promise: a report is stored once, only
\* the reports in the storage are sent, and one leaves it only when the service has it
\* or it is set aside.
THEOREM Refinement == Spec => Implements
<1>1. Init => Promise!Init
  BY DEF Init, Promise!Init, NoRows, Tables
<1>2. Inv /\ [Next]_vars => [Promise!Next]_(Promise!vars)
  BY PromiseStep
<1> QED BY <1>1, <1>2, Invariance, PTL DEF Spec, Implements, Promise!Spec
=============================================================================
