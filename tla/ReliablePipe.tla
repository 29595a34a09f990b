---------------------------- MODULE ReliablePipe ----------------------------
(***************************************************************************)
(* How match reports get from the server to the statistics service         *)
(* (matchmaker/mm_reliable_pipe.cpp, mm_local_storage.cpp): the server     *)
(* puts them into a command pipe, a writer thread moves them to a          *)
(* database, a sender thread sends those it finds there, one at a time.    *)
(* The database and the service are outside; statements of the database    *)
(* and requests fail, and the process may crash at any point.              *)
(*                                                                         *)
(* A report is a set of form fields; the database has one row for the      *)
(* report and one for each field, written in an order that starts with     *)
(* query_id.  Both threads work within exclusive transactions: txn is the  *)
(* state of the database that the holder of the lock sees, db the state    *)
(* that would survive a crash.                                             *)
(***************************************************************************)
EXTENDS Integers, Sequences, FiniteSets, Functions

CONSTANTS
  Reports, NoReport,
  Fields,        \* how many fields a report has
  PipeRoom,      \* how many reports the pipe holds
  MaxFaults,     \* how many statements and requests fail, and crashes
  MaxRestarts    \* how many times the server is started again

ASSUME SizeAssumption ==
  /\ NoReport \notin Reports
  /\ Fields \in Nat \ {0} /\ PipeRoom \in Nat \ {0}
  /\ MaxFaults \in Nat /\ MaxRestarts \in Nat

VARIABLES
  phase,      \* of the pipe object: running, being destroyed, closed
  pipe,       \* reports on their way to the writer, the one in its hands first
  writer,     \* BackgroundWriter: where it is and what it did to its report
  sender,     \* BackgroundSender: where it is, its activeQuery and the answer
  db, txn, lock,
  request,    \* the state of the request, as far as the service knows it
  \* history
  enqueued,   \* reports handed over
  received,   \* received[r]: how many times the service accepted r
  refused,    \* reports that the service refused
  dropped,    \* reports that the writer gave up because the database failed
  lost,       \* reports that a crash found in memory
  faults, restarts

threads == <<phase, pipe, writer, sender>>
storage == <<db, txn, lock>>
service == <<request, received, refused>>
history == <<enqueued, dropped, lost, faults, restarts>>
vars == <<threads, storage, service, history>>

Database == [pending : SUBSET Reports, fields : [Reports -> 0 .. Fields],
             failed : SUBSET Reports]
Tables(pending, fields, failed) == [pending |-> pending, fields |-> fields, failed |-> failed]
NoRows == Tables({}, [r \in Reports |-> 0], {})

WriterState == [pc : {"loop", "read", "begin", "push", "commit", "ended"},
                last : BOOLEAN, tagged : BOOLEAN, ok : BOOLEAN]
SenderState == [pc : {"loop", "begin", "fetch", "send", "poll", "mark", "commit", "ended"},
                active : Reports \cup {NoReport},
                answer : {"none", "sent", "failed", "retry"}]
NewWriter == [pc |-> "loop", last |-> FALSE, tagged |-> FALSE, ok |-> FALSE]
NewSender == [pc |-> "loop", active |-> NoReport, answer |-> "none"]

Init ==
  /\ phase = "running"
  /\ pipe = <<>> /\ writer = NewWriter /\ sender = NewSender
  /\ db = NoRows /\ txn = NoRows /\ lock = "none"
  /\ request = "none" /\ received = [r \in Reports |-> 0] /\ refused = {}
  /\ enqueued = {} /\ dropped = {} /\ lost = {}
  /\ faults = 0 /\ restarts = 0

Fault == faults < MaxFaults /\ faults' = faults + 1
-----------------------------------------------------------------------------
(* The server's thread *)

\* EnqueueMatchReport waits for room in the pipe.
EnqueueMatchReport(r) ==
  /\ phase = "running"
  /\ r \notin enqueued
  /\ Len(pipe) < PipeRoom
  /\ enqueued' = enqueued \cup {r}
  /\ pipe' = Append(pipe, r)
  /\ UNCHANGED <<phase, writer, sender, storage, service, dropped, lost, faults, restarts>>

\* ~ReliablePipe signals both threads ...
SignalForTermination ==
  /\ phase = "running"
  /\ phase' = "joining"
  /\ UNCHANGED <<pipe, writer, sender, storage, service, history>>

\* ... waits for both and destroys the pipe with whatever is in it.
JoinThreads ==
  /\ phase = "joining"
  /\ writer.pc = "ended" /\ sender.pc = "ended"
  /\ phase' = "closed"
  /\ pipe' = <<>>
  /\ UNCHANGED <<writer, sender, storage, service, history>>

\* OnLoginSuccess creates another one, over the same database file.
Restart ==
  /\ phase = "closed"
  /\ restarts < MaxRestarts
  /\ restarts' = restarts + 1
  /\ phase' = "running"
  /\ writer' = NewWriter /\ sender' = NewSender
  /\ UNCHANGED <<pipe, storage, service, enqueued, dropped, lost, faults>>

\* The process is gone, and with it what was in memory and the transaction.
Die ==
  /\ phase' = "closed"
  /\ pipe' = <<>> /\ writer' = NewWriter /\ sender' = NewSender
  /\ lost' = lost \cup Range(pipe)
  /\ txn' = db /\ lock' = "none" /\ request' = "none"
  /\ UNCHANGED <<db, received, refused, enqueued, dropped, restarts>>
Crash ==
  /\ phase # "closed"
  /\ Fault
  /\ Die
-----------------------------------------------------------------------------
(* The database *)

\* Wrong on purpose: the transaction is not an exclusive one.
Begin_Deferred(thread) == lock' = thread /\ txn' = db

\* "begin exclusive": at once or not at all.
Begin(thread) ==
  /\ lock = "none"
  /\ lock' = thread
  /\ txn' = db

\* "commit"; when it fails, closing the connection rolls back.
Commit == db' = txn /\ lock' = "none" /\ UNCHANGED txn
Rollback == txn' = db /\ lock' = "none" /\ UNCHANGED db

\* InsertPendingQuery and InsertQueryFields, of which n rows succeed.
Inserted(t, r, n) == Tables(t.pending \cup {r}, [t.fields EXCEPT ![r] = n], t.failed)

\* Wrong on purpose: nothing is deleted; the fields only; a failed report is
\* deleted without being set aside.
MarkAsSent_Nothing(t, r) == t
MarkAsSent_FieldsOnly(t, r) == [t EXCEPT !.fields[r] = 0]
MarkAsFailed_Deletes(t, r) == [t EXCEPT !.pending = @ \ {r}]

MarkAsSent(t, r) == Tables(t.pending \ {r}, [t.fields EXCEPT ![r] = 0], t.failed)
MarkAsFailed(t, r) == Tables(t.pending \ {r}, t.fields, t.failed \cup {r})
-----------------------------------------------------------------------------
(* The writer's thread *)

WriterRest == UNCHANGED <<phase, sender, service, enqueued, lost, restarts>>

\* RunMessageLoop: once signalled, it reads what is in the pipe for the last time.
WriterLoop ==
  /\ writer.pc = "loop" /\ phase # "closed"
  /\ writer' = [writer EXCEPT !.pc = "read", !.last = phase = "joining"]
  /\ UNCHANGED <<pipe, storage, dropped, faults>> /\ WriterRest

\* QBufPipe_ReadCmds goes on until the pipe is empty.
ReadCmds ==
  /\ writer.pc = "read"
  /\ writer' =
       IF pipe # <<>> THEN [writer EXCEPT !.pc = "begin", !.tagged = FALSE]
       ELSE [writer EXCEPT !.pc = IF writer.last THEN "ended" ELSE "loop"]
  /\ UNCHANGED <<pipe, storage, dropped, faults>> /\ WriterRest

\* AddReport, trying again until there is no other transaction.
WriterBegin ==
  /\ writer.pc = "begin"
  /\ Begin("writer")
  /\ writer' = [writer EXCEPT !.pc = "push"]
  /\ UNCHANGED <<pipe, db, dropped, faults>> /\ WriterRest

\* Push: the rows are inserted, or a statement fails after some of them.
Push ==
  /\ writer.pc = "push"
  /\ ~writer.tagged
  /\ \/ /\ txn' = Inserted(txn, Head(pipe), Fields)
        /\ writer' = [writer EXCEPT !.pc = "commit", !.tagged = TRUE, !.ok = TRUE]
        /\ UNCHANGED faults
     \/ /\ Fault
        /\ txn' \in {txn} \cup {Inserted(txn, Head(pipe), n) : n \in 0 .. Fields - 1}
        /\ writer' = [writer EXCEPT !.pc = "commit", !.tagged = TRUE, !.ok = FALSE]
  /\ UNCHANGED <<pipe, db, lock, dropped>> /\ WriterRest

\* A report that has a query_id already is a fatal error.
PushAgain ==
  /\ writer.pc = "push"
  /\ writer.tagged
  /\ Die
  /\ UNCHANGED faults

\* What the rows are is committed even if some failed; only a transaction that
\* fails is tried again.
WriterCommit ==
  /\ writer.pc = "commit"
  /\ \/ /\ Commit
        /\ writer' = [writer EXCEPT !.pc = "read"]
        /\ dropped' = IF writer.ok THEN dropped ELSE dropped \cup {Head(pipe)}
        /\ pipe' = Tail(pipe)
        /\ UNCHANGED faults
     \/ /\ Fault
        /\ Rollback
        /\ writer' = [writer EXCEPT !.pc = "begin"]
        /\ UNCHANGED <<pipe, dropped>>
  /\ WriterRest

WriterStep == WriterLoop \/ ReadCmds \/ WriterBegin \/ Push \/ PushAgain \/ WriterCommit
-----------------------------------------------------------------------------
(* The sender's thread *)

SenderRest == UNCHANGED <<phase, pipe, writer, enqueued, dropped, lost, restarts>>

SenderLoop ==
  /\ sender.pc = "loop" /\ phase # "closed"
  /\ sender' = [sender EXCEPT !.pc = IF phase = "joining" THEN "ended" ELSE "begin"]
  /\ UNCHANGED <<storage, service, faults>> /\ SenderRest

\* RunStep does nothing if there is another transaction.
SenderBegin ==
  /\ sender.pc = "begin"
  /\ Begin("sender")
  /\ sender' = [sender EXCEPT !.pc = "fetch"]
  /\ UNCHANGED <<db, service, faults>> /\ SenderRest
SenderBusy ==
  /\ sender.pc = "begin"
  /\ lock # "none"
  /\ sender' = [sender EXCEPT !.pc = "loop"]
  /\ UNCHANGED <<storage, service, faults>> /\ SenderRest

\* FetchNext picks any report; one that has no fields is the same as none.
FetchNext(r) ==
  /\ sender.pc = "fetch"
  /\ r \in txn.pending
  /\ txn.fields[r] > 0
  /\ sender' = [sender EXCEPT !.pc = "send", !.active = r]
  /\ UNCHANGED <<storage, service, faults>> /\ SenderRest
FetchNothing ==
  /\ sender.pc = "fetch"
  /\ \/ (txn.pending = {} \/ \E r \in txn.pending : txn.fields[r] = 0) /\ UNCHANGED faults
     \/ Fault
  /\ sender' = [sender EXCEPT !.pc = "commit"]
  /\ UNCHANGED <<storage, service>> /\ SenderRest

\* SendForStatusPolling; the request may not even be prepared.
SendForStatusPolling ==
  /\ sender.pc = "send"
  /\ \/ /\ sender' = [sender EXCEPT !.pc = "poll"]
        /\ request' = "travelling"
        /\ UNCHANGED faults
     \/ /\ Fault
        /\ sender' = [sender EXCEPT !.pc = "mark", !.answer = "failed"]
        /\ UNCHANGED request
  /\ UNCHANGED <<storage, received, refused>> /\ SenderRest

\* The service, outside: it takes the report, refuses it or asks to try later.
Service ==
  /\ request = "travelling"
  /\ \/ /\ request' = "accepted"
        /\ received' = [received EXCEPT ![sender.active] = @ + 1]
        /\ UNCHANGED <<refused, faults>>
     \/ /\ request' = "refused"
        /\ refused' = refused \cup {sender.active}
        /\ UNCHANGED <<received, faults>>
     \/ /\ Fault
        /\ request' = "busy"
        /\ UNCHANGED <<received, refused>>
  /\ UNCHANGED <<threads, storage, enqueued, dropped, lost, restarts>>

\* The callback of the request: the service's answer, or whatever it was, an
\* error of the network that is to be retried, or one that is not (a time limit).
Answer ==
  \/ request = "accepted" /\ sender' = [sender EXCEPT !.pc = "mark", !.answer = "sent"]
                          /\ UNCHANGED faults
  \/ request = "refused"  /\ sender' = [sender EXCEPT !.pc = "mark", !.answer = "failed"]
                          /\ UNCHANGED faults
  \/ request = "busy"     /\ sender' = [sender EXCEPT !.pc = "mark", !.answer = "retry"]
                          /\ UNCHANGED faults
  \/ Fault /\ sender' \in {[sender EXCEPT !.pc = "mark", !.answer = a] : a \in {"retry", "failed"}}
Poll ==
  /\ sender.pc = "poll"
  /\ Answer
  /\ request' = "none"
  /\ UNCHANGED <<storage, received, refused>> /\ SenderRest

\* The transaction is rolled back if marking fails.
Mark ==
  /\ sender.pc = "mark"
  /\ \/ /\ txn' = CASE sender.answer = "sent"   -> MarkAsSent(txn, sender.active)
                    [] sender.answer = "failed" -> MarkAsFailed(txn, sender.active)
                    [] sender.answer = "retry"  -> txn
        /\ sender' = [NewSender EXCEPT !.pc = "commit"]
        /\ UNCHANGED <<db, lock, faults>>
     \/ /\ sender.answer # "retry"
        /\ Fault
        /\ Rollback
        /\ sender' = NewSender
  /\ UNCHANGED service /\ SenderRest

SenderCommit ==
  /\ sender.pc = "commit"
  /\ (Commit /\ UNCHANGED faults) \/ (Rollback /\ Fault)
  /\ sender' = NewSender
  /\ UNCHANGED service /\ SenderRest

Fetch == FetchNothing \/ \E r \in Reports : FetchNext(r)
SenderStep == \/ SenderLoop \/ SenderBegin \/ SenderBusy \/ Fetch \/ SendForStatusPolling
              \/ Poll \/ Mark \/ SenderCommit
-----------------------------------------------------------------------------
Next ==
  \/ \E r \in Reports : EnqueueMatchReport(r)
  \/ SignalForTermination \/ JoinThreads \/ Restart \/ Crash
  \/ WriterStep \/ SenderStep \/ Service

\* Threads go on.  The sender sleeps between transactions, longer than the writer
\* waits before it tries again; reports are picked at random; a request ends
\* with an answer or with the time limit of wswcurl_perform.
Fairness ==
  /\ WF_vars(WriterStep) /\ SF_vars(WriterBegin)
  /\ WF_vars(SenderStep) /\ SF_vars(SenderBegin)
  /\ \A r \in Reports : SF_vars(FetchNext(r))
  /\ WF_vars(Service) /\ WF_vars(JoinThreads)

Spec == Init /\ [][Next]_vars /\ Fairness
-----------------------------------------------------------------------------
(* Properties *)

\* One transaction at a time; out of one, txn is what was committed last.
Exclusive ==
  /\ lock = "writer" <=> writer.pc \in {"push", "commit"}
  /\ lock = "sender" <=> sender.pc \in {"fetch", "send", "poll", "mark", "commit"}
  /\ request # "none" => sender.pc = "poll"

TypeOK ==
  /\ Exclusive
  /\ phase \in {"running", "joining", "closed"}
  /\ pipe \in Seq(Reports)
  /\ writer \in WriterState /\ sender \in SenderState
  /\ db \in Database /\ txn \in Database
  /\ lock \in {"none", "writer", "sender"}
  /\ request \in {"none", "travelling", "accepted", "refused", "busy"}
  /\ received \in [Reports -> Nat]
  /\ refused \subseteq Reports
  /\ enqueued \subseteq Reports /\ dropped \subseteq Reports /\ lost \subseteq Reports
  /\ faults \in 0 .. MaxFaults /\ restarts \in 0 .. MaxRestarts

\* No report is forgotten: one that was handed over is still in the pipe, or whole
\* in the database, or set aside, or the service has it; unless the database
\* refused its rows or a crash found it in memory.  Neither a clean shutdown nor
\* a failed commit nor a crash of the sender loses any.
NothingForgotten == \A r \in enqueued :
  \/ r \in Range(pipe)
  \/ r \in db.pending /\ db.fields[r] = Fields
  \/ r \in db.failed
  \/ received[r] > 0
  \/ r \in dropped \cup lost

\* A report reaches the service again only if something failed since: without
\* faults each is sent once, and each fault costs at most one more copy.
Copies == UNION {{r} \X (1 .. received[r] - 1) : r \in Reports}
CopiesCostFaults == Cardinality(Copies) <= faults

\* A report in the database does not wait for ever while the server runs, even if
\* others come, and others are there that have no fields.
Settles == \A r \in Reports :
  (r \in db.pending /\ db.fields[r] > 0) ~> (r \notin db.pending \/ phase = "closed")

\* A report stays in the storage until the service has it or it is set aside.
Promise == INSTANCE ReportDelivery WITH stored <- db.pending, failed <- db.failed
Implements == Promise!Spec
=============================================================================
