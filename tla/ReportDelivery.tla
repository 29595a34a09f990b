--------------------------- MODULE ReportDelivery ---------------------------
(***************************************************************************)
(* What the matchmaker promises about match reports: a report that reached *)
(* the storage stays there until the service has it or it is set aside as  *)
(* failed, whatever fails or crashes meanwhile, and it is stored once.     *)
(***************************************************************************)
EXTENDS Naturals

CONSTANT Reports

VARIABLES
  enqueued,   \* reports handed over by the server
  stored,     \* reports in the storage
  failed,     \* reports set aside
  received    \* received[r]: how many times the service accepted r

vars == <<enqueued, stored, failed, received>>

Init ==
  /\ enqueued = {} /\ stored = {} /\ failed = {}
  /\ received = [r \in Reports |-> 0]

Enqueue(r) ==
  /\ r \notin enqueued
  /\ enqueued' = enqueued \cup {r}
  /\ UNCHANGED <<stored, failed, received>>

Store(r) ==
  /\ r \in enqueued
  /\ r \notin stored \cup failed
  /\ received[r] = 0
  /\ stored' = stored \cup {r}
  /\ UNCHANGED <<enqueued, failed, received>>

Receive(r) ==
  /\ r \in stored
  /\ received' = [received EXCEPT ![r] = @ + 1]
  /\ UNCHANGED <<enqueued, stored, failed>>

Delivered(r) ==
  /\ r \in stored
  /\ received[r] > 0
  /\ stored' = stored \ {r}
  /\ UNCHANGED <<enqueued, failed, received>>

SetAside(r) ==
  /\ r \in stored
  /\ stored' = stored \ {r}
  /\ failed' = failed \cup {r}
  /\ UNCHANGED <<enqueued, received>>

Next == \E r \in Reports :
  Enqueue(r) \/ Store(r) \/ Receive(r) \/ Delivered(r) \/ SetAside(r)

Spec == Init /\ [][Next]_vars
=============================================================================
