---------------------------- MODULE CommandQueue ----------------------------
(***************************************************************************)
(* What a pipe of commands between two threads (qbufPipe_t of              *)
(* qcommon/threads.cpp) promises to its users: commands that were accepted *)
(* are handled in the order in which they were, each once and whole, and   *)
(* Finish returns when none is left.                                       *)
(***************************************************************************)
EXTENDS Sequences

CONSTANT Command        \* what can be written

VARIABLES waiting,      \* commands accepted and not handled, oldest first
          handled,      \* commands handled, oldest first
          finishing     \* the writer waits for them all

vars == <<waiting, handled, finishing>>

Init == waiting = <<>> /\ handled = <<>> /\ finishing = FALSE

Accept == \E cmd \in Command :
  /\ ~finishing
  /\ waiting' = Append(waiting, cmd)
  /\ UNCHANGED <<handled, finishing>>

Handle ==
  /\ waiting # <<>>
  /\ handled' = Append(handled, Head(waiting))
  /\ waiting' = Tail(waiting)
  /\ UNCHANGED finishing

Finish == finishing' = TRUE /\ UNCHANGED <<waiting, handled>>

Finished ==
  /\ waiting = <<>>
  /\ finishing' = FALSE
  /\ UNCHANGED <<waiting, handled>>

Next == Accept \/ Handle \/ Finish \/ Finished

Spec == Init /\ [][Next]_vars /\ WF_vars(Handle) /\ WF_vars(Finished)
=============================================================================
