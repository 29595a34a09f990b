----------------------------- MODULE WebServer -----------------------------
(***************************************************************************)
(* The server's web server: a thread that serves browsers from a pool of   *)
(* connections and passes queries for the game module to the server's main *)
(* thread, through one pipe, and its answers back, through another.        *)
(*                                                                         *)
(* A connection may be closed, freed and taken by another browser while    *)
(* its query is on its way: a query carries a pointer to the text of its   *)
(* request, which is freed then, and an answer a pointer to the connection *)
(* that asked. The pipes are CommandQueue's; they never fill up (README).  *)
(* What browsers and the network do is chosen freely. Time is counted in   *)
(* frames of the web server's thread.                                      *)
(***************************************************************************)
EXTENDS Integers, Sequences, FiniteSets, SequencesExt

CONSTANTS
  MAX_CONNECTIONS,                    \* size of the pool
  RECV_TIMEOUT, SEND_TIMEOUT,         \* frames
  MaxQueries                          \* bound on queries on their way

ASSUME SizesAssumption ==
  /\ {MAX_CONNECTIONS, MaxQueries} \subseteq Nat \ {0}
  /\ {RECV_TIMEOUT, SEND_TIMEOUT} \subseteq Nat

VARIABLES
  con,                 \* the connections
  incoming, outgoing,  \* queries to the game module, and its answers
  allocated,           \* contents of answers that the game module allocated
  pc, todo,            \* phase of the frame, connections left in it
  main                 \* "running", then "joining" the thread, then "joined"

vars == <<con, incoming, outgoing, allocated, pc, todo, main>>

Connections == 1 .. MAX_CONNECTIONS

\* sv_http_running
running == main = "running"

NewRequest(c)  == [c EXCEPT !.id = 0, !.kind = "none"]
NewResponse(c) == [c EXCEPT !.content_state = "default", !.content = 0]
Unused == [state |-> "none", open |-> FALSE, close_after_resp |-> FALSE, age |-> 0,
           id |-> 0, kind |-> "none", content_state |-> "default", content |-> 0]

Init ==
  /\ con = [c \in Connections |-> Unused]
  /\ incoming = <<>> /\ outgoing = <<>> /\ allocated = {}
  /\ pc = "listen" /\ todo = {}
  /\ main = "running"

Active == {c \in Connections : con[c].state # "none"}
OnTheirWay == ToSet(incoming) \cup ToSet(outgoing)
Underway == Len(incoming) + Len(outgoing)
Numbers == 1 .. MAX_CONNECTIONS + MaxQueries + 1

\* SV_Web_GetNewRequestId: a number that no request or query has.
FreshId == CHOOSE n \in Numbers :
  n \notin {q.id : q \in OnTheirWay} \cup {con[c].id : c \in Connections}

-----------------------------------------------------------------------------
(* One connection *)

\* SV_Web_ReceiveRequest: nothing, a part, or the whole of a request, and the browser
\* may be gone. A request that is refused is answered like the last one for a file.
\* Nobody looks at the numbers of requests that are not queries.
Received(c) ==
  LET part  == [c EXCEPT !.age = 0]
      query == [part EXCEPT !.state = "resp", !.kind = "game", !.id = FreshId]
      whole == {query, [query EXCEPT !.close_after_resp = TRUE],
                [part EXCEPT !.state = "resp", !.kind = "head"],
                [part EXCEPT !.state = "resp", !.kind = "file", !.close_after_resp = TRUE]}
      got   == {part} \cup whole
  IN  IF c.state # "recv" THEN {c}
      ELSE got \cup {[g EXCEPT !.open = FALSE] : g \in got \cup {c}}

\* Is the query of a request to be issued?
Asks(c) == c.state = "resp" /\ c.kind = "game" /\ c.content_state = "default"

\* SV_Web_RespondToQuery
Responded(c) ==
  IF Asks(c) THEN [c EXCEPT !.content_state = "awaiting", !.age = 0]
  ELSE IF c.state = "resp" /\ c.content_state # "awaiting" THEN [c EXCEPT !.state = "send"]
  ELSE c

\* Wrong on purpose: the answer's content stays allocated.
Freed_Nothing(c) == {}

\* SV_Web_ResetResponse
Freed(c) == IF c.content = 0 THEN {} ELSE {c.content}

\* SV_Web_SendResponse, and what SV_Web_WriteResponse does at its end. A part that is
\* sent only postpones the timeout. There is no content for an answer to HEAD, whose
\* length is waited for.
Sent(c) ==
  LET over == NewResponse([c EXCEPT !.state = "recv", !.age = 0])
      last == [over EXCEPT !.open = FALSE]
  IN  IF c.state # "send" THEN {c}
      ELSE {c, [c EXCEPT !.open = FALSE]}
           \cup (IF c.kind = "head" THEN {}
                 ELSE {IF c.close_after_resp THEN last ELSE NewRequest(over)})

\* The silence that is allowed in a state.
Timeout(c) == IF c.state = "recv" THEN RECV_TIMEOUT ELSE SEND_TIMEOUT

\* Wrong on purpose: a connection that has its request is not timed out.
Silent_RecvOnly(c) == c.state = "recv" /\ c.age > Timeout(c)

\* Has the connection been silent for too long?
Silent(c) == c.age > Timeout(c)

-----------------------------------------------------------------------------
(* The web server's thread *)

WebOnly == UNCHANGED main

\* SV_Web_Listen: the browser gets a connection from the pool.
SV_Web_Listen ==
  /\ pc = "listen" /\ running
  /\ \E c \in Connections \ Active :
       con' = [con EXCEPT ![c] = [Unused EXCEPT !.state = "recv", !.open = TRUE]]
  /\ UNCHANGED <<incoming, outgoing, allocated, pc, todo>> /\ WebOnly

\* SV_Web_Frame: nobody else comes; these connections will be looked at.
Collect ==
  /\ pc = "listen" /\ running
  /\ pc' = "read" /\ todo' = Active
  /\ UNCHANGED <<con, incoming, outgoing, allocated>> /\ WebOnly

\* Wrong on purpose: who waits takes any answer.
Wanted_Any(answer) == con[answer.con].content_state = "awaiting"

\* Is it the answer that the connection waits for?
Wanted(answer) ==
  con[answer.con].content_state = "awaiting" /\ con[answer.con].id = answer.id

\* SV_Web_HandleOutQueryCmd
SV_Web_HandleOutQueryCmd ==
  /\ pc = "read" /\ outgoing # <<>>
  /\ LET answer == Head(outgoing)
     IN  IF Wanted(answer)
         THEN /\ con' = [con EXCEPT ![answer.con].content = answer.content,
                                    ![answer.con].content_state = "received"]
              /\ UNCHANGED allocated
         ELSE allocated' = allocated \ {answer.content} /\ UNCHANGED con
  /\ outgoing' = Tail(outgoing)
  /\ UNCHANGED <<incoming, pc, todo>> /\ WebOnly

Monitor ==
  /\ pc = "read" /\ outgoing = <<>>
  /\ pc' = "serve"
  /\ UNCHANGED <<con, incoming, outgoing, allocated, todo>> /\ WebOnly

\* NET_Monitor: the callbacks for the next connection, if it can be read or written.
Serve(c, readable, writable) ==
  /\ pc = "serve" /\ c \in todo /\ \A d \in todo : c <= d
  /\ \E got \in IF readable /\ running THEN Received(con[c]) ELSE {con[c]} :
       IF ~writable \/ ~running
       THEN con' = [con EXCEPT ![c] = got] /\ UNCHANGED <<incoming, allocated>>
       ELSE \E sent \in Sent(Responded(got)) :
              /\ con' = [con EXCEPT ![c] = sent]
              /\ allocated' = IF sent.content_state = "default" THEN allocated \ Freed(got)
                              ELSE allocated
              /\ incoming' = IF Asks(got) THEN Append(incoming, [con |-> c, id |-> got.id])
                             ELSE incoming
              /\ Asks(got) => Underway < MaxQueries
  /\ todo' = todo \ {c}
  /\ UNCHANGED <<outgoing, pc>> /\ WebOnly

\* The end of SV_Web_Frame: dead connections and silent ones go back to the pool.
CloseDead ==
  LET later(c) == [con[c] EXCEPT !.age = IF @ > Timeout(con[c]) THEN @ ELSE @ + 1]
      dead == {c \in Active : ~con[c].open \/ Silent(later(c))}
  IN  /\ pc = "serve" /\ todo = {}
      /\ pc' = "listen"
      /\ IF ~running THEN UNCHANGED <<con, allocated>>
         ELSE /\ con' = [c \in Connections |-> IF c \in dead \/ c \notin Active THEN Unused
                                                ELSE later(c)]
              /\ allocated' = allocated \ UNION {Freed(con[c]) : c \in dead}
      /\ UNCHANGED <<incoming, outgoing, todo>> /\ WebOnly

\* SV_Web_ShutdownConnections: those that are still open.
SV_Web_ShutdownConnections ==
  /\ pc = "listen" /\ ~running
  /\ pc' = "ended" /\ todo' = {}
  /\ con' = [c \in Connections |-> IF con[c].open THEN Unused ELSE con[c]]
  /\ allocated' = allocated \ UNION {Freed(con[c]) : c \in {d \in Connections : con[d].open}}
  /\ UNCHANGED <<incoming, outgoing>> /\ WebOnly

-----------------------------------------------------------------------------
(* The main thread *)

\* SV_Web_HandleInQueryCmd: the game module reads the text that the query points to.
\* The content is named after the query; with a minus if that text had been freed.
SV_Web_HandleInQueryCmd(answers) ==
  /\ running /\ incoming # <<>>
  /\ LET query == Head(incoming)
         made  == IF con[query.con].id = query.id THEN query.id ELSE -query.id
         content == IF answers THEN made ELSE 0
     IN  /\ outgoing' = Append(outgoing, [con |-> query.con, id |-> query.id, content |-> content])
         /\ allocated' = IF answers THEN allocated \cup {content} ELSE allocated
  /\ incoming' = Tail(incoming)
  /\ UNCHANGED <<con, pc, todo, main>>

\* SV_Web_Shutdown
SV_Web_Shutdown ==
  /\ running /\ main' = "joining"
  /\ UNCHANGED <<con, incoming, outgoing, allocated, pc, todo>>

\* The thread was joined, and the pipes are destroyed.
Join ==
  /\ main = "joining" /\ pc = "ended"
  /\ main' = "joined" /\ incoming' = <<>> /\ outgoing' = <<>>
  /\ UNCHANGED <<con, allocated, pc, todo>>

-----------------------------------------------------------------------------
SV_Web_Frame ==
  \/ SV_Web_Listen \/ Collect \/ SV_Web_HandleOutQueryCmd \/ Monitor
  \/ \E c \in Connections, readable, writable \in BOOLEAN : Serve(c, readable, writable)
  \/ CloseDead \/ SV_Web_ShutdownConnections

SV_Web_GameFrame == \E answers \in BOOLEAN : SV_Web_HandleInQueryCmd(answers)

Next == SV_Web_Frame \/ SV_Web_GameFrame \/ SV_Web_Shutdown \/ Join

\* The thread and the server's frames go on; nobody is bound to stop the server.
Fairness == WF_vars(SV_Web_Frame) /\ WF_vars(SV_Web_GameFrame) /\ WF_vars(Join)

Spec == Init /\ [][Next]_vars /\ Fairness

-----------------------------------------------------------------------------
(* Properties *)

States == {"none", "recv", "resp", "send"}
Contents == {0} \cup Numbers \cup {-n : n \in Numbers}
Connection ==
  [state : States, open : BOOLEAN, close_after_resp : BOOLEAN, age : Nat, id : Numbers \cup {0},
   kind : {"none", "game", "file", "head"},
   content_state : {"default", "awaiting", "received"}, content : Contents]
Query  == [con : Connections, id : Numbers]
Answer == [con : Connections, id : Numbers, content : Contents]

Held == {con[c].content : c \in Connections} \cup {answer.content : answer \in ToSet(outgoing)}

\* The state is well formed, and every content that the game module allocated is on
\* its way to one connection or held by one, until the server stops: none is lost,
\* none is freed while somebody has it, however queries and timeouts cross.
TypeOK ==
  /\ con \in [Connections -> Connection]
  /\ incoming \in Seq(Query) /\ outgoing \in Seq(Answer)
  /\ pc \in {"listen", "read", "serve", "ended"} /\ todo \subseteq Connections
  /\ main \in {"running", "joining", "joined"}
  /\ main # "joined" => allocated = Held \ {0}
  /\ \A c, d \in Connections : con[c].content = con[d].content /\ c # d => con[c].content = 0

\* What a connection answers was made for the request that it has now, from its
\* text and not from what the text's memory became, although answers come late and
\* connections are freed and taken by others in between.
OwnAnswer ==
  \A c \in Connections :
    con[c].content_state = "received" => con[c].content \in {0, con[c].id}

\* A request is answered, or its connection closed, so that the pool does not run dry.
Answered ==
  \A c \in Connections :
    con[c].state \in {"resp", "send"} ~> con[c].state \in {"none", "recv"} \/ pc = "ended"
=============================================================================
