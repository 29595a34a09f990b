---------------------------- MODULE ServerProofs ----------------------------
(***************************************************************************)
(* Proofs about two parts of the server that share nothing: WebServer and  *)
(* MatchStart.                                                             *)
(*                                                                         *)
(* What WebServer guarantees, for a pool of any size, any timeouts and any *)
(* number of queries: no answer goes to a connection that did not ask for  *)
(* it, and the contents of answers are neither lost nor freed twice.       *)
(*                                                                         *)
(* What MatchStart guarantees, for any players, gametypes and refusals, is *)
(* not inductive. What makes it so: a countdown that is not forced has     *)
(* everybody in a team ready (Committed), and the id that is there during  *)
(* a countdown is none, or one that no match was played under (UnusedId).  *)
(* IdsKept rests on a count: each task under way was given up, or is the   *)
(* one that the flag stands for (Accounted); an id of the service's is     *)
(* only there when the flag is down (FlagDown).                            *)
(***************************************************************************)
EXTENDS WebServer, MatchStart, SequenceTheorems, FunctionTheorems, FiniteSetTheorems, TLAPS

(* The inductive invariant. *)

Types ==
  /\ con \in [Connections -> Connection]
  /\ incoming \in Seq(Query) /\ outgoing \in Seq(Answer)
  /\ pc \in {"listen", "read", "serve", "ended"} /\ todo \subseteq Connections
  /\ main \in {"running", "joining", "joined"}

\* A connection that waits for an answer has a request with a number; one that
\* has the answer has what was made for that number.
Proper(c) ==
  /\ c.content_state = "awaiting" => c.state = "resp"
  /\ c.content_state # "default" => c.state \in {"resp", "send"} /\ c.id # 0
  /\ c.kind = "game" => c.id # 0
  /\ IF c.content_state = "received" THEN c.content \in {0, c.id} ELSE c.content = 0
ConnectionsProper == \A c \in Connections : Proper(con[c])

IdsDiffer == \A c, d \in Connections : con[c].id = con[d].id /\ c # d => con[c].id = 0

\* Each query or answer on its way has a number of its own.
UnderwayDiffer ==
  /\ \A i, j \in 1 .. Len(incoming) : incoming[i].id = incoming[j].id => i = j
  /\ \A i, j \in 1 .. Len(outgoing) : outgoing[i].id = outgoing[j].id => i = j
  /\ \A i \in 1 .. Len(incoming), j \in 1 .. Len(outgoing) : incoming[i].id # outgoing[j].id

\* Who has the number of a query on its way is the one that issued it, and waits.
Own(q) == \A d \in Connections :
            con[d].id = q.id => d = q.con /\ con[d].content_state = "awaiting"
UnderwayOwn ==
  /\ \A i \in 1 .. Len(incoming) : Own(incoming[i])
  /\ \A i \in 1 .. Len(outgoing) : Own(outgoing[i])

\* An answer was made from the text of its query, unless who asked is gone.
Genuine(a) == a.content \in {0, a.id, -a.id} /\ (a.content = -a.id => con[a.con].id # a.id)
AnswersGenuine == \A i \in 1 .. Len(outgoing) : Genuine(outgoing[i])

Bounded == Underway <= MaxQueries
Owned == main # "joined" => allocated = Held \ {0}

Inv ==
  /\ Types /\ ConnectionsProper /\ IdsDiffer /\ UnderwayDiffer /\ UnderwayOwn
  /\ AnswersGenuine /\ Bounded /\ Owned

-----------------------------------------------------------------------------
(* Numbers *)

LEMMA Sizes == MAX_CONNECTIONS \in Nat /\ MaxQueries \in Nat /\ Numbers \subseteq Nat \ {0}
BY SizesAssumption DEF Numbers

LEMMA Fields ==
  ASSUME Types
  PROVE  /\ \A c \in Connections : con[c] \in Connection /\ con[c].id \in Nat
         /\ \A i \in 1 .. Len(incoming) : /\ incoming[i] \in Query
                                         /\ incoming[i].id \in Nat \ {0}
         /\ \A i \in 1 .. Len(outgoing) : /\ outgoing[i] \in Answer /\ outgoing[i].con \in Connections
                                         /\ outgoing[i].id \in Nat \ {0}
<1>1. \A c \in Connections : con[c] \in Connection
  BY DEF Types
<1>2. \A i \in 1 .. Len(incoming) : incoming[i] \in Query
  BY DEF Types
<1>3. \A i \in 1 .. Len(outgoing) : outgoing[i] \in Answer
  BY DEF Types
<1>4. \A c \in Connection : c.id \in Nat
  <2>1. \A c \in Connection : c.id \in Numbers \cup {0}
    BY DEF Connection
  <2>2. Numbers \cup {0} \subseteq Nat
    BY Sizes
  <2> QED BY <2>1, <2>2
<1>5. (\A q \in Query : q.id \in Nat \ {0}) /\ (\A a \in Answer : a.id \in Nat \ {0} /\ a.con \in Connections)
  BY Sizes DEF Query, Answer
<1> QED BY <1>1, <1>2, <1>3, <1>4, <1>5

\* There is always a number that is not in use.
LEMMA FreshIsFresh ==
  ASSUME Types, Bounded
  PROVE  /\ FreshId \in Numbers
         /\ \A c \in Connections : con[c].id # FreshId
         /\ \A i \in 1 .. Len(incoming) : incoming[i].id # FreshId
         /\ \A i \in 1 .. Len(outgoing) : outgoing[i].id # FreshId
<1> DEFINE taken == {q.id : q \in OnTheirWay} \cup {con[c].id : c \in Connections}
           total == Underway + MAX_CONNECTIONS
           at == [i \in 1 .. total |->
                    IF i <= Len(incoming) THEN incoming[i].id
                    ELSE IF i <= Underway THEN outgoing[i - Len(incoming)].id
                    ELSE con[i - Underway].id]
<1>1. Len(incoming) \in Nat /\ Len(outgoing) \in Nat /\ Underway \in Nat /\ total \in Nat
      /\ total <= MaxQueries + MAX_CONNECTIONS
  BY Sizes DEF Types, Bounded, Underway
<1>2. \A n \in taken : \E i \in 1 .. total : at[i] = n
  <2> SUFFICES ASSUME NEW n \in taken PROVE \E i \in 1 .. total : at[i] = n
    OBVIOUS
  <2>1. CASE \E i \in 1 .. Len(incoming) : n = incoming[i].id
    <3>1. PICK i \in 1 .. Len(incoming) : n = incoming[i].id
      BY <2>1
    <3>2. i \in 1 .. total /\ i <= Len(incoming)
      BY <1>1, Sizes, <3>1 DEF Underway
    <3> QED BY <3>1, <3>2
  <2>2. CASE \E i \in 1 .. Len(outgoing) : n = outgoing[i].id
    <3>1. PICK i \in 1 .. Len(outgoing) : n = outgoing[i].id
      BY <2>2
    <3> DEFINE k == i + Len(incoming)
    <3>2. k \in 1 .. total /\ ~(k <= Len(incoming)) /\ k <= Underway /\ k - Len(incoming) = i
      BY <1>1, Sizes, <3>1 DEF Underway
    <3>3. at[k] = n
      BY <3>1, <3>2
    <3> QED BY <3>2, <3>3
  <2>3. CASE \E c \in Connections : n = con[c].id
    <3>1. PICK c \in Connections : n = con[c].id
      BY <2>3
    <3> DEFINE k == c + Underway
    <3>2. k \in 1 .. total /\ ~(k <= Len(incoming)) /\ ~(k <= Underway) /\ k - Underway = c
      BY <1>1, Sizes, <3>1 DEF Underway, Connections
    <3>3. at[k] = n
      BY <3>1, <3>2
    <3> QED BY <3>2, <3>3
  <2>4. DOMAIN incoming = 1 .. Len(incoming) /\ DOMAIN outgoing = 1 .. Len(outgoing)
    BY DEF Types
  <2> QED BY <2>1, <2>2, <2>3, <2>4 DEF OnTheirWay, ToSet
<1> HIDE DEF taken
<1>3. at \in Surjection(1 .. total, {at[i] : i \in 1 .. total})
  BY Fun_IsSurj
<1>4. /\ IsFiniteSet({at[i] : i \in 1 .. total})
      /\ Cardinality({at[i] : i \in 1 .. total}) <= Cardinality(1 .. total)
  BY <1>1, <1>3, FS_Surjection, FS_Interval
<1>5. IsFiniteSet(taken) /\ Cardinality(taken) <= Cardinality({at[i] : i \in 1 .. total})
  <2>1. taken \in SUBSET {at[i] : i \in 1 .. total}
    BY <1>2
  <2> QED BY <2>1, <1>4, FS_Subset
<1>6. Cardinality(1 .. total) = total /\ Cardinality(Numbers) = MAX_CONNECTIONS + MaxQueries + 1
  <2> HIDE DEF total
  <2>1. Cardinality(1 .. total) = total
    BY <1>1, FS_Interval
  <2>2. MAX_CONNECTIONS + MaxQueries + 1 \in Nat \ {0}
    BY Sizes
  <2>3. Cardinality(1 .. MAX_CONNECTIONS + MaxQueries + 1) = MAX_CONNECTIONS + MaxQueries + 1
    BY <2>2, FS_Interval
  <2> QED BY <2>1, <2>3 DEF Numbers
<1>7. ~(Numbers \subseteq taken)
  <2> SUFFICES ASSUME Numbers \subseteq taken PROVE FALSE
    OBVIOUS
  <2>1. Cardinality(Numbers) <= Cardinality(taken)
    BY <1>5, FS_Subset
  <2>2. Cardinality(taken) \in Nat /\ Cardinality({at[i] : i \in 1 .. total}) \in Nat
    BY <1>4, <1>5, FS_CardinalityType
  <2> HIDE DEF at
  <2> QED BY <2>1, <2>2, <1>1, <1>4, <1>5, <1>6, Sizes
<1>8. FreshId \in Numbers /\ FreshId \notin taken
  BY <1>7, Zenon DEF FreshId, taken
<1>9. DOMAIN incoming = 1 .. Len(incoming) /\ DOMAIN outgoing = 1 .. Len(outgoing)
  BY DEF Types
<1> HIDE DEF total, at
<1>10. (\A i \in 1 .. Len(incoming) : incoming[i] \in OnTheirWay)
       /\ (\A i \in 1 .. Len(outgoing) : outgoing[i] \in OnTheirWay)
  BY <1>9, Zenon DEF OnTheirWay, ToSet
<1> QED BY <1>8, <1>10, Zenon DEF taken

-----------------------------------------------------------------------------
(* What becomes of one connection *)

LEMMA ReceivedProper ==
  ASSUME NEW c \in Connection, Proper(c), NEW got \in Received(c), FreshId \in Numbers
  PROVE  /\ got \in Connection /\ Proper(got)
         /\ got.id \in {c.id, FreshId} /\ got.content = c.content
         /\ got.content_state = c.content_state
         /\ c.content_state # "default" => got.id = c.id
<1>1. CASE c.state # "recv"
  BY <1>1 DEF Received
<1>2. CASE c.state = "recv"
  <2>1. c.content_state = "default" /\ c.content = 0
    BY <1>2 DEF Proper
  <2> DEFINE part == [c EXCEPT !.age = 0]
             query == [part EXCEPT !.state = "resp", !.kind = "game", !.id = FreshId]
             whole == {query, [query EXCEPT !.close_after_resp = TRUE],
                       [part EXCEPT !.state = "resp", !.kind = "head"],
                       [part EXCEPT !.state = "resp", !.kind = "file", !.close_after_resp = TRUE]}
             all == {part} \cup whole
  <2>2. \E g \in all \cup {c} : got = g \/ got = [g EXCEPT !.open = FALSE]
    <3>1. Received(c) = all \cup {[g EXCEPT !.open = FALSE] : g \in all \cup {c}}
      BY <1>2, Zenon DEF Received
    <3> HIDE DEF part, query, whole, all
    <3> QED BY <3>1
  <2>3. FreshId # 0
    BY Sizes
  <2>4. PICK g \in all \cup {c} : got = g \/ got = [g EXCEPT !.open = FALSE]
    BY <2>2
  <2> QED
    <3>1. /\ g \in Connection /\ Proper(g) /\ g.id \in {c.id, FreshId}
          /\ g.content = 0 /\ g.content_state = "default"
      <4>1. part \in Connection /\ part.id = c.id /\ part.content = 0 /\ part.content_state = "default"
            /\ part.kind = c.kind
        BY <2>1 DEF Connection
      <4> HIDE DEF part
      <4>2. query \in Connection /\ query.id = FreshId /\ query.content = 0
            /\ query.content_state = "default"
        BY <4>1 DEF Connection, States
      <4> HIDE DEF query
      <4>3. CASE g = part
        BY <4>1, <4>3, <2>1 DEF Proper
      <4>4. CASE g = query
        BY <4>2, <4>4, <2>3 DEF Proper
      <4>5. CASE g = [query EXCEPT !.close_after_resp = TRUE]
        BY <4>2, <4>5, <2>3 DEF Proper, Connection
      <4>6. CASE g = [part EXCEPT !.state = "resp", !.kind = "head"]
        <5>1. g \in Connection /\ g.id = part.id /\ g.content = 0 /\ g.content_state = "default"
              /\ g.kind = "head"
          BY <4>1, <4>6 DEF Connection, States
        <5> QED BY <5>1, <4>1 DEF Proper
      <4>7. CASE g = [part EXCEPT !.state = "resp", !.kind = "file", !.close_after_resp = TRUE]
        <5>1. g \in Connection /\ g.id = part.id /\ g.content = 0 /\ g.content_state = "default"
              /\ g.kind = "file"
          BY <4>1, <4>7 DEF Connection, States
        <5> QED BY <5>1, <4>1 DEF Proper
      <4>8. CASE g = c
        BY <2>1, <4>8
      <4>9. g \in {c, part, query, [query EXCEPT !.close_after_resp = TRUE],
                   [part EXCEPT !.state = "resp", !.kind = "head"],
                   [part EXCEPT !.state = "resp", !.kind = "file", !.close_after_resp = TRUE]}
        BY <2>4, Zenon
      <4> QED BY <4>9, <4>8, <4>3, <4>4, <4>5, <4>6, <4>7
    <3>2. /\ got.state = g.state /\ got.id = g.id /\ got.kind = g.kind
          /\ got.content = g.content /\ got.content_state = g.content_state /\ got \in Connection
      BY <2>4, <3>1 DEF Connection
    <3> QED BY <3>1, <3>2, <2>1 DEF Proper
<1> QED BY <1>1, <1>2

LEMMA RespondedProper ==
  ASSUME NEW c \in Connection, Proper(c)
  PROVE  /\ Responded(c) \in Connection /\ Proper(Responded(c))
         /\ Responded(c).id = c.id /\ Responded(c).content = c.content
         /\ Responded(c).content_state = IF Asks(c) THEN "awaiting" ELSE c.content_state
<1>1. CASE Asks(c)
  <2>1. Responded(c) = [c EXCEPT !.content_state = "awaiting", !.age = 0]
    BY <1>1 DEF Responded
  <2> DEFINE waits == [c EXCEPT !.content_state = "awaiting"]
  <2>2. waits \in Connection
    BY DEF Connection
  <2>3. Responded(c) \in Connection
    <3>1. Responded(c) = [waits EXCEPT !.age = 0]
      BY <2>1
    <3> HIDE DEF waits
    <3> QED BY <2>2, <3>1 DEF Connection
  <2>4. /\ Responded(c).id = c.id /\ Responded(c).content = c.content
        /\ Responded(c).content_state = "awaiting" /\ Responded(c).kind = c.kind
        /\ Responded(c).state = "resp"
    BY <1>1, <2>1 DEF Asks, Connection
  <2> QED BY <1>1, <2>3, <2>4 DEF Asks, Proper
<1>2. CASE ~Asks(c)
  <2>1. Responded(c) = IF c.state = "resp" /\ c.content_state # "awaiting"
                       THEN [c EXCEPT !.state = "send"] ELSE c
    BY <1>2 DEF Responded
  <2> QED BY <1>2, <2>1 DEF Proper, Connection, States
<1> QED BY <1>1, <1>2

\* A connection whose answer is over.
LEMMA Over ==
  ASSUME NEW c \in Connection
  PROVE  LET over == NewResponse([c EXCEPT !.state = "recv", !.age = 0])
             last == [over EXCEPT !.open = FALSE]
         IN  \A r \in {last, NewRequest(over)} :
               /\ r \in Connection /\ (Proper(r) \/ (c.kind = "game" /\ c.id = 0))
               /\ r.id \in {c.id, 0} /\ r.content = 0 /\ r.content_state = "default"
<1> DEFINE idle == [c EXCEPT !.state = "recv", !.age = 0]
           over == NewResponse(idle)
           last == [over EXCEPT !.open = FALSE]
           next == NewRequest(over)
<1>1. idle \in Connection /\ idle.id = c.id /\ idle.kind = c.kind
  BY DEF Connection, States
<1> HIDE DEF idle
<1>2. /\ over \in Connection /\ over.id = c.id /\ over.kind = c.kind
      /\ over.content = 0 /\ over.content_state = "default"
  BY <1>1 DEF NewResponse, Connection, Contents
<1> HIDE DEF over
<1>3. /\ last \in Connection /\ last.id = c.id /\ last.kind = c.kind
      /\ last.content = 0 /\ last.content_state = "default"
  BY <1>2 DEF Connection
<1>4. /\ next \in Connection /\ next.id = 0 /\ next.kind = "none"
      /\ next.content = 0 /\ next.content_state = "default"
  BY <1>2 DEF NewRequest, Connection
<1> HIDE DEF last, next
<1>5. \A r \in {last, next} :
        /\ r \in Connection /\ (Proper(r) \/ (c.kind = "game" /\ c.id = 0))
        /\ r.id \in {c.id, 0} /\ r.content = 0 /\ r.content_state = "default"
  BY <1>3, <1>4 DEF Proper
<1> QED BY <1>5 DEF over, idle, last, next

LEMMA SentProper ==
  ASSUME NEW c \in Connection, Proper(c), NEW sent \in Sent(c)
  PROVE  /\ sent \in Connection /\ Proper(sent) /\ sent.id \in {c.id, 0}
         /\ \/ /\ sent.content = c.content /\ sent.content_state = c.content_state /\ sent.id = c.id
            \/ /\ sent.content = 0 /\ sent.content_state = "default"
               /\ c.content_state # "awaiting"
<1> DEFINE over == NewResponse([c EXCEPT !.state = "recv", !.age = 0])
           last == [over EXCEPT !.open = FALSE]
<1>1. \/ sent = c \/ sent = [c EXCEPT !.open = FALSE]
      \/ c.state = "send" /\ sent \in {last, NewRequest(over)}
  BY DEF Sent
<1>2. CASE sent = c
  BY <1>2
<1>3. CASE sent = [c EXCEPT !.open = FALSE]
  BY <1>3 DEF Proper, Connection
<1>4. CASE c.state = "send" /\ sent \in {last, NewRequest(over)}
  <2>1. c.content_state # "awaiting" /\ ~(c.kind = "game" /\ c.id = 0)
    BY <1>4 DEF Proper
  <2> QED BY <1>4, <2>1, Over
<1> QED BY <1>1, <1>2, <1>3, <1>4

LEMMA UnusedProper ==
  /\ Unused \in Connection /\ Proper(Unused)
  /\ Unused.id = 0 /\ Unused.content = 0 /\ Unused.content_state = "default"
BY DEF Unused, Connection, Proper, States, Contents

-----------------------------------------------------------------------------
(* Who holds which content *)

LEMMA HeldIs ==
  ASSUME NEW cs \in [Connections -> Connection], NEW out \in Seq(Answer)
  PROVE  \A x : x \in {cs[c].content : c \in Connections} \cup {a.content : a \in ToSet(out)}
                <=> \/ \E c \in Connections : cs[c].content = x
                    \/ \E i \in 1 .. Len(out) : out[i].content = x
<1>1. DOMAIN out = 1 .. Len(out)
  OBVIOUS
<1>2. ToSet(out) = {out[i] : i \in 1 .. Len(out)}
  BY <1>1 DEF ToSet
<1> QED BY <1>2, Zenon

\* A content is held once.
LEMMA HeldOnce ==
  ASSUME Inv
  PROVE  /\ \A c \in Connections : con[c].content # 0 =>
              /\ con[c].content_state = "received" /\ con[c].content = con[c].id
              /\ \A d \in Connections : con[d].content = con[c].content => d = c
              /\ \A i \in 1 .. Len(outgoing) : outgoing[i].content # con[c].content
         /\ \A i \in 1 .. Len(outgoing) : outgoing[i].content # 0 =>
              \A j \in 1 .. Len(outgoing) : outgoing[j].content = outgoing[i].content => j = i
<1> USE DEF Inv
<1>1. ASSUME NEW c \in Connections, con[c].content # 0
      PROVE  con[c].content_state = "received" /\ con[c].content = con[c].id
  BY <1>1 DEF ConnectionsProper, Proper
<1>2. \A c, d \in Connections : con[c].content # 0 /\ con[d].content = con[c].content => d = c
  BY <1>1 DEF IdsDiffer
<1>3. \A i \in 1 .. Len(outgoing) :
        /\ outgoing[i].id \in Nat \ {0} /\ outgoing[i].content \in {0, outgoing[i].id, -outgoing[i].id}
  BY Fields DEF AnswersGenuine, Genuine
<1>4. \A c \in Connections : con[c].id \in Nat
  BY Fields
<1>5. ASSUME NEW c \in Connections, con[c].content # 0, NEW i \in 1 .. Len(outgoing),
             outgoing[i].content = con[c].content
      PROVE  FALSE
  <2>1. con[c].id = outgoing[i].id /\ con[c].content_state = "received"
    BY <1>1, <1>3, <1>4, <1>5
  <2> QED BY <2>1 DEF UnderwayOwn, Own
<1>6. \A i, j \in 1 .. Len(outgoing) :
        outgoing[i].content # 0 /\ outgoing[j].content = outgoing[i].content => j = i
  <2> SUFFICES ASSUME NEW i \in 1 .. Len(outgoing), NEW j \in 1 .. Len(outgoing),
                      outgoing[i].content # 0, outgoing[j].content = outgoing[i].content
               PROVE  j = i
    OBVIOUS
  <2>1. outgoing[i].id = outgoing[j].id
    BY <1>3
  <2> QED BY <2>1 DEF UnderwayDiffer
<1> QED BY <1>1, <1>2, <1>5, <1>6

-----------------------------------------------------------------------------
(* Steps that issue no query and deliver no answer *)

\* What a connection may become in such a step.
Calm(old, new) ==
  /\ new \in Connection /\ Proper(new)
  /\ \/ new.id = 0
     \/ new.id = old.id /\ (old.content_state = "awaiting" => new.content_state = "awaiting")

LEMMA CalmStep ==
  ASSUME Inv, con' \in [Connections -> Connection], UNCHANGED <<incoming, outgoing>>,
         \A c \in Connections : Calm(con[c], con'[c])
  PROVE  (ConnectionsProper /\ IdsDiffer /\ UnderwayDiffer /\ UnderwayOwn
          /\ AnswersGenuine /\ Bounded)'
<1> USE DEF Inv
<1>1. ConnectionsProper'
  BY DEF ConnectionsProper, Calm
<1>2. IdsDiffer'
  BY DEF IdsDiffer, Calm
<1>3. UnderwayDiffer' /\ Bounded'
  BY DEF UnderwayDiffer, Bounded, Underway
<1>4. /\ \A i \in 1 .. Len(incoming) : incoming[i].id # 0
      /\ \A i \in 1 .. Len(outgoing) : outgoing[i].id # 0 /\ outgoing[i].con \in Connections
  BY Fields
<1>5. UnderwayOwn'
  BY <1>4 DEF UnderwayOwn, Own, Calm
<1>6. AnswersGenuine'
  BY <1>4 DEF AnswersGenuine, Genuine, Calm
<1> QED BY <1>1, <1>2, <1>3, <1>5, <1>6

LEMMA ListenStep ==
  ASSUME Inv, SV_Web_Listen
  PROVE  Inv'
<1> USE DEF Inv
<1>1. PICK c \in Connections \ Active :
        con' = [con EXCEPT ![c] = [Unused EXCEPT !.state = "recv", !.open = TRUE]]
  BY DEF SV_Web_Listen
<1>2. UNCHANGED <<incoming, outgoing, allocated, pc, todo, main>>
  BY DEF SV_Web_Listen, WebOnly
<1> DEFINE new == [Unused EXCEPT !.state = "recv", !.open = TRUE]
<1>3. /\ new \in Connection /\ Proper(new)
      /\ new.id = 0 /\ new.content = 0 /\ new.content_state = "default"
  BY DEF Unused, Connection, Proper, States, Contents
<1> HIDE DEF new
<1>4. /\ con' \in [Connections -> Connection] /\ con'[c] = new
      /\ \A d \in Connections : d # c => con'[d] = con[d]
  BY <1>1, <1>3 DEF Types, new
<1>5. con[c].state = "none" /\ con[c].content = 0
  <2>1. con[c].state = "none"
    BY <1>1 DEF Active
  <2> QED BY <2>1, <1>1 DEF ConnectionsProper, Proper
<1>6. \A d \in Connections : Calm(con[d], con'[d])
  BY <1>3, <1>4 DEF Types, ConnectionsProper, Calm
<1>7. (ConnectionsProper /\ IdsDiffer /\ UnderwayDiffer /\ UnderwayOwn /\ AnswersGenuine /\ Bounded)'
  BY <1>2, <1>4, <1>6, CalmStep
<1>8. Types'
  BY <1>2, <1>4 DEF Types
<1>9. Owned'
  <2>1. \A d \in Connections : con'[d].content = con[d].content
    BY <1>3, <1>4, <1>5
  <2>2. Held' = Held
    BY <2>1, <1>2 DEF Held
  <2> QED BY <2>2, <1>2 DEF Owned
<1> QED BY <1>7, <1>8, <1>9

\* Connections that are closed in the set gone take their contents with them.
LEMMA CloseStep ==
  ASSUME Inv, UNCHANGED <<incoming, outgoing, main>>, con' \in [Connections -> Connection],
         NEW gone \in SUBSET Connections,
         \A c \in gone : con'[c] = Unused,
         \A c \in Connections \ gone :
            /\ Calm(con[c], con'[c]) /\ con'[c].content = con[c].content,
         allocated' = allocated \ UNION {Freed(con[c]) : c \in gone},
         todo' \subseteq Connections, pc' \in {"listen", "read", "serve", "ended"}
  PROVE  Inv'
<1> USE DEF Inv
<1>1. \A c \in Connections : Calm(con[c], con'[c])
  BY UnusedProper DEF Calm
<1>2. (ConnectionsProper /\ IdsDiffer /\ UnderwayDiffer /\ UnderwayOwn /\ AnswersGenuine /\ Bounded)'
  BY <1>1, CalmStep
<1>3. Types'
  BY DEF Types
<1>4. Owned'
  <2> SUFFICES ASSUME main' # "joined" PROVE allocated' = Held' \ {0}
    BY DEF Owned
  <2>1. allocated = Held \ {0}
    BY DEF Owned
  <2>2. \A x : x \in Held <=> \/ \E c \in Connections : con[c].content = x
                              \/ \E i \in 1 .. Len(outgoing) : outgoing[i].content = x
    BY HeldIs DEF Held, Types
  <2>3. \A x : x \in Held' <=> \/ \E c \in Connections : con'[c].content = x
                               \/ \E i \in 1 .. Len(outgoing) : outgoing[i].content = x
    <3>1. Held' = {con'[c].content : c \in Connections} \cup {a.content : a \in ToSet(outgoing)}
      BY Zenon DEF Held
    <3>2. con' \in [Connections -> Connection] /\ outgoing \in Seq(Answer)
      BY DEF Types
    <3>3. \A x : x \in {con'[c].content : c \in Connections} \cup {a.content : a \in ToSet(outgoing)}
            <=> \/ \E c \in Connections : con'[c].content = x
                \/ \E i \in 1 .. Len(outgoing) : outgoing[i].content = x
      BY <3>2, HeldIs, Zenon
    <3> QED BY <3>1, <3>3, Zenon
  <2>4. \A x : x \in UNION {Freed(con[c]) : c \in gone} <=> \E c \in gone : x = con[c].content /\ x # 0
    BY DEF Freed
  <2>5. \A c \in gone : con'[c].content = 0
    BY UnusedProper
  <2>6. ASSUME NEW x, x # 0
        PROVE  x \in allocated' <=> x \in Held'
    <3>1. x \in allocated' <=> x \in Held /\ ~ \E c \in gone : con[c].content = x
      BY <2>1, <2>4, <2>6
    <3>2. ASSUME NEW c \in gone, con[c].content = x
          PROVE  x \notin Held'
      <4>1. \A d \in Connections : con[d].content = x => d = c
        BY <3>2, <2>6, HeldOnce
      <4>2. \A i \in 1 .. Len(outgoing) : outgoing[i].content # x
        BY <3>2, <2>6, HeldOnce
      <4> QED BY <4>1, <4>2, <2>3, <2>5, <2>6
    <3>3. ASSUME ~ \E c \in gone : con[c].content = x
          PROVE  x \in Held <=> x \in Held'
      BY <3>3, <2>2, <2>3, <2>5, <2>6
    <3> QED BY <3>1, <3>2, <3>3
  <2>7. 0 \notin allocated'
    BY <2>1
  <2> QED BY <2>6, <2>7
<1> QED BY <1>2, <1>3, <1>4

LEMMA CloseDeadStep ==
  ASSUME Inv, CloseDead
  PROVE  Inv'
<1> USE DEF Inv
<1> DEFINE later(c) == [con[c] EXCEPT !.age = IF @ > Timeout(con[c]) THEN @ ELSE @ + 1]
           dead == {c \in Active : ~con[c].open \/ Silent(later(c))}
           idle == Connections \ Active
<1>1. UNCHANGED <<incoming, outgoing, main, todo>> /\ pc' = "listen"
  BY DEF CloseDead, WebOnly
<1>2. CASE ~running
  <2>1. UNCHANGED <<con, allocated>>
    BY <1>2 DEF CloseDead
  <2> QED BY <2>1, <1>1 DEF Types, ConnectionsProper, Proper, IdsDiffer, UnderwayDiffer,
       UnderwayOwn, Own, AnswersGenuine, Genuine, Bounded, Underway, Owned, Held
<1>3. CASE running
  <2>1. /\ con' = [c \in Connections |-> IF c \in dead \/ c \notin Active THEN Unused ELSE later(c)]
        /\ allocated' = allocated \ UNION {Freed(con[c]) : c \in dead}
    BY <1>3 DEF CloseDead
  <2>2. ASSUME NEW c \in Connections
        PROVE  /\ Calm(con[c], later(c)) /\ later(c) \in Connection
               /\ later(c).content = con[c].content
    <3>1. con[c] \in Connection /\ Proper(con[c])
      BY DEF Types, ConnectionsProper
    <3>2. /\ later(c) \in Connection /\ later(c).content = con[c].content
          /\ later(c).id = con[c].id /\ later(c).content_state = con[c].content_state
          /\ later(c).kind = con[c].kind /\ later(c).state = con[c].state
      BY <3>1 DEF Connection
    <3> HIDE DEF later
    <3>3. Proper(later(c))
      BY <3>1, <3>2 DEF Proper
    <3> QED BY <3>2, <3>3 DEF Calm
  <2> DEFINE gone == dead \cup idle
  <2>3. dead \subseteq Connections /\ gone \subseteq Connections /\ Active \subseteq Connections
    BY DEF Active
  <2> HIDE DEF later, dead
  <2>4. con' \in [Connections -> Connection]
    BY <2>1, <2>2, UnusedProper
  <2>5. \A c \in gone : con'[c] = Unused
    BY <2>1, <2>3
  <2>6. \A c \in Connections \ gone : Calm(con[c], con'[c]) /\ con'[c].content = con[c].content
    BY <2>1, <2>2
  <2>7. \A c \in idle : Freed(con[c]) = {}
    <3>1. \A c \in idle : con[c].state = "none"
      BY DEF Active
    <3>2. \A c \in idle : con[c].content = 0
      BY <3>1 DEF ConnectionsProper, Proper
    <3> QED BY <3>2 DEF Freed
  <2>8. UNION {Freed(con[c]) : c \in gone} = UNION {Freed(con[c]) : c \in dead}
    BY <2>7
  <2>9. allocated' = allocated \ UNION {Freed(con[c]) : c \in gone}
    BY <2>1, <2>8
  <2>10. todo' \subseteq Connections /\ pc' \in {"listen", "read", "serve", "ended"}
    BY <1>1 DEF Types
  <2> HIDE DEF gone, idle
  <2> QED BY <2>3, <2>4, <2>5, <2>6, <2>9, <2>10, <1>1, CloseStep
<1> QED BY <1>2, <1>3

LEMMA ShutdownConnectionsStep ==
  ASSUME Inv, SV_Web_ShutdownConnections
  PROVE  Inv'
<1> USE DEF Inv
<1> DEFINE gone == {d \in Connections : con[d].open}
<1>1. /\ con' = [c \in Connections |-> IF con[c].open THEN Unused ELSE con[c]]
      /\ allocated' = allocated \ UNION {Freed(con[c]) : c \in gone}
      /\ UNCHANGED <<incoming, outgoing, main>> /\ pc' = "ended" /\ todo' = {}
  BY DEF SV_Web_ShutdownConnections, WebOnly
<1>2. con' \in [Connections -> Connection]
  BY <1>1, UnusedProper DEF Types
<1>3. \A c \in gone : con'[c] = Unused
  BY <1>1
<1>4. \A c \in Connections \ gone : Calm(con[c], con'[c]) /\ con'[c].content = con[c].content
  BY <1>1 DEF Types, ConnectionsProper, Calm
<1> HIDE DEF gone
<1>5. gone \in SUBSET Connections
  BY DEF gone
<1> QED BY <1>1, <1>2, <1>3, <1>4, <1>5, CloseStep

\* The other steps that leave the connections and their contents alone.
LEMMA PassStep ==
  ASSUME Inv, UNCHANGED <<con, incoming, outgoing, allocated>>,
         todo' \subseteq Connections, pc' \in {"listen", "read", "serve", "ended"},
         main' \in {"running", "joining", "joined"}, main' # "joined" => main # "joined"
  PROVE  Inv'
<1> USE DEF Inv
<1>1. Types'
  BY DEF Types
<1>2. ConnectionsProper' /\ IdsDiffer'
  BY DEF ConnectionsProper, IdsDiffer
<1>3. UnderwayDiffer' /\ UnderwayOwn' /\ AnswersGenuine' /\ Bounded'
  BY DEF UnderwayDiffer, UnderwayOwn, Own, AnswersGenuine, Genuine, Bounded, Underway
<1>4. Owned'
  BY DEF Owned, Held
<1> QED BY <1>1, <1>2, <1>3, <1>4

-----------------------------------------------------------------------------
(* A connection is served *)

LEMMA AppendFacts ==
  ASSUME NEW S, NEW s \in Seq(S), NEW e \in S
  PROVE  /\ Append(s, e) \in Seq(S) /\ Len(Append(s, e)) = Len(s) + 1
         /\ \A i \in 1 .. Len(s) + 1 : Append(s, e)[i] = IF i = Len(s) + 1 THEN e ELSE s[i]
OBVIOUS

LEMMA TailFacts ==
  ASSUME NEW S, NEW s \in Seq(S), s # <<>>
  PROVE  /\ Head(s) = s[1] /\ Head(s) \in S /\ 1 \in 1 .. Len(s)
         /\ Tail(s) \in Seq(S) /\ Len(Tail(s)) = Len(s) - 1
         /\ \A i \in 1 .. Len(s) - 1 : Tail(s)[i] = s[i + 1] /\ i + 1 \in 1 .. Len(s)
BY HeadTailProperties

\* What a served connection becomes: as it was, or with a fresh number, or reset.
LEMMA Served ==
  ASSUME Inv, NEW c \in Connections, NEW got \in Received(con[c]) \cup {con[c]},
         NEW sent \in Sent(Responded(got))
  PROVE  /\ got \in Connection /\ Proper(got) /\ got.id \in {con[c].id, FreshId}
         /\ got.content = con[c].content
         /\ sent \in Connection /\ Proper(sent) /\ sent.id \in {got.id, 0}
         /\ con[c].content_state # "default" => got.id = con[c].id
         /\ got.content_state = con[c].content_state
         /\ Asks(got) => /\ sent.id = got.id /\ got.id \in Numbers
                         /\ sent.content_state = "awaiting" /\ con[c].content_state = "default"
         /\ con[c].content_state = "awaiting" => sent.content_state = "awaiting"
         /\ IF sent.content_state = "default" THEN sent.content = 0
            ELSE sent.content = con[c].content
<1> USE DEF Inv
<1>1. con[c] \in Connection /\ Proper(con[c]) /\ FreshId \in Numbers
  BY FreshIsFresh, Fields DEF ConnectionsProper
<1>2. /\ got \in Connection /\ Proper(got) /\ got.id \in {con[c].id, FreshId}
      /\ got.content = con[c].content /\ got.content_state = con[c].content_state
      /\ con[c].content_state # "default" => got.id = con[c].id
  BY <1>1, ReceivedProper
<1> DEFINE r == Responded(got)
<1>3. /\ r \in Connection /\ Proper(r) /\ r.id = got.id /\ r.content = got.content
      /\ r.content_state = IF Asks(got) THEN "awaiting" ELSE got.content_state
  BY <1>2, RespondedProper
<1> HIDE DEF r
<1>4. /\ sent \in Connection /\ Proper(sent) /\ sent.id \in {r.id, 0}
      /\ \/ /\ sent.content = r.content /\ sent.content_state = r.content_state /\ sent.id = r.id
         \/ /\ sent.content = 0 /\ sent.content_state = "default"
            /\ r.content_state # "awaiting"
  <2>1. sent \in Sent(r)
    BY DEF r
  <2> QED BY <1>3, <2>1, SentProper
<1>5. Asks(got) => got.id \in Numbers /\ got.content_state = "default"
  <2>1. Asks(got) => got.kind = "game" /\ got.content_state = "default"
    BY DEF Asks
  <2>2. got.id \in Numbers \cup {0}
    BY <1>2 DEF Connection
  <2> QED BY <2>1, <2>2, <1>2 DEF Proper
<1>6. got.content_state = "default" => got.content = 0
  BY <1>2 DEF Proper
<1>7. sent.content_state = "default" => sent.content = 0
  BY <1>4 DEF Proper
<1>8. Asks(got) \/ got.content_state = "awaiting" =>
        r.content_state = "awaiting" /\ sent.content_state = "awaiting" /\ sent.id = got.id
  BY <1>3, <1>4, <1>5
<1>9. sent.content_state # "default" => sent.content = con[c].content
  BY <1>2, <1>3, <1>4
<1> QED BY <1>2, <1>3, <1>4, <1>5, <1>7, <1>8, <1>9

\* What a step that serves one connection does to the whole.
LEMMA OneStep ==
  ASSUME Inv, NEW c \in Connections, NEW new \in Connection, NEW asks \in BOOLEAN, Proper(new),
         con' = [con EXCEPT ![c] = new], UNCHANGED <<outgoing, pc, main>>, todo' \subseteq Connections,
         new.id \in {con[c].id, FreshId, 0},
         con[c].content_state = "awaiting" => new.id = con[c].id /\ new.content_state = "awaiting",
         \/ new.content = con[c].content /\ allocated' = allocated
         \/ new.content = 0 /\ allocated' = allocated \ Freed(con[c]),
         incoming' = IF asks THEN Append(incoming, [con |-> c, id |-> new.id]) ELSE incoming,
         asks => /\ new.id \in Numbers /\ con[c].content_state = "default"
                 /\ new.content_state = "awaiting" /\ Underway < MaxQueries
  PROVE  Inv'
<1> USE DEF Inv
<1>1. /\ con' \in [Connections -> Connection] /\ con'[c] = new
      /\ \A d \in Connections : d # c => con'[d] = con[d]
  BY DEF Types
<1>2. /\ FreshId \in Numbers /\ FreshId # 0
      /\ \A d \in Connections : con[d].id # FreshId
      /\ \A i \in 1 .. Len(incoming) : incoming[i].id # FreshId
      /\ \A i \in 1 .. Len(outgoing) : outgoing[i].id # FreshId
  BY FreshIsFresh, Sizes
<1> DEFINE query == [con |-> c, id |-> new.id]
<1>3. asks => query \in Query
  BY DEF Query
<1>4. /\ incoming' \in Seq(Query)
      /\ asks => /\ Len(incoming') = Len(incoming) + 1
                 /\ \A i \in 1 .. Len(incoming) + 1 :
                      incoming'[i] = IF i = Len(incoming) + 1 THEN query ELSE incoming[i]
      /\ ~asks => incoming' = incoming
  BY <1>3, AppendFacts DEF Types
<1>5. Types'
  BY <1>1, <1>4 DEF Types
<1>6. ConnectionsProper'
  BY <1>1 DEF ConnectionsProper
<1>7. IdsDiffer'
  BY <1>1, <1>2 DEF IdsDiffer
\* Nobody on the way has the number that the connection has now, unless it waits.
<1>8. /\ \A i \in 1 .. Len(incoming) : new.id = incoming[i].id =>
           /\ ~asks /\ incoming[i].con = c /\ new.content_state = "awaiting" /\ con[c].id = new.id
      /\ \A i \in 1 .. Len(outgoing) : new.id = outgoing[i].id =>
           /\ ~asks /\ outgoing[i].con = c /\ new.content_state = "awaiting" /\ con[c].id = new.id
  <2>1. new.id # 0 /\ new.id # FreshId => new.id = con[c].id
    OBVIOUS
  <2>2. ASSUME NEW i \in 1 .. Len(incoming), new.id = incoming[i].id
        PROVE  /\ ~asks /\ incoming[i].con = c /\ new.content_state = "awaiting" /\ con[c].id = new.id
    <3>1. con[c].id = incoming[i].id
      BY <1>2, <2>1, <2>2, Fields
    <3>2. incoming[i].con = c /\ con[c].content_state = "awaiting"
      BY <3>1 DEF UnderwayOwn, Own
    <3> QED BY <3>1, <3>2, <2>2
  <2>3. ASSUME NEW i \in 1 .. Len(outgoing), new.id = outgoing[i].id
        PROVE  /\ ~asks /\ outgoing[i].con = c /\ new.content_state = "awaiting" /\ con[c].id = new.id
    <3>1. con[c].id = outgoing[i].id
      BY <1>2, <2>1, <2>3, Fields
    <3>2. outgoing[i].con = c /\ con[c].content_state = "awaiting"
      BY <3>1 DEF UnderwayOwn, Own
    <3> QED BY <3>1, <3>2, <2>3
  <2> QED BY <2>2, <2>3
<1>9. Len(incoming) \in Nat /\ Len(outgoing) \in Nat
  BY DEF Types
<1>10. UnderwayDiffer'
  <2>1. CASE ~asks
    BY <2>1, <1>4 DEF UnderwayDiffer
  <2>2. CASE asks
    <3>1. /\ \A i \in 1 .. Len(incoming) : incoming'[i] = incoming[i] /\ incoming[i].id # new.id
          /\ incoming'[Len(incoming) + 1].id = new.id
      BY <2>2, <1>4, <1>8, <1>9
    <3>2. \A i, j \in 1 .. Len(incoming') : incoming'[i].id = incoming'[j].id => i = j
      BY <2>2, <3>1, <1>4, <1>9 DEF UnderwayDiffer
    <3>3. \A i \in 1 .. Len(incoming'), j \in 1 .. Len(outgoing) : incoming'[i].id # outgoing[j].id
      BY <2>2, <3>1, <1>4, <1>8, <1>9 DEF UnderwayDiffer
    <3> QED BY <3>2, <3>3 DEF UnderwayDiffer
  <2> QED BY <2>1, <2>2
<1>11. UnderwayOwn'
  <2>1. \A i \in 1 .. Len(outgoing) : Own(outgoing[i])'
    BY <1>1, <1>8 DEF UnderwayOwn, Own
  <2>2. ASSUME NEW i \in 1 .. Len(incoming)
        PROVE  \A d \in Connections : con'[d].id = incoming[i].id =>
                  d = incoming[i].con /\ con'[d].content_state = "awaiting"
    BY <1>1, <1>8 DEF UnderwayOwn, Own
  <2>3. asks => \A d \in Connections : con'[d].id = query.id =>
                  d = query.con /\ con'[d].content_state = "awaiting"
    <3> SUFFICES ASSUME asks, NEW d \in Connections, con'[d].id = new.id, d # c
                 PROVE  FALSE
      BY <1>1
    <3>1. con[d].id = new.id
      BY <1>1
    <3>2. new.id # 0 /\ new.id # con[c].id
      BY <3>1, Sizes DEF IdsDiffer
    <3> QED BY <3>1, <3>2, <1>2
  <2>4. \A i \in 1 .. Len(incoming') : Own(incoming[i])'
    BY <2>2, <2>3, <1>4, <1>9 DEF Own
  <2>5. \A i \in 1 .. Len(outgoing') : Own(outgoing[i])'
    BY <2>1
  <2> QED BY <2>4, <2>5 DEF UnderwayOwn
<1>12. AnswersGenuine'
  BY <1>1, <1>8, Fields DEF AnswersGenuine, Genuine, UnderwayOwn, Own
<1>13. Bounded'
  <2>1. Len(incoming') + Len(outgoing) <= MaxQueries
    BY <1>4, <1>9, Sizes DEF Bounded, Underway
  <2> QED BY <2>1 DEF Bounded, Underway
<1>14. Owned'
  <2> SUFFICES ASSUME main # "joined" PROVE allocated' = Held' \ {0}
    BY DEF Owned
  <2>1. allocated = Held \ {0}
    BY DEF Owned
  <2>2. \A x : x \in Held <=> \/ \E d \in Connections : con[d].content = x
                              \/ \E i \in 1 .. Len(outgoing) : outgoing[i].content = x
    BY HeldIs DEF Held, Types
  <2>3. \A x : x \in Held' <=> \/ \E d \in Connections : con'[d].content = x
                               \/ \E i \in 1 .. Len(outgoing) : outgoing[i].content = x
    <3>1. Held' = {con'[d].content : d \in Connections} \cup {a.content : a \in ToSet(outgoing)}
      BY Zenon DEF Held
    <3>2. con' \in [Connections -> Connection] /\ outgoing \in Seq(Answer)
      BY <1>1 DEF Types
    <3>3. \A x : x \in {con'[d].content : d \in Connections} \cup {a.content : a \in ToSet(outgoing)}
            <=> \/ \E d \in Connections : con'[d].content = x
                \/ \E i \in 1 .. Len(outgoing) : outgoing[i].content = x
      BY <3>2, HeldIs, ZenonT(30)
    <3> QED BY <3>1, <3>3, Zenon
  <2>4. CASE new.content = con[c].content /\ allocated' = allocated
    <3>1. \A d \in Connections : con'[d].content = con[d].content
      BY <1>1, <2>4
    <3>2. \A x : x \in Held <=> x \in Held'
      BY <2>2, <2>3, <3>1
    <3> QED BY <2>1, <2>4, <3>2
  <2>5. CASE new.content = 0 /\ allocated' = allocated \ Freed(con[c])
    <3>1. ASSUME NEW x, x # 0
          PROVE  x \in allocated' <=> x \in Held'
      <4>1. CASE x = con[c].content
        <5>1. \A d \in Connections : con[d].content = x => d = c
          BY <4>1, <3>1, HeldOnce
        <5>2. \A i \in 1 .. Len(outgoing) : outgoing[i].content # x
          BY <4>1, <3>1, HeldOnce
        <5>3. x \notin Held'
          BY <5>1, <5>2, <2>3, <2>5, <1>1, <3>1
        <5>4. x \notin allocated'
          BY <2>5, <4>1, <3>1 DEF Freed
        <5> QED BY <5>3, <5>4
      <4>2. CASE x # con[c].content
        <5>1. x \in allocated' <=> x \in Held
          BY <2>5, <4>2, <2>1, <3>1 DEF Freed
        <5>2. \A d \in Connections : con'[d].content = x <=> con[d].content = x
          BY <4>2, <2>5, <3>1, <1>1
        <5> QED BY <5>1, <5>2, <2>2, <2>3
      <4> QED BY <4>1, <4>2
    <3>2. 0 \notin allocated'
      BY <2>1, <2>5
    <3> QED BY <3>1, <3>2
  <2> QED BY <2>4, <2>5
<1> QED BY <1>5, <1>6, <1>7, <1>10, <1>11, <1>12, <1>13, <1>14

LEMMA ServeStep ==
  ASSUME Inv, NEW c \in Connections, NEW readable \in BOOLEAN, NEW writable \in BOOLEAN,
         Serve(c, readable, writable)
  PROVE  Inv'
<1> USE DEF Inv
<1>1. /\ UNCHANGED <<outgoing, pc, main>> /\ todo' \subseteq Connections
  BY DEF Serve, WebOnly, Types
<1>2. PICK got \in Received(con[c]) \cup {con[c]} :
        IF ~writable \/ ~running
        THEN con' = [con EXCEPT ![c] = got] /\ UNCHANGED <<incoming, allocated>>
        ELSE \E sent \in Sent(Responded(got)) :
               /\ con' = [con EXCEPT ![c] = sent]
               /\ allocated' = IF sent.content_state = "default" THEN allocated \ Freed(got)
                               ELSE allocated
               /\ incoming' = IF Asks(got) THEN Append(incoming, [con |-> c, id |-> got.id])
                              ELSE incoming
               /\ Asks(got) => Underway < MaxQueries
  BY Zenon DEF Serve
<1>3. /\ got \in Connection /\ Proper(got) /\ got.id \in {con[c].id, FreshId}
      /\ got.content = con[c].content /\ got.content_state = con[c].content_state
      /\ con[c].content_state # "default" => got.id = con[c].id
  <2>1. con[c] \in Connection /\ Proper(con[c]) /\ FreshId \in Numbers
    BY FreshIsFresh, Fields DEF ConnectionsProper
  <2> QED BY <2>1, ReceivedProper
<1>4. CASE ~writable \/ ~running
  <2>1. con' = [con EXCEPT ![c] = got] /\ UNCHANGED <<incoming, allocated>>
    BY <1>2, <1>4
  <2>2. con[c].content_state = "awaiting" => got.id = con[c].id /\ got.content_state = "awaiting"
    BY <1>3
  <2>3. incoming' = IF FALSE THEN Append(incoming, [con |-> c, id |-> got.id]) ELSE incoming
    BY <2>1
  <2>4. FALSE \in BOOLEAN /\ got.id \in {con[c].id, FreshId, 0}
    BY <1>3
  <2> QED BY <1>1, <1>3, <2>1, <2>2, <2>3, <2>4, OneStep
<1>5. CASE ~(~writable \/ ~running)
  <2>1. PICK sent \in Sent(Responded(got)) :
          /\ con' = [con EXCEPT ![c] = sent]
          /\ allocated' = IF sent.content_state = "default" THEN allocated \ Freed(got)
                          ELSE allocated
          /\ incoming' = IF Asks(got) THEN Append(incoming, [con |-> c, id |-> got.id])
                         ELSE incoming
          /\ Asks(got) => Underway < MaxQueries
    BY <1>2, <1>5
  <2>2. /\ sent \in Connection /\ Proper(sent) /\ sent.id \in {got.id, 0}
        /\ Asks(got) => /\ sent.id = got.id /\ got.id \in Numbers
                        /\ sent.content_state = "awaiting" /\ con[c].content_state = "default"
        /\ con[c].content_state = "awaiting" => sent.content_state = "awaiting"
        /\ IF sent.content_state = "default" THEN sent.content = 0
           ELSE sent.content = con[c].content
    BY Served
  <2>3. Freed(got) = Freed(con[c])
    BY <1>3 DEF Freed
  <2>4. \/ sent.content = con[c].content /\ allocated' = allocated
        \/ sent.content = 0 /\ allocated' = allocated \ Freed(con[c])
    BY <2>1, <2>2, <2>3
  <2>5. con[c].content_state = "awaiting" => sent.id = con[c].id /\ sent.content_state = "awaiting"
    <3>1. sent.content_state = "awaiting" => sent.id # 0
      BY <2>2 DEF Proper
    <3> QED BY <3>1, <2>2, <1>3
  <2>6. incoming' = IF Asks(got) THEN Append(incoming, [con |-> c, id |-> sent.id]) ELSE incoming
    BY <2>1, <2>2
  <2>7. sent.id \in {con[c].id, FreshId, 0} /\ Asks(got) \in BOOLEAN
    BY <2>2, <1>3 DEF Asks
  <2>8. Asks(got) => /\ sent.id \in Numbers /\ con[c].content_state = "default"
                     /\ sent.content_state = "awaiting" /\ Underway < MaxQueries
    BY <2>1, <2>2
  <2> HIDE DEF Inv
  <2> QED BY <1>1, <2>1, <2>2, <2>4, <2>5, <2>6, <2>7, <2>8, OneStep
<1> QED BY <1>4, <1>5

-----------------------------------------------------------------------------
(* Queries are handled and answers are delivered *)

LEMMA HandleOutStep ==
  ASSUME Inv, SV_Web_HandleOutQueryCmd
  PROVE  Inv'
<1> USE DEF Inv
<1> DEFINE answer == Head(outgoing)
           c == answer.con
<1>1. /\ outgoing # <<>> /\ outgoing' = Tail(outgoing) /\ UNCHANGED <<incoming, pc, todo, main>>
      /\ IF Wanted(answer)
         THEN /\ con' = [con EXCEPT ![c].content = answer.content, ![c].content_state = "received"]
              /\ allocated' = allocated
         ELSE allocated' = allocated \ {answer.content} /\ con' = con
  BY DEF SV_Web_HandleOutQueryCmd, WebOnly
<1>2. /\ answer = outgoing[1] /\ answer \in Answer /\ 1 \in 1 .. Len(outgoing) /\ c \in Connections
      /\ outgoing' \in Seq(Answer) /\ Len(outgoing') = Len(outgoing) - 1
      /\ \A i \in 1 .. Len(outgoing') : outgoing'[i] = outgoing[i + 1] /\ i + 1 \in 1 .. Len(outgoing)
  <2>1. outgoing \in Seq(Answer)
    BY DEF Types
  <2>2. \A a \in Answer : a.con \in Connections
    BY DEF Answer
  <2> QED BY <1>1, <2>1, <2>2, TailFacts
<1>3. Len(incoming) \in Nat /\ Len(outgoing) \in Nat
  BY DEF Types
<1> HIDE DEF answer
<1>4. \A i \in 1 .. Len(outgoing') : outgoing[i + 1].id # answer.id
  BY <1>2, <1>3 DEF UnderwayDiffer
\* The connections: one may have got its answer, and none on the way has its number.
<1>5. /\ con' \in [Connections -> Connection]
      /\ \A d \in Connections : con'[d].id = con[d].id /\ Proper(con'[d])
      /\ \A d \in Connections : d # c => con'[d] = con[d]
      /\ ~Wanted(answer) => con' = con
      /\ Wanted(answer) => con[c].id = answer.id /\ con[c].content = 0 /\ con'[c].content = answer.content
  <2>1. CASE ~Wanted(answer)
    <3>1. con' = con
      BY <1>1, <2>1
    <3> QED BY <3>1, <2>1, Fields DEF ConnectionsProper, Types
  <2>2. CASE Wanted(answer)
    <3>1. con[c] \in Connection /\ Proper(con[c])
      BY <1>2, Fields DEF ConnectionsProper
    <3>2. con[c].content_state = "awaiting" /\ con[c].id = answer.id /\ con[c].content = 0
      BY <3>1, <2>2 DEF Wanted, Proper
    <3>3. answer.content \in {0, answer.id}
      BY <1>2, <3>2 DEF AnswersGenuine, Genuine
    <3> DEFINE filled == [con[c] EXCEPT !.content = answer.content]
               new == [filled EXCEPT !.content_state = "received"]
    <3>4. /\ filled \in Connection /\ filled.id = con[c].id /\ filled.content = answer.content
          /\ filled.state = con[c].state /\ filled.kind = con[c].kind
      <4>1. answer.content \in Contents
        BY <1>2 DEF Answer
      <4> QED BY <3>1, <4>1 DEF Connection
    <3> HIDE DEF filled
    <3>5. /\ new \in Connection /\ new.id = con[c].id /\ new.content = answer.content
          /\ new.state = con[c].state /\ new.kind = con[c].kind /\ new.content_state = "received"
      BY <3>4 DEF Connection
    <3>6. con' = [con EXCEPT ![c] = new]
      <4>1. con' = [con EXCEPT ![c].content = answer.content, ![c].content_state = "received"]
        BY <1>1, <2>2
      <4>2. con[c] \in Connection /\ con \in [Connections -> Connection]
        BY <3>1 DEF Types
      <4> QED BY <4>1, <4>2, <1>2 DEF new, filled
    <3> HIDE DEF new
    <3>7. Proper(new)
      BY <3>1, <3>2, <3>3, <3>5 DEF Proper
    <3> QED BY <3>2, <3>5, <3>6, <3>7, <1>2, <2>2 DEF Types, ConnectionsProper
  <2> QED BY <2>1, <2>2
<1>6. \A d \in Connections : con'[d].content_state # con[d].content_state =>
        d = c /\ con[d].id = answer.id
  BY <1>5
<1>7. Types'
  BY <1>1, <1>2, <1>5 DEF Types
<1>8. ConnectionsProper' /\ IdsDiffer'
  BY <1>5 DEF ConnectionsProper, IdsDiffer
<1>9. UnderwayDiffer' /\ Bounded'
  <2>1. UnderwayDiffer'
    BY <1>1, <1>2, <1>3, SMTT(30) DEF UnderwayDiffer
  <2>2. Len(incoming) + Len(outgoing') <= MaxQueries
    BY <1>2, <1>3, Sizes DEF Bounded, Underway
  <2> QED BY <1>1, <2>1, <2>2 DEF Bounded, Underway
<1>10. UnderwayOwn'
  <2>1. \A i \in 1 .. Len(incoming) : incoming[i].id # answer.id
    BY <1>2 DEF UnderwayDiffer
  <2>2. \A i \in 1 .. Len(incoming) : Own(incoming[i])'
    BY <2>1, <1>1, <1>5, <1>6 DEF UnderwayOwn, Own
  <2>3. \A i \in 1 .. Len(outgoing') : Own(outgoing[i])'
    BY <1>2, <1>4, <1>5, <1>6 DEF UnderwayOwn, Own
  <2> QED BY <1>1, <2>2, <2>3 DEF UnderwayOwn
<1>11. AnswersGenuine'
  <2> SUFFICES ASSUME NEW i \in 1 .. Len(outgoing') PROVE Genuine(outgoing[i])'
    BY DEF AnswersGenuine
  <2>1. outgoing'[i] = outgoing[i + 1] /\ i + 1 \in 1 .. Len(outgoing)
    BY <1>2
  <2>2. Genuine(outgoing[i + 1]) /\ outgoing[i + 1].con \in Connections
    BY <2>1, Fields DEF AnswersGenuine
  <2> QED BY <2>1, <2>2, <1>5 DEF Genuine
<1>12. Owned'
  <2> SUFFICES ASSUME main # "joined" PROVE allocated' = Held' \ {0}
    BY <1>1 DEF Owned
  <2>1. allocated = Held \ {0}
    BY DEF Owned
  <2>2. \A x : x \in Held <=> \/ \E d \in Connections : con[d].content = x
                              \/ \E i \in 1 .. Len(outgoing) : outgoing[i].content = x
    BY HeldIs DEF Held, Types
  <2>3. \A x : x \in Held' <=> \/ \E d \in Connections : con'[d].content = x
                               \/ \E i \in 1 .. Len(outgoing') : outgoing'[i].content = x
    <3>1. Held' = {con'[d].content : d \in Connections} \cup {a.content : a \in ToSet(outgoing')}
      BY Zenon DEF Held
    <3>2. \A x : x \in {con'[d].content : d \in Connections} \cup {a.content : a \in ToSet(outgoing')}
            <=> \/ \E d \in Connections : con'[d].content = x
                \/ \E i \in 1 .. Len(outgoing') : outgoing'[i].content = x
      BY <1>2, <1>5, HeldIs, Zenon
    <3> QED BY <3>1, <3>2, Zenon
  <2>4. \A i \in 2 .. Len(outgoing) : i - 1 \in 1 .. Len(outgoing') /\ outgoing'[i - 1] = outgoing[i]
    BY <1>2, <1>3
  <2>5. ASSUME NEW x, x # 0
        PROVE  x \in allocated' <=> x \in Held'
    <3>1. (\E i \in 1 .. Len(outgoing') : outgoing'[i].content = x)
            <=> (\E i \in 2 .. Len(outgoing) : outgoing[i].content = x)
      <4>1. ASSUME NEW i \in 1 .. Len(outgoing'), outgoing'[i].content = x
            PROVE  \E k \in 2 .. Len(outgoing) : outgoing[k].content = x
        <5>1. i + 1 \in 2 .. Len(outgoing) /\ outgoing[i + 1].content = x
          BY <4>1, <1>2, <1>3
        <5> QED BY <5>1
      <4>2. ASSUME NEW i \in 2 .. Len(outgoing), outgoing[i].content = x
            PROVE  \E k \in 1 .. Len(outgoing') : outgoing'[k].content = x
        <5>1. i - 1 \in 1 .. Len(outgoing') /\ outgoing'[i - 1].content = x
          BY <4>2, <2>4
        <5> QED BY <5>1
      <4> QED BY <4>1, <4>2
    <3>2. (\E i \in 1 .. Len(outgoing) : outgoing[i].content = x)
            <=> answer.content = x \/ \E i \in 2 .. Len(outgoing) : outgoing[i].content = x
      BY <1>2, <1>3
    <3>3. CASE Wanted(answer)
      <4>1. (\E d \in Connections : con'[d].content = x)
              <=> answer.content = x \/ \E d \in Connections : con[d].content = x
        BY <1>2, <1>5, <3>3, <2>5
      <4>2. x \in Held <=> x \in Held'
        BY <4>1, <3>1, <3>2, <2>2, <2>3
      <4> QED BY <4>2, <2>1, <2>5, <1>1, <3>3
    <3>4. CASE ~Wanted(answer) /\ x = answer.content
      <4>1. \A i \in 2 .. Len(outgoing) : outgoing[i].content # x
        BY <1>2, <1>3, <2>5, <3>4, HeldOnce
      <4>2. \A d \in Connections : con[d].content # x
        BY <1>2, <2>5, <3>4, HeldOnce
      <4>3. x \notin Held'
        BY <4>1, <4>2, <3>1, <3>4, <1>5, <2>3
      <4> QED BY <4>3, <3>4, <1>1
    <3>5. CASE ~Wanted(answer) /\ x # answer.content
      <4>1. x \in Held <=> x \in Held'
        BY <3>1, <3>2, <3>5, <1>5, <2>2, <2>3
      <4> QED BY <4>1, <3>5, <1>1, <2>1, <2>5
    <3> QED BY <3>3, <3>4, <3>5
  <2>6. 0 \notin allocated'
    BY <2>1, <1>1
  <2> QED BY <2>5, <2>6
<1> QED BY <1>7, <1>8, <1>9, <1>10, <1>11, <1>12

LEMMA HandleInStep ==
  ASSUME Inv, NEW answers \in BOOLEAN, SV_Web_HandleInQueryCmd(answers)
  PROVE  Inv'
<1> USE DEF Inv
<1> DEFINE query == Head(incoming)
           made == IF con[query.con].id = query.id THEN query.id ELSE -query.id
           content == IF answers THEN made ELSE 0
           answer == [con |-> query.con, id |-> query.id, content |-> content]
<1>1. /\ incoming # <<>> /\ incoming' = Tail(incoming) /\ UNCHANGED <<con, pc, todo, main>>
      /\ outgoing' = Append(outgoing, answer)
      /\ allocated' = IF answers THEN allocated \cup {content} ELSE allocated
  BY DEF SV_Web_HandleInQueryCmd
<1>2. /\ query = incoming[1] /\ query \in Query /\ 1 \in 1 .. Len(incoming)
      /\ incoming' \in Seq(Query) /\ Len(incoming') = Len(incoming) - 1
      /\ \A i \in 1 .. Len(incoming') : incoming'[i] = incoming[i + 1] /\ i + 1 \in 1 .. Len(incoming)
  <2>1. incoming \in Seq(Query)
    BY DEF Types
  <2> QED BY <1>1, <2>1, TailFacts
<1>3. query.con \in Connections /\ query.id \in Numbers /\ query.id \in Nat \ {0}
  BY <1>2, Sizes DEF Query
<1> HIDE DEF query
<1>4. /\ content \in Contents /\ content \in {0, query.id, -query.id}
      /\ content = -query.id => con[query.con].id # query.id
      /\ content # 0 <=> answers
  <2>1. made \in Contents /\ made \in {query.id, -query.id} /\ made # 0
        /\ (made = -query.id => con[query.con].id # query.id)
    BY <1>3 DEF Contents
  <2>2. 0 \in Contents /\ -query.id # 0
    BY <1>3 DEF Contents
  <2> HIDE DEF made
  <2> QED BY <2>1, <2>2
<1> HIDE DEF made, content
<1>5. answer \in Answer
  BY <1>3, <1>4 DEF Answer
<1>6. /\ outgoing' \in Seq(Answer) /\ Len(outgoing') = Len(outgoing) + 1
      /\ \A i \in 1 .. Len(outgoing) + 1 :
           outgoing'[i] = IF i = Len(outgoing) + 1 THEN answer ELSE outgoing[i]
  BY <1>1, <1>5, AppendFacts DEF Types
<1>7. Len(incoming) \in Nat /\ Len(outgoing) \in Nat
  BY DEF Types
<1>8. answer.id = query.id /\ answer.con = query.con /\ answer.content = content
  OBVIOUS
<1> HIDE DEF answer
<1>9. Types'
  BY <1>1, <1>2, <1>6 DEF Types
<1>10. ConnectionsProper' /\ IdsDiffer'
  BY <1>1 DEF ConnectionsProper, IdsDiffer
<1>11. UnderwayDiffer'
  <2>1. \A i, j \in 1 .. Len(incoming') : incoming'[i].id = incoming'[j].id => i = j
    <3> SUFFICES ASSUME NEW i \in 1 .. Len(incoming'), NEW j \in 1 .. Len(incoming'),
                        incoming'[i].id = incoming'[j].id
                 PROVE  i = j
      OBVIOUS
    <3>1. /\ incoming'[i] = incoming[i + 1] /\ i + 1 \in 1 .. Len(incoming)
          /\ incoming'[j] = incoming[j + 1] /\ j + 1 \in 1 .. Len(incoming)
      BY <1>2
    <3>2. i + 1 = j + 1
      BY <3>1 DEF UnderwayDiffer
    <3> QED BY <3>2
  <2>2. \A i \in 1 .. Len(outgoing) : outgoing'[i] = outgoing[i] /\ outgoing[i].id # query.id
    BY <1>2, <1>6, <1>7 DEF UnderwayDiffer
  <2>3. outgoing'[Len(outgoing) + 1].id = query.id
    BY <1>6, <1>7, <1>8
  <2>4. \A i, j \in 1 .. Len(outgoing') : outgoing'[i].id = outgoing'[j].id => i = j
    BY <2>2, <2>3, <1>6, <1>7 DEF UnderwayDiffer
  <2>5. \A i \in 1 .. Len(incoming') : incoming'[i].id # query.id
    BY <1>2, <1>7 DEF UnderwayDiffer
  <2>6. \A i \in 1 .. Len(incoming'), j \in 1 .. Len(outgoing') : incoming'[i].id # outgoing'[j].id
    <3> SUFFICES ASSUME NEW i \in 1 .. Len(incoming'), NEW j \in 1 .. Len(outgoing')
                 PROVE  incoming'[i].id # outgoing'[j].id
      OBVIOUS
    <3>1. incoming'[i] = incoming[i + 1] /\ i + 1 \in 1 .. Len(incoming)
      BY <1>2
    <3>2. CASE j = Len(outgoing) + 1
      BY <3>2, <2>3, <2>5
    <3>3. CASE j \in 1 .. Len(outgoing)
      BY <3>1, <3>3, <2>2 DEF UnderwayDiffer
    <3> QED BY <3>2, <3>3, <1>6, <1>7
  <2> QED BY <2>1, <2>4, <2>6 DEF UnderwayDiffer
<1>12. UnderwayOwn'
  <2>1. Own(query)
    BY <1>2 DEF UnderwayOwn
  <2>2. \A i \in 1 .. Len(incoming') : Own(incoming[i])'
    BY <1>1, <1>2 DEF UnderwayOwn, Own
  <2>3. \A i \in 1 .. Len(outgoing') : Own(outgoing[i])'
    BY <1>1, <1>6, <1>8, <2>1 DEF UnderwayOwn, Own
  <2> QED BY <2>2, <2>3 DEF UnderwayOwn
<1>13. AnswersGenuine'
  BY <1>1, <1>4, <1>6, <1>8 DEF AnswersGenuine, Genuine
<1>14. Bounded'
  <2>1. Len(incoming') + Len(outgoing') <= MaxQueries
    BY <1>2, <1>6, <1>7, Sizes DEF Bounded, Underway
  <2> QED BY <2>1 DEF Bounded, Underway
<1>15. Owned'
  <2> SUFFICES ASSUME main # "joined" PROVE allocated' = Held' \ {0}
    BY <1>1 DEF Owned
  <2>1. allocated = Held \ {0}
    BY DEF Owned
  <2>2. \A x : x \in Held <=> \/ \E d \in Connections : con[d].content = x
                              \/ \E i \in 1 .. Len(outgoing) : outgoing[i].content = x
    BY HeldIs DEF Held, Types
  <2>3. \A x : x \in Held' <=> \/ \E d \in Connections : con[d].content = x
                               \/ \E i \in 1 .. Len(outgoing') : outgoing'[i].content = x
    <3>1. Held' = {con[d].content : d \in Connections} \cup {a.content : a \in ToSet(outgoing')}
      BY <1>1, Zenon DEF Held
    <3>2. con \in [Connections -> Connection]
      BY DEF Types
    <3>3. \A x : x \in {con[d].content : d \in Connections} \cup {a.content : a \in ToSet(outgoing')}
            <=> \/ \E d \in Connections : con[d].content = x
                \/ \E i \in 1 .. Len(outgoing') : outgoing'[i].content = x
      BY <1>6, <3>2, HeldIs, Zenon
    <3> QED BY <3>1, <3>3, Zenon
  <2>4. \A x : x \in Held' <=> x \in Held \/ x = content
    BY <2>2, <2>3, <1>6, <1>7, <1>8
  <2> QED BY <2>1, <2>4, <1>1, <1>4
<1> QED BY <1>9, <1>10, <1>11, <1>12, <1>13, <1>14, <1>15

LEMMA JoinStep ==
  ASSUME Inv, Join
  PROVE  Inv'
<1> USE DEF Inv
<1>1. /\ main' = "joined" /\ incoming' = <<>> /\ outgoing' = <<>>
      /\ UNCHANGED <<con, allocated, pc, todo>>
  BY DEF Join
<1>2. Types'
  BY <1>1 DEF Types
<1>3. ConnectionsProper' /\ IdsDiffer'
  BY <1>1 DEF ConnectionsProper, IdsDiffer
<1>4. UnderwayDiffer' /\ UnderwayOwn' /\ AnswersGenuine'
  BY <1>1 DEF UnderwayDiffer, UnderwayOwn, AnswersGenuine
<1>5. Bounded'
  BY <1>1, Sizes DEF Bounded, Underway
<1>6. Owned'
  BY <1>1 DEF Owned
<1> QED BY <1>2, <1>3, <1>4, <1>5, <1>6

-----------------------------------------------------------------------------
(* The theorems *)

LEMMA InvInit == Init => Inv
<1> SUFFICES ASSUME Init PROVE Inv
  OBVIOUS
<1> USE DEF Init
<1>1. \A c \in Connections : con[c] = Unused
  OBVIOUS
<1>2. Types
  BY UnusedProper DEF Types
<1>3. ConnectionsProper /\ IdsDiffer
  BY <1>1, UnusedProper DEF ConnectionsProper, IdsDiffer
<1>4. UnderwayDiffer /\ UnderwayOwn /\ AnswersGenuine
  BY DEF UnderwayDiffer, UnderwayOwn, AnswersGenuine
<1>5. Bounded
  BY Sizes DEF Bounded, Underway
<1>6. Owned
  <2>1. \A x : x \in Held <=> \/ \E c \in Connections : con[c].content = x
                              \/ \E i \in 1 .. Len(outgoing) : outgoing[i].content = x
    <3>1. con \in [Connections -> Connection] /\ outgoing \in Seq(Answer)
      BY <1>2 DEF Types
    <3> DEFINE H == {con[c].content : c \in Connections} \cup {a.content : a \in ToSet(outgoing)}
    <3>2. Held = H
      BY DEF Held
    <3> HIDE DEF Init
    <3>3. \A x : x \in H <=> \/ \E c \in Connections : con[c].content = x
                            \/ \E i \in 1 .. Len(outgoing) : outgoing[i].content = x
      BY <3>1, HeldIs, Zenon
    <3> HIDE DEF H
    <3> QED BY <3>2, <3>3, Zenon
  <2>2. \A x \in Held : x = 0
    <3>1. \A c \in Connections : con[c].content = 0
      BY <1>1, UnusedProper, Zenon
    <3>2. \A i \in 1 .. Len(outgoing) : FALSE
      OBVIOUS
    <3> QED BY <2>1, <3>1, <3>2, Zenon
  <2> QED BY <2>2 DEF Owned
<1> QED BY <1>2, <1>3, <1>4, <1>5, <1>6 DEF Inv

LEMMA InvNext == Inv /\ [Next]_vars => Inv'
<1> SUFFICES ASSUME Inv, [Next]_vars PROVE Inv'
  OBVIOUS
<1>1. Types
  BY DEF Inv
<1>2. CASE SV_Web_Listen
  BY <1>2, ListenStep
<1>3. CASE Collect
  <2>1. /\ UNCHANGED <<con, incoming, outgoing, allocated, main>>
        /\ todo' \subseteq Connections /\ pc' = "read"
    BY <1>3 DEF Collect, WebOnly, Active
  <2> QED BY <2>1, <1>1, PassStep DEF Types
<1>4. CASE SV_Web_HandleOutQueryCmd
  BY <1>4, HandleOutStep
<1>5. CASE Monitor
  <2>1. UNCHANGED <<con, incoming, outgoing, allocated, main, todo>> /\ pc' = "serve"
    BY <1>5 DEF Monitor, WebOnly
  <2> QED BY <2>1, <1>1, PassStep DEF Types
<1>6. ASSUME NEW c \in Connections, NEW readable \in BOOLEAN, NEW writable \in BOOLEAN,
             Serve(c, readable, writable)
      PROVE  Inv'
  BY <1>6, ServeStep
<1>7. CASE CloseDead
  BY <1>7, CloseDeadStep
<1>8. CASE SV_Web_ShutdownConnections
  BY <1>8, ShutdownConnectionsStep
<1>9. ASSUME NEW answers \in BOOLEAN, SV_Web_HandleInQueryCmd(answers) PROVE Inv'
  BY <1>9, HandleInStep
<1>10. CASE SV_Web_Shutdown
  <2>1. UNCHANGED <<con, incoming, outgoing, allocated, pc, todo>>
        /\ main' = "joining" /\ main = "running"
    BY <1>10 DEF SV_Web_Shutdown, running
  <2> QED BY <2>1, <1>1, PassStep DEF Types
<1>11. CASE Join
  BY <1>11, JoinStep
<1>12. CASE UNCHANGED vars
  <2>1. UNCHANGED <<con, incoming, outgoing, allocated, pc, todo, main>>
    BY <1>12 DEF vars
  <2> QED BY <2>1, <1>1, PassStep DEF Types
<1> QED BY <1>2, <1>3, <1>4, <1>5, <1>6, <1>7, <1>8, <1>9, <1>10, <1>11, <1>12
     DEF Next, SV_Web_Frame, SV_Web_GameFrame

LEMMA Invariant == Spec => []Inv
BY InvInit, InvNext, PTL DEF Spec

\* Contents are neither lost nor freed twice, for any pool and number of queries.
THEOREM TypeCorrect == Spec => []TypeOK
<1>1. Inv => TypeOK
  <2> SUFFICES ASSUME Inv PROVE TypeOK
    OBVIOUS
  <2>1. \A c, d \in Connections : con[c].content = con[d].content /\ c # d => con[c].content = 0
    BY HeldOnce
  <2> QED BY <2>1 DEF Inv, Types, Owned, TypeOK
<1> QED BY <1>1, Invariant, PTL

\* No connection answers with what was made for another request or from freed text.
THEOREM OwnAnswers == Spec => []OwnAnswer
<1>1. Inv => OwnAnswer
  BY DEF Inv, ConnectionsProper, Proper, OwnAnswer
<1> QED BY <1>1, Invariant, PTL

-----------------------------------------------------------------------------
(* How matches start *)


Ids == {NoId, ZeroId, DummyId} \cup 1 .. given

GameType ==
  /\ gametype \in Gametypes
  /\ state \in MatchStates /\ waiting \in BOOLEAN /\ age \in 0 .. 2 /\ forceStart \in BOOLEAN
  /\ matchUuid \in Ids

PeopleType ==
  /\ team \in [Players -> {SPECTATOR} \cup Teams]
  /\ ready \in [Players -> BOOLEAN] /\ agreed \in [Players -> BOOLEAN]
  /\ \A p \in InTeam(team) : ready[p] => agreed[p]

FetchType ==
  /\ loggedIn \in BOOLEAN /\ continueFetch \in BOOLEAN
  /\ flying \in Nat /\ deferred \in Nat /\ started \in Nat
  /\ given \in Nat /\ lost \in Nat /\ abandoned \in Nat

Phases == {"input", "gametype", "rules", "tasks"}

Committed == state = "countdown" /\ ~forceStart => AllReady(team, ready)

EnoughChecked ==
  state = "countdown" /\ phase = "rules" => Enough(team) \/ gametype.matchAbortDisabled

UnusedId ==
  /\ used \subseteq Ids
  /\ loggedIn /\ state = "countdown" => matchUuid = NoId \/ (matchUuid > 0 /\ matchUuid \notin used)

FlagDown == matchUuid > 0 => ~continueFetch

Accounted ==
  /\ lost + flying + deferred <= abandoned + 1
  /\ ~continueFetch => lost + flying + deferred <= abandoned
  /\ continueFetch => flying + deferred > 0

MatchInv == phase \in Phases /\ GameType /\ PeopleType /\ Committed /\ EnoughChecked
TasksInv == FetchType /\ UnusedId /\ FlagDown /\ Accounted
MatchesInv == MatchInv /\ TasksInv

\* What every step of the game module keeps to, but for the start of a match.
GameStep ==
  /\ matchUuid' > 0 => matchUuid' = matchUuid
  /\ state' = "countdown" => matchUuid' = NoId \/ (state = "countdown" /\ matchUuid' = matchUuid)
  /\ state' = "playtime" => state = "playtime"

-----------------------------------------------------------------------------
\* The game module's steps leave ids and tasks alone but for emptying the id, which
\* keeps what the invariant says of them.
LEMMA GameStepKeeps ==
  ASSUME TasksInv, GameType', GameStep, UNCHANGED <<fetch, used, loggedIn>>
  PROVE  TasksInv'
<1>1. UNCHANGED <<continueFetch, flying, deferred, started, given, lost, abandoned, used, loggedIn>>
  BY DEF fetch
<1>2. FetchType' /\ Accounted'
  BY <1>1 DEF TasksInv, FetchType, Accounted
<1>3. FlagDown'
  BY <1>1 DEF TasksInv, FlagDown, GameStep
<1>4. UnusedId'
  <2>1. used' \subseteq Ids'
    BY <1>1 DEF TasksInv, UnusedId, Ids
  <2>2. CASE matchUuid' = NoId
    BY <2>1, <2>2 DEF UnusedId
  <2>3. CASE state = "countdown" /\ matchUuid' = matchUuid
    BY <1>1, <2>1, <2>3 DEF TasksInv, UnusedId
  <2>4. CASE state' # "countdown"
    BY <2>1, <2>4 DEF UnusedId
  <2>. QED BY <2>2, <2>3, <2>4 DEF GameStep
<1>. QED BY <1>2, <1>3, <1>4 DEF TasksInv

\* Entering a state keeps the match well formed.
LEMMA LaunchType ==
  ASSUME GameType, FetchType, NEW s \in MatchStates, NEW w \in BOOLEAN, NEW f \in BOOLEAN,
         LaunchState(s, w, f), given' = given, gametype' = gametype
  PROVE  /\ GameType'
         /\ matchUuid' > 0 => matchUuid' = matchUuid
         /\ \/ /\ state' = s /\ forceStart' = (f /\ s \notin {"warmup", "playtime"})
               /\ matchUuid' = IF s = "countdown" THEN NoId ELSE matchUuid
            \/ /\ s \in Refusable /\ forceStart' = f
               /\ UNCHANGED <<state, matchUuid>>
<1>1. GameType'
  <2>1. NoId \in Ids' /\ Ids' = Ids
    BY DEF Ids
  <2>2. matchUuid' \in Ids'
    BY <2>1 DEF LaunchState, GameType
  <2>3. forceStart' \in BOOLEAN
    <3>1. forceStart' = (f /\ s \notin {"warmup", "playtime"}) \/ forceStart' = f
      BY DEF LaunchState
    <3>. QED BY <3>1, Zenon
  <2>4. state' \in MatchStates /\ waiting' \in BOOLEAN /\ age' \in 0 .. 2
    BY DEF LaunchState, GameType
  <2>. QED BY <2>2, <2>3, <2>4 DEF GameType
<1>2. matchUuid' > 0 => matchUuid' = matchUuid
  BY DEF LaunchState, NoId
<1>. QED BY <1>1, <1>2 DEF LaunchState

\* CheckReadys leaves no countdown, unless forced, in which somebody is not ready.
LEMMA CheckReadysKeeps ==
  ASSUME GameType, FetchType, NEW tm, NEW rdy, CheckReadys(tm, rdy),
         given' = given, gametype' = gametype
  PROVE  /\ GameType' /\ GameStep
         /\ state' = "countdown" /\ ~forceStart' => AllReady(tm, rdy)
<1>0. /\ {"warmup", "countdown"} \subseteq MatchStates /\ forceStart \in BOOLEAN
      /\ "warmup" \notin Refusable
  BY RulesAssumption DEF GameType, MatchStates
<1>1. CASE state = "warmup" /\ AllReady(tm, rdy)
  <2>1. LaunchState("countdown", FALSE, forceStart)
    BY <1>1 DEF CheckReadys
  <2>2. /\ GameType' /\ (matchUuid' > 0 => matchUuid' = matchUuid)
        /\ \/ state' = "countdown" /\ matchUuid' = NoId
           \/ state' = "warmup"
    BY <1>0, <1>1, <2>1, LaunchType
  <2>. QED BY <1>1, <2>2 DEF GameStep
<1>2. CASE /\ ~(state = "warmup" /\ AllReady(tm, rdy))
           /\ state = "countdown" /\ ~forceStart /\ ~AllReady(tm, rdy)
  <2>1. LaunchState("warmup", FALSE, forceStart)
    BY <1>2 DEF CheckReadys
  <2>2. /\ GameType' /\ (matchUuid' > 0 => matchUuid' = matchUuid)
        /\ state' = "warmup"
    BY <1>0, <2>1, LaunchType
  <2>. QED BY <2>2 DEF GameStep
<1>3. CASE /\ ~(state = "warmup" /\ AllReady(tm, rdy))
           /\ ~(state = "countdown" /\ ~forceStart /\ ~AllReady(tm, rdy))
  <2>1. UNCHANGED <<state, waiting, age, forceStart, matchUuid>>
    BY <1>3 DEF CheckReadys, game
  <2>2. GameType'
    BY <2>1 DEF GameType, Ids
  <2>. QED BY <1>3, <2>1, <2>2 DEF GameStep
<1>. QED BY <1>1, <1>2, <1>3

\* The same with the teams and flags that a step leaves behind.
LEMMA CheckReadysCommits ==
  ASSUME GameType, FetchType, CheckReadys(team', ready'), given' = given, gametype' = gametype
  PROVE  GameType' /\ GameStep /\ Committed'
<1>1. /\ GameType' /\ GameStep
      /\ state' = "countdown" /\ ~forceStart' => AllReady(team', ready')
  BY CheckReadysKeeps
<1>2. AllReady(team', ready') => AllReady(team, ready)'
  BY DEF AllReady, Enough, InTeam, Teams
<1>. QED BY <1>1, <1>2 DEF Committed

\* A change of the match's state by LaunchState, whoever asks for it, to a state other than
\* a countdown or a match.
LEMMA LaunchOther ==
  ASSUME GameType, FetchType, Committed, NEW s \in {"warmup", "postmatch", "waitexit"},
         NEW w \in BOOLEAN, LaunchState(s, w, forceStart), given' = given,
         UNCHANGED <<gametype, people>>
  PROVE  /\ GameType' /\ GameStep /\ Committed'
         /\ state' = s \/ (state' = state /\ s \in Refusable)
<1>1. s \in MatchStates /\ forceStart \in BOOLEAN
  BY DEF MatchStates, GameType
<1>2. /\ GameType' /\ (matchUuid' > 0 => matchUuid' = matchUuid)
      /\ \/ state' = s /\ matchUuid' = matchUuid
         \/ s \in Refusable /\ forceStart' = forceStart /\ UNCHANGED <<state, matchUuid>>
  BY <1>1, LaunchType
<1>3. UNCHANGED <<team, ready>>
  BY DEF people
<1>4. AllReady(team, ready) => AllReady(team, ready)'
  BY <1>3 DEF AllReady, Enough, InTeam, Teams
<1>5. Committed'
  BY <1>2, <1>4 DEF Committed
<1>. QED BY <1>2, <1>5 DEF GameStep

\* Somebody changes teams, whatever the rules say of joining.
LEMMA SetTeamKeeps ==
  ASSUME GameType, FetchType, PeopleType, NEW p \in Players,
         NEW t \in {SPECTATOR} \cup Teams, SetTeam(p, t), given' = given, gametype' = gametype
  PROVE  GameType' /\ PeopleType' /\ Committed' /\ GameStep
<1>1. CheckReadys(team', ready')
  BY DEF SetTeam
<1>2. PeopleType'
  BY DEF SetTeam, PeopleType, InTeam, Teams
<1>. QED BY <1>1, <1>2, CheckReadysCommits

\* Commands of the players, votes and commands of the operator.
LEMMA CommandsKeep ==
  ASSUME MatchInv, FetchType, Commands, given' = given
  PROVE  MatchInv' /\ GameStep
<1>1. /\ phase = "input" /\ phase' = "input" /\ gametype' = gametype
      /\ GameType /\ PeopleType /\ Committed
  BY DEF Commands, MatchInv
<1>2. phase' \in Phases /\ EnoughChecked'
  BY <1>1 DEF Phases, EnoughChecked
<1>3. CASE \E p \in Players : JoinTeam(p)
  <2>1. PICK p \in Players : JoinTeam(p)
    BY <1>3
  <2>2. PICK t \in {SPECTATOR} \cup Teams : SetTeam(p, t)
    BY <2>1 DEF JoinTeam
  <2>. QED BY <1>1, <1>2, <2>2, SetTeamKeeps DEF MatchInv
<1>4. CASE \E p \in Players : Ready(p)
  <2>1. PICK p \in Players : Ready(p)
    BY <1>4
  <2>2. PeopleType'
    BY <1>1, <2>1 DEF Ready, PeopleType, InTeam, Teams
  <2>3. CheckReadys(team', ready')
    BY <2>1 DEF Ready
  <2>. QED BY <1>1, <1>2, <2>2, <2>3, CheckReadysCommits DEF MatchInv
<1>5. CASE \E p \in Players : NotReady(p)
  <2>1. PICK p \in Players : NotReady(p)
    BY <1>5
  <2>2. PeopleType'
    BY <1>1, <2>1 DEF NotReady, PeopleType, InTeam, Teams
  <2>3. CheckReadys(team', ready')
    BY <2>1 DEF NotReady
  <2>. QED BY <1>1, <1>2, <2>2, <2>3, CheckReadysCommits DEF MatchInv
<1>6. CASE \E p \in Players : Disconnect(p)
  <2>1. PICK p \in Players : Disconnect(p)
    BY <1>6
  <2>2. PeopleType'
    BY <1>1, <2>1 DEF Disconnect, PeopleType, InTeam, Teams
  <2>3. CheckReadys(team', ready')
    BY <2>1 DEF Disconnect
  <2>. QED BY <1>1, <1>2, <2>2, <2>3, CheckReadysCommits DEF MatchInv
<1>7. CASE VoteAllready
  <2>1. /\ team' = team
        /\ ready' = [p \in Players |-> ready[p] \/ p \in InTeam(team)]
        /\ agreed' = [p \in Players |-> agreed[p] \/ p \in InTeam(team)]
    BY <1>7 DEF VoteAllready
  <2>2. PeopleType'
    <3>1. ready' \in [Players -> BOOLEAN] /\ agreed' \in [Players -> BOOLEAN]
      BY <2>1, Zenon
    <3>2. \A p \in InTeam(team) : p \in Players /\ agreed'[p]
      BY <2>1 DEF InTeam
    <3>3. InTeam(team)' = InTeam(team)
      BY <2>1 DEF InTeam
    <3>. QED BY <1>1, <2>1, <3>1, <3>2, <3>3 DEF PeopleType, Teams
  <2>3. CheckReadys(team', ready')
    BY <1>7 DEF VoteAllready
  <2>. QED BY <1>1, <1>2, <2>2, <2>3, CheckReadysCommits DEF MatchInv
<1>8. CASE EndMatch
  <2>1. LaunchState("postmatch", FALSE, forceStart) /\ UNCHANGED people
    BY <1>8 DEF EndMatch
  <2>2. GameType' /\ GameStep /\ Committed'
    BY <1>1, <2>1, LaunchOther
  <2>3. PeopleType'
    BY <1>1, <2>1 DEF people, PeopleType, InTeam, Teams
  <2>. QED BY <1>2, <2>2, <2>3 DEF MatchInv
<1>. QED BY <1>3, <1>4, <1>5, <1>6, <1>7, <1>8 DEF Commands

LEMMA NewLevelKeeps ==
  ASSUME MatchInv, FetchType, NewLevel, given' = given
  PROVE  MatchInv' /\ GameStep
<1>1. GameType'
  <2>1. Ids' = Ids /\ ZeroId \in Ids /\ matchUuid \in Ids
    BY DEF MatchInv, GameType, Ids
  <2>2. matchUuid' \in Ids'
    BY <2>1 DEF NewLevel
  <2>3. state' = "warmup" /\ waiting' = FALSE /\ age' = 0 /\ forceStart' = FALSE
    BY DEF NewLevel
  <2>4. state' \in MatchStates /\ waiting' \in BOOLEAN /\ age' \in 0 .. 2 /\ forceStart' \in BOOLEAN
    <3>1. waiting' \in BOOLEAN /\ forceStart' \in BOOLEAN
      BY <2>3, Zenon
    <3>2. state' \in MatchStates /\ age' \in 0 .. 2
      BY <2>3 DEF MatchStates
    <3>. QED BY <3>1, <3>2
  <2>. QED BY <2>2, <2>4 DEF GameType, NewLevel
<1>2. PeopleType'
  BY DEF NewLevel, PeopleType, InTeam
<1>3. phase' \in Phases /\ Committed' /\ EnoughChecked'
  BY DEF NewLevel, Committed, EnoughChecked, MatchInv
<1>4. GameStep
  BY DEF NewLevel, GameStep, ZeroId
<1>. QED BY <1>1, <1>2, <1>3, <1>4 DEF MatchInv

-----------------------------------------------------------------------------
\* The game module's frame.
LEMMA RunFrameKeeps ==
  ASSUME MatchInv, FetchType, RunFrame, given' = given
  PROVE  MatchInv' /\ GameStep
<1>1. UNCHANGED <<gametype, state, waiting, forceStart, matchUuid, team, ready, agreed>>
  BY DEF RunFrame, people
<1>2. age' \in 0 .. 2
  BY DEF RunFrame, MatchInv, GameType
<1>3. GameType' /\ PeopleType' /\ Committed' /\ GameStep
  BY <1>1, <1>2 DEF MatchInv, GameType, Ids, PeopleType, InTeam, Teams, Committed, AllReady, Enough,
                    GameStep
<1>4. phase' \in Phases /\ EnoughChecked'
  BY DEF RunFrame, Phases, EnoughChecked
<1>. QED BY <1>3, <1>4 DEF MatchInv

LEMMA ChallengerJoinsKeeps ==
  ASSUME MatchInv, FetchType, ChallengerJoins, given' = given
  PROVE  MatchInv' /\ GameStep
<1>1. /\ phase = "gametype" /\ phase' = "gametype" /\ gametype' = gametype
      /\ GameType /\ PeopleType /\ Committed
  BY DEF ChallengerJoins, MatchInv
<1>2. phase' \in Phases /\ EnoughChecked'
  BY <1>1 DEF Phases, EnoughChecked
<1>3. CASE \E p \in Players \ InTeam(team), t \in Teams :
             /\ team'   = [team EXCEPT ![p] = t]
             /\ ready'  = [ready EXCEPT ![p] = FALSE]
             /\ agreed' = [agreed EXCEPT ![p] = FALSE]
             /\ LaunchState("warmup", FALSE, forceStart)
  <2>1. PICK p \in Players, t \in Teams :
             /\ team'   = [team EXCEPT ![p] = t]
             /\ ready'  = [ready EXCEPT ![p] = FALSE]
             /\ agreed' = [agreed EXCEPT ![p] = FALSE]
             /\ LaunchState("warmup", FALSE, forceStart)
    BY <1>3
  <2>2. "warmup" \in MatchStates /\ "warmup" \notin Refusable /\ forceStart \in BOOLEAN
    BY <1>1, RulesAssumption DEF MatchStates, GameType
  <2>3. GameType' /\ (matchUuid' > 0 => matchUuid' = matchUuid) /\ state' = "warmup"
    BY <1>1, <2>1, <2>2, LaunchType
  <2>4. PeopleType'
    BY <1>1, <2>1 DEF PeopleType, InTeam, Teams
  <2>. QED BY <1>2, <2>3, <2>4 DEF MatchInv, Committed, GameStep
<1>4. CASE \E p \in Players \ InTeam(team), t \in Teams : SetTeam(p, t)
  <2>1. PICK p \in Players, t \in {SPECTATOR} \cup Teams : SetTeam(p, t)
    BY <1>4
  <2>. QED BY <1>1, <1>2, <2>1, SetTeamKeeps DEF MatchInv
<1>5. CASE LaunchState("warmup", FALSE, forceStart) /\ UNCHANGED people
  <2>1. GameType' /\ GameStep /\ Committed'
    BY <1>1, <1>5, LaunchOther
  <2>2. PeopleType'
    BY <1>1, <1>5 DEF people, PeopleType, InTeam, Teams
  <2>. QED BY <1>2, <2>1, <2>2 DEF MatchInv
<1>. QED BY <1>3, <1>4, <1>5 DEF ChallengerJoins

LEMMA CheckStateAbortKeeps ==
  ASSUME MatchInv, FetchType, CheckStateAbort, given' = given
  PROVE  MatchInv' /\ GameStep
<1>1. /\ phase' = "rules" /\ gametype' = gametype /\ UNCHANGED people
      /\ GameType /\ PeopleType /\ Committed
  BY DEF CheckStateAbort, MatchInv
<1>2. UNCHANGED <<team, ready, agreed>> /\ phase' \in Phases
  BY <1>1 DEF people, Phases
<1>3. PeopleType'
  BY <1>1, <1>2 DEF PeopleType, InTeam, Teams
<1>4. CASE /\ UNCHANGED <<state, age, forceStart, matchUuid>> /\ waiting' \in BOOLEAN
           /\ state = "countdown" => Enough(team) \/ gametype.matchAbortDisabled
  <2>1. GameType' /\ GameStep
    BY <1>1, <1>4 DEF GameType, Ids, GameStep
  <2>2. Committed' /\ EnoughChecked'
    BY <1>1, <1>2, <1>4 DEF Committed, EnoughChecked, AllReady, Enough, InTeam, Teams
  <2>. QED BY <1>2, <1>3, <2>1, <2>2 DEF MatchInv
<1>5. CASE state = "countdown" /\ LaunchState("warmup", TRUE, forceStart)
  <2>1. /\ GameType' /\ GameStep /\ Committed'
        /\ state' = "warmup"
    BY <1>1, <1>5, LaunchOther, RulesAssumption
  <2>. QED BY <1>2, <1>3, <2>1 DEF MatchInv, EnoughChecked
<1>6. CASE state = "playtime" /\ LaunchState("postmatch", FALSE, forceStart)
  <2>1. /\ GameType' /\ GameStep /\ Committed'
        /\ state' # "countdown"
    BY <1>1, <1>6, LaunchOther
  <2>. QED BY <1>2, <1>3, <2>1 DEF MatchInv, EnoughChecked
<1>7. waiting \in BOOLEAN
  BY <1>1 DEF GameType
<1>. QED BY <1>4, <1>5, <1>6, <1>7 DEF CheckStateAbort, game

\* The rules may start a match, with the id that is there.
LEMMA StartMatchKeeps ==
  ASSUME GameType, FetchType, PeopleType, Committed, state = "countdown", StartMatch,
         given' = given, gametype' = gametype
  PROVE  /\ GameType' /\ PeopleType' /\ Committed'
         /\ GameStep \/ (state' = "playtime" /\ matchUuid # NoId /\ matchUuid' = matchUuid)
<1>1. CASE matchUuid # NoId /\ LaunchState("playtime", FALSE, forceStart) /\ UNCHANGED people
  <2>1. "playtime" \in MatchStates /\ forceStart \in BOOLEAN
    BY DEF MatchStates, GameType
  <2>2. /\ GameType' /\ matchUuid' = matchUuid
        /\ state' = "playtime" \/ (UNCHANGED state /\ forceStart' = forceStart)
    BY <1>1, <2>1, LaunchType
  <2>3. PeopleType' /\ Committed'
    BY <1>1, <2>2 DEF people, PeopleType, Committed, AllReady, Enough, InTeam, Teams
  <2>. QED BY <1>1, <2>2, <2>3 DEF GameStep
<1>2. CASE UNCHANGED <<game, people>>
  <2>1. UNCHANGED <<state, waiting, age, forceStart, matchUuid, team, ready, agreed>>
    BY <1>2 DEF game, people
  <2>2. GameType' /\ PeopleType' /\ Committed'
    BY <2>1 DEF GameType, Ids, PeopleType, Committed, AllReady, Enough, InTeam, Teams
  <2>. QED BY <2>1, <2>2 DEF GameStep
<1>3. CASE /\ ready'  = [p \in Players |-> ready[p] /\ p \notin InTeam(team)]
           /\ agreed' = [p \in Players |-> agreed[p] /\ p \notin InTeam(team)]
           /\ state' = "warmup" /\ waiting' = FALSE /\ age' = 0 /\ forceStart' = FALSE
           /\ matchUuid' = DummyId /\ UNCHANGED team
  <2>1. /\ state' = "warmup" /\ age' = 0 /\ matchUuid' = DummyId /\ team' = team
        /\ InTeam(team)' = InTeam(team)
    BY <1>3 DEF InTeam
  <2>2. waiting' \in BOOLEAN /\ forceStart' \in BOOLEAN
    BY <1>3, Zenon
  <2>3. GameType'
    BY <2>1, <2>2 DEF GameType, Ids, MatchStates
  <2>4. ready' \in [Players -> BOOLEAN] /\ agreed' \in [Players -> BOOLEAN]
    BY <1>3, Zenon
  <2>5. \A p \in InTeam(team) : p \in Players /\ ~ready'[p]
    BY <1>3 DEF InTeam
  <2>6. PeopleType'
    BY <2>1, <2>4, <2>5 DEF PeopleType, Teams
  <2>. QED BY <2>1, <2>3, <2>6 DEF Committed, GameStep, DummyId
<1>. QED BY <1>1, <1>2, <1>3 DEF StartMatch

\* The rules keep the invariant, and a match starts with an id of its own.
LEMMA ThinkRulesKeeps ==
  ASSUME MatchesInv, ThinkRules, UNCHANGED fetch, loggedIn' = loggedIn
  PROVE  /\ MatchesInv'
         /\ state # "playtime" /\ state' = "playtime" /\ loggedIn =>
              matchUuid' \in (1 .. given') \ used
<1>1. UNCHANGED <<continueFetch, flying, deferred, started, given, lost, abandoned>>
  BY DEF fetch
<1>2. /\ phase' = "tasks" /\ gametype' = gametype /\ GameType /\ FetchType /\ PeopleType
      /\ Committed /\ TasksInv
      /\ used' = IF state' = "playtime" THEN used \cup {matchUuid'} ELSE used
  BY DEF ThinkRules, MatchesInv, MatchInv, TasksInv
<1>3. phase' \in Phases /\ EnoughChecked'
  BY <1>2 DEF Phases, EnoughChecked
<1>4. /\ GameType' /\ PeopleType' /\ Committed'
      /\ GameStep \/ (state = "countdown" /\ state' = "playtime" /\ matchUuid # NoId
                       /\ matchUuid' = matchUuid)
  <2>1. CASE UNCHANGED <<game, people>>
    <3>1. UNCHANGED <<state, waiting, age, forceStart, matchUuid, team, ready, agreed>>
      BY <2>1 DEF game, people
    <3>2. GameType' /\ PeopleType' /\ Committed'
      BY <1>1, <1>2, <3>1 DEF GameType, Ids, PeopleType, Committed, AllReady, Enough, InTeam, Teams
    <3>. QED BY <3>1, <3>2 DEF GameStep
  <2>2. CASE state = "warmup" /\ LaunchState("countdown", FALSE, TRUE) /\ UNCHANGED people
    <3>1. "countdown" \in MatchStates
      BY DEF MatchStates
    <3>2. /\ GameType' /\ (matchUuid' > 0 => matchUuid' = matchUuid)
          /\ \/ state' = "countdown" /\ forceStart' /\ matchUuid' = NoId
             \/ state' = "warmup"
      BY <1>1, <1>2, <2>2, <3>1, LaunchType
    <3>3. PeopleType'
      BY <1>2, <2>2 DEF people, PeopleType, InTeam, Teams
    <3>. QED BY <3>2, <3>3 DEF Committed, GameStep
  <2>3. CASE state = "countdown" /\ StartMatch
    BY <1>1, <1>2, <2>3, StartMatchKeeps
  <2>4. CASE LaunchState("postmatch", FALSE, forceStart) /\ UNCHANGED people
    <3>1. GameType' /\ GameStep /\ Committed'
      BY <1>1, <1>2, <2>4, LaunchOther
    <3>2. PeopleType'
      BY <1>2, <2>4 DEF people, PeopleType, InTeam, Teams
    <3>. QED BY <3>1, <3>2
  <2>5. CASE LaunchState("waitexit", FALSE, forceStart) /\ UNCHANGED people
    <3>1. GameType' /\ GameStep /\ Committed'
      BY <1>1, <1>2, <2>5, LaunchOther
    <3>2. PeopleType'
      BY <1>2, <2>5 DEF people, PeopleType, InTeam, Teams
    <3>. QED BY <3>1, <3>2
  <2>. QED BY <2>1, <2>2, <2>3, <2>4, <2>5 DEF ThinkRules
<1>5. MatchInv'
  BY <1>3, <1>4 DEF MatchInv
<1>6. FetchType' /\ Accounted'
  BY <1>1, <1>2 DEF TasksInv, FetchType, Accounted
<1>7. FlagDown'
  BY <1>1, <1>2, <1>4 DEF TasksInv, FlagDown, GameStep
<1>8. UnusedId'
  <2>1. used' \subseteq Ids'
    BY <1>1, <1>2, <1>4 DEF TasksInv, UnusedId, Ids, GameType
  <2>2. state' = "countdown" => used' = used
    BY <1>2
  <2>. QED BY <1>2, <1>4, <2>1, <2>2 DEF TasksInv, UnusedId, GameStep
<1>9. state # "playtime" /\ state' = "playtime" /\ loggedIn => matchUuid' \in (1 .. given') \ used
  <2>1. SUFFICES ASSUME state # "playtime", state' = "playtime", loggedIn
                 PROVE  matchUuid' \in (1 .. given') \ used
    OBVIOUS
  <2>2. state = "countdown" /\ matchUuid # NoId /\ matchUuid' = matchUuid
    BY <1>4, <2>1 DEF GameStep
  <2>3. matchUuid > 0 /\ matchUuid \notin used
    BY <1>2, <2>1, <2>2 DEF TasksInv, UnusedId
  <2>4. matchUuid \in 1 .. given
    BY <1>2, <2>3 DEF GameType, Ids, NoId, ZeroId, DummyId
  <2>. QED BY <1>1, <2>2, <2>3, <2>4
<1>. QED BY <1>5, <1>6, <1>7, <1>8, <1>9 DEF MatchesInv, TasksInv

-----------------------------------------------------------------------------
\* The server's tasks leave the teams and the match alone but for its id.
LEMMA TasksLeaveMatch ==
  ASSUME MatchInv, UNCHANGED <<gametype, people, state, waiting, age, forceStart>>,
         phase' \in {"tasks", "input"}, matchUuid' \in Ids'
  PROVE  MatchInv'
<1>1. UNCHANGED <<team, ready, agreed>>
  BY DEF people
<1>2. GameType' /\ PeopleType' /\ Committed'
  BY <1>1 DEF MatchInv, GameType, PeopleType, Committed, AllReady, Enough, InTeam, Teams
<1>3. phase' \in Phases /\ EnoughChecked'
  BY DEF Phases, EnoughChecked
<1>. QED BY <1>2, <1>3 DEF MatchInv

\* An answer with an id: if the flag was up it stood for some task, and there was no id
\* yet; otherwise this is one of the tasks that were given up.
LEMMA AnswerIdKeeps ==
  ASSUME MatchesInv, flying > 0, AnswerId, UNCHANGED <<gametype, people, loggedIn, phase>>, phase = "tasks"
  PROVE  MatchesInv'
<1>1. /\ MatchInv /\ FetchType /\ UnusedId /\ FlagDown /\ Accounted /\ matchUuid \in Ids
      /\ UNCHANGED <<state, waiting, age, forceStart, deferred, started, abandoned>>
      /\ flying' = flying - 1 /\ given' = given + 1 /\ matchUuid' = given + 1
      /\ continueFetch' = FALSE
      /\ lost' = IF matchUuid > 0 THEN lost + 1 ELSE lost
      /\ used' = IF state \in {"playtime", "postmatch"} THEN used \cup {given + 1} ELSE used
  BY DEF AnswerId, MatchesInv, TasksInv, MatchInv, GameType
<1>2. Ids' = Ids \cup {given + 1} /\ given \in Nat
  BY <1>1 DEF Ids, FetchType
<1>3. MatchInv'
  BY <1>1, <1>2, TasksLeaveMatch
<1>4. FetchType'
  <2>1. continueFetch' \in BOOLEAN
    BY <1>1, Zenon
  <2>. QED BY <1>1, <2>1 DEF FetchType
<1>5. FlagDown'
  BY <1>1 DEF FlagDown
<1>6. UnusedId'
  <2>1. used' \subseteq Ids'
    BY <1>1, <1>2 DEF UnusedId
  <2>2. given + 1 \notin Ids
    BY <1>1 DEF Ids, NoId, ZeroId, DummyId, FetchType
  <2>3. state' = "countdown" => matchUuid' > 0 /\ matchUuid' \notin used'
    BY <1>1, <1>2, <2>2 DEF UnusedId
  <2>. QED BY <2>1, <2>3 DEF UnusedId
<1>7. Accounted'
  <2>1. CASE matchUuid > 0
    BY <1>1, <2>1 DEF FlagDown, Accounted, FetchType
  <2>2. CASE ~(matchUuid > 0)
    BY <1>1, <2>2 DEF Accounted, FetchType
  <2>. QED BY <2>1, <2>2
<1>. QED BY <1>3, <1>4, <1>5, <1>6, <1>7 DEF MatchesInv, TasksInv

LEMMA CheckTasksKeeps ==
  ASSUME MatchesInv, CheckTasks, loggedIn' = loggedIn
  PROVE  MatchesInv'
<1>1. /\ UNCHANGED <<gametype, people, phase>> /\ phase = "tasks"
      /\ MatchInv /\ FetchType /\ UnusedId /\ FlagDown /\ Accounted /\ matchUuid \in Ids
  BY DEF CheckTasks, MatchesInv, TasksInv, MatchInv, GameType
<1>2. CASE flying > 0 /\ AnswerId
  BY <1>1, <1>2, AnswerIdKeeps
<1>3. CASE (flying > 0 /\ (AnswerBad \/ AnswerFails)) \/ RetryDue
  <2>1. UNCHANGED <<state, waiting, age, forceStart, matchUuid, started, given, lost, abandoned, used>>
    BY <1>3 DEF AnswerBad, AnswerFails, RetryDue, game
  <2>2. MatchInv'
    BY <1>1, <2>1, TasksLeaveMatch DEF Ids
  <2>3. UnusedId'
    BY <1>1, <2>1 DEF UnusedId, Ids
  <2>4. continueFetch' = FALSE \/ continueFetch' = continueFetch
    BY <1>3 DEF AnswerBad, AnswerFails, RetryDue
  <2>5. FlagDown'
    BY <1>1, <2>1, <2>4 DEF FlagDown
  <2>6. /\ flying' \in Nat /\ deferred' \in Nat
        /\ \/ continueFetch /\ continueFetch' /\ flying' + deferred' = flying + deferred
           \/ ~continueFetch' /\ flying' + deferred' <= flying + deferred - 1
    <3>1. CASE flying > 0 /\ AnswerBad
      BY <1>1, <3>1 DEF AnswerBad, FetchType
    <3>2. CASE flying > 0 /\ AnswerFails
      BY <1>1, <3>2 DEF AnswerFails, FetchType
    <3>3. CASE RetryDue
      BY <1>1, <3>3 DEF RetryDue, FetchType
    <3>. QED BY <1>3, <3>1, <3>2, <3>3
  <2>7. continueFetch' \in BOOLEAN
    <3>1. continueFetch \in BOOLEAN
      BY <1>1 DEF FetchType
    <3>. QED BY <2>4, <3>1, Zenon
  <2>8. FetchType'
    BY <1>1, <2>1, <2>6, <2>7 DEF FetchType
  <2>9. Accounted'
    <3>1. /\ lost' = lost /\ abandoned' = abandoned
          /\ {lost, abandoned, flying, deferred, flying', deferred'} \subseteq Nat
      BY <1>1, <2>1, <2>6 DEF FetchType
    <3>2. CASE continueFetch /\ continueFetch' /\ flying' + deferred' = flying + deferred
      BY <1>1, <3>1, <3>2 DEF Accounted
    <3>3. CASE ~continueFetch' /\ flying' + deferred' <= flying + deferred - 1
      BY <1>1, <3>1, <3>3 DEF Accounted
    <3>. QED BY <2>6, <3>2, <3>3
  <2>. QED BY <2>2, <2>3, <2>5, <2>8, <2>9 DEF MatchesInv, TasksInv
<1>. QED BY <1>2, <1>3 DEF CheckTasks

\* A task is only started while the flag is down, and raises it; a flag that is taken down
\* counts a fetch as given up.
LEMMA CheckMatchUuidKeeps ==
  ASSUME MatchesInv, CheckMatchUuid, loggedIn' = loggedIn
  PROVE  MatchesInv'
<1>1. /\ MatchInv /\ FetchType /\ UnusedId /\ FlagDown /\ Accounted /\ matchUuid \in Ids
      /\ UNCHANGED <<gametype, state, waiting, age, forceStart, people, deferred, given, lost, used>>
      /\ phase' = "input" /\ Ids' = Ids
      /\ matchUuid' = IF matchUuid = NoId /\ ~loggedIn THEN DummyId ELSE matchUuid
      /\ abandoned' = IF matchUuid # NoId /\ continueFetch THEN abandoned + 1 ELSE abandoned
      /\ continueFetch' = (matchUuid = NoId /\ (continueFetch \/ started' > started))
  BY DEF CheckMatchUuid, MatchesInv, TasksInv, MatchInv, GameType, Ids
<1>2. MatchInv'
  BY <1>1, TasksLeaveMatch DEF Ids
<1>3. /\ started' \in Nat /\ flying' \in Nat /\ abandoned' \in Nat
      /\ \/ started' = started /\ flying' = flying
         \/ /\ started' = started + 1 /\ flying' = flying + 1
            /\ matchUuid = NoId /\ ~continueFetch
  BY <1>1 DEF CheckMatchUuid, MayStart, FetchType
<1>4. FetchType'
  <2>1. continueFetch' \in BOOLEAN
    BY <1>1, Zenon
  <2>. QED BY <1>1, <1>3, <2>1 DEF FetchType
<1>5. FlagDown'
  <2>1. matchUuid' > 0 => matchUuid # NoId
    BY <1>1 DEF NoId, DummyId
  <2>. QED BY <1>1, <2>1 DEF FlagDown
<1>6. UnusedId'
  BY <1>1 DEF UnusedId
<1>7. Accounted'
  <2>1. CASE matchUuid # NoId
    <3>1. /\ flying' = flying /\ lost' = lost /\ deferred' = deferred
          /\ {lost, abandoned, flying, deferred} \subseteq Nat
          /\ abandoned' = IF continueFetch THEN abandoned + 1 ELSE abandoned
      BY <1>1, <1>3, <2>1 DEF FetchType
    <3>2. ~continueFetch'
      BY <1>1, <2>1, Zenon
    <3>. QED BY <1>1, <3>1, <3>2 DEF Accounted
  <2>2. CASE matchUuid = NoId /\ started' = started /\ flying' = flying
    <3>1. continueFetch' <=> continueFetch
      <4>1. ~(started > started)
        BY <1>1 DEF FetchType
      <4>2. continueFetch' = (continueFetch \/ started > started)
        BY <1>1, <2>2, Zenon
      <4>. QED BY <4>1, <4>2, Zenon
    <3>. QED BY <1>1, <2>2, <3>1 DEF Accounted, FetchType
  <2>3. CASE /\ matchUuid = NoId /\ ~continueFetch
             /\ started' = started + 1 /\ flying' = flying + 1
    <3>1. continueFetch'
      <4>1. started' > started
        BY <1>1, <2>3 DEF FetchType
      <4>. QED BY <1>1, <2>3, <4>1, Zenon
    <3>. QED BY <1>1, <2>3, <3>1 DEF Accounted, FetchType
  <2>. QED BY <1>3, <2>1, <2>2, <2>3
<1>. QED BY <1>2, <1>4, <1>5, <1>6, <1>7 DEF MatchesInv, TasksInv

-----------------------------------------------------------------------------
LEMMA InitInv == MatchInit => MatchesInv
<1>. SUFFICES ASSUME MatchInit PROVE MatchesInv
  OBVIOUS
<1>1. MatchInv
  <2>1. ready \in [Players -> BOOLEAN] /\ agreed \in [Players -> BOOLEAN]
    BY Zenon DEF MatchInit
  <2>2. waiting \in BOOLEAN /\ forceStart \in BOOLEAN
    BY Zenon DEF MatchInit
  <2>3. GameType
    BY <2>2 DEF MatchInit, GameType, MatchStates, Ids
  <2>4. PeopleType
    BY <2>1 DEF MatchInit, PeopleType, InTeam
  <2>. QED BY <2>3, <2>4 DEF MatchInit, MatchInv, Phases, Committed, EnoughChecked
<1>2. TasksInv
  <2>1. continueFetch \in BOOLEAN /\ loggedIn \in BOOLEAN
    BY Zenon DEF MatchInit
  <2>. QED BY <2>1 DEF MatchInit, TasksInv, FetchType, UnusedId, FlagDown, Accounted, ZeroId
<1>. QED BY <1>1, <1>2 DEF MatchesInv

\* The step a behaviour may take to a match: only the rules take it.
FreshStep ==
  state # "playtime" /\ state' = "playtime" /\ loggedIn => matchUuid' \in (1 .. given') \ used

\* One step: the game module's, the rules' or the tasks'.
LEMMA NextKeeps ==
  ASSUME MatchesInv, [MatchNext]_matchVars
  PROVE  MatchesInv' /\ FreshStep
<1>1. MatchInv /\ TasksInv /\ FetchType
  BY DEF MatchesInv, TasksInv
<1>2. CASE /\ Commands \/ NewLevel \/ RunFrame \/ ChallengerJoins \/ CheckStateAbort
           /\ UNCHANGED <<fetch, used, loggedIn>>
  <2>1. given' = given
    BY <1>2 DEF fetch
  <2>2. MatchInv' /\ GameStep
    BY <1>1, <1>2, <2>1, CommandsKeep, NewLevelKeeps, RunFrameKeeps, ChallengerJoinsKeeps,
       CheckStateAbortKeeps
  <2>3. TasksInv'
    BY <1>1, <1>2, <2>2, GameStepKeeps DEF MatchInv
  <2>. QED BY <2>2, <2>3 DEF MatchesInv, GameStep, FreshStep
<1>3. CASE ThinkRules /\ UNCHANGED <<fetch, loggedIn>>
  BY <1>3, ThinkRulesKeeps DEF FreshStep
<1>4. CASE CheckTasks /\ UNCHANGED loggedIn
  <2>1. state' = state
    BY <1>4 DEF CheckTasks, AnswerId, AnswerBad, AnswerFails, RetryDue, game
  <2>. QED BY <1>4, <2>1, CheckTasksKeeps DEF FreshStep
<1>5. CASE CheckMatchUuid /\ UNCHANGED loggedIn
  <2>1. state' = state
    BY <1>5 DEF CheckMatchUuid
  <2>. QED BY <1>5, <2>1, CheckMatchUuidKeeps DEF FreshStep
<1>6. CASE UNCHANGED matchVars
  <2>1. UNCHANGED <<phase, gametype, state, waiting, age, forceStart, matchUuid, team, ready, agreed,
                    continueFetch, flying, deferred, started, given, lost, abandoned, loggedIn, used>>
    BY <1>6 DEF matchVars, game, people, fetch
  <2>2. MatchInv'
    BY <1>1, <2>1 DEF MatchInv, GameType, Ids, PeopleType, Committed, EnoughChecked, AllReady, Enough,
                      InTeam, Teams, Phases
  <2>3. TasksInv'
    BY <1>1, <2>1 DEF TasksInv, FetchType, UnusedId, FlagDown, Accounted, Ids
  <2>. QED BY <2>1, <2>2, <2>3 DEF MatchesInv, FreshStep
<1>. QED BY <1>2, <1>3, <1>4, <1>5, <1>6 DEF MatchNext

\* The invariant that the theorems below are read from.
THEOREM MatchInvariance == MatchSpec => []MatchesInv
<1>1. MatchesInv /\ [MatchNext]_matchVars => MatchesInv'
  BY NextKeeps
<1>. QED BY InitInv, <1>1, PTL DEF MatchSpec

\* The state of a match, its players and its tasks stays well formed, and a ready flag
\* belongs to a player who agreed since he joined: a slot's stale flag never counts for the
\* next player, although ClientDisconnect leaves it.
THEOREM MatchTypeCorrect == MatchSpec => []MatchTypeOK
<1>1. MatchesInv => MatchTypeOK
  BY DEF MatchesInv, MatchInv, TasksInv, GameType, PeopleType, FetchType, UnusedId, Ids, Phases, MatchTypeOK
<1>. QED BY MatchInvariance, <1>1, PTL

\* Countdowns that are not forced are agreed by everybody in a team, and a match starts
\* with enough players, for any number of players and any gametype.
THEOREM MatchesAgreed == MatchSpec => []Agreed
<1>1. MatchesInv => Agreed
  BY DEF MatchesInv, MatchInv, PeopleType, Committed, EnoughChecked, AllReady, Agreed
<1>. QED BY MatchInvariance, <1>1, PTL

\* An id of the service's is overwritten at most once for each fetch that was given up
\* while under way, however many tasks there are.
THEOREM IdsAreKept == MatchSpec => []IdsKept
<1>1. MatchesInv => IdsKept
  BY DEF MatchesInv, TasksInv, FetchType, Accounted, IdsKept
<1>. QED BY MatchInvariance, <1>1, PTL

\* A logged in server starts every match with an id that the service gave and that no
\* match was played under before.
THEOREM IdsAreFresh == MatchSpec => FreshIds
<1>1. MatchesInv /\ [MatchNext]_matchVars => [FreshStep]_matchVars
  BY NextKeeps
<1>2. [FreshStep]_matchVars <=>
        [state # "playtime" /\ state' = "playtime" /\ loggedIn =>
           matchUuid' \in (1 .. given') \ used]_matchVars
  BY DEF FreshStep
<1>. QED BY MatchInvariance, <1>1, <1>2, PTL DEF MatchSpec, FreshIds
=============================================================================
