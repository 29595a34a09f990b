-------------------------- MODULE OrderedDelivery --------------------------
(***************************************************************************)
(* What a netchan (qcommon/net_chan.cpp) promises to the code above it,    *)
(* with no packet, no fragment and no network in sight: two ends exchange  *)
(* messages that may be lost, but a message that comes out is one that the *)
(* other end sent, whole, and messages come out in the order they were     *)
(* sent, each at most once.                                                *)
(***************************************************************************)
EXTENDS Naturals, Sequences

CONSTANT Message        \* what an end can send

VARIABLES sent,         \* sent[e]: the messages end e sent, oldest first
          delivered     \* delivered[e]: what the reader at e was given

vars == <<sent, delivered>>

Ends == {"client", "server"}
Peer(e) == IF e = "client" THEN "server" ELSE "client"

\* The number of the newest message that the reader at e was given.
Newest(e) ==
  IF delivered[e] = <<>> THEN 0 ELSE delivered[e][Len(delivered[e])].seq

Init == /\ sent = [e \in Ends |-> <<>>]
        /\ delivered = [e \in Ends |-> <<>>]

Send(e) == \E m \in Message :
  /\ sent' = [sent EXCEPT ![e] = Append(@, m)]
  /\ UNCHANGED delivered

\* Older messages that are skipped here are lost for good.
Deliver(e) == \E n \in 1 .. Len(sent[Peer(e)]) :
  /\ n > Newest(e)
  /\ delivered' = [delivered EXCEPT ![e] =
                     Append(@, [seq |-> n, data |-> sent[Peer(e)][n]])]
  /\ UNCHANGED sent

Next == \E e \in Ends : Send(e) \/ Deliver(e)

Spec == Init /\ [][Next]_vars
=============================================================================
