------------------------------ MODULE NetChan ------------------------------
(***************************************************************************)
(* The sequenced, fragmenting channel of qcommon/net_chan.cpp between a    *)
(* client and a server, over a network that loses, duplicates and delays   *)
(* packets.  Both ends run the same code; they differ in what their        *)
(* caller does when pushing out older fragments fails (SV_Netchan_Transmit *)
(* gives up, CL_Netchan_Transmit carries on).                              *)
(*                                                                         *)
(* A message is a sequence of bytes.  The i-th byte of the n-th message of *)
(* an end is the pair <<n, i>>, so that bytes of different messages, or a  *)
(* byte out of its place, can never be mistaken for one another.           *)
(* Compression, the game port and the socket are left out: they do not     *)
(* change which packets are accepted.                                      *)
(***************************************************************************)
EXTENDS Integers, Sequences, Functions

CONSTANTS
  FRAGMENT_SIZE,   \* messages this long or longer are sent in fragments
  MAX_MSGLEN,      \* capacity of a message and of the reassembly buffer
  HeaderLen,       \* bytes Netchan_Process puts before a reassembled message
  Lengths,         \* lengths of the messages that the callers send
  MaxSent,         \* MaxSent[e]: how many messages end e sends
  MaxFaults        \* how many packets the network or a socket mistreats

Ends == {"client", "server"}
Peer(e) == IF e = "client" THEN "server" ELSE "client"

ASSUME SizeAssumption ==
  /\ FRAGMENT_SIZE \in Nat \ {0}
  /\ MAX_MSGLEN \in Nat
  /\ HeaderLen \in Nat
  /\ Lengths \subseteq 0 .. MAX_MSGLEN
  /\ MaxSent \in [Ends -> Nat]
  /\ MaxFaults \in Nat

VARIABLES
  \* netchan_t, one per end
  outgoingSequence, incomingSequence, incoming_acknowledged,
  fragmentSequence, fragmentBuffer,
  unsentFragments, unsentFragmentStart, unsentBuffer,
  \* the rest of the program and of the world
  pending,    \* length of the message that e's caller is transmitting, or Idle
  fatal,      \* e stopped with Com_Error( ERR_FATAL )
  net,        \* net[e]: the packets on their way to e
  \* history
  sent,       \* sent[e][n]: data of e's message n, ack written in its first packet
  delivered,  \* delivered[e]: what Netchan_Process gave to e's reader
  damaged,    \* damaged[e]: e's messages that a packet of was lost or never sent
  reordered,  \* a packet was overtaken by another
  faults

sender   == <<outgoingSequence, unsentFragments, unsentFragmentStart, unsentBuffer>>
receiver == <<incomingSequence, incoming_acknowledged, fragmentSequence,
              fragmentBuffer, delivered, fatal>>
world    == <<damaged, reordered, faults>>
vars     == <<sender, receiver, world, pending, net, sent>>

Idle == -1
Byte == Nat \X Nat
NewMessage(e, len) == [i \in 1 .. len |-> <<Len(sent[e]) + 1, i>>]

Packet == [seq : Nat, ack : Nat, fragmented : BOOLEAN, last : BOOLEAN,
           start : Nat, data : Seq(Byte)]
SentMessage == [data : Seq(Byte), ack : Nat]
Delivery == [seq : Nat, data : Seq(Byte)]

Init ==   \* Netchan_Setup at both ends
  /\ outgoingSequence      = [e \in Ends |-> 1]
  /\ incomingSequence      = [e \in Ends |-> 0]
  /\ incoming_acknowledged = [e \in Ends |-> 0]
  /\ fragmentSequence      = [e \in Ends |-> 0]
  /\ fragmentBuffer        = [e \in Ends |-> <<>>]
  /\ unsentFragments       = [e \in Ends |-> FALSE]
  /\ unsentFragmentStart   = [e \in Ends |-> 0]
  /\ unsentBuffer          = [e \in Ends |-> <<>>]
  /\ pending               = [e \in Ends |-> Idle]
  /\ fatal                 = [e \in Ends |-> FALSE]
  /\ net                   = [e \in Ends |-> <<>>]
  /\ sent                  = [e \in Ends |-> <<>>]
  /\ delivered             = [e \in Ends |-> <<>>]
  /\ damaged               = [e \in Ends |-> {}]
  /\ reordered             = FALSE
  /\ faults                = 0
-----------------------------------------------------------------------------
(* Sending *)

\* NET_SendPacket: the packet is on its way, or the socket refuses it and the
\* message it belongs to is damaged.
SendPacket(e, pkt) ==
  /\ net' = [net EXCEPT ![Peer(e)] = Append(@, pkt)]
  /\ UNCHANGED world
SendFails(e) ==
  /\ faults < MaxFaults
  /\ faults' = faults + 1
  /\ damaged' = [damaged EXCEPT ![e] = @ \cup {outgoingSequence[e]}]
  /\ UNCHANGED <<net, reordered>>

CeilDiv(a, b) == (a + b - 1) \div b

IsLast(start, msg) == start + FRAGMENT_SIZE > Len(msg)

\* The fragment that follows the first start bytes of msg: the last one takes
\* what is left, the others share what is left evenly.
FragmentLength(start, msg) ==
  LET left == Len(msg) - start
  IN  IF IsLast(start, msg) THEN left ELSE CeilDiv(left, CeilDiv(left, FRAGMENT_SIZE))

Fragment(e, start, msg) ==
  [seq |-> outgoingSequence[e], ack |-> incomingSequence[e],
   fragmented |-> TRUE, last |-> IsLast(start, msg), start |-> start,
   data |-> SubSeq(msg, start + 1, start + FragmentLength(start, msg))]

\* Wrong on purpose: no empty last fragment.
MessageOver_NoEmptyFragment(start, msg) == start + FragmentLength(start, msg) = Len(msg)

\* A message that ends in a fragment of exactly FRAGMENT_SIZE bytes is not over
\* yet: an empty last fragment follows.
MessageOver(start, msg) ==
  LET len == FragmentLength(start, msg)
  IN  start + len = Len(msg) /\ len # FRAGMENT_SIZE

\* Netchan_TransmitNextFragment, sending from byte start of msg.
FragmentSent(e, start, msg) ==
  LET over == MessageOver(start, msg)
  IN  /\ SendPacket(e, Fragment(e, start, msg))
      /\ unsentBuffer' = [unsentBuffer EXCEPT ![e] = msg]
      /\ unsentFragmentStart' =
           [unsentFragmentStart EXCEPT ![e] = start + FragmentLength(start, msg)]
      /\ unsentFragments' = [unsentFragments EXCEPT ![e] = ~over]
      /\ outgoingSequence' = [outgoingSequence EXCEPT ![e] = IF over THEN @ + 1 ELSE @]

\* ... and its error path, Netchan_DropAllFragments.
FragmentFails(e, start, msg) ==
  /\ SendFails(e)
  /\ unsentBuffer' = [unsentBuffer EXCEPT ![e] = msg]
  /\ unsentFragmentStart' = [unsentFragmentStart EXCEPT ![e] = start]
  /\ unsentFragments' = [unsentFragments EXCEPT ![e] = FALSE]
  /\ outgoingSequence' = [outgoingSequence EXCEPT ![e] = @ + 1]

\* A caller enters SV_Netchan_Transmit or CL_Netchan_Transmit.
StartTransmit(e) == \E len \in Lengths :
  /\ pending[e] = Idle
  /\ ~fatal[e]
  /\ Len(sent[e]) < MaxSent[e]
  /\ pending' = [pending EXCEPT ![e] = len]
  /\ UNCHANGED <<sender, receiver, world, net, sent>>

\* Wrong on purpose: the caller does not push out the older fragments first.
MustPush_Forgotten(e) == FALSE

\* One turn of the loop of Netchan_PushAllFragments that both callers run first.
\* When it fails the server's caller returns, the client's goes on.
MustPush(e) == unsentFragments[e]
PushFragment(e) ==
  /\ pending[e] # Idle
  /\ MustPush(e)
  /\ \/ /\ FragmentSent(e, unsentFragmentStart[e], unsentBuffer[e])
        /\ UNCHANGED pending
     \/ /\ FragmentFails(e, unsentFragmentStart[e], unsentBuffer[e])
        /\ pending' = [pending EXCEPT ![e] = IF e = "server" THEN Idle ELSE @]
  /\ UNCHANGED <<receiver, sent>>

\* Netchan_Transmit of a message too short to be fragmented.
TransmitWhole(e, msg) ==
  /\ Len(msg) < FRAGMENT_SIZE
  /\ \/ SendPacket(e, [seq |-> outgoingSequence[e], ack |-> incomingSequence[e],
                       fragmented |-> FALSE, last |-> TRUE, start |-> 0, data |-> msg])
     \/ SendFails(e)
  /\ outgoingSequence' = [outgoingSequence EXCEPT ![e] = @ + 1]
  /\ unsentFragmentStart' = [unsentFragmentStart EXCEPT ![e] = 0]
  /\ UNCHANGED <<unsentFragments, unsentBuffer>>

\* Netchan_Transmit of a longer one sends its first fragment only.
TransmitFirstFragment(e, msg) ==
  /\ Len(msg) >= FRAGMENT_SIZE
  /\ FragmentSent(e, 0, msg) \/ FragmentFails(e, 0, msg)

Transmit(e) ==
  /\ pending[e] # Idle
  /\ ~MustPush(e)
  /\ LET msg == NewMessage(e, pending[e])
     IN  /\ TransmitWhole(e, msg) \/ TransmitFirstFragment(e, msg)
         /\ sent' = [sent EXCEPT ![e] =
                       Append(@, [data |-> msg, ack |-> incomingSequence[e]])]
  /\ pending' = [pending EXCEPT ![e] = Idle]
  /\ UNCHANGED receiver

\* SV_SendClientsFragments and CL_NetFrame: one fragment per frame.
FrameFragment(e) ==
  /\ pending[e] = Idle
  /\ ~fatal[e]
  /\ unsentFragments[e]
  /\ \/ FragmentSent(e, unsentFragmentStart[e], unsentBuffer[e])
     \/ FragmentFails(e, unsentFragmentStart[e], unsentBuffer[e])
  /\ UNCHANGED <<receiver, pending, sent>>
-----------------------------------------------------------------------------
(* Receiving: Netchan_Process *)

\* Wrong on purpose: duplicates are let through.
Stale_OlderOnly(e, pkt) == pkt.seq < incomingSequence[e]

\* A packet no newer than the last message is discarded.
Stale(e, pkt) == pkt.seq <= incomingSequence[e]

Accept(e, pkt, data) ==
  /\ incomingSequence' = [incomingSequence EXCEPT ![e] = pkt.seq]
  /\ incoming_acknowledged' = [incoming_acknowledged EXCEPT ![e] = pkt.ack]
  /\ delivered' = [delivered EXCEPT ![e] = Append(@, [seq |-> pkt.seq, data |-> data])]

ProcessStale(e, pkt) ==
  /\ Stale(e, pkt)
  /\ UNCHANGED receiver

ProcessWhole(e, pkt) ==
  /\ ~Stale(e, pkt)
  /\ ~pkt.fragmented
  /\ Accept(e, pkt, pkt.data)
  /\ UNCHANGED <<fragmentSequence, fragmentBuffer, fatal>>

\* What has been reassembled of the message that pkt is a fragment of.
Reassembled(e, pkt) ==
  IF pkt.seq = fragmentSequence[e] THEN fragmentBuffer[e] ELSE <<>>

\* Wrong on purpose: whatever fragment comes is appended.
Fits_Always(buffer, pkt) == TRUE

\* A fragment that is not the next one leaves the buffer as it is.
Fits(buffer, pkt) ==
  /\ pkt.start = Len(buffer)
  /\ Len(buffer) + Len(pkt.data) <= MAX_MSGLEN

ProcessFragment(e, pkt) ==
  LET buffer == Reassembled(e, pkt)
      joined == buffer \o pkt.data
  IN  /\ ~Stale(e, pkt)
      /\ pkt.fragmented
      /\ fragmentSequence' = [fragmentSequence EXCEPT ![e] = pkt.seq]
      /\ \/ /\ ~Fits(buffer, pkt)
            /\ fragmentBuffer' = [fragmentBuffer EXCEPT ![e] = buffer]
            /\ UNCHANGED <<incomingSequence, incoming_acknowledged, delivered, fatal>>
         \/ /\ Fits(buffer, pkt)
            /\ ~pkt.last
            /\ fragmentBuffer' = [fragmentBuffer EXCEPT ![e] = joined]
            /\ UNCHANGED <<incomingSequence, incoming_acknowledged, delivered, fatal>>
         \/ /\ Fits(buffer, pkt)
            /\ pkt.last
            /\ HeaderLen + Len(joined) <= MAX_MSGLEN
            /\ Accept(e, pkt, joined)
            /\ fragmentBuffer' = [fragmentBuffer EXCEPT ![e] = <<>>]
            /\ UNCHANGED fatal
         \/ /\ Fits(buffer, pkt)      \* MSG_GetSpace: overflowed
            /\ pkt.last
            /\ HeaderLen + Len(joined) > MAX_MSGLEN
            /\ fatal' = [fatal EXCEPT ![e] = TRUE]
            /\ fragmentBuffer' = [fragmentBuffer EXCEPT ![e] = joined]
            /\ UNCHANGED <<incomingSequence, incoming_acknowledged, delivered>>

Receive(e) ==
  /\ pending[e] = Idle
  /\ ~fatal[e]
  /\ net[e] # <<>>
  /\ LET pkt == Head(net[e])
     IN  ProcessStale(e, pkt) \/ ProcessWhole(e, pkt) \/ ProcessFragment(e, pkt)
  /\ net' = [net EXCEPT ![e] = Tail(@)]
  /\ UNCHANGED <<sender, world, pending, sent>>
-----------------------------------------------------------------------------
(* The network *)

Lose(e) ==
  /\ faults < MaxFaults
  /\ net[e] # <<>>
  /\ faults' = faults + 1
  /\ damaged' = [damaged EXCEPT ![Peer(e)] = @ \cup {Head(net[e]).seq}]
  /\ net' = [net EXCEPT ![e] = Tail(@)]
  /\ UNCHANGED <<sender, receiver, pending, sent, reordered>>

Duplicate(e) ==
  /\ faults < MaxFaults
  /\ net[e] # <<>>
  /\ faults' = faults + 1
  /\ net' = [net EXCEPT ![e] = <<Head(@)>> \o @]
  /\ UNCHANGED <<sender, receiver, pending, sent, damaged, reordered>>

\* The first packet is overtaken by all the others.
Delay(e) ==
  /\ faults < MaxFaults
  /\ Len(net[e]) > 1
  /\ faults' = faults + 1
  /\ reordered' = TRUE
  /\ net' = [net EXCEPT ![e] = Append(Tail(@), Head(@))]
  /\ UNCHANGED <<sender, receiver, pending, sent, damaged>>
-----------------------------------------------------------------------------
Caller(e) == PushFragment(e) \/ Transmit(e)
Next == \E e \in Ends :
  \/ StartTransmit(e) \/ Caller(e) \/ FrameFragment(e)
  \/ Receive(e) \/ Lose(e) \/ Duplicate(e) \/ Delay(e)

Spec == Init /\ [][Next]_vars
-----------------------------------------------------------------------------
(* Properties *)

SenderType ==
  /\ outgoingSequence \in [Ends -> Nat \ {0}]
  /\ unsentFragments \in [Ends -> BOOLEAN]
  /\ unsentFragmentStart \in [Ends -> Nat]
  /\ unsentBuffer \in [Ends -> Seq(Byte)]
  /\ \A e \in Ends : unsentFragmentStart[e] <= Len(unsentBuffer[e])
ReceiverType ==
  /\ incomingSequence \in [Ends -> Nat]
  /\ incoming_acknowledged \in [Ends -> Nat]
  /\ fragmentSequence \in [Ends -> Nat]
  /\ fragmentBuffer \in [Ends -> Seq(Byte)]
  /\ fatal \in [Ends -> BOOLEAN]
  /\ delivered \in [Ends -> Seq(Delivery)]
  /\ \A e \in Ends : Len(fragmentBuffer[e]) <= MAX_MSGLEN
WorldType ==
  /\ damaged \in [Ends -> SUBSET Nat]
  /\ reordered \in BOOLEAN
  /\ faults \in 0 .. MaxFaults
TypeOK ==
  /\ SenderType
  /\ ReceiverType
  /\ WorldType
  /\ pending \in [Ends -> Lengths \cup {Idle}]
  /\ net \in [Ends -> Seq(Packet)]
  /\ sent \in [Ends -> Seq(SentMessage)]

\* What Netchan_Process hands out as message n is, byte for byte, the message
\* that the other end numbered n: fragments are never mixed or left out.
IntactDelivery == \A e \in Ends : \A d \in Range(delivered[e]) :
  /\ d.seq \in DOMAIN sent[Peer(e)]
  /\ d.data = sent[Peer(e)][d.seq].data

\* Losing a packet, or failing to send it, costs the message it belongs to and
\* no other, and a duplicate costs nothing: when all is quiet and no packet was
\* overtaken, every message whose packets all arrived was delivered.
Quiet(e) == /\ net[e] = <<>>
            /\ ~fatal[e]
            /\ ~unsentFragments[Peer(e)]
LossIsLocal == \A e \in Ends :
  ~reordered /\ Quiet(e) =>
    \A n \in DOMAIN sent[Peer(e)] \ damaged[Peer(e)] :
      \E d \in Range(delivered[e]) : d.seq = n

\* The channel delivers whole messages, in order, each at most once.
Message ==
  UNION {{[i \in 1 .. len |-> <<n, i>>] : len \in Lengths} : n \in 1 .. MaxSent["client"] + MaxSent["server"]}
Promise == INSTANCE OrderedDelivery WITH
  sent <- [e \in Ends |-> [n \in DOMAIN sent[e] |-> sent[e][n].data]],
  delivered <- delivered
Implements == Promise!Spec
=============================================================================
