--------------------------- MODULE NetChanProofs ---------------------------
(***************************************************************************)
(* What NetChan guarantees for every fragment size, every buffer size, any *)
(* number of messages and any number of faults.                            *)
(***************************************************************************)
EXTENDS NetChan, SequenceTheorems, TLAPS

-----------------------------------------------------------------------------
(* Cutting a message into fragments *)

\* Dividing n >= 1 things evenly over k >= 1 boxes puts at most n in a box.
LEMMA CeilDivBound ==
  ASSUME NEW a \in Nat, NEW b \in Nat, b >= 1
  PROVE  /\ CeilDiv(a, b) \in Nat
         /\ CeilDiv(a, b) <= a
         /\ a >= 1 => CeilDiv(a, b) >= 1
<1> DEFINE q == (a + b - 1) \div b
<1>1. q \in Nat /\ b * q <= a + b - 1 /\ a + b - 1 < b * q + b
  OBVIOUS
<1>2. q <= a
  <2> SUFFICES ASSUME q >= a + 1 PROVE FALSE
    BY <1>1
  <2>1. b * q >= b * (a + 1)
    BY <1>1
  <2>2. b * (a + 1) = b * a + b
    OBVIOUS
  <2>3. b * a >= a
    OBVIOUS
  <2> QED BY <1>1, <2>1, <2>2, <2>3
<1>3. a >= 1 => q >= 1
  <2> SUFFICES ASSUME a >= 1, q = 0 PROVE FALSE
    BY <1>1
  <2> QED BY <1>1
<1> QED BY <1>1, <1>2, <1>3 DEF CeilDiv

\* A fragment lies within its message, and the last one reaches its end.
LEMMA FragmentWithin ==
  ASSUME NEW msg \in Seq(Byte), NEW start \in Nat, start <= Len(msg)
  PROVE  /\ FragmentLength(start, msg) \in Nat
         /\ start + FragmentLength(start, msg) <= Len(msg)
         /\ IsLast(start, msg) => start + FragmentLength(start, msg) = Len(msg)
<1> DEFINE left == Len(msg) - start
<1>1. left \in Nat /\ Len(msg) \in Nat /\ left = Len(msg) - start
  OBVIOUS
<1>4. FragmentLength(start, msg) =
        IF IsLast(start, msg) THEN left ELSE CeilDiv(left, CeilDiv(left, FRAGMENT_SIZE))
  BY DEF FragmentLength
<1>5. ~IsLast(start, msg) => left >= FRAGMENT_SIZE
  BY SizeAssumption DEF IsLast
<1>6. FRAGMENT_SIZE \in Nat /\ FRAGMENT_SIZE >= 1
  BY SizeAssumption
<1> HIDE DEF left
<1>2. CASE IsLast(start, msg)
  BY <1>1, <1>4, <1>2
<1>3. CASE ~IsLast(start, msg)
  <2>1. left >= 1
    BY <1>1, <1>3, <1>5, <1>6
  <2>2. CeilDiv(left, FRAGMENT_SIZE) \in Nat /\ CeilDiv(left, FRAGMENT_SIZE) >= 1
    BY <1>1, <1>6, <2>1, CeilDivBound
  <2>3. /\ CeilDiv(left, CeilDiv(left, FRAGMENT_SIZE)) \in Nat
        /\ CeilDiv(left, CeilDiv(left, FRAGMENT_SIZE)) <= left
    BY <1>1, <2>2, CeilDivBound
  <2> QED BY <1>1, <1>4, <1>3, <2>3
<1> QED BY <1>2, <1>3

-----------------------------------------------------------------------------
(* Types *)

LEMMA PeerType == \A e \in Ends : Peer(e) \in Ends /\ Peer(e) # e /\ Peer(Peer(e)) = e
BY DEF Ends, Peer

LEMMA LengthsNat == Lengths \subseteq Nat /\ Idle \notin Lengths /\ MAX_MSGLEN \in Nat
BY SizeAssumption DEF Idle

\* Facts about updating one entry of a function, so that the steps below can
\* cite them instead of unfolding EXCEPT.
LEMMA UpdateType ==
  ASSUME NEW D, NEW R, NEW f \in [D -> R], NEW e \in D, NEW v \in R
  PROVE  [f EXCEPT ![e] = v] \in [D -> R]
OBVIOUS

LEMMA SendPacketType ==
  ASSUME TypeOK, NEW e \in Ends, NEW pkt \in Packet, SendPacket(e, pkt) \/ SendFails(e)
  PROVE  net' \in [Ends -> Seq(Packet)] /\ WorldType'
<1>1. CASE SendPacket(e, pkt)
  <2>1. net \in [Ends -> Seq(Packet)] /\ Peer(e) \in Ends
    BY PeerType DEF TypeOK
  <2>2. net' = [net EXCEPT ![Peer(e)] = Append(net[Peer(e)], pkt)]
    BY <1>1 DEF SendPacket
  <2>3. Append(net[Peer(e)], pkt) \in Seq(Packet)
    BY <2>1
  <2>4. net' \in [Ends -> Seq(Packet)]
    BY <2>1, <2>2, <2>3, UpdateType
  <2> QED BY <1>1, <2>4 DEF SendPacket, world, WorldType, TypeOK
<1>2. CASE SendFails(e)
  <2>1. outgoingSequence[e] \in Nat
    BY DEF TypeOK, SenderType
  <2> QED BY <1>2, <2>1, SizeAssumption DEF SendFails, WorldType, TypeOK
<1> QED BY <1>1, <1>2

LEMMA FragmentType ==
  ASSUME TypeOK, NEW e \in Ends, NEW msg \in Seq(Byte), NEW start \in Nat, start <= Len(msg)
  PROVE  /\ Fragment(e, start, msg) \in Packet
         /\ Len(Fragment(e, start, msg).data) = FragmentLength(start, msg)
<1>1. SubSeq(msg, start + 1, start + FragmentLength(start, msg)) \in Seq(Byte)
  BY FragmentWithin, SubSeqProperties
<1>2. Len(SubSeq(msg, start + 1, start + FragmentLength(start, msg))) = FragmentLength(start, msg)
  BY FragmentWithin, SubSeqProperties
<1>3. IsLast(start, msg) \in BOOLEAN
  BY DEF IsLast
<1>4. outgoingSequence[e] \in Nat /\ incomingSequence[e] \in Nat
  BY DEF TypeOK, SenderType, ReceiverType
<1> QED BY <1>1, <1>2, <1>3, <1>4 DEF Fragment, Packet

LEMMA NewMessageType ==
  ASSUME TypeOK, NEW e \in Ends, NEW len \in Lengths
  PROVE  /\ NewMessage(e, len) \in Seq(Byte)
         /\ Len(NewMessage(e, len)) = len
<1>1. len \in Nat /\ Len(sent[e]) + 1 \in Nat
  BY LengthsNat DEF TypeOK
<1>2. \A i \in 1 .. len : <<Len(sent[e]) + 1, i>> \in Byte
  BY <1>1 DEF Byte
<1> QED BY <1>1, <1>2 DEF NewMessage

LEMMA FragmentSentType ==
  ASSUME TypeOK, NEW e \in Ends, NEW msg \in Seq(Byte), NEW start \in Nat, start <= Len(msg),
         FragmentSent(e, start, msg) \/ FragmentFails(e, start, msg)
  PROVE  SenderType' /\ net' \in [Ends -> Seq(Packet)] /\ WorldType'
<1>1. net' \in [Ends -> Seq(Packet)] /\ WorldType'
  BY SendPacketType, FragmentType DEF FragmentSent, FragmentFails
<1>2. CASE FragmentSent(e, start, msg)
  <2>1. MessageOver(start, msg) \in BOOLEAN
    BY DEF MessageOver
  <2>2. /\ FragmentLength(start, msg) \in Nat
        /\ start + FragmentLength(start, msg) <= Len(msg)
    BY FragmentWithin
  <2>3. SenderType'
    BY <1>2, <2>1, <2>2, SMTT(20) DEF FragmentSent, SenderType, TypeOK
  <2> QED BY <1>1, <2>3
<1>3. CASE FragmentFails(e, start, msg)
  <2>1. SenderType'
    BY <1>3 DEF FragmentFails, SenderType, TypeOK
  <2> QED BY <1>1, <2>1
<1> QED BY <1>2, <1>3

LEMMA TransmitType ==
  ASSUME TypeOK, NEW e \in Ends, Transmit(e)
  PROVE  TypeOK'
<1> DEFINE msg == NewMessage(e, pending[e])
<1>1. pending[e] \in Lengths
  BY DEF Transmit, TypeOK
<1>2. msg \in Seq(Byte) /\ Len(msg) \in Nat
  BY <1>1, NewMessageType
<1>3. pending' \in [Ends -> Lengths \cup {Idle}]
  BY DEF Transmit, TypeOK
<1>4. incomingSequence[e] \in Nat
  BY DEF TypeOK, ReceiverType
<1>5. sent' \in [Ends -> Seq(SentMessage)]
  <2>1. [data |-> msg, ack |-> incomingSequence[e]] \in SentMessage
    BY <1>2, <1>4 DEF SentMessage
  <2>2. sent \in [Ends -> Seq(SentMessage)]
    BY DEF TypeOK
  <2>3. Append(sent[e], [data |-> msg, ack |-> incomingSequence[e]]) \in Seq(SentMessage)
    BY <2>1, <2>2, AppendProperties
  <2>4. sent' = [sent EXCEPT ![e] = Append(sent[e], [data |-> msg, ack |-> incomingSequence[e]])]
    BY DEF Transmit
  <2> QED BY <2>2, <2>3, <2>4, UpdateType
<1>6. ReceiverType'
  BY DEF Transmit, receiver, ReceiverType, TypeOK
<1>7. SenderType' /\ net' \in [Ends -> Seq(Packet)] /\ WorldType'
  <2>1. CASE TransmitWhole(e, msg)
    <3>1. [seq |-> outgoingSequence[e], ack |-> incomingSequence[e], fragmented |-> FALSE,
           last |-> TRUE, start |-> 0, data |-> msg] \in Packet
      BY <1>2, <1>4 DEF Packet, TypeOK, SenderType
    <3>2. net' \in [Ends -> Seq(Packet)] /\ WorldType'
      BY <2>1, <3>1, SendPacketType DEF TransmitWhole
    <3>3. SenderType'
      BY <2>1 DEF TransmitWhole, SenderType, TypeOK
    <3> QED BY <3>2, <3>3
  <2>2. CASE TransmitFirstFragment(e, msg)
    BY <1>2, <2>2, FragmentSentType DEF TransmitFirstFragment
  <2> QED BY <2>1, <2>2 DEF Transmit
<1> QED BY <1>3, <1>5, <1>6, <1>7 DEF TypeOK

LEMMA PushType ==
  ASSUME TypeOK, NEW e \in Ends, PushFragment(e) \/ FrameFragment(e)
  PROVE  TypeOK'
<1>1. /\ unsentBuffer[e] \in Seq(Byte)
      /\ unsentFragmentStart[e] \in Nat
      /\ unsentFragmentStart[e] <= Len(unsentBuffer[e])
  BY DEF TypeOK, SenderType
<1>2. SenderType' /\ net' \in [Ends -> Seq(Packet)] /\ WorldType'
  BY <1>1, FragmentSentType DEF PushFragment, FrameFragment
<1>3. pending' \in [Ends -> Lengths \cup {Idle}]
  BY DEF PushFragment, FrameFragment, TypeOK
<1>4. ReceiverType' /\ UNCHANGED sent
  BY DEF PushFragment, FrameFragment, receiver, ReceiverType, TypeOK
<1> QED BY <1>2, <1>3, <1>4 DEF TypeOK

\* What Netchan_Process writes when it accepts a message.
LEMMA AcceptType ==
  ASSUME TypeOK, NEW e \in Ends, NEW pkt \in Packet, NEW data \in Seq(Byte),
         Accept(e, pkt, data)
  PROVE  /\ incomingSequence' \in [Ends -> Nat]
         /\ incoming_acknowledged' \in [Ends -> Nat]
         /\ delivered' \in [Ends -> Seq(Delivery)]
<1>1. pkt.seq \in Nat /\ pkt.ack \in Nat
  BY DEF Packet
<1>2. [seq |-> pkt.seq, data |-> data] \in Delivery
  BY <1>1 DEF Delivery
<1>3. delivered \in [Ends -> Seq(Delivery)]
  BY DEF TypeOK, ReceiverType
<1>4. Append(delivered[e], [seq |-> pkt.seq, data |-> data]) \in Seq(Delivery)
  BY <1>2, <1>3, AppendProperties
<1>5. delivered' = [delivered EXCEPT ![e] = Append(delivered[e], [seq |-> pkt.seq, data |-> data])]
  BY DEF Accept
<1>6. delivered' \in [Ends -> Seq(Delivery)]
  BY <1>3, <1>4, <1>5, UpdateType
<1> QED BY <1>1, <1>6 DEF Accept, TypeOK, ReceiverType

LEMMA ReceiveType ==
  ASSUME TypeOK, NEW e \in Ends, Receive(e)
  PROVE  TypeOK'
<1> DEFINE pkt == Head(net[e])
<1>1. pkt \in Packet /\ net' \in [Ends -> Seq(Packet)]
  BY DEF Receive, TypeOK
<1>2. pkt.seq \in Nat /\ pkt.ack \in Nat /\ pkt.data \in Seq(Byte)
  BY <1>1 DEF Packet
<1>3. UNCHANGED <<sender, world, pending, sent>>
  BY DEF Receive
<1> HIDE DEF pkt
<1>4. ReceiverType'
  <2>1. CASE ProcessStale(e, pkt)
    BY <2>1 DEF ProcessStale, receiver, ReceiverType, TypeOK
  <2>2. CASE ProcessWhole(e, pkt)
    BY <1>1, <1>2, <2>2, AcceptType DEF ProcessWhole, ReceiverType, TypeOK
  <2>3. CASE ProcessFragment(e, pkt)
    <3> DEFINE buffer == Reassembled(e, pkt)
               joined == buffer \o pkt.data
    <3>1. buffer \in Seq(Byte) /\ Len(buffer) \in Nat /\ Len(buffer) <= MAX_MSGLEN
      BY LengthsNat DEF Reassembled, TypeOK, ReceiverType
    <3>2. joined \in Seq(Byte) /\ Len(joined) = Len(buffer) + Len(pkt.data)
      BY <1>2, <3>1
    <3>3. Fits(buffer, pkt) => Len(joined) <= MAX_MSGLEN
      BY <3>2 DEF Fits
    <3>4. \E b \in {buffer, joined, <<>>} :
             fragmentBuffer' = [fragmentBuffer EXCEPT ![e] = b] /\ Len(b) <= MAX_MSGLEN
      BY <2>3, <3>1, <3>3, LengthsNat DEF ProcessFragment
    <3>5. /\ fragmentBuffer' \in [Ends -> Seq(Byte)]
          /\ \A f \in Ends : Len(fragmentBuffer'[f]) <= MAX_MSGLEN
      <4> HIDE DEF buffer, joined
      <4>1. PICK b \in {buffer, joined, <<>>} :
               fragmentBuffer' = [fragmentBuffer EXCEPT ![e] = b] /\ Len(b) <= MAX_MSGLEN
        BY <3>4
      <4>2. b \in Seq(Byte)
        <5>1. <<>> \in Seq(Byte)
          OBVIOUS
        <5> QED BY <3>1, <3>2, <4>1, <5>1
      <4> QED BY <4>1, <4>2 DEF TypeOK, ReceiverType
    <3>6. /\ fragmentSequence' \in [Ends -> Nat]
          /\ fatal' \in [Ends -> BOOLEAN]
      BY <1>2, <2>3 DEF ProcessFragment, TypeOK, ReceiverType
    <3>7. /\ incomingSequence' \in [Ends -> Nat]
          /\ incoming_acknowledged' \in [Ends -> Nat]
          /\ delivered' \in [Ends -> Seq(Delivery)]
      <4>1. CASE Accept(e, pkt, joined)
        BY <1>1, <3>2, <4>1, AcceptType
      <4>2. CASE UNCHANGED <<incomingSequence, incoming_acknowledged, delivered>>
        BY <4>2 DEF TypeOK, ReceiverType
      <4> QED BY <2>3, <4>1, <4>2 DEF ProcessFragment
    <3> QED BY <3>5, <3>6, <3>7 DEF ReceiverType
  <2> QED BY <2>1, <2>2, <2>3 DEF Receive, pkt
<1> QED BY <1>1, <1>3, <1>4 DEF sender, world, TypeOK, SenderType, WorldType

LEMMA NetworkType ==
  ASSUME TypeOK, NEW e \in Ends, Lose(e) \/ Duplicate(e) \/ Delay(e)
  PROVE  TypeOK'
<1>1. net \in [Ends -> Seq(Packet)] /\ net[e] # <<>>
  BY DEF Lose, Duplicate, Delay, TypeOK
<1>2. Head(net[e]) \in Packet /\ Tail(net[e]) \in Seq(Packet) /\ Head(net[e]).seq \in Nat
  <2>1. net[e] \in Seq(Packet)
    BY <1>1
  <2>2. Head(net[e]) \in Packet /\ Tail(net[e]) \in Seq(Packet)
    BY <1>1, <2>1, HeadTailProperties
  <2> QED BY <2>2 DEF Packet
<1>3. /\ <<Head(net[e])>> \o net[e] \in Seq(Packet)
      /\ Append(Tail(net[e]), Head(net[e])) \in Seq(Packet)
  BY <1>1, <1>2
<1>4. net' \in [Ends -> Seq(Packet)]
  BY <1>1, <1>2, <1>3 DEF Lose, Duplicate, Delay
<1>5. WorldType'
  <2>1. WorldType /\ faults < MaxFaults /\ faults' = faults + 1
    BY DEF Lose, Duplicate, Delay, TypeOK
  <2>2. faults' \in 0 .. MaxFaults
    BY <2>1, SizeAssumption DEF WorldType
  <2>3. damaged' \in [Ends -> SUBSET Nat]
    BY <1>2, <2>1, PeerType DEF Lose, Duplicate, Delay, WorldType
  <2>4. reordered' \in BOOLEAN
    BY <2>1 DEF Lose, Duplicate, Delay, WorldType
  <2> QED BY <2>2, <2>3, <2>4 DEF WorldType
<1>6. UNCHANGED <<sender, receiver, pending, sent>>
  BY DEF Lose, Duplicate, Delay
<1> QED BY <1>4, <1>5, <1>6 DEF sender, receiver, SenderType, ReceiverType, TypeOK

LEMMA TypeInit == Init => TypeOK
<1> SUFFICES ASSUME Init PROVE TypeOK
  OBVIOUS
<1>1. SenderType
  BY DEF Init, SenderType
<1>2. ReceiverType
  BY SizeAssumption DEF Init, ReceiverType
<1>3. WorldType
  <2>1. damaged \in [Ends -> SUBSET Nat]
    BY Zenon DEF Init
  <2>2. reordered \in BOOLEAN
    BY DEF Init
  <2>3. faults \in 0 .. MaxFaults
    BY SizeAssumption DEF Init
  <2> QED BY <2>1, <2>2, <2>3 DEF WorldType
<1> QED BY <1>1, <1>2, <1>3 DEF Init, TypeOK

LEMMA TypeStep ==
  ASSUME TypeOK, [Next]_vars
  PROVE  TypeOK'
<1>1. ASSUME NEW e \in Ends, StartTransmit(e) PROVE TypeOK'
  <2>1. SenderType' /\ ReceiverType' /\ WorldType'
    BY <1>1 DEF StartTransmit, sender, receiver, world, TypeOK, SenderType, ReceiverType, WorldType
  <2> QED BY <1>1, <2>1 DEF StartTransmit, TypeOK
<1>2. CASE UNCHANGED vars
  BY <1>2 DEF vars, sender, receiver, world, TypeOK, SenderType, ReceiverType, WorldType
<1> QED BY <1>1, <1>2, TransmitType, PushType, ReceiveType, NetworkType DEF Next, Caller

\* Every variable keeps its type; in particular a fragment never starts past the
\* end of its message and the reassembly buffer never overflows.
THEOREM TypeCorrect == Spec => []TypeOK
BY TypeInit, TypeStep, PTL DEF Spec

-----------------------------------------------------------------------------
(* The inductive invariant *)

\* Message n of end q.
Text(q, n) == sent[q][n].data

\* pkt carries a piece of the message that q gave the number pkt.seq, and its
\* last mark is true.
Genuine(pkt, q) ==
  /\ pkt.seq \in 1 .. Len(sent[q])
  /\ pkt.start + Len(pkt.data) <= Len(Text(q, pkt.seq))
  /\ pkt.data = SubSeq(Text(q, pkt.seq), pkt.start + 1, pkt.start + Len(pkt.data))
  /\ pkt.last => pkt.start + Len(pkt.data) = Len(Text(q, pkt.seq))
  /\ ~pkt.fragmented => pkt.start = 0 /\ pkt.last

\* A sequence number stands for one message: while fragments of a message are
\* unsent its number is the current one, afterwards the current one is free.
NumberInv == \A e \in Ends :
  /\ unsentFragments[e] =>
       /\ Len(sent[e]) >= 1
       /\ outgoingSequence[e] = Len(sent[e])
       /\ unsentBuffer[e] = Text(e, Len(sent[e]))
  /\ ~unsentFragments[e] => outgoingSequence[e] = Len(sent[e]) + 1
RoomInv == \A e \in Ends : pending[e] # Idle => Len(sent[e]) < MaxSent[e]
PacketInv == \A e \in Ends : \A i \in 1 .. Len(net[e]) : Genuine(net[e][i], Peer(e))

\* The reassembly buffer holds the beginning of the message it is numbered after.
BeginningOf(buffer, q, n) ==
  /\ n \in 1 .. Len(sent[q])
  /\ Len(buffer) <= Len(Text(q, n))
  /\ buffer = SubSeq(Text(q, n), 1, Len(buffer))
ReassemblyInv == \A e \in Ends :
  fragmentBuffer[e] # <<>> => BeginningOf(fragmentBuffer[e], Peer(e), fragmentSequence[e])
DeliveredInv == \A e \in Ends :
  /\ \A i \in 1 .. Len(delivered[e]) :
       /\ delivered[e][i].seq \in 1 .. Len(sent[Peer(e)])
       /\ delivered[e][i].data = Text(Peer(e), delivered[e][i].seq)
  /\ incomingSequence[e] = Promise!Newest(e)

Inv == TypeOK /\ NumberInv /\ RoomInv /\ PacketInv /\ ReassemblyInv /\ DeliveredInv

\* Messages already sent keep their numbers and their text.
Grows == \A q \in Ends :
  /\ Len(sent[q]) \in Nat /\ Len(sent'[q]) \in Nat
  /\ Len(sent[q]) <= Len(sent'[q])
  /\ \A n \in 1 .. Len(sent[q]) : sent'[q][n] = sent[q][n]

LEMMA SentGrows ==
  ASSUME TypeOK, [Next]_vars
  PROVE  Grows
<1>1. sent \in [Ends -> Seq(SentMessage)]
  BY DEF TypeOK
<1>2. CASE UNCHANGED sent
  BY <1>1, <1>2 DEF Grows
<1>3. ASSUME NEW e \in Ends, Transmit(e) PROVE Grows
  <2>1. PICK m : sent' = [sent EXCEPT ![e] = Append(sent[e], m)]
    BY <1>3 DEF Transmit
  <2>2. ASSUME NEW q \in Ends
        PROVE  /\ Len(sent[q]) \in Nat /\ Len(sent'[q]) \in Nat
               /\ Len(sent[q]) <= Len(sent'[q])
               /\ \A n \in 1 .. Len(sent[q]) : sent'[q][n] = sent[q][n]
    <3>1. sent[q] \in Seq(SentMessage) /\ sent[e] \in Seq(SentMessage)
      BY <1>1
    <3>2. CASE q = e
      <4>1. sent'[q] = Append(sent[q], m)
        BY <1>1, <2>1, <3>2
      <4> QED BY <3>1, <4>1
    <3>3. CASE q # e
      BY <1>1, <2>1, <3>1, <3>3
    <3> QED BY <3>2, <3>3
  <2> QED BY <2>2 DEF Grows
<1> QED BY <1>2, <1>3 DEF Next, Caller, vars, StartTransmit, PushFragment, FrameFragment,
                          Receive, Lose, Duplicate, Delay

LEMMA GenuineStable ==
  ASSUME Grows, NEW q \in Ends, NEW pkt, Genuine(pkt, q)
  PROVE  Genuine(pkt, q)'
<1>1. pkt.seq \in 1 .. Len(sent[q])
  BY DEF Genuine
<1>2. pkt.seq \in 1 .. Len(sent'[q]) /\ sent'[q][pkt.seq] = sent[q][pkt.seq]
  BY <1>1 DEF Grows
<1>3. Text(q, pkt.seq)' = Text(q, pkt.seq)
  BY <1>2 DEF Text
<1> QED BY <1>2, <1>3, Zenon DEF Genuine

LEMMA PacketsStable ==
  ASSUME Grows, PacketInv, UNCHANGED net
  PROVE  PacketInv'
<1> SUFFICES ASSUME NEW e \in Ends, NEW i \in 1 .. Len(net[e]), NEW p, p = net[e][i]
             PROVE  Genuine(p, Peer(e))'
  BY DEF PacketInv
<1>1. Peer(e) \in Ends
  BY PeerType
<1>2. Genuine(p, Peer(e))
  BY DEF PacketInv
<1> QED BY <1>1, <1>2, GenuineStable

LEMMA BeginningStable ==
  ASSUME Grows, NEW q \in Ends, NEW buffer, NEW n, BeginningOf(buffer, q, n)
  PROVE  BeginningOf(buffer, q, n)'
BY DEF Grows, BeginningOf, Text

\* A step that leaves the reader alone disturbs neither what it has put together
\* nor what it was given.
LEMMA ReaderStable ==
  ASSUME TypeOK, Grows, ReassemblyInv, DeliveredInv, UNCHANGED receiver
  PROVE  ReassemblyInv' /\ DeliveredInv'
<1>1. ReassemblyInv'
  <2> SUFFICES ASSUME NEW e \in Ends, fragmentBuffer[e] # <<>>
               PROVE  BeginningOf(fragmentBuffer[e], Peer(e), fragmentSequence[e])'
    BY DEF ReassemblyInv, receiver
  <2>1. BeginningOf(fragmentBuffer[e], Peer(e), fragmentSequence[e])
    BY DEF ReassemblyInv
  <2> QED BY <2>1, BeginningStable, PeerType DEF receiver, BeginningOf, Text, Grows
<1>2. DeliveredInv'
  <2> SUFFICES ASSUME NEW e \in Ends
               PROVE  /\ \A i \in 1 .. Len(delivered[e]) :
                           /\ delivered[e][i].seq \in 1 .. Len(sent'[Peer(e)])
                           /\ delivered[e][i].data = sent'[Peer(e)][delivered[e][i].seq].data
                      /\ incomingSequence[e] = Promise!Newest(e)
    BY DEF DeliveredInv, receiver, Promise!Newest, Text
  <2>1. incomingSequence[e] = Promise!Newest(e)
    BY DEF DeliveredInv
  <2>2. ASSUME NEW i \in 1 .. Len(delivered[e])
        PROVE  /\ delivered[e][i].seq \in 1 .. Len(sent'[Peer(e)])
               /\ delivered[e][i].data = sent'[Peer(e)][delivered[e][i].seq].data
    <3>1. /\ delivered[e][i].seq \in 1 .. Len(sent[Peer(e)])
          /\ delivered[e][i].data = Text(Peer(e), delivered[e][i].seq)
      BY DEF DeliveredInv
    <3>2. Peer(e) \in Ends
      BY PeerType
    <3>3. /\ delivered[e][i].seq \in 1 .. Len(sent'[Peer(e)])
          /\ sent'[Peer(e)][delivered[e][i].seq] = sent[Peer(e)][delivered[e][i].seq]
      BY <3>1, <3>2, SMTT(30) DEF Grows
    <3> QED BY <3>1, <3>3 DEF Text
  <2> QED BY <2>1, <2>2
<1> QED BY <1>1, <1>2

\* Handing pkt, a genuine packet of message outgoingSequence[e], to the network.
LEMMA SendGenuine ==
  ASSUME TypeOK, Grows, PacketInv, NEW e \in Ends, NEW pkt \in Packet, Genuine(pkt, e)',
         SendPacket(e, pkt) \/ SendFails(e)
  PROVE  PacketInv'
<1>1. net \in [Ends -> Seq(Packet)] /\ Peer(e) \in Ends
  BY PeerType DEF TypeOK
<1>2. SUFFICES ASSUME NEW f \in Ends, NEW i \in 1 .. Len(net'[f]), NEW p, p = net'[f][i]
               PROVE  Genuine(p, Peer(f))'
  BY DEF PacketInv
<1>3. ASSUME i \in 1 .. Len(net[f]), p = net[f][i]
      PROVE  Genuine(p, Peer(f))'
  <2>1. Genuine(p, Peer(f))
    BY <1>3 DEF PacketInv
  <2> QED BY <2>1, GenuineStable, PeerType
<1>4. CASE net'[f] = net[f]
  BY <1>2, <1>3, <1>4
<1>5. CASE net'[f] = Append(net[f], pkt) /\ f = Peer(e)
  <2>1. CASE i \in 1 .. Len(net[f])
    <3>1. p = net[f][i]
      BY <1>1, <1>2, <1>5, <2>1
    <3> QED BY <1>3, <2>1, <3>1
  <2>2. CASE i = Len(net[f]) + 1
    <3>1. p = pkt /\ Peer(f) = e
      BY <1>1, <1>2, <1>5, <2>2, PeerType
    <3> QED BY <3>1
  <2>3. Len(net'[f]) = Len(net[f]) + 1 /\ Len(net[f]) \in Nat
    BY <1>1, <1>5
  <2> QED BY <2>1, <2>2, <2>3
<1> QED BY <1>1, <1>4, <1>5 DEF SendPacket, SendFails

LEMMA FragmentGenuine ==
  ASSUME TypeOK, NEW e \in Ends, NEW msg \in Seq(Byte), NEW start \in Nat, start <= Len(msg),
         outgoingSequence[e] \in 1 .. Len(sent'[e]),
         sent'[e][outgoingSequence[e]].data = msg,
         NEW pkt, pkt = Fragment(e, start, msg)
  PROVE  pkt \in Packet /\ Genuine(pkt, e)'
<1>1. pkt \in Packet /\ Len(pkt.data) = FragmentLength(start, msg)
  BY FragmentType
<1>2. /\ pkt.seq = outgoingSequence[e] /\ pkt.start = start /\ pkt.fragmented
      /\ pkt.last = IsLast(start, msg)
      /\ pkt.data = SubSeq(msg, start + 1, start + FragmentLength(start, msg))
  BY DEF Fragment
<1>3. /\ start + FragmentLength(start, msg) <= Len(msg)
      /\ IsLast(start, msg) => start + FragmentLength(start, msg) = Len(msg)
  BY FragmentWithin
<1> QED BY <1>1, <1>2, <1>3 DEF Genuine, Text

\* What a fragment sent, or refused by the socket, leaves behind.
LEMMA FragmentStep ==
  ASSUME TypeOK, Grows, PacketInv, NEW e \in Ends,
         NEW msg \in Seq(Byte), NEW start \in Nat, start <= Len(msg),
         Len(sent'[e]) >= 1, outgoingSequence[e] = Len(sent'[e]),
         sent'[e][Len(sent'[e])].data = msg,
         \A f \in Ends \ {e} : sent'[f] = sent[f], NumberInv,
         FragmentSent(e, start, msg) \/ FragmentFails(e, start, msg)
  PROVE  PacketInv' /\ NumberInv'
<1>1. PacketInv'
  <2>1. PICK pkt : pkt = Fragment(e, start, msg)
    OBVIOUS
  <2>2. outgoingSequence[e] \in 1 .. Len(sent'[e])
    BY DEF Grows
  <2>3. pkt \in Packet /\ Genuine(pkt, e)'
    BY <2>1, <2>2, FragmentGenuine
  <2>4. SendPacket(e, pkt) \/ SendFails(e)
    BY <2>1 DEF FragmentSent, FragmentFails
  <2> QED BY <2>3, <2>4, SendGenuine
<1>2. NumberInv'
  <2> SUFFICES ASSUME NEW f \in Ends
               PROVE /\ unsentFragments'[f] =>
                          /\ Len(sent'[f]) >= 1
                          /\ outgoingSequence'[f] = Len(sent'[f])
                          /\ unsentBuffer'[f] = sent'[f][Len(sent'[f])].data
                     /\ ~unsentFragments'[f] => outgoingSequence'[f] = Len(sent'[f]) + 1
    BY DEF NumberInv, Text
  <2>1. CASE f = e
    <3>1. CASE FragmentSent(e, start, msg)
      <4> DEFINE over == MessageOver(start, msg)
      <4>1. /\ unsentBuffer'[e] = msg /\ unsentFragments'[e] = ~over
            /\ outgoingSequence'[e] = IF over THEN outgoingSequence[e] + 1 ELSE outgoingSequence[e]
        BY <3>1 DEF FragmentSent, TypeOK, SenderType
      <4> HIDE DEF over
      <4> QED BY <2>1, <4>1
    <3>2. CASE FragmentFails(e, start, msg)
      <4>1. /\ unsentFragments'[e] = FALSE
            /\ outgoingSequence'[e] = outgoingSequence[e] + 1
        BY <3>2 DEF FragmentFails, TypeOK, SenderType
      <4> QED BY <2>1, <4>1
    <3> QED BY <3>1, <3>2
  <2>2. CASE f # e
    BY <2>2 DEF FragmentSent, FragmentFails, TypeOK, SenderType, NumberInv, Text
  <2> QED BY <2>1, <2>2
<1> QED BY <1>1, <1>2

LEMMA TransmitStep ==
  ASSUME Inv, TypeOK', Grows, NEW e \in Ends, Transmit(e)
  PROVE  Inv'
<1> DEFINE msg == NewMessage(e, pending[e])
<1>1. pending[e] \in Lengths /\ msg \in Seq(Byte) /\ Len(msg) \in Nat
  BY NewMessageType DEF Transmit, Inv, TypeOK
<1>2. /\ sent \in [Ends -> Seq(SentMessage)]
      /\ sent' = [sent EXCEPT ![e] = Append(sent[e], [data |-> msg, ack |-> incomingSequence[e]])]
      /\ ~unsentFragments[e] /\ UNCHANGED receiver
  BY DEF Transmit, MustPush, Inv, TypeOK
<1> HIDE DEF msg
<1>3. /\ Len(sent'[e]) = Len(sent[e]) + 1
      /\ sent'[e][Len(sent[e]) + 1].data = msg
      /\ \A f \in Ends \ {e} : sent'[f] = sent[f]
  <2>1. sent[e] \in Seq(SentMessage)
    BY <1>2
  <2>2. sent'[e] = Append(sent[e], [data |-> msg, ack |-> incomingSequence[e]])
    BY <1>2
  <2>3. \A f \in Ends \ {e} : sent'[f] = sent[f]
    BY <1>2
  <2> QED BY <2>1, <2>2, <2>3
<1>4. outgoingSequence[e] = Len(sent[e]) + 1 /\ Len(sent[e]) \in Nat
  BY <1>2 DEF Inv, NumberInv, Grows
<1>5. PacketInv' /\ NumberInv'
  <2>1. CASE TransmitWhole(e, msg)
    <3>1. PICK pkt : pkt = [seq |-> outgoingSequence[e], ack |-> incomingSequence[e],
                            fragmented |-> FALSE, last |-> TRUE, start |-> 0, data |-> msg]
      OBVIOUS
    <3>2. pkt \in Packet
      BY <1>1, <3>1 DEF Packet, Inv, TypeOK, SenderType, ReceiverType
    <3>3. SubSeq(msg, 1, Len(msg)) = msg
      BY <1>1, SubSeqFull
    <3>4. Genuine(pkt, e)'
      BY <1>1, <1>3, <1>4, <3>1, <3>3 DEF Genuine, Text
    <3>5. SendPacket(e, pkt) \/ SendFails(e)
      BY <2>1, <3>1 DEF TransmitWhole
    <3>6. PacketInv'
      BY <3>2, <3>4, <3>5, SendGenuine DEF Inv
    <3>7. NumberInv'
      BY <1>2, <1>3, <1>4, <2>1 DEF TransmitWhole, NumberInv, Text, Inv, TypeOK, SenderType
    <3> QED BY <3>6, <3>7
  <2>2. CASE TransmitFirstFragment(e, msg)
    BY <1>1, <1>3, <1>4, <2>2, FragmentStep DEF TransmitFirstFragment, Inv
  <2> QED BY <2>1, <2>2 DEF Transmit, msg
<1>6. RoomInv'
  BY <1>3 DEF RoomInv, Transmit, Inv, TypeOK
<1>7. ReassemblyInv' /\ DeliveredInv'
  BY <1>2, ReaderStable DEF Inv
<1> QED BY <1>5, <1>6, <1>7 DEF Inv

LEMMA PushStep ==
  ASSUME Inv, TypeOK', Grows, NEW e \in Ends, PushFragment(e) \/ FrameFragment(e)
  PROVE  Inv'
<1>1. /\ unsentBuffer[e] \in Seq(Byte)
      /\ unsentFragmentStart[e] \in Nat
      /\ unsentFragmentStart[e] <= Len(unsentBuffer[e])
  BY DEF Inv, TypeOK, SenderType
<1>2. UNCHANGED <<receiver, sent>> /\ unsentFragments[e]
  BY DEF PushFragment, FrameFragment, MustPush
<1>3. /\ Len(sent[e]) >= 1
      /\ outgoingSequence[e] = Len(sent[e])
      /\ unsentBuffer[e] = sent[e][Len(sent[e])].data
  BY <1>2 DEF Inv, NumberInv, Text
<1>4. \/ FragmentSent(e, unsentFragmentStart[e], unsentBuffer[e])
      \/ FragmentFails(e, unsentFragmentStart[e], unsentBuffer[e])
  BY DEF PushFragment, FrameFragment
<1>5. PacketInv' /\ NumberInv'
  BY <1>1, <1>2, <1>3, <1>4, FragmentStep DEF Inv
<1>6. RoomInv'
  BY <1>2 DEF RoomInv, PushFragment, FrameFragment, Inv, TypeOK
<1>7. ReassemblyInv' /\ DeliveredInv'
  BY <1>2, ReaderStable DEF Inv
<1> QED BY <1>5, <1>6, <1>7 DEF Inv

LEMMA NetworkStep ==
  ASSUME Inv, TypeOK', Grows, NEW e \in Ends, Lose(e) \/ Duplicate(e) \/ Delay(e)
  PROVE  Inv'
<1>1. UNCHANGED <<sender, receiver, pending, sent>>
  BY DEF Lose, Duplicate, Delay
<1>2. net[e] \in Seq(Packet) /\ net[e] # <<>>
  BY DEF Lose, Duplicate, Delay, Inv, TypeOK
<1>3. ASSUME NEW f \in Ends, NEW i \in 1 .. Len(net'[f])
      PROVE  \E j \in 1 .. Len(net[f]) : net'[f][i] = net[f][j]
  <2>1. CASE f # e
    BY <2>1 DEF Lose, Duplicate, Delay, Inv, TypeOK
  <2>2. CASE f = e /\ net'[f] = Tail(net[e])
    <3>1. i + 1 \in 1 .. Len(net[f]) /\ net'[f][i] = net[f][i + 1]
      BY <1>2, <2>2, HeadTailProperties
    <3> QED BY <3>1
  <2>3. CASE f = e /\ net'[f] = <<Head(net[e])>> \o net[e]
    <3>1. 1 \in 1 .. Len(net[f]) /\ Head(net[f]) = net[f][1]
      BY <1>2, <2>3
    <3>2. CASE i = 1
      BY <1>2, <2>3, <3>1, <3>2
    <3>3. CASE i # 1
      <4>1. i - 1 \in 1 .. Len(net[f]) /\ net'[f][i] = net[f][i - 1]
        BY <1>2, <2>3, <3>3
      <4> QED BY <4>1
    <3> QED BY <3>2, <3>3
  <2>4. CASE f = e /\ net'[f] = Append(Tail(net[e]), Head(net[e]))
    <3>1. /\ Len(net[f]) \in Nat \ {0} /\ Head(net[f]) = net[f][1]
          /\ Tail(net[f]) \in Seq(Packet) /\ Len(Tail(net[f])) = Len(net[f]) - 1
          /\ \A j \in 1 .. Len(Tail(net[f])) : Tail(net[f])[j] = net[f][j + 1]
      BY <1>2, <2>4, HeadTailProperties
    <3>2. CASE i = Len(net[f])
      BY <2>4, <3>1, <3>2
    <3>3. CASE i # Len(net[f])
      <4>1. i + 1 \in 1 .. Len(net[f]) /\ net'[f][i] = net[f][i + 1]
        BY <2>4, <3>1, <3>3
      <4> QED BY <4>1
    <3> QED BY <3>2, <3>3
  <2> QED BY <2>1, <2>2, <2>3, <2>4 DEF Lose, Duplicate, Delay, Inv, TypeOK
<1>4. PacketInv'
  <2> SUFFICES ASSUME NEW f \in Ends, NEW i \in 1 .. Len(net'[f]), NEW p, p = net'[f][i]
               PROVE  Genuine(p, Peer(f))'
    BY DEF PacketInv
  <2>1. PICK j \in 1 .. Len(net[f]) : p = net[f][j]
    BY <1>3
  <2>2. Genuine(p, Peer(f))
    BY <2>1 DEF Inv, PacketInv
  <2> QED BY <2>2, GenuineStable, PeerType
<1>5. NumberInv' /\ RoomInv'
  BY <1>1 DEF NumberInv, RoomInv, Text, Inv, sender
<1>6. ReassemblyInv' /\ DeliveredInv'
  BY <1>1, ReaderStable DEF Inv
<1> QED BY <1>4, <1>5, <1>6 DEF Inv

\* The piece of a message after its first j bytes continues the piece before.
LEMMA PiecesJoin ==
  ASSUME NEW s \in Seq(Byte), NEW j \in Nat, NEW k \in Nat, j + k <= Len(s)
  PROVE  SubSeq(s, 1, j) \o SubSeq(s, j + 1, j + k) = SubSeq(s, 1, j + k)
<1>1. Len(s) \in Nat
  OBVIOUS
<1>2. 1 \in 1 .. Len(s) + 1 /\ j \in 1 - 1 .. Len(s) /\ j + k \in j .. Len(s)
  BY <1>1
<1> QED BY <1>2, ConcatAdjacentSubSeq

\* Handing out a message that is whole.
LEMMA AcceptStep ==
  ASSUME Inv, TypeOK', NEW e \in Ends, NEW pkt \in Packet, NEW data \in Seq(Byte),
         UNCHANGED sent, Accept(e, pkt, data),
         pkt.seq \in 1 .. Len(sent[Peer(e)]), data = Text(Peer(e), pkt.seq)
  PROVE  DeliveredInv'
<1>1. /\ delivered \in [Ends -> Seq(Delivery)]
      /\ incomingSequence \in [Ends -> Nat]
  BY DEF Inv, TypeOK, ReceiverType
<1>2. PICK d : d = [seq |-> pkt.seq, data |-> data]
  OBVIOUS
<1>3. /\ delivered' = [delivered EXCEPT ![e] = Append(delivered[e], d)]
      /\ incomingSequence' = [incomingSequence EXCEPT ![e] = pkt.seq]
      /\ d.seq = pkt.seq /\ d.data = data
  BY <1>2 DEF Accept
<1>4. /\ delivered'[e] = Append(delivered[e], d) /\ incomingSequence'[e] = pkt.seq
      /\ \A f \in Ends \ {e} : delivered'[f] = delivered[f] /\ incomingSequence'[f] = incomingSequence[f]
  BY <1>1, <1>3
<1>5. SUFFICES ASSUME NEW f \in Ends
               PROVE  /\ \A i \in 1 .. Len(delivered'[f]) :
                           /\ delivered'[f][i].seq \in 1 .. Len(sent[Peer(f)])
                           /\ delivered'[f][i].data = Text(Peer(f), delivered'[f][i].seq)
                      /\ incomingSequence'[f] = IF delivered'[f] = <<>> THEN 0
                                                ELSE delivered'[f][Len(delivered'[f])].seq
  BY DEF DeliveredInv, Promise!Newest, Text
<1>6. CASE f # e
  BY <1>4, <1>6 DEF Inv, DeliveredInv, Promise!Newest
<1>7. CASE f = e
  <2>1. delivered[e] \in Seq(Delivery)
    BY <1>1
  <2>2. /\ Len(delivered'[e]) = Len(delivered[e]) + 1 /\ Len(delivered[e]) \in Nat
        /\ delivered'[e][Len(delivered[e]) + 1] = d
        /\ \A i \in 1 .. Len(delivered[e]) : delivered'[e][i] = delivered[e][i]
        /\ delivered'[e] # <<>>
    BY <1>4, <2>1
  <2> QED BY <1>3, <1>4, <1>7, <2>2 DEF Inv, DeliveredInv
<1> QED BY <1>6, <1>7

LEMMA ReceiveStep ==
  ASSUME Inv, TypeOK', Grows, NEW e \in Ends, Receive(e)
  PROVE  Inv'
<1> DEFINE q == Peer(e)
<1>1. net[e] \in Seq(Packet) /\ net[e] # <<>> /\ UNCHANGED <<sender, world, pending, sent>>
  BY DEF Receive, Inv, TypeOK
<1>2. PICK pkt \in Packet :
        /\ pkt = Head(net[e]) /\ Genuine(pkt, q)
        /\ ProcessStale(e, pkt) \/ ProcessWhole(e, pkt) \/ ProcessFragment(e, pkt)
  <2>1. Head(net[e]) = net[e][1] /\ 1 \in 1 .. Len(net[e]) /\ Head(net[e]) \in Packet
    BY <1>1
  <2>2. Genuine(Head(net[e]), q)
    BY <2>1 DEF Inv, PacketInv
  <2> QED BY <2>1, <2>2 DEF Receive
<1>3. PICK text : text = Text(q, pkt.seq)
  OBVIOUS
<1>4. /\ text \in Seq(Byte) /\ pkt.data \in Seq(Byte) /\ pkt.start \in Nat /\ pkt.seq \in 1 .. Len(sent[q])
      /\ Len(pkt.data) \in Nat /\ Len(text) \in Nat
  <2>1. sent[q] \in Seq(SentMessage)
    BY PeerType DEF Inv, TypeOK
  <2>2. pkt.seq \in 1 .. Len(sent[q])
    BY <1>2 DEF Genuine
  <2>3. sent[q][pkt.seq] \in SentMessage
    BY <2>1, <2>2
  <2> QED BY <1>3, <2>2, <2>3 DEF Text, SentMessage, Packet
<1>5. /\ pkt.start + Len(pkt.data) <= Len(text)
      /\ pkt.data = SubSeq(text, pkt.start + 1, pkt.start + Len(pkt.data))
      /\ pkt.last => pkt.start + Len(pkt.data) = Len(text)
      /\ ~pkt.fragmented => pkt.start = 0 /\ pkt.last
  BY <1>2, <1>3 DEF Genuine
<1>6. NumberInv' /\ RoomInv'
  BY <1>1 DEF NumberInv, RoomInv, Text, Inv, sender
<1>7. PacketInv'
  <2>1. net' = [net EXCEPT ![e] = Tail(net[e])]
    BY DEF Receive
  <2> SUFFICES ASSUME NEW f \in Ends, NEW i \in 1 .. Len(net'[f]), NEW p, p = net'[f][i]
               PROVE  Genuine(p, Peer(f))'
    BY DEF PacketInv
  <2>2. \E j \in 1 .. Len(net[f]) : p = net[f][j]
    <3>1. CASE f # e
      BY <2>1, <3>1 DEF Inv, TypeOK
    <3>2. CASE f = e
      <4>1. net'[f] = Tail(net[f])
        BY <2>1, <3>2 DEF Inv, TypeOK
      <4>2. i + 1 \in 1 .. Len(net[f]) /\ net'[f][i] = net[f][i + 1]
        BY <1>1, <3>2, <4>1, HeadTailProperties
      <4> QED BY <4>2
    <3> QED BY <3>1, <3>2
  <2>3. Genuine(p, Peer(f))
    BY <2>2 DEF Inv, PacketInv
  <2> QED BY <2>3, GenuineStable, PeerType
<1>8. ReassemblyInv' /\ DeliveredInv'
  <2>1. CASE ProcessStale(e, pkt)
    BY <2>1, ReaderStable DEF ProcessStale, Inv
  <2>2. CASE ProcessWhole(e, pkt)
    <3>1. pkt.data = text
      <4>1. pkt.start = 0 /\ Len(pkt.data) = Len(text)
        BY <1>4, <1>5, <2>2 DEF ProcessWhole
      <4>2. pkt.data = SubSeq(text, 1, Len(text))
        BY <1>4, <1>5, <4>1
      <4> QED BY <1>4, <4>2, SubSeqFull
    <3>2. DeliveredInv'
      BY <1>1, <1>3, <1>4, <2>2, <3>1, AcceptStep DEF ProcessWhole
    <3>3. ReassemblyInv'
      BY <1>1, <2>2 DEF ProcessWhole, ReassemblyInv, BeginningOf, Text, Inv
    <3> QED BY <3>2, <3>3
  <2>3. CASE ProcessFragment(e, pkt)
    <3>1. PICK buffer : buffer = Reassembled(e, pkt)
      OBVIOUS
    <3>2. PICK joined : joined = buffer \o pkt.data
      OBVIOUS
    <3>3. buffer \in Seq(Byte) /\ Len(buffer) \in Nat /\ Len(buffer) <= Len(text)
          /\ buffer = SubSeq(text, 1, Len(buffer))
      <4>1. CASE buffer = <<>>
        BY <1>4, <4>1, SubSeqEmpty
      <4>2. CASE buffer # <<>>
        <5>1. buffer = fragmentBuffer[e] /\ pkt.seq = fragmentSequence[e]
          BY <3>1, <4>2 DEF Reassembled
        <5>2. BeginningOf(fragmentBuffer[e], q, fragmentSequence[e])
          BY <4>2, <5>1 DEF Inv, ReassemblyInv
        <5>3. /\ Len(buffer) <= Len(text)
              /\ buffer = SubSeq(text, 1, Len(buffer))
          BY <1>3, <5>1, <5>2 DEF BeginningOf
        <5>4. buffer \in Seq(Byte)
          BY <5>1 DEF Inv, TypeOK, ReceiverType
        <5> QED BY <5>3, <5>4
      <4> QED BY <4>1, <4>2
    <3>4. Fits(buffer, pkt) =>
            /\ joined \in Seq(Byte)
            /\ Len(joined) = pkt.start + Len(pkt.data)
            /\ joined = SubSeq(text, 1, Len(joined))
      <4> SUFFICES ASSUME Fits(buffer, pkt)
                   PROVE  /\ joined \in Seq(Byte)
                          /\ Len(joined) = pkt.start + Len(pkt.data)
                          /\ joined = SubSeq(text, 1, Len(joined))
        OBVIOUS
      <4>1. pkt.start = Len(buffer)
        BY DEF Fits
      <4>2. joined \in Seq(Byte) /\ Len(joined) = pkt.start + Len(pkt.data)
        BY <1>4, <3>2, <3>3, <4>1
      <4>3. SubSeq(text, 1, pkt.start) \o SubSeq(text, pkt.start + 1, pkt.start + Len(pkt.data))
              = SubSeq(text, 1, pkt.start + Len(pkt.data))
        BY <1>4, <1>5, PiecesJoin
      <4> QED BY <1>5, <3>2, <3>3, <4>1, <4>2, <4>3
    <3>5. /\ fragmentSequence \in [Ends -> Nat] /\ fragmentBuffer \in [Ends -> Seq(Byte)]
          /\ fragmentSequence' = [fragmentSequence EXCEPT ![e] = pkt.seq]
      BY <2>3 DEF ProcessFragment, Inv, TypeOK, ReceiverType
    <3>6. ASSUME NEW b, fragmentBuffer' = [fragmentBuffer EXCEPT ![e] = b],
                 b # <<>> => /\ Len(b) <= Len(text)
                             /\ b = SubSeq(text, 1, Len(b))
          PROVE  ReassemblyInv'
      <4> SUFFICES ASSUME NEW f \in Ends, fragmentBuffer'[f] # <<>>
                   PROVE  /\ fragmentSequence'[f] \in 1 .. Len(sent[Peer(f)])
                          /\ Len(fragmentBuffer'[f]) <= Len(Text(Peer(f), fragmentSequence'[f]))
                          /\ fragmentBuffer'[f] =
                               SubSeq(Text(Peer(f), fragmentSequence'[f]), 1, Len(fragmentBuffer'[f]))
        BY <1>1 DEF ReassemblyInv, BeginningOf, Text
      <4>1. CASE f = e
        BY <1>3, <1>4, <3>5, <3>6, <4>1
      <4>2. CASE f # e
        BY <3>5, <3>6, <4>2 DEF Inv, ReassemblyInv, BeginningOf
      <4> QED BY <4>1, <4>2
    <3>7. CASE Fits(buffer, pkt) /\ pkt.last /\ Accept(e, pkt, joined)
               /\ fragmentBuffer' = [fragmentBuffer EXCEPT ![e] = <<>>]
      <4>1. joined = text
        BY <1>4, <1>5, <3>4, <3>7, SubSeqFull
      <4>2. DeliveredInv'
        BY <1>1, <1>3, <1>4, <3>7, <4>1, AcceptStep
      <4> QED BY <3>6, <3>7, <4>2
    <3>8. CASE /\ UNCHANGED <<incomingSequence, delivered>>
               /\ \/ fragmentBuffer' = [fragmentBuffer EXCEPT ![e] = buffer]
                  \/ Fits(buffer, pkt) /\ fragmentBuffer' = [fragmentBuffer EXCEPT ![e] = joined]
      <4>1. DeliveredInv'
        BY <1>1, <3>8 DEF Inv, DeliveredInv, Promise!Newest, Text
      <4>2. ReassemblyInv'
        BY <1>4, <1>5, <3>3, <3>4, <3>6, <3>8
      <4> QED BY <4>1, <4>2
    <3> QED BY <2>3, <3>1, <3>2, <3>7, <3>8 DEF ProcessFragment
  <2> QED BY <1>2, <2>1, <2>2, <2>3
<1> QED BY <1>6, <1>7, <1>8 DEF Inv

LEMMA InvInit == Init => Inv
<1> SUFFICES ASSUME Init PROVE Inv
  OBVIOUS
<1>1. /\ \A e \in Ends : sent[e] = <<>> /\ net[e] = <<>> /\ delivered[e] = <<>>
      /\ \A e \in Ends : fragmentBuffer[e] = <<>> /\ ~unsentFragments[e]
      /\ \A e \in Ends : outgoingSequence[e] = 1 /\ incomingSequence[e] = 0 /\ pending[e] = Idle
  BY DEF Init
<1>2. TypeOK
  BY TypeInit
<1>3. NumberInv /\ RoomInv
  BY <1>1 DEF NumberInv, RoomInv
<1>4. PacketInv /\ ReassemblyInv
  BY <1>1 DEF PacketInv, ReassemblyInv
<1>5. DeliveredInv
  BY <1>1 DEF DeliveredInv, Promise!Newest
<1> QED BY <1>2, <1>3, <1>4, <1>5 DEF Inv

LEMMA StartStep ==
  ASSUME Inv, TypeOK', Grows, NEW e \in Ends, StartTransmit(e)
  PROVE  Inv'
<1>1. UNCHANGED <<sender, receiver, net, sent>>
  BY DEF StartTransmit
<1>2. NumberInv' /\ PacketInv'
  BY <1>1, PacketsStable DEF Inv, NumberInv, Text, sender
<1>3. RoomInv'
  BY DEF Inv, RoomInv, StartTransmit, TypeOK
<1>4. ReassemblyInv' /\ DeliveredInv'
  BY <1>1, ReaderStable DEF Inv
<1> QED BY <1>2, <1>3, <1>4 DEF Inv

LEMMA InvStep ==
  ASSUME Inv, [Next]_vars
  PROVE  Inv'
<1>1. TypeOK' /\ Grows
  BY TypeStep, SentGrows DEF Inv
<1>2. CASE UNCHANGED vars
  <2>1. UNCHANGED <<sender, receiver, pending, net, sent>>
    BY <1>2 DEF vars
  <2>2. NumberInv'
    BY <2>1 DEF Inv, NumberInv, Text, sender
  <2>3. RoomInv'
    BY <2>1 DEF Inv, RoomInv
  <2>4. PacketInv'
    BY <1>1, <2>1, PacketsStable DEF Inv
  <2>5. ReassemblyInv' /\ DeliveredInv'
    BY <1>1, <2>1, ReaderStable DEF Inv
  <2> QED BY <1>1, <2>2, <2>3, <2>4, <2>5 DEF Inv
<1>3. CASE Next
  BY <1>1, <1>3, StartStep, TransmitStep, PushStep, ReceiveStep, NetworkStep DEF Next, Caller
<1> QED BY <1>2, <1>3

\* Whatever is in a packet or in a buffer is a stretch of the message that it is
\* numbered for, at every step of Netchan_Transmit, Netchan_Process and the network.
THEOREM Invariance == Spec => []Inv
BY InvInit, InvStep, PTL DEF Spec

\* Netchan_Process never hands out anything but a whole message of the other
\* end, under the number that end gave it: however the network loses, repeats
\* and reorders fragments, and whichever sends fail.
THEOREM Intact == Spec => []IntactDelivery
<1>1. Inv => IntactDelivery
  <2> SUFFICES ASSUME Inv, NEW e \in Ends, NEW d \in Range(delivered[e])
               PROVE  /\ d.seq \in DOMAIN sent[Peer(e)]
                      /\ d.data = sent[Peer(e)][d.seq].data
    BY DEF IntactDelivery
  <2>1. delivered[e] \in Seq(Delivery) /\ sent[Peer(e)] \in Seq(SentMessage)
    BY PeerType DEF Inv, TypeOK, ReceiverType
  <2>2. PICK i \in 1 .. Len(delivered[e]) : d = delivered[e][i]
    BY <2>1 DEF Range
  <2> QED BY <2>1, <2>2 DEF Inv, DeliveredInv, Text
<1> QED BY <1>1, Invariance, PTL

-----------------------------------------------------------------------------
(* NetChan implements OrderedDelivery *)

\* The messages sent, as OrderedDelivery sees them.
Texts == [e \in Ends |-> [n \in DOMAIN sent[e] |-> sent[e][n].data]]

LEMMA SameEnds == Promise!Ends = Ends /\ \A e : Promise!Peer(e) = Peer(e)
BY DEF Promise!Ends, Ends, Promise!Peer, Peer

LEMMA PromiseInit == Init => Promise!Init
<1> SUFFICES ASSUME Init PROVE Promise!Init
  OBVIOUS
<1>1. Texts = [e \in Ends |-> <<>>]
  <2>1. \A e \in Ends : sent[e] = <<>>
    BY DEF Init
  <2>2. \A e \in Ends : [n \in DOMAIN sent[e] |-> sent[e][n].data] = <<>>
    BY <2>1
  <2> QED BY <2>2 DEF Texts
<1>2. delivered = [e \in Ends |-> <<>>]
  BY DEF Init
<1> QED BY <1>1, <1>2, SameEnds DEF Promise!Init, Texts

\* Netchan_Transmit is a Send.
LEMMA TransmitSends ==
  ASSUME Inv, NEW e \in Ends, Transmit(e)
  PROVE  Promise!Send(e)
<1> DEFINE msg == NewMessage(e, pending[e])
           m   == [data |-> msg, ack |-> incomingSequence[e]]
<1>1. pending[e] \in Lengths /\ pending[e] # Idle
  BY DEF Transmit, Inv, TypeOK
<1>2. msg \in Message
  <2>1. /\ Len(sent[e]) \in Nat /\ Len(sent[e]) < MaxSent[e]
    BY <1>1 DEF Inv, TypeOK, RoomInv
  <2>2. MaxSent["client"] \in Nat /\ MaxSent["server"] \in Nat
    BY SizeAssumption DEF Ends
  <2>3. Len(sent[e]) + 1 \in 1 .. MaxSent["client"] + MaxSent["server"]
    BY <2>1, <2>2 DEF Ends
  <2> QED BY <1>1, <2>3 DEF Message, NewMessage
<1>3. /\ sent \in [Ends -> Seq(SentMessage)]
      /\ sent' = [sent EXCEPT ![e] = Append(sent[e], m)]
      /\ UNCHANGED delivered
  BY DEF Transmit, receiver, Inv, TypeOK
<1>4. Texts' = [Texts EXCEPT ![e] = Append(Texts[e], msg)]
  <2>1. m.data = msg
    OBVIOUS
  <2> HIDE DEF m, msg
  <2>2. sent[e] \in Seq(SentMessage) /\ sent'[e] = Append(sent[e], m) /\ DOMAIN sent[e] = 1 .. Len(sent[e])
    BY <1>3
  <2>3. DOMAIN sent'[e] = 1 .. Len(sent[e]) + 1 /\ Len(sent[e]) \in Nat
    BY <2>2
  <2>4. Texts'[e] = [n \in 1 .. Len(sent[e]) + 1 |-> sent'[e][n].data]
    BY <2>3 DEF Texts
  <2>5. Texts[e] = [n \in 1 .. Len(sent[e]) |-> sent[e][n].data]
    BY <2>2 DEF Texts
  <2>6. Append(Texts[e], msg) = [n \in 1 .. Len(sent[e]) + 1 |->
                                   IF n = Len(sent[e]) + 1 THEN msg ELSE sent[e][n].data]
    BY <2>3, <2>5
  <2>7. \A n \in 1 .. Len(sent[e]) + 1 :
           sent'[e][n].data = IF n = Len(sent[e]) + 1 THEN msg ELSE sent[e][n].data
    BY <2>1, <2>2, <2>3
  <2>8. Texts'[e] = Append(Texts[e], msg)
    BY <2>4, <2>6, <2>7
  <2>9. \A f \in Ends \ {e} : Texts'[f] = Texts[f]
    BY <1>3 DEF Texts
  <2>10. Texts' = [f \in Ends |-> Texts'[f]] /\ Texts = [f \in Ends |-> Texts[f]]
    BY DEF Texts
  <2> QED BY <2>8, <2>9, <2>10
<1> QED BY <1>2, <1>3, <1>4 DEF Promise!Send, Texts

\* Netchan_Process is a Deliver when it accepts a packet.
LEMMA AcceptDelivers ==
  ASSUME Inv, Inv', UNCHANGED sent, NEW e \in Ends, NEW pkt \in Packet, NEW data,
         ~Stale(e, pkt), Accept(e, pkt, data)
  PROVE  Promise!Deliver(e)
<1>1. /\ delivered \in [Ends -> Seq(Delivery)] /\ delivered' \in [Ends -> Seq(Delivery)]
      /\ incomingSequence[e] \in Nat /\ pkt.seq \in Nat
  BY DEF Inv, TypeOK, ReceiverType, Packet
<1>2. PICK d : d = [seq |-> pkt.seq, data |-> data]
  OBVIOUS
<1>3. delivered' = [delivered EXCEPT ![e] = Append(delivered[e], d)] /\ d.seq = pkt.seq
  BY <1>2 DEF Accept
<1>4. pkt.seq > Promise!Newest(e)
  BY <1>1 DEF Stale, Inv, DeliveredInv
<1>5. /\ pkt.seq \in 1 .. Len(sent[Peer(e)])
      /\ d = [seq |-> pkt.seq, data |-> Texts[Peer(e)][pkt.seq]]
  <2>1. /\ delivered'[e] = Append(delivered[e], d)
        /\ Len(delivered'[e]) \in 1 .. Len(delivered'[e])
        /\ delivered'[e][Len(delivered'[e])] = d
    BY <1>1, <1>3
  <2>2. /\ d.seq \in 1 .. Len(sent[Peer(e)])
        /\ d.data = sent[Peer(e)][d.seq].data
    BY <2>1 DEF Inv, DeliveredInv, Text
  <2>3. sent[Peer(e)] \in Seq(SentMessage) /\ Peer(e) \in Ends
    BY PeerType DEF Inv, TypeOK
  <2> QED BY <1>2, <2>2, <2>3 DEF Texts
<1>6. Len(Texts[Peer(e)]) = Len(sent[Peer(e)])
  BY PeerType DEF Texts, Inv, TypeOK
<1>7. Texts' = Texts
  BY DEF Texts
<1> QED BY <1>3, <1>4, <1>5, <1>6, <1>7, SameEnds DEF Promise!Deliver, Texts

LEMMA PromiseStep ==
  ASSUME Inv, Inv', [Next]_vars
  PROVE  [Promise!Next]_(Promise!vars)
<1>1. ASSUME UNCHANGED <<sent, delivered>> PROVE UNCHANGED Promise!vars
  BY <1>1 DEF Promise!vars
<1>2. ASSUME NEW e \in Ends, Receive(e) PROVE Promise!Deliver(e) \/ UNCHANGED Promise!vars
  <2>1. UNCHANGED sent
    BY <1>2 DEF Receive
  <2>2. PICK pkt \in Packet : ProcessStale(e, pkt) \/ ProcessWhole(e, pkt) \/ ProcessFragment(e, pkt)
    BY <1>2 DEF Receive, Inv, TypeOK
  <2>3. \/ UNCHANGED delivered
        \/ ~Stale(e, pkt) /\ \E data : Accept(e, pkt, data)
    BY <2>2 DEF ProcessStale, ProcessWhole, ProcessFragment, receiver
  <2> QED BY <1>1, <2>1, <2>3, AcceptDelivers
<1>3. ASSUME NEW e \in Ends,
             \/ StartTransmit(e) \/ PushFragment(e) \/ FrameFragment(e)
             \/ Lose(e) \/ Duplicate(e) \/ Delay(e)
      PROVE  UNCHANGED <<sent, delivered>>
  BY <1>3 DEF StartTransmit, PushFragment, FrameFragment, Lose, Duplicate, Delay, receiver
<1>4. CASE UNCHANGED vars
  BY <1>1, <1>4 DEF vars, receiver
<1>5. CASE Next
  BY <1>1, <1>2, <1>3, <1>5, TransmitSends, SameEnds DEF Next, Caller, Promise!Next
<1> QED BY <1>4, <1>5

\* The channel, fragments and faulty network included, delivers whole messages in
\* the order they were sent, each at most once.
THEOREM Refinement == Spec => Implements
<1>1. Inv /\ Inv' /\ [Next]_vars => [Promise!Next]_(Promise!vars)
  BY PromiseStep
<1> QED BY <1>1, PromiseInit, Invariance, PTL DEF Implements, Promise!Spec, Spec

-----------------------------------------------------------------------------
(* Losing a packet costs its message only: packets of one message on their way *)

\* Where the message goes on behind pkt.
After(pkt) == pkt.start + Len(pkt.data)

\* pkt is what the reader waits for next, or a copy of what it took last.
Continues(have, pkt) == pkt.start = have \/ (~pkt.last /\ After(pkt) = have)

\* Behind a packet comes a copy of it or the next fragment.
Follows(pkt, next) == next = pkt \/ (~pkt.last /\ next.start = After(pkt))

IsFirst(s, n, i) == s[i].seq = n /\ \A j \in 1 .. i - 1 : s[j].seq # n
IsFinal(s, n, i) == s[i].seq = n /\ \A j \in i + 1 .. Len(s) : s[j].seq # n

\* The first have bytes of message n, then its packets in s, then, while it is open, what
\* is not sent yet, from start on, make the message without a gap.
NoGap(s, n, have, open, start) ==
  /\ \A i \in 1 .. Len(s) : IsFirst(s, n, i) => Continues(have, s[i])
  /\ \A i \in 1 .. Len(s) - 1 : s[i].seq = n /\ s[i + 1].seq = n => Follows(s[i], s[i + 1])
  /\ \A i \in 1 .. Len(s) : IsFinal(s, n, i) =>
       IF open THEN ~s[i].last /\ After(s[i]) = start ELSE s[i].last
  /\ (\A i \in 1 .. Len(s) : s[i].seq # n) => open /\ have = start

InOrder(s) == \A i, j \in 1 .. Len(s) : i <= j => s[i].seq <= s[j].seq

LEMMA AppendAt ==
  ASSUME NEW s \in Seq(Packet), NEW pkt \in Packet
  PROVE  /\ Append(s, pkt) \in Seq(Packet) /\ Len(s) \in Nat /\ Len(Append(s, pkt)) = Len(s) + 1
         /\ Append(s, pkt)[Len(s) + 1] = pkt
         /\ \A i \in 1 .. Len(s) : Append(s, pkt)[i] = s[i]
         /\ \A i \in 1 .. Len(s) + 1 : i \in 1 .. Len(s) \/ i = Len(s) + 1
OBVIOUS

\* A packet of another message makes no gap, nor does it matter where a message goes on
\* that is sent.
LEMMA NoGapOther ==
  ASSUME NEW s \in Seq(Packet), NEW pkt \in Packet, NEW n \in Nat, pkt.seq # n,
         NEW have, NEW open \in BOOLEAN, NEW start, NoGap(s, n, have, open, start)
  PROVE  NoGap(Append(s, pkt), n, have, open, start)
<1> DEFINE t == Append(s, pkt)
<1>1. /\ Len(s) \in Nat /\ Len(t) = Len(s) + 1 /\ t[Len(s) + 1] = pkt
      /\ \A i \in 1 .. Len(s) : t[i] = s[i]
      /\ \A i \in 1 .. Len(t) : i \in 1 .. Len(s) \/ i = Len(s) + 1
  BY AppendAt
<1> HIDE DEF t
<1>2. ASSUME NEW i \in 1 .. Len(t), t[i].seq = n PROVE i \in 1 .. Len(s) /\ s[i].seq = n /\ s[i] = t[i]
  BY <1>1, <1>2
<1>3. ASSUME NEW i \in 1 .. Len(t), IsFirst(t, n, i) PROVE Continues(have, t[i])
  <2>1. i \in 1 .. Len(s) /\ s[i].seq = n /\ s[i] = t[i]
    BY <1>2, <1>3 DEF IsFirst
  <2>2. \A j \in 1 .. i - 1 : t[j] = s[j]
    BY <1>1, <2>1
  <2> QED BY <1>3, <2>1, <2>2 DEF IsFirst, NoGap
<1>4. ASSUME NEW i \in 1 .. Len(t) - 1, t[i].seq = n, t[i + 1].seq = n PROVE Follows(t[i], t[i + 1])
  <2>1. i \in 1 .. Len(t) /\ i + 1 \in 1 .. Len(t)
    BY <1>1
  <2>2. i + 1 \in 1 .. Len(s) /\ s[i] = t[i] /\ s[i + 1] = t[i + 1]
    BY <1>2, <1>4, <2>1
  <2>3. i \in 1 .. Len(s) - 1
    BY <1>1, <2>2
  <2> QED BY <1>4, <2>2, <2>3 DEF NoGap
<1>5. ASSUME NEW i \in 1 .. Len(t), IsFinal(t, n, i)
      PROVE  IF open THEN ~t[i].last /\ After(t[i]) = start ELSE t[i].last
  <2>1. i \in 1 .. Len(s) /\ s[i].seq = n /\ s[i] = t[i]
    BY <1>2, <1>5 DEF IsFinal
  <2>2. \A j \in i + 1 .. Len(s) : j \in i + 1 .. Len(t) /\ t[j] = s[j]
    BY <1>1, <2>1
  <2> QED BY <1>5, <2>1, <2>2 DEF IsFinal, NoGap
<1>6. ASSUME \A i \in 1 .. Len(t) : t[i].seq # n PROVE open /\ have = start
  <2>1. \A i \in 1 .. Len(s) : s[i].seq # n
    <3>1. \A i \in 1 .. Len(s) : i \in 1 .. Len(t)
      BY <1>1
    <3> QED BY <1>1, <1>6, <3>1
  <2> QED BY <2>1 DEF NoGap
<1> QED BY <1>3, <1>4, <1>5, <1>6 DEF NoGap, t

\* The next fragment of the newest message makes no gap.
LEMMA NoGapNext ==
  ASSUME NEW s \in Seq(Packet), NEW pkt \in Packet, NEW n \in Nat, pkt.seq = n, InOrder(s),
         \A i \in 1 .. Len(s) : s[i].seq <= n,
         NEW have, NEW start, NoGap(s, n, have, TRUE, start), pkt.start = start,
         NEW open \in BOOLEAN, NEW end,
         IF open THEN ~pkt.last /\ After(pkt) = end ELSE pkt.last
  PROVE  NoGap(Append(s, pkt), n, have, open, end)
<1> DEFINE t == Append(s, pkt)
<1>1. /\ Len(s) \in Nat /\ Len(t) = Len(s) + 1 /\ t[Len(s) + 1] = pkt
      /\ \A i \in 1 .. Len(s) : t[i] = s[i]
      /\ \A i \in 1 .. Len(t) : i \in 1 .. Len(s) \/ i = Len(s) + 1
  BY AppendAt
<1> HIDE DEF t
<1>2. ASSUME NEW i \in 1 .. Len(s), s[i].seq = n
      PROVE  ~s[Len(s)].last /\ After(s[Len(s)]) = start /\ s[Len(s)].seq = n
  <2>1. Len(s) \in 1 .. Len(s) /\ i <= Len(s)
    BY <1>1
  <2>2. s[Len(s)].seq <= n /\ s[i].seq <= s[Len(s)].seq /\ s[Len(s)].seq \in Nat
    <3>1. s[Len(s)] \in Packet
      BY <2>1, ElementOfSeq
    <3> QED BY <2>1, <3>1 DEF InOrder, Packet
  <2>3. s[Len(s)].seq = n
    BY <1>2, <2>2
  <2>4. IsFinal(s, n, Len(s))
    BY <1>1, <2>3 DEF IsFinal
  <2> QED BY <2>1, <2>3, <2>4 DEF NoGap
<1>3. ASSUME NEW i \in 1 .. Len(t), IsFirst(t, n, i) PROVE Continues(have, t[i])
  <2>1. CASE i \in 1 .. Len(s)
    <3>1. \A j \in 1 .. i - 1 : t[j] = s[j]
      BY <1>1, <2>1
    <3> QED BY <1>1, <1>3, <2>1, <3>1 DEF IsFirst, NoGap
  <2>2. CASE i = Len(s) + 1
    <3>1. \A j \in 1 .. Len(s) : s[j].seq # n
      BY <1>1, <1>3, <2>2 DEF IsFirst
    <3>2. have = start
      BY <3>1 DEF NoGap
    <3> QED BY <1>1, <2>2, <3>2 DEF Continues
  <2> QED BY <1>1, <2>1, <2>2
<1>4. ASSUME NEW i \in 1 .. Len(t) - 1, t[i].seq = n, t[i + 1].seq = n PROVE Follows(t[i], t[i + 1])
  <2>1. CASE i = Len(s)
    <3>1. i \in 1 .. Len(s) /\ t[i] = s[i] /\ t[i + 1] = pkt
      BY <1>1, <2>1
    <3>2. ~s[i].last /\ After(s[i]) = start
      BY <1>2, <1>4, <2>1, <3>1
    <3> QED BY <3>1, <3>2 DEF Follows
  <2>2. CASE i # Len(s)
    <3>1. i \in 1 .. Len(s) - 1 /\ i \in 1 .. Len(s) /\ i + 1 \in 1 .. Len(s)
      BY <1>1, <2>2
    <3> QED BY <1>1, <1>4, <3>1 DEF NoGap
  <2> QED BY <2>1, <2>2
<1>5. ASSUME NEW i \in 1 .. Len(t), IsFinal(t, n, i)
      PROVE  IF open THEN ~t[i].last /\ After(t[i]) = end ELSE t[i].last
  <2>1. i = Len(s) + 1
    <3>1. Len(s) + 1 \notin i + 1 .. Len(t)
      BY <1>1, <1>5 DEF IsFinal
    <3> QED BY <1>1, <3>1
  <2> QED BY <1>1, <2>1
<1>6. ASSUME \A i \in 1 .. Len(t) : t[i].seq # n PROVE FALSE
  <2>1. Len(s) + 1 \in 1 .. Len(t)
    BY <1>1
  <2> QED BY <1>1, <1>6, <2>1
<1> QED BY <1>3, <1>4, <1>5, <1>6 DEF NoGap, t

\* Nor does the packet a new message begins with.
LEMMA NoGapNew ==
  ASSUME NEW s \in Seq(Packet), NEW pkt \in Packet, NEW n \in Nat, pkt.seq = n,
         \A i \in 1 .. Len(s) : s[i].seq < n, pkt.start = 0,
         NEW open \in BOOLEAN, NEW end,
         IF open THEN ~pkt.last /\ After(pkt) = end ELSE pkt.last
  PROVE  NoGap(Append(s, pkt), n, 0, open, end)
<1> DEFINE t == Append(s, pkt)
<1>1. /\ Len(s) \in Nat /\ Len(t) = Len(s) + 1 /\ t[Len(s) + 1] = pkt
      /\ \A i \in 1 .. Len(s) : t[i] = s[i]
      /\ \A i \in 1 .. Len(t) : i \in 1 .. Len(s) \/ i = Len(s) + 1
  BY AppendAt
<1> HIDE DEF t
<1>2. \A i \in 1 .. Len(s) : t[i].seq # n
  <2>1. \A i \in 1 .. Len(s) : s[i].seq \in Nat
    <3>1. \A i \in 1 .. Len(s) : s[i] \in Packet
      BY ElementOfSeq
    <3> QED BY <3>1 DEF Packet
  <2> QED BY <1>1, <2>1
<1>3. ASSUME NEW i \in 1 .. Len(t), t[i].seq = n PROVE i = Len(s) + 1 /\ t[i] = pkt
  BY <1>1, <1>2, <1>3
<1>4. \A i \in 1 .. Len(t) : IsFirst(t, n, i) => Continues(0, t[i])
  BY <1>3 DEF IsFirst, Continues
<1>5. \A i \in 1 .. Len(t) - 1 : ~(t[i].seq = n)
  BY <1>1, <1>2
<1>6. \A i \in 1 .. Len(t) : IsFinal(t, n, i) =>
        IF open THEN ~t[i].last /\ After(t[i]) = end ELSE t[i].last
  BY <1>3 DEF IsFinal
<1>7. Len(s) + 1 \in 1 .. Len(t) /\ t[Len(s) + 1].seq = n
  BY <1>1
<1> QED BY <1>4, <1>5, <1>6, <1>7 DEF NoGap, t

LEMMA TailAt ==
  ASSUME NEW s \in Seq(Packet), s # <<>>
  PROVE  /\ Tail(s) \in Seq(Packet) /\ Len(s) \in Nat \ {0} /\ Len(Tail(s)) = Len(s) - 1
         /\ Head(s) = s[1] /\ Head(s) \in Packet
         /\ \A i \in 1 .. Len(s) - 1 : Tail(s)[i] = s[i + 1]
OBVIOUS

\* Taking a packet of another message off makes no gap.
LEMMA NoGapTail ==
  ASSUME NEW s \in Seq(Packet), s # <<>>, NEW n \in Nat, s[1].seq # n,
         NEW have, NEW open \in BOOLEAN, NEW start, NoGap(s, n, have, open, start)
  PROVE  NoGap(Tail(s), n, have, open, start)
<1> DEFINE t == Tail(s)
<1>1. /\ Len(s) \in Nat \ {0} /\ Len(t) = Len(s) - 1
      /\ \A i \in 1 .. Len(t) : i + 1 \in 1 .. Len(s) /\ t[i] = s[i + 1]
  BY TailAt
<1> HIDE DEF t
<1>2. ASSUME NEW i \in 1 .. Len(t), IsFirst(t, n, i) PROVE Continues(have, t[i])
  <2>1. i + 1 \in 1 .. Len(s) /\ t[i] = s[i + 1]
    BY <1>1
  <2>2. ASSUME NEW j \in 1 .. i + 1 - 1 PROVE s[j].seq # n
    <3>1. CASE j = 1
      BY <3>1
    <3>2. CASE j # 1
      <4>1. j - 1 \in 1 .. i - 1 /\ j - 1 \in 1 .. Len(t) /\ (j - 1) + 1 = j
        BY <1>1, <3>2
      <4>2. t[j - 1] = s[j]
        BY <1>1, <4>1
      <4> QED BY <1>2, <4>1, <4>2 DEF IsFirst
    <3> QED BY <3>1, <3>2
  <2>3. IsFirst(s, n, i + 1)
    BY <1>2, <2>1, <2>2 DEF IsFirst
  <2> QED BY <2>1, <2>3 DEF NoGap
<1>3. ASSUME NEW i \in 1 .. Len(t) - 1, t[i].seq = n, t[i + 1].seq = n PROVE Follows(t[i], t[i + 1])
  <2>1. i \in 1 .. Len(t) /\ i + 1 \in 1 .. Len(t) /\ i + 1 \in 1 .. Len(s) - 1
    BY <1>1
  <2>2. t[i] = s[i + 1] /\ t[i + 1] = s[i + 1 + 1]
    BY <1>1, <2>1
  <2> QED BY <1>3, <2>1, <2>2 DEF NoGap
<1>4. ASSUME NEW i \in 1 .. Len(t), IsFinal(t, n, i)
      PROVE  IF open THEN ~t[i].last /\ After(t[i]) = start ELSE t[i].last
  <2>1. i + 1 \in 1 .. Len(s) /\ t[i] = s[i + 1]
    BY <1>1
  <2>2. ASSUME NEW j \in i + 1 + 1 .. Len(s) PROVE s[j].seq # n
    <3>1. j - 1 \in i + 1 .. Len(t) /\ j - 1 \in 1 .. Len(t) /\ (j - 1) + 1 = j
      BY <1>1
    <3> QED BY <1>1, <1>4, <3>1 DEF IsFinal
  <2>3. IsFinal(s, n, i + 1)
    BY <1>4, <2>1, <2>2 DEF IsFinal
  <2> QED BY <2>1, <2>3 DEF NoGap
<1>5. ASSUME \A i \in 1 .. Len(t) : t[i].seq # n PROVE open /\ have = start
  <2>1. ASSUME NEW i \in 1 .. Len(s) PROVE s[i].seq # n
    <3>1. CASE i = 1
      BY <3>1
    <3>2. CASE i # 1
      <4>1. i - 1 \in 1 .. Len(t) /\ (i - 1) + 1 = i
        BY <1>1, <3>2
      <4> QED BY <1>1, <1>5, <4>1
    <3> QED BY <3>1, <3>2
  <2> QED BY <2>1 DEF NoGap
<1> QED BY <1>2, <1>3, <1>4, <1>5 DEF NoGap, t

\* Nor does taking a fragment of the message itself, once the reader has it.
LEMMA NoGapTaken ==
  ASSUME NEW s \in Seq(Packet), s # <<>>, InOrder(s), NEW n \in Nat, s[1].seq = n, ~s[1].last,
         NEW have, NEW open \in BOOLEAN, NEW start, NoGap(s, n, have, open, start)
  PROVE  NoGap(Tail(s), n, After(s[1]), open, start)
<1> DEFINE t == Tail(s)
<1>1. /\ Len(s) \in Nat \ {0} /\ Len(t) = Len(s) - 1
      /\ \A i \in 1 .. Len(t) : i + 1 \in 1 .. Len(s) /\ t[i] = s[i + 1]
      /\ \A i \in 1 .. Len(s) : s[i].seq \in Nat
  <2>1. \A i \in 1 .. Len(s) : s[i].seq \in Nat
    <3>1. \A i \in 1 .. Len(s) : s[i] \in Packet
      BY ElementOfSeq
    <3> QED BY <3>1 DEF Packet
  <2> QED BY <2>1, TailAt
<1> HIDE DEF t
<1>2. ASSUME NEW i \in 1 .. Len(t), IsFirst(t, n, i) PROVE Continues(After(s[1]), t[i])
  <2>1. i = 1
    <3>1. SUFFICES ASSUME i # 1 PROVE FALSE
      OBVIOUS
    <3>2. 1 \in 1 .. i - 1 /\ 1 \in 1 .. Len(t) /\ 1 \in 1 .. Len(s) /\ 2 \in 1 .. Len(s)
          /\ i + 1 \in 1 .. Len(s) /\ 2 <= i + 1 /\ 1 <= 2
      BY <1>1, <3>1
    <3>3. s[1].seq <= s[2].seq /\ s[2].seq <= s[i + 1].seq /\ s[i + 1].seq = n
      BY <1>1, <1>2, <3>2 DEF InOrder, IsFirst
    <3>4. s[2].seq = n
      BY <1>1, <3>2, <3>3
    <3>5. t[1] = s[2]
      BY <1>1, <3>2
    <3> QED BY <1>2, <3>2, <3>4, <3>5 DEF IsFirst
  <2>2. 1 \in 1 .. Len(s) - 1 /\ t[1] = s[1 + 1] /\ s[1 + 1].seq = n
    BY <1>1, <1>2, <2>1 DEF IsFirst
  <2>3. Follows(s[1], s[1 + 1])
    BY <2>2 DEF NoGap
  <2>4. CASE s[1 + 1] = s[1]
    BY <2>1, <2>2, <2>4 DEF Continues
  <2>5. CASE s[1 + 1].start = After(s[1])
    BY <2>1, <2>2, <2>5 DEF Continues
  <2> QED BY <2>3, <2>4, <2>5 DEF Follows
<1>3. ASSUME NEW i \in 1 .. Len(t) - 1, t[i].seq = n, t[i + 1].seq = n PROVE Follows(t[i], t[i + 1])
  <2>1. i \in 1 .. Len(t) /\ i + 1 \in 1 .. Len(t) /\ i + 1 \in 1 .. Len(s) - 1
    BY <1>1
  <2>2. t[i] = s[i + 1] /\ t[i + 1] = s[i + 1 + 1]
    BY <1>1, <2>1
  <2> QED BY <1>3, <2>1, <2>2 DEF NoGap
<1>4. ASSUME NEW i \in 1 .. Len(t), IsFinal(t, n, i)
      PROVE  IF open THEN ~t[i].last /\ After(t[i]) = start ELSE t[i].last
  <2>1. i + 1 \in 1 .. Len(s) /\ t[i] = s[i + 1]
    BY <1>1
  <2>2. ASSUME NEW j \in i + 1 + 1 .. Len(s) PROVE s[j].seq # n
    <3>1. j - 1 \in i + 1 .. Len(t) /\ j - 1 \in 1 .. Len(t) /\ (j - 1) + 1 = j
      BY <1>1
    <3> QED BY <1>1, <1>4, <3>1 DEF IsFinal
  <2>3. IsFinal(s, n, i + 1)
    BY <1>4, <2>1, <2>2 DEF IsFinal
  <2> QED BY <2>1, <2>3 DEF NoGap
<1>5. ASSUME \A i \in 1 .. Len(t) : t[i].seq # n PROVE open /\ After(s[1]) = start
  <2>1. ASSUME NEW j \in 1 + 1 .. Len(s) PROVE s[j].seq # n
    <3>1. j - 1 \in 1 .. Len(t) /\ (j - 1) + 1 = j
      BY <1>1
    <3> QED BY <1>1, <1>5, <3>1
  <2>2. 1 \in 1 .. Len(s) /\ IsFinal(s, n, 1)
    BY <1>1, <2>1 DEF IsFinal
  <2> QED BY <2>2 DEF NoGap
<1> QED BY <1>2, <1>3, <1>4, <1>5 DEF NoGap, t

\* Nor does a copy of the first packet.
LEMMA NoGapCopy ==
  ASSUME NEW s \in Seq(Packet), s # <<>>, NEW n \in Nat,
         NEW have, NEW open \in BOOLEAN, NEW start, NoGap(s, n, have, open, start)
  PROVE  NoGap(<<s[1]>> \o s, n, have, open, start)
<1> DEFINE t == <<s[1]>> \o s
<1>1. /\ Len(s) \in Nat \ {0} /\ Len(t) = Len(s) + 1 /\ t[1] = s[1]
      /\ \A i \in 2 .. Len(t) : i - 1 \in 1 .. Len(s) /\ t[i] = s[i - 1]
  OBVIOUS
<1> HIDE DEF t
<1>2. ASSUME NEW i \in 1 .. Len(t), IsFirst(t, n, i) PROVE Continues(have, t[i])
  <2>1. CASE i = 1
    <3>1. 1 \in 1 .. Len(s) /\ IsFirst(s, n, 1)
      BY <1>1, <1>2, <2>1 DEF IsFirst
    <3> QED BY <1>1, <2>1, <3>1 DEF NoGap
  <2>2. CASE i # 1
    <3>1. i \in 2 .. Len(t) /\ i - 1 \in 1 .. Len(s) /\ t[i] = s[i - 1]
      BY <1>1, <2>2
    <3>2. ASSUME NEW j \in 1 .. i - 1 - 1 PROVE s[j].seq # n
      <4>1. j + 1 \in 2 .. Len(t) /\ (j + 1) - 1 = j /\ j + 1 \in 1 .. i - 1
        BY <1>1, <3>1
      <4> QED BY <1>1, <1>2, <4>1 DEF IsFirst
    <3>3. IsFirst(s, n, i - 1)
      BY <1>2, <3>1, <3>2 DEF IsFirst
    <3> QED BY <3>1, <3>3 DEF NoGap
  <2> QED BY <2>1, <2>2
<1>3. ASSUME NEW i \in 1 .. Len(t) - 1, t[i].seq = n, t[i + 1].seq = n PROVE Follows(t[i], t[i + 1])
  <2>1. CASE i = 1
    <3>1. i + 1 \in 2 .. Len(t) /\ (i + 1) - 1 = 1
      BY <1>1, <2>1
    <3>2. t[i + 1] = t[i]
      BY <1>1, <2>1, <3>1
    <3> QED BY <3>2 DEF Follows
  <2>2. CASE i # 1
    <3>1. i - 1 \in 1 .. Len(s) - 1 /\ i \in 2 .. Len(t) /\ i + 1 \in 2 .. Len(t)
          /\ (i + 1) - 1 = (i - 1) + 1
      BY <1>1, <2>2
    <3>2. t[i] = s[i - 1] /\ t[i + 1] = s[(i - 1) + 1]
      BY <1>1, <3>1
    <3> QED BY <1>3, <3>1, <3>2 DEF NoGap
  <2> QED BY <2>1, <2>2
<1>4. ASSUME NEW i \in 1 .. Len(t), IsFinal(t, n, i)
      PROVE  IF open THEN ~t[i].last /\ After(t[i]) = start ELSE t[i].last
  <2>1. i # 1
    <3>1. SUFFICES ASSUME i = 1 PROVE FALSE
      OBVIOUS
    <3>2. 2 \in i + 1 .. Len(t) /\ 2 \in 2 .. Len(t) /\ 2 - 1 = 1
      BY <1>1, <3>1
    <3>3. t[2] = s[1]
      BY <1>1, <3>2
    <3> QED BY <1>1, <1>4, <3>1, <3>2, <3>3 DEF IsFinal
  <2>2. i \in 2 .. Len(t) /\ i - 1 \in 1 .. Len(s) /\ t[i] = s[i - 1]
    BY <1>1, <2>1
  <2>3. ASSUME NEW j \in i - 1 + 1 .. Len(s) PROVE s[j].seq # n
    <3>1. j + 1 \in 2 .. Len(t) /\ (j + 1) - 1 = j /\ j + 1 \in i + 1 .. Len(t)
      BY <1>1, <2>2
    <3> QED BY <1>1, <1>4, <3>1 DEF IsFinal
  <2>4. IsFinal(s, n, i - 1)
    BY <1>4, <2>2, <2>3 DEF IsFinal
  <2> QED BY <2>2, <2>4 DEF NoGap
<1>5. ASSUME \A i \in 1 .. Len(t) : t[i].seq # n PROVE open /\ have = start
  <2>1. ASSUME NEW j \in 1 .. Len(s) PROVE s[j].seq # n
    <3>1. j + 1 \in 2 .. Len(t) /\ (j + 1) - 1 = j /\ j + 1 \in 1 .. Len(t)
      BY <1>1
    <3> QED BY <1>1, <1>5, <3>1
  <2> QED BY <2>1 DEF NoGap
<1> QED BY <1>2, <1>3, <1>4, <1>5 DEF NoGap, t

\* A message is over with the fragment that is marked as its last.
LEMMA OverIsLast ==
  ASSUME NEW msg \in Seq(Byte), NEW start \in Nat, start <= Len(msg)
  PROVE  MessageOver(start, msg) <=> IsLast(start, msg)
<1> DEFINE left == Len(msg) - start
            k    == CeilDiv(left, FRAGMENT_SIZE)
            len  == FragmentLength(start, msg)
<1>1. left \in Nat /\ Len(msg) \in Nat /\ FRAGMENT_SIZE \in Nat \ {0} /\ start + left = Len(msg)
  BY SizeAssumption
<1>2. len = (IF IsLast(start, msg) THEN left ELSE CeilDiv(left, k))
  BY DEF FragmentLength
<1>3. IsLast(start, msg) <=> left < FRAGMENT_SIZE
  BY <1>1 DEF IsLast
<1>4. MessageOver(start, msg) <=> start + len = Len(msg) /\ len # FRAGMENT_SIZE
  BY DEF MessageOver
<1> HIDE DEF left, len
<1>5. CASE left < FRAGMENT_SIZE
  BY <1>1, <1>2, <1>3, <1>4, <1>5
<1>6. CASE left = FRAGMENT_SIZE
  <2>1. k = 1
    <3> DEFINE F == FRAGMENT_SIZE
                q == (F + F - 1) \div F
    <3>1. F \in Nat \ {0} /\ q \in Nat /\ F * q <= F + F - 1 /\ F + F - 1 < F * q + F
      BY <1>1
    <3>2. k = q
      BY <1>6 DEF CeilDiv
    <3> HIDE DEF q, F
    <3>3. q >= 1
      BY <3>1
    <3>4. q < 2
      <4>1. SUFFICES ASSUME q >= 2 PROVE FALSE
        BY <3>1
      <4>2. F * q >= F * 2
        BY <3>1, <4>1
      <4> QED BY <3>1, <4>2
    <3> QED BY <3>1, <3>2, <3>3, <3>4
  <2>2. CeilDiv(left, 1) = left
    BY <1>1 DEF CeilDiv
  <2> QED BY <1>1, <1>2, <1>3, <1>4, <1>6, <2>1, <2>2
<1>7. CASE left > FRAGMENT_SIZE
  <2>1. k \in Nat /\ k >= 2
    <3> DEFINE F == FRAGMENT_SIZE
                q == (left + F - 1) \div F
    <3>1. F \in Nat \ {0} /\ q \in Nat /\ left + F - 1 < F * q + F
      BY <1>1
    <3>2. k = q
      BY DEF CeilDiv
    <3>3. left > F
      BY <1>7
    <3> HIDE DEF q, F
    <3>4. q >= 2
      <4>1. SUFFICES ASSUME q <= 1 PROVE FALSE
        BY <3>1
      <4>2. F * q <= F * 1
        BY <3>1, <4>1
      <4> QED BY <1>1, <3>1, <3>3, <4>2
    <3> QED BY <3>1, <3>2, <3>4
  <2> HIDE DEF k
  <2>2. CeilDiv(left, k) \in Nat /\ CeilDiv(left, k) < left
    <3> DEFINE r == (left + k - 1) \div k
    <3>1. r \in Nat /\ k * r <= left + k - 1
      BY <1>1, <2>1
    <3>2. CeilDiv(left, k) = r
      BY DEF CeilDiv
    <3> HIDE DEF r
    <3>3. r < left
      <4>1. SUFFICES ASSUME r >= left PROVE FALSE
        BY <1>1, <3>1
      <4>2. k * r >= k * left
        BY <1>1, <2>1, <3>1, <4>1
      <4>3. k * left >= left + k
        <5>1. left >= 2
          BY <1>1, <1>7
        <5>2. (k - 1) * (left - 1) >= 1
          BY <1>1, <2>1, <5>1
        <5>3. (k - 1) * (left - 1) = k * left - k - left + 1
          BY <1>1, <2>1
        <5> QED BY <1>1, <2>1, <5>2, <5>3
      <4> QED BY <1>1, <2>1, <3>1, <4>2, <4>3
    <3> QED BY <3>1, <3>2, <3>3
  <2> QED BY <1>1, <1>2, <1>3, <1>4, <1>7, <2>2
<1> QED BY <1>1, <1>5, <1>6, <1>7


-----------------------------------------------------------------------------
(* Losing a packet costs its message only: the invariant *)

\* Message n of end q is not sent to its end yet.
Open(q, n) == unsentFragments[q] /\ outgoingSequence[q] = n

\* How much of message n reader e has put together.
Have(e, n) == IF fragmentSequence[e] = n THEN Len(fragmentBuffer[e]) ELSE 0

Got(e, n) == \E k \in 1 .. Len(delivered[e]) : delivered[e][k].seq = n

\* Message n reaches e unless one more packet of it is lost.
Coming(e, n) ==
  /\ incomingSequence[e] < n
  /\ NoGap(net[e], n, Have(e, n), Open(Peer(e), n), unsentFragmentStart[Peer(e)])

\* Packets come in the order of their messages, behind the one being put together.
Orderly(e) ==
  /\ InOrder(net[e])
  /\ \A i \in 1 .. Len(net[e]) : fragmentSequence[e] <= net[e][i].seq

EndInv(e) ==
  /\ \A n \in 1 .. Len(sent[Peer(e)]) : Len(Text(Peer(e), n)) <= MAX_MSGLEN
  /\ fragmentSequence[e] <= Len(sent[Peer(e)])
  /\ ~reordered => Orderly(e)
  /\ ~reordered /\ ~fatal[e] =>
       \A n \in 1 .. Len(sent[Peer(e)]) : n \in damaged[Peer(e)] \/ Got(e, n) \/ Coming(e, n)

LossInv == \A e \in Ends : EndInv(e)

\* A step of the other direction leaves the invariant of this one alone.
LEMMA EndKept ==
  ASSUME NEW e \in Ends, NEW q \in Ends, q = Peer(e), EndInv(e),
         net'[e] = net[e], sent'[q] = sent[q], damaged'[q] = damaged[q], reordered' = reordered,
         incomingSequence'[e] = incomingSequence[e], delivered'[e] = delivered[e],
         fragmentSequence'[e] = fragmentSequence[e], fragmentBuffer'[e] = fragmentBuffer[e],
         fatal'[e] = fatal[e], unsentFragments'[q] = unsentFragments[q],
         outgoingSequence'[q] = outgoingSequence[q],
         unsentFragmentStart'[q] = unsentFragmentStart[q]
  PROVE  EndInv(e)'
<1>1. \A n : /\ Text(q, n)' = Text(q, n) /\ Got(e, n)' = Got(e, n)
             /\ Have(e, n)' = Have(e, n) /\ Open(q, n)' = Open(q, n)
  BY DEF Text, Got, Have, Open
<1>2. \A n : Coming(e, n)' = Coming(e, n)
  BY <1>1 DEF Coming
<1>3. Orderly(e)' = Orderly(e)
  BY DEF Orderly
<1> QED BY <1>1, <1>2, <1>3 DEF EndInv

\* Every packet on its way belongs to a message that was sent.
LEMMA PacketSeq ==
  ASSUME Inv, NEW e \in Ends
  PROVE  /\ net[e] \in Seq(Packet)
         /\ \A i \in 1 .. Len(net[e]) : net[e][i].seq \in 1 .. Len(sent[Peer(e)])
         /\ Len(sent[Peer(e)]) \in Nat
         /\ fragmentSequence[e] \in Nat /\ incomingSequence[e] \in Nat
         /\ fragmentBuffer[e] \in Seq(Byte) /\ Len(fragmentBuffer[e]) \in Nat
<1>1. net \in [Ends -> Seq(Packet)] /\ sent \in [Ends -> Seq(SentMessage)] /\ Peer(e) \in Ends
  BY PeerType DEF Inv, TypeOK
<1>2. /\ fragmentSequence[e] \in Nat /\ incomingSequence[e] \in Nat
      /\ fragmentBuffer[e] \in Seq(Byte)
  BY DEF Inv, TypeOK, ReceiverType
<1>3. net[e] \in Seq(Packet) /\ Len(sent[Peer(e)]) \in Nat /\ Len(fragmentBuffer[e]) \in Nat
  BY <1>1, <1>2
<1> QED BY <1>2, <1>3 DEF Inv, PacketInv, Genuine

\* Of a message that is not sent to its end, only the newest can be.
LEMMA OpenIsNewest ==
  ASSUME Inv, NEW q \in Ends, NEW n
  PROVE  Open(q, n) \in BOOLEAN /\ (Open(q, n) => n = Len(sent[q]))
BY DEF Open, Inv, NumberInv, TypeOK, SenderType

\* A message that is sent has no gap behind its packets, wherever the sender is.
LEMMA NoGapSent ==
  ASSUME NEW s, NEW n, NEW have, NEW a, NEW b, NoGap(s, n, have, FALSE, a)
  PROVE  NoGap(s, n, have, FALSE, b)
BY DEF NoGap

\* Packets of a message appended behind those of older ones, or of its own, are in order.
LEMMA InOrderAppend ==
  ASSUME NEW s \in Seq(Packet), NEW pkt \in Packet, InOrder(s),
         \A i \in 1 .. Len(s) : s[i].seq <= pkt.seq
  PROVE  InOrder(Append(s, pkt))
<1> DEFINE t == Append(s, pkt)
<1>1. /\ Len(s) \in Nat /\ Len(t) = Len(s) + 1 /\ t[Len(s) + 1] = pkt
      /\ \A i \in 1 .. Len(s) : t[i] = s[i]
      /\ \A i \in 1 .. Len(t) : i \in 1 .. Len(s) \/ i = Len(s) + 1
  BY AppendAt
<1>2. pkt.seq \in Nat
  BY DEF Packet
<1> HIDE DEF t
<1>3. SUFFICES ASSUME NEW i \in 1 .. Len(t), NEW j \in 1 .. Len(t), i <= j
               PROVE  t[i].seq <= t[j].seq
  BY DEF InOrder, t
<1>4. CASE j \in 1 .. Len(s)
  <2>1. i \in 1 .. Len(s)
    BY <1>1, <1>3, <1>4
  <2> QED BY <1>1, <1>3, <1>4, <2>1 DEF InOrder
<1>5. CASE j = Len(s) + 1
  BY <1>1, <1>2, <1>5
<1> QED BY <1>1, <1>4, <1>5

LEMMA InOrderTail ==
  ASSUME NEW s \in Seq(Packet), s # <<>>, InOrder(s)
  PROVE  /\ InOrder(Tail(s))
         /\ \A i \in 1 .. Len(s) : s[1].seq <= s[i].seq
         /\ \A i \in 1 .. Len(Tail(s)) : s[1].seq <= Tail(s)[i].seq
<1>1. /\ Len(s) \in Nat \ {0} /\ Len(Tail(s)) = Len(s) - 1
      /\ \A i \in 1 .. Len(Tail(s)) : i + 1 \in 1 .. Len(s) /\ Tail(s)[i] = s[i + 1]
  BY TailAt
<1>2. \A i \in 1 .. Len(s) : s[1].seq <= s[i].seq
  <2>1. 1 \in 1 .. Len(s)
    BY <1>1
  <2> QED BY <2>1 DEF InOrder
<1>3. ASSUME NEW i \in 1 .. Len(Tail(s)), NEW j \in 1 .. Len(Tail(s)), i <= j
      PROVE  Tail(s)[i].seq <= Tail(s)[j].seq
  <2>1. i + 1 \in 1 .. Len(s) /\ j + 1 \in 1 .. Len(s) /\ i + 1 <= j + 1
    BY <1>1, <1>3
  <2>2. s[i + 1].seq <= s[j + 1].seq
    BY <2>1 DEF InOrder
  <2> QED BY <1>1, <2>2
<1>4. InOrder(Tail(s))
  BY <1>3 DEF InOrder
<1> QED BY <1>1, <1>2, <1>4


\* The last message handed out was sent.
LEMMA IncomingSent ==
  ASSUME Inv, NEW e \in Ends
  PROVE  incomingSequence[e] <= Len(sent[Peer(e)])
<1>1. incomingSequence[e] = Promise!Newest(e) /\ delivered[e] \in Seq(Delivery)
      /\ Len(sent[Peer(e)]) \in Nat
  BY PacketSeq DEF Inv, DeliveredInv, TypeOK, ReceiverType
<1>2. CASE delivered[e] = <<>>
  BY <1>1, <1>2 DEF Promise!Newest
<1>3. CASE delivered[e] # <<>>
  <2>1. Len(delivered[e]) \in 1 .. Len(delivered[e])
    BY <1>1, <1>3
  <2>2. delivered[e][Len(delivered[e])].seq \in 1 .. Len(sent[Peer(e)])
    BY <2>1 DEF Inv, DeliveredInv
  <2> QED BY <1>1, <1>3, <2>2 DEF Promise!Newest
<1> QED BY <1>2, <1>3


\* What the sending end of a packet, or of one the socket refused, has done when it is
\* through: N is the message's number, start where the packet begins.
Sends(q, e, pkt) ==
  /\ \A n \in 1 .. Len(sent'[q]) : n # outgoingSequence[q] => n \in 1 .. Len(sent[q])
  /\ \A n \in 1 .. Len(sent'[q]) : Len(Text(q, n)') <= MAX_MSGLEN
  /\ Len(sent'[q]) = outgoingSequence[q]
  /\ unsentFragments'[q] => outgoingSequence'[q] = outgoingSequence[q]
  /\ reordered' = reordered /\ incomingSequence'[e] = incomingSequence[e]
  /\ delivered'[e] = delivered[e] /\ fragmentSequence'[e] = fragmentSequence[e]
  /\ fragmentBuffer'[e] = fragmentBuffer[e] /\ fatal'[e] = fatal[e]
  /\ \/ net'[e] = net[e] /\ damaged'[q] = damaged[q] \cup {outgoingSequence[q]}
     \/ /\ net'[e] = Append(net[e], pkt) /\ damaged'[q] = damaged[q]
        /\ pkt.seq = outgoingSequence[q]
        /\ pkt.start = IF unsentFragments[q] THEN unsentFragmentStart[q] ELSE 0
        /\ IF Open(q, pkt.seq)' THEN ~pkt.last /\ After(pkt) = unsentFragmentStart'[q] ELSE pkt.last

LEMMA SendsStep ==
  ASSUME Inv, NEW e \in Ends, NEW q \in Ends, q = Peer(e), EndInv(e),
         NEW pkt \in Packet, Sends(q, e, pkt)
  PROVE  EndInv(e)'
<1> DEFINE s == net[e]
<1>0. PICK N : N = outgoingSequence[q]
  OBVIOUS
<1>1. /\ s \in Seq(Packet) /\ Len(s) \in Nat
      /\ \A i \in 1 .. Len(s) : s[i].seq \in 1 .. Len(sent[q])
      /\ Len(sent[q]) \in Nat /\ fragmentSequence[e] \in Nat /\ incomingSequence[e] \in Nat
  BY PacketSeq
<1>2. /\ unsentFragments[q] => N = Len(sent[q])
      /\ ~unsentFragments[q] => N = Len(sent[q]) + 1
      /\ unsentFragments[q] \in BOOLEAN /\ N \in Nat
  BY <1>0, <1>1 DEF Inv, NumberInv, TypeOK, SenderType
<1>3. fragmentSequence[e] <= Len(sent[q])
  BY DEF EndInv
<1>4. \A i \in 1 .. Len(s) : s[i].seq <= N
  BY <1>1, <1>2
<1>5. Len(sent'[q]) = N /\ fragmentSequence[e] <= N
  BY <1>0, <1>1, <1>2, <1>3 DEF Sends
<1>6. ASSUME ~reordered PROVE Orderly(e)'
  <2>1. InOrder(s) /\ \A i \in 1 .. Len(s) : fragmentSequence[e] <= s[i].seq
    BY <1>6 DEF EndInv, Orderly
  <2>2. fragmentSequence'[e] = fragmentSequence[e]
    BY <1>0 DEF Sends
  <2>3. CASE net'[e] = s
    BY <2>1, <2>2, <2>3 DEF Orderly
  <2>4. CASE net'[e] = Append(s, pkt) /\ pkt.seq = N
    <3>1. InOrder(Append(s, pkt))
      BY <1>1, <1>4, <2>1, <2>4, InOrderAppend
    <3>2. /\ Len(Append(s, pkt)) = Len(s) + 1 /\ Append(s, pkt)[Len(s) + 1] = pkt
          /\ \A i \in 1 .. Len(s) : Append(s, pkt)[i] = s[i]
          /\ \A i \in 1 .. Len(Append(s, pkt)) : i \in 1 .. Len(s) \/ i = Len(s) + 1
      BY <1>1, AppendAt
    <3>3. \A i \in 1 .. Len(Append(s, pkt)) : fragmentSequence[e] <= Append(s, pkt)[i].seq
      BY <1>5, <2>1, <2>4, <3>2
    <3> QED BY <2>2, <2>4, <3>1, <3>3 DEF Orderly
  <2> QED BY <1>0, <2>3, <2>4 DEF Sends
<1>7. ASSUME ~reordered, ~fatal[e], NEW n \in 1 .. Len(sent'[q]), n \notin damaged'[q]
      PROVE  Got(e, n)' \/ Coming(e, n)'
  <2>1. /\ incomingSequence'[e] = incomingSequence[e] /\ delivered'[e] = delivered[e]
        /\ Have(e, n)' = Have(e, n) /\ Got(e, n)' = Got(e, n)
    BY DEF Sends, Have, Got
  <2>2. n \in Nat /\ n <= N /\ n >= 1
    BY <1>2, <1>5, <1>7
  <2>3. CASE n # N
    <3>1. n \in 1 .. Len(sent[q]) /\ n \notin damaged[q]
      BY <1>0, <1>7, <2>3 DEF Sends
    <3>2. CASE Got(e, n)
      BY <2>1, <3>2
    <3>3. CASE Coming(e, n)
      <4>1. Open(q, n) = FALSE
        BY <1>0, <1>2, <2>3 DEF Open
      <4>2. Open(q, n)' = FALSE
        BY <1>0, <2>3 DEF Open, Sends
      <4>3. NoGap(s, n, Have(e, n), FALSE, unsentFragmentStart'[q]) /\ incomingSequence[e] < n
        BY <3>3, <4>1, NoGapSent DEF Coming
      <4>4. NoGap(net'[e], n, Have(e, n), FALSE, unsentFragmentStart'[q])
        <5>1. CASE net'[e] = s
          BY <4>3, <5>1
        <5>2. CASE net'[e] = Append(s, pkt) /\ pkt.seq = N
          BY <1>1, <2>2, <2>3, <4>3, <5>2, NoGapOther
        <5> QED BY <1>0, <5>1, <5>2 DEF Sends
      <4> QED BY <2>1, <4>2, <4>3, <4>4 DEF Coming
    <3> QED BY <1>7, <3>1, <3>2, <3>3 DEF EndInv
  <2>4. CASE n = N
    <3>1. /\ net'[e] = Append(s, pkt) /\ damaged'[q] = damaged[q] /\ pkt.seq = N
          /\ pkt.start = IF unsentFragments[q] THEN unsentFragmentStart[q] ELSE 0
          /\ IF Open(q, N)' THEN ~pkt.last /\ After(pkt) = unsentFragmentStart'[q] ELSE pkt.last
      BY <1>0, <1>7, <2>4 DEF Sends
    <3>2. PICK open \in BOOLEAN : open = Open(q, N)'
      BY DEF Open, Inv, TypeOK, SenderType
    <3>3. InOrder(s)
      BY <1>7 DEF EndInv, Orderly
    <3>4. CASE unsentFragments[q]
      <4>1. N \in 1 .. Len(sent[q]) /\ N \notin damaged[q]
        BY <1>2, <1>7, <2>2, <2>4, <3>1, <3>4
      <4>2. CASE Got(e, N)
        BY <2>1, <2>4, <4>2
      <4>3. CASE Coming(e, N)
        <5>1. Open(q, N) = TRUE
          BY <1>0, <3>4 DEF Open
        <5>2. NoGap(s, N, Have(e, N), TRUE, unsentFragmentStart[q]) /\ incomingSequence[e] < N
          BY <4>3, <5>1 DEF Coming
        <5>3. NoGap(Append(s, pkt), N, Have(e, N), open, unsentFragmentStart'[q])
          BY <1>1, <1>2, <1>4, <3>1, <3>2, <3>3, <3>4, <5>2, NoGapNext
        <5> QED BY <2>1, <2>4, <3>1, <3>2, <5>2, <5>3 DEF Coming
      <4> QED BY <1>7, <4>1, <4>2, <4>3 DEF EndInv
    <3>5. CASE ~unsentFragments[q]
      <4>1. \A i \in 1 .. Len(s) : s[i].seq < N
        BY <1>1, <1>2, <3>5
      <4>2. NoGap(Append(s, pkt), N, 0, open, unsentFragmentStart'[q])
        BY <1>1, <1>2, <3>1, <3>2, <3>5, <4>1, NoGapNew
      <4>3. Have(e, N) = 0
        BY <1>1, <1>2, <1>3, <3>5 DEF Have
      <4>4. incomingSequence[e] < N
        <5>1. incomingSequence[e] <= Len(sent[q])
          BY IncomingSent
        <5> QED BY <1>1, <1>2, <3>5, <5>1
      <4> QED BY <2>1, <2>4, <3>1, <3>2, <4>2, <4>3, <4>4 DEF Coming
    <3> QED BY <3>4, <3>5
  <2> QED BY <2>3, <2>4
<1> QED BY <1>0, <1>5, <1>6, <1>7 DEF Sends, EndInv


\* What the actions of an end leave alone in its peer.
ReaderKept(e) ==
  /\ reordered' = reordered /\ incomingSequence'[e] = incomingSequence[e]
  /\ delivered'[e] = delivered[e] /\ fragmentSequence'[e] = fragmentSequence[e]
  /\ fragmentBuffer'[e] = fragmentBuffer[e] /\ fatal'[e] = fatal[e]

LEMMA FragmentSends ==
  ASSUME Inv, NEW e \in Ends, NEW q \in Ends, q = Peer(e),
         NEW msg \in Seq(Byte), NEW start \in Nat, start <= Len(msg),
         start = (IF unsentFragments[q] THEN unsentFragmentStart[q] ELSE 0),
         FragmentSent(q, start, msg) \/ FragmentFails(q, start, msg), ReaderKept(e),
         \A n \in 1 .. Len(sent'[q]) : n # outgoingSequence[q] => n \in 1 .. Len(sent[q]),
         \A n \in 1 .. Len(sent'[q]) : Len(Text(q, n)') <= MAX_MSGLEN,
         Len(sent'[q]) = outgoingSequence[q]
  PROVE  \E pkt \in Packet : Sends(q, e, pkt)
<1>1. PICK pkt : pkt = Fragment(q, start, msg)
  OBVIOUS
<1>2. pkt \in Packet /\ Len(pkt.data) = FragmentLength(start, msg)
  BY <1>1, FragmentType DEF Inv
<1>3. /\ pkt.seq = outgoingSequence[q] /\ pkt.last = IsLast(start, msg) /\ pkt.start = start
      /\ After(pkt) = start + FragmentLength(start, msg)
  BY <1>1, <1>2 DEF Fragment, After
<1>4. Peer(q) = e
  BY PeerType
<1>5. /\ net \in [Ends -> Seq(Packet)] /\ damaged \in [Ends -> SUBSET Nat]
      /\ outgoingSequence \in [Ends -> Nat \ {0}] /\ unsentFragments \in [Ends -> BOOLEAN]
      /\ unsentFragmentStart \in [Ends -> Nat]
  BY DEF Inv, TypeOK, SenderType, WorldType
<1>6. CASE FragmentSent(q, start, msg)
  <2>1. PICK over \in BOOLEAN : over = MessageOver(start, msg)
    BY DEF MessageOver
  <2>2. /\ unsentFragments'[q] = ~over
        /\ outgoingSequence'[q] = IF over THEN outgoingSequence[q] + 1 ELSE outgoingSequence[q]
        /\ unsentFragmentStart'[q] = start + FragmentLength(start, msg)
    BY <1>5, <1>6, <2>1 DEF FragmentSent
  <2>3. net'[e] = Append(net[e], pkt) /\ damaged'[q] = damaged[q]
    BY <1>1, <1>4, <1>5, <1>6 DEF FragmentSent, SendPacket, world
  <2>4. pkt.last = over
    <3>1. MessageOver(start, msg) <=> IsLast(start, msg)
      BY OverIsLast
    <3>2. IsLast(start, msg) \in BOOLEAN
      BY DEF IsLast
    <3> QED BY <1>3, <2>1, <3>1, <3>2
  <2>5. CASE over
    <3>1. Open(q, pkt.seq)' = FALSE
      BY <2>2, <2>5 DEF Open
    <3> QED BY <1>2, <1>3, <2>2, <2>3, <2>4, <2>5, <3>1 DEF Sends, ReaderKept
  <2>6. CASE ~over
    <3>1. Open(q, pkt.seq)' = TRUE
      BY <1>3, <2>2, <2>6 DEF Open
    <3> QED BY <1>2, <1>3, <2>2, <2>3, <2>4, <2>6, <3>1 DEF Sends, ReaderKept
  <2> QED BY <2>5, <2>6
<1>7. CASE FragmentFails(q, start, msg)
  <2>1. /\ unsentFragments'[q] = FALSE /\ net'[e] = net[e]
        /\ damaged'[q] = damaged[q] \cup {outgoingSequence[q]}
    BY <1>5, <1>7 DEF FragmentFails, SendFails
  <2> QED BY <1>2, <2>1 DEF Sends, ReaderKept
<1> QED BY <1>6, <1>7

LEMMA PushSends ==
  ASSUME Inv, NEW e \in Ends, NEW q \in Ends, q = Peer(e), EndInv(e),
         PushFragment(q) \/ FrameFragment(q)
  PROVE  \E pkt \in Packet : Sends(q, e, pkt)
<1>1. PICK start \in Nat, msg \in Seq(Byte) :
        /\ start = unsentFragmentStart[q] /\ msg = unsentBuffer[q] /\ start <= Len(msg)
        /\ FragmentSent(q, start, msg) \/ FragmentFails(q, start, msg)
  BY DEF PushFragment, FrameFragment, Inv, TypeOK, SenderType
<1>2. unsentFragments[q] /\ UNCHANGED <<receiver, sent>>
  BY DEF PushFragment, FrameFragment, MustPush
<1>3. outgoingSequence[q] = Len(sent[q])
  BY <1>2 DEF Inv, NumberInv
<1>4. ReaderKept(e)
  BY <1>1, <1>2 DEF ReaderKept, receiver, FragmentSent, FragmentFails, SendPacket, SendFails, world
<1>5. \A n \in 1 .. Len(sent[q]) : Len(Text(q, n)) <= MAX_MSGLEN
  BY DEF EndInv
<1>6. \A n \in 1 .. Len(sent'[q]) : Len(Text(q, n)') <= MAX_MSGLEN
  BY <1>2, <1>5 DEF Text
<1> QED BY <1>1, <1>2, <1>3, <1>4, <1>6, FragmentSends

LEMMA TransmitSend ==
  ASSUME Inv, NEW e \in Ends, NEW q \in Ends, q = Peer(e), EndInv(e), Transmit(q)
  PROVE  \E pkt \in Packet : Sends(q, e, pkt)
<1>1. PICK len \in Lengths : len = pending[q]
  BY DEF Transmit, Inv, TypeOK
<1>2. PICK msg : msg = NewMessage(q, pending[q])
  OBVIOUS
<1>3. msg \in Seq(Byte) /\ Len(msg) = len /\ len \in Nat /\ len <= MAX_MSGLEN
  BY <1>1, <1>2, NewMessageType, SizeAssumption DEF Inv
<1>4. /\ ~unsentFragments[q] /\ UNCHANGED receiver
      /\ TransmitWhole(q, msg) \/ TransmitFirstFragment(q, msg)
  BY <1>2 DEF Transmit, MustPush
<1>5. /\ sent \in [Ends -> Seq(SentMessage)] /\ Len(sent[q]) \in Nat
      /\ outgoingSequence[q] = Len(sent[q]) + 1
  <2>1. sent \in [Ends -> Seq(SentMessage)]
    BY DEF Inv, TypeOK
  <2>2. Len(sent[q]) \in Nat
    BY <2>1
  <2>3. outgoingSequence[q] = Len(sent[q]) + 1
    BY <1>4 DEF Inv, NumberInv
  <2> QED BY <2>1, <2>2, <2>3
<1>6. /\ Len(sent'[q]) = Len(sent[q]) + 1
      /\ sent'[q][Len(sent[q]) + 1].data = msg
      /\ \A n \in 1 .. Len(sent[q]) : sent'[q][n] = sent[q][n]
  <2>1. sent[q] \in Seq(SentMessage)
    BY <1>5
  <2>2. sent'[q] = Append(sent[q], [data |-> msg, ack |-> incomingSequence[q]])
    BY <1>2, <1>5 DEF Transmit
  <2> QED BY <2>1, <2>2
<1>7. \A n \in 1 .. Len(sent'[q]) : n # outgoingSequence[q] => n \in 1 .. Len(sent[q])
  BY <1>5, <1>6
<1>8. \A n \in 1 .. Len(sent'[q]) : Len(Text(q, n)') <= MAX_MSGLEN
  <2>1. \A n \in 1 .. Len(sent[q]) : Len(sent[q][n].data) <= MAX_MSGLEN
    BY DEF EndInv, Text
  <2>2. ASSUME NEW n \in 1 .. Len(sent'[q]) PROVE Len(sent'[q][n].data) <= MAX_MSGLEN
    <3>1. CASE n \in 1 .. Len(sent[q])
      BY <1>6, <2>1, <3>1
    <3>2. CASE n = Len(sent[q]) + 1
      BY <1>3, <1>6, <3>2
    <3> QED BY <1>5, <1>6, <3>1, <3>2
  <2> QED BY <2>2 DEF Text
<1>9. ReaderKept(e)
  BY <1>4 DEF ReaderKept, receiver, FragmentSent, FragmentFails, SendPacket, SendFails, world,
              TransmitWhole, TransmitFirstFragment
<1>10. CASE TransmitFirstFragment(q, msg)
  <2>1. FragmentSent(q, 0, msg) \/ FragmentFails(q, 0, msg)
    BY <1>10 DEF TransmitFirstFragment
  <2>2. 0 \in Nat /\ 0 <= Len(msg)
    BY <1>3
  <2> QED BY <1>3, <1>4, <1>5, <1>6, <1>7, <1>8, <1>9, <2>1, <2>2, FragmentSends
<1>11. CASE TransmitWhole(q, msg)
  <2>1. PICK pkt : pkt = [seq |-> outgoingSequence[q], ack |-> incomingSequence[q],
                          fragmented |-> FALSE, last |-> TRUE, start |-> 0, data |-> msg]
    OBVIOUS
  <2>2. pkt \in Packet /\ pkt.seq = outgoingSequence[q] /\ pkt.start = 0 /\ pkt.last = TRUE
    BY <1>3, <2>1 DEF Packet, Inv, TypeOK, SenderType, ReceiverType
  <2>3. unsentFragments'[q] = FALSE /\ Peer(q) = e
    BY <1>4, <1>11, PeerType DEF TransmitWhole, Inv, TypeOK, SenderType
  <2>4. Open(q, pkt.seq)' = FALSE
    BY <2>3 DEF Open
  <2>5. net \in [Ends -> Seq(Packet)] /\ damaged \in [Ends -> SUBSET Nat]
    BY DEF Inv, TypeOK, WorldType
  <2>6. \/ net'[e] = net[e] /\ damaged'[q] = damaged[q] \cup {outgoingSequence[q]}
        \/ net'[e] = Append(net[e], pkt) /\ damaged'[q] = damaged[q]
    BY <1>11, <2>1, <2>3, <2>5 DEF TransmitWhole, SendPacket, SendFails, world
  <2> QED BY <1>4, <1>5, <1>6, <1>7, <1>8, <1>9, <2>2, <2>3, <2>4, <2>6 DEF Sends, ReaderKept
<1> QED BY <1>4, <1>10, <1>11


\* Taking a packet from the network: what is common to Netchan_Process and to a loss.
LEMMA TakenOrderly ==
  ASSUME Inv, NEW e \in Ends, net[e] # <<>>, Orderly(e)
  PROVE  /\ InOrder(net[e]) /\ InOrder(Tail(net[e]))
         /\ \A i \in 1 .. Len(net[e]) : net[e][1].seq <= net[e][i].seq
         /\ \A i \in 1 .. Len(Tail(net[e])) : net[e][1].seq <= Tail(net[e])[i].seq
         /\ fragmentSequence[e] <= net[e][1].seq
<1>1. net[e] \in Seq(Packet)
  BY PacketSeq
<1>2. 1 \in 1 .. Len(net[e])
  BY <1>1
<1> QED BY <1>1, <1>2, InOrderTail DEF Orderly

\* Netchan_Process of the first packet.  A message whose packets are all there is taken
\* fragment by fragment and handed out with its last.
LEMMA ReceiveComing ==
  ASSUME Inv, NEW e \in Ends, EndInv(e), Receive(e), ~reordered, ~fatal'[e],
         NEW n \in 1 .. Len(sent[Peer(e)]), Coming(e, n)
  PROVE  Got(e, n)' \/ Coming(e, n)'
<1>1. PICK q, s : q \in Ends /\ q = Peer(e) /\ s = net[e]
  BY PeerType
<1>2. /\ s \in Seq(Packet) /\ s # <<>> /\ Len(s) \in Nat
      /\ \A i \in 1 .. Len(s) : s[i].seq \in 1 .. Len(sent[q])
      /\ Len(sent[q]) \in Nat /\ fragmentSequence[e] \in Nat /\ incomingSequence[e] \in Nat
      /\ fragmentBuffer[e] \in Seq(Byte) /\ Len(fragmentBuffer[e]) \in Nat
  BY <1>1, PacketSeq DEF Receive
<1>3. PICK pkt \in Packet : pkt = s[1] /\ pkt = Head(s)
  BY <1>2, TailAt
<1>4. /\ pkt.seq \in 1 .. Len(sent[q]) /\ pkt.seq \in Nat /\ n \in Nat
      /\ pkt.start \in Nat /\ pkt.data \in Seq(Byte) /\ Len(pkt.data) \in Nat
      /\ pkt.last \in BOOLEAN
  <2>1. 1 \in 1 .. Len(s)
    BY <1>2
  <2>2. pkt.seq \in 1 .. Len(sent[q])
    BY <1>2, <1>3, <2>1
  <2>3. /\ pkt.seq \in Nat /\ pkt.start \in Nat /\ pkt.data \in Seq(Byte)
        /\ pkt.last \in BOOLEAN
    BY DEF Packet
  <2>4. n \in Nat
    BY <1>1, <1>2
  <2> QED BY <2>2, <2>3, <2>4
<1>5. /\ InOrder(s) /\ \A i \in 1 .. Len(s) : pkt.seq <= s[i].seq
      /\ fragmentSequence[e] <= pkt.seq
  BY <1>1, <1>2, <1>3, TakenOrderly DEF EndInv
<1>6. PICK have, open, start :
        /\ have = Have(e, n) /\ open = Open(q, n) /\ start = unsentFragmentStart[q]
  OBVIOUS
<1>7. NoGap(s, n, have, open, start) /\ incomingSequence[e] < n /\ open \in BOOLEAN
  BY <1>1, <1>6, OpenIsNewest DEF Coming
<1>8. open => n = Len(sent[q])
  BY <1>1, <1>6, OpenIsNewest
<1>9. pkt.seq <= n
  <2>1. SUFFICES ASSUME pkt.seq > n PROVE FALSE
    BY <1>4
  <2>2. \A i \in 1 .. Len(s) : s[i].seq # n
    BY <1>2, <1>4, <1>5, <2>1
  <2>3. n = Len(sent[q])
    BY <1>7, <1>8, <2>2 DEF NoGap
  <2> QED BY <1>2, <1>4, <2>1, <2>3
<1>10. /\ ProcessStale(e, pkt) \/ ProcessWhole(e, pkt) \/ ProcessFragment(e, pkt)
       /\ net' = [net EXCEPT ![e] = Tail(s)] /\ UNCHANGED sender
  BY <1>1, <1>3 DEF Receive
<1>11. net'[e] = Tail(s) /\ Open(q, n)' = open /\ unsentFragmentStart'[q] = start
  <2>1. net \in [Ends -> Seq(Packet)]
    BY DEF Inv, TypeOK
  <2> QED BY <1>6, <1>10, <2>1 DEF sender, Open
<1>12. ASSUME NEW h, h = Have(e, n)', NoGap(Tail(s), n, h, open, start), incomingSequence'[e] < n
       PROVE  Coming(e, n)'
  BY <1>1, <1>11, <1>12 DEF Coming
<1>13. ASSUME NEW data, Accept(e, pkt, data)
       PROVE  /\ pkt.seq = n => Got(e, n)'
              /\ incomingSequence'[e] = pkt.seq
  <2>1. delivered[e] \in Seq(Delivery) /\ delivered \in [Ends -> Seq(Delivery)]
        /\ incomingSequence \in [Ends -> Nat]
    BY DEF Inv, TypeOK, ReceiverType
  <2>2. PICK d : d = [seq |-> pkt.seq, data |-> data]
    OBVIOUS
  <2>3. delivered'[e] = Append(delivered[e], d) /\ d.seq = pkt.seq /\ incomingSequence'[e] = pkt.seq
    BY <1>13, <2>1, <2>2 DEF Accept
  <2>4. /\ Len(delivered[e]) + 1 \in 1 .. Len(Append(delivered[e], d))
        /\ Append(delivered[e], d)[Len(delivered[e]) + 1] = d
    BY <2>1
  <2> QED BY <2>3, <2>4 DEF Got
<1>14. CASE ProcessStale(e, pkt)
  <2>1. pkt.seq # n
    BY <1>2, <1>4, <1>7, <1>14 DEF ProcessStale, Stale
  <2>2. NoGap(Tail(s), n, have, open, start)
    BY <1>2, <1>3, <1>4, <1>7, <2>1, NoGapTail
  <2>3. Have(e, n)' = have /\ incomingSequence'[e] = incomingSequence[e]
    BY <1>6, <1>14 DEF ProcessStale, receiver, Have
  <2> QED BY <1>7, <1>12, <2>2, <2>3
<1>15. CASE ProcessWhole(e, pkt)
  <2>1. Accept(e, pkt, pkt.data) /\ Have(e, n)' = have
    BY <1>6, <1>15 DEF ProcessWhole, Have
  <2>2. CASE pkt.seq = n
    BY <1>13, <2>1, <2>2
  <2>3. CASE pkt.seq # n
    <3>1. NoGap(Tail(s), n, have, open, start)
      BY <1>2, <1>3, <1>4, <1>7, <2>3, NoGapTail
    <3>2. incomingSequence'[e] < n
      BY <1>4, <1>9, <1>13, <2>1, <2>3
    <3> QED BY <1>12, <2>1, <3>1, <3>2
  <2> QED BY <2>2, <2>3
<1>16. CASE ProcessFragment(e, pkt)
  <2>1. PICK buffer : buffer = Reassembled(e, pkt)
    OBVIOUS
  <2>2. PICK joined : joined = buffer \o pkt.data
    OBVIOUS
  <2>8. buffer \in Seq(Byte)
    <3>1. <<>> \in Seq(Byte)
      OBVIOUS
    <3> QED BY <1>2, <2>1, <3>1 DEF Reassembled
  <2>3. Len(buffer) \in Nat /\ Len(joined) = Len(buffer) + Len(pkt.data)
    BY <1>4, <2>2, <2>8
  <2>4. fragmentSequence'[e] = pkt.seq
    BY <1>16 DEF ProcessFragment, Inv, TypeOK, ReceiverType
  <2>5. \/ /\ ~Fits(buffer, pkt) /\ fragmentBuffer'[e] = buffer
           /\ incomingSequence'[e] = incomingSequence[e]
        \/ /\ Fits(buffer, pkt) /\ ~pkt.last /\ fragmentBuffer'[e] = joined
           /\ incomingSequence'[e] = incomingSequence[e]
        \/ Accept(e, pkt, joined)
    <3>1. fatal \in [Ends -> BOOLEAN] /\ fragmentBuffer \in [Ends -> Seq(Byte)]
      BY DEF Inv, TypeOK, ReceiverType
    <3> QED BY <1>16, <2>1, <2>2, <3>1 DEF ProcessFragment
  <2>6. CASE pkt.seq # n
    <3>1. have = 0 /\ Have(e, n)' = 0
      BY <1>2, <1>4, <1>5, <1>6, <1>9, <2>4, <2>6 DEF Have
    <3>2. NoGap(Tail(s), n, have, open, start)
      BY <1>2, <1>3, <1>4, <1>7, <2>6, NoGapTail
    <3>3. incomingSequence'[e] < n
      BY <1>4, <1>7, <1>9, <1>13, <2>5, <2>6
    <3> QED BY <1>12, <3>1, <3>2, <3>3
  <2>7. CASE pkt.seq = n
    <3>1. CASE Accept(e, pkt, joined)
      BY <1>13, <2>7, <3>1
    <3>2. CASE ~Accept(e, pkt, joined)
      <4>1. Len(buffer) = have
        BY <1>6, <2>1, <2>7 DEF Reassembled, Have
      <4>2. 1 \in 1 .. Len(s) /\ IsFirst(s, n, 1)
        BY <1>2, <1>3, <2>7 DEF IsFirst
      <4>3. Continues(have, pkt)
        BY <1>3, <1>7, <4>2 DEF NoGap
      <4>4. pkt.start + Len(pkt.data) <= MAX_MSGLEN
        <5>1. Genuine(pkt, q)
          BY <1>1, <1>3, <4>2 DEF Inv, PacketInv
        <5>2. Len(Text(q, n)) <= MAX_MSGLEN
          BY <1>1 DEF EndInv
        <5>3. Len(Text(q, n)) \in Nat
          <6>1. sent[q] \in Seq(SentMessage)
            BY <1>1 DEF Inv, TypeOK
          <6>2. sent[q][n] \in SentMessage
            BY <1>1, <6>1, ElementOfSeq
          <6> QED BY <6>2 DEF Text, SentMessage
        <5> QED BY <1>4, <2>7, <5>1, <5>2, <5>3, LengthsNat DEF Genuine
      <4>5. Fits(buffer, pkt) <=> pkt.start = have
        BY <2>3, <4>1, <4>4 DEF Fits
      <4>6. ~pkt.last /\ Len(fragmentBuffer'[e]) = After(pkt)
            /\ incomingSequence'[e] = incomingSequence[e]
        <5>1. CASE pkt.start = have
          BY <2>3, <2>5, <3>2, <4>1, <4>5, <5>1 DEF After
        <5>2. CASE pkt.start # have
          BY <2>5, <3>2, <4>1, <4>3, <4>5, <5>2 DEF Continues
        <5> QED BY <5>1, <5>2
      <4>7. Have(e, n)' = After(pkt)
        BY <2>4, <2>7, <4>6 DEF Have
      <4>8. NoGap(Tail(s), n, After(pkt), open, start)
        BY <1>2, <1>3, <1>4, <1>5, <1>7, <2>7, <4>6, NoGapTaken
      <4> QED BY <1>7, <1>12, <4>6, <4>7, <4>8
    <3> QED BY <3>1, <3>2
  <2> QED BY <2>6, <2>7
<1> QED BY <1>10, <1>14, <1>15, <1>16


LEMMA ReceiveEnd ==
  ASSUME Inv, NEW e \in Ends, EndInv(e), Receive(e)
  PROVE  EndInv(e)'
<1>1. PICK q, s : q \in Ends /\ q = Peer(e) /\ s = net[e]
  BY PeerType
<1>2. PICK pkt : pkt = s[1] /\ pkt = Head(s)
  BY <1>1, PacketSeq, TailAt DEF Receive
<1>3. /\ s \in Seq(Packet) /\ s # <<>> /\ Len(s) \in Nat /\ 1 \in 1 .. Len(s)
      /\ \A i \in 1 .. Len(s) : s[i].seq \in 1 .. Len(sent[q])
  BY <1>1, PacketSeq DEF Receive
<1>4. /\ ProcessStale(e, pkt) \/ ProcessWhole(e, pkt) \/ ProcessFragment(e, pkt)
      /\ net' = [net EXCEPT ![e] = Tail(s)] /\ UNCHANGED <<world, sent>>
  BY <1>1, <1>2 DEF Receive
<1>5. net'[e] = Tail(s)
  <2>1. net \in [Ends -> Seq(Packet)]
    BY DEF Inv, TypeOK
  <2> QED BY <1>4, <2>1
<1>6. fragmentSequence'[e] = fragmentSequence[e] \/ fragmentSequence'[e] = pkt.seq
  BY <1>4 DEF ProcessStale, ProcessWhole, ProcessFragment, receiver, Inv, TypeOK, ReceiverType
<1>7. fragmentSequence'[e] <= Len(sent'[q])
  <2>1. pkt.seq \in 1 .. Len(sent[q]) /\ fragmentSequence[e] <= Len(sent[q])
    BY <1>1, <1>2, <1>3 DEF EndInv
  <2> QED BY <1>4, <1>6, <2>1
<1>8. ASSUME ~reordered PROVE Orderly(e)'
  <2>1. /\ InOrder(Tail(s)) /\ fragmentSequence[e] <= pkt.seq
        /\ \A i \in 1 .. Len(Tail(s)) : pkt.seq <= Tail(s)[i].seq
    BY <1>1, <1>2, <1>3, <1>8, TakenOrderly DEF EndInv
  <2>2. ASSUME NEW i \in 1 .. Len(Tail(s)) PROVE fragmentSequence'[e] <= Tail(s)[i].seq
    <3>1. /\ i + 1 \in 1 .. Len(s) /\ Tail(s)[i] = s[i + 1]
      BY <1>3, TailAt
    <3>2. Tail(s)[i].seq \in Nat /\ pkt.seq \in Nat /\ fragmentSequence[e] \in Nat
      BY <1>2, <1>3, <3>1, PacketSeq
    <3> QED BY <1>6, <2>1, <3>2
  <2> QED BY <1>5, <2>1, <2>2 DEF Orderly
<1>9. ASSUME ~reordered, ~fatal'[e], NEW n \in 1 .. Len(sent[q]), n \notin damaged[q]
      PROVE  Got(e, n)' \/ Coming(e, n)'
  <2>1. ~fatal[e]
    BY DEF Receive
  <2>2. CASE Coming(e, n)
    BY <1>1, <1>9, <2>2, ReceiveComing
  <2>3. CASE Got(e, n)
    <3>1. PICK k \in 1 .. Len(delivered[e]) : delivered[e][k].seq = n
      BY <2>3 DEF Got
    <3>2. delivered[e] \in Seq(Delivery) /\ delivered \in [Ends -> Seq(Delivery)]
      BY DEF Inv, TypeOK, ReceiverType
    <3>3. delivered'[e] = delivered[e] \/ \E d : delivered'[e] = Append(delivered[e], d)
      BY <1>4, <3>2 DEF ProcessStale, ProcessWhole, ProcessFragment, receiver, Accept
    <3>4. k \in 1 .. Len(delivered'[e]) /\ delivered'[e][k] = delivered[e][k]
      BY <3>1, <3>2, <3>3
    <3> QED BY <3>1, <3>4 DEF Got
  <2> QED BY <1>1, <1>9, <2>1, <2>2, <2>3 DEF EndInv
<1>10. reordered' = reordered /\ damaged' = damaged /\ sent' = sent
  BY <1>4 DEF world
<1>11. \A n \in 1 .. Len(sent'[q]) : Len(Text(q, n)') <= MAX_MSGLEN
  BY <1>1, <1>10 DEF EndInv, Text
<1> QED BY <1>1, <1>7, <1>8, <1>9, <1>10, <1>11 DEF EndInv

\* The message of a lost packet is damaged; the others lose nothing.
LEMMA LoseEnd ==
  ASSUME Inv, NEW e \in Ends, EndInv(e), Lose(e)
  PROVE  EndInv(e)'
<1>1. PICK q, s : q \in Ends /\ q = Peer(e) /\ s = net[e]
  BY PeerType
<1>2. PICK pkt : pkt = s[1] /\ pkt = Head(s)
  BY <1>1, PacketSeq, TailAt DEF Lose
<1>3. /\ s \in Seq(Packet) /\ s # <<>> /\ Len(s) \in Nat
      /\ \A i \in 1 .. Len(s) : s[i].seq \in 1 .. Len(sent[q])
  BY <1>1, PacketSeq DEF Lose
<1>4. /\ net'[e] = Tail(s) /\ damaged'[q] = damaged[q] \cup {pkt.seq}
      /\ UNCHANGED <<sender, receiver, sent, reordered>>
  <2>1. net \in [Ends -> Seq(Packet)] /\ damaged \in [Ends -> SUBSET Nat]
    BY DEF Inv, TypeOK, WorldType
  <2> QED BY <1>1, <1>2, <2>1 DEF Lose
<1>5. ASSUME ~reordered PROVE Orderly(e)'
  <2>1. InOrder(Tail(s)) /\ \A i \in 1 .. Len(s) : fragmentSequence[e] <= s[i].seq
    BY <1>1, <1>3, <1>5, TakenOrderly DEF EndInv, Orderly
  <2>2. ASSUME NEW i \in 1 .. Len(Tail(s)) PROVE fragmentSequence[e] <= Tail(s)[i].seq
    <3>1. i + 1 \in 1 .. Len(s) /\ Tail(s)[i] = s[i + 1]
      BY <1>3, TailAt
    <3> QED BY <2>1, <3>1
  <2> QED BY <1>4, <2>1, <2>2 DEF Orderly, receiver
<1>6. ASSUME ~reordered, ~fatal[e], NEW n \in 1 .. Len(sent[q]), n \notin damaged'[q]
      PROVE  Got(e, n)' \/ Coming(e, n)'
  <2>1. CASE Got(e, n)
    BY <1>4, <2>1 DEF Got, receiver
  <2>2. CASE Coming(e, n)
    <3>1. NoGap(s, n, Have(e, n), Open(q, n), unsentFragmentStart[q])
      BY <1>1, <2>2 DEF Coming
    <3>2. Open(q, n) \in BOOLEAN /\ n \in Nat /\ s[1].seq # n
      BY <1>1, <1>2, <1>4, <1>6, OpenIsNewest
    <3>3. NoGap(Tail(s), n, Have(e, n), Open(q, n), unsentFragmentStart[q])
      BY <1>3, <3>1, <3>2, NoGapTail
    <3>4. Have(e, n)' = Have(e, n) /\ Open(q, n)' = Open(q, n)
      BY <1>4 DEF Have, Open, sender, receiver
    <3> QED BY <1>1, <1>4, <2>2, <3>3, <3>4 DEF Coming, sender, receiver
  <2> QED BY <1>1, <1>4, <1>6, <2>1, <2>2 DEF EndInv
<1>7. \A n : Text(q, n)' = Text(q, n)
  BY <1>4 DEF Text
<1>8. fatal' = fatal /\ fragmentSequence' = fragmentSequence
  BY <1>4 DEF receiver
<1> QED BY <1>1, <1>4, <1>5, <1>6, <1>7, <1>8 DEF EndInv

\* A copy of a packet changes nothing.
LEMMA DuplicateEnd ==
  ASSUME Inv, NEW e \in Ends, EndInv(e), Duplicate(e)
  PROVE  EndInv(e)'
<1>1. PICK q, s : q \in Ends /\ q = Peer(e) /\ s = net[e]
  BY PeerType
<1>2. s \in Seq(Packet) /\ s # <<>> /\ Len(s) \in Nat \ {0}
  BY <1>1, PacketSeq, TailAt DEF Duplicate
<1>3. /\ net'[e] = <<s[1]>> \o s
      /\ UNCHANGED <<sender, receiver, sent, damaged, reordered>>
  <2>1. net \in [Ends -> Seq(Packet)] /\ Head(s) = s[1]
    BY <1>2 DEF Inv, TypeOK
  <2> QED BY <1>1, <2>1 DEF Duplicate
<1>4. PICK t : t = <<s[1]>> \o s
  OBVIOUS
<1>5. /\ Len(t) = Len(s) + 1 /\ t[1] = s[1]
      /\ \A i \in 2 .. Len(t) : i - 1 \in 1 .. Len(s) /\ t[i] = s[i - 1]
  BY <1>2, <1>4
<1>6. ASSUME ~reordered PROVE Orderly(e)'
  <2>1. InOrder(s) /\ \A i \in 1 .. Len(s) : fragmentSequence[e] <= s[i].seq
    BY <1>1, <1>6 DEF EndInv, Orderly
  <2>2. \A i \in 1 .. Len(t) : \E k \in 1 .. Len(s) : t[i] = s[k] /\ (i = 1 => k = 1) /\ (i # 1 => k = i - 1)
    <3>1. ASSUME NEW i \in 1 .. Len(t)
          PROVE  \E k \in 1 .. Len(s) : t[i] = s[k] /\ (i = 1 => k = 1) /\ (i # 1 => k = i - 1)
      <4>1. CASE i = 1
        BY <1>2, <1>5, <4>1
      <4>2. CASE i # 1
        <5>1. i \in 2 .. Len(t)
          BY <1>2, <1>5, <4>2
        <5> QED BY <1>5, <4>2, <5>1
      <4> QED BY <4>1, <4>2
    <3> QED BY <3>1
  <2>3. ASSUME NEW i \in 1 .. Len(t), NEW j \in 1 .. Len(t), i <= j PROVE t[i].seq <= t[j].seq
    <3>1. PICK k \in 1 .. Len(s) : t[i] = s[k] /\ (i = 1 => k = 1) /\ (i # 1 => k = i - 1)
      BY <2>2
    <3>2. PICK l \in 1 .. Len(s) : t[j] = s[l] /\ (j = 1 => l = 1) /\ (j # 1 => l = j - 1)
      BY <2>2
    <3>3. k <= l
      BY <1>2, <1>5, <2>3, <3>1, <3>2
    <3> QED BY <2>1, <3>1, <3>2, <3>3 DEF InOrder
  <2>4. \A i \in 1 .. Len(t) : fragmentSequence[e] <= t[i].seq
    BY <2>1, <2>2
  <2>5. InOrder(t)
    BY <2>3 DEF InOrder
  <2> QED BY <1>3, <1>4, <2>4, <2>5 DEF Orderly, receiver
<1>7. ASSUME ~reordered, ~fatal[e], NEW n \in 1 .. Len(sent[q]), n \notin damaged[q]
      PROVE  Got(e, n)' \/ Coming(e, n)'
  <2>1. CASE Got(e, n)
    BY <1>3, <2>1 DEF Got, receiver
  <2>2. CASE Coming(e, n)
    <3>1. NoGap(s, n, Have(e, n), Open(q, n), unsentFragmentStart[q])
      BY <1>1, <2>2 DEF Coming
    <3>2. Open(q, n) \in BOOLEAN /\ n \in Nat
      BY <1>1, OpenIsNewest
    <3>3. NoGap(t, n, Have(e, n), Open(q, n), unsentFragmentStart[q])
      BY <1>2, <1>4, <3>1, <3>2, NoGapCopy
    <3>4. Have(e, n)' = Have(e, n) /\ Open(q, n)' = Open(q, n)
      BY <1>3 DEF Have, Open, sender, receiver
    <3> QED BY <1>1, <1>3, <1>4, <2>2, <3>3, <3>4 DEF Coming, sender, receiver
  <2> QED BY <1>1, <1>7, <2>1, <2>2 DEF EndInv
<1>8. \A n : Text(q, n)' = Text(q, n)
  BY <1>3 DEF Text
<1>9. fatal' = fatal /\ fragmentSequence' = fragmentSequence
  BY <1>3 DEF receiver
<1> QED BY <1>1, <1>3, <1>6, <1>7, <1>8, <1>9 DEF EndInv

\* Once a packet was overtaken the invariant claims no more than that the numbers are sent.
LEMMA DelayEnd ==
  ASSUME NEW e \in Ends, EndInv(e), NEW f \in Ends, Delay(f)
  PROVE  EndInv(e)'
<1>1. reordered' /\ UNCHANGED <<receiver, sent>>
  BY DEF Delay
<1>2. \A q, n : Text(q, n)' = Text(q, n)
  BY <1>1 DEF Text
<1>3. fragmentSequence' = fragmentSequence
  BY <1>1 DEF receiver
<1> QED BY <1>1, <1>2, <1>3 DEF EndInv

LEMMA LossInit == Init => LossInv
<1> SUFFICES ASSUME Init, NEW e \in Ends PROVE EndInv(e)
  BY DEF LossInv
<1>1. /\ sent[Peer(e)] = <<>> /\ fragmentSequence[e] = 0 /\ net[e] = <<>>
  BY PeerType DEF Init
<1>2. Len(sent[Peer(e)]) = 0 /\ Len(net[e]) = 0
  BY <1>1
<1>3. Orderly(e)
  BY <1>2 DEF Orderly, InOrder
<1> QED BY <1>1, <1>2, <1>3 DEF EndInv

LEMMA LossStep ==
  ASSUME Inv, LossInv, [Next]_vars
  PROVE  LossInv'
<1> SUFFICES ASSUME NEW e \in Ends PROVE EndInv(e)'
  BY DEF LossInv
<1>1. EndInv(e)
  BY DEF LossInv
<1>2. PICK q \in Ends : q = Peer(e) /\ Peer(q) = e /\ q # e
  BY PeerType
<1>3. Ends = {e, q}
  BY <1>2 DEF Ends
<1> DEFINE Kept == /\ net'[e] = net[e] /\ sent'[q] = sent[q] /\ damaged'[q] = damaged[q]
                    /\ reordered' = reordered /\ incomingSequence'[e] = incomingSequence[e]
                    /\ delivered'[e] = delivered[e] /\ fragmentSequence'[e] = fragmentSequence[e]
                    /\ fragmentBuffer'[e] = fragmentBuffer[e] /\ fatal'[e] = fatal[e]
                    /\ unsentFragments'[q] = unsentFragments[q]
                    /\ outgoingSequence'[q] = outgoingSequence[q]
                    /\ unsentFragmentStart'[q] = unsentFragmentStart[q]
<1>4. ASSUME Kept PROVE EndInv(e)'
  BY <1>1, <1>2, <1>4, EndKept
<1>5. TypeOK
  BY DEF Inv
<1>6. CASE UNCHANGED vars
  BY <1>4, <1>6 DEF vars, sender, receiver, world
<1>7. ASSUME NEW f \in Ends, StartTransmit(f) PROVE EndInv(e)'
  BY <1>4, <1>7 DEF StartTransmit, sender, receiver, world
<1>8. ASSUME NEW f \in Ends, PushFragment(f) \/ FrameFragment(f) \/ Transmit(f) PROVE EndInv(e)'
  <2>1. CASE f = q
    <3>1. PICK pkt \in Packet : Sends(q, e, pkt)
      BY <1>1, <1>2, <1>8, <2>1, PushSends, TransmitSend
    <3> QED BY <1>1, <1>2, <3>1, SendsStep
  <2>2. CASE f = e
    <3>1. UNCHANGED receiver /\ sent'[q] = sent[q]
      BY <1>2, <1>5, <1>8, <2>2 DEF PushFragment, FrameFragment, Transmit, TypeOK
    <3>2. ASSUME NEW msg, NEW start, FragmentSent(e, start, msg) \/ FragmentFails(e, start, msg)
          PROVE  /\ net'[e] = net[e] /\ damaged'[q] = damaged[q] /\ reordered' = reordered
                 /\ unsentFragments'[q] = unsentFragments[q]
                 /\ outgoingSequence'[q] = outgoingSequence[q]
                 /\ unsentFragmentStart'[q] = unsentFragmentStart[q]
      BY <1>2, <1>5, <3>2 DEF FragmentSent, FragmentFails, SendPacket, SendFails, world, TypeOK,
                              SenderType, WorldType
    <3>3. ASSUME NEW msg, TransmitWhole(e, msg)
          PROVE  /\ net'[e] = net[e] /\ damaged'[q] = damaged[q] /\ reordered' = reordered
                 /\ unsentFragments'[q] = unsentFragments[q]
                 /\ outgoingSequence'[q] = outgoingSequence[q]
                 /\ unsentFragmentStart'[q] = unsentFragmentStart[q]
      BY <1>2, <1>5, <3>3 DEF TransmitWhole, SendPacket, SendFails, world, TypeOK,
                              SenderType, WorldType
    <3>4. Kept
      BY <1>8, <2>2, <3>1, <3>2, <3>3 DEF PushFragment, FrameFragment, Transmit,
                                          TransmitFirstFragment, receiver
    <3> QED BY <1>4, <3>4
  <2> QED BY <1>3, <2>1, <2>2
<1>9. ASSUME NEW f \in Ends, Receive(f) PROVE EndInv(e)'
  <2>1. CASE f = e
    BY <1>1, <1>9, <2>1, ReceiveEnd
  <2>2. CASE f = q
    <3>1. UNCHANGED <<sender, world, sent>> /\ net'[e] = net[e]
      BY <1>2, <1>5, <1>9, <2>2 DEF Receive, TypeOK
    <3>2. /\ incomingSequence'[e] = incomingSequence[e] /\ delivered'[e] = delivered[e]
          /\ fragmentSequence'[e] = fragmentSequence[e]
          /\ fragmentBuffer'[e] = fragmentBuffer[e] /\ fatal'[e] = fatal[e]
      BY <1>2, <1>5, <1>9, <2>2 DEF Receive, ProcessStale, ProcessWhole, ProcessFragment, Accept,
                                    receiver, TypeOK, ReceiverType
    <3>3. Kept
      BY <3>1, <3>2 DEF sender, world
    <3> QED BY <1>4, <3>3
  <2> QED BY <1>3, <2>1, <2>2
<1>10. ASSUME NEW f \in Ends, Lose(f) \/ Duplicate(f) PROVE EndInv(e)'
  <2>1. CASE f = e
    BY <1>1, <1>10, <2>1, LoseEnd, DuplicateEnd
  <2>2. CASE f = q
    <3>1. UNCHANGED <<sender, receiver, sent, reordered>>
      BY <1>10 DEF Lose, Duplicate
    <3>2. net'[e] = net[e] /\ damaged'[q] = damaged[q]
      BY <1>2, <1>5, <1>10, <2>2 DEF Lose, Duplicate, TypeOK, WorldType
    <3>3. Kept
      BY <3>1, <3>2 DEF sender, receiver
    <3> QED BY <1>4, <3>3
  <2> QED BY <1>3, <2>1, <2>2
<1>11. ASSUME NEW f \in Ends, Delay(f) PROVE EndInv(e)'
  BY <1>1, <1>11, DelayEnd
<1> QED BY <1>6, <1>7, <1>8, <1>9, <1>10, <1>11 DEF Next, Caller

\* While no packet is overtaken, what the reader has of a message, the packets of it on
\* their way and what its sender holds back make the message without a gap, unless a
\* packet of it was lost or refused by the socket.
THEOREM NothingElseIsLost == Spec => []LossInv
<1>1. Inv /\ LossInv /\ [Next]_vars => LossInv'
  BY LossStep
<1> QED BY <1>1, LossInit, Invariance, PTL DEF Spec

\* A lost packet, or a send that fails, costs the message it belongs to and no other, and
\* a duplicate costs nothing: whatever the sizes, the number of messages and of faults,
\* Netchan_Process hands out every message that no packet was lost of.
THEOREM LossStaysLocal == Spec => []LossIsLocal
<1>1. ASSUME Inv, LossInv PROVE LossIsLocal
  <2> SUFFICES ASSUME NEW e \in Ends, ~reordered, Quiet(e),
                       NEW n \in DOMAIN sent[Peer(e)] \ damaged[Peer(e)]
                PROVE  \E d \in Range(delivered[e]) : d.seq = n
    BY DEF LossIsLocal
  <2>1. net[e] = <<>> /\ ~fatal[e] /\ ~unsentFragments[Peer(e)]
    BY DEF Quiet
  <2>2. n \in 1 .. Len(sent[Peer(e)]) /\ n \notin damaged[Peer(e)]
    <3>1. sent \in [Ends -> Seq(SentMessage)] /\ Peer(e) \in Ends
      BY <1>1, PeerType DEF Inv, TypeOK
    <3> QED BY <3>1
  <2>3. Got(e, n) \/ Coming(e, n)
    BY <1>1, <2>1, <2>2 DEF LossInv, EndInv
  <2>4. ~Coming(e, n)
    <3>1. Len(net[e]) = 0
      BY <2>1
    <3>2. ~Open(Peer(e), n)
      BY <2>1 DEF Open
    <3> QED BY <3>1, <3>2 DEF Coming, NoGap
  <2>5. PICK k \in 1 .. Len(delivered[e]) : delivered[e][k].seq = n
    BY <2>3, <2>4 DEF Got
  <2>6. delivered[e] \in Seq(Delivery)
    BY <1>1 DEF Inv, TypeOK, ReceiverType
  <2>7. delivered[e][k] \in Range(delivered[e])
    BY <2>5, <2>6 DEF Range
  <2> QED BY <2>5, <2>7
<1> QED BY <1>1, Invariance, NothingElseIsLost, PTL
=============================================================================
