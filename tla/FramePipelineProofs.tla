------------------------ MODULE FramePipelineProofs ------------------------
(***************************************************************************)
(* What FramePipeline promises, for all layers, lengths and buffer sizes.  *)
(*                                                                         *)
(* Type correctness comes first; it holds the fact that no datagram has a  *)
(* negative length.  The order of the frames needs the whole chain at      *)
(* once: what the source published comes before what waits in its buffer,  *)
(* and that before what the sink still has to handle.  The other           *)
(* invariants are kept apart, each on top of these two.                    *)
(***************************************************************************)
EXTENDS FramePipeline, SequenceTheorems, FiniteSetTheorems, TLAPS

-----------------------------------------------------------------------------
(* What FrameReceiver promises its users by itself: frames are delivered   *)
(* in the order of their signals and never twice.  LoraDecoder implements  *)
(* FrameReceiver (LoraDecoderFrameProofs), so its frames are delivered     *)
(* this way too.                                                           *)

Pair == [header : Nat, payload : Nat]

(* What was delivered is made of earlier signals only: not of the present  *)
(* one, while the receiver is still at work on it.                         *)
OfEarlierSignals ==
    \A i \in 1..Len(delivered) :
        /\ delivered[i].header = delivered[i].payload
        /\ delivered[i].header <= reception
        /\ phase # "listening" => delivered[i].header < reception

(* The inductive invariant.                                                *)
OrderInv ==
    /\ phase \in {"listening", "acquired", "locked"}
    /\ reception \in Nat
    /\ delivered \in Seq(Pair)
    /\ OfEarlierSignals
    /\ InOrderOnce

LEMMA DeliverKeepsOrder ==
    ASSUME OrderInv, Deliver
    PROVE  OrderInv'
<1> DEFINE last == [header |-> reception, payload |-> reception]
           P    == Pair
<1>1. /\ phase = "locked" /\ phase' = "listening" /\ reception' = reception
      /\ delivered' = Append(delivered, last)
      /\ reception \in Nat /\ delivered \in Seq(P)
  BY DEF Deliver, OrderInv
<1>2. last \in P /\ last.header = reception /\ last.payload = reception
  BY <1>1 DEF Pair
<1>3. \A p \in P : p.header \in Nat /\ p.payload \in Nat
  BY DEF Pair
<1> HIDE DEF P, last
<1>4. /\ delivered' \in Seq(P) /\ Len(delivered') = Len(delivered) + 1
      /\ Len(delivered) \in Nat
      /\ delivered'[Len(delivered) + 1] = last
      /\ \A i \in 1..Len(delivered) : delivered'[i] = delivered[i]
  BY <1>1, <1>2, AppendProperties
<1>5. \A i \in 1..Len(delivered) :
         /\ delivered[i].header \in Nat
         /\ delivered[i].payload = delivered[i].header
         /\ delivered[i].header < reception
  BY <1>1, <1>3, ElementOfSeq DEF OrderInv, OfEarlierSignals
<1>6. OfEarlierSignals'
  BY <1>1, <1>2, <1>4, <1>5 DEF OfEarlierSignals
<1>7. InOrderOnce'
  <2> SUFFICES ASSUME NEW i \in 1..Len(delivered'), NEW j \in 1..Len(delivered'),
                      i < j
               PROVE  delivered'[i].payload < delivered'[j].header
    BY DEF InOrderOnce
  <2>1. i \in 1..Len(delivered) /\ delivered'[i] = delivered[i]
    BY <1>4
  <2>2. CASE j = Len(delivered) + 1
    BY <1>2, <1>4, <1>5, <2>1, <2>2
  <2>3. CASE j # Len(delivered) + 1
    <3>1. j \in 1..Len(delivered) /\ delivered'[j] = delivered[j]
      BY <1>4, <2>3
    <3> QED BY <2>1, <3>1 DEF OrderInv, InOrderOnce
  <2> QED BY <2>2, <2>3
<1> QED BY <1>1, <1>4, <1>6, <1>7 DEF OrderInv, P

LEMMA NextKeepsOrder ==
    ASSUME OrderInv, [Next]_vars
    PROVE  OrderInv'
<1>1. CASE Acquire
  <2>1. /\ phase = "listening" /\ phase' = "acquired"
        /\ reception \in Nat /\ reception' = reception + 1
        /\ UNCHANGED delivered
    BY <1>1 DEF Acquire, OrderInv
  <2>2. \A i \in 1..Len(delivered) : delivered[i].header \in Nat
    <3>1. \A p \in Pair : p.header \in Nat
      BY DEF Pair
    <3> QED BY <3>1, ElementOfSeq DEF OrderInv
  <2>3. OfEarlierSignals'
    BY <2>1, <2>2 DEF OrderInv, OfEarlierSignals
  <2> QED BY <2>1, <2>3 DEF OrderInv, InOrderOnce
<1>2. CASE Lose
  BY <1>2 DEF Lose, OrderInv, OfEarlierSignals, InOrderOnce
<1>3. CASE Lock
  BY <1>3 DEF Lock, OrderInv, OfEarlierSignals, InOrderOnce
<1>4. CASE Deliver
  BY <1>4, DeliverKeepsOrder
<1>5. CASE UNCHANGED vars
  BY <1>5 DEF vars, OrderInv, OfEarlierSignals, InOrderOnce
<1> QED BY <1>1, <1>2, <1>3, <1>4, <1>5 DEF Next

(* No two frames are made of the same signal, and frames come in the order *)
(* of their signals.                                                       *)
THEOREM DeliveredInOrderOnce == Spec => []InOrderOnce
<1>1. Init => OrderInv
  BY DEF Init, OrderInv, OfEarlierSignals, InOrderOnce
<1>2. OrderInv /\ [Next]_vars => OrderInv'
  BY NextKeepsOrder
<1>3. OrderInv => InOrderOnce
  BY DEF OrderInv
<1> QED BY <1>1, <1>2, <1>3, PTL DEF Spec

-----------------------------------------------------------------------------
(* The pipeline.                                                           *)

USE DEF MAC_CRC_SIZE, RECEIVE_BUFFER_SIZE, loratap_header_t, loraphy_header_t

(* The decoder's messages are numbered in their order, and have room for   *)
(* the checksum they announce.                                             *)
Numbered ==
    \A i \in 1..Len(published) :
        published[i].frame = i /\ HasRoom(published[i])

TypeInv == PipelineTypeOK /\ Numbered

LEMMA DatagramIsTyped ==
    ASSUME NEW m \in Message, HasRoom(m), layer \in Layers
    PROVE  /\ DatagramOf(m) \in Datagram
           /\ DatagramOf(m).frame = m.frame
           /\ DatagramOf(m).length = MsgLen(m)
           /\ MsgLen(m) = 0 =>
                 layer = "LORAMAC" /\ m.payload = MAC_CRC_SIZE * m.has_mac_crc
<1>1. /\ m.payload \in Nat /\ m.frame \in Nat \ {0}
      /\ m.has_mac_crc \in 0..1
      /\ m.payload >= 2 * m.has_mac_crc
  BY LengthsAssumption DEF Message, HasRoom
<1>2. layer \in {"LORATAP", "LORAPHY", "LORAMAC"}
  BY LayersAssumption DEF LayerNames
<1>3. /\ Offset["LORATAP"] = 0
      /\ Offset["LORAPHY"] = 15
      /\ Offset["LORAMAC"] = 18
  BY DEF Offset
<1> DEFINE o == Offset[layer]
           c == IF layer = "LORAMAC" THEN 2 * m.has_mac_crc ELSE 0
<1>4. MsgLen(m) = 18 + m.payload - o - c
  BY DEF MsgLen, Checksum
<1>5. /\ o \in {0, 15, 18} /\ c \in Nat /\ c <= m.payload
      /\ o = 18 <=> layer = "LORAMAC"
  BY <1>1, <1>2, <1>3
<1>6. layer = "LORAMAC" => c = 2 * m.has_mac_crc
  OBVIOUS
<1> HIDE DEF o, c
<1>7. /\ MsgLen(m) \in Nat
      /\ MsgLen(m) = 0 => layer = "LORAMAC" /\ m.payload = 2 * m.has_mac_crc
  BY <1>1, <1>4, <1>5, <1>6
<1> QED BY <1>1, <1>5, <1>7 DEF DatagramOf, Datagram, o


(* What is known of the message a sink handles next.                       *)
LEMMA NextMessageIsTyped ==
    ASSUME TypeInv, MessageWaits
    PROVE  /\ NextMessage \in Message
           /\ HasRoom(NextMessage)
           /\ NextMessage.frame = handled + 1
           /\ handled + 1 \in 1..Len(published)
<1>1. handled \in Nat /\ Len(published) \in Nat /\ handled + 1 \in 1..Len(published)
  BY LenProperties DEF TypeInv, PipelineTypeOK, MessageWaits
<1>2. published[handled + 1] \in Message
  BY <1>1, ElementOfSeq DEF TypeInv, PipelineTypeOK
<1> QED BY <1>1, <1>2 DEF TypeInv, Numbered, NextMessage

(* The step of the socket sink, as one sequence of datagrams.              *)
LEMMA SendCases ==
    ASSUME TypeInv, SendDatagram
    PROVE  /\ handled' = handled + 1
           /\ \/ /\ Alive
                 /\ net' = Append(net, DatagramOf(NextMessage))
                 /\ dropped' = dropped
              \/ net' = net /\ dropped' = dropped \cup {handled + 1}
<1>1. MessageWaits
  BY DEF SendDatagram
<1>2. DatagramOf(NextMessage) \in Datagram /\ NextMessage.frame = handled + 1
      /\ DatagramOf(NextMessage).frame = NextMessage.frame
  BY <1>1, NextMessageIsTyped, DatagramIsTyped DEF TypeInv, PipelineTypeOK
<1> DEFINE d == DatagramOf(NextMessage)
<1>3. net \o <<d>> = Append(net, d)
  BY <1>2, AppendIsConcat DEF TypeInv, PipelineTypeOK
<1> QED BY <1>1, <1>2, <1>3 DEF SendDatagram, Sendto, Arrive, Deliverable

(* Taking a datagram out of the receive buffer.                            *)
LEMMA TakeIsTyped ==
    ASSUME TypeInv, net # <<>>
    PROVE  /\ Head(net) \in Datagram
           /\ Head(net) = net[1]
           /\ Len(net) \in Nat \ {0}
           /\ Tail(net) \in Seq(Datagram)
           /\ Len(Tail(net)) = Len(net) - 1
           /\ \A i \in 1..Len(Tail(net)) : Tail(net)[i] = net[i + 1]
<1>1. net \in Seq(Datagram)
  BY DEF TypeInv, PipelineTypeOK
<1> QED BY <1>1, HeadTailProperties, EmptySeq, LenProperties

LEMMA TypeInvInit == PipelineInit => TypeInv
BY EmptySeq DEF PipelineInit, TypeInv, PipelineTypeOK, Numbered

LEMMA PublishKeepsTypes ==
    ASSUME TypeInv, msg_lora_frame
    PROVE  TypeInv'
<1>1. PICK p \in PayloadLengths, crc \in 0..1 :
         LET m == [frame |-> Len(published) + 1, payload |-> p,
                   has_mac_crc |-> crc]
         IN  HasRoom(m) /\ published' = Append(published, m)
  BY DEF msg_lora_frame
<1> DEFINE m == [frame |-> Len(published) + 1, payload |-> p, has_mac_crc |-> crc]
<1>2. published \in Seq(Message) /\ Len(published) \in Nat
  BY LenProperties DEF TypeInv, PipelineTypeOK
<1>3. m \in Message /\ m.frame = Len(published) + 1 /\ HasRoom(m)
  BY <1>1, <1>2 DEF Message
<1>4. published' = Append(published, m)
  BY <1>1
<1> HIDE DEF m
<1>5. /\ published' \in Seq(Message) /\ Len(published') = Len(published) + 1
      /\ published'[Len(published) + 1] = m
      /\ \A i \in 1..Len(published) : published'[i] = published[i]
  BY <1>2, <1>3, <1>4, AppendProperties
<1>6. Numbered'
  BY <1>2, <1>3, <1>5 DEF TypeInv, Numbered, HasRoom
<1> QED
  BY <1>2, <1>5, <1>6
  DEF TypeInv, PipelineTypeOK, msg_lora_frame, sinkVars, sourceVars, fileVars

LEMMA SendKeepsTypes ==
    ASSUME TypeInv, SendDatagram
    PROVE  TypeInv'
<1>1. MessageWaits
  BY DEF SendDatagram
<1>2. DatagramOf(NextMessage) \in Datagram /\ handled + 1 \in 1..Len(published)
  BY <1>1, NextMessageIsTyped, DatagramIsTyped DEF TypeInv, PipelineTypeOK
<1>3. net' \in Seq(Datagram) /\ dropped' \in SUBSET Nat /\ handled' = handled + 1
  <2> DEFINE d == DatagramOf(NextMessage)
  <2>1. d \in Datagram /\ net \in Seq(Datagram) /\ dropped \in SUBSET Nat
        /\ handled \in Nat
    BY <1>2 DEF TypeInv, PipelineTypeOK
  <2>2. /\ handled' = handled + 1
        /\ \/ net' = Append(net, d) /\ dropped' = dropped
           \/ net' = net /\ dropped' = dropped \cup {handled + 1}
    BY SendCases
  <2> HIDE DEF d
  <2>3. Append(net, d) \in Seq(Datagram)
    BY <2>1, AppendProperties
  <2>4. dropped \cup {handled + 1} \in SUBSET Nat
    BY <2>1
  <2>5. net' \in Seq(Datagram)
    BY <2>1, <2>2, <2>3
  <2>6. dropped' \in SUBSET Nat
    BY <2>1, <2>2, <2>4
  <2> QED BY <2>2, <2>5, <2>6
<1>4. UNCHANGED <<layer, published, receiver, out, source, client_addr_len,
                  d_running, outAtEnd, fileVars>>
  BY DEF SendDatagram
<1>5. handled' \in 0..Len(published')
  BY <1>2, <1>3, <1>4
<1>6. Numbered'
  BY <1>4 DEF TypeInv, Numbered, HasRoom
<1>7. PipelineTypeOK'
  BY <1>3, <1>4, <1>5 DEF TypeInv, PipelineTypeOK, fileVars
<1> QED BY <1>6, <1>7 DEF TypeInv

LEMMA WriteKeepsTypes ==
    ASSUME TypeInv, WriteRecord
    PROVE  TypeInv'
<1>1. /\ written \in Nat /\ Len(published) \in Nat
      /\ written + 1 \in 1..Len(published)
  BY LenProperties DEF TypeInv, PipelineTypeOK, WriteRecord, RecordWaits
<1>2. published[written + 1].frame = written + 1
  BY <1>1 DEF TypeInv, Numbered
<1>3. file' \in Seq(Nat) /\ d_file_good' \in BOOLEAN
  <2>1. file \in Seq(Nat) /\ d_file_good \in BOOLEAN /\ written + 1 \in Nat
    BY <1>1 DEF TypeInv, PipelineTypeOK
  <2>2. Append(file, written + 1) \in Seq(Nat)
    BY <2>1, AppendProperties
  <2>3. \/ file' = Append(file, written + 1) /\ d_file_good' = d_file_good
        \/ file' = file /\ d_file_good' = FALSE
    BY <1>2 DEF WriteRecord
  <2> QED BY <2>1, <2>2, <2>3
<1>4. /\ written' = written + 1
      /\ UNCHANGED <<layer, published, receiver, sinkVars, sourceVars>>
  BY DEF WriteRecord
<1> QED
  BY <1>1, <1>3, <1>4
  DEF TypeInv, PipelineTypeOK, Numbered, HasRoom, sinkVars, sourceVars

LEMMA ReceivedIsTyped ==
    ASSUME NEW d \in Datagram
    PROVE  /\ Received(d) \in Datagram
           /\ Received(d).frame = d.frame
BY DEF Received, Datagram

LEMMA SourceKeepsTypes ==
    ASSUME TypeInv, SourceStep
    PROVE  TypeInv'
<1>1. net # <<>>
  BY DEF SourceStep, RecvfromRefused, RecvfromEmpty, RecvfromPublish
<1>2. Head(net) \in Datagram /\ Tail(net) \in Seq(Datagram)
  BY <1>1, TakeIsTyped
<1>3. out \in Seq(Datagram) /\ Append(out, Received(Head(net))) \in Seq(Datagram)
  BY <1>2, ReceivedIsTyped, AppendProperties DEF TypeInv, PipelineTypeOK
<1>4. net' = Tail(net) /\ out' \in Seq(Datagram)
  BY <1>3 DEF SourceStep, RecvfromRefused, RecvfromEmpty, RecvfromPublish
<1>5. /\ source' \in {"receiving", "destroying", "failed", "finished", "crashed"}
      /\ client_addr_len' \in {"unset", "set"}
  BY DEF SourceStep, RecvfromRefused, RecvfromEmpty, RecvfromPublish,
         AfterDatagram, Alive, TypeInv, PipelineTypeOK
<1> QED
  BY <1>2, <1>4, <1>5
  DEF TypeInv, PipelineTypeOK, Numbered, HasRoom, SourceStep, RecvfromRefused,
      RecvfromEmpty, RecvfromPublish, sinkVars, fileVars

LEMMA TypeInvNext ==
    ASSUME TypeInv, [PipelineNext]_pipelineVars
    PROVE  TypeInv'
<1> USE DEF sinkVars, sourceVars, fileVars
<1>1. CASE Search \/ Stop \/ SendDatagramFails
  BY <1>1 DEF Search, Stop, SendDatagramFails, TypeInv, PipelineTypeOK, Numbered, HasRoom
<1>2. CASE ClearRunning
  <2>1. Len(out) \in Nat
    BY LenProperties DEF TypeInv, PipelineTypeOK
  <2> QED BY <1>2, <2>1 DEF ClearRunning, TypeInv, PipelineTypeOK, Numbered, HasRoom
<1>3. CASE JoinNothing
  BY <1>3 DEF JoinNothing, TypeInv, PipelineTypeOK, Numbered, HasRoom
<1>4. CASE UNCHANGED pipelineVars
  BY <1>4 DEF pipelineVars, TypeInv, PipelineTypeOK, Numbered, HasRoom
<1> QED
  BY <1>1, <1>2, <1>3, <1>4, PublishKeepsTypes, SendKeepsTypes, WriteKeepsTypes,
     SourceKeepsTypes DEF PipelineNext, SourceStep

(* Every variable keeps its range; in particular no datagram is sent whose *)
(* length wrapped below zero, in whichever layer.                          *)
THEOREM PipelineTypes == PipelineSpec => []PipelineTypeOK
<1>1. TypeInv => PipelineTypeOK
  BY DEF TypeInv
<1> QED BY <1>1, TypeInvInit, TypeInvNext, PTL DEF PipelineSpec

-----------------------------------------------------------------------------
(* The chain from the decoder to the source's output.                      *)

Ordered(s) == \A i, j \in 1..Len(s) : i < j => s[i].frame < s[j].frame

Chain ==
    /\ \A i \in 1..Len(net) : net[i].frame \in 1..handled
    /\ \A i \in 1..Len(out) : out[i].frame \in 1..handled
    /\ Ordered(net)
    /\ Ordered(out)
    /\ \A i \in 1..Len(out), j \in 1..Len(net) : out[i].frame < net[j].frame

LEMMA SendKeepsChain ==
    ASSUME TypeInv, Chain, SendDatagram
    PROVE  Chain'
<1> DEFINE d == DatagramOf(NextMessage)
<1>1. MessageWaits
  BY DEF SendDatagram
<1>2. d \in Datagram /\ d.frame = handled + 1
  BY <1>1, NextMessageIsTyped, DatagramIsTyped DEF TypeInv, PipelineTypeOK
<1>3. /\ net \in Seq(Datagram) /\ out \in Seq(Datagram) /\ handled \in Nat
      /\ Len(net) \in Nat /\ Len(out) \in Nat
  BY LenProperties DEF TypeInv, PipelineTypeOK
<1>4. /\ handled' = handled + 1 /\ out' = out
      /\ net' = Append(net, d) \/ net' = net
  BY SendCases DEF SendDatagram
<1> HIDE DEF d
<1>5. CASE net' = net
  BY <1>3, <1>4, <1>5 DEF Chain, Ordered
<1>6. CASE net' = Append(net, d)
  <2>1. /\ Len(net') = Len(net) + 1 /\ net'[Len(net) + 1] = d
        /\ \A i \in 1..Len(net) : net'[i] = net[i]
    BY <1>2, <1>3, <1>6, AppendProperties
  <2>2. \A i \in 1..Len(net') : net'[i].frame \in 1..handled'
    BY <1>2, <1>3, <1>4, <2>1 DEF Chain
  <2>3. \A i \in 1..Len(out') : out'[i].frame \in 1..handled'
    BY <1>3, <1>4 DEF Chain
  <2>4. Ordered(net')
    <3> SUFFICES ASSUME NEW i \in 1..Len(net'), NEW j \in 1..Len(net'), i < j
                 PROVE  net'[i].frame < net'[j].frame
      BY DEF Ordered
    <3>1. i \in 1..Len(net) /\ net'[i] = net[i] /\ net[i].frame \in 1..handled
      BY <1>3, <2>1 DEF Chain
    <3>2. CASE j = Len(net) + 1
      BY <1>2, <1>3, <2>1, <3>1, <3>2
    <3>3. CASE j # Len(net) + 1
      <4>1. j \in 1..Len(net) /\ net'[j] = net[j]
        BY <1>3, <2>1, <3>3
      <4> QED BY <3>1, <4>1 DEF Chain, Ordered
    <3> QED BY <3>2, <3>3
  <2>5. Ordered(out')
    BY <1>4 DEF Chain, Ordered
  <2>6. \A i \in 1..Len(out'), j \in 1..Len(net') : out'[i].frame < net'[j].frame
    <3> SUFFICES ASSUME NEW i \in 1..Len(out'), NEW j \in 1..Len(net')
                 PROVE  out'[i].frame < net'[j].frame
      OBVIOUS
    <3>1. i \in 1..Len(out) /\ out'[i] = out[i] /\ out[i].frame \in 1..handled
      BY <1>4 DEF Chain
    <3>2. j = Len(net) + 1 \/ (j \in 1..Len(net) /\ net'[j] = net[j])
      BY <1>3, <2>1
    <3>3. CASE j = Len(net) + 1
      BY <1>2, <1>3, <2>1, <3>1, <3>3
    <3>4. CASE j \in 1..Len(net) /\ net'[j] = net[j]
      BY <3>1, <3>4 DEF Chain
    <3> QED BY <3>2, <3>3, <3>4
  <2> QED BY <2>2, <2>3, <2>4, <2>5, <2>6 DEF Chain
<1> QED BY <1>4, <1>5, <1>6

LEMMA SourceKeepsChain ==
    ASSUME TypeInv, Chain, SourceStep
    PROVE  Chain'
<1>1. /\ net # <<>> /\ net' = Tail(net) /\ handled' = handled
      /\ out' = out \/ out' = Append(out, Received(Head(net)))
  BY DEF SourceStep, RecvfromRefused, RecvfromEmpty, RecvfromPublish, sinkVars
<1> DEFINE r == Received(Head(net))
<1>2. /\ Len(net) \in Nat /\ Len(out) \in Nat /\ handled \in Nat
      /\ net \in Seq(Datagram) /\ out \in Seq(Datagram)
  BY LenProperties DEF TypeInv, PipelineTypeOK
<1>3. /\ Len(net') = Len(net) - 1
      /\ \A i \in 1..Len(net') : net'[i] = net[i + 1] /\ i + 1 \in 1..Len(net)
      /\ 1 \in 1..Len(net)
  BY <1>1, <1>2, TakeIsTyped
<1>4. r \in Datagram /\ r.frame = net[1].frame
  BY <1>1, TakeIsTyped, ReceivedIsTyped
<1> HIDE DEF r
<1>5. /\ \A i \in 1..Len(net') : net'[i].frame \in 1..handled'
      /\ Ordered(net')
      /\ \A j \in 1..Len(net') : net[1].frame < net'[j].frame
  BY <1>1, <1>2, <1>3 DEF Chain, Ordered
<1>6. CASE out' = out
  BY <1>1, <1>2, <1>3, <1>5, <1>6 DEF Chain, Ordered
<1>7. CASE out' = Append(out, r)
  <2>1. /\ Len(out') = Len(out) + 1 /\ out'[Len(out) + 1] = r
        /\ \A i \in 1..Len(out) : out'[i] = out[i]
    BY <1>2, <1>4, <1>7, AppendProperties
  <2>2. \A i \in 1..Len(out) : out[i].frame < net[1].frame
    BY <1>3 DEF Chain
  <2>3. \A i \in 1..Len(out') : out'[i].frame \in 1..handled'
    <3> SUFFICES ASSUME NEW i \in 1..Len(out')
                 PROVE  out'[i].frame \in 1..handled
      BY <1>1
    <3>1. CASE i = Len(out) + 1
      BY <1>3, <1>4, <2>1, <3>1 DEF Chain
    <3>2. CASE i # Len(out) + 1
      BY <1>2, <2>1, <3>2 DEF Chain
    <3> QED BY <3>1, <3>2
  <2>4. Ordered(out')
    <3> SUFFICES ASSUME NEW i \in 1..Len(out'), NEW j \in 1..Len(out'), i < j
                 PROVE  out'[i].frame < out'[j].frame
      BY DEF Ordered
    <3>1. i \in 1..Len(out) /\ out'[i] = out[i]
      BY <1>2, <2>1
    <3>2. CASE j = Len(out) + 1
      BY <1>4, <2>1, <2>2, <3>1, <3>2
    <3>3. CASE j # Len(out) + 1
      <4>1. j \in 1..Len(out) /\ out'[j] = out[j]
        BY <1>2, <2>1, <3>3
      <4> QED BY <3>1, <4>1 DEF Chain, Ordered
    <3> QED BY <3>2, <3>3
  <2>5. \A i \in 1..Len(out'), j \in 1..Len(net') : out'[i].frame < net'[j].frame
    <3> SUFFICES ASSUME NEW i \in 1..Len(out'), NEW j \in 1..Len(net')
                 PROVE  out'[i].frame < net'[j].frame
      OBVIOUS
    <3>1. CASE i = Len(out) + 1
      BY <1>4, <1>5, <2>1, <3>1
    <3>2. CASE i # Len(out) + 1
      <4>1. i \in 1..Len(out) /\ out'[i] = out[i]
        BY <1>2, <2>1, <3>2
      <4> QED BY <1>3, <4>1 DEF Chain
    <3> QED BY <3>1, <3>2
  <2> QED BY <1>5, <2>3, <2>4, <2>5 DEF Chain
<1> QED BY <1>1, <1>6, <1>7 DEF r

(* No other step touches the chain.                                        *)
LEMMA OthersKeepChain ==
    ASSUME [PipelineNext]_pipelineVars, ~ SendDatagram, ~ SourceStep
    PROVE  UNCHANGED <<net, out, handled, dropped>>
BY DEF PipelineNext, SourceStep, Search, msg_lora_frame, Stop, SendDatagramFails,
       WriteRecord, ClearRunning, JoinNothing, pipelineVars, sinkVars, sourceVars

LEMMA ChainNext ==
    ASSUME TypeInv, Chain, [PipelineNext]_pipelineVars
    PROVE  Chain'
<1>1. CASE UNCHANGED <<net, out, handled, dropped>>
  BY <1>1 DEF Chain, Ordered
<1> QED BY <1>1, SendKeepsChain, SourceKeepsChain, OthersKeepChain

LEMMA ChainInit == PipelineInit => Chain
BY EmptySeq DEF PipelineInit, Chain, Ordered

THEOREM ChainHolds == PipelineSpec => [](TypeInv /\ Chain)
<1>1. PipelineInit => TypeInv /\ Chain
  BY TypeInvInit, ChainInit
<1>2. TypeInv /\ Chain /\ [PipelineNext]_pipelineVars => (TypeInv /\ Chain)'
  BY TypeInvNext, ChainNext
<1> QED BY <1>1, <1>2, PTL DEF PipelineSpec

-----------------------------------------------------------------------------
(* The refinement.                                                         *)

LEMMA NumbersOfDatagrams ==
    ASSUME NEW s \in Seq(Datagram)
    PROVE  LET n == [i \in 1..Len(s) |-> s[i].frame]
           IN  /\ n \in Seq(Nat)
               /\ Len(n) = Len(s)
               /\ \A i \in 1..Len(s) : n[i] = s[i].frame
<1> DEFINE n == [i \in 1..Len(s) |-> s[i].frame]
<1>1. Len(s) \in Nat
  BY LenProperties
<1>2. \A i \in 1..Len(s) : s[i].frame \in Nat
  <2>1. \A d \in Datagram : d.frame \in Nat
    BY DEF Datagram
  <2> QED BY <2>1, ElementOfSeq
<1>3. n \in [1..Len(s) -> Nat] /\ DOMAIN n = 1..Len(s)
  BY <1>2
<1>4. n \in Seq(Nat)
  BY <1>1, <1>3, SeqDef
<1>5. Len(n) = Len(s)
  BY <1>1, <1>3, <1>4, LenProperties
<1> QED BY <1>4, <1>5

LEMMA NumbersOfOut ==
    ASSUME TypeInv
    PROVE  /\ Numbers \in Seq(Nat)
           /\ Len(Numbers) = Len(out)
           /\ \A i \in 1..Len(out) : Numbers[i] = out[i].frame
BY NumbersOfDatagrams DEF TypeInv, PipelineTypeOK, Numbers

LEMMA PublishSends ==
    ASSUME TypeInv, msg_lora_frame
    PROVE  D!Send
<1>1. PICK m \in Message : published' = Append(published, m)
  <2>1. PICK p \in PayloadLengths, crc \in 0..1 :
           LET m == [frame |-> Len(published) + 1, payload |-> p,
                     has_mac_crc |-> crc]
           IN  HasRoom(m) /\ published' = Append(published, m)
    BY DEF msg_lora_frame
  <2> DEFINE m == [frame |-> Len(published) + 1, payload |-> p,
                   has_mac_crc |-> crc]
  <2>2. Len(published) \in Nat
    BY LenProperties DEF TypeInv, PipelineTypeOK
  <2>3. m \in Message
    BY <2>2 DEF Message
  <2> QED BY <2>1, <2>3
<1>2. Len(published') = Len(published) + 1
  BY <1>1, AppendProperties DEF TypeInv, PipelineTypeOK
<1>3. Numbers' = Numbers
  BY DEF msg_lora_frame, sourceVars, Numbers
<1> QED BY <1>2, <1>3 DEF D!Send

LEMMA SourceReceives ==
    ASSUME TypeInv, Chain, RecvfromPublish, TypeInv'
    PROVE  D!Receive
<1> DEFINE r == Received(Head(net))
           f == net[1].frame
<1>1. /\ net # <<>> /\ out' = Append(out, r) /\ published' = published
      /\ out \in Seq(Datagram) /\ Len(out) \in Nat
      /\ handled \in Nat /\ Len(published) \in Nat /\ handled <= Len(published)
  BY LenProperties DEF RecvfromPublish, TypeInv, PipelineTypeOK
<1>2. r \in Datagram /\ r.frame = f /\ 1 \in 1..Len(net)
  BY <1>1, TakeIsTyped, ReceivedIsTyped
<1>3. f \in 1..Len(published)
  BY <1>1, <1>2 DEF Chain
<1> HIDE DEF r, f
<1>4. /\ Len(out') = Len(out) + 1 /\ out'[Len(out) + 1] = r
      /\ \A i \in 1..Len(out) : out'[i] = out[i]
  BY <1>1, <1>2, AppendProperties
<1>5. \A i \in 1..Len(Numbers) : Numbers[i] < f
  BY <1>2, NumbersOfOut DEF Chain, f
<1>6. Numbers' = Append(Numbers, f)
  <2>1. /\ Numbers' \in Seq(Nat) /\ Len(Numbers') = Len(out) + 1
        /\ \A i \in 1..(Len(out) + 1) : Numbers'[i] = out'[i].frame
    <3>1. /\ Numbers' \in Seq(Nat)
          /\ Len(Numbers') = Len(out')
          /\ \A i \in 1..Len(out') : Numbers'[i] = out'[i].frame
      BY NumbersOfDatagrams DEF TypeInv, PipelineTypeOK, Numbers
    <3> QED BY <1>4, <3>1
  <2>2. /\ Append(Numbers, f) \in Seq(Nat)
        /\ Len(Append(Numbers, f)) = Len(out) + 1
        /\ Append(Numbers, f)[Len(out) + 1] = f
        /\ \A i \in 1..Len(out) : Append(Numbers, f)[i] = out[i].frame
    BY <1>3, NumbersOfOut, AppendProperties
  <2>3. \A i \in 1..(Len(out) + 1) : Numbers'[i] = Append(Numbers, f)[i]
    <3> TAKE i \in 1..(Len(out) + 1)
    <3>1. CASE i = Len(out) + 1
      BY <1>2, <1>4, <2>1, <2>2, <3>1
    <3>2. CASE i # Len(out) + 1
      <4>1. i \in 1..Len(out)
        BY <1>1, <3>2
      <4> QED BY <1>4, <2>1, <2>2, <4>1
    <3> QED BY <3>1, <3>2
  <2> QED BY <2>1, <2>2, <2>3, SeqEqual
<1> QED BY <1>1, <1>3, <1>5, <1>6 DEF D!Receive

LEMMA OthersStutter ==
    ASSUME [PipelineNext]_pipelineVars, ~ msg_lora_frame, ~ RecvfromPublish
    PROVE  UNCHANGED <<published, out>>
BY DEF PipelineNext, Search, Stop, SendDatagram, SendDatagramFails, WriteRecord,
       RecvfromRefused, RecvfromEmpty, ClearRunning, JoinNothing, pipelineVars,
       sinkVars, sourceVars, fileVars

(* From the decoder's port to the source's, over two processes: frames may *)
(* be missing, but what arrives was sent, in its order and once.           *)
THEOREM PipelineDelivers == PipelineSpec => ImplementsDelivery
<1>1. PipelineInit => D!DeliveryInit
  BY EmptySeq DEF PipelineInit, D!DeliveryInit, Numbers
<1>2. /\ TypeInv /\ Chain /\ [PipelineNext]_pipelineVars /\ TypeInv'
      => [D!DeliveryNext]_(D!deliveryVars)
  <2> SUFFICES ASSUME TypeInv, Chain, [PipelineNext]_pipelineVars, TypeInv'
               PROVE  [D!DeliveryNext]_(D!deliveryVars)
    OBVIOUS
  <2>1. CASE msg_lora_frame
    BY <2>1, PublishSends DEF D!DeliveryNext
  <2>2. CASE RecvfromPublish
    BY <2>2, SourceReceives DEF D!DeliveryNext
  <2>3. CASE UNCHANGED <<published, out>>
    BY <2>3 DEF D!deliveryVars, Numbers
  <2> QED BY <2>1, <2>2, <2>3, OthersStutter
<1> QED
  BY <1>1, <1>2, ChainHolds, PTL DEF PipelineSpec, ImplementsDelivery, D!DeliverySpec

-----------------------------------------------------------------------------
(* The file.                                                               *)

(* A file whose stream is good has every frame the sink handled.           *)
FileInv ==
    /\ \A i \in 1..Len(file) : file[i] = i
    /\ Len(file) <= written
    /\ d_file_good => Len(file) = written

LEMMA WriteKeepsFile ==
    ASSUME TypeInv, FileInv, WriteRecord
    PROVE  FileInv'
<1>1. /\ written \in Nat /\ file \in Seq(Nat) /\ Len(file) \in Nat
      /\ written + 1 \in 1..Len(published)
  BY LenProperties DEF TypeInv, PipelineTypeOK, WriteRecord, RecordWaits
<1>2. /\ written' = written + 1
      /\ \/ d_file_good /\ file' = Append(file, written + 1) /\ d_file_good' = d_file_good
         \/ file' = file /\ d_file_good' = FALSE
  BY <1>1 DEF WriteRecord, TypeInv, Numbered
<1>3. CASE d_file_good /\ file' = Append(file, written + 1) /\ d_file_good' = d_file_good
  <2>1. /\ Len(file') = Len(file) + 1 /\ file'[Len(file) + 1] = written + 1
        /\ \A i \in 1..Len(file) : file'[i] = file[i]
    BY <1>1, <1>3, AppendProperties
  <2>2. Len(file) = written
    BY <1>3 DEF FileInv
  <2>3. \A i \in 1..Len(file') : file'[i] = i
    BY <1>1, <2>1, <2>2 DEF FileInv
  <2> QED BY <1>2, <2>1, <2>2, <2>3 DEF FileInv
<1>4. CASE file' = file /\ d_file_good' = FALSE
  BY <1>1, <1>2, <1>4 DEF FileInv
<1> QED BY <1>2, <1>3, <1>4

(* Once a write failed, none after it leaves a record: the file is what    *)
(* was published up to there.                                              *)
THEOREM FileHasNoGap == PipelineSpec => []NoGapInFile
<1>1. PipelineInit => FileInv
  BY DEF PipelineInit, FileInv
<1>2. TypeInv /\ FileInv /\ [PipelineNext]_pipelineVars => FileInv'
  <2> SUFFICES ASSUME TypeInv, FileInv, [PipelineNext]_pipelineVars
               PROVE  FileInv'
    OBVIOUS
  <2>1. CASE ~ WriteRecord
    <3>1. UNCHANGED <<file, written, d_file_good>>
      BY <2>1 DEF PipelineNext, Search, msg_lora_frame, Stop, SendDatagram,
                  SendDatagramFails, RecvfromRefused, RecvfromEmpty,
                  RecvfromPublish, ClearRunning, JoinNothing, pipelineVars, fileVars
    <3> QED BY <3>1 DEF FileInv
  <2> QED BY <2>1, WriteKeepsFile
<1>3. TypeInv /\ FileInv => NoGapInFile
  <2> SUFFICES ASSUME TypeInv, FileInv
               PROVE  NoGapInFile
    OBVIOUS
  <2>1. file \in [1..Len(file) -> Nat]
    BY LenProperties DEF TypeInv, PipelineTypeOK
  <2> QED BY <2>1 DEF FileInv, NoGapInFile
<1> QED BY <1>1, <1>2, <1>3, ChainHolds, PTL DEF PipelineSpec

-----------------------------------------------------------------------------
(* The end of the source.                                                  *)

EmptyPayloadSent ==
    /\ layer = "LORAMAC"
    /\ \E i \in 1..handled :
          published[i].payload = MAC_CRC_SIZE * published[i].has_mac_crc

(* A datagram of no bytes on its way came of an empty payload.             *)
EmptyInv ==
    /\ \A i \in 1..Len(net) : net[i].length = 0 => EmptyPayloadSent
    /\ EndedOnlyByEmptyPayload

LEMMA EmptyPayloadStays ==
    ASSUME TypeInv, [PipelineNext]_pipelineVars, EmptyPayloadSent
    PROVE  EmptyPayloadSent'
<1>1. handled \in Nat /\ handled <= Len(published) /\ Len(published) \in Nat
      /\ published \in Seq(Message)
  BY LenProperties DEF TypeInv, PipelineTypeOK
<1>2. handled' \in {handled, handled + 1} /\ layer' = layer
  BY DEF PipelineNext, Search, msg_lora_frame, Stop, SendDatagram,
         SendDatagramFails, WriteRecord, RecvfromRefused, RecvfromEmpty,
         RecvfromPublish, ClearRunning, JoinNothing, pipelineVars, sinkVars
<1>3. \A i \in 1..handled : published'[i] = published[i]
  <2>1. published' = published \/ \E m \in Message : published' = Append(published, m)
    <3>1. CASE msg_lora_frame
      <4>1. PICK p \in PayloadLengths, crc \in 0..1 :
               LET m == [frame |-> Len(published) + 1, payload |-> p,
                         has_mac_crc |-> crc]
               IN  HasRoom(m) /\ published' = Append(published, m)
        BY <3>1 DEF msg_lora_frame
      <4> DEFINE m == [frame |-> Len(published) + 1, payload |-> p,
                       has_mac_crc |-> crc]
      <4>2. m \in Message
        BY <1>1 DEF Message
      <4> QED BY <4>1, <4>2
    <3>2. CASE ~ msg_lora_frame
      BY <3>2 DEF PipelineNext, Search, Stop, SendDatagram,
             SendDatagramFails, WriteRecord, RecvfromRefused, RecvfromEmpty,
             RecvfromPublish, ClearRunning, JoinNothing, pipelineVars
    <3> QED BY <3>1, <3>2
  <2> QED BY <1>1, <2>1, AppendProperties
<1> QED BY <1>1, <1>2, <1>3 DEF EmptyPayloadSent

LEMMA EmptyNext ==
    ASSUME TypeInv, EmptyInv, [PipelineNext]_pipelineVars
    PROVE  EmptyInv'
<1>1. EmptyPayloadSent => EmptyPayloadSent'
  BY EmptyPayloadStays
<1>2. source = "failed" => client_addr_len = "unset" \/ EmptyPayloadSent
  BY DEF EmptyInv, EndedOnlyByEmptyPayload, EmptyPayloadSent
<1>3. SUFFICES /\ \A i \in 1..Len(net') : net'[i].length = 0 => EmptyPayloadSent'
               /\ source' = "failed" =>
                     client_addr_len' = "unset" \/ EmptyPayloadSent'
  BY DEF EmptyInv, EndedOnlyByEmptyPayload, EmptyPayloadSent
<1>4. CASE SendDatagram
  <2> DEFINE d == DatagramOf(NextMessage)
  <2>1. MessageWaits /\ source' = source /\ client_addr_len' = client_addr_len
        /\ published' = published /\ layer' = layer
    BY <1>4 DEF SendDatagram
  <2>2. /\ NextMessage \in Message /\ HasRoom(NextMessage) /\ d \in Datagram
        /\ d.length = 0 => layer = "LORAMAC" /\
              NextMessage.payload = MAC_CRC_SIZE * NextMessage.has_mac_crc
        /\ handled \in Nat
    BY <2>1, NextMessageIsTyped, DatagramIsTyped DEF TypeInv, PipelineTypeOK
  <2>3. d.length = 0 => EmptyPayloadSent'
    <3>1. handled' = handled + 1
      BY <1>4, SendCases
    <3> QED BY <2>1, <2>2, <3>1 DEF EmptyPayloadSent, NextMessage
  <2>4. net' = Append(net, d) \/ net' = net
    BY <1>4, SendCases
  <2>5. net \in Seq(Datagram) /\ Len(net) \in Nat
    BY LenProperties DEF TypeInv, PipelineTypeOK
  <2> HIDE DEF d
  <2>6. \A i \in 1..Len(net') : net'[i] = d \/ (i \in 1..Len(net) /\ net'[i] = net[i])
    BY <2>2, <2>4, <2>5, AppendProperties
  <2> QED BY <1>1, <1>2, <2>1, <2>3, <2>6 DEF EmptyInv
<1>5. CASE SourceStep
  <2>1. net # <<>> /\ net' = Tail(net)
    BY <1>5 DEF SourceStep, RecvfromRefused, RecvfromEmpty, RecvfromPublish
  <2>2. \A i \in 1..Len(net') : net'[i].length = 0 => EmptyPayloadSent'
    <3> TAKE i \in 1..Len(net')
    <3>1. net'[i] = net[i + 1] /\ i + 1 \in 1..Len(net)
      BY <2>1, TakeIsTyped
    <3> QED BY <1>1, <3>1 DEF EmptyInv
  <2>3. Head(net).length = 0 => EmptyPayloadSent'
    BY <1>1, <2>1, TakeIsTyped DEF EmptyInv
  <2>4. source' = "failed" => client_addr_len' = "unset" \/ EmptyPayloadSent'
    BY <1>5, <2>3 DEF SourceStep, RecvfromRefused, RecvfromEmpty, RecvfromPublish,
                      AfterDatagram, Alive
  <2> QED BY <2>2, <2>4
<1>6. CASE ~ SendDatagram /\ ~ SourceStep
  <2>1. net' = net
    BY <1>6, OthersKeepChain
  <2>2. source' = "failed" => source = "failed" /\ client_addr_len' = client_addr_len
    BY <1>6 DEF PipelineNext, SourceStep, Search, msg_lora_frame, Stop,
         SendDatagramFails, WriteRecord, ClearRunning, JoinNothing, pipelineVars,
         sourceVars
  <2> QED BY <1>1, <1>2, <2>1, <2>2 DEF EmptyInv
<1> QED BY <1>4, <1>5, <1>6

(* No frame but an empty payload, sent without its headers, ends the       *)
(* process that listens.                                                   *)
THEOREM SourceEndedByEmptyPayload == PipelineSpec => []EndedOnlyByEmptyPayload
<1>1. PipelineInit => EmptyInv
  BY EmptySeq DEF PipelineInit, EmptyInv, EndedOnlyByEmptyPayload
<1>2. EmptyInv => EndedOnlyByEmptyPayload
  BY DEF EmptyInv
<1> QED BY <1>1, <1>2, EmptyNext, ChainHolds, PTL DEF PipelineSpec

(* While the thread lives on after the flag was cleared, it has published  *)
(* nothing since.                                                          *)
EndInv ==
    /\ source = "receiving" => d_running
    /\ ~ d_running /\ Alive => Len(out) = outAtEnd
    /\ AtMostOneMore

LEMMA EndNext ==
    ASSUME TypeInv, EndInv, [PipelineNext]_pipelineVars
    PROVE  EndInv'
<1>1. Len(out) \in Nat /\ outAtEnd \in Nat /\ d_running \in BOOLEAN
      /\ out \in Seq(Datagram)
  BY LenProperties DEF TypeInv, PipelineTypeOK
<1>2. CASE RecvfromPublish
  <2>1. Received(Head(net)) \in Datagram
    BY <1>2, TakeIsTyped, ReceivedIsTyped DEF RecvfromPublish
  <2>2. Len(out') = Len(out) + 1
    BY <1>1, <1>2, <2>1, AppendProperties DEF RecvfromPublish
  <2> QED
    BY <1>1, <1>2, <2>2
    DEF RecvfromPublish, AfterDatagram, EndInv, AtMostOneMore, Alive
<1>3. CASE ClearRunning
  BY <1>1, <1>3 DEF ClearRunning, EndInv, AtMostOneMore, Alive
<1>4. CASE ~ RecvfromPublish /\ ~ ClearRunning
  <2>1. /\ UNCHANGED <<out, d_running, outAtEnd>>
        /\ source' = source \/ (source' \in {"failed", "crashed"})
    BY <1>4 DEF PipelineNext, Search, msg_lora_frame, Stop, SendDatagram,
         SendDatagramFails, WriteRecord, RecvfromRefused, RecvfromEmpty,
         JoinNothing, pipelineVars, sourceVars
  <2> QED BY <2>1 DEF EndInv, AtMostOneMore, Alive
<1> QED BY <1>2, <1>3, <1>4

(* The destructor lets at most one more message through.                   *)
THEOREM SourceEnds == PipelineSpec => []AtMostOneMore
<1>1. PipelineInit => EndInv
  BY DEF PipelineInit, EndInv, AtMostOneMore
<1>2. EndInv => AtMostOneMore
  BY DEF EndInv
<1> QED BY <1>1, <1>2, EndNext, ChainHolds, PTL DEF PipelineSpec

-----------------------------------------------------------------------------
(* The account.                                                            *)

CountInv ==
    /\ IsFiniteSet(dropped)
    /\ \A f \in dropped : f <= handled
    /\ NothingVanishes

LEMMA CountNext ==
    ASSUME TypeInv, CountInv, [PipelineNext]_pipelineVars
    PROVE  CountInv'
<1>1. /\ handled \in Nat /\ Len(net) \in Nat /\ Len(out) \in Nat
      /\ net \in Seq(Datagram) /\ out \in Seq(Datagram)
      /\ dropped \in SUBSET Nat
  BY LenProperties DEF TypeInv, PipelineTypeOK
<1>2. CASE SendDatagram
  <2> DEFINE d == DatagramOf(NextMessage)
  <2>1. MessageWaits /\ source' = source /\ out' = out
    BY <1>2 DEF SendDatagram
  <2>2. d \in Datagram
    BY <2>1, NextMessageIsTyped, DatagramIsTyped DEF TypeInv, PipelineTypeOK
  <2>3. CASE net' = Append(net, d) /\ dropped' = dropped
    <3>1. Len(net') = Len(net) + 1 /\ handled' = handled + 1
      BY <1>1, <1>2, <2>2, <2>3, AppendProperties, SendCases
    <3>2. Cardinality(dropped) \in Nat
      BY FS_CardinalityType DEF CountInv
    <3> QED
      BY <1>1, <2>1, <2>3, <3>1, <3>2 DEF CountInv, NothingVanishes, Alive
  <2>4. CASE net' = net /\ dropped' = dropped \cup {handled + 1}
    <3>1. handled' = handled + 1 /\ handled + 1 \notin dropped
      BY <1>1, <1>2, SendCases DEF CountInv
    <3>2. /\ IsFiniteSet(dropped')
          /\ Cardinality(dropped') = Cardinality(dropped) + 1
      BY <2>4, <3>1, FS_AddElement DEF CountInv
    <3>3. Cardinality(dropped) \in Nat
      BY FS_CardinalityType DEF CountInv
    <3>4. \A f \in dropped' : f <= handled'
      BY <1>1, <2>4, <3>1 DEF CountInv
    <3>5. NothingVanishes'
      BY <1>1, <2>1, <2>4, <3>1, <3>2, <3>3 DEF CountInv, NothingVanishes, Alive
    <3> QED BY <3>2, <3>4, <3>5 DEF CountInv
  <2> QED BY <1>2, <2>3, <2>4, SendCases
<1>3. CASE SourceStep
  <2>1. dropped' = dropped /\ handled' = handled /\ net # <<>> /\ net' = Tail(net)
    BY <1>3 DEF SourceStep, RecvfromRefused, RecvfromEmpty, RecvfromPublish, sinkVars
  <2>2. Len(net') = Len(net) - 1
    BY <2>1, TakeIsTyped
  <2>3. CASE RecvfromPublish
    <3>1. Received(Head(net)) \in Datagram
      BY <2>1, TakeIsTyped, ReceivedIsTyped
    <3>2. Len(out') = Len(out) + 1
      BY <1>1, <2>3, <3>1, AppendProperties DEF RecvfromPublish
    <3>3. Alive
      BY <2>3 DEF RecvfromPublish
    <3> QED BY <1>1, <2>1, <2>2, <3>2, <3>3 DEF CountInv, NothingVanishes
  <2>4. CASE ~ RecvfromPublish
    <3>1. ~ Alive'
      BY <1>3, <2>4 DEF SourceStep, RecvfromRefused, RecvfromEmpty, Alive
    <3> QED BY <2>1, <3>1 DEF CountInv, NothingVanishes
  <2> QED BY <2>3, <2>4
<1>4. CASE ~ SendDatagram /\ ~ SourceStep
  <2>1. UNCHANGED <<net, out, handled, dropped>>
    BY <1>4, OthersKeepChain
  <2>2. Alive' => Alive
    BY <1>4 DEF PipelineNext, SourceStep, Search, msg_lora_frame, Stop,
         SendDatagramFails, WriteRecord, ClearRunning, JoinNothing, pipelineVars,
         sourceVars, Alive
  <2> QED BY <2>1, <2>2 DEF CountInv, NothingVanishes
<1> QED BY <1>2, <1>3, <1>4

(* Every message the sink handled is published, waits, or was dropped.     *)
THEOREM AllAccountedFor == PipelineSpec => []NothingVanishes
<1>1. PipelineInit => CountInv
  BY FS_EmptySet DEF PipelineInit, CountInv, NothingVanishes
<1>2. CountInv => NothingVanishes
  BY DEF CountInv
<1> QED BY <1>1, <1>2, CountNext, ChainHolds, PTL DEF PipelineSpec

-----------------------------------------------------------------------------
(* The decoder within the pipeline is still FrameReceiver: its consumers   *)
(* do not hold it back, and its frames keep their order.                   *)
THEOREM PipelineKeepsOrder == PipelineSpec => Spec /\ []InOrderOnce
<1>1. PipelineInit => Init
  BY DEF PipelineInit
<1>2. [PipelineNext]_pipelineVars => [Next]_vars
  BY DEF PipelineNext, Search, msg_lora_frame, Stop, SendDatagram,
         SendDatagramFails, WriteRecord, RecvfromRefused, RecvfromEmpty,
         RecvfromPublish, ClearRunning, JoinNothing, pipelineVars, Next
<1>3. Spec => []InOrderOnce
  BY DeliveredInOrderOnce
<1> QED BY <1>1, <1>2, <1>3, PTL DEF PipelineSpec, Spec
=============================================================================
