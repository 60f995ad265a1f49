--------------------------- MODULE FramePipeline ---------------------------
(***************************************************************************)
(* The way of a frame from the decoder's port "frames" to the blocks that  *)
(* are connected to it: the file sink, and the socket sink, whose          *)
(* datagrams the socket source of another process turns into messages      *)
(* again.  The decoder is FrameReceiver, which LoraDecoder implements.     *)
(*                                                                         *)
(* Each block has a thread: the decoder publishes, each sink handles one   *)
(* message at a time from an inbox of its own, the source's thread sits in *)
(* recvfrom().  GNU Radio calls the handlers in the order of the messages, *)
(* and loses what is in the inboxes when the flowgraph ends.  A datagram   *)
(* over the loopback interface keeps its place; it is lost when the        *)
(* source's receive buffer is full or nobody is bound to the port.         *)
(***************************************************************************)
EXTENDS FrameReceiver, FiniteSets

CONSTANTS
    Layers,         \* the layers a socket sink may be made for
    PayloadLengths, \* the lengths of payloads, in bytes
    ReceiveBuffer,  \* datagrams the kernel keeps for the source
    MaxDatagram,    \* the longest datagram the kernel takes
    MaxReceptions   \* how many signals arrive (the bound)

LayerNames == {"LORATAP", "LORAPHY", "LORAMAC"}

ASSUME LayersAssumption == Layers \subseteq LayerNames
ASSUME LengthsAssumption ==
    /\ PayloadLengths \subseteq Nat
    /\ ReceiveBuffer \in Nat
    /\ MaxDatagram \in Nat
    /\ MaxReceptions \in Nat

MAC_CRC_SIZE == 2
RECEIVE_BUFFER_SIZE == 1500
loratap_header_t == 15      \* sizeof
loraphy_header_t == 3       \* sizeof

VARIABLES
    layer,          \* d_layer of the socket sink; never changes
    published,      \* the decoder's messages so far
    receiver,       \* the decoder's process: "running", "stopped", "exited"
    handled,        \* how many messages the socket sink handled
    dropped,        \* the frames of the datagrams the kernel dropped
    net,            \* the datagrams in the source's receive buffer
    out,            \* what the source published
    source,         \* the source's process: "receiving", or how it ended
    client_addr_len,\* "unset" until recvfrom() wrote it
    d_running,
    outAtEnd,       \* how much was published when d_running was cleared
    written,        \* how many messages the file sink handled
    file,           \* the frames of the whole records in the file
    d_file_good     \* no operation on d_file has failed

sinkVars == <<handled, dropped>>
sourceVars == <<net, out, source, client_addr_len, d_running, outAtEnd>>
fileVars == <<written, file, d_file_good>>
pipelineVars == <<vars, layer, published, receiver, sinkVars, sourceVars, fileVars>>

(* A message: the frame it is, d_payload_length, and the header's flag.    *)
Message == [frame : Nat \ {0}, payload : PayloadLengths, has_mac_crc : 0..1]

(* Variation: the length on the air is the payload's with its checksum.    *)
HasRoomAlways(m) == TRUE

(* There is room for a checksum that is announced: MacFits in LoraDecoder. *)
HasRoom(m) == m.payload >= MAC_CRC_SIZE * m.has_mac_crc

(* A datagram: bytes length of the frame's message, from the offset on.    *)
Datagram == [frame : Nat \ {0}, from : Nat, length : Nat]

PipelineInit ==
    /\ Init
    /\ layer \in Layers
    /\ published = <<>>
    /\ receiver = "running"
    /\ handled = 0
    /\ dropped = {}
    /\ net = <<>>
    /\ out = <<>>
    /\ source = "receiving"
    /\ client_addr_len = "unset"
    /\ d_running = TRUE
    /\ outAtEnd = 0
    /\ written = 0
    /\ file = <<>>
    /\ d_file_good \in BOOLEAN      \* open() may fail; nobody looks

-----------------------------------------------------------------------------
(* The decoder.                                                            *)

Search ==
    /\ receiver = "running"
    /\ (reception < MaxReceptions /\ Acquire) \/ Lose \/ Lock
    /\ UNCHANGED <<layer, published, receiver, sinkVars, sourceVars, fileVars>>

msg_lora_frame ==
    /\ receiver = "running"
    /\ Deliver
    /\ \E p \in PayloadLengths, crc \in 0..1 :
          LET m == [frame |-> Len(published) + 1, payload |-> p,
                    has_mac_crc |-> crc]
          IN  HasRoom(m) /\ published' = Append(published, m)
    /\ UNCHANGED <<layer, receiver, sinkVars, sourceVars, fileVars>>

(* The flowgraph is stopped, or the samples have come to their end.        *)
Stop ==
    /\ receiver = "running"
    /\ receiver' = "stopped"
    /\ UNCHANGED <<vars, layer, published, sinkVars, sourceVars, fileVars>>

-----------------------------------------------------------------------------
(* The socket sink.                                                        *)

Offset == [LORATAP |-> 0,
           LORAPHY |-> loratap_header_t,
           LORAMAC |-> loratap_header_t + loraphy_header_t]

Checksum(m) == MAC_CRC_SIZE * m.has_mac_crc

MsgLen(m) ==
    loratap_header_t + loraphy_header_t + m.payload - Offset[layer]
    - (IF layer = "LORAMAC" THEN Checksum(m) ELSE 0)

DatagramOf(m) ==
    [frame |-> m.frame, from |-> Offset[layer], length |-> MsgLen(m)]

(* The message at the head of the socket sink's inbox.                     *)
NextMessage == published[handled + 1]

MessageWaits == receiver = "running" /\ handled < Len(published)

(* The source's process is there, and its socket bound.                    *)
Alive == source \in {"receiving", "destroying"}

(* What the kernel does with a datagram it took.                           *)
Deliverable == Alive /\ Len(net) < ReceiveBuffer

Arrive(datagrams, frame) ==
    IF Deliverable
    THEN net' = net \o datagrams /\ UNCHANGED dropped
    ELSE dropped' = dropped \cup {frame} /\ UNCHANGED net

(* Variation: a payload of no bytes is not worth a datagram.               *)
SendtoUnlessEmpty(d) ==
    IF d.length = 0 THEN UNCHANGED <<net, dropped>> ELSE Arrive(<<d>>, d.frame)

(* Variation: what seems not to have been sent is sent again.              *)
SendtoTwice(d) == Arrive(<<d, d>>, d.frame)

Sendto(d) == Arrive(<<d>>, d.frame)

SendDatagram ==
    /\ MessageWaits
    /\ MsgLen(NextMessage) <= MaxDatagram
    /\ handled' = handled + 1
    /\ Sendto(DatagramOf(NextMessage))
    /\ UNCHANGED <<vars, layer, published, receiver, out, source,
                   client_addr_len, d_running, outAtEnd, fileVars>>

(* sendto() does not: the datagram is too long for it, or the kernel has   *)
(* some other reason.  The process ends, and with it its threads.          *)
SendDatagramFails ==
    /\ MessageWaits
    /\ receiver' = "exited"
    /\ UNCHANGED <<vars, layer, published, sinkVars, sourceVars, fileVars>>

-----------------------------------------------------------------------------
(* The file sink.  An ofstream that has failed once does nothing more.     *)

RecordWaits == receiver = "running" /\ written < Len(published)

(* Variation: the state of the stream is cleared before each write.        *)
WriteRecordAnew ==
    /\ RecordWaits
    /\ written' = written + 1
    /\ \/ file' = Append(file, published[written + 1].frame)
       \/ UNCHANGED file
    /\ UNCHANGED <<vars, layer, published, receiver, d_file_good, sinkVars,
                   sourceVars>>

WriteRecord ==
    /\ RecordWaits
    /\ written' = written + 1
    /\ \/ d_file_good /\ file' = Append(file, published[written + 1].frame)
                      /\ UNCHANGED d_file_good
       \/ d_file_good' = FALSE /\ UNCHANGED file
    /\ UNCHANGED <<vars, layer, published, receiver, sinkVars, sourceVars>>

-----------------------------------------------------------------------------
(* The socket source.  Its thread looks at d_running between two           *)
(* datagrams; when it leaves the loop it ends the process.                 *)

(* Variation: the flag is not looked at again.                             *)
AfterDatagramForEver == source

AfterDatagram == IF d_running THEN source ELSE "finished"

(* The first call is given a length that was never written, which the      *)
(* kernel refuses when it is negative.                                     *)
RecvfromRefused ==
    /\ Alive
    /\ net # <<>>
    /\ client_addr_len = "unset"
    /\ source' = "failed"
    /\ net' = Tail(net)
    /\ UNCHANGED <<vars, layer, published, receiver, sinkVars, out,
                   client_addr_len, d_running, outAtEnd, fileVars>>

(* Variation: they are not taken for one.                                  *)
RecvfromEmptyGoesOn ==
    /\ Alive
    /\ net # <<>>
    /\ Head(net).length = 0
    /\ net' = Tail(net)
    /\ UNCHANGED <<vars, layer, published, receiver, sinkVars, out, source,
                   client_addr_len, d_running, outAtEnd, fileVars>>

(* Variation: a datagram of one byte is taken for an error as well.        *)
RecvfromShort ==
    /\ Alive
    /\ net # <<>>
    /\ Head(net).length <= 1
    /\ source' = "failed"
    /\ net' = Tail(net)
    /\ UNCHANGED <<vars, layer, published, receiver, sinkVars, out,
                   client_addr_len, d_running, outAtEnd, fileVars>>

(* No bytes are taken for an error, as -1 is.                              *)
RecvfromEmpty ==
    /\ Alive
    /\ net # <<>>
    /\ Head(net).length = 0
    /\ source' = "failed"
    /\ net' = Tail(net)
    /\ UNCHANGED <<vars, layer, published, receiver, sinkVars, out,
                   client_addr_len, d_running, outAtEnd, fileVars>>

Received(d) ==
    [d EXCEPT !.length = IF @ < RECEIVE_BUFFER_SIZE THEN @ ELSE RECEIVE_BUFFER_SIZE]

RecvfromPublish ==
    /\ Alive
    /\ net # <<>>
    /\ Head(net).length > 0
    /\ out' = Append(out, Received(Head(net)))
    /\ net' = Tail(net)
    /\ source' = AfterDatagram
    /\ client_addr_len' = "set"
    /\ UNCHANGED <<vars, layer, published, receiver, sinkVars, d_running,
                   outAtEnd, fileVars>>

(* The destructor, in the main thread: first the flag,                     *)
ClearRunning ==
    /\ source = "receiving"
    /\ source' = "destroying"
    /\ d_running' = FALSE
    /\ outAtEnd' = Len(out)
    /\ UNCHANGED <<vars, layer, published, receiver, sinkVars, net, out,
                   client_addr_len, fileVars>>

(* then the thread, which was never stored in d_thread.                    *)
JoinNothing ==
    /\ source = "destroying"
    /\ source' = "crashed"
    /\ UNCHANGED <<vars, layer, published, receiver, sinkVars, net, out,
                   client_addr_len, d_running, outAtEnd, fileVars>>

-----------------------------------------------------------------------------
SinkStep == SendDatagram \/ SendDatagramFails
SourceStep == RecvfromRefused \/ RecvfromEmpty \/ RecvfromPublish

PipelineNext ==
    \/ Search
    \/ msg_lora_frame
    \/ Stop
    \/ SendDatagram
    \/ SendDatagramFails
    \/ WriteRecord
    \/ RecvfromRefused
    \/ RecvfromEmpty
    \/ RecvfromPublish
    \/ ClearRunning
    \/ JoinNothing

(* The threads of the sinks and of the source run when there is something  *)
(* for them.  Nothing makes a frame arrive, or a program end.              *)
Fairness ==
    /\ WF_pipelineVars(SinkStep)
    /\ WF_pipelineVars(WriteRecord)
    /\ WF_pipelineVars(SourceStep)

PipelineSpec ==
    PipelineInit /\ [][PipelineNext]_pipelineVars /\ Fairness

-----------------------------------------------------------------------------
PipelineTypeOK ==
    /\ layer \in Layers
    /\ published \in Seq(Message)
    /\ receiver \in {"running", "stopped", "exited"}
    /\ handled \in 0..Len(published)
    /\ dropped \in SUBSET Nat
    /\ net \in Seq(Datagram)
    /\ out \in Seq(Datagram)
    /\ source \in {"receiving", "destroying", "failed", "finished", "crashed"}
    /\ client_addr_len \in {"unset", "set"}
    /\ d_running \in BOOLEAN
    /\ outAtEnd \in Nat
    /\ written \in 0..Len(published)
    /\ file \in Seq(Nat)
    /\ d_file_good \in BOOLEAN

(* Through both sockets and their two processes: whatever is dropped, the  *)
(* source publishes frames the decoder published, in their order and none  *)
(* twice.                                                                  *)
Numbers == [i \in 1..Len(out) |-> out[i].frame]
D == INSTANCE OrderedDelivery WITH sent <- Len(published), received <- Numbers
ImplementsDelivery == D!DeliverySpec

(* The file has no hole: what it lacks are the last frames, from the one   *)
(* on whose write failed, though the decoder published on.                 *)
NoGapInFile == file = [i \in 1..Len(file) |-> i] /\ Len(file) <= written

(* A process that runs the source is not ended by a frame, unless the sink *)
(* was made for the MAC layer and the frame had an empty payload (or by    *)
(* the very first datagram, for its uninitialised length).                 *)
EndedOnlyByEmptyPayload ==
    source = "failed" =>
        \/ client_addr_len = "unset"
        \/ /\ layer = "LORAMAC"
           /\ \E i \in 1..handled :
                 published[i].payload = MAC_CRC_SIZE * published[i].has_mac_crc

(* Each message the sink handled is accounted for as long as the source    *)
(* is there: published, waiting, or dropped by the kernel.                 *)
NothingVanishes ==
    Alive => handled = Len(out) + Len(net) + Cardinality(dropped)

(* Once the destructor has cleared the flag, the thread that may be in the *)
(* middle of recvfrom() publishes at most one message more.                *)
AtMostOneMore == ~ d_running => Len(out) <= outAtEnd + 1

(* Every frame is published by the source or dropped by the kernel in the  *)
(* end, unless one of the two processes has ended.                         *)
Settled(f) == f \in dropped \/ \E i \in 1..Len(out) : out[i].frame = f

EverySettled ==
    \A f \in 1..MaxReceptions :
        Len(published) >= f
            ~> Settled(f) \/ receiver # "running" \/ source # "receiving"
=============================================================================
