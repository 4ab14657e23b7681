--------------------------------- MODULE Relay ---------------------------------
(***************************************************************************)
(* One client of harness/src/derp.rs: connect to the relay, then read      *)
(* frames until the packet arrives or the time is over.  The relay's bytes *)
(* come over a TCP stream, whose reads return what has arrived and know    *)
(* nothing of frames.  A frame is a header of two pieces and a payload of  *)
(* as many as the header says; the response to the upgrade is two pieces.  *)
(***************************************************************************)
EXTENDS Executor, TcpStream, SequencesExt

CONSTANTS
  DELIVERY,        \* how long to wait for the packet
  BUFFER,          \* pieces read_frame's buffer holds
  OtherLengths,    \* lengths of the frames the relay sends of its own
  MaxOthers        \* bound: how many of those it sends

TCP == "tcp"
HEADER_LEN == 2

FrameHead(kind, length) == [piece |-> "type", kind |-> kind, length |-> length]
Piece(kind) == [piece |-> kind]
Framed(kind, length) == <<FrameHead(kind, length), Piece("rest")>> \o [i \in 1..length |-> Piece("payload")]
Upgraded == <<Piece("status"), Piece("blank")>>

VARIABLES
  relay,      \* "upgrade", "key", "info", "top" of the loop, "read"; then
              \* "ok", "failed", "closed" by the relay, "oversize" frame
  buffer,     \* what the client has read
  give_up, reading_until,
  others,     \* frames the relay has sent of its own
  packet      \* whether the relay has sent the packet
client == <<relay, buffer, give_up, reading_until, others, packet>>

RelayInit == /\ relay = "upgrade" /\ buffer = <<>> /\ give_up = 0 /\ reading_until = 0
             /\ others = 0 /\ packet = FALSE
Greeting == Upgraded \o Framed("ServerKey", 1)

Ended == relay \in {"ok", "failed", "closed", "oversize"}

-----------------------------------------------------------------------------
\* The relay, and TCP.

Deliver == /\ ~Ended
           /\ \E n \in 1..Len(coming) : Delivers(n)
           /\ UNCHANGED <<dropped, client, reactor>>

\* Once both clients are connected the relay forwards the packet, and sends
\* keepalives and peer-presence frames as it likes.
Forward == /\ relay \in {"top", "read"} /\ ~packet
           /\ packet' = TRUE
           /\ coming' = coming \o Framed("RecvPacket", 1)
           /\ UNCHANGED <<stream, dropped, relay, buffer, give_up, reading_until, others, reactor>>
SendOther == /\ relay \in {"info", "top", "read"} /\ others < MaxOthers
             /\ others' = others + 1
             /\ \E n \in OtherLengths : coming' = coming \o Framed("KeepAlive", n)
             /\ UNCHANGED <<stream, dropped, relay, buffer, give_up, reading_until, packet, reactor>>

-----------------------------------------------------------------------------
\* The client.

Room == BUFFER - Len(buffer)
Fill == /\ buffer' = buffer \o read(Room)
        /\ stream' = After(stream, Len(read(Room)))

HasHeader == Len(buffer) >= HEADER_LEN
InStep == buffer # <<>> /\ buffer[1].piece = "type"
FrameLen == HEADER_LEN + buffer[1].length
HasFrame == HasHeader /\ InStep /\ Len(buffer) >= FrameLen
NeedsMore == ~HasHeader \/ (InStep /\ ~HasFrame)

\* read_frame returns.  It moves what follows the frame to the front of the
\* buffer, but every later call starts at zero: those bytes are gone.
TakeFrame(to) == /\ HasFrame
                 /\ relay' = to
                 /\ buffer' = <<>>
                 /\ dropped' = dropped + (Len(buffer) - FrameLen)

\* The frame must be of the kind awaited; in the loop another kind is passed over.
Unless(kind, to) == IF buffer[1].kind = kind THEN to ELSE "failed"
read_server_key == Unless("ServerKey", "info")
read_server_info == Unless("ServerInfo", "top")
read_packet == IF buffer[1].kind = "RecvPacket" THEN "ok" ELSE "top"

HasBlank == Piece("blank") \in Range(buffer)

\* TcpStream::read in connect, where nothing limits the wait.
Unhurried == \/ relay = "upgrade" /\ ~HasBlank
             \/ relay \in {"key", "info"} /\ NeedsMore
ReadMore == /\ Unhurried /\ stream # <<>> /\ Room > 0
            /\ Fill
            /\ UNCHANGED <<coming, dropped, relay, give_up, reading_until, others, packet, reactor>>

\* parse_upgrade finds the blank line; what follows it is carried over.
Upgrade == /\ relay = "upgrade" /\ HasBlank
           /\ relay' = "key"
           /\ buffer' = After(buffer, Len(Upgraded))
           /\ UNCHANGED <<connection, give_up, reading_until, others, packet, reactor>>

\* The relay answers write_client_info.
ServerKey == /\ relay = "key"
             /\ TakeFrame(read_server_key)
             /\ coming' = coming \o Framed("ServerInfo", 1)
             /\ UNCHANGED <<stream, give_up, reading_until, others, packet, reactor>>

\* Both clients are connected, the packet is on its way and the clock runs.
ServerInfo == /\ relay = "info"
              /\ TakeFrame(read_server_info)
              /\ give_up' = now + DELIVERY
              /\ UNCHANGED <<coming, stream, reading_until, others, packet, reactor>>

LoopTop == /\ relay = "top"
           /\ relay' = IF now < give_up THEN "read" ELSE "failed"
           /\ reading_until' = now + DELIVERY
           /\ UNCHANGED <<connection, buffer, give_up, others, packet, reactor>>

ReadFrame == /\ relay = "read" /\ ~blocked
             /\ TakeFrame(read_packet)
             /\ UNCHANGED <<coming, stream, give_up, reading_until, others, packet, reactor>>

\* The bytes taken for a header are not one: the length is refused, or the
\* frame is of an unknown type and discarded.
Garbled == /\ relay = "read" /\ ~blocked
           /\ HasHeader /\ ~InStep
           /\ relay' \in {"failed", "top"}
           /\ buffer' = <<>> /\ dropped' = dropped + Len(buffer)
           /\ UNCHANGED <<coming, stream, give_up, reading_until, others, packet, reactor>>

Waiting == relay = "read" /\ NeedsMore

\* A frame that fits MAX_FRAME but not the buffer: the read has no room, returns
\* no bytes, and that is taken for the end of the stream.
NoRoom == /\ (Waiting \/ Unhurried) /\ ~blocked /\ Room = 0
          /\ relay' = "oversize"
          /\ UNCHANGED <<connection, buffer, give_up, reading_until, others, packet, reactor>>

\* The relay closes the connection, and a read finds that out.
HangUp == /\ (Waiting \/ Unhurried) /\ ~blocked
          /\ coming = <<>> /\ stream = <<>>
          /\ relay' = "closed" /\ sources' = forget_source(TCP)
          /\ UNCHANGED <<connection, buffer, give_up, reading_until, others, packet>>
          /\ UNCHANGED <<now, deadline, blocked>>

HasBytes == stream # <<>>
SelectRead == /\ Waiting /\ Room > 0 /\ SelectReads(TCP, HasBytes) /\ Fill
              /\ UNCHANGED <<coming, dropped, relay, give_up, reading_until, others, packet>>
SelectExpire == /\ Waiting /\ Room > 0 /\ SelectExpires(TCP, HasBytes, reading_until)
                /\ relay' = "failed"
                /\ UNCHANGED <<connection, buffer, give_up, reading_until, others, packet>>
SelectPend == /\ Waiting /\ Room > 0 /\ SelectPends(TCP, HasBytes, reading_until)
              /\ UNCHANGED <<connection, client>>
RelayWake == WaitWakes(IF HasBytes THEN {TCP} ELSE {}) /\ UNCHANGED <<connection, client>>
RelayTimeOut == WaitTimesOut /\ UNCHANGED <<connection, client>>
RelayInterrupt == WaitInterrupted /\ UNCHANGED <<connection, client>>
\* The time connect takes is nothing to the code.
RelayPass == relay \in {"top", "read"} /\ Tick /\ UNCHANGED <<connection, client>>

RelaySteps == ReadMore \/ Upgrade \/ ServerKey \/ ServerInfo \/ LoopTop \/ ReadFrame \/ Garbled
              \/ NoRoom \/ SelectRead \/ SelectExpire \/ SelectPend \/ RelayWake \/ RelayTimeOut
RelayNext == RelaySteps \/ Deliver \/ Forward \/ SendOther \/ HangUp \/ RelayInterrupt \/ RelayPass
================================================================================
