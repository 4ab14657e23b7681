---------------------------- MODULE ControlSession ----------------------------
(***************************************************************************)
(* The control channel of harness/src/control.rs and h2.rs: the upgraded   *)
(* connection, the Noise records of ts-noise on it, the early payload the  *)
(* server may send before HTTP/2, and the reader that cuts HTTP/2 frames   *)
(* out of the records.  Each layer reads ahead of the one below or above,  *)
(* and what it has read too much of has to be handed on.                   *)
(*                                                                         *)
(* The server's plaintext is a script of units, and what travels in a      *)
(* record are positions of the script.  Nine bytes, which is what a frame  *)
(* header and the probe for the early payload both have, are two units.    *)
(***************************************************************************)
EXTENDS TcpStream

CONSTANTS
  Scripts,          \* what a server may send once the session is up
  Servers,          \* "good", or what it gets wrong: "keyless", "refuses", "unproven"
  HTTP_BUFFER, MAX_PLAINTEXT, MAX_PAYLOAD, MAX_FRAME, BODY

PROBE_LEN == 2
RESPONSE_LEN == 2
FRAME_HEADER_LEN == 2

VARIABLES
  session,    \* "key", "headers", "response", "early", "h2", "finished" or "failed"
  peer,       \* the server: an element of Servers
  script,
  sent,       \* how much of the script the server has sent
  records,    \* in how many records
  answer,     \* the HTTP response and what was read with it; then the Noise response
  header,     \* the record header read, or <<>>
  rx,         \* records opened
  opened,     \* positions of the script opened
  reader,     \* EarlyReader: the positions it has taken
  pushback,   \* positions read past the early payload; then the HTTP/2 buffer
  taken,      \* positions consumed as frames
  body,       \* units of the response's body written
  overflowed  \* the pushback did not fit and was dropped
control == <<session, peer, script, sent, records, answer, header, rx, opened, reader,
             pushback, taken, body, overflowed>>
frames == <<taken, body>>

Http(kind) == [unit |-> kind]
Response == <<Http("noise"), Http("noise")>>
Record(k, at, n) == <<[unit |-> "header", record |-> k, length |-> n]>>
                    \o [i \in 1..n |-> [unit |-> "body", record |-> k, at |-> at + i]]

ControlInit == /\ session = "key" /\ peer \in Servers /\ script \in Scripts
               /\ sent = 0 /\ records = 0 /\ answer = <<>> /\ header = <<>> /\ rx = 0 /\ opened = 0
               /\ reader = <<>> /\ pushback = <<>> /\ taken = 0 /\ body = 0 /\ overflowed = FALSE

-----------------------------------------------------------------------------
\* The server, and TCP.

Upgrading == session \in {"headers", "response", "early", "h2"}

\* The server seals the next part of its script in one record.  It does not wait
\* for the client to have read its handshake response.  How far it is ahead can be
\* seen only while the client reads whatever there is, and by one buffer.
Ahead == IF session = "headers" THEN HTTP_BUFFER ELSE 1
ServerSends == /\ Upgrading /\ peer = "good" /\ sent < Len(script)
               /\ Len(coming) + Len(stream) < Ahead
               /\ \E n \in 1..Least(MAX_PLAINTEXT, Len(script) - sent) :
                    /\ coming' = coming \o Record(records, sent, n)
                    /\ sent' = sent + n
               /\ records' = records + 1
               /\ UNCHANGED <<stream, dropped, session, peer, script, answer, header, rx, opened,
                              reader, pushback, frames, overflowed>>

\* Where a segment ends matters only to a read that takes what there is.
ControlDeliver == /\ Upgrading /\ coming # <<>>
                  /\ \E n \in 1..Len(coming) : /\ session # "headers" => n = Len(coming)
                                               /\ Delivers(n)
                  /\ UNCHANGED <<dropped, control>>

-----------------------------------------------------------------------------
\* fetch_server_key, a connection of its own, read until the server closes it.
\* Then the upgrade request goes out on a new one and the server answers it.
fetch_server_key ==
  /\ session = "key"
  /\ session' = IF peer = "keyless" THEN "failed" ELSE "headers"
  /\ coming' = IF peer = "refuses" THEN <<Http("400"), Http("blank")>>
               ELSE <<Http("101"), Http("blank")>> \o Response
  /\ UNCHANGED <<stream, dropped, peer, script, sent, records, answer, header, rx, opened, reader,
                 pushback, frames, overflowed>>

\* handshake: read until parse_response finds the blank line.
HasHeaders == Len(answer) >= 2
ReadHeaders == /\ session = "headers" /\ ~HasHeaders /\ stream # <<>>
               /\ answer' = answer \o read(HTTP_BUFFER - Len(answer))
               /\ stream' = After(stream, Len(answer') - Len(answer))
               /\ session' = IF Len(answer') = HTTP_BUFFER THEN "failed" ELSE "headers"
               /\ UNCHANGED <<coming, dropped, peer, script, sent, records, header, rx, opened, reader,
                              pushback, frames, overflowed>>


\* What was read past the headers is the start of the Noise response, and only
\* that much of it is kept.
Already == /\ session = "headers" /\ HasHeaders
           /\ session' = IF answer[1].unit = "101" THEN "response" ELSE "failed"
           /\ answer' = SubSeq(After(answer, 2), 1, Least(RESPONSE_LEN, Len(answer) - 2))
           /\ dropped' = dropped + (Len(answer) - 2 - Len(answer'))
           /\ UNCHANGED <<coming, stream, peer, script, sent, records, header, rx, opened, reader,
                          pushback, frames, overflowed>>

\* read_exact the rest of it, and consume_response.
ReadResponse == LET rest == RESPONSE_LEN - Len(answer)
                IN  /\ session = "response" /\ Len(stream) >= rest
                    /\ session' = IF peer = "good" /\ answer \o read_exact(rest) = Response
                                  THEN "early" ELSE "failed"
                    /\ stream' = After(stream, rest)
                    /\ answer' = <<>>
                    /\ UNCHANGED <<coming, dropped, peer, script, sent, records, header, rx, opened,
                                   reader, pushback, frames, overflowed>>
-----------------------------------------------------------------------------
\* read_record and fill: a header, then exactly the ciphertext it announces.

Kind(at) == script[at].unit

\* EarlyReader: how much more it wants, given what it has taken.
HasMagic(b) == Len(b) >= PROBE_LEN /\ Kind(b[1]) = "magic"
PayloadLen(b) == script[b[2]].length
Wanted(b) == IF HasMagic(b) THEN PROBE_LEN + PayloadLen(b) - Len(b)
             ELSE IF Len(b) < PROBE_LEN THEN PROBE_LEN - Len(b) ELSE 0
TooLong(b) == HasMagic(b) /\ PayloadLen(b) > MAX_PAYLOAD
Take(b, bytes) == b \o SubSeq(bytes, 1, Least(Wanted(b), Len(bytes)))

\* Completing the probe changes what is wanted, so the loop goes round again.
early_push(b, bytes) == LET probe == Take(b, bytes)
                        IN  Take(probe, After(bytes, Len(probe) - Len(b)))

NeedsRecord ==
  \/ session = "early" /\ Wanted(reader) > 0
  \/ /\ session = "h2"
     /\ IF Len(pushback) < FRAME_HEADER_LEN THEN TRUE
        ELSE /\ Kind(pushback[1]) = "frame"
             /\ Len(pushback) < FRAME_HEADER_LEN + script[pushback[1]].length

\* ciphertext_len refuses what is no record header.
ReadHeader == /\ NeedsRecord /\ header = <<>> /\ stream # <<>>
              /\ header' = read_exact(1)
              /\ stream' = After(stream, 1)
              /\ session' = IF header'[1].unit = "header" THEN session ELSE "failed"
              /\ UNCHANGED <<coming, dropped, peer, script, sent, records, answer, rx, opened, reader,
                             pushback, frames, overflowed>>

\* open checks the tag under the receive counter.
Opens(ciphertext) == \A i \in 1..Len(ciphertext) :
                        ciphertext[i].unit = "body" /\ ciphertext[i].record = rx
HTTP2_BUFFER == 2 * (FRAME_HEADER_LEN + MAX_FRAME)
ReadRecord ==
  /\ header # <<>> /\ session \in {"early", "h2"} /\ Len(stream) >= header[1].length
  /\ stream' = After(stream, header[1].length) /\ header' = <<>>
  /\ LET ciphertext == read_exact(header[1].length)
         plain == [i \in 1..Len(ciphertext) |-> ciphertext[i].at]
     IN  \/ /\ ~Opens(ciphertext)
            /\ session' = "failed"
            /\ UNCHANGED <<rx, opened, reader, pushback>>
         \/ /\ Opens(ciphertext)
            /\ rx' = rx + 1 /\ opened' = opened + Len(plain)
            /\ IF session = "early"
               THEN /\ reader' = early_push(reader, plain)
                    /\ pushback' = After(plain, Len(reader') - Len(reader))
                    /\ session' = IF TooLong(reader') THEN "failed" ELSE session
               ELSE /\ pushback' = pushback \o plain
                    /\ session' = IF Len(pushback') > HTTP2_BUFFER THEN "failed" ELSE session
                    /\ UNCHANGED reader
  /\ UNCHANGED <<coming, dropped, peer, script, sent, records, answer, frames, overflowed>>

-----------------------------------------------------------------------------
\* Http2::start takes over with what was read past the early payload.
Buffered(bytes, fits) == pushback' = bytes /\ overflowed' = ~fits

\* Mutant: the probe is taken for an early payload whatever it was.
ProbeDropped == /\ session = "early" /\ Wanted(reader) = 0
                /\ session' = "h2"
                /\ Buffered(pushback, TRUE)
                /\ UNCHANGED <<connection, peer, script, sent, records, answer, header, rx, opened, reader, frames>>

\* finish: the early payload is consumed; or there was none, and the probe goes
\* back in front of what followed it, if the two fit in one record's room: the
\* result of the second extend_from_slice is ignored.
EarlyDone == LET carried == reader \o pushback
                 fits == HasMagic(reader) \/ Len(carried) <= MAX_PLAINTEXT
             IN  /\ session = "early" /\ Wanted(reader) = 0
                 /\ session' = "h2"
                 /\ IF HasMagic(reader) THEN Buffered(pushback, fits)
                    ELSE Buffered(IF fits THEN carried ELSE reader, fits)
                 /\ UNCHANGED <<connection, peer, script, sent, records, answer, header, rx, opened, reader, frames>>

\* read_chunk: next_frame, recv, consume.  The body has room for BODY units.
Consume(n) == pushback' = After(pushback, n) /\ taken' = taken + n

\* request: chunk after chunk, until the stream ends.
AfterChunk(frame, read_so_far) ==
  IF frame.event \in {"reset", "goaway"} \/ read_so_far > BODY THEN "failed"
  ELSE IF frame.end THEN "finished" ELSE session
ReadChunk == LET frame == script[pushback[1]]
                  size == IF frame.event = "data" THEN frame.length ELSE 0
              IN  /\ session = "h2" /\ header = <<>> /\ ~NeedsRecord /\ Kind(pushback[1]) = "frame"
                  /\ session' = AfterChunk(frame, body + size)
                  /\ body' = body + size
                  /\ Consume(FRAME_HEADER_LEN + frame.length)
                  /\ UNCHANGED <<connection, peer, script, sent, records, answer, header, rx, opened,
                                 reader, overflowed>>

\* What is buffered does not start with a frame: the header is refused, or it
\* announces a frame of an unknown type, which is skipped.
Misread == /\ session = "h2" /\ header = <<>> /\ ~NeedsRecord /\ Kind(pushback[1]) # "frame"
           /\ session' \in {"h2", "failed"}
           /\ Consume(Len(pushback))
           /\ UNCHANGED <<connection, peer, script, sent, records, answer, header, rx, opened, reader,
                          body, overflowed>>

ControlSteps == fetch_server_key \/ ReadHeaders \/ Already \/ ReadResponse \/ ReadHeader \/ ReadRecord
                \/ EarlyDone \/ ReadChunk \/ Misread
ControlNext == ControlSteps \/ ServerSends \/ ControlDeliver

-----------------------------------------------------------------------------
\* However the server cuts its plaintext into records and TCP the records into
\* segments, HTTP/2 is given every byte after the early payload, once and in
\* order: what is buffered is exactly what was decrypted and not yet consumed.
\* The one exception is a pushback that does not fit (control.rs ignores it),
\* which takes a probe split over two records.
EarlyLen == IF Kind(1) = "magic" THEN PROBE_LEN + script[2].length ELSE 0
NothingSkipped ==
  session \in {"h2", "finished"} =>
    IF overflowed THEN rx > 1
    ELSE pushback = [i \in 1..(opened - EarlyLen - taken) |-> EarlyLen + taken + i]
================================================================================
