------------------------------- MODULE MapStream -------------------------------
(***************************************************************************)
(* The map long poll: the server writes responses, each behind a length    *)
(* prefix; the network hands the client any piece of what was written; the *)
(* frame reader (crates/ts-netmap/src/frame.rs) finds the responses in the *)
(* pieces, the parser applies them, and fetch_map                          *)
(* (harness/src/control.rs) counts and reports them.                       *)
(***************************************************************************)
EXTENDS NetmapParser, FiniteSets

CONSTANTS FullMaps, Deltas,  \* the responses the server may send first, and later
          Encode(_),         \* the text of a response
          MaxSent,           \* bound on responses
          ChunkSizes,        \* how many bytes one read may bring, besides all there are
          Wanted             \* how many responses the caller asks for

HEADER_LEN == 4

VARIABLES sent,      \* the responses written so far
          wire,      \* bytes written and not yet read
          ended,     \* the server has closed the stream
          frames,    \* FrameReader
          parser, netmap, applied,
          input,     \* what is left of the chunk just read
          body,      \* what the parser has still to look at of the piece it was given
          finished,  \* the chunk just read was the last
          status,    \* "reading", "returned" or "failed"
          at,        \* "read": waiting for a chunk; "frames": taking one apart;
                     \* "push": the parser is at work on a piece of it
          reported   \* the netmap as last shown to the caller

server == <<sent, wire, ended>>
client == <<frames, parser, netmap, applied, input, body, finished, status, at, reported>>
vars   == <<server, client>>

NewFrames == [header |-> <<>>, remaining |-> None]

Init ==
  /\ sent = <<>> /\ wire = <<>> /\ ended = FALSE
  /\ frames = NewFrames /\ parser = NewParser /\ netmap = NewNetmap /\ applied = 0
  /\ input = <<>> /\ body = <<>> /\ finished = FALSE /\ status = "reading" /\ at = "read"
  /\ reported = NewNetmap

(***************************************************************************)
(* The server: a full map first, and anything after it.  What it does      *)
(* while the client computes, the client sees at its next read.            *)
(***************************************************************************)
Prefix(length) == <<length % 256, length \div 256, 0, 0>>

Respond ==
  /\ ~ended /\ Len(sent) < MaxSent /\ at = "read"
  /\ \E response \in IF sent = <<>> THEN FullMaps ELSE Deltas :
       /\ sent' = Append(sent, response)
       /\ wire' = wire \o Prefix(Len(Encode(response))) \o Encode(response)
  /\ UNCHANGED <<ended, client>>

EndStream == ~ended /\ sent # <<>> /\ at = "read" /\ ended' = TRUE /\ UNCHANGED <<sent, wire, client>>

(***************************************************************************)
(* FrameReader::next: what to do with some bytes, and how many it took.    *)
(***************************************************************************)
LittleEndian(header) == header[1] + 256 * header[2] + 65536 * header[3]

Piece(kind, bytes, consumed, reader) ==
  [kind |-> kind, bytes |-> bytes, consumed |-> consumed, frames |-> reader]

Smaller(a, b) == IF a < b THEN a ELSE b

NextHeader(f, bytes) ==
  LET take   == Smaller(Len(bytes), HEADER_LEN - Len(f.header))
      header == f.header \o SubSeq(bytes, 1, take)
  IN  Piece("Need", <<>>, take,
            IF Len(header) < HEADER_LEN THEN [f EXCEPT !.header = header]
            ELSE [header |-> <<>>, remaining |-> Some(LittleEndian(header))])


NextBody(f, bytes) ==
  LET remaining == f.remaining[1]
      take      == Smaller(Len(bytes), remaining)
  IN  CASE remaining = 0 -> Piece("End", <<>>, 0, [f EXCEPT !.remaining = None])
        [] remaining > 0 /\ bytes = <<>> -> Piece("Need", <<>>, 0, f)
        [] OTHER -> Piece("Body", SubSeq(bytes, 1, take), take,
                          [f EXCEPT !.remaining = Some(remaining - take)])

NextPiece(f, bytes) == IF f.remaining = None THEN NextHeader(f, bytes) ELSE NextBody(f, bytes)

is_complete(f) == f.remaining = Some(0)

(***************************************************************************)
(* fetch_map.  A read brings some of what was written; the inner loop then *)
(* takes the chunk apart, one piece to a step, and the parser a byte to one.*)
(***************************************************************************)
ReadChunk ==
  /\ status = "reading" /\ at = "read" /\ applied < Wanted
  /\ \/ \E n \in {k \in ChunkSizes \cup {Len(wire)} : k \in 1..Len(wire)} :
          /\ input' = SubSeq(wire, 1, n)
          /\ wire' = SubSeq(wire, n + 1, Len(wire))
          /\ finished' = (ended /\ n = Len(wire))
     \/ /\ wire = <<>> /\ ended
        /\ finished' = TRUE
        /\ UNCHANGED <<input, wire>>
  /\ at' = "frames"
  /\ UNCHANGED <<sent, ended, frames, parser, netmap, applied, body, status, reported>>

\* A piece of a response: the parser gets it, byte after byte.
Body(piece) ==
  /\ frames' = piece.frames
  /\ input' = SubSeq(input, piece.consumed + 1, Len(input))
  /\ body' = piece.bytes
  /\ at' = "push"
  /\ UNCHANGED <<server, parser, netmap, applied, finished, status, reported>>

\* A keepalive: counted, nothing to apply.
KeepAlive(piece) ==
  /\ frames' = piece.frames
  /\ applied' = applied + 1
  /\ UNCHANGED <<server, parser, netmap, input, body, finished, status, at, reported>>

\* Nothing more to take from this chunk.
ChunkDone(piece) ==
  /\ frames' = piece.frames
  /\ at' = "read"
  /\ status' = IF finished \/ applied >= Wanted THEN "returned" ELSE status
  /\ UNCHANGED <<server, parser, netmap, applied, input, body, finished, reported>>

\* Mutant: any Need ends the chunk.
HeaderEndsChunk(piece) ==
  /\ frames' = piece.frames
  /\ input' = <<>>
  /\ at' = "read"
  /\ UNCHANGED <<server, parser, netmap, applied, body, finished, status, reported>>

HeaderRead(piece) ==
  /\ frames' = piece.frames
  /\ input' = SubSeq(input, piece.consumed + 1, Len(input))
  /\ UNCHANGED <<server, parser, netmap, applied, body, finished, status, at, reported>>

FrameStep ==
  /\ status = "reading" /\ at = "frames"
  /\ LET piece == NextPiece(frames, input)
     IN  \/ piece.kind = "Body" /\ Body(piece)
         \/ piece.kind = "End" /\ KeepAlive(piece)
         \/ piece.kind = "Need" /\ piece.consumed = 0 /\ ChunkDone(piece)
         \/ piece.kind = "Need" /\ piece.consumed > 0 /\ HeaderRead(piece)

Fail == status' = "failed"
        /\ UNCHANGED <<server, frames, parser, netmap, applied, input, body, finished, at, reported>>

\* The response is not complete yet: back to the chunk.
PieceDone ==
  /\ ~is_complete(frames)
  /\ at' = "frames"
  /\ UNCHANGED <<server, frames, parser, netmap, applied, input, body, finished, status, reported>>

\* The response is complete: its parser finishes and a new one takes over,
\* and the map is counted and reported.
ResponseDone ==
  /\ is_complete(frames)
  /\ LET done == finish(parser, netmap)
     IN  \/ done.error # "none" /\ Fail
         \/ /\ done.error = "none"
            /\ frames' = NewFrames
            /\ parser' = NewParser
            /\ netmap' = done.netmap
            /\ reported' = done.netmap
            /\ applied' = applied + 1
            /\ at' = "frames"
            /\ UNCHANGED <<server, input, body, finished, status>>

PushByte ==
  LET run == push(parser, netmap, Head(body))
  IN  \/ run.error # "none" /\ Fail
      \/ /\ run.error = "none"
         /\ parser' = run.parser
         /\ netmap' = run.netmap
         /\ body' = Tail(body)
         /\ UNCHANGED <<server, frames, applied, input, finished, status, at, reported>>

PushStep ==
  /\ status = "reading" /\ at = "push"
  /\ \/ body # <<>> /\ PushByte
     \/ body = <<>> /\ (PieceDone \/ ResponseDone)

Next == Respond \/ EndStream \/ ReadChunk \/ FrameStep \/ PushStep

Spec == Init /\ [][Next]_vars

(***************************************************************************)
(* Properties.                                                             *)
(***************************************************************************)
\* The netmap without the order its tables happen to have.
MapOf(m) == [self |-> m.node_key, peers |-> Range(m.peers), regions |-> Range(m.derp)]

Abstract == INSTANCE NetmapSpec WITH
              Responses <- FullMaps \cup Deltas, MaxPeers <- MAX_PEERS,
              MaxRegions <- MAX_DERP_REGIONS, map <- MapOf(reported)


\* The map's tables keep one entry for an id within their capacity, and the
\* node is never a peer of itself, not even between two tokens of a response
\* that lists it before naming it (parser.rs:278-284, 329-342).
Inv ==
  /\ OneEntryPerId(netmap.peers) /\ Len(netmap.peers) <= MAX_PEERS
  /\ OneEntryPerId(netmap.derp) /\ Len(netmap.derp) <= MAX_DERP_REGIONS
  /\ \A i \in DOMAIN netmap.peers : Some(netmap.peers[i].node_key) # netmap.node_key


\* When the client waits for bytes and there are none, it has applied every
\* response the server wrote: no cut of the stream leaves a whole response
\* unread in the reader (frame.rs:53-86, control.rs:674).
NothingLeftWaiting ==
  status = "reading" /\ at = "read" /\ wire = <<>> => applied = Len(sent)
================================================================================
