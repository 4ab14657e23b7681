---------------------------- MODULE H2Connection ----------------------------
(***************************************************************************)
(* The HTTP/2 client of crates/micro-h2: conn.rs (streams, flow control,   *)
(* settings, header blocks) with the HPACK decoder of hpack/decode.rs and  *)
(* its dynamic table (hpack/dynamic.rs), against a server that follows     *)
(* RFC 7540 and RFC 7541.                                                  *)
(*                                                                         *)
(* The byte stream from the server is reliable and ordered, and what the   *)
(* server has written it does not take back: a frame is taken to be        *)
(* written when the client handles it, and a header field to be encoded    *)
(* when the client decodes it.  In the other direction requests and        *)
(* WINDOW_UPDATEs are under way for a while.                               *)
(*                                                                         *)
(* A field is a name and a value; tables list the newest first, so that    *)
(* table[1] has the HPACK index DYNAMIC_BASE.  A name or field of the      *)
(* static table is one both ends can spell.                                *)
(***************************************************************************)
EXTENDS Integers, Sequences, FiniteSets

CONSTANTS
    Name, Value,        \* of header fields
    FieldSize,          \* [Field -> Nat]: RFC 7541 size, overhead included
    TooLongToKeep,      \* fields with a string longer than MAX_ENTRY_LEN
    TooLongToRead,      \* fields with a string longer than MAX_STRING
    DEFAULT_TABLE_SIZE,
    TableSizes,         \* sizes the server may choose for a table
    MAX_ENTRIES,
    MAX_HEADER_BLOCK,   \* fields a header block may have
    MAX_STREAMS,
    Bodies,             \* of requests: the largest frame one needs
    FrameSizes,         \* values of SETTINGS_MAX_FRAME_SIZE, the first included
    DEFAULT_MAX_FRAME,
    RECEIVE_WINDOW, DEFAULT_WINDOW,
    Chunks,             \* sizes of DATA frames, padding included
    MaxRequests         \* bound: requests of the client

Field == [name : Name, value : Value]

ASSUME FieldAssumption ==
    /\ FieldSize \in [Field -> Nat]
    /\ TooLongToKeep \subseteq Field /\ TooLongToRead \subseteq Field
ASSUME TableAssumption ==
    /\ DEFAULT_TABLE_SIZE \in Nat /\ TableSizes \subseteq Nat
    /\ MAX_ENTRIES \in Nat \ {0} /\ MAX_HEADER_BLOCK \in Nat
ASSUME FrameAssumption ==
    /\ DEFAULT_MAX_FRAME \in Nat /\ FrameSizes \subseteq Nat
    /\ Bodies \subseteq Nat /\ MAX_STREAMS \in Nat /\ MaxRequests \in Nat
ASSUME WindowAssumption ==
    /\ RECEIVE_WINDOW \in Nat /\ DEFAULT_WINDOW \in Nat
    /\ DEFAULT_WINDOW <= RECEIVE_WINDOW /\ RECEIVE_WINDOW >= 2
    /\ Chunks \subseteq Nat

VARIABLES
    \* the client's Connection
    table, capacity,        \* the decoder's DynamicTable
    streams,                \* identifiers of the streams in the table
    next_stream,
    header_block,           \* fields reassembled so far
    header_stream, header_end_stream,
    consumed,               \* bytes since the last WINDOW_UPDATE; 0: connection
    peer_max_frame,
    input,                  \* fields `decode` has still to read
    failed,                 \* recv has returned an error, the caller gives up
    \* the server
    peerTable, peerCapacity,
    window,                 \* what it may still send, on 0 and on each stream
    serving,                \* streams it has seen and not yet ended
    continuing,             \* it owes CONTINUATION frames
    \* under way to the server
    requested, credit,
    \* history
    unsent,                 \* streams of requests that could not be written
    replaced,               \* a setting has replaced the decoder
    report                  \* the last field: as meant and as reported

tables == <<table, capacity, peerTable, peerCapacity, report>>
header == <<header_block, header_stream, header_end_stream, input, continuing>>
flow == <<consumed, window, credit>>
vars == <<table, capacity, streams, next_stream, header_block, header_stream,
          header_end_stream, consumed, peer_max_frame, input, failed,
          peerTable, peerCapacity, window, serving, continuing, requested,
          credit, unsent, replaced, report>>

StreamId == {2 * k - 1 : k \in 1 .. MaxRequests}
Scope == {0} \union StreamId    \* 0 is the connection

NoReport == [meant |-> <<>>, got |-> <<>>]

TableTypeOK ==
    /\ table \in Seq(Field) /\ peerTable \in Seq(Field)
    /\ capacity \in Nat /\ peerCapacity \in Nat
    /\ failed \in BOOLEAN

StreamTypeOK ==
    /\ streams \subseteq StreamId /\ unsent \subseteq StreamId
    /\ serving \subseteq StreamId /\ requested \subseteq StreamId
    /\ next_stream \in Nat
    /\ header_block \in Nat /\ input \in Nat
    /\ header_stream \in Scope /\ header_end_stream \in BOOLEAN
    /\ continuing \in BOOLEAN

FlowTypeOK ==
    /\ consumed \in [Scope -> Nat]
    /\ window \in [Scope -> Nat] /\ credit \in [Scope -> Nat]

TypeOK ==
    /\ TableTypeOK /\ StreamTypeOK /\ FlowTypeOK
    /\ peer_max_frame \in Nat /\ replaced \in BOOLEAN

(* `new` and `start`: the update that raises the connection's window is    *)
(* under way (and a form of it that is forgotten).                         *)
NoStartCredit == 0
StartCredit == RECEIVE_WINDOW - DEFAULT_WINDOW

Init ==
    /\ table = <<>> /\ capacity = DEFAULT_TABLE_SIZE
    /\ streams = {} /\ next_stream = 1
    /\ header_block = 0 /\ header_stream = 0 /\ header_end_stream = FALSE
    /\ consumed = [c \in Scope |-> 0]
    /\ peer_max_frame = DEFAULT_MAX_FRAME
    /\ input = 0 /\ failed = FALSE
    /\ peerTable = <<>> /\ peerCapacity = DEFAULT_TABLE_SIZE
    /\ window = [c \in Scope |->
                    IF c = 0 THEN DEFAULT_WINDOW ELSE RECEIVE_WINDOW]
    /\ credit = [c \in Scope |-> IF c = 0 THEN StartCredit ELSE 0]
    /\ serving = {} /\ requested = {} /\ continuing = FALSE
    /\ unsent = {} /\ replaced = FALSE /\ report = NoReport

(* The client is between two calls, and the connection is in use.          *)
Ready == ~failed /\ input = 0

-----------------------------------------------------------------------------
(* The dynamic table.                                                      *)

(* The size of the n newest entries.                                       *)
Size(t, n) ==
    LET sum[k \in 0 .. Len(t)] ==
            IF k = 0 THEN 0 ELSE sum[k - 1] + FieldSize[t[k]]
    IN  sum[n]

(* evict_to_fit: the oldest entries go, as few as make the rest fit.       *)
EvictToFit(t, room) ==
    LET enough == {n \in 0 .. Len(t) : n = Len(t) \/ Size(t, Len(t) - n) <= room}
        evicted == CHOOSE n \in enough : \A k \in enough : n <= k
    IN  SubSeq(t, 1, Len(t) - evicted)

(* `insert` makes room, then declines what the table cannot hold, or keeps *)
(* it at the cost of the oldest entry if all slots are in use (and a form  *)
(* that pushes at the other end, and one that declines before it makes     *)
(* room).                                                                  *)
Declined(f, cap) == FieldSize[f] > cap \/ f \in TooLongToKeep
PushedAtEnd(f, t) == t \o <<f>>
Pushed(f, t) ==
    <<f>> \o (IF Len(t) >= MAX_ENTRIES THEN SubSeq(t, 1, MAX_ENTRIES - 1) ELSE t)
InsertedEarly(t, cap, f) ==
    IF Declined(f, cap) THEN t ELSE Pushed(f, EvictToFit(t, cap - FieldSize[f]))
Inserted(t, cap, f) ==
    LET kept == EvictToFit(t, cap - FieldSize[f])
    IN  IF Declined(f, cap) THEN kept ELSE Pushed(f, kept)

(* The server's table has no bound but its size.                           *)
PeerInserted(t, cap, f) ==
    LET kept == EvictToFit(t, cap - FieldSize[f])
    IN  IF FieldSize[f] > cap THEN kept ELSE <<f>> \o kept

-----------------------------------------------------------------------------
(* Requests.                                                               *)

(* `request` takes a slot and a number first.  A header block or body      *)
(* larger than a frame of the server's fails after that.                   *)
Request(body) ==
    /\ Ready
    /\ next_stream \in StreamId
    /\ Cardinality(streams) < MAX_STREAMS
    /\ streams' = streams \union {next_stream}
    /\ next_stream' = next_stream + 2
    /\ \/ /\ body <= peer_max_frame
          /\ requested' = requested \union {next_stream}
          /\ unsent' = unsent
       \/ /\ body > peer_max_frame
          /\ unsent' = unsent \union {next_stream}
          /\ requested' = requested
    /\ UNCHANGED <<tables, header, flow, peer_max_frame, failed, serving,
                   replaced>>

(* The server sees a request.                                              *)
RequestArrives(s) ==
    /\ s \in requested
    /\ requested' = requested \ {s}
    /\ serving' = serving \union {s}
    /\ UNCHANGED <<tables, header, flow, streams, next_stream, peer_max_frame,
                   failed, unsent, replaced>>

-----------------------------------------------------------------------------
(* Frames received.                                                        *)

(* `close` (and a form that keeps the slot).                               *)
KeptOpen(s) == streams
Closed(s) == streams \ {s}

(* The end of the header branch of `recv`: nothing left to decode.         *)
HeadersDone(left, s, end_stream) ==
    streams' = IF left = 0 /\ end_stream THEN Closed(s) ELSE streams

(* A frame that adds n fields to the ones it finds, for stream s: the      *)
(* block must fit the buffer, and is decoded once its last frame is here.  *)
Reassemble(s, found, n, end_headers, end_stream) ==
    /\ \/ /\ found + n <= MAX_HEADER_BLOCK
          /\ header_block' = found + n
          /\ failed' = FALSE
          /\ input' = IF end_headers THEN found + n ELSE 0
          /\ IF end_headers THEN HeadersDone(found + n, s, end_stream)
             ELSE streams' = streams
       \/ /\ found + n > MAX_HEADER_BLOCK
          /\ header_block' = found
          /\ failed' = TRUE
          /\ UNCHANGED <<input, streams>>
    /\ header_stream' = s
    /\ header_end_stream' = end_stream
    /\ continuing' = ~end_headers

(* HEADERS with n fields of a block, the last frame of it or not.          *)
RecvHeaders(s, n, end_headers, end_stream) ==
    /\ Ready /\ ~continuing
    /\ s \in serving
    /\ Reassemble(s, 0, n, end_headers, end_stream)
    /\ serving' = IF end_stream THEN serving \ {s} ELSE serving
    /\ UNCHANGED <<tables, flow, next_stream, peer_max_frame, requested,
                   unsent, replaced>>

RecvContinuation(n, end_headers) ==
    /\ Ready /\ continuing
    /\ Reassemble(header_stream, header_block, n, end_headers,
                  header_end_stream)
    /\ UNCHANGED <<tables, flow, next_stream, peer_max_frame, serving,
                   requested, unsent, replaced>>

(* The loop of `decode`, one turn at a time: nothing else happens before   *)
(* its last, for recv has not returned.                                    *)
Decoded ==
    /\ input' = input - 1
    /\ HeadersDone(input - 1, header_stream, header_end_stream)
    /\ failed' = FALSE

Fails ==
    /\ failed' = TRUE
    /\ UNCHANGED <<input, streams>>

Report(meant, got) == report' = [meant |-> meant, got |-> got]

(* An indexed field: the server means entry i of its table.                *)
DecodeIndexed(i) ==
    /\ \/ /\ i <= Len(table)
          /\ Decoded
          /\ Report(peerTable[i], table[i])
       \/ i > Len(table) /\ Fails /\ UNCHANGED report
    /\ UNCHANGED <<table, capacity, peerTable, peerCapacity>>

(* A literal: its name spelled (i = 0) or that of entry i, its value       *)
(* spelled; entered into both tables if it is marked for indexing.         *)
DecodeLiteral(i, f, indexing) ==
    LET got == IF i = 0 THEN f ELSE [name |-> table[i].name, value |-> f.value]
    IN  /\ i > 0 => f.name = peerTable[i].name
        /\ \/ /\ i > Len(table) \/ f \in TooLongToRead
              /\ Fails
              /\ UNCHANGED <<table, report>>
           \/ /\ i <= Len(table) /\ f \notin TooLongToRead
              /\ Decoded
              /\ Report(f, got)
              /\ table' = IF indexing THEN Inserted(table, capacity, got)
                          ELSE table
        /\ peerTable' = IF indexing THEN PeerInserted(peerTable, peerCapacity, f)
                        ELSE peerTable
        /\ UNCHANGED <<capacity, peerCapacity>>

(* A size update; the server has to stay below what the client allows,     *)
(* which is the default.                                                   *)
DecodeSizeUpdate(n) ==
    /\ n <= DEFAULT_TABLE_SIZE
    /\ capacity' = n /\ peerCapacity' = n
    /\ table' = EvictToFit(table, n)
    /\ peerTable' = EvictToFit(peerTable, n)
    /\ Decoded
    /\ UNCHANGED report

DecodeField ==
    /\ ~failed /\ input > 0
    /\ \/ \E i \in 1 .. Len(peerTable) : DecodeIndexed(i)
       \/ \E i \in 0 .. Len(peerTable), f \in Field, indexing \in BOOLEAN :
             DecodeLiteral(i, f, indexing)
       \/ \E n \in TableSizes : DecodeSizeUpdate(n)
    /\ UNCHANGED <<header_block, header_stream, header_end_stream, continuing,
                   flow, next_stream, peer_max_frame, serving, requested,
                   unsent, replaced>>

(* `credit`: past the threshold an update returns what was consumed (and a *)
(* form that forgets the streams).                                         *)
THRESHOLD == RECEIVE_WINDOW \div 2
ConnectionOnly(s) == {0}
Credited(s) == {0} \union (streams \intersect {s})
AfterCredit(c, n) == IF consumed[c] + n >= THRESHOLD THEN 0 ELSE consumed[c] + n
Update(c, n) == IF consumed[c] + n >= THRESHOLD THEN consumed[c] + n ELSE 0

Credit(s, n) ==
    /\ consumed' = [c \in Scope |->
          IF c \in Credited(s) THEN AfterCredit(c, n) ELSE consumed[c]]
    /\ credit' = [c \in Scope |->
          IF c \in Credited(s) THEN credit[c] + Update(c, n) ELSE credit[c]]

(* DATA of n bytes, padding included.                                      *)
RecvData(s, n, end_stream) ==
    /\ Ready /\ ~continuing
    /\ s \in serving
    /\ n <= window[0] /\ n <= window[s]
    /\ window' = [window EXCEPT ![0] = @ - n, ![s] = @ - n]
    /\ Credit(s, n)
    /\ streams' = IF end_stream THEN Closed(s) ELSE streams
    /\ serving' = IF end_stream THEN serving \ {s} ELSE serving
    /\ UNCHANGED <<tables, header, next_stream, peer_max_frame, failed,
                   requested, unsent, replaced>>

RecvRstStream(s) ==
    /\ Ready /\ ~continuing
    /\ s \in serving
    /\ streams' = Closed(s)
    /\ serving' = serving \ {s}
    /\ UNCHANGED <<tables, header, flow, next_stream, peer_max_frame, failed,
                   requested, unsent, replaced>>

(* apply_settings: a new HEADER_TABLE_SIZE makes a new decoder, although   *)
(* the server's encoder goes on with the table it has.                     *)
RecvTableSize(n) ==
    /\ Ready /\ ~continuing
    /\ table' = <<>> /\ capacity' = n
    /\ replaced' = TRUE
    /\ UNCHANGED <<peerTable, peerCapacity, report, header, flow, streams,
                   next_stream, peer_max_frame, failed, serving, requested,
                   unsent>>

RecvMaxFrame(n) ==
    /\ Ready /\ ~continuing
    /\ peer_max_frame' = n
    /\ UNCHANGED <<tables, header, flow, streams, next_stream, failed, serving,
                   requested, unsent, replaced>>

(* The server takes the updates that have reached it.                      *)
CreditArrives(c) ==
    /\ credit[c] > 0
    /\ window' = [window EXCEPT ![c] = @ + credit[c]]
    /\ credit' = [credit EXCEPT ![c] = 0]
    /\ UNCHANGED <<tables, header, consumed, streams, next_stream,
                   peer_max_frame, failed, serving, requested, unsent,
                   replaced>>

Recv ==
    \/ \E s \in StreamId :
          \/ \E n \in 0 .. MAX_HEADER_BLOCK + 1, eh, es \in BOOLEAN :
                RecvHeaders(s, n, eh, es)
          \/ \E n \in Chunks, es \in BOOLEAN : RecvData(s, n, es)
          \/ RecvRstStream(s)
    \/ \E n \in 0 .. MAX_HEADER_BLOCK, eh \in BOOLEAN : RecvContinuation(n, eh)
    \/ \E n \in TableSizes : RecvTableSize(n)
    \/ \E n \in FrameSizes : RecvMaxFrame(n)
    \/ DecodeField

Next ==
    \/ Recv
    \/ \E body \in Bodies : Request(body)
    \/ \E s \in StreamId : RequestArrives(s)
    \/ \E c \in Scope : CreditArrives(c)

Spec == Init /\ [][Next]_vars

-----------------------------------------------------------------------------
(* Headers.                                                                *)

(* "Decoding an unknown index is an error here rather than a best-effort   *)
(* guess" (dynamic.rs): a field handed to the caller is the field the      *)
(* server meant, whatever was inserted, evicted, declined and resized      *)
(* before.  Holds if no field is longer than MAX_ENTRY_LEN.                *)
NeverWrong == report.got = report.meant

(* Where both tables have an entry it is the same.  They need not be       *)
(* equally long: see MAX_ENTRIES and RecvTableSize.                        *)
TablesAgree ==
    ~failed =>
        \A i \in 1 .. Len(table) :
            i <= Len(peerTable) => table[i] = peerTable[i]

(* "Both ends must compute the same size or they evict at different        *)
(* moments and the tables diverge" (ENTRY_OVERHEAD): until a setting       *)
(* replaces the decoder its table is the server's, but for the oldest      *)
(* entries when there are more than MAX_ENTRIES.                           *)
InStep ==
    ~failed /\ ~replaced =>
        table = SubSeq(peerTable, 1, IF Len(peerTable) < MAX_ENTRIES
                                     THEN Len(peerTable) ELSE MAX_ENTRIES)

-----------------------------------------------------------------------------
(* Streams and flow control.                                               *)

(* The stream whose last header block is being received.                   *)
Ending ==
    IF header_end_stream /\ (continuing \/ input > 0) THEN {header_stream}
    ELSE {}

(* The slots of the stream table are those of requests the server has      *)
(* still to answer, and of requests that were never written: `request`     *)
(* takes a slot first and does not give it back when it fails.             *)
SlotsAccounted ==
    ~failed => streams = requested \union serving \union Ending \union unsent

(* Every byte of window is with the server, on its way to it, or consumed  *)
(* and not yet returned: `credit` neither loses nor invents any.           *)
CreditConserved ==
    \A c \in Scope :
        /\ window[c] + credit[c] + consumed[c] = RECEIVE_WINDOW
        /\ consumed[c] < THRESHOLD

(* What the accounting rests on: a stream in use has a slot, until its     *)
(* last header block is complete if that is what ends it, and a number is  *)
(* used once.                                                              *)
StreamsInUse ==
    /\ requested \union serving \subseteq streams
    /\ requested \intersect serving = {}
    /\ Ending \intersect (requested \union serving) = {}
    /\ \A s \in streams \union {header_stream} : s < next_stream

(* "A client that never sends WINDOW_UPDATE receives precisely 65535 bytes *)
(* and then hangs forever" (conn.rs): the server always has, or is about   *)
(* to get, more than half of the window, on the connection and on every    *)
(* stream it serves.                                                       *)
NeverStalls ==
    \A c \in {0} \union serving :
        window[c] + credit[c] > RECEIVE_WINDOW - THRESHOLD

(* The inductive invariants: that of flow control holds for all fields,    *)
(* that of the tables if none is too long to keep.                         *)
FlowInv == StreamTypeOK /\ FlowTypeOK /\ StreamsInUse /\ CreditConserved
TableInv == TableTypeOK /\ TablesAgree /\ NeverWrong

Inv == TypeOK /\ FlowInv /\ TableInv

(* What the client has written reaches the server.                         *)
FlowSpec == Spec /\ \A c \in Scope : WF_vars(CreditArrives(c))

(* A long poll never hangs: as long as the server serves a stream it can   *)
(* send on it again and again.                                             *)
KeepsStreaming ==
    \A s \in StreamId :
        []<>(s \in serving /\ ~failed => window[0] > 0 /\ window[s] > 0)

=============================================================================
