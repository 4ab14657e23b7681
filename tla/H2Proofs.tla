------------------------------ MODULE H2Proofs ------------------------------
(***************************************************************************)
(* Proofs about the streams of H2Connection: the server is never left      *)
(* without window, and every slot of the stream table is accounted for.    *)
(* The header tables are in HpackProofs.                                   *)
(***************************************************************************)
EXTENDS H2Connection, TLAPS

-----------------------------------------------------------------------------
(* Flow control.                                                           *)

LEMMA ScopeFacts ==
    StreamId \subseteq Nat \ {0} /\ Scope = {0} \union StreamId
BY FrameAssumption DEF StreamId, Scope

LEMMA FlowInit == Init => FlowInv
<1> SUFFICES ASSUME Init PROVE FlowInv
  OBVIOUS
<1>1. StreamTypeOK
  BY ScopeFacts DEF Init, StreamTypeOK
<1>2. FlowTypeOK
  BY ScopeFacts, WindowAssumption DEF Init, FlowTypeOK, StartCredit
<1>3. StreamsInUse
  BY DEF Init, StreamsInUse, Ending
<1>4. CreditConserved
  BY ScopeFacts, WindowAssumption
     DEF Init, CreditConserved, StartCredit, THRESHOLD
<1>5. QED
  BY <1>1, <1>2, <1>3, <1>4 DEF FlowInv

(* The header frames and the decoder change streams and header, and leave  *)
(* credit alone.                                                           *)
LEMMA HeaderFrames ==
    ASSUME FlowInv,
           \/ \E s \in StreamId, n \in 0 .. MAX_HEADER_BLOCK + 1,
                 eh, es \in BOOLEAN : RecvHeaders(s, n, eh, es)
           \/ \E n \in 0 .. MAX_HEADER_BLOCK, eh \in BOOLEAN :
                 RecvContinuation(n, eh)
           \/ DecodeField
    PROVE  StreamTypeOK' /\ StreamsInUse' /\ UNCHANGED flow
<1> USE ScopeFacts, TableAssumption DEF FlowInv
<1>1. ASSUME NEW s \in StreamId, NEW n \in 0 .. MAX_HEADER_BLOCK + 1,
             NEW eh \in BOOLEAN, NEW es \in BOOLEAN,
             RecvHeaders(s, n, eh, es)
      PROVE  StreamTypeOK' /\ StreamsInUse' /\ UNCHANGED flow
  <2>1. StreamTypeOK'
    <3>1. /\ next_stream' = next_stream /\ header_stream' = s
          /\ requested' = requested /\ unsent' = unsent
          /\ header_end_stream' = es /\ continuing' = ~eh
          /\ serving' \subseteq serving /\ streams' \subseteq streams
      BY <1>1 DEF RecvHeaders, Reassemble, HeadersDone, Closed
    <3>2. header_block' \in Nat /\ input' \in Nat
      BY <1>1 DEF RecvHeaders, Reassemble, StreamTypeOK
    <3>3. header_end_stream' \in BOOLEAN /\ continuing' \in BOOLEAN
      BY <3>1
    <3>4. QED
      BY <3>1, <3>2, <3>3 DEF StreamTypeOK
  <2>2. StreamsInUse'
    <3>1. /\ requested' = requested /\ next_stream' = next_stream
          /\ header_stream' = s /\ s \in serving
          /\ serving' = IF es THEN serving \ {s} ELSE serving
          /\ header_end_stream' = es
          /\ \/ streams' = streams
             \/ es /\ streams' = streams \ {s}
      BY <1>1 DEF RecvHeaders, Reassemble, HeadersDone, Closed
    <3>2. (requested \union serving \subseteq streams)'
      BY <3>1 DEF StreamsInUse
    <3>3. (requested \intersect serving = {})'
      BY <3>1 DEF StreamsInUse
    <3>4. (Ending \intersect (requested \union serving) = {})'
      BY <3>1 DEF StreamsInUse, Ending
    <3>5. (\A r \in streams \union {header_stream} : r < next_stream)'
      BY <3>1 DEF StreamsInUse
    <3>6. QED
      BY <3>2, <3>3, <3>4, <3>5 DEF StreamsInUse
  <2>3. QED
    BY <1>1, <2>1, <2>2 DEF RecvHeaders
<1>2. ASSUME NEW n \in 0 .. MAX_HEADER_BLOCK, NEW eh \in BOOLEAN,
             RecvContinuation(n, eh)
      PROVE  StreamTypeOK' /\ StreamsInUse' /\ UNCHANGED flow
  <2>1. StreamTypeOK'
    <3>1. /\ next_stream' = next_stream /\ header_stream' = header_stream
          /\ requested' = requested /\ unsent' = unsent
          /\ header_end_stream' = header_end_stream /\ continuing' = ~eh
          /\ serving' = serving /\ streams' \subseteq streams
      BY <1>2 DEF RecvContinuation, Reassemble, HeadersDone, Closed
    <3>2. header_block' \in Nat /\ input' \in Nat
      BY <1>2 DEF RecvContinuation, Reassemble, StreamTypeOK
    <3>3. header_end_stream' \in BOOLEAN /\ continuing' \in BOOLEAN
      BY <3>1 DEF StreamTypeOK
    <3>4. QED
      BY <3>1, <3>2, <3>3 DEF StreamTypeOK
  <2>2. StreamsInUse'
    <3>1. /\ requested' = requested /\ next_stream' = next_stream
          /\ header_stream' = header_stream /\ serving' = serving
          /\ header_end_stream' = header_end_stream /\ continuing
          /\ \/ streams' = streams
             \/ header_end_stream /\ streams' = streams \ {header_stream}
      BY <1>2 DEF RecvContinuation, Reassemble, HeadersDone, Closed
    <3>2. header_end_stream => header_stream \notin requested \union serving
      BY <3>1 DEF StreamsInUse, Ending
    <3>3. (requested \union serving \subseteq streams)'
      BY <3>1, <3>2 DEF StreamsInUse
    <3>4. (requested \intersect serving = {})'
      BY <3>1 DEF StreamsInUse
    <3>5. (Ending \intersect (requested \union serving) = {})'
      BY <3>1, <3>2 DEF StreamsInUse, Ending
    <3>6. (\A r \in streams \union {header_stream} : r < next_stream)'
      BY <3>1 DEF StreamsInUse
    <3>7. QED
      BY <3>3, <3>4, <3>5, <3>6 DEF StreamsInUse
  <2>3. QED
    BY <1>2, <2>1, <2>2 DEF RecvContinuation
<1>3. ASSUME DecodeField
      PROVE  StreamTypeOK' /\ StreamsInUse' /\ UNCHANGED flow
  <2>1. Decoded \/ Fails
    BY <1>3 DEF DecodeField, DecodeIndexed, DecodeLiteral, DecodeSizeUpdate
  <2>2. /\ input > 0
        /\ UNCHANGED <<header_block, header_stream, header_end_stream,
                       continuing, flow, next_stream, serving, requested,
                       unsent>>
    BY <1>3 DEF DecodeField
  <2>3. StreamTypeOK'
    <3>1. streams' \subseteq streams /\ input' \in {input, input - 1}
      BY <2>1 DEF Decoded, Fails, HeadersDone, Closed
    <3>2. input' \in Nat
      BY <2>2, <3>1 DEF StreamTypeOK
    <3>3. header_end_stream' \in BOOLEAN /\ continuing' \in BOOLEAN
      BY <2>2 DEF StreamTypeOK
    <3>4. QED
      BY <2>2, <3>1, <3>2, <3>3 DEF StreamTypeOK
  <2>4. StreamsInUse'
    <3>1. \/ streams' = streams
          \/ header_end_stream /\ streams' = streams \ {header_stream}
      BY <2>1 DEF Decoded, Fails, HeadersDone, Closed
    <3>2. header_end_stream => header_stream \notin requested \union serving
      BY <2>2 DEF StreamsInUse, Ending
    <3>3. (requested \union serving \subseteq streams)'
      BY <2>2, <3>1, <3>2 DEF StreamsInUse
    <3>4. (requested \intersect serving = {})'
      BY <2>2 DEF StreamsInUse
    <3>5. (Ending \intersect (requested \union serving) = {})'
      BY <2>2, <3>2 DEF StreamsInUse, Ending
    <3>6. (\A r \in streams \union {header_stream} : r < next_stream)'
      BY <2>2, <3>1 DEF StreamsInUse
    <3>7. QED
      BY <3>3, <3>4, <3>5, <3>6 DEF StreamsInUse
  <2>5. QED
    BY <2>2, <2>3, <2>4
<1>4. QED
  BY <1>1, <1>2, <1>3

(* DATA: what leaves the window is consumed or returned.                   *)
LEMMA DataFrames ==
    ASSUME FlowInv, NEW s \in StreamId, NEW n \in Chunks, NEW es \in BOOLEAN,
           RecvData(s, n, es)
    PROVE  FlowInv'
<1> USE ScopeFacts, WindowAssumption DEF FlowInv
<1>1. /\ requested' = requested /\ next_stream' = next_stream
      /\ header_stream' = header_stream /\ s \in serving
      /\ serving' = IF es THEN serving \ {s} ELSE serving
      /\ streams' = IF es THEN streams \ {s} ELSE streams
      /\ UNCHANGED <<header, unsent>>
  BY DEF RecvData, Closed, header
<1>2. StreamTypeOK'
  BY <1>1 DEF StreamTypeOK, header
<1>3. StreamsInUse'
  BY <1>1 DEF StreamsInUse, Ending, header
<1>4. Credited(s) = {0, s}
  BY <1>1 DEF Credited, StreamsInUse
<1>5. n \in Nat /\ THRESHOLD \in Nat /\ s # 0 /\ s \in Scope /\ 0 \in Scope
  BY DEF THRESHOLD
<1>6. /\ n <= window[0] /\ n <= window[s]
      /\ window' = [window EXCEPT ![0] = @ - n, ![s] = @ - n]
      /\ Credit(s, n)
  BY DEF RecvData
<1>7. ASSUME NEW c \in Scope
      PROVE  /\ window'[c] \in Nat /\ credit'[c] \in Nat /\ consumed'[c] \in Nat
             /\ window'[c] + credit'[c] + consumed'[c] = RECEIVE_WINDOW
             /\ consumed'[c] < THRESHOLD
  <2>1. /\ window[c] \in Nat /\ credit[c] \in Nat /\ consumed[c] \in Nat
        /\ window[c] + credit[c] + consumed[c] = RECEIVE_WINDOW
        /\ consumed[c] < THRESHOLD
    BY DEF FlowTypeOK, CreditConserved
  <2>2. CASE c \in {0, s}
    <3>1. window'[c] = window[c] - n /\ window[c] >= n
      BY <1>5, <1>6, <2>2 DEF FlowTypeOK
    <3>2. consumed'[c] = AfterCredit(c, n) /\ credit'[c] = credit[c] + Update(c, n)
      BY <1>4, <1>6, <2>2 DEF Credit
    <3>3. CASE consumed[c] + n >= THRESHOLD
      BY <1>5, <2>1, <3>1, <3>2, <3>3 DEF AfterCredit, Update, THRESHOLD
    <3>4. CASE ~(consumed[c] + n >= THRESHOLD)
      BY <1>5, <2>1, <3>1, <3>2, <3>4 DEF AfterCredit, Update
    <3>5. QED
      BY <3>3, <3>4
  <2>3. CASE c \notin {0, s}
    <3>1. window'[c] = window[c]
      BY <1>5, <1>6, <2>3 DEF FlowTypeOK
    <3>2. consumed'[c] = consumed[c] /\ credit'[c] = credit[c]
      BY <1>4, <1>6, <2>3 DEF Credit
    <3>3. QED
      BY <2>1, <3>1, <3>2
  <2>4. QED
    BY <2>2, <2>3
<1>8. FlowTypeOK'
  <2>1. /\ window' = [c \in Scope |-> window'[c]]
        /\ consumed' = [c \in Scope |-> consumed'[c]]
        /\ credit' = [c \in Scope |-> credit'[c]]
    BY <1>6 DEF FlowTypeOK, Credit
  <2>2. QED
    BY <1>7, <2>1 DEF FlowTypeOK
<1>9. CreditConserved'
  BY <1>7 DEF CreditConserved
<1>10. QED
  BY <1>2, <1>3, <1>8, <1>9

LEMMA FlowNext == FlowInv /\ [Next]_vars => FlowInv'
<1> SUFFICES ASSUME FlowInv, [Next]_vars PROVE FlowInv'
  OBVIOUS
<1> USE ScopeFacts DEF FlowInv
<1>1. CASE \/ \E s \in StreamId, n \in 0 .. MAX_HEADER_BLOCK + 1,
               eh, es \in BOOLEAN : RecvHeaders(s, n, eh, es)
           \/ \E n \in 0 .. MAX_HEADER_BLOCK, eh \in BOOLEAN :
               RecvContinuation(n, eh)
           \/ DecodeField
  <2>1. StreamTypeOK' /\ StreamsInUse' /\ UNCHANGED flow
    BY <1>1, HeaderFrames
  <2>2. QED
    BY <2>1 DEF FlowTypeOK, CreditConserved, flow
<1>2. CASE \E s \in StreamId, n \in Chunks, es \in BOOLEAN : RecvData(s, n, es)
  BY <1>2, DataFrames
<1>3. ASSUME NEW s \in StreamId, RecvRstStream(s)
      PROVE  FlowInv'
  <2>1. /\ streams' = streams \ {s} /\ serving' = serving \ {s} /\ s \in serving
        /\ UNCHANGED <<requested, next_stream, header, flow, unsent>>
    BY <1>3 DEF RecvRstStream, Closed
  <2>2. StreamTypeOK' /\ FlowTypeOK' /\ CreditConserved'
    BY <2>1 DEF StreamTypeOK, FlowTypeOK, CreditConserved, header, flow
  <2>3. StreamsInUse'
    BY <2>1 DEF StreamsInUse, Ending, header
  <2>4. QED
    BY <2>2, <2>3
<1>4. ASSUME NEW body \in Bodies, Request(body)
      PROVE  FlowInv'
  <2>1. /\ streams' = streams \union {next_stream} /\ next_stream \in StreamId
        /\ next_stream' = next_stream + 2
        /\ requested' \in {requested, requested \union {next_stream}}
        /\ unsent' \in {unsent, unsent \union {next_stream}}
        /\ UNCHANGED <<serving, header, flow>>
    BY <1>4 DEF Request
  <2>2. StreamTypeOK' /\ FlowTypeOK' /\ CreditConserved'
    BY <2>1 DEF StreamTypeOK, FlowTypeOK, CreditConserved, header, flow
  <2>3. next_stream \notin streams \union {header_stream} /\ next_stream \in Nat
    BY <2>1 DEF StreamsInUse
  <2>4. (requested \union serving \subseteq streams)'
    BY <2>1 DEF StreamsInUse
  <2>5. (requested \intersect serving = {})'
    BY <2>1, <2>3 DEF StreamsInUse
  <2>6. (Ending \intersect (requested \union serving) = {})'
    BY <2>1, <2>3 DEF StreamsInUse, Ending, header
  <2>7. (\A r \in streams \union {header_stream} : r < next_stream)'
    BY <2>1, <2>3 DEF StreamsInUse, StreamTypeOK, header
  <2>8. QED
    BY <2>2, <2>4, <2>5, <2>6, <2>7 DEF StreamsInUse
<1>5. ASSUME NEW s \in StreamId, RequestArrives(s)
      PROVE  FlowInv'
  <2>1. /\ s \in requested /\ requested' = requested \ {s}
        /\ serving' = serving \union {s}
        /\ UNCHANGED <<streams, next_stream, header, flow, unsent>>
    BY <1>5 DEF RequestArrives
  <2>2. StreamTypeOK' /\ FlowTypeOK' /\ CreditConserved'
    BY <2>1 DEF StreamTypeOK, FlowTypeOK, CreditConserved, header, flow
  <2>3. StreamsInUse'
    BY <2>1 DEF StreamsInUse, Ending, header
  <2>4. QED
    BY <2>2, <2>3
<1>6. ASSUME NEW c \in Scope, CreditArrives(c)
      PROVE  FlowInv'
  <2>1. /\ window' = [window EXCEPT ![c] = @ + credit[c]]
        /\ credit' = [credit EXCEPT ![c] = 0]
        /\ UNCHANGED <<consumed, streams, next_stream, header, requested,
                       serving, unsent>>
    BY <1>6 DEF CreditArrives
  <2>2. StreamTypeOK'
    BY <2>1 DEF StreamTypeOK, header
  <2>3. StreamsInUse'
    BY <2>1 DEF StreamsInUse, Ending, header
  <2>4. FlowTypeOK'
    BY <2>1 DEF FlowTypeOK
  <2>5. CreditConserved'
    BY <2>1 DEF FlowTypeOK, CreditConserved
  <2>6. QED
    BY <2>2, <2>3, <2>4, <2>5
<1>7. CASE \/ \E n \in TableSizes : RecvTableSize(n)
           \/ \E n \in FrameSizes : RecvMaxFrame(n)
           \/ UNCHANGED vars
  <2>1. UNCHANGED <<header, flow, streams, next_stream, serving, requested, unsent>>
    BY <1>7 DEF RecvTableSize, RecvMaxFrame, vars, header, flow
  <2>2. QED
    BY <2>1 DEF StreamTypeOK, StreamsInUse, Ending, FlowTypeOK,
                CreditConserved, header, flow
<1>8. QED
  BY <1>1, <1>2, <1>3, <1>4, <1>5, <1>6, <1>7 DEF Next, Recv

(* The accounting of streams and credit holds for every window, threshold, *)
(* number of streams and sequence of frames.                               *)
THEOREM FlowInvariant == Spec => []FlowInv
BY FlowInit, FlowNext, PTL DEF Spec

(* The server is never left without window, on the connection or on a      *)
(* stream it serves: `credit` returns it in time.                          *)
THEOREM NoStall == Spec => []NeverStalls
<1>1. FlowInv => NeverStalls
  <2> SUFFICES ASSUME FlowInv, NEW c \in {0} \union serving
               PROVE  window[c] + credit[c] > RECEIVE_WINDOW - THRESHOLD
    BY DEF NeverStalls
  <2>1. c \in Scope
    BY ScopeFacts DEF FlowInv, StreamTypeOK
  <2>2. QED
    BY <2>1, WindowAssumption
       DEF FlowInv, FlowTypeOK, CreditConserved, THRESHOLD
<1>2. QED
  BY <1>1, FlowInvariant, PTL

-----------------------------------------------------------------------------
(* The slots of the stream table.                                          *)

(* Strengthening of SlotsAccounted: a request that was never written is    *)
(* none the server can end, and `decode` runs on complete blocks only.     *)
LedgerInv ==
    /\ SlotsAccounted
    /\ \A r \in unsent : r < next_stream
    /\ unsent \intersect (requested \union serving \union Ending) = {}
    /\ input > 0 => ~continuing

(* The header frames: a stream they end keeps its slot until its block is  *)
(* decoded.                                                                *)
LEMMA HeaderLedger ==
    ASSUME FlowInv, LedgerInv,
           \/ \E s \in StreamId, n \in 0 .. MAX_HEADER_BLOCK + 1,
                 eh, es \in BOOLEAN : RecvHeaders(s, n, eh, es)
           \/ \E n \in 0 .. MAX_HEADER_BLOCK, eh \in BOOLEAN :
                 RecvContinuation(n, eh)
    PROVE  LedgerInv'
<1>1. ASSUME NEW s \in StreamId, NEW n \in 0 .. MAX_HEADER_BLOCK + 1,
             NEW eh \in BOOLEAN, NEW es \in BOOLEAN,
             RecvHeaders(s, n, eh, es)
      PROVE  LedgerInv'
  <2>1. /\ ~failed /\ input = 0 /\ ~continuing /\ s \in serving
        /\ UNCHANGED <<next_stream, requested, unsent>>
        /\ serving' = IF es THEN serving \ {s} ELSE serving
        /\ header_stream' = s /\ header_end_stream' = es /\ continuing' = ~eh
    BY <1>1 DEF RecvHeaders, Reassemble, Ready
  <2>2. Ending = {} /\ s \notin requested /\ s \notin unsent
    BY <2>1 DEF Ending, FlowInv, StreamsInUse, LedgerInv
  <2>3. Ending' \subseteq {s} /\ (~es => Ending' = {})
    BY <2>1 DEF Ending
  <2>4. streams = requested \union serving \union unsent
    BY <2>1, <2>2 DEF LedgerInv, SlotsAccounted
  <2>b. /\ (eh => ~continuing') /\ (~eh => continuing')
        /\ (es => header_end_stream') /\ header_stream' = s
    BY <2>1, Zenon
  <2>5. CASE /\ failed' = FALSE
             /\ input' = IF eh THEN 0 + n ELSE 0
             /\ IF eh THEN HeadersDone(0 + n, s, es) ELSE streams' = streams
    <3>0. /\ input' = IF eh THEN n ELSE 0
          /\ streams' = IF eh /\ n = 0 /\ es THEN streams \ {s} ELSE streams
      BY <2>5, TableAssumption DEF HeadersDone, Closed
    <3>1. es => Ending' = IF eh /\ n = 0 THEN {} ELSE {s}
      <4>1. CASE eh /\ n = 0
        BY <2>b, <3>0, <4>1 DEF Ending
      <4>2. CASE eh /\ n # 0
        BY <2>b, <3>0, <4>2, TableAssumption DEF Ending
      <4>3. CASE ~eh
        BY <2>b, <4>3 DEF Ending
      <4>4. QED
        BY <4>1, <4>2, <4>3
    <3>2. streams' = requested' \union serving' \union Ending' \union unsent'
      BY <2>1, <2>2, <2>3, <2>4, <3>0, <3>1
    <3>3. input' > 0 => ~continuing'
      BY <2>b, <3>0
    <3>4. QED
      BY <2>1, <2>2, <2>3, <3>2, <3>3 DEF LedgerInv, SlotsAccounted
  <2>6. CASE failed' = TRUE /\ input' = input
    BY <2>1, <2>2, <2>3, <2>6 DEF LedgerInv, SlotsAccounted
  <2>7. QED
    BY <1>1, <2>5, <2>6, Zenon DEF RecvHeaders, Reassemble
<1>2. ASSUME NEW n \in 0 .. MAX_HEADER_BLOCK, NEW eh \in BOOLEAN,
             RecvContinuation(n, eh)
      PROVE  LedgerInv'
  <2> DEFINE left == header_block + n
  <2>1. /\ ~failed /\ input = 0 /\ continuing
        /\ UNCHANGED <<next_stream, requested, unsent, serving>>
        /\ header_stream' = header_stream /\ header_end_stream' = header_end_stream
        /\ continuing' = ~eh
    BY <1>2 DEF RecvContinuation, Reassemble, Ready
  <2>2. Ending = IF header_end_stream THEN {header_stream} ELSE {}
    BY <2>1 DEF Ending
  <2>3. Ending' \subseteq Ending
    BY <2>1, <2>2 DEF Ending
  <2>4. streams = requested \union serving \union Ending \union unsent
    BY <2>1 DEF LedgerInv, SlotsAccounted
  <2>5. /\ Ending \intersect (requested \union serving) = {}
        /\ Ending \intersect unsent = {}
    BY DEF FlowInv, StreamsInUse, LedgerInv
  <2>b. /\ (eh => ~continuing') /\ (~eh => continuing')
        /\ (header_end_stream => header_end_stream')
        /\ (~header_end_stream => ~header_end_stream')
        /\ header_stream' = header_stream
    BY <2>1, Zenon
  <2>6. CASE /\ failed' = FALSE
             /\ input' = IF eh THEN left ELSE 0
             /\ IF eh THEN HeadersDone(left, header_stream, header_end_stream)
                ELSE streams' = streams
    <3>0. left \in Nat
      BY TableAssumption DEF FlowInv, StreamTypeOK
    <3> HIDE DEF left
    <3>s. /\ input' = IF eh THEN left ELSE 0
          /\ streams' = IF eh /\ left = 0 /\ header_end_stream
                        THEN streams \ {header_stream} ELSE streams
      BY <2>6 DEF HeadersDone, Closed
    <3>1. Ending' = IF eh /\ left = 0 THEN {} ELSE Ending
      <4>1. CASE eh /\ left = 0
        BY <2>b, <3>s, <4>1 DEF Ending
      <4>2. CASE eh /\ left # 0
        <5>1. input' > 0
          BY <3>0, <3>s, <4>2
        <5>2. QED
          BY <2>2, <2>b, <5>1, <4>2 DEF Ending
      <4>3. CASE ~eh
        BY <2>2, <2>b, <4>3 DEF Ending
      <4>4. QED
        BY <4>1, <4>2, <4>3
    <3>2. streams' = requested' \union serving' \union Ending' \union unsent'
      BY <2>1, <2>2, <2>4, <2>5, <3>s, <3>1
    <3>3. input' > 0 => ~continuing'
      BY <2>b, <3>s
    <3>4. QED
      BY <2>1, <2>3, <3>2, <3>3 DEF LedgerInv, SlotsAccounted
  <2>7. CASE failed' = TRUE /\ input' = input
    BY <2>1, <2>3, <2>7 DEF LedgerInv, SlotsAccounted
  <2>8. QED
    BY <1>2, <2>6, <2>7, Zenon DEF RecvContinuation, Reassemble
<1>3. QED
  BY <1>1, <1>2

(* `decode`: its last turn gives the slot back if the block ends a stream. *)
LEMMA DecodeLedger ==
    ASSUME FlowInv, LedgerInv, DecodeField
    PROVE  LedgerInv'
<1>1. Decoded \/ Fails
  BY Zenon DEF DecodeField, DecodeIndexed, DecodeLiteral, DecodeSizeUpdate
<1>2. /\ ~failed /\ input > 0 /\ input \in Nat
      /\ UNCHANGED <<header_stream, header_end_stream, continuing, next_stream,
                     serving, requested, unsent>>
  BY DEF DecodeField, FlowInv, StreamTypeOK
<1>3. ~continuing /\ ~continuing'
  BY <1>2 DEF LedgerInv
<1>4. Ending = IF header_end_stream THEN {header_stream} ELSE {}
  BY <1>2 DEF Ending
<1>5. Ending' \subseteq Ending
  BY <1>2, <1>4 DEF Ending
<1>6. CASE Decoded
  <2>1. /\ input' = input - 1 /\ failed' = FALSE
        /\ streams' = IF input - 1 = 0 /\ header_end_stream
                      THEN streams \ {header_stream} ELSE streams
    BY <1>6 DEF Decoded, HeadersDone, Closed
  <2>2. Ending' = IF input - 1 = 0 THEN {} ELSE Ending
    BY <1>2, <1>3, <1>4, <2>1 DEF Ending
  <2>3. streams = requested \union serving \union Ending \union unsent
    BY <1>2 DEF LedgerInv, SlotsAccounted
  <2>4. /\ Ending \intersect (requested \union serving) = {}
        /\ Ending \intersect unsent = {}
    BY DEF FlowInv, StreamsInUse, LedgerInv
  <2>5. streams' = requested' \union serving' \union Ending' \union unsent'
    BY <1>2, <1>4, <2>1, <2>2, <2>3, <2>4
  <2>6. QED
    BY <1>2, <1>3, <1>5, <2>5 DEF LedgerInv, SlotsAccounted
<1>7. CASE Fails
  BY <1>2, <1>3, <1>5, <1>7 DEF LedgerInv, SlotsAccounted, Fails
<1>8. QED
  BY <1>1, <1>6, <1>7

(* DATA and RST_STREAM, which come between header blocks.                  *)
LEMMA CloseLedger ==
    ASSUME FlowInv, LedgerInv, NEW s \in StreamId,
           RecvRstStream(s) \/ \E n \in Chunks, es \in BOOLEAN : RecvData(s, n, es)
    PROVE  LedgerInv'
<1>1. /\ ~failed /\ input = 0 /\ ~continuing /\ s \in serving
      /\ UNCHANGED <<header, next_stream, requested, unsent, failed>>
  BY DEF RecvRstStream, RecvData, Ready
<1>2. \/ streams' = streams /\ serving' = serving
      \/ streams' = streams \ {s} /\ serving' = serving \ {s}
  BY DEF RecvRstStream, RecvData, Closed
<1>3. Ending = {} /\ Ending' = {}
  BY <1>1 DEF Ending, header
<1>4. s \notin requested /\ s \notin unsent
  BY <1>1 DEF FlowInv, StreamsInUse, LedgerInv
<1>5. streams = requested \union serving \union Ending \union unsent
  BY <1>1 DEF LedgerInv, SlotsAccounted
<1>6. streams' = requested' \union serving' \union Ending' \union unsent'
  BY <1>1, <1>2, <1>3, <1>4, <1>5
<1>7. QED
  BY <1>1, <1>2, <1>3, <1>6 DEF LedgerInv, SlotsAccounted, header

(* Requests and what changes no stream.                                    *)
LEMMA OtherLedger ==
    ASSUME FlowInv, LedgerInv,
           \/ \E body \in Bodies : Request(body)
           \/ \E s \in StreamId : RequestArrives(s)
           \/ \E c \in Scope : CreditArrives(c)
           \/ \E n \in TableSizes : RecvTableSize(n)
           \/ \E n \in FrameSizes : RecvMaxFrame(n)
           \/ UNCHANGED vars
    PROVE  LedgerInv'
<1>0. UNCHANGED <<header, failed>>
  BY DEF Request, RequestArrives, CreditArrives, RecvTableSize, RecvMaxFrame, vars, header
<1>1. Ending' = Ending /\ (input' > 0 => ~continuing')
  BY <1>0 DEF Ending, header, LedgerInv
<1>2. ASSUME NEW body \in Bodies, Request(body)
      PROVE  LedgerInv'
  <2>1. /\ streams' = streams \union {next_stream} /\ next_stream' = next_stream + 2
        /\ \/ requested' = requested \union {next_stream} /\ unsent' = unsent
           \/ unsent' = unsent \union {next_stream} /\ requested' = requested
        /\ serving' = serving
    BY <1>2 DEF Request
  <2>2. /\ next_stream \in Nat /\ \A r \in streams \union {header_stream} : r < next_stream
        /\ requested \union serving \subseteq streams
        /\ \A r \in unsent : r < next_stream /\ r \in Nat
    BY ScopeFacts DEF FlowInv, StreamTypeOK, StreamsInUse, LedgerInv
  <2>3. next_stream \notin requested \union serving \union Ending \union unsent
    BY <2>2 DEF Ending
  <2>4. \A r \in unsent' : r < next_stream'
    BY <2>1, <2>2
  <2>5. (unsent \intersect (requested \union serving \union Ending) = {})'
    BY <1>1, <2>1, <2>3 DEF LedgerInv
  <2>6. SlotsAccounted'
    BY <1>0, <1>1, <2>1 DEF LedgerInv, SlotsAccounted
  <2>7. QED
    BY <1>1, <2>4, <2>5, <2>6 DEF LedgerInv
<1>3. ASSUME NEW s \in StreamId, RequestArrives(s)
      PROVE  LedgerInv'
  <2>1. /\ s \in requested /\ requested' = requested \ {s}
        /\ serving' = serving \union {s}
        /\ UNCHANGED <<streams, next_stream, unsent>>
    BY <1>3 DEF RequestArrives
  <2>2. requested' \union serving' = requested \union serving
    BY <2>1
  <2>3. QED
    BY <1>0, <1>1, <2>1, <2>2 DEF LedgerInv, SlotsAccounted
<1>4. CASE UNCHANGED <<streams, next_stream, serving, requested, unsent>>
  BY <1>0, <1>1, <1>4 DEF LedgerInv, SlotsAccounted
<1>5. QED
  BY <1>2, <1>3, <1>4 DEF CreditArrives, RecvTableSize, RecvMaxFrame, vars

(* No slot of the stream table is lost or given back twice, whatever ends  *)
(* a stream (HEADERS, CONTINUATION, DATA, RST_STREAM): the slots in use    *)
(* are the requests under way and those `request` could not write.         *)
THEOREM SlotsAreAccounted == Spec => []SlotsAccounted
<1>1. Init => FlowInv /\ LedgerInv
  BY FlowInit DEF Init, LedgerInv, SlotsAccounted, Ending
<1>2. FlowInv /\ LedgerInv /\ [Next]_vars => FlowInv' /\ LedgerInv'
  <2> SUFFICES ASSUME FlowInv, LedgerInv, [Next]_vars
               PROVE  LedgerInv'
    BY FlowNext
  <2>1. QED
    BY HeaderLedger, DecodeLedger, CloseLedger, OtherLedger DEF Next, Recv
<1>3. LedgerInv => SlotsAccounted
  BY DEF LedgerInv
<1>4. QED
  BY <1>1, <1>2, <1>3, PTL DEF Spec

=============================================================================
