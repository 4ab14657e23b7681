---------------------------- MODULE HpackProofs -----------------------------
(***************************************************************************)
(* Proofs about the header tables of H2Connection: a decoded field is the  *)
(* one that was meant, and both ends evict alike.                          *)
(***************************************************************************)
EXTENDS H2Connection, TLAPS, WellFoundedInduction

(* Any set of naturals that is not empty has a least element.              *)
LEMMA LeastElement ==
    ASSUME NEW T, T \subseteq Nat, T # {}
    PROVE  \E x \in T : \A y \in T : x <= y
<1> DEFINE R == OpToRel(<, Nat)
<1>1. IsWellFoundedOn(R, Nat)
  BY NatLessThanWellFounded
<1>2. \A x, y \in Nat : y < x => <<y, x>> \in R
  BY DEF OpToRel
<1> HIDE DEF R
<1>3. PICK x \in T : \A y \in T : ~(<<y, x>> \in R)
  BY <1>1, WFMin, Zenon
<1>4. \A y \in T : x <= y
  <2>1. TAKE y \in T
  <2>2. x \in Nat /\ y \in Nat
    OBVIOUS
  <2>3. ~(y < x)
    BY <1>2, <1>3, <2>2
  <2>4. QED
    BY <2>2, <2>3
<1>5. QED
  BY <1>4

(* The size of a table's newest entries is a number, and grows with each   *)
(* by the size of that entry.  Size is a recursive function: that there is *)
(* one is shown first.                                                     *)
LEMMA SizeSums ==
    ASSUME NEW t \in Seq(Field)
    PROVE  /\ \A n \in 0 .. Len(t) : Size(t, n) \in Nat
           /\ \A n \in 1 .. Len(t) :
                 Size(t, n) = Size(t, n - 1) + FieldSize[t[n]]
           /\ Size(t, 0) = 0
<1> DEFINE Body(s) == [k \in 0 .. Len(t) |->
                          IF k = 0 THEN 0 ELSE s[k - 1] + FieldSize[t[k]]]
           Sums(s, m) == /\ s \in [0 .. m -> Nat] /\ s[0] = 0
                         /\ \A k \in 1 .. m : s[k] = s[k - 1] + FieldSize[t[k]]
           None == {m \in 0 .. Len(t) : ~\E s : Sums(s, m)}
<1>1. Len(t) \in Nat /\ \A k \in 1 .. Len(t) : FieldSize[t[k]] \in Nat
  BY FieldAssumption
<1>2. None = {}
  <2> SUFFICES ASSUME None # {} PROVE FALSE
    OBVIOUS
  <2>1. PICK m \in None : \A j \in None : m <= j
    <3>1. None \subseteq Nat
      OBVIOUS
    <3>2. QED
      BY <3>1, LeastElement
  <2>2. CASE m = 0
    <3>1. Sums([k \in 0 .. 0 |-> 0], 0)
      OBVIOUS
    <3>2. QED
      BY <2>1, <2>2, <3>1
  <2>3. CASE m # 0
    <3>1. m - 1 \in 0 .. Len(t) /\ m \in 1 .. Len(t) /\ m - 1 \notin None
      <4>1. m \in 0 .. Len(t)
        OBVIOUS
      <4>2. m - 1 \in 0 .. Len(t) /\ m \in 1 .. Len(t) /\ ~(m <= m - 1)
        BY <1>1, <2>3, <4>1
      <4> HIDE DEF None
      <4>3. QED
        BY <2>1, <4>2
    <3>2. PICK s : Sums(s, m - 1)
      BY <3>1
    <3> DEFINE r == [k \in 0 .. m |->
                        IF k = m THEN s[m - 1] + FieldSize[t[m]] ELSE s[k]]
    <3>3. r \in [0 .. m -> Nat]
      BY <1>1, <3>1, <3>2
    <3>4. r[0] = 0
      BY <2>3, <3>1, <3>2
    <3>5. ASSUME NEW k \in 1 .. m PROVE r[k] = r[k - 1] + FieldSize[t[k]]
      BY <3>1, <3>2
    <3>6. QED
      BY <2>1, <3>3, <3>4, <3>5
  <2>4. QED
    BY <2>2, <2>3
<1>3. PICK sum : Sums(sum, Len(t))
  <2>1. Len(t) \in 0 .. Len(t)
    BY <1>1
  <2> HIDE DEF Sums
  <2>2. \A m \in 0 .. Len(t) : \E s : Sums(s, m)
    BY <1>2, Zenon
  <2>3. QED
    BY <2>1, <2>2, Zenon
<1>4. sum = Body(sum)
  <2>1. \A k \in 0 .. Len(t) : sum[k] = Body(sum)[k]
    BY <1>1, <1>3
  <2>2. QED
    BY <1>3, <2>1
<1> DEFINE chosen == CHOOSE s : s = Body(s)
<1>5. chosen = Body(chosen)
  BY <1>4
<1>6. \A n : Size(t, n) = chosen[n]
  BY DEF Size
<1> HIDE DEF chosen
<1>7. \A n \in 0 .. Len(t) : chosen[n] \in Nat
  <2> DEFINE Bad == {m \in 0 .. Len(t) : chosen[m] \notin Nat}
  <2>1. SUFFICES ASSUME Bad # {} PROVE FALSE
    OBVIOUS
  <2>2. Bad \subseteq Nat
    OBVIOUS
  <2>3. PICK m \in Bad : \A j \in Bad : m <= j
    BY <2>1, <2>2, LeastElement
  <2>4. m # 0
    BY <1>1, <1>5
  <2>5. m - 1 \in 0 .. Len(t) /\ m \in 1 .. Len(t) /\ chosen[m - 1] \in Nat
    BY <1>1, <2>3, <2>4
  <2>6. chosen[m] = chosen[m - 1] + FieldSize[t[m]]
    BY <1>5, <2>4
  <2>7. QED
    BY <1>1, <2>5, <2>6
<1>8. /\ \A n \in 1 .. Len(t) : chosen[n] = chosen[n - 1] + FieldSize[t[n]]
      /\ chosen[0] = 0
  BY <1>1, <1>5
<1>9. QED
  BY <1>6, <1>7, <1>8

LEMMA SizeIsNat ==
    ASSUME NEW t \in Seq(Field), NEW n \in 0 .. Len(t)
    PROVE  Size(t, n) \in Nat
BY SizeSums

(* More entries are not smaller.                                           *)
LEMMA SizeGrows ==
    ASSUME NEW t \in Seq(Field),
           NEW k \in 0 .. Len(t), NEW j \in 0 .. Len(t), k <= j
    PROVE  Size(t, k) <= Size(t, j)
<1> DEFINE Bad == {m \in 0 .. Len(t) : k <= m /\ ~(Size(t, k) <= Size(t, m))}
<1>0. /\ Len(t) \in Nat /\ \A m \in 1 .. Len(t) : FieldSize[t[m]] \in Nat
      /\ \A m \in 0 .. Len(t) : Size(t, m) \in Nat
      /\ \A m \in 1 .. Len(t) : Size(t, m) = Size(t, m - 1) + FieldSize[t[m]]
  BY FieldAssumption, SizeSums
<1>1. SUFFICES ASSUME Bad # {} PROVE FALSE
  OBVIOUS
<1>2. Bad \subseteq Nat
  OBVIOUS
<1> HIDE DEF Bad
<1>3. PICK m \in Bad : \A i \in Bad : m <= i
  BY <1>1, <1>2, LeastElement
<1>4. m \in 0 .. Len(t) /\ k <= m /\ ~(Size(t, k) <= Size(t, m))
  BY <1>3 DEF Bad
<1>5. m # k
  BY <1>0, <1>4
<1>6. m - 1 \in 0 .. Len(t) /\ m \in 1 .. Len(t) /\ k <= m - 1 /\ ~(m <= m - 1)
  BY <1>0, <1>4, <1>5
<1>7. m - 1 \notin Bad
  BY <1>3, <1>6
<1>8. Size(t, k) <= Size(t, m - 1)
  BY <1>6, <1>7 DEF Bad
<1>9. /\ Size(t, k) \in Nat /\ Size(t, m - 1) \in Nat /\ FieldSize[t[m]] \in Nat
      /\ Size(t, m) = Size(t, m - 1) + FieldSize[t[m]]
  BY <1>0, <1>6
<1>10. QED
  BY <1>4, <1>8, <1>9

(* Tables with the same newest entries have the same sizes.                *)
LEMMA SizeOfPrefix ==
    ASSUME NEW t \in Seq(Field), NEW u \in Seq(Field), Len(t) <= Len(u),
           \A i \in 1 .. Len(t) : t[i] = u[i], NEW n \in 0 .. Len(t)
    PROVE  Size(t, n) = Size(u, n)
<1> DEFINE Bad == {m \in 0 .. Len(t) : Size(t, m) # Size(u, m)}
<1>0. /\ Len(t) \in Nat /\ Len(u) \in Nat /\ Size(t, 0) = 0 /\ Size(u, 0) = 0
      /\ \A m \in 1 .. Len(t) : Size(t, m) = Size(t, m - 1) + FieldSize[t[m]]
      /\ \A m \in 1 .. Len(u) : Size(u, m) = Size(u, m - 1) + FieldSize[u[m]]
  BY SizeSums
<1>1. SUFFICES ASSUME Bad # {} PROVE FALSE
  OBVIOUS
<1>2. Bad \subseteq Nat
  OBVIOUS
<1> HIDE DEF Bad
<1>3. PICK m \in Bad : \A i \in Bad : m <= i
  BY <1>1, <1>2, LeastElement
<1>4. m \in 0 .. Len(t) /\ Size(t, m) # Size(u, m)
  BY <1>3 DEF Bad
<1>5. m # 0
  BY <1>0, <1>4
<1>6. /\ m - 1 \in 0 .. Len(t) /\ m \in 1 .. Len(t) /\ m \in 1 .. Len(u)
      /\ ~(m <= m - 1)
  BY <1>0, <1>4, <1>5
<1>7. Size(t, m - 1) = Size(u, m - 1)
  BY <1>3, <1>6 DEF Bad
<1>8. QED
  BY <1>0, <1>4, <1>6, <1>7

(* evict_to_fit leaves the newest entries of a table, in their order, and  *)
(* none if what is to be entered exceeds the capacity by itself.           *)
LEMMA EvictedIsPrefix ==
    ASSUME NEW t \in Seq(Field), NEW room \in Int
    PROVE  \E k \in 0 .. Len(t) : /\ EvictToFit(t, room) = SubSeq(t, 1, k)
                                  /\ room < 0 => k = 0
<1> DEFINE enough == {n \in 0 .. Len(t) : n = Len(t) \/ Size(t, Len(t) - n) <= room}
           evicted == CHOOSE n \in enough : \A k \in enough : n <= k
<1>1. enough \subseteq Nat /\ enough \subseteq 0 .. Len(t) /\ Len(t) \in enough
  OBVIOUS
<1>2. EvictToFit(t, room) = SubSeq(t, 1, Len(t) - evicted)
  BY DEF EvictToFit
<1> HIDE DEF enough
<1>3. \E n \in enough : \A k \in enough : n <= k
  BY <1>1, LeastElement
<1>4. evicted \in enough
  BY <1>3
<1> HIDE DEF evicted
<1>5. Len(t) - evicted \in 0 .. Len(t)
  BY <1>1, <1>4
<1>6. room < 0 => evicted = Len(t)
  <2>1. Len(t) - evicted \in 0 .. Len(t) /\ Size(t, Len(t) - evicted) \in Nat
    BY <1>5, SizeIsNat
  <2>2. QED
    BY <1>4, <2>1 DEF enough
<1>7. QED
  BY <1>1, <1>2, <1>5, <1>6

(* ... and keeps as many as fit.                                           *)
LEMMA EvictedIsLongest ==
    ASSUME NEW t \in Seq(Field), NEW room \in Int
    PROVE  \E k \in 0 .. Len(t) :
              /\ EvictToFit(t, room) = SubSeq(t, 1, k)
              /\ k = 0 \/ Size(t, k) <= room
              /\ \A j \in 0 .. Len(t) : j > k => Size(t, j) > room
<1> DEFINE enough == {n \in 0 .. Len(t) : n = Len(t) \/ Size(t, Len(t) - n) <= room}
           evicted == CHOOSE n \in enough : \A k \in enough : n <= k
<1>0. Len(t) \in Nat /\ \A j \in 0 .. Len(t) : Size(t, j) \in Nat
  BY SizeSums
<1>1. enough \subseteq Nat /\ enough \subseteq 0 .. Len(t) /\ Len(t) \in enough
  OBVIOUS
<1>2. EvictToFit(t, room) = SubSeq(t, 1, Len(t) - evicted)
  BY DEF EvictToFit
<1> HIDE DEF enough
<1>3. \E n \in enough : \A k \in enough : n <= k
  BY <1>1, LeastElement
<1>4. evicted \in enough /\ \A n \in enough : evicted <= n
  BY <1>3
<1> HIDE DEF evicted
<1>5. evicted \in 0 .. Len(t) /\ Len(t) - evicted \in 0 .. Len(t)
  BY <1>0, <1>1, <1>4
<1>6. Len(t) - evicted = 0 \/ Size(t, Len(t) - evicted) <= room
  BY <1>0, <1>4, <1>5 DEF enough
<1>7. ASSUME NEW j \in 0 .. Len(t), j > Len(t) - evicted
      PROVE  Size(t, j) > room
  <2>1. /\ Len(t) - j \in 0 .. Len(t) /\ ~(evicted <= Len(t) - j)
        /\ Len(t) - (Len(t) - j) = j
    BY <1>0, <1>5, <1>7
  <2>2. Len(t) - j \notin enough
    BY <1>4, <2>1
  <2>3. ~(Size(t, j) <= room)
    BY <2>1, <2>2 DEF enough
  <2>4. QED
    BY <1>0, <2>3
<1>8. QED
  BY <1>2, <1>5, <1>6, <1>7

(* The newest entries of a table.                                          *)
Prefix(t, k) == SubSeq(t, 1, k)

LEMMA PrefixFacts ==
    ASSUME NEW t \in Seq(Field), NEW k \in 0 .. Len(t)
    PROVE  /\ Prefix(t, k) \in Seq(Field) /\ Len(Prefix(t, k)) = k
           /\ \A i \in 1 .. k : Prefix(t, k)[i] = t[i] /\ i \in 1 .. Len(t)
BY DEF Prefix

(* Tables of the same length with the same entries are the same.           *)
LEMMA SameTable ==
    ASSUME NEW t \in Seq(Field), NEW u \in Seq(Field), Len(t) = Len(u),
           \A i \in 1 .. Len(t) : t[i] = u[i]
    PROVE  t = u
OBVIOUS

LEMMA PrefixOfPrefix ==
    ASSUME NEW t \in Seq(Field), NEW k \in 0 .. Len(t), NEW j \in 0 .. k
    PROVE  Prefix(Prefix(t, k), j) = Prefix(t, j)
<1>1. /\ Prefix(t, k) \in Seq(Field) /\ Len(Prefix(t, k)) = k
      /\ \A i \in 1 .. k : Prefix(t, k)[i] = t[i]
  BY PrefixFacts
<1>2. /\ j \in 0 .. Len(t) /\ j \in 0 .. Len(Prefix(t, k))
      /\ \A i \in 1 .. j : i \in 1 .. k
  BY <1>1
<1>3. /\ Prefix(t, j) \in Seq(Field) /\ Len(Prefix(t, j)) = j
      /\ \A i \in 1 .. j : Prefix(t, j)[i] = t[i]
  BY <1>2, PrefixFacts
<1>4. /\ Prefix(Prefix(t, k), j) \in Seq(Field) /\ Len(Prefix(Prefix(t, k), j)) = j
      /\ \A i \in 1 .. j : Prefix(Prefix(t, k), j)[i] = Prefix(t, k)[i]
  BY <1>1, <1>2, PrefixFacts
<1>5. \A i \in 1 .. j : Prefix(Prefix(t, k), j)[i] = Prefix(t, j)[i]
  BY <1>1, <1>2, <1>3, <1>4
<1>6. QED
  BY <1>3, <1>4, <1>5, SameTable

(* Two tables that have the same entries where both have one.              *)
Agree(t, u) == \A i \in 1 .. Len(t) : i <= Len(u) => t[i] = u[i]

LEMMA PrefixesAgree ==
    ASSUME NEW t \in Seq(Field), NEW u \in Seq(Field), Agree(t, u),
           NEW k \in 0 .. Len(t), NEW j \in 0 .. Len(u)
    PROVE  /\ SubSeq(t, 1, k) \in Seq(Field) /\ Len(SubSeq(t, 1, k)) = k
           /\ SubSeq(u, 1, j) \in Seq(Field) /\ Len(SubSeq(u, 1, j)) = j
           /\ Agree(SubSeq(t, 1, k), SubSeq(u, 1, j))
<1>1. /\ Prefix(t, k) \in Seq(Field) /\ Len(Prefix(t, k)) = k
      /\ \A i \in 1 .. k : Prefix(t, k)[i] = t[i] /\ i \in 1 .. Len(t)
  BY PrefixFacts
<1>2. /\ Prefix(u, j) \in Seq(Field) /\ Len(Prefix(u, j)) = j
      /\ \A i \in 1 .. j : Prefix(u, j)[i] = u[i] /\ i \in 1 .. Len(u)
  BY PrefixFacts
<1>3. Agree(Prefix(t, k), Prefix(u, j))
  <2> SUFFICES ASSUME NEW i \in 1 .. k, i <= j
               PROVE  Prefix(t, k)[i] = Prefix(u, j)[i]
    BY <1>1, <1>2 DEF Agree
  <2>1. i \in 1 .. j /\ i \in 1 .. Len(t) /\ i \in 1 .. Len(u) /\ i <= Len(u)
    BY <1>1, <1>2
  <2>2. t[i] = u[i]
    BY <2>1 DEF Agree
  <2>3. QED
    BY <1>1, <1>2, <2>1, <2>2
<1>4. QED
  BY <1>1, <1>2, <1>3 DEF Prefix

LEMMA PushesAgree ==
    ASSUME NEW t \in Seq(Field), NEW u \in Seq(Field), Agree(t, u),
           NEW f \in Field
    PROVE  /\ <<f>> \o t \in Seq(Field) /\ <<f>> \o u \in Seq(Field)
           /\ Agree(<<f>> \o t, <<f>> \o u)
BY DEF Agree

-----------------------------------------------------------------------------
(* Header compression.                                                     *)

LEMMA EvictionsAgree ==
    ASSUME NEW t \in Seq(Field), NEW u \in Seq(Field), Agree(t, u),
           NEW room \in Int, NEW peerRoom \in Int
    PROVE  /\ EvictToFit(t, room) \in Seq(Field)
           /\ EvictToFit(u, peerRoom) \in Seq(Field)
           /\ Agree(EvictToFit(t, room), EvictToFit(u, peerRoom))
           /\ room < 0 => Len(EvictToFit(t, room)) = 0
           /\ peerRoom < 0 => Len(EvictToFit(u, peerRoom)) = 0
<1>1. PICK k \in 0 .. Len(t) :
          EvictToFit(t, room) = SubSeq(t, 1, k) /\ (room < 0 => k = 0)
  BY EvictedIsPrefix
<1>2. PICK j \in 0 .. Len(u) :
          EvictToFit(u, peerRoom) = SubSeq(u, 1, j) /\ (peerRoom < 0 => j = 0)
  BY EvictedIsPrefix
<1>3. QED
  BY <1>1, <1>2, PrefixesAgree

(* `insert` keeps the tables in agreement, whatever the capacities, as     *)
(* long as it remembers every field that fits.                             *)
LEMMA InsertionsAgree ==
    ASSUME TooLongToKeep = {},
           NEW t \in Seq(Field), NEW u \in Seq(Field), Agree(t, u),
           NEW cap \in Nat, NEW peerCap \in Nat, NEW f \in Field
    PROVE  /\ Inserted(t, cap, f) \in Seq(Field)
           /\ PeerInserted(u, peerCap, f) \in Seq(Field)
           /\ Agree(Inserted(t, cap, f), PeerInserted(u, peerCap, f))
<1> DEFINE size == FieldSize[f]
           kept == EvictToFit(t, cap - size)
           peerKept == EvictToFit(u, peerCap - size)
<1>1. size \in Nat
  BY FieldAssumption
<1>2. /\ Inserted(t, cap, f) = IF size > cap THEN kept ELSE Pushed(f, kept)
      /\ PeerInserted(u, peerCap, f) =
            IF size > peerCap THEN peerKept ELSE <<f>> \o peerKept
  BY DEF Inserted, PeerInserted, Declined
<1>3. cap - size \in Int /\ peerCap - size \in Int
  BY <1>1
<1>4. /\ kept \in Seq(Field) /\ peerKept \in Seq(Field) /\ Agree(kept, peerKept)
      /\ size > cap => Len(kept) = 0
      /\ size > peerCap => Len(peerKept) = 0
  <2> HIDE DEF size
  <2>1. /\ kept \in Seq(Field) /\ peerKept \in Seq(Field) /\ Agree(kept, peerKept)
        /\ cap - size < 0 => Len(kept) = 0
        /\ peerCap - size < 0 => Len(peerKept) = 0
    BY <1>3, EvictionsAgree
  <2> HIDE DEF kept, peerKept
  <2>2. QED
    BY <1>1, <2>1
<1> HIDE DEF size, kept, peerKept
<1>5. PICK short \in Seq(Field) :
          Pushed(f, kept) = <<f>> \o short /\ Agree(short, peerKept)
  <2>1. CASE Len(kept) >= MAX_ENTRIES
    <3>1. MAX_ENTRIES - 1 \in 0 .. Len(kept)
      BY <1>4, <2>1, TableAssumption
    <3>2. /\ SubSeq(kept, 1, MAX_ENTRIES - 1) \in Seq(Field)
          /\ SubSeq(peerKept, 1, Len(peerKept)) = peerKept
          /\ Agree(SubSeq(kept, 1, MAX_ENTRIES - 1),
                   SubSeq(peerKept, 1, Len(peerKept)))
      BY <1>4, <3>1, PrefixesAgree
    <3>3. QED
      BY <2>1, <3>2 DEF Pushed
  <2>2. CASE ~(Len(kept) >= MAX_ENTRIES)
    BY <1>4, <2>2 DEF Pushed
  <2>3. QED
    BY <2>1, <2>2
<1>6. /\ <<f>> \o short \in Seq(Field) /\ <<f>> \o peerKept \in Seq(Field)
      /\ Agree(<<f>> \o short, <<f>> \o peerKept)
  BY <1>4, <1>5, PushesAgree
<1>7. CASE size > cap
  <2>1. Inserted(t, cap, f) = kept /\ Len(kept) = 0
    BY <1>2, <1>4, <1>7
  <2>2. PeerInserted(u, peerCap, f) \in Seq(Field)
    BY <1>2, <1>4, <1>6
  <2>3. QED
    BY <1>4, <2>1, <2>2 DEF Agree
<1>8. CASE ~(size > cap) /\ size > peerCap
  <2>1. /\ Inserted(t, cap, f) = <<f>> \o short
        /\ PeerInserted(u, peerCap, f) = peerKept /\ Len(peerKept) = 0
    BY <1>2, <1>4, <1>5, <1>8
  <2>2. QED
    BY <1>4, <1>6, <2>1 DEF Agree
<1>9. CASE ~(size > cap) /\ ~(size > peerCap)
  BY <1>2, <1>5, <1>6, <1>9
<1>10. QED
  BY <1>7, <1>8, <1>9

LEMMA FieldsRight ==
    ASSUME TooLongToKeep = {}, TableInv, DecodeField
    PROVE  TableInv'
<1> USE DEF TableInv
<1>1. Agree(table, peerTable)
  BY DEF DecodeField, TablesAgree, Agree
<1>2. ASSUME NEW i \in 1 .. Len(peerTable), DecodeIndexed(i)
      PROVE  TableInv'
  <2>1. /\ UNCHANGED <<table, capacity, peerTable, peerCapacity>>
        /\ \/ /\ i <= Len(table) /\ failed' = FALSE
              /\ report' = [meant |-> peerTable[i], got |-> table[i]]
           \/ failed' = TRUE /\ UNCHANGED report
    BY <1>2 DEF DecodeIndexed, Decoded, Fails, Report
  <2>2. TableTypeOK' /\ TablesAgree'
    BY <1>1, <2>1 DEF TableTypeOK, TablesAgree, Agree
  <2>3. NeverWrong'
    BY <1>1, <2>1 DEF NeverWrong, TableTypeOK, Agree
  <2>4. QED
    BY <2>2, <2>3
<1>3. ASSUME NEW i \in 0 .. Len(peerTable), NEW f \in Field,
             NEW indexing \in BOOLEAN, DecodeLiteral(i, f, indexing)
      PROVE  TableInv'
  <2> DEFINE got == IF i = 0 THEN f
                    ELSE [name |-> table[i].name, value |-> f.value]
  <2>1. /\ UNCHANGED <<capacity, peerCapacity>>
        /\ i > 0 => f.name = peerTable[i].name
        /\ peerTable' = IF indexing THEN PeerInserted(peerTable, peerCapacity, f)
                        ELSE peerTable
        /\ \/ failed' = TRUE /\ UNCHANGED <<table, report>>
           \/ /\ i <= Len(table) /\ failed' = FALSE
              /\ report' = [meant |-> f, got |-> got]
              /\ table' = IF indexing THEN Inserted(table, capacity, got)
                          ELSE table
    BY <1>3 DEF DecodeLiteral, Decoded, Fails, Report
  <2>2. i <= Len(table) => got = f
    <3>1. CASE i = 0
      BY <3>1
    <3>2. CASE i # 0 /\ i <= Len(table)
      <4>1. table[i] = peerTable[i]
        BY <1>1, <3>2 DEF Agree, TableTypeOK
      <4>2. QED
        BY <2>1, <3>2, <4>1 DEF Field
    <3>3. QED
      BY <3>1, <3>2
  <2>3. /\ Inserted(table, capacity, f) \in Seq(Field)
        /\ PeerInserted(peerTable, peerCapacity, f) \in Seq(Field)
        /\ Agree(Inserted(table, capacity, f),
                 PeerInserted(peerTable, peerCapacity, f))
    BY <1>1, InsertionsAgree DEF TableTypeOK
  <2> HIDE DEF got
  <2>4. TableTypeOK'
    BY <2>1, <2>2, <2>3 DEF TableTypeOK
  <2>5. TablesAgree'
    <3> SUFFICES ASSUME ~failed' PROVE Agree(table', peerTable')
      BY DEF TablesAgree, Agree
    <3>1. QED
      BY <1>1, <2>1, <2>2, <2>3
  <2>6. NeverWrong'
    BY <2>1, <2>2 DEF NeverWrong
  <2>7. QED
    BY <2>4, <2>5, <2>6
<1>4. ASSUME NEW n \in TableSizes, DecodeSizeUpdate(n)
      PROVE  TableInv'
  <2>1. /\ capacity' = n /\ peerCapacity' = n /\ n \in Nat /\ n \in Int
        /\ table' = EvictToFit(table, n) /\ peerTable' = EvictToFit(peerTable, n)
        /\ failed' = FALSE /\ UNCHANGED report
    BY <1>4, TableAssumption DEF DecodeSizeUpdate, Decoded
  <2>2. /\ table' \in Seq(Field) /\ peerTable' \in Seq(Field)
        /\ Agree(table', peerTable')
    BY <1>1, <2>1, EvictionsAgree DEF TableTypeOK
  <2>3. QED
    BY <2>1, <2>2 DEF TableTypeOK, TablesAgree, Agree, NeverWrong
<1>5. QED
  BY <1>2, <1>3, <1>4 DEF DecodeField

LEMMA TableNext == TooLongToKeep = {} /\ TableInv /\ [Next]_vars => TableInv'
<1> SUFFICES ASSUME TooLongToKeep = {}, TableInv, [Next]_vars
             PROVE  TableInv'
  OBVIOUS
<1>1. CASE DecodeField
  BY <1>1, FieldsRight
<1>2. ASSUME NEW n \in TableSizes, RecvTableSize(n)
      PROVE  TableInv'
  BY <1>2, TableAssumption
     DEF RecvTableSize, TableInv, TableTypeOK, TablesAgree, NeverWrong
<1>3. ASSUME UNCHANGED tables, failed' \in BOOLEAN, failed => failed'
      PROVE  TableInv'
  BY <1>3 DEF tables, TableInv, TableTypeOK, TablesAgree, NeverWrong
<1>4. CASE \/ \E s \in StreamId, n \in 0 .. MAX_HEADER_BLOCK + 1,
               eh, es \in BOOLEAN : RecvHeaders(s, n, eh, es)
           \/ \E n \in 0 .. MAX_HEADER_BLOCK, eh \in BOOLEAN :
               RecvContinuation(n, eh)
  <2>1. UNCHANGED tables /\ ~failed /\ (failed' = TRUE \/ failed' = FALSE)
    BY <1>4 DEF RecvHeaders, RecvContinuation, Reassemble, Ready
  <2>2. QED
    BY <1>3, <2>1
<1>5. CASE \/ \E s \in StreamId, n \in Chunks, es \in BOOLEAN : RecvData(s, n, es)
           \/ \E s \in StreamId : RecvRstStream(s) \/ RequestArrives(s)
           \/ \E n \in FrameSizes : RecvMaxFrame(n)
           \/ \E body \in Bodies : Request(body)
           \/ \E c \in Scope : CreditArrives(c)
           \/ UNCHANGED vars
  <2>1. UNCHANGED <<tables, failed>>
    BY <1>5 DEF RecvData, RecvRstStream, RequestArrives, RecvMaxFrame, Request,
                CreditArrives, vars, tables
  <2>2. QED
    BY <1>3, <2>1 DEF TableInv, TableTypeOK
<1>6. QED
  BY <1>1, <1>2, <1>4, <1>5 DEF Next, Recv

LEMMA TableInit == Init => TableInv
<1> SUFFICES ASSUME Init PROVE TableInv
  OBVIOUS
<1>1. /\ table = <<>> /\ peerTable = <<>> /\ failed = FALSE
      /\ capacity = DEFAULT_TABLE_SIZE /\ peerCapacity = DEFAULT_TABLE_SIZE
      /\ report = NoReport
  BY DEF Init
<1>2. TableTypeOK
  <2>1. failed \in BOOLEAN
    BY <1>1, Zenon
  <2>2. <<>> \in Seq(Field)
    OBVIOUS
  <2>3. QED
    BY <1>1, <2>1, <2>2, TableAssumption DEF TableTypeOK
<1>3. TablesAgree
  <2>1. Len(table) = 0
    BY <1>1
  <2>2. QED
    BY <2>1 DEF TablesAgree
<1>4. NeverWrong
  BY <1>1 DEF NeverWrong, NoReport
<1>5. QED
  BY <1>2, <1>3, <1>4 DEF TableInv

(* Every field handed to the caller is the one the server meant, for every *)
(* table size, capacity, number of entries and sequence of frames, unless  *)
(* a field is too long to keep (see ClaimHpackLoud).                       *)
THEOREM HeadersRight ==
    ASSUME TooLongToKeep = {}
    PROVE  Spec => []NeverWrong
<1>1. Init => TableInv
  BY TableInit
<1>2. TableInv /\ [Next]_vars => TableInv'
  BY TableNext
<1>3. TableInv => NeverWrong
  BY DEF TableInv
<1>4. QED
  BY <1>1, <1>2, <1>3, PTL DEF Spec

-----------------------------------------------------------------------------
(* The decoder's table is the newest part of the server's.                 *)

Least(m, n) == IF m < n THEN m ELSE n
Newest(t) == Prefix(t, Least(Len(t), MAX_ENTRIES))

LEMMA NewestFacts ==
    ASSUME NEW t \in Seq(Field)
    PROVE  /\ Least(Len(t), MAX_ENTRIES) \in 0 .. Len(t)
           /\ Newest(t) \in Seq(Field)
           /\ Len(Newest(t)) = Least(Len(t), MAX_ENTRIES)
           /\ \A i \in 1 .. Least(Len(t), MAX_ENTRIES) : Newest(t)[i] = t[i]
<1>1. Least(Len(t), MAX_ENTRIES) \in 0 .. Len(t)
  BY TableAssumption DEF Least
<1>2. QED
  BY <1>1, PrefixFacts DEF Newest

(* Eviction commutes with dropping what does not fit into the slots: it    *)
(* looks at the newest entries first.                                      *)
LEMMA EvictNewest ==
    ASSUME NEW u \in Seq(Field), NEW room \in Int
    PROVE  /\ EvictToFit(u, room) \in Seq(Field)
           /\ EvictToFit(Newest(u), room) = Newest(EvictToFit(u, room))
<1> DEFINE t == Newest(u)
           m == Least(Len(u), MAX_ENTRIES)
<1>1. /\ m \in 0 .. Len(u) /\ t \in Seq(Field) /\ Len(t) = m
      /\ \A i \in 1 .. m : t[i] = u[i]
  BY NewestFacts
<1>2. PICK j \in 0 .. Len(u) :
          /\ EvictToFit(u, room) = SubSeq(u, 1, j)
          /\ j = 0 \/ Size(u, j) <= room
          /\ \A i \in 0 .. Len(u) : i > j => Size(u, i) > room
  BY EvictedIsLongest
<1>3. t = Prefix(u, m)
  BY DEF Newest
<1> HIDE DEF t
<1>4. PICK k \in 0 .. Len(t) :
          /\ EvictToFit(t, room) = SubSeq(t, 1, k)
          /\ k = 0 \/ Size(t, k) <= room
          /\ \A i \in 0 .. Len(t) : i > k => Size(t, i) > room
  BY <1>1, EvictedIsLongest
<1>5. m \in Nat /\ Len(u) \in Nat /\ MAX_ENTRIES \in Nat /\ j \in Nat /\ k \in Nat
      /\ m <= Len(u) /\ j <= Len(u) /\ k <= m
  BY <1>1, TableAssumption
<1>6. \A i \in 0 .. m : Size(t, i) = Size(u, i)
  BY <1>1, <1>5, SizeOfPrefix
<1>7. \A i \in 0 .. Len(u) : Size(u, i) \in Nat
  BY SizeSums
<1>8. k = Least(j, m)
  <2> HIDE DEF m
  <2>1. CASE j <= m
    <3>1. j \in 0 .. m /\ k \in 0 .. m /\ k \in 0 .. Len(u) /\ j \in 0 .. Len(t)
      BY <1>1, <1>5, <2>1
    <3>2. ~(k < j)
      <4> SUFFICES ASSUME k < j PROVE FALSE
        OBVIOUS
      <4>1. Size(t, j) > room /\ Size(u, j) <= room /\ Size(t, j) = Size(u, j)
        BY <1>2, <1>4, <1>5, <1>6, <3>1
      <4>2. QED
        BY <1>7, <4>1
    <3>3. ~(j < k)
      <4> SUFFICES ASSUME j < k PROVE FALSE
        OBVIOUS
      <4>1. Size(u, k) > room /\ Size(t, k) <= room /\ Size(t, k) = Size(u, k)
        BY <1>2, <1>4, <1>5, <1>6, <3>1
      <4>2. Size(u, k) \in Nat
        BY <1>7, <3>1
      <4>3. QED
        BY <4>1, <4>2
    <3>4. QED
      BY <1>5, <2>1, <3>2, <3>3 DEF Least
  <2>2. CASE m < j
    <3>1. m \in 0 .. m /\ m \in 0 .. Len(t) /\ m <= j
      BY <1>1, <1>5, <2>2
    <3>2. Size(u, m) <= Size(u, j)
      BY <1>1, <3>1, SizeGrows
    <3>3. Size(u, j) <= room /\ Size(t, m) = Size(u, m)
      BY <1>2, <1>5, <1>6, <2>2, <3>1
    <3>4. ~(k < m)
      <4> SUFFICES ASSUME k < m PROVE FALSE
        OBVIOUS
      <4>1. Size(t, m) > room
        BY <1>4, <1>5, <3>1
      <4>2. Size(u, m) \in Nat /\ Size(u, j) \in Nat
        BY <1>1, <1>2, <1>7
      <4>3. QED
        BY <3>2, <3>3, <4>1, <4>2
    <3>5. QED
      BY <1>5, <2>2, <3>4 DEF Least
  <2>3. QED
    BY <1>5, <2>1, <2>2
<1>9. k = Least(j, MAX_ENTRIES) /\ k \in 0 .. j
  BY <1>5, <1>8 DEF Least
<1>10. EvictToFit(t, room) = Prefix(u, k)
  BY <1>1, <1>3, <1>4, PrefixOfPrefix DEF Prefix
<1>11. /\ EvictToFit(u, room) = Prefix(u, j)
       /\ Prefix(u, j) \in Seq(Field) /\ Len(Prefix(u, j)) = j
  BY <1>2, PrefixFacts DEF Prefix
<1>12. Newest(Prefix(u, j)) = Prefix(u, k)
  <2>1. Newest(Prefix(u, j)) = Prefix(Prefix(u, j), k)
    BY <1>9, <1>11 DEF Newest
  <2>2. QED
    BY <1>9, <2>1, PrefixOfPrefix
<1>13. QED
  BY <1>10, <1>11, <1>12 DEF t

(* A push that gives up the oldest entry of a full table does too.         *)
LEMMA PushNewest ==
    ASSUME NEW u \in Seq(Field), NEW f \in Field
    PROVE  Pushed(f, Newest(u)) = Newest(<<f>> \o u)
<1> DEFINE t == Newest(u)
           m == Least(Len(u), MAX_ENTRIES)
           l == Least(Len(u) + 1, MAX_ENTRIES)
           long == <<f>> \o u
           rest == IF Len(t) >= MAX_ENTRIES THEN Prefix(t, MAX_ENTRIES - 1) ELSE t
           pushed == <<f>> \o rest
<1>1. /\ m \in 0 .. Len(u) /\ t \in Seq(Field) /\ Len(t) = m
      /\ \A i \in 1 .. m : t[i] = u[i]
  BY NewestFacts
<1>2. /\ long \in Seq(Field) /\ Len(long) = Len(u) + 1
      /\ \A i \in 1 .. Len(u) + 1 : long[i] = IF i = 1 THEN f ELSE u[i - 1]
  OBVIOUS
<1>3. Pushed(f, t) = pushed
  BY DEF Pushed, Prefix
<1> HIDE DEF t, long
<1>4. /\ Newest(long) \in Seq(Field) /\ Len(Newest(long)) = l
      /\ \A i \in 1 .. l : Newest(long)[i] = long[i]
  BY <1>2, NewestFacts
<1>5. /\ rest \in Seq(Field) /\ Len(rest) = l - 1
      /\ \A i \in 1 .. l - 1 : rest[i] = u[i]
  <2>1. Len(u) \in Nat /\ MAX_ENTRIES \in Nat /\ MAX_ENTRIES >= 1
    BY TableAssumption
  <2>2. CASE Len(t) >= MAX_ENTRIES
    <3>1. /\ MAX_ENTRIES - 1 \in 0 .. Len(t) /\ l = MAX_ENTRIES
          /\ MAX_ENTRIES <= m
      BY <1>1, <2>1, <2>2 DEF Least
    <3>2. /\ Prefix(t, MAX_ENTRIES - 1) \in Seq(Field)
          /\ Len(Prefix(t, MAX_ENTRIES - 1)) = MAX_ENTRIES - 1
          /\ \A i \in 1 .. MAX_ENTRIES - 1 :
                Prefix(t, MAX_ENTRIES - 1)[i] = t[i] /\ i \in 1 .. Len(t)
      BY <1>1, <3>1, PrefixFacts
    <3>3. QED
      BY <1>1, <2>2, <3>1, <3>2
  <2>3. CASE ~(Len(t) >= MAX_ENTRIES)
    <3>1. l - 1 = m
      BY <1>1, <2>1, <2>3 DEF Least
    <3>2. QED
      BY <1>1, <2>3, <3>1
  <2>4. QED
    BY <2>2, <2>3
<1>6. l \in Nat /\ l >= 1 /\ l <= Len(u) + 1 /\ Len(u) \in Nat
  BY TableAssumption DEF Least
<1> HIDE DEF rest, l
<1>7. /\ pushed \in Seq(Field) /\ Len(pushed) = l
      /\ \A i \in 1 .. l : pushed[i] = IF i = 1 THEN f ELSE rest[i - 1]
  BY <1>5, <1>6
<1> HIDE DEF pushed
<1>8. ASSUME NEW i \in 1 .. l PROVE pushed[i] = Newest(long)[i]
  <2>1. i \in 1 .. Len(u) + 1 /\ (i # 1 => i - 1 \in 1 .. l - 1)
    BY <1>6
  <2>2. QED
    BY <1>2, <1>4, <1>5, <1>7, <2>1
<1>9. pushed = Newest(long)
  BY <1>4, <1>7, <1>8, SameTable
<1>10. QED
  BY <1>3, <1>9 DEF t, long

LEMMA InsertNewest ==
    ASSUME TooLongToKeep = {},
           NEW u \in Seq(Field), NEW cap \in Nat, NEW f \in Field
    PROVE  Inserted(Newest(u), cap, f) = Newest(PeerInserted(u, cap, f))
<1> DEFINE size == FieldSize[f]
           kept == EvictToFit(u, cap - size)
<1>1. size \in Nat /\ cap - size \in Int
  BY FieldAssumption
<1>2. kept \in Seq(Field) /\ EvictToFit(Newest(u), cap - size) = Newest(kept)
  BY <1>1, EvictNewest
<1>3. /\ Inserted(Newest(u), cap, f) =
            IF size > cap THEN Newest(kept) ELSE Pushed(f, Newest(kept))
      /\ PeerInserted(u, cap, f) = IF size > cap THEN kept ELSE <<f>> \o kept
  BY <1>2 DEF Inserted, PeerInserted, Declined
<1> HIDE DEF kept, size
<1>4. Pushed(f, Newest(kept)) = Newest(<<f>> \o kept)
  BY <1>2, PushNewest
<1>5. QED
  BY <1>3, <1>4

(* Until a setting replaces the decoder both ends use one capacity.        *)
StepInv ==
    /\ TableInv
    /\ ~failed /\ ~replaced => capacity = peerCapacity /\ table = Newest(peerTable)

LEMMA FieldsInStep ==
    ASSUME TooLongToKeep = {}, StepInv, DecodeField, ~failed', ~replaced'
    PROVE  capacity' = peerCapacity' /\ table' = Newest(peerTable')
<1>1. /\ ~failed /\ ~replaced
      /\ capacity = peerCapacity /\ table = Newest(peerTable)
      /\ peerTable \in Seq(Field) /\ peerCapacity \in Nat /\ table \in Seq(Field)
  BY DEF DecodeField, StepInv, TableInv, TableTypeOK
<1>2. Agree(table, peerTable)
  BY <1>1 DEF StepInv, TableInv, TablesAgree, Agree
<1>3. ASSUME NEW i \in 1 .. Len(peerTable), DecodeIndexed(i)
      PROVE  capacity' = peerCapacity' /\ table' = Newest(peerTable')
  BY <1>1, <1>3 DEF DecodeIndexed
<1>4. ASSUME NEW i \in 0 .. Len(peerTable), NEW f \in Field,
             NEW indexing \in BOOLEAN, DecodeLiteral(i, f, indexing)
      PROVE  capacity' = peerCapacity' /\ table' = Newest(peerTable')
  <2> DEFINE got == IF i = 0 THEN f
                    ELSE [name |-> table[i].name, value |-> f.value]
  <2>1. /\ UNCHANGED <<capacity, peerCapacity>>
        /\ i > 0 => f.name = peerTable[i].name
        /\ i <= Len(table)
        /\ table' = IF indexing THEN Inserted(table, capacity, got) ELSE table
        /\ peerTable' = IF indexing THEN PeerInserted(peerTable, peerCapacity, f)
                        ELSE peerTable
    BY <1>4 DEF DecodeLiteral, Fails
  <2>2. got = f
    <3>1. CASE i = 0
      BY <3>1
    <3>2. CASE i # 0
      <4>1. table[i] = peerTable[i]
        BY <1>1, <1>2, <2>1, <3>2 DEF Agree
      <4>2. QED
        BY <2>1, <3>2, <4>1 DEF Field
    <3>3. QED
      BY <3>1, <3>2
  <2> HIDE DEF got
  <2>3. Inserted(Newest(peerTable), peerCapacity, f)
            = Newest(PeerInserted(peerTable, peerCapacity, f))
    BY <1>1, InsertNewest
  <2>4. QED
    BY <1>1, <2>1, <2>2, <2>3
<1>5. ASSUME NEW n \in TableSizes, DecodeSizeUpdate(n)
      PROVE  capacity' = peerCapacity' /\ table' = Newest(peerTable')
  <2>1. n \in Int
    BY TableAssumption
  <2>2. EvictToFit(Newest(peerTable), n) = Newest(EvictToFit(peerTable, n))
    BY <1>1, <2>1, EvictNewest
  <2>3. QED
    BY <1>1, <1>5, <2>2 DEF DecodeSizeUpdate
<1>6. QED
  BY <1>3, <1>4, <1>5 DEF DecodeField

LEMMA StepNext == TooLongToKeep = {} /\ StepInv /\ [Next]_vars => StepInv'
<1> SUFFICES ASSUME TooLongToKeep = {}, StepInv, [Next]_vars, ~failed', ~replaced'
             PROVE  capacity' = peerCapacity' /\ table' = Newest(peerTable')
  BY TableNext DEF StepInv
<1>1. CASE DecodeField
  BY <1>1, FieldsInStep
<1>2. ASSUME NEW n \in TableSizes, RecvTableSize(n)
      PROVE  FALSE
  BY <1>2 DEF RecvTableSize
<1>3. ASSUME UNCHANGED <<tables, replaced>>, ~failed
      PROVE  capacity' = peerCapacity' /\ table' = Newest(peerTable')
  BY <1>3 DEF tables, StepInv
<1>4. CASE \/ \E s \in StreamId, n \in 0 .. MAX_HEADER_BLOCK + 1,
               eh, es \in BOOLEAN : RecvHeaders(s, n, eh, es)
           \/ \E n \in 0 .. MAX_HEADER_BLOCK, eh \in BOOLEAN :
               RecvContinuation(n, eh)
  <2>1. UNCHANGED <<tables, replaced>> /\ ~failed
    BY <1>4 DEF RecvHeaders, RecvContinuation, Reassemble, Ready
  <2>2. QED
    BY <1>3, <2>1
<1>5. CASE \/ \E s \in StreamId, n \in Chunks, es \in BOOLEAN : RecvData(s, n, es)
           \/ \E s \in StreamId : RecvRstStream(s) \/ RequestArrives(s)
           \/ \E n \in FrameSizes : RecvMaxFrame(n)
           \/ \E body \in Bodies : Request(body)
           \/ \E c \in Scope : CreditArrives(c)
           \/ UNCHANGED vars
  <2>1. UNCHANGED <<tables, replaced, failed>>
    BY <1>5 DEF RecvData, RecvRstStream, RequestArrives, RecvMaxFrame, Request,
                CreditArrives, vars, tables
  <2>2. QED
    BY <1>3, <2>1
<1>6. QED
  BY <1>1, <1>2, <1>4, <1>5 DEF Next, Recv

(* Until a setting replaces the decoder its table is the newest part of    *)
(* the server's, for every size, number of slots and sequence of fields    *)
(* and size updates: both ends evict at the same moments.                  *)
THEOREM TablesInStep ==
    ASSUME TooLongToKeep = {}
    PROVE  Spec => []InStep
<1>1. ASSUME Init PROVE StepInv
  <2>1. /\ table = <<>> /\ peerTable = <<>> /\ capacity = peerCapacity
    BY <1>1 DEF Init
  <2>2. peerTable \in Seq(Field) /\ Len(peerTable) = 0
    BY <2>1
  <2>3. /\ Newest(peerTable) \in Seq(Field)
        /\ Len(Newest(peerTable)) = Least(Len(peerTable), MAX_ENTRIES)
    BY <2>2, NewestFacts
  <2>4. Newest(peerTable) = <<>>
    <3>1. Least(Len(peerTable), MAX_ENTRIES) = 0
      BY <2>2, TableAssumption DEF Least
    <3>2. QED
      BY <2>3, <3>1
  <2>5. QED
    BY <1>1, <2>1, <2>4, TableInit DEF StepInv
<1>2. StepInv /\ [Next]_vars => StepInv'
  BY StepNext
<1>3. StepInv => InStep
  BY DEF StepInv, InStep, Newest, Prefix, Least
<1>4. QED
  BY <1>1, <1>2, <1>3, PTL DEF Spec

=============================================================================
