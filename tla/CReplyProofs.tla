---------------------------- MODULE CReplyProofs ----------------------------
(***************************************************************************)
(* Proofs about CReply, for every width of the integers, every size of the *)
(* transmit buffer, every layout and whatever lengths the handler asks     *)
(* for.                                                                    *)
(***************************************************************************)
EXTENDS CReply, CommonLemmas

-----------------------------------------------------------------------------
(* What makes AllocatedDataArrives and LengthRoundedUp inductive, besides   *)
(* IInv.                                                                    *)

\* All that the handler asked for was allocated.
AllSound == \A k \in DOMAIN slices : Sound(slices[k])

\* Where the allocator begins, and that it leaves room before every list of a
\* structure for the fixed part that precedes it on the wire.
ChainInv ==
    mode # "idle" =>
        /\ kind = "list" => base = PAYLOAD_OFFSET + 2
        /\ kind # "list" =>
               /\ suffixes = Tail(layout)
               /\ base >= PAYLOAD_OFFSET + layout[1]
               /\ Len(slices) <= Lists
               /\ AllSound =>
                      /\ ctr = Len(slices)
                      /\ slices # <<>> =>
                             LET k == Len(slices)
                             IN  ptr >= slices[k].ptr + Bytes(slices[k]) + layout[k + 1]
                      /\ \A k \in 2 .. Len(slices) :
                             slices[k].ptr >= slices[k - 1].ptr + Bytes(slices[k - 1]) + layout[k]

\* Slice k holds what the handler put into it.
Holds(k) ==
    \A i \in 0 .. Bytes(slices[k]) - 1 :
        slices[k].ptr + i <= Top => mem[slices[k].ptr + i] = Data(k, i)

\* In the handler, every slice does; while the message is stored, those whose
\* turn has not come.
HoldsInv ==
    /\ mode = "alloc" => \A k \in DOMAIN slices : Sound(slices[k]) => Holds(k)
    /\ mode \in {"store", "done"} /\ AllSound =>
           \A j \in stored + 1 .. Lists : Holds(chosen + j - 1)

\* Where the store function is.  What it has written lies below, and it is not
\* past a slice that it has not copied.
PlaceInv ==
    mode \in {"store", "done"} /\ AllSound =>
        /\ mode = "store" =>
               dest = IF stored = 0 THEN PAYLOAD_OFFSET ELSE DataAt[stored] + Bytes(Member(stored))
        /\ stored < Lists => dest + layout[stored + 1] <= Member(stored + 1).ptr
        /\ \A j \in 1 .. stored :
               /\ DataAt[j] <= Member(j).ptr
               /\ DataAt[j] + Bytes(Member(j)) <= dest
               /\ Overlapped(j) \/ Arrives(j)

\* The length in the header.
LengthInv ==
    /\ dest >= PAYLOAD_OFFSET
    /\ mode = "done" => stored = Lists /\ wlen = compost_bytes_to_words(dest - PAYLOAD_OFFSET)

DataInv == ChainInv /\ HoldsInv /\ PlaceInv /\ LengthInv
-----------------------------------------------------------------------------
(* The allocator.                                                           *)

\* A remainder is in range, and is the number itself if that is small enough.
LEMMA Remainder ==
    ASSUME NEW n \in Int, NEW k \in Nat \ {0}
    PROVE  /\ (n % k) \in 0 .. (k - 1)
           /\ n \in 0 .. (k - 1) => n % k = n
  OBVIOUS

\* The bytes of a slice are a natural number.
LEMMA BytesType ==
    ASSUME NEW s \in [ptr : Nat, len : 0 .. U16 - 1, size : ElemSizes]
    PROVE  Bytes(s) \in Nat
  <1>1. s.len \in 0 .. U16 - 1 /\ s.size \in ElemSizes
    OBVIOUS
  <1>2. s.size \in Nat
    BY <1>1, SizesAssumption
  <1>3. s.len \in Nat
    BY <1>1, WidthsAssumption
  <1>4. QED
    BY <1>2, <1>3 DEF Bytes

\* A layout has a fixed part, with room for the length, before every list.
LEMMA LayoutType ==
    ASSUME TypeOK
    PROVE  /\ layout \in Seq(Nat)
           /\ Len(layout) > 1
           /\ Lists = Len(layout) - 1
           /\ Lists \in Nat
           /\ Lists >= 1
           /\ \A i \in 1 .. Lists : layout[i] \in Nat /\ layout[i] >= 2
           /\ layout[Len(layout)] \in Nat
  <1>1. CASE layout = ListLayout
    BY <1>1 DEF ListLayout, Lists
  <1>2. CASE layout \in Layouts
    BY <1>2, LayoutsAssumption DEF Lists
  <1>3. QED
    BY <1>1, <1>2 DEF TypeOK

LEMMA InitIInv == Init => IInv
  <1> SUFFICES ASSUME Init PROVE IInv
    OBVIOUS
  <1> USE DEF Init
  <1>2. TypeOK
    BY WidthsAssumption DEF TypeOK, ListLayout, PAYLOAD_OFFSET, Lists
  <1>3. QED
    BY <1>2 DEF IInv, AllocInv, StoreInv, ListInv, SlicesApart, PAYLOAD_OFFSET, ListLayout

\* A fresh allocator over a buffer that begins at buf.
LEMMA AllocInit ==
    ASSUME IInv, NEW k \in {"list", "reply", "notif"}, NEW size \in TxSizes,
           NEW l \in Layouts \cup {ListLayout}, Begin(k, size, l),
           NEW buf \in Nat, buf > 0, NEW len \in Int, compost_alloc_init(buf, len),
           suffixes' \in Seq(Nat),
           k = "list" => /\ l = ListLayout
                         /\ size >= 6 => buf = 6 /\ len = size - 6
    PROVE  IInv'
  <1> USE DEF Begin, compost_alloc_init
  <1>1. slices = <<>> /\ slices' = <<>> /\ stored = 0 /\ stored' = 0
    BY DEF IInv, AllocInv, StoreInv
  <1>2. size \in 4 .. U16 - 1
    BY SizesAssumption
  <1>3. cap' \in 0 .. U16 - 1 /\ (len \in 0 .. U16 - 1 => cap' = len)
    BY Remainder, WidthsAssumption
  <1>4. Lists' \in Nat
    <2>1. CASE l = ListLayout
      BY <2>1 DEF Lists, ListLayout
    <2>2. CASE l \in Layouts
      BY <2>2, LayoutsAssumption DEF Lists
    <2>3. QED
      BY <2>1, <2>2
  <1>5. TypeOK'
    BY <1>1, <1>2, <1>3, <1>4 DEF IInv, TypeOK
  <1>6. AllocInv' /\ SlicesApart'
    BY <1>1 DEF AllocInv, SlicesApart
  <1>7. StoreInv'
    BY DEF IInv, StoreInv, PAYLOAD_OFFSET
  <1>8. ListInv'
    <2>1. kind' = k /\ layout' = l /\ mode' = "alloc" /\ tx' = size /\ base' = buf
      OBVIOUS
    <2>2. ASSUME k = "list", size >= 6
          PROVE  base' = 6 /\ cap' = size - 6
      <3>1. len = size - 6 /\ buf = 6
        BY <2>2
      <3>2. len \in 0 .. U16 - 1
        BY <3>1, <2>2, <1>2, WidthsAssumption
      <3>3. QED
        BY <3>1, <3>2, <1>3
    <2>3. QED
      BY <2>1, <2>2, <1>1 DEF ListInv
  <1>9. QED
    BY <1>5, <1>6, <1>7, <1>8 DEF IInv

\* The handler takes a slice.
LEMMA SliceNew ==
    ASSUME IInv, NEW len \in Lens, NEW size \in ElemSizes, slice_new(len, size)
    PROVE  IInv'
  <1> DEFINE b == size * len
             n == b % U16
             e == IF AllocFails(n) THEN [ptr |-> NULL, len |-> 0, size |-> size]
                                   ELSE [ptr |-> ptr, len |-> len, size |-> size]
             S == [ptr : Nat, len : 0 .. U16 - 1, size : ElemSizes]
  <1>1. /\ len \in Nat
        /\ len \in 0 .. U16 - 1
        /\ size \in Nat
        /\ b \in Nat
    <2>1. len \in 0 .. U16 - 1 /\ size \in Nat
      BY SizesAssumption
    <2>2. len \in Nat
      BY <2>1, WidthsAssumption
    <2>3. QED
      BY <2>1, <2>2
  <1>2. n \in Nat /\ (b < U16 => n = b)
    <2> HIDE DEF b
    <2>1. U16 \in Nat \ {0} /\ b \in Int
      BY <1>1, WidthsAssumption
    <2>2. n \in 0 .. (U16 - 1) /\ (b \in 0 .. (U16 - 1) => n = b)
      BY <2>1, Remainder
    <2> HIDE DEF n
    <2>3. QED
      BY <2>1, <2>2, <1>1
  <1>3. /\ mode = "alloc"
        /\ slices' = Append(slices, e)
        /\ UNCHANGED <<mode, message, base, cap, suffixes, chosen, dest, stored, wlen>>
        /\ AllocFails(n) => UNCHANGED <<ptr, ctr>>
        /\ ~ AllocFails(n) => ptr' = ptr + Advance(n) /\ ctr' = ctr + 1
    BY DEF slice_new
  <1>4. /\ TypeOK /\ AllocInv /\ StoreInv /\ ListInv /\ SlicesApart
        /\ base \in Nat /\ cap \in Nat /\ ptr \in Nat /\ ctr \in Nat
        /\ suffixes \in Seq(Nat)
        /\ slices \in Seq(S)
    BY WidthsAssumption DEF IInv, TypeOK
  <1>5. ~ AllocFails(n) => Advance(n) \in Nat /\ Advance(n) >= n /\ ptr + n <= base + cap
    <2>1. ASSUME ~ AllocFails(n)
          PROVE  ptr + n <= base + cap /\ (suffixes # <<>> => ctr + 1 \in 1 .. Len(suffixes))
      <3>1. ~ (n > cap - (ptr - base)) /\ (suffixes # <<>> => ~ (ctr >= Len(suffixes)))
        BY <2>1 DEF AllocFails, capacity
      <3> HIDE DEF n
      <3>2. QED
        BY <3>1, <1>2, <1>4
    <2>2. ASSUME ~ AllocFails(n), suffixes # <<>> PROVE suffixes[ctr + 1] \in Nat
      BY <2>1, <2>2, <1>4
    <2> HIDE DEF n
    <2>3. QED
      BY <2>1, <2>2, <1>2 DEF Advance
  <1>6. e \in S /\ (e.ptr = NULL => e.len = 0)
    <2>1. e.ptr = NULL => e.len = 0
      BY <1>4 DEF AllocInv, NULL
    <2>2. QED
      BY <1>1, <1>4, <2>1, WidthsAssumption DEF NULL
  <1>7. /\ Bytes(e) \in Nat
        /\ Sound(e) => ~ AllocFails(n) /\ e.ptr = ptr /\ Bytes(e) = n
        /\ e.ptr # NULL => e.ptr = ptr /\ ~ AllocFails(n)
    <2>1. Bytes(e) \in Nat
      BY <1>6, BytesType
    <2>2. e.ptr # NULL => ~ AllocFails(n) /\ e.ptr = ptr /\ Bytes(e) = b
      BY <1>1 DEF NULL, Bytes
    <2>3. Sound(e) => e.ptr # NULL /\ Bytes(e) < U16
      BY <2>1, WidthsAssumption DEF Sound, Overlong
    <2> HIDE DEF e, n, b
    <2>4. QED
      BY <2>1, <2>2, <2>3, <1>2
  <1> HIDE DEF e, n, b, S
  <1>8. /\ slices' \in Seq(S)
        /\ Len(slices') = Len(slices) + 1
        /\ DOMAIN slices' = 1 .. Len(slices) + 1
        /\ DOMAIN slices = 1 .. Len(slices)
        /\ Len(slices) \in Nat
        /\ slices'[Len(slices) + 1] = e
        /\ \A i \in DOMAIN slices : slices'[i] = slices[i] /\ slices[i] \in S
    BY <1>3, <1>4, <1>6
  <1>9. ptr' \in Nat /\ ptr' >= ptr /\ (~ AllocFails(n) => ptr' >= ptr + n) /\ ctr' \in Nat
    BY <1>3, <1>5, <1>4, <1>2
  <1>10. TypeOK'
    BY <1>3, <1>4, <1>8, <1>9 DEF TypeOK, S, message, Lists
  <1>11. \A i \in DOMAIN slices : slices[i].ptr \in Nat /\ Bytes(slices[i]) \in Nat
    BY <1>8, BytesType DEF S
  <1>12. AllocInv'
    <2>1. base' = base /\ base > 0 /\ base <= ptr /\ mode' # "idle"
      BY <1>3, <1>4 DEF AllocInv
    <2>2. ASSUME NEW i \in DOMAIN slices'
          PROVE  /\ slices'[i].ptr = NULL => slices'[i].len = 0
                 /\ slices'[i].ptr # NULL => base <= slices'[i].ptr
                 /\ Sound(slices'[i]) => slices'[i].ptr + Bytes(slices'[i]) <= ptr'
      <3>1. CASE i = Len(slices) + 1
        <4>1. slices'[i] = e
          BY <3>1, <1>8
        <4>2. Sound(e) => ptr + n <= ptr'
          BY <1>7, <1>9
        <4>3. QED
          BY <4>1, <4>2, <2>1, <1>6, <1>7
      <3>2. CASE i \in DOMAIN slices
        <4>1. slices'[i] = slices[i]
          BY <3>2, <1>8
        <4>2. Sound(slices[i]) => slices[i].ptr + Bytes(slices[i]) <= ptr
          BY <3>2, <1>4 DEF AllocInv
        <4>3. Sound(slices[i]) => slices[i].ptr + Bytes(slices[i]) <= ptr'
          BY <4>2, <3>2, <1>11, <1>9, <1>4
        <4>4. QED
          BY <4>1, <4>3, <3>2, <1>4 DEF AllocInv
      <3>3. QED
        BY <3>1, <3>2, <1>8
    <2>3. QED
      BY <2>1, <2>2, <1>9, <1>4 DEF AllocInv
  <1>13. SlicesApart'
    <2>1. ASSUME NEW i \in DOMAIN slices', Sound(slices'[i])
          PROVE  /\ base' <= slices'[i].ptr
                 /\ slices'[i].ptr + Bytes(slices'[i]) <= base' + cap'
      <3>1. CASE i = Len(slices) + 1
        <4>1. slices'[i] = e
          BY <3>1, <1>8
        <4>2. base <= ptr /\ ptr + n <= base + cap /\ e.ptr = ptr /\ Bytes(e) = n
          BY <4>1, <2>1, <1>4, <1>5, <1>7 DEF AllocInv
        <4>3. QED
          BY <4>1, <4>2, <1>3
      <3>2. CASE i \in DOMAIN slices
        BY <3>2, <2>1, <1>8, <1>4, <1>3 DEF SlicesApart
      <3>3. QED
        BY <3>1, <3>2, <1>8
    <2>2. ASSUME NEW j \in DOMAIN slices', NEW k \in DOMAIN slices', j < k,
                 Sound(slices'[j]), slices'[k].ptr # NULL
          PROVE  slices'[j].ptr + Bytes(slices'[j]) <= slices'[k].ptr
      <3>1. j \in DOMAIN slices
        BY <2>2, <1>8
      <3>2. CASE k = Len(slices) + 1
        <4>1. slices'[k] = e /\ e.ptr = ptr
          BY <3>2, <2>2, <1>7, <1>8
        <4>2. QED
          BY <4>1, <3>1, <2>2, <1>4, <1>8 DEF AllocInv
      <3>3. CASE k \in DOMAIN slices
        BY <3>1, <3>3, <2>2, <1>8, <1>4 DEF SlicesApart
      <3>4. QED
        BY <3>2, <3>3, <1>8
    <2>3. QED
      BY <2>1, <2>2 DEF SlicesApart
  <1>14. StoreInv' /\ ListInv'
    BY <1>3, <1>4 DEF StoreInv, ListInv, message
  <1>15. QED
    BY <1>10, <1>12, <1>13, <1>14 DEF IInv

\* The store function writes a list.
LEMMA StoreListStep ==
    ASSUME IInv, NEW garbled \in BOOLEAN, StoreList(garbled)
    PROVE  IInv'
  <1> DEFINE s == Member(stored + 1)
             d == dest + layout[stored + 1] - 2
             n == Bytes(s) % U16
  <1>1. /\ mode = "store"
        /\ stored < Lists
        /\ dest' = d + 2 + n
        /\ stored' = stored + 1
        /\ UNCHANGED <<mode, message, alloc, slices, chosen, wlen>>
    BY DEF StoreList
  <1>2. TypeOK /\ AllocInv /\ StoreInv /\ ListInv /\ SlicesApart
    BY DEF IInv
  <1>3. /\ stored \in Nat
        /\ dest \in Nat
        /\ chosen \in Nat
        /\ slices \in Seq([ptr : Nat, len : 0 .. U16 - 1, size : ElemSizes])
    BY <1>2 DEF TypeOK
  <1>4. Lists \in Nat /\ stored + 1 \in 1 .. Lists
    <2>1. Lists \in Nat
      BY <1>2, LayoutType
    <2>2. QED
      BY <1>1, <1>3, <2>1
  <1>5. s \in [ptr : Nat, len : 0 .. U16 - 1, size : ElemSizes]
    <2> DEFINE S == [ptr : Nat, len : 0 .. U16 - 1, size : ElemSizes]
               i == chosen + (stored + 1) - 1
    <2>1. i \in 1 .. Len(slices)
      BY <1>1, <1>2, <1>3, <1>4 DEF StoreInv
    <2>2. slices \in Seq(S)
      BY <1>3
    <2>3. s = slices[i]
      BY DEF Member
    <2> HIDE DEF S, s, i
    <2>4. s \in S
      BY <2>1, <2>2, <2>3
    <2>5. QED
      BY <2>4 DEF S
  <1>6. Bytes(s) \in Nat
    BY <1>5, BytesType
  <1>7. n \in Nat
    <2>1. U16 \in Nat \ {0} /\ Bytes(s) \in Int
      BY <1>6, WidthsAssumption
    <2> HIDE DEF s
    <2>2. n \in 0 .. (U16 - 1)
      BY <2>1, Remainder
    <2>3. QED
      BY <2>2
  <1>8. layout[stored + 1] \in Nat /\ layout[stored + 1] >= 2
    BY <1>2, <1>4, LayoutType
  <1>9. dest' \in Nat
    <2> HIDE DEF n
    <2>1. QED
      BY <1>1, <1>3, <1>7, <1>8
  <1>10. TypeOK'
    <2>1. stored' \in 0 .. Lists /\ Lists' = Lists
      BY <1>1, <1>3, <1>4 DEF message, Lists
    <2>2. QED
      BY <1>1, <1>2, <1>9, <2>1 DEF TypeOK, message, alloc
  <1>11. AllocInv' /\ SlicesApart'
    BY <1>1, <1>2 DEF AllocInv, SlicesApart, alloc, message
  <1>12. StoreInv'
    BY <1>1, <1>2 DEF StoreInv, message, Lists
  <1>13. ListInv'
    <2>1. kind' = kind /\ layout' = layout /\ tx' = tx /\ base' = base /\ cap' = cap
      BY <1>1 DEF message, alloc
    <2>2. ASSUME kind = "list" PROVE stored = 0 /\ layout[stored + 1] = 2
      <3>1. layout = <<2, 0>>
        BY <2>2, <1>2 DEF ListInv, ListLayout
      <3>2. Lists = 1
        BY <3>1 DEF Lists
      <3>3. QED
        BY <3>1, <3>2, <1>1, <1>3
    <2>3. ASSUME kind = "list"
          PROVE  dest' = PAYLOAD_OFFSET + 2 + ((Bytes(Member(1)) % U16)')
      <3>1. dest = PAYLOAD_OFFSET
        BY <2>2, <2>3, <1>1, <1>2 DEF ListInv
      <3>2. s = Member(1) /\ Member(1)' = Member(1)
        BY <2>2, <2>3, <1>1, <1>3 DEF Member
      <3>3. dest' = PAYLOAD_OFFSET + 2 - 2 + 2 + n
        BY <3>1, <2>2, <2>3, <1>1
      <3>4. (Bytes(Member(1)) % U16)' = n
        BY <3>2 DEF Bytes
      <3> HIDE DEF n
      <3>5. QED
        BY <3>3, <3>4, <1>7 DEF PAYLOAD_OFFSET
    <2>4. QED
      BY <2>1, <2>2, <2>3, <1>1, <1>2 DEF ListInv
  <1>14. QED
    BY <1>10, <1>11, <1>12, <1>13 DEF IInv

\* The store function ends.
LEMMA StoreEndStep ==
    ASSUME IInv, StoreEnd
    PROVE  IInv'
  <1>1. /\ mode = "store"
        /\ mode' = "done"
        /\ stored = Lists
        /\ dest' = dest + layout[Len(layout)]
        /\ wlen' = compost_bytes_to_words(dest' - PAYLOAD_OFFSET)
        /\ UNCHANGED <<message, alloc, slices, chosen, stored>>
    BY DEF StoreEnd
  <1>2. TypeOK /\ AllocInv /\ StoreInv /\ ListInv /\ SlicesApart
    BY DEF IInv
  <1>3. layout[Len(layout)] \in Nat /\ dest \in Nat /\ dest' \in Nat
    <2>1. layout[Len(layout)] \in Nat
      BY <1>2, LayoutType
    <2>2. dest \in Nat
      BY <1>2 DEF TypeOK
    <2>3. QED
      BY <1>1, <2>1, <2>2
  <1>4. wlen' \in 0 .. U8 - 1
    <2> DEFINE b == dest' - PAYLOAD_OFFSET
    <2>1. b \in Int /\ U16 \in Nat \ {0} /\ U8 \in Nat \ {0}
      BY <1>3, WidthsAssumption DEF PAYLOAD_OFFSET
    <2> HIDE DEF b
    <2> DEFINE r == b % U16
    <2>2. r \in Nat
      BY <2>1, Remainder
    <2> HIDE DEF r
    <2> DEFINE w == (r + 3) \div 4
    <2>3. w \in Int
      BY <2>2
    <2> HIDE DEF w
    <2>4. (w % U8) \in 0 .. (U8 - 1)
      BY <2>1, <2>3, Remainder
    <2>5. wlen' = w % U8
      BY <1>1 DEF compost_bytes_to_words, b, r, w
    <2>6. QED
      BY <2>4, <2>5
  <1>5. TypeOK'
    BY <1>1, <1>2, <1>3, <1>4 DEF TypeOK, message, alloc, Lists
  <1>6. AllocInv' /\ SlicesApart' /\ StoreInv'
    BY <1>1, <1>2 DEF AllocInv, SlicesApart, StoreInv, alloc, message, Lists
  <1>7. ListInv'
    <2>1. kind' = kind /\ layout' = layout /\ tx' = tx /\ base' = base /\ cap' = cap
      BY <1>1 DEF message, alloc
    <2>2. (Bytes(Member(1)) % U16)' = Bytes(Member(1)) % U16
      BY <1>1 DEF Member, Bytes
    <2>3. ASSUME kind = "list"
          PROVE  stored = 1 /\ layout[Len(layout)] = 0
      <3>1. layout = <<2, 0>>
        BY <2>3, <1>2 DEF ListInv, ListLayout
      <3>2. QED
        BY <3>1, <1>1 DEF Lists
    <2>4. ASSUME kind = "list" PROVE dest' = dest
      BY <2>3, <2>4, <1>1, <1>3
    <2>5. QED
      BY <2>1, <2>2, <2>3, <2>4, <1>1, <1>2 DEF ListInv
  <1>8. QED
    BY <1>5, <1>6, <1>7 DEF IInv

LEMMA NextIInv == IInv /\ [Next]_vars => IInv'
  <1> SUFFICES ASSUME IInv, [Next]_vars PROVE IInv'
    OBVIOUS
  <1>0. TypeOK /\ AllocInv /\ StoreInv /\ ListInv /\ SlicesApart
    BY DEF IInv
  <1>1. ASSUME NEW size \in TxSizes, list_alloc_init(size)
        PROVE  IInv'
    <2>1. size \in Int
      BY SizesAssumption, WidthsAssumption
    <2>2. /\ Begin("list", size, ListLayout)
          /\ compost_alloc_init(6, size - 6)
          /\ suffixes' \in Seq(Nat)
      BY <1>1, <2>1 DEF list_alloc_init, PAYLOAD_OFFSET, compost_alloc_init
    <2>3. QED
      BY <2>1, <2>2, AllocInit
  <1>2. ASSUME NEW size \in TxSizes, NEW l \in Layouts,
               reply_alloc_init(size, l) \/ notif_alloc_init(size, l)
        PROVE  IInv'
    <2>1. size \in Int /\ l \in Seq(Nat) /\ Tail(l) \in Seq(Nat) /\ l[1] \in Nat
      BY SizesAssumption, WidthsAssumption, LayoutsAssumption
    <2>2. CASE reply_alloc_init(size, l)
      <3>1. /\ Begin("reply", size, l)
            /\ compost_alloc_init(4 + l[1] + 4 + l[1], size - 4 - l[1])
            /\ suffixes' \in Seq(Nat)
        BY <2>1, <2>2 DEF reply_alloc_init, struct_alloc_init, PAYLOAD_OFFSET
      <3> DEFINE buf == 4 + l[1] + 4 + l[1]
                 n == size - 4 - l[1]
      <3>2. buf \in Nat /\ buf > 0 /\ n \in Int
        BY <2>1
      <3>3. Begin("reply", size, l) /\ compost_alloc_init(buf, n)
        BY <3>1
      <3> HIDE DEF buf, n
      <3>4. QED
        BY <3>1, <3>2, <3>3, AllocInit
    <2>3. CASE notif_alloc_init(size, l)
      <3>1. /\ Begin("notif", size, l)
            /\ compost_alloc_init(0 + 4 + l[1], size)
            /\ suffixes' \in Seq(Nat)
        BY <2>1, <2>3 DEF notif_alloc_init, struct_alloc_init
      <3>2. QED
        BY <2>1, <3>1, AllocInit
    <2>4. QED
      BY <1>2, <2>2, <2>3
  <1>3. ASSUME NEW len \in Lens, NEW size \in ElemSizes, slice_new(len, size)
        PROVE  IInv'
    BY <1>3, SliceNew
  <1>4. CASE compost_alloc_reset
    <2>1. /\ slices' = <<>>
          /\ mode' = "alloc" /\ mode = "alloc"
          /\ ptr' = base /\ ctr' = 0 /\ suffixes' = <<>>
          /\ UNCHANGED <<message, base, cap, chosen, dest, stored, wlen>>
      BY <1>4 DEF compost_alloc_reset
    <2>2. TypeOK'
      BY <1>0, <2>1 DEF TypeOK, message, Lists
    <2>3. AllocInv' /\ SlicesApart'
      BY <1>0, <2>1 DEF AllocInv, SlicesApart, TypeOK
    <2>4. StoreInv' /\ ListInv'
      BY <1>0, <2>1 DEF StoreInv, ListInv, message
    <2>5. QED
      BY <2>2, <2>3, <2>4 DEF IInv
  <1>5. ASSUME NEW k \in DOMAIN slices, Return(k)
        PROVE  IInv'
    <2>1. /\ mode = "alloc" /\ mode' = "store" /\ chosen' = k
          /\ kind # "list" => k = 1 /\ Len(slices) = Len(layout) - 1
          /\ UNCHANGED <<message, alloc, slices, dest, stored, mem, wlen>>
      BY <1>5 DEF Return, Wanted
    <2>2. slices \in Seq([ptr : Nat, len : 0 .. U16 - 1, size : ElemSizes])
      BY <1>0 DEF TypeOK
    <2>3. k \in 1 .. Len(slices) /\ Len(slices) \in Nat
      BY <2>2
    <2>4. TypeOK'
      BY <1>0, <2>1, <2>3 DEF TypeOK, message, alloc, Lists
    <2>5. AllocInv' /\ SlicesApart'
      BY <1>0, <2>1 DEF AllocInv, SlicesApart, alloc
    <2>6. StoreInv'
      <3>1. kind = "list" => Len(layout) = 2
        BY <1>0 DEF ListInv, ListLayout
      <3>2. Lists' = Len(layout) - 1
        BY <2>1 DEF Lists, message
      <3>3. chosen' >= 1 /\ chosen' + Lists' - 1 <= Len(slices)
        <4>1. chosen' = k /\ k \in Nat /\ k >= 1 /\ k <= Len(slices) /\ Len(slices) \in Nat
          BY <2>1, <2>3
        <4>2. CASE kind = "list"
          <5>1. Lists' = 1
            BY <4>2, <3>1, <3>2
          <5>2. QED
            BY <4>1, <5>1
        <4>3. CASE kind # "list"
          <5>1. k = 1 /\ Len(slices) = Lists'
            BY <4>3, <2>1, <3>2
          <5>2. QED
            BY <4>1, <5>1
        <4>4. QED
          BY <4>2, <4>3
      <3>4. QED
        BY <2>1, <3>3 DEF StoreInv
    <2>7. ListInv'
      BY <1>0, <2>1 DEF ListInv, StoreInv, message, alloc
    <2>8. QED
      BY <2>4, <2>5, <2>6, <2>7 DEF IInv
  <1>6. ASSUME NEW garbled \in BOOLEAN, StoreList(garbled)
        PROVE  IInv'
    BY <1>6, StoreListStep
  <1>7. CASE StoreEnd
    BY <1>7, StoreEndStep
  <1>8. CASE Send
    <2>1. Init'
      BY <1>8 DEF Send, Init
    <2>2. QED
      <3>1. TypeOK'
        BY <1>8, WidthsAssumption DEF Send, TypeOK, ListLayout, PAYLOAD_OFFSET, Lists
      <3>2. QED
        BY <3>1, <1>8
           DEF Send, IInv, AllocInv, StoreInv, ListInv, SlicesApart, PAYLOAD_OFFSET, ListLayout
  <1>9. CASE UNCHANGED vars
    BY <1>0, <1>9 DEF IInv, TypeOK, AllocInv, StoreInv, ListInv, SlicesApart, vars, message,
       alloc, Lists, Member
  <1>10. QED
    BY <1>1, <1>2, <1>3, <1>4, <1>5, <1>6, <1>7, <1>8, <1>9 DEF Next
-----------------------------------------------------------------------------
\* The inductive invariant holds in every state the generated code reaches while it
\* builds a message: what the allocator has handed out lies below alloc.ptr, the
\* store function finds a slice for every list, and the end of a list response is
\* known.
THEOREM Invariance == Spec => []IInv
  BY InitIInv, NextIInv, PTL DEF Spec

\* The type invariant holds for every width and every layout.  In particular the
\* length that compost_bytes_to_words gives fits in the header's field, and the
\* store function never looks for a list that the structure does not have.
THEOREM TypeCorrect == Spec => []TypeOK
  <1>1. IInv => TypeOK
    BY DEF IInv
  <1>2. QED
    BY <1>1, Invariance, PTL

\* compost_alloc_next hands out blocks that lie in the allocator's buffer and do
\* not overlap, whatever lengths and element sizes compost_slice_T_new is called
\* with, and although the suffix is not counted when a block is tested for size.
THEOREM AllocatorKeepsSlicesApart == Spec => []SlicesApart
  <1>1. IInv => SlicesApart
    BY DEF IInv
  <1>2. QED
    BY <1>1, Invariance, PTL

\* A list response that invoke_<rpc> stores ends inside the transmit buffer, for
\* every size of the buffer and every sequence of allocations and resets by the
\* handler, whichever slice it returns.
THEOREM ListResponseFits == Spec => []ListFits
  <1>1. ASSUME IInv PROVE ListFits
    <2> SUFFICES ASSUME kind = "list", tx >= 6, mode = "done", ~ Overlong(Member(1))
                 PROVE  dest <= tx
      BY DEF ListFits
    <2>1. TypeOK /\ AllocInv /\ StoreInv /\ ListInv /\ SlicesApart
      BY <1>1 DEF IInv
    <2> DEFINE s == Member(1)
    <2>2. /\ base = 6 /\ cap = tx - 6 /\ tx \in Nat
          /\ dest = 4 + 2 + (Bytes(s) % U16)
          /\ layout = <<2, 0>>
      BY <2>1, WidthsAssumption DEF ListInv, PAYLOAD_OFFSET, TypeOK, ListLayout
    <2>3. chosen \in DOMAIN slices /\ s = slices[chosen]
      <3>1. Lists = 1
        BY <2>2 DEF Lists
      <3>2. chosen >= 1 /\ chosen <= Len(slices) /\ chosen \in Nat
        BY <2>1, <3>1 DEF StoreInv, TypeOK
      <3>3. QED
        BY <3>2, <2>1 DEF TypeOK, Member
    <2>4. s \in [ptr : Nat, len : 0 .. U16 - 1, size : ElemSizes]
      <3> DEFINE S == [ptr : Nat, len : 0 .. U16 - 1, size : ElemSizes]
      <3>1. slices \in Seq(S)
        BY <2>1 DEF TypeOK
      <3> HIDE DEF S, s
      <3>2. s \in S
        BY <3>1, <2>3
      <3>3. QED
        BY <3>2 DEF S
    <2>5. Bytes(s) \in Nat
      BY <2>4, BytesType
    <2>6. Bytes(s) < U16
      BY <2>5, WidthsAssumption DEF Overlong
    <2>7. Bytes(s) % U16 = Bytes(s)
      <3>1. U16 \in Nat \ {0} /\ Bytes(s) \in Int /\ Bytes(s) \in 0 .. (U16 - 1)
        BY <2>5, <2>6, WidthsAssumption
      <3> HIDE DEF s
      <3>2. QED
        BY <3>1, Remainder
    <2>8. CASE s.ptr = NULL
      <3>1. s.len = 0
        BY <2>1, <2>3, <2>8 DEF AllocInv
      <3>2. s.size \in Nat
        BY <2>4, SizesAssumption
      <3>3. Bytes(s) = 0
        BY <3>1, <3>2 DEF Bytes
      <3>4. QED
        BY <3>3, <2>2, <2>7
    <2>9. CASE s.ptr # NULL
      <3>1. base <= s.ptr /\ s.ptr + Bytes(s) <= base + cap
        BY <2>1, <2>3, <2>9 DEF SlicesApart, Sound
      <3>2. s.ptr \in Nat
        BY <2>4
      <3> HIDE DEF s
      <3>3. QED
        BY <3>1, <3>2, <2>2, <2>5, <2>7
    <2>10. QED
      BY <2>8, <2>9
  <1>2. QED
    BY <1>1, Invariance, PTL
-----------------------------------------------------------------------------
(* What the message holds.                                                  *)

\* While the message is stored, its lists are slices.
LEMMA MemberType ==
    ASSUME IInv, mode \in {"store", "done"}
    PROVE  /\ Lists \in Nat /\ Lists >= 1
           /\ \A j \in 1 .. Lists :
                  /\ chosen + j - 1 \in DOMAIN slices
                  /\ Member(j).ptr \in Nat
                  /\ Bytes(Member(j)) \in Nat
                  /\ layout[j] \in Nat /\ layout[j] >= 2
  <1> DEFINE S == [ptr : Nat, len : 0 .. U16 - 1, size : ElemSizes]
  <1>1. TypeOK /\ StoreInv
    BY DEF IInv
  <1>2. /\ Lists = Len(layout) - 1 /\ Len(layout) \in Nat /\ Len(layout) > 1
        /\ \A i \in 1 .. Lists : layout[i] \in Nat /\ layout[i] >= 2
    BY <1>1, LayoutType
  <1>3. chosen \in Nat /\ chosen >= 1 /\ chosen + Lists - 1 <= Len(slices)
    BY <1>1 DEF TypeOK, StoreInv
  <1>4. slices \in Seq(S)
    BY <1>1 DEF TypeOK
  <1>5. ASSUME NEW j \in 1 .. Lists
        PROVE  /\ chosen + j - 1 \in DOMAIN slices
               /\ Member(j).ptr \in Nat
               /\ Bytes(Member(j)) \in Nat
    <2> DEFINE i == chosen + j - 1
               s == slices[i]
    <2>1. i \in 1 .. Len(slices)
      BY <1>2, <1>3
    <2> HIDE DEF S, i
    <2>2. s \in S /\ i \in DOMAIN slices
      BY <2>1, <1>4
    <2> HIDE DEF s
    <2>3. s.ptr \in Nat /\ Bytes(s) \in Nat
      BY <2>2, BytesType DEF S
    <2>4. QED
      BY <2>2, <2>3 DEF s, i, Member
  <1>6. QED
    BY <1>2, <1>5

\* Where the lists of the message begin.
LEMMA DataAtSteps ==
    ASSUME IInv, mode \in {"store", "done"}
    PROVE  /\ DataAt[1] = PAYLOAD_OFFSET + layout[1]
           /\ \A j \in 2 .. Lists : DataAt[j] = DataAt[j - 1] + Bytes(Member(j - 1)) + layout[j]
           /\ \A j \in 1 .. Lists : DataAt[j] \in Nat
  <1> DEFINE N == Lists
             a == PAYLOAD_OFFSET + layout[1]
             add(j) == Bytes(Member(j - 1)) + layout[j]
             inc == [j \in 1 .. N |-> IF j = 1 THEN 0 ELSE add(j)]
  <1>1. N \in Nat /\ N >= 1
    BY MemberType
  <1>2. \A j \in 1 .. N : Bytes(Member(j)) \in Nat /\ layout[j] \in Nat
    BY MemberType
  <1> HIDE DEF N
  <1>3. a \in Nat
    BY <1>1, <1>2 DEF PAYLOAD_OFFSET
  <1>4. ASSUME NEW j \in 1 .. N, j # 1
        PROVE  j - 1 \in 1 .. N /\ Bytes(Member(j - 1)) \in Nat /\ layout[j] \in Nat /\ add(j) \in Nat
    <2>1. j - 1 \in 1 .. N
      BY <1>1, <1>4
    <2>2. Bytes(Member(j - 1)) \in Nat /\ layout[j] \in Nat
      BY <2>1, <1>2
    <2>3. QED
      BY <2>1, <2>2
  <1> HIDE DEF a, add
  <1>5. inc \in [1 .. N -> Nat]
    BY <1>4
  <1>6. PICK g \in [1 .. N -> Nat] : \A j \in 1 .. N : g[j] = IF j = 1 THEN a ELSE g[j - 1] + inc[j]
    <2> HIDE DEF inc
    <2>1. \E g \in [1 .. N -> Nat] : IsRunningSum(g, N, a, inc)
      BY <1>1, <1>3, <1>5, RunningSum, Zenon
    <2>2. QED
      BY <2>1, Zenon DEF IsRunningSum
  <1>7. \A j \in 1 .. N : g[j] = IF j = 1 THEN a ELSE g[j - 1] + Bytes(Member(j - 1)) + layout[j]
    <2> SUFFICES ASSUME NEW j \in 1 .. N, j # 1
                 PROVE  g[j] = g[j - 1] + Bytes(Member(j - 1)) + layout[j]
      BY <1>6
    <2>1. g[j] = g[j - 1] + add(j)
      BY <1>6
    <2>2. g[j - 1] \in Nat /\ Bytes(Member(j - 1)) \in Nat /\ layout[j] \in Nat
      BY <1>4
    <2>3. QED
      BY <2>1, <2>2 DEF add
  <1> DEFINE F(f) == [j \in 1 .. N |-> IF j = 1 THEN a ELSE f[j - 1] + Bytes(Member(j - 1)) + layout[j]]
  <1>8. g = F(g)
    BY <1>7
  <1>9. DataAt = CHOOSE f : f = F(f)
    BY DEF DataAt, N, a
  <1>10. DataAt = F(DataAt)
    <2> HIDE DEF F
    <2>1. QED
      BY <1>8, <1>9
  <1>11. \A j \in 1 .. N : DataAt[j] = IF j = 1 THEN a ELSE DataAt[j - 1] + Bytes(Member(j - 1)) + layout[j]
    <2> SUFFICES ASSUME NEW j \in 1 .. N
                 PROVE  DataAt[j] = IF j = 1 THEN a ELSE DataAt[j - 1] + Bytes(Member(j - 1)) + layout[j]
      OBVIOUS
    <2>1. DataAt[j] = F(DataAt)[j]
      BY <1>10, Zenon
    <2>2. F(DataAt)[j] = IF j = 1 THEN a ELSE DataAt[j - 1] + Bytes(Member(j - 1)) + layout[j]
      OBVIOUS
    <2>3. QED
      BY <2>1, <2>2, Zenon
  <1> HIDE DEF F
  <1>12. \A j \in 1 .. N : DataAt[j] = g[j]
    <2> DEFINE T == {j \in 1 .. N : DataAt[j] # g[j]}
    <2> SUFFICES ASSUME T # {}
                 PROVE  FALSE
      OBVIOUS
    <2>1. T \subseteq Nat
      BY <1>1
    <2>2. PICK n \in T : \A m \in T : n <= m
      BY <2>1, Smallest
    <2>3. n \in 1 .. N /\ DataAt[n] # g[n] /\ (n # 1 => DataAt[n - 1] = g[n - 1])
      BY <2>2, <1>1
    <2>4. QED
      BY <2>3, <1>7, <1>11
  <1>13. \A j \in 1 .. N : DataAt[j] \in Nat
    BY <1>12
  <1>14. DataAt[1] = a
    BY <1>1, <1>11
  <1>15. \A j \in 2 .. N : DataAt[j] = DataAt[j - 1] + Bytes(Member(j - 1)) + layout[j]
    <2> SUFFICES ASSUME NEW j \in 2 .. N
                 PROVE  DataAt[j] = DataAt[j - 1] + Bytes(Member(j - 1)) + layout[j]
      OBVIOUS
    <2>1. j \in 1 .. N /\ j # 1
      BY <1>1
    <2>2. QED
      BY <1>11, <2>1, Zenon
  <1>16. QED
    BY <1>13, <1>14, <1>15 DEF N, a
LEMMA InitData == Init => DataInv
  <1> SUFFICES ASSUME Init
               PROVE  DataInv
    OBVIOUS
  <1>1. mode = "idle" /\ dest = PAYLOAD_OFFSET
    BY DEF Init
  <1>2. dest >= PAYLOAD_OFFSET
    BY <1>1 DEF PAYLOAD_OFFSET
  <1>3. QED
    BY <1>1, <1>2 DEF DataInv, ChainInv, HoldsInv, PlaceInv, LengthInv

\* An allocator is set up.
LEMMA BeginData ==
    ASSUME IInv, DataInv, NEW k, NEW size, NEW l, Begin(k, size, l), ctr' = 0,
           k = "list" => base' = PAYLOAD_OFFSET + 2,
           k # "list" => /\ l \in Seq(Nat) /\ Len(l) > 1 /\ suffixes' = Tail(l)
                         /\ base' >= PAYLOAD_OFFSET + l[1]
    PROVE  DataInv'
  <1>1. /\ mode' = "alloc" /\ kind' = k /\ layout' = l /\ slices' = <<>> /\ dest' = dest
    BY DEF IInv, AllocInv, Begin
  <1>2. Len(<<>>) = 0 /\ DOMAIN <<>> = {}
    OBVIOUS
  <1>3. ChainInv'
    <2>1. kind' # "list" => Lists' >= 0
      BY <1>1 DEF Lists
    <2>2. Len(slices') = 0
      BY <1>1, <1>2
    <2>3. \A j \in 2 .. 0 : FALSE
      OBVIOUS
    <2>4. kind' = "list" => base' = PAYLOAD_OFFSET + 2
      BY <1>1
    <2>5. kind' # "list" => /\ suffixes' = Tail(layout') /\ base' >= PAYLOAD_OFFSET + layout'[1]
                            /\ Len(slices') <= Lists'
      BY <1>1, <2>1, <2>2
    <2>6. /\ ctr' = Len(slices') /\ slices' = <<>>
          /\ \A j \in 2 .. Len(slices') :
                 slices'[j].ptr >= slices'[j - 1].ptr + Bytes(slices[j - 1])' + layout'[j]
      BY <1>1, <2>2, <2>3
    <2>7. QED
      BY <2>4, <2>5, <2>6 DEF ChainInv, PAYLOAD_OFFSET
  <1>4. HoldsInv'
    BY <1>1, <1>2 DEF HoldsInv
  <1>5. PlaceInv' /\ LengthInv'
    BY <1>1 DEF DataInv, PlaceInv, LengthInv, PAYLOAD_OFFSET
  <1>6. QED
    BY <1>3, <1>4, <1>5 DEF DataInv

\* The handler takes a slice: it lies above the others, whose bytes stay.
LEMMA SliceNewData ==
    ASSUME IInv, DataInv, NEW len \in Lens, NEW size \in ElemSizes, slice_new(len, size)
    PROVE  DataInv'
  <1> DEFINE b == size * len
             n == b % U16
             k == Len(slices) + 1
             e == slices'[k]
             S == [ptr : Nat, len : 0 .. U16 - 1, size : ElemSizes]
  <1>1. b \in Nat
    <2>1. len \in 0 .. U16 - 1 /\ size \in Nat
      BY SizesAssumption
    <2>2. len \in Nat
      BY <2>1, WidthsAssumption
    <2>3. QED
      BY <2>1, <2>2
  <1>2. b < U16 => n = b
    <2> HIDE DEF b
    <2>1. U16 \in Nat \ {0} /\ b \in Int
      BY <1>1, WidthsAssumption
    <2>2. b \in 0 .. (U16 - 1) => n = b
      BY <2>1, Remainder
    <2>3. QED
      BY <2>1, <2>2, <1>1
  <1>3. /\ TypeOK /\ AllocInv /\ base \in Nat /\ ptr \in Nat /\ ctr \in Nat
        /\ slices \in Seq(S) /\ mode = "alloc" /\ Len(slices) \in Nat
        /\ DOMAIN slices = 1 .. Len(slices) /\ Len(slices) < Wanted
    BY DEF IInv, TypeOK, slice_new
  <1>4. TypeOK' /\ AllocInv' /\ slices' \in Seq(S)
    BY SliceNew DEF IInv, TypeOK
  <1>5. UNCHANGED <<mode, message, base, cap, suffixes, chosen, dest, stored, wlen>>
    BY DEF slice_new
  <1>6. /\ Len(slices') = k /\ DOMAIN slices' = 1 .. k
        /\ \A i \in 1 .. Len(slices) : slices'[i] = slices[i]
    BY <1>3, <1>4 DEF slice_new
  <1>7. \/ e.ptr = NULL /\ mem' = mem
        \/ /\ ~ AllocFails(n) /\ ptr' = ptr + Advance(n) /\ ctr' = ctr + 1
           /\ e.ptr = ptr /\ e.len = len /\ e.size = size
           /\ mem' = [a \in 0 .. Top |-> IF a \in ptr .. ptr + b - 1 THEN Data(k, a - ptr) ELSE mem[a]]
    BY <1>3 DEF slice_new
  <1>8. \A i \in DOMAIN slices : slices[i].ptr \in Nat /\ Bytes(slices[i]) \in Nat
    <2> HIDE DEF S
    <2>1. \A i \in DOMAIN slices : slices[i] \in S
      BY <1>3
    <2>2. QED
      BY <2>1, BytesType DEF S
  <1>9. e.ptr # NULL => Bytes(e) = b
    <2> HIDE DEF e
    <2>1. e.ptr # NULL => e.len = len /\ e.size = size
      BY <1>7
    <2>2. QED
      BY <1>1, <2>1, SizesAssumption, WidthsAssumption DEF Bytes
  <1>10. Sound(e) => e.ptr # NULL /\ n = b
    <2> HIDE DEF e, b, n
    <2>1. QED
      BY <1>1, <1>2, <1>9, WidthsAssumption DEF Sound, Overlong
  <1> HIDE DEF S, e, b, n
  <1>11. k \in Nat /\ k >= 1 /\ slices'[k] = e
    BY <1>3 DEF e
  <1>12. \A i \in DOMAIN slices : Sound(slices'[i]) <=> Sound(slices[i])
    BY <1>3, <1>6
  <1>13. ASSUME NEW i \in DOMAIN slices, Sound(slices[i])
         PROVE  Holds(i)'
    <2>1. Holds(i)
      BY <1>3, <1>13 DEF DataInv, HoldsInv
    <2>2. slices'[i] = slices[i] /\ slices[i].ptr + Bytes(slices[i]) <= ptr
      BY <1>3, <1>6, <1>13 DEF AllocInv
    <2>3. ASSUME NEW x \in 0 .. Bytes(slices[i]) - 1, slices[i].ptr + x <= Top
          PROVE  mem'[slices[i].ptr + x] = Data(i, x)
      <3> DEFINE a == slices[i].ptr + x
      <3> DEFINE p == slices[i].ptr
                 c == Bytes(slices[i])
      <3>a. p \in Nat /\ c \in Nat /\ Top \in Nat /\ x \in 0 .. c - 1 /\ p + x <= Top /\ p + c <= ptr
        BY <1>8, <2>2, <2>3, SizesAssumption
      <3> HIDE DEF p, c
      <3>b. p + x \in 0 .. Top /\ p + x < ptr
        BY <1>3, <3>a
      <3>1. a \in 0 .. Top /\ a < ptr
        BY <3>b DEF p
      <3>2. mem[a] = Data(i, x)
        BY <2>1, <2>3 DEF Holds
      <3> HIDE DEF a
      <3>3. ~ (a \in ptr .. ptr + b - 1)
        BY <1>1, <1>3, <3>1
      <3>4. mem'[a] = mem[a]
        BY <1>7, <3>1, <3>3
      <3>5. QED
        BY <3>2, <3>4 DEF a
    <2>4. QED
      BY <2>2, <2>3 DEF Holds, Bytes
  <1>14. ASSUME Sound(e)
         PROVE  \A x \in 0 .. Bytes(e) - 1 : e.ptr + x <= Top => mem'[e.ptr + x] = Data(k, x)
    <2>1. /\ e.ptr = ptr /\ Bytes(e) = b
          /\ mem' = [a \in 0 .. Top |-> IF a \in ptr .. ptr + b - 1 THEN Data(k, a - ptr) ELSE mem[a]]
      BY <1>7, <1>9, <1>10, <1>14
    <2> HIDE DEF k
    <2>2. ASSUME NEW x \in 0 .. b - 1, ptr + x <= Top
          PROVE  mem'[ptr + x] = Data(k, x)
      <3>1. ptr + x \in 0 .. Top /\ ptr + x \in ptr .. ptr + b - 1 /\ (ptr + x) - ptr = x
        BY <1>1, <1>3, <2>2, SizesAssumption
      <3>2. QED
        BY <2>1, <3>1
    <2>3. QED
      BY <2>1, <2>2
  <1>15. HoldsInv'
    <2>1. mode' = "alloc"
      BY <1>3, <1>5
    <2>2. ASSUME NEW i \in DOMAIN slices', Sound(slices'[i])
          PROVE  Holds(i)'
      <3>1. CASE i = k
        <4>1. slices'[i] = e
          BY <1>11, <3>1
        <4>2. \A x \in 0 .. Bytes(e) - 1 : e.ptr + x <= Top => mem'[e.ptr + x] = Data(i, x)
          BY <1>14, <2>2, <3>1, <4>1
        <4>3. QED
          BY <4>1, <4>2 DEF Holds, Bytes
      <3>2. CASE i # k
        <4>1. i \in DOMAIN slices
          BY <1>3, <1>6, <3>2
        <4>2. QED
          BY <1>12, <1>13, <2>2, <4>1
      <3>3. QED
        BY <3>1, <3>2
    <2>3. QED
      BY <2>1, <2>2 DEF HoldsInv, Sound, Overlong, Bytes
  <1>16. ASSUME kind # "list", AllSound'
         PROVE  /\ ctr' = k
                /\ ptr' >= e.ptr + Bytes(e) + layout[k + 1]
                /\ \A i \in 2 .. k :
                       slices'[i].ptr >= slices'[i - 1].ptr + Bytes(slices'[i - 1]) + layout[i]
    <2>1. Sound(e) /\ AllSound
      <3>1. \A i \in DOMAIN slices' : Sound(slices'[i])
        BY <1>16 DEF AllSound, Sound, Overlong, Bytes
      <3>2. QED
        BY <1>3, <1>6, <1>11, <1>12, <3>1 DEF AllSound
    <2>2. /\ ctr = Len(slices) /\ suffixes = Tail(layout)
          /\ slices # <<>> => ptr >= slices[Len(slices)].ptr + Bytes(slices[Len(slices)])
                                      + layout[Len(slices) + 1]
          /\ \A i \in 2 .. Len(slices) :
                 slices[i].ptr >= slices[i - 1].ptr + Bytes(slices[i - 1]) + layout[i]
      BY <1>3, <1>16, <2>1 DEF DataInv, ChainInv
    <2>3. /\ ctr' = ctr + 1 /\ e.ptr = ptr /\ ptr' = ptr + Advance(n) /\ n = b /\ Bytes(e) = b
      BY <1>7, <1>9, <1>10, <2>1
    <2>4. layout \in Seq(Nat) /\ Len(layout) > 1 /\ k <= Len(layout) - 1
      BY <1>3, <1>16, LayoutType DEF Wanted
    <2>5. suffixes # <<>> /\ suffixes[k] = layout[k + 1] /\ layout[k + 1] \in Nat
      <3>1. Tail(layout) # <<>> /\ \A i \in 1 .. Len(layout) - 1 : Tail(layout)[i] = layout[i + 1]
        <4>1. layout # <<>> /\ Len(layout) \in Nat
          BY <2>4
        <4>2. /\ Tail(layout) \in Seq(Nat) /\ Len(Tail(layout)) = Len(layout) - 1
              /\ \A i \in 1 .. Len(Tail(layout)) : Tail(layout)[i] = layout[i + 1]
          BY <2>4, <4>1, HeadTailProperties
        <4> DEFINE t == Tail(layout)
        <4>3. t \in Seq(Nat) /\ Len(t) = Len(layout) - 1 /\ Len(t) > 0
          BY <2>4, <4>1, <4>2
        <4> HIDE DEF t
        <4>4. t # <<>>
          BY <4>3
        <4>5. QED
          BY <4>2, <4>3, <4>4 DEF t
      <3>2. k \in 1 .. Len(layout) - 1 /\ k + 1 \in 1 .. Len(layout)
        BY <1>11, <2>4
      <3> HIDE DEF k
      <3>3. Tail(layout)[k] = layout[k + 1] /\ layout[k + 1] \in Nat
        BY <2>4, <3>1, <3>2, ElementOfSeq
      <3>4. QED
        BY <2>2, <3>1, <3>3
    <2>6. Advance(n) = n + layout[k + 1]
      BY <2>2, <2>5 DEF Advance
    <2>7. ctr' = k /\ ptr' >= e.ptr + Bytes(e) + layout[k + 1]
      BY <1>1, <1>3, <2>2, <2>3, <2>5, <2>6
    <2>8. ASSUME NEW i \in 2 .. k
          PROVE  slices'[i].ptr >= slices'[i - 1].ptr + Bytes(slices'[i - 1]) + layout[i]
      <3>1. i - 1 \in 1 .. Len(slices) /\ slices'[i - 1] = slices[i - 1]
        BY <1>3, <1>6
      <3>2. CASE i = k
        <4>1. i - 1 = Len(slices) /\ slices # <<>> /\ Len(slices) + 1 = i
          BY <1>3, <3>1, <3>2
        <4>2. slices'[i] = e
          BY <1>11, <3>2
        <4>3. QED
          BY <2>2, <2>3, <3>1, <4>1, <4>2
      <3>3. CASE i # k
        <4>1. i \in 2 .. Len(slices) /\ slices'[i] = slices[i]
          BY <1>3, <1>6, <3>3
        <4>2. QED
          BY <2>2, <3>1, <4>1
      <3>4. QED
        BY <3>2, <3>3
    <2>9. QED
      BY <2>7, <2>8
  <1>17. ChainInv'
    <2>1. kind' = kind /\ layout' = layout /\ base' = base /\ suffixes' = suffixes /\ Lists' = Lists
          /\ mode' = mode
      BY <1>5 DEF message, Lists
    <2>2. /\ kind = "list" => base = PAYLOAD_OFFSET + 2
          /\ kind # "list" => suffixes = Tail(layout) /\ base >= PAYLOAD_OFFSET + layout[1]
      BY <1>3 DEF DataInv, ChainInv
    <2>3. kind # "list" => Len(slices') <= Lists
      <3>1. kind # "list" => Wanted = Lists /\ Lists \in Int
        BY <1>3, LayoutType DEF Wanted
      <3>2. QED
        BY <1>3, <1>6, <3>1
    <2>4. kind # "list" /\ AllSound' =>
              /\ ctr' = Len(slices')
              /\ LET j == Len(slices')
                 IN  ptr' >= slices'[j].ptr + Bytes(slices'[j]) + layout'[j + 1]
              /\ \A i \in 2 .. Len(slices') :
                     slices'[i].ptr >= slices'[i - 1].ptr + Bytes(slices'[i - 1]) + layout'[i]
      BY <1>6, <1>11, <1>16, <2>1
    <2>5. QED
      BY <2>1, <2>2, <2>3, <2>4 DEF ChainInv, PAYLOAD_OFFSET, Bytes
  <1>18. PlaceInv' /\ LengthInv'
    BY <1>3, <1>5 DEF DataInv, PlaceInv, LengthInv, PAYLOAD_OFFSET
  <1>19. QED
    BY <1>15, <1>17, <1>18 DEF DataInv
\* What depends on the slices, the layout and the choice only.
LEMMA SameMessage ==
    ASSUME UNCHANGED <<layout, slices, chosen>>
    PROVE  /\ Lists' = Lists /\ DataAt' = DataAt /\ (AllSound' <=> AllSound)
           /\ \A j : Member(j)' = Member(j) /\ Bytes(Member(j))' = Bytes(Member(j))
  <1>1. Lists' = Lists
    BY DEF Lists
  <1>2. \A j : Member(j)' = Member(j) /\ Bytes(Member(j))' = Bytes(Member(j))
    BY DEF Member, Bytes
  <1>3. DataAt' = DataAt
    BY DEF DataAt, Lists, Member, Bytes
  <1>4. AllSound' <=> AllSound
    BY DEF AllSound, Sound, Overlong, Bytes
  <1>5. QED
    BY <1>1, <1>2, <1>3, <1>4

\* The chain of slices is not touched after the handler.
LEMMA SameChain ==
    ASSUME ChainInv, mode # "idle",
           UNCHANGED <<kind, layout, base, suffixes, ptr, ctr, slices>>
    PROVE  ChainInv'
  <1>1. Lists' = Lists /\ (AllSound' <=> AllSound)
    BY DEF Lists, AllSound, Sound, Overlong, Bytes
  <1>2. \A k : Bytes(slices[k])' = Bytes(slices[k])
    BY DEF Bytes
  <1>3. QED
    BY <1>1, <1>2 DEF ChainInv, PAYLOAD_OFFSET

\* The handler returns.
LEMMA ReturnData ==
    ASSUME IInv, IInv', DataInv, NEW k \in DOMAIN slices, Return(k)
    PROVE  DataInv'
  <1>1. /\ mode = "alloc" /\ mode' = "store" /\ chosen' = k
        /\ kind # "list" => k = 1
        /\ UNCHANGED <<message, alloc, slices, dest, stored, mem, wlen>>
    BY DEF Return
  <1>2. TypeOK /\ AllocInv /\ ListInv /\ stored = 0 /\ dest = PAYLOAD_OFFSET
    BY <1>1 DEF IInv, StoreInv
  <1>3. /\ layout \in Seq(Nat) /\ Lists \in Nat /\ Lists >= 1
        /\ layout[1] \in Nat
    BY <1>2, LayoutType
  <1>4. /\ Lists' = Lists /\ layout' = layout
    BY <1>1 DEF Lists, message
  <1>5. (AllSound' <=> AllSound)
    BY <1>1 DEF AllSound, Sound, Overlong, Bytes
  <1>6. ChainInv'
    BY <1>1, SameChain DEF DataInv, message, alloc
  <1>7. HoldsInv'
    <2> SUFFICES ASSUME AllSound, NEW j \in 1 .. Lists
                 PROVE  Holds(chosen + j - 1)'
      BY <1>1, <1>2, <1>4, <1>5 DEF HoldsInv
    <2> DEFINE i == k + j - 1
    <2>1. i \in DOMAIN slices
      <3>1. k + Lists - 1 <= Len(slices) /\ k >= 1
        BY <1>1, <1>4 DEF IInv, StoreInv
      <3>2. slices \in Seq([ptr : Nat, len : 0 .. U16 - 1, size : ElemSizes])
        BY <1>2 DEF TypeOK
      <3>3. DOMAIN slices = 1 .. Len(slices) /\ Len(slices) \in Nat /\ k \in Nat
        BY <3>2
      <3>4. QED
        BY <1>3, <3>1, <3>3
    <2> HIDE DEF i
    <2>2. Holds(i)
      BY <1>1, <2>1 DEF AllSound, DataInv, HoldsInv
    <2>3. /\ slices' = slices /\ mem' = mem /\ chosen' + j - 1 = i
      BY <1>1 DEF i
    <2>4. \A x \in 0 .. Bytes(slices[i]) - 1 :
              slices[i].ptr + x <= Top => mem[slices[i].ptr + x] = Data(i, x)
      BY <2>2 DEF Holds
    <2>5. QED
      BY <2>3, <2>4 DEF Holds, Bytes, Data
  <1>8. PlaceInv'
    <2> SUFFICES ASSUME AllSound
                 PROVE  PlaceInv'
      BY <1>5 DEF PlaceInv
    <2>1. slices[k].ptr # NULL /\ base <= slices[k].ptr
      <3>1. slices[k].ptr # NULL
        BY DEF AllSound, Sound
      <3>2. QED
        BY <1>2, <3>1 DEF AllocInv
    <2>2. PAYLOAD_OFFSET + layout[1] <= base
      <3>1. CASE kind = "list"
        <4>1. layout[1] = 2 /\ base = PAYLOAD_OFFSET + 2
          BY <1>1, <1>2, <3>1 DEF ListInv, ListLayout, DataInv, ChainInv
        <4>2. QED
          BY <4>1 DEF PAYLOAD_OFFSET
      <3>2. CASE kind # "list"
        <4>1. base >= PAYLOAD_OFFSET + layout[1]
          BY <1>1, <3>2 DEF DataInv, ChainInv
        <4>2. QED
          BY <1>2, <1>3, <4>1 DEF TypeOK, PAYLOAD_OFFSET
      <3>3. QED
        BY <3>1, <3>2
    <2>3. slices[k].ptr \in Nat /\ base \in Nat
      <3> DEFINE S == [ptr : Nat, len : 0 .. U16 - 1, size : ElemSizes]
      <3>1. slices \in Seq(S) /\ base \in Nat
        BY <1>2 DEF TypeOK
      <3> HIDE DEF S
      <3>2. slices[k] \in S
        BY <3>1
      <3>3. QED
        BY <3>1, <3>2 DEF S
    <2>4. Member(1)' = slices[k]
      <3>1. k + 1 - 1 = k
        BY <1>2 DEF TypeOK
      <3>2. QED
        BY <1>1, <3>1 DEF Member
    <2>5. dest' + layout'[stored' + 1] <= Member(stored + 1)'.ptr
      <3>1. dest + layout[1] <= slices[k].ptr
        BY <1>2, <1>3, <2>1, <2>2, <2>3 DEF PAYLOAD_OFFSET
      <3>2. dest' = dest /\ layout'[stored' + 1] = layout[1] /\ Member(stored + 1)' = slices[k]
        BY <1>1, <1>2, <1>4, <2>4 DEF Member
      <3>3. QED
        BY <3>1, <3>2
    <2>6. \A j \in 1 .. stored' : FALSE
      BY <1>1, <1>2
    <2>7. stored' = 0 /\ dest' = PAYLOAD_OFFSET
      BY <1>1, <1>2
    <2>8. QED
      BY <2>5, <2>6, <2>7 DEF PlaceInv, PAYLOAD_OFFSET
  <1>9. LengthInv'
    BY <1>1 DEF DataInv, LengthInv, PAYLOAD_OFFSET
  <1>10. QED
    BY <1>6, <1>7, <1>8, <1>9 DEF DataInv
\* The store function writes a list: below dest and above the data nothing
\* changes, and the data is what the slice held unless the two overlap.
LEMMA StoreListMemory ==
    ASSUME IInv, PlaceInv, AllSound, NEW garbled \in BOOLEAN, StoreList(garbled)
    PROVE  LET s == Member(stored + 1)
               D == dest + layout[stored + 1]
               n == Bytes(s)
           IN  /\ dest' = D + n /\ D <= s.ptr
               /\ \A a \in 0 .. Top : a < dest \/ a >= D + n => mem'[a] = mem[a]
               /\ \/ Overlap(s.ptr, D, n)
                  \/ \A x \in 0 .. n - 1 : s.ptr + x <= Top => mem'[D + x] = mem[s.ptr + x]
  <1> DEFINE s == Member(stored + 1)
             p == s.ptr
             f == layout[stored + 1]
             D == dest + f
             d == dest + layout[stored + 1] - 2
             b == Bytes(s)
             n == Bytes(s) % U16
             fixed == [a \in 0 .. Top |-> IF a \in dest .. d - 1 THEN Fixed ELSE mem[a]]
             Source(a) == IF garbled THEN Garbled ELSE fixed[p + (a - d - 2)]
             copied == [a \in 0 .. Top |->
                           IF NeedsCopy(s, d) /\ a \in d + 2 .. d + 1 + n /\ p + (a - d - 2) <= Top
                           THEN Source(a) ELSE fixed[a]]
  <1>1. /\ mode = "store" /\ stored < Lists
        /\ garbled => NeedsCopy(s, d) /\ Overlap(p, d + 2, n)
        /\ mem' = [a \in 0 .. Top |-> IF a \in d .. d + 1 THEN Fixed ELSE copied[a]]
        /\ dest' = d + 2 + n
    BY DEF StoreList
  <1>2. stored \in Nat /\ dest \in Nat
    BY DEF IInv, TypeOK
  <1>3. stored + 1 \in 1 .. Lists
    BY <1>1, <1>2, MemberType
  <1>4. p \in Nat /\ b \in Nat /\ f \in Nat /\ f >= 2 /\ chosen + (stored + 1) - 1 \in DOMAIN slices
    BY <1>1, <1>3, MemberType
  <1>5. n = b
    <2>1. Sound(s)
      BY <1>4 DEF AllSound, Member
    <2> HIDE DEF s
    <2>2. ~ (b >= U16)
      BY <2>1 DEF Sound, Overlong
    <2> HIDE DEF b
    <2>3. U16 \in Nat \ {0} /\ b \in Int /\ b \in 0 .. (U16 - 1)
      BY <1>4, <2>2, WidthsAssumption
    <2>4. b % U16 = b
      BY <2>3, Remainder
    <2>5. QED
      BY <2>4 DEF b
  <1>6. D <= p
    BY <1>1 DEF PlaceInv
  <1>7. d = D - 2 /\ D \in Nat /\ D >= 2 /\ d \in Nat /\ d >= dest /\ d # p
    <2>1. d = D - 2
      BY <1>2, <1>4
    <2> HIDE DEF f, p, d
    <2>2. d = (dest + f) - 2
      BY <2>1
    <2>3. QED
      BY <1>2, <1>4, <1>6, <2>2
  <1>8. NeedsCopy(s, d)
    BY <1>7 DEF NeedsCopy
  <1> HIDE DEF s, p, f, d, D, b, n
  <1>9. dest' = D + b
    BY <1>1, <1>4, <1>5, <1>7
  <1>10. ASSUME NEW a \in 0 .. Top, a < dest \/ a >= D + b
         PROVE  mem'[a] = mem[a]
    <2>1. a \in Nat /\ ~ (a \in d .. d + 1) /\ ~ (a \in d + 2 .. d + 1 + n) /\ ~ (a \in dest .. d - 1)
      BY <1>2, <1>4, <1>5, <1>7, <1>10, SizesAssumption
    <2>2. fixed[a] = mem[a]
      BY <2>1
    <2> HIDE DEF fixed
    <2>3. copied[a] = fixed[a]
      BY <2>1
    <2> HIDE DEF copied
    <2>4. mem'[a] = copied[a]
      BY <1>1, <2>1
    <2>5. QED
      BY <2>2, <2>3, <2>4
  <1>11. ASSUME ~ Overlap(p, D, b), NEW x \in 0 .. b - 1, p + x <= Top
         PROVE  mem'[D + x] = mem[p + x]
    <2> DEFINE a == D + x
    <2>1. /\ a \in 0 .. Top /\ ~ (a \in d .. d + 1) /\ a \in d + 2 .. d + 1 + n /\ a - d - 2 = x
          /\ p + x \in 0 .. Top /\ ~ (p + x \in dest .. d - 1)
      BY <1>2, <1>4, <1>5, <1>6, <1>7, <1>11, SizesAssumption
    <2> HIDE DEF a
    <2>2. fixed[p + x] = mem[p + x]
      BY <2>1
    <2> HIDE DEF fixed
    <2>a. ~ garbled
      <3>1. d + 2 = D
        BY <1>7
      <3>2. QED
        BY <1>1, <1>5, <1>11, <3>1
    <2>3. copied[a] = fixed[p + x]
      BY <1>8, <1>11, <2>1, <2>a
    <2> HIDE DEF copied
    <2>4. mem'[a] = copied[a]
      BY <1>1, <2>1
    <2>5. QED
      BY <2>2, <2>3, <2>4 DEF a
  <1>12. QED
    BY <1>6, <1>9, <1>10, <1>11 DEF s, p, f, D, b
\* The store function writes a list: the lists before it, the slices after it
\* and the places of both are as they should be.
LEMMA StoreListData ==
    ASSUME IInv, DataInv, NEW garbled \in BOOLEAN, StoreList(garbled)
    PROVE  DataInv'
  <1>1. /\ mode = "store" /\ mode' = "store" /\ stored < Lists /\ stored' = stored + 1
        /\ UNCHANGED <<message, alloc, slices, chosen, wlen>>
    BY DEF StoreList
  <1>2. UNCHANGED <<layout, slices, chosen, kind, base, suffixes, ptr, ctr>>
    BY <1>1 DEF message, alloc
  <1>3. /\ stored \in Nat /\ dest \in Nat /\ chosen \in Nat /\ dest' \in Nat
    BY StoreListStep DEF IInv, TypeOK
  <1>4. /\ Lists \in Nat /\ Lists >= 1
        /\ \A j \in 1 .. Lists :
               /\ chosen + j - 1 \in DOMAIN slices
               /\ Member(j).ptr \in Nat
               /\ Bytes(Member(j)) \in Nat
               /\ layout[j] \in Nat /\ layout[j] >= 2
    BY <1>1, MemberType
  <1>5. /\ Lists' = Lists /\ DataAt' = DataAt /\ (AllSound' <=> AllSound)
        /\ \A j : Member(j)' = Member(j) /\ Bytes(Member(j))' = Bytes(Member(j))
    BY <1>2, SameMessage
  <1>6. ChainInv'
    BY <1>1, <1>2, SameChain DEF DataInv
  <1> DEFINE J == stored + 1
             s == Member(J)
             b == Bytes(s)
             D == dest + layout[J]
  <1>7. J \in 1 .. Lists /\ J \in Nat /\ s.ptr \in Nat /\ b \in Nat /\ layout[J] \in Nat
    BY <1>1, <1>3, <1>4
  <1>8. LengthInv'
    <2>1. dest' >= dest
      <3> DEFINE n == Bytes(s) % U16
      <3>1. dest' = dest + layout[stored + 1] - 2 + 2 + n
        BY DEF StoreList
      <3>2. n \in Nat
        <4>1. U16 \in Nat \ {0} /\ Bytes(s) \in Int
          BY <1>7, WidthsAssumption
        <4> HIDE DEF s
        <4>2. n \in 0 .. (U16 - 1)
          BY <4>1, Remainder
        <4>3. QED
          BY <4>2
      <3> HIDE DEF n
      <3>3. QED
        BY <1>3, <1>7, <3>1, <3>2
    <2>2. dest >= PAYLOAD_OFFSET
      BY DEF DataInv, LengthInv
    <2>3. QED
      BY <1>1, <1>3, <2>1, <2>2 DEF LengthInv, PAYLOAD_OFFSET
  <1>9. CASE ~ AllSound
    BY <1>1, <1>5, <1>6, <1>8, <1>9 DEF DataInv, HoldsInv, PlaceInv
  <1>10. CASE AllSound
    <2>1. /\ dest' = D + b /\ D <= s.ptr
          /\ \A a \in 0 .. Top : a < dest \/ a >= D + b => mem'[a] = mem[a]
          /\ \/ Overlap(s.ptr, D, b)
             \/ \A x \in 0 .. b - 1 : s.ptr + x <= Top => mem'[D + x] = mem[s.ptr + x]
      BY <1>10, StoreListMemory DEF DataInv
    <2>2. D = DataAt[J] /\ D \in Nat /\ \A j \in 1 .. Lists : DataAt[j] \in Nat
      <3>1. dest = IF stored = 0 THEN PAYLOAD_OFFSET ELSE DataAt[stored] + Bytes(Member(stored))
        BY <1>1, <1>10 DEF DataInv, PlaceInv
      <3>2. /\ DataAt[1] = PAYLOAD_OFFSET + layout[1]
            /\ \A j \in 2 .. Lists : DataAt[j] = DataAt[j - 1] + Bytes(Member(j - 1)) + layout[j]
            /\ \A j \in 1 .. Lists : DataAt[j] \in Nat
        BY <1>1, DataAtSteps
      <3>3. CASE stored = 0
        BY <1>7, <3>1, <3>2, <3>3
      <3>4. CASE stored # 0
        <4>1. J \in 2 .. Lists /\ J - 1 = stored
          BY <1>1, <1>3, <1>4, <3>4
        <4>2. DataAt[J] = DataAt[stored] + Bytes(Member(stored)) + layout[J]
          BY <3>2, <4>1
        <4>3. QED
          BY <1>7, <3>1, <3>2, <3>4, <4>2
      <3>5. QED
        BY <3>3, <3>4
    <2>3. ASSUME NEW j \in J + 1 .. Lists
          PROVE  /\ j \in 1 .. Lists /\ s.ptr + b <= Member(j).ptr
      <3>1. j \in 1 .. Lists /\ chosen + J - 1 < chosen + j - 1
        BY <1>3, <1>4, <1>7
      <3>2. chosen + J - 1 \in DOMAIN slices /\ chosen + j - 1 \in DOMAIN slices
        BY <1>4, <1>7, <3>1
      <3>3. Sound(slices[chosen + J - 1]) /\ slices[chosen + j - 1].ptr # NULL
        BY <1>10, <3>2 DEF AllSound, Sound
      <3>4. slices[chosen + J - 1].ptr + Bytes(slices[chosen + J - 1]) <= slices[chosen + j - 1].ptr
        BY <3>1, <3>2, <3>3 DEF IInv, SlicesApart
      <3>5. QED
        BY <3>1, <3>4 DEF Member
    <2>4. HoldsInv'
      <3> SUFFICES ASSUME NEW j \in J + 1 .. Lists
                   PROVE  Holds(chosen + j - 1)'
        BY <1>1, <1>5 DEF HoldsInv
      <3> DEFINE i == chosen + j - 1
      <3>1. Holds(i)
        <4>1. j \in stored + 1 .. Lists
          BY <1>3, <1>4
        <4>2. QED
          BY <1>1, <1>10, <4>1 DEF DataInv, HoldsInv
      <3>2. slices[i].ptr \in Nat /\ Bytes(slices[i]) \in Nat /\ s.ptr + b <= slices[i].ptr
        BY <1>4, <2>3 DEF Member
      <3>3. slices' = slices /\ chosen' + j - 1 = i
        BY <1>2
      <3> HIDE DEF i, s, b, D
      <3>4. ASSUME NEW x \in 0 .. Bytes(slices[i]) - 1, slices[i].ptr + x <= Top
            PROVE  mem'[slices[i].ptr + x] = Data(i, x)
        <4>1. slices[i].ptr + x \in 0 .. Top /\ slices[i].ptr + x >= D + b
          BY <1>7, <2>1, <2>2, <3>2, <3>4, SizesAssumption
        <4>2. mem[slices[i].ptr + x] = Data(i, x)
          BY <3>1, <3>4 DEF Holds
        <4>3. QED
          BY <2>1, <4>1, <4>2
      <3>5. QED
        BY <3>3, <3>4 DEF Holds, Bytes, Data
    <2>5. stored' < Lists => dest' + layout[stored' + 1] <= Member(stored' + 1).ptr
      <3> SUFFICES ASSUME J < Lists
                   PROVE  dest' + layout[J + 1] <= Member(J + 1).ptr
        BY <1>1
      <3>1. kind # "list"
        <4>1. kind = "list" => Lists = 1
          BY DEF IInv, ListInv, ListLayout, Lists
        <4>2. QED
          BY <1>7, <4>1
      <3>2. chosen = 1 /\ Len(slices) >= Lists /\ Len(slices) \in Nat
        <4>1. Len(slices) <= Lists
          BY <1>1, <3>1 DEF DataInv, ChainInv
        <4>2. chosen >= 1 /\ chosen + Lists - 1 <= Len(slices)
          BY <1>1 DEF IInv, StoreInv
        <4>3. Len(slices) \in Nat
          BY DEF IInv, TypeOK
        <4>4. QED
          BY <1>3, <1>4, <4>1, <4>2, <4>3
      <3>3. J + 1 \in 2 .. Len(slices) /\ (J + 1) - 1 = J /\ J + 1 \in 1 .. Lists
        <4>1. PICK n \in Nat, l \in Nat : n = Len(slices) /\ l = Lists /\ n >= l
          BY <1>4, <3>2
        <4>2. J \in Nat /\ J >= 1 /\ J < l
          BY <4>1, <1>7
        <4>3. J + 1 \in 2 .. n /\ (J + 1) - 1 = J /\ J + 1 \in 1 .. l
          BY <4>1, <4>2
        <4>4. QED
          BY <4>1, <4>3
      <3>4. slices[J + 1].ptr >= slices[J].ptr + Bytes(slices[J]) + layout[J + 1]
        BY <1>1, <1>10, <3>1, <3>3 DEF DataInv, ChainInv
      <3>5. Member(J + 1) = slices[J + 1] /\ s = slices[J]
        <4>1. 1 + (J + 1) - 1 = J + 1 /\ 1 + J - 1 = J
          BY <1>7
        <4>2. QED
          BY <3>2, <4>1 DEF Member
      <3>6. Member(J + 1).ptr \in Nat /\ layout[J + 1] \in Nat
        BY <1>4, <3>3
      <3>7. Member(J + 1).ptr >= s.ptr + b + layout[J + 1]
        BY <3>4, <3>5
      <3> HIDE DEF s, b, D
      <3>8. QED
        BY <1>7, <2>1, <2>2, <3>6, <3>7
    <2>6. ASSUME NEW j \in 1 .. J
          PROVE  /\ DataAt[j] <= Member(j).ptr
                 /\ DataAt[j] + Bytes(Member(j)) <= dest'
                 /\ \/ Overlapped(j)
                    \/ \A x \in 0 .. Bytes(Member(j)) - 1 :
                           Member(j).ptr + x <= Top => mem'[DataAt[j] + x] = Data(chosen + j - 1, x)
      <3>1. CASE j = J
        <4>1. Holds(chosen + J - 1)
          <5>1. J \in stored + 1 .. Lists
            BY <1>7, <1>3
          <5>2. QED
            BY <1>1, <1>10, <5>1 DEF DataInv, HoldsInv
        <4>2. \A x \in 0 .. b - 1 : s.ptr + x <= Top => mem[s.ptr + x] = Data(chosen + J - 1, x)
          BY <4>1 DEF Holds, Member
        <4> HIDE DEF D
        <4>3. DataAt[J] <= s.ptr /\ DataAt[J] + b <= dest'
          BY <1>7, <2>1, <2>2
        <4>4. \/ Overlapped(J)
              \/ \A x \in 0 .. b - 1 : s.ptr + x <= Top => mem'[DataAt[J] + x] = Data(chosen + J - 1, x)
          <5>1. Overlap(s.ptr, D, b) => Overlapped(J)
            BY <2>2 DEF Overlapped
          <5>2. QED
            BY <2>1, <2>2, <4>2, <5>1
        <4>5. QED
          BY <3>1, <4>3, <4>4
      <3>2. CASE j # J
        <4>1. j \in 1 .. stored /\ j \in 1 .. Lists
          BY <1>3, <1>4, <1>7, <3>2
        <4>2. /\ DataAt[j] <= Member(j).ptr /\ DataAt[j] + Bytes(Member(j)) <= dest
              /\ Overlapped(j) \/ Arrives(j)
          BY <1>1, <1>10, <4>1 DEF DataInv, PlaceInv
        <4>3. DataAt[j] \in Nat /\ Member(j).ptr \in Nat /\ Bytes(Member(j)) \in Nat
          BY <1>4, <2>2, <4>1
        <4>4. dest <= dest'
          <5> HIDE DEF s, b
          <5>1. QED
            BY <1>3, <1>7, <2>1
        <4>5. ASSUME Arrives(j), NEW x \in 0 .. Bytes(Member(j)) - 1, Member(j).ptr + x <= Top
              PROVE  mem'[DataAt[j] + x] = Data(chosen + j - 1, x)
          <5>1. DataAt[j] + x \in 0 .. Top /\ DataAt[j] + x < dest
            BY <1>3, <4>2, <4>3, <4>5, SizesAssumption
          <5>2. mem[DataAt[j] + x] = Data(chosen + j - 1, x)
            BY <4>5 DEF Arrives
          <5>3. QED
            BY <2>1, <5>1, <5>2
        <4>6. QED
          BY <1>3, <4>2, <4>3, <4>4, <4>5
      <3>3. QED
        BY <3>1, <3>2
    <2>7. PlaceInv'
      <3>1. stored' = J /\ J # 0 /\ dest' = DataAt[J] + Bytes(Member(J))
        BY <1>1, <1>7, <2>1, <2>2
      <3>2. ASSUME NEW j \in 1 .. J
            PROVE  (Overlapped(j) \/ Arrives(j))'
        <4>1. Overlapped(j)' <=> Overlapped(j)
          BY <1>5 DEF Overlapped, Overlap
        <4>2. QED
          BY <1>2, <1>5, <2>6, <4>1 DEF Arrives, Data
      <3>3. QED
        BY <1>2, <1>5, <2>5, <2>6, <3>1, <3>2 DEF PlaceInv
    <2>8. QED
      BY <1>6, <1>8, <2>4, <2>7 DEF DataInv
  <1>11. QED
    BY <1>9, <1>10
\* The store function ends: what it writes lies above all lists.
LEMMA StoreEndData ==
    ASSUME IInv, DataInv, StoreEnd
    PROVE  DataInv'
  <1>1. /\ mode = "store" /\ mode' = "done" /\ stored = Lists
        /\ dest' = dest + layout[Len(layout)]
        /\ mem' = [a \in 0 .. Top |-> IF a \in dest .. dest' - 1 THEN Fixed ELSE mem[a]]
        /\ wlen' = compost_bytes_to_words(dest' - PAYLOAD_OFFSET)
        /\ UNCHANGED <<message, alloc, slices, chosen, stored>>
    BY DEF StoreEnd
  <1>2. UNCHANGED <<layout, slices, chosen, kind, base, suffixes, ptr, ctr>>
    BY <1>1 DEF message, alloc
  <1>3. dest \in Nat /\ layout[Len(layout)] \in Nat /\ dest' \in Nat /\ dest' >= dest
    <2>1. TypeOK
      BY DEF IInv
    <2>2. layout[Len(layout)] \in Nat
      BY <2>1, LayoutType
    <2>3. dest \in Nat
      BY <2>1 DEF TypeOK
    <2>4. QED
      BY <1>1, <2>2, <2>3
  <1>4. /\ Lists \in Nat
        /\ \A j \in 1 .. Lists : /\ Member(j).ptr \in Nat
                                 /\ Bytes(Member(j)) \in Nat
                                 /\ DataAt[j] \in Nat
    BY <1>1, MemberType, DataAtSteps
  <1>5. /\ Lists' = Lists /\ DataAt' = DataAt /\ (AllSound' <=> AllSound)
        /\ \A j : Member(j)' = Member(j) /\ Bytes(Member(j))' = Bytes(Member(j))
    BY <1>2, SameMessage
  <1>6. ChainInv'
    BY <1>1, <1>2, SameChain DEF DataInv
  <1>7. HoldsInv'
    <2>1. \A j \in stored' + 1 .. Lists' : FALSE
      BY <1>1, <1>4, <1>5
    <2>2. QED
      BY <1>1, <2>1 DEF HoldsInv
  <1>8. LengthInv'
    <2>1. dest' >= PAYLOAD_OFFSET
      BY <1>3 DEF DataInv, LengthInv, PAYLOAD_OFFSET
    <2>2. (compost_bytes_to_words(dest - PAYLOAD_OFFSET))' = compost_bytes_to_words(dest' - PAYLOAD_OFFSET)
      BY DEF compost_bytes_to_words, PAYLOAD_OFFSET
    <2>3. QED
      BY <1>1, <1>5, <2>1, <2>2 DEF LengthInv, PAYLOAD_OFFSET
  <1>9. ASSUME AllSound, NEW j \in 1 .. Lists
        PROVE  /\ DataAt[j] <= Member(j).ptr
               /\ DataAt[j] + Bytes(Member(j)) <= dest'
               /\ (Overlapped(j) \/ Arrives(j))'
    <2>1. /\ DataAt[j] <= Member(j).ptr /\ DataAt[j] + Bytes(Member(j)) <= dest
          /\ Overlapped(j) \/ Arrives(j)
      BY <1>1, <1>9 DEF DataInv, PlaceInv
    <2>2. DataAt[j] \in Nat /\ Member(j).ptr \in Nat /\ Bytes(Member(j)) \in Nat
      BY <1>4
    <2>3. ASSUME Arrives(j), NEW x \in 0 .. Bytes(Member(j)) - 1, Member(j).ptr + x <= Top
          PROVE  mem'[DataAt[j] + x] = Data(chosen + j - 1, x)
      <3> DEFINE D == DataAt[j]
                 p == Member(j).ptr
                 b == Bytes(Member(j))
      <3>a. /\ D \in Nat /\ p \in Nat /\ b \in Nat /\ Top \in Nat /\ x \in 0 .. b - 1
            /\ D <= p /\ D + b <= dest /\ p + x <= Top
        BY <2>1, <2>2, <2>3, SizesAssumption
      <3> HIDE DEF D, p, b
      <3>b. D + x \in 0 .. Top /\ D + x < dest
        BY <1>3, <3>a
      <3>1. DataAt[j] + x \in 0 .. Top /\ ~ (DataAt[j] + x \in dest .. dest' - 1)
        BY <1>3, <3>b DEF D
      <3>2. mem[DataAt[j] + x] = Data(chosen + j - 1, x)
        BY <2>3 DEF Arrives
      <3>3. QED
        BY <1>1, <3>1, <3>2
    <2>4. (Overlapped(j) \/ Arrives(j))'
      <3>1. Overlapped(j)' <=> Overlapped(j)
        BY <1>5 DEF Overlapped, Overlap
      <3>2. Arrives(j) => Arrives(j)'
        BY <1>2, <1>5, <2>3 DEF Arrives, Data
      <3>3. QED
        BY <2>1, <3>1, <3>2
    <2>5. QED
      BY <1>3, <2>1, <2>2, <2>4
  <1>10. PlaceInv'
    <2>1. ~ (stored' < Lists')
      BY <1>1, <1>4, <1>5
    <2>2. stored' = Lists
      BY <1>1
    <2>3. QED
      BY <1>1, <1>5, <1>9, <2>1, <2>2 DEF PlaceInv
  <1>11. QED
    BY <1>6, <1>7, <1>8, <1>10 DEF DataInv

LEMMA NextData == IInv /\ DataInv /\ [Next]_vars => DataInv'
  <1> SUFFICES ASSUME IInv, DataInv, [Next]_vars
               PROVE  DataInv'
    OBVIOUS
  <1>1. ASSUME NEW size \in TxSizes, list_alloc_init(size)
        PROVE  DataInv'
    <2>1. Begin("list", size, ListLayout) /\ ctr' = 0 /\ base' = PAYLOAD_OFFSET + 2
      BY <1>1 DEF list_alloc_init, compost_alloc_init
    <2>2. QED
      BY <2>1, BeginData
  <1>2. ASSUME NEW size \in TxSizes, NEW l \in Layouts,
               reply_alloc_init(size, l) \/ notif_alloc_init(size, l)
        PROVE  DataInv'
    <2>1. l \in Seq(Nat) /\ Len(l) > 1 /\ l[1] \in Nat
      BY LayoutsAssumption
    <2>2. \/ Begin("reply", size, l) /\ base' = PAYLOAD_OFFSET + l[1] + 4 + l[1]
          \/ Begin("notif", size, l) /\ base' = 0 + 4 + l[1]
      BY <1>2 DEF reply_alloc_init, notif_alloc_init, struct_alloc_init, compost_alloc_init
    <2>3. suffixes' = Tail(l) /\ ctr' = 0
      BY <1>2 DEF reply_alloc_init, notif_alloc_init, struct_alloc_init, compost_alloc_init
    <2>4. base' >= PAYLOAD_OFFSET + l[1]
      BY <2>1, <2>2 DEF PAYLOAD_OFFSET
    <2>5. QED
      BY <2>1, <2>2, <2>3, <2>4, BeginData
  <1>3. ASSUME NEW len \in Lens, NEW size \in ElemSizes, slice_new(len, size)
        PROVE  DataInv'
    BY <1>3, SliceNewData
  <1>4. CASE compost_alloc_reset
    <2>1. /\ slices' = <<>> /\ mode' = "alloc" /\ mode = "alloc" /\ kind = "list"
          /\ UNCHANGED <<message, base, dest>>
      BY <1>4 DEF compost_alloc_reset
    <2>2. kind' = "list" /\ base' = PAYLOAD_OFFSET + 2
      BY <2>1 DEF message, DataInv, ChainInv
    <2>3. QED
      BY <2>1, <2>2 DEF DataInv, ChainInv, HoldsInv, PlaceInv, LengthInv, PAYLOAD_OFFSET
  <1>5. ASSUME NEW k \in DOMAIN slices, Return(k)
        PROVE  DataInv'
    <2>1. IInv'
      BY NextIInv
    <2>2. QED
      BY <1>5, <2>1, ReturnData
  <1>6. ASSUME NEW garbled \in BOOLEAN, StoreList(garbled)
        PROVE  DataInv'
    BY <1>6, StoreListData
  <1>7. CASE StoreEnd
    BY <1>7, StoreEndData
  <1>8. CASE Send
    <2>1. mode' = "idle" /\ dest' = 4
      BY <1>8 DEF Send, PAYLOAD_OFFSET
    <2>2. QED
      BY <2>1 DEF DataInv, ChainInv, HoldsInv, PlaceInv, LengthInv, PAYLOAD_OFFSET
  <1>9. CASE UNCHANGED vars
    <2>1. UNCHANGED <<mode, kind, tx, layout, base, cap, ptr, suffixes, ctr, slices, chosen, dest,
                      stored, mem, wlen>>
      BY <1>9 DEF vars, message, alloc
    <2>2. /\ Lists' = Lists /\ DataAt' = DataAt /\ (AllSound' <=> AllSound)
          /\ \A j : Member(j)' = Member(j) /\ Bytes(Member(j))' = Bytes(Member(j))
      BY <2>1, SameMessage
    <2>3. ChainInv'
      <3>1. mode = "idle" => ChainInv'
        BY <2>1 DEF ChainInv
      <3>2. QED
        BY <2>1, <3>1, SameChain DEF DataInv
    <2>4. HoldsInv'
      <3>1. \A k : Holds(k)' <=> Holds(k)
        BY <2>1 DEF Holds, Bytes, Data
      <3>2. \A k : Sound(slices[k])' <=> Sound(slices[k])
        BY <2>1 DEF Sound, Overlong, Bytes
      <3>3. QED
        BY <2>1, <2>2, <3>1, <3>2 DEF DataInv, HoldsInv
    <2>5. PlaceInv'
      <3>1. \A j : Arrives(j)' <=> Arrives(j)
        BY <2>1, <2>2 DEF Arrives, Data
      <3>2. \A j : Overlapped(j)' <=> Overlapped(j)
        BY <2>2 DEF Overlapped, Overlap
      <3>3. QED
        BY <2>1, <2>2, <3>1, <3>2 DEF DataInv, PlaceInv, PAYLOAD_OFFSET
    <2>6. LengthInv'
      BY <2>1, <2>2 DEF DataInv, LengthInv, compost_bytes_to_words, PAYLOAD_OFFSET
    <2>7. QED
      BY <2>3, <2>4, <2>5, <2>6 DEF DataInv
  <1>10. QED
    BY <1>1, <1>2, <1>3, <1>4, <1>5, <1>6, <1>7, <1>8, <1>9 DEF Next
-----------------------------------------------------------------------------
\* The second invariant holds as well: the allocator leaves the store function the
\* room it needs, and the store function never passes a slice it has not copied.
THEOREM DataInvariance == Spec => []DataInv
  BY InitData, NextData, Invariance, PTL DEF Spec

\* A message whose slices were all allocated holds what the handler put into
\* them, but for the lists that are copied between overlapping blocks, where
\* memcpy promises nothing: compost_slice_T_store reaches no slice before its
\* turn and leaves what it has stored, for every layout, element size, length and
\* size of the transmit buffer.
THEOREM DataArrives == Spec => []AllocatedDataArrives
  <1>1. ASSUME IInv, DataInv
        PROVE  AllocatedDataArrives
    <2> SUFFICES ASSUME mode = "done", AllSound, NEW j \in 1 .. Lists
                 PROVE  Overlapped(j) \/ Arrives(j)
      BY DEF AllocatedDataArrives, AllSound
    <2>1. stored = Lists
      BY <1>1 DEF DataInv, LengthInv
    <2>2. QED
      BY <1>1, <2>1 DEF DataInv, PlaceInv
  <1>2. QED
    BY <1>1, Invariance, DataInvariance, PTL

\* The length that compost_bytes_to_words puts into the header is that of the
\* payload, rounded up to words, as long as that fits in the field.
THEOREM LengthIsRoundedUp == Spec => []LengthRoundedUp
  <1>1. ASSUME IInv, DataInv
        PROVE  LengthRoundedUp
    <2> DEFINE b == dest - PAYLOAD_OFFSET
    <2> SUFFICES ASSUME mode = "done", b <= 4 * (U8 - 1)
                 PROVE  4 * wlen - b \in 0 .. 3
      BY DEF LengthRoundedUp
    <2>1. b \in Nat
      BY <1>1 DEF IInv, TypeOK, DataInv, LengthInv, PAYLOAD_OFFSET
    <2>2. wlen = compost_bytes_to_words(b)
      BY <1>1 DEF DataInv, LengthInv
    <2> HIDE DEF b
    <2>3. U8 \in Nat \ {0} /\ U16 \in Nat \ {0} /\ 4 * U8 <= U16
      BY WidthsAssumption
    <2>4. b % U16 = b
      <3>1. b \in 0 .. (U16 - 1) /\ b \in Int
        BY <2>1, <2>3
      <3>2. QED
        BY <2>3, <3>1, Remainder
    <2> DEFINE w == (b + 3) \div 4
    <2>5. w \in Nat /\ 4 * w - b \in 0 .. 3
      BY <2>1
    <2> HIDE DEF w
    <2>6. w \in 0 .. (U8 - 1) /\ w \in Int
      BY <2>1, <2>3, <2>5
    <2>7. w % U8 = w
      BY <2>3, <2>6, Remainder
    <2>8. wlen = w
      BY <2>2, <2>4, <2>7 DEF compost_bytes_to_words, w
    <2>9. QED
      BY <2>5, <2>8
  <1>2. QED
    BY <1>1, Invariance, DataInvariance, PTL
=============================================================================
