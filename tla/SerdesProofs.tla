---------------------------- MODULE SerdesProofs ----------------------------
(***************************************************************************)
(* Theorems about the layout of payloads, for payloads of any number of    *)
(* members: every writer that does not fail puts every member whole into   *)
(* the buffer, the generated C code reads what it writes as long as the    *)
(* length fits in the header, and readers and writers of all three         *)
(* languages agree if the payload fits in a message and bit members come   *)
(* in whole bytes.                                                         *)
(***************************************************************************)
EXTENDS Serdes, CommonLemmas

Kinds == [kind : {"bits", "num", "list", "open", "close"}, size : Nat]

\* What is in a buffer are bits of members of the payload p.
BufferOK(p, buf) ==
    \A b \in 0 .. Top - 1 :
        \/ buf[b] = Nothing
        \/ buf[b][1] \in DOMAIN p /\ buf[b][2] \in 0 .. p[buf[b][1]].size - 1

\* Inside the loop the position and the byte agree with what is left to do.
LoopInv ==
    bits_remaining > 0 =>
        /\ k <= Len(payload)
        /\ payload[k].kind = "bits"
        /\ bits_remaining <= payload[k].size
        /\ bit_position = offset + (payload[k].size - bits_remaining)
        /\ byte_index = bit_position \div 8

\* How far the reader has come.
GotInv ==
    /\ \E S : got \in Seq(S)
    /\ mode \in {"begin", "write", "failed"} => got = <<>>
    /\ mode = "read" => Len(got) = k - 1
    /\ mode = "done" => Len(got) = Len(payload)

\* What makes the type invariant inductive.
SizeInv == TypeOK /\ DOMAIN buffer = 0 .. Top - 1 /\ LoopInv /\ GotInv
-----------------------------------------------------------------------------
\* Rounding up to whole bytes.
LEMMA Aligned ==
    ASSUME NEW off \in Nat
    PROVE  byte_align(off) \in Nat /\ off <= byte_align(off) /\ byte_align(off) <= off + 7
  <1> DEFINE n == off + 7
             d == n \div 8
  <1>1. n \in Nat
    OBVIOUS
  <1>2. d \in Nat /\ n % 8 \in 0 .. 7 /\ n = 8 * d + (n % 8)
    BY <1>1, DivMod
  <1>3. byte_align(off) = d * 8
    BY DEF byte_align, bytes, BITS_PER_BYTE
  <1> HIDE DEF d
  <1>4. QED
    BY <1>2, <1>3

\* One iteration of the loop: r bits are left at position b.
LEMMA Iteration ==
    ASSUME NEW r \in Nat, r > 0, NEW b \in Nat
    PROVE  LET fill == 8 - (b % 8)
               place == IF r <= fill THEN r ELSE fill
           IN  /\ place \in 1 .. 8
               /\ place <= r
               /\ fill \in 1 .. 8
               /\ fill - place \in 0 .. 7
               /\ b = 8 * (b \div 8) + (8 - fill)
               /\ r - place > 0 => (b + place) \div 8 = (b \div 8) + 1
  <1> DEFINE fill == 8 - (b % 8)
             place == IF r <= fill THEN r ELSE fill
             d == b \div 8
  <1>1. d \in Nat /\ b % 8 \in 0 .. 7 /\ b = 8 * d + (b % 8)
    BY DivMod
  <1>2. fill \in 1 .. 8 /\ b = 8 * d + (8 - fill)
    BY <1>1
  <1> HIDE DEF fill, d
  <1>3. place \in 1 .. 8 /\ place <= r /\ fill - place \in 0 .. 7
    BY <1>2
  <1>4. ASSUME r - place > 0 PROVE (b + place) \div 8 = d + 1
    <2>1. place = fill
      BY <1>2, <1>4
    <2>2. b + place = 8 * (d + 1)
      BY <2>1, <1>1, <1>2
    <2>3. (8 * (d + 1)) \div 8 = d + 1
      BY <1>1
    <2>4. QED
      BY <2>2, <2>3
  <1>5. QED
    BY <1>2, <1>3, <1>4 DEF fill, d

\* The payload that is being sent.
LEMMA PayloadFacts ==
    ASSUME NEW p \in Payloads
    PROVE  /\ p \in Seq(Kinds) /\ Len(p) \in Nat /\ DOMAIN p = 1 .. Len(p)
           /\ \A i \in DOMAIN p :
                 /\ p[i].size \in Nat
                 /\ p[i].kind \in {"bits", "num", "list", "open", "close"}
                 /\ p[i].kind = "bits" => p[i].size \in 1 .. 32
                 /\ p[i].kind \in {"open", "close"} => p[i].size = 0
  <1>1. p \in Seq(Kinds)
    BY PayloadsAssumption DEF Kinds
  <1>2. Len(p) \in Nat /\ DOMAIN p = 1 .. Len(p) /\ \A i \in DOMAIN p : p[i] \in Kinds
    BY <1>1
  <1>3. \A i \in DOMAIN p : p[i].size \in Nat /\ p[i].kind \in {"bits", "num", "list", "open", "close"}
    BY <1>2 DEF Kinds
  <1>4. QED
    BY <1>1, <1>2, <1>3, PayloadsAssumption

\* Where a payload ends at the latest.
LEMMA ExtentSteps ==
    ASSUME NEW p \in Payloads
    PROVE  /\ Extent(p)[1] = 0
           /\ \A i \in 1 .. Len(p) + 1 : Extent(p)[i] \in Nat /\ Extent(p)[i] <= Top
           /\ \A i \in DOMAIN p : Extent(p)[i + 1] = Extent(p)[i] + p[i].size + 7
  <1> DEFINE N == Len(p) + 1
             inc == [j \in 1 .. N |-> IF j = 1 THEN 0 ELSE p[j - 1].size + 7]
             F(g) == [i \in 1 .. N |-> IF i = 1 THEN 0 ELSE g[i - 1] + p[i - 1].size + 7]
  <1>1. /\ Len(p) \in Nat /\ DOMAIN p = 1 .. Len(p) /\ N \in Nat /\ N >= 1
        /\ \A i \in DOMAIN p : p[i].size \in Nat
    BY PayloadFacts
  <1>2. \A j \in 1 .. N : j # 1 => j - 1 \in DOMAIN p /\ p[j - 1].size \in Nat
    BY <1>1
  <1>3. inc \in [1 .. N -> Nat] /\ \A j \in 1 .. N : j # 1 => inc[j] = p[j - 1].size + 7
    BY <1>2
  <1> HIDE DEF inc
  <1>4. \E g \in [1 .. N -> Nat] : IsRunningSum(g, N, 0, inc)
    <2> HIDE DEF N
    <2>1. 0 \in Nat
      OBVIOUS
    <2>2. QED
      BY <1>1, <1>3, <2>1, RunningSum, Zenon
  <1>5. PICK g \in [1 .. N -> Nat] : \A j \in 1 .. N : g[j] = IF j = 1 THEN 0 ELSE g[j - 1] + inc[j]
    BY <1>4, Zenon DEF IsRunningSum
  <1>6. ASSUME NEW j \in 1 .. N
        PROVE  g[j] = IF j = 1 THEN 0 ELSE g[j - 1] + p[j - 1].size + 7
    <2>1. CASE j = 1
      BY <1>5, <2>1
    <2>2. CASE j # 1
      <3>1. /\ g[j] = g[j - 1] + inc[j] /\ inc[j] = p[j - 1].size + 7
            /\ g[j - 1] \in Nat /\ p[j - 1].size \in Nat
        <4>1. j - 1 \in 1 .. N
          BY <1>1, <2>2
        <4>2. QED
          BY <1>2, <1>3, <1>5, <2>2, <4>1
      <3>2. QED
        BY <3>1, <2>2
    <2>3. QED
      BY <2>1, <2>2
  <1>7. g = F(g)
    BY <1>6
  <1>8. Extent(p) = CHOOSE e : e = F(e)
    BY DEF Extent
  <1>9. Extent(p) = F(Extent(p))
    BY <1>7, <1>8
  <1> DEFINE E == Extent(p)
  <1> HIDE DEF E
  <1>10. ASSUME NEW j \in 1 .. N
         PROVE  E[j] = IF j = 1 THEN 0 ELSE E[j - 1] + p[j - 1].size + 7
    BY <1>9 DEF E
  <1>11. \A j \in 1 .. N : E[j] <= Top
    BY PayloadsAssumption DEF E
  <1>12. \A j \in 1 .. N : E[j] \in Nat
    <2> DEFINE T == {j \in 1 .. N : E[j] \notin Nat}
    <2> SUFFICES ASSUME T # {} PROVE FALSE
      OBVIOUS
    <2>1. T \subseteq Nat
      OBVIOUS
    <2>2. PICK n \in T : \A m \in T : n <= m
      BY <2>1, Smallest
    <2>3. CASE n = 1
      BY <1>10, <2>2, <2>3
    <2>4. CASE n # 1
      <3>1. n \in 1 .. N /\ n - 1 \in 1 .. N /\ n - 1 \notin T
        BY <1>1, <2>2, <2>4
      <3>2. E[n - 1] \in Nat /\ p[n - 1].size \in Nat
        BY <3>1, <1>2, <2>4
      <3>3. E[n] = E[n - 1] + p[n - 1].size + 7
        BY <3>1, <1>10, <2>4
      <3>4. QED
        BY <3>2, <3>3, <2>2
    <2>5. QED
      BY <2>3, <2>4
  <1>13. ASSUME NEW i \in DOMAIN p PROVE E[i + 1] = E[i] + p[i].size + 7
    <2>1. i + 1 \in 1 .. N /\ i + 1 # 1 /\ (i + 1) - 1 = i
      BY <1>1
    <2>2. QED
      BY <2>1, <1>10
  <1>14. E[1] = 0
    BY <1>1, <1>10
  <1>15. QED
    BY <1>11, <1>12, <1>13, <1>14 DEF E
-----------------------------------------------------------------------------
\* The invariant, taken apart.
LEMMA State ==
    ASSUME SizeInv
    PROVE  /\ payload \in Payloads /\ payload \in Seq(Kinds)
           /\ Len(payload) \in Nat /\ DOMAIN payload = 1 .. Len(payload)
           /\ k \in 1 .. Len(payload) + 1 /\ offset \in Nat
           /\ bits_remaining \in 0 .. 32 /\ byte_index \in Nat /\ bit_position \in Nat
           /\ BufferOK(payload, buffer) /\ DOMAIN buffer = 0 .. Top - 1 /\ Top \in Nat
           /\ end \in Nat
           /\ byte_align(offset) \in Nat /\ offset <= byte_align(offset)
           /\ byte_align(offset) <= offset + 7
           /\ k <= Len(payload) =>
                 /\ k \in DOMAIN payload /\ Member = payload[k] /\ Member.size \in Nat
                 /\ Member.kind \in {"bits", "num", "list", "open", "close"}
                 /\ Member.kind = "bits" => Member.size \in 1 .. 32
                 /\ Member.kind \in {"open", "close"} => Member.size = 0
  <1>1. /\ payload \in Payloads /\ k \in 1 .. Len(payload) + 1 /\ offset \in Nat /\ end \in Nat
        /\ bits_remaining \in 0 .. 32 /\ byte_index \in Nat /\ bit_position \in Nat
        /\ BufferOK(payload, buffer) /\ DOMAIN buffer = 0 .. Top - 1
    BY DEF SizeInv, TypeOK, BufferOK
  <1>2. /\ payload \in Seq(Kinds) /\ Len(payload) \in Nat /\ DOMAIN payload = 1 .. Len(payload)
        /\ \A i \in DOMAIN payload :
                 /\ payload[i].size \in Nat
                 /\ payload[i].kind \in {"bits", "num", "list", "open", "close"}
                 /\ payload[i].kind = "bits" => payload[i].size \in 1 .. 32
                 /\ payload[i].kind \in {"open", "close"} => payload[i].size = 0
    BY <1>1, PayloadFacts
  <1>3. k <= Len(payload) => k \in DOMAIN payload
    BY <1>1, <1>2
  <1>4. Top \in Nat
    BY PayloadsAssumption
  <1>5. QED
    BY <1>1, <1>2, <1>3, <1>4, Aligned DEF Member

\* Bits of one member are written.
LEMMA BufferUpdate ==
    ASSUME NEW p, NEW buf, NEW new, BufferOK(p, buf), NEW i \in DOMAIN p,
           \A b \in 0 .. Top - 1 : new[b] = buf[b] \/ \E j \in 0 .. p[i].size - 1 : new[b] = <<i, j>>
    PROVE  BufferOK(p, new)
  BY DEF BufferOK

\* What is left of the type invariant when the buffer is taken care of.
LEMMA TypeFrom ==
    ASSUME SizeInv, choice' = choice,
           mode' \in {"begin", "write", "read", "done", "failed"},
           k' \in 1 .. Len(payload) + 1, offset' \in Nat, end' \in Nat,
           BufferOK(payload, buffer'), DOMAIN buffer' = 0 .. Top - 1,
           bits_remaining' \in 0 .. 32, byte_index' \in Nat, bit_position' \in Nat,
           Len(got') <= Len(payload), LoopInv', GotInv'
    PROVE  SizeInv'
  <1>1. bits_remaining' > 0 => bits_to_place' \in 1 .. 8 /\ shift' \in 0 .. 7
    <2> SUFFICES ASSUME bits_remaining' > 0
                 PROVE  bits_to_place' \in 1 .. 8 /\ shift' \in 0 .. 7
      OBVIOUS
    <2> DEFINE fill == 8 - (bit_position' % 8)
               place == IF bits_remaining' <= fill THEN bits_remaining' ELSE fill
    <2>1. place \in 1 .. 8 /\ fill - place \in 0 .. 7
      <3>1. bits_remaining' \in Nat
        OBVIOUS
      <3>2. QED
        BY <3>1, Iteration
    <2>2. bits_to_fill' = fill
      BY DEF bits_to_fill, BITS_PER_BYTE
    <2> HIDE DEF fill
    <2>3. bits_to_place' = place
      BY <2>2 DEF bits_to_place
    <2>4. QED
      BY <2>1, <2>2, <2>3 DEF shift
  <1>2. /\ writer' \in Writers /\ reader' \in Readers /\ payload' = payload /\ payload \in Payloads
        /\ high' \in BOOLEAN
    BY DEF SizeInv, TypeOK, choice
  <1>3. QED
    BY <1>1, <1>2 DEF SizeInv, TypeOK, BufferOK

\* What an iteration does to the position.
LEMMA IterationFacts ==
    ASSUME SizeInv, bits_remaining > 0
    PROVE  /\ k <= Len(payload) /\ Member.kind = "bits" /\ bits_remaining <= Member.size
           /\ bit_position = offset + (Member.size - bits_remaining)
           /\ bits_to_place \in 1 .. 8 /\ bits_to_place <= bits_remaining
           /\ Moved = (bits_remaining - bits_to_place) .. (bits_remaining - 1)
           /\ \A j \in Moved : j \in 0 .. Member.size - 1 /\ Place(j) = offset + Member.size - 1 - j
           /\ bits_remaining - bits_to_place > 0 =>
                  (bit_position + bits_to_place) \div 8 = byte_index + 1
  <1> DEFINE fill == 8 - (bit_position % 8)
             place == IF bits_remaining <= fill THEN bits_remaining ELSE fill
  <1>1. /\ k <= Len(payload) /\ Member.kind = "bits" /\ bits_remaining <= Member.size
        /\ bit_position = offset + (Member.size - bits_remaining)
        /\ byte_index = bit_position \div 8
    BY DEF SizeInv, LoopInv, Member
  <1>2. /\ bits_remaining \in Nat /\ bit_position \in Nat /\ byte_index \in Nat
        /\ offset \in Nat /\ Member.size \in Nat
    <2>1. bits_remaining \in 0 .. 32
      BY State
    <2>2. bits_remaining \in Nat
      BY <2>1
    <2>3. QED
      BY <1>1, <2>2, State
  <1>3. /\ place \in 1 .. 8 /\ place <= bits_remaining /\ fill \in 1 .. 8
        /\ bit_position = 8 * byte_index + (8 - fill)
        /\ bits_remaining - place > 0 => (bit_position + place) \div 8 = byte_index + 1
    BY <1>1, <1>2, Iteration
  <1>4. bits_to_fill = fill
    BY DEF bits_to_fill, BITS_PER_BYTE
  <1> HIDE DEF fill
  <1>5. bits_to_place = place
    BY <1>4 DEF bits_to_place
  <1> HIDE DEF place
  <1>6. Moved = (bits_remaining - place) .. (bits_remaining - 1)
    BY <1>5 DEF Moved
  <1>7. ASSUME NEW j \in Moved
        PROVE  j \in 0 .. Member.size - 1 /\ Place(j) = offset + Member.size - 1 - j
    <2>1. j \in Int /\ j >= bits_remaining - place /\ j <= bits_remaining - 1
      BY <1>2, <1>3, <1>6
    <2>2. Place(j) = 8 * byte_index + 8 - 1 - ((fill - place) + j - (bits_remaining - place))
      BY <1>4, <1>5 DEF Place, shift, BITS_PER_BYTE
    <2> DEFINE sz == Member.size
    <2>3. sz \in Nat /\ bit_position = offset + (sz - bits_remaining) /\ bits_remaining <= sz
      BY <1>1, <1>2
    <2> HIDE DEF sz
    <2>4. j \in 0 .. sz - 1
      BY <2>1, <2>3, <1>2, <1>3
    <2>5. Place(j) = offset + sz - 1 - j
      BY <2>1, <2>2, <2>3, <1>2, <1>3
    <2>6. QED
      BY <2>4, <2>5 DEF sz
  <1>8. QED
    BY <1>1, <1>3, <1>5, <1>6, <1>7

\* The bits that an iteration of the writer puts into the buffer.
LEMMA PackedBits ==
    ASSUME SizeInv, bits_remaining > 0,
           buffer' = [b \in 0 .. Top - 1 |->
                        IF \E j \in Moved : Place(j) = b
                        THEN <<k, CHOOSE j \in Moved : Place(j) = b>> ELSE buffer[b]]
    PROVE  /\ DOMAIN buffer' = 0 .. Top - 1
           /\ \A b \in 0 .. Top - 1 : \A j \in Moved :
                  b = offset + Member.size - 1 - j => buffer'[b] = <<k, j>>
           /\ \A b \in 0 .. Top - 1 :
                  \/ buffer'[b] = buffer[b]
                  \/ \E j \in Moved : b = offset + Member.size - 1 - j /\ buffer'[b] = <<k, j>>
  <1> DEFINE sz == Member.size
  <1>1. \A j \in Moved : j \in 0 .. sz - 1 /\ Place(j) = offset + sz - 1 - j
    BY IterationFacts
  <1>2. offset \in Nat /\ sz \in Nat
    BY IterationFacts, State
  <1> HIDE DEF sz
  <1>3. \A j \in Moved : j \in Int
    BY <1>1, <1>2
  <1>4. ASSUME NEW b \in 0 .. Top - 1, NEW j \in Moved, b = offset + sz - 1 - j
        PROVE  buffer'[b] = <<k, j>>
    <2> DEFINE c == CHOOSE i \in Moved : Place(i) = b
    <2>1. Place(j) = b
      BY <1>1, <1>4
    <2>2. c \in Moved /\ Place(c) = b
      BY <2>1
    <2>3. buffer'[b] = <<k, c>>
      BY <2>1
    <2> HIDE DEF c
    <2>4. c = j
      BY <2>2, <1>1, <1>2, <1>3, <1>4
    <2>5. QED
      BY <2>3, <2>4
  <1>5. ASSUME NEW b \in 0 .. Top - 1, ~ \E j \in Moved : b = offset + sz - 1 - j
        PROVE  buffer'[b] = buffer[b]
    BY <1>1, <1>5
  <1>6. DOMAIN buffer' = 0 .. Top - 1
    OBVIOUS
  <1>7. QED
    BY <1>4, <1>5, <1>6 DEF sz

\* A failing step leaves everything else as it is.
LEMMA FailStep ==
    ASSUME SizeInv, mode \in {"begin", "write"}, Fail
    PROVE  SizeInv'
  <1>1. mode' = "failed" /\ UNCHANGED <<choice, k, offset, buffer, end, loop, val, got>>
    BY DEF Fail
  <1>2. payload' = payload
    BY <1>1 DEF choice
  <1>3. LoopInv'
    BY <1>1, <1>2 DEF SizeInv, LoopInv, loop
  <1>4. GotInv' /\ Len(got') <= Len(payload)
    BY <1>1, <1>2 DEF SizeInv, TypeOK, GotInv
  <1>5. QED
    BY <1>1, <1>3, <1>4, State, TypeFrom DEF loop

\* A step of the writer to the next member.
LEMMA WriterSteps ==
    ASSUME SizeInv, mode = "write", mode' = "write", choice' = choice, got' = got, end' = end,
           k <= Len(payload), k' = k + 1, offset' \in Nat,
           bits_remaining' = 0, byte_index' \in Nat, bit_position' \in Nat,
           BufferOK(payload, buffer'), DOMAIN buffer' = 0 .. Top - 1
    PROVE  SizeInv'
  <1>1. k' \in 1 .. Len(payload) + 1
    <2>1. k \in 1 .. Len(payload) + 1 /\ Len(payload) \in Nat
      BY State
    <2>2. QED
      BY <2>1
  <1>2. LoopInv'
    BY DEF LoopInv
  <1>3. GotInv' /\ Len(got') <= Len(payload)
    BY DEF SizeInv, TypeOK, GotInv
  <1>4. QED
    BY <1>1, <1>2, <1>3, State, TypeFrom

\* A step of the reader to the next member.
LEMMA ReaderSteps ==
    ASSUME SizeInv, mode = "read", mode' = "read", choice' = choice, buffer' = buffer, end' = end,
           NEW e, got' = Append(got, e),
           k <= Len(payload), k' = k + 1, offset' \in Nat,
           bits_remaining' = 0, byte_index' \in Nat, bit_position' \in Nat
    PROVE  SizeInv'
  <1>1. k' \in 1 .. Len(payload) + 1 /\ k \in Nat /\ Len(payload) \in Nat
    <2>1. k \in 1 .. Len(payload) + 1 /\ Len(payload) \in Nat
      BY State
    <2>2. QED
      BY <2>1
  <1>2. LoopInv'
    BY DEF LoopInv
  <1>3. PICK S : got \in Seq(S)
    BY DEF SizeInv, GotInv
  <1>4. Len(got) = k - 1
    BY DEF SizeInv, GotInv
  <1> DEFINE U == S \cup {e}
  <1>5. got \in Seq(U) /\ e \in U
    BY <1>3
  <1> HIDE DEF U
  <1>6. got' \in Seq(U) /\ Len(got') = Len(got) + 1
    BY <1>5
  <1>7. GotInv' /\ Len(got') <= Len(payload)
    <2>1. Len(got') = k /\ k' - 1 = k
      BY <1>1, <1>4, <1>6
    <2>2. GotInv'
      BY <1>6, <2>1 DEF GotInv
    <2>3. QED
      BY <2>1, <2>2
  <1>8. QED
    BY <1>1, <1>2, <1>7, State, TypeFrom

\* At first the buffer is empty.
LEMMA InitSize == Init => SizeInv
  <1> SUFFICES ASSUME Init PROVE SizeInv
    OBVIOUS
  <1>1. Len(payload) \in Nat /\ Top \in Nat
    BY PayloadFacts, PayloadsAssumption DEF Init
  <1>2. TypeOK
    BY <1>1 DEF Init, TypeOK
  <1>3. LoopInv
    BY DEF Init, LoopInv
  <1>4. GotInv
    <2>1. got \in Seq({})
      BY DEF Init
    <2>2. QED
      BY <2>1 DEF Init, GotInv
  <1>5. QED
    BY <1>2, <1>3, <1>4 DEF Init, SizeInv

\* The offset after a member of whole bytes.
LEMMA WholeOffset ==
    ASSUME SizeInv, k <= Len(payload)
    PROVE  AfterWhole(offset, Member) \in Nat
  <1>1. offset \in Nat /\ byte_align(offset) \in Nat /\ Member.size \in Nat
    BY State
  <1>2. QED
    BY <1>1 DEF AfterWhole

\* The bits that a number or a list puts into the buffer.
LEMMA StoredBits ==
    ASSUME SizeInv, k <= Len(payload), NEW at \in Nat, buffer' = Stored(at, Member)
    PROVE  /\ DOMAIN buffer' = 0 .. Top - 1
           /\ \A b \in 0 .. Top - 1 :
                  buffer'[b] = IF b \in at .. at + Member.size - 1
                               THEN <<k, at + Member.size - 1 - b>> ELSE buffer[b]
           /\ BufferOK(payload, buffer')
  <1> DEFINE sz == Member.size
  <1>1. sz \in Nat /\ sz = payload[k].size /\ k \in DOMAIN payload /\ BufferOK(payload, buffer)
    BY State
  <1>2. /\ DOMAIN buffer' = 0 .. Top - 1
        /\ \A b \in 0 .. Top - 1 :
               buffer'[b] = IF b \in at .. at + sz - 1 THEN <<k, at + sz - 1 - b>> ELSE buffer[b]
    BY DEF Stored
  <1> HIDE DEF sz
  <1>3. \A b \in at .. at + sz - 1 : at + sz - 1 - b \in 0 .. sz - 1
    BY <1>1
  <1>4. \A b \in 0 .. Top - 1 :
            buffer'[b] = buffer[b] \/ \E j \in 0 .. sz - 1 : buffer'[b] = <<k, j>>
    BY <1>2, <1>3
  <1>5. BufferOK(payload, buffer')
    BY <1>1, <1>4, BufferUpdate
  <1>6. QED
    BY <1>2, <1>5 DEF sz

\* Every step preserves SizeInv.
LEMMA SizeStep == SizeInv /\ [Next]_vars => SizeInv'
  <1> SUFFICES ASSUME SizeInv, [Next]_vars PROVE SizeInv'
    OBVIOUS
  <1>0. /\ bits_remaining \in 0 .. 32 /\ byte_index \in Nat /\ bit_position \in Nat
        /\ offset \in Nat /\ byte_align(offset) \in Nat /\ end \in Nat
        /\ k \in 1 .. Len(payload) + 1 /\ Len(payload) \in Nat
        /\ BufferOK(payload, buffer) /\ DOMAIN buffer = 0 .. Top - 1
    BY State
  <1>r. ASSUME k <= Len(payload), Member.kind # "bits" PROVE bits_remaining = 0
    <2>1. ~ (bits_remaining > 0)
      BY <1>r DEF SizeInv, LoopInv, Member
    <2>2. QED
      BY <2>1, <1>0
  <1>1. CASE Boundary
    <2> DEFINE off == IF Aligns(Member) THEN byte_align(offset) ELSE offset
    <2>1. /\ mode \in {"write", "read"} /\ mode' = mode /\ k <= Len(payload)
          /\ Member.kind # "bits" /\ offset' = off /\ k' = k + 1
          /\ got' = IF mode = "read" THEN Append(got, Expected(k)) ELSE got
          /\ UNCHANGED <<choice, buffer, end, loop>>
      BY <1>1 DEF Boundary, Advance
    <2>2. off \in Nat
      BY <1>0
    <2>3. bits_remaining' = 0 /\ byte_index' \in Nat /\ bit_position' \in Nat
      BY <2>1, <1>0, <1>r DEF loop
    <2>4. CASE mode = "write"
      BY <2>1, <2>2, <2>3, <2>4, <1>0, WriterSteps
    <2>5. CASE mode = "read"
      BY <2>1, <2>2, <2>3, <2>5, <1>0, ReaderSteps
    <2>6. QED
      BY <2>1, <2>4, <2>5
  <1>2. CASE WriteWhole
    <2> DEFINE at == byte_align(offset)
    <2>1. /\ mode = "write" /\ k <= Len(payload) /\ Member.kind \in {"num", "list"}
          /\ \/ Fail
             \/ /\ buffer' = Stored(at, Member) /\ offset' = AfterWhole(offset, Member) /\ k' = k + 1
                /\ UNCHANGED <<choice, mode, end, loop, val, got>>
      BY <1>2 DEF WriteWhole, Advance
    <2>2. CASE Fail
      BY <2>1, <2>2, FailStep
    <2>3. CASE /\ buffer' = Stored(at, Member) /\ offset' = AfterWhole(offset, Member) /\ k' = k + 1
               /\ UNCHANGED <<choice, mode, end, loop, val, got>>
      <3>1. bits_remaining' = 0 /\ byte_index' \in Nat /\ bit_position' \in Nat
        BY <2>1, <2>3, <1>0, <1>r DEF loop
      <3>2. DOMAIN buffer' = 0 .. Top - 1 /\ BufferOK(payload, buffer')
        BY <2>1, <2>3, <1>0, StoredBits
      <3>3. offset' \in Nat
        BY <2>1, <2>3, WholeOffset
      <3>4. QED
        BY <2>1, <2>3, <3>1, <3>2, <3>3, WriterSteps
    <2>4. QED
      BY <2>1, <2>2, <2>3
  <1>3. CASE ReadWhole
    <2> DEFINE e == Loaded(byte_align(offset), Member)
    <2>1. /\ mode = "read" /\ k <= Len(payload) /\ Member.kind # "bits"
          /\ got' = Append(got, e) /\ offset' = AfterWhole(offset, Member) /\ k' = k + 1
          /\ UNCHANGED <<choice, mode, buffer, end, loop, val>>
      BY <1>3 DEF ReadWhole, Advance
    <2> HIDE DEF e
    <2>2. bits_remaining' = 0 /\ byte_index' \in Nat /\ bit_position' \in Nat
      BY <2>1, <1>0, <1>r DEF loop
    <2>3. offset' \in Nat
      BY <2>1, WholeOffset
    <2>4. QED
      BY <2>1, <2>2, <2>3, ReaderSteps
  <1>4. CASE BeginBits
    <2>1. CASE Fail
      <3>1. mode = "write"
        BY <1>4, <2>1 DEF BeginBits, IntegerToBitsThrows, Fail
      <3>2. QED
        BY <2>1, <3>1, FailStep
    <2>2. CASE ~ IntegerToBitsThrows
      <3>1. /\ k <= Len(payload) /\ Member.kind = "bits" /\ bits_remaining' = Member.size
            /\ byte_index' = offset \div 8 /\ bit_position' = offset
            /\ UNCHANGED <<choice, mode, k, offset, buffer, end, got>>
            /\ mode \in {"write", "read"}
        BY <1>4, <2>2 DEF BeginBits, BITS_PER_BYTE
      <3>2. Member.size \in 1 .. 32
        BY <3>1, State
      <3>3. offset \div 8 \in Nat
        BY <1>0, DivMod
      <3>4. payload' = payload
        BY <3>1 DEF choice
      <3>5. bits_remaining' = payload'[k'].size /\ bits_remaining' \in 1 .. 32
        BY <3>1, <3>2, <3>4 DEF Member
      <3>6. LoopInv'
        <4>0. \A x \in Nat, y \in 1 .. 32 : x = x + (y - y)
          OBVIOUS
        <4>1. bit_position' = offset' + (payload'[k'].size - bits_remaining')
          BY <3>1, <3>5, <1>0, <4>0
        <4>2. k' <= Len(payload') /\ payload'[k'].kind = "bits" /\ byte_index' = bit_position' \div 8
          BY <3>1, <3>4 DEF Member
        <4>3. bits_remaining' <= payload'[k'].size
          BY <3>5
        <4>4. QED
          BY <4>1, <4>2, <4>3 DEF LoopInv
      <3>7. GotInv' /\ Len(got') <= Len(payload)
        BY <3>1, <3>4 DEF SizeInv, TypeOK, GotInv
      <3>8. QED
        BY <3>1, <3>2, <3>3, <3>6, <3>7, <1>0, TypeFrom
    <2>3. QED
      BY <1>4, <2>1, <2>2 DEF BeginBits
  <1>5. ASSUME bits_remaining > 0, NextIteration, UNCHANGED <<choice, mode, end>>,
               mode \in {"write", "read"},
               BufferOK(payload, buffer'), DOMAIN buffer' = 0 .. Top - 1,
               IF bits_remaining' = 0
               THEN /\ Advance(offset + Member.size)
                    /\ \/ mode = "write" /\ got' = got
                       \/ mode = "read" /\ buffer' = buffer /\ \E e : got' = Append(got, e)
               ELSE UNCHANGED <<k, offset, got>>
        PROVE  SizeInv'
    <2> DEFINE sz == Member.size
    <2>1. /\ k <= Len(payload) /\ Member.kind = "bits" /\ bits_remaining <= sz
          /\ bit_position = offset + (sz - bits_remaining)
          /\ bits_to_place \in 1 .. 8 /\ bits_to_place <= bits_remaining
          /\ bits_remaining - bits_to_place > 0 =>
                  (bit_position + bits_to_place) \div 8 = byte_index + 1
      BY <1>5, IterationFacts
    <2>2. /\ bit_position' = bit_position + bits_to_place /\ byte_index' = byte_index + 1
          /\ bits_remaining' = bits_remaining - bits_to_place
      BY <1>5 DEF NextIteration
    <2>3. sz \in Nat /\ sz = payload[k].size
      BY <2>1, State
    <2>4. payload' = payload
      BY <1>5 DEF choice
    <2> HIDE DEF sz
    <2>5. bits_remaining' \in 0 .. 32 /\ byte_index' \in Nat /\ bit_position' \in Nat
      <3>1. /\ bits_remaining \in 0 .. 32 /\ bits_to_place \in 1 .. 8
            /\ bits_to_place <= bits_remaining
            /\ byte_index \in Nat /\ bit_position \in Nat
        BY <2>1, <1>0
      <3>2. /\ bits_remaining - bits_to_place \in 0 .. 32
            /\ byte_index + 1 \in Nat /\ bit_position + bits_to_place \in Nat
        BY <3>1
      <3>3. QED
        BY <2>2, <3>2
    <2>6. CASE bits_remaining' = 0
      <3>1. offset' = offset + sz /\ k' = k + 1 /\ offset' \in Nat
        BY <1>0, <1>5, <2>3, <2>6 DEF Advance, sz
      <3>2. CASE mode = "write" /\ got' = got
        BY <1>5, <2>1, <2>5, <2>6, <3>1, <3>2, WriterSteps
      <3>3. ASSUME mode = "read", buffer' = buffer, NEW e, got' = Append(got, e)
            PROVE  SizeInv'
        BY <1>5, <2>1, <2>5, <2>6, <3>1, <3>3, ReaderSteps
      <3>4. QED
        BY <1>5, <2>6, <3>2, <3>3
    <2>7. CASE bits_remaining' # 0
      <3>1. UNCHANGED <<k, offset, got>>
        BY <1>5, <2>7
      <3>a. /\ bits_remaining \in Nat /\ bits_to_place \in Nat /\ offset \in Nat /\ sz \in Nat
            /\ bits_remaining <= sz /\ bit_position = offset + (sz - bits_remaining)
            /\ bits_remaining' \in Nat
        <4>1. bits_remaining \in Nat /\ bits_remaining' \in Nat
          BY <1>0, <2>5
        <4>2. bits_to_place \in Nat
          BY <2>1
        <4>3. QED
          BY <2>1, <2>3, <4>1, <4>2, <1>0
      <3>2. bit_position' = offset' + (sz - bits_remaining')
        BY <2>2, <3>1, <3>a
      <3>3. byte_index' = bit_position' \div 8 /\ bits_remaining' <= sz
        <4>1. bits_remaining' <= sz
          BY <2>2, <3>a
        <4>2. bits_remaining - bits_to_place > 0
          BY <2>2, <2>7, <3>a
        <4>3. QED
          BY <2>1, <2>2, <4>1, <4>2
      <3>4. LoopInv'
        <4>1. payload'[k'] = Member /\ payload'[k'].size = sz /\ k' <= Len(payload')
          BY <2>1, <2>4, <3>1 DEF Member, sz
        <4>2. QED
          BY <4>1, <3>2, <3>3, <2>1 DEF LoopInv
      <3>5. GotInv' /\ Len(got') <= Len(payload)
        BY <1>5, <2>4, <3>1 DEF SizeInv, TypeOK, GotInv
      <3>6. QED
        BY <1>0, <1>5, <2>5, <3>1, <3>4, <3>5, TypeFrom
    <2>8. QED
      BY <2>6, <2>7
  <1>6. CASE Pack
    <2>1. CASE Fail
      BY <1>6, <2>1, FailStep DEF Pack
    <2>2. CASE /\ buffer' = [b \in 0 .. Top - 1 |->
                           IF \E j \in Moved : Place(j) = b
                           THEN <<k, CHOOSE j \in Moved : Place(j) = b>> ELSE buffer[b]]
               /\ NextIteration
               /\ IF bits_remaining' = 0
                  THEN Advance(offset + Member.size)
                  ELSE UNCHANGED <<k, offset>>
               /\ UNCHANGED <<choice, mode, end, val, got>>
      <3>1. mode = "write" /\ bits_remaining > 0
        BY <1>6 DEF Pack
      <3>2. /\ DOMAIN buffer' = 0 .. Top - 1
            /\ \A b \in 0 .. Top - 1 :
                  \/ buffer'[b] = buffer[b]
                  \/ \E j \in Moved : buffer'[b] = <<k, j>>
        BY <2>2, <3>1, PackedBits
      <3>3. /\ k \in DOMAIN payload /\ Member = payload[k]
            /\ \A j \in Moved : j \in 0 .. payload[k].size - 1
        BY <3>1, IterationFacts, State
      <3>4. BufferOK(payload, buffer')
        <4>1. \A b \in 0 .. Top - 1 :
                  buffer'[b] = buffer[b] \/ \E j \in 0 .. payload[k].size - 1 : buffer'[b] = <<k, j>>
          BY <3>2, <3>3
        <4>2. k \in DOMAIN payload /\ BufferOK(payload, buffer)
          BY <3>3, <1>0
        <4>3. QED
          BY <4>1, <4>2, BufferUpdate
      <3>5. QED
        BY <2>2, <3>1, <3>2, <3>4, <1>5
    <2>3. QED
      BY <1>6, <2>1, <2>2 DEF Pack
  <1>7. CASE Unpack
    <2>1. mode = "read" /\ bits_remaining > 0 /\ NextIteration /\ UNCHANGED <<choice, mode, buffer, end>>
      BY <1>7 DEF Unpack
    <2>2. IF bits_remaining' = 0
          THEN Advance(offset + Member.size) /\ \E e : got' = Append(got, e)
          ELSE UNCHANGED <<k, offset, got>>
      BY <1>7 DEF Unpack
    <2>3. QED
      BY <2>1, <2>2, <1>0, <1>5
  <1>8. ASSUME k > Len(payload) PROVE bits_remaining = 0
    <2>1. ~ (bits_remaining > 0)
      BY <1>8, <1>0 DEF SizeInv, LoopInv
    <2>2. QED
      BY <2>1, <1>0
  <1>9. CASE Transfer
    <2>0. CASE Fail
      BY <1>9, <2>0, FailStep DEF Transfer
    <2> SUFFICES ASSUME ~ Fail PROVE SizeInv'
      BY <2>0
    <2>1. /\ mode = "write" /\ k > Len(payload) /\ mode' = "read" /\ k' = 1 /\ offset' = 0
          /\ end' = offset /\ UNCHANGED <<choice, buffer, loop, got>>
      BY <1>9 DEF Transfer
    <2>2. LoopInv'
      BY <2>1, <1>8 DEF LoopInv, loop
    <2>3. got = <<>> /\ GotInv' /\ Len(got') <= Len(payload)
      BY <2>1 DEF SizeInv, TypeOK, GotInv
    <2>4. k' \in 1 .. Len(payload) + 1
      BY <2>1, <1>0
    <2>5. QED
      BY <2>1, <2>2, <2>3, <2>4, <1>0, TypeFrom DEF loop
  <1>10. CASE Finish
    <2>1. /\ mode = "read" /\ k > Len(payload) /\ mode' = "done"
          /\ UNCHANGED <<choice, k, offset, buffer, end, loop, got>>
      BY <1>10 DEF Finish
    <2>2. LoopInv'
      BY <2>1, <1>8 DEF LoopInv, loop
    <2>3. Len(got) = k - 1 /\ k = Len(payload) + 1
      BY <2>1, <1>0 DEF SizeInv, GotInv
    <2>4. Len(got) = Len(payload)
      BY <2>3, <1>0
    <2>5. GotInv' /\ Len(got') <= Len(payload)
      BY <2>1, <2>4 DEF SizeInv, TypeOK, GotInv, choice
    <2>6. QED
      BY <2>1, <2>2, <2>5, <1>0, TypeFrom DEF loop
  <1>11. CASE UNCHANGED vars
    <2>1. UNCHANGED <<choice, mode, k, offset, buffer, end, bits_remaining, byte_index, bit_position, got>>
      BY <1>11 DEF vars, loop
    <2>2. payload' = payload
      BY <2>1 DEF choice
    <2>3. LoopInv' /\ GotInv' /\ Len(got') <= Len(payload) /\ mode' \in {"begin", "write", "read", "done", "failed"}
      BY <2>1, <2>2 DEF SizeInv, TypeOK, LoopInv, GotInv
    <2>4. QED
      BY <2>1, <2>3, <1>0, TypeFrom
  <1>12. CASE InitBuffer
    <2>0. CASE Fail
      BY <1>12, <2>0, FailStep DEF InitBuffer
    <2> SUFFICES ASSUME ~ Fail PROVE SizeInv'
      BY <2>0
    <2>1. /\ mode = "begin" /\ mode' = "write"
          /\ UNCHANGED <<choice, k, offset, buffer, end, loop, got>>
      BY <1>12 DEF InitBuffer
    <2>2. payload' = payload /\ UNCHANGED <<bits_remaining, byte_index, bit_position>>
      BY <2>1 DEF choice, loop
    <2>3. LoopInv' /\ GotInv' /\ Len(got') <= Len(payload)
      BY <2>1, <2>2 DEF SizeInv, TypeOK, LoopInv, GotInv
    <2>4. QED
      BY <2>1, <2>2, <2>3, <1>0, TypeFrom
  <1>13. QED
    BY <1>1, <1>2, <1>3, <1>4, <1>6, <1>7, <1>9, <1>10, <1>11, <1>12 DEF Next

\* Type correctness: for every payload the loop moves at most the bits of a
\* byte and never more than are left of the value.
THEOREM TypeCorrect == Spec => []TypeOK
  <1>1. SizeInv => TypeOK
    BY DEF SizeInv
  <1>2. QED
    BY <1>1, InitSize, SizeStep, PTL DEF Spec
-----------------------------------------------------------------------------
(* Where the members are if bit members come in whole bytes.                *)

\* How many bits the members up to i have, and the bit members next to each
\* other that end with i.
Sizes(p) == [h \in DOMAIN p |-> p[h].size]
Total(p, i) == SumFunctionOnSet(Sizes(p), 1 .. i)
RunOf(p, i) == {h \in 1 .. i : \A g \in h .. i : p[g].kind = "bits"}
Run(p, i) == SumFunctionOnSet(Sizes(p), RunOf(p, i))

SettledIn(p) ==
    \A i, l \in DOMAIN p :
        i + 1 < l /\ p[i].kind = "bits" /\ p[i + 1].kind # "bits" /\ p[l].kind = "bits"
            => Run(p, i) % 8 = 0

\* Whoever comes to member i at offset o is where the members before it end, up
\* to alignment; as long as there are bit members to come, exactly there, and
\* whole bytes before the bit members that end there.
BitsFrom(p, i) == \E l \in DOMAIN p : i <= l /\ p[l].kind = "bits"
OnTrack(p, i, o) ==
    /\ byte_align(o) = byte_align(Total(p, i - 1))
    /\ BitsFrom(p, i) =>
          /\ o = Total(p, i - 1)
          /\ \E q \in Nat : Total(p, i - 1) = Run(p, i - 1) + 8 * q

TrackInv == Settled /\ mode \in {"begin", "write", "read"} => OnTrack(payload, k, offset)
-----------------------------------------------------------------------------
\* The next multiple of eight is the aligned offset, and there is one.
LEMMA AlignedIs ==
    ASSUME NEW off \in Nat, NEW q \in Nat, off <= 8 * q, 8 * q <= off + 7
    PROVE  byte_align(off) = 8 * q
  <1> DEFINE n == off + 7
             d == n \div 8
             r == n % 8
  <1>1. n \in Nat
    OBVIOUS
  <1>2. d \in Int /\ r \in 0 .. 7 /\ n = 8 * d + r
    BY <1>1, DivMod
  <1>3. byte_align(off) = d * 8
    BY DEF byte_align, bytes, BITS_PER_BYTE
  <1> HIDE DEF d, r
  <1>4. PICK s \in 0 .. 7 : n = 8 * q + s
    <2>1. n - 8 * q \in 0 .. 7 /\ n = 8 * q + (n - 8 * q)
      OBVIOUS
    <2>2. QED
      BY <2>1
  <1> HIDE DEF n
  <1>5. r = s
    <2>1. 8 \in Nat \ {0} /\ 8 - 1 = 7 /\ 8 * d + r = 8 * q + s
      BY <1>2, <1>4
    <2>2. QED
      BY <2>1, <1>2, <1>4, RemainderUnique
  <1>6. QED
    BY <1>2, <1>3, <1>4, <1>5

LEMMA AlignedByte ==
    ASSUME NEW off \in Nat
    PROVE  \E q \in Nat : byte_align(off) = 8 * q /\ off <= 8 * q /\ 8 * q <= off + 7
  <1> DEFINE n == off + 7
             d == n \div 8
  <1>1. n \in Nat
    OBVIOUS
  <1>2. d \in Nat /\ n % 8 \in 0 .. 7 /\ n = 8 * d + (n % 8)
    BY <1>1, DivMod
  <1>3. byte_align(off) = d * 8
    BY DEF byte_align, bytes, BITS_PER_BYTE
  <1> HIDE DEF d
  <1>4. byte_align(off) = 8 * d /\ off <= 8 * d /\ 8 * d <= off + 7
    BY <1>2, <1>3
  <1>5. QED
    BY <1>2, <1>4

\* Whole bytes as a multiple of eight.
LEMMA WholeBytes ==
    ASSUME NEW n \in Nat, n % 8 = 0
    PROVE  \E m \in Nat : n = 8 * m
  <1> DEFINE d == n \div 8
  <1>1. d \in Nat /\ n = 8 * d
    BY DivMod
  <1> HIDE DEF d
  <1>2. QED
    BY <1>1

\* Whole bytes behind an offset are aligned as the offset is.
LEMMA AlignedPlus ==
    ASSUME NEW off \in Nat, NEW c \in Nat, c % 8 = 0
    PROVE  /\ byte_align(off + c) = byte_align(off) + c
           /\ byte_align(byte_align(off) + c) = byte_align(off) + c
  <1>1. PICK m \in Nat : c = 8 * m
    BY WholeBytes
  <1>2. PICK q \in Nat : byte_align(off) = 8 * q /\ off <= 8 * q /\ 8 * q <= off + 7
    BY AlignedByte
  <1>3. PICK s \in Nat : s = q + m /\ 8 * s = 8 * q + c
    BY <1>1
  <1>4. byte_align(off + c) = 8 * s
    <2>1. off + c \in Nat /\ off + c <= 8 * s /\ 8 * s <= (off + c) + 7
      BY <1>2, <1>3
    <2>2. QED
      BY <2>1, AlignedIs
  <1>5. byte_align(byte_align(off) + c) = 8 * s
    <2>1. byte_align(off) + c = 8 * s
      BY <1>2, <1>3
    <2>2. 8 * s \in Nat /\ 8 * s <= 8 * s /\ 8 * s <= (8 * s) + 7
      OBVIOUS
    <2>3. byte_align(8 * s) = 8 * s
      BY <2>2, AlignedIs
    <2>4. QED
      BY <2>1, <2>3
  <1>6. QED
    BY <1>2, <1>3, <1>4, <1>5

\* The sizes of the members up to i.
LEMMA TotalSteps ==
    ASSUME NEW p \in Payloads
    PROVE  /\ Total(p, 0) = 0
           /\ \A i \in 0 .. Len(p) : Total(p, i) \in Nat
           /\ \A i \in DOMAIN p : Total(p, i) = Total(p, i - 1) + p[i].size
           /\ SumFunction(Sizes(p)) = Total(p, Len(p))
  <1> DEFINE f == Sizes(p)
             N == Len(p)
  <1>1. N \in Nat /\ DOMAIN p = 1 .. N /\ \A i \in 1 .. N : p[i].size \in Nat
    BY PayloadFacts
  <1>2. DOMAIN f = 1 .. N /\ \A i \in 1 .. N : f[i] = p[i].size
    BY <1>1 DEF Sizes
  <1>3. SumFunction(f) = Total(p, N)
    BY <1>2 DEF SumFunction, Total
  <1> HIDE DEF f, N
  <1>4. \A i \in 1 .. N : f[i] \in Nat
    BY <1>1, <1>2
  <1>5. /\ SumFunctionOnSet(f, {}) = 0
        /\ \A S \in SUBSET (1 .. N) :
              /\ SumFunctionOnSet(f, S) \in Nat
              /\ \A x \in S : SumFunctionOnSet(f, S) = f[x] + SumFunctionOnSet(f, S \ {x})
    <2>1. SumsUp(f, N)
      BY <1>1, <1>4, SumSteps, Zenon
    <2>2. QED
      BY <2>1 DEF SumsUp
  <1>6. \A i : Total(p, i) = SumFunctionOnSet(f, 1 .. i)
    BY DEF Total, f
  <1>7. Total(p, 0) = 0
    <2>1. 1 .. 0 = {}
      OBVIOUS
    <2>2. QED
      BY <2>1, <1>5, <1>6
  <1>8. \A i \in 0 .. N : Total(p, i) \in Nat
    <2>1. \A i \in 0 .. N : 1 .. i \in SUBSET (1 .. N)
      BY <1>1
    <2>2. QED
      BY <2>1, <1>5, <1>6
  <1>9. ASSUME NEW i \in 1 .. N PROVE Total(p, i) = Total(p, i - 1) + p[i].size
    <2>1. 1 .. i \in SUBSET (1 .. N) /\ i \in 1 .. i /\ (1 .. i) \ {i} = 1 .. i - 1 /\ i - 1 \in 0 .. N
      BY <1>1
    <2>2. Total(p, i) = f[i] + Total(p, i - 1)
      <3>1. PICK S \in SUBSET (1 .. N) : S = 1 .. i /\ i \in S /\ S \ {i} = 1 .. i - 1
        BY <2>1
      <3>2. SumFunctionOnSet(f, S) = f[i] + SumFunctionOnSet(f, S \ {i})
        BY <3>1, <1>5, Zenon
      <3>3. QED
        BY <3>1, <3>2, <1>6, Zenon
    <2>3. f[i] \in Nat /\ Total(p, i - 1) \in Nat /\ f[i] = p[i].size
      BY <2>1, <1>2, <1>4, <1>8
    <2>4. QED
      BY <2>2, <2>3
  <1>10. QED
    BY <1>1, <1>3, <1>7, <1>8, <1>9 DEF f, N

\* ... and of the bit members next to each other.
LEMMA RunSteps ==
    ASSUME NEW p \in Payloads
    PROVE  /\ Run(p, 0) = 0
           /\ \A i \in 0 .. Len(p) : Run(p, i) \in Nat
           /\ \A i \in DOMAIN p :
                 Run(p, i) = IF p[i].kind = "bits" THEN Run(p, i - 1) + p[i].size ELSE 0
  <1> DEFINE f == Sizes(p)
             N == Len(p)
  <1>1. N \in Nat /\ DOMAIN p = 1 .. N /\ \A i \in 1 .. N : p[i].size \in Nat
    BY PayloadFacts
  <1>2. \A i \in 1 .. N : f[i] = p[i].size
    BY <1>1 DEF Sizes
  <1>3. \A i : Run(p, i) = SumFunctionOnSet(f, RunOf(p, i))
    BY DEF Run
  <1> HIDE DEF f, N
  <1>4. \A i \in 1 .. N : f[i] \in Nat
    BY <1>1, <1>2
  <1>5. /\ SumFunctionOnSet(f, {}) = 0
        /\ \A S \in SUBSET (1 .. N) :
              /\ SumFunctionOnSet(f, S) \in Nat
              /\ \A x \in S : SumFunctionOnSet(f, S) = f[x] + SumFunctionOnSet(f, S \ {x})
    <2>1. SumsUp(f, N)
      BY <1>1, <1>4, SumSteps, Zenon
    <2>2. QED
      BY <2>1 DEF SumsUp
  <1>6. Run(p, 0) = 0
    <2>1. RunOf(p, 0) = {}
      BY DEF RunOf
    <2>2. QED
      BY <2>1, <1>3, <1>5
  <1>7. \A i \in 0 .. N : RunOf(p, i) \in SUBSET (1 .. N)
    BY <1>1 DEF RunOf
  <1>8. \A i \in 0 .. N : Run(p, i) \in Nat
    BY <1>3, <1>5, <1>7
  <1>9. ASSUME NEW i \in 1 .. N
        PROVE  Run(p, i) = IF p[i].kind = "bits" THEN Run(p, i - 1) + p[i].size ELSE 0
    <2>0. i \in 0 .. N /\ i - 1 \in 0 .. N
      BY <1>1
    <2>1. CASE p[i].kind = "bits"
      <3>1. i \in RunOf(p, i)
        <4>1. \A g \in i .. i : g = i
          BY <2>0
        <4>2. i \in 1 .. i
          OBVIOUS
        <4>3. QED
          BY <4>1, <4>2, <2>1 DEF RunOf
      <3>2. RunOf(p, i) \ {i} = RunOf(p, i - 1)
        <4>1. ASSUME NEW h \in RunOf(p, i), h # i PROVE h \in RunOf(p, i - 1)
          <5>1. h \in 1 .. i /\ \A g \in h .. i : p[g].kind = "bits"
            BY <4>1 DEF RunOf
          <5>2. h \in 1 .. i - 1 /\ \A g \in h .. i - 1 : g \in h .. i
            BY <5>1, <4>1
          <5>3. QED
            BY <5>1, <5>2 DEF RunOf
        <4>2. ASSUME NEW h \in RunOf(p, i - 1) PROVE h \in RunOf(p, i) /\ h # i
          <5>1. h \in 1 .. i - 1 /\ \A g \in h .. i - 1 : p[g].kind = "bits"
            BY <4>2 DEF RunOf
          <5>2. h \in 1 .. i /\ h # i /\ \A g \in h .. i : g = i \/ g \in h .. i - 1
            BY <5>1
          <5>3. QED
            BY <5>1, <5>2, <2>1 DEF RunOf
        <4>3. QED
          BY <4>1, <4>2
      <3>3. Run(p, i) = f[i] + Run(p, i - 1)
        BY <3>1, <3>2, <2>0, <1>3, <1>5, <1>7
      <3>4. f[i] \in Nat /\ Run(p, i - 1) \in Nat /\ f[i] = p[i].size
        BY <2>0, <1>2, <1>4, <1>8
      <3>5. QED
        BY <3>3, <3>4, <2>1
    <2>2. CASE p[i].kind # "bits"
      <3>1. RunOf(p, i) = {}
        <4>1. \A h \in 1 .. i : i \in h .. i
          OBVIOUS
        <4>2. QED
          BY <4>1, <2>2 DEF RunOf
      <3>2. QED
        BY <3>1, <2>2, <1>3, <1>5
    <2>3. QED
      BY <2>1, <2>2
  <1>10. QED
    BY <1>1, <1>6, <1>8, <1>9 DEF N

\* No part of a payload is longer than the whole.
LEMMA TotalMonotone ==
    ASSUME NEW p \in Payloads, NEW i \in 0 .. Len(p)
    PROVE  Total(p, i) <= Total(p, Len(p))
  <1> DEFINE N == Len(p)
             T == {d \in 0 .. N : ~ (Total(p, N - d) <= Total(p, N))}
  <1>1. N \in Nat /\ DOMAIN p = 1 .. N /\ \A j \in 1 .. N : p[j].size \in Nat
    BY PayloadFacts
  <1>2. /\ \A j \in 0 .. N : Total(p, j) \in Nat
        /\ \A j \in 1 .. N : Total(p, j) = Total(p, j - 1) + p[j].size
    BY <1>1, TotalSteps
  <1> HIDE DEF N
  <1>3. T = {}
    <2> SUFFICES ASSUME T # {} PROVE FALSE
      OBVIOUS
    <2>1. T \subseteq Nat
      OBVIOUS
    <2>2. PICK d \in T : \A e \in T : d <= e
      BY <2>1, Smallest
    <2>3. d \in 0 .. N /\ ~ (Total(p, N - d) <= Total(p, N))
      BY <2>2
    <2>4. d # 0
      <3>1. N - 0 = N /\ Total(p, N) \in Nat
        BY <1>1, <1>2
      <3>2. QED
        BY <3>1, <2>3
    <2>5. PICK j \in 1 .. N : j = N - (d - 1) /\ j - 1 = N - d
      BY <1>1, <2>3, <2>4
    <2>6. Total(p, j) <= Total(p, N)
      <3>1. d - 1 \in 0 .. N /\ ~ (d <= d - 1)
        BY <1>1, <2>3, <2>4
      <3>2. d - 1 \notin T
        BY <2>2, <3>1
      <3>3. QED
        BY <3>1, <3>2, <2>5
    <2>7. Total(p, j - 1) <= Total(p, j)
      <3>1. Total(p, j) = Total(p, j - 1) + p[j].size /\ p[j].size \in Nat /\ j - 1 \in 0 .. N
        BY <1>1, <1>2
      <3>2. Total(p, j - 1) \in Nat
        BY <3>1, <1>2
      <3>3. QED
        BY <3>1, <3>2
    <2>8. Total(p, j - 1) \in Nat /\ Total(p, j) \in Nat /\ Total(p, N) \in Nat
      BY <1>1, <1>2
    <2>9. QED
      BY <2>3, <2>5, <2>6, <2>7, <2>8
  <1>4. PICK d \in 0 .. N : i = N - d
    <2>1. N - i \in 0 .. N /\ i = N - (N - i)
      BY <1>1 DEF N
    <2>2. QED
      BY <2>1
  <1>5. QED
    BY <1>3, <1>4 DEF N
-----------------------------------------------------------------------------
\* The first member.
LEMMA TrackStart ==
    ASSUME NEW p \in Payloads
    PROVE  OnTrack(p, 1, 0)
  <1>1. Total(p, 0) = 0 /\ Run(p, 0) = 0 /\ 1 - 1 = 0
    BY TotalSteps, RunSteps
  <1>2. 0 = 0 + 8 * 0 /\ 0 \in Nat
    OBVIOUS
  <1>3. QED
    BY <1>1, <1>2 DEF OnTrack

\* From a member to the next one, whether or not the offset is aligned before
\* or after whole bytes.
LEMMA TrackStep ==
    ASSUME NEW p \in Payloads, SettledIn(p), NEW i \in DOMAIN p, NEW o \in Nat, NEW new,
           OnTrack(p, i, o),
           p[i].kind = "bits" => new = o + p[i].size,
           p[i].kind # "bits" => new = o + p[i].size \/ new = byte_align(o) + p[i].size
    PROVE  OnTrack(p, i + 1, new)
  <1> DEFINE sz == p[i].size
  <1>1. /\ Len(p) \in Nat /\ DOMAIN p = 1 .. Len(p) /\ sz \in Nat /\ i \in Nat
        /\ p[i].kind \in {"bits", "num", "list", "open", "close"}
    BY PayloadFacts
  <1>2. i \in 0 .. Len(p) /\ i - 1 \in 0 .. Len(p) /\ (i + 1) - 1 = i
    BY <1>1
  <1>3. PICK T \in Nat : T = Total(p, i - 1)
    BY <1>2, TotalSteps
  <1>4. Total(p, i) = T + sz
    BY <1>3, TotalSteps
  <1>5. PICK R \in Nat : R = Run(p, i - 1)
    BY <1>2, RunSteps
  <1>6. Run(p, i) = IF p[i].kind = "bits" THEN R + sz ELSE 0
    BY <1>5, RunSteps
  <1>7. BitsFrom(p, i) => o = T /\ \E q \in Nat : T = R + 8 * q
    BY <1>3, <1>5 DEF OnTrack
  <1>8. BitsFrom(p, i + 1) => BitsFrom(p, i)
    BY <1>1 DEF BitsFrom
  <1>9. CASE p[i].kind = "bits"
    <2>1. BitsFrom(p, i)
      BY <1>1, <1>9 DEF BitsFrom
    <2>2. PICK q \in Nat : o = T /\ T = R + 8 * q
      BY <2>1, <1>7
    <2>3. new = T + sz /\ Run(p, i) = R + sz
      BY <2>2, <1>6, <1>9
    <2> HIDE DEF sz
    <2>4. T + sz = (R + sz) + 8 * q
      BY <2>2, <1>1
    <2>5. QED
      BY <2>3, <2>4, <1>2, <1>4 DEF OnTrack
  <1>10. CASE p[i].kind # "bits"
    <2>1. sz % 8 = 0
      <3>1. CASE p[i].kind \in {"num", "list"}
        BY <3>1, PayloadsAssumption
      <3>2. CASE p[i].kind \in {"open", "close"}
        <4>1. sz = 0
          BY <3>2, PayloadFacts
        <4>2. 0 % 8 = 0
          OBVIOUS
        <4>3. QED
          BY <4>1, <4>2
      <3>3. QED
        BY <3>1, <3>2, <1>1, <1>10
    <2>2. Run(p, i) = 0
      BY <1>6, <1>10
    <2>3. byte_align(o) = byte_align(T)
      BY <1>3 DEF OnTrack
    <2>4. new = o + sz \/ new = byte_align(o) + sz
      BY <1>10
    <2> HIDE DEF sz
    <2>5. byte_align(new) = byte_align(T + sz)
      <3>1. byte_align(T + sz) = byte_align(T) + sz
        BY <2>1, <1>1, AlignedPlus
      <3>2. byte_align(o + sz) = byte_align(o) + sz /\ byte_align(byte_align(o) + sz) = byte_align(o) + sz
        BY <2>1, <1>1, AlignedPlus
      <3>3. QED
        BY <3>1, <3>2, <2>3, <2>4
    <2>6. ASSUME BitsFrom(p, i + 1)
          PROVE  new = T + sz /\ \E q \in Nat : T + sz = 0 + 8 * q
      <3>1. PICK q \in Nat : o = T /\ T = R + 8 * q
        BY <2>6, <1>7, <1>8
      <3>2. R % 8 = 0
        <4>1. CASE i = 1
          <5>1. Run(p, 0) = 0 /\ i - 1 = 0 /\ 0 % 8 = 0
            BY <4>1, RunSteps
          <5>2. QED
            BY <5>1, <1>5
        <4>2. CASE i # 1
          <5>1. PICK h \in DOMAIN p : h = i - 1 /\ h + 1 = i
            BY <4>2, <1>1
          <5>2. CASE p[h].kind = "bits"
            <6>1. PICK l \in DOMAIN p : i + 1 <= l /\ p[l].kind = "bits"
              BY <2>6 DEF BitsFrom
            <6>2. h + 1 < l
              BY <6>1, <5>1, <1>1
            <6>3. Run(p, h) % 8 = 0
              BY <6>1, <6>2, <5>1, <5>2, <1>10 DEF SettledIn
            <6>4. QED
              BY <6>3, <5>1, <1>5
          <5>3. CASE p[h].kind # "bits"
            <6>1. Run(p, h) = 0 /\ 0 % 8 = 0
              BY <5>3, RunSteps
            <6>2. QED
              BY <6>1, <5>1, <1>5
          <5>4. QED
            BY <5>2, <5>3
        <4>3. QED
          BY <4>1, <4>2
      <3>3. PICK a \in Nat : R = 8 * a
        BY <3>2, WholeBytes
      <3>4. PICK b \in Nat : sz = 8 * b
        BY <2>1, <1>1, WholeBytes
      <3>5. PICK c \in Nat : c = a + q /\ T = 8 * c
        BY <3>1, <3>3
      <3>6. byte_align(o) = o
        <4>1. o \in Nat /\ o <= 8 * c /\ 8 * c <= o + 7 /\ o = 8 * c
          BY <3>1, <3>5
        <4>2. QED
          BY <4>1, AlignedIs
      <3>7. new = T + sz
        BY <3>1, <3>6, <2>4
      <3>8. T + sz = 0 + 8 * (c + b) /\ c + b \in Nat
        BY <3>4, <3>5
      <3>9. QED
        BY <3>7, <3>8
    <2>7. QED
      BY <2>2, <2>5, <2>6, <1>2, <1>4 DEF OnTrack
  <1>11. QED
    BY <1>9, <1>10

\* What is settled is about the payload, which stays as it is.
LEMMA SettledSame == Settled <=> SettledIn(payload)
  <1>1. \A i : RunBits(i) = Run(payload, i)
    BY DEF RunBits, Run, RunOf, Sizes
  <1>2. QED
    BY <1>1 DEF Settled, SettledIn, BITS_PER_BYTE

\* ... and so does whether it is settled.
LEMMA SettledStays ==
    ASSUME payload' = payload
    PROVE  Settled' <=> Settled
  <1>1. \A i : RunBits(i)' = RunBits(i)
    BY DEF RunBits
  <1>2. QED
    BY <1>1 DEF Settled
-----------------------------------------------------------------------------
\* A writer begins on track.
LEMMA TrackInit == Init => TrackInv
  <1> SUFFICES ASSUME Init PROVE OnTrack(payload, k, offset)
    BY DEF TrackInv
  <1>1. payload \in Payloads /\ k = 1 /\ offset = 0
    BY DEF Init
  <1>2. QED
    BY <1>1, TrackStart

\* Every step of a writer and of a reader, in every language, stays on track.
LEMMA TrackNext == SizeInv /\ TrackInv /\ [Next]_vars => TrackInv'
  <1> SUFFICES ASSUME SizeInv, TrackInv, [Next]_vars, Settled', mode' \in {"begin", "write", "read"}
               PROVE  OnTrack(payload, k, offset)'
    BY DEF TrackInv
  <1>1. choice' = choice
    BY DEF Next, InitBuffer, Boundary, WriteWhole, ReadWhole, BeginBits, Pack, Unpack, Transfer, Finish,
           Fail, vars
  <1>2. payload' = payload /\ Settled
    <2>1. payload' = payload
      BY <1>1 DEF choice
    <2>2. QED
      BY <2>1, SettledStays
  <1>3. /\ SettledIn(payload) /\ payload \in Payloads
        /\ offset \in Nat /\ k \in 1 .. Len(payload) + 1 /\ Len(payload) \in Nat
        /\ k <= Len(payload) => k \in DOMAIN payload /\ Member = payload[k]
        /\ k <= Len(payload) /\ Member.kind \in {"open", "close"} => Member.size = 0
        /\ byte_align(offset) \in Nat
    BY <1>2, SettledSame, State
  <1>4. mode \in {"begin", "write", "read"} => OnTrack(payload, k, offset)
    BY <1>2 DEF TrackInv
  <1>5. ASSUME mode \in {"begin", "write", "read"}, k' = k, offset' = offset
        PROVE  OnTrack(payload', k', offset')
    BY <1>2, <1>4, <1>5
  <1>6. ASSUME mode \in {"write", "read"}, k <= Len(payload), k' = k + 1,
               payload[k].kind = "bits" => offset' = offset + payload[k].size,
               payload[k].kind # "bits" =>
                   offset' = offset + payload[k].size \/ offset' = byte_align(offset) + payload[k].size
        PROVE  OnTrack(payload', k', offset')
    <2>1. OnTrack(payload, k, offset) /\ k \in DOMAIN payload
      BY <1>3, <1>4, <1>6
    <2>2. OnTrack(payload, k + 1, offset')
      BY <2>1, <1>3, <1>6, TrackStep
    <2>3. QED
      BY <2>2, <1>2, <1>6
  <1>7. CASE Boundary
    <2>1. /\ mode \in {"write", "read"} /\ k <= Len(payload) /\ Member.kind \in {"open", "close"}
          /\ k' = k + 1
          /\ offset' = offset \/ offset' = byte_align(offset)
      BY <1>7 DEF Boundary, Advance
    <2>2. Member = payload[k] /\ payload[k].size = 0 /\ payload[k].kind # "bits"
      BY <2>1, <1>3
    <2>3. offset + 0 = offset /\ byte_align(offset) + 0 = byte_align(offset)
      BY <1>3
    <2>4. QED
      BY <2>1, <2>2, <2>3, <1>6
  <1>8. CASE WriteWhole \/ ReadWhole
    <2>1. /\ mode \in {"write", "read"} /\ k <= Len(payload) /\ Member.kind # "bits"
          /\ k' = k + 1 /\ offset' = AfterWhole(offset, Member)
      BY <1>8 DEF WriteWhole, ReadWhole, Advance, Fail
    <2>2. Member = payload[k]
      BY <2>1, <1>3
    <2>3. offset' = offset + payload[k].size \/ offset' = byte_align(offset) + payload[k].size
      BY <2>1, <2>2 DEF AfterWhole
    <2>4. QED
      BY <2>1, <2>2, <2>3, <1>6
  <1>9. CASE BeginBits
    <2>1. mode \in {"write", "read"} /\ k' = k /\ offset' = offset
      BY <1>9 DEF BeginBits, Fail
    <2>2. QED
      BY <2>1, <1>5
  <1>10. CASE Pack \/ Unpack
    <2>1. mode \in {"write", "read"} /\ bits_remaining > 0
      BY <1>10 DEF Pack, Unpack
    <2>2. k <= Len(payload) /\ Member.kind = "bits" /\ Member = payload[k]
      BY <2>1, <1>3, IterationFacts
    <2>3. \/ k' = k /\ offset' = offset
          \/ k' = k + 1 /\ offset' = offset + Member.size
      BY <1>10 DEF Pack, Unpack, Advance, Fail
    <2>4. QED
      BY <2>1, <2>2, <2>3, <1>5, <1>6
  <1>11. CASE Transfer
    <2>1. k' = 1 /\ offset' = 0
      BY <1>11 DEF Transfer, Fail
    <2>2. QED
      BY <2>1, <1>2, <1>3, TrackStart
  <1>12. CASE Finish
    BY <1>12 DEF Finish
  <1>13. CASE UNCHANGED vars
    <2>1. mode \in {"begin", "write", "read"} /\ k' = k /\ offset' = offset
      BY <1>13 DEF vars
    <2>2. QED
      BY <2>1, <1>5
  <1>14. CASE InitBuffer
    <2>1. mode = "begin" /\ k' = k /\ offset' = offset
      BY <1>14 DEF InitBuffer, Fail
    <2>2. QED
      BY <2>1, <1>5
  <1>15. QED
    BY <1>7, <1>8, <1>9, <1>10, <1>11, <1>12, <1>13, <1>14 DEF Next

\* Bits in whole words.
LEMMA WordsOf ==
    ASSUME NEW n \in Nat
    PROVE  Words(n) \in Nat /\ n <= 32 * Words(n) /\ 32 * Words(n) <= n + 31
  <1> DEFINE m == n + 31
             d == m \div 32
  <1>1. m \in Nat /\ 32 \in Nat \ {0}
    OBVIOUS
  <1>2. m % 32 \in 0 .. 31 /\ d \in Int /\ m = 32 * d + (m % 32)
    BY <1>1, DivMod
  <1>3. Words(n) = d
    BY DEF Words
  <1> HIDE DEF d
  <1>4. d \in Nat /\ n <= 32 * d /\ 32 * d <= n + 31
    BY <1>2
  <1>5. QED
    BY <1>3, <1>4

\* The buffer that C# makes has room for all members, if there are no gaps.
LEMMA CSharpRoom ==
    ASSUME SizeInv
    PROVE  /\ GetObjectSize \in Nat
           /\ BodySize = 32 * Words(GetObjectSize) /\ Words(GetObjectSize) \in Nat
           /\ \A i \in 0 .. Len(payload) : Total(payload, i) \in Nat /\ Total(payload, i) <= BodySize
  <1>1. payload \in Payloads /\ Len(payload) \in 0 .. Len(payload)
    BY State
  <1>2. GetObjectSize = Total(payload, Len(payload))
    BY <1>1, TotalSteps DEF GetObjectSize, Sizes
  <1>3. PICK T \in Nat : T = GetObjectSize
    BY <1>1, <1>2, TotalSteps
  <1>4. PICK w \in Nat : w = Words(T) /\ T <= 32 * w
    BY WordsOf
  <1>5. BodySize = 32 * w
    BY <1>3, <1>4 DEF BodySize
  <1>6. ASSUME NEW i \in 0 .. Len(payload)
        PROVE  Total(payload, i) \in Nat /\ Total(payload, i) <= BodySize
    <2>1. Total(payload, i) \in Nat /\ Total(payload, i) <= T
      BY <1>1, <1>2, <1>3, TotalSteps, TotalMonotone
    <2>2. QED
      BY <2>1, <1>4, <1>5
  <1>7. QED
    BY <1>3, <1>4, <1>5, <1>6

\* The length in the header covers what was written, if that is not too much.
LEMMA LengthCovers ==
    ASSUME NEW e \in Nat
    PROVE  /\ 32 * (Words(e) % (MaxWords + 1)) \in Nat
           /\ e <= MessageBodyLimit => e <= 32 * (Words(e) % (MaxWords + 1)) /\ Words(e) <= MaxWords
  <1>1. PICK w \in Nat : w = Words(e) /\ e <= 32 * w /\ 32 * w <= e + 31
    BY WordsOf
  <1>2. PICK m \in Nat : m = MaxWords /\ MessageBodyLimit = 32 * m
    BY LimitsAssumption DEF MessageBodyLimit
  <1>3. PICK r \in 0 .. m : r = w % (m + 1)
    <2>1. m + 1 \in Nat \ {0} /\ (m + 1) - 1 = m
      OBVIOUS
    <2>2. w % (m + 1) \in 0 .. m
      BY <2>1, DivMod
    <2>3. QED
      BY <2>2
  <1>4. ASSUME e <= 32 * m PROVE r = w /\ w <= m
    <2>1. w \in 0 .. m
      BY <1>1, <1>4
    <2>2. w % (m + 1) = w
      BY <2>1
    <2>3. QED
      BY <2>1, <2>2, <1>3
  <1>5. 32 * r \in Nat /\ (e <= 32 * m => e <= 32 * r /\ w <= m)
    BY <1>1, <1>3, <1>4
  <1>6. QED
    BY <1>1, <1>2, <1>3, <1>5

LEMMA LengthFacts ==
    ASSUME SizeInv
    PROVE  /\ Length \in Nat
           /\ writer # "CSharp" /\ end <= MessageBodyLimit => end <= Length
  <1>1. CASE writer = "CSharp"
    <2>1. PICK w \in Nat : BodySize = 32 * w
      BY CSharpRoom
    <2>2. QED
      BY <1>1, <2>1 DEF Length
  <1>2. CASE writer # "CSharp"
    <2>1. end \in Nat
      BY State
    <2>2. QED
      BY <1>2, <2>1, LengthCovers DEF Length
  <1>3. QED
    BY <1>1, <1>2
-----------------------------------------------------------------------------
\* Where the bits of a member begin, and where the generated C code goes on
\* after it, if it comes to it at offset o.
DataAt(o, m) == IF m.kind = "bits" THEN o ELSE byte_align(o)
EndInC(o, m) == DataAt(o, m) + m.size

\* Member i of p is in buf, written by a writer that came to it at offset o.
InBuffer(p, buf, i, o) ==
    p[i].size > 0 =>
        /\ DataAt(o, p[i]) + p[i].size <= Top
        /\ \A j \in 0 .. p[i].size - 1 : buf[DataAt(o, p[i]) + p[i].size - 1 - j] = <<i, j>>

\* The members that the writer has written, how far it has come or came, and the
\* offsets it came to them at.
Writing == mode \in {"begin", "write"}
Written == IF Writing THEN 1 .. k - 1 ELSE DOMAIN payload
Reached == IF Writing THEN offset ELSE end
IsLayout(off) ==
    /\ off[1] = 0
    /\ Writing => off[k] = offset
    /\ \A i \in Written :
          /\ InBuffer(payload, buffer, i, off[i])
          /\ payload[i].size > 0 => DataAt(off[i], payload[i]) + payload[i].size <= Reached
          /\ writer = "C" => off[i + 1] = EndInC(off[i], payload[i])
    /\ Settled => \A i \in Written : OnTrack(payload, i, off[i])

\* What the loop has written and read so far of the member it is at.
HalfWritten ==
    bits_remaining > 0 =>
        \A j \in bits_remaining .. payload[k].size - 1 :
            buffer[offset + payload[k].size - 1 - j] = <<k, j>>
HalfRead ==
    bits_remaining > 0 =>
        /\ DOMAIN val = 0 .. payload[k].size - 1
        /\ \A j \in bits_remaining .. payload[k].size - 1 : val[j] = <<k, j>>

\* A reader that follows the writer's offsets.
Follows(off) ==
    /\ mode = "read" => off[k] = offset /\ HalfRead
    /\ \A i \in 1 .. Len(got) : got[i] = Expected(i)

\* The reader comes to a member that is in the message.
Found ==
    /\ InBuffer(payload, buffer, k, offset)
    /\ payload[k].size > 0 => DataAt(offset, payload[k]) + payload[k].size <= Length

Offsets == [1 .. Len(payload) + 1 -> Nat]
COnly == writer = "C" /\ reader = "C" /\ end <= MessageBodyLimit
LayoutInv ==
    mode # "failed" => \E off \in Offsets : IsLayout(off) /\ (COnly => Follows(off))
WriterInv == Writing => HalfWritten /\ offset <= Extent(payload)[k]

\* What makes MembersWritten and CReadsC inductive.
IInv == SizeInv /\ LayoutInv /\ WriterInv
-----------------------------------------------------------------------------
LEMMA DataAtType ==
    ASSUME NEW o \in Nat, NEW m
    PROVE  DataAt(o, m) \in Nat /\ o <= DataAt(o, m) /\ DataAt(o, m) <= o + 7
  BY Aligned DEF DataAt

\* The data of a member are at the same bits for all who are on track.
LEMMA TrackData ==
    ASSUME NEW p \in Payloads, NEW i \in DOMAIN p, NEW o, OnTrack(p, i, o)
    PROVE  DataAt(o, p[i]) = DataAt(Total(p, i - 1), p[i])
  <1>1. CASE p[i].kind = "bits"
    <2>1. BitsFrom(p, i)
      <3>1. i <= i
        BY PayloadFacts
      <3>2. QED
        BY <3>1, <1>1 DEF BitsFrom
    <2>2. QED
      BY <2>1 DEF OnTrack
  <1>2. CASE p[i].kind # "bits"
    BY <1>2 DEF OnTrack, DataAt
  <1>3. QED
    BY <1>1, <1>2

\* ... so a member that is where one of them would put it is where another looks for it.
LEMMA TrackInBuffer ==
    ASSUME NEW p \in Payloads, NEW buf, NEW i \in DOMAIN p, NEW o, NEW w,
           OnTrack(p, i, o), OnTrack(p, i, w), InBuffer(p, buf, i, w)
    PROVE  InBuffer(p, buf, i, o)
  <1>1. DataAt(o, p[i]) = DataAt(w, p[i])
    BY TrackData
  <1>2. QED
    BY <1>1 DEF InBuffer

\* What is written behind a member leaves it whole.
LEMMA InBufferKept ==
    ASSUME NEW p, NEW buf, NEW new, NEW i, p[i].size \in Nat, NEW o \in Nat, NEW lim \in Nat,
           InBuffer(p, buf, i, o), p[i].size > 0 => DataAt(o, p[i]) + p[i].size <= lim,
           \A b \in 0 .. Top - 1 : b < lim => new[b] = buf[b]
    PROVE  InBuffer(p, new, i, o)
  <1> DEFINE sz == p[i].size
             d == DataAt(o, p[i])
  <1> SUFFICES ASSUME sz > 0
               PROVE  /\ d + sz <= Top
                      /\ \A j \in 0 .. sz - 1 : new[d + sz - 1 - j] = <<i, j>>
    BY DEF InBuffer
  <1>1. d + sz <= Top /\ \A j \in 0 .. sz - 1 : buf[d + sz - 1 - j] = <<i, j>>
    BY DEF InBuffer
  <1>2. d \in Nat /\ sz \in Nat /\ d + sz <= lim /\ Top \in Nat
    BY DataAtType, PayloadsAssumption
  <1> HIDE DEF sz, d
  <1>3. ASSUME NEW j \in 0 .. sz - 1
        PROVE  d + sz - 1 - j \in 0 .. Top - 1 /\ d + sz - 1 - j < lim
    BY <1>1, <1>2
  <1>4. QED
    BY <1>1, <1>3

\* The members that were written are whole after a step that writes nothing
\* before the offset, and the writer goes on to the next member.
LEMMA LayoutAdvance ==
    ASSUME SizeInv, SizeInv', TrackInv, LayoutInv, mode = "write", mode' = "write",
           choice' = choice, k <= Len(payload), k' = k + 1, offset <= offset',
           \A b \in 0 .. Top - 1 : b < offset => buffer'[b] = buffer[b],
           InBuffer(payload, buffer', k, offset),
           payload[k].size > 0 => DataAt(offset, payload[k]) + payload[k].size <= offset',
           writer = "C" => offset' = EndInC(offset, payload[k])
    PROVE  LayoutInv'
  <1>1. PICK off \in Offsets : IsLayout(off)
    BY DEF LayoutInv
  <1>2. /\ k \in DOMAIN payload /\ Len(payload) \in Nat /\ DOMAIN payload = 1 .. Len(payload)
        /\ k \in Nat /\ offset \in Nat /\ payload \in Payloads
    BY State
  <1>3. offset' \in Nat /\ payload' = payload /\ writer' = writer /\ reader' = reader /\ got' = <<>>
    BY DEF SizeInv, TypeOK, GotInv, choice
  <1>4. off \in [1 .. Len(payload) + 1 -> Nat]
    BY <1>1 DEF Offsets
  <1>5. PICK new \in [1 .. Len(payload) + 1 -> Nat] :
            /\ new[k + 1] = offset'
            /\ \A i \in 1 .. k : new[i] = off[i] /\ off[i] \in Nat
    <2> DEFINE n == [off EXCEPT ![k + 1] = offset']
    <2>1. /\ n \in [1 .. Len(payload) + 1 -> Nat]
          /\ n[k + 1] = offset'
          /\ \A i \in 1 .. k : n[i] = off[i] /\ off[i] \in Nat
      BY <1>2, <1>3, <1>4
    <2> HIDE DEF n
    <2>2. QED
      BY <2>1
  <1>6. off[1] = 0 /\ off[k] = offset
    BY <1>1 DEF IsLayout, Writing
  <1>7. ASSUME NEW i \in 1 .. k
        PROVE  /\ InBuffer(payload, buffer', i, new[i])
               /\ payload[i].size > 0 => DataAt(new[i], payload[i]) + payload[i].size <= offset'
               /\ writer = "C" => new[i + 1] = EndInC(new[i], payload[i])
    <2>1. CASE i = k
      BY <2>1, <1>2, <1>5, <1>6
    <2>2. CASE i # k
      <3>1. i \in 1 .. k - 1 /\ i \in DOMAIN payload /\ new[i] = off[i] /\ new[i + 1] = off[i + 1]
            /\ off[i] \in Nat
        <4>1. i \in 1 .. k - 1 /\ i + 1 \in 1 .. k /\ i \in DOMAIN payload
          BY <2>2, <1>2
        <4>2. QED
          BY <4>1, <1>5
      <3>2. /\ InBuffer(payload, buffer, i, off[i])
            /\ payload[i].size > 0 => DataAt(off[i], payload[i]) + payload[i].size <= offset
            /\ writer = "C" => off[i + 1] = EndInC(off[i], payload[i])
        BY <3>1, <1>1 DEF IsLayout, Written, Writing, Reached
      <3>3. payload[i].size \in Nat
        BY <3>1, <1>2, PayloadFacts
      <3>4. InBuffer(payload, buffer', i, off[i])
        BY <3>1, <3>2, <3>3, <1>2, InBufferKept
      <3>5. payload[i].size > 0 => DataAt(off[i], payload[i]) + payload[i].size <= offset'
        <4>1. DataAt(off[i], payload[i]) \in Nat
          BY <3>1, DataAtType
        <4>2. QED
          BY <3>2, <3>3, <4>1, <1>2, <1>3
      <3>6. QED
        BY <3>1, <3>2, <3>4, <3>5
    <2>3. QED
      BY <2>1, <2>2
  <1>8. new \in Offsets'
    BY <1>3, <1>5 DEF Offsets
  <1>9. IsLayout(new)'
    <2>1. Written' = 1 .. k /\ Reached' = offset'
      BY <1>2 DEF Written, Writing, Reached
    <2>2. new[1] = 0 /\ new[k'] = offset'
      BY <1>2, <1>5, <1>6
    <2>3. ASSUME Settled, NEW i \in 1 .. k PROVE OnTrack(payload, i, new[i])
      <3>1. CASE i = k
        BY <2>3, <3>1, <1>5, <1>6 DEF TrackInv
      <3>2. CASE i # k
        <4>1. i \in Written
          BY <3>2, <1>2 DEF Written, Writing
        <4>2. QED
          BY <2>3, <4>1, <1>1, <1>5 DEF IsLayout
      <3>3. QED
        BY <3>1, <3>2
    <2>4. Settled' => Settled
      BY <1>3, SettledStays
    <2>5. QED
      BY <2>1, <2>2, <2>3, <2>4, <1>3, <1>7 DEF IsLayout
  <1>10. Follows(new)'
    BY <1>3 DEF Follows
  <1>11. QED
    BY <1>8, <1>9, <1>10 DEF LayoutInv

\* The writer stays at a member.
LEMMA LayoutStay ==
    ASSUME SizeInv, SizeInv', LayoutInv, mode = "write", mode' = "write", choice' = choice,
           k' = k, offset' = offset,
           \A b \in 0 .. Top - 1 : b < offset => buffer'[b] = buffer[b]
    PROVE  LayoutInv'
  <1>1. PICK off \in Offsets : IsLayout(off)
    BY DEF LayoutInv
  <1>2. /\ Len(payload) \in Nat /\ DOMAIN payload = 1 .. Len(payload)
        /\ k \in 1 .. Len(payload) + 1 /\ offset \in Nat /\ payload \in Payloads
    BY State
  <1>3. payload' = payload /\ writer' = writer /\ got' = <<>>
    BY DEF SizeInv, GotInv, choice
  <1>4. off \in Offsets'
    BY <1>1, <1>3 DEF Offsets
  <1>5. ASSUME NEW i \in 1 .. k - 1 PROVE InBuffer(payload, buffer', i, off[i])
    <2>1. /\ InBuffer(payload, buffer, i, off[i])
          /\ payload[i].size > 0 => DataAt(off[i], payload[i]) + payload[i].size <= offset
      BY <1>1 DEF IsLayout, Written, Writing, Reached
    <2>2. i \in DOMAIN payload /\ i \in 1 .. Len(payload) + 1
      BY <1>2
    <2>3. off[i] \in Nat /\ payload[i].size \in Nat
      BY <1>1, <1>2, <2>2, PayloadFacts DEF Offsets
    <2>4. QED
      BY <2>1, <2>3, <1>2, InBufferKept
  <1>6. IsLayout(off)'
    <2>1. Written' = Written /\ Written = 1 .. k - 1 /\ Reached' = Reached /\ Writing
      BY DEF Written, Reached, Writing
    <2>2. Settled' => Settled
      BY <1>3, SettledStays
    <2>3. QED
      BY <2>1, <2>2, <1>1, <1>3, <1>5 DEF IsLayout
  <1>7. Follows(off)'
    BY <1>3 DEF Follows
  <1>8. QED
    BY <1>4, <1>6, <1>7 DEF LayoutInv

\* The buffer stays as it is from the end of the writing on.
LEMMA LayoutSame ==
    ASSUME SizeInv, NEW off \in Offsets, IsLayout(off), mode' \in {"read", "done"},
           \/ mode \in {"read", "done"} /\ end' = end
           \/ mode = "write" /\ k > Len(payload) /\ end' = offset,
           choice' = choice, buffer' = buffer
    PROVE  off \in Offsets' /\ IsLayout(off)'
  <1>1. payload' = payload /\ writer' = writer
    BY DEF choice
  <1>2. Written = DOMAIN payload /\ Written' = DOMAIN payload /\ Reached' = Reached /\ ~ Writing'
    <2>1. /\ Len(payload) \in Nat /\ DOMAIN payload = 1 .. Len(payload)
          /\ k \in 1 .. Len(payload) + 1
      BY State
    <2>2. QED
      BY <2>1, <1>1 DEF Written, Reached, Writing
  <1>3. off \in Offsets'
    BY <1>1 DEF Offsets
  <1>4. Settled' => Settled
    BY <1>1, SettledStays
  <1>5. QED
    BY <1>1, <1>2, <1>3, <1>4 DEF IsLayout

\* A reader of the generated C code that follows the offsets finds the member.
LEMMA FoundThere ==
    ASSUME SizeInv, NEW off \in Offsets, IsLayout(off), COnly, mode = "read", k <= Len(payload),
           off[k] = offset
    PROVE  Found
  <1>1. k \in DOMAIN payload /\ offset \in Nat /\ end \in Nat /\ payload[k].size \in Nat
    BY State
  <1>2. end <= Length /\ Length \in Nat
    BY LengthFacts DEF COnly
  <1>3. /\ InBuffer(payload, buffer, k, offset)
        /\ payload[k].size > 0 => DataAt(offset, payload[k]) + payload[k].size <= end
    BY <1>1 DEF IsLayout, Written, Reached, Writing
  <1>4. DataAt(offset, payload[k]) \in Nat
    BY <1>1, DataAtType
  <1> DEFINE n == DataAt(offset, payload[k]) + payload[k].size
  <1>5. n \in Nat
    BY <1>1, <1>4
  <1> HIDE DEF n
  <1>6. n <= end => n <= Length
    BY <1>1, <1>2, <1>5
  <1>7. QED
    BY <1>3, <1>6 DEF Found, n

\* A reader goes on to the next member.
LEMMA ReadAdvance ==
    ASSUME IInv, SizeInv', mode = "read", mode' = "read", choice' = choice, buffer' = buffer,
           end' = end, k <= Len(payload), k' = k + 1, bits_remaining' = 0, NEW e, got' = Append(got, e),
           COnly => offset' = EndInC(offset, payload[k]),
           COnly /\ HalfRead /\ Found => e = Expected(k)
    PROVE  IInv'
  <1>1. PICK off \in Offsets : IsLayout(off) /\ (COnly => Follows(off))
    BY DEF IInv, LayoutInv
  <1>2. /\ k \in DOMAIN payload /\ Len(payload) \in Nat /\ DOMAIN payload = 1 .. Len(payload)
        /\ k \in Nat
    BY State DEF IInv
  <1>3. payload' = payload /\ writer' = writer /\ reader' = reader
    BY DEF choice
  <1>4. off \in Offsets' /\ IsLayout(off)'
    BY <1>1, LayoutSame DEF IInv
  <1>5. ASSUME COnly PROVE Follows(off)'
    <2>1. /\ off[k] = offset /\ HalfRead
          /\ \A i \in 1 .. Len(got) : got[i] = Expected(i)
      BY <1>1, <1>5 DEF Follows
    <2>2. Found /\ off[k + 1] = EndInC(off[k], payload[k])
      BY <1>1, <1>2, <1>5, <2>1, FoundThere DEF IInv, IsLayout, Written, Writing, COnly
    <2>3. e = Expected(k) /\ offset' = off[k + 1]
      BY <1>5, <2>1, <2>2
    <2>4. PICK S : got \in Seq(S)
      BY DEF IInv, SizeInv, GotInv
    <2>5. Len(got) = k - 1
      BY DEF IInv, SizeInv, GotInv
    <2> DEFINE U == S \cup {e}
    <2>6. got \in Seq(U) /\ e \in U
      BY <2>4
    <2> HIDE DEF U
    <2>7. /\ Len(got') = k
          /\ \A i \in 1 .. k - 1 : got'[i] = got[i]
          /\ got'[k] = e
      BY <2>5, <2>6, <1>2
    <2>8. ASSUME NEW i \in 1 .. Len(got') PROVE got'[i] = Expected(i)
      <3>1. CASE i = k
        BY <3>1, <2>3, <2>7
      <3>2. CASE i # k
        <4>1. i \in 1 .. k - 1
          BY <3>2, <2>7, <1>2
        <4>2. QED
          BY <4>1, <2>1, <2>5, <2>7
      <3>3. QED
        BY <3>1, <3>2
    <2>9. \A i \in 1 .. Len(got') : got'[i] = Expected(i)'
      BY <2>8, <1>3 DEF Expected
    <2>10. HalfRead'
      BY DEF HalfRead
    <2>11. QED
      BY <2>3, <2>9, <2>10 DEF Follows
  <1>6. LayoutInv'
    BY <1>3, <1>4, <1>5 DEF LayoutInv, COnly, MessageBodyLimit
  <1>7. WriterInv'
    BY DEF WriterInv, Writing
  <1>8. QED
    BY <1>6, <1>7 DEF IInv

\* A reader stays at a member, or ends.
LEMMA ReadStay ==
    ASSUME IInv, SizeInv', mode \in {"read", "done"}, mode' \in {"read", "done"},
           mode = "done" => mode' = "done",
           choice' = choice, buffer' = buffer, end' = end, got' = got, k' = k, offset' = offset,
           COnly /\ mode' = "read" /\ HalfRead /\ (k <= Len(payload) => Found) => HalfRead'
    PROVE  IInv'
  <1>1. PICK off \in Offsets : IsLayout(off) /\ (COnly => Follows(off))
    BY DEF IInv, LayoutInv
  <1>2. payload' = payload /\ writer' = writer /\ reader' = reader
    BY DEF choice
  <1>3. off \in Offsets' /\ IsLayout(off)'
    BY <1>1, LayoutSame DEF IInv
  <1>4. ASSUME COnly PROVE Follows(off)'
    <2>1. \A i \in 1 .. Len(got') : got'[i] = Expected(i)'
      BY <1>1, <1>2, <1>4 DEF Follows, Expected
    <2>2. ASSUME mode' = "read" PROVE off[k] = offset /\ HalfRead
      BY <1>1, <1>4, <2>2 DEF Follows
    <2>3. ASSUME mode' = "read", k <= Len(payload) PROVE Found
      BY <1>1, <1>4, <2>2, <2>3, FoundThere DEF IInv
    <2>4. mode' = "read" => off[k'] = offset' /\ HalfRead'
      BY <1>4, <2>2, <2>3
    <2>5. QED
      BY <2>1, <2>4 DEF Follows
  <1>5. LayoutInv'
    BY <1>2, <1>3, <1>4 DEF LayoutInv, COnly, MessageBodyLimit
  <1>6. WriterInv'
    BY DEF WriterInv, Writing
  <1>7. QED
    BY <1>5, <1>6 DEF IInv

\* The writer goes on to the next member: nothing but that member changes, and
\* it is where it belongs.
LEMMA WriteAdvance ==
    ASSUME IInv, TrackInv, SizeInv', mode = "write", mode' = "write", choice' = choice,
           k <= Len(payload), k' = k + 1, bits_remaining' = 0,
           offset <= offset', offset' <= offset + payload[k].size + 7,
           \A b \in 0 .. Top - 1 : b < offset => buffer'[b] = buffer[b],
           InBuffer(payload, buffer', k, offset),
           payload[k].size > 0 => DataAt(offset, payload[k]) + payload[k].size <= offset',
           writer = "C" => offset' = EndInC(offset, payload[k])
    PROVE  IInv'
  <1>1. LayoutInv'
    BY LayoutAdvance DEF IInv
  <1>2. HalfWritten'
    BY DEF HalfWritten
  <1>3. offset' <= Extent(payload')[k']
    <2>1. /\ k \in DOMAIN payload /\ k \in Nat /\ offset \in Nat /\ payload \in Payloads
          /\ k \in 1 .. Len(payload) + 1 /\ payload[k].size \in Nat
      BY State DEF IInv
    <2>2. offset' \in Nat /\ payload' = payload
      BY DEF SizeInv, TypeOK, choice
    <2>3. Extent(payload)[k + 1] = Extent(payload)[k] + payload[k].size + 7
      BY <2>1, ExtentSteps
    <2>4. Extent(payload)[k] \in Nat
      BY <2>1, ExtentSteps
    <2>5. offset <= Extent(payload)[k]
      BY DEF IInv, WriterInv, Writing
    <2> DEFINE E == Extent(payload)[k]
               sz == payload[k].size
    <2>6. offset <= E /\ E \in Nat /\ sz \in Nat /\ offset' <= offset + sz + 7
      BY <2>1, <2>4, <2>5
    <2>7. Extent(payload')[k'] = E + sz + 7
      BY <2>2, <2>3
    <2> HIDE DEF E, sz
    <2>8. QED
      BY <2>1, <2>2, <2>6, <2>7
  <1>4. WriterInv'
    BY <1>2, <1>3 DEF WriterInv
  <1>5. QED
    BY <1>1, <1>4 DEF IInv

\* There is room for every member.
LEMMA Room ==
    ASSUME IInv, mode = "write", k <= Len(payload)
    PROVE  offset + payload[k].size + 7 <= Top
  <1>0. /\ k \in DOMAIN payload /\ Len(payload) \in Nat /\ offset \in Nat /\ payload \in Payloads
        /\ k \in 1 .. Len(payload) + 1 /\ payload[k].size \in Nat
    BY State DEF IInv
  <1>1. k \in DOMAIN payload /\ k \in Nat /\ offset \in Nat /\ payload \in Payloads
        /\ k \in 1 .. Len(payload) + 1 /\ payload[k].size \in Nat /\ k + 1 \in 1 .. Len(payload) + 1
    BY <1>0
  <1>2. /\ Extent(payload)[k + 1] = Extent(payload)[k] + payload[k].size + 7
        /\ Extent(payload)[k] \in Nat /\ Extent(payload)[k + 1] <= Top
    BY <1>1, ExtentSteps
  <1>3. offset <= Extent(payload)[k] /\ Top \in Nat
    BY PayloadsAssumption DEF IInv, WriterInv, Writing
  <1> DEFINE E == Extent(payload)[k]
             sz == payload[k].size
  <1>4. offset <= E /\ E \in Nat /\ sz \in Nat /\ E + sz + 7 <= Top
    BY <1>1, <1>2, <1>3
  <1> HIDE DEF E, sz
  <1>5. offset + sz + 7 <= Top
    BY <1>1, <1>3, <1>4
  <1>6. QED
    BY <1>5 DEF sz
-----------------------------------------------------------------------------
\* The beginning and the end of a structure have no bits.
LEMMA BoundaryKeeps ==
    ASSUME IInv, TrackInv, SizeInv', Boundary
    PROVE  IInv'
  <1> DEFINE al == byte_align(offset)
             new == IF Aligns(Member) THEN al ELSE offset
  <1>1. /\ mode \in {"write", "read"} /\ mode' = mode /\ k <= Len(payload)
        /\ Member.kind \in {"open", "close"} /\ offset' = new /\ k' = k + 1
        /\ got' = IF mode = "read" THEN Append(got, Expected(k)) ELSE got
        /\ choice' = choice /\ buffer' = buffer /\ end' = end /\ bits_remaining' = bits_remaining
    BY DEF Boundary, Advance, loop
  <1>2. SizeInv
    BY DEF IInv
  <1>3. /\ offset \in Nat /\ al \in Nat /\ offset <= al /\ al <= offset + 7
        /\ Member = payload[k] /\ payload[k].size = 0 /\ bits_remaining \in 0 .. 32
    BY <1>1, <1>2, State
  <1>4. bits_remaining' = 0
    <2>1. ~ (bits_remaining > 0)
      BY <1>1, <1>2 DEF SizeInv, LoopInv, Member
    <2>2. QED
      BY <2>1, <1>1, <1>3
  <1>5. InBuffer(payload, buffer, k, offset)
    BY <1>3 DEF InBuffer
  <1>6. EndInC(offset, payload[k]) = al
    <2>1. DataAt(offset, payload[k]) = al
      BY <1>1, <1>3 DEF DataAt
    <2> HIDE DEF al
    <2>2. QED
      BY <2>1, <1>3 DEF EndInC
  <1>7. Language = "C" => new = al
    BY <1>1 DEF Aligns
  <1>8. offset <= new /\ new <= offset + 7
    BY <1>3
  <1> HIDE DEF new, al
  <1>9. CASE mode = "write"
    <2>1. writer = "C" => offset' = EndInC(offset, payload[k])
      BY <1>1, <1>6, <1>7, <1>9 DEF Language
    <2>2. offset <= offset' /\ offset' <= offset + payload[k].size + 7
      BY <1>1, <1>3, <1>8
    <2>3. ~ (payload[k].size > 0)
      BY <1>3
    <2>4. QED
      BY <1>1, <1>4, <1>5, <1>9, <2>1, <2>2, <2>3, WriteAdvance
  <1>10. CASE mode = "read"
    <2>1. reader = "C" => offset' = EndInC(offset, payload[k])
      BY <1>1, <1>6, <1>7, <1>10 DEF Language
    <2>2. got' = Append(got, Expected(k))
      BY <1>1, <1>10
    <2>3. QED
      BY <1>1, <1>4, <1>10, <2>1, <2>2, ReadAdvance DEF COnly
  <1>11. QED
    BY <1>1, <1>9, <1>10

\* After a failure nothing more is said.
LEMMA FailKeeps ==
    ASSUME SizeInv', Fail
    PROVE  IInv'
  BY DEF Fail, IInv, LayoutInv, WriterInv, Writing

\* A number or a list is written at the next byte.
LEMMA WriteWholeKeeps ==
    ASSUME IInv, TrackInv, SizeInv', WriteWhole
    PROVE  IInv'
  <1> DEFINE at == byte_align(offset)
             sz == payload[k].size
  <1>1. /\ mode = "write" /\ k <= Len(payload) /\ Member.kind \in {"num", "list"}
        /\ \/ Fail
           \/ /\ buffer' = Stored(at, Member) /\ offset' = AfterWhole(offset, Member) /\ k' = k + 1
              /\ choice' = choice /\ mode' = mode /\ bits_remaining' = bits_remaining
    BY DEF WriteWhole, Advance, loop
  <1>2. CASE Fail
    BY <1>2, FailKeeps
  <1>3. CASE /\ buffer' = Stored(at, Member) /\ offset' = AfterWhole(offset, Member) /\ k' = k + 1
             /\ choice' = choice /\ mode' = mode /\ bits_remaining' = bits_remaining
    <2>1. SizeInv
      BY DEF IInv
    <2>2. /\ offset \in Nat /\ at \in Nat /\ offset <= at /\ at <= offset + 7 /\ Top \in Nat
          /\ Member = payload[k] /\ sz \in Nat /\ bits_remaining \in 0 .. 32
      BY <1>1, <2>1, State
    <2>3. bits_remaining' = 0
      <3>1. ~ (bits_remaining > 0)
        BY <1>1, <2>1 DEF SizeInv, LoopInv, Member
      <3>2. QED
        BY <3>1, <1>3, <2>2
    <2>4. offset' = at + sz
      BY <1>1, <1>3, <2>2 DEF AfterWhole
    <2>5. DataAt(offset, payload[k]) = at
      BY <1>1, <2>2 DEF DataAt
    <2>6. \A b \in 0 .. Top - 1 :
              buffer'[b] = IF b \in at .. at + sz - 1 THEN <<k, at + sz - 1 - b>> ELSE buffer[b]
      BY <1>1, <1>3, <2>1, <2>2, StoredBits
    <2>7. offset + sz + 7 <= Top
      BY <1>1, Room
    <2> HIDE DEF at
    <2>8. InBuffer(payload, buffer', k, offset)
      <3> HIDE DEF sz
      <3>1. at + sz <= Top
        BY <2>2, <2>7
      <3>2. ASSUME NEW j \in 0 .. sz - 1 PROVE buffer'[at + sz - 1 - j] = <<k, j>>
        <4>1. /\ at + sz - 1 - j \in 0 .. Top - 1 /\ at + sz - 1 - j \in at .. at + sz - 1
              /\ at + sz - 1 - (at + sz - 1 - j) = j
          BY <2>2, <3>1
        <4>2. QED
          BY <4>1, <2>6
      <3>3. QED
        BY <3>1, <3>2, <2>5 DEF InBuffer, sz
    <2>9. \A b \in 0 .. Top - 1 : b < offset => buffer'[b] = buffer[b]
      <3> HIDE DEF sz
      <3>1. \A b \in 0 .. Top - 1 : b < offset => b \notin at .. at + sz - 1
        BY <2>2
      <3>2. QED
        BY <3>1, <2>6
    <2>10. offset <= offset' /\ offset' <= offset + sz + 7 /\ at + sz <= offset'
      <3> HIDE DEF sz
      <3>1. QED
        BY <2>2, <2>4
    <2>11. offset' = EndInC(offset, payload[k])
      BY <2>4, <2>5 DEF EndInC
    <2>12. QED
      BY <1>1, <1>3, <2>3, <2>5, <2>8, <2>9, <2>10, <2>11, WriteAdvance
  <1>4. QED
    BY <1>1, <1>2, <1>3

\* What a reader that comes to the right bits makes of a number or a list.
LEMMA LoadedWhole ==
    ASSUME SizeInv, k <= Len(payload), Member.kind \in {"num", "list"}, Found
    PROVE  Loaded(byte_align(offset), Member) = Expected(k)
  <1> DEFINE at == byte_align(offset)
             sz == payload[k].size
  <1>1. /\ at \in Nat /\ Top \in Nat /\ DOMAIN buffer = 0 .. Top - 1
        /\ Member = payload[k] /\ sz \in Nat /\ Length \in Nat
    BY State, LengthFacts
  <1>2. DataAt(offset, payload[k]) = at
    BY <1>1 DEF DataAt
  <1> HIDE DEF at
  <1>3. ASSUME NEW j \in 0 .. sz - 1 PROVE BitAt(at + sz - 1 - j) = <<k, j>>
    <2> HIDE DEF sz
    <2>1. sz > 0
      BY <1>1
    <2>2. at + sz <= Top /\ buffer[at + sz - 1 - j] = <<k, j>> /\ at + sz <= Length
      BY <2>1, <1>2 DEF Found, InBuffer, sz
    <2>3. at + sz - 1 - j \in DOMAIN buffer /\ at + sz - 1 - j < Length
      BY <2>2, <1>1
    <2>4. QED
      BY <2>2, <2>3 DEF BitAt
  <1>4. [j \in 0 .. sz - 1 |-> BitAt(at + sz - 1 - j)] = [j \in 0 .. sz - 1 |-> <<k, j>>]
    BY <1>3
  <1>5. QED
    BY <1>4, <1>1 DEF Loaded, Expected, at

\* ... and the generated C code reads it from there.
LEMMA ReadWholeKeeps ==
    ASSUME IInv, SizeInv', ReadWhole
    PROVE  IInv'
  <1> DEFINE at == byte_align(offset)
             sz == payload[k].size
             e == Loaded(at, Member)
  <1>1. /\ mode = "read" /\ k <= Len(payload) /\ Member.kind \in {"num", "list"}
        /\ got' = Append(got, e) /\ offset' = AfterWhole(offset, Member) /\ k' = k + 1
        /\ choice' = choice /\ mode' = mode /\ buffer' = buffer /\ end' = end
        /\ bits_remaining' = bits_remaining
    BY DEF ReadWhole, Advance, loop
  <1>2. SizeInv
    BY DEF IInv
  <1>3. /\ offset \in Nat /\ at \in Nat /\ Top \in Nat /\ DOMAIN buffer = 0 .. Top - 1
        /\ Member = payload[k] /\ sz \in Nat /\ bits_remaining \in 0 .. 32
    BY <1>1, <1>2, State
  <1>4. bits_remaining' = 0
    <2>1. ~ (bits_remaining > 0)
      BY <1>1, <1>2 DEF SizeInv, LoopInv, Member
    <2>2. QED
      BY <2>1, <1>1, <1>3
  <1>5. DataAt(offset, payload[k]) = at
    BY <1>1, <1>3 DEF DataAt
  <1>6. ASSUME reader = "C" PROVE offset' = EndInC(offset, payload[k])
    <2>1. AfterWhole(offset, Member) = at + sz
      BY <1>1, <1>3, <1>6 DEF AfterWhole, Language
    <2>2. QED
      BY <2>1, <1>1, <1>5 DEF EndInC
  <1>7. ASSUME Found PROVE e = Expected(k)
    BY <1>1, <1>2, <1>7, LoadedWhole
  <1> HIDE DEF e
  <1>8. QED
    BY <1>1, <1>4, <1>6, <1>7, ReadAdvance DEF COnly
-----------------------------------------------------------------------------
\* The loop begins: nothing has been moved yet.
LEMMA BeginBitsKeeps ==
    ASSUME IInv, SizeInv', BeginBits
    PROVE  IInv'
  <1>1. CASE Fail
    BY <1>1, FailKeeps
  <1>2. CASE ~ Fail
    <2>1. /\ mode \in {"write", "read"} /\ mode' = mode /\ k <= Len(payload) /\ Member.kind = "bits"
          /\ choice' = choice /\ k' = k /\ offset' = offset /\ buffer' = buffer /\ got' = got
          /\ end' = end
          /\ bits_remaining' = Member.size /\ val' = [j \in 0 .. Member.size - 1 |-> Nothing]
      BY <1>2 DEF BeginBits
    <2>2. SizeInv
      BY DEF IInv
    <2>3. Member = payload[k] /\ Member.size \in Nat /\ payload' = payload
      BY <2>1, <2>2, State DEF choice
    <2>4. \A j : j \notin bits_remaining' .. payload'[k'].size - 1
      BY <2>1, <2>3
    <2>5. CASE mode = "write"
      <3>1. LayoutInv'
        BY <2>1, <2>2, <2>5, LayoutStay DEF IInv
      <3>2. HalfWritten'
        BY <2>4 DEF HalfWritten
      <3>3. offset' <= Extent(payload')[k']
        BY <2>1, <2>3, <2>5 DEF IInv, WriterInv, Writing
      <3>4. QED
        BY <3>1, <3>2, <3>3 DEF IInv, WriterInv
    <2>6. CASE mode = "read"
      <3>1. DOMAIN val' = 0 .. payload'[k'].size - 1
        BY <2>1, <2>3
      <3>2. HalfRead'
        BY <2>4, <3>1 DEF HalfRead
      <3>3. QED
        BY <2>1, <2>6, <3>2, ReadStay
    <2>7. QED
      BY <2>1, <2>5, <2>6
  <1>3. QED
    BY <1>1, <1>2

\* The bits that have been moved after an iteration: those that had been moved
\* before and those that it moves.
LEMMA MovedSoFar ==
    ASSUME SizeInv, bits_remaining > 0, NextIteration
    PROVE  /\ bits_remaining' \in Nat
           /\ \A j \in bits_remaining' .. Member.size - 1 :
                 /\ j \in 0 .. Member.size - 1
                 /\ j \in Moved \/ j \in bits_remaining .. Member.size - 1
           /\ \A j \in Moved : j \notin bits_remaining .. Member.size - 1 /\ j \in 0 .. Member.size - 1
  <1> DEFINE sz == Member.size
  <1>1. /\ bits_remaining <= sz /\ bits_to_place \in 1 .. 8 /\ bits_to_place <= bits_remaining
        /\ Moved = (bits_remaining - bits_to_place) .. (bits_remaining - 1)
        /\ k <= Len(payload)
    BY IterationFacts
  <1>2. bits_remaining \in Nat /\ bits_to_place \in Nat /\ sz \in Nat
    <2>1. bits_remaining \in 0 .. 32 /\ sz \in Nat
      BY <1>1, State
    <2>2. QED
      BY <2>1, <1>1
  <1>3. bits_remaining' = bits_remaining - bits_to_place
    BY DEF NextIteration
  <1> HIDE DEF sz
  <1>4. /\ bits_remaining' \in Nat
        /\ \A j \in bits_remaining' .. sz - 1 :
              j \in 0 .. sz - 1 /\ (j \in Moved \/ j \in bits_remaining .. sz - 1)
    BY <1>1, <1>2, <1>3
  <1>5. \A j \in Moved : j \notin bits_remaining .. sz - 1 /\ j \in 0 .. sz - 1
    BY <1>1, <1>2
  <1>6. QED
    BY <1>4, <1>5 DEF sz

\* The writer's loop puts each bit where it belongs, and nothing else changes.
LEMMA PackKeeps ==
    ASSUME IInv, TrackInv, SizeInv', Pack
    PROVE  IInv'
  <1>1. mode = "write" /\ bits_remaining > 0
    BY DEF Pack
  <1>2. CASE Fail
    BY <1>2, FailKeeps
  <1>3. CASE ~ Fail
    <2> DEFINE sz == Member.size
    <2>1. /\ buffer' = [b \in 0 .. Top - 1 |->
                           IF \E j \in Moved : Place(j) = b
                           THEN <<k, CHOOSE j \in Moved : Place(j) = b>> ELSE buffer[b]]
          /\ NextIteration
          /\ IF bits_remaining' = 0 THEN offset' = offset + sz /\ k' = k + 1
                                    ELSE k' = k /\ offset' = offset
          /\ choice' = choice /\ mode' = mode
      BY <1>3 DEF Pack, Advance
    <2>2. SizeInv
      BY DEF IInv
    <2>3. k <= Len(payload) /\ Member.kind = "bits"
      BY <1>1, <2>2, IterationFacts
    <2>4. offset \in Nat /\ sz \in Nat /\ sz = payload[k].size /\ Top \in Nat /\ payload' = payload
      BY <2>1, <2>2, <2>3, State DEF choice
    <2>5. offset + sz + 7 <= Top
      BY <1>1, <2>3, <2>4, Room
    <2>6. /\ bits_remaining' \in Nat
          /\ \A j \in bits_remaining' .. sz - 1 :
                 /\ j \in 0 .. sz - 1
                 /\ j \in Moved \/ j \in bits_remaining .. sz - 1
          /\ \A j \in Moved : j \notin bits_remaining .. sz - 1 /\ j \in 0 .. sz - 1
      BY <1>1, <2>1, <2>2, MovedSoFar
    <2>7. /\ \A b \in 0 .. Top - 1 : \A j \in Moved :
                  b = offset + sz - 1 - j => buffer'[b] = <<k, j>>
          /\ \A b \in 0 .. Top - 1 :
                  \/ buffer'[b] = buffer[b]
                  \/ \E j \in Moved : b = offset + sz - 1 - j /\ buffer'[b] = <<k, j>>
      BY <1>1, <2>1, <2>2, PackedBits
    <2>8. \A j \in bits_remaining .. sz - 1 : buffer[offset + sz - 1 - j] = <<k, j>>
      BY <1>1, <2>4 DEF IInv, WriterInv, HalfWritten, Writing
    <2> HIDE DEF sz
    <2>9. ASSUME NEW j \in bits_remaining' .. sz - 1
          PROVE  buffer'[offset + sz - 1 - j] = <<k, j>>
      <3>1. PICK b \in 0 .. Top - 1 : b = offset + sz - 1 - j
        <4>1. j \in 0 .. sz - 1
          BY <2>6
        <4>2. QED
          BY <4>1, <2>4, <2>5
      <3>2. CASE j \in Moved
        BY <3>1, <3>2, <2>7
      <3>3. CASE j \in bits_remaining .. sz - 1
        <4>1. ASSUME NEW i \in Moved, b = offset + sz - 1 - i PROVE FALSE
          <5>1. i \in Int /\ j \in Int
            BY <2>4, <2>6
          <5>2. i = j
            BY <5>1, <3>1, <4>1, <2>4
          <5>3. QED
            BY <5>2, <3>3, <2>6
        <4>2. buffer'[b] = buffer[b]
          BY <4>1, <2>7
        <4>3. QED
          BY <4>2, <3>1, <3>3, <2>8
      <3>4. QED
        BY <3>2, <3>3, <2>6
    <2>10. \A b \in 0 .. Top - 1 : b < offset => buffer'[b] = buffer[b]
      <3>1. \A b \in 0 .. Top - 1 : \A j \in Moved : b < offset => b # offset + sz - 1 - j
        BY <2>4, <2>6
      <3>2. QED
        BY <3>1, <2>7
    <2>11. CASE bits_remaining' = 0
      <3>1. offset' = offset + sz /\ k' = k + 1
        BY <2>1, <2>11
      <3>2. DataAt(offset, payload[k]) = offset
        BY <2>3 DEF DataAt, Member
      <3>3. InBuffer(payload, buffer', k, offset)
        <4>1. offset + sz <= Top
          BY <2>4, <2>5
        <4>2. \A j \in 0 .. sz - 1 : buffer'[offset + sz - 1 - j] = <<k, j>>
          BY <2>9, <2>11
        <4>3. QED
          BY <4>1, <4>2, <3>2, <2>4 DEF InBuffer
      <3>4. offset <= offset' /\ offset' <= offset + sz + 7 /\ offset + sz <= offset'
        BY <3>1, <2>4
      <3>5. offset' = EndInC(offset, payload[k])
        BY <3>1, <3>2, <2>4 DEF EndInC
      <3>6. QED
        BY <1>1, <2>1, <2>3, <2>4, <2>10, <2>11, <3>1, <3>2, <3>3, <3>4, <3>5, WriteAdvance
    <2>12. CASE bits_remaining' # 0
      <3>1. k' = k /\ offset' = offset
        BY <2>1, <2>12
      <3>2. LayoutInv'
        BY <1>1, <2>1, <2>2, <2>10, <3>1, LayoutStay DEF IInv
      <3>3. HalfWritten'
        BY <2>4, <2>9, <3>1 DEF HalfWritten
      <3>4. offset' <= Extent(payload')[k']
        BY <1>1, <2>4, <3>1 DEF IInv, WriterInv, Writing
      <3>5. QED
        BY <3>2, <3>3, <3>4 DEF IInv, WriterInv
    <2>13. QED
      BY <2>11, <2>12
  <1>4. QED
    BY <1>2, <1>3

\* The reader's loop takes each bit from where the writer put it.
LEMMA UnpackedBits ==
    ASSUME SizeInv, Unpack, HalfRead, Found
    PROVE  /\ bits_remaining' # 0 => HalfRead'
           /\ bits_remaining' = 0 => val' = Expected(k).data
  <1> DEFINE sz == Member.size
  <1>1. /\ mode = "read" /\ bits_remaining > 0 /\ NextIteration
        /\ val' = [j \in DOMAIN val |-> IF j \in Moved THEN BitAt(Place(j)) ELSE val[j]]
        /\ choice' = choice
        /\ bits_remaining' # 0 => k' = k
    BY DEF Unpack
  <1>2. /\ k <= Len(payload) /\ Member.kind = "bits"
        /\ \A j \in Moved : Place(j) = offset + sz - 1 - j
    BY <1>1, IterationFacts
  <1>3. /\ offset \in Nat /\ sz \in Nat /\ sz = payload[k].size /\ Top \in Nat /\ payload' = payload
        /\ DOMAIN buffer = 0 .. Top - 1 /\ sz > 0 /\ Length \in Nat
    <2>1. Member.size \in 1 .. 32
      BY <1>2, State
    <2>2. sz > 0
      BY <2>1
    <2>3. QED
      BY <1>1, <1>2, <2>2, State, LengthFacts DEF choice
  <1>4. /\ bits_remaining' \in Nat
        /\ \A j \in bits_remaining' .. sz - 1 :
               /\ j \in 0 .. sz - 1
               /\ j \in Moved \/ j \in bits_remaining .. sz - 1
        /\ \A j \in Moved : j \notin bits_remaining .. sz - 1 /\ j \in 0 .. sz - 1
    BY <1>1, MovedSoFar
  <1>5. DataAt(offset, payload[k]) = offset
    BY <1>2 DEF DataAt, Member
  <1>6. DOMAIN val = 0 .. sz - 1 /\ \A j \in bits_remaining .. sz - 1 : val[j] = <<k, j>>
    BY <1>1, <1>3 DEF HalfRead
  <1>7. /\ offset + sz <= Top /\ \A j \in 0 .. sz - 1 : buffer[offset + sz - 1 - j] = <<k, j>>
        /\ offset + sz <= Length
    BY <1>3, <1>5 DEF Found, InBuffer
  <1> HIDE DEF sz
  <1>8. ASSUME NEW j \in Moved PROVE BitAt(Place(j)) = <<k, j>>
    <2>1. Place(j) = offset + sz - 1 - j /\ j \in 0 .. sz - 1
      BY <1>2, <1>4
    <2>2. /\ offset + sz <= Top /\ offset \in Nat /\ sz \in Nat /\ Top \in Nat
          /\ offset + sz <= Length /\ Length \in Nat /\ j \in 0 .. sz - 1
      BY <1>3, <1>7, <2>1
    <2>3. offset + sz - 1 - j \in 0 .. Top - 1 /\ offset + sz - 1 - j < Length
      BY <2>2
    <2>4. QED
      BY <2>1, <2>3, <1>3, <1>7 DEF BitAt
  <1>9. DOMAIN val' = 0 .. sz - 1
    BY <1>1, <1>6
  <1>10. ASSUME NEW j \in bits_remaining' .. sz - 1 PROVE val'[j] = <<k, j>>
    <2>1. j \in DOMAIN val /\ (j \in Moved \/ j \in bits_remaining .. sz - 1)
      BY <1>4, <1>6
    <2>2. val'[j] = IF j \in Moved THEN BitAt(Place(j)) ELSE val[j]
      BY <1>1, <2>1
    <2>3. QED
      BY <2>1, <2>2, <1>6, <1>8
  <1>11. ASSUME bits_remaining' # 0 PROVE HalfRead'
    <2>1. k' = k /\ payload'[k'].size = sz
      BY <1>1, <1>3, <1>11
    <2>2. QED
      BY <2>1, <1>9, <1>10 DEF HalfRead
  <1>12. ASSUME bits_remaining' = 0 PROVE val' = Expected(k).data
    <2>1. val' = [j \in DOMAIN val' |-> val'[j]]
      BY <1>1
    <2>2. val' = [j \in 0 .. sz - 1 |-> <<k, j>>]
      BY <2>1, <1>9, <1>10, <1>12
    <2>3. QED
      BY <2>2, <1>3 DEF Expected
  <1>13. QED
    BY <1>11, <1>12

\* ... so the generated C code keeps up with it.
LEMMA UnpackKeeps ==
    ASSUME IInv, SizeInv', Unpack
    PROVE  IInv'
  <1> DEFINE e == [data |-> val', negative |-> reader = "CSharp" /\ high /\ Member.size < 32]
  <1>1. /\ mode = "read" /\ bits_remaining > 0
        /\ choice' = choice /\ mode' = mode /\ buffer' = buffer /\ end' = end
        /\ IF bits_remaining' = 0
           THEN offset' = offset + Member.size /\ k' = k + 1 /\ got' = Append(got, e)
           ELSE k' = k /\ offset' = offset /\ got' = got
    BY DEF Unpack, Advance
  <1>2. SizeInv
    BY DEF IInv
  <1>3. k <= Len(payload) /\ Member.kind = "bits"
    BY <1>1, <1>2, IterationFacts
  <1>4. CASE bits_remaining' = 0
    <2>1. offset' = offset + Member.size /\ k' = k + 1 /\ got' = Append(got, e)
      BY <1>1, <1>4
    <2>2. offset' = EndInC(offset, payload[k])
      BY <2>1, <1>3 DEF EndInC, DataAt, Member
    <2>3. ASSUME reader = "C", HalfRead, Found
          PROVE  e = Expected(k)
      <3>1. val' = Expected(k).data
        BY <1>2, <1>4, <2>3, UnpackedBits
      <3>2. e.negative = FALSE
        BY <2>3
      <3>3. QED
        BY <3>1, <3>2 DEF Expected
    <2> HIDE DEF e
    <2>4. QED
      BY <1>1, <1>3, <1>4, <2>1, <2>2, <2>3, ReadAdvance DEF COnly
  <1>5. CASE bits_remaining' # 0
    <2>1. k' = k /\ offset' = offset /\ got' = got
      BY <1>1, <1>5
    <2>2. ASSUME HalfRead, Found PROVE HalfRead'
      BY <1>2, <1>5, <2>2, UnpackedBits
    <2>3. QED
      BY <1>1, <1>3, <2>1, <2>2, ReadStay
  <1>6. QED
    BY <1>4, <1>5
-----------------------------------------------------------------------------
\* The reader begins where the writer began.
LEMMA TransferKeeps ==
    ASSUME IInv, SizeInv', Transfer
    PROVE  IInv'
  <1>0. CASE Fail
    BY <1>0, FailKeeps
  <1> SUFFICES ASSUME ~ Fail PROVE IInv'
    BY <1>0
  <1>1. /\ mode = "write" /\ k > Len(payload) /\ mode' = "read" /\ k' = 1 /\ offset' = 0
        /\ choice' = choice /\ buffer' = buffer /\ end' = offset /\ got' = got
        /\ bits_remaining' = bits_remaining
    BY DEF Transfer, loop
  <1>2. SizeInv /\ LayoutInv
    BY DEF IInv
  <1>3. PICK off \in Offsets : IsLayout(off)
    BY <1>1, <1>2 DEF LayoutInv
  <1>4. off \in Offsets' /\ IsLayout(off)'
    BY <1>1, <1>2, <1>3, LayoutSame
  <1>5. ~ (bits_remaining > 0)
    <2>1. Len(payload) \in Nat /\ k \in 1 .. Len(payload) + 1
      BY <1>2, State
    <2>2. QED
      BY <1>1, <1>2, <2>1 DEF SizeInv, LoopInv
  <1>6. HalfRead'
    BY <1>1, <1>5 DEF HalfRead
  <1>7. got = <<>>
    BY <1>1, <1>2 DEF SizeInv, GotInv
  <1>8. off[k'] = offset'
    BY <1>1, <1>3 DEF IsLayout
  <1>9. Follows(off)'
    BY <1>1, <1>6, <1>7, <1>8 DEF Follows
  <1>10. LayoutInv'
    BY <1>4, <1>9 DEF LayoutInv
  <1>11. WriterInv'
    BY <1>1 DEF WriterInv, Writing
  <1>12. QED
    BY <1>10, <1>11 DEF IInv

\* Nothing has been written at first.
LEMMA InitIInv == Init => IInv
  <1> SUFFICES ASSUME Init PROVE IInv
    OBVIOUS
  <1>1. SizeInv
    BY InitSize
  <1>2. /\ mode = "begin" /\ k = 1 /\ offset = 0 /\ bits_remaining = 0 /\ got = <<>>
        /\ payload \in Payloads
    BY DEF Init
  <1>3. Len(payload) \in Nat
    BY <1>2, PayloadFacts
  <1>4. PICK off \in Offsets : off[1] = 0
    <2> DEFINE z == [i \in 1 .. Len(payload) + 1 |-> 0]
    <2>1. z \in Offsets
      BY DEF Offsets
    <2>2. z[1] = 0
      BY <1>3
    <2>3. QED
      BY <2>1, <2>2
  <1>5. Written = {}
    BY <1>2 DEF Written, Writing
  <1>6. IsLayout(off)
    BY <1>2, <1>4, <1>5 DEF IsLayout
  <1>7. Follows(off)
    BY <1>2 DEF Follows
  <1>8. LayoutInv
    BY <1>6, <1>7 DEF LayoutInv
  <1>9. WriterInv
    BY <1>2, ExtentSteps DEF WriterInv, HalfWritten
  <1>10. QED
    BY <1>1, <1>8, <1>9 DEF IInv

\* Nothing changes, or a writer gets its buffer.
LEMMA SameKeeps ==
    ASSUME IInv, SizeInv', UNCHANGED <<choice, k, offset, buffer, end, bits_remaining, val, got>>,
           mode' = mode \/ (mode = "begin" /\ mode' = "write")
    PROVE  IInv'
  <1>1. UNCHANGED <<writer, reader, payload>>
    BY DEF choice
  <1>2. Settled' => Settled
    BY <1>1, SettledStays
  <1>3. /\ Writing' <=> Writing
        /\ mode' = "read" <=> mode = "read"
        /\ mode' = "failed" <=> mode = "failed"
    BY DEF Writing
  <1>4. Written' = Written /\ Reached' = Reached /\ Offsets' = Offsets /\ (COnly' <=> COnly)
    BY <1>1, <1>3 DEF Written, Reached, Offsets, COnly, MessageBodyLimit
  <1>5. LayoutInv'
    BY <1>1, <1>2, <1>3, <1>4 DEF IInv, LayoutInv, IsLayout, Follows, HalfRead, Expected
  <1>6. WriterInv'
    BY <1>1, <1>3 DEF IInv, WriterInv, HalfWritten
  <1>7. QED
    BY <1>5, <1>6 DEF IInv

\* Every step preserves it.
LEMMA NextIInv == IInv /\ TrackInv /\ [Next]_vars => IInv'
  <1> SUFFICES ASSUME IInv, TrackInv, [Next]_vars PROVE IInv'
    OBVIOUS
  <1>1. SizeInv'
    BY SizeStep DEF IInv
  <1>2. CASE Boundary
    BY <1>1, <1>2, BoundaryKeeps
  <1>3. CASE WriteWhole
    BY <1>1, <1>3, WriteWholeKeeps
  <1>4. CASE ReadWhole
    BY <1>1, <1>4, ReadWholeKeeps
  <1>5. CASE BeginBits
    BY <1>1, <1>5, BeginBitsKeeps
  <1>6. CASE Pack
    BY <1>1, <1>6, PackKeeps
  <1>7. CASE Unpack
    BY <1>1, <1>7, UnpackKeeps
  <1>8. CASE Transfer
    BY <1>1, <1>8, TransferKeeps
  <1>9. CASE Finish
    <2>1. /\ mode = "read" /\ mode' = "done" /\ choice' = choice /\ k' = k /\ offset' = offset
          /\ buffer' = buffer /\ end' = end /\ got' = got
      BY <1>9 DEF Finish
    <2>2. QED
      BY <1>1, <2>1, ReadStay
  <1>10. CASE UNCHANGED vars
    <2>1. UNCHANGED <<choice, k, offset, buffer, end, bits_remaining, val, got>> /\ mode' = mode
      BY <1>10 DEF vars, loop
    <2>2. QED
      BY <1>1, <2>1, SameKeeps
  <1>11. CASE InitBuffer
    <2>1. CASE Fail
      BY <1>1, <2>1, FailKeeps
    <2>2. CASE ~ Fail
      <3>1. /\ UNCHANGED <<choice, k, offset, buffer, end, bits_remaining, val, got>>
            /\ mode = "begin" /\ mode' = "write"
        BY <1>11, <2>2 DEF InitBuffer, loop
      <3>2. QED
        BY <1>1, <3>1, SameKeeps
    <2>3. QED
      BY <2>1, <2>2
  <1>12. QED
    BY <1>2, <1>3, <1>4, <1>5, <1>6, <1>7, <1>8, <1>9, <1>10, <1>11 DEF Next

\* The offsets that the writer came to its members at show where each is.
LEMMA WrittenWhole == IInv => MembersWritten
  <1> SUFFICES ASSUME IInv, mode \in {"read", "done"}, NEW i \in DOMAIN payload
               PROVE  \E at \in 0 .. Top - payload[i].size :
                         \A j \in 0 .. payload[i].size - 1 :
                            buffer[at + payload[i].size - 1 - j] = <<i, j>>
    BY DEF MembersWritten
  <1> DEFINE sz == payload[i].size
  <1>1. PICK off \in Offsets : IsLayout(off)
    BY DEF IInv, LayoutInv
  <1>2. /\ DOMAIN payload = 1 .. Len(payload) /\ Len(payload) \in Nat /\ payload \in Payloads
        /\ DOMAIN buffer = 0 .. Top - 1 /\ Top \in Nat
    BY State DEF IInv
  <1>3. sz \in Nat
    BY <1>2, PayloadFacts
  <1>4. off[i] \in Nat
    BY <1>1, <1>2 DEF Offsets
  <1>5. InBuffer(payload, buffer, i, off[i])
    BY <1>1 DEF IsLayout, Written, Writing
  <1>6. PICK at : at = DataAt(off[i], payload[i])
    OBVIOUS
  <1>7. at \in Nat
    BY <1>4, <1>6, DataAtType
  <1>8. CASE sz > 0
    <2>1. at + sz <= Top /\ \A j \in 0 .. sz - 1 : buffer[at + sz - 1 - j] = <<i, j>>
      BY <1>5, <1>6, <1>8 DEF InBuffer
    <2> HIDE DEF sz
    <2>2. at \in 0 .. Top - sz
      BY <2>1, <1>2, <1>3, <1>7
    <2>3. QED
      BY <2>1, <2>2 DEF sz
  <1>9. CASE sz = 0
    <2>1. 0 \in 0 .. Top - sz /\ \A j : j \notin 0 .. sz - 1
      BY <1>2, <1>9
    <2>2. QED
      BY <2>1
  <1>10. QED
    BY <1>3, <1>8, <1>9

\* The invariant of writing and reading.
THEOREM Invariance == Spec => [](IInv /\ TrackInv)
  <1>1. Init => IInv /\ TrackInv
    BY InitIInv, TrackInit
  <1>2. IInv /\ TrackInv /\ [Next]_vars => (IInv /\ TrackInv)'
    BY NextIInv, TrackNext DEF IInv
  <1>3. QED
    BY <1>1, <1>2, PTL DEF Spec

\* For every payload and every language: once the payload is sent, every member
\* is in it whole, in bits next to each other (pack_payload, the store functions
\* and Serialize with the loop over the bytes of a bit member).
THEOREM MembersAreWritten == Spec => []MembersWritten
  BY Invariance, WrittenWhole, PTL

\* For every payload whose length fits in the header: what the generated C store
\* functions write, the generated load functions read as it was, whatever is
\* aligned in between.
THEOREM CReadsItsOwn == Spec => []CReadsC
  <1>1. IInv => CReadsC
    <2> SUFFICES ASSUME IInv, COnly, mode = "done"
                 PROVE  \A i \in DOMAIN payload : got[i] = Expected(i)
      BY DEF CReadsC, Received, COnly
    <2>1. PICK off \in Offsets : Follows(off)
      BY DEF IInv, LayoutInv
    <2>2. Len(got) = Len(payload) /\ DOMAIN payload = 1 .. Len(payload)
      BY State DEF IInv, SizeInv, GotInv
    <2>3. QED
      BY <2>1, <2>2 DEF Follows
  <1>2. QED
    BY <1>1, Invariance, PTL
-----------------------------------------------------------------------------
(* Readers and writers in different languages.                              *)

\* What makes SettledPayloadsAgree inductive: nobody fails, the message is as long
\* as what was written, and what the reader has is what was written.
Agrees ==
    /\ mode # "failed"
    /\ mode = "read" => HalfRead
    /\ mode \in {"read", "done"} => end <= Length
    /\ \A i \in 1 .. Len(got) : got[i] = Expected(i)
SettledInv == Settled /\ CSharpHolds /\ Fits => Agrees

\* A reader that is on track finds the member where it is.
LEMMA ReaderFinds ==
    ASSUME IInv, TrackInv, Settled, mode = "read", end <= Length, k <= Len(payload)
    PROVE  Found
  <1>1. PICK off \in Offsets : IsLayout(off)
    BY DEF IInv, LayoutInv
  <1>2. /\ k \in DOMAIN payload /\ payload \in Payloads /\ payload[k].size \in Nat
        /\ offset \in Nat /\ end \in Nat
    BY State DEF IInv
  <1>3. /\ OnTrack(payload, k, off[k]) /\ InBuffer(payload, buffer, k, off[k])
        /\ payload[k].size > 0 => DataAt(off[k], payload[k]) + payload[k].size <= end
    BY <1>1, <1>2 DEF IsLayout, Written, Reached, Writing
  <1>4. OnTrack(payload, k, offset)
    BY DEF TrackInv
  <1>5. InBuffer(payload, buffer, k, offset)
    BY <1>2, <1>3, <1>4, TrackInBuffer
  <1>6. DataAt(offset, payload[k]) = DataAt(off[k], payload[k])
    BY <1>2, <1>3, <1>4, TrackData
  <1>7. DataAt(offset, payload[k]) \in Nat /\ Length \in Nat
    BY <1>2, DataAtType, LengthFacts DEF IInv
  <1> DEFINE n == DataAt(offset, payload[k]) + payload[k].size
  <1>8. n \in Nat /\ (payload[k].size > 0 => n <= end)
    BY <1>2, <1>3, <1>6, <1>7
  <1> HIDE DEF n
  <1>9. n <= end => n <= Length
    BY <1>2, <1>7, <1>8
  <1>10. QED
    BY <1>5, <1>8, <1>9 DEF Found, n

\* The length of the message and the room for it depend on the payload and on
\* where the writer has ended.
LEMMA LengthStays ==
    ASSUME payload' = payload
    PROVE  /\ BodySize' = BodySize
           /\ Fits' <=> Fits
           /\ writer' = writer /\ end' = end => Length' = Length
           /\ Length' = IF writer' = "CSharp" THEN BodySize
                                             ELSE 32 * (Words(end') % (MaxWords + 1))
  <1>1. GetObjectSize' = GetObjectSize
    BY DEF GetObjectSize
  <1>2. BodySize' = BodySize
    BY <1>1 DEF BodySize, Words
  <1>3. Length' = IF writer' = "CSharp" THEN BodySize
                                        ELSE 32 * (Words(end') % (MaxWords + 1))
    BY <1>2 DEF Length, Words
  <1>4. QED
    BY <1>1, <1>2, <1>3 DEF Fits, MessageBodyLimit, Length

\* The reader has one member more.
LEMMA AgreesAppend ==
    ASSUME SizeInv, Agrees, mode = "read", mode' = "read", payload' = payload,
           writer' = writer, end' = end, k <= Len(payload), bits_remaining' = 0, got' = Append(got, Expected(k))
    PROVE  Agrees'
  <1>1. PICK S : got \in Seq(S)
    BY DEF SizeInv, GotInv
  <1>2. Len(got) = k - 1 /\ k \in Nat
    BY State DEF SizeInv, GotInv
  <1>3. PICK e : e = Expected(k)
    OBVIOUS
  <1> DEFINE U == S \cup {e}
  <1>4. got \in Seq(U) /\ e \in U
    BY <1>1
  <1> HIDE DEF U
  <1>5. Len(got') = k /\ (\A i \in 1 .. k - 1 : got'[i] = got[i]) /\ got'[k] = e
    BY <1>2, <1>3, <1>4
  <1>6. ASSUME NEW i \in 1 .. Len(got') PROVE got'[i] = Expected(i)
    <2>1. CASE i = k
      BY <2>1, <1>3, <1>5
    <2>2. CASE i # k
      <3>1. i \in 1 .. k - 1
        BY <2>2, <1>2, <1>5
      <3>2. QED
        BY <3>1, <1>2, <1>5 DEF Agrees
    <2>3. QED
      BY <2>1, <2>2
  <1>7. \A i \in 1 .. Len(got') : got'[i] = Expected(i)'
    BY <1>6 DEF Expected
  <1>8. HalfRead'
    BY DEF HalfRead
  <1>9. end' <= Length'
    BY LengthStays DEF Agrees
  <1>10. QED
    BY <1>7, <1>8, <1>9 DEF Agrees

\* The reader has nothing new.
LEMMA AgreesStays ==
    ASSUME Agrees, mode' # "failed", payload' = payload, writer' = writer, got' = got,
           mode' = "read" => HalfRead',
           \/ mode' = "write"
           \/ mode \in {"read", "done"} /\ end' = end
           \/ end' <= Length'
    PROVE  Agrees'
  <1>1. \A i \in 1 .. Len(got') : got'[i] = Expected(i)'
    BY DEF Agrees, Expected
  <1>2. ASSUME mode' \in {"read", "done"} PROVE end' <= Length'
    BY <1>2, LengthStays DEF Agrees
  <1>3. QED
    BY <1>1, <1>2 DEF Agrees

\* A buffer that fits in a message has room enough in Python, too.
LEMMA NoOverrun ==
    ASSUME SizeInv, Fits, NEW n \in Nat, n <= BodySize
    PROVE  ~ Overruns(n) /\ n <= MessageBodyLimit
  <1>1. PICK T \in Nat : T = GetObjectSize
    BY CSharpRoom
  <1>2. PICK w \in Nat : w = Words(T) /\ 32 * w <= T + 31
    BY WordsOf
  <1>3. BodySize = 32 * w
    BY <1>1, <1>2 DEF BodySize
  <1>4. PICK m \in Nat : m = MaxWords /\ MessageBodyLimit = 32 * m
    BY LimitsAssumption DEF MessageBodyLimit
  <1>5. w <= m
    BY <1>1, <1>2, <1>4 DEF Fits
  <1>6. n <= 32 * w /\ n <= 32 * m /\ n <= PackBuffer
    BY <1>3, <1>4, <1>5, LimitsAssumption
  <1>7. QED
    BY <1>3, <1>4, <1>6, LimitsAssumption DEF Overruns

\* What ends, up to alignment, where the members before member i end, ends in the
\* buffer that C# makes.
LEMMA AlignedFits ==
    ASSUME SizeInv, NEW i \in 0 .. Len(payload)
    PROVE  byte_align(Total(payload, i)) <= BodySize
  <1>1. PICK T \in Nat : T = Total(payload, i) /\ T <= BodySize
    BY CSharpRoom
  <1>2. PICK w \in Nat : BodySize = 32 * w
    BY CSharpRoom
  <1>3. PICK q \in Nat : byte_align(T) = 8 * q /\ 8 * q <= T + 7
    BY AlignedByte
  <1>4. 8 * q <= 8 * (4 * w)
    BY <1>1, <1>2, <1>3
  <1>5. QED
    BY <1>1, <1>2, <1>3, <1>4

\* A writer never runs out of a buffer of that size.
LEMMA WholeFits ==
    ASSUME SizeInv, TrackInv, Settled, mode = "write", k <= Len(payload),
           Member.kind \in {"num", "list"}
    PROVE  byte_align(offset) + Member.size <= BodySize
  <1>1. /\ payload \in Payloads /\ k \in DOMAIN payload /\ Member = payload[k]
        /\ DOMAIN payload = 1 .. Len(payload) /\ Len(payload) \in Nat
        /\ payload[k].size \in Nat
    BY State
  <1>2. k \in 0 .. Len(payload) /\ k - 1 \in 0 .. Len(payload)
    BY <1>1
  <1>3. payload[k].size % 8 = 0
    BY <1>1, PayloadsAssumption
  <1>4. PICK T \in Nat : T = Total(payload, k - 1)
    BY <1>1, <1>2, TotalSteps
  <1>5. byte_align(offset) = byte_align(T)
    BY <1>4 DEF TrackInv, OnTrack
  <1>6. Total(payload, k) = T + payload[k].size
    BY <1>1, <1>4, TotalSteps
  <1>7. byte_align(T + payload[k].size) = byte_align(T) + payload[k].size
    BY <1>1, <1>3, AlignedPlus
  <1>8. QED
    BY <1>1, <1>2, <1>5, <1>6, <1>7, AlignedFits

\* ... nor where it ends.
LEMMA EndFits ==
    ASSUME SizeInv, TrackInv, Settled, mode = "write", k > Len(payload)
    PROVE  offset <= BodySize
  <1>1. /\ Len(payload) \in 0 .. Len(payload) /\ k - 1 = Len(payload) /\ offset \in Nat
        /\ byte_align(offset) \in Nat /\ offset <= byte_align(offset)
    BY State
  <1>2. byte_align(offset) = byte_align(Total(payload, Len(payload)))
    BY <1>1 DEF TrackInv, OnTrack
  <1>3. PICK w \in Nat : BodySize = 32 * w
    BY CSharpRoom
  <1>4. byte_align(offset) <= 32 * w
    BY <1>1, <1>2, <1>3, AlignedFits
  <1>5. QED
    BY <1>1, <1>3, <1>4

\* ... nor in the middle of a bit member.
LEMMA BitsFit ==
    ASSUME SizeInv, TrackInv, Settled, mode = "write", bits_remaining > 0
    PROVE  8 * (byte_index + 1) <= BodySize
  <1>1. k <= Len(payload) /\ Member.kind = "bits" /\ bits_remaining <= Member.size
        /\ bit_position = offset + (Member.size - bits_remaining)
        /\ byte_index = bit_position \div 8
    BY DEF SizeInv, LoopInv, Member
  <1>2. /\ payload \in Payloads /\ k \in DOMAIN payload /\ Member = payload[k]
        /\ DOMAIN payload = 1 .. Len(payload) /\ Len(payload) \in Nat
        /\ payload[k].size \in Nat /\ bit_position \in Nat /\ byte_index \in Nat
        /\ offset \in Nat /\ bits_remaining \in 0 .. 32
    BY <1>1, State
  <1>3. BitsFrom(payload, k)
    <2>1. k <= k /\ payload[k].kind = "bits"
      BY <1>1, <1>2
    <2>2. QED
      BY <2>1, <1>2 DEF BitsFrom
  <1>4. offset = Total(payload, k - 1)
    BY <1>3 DEF TrackInv, OnTrack
  <1> DEFINE sz == payload[k].size
  <1>5. Total(payload, k) = offset + sz
    BY <1>2, <1>4, TotalSteps
  <1>6. PICK w \in Nat : BodySize = 32 * w /\ offset + sz <= 32 * w
    <2>1. k \in 0 .. Len(payload)
      BY <1>2
    <2>2. QED
      BY <2>1, <1>5, CSharpRoom
  <1>7. 8 * byte_index <= bit_position
    <2>0. bit_position \in Nat
      BY <1>2
    <2>1. bit_position = 8 * (bit_position \div 8) + (bit_position % 8) /\ bit_position % 8 \in 0 .. 7
      BY <2>0, DivMod
    <2>2. PICK r \in 0 .. 7 : bit_position = 8 * byte_index + r
      BY <2>1, <1>1
    <2>3. QED
      BY <2>2, <1>2
  <1>8. /\ sz \in Nat /\ bits_remaining \in Nat /\ bits_remaining <= sz
        /\ bit_position = offset + (sz - bits_remaining)
    BY <1>1, <1>2
  <1> HIDE DEF sz
  <1>9. bit_position < 32 * w
    BY <1>2, <1>6, <1>8
  <1>10. QED
    BY <1>2, <1>6, <1>7, <1>9

\* Nobody has failed and nothing has been read at first.
LEMMA SettledInit == Init => SettledInv
  BY DEF Init, SettledInv, Agrees

\* Nobody fails and everybody agrees after every step.
LEMMA SettledNext == IInv /\ TrackInv /\ SettledInv /\ [Next]_vars => SettledInv'
  <1> SUFFICES ASSUME IInv, TrackInv, SettledInv, [Next]_vars, Settled', CSharpHolds', Fits'
               PROVE  Agrees'
    BY DEF SettledInv
  <1>1. choice' = choice
    BY DEF Next, InitBuffer, Boundary, WriteWhole, ReadWhole, BeginBits, Pack, Unpack, Transfer,
           Finish, Fail, vars
  <1>2. UNCHANGED <<writer, reader, payload, high>>
    BY <1>1 DEF choice
  <1>3. Settled /\ CSharpHolds /\ Fits
    BY <1>2, SettledStays, LengthStays DEF CSharpHolds
  <1>4. Agrees /\ SizeInv /\ mode # "failed"
    BY <1>3 DEF SettledInv, Agrees, IInv
  <1>5. /\ k \in 1 .. Len(payload) + 1 /\ Len(payload) \in Nat /\ bits_remaining \in 0 .. 32
        /\ k <= Len(payload) => k \in DOMAIN payload /\ Member = payload[k]
    BY <1>4, State
  <1>6. ASSUME k <= Len(payload), Member.kind # "bits" PROVE bits_remaining = 0
    <2>1. ~ (bits_remaining > 0)
      BY <1>4, <1>6 DEF SizeInv, LoopInv, Member
    <2>2. QED
      BY <2>1, <1>5
  <1>7. CASE Boundary
    <2>1. /\ mode' = mode /\ k <= Len(payload) /\ Member.kind # "bits"
          /\ mode \in {"write", "read"} /\ bits_remaining' = bits_remaining /\ end' = end
          /\ got' = IF mode = "read" THEN Append(got, Expected(k)) ELSE got
      BY <1>7 DEF Boundary, Advance, loop
    <2>2. bits_remaining' = 0
      BY <2>1, <1>6
    <2>3. CASE mode = "read"
      BY <2>1, <2>2, <2>3, <1>2, <1>4, AgreesAppend
    <2>4. CASE mode = "write"
      BY <2>1, <2>4, <1>2, <1>4, AgreesStays
    <2>5. QED
      BY <2>1, <2>3, <2>4
  <1>8. CASE WriteWhole
    <2>1. mode = "write" /\ k <= Len(payload) /\ Member.kind \in {"num", "list"}
      BY <1>8 DEF WriteWhole
    <2>2. ~ Overruns(byte_align(offset) + Member.size)
      <3>1. PICK n \in Nat : n = byte_align(offset) + Member.size
        BY <2>1, <1>4, State
      <3>2. n <= BodySize
        BY <3>1, <2>1, <1>3, <1>4, WholeFits
      <3>3. QED
        BY <3>1, <3>2, <1>3, <1>4, NoOverrun
    <2>3. mode' = mode /\ got' = got
      BY <2>1, <2>2, <1>8 DEF WriteWhole
    <2>4. QED
      BY <2>1, <2>3, <1>2, <1>4, AgreesStays
  <1>9. CASE ReadWhole
    <2>1. /\ mode = "read" /\ mode' = mode /\ k <= Len(payload) /\ Member.kind \in {"num", "list"}
          /\ got' = Append(got, Loaded(byte_align(offset), Member))
          /\ bits_remaining' = bits_remaining /\ end' = end
      BY <1>9 DEF ReadWhole, Advance, loop
    <2>2. bits_remaining' = 0
      BY <2>1, <1>6
    <2>3. Found
      BY <2>1, <1>3, <1>4, ReaderFinds DEF Agrees
    <2>4. Loaded(byte_align(offset), Member) = Expected(k)
      BY <2>1, <2>3, <1>4, LoadedWhole
    <2>5. QED
      BY <2>1, <2>2, <2>4, <1>2, <1>4, AgreesAppend
  <1>10. CASE BeginBits
    <2>1. mode \in {"write", "read"} /\ k <= Len(payload) /\ Member.kind = "bits"
      BY <1>10 DEF BeginBits
    <2>2. ~ IntegerToBitsThrows
      BY <2>1, <1>3, <1>5 DEF CSharpHolds, IntegerToBitsThrows
    <2>3. /\ mode' = mode /\ got' = got /\ k' = k /\ end' = end /\ bits_remaining' = Member.size
          /\ val' = [j \in 0 .. Member.size - 1 |-> Nothing]
      BY <2>2, <1>10 DEF BeginBits
    <2>4. HalfRead'
      <3>1. payload'[k'] = Member /\ Member.size \in Nat
        BY <2>1, <2>3, <1>2, <1>4, <1>5, State
      <3>2. \A j : j \notin bits_remaining' .. payload'[k'].size - 1
        BY <2>3, <3>1
      <3>3. QED
        BY <3>1, <3>2, <2>3 DEF HalfRead
    <2>5. QED
      BY <2>1, <2>3, <2>4, <1>2, <1>4, AgreesStays
  <1>11. CASE Pack
    <2>1. mode = "write" /\ bits_remaining > 0
      BY <1>11 DEF Pack
    <2>2. ~ Overruns(8 * (byte_index + 1))
      <3>1. PICK n \in Nat : n = 8 * (byte_index + 1)
        BY <1>4, State
      <3>2. n <= BodySize
        BY <3>1, <2>1, <1>3, <1>4, BitsFit
      <3>3. QED
        BY <3>1, <3>2, <1>3, <1>4, NoOverrun
    <2>3. mode' = mode /\ got' = got
      BY <2>1, <2>2, <1>11 DEF Pack, BITS_PER_BYTE
    <2>4. QED
      BY <2>1, <2>3, <1>2, <1>4, AgreesStays
  <1>12. CASE Unpack
    <2> DEFINE e == [data |-> val', negative |-> reader = "CSharp" /\ high /\ Member.size < 32]
    <2>1. /\ mode = "read" /\ mode' = mode /\ bits_remaining > 0 /\ end' = end
          /\ IF bits_remaining' = 0 THEN got' = Append(got, e) ELSE got' = got
      BY <1>12 DEF Unpack
    <2>2. k <= Len(payload) /\ Member.kind = "bits"
      BY <2>1, <1>4, IterationFacts
    <2>3. HalfRead /\ Found
      BY <2>1, <2>2, <1>3, <1>4, ReaderFinds DEF Agrees
    <2>4. CASE bits_remaining' = 0
      <3>1. val' = Expected(k).data
        BY <2>3, <2>4, <1>4, <1>12, UnpackedBits
      <3>2. e.negative = FALSE
        <4>1. reader = "CSharp" => ~ high \/ Member.size = 32
          BY <2>2, <1>3, <1>5 DEF CSharpHolds
        <4>2. ~ (reader = "CSharp" /\ high /\ Member.size < 32)
          BY <4>1
        <4>3. QED
          BY <4>2
      <3>3. e = Expected(k)
        BY <3>1, <3>2 DEF Expected
      <3> HIDE DEF e
      <3>4. QED
        BY <3>3, <2>1, <2>2, <2>4, <1>2, <1>4, AgreesAppend
    <2>5. CASE bits_remaining' # 0
      <3>1. HalfRead'
        BY <2>3, <2>5, <1>4, <1>12, UnpackedBits
      <3>2. QED
        BY <3>1, <2>1, <2>5, <1>2, <1>4, AgreesStays
    <2>6. QED
      BY <2>4, <2>5
  <1>13. CASE Transfer
    <2>1. mode = "write" /\ k > Len(payload)
      BY <1>13 DEF Transfer
    <2>2. PICK n \in Nat : n = offset
      BY <1>4, State
    <2>3. n <= BodySize
      BY <2>1, <2>2, <1>3, <1>4, EndFits
    <2>4. n <= MessageBodyLimit
      BY <2>3, <1>3, <1>4, NoOverrun
    <2>5. Words(n) <= MaxWords /\ n <= 32 * (Words(n) % (MaxWords + 1)) /\ Words(n) \in Nat
      BY <2>4, LengthCovers, WordsOf
    <2>6. /\ mode' = "read" /\ end' = n /\ got' = got /\ bits_remaining' = bits_remaining
      BY <2>2, <2>5, <1>13, LimitsAssumption DEF Transfer, loop
    <2>7. ~ (bits_remaining > 0)
      BY <2>1, <1>4, <1>5 DEF SizeInv, LoopInv
    <2>8. HalfRead'
      BY <2>6, <2>7 DEF HalfRead
    <2>9. end' <= Length'
      BY <2>3, <2>5, <2>6, <1>2, LengthStays
    <2>10. QED
      BY <2>6, <2>8, <2>9, <1>2, <1>4, AgreesStays
  <1>14. CASE Finish
    <2>1. mode = "read" /\ mode' = "done" /\ got' = got /\ end' = end
      BY <1>14 DEF Finish
    <2>2. QED
      BY <2>1, <1>2, <1>4, AgreesStays
  <1>15. CASE UNCHANGED vars
    <2>1. UNCHANGED <<mode, k, end, bits_remaining, val, got>>
      BY <1>15 DEF vars, loop
    <2>2. HalfRead' <=> HalfRead
      BY <2>1, <1>2 DEF HalfRead
    <2>3. \A i \in 1 .. Len(got') : got'[i] = Expected(i)'
      BY <2>1, <1>2, <1>4 DEF Agrees, Expected
    <2>4. QED
      BY <2>1, <2>2, <2>3, <1>2, <1>4, LengthStays DEF Agrees
  <1>16. CASE InitBuffer
    <2>1. PICK n \in Nat : n = GetObjectSize
      BY <1>4, CSharpRoom
    <2>2. PICK m \in Nat : m = MessageBodyLimit
      BY LimitsAssumption DEF MessageBodyLimit
    <2>3. n <= m
      BY <2>1, <2>2, <1>3 DEF Fits
    <2>4. mode' = "write" /\ got' = got
      BY <2>1, <2>2, <2>3, <1>16 DEF InitBuffer
    <2>5. QED
      BY <2>4, <1>2, <1>4, AgreesStays
  <1>17. QED
    BY <1>7, <1>8, <1>9, <1>10, <1>11, <1>12, <1>13, <1>14, <1>15, <1>16 DEF Next

\* For every payload that fits in a message, whose bit members come in whole
\* bytes, save for the last ones, and whose values the C# types hold: whatever
\* language writes it and whatever language reads it, InitBuffer, the serializers
\* and Header.pack throw nothing, no writer leaves its buffer, and the reader gets
\* what was written (pack_payload and unpack_payload, the store and load
\* functions, Serialize and Deserialize).
THEOREM LanguagesAgree == Spec => []SettledPayloadsAgree
  <1>1. IInv /\ SettledInv => SettledPayloadsAgree
    <2> SUFFICES ASSUME IInv, SettledInv, Settled, CSharpHolds, Fits
                 PROVE  mode # "failed" /\ Received
      BY DEF SettledPayloadsAgree
    <2>1. Agrees
      BY DEF SettledInv
    <2>2. ASSUME mode = "done" PROVE \A i \in DOMAIN payload : got[i] = Expected(i)
      <3>1. Len(got) = Len(payload) /\ DOMAIN payload = 1 .. Len(payload)
        BY <2>2, State DEF IInv, SizeInv, GotInv
      <3>2. QED
        BY <2>1, <3>1 DEF Agrees
    <2>3. QED
      BY <2>1, <2>2 DEF Agrees, Received
  <1>2. QED
    BY <1>1, Invariance, SettledInit, SettledNext, PTL DEF Spec
=============================================================================
