------------------------------- MODULE Serdes -------------------------------
(***************************************************************************)
(* How the three languages lay the members of a payload out in bits: a     *)
(* writer serializes a payload member by member, a reader deserializes it. *)
(* Writers and readers are the Python pack_payload and unpack_payload, the *)
(* store and load functions that CCodeGenerator generates, and the C#      *)
(* Serialization.  The loop that packs and unpacks bit precise integers is *)
(* the same in all three, and is modelled iteration by iteration.          *)
(*                                                                         *)
(* A payload is one structure, the sequence of its members; a structure    *)
(* in it is the members between "open" and "close".  Data is abstract: a   *)
(* bit in the buffer is <<k, j>>, bit j of member k, with bit 0 the        *)
(* lowest.                                                                 *)
(***************************************************************************)
EXTENDS Integers, Sequences, Functions

CONSTANTS
    Writers, Readers,   \* languages
    Payloads,           \* sequences of members
    MaxWords,           \* 255: the length field of the header is a byte
    PackBuffer,         \* bits of the bytearray(1024) that pack_payload fills
    Top                 \* bound: bits of the longest payload

Languages == {"Python", "C", "CSharp"}

\* Members: a BitU, a number of whole bytes, and a list, string or byte string
\* with the two bytes of its length.
bits(n) == [kind |-> "bits", size |-> n]
num(n) == [kind |-> "num", size |-> 8 * n]
list(n) == [kind |-> "list", size |-> 16 + 8 * n]
open == [kind |-> "open", size |-> 0]
close == [kind |-> "close", size |-> 0]

\* Where the members of a payload end at the latest: each may be aligned.
Extent(p) ==
    LET end[i \in 1 .. Len(p) + 1] == IF i = 1 THEN 0 ELSE end[i - 1] + p[i - 1].size + 7
    IN  end

ASSUME PayloadsAssumption ==
    /\ Writers \subseteq Languages
    /\ Readers \subseteq Languages
    /\ Top \in Nat
    /\ \A p \in Payloads :
          /\ p \in Seq([kind : {"bits", "num", "list", "open", "close"}, size : Nat])
          /\ \A k \in DOMAIN p :
                /\ p[k].kind = "bits" => p[k].size \in 1 .. 32
                /\ p[k].kind \in {"num", "list"} => p[k].size % 8 = 0
                /\ p[k].kind \in {"open", "close"} => p[k].size = 0
          /\ \A k \in 1 .. Len(p) + 1 : Extent(p)[k] <= Top

\* The largest message fits in Python's buffer.
ASSUME LimitsAssumption ==
    /\ MaxWords \in Nat
    /\ PackBuffer \in Nat
    /\ 32 * MaxWords <= PackBuffer

VARIABLES
    writer, reader, payload,
    high,           \* the values of the bit members have their highest bit set
    mode,           \* begin, write, read, done, or failed: an exception
    k,              \* the member that is next
    offset,         \* in bits
    buffer,         \* what is at each bit, the highest bit of a byte first
    end,            \* where the writer has ended, in bits
    bits_remaining, byte_index, bit_position,   \* of the loop
    val,            \* what the loop of the reader has so far
    got             \* what the reader has made of each member

choice == <<writer, reader, payload, high>>
loop == <<bits_remaining, byte_index, bit_position>>
vars == <<choice, mode, k, offset, buffer, end, loop, val, got>>

Nothing == <<0, 0>>
Member == payload[k]
Language == IF mode = "write" THEN writer ELSE reader

\* What the reader is to make of member i.
Expected(i) ==
    [data |-> [j \in 0 .. payload[i].size - 1 |-> <<i, j>>], negative |-> FALSE]

Init ==
    /\ writer \in Writers
    /\ reader \in Readers
    /\ payload \in Payloads
    /\ high \in BOOLEAN
    /\ mode = "begin"
    /\ k = 1
    /\ offset = 0
    /\ buffer = [b \in 0 .. Top - 1 |-> Nothing]
    /\ end = 0
    /\ bits_remaining = 0
    /\ byte_index = 0
    /\ bit_position = 0
    /\ val = <<>>
    /\ got = <<>>
-----------------------------------------------------------------------------
(* Offsets.                                                                 *)

BITS_PER_BYTE == 8

\* Mutant of bytes: rounds down.
bytes_down(off) == off \div BITS_PER_BYTE

\* MemUnit.bytes and BufferUnit.Bytes round up.
bytes(off) == (off + BITS_PER_BYTE - 1) \div BITS_PER_BYTE

byte_align(off) == bytes(off) * BITS_PER_BYTE

\* Whether the beginning and the end of a structure are aligned: Python aligns
\* the beginning, the generated C code both, C# neither.
Aligns(m) ==
    \/ m.kind = "open" /\ Language # "CSharp"
    \/ m.kind = "close" /\ Language = "C"

\* Mutant of AfterWhole: writers and the C code, too, add to the offset before
\* it is aligned.
AfterWhole_packed(off, m) == off + m.size

\* The offset after a member of whole bytes.  It is read and written at the
\* next byte, but unpack_payload adds the size of a number, and Deserialize
\* that of anything, to the offset before that.
AfterWhole(off, m) ==
    IF mode = "read" /\ (Language = "CSharp" \/ (Language = "Python" /\ m.kind = "num"))
    THEN off + m.size
    ELSE byte_align(off) + m.size

Advance(off) ==
    /\ offset' = off
    /\ k' = k + 1

Fail ==
    /\ mode' = "failed"
    /\ UNCHANGED <<choice, k, offset, buffer, end, loop, val, got>>

\* The beginning and the end of a structure.
Boundary ==
    /\ mode \in {"write", "read"}
    /\ k <= Len(payload)
    /\ Member.kind \in {"open", "close"}
    /\ Advance(IF Aligns(Member) THEN byte_align(offset) ELSE offset)
    /\ got' = IF mode = "read" THEN Append(got, Expected(k)) ELSE got
    /\ UNCHANGED <<choice, mode, buffer, end, loop, val>>
-----------------------------------------------------------------------------
(* The room for a payload.                                                  *)

\* Bits in words, rounded up.
Words(n) == (n + 31) \div 32

MessageBodyLimit == 32 * MaxWords

\* GetTypeSize, GetObjectSize and GetCollectionSize add the members up without
\* the gaps between them.
GetObjectSize == SumFunction([i \in DOMAIN payload |-> payload[i].size])

\* The buffer that C# makes of that.
BodySize == 32 * Words(GetObjectSize)

\* A writer gets its buffer.  C# refuses to make one for a message that is too
\* long; pack_payload always takes the same, and C the transmit buffer.
InitBuffer ==
    /\ mode = "begin"
    /\ \/ /\ writer = "CSharp"
          /\ GetObjectSize > MessageBodyLimit
          /\ Fail
       \/ /\ writer = "CSharp" => GetObjectSize <= MessageBodyLimit
          /\ mode' = "write"
          /\ UNCHANGED <<choice, k, offset, buffer, end, loop, val, got>>

\* Whether writing up to a bit leaves the buffer, which raises an exception; the
\* C code does not look.
Overruns(to) ==
    \/ writer = "CSharp" /\ to > BodySize
    \/ writer = "Python" /\ to > PackBuffer
-----------------------------------------------------------------------------
(* Members of whole bytes, highest byte first.                              *)

\* CopyBytes and the compost_*_store functions put the highest byte first.
Stored(at, m) ==
    [b \in 0 .. Top - 1 |->
        IF b \in at .. at + m.size - 1 THEN <<k, at + m.size - 1 - b>> ELSE buffer[b]]

WriteWhole ==
    LET at == byte_align(offset)
    IN  /\ mode = "write"
        /\ k <= Len(payload)
        /\ Member.kind \in {"num", "list"}
        /\ \/ /\ Overruns(at + Member.size)
              /\ Fail
           \/ /\ ~ Overruns(at + Member.size)
              /\ buffer' = Stored(at, Member)
              /\ Advance(AfterWhole(offset, Member))
              /\ UNCHANGED <<choice, mode, end, loop, val, got>>

\* The bits of the message, by its header: compost_bytes_to_words wraps around.
Length ==
    IF writer = "CSharp" THEN BodySize ELSE 32 * (Words(end) % (MaxWords + 1))

\* Beyond the message nothing can be read.
BitAt(b) == IF b \in DOMAIN buffer /\ b < Length THEN buffer[b] ELSE Nothing

\* The compost_*_load functions take the highest byte first.
Loaded(at, m) ==
    [data |-> [j \in 0 .. m.size - 1 |-> BitAt(at + m.size - 1 - j)], negative |-> FALSE]

ReadWhole ==
    LET at == byte_align(offset)
    IN  /\ mode = "read"
        /\ k <= Len(payload)
        /\ Member.kind \in {"num", "list"}
        /\ got' = Append(got, Loaded(at, Member))
        /\ Advance(AfterWhole(offset, Member))
        /\ UNCHANGED <<choice, mode, buffer, end, loop, val>>
-----------------------------------------------------------------------------
(* Bit members: BitU.pack and unpack, compost_bituint_store and load,       *)
(* SerializePackedPrimitive and DeserializePackedPrimitive.                 *)

\* The generated C# type of a BitU is int, whose values IntegerToBits takes for
\* signed, or from 32 bits on ulong, which it does not support.
IntegerToBitsThrows ==
    mode = "write" /\ writer = "CSharp" /\ (Member.size = 32 \/ high)

BeginBits ==
    /\ mode \in {"write", "read"}
    /\ k <= Len(payload)
    /\ Member.kind = "bits"
    /\ bits_remaining = 0
    /\ \/ /\ IntegerToBitsThrows
          /\ Fail
       \/ /\ ~ IntegerToBitsThrows
          /\ bits_remaining' = Member.size
          /\ byte_index' = offset \div BITS_PER_BYTE
          /\ bit_position' = offset
          /\ val' = [j \in 0 .. Member.size - 1 |-> Nothing]
          /\ UNCHANGED <<choice, mode, k, offset, buffer, end, got>>

\* Mutant of bits_to_fill: the position is not reduced to that in its byte.
bits_to_fill_far == BITS_PER_BYTE - bit_position

bits_to_fill == BITS_PER_BYTE - (bit_position % BITS_PER_BYTE)

bits_to_place == IF bits_remaining <= bits_to_fill THEN bits_remaining ELSE bits_to_fill

\* Mutant of shift: the bits go to the low end of the byte.
shift_low == 0

shift == bits_to_fill - bits_to_place

\* Where bit j of the value goes, or comes from, in this iteration.
Moved == bits_remaining - bits_to_place .. bits_remaining - 1
Place(j) == BITS_PER_BYTE * byte_index + BITS_PER_BYTE - 1
                - (shift + j - (bits_remaining - bits_to_place))

NextIteration ==
    /\ bit_position' = bit_position + bits_to_place
    /\ byte_index' = byte_index + 1
    /\ bits_remaining' = bits_remaining - bits_to_place

\* An iteration of the writer's loop.
Pack ==
    /\ mode = "write"
    /\ bits_remaining > 0
    /\ \/ /\ Overruns(BITS_PER_BYTE * (byte_index + 1))
          /\ Fail
       \/ /\ ~ Overruns(BITS_PER_BYTE * (byte_index + 1))
          /\ buffer' = [b \in 0 .. Top - 1 |->
                           IF \E j \in Moved : Place(j) = b
                           THEN <<k, CHOOSE j \in Moved : Place(j) = b>> ELSE buffer[b]]
          /\ NextIteration
          /\ IF bits_remaining' = 0
             THEN Advance(offset + Member.size)
             ELSE UNCHANGED <<k, offset>>
          /\ UNCHANGED <<choice, mode, end, val, got>>

\* An iteration of the reader's; at the end C# extends the sign of an int.
Unpack ==
    /\ mode = "read"
    /\ bits_remaining > 0
    /\ val' = [j \in DOMAIN val |-> IF j \in Moved THEN BitAt(Place(j)) ELSE val[j]]
    /\ NextIteration
    /\ IF bits_remaining' = 0
       THEN /\ Advance(offset + Member.size)
            /\ got' = Append(got, [data |-> val',
                                   negative |-> reader = "CSharp" /\ high /\ Member.size < 32])
       ELSE UNCHANGED <<k, offset, got>>
    /\ UNCHANGED <<choice, mode, buffer, end>>
-----------------------------------------------------------------------------
\* The payload is sent, and the reader begins.  Header.pack raises if the length
\* does not fit in its byte.
Transfer ==
    /\ mode = "write"
    /\ k > Len(payload)
    /\ \/ /\ writer = "Python"
          /\ Words(offset) > MaxWords
          /\ Fail
       \/ /\ writer = "Python" => Words(offset) <= MaxWords
          /\ mode' = "read"
          /\ end' = offset
          /\ k' = 1
          /\ offset' = 0
          /\ UNCHANGED <<choice, buffer, loop, val, got>>

Finish ==
    /\ mode = "read"
    /\ k > Len(payload)
    /\ mode' = "done"
    /\ UNCHANGED <<choice, k, offset, buffer, end, loop, val, got>>

Next ==
    \/ InitBuffer
    \/ Boundary
    \/ WriteWhole
    \/ ReadWhole
    \/ BeginBits
    \/ Pack
    \/ Unpack
    \/ Transfer
    \/ Finish

Spec == Init /\ [][Next]_vars
-----------------------------------------------------------------------------
(* Properties.                                                              *)

\* Type invariant: in particular the loop never moves more bits than there are
\* in a byte or in the value.
TypeOK ==
    /\ writer \in Writers
    /\ reader \in Readers
    /\ payload \in Payloads
    /\ high \in BOOLEAN
    /\ mode \in {"begin", "write", "read", "done", "failed"}
    /\ k \in 1 .. Len(payload) + 1
    /\ offset \in Nat
    /\ end \in Nat
    /\ \A b \in 0 .. Top - 1 :
          \/ buffer[b] = Nothing
          \/ buffer[b][1] \in DOMAIN payload
             /\ buffer[b][2] \in 0 .. payload[buffer[b][1]].size - 1
    /\ bits_remaining \in 0 .. 32
    /\ byte_index \in Nat
    /\ bit_position \in Nat
    /\ bits_remaining > 0 => bits_to_place \in 1 .. 8 /\ shift \in 0 .. 7
    /\ Len(got) <= Len(payload)

\* Every writer puts every member into bits next to each other, the highest
\* first, and none overwrites a part of another, wherever in a byte it begins
\* and however many bytes it spans.
MembersWritten ==
    mode \in {"read", "done"} =>
        \A i \in DOMAIN payload :
            \E at \in 0 .. Top - payload[i].size :
                \A j \in 0 .. payload[i].size - 1 :
                    buffer[at + payload[i].size - 1 - j] = <<i, j>>

\* The reader gets what the writer was given.
Received == mode = "done" => \A i \in DOMAIN payload : got[i] = Expected(i)

\* The generated C code reads every payload that it writes, if its length fits
\* in the header; a longer one is cut off where compost_bytes_to_words wraps.
CReadsC == writer = "C" /\ reader = "C" /\ end <= MessageBodyLimit => Received

\* The bit members next to each other that end with member i.
RunBits(i) ==
    SumFunctionOnSet([h \in DOMAIN payload |-> payload[h].size],
                     {h \in 1 .. i : \A g \in h .. i : payload[g].kind = "bits"})

\* Bit members fill whole bytes where others follow that have further bit
\* members behind them.
Settled ==
    \A i, l \in DOMAIN payload :
        i + 1 < l /\ payload[i].kind = "bits" /\ payload[i + 1].kind # "bits"
            /\ payload[l].kind = "bits"
            => RunBits(i) % BITS_PER_BYTE = 0

\* The generated C# types hold the values of the bit members.
CSharpHolds ==
    \A i \in DOMAIN payload :
        payload[i].kind = "bits" =>
            /\ writer = "CSharp" => ~ high /\ payload[i].size < 32
            /\ reader = "CSharp" => ~ high \/ payload[i].size = 32

\* The payload is not longer than a message may be, gaps not counted.
Fits == GetObjectSize <= MessageBodyLimit

\* As long as bit members come in whole bytes, save for the last ones, and the
\* payload fits in a message, all three languages agree on the layout, and the
\* buffers of Python and C# are large enough, although the languages disagree on
\* what is aligned and by whom.
SettledPayloadsAgree ==
    Settled /\ CSharpHolds /\ Fits => mode # "failed" /\ Received
=============================================================================
