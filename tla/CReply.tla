------------------------------- MODULE CReply -------------------------------
(***************************************************************************)
(* How the generated C side builds a message with lists in it: an          *)
(* allocator is laid over a part of the transmit buffer, the handler takes *)
(* slices from it and fills them, the store function writes the message    *)
(* and copies the slices that are not in place, and the length goes into   *)
(* the header.  Three kinds of message do this:                            *)
(*   list    a response that is one list        (invoke_<rpc>)             *)
(*   reply   a response that is a structure     (invoke_<rpc>)             *)
(*   notif   a notification with a structure    (<notification>_store)     *)
(*                                                                         *)
(* An address is an offset in the transmit buffer.  A structure is its     *)
(* layout: the bytes of fixed size before each list, the two of the list's *)
(* length included, and those after the last list.                         *)
(***************************************************************************)
EXTENDS Integers, Sequences

CONSTANTS
    U16,        \* 2^16: a uint16_t holds 0 .. U16 - 1
    U8,         \* 2^8
    TxSizes,    \* sizes of the transmit buffer
    Layouts,    \* layouts of the structures
    ElemSizes,  \* sizes of list elements
    Lens,       \* lengths of lists that the handler asks for
    MaxSlices,  \* bound: slices of one list response
    Top         \* bound: addresses above it are not tracked

ASSUME WidthsAssumption ==
    /\ U16 \in Nat
    /\ U16 > 4
    /\ U8 \in Nat \ {0}
    /\ 4 * U8 <= U16      \* a payload whose words fit in wlen has a length in 16 bits
ASSUME SizesAssumption ==
    /\ TxSizes \subseteq 4 .. U16 - 1
    /\ ElemSizes \subseteq Nat \ {0}
    /\ Lens \subseteq 0 .. U16 - 1
    /\ MaxSlices \in Nat
    /\ Top \in Nat
ASSUME LayoutsAssumption ==
    \A l \in Layouts : /\ l \in Seq(Nat)
                       /\ Len(l) > 1
                       /\ \A i \in 1 .. Len(l) - 1 : l[i] >= 2

VARIABLES
    mode,       \* idle, alloc (in the handler), store, done
    kind,       \* list, reply or notif
    tx,         \* size of the transmit buffer
    layout,
    base,       \* alloc.buffer.ptr
    cap,        \* alloc.buffer.len
    ptr,        \* alloc.ptr
    suffixes,   \* alloc.suffixes, <<>> for NULL
    ctr,        \* alloc.alloc_ctr
    slices,     \* the slices the handler has got
    chosen,     \* which of them is the first one of the message
    dest,       \* where the store function is
    stored,     \* how many lists it has stored
    mem,        \* what is in the buffer, and above it
    wlen        \* tx.header.wlen

alloc == <<base, cap, ptr, suffixes, ctr>>
message == <<kind, tx, layout>>
vars == <<mode, message, alloc, slices, chosen, dest, stored, mem, wlen>>

NULL == 0
PAYLOAD_OFFSET == 4
ListLayout == <<2, 0>>

\* Contents of memory: nothing yet, a member of fixed size, what an undefined
\* copy leaves, byte i of slice k.
Free == <<0, 0>>
Fixed == <<0, 1>>
Garbled == <<0, 2>>
Data(k, i) == <<k, i>>

Init ==
    /\ mode = "idle"
    /\ kind = "list"
    /\ tx = 4
    /\ layout = ListLayout
    /\ base = PAYLOAD_OFFSET
    /\ cap = 0
    /\ ptr = PAYLOAD_OFFSET
    /\ suffixes = <<>>
    /\ ctr = 0
    /\ slices = <<>>
    /\ chosen = 0
    /\ dest = PAYLOAD_OFFSET
    /\ stored = 0
    /\ mem = [a \in 0 .. Top |-> Free]
    /\ wlen = 0
-----------------------------------------------------------------------------
(* Setting the allocator up.                                                *)

compost_alloc_init(buffer, len) ==
    /\ base' = buffer
    /\ cap' = len % U16
    /\ ptr' = buffer
    /\ ctr' = 0

Begin(k, size, l) ==
    /\ mode = "idle"
    /\ mode' = "alloc"
    /\ kind' = k
    /\ tx' = size
    /\ layout' = l
    /\ UNCHANGED <<slices, chosen, dest, stored, mem, wlen>>

\* Mutant of list_alloc_init: the length of the list is not reserved.
list_alloc_init_whole(size) ==
    /\ Begin("list", size, ListLayout)
    /\ compost_alloc_init(PAYLOAD_OFFSET + 2, size - PAYLOAD_OFFSET)
    /\ suffixes' = <<>>

\* invoke_<rpc> of a function that returns a list: the payload less the length.
list_alloc_init(size) ==
    /\ Begin("list", size, ListLayout)
    /\ compost_alloc_init(PAYLOAD_OFFSET + 2, size - PAYLOAD_OFFSET - 2)
    /\ suffixes' = <<>>

\* <struct>_alloc_init(tx_buf, tx_buf_len), with tx_buf at address buf.
struct_alloc_init(buf, len, l) ==
    /\ compost_alloc_init(buf + 4 + l[1], len)
    /\ suffixes' = Tail(l)

\* invoke_<rpc> of a function that returns a structure calls it with a pointer
\* that is past the first fixed part already.
reply_alloc_init(size, l) ==
    /\ Begin("reply", size, l)
    /\ struct_alloc_init(PAYLOAD_OFFSET + l[1], size - PAYLOAD_OFFSET - l[1], l)

\* The application calls it with its transmit buffer.
notif_alloc_init(size, l) ==
    /\ Begin("notif", size, l)
    /\ struct_alloc_init(0, size, l)
-----------------------------------------------------------------------------
(* The handler.                                                             *)

\* How many slices the handler may ask for.
Wanted == IF kind = "list" THEN MaxSlices ELSE Len(layout) - 1

capacity == cap - (ptr - base)

\* Mutant of AllocFails: the test lets one byte too many through.
AllocFails_loose(n) ==
    \/ n > capacity + 1
    \/ suffixes # <<>> /\ ctr >= Len(suffixes)

AllocFails(n) ==
    \/ n > capacity
    \/ suffixes # <<>> /\ ctr >= Len(suffixes)

\* Mutant of Advance: the suffix is not added.
Advance_bare(n) == n

\* How far compost_alloc_next moves alloc.ptr: over the block and the fixed
\* part that follows it.
Advance(n) == n + (IF suffixes # <<>> THEN suffixes[ctr + 1] ELSE 0)

\* compost_slice_T_new and the handler filling the slice: the length in bytes
\* is passed to compost_alloc_next as a uint16_t.  A failure does not count as
\* an allocation.
slice_new(len, size) ==
    LET n == (size * len) % U16
        k == Len(slices) + 1
    IN  /\ mode = "alloc"
        /\ Len(slices) < Wanted
        /\ \/ /\ AllocFails(n)
              /\ slices' = Append(slices, [ptr |-> NULL, len |-> 0, size |-> size])
              /\ UNCHANGED <<ptr, ctr, mem>>
           \/ /\ ~ AllocFails(n)
              /\ slices' = Append(slices, [ptr |-> ptr, len |-> len, size |-> size])
              /\ ptr' = ptr + Advance(n)
              /\ ctr' = ctr + 1
              /\ mem' = [a \in 0 .. Top |->
                            IF a \in ptr .. ptr + size * len - 1
                            THEN Data(k, a - ptr) ELSE mem[a]]
        /\ UNCHANGED <<mode, message, base, cap, suffixes, chosen, dest, stored, wlen>>

\* A handler without suffixes may start over; its slices are gone.
compost_alloc_reset ==
    /\ mode = "alloc"
    /\ kind = "list"
    /\ slices # <<>>
    /\ suffixes' = <<>>
    /\ ctr' = 0
    /\ ptr' = base
    /\ slices' = <<>>
    /\ mem' = [a \in 0 .. Top |-> Free]
    /\ UNCHANGED <<mode, message, base, cap, chosen, dest, stored, wlen>>

\* The handler returns: one of its slices, or a structure with all of them.
Return(k) ==
    /\ mode = "alloc"
    /\ IF kind = "list" THEN k \in DOMAIN slices ELSE k = 1 /\ Len(slices) = Wanted
    /\ chosen' = k
    /\ mode' = "store"
    /\ UNCHANGED <<message, alloc, slices, dest, stored, mem, wlen>>
-----------------------------------------------------------------------------
(* The store function.                                                      *)

Lists == Len(layout) - 1
Bytes(s) == s.len * s.size

\* The slice that is stored as the j-th list of the message.
Member(j) == slices[chosen + j - 1]

\* Compared with the address of the length, not of the data.
NeedsCopy(s, d) == s.ptr # d

\* Blocks of n bytes at p and at q share bytes without being the same block.
Overlap(p, q, n) == p # q /\ p < q + n /\ q < p + n

\* The fixed part before a list, and compost_slice_T_store: first the data is
\* copied, then the length is written.  The copy is a memcpy, which C leaves
\* undefined between blocks that overlap: the data may arrive or be garbled.
\* (A block copied onto itself, as NeedsCopy has it when a slice is in place,
\* stays as it is with every memcpy in use.)
StoreList(garbled) ==
    LET s == Member(stored + 1)
        d == dest + layout[stored + 1] - 2
        fixed == [a \in 0 .. Top |-> IF a \in dest .. d - 1 THEN Fixed ELSE mem[a]]
        n == Bytes(s) % U16
        Source(a) == IF garbled THEN Garbled ELSE fixed[s.ptr + (a - d - 2)]
        copied == [a \in 0 .. Top |->
                      IF NeedsCopy(s, d) /\ a \in d + 2 .. d + 1 + n
                         /\ s.ptr + (a - d - 2) <= Top
                      THEN Source(a) ELSE fixed[a]]
    IN  /\ mode = "store"
        /\ stored < Lists
        /\ garbled => NeedsCopy(s, d) /\ Overlap(s.ptr, d + 2, n)
        /\ mem' = [a \in 0 .. Top |-> IF a \in d .. d + 1 THEN Fixed ELSE copied[a]]
        /\ dest' = d + 2 + n
        /\ stored' = stored + 1
        /\ UNCHANGED <<mode, message, alloc, slices, chosen, wlen>>

\* Mutants of compost_bytes_to_words: rounded down, and wider than wlen.
compost_bytes_to_words_down(bytes) == ((bytes % U16) \div 4) % U8
compost_bytes_to_words_wide(bytes) == ((bytes % U16) + 3) \div 4

compost_bytes_to_words(bytes) == (((bytes % U16) + 3) \div 4) % U8

\* The last fixed part and the length in the header.
StoreEnd ==
    /\ mode = "store"
    /\ stored = Lists
    /\ dest' = dest + layout[Len(layout)]
    /\ mem' = [a \in 0 .. Top |-> IF a \in dest .. dest' - 1 THEN Fixed ELSE mem[a]]
    /\ wlen' = compost_bytes_to_words(dest' - PAYLOAD_OFFSET)
    /\ mode' = "done"
    /\ UNCHANGED <<message, alloc, slices, chosen, stored>>

\* The message is sent.  The allocator was a local variable, and what is left
\* in the buffer counts as nothing.
Send ==
    /\ mode = "done"
    /\ mode' = "idle"
    /\ kind' = "list"
    /\ tx' = 4
    /\ layout' = ListLayout
    /\ base' = PAYLOAD_OFFSET
    /\ cap' = 0
    /\ ptr' = PAYLOAD_OFFSET
    /\ suffixes' = <<>>
    /\ ctr' = 0
    /\ slices' = <<>>
    /\ chosen' = 0
    /\ dest' = PAYLOAD_OFFSET
    /\ stored' = 0
    /\ mem' = [a \in 0 .. Top |-> Free]
    /\ wlen' = 0
-----------------------------------------------------------------------------
Next ==
    \/ \E size \in TxSizes : list_alloc_init(size)
    \/ \E size \in TxSizes, l \in Layouts : reply_alloc_init(size, l)
    \/ \E size \in TxSizes, l \in Layouts : notif_alloc_init(size, l)
    \/ \E len \in Lens, size \in ElemSizes : slice_new(len, size)
    \/ compost_alloc_reset
    \/ \E k \in DOMAIN slices : Return(k)
    \/ \E garbled \in BOOLEAN : StoreList(garbled)
    \/ StoreEnd
    \/ Send

Spec == Init /\ [][Next]_vars
-----------------------------------------------------------------------------
(* Properties.                                                              *)

\* Type invariant.
TypeOK ==
    /\ mode \in {"idle", "alloc", "store", "done"}
    /\ kind \in {"list", "reply", "notif"}
    /\ tx \in 4 .. U16 - 1
    /\ layout \in Layouts \cup {ListLayout}
    /\ base \in Nat
    /\ cap \in 0 .. U16 - 1
    /\ ptr \in Nat
    /\ suffixes \in Seq(Nat)
    /\ ctr \in Nat
    /\ slices \in Seq([ptr : Nat, len : 0 .. U16 - 1, size : ElemSizes])
    /\ chosen \in Nat
    /\ dest \in Nat
    /\ stored \in 0 .. Lists
    /\ wlen \in 0 .. U8 - 1

\* A slice whose length in bytes does not fit in a uint16_t.
Overlong(s) == Bytes(s) >= U16

\* A slice that compost_alloc_next has handed out for what it was asked for.
Sound(s) == s.ptr # NULL /\ ~ Overlong(s)

\* Slices lie inside the allocator's buffer and do not overlap, in the order in
\* which they were asked for.  compost_alloc_next does not count the suffix when
\* it looks whether a block fits: alloc.ptr may leave the buffer, but nothing
\* can be handed out there.
SlicesApart ==
    /\ \A k \in DOMAIN slices :
          Sound(slices[k]) => /\ base <= slices[k].ptr
                              /\ slices[k].ptr + Bytes(slices[k]) <= base + cap
    /\ \A j, k \in DOMAIN slices :
          j < k /\ Sound(slices[j]) /\ slices[k].ptr # NULL
              => slices[j].ptr + Bytes(slices[j]) <= slices[k].ptr

\* A response that is a list stays inside the transmit buffer, if that has room
\* for the header and the length of the list.
ListFits ==
    kind = "list" /\ tx >= 6 /\ mode = "done" /\ ~ Overlong(Member(1)) => dest <= tx

\* The parts of the inductive invariant.  What was handed out lies below
\* alloc.ptr:
AllocInv ==
    /\ mode = "idle" => slices = <<>>
    /\ base > 0
    /\ base <= ptr
    /\ \A k \in DOMAIN slices :
          /\ slices[k].ptr = NULL => slices[k].len = 0
          /\ slices[k].ptr # NULL => base <= slices[k].ptr
          /\ Sound(slices[k]) => slices[k].ptr + Bytes(slices[k]) <= ptr
\* ... there is a slice for every list that is stored:
StoreInv ==
    /\ mode \in {"idle", "alloc"} => stored = 0 /\ dest = PAYLOAD_OFFSET
    /\ mode \in {"store", "done"} => chosen >= 1 /\ chosen + Lists - 1 <= Len(slices)
\* ... and the place of a list response is known at every step.
ListInv ==
    kind = "list" =>
        /\ layout = ListLayout
        /\ mode # "idle" /\ tx >= 6 => base = 6 /\ cap = tx - 6
        /\ mode = "store" /\ stored = 0 => dest = PAYLOAD_OFFSET
        /\ mode = "done" => stored = 1
        /\ stored = 1 => dest = PAYLOAD_OFFSET + 2 + (Bytes(Member(1)) % U16)

\* What makes SlicesApart and ListFits inductive.
IInv == TypeOK /\ AllocInv /\ StoreInv /\ ListInv /\ SlicesApart

\* Where the j-th list of the message begins on the wire.
DataAt ==
    LET at[j \in 1 .. Lists] ==
            IF j = 1 THEN PAYLOAD_OFFSET + layout[1]
            ELSE at[j - 1] + Bytes(Member(j - 1)) + layout[j]
    IN  at

\* List j is in the message as the handler filled it, as far as the bytes of its
\* slice are tracked.
Arrives(j) ==
    \A i \in 0 .. Bytes(Member(j)) - 1 :
        Member(j).ptr + i <= Top => mem[DataAt[j] + i] = Data(chosen + j - 1, i)

\* The j-th list is copied between blocks that overlap: a structure of a reply
\* has its slices 4 + layout[1] bytes above their places, so that every longer
\* list is one.
Overlapped(j) == Overlap(Member(j).ptr, DataAt[j], Bytes(Member(j)))

\* If every allocation succeeds, the message holds what the handler put into the
\* slices, but for the lists that memcpy moves between overlapping blocks: the
\* store function overwrites no slice before its turn, and what it has stored
\* stays.
AllocatedDataArrives ==
    mode = "done" /\ (\A k \in DOMAIN slices : Sound(slices[k]))
        => \A j \in 1 .. Lists : Overlapped(j) \/ Arrives(j)

\* Slices that a handler takes from the allocator lie in the transmit buffer.
SlicesInTxBuffer ==
    \A k \in DOMAIN slices :
        Sound(slices[k]) => slices[k].ptr + Bytes(slices[k]) <= tx

\* The length in the header is that of the payload, rounded up to words, as long
\* as the payload has at most 4 * 255 bytes; beyond that compost_bytes_to_words
\* wraps around.
LengthRoundedUp ==
    mode = "done" /\ dest - PAYLOAD_OFFSET <= 4 * (U8 - 1)
        => 4 * wlen - (dest - PAYLOAD_OFFSET) \in 0 .. 3
=============================================================================
