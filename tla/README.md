# A TLA+ model of Compost RPC

Compost RPC lets a PC call functions on a microcontroller (or another PC) over
whatever carries bytes. A protocol is a Python class; from it the library
generates C code for the device and C# code for .NET clients. This directory
holds TLA+ models of the run-time parts and of what decides about the generated
code, the TLC configurations that check them
on small instances, and proofs that TLAPS checks for every instance. Paths in
this text are relative to the repository.

## 1. Inventory

A message is a header of four bytes (length in words, transaction number,
RESP flag, 12-bit rpc_id) and a payload of up to 255 words. Requests carry a
transaction number; a response repeats it; number 0 marks a notification.

| Component | State | Operations | Hard behaviour |
|---|---|---|---|
| Python `_Session` (`compost_rpc/compost_rpc.py:1135`) | `last_txn`, queue `q`, listener thread | `rpc`, `send_request`, `recv_response`, `send_notif`, `receiver` | two threads share a queue; late, lost and repeated responses; errors reported through the same queue; a callback's exception ends the listener |
| C# `Session`, `Transaction`, `Protocol` (`csharp/src/CompostRpc`) | byte counter, table of 256 transactions, read task, cancellation | `InvokeRawRpcAsync`, `ReadMessagesAsync`, `DisposeAsync` | many callers; separate locks for counter, table and stream; timeouts that race with responses; numbers that wrap around |
| C `compost_msg_process` and the generated switch (`lib/c/source_template.py:440`) | none between messages | processing of a message, reply or no reply | which requests get no answer |
| C allocator and store functions (`source_template.py:350, 494, 567-609`, generated `*_alloc_init`, `*_store`, `invoke_*`) | allocator pointer, suffixes, transmit buffer | `compost_alloc_*`, `compost_slice_T_new`, `*_store` | 8 and 16 bit arithmetic, offsets computed in three places that must agree, failed allocations |
| Framing (`receive` of the Python TCP, stdio and serial transports, `Message.FromStreamAsync`) | bytes read so far | read header, read payload | a stream cuts messages anywhere; closed connections |
| Payload serialization in three languages | bit offset | pack and unpack members | bit members across bytes; three implementations that must agree on alignment |
| Header formats (Python, C, C#) | - | pack, unpack | masks and widths; what each writer does with a field that is too large |
| Rpc descriptor, subscribers | list of callbacks, bound instance | `subscribe`, `unsubscribe`, `__get__`, `__call__` | changed while the listener iterates; shared by all instances |
| Python datagram transports (UDP, raw Ethernet, SocketCAN FD) | device handles | `send`, `receive` | loss, repetition, reordering |
| C# notification handlers | table of handlers | add, remove, invoke | run in the read task or a SynchronizationContext |
| C# `TcpProxy` | client, stream, tasks | accept, serve, forward, dispose | a client replaced while its call is awaited |
| Protocol class and decorators (`compost_rpc.py:809-958, 1226`) | tables of calls and types, shared by all protocol classes | `rpc`, `notification`, `enum`, `struct` | identifiers at the edge of the header's range; a layout that must match what the generated code does |
| Code generators (`compost_rpc.py:1274-2012`) | collected type definitions | `_validate_endpoint`, `generate` | the code of two endpoints must fit together |
| `Generator` (`compost_rpc.py:2014`) | caches of outputs and of paths, files | wrapped `generate`, `with` blocks, `run` | several outputs and blocks, conflicts noticed half way, the user's consent, failing writes |

The application calls a session; the session writes requests through a
transport; the device's loop hands each message to `compost_msg_process`, which
calls the handler and leaves the reply in the transmit buffer; the session's
listener (a thread in Python, a task in C#) reads messages and gives responses
to the calls that wait and notifications to the subscribers.

What makes the parts correct: a call ends, and with the answer to its own
request and not to another; what it returns was computed by the peer's handler;
notifications reach subscribers; a stream is cut into exactly the messages that
were sent; the generated code keeps lists apart and inside its buffer, and what
the handler put there arrives; what one language writes, another reads; the code
generated for two endpoints fits together, and generating it destroys no file.

`PROJECT.json` lists every component with its status, and under `hazards` what
in this code a test would hardly reach, line by line.

## 2. Modules

| Module | Models |
|---|---|
| `RpcClient` | abstract specification: what a client promises its callers |
| `CServer` | the device: a function from a received message to the messages it sends |
| `PySession` | the Python session, with `CServer` as its peer and the transport between them |
| `CsSession` | the C# session, with the same peer |
| `Framing` | the readers of a byte stream |
| `CReply`, `MCCReply` | how the C side builds a message with lists |
| `Serdes`, `MCSerdes` | the bit layout of payloads in three languages |
| `RpcBinding` | one `Rpc` object: its subscribers and the instance it is bound to |
| `Header` | the bytes of a header in three languages |
| `ProtocolDef` | the decorators (extends `Header`) |
| `CodeGen` | what the generators make of the definitions (extends `ProtocolDef`) |
| `Generator`, `MCGenerator` | class `Generator` (extends `CodeGen`) |
| `CommonLemmas` | lemmas: remainders, least elements, counting in sequences, `FlattenSeq`, running sums, sums over sets |
| `PySessionProofs`, `CsSessionProofs`, `FramingProofs`, `CReplyProofs`, `SerdesProofs`, `RpcBindingProofs`, `GeneratorProofs` | theorems about the module of that name |

Names are those of the source where TLA+ allows it. A definition whose name ends
in `_something` after a source name (`next_txn_late`) is a mutant: a plausible
mistake that the property named in `PROJECT.json` finds.

**PySession.** `last_txn`, `q` and `listener` are the attributes of `_Session`.
`rpc()` is split where the other thread can be noticed: `send_request`, then
`CheckListener` (the liveness test of the thread), then `GetItem` or `Timeout`.
An iteration of `receiver()` is one action, up to the callbacks of a
notification, which end in `CallbackReturns` or `CallbackRaises`. All items of
the queue that are exceptions are one item `Exc`. `toPeer` and `toHost` are what
is under way; with `Reliable` they are first in, first out, otherwise messages
are taken in any order, lost and repeated. `calls`, `outcome`, `answer` and
`executed` are history: which call got whose answer. Messages carry, in a field
that is not on the wire, the call they belong to. The session is modelled with
one calling thread; nothing in `_Session` protects `last_txn` or the queue from
a second one, and the documentation does not offer it.

**CsSession.** A call is the sequence `AquireNextTxnId`, `AddTransaction`,
`WriteMessage`, then `ResponseAwaited`, or `DelayElapsed` and
`FetchAndRemoveExpired`; between any two of these every other call, the read
task (`ReadMessagesAsync`, `SetResponse`) and `DisposeAsync` may run, because
each step holds its own lock. `timed` says whether there is a transaction
timeout; the default is none. `Judge` is what `Protocol.InvokeRpcAsync` makes of
a response.

**CServer** keeps of a header what decides: number, RESP flag, rpc_id, and
whether there is a payload.

**Framing** has a variable `reader`, so that all readers run over the same
stream; `received` is the loop's counter, which in `TcpTransport` is not always
the number of bytes read. `StdioTransport` does not loop at all. The loop of
`SerialTransport` is that of pyserial, which is external.

**CReply.** Addresses are relative to the transmit buffer; `mem` says what is at
each byte of it (a fixed member, element i of slice k). The handler allocates,
resets and returns slices in any order; `StoreList` is one list of the store
function with the fixed members before it, including the copy that
`compost_slice_T_store` makes when the slice is not in place. 16-bit and 8-bit
casts are kept as `% U16` and `% U8`. The copy is a `memcpy`: where source and
destination overlap, which C leaves undefined, `StoreList(garbled)` either copies
or leaves bytes that are nobody's (`Garbled`).

**Serdes.** The loop that packs bits is the same in three languages and is
modelled per iteration; the languages differ in `Aligns` (structures),
`AfterWhole` (what follows a number), `IntegerToBitsThrows` (C# only) and in what
a payload has room. C# adds the members up without gaps (`GetObjectSize`) and
throws above `MessageBodyLimit` (`InitBuffer`), or when a write leaves the buffer
of that size; Python raises at the end of its `bytearray(1024)` (`Overruns`) and
in `Header.pack` when the length does not fit in a byte (`Transfer`); C checks
nothing and its length wraps around (`Length`). A bit is identified by its member
and position, so that a property can say whose bit is where. A read beyond the
message, an exception in Python and C#, yields a bit that belongs to nobody.

**RpcBinding.** A protocol class has one `Rpc` per call, shared by all its
instances, the application's threads and the listener thread of every session.
`subscribe` and `unsubscribe` may happen at any moment, also inside a callback
(`listener[i] = "callback"`); the listener's `for` loop keeps an index into the
list as it is now, as a Python list iterator does. `Get` is the attribute access
`device.call`, which stores the instance in the shared object, and `Call` what
follows after the arguments were evaluated. `due`, `served` and `removed` are
history. `PySession` takes the dispatch of a notification as one
step; `RpcBinding` opens that step.

**Header, ProtocolDef, CodeGen.** The name of a member is its position in its
structure, so the C name of a nested list is a sequence of positions. `rpc`
enters a call, `struct` and `enum` a type; a refused identifier changes nothing.
The layout of a structure is a fold over its members, as in `struct()`, of the
layouts of types defined before, so no recursion is needed; `items` is what the
generated store function goes through, and `Stored` (a property's definition)
where that puts the lists. Of the text of the generated code, `CodeGen` keeps
which functions, cases, methods and events there are.

**Generator.** A file is a kind (suffix) and a location (directory and
filename), so two outputs conflict exactly if their paths are equal; the code
compares paths as they are written, and so does the model. `generate` is the
wrapper with the original inside, including the registration of paths up to a
conflict. `run` goes up to the question, `answer` up to the loop that writes;
each file is a step of its own and may fail, before the file is opened or after,
when `write_text` has emptied it (`Partial`). `run()` inside a `with` block does
nothing. `existed`, `wanted` and `complete` are history.

## 3. Runs

Deadlock is not checked (`CHECK_DEADLOCK FALSE`) where the application may stop
calling and the peer may stop sending; in `CReply` messages follow one another
for ever and it is checked.

| Run | States | Shows |
|---|---|---|
| `py_datagram` | 397,743 | with loss, repetition and reordering a call returns its own answer or one at least `_TXN_MAX` calls old (`WrongAnswerIsOld`), and only what the peer executed (`AnswerWasExecuted`); `PySession` implements `RpcClient` |
| `py_stream` | 111,244 | over a stream each timeout and each error leaves the session one item out of step for good (`OutOfStepForGood`); calls after the listener's end fail at once; every call ends; notifications are dispatched |
| `cs_timeout` | 276,445 | concurrent C# calls with timeouts and broken connections implement `RpcClient` with a window of all byte values; a call never gets the answer of another function |
| `cs_ends` | 122,165 | without a timeout a waiting call is in the table until it is served (`WaitingCallIsStored`), a reply ends its call, `DisposeAsync` ends calls; with a timeout every call ends |
| `framing` | 187,579 | the C# reader and `SerialTransport` return the messages whole, in order, all of them; so does `TcpTransport` unless something comes in three pieces, and `StdioTransport` unless something is cut; all report a close |
| `c_reply` | 4,642 | slices are disjoint and inside the allocator's buffer; list responses fit; if all allocations succeed, the lists arrive, but for those that `memcpy` moves between overlapping blocks, and these do no harm to others; the length in words covers the payload up to 255 words |
| `serdes` | 181,230 | bit members do not disturb their neighbours; C reads what C writes if its length fits in the header; the languages agree, and no writer fails, when the payload fits in a message and bit members come in whole bytes |
| `binding` | 185,640 | no subscription is called twice for a notification (`NoneServedTwice`); each `unsubscribe` during a dispatch hides at most one other subscriber (`SkippedAtMostRemoved`); the dispatch ends |
| `generator` | 1,748,307 | registered identifiers survive the headers of all languages (`IdsSurviveHeaders`); the layout is where the store function puts the lists (`LayoutMatchesStore`); the code of both endpoints fits (`EndpointsAgree`); no output replaces another's file (`WrittenByOwner`) or a file that the user did not release (`NoUnaskedOverwrite`); after a complete `run()` the files are what was generated (`FilesAreCurrent`) |

Three runs are counterexamples to what a document or a comment of the
repository says; each has an entry under `findings`:

- `cs_void_call`: C# numbers wrap around to 0, the first time after 255 calls.
  The C side does not answer a request with number 0 that has no result, so a
  call without a timeout never ends.
- `cs_break`: after a broken connection the read task ends with the exception and
  the calls that wait are not told, although the documentation says they are.
- `c_tx_buffer`: `<struct>_alloc_init` (`compost_rpc.py:1515`) starts the allocator
  behind the header and the fixed part and gives it the whole length it was told,
  so that it ends beyond the transmit buffer. TLC's trace is a notification, for
  which the application calls it with its buffer; for a response `invoke_<rpc>`
  passes a pointer that is past both already, and a length without them.

Observed while modelling, without a run of their own: the answer to a Python call
that timed out is taken, and rejected, by the next call, and so on for ever
(`OutOfStepForGood` is the precise statement); in C# a timeout empties its slot
even if another call holds it by then, which is why `WaitingCallIsStored`
excludes timeouts; C# expects 0xFEF for an unsupported function where C answers
0xFEE; `compost_slice_T_store` compares the slice's pointer with the destination,
so that a list whose allocation failed (NULL, length 0) shifts the next ones,
which are then copied over each other (`AllocatedDataArrives` therefore assumes
that all allocations succeeded); for a response the slices of a structure begin
4 bytes and the fixed part above their places, so that the `memcpy` of every
longer list overlaps, which is undefined in C (`Overlapped` in
`AllocatedDataArrives`); `compost_bytes_to_words` wraps at 256 words
(`LengthRoundedUp` and `CReadsC` have that exception); C# generates `int` for bit members, which
makes values with the highest bit set unwritable and negative when read, and
`ulong`, which cannot be written at all, for 32 bits (`CSharpHolds`).

Further limits, most of which a property states as its exception:

- `TcpTransport.receive` adds everything read so far where it means the last
  piece, so that a header or payload in three pieces ends its loop too early, and
  `StdioTransport` reads once; the reader then goes on in the middle of the
  stream. The variable `cut` of `Framing` says when this has happened.
- `unpack_payload` does not align before a number, and `pack_payload` does: with a
  number between bit members that do not fill bytes, Python does not read back
  what it wrote (`Settled` excludes it).
- `struct()` adds up bits and rounds once, the generated store function aligns
  every time: with two groups of bit members that end inside a byte between the
  same two lists, the allocator's places are too low (`partial` in
  `LayoutMatchesStore`).
- A subscriber that unsubscribes itself hides the next one from that notification
  (`SkippedAtMostRemoved` allows one per removal); a loop goes on as long as
  callbacks go on subscribing.
- `Rpc.instance` is shared: `a.f(b.f(x))` calls `f` of `b` twice. The model has it
  (`Get`, `Call`) and no property: nothing in the code ties a call to the instance
  it was prepared on.
- Two C# endpoints are both generated for a two-way call that neither answers
  (`EndpointsAgree` asks for one in C).
- A second `generate()` of one C generator defines all types once more; a second
  `with` block cannot generate to the paths of the first, since `_path_cache` is
  never emptied; a `generate()` that fails at its second path keeps the first;
  the answer `none` also leaves out files that are new; `__exit__` runs after an
  exception too.
- `<struct>_init` finds the lengths for a nested structure by the end of their
  names, so that two members of one type both get the lengths of the first.
- `compost_header_load` refuses reserved flag bits, Python and C# ignore them.

### Bounds

- `TxnMax = 2`, `TxnMod = 2`, three calls: the numbers wrap around within a run,
  and the oldest call's number is in use again. `_TXN_MAX` is 255 and a byte has
  256 values; the proofs about both sessions hold for every value.
- One spurious item, one copy, one notification: each is enough to put every
  later call out of step, and effects of several add up (`OutOfStepForGood` is an
  equation). In `py_datagram` notifications of known functions are left to
  `py_stream`.
- `Framing`: two messages of up to two words, so that a payload can be cut into
  more than three pieces and contain what looks like a header.
- `CReply`: `U16 = 16`, `U8 = 4`, so that both casts wrap inside a buffer of 40
  bytes; layouts with one and two lists, with and without fixed members around
  them; transmit buffers in which nothing, one list or two lists fit, and lists
  long enough to overlap their place; `c_tx_buffer` uses the real widths.
- `Serdes`: all payloads of up to three members out of seven kinds (1, 4, 8 and
  13 bits, one and two bytes, a list), and of up to two members before, inside or
  after a nested structure; 13 bits span three bytes from an odd offset. A message
  has at most two words (`MaxWords`) and Python's buffer nine bytes (`PackBuffer`),
  so that payloads with a list of seven bytes are at the limits and past them in
  each language.
- `RpcBinding`: two instances of which one sends notifications, two handlers,
  three subscriptions, so that a handler can be subscribed twice and a removal
  can hit before, at and behind the loop's position. A second listener's
  callbacks would only change the list, which the first one's environment does
  already in every way.
- `Generator`: identifiers -1, 0, 0xF00, 0xF01 and 0x1001; up to two definitions,
  with structures of up to two members, one nested in the other; code is
  generated with at most one definition of at most one member
  (`MaxGenerated`), since what `Generator` does depends on them only through what
  is accepted and whether there are types; two calls of `generate()`, two
  locations (symmetric), up to one file that exists before. Two outputs are
  enough for every conflict, and one existing file for an output of which only a
  part exists.

### Fairness

`PySession!FairSpec` assumes that a thread inside `rpc()` goes on (`q.get` has a
timeout), that the listener takes what has arrived, and that callbacks end. It
assumes nothing of the peer or the transport. `CsSession!FairSpec` assumes that
the task scheduler runs what can run, that delays elapse, and that the peer
processes what it receives; `PeerDrops` is the exception that timeouts are for.
`Framing!FairSpec` assumes that a reader with bytes to read, or at the end of the
stream, does read. `RpcBinding!FairSpec` assumes that a listener in its loop goes
on and that callbacks return or raise; the bound on subscriptions stands for an
application that does not subscribe for ever. Nothing is assumed of when connections break or close and of
when the application calls.

## 4. Proofs

The theorems hold for every value of the constants that the named assumptions
allow. The argument is each time an inductive invariant (`IInv` unless another
name is given); what it adds to the property, and why the property is not
inductive alone, is said here.

**`PySessionProofs`**, for every `_TXN_MAX`, protocol, number of calls, reliable
transport or not:

- `TypeCorrect`, `AnswerMatches` (`WrongAnswerIsOld`), `NoInventedAnswer`
  (`AnswerWasExecuted`), `ImplementsClient` (`ClientSpec`).
- `IInv` says what the properties do not: `TxnInv`, the n-th call has number
  `(n % _TXN_MAX) + 1`; `RequestInv`, `ResponseInv` and `QueueInv`, every message
  that a call could accept belongs to a call that was made, was executed and has
  that number; `ExecutedInv`, only calls that were made are executed.
  `CommonLemmas` shows that two calls with equal numbers are at least `_TXN_MAX`
  apart, which is what turns equal numbers into `WrongAnswerIsOld`. Each step
  then maps to a step of `RpcClient` or to none.
- `DeadListenerIsNoticed` (`DeadListenerFailsFast`): a listener that has ended
  stays so, and a call that starts then can only be refused.
- `StaysOutOfStep` (`OutOfStepForGood`): `Balance` restates the equation with
  `CountIn`, the number of elements of a kind in a sequence; every step adds the
  same to both sides. `PeerInv` (the host sends requests and known notifications
  only) is what lets a message that the peer takes count as the one it answers.
- Assumptions: `TxnMaxAssumption` (at least one number), `BoundsAssumption`,
  `IdsAssumption` (the reserved id is not in the protocol), `ServerIds`.

**`CsSessionProofs`**, for every number of transaction numbers from two on, with
and without timeouts, broken connections and `DisposeAsync`:

- `TypeCorrect`, `WaitingIsStored` (`WaitingCallIsStored`), `AnswerFits`
  (`AnswerIsOfTheSameFunction`), `ImplementsClient` (`ClientSpec`).
- `IInv` (stated in `CsSession`, where TLC can check it, too): `TxnInv`
  ties a call's number to the counter; `RequestInv` and `ResponseInv`, what is on
  the wire belongs to calls that were made; `TableInv`, a call is in no slot but
  its own and is given only a response that came with its number; `StoredInv`,
  `WaitingCallIsStored` from `AddTransaction` on. That two calls with one number
  are a whole round apart gives the window of `RpcClient`.
- Assumptions: `TxnModAssumption`, `ConstantsAssumption`.

**`FramingProofs`**, for every number and size of messages and every way in which
the stream cuts them:

- `TypeCorrect`, `MessagesWhole` (`WholeUnlessCut`).
- The property speaks of what was returned; the invariant (`WholeInv`) of what was
  not: header, piece read so far and bytes on the wire, one after the other, are
  the concatenation of the messages still to be returned, and the first byte of a
  message gives its length. The facts about `FlattenSeq` are in `CommonLemmas`.
- Assumption: `ReaderAssumption`.

**`CReplyProofs`**, for every width, buffer size and layout:

- `TypeCorrect`, `AllocatorKeepsSlicesApart` (`SlicesApart`), `ListResponseFits`
  (`ListFits`). `IInv` adds `AllocInv`, how far the allocator's pointer can be past
  its end and that every slice lies before it; `StoreInv`, how much of the layout
  is stored; `ListInv`, how the single list of a list response relates to the
  buffer.
- `DataArrives` (`AllocatedDataArrives`), `LengthIsRoundedUp`
  (`LengthRoundedUp`), with `DataInv`: `ChainInv`, between two slices the allocator
  leaves at least the fixed part that precedes the second on the wire; `HoldsInv`,
  slices not yet copied hold their data; `PlaceInv`, the store function is never
  past the slice it comes to next. So lists only move down, onto bytes that nobody
  needs any more but, where it overlaps, the list itself: that case the theorem
  leaves open, and shows that no other list suffers from it. What `mem` holds is tracked up to address `Top`; `Arrives`
  speaks of bytes up to there, for every `Top`.
- Assumptions: `WidthsAssumption` (with `4 * U8 <= U16`: a payload whose words fit
  in `wlen` has a length of 16 bits, as 8 and 16 bits do), `SizesAssumption`,
  `LayoutsAssumption`.

**`SerdesProofs`**, for payloads of any number and size of members and every pair
of languages:

- `TypeCorrect` (with `SizeInv`: inside the loop, position, byte and remaining bits
  agree), `MembersAreWritten` (`MembersWritten`), `CReadsItsOwn` (`CReadsC`),
  `LanguagesAgree` (`SettledPayloadsAgree`). `MembersAreWritten` speaks of writers
  that do not fail, `CReadsItsOwn` of payloads that end within `MessageBodyLimit`,
  and `LanguagesAgree` of payloads that fit in `MaxWords` words; above that C#
  throws, Python raises and C wraps around.
- `LayoutInv`: there are offsets, one per member, at which the writer came to
  them; the bits of every written member are whole at its offset and below what
  the writer has reached; and if both sides are C, each offset follows from the one before
  (`EndInC`) and the reader goes through the same offsets. `HalfWritten` and
  `HalfRead` say the same of the bits an unfinished loop has moved.
  `IterationFacts` is the core: the byte, fill and shift that the code computes put
  bit j of a member at `offset + size - 1 - j`, whatever the offset in the byte.
- `LanguagesAgree` does not compare the nine pairs of writer and reader: `TrackInv`
  pins each of them to the payload alone. Whoever comes to member i is at
  `Total(payload, i - 1)`, the sizes of the members before it, once both are
  aligned; and exactly there, whole bytes before the bit members that end there
  (`Run`), as long as a bit member is still to come. The second half is what makes
  it inductive: an offset that only agrees up to alignment would be enough for the
  data, but not after the next bit member, and `Settled` says that none follows a
  group that does not fill its last byte. `TrackStep` is the step from a member to the next, the
  same for all the ways in which the languages align; `LayoutInv` keeps that the
  writer was on track at every member, so the reader finds it (`ReaderFinds`).
  `SettledInv` is what the reader has, and that nobody failed: `WholeFits`,
  `BitsFit` and `EndFits` bound the positions of every writer by `Total` rounded up
  to words, although `InitBuffer` does not count the gaps; so no buffer is exceeded
  (`NoOverrun`), and what was written lies within the length in the header
  (`LengthCovers`), where the reader can see it. `SumFunction` takes the elements
  of a set by CHOOSE; `SumSteps` of `CommonLemmas` shows that the order does not
  matter.
- Assumptions: `LimitsAssumption` (the longest message fits in Python's buffer, as
  255 words do in 1024 bytes), `PayloadsAssumption` (bit members of 1 to 32 bits, boundaries of no
  bits, and `Top` large enough for each payload with up to seven bits of alignment
  per member, since bits beyond `Top` are not represented).

**`RpcBindingProofs`**, for every set of instances, handlers and users and every
number of subscriptions:

- `TypeCorrect`, `ServedOnce` (`NoneServedTwice`), `SkipsBounded`
  (`SkippedAtMostRemoved`).
- `IInv` adds `Ordered`, the list is in the order of subscription, and
  `ServedBehind`, what a loop has called was subscribed before everything that is
  still ahead of it. `NoneServedTwice` alone is not inductive: without the order,
  the element the loop takes next could be one that comes again later. `Removed`
  says how `list.remove` moves elements; `MinFirst`, from the well-foundedness of
  the naturals, that there is a first one to remove. A removal brings at most one
  element behind the loop's index that the loop has not called
  (`UnsubscribeSkipsOne`), every other step none.
- Assumption: `ConstantsAssumption`.

**`GeneratorProofs`**, for every set of identifiers, structure names, locations and
every bound:

- `IdsSurvive` (`IdsSurviveHeaders`): `RegisteredInv` bounds the identifiers, and
  the header functions keep every 12-bit number. `EndpointsFit`
  (`EndpointsAgree`) holds of every table of calls.
- `FilesHaveOwners` (`WrittenByOwner`), `OverwritesAreAsked`
  (`NoUnaskedOverwrite`), `CurrentWhenComplete` (`FilesAreCurrent`): `IInv` adds
  `CacheInv`, outputs own their paths in `_path_cache`; `TodoInv`, what is to be
  written comes from `_output_cache`; `PendingInv`, each file that was not declined
  is current or still to be written.
- `TypeCorrect`: a layout has one entry more than the structure has lists
  (`DefinitionInv`).
- `LayoutIsStored` (`LayoutMatchesStore`), for structures of any number of members
  nested to any depth. The property speaks of a whole structure from its beginning,
  the proof needs what its items do wherever they begin: `StoreInv` says that
  storing them from any segments on adds the layout to the `Weights` of these. A
  segment's `Weight`, eight times its bytes plus its bits minus four for each group
  that ended inside a byte, is what `struct()` counts, and aligning leaves it as it
  is (`AlignedWeight`); layouts are joined the same way whether members or items are
  added (`JoinTwice`, `ExtendedJoins`). At the end of a structure the bytes can be
  told from the weight if there is at most one such group.
- Assumptions: `DefinitionAssumption`, `GeneratorAssumption`, `NamesAssumption` (a
  structure is not one of the types that are not structures).

Facts about folds, recursive functions and sequences of any length are proved
with `Smallest` of `CommonLemmas`: a set of naturals that is not empty has a least
element, so a claim that fails somewhere fails somewhere first.

Only model-checked: liveness (`CallsEnd`, `TimedCallsEnd`, `ReplyEndsCall`,
`DisposeEndsCalls`, `NotificationsDispatched`, `DeliveredUnlessCut`,
`CloseIsReported`, `DispatchEnds`), since ENABLED and fairness are out of the
prover's reach. Every invariant and action property of the passing runs, and both
refinements, are theorems.

## 5. Not modelled, and the plan

Done first: the sessions, because every call depends on them; then framing, the
allocator and the payload, where C, C# and Python must agree; then the shared
`Rpc` object, header bytes, definitions, code generation and `Generator`. Left:

1. `TcpProxy`: accept loop, client task, notifications and disposal around one
   C# session; a client replaced while its call is awaited.
2. C# notification handlers with the SynchronizationContext, and continuations
   that run in the read task.
3. Python sessions used by several threads, to say what breaks.
4. Slice copies and bit field helpers of the C header as operators.

Not planned: the text of generated code beyond what `CodeGen` keeps, the checks
of annotations in the decorators (they raise and change nothing), the devices
under the transports, the build script, examples and tests.

Left out of the modules that are there, because no property depends on it or the
case cannot come up:

- `PySession`: the second test for an unknown rpc_id, in `recv_response`
  (`compost_rpc.py:1197-1199`), which what `receiver` lets through always passes; an exception of
  `resp_serdes.unpack` (767), which ends a call that has got its answer; a
  `transport.send` that blocks or raises in the middle of a message.
- `CsSession`: an exception while the message is built, after its number was taken
  (to the others a number that is never used); exceptions of the handlers of
  `UnexpectedMessageReceived` and `NotificationReceived` (`Session.cs:183, 277`),
  which end the read task as a failed read does (`ReadFails`).
- `CServer`: the returns with `EFLAGS` and `EINVAL`, for reserved flags, which no
  session sets (`Header` has what the readers make of them), and for buffers that
  are missing or shorter than a header.
- `Generator`: exceptions of `_define_types` and the empty result when a template
  is missing (`compost_rpc.py:1810-1813`).
