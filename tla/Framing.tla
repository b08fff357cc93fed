------------------------------ MODULE Framing ------------------------------
(***************************************************************************)
(* Cutting a byte stream into messages: the Python TcpTransport,           *)
(* StdioTransport and SerialTransport, and Message.FromStreamAsync of C#   *)
(* on ReadExactlyAsync.  The stream delivers the bytes in order, as many   *)
(* at a time as it likes.  All readers read four bytes, take the number of *)
(* payload words from the first one, and read the payload; they differ in  *)
(* how they deal with a read that returns less than was asked for.         *)
(***************************************************************************)
EXTENDS Naturals, FiniteSets, SequencesExt

CONSTANTS
    Readers,        \* some of Transports
    MaxWords,       \* bound: words of a payload
    MaxMessages     \* bound: messages sent

\* The Python transports, and the C# extension method under all of them.
PythonTransports == {"TcpTransport", "StdioTransport", "SerialTransport"}
Transports == PythonTransports \cup {"ReadExactly"}

ASSUME ReaderAssumption ==
    /\ Readers \subseteq Transports
    /\ MaxWords \in Nat
    /\ MaxMessages \in Nat

VARIABLES
    reader,     \* which of the readers this is
    wire,       \* bytes that were sent and not yet read
    open,       \* the peer has not closed the connection
    phase,      \* reading a header or a payload, or the reader has ended
    header,     \* the header that was read, during the payload
    part,       \* what was read of the header or the payload
    received,   \* the loop's counter of bytes
    \* History.
    sent,       \* the messages the peer has sent
    delivered,  \* the messages the reader has returned
    raised,     \* the reader has thrown an exception since the close, or before it
    cut         \* something arrived in more pieces than the reader can deal with

vars == <<reader, wire, open, phase, header, part, received, sent, delivered, raised, cut>>

HeaderSize == 4

\* The n-th message: its length in words comes first, then its number, and
\* whatever the payload is, it may look like a header.
Frame(n, words, fill) == <<words, n, 0, 0>> \o [i \in 1 .. 4 * words |-> fill]

Init ==
    /\ reader \in Readers
    /\ wire = <<>>
    /\ open = TRUE
    /\ phase = "header"
    /\ header = <<>>
    /\ part = <<>>
    /\ received = 0
    /\ sent = <<>>
    /\ delivered = <<>>
    /\ raised = FALSE
    /\ cut = FALSE
-----------------------------------------------------------------------------
(* The peer.                                                                *)

Send(words, fill) ==
    /\ open
    /\ Len(sent) < MaxMessages
    /\ LET m == Frame(Len(sent) + 1, words, fill)
       IN  /\ sent' = Append(sent, m)
           /\ wire' = wire \o m
    /\ UNCHANGED <<reader, open, phase, header, part, received, delivered, raised, cut>>

Close ==
    /\ open
    /\ open' = FALSE
    /\ raised' = FALSE
    /\ UNCHANGED <<reader, wire, phase, header, part, received, sent, delivered, cut>>
-----------------------------------------------------------------------------
(* The reader.                                                              *)

\* How many bytes the loop wants in all ...
Total == IF phase = "header" THEN HeaderSize ELSE 4 * header[1]

\* Mutant of Asked: what was read before is not subtracted.
Asked_all == Total

\* ... and how many it asks for.
Asked == Total - received

\* Mutants of Count: one byte of every read is forgotten, and none is counted.
Count_less(now, k) == received + k - 1
Count_none(now, k) == 0

\* StdioTransport does not loop: the pipe is unbuffered, and one read is all.
\* pyserial's read, without a timeout, loops as ReadExactlyAsync does.
OneRead == reader = "StdioTransport"
Exact == reader \in {"SerialTransport", "ReadExactly"}

\* The loop's counter after a read of k bytes: TcpTransport adds everything
\* there is by now, the exact readers add what the read returned.
Count(now, k) ==
    CASE OneRead -> Total
      [] Exact   -> received + k
      [] OTHER   -> received + Len(now)

\* The next call begins.
Restart ==
    /\ phase' = "header"
    /\ header' = <<>>
    /\ part' = <<>>
    /\ received' = 0

\* The exception is put into the queue and the listener thread calls again; in
\* C# it ends the read task.
Throw ==
    /\ raised' = TRUE
    /\ header' = <<>>
    /\ part' = <<>>
    /\ received' = 0
    /\ phase' = IF reader \in PythonTransports THEN "header" ELSE "ended"
    /\ UNCHANGED delivered

Deliver(m) ==
    /\ delivered' = Append(delivered, m)
    /\ Restart
    /\ UNCHANGED raised

\* What follows a read that leaves bytes in now and the counter at count: the
\* loop goes on or ends, and a header of the wrong size cannot be unpacked.
Proceed(now, count) ==
    \/ /\ count < Total
       /\ part' = now
       /\ received' = count
       /\ UNCHANGED <<phase, header, delivered, raised>>
    \/ /\ count >= Total
       /\ phase = "header"
       /\ Len(now) # HeaderSize
       /\ Throw
    \/ /\ count >= Total
       /\ phase = "header"
       /\ Len(now) = HeaderSize
       /\ IF now[1] = 0
          THEN Deliver(now)
          ELSE /\ phase' = "payload"
               /\ header' = now
               /\ part' = <<>>
               /\ received' = 0
               /\ UNCHANGED <<delivered, raised>>
    \/ /\ count >= Total
       /\ phase = "payload"
       /\ Deliver(header \o now)

\* A read was one too many and still not the last: StdioTransport reads once,
\* and TcpTransport counts the first piece twice when it adds the second one.
Cut(now) == Len(now) < Total /\ (OneRead \/ (~ Exact /\ part # <<>>))

\* A read returns k bytes.
Recv(k) ==
    LET now == part \o SubSeq(wire, 1, k)
    IN  /\ phase # "ended"
        /\ k <= Asked
        /\ wire' = SubSeq(wire, k + 1, Len(wire))
        /\ Proceed(now, Count(now, k))
        /\ cut' = (cut \/ Cut(now))
        /\ UNCHANGED <<reader, open, sent>>

\* Mutant of EndIsError: nobody looks for the end of the stream.
EndIsError_never == FALSE

\* Whether a read of no bytes is taken for the end of the stream: TcpTransport
\* looks at what it has so far, the exact readers at what the read returned,
\* and StdioTransport at the length of a header only.
EndIsError == Exact \/ (~ OneRead /\ part = <<>>)

\* A read finds the stream closed and returns nothing.
RecvEnd ==
    /\ phase # "ended"
    /\ ~ open
    /\ wire = <<>>
    /\ \/ /\ EndIsError
          /\ Throw
          /\ UNCHANGED cut
       \/ /\ ~ EndIsError
          /\ Proceed(part, Count(part, 0))
          /\ cut' = (cut \/ Cut(part))
    /\ UNCHANGED <<reader, wire, open, sent>>
-----------------------------------------------------------------------------
Read == RecvEnd \/ \E k \in 1 .. Len(wire) : Recv(k)

Next ==
    \/ \E words \in 0 .. MaxWords, fill \in 0 .. 1 : Send(words, fill)
    \/ Close
    \/ Read

Spec == Init /\ [][Next]_vars

\* The reader's thread or task runs.  The peer need not send or close.
FairSpec == Spec /\ WF_vars(Read)
-----------------------------------------------------------------------------
(* Properties.                                                              *)

\* Type invariant: in particular the counter never lags behind the bytes, and
\* the exact readers are never cut.
TypeOK ==
    /\ reader \in Readers
    /\ wire \in Seq(0 .. MaxWords + MaxMessages + 1)
    /\ open \in BOOLEAN
    /\ phase \in {"header", "payload", "ended"}
    /\ Len(header) \in {0, HeaderSize}
    /\ received \in Nat
    /\ Len(part) <= received
    /\ raised \in BOOLEAN
    /\ cut \in BOOLEAN
    /\ Exact => ~ cut

\* The reader returns the messages that were sent, whole, in order and each
\* once, however the stream cuts them, if the reader is an exact one
\* (SerialTransport and Message.FromStreamAsync), and unless the stream cuts a
\* header or a payload into more than two pieces for TcpTransport, or at all
\* for StdioTransport.
WholeUnlessCut == ~ cut => IsPrefix(delivered, sent)

\* ... and it returns every one of them, also those that come before the close.
DeliveredUnlessCut ==
    \A n \in 1 .. MaxMessages : Len(sent) >= n ~> Len(delivered) >= n \/ cut

\* A peer that closes the connection is reported by an exception, and the loops
\* do not spin on the empty reads.
CloseIsReported == ~ open ~> raised
=============================================================================
