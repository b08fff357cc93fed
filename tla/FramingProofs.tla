--------------------------- MODULE FramingProofs ----------------------------
(***************************************************************************)
(* Proofs about Framing: the readers return the messages that were sent,   *)
(* whole and in order, however the stream cuts them.                       *)
(***************************************************************************)
EXTENDS Framing, CommonLemmas

-----------------------------------------------------------------------------
(* The inductive invariant.                                                 *)

\* What can be on the wire, and a message: its first byte tells its length.
Bytes == 0 .. MaxWords + MaxMessages + 1
Message == {m \in Seq(Bytes) : m # <<>> /\ Len(m) = 4 + 4 * m[1]}

\* The messages that the reader has not returned yet.
Rest == SubSeq(sent, Len(delivered) + 1, Len(sent))

\* What holds for every reader, cut or not.
ReaderInv ==
    /\ header \in Seq(Bytes)
    /\ part \in Seq(Bytes)
    /\ phase = "payload" => Len(header) = HeaderSize /\ header[1] # 0
    /\ phase # "payload" => header = <<>>
    /\ OneRead => part = <<>> /\ received = 0

HistoryInv ==
    /\ sent \in Seq(Message)
    /\ Len(sent) <= MaxMessages
    /\ delivered \in Seq(Seq(Bytes))

\* What was read of the first message, and what follows it, are the messages that
\* the reader has not returned.
Consistent(read, after) == header \o (read \o after) = FlattenSeq(Rest)

\* As long as the reader was not cut, its counter is right, and what it has read
\* and what is still on the wire are just the messages that it has not returned.
WholeInv ==
    ~ cut =>
        /\ received = Len(part)
        /\ Len(delivered) <= Len(sent)
        /\ \A i \in 1 .. Len(delivered) : delivered[i] = sent[i]
        /\ phase # "ended" => /\ Len(part) < Total
                              /\ Consistent(part, wire)

IInv ==
    /\ TypeOK
    /\ ReaderInv
    /\ HistoryInv
    /\ WholeInv
-----------------------------------------------------------------------------
(* Sequences of bytes.                                                      *)

LEMMA Associative == \A u, v, w \in Seq(Bytes) : (u \o v) \o w = u \o (v \o w)
  OBVIOUS

\* A read takes the first k bytes from the wire.
LEMMA TakeBytes ==
    ASSUME NEW S, NEW s \in Seq(S), NEW k \in 0 .. Len(s)
    PROVE  /\ SubSeq(s, 1, k) \in Seq(S) /\ Len(SubSeq(s, 1, k)) = k
           /\ SubSeq(s, k + 1, Len(s)) \in Seq(S)
           /\ SubSeq(s, 1, k) \o SubSeq(s, k + 1, Len(s)) = s
  <1> DEFINE a == SubSeq(s, 1, k)
             b == SubSeq(s, k + 1, Len(s))
             c == a \o b
  <1>1. Len(s) \in Nat /\ k \in Nat /\ k <= Len(s)
    OBVIOUS
  <1>2. /\ a \in Seq(S) /\ Len(a) = k /\ \A i \in 1 .. k : a[i] = s[i]
    BY <1>1
  <1>3. /\ b \in Seq(S) /\ Len(b) = Len(s) - k /\ \A i \in 1 .. Len(s) - k : b[i] = s[k + i]
    BY <1>1
  <1> HIDE DEF a, b
  <1>4. /\ c \in Seq(S) /\ Len(c) = Len(s)
        /\ \A i \in 1 .. Len(s) : c[i] = IF i <= k THEN a[i] ELSE b[i - k]
    BY <1>1, <1>2, <1>3
  <1> HIDE DEF c
  <1>5. ASSUME NEW i \in 1 .. Len(s)
        PROVE  c[i] = s[i]
    <2>1. CASE i <= k
      BY <1>1, <1>2, <1>4, <2>1
    <2>2. CASE ~ (i <= k)
      <3>1. i - k \in 1 .. Len(s) - k /\ k + (i - k) = i
        BY <1>1, <2>2
      <3>2. c[i] = b[i - k]
        BY <1>4, <2>2
      <3>3. b[i - k] = s[k + (i - k)]
        BY <1>3, <3>1
      <3>4. QED
        BY <3>1, <3>2, <3>3
    <2>3. QED
      BY <2>1, <2>2
  <1>6. c = s
    BY <1>4, <1>5, SeqEqual
  <1>7. QED
    BY <1>2, <1>3, <1>6 DEF a, b, c

\* Two ways to cut the same bytes at the same place.
LEMMA SameCut ==
    ASSUME NEW S, NEW u \in Seq(S), NEW v \in Seq(S), NEW m \in Seq(S), NEW w \in Seq(S),
           u \o v = m \o w, Len(u) = Len(m)
    PROVE  u = m /\ v = w
  <1> DEFINE a == u \o v
             b == m \o w
  <1>1. /\ Len(a) = Len(u) + Len(v) /\ \A i \in 1 .. Len(u) + Len(v) :
               a[i] = IF i <= Len(u) THEN u[i] ELSE v[i - Len(u)]
    BY ConcatProperties
  <1>2. /\ Len(b) = Len(m) + Len(w) /\ \A i \in 1 .. Len(m) + Len(w) :
               b[i] = IF i <= Len(m) THEN m[i] ELSE w[i - Len(m)]
    BY ConcatProperties
  <1>3. a = b
    OBVIOUS
  <1>4. Len(u) \in Nat /\ Len(v) \in Nat /\ Len(w) \in Nat /\ Len(m) \in Nat
    OBVIOUS
  <1> HIDE DEF a, b
  <1>5. Len(v) = Len(w)
    BY <1>1, <1>2, <1>3, <1>4
  <1>6. \A i \in 1 .. Len(u) : u[i] = m[i]
    BY <1>1, <1>2, <1>3, <1>4, <1>5
  <1>7. ASSUME NEW i \in 1 .. Len(v)
        PROVE  v[i] = w[i]
    <2>1. Len(u) + i \in 1 .. Len(u) + Len(v) /\ ~ (Len(u) + i <= Len(u)) /\ (Len(u) + i) - Len(u) = i
      BY <1>4
    <2>2. a[Len(u) + i] = v[i]
      BY <1>1, <2>1
    <2>3. b[Len(u) + i] = w[i]
      BY <1>2, <1>5, <2>1
    <2>4. QED
      BY <1>3, <2>2, <2>3
  <1>8. u = m
    BY <1>6, SeqEqual
  <1>9. v = w
    BY <1>5, <1>7, SeqEqual
  <1>10. QED
    BY <1>8, <1>9

\* The first byte and the number of bytes of two parts.
LEMMA TwoParts ==
    ASSUME NEW S, NEW u \in Seq(S), NEW v \in Seq(S)
    PROVE  /\ u \o v \in Seq(S) /\ Len(u \o v) = Len(u) + Len(v)
           /\ u # <<>> => (u \o v)[1] = u[1]
  <1>1. /\ u \o v \in Seq(S) /\ Len(u \o v) = Len(u) + Len(v)
        /\ \A i \in 1 .. Len(u) + Len(v) : (u \o v)[i] = IF i <= Len(u) THEN u[i] ELSE v[i - Len(u)]
    BY ConcatProperties
  <1>2. u # <<>> => Len(u) >= 1 /\ 1 \in 1 .. Len(u) + Len(v)
    OBVIOUS
  <1>3. QED
    BY <1>1, <1>2

LEMMA NotEmpty ==
    ASSUME NEW S, NEW s \in Seq(S), Len(s) = 4
    PROVE  s # <<>>
  <1>1. Len(<<>>) = 0
    OBVIOUS
  <1>2. s = <<>> => Len(s) = Len(<<>>)
    OBVIOUS
  <1>3. QED
    BY <1>1, <1>2

\* What the peer sends are messages.
LEMMA FrameIsMessage ==
    ASSUME NEW n \in 1 .. MaxMessages, NEW words \in 0 .. MaxWords, NEW fill \in 0 .. 1
    PROVE  Frame(n, words, fill) \in Message
  <1> DEFINE h == <<words, n, 0, 0>>
             p == [i \in 1 .. 4 * words |-> fill]
  <1>1. words \in Bytes /\ n \in Bytes /\ 0 \in Bytes /\ fill \in Bytes
    BY ReaderAssumption DEF Bytes
  <1>2. h \in Seq(Bytes) /\ Len(h) = 4 /\ h # <<>> /\ h[1] = words
    BY <1>1
  <1>3. 4 * words \in Nat
    BY ReaderAssumption
  <1>4. p \in Seq(Bytes) /\ Len(p) = 4 * words
    BY <1>1, <1>3
  <1> HIDE DEF h, p
  <1>5. h \o p \in Seq(Bytes) /\ Len(h \o p) = 4 + 4 * words /\ (h \o p)[1] = words
    <2>1. h \in Seq(Bytes) /\ p \in Seq(Bytes)
      BY <1>2, <1>4
    <2>2. /\ h \o p \in Seq(Bytes) /\ Len(h \o p) = Len(h) + Len(p)
          /\ h # <<>> => (h \o p)[1] = h[1]
      BY <2>1, TwoParts
    <2>3. QED
      BY <1>2, <1>4, <2>2
  <1>6. h \o p # <<>>
    BY <1>3, <1>5
  <1>7. h \o p \in Message
    BY <1>5, <1>6 DEF Message
  <1>8. QED
    BY <1>7 DEF Frame, h, p

LEMMA MessagesAreBytes ==
    ASSUME NEW s \in Seq(Message)
    PROVE  s \in Seq(Seq(Bytes))
  <1>1. Message \subseteq Seq(Bytes)
    BY DEF Message
  <1>2. QED
    BY <1>1

\* Bytes that are messages begin with a whole one.
LEMMA FirstMessage ==
    ASSUME NEW bytes \in Seq(Bytes), bytes # <<>>,
           NEW rest \in Seq(Message), bytes = FlattenSeq(rest)
    PROVE  /\ rest # <<>> /\ Head(rest) \in Message
           /\ FlattenSeq(Tail(rest)) \in Seq(Bytes)
           /\ bytes = Head(rest) \o FlattenSeq(Tail(rest))
           /\ bytes[1] = Head(rest)[1]
           /\ Len(bytes) >= 4 + 4 * bytes[1]
  <1>1. rest \in Seq(Seq(Bytes))
    BY MessagesAreBytes
  <1>2. rest # <<>>
    BY DEF FlattenSeq
  <1>3. Head(rest) \in Message /\ Tail(rest) \in Seq(Message)
    BY <1>2, HeadTailProperties
  <1>4. Tail(rest) \in Seq(Seq(Bytes))
    BY <1>3, MessagesAreBytes
  <1>5. FlattenSeq(Tail(rest)) \in Seq(Bytes)
    BY <1>4, FlattenRange
  <1>6. bytes = Head(rest) \o FlattenSeq(Tail(rest))
    BY <1>1, <1>2, FlattenHead
  <1> DEFINE m == Head(rest)
             w == FlattenSeq(Tail(rest))
  <1>7. m \in Seq(Bytes) /\ m # <<>> /\ Len(m) = 4 + 4 * m[1] /\ w \in Seq(Bytes) /\ bytes = m \o w
    BY <1>3, <1>5, <1>6 DEF Message
  <1> HIDE DEF m, w
  <1>8. Len(m \o w) = Len(m) + Len(w) /\ (m \o w)[1] = m[1]
    BY <1>7, TwoParts
  <1>9. Len(w) \in Nat /\ m[1] \in Int
    <2>1. Len(w) \in Nat /\ 1 \in 1 .. Len(m)
      BY <1>7
    <2>2. m[1] \in Bytes
      BY <1>7, <2>1, ElementOfSeq
    <2>3. QED
      BY <2>1, <2>2, ReaderAssumption DEF Bytes
  <1>10. Len(bytes) >= 4 + 4 * bytes[1] /\ bytes[1] = m[1]
    BY <1>7, <1>8, <1>9
  <1>11. QED
    BY <1>2, <1>3, <1>5, <1>6, <1>10 DEF m, w

\* If the first message has the length of what was read, it is what was read.
LEMMA WholeMessage ==
    ASSUME NEW u \in Message, NEW v \in Seq(Bytes), NEW rest \in Seq(Message)
    PROVE  u \o v = FlattenSeq(rest)
               => rest # <<>> /\ u = Head(rest) /\ v = FlattenSeq(Tail(rest))
  <1> DEFINE bytes == u \o v
             m == Head(rest)
             w == FlattenSeq(Tail(rest))
  <1>b. u \in Seq(Bytes)
    BY DEF Message
  <1>a. /\ bytes \in Seq(Bytes) /\ Len(bytes) = Len(u) + Len(v)
        /\ u # <<>> => bytes[1] = u[1]
    BY <1>b, TwoParts
  <1> SUFFICES ASSUME u \o v = FlattenSeq(rest)
               PROVE  rest # <<>> /\ u = m /\ v = w
    OBVIOUS
  <1>c. u # <<>> /\ Len(u) = 4 + 4 * u[1]
    BY DEF Message
  <1>1. bytes \in Seq(Bytes) /\ Len(bytes) = Len(u) + Len(v) /\ bytes[1] = u[1]
    BY <1>a, <1>c, Zenon
  <1>2. bytes # <<>>
    <2>1. Len(u) \in Nat \ {0} /\ Len(v) \in Nat
      BY <1>b, <1>c
    <2> HIDE DEF bytes
    <2>2. QED
      BY <1>1, <2>1
  <1>3. bytes = FlattenSeq(rest)
    OBVIOUS
  <1> HIDE DEF bytes
  <1>4. rest # <<>> /\ m \in Message /\ w \in Seq(Bytes) /\ bytes = m \o w /\ bytes[1] = m[1]
    BY <1>1, <1>2, <1>3, FirstMessage
  <1>5. m \in Seq(Bytes) /\ Len(m) = 4 + 4 * m[1]
    BY <1>4 DEF Message
  <1>6. Len(u) = Len(m) /\ u \o v = m \o w
    BY <1>1, <1>4, <1>5, <1>c DEF bytes
  <1> HIDE DEF m, w
  <1>7. u = m /\ v = w
    BY <1>b, <1>4, <1>5, <1>6, SameCut
  <1>8. QED
    BY <1>4, <1>7 DEF m, w

\* The messages not yet returned, after one more is returned or sent.
LEMMA RestTail ==
    ASSUME NEW S, NEW s \in Seq(S), NEW n \in Nat, n < Len(s)
    PROVE  /\ SubSeq(s, n + 1, Len(s)) \in Seq(S)
           /\ SubSeq(s, n + 1, Len(s)) # <<>>
           /\ Head(SubSeq(s, n + 1, Len(s))) = s[n + 1]
           /\ Tail(SubSeq(s, n + 1, Len(s))) = SubSeq(s, n + 2, Len(s))
  <1> DEFINE a == SubSeq(s, n + 1, Len(s))
             b == SubSeq(s, n + 2, Len(s))
  <1>1. Len(s) \in Nat /\ n + 1 <= Len(s)
    OBVIOUS
  <1>2. /\ a \in Seq(S) /\ Len(a) = Len(s) - n /\ \A i \in 1 .. Len(s) - n : a[i] = s[n + i]
    BY <1>1
  <1>3. /\ b \in Seq(S) /\ Len(b) = Len(s) - n - 1 /\ \A i \in 1 .. Len(s) - n - 1 : b[i] = s[n + 1 + i]
    BY <1>1
  <1> HIDE DEF a, b
  <1>4. a # <<>> /\ Len(a) \in Nat \ {0}
    BY <1>1, <1>2
  <1>5. Head(a) = s[n + 1]
    <2>1. Head(a) = a[1] /\ 1 \in 1 .. Len(s) - n
      BY <1>1, <1>2, <1>4
    <2>2. QED
      BY <1>2, <2>1
  <1>6. Tail(a) \in Seq(S) /\ Len(Tail(a)) = Len(a) - 1
        /\ \A i \in 1 .. Len(Tail(a)) : Tail(a)[i] = a[i + 1]
    BY <1>2, <1>4, HeadTailProperties
  <1> DEFINE t == Tail(a)
  <1>7. t \in Seq(S) /\ Len(t) = Len(b) /\ \A i \in 1 .. Len(t) : t[i] = a[i + 1]
    BY <1>1, <1>2, <1>3, <1>6
  <1> HIDE DEF t
  <1>8. ASSUME NEW i \in 1 .. Len(t)
        PROVE  t[i] = b[i]
    <2>1. i \in 1 .. Len(s) - n - 1 /\ i + 1 \in 1 .. Len(s) - n /\ n + (i + 1) = n + 1 + i
      BY <1>1, <1>3, <1>7
    <2>2. t[i] = s[n + (i + 1)]
      BY <1>2, <1>7, <2>1
    <2>3. b[i] = s[n + 1 + i]
      BY <1>3, <2>1
    <2>4. QED
      BY <2>1, <2>2, <2>3
  <1>9. t = b
    BY <1>3, <1>7, <1>8, SeqEqual
  <1>10. QED
    BY <1>2, <1>4, <1>5, <1>9 DEF a, b, t

LEMMA RestAppend ==
    ASSUME sent \in Seq(Message), Len(delivered) \in Nat, Len(delivered) <= Len(sent),
           NEW e \in Message, sent' = Append(sent, e), UNCHANGED delivered
    PROVE  Rest \in Seq(Message) /\ Rest' = Append(Rest, e)
  <1> DEFINE S == Message
             s == sent
             n == Len(delivered)
  <1>a. s \in Seq(S) /\ n \in Nat /\ n <= Len(s) /\ e \in S
    OBVIOUS
  <1> HIDE DEF S, s, n
  <1> DEFINE a == SubSeq(s, n + 1, Len(s))
             t == Append(s, e)
             b == SubSeq(t, n + 1, Len(s) + 1)
             c == Append(a, e)
             l == Len(s)
  <1>1. l \in Nat /\ n <= l /\ n \in Nat /\ s \in Seq(S) /\ e \in S
    BY <1>a
  <1>2. /\ a \in Seq(S) /\ Len(a) = l - n /\ \A i \in 1 .. l - n : a[i] = s[n + i]
    BY <1>1
  <1>3. /\ t \in Seq(S) /\ Len(t) = l + 1 /\ t[l + 1] = e /\ \A i \in 1 .. l : t[i] = s[i]
    BY <1>a
  <1> HIDE DEF a, t, l
  <1>4. /\ b \in Seq(S) /\ Len(b) = l + 1 - n /\ \A i \in 1 .. l + 1 - n : b[i] = t[n + i]
    <2>1. b = SubSeq(t, n + 1, l + 1)
      BY DEF l
    <2>2. QED
      BY <1>1, <1>3, <2>1
  <1>5. /\ c \in Seq(S) /\ Len(c) = l - n + 1 /\ c[l - n + 1] = e /\ \A i \in 1 .. l - n : c[i] = a[i]
    <2>1. /\ c \in Seq(S) /\ Len(c) = Len(a) + 1 /\ c[Len(a) + 1] = e
          /\ \A i \in 1 .. Len(a) : c[i] = a[i]
      BY <1>a, <1>2, AppendProperties
    <2> HIDE DEF c
    <2>2. QED
      BY <1>1, <1>2, <2>1
  <1> HIDE DEF b, c
  <1>6. ASSUME NEW i \in 1 .. Len(b)
        PROVE  b[i] = c[i]
    <2>1. i \in 1 .. l + 1 - n
      BY <1>4
    <2>2. CASE i = l - n + 1
      <3>1. n + i = l + 1
        BY <1>1, <2>2
      <3>2. b[i] = t[l + 1]
        BY <1>4, <2>1, <3>1
      <3>3. QED
        BY <1>3, <1>5, <2>2, <3>2
    <2>3. CASE i # l - n + 1
      <3>1. i \in 1 .. l - n /\ n + i \in 1 .. l
        BY <1>1, <2>1, <2>3
      <3>2. b[i] = t[n + i] /\ t[n + i] = s[n + i] /\ c[i] = a[i] /\ a[i] = s[n + i]
        BY <1>2, <1>3, <1>4, <1>5, <2>1, <3>1
      <3>3. QED
        BY <3>2
    <2>4. QED
      BY <2>2, <2>3
  <1>7. b = c
    <2>1. Len(b) = Len(c)
      BY <1>1, <1>4, <1>5
    <2>2. QED
      BY <1>4, <1>5, <1>6, <2>1, SeqEqual
  <1>8. Rest = a /\ a \in Seq(Message)
    BY <1>2 DEF Rest, a, S, s, n
  <1>9. Rest' = b
    <2>1. sent' = t /\ delivered' = delivered
      BY DEF t, s
    <2>2. Len(sent') = l + 1 /\ Len(delivered') = n
      BY <1>3, <2>1 DEF n
    <2>3. Rest' = SubSeq(t, n + 1, l + 1)
      BY <2>1, <2>2 DEF Rest
    <2>4. QED
      BY <2>3 DEF b, l
  <1>10. QED
    BY <1>7, <1>8, <1>9 DEF c
-----------------------------------------------------------------------------
(* The loop of the readers.                                                 *)

\* How many bytes are wanted, and where the first byte is.
LEMMA TotalFacts ==
    ASSUME IInv
    PROVE  /\ phase = "payload" => header[1] \in Nat \ {0} /\ Total = 4 * header[1]
           /\ phase = "header" => Total = 4
           /\ phase # "ended" => Total \in Nat \ {0}
  <1>1. /\ header \in Seq(Bytes)
        /\ phase = "payload" => Len(header) = 4 /\ header[1] # 0
        /\ phase \in {"header", "payload", "ended"}
    BY DEF IInv, ReaderInv, TypeOK, HeaderSize
  <1>2. phase = "payload" => header[1] \in Bytes
    BY <1>1
  <1>3. phase = "payload" => header[1] \in Nat \ {0}
    BY <1>1, <1>2, ReaderAssumption DEF Bytes
  <1>4. QED
    BY <1>1, <1>3 DEF Total, HeaderSize

\* The state of the reader keeps its type.
LEMMA ProceedTypes ==
    ASSUME IInv, phase # "ended", NEW now \in Seq(Bytes), NEW count \in Nat,
           OneRead => count = Total, ~ OneRead => Len(now) <= count,
           Proceed(now, count), UNCHANGED reader
    PROVE  /\ phase' \in {"header", "payload", "ended"}
           /\ Len(header') \in {0, HeaderSize} /\ received' \in Nat /\ Len(part') <= received'
           /\ raised' \in BOOLEAN
           /\ ReaderInv'
           /\ delivered' \in Seq(Seq(Bytes))
  <1>1. /\ header \in Seq(Bytes) /\ part \in Seq(Bytes)
        /\ phase = "payload" => Len(header) = HeaderSize /\ header[1] # 0
        /\ phase # "payload" => header = <<>>
        /\ OneRead => part = <<>> /\ received = 0
        /\ Len(header) \in {0, HeaderSize}
        /\ phase \in {"header", "payload", "ended"} /\ raised \in BOOLEAN
        /\ delivered \in Seq(Seq(Bytes))
    BY DEF IInv, ReaderInv, TypeOK, HistoryInv
  <1>2. <<>> \in Seq(Bytes) /\ Len(<<>>) = 0 /\ 0 \in Nat
    OBVIOUS
  <1>3. OneRead' <=> OneRead
    BY DEF OneRead
  <1>4. Total \in Nat
    BY TotalFacts
  <1>5. CASE /\ count < Total
             /\ part' = now
             /\ received' = count
             /\ UNCHANGED <<phase, header, delivered, raised>>
    <2>1. ~ OneRead
      BY <1>4, <1>5
    <2>2. QED
      BY <1>1, <1>3, <1>5, <2>1 DEF ReaderInv
  <1>6. CASE Throw
    <2>1. /\ phase' \in {"header", "ended"} /\ header' = <<>> /\ part' = <<>> /\ received' = 0
          /\ raised' = TRUE /\ delivered' = delivered
      BY <1>6 DEF Throw
    <2>2. QED
      BY <1>1, <1>2, <2>1 DEF ReaderInv
  <1>7. ASSUME NEW m \in Seq(Bytes), Deliver(m)
        PROVE  /\ phase' = "header" /\ header' = <<>> /\ part' = <<>> /\ received' = 0
               /\ raised' = raised /\ delivered' \in Seq(Seq(Bytes))
    BY <1>1, <1>7 DEF Deliver, Restart
  <1>8. ASSUME NEW m \in Seq(Bytes), Deliver(m)
        PROVE  /\ phase' \in {"header", "payload", "ended"}
               /\ Len(header') \in {0, HeaderSize} /\ received' \in Nat /\ Len(part') <= received'
               /\ raised' \in BOOLEAN
               /\ ReaderInv'
               /\ delivered' \in Seq(Seq(Bytes))
    <2>1. /\ phase' = "header" /\ header' = <<>> /\ part' = <<>> /\ received' = 0
          /\ raised' = raised /\ delivered' \in Seq(Seq(Bytes))
      BY <1>7, <1>8
    <2>2. ReaderInv'
      BY <1>2, <2>1 DEF ReaderInv
    <2>3. QED
      BY <1>1, <1>2, <2>1, <2>2
  <1>9. CASE /\ phase = "header"
             /\ Len(now) = HeaderSize
             /\ now[1] # 0
             /\ phase' = "payload"
             /\ header' = now
             /\ part' = <<>>
             /\ received' = 0
             /\ UNCHANGED <<delivered, raised>>
    BY <1>1, <1>2, <1>9 DEF ReaderInv
  <1>10. header \o now \in Seq(Bytes)
    BY <1>1, ConcatProperties
  <1>11. QED
    BY <1>5, <1>6, <1>8, <1>9, <1>10 DEF Proceed

\* As long as the reader is not cut, it stores what it has read, or has read
\* exactly what it wants.
LEMMA ProceedWhole ==
    ASSUME IInv, ~ cut, phase # "ended", NEW now \in Seq(Bytes), NEW rest \in Seq(Bytes),
           NEW count \in Nat,
           count < Total => count = Len(now),
           count >= Total => Len(now) = Total,
           Consistent(now, rest),
           Proceed(now, count), wire' = rest, UNCHANGED <<reader, sent>>
    PROVE  WholeInv'
  <1>1. /\ header \in Seq(Bytes)
        /\ phase = "payload" => Len(header) = 4 /\ header[1] # 0
        /\ phase # "payload" => header = <<>>
        /\ phase \in {"header", "payload"}
        /\ delivered \in Seq(Seq(Bytes)) /\ sent \in Seq(Message)
        /\ Len(delivered) <= Len(sent)
        /\ \A i \in 1 .. Len(delivered) : delivered[i] = sent[i]
    BY DEF IInv, ReaderInv, TypeOK, HistoryInv, WholeInv, HeaderSize
  <1>a. (header \o now) \o rest = header \o (now \o rest)
    <2>1. header \in Seq(Bytes)
      BY <1>1
    <2>2. QED
      BY <2>1, Associative, Zenon
  <1>2. Total \in Nat \ {0} /\ Len(now) \in Nat
    BY TotalFacts
  <1>3. now \o rest \in Seq(Bytes) /\ <<>> \o (now \o rest) = now \o rest
        /\ <<>> \o rest = rest
    BY ConcatProperties, ConcatEmptySeq
  <1>4. CASE /\ count < Total
             /\ part' = now
             /\ received' = count
             /\ UNCHANGED <<phase, header, delivered, raised>>
    <2>1. Total' = Total /\ Rest' = Rest
      BY <1>4 DEF Total, Rest
    <2>2. Consistent(part, wire)'
      BY <1>4, <2>1 DEF Consistent
    <2>3. QED
      BY <1>1, <1>4, <2>1, <2>2 DEF WholeInv
  <1>5. CASE /\ count >= Total
             /\ phase = "header"
             /\ Len(now) = HeaderSize
             /\ now[1] # 0
             /\ phase' = "payload"
             /\ header' = now
             /\ part' = <<>>
             /\ received' = 0
             /\ UNCHANGED <<delivered, raised>>
    <2>1. Total' = 4 * now[1] /\ Rest' = Rest
      BY <1>5 DEF Total, Rest
    <2>2. now[1] \in Nat \ {0}
      <3>1. 1 \in 1 .. Len(now)
        BY <1>5 DEF HeaderSize
      <3>2. now[1] \in Bytes
        BY <3>1, ElementOfSeq
      <3>3. QED
        BY <1>5, <3>2, ReaderAssumption DEF Bytes
    <2>3. Len(part') = 0 /\ Len(part') < Total'
      BY <1>5, <2>1, <2>2
    <2>4. header' \o (part' \o wire') = now \o rest
      BY <1>3, <1>5
    <2>5. header \o (now \o rest) = now \o rest
      BY <1>1, <1>3, <1>5
    <2>6. Consistent(part, wire)'
      BY <2>1, <2>4, <2>5 DEF Consistent
    <2>7. QED
      BY <1>1, <1>5, <2>3, <2>6 DEF WholeInv
  <1>6. ASSUME NEW m \in Message, m \o rest = FlattenSeq(Rest), Deliver(m)
        PROVE  WholeInv'
    <2>1. /\ phase' = "header" /\ header' = <<>> /\ part' = <<>> /\ received' = 0
          /\ delivered' = Append(delivered, m)
      BY <1>6 DEF Deliver, Restart
    <2>a. m \in Seq(Bytes)
      BY DEF Message
    <2> DEFINE n == Len(delivered)
    <2>2. n \in Nat /\ n <= Len(sent) /\ Len(sent) \in Nat
      BY <1>1
    <2>3. Rest \in Seq(Message)
      BY <1>1, <2>2 DEF Rest
    <2>4. Rest # <<>> /\ m = Head(Rest) /\ rest = FlattenSeq(Tail(Rest))
      BY <1>6, <2>3, WholeMessage, ZenonT(30)
    <2>5. n < Len(sent)
      <3>1. n = Len(sent) => Rest = <<>>
        BY <1>1, <2>2 DEF Rest
      <3>2. QED
        BY <2>2, <2>4, <3>1
    <2>6. Head(Rest) = sent[n + 1] /\ Tail(Rest) = SubSeq(sent, n + 2, Len(sent))
      BY <1>1, <2>2, <2>5, RestTail DEF Rest
    <2>7. Len(delivered') = n + 1 /\ delivered'[n + 1] = m
          /\ \A i \in 1 .. n : delivered'[i] = delivered[i]
      BY <1>1, <2>1, <2>a
    <2> HIDE DEF n
    <2>8. \A i \in 1 .. n + 1 : delivered'[i] = sent[i]
      <3> SUFFICES ASSUME NEW i \in 1 .. n + 1
                   PROVE  delivered'[i] = sent[i]
        OBVIOUS
      <3>1. CASE i = n + 1
        BY <2>4, <2>6, <2>7, <3>1
      <3>2. CASE i # n + 1
        <4>1. i \in 1 .. n
          BY <2>2, <3>2
        <4>2. QED
          BY <1>1, <2>7, <4>1 DEF n
      <3>3. QED
        BY <3>1, <3>2
    <2>9. Rest' = Tail(Rest)
      <3>1. Rest' = SubSeq(sent, (n + 1) + 1, Len(sent)) /\ (n + 1) + 1 = n + 2
        BY <2>2, <2>7 DEF Rest
      <3>2. QED
        BY <2>6, <3>1
    <2>10. header' \o (part' \o wire') = rest
      BY <1>3, <2>1
    <2>11. Consistent(part, wire)'
      BY <2>4, <2>9, <2>10 DEF Consistent
    <2>12. Total' = 4 /\ Len(part') = 0
      BY <2>1 DEF Total, HeaderSize
    <2>13. QED
      BY <1>6, <2>1, <2>2, <2>5, <2>7, <2>8, <2>11, <2>12 DEF WholeInv
  <1>7. CASE /\ count >= Total
             /\ phase = "header"
             /\ Len(now) = HeaderSize
             /\ now[1] = 0
             /\ Deliver(now)
    <2>1. now \o rest = FlattenSeq(Rest)
      BY <1>1, <1>3, <1>7 DEF Consistent
    <2>2. Len(now) = 4 + 4 * now[1]
      BY <1>7 DEF HeaderSize
    <2>3. now # <<>>
      BY <1>7 DEF HeaderSize
    <2>4. now \in Message
      BY <2>2, <2>3 DEF Message
    <2>5. QED
      BY <1>6, <1>7, <2>1, <2>4
  <1>8. CASE /\ count >= Total
             /\ phase = "payload"
             /\ Deliver(header \o now)
    <2> DEFINE m == header \o now
    <2>a. Len(header) = 4 /\ Total = 4 * header[1] /\ Len(now) = Total
      BY <1>1, <1>8, TotalFacts
    <2>b. header # <<>>
      BY <1>1, <2>a, NotEmpty, Zenon
    <2>1. header # <<>> /\ Len(header) = 4 /\ Len(now) = 4 * header[1]
      BY <2>a, <2>b
    <2>2. m \in Seq(Bytes) /\ Len(m) = Len(header) + Len(now) /\ m[1] = header[1]
      BY <1>1, <2>b, TwoParts
    <2>3. m \o rest = header \o (now \o rest)
      BY <1>a
    <2> HIDE DEF m
    <2>4. Len(m) = 4 + 4 * m[1] /\ m # <<>>
      <3>1. Len(m) = 4 + 4 * m[1]
        BY <2>1, <2>2
      <3>2. m # <<>>
        BY <1>2, <2>1, <2>2
      <3>3. QED
        BY <3>1, <3>2
    <2>5. m \o rest = FlattenSeq(Rest)
      BY <2>3 DEF Consistent
    <2>6. m \in Message
      BY <2>2, <2>4 DEF Message
    <2>7. QED
      BY <1>6, <1>8, <2>5, <2>6 DEF m
  <1>9. ~ (/\ count >= Total
           /\ phase = "header"
           /\ Len(now) # HeaderSize)
    BY TotalFacts DEF HeaderSize
  <1>10. QED
    BY <1>4, <1>5, <1>7, <1>8, <1>9 DEF Proceed
-----------------------------------------------------------------------------
(* The invariant.                                                           *)

LEMMA InitIInv == Init => IInv
  <1> SUFFICES ASSUME Init
               PROVE  IInv
    OBVIOUS
  <1>1. <<>> \in Seq(Bytes) /\ <<>> \in Seq(Seq(Bytes)) /\ <<>> \in Seq(Message) /\ Len(<<>>) = 0
    OBVIOUS
  <1>2. TypeOK
    <2>1. wire \in Seq(0 .. MaxWords + MaxMessages + 1)
      BY DEF Init
    <2>2. Len(header) = 0 /\ Len(part) = 0 /\ received = 0
      BY <1>1 DEF Init
    <2>3. /\ reader \in Readers /\ open \in BOOLEAN /\ phase = "header" /\ raised \in BOOLEAN
          /\ cut \in BOOLEAN /\ ~ cut
      BY DEF Init
    <2>4. QED
      BY <2>1, <2>2, <2>3 DEF TypeOK
  <1>3. ReaderInv
    BY <1>1 DEF Init, ReaderInv
  <1>4. HistoryInv
    BY <1>1, ReaderAssumption DEF Init, HistoryInv
  <1>5. Rest = <<>>
    BY DEF Init, Rest
  <1>6. FlattenSeq(Rest) = <<>>
    BY <1>5 DEF FlattenSeq
  <1>7. Consistent(part, wire)
    BY <1>6 DEF Init, Consistent
  <1>8. Total = 4
    BY DEF Init, Total, HeaderSize
  <1>9. WholeInv
    BY <1>1, <1>7, <1>8 DEF Init, WholeInv
  <1>10. QED
    BY <1>2, <1>3, <1>4, <1>9 DEF IInv

LEMMA SendIInv ==
    ASSUME IInv, NEW words \in 0 .. MaxWords, NEW fill \in 0 .. 1, Send(words, fill)
    PROVE  IInv'
  <1> DEFINE m == Frame(Len(sent) + 1, words, fill)
  <1>1. /\ wire \in Seq(Bytes) /\ header \in Seq(Bytes) /\ part \in Seq(Bytes)
        /\ sent \in Seq(Message) /\ delivered \in Seq(Seq(Bytes))
    BY DEF IInv, ReaderInv, TypeOK, HistoryInv, Bytes
  <1>2. Len(sent) < MaxMessages /\ sent' = Append(sent, m) /\ wire' = wire \o m
        /\ UNCHANGED <<reader, open, phase, header, part, received, delivered, raised, cut>>
    BY DEF Send
  <1>3. m \in Message
    <2>1. Len(sent) + 1 \in 1 .. MaxMessages
      BY <1>1, <1>2, ReaderAssumption
    <2>2. QED
      BY <2>1, FrameIsMessage
  <1>4. m \in Seq(Bytes)
    BY <1>3 DEF Message
  <1> HIDE DEF m
  <1>5. wire \o m \in Seq(Bytes) /\ part \o wire \in Seq(Bytes)
    BY <1>1, <1>4, ConcatProperties
  <1>6. TypeOK'
    <2>1. wire' \in Seq(Bytes)
      BY <1>2, <1>5
    <2>2. wire' \in Seq(0 .. MaxWords + MaxMessages + 1)
      BY <2>1 DEF Bytes
    <2>3. QED
      BY <1>2, <2>2 DEF IInv, TypeOK, Exact
  <1>7. ReaderInv'
    BY <1>2 DEF IInv, ReaderInv, OneRead
  <1>8. HistoryInv'
    <2>1. sent' \in Seq(Message) /\ Len(sent') = Len(sent) + 1 /\ Len(sent) \in Nat
      BY <1>1, <1>2, <1>3
    <2>2. Len(sent') <= MaxMessages
      BY <1>2, <2>1, ReaderAssumption
    <2>3. QED
      BY <1>1, <1>2, <2>1, <2>2 DEF HistoryInv
  <1>9. (header \o (part \o wire)) \o m = header \o (part \o (wire \o m))
    <2>1. (header \o (part \o wire)) \o m = header \o ((part \o wire) \o m)
      <3>1. header \in Seq(Bytes) /\ part \o wire \in Seq(Bytes) /\ m \in Seq(Bytes)
        BY <1>1, <1>4, <1>5
      <3> DEFINE v == part \o wire
      <3> HIDE DEF v
      <3>2. (header \o v) \o m = header \o (v \o m)
        <4>1. v \in Seq(Bytes)
          BY <3>1 DEF v
        <4>2. QED
          BY <3>1, <4>1, Associative, Zenon
      <3>3. QED
        BY <3>2 DEF v
    <2>2. (part \o wire) \o m = part \o (wire \o m)
      BY <1>1, <1>4, Associative, Zenon
    <2>3. QED
      BY <2>1, <2>2
  <1>10. ASSUME ~ cut
         PROVE  WholeInv'
    <2>1. /\ received = Len(part)
          /\ Len(delivered) <= Len(sent)
          /\ \A i \in 1 .. Len(delivered) : delivered[i] = sent[i]
          /\ phase # "ended" => Len(part) < Total /\ Consistent(part, wire)
      BY <1>10 DEF IInv, WholeInv
    <2> DEFINE n == Len(delivered)
    <2>2. n \in Nat /\ Len(sent) \in Nat
      BY <1>1
    <2>3. /\ Len(sent') = Len(sent) + 1 /\ \A i \in 1 .. Len(sent) : sent'[i] = sent[i]
      BY <1>1, <1>2, <1>3
    <2>4. Rest \in Seq(Message) /\ Rest' = Append(Rest, m)
      BY <1>1, <1>2, <1>3, <2>1, <2>2, RestAppend
    <2>5. FlattenSeq(Rest') = FlattenSeq(Rest) \o m
      <3>1. Rest \in Seq(Seq(Bytes))
        BY <2>4, MessagesAreBytes
      <3>2. QED
        BY <1>4, <2>4, <3>1, FlattenAppend
    <2>6. Consistent(part, wire) => Consistent(part, wire)'
      BY <1>2, <1>9, <2>5 DEF Consistent
    <2>7. Total' = Total
      BY <1>2 DEF Total
    <2>8. \A i \in 1 .. n : sent'[i] = sent[i]
      BY <2>1, <2>2, <2>3
    <2>9. \A i \in 1 .. Len(delivered') : delivered'[i] = sent'[i]
      BY <1>2, <2>1, <2>8
    <2>10. Len(delivered') <= Len(sent')
      BY <1>2, <2>1, <2>2, <2>3
    <2>11. QED
      BY <1>2, <2>1, <2>6, <2>7, <2>9, <2>10 DEF WholeInv
  <1>11. WholeInv'
    BY <1>2, <1>10 DEF WholeInv
  <1>12. QED
    BY <1>6, <1>7, <1>8, <1>11 DEF IInv

\* What the peer's close, and a stuttering step, leave alone.
LEMMA SameIInv ==
    ASSUME IInv, open' \in BOOLEAN, raised' \in BOOLEAN,
           UNCHANGED <<reader, wire, phase, header, part, received, sent, delivered, cut>>
    PROVE  IInv'
  <1>1. Total' = Total /\ Rest' = Rest
    BY DEF Total, Rest
  <1>2. Consistent(part, wire)' <=> Consistent(part, wire)
    BY <1>1 DEF Consistent
  <1>3. WholeInv'
    BY <1>1, <1>2 DEF IInv, WholeInv
  <1>4. TypeOK' /\ ReaderInv' /\ HistoryInv'
    BY DEF IInv, TypeOK, ReaderInv, HistoryInv, OneRead, Exact
  <1>5. QED
    BY <1>3, <1>4 DEF IInv
\* The loop's counter: it never lags behind the bytes, and as long as the reader
\* is not cut it is right until all bytes are there.
LEMMA CountFacts ==
    ASSUME IInv, phase # "ended", NEW now \in Seq(Bytes), NEW k \in Nat,
           Len(now) = Len(part) + k
    PROVE  /\ Count(now, k) \in Nat
           /\ OneRead => Count(now, k) = Total
           /\ ~ OneRead => Len(now) <= Count(now, k)
           /\ ~ cut /\ ~ Cut(now) /\ Len(now) <= Total =>
                  /\ Count(now, k) < Total => Count(now, k) = Len(now)
                  /\ Count(now, k) >= Total => Len(now) = Total
  <1> DEFINE p == Len(part)
             n == Len(now)
             c == Count(now, k)
  <1>1. part \in Seq(Bytes) /\ received \in Nat /\ p <= received
    BY DEF IInv, ReaderInv, TypeOK
  <1>2. p \in Nat /\ n = p + k /\ n \in Nat /\ received \in Nat /\ p <= received
    BY <1>1
  <1>3. Total \in Nat
    BY TotalFacts
  <1>4. ~ cut => received = p
    BY DEF IInv, WholeInv
  <1>5. part = <<>> => p = 0
    OBVIOUS
  <1>6. ~ (OneRead /\ Exact)
    BY DEF OneRead, Exact
  <1>7. OneRead => c = Total
    BY <1>6 DEF Count
  <1>8. Exact => c = received + k
    BY <1>6 DEF Count
  <1>9. ~ OneRead /\ ~ Exact => c = received + n
    BY DEF Count
  <1>10. ~ Cut(now) /\ n < Total => ~ OneRead /\ (Exact \/ part = <<>>)
    BY DEF Cut
  <1> HIDE DEF p, n, c
  <1>11. CASE OneRead
    BY <1>2, <1>3, <1>7, <1>10, <1>11 DEF n, c
  <1>12. CASE Exact
    BY <1>2, <1>3, <1>4, <1>6, <1>8, <1>12 DEF n, c
  <1>13. CASE ~ OneRead /\ ~ Exact
    <2>1. c = received + n
      BY <1>9, <1>13
    <2>2. ~ cut /\ ~ Cut(now) /\ n < Total => c = n
      BY <1>2, <1>4, <1>5, <1>10, <1>13, <2>1
    <2>3. QED
      BY <1>2, <1>3, <1>13, <2>1, <2>2 DEF n, c
  <1>14. QED
    BY <1>11, <1>12, <1>13

\* A step of the loop: Proceed with the bytes now, and rest left on the wire.
LEMMA ReadIInv ==
    ASSUME IInv, phase # "ended", NEW now \in Seq(Bytes), NEW rest \in Seq(Bytes), NEW k \in Nat,
           Len(now) = Len(part) + k, Proceed(now, Count(now, k)),
           wire' = rest, cut' = (cut \/ Cut(now)), UNCHANGED <<reader, open, sent>>,
           ~ cut' => Len(now) <= Total /\ Consistent(now, rest)
    PROVE  IInv'
  <1> DEFINE c == Count(now, k)
  <1>1. /\ c \in Nat
        /\ OneRead => c = Total
        /\ ~ OneRead => Len(now) <= c
        /\ ~ cut /\ ~ Cut(now) /\ Len(now) <= Total =>
               /\ c < Total => c = Len(now)
               /\ c >= Total => Len(now) = Total
    BY CountFacts
  <1>2. Proceed(now, c)
    OBVIOUS
  <1> HIDE DEF c
  <1>3. /\ phase' \in {"header", "payload", "ended"}
        /\ Len(header') \in {0, HeaderSize} /\ received' \in Nat /\ Len(part') <= received'
        /\ raised' \in BOOLEAN
        /\ ReaderInv'
        /\ delivered' \in Seq(Seq(Bytes))
    BY <1>1, <1>2, ProceedTypes
  <1>4. reader \in Readers /\ open \in BOOLEAN /\ cut \in BOOLEAN /\ (Exact => ~ cut)
    BY DEF IInv, TypeOK
  <1>5. cut' \in BOOLEAN /\ (cut' <=> cut \/ Cut(now))
    BY <1>4 DEF Cut
  <1>6. Exact' => ~ cut'
    <2>1. Exact => ~ Cut(now)
      BY DEF Exact, OneRead, Cut
    <2>2. Exact' <=> Exact
      BY DEF Exact
    <2>3. QED
      BY <1>4, <1>5, <2>1, <2>2
  <1>7. TypeOK'
    <2>1. wire' \in Seq(0 .. MaxWords + MaxMessages + 1)
      BY DEF Bytes
    <2>2. QED
      BY <1>3, <1>4, <1>5, <1>6, <2>1 DEF TypeOK
  <1>8. HistoryInv'
    BY <1>3 DEF IInv, HistoryInv
  <1>9. ASSUME cut'
        PROVE  WholeInv'
    BY <1>9 DEF WholeInv
  <1>10. ASSUME ~ cut'
         PROVE  WholeInv'
    <2>1. ~ cut /\ ~ Cut(now) /\ Len(now) <= Total /\ Consistent(now, rest)
      BY <1>5, <1>10
    <2>2. /\ c < Total => c = Len(now)
          /\ c >= Total => Len(now) = Total
      BY <1>1, <2>1
    <2>3. WholeInv'
      BY <1>1, <1>2, <2>1, <2>2, ProceedWhole
    <2>4. QED
      BY <2>3
  <1>11. WholeInv'
    BY <1>9, <1>10
  <1>12. QED
    BY <1>3, <1>7, <1>8, <1>11 DEF IInv

LEMMA RecvIInv ==
    ASSUME IInv, NEW k \in 1 .. Len(wire), Recv(k)
    PROVE  IInv'
  <1> DEFINE take == SubSeq(wire, 1, k)
             rest == SubSeq(wire, k + 1, Len(wire))
             now == part \o take
  <1>1. wire \in Seq(Bytes) /\ header \in Seq(Bytes) /\ part \in Seq(Bytes) /\ received \in Nat
        /\ Len(part) <= received
    BY DEF IInv, TypeOK, ReaderInv, Bytes
  <1>2. /\ phase # "ended" /\ k <= Total - received
        /\ wire' = rest /\ Proceed(now, Count(now, k))
        /\ cut' = (cut \/ Cut(now))
        /\ UNCHANGED <<reader, open, sent>>
    BY DEF Recv, Asked
  <1>3. k \in 0 .. Len(wire) /\ k \in Nat
    BY <1>1
  <1>4. /\ take \in Seq(Bytes) /\ Len(take) = k /\ rest \in Seq(Bytes) /\ take \o rest = wire
    BY <1>1, <1>3, TakeBytes
  <1> HIDE DEF take, rest
  <1>5. now \in Seq(Bytes) /\ Len(now) = Len(part) + k
    BY <1>1, <1>4, TwoParts
  <1>6. now \o rest = part \o wire
    <2>1. (part \o take) \o rest = part \o (take \o rest)
      BY <1>1, <1>4, Associative, Zenon
    <2>2. QED
      BY <1>4, <2>1
  <1> HIDE DEF now
  <1>7. ASSUME ~ cut'
        PROVE  Len(now) <= Total /\ Consistent(now, rest)
    <2>1. ~ cut
      BY <1>2, <1>7
    <2>2. received = Len(part) /\ Consistent(part, wire)
      BY <1>2, <2>1 DEF IInv, WholeInv
    <2>3. Len(now) <= Total
      BY <1>1, <1>2, <1>3, <1>5, <2>2, TotalFacts
    <2>4. Consistent(now, rest)
      BY <1>6, <2>2 DEF Consistent
    <2>5. QED
      BY <2>3, <2>4
  <1>8. QED
    BY <1>2, <1>3, <1>4, <1>5, <1>7, ReadIInv
\* At the end of the stream a reader that was not cut has read everything.
LEMMA NothingLeft ==
    ASSUME IInv, ~ cut, phase # "ended", wire = <<>>
    PROVE  FlattenSeq(Rest) = <<>>
  <1> DEFINE bytes == header \o part
  <1>1. /\ header \in Seq(Bytes) /\ part \in Seq(Bytes)
        /\ phase = "payload" => Len(header) = 4
        /\ phase # "payload" => header = <<>>
        /\ phase \in {"header", "payload"}
        /\ Len(part) < Total /\ Consistent(part, wire)
        /\ sent \in Seq(Message) /\ delivered \in Seq(Seq(Bytes)) /\ Len(delivered) <= Len(sent)
    BY DEF IInv, ReaderInv, TypeOK, HistoryInv, WholeInv, HeaderSize
  <1>2. part \o wire = part
    BY <1>1, ConcatEmptySeq
  <1>3. bytes = FlattenSeq(Rest)
    BY <1>1, <1>2 DEF Consistent
  <1>4. /\ bytes \in Seq(Bytes) /\ Len(bytes) = Len(header) + Len(part)
        /\ header # <<>> => bytes[1] = header[1]
    BY <1>1, TwoParts
  <1>5. Rest \in Seq(Message)
    <2>1. Len(delivered) \in Nat
      BY <1>1
    <2>2. QED
      BY <1>1, <2>1 DEF Rest
  <1>6. Len(header) \in Nat /\ Len(part) \in Nat /\ Len(<<>>) = 0
    BY <1>1
  <1>7. header = <<>> => bytes[1] = part[1] /\ bytes = part
    BY <1>1, ConcatEmptySeq
  <1> HIDE DEF bytes
  <1>8. ASSUME bytes # <<>>
        PROVE  FALSE
    <2>1. Len(bytes) >= 4 + 4 * bytes[1]
      BY <1>3, <1>4, <1>5, <1>8, FirstMessage
    <2>2. bytes[1] \in Nat
      <3>1. 1 \in 1 .. Len(bytes)
        BY <1>4, <1>8
      <3>2. bytes[1] \in Bytes
        BY <1>4, <3>1, ElementOfSeq
      <3>3. QED
        BY <3>2, ReaderAssumption DEF Bytes
    <2>3. CASE phase = "header"
      <3>1. Len(bytes) = Len(part) /\ Total = 4
        BY <1>1, <1>7, <2>3, TotalFacts
      <3>2. QED
        BY <1>1, <1>6, <2>1, <2>2, <3>1
    <2>4. CASE phase = "payload"
      <3>1. Len(header) = 4 /\ Total = 4 * header[1]
        BY <1>1, <2>4, TotalFacts
      <3>2. header # <<>>
        BY <1>1, <3>1, NotEmpty, Zenon
      <3>3. bytes[1] = header[1] /\ Len(bytes) = 4 + Len(part)
        BY <1>4, <3>1, <3>2
      <3>4. QED
        BY <1>1, <1>6, <2>1, <2>2, <3>1, <3>3
    <2>5. QED
      BY <1>1, <2>3, <2>4
  <1>9. QED
    BY <1>3, <1>8

LEMMA RecvEndIInv ==
    ASSUME IInv, RecvEnd
    PROVE  IInv'
  <1>1. /\ phase # "ended" /\ wire = <<>> /\ UNCHANGED <<reader, wire, open, sent>>
    BY DEF RecvEnd
  <1>2. /\ part \in Seq(Bytes) /\ <<>> \in Seq(Bytes) /\ Len(<<>>) = 0
        /\ reader \in Readers /\ open \in BOOLEAN /\ cut \in BOOLEAN /\ (Exact => ~ cut)
        /\ delivered \in Seq(Seq(Bytes))
    BY DEF IInv, ReaderInv, TypeOK, HistoryInv
  <1>3. CASE EndIsError /\ Throw /\ UNCHANGED cut
    <2>1. /\ raised' = TRUE /\ header' = <<>> /\ part' = <<>> /\ received' = 0
          /\ phase' \in {"header", "ended"} /\ delivered' = delivered /\ cut' = cut
      BY <1>3 DEF Throw
    <2>2. Exact' <=> Exact
      BY <1>1 DEF Exact
    <2>3. TypeOK'
      <3>1. wire' \in Seq(0 .. MaxWords + MaxMessages + 1)
        BY <1>1
      <3>2. Len(header') = 0 /\ Len(part') = 0
        BY <1>2, <2>1
      <3>3. cut' \in BOOLEAN /\ (Exact' => ~ cut')
        BY <1>2, <2>1, <2>2
      <3>4. reader' \in Readers /\ open' \in BOOLEAN /\ raised' \in BOOLEAN
        BY <1>1, <1>2, <2>1
      <3>5. QED
        BY <2>1, <3>1, <3>2, <3>3, <3>4 DEF TypeOK
    <2>4. ReaderInv'
      BY <1>2, <2>1 DEF ReaderInv
    <2>5. HistoryInv'
      BY <1>1, <2>1 DEF IInv, HistoryInv
    <2>6. ASSUME ~ cut
          PROVE  WholeInv'
      <3>1. /\ Len(delivered) <= Len(sent)
            /\ \A i \in 1 .. Len(delivered) : delivered[i] = sent[i]
        BY <2>6 DEF IInv, WholeInv
      <3>2. Rest' = Rest
        BY <1>1, <2>1 DEF Rest
      <3>3. FlattenSeq(Rest) = <<>>
        BY <1>1, <2>6, NothingLeft
      <3>4. header' \o (part' \o wire') = <<>>
        BY <1>1, <2>1
      <3>5. Consistent(part, wire)'
        BY <3>2, <3>3, <3>4 DEF Consistent
      <3>6. phase' # "ended" => Total' = 4
        BY <2>1 DEF Total, HeaderSize
      <3>7. Len(part') = 0
        BY <1>2, <2>1
      <3>8. QED
        BY <1>1, <2>1, <3>1, <3>5, <3>6, <3>7 DEF WholeInv
    <2>7. WholeInv'
      BY <2>1, <2>6 DEF WholeInv
    <2>8. QED
      BY <2>3, <2>4, <2>5, <2>7 DEF IInv
  <1>4. CASE ~ EndIsError /\ Proceed(part, Count(part, 0)) /\ cut' = (cut \/ Cut(part))
    <2>1. ~ Exact /\ (OneRead \/ part # <<>>)
      BY <1>4 DEF EndIsError
    <2>2. ASSUME ~ cut
          PROVE  Cut(part)
      <3>1. Len(part) < Total
        BY <1>1, <2>2 DEF IInv, WholeInv
      <3>2. QED
        BY <2>1, <3>1 DEF Cut
    <2>3. cut' 
      BY <1>4, <2>2
    <2>4. Len(part) = Len(part) + 0 /\ 0 \in Nat
      BY <1>2
    <2>5. wire \in Seq(Bytes) /\ wire' = wire
      BY <1>1, <1>2
    <2>6. QED
      BY <1>1, <1>2, <1>4, <2>3, <2>4, <2>5, ReadIInv
  <1>5. QED
    BY <1>3, <1>4 DEF RecvEnd

LEMMA NextIInv == IInv /\ [Next]_vars => IInv'
  <1> SUFFICES ASSUME IInv, [Next]_vars
               PROVE  IInv'
    OBVIOUS
  <1>1. ASSUME NEW words \in 0 .. MaxWords, NEW fill \in 0 .. 1, Send(words, fill)
        PROVE  IInv'
    BY <1>1, SendIInv
  <1>2. open \in BOOLEAN /\ raised \in BOOLEAN
    BY DEF IInv, TypeOK
  <1>3. CASE Close
    BY <1>3, SameIInv DEF Close
  <1>4. ASSUME NEW k \in 1 .. Len(wire), Recv(k)
        PROVE  IInv'
    BY <1>4, RecvIInv
  <1>5. CASE RecvEnd
    BY <1>5, RecvEndIInv
  <1>6. CASE UNCHANGED vars
    BY <1>2, <1>6, SameIInv DEF vars
  <1>7. QED
    BY <1>1, <1>3, <1>4, <1>5, <1>6 DEF Next, Read
-----------------------------------------------------------------------------
(* The theorems.                                                            *)

\* The inductive invariant holds in every reachable state: as long as a reader
\* was not cut, its bytes and the wire's are the messages not yet returned.
THEOREM Invariance == Spec => []IInv
  <1>1. QED
    BY InitIInv, NextIInv, PTL DEF Spec

\* Type correctness of the reader: its counter of bytes never lags behind what it
\* has read, and SerialTransport and ReadExactlyAsync are never cut.
THEOREM TypeCorrect == Spec => []TypeOK
  <1>1. IInv => TypeOK
    BY DEF IInv
  <1>2. QED
    BY <1>1, Invariance, PTL

\* What the readers return are the messages that were sent, whole, in order and
\* each once, unless a read came in more pieces than the reader can deal with:
\* for every size of payload, number of messages and way to cut the stream.
THEOREM MessagesWhole == Spec => []WholeUnlessCut
  <1>1. IInv => WholeUnlessCut
    <2> SUFFICES ASSUME IInv, ~ cut
                 PROVE  IsPrefix(delivered, sent)
      BY DEF WholeUnlessCut
    <2>1. /\ delivered \in Seq(Seq(Bytes)) /\ sent \in Seq(Message)
          /\ Len(delivered) <= Len(sent)
          /\ \A i \in 1 .. Len(delivered) : delivered[i] = sent[i]
      BY DEF IInv, HistoryInv, WholeInv
    <2>2. Len(delivered) \in Nat /\ Len(sent) \in Nat /\ sent \in Seq(Seq(Bytes))
      BY <2>1, MessagesAreBytes
    <2> DEFINE p == SubSeq(sent, 1, Len(delivered))
    <2>3. /\ p \in Seq(Seq(Bytes)) /\ Len(p) = Len(delivered)
          /\ \A i \in 1 .. Len(delivered) : p[i] = sent[i]
      BY <2>1, <2>2
    <2> HIDE DEF p
    <2>4. p = delivered
      BY <2>1, <2>3, SeqEqual
    <2>5. QED
      BY <2>1, <2>4 DEF IsPrefix, p
  <1>2. QED
    BY <1>1, Invariance, PTL
=============================================================================
