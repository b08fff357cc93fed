---------------------------- MODULE CommonLemmas ----------------------------
(***************************************************************************)
(* Arithmetic of transaction numbers that are taken from a counter modulo  *)
(* k, facts about the sequences that model queues and channels (how many   *)
(* of their elements are of a kind, too), what FlattenSeq makes of a       *)
(* sequence of sequences, running sums, and sums over sets.                *)
(***************************************************************************)
EXTENDS Integers, SequencesExt, SequenceTheorems, FiniteSetTheorems, FunctionTheorems,
        WellFoundedInduction, TLAPS

\* Quotients and remainders as the prover sees them.
LEMMA DivMod ==
    ASSUME NEW n \in Nat, NEW k \in Nat \ {0}
    PROVE  /\ (n % k) \in 0 .. (k - 1)
           /\ n \div k \in Int
           /\ n = k * (n \div k) + (n % k)
  OBVIOUS

\* Multiples of k are at least k apart.
LEMMA MultiplesApart ==
    ASSUME NEW k \in Nat \ {0}, NEW a \in Int, NEW b \in Int, a < b
    PROVE  k * a + k <= k * b
  <1>1. b - a - 1 \in Nat
    OBVIOUS
  <1>2. k * (b - a - 1) \in Nat
    BY <1>1
  <1>3. k * (b - a - 1) = k * b - k * a - k
    OBVIOUS
  <1>4. k * a \in Int /\ k * b \in Int
    OBVIOUS
  <1>5. QED
    BY <1>2, <1>3, <1>4

\* A number has one quotient and one remainder.
LEMMA RemainderUnique ==
    ASSUME NEW k \in Nat \ {0}, NEW a \in Int, NEW b \in Int,
           NEW r \in 0 .. (k - 1), NEW s \in 0 .. (k - 1),
           k * a + r = k * b + s
    PROVE  r = s
  <1>1. k * a \in Int /\ k * b \in Int
    OBVIOUS
  <1>2. CASE a < b
    <2>1. k * a + k <= k * b
      BY <1>2, MultiplesApart
    <2>2. QED
      BY <2>1, <1>1
  <1>3. CASE b < a
    <2>1. k * b + k <= k * a
      BY <1>3, MultiplesApart
    <2>2. QED
      BY <2>1, <1>1
  <1>4. CASE a = b
    BY <1>4, <1>1
  <1>5. QED
    BY <1>2, <1>3, <1>4

\* Two calls with the same number are at least k calls apart.
LEMMA SameRemainder ==
    ASSUME NEW n \in Nat, NEW r \in Nat, NEW k \in Nat \ {0},
           n % k = r % k, r < n
    PROVE  r + k <= n
  <1> DEFINE a == r \div k
             b == n \div k
  <1>1. r = k * a + (r % k) /\ a \in Int
    BY DivMod
  <1>2. n = k * b + (n % k) /\ b \in Int
    BY DivMod
  <1>3. (r % k) \in Int
    BY DivMod
  <1> HIDE DEF a, b
  <1>4. k * a \in Int /\ k * b \in Int
    BY <1>1, <1>2
  <1>5. k * a < k * b
    BY <1>1, <1>2, <1>3, <1>4
  <1>6. a < b
    <2>1. CASE b < a
      <3>1. k * b + k <= k * a
        BY <2>1, <1>1, <1>2, MultiplesApart
      <3>2. QED
        BY <3>1, <1>4, <1>5
    <2>2. CASE a = b
      BY <2>2, <1>4, <1>5
    <2>3. QED
      BY <2>1, <2>2, <1>1, <1>2
  <1>7. k * a + k <= k * b
    BY <1>6, <1>1, <1>2, MultiplesApart
  <1>8. QED
    BY <1>1, <1>2, <1>3, <1>4, <1>7

\* Counting on by one.
LEMMA NextRemainder ==
    ASSUME NEW n \in Nat, NEW k \in Nat \ {0}
    PROVE  (n + 1) % k = IF (n % k) + 1 >= k THEN 0 ELSE (n % k) + 1
  <1> DEFINE a == n \div k
             b == (n + 1) \div k
             r == n % k
             s == (n + 1) % k
  <1>1. n = k * a + r /\ a \in Int
    BY DivMod
  <1>2. n + 1 = k * b + s /\ b \in Int
    BY DivMod
  <1>3. r \in 0 .. (k - 1) /\ s \in 0 .. (k - 1)
    BY DivMod
  <1> HIDE DEF a, b, r, s
  <1>4. k * a \in Int /\ k * b \in Int /\ k * (a + 1) = k * a + k
    BY <1>1, <1>2
  <1>5. CASE r + 1 >= k
    <2>1. r + 1 = k
      BY <1>3, <1>5
    <2>2. k * (a + 1) + 0 = k * b + s
      BY <2>1, <1>1, <1>2, <1>3, <1>4
    <2>3. s = 0
      BY <2>2, <1>1, <1>2, <1>3, RemainderUnique
    <2>4. QED
      BY <2>3, <1>5 DEF r, s
  <1>6. CASE r + 1 < k
    <2>1. k * a + (r + 1) = k * b + s
      BY <1>1, <1>2, <1>3, <1>4
    <2>2. r + 1 \in 0 .. (k - 1)
      BY <1>6, <1>3
    <2>3. s = r + 1
      BY <2>1, <2>2, <1>1, <1>2, <1>3, RemainderUnique
    <2>4. QED
      BY <2>3, <1>3, <1>6 DEF r, s
  <1>7. QED
    BY <1>5, <1>6, <1>3
-----------------------------------------------------------------------------
\* Taking an element out of a sequence leaves elements of that sequence.
LEMMA RemoveAtElements ==
    ASSUME NEW S, NEW s \in Seq(S), NEW i \in DOMAIN s
    PROVE  /\ RemoveAt(s, i) \in Seq(S)
           /\ \A j \in DOMAIN RemoveAt(s, i) :
                  \E k \in DOMAIN s : RemoveAt(s, i)[j] = s[k]
  <1> DEFINE a == SubSeq(s, 1, i - 1)
             b == SubSeq(s, i + 1, Len(s))
  <1>1. i \in 1 .. Len(s) /\ Len(s) \in Nat /\ DOMAIN s = 1 .. Len(s)
    OBVIOUS
  <1>2. a \in Seq(S) /\ Len(a) = i - 1 /\ \A j \in 1 .. i - 1 : a[j] = s[j]
    BY <1>1
  <1>3. b \in Seq(S) /\ Len(b) = Len(s) - i /\ \A j \in 1 .. Len(s) - i : b[j] = s[j + i]
    BY <1>1
  <1>4. RemoveAt(s, i) = a \o b
    BY DEF RemoveAt
  <1> HIDE DEF a, b
  <1> DEFINE c == a \o b
  <1>5. /\ c \in Seq(S)
        /\ Len(c) = Len(a) + Len(b)
        /\ \A j \in 1 .. Len(a) + Len(b) :
               c[j] = IF j <= Len(a) THEN a[j] ELSE b[j - Len(a)]
    BY <1>2, <1>3, ConcatProperties
  <1> HIDE DEF c
  <1>6. DOMAIN c = 1 .. Len(s) - 1
    BY <1>1, <1>2, <1>3, <1>5
  <1>7. ASSUME NEW j \in 1 .. Len(s) - 1
        PROVE  \E k \in DOMAIN s : c[j] = s[k]
    <2>1. CASE j <= i - 1
      <3>1. c[j] = a[j] /\ a[j] = s[j] /\ j \in DOMAIN s
        BY <2>1, <1>1, <1>2, <1>3, <1>5
      <3>2. QED
        BY <3>1
    <2>2. CASE j > i - 1
      <3>1. /\ j - (i - 1) \in 1 .. Len(s) - i
            /\ j - (i - 1) + i = j + 1
            /\ j + 1 \in DOMAIN s
        BY <2>2, <1>1
      <3>2. c[j] = b[j - (i - 1)]
        BY <2>2, <1>1, <1>2, <1>3, <1>5
      <3>3. b[j - (i - 1)] = s[j + 1]
        BY <3>1, <1>3
      <3>4. QED
        BY <3>1, <3>2, <3>3
    <2>3. QED
      BY <2>1, <2>2, <1>1
  <1>8. QED
    BY <1>4, <1>5, <1>6, <1>7 DEF c

\* The elements of a sequence after Append.
LEMMA AppendElements ==
    ASSUME NEW S, NEW s \in Seq(S), NEW e \in S
    PROVE  /\ Append(s, e) \in Seq(S)
           /\ \A j \in DOMAIN Append(s, e) :
                  Append(s, e)[j] = e \/ \E k \in DOMAIN s : Append(s, e)[j] = s[k]
  OBVIOUS

\* The elements of a sequence after Tail, and its Head.
LEMMA TailElements ==
    ASSUME NEW S, NEW s \in Seq(S), s # <<>>
    PROVE  /\ Tail(s) \in Seq(S)
           /\ \A j \in DOMAIN Tail(s) : \E k \in DOMAIN s : Tail(s)[j] = s[k]
           /\ \E k \in DOMAIN s : Head(s) = s[k]
  <1>1. Len(s) \in Nat \ {0} /\ DOMAIN s = 1 .. Len(s)
    OBVIOUS
  <1>2. Head(s) = s[1] /\ 1 \in DOMAIN s
    BY <1>1
  <1>3. /\ Tail(s) \in Seq(S)
        /\ DOMAIN Tail(s) = 1 .. Len(s) - 1
        /\ \A j \in 1 .. Len(s) - 1 : Tail(s)[j] = s[j + 1] /\ j + 1 \in DOMAIN s
    BY <1>1
  <1>4. QED
    BY <1>2, <1>3
-----------------------------------------------------------------------------
\* A set of natural numbers has a smallest one: induction, in the form of a
\* smallest counterexample.
LEMMA Smallest ==
    ASSUME NEW T, T \subseteq Nat, T # {}
    PROVE  \E n \in T : \A m \in T : n <= m
  <1> DEFINE R == {ss \in Nat \X Nat : ss[1] < ss[2]}
  <1>1. IsWellFoundedOn(R, Nat)
    BY NatLessThanWellFounded DEF OpToRel
  <1> HIDE DEF R
  <1>2. PICK n \in T : \A m \in T : ~ (<<m, n>> \in R)
    BY <1>1, WFMin
  <1>3. \A m \in T : ~ (m < n)
    BY <1>2 DEF R
  <1>4. QED
    BY <1>3

\* FlattenSeq concatenates from the left.
LEMMA FlattenSteps ==
    ASSUME NEW S, NEW seqs \in Seq(Seq(S)), seqs # <<>>
    PROVE  \E f \in [1 .. Len(seqs) -> Seq(S)] :
               /\ FlattenSeq(seqs) = f[Len(seqs)]
               /\ f[1] = seqs[1]
               /\ \A i \in 2 .. Len(seqs) : f[i] = f[i - 1] \o seqs[i]
  <1> DEFINE N == Len(seqs)
             Step(g, i) == IF i = 1 THEN seqs[i] ELSE g[i - 1] \o seqs[i]
             Good(n) == \E g \in [1 .. n -> Seq(S)] : \A i \in 1 .. n : g[i] = Step(g, i)
  <1>1. N \in Nat \ {0} /\ \A i \in 1 .. N : seqs[i] \in Seq(S)
    OBVIOUS
  <1> HIDE DEF N
  <1>2. ASSUME NEW n \in 1 .. N, n > 1 => Good(n - 1)
        PROVE  Good(n)
    <2>1. CASE n = 1
      <3> DEFINE g == [i \in 1 .. n |-> seqs[1]]
      <3>1. g \in [1 .. n -> Seq(S)]
        BY <2>1, <1>1
      <3>2. \A i \in 1 .. n : g[i] = Step(g, i)
        BY <2>1
      <3>3. QED
        BY <3>1, <3>2
    <2>2. CASE n > 1
      <3>1. PICK g \in [1 .. n - 1 -> Seq(S)] : \A i \in 1 .. n - 1 : g[i] = Step(g, i)
        BY <2>2, <1>2
      <3> DEFINE e == g[n - 1] \o seqs[n]
                 h == [i \in 1 .. n |-> IF i = n THEN e ELSE g[i]]
      <3>2. e \in Seq(S)
        BY <3>1, <2>2, <1>1
      <3> HIDE DEF e
      <3>3. h \in [1 .. n -> Seq(S)]
        BY <3>1, <3>2, <1>1
      <3>4. ASSUME NEW i \in 1 .. n
            PROVE  h[i] = Step(h, i)
        <4>1. CASE i = n
          <5>1. h[n - 1] = g[n - 1] /\ h[n] = e
            BY <2>2, <1>1
          <5> HIDE DEF h
          <5>2. h[n] = h[n - 1] \o seqs[n] /\ n # 1
            BY <5>1, <2>2 DEF e
          <5>3. QED
            BY <4>1, <5>2, Zenon
        <4>2. CASE i # n
          <5>1. i \in 1 .. n - 1 /\ h[i] = g[i] /\ (i # 1 => h[i - 1] = g[i - 1])
            BY <4>2, <1>1
          <5>2. g[i] = Step(g, i)
            BY <5>1, <3>1
          <5> HIDE DEF h
          <5>3. QED
            BY <5>1, <5>2
        <4>3. QED
          BY <4>1, <4>2
      <3>5. QED
        BY <3>3, <3>4
    <2> HIDE DEF Good
    <2>3. QED
      BY <2>1, <2>2, <1>1
  <1>3. Good(N)
    <2> HIDE DEF Good
    <2> DEFINE T == {n \in 1 .. N : ~ Good(n)}
    <2> SUFFICES T = {}
      BY <1>1
    <2> SUFFICES ASSUME T # {}
                 PROVE  FALSE
      OBVIOUS
    <2>1. T \subseteq Nat
      BY <1>1
    <2>2. PICK n \in T : \A m \in T : n <= m
      BY <2>1, Smallest
    <2>3. n \in 1 .. N /\ ~ Good(n) /\ (n > 1 => n - 1 \in 1 .. N /\ n - 1 \notin T)
      BY <2>2, <1>1
    <2>4. QED
      BY <2>3, <1>2
  <1>4. PICK g \in [1 .. N -> Seq(S)] : \A i \in 1 .. N : g[i] = Step(g, i)
    BY <1>3
  <1> DEFINE f == CHOOSE flatten : flatten =
                     [i \in 1 .. Len(seqs) |->
                         IF i = 1 THEN seqs[i] ELSE flatten[i - 1] \o seqs[i]]
  <1>5. f = [i \in 1 .. Len(seqs) |-> IF i = 1 THEN seqs[i] ELSE f[i - 1] \o seqs[i]]
    <2>1. g = [i \in 1 .. Len(seqs) |-> IF i = 1 THEN seqs[i] ELSE g[i - 1] \o seqs[i]]
      BY <1>4 DEF N
    <2>2. QED
      BY <2>1
  <1>6. FlattenSeq(seqs) = f[N]
    BY <1>1 DEF FlattenSeq, N
  <1> HIDE DEF f
  <1>7. \A i \in 1 .. N : f[i] = g[i]
    <2> DEFINE T == {i \in 1 .. N : f[i] # g[i]}
    <2> SUFFICES ASSUME T # {}
                 PROVE  FALSE
      OBVIOUS
    <2>1. T \subseteq Nat
      BY <1>1
    <2>2. PICK n \in T : \A m \in T : n <= m
      BY <2>1, Smallest
    <2>3. n \in 1 .. N /\ f[n] # g[n] /\ (n > 1 => f[n - 1] = g[n - 1])
      BY <2>2, <1>1
    <2>4. f[n] = Step(f, n) /\ g[n] = Step(g, n)
      BY <2>3, <1>4, <1>5 DEF N
    <2>5. QED
      BY <2>3, <2>4
  <1>8. ASSUME NEW i \in 2 .. N
        PROVE  g[i] = g[i - 1] \o seqs[i]
    <2>1. i \in 1 .. N /\ i # 1
      BY <1>1
    <2>2. QED
      BY <2>1, <1>4
  <1>9. g[1] = seqs[1]
    <2>1. 1 \in 1 .. N
      BY <1>1
    <2>2. QED
      BY <2>1, <1>4
  <1>10. FlattenSeq(seqs) = g[N]
    BY <1>6, <1>7, <1>1
  <1>11. QED
    BY <1>8, <1>9, <1>10 DEF N

\* The elements of the concatenation are those of the sequences.
LEMMA FlattenRange ==
    ASSUME NEW S, NEW seqs \in Seq(Seq(S))
    PROVE  /\ FlattenSeq(seqs) \in Seq(S)
           /\ \A e : e \in Range(FlattenSeq(seqs)) <=> \E k \in DOMAIN seqs : e \in Range(seqs[k])
  <1>1. CASE seqs = <<>>
    <2>1. FlattenSeq(seqs) = <<>>
      BY <1>1 DEF FlattenSeq
    <2>2. QED
      BY <2>1, <1>1 DEF Range
  <1>2. CASE seqs # <<>>
    <2> DEFINE N == Len(seqs)
    <2>1. N \in Nat \ {0} /\ DOMAIN seqs = 1 .. N /\ \A i \in 1 .. N : seqs[i] \in Seq(S)
      BY <1>2
    <2>2. PICK f \in [1 .. N -> Seq(S)] :
              /\ FlattenSeq(seqs) = f[N]
              /\ f[1] = seqs[1]
              /\ \A i \in 2 .. N : f[i] = f[i - 1] \o seqs[i]
      BY <1>2, FlattenSteps
    <2> HIDE DEF N
    <2> DEFINE Good(i) == \A e : e \in Range(f[i]) <=> \E k \in 1 .. i : e \in Range(seqs[k])
               T == {i \in 1 .. N : ~ Good(i)}
    <2>3. T = {}
      <3> SUFFICES ASSUME T # {}
                   PROVE  FALSE
        OBVIOUS
      <3>1. T \subseteq Nat
        BY <2>1
      <3> HIDE DEF Good
      <3>2. PICK i \in T : \A m \in T : i <= m
        BY <3>1, Smallest
      <3>3. i \in 1 .. N /\ ~ Good(i) /\ (i # 1 => i - 1 \in 1 .. N /\ Good(i - 1) /\ i \in 2 .. N)
        BY <3>2, <2>1
      <3>4. CASE i = 1
        <4>1. Good(1)
          BY <2>1, <2>2 DEF Good
        <4>2. QED
          BY <3>3, <3>4, <4>1
      <3>5. CASE i # 1
        <4>1. f[i] = f[i - 1] \o seqs[i] /\ f[i - 1] \in Seq(S) /\ seqs[i] \in Seq(S)
          BY <3>3, <3>5, <2>1, <2>2
        <4>2. Range(f[i]) = Range(f[i - 1]) \cup Range(seqs[i])
          BY <4>1, RangeConcatenation
        <4>3. 1 .. i = 1 .. (i - 1) \cup {i}
          BY <3>3
        <4>4. Good(i)
          BY <3>3, <3>5, <4>2, <4>3 DEF Good
        <4>5. QED
          BY <3>3, <4>4
      <3>6. QED
        BY <3>4, <3>5
    <2>4. Good(N)
      <3> HIDE DEF Good
      <3>1. N \in 1 .. N
        BY <2>1
      <3>2. QED
        BY <3>1, <2>3
    <2>5. f[N] \in Seq(S)
      BY <2>1, <2>2
    <2> HIDE DEF T, Good
    <2>6. QED
      BY <2>1, <2>2, <2>4, <2>5 DEF Good
  <1>3. QED
    BY <1>1, <1>2

\* One more sequence at the end.
LEMMA FlattenAppend ==
    ASSUME NEW S, NEW seqs \in Seq(Seq(S)), NEW s \in Seq(S)
    PROVE  FlattenSeq(Append(seqs, s)) = FlattenSeq(seqs) \o s
  <1> DEFINE N == Len(seqs)
             both == Append(seqs, s)
  <1>1. /\ N \in Nat /\ both \in Seq(Seq(S)) /\ both # <<>> /\ Len(both) = N + 1
        /\ both[N + 1] = s /\ \A i \in 1 .. N : both[i] = seqs[i]
    BY AppendProperties
  <1> HIDE DEF both
  <1>2. PICK g \in [1 .. N + 1 -> Seq(S)] :
            /\ FlattenSeq(both) = g[N + 1]
            /\ g[1] = both[1]
            /\ \A i \in 2 .. N + 1 : g[i] = g[i - 1] \o both[i]
    <2>1. \E g \in [1 .. Len(both) -> Seq(S)] :
              /\ FlattenSeq(both) = g[Len(both)]
              /\ g[1] = both[1]
              /\ \A i \in 2 .. Len(both) : g[i] = g[i - 1] \o both[i]
      <3>1. both \in Seq(Seq(S)) /\ both # <<>>
        BY <1>1
      <3>2. QED
        BY <3>1, FlattenSteps
    <2> HIDE DEF N
    <2>2. Len(both) = N + 1
      BY <1>1
    <2>3. QED
      BY <2>1, <2>2, Zenon
  <1>3. CASE seqs = <<>>
    <2>1. FlattenSeq(seqs) = <<>> /\ N = 0
      BY <1>3 DEF FlattenSeq
    <2>2. FlattenSeq(both) = s
      BY <2>1, <1>1, <1>2
    <2>3. <<>> \o s = s
      BY ConcatEmptySeq
    <2>4. QED
      BY <2>1, <2>2, <2>3 DEF both
  <1>4. CASE seqs # <<>>
    <2>1. N # 0
      BY <1>4
    <2>2. PICK f \in [1 .. N -> Seq(S)] :
              /\ FlattenSeq(seqs) = f[N]
              /\ f[1] = seqs[1]
              /\ \A i \in 2 .. N : f[i] = f[i - 1] \o seqs[i]
      BY <1>4, FlattenSteps
    <2> HIDE DEF N
    <2>3. \A i \in 1 .. N : f[i] = g[i]
      <3> DEFINE T == {i \in 1 .. N : f[i] # g[i]}
      <3> SUFFICES ASSUME T # {}
                   PROVE  FALSE
        OBVIOUS
      <3>1. T \subseteq Nat
        BY <1>1
      <3>2. PICK i \in T : \A m \in T : i <= m
        BY <3>1, Smallest
      <3>3. i \in 1 .. N /\ f[i] # g[i]
            /\ (i # 1 => i \in 2 .. N /\ i \in 2 .. N + 1 /\ f[i - 1] = g[i - 1])
        BY <3>2, <1>1
      <3>4. both[i] = seqs[i]
        BY <3>3, <1>1
      <3>5. CASE i = 1
        BY <3>3, <3>4, <3>5, <1>2, <2>2
      <3>6. CASE i # 1
        <4>1. f[i] = f[i - 1] \o seqs[i] /\ g[i] = g[i - 1] \o both[i]
          BY <3>3, <3>6, <1>2, <2>2
        <4>2. QED
          BY <4>1, <3>3, <3>4, <3>6
      <3>7. QED
        BY <3>5, <3>6
    <2>4. N \in 1 .. N /\ N + 1 \in 2 .. N + 1 /\ (N + 1) - 1 = N
      BY <2>1, <1>1
    <2>5. g[N + 1] = g[N] \o s
      BY <2>4, <1>1, <1>2
    <2>6. g[N] = FlattenSeq(seqs)
      BY <2>2, <2>3, <2>4
    <2>7. QED
      BY <2>5, <2>6, <1>2 DEF both
  <1>5. QED
    BY <1>3, <1>4

\* The first sequence comes first.
LEMMA FlattenHead ==
    ASSUME NEW S
    PROVE  \A seqs \in Seq(Seq(S)) :
               seqs # <<>> => FlattenSeq(seqs) = Head(seqs) \o FlattenSeq(Tail(seqs))
  <1>a. \A u, v, w \in Seq(S) : (u \o v) \o w = u \o (v \o w)
    OBVIOUS
  <1> SUFFICES ASSUME NEW seqs \in Seq(Seq(S)), seqs # <<>>
               PROVE  FlattenSeq(seqs) = Head(seqs) \o FlattenSeq(Tail(seqs))
    OBVIOUS
  <1> DEFINE N == Len(seqs)
             a == Head(seqs)
             t == Tail(seqs)
  <1>b. /\ a \in Seq(S) /\ t \in Seq(Seq(S))
        /\ Len(t) = N - 1 /\ \A i \in 1 .. Len(t) : t[i] = seqs[i + 1]
    BY HeadTailProperties
  <1>c. N \in Nat \ {0} /\ a = seqs[1]
    BY EmptySeq, LenProperties
  <1>1. /\ N \in Nat \ {0} /\ a = seqs[1] /\ a \in Seq(S)
        /\ t \in Seq(Seq(S)) /\ Len(t) = N - 1 /\ \A i \in 1 .. N - 1 : t[i] = seqs[i + 1]
    BY <1>b, <1>c, Zenon
  <1>2. PICK f \in [1 .. N -> Seq(S)] :
            /\ FlattenSeq(seqs) = f[N]
            /\ f[1] = seqs[1]
            /\ \A i \in 2 .. N : f[i] = f[i - 1] \o seqs[i]
    BY FlattenSteps
  <1> HIDE DEF N, a, t
  <1>3. CASE N = 1
    <2>1. t = <<>>
      BY <1>1, <1>3
    <2>2. FlattenSeq(t) = <<>>
      BY <2>1 DEF FlattenSeq
    <2>3. a \o <<>> = a
      BY <1>1, ConcatEmptySeq
    <2>4. FlattenSeq(seqs) = a \o FlattenSeq(t)
      BY <1>1, <1>2, <1>3, <2>2, <2>3
    <2>5. QED
      BY <2>4 DEF a, t
  <1>4. CASE N # 1
    <2>1. t # <<>> /\ N - 1 \in Nat \ {0}
      BY <1>1, <1>4
    <2>2. PICK h \in [1 .. N - 1 -> Seq(S)] :
              /\ FlattenSeq(t) = h[N - 1]
              /\ h[1] = t[1]
              /\ \A i \in 2 .. N - 1 : h[i] = h[i - 1] \o t[i]
      <3>1. \E h \in [1 .. Len(t) -> Seq(S)] :
                /\ FlattenSeq(t) = h[Len(t)]
                /\ h[1] = t[1]
                /\ \A i \in 2 .. Len(t) : h[i] = h[i - 1] \o t[i]
        <4>1. t # <<>> /\ t \in Seq(Seq(S))
          BY <2>1, <1>1
        <4>2. QED
          BY <4>1, FlattenSteps
      <3>2. Len(t) = N - 1
        BY <1>1
      <3>3. QED
        BY <3>1, <3>2, Zenon
    <2>3. \A i \in 1 .. N - 1 : f[i + 1] = a \o h[i]
      <3> DEFINE T == {i \in 1 .. N - 1 : f[i + 1] # a \o h[i]}
      <3> SUFFICES ASSUME T # {}
                   PROVE  FALSE
        OBVIOUS
      <3>1. T \subseteq Nat
        BY <1>1
      <3>2. PICK i \in T : \A m \in T : i <= m
        BY <3>1, Smallest
      <3>i. i \in 1 .. N - 1 /\ f[i + 1] # a \o h[i]
        BY <3>2
      <3>3. /\ i + 1 \in 2 .. N /\ (i + 1) - 1 = i
            /\ i # 1 => i \in 2 .. N - 1 /\ i - 1 \in 1 .. N - 1 /\ ~ (i <= i - 1) /\ (i - 1) + 1 = i
        BY <3>i, <1>1
      <3>4. f[i + 1] = f[i] \o t[i] /\ t[i] \in Seq(S)
        <4>1. f[i + 1] = f[(i + 1) - 1] \o seqs[i + 1]
          BY <3>3, <1>2
        <4>2. t[i] = seqs[i + 1] /\ i \in 1 .. Len(t) /\ t \in Seq(Seq(S))
          BY <3>i, <1>1
        <4>3. t[i] \in Seq(S)
          BY <4>2, ElementOfSeq
        <4>4. QED
          BY <4>1, <4>2, <4>3, <3>3
      <3>5. CASE i = 1
        BY <3>i, <3>4, <3>5, <1>1, <1>2, <2>2
      <3>6. CASE i # 1
        <4>1. f[i] = a \o h[i - 1] /\ h[i - 1] \in Seq(S)
          <5>1. i - 1 \notin T /\ i - 1 \in 1 .. N - 1 /\ (i - 1) + 1 = i
            BY <3>2, <3>3, <3>6
          <5>2. QED
            BY <5>1, <2>2
        <4>2. h[i] = h[i - 1] \o t[i]
          BY <3>3, <3>6, <2>2
        <4> DEFINE x == h[i - 1]
                   y == t[i]
        <4>3. x \in Seq(S) /\ y \in Seq(S) /\ a \in Seq(S)
          BY <4>1, <3>4, <1>1
        <4> HIDE DEF x, y
        <4>4. (a \o x) \o y = a \o (x \o y)
          BY <4>3, <1>a, Zenon
        <4>5. QED
          BY <4>1, <4>2, <4>4, <3>i, <3>4 DEF x, y
      <3>7. QED
        BY <3>5, <3>6
    <2>4. N - 1 \in 1 .. N - 1 /\ (N - 1) + 1 = N
      BY <1>1, <2>1
    <2>5. f[N] = a \o h[N - 1]
      BY <2>3, <2>4
    <2>6. QED
      BY <2>5, <2>2, <1>2 DEF a, t
  <1>5. QED
    BY <1>3, <1>4
\* A running sum, as a recursive function that adds inc[j] at j.
IsRunningSum(g, N, a, inc) ==
    \A j \in 1 .. N : g[j] = IF j = 1 THEN a ELSE g[j - 1] + inc[j]

LEMMA RunningSum ==
    ASSUME NEW N \in Nat, NEW a \in Nat, NEW inc \in [1 .. N -> Nat]
    PROVE  \E g \in [1 .. N -> Nat] : IsRunningSum(g, N, a, inc)
  <1> DEFINE Good(n) == \E g \in [1 .. n -> Nat] :
                            \A j \in 1 .. n : g[j] = IF j = 1 THEN a ELSE g[j - 1] + inc[j]
  <1>1. Good(0)
    <2> DEFINE g == [j \in 1 .. 0 |-> 0]
    <2>1. g \in [1 .. 0 -> Nat] /\ \A j \in 1 .. 0 : FALSE
      OBVIOUS
    <2>2. QED
      BY <2>1
  <1>2. ASSUME NEW n \in 1 .. N, Good(n - 1)
        PROVE  Good(n)
    <2>1. PICK g \in [1 .. n - 1 -> Nat] :
              \A j \in 1 .. n - 1 : g[j] = IF j = 1 THEN a ELSE g[j - 1] + inc[j]
      BY <1>2
    <2> DEFINE e == IF n = 1 THEN a ELSE g[n - 1] + inc[n]
               h == [j \in 1 .. n |-> IF j = n THEN e ELSE g[j]]
    <2>2. e \in Nat
      <3>1. inc[n] \in Nat
        OBVIOUS
      <3>2. n # 1 => g[n - 1] \in Nat
        BY <2>1
      <3>3. QED
        BY <3>1, <3>2
    <2> HIDE DEF e
    <2>3. h \in [1 .. n -> Nat]
      BY <2>1, <2>2
    <2>4. ASSUME NEW j \in 1 .. n
          PROVE  h[j] = IF j = 1 THEN a ELSE h[j - 1] + inc[j]
      <3>1. CASE j = n
        <4>1. h[n] = e /\ (n # 1 => h[n - 1] = g[n - 1])
          OBVIOUS
        <4> HIDE DEF h
        <4>2. QED
          BY <3>1, <4>1 DEF e
      <3>2. CASE j # n
        <4>1. j \in 1 .. n - 1 /\ h[j] = g[j] /\ (j # 1 => h[j - 1] = g[j - 1])
          BY <3>2
        <4> HIDE DEF h
        <4>2. QED
          BY <2>1, <4>1
      <3>3. QED
        BY <3>1, <3>2
    <2>5. QED
      BY <2>3, <2>4
  <1> HIDE DEF Good
  <1>3. Good(N)
    <2> DEFINE T == {n \in 0 .. N : ~ Good(n)}
    <2> SUFFICES ASSUME T # {}
                 PROVE  FALSE
      OBVIOUS
    <2>1. T \subseteq Nat
      OBVIOUS
    <2>2. PICK n \in T : \A m \in T : n <= m
      BY <2>1, Smallest
    <2>3. n \in 1 .. N /\ ~ Good(n) /\ n - 1 \in 0 .. N /\ n - 1 \notin T
      BY <1>1, <2>2
    <2>4. QED
      BY <1>2, <2>3
  <1>4. QED
    BY <1>3 DEF Good, IsRunningSum
-----------------------------------------------------------------------------
\* How many elements of a sequence are in a set.
CountIn(s, G) == Cardinality({i \in DOMAIN s : s[i] \in G})

LEMMA CountType ==
    ASSUME NEW S, NEW s \in Seq(S), NEW G
    PROVE  IsFiniteSet({i \in DOMAIN s : s[i] \in G}) /\ CountIn(s, G) \in Nat
  <1>1. IsFiniteSet(1 .. Len(s)) /\ {i \in DOMAIN s : s[i] \in G} \subseteq 1 .. Len(s)
    BY FS_Interval
  <1>2. IsFiniteSet({i \in DOMAIN s : s[i] \in G})
    BY <1>1, FS_Subset
  <1>3. QED
    BY <1>2, FS_CardinalityType DEF CountIn

\* An element is added at the end.
LEMMA CountAppend ==
    ASSUME NEW S, NEW s \in Seq(S), NEW e \in S, NEW G
    PROVE  /\ CountIn(s, G) \in Nat
           /\ e \in G => CountIn(Append(s, e), G) = CountIn(s, G) + 1
           /\ e \notin G => CountIn(Append(s, e), G) = CountIn(s, G)
  <1> DEFINE t == Append(s, e)
             A == {i \in DOMAIN s : s[i] \in G}
             B == {i \in DOMAIN t : t[i] \in G}
             n == Len(s)
  <1>1. /\ n \in Nat /\ DOMAIN s = 1 .. n /\ DOMAIN t = 1 .. n + 1 /\ t[n + 1] = e
        /\ \A i \in 1 .. n : t[i] = s[i]
    OBVIOUS
  <1>2. IsFiniteSet(A) /\ CountIn(s, G) \in Nat /\ CountIn(s, G) = Cardinality(A)
    BY CountType DEF CountIn
  <1>3. CountIn(t, G) = Cardinality(B)
    BY DEF CountIn
  <1> HIDE DEF t, n
  <1>4. n + 1 \notin A
    BY <1>1
  <1>5. ASSUME e \in G PROVE B = A \cup {n + 1}
    BY <1>1, <1>5
  <1>6. ASSUME e \notin G PROVE B = A
    BY <1>1, <1>6
  <1> HIDE DEF A, B
  <1>7. e \in G => Cardinality(B) = Cardinality(A) + 1
    BY <1>2, <1>4, <1>5, FS_AddElement
  <1>8. QED
    BY <1>2, <1>3, <1>6, <1>7 DEF t

\* The first element is taken away.
LEMMA CountDrop ==
    ASSUME NEW S, NEW s \in Seq(S), NEW t \in Seq(S), NEW G,
           Len(s) = Len(t) + 1, \A j \in 1 .. Len(t) : t[j] = s[j + 1]
    PROVE  /\ CountIn(t, G) \in Nat
           /\ s[1] \in G => CountIn(s, G) = CountIn(t, G) + 1
           /\ s[1] \notin G => CountIn(s, G) = CountIn(t, G)
  <1> DEFINE A == {i \in DOMAIN t : t[i] \in G}
             B == {i \in DOMAIN s : s[i] \in G}
             C == B \ {1}
             n == Len(t)
             f == [i \in A |-> i + 1]
  <1>1. n \in Nat /\ DOMAIN t = 1 .. n /\ DOMAIN s = 1 .. n + 1
    OBVIOUS
  <1>2. /\ IsFiniteSet(A) /\ CountIn(t, G) \in Nat /\ CountIn(t, G) = Cardinality(A)
        /\ IsFiniteSet(B) /\ CountIn(s, G) \in Nat /\ CountIn(s, G) = Cardinality(B)
    BY CountType DEF CountIn
  <1>3. \A i \in A : i \in Nat /\ i + 1 \in C
    BY <1>1
  <1>4. \A k \in C : k - 1 \in A /\ (k - 1) + 1 = k
    BY <1>1
  <1>5. s[1] \in G <=> 1 \in B
    BY <1>1
  <1> HIDE DEF A, B, C
  <1>6. f \in [A -> C]
    BY <1>3
  <1>7. \A a, b \in A : f[a] = f[b] => a = b
    BY <1>3
  <1>8. \A k \in C : \E a \in A : f[a] = k
    BY <1>4
  <1> HIDE DEF f
  <1>9. f \in Bijection(A, C)
    BY <1>6, <1>7, <1>8, Fun_IsBij
  <1>10. Cardinality(C) = Cardinality(A)
    BY <1>2, <1>9, Fun_ExistsBij, FS_Bijection
  <1>11. Cardinality(C) = IF 1 \in B THEN Cardinality(B) - 1 ELSE Cardinality(B)
    BY <1>2, FS_RemoveElement DEF C
  <1>12. QED
    BY <1>2, <1>5, <1>10, <1>11

\* Taking out the first element.
LEMMA CountRemoveAt ==
    ASSUME NEW S, NEW s \in Seq(S), NEW G, s # <<>>
    PROVE  /\ RemoveAt(s, 1) \in Seq(S)
           /\ CountIn(RemoveAt(s, 1), G) \in Nat
           /\ s[1] \in G => CountIn(s, G) = CountIn(RemoveAt(s, 1), G) + 1
           /\ s[1] \notin G => CountIn(s, G) = CountIn(RemoveAt(s, 1), G)
  <1>1. Len(s) \in Nat \ {0}
    OBVIOUS
  <1>2. RemoveAt(s, 1) = SubSeq(s, 1, 0) \o SubSeq(s, 2, Len(s))
    BY DEF RemoveAt
  <1>3. SubSeq(s, 1, 0) = <<>>
    OBVIOUS
  <1> DEFINE t == Tail(s)
  <1>4. t = SubSeq(s, 2, Len(s))
    BY TailIsSubSeq
  <1>5. t \in Seq(S) /\ Len(t) = Len(s) - 1 /\ \A j \in 1 .. Len(t) : t[j] = s[j + 1]
    BY <1>1, HeadTailProperties
  <1>6. RemoveAt(s, 1) = t
    BY <1>2, <1>3, <1>4, <1>5
  <1> HIDE DEF t
  <1>7. Len(s) = Len(t) + 1
    BY <1>1, <1>5
  <1>8. QED
    BY <1>5, <1>6, <1>7, CountDrop
-----------------------------------------------------------------------------
(* Sums over sets of naturals.                                              *)

\* The element that a sum over s begins with, and a step of the sum of f over
\* the subsets of S.
Picked(s) == CHOOSE x \in s : TRUE
SumStep(f, S, g) == [s \in SUBSET S |-> IF s = {} THEN 0 ELSE f[Picked(s)] + g[s \ {Picked(s)}]]

LEMMA SumUnfolds ==
    ASSUME NEW f, NEW S, NEW h, h = SumStep(f, S, h)
    PROVE  \E g : g = SumStep(f, S, g) /\ SumFunctionOnSet(f, S) = g[S]
  <1> DEFINE c == CHOOSE g : g = SumStep(f, S, g)
  <1>1. c = SumStep(f, S, c)
    OBVIOUS
  <1>2. SumFunctionOnSet(f, S) = c[S]
    BY Zenon DEF SumFunctionOnSet, FoldFunctionOnSet, MapThenFoldSet, SumStep, Picked
  <1> HIDE DEF c
  <1>3. QED
    BY <1>1, <1>2

\* h sums f up over the subsets of 1 .. N, whichever element is taken first.
IsSum(f, N, h) ==
    /\ h \in [SUBSET (1 .. N) -> Nat]
    /\ h[{}] = 0
    /\ \A s \in SUBSET (1 .. N) : \A x \in s : h[s] = f[x] + h[s \ {x}]

\* There is such a function: the sum of the elements up to m, for every m.
LEMMA SumExists ==
    ASSUME NEW N \in Nat, NEW f, \A i \in 1 .. N : f[i] \in Nat
    PROVE  \E h : IsSum(f, N, h)
  <1> DEFINE D == SUBSET (1 .. N)
             Part(m, h) ==
                /\ h \in [D -> Nat]
                /\ h[{}] = 0
                /\ \A s \in D : \A x \in s :
                      h[s] = IF x <= m THEN f[x] + h[s \ {x}] ELSE h[s \ {x}]
             Good(m) == \E h : Part(m, h)
  <1>1. Good(0)
    <2> DEFINE z == [s \in D |-> 0]
    <2>1. z \in [D -> Nat] /\ {} \in D /\ \A s \in D : \A x \in s : ~ (x <= 0) /\ s \ {x} \in D
      OBVIOUS
    <2>2. Part(0, z)
      BY <2>1
    <2>3. QED
      BY <2>2
  <1>2. ASSUME NEW m \in Nat, m < N, Good(m)
        PROVE  Good(m + 1)
    <2>1. PICK h : Part(m, h)
      BY <1>2
    <2> DEFINE c(s) == IF m + 1 \in s THEN f[m + 1] ELSE 0
               n == [s \in D |-> h[s] + c(s)]
    <2>2. f[m + 1] \in Nat /\ m + 1 \in 1 .. N
      BY <1>2
    <2>3. n \in [D -> Nat]
      BY <2>1, <2>2
    <2>4. n[{}] = 0
      <3>1. {} \in D /\ m + 1 \notin {}
        OBVIOUS
      <3>2. QED
        BY <2>1, <3>1
    <2>5. ASSUME NEW s \in D, NEW x \in s
          PROVE  n[s] = IF x <= m + 1 THEN f[x] + n[s \ {x}] ELSE n[s \ {x}]
      <3>1. /\ s \ {x} \in D /\ x \in 1 .. N /\ f[x] \in Nat
            /\ h[s] \in Nat /\ h[s \ {x}] \in Nat
        BY <2>1
      <3>2. /\ n[s] = h[s] + c(s) /\ n[s \ {x}] = h[s \ {x}] + c(s \ {x})
            /\ h[s] = IF x <= m THEN f[x] + h[s \ {x}] ELSE h[s \ {x}]
        BY <2>1, <3>1
      <3>3. CASE x = m + 1
        <4>1. c(s) = f[x] /\ c(s \ {x}) = 0 /\ ~ (x <= m) /\ x <= m + 1
          BY <3>3
        <4>2. QED
          BY <3>1, <3>2, <4>1
      <3>4. CASE x # m + 1
        <4>1. c(s \ {x}) = c(s) /\ c(s) \in Nat
          BY <3>4, <2>2
        <4>2. x <= m + 1 <=> x <= m
          BY <3>1, <3>4
        <4> HIDE DEF c, n
        <4>3. QED
          BY <3>1, <3>2, <4>1, <4>2
      <3>5. QED
        BY <3>3, <3>4
    <2> HIDE DEF n
    <2>6. Part(m + 1, n)
      BY <2>3, <2>4, <2>5
    <2>7. QED
      BY <2>6
  <1> HIDE DEF Good
  <1>3. Good(N)
    <2> DEFINE T == {m \in 0 .. N : ~ Good(m)}
    <2> SUFFICES ASSUME T # {} PROVE FALSE
      OBVIOUS
    <2>1. T \subseteq Nat
      OBVIOUS
    <2>2. PICK m \in T : \A l \in T : m <= l
      BY <2>1, Smallest
    <2>3. m # 0
      BY <1>1, <2>2
    <2>4. m - 1 \in Nat /\ m - 1 < N /\ m - 1 \in 0 .. N /\ (m - 1) + 1 = m /\ m - 1 \notin T
      BY <2>2, <2>3
    <2>5. Good(m - 1)
      BY <2>4
    <2>6. Good(m)
      BY <1>2, <2>4, <2>5
    <2>7. QED
      BY <2>2, <2>6
  <1>4. PICK h : Part(N, h)
    BY <1>3 DEF Good
  <1>5. ASSUME NEW s \in D, NEW x \in s PROVE h[s] = f[x] + h[s \ {x}]
    <2>1. x <= N
      OBVIOUS
    <2>2. QED
      BY <1>4, <2>1
  <1>6. IsSum(f, N, h)
    BY <1>4, <1>5 DEF IsSum
  <1>7. QED
    BY <1>6

\* Sums are taken by CHOOSE, and do not depend on its choices.
LEMMA SumIs ==
    ASSUME NEW N \in Nat, NEW f, NEW h, IsSum(f, N, h), NEW S \in SUBSET (1 .. N)
    PROVE  SumFunctionOnSet(f, S) = h[S]
  <1> DEFINE r == [s \in SUBSET S |-> h[s]]
  <1>1. ASSUME NEW s \in SUBSET S, s # {}
        PROVE  Picked(s) \in s /\ s \ {Picked(s)} \in SUBSET S /\ s \in SUBSET (1 .. N)
    BY <1>1 DEF Picked
  <1>2. ASSUME NEW s \in SUBSET S
        PROVE  h[s] = IF s = {} THEN 0 ELSE f[Picked(s)] + h[s \ {Picked(s)}]
    <2>1. CASE s = {}
      BY <2>1 DEF IsSum
    <2>2. CASE s # {}
      BY <1>1, <2>2 DEF IsSum
    <2>3. QED
      BY <2>1, <2>2
  <1>3. r = SumStep(f, S, r)
    <2>1. ASSUME NEW s \in SUBSET S
          PROVE  r[s] = IF s = {} THEN 0 ELSE f[Picked(s)] + r[s \ {Picked(s)}]
      BY <1>1, <1>2
    <2>2. QED
      BY <2>1 DEF SumStep
  <1> HIDE DEF r
  <1>4. PICK g : g = SumStep(f, S, g) /\ SumFunctionOnSet(f, S) = g[S]
    BY <1>3, SumUnfolds
  <1>5. \A s \in SUBSET S : g[s] = IF s = {} THEN 0 ELSE f[Picked(s)] + g[s \ {Picked(s)}]
    BY <1>4 DEF SumStep
  <1>6. \A s \in SUBSET S : IsFiniteSet(s) /\ Cardinality(s) \in Nat
    <2>1. IsFiniteSet(1 .. N)
      BY FS_Interval
    <2>2. QED
      BY <2>1, FS_Subset, FS_CardinalityType
  <1> DEFINE T == {n \in Nat : \E s \in SUBSET S : Cardinality(s) = n /\ g[s] # h[s]}
  <1>7. T = {}
    <2> SUFFICES ASSUME T # {} PROVE FALSE
      OBVIOUS
    <2>1. PICK n \in T : \A l \in T : n <= l
      BY Smallest
    <2>2. PICK s \in SUBSET S : Cardinality(s) = n /\ g[s] # h[s]
      BY <2>1
    <2>3. s # {}
      BY <1>2, <1>5, <2>2
    <2> DEFINE x == Picked(s)
               t == s \ {x}
    <2>4. x \in s /\ t \in SUBSET S
      BY <1>1, <2>3
    <2>5. g[s] = f[x] + g[t] /\ h[s] = f[x] + h[t]
      BY <1>2, <1>5, <2>3
    <2>6. Cardinality(t) = n - 1 /\ Cardinality(t) \in Nat /\ n \in Nat
      <3>1. IsFiniteSet(s)
        BY <1>6
      <3>2. Cardinality(s \ {x}) = Cardinality(s) - 1
        <4> HIDE DEF x
        <4>1. QED
          BY <2>4, <3>1, FS_RemoveElement, Zenon
      <3>3. QED
        BY <3>2, <2>2, <2>4, <1>6
    <2>7. g[t] = h[t]
      <3>1. Cardinality(t) \notin T
        <4> HIDE DEF T, t
        <4>1. QED
          BY <2>1, <2>6
      <3>2. QED
        BY <3>1, <2>4, <2>6
    <2>8. QED
      BY <2>2, <2>5, <2>7
  <1>8. S \in SUBSET S /\ Cardinality(S) \in Nat
    BY <1>6
  <1>9. QED
    BY <1>4, <1>7, <1>8

\* A sum of naturals: nothing, and one more.
SumsUp(f, N) ==
    /\ SumFunctionOnSet(f, {}) = 0
    /\ \A S \in SUBSET (1 .. N) :
          /\ SumFunctionOnSet(f, S) \in Nat
          /\ \A x \in S : SumFunctionOnSet(f, S) = f[x] + SumFunctionOnSet(f, S \ {x})

LEMMA SumSteps ==
    ASSUME NEW N \in Nat, NEW f, \A i \in 1 .. N : f[i] \in Nat
    PROVE  SumsUp(f, N)
  <1>1. PICK h : IsSum(f, N, h)
    BY SumExists
  <1>2. \A S \in SUBSET (1 .. N) : SumFunctionOnSet(f, S) = h[S]
    BY <1>1, SumIs
  <1>3. \A S \in SUBSET (1 .. N) : h[S] \in Nat /\ \A x \in S : h[S] = f[x] + h[S \ {x}]
    BY <1>1 DEF IsSum
  <1>4. \A S \in SUBSET (1 .. N) : \A x \in S : S \ {x} \in SUBSET (1 .. N)
    OBVIOUS
  <1>5. h[{}] = 0 /\ {} \in SUBSET (1 .. N)
    BY <1>1 DEF IsSum
  <1>6. QED
    BY <1>2, <1>3, <1>4, <1>5 DEF SumsUp
=============================================================================
