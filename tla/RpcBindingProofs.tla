-------------------------- MODULE RpcBindingProofs --------------------------
(***************************************************************************)
(* Theorems about the list of subscribers, for every set of instances,     *)
(* handlers and users and every number of subscriptions.                   *)
(***************************************************************************)
EXTENDS RpcBinding, SequenceTheorems, FiniteSetTheorems, WellFoundedInduction, TLAPS

Subscription(n) == [handler : Handlers, number : 1 .. n]
-----------------------------------------------------------------------------
\* A set of positions has a first one, and Min is it.
LEMMA MinFirst ==
    ASSUME NEW T, T \subseteq Nat, T # {}
    PROVE  Min(T) \in T /\ \A y \in T : Min(T) <= y
  <1> DEFINE R == OpToRel(<, Nat)
  <1>1. IsWellFoundedOn(R, Nat)
    BY NatLessThanWellFounded
  <1>2. PICK x \in T : \A y \in T : ~ (<<y, x>> \in R)
    <2> HIDE DEF R
    <2>1. QED
      BY <1>1, WFMin
  <1>3. \A y \in T : <<y, x>> \in R <=> y < x
    BY DEF OpToRel
  <1>4. \A y \in T : x <= y
    <2> SUFFICES ASSUME NEW y \in T PROVE x <= y
      OBVIOUS
    <2>1. ~ (y < x)
      BY <1>2, <1>3
    <2>2. x \in Nat /\ y \in Nat
      OBVIOUS
    <2>3. QED
      BY <2>1, <2>2
  <1>5. \E z \in T : \A y \in T : z <= y
    BY <1>4
  <1>6. QED
    BY <1>5 DEF Min

\* Removing an element moves those behind it forward by one.
LEMMA Removed ==
    ASSUME NEW S, NEW s \in Seq(S), NEW i \in DOMAIN s
    PROVE  /\ RemoveAt(s, i) \in Seq(S)
           /\ Len(RemoveAt(s, i)) = Len(s) - 1
           /\ DOMAIN RemoveAt(s, i) = 1 .. Len(s) - 1
           /\ \A j \in 1 .. Len(s) - 1 :
                  RemoveAt(s, i)[j] = s[IF j < i THEN j ELSE j + 1]
  <1> DEFINE a == SubSeq(s, 1, i - 1)
             b == SubSeq(s, i + 1, Len(s))
             c == a \o b
  <1>1. i \in 1 .. Len(s) /\ Len(s) \in Nat
    OBVIOUS
  <1>2. a \in Seq(S) /\ Len(a) = i - 1 /\ \A j \in 1 .. i - 1 : a[j] = s[j]
    BY <1>1
  <1>3. b \in Seq(S) /\ Len(b) = Len(s) - i /\ \A j \in 1 .. Len(s) - i : b[j] = s[j + i]
    BY <1>1
  <1>4. RemoveAt(s, i) = c
    BY DEF RemoveAt
  <1> HIDE DEF a, b
  <1>5. /\ c \in Seq(S)
        /\ Len(c) = Len(a) + Len(b)
        /\ \A j \in 1 .. Len(a) + Len(b) :
               c[j] = IF j <= Len(a) THEN a[j] ELSE b[j - Len(a)]
    BY <1>2, <1>3, ConcatProperties
  <1> HIDE DEF c
  <1>6. Len(c) = Len(s) - 1 /\ DOMAIN c = 1 .. Len(s) - 1
    BY <1>1, <1>2, <1>3, <1>5
  <1>7. ASSUME NEW j \in 1 .. Len(s) - 1
        PROVE  c[j] = s[IF j < i THEN j ELSE j + 1]
    <2>1. CASE j < i
      <3>1. j <= Len(a) /\ j \in 1 .. Len(a) + Len(b) /\ j \in 1 .. i - 1
        BY <2>1, <1>1, <1>2, <1>3
      <3>2. c[j] = a[j]
        BY <3>1, <1>5
      <3>3. a[j] = s[j]
        BY <3>1, <1>2
      <3>4. QED
        BY <3>2, <3>3, <2>1
    <2>2. CASE j >= i
      <3>1. j - (i - 1) \in 1 .. Len(s) - i /\ j - (i - 1) + i = j + 1
        BY <2>2, <1>1
      <3>2. ~ (j <= Len(a)) /\ j \in 1 .. Len(a) + Len(b) /\ j - Len(a) = j - (i - 1)
        BY <2>2, <1>1, <1>2, <1>3
      <3>3. c[j] = b[j - (i - 1)]
        BY <3>2, <1>5
      <3>4. b[j - (i - 1)] = s[j + 1]
        BY <3>1, <1>3
      <3>5. QED
        BY <3>3, <3>4, <2>2, <1>1
    <2>3. QED
      BY <2>1, <2>2, <1>1
  <1>8. QED
    BY <1>4, <1>5, <1>6, <1>7
-----------------------------------------------------------------------------
\* At first there are no subscriptions, no loops and no accesses.
LEMMA InitIInv == Init => IInv
  <1> SUFFICES ASSUME Init PROVE IInv
    OBVIOUS
  <1> USE ConstantsAssumption DEF Init
  <1>1. TypeOK
    BY DEF TypeOK, Walking
  <1>2. Ordered
    BY DEF Ordered
  <1>3. ServedBehind
    BY DEF ServedBehind, Walking
  <1>4. QED
    BY <1>1, <1>2, <1>3 DEF IInv

\* subscribe(): the new one has the highest number and the last place.
LEMMA SubscribeStep ==
    ASSUME IInv, NEW h \in Handlers, subscribe(h)
    PROVE  IInv'
  <1> DEFINE new == [handler |-> h, number |-> count + 1]
             n == Len(subscribers)
  <1>1. count \in Nat /\ count + 1 \in 0 .. MaxSubscribes /\ count' = count + 1
    BY ConstantsAssumption DEF IInv, TypeOK, subscribe
  <1>2. subscribers \in Seq(Subscription(count)) /\ n \in Nat /\ DOMAIN subscribers = 1 .. n
    BY DEF IInv, TypeOK, Subscription
  <1>3. \A p \in 1 .. n : subscribers[p] \in Subscription(count) /\ subscribers[p].number \in 1 .. count
    <2>1. \A p \in 1 .. n : subscribers[p] \in Subscription(count)
      BY <1>2
    <2>2. \A x \in Subscription(count) : x.number \in 1 .. count
      BY DEF Subscription
    <2>3. QED
      BY <2>1, <2>2
  <1>4. Subscription(count) \subseteq Subscription(count + 1) /\ new \in Subscription(count + 1)
    BY <1>1 DEF Subscription
  <1>5. subscribers' = Append(subscribers, new)
    BY DEF subscribe
  <1>6. subscribers \in Seq(Subscription(count + 1))
    BY <1>2, <1>3, <1>4
  <1> HIDE DEF new
  <1>7. /\ subscribers' \in Seq(Subscription(count'))
        /\ Len(subscribers') = n + 1
        /\ DOMAIN subscribers' = 1 .. n + 1
        /\ \A p \in 1 .. n : subscribers'[p] = subscribers[p]
        /\ subscribers'[n + 1] = new
    BY <1>1, <1>2, <1>4, <1>5, <1>6
  <1>8. new.number = count + 1
    BY DEF new
  <1>9. TypeOK'
    <2>1. \A i \in Notifying : Walking(i)' => index'[i] <= Len(subscribers') + removed'[i]
      <3> SUFFICES ASSUME NEW i \in Notifying, Walking(i)'
                   PROVE  index'[i] <= Len(subscribers') + removed'[i]
        OBVIOUS
      <3>1. Walking(i) /\ index'[i] = index[i] /\ removed'[i] = removed[i]
        BY DEF subscribe, Walking, dispatch
      <3>2. index[i] <= n + removed[i] /\ index[i] \in Nat /\ removed[i] \in Nat
        BY <3>1 DEF IInv, TypeOK
      <3>3. QED
        BY <3>1, <3>2, <1>2, <1>7
    <2>2. /\ due' \in [Notifying -> SUBSET (1 .. count')]
          /\ served' \in [Notifying -> SUBSET (1 .. count')]
      <3>1. 1 .. count \subseteq 1 .. count'
        BY <1>1
      <3>2. due' = due /\ served' = served
        BY DEF subscribe, dispatch
      <3>3. QED
        BY <3>1, <3>2 DEF IInv, TypeOK
    <2>3. QED
      BY <2>1, <2>2, <1>1, <1>7
         DEF IInv, TypeOK, subscribe, binding, dispatch, Subscription, Walking
  <1>10. Ordered'
    <2> SUFFICES ASSUME NEW p \in 1 .. n + 1, NEW q \in 1 .. n + 1, p < q
                 PROVE  subscribers'[p].number < subscribers'[q].number
      BY <1>7 DEF Ordered
    <2>1. p \in 1 .. n /\ subscribers'[p] = subscribers[p]
      BY <1>2, <1>7
    <2>2. CASE q = n + 1
      BY <2>1, <2>2, <1>1, <1>3, <1>7, <1>8
    <2>3. CASE q \in 1 .. n
      BY <2>1, <2>3, <1>2, <1>7 DEF IInv, Ordered
    <2>4. QED
      BY <2>2, <2>3, <1>2
  <1>11. ServedBehind'
    <2> SUFFICES ASSUME NEW i \in Notifying, Walking(i)',
                        NEW p \in 1 .. n + 1, p > index'[i],
                        NEW k \in served'[i]
                 PROVE  k < subscribers'[p].number
      BY <1>7 DEF ServedBehind
    <2>1. Walking(i) /\ index'[i] = index[i] /\ served'[i] = served[i]
      BY DEF subscribe, Walking, dispatch
    <2>2. k \in 1 .. count
      BY <2>1 DEF IInv, TypeOK
    <2>3. CASE p = n + 1
      BY <2>2, <2>3, <1>1, <1>7, <1>8
    <2>4. CASE p \in 1 .. n
      BY <2>1, <2>4, <1>2, <1>7 DEF IInv, ServedBehind
    <2>5. QED
      BY <2>3, <2>4, <1>2
  <1>12. QED
    BY <1>9, <1>10, <1>11 DEF IInv

\* unsubscribe(): what is ahead of a loop was ahead of it before.
LEMMA UnsubscribeStep ==
    ASSUME IInv, NEW h \in Handlers, unsubscribe(h)
    PROVE  IInv'
  <1> DEFINE n == Len(subscribers)
             at == Min(Subscriptions(h))
             old(p) == IF p < at THEN p ELSE p + 1
  <1>1. subscribers \in Seq(Subscription(count)) /\ n \in Nat /\ DOMAIN subscribers = 1 .. n
    BY DEF IInv, TypeOK, Subscription
  <1>2. at \in 1 .. n
    <2>1. Subscriptions(h) \subseteq 1 .. n /\ Subscriptions(h) # {}
      BY <1>1 DEF Subscriptions, unsubscribe
    <2>2. QED
      BY <2>1, MinFirst
  <1>3. subscribers' = RemoveAt(subscribers, at)
    BY DEF unsubscribe, Unsubscribed
  <1>4. /\ binding' = binding /\ dispatch' = dispatch /\ count' = count
        /\ removed' = [i \in Notifying |-> IF Walking(i) THEN removed[i] + 1 ELSE removed[i]]
    BY DEF unsubscribe, binding, dispatch
  <1> HIDE DEF at
  <1>5. /\ subscribers' \in Seq(Subscription(count))
        /\ Len(subscribers') = n - 1
        /\ DOMAIN subscribers' = 1 .. n - 1
        /\ \A p \in 1 .. n - 1 : subscribers'[p] = subscribers[old(p)]
    BY <1>1, <1>2, <1>3, Removed
  <1>6. \A p \in 1 .. n - 1 : old(p) \in 1 .. n /\ old(p) >= p
    BY <1>1, <1>2
  <1>7. \A p, q \in 1 .. n - 1 : p < q => old(p) < old(q)
    BY <1>1, <1>2
  <1> HIDE DEF old
  <1>8. TypeOK'
    <2>1. \A i \in Notifying : Walking(i)' => index'[i] <= Len(subscribers') + removed'[i]
      <3> SUFFICES ASSUME NEW i \in Notifying, Walking(i)'
                   PROVE  index'[i] <= Len(subscribers') + removed'[i]
        OBVIOUS
      <3>1. Walking(i) /\ index'[i] = index[i] /\ removed'[i] = removed[i] + 1
        BY <1>4 DEF Walking, dispatch
      <3>2. index[i] <= n + removed[i] /\ index[i] \in Nat /\ removed[i] \in Nat
        BY <3>1 DEF IInv, TypeOK
      <3>3. QED
        BY <3>1, <3>2, <1>1, <1>5
    <2>2. removed' \in [Notifying -> Nat]
      <3>1. \A i \in Notifying : removed[i] \in Nat /\ removed[i] + 1 \in Nat
        BY DEF IInv, TypeOK
      <3>2. QED
        BY <3>1, <1>4
    <2>3. QED
      BY <2>1, <2>2, <1>4, <1>5 DEF IInv, TypeOK, binding, dispatch, Subscription, Walking
  <1>9. Ordered'
    <2> SUFFICES ASSUME NEW p \in 1 .. n - 1, NEW q \in 1 .. n - 1, p < q
                 PROVE  subscribers'[p].number < subscribers'[q].number
      BY <1>5 DEF Ordered
    <2>1. old(p) \in DOMAIN subscribers /\ old(q) \in DOMAIN subscribers /\ old(p) < old(q)
      BY <1>1, <1>6, <1>7
    <2>2. QED
      BY <2>1, <1>5 DEF IInv, Ordered
  <1>10. ServedBehind'
    <2> SUFFICES ASSUME NEW i \in Notifying, Walking(i)',
                        NEW p \in 1 .. n - 1, p > index'[i],
                        NEW k \in served'[i]
                 PROVE  k < subscribers'[p].number
      BY <1>5 DEF ServedBehind
    <2>1. /\ Walking(i) /\ index'[i] = index[i] /\ served'[i] = served[i]
          /\ index[i] \in Nat
      BY <1>4 DEF Walking, dispatch, IInv, TypeOK
    <2>2. old(p) \in DOMAIN subscribers /\ old(p) > index[i]
      BY <2>1, <1>1, <1>6
    <2>3. QED
      BY <2>1, <2>2, <1>5 DEF IInv, ServedBehind
  <1>11. QED
    BY <1>8, <1>9, <1>10 DEF IInv

\* The loop takes the next element: everything behind it has a higher number.
LEMMA CallNextStep ==
    ASSUME IInv, NEW i \in Notifying, CallNext(i)
    PROVE  IInv'
  <1> DEFINE n == Len(subscribers)
             next == index[i] + 1
             called == subscribers[next].number
  <1>1. /\ subscribers \in Seq(Subscription(count)) /\ n \in Nat /\ DOMAIN subscribers = 1 .. n
        /\ index[i] \in Nat /\ next \in 1 .. n
    BY DEF IInv, TypeOK, Subscription, CallNext
  <1>2. called \in 1 .. count
    <2>1. subscribers[next] \in Subscription(count)
      BY <1>1
    <2>2. QED
      BY <2>1 DEF Subscription
  <1>3. /\ index' = [index EXCEPT ![i] = next]
        /\ served' = [served EXCEPT ![i] = @ \cup {called}]
        /\ listener' = [listener EXCEPT ![i] = "callback"]
        /\ subscribers' = subscribers /\ binding' = binding
        /\ count' = count /\ due' = due /\ removed' = removed
    BY DEF CallNext, Following, binding
  <1>4. Walking(i) /\ \A j \in Notifying : Walking(j)' <=> Walking(j)
    BY <1>3 DEF Walking, CallNext, IInv, TypeOK
  <1> HIDE DEF called
  <1>5. TypeOK'
    <2>1. \A j \in Notifying : Walking(j)' => index'[j] <= Len(subscribers') + removed'[j]
      <3> SUFFICES ASSUME NEW j \in Notifying, Walking(j)
                   PROVE  index'[j] <= n + removed[j]
        BY <1>3, <1>4
      <3>1. index[j] <= n + removed[j] /\ index[j] \in Nat /\ removed[j] \in Nat
        BY DEF IInv, TypeOK
      <3>2. CASE j = i
        BY <3>1, <3>2, <1>1, <1>3 DEF IInv, TypeOK
      <3>3. CASE j # i
        BY <3>1, <3>3, <1>3 DEF IInv, TypeOK
      <3>4. QED
        BY <3>2, <3>3
    <2>2. index' \in [Notifying -> Nat]
      BY <1>1, <1>3 DEF IInv, TypeOK
    <2>3. served' \in [Notifying -> SUBSET (1 .. count)]
      BY <1>2, <1>3 DEF IInv, TypeOK
    <2>4. listener' \in [Notifying -> {"receive", "dispatch", "callback", "dead"}]
      BY <1>3 DEF IInv, TypeOK
    <2>5. QED
      BY <2>1, <2>2, <2>3, <2>4, <1>3 DEF IInv, TypeOK, binding, Walking
  <1>6. Ordered'
    BY <1>3 DEF IInv, Ordered
  <1>7. ServedBehind'
    <2> SUFFICES ASSUME NEW j \in Notifying, Walking(j),
                        NEW p \in 1 .. n, p > index'[j],
                        NEW k \in served'[j]
                 PROVE  k < subscribers[p].number
      BY <1>1, <1>3, <1>4 DEF ServedBehind
    <2>1. CASE j # i
      <3>1. index'[j] = index[j] /\ served'[j] = served[j]
        BY <2>1, <1>3 DEF IInv, TypeOK
      <3>2. QED
        BY <3>1, <1>1 DEF IInv, ServedBehind
    <2>2. CASE j = i
      <3>1. index'[j] = next /\ served'[j] = served[i] \cup {called}
        BY <2>2, <1>3 DEF IInv, TypeOK
      <3>2. next < p /\ index[i] < p
        BY <3>1, <1>1
      <3>3. called < subscribers[p].number
        BY <3>2, <1>1 DEF IInv, Ordered, called
      <3>4. \A m \in served[i] : m < subscribers[p].number
        BY <3>2, <2>2, <1>1 DEF IInv, ServedBehind
      <3>5. QED
        BY <3>1, <3>3, <3>4
    <2>3. QED
      BY <2>1, <2>2
  <1>8. QED
    BY <1>5, <1>6, <1>7 DEF IInv

\* Receive(), the end of a callback and the end of the loop.
LEMMA ListenerStep ==
    ASSUME IInv, NEW i \in Notifying,
           Receive(i) \/ CallbackReturns(i) \/ CallbackRaises(i) \/ DispatchDone(i)
    PROVE  IInv'
  <1>1. /\ subscribers' = subscribers /\ binding' = binding /\ count' = count
        /\ Ordered'
    BY DEF Receive, CallbackReturns, CallbackRaises, DispatchDone, binding,
           IInv, Ordered
  <1>2. CASE Receive(i)
    <2>1. /\ listener' = [listener EXCEPT ![i] = "dispatch"]
          /\ index' = [index EXCEPT ![i] = 0]
          /\ due' = [due EXCEPT ![i] = Numbers(subscribers)]
          /\ served' = [served EXCEPT ![i] = {}]
          /\ removed' = [removed EXCEPT ![i] = 0]
      BY <1>2 DEF Receive
    <2>2. Numbers(subscribers) \subseteq 1 .. count
      <3>1. \A p \in DOMAIN subscribers : subscribers[p] \in Subscription(count)
        <4>1. subscribers \in Seq(Subscription(count))
          BY DEF IInv, TypeOK, Subscription
        <4>2. QED
          BY <4>1
      <3>2. \A x \in Subscription(count) : x.number \in 1 .. count
        BY DEF Subscription
      <3>3. QED
        BY <3>1, <3>2 DEF Numbers
    <2>3. Len(subscribers) \in Nat
      BY DEF IInv, TypeOK
    <2>4. \A j \in Notifying : Walking(j)' => index'[j] <= Len(subscribers') + removed'[j]
      BY <1>1, <2>1, <2>3 DEF IInv, TypeOK, Walking
    <2>5. TypeOK'
      BY <1>1, <2>1, <2>2, <2>4 DEF IInv, TypeOK, binding, Walking
    <2>6. ServedBehind'
      BY <1>1, <2>1 DEF IInv, TypeOK, ServedBehind, Walking
    <2>7. QED
      BY <1>1, <2>5, <2>6 DEF IInv
  <1>3. CASE CallbackReturns(i) \/ CallbackRaises(i) \/ DispatchDone(i)
    <2>1. /\ index' = index /\ due' = due /\ served' = served /\ removed' = removed
          /\ \E s \in {"receive", "dispatch", "dead"} :
                 listener' = [listener EXCEPT ![i] = s]
          /\ listener[i] \in {"dispatch", "callback"}
      BY <1>3 DEF CallbackReturns, CallbackRaises, DispatchDone
    <2>2. \A j \in Notifying : Walking(j)' => Walking(j)
      BY <2>1 DEF IInv, TypeOK, Walking
    <2>3. TypeOK'
      BY <1>1, <2>1, <2>2 DEF IInv, TypeOK, binding, Walking
    <2>4. ServedBehind'
      BY <1>1, <2>1, <2>2 DEF IInv, ServedBehind
    <2>5. QED
      BY <1>1, <2>3, <2>4 DEF IInv
  <1>4. QED
    BY <1>2, <1>3

\* The accesses and calls leave the list and the listeners alone.
LEMMA BindingStep ==
    ASSUME IInv, NEW u \in Users,
           Call(u) \/ \E i \in Instances \cup {None} : Get(u, i)
    PROVE  IInv'
  <1>1. /\ subscribers' = subscribers /\ dispatch' = dispatch
        /\ count' = count /\ removed' = removed
    BY DEF Call, Get, dispatch
  <1>2. Ordered' /\ ServedBehind'
    BY <1>1 DEF IInv, Ordered, ServedBehind, Walking, dispatch
  <1>3. /\ instance' \in Instances \cup {None}
        /\ bound' \in [Users -> Instances \cup {None}]
        /\ target' \in Instances \cup {None}
    <2>1. /\ instance \in Instances \cup {None}
          /\ bound \in [Users -> Instances \cup {None}]
          /\ target \in Instances \cup {None}
      BY DEF IInv, TypeOK
    <2>2. CASE Call(u)
      <3>1. bound' = [bound EXCEPT ![u] = None]
        BY <2>2 DEF Call
      <3>2. bound' \in [Users -> Instances \cup {None}]
        BY <3>1, <2>1
      <3>3. QED
        BY <3>2, <2>1, <2>2 DEF Call
    <2>3. CASE \E i \in Instances \cup {None} : Get(u, i)
      <3>1. PICK i \in Instances \cup {None} : Get(u, i)
        BY <2>3
      <3>2. bound' = [bound EXCEPT ![u] = i]
        BY <3>1 DEF Get
      <3>3. bound' \in [Users -> Instances \cup {None}]
        BY <3>2, <2>1
      <3>4. QED
        BY <3>1, <3>3, <2>1 DEF Get
    <2>4. QED
      BY <2>2, <2>3
  <1>4. TypeOK'
    BY <1>1, <1>3 DEF IInv, TypeOK, dispatch, Walking
  <1>5. QED
    BY <1>2, <1>4 DEF IInv

\* Every step preserves the inductive invariant.
LEMMA NextIInv == IInv /\ [Next]_vars => IInv'
  <1> SUFFICES ASSUME IInv, [Next]_vars PROVE IInv'
    OBVIOUS
  <1>1. CASE UNCHANGED vars
    BY <1>1 DEF IInv, TypeOK, Ordered, ServedBehind, Walking,
                vars, binding, dispatch
  <1>2. CASE \E h \in Handlers : subscribe(h) \/ unsubscribe(h)
    BY <1>2, SubscribeStep, UnsubscribeStep
  <1>3. CASE \E i \in Notifying : Receive(i) \/ Walk(i)
    BY <1>3, CallNextStep, ListenerStep DEF Walk
  <1>4. CASE \E u \in Users : Call(u) \/ \E i \in Instances \cup {None} : Get(u, i)
    BY <1>4, BindingStep
  <1>5. QED
    BY <1>1, <1>2, <1>3, <1>4 DEF Next
-----------------------------------------------------------------------------
\* The positions up to the end of the list or to the iterator, whichever is first.
LEMMA PassedPositions ==
    ASSUME NEW k \in Nat, NEW l \in Nat
    PROVE  1 .. Min({k, l}) = {q \in 1 .. l : q <= k}
  <1> DEFINE m == Min({k, l})
  <1>1. m \in {k, l} /\ m <= k /\ m <= l
    BY MinFirst
  <1> HIDE DEF m
  <1>2. CASE m = k
    BY <1>1, <1>2 DEF m
  <1>3. CASE m = l
    BY <1>1, <1>3 DEF m
  <1>4. QED
    BY <1>1, <1>2, <1>3

\* The elements that a loop has passed are those up to its iterator.
LEMMA PassedElements ==
    ASSUME NEW s, Len(s) \in Nat, DOMAIN s = 1 .. Len(s), NEW k \in Nat
    PROVE  {s[p].number : p \in 1 .. Min({k, Len(s)})} =
               {s[p].number : p \in {q \in DOMAIN s : q <= k}}
  <1>1. 1 .. Min({k, Len(s)}) = {q \in DOMAIN s : q <= k}
    BY PassedPositions
  <1>2. QED
    BY <1>1

\* A set that has at most one element that a bounded set has not.
LEMMA OneMore ==
    ASSUME NEW n \in Nat, NEW old, old \subseteq 1 .. n, NEW new, NEW x, new \subseteq old \cup {x}
    PROVE  /\ Cardinality(old) \in Nat /\ Cardinality(new) \in Nat
           /\ Cardinality(new) <= Cardinality(old) + 1
           /\ x \in old => Cardinality(new) <= Cardinality(old)
  <1>1. IsFiniteSet(1 .. n)
    BY FS_Interval
  <1>2. IsFiniteSet(old)
    BY <1>1, FS_Subset
  <1>3. /\ IsFiniteSet(old \cup {x})
        /\ Cardinality(old \cup {x}) = IF x \in old THEN Cardinality(old) ELSE Cardinality(old) + 1
    BY <1>2, FS_AddElement
  <1>4. IsFiniteSet(new) /\ Cardinality(new) <= Cardinality(old \cup {x})
    BY <1>3, FS_Subset
  <1>5. Cardinality(old) \in Nat /\ Cardinality(new) \in Nat
    BY <1>2, <1>4, FS_CardinalityType
  <1>6. QED
    BY <1>3, <1>4, <1>5

\* A bounded set that shrinks.
LEMMA NoMore ==
    ASSUME NEW n \in Nat, NEW old, old \subseteq 1 .. n, NEW new, new \subseteq old
    PROVE  /\ Cardinality(old) \in Nat /\ Cardinality(new) \in Nat
           /\ Cardinality(new) <= Cardinality(old)
  <1>1. IsFiniteSet(1 .. n)
    BY FS_Interval
  <1>2. IsFiniteSet(old)
    BY <1>1, FS_Subset
  <1>3. IsFiniteSet(new) /\ Cardinality(new) <= Cardinality(old)
    BY <1>2, FS_Subset
  <1>4. QED
    BY <1>2, <1>3, FS_CardinalityType

\* The skipped subscriptions, by their positions, before and after a step.
LEMMA SkippedMembers ==
    ASSUME IInv, IInv', NEW i \in Notifying
    PROVE  /\ Skipped(i) =
                 ({subscribers[p].number : p \in {q \in DOMAIN subscribers : q <= index[i]}}
                     \cap due[i]) \ served[i]
           /\ Skipped(i)' =
                 ({subscribers'[p].number : p \in {q \in DOMAIN subscribers' : q <= index'[i]}}
                     \cap due'[i]) \ served'[i]
           /\ count \in Nat /\ Skipped(i) \subseteq 1 .. count
           /\ count' \in Nat /\ Skipped(i)' \subseteq 1 .. count'
           /\ removed[i] \in Nat /\ index[i] \in Nat
           /\ Len(subscribers) \in Nat /\ DOMAIN subscribers = 1 .. Len(subscribers)
  <1>1. /\ Len(subscribers) \in Nat /\ DOMAIN subscribers = 1 .. Len(subscribers)
        /\ index[i] \in Nat /\ removed[i] \in Nat
        /\ count \in Nat /\ due[i] \subseteq 1 .. count
    BY DEF IInv, TypeOK
  <1>2. /\ Len(subscribers') \in Nat /\ DOMAIN subscribers' = 1 .. Len(subscribers')
        /\ index'[i] \in Nat
        /\ count' \in Nat /\ due'[i] \subseteq 1 .. count'
    BY DEF IInv, TypeOK
  <1>3. Passed(i) = {subscribers[p].number : p \in {q \in DOMAIN subscribers : q <= index[i]}}
    BY <1>1, PassedElements DEF Passed
  <1>4. Passed(i)' = {subscribers'[p].number : p \in {q \in DOMAIN subscribers' : q <= index'[i]}}
    BY <1>2, PassedElements DEF Passed
  <1>5. QED
    BY <1>1, <1>2, <1>3, <1>4 DEF Skipped

\* No step but unsubscribe() makes a loop skip a subscription: the one that
\* subscribe() adds was not due, and the one that the loop passes is called.
LEMMA SkipsNoMore ==
    ASSUME IInv, IInv', SkippedAtMostRemoved, NEW i \in Notifying, Walking(i),
           removed'[i] = removed[i], Skipped(i)' \subseteq Skipped(i)
    PROVE  Cardinality(Skipped(i)') <= removed'[i]
  <1>1. /\ count \in Nat /\ Skipped(i) \subseteq 1 .. count /\ removed[i] \in Nat
        /\ Cardinality(Skipped(i)) <= removed[i]
    BY SkippedMembers DEF SkippedAtMostRemoved
  <1>2. /\ Cardinality(Skipped(i)) \in Nat /\ Cardinality(Skipped(i)') \in Nat
        /\ Cardinality(Skipped(i)') <= Cardinality(Skipped(i))
    BY <1>1, NoMore
  <1>3. QED
    BY <1>1, <1>2

\* unsubscribe() hides at most the element that moves to the iterator's place.
LEMMA UnsubscribeSkipsOne ==
    ASSUME IInv, IInv', SkippedAtMostRemoved, NEW h \in Handlers, unsubscribe(h)
    PROVE  SkippedAtMostRemoved'
  <1> SUFFICES ASSUME NEW i \in Notifying, Walking(i)'
               PROVE  Cardinality(Skipped(i)') <= removed'[i]
    BY DEF SkippedAtMostRemoved
  <1> DEFINE n == Len(subscribers)
             at == Min(Subscriptions(h))
             old(p) == IF p < at THEN p ELSE p + 1
             moved == subscribers[index[i] + 1].number
  <1>1. subscribers \in Seq(Subscription(count)) /\ n \in Nat /\ DOMAIN subscribers = 1 .. n
    BY DEF IInv, TypeOK, Subscription
  <1>2. at \in 1 .. n
    <2>1. Subscriptions(h) \subseteq 1 .. n /\ Subscriptions(h) # {}
      BY <1>1 DEF Subscriptions, unsubscribe
    <2>2. QED
      BY <2>1, MinFirst
  <1>3. /\ subscribers' = RemoveAt(subscribers, at)
        /\ Walking(i) /\ removed'[i] = removed[i] + 1
        /\ index' = index /\ due' = due /\ served' = served
    BY DEF unsubscribe, Unsubscribed, dispatch, Walking
  <1> HIDE DEF at
  <1>4. /\ DOMAIN subscribers' = 1 .. n - 1
        /\ \A p \in 1 .. n - 1 : subscribers'[p] = subscribers[old(p)]
    BY <1>1, <1>2, <1>3, Removed
  <1>5. \A p \in 1 .. n - 1 : old(p) \in 1 .. n /\ old(p) <= p + 1
    BY <1>1, <1>2
  <1> HIDE DEF old
  <1>6. /\ count \in Nat /\ Skipped(i) \subseteq 1 .. count
        /\ removed[i] \in Nat /\ index[i] \in Nat
    BY SkippedMembers
  <1>7. Skipped(i)' \subseteq Skipped(i) \cup {moved}
    <2> SUFFICES ASSUME NEW x \in Skipped(i)', x # moved
                 PROVE  x \in Skipped(i)
      OBVIOUS
    <2>1. PICK p \in DOMAIN subscribers' : p <= index'[i] /\ x = subscribers'[p].number
      BY SkippedMembers
    <2>2. x \in due[i] /\ x \notin served[i]
      BY <1>3, SkippedMembers
    <2>3. p \in 1 .. n - 1 /\ p <= index[i] /\ x = subscribers[old(p)].number
      BY <2>1, <1>3, <1>4
    <2>4. old(p) \in DOMAIN subscribers /\ old(p) <= index[i] + 1 /\ old(p) # index[i] + 1
      <3>1. old(p) \in 1 .. n /\ old(p) <= p + 1
        BY <2>3, <1>5
      <3>2. old(p) # index[i] + 1
        BY <2>3
      <3>3. QED
        BY <3>1, <3>2, <2>3, <1>1, <1>6
    <2>5. old(p) <= index[i]
      BY <2>4, <1>1, <1>6
    <2>6. QED
      BY <2>2, <2>3, <2>4, <2>5, SkippedMembers
  <1>8. Cardinality(Skipped(i)) <= removed[i]
    BY <1>3 DEF SkippedAtMostRemoved
  <1> HIDE DEF moved
  <1>9. /\ Cardinality(Skipped(i)) \in Nat /\ Cardinality(Skipped(i)') \in Nat
        /\ Cardinality(Skipped(i)') <= Cardinality(Skipped(i)) + 1
    BY <1>6, <1>7, OneMore
  <1>10. QED
    BY <1>3, <1>6, <1>8, <1>9

\* The other steps.
LEMMA StepSkipsNone ==
    ASSUME IInv, IInv', SkippedAtMostRemoved, [Next]_vars,
           \A h \in Handlers : ~ unsubscribe(h)
    PROVE  SkippedAtMostRemoved'
  <1> SUFFICES ASSUME NEW i \in Notifying, Walking(i)'
               PROVE  Cardinality(Skipped(i)') <= removed'[i]
    BY DEF SkippedAtMostRemoved
  <1>0. /\ index \in [Notifying -> Nat] /\ removed \in [Notifying -> Nat]
        /\ served \in [Notifying -> SUBSET (1 .. count)]
        /\ due \in [Notifying -> SUBSET (1 .. count)] /\ count \in Nat
        /\ listener \in [Notifying -> {"receive", "dispatch", "callback", "dead"}]
    BY DEF IInv, TypeOK
  <1>1. ASSUME subscribers' = subscribers, Walking(i), index'[i] = index[i], due'[i] = due[i],
               served'[i] = served[i], removed'[i] = removed[i]
        PROVE  Cardinality(Skipped(i)') <= removed'[i]
    <2>1. Skipped(i)' \subseteq Skipped(i)
      BY <1>1, SkippedMembers
    <2>2. QED
      BY <1>1, <2>1, SkipsNoMore
  <1>2. ASSUME NEW h \in Handlers, subscribe(h)
        PROVE  Cardinality(Skipped(i)') <= removed'[i]
    <2> DEFINE new == [handler |-> h, number |-> count + 1]
               n == Len(subscribers)
    <2>1. /\ subscribers' = Append(subscribers, new)
          /\ Walking(i) /\ index' = index /\ due' = due /\ served' = served
          /\ removed' = removed
      BY <1>2 DEF subscribe, dispatch, Walking
    <2>2. new.number = count + 1
      OBVIOUS
    <2> HIDE DEF new
    <2>3. n \in Nat /\ DOMAIN subscribers = 1 .. n /\ subscribers \in Seq(Subscription(count))
      BY DEF IInv, TypeOK, Subscription
    <2>4. /\ DOMAIN subscribers' = 1 .. n + 1
          /\ \A p \in 1 .. n : subscribers'[p] = subscribers[p]
          /\ subscribers'[n + 1] = new
      BY <2>1, <2>3
    <2>5. Skipped(i)' \subseteq Skipped(i)
      <3> SUFFICES ASSUME NEW x \in Skipped(i)'
                   PROVE  x \in Skipped(i)
        OBVIOUS
      <3>1. PICK p \in DOMAIN subscribers' : p <= index'[i] /\ x = subscribers'[p].number
        BY SkippedMembers
      <3>2. x \in due[i] /\ x \notin served[i] /\ x # count + 1
        <4>1. x \in due[i] /\ x \notin served[i]
          BY <2>1, SkippedMembers
        <4>2. due[i] \subseteq 1 .. count
          BY <1>0
        <4>3. QED
          BY <4>1, <4>2, <1>0
      <3>3. p # n + 1
        BY <3>1, <3>2, <2>2, <2>4
      <3>4. p \in DOMAIN subscribers /\ p <= index[i] /\ x = subscribers[p].number
        BY <3>1, <3>3, <2>1, <2>3, <2>4
      <3>5. QED
        BY <3>2, <3>4, SkippedMembers
    <2>6. QED
      BY <2>1, <2>5, SkipsNoMore
  <1>3. ASSUME NEW j \in Notifying, Receive(j)
        PROVE  Cardinality(Skipped(i)') <= removed'[i]
    <2>1. CASE j # i
      <3>1. /\ subscribers' = subscribers /\ Walking(i) /\ index'[i] = index[i]
            /\ due'[i] = due[i] /\ served'[i] = served[i] /\ removed'[i] = removed[i]
        BY <1>0, <1>3, <2>1 DEF Receive, Walking
      <3>2. QED
        BY <3>1, <1>1
    <2>2. CASE j = i
      <3>1. index'[i] = 0 /\ removed'[i] = 0 /\ subscribers' = subscribers
        BY <1>0, <1>3, <2>2 DEF Receive
      <3>2. DOMAIN subscribers = 1 .. Len(subscribers) /\ Len(subscribers) \in Nat
        BY SkippedMembers
      <3>3. Skipped(i)' = {}
        BY <3>1, <3>2, SkippedMembers
      <3>4. QED
        BY <3>1, <3>3, FS_EmptySet
    <2>3. QED
      BY <2>1, <2>2
  <1>4. ASSUME NEW j \in Notifying, CallNext(j)
        PROVE  Cardinality(Skipped(i)') <= removed'[i]
    <2>1. CASE j # i
      <3>1. /\ subscribers' = subscribers /\ Walking(i) /\ index'[i] = index[i]
            /\ due'[i] = due[i] /\ served'[i] = served[i] /\ removed'[i] = removed[i]
        BY <1>0, <1>4, <2>1 DEF CallNext, Walking
      <3>2. QED
        BY <3>1, <1>1
    <2>2. CASE j = i
      <3>1. /\ subscribers' = subscribers /\ Walking(i) /\ index'[i] = index[i] + 1
            /\ due'[i] = due[i] /\ removed'[i] = removed[i]
            /\ served'[i] = served[i] \cup {subscribers[index[i] + 1].number}
        BY <1>0, <1>4, <2>2 DEF CallNext, Following, Walking
      <3>2. Skipped(i)' \subseteq Skipped(i)
        <4> SUFFICES ASSUME NEW x \in Skipped(i)'
                     PROVE  x \in Skipped(i)
          OBVIOUS
        <4>1. PICK p \in DOMAIN subscribers' : p <= index'[i] /\ x = subscribers'[p].number
          BY SkippedMembers
        <4>2. x \in due[i] /\ x \notin served[i] /\ x # subscribers[index[i] + 1].number
          BY <3>1, SkippedMembers
        <4>3. p \in DOMAIN subscribers /\ p # index[i] + 1 /\ x = subscribers[p].number
          BY <4>1, <4>2, <3>1
        <4>4. p \in Nat /\ index[i] \in Nat /\ p <= index[i] + 1
          BY <4>1, <4>3, <3>1, SkippedMembers
        <4>5. p <= index[i]
          BY <4>3, <4>4
        <4>6. QED
          BY <4>2, <4>3, <4>5, SkippedMembers
      <3>3. QED
        BY <3>1, <3>2, SkipsNoMore
    <2>3. QED
      BY <2>1, <2>2
  <1>5. ASSUME NEW j \in Notifying, CallbackReturns(j) \/ CallbackRaises(j) \/ DispatchDone(j)
        PROVE  Cardinality(Skipped(i)') <= removed'[i]
    <2>1. /\ subscribers' = subscribers /\ index' = index /\ due' = due
          /\ served' = served /\ removed' = removed
      BY <1>5 DEF CallbackReturns, CallbackRaises, DispatchDone
    <2>2. Walking(i)
      BY <1>0, <1>5 DEF CallbackReturns, CallbackRaises, DispatchDone, Walking
    <2>3. QED
      BY <2>1, <2>2, <1>1
  <1>6. ASSUME \/ UNCHANGED vars
               \/ \E u \in Users : Call(u) \/ \E k \in Instances \cup {None} : Get(u, k)
        PROVE  Cardinality(Skipped(i)') <= removed'[i]
    <2>1. subscribers' = subscribers /\ dispatch' = dispatch /\ removed' = removed
      BY <1>6 DEF Call, Get, vars, dispatch
    <2>2. Walking(i) /\ index' = index /\ due' = due /\ served' = served
      BY <2>1 DEF dispatch, Walking
    <2>3. QED
      BY <2>1, <2>2, <1>1
  <1>7. CASE UNCHANGED vars
    BY <1>6, <1>7
  <1>8. CASE Next
    BY <1>2, <1>3, <1>4, <1>5, <1>6, <1>8 DEF Next, Walk
  <1>9. QED
    BY <1>7, <1>8
-----------------------------------------------------------------------------
\* The inductive invariant holds in every reachable state.
THEOREM Invariance == Spec => []IInv
  BY InitIInv, NextIInv, PTL DEF Spec

\* Type correctness: in particular the iterator of receiver()'s loop is beyond
\* the end of the list by no more than was removed meanwhile.
THEOREM TypeCorrect == Spec => []TypeOK
  <1>1. IInv => TypeOK
    BY DEF IInv
  <1>2. QED
    BY <1>1, Invariance, PTL

\* receiver() calls no subscription twice for one notification, however many
\* threads and callbacks subscribe and unsubscribe during its loop.
THEOREM ServedOnce == Spec => []NoneServedTwice
  <1>1. IInv => NoneServedTwice
    <2> SUFFICES ASSUME IInv, NEW i \in Notifying, Walking(i),
                        NEW p \in DOMAIN subscribers, p > index[i],
                        subscribers[p].number \in served[i]
                 PROVE  FALSE
      BY DEF NoneServedTwice
    <2>1. subscribers[p].number < subscribers[p].number
      BY DEF IInv, ServedBehind
    <2>2. subscribers[p].number \in Nat
      BY DEF IInv, TypeOK
    <2>3. QED
      BY <2>1, <2>2
  <1>2. QED
    BY <1>1, Invariance, PTL

\* Each unsubscribe() during receiver()'s loop hides at most one subscription
\* from the notification, whoever calls it, and nothing else hides any.
THEOREM SkipsBounded == Spec => []SkippedAtMostRemoved
  <1>1. Init => SkippedAtMostRemoved
    BY DEF Init, SkippedAtMostRemoved, Walking
  <1>2. IInv /\ IInv' /\ SkippedAtMostRemoved /\ [Next]_vars => SkippedAtMostRemoved'
    BY UnsubscribeSkipsOne, StepSkipsNone
  <1>3. QED
    BY <1>1, <1>2, Invariance, PTL DEF Spec
=============================================================================
