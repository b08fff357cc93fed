-------------------------- MODULE CsSessionProofs --------------------------
(***************************************************************************)
(* For every size of the transaction number, every protocol and every      *)
(* bound, with and without timeouts, with connections that break and       *)
(* sessions that are disposed of: IInv is an invariant of CsSession, hence *)
(* so are its safety properties, and CsSession implements RpcClient.       *)
(***************************************************************************)
EXTENDS CsSession, CommonLemmas

\* Wrapping at every step is as good as wrapping once.
LEMMA WrapEachTime ==
    ASSUME NEW n \in Nat, NEW k \in Nat \ {0}
    PROVE  ((n % k) + 1) % k = (n + 1) % k
  <1> DEFINE c == n % k
  <1>1. c \in 0 .. k - 1
    BY DivMod
  <1>2. (n + 1) % k = IF c + 1 >= k THEN 0 ELSE c + 1
    BY NextRemainder
  <1> HIDE DEF c
  <1>3. c \in Nat
    BY <1>1
  <1>4. (c + 1) % k = IF (c % k) + 1 >= k THEN 0 ELSE (c % k) + 1
    BY <1>3, NextRemainder
  <1>5. c % k = c
    <2>1. /\ (c % k) \in 0 .. (k - 1)
          /\ c \div k \in Int
          /\ c = k * (c \div k) + (c % k)
      BY <1>3, DivMod
    <2>2. k * 0 + c = k * (c \div k) + (c % k)
      BY <2>1, <1>3
    <2>3. QED
      BY <2>1, <2>2, <1>1, RemainderUnique
  <1>6. (c + 1) % k = (n + 1) % k
    BY <1>2, <1>4, <1>5
  <1>7. QED
    BY <1>6 DEF c

\* The counter after AquireNextTxnId.
LEMMA NextCounter ==
    ASSUME calls \in Nat, txnCounter = (calls + 1) % TxnMod
    PROVE  /\ txnCounter \in Slots
           /\ NextTxnCounter \in Slots
           /\ NextTxnCounter = (calls + 1 + 1) % TxnMod
  <1>1. TxnMod \in Nat \ {0} /\ calls + 1 \in Nat /\ calls + 1 + 1 \in Nat
    BY TxnModAssumption
  <1>2. txnCounter \in Slots /\ (calls + 1 + 1) % TxnMod \in Slots
    BY <1>1, DivMod DEF Slots
  <1>3. txnCounter + 1 # 0
    BY <1>2 DEF Slots
  <1>4. (txnCounter + 1) % TxnMod = (calls + 1 + 1) % TxnMod
    BY <1>1, WrapEachTime
  <1>5. QED
    BY <1>2, <1>3, <1>4 DEF NextTxnCounter

\* Calls that share a number are one call or far apart.
LEMMA SameTxn ==
    ASSUME NEW n \in Nat, NEW r \in Nat, n % TxnMod = r % TxnMod
    PROVE  r = n \/ r + TxnMod <= n \/ n + TxnMod <= r
  <1>1. CASE r < n
    BY <1>1, TxnModAssumption, SameRemainder
  <1>2. CASE n < r
    BY <1>2, TxnModAssumption, SameRemainder
  <1>3. QED
    BY <1>1, <1>2

\* The messages that are not requests or responses.
LEMMA OtherMessages ==
    /\ Pending \in Messages /\ ~ Pending.resp
    /\ Cancelled \in Messages /\ ~ Cancelled.resp
    /\ Cancelled # Pending
    /\ \A e \in Events : notif_store(e) \in Messages /\ ~ notif_store(e).resp
  <1>1. 0 \in Slots /\ 0 \in 0 .. MaxCalls
    BY TxnModAssumption, ConstantsAssumption DEF Slots
  <1>2. QED
    BY <1>1 DEF Pending, Cancelled, Blank, notif_store, Messages, Ids

\* What the C side sends for a request.
LEMMA Reply ==
    ASSUME NEW m \in Messages, ~ m.resp
    PROVE  /\ Executes(m) <=> m.id \in Functions
           /\ \/ compost_msg_process(m) = <<>>
              \/ \E r \in Messages :
                     /\ compost_msg_process(m) = <<r>>
                     /\ r.txn = m.txn
                     /\ r.req = m.req
                     /\ r.id = UNKNOWN_MSG \/ (m.id \in Functions /\ r.id = m.id)
  <1> DEFINE r == compost_invoke_switch(tx_init(m), m)
  <1>1. ~ IsStrayResponse(m)
    BY DEF IsStrayResponse
  <1>2. /\ r \in Messages
        /\ r.txn = m.txn
        /\ r.req = m.req
        /\ r.id = UNKNOWN_MSG \/ (m.id \in Functions /\ r.id = m.id)
    <2>1. CASE m.id \in Functions
      <3>1. r = [wlen |-> IF m.id \in Valued THEN 1 ELSE 0, txn |-> m.txn,
                 resp |-> TRUE, id |-> m.id, req |-> m.req]
        BY <2>1 DEF compost_invoke_switch, invoke, tx_init
      <3>2. QED
        BY <2>1, <3>1 DEF Messages, Ids
    <2>2. CASE m.id \notin Functions
      <3>1. r = [wlen |-> 0, txn |-> m.txn,
                 resp |-> TRUE, id |-> UNKNOWN_MSG, req |-> m.req]
        BY <2>2 DEF compost_invoke_switch, compost_unknown_msg, tx_init
      <3>2. QED
        BY <2>2, <3>1 DEF Messages, Ids
    <2>3. QED
      BY <2>1, <2>2
  <1>3. compost_msg_process(m) \in {<<>>, <<r>>}
    BY <1>1 DEF compost_msg_process
  <1> HIDE DEF r
  <1>4. QED
    BY <1>1, <1>2, <1>3 DEF Executes

\* How a call that was given a response ends.
LEMMA JudgeReturned ==
    ASSUME NEW n, NEW m \in Messages
    PROVE  /\ Judge(n, m) \in {"returned"} \cup Failures
           /\ Judge(n, m) = "returned" =>
                  m # Cancelled /\ m.id = function[n] /\ ~ (m.resp /\ m.id = UNKNOWN_MSG)
  BY DEF Judge, Failures, ErrorResponseRpcId, UNKNOWN_MSG
-----------------------------------------------------------------------------
\* The initial state.
LEMMA InitIInv == Init => IInv
  <1> SUFFICES ASSUME Init
               PROVE  IInv
    OBVIOUS
  <1>1. (0 + 1) % TxnMod = 1 /\ {0, 1} \subseteq Slots
    <2>1. 0 % TxnMod = 0
      BY TxnModAssumption, DivMod
    <2>2. QED
      BY <2>1, TxnModAssumption, NextRemainder DEF Slots
  <1>2. TypeOK
    <2>1. /\ calls \in 0 .. MaxCalls /\ notified \in Nat /\ timed \in BOOLEAN
          /\ answer \in [Calls -> 0 .. MaxCalls]
      BY ConstantsAssumption DEF Init
    <2>2. fetched \in [txn : Calls \cup {null}, msg : Messages] /\ response \in [Calls -> Messages]
      BY OtherMessages DEF Init
    <2>3. /\ txnCounter \in Slots /\ txnId \in [Calls -> Slots]
          /\ txnDict \in [Slots -> Calls \cup {null}]
          /\ toPeer \in Seq(Messages) /\ toHost \in Seq(Messages)
          /\ executed \subseteq Calls
      BY <1>1 DEF Init
    <2>4. QED
      BY <2>1, <2>2, <2>3 DEF Init, TypeOK, Failures
  <1>3. TxnInv
    BY <1>1, ConstantsAssumption DEF Init, TxnInv, Calls
  <1>4. RequestInv /\ ResponseInv
    BY DEF Init, RequestInv, ResponseInv
  <1>5. TableInv /\ StoredInv
    BY DEF Init, TableInv, StoredInv
  <1>6. AnswerInv /\ AnswerIsOfTheSameFunction
    BY DEF Init, AnswerInv, AnswerIsOfTheSameFunction
  <1>7. QED
    BY <1>2, <1>3, <1>4, <1>5, <1>6 DEF IInv

\* What the messages and the answers are judged by.
books == <<calls, txnId, function, executed>>

\* A step of call n within InvokeRawRpcAsync, or out of it.
LEMMA CallStep ==
    ASSUME IInv, NEW n \in Calls, pc[n] \notin {"new", "done"}, UNCHANGED <<txnCounter, calls, txnId>>,
           NEW p, NEW o,
           pc' = [pc EXCEPT ![n] = p],
           outcome' = [outcome EXCEPT ![n] = o],
           \/ p \in {"added", "wait", "expired"} /\ o = "pending"
           \/ p = "done" /\ o \in {"returned"} \cup Failures
    PROVE  /\ TxnInv'
           /\ pc' \in [Calls -> {"new", "acquired", "added", "wait", "expired", "done"}]
           /\ outcome' \in [Calls -> {"new", "pending", "returned"} \cup Failures]
           /\ outcome[n] = "pending" /\ n \in 1 .. calls
  <1>1. /\ pc \in [Calls -> {"new", "acquired", "added", "wait", "expired", "done"}]
        /\ outcome \in [Calls -> {"new", "pending", "returned"} \cup Failures]
        /\ calls \in Nat
    BY ConstantsAssumption DEF IInv, TypeOK
  <1>2. outcome[n] = "pending" /\ ~ (n > calls) /\ n \in 1 .. calls
    BY <1>1 DEF IInv, TxnInv, Calls
  <1>3. o # "new" /\ p # "new" /\ (o = "pending" <=> p \notin {"new", "done"})
    BY DEF Failures
  <1>4. ASSUME NEW k \in Calls
        PROVE  /\ k <= calls' => txnId'[k] = k % TxnMod
               /\ pc'[k] = "new" <=> k > calls'
               /\ outcome'[k] = "new" <=> k > calls'
               /\ outcome'[k] = "pending" <=> pc'[k] \notin {"new", "done"}
    BY <1>1, <1>2, <1>3 DEF IInv, TxnInv
  <1>5. TxnInv'
    BY <1>4 DEF IInv, TxnInv
  <1>6. QED
    BY <1>1, <1>2, <1>5

\* The call and its outcome, when nothing it is judged by changes.
LEMMA CallsUnchanged ==
    ASSUME IInv, UNCHANGED <<txnCounter, callVars, books>>
    PROVE  TxnInv' /\ AnswerInv' /\ AnswerIsOfTheSameFunction'
  BY DEF IInv, callVars, books, TxnInv, AnswerInv, AnswerIsOfTheSameFunction

\* A call that fails adds no answer.
LEMMA AnswersUnchanged ==
    ASSUME IInv, UNCHANGED <<books, answer>>,
           \A n \in Calls : outcome'[n] = "returned" => outcome[n] = "returned"
    PROVE  AnswerInv' /\ AnswerIsOfTheSameFunction'
  BY DEF IInv, books, AnswerInv, AnswerIsOfTheSameFunction

\* Messages in flight that were there before.
LEMMA MessagesUnchanged ==
    ASSUME IInv, UNCHANGED books
    PROVE  /\ UNCHANGED toPeer => RequestInv'
           /\ UNCHANGED toHost => ResponseInv'
           /\ UNCHANGED <<txnDict, reader, response>> => TableInv'
           /\ \A m : Genuine(m) => Genuine(m)'
           /\ \A n, m : ResponseFor(n, m) => ResponseFor(n, m)'
  <1>1. \A m : Genuine(m) => Genuine(m)'
    BY DEF books, Genuine
  <1>2. \A n, m : ResponseFor(n, m) => ResponseFor(n, m)'
    BY DEF books, Genuine, ResponseFor
  <1>3. UNCHANGED toPeer => RequestInv'
    BY DEF IInv, books, RequestInv
  <1>4. UNCHANGED toHost => ResponseInv'
    BY <1>1 DEF IInv, ResponseInv
  <1>5. UNCHANGED <<txnDict, reader, response>> => TableInv'
    BY DEF IInv, books, TableInv, reader, ResponseFor, Genuine
  <1>6. QED
    BY <1>1, <1>2, <1>3, <1>4, <1>5
-----------------------------------------------------------------------------
\* A call gets its number.
LEMMA AquireKeeps ==
    ASSUME IInv, NEW f \in Callable, AquireNextTxnId(f)
    PROVE  IInv'
  <1> DEFINE n == calls + 1
  <1>1. /\ calls < MaxCalls /\ calls' = n
        /\ txnId' = [txnId EXCEPT ![n] = txnCounter] /\ txnCounter' = NextTxnCounter
        /\ function' = [function EXCEPT ![n] = f]
        /\ pc' = [pc EXCEPT ![n] = "acquired"] /\ outcome' = [outcome EXCEPT ![n] = "pending"]
        /\ UNCHANGED <<txnDict, answer, response, readTask, fetched, readCts, disposer, timed,
                       connected, toPeer, toHost, executed, notified>>
    BY DEF AquireNextTxnId, reader, owner, peer
  <1>2. calls \in Nat /\ n \in Calls /\ n \in Nat /\ n > calls
    BY <1>1, ConstantsAssumption DEF IInv, TypeOK, Calls
  <1>3. /\ txnCounter = n % TxnMod
        /\ txnCounter \in Slots
        /\ txnCounter' \in Slots
        /\ txnCounter' = (n + 1) % TxnMod
    BY <1>1, <1>2, NextCounter DEF IInv, TxnInv
  <1>4. ASSUME NEW k \in 1 .. calls
        PROVE  k \in Calls /\ k \in 1 .. calls' /\ txnId'[k] = txnId[k] /\ function'[k] = function[k]
    <2>1. k \in Calls /\ k \in 1 .. calls' /\ k # n
      BY <1>1, <1>2, ConstantsAssumption DEF Calls
    <2> HIDE DEF n
    <2>2. QED
      BY <2>1, <1>1 DEF IInv, TypeOK
  <1> HIDE DEF n
  <1>5. TypeOK'
    <2>1. /\ txnId' \in [Calls -> Slots]
          /\ function' \in [Calls -> Callable \cup {"none"}]
          /\ pc' \in [Calls -> {"new", "acquired", "added", "wait", "expired", "done"}]
          /\ outcome' \in [Calls -> {"new", "pending", "returned"} \cup Failures]
      BY <1>1, <1>2, <1>3 DEF IInv, TypeOK
    <2>2. calls' \in 0 .. MaxCalls
      BY <1>1, <1>2 DEF IInv, TypeOK, Calls
    <2>3. QED
      BY <1>1, <1>3, <2>1, <2>2 DEF IInv, TypeOK
  <1>6. TxnInv'
    <2>1. ASSUME NEW k \in Calls
          PROVE  /\ k <= calls' => txnId'[k] = k % TxnMod
                 /\ pc'[k] = "new" <=> k > calls'
                 /\ outcome'[k] = "new" <=> k > calls'
                 /\ outcome'[k] = "pending" <=> pc'[k] \notin {"new", "done"}
      <3>1. CASE k = n
        BY <3>1, <1>1, <1>2, <1>3 DEF IInv, TypeOK
      <3>2. CASE k # n
        <4>1. txnId'[k] = txnId[k] /\ pc'[k] = pc[k] /\ outcome'[k] = outcome[k]
          BY <3>2, <1>1 DEF IInv, TypeOK
        <4>2. (k <= calls' <=> k <= calls) /\ (k > calls' <=> k > calls)
          BY <3>2, <1>1, <1>2 DEF n, Calls
        <4>3. QED
          BY <4>1, <4>2 DEF IInv, TxnInv
      <3>3. QED
        BY <3>1, <3>2
    <2>2. QED
      BY <2>1, <1>1, <1>3 DEF TxnInv
  <1>7. \A m : Genuine(m) => Genuine(m)'
    BY <1>1, <1>4 DEF Genuine
  <1>8. \A k, m : ResponseFor(k, m) => ResponseFor(k, m)'
    BY <1>4, <1>7 DEF ResponseFor
  <1>9. RequestInv'
    BY <1>1, <1>4 DEF IInv, RequestInv
  <1>10. ResponseInv'
    BY <1>1, <1>7 DEF IInv, ResponseInv
  <1>11. TableInv'
    <2>1. \A i \in Slots :
              txnDict'[i] # null => txnDict'[i] \in 1 .. calls' /\ txnId'[txnDict'[i]] = i
      BY <1>1, <1>4 DEF IInv, TableInv
    <2>2. IF readTask' = "respond" THEN ResponseFor(fetched.txn, fetched.msg)'
                                   ELSE fetched'.txn = null
      BY <1>1, <1>4, <1>7 DEF IInv, TableInv, ResponseFor
    <2>3. \A k \in Calls : response'[k] \in {Pending, Cancelled} \/ ResponseFor(k, response[k])'
      BY <1>1, <1>4, <1>7 DEF IInv, TableInv, ResponseFor
    <2>4. QED
      BY <2>1, <2>2, <2>3 DEF TableInv, Pending, Cancelled
  <1>12. StoredInv'
    <2> SUFFICES ASSUME ~ timed', NEW k \in Calls
                 PROVE  /\ pc'[k] # "expired"
                        /\ pc'[k] \in {"added", "wait"} /\ response'[k] = Pending /\ fetched'.txn # k
                               => txnDict'[txnId'[k]] = k
      BY DEF StoredInv, Pending
    <2>1. CASE k = n
      BY <2>1, <1>1, <1>2 DEF IInv, TypeOK
    <2>2. CASE k # n
      BY <2>2, <1>1 DEF IInv, TypeOK, StoredInv
    <2>3. QED
      BY <2>1, <2>2
  <1>13. AnswerInv'
    <2>1. executed' \subseteq 1 .. calls'
      BY <1>1, <1>4 DEF IInv, AnswerInv
    <2>2. \A k \in Calls : outcome'[k] = "returned" => outcome[k] = "returned"
      BY <1>1, <1>2 DEF IInv, TypeOK
    <2>3. QED
      BY <2>1, <2>2, <1>1 DEF IInv, AnswerInv
  <1>14. AnswerIsOfTheSameFunction'
    <2> SUFFICES ASSUME NEW k \in Calls, outcome'[k] = "returned"
                 PROVE  function'[answer'[k]] = function'[k]
      BY DEF AnswerIsOfTheSameFunction
    <2>1. k # n /\ outcome[k] = "returned"
      BY <1>1, <1>2 DEF IInv, TypeOK
    <2>2. k \in 1 .. calls
      BY <2>1, <1>2 DEF IInv, TxnInv, Calls
    <2>3. answer[k] \in 1 .. calls /\ function[answer[k]] = function[k]
      BY <2>1 DEF IInv, AnswerInv, AnswerIsOfTheSameFunction
    <2>4. QED
      BY <2>2, <2>3, <1>1, <1>4
  <1>15. QED
    BY <1>5, <1>6, <1>9, <1>10, <1>11, <1>12, <1>13, <1>14 DEF IInv

\* The steps of a call after it has its number.
LEMMA ContinueKeeps ==
    ASSUME IInv, NEW n \in Calls, Continue(n)
    PROVE  IInv'
  <1>t. /\ pc \in [Calls -> {"new", "acquired", "added", "wait", "expired", "done"}]
        /\ outcome \in [Calls -> {"new", "pending", "returned"} \cup Failures]
        /\ txnDict \in [Slots -> Calls \cup {null}]
        /\ txnId[n] \in Slots
        /\ response[n] \in Messages
    BY DEF IInv, TypeOK
  <1>p. pc[n] \notin {"new", "done"} => outcome[n] = "pending" /\ n \in 1 .. calls
    <2>1. calls \in Nat /\ n \in Nat /\ n >= 1
      BY ConstantsAssumption DEF IInv, TypeOK, Calls
    <2>2. QED
      BY <2>1 DEF IInv, TxnInv
  <1>1. CASE AddTransaction(n) /\ ~ SlotIsFree(n)
    <2>1. /\ pc[n] = "acquired" /\ End(n, "wrap")
          /\ UNCHANGED <<txnCounter, books, txnDict, answer, response, readTask, fetched, readCts,
                         disposer, timed, connected, toPeer, toHost, notified>>
      BY <1>1 DEF AddTransaction, reader, owner, peer, books
    <2>2. /\ TxnInv'
          /\ pc' \in [Calls -> {"new", "acquired", "added", "wait", "expired", "done"}]
          /\ outcome' \in [Calls -> {"new", "pending", "returned"} \cup Failures]
      BY <2>1, CallStep DEF End, Failures, books
    <2>3. TypeOK'
      BY <2>1, <2>2 DEF IInv, TypeOK, books
    <2>4. RequestInv' /\ ResponseInv' /\ TableInv'
      BY <2>1, MessagesUnchanged DEF reader
    <2>5. \A k \in Calls : /\ outcome'[k] = "returned" => outcome[k] = "returned"
                           /\ pc'[k] \in {"done", pc[k]}
      BY <2>1, <1>t DEF End
    <2>6. AnswerInv' /\ AnswerIsOfTheSameFunction'
      BY <2>1, <2>5, AnswersUnchanged
    <2>7. StoredInv'
      BY <2>1, <2>5 DEF IInv, StoredInv, Pending, books
    <2>8. QED
      BY <2>2, <2>3, <2>4, <2>6, <2>7 DEF IInv
  <1>2. CASE AddTransaction(n) /\ SlotIsFree(n)
    <2>1. /\ pc[n] = "acquired" /\ txnDict[txnId[n]] = null
          /\ txnDict' = [txnDict EXCEPT ![txnId[n]] = n]
          /\ pc' = [pc EXCEPT ![n] = "added"]
          /\ UNCHANGED <<txnCounter, books, outcome, answer, response, readTask, fetched, readCts,
                         disposer, timed, connected, toPeer, toHost, notified>>
      BY <1>2 DEF AddTransaction, SlotIsFree, reader, owner, peer, books
    <2>2. outcome' = [outcome EXCEPT ![n] = "pending"] /\ n \in 1 .. calls
      BY <2>1, <1>p, <1>t
    <2>3. /\ TxnInv'
          /\ pc' \in [Calls -> {"new", "acquired", "added", "wait", "expired", "done"}]
      BY <2>1, <2>2, CallStep DEF books
    <2>4. TypeOK'
      BY <2>1, <2>3, <1>t DEF IInv, TypeOK, books
    <2>5. RequestInv' /\ ResponseInv'
      BY <2>1, MessagesUnchanged
    <2>6. AnswerInv' /\ AnswerIsOfTheSameFunction'
      BY <2>1, AnswersUnchanged
    <2>7. TableInv'
      <3>1. \A i \in Slots :
                txnDict'[i] # null => txnDict'[i] \in 1 .. calls' /\ txnId'[txnDict'[i]] = i
        BY <2>1, <2>2, <1>t DEF IInv, TableInv, books
      <3>2. QED
        BY <3>1, <2>1 DEF IInv, TableInv, ResponseFor, Genuine, books, Pending, Cancelled
    <2>8. StoredInv'
      <3> SUFFICES ASSUME ~ timed', NEW k \in Calls
                   PROVE  /\ pc'[k] # "expired"
                          /\ pc'[k] \in {"added", "wait"} /\ response'[k] = Pending /\ fetched'.txn # k
                                 => txnDict'[txnId'[k]] = k
        BY DEF StoredInv, Pending
      <3>1. CASE k = n
        BY <3>1, <2>1, <1>t DEF books
      <3>2. CASE k # n
        <4>1. pc'[k] = pc[k] /\ txnId[k] \in Slots
          BY <3>2, <2>1, <1>t DEF IInv, TypeOK
        <4>2. CASE txnId[k] = txnId[n]
          <5>1. k # null
            BY DEF Calls, null
          <5>2. QED
            BY <4>1, <4>2, <5>1, <2>1 DEF IInv, StoredInv, books
        <4>3. CASE txnId[k] # txnId[n]
          <5>1. txnDict'[txnId[k]] = txnDict[txnId[k]]
            BY <4>1, <4>3, <2>1, <1>t
          <5>2. QED
            BY <4>1, <5>1, <2>1 DEF IInv, StoredInv, books
        <4>4. QED
          BY <4>2, <4>3
      <3>3. QED
        BY <3>1, <3>2
    <2>9. QED
      BY <2>3, <2>4, <2>5, <2>6, <2>7, <2>8 DEF IInv
  <1>3. CASE WriteMessage(n)
    <2> DEFINE m == [wlen |-> 1, txn |-> txnId[n], resp |-> FALSE, id |-> function[n], req |-> n]
    <2>1. /\ pc[n] = "added"
          /\ UNCHANGED <<txnCounter, txnDict, books, answer, response, readTask, fetched, readCts,
                         disposer, timed, connected, toHost, notified>>
          /\ \/ /\ pc' = [pc EXCEPT ![n] = "wait"] /\ outcome' = outcome
                /\ toPeer' \in {toPeer, Append(toPeer, m)}
             \/ End(n, "write") /\ toPeer' = toPeer
      BY <1>3 DEF WriteMessage, reader, owner, books, table
    <2>2. outcome[n] = "pending" /\ n \in 1 .. calls
      BY <2>1, <1>p
    <2>3. /\ TxnInv'
          /\ pc' \in [Calls -> {"new", "acquired", "added", "wait", "expired", "done"}]
          /\ outcome' \in [Calls -> {"new", "pending", "returned"} \cup Failures]
          /\ \A k \in Calls : /\ outcome'[k] = "returned" => outcome[k] = "returned"
                              /\ pc'[k] \in {"wait", "done", pc[k]}
                              /\ pc'[k] = "wait" => pc[k] \in {"added", "wait"}
      <3>1. CASE pc' = [pc EXCEPT ![n] = "wait"] /\ outcome' = outcome
        <4>1. outcome' = [outcome EXCEPT ![n] = "pending"]
          BY <3>1, <2>2, <1>t
        <4>2. TxnInv'
          BY <3>1, <4>1, <2>1, CallStep DEF books
        <4>3. QED
          BY <3>1, <4>2, <2>1, <1>t
      <3>2. CASE End(n, "write")
        <4>1. TxnInv'
          BY <3>2, <2>1, CallStep DEF books, End, Failures
        <4>2. QED
          BY <3>2, <4>1, <2>1, <1>t DEF End, Failures
      <3>3. QED
        BY <3>1, <3>2, <2>1
    <2>4. m \in Messages /\ ~ m.resp /\ m.req = n /\ m.txn = txnId[n] /\ m.id = function[n]
      <3>1. function[n] \in Ids /\ n \in 0 .. MaxCalls
        BY DEF IInv, TypeOK, Ids, Calls
      <3>2. QED
        BY <3>1, <1>t DEF Messages
    <2> HIDE DEF m
    <2>5. /\ toPeer' \in Seq(Messages)
          /\ \A j \in DOMAIN toPeer' : toPeer'[j] = m \/ \E k \in DOMAIN toPeer : toPeer'[j] = toPeer[k]
      <3>1. toPeer \in Seq(Messages)
        BY DEF IInv, TypeOK
      <3>2. CASE toPeer' = toPeer
        BY <3>1, <3>2
      <3>3. CASE toPeer' = Append(toPeer, m)
        BY <3>1, <3>3, <2>4, AppendElements
      <3>4. QED
        BY <3>2, <3>3, <2>1
    <2>6. TypeOK'
      BY <2>1, <2>3, <2>5 DEF IInv, TypeOK, books
    <2>7. RequestInv'
      BY <2>1, <2>2, <2>4, <2>5 DEF IInv, RequestInv, books
    <2>8. ResponseInv' /\ TableInv'
      BY <2>1, MessagesUnchanged DEF reader
    <2>9. AnswerInv' /\ AnswerIsOfTheSameFunction'
      BY <2>1, <2>3, AnswersUnchanged
    <2>10. StoredInv'
      BY <2>1, <2>3 DEF IInv, StoredInv, Pending, books
    <2>11. QED
      BY <2>3, <2>6, <2>7, <2>8, <2>9, <2>10 DEF IInv
  <1>4. CASE ResponseAwaited(n)
    <2> DEFINE m == response[n]
               how == Judge(n, m)
    <2>1. /\ pc[n] = "wait" /\ m # Pending /\ End(n, how)
          /\ answer' = IF how = "returned" THEN [answer EXCEPT ![n] = m.req] ELSE answer
          /\ UNCHANGED <<txnCounter, txnDict, books, response, readTask, fetched, readCts,
                         disposer, timed, connected, toPeer, toHost, notified>>
      BY <1>4 DEF ResponseAwaited, reader, owner, books, table, peer
    <2>2. /\ how \in {"returned"} \cup Failures
          /\ how = "returned" => m # Cancelled /\ m.id = function[n] /\ ~ (m.resp /\ m.id = UNKNOWN_MSG)
      BY <1>t, JudgeReturned
    <2>3. how = "returned" => m.req \in executed /\ function[m.req] = function[n]
      BY <2>1, <2>2 DEF IInv, TableInv, ResponseFor, Genuine
    <2>4. m.req \in 0 .. MaxCalls /\ answer \in [Calls -> 0 .. MaxCalls]
      BY <1>t DEF Messages, IInv, TypeOK
    <2> HIDE DEF m, how
    <2>5. /\ TxnInv'
          /\ pc' \in [Calls -> {"new", "acquired", "added", "wait", "expired", "done"}]
          /\ outcome' \in [Calls -> {"new", "pending", "returned"} \cup Failures]
      BY <2>1, <2>2, CallStep DEF End, books
    <2>6. TypeOK'
      <3>1. answer' \in [Calls -> 0 .. MaxCalls]
        BY <2>1, <2>4
      <3>2. QED
        BY <3>1, <2>1, <2>5 DEF IInv, TypeOK, books
    <2>7. RequestInv' /\ ResponseInv' /\ TableInv'
      BY <2>1, MessagesUnchanged DEF reader
    <2>8. \A k \in Calls : pc'[k] \in {"done", pc[k]}
      BY <2>1, <1>t DEF End
    <2>9. StoredInv'
      BY <2>1, <2>8 DEF IInv, StoredInv, Pending, books
    <2>10. ASSUME NEW k \in Calls, outcome'[k] = "returned"
           PROVE  answer'[k] \in executed' /\ function'[answer'[k]] = function'[k]
      <3>1. CASE k = n
        <4>1. how = "returned" /\ answer'[k] = m.req
          BY <3>1, <2>10, <2>1, <2>4, <1>t DEF End
        <4>2. QED
          BY <3>1, <4>1, <2>1, <2>3 DEF books
      <3>2. CASE k # n
        <4>1. outcome[k] = "returned" /\ answer'[k] = answer[k]
          BY <3>2, <2>10, <2>1, <2>4, <1>t DEF End
        <4>2. QED
          BY <4>1, <2>1 DEF IInv, AnswerInv, AnswerIsOfTheSameFunction, books
      <3>3. QED
        BY <3>1, <3>2
    <2>11. AnswerInv' /\ AnswerIsOfTheSameFunction'
      BY <2>1, <2>10 DEF IInv, AnswerInv, AnswerIsOfTheSameFunction, books
    <2>12. QED
      BY <2>5, <2>6, <2>7, <2>9, <2>11 DEF IInv
  <1>5. CASE DelayElapsed(n)
    <2>1. /\ timed /\ pc[n] = "wait" /\ pc' = [pc EXCEPT ![n] = "expired"]
          /\ UNCHANGED <<txnCounter, txnDict, books, outcome, answer, response, readTask, fetched,
                         readCts, disposer, timed, connected, toPeer, toHost, notified>>
      BY <1>5 DEF DelayElapsed, reader, owner, books, table, peer
    <2>2. outcome' = [outcome EXCEPT ![n] = "pending"]
      BY <2>1, <1>p, <1>t
    <2>3. /\ TxnInv'
          /\ pc' \in [Calls -> {"new", "acquired", "added", "wait", "expired", "done"}]
      BY <2>1, <2>2, CallStep DEF books
    <2>4. TypeOK'
      BY <2>1, <2>3 DEF IInv, TypeOK, books
    <2>5. RequestInv' /\ ResponseInv' /\ TableInv'
      BY <2>1, MessagesUnchanged DEF reader
    <2>6. AnswerInv' /\ AnswerIsOfTheSameFunction'
      BY <2>1, AnswersUnchanged
    <2>7. StoredInv'
      BY <2>1 DEF StoredInv
    <2>8. QED
      BY <2>3, <2>4, <2>5, <2>6, <2>7 DEF IInv
  <1>6. CASE FetchAndRemoveExpired(n)
    <2>1. /\ pc[n] = "expired" /\ End(n, "timeout")
          /\ txnDict' = [txnDict EXCEPT ![txnId[n]] = null]
          /\ UNCHANGED <<txnCounter, books, answer, response, readTask, fetched,
                         readCts, disposer, timed, connected, toPeer, toHost, notified>>
      BY <1>6 DEF FetchAndRemoveExpired, reader, owner, books, table, peer
    <2>2. /\ TxnInv'
          /\ pc' \in [Calls -> {"new", "acquired", "added", "wait", "expired", "done"}]
          /\ outcome' \in [Calls -> {"new", "pending", "returned"} \cup Failures]
      BY <2>1, CallStep DEF End, Failures, books
    <2>3. TypeOK'
      BY <2>1, <2>2, <1>t DEF IInv, TypeOK, books
    <2>4. RequestInv' /\ ResponseInv'
      BY <2>1, MessagesUnchanged
    <2>5. \A k \in Calls : outcome'[k] = "returned" => outcome[k] = "returned"
      BY <2>1, <1>t DEF End
    <2>6. AnswerInv' /\ AnswerIsOfTheSameFunction'
      BY <2>1, <2>5, AnswersUnchanged
    <2>7. TableInv'
      <3>1. \A i \in Slots : txnDict'[i] \in {null, txnDict[i]}
        BY <2>1, <1>t
      <3>2. QED
        BY <3>1, <2>1 DEF IInv, TableInv, ResponseFor, Genuine, books, Pending, Cancelled
    <2>8. StoredInv'
      <3>1. timed
        BY <2>1 DEF IInv, StoredInv
      <3>2. QED
        BY <3>1, <2>1 DEF StoredInv
    <2>9. QED
      BY <2>2, <2>3, <2>4, <2>6, <2>7, <2>8 DEF IInv
  <1>7. QED
    BY <1>1, <1>2, <1>3, <1>4, <1>5, <1>6 DEF Continue

\* The steps of the read task.
LEMMA ReadKeeps ==
    ASSUME IInv, Read
    PROVE  IInv'
  <1>t. /\ txnDict \in [Slots -> Calls \cup {null}]
        /\ toHost \in Seq(Messages)
        /\ response \in [Calls -> Messages]
    BY DEF IInv, TypeOK
  <1>1. CASE ReadMessagesAsync
    <2> DEFINE m == Head(toHost)
               t == txnDict[m.txn]
    <2>1. /\ readTask = "read" /\ toHost # <<>> /\ toHost' = Tail(toHost)
          /\ UNCHANGED <<txnCounter, books, callVars, response, readCts, disposer, timed,
                         connected, toPeer, notified>>
          /\ \/ /\ m.resp /\ txnDict' = [txnDict EXCEPT ![m.txn] = null]
                /\ IF t = null
                   THEN UNCHANGED <<readTask, fetched>>
                   ELSE fetched' = [txn |-> t, msg |-> m] /\ readTask' = "respond"
             \/ UNCHANGED <<txnDict, readTask, fetched>>
      BY <1>1 DEF ReadMessagesAsync, reader, owner, books, callVars
    <2>2. /\ toHost' \in Seq(Messages)
          /\ \A j \in DOMAIN toHost' : \E k \in DOMAIN toHost : toHost'[j] = toHost[k]
          /\ \E k \in DOMAIN toHost : m = toHost[k]
      BY <2>1, <1>t, TailElements
    <2>3. m \in Messages /\ m.txn \in Slots /\ (m.resp => Genuine(m))
      <3> HIDE DEF m
      <3>1. m \in Messages /\ (m.resp => Genuine(m))
        BY <2>2, <1>t DEF IInv, ResponseInv
      <3>2. QED
        BY <3>1 DEF Messages
    <2>4. t \in Calls \cup {null}
      BY <2>3, <1>t
    <2>5. t # null => t \in 1 .. calls /\ txnId[t] = m.txn
      BY <2>3 DEF IInv, TableInv
    <2>6. fetched.txn = null
      BY <2>1 DEF IInv, TableInv
    <2>7. \A k \in Calls : k # null
      BY DEF Calls, null
    <2> HIDE DEF m
    <2>8. /\ \A i \in Slots : txnDict'[i] \in {null, txnDict[i]}
          /\ \A i \in Slots : txnDict'[i] # txnDict[i] => fetched'.txn = txnDict[i]
      <3>1. CASE /\ m.resp /\ txnDict' = [txnDict EXCEPT ![m.txn] = null]
                 /\ t # null => fetched' = [txn |-> t, msg |-> m]
        BY <3>1, <2>3, <1>t
      <3>2. CASE txnDict' = txnDict
        BY <3>2
      <3>3. QED
        BY <3>1, <3>2, <2>1
    <2>9. TypeOK'
      <3>1. txnDict' \in [Slots -> Calls \cup {null}]
        BY <2>1, <2>3, <1>t
      <3>2. /\ fetched' \in [txn : Calls \cup {null}, msg : Messages]
            /\ readTask' \in {"read", "respond", "ended", "faulted"}
        BY <2>1, <2>3, <2>4 DEF IInv, TypeOK
      <3>3. QED
        BY <3>1, <3>2, <2>1, <2>2 DEF IInv, TypeOK, books, callVars
    <2>10. RequestInv'
      BY <2>1, MessagesUnchanged
    <2>11. ResponseInv'
      BY <2>1, <2>2, MessagesUnchanged DEF IInv, ResponseInv
    <2>12. TableInv'
      <3>1. \A i \in Slots :
                txnDict'[i] # null => txnDict'[i] \in 1 .. calls' /\ txnId'[txnDict'[i]] = i
        BY <2>1, <2>8 DEF IInv, TableInv, books
      <3>2. IF readTask' = "respond" THEN ResponseFor(fetched.txn, fetched.msg)'
                                     ELSE fetched'.txn = null
        <4>1. CASE UNCHANGED <<readTask, fetched>>
          BY <4>1, <2>1, <2>6
        <4>2. CASE m.resp /\ t # null /\ fetched' = [txn |-> t, msg |-> m] /\ readTask' = "respond"
          <5>1. fetched'.txn = t /\ fetched'.msg = m
            BY <4>2
          <5> HIDE DEF t
          <5>2. ResponseFor(fetched'.txn, fetched'.msg)
            BY <4>2, <5>1, <2>3, <2>5 DEF ResponseFor
          <5>3. QED
            BY <4>2, <5>2, <2>1 DEF ResponseFor, Genuine, books
        <4>3. QED
          BY <4>1, <4>2, <2>1
      <3>3. \A k \in Calls : response'[k] \in {Pending, Cancelled} \/ ResponseFor(k, response[k])'
        BY <2>1 DEF IInv, TableInv, ResponseFor, Genuine, books
      <3>4. QED
        BY <3>1, <3>2, <3>3 DEF TableInv, Pending, Cancelled
    <2>13. StoredInv'
      <3> SUFFICES ASSUME ~ timed', NEW k \in Calls
                   PROVE  /\ pc'[k] # "expired"
                          /\ pc'[k] \in {"added", "wait"} /\ response'[k] = Pending /\ fetched'.txn # k
                                 => txnDict'[txnId'[k]] = k
        BY DEF StoredInv, Pending
      <3>1. /\ pc[k] # "expired"
            /\ pc[k] \in {"added", "wait"} /\ response[k] = Pending => txnDict[txnId[k]] = k
        BY <2>1, <2>6, <2>7 DEF IInv, StoredInv
      <3>2. txnId[k] \in Slots
        BY DEF IInv, TypeOK
      <3>3. QED
        BY <3>1, <3>2, <2>1, <2>8 DEF books, callVars
    <2>14. TxnInv' /\ AnswerInv' /\ AnswerIsOfTheSameFunction'
      BY <2>1, CallsUnchanged
    <2>15. QED
      BY <2>9, <2>10, <2>11, <2>12, <2>13, <2>14 DEF IInv
  <1>2. CASE SetResponse
    <2> DEFINE n == fetched.txn
    <2>1. /\ readTask = "respond"
          /\ response' = IF response[n] = Pending THEN [response EXCEPT ![n] = fetched.msg]
                                                  ELSE response
          /\ fetched' = [txn |-> null, msg |-> Pending] /\ readTask' = "read"
          /\ UNCHANGED <<txnCounter, txnDict, books, callVars, readCts, disposer, timed,
                         connected, toPeer, toHost, notified>>
      BY <1>2 DEF SetResponse, table, owner, peer, books, callVars
    <2>2. ResponseFor(n, fetched.msg) /\ fetched.msg \in Messages
      BY <2>1 DEF IInv, TableInv, TypeOK
    <2>3. n \in Calls
      BY <2>2, ConstantsAssumption DEF ResponseFor, IInv, TypeOK, Calls
    <2>4. fetched.msg # Pending
      BY <2>2, OtherMessages DEF ResponseFor
    <2> HIDE DEF n
    <2>5. /\ response' \in [Calls -> Messages]
          /\ \A k \in Calls : response'[k] = response[k] \/ (k = n /\ response'[k] = fetched.msg)
          /\ response'[n] # Pending
      BY <2>1, <2>2, <2>3, <2>4, <1>t
    <2>6. fetched'.txn = null
      BY <2>1
    <2>7. TypeOK'
      <3>1. fetched' \in [txn : Calls \cup {null}, msg : Messages]
        BY <2>1, OtherMessages
      <3>2. QED
        BY <3>1, <2>1, <2>5 DEF IInv, TypeOK, books, callVars
    <2>8. RequestInv' /\ ResponseInv'
      BY <2>1, MessagesUnchanged
    <2>9. TableInv'
      <3>1. \A k \in Calls : response'[k] \in {Pending, Cancelled} \/ ResponseFor(k, response'[k])
        BY <2>2, <2>5 DEF IInv, TableInv
      <3>2. \A k \in Calls : response'[k] \in {Pending, Cancelled} \/ ResponseFor(k, response[k])'
        BY <3>1, <2>1 DEF ResponseFor, Genuine, books
      <3>3. QED
        BY <3>2, <2>1, <2>6 DEF IInv, TableInv, books, Pending, Cancelled
    <2>10. StoredInv'
      <3> SUFFICES ASSUME ~ timed', NEW k \in Calls
                   PROVE  /\ pc'[k] # "expired"
                          /\ pc'[k] \in {"added", "wait"} /\ response'[k] = Pending
                                 => txnDict'[txnId'[k]] = k
        BY DEF StoredInv, Pending
      <3>1. CASE k = n
        BY <3>1, <2>1, <2>5 DEF IInv, StoredInv, books, callVars
      <3>2. CASE k # n
        BY <3>2, <2>1, <2>5 DEF IInv, StoredInv, books, callVars, n
      <3>3. QED
        BY <3>1, <3>2
    <2>11. TxnInv' /\ AnswerInv' /\ AnswerIsOfTheSameFunction'
      BY <2>1, CallsUnchanged
    <2>12. QED
      BY <2>7, <2>8, <2>9, <2>10, <2>11 DEF IInv
  <1>3. CASE ReadCancelled \/ ReadFails
    <2>1. /\ readTask = "read" /\ readTask' \in {"ended", "faulted"}
          /\ UNCHANGED <<txnCounter, txnDict, books, callVars, response, fetched, readCts, disposer,
                         timed, connected, toPeer, toHost, notified>>
      BY <1>3 DEF ReadCancelled, ReadFails, table, owner, peer, books, callVars
    <2>2. TypeOK'
      BY <2>1 DEF IInv, TypeOK, books, callVars
    <2>3. RequestInv' /\ ResponseInv'
      BY <2>1, MessagesUnchanged
    <2>4. TableInv'
      BY <2>1 DEF IInv, TableInv, ResponseFor, Genuine, books, Pending, Cancelled
    <2>5. StoredInv'
      BY <2>1 DEF IInv, StoredInv, books, callVars, Pending
    <2>6. TxnInv' /\ AnswerInv' /\ AnswerIsOfTheSameFunction'
      BY <2>1, CallsUnchanged
    <2>7. QED
      BY <2>2, <2>3, <2>4, <2>5, <2>6 DEF IInv
  <1>4. QED
    BY <1>1, <1>2, <1>3 DEF Read

\* DisposeAsync, and a step that changes nothing.
LEMMA DisposeKeeps ==
    ASSUME IInv, Cancel \/ Dispose \/ UNCHANGED vars
    PROVE  IInv'
  <1>1. CASE Cancel \/ DisposeTimesOut \/ UNCHANGED vars
    <2>1. /\ disposer' \in {disposer, "wait", "threw"} /\ readCts' \in {readCts, TRUE}
          /\ UNCHANGED <<txnCounter, txnDict, books, callVars, response, readTask, fetched,
                         timed, connected, toPeer, toHost, notified>>
      BY <1>1 DEF Cancel, DisposeTimesOut, table, reader, owner, peer, books, callVars, vars
    <2>2. TypeOK'
      <3>1. disposer' \in {"no", "wait", "done", "threw"} /\ readCts' \in BOOLEAN
        BY <2>1 DEF IInv, TypeOK
      <3>2. UNCHANGED <<txnCounter, txnDict, pc, txnId, function, response, readTask, fetched,
                        timed, connected, toPeer, toHost, calls, outcome, answer, executed, notified>>
        BY <2>1 DEF books, callVars
      <3>3. QED
        BY <3>1, <3>2 DEF IInv, TypeOK
    <2>3. RequestInv' /\ ResponseInv' /\ TableInv'
      BY <2>1, MessagesUnchanged DEF reader
    <2>4. StoredInv'
      BY <2>1 DEF IInv, StoredInv, books, callVars, Pending
    <2>5. TxnInv' /\ AnswerInv' /\ AnswerIsOfTheSameFunction'
      BY <2>1, CallsUnchanged
    <2>6. QED
      BY <2>2, <2>3, <2>4, <2>5 DEF IInv
  <1>2. CASE DisposeAsync
    <2>1. /\ response' = [n \in Calls |->
                              IF response[n] = Pending /\ \E i \in Slots : txnDict[i] = n
                              THEN Cancelled ELSE response[n]]
          /\ txnDict' = [i \in Slots |-> null]
          /\ disposer' = "done"
          /\ UNCHANGED <<txnCounter, books, callVars, readTask, fetched, readCts,
                         timed, connected, toPeer, toHost, notified>>
      BY <1>2 DEF DisposeAsync, ClearTransactions, reader, peer, books, callVars
    <2>2. /\ response' \in [Calls -> Messages]
          /\ \A n \in Calls : response'[n] \in {Cancelled, response[n]}
          /\ \A n \in Calls : response'[n] = Pending =>
                 response[n] = Pending /\ ~ \E i \in Slots : txnDict[i] = n
      BY <2>1, OtherMessages DEF IInv, TypeOK
    <2>3. TypeOK'
      BY <2>1, <2>2 DEF IInv, TypeOK, books, callVars
    <2>4. RequestInv' /\ ResponseInv'
      BY <2>1, MessagesUnchanged
    <2>5. TableInv'
      <3>1. \A n \in Calls : response'[n] \in {Pending, Cancelled} \/ ResponseFor(n, response'[n])
        BY <2>2 DEF IInv, TableInv
      <3>2. \A n \in Calls : response'[n] \in {Pending, Cancelled} \/ ResponseFor(n, response[n])'
        BY <3>1, <2>1 DEF ResponseFor, Genuine, books
      <3>3. \A i \in Slots : txnDict'[i] = null
        BY <2>1
      <3>4. QED
        BY <3>2, <3>3, <2>1 DEF IInv, TableInv, ResponseFor, Genuine, books, Pending, Cancelled
    <2>6. StoredInv'
      <3> SUFFICES ASSUME ~ timed', NEW n \in Calls
                   PROVE  /\ pc'[n] # "expired"
                          /\ pc'[n] \in {"added", "wait"} /\ response'[n] = Pending /\ fetched'.txn # n
                                 => FALSE
        BY DEF StoredInv, Pending
      <3>1. txnId[n] \in Slots
        BY DEF IInv, TypeOK
      <3>2. QED
        BY <3>1, <2>1, <2>2 DEF IInv, StoredInv, books, callVars
    <2>7. TxnInv' /\ AnswerInv' /\ AnswerIsOfTheSameFunction'
      BY <2>1, CallsUnchanged
    <2>8. QED
      BY <2>3, <2>4, <2>5, <2>6, <2>7 DEF IInv
  <1>3. QED
    BY <1>1, <1>2 DEF Dispose

\* The peer and the connection.
LEMMA EnvironmentKeeps ==
    ASSUME IInv, Environment
    PROVE  IInv'
  <1>t. toPeer \in Seq(Messages) /\ toHost \in Seq(Messages) /\ calls \in 0 .. MaxCalls
    BY DEF IInv, TypeOK
  <1>1. /\ UNCHANGED <<txnCounter, txnDict, calls, txnId, callVars, response, reader, owner>>
        /\ connected' \in {FALSE, connected}
    BY DEF Environment, PeerProcess, PeerDrops, PeerNotify, Break, table
  <1>2. /\ executed \subseteq executed' /\ executed' \subseteq 1 .. calls /\ notified' \in Nat
        /\ toPeer' \in Seq(Messages)
        /\ \A j \in DOMAIN toPeer' : \E k \in DOMAIN toPeer : toPeer'[j] = toPeer[k]
        /\ toHost' \in Seq(Messages)
        /\ \A j \in DOMAIN toHost' :
               \/ \E k \in DOMAIN toHost : toHost'[j] = toHost[k]
               \/ toHost'[j].resp => Genuine(toHost[j])'
    <2>e. executed \subseteq 1 .. calls /\ notified \in Nat
      BY DEF IInv, AnswerInv, TypeOK
    <2>1. CASE PeerProcess
      <3> DEFINE m == Head(toPeer)
      <3>1. /\ toPeer # <<>> /\ toPeer' = Tail(toPeer)
            /\ toHost' = toHost \o compost_msg_process(m)
            /\ executed' = IF Executes(m) THEN executed \cup {m.req} ELSE executed
            /\ notified' = notified
        BY <2>1 DEF PeerProcess
      <3>2. /\ toPeer' \in Seq(Messages)
            /\ \A j \in DOMAIN toPeer' : \E k \in DOMAIN toPeer : toPeer'[j] = toPeer[k]
            /\ \E k \in DOMAIN toPeer : m = toPeer[k]
        BY <3>1, <1>t, TailElements
      <3>3. /\ m \in Messages /\ ~ m.resp /\ m.req \in 1 .. calls
            /\ m.txn = txnId[m.req] /\ m.id = function[m.req]
        BY <3>2, <1>t DEF IInv, RequestInv
      <3> HIDE DEF m
      <3>4. executed \subseteq executed' /\ executed' \subseteq 1 .. calls
        BY <3>1, <3>3, <2>e
      <3>5. CASE compost_msg_process(m) = <<>>
        <4>1. toHost' = toHost
          BY <3>1, <3>5, <1>t
        <4>2. QED
          BY <4>1, <3>1, <3>2, <3>4, <2>e, <1>t
      <3>6. CASE \E r \in Messages :
                    /\ compost_msg_process(m) = <<r>>
                    /\ r.txn = m.txn
                    /\ r.req = m.req
                    /\ r.id = UNKNOWN_MSG \/ (m.id \in Functions /\ r.id = m.id)
        <4>1. PICK r \in Messages :
                    /\ compost_msg_process(m) = <<r>>
                    /\ r.txn = m.txn
                    /\ r.req = m.req
                    /\ r.id = UNKNOWN_MSG \/ (m.id \in Functions /\ r.id = m.id)
          BY <3>6
        <4>2. toHost' = Append(toHost, r)
          BY <4>1, <3>1, <1>t
        <4>3. m.id \in Functions => m.req \in executed'
          BY <3>1, <3>3, Reply
        <4>4. /\ r.req \in 1 .. calls' /\ r.txn = txnId'[r.req]
              /\ r.id = UNKNOWN_MSG \/ (r.req \in executed' /\ r.id = function'[r.req])
          BY <4>1, <4>3, <3>3, <1>1 DEF callVars
        <4>5. /\ toHost' \in Seq(Messages)
              /\ \A j \in DOMAIN toHost' :
                     toHost'[j] = r \/ \E k \in DOMAIN toHost : toHost'[j] = toHost[k]
          BY <4>2, <1>t, AppendElements
        <4>6. \A j \in DOMAIN toHost' :
                  \/ \E k \in DOMAIN toHost : toHost'[j] = toHost[k]
                  \/ Genuine(toHost[j])'
          BY <4>4, <4>5 DEF Genuine
        <4>7. QED
          BY <4>5, <4>6, <3>1, <3>2, <3>4, <2>e
      <3>7. QED
        BY <3>3, <3>5, <3>6, Reply
    <2>2. CASE PeerDrops
      BY <2>2, <2>e, <1>t, TailElements DEF PeerDrops
    <2>3. CASE \E e \in Events : PeerNotify(e)
      <3> PICK e \in Events : PeerNotify(e)
        BY <2>3
      <3>1. notif_store(e) \in Messages /\ ~ notif_store(e).resp
        BY OtherMessages
      <3>2. toHost' = Append(toHost, notif_store(e)) /\ UNCHANGED <<toPeer, executed>> /\ notified' \in Nat
        BY <2>e DEF PeerNotify
      <3>3. /\ toHost' \in Seq(Messages)
            /\ \A j \in DOMAIN toHost' :
                   toHost'[j] = notif_store(e) \/ \E k \in DOMAIN toHost : toHost'[j] = toHost[k]
        BY <3>1, <3>2, <1>t, AppendElements
      <3>4. QED
        BY <3>1, <3>2, <3>3, <2>e, <1>t
    <2>4. CASE Break
      <3>1. toPeer' = <<>> /\ toHost' = <<>> /\ UNCHANGED <<executed, notified>>
        BY <2>4 DEF Break
      <3>2. QED
        BY <3>1, <2>e
    <2>5. QED
      BY <2>1, <2>2, <2>3, <2>4 DEF Environment
  <1>3. \A m : Genuine(m) => /\ m.req \in 1 .. calls' /\ m.txn = txnId'[m.req]
                             /\ m.id = UNKNOWN_MSG \/ (m.req \in executed' /\ m.id = function'[m.req])
    BY <1>1, <1>2 DEF Genuine, callVars
  <1>4. TypeOK'
    <2>1. executed' \subseteq Calls
      BY <1>2, <1>t, ConstantsAssumption DEF Calls
    <2>2. QED
      BY <2>1, <1>1, <1>2 DEF IInv, TypeOK, callVars, reader, owner
  <1>5. RequestInv'
    BY <1>1, <1>2 DEF IInv, RequestInv, callVars
  <1>6. ResponseInv'
    BY <1>2, <1>3 DEF IInv, ResponseInv, Genuine
  <1>7. TableInv'
    BY <1>1, <1>3 DEF IInv, TableInv, ResponseFor, Genuine, callVars, reader, Pending, Cancelled
  <1>8. StoredInv'
    BY <1>1 DEF IInv, StoredInv, callVars, reader, owner, Pending
  <1>9. TxnInv' /\ AnswerInv' /\ AnswerIsOfTheSameFunction'
    BY <1>1, <1>2 DEF IInv, TxnInv, AnswerInv, AnswerIsOfTheSameFunction, callVars
  <1>10. QED
    BY <1>4, <1>5, <1>6, <1>7, <1>8, <1>9 DEF IInv

\* Every step keeps the inductive invariant.
LEMMA NextIInv == IInv /\ [Next]_vars => IInv'
  BY AquireKeeps, ContinueKeeps, ReadKeeps, DisposeKeeps, EnvironmentKeeps DEF Next

\* The inductive invariant holds in every reachable state.
THEOREM Invariance == Spec => []IInv
  BY InitIInv, NextIInv, PTL DEF Spec

\* Type correctness: the transaction number stays within its byte, and every
\* message that is stored or in flight is well formed.
THEOREM TypeCorrect == Spec => []TypeOK
  <1>1. IInv => TypeOK
    BY DEF IInv
  <1>2. QED
    BY <1>1, Invariance, PTL

\* Without a timeout a call that waits is found by the read task, however many
\* calls, responses and a DisposeAsync are under way at the same time.
THEOREM WaitingIsStored == Spec => []WaitingCallIsStored
  <1>1. IInv => WaitingCallIsStored
    BY DEF IInv, StoredInv, WaitingCallIsStored
  <1>2. QED
    BY <1>1, Invariance, PTL

\* A call returns only the result of a request for its own function, even where
\* numbers have wrapped around and slots have been emptied for another call.
THEOREM AnswerFits == Spec => []AnswerIsOfTheSameFunction
  <1>1. IInv => AnswerIsOfTheSameFunction
    BY DEF IInv
  <1>2. QED
    BY <1>1, Invariance, PTL
-----------------------------------------------------------------------------
\* The outcome of one call changes.
LEMMA OutcomeChange ==
    ASSUME IInv, NEW n \in Calls, NEW o \in {"pending", "returned"} \cup Failures,
           outcome' = [outcome EXCEPT ![n] = o]
    PROVE  clientOutcome' =
               [clientOutcome EXCEPT ![n] = IF o \in Failures THEN "failed" ELSE o]
  BY DEF IInv, TypeOK, clientOutcome

\* Every step of the session is a step of the abstract client, or none.
LEMMA NextRefines == IInv /\ [Next]_vars => [Client!Next]_(Client!vars)
  <1> SUFFICES ASSUME IInv, [Next]_vars
               PROVE  Client!Next \/ UNCHANGED Client!vars
    OBVIOUS
  <1>t. calls \in Nat /\ \A n \in Calls : response[n] \in Messages
    BY ConstantsAssumption DEF IInv, TypeOK
  <1>s. ASSUME UNCHANGED <<outcome, answer, executed>>
        PROVE  UNCHANGED Client!vars
    BY <1>s DEF Client!vars, clientOutcome
  <1>f. ASSUME NEW n \in Calls, NEW o \in Failures, pc[n] \notin {"new", "done"}, End(n, o),
               UNCHANGED <<answer, executed>>
        PROVE  Client!Next
    <2>1. clientOutcome[n] = "pending"
      BY <1>f DEF IInv, TxnInv, clientOutcome, Failures
    <2>2. clientOutcome' = [clientOutcome EXCEPT ![n] = "failed"]
      BY <1>f, OutcomeChange DEF End
    <2>3. Client!Fail(n)
      BY <1>f, <2>1, <2>2 DEF Client!Fail
    <2>4. QED
      BY <2>3 DEF Client!Next
  <1>1. ASSUME NEW f \in Callable, AquireNextTxnId(f)
        PROVE  Client!Next
    <2>1. /\ calls + 1 \in Calls /\ calls + 1 > calls
          /\ outcome' = [outcome EXCEPT ![calls + 1] = "pending"]
          /\ UNCHANGED <<answer, executed>>
      BY <1>1, <1>t, ConstantsAssumption DEF AquireNextTxnId, Calls, peer
    <2>2. outcome[calls + 1] = "new"
      BY <2>1 DEF IInv, TxnInv
    <2>3. clientOutcome[calls + 1] = "new"
      BY <2>1, <2>2 DEF clientOutcome, Failures
    <2>4. clientOutcome' = [clientOutcome EXCEPT ![calls + 1] = "pending"]
      BY <2>1, OutcomeChange DEF Failures
    <2>5. Client!Invoke(calls + 1)
      BY <2>1, <2>3, <2>4 DEF Client!Invoke
    <2>6. QED
      BY <2>1, <2>5 DEF Client!Next
  <1>2. ASSUME NEW n \in Calls, ResponseAwaited(n)
        PROVE  Client!Next
    <2> DEFINE m == response[n]
               how == Judge(n, m)
    <2>1. /\ pc[n] = "wait" /\ m # Pending /\ End(n, how) /\ UNCHANGED executed
          /\ answer' = IF how = "returned" THEN [answer EXCEPT ![n] = m.req] ELSE answer
      BY <1>2 DEF ResponseAwaited, peer
    <2>2. /\ how \in {"returned"} \cup Failures
          /\ how = "returned" => m # Cancelled /\ m.id = function[n] /\ ~ (m.resp /\ m.id = UNKNOWN_MSG)
      BY <1>t, JudgeReturned
    <2>3. CASE how = "returned"
      <3>1. /\ n \in 1 .. calls /\ m.req \in 1 .. calls /\ m.req \in executed
            /\ txnId[n] = txnId[m.req]
        BY <2>1, <2>2, <2>3 DEF IInv, TableInv, ResponseFor, Genuine
      <3>2. m.req \in Calls /\ m.req \in Nat /\ n \in Nat /\ n <= calls /\ m.req <= calls
        BY <3>1, <1>t, ConstantsAssumption DEF IInv, TypeOK, Calls
      <3>3. n % TxnMod = m.req % TxnMod
        BY <3>1, <3>2 DEF IInv, TxnInv
      <3> HIDE DEF m, how
      <3>4. Client!Confusable(n, m.req)
        BY <3>2, <3>3, SameTxn DEF Client!Confusable
      <3>5. clientOutcome[n] = "pending"
        BY <2>1 DEF IInv, TxnInv, clientOutcome, Failures
      <3>6. clientOutcome' = [clientOutcome EXCEPT ![n] = "returned"]
        BY <2>1, <2>3, OutcomeChange DEF End, Failures
      <3>7. Client!Return(n, m.req)
        BY <3>1, <3>4, <3>5, <3>6, <2>1, <2>3 DEF Client!Return
      <3>8. QED
        BY <3>2, <3>7 DEF Client!Next
    <2>4. CASE how # "returned"
      BY <2>1, <2>2, <2>4, <1>f
    <2>5. QED
      BY <2>3, <2>4
  <1>3. ASSUME NEW n \in Calls, AddTransaction(n) \/ WriteMessage(n) \/ FetchAndRemoveExpired(n)
        PROVE  Client!Next \/ UNCHANGED Client!vars
    <2>1. UNCHANGED <<answer, executed>> /\ pc[n] \in {"acquired", "added", "expired"}
      BY <1>3 DEF AddTransaction, WriteMessage, FetchAndRemoveExpired, peer
    <2>2. UNCHANGED outcome \/ \E o \in Failures : End(n, o)
      BY <1>3 DEF AddTransaction, WriteMessage, FetchAndRemoveExpired, Failures
    <2>3. QED
      BY <2>1, <2>2, <1>f, <1>s
  <1>4. CASE PeerProcess
    <2> DEFINE m == Head(toPeer)
    <2>1. /\ UNCHANGED <<outcome, answer>> /\ toPeer # <<>>
          /\ executed' = IF Executes(m) THEN executed \cup {m.req} ELSE executed
      BY <1>4 DEF PeerProcess, callVars
    <2>2. toPeer \in Seq(Messages) /\ \E k \in DOMAIN toPeer : m = toPeer[k]
      BY <2>1, TailElements DEF IInv, TypeOK
    <2> HIDE DEF m
    <2>3. m.req \in 1 .. calls
      BY <2>2 DEF IInv, RequestInv
    <2>4. m.req \in Calls /\ outcome[m.req] # "new"
      <3>1. m.req \in Calls /\ ~ (m.req > calls)
        BY <2>3, <1>t, ConstantsAssumption DEF IInv, TypeOK, Calls
      <3>2. QED
        BY <3>1 DEF IInv, TxnInv
    <2>5. clientOutcome[m.req] # "new" /\ clientOutcome' = clientOutcome
      BY <2>1, <2>4 DEF clientOutcome
    <2>6. CASE executed' = executed
      BY <2>1, <2>6, <1>s
    <2>7. CASE executed' = executed \cup {m.req}
      <3>1. Client!Execute(m.req)
        BY <2>1, <2>5, <2>7 DEF Client!Execute
      <3>2. QED
        BY <3>1, <2>4 DEF Client!Next
    <2>8. QED
      BY <2>1, <2>6, <2>7
  <1>5. ASSUME \/ \E n \in Calls : DelayElapsed(n)
               \/ Read \/ Cancel \/ Dispose \/ PeerDrops \/ Break
               \/ \E e \in Events : PeerNotify(e)
               \/ UNCHANGED vars
        PROVE  UNCHANGED Client!vars
    <2>1. UNCHANGED <<outcome, answer, executed>>
      BY <1>5 DEF DelayElapsed, Read, ReadMessagesAsync, SetResponse, ReadCancelled, ReadFails,
                  Cancel, Dispose, DisposeAsync, DisposeTimesOut, PeerDrops, Break, PeerNotify,
                  vars, callVars, peer
    <2>2. QED
      BY <2>1, <1>s
  <1>6. QED
    BY <1>1, <1>2, <1>3, <1>4, <1>5 DEF Next, Continue, Environment

\* CsSession implements RpcClient: with one slot for each value of the byte, a
\* call is given its own answer or that of a call TxnMod or more calls away.
THEOREM ImplementsClient == Spec => ClientSpec
  <1>1. Init => Client!Init
    BY DEF Init, Client!Init, Client!NoAnswer, clientOutcome, Failures
  <1>2. IInv /\ [Next]_vars => [Client!Next]_(Client!vars)
    BY NextRefines
  <1>3. QED
    BY <1>1, <1>2, Invariance, PTL DEF Spec, ClientSpec, Client!Spec
=============================================================================
