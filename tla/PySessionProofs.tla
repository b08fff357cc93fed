-------------------------- MODULE PySessionProofs --------------------------
(***************************************************************************)
(* For every _TXN_MAX, every protocol, every bound and both kinds of       *)
(* transport: IInv is an invariant of PySession, hence so are the type     *)
(* invariant and the two safety properties, and PySession implements       *)
(* RpcClient.  The items that are in the queue or will come to it are      *)
(* counted in StaysOutOfStep.                                              *)
(***************************************************************************)
EXTENDS PySession, CommonLemmas

\* The numbers that next_txn() hands out.
LEMMA TxnOfType ==
    ASSUME NEW n \in Nat
    PROVE  TxnOf(n) \in 1 .. TxnMax
  BY TxnMaxAssumption, DivMod DEF TxnOf

LEMMA NextTxn ==
    ASSUME calls \in Nat, last_txn = TxnOf(calls)
    PROVE  next_txn = TxnOf(calls + 1) /\ next_txn \in 1 .. TxnMax
  <1>1. (calls % TxnMax) \in 0 .. TxnMax - 1
    BY TxnMaxAssumption, DivMod
  <1>2. (calls + 1) % TxnMax =
            IF (calls % TxnMax) + 1 >= TxnMax THEN 0 ELSE (calls % TxnMax) + 1
    BY TxnMaxAssumption, NextRemainder
  <1>3. QED
    BY <1>1, <1>2, TxnMaxAssumption DEF TxnOf, next_txn

\* Calls that share a number are one call or far apart.
LEMMA SameTxn ==
    ASSUME NEW n \in Nat, NEW r \in Nat, r <= n, TxnOf(n) = TxnOf(r)
    PROVE  r = n \/ r + TxnMax <= n
  <1>1. (n % TxnMax) \in Int /\ (r % TxnMax) \in Int
    BY TxnMaxAssumption, DivMod
  <1>2. n % TxnMax = r % TxnMax
    BY <1>1 DEF TxnOf
  <1>3. QED
    <2>1. CASE r < n
      BY <2>1, <1>2, TxnMaxAssumption, SameRemainder
    <2>2. QED
      BY <2>1

\* The messages that do not come from a handler.
LEMMA OtherMessages ==
    /\ Exc \in Messages
    /\ Short \in Messages
    /\ \A e \in Events : notif_store(e) \in Messages
  BY TxnMaxAssumption, BoundsAssumption, IdsAssumption
     DEF Exc, Short, notif_store, Messages, Ids

\* What the C side sends for a message.
LEMMA Reply ==
    ASSUME NEW m \in Messages
    PROVE  \/ compost_msg_process(m) = <<>>
           \/ \E r \in Messages :
                  /\ compost_msg_process(m) = <<r>>
                  /\ r.txn = m.txn
                  /\ r.req = m.req
                  /\ r.id \in PyIds => Executes(m)
  <1> DEFINE r == compost_invoke_switch(tx_init(m), m)
  <1>1. /\ r \in Messages
        /\ r.txn = m.txn
        /\ r.req = m.req
        /\ r.id \in PyIds => m.id \in Functions
    <2>1. CASE m.id \in Functions
      <3>1. r = [wlen |-> IF m.id \in Valued THEN 1 ELSE 0, txn |-> m.txn,
                 resp |-> TRUE, id |-> m.id, req |-> m.req]
        BY <2>1 DEF compost_invoke_switch, invoke, tx_init
      <3>2. QED
        BY <2>1, <3>1 DEF Messages, Ids
    <2>2. CASE m.id \notin Functions
      <3>1. r = [wlen |-> 0, txn |-> m.txn,
                 resp |-> TRUE, id |-> UNKNOWN_MSG, req |-> m.req]
        BY <2>2 DEF compost_invoke_switch, compost_unknown_msg, tx_init
      <3>2. QED
        BY <2>2, <3>1, IdsAssumption DEF Messages, Ids
    <2>3. QED
      BY <2>1, <2>2
  <1>2. CASE IsStrayResponse(m)
    BY <1>2 DEF compost_msg_process
  <1>3. CASE ~ IsStrayResponse(m)
    BY <1>1, <1>3 DEF compost_msg_process, Executes
  <1>4. QED
    BY <1>2, <1>3
-----------------------------------------------------------------------------
\* The initial state.
LEMMA InitIInv == Init => IInv
  <1> SUFFICES ASSUME Init
               PROVE  IInv
    OBVIOUS
  <1>1. (0 % TxnMax) = 0
    BY TxnMaxAssumption, DivMod
  <1>2. TypeOK
    BY TxnMaxAssumption, BoundsAssumption DEF Init, TypeOK, Calls, Failures
  <1>3. TxnInv
    BY <1>1, BoundsAssumption DEF Init, TxnInv, TxnOf, Calls
  <1>4. RequestInv /\ ResponseInv /\ QueueInv /\ ExecutedInv
    BY DEF Init, RequestInv, ResponseInv, QueueInv, ExecutedInv
  <1>5. WrongAnswerIsOld /\ AnswerWasExecuted
    BY DEF Init, WrongAnswerIsOld, AnswerWasExecuted
  <1>6. QED
    BY <1>2, <1>3, <1>4, <1>5 DEF IInv

\* A step that leaves the calls and the executed requests alone keeps what the
\* invariant says of them.
LEMMA CallerUnchanged ==
    ASSUME IInv, UNCHANGED <<last_txn, caller, executed>>
    PROVE  TxnInv' /\ ExecutedInv' /\ WrongAnswerIsOld' /\ AnswerWasExecuted'
  BY DEF IInv, caller, TxnInv, ExecutedInv, WrongAnswerIsOld, AnswerWasExecuted, TxnOf

\* Starting a call, whether or not its request is sent.
LEMMA NewCall ==
    ASSUME IInv, pc = "idle", calls < MaxCalls,
           last_txn' = next_txn, calls' = calls + 1, UNCHANGED <<answer, executed>>,
           NEW o \in {"pending", "send"},
           outcome' = [outcome EXCEPT ![calls + 1] = o],
           \/ o = "pending" /\ pc' = "sent" /\ txn' = next_txn
           \/ o = "send" /\ UNCHANGED <<pc, txn>>
    PROVE  /\ TxnInv' /\ ExecutedInv' /\ WrongAnswerIsOld' /\ AnswerWasExecuted'
           /\ next_txn \in 1 .. TxnMax
           /\ next_txn = TxnOf(calls + 1)
           /\ calls' \in 0 .. MaxCalls
           /\ outcome' \in [Calls -> {"new", "pending", "returned"} \cup Failures]
  <1> USE BoundsAssumption
  <1>1. calls \in Nat /\ calls + 1 \in Calls /\ executed \subseteq 1 .. calls
        /\ outcome \in [Calls -> {"new", "pending", "returned"} \cup Failures]
    BY DEF IInv, TypeOK, ExecutedInv, Calls
  <1>2. next_txn = TxnOf(calls + 1) /\ next_txn \in 1 .. TxnMax
    BY <1>1, NextTxn DEF IInv, TxnInv
  <1>3. TxnInv'
    <2>1. last_txn' = TxnOf(calls')
      BY <1>2 DEF TxnOf
    <2>2. pc' # "idle" => calls' > 0 /\ txn' = TxnOf(calls') /\ outcome'[calls'] = "pending"
      BY <1>1, <1>2 DEF TxnOf
    <2>3. \A n \in Calls : outcome'[n] = "new" <=> n > calls'
      BY <1>1 DEF IInv, TxnInv, Calls
    <2>4. QED
      BY <2>1, <2>2, <2>3 DEF TxnInv, TxnOf, Calls
  <1>4. ExecutedInv'
    BY <1>1 DEF ExecutedInv
  <1>5. \A n \in Calls : outcome'[n] = "returned" => outcome[n] = "returned"
    BY <1>1 DEF Calls
  <1>6. WrongAnswerIsOld' /\ AnswerWasExecuted'
    BY <1>5 DEF IInv, WrongAnswerIsOld, AnswerWasExecuted
  <1>7. QED
    BY <1>1, <1>2, <1>3, <1>4, <1>6 DEF Failures, Calls

\* Ending a call with an exception.
LEMMA RaiseCall ==
    ASSUME IInv, pc # "idle", NEW why \in Failures, Raise(why),
           UNCHANGED <<last_txn, txn, calls, executed>>
    PROVE  /\ TxnInv' /\ ExecutedInv' /\ WrongAnswerIsOld' /\ AnswerWasExecuted'
           /\ outcome' \in [Calls -> {"new", "pending", "returned"} \cup Failures]
           /\ pc' = "idle" /\ UNCHANGED answer
  <1>1. calls \in Calls /\ why # "new" /\ why # "returned"
    BY BoundsAssumption DEF IInv, TypeOK, TxnInv, Calls, Failures
  <1>2. /\ outcome \in [Calls -> {"new", "pending", "returned"} \cup Failures]
        /\ outcome' = [outcome EXCEPT ![calls] = why]
        /\ outcome[calls] = "pending"
        /\ pc' = "idle"
        /\ UNCHANGED answer
    BY DEF IInv, TypeOK, TxnInv, Raise
  <1>3. TxnInv'
    BY <1>1, <1>2 DEF IInv, TxnInv, TxnOf
  <1>4. \A n \in Calls : outcome'[n] = "returned" => outcome[n] = "returned"
    BY <1>1, <1>2
  <1>5. WrongAnswerIsOld' /\ AnswerWasExecuted' /\ ExecutedInv'
    BY <1>2, <1>4 DEF IInv, WrongAnswerIsOld, AnswerWasExecuted, ExecutedInv
  <1>6. QED
    BY <1>1, <1>2, <1>3, <1>5

\* Every step keeps the invariant.
LEMMA NextIInv == IInv /\ [Next]_vars => IInv'
  <1> SUFFICES ASSUME IInv, [Next]_vars
               PROVE  IInv'
    OBVIOUS
  <1> USE BoundsAssumption, TxnMaxAssumption
  <1>q. /\ q \in Seq(Messages) /\ toPeer \in Seq(Messages) /\ toHost \in Seq(Messages)
        /\ calls \in Nat
    BY DEF IInv, TypeOK
  <1>1. ASSUME NEW f \in Callable, send_request(f)
        PROVE  IInv'
    <2> DEFINE r == request(f)
    <2>1. /\ TxnInv' /\ ExecutedInv' /\ WrongAnswerIsOld' /\ AnswerWasExecuted'
          /\ next_txn \in 1 .. TxnMax
          /\ next_txn = TxnOf(calls + 1)
          /\ calls' \in 0 .. MaxCalls
          /\ outcome' \in [Calls -> {"new", "pending", "returned"} \cup Failures]
      BY <1>1, NewCall DEF send_request, history
    <2>2. r \in Messages /\ r.txn = next_txn /\ r.req = calls + 1
      BY <1>1, <1>q, <2>1, IdsAssumption DEF request, Messages, Ids, send_request
    <2>3. toPeer' = Append(toPeer, r) /\ calls' = calls + 1
      BY <1>1 DEF send_request
    <2> HIDE DEF r
    <2>4. toPeer' \in Seq(Messages)
      BY <2>2, <2>3, <1>q, AppendElements
    <2>5. TypeOK'
      BY <1>1, <2>1, <2>4 DEF IInv, TypeOK, send_request, history
    <2>6. RequestInv'
      <3> SUFFICES ASSUME NEW j \in DOMAIN toPeer'
                   PROVE  IF toPeer'[j].txn = 0 THEN toPeer'[j].req = 0
                          ELSE /\ toPeer'[j].req \in 1 .. calls'
                               /\ toPeer'[j].txn = TxnOf(toPeer'[j].req)
        BY DEF RequestInv, TxnOf
      <3>1. CASE toPeer'[j] = r
        BY <3>1, <2>1, <2>2, <2>3, <1>q
      <3>2. CASE \E k \in DOMAIN toPeer : toPeer'[j] = toPeer[k]
        BY <3>2, <2>3, <1>q DEF IInv, RequestInv
      <3>3. QED
        BY <3>1, <3>2, <2>2, <2>3, <1>q, AppendElements
    <2>7. ResponseInv' /\ QueueInv'
      BY <1>1 DEF IInv, ResponseInv, QueueInv, Genuine, TxnOf, send_request, history
    <2>8. QED
      BY <2>1, <2>5, <2>6, <2>7 DEF IInv
  <1>2. CASE send_request_raises
    <2>1. /\ TxnInv' /\ ExecutedInv' /\ WrongAnswerIsOld' /\ AnswerWasExecuted'
          /\ next_txn \in 1 .. TxnMax
          /\ calls' \in 0 .. MaxCalls
          /\ outcome' \in [Calls -> {"new", "pending", "returned"} \cup Failures]
      BY <1>2, NewCall DEF send_request_raises, history
    <2>2. TypeOK'
      BY <1>2, <2>1 DEF IInv, TypeOK, send_request_raises, history
    <2>3. RequestInv'
      BY <1>2, <1>q DEF IInv, RequestInv, TxnOf, send_request_raises
    <2>4. ResponseInv' /\ QueueInv'
      BY <1>2 DEF IInv, ResponseInv, QueueInv, Genuine, TxnOf, send_request_raises, history
    <2>5. QED
      BY <2>1, <2>2, <2>3, <2>4 DEF IInv
  <1>3. CASE CheckListener
    <2>1. UNCHANGED <<last_txn, q, listener, txn, calls, toPeer, toHost, history>> /\ pc = "sent"
      BY <1>3 DEF CheckListener, session
    <2>2. RequestInv' /\ ResponseInv' /\ QueueInv'
      BY <2>1 DEF IInv, RequestInv, ResponseInv, QueueInv, Genuine, TxnOf, history
    <2>3. CASE Raise("listener")
      <3>1. /\ TxnInv' /\ ExecutedInv' /\ WrongAnswerIsOld' /\ AnswerWasExecuted'
            /\ outcome' \in [Calls -> {"new", "pending", "returned"} \cup Failures]
            /\ pc' = "idle" /\ UNCHANGED answer
        BY <2>1, <2>3, RaiseCall DEF history, Failures
      <3>2. TypeOK'
        BY <2>1, <3>1 DEF IInv, TypeOK, history
      <3>3. QED
        BY <2>2, <3>1, <3>2 DEF IInv
    <2>4. CASE pc' = "wait" /\ UNCHANGED <<outcome, answer>>
      <3>1. TypeOK' /\ TxnInv' /\ ExecutedInv' /\ WrongAnswerIsOld' /\ AnswerWasExecuted'
        BY <2>1, <2>4
           DEF IInv, TypeOK, TxnInv, TxnOf, ExecutedInv, WrongAnswerIsOld, AnswerWasExecuted, history
      <3>2. QED
        BY <2>2, <3>1 DEF IInv
    <2>5. QED
      BY <1>3, <2>3, <2>4 DEF CheckListener
  <1>4. CASE GetItem
    <2> DEFINE item == Head(q)
    <2>1. /\ UNCHANGED <<last_txn, listener, txn, calls, toPeer, toHost, history>>
          /\ q # <<>> /\ q' = Tail(q) /\ pc = "wait"
      BY <1>4 DEF GetItem
    <2>2. /\ q' \in Seq(Messages)
          /\ \A j \in DOMAIN q' : \E k \in DOMAIN q : q'[j] = q[k]
          /\ \E k \in DOMAIN q : item = q[k]
      BY <2>1, <1>q, TailElements
    <2>3. RequestInv' /\ ResponseInv'
      BY <2>1 DEF IInv, RequestInv, ResponseInv, Genuine, TxnOf, history
    <2>4. QueueInv'
      BY <2>1, <2>2 DEF IInv, QueueInv, Genuine, TxnOf, history
    <2>5. item = Exc \/ Genuine(item)
      BY <2>2 DEF IInv, QueueInv
    <2>6. ASSUME NEW why \in Failures, Raise(why)
          PROVE  IInv'
      <3>1. /\ TxnInv' /\ ExecutedInv' /\ WrongAnswerIsOld' /\ AnswerWasExecuted'
            /\ outcome' \in [Calls -> {"new", "pending", "returned"} \cup Failures]
            /\ pc' = "idle" /\ UNCHANGED answer
        BY <2>1, <2>6, RaiseCall DEF history
      <3>2. TypeOK'
        BY <2>1, <2>2, <3>1 DEF IInv, TypeOK, history
      <3>3. QED
        BY <2>3, <2>4, <3>1, <3>2 DEF IInv
    <2>7. CASE /\ item # Exc
               /\ IsExpected(item)
               /\ outcome' = [outcome EXCEPT ![calls] = "returned"]
               /\ answer' = [answer EXCEPT ![calls] = item.req]
               /\ pc' = "idle"
      <3>1. /\ calls \in Calls /\ txn = TxnOf(calls) /\ outcome[calls] = "pending"
            /\ outcome \in [Calls -> {"new", "pending", "returned"} \cup Failures]
            /\ answer \in [Calls -> 0 .. MaxCalls]
        BY <2>1 DEF IInv, TypeOK, TxnInv, Calls
      <3>2. item.req \in executed /\ item.req \in 1 .. calls /\ TxnOf(item.req) = TxnOf(calls)
        BY <2>5, <2>7, <3>1 DEF Genuine, IsExpected, IInv, ExecutedInv
      <3>3. item.req = calls \/ item.req + TxnMax <= calls
        BY <3>2, <1>q, SameTxn
      <3> HIDE DEF item
      <3>4. TypeOK'
        <4>1. item.req \in 0 .. MaxCalls
          BY <3>1, <3>2 DEF Calls
        <4>2. answer' \in [Calls -> 0 .. MaxCalls]
          BY <4>1, <3>1, <2>7
        <4>3. outcome' \in [Calls -> {"new", "pending", "returned"} \cup Failures]
          BY <3>1, <2>7
        <4>4. QED
          BY <4>2, <4>3, <2>1, <2>2, <2>7 DEF IInv, TypeOK, history
      <3>5. TxnInv' /\ ExecutedInv'
        BY <2>1, <2>7, <3>1, <1>q DEF IInv, TxnInv, TxnOf, ExecutedInv, history
      <3>6. WrongAnswerIsOld'
        BY <2>7, <3>1, <3>3 DEF IInv, WrongAnswerIsOld
      <3>7. AnswerWasExecuted'
        BY <2>1, <2>7, <3>1, <3>2 DEF IInv, AnswerWasExecuted, history
      <3>8. QED
        BY <2>3, <2>4, <3>4, <3>5, <3>6, <3>7 DEF IInv
    <2>8. QED
      BY <1>4, <2>6, <2>7 DEF GetItem, Failures
  <1>5. CASE Timeout
    <2>1. /\ UNCHANGED <<last_txn, q, listener, txn, calls, toPeer, toHost, history>>
          /\ pc = "wait" /\ Raise("timeout")
      BY <1>5 DEF Timeout, session
    <2>2. /\ TxnInv' /\ ExecutedInv' /\ WrongAnswerIsOld' /\ AnswerWasExecuted'
          /\ outcome' \in [Calls -> {"new", "pending", "returned"} \cup Failures]
          /\ pc' = "idle" /\ UNCHANGED answer
      BY <2>1, RaiseCall DEF history, Failures
    <2>3. TypeOK'
      BY <2>1, <2>2 DEF IInv, TypeOK, history
    <2>4. RequestInv' /\ ResponseInv' /\ QueueInv'
      BY <2>1 DEF IInv, RequestInv, ResponseInv, QueueInv, Genuine, TxnOf, history
    <2>5. QED
      BY <2>2, <2>3, <2>4 DEF IInv
  <1>6. ASSUME NEW f \in Notes, send_notif(f)
        PROVE  IInv'
    <2> DEFINE r == notification(f)
    <2>1. UNCHANGED <<last_txn, q, listener, caller, toHost, history>> /\ toPeer' = Append(toPeer, r)
      BY <1>6 DEF send_notif, session
    <2>3. r \in Messages /\ r.txn = 0 /\ r.req = 0
      BY IdsAssumption DEF notification, Messages, Ids
    <2> HIDE DEF r
    <2>4. /\ toPeer' \in Seq(Messages)
          /\ \A j \in DOMAIN toPeer' : toPeer'[j] = r \/ \E k \in DOMAIN toPeer : toPeer'[j] = toPeer[k]
      BY <2>1, <2>3, <1>q, AppendElements
    <2>5. TypeOK'
      BY <2>1, <2>4 DEF IInv, TypeOK, caller, history
    <2>6. RequestInv'
      BY <2>1, <2>3, <2>4 DEF IInv, RequestInv, TxnOf, caller
    <2>7. ResponseInv' /\ QueueInv'
      BY <2>1 DEF IInv, ResponseInv, QueueInv, Genuine, TxnOf, history
    <2>8. TxnInv' /\ ExecutedInv' /\ WrongAnswerIsOld' /\ AnswerWasExecuted'
      BY <2>1, CallerUnchanged DEF history
    <2>9. QED
      BY <2>5, <2>6, <2>7, <2>8 DEF IInv
  <1>7. ASSUME NEW i \in DOMAIN toHost, receiver(i)
        PROVE  IInv'
    <2> DEFINE m == toHost[i]
    <2>1. /\ UNCHANGED <<last_txn, caller, toPeer, executed, notified, spurious, copies>>
          /\ toHost' = RemoveAt(toHost, i)
          /\ \/ /\ IsDispatched(m) /\ listener' = "callback" /\ heard' = heard + 1 /\ q' = q
             \/ /\ ~ IsDispatched(m) /\ q' = Append(q, Queued(m)) /\ UNCHANGED <<listener, heard>>
      BY <1>7 DEF receiver
    <2>2. /\ toHost' \in Seq(Messages)
          /\ \A j \in DOMAIN toHost' : \E k \in DOMAIN toHost : toHost'[j] = toHost[k]
      BY <2>1, <1>q, RemoveAtElements
    <2>3. TxnInv' /\ ExecutedInv' /\ WrongAnswerIsOld' /\ AnswerWasExecuted'
      BY <2>1, CallerUnchanged
    <2>4. RequestInv'
      BY <2>1 DEF IInv, RequestInv, TxnOf, caller
    <2>5. ResponseInv'
      BY <2>1, <2>2 DEF IInv, ResponseInv, Genuine, TxnOf
    <2>6. Queued(m) \in Messages
      BY <1>q, OtherMessages DEF Queued
    <2>7. ~ IsDispatched(m) => Queued(m) = Exc \/ Genuine(Queued(m))
      BY DEF IInv, ResponseInv, IsDispatched, Queued
    <2>8. TypeOK' /\ QueueInv'
      <3> HIDE DEF m
      <3>1. CASE IsDispatched(m) /\ listener' = "callback" /\ heard' = heard + 1 /\ q' = q
        BY <2>1, <2>2, <3>1 DEF IInv, TypeOK, QueueInv, Genuine, TxnOf, caller
      <3>2. CASE ~ IsDispatched(m) /\ q' = Append(q, Queued(m)) /\ UNCHANGED <<listener, heard>>
        <4>1. /\ q' \in Seq(Messages)
              /\ \A j \in DOMAIN q' :
                     q'[j] = Queued(m) \/ \E k \in DOMAIN q : q'[j] = q[k]
          BY <3>2, <2>6, <1>q, AppendElements
        <4>2. QueueInv'
          BY <4>1, <2>1, <2>7, <3>2 DEF IInv, QueueInv, Genuine, TxnOf
        <4>3. TypeOK'
          BY <4>1, <2>1, <2>2, <3>2 DEF IInv, TypeOK, caller
        <4>4. QED
          BY <4>2, <4>3
      <3>3. QED
        BY <2>1, <3>1, <3>2
    <2>9. QED
      BY <2>3, <2>4, <2>5, <2>8 DEF IInv
  <1>8. CASE receiver_error
    <2>1. /\ UNCHANGED <<last_txn, listener, caller, toPeer, toHost, executed, notified, heard, copies>>
          /\ q' = Append(q, Exc) /\ spurious' = spurious + 1
      BY <1>8 DEF receiver_error
    <2>2. /\ q' \in Seq(Messages)
          /\ \A j \in DOMAIN q' : q'[j] = Exc \/ \E k \in DOMAIN q : q'[j] = q[k]
      BY <2>1, <1>q, AppendElements, OtherMessages
    <2>3. TypeOK'
      BY <2>1, <2>2 DEF IInv, TypeOK, caller
    <2>4. QueueInv'
      BY <2>1, <2>2 DEF IInv, QueueInv, Genuine, TxnOf
    <2>5. RequestInv' /\ ResponseInv'
      BY <2>1 DEF IInv, RequestInv, ResponseInv, Genuine, TxnOf, caller
    <2>6. TxnInv' /\ ExecutedInv' /\ WrongAnswerIsOld' /\ AnswerWasExecuted'
      BY <2>1, CallerUnchanged
    <2>7. QED
      BY <2>3, <2>4, <2>5, <2>6 DEF IInv
  <1>9. CASE CallbackReturns \/ CallbackRaises
    <2>1. /\ UNCHANGED <<last_txn, q, caller, toPeer, toHost, history>>
          /\ listener' \in {"receive", "dead"}
      BY <1>9 DEF CallbackReturns, CallbackRaises
    <2>2. TypeOK'
      BY <2>1 DEF IInv, TypeOK, caller, history
    <2>3. RequestInv' /\ ResponseInv' /\ QueueInv'
      BY <2>1 DEF IInv, RequestInv, ResponseInv, QueueInv, Genuine, TxnOf, caller, history
    <2>4. TxnInv' /\ ExecutedInv' /\ WrongAnswerIsOld' /\ AnswerWasExecuted'
      BY <2>1, CallerUnchanged DEF history
    <2>5. QED
      BY <2>2, <2>3, <2>4 DEF IInv
  <1>10. ASSUME NEW i \in DOMAIN toPeer, PeerProcess(i)
         PROVE  IInv'
    <2> DEFINE m == toPeer[i]
    <2>1. /\ UNCHANGED <<last_txn, q, listener, caller, notified, heard, spurious, copies>>
          /\ toPeer' = RemoveAt(toPeer, i)
          /\ toHost' = toHost \o compost_msg_process(m)
          /\ executed' = IF Executes(m) /\ m.req # 0 THEN executed \cup {m.req} ELSE executed
      BY <1>10 DEF PeerProcess, session
    <2>2. /\ m \in Messages
          /\ IF m.txn = 0 THEN m.req = 0 ELSE m.req \in 1 .. calls /\ m.txn = TxnOf(m.req)
      BY <1>q DEF IInv, RequestInv
    <2>3. /\ toPeer' \in Seq(Messages)
          /\ \A j \in DOMAIN toPeer' : \E k \in DOMAIN toPeer : toPeer'[j] = toPeer[k]
      BY <2>1, <1>q, RemoveAtElements
    <2> HIDE DEF m
    <2>4. executed \subseteq executed' /\ executed' \subseteq 1 .. calls /\ calls' = calls
      BY <2>1, <2>2, <1>q DEF IInv, ExecutedInv, Messages, caller
    <2>5. /\ toHost' \in Seq(Messages)
          /\ \A j \in DOMAIN toHost' :
                 \/ \E k \in DOMAIN toHost : toHost'[j] = toHost[k]
                 \/ /\ toHost'[j].txn = m.txn /\ toHost'[j].req = m.req
                    /\ toHost'[j].id \in PyIds => Executes(m)
      <3>1. CASE compost_msg_process(m) = <<>>
        <4>1. toHost' = toHost
          BY <2>1, <3>1, <1>q
        <4>2. QED
          BY <4>1, <1>q
      <3>2. CASE \E r \in Messages :
                    /\ compost_msg_process(m) = <<r>>
                    /\ r.txn = m.txn
                    /\ r.req = m.req
                    /\ r.id \in PyIds => Executes(m)
        <4>1. PICK r \in Messages :
                    /\ compost_msg_process(m) = <<r>>
                    /\ r.txn = m.txn
                    /\ r.req = m.req
                    /\ r.id \in PyIds => Executes(m)
          BY <3>2
        <4>2. toHost' = Append(toHost, r)
          BY <4>1, <2>1, <1>q
        <4>3. QED
          BY <4>1, <4>2, <1>q, AppendElements
      <3>3. QED
        BY <3>1, <3>2, <2>2, Reply
    <2>6. TypeOK'
      <3>1. executed' \subseteq Calls
        BY <2>4, <1>q DEF IInv, TypeOK, Calls
      <3>2. QED
        BY <3>1, <2>1, <2>3, <2>5 DEF IInv, TypeOK, caller
    <2>7. RequestInv'
      BY <2>1, <2>3 DEF IInv, RequestInv, TxnOf, caller
    <2>8. ResponseInv'
      <3> SUFFICES ASSUME NEW j \in DOMAIN toHost', toHost'[j].id \in PyIds, toHost'[j].txn # 0
                   PROVE  toHost'[j].req \in executed' /\ toHost'[j].txn = TxnOf(toHost'[j].req)
        BY DEF ResponseInv, Genuine, TxnOf
      <3>1. CASE \E k \in DOMAIN toHost : toHost'[j] = toHost[k]
        BY <3>1, <2>4 DEF IInv, ResponseInv, Genuine
      <3>2. CASE /\ toHost'[j].txn = m.txn /\ toHost'[j].req = m.req
                 /\ toHost'[j].id \in PyIds => Executes(m)
        BY <3>2, <2>1, <2>2, <1>q
      <3>3. QED
        BY <3>1, <3>2, <2>5
    <2>9. QueueInv'
      BY <2>1, <2>4 DEF IInv, QueueInv, Genuine, TxnOf
    <2>10. TxnInv' /\ WrongAnswerIsOld' /\ AnswerWasExecuted' /\ ExecutedInv'
      BY <2>1, <2>4 DEF IInv, TxnInv, TxnOf, WrongAnswerIsOld, AnswerWasExecuted, ExecutedInv, caller
    <2>11. QED
      BY <2>6, <2>7, <2>8, <2>9, <2>10 DEF IInv
  <1>11. ASSUME NEW m \in {Short} \cup {notif_store(e) : e \in Events},
                toHost' = Append(toHost, m),
                UNCHANGED <<last_txn, q, listener, caller, toPeer, executed, heard, copies>>,
                notified' \in Nat, spurious' \in Nat
         PROVE  IInv'
    <2>1. m \in Messages /\ m.txn = 0
      <3>1. CASE m = Short
        BY <3>1, OtherMessages DEF Short
      <3>2. ASSUME NEW e \in Events, m = notif_store(e)
            PROVE  m \in Messages /\ m.txn = 0
        BY <3>2, OtherMessages DEF notif_store
      <3>3. QED
        BY <3>1, <3>2
    <2>2. /\ toHost' \in Seq(Messages)
          /\ \A j \in DOMAIN toHost' : toHost'[j] = m \/ \E k \in DOMAIN toHost : toHost'[j] = toHost[k]
      BY <1>11, <2>1, <1>q, AppendElements
    <2>3. TypeOK'
      BY <1>11, <2>2 DEF IInv, TypeOK, caller
    <2>4. ResponseInv'
      BY <1>11, <2>1, <2>2 DEF IInv, ResponseInv, Genuine, TxnOf
    <2>5. RequestInv' /\ QueueInv'
      BY <1>11 DEF IInv, RequestInv, QueueInv, Genuine, TxnOf, caller
    <2>6. TxnInv' /\ ExecutedInv' /\ WrongAnswerIsOld' /\ AnswerWasExecuted'
      BY <1>11, CallerUnchanged
    <2>7. QED
      BY <2>3, <2>4, <2>5, <2>6 DEF IInv
  <1>12. ASSUME NEW e \in Events, PeerNotify(e)
         PROVE  IInv'
    BY <1>11, <1>12 DEF PeerNotify, session, IInv, TypeOK
  <1>13. CASE Malformed
    BY <1>11, <1>13 DEF Malformed, session, IInv, TypeOK
  <1>14. ASSUME UNCHANGED <<session, caller, executed, notified, heard, spurious>>,
                copies' \in Nat,
                toPeer' \in Seq(Messages), toHost' \in Seq(Messages),
                \A j \in DOMAIN toPeer' : \E k \in DOMAIN toPeer : toPeer'[j] = toPeer[k],
                \A j \in DOMAIN toHost' : \E k \in DOMAIN toHost : toHost'[j] = toHost[k]
         PROVE  IInv'
    <2>1. TypeOK'
      BY <1>14 DEF IInv, TypeOK, session, caller
    <2>2. RequestInv' /\ ResponseInv' /\ QueueInv'
      BY <1>14 DEF IInv, RequestInv, ResponseInv, QueueInv, Genuine, TxnOf, session, caller
    <2>3. TxnInv' /\ ExecutedInv' /\ WrongAnswerIsOld' /\ AnswerWasExecuted'
      BY <1>14, CallerUnchanged DEF session
    <2>4. QED
      BY <2>1, <2>2, <2>3 DEF IInv
  <1>15. CASE Lose
    <2>1. UNCHANGED <<session, caller, executed, notified, heard, spurious>> /\ copies' \in Nat
      BY <1>15 DEF Lose, history, IInv, TypeOK
    <2>2. CASE (\E i \in DOMAIN toPeer : toPeer' = RemoveAt(toPeer, i)) /\ toHost' = toHost
      BY <2>1, <2>2, <1>14, <1>q, RemoveAtElements
    <2>3. CASE (\E i \in DOMAIN toHost : toHost' = RemoveAt(toHost, i)) /\ toPeer' = toPeer
      BY <2>1, <2>3, <1>14, <1>q, RemoveAtElements
    <2>4. QED
      BY <1>15, <2>2, <2>3 DEF Lose
  <1>16. CASE Duplicate
    <2>1. UNCHANGED <<session, caller, executed, notified, heard, spurious>> /\ copies' \in Nat
      BY <1>16 DEF Duplicate, IInv, TypeOK
    <2>2. ASSUME NEW s \in Seq(Messages), NEW i \in DOMAIN s
          PROVE  /\ Append(s, s[i]) \in Seq(Messages)
                 /\ \A j \in DOMAIN Append(s, s[i]) :
                        \E k \in DOMAIN s : Append(s, s[i])[j] = s[k]
      <3>1. s[i] \in Messages
        OBVIOUS
      <3>2. QED
        BY <3>1, AppendElements
    <2>3. CASE (\E i \in DOMAIN toPeer : toPeer' = Append(toPeer, toPeer[i])) /\ toHost' = toHost
      BY <2>1, <2>2, <2>3, <1>14, <1>q
    <2>4. CASE (\E i \in DOMAIN toHost : toHost' = Append(toHost, toHost[i])) /\ toPeer' = toPeer
      BY <2>1, <2>2, <2>4, <1>14, <1>q
    <2>5. QED
      BY <1>16, <2>3, <2>4 DEF Duplicate
  <1>17. CASE UNCHANGED vars
    <2>1. UNCHANGED <<session, caller, toPeer, toHost, executed, notified, heard, spurious, copies>>
      BY <1>17 DEF vars, history
    <2>2. QED
      BY <2>1, <1>14, <1>q DEF IInv, TypeOK
  <1>18. QED
    BY <1>1, <1>2, <1>3, <1>4, <1>5, <1>6, <1>7, <1>8, <1>9, <1>10, <1>12, <1>13, <1>15, <1>16, <1>17
       DEF Next, Caller, Recv_response, Listener, Environment

\* The inductive invariant holds in every reachable state.
THEOREM Invariance == Spec => []IInv
  BY InitIInv, NextIInv, PTL DEF Spec

\* Type correctness: next_txn() never leaves 1 .. _TXN_MAX, and every message
\* that is queued or in flight is well formed.
THEOREM TypeCorrect == Spec => []TypeOK
  <1>1. IInv => TypeOK
    BY DEF IInv
  <1>2. QED
    BY <1>1, Invariance, PTL

\* recv_response() confuses two calls only if at least _TXN_MAX calls lie
\* between them, over any transport, however late, lost, repeated or reordered
\* the messages are.
THEOREM AnswerMatches == Spec => []WrongAnswerIsOld
  <1>1. IInv => WrongAnswerIsOld
    BY DEF IInv
  <1>2. QED
    BY <1>1, Invariance, PTL

\* rpc() returns only results of requests that the peer has executed.
THEOREM NoInventedAnswer == Spec => []AnswerWasExecuted
  <1>1. IInv => AnswerWasExecuted
    BY DEF IInv
  <1>2. QED
    BY <1>1, Invariance, PTL
-----------------------------------------------------------------------------
\* The outcome of one call changes.
LEMMA OutcomeChange ==
    ASSUME IInv, NEW n \in Calls, NEW o \in {"pending", "returned"} \cup Failures,
           outcome' = [outcome EXCEPT ![n] = o]
    PROVE  clientOutcome' =
               [clientOutcome EXCEPT ![n] = IF o \in Failures THEN "failed" ELSE o]
  BY DEF IInv, TypeOK, clientOutcome

\* A call that ends with an exception has failed.
LEMMA RaiseIsFail ==
    ASSUME IInv, NEW n \in Calls, NEW o \in Failures, outcome[n] \in {"new", "pending"},
           outcome' = [outcome EXCEPT ![n] = o], UNCHANGED <<answer, executed>>
    PROVE  Client!Fail(n)
  <1>1. clientOutcome[n] \in {"new", "pending"}
    BY DEF clientOutcome, Failures
  <1>2. clientOutcome' = [clientOutcome EXCEPT ![n] = "failed"]
    BY OutcomeChange
  <1>3. QED
    BY <1>1, <1>2 DEF Client!Fail

\* Every step of the session is a step of the abstract client, or none.
LEMMA NextRefines == IInv /\ [Next]_vars => [Client!Next]_(Client!vars)
  <1> SUFFICES ASSUME IInv, [Next]_vars
               PROVE  Client!Next \/ UNCHANGED Client!vars
    OBVIOUS
  <1> USE BoundsAssumption, TxnMaxAssumption
  <1>t. /\ calls \in Nat
        /\ outcome \in [Calls -> {"new", "pending", "returned"} \cup Failures]
        /\ \A n \in Calls : outcome[n] = "new" <=> n > calls
        /\ pc # "idle" => calls \in Calls /\ outcome[calls] = "pending"
    BY DEF IInv, TypeOK, TxnInv, Calls
  <1>s. ASSUME UNCHANGED <<outcome, answer, executed>>
        PROVE  UNCHANGED Client!vars
    BY <1>s DEF Client!vars, clientOutcome
  <1>f. ASSUME NEW n \in Calls, NEW o \in Failures, outcome[n] \in {"new", "pending"},
               outcome' = [outcome EXCEPT ![n] = o], UNCHANGED <<answer, executed>>
        PROVE  Client!Next
    BY <1>f, RaiseIsFail DEF Client!Next
  <1>1. ASSUME NEW f \in Callable, send_request(f)
        PROVE  Client!Next
    <2>1. /\ calls + 1 \in Calls /\ outcome[calls + 1] = "new"
          /\ outcome' = [outcome EXCEPT ![calls + 1] = "pending"]
          /\ UNCHANGED <<answer, executed>>
      BY <1>1, <1>t DEF send_request, Calls, history
    <2>2. clientOutcome[calls + 1] = "new"
      BY <2>1 DEF clientOutcome, Failures
    <2>3. clientOutcome' = [clientOutcome EXCEPT ![calls + 1] = "pending"]
      BY <2>1, OutcomeChange DEF Failures
    <2>4. Client!Invoke(calls + 1)
      BY <2>1, <2>2, <2>3 DEF Client!Invoke
    <2>5. QED
      BY <2>1, <2>4 DEF Client!Next
  <1>2. CASE send_request_raises
    <2>1. /\ calls + 1 \in Calls /\ outcome[calls + 1] = "new"
          /\ outcome' = [outcome EXCEPT ![calls + 1] = "send"]
          /\ UNCHANGED <<answer, executed>>
      BY <1>2, <1>t DEF send_request_raises, Calls, history
    <2>2. QED
      BY <2>1, <1>f DEF Failures
  <1>3. ASSUME NEW why \in Failures, Raise(why), pc # "idle", UNCHANGED executed
        PROVE  Client!Next
    BY <1>3, <1>t, <1>f DEF Raise
  <1>4. CASE CheckListener
    BY <1>4, <1>3, <1>s DEF CheckListener, Failures, history
  <1>5. CASE Timeout
    BY <1>5, <1>3 DEF Timeout, Failures, history
  <1>6. CASE GetItem
    <2> DEFINE item == Head(q)
    <2>1. pc = "wait" /\ q # <<>> /\ UNCHANGED executed
      BY <1>6 DEF GetItem, history
    <2>2. CASE /\ item # Exc
               /\ IsExpected(item)
               /\ outcome' = [outcome EXCEPT ![calls] = "returned"]
               /\ answer' = [answer EXCEPT ![calls] = item.req]
               /\ pc' = "idle"
      <3>1. q \in Seq(Messages) /\ \E k \in DOMAIN q : item = q[k]
        BY <2>1, TailElements DEF IInv, TypeOK
      <3>2. calls \in Calls /\ outcome[calls] = "pending" /\ txn = TxnOf(calls)
        BY <2>1, <1>t DEF IInv, TxnInv
      <3>3. Genuine(item)
        BY <3>1, <2>2 DEF IInv, QueueInv
      <3> HIDE DEF item
      <3>4. /\ item.req \in executed /\ item.req \in 1 .. calls
            /\ TxnOf(item.req) = TxnOf(calls)
        BY <3>2, <3>3, <2>2 DEF Genuine, IsExpected, IInv, ExecutedInv
      <3>5. Client!Confusable(calls, item.req)
        BY <3>4, <1>t, SameTxn DEF Client!Confusable
      <3>6. clientOutcome[calls] = "pending"
        BY <3>2 DEF clientOutcome, Failures
      <3>7. clientOutcome' = [clientOutcome EXCEPT ![calls] = "returned"]
        BY <3>2, <2>2, OutcomeChange DEF Failures
      <3>8. Client!Return(calls, item.req)
        BY <3>4, <3>5, <3>6, <3>7, <2>1, <2>2 DEF Client!Return
      <3>9. item.req \in Calls
        BY <3>4, <3>2 DEF Calls
      <3>10. QED
        BY <3>2, <3>8, <3>9 DEF Client!Next
    <2>3. QED
      BY <1>6, <2>1, <2>2, <1>3 DEF GetItem, Failures
  <1>7. ASSUME NEW i \in DOMAIN toPeer, PeerProcess(i)
        PROVE  Client!Next \/ UNCHANGED Client!vars
    <2> DEFINE m == toPeer[i]
    <2>1. /\ UNCHANGED <<outcome, answer>>
          /\ executed' = IF Executes(m) /\ m.req # 0 THEN executed \cup {m.req} ELSE executed
      BY <1>7 DEF PeerProcess, caller
    <2>2. m \in Messages /\ (m.req # 0 => m.req \in 1 .. calls)
      <3>1. toPeer \in Seq(Messages)
        BY DEF IInv, TypeOK
      <3>2. m \in Messages
        BY <3>1
      <3>3. IF m.txn = 0 THEN m.req = 0 ELSE m.req \in 1 .. calls /\ m.txn = TxnOf(m.req)
        BY DEF IInv, RequestInv
      <3>4. QED
        BY <3>2, <3>3
    <2> HIDE DEF m
    <2>3. CASE executed' = executed
      BY <2>1, <2>3, <1>s
    <2>4. CASE m.req # 0 /\ executed' = executed \cup {m.req}
      <3>1. m.req \in Calls /\ outcome[m.req] # "new"
        <4>1. m.req \in Calls /\ m.req \in Nat /\ ~ (m.req > calls)
          BY <2>2, <2>4, <1>t DEF IInv, TypeOK, Calls
        <4>2. QED
          BY <4>1, <1>t
      <3>2. clientOutcome[m.req] # "new" /\ clientOutcome' = clientOutcome
        BY <3>1, <2>1 DEF clientOutcome
      <3>3. Client!Execute(m.req)
        BY <3>2, <2>1, <2>4 DEF Client!Execute
      <3>4. QED
        BY <3>1, <3>3 DEF Client!Next
    <2>5. QED
      BY <2>1, <2>3, <2>4
  <1>8. ASSUME \/ \E f \in Notes : send_notif(f)
               \/ Listener
               \/ \E e \in Events : PeerNotify(e)
               \/ Malformed \/ Lose \/ Duplicate
               \/ UNCHANGED vars
        PROVE  UNCHANGED Client!vars
    <2>1. UNCHANGED <<outcome, answer, executed>>
      BY <1>8 DEF send_notif, Listener, receiver, receiver_error, CallbackReturns,
                  CallbackRaises, PeerNotify, Malformed, Lose, Duplicate, vars, caller, history
    <2>2. QED
      BY <2>1, <1>s
  <1>9. QED
    BY <1>1, <1>2, <1>4, <1>5, <1>6, <1>7, <1>8
       DEF Next, Caller, Recv_response, Environment

\* PySession implements RpcClient with a window of _TXN_MAX calls.
THEOREM ImplementsClient == Spec => ClientSpec
  <1>1. Init => Client!Init
    BY DEF Init, Client!Init, Client!NoAnswer, clientOutcome, Failures
  <1>2. IInv /\ [Next]_vars => [Client!Next]_(Client!vars)
    BY NextRefines
  <1>3. QED
    BY <1>1, <1>2, Invariance, PTL DEF Spec, ClientSpec, Client!Spec
-----------------------------------------------------------------------------
\* Once the listener thread has ended: the calls that were not begun then have
\* still not waited.
NotWaited(n) ==
    /\ listener = "dead"
    /\ \/ outcome[n] \in {"new", "send", "listener"}
       \/ outcome[n] = "pending" /\ pc = "sent" /\ n = calls

\* Nothing restarts the listener, and recv_response() looks at it first.
LEMMA NotWaitedStep ==
    ASSUME IInv, [Next]_vars, NEW n \in Calls, NotWaited(n)
    PROVE  NotWaited(n)'
  <1>0. /\ outcome \in [Calls -> {"new", "pending", "returned"} \cup Failures]
        /\ calls \in 0 .. MaxCalls /\ MaxCalls \in Nat
        /\ pc # "idle" => calls > 0 /\ outcome[calls] = "pending"
        /\ \A k \in Calls : outcome[k] = "new" <=> k > calls
    BY BoundsAssumption DEF IInv, TypeOK, TxnInv
  <1>1. ASSUME outcome' = outcome, listener' = listener, pc' = pc, calls' = calls
        PROVE  NotWaited(n)'
    BY <1>1 DEF NotWaited
  <1>2. ASSUME NEW f \in Callable, send_request(f)
        PROVE  NotWaited(n)'
    BY <1>0, <1>2 DEF send_request, NotWaited, Calls
  <1>3. CASE send_request_raises
    BY <1>0, <1>3 DEF send_request_raises, NotWaited, Calls
  <1>4. CASE CheckListener
    <2>1. listener = "dead" /\ listener' = listener
      BY <1>4 DEF CheckListener, session, NotWaited
    <2>2. outcome' = [outcome EXCEPT ![calls] = "listener"] /\ pc = "sent"
      BY <1>4, <2>1 DEF CheckListener, Raise, ListenerAlive
    <2>3. n = calls => outcome'[n] = "listener"
      BY <1>0, <2>2
    <2>4. n # calls => outcome'[n] = outcome[n] /\ outcome[n] # "pending"
      BY <1>0, <2>2 DEF NotWaited
    <2>5. QED
      BY <2>1, <2>3, <2>4 DEF NotWaited
  <1>5. CASE GetItem
    <2>1. pc = "wait" /\ listener' = listener
      BY <1>5 DEF GetItem
    <2>2. n # calls
      BY <1>0, <2>1 DEF NotWaited
    <2>3. \E why \in Failures \cup {"returned"} : outcome' = [outcome EXCEPT ![calls] = why]
      BY <1>5 DEF GetItem, Raise, Failures
    <2>4. outcome'[n] = outcome[n]
      BY <1>0, <2>2, <2>3
    <2>5. QED
      BY <2>1, <2>4 DEF NotWaited
  <1>6. CASE Timeout
    BY <1>0, <1>6 DEF Timeout, Raise, session, NotWaited, Calls
  <1>7. ASSUME NEW f \in Notes, send_notif(f)
        PROVE  NotWaited(n)'
    BY <1>1, <1>7 DEF send_notif, session, caller
  <1>8. CASE Listener
    BY <1>1, <1>8 DEF Listener, receiver, receiver_error, CallbackReturns, CallbackRaises, NotWaited, caller
  <1>9. CASE Environment
    BY <1>1, <1>9 DEF Environment, PeerProcess, PeerNotify, Malformed, Lose, Duplicate, session, caller
  <1>10. CASE UNCHANGED vars
    BY <1>1, <1>10 DEF vars, session, caller
  <1>11. QED
    BY <1>2, <1>3, <1>4, <1>5, <1>6, <1>7, <1>8, <1>9, <1>10 DEF Next, Caller, Recv_response

\* A call made after the listener thread has ended is told so by recv_response()
\* or fails to send: it never waits for its timeout or takes a leftover of the
\* queue, whatever else happens.
THEOREM DeadListenerIsNoticed == Spec => DeadListenerFailsFast
  <1>1. ASSUME NEW n \in Calls
        PROVE  Spec => [](listener = "dead" /\ outcome[n] = "new"
                            => [](outcome[n] \in {"new", "pending", "send", "listener"}))
    <2>1. listener = "dead" /\ outcome[n] = "new" => NotWaited(n)
      BY DEF NotWaited
    <2>2. NotWaited(n) => outcome[n] \in {"new", "pending", "send", "listener"}
      BY DEF NotWaited
    <2>3. IInv /\ [Next]_vars /\ NotWaited(n) => NotWaited(n)'
      BY NotWaitedStep
    <2>4. QED
      BY <2>1, <2>2, <2>3, Invariance, PTL DEF Spec
  <1>2. QED
    BY <1>1 DEF DeadListenerFailsFast
-----------------------------------------------------------------------------
\* The messages to the peer that it answers, those to the host that receiver()
\* puts into the queue, and the calls that have taken no item although their
\* request was sent.
Requests == {m \in Messages : m.txn # 0}
Queueable == {m \in Messages : ~ (m.id \in PyIds /\ m.txn = 0)}
Unanswered == {n \in Calls : outcome[n] \in {"pending", "timeout", "listener"}}

\* The host sends no responses, and no notification that it does not know.
PeerInv ==
    \A i \in DOMAIN toPeer :
        ~ toPeer[i].resp /\ (toPeer[i].txn = 0 => toPeer[i].id \in PyIds)

\* OutOfStepForGood in terms of CountIn.
Items(queue, host, peer) ==
    Len(queue) + CountIn(host, Queueable) + CountIn(peer, Requests)
Balance == Items(q, toHost, toPeer) = spurious + Cardinality(Unanswered)

LEMMA BalanceIsStep ==
    ASSUME IInv, Reliable
    PROVE  OutOfStepForGood <=> Balance
  <1>1. q \in Seq(Messages) /\ toPeer \in Seq(Messages) /\ toHost \in Seq(Messages)
    BY DEF IInv, TypeOK
  <1>2. {i \in DOMAIN toPeer : toPeer[i].txn # 0} = {i \in DOMAIN toPeer : toPeer[i] \in Requests}
    BY <1>1 DEF Requests
  <1>3. {i \in DOMAIN toHost : ~ (toHost[i].id \in PyIds /\ toHost[i].txn = 0)} =
            {i \in DOMAIN toHost : toHost[i] \in Queueable}
    BY <1>1 DEF Queueable
  <1>4. Outstanding = Items(q, toHost, toPeer)
    BY <1>2, <1>3 DEF Outstanding, Items, CountIn
  <1>5. QED
    BY <1>4 DEF OutOfStepForGood, Balance, Unanswered

\* What the counts are.
LEMMA CountsAreNumbers ==
    ASSUME IInv
    PROVE  /\ Len(q) \in Nat /\ CountIn(toHost, Queueable) \in Nat
           /\ CountIn(toPeer, Requests) \in Nat /\ spurious \in Nat
           /\ IsFiniteSet(Unanswered) /\ Cardinality(Unanswered) \in Nat
  <1>1. /\ q \in Seq(Messages) /\ toPeer \in Seq(Messages) /\ toHost \in Seq(Messages)
        /\ spurious \in Nat
    BY DEF IInv, TypeOK
  <1>2. IsFiniteSet(Calls) /\ Unanswered \subseteq Calls
    BY BoundsAssumption, FS_Interval DEF Calls, Unanswered
  <1>3. IsFiniteSet(Unanswered)
    BY <1>2, FS_Subset
  <1>4. CountIn(toHost, Queueable) \in Nat /\ CountIn(toPeer, Requests) \in Nat
    BY <1>1, CountType
  <1>5. QED
    BY <1>1, <1>3, <1>4, FS_CardinalityType

\* One call gets another outcome.
LEMMA UnansweredChange ==
    ASSUME IInv, NEW n \in Calls, NEW o, outcome' = [outcome EXCEPT ![n] = o]
    PROVE  LET W == {"pending", "timeout", "listener"}
               before == Cardinality(Unanswered)
               after == Cardinality(Unanswered')
           IN  /\ before \in Nat
               /\ outcome[n] \notin W /\ o \in W => after = before + 1
               /\ outcome[n] \notin W /\ o \notin W => after = before
               /\ outcome[n] \in W /\ o \in W => after = before
               /\ outcome[n] \in W /\ o \notin W => after = before - 1
  <1> DEFINE W == {"pending", "timeout", "listener"}
             before == Cardinality(Unanswered)
             after == Cardinality(Unanswered')
  <1>1. outcome \in [Calls -> {"new", "pending", "returned"} \cup Failures]
    BY DEF IInv, TypeOK
  <1>2. IsFiniteSet(Unanswered) /\ before \in Nat
    BY CountsAreNumbers
  <1>3. n \in Unanswered <=> outcome[n] \in W
    BY DEF Unanswered
  <1>4. o \in W => Unanswered' = Unanswered \cup {n}
    BY <1>1 DEF Unanswered, Calls
  <1>5. o \notin W => Unanswered' = Unanswered \ {n}
    BY <1>1 DEF Unanswered, Calls
  <1>6. o \in W => after = IF n \in Unanswered THEN before ELSE before + 1
    BY <1>2, <1>4, FS_AddElement
  <1>7. o \notin W => after = IF n \in Unanswered THEN before - 1 ELSE before
    BY <1>2, <1>5, FS_RemoveElement
  <1> HIDE DEF W, before, after
  <1>8. /\ before \in Nat
        /\ outcome[n] \notin W /\ o \in W => after = before + 1
        /\ outcome[n] \notin W /\ o \notin W => after = before
        /\ outcome[n] \in W /\ o \in W => after = before
        /\ outcome[n] \in W /\ o \notin W => after = before - 1
    BY <1>2, <1>3, <1>6, <1>7
  <1>9. QED
    BY <1>8 DEF W, before, after

\* What the C side sends for a message that is no response.
LEMMA ReplyCounts ==
    ASSUME NEW m \in Messages, ~ m.resp
    PROVE  /\ m.txn # 0 => \E r \in Messages : compost_msg_process(m) = <<r>> /\ r.txn = m.txn
           /\ m.txn = 0 => \/ compost_msg_process(m) = <<>>
                           \/ \E r \in Messages : /\ compost_msg_process(m) = <<r>>
                                                  /\ r.txn = 0 /\ r.id = m.id
  <1> DEFINE r == compost_invoke_switch(tx_init(m), m)
  <1>1. ~ IsStrayResponse(m)
    BY DEF IsStrayResponse
  <1>2. r \in Messages /\ r.txn = m.txn /\ (r.wlen = 0 \/ r.id = m.id)
    <2>1. CASE m.id \in Functions
      <3>1. r = [wlen |-> IF m.id \in Valued THEN 1 ELSE 0, txn |-> m.txn,
                 resp |-> TRUE, id |-> m.id, req |-> m.req]
        BY <2>1 DEF compost_invoke_switch, invoke, tx_init
      <3>2. QED
        BY <2>1, <3>1 DEF Messages, Ids
    <2>2. CASE m.id \notin Functions
      <3>1. r = [wlen |-> 0, txn |-> m.txn,
                 resp |-> TRUE, id |-> UNKNOWN_MSG, req |-> m.req]
        BY <2>2 DEF compost_invoke_switch, compost_unknown_msg, tx_init
      <3>2. QED
        BY <2>2, <3>1, IdsAssumption DEF Messages, Ids
    <2>3. QED
      BY <2>1, <2>2
  <1>3. compost_msg_process(m) = IF r.txn = 0 /\ r.wlen = 0 THEN <<>> ELSE <<r>>
    BY <1>1 DEF compost_msg_process
  <1> HIDE DEF r
  <1>4. QED
    BY <1>2, <1>3

\* PeerInv is kept: only requests and notifications are sent, one at a time.
LEMMA PeerStep ==
    ASSUME IInv, [Next]_vars, PeerInv
    PROVE  PeerInv'
  <1>q. toPeer \in Seq(Messages)
    BY DEF IInv, TypeOK
  <1>1. ASSUME toPeer' = toPeer PROVE PeerInv'
    BY <1>1 DEF PeerInv
  <1>2. ASSUME NEW m \in Messages, toPeer' = Append(toPeer, m), ~ m.resp,
               m.txn = 0 => m.id \in PyIds
        PROVE  PeerInv'
    <2>1. \A j \in DOMAIN toPeer' : toPeer'[j] = m \/ \E k \in DOMAIN toPeer : toPeer'[j] = toPeer[k]
      BY <1>2, <1>q, AppendElements
    <2>2. QED
      BY <1>2, <2>1 DEF PeerInv
  <1>3. ASSUME NEW i \in DOMAIN toPeer, toPeer' = RemoveAt(toPeer, i)
        PROVE  PeerInv'
    <2>1. \A j \in DOMAIN toPeer' : \E k \in DOMAIN toPeer : toPeer'[j] = toPeer[k]
      BY <1>3, <1>q, RemoveAtElements
    <2>2. QED
      BY <2>1 DEF PeerInv
  <1>4. ASSUME NEW f \in Callable, send_request(f)
        PROVE  PeerInv'
    <2> DEFINE m == request(f)
    <2>1. toPeer' = Append(toPeer, m)
      BY <1>4 DEF send_request
    <2>2. m \in Messages /\ ~ m.resp /\ m.id \in PyIds
      <3>1. next_txn \in 0 .. TxnMax /\ calls + 1 \in 0 .. MaxCalls
        BY <1>4, NextTxn, BoundsAssumption DEF send_request, IInv, TypeOK, TxnInv
      <3>2. QED
        BY <3>1, IdsAssumption DEF request, Messages, Ids
    <2> HIDE DEF m
    <2>3. QED
      BY <2>1, <2>2, <1>2
  <1>5. ASSUME NEW f \in Notes, send_notif(f)
        PROVE  PeerInv'
    <2> DEFINE m == notification(f)
    <2>1. toPeer' = Append(toPeer, m)
      BY <1>5 DEF send_notif
    <2>2. m \in Messages /\ ~ m.resp /\ m.id \in PyIds
      BY IdsAssumption, TxnMaxAssumption, BoundsAssumption DEF notification, Messages, Ids
    <2> HIDE DEF m
    <2>3. QED
      BY <2>1, <2>2, <1>2
  <1>6. CASE send_request_raises \/ Recv_response
    BY <1>1, <1>6 DEF send_request_raises, Recv_response, CheckListener, GetItem, Timeout
  <1>7. CASE Listener
    BY <1>1, <1>7 DEF Listener, receiver, receiver_error, CallbackReturns, CallbackRaises
  <1>8. CASE Environment
    <2>1. ASSUME NEW i \in DOMAIN toPeer, PeerProcess(i) PROVE PeerInv'
      BY <1>3, <2>1 DEF PeerProcess
    <2>2. CASE Malformed \/ \E e \in Events : PeerNotify(e)
      BY <1>1, <2>2 DEF Malformed, PeerNotify
    <2>3. CASE Lose
      BY <1>1, <1>3, <2>3 DEF Lose
    <2>4. CASE Duplicate
      <3>1. ASSUME NEW i \in DOMAIN toPeer, toPeer' = Append(toPeer, toPeer[i]) PROVE PeerInv'
        <4>1. /\ toPeer[i] \in Messages /\ ~ toPeer[i].resp
              /\ toPeer[i].txn = 0 => toPeer[i].id \in PyIds
          BY <1>q DEF PeerInv
        <4>2. QED
          BY <3>1, <4>1, <1>2
      <3>2. QED
        BY <1>1, <2>4, <3>1 DEF Duplicate
    <2>5. QED
      BY <1>8, <2>1, <2>2, <2>3, <2>4 DEF Environment
  <1>9. CASE UNCHANGED vars
    BY <1>1, <1>9 DEF vars
  <1>10. QED
    BY <1>4, <1>5, <1>6, <1>7, <1>8, <1>9 DEF Next, Caller

\* Over a byte stream, every step moves both sides of the balance alike.
LEMMA BalanceStep ==
    ASSUME IInv, PeerInv, Reliable, [Next]_vars, Balance
    PROVE  Balance'
  <1> DEFINE a == Len(q)
             b == CountIn(toHost, Queueable)
             c == CountIn(toPeer, Requests)
             w == Cardinality(Unanswered)
  <1>q. /\ q \in Seq(Messages) /\ toPeer \in Seq(Messages) /\ toHost \in Seq(Messages)
        /\ calls \in Nat
    BY DEF IInv, TypeOK
  <1>0. /\ a \in Nat /\ b \in Nat /\ c \in Nat /\ w \in Nat /\ spurious \in Nat
        /\ a + b + c = spurious + w
    BY CountsAreNumbers DEF Balance, Items
  <1>b. ASSUME Len(q') + CountIn(toHost', Queueable) + CountIn(toPeer', Requests)
                   = spurious' + Cardinality(Unanswered')
        PROVE  Balance'
    BY <1>b DEF Balance, Items, Queueable, Requests, Messages, Ids
  <1>u. ASSUME outcome' = outcome PROVE Cardinality(Unanswered') = w
    BY <1>u DEF Unanswered, Calls
  <1>c. pc # "idle" => calls \in Calls /\ outcome[calls] = "pending"
    BY BoundsAssumption DEF IInv, TypeOK, TxnInv, Calls
  <1>1. ASSUME NEW f \in Callable, send_request(f)
        PROVE  Balance'
    <2> DEFINE m == request(f)
    <2>1. /\ toPeer' = Append(toPeer, m) /\ q' = q /\ toHost' = toHost /\ spurious' = spurious
          /\ outcome' = [outcome EXCEPT ![calls + 1] = "pending"]
          /\ calls + 1 \in Calls
      BY <1>1, <1>q, BoundsAssumption DEF send_request, history, Calls
    <2>2. m \in Messages /\ m \in Requests
      <3>1. next_txn \in 1 .. TxnMax /\ calls + 1 \in 0 .. MaxCalls
        BY <1>1, <2>1, NextTxn, BoundsAssumption DEF Calls, IInv, TypeOK, TxnInv
      <3>2. QED
        BY <3>1, IdsAssumption, TxnMaxAssumption DEF request, Messages, Ids, Requests
    <2>3. outcome[calls + 1] = "new"
      BY <2>1, <1>q DEF IInv, TxnInv
    <2>4. Cardinality(Unanswered') = w + 1
      BY <2>1, <2>3, UnansweredChange
    <2> HIDE DEF m
    <2>5. CountIn(toPeer', Requests) = c + 1
      BY <2>1, <2>2, <1>q, CountAppend
    <2> HIDE DEF a, b, c, w
    <2>6. Len(q') = a /\ CountIn(toHost', Queueable) = b
      BY <2>1 DEF a, b
    <2>7. QED
      BY <2>1, <2>4, <2>5, <2>6, <1>0, <1>b
  <1>2. CASE send_request_raises
    <2>1. /\ toPeer' = toPeer /\ q' = q /\ toHost' = toHost /\ spurious' = spurious
          /\ outcome' = [outcome EXCEPT ![calls + 1] = "send"]
          /\ calls + 1 \in Calls
      BY <1>2, <1>q, BoundsAssumption DEF send_request_raises, history, Calls
    <2>2. outcome[calls + 1] = "new"
      BY <2>1, <1>q DEF IInv, TxnInv
    <2>3. /\ outcome[calls + 1] \notin {"pending", "timeout", "listener"}
          /\ "send" \notin {"pending", "timeout", "listener"}
      BY <2>2
    <2>4. Cardinality(Unanswered') = w
      BY <2>1, <2>3, UnansweredChange
    <2>5. QED
      BY <2>1, <2>4, <1>0, <1>b
  <1>3. ASSUME UNCHANGED <<q, toPeer, toHost, spurious>>, pc # "idle",
               NEW o \in {"timeout", "listener"}, outcome' = [outcome EXCEPT ![calls] = o]
        PROVE  Balance'
    <2>1. Cardinality(Unanswered') = w
      BY <1>3, <1>c, UnansweredChange
    <2>2. QED
      BY <1>3, <2>1, <1>0, <1>b
  <1>4. ASSUME UNCHANGED <<q, toPeer, toHost, spurious, outcome>> PROVE Balance'
    BY <1>4, <1>0, <1>b, <1>u
  <1>5. CASE CheckListener
    BY <1>3, <1>4, <1>5 DEF CheckListener, Raise, session, history
  <1>6. CASE Timeout
    BY <1>3, <1>6 DEF Timeout, Raise, session, history
  <1>7. CASE GetItem
    <2>1. /\ UNCHANGED <<toPeer, toHost, spurious>> /\ q # <<>> /\ q' = Tail(q) /\ pc = "wait"
          /\ \E o \in {"exception", "desync", "returned"} : outcome' = [outcome EXCEPT ![calls] = o]
      BY <1>7 DEF GetItem, Raise, history
    <2>2. Cardinality(Unanswered') = w - 1
      BY <2>1, <1>c, UnansweredChange
    <2>3. Len(q') = a - 1
      BY <2>1, <1>q, HeadTailProperties
    <2> HIDE DEF a, b, c, w
    <2>4. CountIn(toHost', Queueable) = b /\ CountIn(toPeer', Requests) = c /\ spurious' = spurious
      BY <2>1 DEF b, c
    <2>5. QED
      BY <2>2, <2>3, <2>4, <1>0, <1>b
  <1>8. ASSUME NEW f \in Notes, send_notif(f)
        PROVE  Balance'
    <2> DEFINE m == notification(f)
    <2>1. toPeer' = Append(toPeer, m) /\ UNCHANGED <<q, toHost, spurious, outcome>>
      BY <1>8 DEF send_notif, session, caller, history
    <2>2. m \in Messages /\ m \notin Requests
      BY IdsAssumption, TxnMaxAssumption, BoundsAssumption DEF notification, Messages, Ids, Requests
    <2> HIDE DEF m
    <2>3. CountIn(toPeer', Requests) = c
      BY <2>1, <2>2, <1>q, CountAppend
    <2>4. QED
      BY <2>1, <2>3, <1>0, <1>b, <1>u
  <1>9. ASSUME NEW i \in DOMAIN toHost, receiver(i)
        PROVE  Balance'
    <2> DEFINE m == toHost[1]
    <2>1. /\ i = 1 /\ toHost # <<>> /\ toHost' = RemoveAt(toHost, 1)
          /\ UNCHANGED <<toPeer, spurious, outcome>>
          /\ \/ IsDispatched(m) /\ q' = q
             \/ ~ IsDispatched(m) /\ q' = Append(q, Queued(m))
      BY <1>9 DEF receiver, caller
    <2>2. m \in Messages
      BY <2>1, <1>q
    <2>3. m \in Queueable <=> ~ IsDispatched(m)
      BY <2>2 DEF Queueable, IsDispatched
    <2>4. /\ CountIn(toHost', Queueable) \in Nat
          /\ m \in Queueable => b = CountIn(toHost', Queueable) + 1
          /\ m \notin Queueable => b = CountIn(toHost', Queueable)
      BY <2>1, <1>q, CountRemoveAt
    <2>5. Queued(m) \in Messages
      BY <2>2, OtherMessages DEF Queued
    <2> HIDE DEF m
    <2>6. /\ IsDispatched(m) => Len(q') = a
          /\ ~ IsDispatched(m) => Len(q') = a + 1
      BY <2>1, <2>5, <1>q
    <2>7. Cardinality(Unanswered') = w /\ CountIn(toPeer', Requests) = c /\ spurious' = spurious
      BY <2>1, <1>u
    <2> HIDE DEF a, b, c, w
    <2>8. QED
      BY <2>3, <2>4, <2>6, <2>7, <1>0, <1>b
  <1>10. CASE receiver_error
    <2>1. q' = Append(q, Exc) /\ UNCHANGED <<toPeer, toHost, outcome>> /\ spurious' = spurious + 1
      BY <1>10 DEF receiver_error, caller
    <2>2. Len(q') = a + 1
      BY <2>1, <1>q, OtherMessages
    <2>3. /\ Cardinality(Unanswered') = w /\ CountIn(toHost', Queueable) = b
          /\ CountIn(toPeer', Requests) = c /\ spurious' = spurious + 1
      BY <2>1, <1>u
    <2> HIDE DEF a, b, c, w
    <2>4. QED
      BY <2>2, <2>3, <1>0, <1>b
  <1>11. CASE CallbackReturns \/ CallbackRaises
    BY <1>4, <1>11 DEF CallbackReturns, CallbackRaises, caller, history
  <1>12. ASSUME NEW i \in DOMAIN toPeer, PeerProcess(i)
         PROVE  Balance'
    <2> DEFINE m == toPeer[1]
    <2>1. /\ i = 1 /\ toPeer # <<>> /\ toPeer' = RemoveAt(toPeer, 1)
          /\ toHost' = toHost \o compost_msg_process(m)
          /\ UNCHANGED <<q, spurious, outcome>>
      BY <1>12 DEF PeerProcess, session, caller
    <2>2. m \in Messages /\ ~ m.resp /\ (m.txn = 0 => m.id \in PyIds)
      BY <2>1, <1>q DEF PeerInv
    <2>3. m \in Requests <=> m.txn # 0
      BY <2>2 DEF Requests
    <2>4. /\ CountIn(toPeer', Requests) \in Nat
          /\ m \in Requests => c = CountIn(toPeer', Requests) + 1
          /\ m \notin Requests => c = CountIn(toPeer', Requests)
      BY <2>1, <1>q, CountRemoveAt
    <2> HIDE DEF m
    <2>5. ASSUME NEW r \in Messages, compost_msg_process(m) = <<r>>
          PROVE  /\ r \in Queueable => CountIn(toHost', Queueable) = b + 1
                 /\ r \notin Queueable => CountIn(toHost', Queueable) = b
      <3>1. toHost' = Append(toHost, r)
        BY <2>1, <2>5, <1>q
      <3>2. QED
        BY <3>1, <1>q, CountAppend
    <2>6. /\ m.txn # 0 => CountIn(toHost', Queueable) = b + 1
          /\ m.txn = 0 => CountIn(toHost', Queueable) = b
      <3>1. CASE m.txn # 0
        <4>1. PICK r \in Messages : compost_msg_process(m) = <<r>> /\ r.txn = m.txn
          BY <2>2, <3>1, ReplyCounts
        <4>2. r \in Queueable
          BY <4>1, <3>1 DEF Queueable
        <4>3. QED
          BY <3>1, <4>1, <4>2, <2>5
      <3>2. CASE m.txn = 0
        <4>1. CASE compost_msg_process(m) = <<>>
          <5>1. toHost' = toHost
            BY <4>1, <2>1, <1>q
          <5>2. QED
            BY <3>2, <5>1
        <4>2. ASSUME NEW r \in Messages, compost_msg_process(m) = <<r>>, r.txn = 0, r.id = m.id
              PROVE  CountIn(toHost', Queueable) = b
          <5>1. r \notin Queueable
            BY <4>2, <3>2, <2>2 DEF Queueable
          <5>2. QED
            BY <4>2, <5>1, <2>5
        <4>3. QED
          BY <3>2, <4>1, <4>2, <2>2, ReplyCounts
      <3>3. QED
        BY <3>1, <3>2
    <2>7. Len(q') = a /\ Cardinality(Unanswered') = w /\ spurious' = spurious
      BY <2>1, <1>u
    <2> HIDE DEF a, b, c, w
    <2>8. QED
      BY <2>3, <2>4, <2>6, <2>7, <1>0, <1>b
  <1>13. ASSUME NEW m \in Messages, toHost' = Append(toHost, m),
                UNCHANGED <<q, toPeer, outcome>>,
                \/ m \in Queueable /\ spurious' = spurious + 1
                \/ m \notin Queueable /\ spurious' = spurious
         PROVE  Balance'
    <2>1. /\ m \in Queueable => CountIn(toHost', Queueable) = b + 1
          /\ m \notin Queueable => CountIn(toHost', Queueable) = b
      BY <1>13, <1>q, CountAppend
    <2>2. Len(q') = a /\ Cardinality(Unanswered') = w /\ CountIn(toPeer', Requests) = c
      BY <1>13, <1>u
    <2> HIDE DEF a, b, c, w
    <2>3. CASE m \in Queueable /\ spurious' = spurious + 1
      BY <2>1, <2>2, <2>3, <1>0, <1>b
    <2>4. CASE m \notin Queueable /\ spurious' = spurious
      BY <2>1, <2>2, <2>4, <1>0, <1>b
    <2>5. QED
      BY <1>13, <2>3, <2>4
  <1>14. ASSUME NEW e \in Events, PeerNotify(e)
         PROVE  Balance'
    <2> DEFINE m == notif_store(e)
    <2>1. /\ toHost' = Append(toHost, m) /\ UNCHANGED <<q, toPeer, outcome>>
          /\ \/ e \in PyIds /\ spurious' = spurious
             \/ e \notin PyIds /\ spurious' = spurious + 1
      BY <1>14 DEF PeerNotify, session, caller
    <2>2. m \in Messages /\ m.id = e /\ m.txn = 0
      BY OtherMessages DEF notif_store
    <2> HIDE DEF m
    <2>3. m \in Queueable <=> e \notin PyIds
      BY <2>2 DEF Queueable
    <2>4. QED
      BY <2>1, <2>2, <2>3, <1>13
  <1>15. CASE Malformed
    <2>1. Short \in Messages /\ Short \in Queueable
      BY OtherMessages, IdsAssumption DEF Queueable, Short
    <2>2. toHost' = Append(toHost, Short) /\ UNCHANGED <<q, toPeer, outcome>> /\ spurious' = spurious + 1
      BY <1>15 DEF Malformed, session, caller
    <2>3. QED
      BY <2>1, <2>2, <1>13
  <1>16. CASE Lose \/ Duplicate
    BY <1>16 DEF Lose, Duplicate
  <1>17. CASE UNCHANGED vars
    BY <1>4, <1>17 DEF vars, session, caller, history
  <1>18. QED
    BY <1>1, <1>2, <1>5, <1>6, <1>7, <1>8, <1>9, <1>10, <1>11, <1>12, <1>14, <1>15, <1>16, <1>17
       DEF Next, Caller, Recv_response, Listener, Environment

\* Over a byte stream the session is out of step by exactly one item for every
\* error and for every call that gave up waiting, at every time.
THEOREM StaysOutOfStep == Spec => []OutOfStepForGood
  <1> DEFINE Inv == PeerInv /\ (Reliable => Balance)
  <1>1. Init => Inv
    <2> SUFFICES ASSUME Init PROVE Inv
      OBVIOUS
    <2>1. q = <<>> /\ toHost = <<>> /\ toPeer = <<>> /\ spurious = 0 /\ Unanswered = {}
      BY DEF Init, Unanswered
    <2>2. {i \in DOMAIN toHost : toHost[i] \in Queueable} = {}
      BY <2>1
    <2>3. {i \in DOMAIN toPeer : toPeer[i] \in Requests} = {}
      BY <2>1
    <2>4. CountIn(toHost, Queueable) = 0 /\ CountIn(toPeer, Requests) = 0
      BY <2>2, <2>3, FS_EmptySet DEF CountIn
    <2>5. Len(q) = 0 /\ Cardinality(Unanswered) = 0
      BY <2>1, FS_EmptySet
    <2>6. Balance
      BY <2>1, <2>4, <2>5 DEF Balance, Items
    <2>7. QED
      BY <2>1, <2>6 DEF PeerInv
  <1>2. IInv /\ Inv /\ [Next]_vars => Inv'
    <2>1. IInv /\ PeerInv /\ [Next]_vars => PeerInv'
      BY PeerStep
    <2>2. Reliable /\ IInv /\ PeerInv /\ Balance /\ [Next]_vars => Balance'
      BY BalanceStep
    <2>3. QED
      BY <2>1, <2>2
  <1>3. IInv /\ Inv => OutOfStepForGood
    <2>1. CASE Reliable
      BY <2>1, BalanceIsStep
    <2>2. CASE ~ Reliable
      BY <2>2 DEF OutOfStepForGood
    <2>3. QED
      BY <2>1, <2>2
  <1>4. QED
    <2> HIDE DEF Inv
    <2>1. QED
      BY <1>1, <1>2, <1>3, Invariance, PTL DEF Spec
=============================================================================
