----------------------------- MODULE PySession -----------------------------
(***************************************************************************)
(* The Python client: class _Session, between the application thread that  *)
(* calls rpc() and send_notif(), the listener thread that runs receiver(), *)
(* and the queue that is all they share.  The peer at the other end of the *)
(* transport is the generated C side, CServer.                             *)
(*                                                                         *)
(* The session supports one calling thread: nothing guards last_txn or the *)
(* queue against a second one.                                             *)
(***************************************************************************)
EXTENDS CServer, FiniteSets, SequencesExt

CONSTANTS
    TxnMax,         \* _TXN_MAX
    PyIds,          \* the rpc_ids in self.rpcs
    Callable,       \* those of them the application calls
    Notes,          \* those of them it sends as notifications
    Events,         \* the notifications the peer sends
    Reliable,       \* TRUE: byte stream.  FALSE: datagrams (UDP, raw Ethernet)
    MaxCalls,       \* bound: calls of rpc()
    MaxNotifs,      \* bound: notifications, each way
    MaxSpurious,    \* bound: transport errors and malformed messages
    MaxCopies       \* bound: duplicated datagrams

ASSUME TxnMaxAssumption == TxnMax \in Nat \ {0}
ASSUME BoundsAssumption ==
    /\ MaxCalls \in Nat
    /\ MaxNotifs \in Nat
    /\ MaxSpurious \in Nat
    /\ MaxCopies \in Nat
    /\ Reliable \in BOOLEAN
ASSUME IdsAssumption ==
    /\ Callable \cup Notes \subseteq PyIds
    /\ {UNKNOWN_MSG, "none", "Short", "Exception"} \cap PyIds = {}

VARIABLES
    last_txn,   \* _Session.last_txn
    q,          \* _Session.q: messages and exceptions
    listener,   \* the listener thread: receiving, in a callback, or ended
    pc,         \* the application thread, inside rpc()
    txn,        \* the local txn of rpc()
    toPeer,     \* sent and not yet processed by the peer
    toHost,     \* sent by the peer and not yet returned by transport.receive()
    \* History, read by no guard but the bounds.
    calls,      \* how many times rpc() was called
    outcome,    \* what each call came to
    answer,     \* the call whose response each call returned
    executed,   \* the calls the peer has executed
    notified,   \* known notifications the peer has sent
    heard,      \* notifications handed to the subscribers
    spurious,   \* queue items that answer no request, sent or caused so far
    copies      \* duplicated datagrams

session == <<last_txn, q, listener>>
caller == <<pc, txn, calls, outcome, answer>>
history == <<executed, notified, heard, spurious, copies>>
vars == <<session, caller, toPeer, toHost, history>>

Calls == 1 .. MaxCalls
Failures == {"send", "listener", "timeout", "desync", "exception"}

\* Any exception in the queue, and a frame of fewer than four bytes.
Exc == [wlen |-> 0, txn |-> 0, resp |-> FALSE, id |-> "Exception", req |-> 0]
Short == [wlen |-> 0, txn |-> 0, resp |-> FALSE, id |-> "Short", req |-> 0]

Init ==
    /\ last_txn = 1
    /\ q = <<>>
    /\ listener = "receive"
    /\ pc = "idle"
    /\ txn = 0
    /\ toPeer = <<>>
    /\ toHost = <<>>
    /\ calls = 0
    /\ outcome = [n \in Calls |-> "new"]
    /\ answer = [n \in Calls |-> 0]
    /\ executed = {}
    /\ notified = 0
    /\ heard = 0
    /\ spurious = 0
    /\ copies = 0
-----------------------------------------------------------------------------
(* The application thread.                                                  *)

\* Mutants of next_txn: the wrap-around one number late, and one early.
next_txn_late == IF last_txn > TxnMax THEN 1 ELSE last_txn + 1
next_txn_early == IF last_txn >= TxnMax - 1 THEN 1 ELSE last_txn + 1

next_txn == IF last_txn >= TxnMax THEN 1 ELSE last_txn + 1

request(f) ==
    [wlen |-> 1, txn |-> next_txn, resp |-> FALSE, id |-> f, req |-> calls + 1]

\* rpc() up to the end of send_request().
send_request(f) ==
    /\ pc = "idle"
    /\ calls < MaxCalls
    /\ last_txn' = next_txn
    /\ txn' = next_txn
    /\ toPeer' = Append(toPeer, request(f))
    /\ calls' = calls + 1
    /\ outcome' = [outcome EXCEPT ![calls + 1] = "pending"]
    /\ pc' = "sent"
    /\ UNCHANGED <<q, listener, answer, toHost, history>>

\* msg.pack() or transport.send() raises: the number is used up all the same.
send_request_raises ==
    /\ pc = "idle"
    /\ calls < MaxCalls
    /\ last_txn' = next_txn
    /\ calls' = calls + 1
    /\ outcome' = [outcome EXCEPT ![calls + 1] = "send"]
    /\ UNCHANGED <<q, listener, pc, txn, answer, toPeer, toHost, history>>

\* The call ends with an exception.
Raise(why) ==
    /\ outcome' = [outcome EXCEPT ![calls] = why]
    /\ pc' = "idle"
    /\ UNCHANGED answer

\* Mutant of ListenerAlive: the check is missing.
ListenerAlive_unchecked == TRUE

ListenerAlive == listener # "dead"

\* recv_response() looks at the listener once, before it waits.
CheckListener ==
    /\ pc = "sent"
    /\ \/ /\ ~ ListenerAlive
          /\ Raise("listener")
       \/ /\ ListenerAlive
          /\ pc' = "wait"
          /\ UNCHANGED <<outcome, answer>>
    /\ UNCHANGED <<session, txn, calls, toPeer, toHost, history>>

\* Mutant of IsExpected: any response will do.
IsExpected_any(item) == TRUE

IsExpected(item) == item.txn = txn

\* recv_response() gets an item and judges it.
GetItem ==
    /\ pc = "wait"
    /\ q # <<>>
    /\ q' = Tail(q)
    /\ LET item == Head(q)
       IN  \/ /\ item = Exc
              /\ Raise("exception")
           \/ /\ item # Exc
              /\ ~ IsExpected(item)
              /\ Raise("desync")
           \/ /\ item # Exc
              /\ IsExpected(item)
              /\ outcome' = [outcome EXCEPT ![calls] = "returned"]
              /\ answer' = [answer EXCEPT ![calls] = item.req]
              /\ pc' = "idle"
    /\ UNCHANGED <<last_txn, listener, txn, calls, toPeer, toHost, history>>

\* Mutant of Timeout: q.get() without a timeout.
Timeout_never == FALSE

\* q.get(timeout=...) raises Empty, which it does only when q is empty.
Timeout ==
    /\ pc = "wait"
    /\ q = <<>>
    /\ Raise("timeout")
    /\ UNCHANGED <<session, txn, calls, toPeer, toHost, history>>

\* Notifications to the peer are told from requests by txn 0 only.
notification(f) ==
    [wlen |-> 1, txn |-> 0, resp |-> FALSE, id |-> f, req |-> 0]

send_notif(f) ==
    /\ pc = "idle"
    /\ Cardinality({i \in DOMAIN toPeer : toPeer[i].txn = 0}) < MaxNotifs
    /\ toPeer' = Append(toPeer, notification(f))
    /\ UNCHANGED <<session, caller, toHost, history>>
-----------------------------------------------------------------------------
(* The listener thread: one iteration of receiver() per message.            *)

\* Mutants of IsDispatched: no branch for notifications; txn looked at before
\* the rpc_id.
IsDispatched_never(m) == FALSE
IsDispatched_unchecked(m) == m.txn = 0

\* What an iteration does with a message: dispatch it, or queue an item.
IsDispatched(m) == m.id \in PyIds /\ m.txn = 0

\* Mutant of Queued: unknown messages are not turned into an exception.
Queued_unchecked(m) == m

Queued(m) == IF m.id \notin PyIds THEN Exc ELSE m

receiver(i) ==
    /\ listener = "receive"
    /\ Reliable => i = 1
    /\ toHost' = RemoveAt(toHost, i)
    /\ LET m == toHost[i]
       IN  \/ /\ IsDispatched(m)
              /\ listener' = "callback"
              /\ heard' = heard + 1
              /\ UNCHANGED q
           \/ /\ ~ IsDispatched(m)
              /\ q' = Append(q, Queued(m))
              /\ UNCHANGED <<listener, heard>>
    /\ UNCHANGED <<last_txn, caller, toPeer, executed, notified, spurious, copies>>

\* transport.receive() raises; the loop goes on.
receiver_error ==
    /\ listener = "receive"
    /\ spurious < MaxSpurious
    /\ spurious' = spurious + 1
    /\ q' = Append(q, Exc)
    /\ UNCHANGED <<last_txn, listener, caller, toPeer, toHost, executed, notified, heard, copies>>

\* The subscribers run in the listener thread; an exception in one of them, or
\* in unpacking their arguments, ends it.
CallbackReturns ==
    /\ listener = "callback"
    /\ listener' = "receive"
    /\ UNCHANGED <<last_txn, q, caller, toPeer, toHost, history>>

CallbackRaises ==
    /\ listener = "callback"
    /\ listener' = "dead"
    /\ UNCHANGED <<last_txn, q, caller, toPeer, toHost, history>>
-----------------------------------------------------------------------------
(* The peer and the transport, which are outside the session.               *)

\* The firmware's loop passes a received message to compost_msg_process and
\* sends what it left in the transmit buffer.
PeerProcess(i) ==
    /\ Reliable => i = 1
    /\ LET m == toPeer[i]
       IN  /\ toHost' = toHost \o compost_msg_process(m)
           /\ executed' = IF Executes(m) /\ m.req # 0
                          THEN executed \cup {m.req} ELSE executed
    /\ toPeer' = RemoveAt(toPeer, i)
    /\ UNCHANGED <<session, caller, notified, heard, spurious, copies>>

\* A notification this protocol does not know counts as a spurious item.
PeerNotify(e) ==
    /\ \/ /\ e \in PyIds
          /\ notified < MaxNotifs
          /\ notified' = notified + 1
          /\ UNCHANGED spurious
       \/ /\ e \notin PyIds
          /\ spurious < MaxSpurious
          /\ spurious' = spurious + 1
          /\ UNCHANGED notified
    /\ toHost' = Append(toHost, notif_store(e))
    /\ UNCHANGED <<session, caller, toPeer, executed, heard, copies>>

Malformed ==
    /\ spurious < MaxSpurious
    /\ spurious' = spurious + 1
    /\ toHost' = Append(toHost, Short)
    /\ UNCHANGED <<session, caller, toPeer, executed, notified, heard, copies>>

Lose ==
    /\ ~ Reliable
    /\ \/ /\ \E i \in DOMAIN toPeer : toPeer' = RemoveAt(toPeer, i)
          /\ UNCHANGED toHost
       \/ /\ \E i \in DOMAIN toHost : toHost' = RemoveAt(toHost, i)
          /\ UNCHANGED toPeer
    /\ UNCHANGED <<session, caller, history>>

Duplicate ==
    /\ ~ Reliable
    /\ copies < MaxCopies
    /\ copies' = copies + 1
    /\ \/ /\ \E i \in DOMAIN toPeer : toPeer' = Append(toPeer, toPeer[i])
          /\ UNCHANGED toHost
       \/ /\ \E i \in DOMAIN toHost : toHost' = Append(toHost, toHost[i])
          /\ UNCHANGED toPeer
    /\ UNCHANGED <<session, caller, executed, notified, heard, spurious>>
-----------------------------------------------------------------------------
Recv_response == CheckListener \/ GetItem \/ Timeout

Caller ==
    \/ \E f \in Callable : send_request(f)
    \/ \E f \in Notes : send_notif(f)
    \/ send_request_raises
    \/ Recv_response

Listener ==
    \/ \E i \in DOMAIN toHost : receiver(i)
    \/ receiver_error
    \/ CallbackReturns
    \/ CallbackRaises

Environment ==
    \/ \E i \in DOMAIN toPeer : PeerProcess(i)
    \/ \E e \in Events : PeerNotify(e)
    \/ Malformed
    \/ Lose
    \/ Duplicate

Next == Caller \/ Listener \/ Environment

Spec == Init /\ [][Next]_vars

\* A started rpc() is not abandoned and q.get() does time out; the listener
\* takes what arrives; the subscribers' callbacks end.  The peer promises
\* nothing, and the application need not call.
FairSpec ==
    /\ Spec
    /\ WF_vars(Recv_response)
    /\ WF_vars(\E i \in DOMAIN toHost : receiver(i))
    /\ WF_vars(CallbackReturns \/ CallbackRaises)
-----------------------------------------------------------------------------
(* Properties.                                                              *)

Ids == PyIds \cup Events \cup Functions \cup {UNKNOWN_MSG, "none", "Short", "Exception"}
Messages ==
    [wlen : 0 .. 1, txn : 0 .. TxnMax, resp : BOOLEAN, id : Ids, req : 0 .. MaxCalls]

\* Type invariant: in particular no transaction number leaves 1 .. _TXN_MAX.
TypeOK ==
    /\ last_txn \in 1 .. TxnMax
    /\ q \in Seq(Messages)
    /\ listener \in {"receive", "callback", "dead"}
    /\ pc \in {"idle", "sent", "wait"}
    /\ txn \in 0 .. TxnMax
    /\ toPeer \in Seq(Messages)
    /\ toHost \in Seq(Messages)
    /\ calls \in 0 .. MaxCalls
    /\ outcome \in [Calls -> {"new", "pending", "returned"} \cup Failures]
    /\ answer \in [Calls -> 0 .. MaxCalls]
    /\ executed \subseteq Calls
    /\ notified \in Nat
    /\ heard \in Nat
    /\ spurious \in Nat
    /\ copies \in Nat

\* The number that next_txn() gives to the n-th call; the first call gets 2.
TxnOf(n) == (n % TxnMax) + 1

\* A message that recv_response() could accept is the peer's response to a call
\* that was made, was executed, and has the number the message carries.
Genuine(m) == m.req \in executed /\ m.txn = TxnOf(m.req)

\* The parts of the inductive invariant.
TxnInv ==
    /\ last_txn = TxnOf(calls)
    /\ pc # "idle" => calls > 0 /\ txn = TxnOf(calls) /\ outcome[calls] = "pending"
    /\ \A n \in Calls : outcome[n] = "new" <=> n > calls
RequestInv ==
    \A i \in DOMAIN toPeer :
        LET m == toPeer[i]
        IN  IF m.txn = 0 THEN m.req = 0 ELSE m.req \in 1 .. calls /\ m.txn = TxnOf(m.req)
ResponseInv ==
    \A i \in DOMAIN toHost : LET m == toHost[i]
                             IN  m.id \in PyIds /\ m.txn # 0 => Genuine(m)
QueueInv == \A i \in DOMAIN q : q[i] = Exc \/ Genuine(q[i])
ExecutedInv == executed \subseteq 1 .. calls

\* An answer given to the wrong call is the answer to a call made at least
\* _TXN_MAX calls earlier: fewer late responses than that are never confused.
\* recv_response() compares the transaction numbers and nothing else.
WrongAnswerIsOld ==
    \A n \in Calls :
        outcome[n] = "returned" => answer[n] = n \/ answer[n] + TxnMax <= n

\* A call returns only what the peer's handler computed: an error, a malformed
\* message, a notification or an UNKNOWN_MSG reply that receiver() meets is
\* never taken for a result.
AnswerWasExecuted ==
    \A n \in Calls : outcome[n] = "returned" => answer[n] \in executed

\* What makes the invariants above inductive.
IInv ==
    /\ TypeOK
    /\ TxnInv
    /\ RequestInv
    /\ ResponseInv
    /\ QueueInv
    /\ ExecutedInv
    /\ WrongAnswerIsOld
    /\ AnswerWasExecuted

\* Items that are in the queue or will be put there.
Outstanding ==
    LET Pending(s) == Cardinality({i \in DOMAIN s : ~ (s[i].id \in PyIds /\ s[i].txn = 0)})
    IN  Len(q) + Pending(toHost) + Cardinality({i \in DOMAIN toPeer : toPeer[i].txn # 0})

\* Over a byte stream every request and every error puts one item into the
\* queue, and a call takes one item or none.  So each call that gave up waiting
\* and each error leaves the session one item out of step, for good: nothing in
\* rpc() ever takes a second item or discards a late one.
OutOfStepForGood ==
    Reliable =>
        Outstanding =
            spurious + Cardinality({n \in Calls :
                                        outcome[n] \in {"pending", "timeout", "listener"}})

\* A call made after the listener thread has ended is told so by
\* recv_response(): it neither waits for its timeout nor returns a leftover
\* of the queue.
DeadListenerFailsFast ==
    \A n \in Calls :
        [](listener = "dead" /\ outcome[n] = "new"
             => [](outcome[n] \in {"new", "pending", "send", "listener"}))

\* Every rpc() ends, whatever the peer, the transport and the listener do.
CallsEnd == \A n \in Calls : outcome[n] = "pending" ~> outcome[n] # "pending"

\* Over a byte stream every notification that the peer sends reaches the
\* subscribers, unless a callback's exception has ended the listener: errors
\* and unknown messages on the way do not stop receiver().
NotificationsDispatched ==
    \A k \in 1 .. MaxNotifs : notified >= k ~> heard >= k \/ listener = "dead"

\* The session implements what RpcClient promises: to a caller, all the ways in
\* which rpc() raises are one.
clientOutcome ==
    [n \in Calls |-> IF outcome[n] \in Failures THEN "failed" ELSE outcome[n]]
Client == INSTANCE RpcClient WITH Window <- TxnMax, outcome <- clientOutcome
ClientSpec == Client!Spec
=============================================================================
