----------------------------- MODULE CsSession -----------------------------
(***************************************************************************)
(* The C# client: class Session and the checks that Protocol makes on a    *)
(* response.  Any number of threads may call at once; the transaction      *)
(* counter, the table of pending transactions and the stream each have a   *)
(* lock of their own, and nothing holds two of them, so a call is a        *)
(* sequence of steps between which every other call, the read task and     *)
(* DisposeAsync may run.  The peer is the generated C side, CServer.       *)
(***************************************************************************)
EXTENDS CServer, FiniteSets

CONSTANTS
    TxnMod,         \* how many values a byte has
    Callable,       \* the functions the application calls
    Events,         \* the notifications the peer sends
    Timeouts,       \* whether TransactionTimeout is greater than zero: the cases
    MayBreak,       \* the connection can break
    MayDispose,     \* the application can call DisposeAsync
    MaxCalls,       \* bound: calls
    MaxNotifs       \* bound: notifications

ASSUME TxnModAssumption == TxnMod \in Nat \ {0, 1}
ASSUME ConstantsAssumption ==
    /\ MaxCalls \in Nat
    /\ MaxNotifs \in Nat
    /\ Timeouts \subseteq BOOLEAN
    /\ {MayBreak, MayDispose} \subseteq BOOLEAN

VARIABLES
    txnCounter, \* _txnCounter
    txnDict,    \* _txnDict: the call registered in each slot, or null
    pc,         \* where each call is in InvokeRawRpcAsync
    txnId,      \* TxnID of each call's request
    function,   \* the function each call calls
    response,   \* each transaction's TaskCompletionSource
    readTask,   \* _readTask
    fetched,    \* the transaction and message between FetchAndRemove and SetResponse
    readCts,    \* cancellation was requested
    disposer,   \* DisposeAsync
    timed,      \* TransactionTimeout is greater than zero
    connected,  \* the connection has not broken
    toPeer,     \* written and not yet processed by the peer
    toHost,     \* sent by the peer and not yet read
    \* History, read by no guard but the bounds.
    calls,      \* how many calls have acquired a transaction number
    outcome,    \* what each call came to
    answer,     \* the call whose response each call returned
    executed,   \* the calls the peer has executed
    notified    \* notifications sent by the peer

callVars == <<pc, function, outcome, answer>>
table == <<txnCounter, txnDict, calls, txnId>>
reader == <<readTask, fetched>>
owner == <<readCts, disposer, timed>>
peer == <<toPeer, toHost, executed, notified>>
vars == <<callVars, table, response, reader, owner, connected, peer>>

Calls == 1 .. MaxCalls
Slots == 0 .. TxnMod - 1
null == 0
ErrorResponseRpcId == "0xFEE"
UnsupportedResponseRpcId == "0xFEF"
Failures == {"wrap", "write", "timeout", "cancelled", "error", "unsupported", "mismatch"}

Blank(tag) == [wlen |-> 0, txn |-> 0, resp |-> FALSE, id |-> tag, req |-> 0]
Pending == Blank("pending")
Cancelled == Blank("cancelled")

Init ==
    /\ txnCounter = 1
    /\ txnDict = [i \in Slots |-> null]
    /\ pc = [n \in Calls |-> "new"]
    /\ txnId = [n \in Calls |-> 0]
    /\ function = [n \in Calls |-> "none"]
    /\ response = [n \in Calls |-> Pending]
    /\ readTask = "read"
    /\ fetched = [txn |-> null, msg |-> Pending]
    /\ readCts = FALSE
    /\ disposer = "no"
    /\ timed \in Timeouts
    /\ connected = TRUE
    /\ toPeer = <<>>
    /\ toHost = <<>>
    /\ calls = 0
    /\ outcome = [n \in Calls |-> "new"]
    /\ answer = [n \in Calls |-> 0]
    /\ executed = {}
    /\ notified = 0
-----------------------------------------------------------------------------
(* A call.  Calls are numbered in the order in which they get their number. *)

End(n, how) ==
    /\ pc' = [pc EXCEPT ![n] = "done"]
    /\ outcome' = [outcome EXCEPT ![n] = how]

\* Mutants of NextTxnCounter: a counter wider than a byte, and one that wraps
\* around one value early.
NextTxnCounter_wide == txnCounter + 1
NextTxnCounter_early == (txnCounter + 1) % (TxnMod - 1)

\* The addition is done on int, so it never yields 0 to compare with, and the
\* cast to byte does the wrapping.
NextTxnCounter == IF txnCounter + 1 = 0 THEN 1 ELSE (txnCounter + 1) % TxnMod

\* The application does not call a session that it is disposing of.
AquireNextTxnId(f) ==
    LET n == calls + 1
    IN  /\ calls < MaxCalls
        /\ disposer = "no"
        /\ calls' = n
        /\ txnId' = [txnId EXCEPT ![n] = txnCounter]
        /\ txnCounter' = NextTxnCounter
        /\ function' = [function EXCEPT ![n] = f]
        /\ pc' = [pc EXCEPT ![n] = "acquired"]
        /\ outcome' = [outcome EXCEPT ![n] = "pending"]
        /\ UNCHANGED <<txnDict, answer, response, reader, owner, connected, peer>>

\* Mutant of SlotIsFree: a transaction in the slot is overwritten.
SlotIsFree_unchecked(n) == TRUE

SlotIsFree(n) == txnDict[txnId[n]] = null

AddTransaction(n) ==
    /\ pc[n] = "acquired"
    /\ \/ /\ ~ SlotIsFree(n)
          /\ End(n, "wrap")
          /\ UNCHANGED txnDict
       \/ /\ SlotIsFree(n)
          /\ txnDict' = [txnDict EXCEPT ![txnId[n]] = n]
          /\ pc' = [pc EXCEPT ![n] = "added"]
          /\ UNCHANGED outcome
    /\ UNCHANGED <<txnCounter, calls, txnId, function, answer, response, reader,
                   owner, connected, peer>>

\* A write that fails leaves the transaction in its slot.  One to a broken
\* connection may still be taken by a buffer.
WriteMessage(n) ==
    /\ pc[n] = "added"
    /\ \/ /\ pc' = [pc EXCEPT ![n] = "wait"]
          /\ toPeer' = IF connected
                       THEN Append(toPeer, [wlen |-> 1, txn |-> txnId[n], resp |-> FALSE,
                                            id |-> function[n], req |-> n])
                       ELSE toPeer
          /\ UNCHANGED outcome
       \/ /\ ~ connected
          /\ End(n, "write")
          /\ UNCHANGED toPeer
    /\ UNCHANGED <<table, function, answer, response, reader, owner, connected,
                   toHost, executed, notified>>

\* Mutant of Judge: the RpcId of the response is not looked at.
Judge_unchecked(n, m) == IF m = Cancelled THEN "cancelled" ELSE "returned"

\* What Protocol.InvokeRpcAsync makes of a response.
Judge(n, m) ==
    CASE m = Cancelled                                  -> "cancelled"
      [] m.resp /\ m.id = ErrorResponseRpcId            -> "error"
      [] m.resp /\ m.id = UnsupportedResponseRpcId      -> "unsupported"
      [] m.id # function[n]                             -> "mismatch"
      [] OTHER                                          -> "returned"

\* Task.WhenAny finds the response, or its cancellation.
ResponseAwaited(n) ==
    LET how == Judge(n, response[n])
    IN  /\ pc[n] = "wait"
        /\ response[n] # Pending
        /\ End(n, how)
        /\ answer' = IF how = "returned"
                     THEN [answer EXCEPT ![n] = response[n].req]
                     ELSE answer
        /\ UNCHANGED <<table, function, response, reader, owner, connected, peer>>

\* Mutant of DelayElapsed: timeouts are never reported.
DelayElapsed_never(n) == FALSE

\* Task.WhenAny finds the delay ...
DelayElapsed(n) ==
    /\ timed
    /\ pc[n] = "wait"
    /\ response[n] = Pending
    /\ pc' = [pc EXCEPT ![n] = "expired"]
    /\ UNCHANGED <<function, outcome, answer, table, response, reader, owner,
                   connected, peer>>

\* ... and then the slot is emptied, whichever transaction is in it by now.
FetchAndRemoveExpired(n) ==
    /\ pc[n] = "expired"
    /\ txnDict' = [txnDict EXCEPT ![txnId[n]] = null]
    /\ End(n, "timeout")
    /\ UNCHANGED <<txnCounter, calls, txnId, function, answer, response, reader,
                   owner, connected, peer>>
-----------------------------------------------------------------------------
(* The read task.                                                           *)

\* A message is read.  A response takes its transaction out of the table, or is
\* reported as unexpected; anything else never touches the table.
ReadMessagesAsync ==
    LET m == Head(toHost)
        t == txnDict[m.txn]
    IN  /\ readTask = "read"
        /\ toHost # <<>>
        /\ toHost' = Tail(toHost)
        /\ \/ /\ m.resp
              /\ txnDict' = [txnDict EXCEPT ![m.txn] = null]
              /\ IF t = null
                 THEN UNCHANGED reader
                 ELSE /\ fetched' = [txn |-> t, msg |-> m]
                      /\ readTask' = "respond"
           \/ /\ ~ m.resp
              /\ UNCHANGED <<txnDict, reader>>
        /\ UNCHANGED <<txnCounter, calls, txnId, callVars, response, owner,
                       connected, toPeer, executed, notified>>

\* TrySetResult has no effect on a transaction that was cancelled.
SetResponse ==
    /\ readTask = "respond"
    /\ response' = IF response[fetched.txn] = Pending
                   THEN [response EXCEPT ![fetched.txn] = fetched.msg]
                   ELSE response
    /\ fetched' = [txn |-> null, msg |-> Pending]
    /\ readTask' = "read"
    /\ UNCHANGED <<table, callVars, owner, connected, peer>>

\* ReadMessageAsync throws: cancelled, which ends the loop, or for a broken
\* connection, which is an exception of a task that only DisposeAsync looks at.
ReadCancelled ==
    /\ readTask = "read"
    /\ readCts
    /\ readTask' = "ended"
    /\ UNCHANGED <<fetched, table, callVars, response, owner, connected, peer>>

ReadFails ==
    /\ readTask = "read"
    /\ ~ connected
    /\ readTask' = "faulted"
    /\ UNCHANGED <<fetched, table, callVars, response, owner, connected, peer>>
-----------------------------------------------------------------------------
(* DisposeAsync.                                                            *)

Cancel ==
    /\ MayDispose
    /\ disposer = "no"
    /\ disposer' = "wait"
    /\ readCts' = TRUE
    /\ UNCHANGED <<timed, table, callVars, response, reader, connected, peer>>

\* Mutant of ClearTransactions: the slots are emptied, nobody is told.
ClearTransactions_silent ==
    /\ txnDict' = [i \in Slots |-> null]
    /\ UNCHANGED response

ClearTransactions ==
    /\ response' = [n \in Calls |->
                       IF response[n] = Pending /\ \E i \in Slots : txnDict[i] = n
                       THEN Cancelled ELSE response[n]]
    /\ txnDict' = [i \in Slots |-> null]

DisposeAsync ==
    /\ disposer = "wait"
    /\ readTask \in {"ended", "faulted"}
    /\ ClearTransactions
    /\ disposer' = "done"
    /\ UNCHANGED <<txnCounter, calls, txnId, callVars, reader, readCts, timed, connected, peer>>

\* The read task has not ended within a second.
DisposeTimesOut ==
    /\ disposer = "wait"
    /\ readTask \notin {"ended", "faulted"}
    /\ disposer' = "threw"
    /\ UNCHANGED <<readCts, timed, table, callVars, response, reader, connected, peer>>
-----------------------------------------------------------------------------
(* The peer and the connection, which are outside the session.              *)

PeerProcess ==
    LET m == Head(toPeer)
    IN  /\ toPeer # <<>>
        /\ toPeer' = Tail(toPeer)
        /\ toHost' = toHost \o compost_msg_process(m)
        /\ executed' = IF Executes(m) THEN executed \cup {m.req} ELSE executed
        /\ UNCHANGED <<notified, table, callVars, response, reader, owner, connected>>

\* The peer fails to answer, as when it is reset.
PeerDrops ==
    /\ timed
    /\ toPeer # <<>>
    /\ toPeer' = Tail(toPeer)
    /\ UNCHANGED <<toHost, executed, notified, table, callVars, response, reader,
                   owner, connected>>

PeerNotify(e) ==
    /\ connected
    /\ notified < MaxNotifs
    /\ notified' = notified + 1
    /\ toHost' = Append(toHost, notif_store(e))
    /\ UNCHANGED <<toPeer, executed, table, callVars, response, reader, owner, connected>>

Break ==
    /\ MayBreak
    /\ connected
    /\ connected' = FALSE
    /\ toPeer' = <<>>
    /\ toHost' = <<>>
    /\ UNCHANGED <<executed, notified, table, callVars, response, reader, owner>>
-----------------------------------------------------------------------------
Continue(n) ==
    \/ AddTransaction(n)
    \/ WriteMessage(n)
    \/ ResponseAwaited(n)
    \/ DelayElapsed(n)
    \/ FetchAndRemoveExpired(n)

Read == ReadMessagesAsync \/ SetResponse \/ ReadCancelled \/ ReadFails

Dispose == DisposeAsync \/ DisposeTimesOut

Environment ==
    \/ PeerProcess
    \/ PeerDrops
    \/ \E e \in Events : PeerNotify(e)
    \/ Break

Next ==
    \/ \E f \in Callable : AquireNextTxnId(f)
    \/ \E n \in Calls : Continue(n)
    \/ Read
    \/ Cancel
    \/ Dispose
    \/ Environment

Spec == Init /\ [][Next]_vars

\* Threads and the task scheduler go on, delays elapse, and the peer processes
\* what it receives (or drops it).  The connection need not break and the
\* application need not call or dispose.
FairSpec ==
    /\ Spec
    /\ \A n \in Calls : WF_vars(Continue(n))
    /\ WF_vars(Read)
    /\ WF_vars(Dispose)
    /\ WF_vars(PeerProcess \/ PeerDrops)
-----------------------------------------------------------------------------
(* Properties.                                                              *)

Ids == Functions \cup Callable \cup Events
           \cup {UNKNOWN_MSG, "none", "pending", "cancelled"}
Messages ==
    [wlen : 0 .. 1, txn : Slots, resp : BOOLEAN, id : Ids, req : 0 .. MaxCalls]

\* Type invariant.
TypeOK ==
    /\ txnCounter \in Slots
    /\ txnDict \in [Slots -> Calls \cup {null}]
    /\ pc \in [Calls -> {"new", "acquired", "added", "wait", "expired", "done"}]
    /\ txnId \in [Calls -> Slots]
    /\ function \in [Calls -> Callable \cup {"none"}]
    /\ response \in [Calls -> Messages]
    /\ readTask \in {"read", "respond", "ended", "faulted"}
    /\ fetched \in [txn : Calls \cup {null}, msg : Messages]
    /\ readCts \in BOOLEAN
    /\ disposer \in {"no", "wait", "done", "threw"}
    /\ timed \in BOOLEAN
    /\ connected \in BOOLEAN
    /\ toPeer \in Seq(Messages)
    /\ toHost \in Seq(Messages)
    /\ calls \in 0 .. MaxCalls
    /\ outcome \in [Calls -> {"new", "pending", "returned"} \cup Failures]
    /\ answer \in [Calls -> 0 .. MaxCalls]
    /\ executed \subseteq Calls
    /\ notified \in Nat

\* Without a transaction timeout, a call that waits for a response is in its
\* slot, where the read task will find it, until the read task has taken it out
\* or DisposeAsync has cancelled it.  With a timeout this fails: a call that has
\* expired empties its slot without looking who is in it by then.
WaitingCallIsStored ==
    \A n \in Calls :
        ~ timed /\ pc[n] = "wait" /\ response[n] = Pending /\ fetched.txn # n
            => txnDict[txnId[n]] = n

\* Every response a call is given answers a request for the same function.
AnswerIsOfTheSameFunction ==
    \A n \in Calls : outcome[n] = "returned" => function[answer[n]] = function[n]

\* The counter is one ahead of the calls, a call has the number the counter had,
\* and a call that has ended is exactly one that is out of InvokeRawRpcAsync.
TxnInv ==
    /\ txnCounter = (calls + 1) % TxnMod
    /\ \A n \in Calls :
           /\ n <= calls => txnId[n] = n % TxnMod
           /\ pc[n] = "new" <=> n > calls
           /\ outcome[n] = "new" <=> n > calls
           /\ outcome[n] = "pending" <=> pc[n] \notin {"new", "done"}

\* What the peer receives is a request of some call.
RequestInv ==
    \A i \in DOMAIN toPeer :
        LET m == toPeer[i]
        IN  /\ ~ m.resp
            /\ m.req \in 1 .. calls
            /\ m.txn = txnId[m.req]
            /\ m.id = function[m.req]

\* A response has the number of its request, and its function if it has run.
Genuine(m) ==
    /\ m.req \in 1 .. calls
    /\ m.txn = txnId[m.req]
    /\ \/ m.id = UNKNOWN_MSG
       \/ m.req \in executed /\ m.id = function[m.req]

ResponseInv == \A i \in DOMAIN toHost : toHost[i].resp => Genuine(toHost[i])

\* A response for call n: it came in the slot that n was in.
ResponseFor(n, m) == n \in 1 .. calls /\ m.resp /\ Genuine(m) /\ m.txn = txnId[n]

\* A call is stored in the slot of its number only, is taken out of it with a
\* response of that number, and is given no other response.
TableInv ==
    /\ \A i \in Slots :
           txnDict[i] # null => txnDict[i] \in 1 .. calls /\ txnId[txnDict[i]] = i
    /\ IF readTask = "respond" THEN ResponseFor(fetched.txn, fetched.msg)
                               ELSE fetched.txn = null
    /\ \A n \in Calls : response[n] \in {Pending, Cancelled} \/ ResponseFor(n, response[n])

\* WaitingCallIsStored holds from AddTransaction on, before the request is written.
StoredInv ==
    ~ timed => \A n \in Calls :
        /\ pc[n] # "expired"
        /\ pc[n] \in {"added", "wait"} /\ response[n] = Pending /\ fetched.txn # n
               => txnDict[txnId[n]] = n

\* Only requests of calls are executed, and an answer is the result of one.
AnswerInv ==
    /\ executed \subseteq 1 .. calls
    /\ \A n \in Calls : outcome[n] = "returned" => answer[n] \in executed

\* What makes the invariants above inductive.
IInv ==
    /\ TypeOK
    /\ TxnInv
    /\ RequestInv
    /\ ResponseInv
    /\ TableInv
    /\ StoredInv
    /\ AnswerInv
    /\ AnswerIsOfTheSameFunction

\* With a transaction timeout every call ends, whatever the peer, the connection
\* and DisposeAsync do.
TimedCallsEnd ==
    \A n \in Calls : timed /\ outcome[n] = "pending" ~> outcome[n] # "pending"

\* Every call ends: it is executed and its response is sent back.
CallsEnd == \A n \in Calls : outcome[n] = "pending" ~> outcome[n] # "pending"

\* Without a timeout, a call whose reply is on its way ends, however the replies
\* are interleaved with the steps of other calls.
ReplyEndsCall ==
    \A n \in Calls :
        ~ timed /\ (\E i \in DOMAIN toHost : toHost[i].req = n)
            ~> outcome[n] # "pending" \/ disposer # "no" \/ ~ connected

\* DisposeAsync ends the calls that are waiting when it is called, even if the
\* connection has broken, unless it throws.
DisposeEndsCalls ==
    \A n \in Calls :
        disposer = "wait" /\ pc[n] = "wait" ~> outcome[n] # "pending" \/ disposer = "threw"

\* When the connection breaks, the calls that wait for a response are ended by
\* an exception.
BreakEndsCalls ==
    \A n \in Calls : ~ connected /\ outcome[n] = "pending" ~> outcome[n] # "pending"

\* The session implements what RpcClient promises, with a window of 256.
clientOutcome ==
    [n \in Calls |-> IF outcome[n] \in Failures THEN "failed" ELSE outcome[n]]
Client == INSTANCE RpcClient WITH Window <- TxnMod, outcome <- clientOutcome
ClientSpec == Client!Spec
=============================================================================
