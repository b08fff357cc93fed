----------------------------- MODULE RpcBinding -----------------------------
(***************************************************************************)
(* One Rpc object of a protocol class.  A class has one Rpc per call,      *)
(* whatever the number of its instances: the list of subscribers and the   *)
(* attribute instance are shared by all instances, by the application's    *)
(* threads and by the listener thread of every instance's session.         *)
(*                                                                         *)
(* The listener threads walk through the list of subscribers while         *)
(* subscribe() and unsubscribe() change it, in the application or in the   *)
(* callback itself.  A call reads the attribute instance after its         *)
(* arguments were evaluated: it goes through whatever instance the last    *)
(* access named, of any thread or argument, and nothing is claimed of it.  *)
(***************************************************************************)
EXTENDS Naturals, FiniteSets, SequencesExt

CONSTANTS
    Instances,      \* instances of the protocol class, each with its session
    Notifying,      \* those of them whose peer sends the notification
    Handlers,       \* callbacks
    Users,          \* accesses that can be open at a time: threads, nested calls
    None,           \* the instance of an access through the class
    MaxSubscribes   \* bound: calls of subscribe()

ASSUME ConstantsAssumption ==
    /\ Notifying \subseteq Instances
    /\ None \notin Instances
    /\ MaxSubscribes \in Nat

VARIABLES
    subscribers,    \* Rpc.subscribers; every subscription has a number
    instance,       \* Rpc.instance
    bound,          \* the instance through which each user got the Rpc
    target,         \* the instance whose session carried the last call
    listener,       \* the listener threads: receiving, dispatching, in a callback, ended
    index,          \* how far the iterator of each listener's for loop has come
    \* History, read by no guard but the bound.
    count,          \* subscriptions so far
    due,            \* the subscriptions there were when the dispatch began
    served,         \* those that were called since
    removed         \* how many were removed since

binding == <<instance, bound, target>>
dispatch == <<listener, index, due, served>>
vars == <<subscribers, binding, dispatch, count, removed>>

\* The listener is inside the for loop of receiver().
Walking(i) == listener[i] \in {"dispatch", "callback"}

Numbers(s) == {s[p].number : p \in DOMAIN s}

Init ==
    /\ subscribers = <<>>
    /\ instance = None
    /\ bound = [u \in Users |-> None]
    /\ target = None
    /\ listener = [i \in Notifying |-> "receive"]
    /\ index = [i \in Notifying |-> 0]
    /\ count = 0
    /\ due = [i \in Notifying |-> {}]
    /\ served = [i \in Notifying |-> {}]
    /\ removed = [i \in Notifying |-> 0]
-----------------------------------------------------------------------------
(* The list of subscribers, changed by any thread.                          *)

\* Mutant of subscribe: the new subscriber comes first.
subscribe_first(h) ==
    /\ count < MaxSubscribes
    /\ count' = count + 1
    /\ subscribers' = <<[handler |-> h, number |-> count + 1]>> \o subscribers
    /\ UNCHANGED <<binding, dispatch, removed>>

subscribe(h) ==
    /\ count < MaxSubscribes
    /\ count' = count + 1
    /\ subscribers' = Append(subscribers, [handler |-> h, number |-> count + 1])
    /\ UNCHANGED <<binding, dispatch, removed>>

\* The positions of the subscriptions that unsubscribe() removes.
Subscriptions(h) == {p \in DOMAIN subscribers : subscribers[p].handler = h}

\* Mutant of Unsubscribed: all subscriptions of the handler go.
Unsubscribed_all(h) == SelectSeq(subscribers, LAMBDA s : s.handler # h)

\* list.remove() removes the first one.
Unsubscribed(h) == RemoveAt(subscribers, Min(Subscriptions(h)))

unsubscribe(h) ==
    /\ Subscriptions(h) # {}
    /\ subscribers' = Unsubscribed(h)
    /\ removed' = [i \in Notifying |->
                      IF Walking(i) THEN removed[i] + 1 ELSE removed[i]]
    /\ UNCHANGED <<binding, dispatch, count>>
-----------------------------------------------------------------------------
(* A listener thread: receiver() with a message whose number is 0.          *)

Receive(i) ==
    /\ listener[i] = "receive"
    /\ listener' = [listener EXCEPT ![i] = "dispatch"]
    /\ index' = [index EXCEPT ![i] = 0]
    /\ due' = [due EXCEPT ![i] = Numbers(subscribers)]
    /\ served' = [served EXCEPT ![i] = {}]
    /\ removed' = [removed EXCEPT ![i] = 0]
    /\ UNCHANGED <<subscribers, binding, count>>

\* Mutants of Following: the loop takes the first element every time; it leaves
\* out every other one.
Following_first(i) == 0
Following_two(i) == index[i] + 2

\* Where the iterator of the for loop is after the next element.
Following(i) == index[i] + 1

\* The loop takes the next element of the list as it is now.
CallNext(i) ==
    /\ listener[i] = "dispatch"
    /\ index[i] < Len(subscribers)
    /\ index' = [index EXCEPT ![i] = Following(i)]
    /\ served' = [served EXCEPT ![i] = @ \cup {subscribers[index[i] + 1].number}]
    /\ listener' = [listener EXCEPT ![i] = "callback"]
    /\ UNCHANGED <<subscribers, binding, count, due, removed>>

CallbackReturns(i) ==
    /\ listener[i] = "callback"
    /\ listener' = [listener EXCEPT ![i] = "dispatch"]
    /\ UNCHANGED <<subscribers, binding, index, count, due, served, removed>>

\* The exception, one of unsubscribe() for instance, leaves receiver().
CallbackRaises(i) ==
    /\ listener[i] = "callback"
    /\ listener' = [listener EXCEPT ![i] = "dead"]
    /\ UNCHANGED <<subscribers, binding, index, count, due, served, removed>>

DispatchDone(i) ==
    /\ listener[i] = "dispatch"
    /\ index[i] >= Len(subscribers)
    /\ listener' = [listener EXCEPT ![i] = "receive"]
    /\ UNCHANGED <<subscribers, binding, index, count, due, served, removed>>
-----------------------------------------------------------------------------
(* Calls.                                                                   *)

\* The expression device.call, with i = None for Class.call.
Get(u, i) ==
    /\ instance' = i
    /\ bound' = [bound EXCEPT ![u] = i]
    /\ UNCHANGED <<subscribers, target, dispatch, count, removed>>

\* What the expression gave is called; with no instance this raises.
Call(u) ==
    /\ bound[u] # None
    /\ target' = instance
    /\ bound' = [bound EXCEPT ![u] = None]
    /\ UNCHANGED <<subscribers, instance, dispatch, count, removed>>
-----------------------------------------------------------------------------
Walk(i) == CallNext(i) \/ CallbackReturns(i) \/ CallbackRaises(i) \/ DispatchDone(i)

Next ==
    \/ \E h \in Handlers : subscribe(h) \/ unsubscribe(h)
    \/ \E i \in Notifying : Receive(i) \/ Walk(i)
    \/ \E u \in Users, i \in Instances \cup {None} : Get(u, i)
    \/ \E u \in Users : Call(u)

Spec == Init /\ [][Next]_vars

\* The listener threads run and the callbacks end.
FairSpec == Spec /\ \A i \in Notifying : WF_vars(Walk(i))
-----------------------------------------------------------------------------
(* Properties.                                                              *)

\* Type invariant: in particular, the iterator of a running loop is beyond the
\* end of the list by no more than what was removed meanwhile.
TypeOK ==
    /\ subscribers \in Seq([handler : Handlers, number : 1 .. count])
    /\ instance \in Instances \cup {None}
    /\ bound \in [Users -> Instances \cup {None}]
    /\ target \in Instances \cup {None}
    /\ listener \in [Notifying -> {"receive", "dispatch", "callback", "dead"}]
    /\ index \in [Notifying -> Nat]
    /\ count \in 0 .. MaxSubscribes
    /\ due \in [Notifying -> SUBSET (1 .. count)]
    /\ served \in [Notifying -> SUBSET (1 .. count)]
    /\ removed \in [Notifying -> Nat]
    /\ \A i \in Notifying : Walking(i) => index[i] <= Len(subscribers) + removed[i]

\* The subscriptions that the loop of a listener has passed without a call,
\* though they were there when the notification came and still are.
Passed(i) ==
    {subscribers[p].number : p \in 1 .. Min({index[i], Len(subscribers)})}
Skipped(i) == (Passed(i) \cap due[i]) \ served[i]

\* Every unsubscribe() during a dispatch, by the callback or by another thread,
\* hides at most one other subscriber from the notification; without any, each
\* subscriber is called.
SkippedAtMostRemoved ==
    \A i \in Notifying :
        Walking(i) => Cardinality(Skipped(i)) <= removed[i]

\* No subscription gets a notification twice, whatever is removed from or added
\* to the list while receiver() walks through it: those that are still ahead of
\* the loop were not called.
NoneServedTwice ==
    \A i \in Notifying :
        Walking(i) => \A p \in DOMAIN subscribers :
                          p > index[i] => subscribers[p].number \notin served[i]

\* The dispatch of a notification ends, so that the session goes on receiving:
\* unless a callback raises, and provided that subscribe() is called finitely
\* often, since the loop also visits what is added meanwhile.
DispatchEnds ==
    \A i \in Notifying : listener[i] = "dispatch" ~> listener[i] \in {"receive", "dead"}

\* The list is in the order of subscription.
Ordered ==
    \A p, q \in DOMAIN subscribers : p < q => subscribers[p].number < subscribers[q].number

\* What a loop has called was subscribed before everything that is ahead of it.
ServedBehind ==
    \A i \in Notifying :
        Walking(i) => \A p \in DOMAIN subscribers :
                          p > index[i] => \A n \in served[i] : n < subscribers[p].number

\* What makes NoneServedTwice inductive.
IInv == TypeOK /\ Ordered /\ ServedBehind
=============================================================================
