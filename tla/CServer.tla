------------------------------ MODULE CServer ------------------------------
(***************************************************************************)
(* The generated C side: compost_msg_process and the switch that the C     *)
(* generator writes, as a function from a received message to the messages *)
(* it makes the firmware send (none or one).                               *)
(*                                                                         *)
(* A message is a header with wlen reduced to whether there is a payload   *)
(* (0 or 1), and req, the call it belongs to, which is not on the wire.    *)
(* The bytes of the header are not part of this module.                    *)
(***************************************************************************)
EXTENDS Naturals, Sequences

CONSTANTS
    Functions,  \* the rpc_ids that have a case in compost_invoke_switch
    Valued      \* those of them whose handler returns a value

ASSUME ServerIds == Valued \subseteq Functions

\* What the default branch answers; no protocol may use this rpc_id.
UNKNOWN_MSG == "0xFEE"

\* The reply before the switch: the request's txn, the RESP flag, no payload.
tx_init(rx) ==
    [wlen |-> 0, txn |-> rx.txn, resp |-> TRUE, id |-> "none", req |-> rx.req]

\* invoke_<name>: calls the handler and stores its result.
invoke(tx, f) ==
    [tx EXCEPT !.wlen = IF f \in Valued THEN 1 ELSE 0, !.id = f]

compost_unknown_msg(tx) == [tx EXCEPT !.id = UNKNOWN_MSG, !.wlen = 0]

compost_invoke_switch(tx, rx) ==
    IF rx.id \in Functions THEN invoke(tx, rx.id) ELSE compost_unknown_msg(tx)

\* COMPOST_ETXN: a response, to a side that sends no requests.
IsStrayResponse(rx) == rx.txn # 0 /\ rx.resp

\* Whether the handler of a function runs.
Executes(rx) == ~ IsStrayResponse(rx) /\ rx.id \in Functions

\* compost_msg_process: the messages left in the transmit buffer.
compost_msg_process(rx) ==
    LET tx == compost_invoke_switch(tx_init(rx), rx)
    IN  IF IsStrayResponse(rx) \/ (tx.txn = 0 /\ tx.wlen = 0)
        THEN <<>>
        ELSE <<tx>>

\* <notification>_store: an outgoing notification.
notif_store(e) ==
    [wlen |-> 1, txn |-> 0, resp |-> FALSE, id |-> e, req |-> 0]
=============================================================================
