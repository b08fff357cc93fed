------------------------------ MODULE CodeGen -------------------------------
(***************************************************************************)
(* What CCodeGenerator and CSharpCodeGenerator make of a protocol          *)
(* definition for an endpoint: which calls they accept, and which          *)
(* functions, switch cases, methods and events the generated text has.     *)
(***************************************************************************)
EXTENDS ProtocolDef

Endpoint == {"REMOTE", "LOCAL"}
CodeGenerators == {"c", "cs"}

is_call_outbound(endpoint, call) ==
    \/ call.direction = "TO_LOCAL" /\ endpoint = "REMOTE"
    \/ call.direction = "TO_REMOTE" /\ endpoint = "LOCAL"
    \/ call.direction = "TWO_WAY"

is_call_inbound(endpoint, call) ==
    \/ call.direction = "TO_LOCAL" /\ endpoint = "LOCAL"
    \/ call.direction = "TO_REMOTE" /\ endpoint = "REMOTE"
    \/ call.direction = "TWO_WAY"

\* What the languages can do.
c_features ==
    [inbound_rpc |-> TRUE, outbound_rpc |-> FALSE,
     inbound_notification |-> TRUE, outbound_notification |-> TRUE]
cs_features ==
    [inbound_rpc |-> FALSE, outbound_rpc |-> TRUE,
     inbound_notification |-> TRUE, outbound_notification |-> FALSE]
features(g) == IF g = "c" THEN c_features ELSE cs_features

\* Mutant of supported: notifications and calls are not told apart.
supported_alike(g, endpoint, call) ==
    \/ is_call_inbound(endpoint, call) /\ features(g).inbound_notification
    \/ is_call_outbound(endpoint, call) /\ features(g).outbound_notification

\* A call in both directions is accepted if the language has one of them.
supported(g, endpoint, call) ==
    IF call.notification
    THEN \/ is_call_inbound(endpoint, call) /\ features(g).inbound_notification
         \/ is_call_outbound(endpoint, call) /\ features(g).outbound_notification
    ELSE \/ is_call_inbound(endpoint, call) /\ features(g).inbound_rpc
         \/ is_call_outbound(endpoint, call) /\ features(g).outbound_rpc

validate_endpoint(g, endpoint) ==
    \A id \in DOMAIN rpcs : supported(g, endpoint, rpcs[id])
-----------------------------------------------------------------------------
(* The C text.                                                              *)

\* <name>_store, invoke_<name> and the cases of compost_invoke_switch.
notif_stores(endpoint) ==
    {id \in DOMAIN rpcs : rpcs[id].notification /\ is_call_outbound(endpoint, rpcs[id])}
invoke_fns(endpoint) ==
    {id \in DOMAIN rpcs : is_call_inbound(endpoint, rpcs[id])}
switch_cases(endpoint) ==
    {id \in DOMAIN rpcs : ~ (rpcs[id].notification /\ ~ is_call_inbound(endpoint, rpcs[id]))}
-----------------------------------------------------------------------------
(* The C# text: methods and events, for every call whatever its direction.  *)

methods == {id \in DOMAIN rpcs : ~ rpcs[id].notification}
events == {id \in DOMAIN rpcs : rpcs[id].notification}
-----------------------------------------------------------------------------
(* Properties.                                                              *)

\* The calls that the code of an endpoint can send, and those it handles.
Sends(g, endpoint) == IF g = "c" THEN notif_stores(endpoint) ELSE methods
Handles(g, endpoint) == IF g = "c" THEN switch_cases(endpoint) ELSE events

\* The generated C code is complete: every case of compost_invoke_switch has its
\* invoke function.  generate() selects the two by different conditions, which
\* agree because _validate_endpoint refuses calls that C cannot receive.  And if
\* code can be generated for both endpoints, one of them in C, then whatever one
\* side can send, the other side handles.  (Two C# endpoints would both offer a
\* two-way call and neither would answer it.)
EndpointsAgree ==
    /\ \A endpoint \in Endpoint :
           validate_endpoint("c", endpoint) => switch_cases(endpoint) = invoke_fns(endpoint)
    /\ \A local, remote \in CodeGenerators :
           /\ "c" \in {local, remote}
           /\ validate_endpoint(local, "LOCAL")
           /\ validate_endpoint(remote, "REMOTE")
           => /\ Sends(local, "LOCAL") \subseteq Handles(remote, "REMOTE")
              /\ Sends(remote, "REMOTE") \subseteq Handles(local, "LOCAL")
=============================================================================
