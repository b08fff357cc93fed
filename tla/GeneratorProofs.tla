-------------------------- MODULE GeneratorProofs ---------------------------
(***************************************************************************)
(* Proofs about ProtocolDef, CodeGen and Generator: what the definition    *)
(* files can register, where their lists are, and what run() writes.       *)
(***************************************************************************)
EXTENDS Generator, CommonLemmas

-----------------------------------------------------------------------------
(* The inductive invariant.                                                 *)

\* Only identifiers that _validate_rpc_id accepts are registered.
RegisteredInv ==
    /\ DOMAIN rpcs \subseteq Ids
    /\ \A id \in DOMAIN rpcs : 0 <= id /\ id <= 3840 /\ rpcs[id] \in Calls

OutputTypeOK ==
    /\ force \in BOOLEAN
    /\ in_with \in BOOLEAN
    /\ DOMAIN path_cache \subseteq Paths
    /\ \A p \in DOMAIN path_cache : path_cache[p] \in Keys
    /\ generates \in 0 .. MaxGenerates
    /\ defined \in 0 .. generates
    /\ files \in [Paths -> {Absent, Foreign} \cup Content]
    /\ phase \in {"script", "ask", "write"}
    /\ todo \in Seq([path : Paths, content : Content])
    /\ existed \subseteq Paths
    /\ wanted \subseteq Keys
    /\ complete \in BOOLEAN

Item == [key : Keys, paths : Seq(Paths), defined : 0 .. MaxGenerates]
ContentOf(item) == [key |-> item.key, defined |-> item.defined]

\* _output_cache is a dictionary, and its outputs own their paths.
CacheInv ==
    /\ output_cache \in Seq(Item)
    /\ \A j, k \in DOMAIN output_cache : output_cache[j].key = output_cache[k].key => j = k
    /\ \A k \in DOMAIN output_cache :
           /\ output_cache[k].defined \in 0 .. defined
           /\ \A p \in Range(output_cache[k].paths) :
                  p \in DOMAIN path_cache /\ path_cache[p] = output_cache[k].key

\* What run() still has to write comes from _output_cache.
TodoInv ==
    /\ phase # "write" => todo = <<>>
    /\ phase = "ask" => existed = {p \in Paths : Exists(p)}
    /\ \A w \in Range(todo) : \E k \in DOMAIN output_cache :
           w.path \in Range(output_cache[k].paths) /\ w.content = ContentOf(output_cache[k])

\* The user does not decline this output.
Agreed(item) == Range(item.paths) \cap existed # {} => item.key \in wanted

\* While run() writes, each file of an output that is not declined is current
\* or about to be written.
PendingInv ==
    phase = "write" =>
        \A k \in DOMAIN output_cache : Agreed(output_cache[k]) =>
            \A p \in Range(output_cache[k].paths) :
                files[p] = ContentOf(output_cache[k]) \/ \E w \in Range(todo) : w.path = p

CompleteInv == complete => phase = "script"

IInv ==
    /\ OutputTypeOK
    /\ CacheInv
    /\ TodoInv
    /\ PendingInv
    /\ CompleteInv
    /\ WrittenByOwner
    /\ NoUnaskedOverwrite
    /\ FilesAreCurrent
-----------------------------------------------------------------------------
(* Identifiers and headers.                                                 *)

\* Twelve bits and a flag in two bytes.
LEMMA IdInTwoBytes ==
    ASSUME NEW id \in Nat, id <= 4095
    PROVE  /\ id % 4096 = id
           /\ id \div 256 \in 0 .. 15
           /\ id % 256 \in 0 .. 255
           /\ (id \div 256) * 256 + (id % 256) = id
           /\ (id + 4096) \div 256 = id \div 256 + 16
           /\ (id + 4096) % 256 = id % 256
  <1> DEFINE hi == id \div 256
             lo == id % 256
  <1>1. /\ hi \in 0 .. 15 /\ lo \in 0 .. 255 /\ hi * 256 + lo = id /\ id % 4096 = id
    OBVIOUS
  <1>2. id + 4096 = 256 * (hi + 16) + lo
    BY <1>1
  <1>3. (id + 4096) \div 256 = hi + 16 /\ (id + 4096) % 256 = lo
    <2> HIDE DEF hi, lo
    <2> QED
      BY <1>1, <1>2
  <1>4. QED
    BY <1>1, <1>3

\* The third byte with and without the flag.
LEMMA ThirdByte ==
    ASSUME NEW hi \in 0 .. 15
    PROVE  /\ IdHi(hi) = hi /\ IdHi(hi + 16) = hi
           /\ Flags(hi) = 0 /\ Flags(hi + 16) = RespMask
           /\ ~ Resp(hi) /\ Resp(hi + 16)
           /\ hi % 256 = hi /\ hi % 16 = hi
  BY DEF IdHi, Flags, Resp, RespMask

\* All writers write the same four bytes.
LEMMA SameBytes ==
    ASSUME NEW id \in Nat, id <= 4095, NEW len \in Byte, NEW txn \in Byte, NEW resp \in BOOLEAN
    PROVE  Written([len |-> len, txn |-> txn, resp |-> resp, rpc_id |-> id])
               = {<<len, txn, id \div 256 + (IF resp THEN 16 ELSE 0), id % 256>>}
  <1> DEFINE h == [len |-> len, txn |-> txn, resp |-> resp, rpc_id |-> id]
             third == id \div 256 + (IF resp THEN 16 ELSE 0)
             b == <<len, txn, third, id % 256>>
  <1>1. len % 256 = len /\ txn % 256 = txn
    BY DEF Byte
  <1>2. py_pack(h) = b
    <2>1. CASE resp
      BY <2>1, IdInTwoBytes DEF py_pack
    <2>2. CASE ~ resp
      BY <2>2, IdInTwoBytes DEF py_pack
    <2>3. QED
      BY <2>1, <2>2
  <1>3. (id \div 256) % 256 = id \div 256 /\ (id \div 256) % 16 = id \div 256
    <2> DEFINE hi == id \div 256
    <2>1. hi \in 0 .. 15
      BY IdInTwoBytes
    <2> HIDE DEF hi
    <2>2. hi % 256 = hi /\ hi % 16 = hi
      BY <2>1, ThirdByte
    <2>3. QED
      BY <2>2 DEF hi
  <1>4. compost_header_store(h) = b
    BY <1>1, <1>3 DEF compost_header_store, RespMask
  <1>5. cs_Write(h) = b
    BY <1>1, <1>3 DEF cs_Write, RespMask
  <1> HIDE DEF h, b
  <1>6. Written(h) = {b}
    BY <1>2, <1>4, <1>5 DEF Written
  <1>7. QED
    BY <1>6 DEF h, b

\* ... and all readers read the header back.
LEMMA HeaderSurvives ==
    ASSUME NEW id \in Nat, id <= 4095, NEW len \in Byte, NEW txn \in Byte, NEW resp \in BOOLEAN
    PROVE  Survives([len |-> len, txn |-> txn, resp |-> resp, rpc_id |-> id])
  <1> DEFINE h == [len |-> len, txn |-> txn, resp |-> resp, rpc_id |-> id]
             third == id \div 256 + (IF resp THEN 16 ELSE 0)
             b == <<len, txn, third, id % 256>>
  <1>1. Written(h) = {b}
    BY SameBytes
  <1>2. /\ IdHi(third) = id \div 256
        /\ Resp(third) = resp
        /\ Flags(third) = IF resp THEN RespMask ELSE 0
    <2> DEFINE hi == id \div 256
    <2>1. hi \in 0 .. 15
      BY IdInTwoBytes
    <2> HIDE DEF hi
    <2>2. /\ IdHi(hi) = hi /\ IdHi(hi + 16) = hi
          /\ Flags(hi) = 0 /\ Flags(hi + 16) = RespMask
          /\ ~ Resp(hi) /\ Resp(hi + 16)
      BY <2>1, ThirdByte
    <2>3. CASE resp
      <3>1. third = hi + 16
        BY <2>3, <2>1 DEF hi
      <3> HIDE DEF third
      <3>2. IdHi(third) = hi /\ Resp(third) /\ Flags(third) = RespMask
        BY <2>2, <3>1
      <3>3. Resp(third) \in BOOLEAN
        BY DEF Resp
      <3>4. Resp(third) = resp
        BY <2>3, <3>2, <3>3
      <3>5. QED
        BY <2>3, <3>2, <3>4 DEF hi
    <2>4. CASE ~ resp
      <3>1. third = hi
        BY <2>4, <2>1 DEF hi
      <3> HIDE DEF third
      <3>2. IdHi(third) = hi /\ ~ Resp(third) /\ Flags(third) = 0
        BY <2>2, <3>1
      <3>3. Resp(third) \in BOOLEAN
        BY DEF Resp
      <3>4. Resp(third) = resp
        BY <2>4, <3>2, <3>3
      <3>5. QED
        BY <2>4, <3>2, <3>4 DEF hi
    <2>5. QED
      BY <2>3, <2>4
  <1>3. (id \div 256) * 256 + (id % 256) = id
    BY IdInTwoBytes
  <1>4. b[1] = len /\ b[2] = txn /\ b[3] = third /\ b[4] = id % 256 /\ b # <<>>
    OBVIOUS
  <1> HIDE DEF b, third
  <1>5. py_unpack(b) = h /\ cs_Parse(b) = h
    BY <1>2, <1>3, <1>4 DEF py_unpack, cs_Parse
  <1>6. compost_header_load(b) = h
    BY <1>2, <1>3, <1>4 DEF compost_header_load, RespMask
  <1> HIDE DEF h
  <1>7. Read(b) = {h}
    BY <1>5, <1>6 DEF Read
  <1>8. Survives(h)
    BY <1>1, <1>4, <1>7 DEF Survives, Failed
  <1>9. QED
    BY <1>8 DEF h

\* Lengths and numbers at the edges fit into bytes.
LEMMA EdgeHeadersFit ==
    ASSUME NEW id, NEW h \in EdgeHeaders(id)
    PROVE  \E len \in Byte, txn \in Byte, resp \in BOOLEAN :
               h = [len |-> len, txn |-> txn, resp |-> resp, rpc_id |-> id]
  <1>1. PICK len \in {0, 255}, txn \in {0, 1, 255}, resp \in BOOLEAN :
            h = [len |-> len, txn |-> txn, resp |-> resp, rpc_id |-> id]
    BY DEF EdgeHeaders
  <1>2. len \in Byte /\ txn \in Byte
    BY DEF Byte
  <1>3. QED
    BY <1>1, <1>2

\* Whatever is registered by then passes through the headers.
LEMMA RegisteredSurvives ==
    RegisteredInv => IdsSurviveHeaders
  <1> SUFFICES ASSUME RegisteredInv, NEW id \in DOMAIN rpcs
               PROVE  (\A h \in EdgeHeaders(id) : Survives(h)) /\ id \notin {4078, 4079}
    BY DEF IdsSurviveHeaders
  <1>1. id \in Nat /\ id <= 3840
    BY DefinitionAssumption DEF RegisteredInv
  <1>2. id <= 4095
    BY <1>1
  <1>3. id # 4078
    BY <1>1
  <1>4. id # 4079
    BY <1>1
  <1>5. ASSUME NEW h \in EdgeHeaders(id)
        PROVE  Survives(h)
    <2>1. PICK len \in Byte, txn \in Byte, resp \in BOOLEAN :
              h = [len |-> len, txn |-> txn, resp |-> resp, rpc_id |-> id]
      BY EdgeHeadersFit
    <2>2. QED
      BY <1>1, <1>2, <2>1, HeaderSurvives
  <1>6. QED
    BY <1>3, <1>4, <1>5
-----------------------------------------------------------------------------
(* What the definition files register.                                      *)

LEMMA InitRegistered ==
    ASSUME Init
    PROVE  RegisteredInv
  BY DEF Init, NothingDefined, RegisteredInv

LEMMA NextRegistered ==
    ASSUME RegisteredInv, [Next]_vars
    PROVE  RegisteredInv'
  <1>1. ASSUME NEW id \in Ids, NEW call \in Calls, rpc(id, call)
        PROVE  RegisteredInv'
    <2>1. /\ rpcs' = Entered(rpcs, {id}, call)
          /\ 0 <= id /\ id <= 3840
      BY <1>1, DefinitionAssumption DEF rpc, validate_rpc_id
    <2>2. /\ DOMAIN rpcs' = DOMAIN rpcs \cup {id}
          /\ \A i \in DOMAIN rpcs' : rpcs'[i] = IF i = id THEN call ELSE rpcs[i]
      BY <2>1 DEF Entered
    <2>3. QED
      BY <2>1, <2>2 DEF RegisteredInv
  <1>2. CASE UNCHANGED rpcs
    BY <1>2 DEF RegisteredInv
  <1>3. CASE Import
    <2>1. ASSUME NEW members \in Members, struct(members)
          PROVE  UNCHANGED rpcs
      BY <2>1 DEF struct
    <2>2. enum => UNCHANGED rpcs
      BY DEF enum
    <2>3. QED
      BY <1>1, <1>2, <1>3, <2>1, <2>2 DEF Import, Define
  <1>4. ASSUME NEW g \in CodeGenerators, NEW endpoint \in Endpoint, NEW location \in Settings,
               generate(g, endpoint, location)
        PROVE  UNCHANGED rpcs
    BY <1>4 DEF generate, definitions
  <1>5. enter => UNCHANGED rpcs
    BY DEF enter, definitions
  <1>6. Run => UNCHANGED rpcs
    BY DEF Run, explicit_run, exit, run, answer, answer_none, write, write_raises, written,
           definitions
  <1>7. UNCHANGED vars => UNCHANGED rpcs
    BY DEF vars, definitions
  <1>8. QED
    BY <1>2, <1>3, <1>4, <1>5, <1>6, <1>7 DEF Next

\* Whatever the definition files ask for, and in whatever order they are read, a
\* call that _validate_rpc_id let into Protocol._rpcs passes through the headers
\* of all three languages and is not one of their error messages.
THEOREM IdsSurvive ==
    Spec => []IdsSurviveHeaders
  <1>1. Init => RegisteredInv
    BY InitRegistered
  <1>2. RegisteredInv /\ [Next]_vars => RegisteredInv'
    BY NextRegistered
  <1>3. RegisteredInv => IdsSurviveHeaders
    BY RegisteredSurvives
  <1>4. QED
    BY <1>1, <1>2, <1>3, PTL DEF Spec
-----------------------------------------------------------------------------
(* What the two endpoints send and handle.                                  *)

\* A call that the C generator accepts for an endpoint has its invoke function
\* exactly if it has its case in compost_invoke_switch.
LEMMA CaseHasFunction ==
    ASSUME NEW endpoint \in Endpoint, NEW call \in Calls, supported("c", endpoint, call)
    PROVE  ~ (call.notification /\ ~ is_call_inbound(endpoint, call))
               <=> is_call_inbound(endpoint, call)
  BY DEF Endpoint, Calls, CallDirection, supported, features, c_features, is_call_inbound,
         is_call_outbound

\* A call that both sides accept and one side sends, the other side handles.
LEMMA SentIsHandled ==
    ASSUME NEW call \in Calls,
           NEW g \in CodeGenerators, NEW h \in CodeGenerators, "c" \in {g, h},
           NEW e \in Endpoint, NEW f \in Endpoint, e # f,
           supported(g, e, call), supported(h, f, call),
           IF g = "c" THEN call.notification /\ is_call_outbound(e, call)
                      ELSE ~ call.notification
    PROVE  IF h = "c" THEN ~ (call.notification /\ ~ is_call_inbound(f, call))
                      ELSE call.notification
  BY DEF Endpoint, Calls, CallDirection, CodeGenerators, supported, features, c_features,
         cs_features, is_call_inbound, is_call_outbound

LEMMA RegisteredAgree ==
    RegisteredInv => EndpointsAgree
  <1> SUFFICES ASSUME RegisteredInv
               PROVE  EndpointsAgree
    OBVIOUS
  <1>1. \A id \in DOMAIN rpcs : rpcs[id] \in Calls
    BY DEF RegisteredInv
  <1>2. ASSUME NEW endpoint \in Endpoint, validate_endpoint("c", endpoint)
        PROVE  switch_cases(endpoint) = invoke_fns(endpoint)
    <2>1. \A id \in DOMAIN rpcs : supported("c", endpoint, rpcs[id])
      BY <1>2 DEF validate_endpoint
    <2>2. QED
      BY <1>1, <2>1, CaseHasFunction DEF switch_cases, invoke_fns
  <1>3. ASSUME NEW g \in CodeGenerators, NEW h \in CodeGenerators, "c" \in {g, h},
               NEW e \in Endpoint, NEW f \in Endpoint, e # f,
               validate_endpoint(g, e), validate_endpoint(h, f)
        PROVE  Sends(g, e) \subseteq Handles(h, f)
    <2> SUFFICES ASSUME NEW id \in Sends(g, e)
                 PROVE  id \in Handles(h, f)
      OBVIOUS
    <2>1. /\ id \in DOMAIN rpcs
          /\ IF g = "c" THEN rpcs[id].notification /\ is_call_outbound(e, rpcs[id])
                        ELSE ~ rpcs[id].notification
      BY DEF Sends, notif_stores, methods
    <2>2. supported(g, e, rpcs[id]) /\ supported(h, f, rpcs[id])
      BY <1>3, <2>1 DEF validate_endpoint
    <2>3. IF h = "c" THEN ~ (rpcs[id].notification /\ ~ is_call_inbound(f, rpcs[id]))
                     ELSE rpcs[id].notification
      BY <1>1, <1>3, <2>1, <2>2, SentIsHandled
    <2>4. QED
      BY <2>1, <2>3 DEF Handles, switch_cases, events
  <1>4. "LOCAL" \in Endpoint /\ "REMOTE" \in Endpoint /\ "LOCAL" # "REMOTE"
    BY DEF Endpoint
  <1>5. QED
    BY <1>2, <1>3, <1>4 DEF EndpointsAgree

\* If code can be generated for both endpoints, one of them in C, then whatever
\* one side can send, the other side handles, and every case of
\* compost_invoke_switch has its invoke function: for every set of calls that
\* definition files can register.
THEOREM EndpointsFit ==
    Spec => []EndpointsAgree
  <1>1. Init => RegisteredInv
    BY InitRegistered
  <1>2. RegisteredInv /\ [Next]_vars => RegisteredInv'
    BY NextRegistered
  <1>3. RegisteredInv => EndpointsAgree
    BY RegisteredAgree
  <1>4. QED
    BY <1>1, <1>2, <1>3, PTL DEF Spec
-----------------------------------------------------------------------------
(* What generate() registers and what run() writes.                         *)

\* The paths that generate() returns.
LEMMA ResultPaths ==
    ASSUME NEW g \in CodeGenerators, NEW location \in Settings
    PROVE  Result(g, location) \in Seq(Paths)
  <1> DEFINE kinds == IF g = "c" THEN <<"h", "c">>
                      ELSE IF Structs # {} \/ enums > 0 THEN <<"cs", "types">> ELSE <<"cs">>
  <1>1. kinds \in Seq(Kinds)
    <2>1. "h" \in Kinds /\ "c" \in Kinds /\ "cs" \in Kinds /\ "types" \in Kinds
      BY DEF Kinds
    <2>2. <<"h", "c">> \in Seq(Kinds) /\ <<"cs", "types">> \in Seq(Kinds) /\ <<"cs">> \in Seq(Kinds)
      BY <2>1
    <2>3. QED
      BY <2>2
  <1>2. Result(g, location) = [k \in DOMAIN kinds |-> <<kinds[k], location[kinds[k]]>>]
    BY DEF Result
  <1>3. location \in [Kinds -> Locations]
    BY DEF Settings
  <1> HIDE DEF kinds
  <1>4. \A k \in DOMAIN kinds : <<kinds[k], location[kinds[k]]>> \in Paths
    BY <1>1, <1>3 DEF Paths
  <1>5. DOMAIN kinds = 1 .. Len(kinds) /\ Len(kinds) \in Nat
    BY <1>1
  <1>6. QED
    BY <1>2, <1>4, <1>5

\* The loop of the wrapper registers free paths only.
LEMMA RegisteredPaths ==
    ASSUME NEW paths \in Seq(Paths)
    PROVE  /\ Registered(paths) \in Seq(Paths)
           /\ \A p \in Range(Registered(paths)) : p \in Range(paths) /\ ~ Taken(p)
  <1> DEFINE I == {i \in 1 .. Len(paths) : Taken(paths[i])}
             at == SelectInSeq(paths, LAMBDA p : Taken(p))
  <1>a. Registered(paths) = IF at = 0 THEN paths ELSE SubSeq(paths, 1, at - 1)
    BY DEF Registered
  <1>1. CASE I = {}
    <2>1. at = 0
      BY <1>1 DEF SelectInSeq
    <2>2. Registered(paths) = paths
      BY <2>1, <1>a, Zenon
    <2>3. QED
      BY <1>1, <2>2 DEF Range
  <1>2. CASE I # {}
    <2>1. at = Min(I)
      BY <1>2 DEF SelectInSeq
    <2>2. I \subseteq Nat
      OBVIOUS
    <2>3. Min(I) \in I /\ \A m \in I : Min(I) <= m
      <3>1. \E n \in I : \A m \in I : n <= m
        BY <1>2, <2>2, Smallest
      <3> HIDE DEF I
      <3>2. QED
        BY <3>1 DEF Min
    <2>4. at \in I /\ at \in 1 .. Len(paths) /\ \A m \in I : at <= m
      BY <2>1, <2>3
    <2> DEFINE r == SubSeq(paths, 1, at - 1)
    <2> HIDE DEF at
    <2>5. Registered(paths) = r
      BY <2>4, <1>a
    <2>6. r \in Seq(Paths) /\ Len(r) = at - 1 /\ \A i \in 1 .. at - 1 : r[i] = paths[i]
      BY <2>4
    <2>7. \A i \in 1 .. at - 1 : i \in DOMAIN paths /\ ~ Taken(paths[i])
      BY <2>4
    <2> HIDE DEF r
    <2>8. \A p \in Range(r) : p \in Range(paths) /\ ~ Taken(p)
      BY <2>6, <2>7 DEF Range
    <2>9. QED
      BY <2>5, <2>6, <2>8
  <1>3. QED
    BY <1>1, <1>2

\* The files that the loops of run() write, for any response.
LEMMA WritesOf ==
    ASSUME NEW response, OutputTypeOK, CacheInv
    PROVE  /\ Writes(response) \in Seq([path : Paths, content : Content])
           /\ \A w : w \in Range(Writes(response)) <=>
                  \E k \in DOMAIN output_cache :
                      /\ IsWritten(output_cache[k].key, response)
                      /\ \E p \in Range(output_cache[k].paths) :
                             w = [path |-> p, content |-> ContentOf(output_cache[k])]
  <1> DEFINE W == [path : Paths, content : Content]
             part(k) == IF IsWritten(output_cache[k].key, response)
                        THEN [f \in DOMAIN output_cache[k].paths |->
                                 [path |-> output_cache[k].paths[f],
                                  content |-> ContentOf(output_cache[k])]]
                        ELSE <<>>
             parts == [k \in DOMAIN output_cache |-> part(k)]
  <1>1. Writes(response) = FlattenSeq(parts)
    BY DEF Writes, ContentOf
  <1>2. output_cache \in Seq(Item) /\ Len(output_cache) \in Nat
        /\ DOMAIN output_cache = 1 .. Len(output_cache)
    BY DEF CacheInv
  <1>3. ASSUME NEW k \in DOMAIN output_cache
        PROVE  /\ part(k) \in Seq(W)
               /\ \A w : w \in Range(part(k)) <=>
                      /\ IsWritten(output_cache[k].key, response)
                      /\ \E p \in Range(output_cache[k].paths) :
                             w = [path |-> p, content |-> ContentOf(output_cache[k])]
    <2>1. output_cache[k] \in Item
      BY <1>2, <1>3
    <2> DEFINE c == ContentOf(output_cache[k])
               paths == output_cache[k].paths
    <2>2. paths \in Seq(Paths) /\ c \in Content
      BY <2>1 DEF Item, ContentOf, Content
    <2> HIDE DEF c, paths
    <2>3. \A f \in DOMAIN paths : [path |-> paths[f], content |-> c] \in W
      BY <2>2
    <2>4. DOMAIN paths = 1 .. Len(paths) /\ Len(paths) \in Nat
      BY <2>2
    <2> DEFINE s == [f \in DOMAIN paths |-> [path |-> paths[f], content |-> c]]
    <2> HIDE DEF W
    <2>5. s \in Seq(W)
      BY <2>3, <2>4
    <2>6. \A w : w \in Range(s) <=> \E p \in Range(paths) : w = [path |-> p, content |-> c]
      BY DEF Range
    <2>7. part(k) = IF IsWritten(output_cache[k].key, response) THEN s ELSE <<>>
      BY DEF c, paths
    <2> HIDE DEF s, part
    <2>8. <<>> \in Seq(W) /\ Range(<<>>) = {}
      BY DEF Range
    <2>9. CASE IsWritten(output_cache[k].key, response)
      BY <2>5, <2>6, <2>7, <2>9, Zenon DEF c, paths
    <2>10. CASE ~ IsWritten(output_cache[k].key, response)
      <3>1. part(k) = <<>>
        BY <2>7, <2>10
      <3>2. QED
        BY <2>8, <2>10, <3>1, Zenon
    <2>11. QED
      BY <2>9, <2>10
  <1> HIDE DEF W, part
  <1>4. parts \in Seq(Seq(W)) /\ DOMAIN parts = DOMAIN output_cache
        /\ \A k \in DOMAIN output_cache : parts[k] = part(k)
    BY <1>2, <1>3
  <1> HIDE DEF parts
  <1>5. /\ FlattenSeq(parts) \in Seq(W)
        /\ \A e : e \in Range(FlattenSeq(parts)) <=> \E k \in DOMAIN parts : e \in Range(parts[k])
    BY <1>4, FlattenRange
  <1>6. \A e : e \in Range(FlattenSeq(parts))
            <=> \E k \in DOMAIN output_cache : e \in Range(part(k))
    BY <1>4, <1>5, Zenon
  <1>7. Writes(response) \in Seq([path : Paths, content : Content])
    BY <1>1, <1>5 DEF W
  <1> DEFINE Of(w, k) == /\ IsWritten(output_cache[k].key, response)
                         /\ \E p \in Range(output_cache[k].paths) :
                                w = [path |-> p, content |-> ContentOf(output_cache[k])]
  <1>8. \A k \in DOMAIN output_cache : \A w : w \in Range(part(k)) <=> Of(w, k)
    BY <1>3
  <1> HIDE DEF Of
  <1>9. \A w : w \in Range(Writes(response)) <=> \E k \in DOMAIN output_cache : Of(w, k)
    BY <1>1, <1>6, <1>8, Zenon
  <1>10. QED
    BY <1>7, <1>9, Zenon DEF Of

\* The keys of the files that exist.
LEMMA Overwritten ==
    ASSUME CacheInv
    PROVE  /\ Cached \subseteq Keys /\ to_overwrite \subseteq Cached
           /\ \A k \in DOMAIN output_cache :
                  output_cache[k].key \in to_overwrite <=> Existing(output_cache[k]) # {}
  <1>1. \A k \in DOMAIN output_cache : output_cache[k] \in Item
    BY DEF CacheInv
  <1>2. Cached \subseteq Keys
    BY <1>1 DEF Cached, Item
  <1>3. \A key : key \in to_overwrite <=>
            \E k \in DOMAIN output_cache : key = output_cache[k].key /\ Existing(output_cache[k]) # {}
    BY DEF to_overwrite, Range
  <1>4. to_overwrite \subseteq Cached
    BY <1>3 DEF Cached
  <1>5. ASSUME NEW k \in DOMAIN output_cache
        PROVE  output_cache[k].key \in to_overwrite <=> Existing(output_cache[k]) # {}
    <2>1. \A j \in DOMAIN output_cache : output_cache[j].key = output_cache[k].key => j = k
      BY <1>5 DEF CacheInv
    <2>2. QED
      BY <1>3, <2>1, Zenon
  <1>6. QED
    BY <1>2, <1>4, <1>5

\* The names that the user types tell the outputs apart.
LEMMA NamesTellApart ==
    ASSUME CacheInv, NEW a \in Cached, NEW b \in Cached, as_typed_str(a) = as_typed_str(b)
    PROVE  a = b
  <1>1. a \in Keys /\ b \in Keys
    BY Overwritten
  <1>2. PICK g \in CodeGenerators, e \in Endpoint : a = <<g, e>>
    BY <1>1 DEF Keys
  <1>3. PICK h \in CodeGenerators, f \in Endpoint : b = <<h, f>>
    BY <1>1 DEF Keys
  <1>4. as_typed_str(a)[1] = g /\ as_typed_str(b)[1] = h
    BY <1>2, <1>3 DEF as_typed_str
  <1>5. g = h
    BY <1>4
  <1>6. SUFFICES ASSUME a # b
                 PROVE  FALSE
    OBVIOUS
  <1>7. a[1] = b[1]
    BY <1>2, <1>3, <1>5
  <1>8. as_typed_str(a) = a /\ as_typed_str(b) = b
    BY <1>6, <1>7 DEF as_typed_str
  <1>9. QED
    BY <1>6, <1>8
-----------------------------------------------------------------------------
(* Every step keeps the invariant.                                          *)

LEMMA EmptyRange == Range(<<>>) = {}
  BY DEF Range

LEMMA InitIInv ==
    ASSUME Init
    PROVE  IInv
  <1>1. PICK present \in SUBSET Paths :
            files = [p \in Paths |-> IF p \in present THEN Foreign ELSE Absent]
    BY DEF Init
  <1>2. /\ force = FALSE /\ in_with = FALSE /\ output_cache = <<>> /\ path_cache = <<>>
        /\ defined = 0 /\ generates = 0 /\ phase = "script" /\ todo = <<>>
        /\ existed = {} /\ wanted = {} /\ complete = FALSE
    BY DEF Init
  <1>3. OutputTypeOK
    <2>1. files \in [Paths -> {Absent, Foreign} \cup Content]
      BY <1>1
    <2>2. /\ DOMAIN path_cache = {}
          /\ todo \in Seq([path : Paths, content : Content])
      BY <1>2
    <2>3. generates \in 0 .. MaxGenerates /\ defined \in 0 .. generates
      BY <1>2, GeneratorAssumption
    <2>4. QED
      BY <1>2, <2>1, <2>2, <2>3 DEF OutputTypeOK
  <1>4. CacheInv
    BY <1>2 DEF CacheInv
  <1>5. TodoInv /\ NoUnaskedOverwrite
    BY <1>2, EmptyRange DEF TodoInv, NoUnaskedOverwrite
  <1>6. PendingInv /\ CompleteInv /\ FilesAreCurrent
    BY <1>2 DEF PendingInv, CompleteInv, FilesAreCurrent
  <1>7. WrittenByOwner
    <2>1. Foreign \notin Content /\ Absent \notin Content
      BY DEF Foreign, Absent, Content, Keys
    <2>2. QED
      BY <1>1, <2>1 DEF WrittenByOwner
  <1>8. QED
    BY <1>3, <1>4, <1>5, <1>6, <1>7 DEF IInv

\* The script has the word, and what was written by the last run() need not be
\* all.
LEMMA ScriptState ==
    ASSUME OutputTypeOK', CacheInv', WrittenByOwner',
           phase' = "script", todo' = <<>>, complete' = FALSE
    PROVE  IInv'
  <1>1. TodoInv' /\ NoUnaskedOverwrite'
    BY EmptyRange DEF TodoInv, NoUnaskedOverwrite
  <1>2. PendingInv' /\ CompleteInv' /\ FilesAreCurrent'
    BY DEF PendingInv, CompleteInv, FilesAreCurrent
  <1>3. QED
    BY <1>1, <1>2 DEF IInv

LEMMA SameOutput ==
    ASSUME IInv, UNCHANGED <<cache, output>>
    PROVE  IInv'
  <1>1. /\ UNCHANGED <<in_with, output_cache, path_cache, defined, generates>>
        /\ UNCHANGED <<force, files, phase, todo, existed, wanted, complete>>
    BY DEF cache, output
  <1>2. OutputTypeOK' /\ CacheInv'
    BY <1>1 DEF IInv, OutputTypeOK, CacheInv
  <1>3. TodoInv' /\ PendingInv' /\ CompleteInv'
    BY <1>1 DEF IInv, TodoInv, Exists, PendingInv, Agreed, CompleteInv
  <1>4. WrittenByOwner' /\ NoUnaskedOverwrite' /\ FilesAreCurrent'
    BY <1>1 DEF IInv, WrittenByOwner, NoUnaskedOverwrite, FilesAreCurrent
  <1>5. QED
    BY <1>2, <1>3, <1>4 DEF IInv

LEMMA EnterKeeps ==
    ASSUME IInv, enter
    PROVE  IInv'
  <1>1. /\ phase = "script" /\ in_with' = TRUE /\ output_cache' = <<>> /\ complete' = FALSE
        /\ UNCHANGED <<path_cache, defined, generates, force, files, phase, todo, existed, wanted>>
    BY DEF enter, Script
  <1>2. OutputTypeOK' /\ CacheInv' /\ WrittenByOwner'
    <2>1. OutputTypeOK'
      BY <1>1 DEF IInv, OutputTypeOK
    <2>2. CacheInv'
      BY <1>1 DEF CacheInv
    <2>3. WrittenByOwner'
      BY <1>1 DEF IInv, WrittenByOwner
    <2>4. QED
      BY <2>1, <2>2, <2>3
  <1>3. todo' = <<>>
    BY <1>1 DEF IInv, TodoInv
  <1>4. QED
    BY <1>1, <1>2, <1>3, ScriptState

LEMMA GenerateKeeps ==
    ASSUME IInv, NEW g \in CodeGenerators, NEW endpoint \in Endpoint, NEW location \in Settings,
           generate(g, endpoint, location)
    PROVE  IInv'
  <1> DEFINE paths == Result(g, location)
             r == Registered(paths)
             key == <<g, endpoint>>
             item == [key |-> key, paths |-> paths, defined |-> defined']
  <1>1. /\ phase = "script" /\ generates < MaxGenerates /\ generates' = generates + 1
        /\ defined' \in {defined, defined + 1} /\ complete' = FALSE
        /\ UNCHANGED <<in_with, force, files, phase, todo, existed, wanted>>
    BY DEF generate, Script, define_types
  <1>2. \/ UNCHANGED <<output_cache, path_cache>>
        \/ /\ key \notin Cached
           /\ path_cache' = Entered(path_cache, Range(r), key)
           /\ output_cache' = IF r = paths THEN Append(output_cache, item) ELSE output_cache
    BY DEF generate
  <1>3. generates' \in 0 .. MaxGenerates /\ defined' \in 0 .. generates' /\ defined <= defined'
    BY <1>1, GeneratorAssumption DEF IInv, OutputTypeOK
  <1>4. paths \in Seq(Paths) /\ r \in Seq(Paths)
        /\ \A p \in Range(r) : p \in Range(paths) /\ p \notin DOMAIN path_cache
    BY ResultPaths, RegisteredPaths DEF Taken
  <1>5. key \in Keys /\ Range(r) \subseteq Paths
    BY <1>4 DEF Keys, Range
  <1> HIDE DEF paths, r, key
  <1>6. item \in Item
    BY <1>3, <1>4, <1>5, GeneratorAssumption DEF Item
  <1>7. item.key = key /\ item.paths = paths /\ item.defined = defined'
    OBVIOUS
  <1> HIDE DEF item
  <1>8. /\ DOMAIN path_cache \subseteq DOMAIN path_cache'
        /\ \A p \in DOMAIN path_cache : path_cache'[p] = path_cache[p]
        /\ \A p \in DOMAIN path_cache' \ DOMAIN path_cache : p \in Paths /\ path_cache'[p] = key
        /\ UNCHANGED path_cache \/ \A p \in Range(r) : p \in DOMAIN path_cache' /\ path_cache'[p] = key
    BY <1>2, <1>4, <1>5 DEF Entered
  <1>9. OutputTypeOK'
    <2>1. /\ DOMAIN path_cache' \subseteq Paths
          /\ \A p \in DOMAIN path_cache' : path_cache'[p] \in Keys
      BY <1>5, <1>8 DEF IInv, OutputTypeOK
    <2>2. QED
      BY <1>1, <1>3, <2>1 DEF IInv, OutputTypeOK
  <1>10. WrittenByOwner'
    BY <1>1, <1>8 DEF IInv, WrittenByOwner
  <1>11. ASSUME NEW k \in DOMAIN output_cache
         PROVE  /\ output_cache[k].defined \in 0 .. defined'
                /\ \A p \in Range(output_cache[k].paths) :
                       p \in DOMAIN path_cache' /\ path_cache'[p] = output_cache[k].key
    <2>1. defined \in Nat /\ defined' \in Nat
      BY <1>3 DEF IInv, OutputTypeOK
    <2>2. output_cache[k].defined \in 0 .. defined
      BY <1>11 DEF IInv, CacheInv
    <2>3. QED
      BY <1>3, <1>8, <1>11, <2>1, <2>2 DEF IInv, CacheInv
  <1>12. CacheInv'
    <2>1. CASE UNCHANGED output_cache
      BY <1>11, <2>1 DEF IInv, CacheInv
    <2>2. CASE /\ key \notin Cached
               /\ path_cache' = Entered(path_cache, Range(r), key)
               /\ r = paths
               /\ output_cache' = Append(output_cache, item)
      <3>1. /\ output_cache \in Seq(Item) /\ Len(output_cache) \in Nat
            /\ DOMAIN output_cache = 1 .. Len(output_cache)
        BY DEF IInv, CacheInv
      <3> DEFINE n == Len(output_cache) + 1
      <3>2. /\ output_cache' \in Seq(Item) /\ DOMAIN output_cache' = DOMAIN output_cache \cup {n}
            /\ n \notin DOMAIN output_cache /\ output_cache'[n] = item
            /\ \A k \in DOMAIN output_cache : output_cache'[k] = output_cache[k]
        BY <1>6, <2>2, <3>1
      <3> HIDE DEF n
      <3>3. \A k \in DOMAIN output_cache : output_cache[k].key # key
        BY <2>2 DEF Cached
      <3>4. \A j, k \in DOMAIN output_cache' : output_cache'[j].key = output_cache'[k].key => j = k
        BY <1>7, <3>2, <3>3 DEF IInv, CacheInv
      <3>5. \A p \in Range(paths) : p \in DOMAIN path_cache' /\ path_cache'[p] = key
        BY <2>2 DEF Entered
      <3>6. /\ item.defined \in 0 .. defined'
            /\ \A p \in Range(item.paths) : p \in DOMAIN path_cache' /\ path_cache'[p] = item.key
        <4>1. defined' \in 0 .. defined'
          BY <1>3
        <4>2. QED
          BY <1>7, <3>5, <4>1
      <3>7. QED
        BY <1>11, <3>2, <3>4, <3>6 DEF CacheInv
    <2>3. QED
      BY <1>2, <2>1, <2>2
  <1>13. todo' = <<>>
    BY <1>1 DEF IInv, TodoInv
  <1>14. QED
    BY <1>1, <1>9, <1>10, <1>12, <1>13, ScriptState

\* run() has settled what it writes: the outputs of which no file exists, and
\* those that the user, or the force flag, named.
LEMMA StartWriting ==
    ASSUME IInv, NEW keys \in SUBSET to_overwrite,
           UNCHANGED <<output_cache, path_cache, defined, generates, files>>,
           force' \in BOOLEAN, in_with' \in BOOLEAN, complete' = FALSE,
           phase' = "write",
           existed' = {p \in Paths : Exists(p)},
           wanted' = keys,
           todo' = Writes({as_typed_str(key) : key \in keys})
    PROVE  IInv'
  <1> DEFINE response == {as_typed_str(key) : key \in keys}
  <1> USE DEF IInv
  <1>1. /\ Cached \subseteq Keys /\ to_overwrite \subseteq Cached
        /\ \A k \in DOMAIN output_cache :
               output_cache[k].key \in to_overwrite <=> Existing(output_cache[k]) # {}
    BY Overwritten
  <1>2. \A k \in DOMAIN output_cache :
            IsWritten(output_cache[k].key, response) <=> Agreed(output_cache[k])'
    <2> SUFFICES ASSUME NEW k \in DOMAIN output_cache
                 PROVE  IsWritten(output_cache[k].key, response) <=> Agreed(output_cache[k])'
      OBVIOUS
    <2>1. Existing(output_cache[k]) = Range(output_cache[k].paths) \cap existed'
      <3>1. output_cache[k] \in Item
        BY DEF CacheInv
      <3>2. Range(output_cache[k].paths) \subseteq Paths
        BY <3>1 DEF Item, Range
      <3>3. QED
        BY <3>2 DEF Existing
    <2>2. output_cache[k].key \in to_overwrite <=> Range(output_cache[k].paths) \cap existed' # {}
      BY <1>1, <2>1, Zenon
    <2>3. output_cache[k].key \in Cached
      BY DEF Cached
    <2>4. as_typed_str(output_cache[k].key) \in response <=> output_cache[k].key \in keys
      <3>1. \A key \in keys : key \in Cached
        BY <1>1
      <3>2. \A key \in keys : as_typed_str(output_cache[k].key) = as_typed_str(key)
                => output_cache[k].key = key
        BY <2>3, <3>1, NamesTellApart
      <3>3. QED
        BY <3>2
    <2> HIDE DEF response
    <2>5. Agreed(output_cache[k])' <=>
              (Range(output_cache[k].paths) \cap existed' # {} => output_cache[k].key \in keys)
      BY DEF Agreed
    <2>6. QED
      BY <2>2, <2>4, <2>5, Zenon DEF IsWritten
  <1> HIDE DEF response
  <1>3. /\ todo' \in Seq([path : Paths, content : Content])
        /\ \A w : w \in Range(todo') <=>
               \E k \in DOMAIN output_cache :
                   /\ IsWritten(output_cache[k].key, response)
                   /\ \E p \in Range(output_cache[k].paths) :
                          w = [path |-> p, content |-> ContentOf(output_cache[k])]
    <2>1. todo' = Writes(response)
      BY DEF response
    <2>2. OutputTypeOK /\ CacheInv
      OBVIOUS
    <2>3. /\ Writes(response) \in Seq([path : Paths, content : Content])
          /\ \A w : w \in Range(Writes(response)) <=>
                 \E k \in DOMAIN output_cache :
                     /\ IsWritten(output_cache[k].key, response)
                     /\ \E p \in Range(output_cache[k].paths) :
                            w = [path |-> p, content |-> ContentOf(output_cache[k])]
      BY <2>2, WritesOf
    <2>4. QED
      BY <2>1, <2>3, Zenon
  <1>4. OutputTypeOK'
    BY <1>1, <1>3 DEF OutputTypeOK
  <1>5. CacheInv' /\ WrittenByOwner'
    BY DEF CacheInv, WrittenByOwner
  <1>6. TodoInv'
    <2>1. \A w \in Range(todo') : \E k \in DOMAIN output_cache :
              w.path \in Range(output_cache[k].paths) /\ w.content = ContentOf(output_cache[k])
      BY <1>3
    <2>2. QED
      BY <2>1 DEF TodoInv, ContentOf
  <1>7. PendingInv'
    <2> SUFFICES ASSUME NEW k \in DOMAIN output_cache, Agreed(output_cache[k])',
                        NEW p \in Range(output_cache[k].paths)
                 PROVE  \E w \in Range(todo') : w.path = p
      BY DEF PendingInv, Agreed
    <2>1. IsWritten(output_cache[k].key, response)
      BY <1>2
    <2>2. [path |-> p, content |-> ContentOf(output_cache[k])] \in Range(todo')
      BY <1>3, <2>1
    <2>3. QED
      BY <2>2
  <1>8. NoUnaskedOverwrite'
    <2> SUFFICES ASSUME NEW w \in Range(todo'), w.path \in existed'
                 PROVE  w.content.key \in keys
      BY DEF NoUnaskedOverwrite
    <2>1. PICK k \in DOMAIN output_cache :
              /\ IsWritten(output_cache[k].key, response)
              /\ \E p \in Range(output_cache[k].paths) :
                     w = [path |-> p, content |-> ContentOf(output_cache[k])]
      BY <1>3
    <2>2. w.path \in Range(output_cache[k].paths) /\ w.content.key = output_cache[k].key
      BY <2>1 DEF ContentOf
    <2>3. Agreed(output_cache[k])'
      BY <1>2, <2>1
    <2>4. QED
      BY <2>2, <2>3 DEF Agreed
  <1>9. CompleteInv' /\ FilesAreCurrent'
    BY DEF CompleteInv, FilesAreCurrent
  <1>10. QED
    BY <1>4, <1>5, <1>6, <1>7, <1>8, <1>9

LEMMA RunKeeps ==
    ASSUME IInv, NEW forced \in BOOLEAN, phase = "script", run(forced), in_with' \in BOOLEAN
    PROVE  IInv'
  <1>1. /\ force' = forced /\ complete' = FALSE
        /\ existed' = {p \in Paths : Exists(p)}
        /\ UNCHANGED <<output_cache, path_cache, defined, generates, files>>
    BY DEF run
  <1>2. CASE to_overwrite = {} \/ forced
    <2>1. /\ phase' = "write"
          /\ todo' = Writes({as_typed_str(key) : key \in to_overwrite})
          /\ wanted' = to_overwrite
      BY <1>2 DEF run
    <2>2. QED
      BY <1>1, <2>1, StartWriting
  <1>3. CASE ~ (to_overwrite = {} \/ forced)
    <2>1. phase' = "ask" /\ UNCHANGED <<todo, wanted>>
      BY <1>3 DEF run
    <2>2. todo = <<>>
      BY DEF IInv, TodoInv
    <2>3. OutputTypeOK'
      BY <1>1, <2>1 DEF IInv, OutputTypeOK
    <2>4. CacheInv' /\ WrittenByOwner'
      BY <1>1 DEF IInv, CacheInv, WrittenByOwner
    <2>5. TodoInv' /\ NoUnaskedOverwrite'
      BY <1>1, <2>1, <2>2, EmptyRange DEF TodoInv, NoUnaskedOverwrite, Exists
    <2>6. PendingInv' /\ CompleteInv' /\ FilesAreCurrent'
      BY <1>1, <2>1 DEF PendingInv, CompleteInv, FilesAreCurrent
    <2>7. QED
      BY <2>3, <2>4, <2>5, <2>6 DEF IInv
  <1>4. QED
    BY <1>2, <1>3

LEMMA AnswerKeeps ==
    ASSUME IInv, NEW keys \in SUBSET to_overwrite, answer(keys)
    PROVE  IInv'
  <1>1. /\ phase = "ask" /\ wanted' = keys /\ phase' = "write"
        /\ todo' = Writes({as_typed_str(key) : key \in keys})
        /\ UNCHANGED <<in_with, output_cache, path_cache, defined, generates, force, files, existed,
                       complete>>
    BY DEF answer, cache
  <1>2. existed' = {p \in Paths : Exists(p)} /\ complete' = FALSE
    BY <1>1 DEF IInv, TodoInv, CompleteInv, OutputTypeOK
  <1>3. force' \in BOOLEAN /\ in_with' \in BOOLEAN
    BY <1>1 DEF IInv, OutputTypeOK
  <1>4. QED
    BY <1>1, <1>2, <1>3, StartWriting

\* run() returns, or raises, before it has written everything.
LEMMA CutShortKeeps ==
    ASSUME IInv, phase # "script", Ended, UNCHANGED <<cache, complete>>,
           files' \in [Paths -> {Absent, Foreign} \cup Content], WrittenByOwner'
    PROVE  IInv'
  <1>1. /\ phase' = "script" /\ todo' = <<>> /\ existed' = {} /\ wanted' = {} /\ force' = FALSE
        /\ UNCHANGED <<in_with, output_cache, path_cache, defined, generates, complete>>
    BY DEF Ended, cache
  <1>2. complete' = FALSE
    BY <1>1 DEF IInv, CompleteInv, OutputTypeOK
  <1>3. OutputTypeOK'
    <2>1. <<>> \in Seq([path : Paths, content : Content])
      OBVIOUS
    <2>2. QED
      BY <1>1, <2>1 DEF IInv, OutputTypeOK
  <1>4. CacheInv'
    BY <1>1 DEF IInv, CacheInv
  <1>5. QED
    BY <1>1, <1>2, <1>3, <1>4, ScriptState

\* What is written next is of the output that its path is registered for.
LEMMA NextFile ==
    ASSUME IInv, todo # <<>>, NEW h, h = Head(todo)
    PROVE  /\ h \in Range(todo)
           /\ Tail(todo) \in Seq([path : Paths, content : Content])
           /\ \A w : w \in Range(todo) <=> w = h \/ w \in Range(Tail(todo))
           /\ h.path \in Paths /\ h.content \in Content
           /\ \E k \in DOMAIN output_cache :
                  /\ h.path \in Range(output_cache[k].paths) /\ h.content = ContentOf(output_cache[k])
                  /\ h.path \in DOMAIN path_cache /\ path_cache[h.path] = output_cache[k].key
                  /\ h.content.key = output_cache[k].key
  <1> USE DEF IInv
  <1>2. todo \in Seq([path : Paths, content : Content])
    BY DEF OutputTypeOK
  <1>3. /\ Tail(todo) \in Seq([path : Paths, content : Content])
        /\ h \in [path : Paths, content : Content] /\ h \in Range(todo)
        /\ \A w : w \in Range(todo) <=> w = h \/ w \in Range(Tail(todo))
    <2>1. /\ Len(todo) \in Nat \ {0} /\ DOMAIN todo = 1 .. Len(todo)
          /\ h = todo[1] /\ h \in [path : Paths, content : Content]
      <3>1. Len(todo) \in Nat \ {0} /\ DOMAIN todo = 1 .. Len(todo)
        BY <1>2, EmptySeq, LenProperties
      <3>2. h = todo[1]
        BY <1>2
      <3>3. todo[1] \in [path : Paths, content : Content]
        <4> DEFINE W == [path : Paths, content : Content]
        <4>1. todo \in Seq(W) /\ 1 \in 1 .. Len(todo)
          BY <1>2, <3>1
        <4> HIDE DEF W
        <4>2. todo[1] \in W
          BY <4>1, ElementOfSeq
        <4>3. QED
          BY <4>2 DEF W
      <3>4. QED
        BY <3>1, <3>2, <3>3
    <2>2. /\ Tail(todo) \in Seq([path : Paths, content : Content]) /\ DOMAIN Tail(todo) = 1 .. Len(todo) - 1
          /\ \A i \in 1 .. Len(todo) - 1 : Tail(todo)[i] = todo[i + 1]
      BY <1>2
    <2>3. \A i \in 2 .. Len(todo) : i - 1 \in DOMAIN Tail(todo) /\ todo[i] = Tail(todo)[i - 1]
      BY <2>1, <2>2
    <2>4. \A i \in DOMAIN Tail(todo) : i + 1 \in DOMAIN todo /\ Tail(todo)[i] = todo[i + 1]
      BY <2>1, <2>2
    <2>5. 1 \in DOMAIN todo /\ \A i \in DOMAIN todo : i = 1 \/ i \in 2 .. Len(todo)
      BY <2>1
    <2>6. PICK t : /\ t = Tail(todo)
                   /\ \A i \in 2 .. Len(todo) : i - 1 \in DOMAIN t /\ todo[i] = t[i - 1]
                   /\ \A i \in DOMAIN t : i + 1 \in DOMAIN todo /\ t[i] = todo[i + 1]
      BY <2>3, <2>4
    <2>7. \A w : w \in Range(todo) <=> w = h \/ w \in Range(t)
      <3>1. h = todo[1]
        BY <2>1
      <3>2. ASSUME NEW w \in Range(todo) PROVE w = h \/ w \in Range(t)
        <4>1. PICK i \in DOMAIN todo : w = todo[i]
          BY <3>2 DEF Range
        <4>2. CASE i = 1
          BY <3>1, <4>1, <4>2
        <4>3. CASE i \in 2 .. Len(todo)
          <5>1. i - 1 \in DOMAIN t /\ w = t[i - 1]
            BY <4>1, <4>3, <2>6
          <5>2. QED
            BY <5>1 DEF Range
        <4>4. QED
          BY <4>2, <4>3, <2>5
      <3>3. ASSUME NEW w \in Range(t) PROVE w \in Range(todo)
        BY <3>3, <2>6 DEF Range
      <3>4. h \in Range(todo)
        BY <3>1, <2>5 DEF Range
      <3>5. QED
        BY <3>2, <3>3, <3>4
    <2>8. h \in Range(todo)
      BY <2>1, <2>5 DEF Range
    <2>9. QED
      BY <2>1, <2>2, <2>6, <2>7, <2>8
  <1>4. PICK k \in DOMAIN output_cache :
            h.path \in Range(output_cache[k].paths) /\ h.content = ContentOf(output_cache[k])
    BY <1>3 DEF TodoInv
  <1>5. /\ h.path \in Paths /\ h.content \in Content
        /\ h.path \in DOMAIN path_cache /\ path_cache[h.path] = output_cache[k].key
        /\ h.content.key = output_cache[k].key
    BY <1>3, <1>4 DEF CacheInv, ContentOf
  <1>6. QED
    BY <1>3, <1>4, <1>5

\* write_text raises after it has opened the file.
LEMMA WriteRaisesKeeps ==
    ASSUME IInv, NEW opened \in BOOLEAN, write_raises(opened)
    PROVE  IInv'
  <1>1. /\ phase = "write" /\ todo # <<>> /\ Ended /\ UNCHANGED <<cache, complete>>
        /\ UNCHANGED <<path_cache>>
    BY DEF write_raises, cache
  <1>2. PICK h : h = Head(todo)
    OBVIOUS
  <1>3. files \in [Paths -> {Absent, Foreign} \cup Content] /\ WrittenByOwner
    BY DEF IInv, OutputTypeOK
  <1>4. /\ h.path \in Paths /\ h.content \in Content
        /\ h.path \in DOMAIN path_cache /\ path_cache[h.path] = h.content.key
    BY <1>1, <1>2, NextFile
  <1>5. PICK c \in Content : c = Part(h.content) /\ c.key = h.content.key
    <2>1. h.content \in [key : Keys, defined : {Partial} \cup 0 .. MaxGenerates]
      BY <1>4 DEF Content
    <2>2. PICK c : c = [h.content EXCEPT !.defined = Partial]
      OBVIOUS
    <2>3. c \in [key : Keys, defined : {Partial} \cup 0 .. MaxGenerates] /\ c.key = h.content.key
      BY <2>1, <2>2
    <2>4. QED
      BY <2>2, <2>3 DEF Part, Content
  <1>6. files' = files \/ files' = [files EXCEPT ![h.path] = c]
    BY <1>2, <1>5 DEF write_raises
  <1>7. files' \in [Paths -> {Absent, Foreign} \cup Content] /\ WrittenByOwner'
    BY <1>1, <1>3, <1>4, <1>5, <1>6 DEF WrittenByOwner
  <1>8. QED
    BY <1>1, <1>7, CutShortKeeps

\* One file is written.
LEMMA WriteKeeps ==
    ASSUME IInv, write
    PROVE  IInv'
  <1> USE DEF IInv
  <1>0. PICK h : h = Head(todo)
    OBVIOUS
  <1>1. /\ phase = "write" /\ todo # <<>>
        /\ files' = [files EXCEPT ![h.path] = h.content]
        /\ todo' = Tail(todo)
        /\ UNCHANGED <<in_with, output_cache, path_cache, defined, generates>>
        /\ UNCHANGED <<force, phase, existed, wanted, complete>>
    BY <1>0 DEF write, cache
  <1>3. /\ todo' \in Seq([path : Paths, content : Content]) /\ h \in Range(todo)
        /\ \A w : w \in Range(todo) <=> w = h \/ w \in Range(todo')
        /\ h.path \in Paths /\ h.content \in Content
    BY <1>0, <1>1, NextFile
  <1>4. PICK k \in DOMAIN output_cache :
            /\ h.path \in Range(output_cache[k].paths) /\ h.content = ContentOf(output_cache[k])
            /\ h.path \in DOMAIN path_cache /\ path_cache[h.path] = output_cache[k].key
            /\ h.content.key = output_cache[k].key
    BY <1>0, <1>1, NextFile
  <1>5. /\ h.path \in Paths /\ h.content \in Content
        /\ h.path \in DOMAIN path_cache /\ path_cache[h.path] = output_cache[k].key
        /\ h.content.key = output_cache[k].key
    BY <1>3, <1>4
  <1>6. files \in [Paths -> {Absent, Foreign} \cup Content]
    BY DEF OutputTypeOK
  <1>7. /\ files' \in [Paths -> {Absent, Foreign} \cup Content]
        /\ files'[h.path] = h.content
        /\ \A p \in Paths : p # h.path => files'[p] = files[p]
    BY <1>1, <1>5, <1>6
  <1>8. OutputTypeOK'
    BY <1>1, <1>3, <1>7 DEF OutputTypeOK
  <1>9. CacheInv'
    BY <1>1 DEF CacheInv
  <1>10. TodoInv' /\ NoUnaskedOverwrite'
    BY <1>1, <1>3 DEF TodoInv, NoUnaskedOverwrite
  <1>11. WrittenByOwner'
    BY <1>1, <1>5, <1>7 DEF WrittenByOwner
  <1>12. PendingInv'
    <2> SUFFICES ASSUME NEW j \in DOMAIN output_cache, Agreed(output_cache[j]),
                        NEW p \in Range(output_cache[j].paths)
                 PROVE  files'[p] = ContentOf(output_cache[j]) \/ \E w \in Range(todo') : w.path = p
      BY <1>1 DEF PendingInv, Agreed
    <2>1. files[p] = ContentOf(output_cache[j]) \/ \E w \in Range(todo) : w.path = p
      BY <1>1 DEF PendingInv
    <2>2. p \in Paths /\ path_cache[p] = output_cache[j].key
      BY DEF CacheInv, OutputTypeOK
    <2>3. CASE p = h.path
      <3>1. output_cache[j].key = output_cache[k].key
        BY <1>5, <2>2, <2>3
      <3>2. j = k
        BY <3>1 DEF CacheInv
      <3>3. QED
        BY <1>4, <1>7, <2>3, <3>2
    <2>4. CASE p # h.path
      BY <1>3, <1>7, <2>1, <2>2, <2>4
    <2>5. QED
      BY <2>3, <2>4
  <1>13. ~ complete
    BY <1>1 DEF CompleteInv
  <1>14. CompleteInv' /\ FilesAreCurrent'
    BY <1>1, <1>13 DEF CompleteInv, FilesAreCurrent
  <1>15. QED
    BY <1>8, <1>9, <1>10, <1>11, <1>12, <1>14

\* run() has written everything that it wanted to write.
LEMMA WrittenKeeps ==
    ASSUME IInv, written
    PROVE  IInv'
  <1> USE DEF IInv
  <1>1. /\ phase = "write" /\ todo = <<>>
        /\ phase' = "script" /\ todo' = <<>> /\ existed' = {} /\ wanted' = {} /\ force' = FALSE
        /\ UNCHANGED <<in_with, output_cache, path_cache, defined, generates, files>>
    BY DEF written, Ended, cache
  <1>2. /\ complete' \in BOOLEAN
        /\ complete' => \A k \in DOMAIN output_cache : Agreed(output_cache[k])
    BY DEF written, Agreed, Range
  <1>3. OutputTypeOK'
    <2>1. <<>> \in Seq([path : Paths, content : Content])
      OBVIOUS
    <2>2. QED
      BY <1>1, <1>2, <2>1 DEF OutputTypeOK
  <1>4. CacheInv' /\ WrittenByOwner'
    BY <1>1 DEF CacheInv, WrittenByOwner
  <1>5. TodoInv' /\ NoUnaskedOverwrite'
    BY <1>1, EmptyRange DEF TodoInv, NoUnaskedOverwrite
  <1>6. PendingInv' /\ CompleteInv'
    BY <1>1 DEF PendingInv, CompleteInv
  <1>7. FilesAreCurrent'
    <2> SUFFICES ASSUME complete', NEW item \in Range(output_cache), NEW p \in Range(item.paths)
                 PROVE  files[p] = [key |-> item.key, defined |-> item.defined]
      BY <1>1 DEF FilesAreCurrent
    <2>1. PICK k \in DOMAIN output_cache : item = output_cache[k]
      BY DEF Range
    <2>2. Agreed(output_cache[k])
      BY <1>2
    <2>3. files[p] = ContentOf(output_cache[k])
      BY <1>1, <2>1, <2>2, EmptyRange DEF PendingInv
    <2>4. QED
      BY <2>1, <2>3 DEF ContentOf
  <1>8. QED
    BY <1>3, <1>4, <1>5, <1>6, <1>7

LEMMA NextIInv ==
    ASSUME IInv, [Next]_vars
    PROVE  IInv'
  <1>1. CASE Import
    BY <1>1, SameOutput DEF Import
  <1>2. CASE UNCHANGED vars
    BY <1>2, SameOutput DEF vars
  <1>3. ASSUME NEW g \in CodeGenerators, NEW endpoint \in Endpoint, NEW location \in Settings,
               generate(g, endpoint, location)
        PROVE  IInv'
    BY <1>3, GenerateKeeps
  <1>4. CASE enter
    BY <1>4, EnterKeeps
  <1>5. ASSUME NEW forced \in BOOLEAN, explicit_run(forced) \/ exit(forced)
        PROVE  IInv'
    <2>1. in_with' \in BOOLEAN /\ phase = "script" /\ run(forced)
      BY <1>5 DEF explicit_run, exit, Script, IInv, OutputTypeOK
    <2>2. QED
      BY <2>1, RunKeeps
  <1>6. ASSUME NEW keys \in SUBSET to_overwrite, answer(keys)
        PROVE  IInv'
    BY <1>6, AnswerKeeps
  <1>7. CASE answer_none
    <2>1. files' = files /\ path_cache' = path_cache
      BY <1>7 DEF answer_none, cache
    <2>2. files' \in [Paths -> {Absent, Foreign} \cup Content] /\ WrittenByOwner'
      BY <2>1 DEF IInv, OutputTypeOK, WrittenByOwner
    <2>3. QED
      BY <1>7, <2>2, CutShortKeeps DEF answer_none
  <1>8. CASE write
    BY <1>8, WriteKeeps
  <1>9. ASSUME NEW opened \in BOOLEAN, write_raises(opened) PROVE IInv'
    BY <1>9, WriteRaisesKeeps
  <1>10. CASE written
    BY <1>10, WrittenKeeps
  <1>11. QED
    BY <1>1, <1>2, <1>3, <1>4, <1>5, <1>6, <1>7, <1>8, <1>9, <1>10 DEF Next, Run
-----------------------------------------------------------------------------
(* The results.                                                             *)

\* The inductive invariant holds.
THEOREM Invariance ==
    Spec => []IInv
  <1>1. Init => IInv
    BY InitIInv
  <1>2. IInv /\ [Next]_vars => IInv'
    BY NextIInv
  <1>3. QED
    BY <1>1, <1>2, PTL DEF Spec

\* No output of a Generator replaces a file of another output, whatever the
\* script generates, in whatever with blocks, and however its runs end.
THEOREM FilesHaveOwners ==
    Spec => []WrittenByOwner
  <1>1. IInv => WrittenByOwner
    BY DEF IInv
  <1>2. QED
    BY <1>1, Invariance, PTL

\* run() replaces a file that existed when it began only if overwriting is
\* forced or the user named the output that the file belongs to.
THEOREM OverwritesAreAsked ==
    Spec => []NoUnaskedOverwrite
  <1>1. IInv => NoUnaskedOverwrite
    BY DEF IInv
  <1>2. QED
    BY <1>1, Invariance, PTL

\* After a run() that neither the user nor a failed write cut short, the files
\* hold what was generated last.
THEOREM CurrentWhenComplete ==
    Spec => []FilesAreCurrent
  <1>1. IInv => FilesAreCurrent
    BY DEF IInv
  <1>2. QED
    BY <1>1, Invariance, PTL
-----------------------------------------------------------------------------
(* The layout of structures.                                                *)

LEMMA MaxOfSubset ==
    ASSUME NEW m \in Nat, NEW s \in SUBSET (1 .. m), s # {}
    PROVE  /\ Max(s) \in s
           /\ m \in s => Max(s) = m
  <1> DEFINE T == {m - i : i \in s}
  <1>1. T \subseteq Nat /\ T # {}
    OBVIOUS
  <1>2. PICK a \in T : \A b \in T : a <= b
    BY <1>1, Smallest
  <1>3. PICK i \in s : a = m - i
    OBVIOUS
  <1>4. \A j \in s : i >= j
    BY <1>2, <1>3
  <1>5. Max(s) \in s /\ \A j \in s : Max(s) >= j
    BY <1>4 DEF Max
  <1>6. m \in s => Max(s) = m
    <2> SUFFICES ASSUME m \in s
                 PROVE  Max(s) = m
      OBVIOUS
    <2>1. Max(s) \in 1 .. m /\ Max(s) >= m
      BY <1>5
    <2>2. QED
      BY <2>1
  <1>7. QED
    BY <1>5, <1>6

\* Layouts, and what the loop of struct() does with them, one member after the
\* other.
Layouts == Seq(Nat) \ {<<>>}
StaysLayout(members) ==
    \A a \in Layouts : \A i \in DOMAIN members : Extended(a, members[i].type) \in Layouts
LayoutLoop(g, members, n) ==
    /\ g[0] = <<0>>
    /\ \A i \in 1 .. n : g[i] = Extended(g[i - 1], members[i].type)
    /\ Struct(members).layout = g[n]

LEMMA LayoutSteps ==
    ASSUME NEW members, NEW n \in Nat, DOMAIN members = 1 .. n, StaysLayout(members)
    PROVE  \E g \in [0 .. n -> Layouts] : LayoutLoop(g, members, n)
  <1> DEFINE E(a, i) == Extended(a, members[i].type)
             Step(f, s) == IF s = {} THEN <<0>> ELSE E(f[s \ {Max(s)}], Max(s))
             Good(m) == \E f : f = [s \in SUBSET (1 .. m) |-> Step(f, s)]
             iter == CHOOSE f : f = [s \in SUBSET (1 .. n) |-> Step(f, s)]
  <1>1. Struct(members).layout = iter[1 .. n]
    <2>1. FoldLeft(LAMBDA l, m : Extended(l, m.type), <<0>>, members) = iter[1 .. n]
      BY Zenon DEF FoldLeft, MapThenFoldSet
    <2> HIDE DEF iter
    <2>2. QED
      BY <2>1 DEF Struct
  <1> HIDE DEF E, iter
  <1>2. Good(0)
    <2> DEFINE f == [s \in SUBSET (1 .. 0) |-> <<0>>]
    <2>1. \A s \in SUBSET (1 .. 0) : s = {}
      OBVIOUS
    <2>2. f = [s \in SUBSET (1 .. 0) |-> Step(f, s)]
      BY <2>1
    <2>3. QED
      BY <2>2
  <1>3. ASSUME NEW m \in Nat, Good(m)
        PROVE  Good(m + 1)
    <2>1. PICK f : f = [s \in SUBSET (1 .. m) |-> Step(f, s)]
      BY <1>3
    <2> DEFINE h == [s \in SUBSET (1 .. m + 1) |->
                        IF m + 1 \in s THEN E(f[s \ {m + 1}], m + 1) ELSE f[s]]
    <2>2. ASSUME NEW s \in SUBSET (1 .. m + 1)
          PROVE  h[s] = Step(h, s)
      <3>1. CASE m + 1 \in s
        <4>1. Max(s) = m + 1
          BY <3>1, MaxOfSubset
        <4>2. s \ {m + 1} \in SUBSET (1 .. m + 1) /\ m + 1 \notin s \ {m + 1}
          OBVIOUS
        <4>3. h[s \ {m + 1}] = f[s \ {m + 1}]
          BY <4>2
        <4>4. h[s] = E(f[s \ {m + 1}], m + 1)
          BY <3>1
        <4> HIDE DEF h
        <4>5. Step(h, s) = E(h[s \ {m + 1}], m + 1)
          BY <3>1, <4>1
        <4>6. QED
          BY <4>3, <4>4, <4>5
      <3>2. CASE m + 1 \notin s
        <4>1. s \in SUBSET (1 .. m)
          BY <3>2
        <4>2. h[s] = f[s]
          BY <3>2
        <4>3. f[s] = Step(f, s)
          BY <2>1, <4>1
        <4>4. CASE s = {}
          <5> HIDE DEF h
          <5>1. QED
            BY <4>2, <4>3, <4>4
        <4>5. CASE s # {}
          <5> DEFINE r == s \ {Max(s)}
          <5>1. r \in SUBSET (1 .. m + 1) /\ m + 1 \notin r
            BY <3>2
          <5>2. h[r] = f[r]
            BY <5>1
          <5> HIDE DEF h
          <5>3. QED
            BY <4>2, <4>3, <4>5, <5>2
        <4>6. QED
          BY <4>4, <4>5
      <3>3. QED
        BY <3>1, <3>2
    <2>3. h = [s \in SUBSET (1 .. m + 1) |-> Step(h, s)]
      <3> DEFINE h2 == [s \in SUBSET (1 .. m + 1) |-> Step(h, s)]
      <3>1. \A s \in SUBSET (1 .. m + 1) : h[s] = h2[s]
        <4> HIDE DEF h
        <4> QED
          BY <2>2
      <3>2. QED
        BY <3>1
    <2> HIDE DEF h
    <2>4. QED
      BY <2>3
  <1>4. Good(n)
    <2> HIDE DEF Good
    <2> DEFINE T == {m \in 0 .. n : ~ Good(m)}
    <2> SUFFICES ASSUME T # {}
                 PROVE  FALSE
      OBVIOUS
    <2>1. T \subseteq Nat
      OBVIOUS
    <2>2. PICK m \in T : \A k \in T : m <= k
      BY <2>1, Smallest
    <2>3. m \in 0 .. n /\ ~ Good(m)
      BY <2>2
    <2>4. m # 0 /\ m - 1 \in Nat /\ (m - 1) + 1 = m
      BY <2>3, <1>2
    <2>5. m - 1 \in 0 .. n /\ m - 1 \notin T
      BY <2>2, <2>3, <2>4
    <2>6. Good(m - 1)
      BY <2>5
    <2>7. Good((m - 1) + 1)
      BY <1>3, <2>4, <2>6
    <2>8. QED
      BY <2>3, <2>4, <2>7
  <1>5. iter = [s \in SUBSET (1 .. n) |-> Step(iter, s)]
    BY <1>4 DEF iter
  <1>6. ASSUME NEW k \in 1 .. n
        PROVE  iter[1 .. k] = E(iter[1 .. k - 1], k)
    <2> DEFINE s == 1 .. k
    <2>1. s \in SUBSET (1 .. n) /\ s # {} /\ k \in s /\ s \in SUBSET (1 .. k) /\ k \in Nat
      <3>1. k \in s /\ k \in Nat
        OBVIOUS
      <3>2. \A i \in s : i \in 1 .. n
        OBVIOUS
      <3>3. QED
        BY <3>1, <3>2
    <2>2. Max(s) = k
      BY <2>1, MaxOfSubset
    <2>3. s \ {k} = 1 .. k - 1
      OBVIOUS
    <2> HIDE DEF s
    <2>4. iter[s] = Step(iter, s)
      BY <1>5, <2>1
    <2>5. iter[s] = E(iter[s \ {k}], k)
      BY <2>1, <2>2, <2>4
    <2>6. QED
      BY <2>3, <2>5 DEF s
  <1>7. iter[1 .. 0] = <<0>>
    <2>1. 1 .. 0 = {} /\ {} \in SUBSET (1 .. n)
      OBVIOUS
    <2>2. iter[{}] = Step(iter, {})
      BY <1>5, <2>1
    <2>3. QED
      BY <2>1, <2>2
  <1>8. \A k \in 0 .. n : iter[1 .. k] \in Layouts
    <2> DEFINE T == {k \in 0 .. n : iter[1 .. k] \notin Layouts}
    <2> SUFFICES ASSUME T # {}
                 PROVE  FALSE
      OBVIOUS
    <2>1. T \subseteq Nat
      OBVIOUS
    <2>2. PICK k \in T : \A j \in T : k <= j
      BY <2>1, Smallest
    <2>3. k \in 0 .. n /\ iter[1 .. k] \notin Layouts
      BY <2>2
    <2>4. k # 0
      <3>1. <<0>> \in Layouts
        BY DEF Layouts
      <3>2. QED
        BY <1>7, <2>3, <3>1
    <2>5. k \in 1 .. n /\ k - 1 \in 0 .. n /\ k - 1 \notin T
      BY <2>2, <2>3, <2>4
    <2>6. iter[1 .. k - 1] \in Layouts
      BY <2>5
    <2>7. QED
      BY <1>6, <2>3, <2>5, <2>6 DEF E, StaysLayout
  <1> DEFINE g == [k \in 0 .. n |-> iter[1 .. k]]
  <1>9. g \in [0 .. n -> Layouts] /\ g[0] = <<0>> /\ g[n] = iter[1 .. n]
    BY <1>7, <1>8
  <1>10. \A i \in 1 .. n : g[i] = Extended(g[i - 1], members[i].type)
    BY <1>6 DEF E
  <1> HIDE DEF g
  <1>11. Struct(members).layout = g[n]
    BY <1>1, <1>9, Zenon
  <1>12. QED
    BY <1>9, <1>10, <1>11, Zenon DEF LayoutLoop

\* The tables of the library; the C names of lists are sequences of positions.
DefinitionInv ==
    /\ RegisteredInv
    /\ DefinitionsOK
    /\ \A t \in Structs : types[t].lists \in Seq(Seq(Nat))

\* A member lengthens the layout by one entry for each of its lists.
LEMMA ExtendedLength ==
    ASSUME DefinitionInv, NEW layout \in Seq(Nat), layout # <<>>,
           NEW m, m.name \in Nat, m.type \in Primitive \cup Structs
    PROVE  /\ Lists(m) \in Seq(Seq(Nat))
           /\ Extended(layout, m.type) \in Seq(Nat)
           /\ Len(Extended(layout, m.type)) = Len(layout) + Len(Lists(m))
  <1> DEFINE t == m.type
             add == IF t \in Structs THEN types[t].layout[1] ELSE size(t)
             sum == [layout EXCEPT ![Len(layout)] = @ + add]
             inner == types[t].layout
  <1>1. t \in Structs => /\ inner \in Seq(Nat) /\ types[t].lists \in Seq(Seq(Nat))
                         /\ Len(inner) = Len(types[t].lists) + 1
    BY DEF DefinitionInv, DefinitionsOK
  <1>2. t \in Structs => inner[1] \in Nat /\ Tail(inner) \in Seq(Nat)
                         /\ Len(Tail(inner)) = Len(types[t].lists)
    <2> SUFFICES ASSUME t \in Structs
                 PROVE  inner[1] \in Nat /\ Tail(inner) \in Seq(Nat)
                        /\ Len(Tail(inner)) = Len(types[t].lists)
      OBVIOUS
    <2> DEFINE lists == types[t].lists
    <2>1. inner \in Seq(Nat) /\ lists \in Seq(Seq(Nat)) /\ Len(inner) = Len(lists) + 1
      BY <1>1
    <2> HIDE DEF inner, lists
    <2>2. Len(lists) \in Nat
      BY <2>1
    <2>3. inner # <<>> /\ 1 \in 1 .. Len(inner)
      BY <2>1, <2>2
    <2>4. QED
      BY <2>1, <2>2, <2>3, HeadTailProperties, ElementOfSeq DEF lists
  <1>3. t \notin Structs => size(t) \in Nat
    BY DEF Primitive, size
  <1>4. add \in Nat
    BY <1>2, <1>3
  <1>5. Extended(layout, t) = IF t = "list" THEN Append(sum, 0)
                              ELSE IF t \in Structs THEN sum \o Tail(inner) ELSE sum
    BY DEF Extended
  <1> HIDE DEF add
  <1>6. sum \in Seq(Nat) /\ Len(sum) = Len(layout)
    BY <1>4
  <1> HIDE DEF sum
  <1>7. CASE t = "list"
    <2>1. Lists(m) = <<<<m.name>>>> /\ Extended(layout, t) = Append(sum, 0)
      BY <1>5, <1>7 DEF Lists
    <2>2. <<m.name>> \in Seq(Nat)
      OBVIOUS
    <2>3. <<<<m.name>>>> \in Seq(Seq(Nat)) /\ Len(<<<<m.name>>>>) = 1
      BY <2>2
    <2>4. Append(sum, 0) \in Seq(Nat) /\ Len(Append(sum, 0)) = Len(layout) + 1
      BY <1>6
    <2>5. QED
      BY <2>1, <2>3, <2>4
  <1>8. CASE t # "list" /\ t \in Structs
    <2> DEFINE lists == types[t].lists
               named == [k \in DOMAIN lists |-> <<m.name>> \o lists[k]]
    <2>1. Lists(m) = named /\ Extended(layout, t) = sum \o Tail(inner)
      BY <1>5, <1>8 DEF Lists
    <2>2. lists \in Seq(Seq(Nat)) /\ Tail(inner) \in Seq(Nat) /\ Len(Tail(inner)) = Len(lists)
      BY <1>1, <1>2, <1>8
    <2> HIDE DEF lists, inner
    <2>3. \A k \in DOMAIN lists : <<m.name>> \o lists[k] \in Seq(Nat)
      <3> SUFFICES ASSUME NEW k \in DOMAIN lists
                   PROVE  <<m.name>> \o lists[k] \in Seq(Nat)
        OBVIOUS
      <3>1. lists[k] \in Seq(Nat) /\ <<m.name>> \in Seq(Nat)
        BY <2>2
      <3>2. QED
        BY <3>1, ConcatProperties
    <2>4. DOMAIN lists = 1 .. Len(lists) /\ Len(lists) \in Nat
      BY <2>2
    <2>5. named \in Seq(Seq(Nat)) /\ Len(named) = Len(lists)
      BY <2>3, <2>4
    <2>6. sum \o Tail(inner) \in Seq(Nat) /\ Len(sum \o Tail(inner)) = Len(layout) + Len(lists)
      <3> DEFINE rest == Tail(inner)
      <3>1. rest \in Seq(Nat) /\ Len(rest) = Len(lists)
        BY <2>2
      <3> HIDE DEF rest
      <3>2. sum \o rest \in Seq(Nat) /\ Len(sum \o rest) = Len(sum) + Len(rest)
        BY <1>6, <3>1, ConcatProperties
      <3>3. QED
        BY <1>6, <3>1, <3>2 DEF rest
    <2> HIDE DEF named
    <2>7. QED
      BY <2>1, <2>5, <2>6
  <1>9. CASE t # "list" /\ t \notin Structs
    <2>1. Lists(m) = <<>> /\ Extended(layout, t) = sum
      BY <1>5, <1>9 DEF Lists
    <2>2. <<>> \in Seq(Seq(Nat)) /\ Len(<<>>) = 0 /\ Len(layout) \in Nat
      OBVIOUS
    <2>3. QED
      BY <1>6, <2>1, <2>2
  <1>10. QED
    BY <1>7, <1>8, <1>9

\* The members that a structure can have.
LEMMA MembersOf ==
    ASSUME NEW members \in Members
    PROVE  \E n \in Nat \ {0} :
               /\ members \in Seq(Range(members)) /\ Len(members) = n /\ DOMAIN members = 1 .. n
               /\ \A k \in 1 .. n : members[k].name \in Nat /\ members[k].type \in Primitive \cup Structs
  <1>a. PICK n \in 1 .. MaxMembers : \E t \in [1 .. n -> Primitive \cup Structs] :
            members = [k \in 1 .. n |-> [name |-> k, type |-> t[k]]]
    BY DEF Members
  <1>1. PICK t \in [1 .. n -> Primitive \cup Structs] :
            members = [k \in 1 .. n |-> [name |-> k, type |-> t[k]]]
    BY <1>a
  <1>2. n \in Nat \ {0}
    BY DefinitionAssumption
  <1>3. DOMAIN members = 1 .. n /\ \A k \in 1 .. n : members[k] \in Range(members)
    BY <1>1 DEF Range
  <1>4. members \in Seq(Range(members)) /\ Len(members) = n
    BY <1>1, <1>2, <1>3
  <1>5. ASSUME NEW k \in 1 .. n
        PROVE  members[k].name \in Nat /\ members[k].type \in Primitive \cup Structs
    BY <1>1, <1>2
  <1>6. QED
    BY <1>2, <1>3, <1>4, <1>5

\* The layout of a new structure has one entry more than there are lists in it.
LEMMA NewStruct ==
    ASSUME DefinitionInv, NEW members \in Members
    PROVE  /\ Struct(members).layout \in Seq(Nat)
           /\ Struct(members).lists \in Seq(Seq(Nat))
           /\ Len(Struct(members).layout) = Len(Struct(members).lists) + 1
  <1> DEFINE layout == Struct(members).layout
             parts == [k \in DOMAIN members |-> Lists(members[k])]
             lists == FlattenSeq(parts)
  <1>1. Struct(members).lists = lists
    BY DEF Struct
  <1>2. PICK n \in Nat \ {0} :
            /\ DOMAIN members = 1 .. n
            /\ \A k \in 1 .. n : members[k].name \in Nat /\ members[k].type \in Primitive \cup Structs
    BY MembersOf
  <1>3. ASSUME NEW a \in Layouts, NEW k \in 1 .. n
        PROVE  /\ Lists(members[k]) \in Seq(Seq(Nat))
               /\ Extended(a, members[k].type) \in Layouts
               /\ Len(Extended(a, members[k].type)) = Len(a) + Len(Lists(members[k]))
    <2>1. a \in Seq(Nat) /\ a # <<>> /\ members[k].name \in Nat
          /\ members[k].type \in Primitive \cup Structs
      BY <1>2, <1>3 DEF Layouts
    <2> DEFINE e == Extended(a, members[k].type)
               l == Lists(members[k])
    <2>2. l \in Seq(Seq(Nat)) /\ e \in Seq(Nat) /\ Len(e) = Len(a) + Len(l)
      BY <2>1, ExtendedLength
    <2> HIDE DEF e, l
    <2>3. Len(l) \in Nat /\ Len(a) \in Nat \ {0}
      BY <2>1, <2>2
    <2>4. e # <<>>
      BY <2>2, <2>3
    <2>5. QED
      BY <2>2, <2>4 DEF e, l, Layouts
  <1>4. <<0>> \in Layouts /\ Len(<<0>>) = 1
    BY DEF Layouts
  <1>5. PICK g \in [0 .. n -> Layouts] :
            /\ g[0] = <<0>>
            /\ \A i \in 1 .. n : g[i] = Extended(g[i - 1], members[i].type)
            /\ layout = g[n]
    <2>1. n \in Nat /\ DOMAIN members = 1 .. n
      BY <1>2
    <2>2. StaysLayout(members)
      BY <1>2, <1>3 DEF StaysLayout
    <2>3. \E g \in [0 .. n -> Layouts] : LayoutLoop(g, members, n)
      BY <2>1, <2>2, LayoutSteps
    <2>4. QED
      BY <2>3, Zenon DEF LayoutLoop
  <1> HIDE DEF layout
  <1>6. /\ parts \in Seq(Seq(Seq(Nat))) /\ Len(parts) = n /\ parts # <<>>
        /\ \A k \in 1 .. n : parts[k] = Lists(members[k]) /\ parts[k] \in Seq(Seq(Nat))
    <2>1. \A k \in 1 .. n : Lists(members[k]) \in Seq(Seq(Nat))
      BY <1>3, <1>4
    <2>2. parts = [k \in 1 .. n |-> Lists(members[k])]
      BY <1>2
    <2>3. QED
      BY <2>1, <2>2
  <1> HIDE DEF parts
  <1>7. PICK f \in [1 .. n -> Seq(Seq(Nat))] :
            /\ lists = f[n]
            /\ f[1] = parts[1]
            /\ \A i \in 2 .. n : f[i] = f[i - 1] \o parts[i]
    <2>1. \E f \in [1 .. Len(parts) -> Seq(Seq(Nat))] :
              /\ FlattenSeq(parts) = f[Len(parts)]
              /\ f[1] = parts[1]
              /\ \A i \in 2 .. Len(parts) : f[i] = f[i - 1] \o parts[i]
      <3> DEFINE S == Seq(Nat)
      <3>1. parts \in Seq(Seq(S)) /\ parts # <<>>
        BY <1>6
      <3> HIDE DEF S
      <3>2. \E f \in [1 .. Len(parts) -> Seq(S)] :
                /\ FlattenSeq(parts) = f[Len(parts)]
                /\ f[1] = parts[1]
                /\ \A i \in 2 .. Len(parts) : f[i] = f[i - 1] \o parts[i]
        BY <3>1, FlattenSteps
      <3>3. QED
        BY <3>2, Zenon DEF S
    <2>2. QED
      BY <1>6, <2>1, Zenon
  <1> HIDE DEF lists
  <1>8. \A i \in 1 .. n : Len(g[i]) = Len(f[i]) + 1
    <2> DEFINE T == {i \in 1 .. n : Len(g[i]) # Len(f[i]) + 1}
    <2> SUFFICES ASSUME T # {}
                 PROVE  FALSE
      OBVIOUS
    <2>1. T \subseteq Nat
      BY <1>2
    <2>2. PICK i \in T : \A j \in T : i <= j
      BY <2>1, Smallest
    <2>3. i \in 1 .. n /\ Len(g[i]) # Len(f[i]) + 1 /\ i - 1 \in 0 .. n
      BY <1>2, <2>2
    <2> HIDE DEF T
    <2>4. Len(g[i]) = Len(g[i - 1]) + Len(parts[i])
      <3>1. g[i - 1] \in Layouts /\ g[i] = Extended(g[i - 1], members[i].type)
            /\ parts[i] = Lists(members[i])
        BY <1>5, <1>6, <2>3
      <3>2. QED
        BY <1>3, <2>3, <3>1
    <2>5. Len(parts[i]) \in Nat
      BY <1>6, <2>3
    <2>6. CASE i = 1
      <3>1. i - 1 = 0
        BY <2>6
      <3>2. Len(g[i]) = 1 + Len(parts[i])
        BY <1>4, <1>5, <2>4, <3>1
      <3>3. Len(f[i]) = Len(parts[i])
        BY <1>7, <2>6
      <3>4. QED
        BY <2>3, <2>5, <3>2, <3>3
    <2>7. CASE i # 1
      <3>1. i \in 2 .. n /\ i - 1 \in 1 .. n /\ i - 1 \notin T
        BY <1>2, <2>2, <2>3, <2>7
      <3>2. Len(g[i - 1]) = Len(f[i - 1]) + 1
        BY <3>1 DEF T
      <3>3. f[i] = f[i - 1] \o parts[i] /\ f[i - 1] \in Seq(Seq(Nat)) /\ parts[i] \in Seq(Seq(Nat))
        BY <1>6, <1>7, <2>3, <3>1
      <3>4. Len(f[i]) = Len(f[i - 1]) + Len(parts[i]) /\ Len(f[i - 1]) \in Nat
        <4> DEFINE x == f[i - 1]
                   y == parts[i]
        <4>1. x \in Seq(Seq(Nat)) /\ y \in Seq(Seq(Nat)) /\ f[i] = x \o y
          BY <3>3
        <4> HIDE DEF x, y
        <4>2. Len(f[i]) = Len(x) + Len(y) /\ Len(x) \in Nat
          BY <4>1, ConcatProperties, LenProperties
        <4>3. QED
          BY <4>2 DEF x, y
      <3> DEFINE a == Len(f[i - 1])
                 b == Len(parts[i])
                 c == Len(f[i])
                 d == Len(g[i])
                 e == Len(g[i - 1])
      <3>5. a \in Nat /\ b \in Nat /\ c = a + b /\ d = e + b /\ e = a + 1 /\ d # c + 1
        BY <2>3, <2>4, <2>5, <3>2, <3>4
      <3> HIDE DEF a, b, c, d, e
      <3>6. QED
        BY <3>5
    <2>8. QED
      BY <2>6, <2>7
  <1>9. n \in 1 .. n /\ n \in 0 .. n
    BY <1>2
  <1>10. layout \in Seq(Nat) /\ lists \in Seq(Seq(Nat)) /\ Len(layout) = Len(lists) + 1
    BY <1>5, <1>7, <1>8, <1>9 DEF Layouts
  <1>11. QED
    BY <1>1, <1>10, Zenon DEF layout

LEMMA InitDefinitions ==
    ASSUME Init
    PROVE  DefinitionInv
  <1>1. RegisteredInv
    BY InitRegistered
  <1>2. rpcs = <<>> /\ types = <<>> /\ enums = 0
    BY DEF Init, NothingDefined
  <1>3. QED
    BY <1>1, <1>2 DEF DefinitionInv, DefinitionsOK, Structs

LEMMA NextDefinitions ==
    ASSUME DefinitionInv, [Next]_vars
    PROVE  DefinitionInv'
  <1>1. RegisteredInv'
    BY NextRegistered DEF DefinitionInv
  <1>2. (DOMAIN rpcs \subseteq Ids)' /\ (\A id \in DOMAIN rpcs : rpcs[id] \in Calls)'
    BY <1>1 DEF RegisteredInv
  <1>3. ASSUME UNCHANGED types, enums' \in Nat
        PROVE  DefinitionInv'
    BY <1>1, <1>2, <1>3 DEF DefinitionInv, DefinitionsOK, Structs
  <1>4. ASSUME NEW members \in Members, struct(members)
        PROVE  DefinitionInv'
    <2> DEFINE new == Struct(members)
               name == StructNames[Cardinality(Structs) + 1]
    <2>1. types' = Entered(types, {name}, new) /\ enums' = enums
      BY <1>4 DEF struct
    <2>2. /\ new.layout \in Seq(Nat) /\ new.lists \in Seq(Seq(Nat))
          /\ Len(new.layout) = Len(new.lists) + 1
      BY NewStruct
    <2> HIDE DEF new, name
    <2>3. \A t \in Structs' : IF t = name THEN types'[t] = new
                              ELSE t \in Structs /\ types'[t] = types[t]
      BY <2>1 DEF Entered, Structs
    <2>4. QED
      BY <1>1, <1>2, <2>1, <2>2, <2>3 DEF DefinitionInv, DefinitionsOK
  <1>5. enums \in Nat
    BY DEF DefinitionInv, DefinitionsOK
  <1>6. CASE Import
    <2>1. ASSUME NEW id \in Ids, NEW call \in Calls, rpc(id, call)
          PROVE  DefinitionInv'
      BY <1>3, <1>5, <2>1 DEF rpc
    <2>2. ASSUME enum
          PROVE  DefinitionInv'
      BY <1>3, <1>5, <2>2 DEF enum
    <2>3. QED
      BY <1>4, <1>6, <2>1, <2>2 DEF Import, Define
  <1>7. ASSUME NEW g \in CodeGenerators, NEW endpoint \in Endpoint, NEW location \in Settings,
               generate(g, endpoint, location)
        PROVE  UNCHANGED <<types, enums>>
    BY <1>7 DEF generate, definitions
  <1>8. enter => UNCHANGED <<types, enums>>
    BY DEF enter, definitions
  <1>9. Run => UNCHANGED <<types, enums>>
    BY DEF Run, explicit_run, exit, run, answer, answer_none, write, write_raises, written,
           definitions
  <1>10. UNCHANGED vars => UNCHANGED <<types, enums>>
    BY DEF vars, definitions
  <1>11. QED
    BY <1>3, <1>5, <1>6, <1>7, <1>8, <1>9, <1>10 DEF Next

\* The state has its type: in particular the layout that struct() computes has
\* an entry for every list in the structure, however deep, and one for the end,
\* and an output that waits in _output_cache owns all its paths.
THEOREM TypeCorrect ==
    Spec => []TypeOK
  <1>1. Init => DefinitionInv
    BY InitDefinitions
  <1>2. DefinitionInv /\ [Next]_vars => DefinitionInv'
    BY NextDefinitions
  <1>3. IInv /\ DefinitionInv => TypeOK
    <2> SUFFICES ASSUME IInv, DefinitionInv
                 PROVE  TypeOK
      OBVIOUS
    <2>1. ASSUME NEW item \in Range(output_cache)
          PROVE  /\ item.key \in Keys /\ item.defined \in 0 .. defined
                 /\ \A p \in Range(item.paths) : p \in DOMAIN path_cache /\ path_cache[p] = item.key
      <3>1. PICK k \in DOMAIN output_cache : item = output_cache[k]
        BY <2>1 DEF Range
      <3>2. output_cache[k] \in Item
        BY DEF IInv, CacheInv
      <3>3. item.key \in Keys
        BY <3>1, <3>2 DEF Item
      <3>4. QED
        BY <3>1, <3>3 DEF IInv, CacheInv
    <2>2. QED
      BY <2>1 DEF TypeOK, IInv, OutputTypeOK, DefinitionInv
  <1>4. QED
    BY <1>1, <1>2, <1>3, Invariance, PTL DEF Spec
-----------------------------------------------------------------------------
(* What the store function writes.                                          *)

\* What the store function can have written: bits come in fours, and what
\* precedes a list ends with a whole byte.
Segment == [bytes : Nat, bits : Nat, partial : Nat]
Nibbles == {s \in Segment : \E n \in Nat : s.bits = 4 * n}
Segments == {s \in Seq(Nibbles) : s # <<>> /\ \A k \in 1 .. Len(s) - 1 : s[k].bits = 0}
ItemTypes == Primitive \cup {"open", "close"}

\* A segment without what was left free at the ends of groups of BitU members:
\* the bits that struct() counts.
Weight(s) == 8 * s.bytes + s.bits - 4 * s.partial
Weights(segments) == [k \in DOMAIN segments |-> Weight(segments[k])]

\* Layout w is layout a with what layout l adds to it: the first part of l goes
\* to the last part of a.
IsJoin(w, a, l) ==
    /\ Len(w) = Len(a) + Len(l) - 1
    /\ \A k \in 1 .. Len(a) - 1 : w[k] = a[k]
    /\ w[Len(a)] = a[Len(a)] + l[1]
    /\ \A k \in 2 .. Len(l) : w[Len(a) + k - 1] = l[k]

\* The parts of Store.
AlignedSegment(s) ==
    [bytes |-> s.bytes + (s.bits + 7) \div 8, bits |-> 0,
     partial |-> s.partial + (IF s.bits % 8 = 0 THEN 0 ELSE 1)]
SegmentWith(s, item) ==
    IF item = "BitU4" THEN [s EXCEPT !.bits = @ + 4]
    ELSE IF item \in {"open", "close"} THEN AlignedSegment(s)
    ELSE [AlignedSegment(s) EXCEPT !.bytes = @ + size(item) \div 8]
ItemLayout(item) ==
    IF item \in {"open", "close"} THEN <<0>>
    ELSE IF item = "list" THEN <<16, 0>> ELSE <<size(item)>>

\* Aligning leaves the weight as it is.
LEMMA AlignedWeight ==
    ASSUME NEW s \in Nibbles
    PROVE  /\ AlignedSegment(s) \in Nibbles
           /\ AlignedSegment(s).bits = 0
           /\ Weight(AlignedSegment(s)) = Weight(s)
  <1> DEFINE a == AlignedSegment(s)
  <1>1. PICK n \in Nat : s.bits = 4 * n
    BY DEF Nibbles
  <1>2. s.bytes \in Nat /\ s.bits \in Nat /\ s.partial \in Nat
    BY DEF Nibbles, Segment
  <1>3. PICK c \in Nat, p \in {0, 1} :
            /\ (s.bits + 7) \div 8 = c
            /\ (IF s.bits % 8 = 0 THEN 0 ELSE 1) = p
            /\ 8 * c - 4 * p = s.bits
    <2>1. PICK r \in Nat : n = 2 * r \/ n = 2 * r + 1
      <3> DEFINE d == n \div 2
                 m == n % 2
      <3>1. m \in 0 .. 1 /\ d \in Int /\ n = 2 * d + m
        BY DivMod
      <3> HIDE DEF d, m
      <3>2. d \in Nat /\ (n = 2 * d \/ n = 2 * d + 1)
        BY <3>1
      <3>3. QED
        BY <3>2
    <2>2. CASE n = 2 * r
      <3>1. s.bits = 8 * r
        BY <1>1, <2>2
      <3>2. (8 * r + 7) \div 8 = r /\ (8 * r) % 8 = 0
        OBVIOUS
      <3>3. QED
        BY <3>1, <3>2
    <2>3. CASE n = 2 * r + 1
      <3>1. s.bits = 8 * r + 4
        BY <1>1, <2>3
      <3>2. (8 * r + 4 + 7) \div 8 = r + 1 /\ (8 * r + 4) % 8 = 4
        OBVIOUS
      <3>3. QED
        BY <3>1, <3>2
    <2>4. QED
      BY <2>1, <2>2, <2>3
  <1>4. a = [bytes |-> s.bytes + c, bits |-> 0, partial |-> s.partial + p]
    BY <1>3 DEF AlignedSegment
  <1>5. a.bytes = s.bytes + c /\ a.bits = 0 /\ a.partial = s.partial + p
    BY <1>4
  <1>6. a \in Nibbles
    <2>1. a \in Segment
      BY <1>2, <1>4 DEF Segment
    <2>2. a.bits = 4 * 0 /\ 0 \in Nat
      BY <1>5
    <2>3. QED
      BY <2>1, <2>2 DEF Nibbles
  <1> HIDE DEF a
  <1>7. Weight(a) = Weight(s)
    BY <1>2, <1>3, <1>5 DEF Weight
  <1>8. QED
    BY <1>5, <1>6, <1>7 DEF a

\* An item adds its size to the weight.
LEMMA ItemWeight ==
    ASSUME NEW s \in Nibbles, NEW item \in ItemTypes
    PROVE  /\ SegmentWith(s, item) \in Nibbles
           /\ Weight(SegmentWith(s, item)) = Weight(s) + ItemLayout(item)[1]
           /\ item # "BitU4" => SegmentWith(s, item).bits = 0
  <1> DEFINE a == AlignedSegment(s)
             e == SegmentWith(s, item)
  <1>1. s.bytes \in Nat /\ s.bits \in Nat /\ s.partial \in Nat /\ s \in Segment
    BY DEF Nibbles, Segment
  <1>2. a \in Nibbles /\ a.bits = 0 /\ Weight(a) = Weight(s)
    BY AlignedWeight
  <1>3. a.bytes \in Nat /\ a.partial \in Nat /\ a \in Segment
    BY <1>2 DEF Nibbles, Segment
  <1>4. CASE item = "BitU4"
    <2>1. e = [s EXCEPT !.bits = @ + 4]
      BY <1>4 DEF SegmentWith
    <2>2. e \in Segment /\ e.bytes = s.bytes /\ e.bits = s.bits + 4 /\ e.partial = s.partial
      BY <1>1, <2>1 DEF Segment
    <2>3. PICK n \in Nat : s.bits = 4 * n
      BY DEF Nibbles
    <2>4. e.bits = 4 * (n + 1) /\ n + 1 \in Nat
      BY <2>2, <2>3
    <2>5. e \in Nibbles
      BY <2>2, <2>4 DEF Nibbles
    <2>6. ItemLayout(item)[1] = 4
      BY <1>4 DEF ItemLayout, size
    <2> HIDE DEF e
    <2>7. Weight(e) = Weight(s) + 4
      BY <1>1, <2>2 DEF Weight
    <2>8. QED
      BY <1>4, <2>5, <2>6, <2>7 DEF e
  <1>5. CASE item \in {"open", "close"}
    <2>1. e = a /\ ItemLayout(item)[1] = 0
      BY <1>5 DEF SegmentWith, ItemLayout
    <2>2. Weight(s) \in Int
      BY <1>1 DEF Weight
    <2>3. QED
      BY <1>2, <2>1, <2>2
  <1>6. CASE item \in {"U8", "list"}
    <2>1. PICK b \in {1, 2} : size(item) \div 8 = b /\ ItemLayout(item)[1] = 8 * b
      <3>1. CASE item = "U8"
        <4>1. size(item) = 8 /\ ItemLayout(item)[1] = 8
          BY <3>1 DEF size, ItemLayout
        <4>2. QED
          BY <4>1
      <3>2. CASE item = "list"
        <4>1. size(item) = 16 /\ ItemLayout(item)[1] = 16
          BY <3>2 DEF size, ItemLayout
        <4>2. QED
          BY <4>1
      <3>3. QED
        BY <1>6, <3>1, <3>2
    <2>2. e = [a EXCEPT !.bytes = @ + b]
      BY <1>6, <2>1 DEF SegmentWith
    <2> HIDE DEF a
    <2>3. e \in Segment /\ e.bytes = a.bytes + b /\ e.bits = a.bits /\ e.partial = a.partial
      BY <1>3, <2>1, <2>2 DEF Segment
    <2>4. e \in Nibbles
      BY <1>2, <2>3 DEF Nibbles
    <2> HIDE DEF e
    <2>5. Weight(e) = Weight(a) + 8 * b
      BY <1>2, <1>3, <2>1, <2>3 DEF Weight
    <2>6. QED
      BY <1>2, <2>1, <2>3, <2>4, <2>5 DEF e
  <1>7. QED
    BY <1>4, <1>5, <1>6 DEF ItemTypes, Primitive

LEMMA WeightsOf ==
    ASSUME NEW segs \in Segments
    PROVE  /\ segs \in Seq(Nibbles) /\ Len(segs) \in Nat \ {0}
           /\ Weights(segs) \in Seq(Int)
           /\ Len(Weights(segs)) = Len(segs)
           /\ \A k \in 1 .. Len(segs) : segs[k] \in Nibbles /\ Weights(segs)[k] = Weight(segs[k])
  <1>1. segs \in Seq(Nibbles) /\ segs # <<>>
    BY DEF Segments
  <1>2. Len(segs) \in Nat \ {0} /\ DOMAIN segs = 1 .. Len(segs)
        /\ \A k \in 1 .. Len(segs) : segs[k] \in Nibbles
    BY <1>1
  <1>3. \A s \in Nibbles : Weight(s) \in Int
    BY DEF Nibbles, Segment, Weight
  <1>4. Weights(segs) = [k \in 1 .. Len(segs) |-> Weight(segs[k])]
    BY <1>2 DEF Weights
  <1>5. QED
    BY <1>1, <1>2, <1>3, <1>4

\* An item adds its layout.
LEMMA StoreJoins ==
    ASSUME NEW segs \in Segments, NEW item \in ItemTypes
    PROVE  /\ Store(segs, item) \in Segments
           /\ IsJoin(Weights(Store(segs, item)), Weights(segs), ItemLayout(item))
           /\ item # "BitU4" =>
                  \A k \in 1 .. Len(Store(segs, item)) : Store(segs, item)[k].bits = 0
  <1> DEFINE n == Len(segs)
             e == SegmentWith(segs[n], item)
             changed == Append(Front(segs), e)
             new == Store(segs, item)
  <1>1. /\ segs \in Seq(Nibbles) /\ n \in Nat \ {0} /\ Len(Weights(segs)) = n
        /\ \A k \in 1 .. n : segs[k] \in Nibbles /\ Weights(segs)[k] = Weight(segs[k])
        /\ \A k \in 1 .. n - 1 : segs[k].bits = 0
    BY WeightsOf DEF Segments
  <1>2. new = IF item = "list" THEN Append(changed, NoBytes) ELSE changed
    BY DEF Store, SegmentWith, AlignedSegment, Last
  <1>3. /\ e \in Nibbles /\ Weight(e) = Weight(segs[n]) + ItemLayout(item)[1]
        /\ item # "BitU4" => e.bits = 0
    <2>1. segs[n] \in Nibbles
      BY <1>1
    <2>2. QED
      BY <2>1, ItemWeight
  <1> HIDE DEF e, n
  <1>4. /\ changed \in Seq(Nibbles) /\ Len(changed) = n /\ changed[n] = e
        /\ \A k \in 1 .. n - 1 : changed[k] = segs[k]
    <2> DEFINE front == Front(segs)
    <2>1. front \in Seq(Nibbles) /\ Len(front) = n - 1 /\ \A k \in 1 .. n - 1 : front[k] = segs[k]
      BY <1>1 DEF Front, n
    <2> HIDE DEF front
    <2>2. changed = Append(front, e)
      BY DEF front
    <2>3. /\ Append(front, e) \in Seq(Nibbles) /\ Len(Append(front, e)) = Len(front) + 1
          /\ \A k \in 1 .. Len(front) : Append(front, e)[k] = front[k]
          /\ Append(front, e)[Len(front) + 1] = e
      BY <1>3, <2>1, AppendProperties
    <2> HIDE DEF changed
    <2>4. n - 1 + 1 = n
      BY <1>1
    <2>5. QED
      BY <2>1, <2>2, <2>3, <2>4
  <1> HIDE DEF changed
  <1>5. NoBytes \in Nibbles /\ NoBytes.bits = 0 /\ Weight(NoBytes) = 0
    <2>1. NoBytes.bits = 0 /\ NoBytes.bytes = 0 /\ NoBytes.partial = 0 /\ NoBytes \in Segment
      BY DEF NoBytes, Segment
    <2>2. NoBytes.bits = 4 * 0 /\ 0 \in Nat
      BY <2>1
    <2>3. QED
      BY <2>1, <2>2 DEF Nibbles, Weight
  <1>6. \A k \in 1 .. n : (item # "BitU4" \/ k < n) => changed[k].bits = 0
    BY <1>1, <1>3, <1>4
  <1>7. CASE item = "list"
    <2>1. new \in Seq(Nibbles) /\ Len(new) = n + 1 /\ new[n + 1] = NoBytes
          /\ \A k \in 1 .. n : new[k] = changed[k]
      BY <1>1, <1>2, <1>4, <1>5, <1>7
    <2> HIDE DEF new
    <2>2. \A k \in 1 .. n + 1 : new[k].bits = 0
      BY <1>1, <1>5, <1>6, <1>7, <2>1
    <2>3. new \in Segments
      BY <1>1, <2>1, <2>2 DEF Segments
    <2>4. /\ Len(Weights(new)) = n + 1
          /\ \A k \in 1 .. n + 1 : Weights(new)[k] = Weight(new[k])
      BY <2>1, <2>3, WeightsOf
    <2>5. ItemLayout(item) = <<16, 0>>
      BY <1>7 DEF ItemLayout
    <2> DEFINE w == Weights(new)
               a == Weights(segs)
               l == ItemLayout(item)
    <2>6. /\ Len(w) = n + 1 /\ Len(a) = n /\ Len(l) = 2 /\ l[2] = 0
          /\ \A k \in 1 .. n - 1 : w[k] = a[k]
          /\ w[n] = a[n] + l[1] /\ w[n + 1] = 0
      <3>1. n \in 1 .. n + 1 /\ n \in 1 .. n /\ n + 1 \in 1 .. n + 1
            /\ \A k \in 1 .. n - 1 : k \in 1 .. n + 1 /\ k \in 1 .. n
        BY <1>1
      <3>2. \A k \in 1 .. n - 1 : w[k] = a[k]
        BY <1>1, <1>4, <2>1, <2>4, <3>1
      <3>3. w[n] = a[n] + l[1] /\ w[n + 1] = 0
        BY <1>1, <1>3, <1>4, <1>5, <2>1, <2>4, <3>1
      <3>4. QED
        BY <1>1, <2>4, <2>5, <3>2, <3>3
    <2> HIDE DEF w, a, l
    <2>7. IsJoin(w, a, l)
      <3>1. \A k \in 2 .. 2 : n + k - 1 = n + 1 /\ k = 2
        BY <1>1
      <3>2. Len(a) + Len(l) - 1 = n + 1
        BY <1>1, <2>6
      <3>3. QED
        BY <2>6, <3>1, <3>2 DEF IsJoin
    <2>8. QED
      BY <2>1, <2>2, <2>3, <2>7 DEF w, a, l, new
  <1>8. CASE item # "list"
    <2>1. new = changed
      BY <1>2, <1>8
    <2> HIDE DEF new
    <2>2. new \in Segments
      BY <1>1, <1>4, <1>6, <2>1 DEF Segments
    <2>3. /\ Len(Weights(new)) = n
          /\ \A k \in 1 .. n : Weights(new)[k] = Weight(new[k])
      BY <1>4, <2>1, <2>2, WeightsOf
    <2>4. Len(ItemLayout(item)) = 1
      BY <1>8 DEF ItemLayout
    <2> DEFINE w == Weights(new)
               a == Weights(segs)
               l == ItemLayout(item)
    <2>5. /\ Len(w) = n /\ Len(a) = n /\ Len(l) = 1
          /\ \A k \in 1 .. n - 1 : w[k] = a[k]
          /\ w[n] = a[n] + l[1]
      <3>1. n \in 1 .. n /\ \A k \in 1 .. n - 1 : k \in 1 .. n
        BY <1>1
      <3>2. \A k \in 1 .. n - 1 : w[k] = a[k]
        BY <1>1, <1>4, <2>1, <2>3, <3>1
      <3>3. w[n] = a[n] + l[1]
        BY <1>1, <1>3, <1>4, <2>1, <2>3, <3>1
      <3>4. QED
        BY <1>1, <2>3, <2>4, <3>2, <3>3
    <2> HIDE DEF w, a, l
    <2>6. IsJoin(w, a, l)
      <3>1. n + 1 - 1 = n
        BY <1>1
      <3>2. QED
        BY <2>5, <3>1 DEF IsJoin
    <2>7. QED
      BY <1>4, <1>6, <2>1, <2>2, <2>6 DEF w, a, l, new
  <1>9. QED
    BY <1>7, <1>8

\* What is added twice is added once.
LEMMA JoinTwice ==
    ASSUME NEW a \in Seq(Int), NEW b \in Seq(Int), NEW c \in Seq(Int),
           NEW l1 \in Seq(Int), NEW l2 \in Seq(Int), NEW l3 \in Seq(Int),
           a # <<>>, l1 # <<>>, l2 # <<>>,
           IsJoin(b, a, l1), IsJoin(c, b, l2), IsJoin(l3, l1, l2)
    PROVE  IsJoin(c, a, l3)
  <1> DEFINE A == Len(a)
             P == Len(l1)
             Q == Len(l2)
             B == Len(b)
  <1>1. A \in Nat \ {0} /\ P \in Nat \ {0} /\ Q \in Nat \ {0}
    OBVIOUS
  <1>2. /\ B = A + P - 1
        /\ \A k \in 1 .. A - 1 : b[k] = a[k]
        /\ b[A] = a[A] + l1[1]
        /\ \A k \in 2 .. P : b[A + k - 1] = l1[k]
    BY DEF IsJoin
  <1>3. /\ Len(c) = B + Q - 1
        /\ \A k \in 1 .. B - 1 : c[k] = b[k]
        /\ c[B] = b[B] + l2[1]
        /\ \A k \in 2 .. Q : c[B + k - 1] = l2[k]
    BY DEF IsJoin
  <1>4. /\ Len(l3) = P + Q - 1
        /\ \A k \in 1 .. P - 1 : l3[k] = l1[k]
        /\ l3[P] = l1[P] + l2[1]
        /\ \A k \in 2 .. Q : l3[P + k - 1] = l2[k]
    BY DEF IsJoin
  <1>5. a[A] \in Int /\ l1[1] \in Int /\ l2[1] \in Int
    BY <1>1, ElementOfSeq
  <1> HIDE DEF A, P, Q, B
  <1>6. Len(c) = A + Len(l3) - 1
    BY <1>1, <1>2, <1>3, <1>4
  <1>7. ASSUME NEW k \in 1 .. A - 1 PROVE c[k] = a[k]
    <2>1. k \in 1 .. B - 1
      BY <1>1, <1>2
    <2>2. QED
      BY <2>1, <1>2, <1>3
  <1>8. c[A] = a[A] + l3[1]
    <2>1. CASE P = 1
      <3>1. B = A
        BY <1>1, <1>2, <2>1
      <3>2. c[A] = (a[A] + l1[1]) + l2[1] /\ l3[1] = l1[1] + l2[1]
        BY <1>2, <1>3, <1>4, <2>1, <3>1
      <3> DEFINE u == a[A]
                 v == l1[1]
                 z == l2[1]
      <3>3. u \in Int /\ v \in Int /\ z \in Int
        BY <1>5
      <3>4. c[A] = (u + v) + z /\ l3[1] = v + z
        BY <3>2
      <3> HIDE DEF u, v, z
      <3>5. c[A] = u + l3[1]
        BY <3>3, <3>4
      <3>6. QED
        BY <3>5 DEF u
    <2>2. CASE P # 1
      <3>1. A \in 1 .. B - 1 /\ 1 \in 1 .. P - 1
        BY <1>1, <1>2, <2>2
      <3>2. QED
        BY <3>1, <1>2, <1>3, <1>4
    <2>3. QED
      BY <2>1, <2>2
  <1>9. ASSUME NEW k \in 2 .. Len(l3) PROVE c[A + k - 1] = l3[k]
    <2>1. k \in Nat /\ k >= 2 /\ k <= P + Q - 1
      BY <1>1, <1>4
    <2>2. CASE k < P
      <3>1. A + k - 1 \in 1 .. B - 1 /\ k \in 2 .. P /\ k \in 1 .. P - 1
        BY <1>1, <1>2, <2>1, <2>2
      <3>2. QED
        BY <3>1, <1>2, <1>3, <1>4
    <2>3. CASE k = P
      <3>1. A + k - 1 = B /\ k \in 2 .. P
        BY <1>1, <1>2, <2>1, <2>3
      <3>2. b[B] = l1[P]
        BY <3>1, <1>2, <2>3
      <3>3. QED
        BY <3>1, <3>2, <1>3, <1>4, <2>3
    <2>4. CASE k > P
      <3>1. PICK j \in 2 .. Q : k = P + j - 1
        <4>1. k - P + 1 \in 2 .. Q /\ k = P + (k - P + 1) - 1
          BY <1>1, <2>1, <2>4
        <4>2. QED
          BY <4>1
      <3>2. A + k - 1 = B + j - 1
        BY <1>1, <1>2, <3>1
      <3>3. QED
        BY <3>1, <3>2, <1>3, <1>4
    <2>5. QED
      BY <1>1, <2>1, <2>2, <2>3, <2>4
  <1>10. QED
    BY <1>6, <1>7, <1>8, <1>9 DEF IsJoin, A

\* Running the store function over items.
Runs(g, items) == \A i \in 1 .. Len(items) : g[i] = Store(g[i - 1], items[i])

\* Wherever they begin, items add their layout.
Fits(items, layout) ==
    /\ items \in Seq(ItemTypes)
    /\ layout \in Layouts
    /\ \A g \in [0 .. Len(items) -> Segments] :
          Runs(g, items) => IsJoin(Weights(g[Len(items)]), Weights(g[0]), layout)

LEMMA LayoutIsSeq ==
    ASSUME NEW l \in Layouts
    PROVE  l \in Seq(Nat) /\ l \in Seq(Int) /\ l # <<>> /\ Len(l) \in Nat \ {0} /\ l[1] \in Nat
  <1>1. l \in Seq(Nat) /\ l # <<>>
    BY DEF Layouts
  <1>2. Len(l) \in Nat \ {0} /\ DOMAIN l = 1 .. Len(l) /\ \A k \in 1 .. Len(l) : l[k] \in Nat
    BY <1>1
  <1>3. l \in Seq(Int)
    BY <1>1
  <1>4. QED
    BY <1>1, <1>2, <1>3

LEMMA WeightsAreInts ==
    ASSUME NEW segs \in Segments
    PROVE  Weights(segs) \in Seq(Int) /\ Weights(segs) # <<>>
  <1>1. Weights(segs) \in Seq(Int) /\ Len(Weights(segs)) \in Nat \ {0}
    BY WeightsOf
  <1>2. QED
    BY <1>1

\* Nothing to add.
LEMMA JoinNothing ==
    ASSUME NEW a \in Seq(Int), a # <<>>
    PROVE  IsJoin(a, a, <<0>>) /\ IsJoin(a, <<0>>, a)
  <1>1. Len(a) \in Nat \ {0}
    OBVIOUS
  <1>2. a[Len(a)] \in Int /\ a[1] \in Int
    BY <1>1, ElementOfSeq
  <1>3. IsJoin(a, a, <<0>>)
    <2>1. Len(a) = Len(a) + 1 - 1 /\ a[Len(a)] = a[Len(a)] + 0
      BY <1>1, <1>2
    <2>2. QED
      BY <2>1 DEF IsJoin
  <1>4. IsJoin(a, <<0>>, a)
    <2>1. Len(a) = 1 + Len(a) - 1 /\ a[1] = 0 + a[1] /\ \A k \in 2 .. Len(a) : 1 + k - 1 = k
      BY <1>1, <1>2
    <2>2. QED
      BY <2>1 DEF IsJoin
  <1>5. QED
    BY <1>3, <1>4

\* No items, and one item.
LEMMA FitsNothing == Fits(<<>>, <<0>>)
  <1>1. <<>> \in Seq(ItemTypes) /\ <<0>> \in Layouts /\ Len(<<>>) = 0
    BY DEF Layouts
  <1>2. ASSUME NEW g \in [0 .. 0 -> Segments] PROVE IsJoin(Weights(g[0]), Weights(g[0]), <<0>>)
    <2>1. g[0] \in Segments
      OBVIOUS
    <2>2. QED
      BY <2>1, WeightsAreInts, JoinNothing
  <1>3. QED
    BY <1>1, <1>2 DEF Fits

LEMMA FitsOne ==
    ASSUME NEW item \in ItemTypes
    PROVE  Fits(<<item>>, ItemLayout(item))
  <1> DEFINE s == <<item>>
  <1>1. s \in Seq(ItemTypes) /\ Len(s) = 1 /\ s[1] = item
    OBVIOUS
  <1>2. ItemLayout(item) \in Layouts
    BY DEF ItemLayout, Layouts, ItemTypes, Primitive, size
  <1> HIDE DEF s
  <1>3. ASSUME NEW g \in [0 .. 1 -> Segments], Runs(g, s)
        PROVE  IsJoin(Weights(g[1]), Weights(g[0]), ItemLayout(item))
    <2>1. g[0] \in Segments /\ g[1] = Store(g[0], item)
      BY <1>1, <1>3 DEF Runs
    <2>2. QED
      BY <2>1, StoreJoins
  <1>4. QED
    BY <1>1, <1>2, <1>3 DEF Fits, s

\* Items after items.
LEMMA FitsConcat ==
    ASSUME NEW x, NEW y, NEW l1, NEW l2, NEW l3 \in Layouts,
           Fits(x, l1), Fits(y, l2), IsJoin(l3, l1, l2)
    PROVE  Fits(x \o y, l3)
  <1> DEFINE n == Len(x)
             m == Len(y)
             s == x \o y
  <1>1. x \in Seq(ItemTypes) /\ y \in Seq(ItemTypes) /\ l1 \in Layouts /\ l2 \in Layouts
    BY DEF Fits
  <1>2. n \in Nat /\ m \in Nat
    BY <1>1
  <1>3. /\ s \in Seq(ItemTypes) /\ Len(s) = n + m
        /\ \A i \in 1 .. n + m : s[i] = IF i <= n THEN x[i] ELSE y[i - n]
    BY <1>1, ConcatProperties
  <1> HIDE DEF n, m, s
  <1>4. ASSUME NEW g \in [0 .. n + m -> Segments], Runs(g, s)
        PROVE  IsJoin(Weights(g[n + m]), Weights(g[0]), l3)
    <2>1. PICK g1 \in [0 .. n -> Segments] : \A i \in 0 .. n : g1[i] = g[i]
      <3> DEFINE h == [i \in 0 .. n |-> g[i]]
      <3>1. h \in [0 .. n -> Segments] /\ \A i \in 0 .. n : h[i] = g[i]
        BY <1>2
      <3> HIDE DEF h
      <3>2. QED
        BY <3>1
    <2>2. PICK g2 \in [0 .. m -> Segments] : \A i \in 0 .. m : g2[i] = g[n + i]
      <3> DEFINE h == [i \in 0 .. m |-> g[n + i]]
      <3>1. h \in [0 .. m -> Segments] /\ \A i \in 0 .. m : h[i] = g[n + i]
        BY <1>2
      <3> HIDE DEF h
      <3>2. QED
        BY <3>1
    <2>3. \A i \in 1 .. n + m : g[i] = Store(g[i - 1], s[i])
      BY <1>3, <1>4 DEF Runs
    <2>4. Runs(g1, x)
      <3>1. ASSUME NEW i \in 1 .. n PROVE g1[i] = Store(g1[i - 1], x[i])
        <4>1. i \in 1 .. n + m /\ i <= n /\ i \in 0 .. n /\ i - 1 \in 0 .. n
          BY <1>2
        <4>2. s[i] = x[i] /\ g1[i] = g[i] /\ g1[i - 1] = g[i - 1]
          BY <4>1, <1>3, <2>1
        <4>3. QED
          BY <4>1, <4>2, <2>3
      <3>2. QED
        BY <3>1 DEF Runs, n
    <2>5. Runs(g2, y)
      <3>1. ASSUME NEW i \in 1 .. m PROVE g2[i] = Store(g2[i - 1], y[i])
        <4>1. PICK p \in 1 .. n + m : p = n + i
          BY <1>2
        <4>a. ~ (p <= n) /\ p - n = i /\ i \in 0 .. m /\ i - 1 \in 0 .. m /\ n + (i - 1) = p - 1
          BY <1>2, <4>1
        <4>2. s[p] = y[i] /\ g2[i] = g[p] /\ g2[i - 1] = g[p - 1]
          BY <4>1, <4>a, <1>3, <2>2
        <4>3. QED
          BY <4>1, <4>2, <2>3
      <3>2. QED
        BY <3>1 DEF Runs, m
    <2>6. IsJoin(Weights(g1[n]), Weights(g1[0]), l1)
      BY <2>4 DEF Fits, n
    <2>7. IsJoin(Weights(g2[m]), Weights(g2[0]), l2)
      BY <2>5 DEF Fits, m
    <2>8. g1[0] = g[0] /\ g1[n] = g[n] /\ g2[0] = g[n] /\ g2[m] = g[n + m]
      BY <1>2, <2>1, <2>2
    <2>9. g[0] \in Segments /\ g[n] \in Segments /\ g[n + m] \in Segments
      BY <1>2
    <2> DEFINE a == Weights(g[0])
               b == Weights(g[n])
               c == Weights(g[n + m])
    <2>10. a \in Seq(Int) /\ b \in Seq(Int) /\ c \in Seq(Int) /\ a # <<>>
      BY <2>9, WeightsAreInts
    <2>11. IsJoin(b, a, l1) /\ IsJoin(c, b, l2)
      BY <2>6, <2>7, <2>8
    <2>12. l1 \in Seq(Int) /\ l2 \in Seq(Int) /\ l3 \in Seq(Int) /\ l1 # <<>> /\ l2 # <<>>
      BY <1>1, LayoutIsSeq
    <2> HIDE DEF a, b, c
    <2>13. IsJoin(c, a, l3)
      BY <2>10, <2>11, <2>12, JoinTwice
    <2>14. QED
      BY <2>13 DEF a, c
  <1>5. QED
    BY <1>3, <1>4 DEF Fits, s

\* The layout of the type of a member, and what struct() does with it.
TypeLayout(t) == IF t \in Structs THEN types[t].layout ELSE ItemLayout(t)

\* Every structure so far has the layout of what its store function writes.
StoreInv ==
    /\ IsFiniteSet(Structs)
    /\ Structs \cap Primitive = {}
    /\ \A t \in Structs : Fits(types[t].items, types[t].layout)

LEMMA ExtendedJoins ==
    ASSUME StoreInv, NEW a \in Layouts, NEW t \in Primitive \cup Structs
    PROVE  /\ TypeLayout(t) \in Layouts
           /\ Extended(a, t) \in Layouts
           /\ IsJoin(Extended(a, t), a, TypeLayout(t))
  <1> DEFINE n == Len(a)
             l == TypeLayout(t)
             sum == [a EXCEPT ![n] = @ + l[1]]
             e == Extended(a, t)
  <1>1. l \in Layouts
    <2>1. CASE t \in Structs
      BY <2>1 DEF StoreInv, Fits, TypeLayout
    <2>2. CASE t \notin Structs
      <3>1. t \in ItemTypes
        BY <2>2 DEF ItemTypes
      <3>2. QED
        BY <2>2, <3>1, FitsOne DEF Fits, TypeLayout
    <2>3. QED
      BY <2>1, <2>2
  <1>2. l \in Seq(Nat) /\ Len(l) \in Nat \ {0} /\ l[1] \in Nat /\ l # <<>>
    BY <1>1, LayoutIsSeq
  <1>3. a \in Seq(Nat) /\ n \in Nat \ {0}
    BY LayoutIsSeq
  <1>4. e = IF t = "list" THEN Append(sum, 0) ELSE IF t \in Structs THEN sum \o Tail(l) ELSE sum
    <2>1. l[1] = IF t \in Structs THEN types[t].layout[1] ELSE size(t)
      BY DEF TypeLayout, ItemLayout, Primitive, size
    <2>2. t \in Structs => l = types[t].layout
      BY DEF TypeLayout
    <2> HIDE DEF l
    <2>3. QED
      BY <2>1, <2>2 DEF Extended
  <1>a. l = IF t \in Structs THEN types[t].layout ELSE IF t = "list" THEN <<16, 0>> ELSE <<size(t)>>
    BY DEF TypeLayout, ItemLayout, Primitive
  <1> HIDE DEF l, n, e
  <1>5. /\ sum \in Seq(Nat) /\ Len(sum) = n /\ sum[n] = a[n] + l[1]
        /\ \A k \in 1 .. n - 1 : sum[k] = a[k]
    BY <1>2, <1>3 DEF n
  <1> HIDE DEF sum
  <1>6. CASE t \in Structs
    <2> DEFINE r == Tail(l)
               q == Len(l)
    <2>1. t # "list"
      BY <1>6 DEF StoreInv, Primitive
    <2>2. r \in Seq(Nat) /\ Len(r) = q - 1 /\ \A k \in 1 .. q - 1 : r[k] = l[k + 1]
      BY <1>2
    <2>3. e = sum \o r
      BY <1>4, <1>6, <2>1
    <2>q. q \in Nat \ {0}
      BY <1>2
    <2> HIDE DEF r
    <2>4. /\ e \in Seq(Nat) /\ Len(e) = n + (q - 1)
          /\ \A k \in 1 .. n + (q - 1) : e[k] = IF k <= n THEN sum[k] ELSE r[k - n]
      <3>1. Len(sum) = n /\ Len(r) = q - 1 /\ sum \in Seq(Nat) /\ r \in Seq(Nat)
        BY <1>5, <2>2
      <3> HIDE DEF q
      <3>2. /\ sum \o r \in Seq(Nat) /\ Len(sum \o r) = Len(sum) + Len(r)
            /\ \A k \in 1 .. Len(sum) + Len(r) :
                  (sum \o r)[k] = IF k <= Len(sum) THEN sum[k] ELSE r[k - Len(sum)]
        BY <3>1, ConcatProperties
      <3>3. QED
        BY <2>3, <3>1, <3>2
    <2> HIDE DEF q
    <2>5. \A k \in 1 .. n - 1 : e[k] = a[k]
      <3>1. \A k \in 1 .. n - 1 : k \in 1 .. n + (q - 1) /\ k <= n
        BY <1>3, <2>q
      <3>2. QED
        BY <1>5, <2>4, <3>1
    <2>6. e[n] = a[n] + l[1]
      <3>1. n \in 1 .. n + (q - 1) /\ n <= n
        BY <1>3, <2>q
      <3>2. QED
        BY <1>5, <2>4, <3>1
    <2>7. ASSUME NEW k \in 2 .. q PROVE e[n + k - 1] = l[k]
      <3>1. PICK p \in 1 .. n + (q - 1) : p = n + k - 1
        BY <1>3, <2>q
      <3>2. ~ (p <= n) /\ p - n \in 1 .. q - 1 /\ p - n + 1 = k
        BY <1>3, <2>q, <3>1
      <3>3. e[p] = r[p - n] /\ r[p - n] = l[p - n + 1]
        BY <2>2, <2>4, <3>2
      <3>4. QED
        BY <3>1, <3>2, <3>3
    <2>8. Len(e) = n + q - 1 /\ e # <<>>
      BY <1>3, <2>q, <2>4
    <2>9. QED
      BY <1>1, <2>4, <2>5, <2>6, <2>7, <2>8 DEF IsJoin, Layouts, n, q, l, e
  <1>7. CASE t \notin Structs /\ t = "list"
    <2>1. e = Append(sum, 0) /\ l = <<16, 0>>
      BY <1>4, <1>7, <1>a
    <2>2. /\ e \in Seq(Nat) /\ Len(e) = n + 1 /\ e[n + 1] = 0
          /\ \A k \in 1 .. n : e[k] = sum[k]
      BY <1>3, <1>5, <2>1
    <2>3. Len(l) = 2 /\ l[2] = 0
      BY <2>1
    <2>4. (\A k \in 1 .. n - 1 : e[k] = a[k]) /\ e[n] = a[n] + l[1]
      BY <1>3, <1>5, <2>2
    <2>5. (\A k \in 2 .. 2 : n + k - 1 = n + 1 /\ k = 2) /\ n + 2 - 1 = n + 1
      BY <1>3
    <2>6. IsJoin(e, a, l)
      BY <2>2, <2>3, <2>4, <2>5 DEF IsJoin, n
    <2>7. e # <<>>
      BY <1>3, <2>2
    <2>8. QED
      BY <1>1, <2>2, <2>6, <2>7 DEF Layouts, l, e
  <1>8. CASE t \notin Structs /\ t # "list"
    <2>1. e = sum /\ Len(l) = 1
      BY <1>4, <1>8, <1>a
    <2>2. n + 1 - 1 = n /\ e # <<>>
      BY <1>3, <1>5, <2>1
    <2>3. IsJoin(e, a, l)
      BY <1>5, <2>1, <2>2 DEF IsJoin, n
    <2>4. QED
      BY <1>1, <1>5, <2>1, <2>2, <2>3 DEF Layouts, l, e
  <1>9. QED
    BY <1>6, <1>7, <1>8

\* The items of a member have the layout of its type.
LEMMA MemberFits ==
    ASSUME StoreInv, NEW m, m.type \in Primitive \cup Structs
    PROVE  Fits(Items(m), TypeLayout(m.type))
  <1> DEFINE t == m.type
  <1>1. CASE t \notin Structs
    <2>1. Items(m) = <<t>> /\ TypeLayout(t) = ItemLayout(t) /\ t \in ItemTypes
      BY <1>1 DEF Items, TypeLayout, ItemTypes
    <2>2. QED
      BY <2>1, FitsOne
  <1>2. CASE t \in Structs
    <2> DEFINE x == types[t].items
               l == types[t].layout
    <2>1. Fits(x, l)
      BY <1>2 DEF StoreInv
    <2>2. Items(m) = <<"open">> \o x \o <<"close">> /\ TypeLayout(t) = l
      BY <1>2 DEF Items, TypeLayout
    <2>3. Fits(<<"open">>, <<0>>) /\ Fits(<<"close">>, <<0>>)
      <3>1. "open" \in ItemTypes /\ "close" \in ItemTypes
        BY DEF ItemTypes
      <3>2. ItemLayout("open") = <<0>> /\ ItemLayout("close") = <<0>>
        BY DEF ItemLayout
      <3>3. Fits(<<"open">>, ItemLayout("open")) /\ Fits(<<"close">>, ItemLayout("close"))
        BY <3>1, FitsOne
      <3>4. QED
        BY <3>2, <3>3
    <2> HIDE DEF x, l
    <2>4. l \in Layouts
      BY <2>1 DEF Fits
    <2>5. IsJoin(l, <<0>>, l) /\ IsJoin(l, l, <<0>>)
      BY <2>4, LayoutIsSeq, JoinNothing
    <2>6. Fits(<<"open">> \o x, l)
      BY <2>1, <2>3, <2>4, <2>5, FitsConcat
    <2>7. Fits((<<"open">> \o x) \o <<"close">>, l)
      BY <2>3, <2>4, <2>5, <2>6, FitsConcat
    <2>8. QED
      BY <2>2, <2>7
  <1>3. QED
    BY <1>1, <1>2

\* Before anything is written.
LEMMA EmptySegment ==
    /\ <<NoBytes>> \in Segments
    /\ Weights(<<NoBytes>>) = <<0>>
  <1>1. NoBytes.bits = 0 /\ NoBytes.bytes = 0 /\ NoBytes.partial = 0 /\ NoBytes \in Segment
    BY DEF NoBytes, Segment
  <1>2. NoBytes.bits = 4 * 0 /\ 0 \in Nat
    BY <1>1
  <1>3. NoBytes \in Nibbles /\ Weight(NoBytes) = 0
    BY <1>1, <1>2 DEF Nibbles, Weight
  <1>4. <<NoBytes>> \in Seq(Nibbles) /\ Len(<<NoBytes>>) = 1 /\ <<NoBytes>>[1] = NoBytes
    BY <1>3
  <1>5. <<NoBytes>> \in Segments
    BY <1>4 DEF Segments
  <1>6. Weights(<<NoBytes>>) \in Seq(Int) /\ Len(Weights(<<NoBytes>>)) = 1
        /\ Weights(<<NoBytes>>)[1] = 0
    BY <1>3, <1>4, <1>5, WeightsOf
  <1>7. QED
    BY <1>5, <1>6

\* The fold of Store, item by item.
StoreLoop(g, items, n) ==
    /\ g[0] = <<NoBytes>>
    /\ \A i \in 1 .. n : g[i] = Store(g[i - 1], items[i])
    /\ FoldLeft(Store, <<NoBytes>>, items) = g[n]

LEMMA StoreSteps ==
    ASSUME NEW items \in Seq(ItemTypes), NEW n \in Nat, DOMAIN items = 1 .. n
    PROVE  \E g \in [0 .. n -> Segments] : StoreLoop(g, items, n)
  <1>0. \A i \in 1 .. n : items[i] \in ItemTypes
    OBVIOUS
  <1> DEFINE E(a, i) == Store(a, items[i])
             Step(f, s) == IF s = {} THEN <<NoBytes>> ELSE E(f[s \ {Max(s)}], Max(s))
             Good(m) == \E f : f = [s \in SUBSET (1 .. m) |-> Step(f, s)]
             iter == CHOOSE f : f = [s \in SUBSET (1 .. n) |-> Step(f, s)]
  <1>1. FoldLeft(Store, <<NoBytes>>, items) = iter[1 .. n]
    BY Zenon DEF FoldLeft, MapThenFoldSet
  <1> HIDE DEF E, iter
  <1>2. Good(0)
    <2> DEFINE f == [s \in SUBSET (1 .. 0) |-> <<NoBytes>>]
    <2>1. \A s \in SUBSET (1 .. 0) : s = {}
      OBVIOUS
    <2>2. f = [s \in SUBSET (1 .. 0) |-> Step(f, s)]
      BY <2>1
    <2>3. QED
      BY <2>2
  <1>3. ASSUME NEW m \in Nat, Good(m)
        PROVE  Good(m + 1)
    <2>1. PICK f : f = [s \in SUBSET (1 .. m) |-> Step(f, s)]
      BY <1>3
    <2> DEFINE h == [s \in SUBSET (1 .. m + 1) |->
                        IF m + 1 \in s THEN E(f[s \ {m + 1}], m + 1) ELSE f[s]]
    <2>2. ASSUME NEW s \in SUBSET (1 .. m + 1)
          PROVE  h[s] = Step(h, s)
      <3>1. CASE m + 1 \in s
        <4>1. Max(s) = m + 1
          BY <3>1, MaxOfSubset
        <4>2. s \ {m + 1} \in SUBSET (1 .. m + 1) /\ m + 1 \notin s \ {m + 1}
          OBVIOUS
        <4>3. h[s \ {m + 1}] = f[s \ {m + 1}]
          BY <4>2
        <4>4. h[s] = E(f[s \ {m + 1}], m + 1)
          BY <3>1
        <4> HIDE DEF h
        <4>5. Step(h, s) = E(h[s \ {m + 1}], m + 1)
          BY <3>1, <4>1
        <4>6. QED
          BY <4>3, <4>4, <4>5
      <3>2. CASE m + 1 \notin s
        <4>1. s \in SUBSET (1 .. m)
          BY <3>2
        <4>2. h[s] = f[s]
          BY <3>2
        <4>3. f[s] = Step(f, s)
          BY <2>1, <4>1
        <4>4. CASE s = {}
          <5> HIDE DEF h
          <5>1. QED
            BY <4>2, <4>3, <4>4
        <4>5. CASE s # {}
          <5> DEFINE r == s \ {Max(s)}
          <5>1. r \in SUBSET (1 .. m + 1) /\ m + 1 \notin r
            BY <3>2
          <5>2. h[r] = f[r]
            BY <5>1
          <5> HIDE DEF h
          <5>3. QED
            BY <4>2, <4>3, <4>5, <5>2
        <4>6. QED
          BY <4>4, <4>5
      <3>3. QED
        BY <3>1, <3>2
    <2>3. h = [s \in SUBSET (1 .. m + 1) |-> Step(h, s)]
      <3> DEFINE h2 == [s \in SUBSET (1 .. m + 1) |-> Step(h, s)]
      <3>1. \A s \in SUBSET (1 .. m + 1) : h[s] = h2[s]
        <4> HIDE DEF h
        <4> QED
          BY <2>2
      <3>2. QED
        BY <3>1
    <2> HIDE DEF h
    <2>4. QED
      BY <2>3
  <1>4. Good(n)
    <2> HIDE DEF Good
    <2> DEFINE T == {m \in 0 .. n : ~ Good(m)}
    <2> SUFFICES ASSUME T # {}
                 PROVE  FALSE
      OBVIOUS
    <2>1. T \subseteq Nat
      OBVIOUS
    <2>2. PICK m \in T : \A k \in T : m <= k
      BY <2>1, Smallest
    <2>3. m \in 0 .. n /\ ~ Good(m)
      BY <2>2
    <2>4. m # 0 /\ m - 1 \in Nat /\ (m - 1) + 1 = m
      BY <2>3, <1>2
    <2>5. m - 1 \in 0 .. n /\ m - 1 \notin T
      BY <2>2, <2>3, <2>4
    <2>6. Good(m - 1)
      BY <2>5
    <2>7. Good((m - 1) + 1)
      BY <1>3, <2>4, <2>6
    <2>8. QED
      BY <2>3, <2>4, <2>7
  <1>5. iter = [s \in SUBSET (1 .. n) |-> Step(iter, s)]
    BY <1>4 DEF iter
  <1>6. ASSUME NEW k \in 1 .. n
        PROVE  iter[1 .. k] = E(iter[1 .. k - 1], k)
    <2> DEFINE s == 1 .. k
    <2>1. s \in SUBSET (1 .. n) /\ s # {} /\ k \in s /\ s \in SUBSET (1 .. k) /\ k \in Nat
      <3>1. k \in s /\ k \in Nat
        OBVIOUS
      <3>2. \A i \in s : i \in 1 .. n
        OBVIOUS
      <3>3. QED
        BY <3>1, <3>2
    <2>2. Max(s) = k
      BY <2>1, MaxOfSubset
    <2>3. s \ {k} = 1 .. k - 1
      OBVIOUS
    <2> HIDE DEF s
    <2>4. iter[s] = Step(iter, s)
      BY <1>5, <2>1
    <2>5. iter[s] = E(iter[s \ {k}], k)
      BY <2>1, <2>2, <2>4
    <2>6. QED
      BY <2>3, <2>5 DEF s
  <1>7. iter[1 .. 0] = <<NoBytes>>
    <2>1. 1 .. 0 = {} /\ {} \in SUBSET (1 .. n)
      OBVIOUS
    <2>2. iter[{}] = Step(iter, {})
      BY <1>5, <2>1
    <2>3. QED
      BY <2>1, <2>2
  <1>8. \A k \in 0 .. n : iter[1 .. k] \in Segments
    <2> DEFINE T == {k \in 0 .. n : iter[1 .. k] \notin Segments}
    <2> SUFFICES ASSUME T # {}
                 PROVE  FALSE
      OBVIOUS
    <2>1. T \subseteq Nat
      OBVIOUS
    <2>2. PICK k \in T : \A j \in T : k <= j
      BY <2>1, Smallest
    <2>3. k \in 0 .. n /\ iter[1 .. k] \notin Segments
      BY <2>2
    <2>4. k # 0
      <3>1. <<NoBytes>> \in Segments
        BY EmptySegment
      <3>2. QED
        BY <1>7, <2>3, <3>1
    <2>5. k \in 1 .. n /\ k - 1 \in 0 .. n /\ k - 1 \notin T
      BY <2>2, <2>3, <2>4
    <2>6. iter[1 .. k - 1] \in Segments
      BY <2>5
    <2>7. QED
      BY <1>6, <1>0, <2>3, <2>5, <2>6, StoreJoins DEF E
  <1> DEFINE g == [k \in 0 .. n |-> iter[1 .. k]]
  <1>9. g \in [0 .. n -> Segments] /\ g[0] = <<NoBytes>> /\ g[n] = iter[1 .. n]
    BY <1>7, <1>8
  <1>10. \A i \in 1 .. n : g[i] = Store(g[i - 1], items[i])
    BY <1>6 DEF E
  <1> HIDE DEF g
  <1>11. FoldLeft(Store, <<NoBytes>>, items) = g[n]
    BY <1>1, <1>9, Zenon
  <1>12. QED
    BY <1>9, <1>10, <1>11, Zenon DEF StoreLoop

\* A new structure has the layout of what its store function writes.
LEMMA NewStructFits ==
    ASSUME StoreInv, NEW members \in Members
    PROVE  Fits(Struct(members).items, Struct(members).layout)
  <1> DEFINE layout == Struct(members).layout
             parts == [k \in DOMAIN members |-> Items(members[k])]
             items == FlattenSeq(parts)
  <1>1. Struct(members).items = items
    BY DEF Struct
  <1>2. PICK n \in Nat \ {0} :
            /\ DOMAIN members = 1 .. n
            /\ \A k \in 1 .. n : members[k].name \in Nat /\ members[k].type \in Primitive \cup Structs
    BY MembersOf
  <1>3. ASSUME NEW k \in 1 .. n PROVE Fits(Items(members[k]), TypeLayout(members[k].type))
    BY <1>2, MemberFits
  <1>4. PICK g \in [0 .. n -> Layouts] :
            /\ g[0] = <<0>>
            /\ \A i \in 1 .. n : g[i] = Extended(g[i - 1], members[i].type)
            /\ layout = g[n]
    <2>1. n \in Nat /\ DOMAIN members = 1 .. n
      BY <1>2
    <2>2. StaysLayout(members)
      BY <1>2, ExtendedJoins DEF StaysLayout
    <2>3. \E g \in [0 .. n -> Layouts] : LayoutLoop(g, members, n)
      BY <2>1, <2>2, LayoutSteps
    <2>4. QED
      BY <2>3, Zenon DEF LayoutLoop
  <1> HIDE DEF layout
  <1>5. /\ parts \in Seq(Seq(ItemTypes)) /\ Len(parts) = n /\ parts # <<>>
        /\ \A k \in 1 .. n : parts[k] = Items(members[k]) /\ parts[k] \in Seq(ItemTypes)
    <2>1. \A k \in 1 .. n : Items(members[k]) \in Seq(ItemTypes)
      BY <1>3 DEF Fits
    <2>2. parts = [k \in 1 .. n |-> Items(members[k])]
      BY <1>2
    <2>3. QED
      BY <2>1, <2>2
  <1> HIDE DEF parts
  <1>6. PICK f \in [1 .. n -> Seq(ItemTypes)] :
            /\ items = f[n]
            /\ f[1] = parts[1]
            /\ \A i \in 2 .. n : f[i] = f[i - 1] \o parts[i]
    <2>1. \E f \in [1 .. Len(parts) -> Seq(ItemTypes)] :
              /\ FlattenSeq(parts) = f[Len(parts)]
              /\ f[1] = parts[1]
              /\ \A i \in 2 .. Len(parts) : f[i] = f[i - 1] \o parts[i]
      <3>1. parts \in Seq(Seq(ItemTypes)) /\ parts # <<>>
        BY <1>5
      <3>2. QED
        BY <3>1, FlattenSteps, Zenon
    <2>2. QED
      BY <1>5, <2>1, Zenon
  <1> HIDE DEF items
  <1>7. ASSUME NEW i \in 1 .. n, NEW x, Fits(x, g[i - 1])
        PROVE  Fits(x \o parts[i], g[i])
    <2> DEFINE t == members[i].type
    <2>1. i - 1 \in 0 .. n /\ i \in 0 .. n /\ t \in Primitive \cup Structs
      BY <1>2
    <2>2. g[i - 1] \in Layouts /\ g[i] \in Layouts /\ g[i] = Extended(g[i - 1], t)
      BY <1>4, <2>1
    <2>3. IsJoin(g[i], g[i - 1], TypeLayout(t))
      BY <2>1, <2>2, ExtendedJoins
    <2>4. Fits(parts[i], TypeLayout(t))
      BY <1>3, <1>5
    <2> HIDE DEF t
    <2>5. QED
      BY <1>7, <2>2, <2>3, <2>4, FitsConcat
  <1>8. \A i \in 1 .. n : Fits(f[i], g[i])
    <2> DEFINE T == {i \in 1 .. n : ~ Fits(f[i], g[i])}
    <2> SUFFICES ASSUME T # {}
                 PROVE  FALSE
      OBVIOUS
    <2>1. T \subseteq Nat
      BY <1>2
    <2>2. PICK i \in T : \A j \in T : i <= j
      BY <2>1, Smallest
    <2>3. i \in 1 .. n /\ ~ Fits(f[i], g[i])
      BY <2>2
    <2> HIDE DEF T
    <2>4. CASE i = 1
      <3>1. Fits(<<>>, g[i - 1])
        <4>1. g[i - 1] = <<0>>
          BY <1>4, <2>4
        <4>2. QED
          BY <4>1, FitsNothing
      <3>2. Fits(<<>> \o parts[i], g[i])
        BY <1>7, <2>3, <3>1
      <3>3. <<>> \o parts[i] = parts[i]
        BY <1>5, <2>3, ConcatEmptySeq
      <3>4. QED
        BY <1>6, <2>3, <2>4, <3>2, <3>3
    <2>5. CASE i # 1
      <3>1. i \in 2 .. n /\ i - 1 \in 1 .. n /\ i - 1 \notin T
        BY <1>2, <2>2, <2>3, <2>5
      <3>2. Fits(f[i - 1], g[i - 1])
        BY <3>1 DEF T
      <3>3. Fits(f[i - 1] \o parts[i], g[i])
        BY <1>7, <2>3, <3>2
      <3>4. QED
        BY <1>6, <2>3, <3>1, <3>3
    <2>6. QED
      BY <2>4, <2>5
  <1>9. Fits(items, layout)
    BY <1>2, <1>4, <1>6, <1>8
  <1>10. QED
    BY <1>1, <1>9 DEF layout

\* Weights tell the bytes, if at most one group ends inside a byte.
LEMMA FitsMatch ==
    ASSUME NEW items, NEW layout, Fits(items, layout)
    PROVE  LET stored == FoldLeft(Store, <<NoBytes>>, items \o <<"close">>)
           IN  \A k \in DOMAIN layout :
                   stored[k].partial <= 1 => (layout[k] + 7) \div 8 = stored[k].bytes
  <1> DEFINE s == items \o <<"close">>
             n == Len(items)
  <1>1. items \in Seq(ItemTypes) /\ layout \in Layouts /\ "close" \in ItemTypes
    BY DEF Fits, ItemTypes
  <1>2. n \in Nat /\ <<"close">> \in Seq(ItemTypes) /\ Len(<<"close">>) = 1
    BY <1>1
  <1>3. s \in Seq(ItemTypes) /\ Len(s) = n + 1 /\ s[n + 1] = "close" /\ DOMAIN s = 1 .. n + 1
    <2> DEFINE c == <<"close">>
    <2>1. c \in Seq(ItemTypes) /\ Len(c) = 1 /\ c[1] = "close"
      BY <1>2
    <2> HIDE DEF c
    <2>2. /\ items \o c \in Seq(ItemTypes) /\ Len(items \o c) = n + 1
          /\ \A i \in 1 .. n + 1 : (items \o c)[i] = IF i <= n THEN items[i] ELSE c[i - n]
      <3>1. /\ items \o c \in Seq(ItemTypes) /\ Len(items \o c) = Len(items) + Len(c)
            /\ \A i \in 1 .. Len(items) + Len(c) :
                  (items \o c)[i] = IF i <= Len(items) THEN items[i] ELSE c[i - Len(items)]
        BY <1>1, <2>1, ConcatProperties
      <3> HIDE DEF n
      <3>2. Len(items) = n
        BY DEF n
      <3>3. QED
        BY <2>1, <3>1, <3>2, Zenon
    <2>3. n + 1 \in 1 .. n + 1 /\ ~ (n + 1 <= n) /\ (n + 1) - n = 1
      BY <1>2
    <2>4. (items \o c)[n + 1] = "close"
      BY <2>1, <2>2, <2>3
    <2>5. QED
      BY <2>2, <2>4, LenProperties DEF c
  <1>4. Fits(s, layout)
    <2>1. Fits(<<"close">>, <<0>>)
      <3>1. ItemLayout("close") = <<0>>
        BY DEF ItemLayout
      <3>2. Fits(<<"close">>, ItemLayout("close"))
        BY <1>1, FitsOne
      <3>3. QED
        BY <3>1, <3>2
    <2>2. IsJoin(layout, layout, <<0>>)
      BY <1>1, LayoutIsSeq, JoinNothing
    <2>3. QED
      BY <1>1, <2>1, <2>2, FitsConcat
  <1> DEFINE stored == FoldLeft(Store, <<NoBytes>>, s)
  <1> HIDE DEF s, n
  <1>5. PICK g \in [0 .. n + 1 -> Segments] : StoreLoop(g, s, n + 1)
    <2>1. n + 1 \in Nat
      BY <1>2
    <2>2. QED
      BY <1>3, <2>1, StoreSteps
  <1>6. /\ g[0] = <<NoBytes>> /\ stored = g[n + 1]
        /\ \A i \in 1 .. n + 1 : g[i] = Store(g[i - 1], s[i])
    BY <1>5, Zenon DEF StoreLoop
  <1> HIDE DEF stored
  <1>7. IsJoin(Weights(stored), <<0>>, layout)
    <2>1. Runs(g, s)
      BY <1>3, <1>6 DEF Runs
    <2>2. IsJoin(Weights(g[n + 1]), Weights(g[0]), layout)
      BY <1>3, <1>4, <2>1 DEF Fits
    <2>3. QED
      BY <1>6, <2>2, EmptySegment
  <1>8. stored \in Segments /\ \A k \in 1 .. Len(stored) : stored[k].bits = 0
    <2>1. n + 1 \in 1 .. n + 1 /\ n + 1 \in 0 .. n + 1 /\ n \in 0 .. n + 1 /\ (n + 1) - 1 = n
      BY <1>2
    <2>2. stored = Store(g[n], "close") /\ g[n] \in Segments /\ stored \in Segments
      BY <1>3, <1>6, <2>1
    <2>3. QED
      BY <1>1, <2>2, StoreJoins
  <1>9. /\ Len(layout) \in Nat \ {0} /\ DOMAIN layout = 1 .. Len(layout)
        /\ \A k \in 1 .. Len(layout) : layout[k] \in Nat
    <2>1. layout \in Seq(Nat) /\ layout # <<>>
      BY <1>1 DEF Layouts
    <2>2. QED
      BY <2>1
  <1>10. Len(stored) = Len(layout) /\ \A k \in 1 .. Len(layout) : Weights(stored)[k] = layout[k]
    <2> DEFINE w == Weights(stored)
               q == Len(layout)
    <2>1. /\ Len(w) = 1 + q - 1 /\ w[1] = 0 + layout[1]
          /\ \A k \in 2 .. q : w[1 + k - 1] = layout[k]
      <3> HIDE DEF w
      <3>1. Len(<<0>>) = 1 /\ <<0>>[1] = 0
        OBVIOUS
      <3>2. QED
        BY <1>7, <3>1 DEF IsJoin, w
    <2>2. Len(w) = Len(stored)
      BY <1>8, WeightsOf
    <2>3. q \in Nat \ {0} /\ layout[1] \in Nat
      BY <1>9
    <2> HIDE DEF w, q
    <2>4. Len(w) = q /\ w[1] = layout[1]
      BY <2>1, <2>3
    <2>5. ASSUME NEW k \in 1 .. q PROVE w[k] = layout[k]
      <3>1. CASE k = 1
        BY <2>4, <3>1
      <3>2. CASE k # 1
        <4>1. k \in 2 .. q /\ 1 + k - 1 = k
          BY <2>3, <3>2
        <4>2. QED
          BY <4>1, <2>1
      <3>3. QED
        BY <3>1, <3>2
    <2>6. QED
      BY <2>2, <2>4, <2>5 DEF w, q
  <1>11. ASSUME NEW k \in DOMAIN layout, stored[k].partial <= 1
         PROVE  (layout[k] + 7) \div 8 = stored[k].bytes
    <2>1. k \in 1 .. Len(layout) /\ k \in 1 .. Len(stored) /\ layout[k] \in Nat
      BY <1>9, <1>10
    <2>2. stored[k] \in Nibbles /\ Weight(stored[k]) = layout[k] /\ stored[k].bits = 0
      BY <1>8, <1>10, <2>1, WeightsOf
    <2> DEFINE b == stored[k].bytes
               p == stored[k].partial
               w == layout[k]
    <2>3. b \in Nat /\ p \in Nat /\ p <= 1 /\ w \in Nat /\ w = 8 * b + 0 - 4 * p
      BY <1>11, <2>1, <2>2 DEF Nibbles, Segment, Weight
    <2> HIDE DEF b, p, w
    <2>4. w + 7 = 8 * b + 7 \/ w + 7 = 8 * b + 3
      BY <2>3
    <2>5. (8 * b + 7) \div 8 = b /\ (8 * b + 3) \div 8 = b
      BY <2>3
    <2>6. QED
      BY <2>4, <2>5 DEF b, w
  <1>12. QED
    BY <1>11 DEF stored, s

LEMMA InitStore ==
    ASSUME Init
    PROVE  StoreInv
  <1>1. Structs = {}
    BY DEF Init, NothingDefined, Structs
  <1>2. QED
    BY <1>1, FS_EmptySet DEF StoreInv

LEMMA NextStore ==
    ASSUME StoreInv, [Next]_vars
    PROVE  StoreInv'
  <1>1. ASSUME UNCHANGED types
        PROVE  StoreInv'
    BY <1>1 DEF StoreInv, Structs
  <1>2. ASSUME NEW members \in Members, struct(members)
        PROVE  StoreInv'
    <2> DEFINE c == Cardinality(Structs) + 1
               name == StructNames[c]
    <2>1. types' = Entered(types, {name}, Struct(members)) /\ Cardinality(Structs) < Len(StructNames)
      BY <1>2 DEF struct
    <2>2. PICK new : new = Struct(members)
      OBVIOUS
    <2>3. Fits(new.items, new.layout)
      BY <2>2, NewStructFits
    <2>4. \A t \in Structs' : IF t = name THEN types'[t] = new
                              ELSE t \in Structs /\ types'[t] = types[t]
      BY <2>1, <2>2 DEF Entered, Structs
    <2>5. name \notin Primitive
      <3>1. Cardinality(Structs) \in Nat
        BY FS_CardinalityType DEF StoreInv
      <3>2. StructNames \in Seq(STRING)
        BY DefinitionAssumption
      <3>3. c \in DOMAIN StructNames
        BY <2>1, <3>1, <3>2
      <3>4. QED
        BY <3>3, NamesAssumption
    <2> HIDE DEF name
    <2>a. IsFiniteSet(Structs')
      <3>1. Structs' = Structs \cup {name}
        BY <2>1 DEF Entered, Structs
      <3>2. QED
        BY <3>1, FS_AddElement DEF StoreInv
    <2>6. Structs' \cap Primitive = {}
      BY <2>4, <2>5 DEF StoreInv
    <2>7. \A t \in Structs' : Fits(types'[t].items, types'[t].layout)
      BY <2>3, <2>4 DEF StoreInv
    <2>8. QED
      BY <2>6, <2>7, <2>a DEF StoreInv
  <1>3. CASE Import
    <2>1. ASSUME NEW id \in Ids, NEW call \in Calls, rpc(id, call)
          PROVE  StoreInv'
      BY <1>1, <2>1 DEF rpc
    <2>2. ASSUME enum
          PROVE  StoreInv'
      BY <1>1, <2>2 DEF enum
    <2>3. QED
      BY <1>2, <1>3, <2>1, <2>2 DEF Import, Define
  <1>4. ASSUME NEW g \in CodeGenerators, NEW endpoint \in Endpoint, NEW location \in Settings,
               generate(g, endpoint, location)
        PROVE  UNCHANGED types
    BY <1>4 DEF generate, definitions
  <1>5. enter => UNCHANGED types
    BY DEF enter, definitions
  <1>6. Run => UNCHANGED types
    BY DEF Run, explicit_run, exit, run, answer, answer_none, write, write_raises, written,
           definitions
  <1>7. UNCHANGED vars => UNCHANGED types
    BY DEF vars, definitions
  <1>8. QED
    BY <1>1, <1>3, <1>4, <1>5, <1>6, <1>7 DEF Next

\* For structures of any number of members, nested to any depth: the places that
\* struct() computes, and <struct>_alloc_init hands to the allocator, are where
\* the generated store function puts the lists, unless two groups of BitU
\* members between two lists end inside a byte.
THEOREM LayoutIsStored ==
    Spec => []LayoutMatchesStore
  <1>1. Init => StoreInv
    BY InitStore
  <1>2. StoreInv /\ [Next]_vars => StoreInv'
    BY NextStore
  <1>3. StoreInv => LayoutMatchesStore
    <2> SUFFICES ASSUME StoreInv, NEW t \in Structs, NEW k \in DOMAIN types[t].layout,
                        Stored(t)[k].partial <= 1
                 PROVE  (types[t].layout[k] + 7) \div 8 = Stored(t)[k].bytes
      BY DEF LayoutMatchesStore
    <2>1. Fits(types[t].items, types[t].layout)
      BY DEF StoreInv
    <2>2. QED
      BY <2>1, FitsMatch DEF Stored
  <1>4. QED
    BY <1>1, <1>2, <1>3, PTL DEF Spec
=============================================================================
