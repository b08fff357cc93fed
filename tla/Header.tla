------------------------------- MODULE Header -------------------------------
(***************************************************************************)
(* The four bytes of a message header, as the three languages write and    *)
(* read them.  A header has the fields len, txn, resp and rpc_id.          *)
(***************************************************************************)
EXTENDS Naturals, Sequences

Byte == 0 .. 255

\* Failure of a reader or a writer: an exception, COMPOST_EFLAGS, an assertion.
Failed == <<>>

\* RPC_ID_HI_MASK, FLAGS_MASK and RESP_MASK, applied to the third byte.
IdHi(b) == b % 16
Flags(b) == (b \div 16) * 16
Resp(b) == (b \div 16) % 2 = 1
RespMask == 16

\* Header.pack: the identifier is cut to twelve bits; the struct module
\* refuses a length and a number that do not fit into a byte.
py_pack(h) ==
    LET rpc_id_and_flags == (h.rpc_id % 4096) + (IF h.resp THEN 4096 ELSE 0)
    IN  IF h.len \in Byte /\ h.txn \in Byte
        THEN <<h.len, h.txn, rpc_id_and_flags \div 256, rpc_id_and_flags % 256>>
        ELSE Failed

\* Header.unpack ignores the reserved bits.
py_unpack(b) ==
    [len |-> b[1], txn |-> b[2], resp |-> Resp(b[3]), rpc_id |-> IdHi(b[3]) * 256 + b[4]]

\* compost_header_store asserts that the identifier has twelve bits.
compost_header_store(h) ==
    IF h.rpc_id <= 4095
    THEN <<h.len % 256, h.txn % 256,
           ((h.rpc_id \div 256) % 256) + (IF h.resp THEN RespMask ELSE 0), h.rpc_id % 256>>
    ELSE Failed

\* compost_header_load refuses a message with a reserved bit set.
compost_header_load(b) ==
    IF Flags(b[3]) \notin {0, RespMask}
    THEN Failed
    ELSE [len |-> b[1], txn |-> b[2], resp |-> Flags(b[3]) = RespMask,
          rpc_id |-> IdHi(b[3]) * 256 + b[4]]

\* MessageHeader.Write cuts every field to its width.
cs_Write(h) ==
    <<h.len % 256, h.txn % 256,
      ((h.rpc_id \div 256) % 16) + (IF h.resp THEN RespMask ELSE 0), h.rpc_id % 256>>

cs_Parse(b) ==
    [len |-> b[1], txn |-> b[2], resp |-> Resp(b[3]), rpc_id |-> IdHi(b[3]) * 256 + b[4]]

\* What a header becomes on its way from each language to each other.
Written(h) == {py_pack(h), compost_header_store(h), cs_Write(h)}
Read(b) == {py_unpack(b), compost_header_load(b), cs_Parse(b)}

\* All writers agree and all readers get the header back.
Survives(h) ==
    \A b \in Written(h) : b # Failed /\ Read(b) = {h}
=============================================================================
