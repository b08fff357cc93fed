------------------------------ MODULE MCSerdes ------------------------------
(***************************************************************************)
(* Payloads for TLC: every sequence of up to three members of a few sizes, *)
(* also as one structure and as two structures one after the other, and    *)
(* payloads that are longer than the buffers and the length field allow.   *)
(***************************************************************************)
EXTENDS Serdes

Members == {bits(1), bits(4), bits(8), bits(13), num(1), num(2), list(1)}
Short == UNION {[1 .. n -> Members] : n \in 1 .. 3}
Tiny == UNION {[1 .. n -> {bits(4), bits(8), num(1)}] : n \in 1 .. 2}

MCPayloads ==
    Short \cup {<<open>> \o p \o <<close>> \o q : p \in Tiny, q \in Tiny}
          \cup {p \o <<open>> \o q \o <<close>> : p \in Tiny, q \in Tiny}
          \cup {<<bits(32)>>, <<bits(4), num(1), bits(4), num(2)>>}
          \cup {<<list(7)>>, <<list(7), num(1)>>, <<list(7), bits(4)>>}
=============================================================================
