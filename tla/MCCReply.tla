------------------------------ MODULE MCCReply ------------------------------
(***************************************************************************)
(* Layouts for TLC: a list after a fixed member, and two lists with fixed  *)
(* members before, between and after them.                                 *)
(***************************************************************************)
EXTENDS CReply

MCLayouts == {<<3, 0>>, <<2, 2, 0>>, <<3, 3, 1>>}

\* SolderingProfile of the user guide.
SolderingProfile == {<<4, 0>>}
=============================================================================
