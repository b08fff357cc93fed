---------------------------- MODULE MCGenerator -----------------------------
(***************************************************************************)
(* Identifiers for TLC: the edges of the range that _validate_rpc_id       *)
(* accepts, one beyond each, and one that does not fit into the header.    *)
(***************************************************************************)
EXTENDS Generator

MCIds == {-1, 0, 3840, 3841, 4097}
Symmetry == Permutations(Locations)
MCStructNames == <<"Inner", "Outer">>
=============================================================================
