----------------------------- MODULE MCConfigDB -----------------------------
(* Instances of ConfigDB for TLC. *)
EXTENDS ConfigDB

MCVersionLists == {<<"v1">>, <<"v2", "v1">>}
=============================================================================
