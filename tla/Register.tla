------------------------------ MODULE Register ------------------------------
(***************************************************************************)
(* What a reader of one of the desk's JSON files may rely on: the file     *)
(* holds a complete document, the one before the last write or the one the *)
(* write brought, and nothing in between.                                  *)
(***************************************************************************)
CONSTANT Docs
VARIABLE value

Init == value = "old"
Write == value' \in Docs
Spec == Init /\ [][Write]_value
=============================================================================
