---------------------------- MODULE MCDeskServer -----------------------------
(* DeskServer with two packs. *)
EXTENDS DeskServer

CONSTANTS t1, t2, packA, packB

OneThread == {t1}
TwoThreads == {t1, t2}
TwoPacks == {packA, packB}
=============================================================================
