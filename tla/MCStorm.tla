------------------------------- MODULE MCStorm ------------------------------
(* Storm with two flares and two eclipses, one of which puts the sun out.    *)
EXTENDS Storm

SunEvent(k, s, d) == [kind |-> k, size |-> s, span |-> d, inBand |-> TRUE]
SunCatalog == {SunEvent("flare", 2, 3), SunEvent("flare", 3, 4),
               SunEvent("eclipse", 1, 3), SunEvent("eclipse", 2, 2)}
=============================================================================
