------------------------------ MODULE FuseLatch ------------------------------
(***************************************************************************)
(* What the silicon fuse promises, with no files and no processes: a latch *)
(* that goes from intact to blown and never back, and a body digest that   *)
(* is bound once.  A latch may also die (a file nobody can read any more,  *)
(* or one that was edited by hand): a dead latch lets no current through   *)
(* and is never healed.  This is the contract of ha_silicon_fuse.h and of  *)
(* the hardware stub ha_silicon_fuse_otp.sv; module SiliconFuse shows what *)
(* the C code does to keep it.                                             *)
(***************************************************************************)

CONSTANTS Bodies,   \* the body digests a project may carry
          Unbound   \* the digest of a fuse no body is bound to

VARIABLES latch,    \* "intact", "blown" or "dead"
          body      \* the digest the fuse is bound to

vars == <<latch, body>>

Init == latch = "intact" /\ body = Unbound

Blow == /\ latch # "dead"
        /\ latch' = "blown"
        /\ UNCHANGED body

\* The first bind wins: a bound fuse has no other way to get a new digest
\* than NewEpoch, which a blown fuse refuses.
Bind(d) == /\ latch # "dead"
           /\ body = Unbound
           /\ body' = d
           /\ UNCHANGED latch

\* The desk attaches a different body: the fuse file is thrown away.
NewEpoch == /\ latch = "intact"
            /\ body' = Unbound
            /\ UNCHANGED latch

Die == latch' = "dead" /\ body' = Unbound

Next == Blow \/ (\E d \in Bodies : Bind(d)) \/ NewEpoch \/ Die

Spec == Init /\ [][Next]_vars
=============================================================================
