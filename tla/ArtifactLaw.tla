----------------------------- MODULE ArtifactLaw -----------------------------
(***************************************************************************)
(* The pure judgements on the receipts a project keeps: the H6 physics     *)
(* gate of one run (ha_physics_gate), the K0 contract of the Physics OS    *)
(* kernel on a Safe/Hostile pair (physics_os_kernel_v1.py) and the         *)
(* artifact existence law on the whole project (ha_artifact_law).  What a  *)
(* run met is one of three worlds:                                         *)
(*   "clear"  nothing speaks against the traverse;                         *)
(*   "soil"   sinkage risk or no feasible traverse: the planner recovers;  *)
(*   "mode"   a failure mode the planner does not look at (storm, jerk,    *)
(*            dust, slope...) is fatal: the planner traverses all the same *)
(***************************************************************************)
EXTENDS Integers, Sequences

CONSTANTS Threshold,   \* the lie score that latches apoptosis (3 in the code)
          ScanLimit,   \* run files the kernel looks at for a peer (12 in the code)
          Joules       \* the energies a run may spend

ASSUME LawAssumption == /\ Threshold \in Nat \ {0}
                        /\ ScanLimit \in Nat \ {0}
                        /\ Joules \subseteq Int /\ Joules # {}

Conditions == {"safe", "hostile"}
Worlds == {"clear", "soil", "mode"}

-----------------------------------------------------------------------------
(* The gate of one run.  The stub leg always proposes to traverse.         *)

Planner(w) == IF w = "soil" THEN "recover" ELSE "traverse"

Diverged(w) == Planner(w) # "traverse"

Digit(w) == IF Planner(w) = "traverse" THEN "ALLOW" ELSE "DENY"

\* Failure modes include the two soil findings: only a clear world passes.
PhysicsPass(w) == w = "clear"

CurrentAllowed(w) == Digit(w) = "ALLOW" /\ PhysicsPass(w)

GovernanceCoherent(w) == (Digit(w) = "ALLOW") <=> PhysicsPass(w)

\* Mutant of LieIncrement: a coherent gate takes a lie back.
LieForgiven(w) == IF GovernanceCoherent(w) THEN -1 ELSE 1

LieIncrement(w) == IF GovernanceCoherent(w) THEN 0 ELSE 1

\* Mutant of Tripped: the score has to exceed the threshold.
TrippedLate(score) == score > Threshold

Tripped(score) == score >= Threshold

-----------------------------------------------------------------------------
(* A run receipt: when it was stamped, what it met and spent, the latch    *)
(* bit of its gate, the fuse it saw after the gate, whether a leg moved,   *)
(* the current it allows once sealed, and the verdict on K0.               *)

Verdicts == {"pending", "pass", "fail"}

Receipt == [cond : Conditions, ts : Nat, world : Worlds, spent : Joules, bit : BOOLEAN,
            blown : BOOLEAN, moved : BOOLEAN, allowed : BOOLEAN, k0 : Verdicts]

\* K0, "Dual burns": the hostile run spends more, or only the safe gate passes.
DualBurns(safeSpent, hostileSpent, safePass, hostilePass) ==
  \/ hostileSpent > safeSpent
  \/ safePass /\ ~hostilePass

\* The newest files of the runs directory the kernel reads.
Scanned(docs) == {i \in DOMAIN docs : i > Len(docs) - ScanLimit}

Peers(docs, c) == {i \in Scanned(docs) : docs[i].cond # c}

Newest(S) == CHOOSE i \in S : \A j \in S : j <= i

\* Mutant of PairBurns: the roles of the two runs are not told apart.
PairBurnsBlind(c, w, spent, peerPass, peerSpent) ==
  DualBurns(spent, peerSpent, PhysicsPass(w), peerPass)

\* K0 for a run of condition c against its peer.
PairBurns(c, w, spent, peerPass, peerSpent) ==
  IF c = "safe" THEN DualBurns(spent, peerSpent, PhysicsPass(w), peerPass)
                ELSE DualBurns(peerSpent, spent, peerPass, PhysicsPass(w))

\* The verdict sealed on a run: against its newest scanned peer, else against
\* the summary in project.json (which holds no energy and no gate), else none.
SealK0(docs, last, c, w, spent) ==
  LET burns(pass, joules) == IF PairBurns(c, w, spent, pass, joules) THEN "pass" ELSE "fail"
      peer == docs[Newest(Peers(docs, c))]
  IN  IF Peers(docs, c) # {} THEN burns(PhysicsPass(peer.world), peer.spent)
      ELSE IF last \in Conditions \ {c} THEN burns(FALSE, 0)
      ELSE "pending"

-----------------------------------------------------------------------------
(* The artifact existence law, as ha-artifact-law decides it.              *)

Latest(docs, d) == \A i \in DOMAIN docs : docs[i].cond = d.cond => docs[i].ts <= d.ts

\* validate_physics_gate_v1 recomputes the current from digit and physics.
GateValid(d) == d.allowed = CurrentAllowed(d.world)

RunLawful(d) == /\ GateValid(d)
                /\ ~d.bit
                /\ GovernanceCoherent(d.world)
                /\ ~d.blown
                /\ d.cond = "hostile" => Diverged(d.world)

\* Mutant of FuseLawful: the law trusts the snapshots on the receipts.
FuseUnread(fuse) == fuse \in {"intact", "blown", "dead"}

\* check_project_fuse reads the live file, and refuses one it cannot read.
FuseLawful(fuse) == fuse = "intact"

\* Mutant of Joined: only the hostile side of the dual is looked at.
JoinedHostileOnly(s, h) == s.cond = "safe" /\ Diverged(h.world)

\* --world-join: the dual closes the loop on both soils.
Joined(s, h) == ~Diverged(s.world) /\ Diverged(h.world)

LawHolds(docs, fuse, join) ==
  /\ FuseLawful(fuse)
  /\ \E i, j \in DOMAIN docs :
       LET s == docs[i]
           h == docs[j]
       IN  /\ s.cond = "safe" /\ h.cond = "hostile"
           /\ Latest(docs, s) /\ Latest(docs, h)
           /\ RunLawful(s) /\ RunLawful(h)
           /\ join => Joined(s, h)
=============================================================================
