------------------------------- MODULE Probe -------------------------------
(***************************************************************************)
(* What run_project judges with: the field lane it binds, the chain of     *)
(* physics embeds over the Bekker row, the energy claim, the failure modes *)
(* and the closed loop (robot_project_run_v1.py and the *_embed_v1.py      *)
(* modules).  RunPipeline has the files and the latch of the same run.     *)
(*                                                                         *)
(* Every embed measures a metric for its own condition and one for the     *)
(* peer and takes its share of a slice of the budget.  A metric is a small *)
(* number; a slice is divisible by every sum of two of them, so that a     *)
(* share is whole.  One operator stands for each embed module: evaluate_*, *)
(* what attach_* writes into the row, and the bill and the verdict that    *)
(* apply_* and fold_* copy into the claim and the closed loop.             *)
(***************************************************************************)
EXTENDS Naturals, Integers, FiniteSets, FiniteSetsExt

CONSTANTS Lanes,     \* field lanes: worlds with their own soils and gravity
          Atlases,   \* what may be measured: lane -> World
          Slice,     \* one embed's budget, divisible by every sum of metrics
          Tax,       \* the kinetic tax of a command
          MaxRuns,   \* bound: probes started in a behaviour
          Unset      \* no lane, no run, no receipt

Conditions == {"safe", "hostile"}
Peer(c) == IF c = "safe" THEN "hostile" ELSE "safe"
Metrics == {"bekker", "joint", "env", "dose", "jerk", "dust", "sigma", "orbit", "hop",
            "kepler", "cold", "sinter", "drag", "sound", "bearing", "albedo", "ingress",
            "shear", "rate", "conductivity"}
Findings == {"blocked", "sinks", "unstable", "rut", "lofts", "severe", "open_seal",
             "outside", "earth_refuses", "earth_risks", "weak_pull"}
World == [metric : [Metrics -> [Conditions -> Nat]], found : [Conditions -> SUBSET Findings]]

ProbeAssumption ==
    /\ Atlases \subseteq [Lanes -> World]
    /\ Slice \in Nat /\ Tax \in Nat /\ MaxRuns \in Nat
    /\ Unset \notin Lanes
    /\ \A a \in Atlases, lane \in Lanes, m \in Metrics :
          LET total == a[lane].metric[m]["safe"] + a[lane].metric[m]["hostile"]
          IN total # 0 => \E unit \in 0..Slice : Slice = unit * total

VARIABLES atlas,    \* what the lanes measure like
          session,  \* the lane of the desk session
          bound,    \* the lane bound to the body of the project
          run,      \* the probe under way
          arm,      \* is the body a manipulator?
          docs,     \* condition -> the last receipt filed
          lies,     \* the lies counted in APOPTOSIS_v1.json
          probes    \* probes started so far

vars == <<atlas, arm, session, bound, run, docs, lies, probes>>

-----------------------------------------------------------------------------
(* dual_share_spent_j: the part of the slice that falls to condition c.    *)
Share(pair, c) ==
    LET total == pair.safe + pair.hostile
    IN IF total = 0 THEN 0 ELSE (Slice * pair[c]) \div total

(* The Bekker work pair is read with `or`: a peer of zero becomes oneself. *)
Worked(pair, c) == [pair EXCEPT ![Peer(c)] = IF @ = 0 THEN pair[c] ELSE @]

(* The row an embed is attached to: the flags the planner reads, the       *)
(* blocks whose verdict was bad, and each block's bill.                    *)
BekkerRow(w, c) ==
    [feasible |-> "blocked" \notin w.found[c],
     risk     |-> w.found[c] \intersect {"blocked", "sinks"} # {},
     bad      |-> {}, refused |-> {},
     bill     |-> [work |-> Share(Worked(w.metric["bekker"], c), c)]]

Flag(row, refuses, risks) ==
    [row EXCEPT !.feasible = @ /\ ~refuses, !.risk = @ \/ refuses \/ risks]

Billed(row, block, joules, ok) ==
    [row EXCEPT !.bill = [b \in DOMAIN @ \union {block} |->
                             IF b = block THEN joules ELSE @[b]],
                !.bad = IF ok THEN @ ELSE @ \union {block}]

Refused(row, block, refuses) ==
    [row EXCEPT !.refused = IF refuses THEN @ \union {block} ELSE @]

(* ok is "spent below half of the slice": in a tie neither side is.        *)
Priced(w, c, row, block, metric) ==
    LET joules == Share(w.metric[metric], c)
    IN Billed(row, block, joules, 2 * joules < Slice)

-----------------------------------------------------------------------------
(* The embeds, in the order run_project attaches them.                     *)
EarthLane(w, c, row) ==
    LET refuses == "earth_refuses" \in w.found[c]
    IN Refused(Flag(row, refuses, "earth_risks" \in w.found[c]), "earth_lane", refuses)

\* The joint's share and the Bekker work scaled by the drive's losses.
DriveChain(w, c, row) ==
    LET joint == w.metric["joint"]
    IN Billed(row, "drive_chain", joint[c] * row.bill.work + Share(joint, c), TRUE)

EnvBudget(w, c, row) == Billed(row, "env_budget", Share(w.metric["env"], c), TRUE)

StormEnv(w, c, row) == Priced(w, c, row, "storm_env", "dose")

\* Mutant of SlopeRut: the verdict replaces the flag of the rows before it.
SlopeRutAlone(w, c, row) ==
    LET refuses == w.found[c] \intersect {"unstable", "rut"} # {}
    IN Refused([row EXCEPT !.feasible = ~refuses, !.risk = refuses], "slope_rut", refuses)

SlopeRut(w, c, row) ==
    LET refuses == w.found[c] \intersect {"unstable", "rut"} # {}
    IN Refused(Flag(row, refuses, refuses), "slope_rut", refuses)

TraverseMechanical(w, c, row) == Priced(w, c, row, "traverse_mechanical", "jerk")

\* Two thresholds on catalog values; only the closed loop shows them.
FatigueOptics(w, c, row) == row

\* Dust is a risk when it lofts, and always on the hostile side.
DustEnvelope(w, c, row) ==
    Flag(Billed(row, "dust_envelope", Share(w.metric["dust"], c), TRUE),
         FALSE, "lofts" \in w.found[c] \/ c = "hostile")

MaterialsThermal(w, c, row) == Priced(w, c, row, "materials_thermal", "sigma")

OrbitResidual(w, c, row) == Billed(row, "orbit_residual", Share(w.metric["orbit"], c), TRUE)

BallisticsKepler(w, c, row) ==
    Billed(row, "ballistics_kepler",
           Share(w.metric["hop"], c) + Share(w.metric["kepler"], c), TRUE)

\* The hostile side stands in the cold trap.
ThermalWorld(w, c, row) ==
    Flag(Billed(row, "thermal_world", Share(w.metric["cold"], c), TRUE), FALSE, c = "hostile")

IsruSinter(w, c, row) == Priced(w, c, row, "isru_sinter", "sinter")

AtmDrag(w, c, row) == Billed(row, "atm_drag", Share(w.metric["drag"], c), TRUE)

Acoustic(w, c, row) == Priced(w, c, row, "acoustic", "sound")

LiQc(w, c, row) == Priced(w, c, row, "li_qc", "bearing")

AlbedoDose(w, c, row) == Priced(w, c, row, "albedo_dose", "albedo")

DustIngress(w, c, row) ==
    LET joules == Share(w.metric["ingress"], c)
        ok == 2 * joules < Slice /\ "severe" \notin w.found[c]
    IN Flag(Billed(row, "dust_ingress", joules, ok), FALSE, ~ok)

Janosi(w, c, row) == Priced(w, c, row, "janosi", "shear")

RadiationRate(w, c, row) == Priced(w, c, row, "radiation_rate", "rate")

EnvelopeRefuse(w, c, row) ==
    LET refuses == "outside" \in w.found[c]
    IN Refused(Flag(row, refuses, refuses), "envelope_refuse", refuses)

RegolithThermal(w, c, row) == Priced(w, c, row, "regolith_thermal", "conductivity")

Chain(w, c) ==
    LET r1 == EarthLane(w, c, BekkerRow(w, c))
        r2 == StormEnv(w, c, EnvBudget(w, c, DriveChain(w, c, r1)))
        r3 == FatigueOptics(w, c, TraverseMechanical(w, c, SlopeRut(w, c, r2)))
        r4 == OrbitResidual(w, c, MaterialsThermal(w, c, DustEnvelope(w, c, r3)))
        r5 == IsruSinter(w, c, ThermalWorld(w, c, BallisticsKepler(w, c, r4)))
        r6 == LiQc(w, c, Acoustic(w, c, AtmDrag(w, c, r5)))
        r7 == Janosi(w, c, DustIngress(w, c, AlbedoDose(w, c, r6)))
    IN RegolithThermal(w, c, EnvelopeRefuse(w, c, RadiationRate(w, c, r7)))

-----------------------------------------------------------------------------
(* build_energy_claim_from_actuation: the bills stack into the spent line; *)
(* the ledger closes the balance with a residual that may be negative.     *)
Claim(row) ==
    LET spent == MapThenSumSet(LAMBDA b : row.bill[b], DOMAIN row.bill)
    IN [spent |-> spent, residual |-> Slice - spent - Tax]

(* The two policies' proposals on the attached row.                        *)
Command(row) == IF ~row.feasible \/ row.risk THEN "recover" ELSE "traverse"
Stub == "traverse"

(* evaluate_failure_modes, on the row after the proposals were taken.  A   *)
(* weak pull is a drawbar below a quarter of the safe side's, which the    *)
(* safe side's own never is.                                               *)
Modes(w, c, row) ==
    {m \in {"traverse_blocked", "sinkage_risk", "storm_dose", "traverse_jerk",
            "dust_ingress", "seal_open", "refused", "drawbar_deficit"} :
        \/ m = "traverse_blocked" /\ ~row.feasible
        \/ m = "sinkage_risk" /\ row.risk
        \/ m = "storm_dose" /\ "storm_env" \in row.bad
        \/ m = "traverse_jerk" /\ "traverse_mechanical" \in row.bad
        \/ m = "dust_ingress" /\ "dust_ingress" \in row.bad
        \/ m = "seal_open" /\ "open_seal" \in w.found[c]
        \/ m = "refused" /\ row.refused # {}
        \/ m = "drawbar_deficit" /\ c = "hostile" /\ "weak_pull" \in w.found[c]}

Passes(w, c, row) == Modes(w, c, row) = {}
Allowed(w, c, row) == Command(row) = "traverse" /\ Passes(w, c, row)
Lie(w, c, row) == IF (Command(row) = "traverse") = Passes(w, c, row) THEN 0 ELSE 1

(* build_closed_loop_v1: hostile has to diverge, safe to agree.            *)
LoopOk(c, row) == (c = "hostile") = (Command(row) # Stub)

Receipt(c, row, lane, w) ==
    [cond |-> c, row |-> row, lane |-> lane, body |-> bound, claim |-> Claim(row),
     modes |-> Modes(w, c, row), allowed |-> Allowed(w, c, row), lie |-> Lie(w, c, row),
     loop |-> LoopOk(c, row)]

-----------------------------------------------------------------------------
Init ==
    /\ atlas \in Atlases /\ arm \in BOOLEAN
    /\ session = Unset /\ bound = Unset
    /\ run = Unset
    /\ docs = [c \in Conditions |-> Unset]
    /\ lies = 0 /\ probes = 0

(* The desk moves on to another lane; the project's body is bound to one.  *)
SetSession(lane) ==
    /\ session' = lane
    /\ UNCHANGED <<atlas, arm, bound, run, docs, lies, probes>>

BindField(lane) ==
    /\ bound' = lane
    /\ UNCHANGED <<atlas, arm, session, run, docs, lies, probes>>

\* Mutant of LaneOf: the lane of the open session comes first.
LaneOfSession == IF session # Unset THEN session ELSE bound

(* The body's lane wins over the session's; a project and a session without*)
(* one get the default soils, which are a lane too.                        *)
LaneOf == IF bound # Unset THEN bound ELSE session

Start(c) ==
    /\ run = Unset /\ probes < MaxRuns
    /\ \E lane \in Lanes :
         /\ LaneOf # Unset => lane = LaneOf
         /\ LaneOf = Unset => lane = CHOOSE l \in Lanes : TRUE
         /\ run' = [step |-> "judge",
                    doc |-> Receipt(c, Chain(atlas[lane], c), lane, atlas[lane])]
    /\ probes' = probes + 1
    /\ UNCHANGED <<atlas, arm, session, bound, docs, lies>>

(* build_physics_gate_for_run stores the lie score before a receipt exists.*)
Judge ==
    /\ run # Unset /\ run.step = "judge"
    /\ lies' = lies + run.doc.lie
    /\ run' = [run EXCEPT !.step = "file"]
    /\ UNCHANGED <<atlas, arm, session, bound, docs, probes>>

(* The receipt; for a manipulator the grasp step is imported first, from a *)
(* module that is not in the repository.                                   *)
File ==
    /\ run # Unset /\ run.step = "file" /\ ~arm
    /\ docs' = [docs EXCEPT ![run.doc.cond] = run.doc]
    /\ run' = Unset
    /\ UNCHANGED <<atlas, arm, session, bound, lies, probes>>

GraspRaises ==
    /\ run # Unset /\ run.step = "file" /\ arm
    /\ run' = Unset
    /\ UNCHANGED <<atlas, arm, session, bound, docs, lies, probes>>

Next ==
    \/ \E lane \in Lanes : SetSession(lane) \/ BindField(lane)
    \/ \E c \in Conditions : Start(c)
    \/ Judge \/ File \/ GraspRaises

Spec == Init /\ [][Next]_vars

-----------------------------------------------------------------------------
Receipts == {docs[c] : c \in Conditions} \ {Unset}

TypeOK ==
    /\ atlas \in Atlases /\ arm \in BOOLEAN
    /\ {session, bound} \subseteq Lanes \union {Unset}
    /\ run # Unset => run.step \in {"judge", "file"} /\ run.doc.cond \in Conditions
    /\ \A c \in Conditions : docs[c] # Unset => docs[c].cond = c /\ docs[c].lane \in Lanes
    /\ lies \in 0..MaxRuns /\ probes \in 0..MaxRuns

(* No later embed takes back what an earlier one refused: a receipt with a *)
(* refusing block is infeasible and at risk, and its planner recovered.    *)
RefusalSticks ==
    \A d \in Receipts :
        d.row.refused # {} \/ "blocked" \in atlas[d.lane].found[d.cond] =>
            ~d.row.feasible /\ d.row.risk /\ ~d.allowed

(* dual_spent_normalize_v1: "Identity: spent_s + spent_h = budget".  Two   *)
(* receipts taken under the same lane of the body share out each slice,    *)
(* whatever lane the desk session had meanwhile ("live earth session must  *)
(* not poison lunar_scout"), and no block is fine on both sides.           *)
SidesPartition ==
    LET s == docs["safe"]  h == docs["hostile"] IN
    s # Unset /\ h # Unset /\ s.body = h.body /\ s.body # Unset =>
        \A b \in DOMAIN s.row.bill \ {"work", "drive_chain"} :
            LET sum == s.row.bill[b] + h.row.bill[b]
            IN /\ sum \in (IF b = "ballistics_kepler" THEN {0, Slice, 2 * Slice} ELSE {0, Slice})
               /\ (b \in {"storm_env", "traverse_mechanical"} /\ sum # 0) =>
                    b \in s.row.bad \union h.row.bad

(* A run that lies to the gate is a safe run, with a storm dose or a jerk  *)
(* of at least half the pair's or with an open seal: every other finding   *)
(* is one the planner saw.  A hostile run never lies and never passes.     *)
LieSource ==
    \A d \in Receipts :
        /\ d.lie = 1 => d.cond = "safe"
                        /\ d.modes \subseteq {"storm_dose", "traverse_jerk", "seal_open"}
        /\ d.cond = "hostile" => ~d.allowed /\ d.loop

(* The judgement of a run follows from what was measured.                  *)
JudgedAsMeasured == RefusalSticks /\ LieSource
=============================================================================
