------------------------------ MODULE MCParts ------------------------------
(***************************************************************************)
(* TLC instance of Parts: the workloads, worlds, fleets, events and cave   *)
(* its configuration takes.                                                *)
(***************************************************************************)
EXTENDS Parts

(* A stage that passes, one whose ladder file is needed, one without       *)
(* input, one that divides by zero and one the guard is missing for.       *)
LabWorkload == [given |-> TRUE, n |-> 1, f |-> 1, vgs |-> 1, cal |-> "hci", guard |-> TRUE,
                drift |-> "low"]
LabWorkloads == {LabWorkload,
                 [LabWorkload EXCEPT !.cal = "v2", !.n = 0, !.drift = "high"],
                 [LabWorkload EXCEPT !.given = FALSE],
                 [LabWorkload EXCEPT !.f = 0]}

(* Worlds: one where hostile is worse in every metric, and those that      *)
(* differ from it in a metric or a finding.                                *)
FieldMetrics == {"bekker", "joint", "env", "dose", "jerk", "dust", "sigma", "orbit", "hop",
                 "kepler", "cold", "sinter", "drag", "sound", "bearing", "albedo", "ingress",
                 "shear", "rate", "conductivity"}
FieldFindings == {"blocked", "sinks", "unstable", "rut", "lofts", "severe", "open_seal",
                  "outside", "earth_refuses", "earth_risks", "weak_pull"}
FieldSides == {"safe", "hostile"}
Reads(s, h) == [c \in FieldSides |-> IF c = "safe" THEN s ELSE h]
PlainWorld == [metric |-> [m \in FieldMetrics |-> Reads(1, 2)],
               found |-> [c \in FieldSides |-> {}]]
NearWorlds ==
    {PlainWorld}
    \union {[PlainWorld EXCEPT !.metric[m] = r] :
               m \in FieldMetrics, r \in {Reads(0, 0), Reads(0, 1), Reads(1, 1), Reads(2, 1)}}
    \union {[PlainWorld EXCEPT !.metric[m] = Reads(1, 1), !.found[c] = {f}] :
               m \in {"dose", "env"}, c \in FieldSides, f \in FieldFindings}
Atlases == {[l \in {"moon", "earth"} |-> IF l = "moon" THEN w ELSE PlainWorld] : w \in NearWorlds}

(* Two carriers, with every piece of the configuration changed in turn.    *)
FleetSetup == [governed |-> TRUE, blown |-> FALSE, planner |-> FALSE, lie |-> TRUE,
               replay |-> TRUE, spike |-> FALSE, inject |-> 1, target |-> 7, soft |-> {},
               rough |-> {}, starved |-> {}, bus |-> "plain", arm |-> "idle"]
TwoScouts ==
    {FleetSetup, [FleetSetup EXCEPT !.governed = FALSE, !.lie = FALSE],
     [FleetSetup EXCEPT !.blown = TRUE], [FleetSetup EXCEPT !.spike = TRUE],
     [FleetSetup EXCEPT !.planner = TRUE, !.soft = {"scout_B"}],
     [FleetSetup EXCEPT !.starved = {"scout_B"}], [FleetSetup EXCEPT !.rough = {"scout_A"}],
     [FleetSetup EXCEPT !.bus = "none"], [FleetSetup EXCEPT !.replay = FALSE],
     [FleetSetup EXCEPT !.arm = "move"], [FleetSetup EXCEPT !.arm = "grasp"]}

SkyEvent(k, s, d) == [kind |-> k, size |-> s, span |-> d, inBand |-> TRUE]
SkyEvents ==
    {SkyEvent("flare", 2, 3), SkyEvent("flare", 3, 4), SkyEvent("eclipse", 1, 3),
     SkyEvent("eclipse", 2, 2), SkyEvent("ingress", 1, 12),
     [SkyEvent("column", 3, 2) EXCEPT !.inBand = FALSE],
     SkyEvent("dose", 2, 2), SkyEvent("plain", 3, 1), SkyEvent("raises", 1, 1), SkyEvent("unlisted", 1, 1)}

Scouts == <<"scout_A", "scout_B">>
OneCell == {[lo |-> 7, hi |-> 7]}

PoseErrors == {-1, 0, 3}
TileNoise == {-12, 12}
Shaft == [p \in 1 .. 3 |-> <<3, 5, 14>>[p]]
=============================================================================
