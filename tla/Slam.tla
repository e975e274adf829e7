-------------------------------- MODULE Slam -------------------------------
(***************************************************************************)
(* The layers behind the Clifford bind (run_integrated_phase_b_engines):   *)
(* events of a walk (L1), odometry (L2), registration (L3), the map (L4)   *)
(* and the closure of a loop (L5), judged together.                        *)
(* (slam_integrate_phase_b_engines_v1.py, slam_integrate_l0_l5_v1.py,      *)
(* slam_l1..l5_*_engine_v1.py, slam_event_front_v1.py,                     *)
(* slam_loop_closure_v1.py, slam_map_commit_v1.py,                         *)
(* slam_reform_resample_v1.py.)                                            *)
(*                                                                         *)
(* The corridor is a line of whole units, long enough that the share of a  *)
(* correction each pose takes is whole.  A motor is the shift it makes.    *)
(* How far a landmark moves in the view, the encoder's noise and the error *)
(* of a registration come from the data: any the constants allow.          *)
(***************************************************************************)
EXTENDS Integers, Sequences, FiniteSets, FiniteSetsExt, SequencesExt

CONSTANTS Site,         \* the landmarks, and where each is: index -> place
          Truth,      \* the shift between the two clouds
          Errors,     \* errors a registration may leave
          Iterations, \* registrations of a run
          Noise,      \* what the encoder may add to a step
          Stride,     \* a step of the loop
          Forward,    \* poses of the loop before it turns back
          Ticks,      \* ticks of the walk L1 sees
          Cap,        \* events a tick may fire
          MinEvents,  \* events the verdict asks for
          Radius,     \* a revisit is nearer than this
          MinGap,     \* and at least so many poses later
          Ceiling,    \* a registration worse than this fails
          Voxel,      \* width of a map tile
          TileCap     \* landmarks a tile takes (MAX_TILE_POINTS)

Points == DOMAIN Site

SlamAssumption ==
    /\ IsFiniteSet(Points) /\ Points \subseteq Nat /\ Site \in [Points -> Int]
    /\ Truth \in Int /\ Errors \subseteq Int /\ Noise \subseteq Int
    /\ {Iterations, Stride, Forward, Ticks, Cap, MinEvents, Radius, MinGap, Ceiling, Voxel,
       TileCap} \subseteq Nat \ {0}
    /\ Cardinality(Points) <= TileCap  \* the one cloud has 240 points, a tile takes 512
    /\ \A x \in Noise \union {Stride}, steps \in 1 .. 2 * (Forward - 1) : x % steps = 0

VARIABLES phase,    \* the layer that runs next
          skip,     \* the run leaves L3 out
          tick,     \* ticks or iterations the layer has done
          fired,    \* landmarks that fired
          events,   \* how often they did
          odom,     \* poses of the walk, as the encoder has them
          motor,    \* L3's shift
          tiles,    \* tile -> landmarks it took -> where it has them
          est,      \* poses of the loop, before the correction
          after,    \* and after it
          anchor,   \* the pose the last one closes on
          verdict

vars == <<phase, skip, tick, fired, events, odom, motor, tiles, est, after, anchor, verdict>>

NoLoop == -1
Distance(a, b) == IF a < b THEN b - a ELSE a - b

-----------------------------------------------------------------------------
(* detect_percept_events: of the landmarks that moved, the Cap that moved  *)
(* most, the lower index first.                                            *)
Detected(moved) ==
    LET candidates == {p \in Points : moved[p] > 0}
        before(p) == {q \in candidates : moved[q] > moved[p] \/ (moved[q] = moved[p] /\ q < p)}
    IN {p \in candidates : Cardinality(before(p)) < Cap}

Placed(p) == Site[p] + motor

(* build_tiles_from_points: the points come in the order of their indices; *)
(* a tile that is full drops the next one without a word.                  *)
Tiling(indices) ==
    LET key(p) == Placed(p) \div Voxel
        before(p) == {q \in indices : q < p /\ key(q) = key(p)}
        taken == {p \in indices : Cardinality(before(p)) < TileCap}
    IN [k \in {key(p) : p \in indices} |-> [p \in {q \in taken : key(q) = k} |-> Placed(p)]]

(* detect_loop_candidate for the last pose; sequences count from one.      *)
Eligible(poses) ==
    LET n == Len(poses)
    IN {i \in 0 .. n - 1 : /\ i < Max({n \div 4, MinGap}) /\ n - 1 - i >= MinGap
                           /\ Distance(poses[n], poses[i + 1]) < Radius}

Candidate(poses) ==
    LET gap(i) == Distance(poses[Len(poses)], poses[i + 1])
        best == {i \in Eligible(poses) : \A j \in Eligible(poses) : gap(i) <= gap(j)}
    IN IF best = {} THEN NoLoop ELSE Min(best)

\* Mutant of Corrected: the span counts poses, not steps.
CorrectedByPoses(poses, from) ==
    LET n == Len(poses)
        err == poses[from + 1] - poses[n]
    IN [j \in 1 .. n |->
           IF j <= from THEN poses[j] ELSE poses[j] + (err * (j - 1 - from)) \div (n - from)]

(* apply_loop_closure_positions: the gap is spread over the steps from the *)
(* anchor to the last pose.                                                *)
Corrected(poses, from) ==
    LET n == Len(poses)
        err == poses[from + 1] - poses[n]
    IN [j \in 1 .. n |->
           IF j <= from THEN poses[j]
           ELSE poses[j] + (err * (j - 1 - from)) \div Max({n - 1 - from, 1})]

-----------------------------------------------------------------------------
Init ==
    /\ phase = "L1" /\ skip \in BOOLEAN /\ tick = 0
    /\ fired = {} /\ events = 0 /\ odom = <<0>> /\ motor = 0 /\ tiles = <<>>
    /\ est = <<0>> /\ after = <<>> /\ anchor = NoLoop /\ verdict = "none"

(* One tick of run_l1_event_engine, and of integrate_odom_ticks over the   *)
(* same frames.                                                            *)
Sense ==
    /\ phase = "L1" /\ tick < Ticks
    /\ \E moved \in [Points -> 0 .. 2] : /\ fired' = fired \union Detected(moved)
                                         /\ events' = events + Cardinality(Detected(moved))
    /\ tick' = tick + 1
    /\ UNCHANGED <<phase, skip, odom, motor, tiles, est, after, anchor, verdict>>

Encode ==
    /\ phase = "L1" /\ tick = Ticks
    /\ IF Len(odom) <= Ticks
       THEN /\ \E n \in Noise : odom' = Append(odom, Last(odom) + Stride + n)
            /\ UNCHANGED <<phase, tick>>
       ELSE phase' = "L3" /\ tick' = 0 /\ UNCHANGED odom
    /\ UNCHANGED <<skip, fired, events, motor, tiles, est, after, anchor, verdict>>

\* Mutant of Found: the cloud is registered as it was sensed, not as moved so far.
FoundUnmoved(cloud, e) == Truth + e

(* register_planes_primitive and register_points_kabsch find the shift     *)
(* between two clouds, up to an error; motors compose by adding up.        *)
Found(cloud, e) == Truth - cloud + e
Composed(delta, m) == m + delta

(* reform_resample_loop: the shift that takes the cloud, as moved so far,  *)
(* to its destination is composed with the motor.                          *)
Register ==
    /\ phase = "L3" /\ tick < Iterations
    /\ \E e \in Errors : motor' = Composed(Found(motor, e), motor)
    /\ tick' = tick + 1
    /\ UNCHANGED <<phase, skip, fired, events, odom, tiles, est, after, anchor, verdict>>

(* A run that skips L3 puts the identity in its place.                     *)
Hand ==
    /\ phase = "L3" /\ tick = Iterations
    /\ phase' = "L4"
    /\ motor' = IF skip THEN 0 ELSE motor
    /\ UNCHANGED <<skip, tick, fired, events, odom, tiles, est, after, anchor, verdict>>

(* run_l4_map_engine.                                                      *)
Compose ==
    /\ phase = "L4"
    /\ phase' = "L5" /\ tick' = 0
    /\ tiles' = Tiling(fired)
    /\ UNCHANGED <<skip, fired, events, odom, motor, est, after, anchor, verdict>>

(* simulate_loop_traverse_ticks goes out and comes back, as the encoder    *)
(* has it.                                                                 *)
Leg(t) == IF t < Forward - 1 THEN Stride ELSE -Stride

Walk ==
    /\ phase = "L5" /\ tick < 2 * (Forward - 1)
    /\ \E n \in Noise :
         est' = Append(est, Last(est) + Leg(tick) + n)
    /\ tick' = tick + 1
    /\ UNCHANGED <<phase, skip, fired, events, odom, motor, tiles, after, anchor, verdict>>

(* run_l5_loop_engine closes the last pose on its candidate.               *)
Close ==
    /\ phase = "L5" /\ tick = 2 * (Forward - 1)
    /\ anchor' = Candidate(est)
    /\ after' = IF anchor' = NoLoop THEN est ELSE Corrected(est, anchor')
    /\ phase' = "judge"
    /\ UNCHANGED <<skip, tick, fired, events, odom, motor, tiles, est, verdict>>

(* The checks; those that compare a hash with itself are left out.         *)
Fits == Distance(motor, Truth) < Ceiling

Judge ==
    /\ phase = "judge"
    /\ phase' = "done"
    /\ verdict' = IF /\ events >= MinEvents /\ Len(odom) = Ticks + 1
                     /\ ~skip /\ Fits
                     /\ DOMAIN tiles # {} /\ anchor # NoLoop
                     /\ Last(after) = after[anchor + 1]
                  THEN "PASS" ELSE "DEGRADED"
    /\ UNCHANGED <<skip, tick, fired, events, odom, motor, tiles, est, after, anchor>>

Next == Sense \/ Encode \/ Register \/ Hand \/ Compose \/ Walk \/ Close \/ Judge

Spec == Init /\ [][Next]_vars

-----------------------------------------------------------------------------
(* Every variable stays in its domain.                                     *)
TypeOK ==
    /\ phase \in {"L1", "L3", "L4", "L5", "judge", "done"} /\ skip \in BOOLEAN
    /\ fired \subseteq Points /\ events \in 0 .. Ticks * Cap
    /\ Len(odom) \in 1 .. Ticks + 1 /\ Len(est) \in 1 .. 2 * Forward - 1
    /\ motor \in {0} \union {Truth + e : e \in Errors}
    /\ anchor \in {NoLoop} \union (0 .. 2 * Forward - 2)
    /\ verdict \in {"none", "PASS", "DEGRADED"}

(* A loop that came back is closed: the last pose lands on the earliest of *)
(* the nearest poses it may close on, the poses up to there stay where     *)
(* they were, and every step after it is bent by the same amount.          *)
LoopCloses ==
    phase \in {"judge", "done"} =>
        LET n == Len(est)
            bend(j) == (after[j + 1] - after[j]) - (est[j + 1] - est[j])
        IN /\ anchor = NoLoop <=> Eligible(est) = {}
           /\ anchor = NoLoop => after = est
           /\ anchor # NoLoop =>
                /\ after[n] = est[anchor + 1]
                /\ \A j \in 1 .. anchor + 1 : after[j] = est[j]
                /\ \A i, j \in anchor + 1 .. n - 1 : bend(i) = bend(j)

(* A PASS is a map of the world: the tiles hold each landmark that fired   *)
(* exactly once, none was dropped, and they have it within the ceiling of  *)
(* where it really is.                                                     *)
MapEarned ==
    verdict = "PASS" =>
        \A p \in fired :
          LET holds == {k \in DOMAIN tiles : p \in DOMAIN tiles[k]}
          IN /\ Cardinality(holds) = 1
             /\ \A k \in holds : Distance(tiles[k][p], Site[p] + Truth) < Ceiling

(* The pipeline's answer: the walk is closed and a PASS is earned.         *)
SlamSound == LoopCloses /\ MapEarned
=============================================================================
