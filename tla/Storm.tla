------------------------------- MODULE Storm -------------------------------
(***************************************************************************)
(* The storms behind the storm_env embed: compose_storm names the events,  *)
(* schedule_concurrent draws their windows, integrate_laws walks the       *)
(* horizon in steps and the hops judge every event.                        *)
(* (universe_storm_engine_v1.py, universe_storm_state_v1.py,               *)
(* universe_env_merge_v1.py, universe_env_state_v1.py,                     *)
(* universe_env_thermal_column_v1.py, universe_env_radiation_v1.py,        *)
(* universe_event_dispatch_v1.py.)                                         *)
(*                                                                         *)
(* Time is counted in ticks, two to a step, so that a window may start     *)
(* between two samples.  Light and heat share a scale: the sun at its base *)
(* holds the surface at Full.                                              *)
(***************************************************************************)
EXTENDS Naturals, Sequences, FiniteSets, FiniteSetsExt, SequencesExt

CONSTANTS Catalog,    \* the events a profile may name: [kind, size, span, inBand]
          Horizon,    \* steps the integrator walks
          Band,       \* the largest flare multiplier
          Full,       \* illumination of the rim before any eclipse
          Loaded,     \* the dust loading at which the joint saturates
          MaxEvents   \* bound: events named by a profile

Kinds == {"flare", "eclipse", "ingress", "column", "dose", "plain",
          "raises", "unlisted"}
Event == [kind : Kinds, size : Nat, span : Nat \ {0}, inBand : BOOLEAN]

(* An eclipse drops the light by a fraction, and the flare band starts at  *)
(* one.                                                                    *)
StormAssumption ==
    /\ Catalog \subseteq Event /\ \A e \in Catalog : e.kind = "eclipse" => e.size <= 2
    /\ {Horizon, Full, Loaded, MaxEvents} \subseteq Nat /\ Band \in Nat \ {0}

VARIABLES mode,     \* "physics" (the integrator) or "deltas" (merge_delta)
          phase,    \* what the run does next
          windows,  \* the schedule: [event, seq, start, stop], by start
          t,        \* steps integrated
          env,      \* the environment: [flare, illum, column, dose, dust]
          peak,     \* most windows seen active at once
          merged,   \* column of the sequential baseline
          hop,      \* events judged
          fails,    \* hops that failed
          verdict   \* of the storm

vars == <<mode, phase, windows, t, env, peak, merged, hop, fails, verdict>>

End == 2 * Horizon
Clamp(x, lo, hi) == IF x < lo THEN lo ELSE IF x > hi THEN hi ELSE x

-----------------------------------------------------------------------------
(* A window is active from its start up to, not including, its end.        *)
ActiveAt(tick) == {i \in DOMAIN windows : windows[i].start <= tick /\ tick < windows[i].stop}

OfKind(active, kind) == {i \in active : windows[i].event.kind = kind}

(* compute_overlap_peak samples every step up to the last end.             *)
SampledPeak(ws) ==
    LET last == Max({w.stop : w \in ToSet(ws)} \union {0})
        active(tick) == {i \in DOMAIN ws : ws[i].start <= tick /\ tick < ws[i].stop}
    IN Max({0} \union {Cardinality(active(2 * k)) : k \in 0 .. last \div 2})

(* compose_storm skips the ids the catalog does not list.                  *)
Listed == {e \in Catalog : e.kind # "unlisted"}

(* schedule_concurrent: an event longer than the horizon starts at zero;   *)
(* the windows are sorted by start, then by their place in the sequence.   *)
Latest(event) == IF event.span < End THEN End - event.span ELSE 0
Drawn(event, i, start) == [event |-> event, seq |-> i, start |-> start, stop |-> start + event.span]
Before(v, w) == v.start < w.start \/ (v.start = w.start /\ v.seq < w.seq)

FreshEnv == [flare |-> 1, illum |-> Full, column |-> Full, dose |-> 0, dust |-> 0]

-----------------------------------------------------------------------------
(* One step of integrate_timestep, law by law.                             *)

(* combine_active_solar_bc: the flare starts from one at every step, the   *)
(* illumination from what the last step left; an eclipse of size 1 halves  *)
(* it, one of size 2 puts it out.                                          *)
Product(active) == FoldSet(LAMBDA i, p : p * windows[i].event.size, 1, OfKind(active, "flare"))
Dimmed(illum, active) ==
    FoldSet(LAMBDA i, x : (x * (2 - windows[i].event.size)) \div 2, illum, OfKind(active, "eclipse"))

\* Mutant of Combined: the flare of the step before is carried over.
CombinedCarrying(e, active) ==
    [e EXCEPT !.flare = Clamp(@ * Product(active), 1, Band), !.illum = Dimmed(@, active)]

Combined(e, active) ==
    [e EXCEPT !.flare = Clamp(Product(active), 1, Band), !.illum = Dimmed(@, active)]

(* flux_bc_from_env: the surface temperature the light would hold.         *)
Held(e) == e.illum * e.flare

(* step_column_implicit_1d: the surface moves towards it, and stays inside *)
(* the regime's envelope.                                                  *)
Warmed(e) ==
    [e EXCEPT !.column = Clamp(IF Held(e) > @ THEN @ + 1 ELSE IF Held(e) < @ THEN @ - 1 ELSE @,
                               Full - 1, Full + 1)]

(* integrate_dust_window: loading grows, up to saturation, while an        *)
(* ingress event is active.                                                *)
Dusted(e, active) ==
    IF OfKind(active, "ingress") = {} THEN e
    ELSE [e EXCEPT !.dust = IF @ < Loaded THEN @ + 1 ELSE @]

(* integrate_radiation_window: one rate, scaled by the merged flare.  (Its *)
(* dose_rate_scale is one: no event or profile of the repository has it.)  *)
Radiated(e) == [e EXCEPT !.dose = @ + Clamp(e.flare, 1, Band)]

-----------------------------------------------------------------------------
(* apply_event with an env: eclipses and flares return no delta then; the  *)
(* corridor, duty and burial events set the surface.                       *)
Surface(event, c) == IF event.kind = "column" THEN event.size ELSE c

SequentialColumn(ws) == FoldLeft(LAMBDA c, w : Surface(w.event, c), Full, ws)

(* event_state_delta: an event whose handler returns no delta of its own   *)
(* leaves what it measured, its size, as a flare when it is a macro or a   *)
(* cosmic one (the others have size 0 here).  merge_delta: dose and loading*)
(* accumulate, a flare takes the maximum, the rest is overwritten.         *)
Brightening == {"flare", "plain"}
Delta(e, event) ==
    CASE event.kind \in Brightening -> [e EXCEPT !.flare = IF event.size > @ THEN event.size ELSE @]
      [] event.kind = "eclipse" -> [e EXCEPT !.illum = (Full * (2 - event.size)) \div 2,
                                             !.column = Full - event.size]
      [] event.kind = "ingress" -> [e EXCEPT !.dust = @ + event.size]
      [] event.kind = "column"  -> [e EXCEPT !.column = Surface(event, @)]
      [] event.kind = "dose"    -> [e EXCEPT !.dose = @ + event.size]
      [] OTHER                  -> e

(* apply_event: a handler passes an event whose numbers are inside its     *)
(* typical band; some read receipts and modules this repository does not   *)
(* hold, and raise.                                                        *)
Passes(event) == event.inBand
Raises(event) == event.kind = "raises"

-----------------------------------------------------------------------------
Init ==
    /\ mode \in {"physics", "deltas"}
    /\ phase = "compose"
    /\ windows = <<>> /\ t = 0 /\ env = FreshEnv /\ peak = 0 /\ merged = Full
    /\ hop = 0 /\ fails = 0 /\ verdict = "none"

(* Each event kept draws its start, and the windows are sorted.            *)
Schedule ==
    /\ phase = "compose"
    /\ \E n \in 0 .. MaxEvents : \E events \in [1 .. n -> Listed] :
         \E starts \in [1 .. n -> 0 .. End], order \in [1 .. n -> 1 .. n] :
            LET row(i) == Drawn(events[order[i]], order[i], starts[order[i]])
            IN /\ \A i \in 1 .. n : starts[i] <= Latest(events[i])
               /\ \A i, j \in 1 .. n : i < j => Before(row(i), row(j))
               /\ windows' = [i \in 1 .. n |-> row(i)]
    /\ peak' = IF mode = "deltas" THEN SampledPeak(windows') ELSE 0
    /\ phase' = IF mode = "deltas" THEN "hop" ELSE "integrate"
    /\ UNCHANGED <<mode, t, env, merged, hop, fails, verdict>>

(* integrate_laws: one step of the timeline.                               *)
TimeStep ==
    /\ phase = "integrate" /\ t < Horizon
    /\ LET active == ActiveAt(2 * t)
           dimmed == Combined(env, active)
       IN /\ peak' = IF Cardinality(active) > peak THEN Cardinality(active) ELSE peak
          /\ env' = Radiated(Dusted(Warmed(dimmed), active))
    /\ t' = t + 1
    /\ UNCHANGED <<mode, phase, windows, merged, hop, fails, verdict>>

(* sequential_merge_env: the baseline, over a copy of the first env.       *)
Baseline ==
    /\ phase = "integrate" /\ t = Horizon
    /\ IF \E i \in DOMAIN windows : Raises(windows[i].event)
       THEN phase' = "raised" /\ UNCHANGED merged
       ELSE phase' = "hop" /\ merged' = SequentialColumn(windows)
    /\ UNCHANGED <<mode, windows, t, env, peak, hop, fails, verdict>>

(* One event is dispatched and judged; its delta is only reported.         *)
Hop ==
    /\ mode = "physics" /\ phase = "hop" /\ hop < Len(windows)
    /\ hop' = hop + 1
    /\ fails' = IF Passes(windows[hop + 1].event) THEN fails ELSE fails + 1
    /\ UNCHANGED <<mode, phase, windows, t, env, peak, merged, verdict>>

(* The delta composer judges an event and merges what its handler returns. *)
MergeHop ==
    /\ mode = "deltas" /\ phase = "hop" /\ hop < Len(windows)
    /\ LET event == windows[hop + 1].event
       IN IF Raises(event)
          THEN phase' = "raised" /\ UNCHANGED <<env, hop, fails>>
          ELSE /\ fails' = IF Passes(event) THEN fails ELSE fails + 1
               /\ env' = Delta(env, event)
               /\ hop' = hop + 1
               /\ UNCHANGED phase
    /\ UNCHANGED <<mode, windows, t, peak, merged, verdict>>

(* The verdict; an overlap must have left its mark on the surface.         *)
Conclude ==
    /\ mode = "physics" /\ phase = "hop" /\ hop = Len(windows)
    /\ phase' = "done"
    /\ verdict' = IF fails = 0 /\ (peak <= 1 \/ env.column # merged) THEN "PASS" ELSE "FAIL"
    /\ UNCHANGED <<mode, windows, t, env, peak, merged, hop, fails>>

MergeConclude ==
    /\ mode = "deltas" /\ phase = "hop" /\ hop = Len(windows)
    /\ phase' = "done"
    /\ verdict' = IF fails = 0 THEN "PASS" ELSE "FAIL"
    /\ UNCHANGED <<mode, windows, t, env, peak, merged, hop, fails>>

Next ==
    \/ Schedule \/ TimeStep \/ Baseline
    \/ Hop \/ Conclude
    \/ MergeHop \/ MergeConclude

Spec == Init /\ [][Next]_vars

-----------------------------------------------------------------------------
(* Every variable stays in its domain; the integrator keeps the flare in   *)
(* its band, the column in the envelope of its regime and the dust below   *)
(* saturation.                                                             *)
TypeOK ==
    /\ mode \in {"physics", "deltas"} /\ phase \in {"compose", "integrate", "hop", "done", "raised"}
    /\ windows \in Seq([event : Listed, seq : Nat, start : 0 .. End, stop : Nat])
    /\ t \in 0 .. Horizon /\ peak \in 0 .. MaxEvents /\ hop \in 0 .. Len(windows)
    /\ fails \in 0 .. hop /\ verdict \in {"none", "PASS", "FAIL"}
    /\ env.flare \in Nat \ {0} /\ env.illum \in 0 .. Full
    /\ (mode = "physics" => /\ env.flare \in 1 .. Band /\ env.dust \in 0 .. Loaded
                            /\ env.column \in Full - 1 .. Full + 1)

(* The windows of a kind that cover the k-th sample, the flare they make   *)
(* together, and how many samples an ingress window covers.                *)
Covers(w, tick) == w.start <= tick /\ tick < w.stop
Covering(k, kind) ==
    {i \in DOMAIN windows : windows[i].event.kind = kind /\ Covers(windows[i], 2 * k)}
FlareAt(k) ==
    Clamp(FoldSet(LAMBDA i, p : p * windows[i].event.size, 1, Covering(k, "flare")), 1, Band)
Laden == Cardinality({k \in 0 .. t - 1 : Covering(k, "ingress") # {}})
Judged(kind) == {i \in 1 .. hop : windows[i].event.kind = kind}

(* The dose and the dust of an integrated storm are what the schedule      *)
(* says, step by step: at each sample the product of the flares whose      *)
(* windows cover it, inside the band, and one load per sample covered by   *)
(* an ingress window.  A flare leaves nothing behind once its window is    *)
(* over; in the delta composer the order of the hops does not matter       *)
(* either.                                                                 *)
FieldsFollowSchedule ==
    /\ mode = "physics" => /\ env.dose = SumFunction([k \in 0 .. t - 1 |-> FlareAt(k)])
                           /\ env.dust = IF Laden < Loaded THEN Laden ELSE Loaded
    /\ mode = "deltas" =>
         /\ env.dose = SumFunction([i \in Judged("dose") |-> windows[i].event.size])
         /\ env.flare = Max({1} \union {windows[i].event.size : i \in Judged("flare") \union Judged("plain")})

(* The peak counts every overlap that lasts a step or more inside the      *)
(* horizon, wherever its windows start, and counts no overlap that does    *)
(* not happen.                                                             *)
Meet(v, w) == Max({v.start, w.start}) + 2 <= Min({v.stop, w.stop, End})
AtOnce(tick) == Cardinality({i \in DOMAIN windows : Covers(windows[i], tick)})
OverlapSeen ==
    phase \in {"hop", "done"} =>
      /\ (\E i, j \in DOMAIN windows : i # j /\ Meet(windows[i], windows[j])) => peak >= 2
      /\ peak <= Max({0} \union {AtOnce(windows[i].start) : i \in DOMAIN windows})

(* Once no eclipse is active the sun is back: "product illum x flare       *)
(* across overlapping solar-class events" (combine_active_solar_bc) says   *)
(* what the light of a step is made of.                                    *)
SunReturns ==
    (phase = "integrate" /\ mode = "physics" /\ t > 0 /\ OfKind(ActiveAt(2 * (t - 1)), "eclipse") = {})
        => env.illum = Full

(* What the integrator and the composer report is what was scheduled.      *)
ScheduleFollowed == FieldsFollowSchedule /\ OverlapSeen
=============================================================================
