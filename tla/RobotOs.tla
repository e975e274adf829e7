------------------------------- MODULE RobotOs -------------------------------
(***************************************************************************)
(* The carriers of a relay: one process per carrier (robot_carrier_sim_    *)
(* runtime_v1.py) that ticks the kernel (robot_os_kernel_v1.py) over the   *)
(* live fleet state, a file every process reads, changes and replaces      *)
(* (fleet_live_state_v1.py).  A tick proposes, is judged by the governance *)
(* rules, moves or is held, and runs the lunar HAL and the wear bus.  The  *)
(* coordinator that arms the carriers is not in the repository.            *)
(*                                                                         *)
(* Distances are whole units; a tick advances by Stride.                   *)
(***************************************************************************)
EXTENDS Integers, Sequences, FiniteSets

CONSTANTS Relay,       \* the carriers in relay order
          Ticks,       \* ticks in a segment (SEGMENT_TICKS)
          Stride,      \* units a tick advances
          Zones,       \* forbidden zones of the envelope, [lo, hi]
          Setups,      \* the configurations to start from
          MaxVersion,  \* bound: writes of the live state
          MaxExits,    \* bound: processes that are killed or time out
          None         \* no packet, no injected target, no process

Carriers == {Relay[i] : i \in DOMAIN Relay}
Place(c) == CHOOSE i \in DOMAIN Relay : Relay[i] = c
From(c) == (Place(c) - 1) * Ticks * Stride
Terminal(c) == Place(c) = Len(Relay)

(* What is configured before the carriers start: the backend and where it  *)
(* injects a bad target, the fuse, soft ground (rough: soft under a carrier*)
(* before it starts), starved budgets, whether radiation may spike.        *)
Setup == [governed : BOOLEAN, blown : BOOLEAN, planner : BOOLEAN, lie : BOOLEAN,
          replay : BOOLEAN, spike : BOOLEAN, inject : Int, target : Nat,
          soft : SUBSET Carriers, rough : SUBSET Carriers, starved : SUBSET Carriers,
          bus : {"none", "plain"}, arm : {"idle", "move", "grasp"}]

Phases == {"idle", "armed", "traverse", "handoff_pending", "recover", "done"}

RobotOsAssumption ==
    /\ Relay # <<>> /\ Len(Relay) \in Nat /\ DOMAIN Relay = 1..Len(Relay)
    /\ \A i, j \in DOMAIN Relay : Relay[i] = Relay[j] => i = j
    /\ Ticks \in Nat \ {0} /\ Stride \in Nat
    /\ \A z \in Zones : z.lo <= z.hi
    /\ Setups \subseteq Setup
    /\ MaxVersion \in Nat /\ MaxExits \in Nat

VARIABLES setup,  \* the configuration
          live,   \* live_fleet_state_v1.json
          proc,   \* carrier -> where its process is, with the draft it writes
          exits   \* processes that died so far

vars == <<setup, live, proc, exits>>

Slot == [phase |-> "idle", command |-> "idle", cursor |-> 0, ticks |-> 0, hold |-> FALSE,
         target |-> None, soft |-> FALSE, mutex |-> "arm_idle", packet |-> None]

-----------------------------------------------------------------------------
(* The rules, in the order evaluate_governance_rules tries them.           *)
Meets(a, b, z) == a <= z.hi /\ z.lo <= b

ZoneBlocks(slot) ==
    LET intent == IF slot.target = None THEN slot.cursor ELSE slot.target
        lo == IF intent < slot.cursor THEN intent ELSE slot.cursor
        hi == IF intent < slot.cursor THEN slot.cursor ELSE intent
    IN \E z \in Zones : Meets(lo, hi, z)

(* Confidence: the planner's falls below the gate when the last ground was *)
(* soft; worn duty caps keep the others above it.                          *)
Vetoed(slot, proposal) ==
    \/ proposal.command = "traverse" /\ (ZoneBlocks(slot) \/ slot.soft)
    \/ ~proposal.confident

(* The stub injects its target at one action and clears it at the others;  *)
(* the planner answers soft ground with a recover.                         *)
Propose(s, c) ==
    LET slot == s.slots[c]  bad == ~setup.planner /\ s.seq = setup.inject
    IN [command   |-> IF setup.planner /\ slot.soft THEN "recover" ELSE "traverse",
        confident |-> ~(setup.planner /\ slot.soft),
        target    |-> IF bad THEN setup.target
                      ELSE IF setup.planner THEN slot.target ELSE None]

(* apply_governance_before_actuation: propose, judge, and hold on a veto;  *)
(* a blown fuse is a veto whatever is proposed.                            *)
Governed(s, c, proposal) ==
    LET aimed == [s.slots[c] EXCEPT !.target = proposal.target]
        veto == setup.blown \/ Vetoed(aimed, proposal)
    IN [state |-> [s EXCEPT !.seq = @ + 1, !.slots[c] = [aimed EXCEPT !.hold = veto]],
        skip |-> veto]

\* Mutant of Govern: the hold is noted but the movement is not skipped.
GovernUnheld(s, c) ==
    IF ~setup.governed THEN [state |-> s, skip |-> FALSE]
    ELSE [Governed(s, c, Propose(s, c)) EXCEPT !.skip = setup.blown]

Govern(s, c) ==
    IF ~setup.governed THEN [state |-> s, skip |-> FALSE]
    ELSE Governed(s, c, Propose(s, c))

(* A commanded arm is held while the carrier traverses; a grasp would need *)
(* a module that is not in the repository.                                 *)
Mutex(slot) == IF setup.arm = "move" THEN [slot EXCEPT !.mutex = "arm_hold"] ELSE slot

(* The Lie integrator adds a step to the pose it kept; without it the      *)
(* cursor is computed from the ticks.                                      *)
Advance(slot, c) ==
    [slot EXCEPT !.ticks = @ + 1,
                 !.cursor = IF setup.lie THEN @ + Stride ELSE From(c) + Stride * (slot.ticks + 1)]

(* on_tick_after of the lunar HAL, which governed runs use: the ground     *)
(* just crossed, and radiation: a spike counts in one tick only.           *)
AfterTick(s, c) ==
    LET soft == c \in setup.soft
        over == s.spike
        slot == [s.slots[c] EXCEPT !.soft = soft,
                                   !.phase = IF soft \/ over THEN "recover" ELSE @,
                                   !.command = IF soft \/ over THEN "recover" ELSE @]
    IN IF setup.governed THEN [s EXCEPT !.slots[c] = slot, !.spike = FALSE] ELSE s

(* A state without a wear bus gets one that needs the iron coupling, which *)
(* is not in the repository: its next tick raises.                         *)
WearTick(s) == [s EXCEPT !.bus = IF @ = "none" THEN "iron" ELSE @]

(* The end of a segment: whatever the tick's phase was, the carrier hands  *)
(* over, or is done when it is the last one.                               *)
HandOver(s, c) ==
    IF Terminal(c) THEN [s EXCEPT !.slots[c].phase = "done", !.slots[c].command = "idle"]
    ELSE [s EXCEPT !.slots[c].phase = "handoff_pending", !.slots[c].command = "idle",
                   !.slots[c].packet = [to |-> Relay[Place(c) + 1], cursor |-> s.slots[c].cursor],
                   !.coord = "wait_handoff"]

\* Mutant of EndSegment: the packet is built a tick too early.
EndSegmentEarly(s, c) == IF s.slots[c].ticks + 1 < Ticks THEN s ELSE HandOver(s, c)

EndSegment(s, c) == IF s.slots[c].ticks < Ticks THEN s ELSE HandOver(s, c)

-----------------------------------------------------------------------------
(* RobotOsKernel.tick_state on the draft of carrier c, in its parts.       *)
Due(slot) == slot.command = "traverse" \/ slot.phase \in {"armed", "traverse"}
Starved(slot, c) == slot.command = "traverse" /\ c \in setup.starved

Entered(s, c) == Govern([s EXCEPT !.slots[c].phase = "traverse"], c)
Moved(s, c) ==
    LET held == Entered(s, c).state
    IN EndSegment(WearTick(AfterTick([held EXCEPT !.slots[c] = Advance(Mutex(@), c)], c)), c)

TickRaises(s, c) ==
    /\ Due(s.slots[c]) /\ ~Starved(s.slots[c], c)
    /\ \/ setup.arm = "grasp"
       \/ ~Entered(s, c).skip
          /\ \/ s.bus = "iron"
             \/ s.slots[c].ticks + 1 >= Ticks /\ ~setup.replay

TickState(s, c) ==
    IF ~Due(s.slots[c]) THEN s
    ELSE IF Starved(s.slots[c], c)
         THEN [s EXCEPT !.slots[c].phase = "recover", !.slots[c].command = "recover"]
    ELSE IF Entered(s, c).skip
         THEN [Entered(s, c).state EXCEPT !.slots[c] = Mutex(@)]
    ELSE Moved(s, c)

-----------------------------------------------------------------------------
Init ==
    /\ setup \in Setups
    /\ live = [version |-> 0, seq |-> 0, coord |-> "init", bus |-> setup.bus,
               spike |-> FALSE,
               slots |-> [c \in Carriers |-> [Slot EXCEPT !.cursor = From(c),
                                                         !.soft = c \in setup.rough]]]
    /\ proc = [c \in Carriers |-> None]
    /\ exits = 0

(* The process of a carrier is started, also after the last one ended.     *)
Launch(c) ==
    /\ proc[c] = None
    /\ proc' = [proc EXCEPT ![c] = [step |-> "look"]]
    /\ UNCHANGED <<setup, live, exits>>

(* The coordinator arms the first carrier, and each next one when the      *)
(* packet of the one before it is in the state.                            *)
Arm(c) ==
    /\ live.version < MaxVersion
    /\ live.slots[c].phase = "idle" /\ live.slots[c].ticks = 0
    /\ Place(c) > 1 => live.slots[Relay[Place(c) - 1]].packet # None
    /\ live' = [live EXCEPT !.version = @ + 1, !.coord = "relay",
                            !.slots[c].phase = "armed", !.slots[c].command = "traverse"]
    /\ UNCHANGED <<setup, proc, exits>>

(* inject_see_event: one spike, for the next tick that looks.              *)
Inject ==
    /\ setup.spike /\ ~live.spike /\ live.version < MaxVersion
    /\ live' = [live EXCEPT !.version = @ + 1, !.spike = TRUE]
    /\ UNCHANGED <<setup, proc, exits>>

(* run_carrier_loop reads the state to see whether its carrier is due.     *)
Look(c) ==
    /\ proc[c] # None /\ proc[c].step = "look" /\ Due(live.slots[c])
    /\ proc' = [proc EXCEPT ![c] = [step |-> "read"]]
    /\ UNCHANGED <<setup, live, exits>>

(* update_state reads it again and ticks a copy.                           *)
Read(c) ==
    /\ proc[c] # None /\ proc[c].step = "read"
    /\ ~TickRaises(live, c)
    /\ proc' = [proc EXCEPT ![c] = [step |-> "write", draft |-> TickState(live, c),
                                    base |-> live.version]]
    /\ UNCHANGED <<setup, live, exits>>

(* A tick that raises takes the process with it; the draft is lost.        *)
Raise(c) ==
    /\ proc[c] # None /\ proc[c].step = "read"
    /\ TickRaises(live, c)
    /\ exits < MaxExits
    /\ proc' = [proc EXCEPT ![c] = None]
    /\ exits' = exits + 1
    /\ UNCHANGED <<setup, live>>

(* The draft replaces the file; nothing compares the version it came from. *)
Write(c) ==
    /\ proc[c] # None /\ proc[c].step = "write" /\ live.version < MaxVersion
    /\ live' = [proc[c].draft EXCEPT !.version = proc[c].base + 1]
    /\ proc' = [proc EXCEPT ![c] = [step |-> "look"]]
    /\ UNCHANGED <<setup, exits>>

\* Mutant of Refused: the draft that was not written is ticked once more.
RefusedKept(c) ==
    /\ proc[c] # None /\ proc[c].step = "write"
    /\ proc' = [proc EXCEPT ![c].draft = TickState(@, c)]
    /\ UNCHANGED <<setup, live, exits>>

(* The system refuses the write or the replacement: update_state drops the *)
(* draft, reads the file again and ticks what it finds there.  (After the  *)
(* last of its retries it raises, which is a Kill.)                        *)
Refused(c) ==
    /\ proc[c] # None /\ proc[c].step = "write"
    /\ proc' = [proc EXCEPT ![c] = [step |-> "read"]]
    /\ UNCHANGED <<setup, live, exits>>

(* The terminal carrier returns when it is done.                           *)
Return(c) ==
    /\ proc[c] # None /\ proc[c].step = "look"
    /\ Terminal(c) /\ live.slots[c].phase = "done"
    /\ exits < MaxExits
    /\ proc' = [proc EXCEPT ![c] = None]
    /\ exits' = exits + 1
    /\ UNCHANGED <<setup, live>>

(* A process is killed, or its max_seconds are over.                       *)
Kill(c) ==
    /\ proc[c] # None /\ exits < MaxExits
    /\ proc' = [proc EXCEPT ![c] = None]
    /\ exits' = exits + 1
    /\ UNCHANGED <<setup, live>>

Next == Inject \/ \E c \in Carriers :
    \/ Launch(c) \/ Arm(c) \/ Look(c) \/ Read(c) \/ Raise(c)
    \/ Write(c) \/ Refused(c) \/ Return(c) \/ Kill(c)

Spec == Init /\ [][Next]_vars

-----------------------------------------------------------------------------
TypeOK ==
    /\ setup \in Setups
    /\ live.version \in 0..MaxVersion /\ live.seq \in 0..MaxVersion
    /\ live.coord \in {"init", "relay", "wait_handoff"}
    /\ live.bus \in {"none", "plain", "iron"}
    /\ \A c \in Carriers : /\ live.slots[c].phase \in Phases
                           /\ live.slots[c].ticks \in 0..Ticks
                           /\ live.slots[c].cursor \in From(c)..(From(c) + Stride * Ticks)
    /\ \A c \in Carriers : proc[c] # None => proc[c].step \in {"look", "read", "write"}
    /\ exits \in 0..MaxExits

(* A carrier hands over once it has ticked its whole segment and stands    *)
(* where the next one starts, also when its process died on the way, when  *)
(* ticks of it were held, or when its last tick had sent it to recover;    *)
(* and no carrier has moved before the one ahead of it handed over.        *)
HandoffEarned ==
    \A c \in Carriers :
        LET slot == live.slots[c] IN
        /\ slot.packet # None =>
              /\ slot.ticks = Ticks /\ slot.packet.cursor = From(c) + Stride * Ticks
              /\ slot.phase = "handoff_pending" /\ ~Due(slot)
        /\ slot.ticks > 0 /\ Place(c) > 1 => live.slots[Relay[Place(c) - 1]].packet # None

(* governed_actuation_v1: "Veto BEFORE cursor advance - governance_hold #  *)
(* recover".  A tick that ends in a hold has moved neither the cursor nor  *)
(* the tick count and has not changed the phase to recover, and a process  *)
(* that died between its read and its write has moved nothing.             *)
VetoHolds ==
    [][\A c \in Carriers :
          live.seq' > live.seq /\ live.slots[c].hold' /\ proc'[c] # proc[c] =>
              /\ live.slots[c].cursor' = live.slots[c].cursor
              /\ live.slots[c].ticks' = live.slots[c].ticks
              /\ live.slots[c].phase' = "traverse"]_vars

(* The file is replaced without a lock or a compare, by a draft that may   *)
(* have been refused, read again and made again: still a step counts one   *)
(* tick at most, moves the carrier by as much as it counts, and undoes     *)
(* nothing another carrier wrote since the draft was read.                 *)
TicksOnce ==
    [][\A c \in Carriers :
          LET counted == live.slots[c].ticks' - live.slots[c].ticks IN
          /\ counted \in {0, 1}
          /\ live.slots[c].cursor' - live.slots[c].cursor = Stride * counted
          /\ live.slots[c]' # live.slots[c] =>
                \A d \in Carriers \ {c} : live.slots[d]' = live.slots[d]]_vars
=============================================================================
