----------------------------- MODULE RunPipeline -----------------------------
(***************************************************************************)
(* run_project on one project: the dual probe under the silicon fuse, the  *)
(* H6 gate with the apoptosis latch kept in APOPTOSIS_v1.json, the fuse *)
(* that follows it, the kernel's seal, the run receipt and the summary in  *)
(* project.json.  Every access to a file or to the fuse is a step of its   *)
(* own: the caller may be killed between any two of them, and callers of   *)
(* other processes may run in between (Overlap).  The fuse is the abstract *)
(* latch of FuseLatch, which SiliconFuse implements when its calls do not  *)
(* overlap.                                                                *)
(***************************************************************************)
EXTENDS ArtifactLaw

CONSTANTS Runners,     \* processes and threads that call run_project
          MaxRuns,     \* bound: runs started
          MaxFaults,  \* bound: faults
          Overlap      \* may two runs of the project be under way at once?

ASSUME PipelineAssumption == /\ MaxRuns \in Nat
                             /\ MaxFaults \in Nat
                             /\ Overlap \in BOOLEAN

VARIABLES
  fuse,      \* SE_FUSE.bin: "intact", "blown" or "dead"
  state,     \* APOPTOSIS_v1.json: whether it can be read, its score and bit
  docs,      \* the run receipts, in the order of their mtimes
  last,      \* the condition of project.json's last_run
  clock,     \* the number of timestamps taken
  pc,        \* pc[r]: the next step of r's run
  mem,       \* mem[r]: what r's run holds in memory
  started,   \* runs started so far
  faults,    \* faults so far
  lies,      \* history: incoherent gates persisted
  latchAt    \* history: the clock when a set bit was first persisted, or MaxRuns

bounds  == <<started, faults>>
history == <<lies, latchAt>>
vars    == <<fuse, state, docs, last, clock, pc, mem, started, faults, lies, latchAt>>

Fuse == INSTANCE FuseLatch WITH latch <- fuse, body <- "none", Bodies <- {}, Unbound <- "none"

Memory == [cond : Conditions, world : Worlds, spent : Joules, score : Nat, bit : BOOLEAN,
           blown : BOOLEAN, moved : BOOLEAN, ts : Nat, k0 : Verdicts]

StateFile == [file : {"absent", "torn", "ok"}, score : Nat, bit : BOOLEAN]

NoState == [file |-> "absent", score |-> 0, bit |-> FALSE]

Fresh(c, w, j) == [cond |-> c, world |-> w, spent |-> j, score |-> 0, bit |-> FALSE,
                   blown |-> FALSE, moved |-> FALSE, ts |-> 0, k0 |-> "pending"]

\* The memory of a runner between two runs.
Nothing == Fresh("safe", "clear", CHOOSE j \in Joules : TRUE)

Quiet == \A r \in Runners : pc[r] = "idle"

Init ==
  /\ fuse = "intact"
  /\ state = NoState
  /\ docs = <<>>
  /\ last = "none"
  /\ clock = 0
  /\ pc = [r \in Runners |-> "idle"]
  /\ mem = [r \in Runners |-> Nothing]
  /\ started = 0
  /\ faults = 0
  /\ lies = 0
  /\ latchAt = MaxRuns

Goto(r, label) == pc' = [pc EXCEPT ![r] = label]

\* The run raises: nothing more is written.
Fail(r) == Goto(r, "idle") /\ mem' = [mem EXCEPT ![r] = Nothing]

(***************************************************************************)
(* The probe.                                                              *)
(***************************************************************************)

\* run_project begins; its ensure_silicon_fuse refuses a fuse it cannot read.
Begin(r, c, w, j) ==
  /\ pc[r] = "idle"
  /\ Overlap \/ Quiet
  /\ started < MaxRuns
  /\ started' = started + 1
  /\ IF fuse = "dead"
     THEN Fail(r)
     ELSE Goto(r, "stub") /\ mem' = [mem EXCEPT ![r] = Fresh(c, w, j)]
  /\ UNCHANGED <<fuse, state, docs, last, clock, faults, history>>

\* Mutant of Probe: governed actuation does not look at CURRENT_GATE.
ProbeUngated(r, m) ==
  /\ pc[r] \in {"stub", "planner"}
  /\ IF fuse = "dead"
     THEN Fail(r)
     ELSE /\ Goto(r, IF pc[r] = "stub" THEN "planner" ELSE "prior")
          /\ mem' = [mem EXCEPT ![r].moved = @ \/ m]
  /\ UNCHANGED <<fuse, state, docs, last, clock, bounds, history>>

\* One governed tick of a leg: a blown fuse vetoes it, else the rules and the
\* segment decide whether it moves (m).
Probe(r, m) ==
  /\ pc[r] \in {"stub", "planner"}
  /\ m => fuse = "intact"
  /\ IF fuse = "dead"
     THEN Fail(r)
     ELSE /\ Goto(r, IF pc[r] = "stub" THEN "planner" ELSE "prior")
          /\ mem' = [mem EXCEPT ![r].moved = @ \/ m]
  /\ UNCHANGED <<fuse, state, docs, last, clock, bounds, history>>

(***************************************************************************)
(* The gate: the prior latch is the stored bit or a blown fuse.            *)
(***************************************************************************)

\* load_apoptosis_state: no file means no lies; a torn one raises.
ReadState(r) ==
  /\ pc[r] = "prior"
  /\ IF state.file = "torn"
     THEN Fail(r)
     ELSE /\ mem' = [mem EXCEPT ![r].score = state.score, ![r].bit = state.bit]
          /\ Goto(r, "gate")
  /\ UNCHANGED <<fuse, state, docs, last, clock, bounds, history>>

\* Mutant of Emit: only a lie can latch, and the prior is the fuse alone.
EmitTripsOnLie(r) ==
  LET score == mem[r].score + LieIncrement(mem[r].world)
  IN  mem' = [mem EXCEPT ![r].score = score,
                         ![r].bit = \/ fuse = "blown"
                                    \/ LieIncrement(mem[r].world) = 1 /\ Tripped(score)]

\* emit_physics_gate_v1_with_modes.
Emit(r) ==
  LET score == mem[r].score + LieIncrement(mem[r].world)
  IN  mem' = [mem EXCEPT ![r].score = score,
                         ![r].bit = @ \/ fuse = "blown" \/ Tripped(score)]

Gate(r) ==
  /\ pc[r] = "gate"
  /\ IF fuse = "dead" THEN Fail(r) ELSE Emit(r) /\ Goto(r, "truncate")
  /\ UNCHANGED <<fuse, state, docs, last, clock, bounds, history>>

\* persist_apoptosis_state opens the file for writing...
Truncate(r) ==
  /\ pc[r] = "truncate"
  /\ state' = [file |-> "torn", score |-> 0, bit |-> FALSE]
  /\ Goto(r, "persist")
  /\ UNCHANGED <<fuse, docs, last, clock, mem, bounds, history>>

\* ...and fills it.
Persist(r) ==
  /\ pc[r] = "persist"
  /\ state' = [file |-> "ok", score |-> mem[r].score, bit |-> mem[r].bit]
  /\ lies' = lies + LieIncrement(mem[r].world)
  /\ latchAt' = IF mem[r].bit /\ latchAt = MaxRuns THEN clock ELSE latchAt
  /\ Goto(r, "sync")
  /\ UNCHANGED <<fuse, docs, last, clock, mem, bounds>>

\* sync_silicon_fuse_after_gate: a latched gate blows the fuse, again if need be.
Sync(r) ==
  /\ pc[r] = "sync"
  /\ IF fuse = "dead"
     THEN Fail(r) /\ UNCHANGED fuse
     ELSE /\ IF mem[r].bit THEN Fuse!Blow ELSE UNCHANGED fuse
          /\ mem' = [mem EXCEPT ![r].blown = (fuse' = "blown")]
          /\ Goto(r, "stamp")
  /\ UNCHANGED <<state, docs, last, clock, bounds, history>>

(***************************************************************************)
(* The receipt.                                                            *)
(***************************************************************************)

Stamp(r) ==
  /\ pc[r] = "stamp"
  /\ mem' = [mem EXCEPT ![r].ts = clock]
  /\ clock' = clock + 1
  /\ Goto(r, "seal")
  /\ UNCHANGED <<fuse, state, docs, last, bounds, history>>

\* seal_kernel_on_run; K1 to K5 hold of every gate the code emits.
Seal(r) ==
  /\ pc[r] = "seal"
  /\ mem' = [mem EXCEPT ![r].k0 = 
                       SealK0(docs, last, mem[r].cond, mem[r].world, mem[r].spent)]
  /\ Goto(r, "write")
  /\ UNCHANGED <<fuse, state, docs, last, clock, bounds, history>>

\* Mutant of ReceiptOf: a refused run keeps the current its gate allowed.
ReceiptUnrefused(m) ==
  [cond |-> m.cond, ts |-> m.ts, world |-> m.world, spent |-> m.spent, bit |-> m.bit,
   blown |-> m.blown, moved |-> m.moved, k0 |-> m.k0, allowed |-> CurrentAllowed(m.world)]

\* A kernel FAIL refuses the current.
ReceiptOf(m) ==
  [cond |-> m.cond, ts |-> m.ts, world |-> m.world, spent |-> m.spent, bit |-> m.bit,
   blown |-> m.blown, moved |-> m.moved, k0 |-> m.k0,
   allowed |-> CurrentAllowed(m.world) /\ m.k0 # "fail"]

\* The receipt replaces nothing: its name is fresh, its write atomic.
Write(r) ==
  /\ pc[r] = "write"
  /\ docs' = Append(docs, ReceiptOf(mem[r]))
  /\ Goto(r, "note")
  /\ UNCHANGED <<fuse, state, last, clock, mem, bounds, history>>

\* update_project_last_run.
Note(r) ==
  /\ pc[r] = "note"
  /\ last' = mem[r].cond
  /\ Goto(r, "idle")
  /\ mem' = [mem EXCEPT ![r] = Nothing]
  /\ UNCHANGED <<fuse, state, docs, clock, bounds, history>>

(***************************************************************************)
(* Faults: the run's process is killed; the fuse file is torn by a killed  *)
(* writer or edited by hand.                                               *)
(***************************************************************************)
Crash(r) ==
  /\ pc[r] # "idle"
  /\ faults < MaxFaults
  /\ faults' = faults + 1
  /\ Fail(r)
  /\ UNCHANGED <<fuse, state, docs, last, clock, started, history>>

FuseDies ==
  /\ faults < MaxFaults
  /\ faults' = faults + 1
  /\ Fuse!Die
  /\ UNCHANGED <<state, docs, last, clock, pc, mem, started, history>>

Step(r) == \/ \E m \in BOOLEAN : Probe(r, m)
           \/ ReadState(r) \/ Gate(r) \/ Truncate(r) \/ Persist(r) \/ Sync(r)
           \/ Stamp(r) \/ Seal(r) \/ Write(r) \/ Note(r)

Next == \/ \E r \in Runners : \/ \E c \in Conditions, w \in Worlds, j \in Joules : Begin(r, c, w, j)
                              \/ Step(r)
                              \/ Crash(r)
        \/ FuseDies

Spec == Init /\ [][Next]_vars

(***************************************************************************)
(* Properties.                                                             *)
(***************************************************************************)
Labels == {"idle", "stub", "planner", "prior", "gate", "truncate", "persist", "sync",
           "stamp", "seal", "write", "note"}

TypeOK ==
  /\ fuse \in {"intact", "blown", "dead"}
  /\ state \in StateFile
  /\ docs \in Seq(Receipt)
  /\ last \in Conditions \cup {"none"}
  /\ clock \in Nat
  /\ pc \in [Runners -> Labels]
  /\ mem \in [Runners -> Memory]
  /\ started \in 0..MaxRuns
  /\ faults \in 0..MaxFaults
  /\ lies \in Nat
  /\ latchAt \in Nat

\* Apoptosis is not pardoned: once any receipt carries the latched bit, no
\* later receipts, of whatever worlds and in whatever order they are written,
\* make the artifact exist again (sync comes before the write, and the law
\* reads the live fuse).
NoPardon == (\E i \in DOMAIN docs : docs[i].bit) => ~LawHolds(docs, fuse, FALSE)

\* Every lie counts once, and the latch goes with the count: the stored score
\* is the number of incoherent gates persisted, whatever was killed in
\* between, and the stored bit says whether it has reached the threshold.
LatchExact ==
  /\ state.file = "absent" => lies = 0
  /\ state.file = "ok" => /\ state.score = lies
                          /\ state.bit <=> (lies >= Threshold)

\* "once apoptosis latched, stays latched" (ha_physics_gate lib.rs:325): a
\* receipt stamped after a set bit was first stored carries a set bit, also
\* when the run that set it was killed before it blew the fuse.
LatchCarries == \A i \in DOMAIN docs : docs[i].ts >= latchAt => docs[i].bit

\* The stored bit is irreversible, as the file itself says
\* (physics_gate_v1.py:170): after a set bit has been stored, no clear one is.
BitIrreversible == (state.file = "ok" /\ latchAt # MaxRuns) => state.bit

\* After a receipt with the latched bit no leg of a later run moves
\* ("blown fuse blocks current", robot_os_governed_actuation_v1.py:77).
NoCurrentAfterApoptosis ==
  \A i, j \in DOMAIN docs : (i < j /\ docs[i].bit) => ~docs[j].moved

\* The later of the newest safe and the newest hostile receipt was judged
\* against the other one, and says whether that pair burns.
PairJudged ==
  \A i, j \in DOMAIN docs :
    (/\ docs[i].cond = "safe" /\ docs[j].cond = "hostile"
     /\ Latest(docs, docs[i]) /\ Latest(docs, docs[j]))
    => ((IF docs[i].ts < docs[j].ts THEN docs[j].k0 ELSE docs[i].k0) = "pass"
          <=> DualBurns(docs[i].spent, docs[j].spent,
                        PhysicsPass(docs[i].world), PhysicsPass(docs[j].world)))

\* An artifact that passes the law with --world-join rests on a pair that
\* burns, and its safe run was not refused by the kernel: a refused gate no
\* longer validates (the law never reads the kernel's seal).
JoinBurns ==
  LawHolds(docs, fuse, TRUE) =>
    \E i, j \in DOMAIN docs :
      /\ docs[i].cond = "safe" /\ docs[j].cond = "hostile"
      /\ Latest(docs, docs[i]) /\ Latest(docs, docs[j])
      /\ DualBurns(docs[i].spent, docs[j].spent,
                   PhysicsPass(docs[i].world), PhysicsPass(docs[j].world))
      /\ docs[i].k0 # "fail"

\* "K0 Dual burn attaches when peer condition run is available on the
\* project" (physics_os_kernel_v1.py:230): a run sealed without a K0 verdict
\* has no receipt of the other condition before it.
K0Attached ==
  \A j \in DOMAIN docs : docs[j].k0 = "pending" =>
    \A i \in 1..(j - 1) : docs[i].cond = docs[j].cond
=============================================================================
