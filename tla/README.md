# Verification of the production gate

This directory holds TLA+ models of the production gate: the Python package
`src/production_gate` and the Rust and C crates under `src/crates` it calls.
The modules are model-checked with TLC on small instances, and their main
properties are proved for every value of their constants with TLAPS.

## 1. The system

The gate judges whether a robot project may claim to exist as a physical
artifact. A *project* is a directory of files. A *run* of it (`run_project`)
takes one of two soil conditions, Safe or Hostile, probes a stub policy and the
regolith planner under it, computes the H6 physics gate, updates the apoptosis
latch, and writes a receipt. The *artifact existence law* reads the receipts and
the fuse and says whether the Safe/Hostile pair is lawful.

| Component | State it keeps | Operations | Talks to | Module |
|---|---|---|---|---|
| Silicon fuse (`ha_silicon_fuse`, `silicon_fuse_v1.py`) | one binary file `SE_FUSE.bin` per project: blown bit, blow count, bound body digest | ensure, status, blow, bind (with desk re-bind), current gate, require intact | each call is a process of the CLI; called by runs, by body attach, by the law | `SiliconFuse` |
| Run pipeline, physics gate and apoptosis (`robot_project_run_v1.py`, `ha_physics_gate`, `physics_gate_v1.py`) | `APOPTOSIS_v1.json`: lie score and latched bit; run receipts | run a project: probe, load, emit, persist, sync the fuse, seal, write | fuse, kernel, desk | `RunPipeline` |
| Probe: field lane, some twenty physics embeds, energy claim, failure modes, closed loop (`*_embed_v1.py`, `energy_claim_v1.py`, ...) | the Bekker row one run passes from embed to embed | attach each embed, bill its slice, judge, close the loop | run pipeline, session, body | `Probe` |
| Physics OS kernel (`physics_os_kernel_v1.py`) | none; reads the runs directory and `project.json` | seal a run: K0 against its peer, K1 to K5 on its gate | receipts, project summary | `ArtifactLaw`, `RunPipeline` |
| Artifact existence law (`ha_artifact_law`) | none | verify a project root, optionally with `--world-join` and iron attestation | receipts, fuse, body identity | `ArtifactLaw` |
| Project desk, body identity (`robot_project_desk_v1.py`, `body_identity_v1.py`) | `project.json`, `body/`, the identity artifact, two active-project files | create, attach, update last run, prune, set active | everything | `ProjectDesk` |
| Atomic file replacement (`atomic_json_v1.py`, `desk_visitor_v1.py`) | temporary files, a lock per path | write a file whole | desk, session, runs, vault | `AtomicFile`, `Register` |
| Visitor vault and start-here session (`desk_visitor_v1.py`, `start_here_session_v1.py`) | vault, session in two copies | boot, preset, reset, remember a run's scene | desk, runs | `DeskBoot` |
| Dual socket (`dual_socket_v1.py`), desk server, run log (`desk_app_v1.py`, `desk_run_log_v1.py`) | module globals, soil catalog override, a temporary root; log files and index | HTTP handlers in threads: one-shot pair, save | runs, law | `DeskServer` |
| Scheduler, stages, receipt store (`scheduler.py`, `stages_w0.py`, `receipts.py`, `nmp_kinetics.py`, `bti_calibration.py`) | run directories, manifests, ladder files, receipts, an index | run chain, write receipt, latest run | each other | `Experiments` |
| Robot OS kernel, governance, HAL, live fleet state, carriers (`robot_os_*`, `fleet_*`) | `live_fleet_state_v1.json`; a process per carrier | tick: fuse veto, rules, segment, hand-over; inject | fuse status | `RobotOs` |
| Storm and event engines (`universe_*`) | in-memory timeline | schedule, integrate, dispatch, merge | probe (its dose) | `Storm` |
| SLAM pipeline (`slam_*`) | in-memory map | events, odometry, registration, tiles, loop closure | fleet receipts | `Slam` |
| Prove ritual, release pack, binary fetch (`prove_production_gate_ritual_v1.py`, `release_engineer_pack_v1.py`, `ensure_bins_v1.py`) | kits, receipt, board, the LATEST pack, the oracle binaries | run the pair, stage, publish, pack, fetch | dual socket, law | `Ritual` |
| Energy ledger, iron attestation | files of digests | build, validate | gate, law | none |
| Physics formulas, kinematics, Clifford algebra, chip and lunar oracles | none | formulas | probe, storm, SLAM | none |
| Factory slots, desk HTML, ROS 2 bridge, fixtures | data | presentation | - | none |

What is hard in it: nothing in the repository locks a project. The C fuse is
truncated and rewritten in place; the apoptosis state is read early in a run and
written late; a run is a long sequence of file writes any of which can be the last one
before a kill; subprocesses run under a timeout that kills them; the desk
server is threaded and shares module globals, and so do the temporary names of its visitor
vault; carriers are processes over one unlocked file. `PROJECT.json` lists these
hazards at their lines, with the property that covers each, or why none does.

What makes each component correct:

- fuse: once blown, blown; the first bind wins; a torn or edited file
  lets no current through and is never healed; no false TAMPER alarm;
- gate and apoptosis: every lie counts exactly once, the latch comes exactly at
  the threshold, survives kills, and reaches the fuse;
- actuation: nothing moves after apoptosis;
- kernel and law: the pair the law rests on is the pair the kernel judged, a
  refused run supports nothing, a latched receipt is never pardoned;
- probe: a refusal made early in the chain survives to the gate; the two sides of a pair share
  out the same budget, whatever the desk session meanwhile is about;
- desk: a body that is used is the one its document, artifact, fuse and file name; the active
  project is never pruned; what an attach wrote is not lost;
- files: whoever reads one of the desk's documents reads a whole one; dual socket: a
  request computes on its own project and its own soils; run log: an index names what exists;
- experiments: an accepted run is a whole one, a dead chain hides none, a receipt filed is listed;
- robot OS: a hold moves nothing, a retried tick counts once, a carrier hands over where the next one starts;
- storm, SLAM: what is reported is what was scheduled, a PASS is earned;
- release: a pack with a MANIFEST is of one ritual and re-verifies.

## 2. Modules

| Module | Models |
|---|---|
| `FuseLatch` | what the fuse promises: a latch and a body, no files, no processes |
| `SiliconFuse` | what the C functions and the Python wrapper do, one step per file access |
| `ArtifactLaw` | the pure judgements: gate of a run, K0, the law (no variables) |
| `RunPipeline` | `run_project` on one project, one step per file or fuse access; EXTENDS `ArtifactLaw`, and uses `FuseLatch` through INSTANCE |
| `Probe` | what a run judges with: lane, embeds, claim, failure modes, closed loop |
| `Register` | what a reader of a desk file is promised: complete documents |
| `AtomicFile` | the replacement of one file, as the desk and as the vault do it |
| `ProjectDesk` | the requests that write projects and the active project |
| `DeskBoot` | boots, presets, resets and run tails over session, vault and active project |
| `DeskServer` | the desk server's requests: upload, dual socket, run log |
| `Experiments` | scheduler, stages, ladder files and receipt store |
| `RobotOs` | carriers over the live fleet state: ticks, governance, hand-over |
| `Storm` | storms: schedule, integration, hops |
| `Slam` | the layers behind the Clifford bind, L1 to L5 |
| `Ritual` | ritual, publication, release pack, fetch of the binaries |
| `Files` | the desk's files together: `AtomicFile`, `ProjectDesk`, `DeskBoot` |
| `Parts` | the components that share no state, together: `Experiments` and seven instances |
| `SiliconFuseProofs`, `RunPipelineProofs`, `DeskServerProofs`, `ProjectDeskProofs`, `RobotOsProofs`, `RitualProofs` | theorems about one module |
| `FilesProofs`, `PartsProofs` | theorems about `AtomicFile` and `DeskBoot`, about `Experiments`, `Probe`, `Storm` and `Slam`, and about the two compositions |
| `MCSiliconFuse`, `MCRunPipeline`, `MCDeskServer`, `MCStorm`, `MCFiles`, `MCParts` | instances for TLC |

### Files and Parts

Each holds several components that share no file. A behaviour picks one part at its start
(`part`) and steps it; the other parts rest in their initial states. The constants and variables
of an instance carry its part's name (`deskDisk`, `caveTiles`). A component with a proof module is
instanced with it, so that `Desk!Attested` and its theorem are both there; the others are proved about
under their instance's name. What TLC checks on `Parts` and what is proved of it are therefore the
same formulas.

### SiliconFuse

`file` says whether `SE_FUSE.bin` is absent, torn (truncated, or short) or
full, `blob` what is in it. A caller of `silicon_fuse_v1.py` is a *script* of
CLI processes (`todo[c]`): `ensure_silicon_fuse` is `<<ensure, status>>`,
`blow_silicon_fuse` is `<<blow, confirm>>` and so on; a desk re-bind is the
script with the status check and the unlink. One process runs at a time per
caller, its position is `pc[c]`, the `ha_fuse_blob_t` on its stack `buf[c]`.
`OpenAbsent`, `OpenPresent`, `Check`, `Read`, `Truncate`, `WriteOut`, `Flush` are the
`fopen`, `fread`, `fwrite` and `fclose` of the C functions. `Read` is `ha_fuse_read`: it fails
if another process has truncated the file since the ensure, else what it does next
depends on the command (`ReadStatus`, `ReadBlow`, `ReadBind`, `ReadBound`). `Crash` kills a caller between any two of them: the wrapper runs the
CLI under a timeout. `HandClear` is the hand edit the format defends against
(blown bit cleared, count kept). `Overlap` says whether two callers may be under
way at once. The magic, the version and the lie score in the file are left out:
a full file is one the code wrote.

The refinement maps the latch to "blown" or "intact" as the blob says, to
"dead" when the file is unreadable, and a file that is absent or about to be written by its creator to
an intact, unbound latch. `ImplementsLatch` is FuseLatch's specification under
this map.

### ArtifactLaw and RunPipeline

What a run meets is one of three *worlds*: `clear`; `soil` (sinkage or no
feasible traverse: the planner proposes to recover); `mode` (a failure mode the
planner does not look at: it traverses and the gate's physics fails). Only `mode`
is incoherent, so only it is a lie. Energies are members of a small set; K0
only compares them.

The state is the fuse (an instance of FuseLatch), `APOPTOSIS_v1.json`
(`state`: absent, torn or ok, its score and bit), the receipts in the order of
their mtimes (`docs`), `project.json`'s last run (`last`), the wall clock
(`clock`, one tick per timestamp: the code stamps in microseconds), and for
each runner where it is and what it holds. The actions follow the source in
order: `Begin` (ensure the fuse), `Probe` twice (each leg loads the fuse's
status and ticks), `ReadState`, `Gate` (the fuse's status again, then emit),
`Truncate` and `Persist` (Python's `write_text` truncates first), `Sync` (blow
if latched), `Stamp`, `Seal` (K0 and refusal), `Write` (an atomic replace),
`Note`. `Crash` kills a run anywhere; `FuseDies` is a torn or edited fuse file.
The score is a count: the source adds 0.0 or 1.0, which are exact.

The fuse appears as FuseLatch rather than as SiliconFuse: SiliconFuse
implements it when its calls do not overlap (proved). With overlapping calls the
fuse itself can be unblown (run `fuse_unblown`), so what the overlapping
pipeline run shows is what the pipeline adds on top of a fuse that keeps its
promise. Body binding does not take part in a run and is not in RunPipeline.

### DeskServer

A request of the threaded desk server is the walk of one thread through
`POST /api/dual` or `POST /api/runs/save`. `pc[t]` is the next step and `mem[t]` the local
variables; everything else is shared: the uploaded pack (`upload`) and the materialized
catalog (`catalog`), each one file for all requests; the module globals
`_CATALOG_OVERRIDE` (`override`) and `desk._PROJECTS` (`root`); the projects in the
temporary roots (`projects`); the latest receipt and board (`latest`); the run log
(`files`, `index`, `readable`). `Upload`, `Load`, `Enter`, `SetRoot`,
`Create`, `Attach`, `Materialize`, `Point`, `Bind`, `Evaluate` and `Record` (once per soil),
`Leave`, `Restore` and `Publish` follow `run_dual_socket` and what it calls; `WriteRow`,
`ReadIndex`, `Prune`, `WriteIndex` are `save_run`. A `write_text` is a truncation and a
fill. An exception (`Raise`) goes through the `finally` clause; the handler
turns it into a 500. `Kill` ends the process; files and temporary roots stay.

What a soil is evaluated on is a pack, not a number: `boards` remembers, per answer, the
client's pack and the packs its two soils were evaluated on. A run of a project is
two steps here (what it reads of the project and the catalog, and the summary it writes at
its end); the rest of it is RunPipeline's, which works in the request's own directory.
The packs use the template's soil ids, so the desk page uploads them under one name. Bodies
are presets: an uploaded URDF has the same shared-name hazard as an upload of soils.
Two fills of one file are one after the other (texts of one length).

### AtomicFile and Register

A name points to an inode (`path` the document's, `temp` the temporary ones), an open
descriptor (`fd`) to the inode it was opened on. `Enter` takes the lock of the path, `Open` and
`Fill` are the `write_text` of the temporary file, `Move` is the `os.replace`; on Windows a foreign
reader (`Hold`) may have the destination open: `Refused` sleeps and tries again,
`GiveUp` removes the temporary file and raises. `private` says whose code it is:
`atomic_json_v1.py` (a lock per path, a uuid in the temporary name, `Retries` attempts) or the
visitor vault (no lock, one attempt, a temporary name per process that threads share).
`Kill` drops a writer with its lock and leaves its files. `Register` holds a
complete document; the refinement maps its value to `inode[path]` for `atomic_json`. The vault is
not a register: `TornIsBeingFilled` says how much less it is.

### ProjectDesk

A request is a script of file steps (`Scripts`), in the order of the code: storing the upload,
compiling, copying, the manifest, certifying (two steps: the artifact is emptied, then filled),
binding the fuse, reading `project.json`, the receipt, writing it back, the active
project and its twin, ranking and deleting for the prune, making the directory. `Answer`
ends a request, `Raise` ends it where the code raises (`Raises`: a module that is not in the
repository, a body that does not compile, a project gone, a blown fuse bound to another body, a
lane without body), `Kill` anywhere. `Delete` is `shutil.rmtree`, one step per entry in any order
(the document, the body files, last the directory), so that a kill leaves part of a project behind. `BlowFuse` is a run that trips apoptosis. A body is its own digest; what the URDF compiler
says of it is a constant (`Malformed`). `settled`, `kept` and `tangled` are history: which projects had
an attach that returned, what it wrote, whether two requests were ever under way at once.

### DeskBoot

The session in its two copies (`shown`, `copy`), the vault, the active project (`chosen`) and one
request at a time (`job`, a script of whole-file writes): `FirstBoot`, `ReturnBoot`, `RunTail` (the last
lines of `run_project`, also those of a one-shot Dual, which hands its scene to the same session),
`ResetDemo`, `StartPreset`. A missing session is replaced in both copies, a write each (`Load`, `Mirror`). `Activate` and `PruneOne` are the operator's. `Kill` stops a
request between two writes. `runs`, `lastRun` and `loose` are history.

### Experiments

`run_chain` is `mkdir`, twice a stage with a buffered log line before and after, closing the log, the state,
the manifest (opened, filled); `ReceiptStore.write` is the receipt, its companion, the index read
and written back; the ladder files are opened and filled. What a stage says of a
workload is an operator (`SpAf`, `Bti`) over the signs the code tests and the ladder file it
finds; a stage that divides by zero raises. `Latest` is `latest_run_dir`, `Listed` is `list_ids`; mtimes are the relation
`newer` between run directories, as far as a reader can tell them apart.
Two workers overlap; `Kill` anywhere. `tangled` and `last` (the last run a chain returned) are history.

### Probe

The row of a run goes through `Chain`: one operator per embed module, in the order `run_project` attaches
them. An embed compares its metric with the peer's, takes its `Share` of a
`Slice` (`dual_share_spent_j`), and marks the row when it refuses. Then `Claim`, the planner's and the stub's
proposals, `Modes` (the failure modes, the drawbar deficit included), `Lie`, `LoopOk`. What is measured (`atlas`) is an input: any
world of the configuration. The source's shares are floating-point quotients; here they are whole, because
`ProbeAssumption` takes worlds whose metrics divide the slice. `Start`, `Judge` (the gate, which stores the lie before a receipt
exists), `File`, `GraspRaises` (a manipulator's grasp step imports an absent module after
the lie is stored) are the run; `SetSession` and `BindField` change lanes around it.

### RobotOs

`live` is `live_fleet_state_v1.json`, `proc[c]` what a carrier's process has read and not yet written.
`Look` reads whether it is due, `Read` reads again and ticks a copy, `Write` replaces the file without
comparing versions, `Refused` is a refused write or replacement (`update_state` drops the draft, reads again
and runs the tick again, up to its retries), `Raise` takes the process with it, `Kill` is a kill or the end of `max_seconds`. A tick is
`TickState`: budget, proposal, rules in order, veto and hold, integrator step, hardware layer, wear bus, end of segment.
`Arm` is the coordinator, which is not in the repository: it arms the first carrier and each next one when the packet before it is there, which is how the kernel's segments and packets fit together.

### Storm, Slam, Ritual

`Storm`: `Schedule` draws the windows and sorts them, `TimeStep` is `integrate_laws` (light, heat, dust and dose of one step),
`Baseline` the sequential composition, `Hop` the dispatch of one event, `Conclude` the verdict; `MergeHop` and
`MergeConclude` are the second composer. Time has two ticks per step, so that windows start between samples. In `MergeHop`
a macro or cosmic event whose handler returns no delta of its own ends in the last branch of `event_state_delta`, which makes a flare
of what it measured (`Brightening`): it may raise the flare, never lower it. `Radiated` takes `dose_rate_scale` as 1: no event of the
catalog and no storm profile carries the key.

`Slam`: `Sense`, `Encode`, `Register` or `Hand`, `Compose`, `Walk`, `Close`, `Judge` are L1 to L5 and the verdict, on a
line of whole units. The source spreads the closing error over the loop in floating point; `SlamAssumption` takes noise and
strides that spread out in whole units. `Tiling` fills the tiles in the order of the points and, like
`build_tiles_from_points`, leaves out what finds its tile full (`TileCap`); `SlamAssumption` takes worlds whose landmarks fit one tile, as the
240 points of the built-in dataset fit `MAX_TILE_POINTS` = 512, and `MapEarned` asks that none was dropped.

`Ritual`: `StartRitual` is the Dual and the plan of files to write, `Open` and `Fill` write the next, `Remove` empties a
directory file by file, `Conclude` publishes, `StagePack` fills the release pack, `StartFetch` and `EndFetch` are
`ensure_bins`, `Kill` stops the process between two of them.

## 3. Runs

| Run | Instance | Shows |
|---|---|---|
| `fuse_serial` | two callers, two bodies, calls one after the other, kills and hand edits | the latch, the bind, the blow's report, no false TAMPER, no healing, and the refinement of FuseLatch |
| `fuse_unblown` | a bind and a blow that overlap | violation: the bind writes its stale, unblown blob back |
| `fuse_swapped` | two binds that overlap | violation: the second replaces the digest the first locked |
| `pipeline_serial` | 3 runs one after the other, 2 faults, threshold 2, 2 energies | exact lie count and latch, latch across kills, nothing moves after apoptosis, the kernel judged the law's pair |
| `pipeline_overlap` | 2 runners, 3 runs that may overlap, 1 fault, threshold 1 | no pardon; the join law |
| `pipeline_forgets` | 2 runs that overlap, no fault | violation: a clear bit is stored over a set one |
| `kernel_blind` | 4 runs, scan limit 2 | violation: K0 pending though the peer receipt exists |
| `desk_serial` | 4 requests one after the other, 2 packs or none, failures, 1 kill, a log of 2 rows | every board is about its client's pack; the desk's own root is never worked in; the override goes back; the log keeps its rows and their files |
| `desk_mixed` | 2 requests that overlap, no kill | violation: a client gets the numbers of the other's soils |
| `files` | one of: a file with 2 writers and a foreign holder; a desk of 3 projects and 3 bodies, 4 requests; boots of one robot with 2 scenes; 1 kill each | whole documents and how torn the vault can be; a body that is used is the attested one; the active project lives; attaches are kept; the boot's promises; every write ends; `AtomicFile` implements `Register` |
| `parts` | one of eight parts (below) | the properties of the parts that share no state |
| `sun_lost` | storms of up to 2 events, horizon 4 | violation: the light of a step is the base of the next, so the sun does not come back after an eclipse |

`files` and `parts` hold several instances: a behaviour picks one part at its start, the other parts
stay in their initial state. The state space is the sum of the parts', not their product, and
nothing is claimed about parts together; they share no file. The parts of `parts`:

| Part | Instance |
|---|---|
| fuse | `SiliconFuse`, two overlapping callers without bind on a file that exists: blown stays blown, no false TAMPER (`OverlapHolds`) |
| server | `DeskServer`, two overlapping requests, 1 kill: the desk's own root is not worked in (`OverlapHolds`) |
| lab | `Experiments`, two workers, run ids and receipt ids, 4 workloads, 2 calls, 1 kill (`ChainsTold`, `FiledIsListed`) |
| field | `Probe`, two lanes, 2 probes; every world that differs from a plain one in one metric or one finding (`JudgedAsMeasured`, `SidesPartition`) |
| fleet | `RobotOs`, two carriers, 4 ticks a segment, 1 exit; eleven configurations that each change one thing (`HandoffEarned`, `VetoHolds`, `TicksOnce`) |
| sky | `Storm`, nine kinds of event, horizon 4, 2 events a storm (`ScheduleFollowed`) |
| release | `Ritual`, two rituals, 1 kill (`PackReverifies`) |
| cave | `Slam`, three landmarks, 2 registrations, a loop of three poses out (`SlamSound`) |

### Bounds, and why they are enough

- `Threshold` is 3 in the code and 2 in `pipeline_serial`, so that a score below, at and
  above it is reached within `MaxRuns` = 3 runs. In `pipeline_overlap` it is 1: the run that
  latches needs two others, stamped after it, that know nothing of it. The proofs hold for
  any positive threshold.
- `ScanLimit` is the code's 12 in the passing runs, which never have that many receipts;
  `kernel_blind` scales it to 2 so that four runs exceed it.
- `MaxCount` stands for `0xffffffff` and is small enough to be reached.
- `MaxRuns`, `MaxFaults` and the bounds of `SiliconFuse` on calls and kills are counters
  in guards. Three runs are enough for a safe, a hostile and one more in any
  order; two faults for a kill on both sides of a run. The proofs have no such
  bound.
- `Keep` is 40 in the code and 2 in the runs: four saves fill the log and cut it
  twice, and a cut row was acknowledged at least two requests before. The proofs hold for any `Keep`.
- Two callers or runners: a lost update takes two. Runners are symmetric and
  `pipeline_overlap` uses that.
- `Retries` is 12 in the code and 2 in `files`: one retry is the case, its number is not. The
  proofs hold for any. `Limit` and `Keep` are 120 and 40 in the code and 1 and 1 in `files`: a third project
  prunes the second or the first, whichever is not active.
- The desk of `files` serves one request at a time: `AttachKept` is about requests that do not
  overlap, since the code locks nothing between read and write; a killed request still overlaps the next
  in what it leaves. Three bodies: two share a file name, one is malformed.
- `Slice` = 12 divides by every sum of two metrics of the instance, so that shares are whole.
- One kill each: every property about a kill compares what one request left with what
  the next finds; in `release`, the second ritual follows a killed first.
- A zone of the envelope at 7 and a relay of twice four units: the second carrier meets a
  rule in the middle of its segment.
- In `sky`, spans of 2 to 4 ticks and one of 12 against a horizon of 8: windows between
  samples, nested, equal, and longer than the horizon.

### Fairness

Only `files` assumes any: weak fairness of a writer's `Step` (`AtomicFile`), since a thread that is not
killed keeps running. Nothing else is fair: nobody has to write, and a foreign reader may hold a file
for ever. `WritesEnd` then says that the bounded retry inside the path's lock ends. That a request of the project desk ends is not stated: its
handlers are straight lines of file accesses, so nothing of the code could break it but a single access that never returns.

Everywhere else a caller may stop for ever and all properties are safety properties.
Deadlock is not checked where a bound on calls or runs lets the system end.

### What the violations mean

The first four need a project used by two processes at once, or more than twelve runs
of one condition; the fifth needs two requests at once to one desk server. The callers in this repository (dual socket, prove ritual,
start-here session) run one at a time on a project of their own; a desk server and a command line
on the same project are not kept apart by anything. In
`sun_lost`, `integrate_laws` hands the environment of one step to `combine_active_solar_bc` of the next, which
takes its illumination as the base to dim: an eclipse active for two samples dims twice, and
the light stays where the last dimming left it. `PROJECT.json` quotes the
line each violation contradicts.

## 4. Theorems

`SiliconFuseProofs`, for any callers, bodies, saturation count and bounds:

- `TypeCorrect` and `NoFalseTamper` for any interleaving. The latter needs that
  every blob, on disk or on a stack, is coherent (count zero or bit set) unless
  a hand edit happened.
- `SerialStaysBlown`, `SerialNoSwap`, `SerialBlowSticks`,
  `SerialImplementsLatch` under `~Overlap`. The invariant says that at most one caller is
  under way, that what its process holds agrees with the file, and that the remaining script
  is *planned*: an unlink is preceded by the intact check, a confirm by its blow.
  None of the four is inductive alone, because a stale stack could be written.
- `OverlapStaysBlown`, with overlapping calls: if nobody binds and the file exists, a blown fuse stays blown. Its
  invariant says that whoever is about to write a blob that is not blown would have to be a bind or the
  creator of an absent file.
- `SerialTamperStays` under `~Overlap`, from the same invariant: who takes the file away found
  it coherent, and nobody edited it in between.

`RunPipelineProofs`, for any runners, runs, faults, threshold and scan limit:

- `PipelineTypes`, for any interleaving.
- `ApoptosisIsNotPardoned`, for any interleaving. The inductive invariant `Marked` says
  that a set bit on a receipt, or in the memory of a run past the sync, has a fuse that is
  not intact; it holds because the sync comes before the stamp, and a latch
  never returns to intact.
- `JoinRestsOnBurn`, for any interleaving, from `Refused` (a receipt allows the
  current exactly if its gate does and the kernel did not refuse) and from the
  worlds a lawful joined pair can have met (`JoinedWorlds`).
- `SerialLatchIsExact` and `SerialLatchCarries` under `~Overlap`, from `SerialInv`:
  one run under way; the file, and the memory of that run before and after it
  persists, agree with the history (`FileExact`, `MemoryExact`); a blown fuse
  implies a latched history; a run that is not stamped has not used its clock tick, so no
  older receipt is stamped at or after the latch (`ClockBound`, `LatchTime`, `Carried`).
- `SerialApoptosisStops` under `~Overlap`, from `Stopped` and `Marked`.
- `SerialPairIsJudged` under `~Overlap` and `MaxRuns <= ScanLimit`: the peer the kernel judged a sealed run against is
  the law's, as long as no more receipts exist than the kernel scans (`kernel_blind` shows what
  happens beyond). From `Counted` (no more receipts than runs started), `Ordered` (the
  receipts lie in the order of their stamps, all older than the run under way) and `Judged` (what the seal holds
  and what each receipt says of its peer).

`DeskServerProofs`, for any threads, packs, bounds and length of the log:

- `DeskTypes` and `DeskIsUntouched`, for any interleaving. The first needs `Stocked` (a
  pack is stored before it is read, and what is stored never becomes absent), the
  second `Rooted` (the globals point at some request's root when a project is made, because
  nothing but a restart points them back).
- `SerialOwnSoils` and `SerialOverrideBack` under `~Overlap`, from `SerialInv`: one request
  is under way (`Alone`), the override is its own (`Overridden`), its project is where
  the desk looks for it (`Placed`), and what it has stored, bound and evaluated is
  its client's pack (`OwnPack`, `OwnNumbers`).
- `SerialRowKept` and `SerialIndexFiles` under `~Overlap`, from `LogInv`: the index is
  descending, and so is the list the request holds, which is the old index with its
  own row at the head, cut to `Keep` (`Pushed`, `Rows`); only a save between
  its prune and its index, or killed there, leaves a row without its file (`Filed`).

`FilesProofs`, for any writers, texts, retries, robots and scenes, with kills and any interleaving:

- `FileTypes`.
- `AtomicImplementsRegister`: `atomic_json` implements `Register`, so a reader never sees half a
  document. The invariant says that who fills has a file open (`OpenWhileFilling`), that a half
  document is in the file somebody is filling or was killed filling, never under the real name (`HalfIsBeingFilled`), that
  each temporary file has one name and is its writer's (`OneName`), and that what is moved is whole (`Complete`);
  the last two hold of `atomic_json` only.
- `TornOnlyWhileFilled`: the same invariant gives what the vault keeps.
- `NoWriteGrows`: each step of a write takes something off what it still has to do (open, fill, the attempts `_atomic_replace`
  has left), whoever holds the destination. It is the half of `WritesEnd` that is a safety property.
- `BootsKeepPromises`, of `DeskBoot`: a first visitor gets a clean desk, a returning one the scene and the project they
  left. `BootInv` says for each kind of request what is left of its script and what it has then
  written (`FirstOk` to `PresetOk`), and that no session and no vault names a scene but those somebody is owed: the
  last run's, those of requests killed since, and that of the request at work (`NoneElse`). The promises
  alone are not inductive: they say nothing of a request between two writes.
- `FilesTypes`, `FilesAttested`, `FilesAttachKept`, `FilesActiveAlive`, `VisitorPromisesKept`: the properties of the run `files`.
  `FilesIsParts` shows that a behaviour of the composition is one of each part, since a part that is not stepped stutters.

`PartsProofs`, for any workers, run ids, workloads, worlds, landmarks and bounds:

- `AcceptedRunsAreWhole`, of `Experiments`: a run that `validate_f2` accepts is a whole one. What is left of a chain's script is an
  end of it (`CallsOk`), which fixes what the chain has left in its directory (`Progress`), and a
  directory has one owner past its `mkdir`, which fails for a second chain (`OneOwner`).
- `LabPromises`: that, the types, `HidesNothing`, `VerdictEarned` and `FiledIsListed`, with kills and any interleaving (the
  two that need it speak of calls that did not overlap). `LabInv` adds what each call holds (`CallsFit`), that
  `newer` is asymmetric, and while nothing was `tangled`: the chain about to fill its manifest has the
  newest directory with one (`PendingNewest`), the last run is found or what hides it is torn by a
  kill (`LastFound`), and an index that is whole lists every receipt filed (`Listing`).
- `ProbePromises`, of `Probe`: types, `JudgedAsMeasured` and `SidesPartition`. Every embed module has a lemma: it keeps what
  the row already says (`Judges`) and adds its blocks (`Follows`); the lemmas compose along `Chain`. `ProbeInv` says that a
  receipt tells the judgement of the chain of its lane.
- `SlamPromises`, of `Slam`: types and `SlamSound`. `SlamInv` says that the walk is made of whole shares, that the map is the tiling of the
  landmarks as the motor places them, and that the correction is the one of the walk's candidate.
- `StormPromises`, of `Storm`: types, `FieldsFollowSchedule` and `OverlapSeen`. The model's products and sums are folds that
  take the elements of a set in an unspecified order. `FoldExists` and `FoldIs` show once, with the operation a function, that
  a fold of a commuting operation has a value and that any order computes it; from there a sum grows by what is added
  (`SumGrows`), the light stays a fraction of the full one (`SkyDimmed`), and a flare stays in its band. `SkyInv` adds the place in
  the walk (`SkyWalk`) and that the peak is the largest of the samples taken so far (`SkySamples`): two windows that
  meet for a step share a sample (`MeetSample`), the windows of a sample are all open at the latest of their starts.
- `OverlapIsHarmless`, `HandoffsAreEarned`, `VetoesHold`, `TicksCountOnce`, `PacksReverify`, `ChainsAreTold`, `FiledAreListed`, `RefusalsStick`,
  `SidesShareOut`, `CavesAreMapped`, `SchedulesAreFollowed`, `PartsTypes`: the properties of the run `parts`, from the
  theorems of the instances and `PartsIsParts`.

`RitualProofs`, for any number of rituals, packs, fetches and kills:

- `PackAlwaysReverifies`: a pack with a MANIFEST is of one ritual. The plan is an end of its phase's script
  (`OnScript`); what each finished write has left on disk (`Staged`, `Mirrored`, `Announced`, `Packed`)
  gives what the next one copies; LATEST has no MANIFEST while it is emptied and
  until the last file but it is there (`ManifestLast`), which is what a kill would break.
- `RitualTypes`, by `Held`: every write that is planned goes to a file of the three directories and carries a document
  of a ritual that was started.

`RobotOsProofs`, for any relay of carriers, ticks, strides and kills, kernels interleaving:

- `HandoffIsEarned`. The invariant ties a slot's cursor, ticks, phase and packet together (`Ways`), says that
  who has started has a packet from everyone ahead (`Ordered`), and that only a carrier that is due is between its
  look and its write, its draft being one tick of the state that is live (`Drafts`). A packet ends its owner's ticks, so
  at most one carrier is due: the file is replaced with no compare, and nothing is lost.
- `NoTickTwice`, from the same invariant: the draft is one tick of the live state, however often it was refused and made again, so
  a write counts one tick at most, moves its carrier by that tick, and undoes nothing of another carrier.
- `VetoIsHeld`, from the same invariant: the draft of a write that follows a veto changes only its own carrier's slot.
- `FleetTypes`, by `Counted`: a draft is written one past the version it was read at, whatever was injected since, and
  counts one action more at most, so that the actions never outrun the versions.

`ProjectDeskProofs`, for any projects, bodies, file names, threads and bounds:

- `DeskTypes`, for any interleaving and kills, with `Scripted`: what is left of a request is an end of its script.
- `BodyIsAttested`. `GateCatches`, for any interleaving, from `Named`: a file holds a body stored under that name, and a
  document's digest is of a body of that name. `SettledAgrees`, under `~tangled`, from `Serial`: the next step of
  the one request under way finds what the steps before it left (`Found`), the last one leaves what the
  answer claims (`Left`), and every directory says so of itself (`Sound`). A script is told by which step may follow
  which (`Follows`), so that the invariant speaks of the next step only.
- `AttachIsKept` and `ActiveIsAlive`, from the same invariant; the second part of `ActiveAlive` from `Chosen`, for any interleaving.

The assumptions are those of the modules, and TLC evaluates each on a run: bounds are naturals, thresholds
and limits positive, names distinct, `None` no state of a file, no carrier twice in a relay, an eclipse of at most all
the light (the code caps the drop at 1), a flare band that starts at 1 (`_FLARE_BAND`), the metrics of a world and
the noise of a walk as above. `PartsAssumption` and `FilesAssumption` state those of the instances.

Only model-checked: liveness (`WritesEnd`) under fairness, which is outside what the proof
system does (`NoWriteGrows` proves the measure that shrinks, not that a step is taken); that `Storm`'s `Schedule` finds an order for every draw, which is ENABLED; and that the properties refuted by
the runs that expect a violation are refuted.

## 5. Not modelled, and notes from the source

- `artifact_existence_law_v1.py:151` imports `production_gate.artifact_law_v1`, which is not
  in the repository; the law is modelled from the Rust crate.
- Between persist and blow, a killed run leaves the latch in the state file only. The law
  does not read that file: until the next run blows the fuse, a pair from before stays
  lawful. `LatchCarries` shows that the next receipt carries the bit.
- `run_dual_socket` never points `desk._PROJECTS` back; nothing the desk server does
  afterwards uses it, and a second request sets it again. When requests overlap, the override may
  also stay on after the last of them: each restores what it found. The next dual clears it.
- A kill between the truncation and the fill of the log's index leaves a file that no later save
  can read: every dual then answers an error after it has written its receipt. `RowKept`
  is about a readable index.
- The law does not read the kernel's seal; a refusal reaches it through `current_allowed`.
- `evaluate_artifact_existence` is documented not to raise, but a `SiliconFuseError` of its
  ensure is not among the exceptions it catches (`:156-159`).
- Modules that the code imports and the repository does not hold, so that whatever reaches them raises, or is
  an input of a model: `policy_port_contract_v1`, `start_here_replay_v1`, `fleet_state_contract_v1`, `examples.*`,
  `appendage_robot_create_cli_v1`, `rolling_kinematics_crown`, `wheeled_chassis`, `artifact_law_v1`,
  `lie_integrator_backend_native`, `slam_pose_dq`, `cga32`, `universe_backend_native`, `rocket_*`,
  `slam_mission_energy_ledger`, `lunar_weather_nowcast`, `synthetic_actuator_link`.
- Formulas in floating point (what an embed measures, kinematics, Clifford algebra, chip and lunar oracles) have no
  protocol state. Where a run asks one, its answer is an input of `Probe`, `RobotOs`, `Storm` or `Slam`.
- The energy ledger and the iron attestation are functions of one receipt. Factory slots are
  one file that tools run by hand set. HTML, the ROS 2 export, fixtures and results are presentation and data.
- The log of the desk server is read, changed and written back without a lock, and its index is truncated in place: two
  saves at once lose a row, and a kill in between loses the index. No property covers the two: the code does so, and no line of
  the repository promises otherwise. The serial properties of the log are proved.
- A carrier that `robot_os_kernel_v1.py:258` sent to recover leaves that phase only by the end of its
  segment; `HandoffEarned` is stated for that.
- `ensure_bins_v1.py:60` takes any file for a binary: one torn by a killed download is kept until a forced fetch.
- A bootstrap that is killed between its project and its attach leaves a project without a body.
- Components of section 1 marked "none" are those that hold no state; the parts of the others
  that no module has are named in the notes of `PROJECT.json`.

## 6. Plan

1. Done: all modules of section 2, composed where they share state (`RunPipeline` with `FuseLatch`, `DeskServer` with
   runs and log), and proofs of every safety property the passing runs check.
2. `DeskServer` with uploaded URDF bodies and contact overrides, and with an abstract
   specification of the request: a function of its own pack.
3. `ProjectDesk` with two threads in a run of its own, and the run of a project as one of its requests.
