------------------------------ MODULE DeskBoot ------------------------------
(***************************************************************************)
(* What a returning visitor sees: start_here_session_v1.py (the session in *)
(* two copies, the boot), desk_visitor_v1.py (the vault under the home     *)
(* directory), the active project of robot_project_desk_v1.py and the last *)
(* lines of run_project, which hand the scene of a run to both.  Requests  *)
(* come one at a time and may be killed between any two file writes; each  *)
(* write replaces its file whole (AtomicFile).                             *)
(*                                                                         *)
(* A one-shot Dual runs run_project on a project in a temporary directory  *)
(* (dual_socket_v1.py), but session and vault are the desk's own.          *)
(***************************************************************************)
EXTENDS Naturals, Sequences

CONSTANTS Robots,      \* the operator's projects
          Scenes,      \* scenes that runs leave, each with "clean" false
          OneShot,     \* a project of a one-shot Dual, deleted after it
          MaxBoots,    \* bound on open_count
          MaxScenes,   \* bound on runs that reach the scene
          Gone         \* no project, no scene

Clean == "clean"     \* the welcome scene
Demo  == "demo"      \* the built-in session's scene
Plain == "plain"     \* a session without a scene
Absent == "absent"   \* no session file
Painted == Scenes \union {Clean, Demo, Plain}

DeskBootAssumption ==
    /\ MaxBoots \in Nat \ {0} /\ MaxScenes \in Nat
    /\ Scenes \intersect {Clean, Demo, Plain, Absent} = {}
    /\ OneShot \notin Robots
    /\ Gone \notin Robots \union Painted \union {OneShot, Absent}

VARIABLES shown,    \* start_here_session_v1.json of the desk: its scene
          copy,     \* and of the runtime directory
          vault,    \* [count, scene, proj]
          chosen,   \* the active project, or Gone (never set, or cleared)
          alive,    \* projects still on disk
          job,      \* the request in progress
          runs,     \* runs that reached the scene
          lastRun,  \* the scene of the last run that returned, or Clean
          loose     \* scenes of runs killed since

vars == <<shown, copy, vault, chosen, alive, job, runs, lastRun, loose>>

Rest == [kind |-> "idle", todo |-> <<>>, scene |-> Gone, proj |-> Gone, read |-> Gone]
NoVault == [count |-> 0, scene |-> Gone, proj |-> Gone]

Init ==
    /\ shown = Absent /\ copy = Absent
    /\ vault = NoVault /\ chosen = Gone /\ alive = Robots
    /\ job = Rest /\ runs = 0
    /\ lastRun = Gone /\ loose = {}

At(step) == job.todo # <<>> /\ Head(job.todo) = step
Past == [job EXCEPT !.todo = Tail(@)]
Begin(kind, script, scene, proj) ==
    /\ job = Rest
    /\ job' = [Rest EXCEPT !.kind = kind, !.todo = script, !.scene = scene, !.proj = proj]
    /\ UNCHANGED <<shown, copy, vault, chosen, alive, loose>>

IsFirst == vault.count < 1

(* ensure_desk_boot, first open on this machine or forced clean.           *)
FirstBoot(force) ==
    /\ IsFirst \/ force
    /\ vault.count < MaxBoots
    /\ Begin("first", <<"shown", "copy", "clear", "openVault", "mark">>, Clean, Gone)
    /\ UNCHANGED <<runs, lastRun>>

(* ensure_desk_boot for a returning visitor.                               *)
ReturnBoot ==
    /\ ~IsFirst /\ vault.count < MaxBoots
    /\ Begin("return", <<"load", "mirror", "shown2", "copy2", "revive", "openVault", "mark">>, Gone, Gone)
    /\ UNCHANGED <<runs, lastRun>>

(* The tail of run_project, after the receipt is written.                  *)
RunTail(s, p) ==
    /\ runs < MaxScenes /\ p \in alive \union {OneShot}
    /\ runs' = runs + 1
    /\ Begin("run", <<"load", "mirror", "shown", "copy", "openVault", "remember">>, s, p)
    /\ UNCHANGED lastRun

ResetDemo ==
    /\ Begin("reset", <<"shown", "copy", "openVault", "remember">>, Clean, Gone)
    /\ UNCHANGED <<runs, lastRun>>

(* start_robot_preset for an open-registry robot: a session without scene. *)
StartPreset ==
    /\ Begin("preset", <<"shown", "copy">>, Plain, Gone)
    /\ UNCHANGED <<runs, lastRun>>

(* set_active_project by the operator, and prune_projects.                 *)
Activate(p) ==
    /\ job = Rest /\ p \in alive /\ chosen' = p
    /\ UNCHANGED <<shown, copy, vault, alive, job, runs, lastRun, loose>>
PruneOne(p) ==
    /\ job = Rest /\ p \in alive \ {chosen}
    /\ alive' = alive \ {p}
    /\ UNCHANGED <<shown, copy, vault, chosen, job, runs, lastRun, loose>>

-----------------------------------------------------------------------------
(* load_session: a missing session becomes the demo, written into the      *)
(* desk's copy here and into the runtime's by Mirror; one that is there is *)
(* returned as it is.  ensure_desk_boot asks the vault for a scene next.   *)
Load ==
    /\ At("load")
    /\ shown' = IF shown = Absent THEN Demo ELSE shown
    /\ job' = [job EXCEPT
         !.todo = IF shown = Absent THEN Tail(@) ELSE Tail(Tail(@)),
         !.scene = IF job.kind # "return" THEN @
                   ELSE IF vault.scene \in Scenes \union {Demo} THEN vault.scene ELSE Gone]
    /\ UNCHANGED <<copy, vault, chosen, alive, runs, lastRun, loose>>
Mirror ==
    /\ At("mirror") /\ copy' = Demo
    /\ job' = Past /\ UNCHANGED <<shown, vault, chosen, alive, runs, lastRun, loose>>

(* write_session: the desk's copy, then the runtime's.                     *)
WriteShown ==
    /\ At("shown") \/ (At("shown2") /\ job.scene # Gone)
    /\ shown' = job.scene
    /\ job' = Past /\ UNCHANGED <<copy, vault, chosen, alive, runs, lastRun, loose>>
WriteCopy ==
    /\ At("copy") \/ (At("copy2") /\ job.scene # Gone)
    /\ copy' = job.scene
    /\ job' = Past /\ UNCHANGED <<shown, vault, chosen, alive, runs, lastRun, loose>>
KeepSession ==
    /\ (At("shown2") \/ At("copy2")) /\ job.scene = Gone
    /\ job' = Past /\ UNCHANGED <<shown, copy, vault, chosen, alive, runs, lastRun, loose>>

ClearActive ==
    /\ At("clear") /\ chosen' = Gone
    /\ job' = Past /\ UNCHANGED <<shown, copy, vault, alive, runs, lastRun, loose>>

(* The active project, else the vault's last one if it is still on disk.   *)
Revived ==
    IF chosen \in alive THEN chosen
    ELSE IF vault.proj \in alive THEN vault.proj ELSE Gone
Revive ==
    /\ At("revive")
    /\ chosen' = IF Revived # Gone THEN Revived ELSE chosen
    /\ job' = [Past EXCEPT !.proj = Revived]
    /\ UNCHANGED <<shown, copy, vault, alive, runs, lastRun, loose>>

(* mark_open and remember_scene read the vault, then replace it.           *)
OpenVault ==
    /\ At("openVault")
    /\ job' = [Past EXCEPT !.read = vault]
    /\ UNCHANGED <<shown, copy, vault, chosen, alive, runs, lastRun, loose>>

SceneOfBoot == IF job.kind = "first" THEN Clean ELSE shown

Mark ==
    /\ At("mark")
    /\ vault' = [count |-> job.read.count + 1,
                 scene |-> IF SceneOfBoot = Plain THEN job.read.scene ELSE SceneOfBoot,
                 proj |-> IF job.proj = Gone THEN job.read.proj ELSE job.proj]
    /\ job' = Past /\ UNCHANGED <<shown, copy, chosen, alive, runs, lastRun, loose>>

\* Mutant of Remember: the vault keeps the scene it had.
RememberOld ==
    /\ At("remember")
    /\ vault' = [count |-> IF job.read.count < 1 THEN 1 ELSE job.read.count,
                 scene |-> IF job.read.scene = Gone THEN job.scene ELSE job.read.scene,
                 proj |-> IF job.proj = Gone THEN job.read.proj ELSE job.proj]
    /\ job' = Past /\ UNCHANGED <<shown, copy, chosen, alive, runs, lastRun, loose>>

Remember ==
    /\ At("remember")
    /\ vault' = [count |-> IF job.read.count < 1 THEN 1 ELSE job.read.count,
                 scene |-> job.scene,
                 proj |-> IF job.proj = Gone THEN job.read.proj ELSE job.proj]
    /\ job' = Past /\ UNCHANGED <<shown, copy, chosen, alive, runs, lastRun, loose>>

Finish ==
    /\ job # Rest /\ job.todo = <<>>
    /\ job' = Rest
    /\ IF job.kind \in {"run", "reset", "first"}
         THEN lastRun' = job.scene /\ loose' = {}
         ELSE UNCHANGED <<lastRun, loose>>
    /\ UNCHANGED <<shown, copy, vault, chosen, alive, runs>>

Kill ==
    /\ job # Rest
    /\ job' = Rest
    /\ loose' = loose \union (IF job.scene = Gone THEN {} ELSE {job.scene})
    /\ UNCHANGED <<shown, copy, vault, chosen, alive, runs, lastRun>>

Step == Load \/ Mirror \/ WriteShown \/ WriteCopy \/ KeepSession \/ ClearActive \/ Revive
        \/ OpenVault \/ Mark \/ Remember \/ Finish

Next ==
    \/ \E force \in BOOLEAN : FirstBoot(force)
    \/ ReturnBoot \/ ResetDemo \/ StartPreset
    \/ \E s \in Scenes, p \in Robots \union {OneShot} : RunTail(s, p)
    \/ \E p \in Robots : Activate(p) \/ PruneOne(p)
    \/ Step \/ Kill

Spec == Init /\ [][Next]_vars

-----------------------------------------------------------------------------
TypeOK ==
    /\ shown \in Painted \union {Absent} /\ copy \in Painted \union {Absent}
    /\ vault \in [count : 0..MaxBoots, scene : Painted \union {Gone},
                  proj : Robots \union {OneShot, Gone}]
    /\ chosen \in Robots \union {Gone} /\ alive \subseteq Robots
    /\ runs \in 0..MaxScenes
    /\ lastRun \in Scenes \union {Clean, Gone} /\ loose \subseteq Painted

Booted(kind) == job.kind = kind /\ job.todo = <<>>

(* "First open on this machine -> clean Start here (no leftover probe      *)
(* crater)": a boot that counts as the first one paints the clean scene in *)
(* both copies with no project selected, however often it was killed       *)
(* before.                                                                 *)
FirstOpenClean ==
    Booted("first") => shown = Clean /\ copy = Clean /\ chosen = Gone

(* No crater comes back: a returning boot shows no scene of a run unless a *)
(* run has left one since the last clean open or reset, by returning or by *)
(* being killed.                                                           *)
NoLeftover ==
    Booted("return") /\ lastRun \notin Scenes /\ loose \intersect Scenes = {} =>
        shown \notin Scenes

(* "Returning open -> restore their last desk scene": after a returning    *)
(* boot the bed shows the last run that returned, or what a request killed *)
(* since had begun to paint; a robot preset, which has no scene, is painted*)
(* with the last scene unless that was a reset killed half way.            *)
ReturnKeepsScene ==
    Booted("return") /\ lastRun \in Scenes =>
        shown \in {lastRun} \union loose \union (IF Clean \in loose THEN {Plain} ELSE {})

(* "revive last project ... if still on disk": the boot leaves a project   *)
(* selected whenever the vault names one that is still there.              *)
ReturnRevives ==
    Booted("return") /\ vault.proj \in alive => chosen \in alive

(* The boot's promises to a first and to a returning visitor.        *)
BootPromises == FirstOpenClean /\ NoLeftover /\ ReturnKeepsScene /\ ReturnRevives
=============================================================================
