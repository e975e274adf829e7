------------------------------- MODULE Ritual ------------------------------
(***************************************************************************)
(* ha-production-gate, ha-release-engineer-pack and ha-ensure-bins         *)
(* (prove_production_gate_ritual_v1.py, release_engineer_pack_v1.py,       *)
(* ensure_bins_v1.py): a ritual runs the Dual, stages a kit, mirrors it    *)
(* under kits/LATEST and publishes its receipt and board; a pack runs a    *)
(* ritual and copies what was published into release_engineer/LATEST.      *)
(*                                                                         *)
(* One process at a time, which may be killed between two file             *)
(* operations.  A file is opened, which truncates it, and then filled; a   *)
(* directory is removed file by file.                                      *)
(***************************************************************************)
EXTENDS Naturals, Sequences

CONSTANTS MaxRituals,  \* bound: rituals started
          MaxKills     \* bound: kills

RitualAssumption == MaxRituals \in Nat /\ MaxKills \in Nat

Mirror == {"kit_safe", "kit_hostile", "kit_gate"}
Latest == {"pack_gate", "pack_board", "pack_safe", "pack_hostile", "pack_kit_gate",
           "pack_manifest"}
Places == Mirror \union Latest \union {"receipt", "board", "release"}

(* What a file holds: the ritual it is of, what kind of document, and what *)
(* it says (a Dual receipt: as the ritual requires; a document: PASS).     *)
Content(run, what, good) == [run |-> run, what |-> what, good |-> good]
Absent == Content(0, "absent", FALSE)
Torn == Content(0, "torn", FALSE)
Contents == [run : 0 .. MaxRituals, good : BOOLEAN,
             what : {"absent", "torn", "dual", "draft", "final", "manifest"}]

VARIABLES disk,      \* Places -> Contents
          bins,      \* the oracle binaries under target/release
          phase,     \* what the process does
          job,       \* its ritual: [run, write, pack, good]
          clearing,  \* files of a directory it still has to remove
          plan,      \* writes it still has to do, in order
          open,      \* is the first of them open?
          kills

vars == <<disk, bins, phase, job, clearing, plan, open, kills>>

NoJob == [run |-> 0, write |-> FALSE, pack |-> FALSE,
          good |-> [dual |-> TRUE, seal |-> TRUE, other |-> TRUE]]

Put(place, content) == [to |-> place, from |-> place, content |-> content]
Copy(place, source) == [to |-> place, from |-> source, content |-> Absent]

Present(places) == {p \in places : disk[p] # Absent}

Init ==
    /\ disk = [p \in Places |-> Absent] /\ bins \in {"absent", "whole"}
    /\ phase = "idle" /\ job = NoJob /\ clearing = {} /\ plan = <<>> /\ open = FALSE
    /\ kills = 0

-----------------------------------------------------------------------------
(* ensure_bins: bins that are files count as present, whole or not; a      *)
(* forced or needed download opens each one for writing.                   *)
StartFetch ==
    /\ phase = "idle"
    /\ \E force \in BOOLEAN : force \/ bins = "absent"
    /\ phase' = "fetch" /\ bins' = "torn"
    /\ UNCHANGED <<disk, job, clearing, plan, open, kills>>

EndFetch ==
    /\ phase = "fetch"
    /\ phase' = "idle" /\ bins' = "whole"
    /\ UNCHANGED <<disk, job, clearing, plan, open, kills>>

(* The kit: both Dual receipts and the board document, without a verdict.  *)
Kit(run, good) ==
    <<Put("kit_safe", Content(run, "dual", good.dual /\ good.seal)),
      Put("kit_hostile", Content(run, "dual", good.dual /\ good.seal)),
      Put("kit_gate", Content(run, "draft", FALSE))>>

(* run_production_gate_ritual up to _stage_kit.  run_project raises unless *)
(* the oracles run; nothing is staged then.                                *)
StartRitual ==
    /\ phase = "idle" /\ bins = "whole" /\ job.run < MaxRituals
    /\ \E write, pack, dual, seal, other \in BOOLEAN :
         /\ pack => write
         /\ job' = [run |-> job.run + 1, write |-> write, pack |-> pack,
                    good |-> [dual |-> dual, seal |-> seal, other |-> other]]
    /\ plan' = Kit(job'.run, job'.good)
    /\ clearing' = Present(Mirror)
    /\ phase' = "staging"
    /\ UNCHANGED <<disk, bins, open, kills>>

(* F_kit_outside_repo_reverify reads the kit again; the ritual passes when *)
(* every case does.                                                        *)
Reverified == job.good.dual /\ job.good.seal
Ok == Reverified /\ job.good.other

(* The receipt, the board, and the mirror's document once more.            *)
Published(run, ok) ==
    <<Put("receipt", Content(run, "final", ok)), Put("board", Content(run, "final", ok)),
      Put("kit_gate", Content(run, "final", ok))>>

Conclude ==
    /\ phase = "staging" /\ clearing = {} /\ plan = <<>>
    /\ phase' = IF job.write THEN "publishing" ELSE "idle"
    /\ plan' = IF job.write THEN Published(job.run, Ok) ELSE <<>>
    /\ UNCHANGED <<disk, bins, job, clearing, open, kills>>

(* build_release_engineer_pack: LATEST is removed, then filled; MANIFEST   *)
(* comes last.                                                             *)
Pack(run, ok) ==
    <<Copy("pack_gate", "receipt"), Copy("pack_board", "board"),
      Copy("pack_safe", "kit_safe"), Copy("pack_hostile", "kit_hostile"),
      Copy("pack_kit_gate", "kit_gate"),
      Put("pack_manifest", Content(run, "manifest", ok)),
      Put("release", Content(run, "manifest", ok))>>

Released == phase = "publishing" /\ plan = <<>> /\ job.pack

\* Mutant of StagePack: the copies go over what LATEST holds.
StagePackOver ==
    /\ Released
    /\ phase' = "packing" /\ clearing' = {} /\ plan' = Pack(job.run, Ok)
    /\ UNCHANGED <<disk, bins, job, open, kills>>

StagePack ==
    /\ Released
    /\ phase' = "packing" /\ clearing' = Present(Latest) /\ plan' = Pack(job.run, Ok)
    /\ UNCHANGED <<disk, bins, job, open, kills>>

Finish ==
    /\ plan = <<>> /\ (phase = "packing" \/ (phase = "publishing" /\ ~job.pack))
    /\ phase' = "idle"
    /\ UNCHANGED <<disk, bins, job, clearing, plan, open, kills>>

-----------------------------------------------------------------------------
(* The file operations: rmtree, open for writing, write and close.         *)
Remove ==
    /\ \E p \in clearing : disk' = [disk EXCEPT ![p] = Absent] /\ clearing' = clearing \ {p}
    /\ UNCHANGED <<bins, phase, job, plan, open, kills>>

Open ==
    /\ clearing = {} /\ plan # <<>> /\ ~open
    /\ disk' = [disk EXCEPT ![Head(plan).to] = Torn]
    /\ open' = TRUE
    /\ UNCHANGED <<bins, phase, job, clearing, plan, kills>>

Fill ==
    /\ open
    /\ LET w == Head(plan)
       IN disk' = [disk EXCEPT ![w.to] = IF w.from = w.to THEN w.content ELSE disk[w.from]]
    /\ open' = FALSE /\ plan' = Tail(plan)
    /\ UNCHANGED <<bins, phase, job, clearing, kills>>

Kill ==
    /\ phase # "idle" /\ kills < MaxKills
    /\ kills' = kills + 1
    /\ phase' = "idle" /\ clearing' = {} /\ plan' = <<>> /\ open' = FALSE
    /\ UNCHANGED <<disk, bins, job>>

Next ==
    \/ StartFetch \/ EndFetch
    \/ StartRitual \/ Conclude \/ StagePack \/ Finish
    \/ Remove \/ Open \/ Fill \/ Kill

Spec == Init /\ [][Next]_vars

-----------------------------------------------------------------------------
(* Every variable stays in its domain.                                     *)
TypeOK ==
    /\ disk \in [Places -> Contents] /\ bins \in {"absent", "torn", "whole"}
    /\ phase \in {"idle", "fetch", "staging", "publishing", "packing"}
    /\ job.run \in 0 .. MaxRituals /\ clearing \subseteq Mirror \union Latest
    /\ open \in BOOLEAN /\ kills \in 0 .. MaxKills
    /\ \A i \in DOMAIN plan : plan[i].to \in Places /\ plan[i].from \in Places

(* A pack with a MANIFEST is of one ritual, whatever was killed before:    *)
(* every file in it is whole and of the ritual the MANIFEST is of, its     *)
(* documents carry the verdict the MANIFEST gives, and if that is PASS the *)
(* Dual receipts beside it say so too.                                     *)
PackReverifies ==
    LET manifest == disk["pack_manifest"]
    IN manifest.what = "manifest" =>
         \A p \in Present(Latest) :
           /\ disk[p].run = manifest.run
           /\ disk[p].what # "draft"
           /\ disk[p].what = "final" => disk[p].good = manifest.good
           /\ disk[p].what = "dual" => (manifest.good => disk[p].good)
=============================================================================
