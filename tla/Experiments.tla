---------------------------- MODULE Experiments ----------------------------
(***************************************************************************)
(* The experiment side of production_gate: the two W0 stages (stages_w0.py *)
(* with bti_calibration.py and nmp_kinetics.py), the scheduler that chains *)
(* them and logs every hand-off (scheduler.py), the trap-ladder files the  *)
(* second stage reads, and the receipt store with its index (receipts.py). *)
(* Every file is written in place: opening it for writing empties it.      *)
(*                                                                         *)
(* A number is its sign where the code tests the sign; a drift of the      *)
(* threshold voltage is "low" or "high": under the guardband or not.       *)
(***************************************************************************)
EXTENDS Integers, Sequences

CONSTANTS Workers,   \* processes that call the scheduler, the store, the ladders
          Runs,      \* run ids, each a directory
          Ids,       \* experiment ids
          Workloads, \* the workloads a chain may be given, records of Workload
          MaxJobs,   \* bound: calls made in a behaviour
          MaxKills,  \* bound: calls killed in a behaviour
          None       \* no file, no value

Signs == {-1, 0, 1}
Ladders == {"v1", "v2", "v3"}
Workload == [given : BOOLEAN, n : Signs, f : Signs, vgs : Signs,
             cal : {"none", "hci", "v1", "v2"}, guard : BOOLEAN, drift : {"low", "high"}]

ExperimentsAssumption ==
    /\ Workloads \subseteq Workload
    /\ MaxJobs \in Nat /\ MaxKills \in Nat
    /\ None \notin {"torn", "whole", "low", "high"} \union Runs

-----------------------------------------------------------------------------
(* Stage A: stress probability and activity factor.                        *)
SpAf(w) == CASE ~w.given                -> "INPUT_MISSING"
             [] w.given /\ (w.f <= 0 \/ w.n <= 0) -> "INPUT_INVALID"
             [] OTHER                   -> "PROXY_STRUCTURE"

Undetermined(oracle) == [oracle |-> oracle, drift |-> None, verdict |-> "UNDETERMINED"]
Raised == [oracle |-> "raised", drift |-> None, verdict |-> "raised"]

(* t = n / f: a division by zero, or a negative time whose power is a      *)
(* complex number json cannot write.                                       *)
Time(w) == w.n * w.f
StageRaises(w) == w.f = 0 \/ Time(w) < 0

(* compute_delta_vth_cited_anchor                                          *)
Anchor(w) == IF Time(w) <= 0 \/ w.vgs <= 0 THEN None ELSE w.drift

(* integrate_nmp refuses a time that is not positive; the second ladder    *)
(* replaces its drift by the bridge's, which takes any time.               *)
Kinetic(w) == IF Time(w) <= 0 THEN None ELSE w.drift
Operating(w) == w.drift

Calibrated(w) == CASE w.cal = "hci" -> Anchor(w)
                   [] w.cal = "v1"  -> Kinetic(w)
                   [] w.cal = "v2"  -> Operating(w)
                   [] OTHER         -> None

OracleOf(w) == CASE w.cal = "hci" -> "CITED_ANCHOR_SCALE"
                 [] w.cal = "v2" /\ Kinetic(w) = None -> "INPUT_INVALID"
                 [] OTHER         -> "NMP_ODE_LADDER"

Verdict(w, drift) == CASE ~w.guard \/ drift = None -> "UNDETERMINED"
                       [] w.guard /\ drift = "low"  -> "PASS"
                       [] OTHER                      -> "FAIL"

(* Stage B, given what stage A said and the ladder file it finds.          *)
Bti(w, spaf, ladder) ==
    CASE spaf = "INPUT_MISSING" -> Undetermined("BLOCKED_UPSTREAM")
      [] spaf # "INPUT_MISSING" /\ (StageRaises(w) \/ ladder = "torn") -> Raised
      [] OTHER -> LET drift == IF w.cal \in Ladders /\ ladder = None THEN None ELSE Calibrated(w)
                  IN [oracle |-> IF drift = None THEN "PROXY_STRUCTURE" ELSE OracleOf(w),
                      drift |-> drift, verdict |-> Verdict(w, drift)]

-----------------------------------------------------------------------------
VARIABLES dir,     \* run id -> what its directory holds
          newer,   \* pairs of run ids: the first was touched after the second
          ladder,  \* ladder files: None, "torn" or "whole"
          json,    \* experiment id -> its receipt: None, "torn" or a status
          md,      \* experiment id -> the companion's status
          index,   \* the ids in _index.json, a record of its state and ids
          job,     \* worker -> the call it is in
          jobs, kills, \* calls made, calls killed
          last,    \* the run that returned last
          filed,   \* ids whose last write returned
          tangled  \* two calls overlapped

vars == <<dir, newer, ladder, json, md, index, job, jobs, kills, last, filed, tangled>>
chainVars == <<dir, newer, last>>
storeVars == <<json, md, index, filed>>
countVars == <<jobs, kills, tangled>>

Statuses == {"RUN", "PASS"}
NoDir == [there |-> FALSE, hops |-> 0, log |-> FALSE, state |-> FALSE, final |-> None,
          manifest |-> None]
Idle == [kind |-> "idle", todo |-> <<>>, key |-> None, load |-> None, out |-> None,
         again |-> FALSE, seen |-> {}]

ChainScript == <<"mkdir", "in1", "out1", "in2", "out2", "close", "state", "manifest", "whole">>
WriteScript == <<"json", "jsonFull", "md", "mdFull", "readIndex", "index", "indexFull">>
LadderScript == <<"ladder", "ladderFull">>

Init ==
    /\ dir = [r \in Runs |-> NoDir] /\ newer = {}
    /\ ladder = [l \in Ladders |-> None]
    /\ json = [i \in Ids |-> None] /\ md = [i \in Ids |-> None]
    /\ index = [file |-> None, ids |-> {}]
    /\ job = [k \in Workers |-> Idle]
    /\ jobs = 0 /\ kills = 0 /\ last = None /\ filed = {} /\ tangled = FALSE

At(k, step) == job[k].todo # <<>> /\ Head(job[k].todo) = step
Past(k) == [job EXCEPT ![k].todo = Tail(@)]
Leave(k) == job' = [job EXCEPT ![k] = Idle]

Call(k, call) ==
    /\ job[k] = Idle /\ jobs < MaxJobs
    /\ job' = [job EXCEPT ![k] = call]
    /\ jobs' = jobs + 1
    /\ tangled' = (tangled \/ \E o \in Workers : job[o] # Idle)
    /\ UNCHANGED <<chainVars, storeVars, ladder, kills>>

(* run_chain, with a run id of its own or one the caller names.            *)
RunChain(k, r, w) ==
    Call(k, [Idle EXCEPT !.kind = "chain", !.todo = ChainScript, !.key = r, !.load = w])

(* ReceiptStore.write of a receipt that validates.                         *)
WriteReceipt(k, i, s, overwrite) ==
    Call(k, [Idle EXCEPT !.kind = "write", !.todo = WriteScript, !.key = i, !.out = s,
                         !.again = overwrite])

(* write_default_params, write_tdds_params_v2 and _v3; the third writes    *)
(* the second's file first if it is missing, and reads it.                 *)
WriteLadder(k, l) ==
    Call(k, [Idle EXCEPT !.kind = "ladder", !.key = l,
                         !.todo = IF l = "v3" THEN <<"parent">> \o LadderScript
                                              ELSE LadderScript])

Kill(k) ==
    /\ job[k] # Idle /\ kills < MaxKills
    /\ Leave(k) /\ kills' = kills + 1
    /\ UNCHANGED <<chainVars, storeVars, ladder, jobs, tangled>>

-----------------------------------------------------------------------------
(* Making a directory or a file in it gives it the latest mtime.           *)
Touched(r) == {p \in newer : p[2] # r} \union ({r} \X (Runs \ {r}))

Mkdir(k) ==
    LET r == job[k].key IN
    /\ At(k, "mkdir")
    /\ IF dir[r].there                  \* exist_ok=False
         THEN Leave(k) /\ UNCHANGED chainVars
         ELSE /\ dir' = [dir EXCEPT ![r].there = TRUE]
              /\ newer' = Touched(r) /\ job' = Past(k) /\ UNCHANGED last
    /\ UNCHANGED <<storeVars, ladder, countVars>>

StageIn(k) ==
    /\ At(k, "in1") \/ At(k, "in2")
    /\ newer' = Touched(job[k].key) /\ job' = Past(k)
    /\ UNCHANGED <<dir, last, storeVars, ladder, countVars>>

(* The stage runs; its artifact is written, its log line is buffered.      *)
StageOut(k) ==
    LET r == job[k].key  w == job[k].load
        file == IF w.cal \in Ladders THEN ladder[w.cal] ELSE None
        out == IF At(k, "out1") THEN Undetermined(SpAf(w)) ELSE Bti(w, job[k].out.oracle, file)
    IN
    /\ At(k, "out1") \/ At(k, "out2")
    /\ IF out = Raised
         THEN Leave(k) /\ UNCHANGED chainVars
         ELSE /\ dir' = [dir EXCEPT ![r].hops = @ + 1]
              /\ newer' = Touched(r)
              /\ job' = [Past(k) EXCEPT ![k].out = out]
              /\ UNCHANGED last
    /\ UNCHANGED <<storeVars, ladder, countVars>>

CloseLog(k) ==
    /\ At(k, "close")
    /\ dir' = [dir EXCEPT ![job[k].key].log = TRUE]
    /\ job' = Past(k) /\ UNCHANGED <<newer, last, storeVars, ladder, countVars>>

WriteState(k) ==
    LET r == job[k].key IN
    /\ At(k, "state")
    /\ dir' = [dir EXCEPT ![r].state = TRUE, ![r].final = job[k].out]
    /\ newer' = Touched(r)
    /\ job' = Past(k) /\ UNCHANGED <<last, storeVars, ladder, countVars>>

OpenManifest(k) ==
    LET r == job[k].key IN
    /\ At(k, "manifest")
    /\ dir' = [dir EXCEPT ![r].manifest = "torn"]
    /\ newer' = Touched(r)
    /\ job' = Past(k) /\ UNCHANGED <<last, storeVars, ladder, countVars>>

FillManifest(k) ==
    /\ At(k, "whole")
    /\ dir' = [dir EXCEPT ![job[k].key].manifest = "whole"]
    /\ last' = job[k].key
    /\ Leave(k) /\ UNCHANGED <<newer, storeVars, ladder, countVars>>

\* Mutant of Candidates: a directory counts from the moment it is made.
CandidatesMade == {r \in Runs : dir[r].there}

(* latest_run_dir: the newest directory with a manifest; one that cannot   *)
(* be parsed raises.                                                       *)
Candidates == {r \in Runs : dir[r].manifest # None}
Newest(r) == r \in Candidates /\ \A o \in Candidates \ {r} : <<r, o>> \in newer
Latest == IF Candidates = {} THEN None ELSE CHOOSE r \in Runs : Newest(r)

-----------------------------------------------------------------------------
Parent(k) ==
    /\ At(k, "parent")
    /\ \/ ladder["v2"] = "whole" /\ job' = Past(k)
       \/ ladder["v2"] = "torn" /\ Leave(k)
       \/ ladder["v2"] = None
          /\ job' = [job EXCEPT ![k].key = "v2", ![k].todo = LadderScript \o <<"child">> \o @]
    /\ UNCHANGED <<chainVars, storeVars, ladder, countVars>>

Child(k) ==
    /\ At(k, "child")
    /\ job' = [Past(k) EXCEPT ![k].key = "v3"]
    /\ UNCHANGED <<chainVars, storeVars, ladder, countVars>>

OpenLadder(k) ==
    /\ At(k, "ladder")
    /\ ladder' = [ladder EXCEPT ![job[k].key] = "torn"]
    /\ job' = Past(k) /\ UNCHANGED <<chainVars, storeVars, countVars>>

FillLadder(k) ==
    /\ At(k, "ladderFull")
    /\ ladder' = [ladder EXCEPT ![job[k].key] = "whole"]
    /\ IF Len(job[k].todo) = 1 THEN Leave(k) ELSE job' = Past(k)
    /\ UNCHANGED <<chainVars, storeVars, countVars>>

-----------------------------------------------------------------------------
OpenReceipt(k) ==
    LET i == job[k].key IN
    /\ At(k, "json")
    /\ IF json[i] # None /\ ~job[k].again
         THEN Leave(k) /\ UNCHANGED storeVars       \* FileExistsError
         ELSE /\ json' = [json EXCEPT ![i] = "torn"]
              /\ filed' = filed \ {i}
              /\ job' = Past(k) /\ UNCHANGED <<md, index>>
    /\ UNCHANGED <<chainVars, ladder, countVars>>

FillReceipt(k) ==
    /\ At(k, "jsonFull")
    /\ json' = [json EXCEPT ![job[k].key] = job[k].out]
    /\ job' = Past(k) /\ UNCHANGED <<md, index, filed, chainVars, ladder, countVars>>

WriteCompanion(k) ==
    /\ At(k, "md") \/ At(k, "mdFull")
    /\ md' = [md EXCEPT ![job[k].key] = IF At(k, "md") THEN "torn" ELSE job[k].out]
    /\ job' = Past(k) /\ UNCHANGED <<json, index, filed, chainVars, ladder, countVars>>

ReadIndex(k) ==
    /\ At(k, "readIndex")
    /\ \/ index.file = "torn" /\ Leave(k)           \* JSONDecodeError
       \/ index.file # "torn" /\ job' = [Past(k) EXCEPT ![k].seen = index.ids]
    /\ UNCHANGED <<storeVars, chainVars, ladder, countVars>>

OpenIndex(k) ==
    /\ At(k, "index")
    /\ index' = [file |-> "torn", ids |-> {}]
    /\ job' = Past(k) /\ UNCHANGED <<json, md, filed, chainVars, ladder, countVars>>

\* Mutant of FillIndex: the rows read before are not written back.
FillIndexAlone(k) ==
    LET i == job[k].key IN
    /\ At(k, "indexFull")
    /\ index' = [file |-> "whole", ids |-> {i}]
    /\ filed' = filed \union {i}
    /\ Leave(k) /\ UNCHANGED <<json, md, chainVars, ladder, countVars>>

FillIndex(k) ==
    LET i == job[k].key IN
    /\ At(k, "indexFull")
    /\ index' = [file |-> "whole", ids |-> job[k].seen \union {i}]
    /\ filed' = filed \union {i}
    /\ Leave(k) /\ UNCHANGED <<json, md, chainVars, ladder, countVars>>

(* list_ids: the index, or every receipt when there is none.               *)
Listed == IF index.file = None THEN {i \in Ids : json[i] # None} ELSE index.ids

Step(k) ==
    \/ Mkdir(k) \/ StageIn(k) \/ StageOut(k) \/ CloseLog(k) \/ WriteState(k)
    \/ OpenManifest(k) \/ FillManifest(k)
    \/ Parent(k) \/ Child(k) \/ OpenLadder(k) \/ FillLadder(k)
    \/ OpenReceipt(k) \/ FillReceipt(k) \/ WriteCompanion(k)
    \/ ReadIndex(k) \/ OpenIndex(k) \/ FillIndex(k)

Next == \E k \in Workers :
    \/ \E r \in Runs, w \in Workloads : RunChain(k, r, w)
    \/ \E i \in Ids, s \in Statuses, o \in BOOLEAN : WriteReceipt(k, i, s, o)
    \/ \E l \in Ladders : WriteLadder(k, l)
    \/ Step(k) \/ Kill(k)

Spec == Init /\ [][Next]_vars

-----------------------------------------------------------------------------
Oracles == {"INPUT_MISSING", "INPUT_INVALID", "PROXY_STRUCTURE", "BLOCKED_UPSTREAM",
            "CITED_ANCHOR_SCALE", "NMP_ODE_LADDER"}
Outcome == [oracle : Oracles, drift : {None, "low", "high"},
            verdict : {"UNDETERMINED", "PASS", "FAIL"}]
Directory == [there : BOOLEAN, hops : 0..2, log : BOOLEAN, state : BOOLEAN,
              final : {None} \union Outcome, manifest : {None, "torn", "whole"}]

TypeOK ==
    /\ dir \in [Runs -> Directory]
    /\ newer \subseteq Runs \X Runs
    /\ ladder \in [Ladders -> {None, "torn", "whole"}]
    /\ json \in [Ids -> {None, "torn"} \union Statuses]
    /\ md \in [Ids -> {None, "torn"} \union Statuses]
    /\ index \in [file : {None, "torn", "whole"}, ids : SUBSET Ids]
    /\ jobs \in 0..MaxJobs /\ kills \in 0..MaxKills
    /\ last \in Runs \union {None} /\ filed \subseteq Ids /\ tangled \in BOOLEAN

(* validate_f2 accepts a run by its manifest: a run with a whole one ran   *)
(* both stages and left its log and its state, whatever overlapped it and  *)
(* whoever was killed (scheduler.run_chain).                               *)
AcceptedIsWhole ==
    \A r \in Runs : dir[r].manifest = "whole" =>
        dir[r].hops = 2 /\ dir[r].log /\ dir[r].state

(* A chain that was killed or raised never hides the run that returned     *)
(* last; only a manifest killed half way stops latest_run_dir, which then  *)
(* raises (scheduler.latest_run_dir).                                      *)
HidesNothing ==
    ~tangled /\ last # None =>
        \/ Latest = last
        \/ /\ dir[Latest].manifest = "torn"
           /\ kills > 0 \/ \E k \in Workers : job[k].key = Latest

(* What a verdict on workload w rests on.                                  *)
Earned(w, out) ==
    out.verdict # "UNDETERMINED" =>
        /\ w.given /\ w.guard /\ w.cal # "none" /\ out.drift = w.drift
        /\ SpAf(w) = "INPUT_INVALID" => ((w.n < 0 /\ w.f < 0) \/ (w.n = 0 /\ w.cal = "v2"))

(* A verdict needs every input, a guardband and a calibration; a workload  *)
(* stage A rejected gets one only where its two bad signs cancel or from   *)
(* the second ladder's bridge (stages_w0, bti_calibration, nmp_kinetics).  *)
VerdictEarned ==
    \A k \in Workers :
        job[k].kind = "chain" /\ At(k, "close") => Earned(job[k].load, job[k].out)

(* A receipt whose write returned is listed, readable and told by its      *)
(* companion, until the next write to it, or until the index is torn by a  *)
(* kill (ReceiptStore.write).                                              *)
FiledIsListed ==
    ~tangled => \A i \in filed :
        /\ json[i] \in Statuses /\ md[i] = json[i]
        /\ index.file # "torn" => i \in Listed
        /\ index.file = "torn" => kills > 0 \/ \E k \in Workers : At(k, "indexFull")

(* What the next reader finds after any chain: the last whole run, with    *)
(* the artifacts and the verdict it earned.                                *)
ChainsTold == AcceptedIsWhole /\ HidesNothing /\ VerdictEarned
=============================================================================
