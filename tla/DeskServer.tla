----------------------------- MODULE DeskServer ------------------------------
(***************************************************************************)
(* The local desk server: every request is a thread (ThreadingHTTPServer). *)
(* POST /api/dual uploads an owned soils pack, runs the dual socket in a   *)
(* temporary project root and saves the board in the run log; POST         *)
(* /api/runs/save only saves.  Threads share the module globals of the     *)
(* desk and of the Bekker oracle, the files an upload and a catalog are    *)
(* stored in, and the index of the log.  The packs here use the template's *)
(* soil ids, so the desk uploads them under one name (it comes from the    *)
(* safe soil's id), and a catalog of the wrong pack gives wrong numbers    *)
(* rather than an error.  The body is a preset; requests are numbered in   *)
(* the order they arrive.                                                  *)
(***************************************************************************)
EXTENDS Integers, Sequences, FiniteSets

CONSTANTS Threads,
          Packs,        \* owned soils packs a client may send
          Default,      \* the teaching catalog: a request without a pack
          MaxRequests,  \* bound: requests
          MaxKills,     \* bound: kills of the server
          Keep,         \* rows the log's index keeps (40 in the code)
          Overlap       \* may two requests be under way at once?

ASSUME DeskAssumption == /\ Default \notin Packs \cup {"absent", "torn"}
                         /\ Packs \cap {"absent", "torn"} = {}
                         /\ MaxRequests \in Nat
                         /\ MaxKills \in Nat
                         /\ Keep \in Nat \ {0}
                         /\ Overlap \in BOOLEAN

VARIABLES
  upload,    \* the file under byo_soils: "absent", "torn" or a pack
  catalog,   \* owned_bekker_catalog_v1.json, likewise
  override,  \* does the process-wide catalog override point at it?
  root,      \* desk._PROJECTS: the request whose temporary root it is; 0: the desk's own
  projects,  \* the project directories this server made: whose, where, soils bound
  latest,    \* the requests whose receipt and board were written last
  files,     \* row files of the log
  index,     \* its index: the rows, newest first; empty while it is torn
  readable,  \* is the index not torn?
  pc, mem,   \* each thread's next step and memory
  requests, kills,
  boards,    \* history: the boards answered
  saved      \* history: the rows acknowledged

disk   == <<upload, catalog, projects, latest, files, index, readable>>
log    == <<files, index, readable>>
bounds == <<requests, kills>>
shown  == <<boards, saved>>
vars   == <<upload, catalog, override, root, projects, latest, files, index, readable,
            pc, mem, requests, kills, boards, saved>>

Soils == Packs \cup {Default}

RequestIds == 0..MaxRequests

File == Packs \cup {"absent", "torn"}

Memory == [id : RequestIds, pack : Soils, got : Soils, prev : BOOLEAN, safe : Soils, hostile : Soils,
           failed : BOOLEAN, dual : BOOLEAN, rows : Seq(RequestIds)]

Project == [id : RequestIds, root : RequestIds, bound : BOOLEAN]

Fresh(n, p, d) == [id |-> n, pack |-> p, got |-> Default, prev |-> FALSE, safe |-> Default,
                   hostile |-> Default, failed |-> FALSE, dual |-> d, rows |-> <<>>]

Nothing == Fresh(0, Default, FALSE)

Quiet == \A t \in Threads : pc[t] = "idle"

Init ==
  /\ upload = "absent" /\ catalog = "absent"
  /\ override = FALSE /\ root = 0
  /\ projects = {}
  /\ latest = [receipt |-> 0, board |-> 0]
  /\ files = {} /\ index = <<>> /\ readable = TRUE
  /\ pc = [t \in Threads |-> "idle"] /\ mem = [t \in Threads |-> Nothing]
  /\ requests = 0 /\ kills = 0
  /\ boards = {} /\ saved = {}

Goto(t, label) == pc' = [pc EXCEPT ![t] = label]

\* The handler has sent its answer: 200, or 500 after an exception.
Finish(t) == Goto(t, "idle") /\ mem' = [mem EXCEPT ![t] = Nothing]

\* An exception inside the dual socket's try: the temporary root goes, then
\* the finally clause runs.
Raise(t) == Goto(t, "leave") /\ mem' = [mem EXCEPT ![t].failed = TRUE]

\* The project of t's request, where the desk looks for it now.
Found(t) == {p \in projects : p.id = mem[t].id /\ p.root = root}

Arrive(t) ==
  /\ pc[t] = "idle"
  /\ Overlap \/ Quiet
  /\ requests < MaxRequests
  /\ requests' = requests + 1
  /\ UNCHANGED <<disk, override, root, kills, shown>>

\* POST /api/dual.
Dual(t, p) ==
  /\ Arrive(t)
  /\ mem' = [mem EXCEPT ![t] = Fresh(requests', p, TRUE)]
  /\ Goto(t, IF p = Default THEN "enter" ELSE "upload")

\* POST /api/runs/save.
SaveOnly(t) ==
  /\ Arrive(t)
  /\ mem' = [mem EXCEPT ![t] = Fresh(requests', Default, FALSE)]
  /\ Goto(t, "row")

\* sdest.write_text truncates, then fills.
Upload(t) ==
  /\ \/ pc[t] = "upload" /\ upload' = "torn" /\ Goto(t, "fill")
     \/ pc[t] = "fill" /\ upload' = mem[t].pack /\ Goto(t, "load")
  /\ UNCHANGED <<catalog, override, root, projects, latest, log, mem, bounds, shown>>

\* load_owned_soils reads the file back, whoever wrote it last.
Load(t) ==
  /\ pc[t] = "load"
  /\ IF upload = "torn" THEN Finish(t)
     ELSE mem' = [mem EXCEPT ![t].got = upload] /\ Goto(t, "enter")
  /\ UNCHANGED <<disk, override, root, bounds, shown>>

\* The catalog override is saved and cleared...
Enter(t) ==
  /\ pc[t] = "enter"
  /\ mem' = [mem EXCEPT ![t].prev = override]
  /\ override' = FALSE
  /\ Goto(t, "root")
  /\ UNCHANGED <<disk, root, bounds, shown>>

\* Mutant of SetRoot: the desk's globals are not patched.
SetRootForgotten(t) ==
  /\ pc[t] = "root"
  /\ Goto(t, "create")
  /\ UNCHANGED <<disk, override, root, mem, bounds, shown>>

\* ...and the desk's globals are pointed at a new temporary root.
SetRoot(t) ==
  /\ pc[t] = "root"
  /\ root' = mem[t].id
  /\ Goto(t, "create")
  /\ UNCHANGED <<disk, override, mem, bounds, shown>>

Create(t) ==
  /\ pc[t] = "create"
  /\ projects' = projects \cup {[id |-> mem[t].id, root |-> root, bound |-> FALSE]}
  /\ Goto(t, "attach")
  /\ UNCHANGED <<upload, catalog, override, root, latest, log, mem, bounds, shown>>

\* attach_body_from_preset raises if the project is not under the root.
Attach(t) ==
  /\ pc[t] = "attach"
  /\ IF Found(t) = {} THEN Raise(t)
     ELSE Goto(t, IF mem[t].pack = Default THEN "safe" ELSE "catalog") /\ UNCHANGED mem
  /\ UNCHANGED <<disk, override, root, bounds, shown>>

\* Mutant of Materialize: a catalog that is there is not written again.
MaterializeStale(t) ==
  /\ \/ pc[t] = "catalog" /\ catalog \in Packs /\ UNCHANGED catalog /\ Goto(t, "point")
     \/ pc[t] = "catalog" /\ catalog \notin Packs /\ catalog' = "torn" /\ Goto(t, "overlay")
     \/ pc[t] = "overlay" /\ catalog' = mem[t].got /\ Goto(t, "point")
  /\ UNCHANGED <<upload, override, root, projects, latest, log, mem, bounds, shown>>

\* materialize_bekker_catalog: one file for all requests.
Materialize(t) ==
  /\ \/ pc[t] = "catalog" /\ catalog' = "torn" /\ Goto(t, "overlay")
     \/ pc[t] = "overlay" /\ catalog' = mem[t].got /\ Goto(t, "point")
  /\ UNCHANGED <<upload, override, root, projects, latest, log, mem, bounds, shown>>

Point(t) ==
  /\ pc[t] = "point"
  /\ override' = TRUE
  /\ Goto(t, "bind")
  /\ UNCHANGED <<disk, root, mem, bounds, shown>>

\* update_project_field_lane: the project names the catalog file.
Bind(t) ==
  /\ pc[t] = "bind"
  /\ IF Found(t) = {}
     THEN Raise(t) /\ UNCHANGED projects
     ELSE /\ projects' = (projects \ Found(t)) \cup {[p EXCEPT !.bound = TRUE] : p \in Found(t)}
          /\ Goto(t, "safe")
          /\ UNCHANGED mem
  /\ UNCHANGED <<upload, catalog, override, root, latest, log, bounds, shown>>

\* The catalog the oracle evaluates a soil of project p on.
Source(p) == IF p.bound \/ override THEN catalog ELSE Default

\* run_project reads the project and asks the oracle, which may fail (ok), be
\* timed out, or find a torn catalog.
Evaluate(t, ok) ==
  /\ pc[t] \in {"safe", "hostile"}
  /\ IF Found(t) = {} \/ ~ok \/ \E p \in Found(t) : Source(p) = "torn"
     THEN Raise(t)
     ELSE \E p \in Found(t) :
            IF pc[t] = "safe"
            THEN mem' = [mem EXCEPT ![t].safe = Source(p)] /\ Goto(t, "noted")
            ELSE mem' = [mem EXCEPT ![t].hostile = Source(p)] /\ Goto(t, "renoted")
  /\ UNCHANGED <<disk, override, root, bounds, shown>>

\* update_project_last_run at the end of a run needs the project again.
Record(t) ==
  /\ pc[t] \in {"noted", "renoted"}
  /\ IF Found(t) = {} THEN Raise(t)
     ELSE Goto(t, IF pc[t] = "noted" THEN "hostile" ELSE "leave") /\ UNCHANGED mem
  /\ UNCHANGED <<disk, override, root, bounds, shown>>

\* The temporary root is removed with all that is in it.
Leave(t) ==
  /\ pc[t] = "leave"
  /\ projects' = {p \in projects : p.root # mem[t].id}
  /\ Goto(t, "restore")
  /\ UNCHANGED <<upload, catalog, override, root, latest, log, mem, bounds, shown>>

\* Mutant of Restore: the override is put back after a success only.
RestoreOnSuccess(t) ==
  /\ pc[t] = "restore"
  /\ override' = IF mem[t].failed THEN override ELSE mem[t].prev
  /\ IF mem[t].failed THEN Finish(t) ELSE Goto(t, "receipt") /\ UNCHANGED mem
  /\ UNCHANGED <<disk, root, bounds, shown>>

\* finally: the override is put back; the globals stay where they are.
Restore(t) ==
  /\ pc[t] = "restore"
  /\ override' = mem[t].prev
  /\ IF mem[t].failed THEN Finish(t) ELSE Goto(t, "receipt") /\ UNCHANGED mem
  /\ UNCHANGED <<disk, root, bounds, shown>>

\* DUAL_SOCKET_LATEST and its board.
Publish(t) ==
  /\ \/ pc[t] = "receipt" /\ latest' = [latest EXCEPT !.receipt = mem[t].id] /\ Goto(t, "board")
     \/ pc[t] = "board" /\ latest' = [latest EXCEPT !.board = mem[t].id] /\ Goto(t, "row")
  /\ UNCHANGED <<upload, catalog, override, root, projects, log, mem, bounds, shown>>

(***************************************************************************)
(* save_run.                                                               *)
(***************************************************************************)
WriteRow(t) ==
  /\ pc[t] = "row"
  /\ files' = files \cup {mem[t].id}
  /\ Goto(t, "index")
  /\ UNCHANGED <<upload, catalog, override, root, projects, latest, index, readable, mem, bounds,
                 shown>>

\* Mutant of ReadIndex: the new row goes to the end that the prune cuts.
ReadIndexAppends(t) ==
  /\ pc[t] = "index"
  /\ IF ~readable THEN Finish(t)
     ELSE /\ mem' = [mem EXCEPT ![t].rows = index \o <<mem[t].id>>]
          /\ Goto(t, "prune")
  /\ UNCHANGED <<disk, override, root, bounds, shown>>

\* _load_index; a torn index raises.
ReadIndex(t) ==
  /\ pc[t] = "index"
  /\ IF ~readable THEN Finish(t)
     ELSE /\ mem' = [mem EXCEPT ![t].rows = <<mem[t].id>> \o index]
          /\ Goto(t, "prune")
  /\ UNCHANGED <<disk, override, root, bounds, shown>>

\* Mutant of Kept: one row too many.
KeptOver(rows) == SubSeq(rows, 1, IF Len(rows) <= Keep THEN Len(rows) ELSE Keep + 1)

Kept(rows) == SubSeq(rows, 1, IF Len(rows) < Keep THEN Len(rows) ELSE Keep)

\* Mutant of Prune: the row that stays on the index's edge is unlinked too.
PruneEdge(t) ==
  /\ pc[t] = "prune"
  /\ files' = files \ {mem[t].rows[i] : i \in (Keep..Len(mem[t].rows)) \ {1}}
  /\ mem' = [mem EXCEPT ![t].rows = Kept(mem[t].rows)]
  /\ Goto(t, "reindex")
  /\ UNCHANGED <<upload, catalog, override, root, projects, latest, index, readable, bounds, shown>>

\* The rows beyond Keep lose their files before the index is written.
Prune(t) ==
  /\ pc[t] = "prune"
  /\ files' = files \ {mem[t].rows[i] : i \in (Keep + 1)..Len(mem[t].rows)}
  /\ mem' = [mem EXCEPT ![t].rows = Kept(mem[t].rows)]
  /\ Goto(t, "reindex")
  /\ UNCHANGED <<upload, catalog, override, root, projects, latest, index, readable, bounds, shown>>

\* The index is truncated, then filled.
WriteIndex(t) ==
  /\ \/ /\ pc[t] = "reindex"
        /\ readable' = FALSE /\ index' = <<>>
        /\ Goto(t, "refill")
     \/ /\ pc[t] = "refill"
        /\ readable' = TRUE /\ index' = mem[t].rows
        /\ Goto(t, "answer")
  /\ UNCHANGED <<upload, catalog, override, root, projects, latest, files, mem, bounds, shown>>

Answer(t) ==
  /\ pc[t] = "answer"
  /\ saved' = saved \cup {mem[t].id}
  /\ boards' = IF mem[t].dual
               THEN boards \cup {[pack |-> mem[t].pack, safe |-> mem[t].safe,
                                  hostile |-> mem[t].hostile]}
               ELSE boards
  /\ Finish(t)
  /\ UNCHANGED <<disk, override, root, bounds>>

\* The server is killed and started again: what is in memory is lost.
Kill ==
  /\ kills < MaxKills
  /\ kills' = kills + 1
  /\ pc' = [t \in Threads |-> "idle"] /\ mem' = [t \in Threads |-> Nothing]
  /\ override' = FALSE /\ root' = 0
  /\ UNCHANGED <<disk, requests, shown>>

Step(t) == \/ Upload(t) \/ Load(t) \/ Enter(t) \/ SetRoot(t) \/ Create(t) \/ Attach(t)
           \/ Materialize(t) \/ Point(t) \/ Bind(t)
           \/ \E ok \in BOOLEAN : Evaluate(t, ok)
           \/ Record(t) \/ Leave(t) \/ Restore(t) \/ Publish(t)
           \/ WriteRow(t) \/ ReadIndex(t) \/ Prune(t) \/ WriteIndex(t) \/ Answer(t)

Next == \/ \E t \in Threads : (\E p \in Soils : Dual(t, p)) \/ SaveOnly(t) \/ Step(t)
        \/ Kill

Spec == Init /\ [][Next]_vars

(***************************************************************************)
(* Properties.                                                             *)
(***************************************************************************)
Labels == {"idle", "upload", "fill", "load", "enter", "root", "create", "attach", "catalog",
           "overlay", "point", "bind", "safe", "noted", "hostile", "renoted", "leave", "restore",
           "receipt", "board", "row", "index", "prune", "reindex", "refill", "answer"}

TypeOK ==
  /\ upload \in File /\ catalog \in File
  /\ override \in BOOLEAN /\ root \in RequestIds
  /\ projects \in SUBSET Project
  /\ latest \in [receipt : RequestIds, board : RequestIds]
  /\ files \in SUBSET RequestIds /\ index \in Seq(RequestIds) /\ Len(index) <= Keep /\ readable \in BOOLEAN
  /\ pc \in [Threads -> Labels] /\ mem \in [Threads -> Memory]
  /\ requests \in RequestIds /\ kills \in 0..MaxKills
  /\ boards \in SUBSET [pack : Soils, safe : Soils, hostile : Soils]
  /\ saved \in SUBSET RequestIds

\* "Body field_bind so Dual uses owned Safe/Hostile + catalog"
\* (dual_owned_soils_v1.py:305): both soils of an answered board were
\* evaluated on the catalog of the pack its own client sent.
OwnSoils == \A b \in boards : b.safe = b.pack /\ b.hostile = b.pack

\* The process-wide override outlives no request, however it ended
\* (dual_socket_v1.py:241).
OverrideBack == Quiet => ~override

\* The dual socket never makes or changes a project in the desk's own root,
\* although it leaves the desk's globals pointing elsewhere.
DeskUntouched == \A p \in projects : p.root # 0

\* "Append one Dual board slice to the local [log]. Returns the saved row."
\* (desk_run_log_v1.py:100): a row that was returned stays in the index until
\* Keep newer ones are there; only a kill that tears the index loses it.
RowKept == readable => \A n \in saved :
              \/ n \in {index[i] : i \in DOMAIN index}
              \/ Len(index) = Keep /\ \A i \in DOMAIN index : index[i] > n

\* Rows of the index have their files.  Only the oldest of a full index may
\* lack its own: the prune unlinks before the new index is written, and a
\* save may be on its way there or have been killed there.
IndexFiles == \A i \in DOMAIN index :
                 index[i] \in files \/ (i = Keep /\ (kills > 0 \/ ~Quiet))
=============================================================================
