---------------------------- MODULE ProjectDesk ----------------------------
(***************************************************************************)
(* The project desk: robot_project_desk_v1.py with body_identity_v1.py and *)
(* the file half of atomic_json_v1.py.  A project is a directory holding   *)
(* project.json, the body's files, the identity artifact                   *)
(* body/BODY_IDENTITY_v1.json and the silicon fuse.  Two more files name   *)
(* the active project.  Every request is a script of steps, one file       *)
(* operation each: project.json is read, changed in memory and written     *)
(* back, with no lock across the two.                                      *)
(*                                                                         *)
(* Requests whose contract module or fixture is not in the repository      *)
(* raise when they import it (attach_policy_port, attach_policy_trace,     *)
(* attach_fleet_state, the assembly recipes); they are the script "absent".*)
(***************************************************************************)
EXTENDS Naturals, FiniteSets, Sequences

CONSTANTS Projects,    \* project ids; an id is never used twice (uuid)
          Bodies,      \* body files' contents; a body is its own digest
          Malformed,   \* the bodies their compiler or parser refuses
          Registry,    \* the bodies of fixtures/open_registry
          Files,       \* names under body/
          FileOf,      \* the name a body is stored under
          Threads,     \* requests that may overlap
          Limit, Keep, \* create prunes above 120 directories, down to 40
          MaxRequests, \* bound: requests started in a behaviour
          MaxKills,    \* bound: requests killed in a behaviour
          None         \* no value

VARIABLES disk,      \* project -> its directory
          active,    \* _active.json: a project, "cleared", or None
          twin,      \* robot_project_active_v1.json
          req,       \* thread -> the request it serves
          started,   \* requests started so far
          kills,     \* requests killed so far
          settled,   \* projects whose last body attach returned
          kept,      \* project -> the fields whose attach returned
          tangled    \* two requests were in progress at the same time

vars == <<disk, active, twin, req, started, kills, settled, kept, tangled>>

(* The fields of project.json that a request can still set.                *)
Fields == {"hil", "last_run", "lane"}
Doc == [body : Bodies \union {None}, ident : Bodies \union {None}, has : SUBSET Fields]
Torn == "torn"
Dir == [doc : Doc \union {None}, files : [Files -> Bodies \union {None}],
        cert : Bodies \union {None, Torn}, fuse : Bodies \union {None},
        blown : BOOLEAN, there : BOOLEAN]

NoDir == [doc |-> None, files |-> [f \in Files |-> None], cert |-> None,
          fuse |-> None, blown |-> FALSE, there |-> FALSE]
BlankDoc == [body |-> None, ident |-> None, has |-> {}]

ProjectDeskAssumption ==
    /\ Malformed \subseteq Bodies /\ Registry \subseteq Bodies \ Malformed
    /\ FileOf \in [Bodies -> Files]
    /\ Limit \in Nat /\ Keep \in 1..Limit
    /\ MaxRequests \in Nat /\ MaxKills \in Nat
    /\ None \notin Projects \union Bodies \union Doc \union {"cleared"}
    /\ "cleared" \notin Projects

(* The steps of each kind of request, in the order of the code.            *)
UploadScript   == <<"store", "compile", "manifest", "certify", "certified", "bind",
                    "read", "contact", "body">>
RegistryScript == <<"compile", "copy", "manifest", "certify", "certified", "bind",
                    "read", "contact", "body", "body">>
CreateScript   == <<"rank", "delete", "make">>
Scripts ==
    [create    |-> CreateScript,
     new_open  |-> CreateScript \o RegistryScript,
     new_lunar |-> CreateScript \o <<"absent">>,
     bootstrap |-> CreateScript \o RegistryScript \o <<"absent", "read", "active", "twin">>,
     upload    |-> UploadScript,
     registry  |-> RegistryScript,
     port      |-> <<"absent">>,
     hil       |-> <<"receipt", "read", "field">>,
     last_run  |-> <<"read", "field">>,
     lane      |-> <<"read", "field">>,
     activate  |-> <<"read", "active", "twin">>,
     clear     |-> <<"active", "twin">>,
     prune     |-> <<"rank", "delete">>]

Steps == {"store", "compile", "copy", "manifest", "certify", "certified", "bind", "read",
          "contact", "body", "field", "receipt", "active", "twin", "rank", "delete", "make",
          "absent"}

Kinds == DOMAIN Scripts
Makes == {"create", "new_open", "new_lunar", "bootstrap"}
Global == {"prune", "clear"}
Attaches == {"upload", "registry", "new_open", "bootstrap"}

Idle == [kind |-> "idle", todo |-> <<>>, proj |-> None, body |-> None,
         doc |-> BlankDoc, ident |-> None, doomed |-> {}]

Init ==
    /\ disk = [p \in Projects |-> NoDir]
    /\ active = None /\ twin = None
    /\ req = [t \in Threads |-> Idle]
    /\ started = 0 /\ kills = 0
    /\ settled = Projects
    /\ kept = [p \in Projects |-> {}]
    /\ tangled = FALSE

Live == {p \in Projects : disk[p].doc # None}
Dirs == {p \in Projects : disk[p].there}
Busy(p) == {t \in Threads : req[t].proj = p}
At(t, step) == req[t].todo # <<>> /\ Head(req[t].todo) = step
Past(t) == [req EXCEPT ![t].todo = Tail(@)]
Counts == <<started, kills, tangled>>

Fresh == {p \in settled : disk[p] = NoDir /\ Busy(p) = {}}

(* A client posts a request: on a project it sees on disk, or for a new id.*)
Start(t, k, p, b) ==
    /\ req[t] = Idle /\ started < MaxRequests
    /\ \/ k \in Makes /\ Fresh # {} /\ p = CHOOSE q \in Fresh : TRUE
       \/ k \notin Makes \union Global /\ p \in Live
       \/ k \in Global /\ p = None
    /\ \/ k = "upload" /\ b \in Bodies
       \/ k \in Attaches \ {"upload"} /\ b \in Registry
       \/ k \notin Attaches /\ b = None
    /\ req' = [req EXCEPT ![t] = [Idle EXCEPT !.kind = k, !.todo = Scripts[k],
                                         !.proj = p, !.body = b]]
    /\ started' = started + 1
    /\ tangled' = (tangled \/ \E u \in Threads : req[u] # Idle)
    /\ UNCHANGED <<disk, active, twin, kills, settled, kept>>

(* The answer: a script that ran to its end.                               *)
Answer(t) ==
    LET r == req[t] IN
    /\ r # Idle /\ r.todo = <<>>
    /\ req' = [req EXCEPT ![t] = Idle]
    /\ settled' = IF r.kind \in Attaches
                    THEN settled \union {r.proj} ELSE settled
    /\ kept' = IF r.kind \in Fields THEN [kept EXCEPT ![r.proj] = @ \union {r.kind}] ELSE kept
    /\ UNCHANGED <<disk, active, twin, Counts>>

(* The exceptions of the code's own making: a module that is not there, a  *)
(* body that does not compile, a project or a file that is gone, a blown   *)
(* fuse bound to another body, a lane for a project without a body.        *)
Raises(t) ==
    LET r == req[t]  d == disk[r.proj] IN
    \/ At(t, "absent")
    \/ At(t, "compile") /\ r.body \in Malformed
    \/ At(t, "certify") /\ d.files[FileOf[r.body]] = None
    \/ At(t, "bind") /\ d.blown /\ d.fuse \notin {None, r.ident}
    \/ At(t, "read") /\ d.doc = None
    \/ At(t, "field") /\ r.kind = "lane" /\ r.doc.body = None

Raise(t) ==
    /\ req[t] # Idle /\ Raises(t)
    /\ req' = [req EXCEPT ![t] = Idle]
    /\ UNCHANGED <<disk, active, twin, settled, kept, Counts>>

(* A kill, or an I/O error, between any two steps.                         *)
Kill(t) ==
    /\ req[t] # Idle /\ kills < MaxKills
    /\ req' = [req EXCEPT ![t] = Idle]
    /\ kills' = kills + 1
    /\ UNCHANGED <<disk, active, twin, settled, kept, started, tangled>>

-----------------------------------------------------------------------------
(* attach_body_from_upload writes the bytes before anything checks them.   *)
Store(t) ==
    /\ At(t, "store")
    /\ disk' = [disk EXCEPT ![req[t].proj].files[FileOf[req[t].body]] = req[t].body,
                            ![req[t].proj].there = TRUE]
    /\ settled' = settled \ {req[t].proj}
    /\ req' = Past(t) /\ UNCHANGED <<active, twin, kept, Counts>>

(* The compiler, the XML parser or the region check reads the source.      *)
Compile(t) ==
    /\ At(t, "compile") /\ req[t].body \notin Malformed
    /\ req' = Past(t) /\ UNCHANGED <<disk, active, twin, settled, kept, Counts>>

(* A body attached by path is copied once it compiled.                     *)
Copy(t) ==
    /\ At(t, "copy")
    /\ disk' = [disk EXCEPT ![req[t].proj].files[FileOf[req[t].body]] = req[t].body,
                            ![req[t].proj].there = TRUE]
    /\ settled' = settled \ {req[t].proj}
    /\ req' = Past(t) /\ UNCHANGED <<active, twin, kept, Counts>>

(* manifest.json is described, never hashed, for these kinds of body.      *)
Manifest(t) ==
    /\ At(t, "manifest")
    /\ disk' = [disk EXCEPT ![req[t].proj].there = TRUE]
    /\ req' = Past(t) /\ UNCHANGED <<active, twin, settled, kept, Counts>>

(* The Rust binary hashes the stored file, whatever it now holds; the      *)
(* artifact is opened for writing, which empties it.                       *)
Certify(t) ==
    LET p == req[t].proj  bytes == disk[p].files[FileOf[req[t].body]] IN
    /\ At(t, "certify") /\ bytes # None
    /\ disk' = [disk EXCEPT ![p].cert = Torn, ![p].there = TRUE]
    /\ req' = [Past(t) EXCEPT ![t].ident = bytes]
    /\ UNCHANGED <<active, twin, settled, kept, Counts>>

Certified(t) ==
    /\ At(t, "certified")
    /\ disk' = [disk EXCEPT ![req[t].proj].cert = req[t].ident, ![req[t].proj].there = TRUE]
    /\ req' = Past(t) /\ UNCHANGED <<active, twin, settled, kept, Counts>>

(* A fuse bound to another digest starts a new epoch unless it is blown.   *)
Bind(t) ==
    LET p == req[t].proj IN
    /\ At(t, "bind")
    /\ disk[p].blown => disk[p].fuse \in {None, req[t].ident}
    /\ disk' = [disk EXCEPT ![p].fuse = req[t].ident, ![p].there = TRUE]
    /\ req' = Past(t) /\ UNCHANGED <<active, twin, settled, kept, Counts>>

(* A receipt file under hil/; one that claims MEASURED was refused.        *)
ReceiptFile(t) ==
    /\ At(t, "receipt")
    /\ disk' = [disk EXCEPT ![req[t].proj].there = TRUE]
    /\ req' = Past(t) /\ UNCHANGED <<active, twin, settled, kept, Counts>>

(* get_project: a missing project.json raises.                             *)
Read(t) ==
    /\ At(t, "read") /\ disk[req[t].proj].doc # None
    /\ req' = [Past(t) EXCEPT ![t].doc = disk[req[t].proj].doc]
    /\ UNCHANGED <<disk, active, twin, settled, kept, Counts>>

(* Contact fields are extracted from the URDF between the read and the     *)
(* write; field lane binding needs a body.                                 *)
Contact(t) ==
    /\ At(t, "contact")
    /\ req' = Past(t) /\ UNCHANGED <<disk, active, twin, settled, kept, Counts>>

(* _save_project: the whole document goes back, in a new directory if the  *)
(* old one is gone.                                                        *)
Save(t, doc) ==
    /\ disk' = [disk EXCEPT ![req[t].proj].doc = doc, ![req[t].proj].there = TRUE]
    /\ req' = [Past(t) EXCEPT ![t].doc = doc]
    /\ UNCHANGED <<active, twin, settled, Counts>>

\* Mutant of FieldSaved: the document is built anew.
FieldAlone(t) == [req[t].doc EXCEPT !.has = {req[t].kind}]

\* Mutant of BodySaved: the digest of the body before is kept.
BodyStale(t) == [req[t].doc EXCEPT !.body = req[t].body, !.has = @ \ {"lane"}]

BodySaved(t) == [req[t].doc EXCEPT !.body = req[t].body, !.ident = req[t].ident,
                                    !.has = @ \ {"lane"}]

SaveBody(t) ==
    /\ At(t, "body")
    /\ Save(t, BodySaved(t))
    /\ kept' = [kept EXCEPT ![req[t].proj] = @ \ {"lane"}]

FieldSaved(t) == [req[t].doc EXCEPT !.has = @ \union {req[t].kind}]

SaveField(t) ==
    /\ At(t, "field")
    /\ req[t].kind = "lane" => req[t].doc.body # None
    /\ Save(t, FieldSaved(t))
    /\ UNCHANGED kept

-----------------------------------------------------------------------------
(* The active project is two files, written one after the other.           *)
Target(t) == IF req[t].kind = "clear" THEN "cleared" ELSE req[t].proj

SetActive(t) ==
    /\ At(t, "active") /\ active' = Target(t)
    /\ req' = Past(t) /\ UNCHANGED <<disk, twin, settled, kept, Counts>>

SetTwin(t) ==
    /\ At(t, "twin") /\ twin' = Target(t)
    /\ req' = Past(t) /\ UNCHANGED <<disk, active, settled, kept, Counts>>

\* Mutant of ActiveProject: the runtime file is not read.
ActiveForgotten == IF twin \in Live THEN twin ELSE None

(* get_active_project: the runtime file, else the twin, if it still names  *)
(* a project on disk.                                                      *)
ActiveProject == LET a == IF active # None THEN active ELSE twin
                 IN IF a \in Live THEN a ELSE None

(* _score without the timestamps, which break ties.                        *)
Score(p) ==
    (IF p = ActiveProject THEN 8 ELSE 0)
    + (IF p \in Live /\ disk[p].doc.body # None THEN 4 ELSE 0)
    + (IF p \in Live /\ "last_run" \in disk[p].doc.has THEN 2 ELSE 0)
    + (IF p \in Live THEN 1 ELSE 0)

KeepSets ==
    {K \in SUBSET Dirs : /\ Cardinality(K) = IF Cardinality(Dirs) < Keep
                                               THEN Cardinality(Dirs) ELSE Keep
                         /\ \A p \in K, q \in Dirs \ K : Score(p) >= Score(q)}

Skips(t) == req[t].kind \in Makes /\ Cardinality(Dirs) <= Limit

Rank(t) ==
    /\ At(t, "rank")
    /\ \E K \in KeepSets :
         req' = [Past(t) EXCEPT ![t].doomed =
                   IF Skips(t) THEN {} ELSE Dirs \ (K \union {ActiveProject})]
    /\ UNCHANGED <<disk, active, twin, settled, kept, Counts>>

(* shutil.rmtree removes the entries of a directory in any order, one step *)
(* each: the document, the body files, and last what remains with the      *)
(* directory itself.  A kill between two of them leaves the rest behind.   *)
Delete(t) ==
    /\ At(t, "delete")
    /\ \E p \in req[t].doomed :
         \/ /\ disk[p].doc # None
            /\ disk' = [disk EXCEPT ![p].doc = None]
            /\ UNCHANGED <<req, kept>>
         \/ /\ disk[p].files # NoDir.files
            /\ disk' = [disk EXCEPT ![p].files = NoDir.files, ![p].cert = None]
            /\ UNCHANGED <<req, kept>>
         \/ /\ disk' = [disk EXCEPT ![p] = NoDir]
            /\ req' = [req EXCEPT ![t].doomed = @ \ {p}]
            /\ kept' = [kept EXCEPT ![p] = {}]
    /\ settled' = settled \ req[t].doomed
    /\ UNCHANGED <<active, twin, Counts>>

Deleted(t) ==
    /\ At(t, "delete") /\ req[t].doomed = {}
    /\ req' = Past(t) /\ UNCHANGED <<disk, active, twin, settled, kept, Counts>>

Make(t) ==
    /\ At(t, "make")
    /\ disk' = [disk EXCEPT ![req[t].proj].doc = BlankDoc, ![req[t].proj].there = TRUE]
    /\ req' = Past(t) /\ UNCHANGED <<active, twin, settled, kept, Counts>>

(* A run of the project trips apoptosis and blows its fuse.                *)
BlowFuse(p) ==
    /\ p \in Live /\ disk[p].doc.body # None /\ Busy(p) = {} /\ ~disk[p].blown
    /\ disk' = [disk EXCEPT ![p].blown = TRUE]
    /\ UNCHANGED <<active, twin, req, settled, kept, Counts>>

Step(t) ==
    \/ Store(t) \/ Compile(t) \/ Copy(t) \/ Manifest(t) \/ Certify(t) \/ Certified(t)
    \/ Bind(t) \/ ReceiptFile(t) \/ Read(t) \/ Contact(t) \/ SaveBody(t) \/ SaveField(t)
    \/ SetActive(t) \/ SetTwin(t) \/ Rank(t) \/ Delete(t) \/ Deleted(t) \/ Make(t)

Next ==
    \/ \E t \in Threads :
         \/ \E k \in Kinds, p \in Projects \union {None}, b \in Bodies \union {None} :
              Start(t, k, p, b)
         \/ Step(t) \/ Answer(t) \/ Raise(t) \/ Kill(t)
    \/ \E p \in Projects : BlowFuse(p)

Spec == Init /\ [][Next]_vars

-----------------------------------------------------------------------------
TypeOK ==
    /\ disk \in [Projects -> Dir]
    /\ {active, twin} \subseteq Projects \union {"cleared", None}
    /\ req \in [Threads -> [kind : Kinds \union {"idle"}, todo : Seq(Steps),
                            proj : Projects \union {None}, body : Bodies \union {None},
                            doc : Doc, ident : Bodies \union {None},
                            doomed : SUBSET Projects]]
    /\ started \in 0..MaxRequests /\ kills \in 0..MaxKills
    /\ settled \subseteq Projects
    /\ kept \in [Projects -> SUBSET Fields]
    /\ tangled \in BOOLEAN

(* check_body_identity_on_project: the hash of the stored file is the one  *)
(* the artifact names.                                                     *)
GatePasses(p) ==
    LET d == disk[p] IN
    /\ d.doc # None
    /\ d.doc.body # None =>
         /\ d.cert \in Bodies
         /\ d.files[FileOf[d.doc.body]] = d.cert

(* Once an attach returned, and until the next one writes, project.json,   *)
(* the stored bytes, the identity artifact and the fuse name one body      *)
(* (attach_body_from_urdf and its siblings), whatever was refused or       *)
(* killed before.                                                          *)
SettledAgrees ==
    ~tangled => \A p \in settled :
        LET d == disk[p] IN
        d.doc # None /\ d.doc.body # None =>
            d.doc.ident = d.doc.body /\ d.cert = d.doc.body /\ d.fuse = d.doc.body
            /\ d.files[FileOf[d.doc.body]] = d.doc.body

(* A refused or killed attach leaves the project failing the identity gate *)
(* unless the new file took the very name of the old one; the gate never   *)
(* passes another artifact than the document's (require_body_identity).    *)
GateCatches ==
    \A p \in Projects :
        GatePasses(p) /\ disk[p].doc.body # None /\ disk[p].cert # disk[p].doc.ident =>
            \E b \in Bodies \ {disk[p].doc.body} : FileOf[b] = FileOf[disk[p].doc.body]

(* A body that is used is the one its document, its artifact, its fuse and *)
(* its stored file name.                                                   *)
Attested == SettledAgrees /\ GateCatches

(* prune_projects never deletes the active project (desk page: "keep       *)
(* newest + active"), and a project selected is never told by the twin     *)
(* alone (get_active_project falls back to it).                            *)
ActiveAlive ==
    /\ ~tangled /\ active \in Projects => active \in Live
    /\ active = None => twin = None

(* What an attach that returned put into project.json is still there after *)
(* any other request on the project (update_project_last_run,              *)
(* attach_hil_receipt, update_project_field_lane and the body attaches).   *)
AttachKept == ~tangled => \A p \in Live : kept[p] \subseteq disk[p].doc.has
=============================================================================
