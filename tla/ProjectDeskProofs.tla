-------------------------- MODULE ProjectDeskProofs --------------------------
(***************************************************************************)
(* Proofs about ProjectDesk, for any projects, bodies, threads and bounds: *)
(* what a project says of its body, what an attach put there and which     *)
(* project is active agree with the files, whatever was refused or killed. *)
(*                                                                         *)
(* A script is told by which step may follow which (Follows), so that the  *)
(* inductive invariant can say what the next step of a request finds       *)
(* already done (Found) and what its last step has left (Left).            *)
(***************************************************************************)
EXTENDS ProjectDesk, Integers, TLAPS

AttachSteps == {"store", "compile", "copy", "manifest", "certify", "certified", "bind",
                "contact", "body"}

(* Which step may follow which in a request of kind k.                     *)
Follows(k, a, b) ==
    \/ a = "rank" /\ b = "delete"
    \/ a = "delete" /\ b = "make"
    \/ a = "make" /\ b \in {"compile", "absent"}
    \/ a = "store" /\ b = "compile"
    \/ a = "compile" /\ b = IF k = "upload" THEN "manifest" ELSE "copy"
    \/ a = "copy" /\ b = "manifest"
    \/ a = "manifest" /\ b = "certify"
    \/ a = "certify" /\ b = "certified"
    \/ a = "certified" /\ b = "bind"
    \/ a \in {"bind", "absent", "receipt"} /\ b = "read"
    \/ a = "read" /\ b \in {"contact", "field", "active"}
    \/ a = "contact" /\ b = "body"
    \/ a = "body" /\ b \in {"body", "absent"}
    \/ a = "active" /\ b = "twin"

(* Which steps a request of kind k has.                                    *)
Fits(k, a) ==
    /\ a \in AttachSteps => k \in Attaches
    /\ a = "field" => k \in Fields
    /\ a = "receipt" => k = "hil"
    /\ a = "make" => k \in Makes
    /\ a \in {"rank", "delete"} => k \in Makes \union {"prune"}
    /\ k \in Global => IF k = "prune" THEN a \in {"rank", "delete"} ELSE a \in {"active", "twin"}

(* How its script ends: a bootstrap never gets past its absent module.     *)
EndsWell(k, s) ==
    /\ k \in Fields /\ s # <<>> => s[Len(s)] = "field"
    /\ k \in Attaches \ {"bootstrap"} /\ s # <<>> => s[Len(s)] = "body"
    /\ k = "bootstrap" => Len(s) >= 4 /\ s[Len(s) - 3] = "absent"

Chain(k, s) ==
    /\ s \in Seq(Steps)
    /\ \A i \in 1..Len(s) : Fits(k, s[i])
    /\ \A i \in 1..Len(s) : i < Len(s) => Follows(k, s[i], s[i + 1])
Script(k, s) == Chain(k, s) /\ EndsWell(k, s)

Served(r) ==
    /\ r.kind \in Kinds /\ Script(r.kind, r.todo)
    /\ IF r.kind \in Global THEN r.proj = None ELSE r.proj \in Projects
    /\ IF r.kind \in Attaches THEN r.body \in Bodies ELSE r.body = None

Scripted == \A t \in Threads : req[t] # Idle => Served(req[t])

-----------------------------------------------------------------------------
(* However requests interleave: a file holds a body stored under its name, *)
(* and a document's digest is of a body of that name.                      *)
SameName(doc) ==
    doc.body # None => doc.ident \in Bodies /\ FileOf[doc.ident] = FileOf[doc.body]

Certifying == {"certified", "bind", "read", "contact", "body"}

NamedDir(d) ==
    /\ \A f \in Files : d.files[f] # None => FileOf[d.files[f]] = f
    /\ d.doc # None => SameName(d.doc)
NamedReq(r) ==
    /\ SameName(r.doc)
    /\ r.todo # <<>> /\ Head(r.todo) \in Certifying /\ r.kind \in Attaches =>
          r.ident \in Bodies /\ FileOf[r.ident] = FileOf[r.body]

Named ==
    /\ \A p \in Projects : NamedDir(disk[p])
    /\ \A t \in Threads : NamedReq(req[t])

Chosen ==
    /\ active = None => twin = None
    /\ \A t \in Threads : At(t, "twin") => active # None

-----------------------------------------------------------------------------
(* While requests do not overlap.                                          *)
Alone == \A t, u \in Threads : req[t] # Idle /\ req[u] # Idle => t = u

(* How far an attach r into directory d has come: nothing it wrote there   *)
(* counts as settled (S), and its bytes are there.                         *)
Stored(r, d, S) == r.proj \notin S /\ d.files[FileOf[r.body]] = r.body
Bound(r, d, S) == Stored(r, d, S) /\ r.ident = r.body /\ d.cert = r.body /\ d.fuse = r.body

(* What request r finds in its directory d at step a, act being active.    *)
Found(r, a, d, S, act) ==
    /\ r.kind \in Makes /\ a \in {"rank", "delete", "make"} => ~d.there
    /\ a = "delete" => act \notin r.doomed
    /\ a = "compile" /\ r.kind = "upload" => Stored(r, d, S)
    /\ a \in {"manifest", "certify"} => Stored(r, d, S)
    /\ a = "certified" => Stored(r, d, S) /\ r.ident = r.body
    /\ a = "bind" => Stored(r, d, S) /\ r.ident = r.body /\ d.cert = r.body
    /\ a \in {"read", "contact", "body"} /\ r.kind \in Attaches => Bound(r, d, S)
    /\ a \in {"contact", "body", "field"} => r.doc = d.doc
    /\ a \in {"contact", "body", "field", "active"} /\ r.kind # "clear" => d.doc # None

Agrees(d) ==
    d.doc # None /\ d.doc.body # None =>
        d.doc.ident = d.doc.body /\ d.cert = d.doc.body /\ d.fuse = d.doc.body
        /\ d.files[FileOf[d.doc.body]] = d.doc.body

(* What it leaves there once its script is done.                           *)
Left(r, d) ==
    /\ r.kind \in Attaches => Agrees(d)
    /\ r.kind \in Fields => d.there /\ r.kind \in d.doc.has

Ready(r, d, S, act) ==
    /\ r.todo # <<>> => Found(r, Head(r.todo), d, S, act)
    /\ r.todo = <<>> => Left(r, d)

(* What directory d of project p says, fields being the ones it must have. *)
Sound(p, d, S, fields, act) ==
    /\ p \in S => Agrees(d)
    /\ d.doc # None => fields \subseteq d.doc.has
    /\ ~d.there => fields = {} /\ d.doc = None
    /\ act = p => d.doc # None

Serial ==
    /\ Alone
    /\ \A t \in Threads : req[t] # Idle =>
          Ready(req[t], disk[req[t].proj], settled, active)
    /\ \A p \in Projects : Sound(p, disk[p], settled, kept[p], active)
Orderly == ~tangled => Serial

Inv == TypeOK /\ Scripted /\ Named /\ Chosen /\ Orderly

-----------------------------------------------------------------------------
(* The scripts.                                                            *)
LEMMA KindNames ==
  /\ Kinds = {"create", "new_open", "new_lunar", "bootstrap", "upload", "registry", "port",
              "hil", "last_run", "lane", "activate", "clear", "prune"}
  /\ "idle" \notin Kinds
BY DEF Kinds, Scripts

LEMMA Trichotomy ==
  ASSUME NEW i \in Int, NEW n \in Int
  PROVE  i < n \/ i = n \/ i > n
OBVIOUS

LEMMA UpToThree ==
  ASSUME NEW n \in 1..3, NEW i \in 1..n
  PROVE  /\ i = 1 \/ (i = 2 /\ n > 1) \/ (i = 3 /\ n > 2)
         /\ i < n => (i = 1 /\ i + 1 = 2 /\ n > 1) \/ (i = 2 /\ i + 1 = 3 /\ n > 2)
OBVIOUS

LEMMA Concat ==
  ASSUME NEW k, NEW s, NEW t, Chain(k, s), Chain(k, t), Len(s) \in Nat \ {0},
         Len(t) \in Nat \ {0}, Follows(k, s[Len(s)], t[1])
  PROVE  /\ Chain(k, s \o t) /\ Len(s \o t) = Len(s) + Len(t)
         /\ \A i \in 1..Len(t) : (s \o t)[Len(s) + i] = t[i]
         /\ \A i \in 1..Len(s) : (s \o t)[i] = s[i]
<1>1. s \in Seq(Steps) /\ t \in Seq(Steps)
  BY DEF Chain
<1>2. /\ s \o t \in Seq(Steps) /\ Len(s \o t) = Len(s) + Len(t)
      /\ \A i \in 1..Len(s) : (s \o t)[i] = s[i]
      /\ \A i \in 1..Len(t) : (s \o t)[Len(s) + i] = t[i]
  BY <1>1
<1>3. ASSUME NEW i \in 1..Len(s \o t), i > Len(s)
      PROVE  i - Len(s) \in 1..Len(t) /\ (s \o t)[i] = t[i - Len(s)]
  <2>1. i - Len(s) \in 1..Len(t) /\ Len(s) + (i - Len(s)) = i
    BY <1>2, <1>3
  <2>2. QED
    BY <1>2, <2>1
<1>4. ASSUME NEW i \in 1..Len(s \o t) PROVE Fits(k, (s \o t)[i])
  <2>1. CASE i <= Len(s)
    <3>1. i \in 1..Len(s)
      BY <2>1
    <3>2. QED
      BY <1>2, <3>1 DEF Chain
  <2>2. CASE i > Len(s)
    BY <1>3, <2>2 DEF Chain
  <2>3. QED
    BY <2>1, <2>2
<1>5. ASSUME NEW i \in 1..Len(s \o t), i < Len(s \o t)
      PROVE  Follows(k, (s \o t)[i], (s \o t)[i + 1])
  <2>0. i + 1 \in 1..Len(s \o t)
    BY <1>2, <1>5
  <2>1. CASE i < Len(s)
    <3>1. i \in 1..Len(s) /\ i + 1 \in 1..Len(s)
      BY <2>1
    <3>2. QED
      BY <1>2, <2>1, <3>1 DEF Chain
  <2>2. CASE i = Len(s)
    <3>1. (s \o t)[i] = s[Len(s)] /\ (s \o t)[i + 1] = t[1]
      <4>1. Len(s) \in 1..Len(s) /\ 1 \in 1..Len(t)
        OBVIOUS
      <4>2. QED
        BY <1>2, <2>2, <4>1
    <3>2. QED
      BY <3>1
  <2>3. CASE i > Len(s)
    <3>1. /\ i - Len(s) \in 1..Len(t) /\ (s \o t)[i] = t[i - Len(s)]
          /\ (i + 1) - Len(s) \in 1..Len(t) /\ (s \o t)[i + 1] = t[(i + 1) - Len(s)]
      <4>1. i + 1 > Len(s)
        BY <2>3
      <4>2. QED
        BY <1>3, <2>0, <2>3, <4>1
    <3> DEFINE j == i - Len(s)
    <3>2. (i + 1) - Len(s) = j + 1 /\ j < Len(t) /\ j \in 1..Len(t)
      BY <1>2, <1>5, <3>1
    <3>3. (s \o t)[i] = t[j] /\ (s \o t)[i + 1] = t[j + 1]
      BY <3>1, <3>2
    <3> HIDE DEF j
    <3>4. Follows(k, t[j], t[j + 1])
      BY <3>2 DEF Chain
    <3>5. QED
      BY <3>3, <3>4
  <2>4. Len(s) \in Int /\ i \in Int
    OBVIOUS
  <2>5. QED
    BY <2>1, <2>2, <2>3, <2>4, Trichotomy
<1>6. QED
  BY <1>2, <1>4, <1>5 DEF Chain

LEMMA ShortChain ==
  ASSUME NEW k, NEW s \in Seq(Steps), Len(s) \in 1..3,
         Fits(k, s[1]),
         Len(s) > 1 => Fits(k, s[2]) /\ Follows(k, s[1], s[2]),
         Len(s) > 2 => Fits(k, s[3]) /\ Follows(k, s[2], s[3])
  PROVE  Chain(k, s)
<1>1. ASSUME NEW i \in 1..Len(s)
      PROVE  /\ i = 1 \/ (i = 2 /\ Len(s) > 1) \/ (i = 3 /\ Len(s) > 2)
             /\ i < Len(s) => \/ i = 1 /\ i + 1 = 2 /\ Len(s) > 1
                              \/ i = 2 /\ i + 1 = 3 /\ Len(s) > 2
  BY UpToThree
<1>2. \A i \in 1..Len(s) : Fits(k, s[i])
  BY <1>1
<1>3. \A i \in 1..Len(s) : i < Len(s) => Follows(k, s[i], s[i + 1])
  BY <1>1
<1>4. QED
  BY <1>2, <1>3 DEF Chain

LEMMA CreateChain ==
  ASSUME NEW k \in Makes
  PROVE  Chain(k, CreateScript) /\ Len(CreateScript) = 3 /\ CreateScript[3] = "make"
<1>1. /\ CreateScript \in Seq(Steps) /\ Len(CreateScript) = 3
      /\ CreateScript[1] = "rank" /\ CreateScript[2] = "delete" /\ CreateScript[3] = "make"
  BY DEF CreateScript, Steps
<1>2. k \notin Global
  BY DEF Makes, Global
<1>3. Fits(k, "rank") /\ Fits(k, "delete") /\ Fits(k, "make")
  BY <1>2 DEF Fits, AttachSteps
<1>4. Follows(k, "rank", "delete") /\ Follows(k, "delete", "make")
  BY DEF Follows
<1>5. QED
  BY <1>1, <1>3, <1>4, ShortChain

LEMMA AttachFits ==
  ASSUME NEW k \in Attaches
  PROVE  /\ \A a \in AttachSteps \union {"read", "absent", "active", "twin"} : Fits(k, a)
         /\ k \notin Fields /\ k \notin Global
<1>1. k \notin Fields /\ k \notin Global
  BY DEF Attaches, Fields, Global
<1>2. QED
  BY <1>1 DEF Fits, AttachSteps

LEMMA RegistryChain ==
  ASSUME NEW k \in Attaches \ {"upload"}
  PROVE  /\ Chain(k, RegistryScript) /\ Len(RegistryScript) = 10
         /\ RegistryScript[1] = "compile" /\ RegistryScript[10] = "body"
<1> DEFINE s == RegistryScript
<1>1. /\ s \in Seq(Steps) /\ Len(s) = 10
      /\ s[1] = "compile" /\ s[2] = "copy" /\ s[3] = "manifest" /\ s[4] = "certify"
      /\ s[5] = "certified" /\ s[6] = "bind" /\ s[7] = "read" /\ s[8] = "contact"
      /\ s[9] = "body" /\ s[10] = "body"
  BY DEF RegistryScript, Steps
<1> HIDE DEF s
<1>2. ASSUME NEW i \in 1..10 PROVE s[i] \in AttachSteps \union {"read"}
  <2>1. i \in {1, 2, 3, 4, 5, 6, 7, 8, 9, 10}
    OBVIOUS
  <2>2. QED
    BY <1>1, <2>1 DEF AttachSteps
<1>3. ASSUME NEW i \in 1..10, i < 10 PROVE Follows(k, s[i], s[i + 1])
  <2>1. /\ Follows(k, s[1], s[2]) /\ Follows(k, s[2], s[3]) /\ Follows(k, s[3], s[4])
        /\ Follows(k, s[4], s[5]) /\ Follows(k, s[5], s[6]) /\ Follows(k, s[6], s[7])
        /\ Follows(k, s[7], s[8]) /\ Follows(k, s[8], s[9]) /\ Follows(k, s[9], s[10])
    BY <1>1 DEF Follows
  <2>2. i \in {1, 2, 3, 4, 5, 6, 7, 8, 9}
    BY <1>3
  <2>3. QED
    BY <2>1, <2>2
<1>4. \A i \in 1..10 : Fits(k, s[i])
  BY <1>2, AttachFits
<1>5. Chain(k, s)
  BY <1>1, <1>3, <1>4 DEF Chain
<1>6. QED
  BY <1>1, <1>5 DEF s

LEMMA OpenChain ==
  ASSUME NEW k \in Attaches \ {"upload"}, k \in Makes
  PROVE  /\ Chain(k, CreateScript \o RegistryScript)
         /\ Len(CreateScript \o RegistryScript) = 13
         /\ (CreateScript \o RegistryScript)[13] = "body"
<1> DEFINE s == CreateScript
           t == RegistryScript
<1>1. /\ Chain(k, s) /\ Len(s) = 3 /\ s[3] = "make"
      /\ Chain(k, t) /\ Len(t) = 10 /\ t[1] = "compile" /\ t[10] = "body"
  BY CreateChain, RegistryChain
<1> HIDE DEF s, t
<1>2. Follows(k, s[Len(s)], t[1])
  BY <1>1 DEF Follows
<1>3. /\ Chain(k, s \o t) /\ Len(s \o t) = Len(s) + Len(t)
      /\ \A i \in 1..Len(t) : (s \o t)[Len(s) + i] = t[i]
  <2>1. Len(s) \in Nat \ {0} /\ Len(t) \in Nat \ {0}
    BY <1>1
  <2>2. Chain(k, s) /\ Chain(k, t)
    BY <1>1
  <2>3. QED
    BY <1>2, <2>1, <2>2, Concat
<1>4. (s \o t)[Len(s) + 10] = t[10] /\ Len(s) + 10 = 13
  <2>1. 10 \in 1..Len(t)
    BY <1>1
  <2>2. QED
    BY <1>1, <1>3, <2>1
<1>5. QED
  BY <1>1, <1>3, <1>4 DEF s, t

LEMMA UploadChain ==
  /\ Chain("upload", UploadScript) /\ Len(UploadScript) = 9 /\ UploadScript[9] = "body"
<1> DEFINE s == UploadScript
<1>1. /\ s \in Seq(Steps) /\ Len(s) = 9
      /\ s[1] = "store" /\ s[2] = "compile" /\ s[3] = "manifest" /\ s[4] = "certify"
      /\ s[5] = "certified" /\ s[6] = "bind" /\ s[7] = "read" /\ s[8] = "contact"
      /\ s[9] = "body"
  BY DEF UploadScript, Steps
<1> HIDE DEF s
<1>2. ASSUME NEW i \in 1..9 PROVE s[i] \in AttachSteps \union {"read"}
  <2>1. i \in {1, 2, 3, 4, 5, 6, 7, 8, 9}
    OBVIOUS
  <2>2. QED
    BY <1>1, <2>1 DEF AttachSteps
<1>3. ASSUME NEW i \in 1..9, i < 9 PROVE Follows("upload", s[i], s[i + 1])
  <2>1. /\ Follows("upload", s[1], s[2]) /\ Follows("upload", s[2], s[3])
        /\ Follows("upload", s[3], s[4]) /\ Follows("upload", s[4], s[5])
        /\ Follows("upload", s[5], s[6]) /\ Follows("upload", s[6], s[7])
        /\ Follows("upload", s[7], s[8]) /\ Follows("upload", s[8], s[9])
    BY <1>1 DEF Follows
  <2>2. i \in {1, 2, 3, 4, 5, 6, 7, 8}
    BY <1>3
  <2>3. QED
    BY <2>1, <2>2
<1>4. \A i \in 1..9 : Fits("upload", s[i])
  BY <1>2, AttachFits DEF Attaches
<1>5. Chain("upload", s)
  BY <1>1, <1>3, <1>4 DEF Chain
<1>6. QED
  BY <1>1, <1>5 DEF s

LEMMA ScriptsRun ==
  ASSUME NEW k \in Kinds
  PROVE  Script(k, Scripts[k])
<1>1. CASE k \in {"hil", "last_run", "lane"}
  <2> DEFINE s == Scripts[k]
  <2>1. /\ s \in Seq(Steps)
        /\ k = "hil" => Len(s) = 3 /\ s[1] = "receipt" /\ s[2] = "read" /\ s[3] = "field"
        /\ k # "hil" => Len(s) = 2 /\ s[1] = "read" /\ s[2] = "field"
    <3>1. CASE k = "hil"
      <4>1. s = <<"receipt", "read", "field">>
        BY <3>1 DEF Scripts
      <4>2. QED
        BY <3>1, <4>1 DEF Steps
    <3>2. CASE k \in {"last_run", "lane"}
      <4>1. s = <<"read", "field">>
        BY <3>2 DEF Scripts
      <4>2. QED
        BY <3>2, <4>1 DEF Steps
    <3>3. QED
      BY <1>1, <3>1, <3>2
  <2> HIDE DEF s
  <2>2. k \in Fields /\ k \notin Attaches /\ k \notin Global /\ k \notin Makes
    BY <1>1 DEF Fields, Attaches, Global, Makes
  <2>3. Fits(k, "read") /\ Fits(k, "field") /\ (k = "hil" => Fits(k, "receipt"))
    BY <2>2 DEF Fits, AttachSteps
  <2>4. Follows(k, "read", "field") /\ Follows(k, "receipt", "read")
    BY DEF Follows
  <2>5. Chain(k, s)
    BY <2>1, <2>3, <2>4, ShortChain
  <2>6. QED
    BY <1>1, <2>1, <2>2, <2>5 DEF Script, EndsWell, s
<1>2. CASE k \in {"create", "port", "activate", "clear", "prune", "upload"}
  <2>0. k \notin Fields /\ (k = "upload" \/ k \notin Attaches) /\ k # "bootstrap"
    BY <1>2 DEF Fields, Attaches
  <2>1. ASSUME Chain(k, Scripts[k]), k # "upload" PROVE Script(k, Scripts[k])
    BY <2>0, <2>1 DEF Script, EndsWell
  <2>2. CASE k = "create"
    <3>1. Scripts[k] = CreateScript
      BY <2>2 DEF Scripts
    <3>2. QED
      BY <2>1, <2>2, <3>1, CreateChain DEF Makes
  <2>3. CASE k = "upload"
    <3>1. Scripts[k] = UploadScript
      BY <2>3 DEF Scripts
    <3>2. QED
      BY <2>0, <2>3, <3>1, UploadChain DEF Script, EndsWell
  <2>4. CASE k = "port"
    <3> DEFINE s == Scripts[k]
    <3>1. s \in Seq(Steps) /\ Len(s) = 1 /\ s[1] = "absent"
      BY <2>4 DEF Scripts, Steps
    <3> HIDE DEF s
    <3>2. Fits(k, "absent")
      BY <2>4 DEF Fits, AttachSteps, Global
    <3>3. Chain(k, s)
      BY <3>1, <3>2, ShortChain
    <3>4. QED
      BY <2>1, <2>4, <3>3 DEF s
  <2>5. CASE k = "activate"
    <3> DEFINE s == Scripts[k]
    <3>1. s \in Seq(Steps) /\ Len(s) = 3 /\ s[1] = "read" /\ s[2] = "active" /\ s[3] = "twin"
      BY <2>5 DEF Scripts, Steps
    <3> HIDE DEF s
    <3>2. Fits(k, "read") /\ Fits(k, "active") /\ Fits(k, "twin")
      BY <2>5 DEF Fits, AttachSteps, Global
    <3>3. Follows(k, "read", "active") /\ Follows(k, "active", "twin")
      BY DEF Follows
    <3>4. Chain(k, s)
      BY <3>1, <3>2, <3>3, ShortChain
    <3>5. QED
      BY <2>1, <2>5, <3>4 DEF s
  <2>6. CASE k = "clear"
    <3> DEFINE s == Scripts[k]
    <3>1. s \in Seq(Steps) /\ Len(s) = 2 /\ s[1] = "active" /\ s[2] = "twin"
      BY <2>6 DEF Scripts, Steps
    <3> HIDE DEF s
    <3>2. Fits(k, "active") /\ Fits(k, "twin") /\ Follows(k, "active", "twin")
      BY <2>6 DEF Fits, AttachSteps, Global, Follows
    <3>3. Chain(k, s)
      BY <3>1, <3>2, ShortChain
    <3>4. QED
      BY <2>1, <2>6, <3>3 DEF s
  <2>7. CASE k = "prune"
    <3> DEFINE s == Scripts[k]
    <3>1. s \in Seq(Steps) /\ Len(s) = 2 /\ s[1] = "rank" /\ s[2] = "delete"
      BY <2>7 DEF Scripts, Steps
    <3> HIDE DEF s
    <3>2. Fits(k, "rank") /\ Fits(k, "delete") /\ Follows(k, "rank", "delete")
      BY <2>7 DEF Fits, AttachSteps, Global, Follows
    <3>3. Chain(k, s)
      BY <3>1, <3>2, ShortChain
    <3>4. QED
      BY <2>1, <2>7, <3>3 DEF s
  <2>8. QED
    BY <1>2, <2>2, <2>3, <2>4, <2>5, <2>6, <2>7
<1>3. CASE k = "registry"
  <2>1. Chain(k, RegistryScript) /\ Len(RegistryScript) = 10 /\ RegistryScript[10] = "body"
    BY <1>3, RegistryChain DEF Attaches
  <2>2. Scripts[k] = RegistryScript
    BY <1>3 DEF Scripts
  <2>3. k \notin Fields /\ k # "bootstrap"
    BY <1>3 DEF Fields
  <2>4. QED
    BY <2>1, <2>2, <2>3 DEF Script, EndsWell
<1>4. CASE k = "new_open"
  <2>1. Scripts[k] = CreateScript \o RegistryScript
    BY <1>4 DEF Scripts
  <2>2. k \in Makes /\ k \in Attaches \ {"upload", "bootstrap"} /\ k \notin Fields
    BY <1>4 DEF Makes, Attaches, Fields
  <2>4. /\ Chain(k, CreateScript \o RegistryScript)
        /\ Len(CreateScript \o RegistryScript) = 13
        /\ (CreateScript \o RegistryScript)[13] = "body"
    BY <2>2, OpenChain
  <2>5. QED
    BY <1>4, <2>1, <2>2, <2>4 DEF Script, EndsWell
<1>5. CASE k = "new_lunar"
  <2>1. Scripts[k] = CreateScript \o <<"absent">>
    BY <1>5 DEF Scripts
  <2>2. k \in Makes /\ k \notin Attaches /\ k \notin Fields /\ k \notin Global
    BY <1>5 DEF Makes, Attaches, Fields, Global
  <2> DEFINE t == <<"absent">>
  <2>3. Chain(k, t) /\ Len(t) = 1 /\ t[1] = "absent"
    <3>1. Fits(k, "absent")
      BY <2>2 DEF Fits, AttachSteps
    <3>2. t \in Seq(Steps) /\ Len(t) = 1 /\ t[1] = "absent"
      BY DEF Steps
    <3> HIDE DEF t
    <3>3. QED
      BY <3>1, <3>2, ShortChain
  <2> HIDE DEF t
  <2>4. Follows(k, CreateScript[3], t[1])
    BY <2>2, <2>3, CreateChain DEF Follows
  <2>5. Chain(k, CreateScript \o t)
    BY <2>2, <2>3, <2>4, CreateChain, Concat
  <2>6. QED
    BY <1>5, <2>1, <2>2, <2>5 DEF Script, EndsWell, t
<1>6. CASE k = "bootstrap"
  <2> DEFINE rest == <<"absent", "read", "active", "twin">>
             first == CreateScript \o RegistryScript
  <2>1. Scripts[k] = (CreateScript \o RegistryScript) \o rest
    BY <1>6 DEF Scripts
  <2>2. k \in Makes /\ k \in Attaches \ {"upload"} /\ k \notin Fields /\ k \notin Global
    BY <1>6 DEF Makes, Attaches, Fields, Global
  <2>4. Chain(k, first) /\ Len(first) = 13 /\ first[13] = "body"
    BY <2>2, OpenChain
  <2>5. Chain(k, rest) /\ Len(rest) = 4 /\ rest[1] = "absent"
    <3>1. /\ rest \in Seq(Steps) /\ Len(rest) = 4 /\ rest[1] = "absent"
          /\ rest[2] = "read" /\ rest[3] = "active" /\ rest[4] = "twin"
      BY DEF Steps
    <3> HIDE DEF rest
    <3>2. 1..4 = {1, 2, 3, 4}
      OBVIOUS
    <3>3. \A i \in 1..4 : Fits(k, rest[i])
      BY <2>2, <3>1, <3>2, AttachFits
    <3>4. /\ Follows(k, rest[1], rest[2]) /\ Follows(k, rest[2], rest[3])
          /\ Follows(k, rest[3], rest[4])
      BY <3>1 DEF Follows
    <3>5. ASSUME NEW i \in 1..4, i < 4 PROVE Follows(k, rest[i], rest[i + 1])
      <4>0. i \in Int /\ 1 <= i /\ i < 4
        BY <3>5
      <4>1. (i = 1 /\ i + 1 = 2) \/ (i = 2 /\ i + 1 = 3) \/ (i = 3 /\ i + 1 = 4)
        BY <4>0
      <4>2. QED
        BY <3>4, <4>1
    <3>6. QED
      BY <3>1, <3>3, <3>5 DEF Chain
  <2> HIDE DEF first, rest
  <2>6. Follows(k, first[13], rest[1])
    BY <2>4, <2>5 DEF Follows
  <2>7. Chain(k, first \o rest) /\ Len(first \o rest) = 17 /\ (first \o rest)[13 + 1] = rest[1]
    <3>1. /\ Chain(k, first \o rest) /\ Len(first \o rest) = Len(first) + Len(rest)
          /\ \A i \in 1..Len(rest) : (first \o rest)[Len(first) + i] = rest[i]
      <4>1. Len(first) \in Nat \ {0} /\ Len(rest) \in Nat \ {0}
        BY <2>4, <2>5
      <4>2. Chain(k, first) /\ Chain(k, rest) /\ Follows(k, first[Len(first)], rest[1])
        BY <2>4, <2>5, <2>6
      <4>3. QED
        BY <4>1, <4>2, Concat
    <3>2. 1 \in 1..Len(rest)
      BY <2>5
    <3>3. QED
      BY <2>4, <2>5, <3>1, <3>2
  <2>8. Scripts[k] = first \o rest
    BY <2>1 DEF first
  <2>9. QED
    <3>1. Len(Scripts[k]) >= 4 /\ Len(Scripts[k]) - 3 = 13 + 1 /\ Scripts[k][13 + 1] = rest[1]
      BY <2>7, <2>8
    <3>2. EndsWell(k, Scripts[k])
      BY <1>6, <2>2, <2>5, <3>1 DEF EndsWell
    <3>3. QED
      BY <2>7, <2>8, <3>2 DEF Script
<1>7. QED
  BY <1>1, <1>2, <1>3, <1>4, <1>5, <1>6, KindNames

LEMMA TailFacts ==
  ASSUME NEW s \in Seq(Steps), s # <<>>
  PROVE  /\ Head(s) = s[1] /\ Tail(s) \in Seq(Steps) /\ Len(s) \in Nat \ {0}
         /\ Len(Tail(s)) = Len(s) - 1
         /\ \A i \in 1..Len(Tail(s)) : Tail(s)[i] = s[i + 1]
         /\ Tail(s) # <<>> => Head(Tail(s)) = s[2] /\ Len(s) > 1
         /\ Tail(s) = <<>> <=> Len(s) = 1
<1>1. Head(s) = s[1] /\ Tail(s) \in Seq(Steps) /\ Len(s) \in Nat \ {0}
  OBVIOUS
<1>2. Len(Tail(s)) = Len(s) - 1 /\ \A i \in 1..Len(Tail(s)) : Tail(s)[i] = s[i + 1]
  OBVIOUS
<1>3. \A q \in Seq(Steps) : /\ Len(q) \in Nat /\ (q = <<>> <=> Len(q) = 0)
                           /\ q # <<>> => Head(q) = q[1]
  OBVIOUS
<1>4. Tail(s) = <<>> <=> Len(s) = 1
  BY <1>1, <1>2, <1>3
<1>5. ASSUME Tail(s) # <<>> PROVE Head(Tail(s)) = s[2] /\ Len(s) > 1
  <2>1. Head(Tail(s)) = Tail(s)[1] /\ 1 \in 1..Len(Tail(s)) /\ Len(s) > 1
    BY <1>1, <1>2, <1>3, <1>5
  <2>2. QED
    BY <1>2, <2>1
<1>6. QED
  BY <1>1, <1>2, <1>4, <1>5

(* After a step, what is left is a script, and the next step may follow.   *)
LEMMA ScriptTail ==
  ASSUME NEW k, NEW s, Script(k, s), s # <<>>, Head(s) # "absent"
  PROVE  /\ Script(k, Tail(s)) /\ Fits(k, Head(s))
         /\ Tail(s) # <<>> => /\ Fits(k, Head(Tail(s)))
                              /\ Follows(k, Head(s), Head(Tail(s)))
         /\ Tail(s) = <<>> => /\ k \in Fields => Head(s) = "field"
                              /\ k \in Attaches => Head(s) = "body"
<1>1. s \in Seq(Steps)
  BY DEF Script, Chain
<1>2. /\ Head(s) = s[1] /\ Tail(s) \in Seq(Steps) /\ Len(s) \in Nat \ {0}
      /\ Len(Tail(s)) = Len(s) - 1
      /\ \A i \in 1..Len(Tail(s)) : Tail(s)[i] = s[i + 1]
      /\ Tail(s) # <<>> => Head(Tail(s)) = s[2] /\ Len(s) > 1
      /\ Tail(s) = <<>> <=> Len(s) = 1
  BY <1>1, TailFacts
<1>3. Chain(k, Tail(s))
  <2>1. ASSUME NEW i \in 1..Len(Tail(s))
        PROVE  i + 1 \in 1..Len(s) /\ Tail(s)[i] = s[i + 1]
    BY <1>2
  <2>2. ASSUME NEW i \in 1..Len(Tail(s)), i < Len(Tail(s))
        PROVE  Follows(k, Tail(s)[i], Tail(s)[i + 1])
    <3>1. i + 1 \in 1..Len(s) /\ i + 1 < Len(s) /\ i + 1 \in 1..Len(Tail(s))
      BY <1>2, <2>2
    <3>2. Follows(k, s[i + 1], s[(i + 1) + 1])
      BY <3>1 DEF Script, Chain
    <3>3. QED
      BY <2>1, <3>1, <3>2
  <2>3. QED
    BY <1>2, <2>1, <2>2 DEF Script, Chain
<1>4. EndsWell(k, Tail(s))
  <2>1. ASSUME Tail(s) # <<>> PROVE Tail(s)[Len(Tail(s))] = s[Len(s)]
    <3>1. Len(Tail(s)) \in 1..Len(Tail(s))
      BY <1>2, <2>1
    <3>2. QED
      BY <1>2, <3>1
  <2>2. ASSUME k = "bootstrap"
        PROVE  Len(Tail(s)) >= 4 /\ Tail(s)[Len(Tail(s)) - 3] = "absent"
    <3>1. Len(s) >= 4 /\ s[Len(s) - 3] = "absent"
      BY <2>2 DEF Script, EndsWell
    <3>2. Len(s) # 4
      BY <1>2, <3>1
    <3>3. Len(Tail(s)) - 3 \in 1..Len(Tail(s)) /\ (Len(Tail(s)) - 3) + 1 = Len(s) - 3
      BY <1>2, <3>1, <3>2
    <3>4. QED
      BY <1>2, <3>1, <3>2, <3>3
  <2>3. QED
    BY <2>1, <2>2 DEF Script, EndsWell
<1>5. Fits(k, s[1]) /\ (Len(s) > 1 => Fits(k, s[2]) /\ Follows(k, s[1], s[2]))
  <2>1. 1 \in 1..Len(s) /\ (Len(s) > 1 => 2 \in 1..Len(s) /\ 1 < Len(s) /\ 1 + 1 = 2)
    BY <1>2
  <2>2. QED
    BY <2>1 DEF Script, Chain
<1>6. ASSUME Len(s) = 1
      PROVE  (k \in Fields => s[1] = "field") /\ (k \in Attaches => s[1] = "body")
  <2>1. k # "bootstrap" /\ s[Len(s)] = s[1]
    BY <1>6 DEF Script, EndsWell
  <2>2. QED
    BY <2>1 DEF Script, EndsWell
<1>7. QED
  BY <1>2, <1>3, <1>4, <1>5, <1>6 DEF Script

-----------------------------------------------------------------------------
(* What each step does to its request and to the directory it works in.    *)
Request == [kind : Kinds \union {"idle"}, todo : Seq(Steps), proj : Projects \union {None},
            body : Bodies \union {None}, doc : Doc, ident : Bodies \union {None},
            doomed : SUBSET Projects]

(* t goes on to the next step of its script, the others stay where they are*)
Moves(t) ==
    /\ req' \in [Threads -> Request]
    /\ \A u \in Threads : u # t => req'[u] = req[u]
    /\ req'[t].todo = Tail(req[t].todo) /\ req'[t].kind = req[t].kind
    /\ req'[t].proj = req[t].proj /\ req'[t].body = req[t].body

Keeps(t) == /\ req'[t].doc = req[t].doc /\ req'[t].ident = req[t].ident
            /\ req'[t].doomed = req[t].doomed

Elsewhere(p) == \A q \in Projects : q # p => disk'[q] = disk[q]

LEMMA PastMoves ==
  ASSUME TypeOK, NEW t \in Threads, req[t].todo # <<>>
  PROVE  /\ req' = Past(t) => Moves(t) /\ Keeps(t)
         /\ \A x \in Bodies : req' = [Past(t) EXCEPT ![t].ident = x] =>
              /\ Moves(t) /\ req'[t].doc = req[t].doc /\ req'[t].doomed = req[t].doomed
              /\ req'[t].ident = x
         /\ \A x \in Doc : req' = [Past(t) EXCEPT ![t].doc = x] =>
              /\ Moves(t) /\ req'[t].ident = req[t].ident /\ req'[t].doomed = req[t].doomed
              /\ req'[t].doc = x
         /\ \A x \in SUBSET Projects : req' = [Past(t) EXCEPT ![t].doomed = x] =>
              /\ Moves(t) /\ req'[t].ident = req[t].ident /\ req'[t].doc = req[t].doc
              /\ req'[t].doomed = x
<1>1. req \in [Threads -> Request]
  BY DEF TypeOK, Request
<1>2. Tail(req[t].todo) \in Seq(Steps)
  BY <1>1, TailFacts DEF Request
<1> DEFINE r == [req[t] EXCEPT !.todo = Tail(@)]
<1>3. /\ r \in Request /\ r.todo = Tail(req[t].todo) /\ r.kind = req[t].kind
      /\ r.proj = req[t].proj /\ r.body = req[t].body /\ r.doc = req[t].doc
      /\ r.ident = req[t].ident /\ r.doomed = req[t].doomed
  BY <1>1, <1>2 DEF Request
<1>4. /\ Past(t) \in [Threads -> Request] /\ Past(t)[t] = r
      /\ \A u \in Threads : u # t => Past(t)[u] = req[u]
  BY <1>1, <1>3 DEF Past
<1> HIDE DEF r
<1>5. ASSUME NEW q, NEW y, y \in Request, q = [Past(t) EXCEPT ![t] = y]
      PROVE  /\ q \in [Threads -> Request] /\ q[t] = y
             /\ \A u \in Threads : u # t => q[u] = req[u]
  BY <1>4, <1>5
<1>6. ASSUME req' = Past(t) PROVE Moves(t) /\ Keeps(t)
  BY <1>3, <1>4, <1>6 DEF Moves, Keeps
<1>7. ASSUME NEW x \in Bodies, req' = [Past(t) EXCEPT ![t].ident = x]
      PROVE  /\ Moves(t) /\ req'[t].doc = req[t].doc /\ req'[t].doomed = req[t].doomed
             /\ req'[t].ident = x
  <2> DEFINE y == [r EXCEPT !.ident = x]
  <2>1. /\ y \in Request /\ y.todo = r.todo /\ y.kind = r.kind /\ y.proj = r.proj
        /\ y.body = r.body /\ y.doc = r.doc /\ y.ident = x /\ y.doomed = r.doomed
    BY <1>3 DEF Request
  <2>2. req' = [Past(t) EXCEPT ![t] = y]
    BY <1>4, <1>7
  <2> HIDE DEF y
  <2>3. QED
    BY <1>3, <1>5, <2>1, <2>2 DEF Moves
<1>8. ASSUME NEW x \in Doc, req' = [Past(t) EXCEPT ![t].doc = x]
      PROVE  /\ Moves(t) /\ req'[t].ident = req[t].ident /\ req'[t].doomed = req[t].doomed
             /\ req'[t].doc = x
  <2> DEFINE y == [r EXCEPT !.doc = x]
  <2>1. /\ y \in Request /\ y.todo = r.todo /\ y.kind = r.kind /\ y.proj = r.proj
        /\ y.body = r.body /\ y.doc = x /\ y.ident = r.ident /\ y.doomed = r.doomed
    BY <1>3 DEF Request
  <2>2. req' = [Past(t) EXCEPT ![t] = y]
    BY <1>4, <1>8
  <2> HIDE DEF y
  <2>3. QED
    BY <1>3, <1>5, <2>1, <2>2 DEF Moves
<1>9. ASSUME NEW x \in SUBSET Projects, req' = [Past(t) EXCEPT ![t].doomed = x]
      PROVE  /\ Moves(t) /\ req'[t].ident = req[t].ident /\ req'[t].doc = req[t].doc
             /\ req'[t].doomed = x
  <2> DEFINE y == [r EXCEPT !.doomed = x]
  <2>1. /\ y \in Request /\ y.todo = r.todo /\ y.kind = r.kind /\ y.proj = r.proj
        /\ y.body = r.body /\ y.doc = r.doc /\ y.ident = r.ident /\ y.doomed = x
    BY <1>3 DEF Request
  <2>2. req' = [Past(t) EXCEPT ![t] = y]
    BY <1>4, <1>9
  <2> HIDE DEF y
  <2>3. QED
    BY <1>3, <1>5, <2>1, <2>2 DEF Moves
<1>10. QED
  BY <1>6, <1>7, <1>8, <1>9

(* What the script says of the request that does step a.                   *)
LEMMA AtStep ==
  ASSUME TypeOK, Scripted, NEW t \in Threads, NEW a, At(t, a), a # "absent"
  PROVE  LET r == req[t]  rest == Tail(r.todo) IN
         /\ r # Idle /\ r.todo # <<>> /\ Head(r.todo) = a /\ r.kind \in Kinds
         /\ Fits(r.kind, a) /\ Served(r) /\ Script(r.kind, rest)
         /\ r.kind \notin Global => r.proj \in Projects
         /\ r.kind \in Attaches => r.body \in Bodies /\ r.proj \in Projects
         /\ rest # <<>> => Fits(r.kind, Head(rest)) /\ Follows(r.kind, a, Head(rest))
         /\ rest = <<>> => (r.kind \in Fields => a = "field") /\ (r.kind \in Attaches => a = "body")
<1>1. req[t].todo # <<>> /\ Head(req[t].todo) = a
  BY DEF At
<1>2. req[t] # Idle
  BY <1>1 DEF Idle
<1>3. Served(req[t])
  BY <1>2 DEF Scripted
<1>4. Attaches \cap Global = {}
  BY DEF Attaches, Global
<1>5. /\ Script(req[t].kind, Tail(req[t].todo)) /\ Fits(req[t].kind, a)
      /\ Tail(req[t].todo) # <<>> => /\ Fits(req[t].kind, Head(Tail(req[t].todo)))
                                     /\ Follows(req[t].kind, a, Head(Tail(req[t].todo)))
      /\ Tail(req[t].todo) = <<>> => /\ req[t].kind \in Fields => a = "field"
                                     /\ req[t].kind \in Attaches => a = "body"
  BY <1>1, <1>3, ScriptTail DEF Served
<1>6. QED
  BY <1>1, <1>2, <1>3, <1>4, <1>5 DEF Served

LEMMA MovesScripted ==
  ASSUME TypeOK, Scripted, NEW t \in Threads, NEW a, At(t, a), a # "absent", Moves(t)
  PROVE  Scripted'
<1>1. Served(req[t]) /\ Script(req[t].kind, Tail(req[t].todo))
  BY AtStep
<1>2. Served(req'[t])
  BY <1>1 DEF Moves, Served
<1>3. \A u \in Threads : req'[u] # Idle => Served(req'[u])
  BY <1>2 DEF Moves, Scripted
<1>4. QED
  BY <1>3 DEF Scripted, Served

LEMMA BytesEffect ==
  ASSUME ProjectDeskAssumption, TypeOK, Scripted, NEW t \in Threads, Store(t) \/ Copy(t)
  PROVE  LET p == req[t].proj  b == req[t].body IN
         /\ TypeOK' /\ Scripted' /\ Moves(t) /\ Keeps(t) /\ p \in Projects /\ b \in Bodies
         /\ Elsewhere(p) /\ disk'[p].files = [disk[p].files EXCEPT ![FileOf[b]] = b]
         /\ disk'[p].doc = disk[p].doc /\ disk'[p].cert = disk[p].cert
         /\ disk'[p].fuse = disk[p].fuse /\ disk'[p].there
<1> DEFINE p == req[t].proj
           b == req[t].body
<1>1. PICK a \in {"store", "copy"} : At(t, a)
  BY DEF Store, Copy
<1>2. req[t].kind \in Attaches /\ p \in Projects /\ b \in Bodies
  <2>1. a \in AttachSteps /\ a # "absent"
    BY <1>1 DEF AttachSteps
  <2>2. QED
    BY <1>1, <2>1, AtStep DEF Fits
<1>3. FileOf[b] \in Files
  BY <1>2 DEF ProjectDeskAssumption
<1>4. Moves(t) /\ Keeps(t)
  <2>1. req[t].todo # <<>> /\ req' = Past(t)
    BY DEF Store, Copy, At
  <2>2. QED
    BY <2>1, PastMoves
<1>5. /\ disk' \in [Projects -> Dir] /\ Elsewhere(p)
      /\ disk'[p].files = [disk[p].files EXCEPT ![FileOf[b]] = b]
      /\ disk'[p].doc = disk[p].doc /\ disk'[p].cert = disk[p].cert
      /\ disk'[p].fuse = disk[p].fuse /\ disk'[p].there
  <2>1. disk' = [disk EXCEPT ![p].files[FileOf[b]] = b, ![p].there = TRUE]
    BY DEF Store, Copy
  <2>2. disk \in [Projects -> Dir]
    BY DEF TypeOK
  <2> HIDE DEF p, b
  <2>3. QED
    BY <1>2, <1>3, <2>1, <2>2 DEF Dir, Elsewhere
<1>6. Scripted'
  BY <1>1, <1>4, MovesScripted
<1>7. TypeOK'
  BY <1>4, <1>5 DEF TypeOK, Moves, Request, Store, Copy, Counts
<1>8. QED
  BY <1>2, <1>4, <1>5, <1>6, <1>7

(* The steps that change one entry of the directory at most.               *)
LEMMA ManifestEffect ==
  ASSUME ProjectDeskAssumption, TypeOK, Scripted, NEW t \in Threads,
         Manifest(t) \/ ReceiptFile(t)
  PROVE  LET p == req[t].proj IN
         /\ TypeOK' /\ Scripted' /\ Moves(t) /\ Keeps(t) /\ p \in Projects /\ Elsewhere(p)
         /\ disk'[p] = [disk[p] EXCEPT !.there = TRUE]
<1> DEFINE p == req[t].proj
<1>1. PICK a \in {"manifest", "receipt"} : At(t, a)
  BY DEF Manifest, ReceiptFile
<1>2. p \in Projects
  <2>1. a # "absent" /\ req[t].kind \notin Global
    BY <1>1, AtStep DEF Fits, AttachSteps, Attaches, Global
  <2>2. QED
    BY <1>1, <2>1, AtStep
<1>3. Moves(t) /\ Keeps(t)
  <2>1. req[t].todo # <<>> /\ req' = Past(t)
    BY DEF Manifest, ReceiptFile, At
  <2>2. QED
    BY <2>1, PastMoves
<1>4. /\ disk' \in [Projects -> Dir] /\ Elsewhere(p)
      /\ disk'[p] = [disk[p] EXCEPT !.there = TRUE]
  <2>1. disk' = [disk EXCEPT ![p].there = TRUE]
    BY DEF Manifest, ReceiptFile
  <2>2. disk \in [Projects -> Dir]
    BY DEF TypeOK
  <2> HIDE DEF p
  <2>3. QED
    BY <1>2, <2>1, <2>2 DEF Dir, Elsewhere
<1>5. Scripted'
  BY <1>1, <1>3, MovesScripted
<1>6. TypeOK'
  BY <1>3, <1>4 DEF TypeOK, Moves, Request, Manifest, ReceiptFile, Counts
<1>7. QED
  BY <1>2, <1>3, <1>4, <1>5, <1>6

LEMMA CertifyEffect ==
  ASSUME ProjectDeskAssumption, TypeOK, Scripted, NEW t \in Threads, Certify(t)
  PROVE  LET p == req[t].proj  b == disk[p].files[FileOf[req[t].body]] IN
         /\ TypeOK' /\ Scripted' /\ Moves(t) /\ req'[t].doc = req[t].doc /\ req'[t].ident = b
         /\ p \in Projects /\ b \in Bodies /\ req[t].body \in Bodies
         /\ FileOf[req[t].body] \in Files
         /\ Elsewhere(p) /\ disk'[p] = [disk[p] EXCEPT !.cert = Torn, !.there = TRUE]
<1> DEFINE p == req[t].proj
           b == disk[p].files[FileOf[req[t].body]]
<1>1. At(t, "certify") /\ b # None
  BY DEF Certify
<1>2. p \in Projects /\ req[t].body \in Bodies
  BY <1>1, AtStep DEF Fits, AttachSteps
<1>3. FileOf[req[t].body] \in Files /\ b \in Bodies
  <2>1. FileOf[req[t].body] \in Files
    BY <1>2 DEF ProjectDeskAssumption
  <2>2. disk[p].files \in [Files -> Bodies \union {None}]
    BY <1>2 DEF TypeOK, Dir
  <2>3. QED
    BY <1>1, <2>1, <2>2
<1>4. Moves(t) /\ req'[t].doc = req[t].doc /\ req'[t].ident = b
  <2>1. req[t].todo # <<>> /\ req' = [Past(t) EXCEPT ![t].ident = b]
    BY DEF Certify, At
  <2>2. QED
    BY <1>3, <2>1, PastMoves
<1>5. /\ disk' \in [Projects -> Dir] /\ Elsewhere(p)
      /\ disk'[p] = [disk[p] EXCEPT !.cert = Torn, !.there = TRUE]
  <2>1. disk' = [disk EXCEPT ![p].cert = Torn, ![p].there = TRUE]
    BY DEF Certify
  <2>2. disk \in [Projects -> Dir]
    BY DEF TypeOK
  <2> HIDE DEF p
  <2>3. QED
    BY <1>2, <2>1, <2>2 DEF Dir, Elsewhere
<1>6. Scripted'
  BY <1>1, <1>4, MovesScripted
<1>7. TypeOK'
  BY <1>4, <1>5 DEF TypeOK, Moves, Request, Certify, Counts
<1>8. QED
  BY <1>2, <1>3, <1>4, <1>5, <1>6, <1>7

(* The identity file and the fuse are written into a directory.            *)
LEMMA IdentityWritten ==
  ASSUME NEW p \in Projects, NEW b \in Bodies \union {None}, disk \in [Projects -> Dir]
  PROVE  /\ [disk EXCEPT ![p].cert = b, ![p].there = TRUE] \in [Projects -> Dir]
         /\ [disk EXCEPT ![p].fuse = b, ![p].there = TRUE] \in [Projects -> Dir]
<1>1. ASSUME NEW e \in [Projects -> Dir] PROVE [e EXCEPT ![p].there = TRUE] \in [Projects -> Dir]
  <2>1. [e[p] EXCEPT !.there = TRUE] \in Dir
    BY DEF Dir
  <2>2. QED
    BY <2>1
<1>2. [disk EXCEPT ![p].cert = b] \in [Projects -> Dir]
  <2>1. [disk[p] EXCEPT !.cert = b] \in Dir
    BY DEF Dir
  <2>2. QED
    BY <2>1
<1>3. [disk EXCEPT ![p].fuse = b] \in [Projects -> Dir]
  <2>1. [disk[p] EXCEPT !.fuse = b] \in Dir
    BY DEF Dir
  <2>2. QED
    BY <2>1
<1>4. QED
  BY <1>1, <1>2, <1>3, Zenon

LEMMA CertifiedEffect ==
  ASSUME ProjectDeskAssumption, TypeOK, Scripted, NEW t \in Threads, Certified(t)
  PROVE  LET p == req[t].proj IN
         /\ TypeOK' /\ Scripted' /\ Moves(t) /\ Keeps(t) /\ p \in Projects /\ Elsewhere(p)
         /\ disk'[p] = [disk[p] EXCEPT !.cert = req[t].ident, !.there = TRUE]
<1> DEFINE p == req[t].proj
           b == req[t].ident
<1>1. At(t, "certified")
  BY DEF Certified
<1>2. p \in Projects
  BY <1>1, AtStep DEF Fits, AttachSteps
<1>3. Moves(t) /\ Keeps(t)
  <2>1. req[t].todo # <<>> /\ req' = Past(t)
    BY DEF Certified, At
  <2>2. QED
    BY <2>1, PastMoves
<1>4. /\ disk' \in [Projects -> Dir] /\ Elsewhere(p)
      /\ disk'[p] = [disk[p] EXCEPT !.cert = b, !.there = TRUE]
  <2>1. disk' = [disk EXCEPT ![p].cert = b, ![p].there = TRUE]
    BY DEF Certified
  <2>2. disk \in [Projects -> Dir] /\ b \in Bodies \union {None}
    BY DEF TypeOK
  <2> HIDE DEF p, b
  <2>3. disk' \in [Projects -> Dir]
    BY <1>2, <2>1, <2>2, IdentityWritten
  <2>4. Elsewhere(p) /\ disk'[p] = [disk[p] EXCEPT !.cert = b, !.there = TRUE]
    BY <1>2, <2>1, <2>2 DEF Elsewhere
  <2>5. QED
    BY <2>3, <2>4
<1>5. Scripted'
  BY <1>1, <1>3, MovesScripted
<1>6. TypeOK'
  BY <1>3, <1>4 DEF TypeOK, Moves, Request, Certified, Counts
<1>7. QED
  BY <1>2, <1>3, <1>4, <1>5, <1>6

LEMMA BindEffect ==
  ASSUME ProjectDeskAssumption, TypeOK, Scripted, NEW t \in Threads, Bind(t)
  PROVE  LET p == req[t].proj IN
         /\ TypeOK' /\ Scripted' /\ Moves(t) /\ Keeps(t) /\ p \in Projects /\ Elsewhere(p)
         /\ disk'[p] = [disk[p] EXCEPT !.fuse = req[t].ident, !.there = TRUE]
<1> DEFINE p == req[t].proj
           b == req[t].ident
<1>1. At(t, "bind")
  BY DEF Bind
<1>2. p \in Projects
  BY <1>1, AtStep DEF Fits, AttachSteps
<1>3. Moves(t) /\ Keeps(t)
  <2>1. req[t].todo # <<>> /\ req' = Past(t)
    BY DEF Bind, At
  <2>2. QED
    BY <2>1, PastMoves
<1>4. /\ disk' \in [Projects -> Dir] /\ Elsewhere(p)
      /\ disk'[p] = [disk[p] EXCEPT !.fuse = b, !.there = TRUE]
  <2>1. disk' = [disk EXCEPT ![p].fuse = b, ![p].there = TRUE]
    BY DEF Bind
  <2>2. disk \in [Projects -> Dir] /\ b \in Bodies \union {None}
    BY DEF TypeOK
  <2> HIDE DEF p, b
  <2>3. disk' \in [Projects -> Dir]
    BY <1>2, <2>1, <2>2, IdentityWritten
  <2>4. Elsewhere(p) /\ disk'[p] = [disk[p] EXCEPT !.fuse = b, !.there = TRUE]
    BY <1>2, <2>1, <2>2 DEF Elsewhere
  <2>5. QED
    BY <2>3, <2>4
<1>5. Scripted'
  BY <1>1, <1>3, MovesScripted
<1>6. TypeOK'
  BY <1>3, <1>4 DEF TypeOK, Moves, Request, Bind, Counts
<1>7. QED
  BY <1>2, <1>3, <1>4, <1>5, <1>6

(* The steps that touch no directory.                                      *)
LEMMA QuietEffect ==
  ASSUME ProjectDeskAssumption, TypeOK, Scripted, NEW t \in Threads,
         Compile(t) \/ Contact(t) \/ Deleted(t)
  PROVE  TypeOK' /\ Scripted' /\ Moves(t) /\ Keeps(t) /\ disk' = disk
<1>1. PICK a \in {"compile", "contact", "delete"} : At(t, a)
  BY DEF Compile, Contact, Deleted
<1>2. Moves(t) /\ Keeps(t)
  <2>1. req[t].todo # <<>> /\ req' = Past(t)
    BY DEF Compile, Contact, Deleted, At
  <2>2. QED
    BY <2>1, PastMoves
<1>3. Scripted'
  BY <1>1, <1>2, MovesScripted
<1>4. disk' = disk
  BY DEF Compile, Contact, Deleted
<1>5. TypeOK'
  BY <1>2, <1>4 DEF TypeOK, Moves, Request, Compile, Contact, Deleted, Counts
<1>6. QED
  BY <1>2, <1>3, <1>4, <1>5

LEMMA ReadEffect ==
  ASSUME ProjectDeskAssumption, TypeOK, Scripted, NEW t \in Threads, Read(t)
  PROVE  LET p == req[t].proj IN
         /\ TypeOK' /\ Scripted' /\ Moves(t) /\ disk' = disk /\ p \in Projects
         /\ req'[t].ident = req[t].ident /\ req'[t].doc = disk[p].doc /\ disk[p].doc # None
<1> DEFINE p == req[t].proj
<1>1. At(t, "read") /\ disk[p].doc # None
  BY DEF Read
<1>2. p \in Projects
  BY <1>1, AtStep DEF Fits, Global
<1>3. disk[p].doc \in Doc
  BY <1>1, <1>2 DEF TypeOK, Dir
<1>4. Moves(t) /\ req'[t].ident = req[t].ident /\ req'[t].doc = disk[p].doc
  <2>1. req[t].todo # <<>> /\ req' = [Past(t) EXCEPT ![t].doc = disk[p].doc]
    BY DEF Read, At
  <2>2. QED
    BY <1>3, <2>1, PastMoves
<1>5. Scripted'
  BY <1>1, <1>4, MovesScripted
<1>6. TypeOK'
  BY <1>4 DEF TypeOK, Moves, Request, Read, Counts
<1>7. QED
  BY <1>1, <1>2, <1>4, <1>5, <1>6 DEF Read

LEMMA SaveEffect ==
  ASSUME ProjectDeskAssumption, TypeOK, Scripted, NEW t \in Threads, NEW doc \in Doc,
         req[t].todo # <<>>, req[t].proj \in Projects, Save(t, doc)
  PROVE  LET p == req[t].proj IN
         /\ Moves(t) /\ req'[t].ident = req[t].ident /\ req'[t].doc = doc
         /\ disk' \in [Projects -> Dir] /\ Elsewhere(p)
         /\ disk'[p] = [disk[p] EXCEPT !.doc = doc, !.there = TRUE] /\ doc # None
<1> DEFINE p == req[t].proj
<1>1. Moves(t) /\ req'[t].ident = req[t].ident /\ req'[t].doc = doc
  <2>1. req' = [Past(t) EXCEPT ![t].doc = doc]
    BY DEF Save
  <2>2. QED
    BY <2>1, PastMoves
<1>2. /\ disk' \in [Projects -> Dir] /\ Elsewhere(p)
      /\ disk'[p] = [disk[p] EXCEPT !.doc = doc, !.there = TRUE]
  <2>1. disk' = [disk EXCEPT ![p].doc = doc, ![p].there = TRUE]
    BY DEF Save
  <2>2. disk \in [Projects -> Dir] /\ p \in Projects
    BY DEF TypeOK
  <2> HIDE DEF p
  <2>3. QED
    BY <2>1, <2>2 DEF Dir, Elsewhere
<1>3. doc # None
  BY DEF ProjectDeskAssumption
<1>4. QED
  BY <1>1, <1>2, <1>3

LEMMA SaveBodyEffect ==
  ASSUME ProjectDeskAssumption, TypeOK, Scripted, NEW t \in Threads, SaveBody(t)
  PROVE  LET p == req[t].proj  doc == BodySaved(t) IN
         /\ TypeOK' /\ Scripted' /\ Moves(t) /\ req'[t].ident = req[t].ident
         /\ req'[t].doc = doc /\ p \in Projects /\ Elsewhere(p)
         /\ disk'[p] = [disk[p] EXCEPT !.doc = doc, !.there = TRUE] /\ doc # None
         /\ doc.body = req[t].body /\ doc.ident = req[t].ident
         /\ doc.has = req[t].doc.has \ {"lane"}
         /\ req[t].body \in Bodies /\ req[t].kind \in Attaches
<1> DEFINE doc == BodySaved(t)
<1>1. At(t, "body") /\ Save(t, doc) /\ req[t].todo # <<>>
  BY DEF SaveBody, At
<1>2. req[t].proj \in Projects /\ req[t].body \in Bodies /\ req[t].kind \in Attaches
  BY <1>1, AtStep DEF Fits, AttachSteps
<1>3. req[t].doc \in Doc /\ req[t].ident \in Bodies \union {None}
  BY DEF TypeOK
<1>4. /\ doc \in Doc /\ doc.body = req[t].body /\ doc.ident = req[t].ident
      /\ doc.has = req[t].doc.has \ {"lane"}
  BY <1>2, <1>3 DEF BodySaved, Doc
<1> HIDE DEF doc
<1>5. /\ Moves(t) /\ req'[t].ident = req[t].ident /\ req'[t].doc = doc
      /\ disk' \in [Projects -> Dir] /\ Elsewhere(req[t].proj)
      /\ disk'[req[t].proj] = [disk[req[t].proj] EXCEPT !.doc = doc, !.there = TRUE]
      /\ doc # None
  BY <1>1, <1>2, <1>4, SaveEffect
<1>6. Scripted'
  BY <1>1, <1>5, MovesScripted
<1>7. TypeOK'
  <2>1. kept' \in [Projects -> SUBSET Fields]
    BY <1>2 DEF SaveBody, TypeOK
  <2>2. QED
    BY <1>1, <1>5, <2>1 DEF TypeOK, Moves, Request, Save, Counts
<1>8. QED
  BY <1>2, <1>4, <1>5, <1>6, <1>7 DEF doc

LEMMA SaveFieldEffect ==
  ASSUME ProjectDeskAssumption, TypeOK, Scripted, NEW t \in Threads, SaveField(t)
  PROVE  LET p == req[t].proj  doc == FieldSaved(t) IN
         /\ TypeOK' /\ Scripted' /\ Moves(t) /\ req'[t].ident = req[t].ident
         /\ req'[t].doc = doc /\ p \in Projects /\ Elsewhere(p)
         /\ disk'[p] = [disk[p] EXCEPT !.doc = doc, !.there = TRUE] /\ doc # None
         /\ doc.body = req[t].doc.body /\ doc.ident = req[t].doc.ident
         /\ doc.has = req[t].doc.has \union {req[t].kind}
         /\ req[t].kind \in Fields
<1> DEFINE doc == FieldSaved(t)
<1>1. At(t, "field") /\ Save(t, doc) /\ req[t].todo # <<>>
  BY DEF SaveField, At
<1>2. req[t].proj \in Projects /\ req[t].kind \in Fields
  BY <1>1, AtStep DEF Fits, AttachSteps, Fields, Global
<1>3. req[t].doc \in Doc
  BY DEF TypeOK
<1>4. /\ doc \in Doc /\ doc.body = req[t].doc.body /\ doc.ident = req[t].doc.ident
      /\ doc.has = req[t].doc.has \union {req[t].kind}
  BY <1>2, <1>3 DEF FieldSaved, Doc
<1> HIDE DEF doc
<1>5. /\ Moves(t) /\ req'[t].ident = req[t].ident /\ req'[t].doc = doc
      /\ disk' \in [Projects -> Dir] /\ Elsewhere(req[t].proj)
      /\ disk'[req[t].proj] = [disk[req[t].proj] EXCEPT !.doc = doc, !.there = TRUE]
      /\ doc # None
  BY <1>1, <1>2, <1>4, SaveEffect
<1>6. Scripted'
  BY <1>1, <1>5, MovesScripted
<1>7. TypeOK'
  <2>1. /\ active' = active /\ twin' = twin /\ settled' = settled /\ started' = started
        /\ kills' = kills /\ tangled' = tangled
    BY <1>1 DEF Save, Counts
  <2>2. kept' = kept
    BY DEF SaveField
  <2>3. QED
    BY <1>5, <2>1, <2>2 DEF TypeOK, Moves, Request
<1>8. QED
  BY <1>2, <1>4, <1>5, <1>6, <1>7 DEF doc

LEMMA ActiveEffect ==
  ASSUME ProjectDeskAssumption, TypeOK, Scripted, NEW t \in Threads, SetActive(t) \/ SetTwin(t)
  PROVE  /\ TypeOK' /\ Scripted' /\ Moves(t) /\ Keeps(t) /\ disk' = disk
         /\ IF req[t].kind = "clear" THEN Target(t) = "cleared"
                                     ELSE Target(t) = req[t].proj /\ req[t].proj \in Projects
         /\ Target(t) # None
<1>1. PICK a \in {"active", "twin"} : At(t, a)
  BY DEF SetActive, SetTwin
<1>2. Moves(t) /\ Keeps(t)
  <2>1. req[t].todo # <<>> /\ req' = Past(t)
    BY DEF SetActive, SetTwin, At
  <2>2. QED
    BY <2>1, PastMoves
<1>3. Scripted'
  BY <1>1, <1>2, MovesScripted
<1>4. disk' = disk
  BY DEF SetActive, SetTwin
<1>5. /\ IF req[t].kind = "clear" THEN Target(t) = "cleared"
                                  ELSE Target(t) = req[t].proj /\ req[t].proj \in Projects
      /\ Target(t) # None /\ Target(t) \in Projects \union {"cleared", None}
  <2>1. CASE req[t].kind = "clear"
    BY <2>1 DEF Target, ProjectDeskAssumption
  <2>2. CASE req[t].kind # "clear"
    <3>1. req[t].kind \notin Global
      BY <1>1, <2>2, AtStep DEF Fits, Global
    <3>2. req[t].proj \in Projects
      BY <1>1, <3>1, AtStep
    <3>3. QED
      BY <2>2, <3>2 DEF Target, ProjectDeskAssumption
  <2>3. QED
    BY <2>1, <2>2
<1>6. TypeOK'
  BY <1>2, <1>4, <1>5 DEF TypeOK, Moves, Request, SetActive, SetTwin, Counts
<1>7. QED
  BY <1>2, <1>3, <1>4, <1>5, <1>6

LEMMA RankEffect ==
  ASSUME ProjectDeskAssumption, TypeOK, Scripted, NEW t \in Threads, Rank(t)
  PROVE  /\ TypeOK' /\ Scripted' /\ Moves(t) /\ disk' = disk
         /\ req'[t].ident = req[t].ident /\ req'[t].doc = req[t].doc
         /\ req'[t].doomed \subseteq Dirs \ {ActiveProject}
<1>1. At(t, "rank") /\ req[t].todo # <<>>
  BY DEF Rank, At
<1>2. PICK K \in KeepSets :
        req' = [Past(t) EXCEPT ![t].doomed =
                  IF Skips(t) THEN {} ELSE Dirs \ (K \union {ActiveProject})]
  BY DEF Rank
<1> DEFINE x == IF Skips(t) THEN {} ELSE Dirs \ (K \union {ActiveProject})
<1>3. x \in SUBSET Projects /\ x \subseteq Dirs \ {ActiveProject}
  BY DEF Dirs
<1>4. req' = [Past(t) EXCEPT ![t].doomed = x]
  BY <1>2
<1> HIDE DEF x
<1>5. /\ Moves(t) /\ req'[t].ident = req[t].ident /\ req'[t].doc = req[t].doc
      /\ req'[t].doomed = x
  BY <1>1, <1>3, <1>4, PastMoves
<1>6. Scripted'
  BY <1>1, <1>5, MovesScripted
<1>7. TypeOK'
  BY <1>5 DEF TypeOK, Moves, Request, Rank, Counts
<1>8. QED
  BY <1>3, <1>5, <1>6, <1>7 DEF Rank

LEMMA MakeEffect ==
  ASSUME ProjectDeskAssumption, TypeOK, Scripted, NEW t \in Threads, Make(t)
  PROVE  LET p == req[t].proj IN
         /\ TypeOK' /\ Scripted' /\ Moves(t) /\ Keeps(t) /\ p \in Projects /\ Elsewhere(p)
         /\ disk'[p] = [disk[p] EXCEPT !.doc = BlankDoc, !.there = TRUE]
         /\ req[t].kind \in Makes /\ BlankDoc \in Doc /\ BlankDoc # None
<1> DEFINE p == req[t].proj
<1>1. At(t, "make")
  BY DEF Make
<1>2. p \in Projects /\ req[t].kind \in Makes
  BY <1>1, AtStep DEF Fits, Makes, Global
<1>3. Moves(t) /\ Keeps(t)
  <2>1. req[t].todo # <<>> /\ req' = Past(t)
    BY DEF Make, At
  <2>2. QED
    BY <2>1, PastMoves
<1>4. BlankDoc \in Doc /\ BlankDoc # None
  <2>1. BlankDoc \in Doc
    BY DEF BlankDoc, Doc
  <2>2. QED
    BY <2>1 DEF ProjectDeskAssumption
<1>5. /\ disk' \in [Projects -> Dir] /\ Elsewhere(p)
      /\ disk'[p] = [disk[p] EXCEPT !.doc = BlankDoc, !.there = TRUE]
  <2>1. disk' = [disk EXCEPT ![p].doc = BlankDoc, ![p].there = TRUE]
    BY DEF Make
  <2>2. disk \in [Projects -> Dir]
    BY DEF TypeOK
  <2> HIDE DEF p
  <2>3. QED
    BY <1>2, <1>4, <2>1, <2>2 DEF Dir, Elsewhere
<1>6. Scripted'
  BY <1>1, <1>3, MovesScripted
<1>7. TypeOK'
  BY <1>3, <1>5 DEF TypeOK, Moves, Request, Make, Counts
<1>8. QED
  BY <1>2, <1>3, <1>4, <1>5, <1>6, <1>7

(* A directory whose deletion has begun.                                   *)
Shrunk(p) ==
    \/ disk'[p] = [disk[p] EXCEPT !.doc = None] /\ disk[p].doc # None /\ kept' = kept
    \/ /\ disk'[p] = [disk[p] EXCEPT !.files = NoDir.files, !.cert = None]
       /\ disk[p].files # NoDir.files /\ kept' = kept
    \/ disk'[p] = NoDir /\ kept' = [kept EXCEPT ![p] = {}]

LEMMA DeleteEffect ==
  ASSUME ProjectDeskAssumption, TypeOK, Scripted, NEW t \in Threads, Delete(t)
  PROVE  /\ TypeOK' /\ Scripted' /\ req[t] # Idle
         /\ \A u \in Threads : u # t => req'[u] = req[u]
         /\ req'[t].todo = req[t].todo /\ req'[t].kind = req[t].kind
         /\ req'[t].proj = req[t].proj /\ req'[t].body = req[t].body
         /\ req'[t].ident = req[t].ident /\ req'[t].doc = req[t].doc
         /\ req'[t].doomed \subseteq req[t].doomed
         /\ \E p \in req[t].doomed : p \in Projects /\ Elsewhere(p) /\ Shrunk(p)
<1>1. At(t, "delete") /\ req[t] # Idle /\ Served(req[t])
  <2>1. At(t, "delete")
    BY DEF Delete
  <2>2. QED
    BY <2>1, AtStep
<1>2. /\ req \in [Threads -> Request] /\ disk \in [Projects -> Dir]
      /\ kept \in [Projects -> SUBSET Fields] /\ req[t].doomed \subseteq Projects
      /\ NoDir \in Dir
  <2>1. NoDir \in Dir
    BY DEF NoDir, Dir
  <2>2. QED
    BY <2>1 DEF TypeOK, Request
<1>3. PICK p \in req[t].doomed :
         \/ /\ disk[p].doc # None
            /\ disk' = [disk EXCEPT ![p].doc = None]
            /\ UNCHANGED <<req, kept>>
         \/ /\ disk[p].files # NoDir.files
            /\ disk' = [disk EXCEPT ![p].files = NoDir.files, ![p].cert = None]
            /\ UNCHANGED <<req, kept>>
         \/ /\ disk' = [disk EXCEPT ![p] = NoDir]
            /\ req' = [req EXCEPT ![t].doomed = @ \ {p}]
            /\ kept' = [kept EXCEPT ![p] = {}]
  BY DEF Delete
<1>4. p \in Projects
  BY <1>2
<1>5. disk' \in [Projects -> Dir] /\ Elsewhere(p) /\ Shrunk(p)
  <2>1. CASE disk' = [disk EXCEPT ![p].doc = None] /\ disk[p].doc # None /\ UNCHANGED <<req, kept>>
    BY <1>2, <1>4, <2>1 DEF Dir, Elsewhere, Shrunk
  <2>2. CASE /\ disk' = [disk EXCEPT ![p].files = NoDir.files, ![p].cert = None]
             /\ disk[p].files # NoDir.files /\ UNCHANGED <<req, kept>>
    <3> DEFINE f == NoDir.files
    <3>1. f \in [Files -> Bodies \union {None}]
      BY DEF NoDir
    <3>2. disk' = [disk EXCEPT ![p].files = f, ![p].cert = None]
      BY <2>2
    <3> HIDE DEF f
    <3>3. /\ disk' \in [Projects -> Dir] /\ Elsewhere(p)
          /\ disk'[p] = [disk[p] EXCEPT !.files = f, !.cert = None]
      BY <1>2, <1>4, <3>1, <3>2 DEF Dir, Elsewhere
    <3>4. QED
      BY <2>2, <3>3 DEF Shrunk, f
  <2>3. CASE disk' = [disk EXCEPT ![p] = NoDir] /\ kept' = [kept EXCEPT ![p] = {}]
    BY <1>2, <1>4, <2>3 DEF Elsewhere, Shrunk
  <2>4. QED
    BY <1>3, <2>1, <2>2, <2>3
<1>6. /\ req' \in [Threads -> Request] /\ \A u \in Threads : u # t => req'[u] = req[u]
      /\ req'[t].todo = req[t].todo /\ req'[t].kind = req[t].kind
      /\ req'[t].proj = req[t].proj /\ req'[t].body = req[t].body
      /\ req'[t].ident = req[t].ident /\ req'[t].doc = req[t].doc
      /\ req'[t].doomed \subseteq req[t].doomed
  <2>1. CASE req' = req
    BY <1>2, <2>1
  <2>2. CASE req' = [req EXCEPT ![t].doomed = @ \ {p}]
    <3> DEFINE x == req[t].doomed \ {p}
    <3>1. x \in SUBSET Projects /\ x \subseteq req[t].doomed
      BY <1>2
    <3>2. req' = [req EXCEPT ![t].doomed = x]
      BY <2>2
    <3> HIDE DEF x
    <3>3. QED
      BY <1>2, <3>1, <3>2 DEF Request
  <2>3. QED
    BY <1>3, <2>1, <2>2
<1>7. kept' \in [Projects -> SUBSET Fields]
  BY <1>2, <1>3, <1>4
<1>8. TypeOK'
  <2>1. /\ active' = active /\ twin' = twin /\ settled' \subseteq settled
        /\ started' = started /\ kills' = kills /\ tangled' = tangled
    BY DEF Delete, Counts
  <2>2. QED
    BY <1>5, <1>6, <1>7, <2>1 DEF TypeOK, Request
<1>9. Scripted'
  <2>1. Served(req'[t])
    BY <1>1, <1>6 DEF Served
  <2>2. \A u \in Threads : req'[u] # Idle => Served(req'[u])
    BY <1>6, <2>1 DEF Scripted
  <2>3. QED
    BY <2>2 DEF Scripted, Served
<1>10. QED
  BY <1>1, <1>4, <1>5, <1>6, <1>8, <1>9

LEMMA StepTypes ==
  ASSUME ProjectDeskAssumption, TypeOK, Scripted, NEW t \in Threads, Step(t)
  PROVE  TypeOK' /\ Scripted'
<1>1. CASE Store(t) \/ Copy(t)
  BY <1>1, BytesEffect
<1>2. CASE Manifest(t) \/ ReceiptFile(t)
  BY <1>2, ManifestEffect
<1>3. CASE Certify(t) \/ Certified(t) \/ Bind(t)
  BY <1>3, CertifyEffect, CertifiedEffect, BindEffect
<1>4. CASE Compile(t) \/ Contact(t) \/ Deleted(t)
  BY <1>4, QuietEffect
<1>5. CASE Read(t) \/ SaveBody(t) \/ SaveField(t)
  BY <1>5, ReadEffect, SaveBodyEffect, SaveFieldEffect
<1>6. CASE SetActive(t) \/ SetTwin(t)
  BY <1>6, ActiveEffect
<1>7. CASE Rank(t) \/ Delete(t) \/ Make(t)
  BY <1>7, RankEffect, DeleteEffect, MakeEffect
<1>8. QED
  BY <1>1, <1>2, <1>3, <1>4, <1>5, <1>6, <1>7 DEF Step

(* A request that arrives.                                                 *)
LEMMA StartEffect ==
  ASSUME ProjectDeskAssumption, TypeOK, Scripted, NEW t \in Threads, NEW k \in Kinds,
         NEW p \in Projects \union {None}, NEW b \in Bodies \union {None}, Start(t, k, p, b)
  PROVE  /\ TypeOK' /\ Scripted' /\ req[t] = Idle
         /\ \A u \in Threads : u # t => req'[u] = req[u]
         /\ req'[t].kind = k /\ req'[t].todo = Scripts[k] /\ req'[t].proj = p
         /\ req'[t].body = b /\ req'[t].doc = BlankDoc /\ req'[t].ident = None
         /\ req'[t].doomed = {} /\ Served(req'[t])
         /\ k \in Makes => disk[p] = NoDir
<1>1. Script(k, Scripts[k]) /\ Scripts[k] \in Seq(Steps)
  BY ScriptsRun DEF Script, Chain
<1>2. BlankDoc \in Doc
  BY DEF BlankDoc, Doc
<1> DEFINE s == Scripts[k]
           r == [Idle EXCEPT !.kind = k, !.todo = s, !.proj = p, !.body = b]
<1>3. /\ r \in Request /\ r.kind = k /\ r.todo = s /\ r.proj = p /\ r.body = b
      /\ r.doc = BlankDoc /\ r.ident = None /\ r.doomed = {}
  <2>1. s \in Seq(Steps)
    BY <1>1
  <2> HIDE DEF s
  <2>2. QED
    BY <1>2, <2>1 DEF Idle, Request
<1>4. /\ req' = [req EXCEPT ![t] = r] /\ req \in [Threads -> Request] /\ req[t] = Idle
  BY DEF Start, TypeOK, Request
<1> HIDE DEF r
<1>5. /\ req' \in [Threads -> Request] /\ req'[t] = r
      /\ \A u \in Threads : u # t => req'[u] = req[u]
  BY <1>3, <1>4
<1>6. /\ k \in Makes => Fresh # {} /\ p = CHOOSE q \in Fresh : TRUE
      /\ k \notin Makes \union Global => p \in Live
      /\ k \in Global => p = None
  BY DEF Start, Makes, Global
<1>7. k \in Makes => p \in Projects /\ disk[p] = NoDir
  BY <1>6 DEF Fresh, TypeOK
<1>8. IF k \in Global THEN p = None ELSE p \in Projects
  BY <1>6, <1>7 DEF Live
<1>9. IF k \in Attaches THEN b \in Bodies ELSE b = None
  <2>1. \/ k = "upload" /\ b \in Bodies
        \/ k \in Attaches \ {"upload"} /\ b \in Registry
        \/ k \notin Attaches /\ b = None
    BY DEF Start
  <2>2. Registry \subseteq Bodies /\ "upload" \in Attaches
    BY DEF ProjectDeskAssumption, Attaches
  <2>3. QED
    BY <2>1, <2>2
<1>10. Served(r)
  BY <1>1, <1>3, <1>8, <1>9 DEF Served
<1>11. Scripted'
  <2>1. \A u \in Threads : req'[u] # Idle => Served(req'[u])
    BY <1>5, <1>10 DEF Scripted
  <2>2. QED
    BY <2>1 DEF Scripted, Served
<1>12. TypeOK'
  <2>1. started' \in 0..MaxRequests
    BY DEF Start, TypeOK, ProjectDeskAssumption
  <2>2. tangled' \in BOOLEAN
    BY DEF Start
  <2>3. QED
    BY <1>5, <2>1, <2>2 DEF TypeOK, Start, Request
<1>13. QED
  BY <1>3, <1>4, <1>5, <1>7, <1>10, <1>11, <1>12

(* A request that ends, and what happens outside of the requests.          *)
LEMMA EndEffect ==
  ASSUME ProjectDeskAssumption, TypeOK, Scripted, NEW t \in Threads,
         Answer(t) \/ Raise(t) \/ Kill(t)
  PROVE  /\ TypeOK' /\ Scripted' /\ req[t] # Idle /\ Served(req[t]) /\ disk' = disk
         /\ active' = active /\ twin' = twin /\ tangled' = tangled
         /\ req'[t] = Idle /\ \A u \in Threads : u # t => req'[u] = req[u]
         /\ req[t].kind \in Fields => req[t].proj \in Projects
<1>1. req[t] # Idle /\ req' = [req EXCEPT ![t] = Idle] /\ Served(req[t])
  BY DEF Answer, Raise, Kill, Scripted
<1>2. /\ disk' = disk /\ active' = active /\ twin' = twin
      /\ started' = started /\ tangled' = tangled
  BY DEF Answer, Raise, Kill, Counts
<1>3. req \in [Threads -> Request] /\ Idle \in Request
  <2>1. <<>> \in Seq(Steps) /\ BlankDoc \in Doc
    BY DEF BlankDoc, Doc
  <2>2. QED
    BY <2>1 DEF TypeOK, Request, Idle
<1>4. /\ req' \in [Threads -> Request] /\ req'[t] = Idle
      /\ \A u \in Threads : u # t => req'[u] = req[u]
  BY <1>1, <1>3
<1>5. /\ req[t].kind \in Fields => req[t].proj \in Projects
      /\ req[t].kind \in Attaches => req[t].proj \in Projects
  BY <1>1 DEF Served, Fields, Attaches, Global
<1>6. Scripted'
  <2>1. \A u \in Threads : req'[u] # Idle => Served(req'[u])
    BY <1>4 DEF Scripted
  <2>2. QED
    BY <2>1 DEF Scripted, Served
<1>7. settled' \subseteq Projects
  BY <1>5 DEF Answer, Raise, Kill, TypeOK
<1>8. kept' \in [Projects -> SUBSET Fields]
  BY <1>5 DEF Answer, Raise, Kill, TypeOK
<1>9. kills' \in 0..MaxKills
  BY DEF Answer, Raise, Kill, TypeOK, Counts, ProjectDeskAssumption
<1>10. TypeOK'
  BY <1>2, <1>4, <1>7, <1>8, <1>9 DEF TypeOK, Request
<1>11. QED
  BY <1>1, <1>2, <1>4, <1>5, <1>6, <1>10

LEMMA BlowEffect ==
  ASSUME ProjectDeskAssumption, TypeOK, Scripted, NEW p \in Projects, BlowFuse(p)
  PROVE  /\ TypeOK' /\ Scripted' /\ Elsewhere(p)
         /\ disk'[p] = [disk[p] EXCEPT !.blown = TRUE]
<1>1. /\ disk' \in [Projects -> Dir] /\ Elsewhere(p)
      /\ disk'[p] = [disk[p] EXCEPT !.blown = TRUE]
  <2>1. disk' = [disk EXCEPT ![p].blown = TRUE]
    BY DEF BlowFuse
  <2>2. disk \in [Projects -> Dir]
    BY DEF TypeOK
  <2>3. QED
    BY <2>1, <2>2 DEF Dir, Elsewhere
<1>2. TypeOK'
  BY <1>1 DEF TypeOK, BlowFuse, Counts
<1>3. Scripted'
  BY DEF BlowFuse, Scripted, Served
<1>4. QED
  BY <1>1, <1>2, <1>3

LEMMA TypesInit == ASSUME ProjectDeskAssumption, Init PROVE TypeOK /\ Scripted
<1>1. NoDir \in Dir /\ Idle \in Request
  <2>1. <<>> \in Seq(Steps) /\ BlankDoc \in Doc
    BY DEF BlankDoc, Doc
  <2>2. QED
    BY <2>1 DEF NoDir, Dir, Idle, Request
<1>2. TypeOK
  <2>1. disk \in [Projects -> Dir] /\ req \in [Threads -> Request]
    BY <1>1 DEF Init
  <2>2. started \in 0..MaxRequests /\ kills \in 0..MaxKills
    BY DEF Init, ProjectDeskAssumption
  <2>3. /\ {active, twin} \subseteq Projects \union {"cleared", None}
        /\ settled \subseteq Projects /\ kept \in [Projects -> SUBSET Fields]
        /\ tangled \in BOOLEAN
    BY DEF Init
  <2>4. QED
    BY <2>1, <2>2, <2>3 DEF TypeOK, Request
<1>3. QED
  BY <1>2 DEF Init, Scripted

LEMMA TypesStep ==
  ASSUME ProjectDeskAssumption, TypeOK, Scripted, [Next]_vars
  PROVE  TypeOK' /\ Scripted'
<1>1. ASSUME NEW t \in Threads, Step(t) PROVE TypeOK' /\ Scripted'
  BY <1>1, StepTypes
<1>2. ASSUME NEW t \in Threads, NEW k \in Kinds, NEW p \in Projects \union {None},
             NEW b \in Bodies \union {None}, Start(t, k, p, b)
      PROVE  TypeOK' /\ Scripted'
  BY <1>2, StartEffect
<1>3. ASSUME NEW t \in Threads, Answer(t) \/ Raise(t) \/ Kill(t) PROVE TypeOK' /\ Scripted'
  BY <1>3, EndEffect
<1>4. ASSUME NEW p \in Projects, BlowFuse(p) PROVE TypeOK' /\ Scripted'
  BY <1>4, BlowEffect
<1>5. CASE UNCHANGED vars
  BY <1>5 DEF vars, TypeOK, Scripted, Served
<1>6. QED
  BY <1>1, <1>2, <1>3, <1>4, <1>5 DEF Next

-----------------------------------------------------------------------------
(* Names: what is stored, certified and written down.                      *)
LEMMA NamedFrame ==
  ASSUME Named, NEW t \in Threads, \A u \in Threads : u # t => req'[u] = req[u],
         NEW p, Elsewhere(p), p \in Projects => NamedDir(disk'[p]), NamedReq(req'[t])
  PROVE  Named'
<1>1. \A q \in Projects : NamedDir(disk'[q])
  BY DEF Named, Elsewhere
<1>2. \A u \in Threads : NamedReq(req'[u])
  BY DEF Named
<1>3. QED
  BY <1>1, <1>2 DEF Named, NamedDir, NamedReq, SameName

(* The digest a step needs was there for the step before, or is new.       *)
LEMMA NamedNext ==
  ASSUME TypeOK, Scripted, Named, NEW t \in Threads, NEW a, At(t, a), a # "absent",
         Moves(t), SameName(req'[t].doc),
         \/ req'[t].ident = req[t].ident /\ a # "certify"
         \/ req'[t].ident \in Bodies /\ FileOf[req'[t].ident] = FileOf[req[t].body]
  PROVE  NamedReq(req'[t])
<1> DEFINE k == req[t].kind
           b == Head(req'[t].todo)
<1>1. SUFFICES ASSUME req'[t].todo # <<>>, b \in Certifying, k \in Attaches
               PROVE  req'[t].ident \in Bodies /\ FileOf[req'[t].ident] = FileOf[req[t].body]
  BY DEF NamedReq, Moves
<1>2. Fits(k, a) /\ Follows(k, a, b) /\ Head(req[t].todo) = a /\ req[t].todo # <<>>
  BY <1>1, AtStep DEF Moves
<1>3. a # "receipt"
  BY <1>1, <1>2 DEF Fits, Attaches
<1> HIDE DEF k, b
<1>4. a \in Certifying \union {"certify"}
  BY <1>1, <1>2, <1>3 DEF Follows, Certifying
<1>5. CASE a # "certify"
  <2>1. req[t].ident \in Bodies /\ FileOf[req[t].ident] = FileOf[req[t].body]
    BY <1>1, <1>2, <1>4, <1>5 DEF Named, NamedReq, k
  <2>2. QED
    BY <2>1
<1>6. CASE a = "certify"
  BY <1>6
<1>7. QED
  BY <1>5, <1>6

(* The certificate and the fuse of a directory do not name its files.      *)
LEMMA NamedSame ==
  ASSUME NEW d \in Dir, NEW e, NEW c, NamedDir(d),
         \/ e = [d EXCEPT !.there = TRUE]
         \/ e = [d EXCEPT !.cert = c, !.there = TRUE]
         \/ e = [d EXCEPT !.fuse = c, !.there = TRUE]
  PROVE  NamedDir(e)
<1>1. CASE e = [d EXCEPT !.there = TRUE]
  BY <1>1 DEF NamedDir, Dir
<1>2. CASE e = [d EXCEPT !.cert = c, !.there = TRUE]
  BY <1>2 DEF NamedDir, Dir
<1>3. CASE e = [d EXCEPT !.fuse = c, !.there = TRUE]
  BY <1>3 DEF NamedDir, Dir
<1>4. QED
  BY <1>1, <1>2, <1>3, Zenon

LEMMA NamedSteps ==
  ASSUME ProjectDeskAssumption, TypeOK, Scripted, Named, NEW t \in Threads, Step(t)
  PROVE  Named'
<1> DEFINE p == req[t].proj
<1>0. /\ disk \in [Projects -> Dir] /\ NamedReq(req[t]) /\ SameName(req[t].doc)
      /\ \A q \in Projects : NamedDir(disk[q])
  BY DEF TypeOK, Named, NamedReq
<1>1. CASE Store(t) \/ Copy(t)
  <2> DEFINE b == req[t].body
  <2>1. /\ Moves(t) /\ Keeps(t) /\ p \in Projects /\ b \in Bodies
        /\ Elsewhere(p) /\ disk'[p].files = [disk[p].files EXCEPT ![FileOf[b]] = b]
        /\ disk'[p].doc = disk[p].doc
    BY <1>1, BytesEffect
  <2>2. PICK a \in {"store", "copy"} : At(t, a)
    BY <1>1 DEF Store, Copy
  <2>3. NamedReq(req'[t])
    BY <1>0, <2>1, <2>2, NamedNext DEF Keeps
  <2>4. NamedDir(disk'[p])
    <3>1. disk[p].files \in [Files -> Bodies \union {None}]
      BY <1>0, <2>1 DEF Dir
    <3>2. \A f \in Files : disk'[p].files[f] = IF f = FileOf[b] THEN b ELSE disk[p].files[f]
      BY <2>1, <3>1
    <3>3. ASSUME NEW f \in Files, disk'[p].files[f] # None PROVE FileOf[disk'[p].files[f]] = f
      <4>1. CASE f = FileOf[b]
        BY <3>2, <4>1
      <4>2. CASE f # FileOf[b]
        BY <1>0, <2>1, <3>2, <3>3, <4>2 DEF NamedDir
      <4>3. QED
        BY <4>1, <4>2
    <3>4. disk'[p].doc # None => SameName(disk'[p].doc)
      BY <1>0, <2>1 DEF NamedDir
    <3>5. QED
      BY <3>3, <3>4 DEF NamedDir
  <2>5. QED
    BY <2>1, <2>3, <2>4, NamedFrame DEF Moves
<1>2. CASE Manifest(t) \/ ReceiptFile(t)
  <2>1. /\ Moves(t) /\ Keeps(t) /\ p \in Projects /\ Elsewhere(p)
        /\ disk'[p] = [disk[p] EXCEPT !.there = TRUE]
    BY <1>2, ManifestEffect
  <2>2. PICK a \in {"manifest", "receipt"} : At(t, a)
    BY <1>2 DEF Manifest, ReceiptFile
  <2>3. NamedReq(req'[t])
    BY <1>0, <2>1, <2>2, NamedNext DEF Keeps
  <2>4. NamedDir(disk'[p])
    <3>1. disk[p] \in Dir /\ NamedDir(disk[p])
      BY <1>0, <2>1
    <3>2. disk'[p] = [disk[p] EXCEPT !.there = TRUE]
      BY <2>1
    <3>3. QED
      BY <3>1, <3>2, NamedSame, Zenon
  <2>5. QED
    BY <2>1, <2>3, <2>4, NamedFrame DEF Moves
<1>3. CASE Certify(t)
  <2> DEFINE b == disk[p].files[FileOf[req[t].body]]
  <2>1. /\ Moves(t) /\ req'[t].doc = req[t].doc /\ req'[t].ident = b
        /\ p \in Projects /\ b \in Bodies /\ FileOf[req[t].body] \in Files
        /\ Elsewhere(p) /\ disk'[p] = [disk[p] EXCEPT !.cert = Torn, !.there = TRUE]
    BY <1>3, CertifyEffect
  <2>2. At(t, "certify") /\ b # None
    BY <1>3 DEF Certify
  <2>3. FileOf[b] = FileOf[req[t].body]
    BY <1>0, <2>1, <2>2 DEF NamedDir
  <2>4. NamedReq(req'[t])
    BY <1>0, <2>1, <2>2, <2>3, NamedNext
  <2>5. NamedDir(disk'[p])
    <3>1. disk[p] \in Dir /\ NamedDir(disk[p])
      BY <1>0, <2>1
    <3>2. disk'[p] = [disk[p] EXCEPT !.cert = Torn, !.there = TRUE]
      BY <2>1
    <3>3. QED
      BY <3>1, <3>2, NamedSame, Zenon
  <2>6. QED
    BY <2>1, <2>4, <2>5, NamedFrame DEF Moves
<1>4. CASE Certified(t) \/ Bind(t)
  <2>1. /\ Moves(t) /\ Keeps(t) /\ p \in Projects /\ Elsewhere(p)
        /\ \/ disk'[p] = [disk[p] EXCEPT !.cert = req[t].ident, !.there = TRUE]
           \/ disk'[p] = [disk[p] EXCEPT !.fuse = req[t].ident, !.there = TRUE]
    BY <1>4, CertifiedEffect, BindEffect
  <2>2. PICK a \in {"certified", "bind"} : At(t, a)
    BY <1>4 DEF Certified, Bind
  <2>3. NamedReq(req'[t])
    BY <1>0, <2>1, <2>2, NamedNext DEF Keeps
  <2>4. NamedDir(disk'[p])
    <3>1. disk[p] \in Dir /\ NamedDir(disk[p])
      BY <1>0, <2>1
    <3>2. \/ disk'[p] = [disk[p] EXCEPT !.cert = req[t].ident, !.there = TRUE]
          \/ disk'[p] = [disk[p] EXCEPT !.fuse = req[t].ident, !.there = TRUE]
      BY <2>1
    <3>3. QED
      BY <3>1, <3>2, NamedSame, Zenon
  <2>5. QED
    BY <2>1, <2>3, <2>4, NamedFrame DEF Moves
<1>5. CASE Compile(t) \/ Contact(t) \/ Deleted(t)
  <2>1. Moves(t) /\ Keeps(t) /\ disk' = disk
    BY <1>5, QuietEffect
  <2>2. PICK a \in {"compile", "contact", "delete"} : At(t, a)
    BY <1>5 DEF Compile, Contact, Deleted
  <2>3. NamedReq(req'[t])
    BY <1>0, <2>1, <2>2, NamedNext DEF Keeps
  <2>4. QED
    BY <1>0, <2>1, <2>3, NamedFrame DEF Moves, Elsewhere
<1>6. CASE Read(t)
  <2>1. /\ Moves(t) /\ disk' = disk /\ p \in Projects
        /\ req'[t].ident = req[t].ident /\ req'[t].doc = disk[p].doc /\ disk[p].doc # None
    BY <1>6, ReadEffect
  <2>2. At(t, "read")
    BY <1>6 DEF Read
  <2>3. SameName(req'[t].doc)
    BY <1>0, <2>1 DEF NamedDir
  <2>4. NamedReq(req'[t])
    BY <2>1, <2>2, <2>3, NamedNext
  <2>5. QED
    BY <1>0, <2>1, <2>4, NamedFrame DEF Moves, Elsewhere
<1>7. CASE SaveBody(t)
  <2> DEFINE doc == BodySaved(t)
  <2>1. /\ Moves(t) /\ req'[t].ident = req[t].ident /\ req'[t].doc = doc
        /\ p \in Projects /\ Elsewhere(p)
        /\ disk'[p] = [disk[p] EXCEPT !.doc = doc, !.there = TRUE]
        /\ doc.body = req[t].body /\ doc.ident = req[t].ident /\ req[t].kind \in Attaches
    BY <1>7, SaveBodyEffect
  <2>2. At(t, "body")
    BY <1>7 DEF SaveBody
  <2> HIDE DEF doc
  <2>3. SameName(doc)
    BY <1>0, <2>1, <2>2 DEF NamedReq, SameName, At, Certifying
  <2>4. NamedReq(req'[t])
    BY <2>1, <2>2, <2>3, NamedNext
  <2>5. NamedDir(disk'[p])
    BY <1>0, <2>1, <2>3 DEF NamedDir, Dir
  <2>6. QED
    BY <2>1, <2>4, <2>5, NamedFrame DEF Moves
<1>8. CASE SaveField(t)
  <2> DEFINE doc == FieldSaved(t)
  <2>1. /\ Moves(t) /\ req'[t].ident = req[t].ident /\ req'[t].doc = doc
        /\ p \in Projects /\ Elsewhere(p)
        /\ disk'[p] = [disk[p] EXCEPT !.doc = doc, !.there = TRUE]
        /\ doc.body = req[t].doc.body /\ doc.ident = req[t].doc.ident
    BY <1>8, SaveFieldEffect
  <2>2. At(t, "field")
    BY <1>8 DEF SaveField
  <2> HIDE DEF doc
  <2>3. SameName(doc)
    BY <1>0, <2>1 DEF SameName
  <2>4. NamedReq(req'[t])
    BY <2>1, <2>2, <2>3, NamedNext
  <2>5. NamedDir(disk'[p])
    BY <1>0, <2>1, <2>3 DEF NamedDir, Dir
  <2>6. QED
    BY <2>1, <2>4, <2>5, NamedFrame DEF Moves
<1>9. CASE SetActive(t) \/ SetTwin(t)
  <2>1. Moves(t) /\ Keeps(t) /\ disk' = disk
    BY <1>9, ActiveEffect
  <2>2. PICK a \in {"active", "twin"} : At(t, a)
    BY <1>9 DEF SetActive, SetTwin
  <2>3. NamedReq(req'[t])
    BY <1>0, <2>1, <2>2, NamedNext DEF Keeps
  <2>4. QED
    BY <1>0, <2>1, <2>3, NamedFrame DEF Moves, Elsewhere
<1>10. CASE Rank(t)
  <2>1. /\ Moves(t) /\ req'[t].ident = req[t].ident /\ req'[t].doc = req[t].doc /\ disk' = disk
    BY <1>10, RankEffect
  <2>2. At(t, "rank")
    BY <1>10 DEF Rank
  <2>3. NamedReq(req'[t])
    BY <1>0, <2>1, <2>2, NamedNext
  <2>4. QED
    BY <1>0, <2>1, <2>3, NamedFrame DEF Moves, Elsewhere
<1>11. CASE Delete(t)
  <2>1. /\ \A u \in Threads : u # t => req'[u] = req[u]
        /\ req'[t].todo = req[t].todo /\ req'[t].kind = req[t].kind
        /\ req'[t].body = req[t].body
        /\ req'[t].ident = req[t].ident /\ req'[t].doc = req[t].doc
    BY <1>11, DeleteEffect
  <2>2. PICK q \in req[t].doomed : q \in Projects /\ Elsewhere(q) /\ Shrunk(q)
    BY <1>11, DeleteEffect
  <2>3. NamedReq(req'[t])
    BY <1>0, <2>1 DEF NamedReq
  <2>4. NamedDir(disk'[q])
    <3>1. CASE disk'[q] = [disk[q] EXCEPT !.doc = None]
      BY <1>0, <2>2, <3>1 DEF NamedDir, Dir
    <3>2. CASE disk'[q] = [disk[q] EXCEPT !.files = NoDir.files, !.cert = None]
      <4>1. disk'[q].files = NoDir.files /\ disk'[q].doc = disk[q].doc
        BY <1>0, <2>2, <3>2 DEF Dir
      <4>2. \A f \in Files : NoDir.files[f] = None
        BY DEF NoDir
      <4>3. QED
        BY <1>0, <2>2, <4>1, <4>2 DEF NamedDir
    <3>3. CASE disk'[q] = NoDir
      BY <3>3 DEF NamedDir, NoDir
    <3>4. QED
      BY <2>2, <3>1, <3>2, <3>3 DEF Shrunk
  <2>5. QED
    BY <2>1, <2>2, <2>3, <2>4, NamedFrame
<1>12. CASE Make(t)
  <2>1. /\ Moves(t) /\ Keeps(t) /\ p \in Projects /\ Elsewhere(p)
        /\ disk'[p] = [disk[p] EXCEPT !.doc = BlankDoc, !.there = TRUE]
    BY <1>12, MakeEffect
  <2>2. At(t, "make")
    BY <1>12 DEF Make
  <2>3. NamedReq(req'[t])
    BY <1>0, <2>1, <2>2, NamedNext DEF Keeps
  <2>4. NamedDir(disk'[p])
    <3>1. SameName(BlankDoc)
      BY DEF SameName, BlankDoc
    <3>2. disk'[p].doc = BlankDoc /\ disk'[p].files = disk[p].files
      BY <1>0, <2>1 DEF Dir
    <3>3. QED
      BY <1>0, <2>1, <3>1, <3>2 DEF NamedDir
  <2>5. QED
    BY <2>1, <2>3, <2>4, NamedFrame DEF Moves
<1>13. QED
  BY <1>1, <1>2, <1>3, <1>4, <1>5, <1>6, <1>7, <1>8, <1>9, <1>10, <1>11, <1>12 DEF Step

LEMMA HeadConcat ==
  ASSUME NEW s \in Seq(Steps), NEW u \in Seq(Steps), Len(s) \in Nat \ {0}
  PROVE  /\ s \o u \in Seq(Steps) /\ Len(s \o u) \in Nat \ {0} /\ (s \o u)[1] = s[1]
         /\ s \o u # <<>> /\ Head(s \o u) = s[1]
<1>1. /\ s \o u \in Seq(Steps) /\ Len(s \o u) = Len(s) + Len(u) /\ Len(u) \in Nat
      /\ \A i \in 1..Len(s) : (s \o u)[i] = s[i]
  OBVIOUS
<1>2. Len(s \o u) \in Nat \ {0} /\ 1 \in 1..Len(s)
  BY <1>1
<1>3. \A w \in Seq(Steps) : Len(w) \in Nat \ {0} => w # <<>> /\ Head(w) = w[1]
  OBVIOUS
<1>4. QED
  BY <1>1, <1>2, <1>3

(* The first step of a request.                                            *)
LEMMA FirstStep ==
  ASSUME NEW k \in Kinds
  PROVE  /\ Scripts[k] # <<>>
         /\ k \in Makes => Head(Scripts[k]) = "rank"
         /\ k = "upload" => Head(Scripts[k]) = "store"
         /\ k = "registry" => Head(Scripts[k]) = "compile"
         /\ k \notin Attaches \union Makes =>
              Head(Scripts[k]) \in {"absent", "receipt", "read", "active", "rank"}
         /\ Head(Scripts[k]) = "active" => k = "clear"
<1>1. CASE k \in {"port", "hil", "last_run", "lane", "activate", "clear", "prune"}
  <2>1. k \notin Makes /\ k # "upload" /\ k # "registry"
    BY <1>1 DEF Makes
  <2>2. /\ Scripts[k] # <<>> /\ Head(Scripts[k]) \in {"absent", "receipt", "read", "active", "rank"}
        /\ Head(Scripts[k]) = "active" => k = "clear"
    BY <1>1 DEF Scripts
  <2>3. QED
    BY <2>1, <2>2
<1>2. CASE k = "upload"
  BY <1>2 DEF Scripts, UploadScript, Makes, Attaches
<1>3. CASE k = "registry"
  BY <1>3 DEF Scripts, RegistryScript, Makes, Attaches
<1>4. CASE k \in Makes
  <2>1. Script(k, Scripts[k]) /\ k # "upload" /\ k # "registry" /\ k # "clear"
    BY <1>4, ScriptsRun DEF Makes
  <2>2. CreateScript \in Seq(Steps) /\ Len(CreateScript) = 3 /\ CreateScript[1] = "rank"
    BY DEF CreateScript, Steps
  <2>3. ASSUME NEW u \in Seq(Steps)
        PROVE  CreateScript \o u # <<>> /\ Head(CreateScript \o u) = "rank"
    <3>1. Len(CreateScript) \in Nat \ {0}
      BY <2>2
    <3>2. QED
      BY <2>2, <3>1, HeadConcat
  <2>4. RegistryScript \in Seq(Steps)
    BY RegistryChain DEF Chain, Attaches
  <2>5. CASE k = "create"
    BY <2>1, <2>5 DEF Scripts, CreateScript
  <2>6. CASE k = "new_open"
    <3>1. Scripts[k] = CreateScript \o RegistryScript
      BY <2>6 DEF Scripts
    <3>2. QED
      BY <1>4, <2>1, <2>3, <2>4, <3>1
  <2>7. CASE k = "new_lunar"
    <3> DEFINE u == <<"absent">>
    <3>1. Scripts[k] = CreateScript \o u
      BY <2>7 DEF Scripts
    <3>2. u \in Seq(Steps)
      BY DEF Steps
    <3> HIDE DEF u
    <3>3. QED
      BY <1>4, <2>1, <2>3, <3>1, <3>2
  <2>8. CASE k = "bootstrap"
    <3> DEFINE v == <<"absent", "read", "active", "twin">>
               s == CreateScript
               u == s \o RegistryScript
    <3>1. Scripts[k] = u \o v
      BY <2>8 DEF Scripts
    <3>2. v \in Seq(Steps)
      BY DEF Steps
    <3>3. s \in Seq(Steps) /\ Len(s) \in Nat \ {0} /\ s[1] = "rank"
      BY <2>2
    <3> HIDE DEF s, v
    <3>4. u \in Seq(Steps) /\ Len(u) \in Nat \ {0} /\ u[1] = "rank"
      BY <2>4, <3>3, HeadConcat
    <3> HIDE DEF u
    <3>5. u \o v # <<>> /\ Head(u \o v) = "rank"
      BY <3>2, <3>4, HeadConcat
    <3>6. QED
      BY <1>4, <2>1, <3>1, <3>5
  <2>9. QED
    BY <1>4, <2>5, <2>6, <2>7, <2>8 DEF Makes
<1>5. QED
  BY <1>1, <1>2, <1>3, <1>4, KindNames DEF Makes

LEMMA NamedStep ==
  ASSUME ProjectDeskAssumption, TypeOK, Scripted, Named, [Next]_vars
  PROVE  Named'
<1>0. SameName(BlankDoc) /\ \A q \in Projects : NamedDir(disk[q])
  BY DEF SameName, BlankDoc, Named
<1>1. ASSUME NEW t \in Threads, Step(t) PROVE Named'
  BY <1>1, NamedSteps
<1>2. ASSUME NEW t \in Threads, NEW k \in Kinds, NEW p \in Projects \union {None},
             NEW b \in Bodies \union {None}, Start(t, k, p, b)
      PROVE  Named'
  <2>1. /\ \A u \in Threads : u # t => req'[u] = req[u]
        /\ req'[t].kind = k /\ req'[t].todo = Scripts[k] /\ req'[t].doc = BlankDoc
    BY <1>2, StartEffect
  <2>2. ASSUME k \in Attaches PROVE Head(Scripts[k]) \notin Certifying
    BY <2>2, FirstStep DEF Certifying, Attaches, Makes
  <2>3. NamedReq(req'[t])
    BY <1>0, <2>1, <2>2 DEF NamedReq
  <2>4. disk' = disk
    BY <1>2 DEF Start
  <2>5. QED
    BY <1>0, <2>1, <2>3, <2>4, NamedFrame DEF Elsewhere
<1>3. ASSUME NEW t \in Threads, Answer(t) \/ Raise(t) \/ Kill(t) PROVE Named'
  <2>1. disk' = disk /\ req'[t] = Idle /\ \A u \in Threads : u # t => req'[u] = req[u]
    BY <1>3, EndEffect
  <2>2. NamedReq(Idle)
    BY <1>0 DEF NamedReq, Idle
  <2>3. QED
    BY <1>0, <2>1, <2>2, NamedFrame DEF Elsewhere
<1>4. ASSUME NEW p \in Projects, BlowFuse(p) PROVE Named'
  <2>1. /\ Elsewhere(p) /\ disk'[p] = [disk[p] EXCEPT !.blown = TRUE]
        /\ disk[p] \in Dir /\ req' = req
    BY <1>4, BlowEffect DEF TypeOK, BlowFuse
  <2>2. disk'[p].files = disk[p].files /\ disk'[p].doc = disk[p].doc
    BY <2>1 DEF Dir
  <2>3. ASSUME NEW q \in Projects PROVE NamedDir(disk'[q])
    <3>1. disk'[q].files = disk[q].files /\ disk'[q].doc = disk[q].doc
      BY <2>1, <2>2 DEF Elsewhere
    <3>2. NamedDir(disk[q])
      BY <1>0
    <3>3. QED
      BY <3>1, <3>2 DEF NamedDir
  <2>4. \A u \in Threads : NamedReq(req'[u])
    BY <2>1 DEF Named
  <2>5. QED
    BY <2>3, <2>4 DEF Named, NamedDir, NamedReq, SameName
<1>5. CASE UNCHANGED vars
  BY <1>5 DEF vars, Named, NamedDir, NamedReq, SameName
<1>6. QED
  BY <1>1, <1>2, <1>3, <1>4, <1>5 DEF Next

-----------------------------------------------------------------------------
(* The twin is written after the active file only.                         *)
LEMMA ChosenNext ==
  ASSUME TypeOK, Scripted, Chosen, NEW t \in Threads, NEW a, At(t, a),
         a \notin {"absent", "active"}, Moves(t), active' = active, twin' = twin
  PROVE  Chosen'
<1>1. ASSUME active = None PROVE \A u \in Threads : ~(At(u, "twin")')
  <2>1. \A u \in Threads : ~At(u, "twin")
    BY <1>1 DEF Chosen
  <2>2. ASSUME NEW u \in Threads, u # t PROVE ~(At(u, "twin")')
    BY <2>1, <2>2 DEF At, Moves
  <2>3. ~(At(t, "twin")')
    <3>1. Tail(req[t].todo) # <<>> =>
             Follows(req[t].kind, a, Head(Tail(req[t].todo)))
      BY AtStep
    <3>2. ~Follows(req[t].kind, a, "twin")
      BY DEF Follows
    <3>3. QED
      BY <3>1, <3>2 DEF At, Moves
  <2>4. QED
    BY <2>2, <2>3
<1>2. QED
  BY <1>1 DEF Chosen

LEMMA ChosenSteps ==
  ASSUME ProjectDeskAssumption, TypeOK, Scripted, Chosen, NEW t \in Threads, Step(t)
  PROVE  Chosen'
<1>1. CASE SetActive(t) \/ SetTwin(t)
  <2>1. Target(t) # None
    BY <1>1, ActiveEffect
  <2>2. active' # None
    BY <1>1, <2>1 DEF SetActive, SetTwin, Chosen
  <2>3. QED
    BY <2>2 DEF Chosen
<1>2. CASE Delete(t)
  <2>1. active' = active /\ twin' = twin
    BY <1>2 DEF Delete
  <2>2. \A u \in Threads : req'[u].todo = req[u].todo
    BY <1>2, DeleteEffect
  <2>3. QED
    BY <2>1, <2>2 DEF Chosen, At
<1>3. CASE /\ Moves(t) /\ active' = active /\ twin' = twin
           /\ \E a \in Steps \ {"absent", "active"} : At(t, a)
  BY <1>3, ChosenNext
<1>4. CASE Store(t) \/ Copy(t) \/ Manifest(t) \/ ReceiptFile(t) \/ Certify(t)
           \/ Certified(t) \/ Bind(t)
  <2>1. Moves(t)
    BY <1>4, BytesEffect, ManifestEffect, CertifyEffect, CertifiedEffect, BindEffect
  <2>2. active' = active /\ twin' = twin /\ \E a \in Steps \ {"absent", "active"} : At(t, a)
    BY <1>4 DEF Store, Copy, Manifest, ReceiptFile, Certify, Certified, Bind, Steps
  <2>3. QED
    BY <1>3, <2>1, <2>2
<1>5. CASE Compile(t) \/ Contact(t) \/ Deleted(t) \/ Read(t) \/ SaveBody(t)
           \/ SaveField(t) \/ Rank(t) \/ Make(t)
  <2>1. Moves(t)
    BY <1>5, QuietEffect, ReadEffect, SaveBodyEffect, SaveFieldEffect, RankEffect, MakeEffect
  <2>2. active' = active /\ twin' = twin /\ \E a \in Steps \ {"absent", "active"} : At(t, a)
    BY <1>5 DEF Compile, Contact, Deleted, Read, SaveBody, SaveField, Save, Rank, Make, Steps
  <2>3. QED
    BY <1>3, <2>1, <2>2
<1>6. QED
  BY <1>1, <1>2, <1>4, <1>5 DEF Step

LEMMA ChosenStep ==
  ASSUME ProjectDeskAssumption, TypeOK, Scripted, Chosen, [Next]_vars
  PROVE  Chosen'
<1>1. ASSUME NEW t \in Threads, Step(t) PROVE Chosen'
  BY <1>1, ChosenSteps
<1>2. ASSUME NEW t \in Threads, NEW k \in Kinds, NEW p \in Projects \union {None},
             NEW b \in Bodies \union {None}, Start(t, k, p, b)
      PROVE  Chosen'
  <2>1. /\ \A u \in Threads : u # t => req'[u] = req[u]
        /\ req'[t].todo = Scripts[k] /\ active' = active /\ twin' = twin
    <3>1. active' = active /\ twin' = twin
      BY <1>2 DEF Start
    <3>2. QED
      BY <1>2, <3>1, StartEffect
  <2>2. Head(Scripts[k]) # "twin"
    BY FirstStep, KindNames DEF Attaches, Makes
  <2>3. \A u \in Threads : At(u, "twin")' => At(u, "twin")
    BY <2>1, <2>2 DEF At
  <2>4. QED
    BY <2>1, <2>3 DEF Chosen
<1>3. ASSUME NEW t \in Threads, Answer(t) \/ Raise(t) \/ Kill(t) PROVE Chosen'
  <2>1. /\ active' = active /\ twin' = twin /\ req'[t] = Idle
        /\ \A u \in Threads : u # t => req'[u] = req[u]
    BY <1>3, EndEffect
  <2>2. \A u \in Threads : At(u, "twin")' => At(u, "twin")
    BY <2>1 DEF At, Idle
  <2>3. QED
    BY <2>1, <2>2 DEF Chosen
<1>4. ASSUME NEW p \in Projects, BlowFuse(p) PROVE Chosen'
  BY <1>4 DEF BlowFuse, Chosen, At
<1>5. CASE UNCHANGED vars
  BY <1>5 DEF vars, Chosen, At
<1>6. QED
  BY <1>1, <1>2, <1>3, <1>4, <1>5 DEF Next

-----------------------------------------------------------------------------
(* Requests one at a time: the one that moves finds what it needs.         *)
LEMMA SerialFrame ==
  ASSUME Serial, NEW t \in Threads, req[t] # Idle,
         \A u \in Threads : u # t => req'[u] = req[u],
         req'[t] # Idle => Ready(req'[t], disk'[req'[t].proj], settled', active'),
         \A p \in Projects : Sound(p, disk'[p], settled', kept'[p], active')
  PROVE  Serial'
<1>1. \A u \in Threads : u # t => req'[u] = Idle
  BY DEF Serial, Alone
<1>2. Alone'
  BY <1>1 DEF Alone
<1>3. \A u \in Threads : req'[u] # Idle =>
         Ready(req'[u], disk'[req'[u].proj], settled', active')
  BY <1>1
<1>4. QED
  BY <1>2, <1>3 DEF Serial, Alone, Ready, Found, Left, Agrees, Stored, Bound, Sound

(* A step of a request in its own directory.                               *)
LEMMA SerialMove ==
  ASSUME ProjectDeskAssumption, TypeOK, Scripted, Serial, NEW t \in Threads, NEW a,
         At(t, a), a # "absent", Moves(t), active' = active,
         NEW p, p = req[t].proj, p \in Projects, Elsewhere(p),
         settled' \subseteq settled,
         \A q \in Projects : q # p => kept'[q] = kept[q],
         Sound(p, disk'[p], settled', kept'[p], active),
         req'[t].todo # <<>> =>
            Found(req'[t], Head(req'[t].todo), disk'[p], settled', active),
         req'[t].todo = <<>> => Left(req'[t], disk'[p])
  PROVE  Serial'
<1>1. req[t] # Idle
  BY AtStep
<1>2. Ready(req'[t], disk'[req'[t].proj], settled', active')
  BY DEF Ready, Moves
<1>3. ASSUME NEW q \in Projects PROVE Sound(q, disk'[q], settled', kept'[q], active')
  <2>1. CASE q = p
    BY <2>1
  <2>2. CASE q # p
    <3>1. Sound(q, disk[q], settled, kept[q], active)
      BY DEF Serial
    <3>2. disk'[q] = disk[q] /\ kept'[q] = kept[q] /\ (q \in settled' => q \in settled)
      BY <2>2 DEF Elsewhere
    <3>3. QED
      BY <3>1, <3>2 DEF Sound
  <2>3. QED
    BY <2>1, <2>2
<1>4. QED
  BY <1>1, <1>2, <1>3, SerialFrame DEF Moves

LEMMA AttachKinds ==
  /\ Attaches \cap Fields = {} /\ Attaches \cap Global = {} /\ Fields \cap Global = {}
  /\ Makes \cap Fields = {} /\ Makes \cap Global = {} /\ "upload" \notin Makes
BY DEF Attaches, Fields, Global, Makes

(* What the invariant says of the request that does step a.                *)
LEMMA Finding ==
  ASSUME TypeOK, Scripted, Serial, NEW t \in Threads, NEW a, At(t, a), a # "absent",
         Moves(t)
  PROVE  LET r == req[t]  p == r.proj  b == Head(req'[t].todo) IN
         /\ Found(r, a, disk[p], settled, active)
         /\ Fits(r.kind, a) /\ r.kind \in Kinds
         /\ p \in Projects => /\ Sound(p, disk[p], settled, kept[p], active)
                              /\ disk[p] \in Dir
         /\ req'[t].todo # <<>> => Follows(r.kind, a, b) /\ Fits(r.kind, b)
         /\ req'[t].todo = <<>> => /\ r.kind \in Fields => a = "field"
                                   /\ r.kind \in Attaches => a = "body"
<1>1. /\ req[t] # Idle /\ req[t].todo # <<>> /\ Head(req[t].todo) = a
      /\ req[t].kind \in Kinds /\ Fits(req[t].kind, a)
  BY AtStep
<1>2. Found(req[t], a, disk[req[t].proj], settled, active)
  <2>1. Ready(req[t], disk[req[t].proj], settled, active)
    BY <1>1 DEF Serial
  <2>2. QED
    BY <1>1, <2>1 DEF Ready
<1>3. /\ req'[t].todo # <<>> => /\ Follows(req[t].kind, a, Head(req'[t].todo))
                                /\ Fits(req[t].kind, Head(req'[t].todo))
      /\ req'[t].todo = <<>> => /\ req[t].kind \in Fields => a = "field"
                                /\ req[t].kind \in Attaches => a = "body"
  BY AtStep DEF Moves
<1>4. req[t].proj \in Projects =>
         /\ Sound(req[t].proj, disk[req[t].proj], settled, kept[req[t].proj], active)
         /\ disk[req[t].proj] \in Dir
  BY DEF Serial, TypeOK
<1>5. QED
  BY <1>1, <1>2, <1>3, <1>4

LEMMA SerialBytes ==
  ASSUME ProjectDeskAssumption, TypeOK, Scripted, Serial, NEW t \in Threads,
         Store(t) \/ Copy(t)
  PROVE  Serial'
<1> DEFINE p == req[t].proj
           b == req[t].body
           d == disk'[p]
           r == req'[t]
<1>1. /\ Moves(t) /\ Keeps(t) /\ p \in Projects /\ b \in Bodies
      /\ Elsewhere(p) /\ d.files = [disk[p].files EXCEPT ![FileOf[b]] = b]
      /\ d.doc = disk[p].doc /\ d.there
  BY BytesEffect
<1>2. PICK a \in {"store", "copy"} : At(t, a)
  BY DEF Store, Copy
<1>3. active' = active /\ kept' = kept /\ settled' = settled \ {p}
  BY DEF Store, Copy
<1>4. /\ Fits(r.kind, a) /\ Sound(p, disk[p], settled, kept[p], active)
      /\ r.todo # <<>> => Follows(r.kind, a, Head(r.todo)) /\ Fits(r.kind, Head(r.todo))
      /\ r.todo = <<>> => r.kind \notin Attaches
      /\ disk[p] \in Dir /\ r.body = b /\ r.proj = p
  BY <1>1, <1>2, Finding DEF Moves
<1>5. d.files[FileOf[b]] = b
  <2>1. FileOf[b] \in Files /\ disk[p].files \in [Files -> Bodies \union {None}]
    BY <1>1, <1>4 DEF ProjectDeskAssumption, Dir
  <2>2. QED
    BY <1>1, <2>1
<1> HIDE DEF p, b, d, r
<1>6. r.kind \in Attaches /\ r.todo # <<>>
  BY <1>2, <1>4 DEF Fits, AttachSteps
<1>7. Head(r.todo) \in {"compile", "manifest"}
  BY <1>2, <1>4, <1>6 DEF Follows
<1>8. Found(r, Head(r.todo), d, settled', active)
  BY <1>3, <1>4, <1>5, <1>7 DEF Found, Stored
<1>9. Sound(p, d, settled', kept'[p], active)
  BY <1>1, <1>3, <1>4 DEF Sound
<1>10. QED
  BY <1>1, <1>2, <1>3, <1>6, <1>8, <1>9, SerialMove DEF p, d, r

(* The steps of an attach between its bytes and its document.              *)
LEMMA SerialCertifies ==
  ASSUME ProjectDeskAssumption, TypeOK, Scripted, Serial, NEW t \in Threads,
         Manifest(t) \/ ReceiptFile(t) \/ Certify(t) \/ Certified(t) \/ Bind(t)
  PROVE  Serial'
<1> DEFINE p == req[t].proj
           d == disk[p]
           e == disk'[p]
           r == req[t]
           s == req'[t]
<1>1. PICK a \in {"manifest", "receipt", "certify", "certified", "bind"} : At(t, a)
  BY DEF Manifest, ReceiptFile, Certify, Certified, Bind
<1>2. active' = active /\ kept' = kept /\ settled' = settled
  BY DEF Manifest, ReceiptFile, Certify, Certified, Bind
<1>3. /\ Moves(t) /\ p \in Projects /\ Elsewhere(p)
      /\ \/ e = [d EXCEPT !.there = TRUE] /\ a \in {"manifest", "receipt"} /\ s.ident = r.ident
         \/ /\ e = [d EXCEPT !.cert = Torn, !.there = TRUE] /\ a = "certify"
            /\ s.ident = d.files[FileOf[r.body]]
         \/ /\ e = [d EXCEPT !.cert = r.ident, !.there = TRUE] /\ a = "certified"
            /\ s.ident = r.ident
         \/ /\ e = [d EXCEPT !.fuse = r.ident, !.there = TRUE] /\ a = "bind"
            /\ s.ident = r.ident
  <2>1. CASE Manifest(t) \/ ReceiptFile(t)
    <3>1. a \in {"manifest", "receipt"}
      BY <1>1, <2>1 DEF Manifest, ReceiptFile, At
    <3>2. QED
      BY <2>1, <3>1, ManifestEffect DEF Keeps
  <2>2. CASE Certify(t)
    <3>1. a = "certify"
      BY <1>1, <2>2 DEF Certify, At
    <3>2. QED
      BY <2>2, <3>1, CertifyEffect
  <2>3. CASE Certified(t)
    <3>1. a = "certified"
      BY <1>1, <2>3 DEF Certified, At
    <3>2. QED
      BY <2>3, <3>1, CertifiedEffect DEF Keeps
  <2>4. CASE Bind(t)
    <3>1. a = "bind"
      BY <1>1, <2>4 DEF Bind, At
    <3>2. QED
      BY <2>4, <3>1, BindEffect DEF Keeps
  <2>5. QED
    BY <2>1, <2>2, <2>3, <2>4
<1>4. /\ Found(r, a, d, settled, active) /\ Fits(r.kind, a)
      /\ Sound(p, d, settled, kept[p], active) /\ d \in Dir
      /\ s.todo # <<>> => Follows(r.kind, a, Head(s.todo)) /\ Fits(r.kind, Head(s.todo))
      /\ s.todo = <<>> => r.kind \notin Fields /\ r.kind \notin Attaches
      /\ s.body = r.body /\ s.kind = r.kind /\ s.proj = p /\ r.proj = p
  BY <1>1, <1>3, Finding DEF Moves
<1> HIDE DEF p, d, e, r, s
<1>5. /\ e.there /\ e.doc = d.doc /\ e.files = d.files
      /\ a \in {"manifest", "receipt"} => e.cert = d.cert /\ e.fuse = d.fuse
      /\ a = "certify" => s.ident = d.files[FileOf[r.body]]
      /\ a # "certify" => s.ident = r.ident
      /\ a = "certified" => e.cert = r.ident
      /\ a = "bind" => e.cert = d.cert /\ e.fuse = r.ident
  BY <1>3, <1>4 DEF Dir
<1>6. ASSUME a # "receipt" PROVE r.kind \in Attaches /\ Stored(r, d, settled)
  BY <1>1, <1>4, <1>6 DEF Fits, AttachSteps, Found
<1>7. Sound(p, e, settled, kept[p], active)
  <2>1. p \in settled => Agrees(e)
    <3>1. CASE a = "receipt"
      BY <1>4, <1>5, <3>1 DEF Sound, Agrees
    <3>2. CASE a # "receipt"
      BY <1>4, <1>6, <3>2 DEF Stored
    <3>3. QED
      BY <3>1, <3>2
  <2>2. QED
    BY <1>4, <1>5, <2>1 DEF Sound
<1>8. s.todo # <<>>
  BY <1>1, <1>4, <1>6 DEF Fits, Fields
<1>9. Found(s, Head(s.todo), e, settled, active)
  <2>1. CASE a = "receipt"
    <3>1. Head(s.todo) = "read" /\ s.kind \notin Attaches
      BY <1>4, <1>8, <2>1 DEF Follows, Fits, Attaches
    <3>2. QED
      BY <3>1 DEF Found
  <2>2. CASE a = "manifest"
    <3>1. Head(s.todo) = "certify"
      BY <1>4, <1>8, <2>2 DEF Follows
    <3>2. QED
      BY <1>4, <1>5, <1>6, <2>2, <3>1 DEF Found, Stored
  <2>3. CASE a = "certify"
    <3>1. Head(s.todo) = "certified"
      BY <1>4, <1>8, <2>3 DEF Follows
    <3>2. QED
      BY <1>4, <1>5, <1>6, <2>3, <3>1 DEF Found, Stored
  <2>4. CASE a = "certified"
    <3>1. Head(s.todo) = "bind"
      BY <1>4, <1>8, <2>4 DEF Follows
    <3>2. QED
      BY <1>4, <1>5, <1>6, <2>4, <3>1 DEF Found, Stored
  <2>5. CASE a = "bind"
    <3>1. Head(s.todo) = "read"
      BY <1>4, <1>8, <2>5 DEF Follows
    <3>2. QED
      BY <1>4, <1>5, <1>6, <2>5, <3>1 DEF Found, Stored, Bound
  <2>6. QED
    BY <1>1, <2>1, <2>2, <2>3, <2>4, <2>5
<1>10. QED
  BY <1>1, <1>2, <1>3, <1>7, <1>8, <1>9, SerialMove DEF p, e, s

(* The steps that touch no directory, no list of what is settled.          *)
LEMMA SerialQuiet ==
  ASSUME ProjectDeskAssumption, TypeOK, Scripted, Serial, NEW t \in Threads, NEW a,
         At(t, a), a # "absent", Moves(t), disk' = disk, settled' = settled, kept' = kept,
         active' = active,
         req'[t].todo # <<>> =>
            Found(req'[t], Head(req'[t].todo), disk[req[t].proj], settled, active),
         req'[t].todo = <<>> => Left(req'[t], disk[req[t].proj])
  PROVE  Serial'
<1>1. req[t] # Idle
  BY AtStep
<1>2. Ready(req'[t], disk'[req'[t].proj], settled', active')
  BY DEF Ready, Moves
<1>3. \A q \in Projects : Sound(q, disk'[q], settled', kept'[q], active')
  BY DEF Serial
<1>4. QED
  BY <1>1, <1>2, <1>3, SerialFrame DEF Moves

LEMMA SerialReads ==
  ASSUME ProjectDeskAssumption, TypeOK, Scripted, Serial, NEW t \in Threads,
         Compile(t) \/ Contact(t) \/ Deleted(t) \/ Read(t) \/ Rank(t)
  PROVE  Serial'
<1> DEFINE d == disk[req[t].proj]
           r == req[t]
           s == req'[t]
<1>1. PICK a \in {"compile", "contact", "delete", "read", "rank"} : At(t, a)
  BY DEF Compile, Contact, Deleted, Read, Rank
<1>2. active' = active /\ kept' = kept /\ settled' = settled
  BY DEF Compile, Contact, Deleted, Read, Rank
<1>3. /\ Moves(t) /\ disk' = disk /\ s.ident = r.ident
      /\ \/ a \in {"compile", "contact", "delete"} /\ s.doc = r.doc /\ s.doomed = r.doomed
         \/ a = "read" /\ s.doc = d.doc /\ d.doc # None
         \/ a = "rank" /\ s.doomed \subseteq Dirs \ {ActiveProject}
  <2>1. CASE Compile(t) \/ Contact(t) \/ Deleted(t)
    <3>1. a \in {"compile", "contact", "delete"}
      BY <1>1, <2>1 DEF Compile, Contact, Deleted, At
    <3>2. QED
      BY <2>1, <3>1, QuietEffect DEF Keeps
  <2>2. CASE Read(t)
    <3>1. a = "read"
      BY <1>1, <2>2 DEF Read, At
    <3>2. QED
      BY <2>2, <3>1, ReadEffect
  <2>3. CASE Rank(t)
    <3>1. a = "rank"
      BY <1>1, <2>3 DEF Rank, At
    <3>2. QED
      BY <2>3, <3>1, RankEffect
  <2>4. QED
    BY <2>1, <2>2, <2>3
<1>4. /\ Found(r, a, d, settled, active) /\ Fits(r.kind, a)
      /\ s.todo # <<>> => Follows(r.kind, a, Head(s.todo)) /\ Fits(r.kind, Head(s.todo))
      /\ s.todo = <<>> => r.kind \notin Fields /\ r.kind \notin Attaches
      /\ s.body = r.body /\ s.kind = r.kind /\ s.proj = r.proj
  BY <1>1, <1>3, Finding DEF Moves
<1>5. ASSUME a = "rank" PROVE active \notin s.doomed
  <2>1. SUFFICES ASSUME active \in s.doomed PROVE FALSE
    OBVIOUS
  <2>2. active \in Projects /\ active # ActiveProject
    BY <1>1, <1>3, <1>5, <2>1 DEF Dirs
  <2>3. disk[active].doc # None
    BY <2>2 DEF Serial, Sound
  <2>4. active # None
    BY <2>2 DEF ProjectDeskAssumption
  <2>5. ActiveProject = active
    BY <2>2, <2>3, <2>4 DEF ActiveProject, Live
  <2>6. QED
    BY <2>2, <2>5
<1> HIDE DEF d, r, s
<1>6. s.todo = <<>> => Left(s, d)
  BY <1>4 DEF Left
<1>7. ASSUME s.todo # <<>> PROVE Found(s, Head(s.todo), d, settled, active)
  <2>1. CASE a = "compile"
    <3>1. /\ Head(s.todo) = IF r.kind = "upload" THEN "manifest" ELSE "copy"
          /\ r.kind \in Attaches
      BY <1>4, <1>7, <2>1 DEF Follows, Fits, AttachSteps
    <3>2. r.kind = "upload" => Stored(s, d, settled)
      BY <1>4, <2>1 DEF Found, Stored
    <3>3. QED
      BY <3>1, <3>2 DEF Found
  <2>2. CASE a = "contact"
    <3>1. Head(s.todo) = "body" /\ r.kind \in Attaches
      BY <1>4, <1>7, <2>2 DEF Follows, Fits, AttachSteps
    <3>2. Bound(s, d, settled) /\ s.doc = d.doc /\ d.doc # None
      <4>1. Bound(r, d, settled) /\ r.doc = d.doc /\ (r.kind # "clear" => d.doc # None)
        BY <1>4, <2>2, <3>1 DEF Found
      <4>2. r.kind # "clear"
        BY <3>1 DEF Attaches
      <4>3. QED
        BY <1>3, <1>4, <2>2, <4>1, <4>2 DEF Bound, Stored
    <3>3. QED
      BY <3>1, <3>2 DEF Found
  <2>3. CASE a = "delete"
    <3>1. Head(s.todo) = "make"
      BY <1>4, <1>7, <2>3 DEF Follows
    <3>2. QED
      BY <1>4, <2>3, <3>1 DEF Found
  <2>4. CASE a = "read"
    <3>1. Head(s.todo) \in {"contact", "field", "active"}
      BY <1>4, <1>7, <2>4 DEF Follows
    <3>2. s.kind \in Attaches => Bound(s, d, settled)
      BY <1>3, <1>4, <2>4 DEF Found, Bound, Stored
    <3>3. s.doc = d.doc /\ d.doc # None
      BY <1>3, <2>4
    <3>4. QED
      BY <3>1, <3>2, <3>3 DEF Found
  <2>5. CASE a = "rank"
    <3>1. Head(s.todo) = "delete"
      BY <1>4, <1>7, <2>5 DEF Follows
    <3>2. QED
      BY <1>4, <1>5, <2>5, <3>1 DEF Found
  <2>6. QED
    BY <1>1, <2>1, <2>2, <2>3, <2>4, <2>5
<1>8. QED
  BY <1>1, <1>2, <1>3, <1>6, <1>7, SerialQuiet DEF d, s

LEMMA SerialSaves ==
  ASSUME ProjectDeskAssumption, TypeOK, Scripted, Serial, NEW t \in Threads,
         SaveBody(t) \/ SaveField(t)
  PROVE  Serial'
<1> DEFINE p == req[t].proj
           d == disk[p]
           e == disk'[p]
           r == req[t]
           s == req'[t]
<1>1. CASE SaveBody(t)
  <2> DEFINE doc == BodySaved(t)
  <2>1. /\ Moves(t) /\ s.ident = r.ident /\ s.doc = doc /\ p \in Projects /\ Elsewhere(p)
        /\ e = [d EXCEPT !.doc = doc, !.there = TRUE] /\ doc # None
        /\ doc.body = r.body /\ doc.ident = r.ident /\ doc.has = r.doc.has \ {"lane"}
        /\ r.body \in Bodies /\ r.kind \in Attaches
    BY <1>1, SaveBodyEffect
  <2>2. At(t, "body") /\ active' = active /\ settled' = settled
        /\ kept' = [kept EXCEPT ![p] = @ \ {"lane"}]
    BY <1>1 DEF SaveBody, Save
  <2>3. kept'[p] = kept[p] \ {"lane"} /\ \A q \in Projects : q # p => kept'[q] = kept[q]
    BY <2>1, <2>2 DEF TypeOK
  <2>4. /\ Found(r, "body", d, settled, active) /\ d \in Dir
        /\ Sound(p, d, settled, kept[p], active)
        /\ s.todo # <<>> => Follows(r.kind, "body", Head(s.todo))
        /\ s.body = r.body /\ s.kind = r.kind /\ s.proj = p /\ r.proj = p
    BY <2>1, <2>2, Finding DEF Moves
  <2> HIDE DEF doc, p, d, e, r, s
  <2>5. /\ e.there /\ e.doc = doc /\ e.files = d.files /\ e.cert = d.cert /\ e.fuse = d.fuse
    BY <2>1, <2>4 DEF Dir
  <2>6. Bound(r, d, settled) /\ r.doc = d.doc /\ d.doc # None
    BY <2>1, <2>4 DEF Found, Attaches
  <2>7. Bound(s, e, settled)
    BY <2>1, <2>4, <2>5, <2>6 DEF Bound, Stored
  <2>8. Sound(p, e, settled, kept'[p], active)
    BY <2>1, <2>3, <2>4, <2>5, <2>6 DEF Sound, Bound, Stored
  <2>9. s.todo # <<>> => Found(s, Head(s.todo), e, settled, active)
    <3>1. s.todo # <<>> => Head(s.todo) \in {"body", "absent"}
      BY <2>4 DEF Follows
    <3>2. QED
      BY <2>1, <2>5, <2>7, <3>1 DEF Found
  <2>10. Left(s, e)
    <3>1. Agrees(e)
      BY <2>1, <2>5, <2>6 DEF Agrees, Bound, Stored
    <3>2. s.kind \notin Fields
      BY <2>1, <2>4, AttachKinds
    <3>3. QED
      BY <3>1, <3>2 DEF Left
  <2>11. QED
    BY <2>1, <2>2, <2>3, <2>8, <2>9, <2>10, SerialMove DEF p, e, s
<1>2. CASE SaveField(t)
  <2> DEFINE doc == FieldSaved(t)
  <2>1. /\ Moves(t) /\ s.doc = doc /\ p \in Projects /\ Elsewhere(p)
        /\ e = [d EXCEPT !.doc = doc, !.there = TRUE] /\ doc # None
        /\ doc.body = r.doc.body /\ doc.ident = r.doc.ident
        /\ doc.has = r.doc.has \union {r.kind} /\ r.kind \in Fields
    BY <1>2, SaveFieldEffect
  <2>2. At(t, "field") /\ active' = active /\ settled' = settled /\ kept' = kept
    BY <1>2 DEF SaveField, Save
  <2>4. /\ Found(r, "field", d, settled, active) /\ d \in Dir
        /\ Sound(p, d, settled, kept[p], active)
        /\ s.todo # <<>> => Follows(r.kind, "field", Head(s.todo))
        /\ s.kind = r.kind /\ s.proj = p /\ r.proj = p
    BY <2>1, <2>2, Finding DEF Moves
  <2> HIDE DEF doc, p, d, e, r, s
  <2>5. /\ e.there /\ e.doc = doc /\ e.files = d.files /\ e.cert = d.cert /\ e.fuse = d.fuse
    BY <2>1, <2>4 DEF Dir
  <2>6. r.doc = d.doc /\ d.doc # None
    BY <2>1, <2>4 DEF Found, Fields
  <2>7. Sound(p, e, settled, kept'[p], active)
    <3>1. Agrees(d) => Agrees(e)
      BY <2>1, <2>5, <2>6 DEF Agrees
    <3>2. QED
      BY <2>1, <2>2, <2>4, <2>5, <2>6, <3>1 DEF Sound
  <2>8. s.todo = <<>>
    BY <2>4 DEF Follows
  <2>9. Left(s, e)
    <3>1. s.kind \notin Attaches
      BY <2>1, <2>4, AttachKinds
    <3>2. QED
      BY <2>1, <2>4, <2>5, <3>1 DEF Left
  <2>10. QED
    BY <2>1, <2>2, <2>7, <2>8, <2>9, SerialMove DEF p, e, s
<1>3. QED
  BY <1>1, <1>2

LEMMA SerialActive ==
  ASSUME ProjectDeskAssumption, TypeOK, Scripted, Serial, NEW t \in Threads,
         SetActive(t) \/ SetTwin(t)
  PROVE  Serial'
<1> DEFINE r == req[t]
           s == req'[t]
<1>1. /\ Moves(t) /\ disk' = disk
      /\ IF r.kind = "clear" THEN Target(t) = "cleared"
                             ELSE Target(t) = r.proj /\ r.proj \in Projects
  BY ActiveEffect
<1>2. PICK a \in {"active", "twin"} : At(t, a)
  BY DEF SetActive, SetTwin
<1>3. kept' = kept /\ settled' = settled
  BY DEF SetActive, SetTwin
<1>4. /\ Found(r, a, disk[r.proj], settled, active) /\ Fits(r.kind, a)
      /\ s.todo # <<>> => Follows(r.kind, a, Head(s.todo))
      /\ s.todo = <<>> => r.kind \notin Fields /\ r.kind \notin Attaches
      /\ s.kind = r.kind /\ s.proj = r.proj /\ r # Idle
  BY <1>1, <1>2, Finding, AtStep DEF Moves
<1>5. \/ a = "active" /\ active' = Target(t)
      \/ a = "twin" /\ active' = active
  BY <1>2 DEF SetActive, SetTwin, At
<1>6. ASSUME NEW q \in Projects PROVE Sound(q, disk'[q], settled', kept'[q], active')
  <2>1. Sound(q, disk[q], settled, kept[q], active)
    BY DEF Serial
  <2>2. active' = q => disk[q].doc # None
    <3>1. CASE a = "twin"
      BY <1>5, <2>1, <3>1 DEF Sound
    <3>2. CASE a = "active"
      <4>1. SUFFICES ASSUME Target(t) = q PROVE disk[q].doc # None
        BY <1>5, <3>2
      <4>2. r.kind # "clear" /\ r.proj = q
        BY <1>1, <4>1 DEF ProjectDeskAssumption
      <4>3. QED
        BY <1>4, <3>2, <4>2 DEF Found
    <3>3. QED
      BY <1>2, <3>1, <3>2
  <2>3. QED
    BY <1>1, <1>3, <2>1, <2>2 DEF Sound
<1>7. Ready(s, disk'[s.proj], settled', active')
  <2>1. ASSUME s.todo # <<>> PROVE Head(s.todo) = "twin"
    BY <1>2, <1>4, <2>1 DEF Follows
  <2>2. s.todo # <<>> => Found(s, Head(s.todo), disk'[s.proj], settled', active')
    BY <2>1 DEF Found
  <2>3. s.todo = <<>> => Left(s, disk'[s.proj])
    BY <1>4 DEF Left
  <2>4. QED
    BY <2>2, <2>3 DEF Ready
<1>8. QED
  BY <1>1, <1>4, <1>6, <1>7, SerialFrame DEF Moves

LEMMA SerialDelete ==
  ASSUME ProjectDeskAssumption, TypeOK, Scripted, Serial, NEW t \in Threads, Delete(t)
  PROVE  Serial'
<1> DEFINE r == req[t]
           s == req'[t]
<1>1. /\ r # Idle /\ \A u \in Threads : u # t => req'[u] = req[u]
      /\ s.todo = r.todo /\ s.kind = r.kind /\ s.proj = r.proj /\ s.body = r.body
      /\ s.doomed \subseteq r.doomed
  BY DeleteEffect
<1>2. PICK p \in r.doomed : p \in Projects /\ Elsewhere(p) /\ Shrunk(p)
  BY DeleteEffect
<1>3. /\ r.todo # <<>> /\ Head(r.todo) = "delete" /\ active' = active
      /\ settled' = settled \ r.doomed
  BY DEF Delete, At
<1>4. Found(r, "delete", disk[r.proj], settled, active) /\ Served(r)
  <2>1. Ready(r, disk[r.proj], settled, active)
    BY <1>1 DEF Serial
  <2>2. QED
    BY <1>1, <1>3, <2>1 DEF Ready, Scripted
<1>5. /\ disk[p] \in Dir /\ kept[p] \in SUBSET Fields
      /\ kept \in [Projects -> SUBSET Fields]
      /\ Sound(p, disk[p], settled, kept[p], active)
  BY <1>2 DEF TypeOK, Serial
<1>6. /\ ~disk[p].there => ~disk'[p].there
      /\ \/ disk'[p].doc = None /\ disk'[p].there = disk[p].there /\ kept' = kept
         \/ /\ disk'[p].doc = disk[p].doc /\ disk'[p].there = disk[p].there
            /\ kept' = kept
         \/ disk'[p].doc = None /\ kept' = [kept EXCEPT ![p] = {}]
  <2>1. CASE disk'[p] = [disk[p] EXCEPT !.doc = None] /\ kept' = kept
    BY <1>5, <2>1 DEF Dir
  <2>2. CASE /\ disk'[p] = [disk[p] EXCEPT !.files = NoDir.files, !.cert = None]
             /\ kept' = kept
    BY <1>5, <2>2 DEF Dir
  <2>3. CASE disk'[p] = NoDir /\ kept' = [kept EXCEPT ![p] = {}]
    BY <2>3 DEF NoDir
  <2>4. QED
    BY <1>2, <2>1, <2>2, <2>3 DEF Shrunk
<1>7. ASSUME NEW q \in Projects PROVE Sound(q, disk'[q], settled', kept'[q], active')
  <2>1. CASE q = p
    <3>1. p \notin settled' /\ active # p
      BY <1>2, <1>3, <1>4 DEF Found
    <3>2. kept'[p] = kept[p] \/ (kept'[p] = {} /\ disk'[p].doc = None)
      BY <1>2, <1>5, <1>6
    <3>3. disk'[p].doc # None => kept'[p] \subseteq disk'[p].doc.has
      BY <1>2, <1>5, <1>6, <3>2 DEF Sound
    <3>4. ~disk'[p].there => kept'[p] = {} /\ disk'[p].doc = None
      BY <1>2, <1>5, <1>6, <3>2 DEF Sound
    <3>5. QED
      BY <1>3, <2>1, <3>1, <3>3, <3>4 DEF Sound
  <2>2. CASE q # p
    <3>1. Sound(q, disk[q], settled, kept[q], active)
      BY DEF Serial
    <3>2. kept'[q] = kept[q]
      BY <1>2, <1>5, <1>6, <2>2
    <3>3. disk'[q] = disk[q] /\ (q \in settled' => q \in settled)
      BY <1>2, <1>3, <2>2 DEF Elsewhere
    <3>4. QED
      BY <1>3, <3>1, <3>2, <3>3 DEF Sound
  <2>3. QED
    BY <2>1, <2>2
<1>8. Ready(s, disk'[s.proj], settled', active')
  <2>1. ASSUME s.kind \in Makes PROVE ~disk'[s.proj].there
    <3>1. ~disk[s.proj].there
      BY <1>1, <1>4, <2>1 DEF Found
    <3>2. s.proj \in Projects
      BY <1>1, <1>4, <2>1, AttachKinds DEF Served
    <3>3. QED
      BY <1>2, <1>6, <3>1, <3>2 DEF Elsewhere
  <2>2. active' \notin s.doomed
    BY <1>1, <1>3, <1>4 DEF Found
  <2>3. Head(s.todo) = "delete" /\ s.todo # <<>>
    BY <1>1, <1>3
  <2>4. Found(s, "delete", disk'[s.proj], settled', active')
    BY <2>1, <2>2 DEF Found
  <2>5. QED
    BY <2>3, <2>4 DEF Ready
<1>9. QED
  BY <1>1, <1>7, <1>8, SerialFrame

LEMMA SerialMake ==
  ASSUME ProjectDeskAssumption, TypeOK, Scripted, Serial, NEW t \in Threads, Make(t)
  PROVE  Serial'
<1> DEFINE p == req[t].proj
           d == disk[p]
           e == disk'[p]
           r == req[t]
           s == req'[t]
<1>1. /\ Moves(t) /\ p \in Projects /\ Elsewhere(p)
      /\ e = [d EXCEPT !.doc = BlankDoc, !.there = TRUE]
      /\ r.kind \in Makes /\ BlankDoc # None
  BY MakeEffect
<1>2. At(t, "make") /\ active' = active /\ settled' = settled /\ kept' = kept
  BY DEF Make
<1>3. /\ Found(r, "make", d, settled, active) /\ d \in Dir
      /\ Sound(p, d, settled, kept[p], active)
      /\ s.todo # <<>> => Follows(r.kind, "make", Head(s.todo))
      /\ s.todo = <<>> => r.kind \notin Fields /\ r.kind \notin Attaches
      /\ s.kind = r.kind /\ s.proj = p /\ r.proj = p
  <2>1. Moves(t) /\ At(t, "make") /\ p \in Projects
    BY <1>1, <1>2
  <2>2. s.kind = r.kind /\ s.proj = p /\ r.proj = p
    BY <2>1 DEF Moves
  <2>3. QED
    BY <2>1, <2>2, Finding
<1> HIDE DEF p, d, e, r, s
<1>4. e.there /\ e.doc = BlankDoc /\ BlankDoc.body = None
  BY <1>1, <1>3 DEF Dir, BlankDoc
<1>5. kept[p] = {}
  BY <1>1, <1>3 DEF Found, Sound
<1>6. Sound(p, e, settled, kept'[p], active)
  BY <1>1, <1>2, <1>4, <1>5 DEF Sound, Agrees
<1>7. s.todo # <<>> => Found(s, Head(s.todo), e, settled, active)
  <2>1. s.todo # <<>> => Head(s.todo) \in {"compile", "absent"}
    BY <1>3 DEF Follows
  <2>2. s.kind # "upload"
    BY <1>1, <1>3, AttachKinds
  <2>3. QED
    BY <2>1, <2>2 DEF Found
<1>8. s.todo = <<>> => Left(s, e)
  BY <1>3 DEF Left
<1>9. QED
  BY <1>1, <1>2, <1>6, <1>7, <1>8, SerialMove DEF p, e, s

LEMMA SerialStep ==
  ASSUME ProjectDeskAssumption, TypeOK, Scripted, Serial, NEW t \in Threads, Step(t)
  PROVE  Serial'
<1>1. CASE Store(t) \/ Copy(t)
  BY <1>1, SerialBytes
<1>2. CASE Manifest(t) \/ ReceiptFile(t) \/ Certify(t) \/ Certified(t) \/ Bind(t)
  BY <1>2, SerialCertifies
<1>3. CASE Compile(t) \/ Contact(t) \/ Deleted(t) \/ Read(t) \/ Rank(t)
  BY <1>3, SerialReads
<1>4. CASE SaveBody(t) \/ SaveField(t)
  BY <1>4, SerialSaves
<1>5. CASE SetActive(t) \/ SetTwin(t)
  BY <1>5, SerialActive
<1>6. CASE Delete(t) \/ Make(t)
  BY <1>6, SerialDelete, SerialMake
<1>7. QED
  BY <1>1, <1>2, <1>3, <1>4, <1>5, <1>6 DEF Step

LEMMA SerialStart ==
  ASSUME ProjectDeskAssumption, TypeOK, Scripted, Serial, NEW t \in Threads, NEW k \in Kinds,
         NEW p \in Projects \union {None}, NEW b \in Bodies \union {None}, Start(t, k, p, b),
         ~tangled'
  PROVE  Serial'
<1>1. /\ \A u \in Threads : u # t => req'[u] = req[u]
      /\ req'[t].kind = k /\ req'[t].todo = Scripts[k] /\ req'[t].proj = p
      /\ k \in Makes => disk[p] = NoDir
  BY StartEffect
<1>2. /\ disk' = disk /\ settled' = settled /\ kept' = kept /\ active' = active
      /\ \A u \in Threads : req[u] = Idle
  BY DEF Start
<1>3. Alone'
  BY <1>1, <1>2 DEF Alone
<1>4. Ready(req'[t], disk[p], settled, active)
  <2> DEFINE h == Head(Scripts[k])
  <2>1. Scripts[k] # <<>>
    BY FirstStep
  <2>2. ~NoDir.there
    BY DEF NoDir
  <2>3. CASE k \in Makes
    <3>1. h = "rank" /\ ~disk[p].there
      BY <1>1, <2>2, <2>3, FirstStep
    <3>2. Found(req'[t], "rank", disk[p], settled, active)
      BY <3>1 DEF Found
    <3>3. QED
      BY <1>1, <2>1, <3>1, <3>2 DEF Ready
  <2>4. CASE k \in {"upload", "registry"}
    <3>1. \/ k = "upload" /\ h = "store"
          \/ k = "registry" /\ h = "compile"
      BY <2>4, FirstStep
    <3>2. Found(req'[t], h, disk[p], settled, active)
      BY <1>1, <3>1 DEF Found
    <3>3. QED
      BY <1>1, <2>1, <3>2 DEF Ready
  <2>5. CASE k \notin Makes \union {"upload", "registry"}
    <3>1. k \notin Attaches /\ k \notin Makes
      BY <2>5 DEF Attaches, Makes
    <3>2. h \in {"absent", "receipt", "read", "active", "rank"} /\ (h = "active" => k = "clear")
      BY <3>1, FirstStep
    <3> HIDE DEF h
    <3>3. Found(req'[t], h, disk[p], settled, active)
      BY <1>1, <3>1, <3>2 DEF Found
    <3>4. QED
      BY <1>1, <2>1, <3>3 DEF Ready, h
  <2>6. QED
    BY <2>3, <2>4, <2>5
<1>5. \A u \in Threads : req'[u] # Idle =>
         Ready(req'[u], disk'[req'[u].proj], settled', active')
  BY <1>1, <1>2, <1>4
<1>6. \A q \in Projects : Sound(q, disk'[q], settled', kept'[q], active')
  BY <1>2 DEF Serial
<1>7. QED
  BY <1>3, <1>5, <1>6 DEF Serial, Alone, Ready, Found, Left, Agrees, Stored, Bound, Sound

LEMMA SerialEnd ==
  ASSUME ProjectDeskAssumption, TypeOK, Scripted, Serial, NEW t \in Threads,
         Answer(t) \/ Raise(t) \/ Kill(t)
  PROVE  Serial'
<1> DEFINE r == req[t]
<1>1. /\ r # Idle /\ Served(r) /\ disk' = disk /\ active' = active
      /\ req'[t] = Idle /\ \A u \in Threads : u # t => req'[u] = req[u]
      /\ r.kind \in Fields => r.proj \in Projects
  BY EndEffect
<1>2. ASSUME NEW q \in Projects PROVE Sound(q, disk[q], settled', kept'[q], active)
  <2>1. Sound(q, disk[q], settled, kept[q], active)
    BY DEF Serial
  <2>2. CASE Raise(t) \/ Kill(t)
    BY <2>1, <2>2 DEF Raise, Kill
  <2>3. CASE Answer(t)
    <3>1. /\ r.todo = <<>>
          /\ settled' = IF r.kind \in Attaches THEN settled \union {r.proj} ELSE settled
          /\ kept' = IF r.kind \in Fields THEN [kept EXCEPT ![r.proj] = @ \union {r.kind}]
                                           ELSE kept
      BY <2>3 DEF Answer
    <3>2. Left(r, disk[r.proj])
      <4>1. Ready(r, disk[r.proj], settled, active)
        BY <1>1 DEF Serial
      <4>2. QED
        BY <3>1, <4>1 DEF Ready
    <3>3. q \in settled' => Agrees(disk[q])
      BY <2>1, <3>1, <3>2 DEF Sound, Left
    <3>4. \/ kept'[q] = kept[q]
          \/ q = r.proj /\ r.kind \in Fields /\ kept'[q] = kept[q] \union {r.kind}
      BY <1>1, <3>1 DEF TypeOK
    <3>5. /\ disk[q].doc # None => kept'[q] \subseteq disk[q].doc.has
          /\ ~disk[q].there => kept'[q] = {} /\ disk[q].doc = None
      BY <2>1, <3>2, <3>4 DEF Sound, Left
    <3>6. QED
      BY <2>1, <3>3, <3>5 DEF Sound
  <2>4. QED
    BY <2>2, <2>3
<1>3. QED
  BY <1>1, <1>2, SerialFrame

(* A global request has no project: what it finds is in no directory.      *)
LEMMA GlobalReady ==
  ASSUME NEW r, Served(r), r.kind \in Global, NEW d, NEW e, NEW S, NEW act,
         Ready(r, d, S, act)
  PROVE  Ready(r, e, S, act)
<1>1. r.kind \notin Attaches /\ r.kind \notin Fields /\ r.kind \notin Makes
  BY AttachKinds
<1>2. CASE r.todo # <<>>
  <2> DEFINE a == Head(r.todo)
  <2>1. a = r.todo[1] /\ 1 \in 1..Len(r.todo)
    <3>1. r.todo \in Seq(Steps)
      BY DEF Served, Script, Chain
    <3>2. a = r.todo[1] /\ Len(r.todo) \in Nat \ {0}
      BY <1>2, <3>1, TailFacts
    <3>3. QED
      BY <3>2
  <2>2. Fits(r.kind, a)
    BY <2>1 DEF Served, Script, Chain
  <2> HIDE DEF a
  <2>3. IF r.kind = "prune" THEN a \in {"rank", "delete"} ELSE a \in {"active", "twin"}
    BY <2>2 DEF Fits
  <2>4. r.kind = "prune" \/ r.kind = "clear"
    BY DEF Global
  <2>5. Found(r, a, d, S, act)
    BY <1>2 DEF Ready, a
  <2>6. Found(r, a, e, S, act)
    BY <1>1, <2>3, <2>4, <2>5 DEF Found
  <2>7. QED
    BY <1>2, <2>6 DEF Ready, a
<1>3. CASE r.todo = <<>>
  BY <1>1, <1>3 DEF Ready, Left
<1>4. QED
  BY <1>2, <1>3

LEMMA SerialBlow ==
  ASSUME ProjectDeskAssumption, TypeOK, Scripted, Serial, NEW p \in Projects, BlowFuse(p)
  PROVE  Serial'
<1>1. /\ Elsewhere(p) /\ disk'[p] = [disk[p] EXCEPT !.blown = TRUE] /\ disk[p] \in Dir
      /\ req' = req /\ settled' = settled /\ kept' = kept /\ active' = active
      /\ \A u \in Threads : req[u].proj # p
  BY BlowEffect DEF TypeOK, BlowFuse, Busy
<1>2. /\ disk'[p].doc = disk[p].doc /\ disk'[p].files = disk[p].files
      /\ disk'[p].cert = disk[p].cert /\ disk'[p].fuse = disk[p].fuse
      /\ disk'[p].there = disk[p].there
  BY <1>1 DEF Dir
<1>3. ASSUME NEW q \in Projects PROVE Sound(q, disk'[q], settled', kept'[q], active')
  <2>1. Sound(q, disk[q], settled, kept[q], active)
    BY DEF Serial
  <2>2. CASE q = p
    BY <1>1, <1>2, <2>1, <2>2 DEF Sound, Agrees
  <2>3. CASE q # p
    BY <1>1, <2>1, <2>3 DEF Elsewhere
  <2>4. QED
    BY <2>2, <2>3
<1>4. ASSUME NEW u \in Threads, req[u] # Idle
      PROVE  Ready(req[u], disk'[req[u].proj], settled, active)
  <2>1. Ready(req[u], disk[req[u].proj], settled, active) /\ Served(req[u])
    BY <1>4 DEF Serial, Scripted
  <2>2. CASE req[u].kind \in Global
    BY <2>1, <2>2, GlobalReady
  <2>3. CASE req[u].kind \notin Global
    <3>1. disk'[req[u].proj] = disk[req[u].proj]
      BY <1>1, <2>1, <2>3 DEF Served, Elsewhere
    <3>2. QED
      BY <2>1, <3>1
  <2>4. QED
    BY <2>2, <2>3
<1>5. Alone'
  BY <1>1 DEF Serial, Alone
<1>6. \A u \in Threads : req'[u] # Idle =>
         Ready(req'[u], disk'[req'[u].proj], settled', active')
  BY <1>1, <1>4
<1>7. QED
  BY <1>3, <1>5, <1>6 DEF Serial, Alone, Ready, Found, Left, Agrees, Stored, Bound, Sound

LEMMA OrderlyStep ==
  ASSUME ProjectDeskAssumption, TypeOK, Scripted, Orderly, [Next]_vars
  PROVE  Orderly'
<1>1. SUFFICES ASSUME ~tangled' PROVE Serial'
  BY DEF Orderly
<1>2. ASSUME NEW t \in Threads, NEW k \in Kinds, NEW p \in Projects \union {None},
             NEW b \in Bodies \union {None}, Start(t, k, p, b)
      PROVE  Serial'
  <2>1. ~tangled
    BY <1>1, <1>2 DEF Start
  <2>2. QED
    BY <1>1, <1>2, <2>1, SerialStart DEF Orderly
<1>3. ASSUME NEW t \in Threads, Step(t) PROVE Serial'
  <2>1. tangled' = tangled
    BY <1>3 DEF Step, Store, Compile, Copy, Manifest, Certify, Certified, Bind, ReceiptFile,
                Read, Contact, SaveBody, SaveField, Save, SetActive, SetTwin, Rank, Delete,
                Deleted, Make, Counts
  <2>2. QED
    BY <1>1, <1>3, <2>1, SerialStep DEF Orderly
<1>4. ASSUME NEW t \in Threads, Answer(t) \/ Raise(t) \/ Kill(t) PROVE Serial'
  <2>1. tangled' = tangled
    BY <1>4, EndEffect
  <2>2. QED
    BY <1>1, <1>4, <2>1, SerialEnd DEF Orderly
<1>5. ASSUME NEW p \in Projects, BlowFuse(p) PROVE Serial'
  <2>1. tangled' = tangled
    BY <1>5 DEF BlowFuse, Counts
  <2>2. QED
    BY <1>1, <1>5, <2>1, SerialBlow DEF Orderly
<1>6. CASE UNCHANGED vars
  <2>1. Serial
    BY <1>1, <1>6 DEF vars, Orderly
  <2>2. QED
    BY <1>6, <2>1 DEF vars, Serial, Alone
<1>7. QED
  BY <1>2, <1>3, <1>4, <1>5, <1>6 DEF Next

-----------------------------------------------------------------------------
LEMMA InvInit == ASSUME ProjectDeskAssumption, Init PROVE Inv
<1>1. TypeOK /\ Scripted
  BY TypesInit
<1>2. Named
  <2>1. NamedDir(NoDir)
    BY DEF NamedDir, NoDir
  <2>2. NamedReq(Idle)
    BY DEF NamedReq, Idle, SameName, BlankDoc
  <2>3. QED
    BY <2>1, <2>2 DEF Named, Init
<1>3. Chosen
  BY DEF Init, Chosen, At, Idle
<1>4. Serial
  <2>1. Alone /\ \A t \in Threads : req[t] = Idle
    BY DEF Init, Alone
  <2>2. ASSUME NEW p \in Projects PROVE Sound(p, disk[p], settled, kept[p], active)
    <3>1. /\ disk[p] = NoDir /\ kept[p] = {} /\ active = None /\ active # p
      BY DEF Init, ProjectDeskAssumption
    <3>2. NoDir.doc = None
      BY DEF NoDir
    <3>3. QED
      BY <3>1, <3>2 DEF Sound, Agrees
  <2>3. QED
    BY <2>1, <2>2 DEF Serial
<1>5. QED
  BY <1>1, <1>2, <1>3, <1>4 DEF Inv, Orderly

LEMMA InvStep == ASSUME ProjectDeskAssumption, Inv, [Next]_vars PROVE Inv'
BY TypesStep, NamedStep, ChosenStep, OrderlyStep DEF Inv

LEMMA Invariance == ProjectDeskAssumption => (Spec => []Inv)
<1> SUFFICES ASSUME ProjectDeskAssumption PROVE Spec => []Inv
  OBVIOUS
<1>1. Init => Inv
  BY InvInit
<1>2. Inv /\ [Next]_vars => Inv'
  BY InvStep
<1>3. QED
  BY <1>1, <1>2, PTL DEF Spec

(* However requests interleave and are killed, the files of a project hold *)
(* what they may hold and a request works on a project that has an id:     *)
(* TypeOK of the scripts of robot_project_desk_v1.py.                      *)
THEOREM DeskTypes == ProjectDeskAssumption => (Spec => []TypeOK)
<1>1. Inv => TypeOK
  BY DEF Inv
<1>2. QED
  BY <1>1, Invariance, PTL

LEMMA GateHolds == ASSUME ProjectDeskAssumption, Inv PROVE GateCatches
<1>1. SUFFICES ASSUME NEW p \in Projects, GatePasses(p), disk[p].doc.body # None,
                      disk[p].cert # disk[p].doc.ident
               PROVE  \E b \in Bodies \ {disk[p].doc.body} :
                         FileOf[b] = FileOf[disk[p].doc.body]
  BY DEF GateCatches
<1> DEFINE d == disk[p]
<1>2. d \in Dir /\ NamedDir(d) /\ d.doc # None
  BY <1>1 DEF Inv, TypeOK, Named, GatePasses
<1>3. d.doc.body \in Bodies /\ d.cert \in Bodies /\ d.files[FileOf[d.doc.body]] = d.cert
  BY <1>1, <1>2 DEF Dir, Doc, GatePasses
<1> HIDE DEF d
<1>4. FileOf[d.doc.body] \in Files /\ d.cert # None
  BY <1>3 DEF ProjectDeskAssumption
<1>5. FileOf[d.cert] = FileOf[d.doc.body]
  BY <1>2, <1>3, <1>4 DEF NamedDir
<1>6. d.doc.ident \in Bodies /\ FileOf[d.doc.ident] = FileOf[d.doc.body]
  BY <1>1, <1>2 DEF NamedDir, SameName, d
<1>7. d.cert # d.doc.ident
  BY <1>1 DEF d
<1>8. \E b \in Bodies \ {d.doc.body} : FileOf[b] = FileOf[d.doc.body]
  <2>1. CASE d.cert # d.doc.body
    BY <1>3, <1>5, <2>1
  <2>2. CASE d.cert = d.doc.body
    BY <1>6, <1>7, <2>2
  <2>3. QED
    BY <2>1, <2>2
<1>9. QED
  BY <1>8 DEF d

(* A project whose attach returned names one body in its document, its     *)
(* stored file, its artifact and its fuse, whatever was refused or killed; *)
(* and, even while requests interleave, the identity gate lets another     *)
(* artifact pass only for a body of the same file name                     *)
(* (attach_body_from_urdf and siblings, require_body_identity).            *)
THEOREM BodyIsAttested == ProjectDeskAssumption => (Spec => []Attested)
<1> SUFFICES ASSUME ProjectDeskAssumption PROVE Spec => []Attested
  OBVIOUS
<1>1. Inv => Attested
  <2>1. SUFFICES ASSUME Inv PROVE Attested
    OBVIOUS
  <2>2. GateCatches
    BY <2>1, GateHolds
  <2>3. SettledAgrees
    <3>1. SUFFICES ASSUME ~tangled, NEW p \in settled PROVE Agrees(disk[p])
      BY DEF SettledAgrees, Agrees
    <3>2. p \in Projects
      BY <2>1 DEF Inv, TypeOK
    <3>3. QED
      BY <2>1, <3>1, <3>2 DEF Inv, Orderly, Serial, Sound
  <2>4. QED
    BY <2>2, <2>3 DEF Attested
<1>2. QED
  BY <1>1, Invariance, PTL

(* What an attach or a run put into project.json is there until the project*)
(* goes, whatever other request on it follows (_save_project writes the    *)
(* whole document back), as long as requests do not overlap.               *)
THEOREM AttachIsKept == ProjectDeskAssumption => (Spec => []AttachKept)
<1>1. Inv => AttachKept
  BY DEF Inv, Orderly, Serial, Sound, AttachKept, Live
<1>2. QED
  BY <1>1, Invariance, PTL

(* No prune deletes the active project, while requests do not overlap; and *)
(* however they do, the twin never names a project alone                   *)
(* (prune_projects, set_active_project).                                   *)
THEOREM ActiveIsAlive == ProjectDeskAssumption => (Spec => []ActiveAlive)
<1>1. Inv => ActiveAlive
  BY DEF Inv, Chosen, Orderly, Serial, Sound, ActiveAlive, Live
<1>2. QED
  BY <1>1, Invariance, PTL
=============================================================================
