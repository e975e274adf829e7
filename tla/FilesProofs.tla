---------------------------- MODULE FilesProofs ----------------------------
(***************************************************************************)
(* Proofs about Files, for any writers, texts, projects, bodies, robots,   *)
(* scenes and bounds: the replacement of one file (AtomicFile), what a     *)
(* returning visitor sees (DeskBoot, the instance Boot), and, from them    *)
(* and from ProjectDeskProofs, the composition.                            *)
(*                                                                         *)
(* AtomicFile: a file replaced by atomic_json_v1 is a register of complete *)
(* documents, and the visitor vault is torn only while a writer is still   *)
(* filling it or after a kill.  The inductive invariant says who can reach *)
(* an inode.  A descriptor is open while its writer fills, and never       *)
(* outside.  With private names a temporary name leads to an inode of its  *)
(* own, which is not the destination's, and the writer about to move it    *)
(* has filled it.                                                          *)
(***************************************************************************)
EXTENDS Files, Integers, TLAPS

(* A descriptor is open exactly while its writer fills the file.           *)
OpenWhileFilling ==
    \A w \in Writers : IF pc[w] = "fill" THEN fd[w] \in Inodes ELSE fd[w] = Nobody

(* A text is incomplete only while somebody writes it, or after a kill.    *)
HalfIsBeingFilled ==
    \A i \in Inodes : inode[i] = Half => kills > 0 \/ \E w \in Writers : fd[w] = i

(* Private names: an inode has one name at most, and the destination's has *)
(* no other; the writer fills the inode its name leads to.                 *)
OneName ==
    /\ \A m, n \in Names : temp[m] = temp[n] /\ temp[m] # Nobody => m = n
    /\ \A n \in Names : temp[n] # path
    /\ \A w \in Writers : fd[w] # Nobody => fd[w] = temp[w]

(* Private names: what is moved is complete, and so is the destination.    *)
Complete ==
    /\ \A w \in Writers : pc[w] = "move" => temp[w] \in Inodes /\ inode[temp[w]] \in Texts
    /\ inode[path] # Half

Inv == /\ TypeOK /\ OpenWhileFilling /\ HalfIsBeingFilled
       /\ private => OneName /\ Complete

-----------------------------------------------------------------------------
(* Every variable of the file model keeps its type.                        *)
LEMMA TypeStep == TypeOK /\ [Next]_vars => TypeOK'
<1> SUFFICES ASSUME TypeOK, [Next]_vars PROVE TypeOK'
  OBVIOUS
<1> USE AtomicAssumption DEF TypeOK, Content, Inodes, Names
<1>1. CASE Hold
  BY <1>1 DEF Hold
<1>2. ASSUME NEW w \in Writers, Enter(w) PROVE TypeOK'
  BY <1>2 DEF Enter
<1>3. ASSUME NEW w \in Writers, Open(w) PROVE TypeOK'
  <2>1. PICK i \in Inodes : /\ temp' = [temp EXCEPT ![TempOf(w)] = i]
                            /\ inode' = [inode EXCEPT ![i] = Half]
                            /\ fd' = [fd EXCEPT ![w] = i]
    BY <1>3 DEF Open
  <2>2. inode' \in [Inodes -> Content]
    BY <2>1
  <2>3. QED
    BY <1>3, <2>1, <2>2 DEF Open
<1>4. ASSUME NEW w \in Writers, Fill(w) PROVE TypeOK'
  BY <1>4 DEF Fill
<1>5. ASSUME NEW w \in Writers, Move(w) PROVE TypeOK'
  <2>1. TempOf(w) \in Names
    BY DEF TempOf
  <2>2. QED
    BY <1>5, <2>1 DEF Move, Done
<1>6. ASSUME NEW w \in Writers, Refused(w) PROVE TypeOK'
  BY <1>6 DEF Refused
<1>7. ASSUME NEW w \in Writers, GiveUp(w) PROVE TypeOK'
  BY <1>7 DEF GiveUp, Done
<1>8. ASSUME NEW w \in Writers, Kill(w) PROVE TypeOK'
  BY <1>8 DEF Kill, Done
<1>9. ASSUME NEW w \in Writers, Again(w) PROVE TypeOK'
  BY <1>9 DEF Again
<1>10. CASE UNCHANGED vars
  BY <1>10 DEF vars
<1>11. QED
  BY <1>1, <1>2, <1>3, <1>4, <1>5, <1>6, <1>7, <1>8, <1>9, <1>10 DEF Next, Step

(* Descriptors are open while their writers fill, and incomplete texts are *)
(* the ones behind them.                                                   *)
LEMMA FillStep ==
    TypeOK /\ OpenWhileFilling /\ HalfIsBeingFilled /\ [Next]_vars
        => (OpenWhileFilling /\ HalfIsBeingFilled)'
<1> SUFFICES ASSUME TypeOK, OpenWhileFilling, HalfIsBeingFilled, [Next]_vars
             PROVE  (OpenWhileFilling /\ HalfIsBeingFilled)'
  OBVIOUS
<1> USE AtomicAssumption DEF TypeOK, OpenWhileFilling, HalfIsBeingFilled, Inodes
<1>1. CASE Hold \/ UNCHANGED vars
  BY <1>1 DEF Hold, vars
<1>2. ASSUME NEW w \in Writers, Enter(w) PROVE (OpenWhileFilling /\ HalfIsBeingFilled)'
  BY <1>2 DEF Enter
<1>3. ASSUME NEW w \in Writers, Open(w) PROVE (OpenWhileFilling /\ HalfIsBeingFilled)'
  <2>1. PICK i \in Inodes : /\ inode' = [inode EXCEPT ![i] = Half]
                            /\ fd' = [fd EXCEPT ![w] = i]
    BY <1>3 DEF Open
  <2>2. pc[w] = "open" /\ pc' = [pc EXCEPT ![w] = "fill"] /\ kills' = kills
    BY <1>3 DEF Open
  <2>3. OpenWhileFilling'
    BY <2>1, <2>2
  <2>4. HalfIsBeingFilled'
    <3> SUFFICES ASSUME NEW j \in Inodes, inode'[j] = Half, ~(kills > 0)
                 PROVE  \E v \in Writers : fd'[v] = j
      BY <2>2
    <3>1. CASE j = i
      BY <3>1, <2>1
    <3>2. CASE j # i
      <4>1. PICK v \in Writers : fd[v] = j
        BY <3>2, <2>1
      <4>2. v # w
        BY <4>1, <2>2
      <4>3. QED
        BY <4>1, <4>2, <2>1
    <3>3. QED
      BY <3>1, <3>2
  <2>5. QED
    BY <2>3, <2>4
<1>4. ASSUME NEW w \in Writers, Fill(w) PROVE (OpenWhileFilling /\ HalfIsBeingFilled)'
  <2>1. /\ pc[w] = "fill" /\ pc' = [pc EXCEPT ![w] = "move"] /\ kills' = kills
        /\ inode' = [inode EXCEPT ![fd[w]] = text[w]] /\ fd' = [fd EXCEPT ![w] = Nobody]
    BY <1>4 DEF Fill
  <2>2. OpenWhileFilling'
    BY <2>1
  <2>3. HalfIsBeingFilled'
    <3> SUFFICES ASSUME NEW j \in Inodes, inode'[j] = Half, ~(kills > 0)
                 PROVE  \E v \in Writers : fd'[v] = j
      BY <2>1
    <3>1. j # fd[w]
      BY <2>1 DEF Half
    <3>2. PICK v \in Writers : fd[v] = j
      BY <3>1, <2>1
    <3>3. QED
      BY <3>1, <3>2, <2>1
  <2>4. QED
    BY <2>2, <2>3
<1>5. ASSUME NEW w \in Writers, Move(w) \/ GiveUp(w)
      PROVE  (OpenWhileFilling /\ HalfIsBeingFilled)'
  <2>1. /\ pc[w] = "move" /\ UNCHANGED <<inode, fd, kills>>
        /\ pc' = [pc EXCEPT ![w] = "done"] \/ pc' = [pc EXCEPT ![w] = "raised"]
    BY <1>5 DEF Move, GiveUp, Done
  <2>2. QED
    BY <2>1
<1>6. ASSUME NEW w \in Writers, Refused(w) PROVE (OpenWhileFilling /\ HalfIsBeingFilled)'
  BY <1>6 DEF Refused
<1>7. ASSUME NEW w \in Writers, Kill(w) PROVE (OpenWhileFilling /\ HalfIsBeingFilled)'
  BY <1>7 DEF Kill, Done
<1>8. ASSUME NEW w \in Writers, Again(w) PROVE (OpenWhileFilling /\ HalfIsBeingFilled)'
  BY <1>8 DEF Again
<1>9. QED
  BY <1>1, <1>2, <1>3, <1>4, <1>5, <1>6, <1>7, <1>8 DEF Next, Step

(* With private names, every inode a name leads to is its writer's own,    *)
(* and what is moved is complete.                                          *)
LEMMA PrivateStep ==
    TypeOK /\ OpenWhileFilling /\ private /\ OneName /\ Complete /\ [Next]_vars
        => (OneName /\ Complete)'
<1> SUFFICES ASSUME TypeOK, OpenWhileFilling, private, OneName, Complete, [Next]_vars
             PROVE  (OneName /\ Complete)'
  OBVIOUS
<1> USE AtomicAssumption DEF TypeOK, OpenWhileFilling, OneName, Complete, Inodes, Names
<1>1. CASE Hold \/ UNCHANGED vars
  <2>1. UNCHANGED <<inode, path, temp, pc, fd>>
    BY <1>1 DEF Hold, vars
  <2>2. QED
    BY <2>1
<1>2. ASSUME NEW w \in Writers, Enter(w) PROVE (OneName /\ Complete)'
  BY <1>2 DEF Enter
<1>3. ASSUME NEW w \in Writers, Open(w) PROVE (OneName /\ Complete)'
  <2>1. PICK i \in Inodes : /\ IF temp[w] = Nobody THEN ~Reachable(i) ELSE i = temp[w]
                            /\ temp' = [temp EXCEPT ![w] = i]
                            /\ inode' = [inode EXCEPT ![i] = Half]
                            /\ fd' = [fd EXCEPT ![w] = i]
    BY <1>3 DEF Open, TempOf
  <2>2. /\ pc[w] = "open" /\ pc' = [pc EXCEPT ![w] = "fill"]
        /\ path' = path
    BY <1>3 DEF Open
  <2>3. i # path /\ \A n \in Names \ {w} : temp[n] # i
    BY <2>1 DEF Reachable
  <2>4. OneName'
    BY <2>1, <2>2, <2>3
  <2>5. Complete'
    <3>1. inode'[path'] # Half
      BY <2>1, <2>2, <2>3
    <3>2. ASSUME NEW v \in Writers, pc'[v] = "move"
          PROVE  temp'[v] \in Inodes /\ inode'[temp'[v]] \in Texts
      <4>1. v # w /\ pc[v] = "move"
        BY <3>2, <2>2
      <4>2. temp'[v] = temp[v] /\ temp[v] # i
        BY <4>1, <2>1, <2>3
      <4>3. QED
        BY <4>1, <4>2, <2>1
    <3>3. QED
      BY <3>1, <3>2
  <2>6. QED
    BY <2>4, <2>5
<1>4. ASSUME NEW w \in Writers, Fill(w) PROVE (OneName /\ Complete)'
  <2>1. /\ pc[w] = "fill" /\ pc' = [pc EXCEPT ![w] = "move"]
        /\ inode' = [inode EXCEPT ![fd[w]] = text[w]] /\ fd' = [fd EXCEPT ![w] = Nobody]
        /\ path' = path /\ temp' = temp
    BY <1>4 DEF Fill
  <2>2. fd[w] \in Inodes /\ fd[w] = temp[w] /\ fd[w] # path
    BY <2>1
  <2>3. OneName'
    BY <2>1
  <2>4. inode'[path'] # Half
    BY <2>1, <2>2
  <2>5. ASSUME NEW v \in Writers, pc'[v] = "move"
        PROVE  temp'[v] \in Inodes /\ inode'[temp'[v]] \in Texts
    <3>1. CASE v = w
      BY <3>1, <2>1, <2>2
    <3>2. CASE v # w
      <4>1. pc[v] = "move" /\ temp[v] # temp[w]
        BY <3>2, <2>5, <2>1, <2>2
      <4>2. QED
        BY <4>1, <2>1, <2>2
    <3>3. QED
      BY <3>1, <3>2
  <2>6. QED
    BY <2>3, <2>4, <2>5
<1>5. ASSUME NEW w \in Writers, Move(w) PROVE (OneName /\ Complete)'
  <2>1. /\ pc[w] = "move" /\ pc' = [pc EXCEPT ![w] = "done"]
        /\ path' = temp[w] /\ temp' = [temp EXCEPT ![w] = Nobody]
        /\ UNCHANGED <<inode, fd>>
    BY <1>5 DEF Move, Done, TempOf
  <2>2. temp[w] \in Inodes /\ inode[temp[w]] \in Texts /\ fd[w] = Nobody
    BY <2>1
  <2>3. OneName'
    BY <2>1, <2>2
  <2>4. Complete'
    BY <2>1, <2>2 DEF Half
  <2>5. QED
    BY <2>3, <2>4
<1>6. ASSUME NEW w \in Writers, Refused(w) PROVE (OneName /\ Complete)'
  BY <1>6 DEF Refused
<1>7. ASSUME NEW w \in Writers, GiveUp(w) PROVE (OneName /\ Complete)'
  BY <1>7 DEF GiveUp, Done
<1>8. ASSUME NEW w \in Writers, Kill(w) PROVE (OneName /\ Complete)'
  BY <1>8 DEF Kill, Done
<1>9. ASSUME NEW w \in Writers, Again(w) PROVE (OneName /\ Complete)'
  BY <1>9 DEF Again
<1>10. QED
  BY <1>1, <1>2, <1>3, <1>4, <1>5, <1>6, <1>7, <1>8, <1>9 DEF Next, Step

(* Who writes does not change.                                             *)
LEMMA PrivateConstant == [Next]_vars => private' = private
BY DEF Next, Step, vars, Hold, Enter, Open, Fill, Move, Refused, GiveUp, Kill, Again

LEMMA InvInit == Init => Inv
<1> SUFFICES ASSUME Init PROVE Inv
  OBVIOUS
<1> USE AtomicAssumption DEF Init, Inodes, Names
<1>1. TypeOK
  <2>1. inode \in [Inodes -> Content] /\ path \in Inodes
    BY DEF Content
  <2>2. /\ temp \in [Names -> Inodes \union {Nobody}]
        /\ fd \in [Writers -> Inodes \union {Nobody}]
    OBVIOUS
  <2>3. pc \in [Writers -> {"idle", "open", "fill", "move", "done", "raised"}]
    OBVIOUS
  <2>4. tries \in [Writers -> 0..(Retries - 1)] /\ kills \in 0..MaxKills
    OBVIOUS
  <2>5. QED
    BY <2>1, <2>2, <2>3, <2>4 DEF TypeOK
<1>2. OpenWhileFilling /\ HalfIsBeingFilled
  BY DEF OpenWhileFilling, HalfIsBeingFilled, Half, Old
<1>3. OneName
  BY DEF OneName
<1>4. Complete
  BY DEF Complete, Half, Old
<1>5. QED
  BY <1>1, <1>2, <1>3, <1>4 DEF Inv

LEMMA InvStep == Inv /\ [Next]_vars => Inv'
BY TypeStep, FillStep, PrivateStep, PrivateConstant DEF Inv

LEMMA Invariance == Spec => []Inv
BY InvInit, InvStep, PTL DEF Spec

-----------------------------------------------------------------------------
(* Every variable of the model of a replaced file keeps its type, for any  *)
(* writers and texts.                                                      *)
THEOREM FileTypes == Spec => []TypeOK
<1>1. Inv => TypeOK
  BY DEF Inv
<1>2. QED
  BY <1>1, Invariance, PTL

(* However the desk's threads interleave and die, the file is torn only if *)
(* it is the vault (desk_visitor_v1), and only while a writer whose        *)
(* temporary file another one moved is still filling it, or after a kill.  *)
THEOREM TornOnlyWhileFilled == Spec => []TornIsBeingFilled
<1>1. Inv => TornIsBeingFilled
  BY DEF Inv, TypeOK, HalfIsBeingFilled, Complete, TornIsBeingFilled
<1>2. QED
  BY <1>1, Invariance, PTL

(* A file written by atomic_json_v1 is a register of complete documents:   *)
(* whatever is retried, given up or killed, a step of the writers leaves   *)
(* what a reader sees or puts a complete document there.                   *)
LEMMA RegisterStep ==
    Inv /\ [Next]_vars => [Register!Write]_(IF private THEN inode[path] ELSE Old)
<1> SUFFICES ASSUME Inv, [Next]_vars
             PROVE  [Register!Write]_(IF private THEN inode[path] ELSE Old)
  OBVIOUS
<1>1. private' = private
  BY PrivateConstant
<1>2. CASE ~private
  BY <1>1, <1>2
<1>3. CASE private
  <2> USE <1>3, AtomicAssumption DEF Inv, TypeOK, Inodes, Names
  <2>1. inode'[path'] = inode[path] \/ inode'[path'] \in Texts
    <3>1. CASE Hold \/ UNCHANGED vars
      BY <3>1 DEF Hold, vars
    <3>2. ASSUME NEW w \in Writers, Enter(w) \/ Refused(w) \/ GiveUp(w) \/ Kill(w) \/ Again(w)
          PROVE  inode'[path'] = inode[path]
      BY <3>2 DEF Enter, Refused, GiveUp, Kill, Again
    <3>3. ASSUME NEW w \in Writers, Open(w)
          PROVE  inode'[path'] = inode[path]
      <4>1. PICK i \in Inodes : /\ IF temp[w] = Nobody THEN ~Reachable(i) ELSE i = temp[w]
                                /\ inode' = [inode EXCEPT ![i] = Half]
        BY <3>3 DEF Open, TempOf
      <4>2. i # path
        BY <4>1 DEF Reachable, OneName
      <4>3. path' = path
        BY <3>3 DEF Open
      <4>4. QED
        BY <4>1, <4>2, <4>3
    <3>4. ASSUME NEW w \in Writers, Fill(w)
          PROVE  inode'[path'] = inode[path]
      <4>1. pc[w] = "fill" /\ inode' = [inode EXCEPT ![fd[w]] = text[w]] /\ path' = path
        BY <3>4 DEF Fill
      <4>2. fd[w] # path
        BY <4>1 DEF OpenWhileFilling, OneName
      <4>3. QED
        BY <4>1, <4>2
    <3>5. ASSUME NEW w \in Writers, Move(w)
          PROVE  inode'[path'] \in Texts
      BY <3>5 DEF Move, TempOf, Complete
    <3>6. QED
      BY <3>1, <3>2, <3>3, <3>4, <3>5 DEF Next, Step
  <2>2. QED
    BY <1>1, <2>1 DEF Register!Write
<1>4. QED
  BY <1>2, <1>3 DEF Inv, TypeOK

(* atomic_json_v1 implements the register of complete documents: "desk     *)
(* concurrency without corrupt files".                                     *)
THEOREM AtomicImplementsRegister == Spec => ImplementsRegister
<1>1. Init => Register!Init
  <2> SUFFICES ASSUME Init PROVE Register!Init
    OBVIOUS
  <2>1. inode[path] = Old
    BY DEF Init, Inodes
  <2>2. QED
    BY <2>1 DEF Register!Init, Old
<1>2. QED
  BY <1>1, RegisterStep, Invariance, PTL DEF Spec, ImplementsRegister, Register!Spec

(* What a write still has to do, retries included, never grows while it is *)
(* under way, whoever holds the destination: the twelve attempts of        *)
(* _atomic_replace are counted down, and a step of a writer that waits for *)
(* a foreign reader is one of them.  With the fairness of FairSpec this is *)
(* why every write ends (WritesEnd).                                       *)
WorkLeft(w) ==
    CASE pc[w] = "open" -> Retries + 2
      [] pc[w] = "fill" -> Retries + 1
      [] pc[w] = "move" -> Retries - tries[w]
      [] OTHER -> 0
Counted(w) ==
    pc[w] \in {"open", "fill", "move"} =>
        \/ pc'[w] = pc[w] /\ tries'[w] = tries[w]
        \/ WorkLeft(w)' < WorkLeft(w)
WritesShrink == [][\A w \in Writers : Counted(w)]_vars

LEMMA CountedStep == TypeOK /\ [Next]_vars => [\A w \in Writers : Counted(w)]_vars
<1> SUFFICES ASSUME TypeOK, Next, NEW w \in Writers, pc[w] \in {"open", "fill", "move"},
                    ~(pc'[w] = pc[w] /\ tries'[w] = tries[w])
             PROVE  WorkLeft(w)' < WorkLeft(w)
  BY DEF Counted
<1>1. Retries \in Nat \ {0} /\ tries[w] \in 0..(Retries - 1)
  BY AtomicAssumption DEF TypeOK
<1>2. CASE Hold
  BY <1>2 DEF Hold
<1>3. ASSUME NEW u \in Writers, u # w, Step(u) \/ Kill(u) \/ Again(u) PROVE FALSE
  BY <1>3 DEF Step, Enter, Open, Fill, Move, Refused, GiveUp, Kill, Again, Done, TypeOK
<1>4. CASE Enter(w) \/ Again(w)
  BY <1>4 DEF Enter, Again
<1>5. CASE Open(w)
  <2>1. pc[w] = "open" /\ pc'[w] = "fill"
    BY <1>5 DEF Open, TypeOK
  <2>2. QED
    BY <1>1, <2>1 DEF WorkLeft
<1>6. CASE Fill(w)
  <2>1. pc[w] = "fill" /\ pc'[w] = "move" /\ tries'[w] = tries[w]
    BY <1>6 DEF Fill, TypeOK
  <2>2. QED
    BY <1>1, <2>1 DEF WorkLeft
<1>7. CASE Refused(w)
  <2>1. pc[w] = "move" /\ pc'[w] = "move" /\ tries'[w] = tries[w] + 1
    BY <1>7 DEF Refused, TypeOK
  <2>2. QED
    BY <1>1, <2>1 DEF WorkLeft
<1>8. CASE Move(w) \/ GiveUp(w) \/ Kill(w)
  <2>1. pc'[w] \in {"done", "raised"}
    BY <1>8 DEF Move, GiveUp, Kill, Done, TypeOK
  <2>2. WorkLeft(w)' = 0
    BY <2>1 DEF WorkLeft
  <2>3. WorkLeft(w) \in Nat \ {0}
    BY <1>1 DEF WorkLeft
  <2>4. QED
    BY <2>2, <2>3
<1>9. QED
  BY <1>2, <1>3, <1>4, <1>5, <1>6, <1>7, <1>8 DEF Next, Step

THEOREM NoWriteGrows == Spec => WritesShrink
<1>1. Inv => TypeOK
  BY DEF Inv
<1>2. QED
  BY <1>1, CountedStep, Invariance, PTL DEF Spec, WritesShrink
-----------------------------------------------------------------------------
(***************************************************************************)
(* DeskBoot: the boot keeps its promises.  The inductive invariant says,   *)
(* for every place in the script of every kind of request, what the        *)
(* request has already written, and that no session and no vault names a   *)
(* scene but those somebody is owed: the scene of the last run that        *)
(* returned, those of requests killed since, and that of the one at work.  *)
(***************************************************************************)

(* What may be left of the script of a request, by its kind.               *)
FirstTodo == {<<"shown", "copy", "clear", "openVault", "mark">>,
              <<"copy", "clear", "openVault", "mark">>,
              <<"clear", "openVault", "mark">>, <<"openVault", "mark">>, <<"mark">>, <<>>}
ReturnTodo == {<<"load", "mirror", "shown2", "copy2", "revive", "openVault", "mark">>,
               <<"mirror", "shown2", "copy2", "revive", "openVault", "mark">>,
               <<"shown2", "copy2", "revive", "openVault", "mark">>,
               <<"copy2", "revive", "openVault", "mark">>,
               <<"revive", "openVault", "mark">>, <<"openVault", "mark">>, <<"mark">>, <<>>}
ResetTodo == {<<"shown", "copy", "openVault", "remember">>, <<"copy", "openVault", "remember">>,
              <<"openVault", "remember">>, <<"remember">>, <<>>}
RunTodo == {<<"load", "mirror", "shown", "copy", "openVault", "remember">>,
            <<"mirror", "shown", "copy", "openVault", "remember">>} \union ResetTodo
PresetTodo == {<<"shown", "copy">>, <<"copy">>, <<>>}

Selected == BootRobots \union {BootOneShot, Nil}
VaultScenes == BootScenes \union {Boot!Clean, Boot!Demo, Nil}
Vaults == [count : 0..BootMaxBoots, scene : VaultScenes, proj : Selected]
Calls == [kind : {"idle", "first", "return", "run", "reset", "preset"},
          todo : FirstTodo \union ReturnTodo \union RunTodo \union PresetTodo,
          scene : Boot!Painted \union {Nil}, proj : Selected, read : Vaults \union {Nil}]

BootTypes ==
    /\ Boot!TypeOK /\ bootVault \in Vaults /\ bootJob \in Calls

(* How far a request has come, from what is left of its script.            *)
Before(n) == Len(bootJob.todo) > n

FirstOk ==
    /\ bootJob.todo \in FirstTodo /\ bootJob.scene = Boot!Clean /\ bootJob.proj = Nil
    /\ Before(0) => bootVault.count < BootMaxBoots
    /\ Before(4) \/ bootShown = Boot!Clean
    /\ Before(3) \/ bootCopy = Boot!Clean
    /\ Before(2) \/ bootChosen = Nil
    /\ Len(bootJob.todo) = 1 => bootJob.read = bootVault
    /\ Before(0) \/ bootVault.scene = Boot!Clean

Restored == IF bootVault.scene \in BootScenes \union {Boot!Demo} THEN bootVault.scene ELSE Nil

ReturnOk ==
    /\ bootJob.todo \in ReturnTodo
    /\ Before(0) => bootVault.count < BootMaxBoots
    /\ IF Before(6) THEN bootJob.scene = Nil
       ELSE /\ bootShown # Boot!Absent
            /\ Before(0) => bootJob.scene = Restored
            /\ bootJob.scene \in BootScenes \union {Boot!Demo, Nil}
            /\ bootLastRun \in BootScenes => IF bootJob.scene = Nil THEN Boot!Clean \in bootLoose
                                     ELSE bootJob.scene \in {bootLastRun} \union bootLoose
    /\ Before(4) \/ bootJob.scene \in {Nil, bootShown}
    /\ Before(2) \/ (bootVault.proj \in bootAlive => bootChosen \in bootAlive)
    /\ IF Before(2) THEN bootJob.proj = Nil ELSE bootJob.proj \in bootAlive => bootChosen \in bootAlive
    /\ Len(bootJob.todo) = 1 => bootJob.read = bootVault

RunOk ==
    /\ bootJob.todo \in RunTodo /\ bootJob.scene \in BootScenes
    /\ Before(3) \/ bootShown = bootJob.scene
    /\ Len(bootJob.todo) = 1 => bootJob.read = bootVault
    /\ Before(0) \/ bootVault.scene = bootJob.scene

ResetOk ==
    /\ bootJob.todo \in ResetTodo /\ bootJob.scene = Boot!Clean
    /\ Before(3) \/ bootShown = Boot!Clean
    /\ Len(bootJob.todo) = 1 => bootJob.read = bootVault
    /\ Before(0) \/ bootVault.scene = Boot!Clean

PresetOk == bootJob.todo \in PresetTodo /\ bootJob.scene = Boot!Plain

Scripted ==
    \/ bootJob = Boot!Rest
    \/ bootJob.kind = "first" /\ FirstOk
    \/ bootJob.kind = "return" /\ ReturnOk
    \/ bootJob.kind = "run" /\ RunOk
    \/ bootJob.kind = "reset" /\ ResetOk
    \/ bootJob.kind = "preset" /\ PresetOk

(* The scenes a visitor may be shown: what the last run, first boot or     *)
(* reset left, and what one killed since, or at work now, has begun to.    *)
Owed == {bootLastRun} \union bootLoose
        \union (IF bootJob.kind \in {"first", "run", "reset"} THEN {bootJob.scene} ELSE {})

NoneElse ==
    /\ bootShown \in BootScenes => bootShown \in Owed
    /\ bootVault.scene \in BootScenes => bootVault.scene \in Owed
    /\ bootLastRun \in BootScenes => bootVault.scene \in Owed /\ bootShown \in Owed \union {Boot!Plain}

BootInv == BootTypes /\ Scripted /\ NoneElse
-----------------------------------------------------------------------------
(* What is left of each script after its first step.                       *)
LEMMA Tails ==
  /\ Tail(<<"shown", "copy", "clear", "openVault", "mark">>) = <<"copy", "clear", "openVault", "mark">>
  /\ Tail(<<"copy", "clear", "openVault", "mark">>) = <<"clear", "openVault", "mark">>
  /\ Tail(<<"clear", "openVault", "mark">>) = <<"openVault", "mark">>
  /\ Tail(<<"openVault", "mark">>) = <<"mark">>
  /\ Tail(<<"mark">>) = <<>>
  /\ Tail(<<"load", "mirror", "shown2", "copy2", "revive", "openVault", "mark">>)
       = <<"mirror", "shown2", "copy2", "revive", "openVault", "mark">>
  /\ Tail(<<"mirror", "shown2", "copy2", "revive", "openVault", "mark">>)
       = <<"shown2", "copy2", "revive", "openVault", "mark">>
  /\ Tail(<<"shown2", "copy2", "revive", "openVault", "mark">>)
       = <<"copy2", "revive", "openVault", "mark">>
  /\ Tail(<<"copy2", "revive", "openVault", "mark">>) = <<"revive", "openVault", "mark">>
  /\ Tail(<<"revive", "openVault", "mark">>) = <<"openVault", "mark">>
  /\ Tail(<<"load", "mirror", "shown", "copy", "openVault", "remember">>)
       = <<"mirror", "shown", "copy", "openVault", "remember">>
  /\ Tail(<<"mirror", "shown", "copy", "openVault", "remember">>)
       = <<"shown", "copy", "openVault", "remember">>
  /\ Tail(<<"shown", "copy", "openVault", "remember">>) = <<"copy", "openVault", "remember">>
  /\ Tail(<<"copy", "openVault", "remember">>) = <<"openVault", "remember">>
  /\ Tail(<<"openVault", "remember">>) = <<"remember">>
  /\ Tail(<<"remember">>) = <<>>
  /\ Tail(<<"shown", "copy">>) = <<"copy">>
  /\ Tail(<<"copy">>) = <<>>
OBVIOUS

AtPlace(k, t) == bootJob.kind = k /\ bootJob.todo = t

(* Where each request is when it does a step.                              *)
LEMMA Places ==
  ASSUME Scripted
  PROVE  /\ Boot!At("load") => \/ AtPlace("return", <<"load", "mirror", "shown2", "copy2", "revive", "openVault", "mark">>)
                          \/ AtPlace("run", <<"load", "mirror", "shown", "copy", "openVault", "remember">>)
         /\ Boot!At("mirror") => \/ AtPlace("return", <<"mirror", "shown2", "copy2", "revive", "openVault", "mark">>)
                            \/ AtPlace("run", <<"mirror", "shown", "copy", "openVault", "remember">>)
         /\ Boot!At("shown") => \/ AtPlace("first", <<"shown", "copy", "clear", "openVault", "mark">>)
                           \/ AtPlace("run", <<"shown", "copy", "openVault", "remember">>)
                           \/ AtPlace("reset", <<"shown", "copy", "openVault", "remember">>)
                           \/ AtPlace("preset", <<"shown", "copy">>)
         /\ Boot!At("copy") => \/ AtPlace("first", <<"copy", "clear", "openVault", "mark">>)
                          \/ AtPlace("run", <<"copy", "openVault", "remember">>)
                          \/ AtPlace("reset", <<"copy", "openVault", "remember">>)
                          \/ AtPlace("preset", <<"copy">>)
         /\ Boot!At("shown2") => AtPlace("return", <<"shown2", "copy2", "revive", "openVault", "mark">>)
         /\ Boot!At("copy2") => AtPlace("return", <<"copy2", "revive", "openVault", "mark">>)
         /\ Boot!At("revive") => AtPlace("return", <<"revive", "openVault", "mark">>)
         /\ Boot!At("clear") => AtPlace("first", <<"clear", "openVault", "mark">>)
         /\ Boot!At("openVault") => \/ AtPlace("first", <<"openVault", "mark">>)
                               \/ AtPlace("return", <<"openVault", "mark">>)
                               \/ AtPlace("run", <<"openVault", "remember">>)
                               \/ AtPlace("reset", <<"openVault", "remember">>)
         /\ Boot!At("mark") => AtPlace("first", <<"mark">>) \/ AtPlace("return", <<"mark">>)
         /\ Boot!At("remember") => AtPlace("run", <<"remember">>) \/ AtPlace("reset", <<"remember">>)
<1> USE DEF Scripted, Boot!At, AtPlace, Boot!Rest
<1>1. CASE bootJob = Boot!Rest
  BY <1>1
<1>2. CASE bootJob.kind = "first" /\ FirstOk
  BY <1>2 DEF FirstOk, FirstTodo
<1>3. CASE bootJob.kind = "return" /\ ReturnOk
  BY <1>3 DEF ReturnOk, ReturnTodo
<1>4. CASE bootJob.kind = "run" /\ RunOk
  BY <1>4 DEF RunOk, RunTodo, ResetTodo
<1>5. CASE bootJob.kind = "reset" /\ ResetOk
  BY <1>5 DEF ResetOk, ResetTodo
<1>6. CASE bootJob.kind = "preset" /\ PresetOk
  BY <1>6 DEF PresetOk, PresetTodo
<1>7. QED
  BY <1>1, <1>2, <1>3, <1>4, <1>5, <1>6

LEMMA PastFields ==
  ASSUME bootJob \in Calls
  PROVE  /\ Boot!Past.kind = bootJob.kind /\ Boot!Past.scene = bootJob.scene /\ Boot!Past.proj = bootJob.proj
         /\ Boot!Past.read = bootJob.read /\ Boot!Past.todo = Tail(bootJob.todo)
         /\ DOMAIN Boot!Past = {"kind", "todo", "scene", "proj", "read"}
         /\ Boot!Past.todo \in FirstTodo \union ReturnTodo \union RunTodo \union PresetTodo => Boot!Past \in Calls
BY DEF Boot!Past, Calls

LEMMA Kinds ==
  ASSUME Scripted
  PROVE  /\ bootJob.kind = "first" => FirstOk
         /\ bootJob.kind = "return" => ReturnOk
         /\ bootJob.kind = "run" => RunOk
         /\ bootJob.kind = "reset" => ResetOk
         /\ bootJob.kind = "preset" => PresetOk
         /\ bootJob # Boot!Rest => bootJob.kind \in {"first", "return", "run", "reset", "preset"}
BY DEF Scripted, Boot!Rest

LEMMA Apart ==
  ASSUME Boot!DeskBootAssumption
  PROVE  /\ Boot!Clean \notin BootScenes /\ Boot!Demo \notin BootScenes /\ Boot!Plain \notin BootScenes /\ Boot!Absent \notin BootScenes
         /\ Nil \notin Boot!Painted /\ Nil # Boot!Absent /\ Nil \notin BootRobots /\ BootOneShot \notin BootRobots
         /\ Boot!Clean # Boot!Demo /\ Boot!Clean # Boot!Plain /\ Boot!Clean # Boot!Absent /\ Boot!Demo # Boot!Plain /\ Boot!Demo # Boot!Absent
         /\ Boot!Plain # Boot!Absent /\ BootScenes \subseteq Boot!Painted /\ Boot!Clean \in Boot!Painted /\ Boot!Demo \in Boot!Painted
         /\ Boot!Plain \in Boot!Painted /\ Boot!Absent \notin Boot!Painted
         /\ BootMaxBoots \in Nat /\ BootMaxBoots >= 1 /\ BootMaxScenes \in Nat
BY DEF Boot!DeskBootAssumption, Boot!Painted, Boot!Clean, Boot!Demo, Boot!Plain, Boot!Absent

(* A step of a request leaves what is left of its script a script.         *)
LEMMA PastTypes ==
  ASSUME BootTypes, Scripted, bootJob # Boot!Rest, bootJob.todo # <<>>
  PROVE  Boot!Past \in Calls
<1>1. Boot!Past.todo \in FirstTodo \union ReturnTodo \union RunTodo \union PresetTodo
  <2>1. Boot!Past.todo = Tail(bootJob.todo)
    BY PastFields DEF BootTypes
  <2>2. CASE bootJob.kind = "first"
    BY <2>1, <2>2, Kinds, Tails DEF FirstOk, FirstTodo
  <2>3. CASE bootJob.kind = "return"
    BY <2>1, <2>3, Kinds, Tails DEF ReturnOk, ReturnTodo
  <2>4. CASE bootJob.kind = "run"
    BY <2>1, <2>4, Kinds, Tails DEF RunOk, RunTodo, ResetTodo
  <2>5. CASE bootJob.kind = "reset"
    BY <2>1, <2>5, Kinds, Tails DEF ResetOk, RunTodo, ResetTodo
  <2>6. CASE bootJob.kind = "preset"
    BY <2>1, <2>6, Kinds, Tails DEF PresetOk, PresetTodo
  <2>7. QED
    BY <2>2, <2>3, <2>4, <2>5, <2>6, Kinds
<1>2. QED
  BY <1>1, PastFields DEF BootTypes

LEMMA OwedPainted ==
  ASSUME Boot!DeskBootAssumption, BootTypes, Scripted
  PROVE  /\ Owed \subseteq Boot!Painted \union {Nil} /\ Nil \notin bootLoose
         /\ bootLastRun \in BootScenes => Owed \subseteq Boot!Painted
<1>1. bootJob.kind \in {"first", "run", "reset"} => bootJob.scene \in Boot!Painted
  BY Kinds, Apart DEF FirstOk, RunOk, ResetOk
<1>2. QED
  BY <1>1, Apart DEF Owed, BootTypes, Boot!TypeOK

(* What a session says and what the vault says stay owed.                  *)
LEMMA NoneElseStep ==
  ASSUME NoneElse, bootLastRun' = bootLastRun, Owed \subseteq Owed', Boot!DeskBootAssumption,
         BootTypes, Scripted,
         bootShown' \in {bootShown, Boot!Plain, bootVault.scene} \union Owed' \/ (bootShown = Boot!Absent /\ bootShown' = Boot!Demo),
         bootVault.scene' \in {bootVault.scene, bootShown} \union Owed',
         bootVault.scene' = bootVault.scene \/ bootShown # Boot!Plain
  PROVE  NoneElse'
<1>1. bootShown' \in BootScenes => bootShown' \in Owed'
  BY Apart DEF NoneElse
<1>2. bootVault.scene' \in BootScenes => bootVault.scene' \in Owed'
  BY DEF NoneElse
<1>3. bootLastRun \in BootScenes => bootShown # Boot!Absent /\ bootShown' \in Owed' \union {Boot!Plain}
  BY Apart, OwedPainted DEF NoneElse
<1>4. bootLastRun \in BootScenes => bootVault.scene' \in Owed'
  BY DEF NoneElse
<1>5. QED
  BY <1>1, <1>2, <1>3, <1>4 DEF NoneElse

(* A session that is there, or the demo in place of a missing one.         *)
LEMMA LoadInv == ASSUME Boot!DeskBootAssumption, BootInv, Boot!Load PROVE BootInv'
<1> USE DEF BootInv
<1>1. AtPlace("return", <<"load", "mirror", "shown2", "copy2", "revive", "openVault", "mark">>)
      \/ AtPlace("run", <<"load", "mirror", "shown", "copy", "openVault", "remember">>)
  BY Places DEF Boot!Load
<1>3. UNCHANGED <<bootCopy, bootVault, bootChosen, bootAlive, bootRuns, bootLastRun, bootLoose>>
  BY DEF Boot!Load
<1>5. bootShown' # Boot!Absent /\ bootShown' \in Boot!Painted \union {Boot!Absent}
      /\ (bootShown' = bootShown \/ (bootShown = Boot!Absent /\ bootShown' = Boot!Demo))
  BY Apart DEF BootTypes, Boot!TypeOK, Boot!Load
<1>6. CASE AtPlace("return", <<"load", "mirror", "shown2", "copy2", "revive", "openVault", "mark">>)
  <2>1. bootJob.kind = "return" /\ ReturnOk /\ bootVault.count < BootMaxBoots /\ bootJob.proj = Nil
    BY <1>6, Kinds DEF AtPlace, ReturnOk, Before
  <2>2. bootJob' = [bootJob EXCEPT !.todo = IF bootShown = Boot!Absent THEN Tail(@) ELSE Tail(Tail(@)),
                                   !.scene = Restored]
    BY <2>1 DEF Restored, Boot!Load
  <2>3. Restored \in BootScenes \union {Boot!Demo, Nil} /\ Restored' = Restored
    BY <1>3 DEF Restored
  <2>4. \/ bootJob'.todo = <<"mirror", "shown2", "copy2", "revive", "openVault", "mark">>
        \/ bootJob'.todo = <<"shown2", "copy2", "revive", "openVault", "mark">>
    BY <1>6, <2>2, Tails DEF AtPlace, BootTypes, Calls
  <2>5. /\ bootJob'.todo \in ReturnTodo /\ Len(bootJob'.todo) # 1
        /\ ~Before(6)' /\ Before(4)' /\ Before(2)' /\ Before(0)'
    <3>1. CASE bootJob'.todo = <<"mirror", "shown2", "copy2", "revive", "openVault", "mark">>
      BY <3>1 DEF ReturnTodo, Before
    <3>2. CASE bootJob'.todo = <<"shown2", "copy2", "revive", "openVault", "mark">>
      BY <3>2 DEF ReturnTodo, Before
    <3>3. QED
      BY <3>1, <3>2, <2>4
  <2>6. bootJob' \in Calls /\ bootJob'.kind = "return" /\ bootJob'.scene = Restored /\ bootJob'.proj = Nil
    BY <2>1, <2>2, <2>3, <2>5, Apart DEF BootTypes, Calls
  <2>7. BootTypes'
    BY <1>3, <1>5, <2>6 DEF BootTypes, Boot!TypeOK, Vaults, Boot!Painted, Selected
  <2>8. NoneElse'
    <3>1. Owed' = Owed
      BY <1>3, <2>1, <2>6 DEF Owed
    <3>2. QED
      BY <1>3, <1>5, <3>1, NoneElseStep
  <2>9. bootLastRun \in BootScenes => IF Restored = Nil THEN Boot!Clean \in bootLoose
                                     ELSE Restored \in {bootLastRun} \union bootLoose
    <3>1. bootLastRun \in BootScenes => bootVault.scene \in {bootLastRun} \union bootLoose
      BY <2>1 DEF NoneElse, Owed
    <3>2. bootVault.scene \in VaultScenes /\ Nil \notin BootScenes /\ Nil \notin bootLoose /\ Nil # Boot!Demo
      BY Apart DEF BootTypes, Vaults, Boot!TypeOK
    <3>3. QED
      BY <3>1, <3>2, Apart DEF Restored, VaultScenes
  <2>10. ReturnOk'
    BY <1>3, <1>5, <2>1, <2>3, <2>5, <2>6, <2>9 DEF ReturnOk
  <2>11. QED
    BY <2>6, <2>7, <2>8, <2>10 DEF Scripted
<1>7. CASE AtPlace("run", <<"load", "mirror", "shown", "copy", "openVault", "remember">>)
  <2>1. bootJob.kind = "run" /\ RunOk
    BY <1>7, Kinds DEF AtPlace
  <2>2. bootJob' = [bootJob EXCEPT !.todo = IF bootShown = Boot!Absent THEN Tail(@) ELSE Tail(Tail(@))]
    BY <2>1 DEF Boot!Load, BootTypes, Calls
  <2>3. \/ bootJob'.todo = <<"mirror", "shown", "copy", "openVault", "remember">>
        \/ bootJob'.todo = <<"shown", "copy", "openVault", "remember">>
    BY <1>7, <2>2, Tails DEF AtPlace, BootTypes, Calls
  <2>4. bootJob'.todo \in RunTodo /\ Len(bootJob'.todo) # 1 /\ Before(3)' /\ Before(0)'
    <3>1. CASE bootJob'.todo = <<"mirror", "shown", "copy", "openVault", "remember">>
      BY <3>1 DEF RunTodo, ResetTodo, Before
    <3>2. CASE bootJob'.todo = <<"shown", "copy", "openVault", "remember">>
      BY <3>2 DEF RunTodo, ResetTodo, Before
    <3>3. QED
      BY <3>1, <3>2, <2>3
  <2>5. bootJob' \in Calls /\ bootJob'.kind = "run" /\ bootJob'.scene = bootJob.scene
    BY <2>1, <2>2, <2>4 DEF BootTypes, Calls
  <2>6. BootTypes'
    BY <1>3, <1>5, <2>5 DEF BootTypes, Boot!TypeOK, Vaults, Boot!Painted, Selected
  <2>7. NoneElse'
    <3>1. Owed' = Owed
      BY <1>3, <2>1, <2>5 DEF Owed
    <3>2. QED
      BY <1>3, <1>5, <3>1, NoneElseStep
  <2>8. RunOk'
    BY <1>3, <2>1, <2>4, <2>5 DEF RunOk
  <2>9. QED
    BY <2>5, <2>6, <2>7, <2>8 DEF Scripted
<1>8. QED
  BY <1>1, <1>6, <1>7

(* A step that goes on to the next of the script keeps what it carries.    *)
LEMMA Moves ==
  ASSUME BootTypes, Scripted, bootJob' = Boot!Past, bootJob # Boot!Rest, bootJob.todo # <<>>
  PROVE  /\ bootJob'.kind = bootJob.kind /\ bootJob'.todo = Tail(bootJob.todo) /\ bootJob'.scene = bootJob.scene
         /\ bootJob'.proj = bootJob.proj /\ bootJob'.read = bootJob.read /\ bootJob' \in Calls
BY PastTypes, PastFields DEF BootTypes

(* The demo is written into the runtime's copy too.                        *)
LEMMA MirrorInv == ASSUME Boot!DeskBootAssumption, BootInv, Boot!Mirror PROVE BootInv'
<1> USE DEF BootInv
<1>1. /\ UNCHANGED <<bootShown, bootVault, bootChosen, bootAlive, bootRuns, bootLastRun, bootLoose>>
      /\ bootCopy' = Boot!Demo /\ bootJob' = Boot!Past /\ Boot!At("mirror")
      /\ bootJob # Boot!Rest /\ bootJob.todo # <<>>
  BY DEF Boot!Mirror, Boot!At, Boot!Rest
<1>2. /\ bootJob'.kind = bootJob.kind /\ bootJob'.todo = Tail(bootJob.todo) /\ bootJob'.scene = bootJob.scene
      /\ bootJob'.proj = bootJob.proj /\ bootJob'.read = bootJob.read /\ bootJob' \in Calls
  BY <1>1, Moves
<1>3. Owed' = Owed /\ Restored' = Restored
  BY <1>1, <1>2 DEF Owed, Restored
<1>4. BootTypes'
  BY <1>1, <1>2, Apart DEF BootTypes, Boot!TypeOK
<1>5. NoneElse'
  BY <1>1, <1>3, NoneElseStep
<1>6. CASE AtPlace("return", <<"mirror", "shown2", "copy2", "revive", "openVault", "mark">>)
  <2>1. ReturnOk /\ ~Before(6) /\ Before(4) /\ Before(2) /\ Before(0)
    BY <1>6, Kinds DEF AtPlace, Before
  <2>2. /\ bootJob'.todo \in ReturnTodo /\ Len(bootJob'.todo) # 1
        /\ ~Before(6)' /\ Before(4)' /\ Before(2)' /\ Before(0)'
    BY <1>2, <1>6, Tails DEF AtPlace, ReturnTodo, Before
  <2>3. ReturnOk'
    BY <1>1, <1>2, <1>3, <2>1, <2>2 DEF ReturnOk
  <2>4. QED
    BY <1>2, <1>4, <1>5, <1>6, <2>3 DEF Scripted, AtPlace
<1>7. CASE AtPlace("run", <<"mirror", "shown", "copy", "openVault", "remember">>)
  <2>1. RunOk
    BY <1>7, Kinds DEF AtPlace
  <2>2. bootJob'.todo \in RunTodo /\ Len(bootJob'.todo) # 1 /\ Before(3)' /\ Before(0)'
    BY <1>2, <1>7, Tails DEF AtPlace, RunTodo, ResetTodo, Before
  <2>3. RunOk'
    BY <1>1, <1>2, <2>1, <2>2 DEF RunOk
  <2>4. QED
    BY <1>2, <1>4, <1>5, <1>7, <2>3 DEF Scripted, AtPlace
<1>8. QED
  BY <1>1, <1>6, <1>7, Places

(* What is left of each script, and how long it is.                        *)
LEMMA Lengths ==
  /\ <<"copy", "clear", "openVault", "mark">> \in FirstTodo
  /\ Len(<<"copy", "clear", "openVault", "mark">>) = 4
  /\ <<"clear", "openVault", "mark">> \in FirstTodo /\ Len(<<"clear", "openVault", "mark">>) = 3
  /\ <<"openVault", "mark">> \in FirstTodo /\ Len(<<"openVault", "mark">>) = 2
  /\ <<"mark">> \in FirstTodo /\ Len(<<"mark">>) = 1
  /\ <<>> \in FirstTodo /\ <<>> \in ReturnTodo /\ <<>> \in RunTodo /\ <<>> \in ResetTodo
  /\ <<>> \in PresetTodo /\ Len(<<>>) = 0
  /\ Len(<<"shown2", "copy2", "revive", "openVault", "mark">>) = 5
  /\ <<"copy2", "revive", "openVault", "mark">> \in ReturnTodo
  /\ Len(<<"copy2", "revive", "openVault", "mark">>) = 4
  /\ <<"revive", "openVault", "mark">> \in ReturnTodo /\ Len(<<"revive", "openVault", "mark">>) = 3
  /\ <<"openVault", "mark">> \in ReturnTodo /\ <<"mark">> \in ReturnTodo
  /\ <<"copy", "openVault", "remember">> \in RunTodo \intersect ResetTodo
  /\ Len(<<"copy", "openVault", "remember">>) = 3
  /\ <<"openVault", "remember">> \in RunTodo \intersect ResetTodo
  /\ Len(<<"openVault", "remember">>) = 2
  /\ <<"remember">> \in RunTodo \intersect ResetTodo /\ Len(<<"remember">>) = 1
  /\ <<"copy">> \in PresetTodo /\ Len(<<"copy">>) = 1
BY DEF FirstTodo, ReturnTodo, RunTodo, ResetTodo, PresetTodo

LEMMA WriteShownInv == ASSUME Boot!DeskBootAssumption, BootInv, Boot!WriteShown PROVE BootInv'
<1> USE DEF BootInv
<1>1. /\ UNCHANGED <<bootCopy, bootVault, bootChosen, bootAlive, bootRuns, bootLastRun, bootLoose>>
      /\ bootShown' = bootJob.scene /\ bootJob' = Boot!Past
      /\ Boot!At("shown") \/ (Boot!At("shown2") /\ bootJob.scene # Nil)
      /\ bootJob # Boot!Rest /\ bootJob.todo # <<>>
  BY DEF Boot!WriteShown, Boot!At, Boot!Rest
<1>2. /\ bootJob'.kind = bootJob.kind /\ bootJob'.todo = Tail(bootJob.todo) /\ bootJob'.scene = bootJob.scene
      /\ bootJob'.proj = bootJob.proj /\ bootJob'.read = bootJob.read /\ bootJob' \in Calls
  BY <1>1, Moves
<1>3. Owed' = Owed
  BY <1>1, <1>2 DEF Owed
<1>4. CASE AtPlace("first", <<"shown", "copy", "clear", "openVault", "mark">>)
           \/ AtPlace("run", <<"shown", "copy", "openVault", "remember">>)
           \/ AtPlace("reset", <<"shown", "copy", "openVault", "remember">>)
  <2>1. bootJob.scene \in Owed
    BY <1>4 DEF AtPlace, Owed
  <2>2. NoneElse'
    BY <1>1, <1>3, <2>1, NoneElseStep
  <2>3. bootJob.scene \in Boot!Painted
    BY <1>4, Kinds, Apart DEF AtPlace, FirstOk, RunOk, ResetOk
  <2>4. BootTypes'
    BY <1>1, <1>2, <2>3 DEF BootTypes, Boot!TypeOK
  <2>5. CASE AtPlace("first", <<"shown", "copy", "clear", "openVault", "mark">>)
    <3>1. bootJob'.todo = <<"copy", "clear", "openVault", "mark">> /\ FirstOk /\ Before(0)
      BY <1>2, <2>5, Kinds, Tails DEF AtPlace, Before
    <3>2. FirstOk'
      BY <3>1, <1>1, <1>2, Lengths DEF FirstOk, Before
    <3>3. QED
      BY <3>2, <1>2, <2>2, <2>4, <2>5 DEF Scripted, AtPlace
  <2>6. CASE AtPlace("run", <<"shown", "copy", "openVault", "remember">>)
    <3>1. bootJob'.todo = <<"copy", "openVault", "remember">> /\ RunOk
      BY <1>2, <2>6, Kinds, Tails DEF AtPlace
    <3>2. RunOk'
      BY <3>1, <1>1, <1>2, Lengths DEF RunOk, Before
    <3>3. QED
      BY <3>2, <1>2, <2>2, <2>4, <2>6 DEF Scripted, AtPlace
  <2>7. CASE AtPlace("reset", <<"shown", "copy", "openVault", "remember">>)
    <3>1. bootJob'.todo = <<"copy", "openVault", "remember">> /\ ResetOk
      BY <1>2, <2>7, Kinds, Tails DEF AtPlace
    <3>2. ResetOk'
      BY <3>1, <1>1, <1>2, Lengths DEF ResetOk, Before
    <3>3. QED
      BY <3>2, <1>2, <2>2, <2>4, <2>7 DEF Scripted, AtPlace
  <2>8. QED
    BY <1>4, <2>5, <2>6, <2>7
<1>5. CASE AtPlace("preset", <<"shown", "copy">>)
  <2>1. PresetOk /\ bootJob.kind = "preset" /\ bootJob'.todo = <<"copy">>
    BY <1>2, <1>5, Kinds, Tails DEF AtPlace
  <2>2. NoneElse'
    BY <1>1, <1>3, <2>1, NoneElseStep DEF PresetOk
  <2>3. BootTypes'
    BY <1>1, <1>2, <2>1, Apart DEF BootTypes, Boot!TypeOK, PresetOk
  <2>4. PresetOk'
    BY <1>2, <2>1, Lengths DEF PresetOk
  <2>5. QED
    BY <1>2, <2>1, <2>2, <2>3, <2>4 DEF Scripted
<1>6. CASE AtPlace("return", <<"shown2", "copy2", "revive", "openVault", "mark">>) /\ bootJob.scene # Nil
  <2>1. ReturnOk /\ bootJob.kind = "return" /\ bootJob'.todo = <<"copy2", "revive", "openVault", "mark">>
        /\ Len(bootJob.todo) = 5
    BY <1>2, <1>6, Kinds, Tails DEF AtPlace
  <2>2. bootJob.scene = bootVault.scene /\ bootJob.scene = Restored /\ bootJob.scene \in BootScenes \union {Boot!Demo}
    BY <1>6, <2>1 DEF ReturnOk, Before, Restored
  <2>3. NoneElse'
    BY <1>1, <1>3, <2>2, NoneElseStep
  <2>4. BootTypes'
    BY <1>1, <1>2, <2>2, Apart DEF BootTypes, Boot!TypeOK
  <2>5. Restored' = Restored /\ Len(bootJob'.todo) = 4 /\ bootJob'.todo \in ReturnTodo
    BY <1>1, <2>1, Lengths DEF Restored
  <2>6. ReturnOk'
    <3>1. bootShown' # Boot!Absent /\ bootJob.scene # Nil
      BY <1>1, <2>2, Apart
    <3>2. /\ bootVault.count < BootMaxBoots /\ bootJob.proj = Nil
          /\ bootLastRun \in BootScenes => bootJob.scene \in {bootLastRun} \union bootLoose
      BY <2>1, <3>1 DEF ReturnOk, Before
    <3>3. ~Before(6)' /\ ~Before(4)' /\ Before(2)' /\ Before(0)' /\ Len(bootJob'.todo) # 1
      BY <2>5 DEF Before
    <3>4. /\ bootShown' # Boot!Absent /\ bootJob'.scene = Restored' /\ bootJob'.scene \in BootScenes \union {Boot!Demo, Nil}
          /\ bootJob'.scene \in {Nil, bootShown'} /\ bootJob'.proj = Nil /\ bootVault'.count < BootMaxBoots
      BY <1>1, <1>2, <2>2, <2>5, <3>1, <3>2
    <3>5. bootLastRun' \in BootScenes => bootJob'.scene # Nil /\ bootJob'.scene \in {bootLastRun'} \union bootLoose'
      BY <1>1, <1>2, <3>1, <3>2
    <3>6. QED
      BY <2>5, <3>3, <3>4, <3>5 DEF ReturnOk
  <2>7. QED
    BY <1>2, <2>1, <2>3, <2>4, <2>6 DEF Scripted
<1>7. QED
  BY <1>1, <1>4, <1>5, <1>6, Places

(* A step that touches neither session, vault nor what is owed.            *)
LEMMA QuietStep ==
  ASSUME Boot!DeskBootAssumption, BootInv, bootJob' = Boot!Past, bootJob # Boot!Rest, bootJob.todo # <<>>,
         UNCHANGED <<bootShown, bootVault, bootLastRun, bootLoose>>
  PROVE  Owed' = Owed /\ NoneElse'
<1>1. bootJob'.kind = bootJob.kind /\ bootJob'.scene = bootJob.scene
  BY Moves DEF BootInv
<1>2. Owed' = Owed
  BY <1>1 DEF Owed
<1>3. QED
  BY <1>2, NoneElseStep DEF BootInv

LEMMA WriteCopyInv == ASSUME Boot!DeskBootAssumption, BootInv, Boot!WriteCopy PROVE BootInv'
<1> USE DEF BootInv
<1>1. /\ UNCHANGED <<bootShown, bootVault, bootChosen, bootAlive, bootRuns, bootLastRun, bootLoose>>
      /\ bootCopy' = bootJob.scene /\ bootJob' = Boot!Past
      /\ Boot!At("copy") \/ (Boot!At("copy2") /\ bootJob.scene # Nil)
      /\ bootJob # Boot!Rest /\ bootJob.todo # <<>>
  BY DEF Boot!WriteCopy, Boot!At, Boot!Rest
<1>2. /\ bootJob'.kind = bootJob.kind /\ bootJob'.todo = Tail(bootJob.todo) /\ bootJob'.scene = bootJob.scene
      /\ bootJob'.proj = bootJob.proj /\ bootJob'.read = bootJob.read /\ bootJob' \in Calls
  BY <1>1, Moves
<1>3. NoneElse'
  BY <1>1, QuietStep
<1>4. SUFFICES bootJob.scene \in Boot!Painted /\ Scripted'
  BY <1>1, <1>2, <1>3 DEF BootTypes, Boot!TypeOK
<1>5. CASE AtPlace("first", <<"copy", "clear", "openVault", "mark">>)
  <2>1. bootJob'.todo = <<"clear", "openVault", "mark">> /\ FirstOk /\ Before(0) /\ ~Before(4)
    BY <1>2, <1>5, Kinds, Tails, Lengths DEF AtPlace, Before
  <2>2. bootJob.scene = Boot!Clean /\ FirstOk'
    BY <2>1, <1>1, <1>2, Lengths DEF FirstOk, Before
  <2>3. QED
    BY <2>2, <1>2, <1>5, Apart DEF Scripted, AtPlace
<1>6. CASE AtPlace("run", <<"copy", "openVault", "remember">>)
  <2>1. bootJob'.todo = <<"openVault", "remember">> /\ RunOk /\ ~Before(3)
    BY <1>2, <1>6, Kinds, Tails, Lengths DEF AtPlace, Before
  <2>2. bootJob.scene \in BootScenes /\ RunOk'
    BY <2>1, <1>1, <1>2, Lengths DEF RunOk, Before
  <2>3. QED
    BY <2>2, <1>2, <1>6, Apart DEF Scripted, AtPlace
<1>7. CASE AtPlace("reset", <<"copy", "openVault", "remember">>)
  <2>1. bootJob'.todo = <<"openVault", "remember">> /\ ResetOk /\ ~Before(3)
    BY <1>2, <1>7, Kinds, Tails, Lengths DEF AtPlace, Before
  <2>2. bootJob.scene = Boot!Clean /\ ResetOk'
    BY <2>1, <1>1, <1>2, Lengths DEF ResetOk, Before
  <2>3. QED
    BY <2>2, <1>2, <1>7, Apart DEF Scripted, AtPlace
<1>8. CASE AtPlace("preset", <<"copy">>)
  <2>1. bootJob'.todo = <<>> /\ PresetOk
    BY <1>2, <1>8, Kinds, Tails, Lengths DEF AtPlace
  <2>2. bootJob.scene = Boot!Plain /\ PresetOk'
    BY <2>1, <1>1, <1>2, Lengths DEF PresetOk
  <2>3. QED
    BY <2>2, <1>2, <1>8, Apart DEF Scripted, AtPlace
<1>9. CASE AtPlace("return", <<"copy2", "revive", "openVault", "mark">>) /\ bootJob.scene # Nil
  <2>1. bootJob'.todo = <<"revive", "openVault", "mark">> /\ ReturnOk /\ Len(bootJob.todo) = 4
    BY <1>2, <1>9, Kinds, Tails, Lengths DEF AtPlace
  <2>2. ~Before(6) /\ ~Before(4) /\ Before(2) /\ Before(0)
        /\ ~Before(6)' /\ ~Before(4)' /\ Before(2)' /\ Before(0)' /\ Len(bootJob'.todo) = 3
    BY <2>1, Lengths DEF Before
  <2>3. Restored' = Restored /\ bootJob'.todo \in ReturnTodo
    BY <2>1, <1>1, Lengths DEF Restored
  <2>4. ReturnOk' /\ bootJob.scene \in BootScenes \union {Boot!Demo}
    BY <2>1, <2>2, <2>3, <1>1, <1>2, <1>9 DEF ReturnOk
  <2>5. QED
    BY <2>4, <1>2, <1>9, Apart DEF Scripted, AtPlace
<1>10. QED
  BY <1>1, <1>5, <1>6, <1>7, <1>8, <1>9, Places

LEMMA KeepSessionInv == ASSUME Boot!DeskBootAssumption, BootInv, Boot!KeepSession PROVE BootInv'
<1> USE DEF BootInv
<1>1. /\ UNCHANGED <<bootShown, bootCopy, bootVault, bootChosen, bootAlive, bootRuns, bootLastRun, bootLoose>>
      /\ bootJob.scene = Nil /\ bootJob' = Boot!Past
      /\ Boot!At("shown2") \/ Boot!At("copy2")
      /\ bootJob # Boot!Rest /\ bootJob.todo # <<>>
  BY DEF Boot!KeepSession, Boot!At, Boot!Rest
<1>2. /\ bootJob'.kind = bootJob.kind /\ bootJob'.todo = Tail(bootJob.todo) /\ bootJob'.scene = bootJob.scene
      /\ bootJob'.proj = bootJob.proj /\ bootJob'.read = bootJob.read /\ bootJob' \in Calls
  BY <1>1, Moves
<1>3. NoneElse' /\ BootTypes' /\ Restored' = Restored
  BY <1>1, <1>2, QuietStep DEF BootTypes, Boot!TypeOK, Restored
<1>4. bootJob.kind = "return" /\ ReturnOk
      /\ \/ /\ bootJob.todo = <<"shown2", "copy2", "revive", "openVault", "mark">>
            /\ bootJob'.todo = <<"copy2", "revive", "openVault", "mark">>
         \/ /\ bootJob.todo = <<"copy2", "revive", "openVault", "mark">>
            /\ bootJob'.todo = <<"revive", "openVault", "mark">>
  BY <1>1, <1>2, Places, Kinds, Tails DEF AtPlace
<1>5. ~Before(6) /\ Before(2) /\ Before(0) /\ ~Before(6)' /\ Before(2)' /\ Before(0)'
      /\ Len(bootJob'.todo) # 1 /\ bootJob'.todo \in ReturnTodo
  <2>1. CASE bootJob.todo = <<"shown2", "copy2", "revive", "openVault", "mark">>
    <3>1. Len(bootJob.todo) = 5 /\ Len(bootJob'.todo) = 4 /\ bootJob'.todo \in ReturnTodo
      BY <1>4, <2>1, Lengths
    <3>2. QED
      BY <3>1 DEF Before
  <2>2. CASE bootJob.todo = <<"copy2", "revive", "openVault", "mark">>
    <3>1. Len(bootJob.todo) = 4 /\ Len(bootJob'.todo) = 3 /\ bootJob'.todo \in ReturnTodo
      BY <1>4, <2>2, Lengths
    <3>2. QED
      BY <3>1 DEF Before
  <2>3. QED
    BY <1>4, <2>1, <2>2
<1>6. ReturnOk'
  BY <1>1, <1>2, <1>3, <1>4, <1>5 DEF ReturnOk
<1>7. QED
  BY <1>2, <1>3, <1>4, <1>6 DEF Scripted

LEMMA ClearInv == ASSUME Boot!DeskBootAssumption, BootInv, Boot!ClearActive PROVE BootInv'
<1> USE DEF BootInv
<1>1. /\ UNCHANGED <<bootShown, bootCopy, bootVault, bootAlive, bootRuns, bootLastRun, bootLoose>>
      /\ bootChosen' = Nil /\ bootJob' = Boot!Past /\ Boot!At("clear") /\ bootJob # Boot!Rest /\ bootJob.todo # <<>>
  BY DEF Boot!ClearActive, Boot!At, Boot!Rest
<1>2. /\ bootJob'.kind = bootJob.kind /\ bootJob'.todo = Tail(bootJob.todo) /\ bootJob'.scene = bootJob.scene
      /\ bootJob'.proj = bootJob.proj /\ bootJob'.read = bootJob.read /\ bootJob' \in Calls
  BY <1>1, Moves
<1>3. NoneElse' /\ BootTypes'
  BY <1>1, <1>2, QuietStep DEF BootTypes, Boot!TypeOK
<1>4. bootJob.kind = "first" /\ FirstOk /\ bootJob.todo = <<"clear", "openVault", "mark">>
      /\ bootJob'.todo = <<"openVault", "mark">>
  BY <1>1, <1>2, Places, Kinds, Tails DEF AtPlace
<1>5. FirstOk'
  BY <1>1, <1>2, <1>4, Lengths DEF FirstOk, Before
<1>6. QED
  BY <1>2, <1>3, <1>4, <1>5 DEF Scripted

LEMMA ReviveInv == ASSUME Boot!DeskBootAssumption, BootInv, Boot!Revive PROVE BootInv'
<1> USE DEF BootInv
<1>1. /\ UNCHANGED <<bootShown, bootCopy, bootVault, bootAlive, bootRuns, bootLastRun, bootLoose>>
      /\ bootJob' = [Boot!Past EXCEPT !.proj = Boot!Revived] /\ Boot!At("revive") /\ bootJob # Boot!Rest /\ bootJob.todo # <<>>
      /\ bootChosen' = IF Boot!Revived # Nil THEN Boot!Revived ELSE bootChosen
  BY DEF Boot!Revive, Boot!At, Boot!Rest
<1>2. Boot!Revived \in bootAlive \union {Nil} /\ (Boot!Revived = Nil => bootChosen \notin bootAlive /\ bootVault.proj \notin bootAlive)
      /\ bootAlive \subseteq BootRobots /\ Nil \notin bootAlive
  BY Apart DEF Boot!Revived, BootTypes, Boot!TypeOK
<1>3. bootJob.kind = "return" /\ ReturnOk /\ bootJob.todo = <<"revive", "openVault", "mark">>
  BY <1>1, Places, Kinds DEF AtPlace
<1>4. Boot!Past \in Calls /\ Boot!Past.kind = "return" /\ Boot!Past.scene = bootJob.scene /\ Boot!Past.read = bootJob.read
      /\ Boot!Past.todo = <<"openVault", "mark">>
  BY <1>1, <1>3, PastTypes, PastFields, Tails DEF BootTypes
<1>5. bootJob' \in Calls /\ bootJob'.kind = "return" /\ bootJob'.scene = bootJob.scene /\ bootJob'.proj = Boot!Revived
      /\ bootJob'.todo = <<"openVault", "mark">>
  BY <1>1, <1>2, <1>4 DEF Calls, Selected
<1>6. BootTypes'
  BY <1>1, <1>2, <1>5 DEF BootTypes, Boot!TypeOK
<1>7. Owed' = Owed
  BY <1>1, <1>3, <1>5 DEF Owed
<1>8. NoneElse'
  BY <1>1, <1>7, NoneElseStep
<1>9. ~Before(6) /\ ~Before(4) /\ Before(2) /\ Before(0)
      /\ ~Before(6)' /\ ~Before(4)' /\ ~Before(2)' /\ Before(0)' /\ Len(bootJob'.todo) # 1
      /\ bootJob'.todo \in ReturnTodo /\ Restored' = Restored
  <2>1. Len(bootJob.todo) = 3 /\ Len(bootJob'.todo) = 2 /\ bootJob'.todo \in ReturnTodo
    BY <1>3, <1>5, Lengths
  <2>2. Restored' = Restored
    BY <1>1 DEF Restored
  <2>3. QED
    BY <2>1, <2>2 DEF Before
<1>10. (bootVault.proj \in bootAlive => bootChosen' \in bootAlive) /\ (Boot!Revived \in bootAlive => bootChosen' \in bootAlive)
  BY <1>1, <1>2
<1>11. ReturnOk'
  BY <1>1, <1>3, <1>5, <1>9, <1>10 DEF ReturnOk
<1>12. QED
  BY <1>5, <1>6, <1>8, <1>11 DEF Scripted

LEMMA OpenVaultInv == ASSUME Boot!DeskBootAssumption, BootInv, Boot!OpenVault PROVE BootInv'
<1> USE DEF BootInv
<1>1. /\ UNCHANGED <<bootShown, bootCopy, bootVault, bootChosen, bootAlive, bootRuns, bootLastRun, bootLoose>>
      /\ bootJob' = [Boot!Past EXCEPT !.read = bootVault] /\ Boot!At("openVault") /\ bootJob # Boot!Rest /\ bootJob.todo # <<>>
  BY DEF Boot!OpenVault, Boot!At, Boot!Rest
<1>2. Boot!Past \in Calls /\ Boot!Past.kind = bootJob.kind /\ Boot!Past.scene = bootJob.scene /\ Boot!Past.proj = bootJob.proj
      /\ Boot!Past.todo = Tail(bootJob.todo)
  BY <1>1, PastTypes, PastFields DEF BootTypes
<1>3. bootJob' \in Calls /\ bootJob'.kind = bootJob.kind /\ bootJob'.scene = bootJob.scene /\ bootJob'.proj = bootJob.proj
      /\ bootJob'.todo = Tail(bootJob.todo) /\ bootJob'.read = bootVault
  BY <1>1, <1>2 DEF Calls, BootTypes
<1>4. BootTypes' /\ Owed' = Owed
  BY <1>1, <1>3 DEF BootTypes, Boot!TypeOK, Owed
<1>5. NoneElse'
  BY <1>1, <1>4, NoneElseStep
<1>6. CASE AtPlace("first", <<"openVault", "mark">>)
  <2>1. FirstOk /\ bootJob'.todo = <<"mark">> /\ Len(bootJob.todo) = 2
    BY <1>3, <1>6, Kinds, Tails, Lengths DEF AtPlace
  <2>2. FirstOk'
    BY <2>1, <1>1, <1>3, Lengths DEF FirstOk, Before
  <2>3. QED
    BY <2>2, <1>3, <1>4, <1>5, <1>6 DEF Scripted, AtPlace
<1>7. CASE AtPlace("return", <<"openVault", "mark">>)
  <2>1. ReturnOk /\ Len(bootJob.todo) = 2 /\ Len(bootJob'.todo) = 1 /\ bootJob'.todo \in ReturnTodo
    BY <1>3, <1>7, Kinds, Tails, Lengths DEF AtPlace
  <2>2. Restored' = Restored
    BY <1>1 DEF Restored
  <2>3. ~Before(6) /\ ~Before(4) /\ ~Before(2) /\ Before(0)
        /\ ~Before(6)' /\ ~Before(4)' /\ ~Before(2)' /\ Before(0)'
    BY <2>1 DEF Before
  <2>4. ReturnOk'
    BY <2>1, <2>2, <2>3, <1>1, <1>3 DEF ReturnOk
  <2>5. QED
    BY <2>4, <1>3, <1>4, <1>5, <1>7 DEF Scripted, AtPlace
<1>8. CASE AtPlace("run", <<"openVault", "remember">>)
  <2>1. RunOk /\ bootJob'.todo = <<"remember">> /\ Len(bootJob.todo) = 2
    BY <1>3, <1>8, Kinds, Tails, Lengths DEF AtPlace
  <2>2. RunOk'
    BY <2>1, <1>1, <1>3, Lengths DEF RunOk, Before
  <2>3. QED
    BY <2>2, <1>3, <1>4, <1>5, <1>8 DEF Scripted, AtPlace
<1>9. CASE AtPlace("reset", <<"openVault", "remember">>)
  <2>1. ResetOk /\ bootJob'.todo = <<"remember">> /\ Len(bootJob.todo) = 2
    BY <1>3, <1>9, Kinds, Tails, Lengths DEF AtPlace
  <2>2. ResetOk'
    BY <2>1, <1>1, <1>3, Lengths DEF ResetOk, Before
  <2>3. QED
    BY <2>2, <1>3, <1>4, <1>5, <1>9 DEF Scripted, AtPlace
<1>10. QED
  BY <1>1, <1>6, <1>7, <1>8, <1>9, Places

LEMMA MarkInv == ASSUME Boot!DeskBootAssumption, BootInv, Boot!Mark PROVE BootInv'
<1> USE DEF BootInv
<1>1. /\ UNCHANGED <<bootShown, bootCopy, bootChosen, bootAlive, bootRuns, bootLastRun, bootLoose>>
      /\ bootJob' = Boot!Past /\ Boot!At("mark") /\ bootJob # Boot!Rest /\ bootJob.todo # <<>>
      /\ bootVault' = [count |-> bootJob.read.count + 1,
                   scene |-> IF Boot!SceneOfBoot = Boot!Plain THEN bootJob.read.scene ELSE Boot!SceneOfBoot,
                   proj |-> IF bootJob.proj = Nil THEN bootJob.read.proj ELSE bootJob.proj]
  BY DEF Boot!Mark, Boot!At, Boot!Rest
<1>2. /\ bootJob'.kind = bootJob.kind /\ bootJob'.todo = Tail(bootJob.todo) /\ bootJob'.scene = bootJob.scene
      /\ bootJob'.proj = bootJob.proj /\ bootJob'.read = bootJob.read /\ bootJob' \in Calls
  BY <1>1, Moves
<1>3. bootVault \in Vaults /\ bootJob.proj \in Selected
  BY DEF BootTypes, Calls
<1>4. bootJob'.todo = <<>> /\ Len(bootJob.todo) = 1 /\ Len(bootJob'.todo) = 0
      /\ \/ bootJob.kind = "first" /\ FirstOk
         \/ bootJob.kind = "return" /\ ReturnOk
  BY <1>1, <1>2, Places, Kinds, Tails, Lengths DEF AtPlace
<1>5. bootJob.read = bootVault /\ bootVault.count < BootMaxBoots
  BY <1>4 DEF FirstOk, ReturnOk, Before
<1>6. bootVault.count + 1 \in 0..BootMaxBoots
  BY <1>3, <1>5, Apart DEF Vaults
<1>7. Boot!SceneOfBoot \in Boot!Painted /\ (Boot!SceneOfBoot # Boot!Plain => Boot!SceneOfBoot \in {Boot!Clean, bootShown})
  BY <1>4, Apart DEF Boot!SceneOfBoot, ReturnOk, Before, BootTypes, Boot!TypeOK
<1>8. bootVault'.scene \in VaultScenes
      /\ bootVault'.scene = IF Boot!SceneOfBoot = Boot!Plain THEN bootVault.scene ELSE Boot!SceneOfBoot
  BY <1>1, <1>3, <1>5, <1>7 DEF Vaults, VaultScenes, Boot!Painted
<1>9. bootVault'.proj = IF bootJob.proj = Nil THEN bootVault.proj ELSE bootJob.proj
  BY <1>1, <1>5
<1>10. bootVault'.proj \in Selected
  BY <1>3, <1>9 DEF Vaults
<1>11. bootVault' \in Vaults
  BY <1>1, <1>5, <1>6, <1>8, <1>10 DEF Vaults
<1>12. BootTypes'
  BY <1>1, <1>2, <1>11, Apart DEF BootTypes, Boot!TypeOK, Vaults, VaultScenes, Selected, Boot!Painted
<1>13. Owed' = Owed
  BY <1>1, <1>2 DEF Owed
<1>14. CASE bootJob.kind = "first" /\ FirstOk
  <2>1. bootJob.scene = Boot!Clean /\ Boot!SceneOfBoot = Boot!Clean /\ Boot!Clean \in Owed /\ bootVault'.scene = Boot!Clean
    BY <1>8, <1>14, Apart DEF FirstOk, Boot!SceneOfBoot, Owed
  <2>2. NoneElse'
    <3>1. bootShown = Boot!Clean
      BY <1>4, <1>14 DEF FirstOk, Before
    <3>2. QED
      BY <1>1, <1>13, <2>1, <3>1, NoneElseStep, Apart
  <2>3. FirstOk'
    <3>1. /\ bootJob'.todo = <<>> /\ bootJob'.todo \in FirstTodo /\ Len(bootJob'.todo) = 0
          /\ bootJob'.scene = Boot!Clean /\ bootJob'.proj = Nil
      BY <1>2, <1>4, <1>14, <2>1, Lengths DEF FirstOk
    <3>2. bootShown' = Boot!Clean /\ bootCopy' = Boot!Clean /\ bootChosen' = Nil
      BY <1>1, <1>4, <1>14 DEF FirstOk, Before
    <3>3. bootVault'.scene = Boot!Clean
      BY <2>1
    <3>4. QED
      BY <3>1, <3>2, <3>3 DEF FirstOk, Before
  <2>4. QED
    BY <1>2, <1>12, <1>14, <2>2, <2>3 DEF Scripted
<1>15. CASE bootJob.kind = "return" /\ ReturnOk
  <2>1. Boot!SceneOfBoot = bootShown
    BY <1>15 DEF Boot!SceneOfBoot
  <2>2. NoneElse'
    BY <1>1, <1>8, <1>13, <2>1, NoneElseStep
  <2>3. ~Before(6) /\ ~Before(4) /\ ~Before(2)
        /\ ~Before(6)' /\ ~Before(4)' /\ ~Before(2)' /\ ~Before(0)' /\ bootJob'.todo \in ReturnTodo
    BY <1>4, Lengths DEF Before
  <2>4. bootVault'.proj \in bootAlive => bootChosen \in bootAlive
    BY <1>9, <1>15, <2>3 DEF ReturnOk
  <2>5. /\ bootShown # Boot!Absent /\ bootJob.scene \in BootScenes \union {Boot!Demo, Nil}
        /\ bootLastRun \in BootScenes => IF bootJob.scene = Nil THEN Boot!Clean \in bootLoose
                                 ELSE bootJob.scene \in {bootLastRun} \union bootLoose
        /\ bootJob.scene \in {Nil, bootShown} /\ (bootJob.proj \in bootAlive => bootChosen \in bootAlive)
    BY <1>15, <2>3 DEF ReturnOk
  <2>6. Len(bootJob'.todo) # 1
    BY <1>4
  <2>7. ReturnOk'
    BY <2>3, <2>4, <2>5, <2>6, <1>1, <1>2 DEF ReturnOk
  <2>8. QED
    BY <1>2, <1>12, <1>15, <2>2, <2>7 DEF Scripted
<1>16. QED
  BY <1>4, <1>14, <1>15

LEMMA RememberInv == ASSUME Boot!DeskBootAssumption, BootInv, Boot!Remember PROVE BootInv'
<1> USE DEF BootInv
<1>1. /\ UNCHANGED <<bootShown, bootCopy, bootChosen, bootAlive, bootRuns, bootLastRun, bootLoose>>
      /\ bootJob' = Boot!Past /\ Boot!At("remember") /\ bootJob # Boot!Rest /\ bootJob.todo # <<>>
      /\ bootVault' = [count |-> IF bootJob.read.count < 1 THEN 1 ELSE bootJob.read.count,
                   scene |-> bootJob.scene,
                   proj |-> IF bootJob.proj = Nil THEN bootJob.read.proj ELSE bootJob.proj]
  BY DEF Boot!Remember, Boot!At, Boot!Rest
<1>2. /\ bootJob'.kind = bootJob.kind /\ bootJob'.todo = Tail(bootJob.todo) /\ bootJob'.scene = bootJob.scene
      /\ bootJob'.proj = bootJob.proj /\ bootJob'.read = bootJob.read /\ bootJob' \in Calls
  BY <1>1, Moves
<1>3. bootVault \in Vaults /\ bootJob.proj \in Selected
  BY DEF BootTypes, Calls
<1>4. bootJob'.todo = <<>> /\ Len(bootJob.todo) = 1 /\ Len(bootJob'.todo) = 0
      /\ \/ bootJob.kind = "run" /\ RunOk
         \/ bootJob.kind = "reset" /\ ResetOk
  BY <1>1, <1>2, Places, Kinds, Tails, Lengths DEF AtPlace
<1>5. bootJob.read = bootVault /\ bootJob.scene \in BootScenes \union {Boot!Clean} /\ bootJob.scene \in Owed
  BY <1>4 DEF RunOk, ResetOk, Owed
<1>6. (IF bootVault.count < 1 THEN 1 ELSE bootVault.count) \in 0..BootMaxBoots
  BY <1>3, Apart DEF Vaults
<1>7. bootVault'.scene = bootJob.scene
  BY <1>1
<1>8. (IF bootJob.proj = Nil THEN bootVault.proj ELSE bootJob.proj) \in Selected
  BY <1>3 DEF Vaults
<1>9. bootVault' \in Vaults
  BY <1>1, <1>5, <1>6, <1>8 DEF Vaults, VaultScenes
<1>10. BootTypes'
  BY <1>1, <1>2, <1>9, Apart DEF BootTypes, Boot!TypeOK, Vaults, VaultScenes, Selected, Boot!Painted
<1>11. Owed' = Owed
  BY <1>1, <1>2 DEF Owed
<1>12. NoneElse'
  <2>1. bootShown = bootJob.scene
    BY <1>4, Lengths DEF RunOk, ResetOk, Before
  <2>2. bootJob.scene # Boot!Plain
    BY <1>5, Apart
  <2>3. QED
    BY <1>1, <1>5, <1>7, <1>11, <2>1, <2>2, NoneElseStep
<1>13. CASE bootJob.kind = "run" /\ RunOk
  <2>1. RunOk'
    BY <1>1, <1>2, <1>4, <1>7, <1>13, Lengths DEF RunOk, Before
  <2>2. QED
    BY <1>2, <1>10, <1>12, <1>13, <2>1 DEF Scripted
<1>14. CASE bootJob.kind = "reset" /\ ResetOk
  <2>1. ResetOk'
    BY <1>1, <1>2, <1>4, <1>7, <1>14, Lengths DEF ResetOk, Before
  <2>2. QED
    BY <1>2, <1>10, <1>12, <1>14, <2>1 DEF Scripted
<1>15. QED
  BY <1>4, <1>13, <1>14

LEMMA FinishInv == ASSUME Boot!DeskBootAssumption, BootInv, Boot!Finish PROVE BootInv'
<1> USE DEF BootInv
<1>1. /\ bootJob # Boot!Rest /\ bootJob.todo = <<>> /\ bootJob' = Boot!Rest
      /\ UNCHANGED <<bootShown, bootCopy, bootVault, bootChosen, bootAlive, bootRuns>>
      /\ IF bootJob.kind \in {"run", "reset", "first"}
           THEN bootLastRun' = bootJob.scene /\ bootLoose' = {}
           ELSE UNCHANGED <<bootLastRun, bootLoose>>
  BY DEF Boot!Finish
<1>2. Scripted' /\ bootJob' \in Calls /\ bootJob'.kind = "idle"
  BY <1>1, Lengths DEF Scripted, Boot!Rest, Calls, Selected
<1>3. CASE bootJob.kind \in {"run", "reset", "first"}
  <2>1. /\ bootJob.scene \in BootScenes \union {Boot!Clean}
        /\ bootShown = bootJob.scene /\ bootVault.scene = bootJob.scene
    <3>1. Len(bootJob.todo) = 0
      BY <1>1, Lengths
    <3>2. ~Before(0) /\ ~Before(3) /\ ~Before(4)
      BY <3>1 DEF Before
    <3>3. QED
      BY <3>2, <1>3, Kinds DEF RunOk, ResetOk, FirstOk
  <2>2. bootLastRun' = bootJob.scene /\ bootLoose' = {}
    BY <1>1, <1>3
  <2>3. BootTypes'
    BY <1>1, <1>2, <2>1, <2>2 DEF BootTypes, Boot!TypeOK
  <2>4. NoneElse'
    BY <1>1, <2>1, <2>2 DEF NoneElse, Owed
  <2>5. QED
    BY <1>2, <2>3, <2>4
<1>4. CASE bootJob.kind \notin {"run", "reset", "first"}
  <2>1. BootTypes' /\ Owed' = Owed
    BY <1>1, <1>2, <1>4 DEF BootTypes, Boot!TypeOK, Owed
  <2>2. NoneElse'
    BY <1>1, <1>4, <2>1, NoneElseStep
  <2>3. QED
    BY <1>2, <2>1, <2>2
<1>5. QED
  BY <1>3, <1>4

LEMMA KillInv == ASSUME Boot!DeskBootAssumption, BootInv, Boot!Kill PROVE BootInv'
<1> USE DEF BootInv
<1>1. /\ bootJob' = Boot!Rest /\ UNCHANGED <<bootShown, bootCopy, bootVault, bootChosen, bootAlive, bootRuns, bootLastRun>>
      /\ bootLoose' = bootLoose \union (IF bootJob.scene = Nil THEN {} ELSE {bootJob.scene})
  BY DEF Boot!Kill
<1>2. Scripted' /\ bootJob' \in Calls /\ bootJob'.kind = "idle"
  BY <1>1, Lengths DEF Scripted, Boot!Rest, Calls, Selected
<1>3. bootJob.scene \in Boot!Painted \union {Nil}
  BY DEF BootTypes, Calls
<1>4. BootTypes'
  BY <1>1, <1>2, <1>3 DEF BootTypes, Boot!TypeOK
<1>5. bootJob.kind \in {"first", "run", "reset"} => bootJob.scene # Nil
  BY Kinds, Apart DEF FirstOk, RunOk, ResetOk
<1>6. Owed \subseteq Owed'
  BY <1>1, <1>2, <1>5 DEF Owed
<1>7. NoneElse'
  BY <1>1, <1>6, NoneElseStep
<1>8. QED
  BY <1>2, <1>4, <1>7

(* A request begins: nothing is written yet.                               *)
LEMMA BeginInv ==
  ASSUME Boot!DeskBootAssumption, BootInv, NEW kind \in {"first", "return", "run", "reset", "preset"},
         NEW script \in FirstTodo \union ReturnTodo \union RunTodo \union PresetTodo,
         NEW scene \in Boot!Painted \union {Nil}, NEW proj \in Selected,
         Boot!Begin(kind, script, scene, proj), bootRuns' \in 0..BootMaxScenes, bootLastRun' = bootLastRun
  PROVE  /\ bootJob'.kind = kind /\ bootJob'.todo = script /\ bootJob'.scene = scene /\ bootJob'.proj = proj
         /\ UNCHANGED <<bootShown, bootCopy, bootVault, bootChosen, bootAlive, bootLoose>>
         /\ BootTypes' /\ NoneElse'
<1> USE DEF BootInv
<1>1. /\ bootJob = Boot!Rest /\ UNCHANGED <<bootShown, bootCopy, bootVault, bootChosen, bootAlive, bootLoose>>
      /\ bootJob' = [Boot!Rest EXCEPT !.kind = kind, !.todo = script, !.scene = scene, !.proj = proj]
  BY DEF Boot!Begin
<1>2. /\ bootJob'.kind = kind /\ bootJob'.todo = script /\ bootJob'.scene = scene /\ bootJob'.proj = proj
      /\ bootJob' \in Calls
  BY <1>1 DEF Boot!Rest, Calls
<1>3. BootTypes'
  BY <1>1, <1>2 DEF BootTypes, Boot!TypeOK
<1>4. Owed \subseteq Owed'
  BY <1>1 DEF Owed, Boot!Rest
<1>5. NoneElse'
  BY <1>1, <1>4, NoneElseStep
<1>6. QED
  BY <1>1, <1>2, <1>3, <1>5

LEMMA Scripts ==
  /\ <<"shown", "copy", "clear", "openVault", "mark">> \in FirstTodo
  /\ Len(<<"shown", "copy", "clear", "openVault", "mark">>) = 5
  /\ <<"load", "mirror", "shown2", "copy2", "revive", "openVault", "mark">> \in ReturnTodo
  /\ Len(<<"load", "mirror", "shown2", "copy2", "revive", "openVault", "mark">>) = 7
  /\ <<"load", "mirror", "shown", "copy", "openVault", "remember">> \in RunTodo
  /\ Len(<<"load", "mirror", "shown", "copy", "openVault", "remember">>) = 6
  /\ <<"shown", "copy", "openVault", "remember">> \in ResetTodo
  /\ <<"shown", "copy", "openVault", "remember">> \in RunTodo
  /\ Len(<<"shown", "copy", "openVault", "remember">>) = 4
  /\ <<"shown", "copy">> \in PresetTodo
BY DEF FirstTodo, ReturnTodo, RunTodo, ResetTodo, PresetTodo

LEMMA RunsKept ==
  ASSUME Boot!DeskBootAssumption, BootInv, UNCHANGED bootRuns
  PROVE  bootRuns' \in 0..BootMaxScenes
BY DEF BootInv, BootTypes, Boot!TypeOK

LEMMA FirstBootInv ==
  ASSUME Boot!DeskBootAssumption, BootInv, NEW force \in BOOLEAN, Boot!FirstBoot(force)
  PROVE  BootInv'
<1>1. bootVault.count < BootMaxBoots /\ UNCHANGED <<bootRuns, bootLastRun>>
      /\ Boot!Begin("first", <<"shown", "copy", "clear", "openVault", "mark">>, Boot!Clean, Nil)
  BY DEF Boot!FirstBoot
<1>2. /\ bootJob'.kind = "first" /\ bootJob'.todo = <<"shown", "copy", "clear", "openVault", "mark">>
      /\ bootJob'.scene = Boot!Clean /\ bootJob'.proj = Nil /\ bootVault' = bootVault
      /\ BootTypes' /\ NoneElse'
  BY <1>1, BeginInv, RunsKept, Apart, Scripts DEF Selected
<1>3. FirstOk'
  BY <1>1, <1>2, Scripts DEF FirstOk, Before
<1>4. QED
  BY <1>2, <1>3 DEF BootInv, Scripted

LEMMA ReturnBootInv == ASSUME Boot!DeskBootAssumption, BootInv, Boot!ReturnBoot PROVE BootInv'
<1>1. bootVault.count < BootMaxBoots /\ UNCHANGED <<bootRuns, bootLastRun>>
      /\ Boot!Begin("return", <<"load", "mirror", "shown2", "copy2", "revive", "openVault", "mark">>, Nil, Nil)
  BY DEF Boot!ReturnBoot
<1>2. /\ bootJob'.kind = "return" /\ Len(bootJob'.todo) = 7 /\ bootJob'.todo \in ReturnTodo
      /\ bootJob'.scene = Nil /\ bootJob'.proj = Nil /\ bootVault' = bootVault
      /\ BootTypes' /\ NoneElse'
  BY <1>1, BeginInv, RunsKept, Scripts DEF Selected
<1>3. ReturnOk'
  BY <1>1, <1>2 DEF ReturnOk, Before
<1>4. QED
  BY <1>2, <1>3 DEF BootInv, Scripted

LEMMA RunTailInv ==
  ASSUME Boot!DeskBootAssumption, BootInv, NEW s \in BootScenes, NEW p \in BootRobots \union {BootOneShot},
         Boot!RunTail(s, p)
  PROVE  BootInv'
<1>1. bootRuns < BootMaxScenes /\ bootRuns' = bootRuns + 1 /\ bootLastRun' = bootLastRun
      /\ Boot!Begin("run", <<"load", "mirror", "shown", "copy", "openVault", "remember">>, s, p)
  BY DEF Boot!RunTail
<1>2. bootRuns' \in 0..BootMaxScenes
  BY <1>1, Apart DEF BootInv, BootTypes, Boot!TypeOK
<1>3. /\ bootJob'.kind = "run" /\ bootJob'.todo = <<"load", "mirror", "shown", "copy", "openVault", "remember">>
      /\ bootJob'.scene = s /\ BootTypes' /\ NoneElse'
  BY <1>1, <1>2, BeginInv, Scripts, Apart DEF Selected
<1>4. RunOk'
  BY <1>3, Scripts DEF RunOk, Before
<1>5. QED
  BY <1>3, <1>4 DEF BootInv, Scripted

LEMMA ResetDemoInv == ASSUME Boot!DeskBootAssumption, BootInv, Boot!ResetDemo PROVE BootInv'
<1>1. UNCHANGED <<bootRuns, bootLastRun>>
      /\ Boot!Begin("reset", <<"shown", "copy", "openVault", "remember">>, Boot!Clean, Nil)
  BY DEF Boot!ResetDemo
<1>2. /\ bootJob'.kind = "reset" /\ bootJob'.todo = <<"shown", "copy", "openVault", "remember">>
      /\ bootJob'.scene = Boot!Clean /\ BootTypes' /\ NoneElse'
  BY <1>1, BeginInv, RunsKept, Apart, Scripts DEF Selected
<1>3. ResetOk'
  BY <1>2, Scripts DEF ResetOk, Before
<1>4. QED
  BY <1>2, <1>3 DEF BootInv, Scripted

LEMMA StartPresetInv == ASSUME Boot!DeskBootAssumption, BootInv, Boot!StartPreset PROVE BootInv'
<1>1. UNCHANGED <<bootRuns, bootLastRun>> /\ Boot!Begin("preset", <<"shown", "copy">>, Boot!Plain, Nil)
  BY DEF Boot!StartPreset
<1>2. /\ bootJob'.kind = "preset" /\ bootJob'.todo = <<"shown", "copy">>
      /\ bootJob'.scene = Boot!Plain /\ BootTypes' /\ NoneElse'
  BY <1>1, BeginInv, RunsKept, Apart, Scripts DEF Selected
<1>3. PresetOk'
  BY <1>2, Scripts DEF PresetOk
<1>4. QED
  BY <1>2, <1>3 DEF BootInv, Scripted

(* The operator chooses or prunes between requests.                        *)
LEMMA OperatorInv ==
  ASSUME Boot!DeskBootAssumption, BootInv, NEW p \in BootRobots, Boot!Activate(p) \/ Boot!PruneOne(p)
  PROVE  BootInv'
<1> USE DEF BootInv
<1>1. bootJob = Boot!Rest /\ UNCHANGED <<bootShown, bootCopy, bootVault, bootJob, bootRuns, bootLastRun, bootLoose>>
      /\ bootChosen' \in BootRobots \union {Nil} /\ bootAlive' \subseteq BootRobots
  BY DEF Boot!Activate, Boot!PruneOne, BootTypes, Boot!TypeOK
<1>2. BootTypes' /\ Scripted' /\ Owed' = Owed
  BY <1>1 DEF BootTypes, Boot!TypeOK, Scripted, Owed, Boot!Rest
<1>3. NoneElse'
  BY <1>1, <1>2, NoneElseStep
<1>4. QED
  BY <1>2, <1>3

LEMMA BootInvInit == ASSUME Boot!DeskBootAssumption, Boot!Init PROVE BootInv
<1>1. BootTypes
  BY Apart, Lengths DEF Boot!Init, BootTypes, Boot!TypeOK, Boot!NoVault, Vaults, VaultScenes, Selected, Boot!Rest, Calls
<1>2. Scripted /\ NoneElse
  BY Apart DEF Boot!Init, Scripted, NoneElse, Boot!NoVault, Boot!Painted
<1>3. QED
  BY <1>1, <1>2 DEF BootInv

LEMMA BootInvStep == ASSUME Boot!DeskBootAssumption, BootInv, [Boot!Next]_(Boot!vars) PROVE BootInv'
<1>1. CASE UNCHANGED Boot!vars
  BY <1>1 DEF Boot!vars, BootInv, BootTypes, Boot!TypeOK, Scripted, NoneElse, Owed, FirstOk, ReturnOk, RunOk,
              ResetOk, PresetOk, Before, Restored
<1>2. CASE Boot!Step
  BY <1>2, LoadInv, MirrorInv, WriteShownInv, WriteCopyInv, KeepSessionInv, ClearInv, ReviveInv, OpenVaultInv,
     MarkInv, RememberInv, FinishInv DEF Boot!Step
<1>3. QED
  BY <1>1, <1>2, FirstBootInv, ReturnBootInv, RunTailInv, ResetDemoInv, StartPresetInv, OperatorInv,
     KillInv DEF Boot!Next

LEMMA BootInvariance == Boot!DeskBootAssumption => (Boot!Spec => []BootInv)
<1> SUFFICES ASSUME Boot!DeskBootAssumption PROVE Boot!Spec => []BootInv
  OBVIOUS
<1>1. Boot!Init => BootInv
  BY BootInvInit
<1>2. BootInv /\ [Boot!Next]_(Boot!vars) => BootInv'
  BY BootInvStep
<1>3. QED
  BY <1>1, <1>2, PTL DEF Boot!Spec

LEMMA BootedPromises == ASSUME Boot!DeskBootAssumption, BootInv PROVE Boot!BootPromises
<1> USE DEF BootInv
<1>1. SUFFICES ASSUME bootJob.todo = <<>>, bootJob.kind \in {"first", "return"} PROVE Boot!BootPromises
  BY DEF Boot!BootPromises, Boot!FirstOpenClean, Boot!NoLeftover, Boot!ReturnKeepsScene, Boot!ReturnRevives, Boot!Booted
<1>2. Len(bootJob.todo) = 0
  BY <1>1, Lengths
<1>3. ~Before(0) /\ ~Before(2) /\ ~Before(3) /\ ~Before(4) /\ ~Before(6)
  BY <1>2 DEF Before
<1>4. CASE bootJob.kind = "first"
  BY <1>3, <1>4, Kinds DEF Boot!BootPromises, Boot!FirstOpenClean, Boot!NoLeftover, Boot!ReturnKeepsScene, Boot!ReturnRevives,
                           Boot!Booted, FirstOk
<1>5. CASE bootJob.kind = "return"
  <2>1. ReturnOk
    BY <1>5, Kinds
  <2>2. Boot!FirstOpenClean /\ Boot!ReturnRevives
    BY <2>1, <1>3, <1>5 DEF Boot!FirstOpenClean, Boot!ReturnRevives, Boot!Booted, ReturnOk
  <2>3. Owed = {bootLastRun} \union bootLoose
    BY <1>5 DEF Owed
  <2>4. Boot!NoLeftover
    BY <2>3 DEF Boot!NoLeftover, NoneElse
  <2>5. Boot!ReturnKeepsScene
    <3>1. SUFFICES ASSUME bootLastRun \in BootScenes
                   PROVE  bootShown \in {bootLastRun} \union bootLoose
                                    \union (IF Boot!Clean \in bootLoose THEN {Boot!Plain} ELSE {})
      BY DEF Boot!ReturnKeepsScene
    <3>2. CASE bootJob.scene = Nil
      BY <3>1, <3>2, <2>1, <2>3, <1>3 DEF ReturnOk, NoneElse
    <3>3. CASE bootJob.scene # Nil
      BY <3>1, <3>3, <2>1, <1>3 DEF ReturnOk
    <3>4. QED
      BY <3>2, <3>3
  <2>6. QED
    BY <2>2, <2>4, <2>5 DEF Boot!BootPromises
<1>6. QED
  BY <1>1, <1>4, <1>5

THEOREM BootsKeepPromises == Boot!DeskBootAssumption => (Boot!Spec => []Boot!BootPromises)
<1> SUFFICES ASSUME Boot!DeskBootAssumption PROVE Boot!Spec => []Boot!BootPromises
  OBVIOUS
<1>1. BootInv => Boot!BootPromises
  BY BootedPromises
<1>2. QED
  BY <1>1, BootInvariance, PTL
-----------------------------------------------------------------------------
(***************************************************************************)
(* The composition: a behaviour of Files is a behaviour of each part, so   *)
(* what holds of a part alone holds of it there.                           *)
(***************************************************************************)

(* A step of the whole is a step of each part, or leaves it alone.         *)
LEMMA FilesSteps ==
  FilesNext \/ UNCHANGED AllVars =>
    [Next]_vars /\ [Desk!Next]_(Desk!vars) /\ [Boot!Next]_(Boot!vars)
BY DEF FilesNext, AllVars, deskVars, bootVars, Desk!vars, Boot!vars

LEMMA FilesIsParts == FilesSpec => Spec /\ Desk!Spec /\ Boot!Spec
<1>1. FilesInit => Init /\ Desk!Init /\ Boot!Init
  BY DEF FilesInit
<1>2. [FilesNext]_AllVars => [Next]_vars /\ [Desk!Next]_(Desk!vars) /\ [Boot!Next]_(Boot!vars)
  BY FilesSteps
<1>3. QED
  BY <1>1, <1>2, PTL DEF FilesSpec, Spec, Desk!Spec, Boot!Spec

LEMMA BootTypesHold == Boot!Spec => []Boot!TypeOK
<1>1. Boot!DeskBootAssumption
  BY FilesAssumption
<1>2. BootInv => Boot!TypeOK
  BY DEF BootInv, BootTypes
<1>3. QED
  BY <1>1, <1>2, BootInvariance, PTL

(* Every variable of the desk's files keeps its domain, whatever is        *)
(* replaced, attached, booted or killed.                                   *)
THEOREM FilesTypes == FilesSpec => []FilesTypeOK
<1>1. Desk!Spec => []Desk!TypeOK
  BY FilesAssumption, Desk!DeskTypes
<1>2. QED
  BY <1>1, FilesIsParts, FileTypes, BootTypesHold, PTL DEF FilesTypeOK

(* Whatever else the desk does, the body of an attached project is the one *)
(* its document, its file, its artifact and its fuse name                  *)
(* (robot_project_desk_v1, body_identity_v1).                              *)
THEOREM FilesAttested == FilesSpec => []Attested
<1>1. Desk!Spec => []Desk!Attested
  BY FilesAssumption, Desk!BodyIsAttested
<1>2. QED
  BY <1>1, FilesIsParts, PTL DEF Attested

(* Nothing a later request saves drops what an attach or a run put into    *)
(* project.json (_save_project).                                           *)
THEOREM FilesAttachKept == FilesSpec => []AttachKept
<1>1. Desk!Spec => []Desk!AttachKept
  BY FilesAssumption, Desk!AttachIsKept
<1>2. QED
  BY <1>1, FilesIsParts, PTL DEF AttachKept

(* No prune takes the active project away (prune_projects).                *)
THEOREM FilesActiveAlive == FilesSpec => []ActiveAlive
<1>1. Desk!Spec => []Desk!ActiveAlive
  BY FilesAssumption, Desk!ActiveIsAlive
<1>2. QED
  BY <1>1, FilesIsParts, PTL DEF ActiveAlive

(* A first visitor gets a clean desk and a returning one what they left,   *)
(* with the project they left it on, however many boots, runs and resets   *)
(* were killed between two of their writes (ensure_desk_boot,              *)
(* write_session, remember_scene).                                         *)
THEOREM VisitorPromisesKept == FilesSpec => []BootPromises
<1>1. Boot!Spec => []Boot!BootPromises
  BY FilesAssumption, BootsKeepPromises
<1>2. QED
  BY <1>1, FilesIsParts, PTL DEF BootPromises
=============================================================================
