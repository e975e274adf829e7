---------------------------- MODULE PartsProofs ----------------------------
(***************************************************************************)
(* Proofs about Parts, for any workers, run ids, workloads, worlds, caves  *)
(* and bounds: the experiment scheduler (Experiments, which Parts          *)
(* extends), the probe (the instance Field), the SLAM pipeline (the        *)
(* instance Cave) and the storm (the instance Sky); and then, with the     *)
(* theorems of the other instances, the composition.                       *)
(*                                                                         *)
(* Experiments: a run that validate_f2 accepts is a whole one, however     *)
(* chains, receipts and ladder files of different workers interleave and   *)
(* whoever is killed.                                                      *)
(*                                                                         *)
(* The inductive invariant says what a chain has left in its directory at  *)
(* each place of its script, that what is left of a script is a suffix of  *)
(* it, and that a directory belongs to one chain: whoever made it.         *)
(***************************************************************************)
EXTENDS Parts, Integers, FiniteSetTheorems, WellFoundedInduction, TLAPS

CallFields == {"kind", "todo", "key", "load", "out", "again", "seen"}
DirFields == {"there", "hops", "log", "state", "final", "manifest"}
ChainSteps == {"mkdir", "in1", "out1", "in2", "out2", "close", "state", "manifest", "whole"}
OtherSteps == {"json", "jsonFull", "md", "mdFull", "readIndex", "index", "indexFull",
               "ladder", "ladderFull", "parent", "child"}

(* The place in its script of the step a chain does next, from 1 to 9.     *)
Place(j) == 10 - Len(j.todo)

(* What a call has still to do: a chain the end of its script, any other   *)
(* call no step of a chain.                                                *)
CallOk(j) ==
    /\ DOMAIN j = CallFields
    /\ IF j.kind = "chain"
         THEN /\ j.key \in Runs /\ j.todo \in Seq(ChainSteps) /\ Len(j.todo) \in 1..9
              /\ \A i \in 1..Len(j.todo) : j.todo[i] = ChainScript[Place(j) + i - 1]
         ELSE j.todo \in Seq(OtherSteps)

(* What a chain that is at place n has left in its directory.              *)
Left(n, d) ==
    /\ d.there
    /\ d.hops = IF n <= 3 THEN 0 ELSE IF n <= 5 THEN 1 ELSE 2
    /\ n > 6 => d.log
    /\ n > 7 => d.state
    /\ d.manifest = IF n <= 8 THEN None ELSE "torn"

(* A chain past its mkdir owns its directory.                              *)
Owns(j, r) == j.kind = "chain" /\ j.key = r /\ Place(j) > 1

CallsOk == DOMAIN job = Workers /\ \A k \in Workers : CallOk(job[k])
DirsOk ==
    /\ DOMAIN dir = Runs
    /\ \A r \in Runs : DOMAIN dir[r] = DirFields /\ (~dir[r].there => dir[r] = NoDir)
Progress == \A k \in Workers, r \in Runs : Owns(job[k], r) => Left(Place(job[k]), dir[r])
OneOwner == \A k, o \in Workers, r \in Runs : Owns(job[k], r) /\ Owns(job[o], r) => k = o

Inv == CallsOk /\ DirsOk /\ Progress /\ OneOwner /\ AcceptedIsWhole

-----------------------------------------------------------------------------
LEMMA TailFacts ==
  ASSUME NEW S, NEW s \in Seq(S), s # <<>>
  PROVE  /\ Head(s) \in S /\ Head(s) = s[1]
         /\ Tail(s) \in Seq(S) /\ Len(Tail(s)) = Len(s) - 1 /\ Len(s) \in Nat \ {0}
         /\ \A i \in 1..Len(Tail(s)) : Tail(s)[i] = s[i + 1]
OBVIOUS

LEMMA Places ==
  ASSUME NEW n \in 1..9
  PROVE  1 \in 1..n /\ 10 - n \in 1..9 /\ (10 - n) + 1 - 1 = 10 - n /\ (10 - n < 9 => n \in 2..9)
OBVIOUS

LEMMA LongIsNotEmpty ==
  ASSUME NEW S, NEW s \in Seq(S), Len(s) # 0
  PROVE  s # <<>>
OBVIOUS

LEMMA ScriptPlaces ==
  /\ ChainScript \in Seq(ChainSteps) /\ Len(ChainScript) = 9
  /\ ChainScript[1] = "mkdir" /\ ChainScript[2] = "in1" /\ ChainScript[3] = "out1"
  /\ ChainScript[4] = "in2" /\ ChainScript[5] = "out2" /\ ChainScript[6] = "close"
  /\ ChainScript[7] = "state" /\ ChainScript[8] = "manifest" /\ ChainScript[9] = "whole"
BY DEF ChainScript, ChainSteps

(* A step of a chain is done by a chain, at its place in the script.       *)
LEMMA StepPlace ==
  ASSUME NEW k \in Workers, CallOk(job[k]), NEW s \in ChainSteps, At(k, s)
  PROVE  /\ job[k].kind = "chain" /\ Place(job[k]) \in 1..9
         /\ s = ChainScript[Place(job[k])]
<1> DEFINE j == job[k]
<1>1. j.todo # <<>> /\ Head(j.todo) = s
  BY DEF At
<1>2. CASE j.kind # "chain"
  <2>1. j.todo \in Seq(OtherSteps)
    BY <1>2 DEF CallOk
  <2>2. s \in OtherSteps
    BY <1>1, <2>1, TailFacts
  <2>3. QED
    BY <2>2 DEF ChainSteps, OtherSteps
<1>3. CASE j.kind = "chain"
  <2>1. /\ j.todo \in Seq(ChainSteps) /\ Len(j.todo) \in 1..9
        /\ \A i \in 1..Len(j.todo) : j.todo[i] = ChainScript[Place(j) + i - 1]
    BY <1>3 DEF CallOk
  <2>2. s = j.todo[1]
    BY <1>1, <2>1, TailFacts
  <2>3. 1 \in 1..Len(j.todo) /\ Place(j) \in 1..9 /\ Place(j) + 1 - 1 = Place(j)
    BY <2>1, Places DEF Place
  <2>4. j.todo[1] = ChainScript[Place(j) + 1 - 1]
    BY <2>1, <2>3
  <2>5. QED
    BY <1>3, <2>2, <2>3, <2>4
<1>4. QED
  BY <1>2, <1>3

LEMMA OtherStep ==
  ASSUME NEW k \in Workers, CallOk(job[k]), NEW s \in OtherSteps, At(k, s)
  PROVE  job[k].kind # "chain" /\ job[k].todo \in Seq(OtherSteps) /\ job[k].todo # <<>>
<1>1. job[k].todo # <<>> /\ Head(job[k].todo) = s
  BY DEF At
<1>2. CASE job[k].kind = "chain"
  <2>1. job[k].todo \in Seq(ChainSteps)
    BY <1>2 DEF CallOk
  <2>2. s \in ChainSteps
    BY <1>1, <2>1, TailFacts
  <2>3. QED
    BY <2>2 DEF ChainSteps, OtherSteps
<1>3. QED
  BY <1>1, <1>2 DEF CallOk

(* A step that is done leaves a shorter end of the script.                 *)
LEMMA PastOk ==
  ASSUME NEW j, CallOk(j), j.kind = "chain", Place(j) < 9,
         NEW next, DOMAIN next = CallFields, next.kind = "chain", next.key = j.key,
         next.todo = Tail(j.todo)
  PROVE  CallOk(next) /\ Place(next) = Place(j) + 1
<1>1. /\ j.key \in Runs /\ j.todo \in Seq(ChainSteps) /\ Len(j.todo) \in 1..9
      /\ \A i \in 1..Len(j.todo) : j.todo[i] = ChainScript[Place(j) + i - 1]
  BY DEF CallOk
<1>2. Len(j.todo) \in 2..9 /\ j.todo # <<>>
  <2>1. Len(j.todo) \in 2..9
    BY <1>1, Places DEF Place
  <2>2. Len(j.todo) # 0
    BY <2>1
  <2>3. QED
    BY <1>1, <2>1, <2>2, LongIsNotEmpty
<1>3. /\ next.todo \in Seq(ChainSteps) /\ Len(next.todo) = Len(j.todo) - 1
      /\ \A i \in 1..Len(next.todo) : next.todo[i] = j.todo[i + 1]
  BY <1>1, <1>2, TailFacts
<1>4. Place(next) = Place(j) + 1
  BY <1>1, <1>3 DEF Place
<1>5. ASSUME NEW i \in 1..Len(next.todo)
      PROVE  next.todo[i] = ChainScript[Place(next) + i - 1]
  <2>1. i + 1 \in 1..Len(j.todo) /\ Place(j) \in Int /\ i \in Int
    BY <1>2, <1>3 DEF Place
  <2>2. next.todo[i] = ChainScript[Place(j) + (i + 1) - 1]
    BY <1>1, <1>3, <2>1
  <2>3. Place(j) + (i + 1) - 1 = Place(next) + i - 1
    BY <1>4, <2>1
  <2>4. QED
    BY <2>2, <2>3
<1>6. QED
  BY <1>1, <1>2, <1>3, <1>4, <1>5 DEF CallOk

LEMMA IdleOk == CallOk(Idle) /\ \A r \in Runs : ~Owns(Idle, r)
<1>1. <<>> \in Seq(OtherSteps)
  OBVIOUS
<1>2. QED
  BY <1>1 DEF CallOk, Idle, Owns, CallFields

-----------------------------------------------------------------------------
(* A call that ends leaves the directories as they are.                    *)
LEMMA LeaveInv ==
  ASSUME Inv, NEW k \in Workers, Leave(k), UNCHANGED dir
  PROVE  Inv'
<1>1. /\ DOMAIN job' = Workers /\ job'[k] = Idle
      /\ \A o \in Workers \ {k} : job'[o] = job[o]
  BY DEF Leave, Inv, CallsOk
<1>2. CallsOk'
  BY <1>1, IdleOk DEF Inv, CallsOk
<1>3. \A o \in Workers, r \in Runs : Owns(job'[o], r) => Owns(job[o], r) /\ job'[o] = job[o]
  BY <1>1, IdleOk
<1>4. Progress' /\ OneOwner'
  BY <1>3 DEF Inv, Progress, OneOwner
<1>5. DirsOk' /\ AcceptedIsWhole'
  BY DEF Inv, DirsOk, AcceptedIsWhole
<1>6. QED
  BY <1>2, <1>4, <1>5 DEF Inv

(* A call that owns no directory, before and after its step.               *)
LEMMA OtherInv ==
  ASSUME Inv, NEW k \in Workers, UNCHANGED dir, DOMAIN job' = Workers,
         \A o \in Workers \ {k} : job'[o] = job[o],
         CallOk(job'[k]), \A r \in Runs : ~Owns(job'[k], r)
  PROVE  Inv'
<1>1. CallsOk'
  BY DEF Inv, CallsOk
<1>2. \A o \in Workers, r \in Runs : Owns(job'[o], r) => Owns(job[o], r) /\ job'[o] = job[o]
  OBVIOUS
<1>3. Progress' /\ OneOwner'
  BY <1>2 DEF Inv, Progress, OneOwner
<1>4. DirsOk' /\ AcceptedIsWhole'
  BY DEF Inv, DirsOk, AcceptedIsWhole
<1>5. QED
  BY <1>1, <1>3, <1>4 DEF Inv

(* A chain does the step at its place and goes on: it touches its own      *)
(* directory only, or one that nobody has made.                            *)
LEMMA ChainInv ==
  ASSUME ExperimentsAssumption, Inv, NEW k \in Workers, NEW r, r = job[k].key, NEW n \in 1..8,
         job[k].kind = "chain", n = Place(job[k]),
         n = 1 => ~dir[r].there,
         DOMAIN job' = Workers, \A o \in Workers \ {k} : job'[o] = job[o],
         DOMAIN job'[k] = CallFields, job'[k].kind = "chain", job'[k].key = r,
         job'[k].todo = Tail(job[k].todo),
         DOMAIN dir' = Runs, \A q \in Runs \ {r} : dir'[q] = dir[q],
         DOMAIN dir'[r] = DirFields, Left(n + 1, dir'[r])
  PROVE  Inv'
<1>1. CallOk(job'[k]) /\ Place(job'[k]) = n + 1 /\ r \in Runs
  <2>1. CallOk(job[k])
    BY DEF Inv, CallsOk
  <2>2. r \in Runs
    BY <2>1 DEF CallOk
  <2>3. QED
    BY <2>1, <2>2, PastOk
<1>2. CallsOk'
  BY <1>1 DEF Inv, CallsOk
<1>3. \A o \in Workers \ {k} : ~Owns(job[o], r)
  <2>1. CASE n = 1
    BY <2>1, <1>1 DEF Inv, Progress, Left
  <2>2. CASE n > 1
    BY <2>2, <1>1 DEF Inv, OneOwner, Owns
  <2>3. QED
    BY <2>1, <2>2
<1>4. dir'[r].there /\ dir'[r].manifest \in {None, "torn"}
  BY DEF Left
<1>5. DirsOk'
  BY <1>4 DEF Inv, DirsOk
<1>6. Progress'
  <2> SUFFICES ASSUME NEW o \in Workers, NEW q \in Runs, Owns(job'[o], q)
               PROVE  Left(Place(job'[o]), dir'[q])
    BY DEF Progress
  <2>1. CASE o = k
    BY <2>1, <1>1 DEF Owns
  <2>2. CASE o # k
    <3>1. job'[o] = job[o] /\ q # r
      BY <2>2, <1>3
    <3>2. QED
      BY <3>1 DEF Inv, Progress
  <2>3. QED
    BY <2>1, <2>2
<1>7. OneOwner'
  <2> SUFFICES ASSUME NEW o \in Workers, NEW p \in Workers, NEW q \in Runs,
                      Owns(job'[o], q), Owns(job'[p], q)
               PROVE  o = p
    BY DEF OneOwner
  <2>1. CASE o # k /\ p # k
    BY <2>1 DEF Inv, OneOwner
  <2>2. CASE o = k \/ p = k
    <3>1. q = r
      BY <2>2 DEF Owns
    <3>2. QED
      BY <2>2, <3>1, <1>3
  <2>3. QED
    BY <2>1, <2>2
<1>8. AcceptedIsWhole'
  <2> SUFFICES ASSUME NEW q \in Runs, dir'[q].manifest = "whole"
               PROVE  dir'[q].hops = 2 /\ dir'[q].log /\ dir'[q].state
    BY DEF AcceptedIsWhole
  <2>1. CASE q # r
    BY <2>1 DEF Inv, AcceptedIsWhole
  <2>2. CASE q = r
    BY <2>2, <1>4 DEF ExperimentsAssumption
  <2>3. QED
    BY <2>1, <2>2
<1>9. QED
  BY <1>2, <1>5, <1>6, <1>7, <1>8 DEF Inv

-----------------------------------------------------------------------------
(* Where a chain is that does a step, and what it finds in its directory.  *)
LEMMA Here ==
  ASSUME Inv, NEW k \in Workers, NEW s \in ChainSteps, At(k, s)
  PROVE  /\ job[k].kind = "chain" /\ job[k].key \in Runs
         /\ Place(job[k]) \in 1..9 /\ s = ChainScript[Place(job[k])]
         /\ Place(job[k]) > 1 => Left(Place(job[k]), dir[job[k].key])
         /\ DOMAIN job = Workers /\ DOMAIN job[k] = CallFields
         /\ DOMAIN dir = Runs /\ DOMAIN dir[job[k].key] = DirFields
<1>1. CallOk(job[k])
  BY DEF Inv, CallsOk
<1>2. /\ job[k].kind = "chain" /\ Place(job[k]) \in 1..9
      /\ s = ChainScript[Place(job[k])]
  BY <1>1, StepPlace
<1>3. job[k].key \in Runs /\ DOMAIN job[k] = CallFields
  BY <1>1, <1>2 DEF CallOk
<1>4. QED
  BY <1>2, <1>3 DEF Inv, CallsOk, DirsOk, Progress, Owns

LEMMA PlaceOfStep ==
  ASSUME NEW n \in 1..9, NEW s, s = ChainScript[n]
  PROVE  /\ s = "mkdir" => n = 1
         /\ s = "in1" => n = 2
         /\ s = "out1" => n = 3
         /\ s = "in2" => n = 4
         /\ s = "out2" => n = 5
         /\ s = "close" => n = 6
         /\ s = "state" => n = 7
         /\ s = "manifest" => n = 8
         /\ s = "whole" => n = 9
<1>1. n \in {1, 2, 3, 4, 5, 6, 7, 8, 9}
  OBVIOUS
<1>2. QED
  BY <1>1, ScriptPlaces

LEMMA MkdirInv ==
  ASSUME ExperimentsAssumption, Inv, NEW k \in Workers, Mkdir(k)
  PROVE  Inv'
<1> DEFINE r == job[k].key
<1>1. At(k, "mkdir") /\ "mkdir" \in ChainSteps
  BY DEF Mkdir, ChainSteps
<1>2. /\ job[k].kind = "chain" /\ r \in Runs /\ Place(job[k]) = 1
      /\ DOMAIN job = Workers /\ DOMAIN job[k] = CallFields
      /\ DOMAIN dir = Runs /\ DOMAIN dir[r] = DirFields
  BY <1>1, Here, PlaceOfStep
<1>3. CASE dir[r].there
  BY <1>3, LeaveInv DEF Mkdir, chainVars
<1>4. CASE ~dir[r].there
  <2>1. /\ dir' = [dir EXCEPT ![r].there = TRUE]
        /\ job' = [job EXCEPT ![k].todo = Tail(@)]
    BY <1>4 DEF Mkdir, Past
  <2>2. dir[r] = NoDir
    BY <1>2, <1>4 DEF Inv, DirsOk
  <2>3. DOMAIN dir' = Runs /\ DOMAIN dir'[r] = DirFields /\ Left(2, dir'[r])
    BY <1>2, <2>1, <2>2 DEF Left, NoDir, DirFields
  <2>4. /\ DOMAIN job' = Workers /\ DOMAIN job'[k] = CallFields
        /\ job'[k].kind = "chain" /\ job'[k].key = r /\ job'[k].todo = Tail(job[k].todo)
    BY <1>2, <2>1 DEF CallFields
  <2>5. /\ \A o \in Workers \ {k} : job'[o] = job[o]
        /\ \A q \in Runs \ {r} : dir'[q] = dir[q]
    BY <1>2, <2>1
  <2>6. QED
    BY <1>2, <1>4, <2>3, <2>4, <2>5, ChainInv
<1>5. QED
  BY <1>3, <1>4

LEMMA StageInInv ==
  ASSUME ExperimentsAssumption, Inv, NEW k \in Workers, StageIn(k)
  PROVE  Inv'
<1> DEFINE r == job[k].key
           n == Place(job[k])
<1>1. PICK s \in {"in1", "in2"} : At(k, s) /\ s \in ChainSteps
  BY DEF StageIn, ChainSteps
<1>2. /\ job[k].kind = "chain" /\ r \in Runs /\ n \in {2, 4} /\ Left(n, dir[r])
      /\ DOMAIN job = Workers /\ DOMAIN job[k] = CallFields
      /\ DOMAIN dir = Runs /\ DOMAIN dir[r] = DirFields
  BY <1>1, Here, PlaceOfStep
<1>3. dir' = dir /\ job' = [job EXCEPT ![k].todo = Tail(@)]
  BY DEF StageIn, Past
<1>4. Left(n + 1, dir'[r])
  BY <1>2, <1>3 DEF Left
<1>5. /\ DOMAIN job' = Workers /\ DOMAIN job'[k] = CallFields
      /\ job'[k].kind = "chain" /\ job'[k].key = r /\ job'[k].todo = Tail(job[k].todo)
  BY <1>2, <1>3 DEF CallFields
<1>6. \A o \in Workers \ {k} : job'[o] = job[o]
  BY <1>2, <1>3
<1>7. n \in 1..8 /\ n # 1
  BY <1>2
<1>8. QED
  BY <1>2, <1>3, <1>4, <1>5, <1>6, <1>7, ChainInv

LEMMA StageOutInv ==
  ASSUME ExperimentsAssumption, Inv, NEW k \in Workers, StageOut(k)
  PROVE  Inv'
<1> DEFINE r == job[k].key
           n == Place(job[k])
<1>1. PICK s \in {"out1", "out2"} : At(k, s) /\ s \in ChainSteps
  BY DEF StageOut, ChainSteps
<1>2. /\ job[k].kind = "chain" /\ r \in Runs /\ n \in {3, 5} /\ Left(n, dir[r])
      /\ DOMAIN job = Workers /\ DOMAIN job[k] = CallFields
      /\ DOMAIN dir = Runs /\ DOMAIN dir[r] = DirFields
  BY <1>1, Here, PlaceOfStep
<1>3. CASE Leave(k) /\ UNCHANGED dir
  BY <1>3, LeaveInv
<1>4. ASSUME NEW out, dir' = [dir EXCEPT ![r].hops = @ + 1],
             job' = [Past(k) EXCEPT ![k].out = out]
      PROVE  Inv'
  <2>1. DOMAIN dir' = Runs /\ DOMAIN dir'[r] = DirFields /\ Left(n + 1, dir'[r])
    BY <1>2, <1>4 DEF Left, DirFields
  <2>2. /\ DOMAIN job' = Workers /\ DOMAIN job'[k] = CallFields
        /\ job'[k].kind = "chain" /\ job'[k].key = r /\ job'[k].todo = Tail(job[k].todo)
    BY <1>2, <1>4 DEF CallFields, Past
  <2>3. /\ \A o \in Workers \ {k} : job'[o] = job[o]
        /\ \A q \in Runs \ {r} : dir'[q] = dir[q]
    BY <1>2, <1>4 DEF Past
  <2>4. n \in 1..8 /\ n # 1
    BY <1>2
  <2>5. QED
    BY <1>2, <2>1, <2>2, <2>3, <2>4, ChainInv
<1>5. (Leave(k) /\ UNCHANGED dir) \/ \E out : /\ dir' = [dir EXCEPT ![r].hops = @ + 1]
                                              /\ job' = [Past(k) EXCEPT ![k].out = out]
  BY Zenon DEF StageOut, chainVars
<1>6. QED
  BY <1>3, <1>4, <1>5

LEMMA CloseLogInv ==
  ASSUME ExperimentsAssumption, Inv, NEW k \in Workers, CloseLog(k)
  PROVE  Inv'
<1> DEFINE r == job[k].key
<1>1. At(k, "close") /\ "close" \in ChainSteps
  BY DEF CloseLog, ChainSteps
<1>2. /\ job[k].kind = "chain" /\ r \in Runs /\ Place(job[k]) = 6 /\ Left(6, dir[r])
      /\ DOMAIN job = Workers /\ DOMAIN job[k] = CallFields
      /\ DOMAIN dir = Runs /\ DOMAIN dir[r] = DirFields
  BY <1>1, Here, PlaceOfStep
<1>3. dir' = [dir EXCEPT ![r].log = TRUE] /\ job' = [job EXCEPT ![k].todo = Tail(@)]
  BY DEF CloseLog, Past
<1>4. DOMAIN dir' = Runs /\ DOMAIN dir'[r] = DirFields /\ Left(7, dir'[r])
  BY <1>2, <1>3 DEF Left, DirFields
<1>5. /\ DOMAIN job' = Workers /\ DOMAIN job'[k] = CallFields
      /\ job'[k].kind = "chain" /\ job'[k].key = r /\ job'[k].todo = Tail(job[k].todo)
  BY <1>2, <1>3 DEF CallFields
<1>6. /\ \A o \in Workers \ {k} : job'[o] = job[o]
      /\ \A q \in Runs \ {r} : dir'[q] = dir[q]
  BY <1>2, <1>3
<1>7. QED
  BY <1>2, <1>4, <1>5, <1>6, ChainInv

LEMMA WriteStateInv ==
  ASSUME ExperimentsAssumption, Inv, NEW k \in Workers, WriteState(k)
  PROVE  Inv'
<1> DEFINE r == job[k].key
<1>1. At(k, "state") /\ "state" \in ChainSteps
  BY DEF WriteState, ChainSteps
<1>2. /\ job[k].kind = "chain" /\ r \in Runs /\ Place(job[k]) = 7 /\ Left(7, dir[r])
      /\ DOMAIN job = Workers /\ DOMAIN job[k] = CallFields
      /\ DOMAIN dir = Runs /\ DOMAIN dir[r] = DirFields
  BY <1>1, Here, PlaceOfStep
<1>3. /\ dir' = [dir EXCEPT ![r].state = TRUE, ![r].final = job[k].out]
      /\ job' = [job EXCEPT ![k].todo = Tail(@)]
  BY DEF WriteState, Past
<1>4. DOMAIN dir' = Runs /\ DOMAIN dir'[r] = DirFields /\ Left(8, dir'[r])
  BY <1>2, <1>3 DEF Left, DirFields
<1>5. /\ DOMAIN job' = Workers /\ DOMAIN job'[k] = CallFields
      /\ job'[k].kind = "chain" /\ job'[k].key = r /\ job'[k].todo = Tail(job[k].todo)
  BY <1>2, <1>3 DEF CallFields
<1>6. /\ \A o \in Workers \ {k} : job'[o] = job[o]
      /\ \A q \in Runs \ {r} : dir'[q] = dir[q]
  BY <1>2, <1>3
<1>7. QED
  BY <1>2, <1>4, <1>5, <1>6, ChainInv

LEMMA OpenManifestInv ==
  ASSUME ExperimentsAssumption, Inv, NEW k \in Workers, OpenManifest(k)
  PROVE  Inv'
<1> DEFINE r == job[k].key
<1>1. At(k, "manifest") /\ "manifest" \in ChainSteps
  BY DEF OpenManifest, ChainSteps
<1>2. /\ job[k].kind = "chain" /\ r \in Runs /\ Place(job[k]) = 8 /\ Left(8, dir[r])
      /\ DOMAIN job = Workers /\ DOMAIN job[k] = CallFields
      /\ DOMAIN dir = Runs /\ DOMAIN dir[r] = DirFields
  BY <1>1, Here, PlaceOfStep
<1>3. dir' = [dir EXCEPT ![r].manifest = "torn"] /\ job' = [job EXCEPT ![k].todo = Tail(@)]
  BY DEF OpenManifest, Past
<1>4. DOMAIN dir' = Runs /\ DOMAIN dir'[r] = DirFields /\ Left(9, dir'[r])
  BY <1>2, <1>3 DEF Left, DirFields
<1>5. /\ DOMAIN job' = Workers /\ DOMAIN job'[k] = CallFields
      /\ job'[k].kind = "chain" /\ job'[k].key = r /\ job'[k].todo = Tail(job[k].todo)
  BY <1>2, <1>3 DEF CallFields
<1>6. /\ \A o \in Workers \ {k} : job'[o] = job[o]
      /\ \A q \in Runs \ {r} : dir'[q] = dir[q]
  BY <1>2, <1>3
<1>7. QED
  BY <1>2, <1>4, <1>5, <1>6, ChainInv

(* The manifest is filled by the one chain that owns the directory, whose  *)
(* other files are there.                                                  *)
LEMMA FillManifestInv ==
  ASSUME ExperimentsAssumption, Inv, NEW k \in Workers, FillManifest(k)
  PROVE  Inv'
<1> DEFINE r == job[k].key
<1>1. At(k, "whole") /\ "whole" \in ChainSteps
  BY DEF FillManifest, ChainSteps
<1>2. /\ job[k].kind = "chain" /\ r \in Runs /\ Place(job[k]) = 9 /\ Left(9, dir[r])
      /\ DOMAIN job = Workers /\ DOMAIN dir = Runs /\ DOMAIN dir[r] = DirFields
  BY <1>1, Here, PlaceOfStep
<1>3. dir' = [dir EXCEPT ![r].manifest = "whole"] /\ job' = [job EXCEPT ![k] = Idle]
  BY DEF FillManifest, Leave
<1>4. /\ DOMAIN dir' = Runs /\ DOMAIN dir'[r] = DirFields /\ dir'[r].there
      /\ dir'[r].hops = 2 /\ dir'[r].log /\ dir'[r].state
      /\ \A q \in Runs \ {r} : dir'[q] = dir[q]
  BY <1>2, <1>3 DEF Left, DirFields
<1>5. /\ DOMAIN job' = Workers /\ job'[k] = Idle
      /\ \A o \in Workers \ {k} : job'[o] = job[o]
  BY <1>2, <1>3
<1>6. CallsOk'
  BY <1>5, IdleOk DEF Inv, CallsOk
<1>7. DirsOk' /\ AcceptedIsWhole'
  BY <1>4 DEF Inv, DirsOk, AcceptedIsWhole
<1>8. \A o \in Workers, q \in Runs : Owns(job'[o], q) => Owns(job[o], q) /\ job'[o] = job[o] /\ o # k
  BY <1>5, IdleOk
<1>9. OneOwner'
  BY <1>8 DEF Inv, OneOwner
<1>10. Owns(job[k], r)
  BY <1>2 DEF Owns
<1>11. Progress'
  BY <1>2, <1>4, <1>8, <1>10 DEF Inv, Progress, OneOwner
<1>12. QED
  BY <1>6, <1>7, <1>9, <1>11 DEF Inv

-----------------------------------------------------------------------------
(* A step of a receipt's or a ladder's writer leaves a call of its kind.   *)
LEMMA WriterInv ==
  ASSUME Inv, NEW k \in Workers, NEW s \in OtherSteps, At(k, s), UNCHANGED dir,
         NEW next, job' = [job EXCEPT ![k] = next], DOMAIN next = CallFields,
         next.kind = job[k].kind,
         next.todo = Tail(job[k].todo) \/ next.todo \in Seq(OtherSteps)
  PROVE  Inv'
<1>1. CallOk(job[k]) /\ DOMAIN job = Workers
  BY DEF Inv, CallsOk
<1>2. job[k].kind # "chain" /\ job[k].todo \in Seq(OtherSteps) /\ job[k].todo # <<>>
  BY <1>1, OtherStep
<1>3. next.todo \in Seq(OtherSteps)
  BY <1>2, TailFacts
<1>4. CallOk(next) /\ \A r \in Runs : ~Owns(next, r)
  BY <1>2, <1>3 DEF CallOk, Owns
<1>5. /\ DOMAIN job' = Workers /\ job'[k] = next
      /\ \A o \in Workers \ {k} : job'[o] = job[o]
  BY <1>1
<1>6. QED
  BY <1>4, <1>5, OtherInv

LEMMA PastWriterInv ==
  ASSUME Inv, NEW k \in Workers, NEW s \in OtherSteps, At(k, s), UNCHANGED dir,
         job' = Past(k)
  PROVE  Inv'
<1> DEFINE next == [job[k] EXCEPT !.todo = Tail(@)]
<1>1. DOMAIN job[k] = CallFields
  BY DEF Inv, CallsOk, CallOk
<1>2. /\ DOMAIN next = CallFields /\ next.kind = job[k].kind
      /\ next.todo = Tail(job[k].todo)
  BY <1>1 DEF CallFields
<1>3. job' = [job EXCEPT ![k] = next]
  BY DEF Past
<1> HIDE DEF next
<1>4. QED
  BY <1>2, <1>3, WriterInv

LEMMA WriterSteps ==
  /\ LadderScript \in Seq(OtherSteps) /\ WriteScript \in Seq(OtherSteps)
  /\ <<"parent">> \o LadderScript \in Seq(OtherSteps)
  /\ LadderScript \o <<"child">> \in Seq(OtherSteps)
<1>1. <<"parent">> \in Seq(OtherSteps) /\ <<"child">> \in Seq(OtherSteps)
  BY DEF OtherSteps
<1>2. LadderScript \in Seq(OtherSteps)
  BY DEF LadderScript, OtherSteps
<1>3. WriteScript \in Seq(OtherSteps)
  BY DEF WriteScript, OtherSteps
<1>4. QED
  BY <1>1, <1>2, <1>3

LEMMA LadderInv ==
  ASSUME Inv, NEW k \in Workers,
         Parent(k) \/ Child(k) \/ OpenLadder(k) \/ FillLadder(k)
  PROVE  Inv'
<1> USE DEF chainVars
<1>1. CASE Parent(k)
  <2>1. At(k, "parent") /\ "parent" \in OtherSteps /\ UNCHANGED dir
    BY <1>1 DEF Parent, OtherSteps
  <2>2. CASE job' = Past(k)
    BY <2>1, <2>2, PastWriterInv
  <2>3. CASE Leave(k)
    BY <2>1, <2>3, LeaveInv
  <2>4. CASE job' = [job EXCEPT ![k].key = "v2", ![k].todo = LadderScript \o <<"child">> \o @]
    <3> DEFINE next == [job[k] EXCEPT !.key = "v2", !.todo = LadderScript \o <<"child">> \o @]
    <3>1. DOMAIN job[k] = CallFields /\ DOMAIN job = Workers
      BY DEF Inv, CallsOk, CallOk
    <3>2. job[k].todo \in Seq(OtherSteps)
      BY <2>1, OtherStep DEF Inv, CallsOk
    <3>3. LadderScript \o <<"child">> \o job[k].todo \in Seq(OtherSteps)
      BY <3>2, WriterSteps
    <3>4. DOMAIN next = CallFields /\ next.kind = job[k].kind /\ next.todo \in Seq(OtherSteps)
      BY <3>1, <3>3 DEF CallFields
    <3>5. job' = [job EXCEPT ![k] = next]
      BY <2>4, <3>1 DEF CallFields
    <3> HIDE DEF next
    <3>6. QED
      BY <2>1, <3>4, <3>5, WriterInv
  <2>5. QED
    BY <1>1, <2>2, <2>3, <2>4 DEF Parent
<1>2. CASE Child(k)
  <2> DEFINE next == [job[k] EXCEPT !.todo = Tail(@), !.key = "v3"]
  <2>1. At(k, "child") /\ "child" \in OtherSteps /\ UNCHANGED dir
    BY <1>2 DEF Child, OtherSteps
  <2>2. DOMAIN job[k] = CallFields /\ DOMAIN job = Workers
    BY DEF Inv, CallsOk, CallOk
  <2>3. /\ DOMAIN next = CallFields /\ next.kind = job[k].kind
        /\ next.todo = Tail(job[k].todo)
    BY <2>2 DEF CallFields
  <2>4. job' = [job EXCEPT ![k] = next]
    BY <1>2, <2>2 DEF Child, Past, CallFields
  <2> HIDE DEF next
  <2>5. QED
    BY <2>1, <2>3, <2>4, WriterInv
<1>3. CASE OpenLadder(k)
  <2>1. At(k, "ladder") /\ "ladder" \in OtherSteps /\ UNCHANGED dir /\ job' = Past(k)
    BY <1>3 DEF OpenLadder, OtherSteps
  <2>2. QED
    BY <2>1, PastWriterInv
<1>4. CASE FillLadder(k)
  <2>1. At(k, "ladderFull") /\ "ladderFull" \in OtherSteps /\ UNCHANGED dir
    BY <1>4 DEF FillLadder, OtherSteps
  <2>2. Leave(k) \/ job' = Past(k)
    BY <1>4 DEF FillLadder
  <2>3. QED
    BY <2>1, <2>2, LeaveInv, PastWriterInv
<1>5. QED
  BY <1>1, <1>2, <1>3, <1>4

LEMMA StoreInv ==
  ASSUME Inv, NEW k \in Workers,
         \/ OpenReceipt(k) \/ FillReceipt(k) \/ WriteCompanion(k)
         \/ ReadIndex(k) \/ OpenIndex(k) \/ FillIndex(k)
  PROVE  Inv'
<1> USE DEF chainVars, OtherSteps
<1>1. CASE OpenReceipt(k)
  <2>1. At(k, "json") /\ UNCHANGED dir /\ (Leave(k) \/ job' = Past(k))
    BY <1>1 DEF OpenReceipt
  <2>2. QED
    BY <2>1, LeaveInv, PastWriterInv
<1>2. CASE FillReceipt(k)
  <2>1. At(k, "jsonFull") /\ UNCHANGED dir /\ job' = Past(k)
    BY <1>2 DEF FillReceipt
  <2>2. QED
    BY <2>1, PastWriterInv
<1>3. CASE WriteCompanion(k)
  <2>1. (At(k, "md") \/ At(k, "mdFull")) /\ UNCHANGED dir /\ job' = Past(k)
    BY <1>3 DEF WriteCompanion
  <2>2. QED
    BY <2>1, PastWriterInv
<1>4. CASE ReadIndex(k)
  <2> DEFINE next == [job[k] EXCEPT !.todo = Tail(@), !.seen = index.ids]
  <2>1. At(k, "readIndex") /\ "readIndex" \in OtherSteps /\ UNCHANGED dir
    BY <1>4 DEF ReadIndex
  <2>2. DOMAIN job[k] = CallFields /\ DOMAIN job = Workers
    BY DEF Inv, CallsOk, CallOk
  <2>3. /\ DOMAIN next = CallFields /\ next.kind = job[k].kind
        /\ next.todo = Tail(job[k].todo)
    BY <2>2 DEF CallFields
  <2>4. Leave(k) \/ job' = [job EXCEPT ![k] = next]
    BY <1>4, <2>2 DEF ReadIndex, Past, CallFields
  <2> HIDE DEF next
  <2>5. CASE Leave(k)
    BY <2>1, <2>5, LeaveInv
  <2>6. CASE job' = [job EXCEPT ![k] = next]
    BY <2>1, <2>3, <2>6, WriterInv
  <2>7. QED
    BY <2>4, <2>5, <2>6
<1>5. CASE OpenIndex(k)
  <2>1. At(k, "index") /\ UNCHANGED dir /\ job' = Past(k)
    BY <1>5 DEF OpenIndex
  <2>2. QED
    BY <2>1, PastWriterInv
<1>6. CASE FillIndex(k)
  <2>1. UNCHANGED dir /\ Leave(k)
    BY <1>6 DEF FillIndex
  <2>2. QED
    BY <2>1, LeaveInv
<1>7. QED
  BY <1>1, <1>2, <1>3, <1>4, <1>5, <1>6

-----------------------------------------------------------------------------
(* A call is made: its script is whole, and it owns nothing yet.           *)
LEMMA CallInv ==
  ASSUME Inv, NEW k \in Workers, NEW call, Call(k, call), CallOk(call),
         \A r \in Runs : ~Owns(call, r)
  PROVE  Inv'
<1>1. DOMAIN job = Workers /\ job' = [job EXCEPT ![k] = call] /\ UNCHANGED dir
  BY DEF Inv, CallsOk, Call, chainVars
<1>2. /\ DOMAIN job' = Workers /\ job'[k] = call
      /\ \A o \in Workers \ {k} : job'[o] = job[o]
  BY <1>1
<1>3. QED
  BY <1>1, <1>2, OtherInv

LEMMA CallsInv ==
  ASSUME Inv, NEW k \in Workers,
         \/ \E r \in Runs, w \in Workloads : RunChain(k, r, w)
         \/ \E i \in Ids, s \in Statuses, o \in BOOLEAN : WriteReceipt(k, i, s, o)
         \/ \E l \in Ladders : WriteLadder(k, l)
  PROVE  Inv'
<1>1. ASSUME NEW r \in Runs, NEW w \in Workloads, RunChain(k, r, w)
      PROVE  Inv'
  <2> DEFINE call == [Idle EXCEPT !.kind = "chain", !.todo = ChainScript, !.key = r, !.load = w]
  <2>1. /\ DOMAIN call = CallFields /\ call.kind = "chain" /\ call.key = r
        /\ call.todo = ChainScript
    BY DEF Idle, CallFields
  <2>2. Call(k, call)
    BY <1>1 DEF RunChain
  <2> HIDE DEF call
  <2>3. call.todo \in Seq(ChainSteps) /\ Len(call.todo) = 9 /\ Place(call) = 1
    BY <2>1, ScriptPlaces DEF Place
  <2>4. \A i \in 1..Len(call.todo) : call.todo[i] = ChainScript[Place(call) + i - 1]
    BY <2>1, <2>3
  <2>5. CallOk(call) /\ \A q \in Runs : ~Owns(call, q)
    BY <2>1, <2>3, <2>4 DEF CallOk, Owns
  <2>6. QED
    BY <2>2, <2>5, CallInv
<1>2. ASSUME NEW i \in Ids, NEW s \in Statuses, NEW o \in BOOLEAN, WriteReceipt(k, i, s, o)
      PROVE  Inv'
  <2> DEFINE call == [Idle EXCEPT !.kind = "write", !.todo = WriteScript, !.key = i, !.out = s,
                                  !.again = o]
  <2>1. DOMAIN call = CallFields /\ call.kind = "write" /\ call.todo = WriteScript
    BY DEF Idle, CallFields
  <2>2. Call(k, call)
    BY <1>2 DEF WriteReceipt
  <2> HIDE DEF call
  <2>3. CallOk(call) /\ \A q \in Runs : ~Owns(call, q)
    BY <2>1, WriterSteps DEF CallOk, Owns
  <2>4. QED
    BY <2>2, <2>3, CallInv
<1>3. ASSUME NEW l \in Ladders, WriteLadder(k, l)
      PROVE  Inv'
  <2> DEFINE call == [Idle EXCEPT !.kind = "ladder", !.key = l,
                                  !.todo = IF l = "v3" THEN <<"parent">> \o LadderScript
                                                       ELSE LadderScript]
  <2>1. /\ DOMAIN call = CallFields /\ call.kind = "ladder"
        /\ call.todo \in {<<"parent">> \o LadderScript, LadderScript}
    BY DEF Idle, CallFields
  <2>2. Call(k, call)
    BY <1>3 DEF WriteLadder
  <2> HIDE DEF call
  <2>3. CallOk(call) /\ \A q \in Runs : ~Owns(call, q)
    BY <2>1, WriterSteps DEF CallOk, Owns
  <2>4. QED
    BY <2>2, <2>3, CallInv
<1>4. QED
  BY <1>1, <1>2, <1>3

LEMMA InvInit ==
  ASSUME ExperimentsAssumption, Init
  PROVE  Inv
<1>1. /\ job = [k \in Workers |-> Idle] /\ dir = [r \in Runs |-> NoDir]
  BY DEF Init
<1>2. CallsOk /\ Progress /\ OneOwner
  BY <1>1, IdleOk DEF CallsOk, Progress, OneOwner
<1>3. DOMAIN NoDir = DirFields /\ NoDir.manifest = None
  BY DEF NoDir, DirFields
<1>4. DirsOk
  BY <1>1, <1>3 DEF DirsOk
<1>5. QED
  BY <1>1, <1>2, <1>3, <1>4 DEF Inv, AcceptedIsWhole, ExperimentsAssumption

LEMMA InvStep ==
  ASSUME ExperimentsAssumption, Inv, [Next]_vars
  PROVE  Inv'
<1>1. CASE UNCHANGED vars
  BY <1>1 DEF vars, Inv, CallsOk, DirsOk, Progress, OneOwner, AcceptedIsWhole
<1>2. ASSUME NEW k \in Workers, Step(k)
      PROVE  Inv'
  <2>1. CASE Mkdir(k) \/ StageIn(k) \/ StageOut(k)
    BY <2>1, MkdirInv, StageInInv, StageOutInv
  <2>2. CASE CloseLog(k) \/ WriteState(k) \/ OpenManifest(k) \/ FillManifest(k)
    BY <2>2, CloseLogInv, WriteStateInv, OpenManifestInv, FillManifestInv
  <2>3. CASE Parent(k) \/ Child(k) \/ OpenLadder(k) \/ FillLadder(k)
    BY <2>3, LadderInv
  <2>4. CASE \/ OpenReceipt(k) \/ FillReceipt(k) \/ WriteCompanion(k)
             \/ ReadIndex(k) \/ OpenIndex(k) \/ FillIndex(k)
    BY <2>4, StoreInv
  <2>5. QED
    BY <1>2, <2>1, <2>2, <2>3, <2>4 DEF Step
<1>3. ASSUME NEW k \in Workers, Kill(k)
      PROVE  Inv'
  BY <1>3, LeaveInv DEF Kill, chainVars
<1>4. QED
  BY <1>1, <1>2, <1>3, CallsInv DEF Next

(* However chains, receipts and ladder files of different workers          *)
(* interleave, collide in a run id, raise or are killed: a run directory   *)
(* with a whole manifest, which is what validate_f2 looks at, has both     *)
(* hand-offs, its log and its state (scheduler.run_chain).                 *)
THEOREM AcceptedRunsAreWhole ==
  ExperimentsAssumption => (Spec => []AcceptedIsWhole)
<1> SUFFICES ASSUME ExperimentsAssumption
             PROVE  Spec => []AcceptedIsWhole
  OBVIOUS
<1>1. Init => Inv
  BY InvInit
<1>2. Inv /\ [Next]_vars => Inv'
  BY InvStep
<1>3. Inv => AcceptedIsWhole
  BY DEF Inv
<1>4. QED
  BY <1>1, <1>2, <1>3, PTL DEF Spec

-----------------------------------------------------------------------------
(***************************************************************************)
(* What a call carries: a chain the outcome its stages gave, a write the   *)
(* status of its receipt; and every file in its domain.                    *)
(***************************************************************************)
W1 == <<"json", "jsonFull", "md", "mdFull", "readIndex", "index", "indexFull">>
W2 == <<"jsonFull", "md", "mdFull", "readIndex", "index", "indexFull">>
W3 == <<"md", "mdFull", "readIndex", "index", "indexFull">>
W4 == <<"mdFull", "readIndex", "index", "indexFull">>
W5 == <<"readIndex", "index", "indexFull">>
W6 == <<"index", "indexFull">>
W7 == <<"indexFull">>
WriteTodo == {W1, W2, W3, W4, W5, W6, W7}

L1 == <<"ladder", "ladderFull", "child", "parent", "ladder", "ladderFull">>
L2 == <<"ladderFull", "child", "parent", "ladder", "ladderFull">>
L3 == <<"child", "parent", "ladder", "ladderFull">>
L4 == <<"parent", "ladder", "ladderFull">>
L5 == <<"ladder", "ladderFull">>
L6 == <<"ladderFull">>
LadderTodo == {L1, L2, L3, L4, L5, L6}

Fits(j) ==
    /\ j.kind \in {"idle", "chain", "write", "ladder"}
    /\ j.kind = "idle" => j = Idle
    /\ j.kind = "write" => j.todo \in WriteTodo /\ j.key \in Ids /\ j.out \in Statuses
                            /\ j.seen \subseteq Ids
    /\ j.kind = "ladder" => j.todo \in LadderTodo /\ j.key \in Ladders
    /\ j.kind = "chain" =>
          /\ j.load \in Workload
          /\ Place(j) \in {4, 5} => j.out = Undetermined(SpAf(j.load))
          /\ Place(j) > 5 => j.out \in Outcome /\ Earned(j.load, j.out)

CallsFit == \A k \in Workers : Fits(job[k])

Kept == Inv /\ CallsFit /\ TypeOK

-----------------------------------------------------------------------------
(***************************************************************************)
(* One call at a time: what a chain left for the next reader.              *)
(***************************************************************************)
Alone == \A k, o \in Workers : job[k].kind # "idle" /\ job[o].kind # "idle" => k = o

Asymmetric == \A a, b \in Runs : <<a, b>> \in newer => <<b, a>> \notin newer

(* A chain about to fill its manifest has the newest directory with one.   *)
PendingNewest ==
    \A k \in Workers : job[k].kind = "chain" /\ Place(job[k]) = 9 => Newest(job[k].key)

Pending(q) == \E k \in Workers : Owns(job[k], q) /\ Place(job[k]) = 9

LastFound ==
    last # None =>
        \/ Newest(last)
        \/ \E q \in Runs : /\ Newest(q) /\ dir[q].manifest = "torn"
                           /\ kills > 0 \/ Pending(q)

(* What a write of a receipt has done, and what the index lists.           *)
Writes(j) ==
    j.kind = "write" =>
        /\ j.todo # W1 => j.key \notin filed
        /\ j.todo \in {W3, W4, W5, W6, W7} => json[j.key] = j.out
        /\ j.todo \in {W5, W6, W7} => md[j.key] = j.out
        /\ j.todo \in {W6, W7} => filed \subseteq j.seen

Listing ==
    /\ \A i \in filed : json[i] \in Statuses /\ md[i] = json[i]
    /\ index.file = None => filed = {}
    /\ index.file = "whole" => filed \subseteq index.ids
    /\ index.file = "torn" =>
          kills > 0 \/ \E k \in Workers : job[k].kind = "write" /\ job[k].todo = W7
    /\ \A k \in Workers : Writes(job[k])

Serial == ~tangled => Alone /\ PendingNewest /\ LastFound /\ Listing
-----------------------------------------------------------------------------
LEMMA WriteTails ==
  /\ Tail(W1) = W2 /\ Tail(W2) = W3 /\ Tail(W3) = W4 /\ Tail(W4) = W5
  /\ Tail(W5) = W6 /\ Tail(W6) = W7
  /\ Head(W1) = "json" /\ Head(W2) = "jsonFull" /\ Head(W3) = "md" /\ Head(W4) = "mdFull"
  /\ Head(W5) = "readIndex" /\ Head(W6) = "index" /\ Head(W7) = "indexFull"
  /\ W7 # <<>>
BY DEF W1, W2, W3, W4, W5, W6, W7

LEMMA LadderTails ==
  /\ Tail(L1) = L2 /\ Tail(L2) = L3 /\ Tail(L3) = L4 /\ Tail(L4) = L5 /\ Tail(L5) = L6
  /\ Head(L1) = "ladder" /\ Head(L2) = "ladderFull" /\ Head(L3) = "child"
  /\ Head(L4) = "parent" /\ Head(L5) = "ladder" /\ Head(L6) = "ladderFull"
  /\ Len(L2) # 1 /\ Len(L6) = 1
BY DEF L1, L2, L3, L4, L5, L6

LEMMA Joined ==
  ASSUME NEW S, NEW s \in Seq(S), NEW t \in Seq(S), NEW u \in Seq(S),
         Len(u) = Len(s) + Len(t), \A i \in 1..Len(s) : u[i] = s[i],
         \A i \in 1..Len(t) : u[Len(s) + i] = t[i]
  PROVE  s \o t = u
<1>1. s \o t \in Seq(S) /\ Len(s \o t) = Len(s) + Len(t)
  OBVIOUS
<1>2. \A i \in 1..(Len(s) + Len(t)) : (s \o t)[i] = IF i <= Len(s) THEN s[i] ELSE t[i - Len(s)]
  OBVIOUS
<1>3. ASSUME NEW i \in 1..(Len(s) + Len(t)) PROVE u[i] = (s \o t)[i]
  <2>1. CASE i <= Len(s)
    BY <1>2, <2>1
  <2>2. CASE i > Len(s)
    <3>1. i - Len(s) \in 1..Len(t) /\ Len(s) + (i - Len(s)) = i
      BY <2>2
    <3>2. QED
      BY <1>2, <2>2, <3>1
  <2>3. QED
    BY <2>1, <2>2
<1>4. QED
  BY <1>1, <1>3

LEMMA LadderScripts ==
  /\ LadderScript = L5 /\ <<"parent">> \o LadderScript = L4
  /\ LadderScript \o <<"child">> \o L4 = L1
<1> DEFINE p == <<"parent">>
           c == <<"child">>
           m == <<"ladder", "ladderFull", "child">>
<1>1. /\ p \in Seq(OtherSteps) /\ c \in Seq(OtherSteps) /\ m \in Seq(OtherSteps)
      /\ L1 \in Seq(OtherSteps) /\ L4 \in Seq(OtherSteps) /\ L5 \in Seq(OtherSteps)
  BY DEF L1, L4, L5, OtherSteps
<1>2. /\ Len(p) = 1 /\ Len(c) = 1 /\ Len(m) = 3 /\ Len(L1) = 6 /\ Len(L4) = 3 /\ Len(L5) = 2
      /\ p[1] = "parent" /\ c[1] = "child"
      /\ m[1] = "ladder" /\ m[2] = "ladderFull" /\ m[3] = "child"
      /\ L4[1] = "parent" /\ L4[2] = "ladder" /\ L4[3] = "ladderFull"
      /\ L5[1] = "ladder" /\ L5[2] = "ladderFull"
      /\ L1[1] = "ladder" /\ L1[2] = "ladderFull" /\ L1[3] = "child"
      /\ L1[4] = "parent" /\ L1[5] = "ladder" /\ L1[6] = "ladderFull"
  BY DEF L1, L4, L5
<1> HIDE DEF p, c, m
<1>3. /\ \A i \in 1..1 : i = 1
      /\ \A i \in 1..2 : i \in {1, 2}
      /\ \A i \in 1..3 : i \in {1, 2, 3}
  OBVIOUS
<1>4. p \o L5 = L4
  <2>1. /\ Len(L4) = Len(p) + Len(L5)
        /\ \A i \in 1..Len(p) : L4[i] = p[i]
        /\ \A i \in 1..Len(L5) : L4[Len(p) + i] = L5[i]
    BY <1>2, <1>3
  <2>2. QED
    BY <1>1, <2>1, Joined
<1>5. L5 \o c = m
  <2>1. /\ Len(m) = Len(L5) + Len(c)
        /\ \A i \in 1..Len(L5) : m[i] = L5[i]
        /\ \A i \in 1..Len(c) : m[Len(L5) + i] = c[i]
    BY <1>2, <1>3
  <2>2. QED
    BY <1>1, <2>1, Joined
<1>6. m \o L4 = L1
  <2>1. /\ Len(L1) = Len(m) + Len(L4)
        /\ \A i \in 1..Len(m) : L1[i] = m[i]
        /\ \A i \in 1..Len(L4) : L1[Len(m) + i] = L4[i]
    BY <1>2, <1>3
  <2>2. QED
    BY <1>1, <2>1, Joined
<1>7. LadderScript = L5
  BY DEF LadderScript, L5
<1>8. QED
  BY <1>4, <1>5, <1>6, <1>7 DEF p, c

(* The step a writer does says what is left of its script.                 *)
LEMMA WriteAt ==
  ASSUME NEW t \in WriteTodo
  PROVE  /\ Head(t) = "json" => t = W1
         /\ Head(t) = "jsonFull" => t = W2
         /\ Head(t) = "md" => t = W3
         /\ Head(t) = "mdFull" => t = W4
         /\ Head(t) = "readIndex" => t = W5
         /\ Head(t) = "index" => t = W6
         /\ Head(t) = "indexFull" => t = W7
         /\ Head(t) \in {"json", "jsonFull", "md", "mdFull", "readIndex", "index", "indexFull"}
BY WriteTails DEF WriteTodo

LEMMA LadderAt ==
  ASSUME NEW t \in LadderTodo
  PROVE  /\ Head(t) = "parent" => t = L4
         /\ Head(t) = "child" => t = L3
         /\ Head(t) = "ladder" => t \in {L1, L5}
         /\ Head(t) = "ladderFull" => t \in {L2, L6}
         /\ Head(t) \in {"parent", "child", "ladder", "ladderFull"}
BY LadderTails DEF LadderTodo

(* A step of the store or of the ladders is done by a call of that kind.   *)
LEMMA WriterAt ==
  ASSUME Inv, CallsFit, NEW k \in Workers,
         NEW s \in {"json", "jsonFull", "md", "mdFull", "readIndex", "index", "indexFull"}, At(k, s)
  PROVE  /\ job[k].kind = "write" /\ job[k].todo \in WriteTodo /\ Head(job[k].todo) = s
         /\ job[k].key \in Ids /\ job[k].out \in Statuses
<1>1. s \in OtherSteps /\ job[k].todo # <<>> /\ Head(job[k].todo) = s
  BY DEF OtherSteps, At
<1>2. job[k].kind # "chain"
  BY <1>1, OtherStep DEF Inv, CallsOk
<1>3. job[k].kind # "idle"
  BY <1>1 DEF CallsFit, Fits, Idle
<1>4. job[k].kind # "ladder"
  BY <1>1, LadderAt DEF CallsFit, Fits
<1>5. QED
  BY <1>1, <1>2, <1>3, <1>4 DEF CallsFit, Fits

LEMMA LadderWriterAt ==
  ASSUME Inv, CallsFit, NEW k \in Workers,
         NEW s \in {"parent", "child", "ladder", "ladderFull"}, At(k, s)
  PROVE  /\ job[k].kind = "ladder" /\ job[k].todo \in LadderTodo /\ Head(job[k].todo) = s
         /\ job[k].key \in Ladders
<1>1. s \in OtherSteps /\ job[k].todo # <<>> /\ Head(job[k].todo) = s
  BY DEF OtherSteps, At
<1>2. job[k].kind # "chain"
  BY <1>1, OtherStep DEF Inv, CallsOk
<1>3. job[k].kind # "idle"
  BY <1>1 DEF CallsFit, Fits, Idle
<1>4. job[k].kind # "write"
  BY <1>1, WriteAt DEF CallsFit, Fits
<1>5. QED
  BY <1>1, <1>2, <1>3, <1>4 DEF CallsFit, Fits

(* Stage B judges what it may judge: the verdict is earned.                *)
LEMMA BtiEarned ==
  ASSUME ExperimentsAssumption, NEW w \in Workload, NEW file, Bti(w, SpAf(w), file) # Raised
  PROVE  /\ Bti(w, SpAf(w), file) \in Outcome
         /\ Earned(w, Bti(w, SpAf(w), file))
<1> DEFINE spaf == SpAf(w)
           drift == IF w.cal \in Ladders /\ file = None THEN None ELSE Calibrated(w)
           out == [oracle |-> IF drift = None THEN "PROXY_STRUCTURE" ELSE OracleOf(w),
                   drift |-> drift, verdict |-> Verdict(w, drift)]
<1>1. /\ w.given \in BOOLEAN /\ w.guard \in BOOLEAN /\ w.n \in Signs /\ w.f \in Signs
      /\ w.vgs \in Signs /\ w.cal \in {"none", "hci", "v1", "v2"} /\ w.drift \in {"low", "high"}
  BY DEF Workload
<1>2. spaf \in {"INPUT_MISSING", "INPUT_INVALID", "PROXY_STRUCTURE"}
  BY DEF SpAf
<1>3. CASE spaf = "INPUT_MISSING"
  <2>1. Bti(w, SpAf(w), file) = Undetermined("BLOCKED_UPSTREAM")
    BY <1>3 DEF Bti
  <2>2. QED
    BY <2>1 DEF Undetermined, Outcome, Oracles, Earned
<1>4. CASE spaf # "INPUT_MISSING"
  <2>1. ~(StageRaises(w) \/ file = "torn") /\ Bti(w, SpAf(w), file) = out
    BY <1>4 DEF Bti
  <2>2. drift \in {None, w.drift}
    BY <1>1 DEF Calibrated, Anchor, Kinetic, Operating
  <2>3. Verdict(w, drift) \in {"UNDETERMINED", "PASS", "FAIL"}
    BY DEF Verdict
  <2>4. OracleOf(w) \in {"CITED_ANCHOR_SCALE", "INPUT_INVALID", "NMP_ODE_LADDER"}
    BY DEF OracleOf
  <2>5. out \in Outcome
    BY <1>1, <2>2, <2>3, <2>4 DEF Outcome, Oracles
  <2>6. ASSUME Verdict(w, drift) # "UNDETERMINED"
        PROVE  /\ w.given /\ w.guard /\ w.cal # "none" /\ drift = w.drift
               /\ SpAf(w) = "INPUT_INVALID" =>
                    ((w.n < 0 /\ w.f < 0) \/ (w.n = 0 /\ w.cal = "v2"))
    <3>1. w.guard /\ drift # None
      BY <1>1, <2>2, <2>6 DEF Verdict, ExperimentsAssumption
    <3>2. w.given
      BY <1>1, <1>4 DEF SpAf
    <3>3. drift = Calibrated(w) /\ drift = w.drift
      BY <2>2, <3>1
    <3>4. w.cal # "none"
      BY <3>1, <3>3 DEF Calibrated
    <3>5. w.cal # "v2" => Time(w) > 0
      BY <1>1, <3>1, <3>3 DEF Calibrated, Anchor, Kinetic, Time, Signs
    <3>6. w.f # 0 /\ Time(w) >= 0
      BY <1>1, <2>1 DEF StageRaises, Time, Signs
    <3>7. w.n \in {-1, 0, 1} /\ w.f \in {-1, 0, 1} /\ Time(w) = w.n * w.f
      BY <1>1 DEF Signs, Time
    <3>8. SpAf(w) = "INPUT_INVALID" => w.f <= 0 \/ w.n <= 0
      BY <3>2 DEF SpAf
    <3>9. QED
      BY <3>1, <3>2, <3>3, <3>4, <3>5, <3>6, <3>7, <3>8
  <2> HIDE DEF drift
  <2>7. Earned(w, out)
    BY <2>6 DEF Earned
  <2>8. QED
    BY <2>1, <2>5, <2>7
<1>5. QED
  BY <1>3, <1>4

LEMMA UndeterminedEarned ==
  ASSUME NEW w, NEW oracle \in Oracles
  PROVE  Undetermined(oracle) \in Outcome /\ Earned(w, Undetermined(oracle))
BY DEF Undetermined, Outcome, Oracles, Earned
LEMMA IdleFits == Fits(Idle)
BY DEF Fits, Idle

LEMMA NextFits ==
  ASSUME Inv, CallsFit, NEW k \in Workers, NEW next, job' = [job EXCEPT ![k] = next], Fits(next)
  PROVE  CallsFit'
BY DEF Inv, CallsOk, CallsFit

LEMMA LeaveFits ==
  ASSUME Inv, CallsFit, NEW k \in Workers, Leave(k)
  PROVE  CallsFit'
BY NextFits, IdleFits DEF Leave

(* A chain's step that keeps its outcome.                                  *)
LEMMA ChainKeepsFit ==
  ASSUME Inv, CallsFit, NEW k \in Workers, NEW s \in ChainSteps, At(k, s), job' = Past(k),
         Place(job[k]) \notin {3, 5, 9}
  PROVE  CallsFit'
<1> DEFINE next == [job[k] EXCEPT !.todo = Tail(@)]
<1>1. /\ CallOk(job[k]) /\ job[k].kind = "chain" /\ Place(job[k]) \in 1..9
      /\ DOMAIN job[k] = CallFields
  BY Here DEF Inv, CallsOk
<1>2. /\ DOMAIN next = CallFields /\ next.kind = "chain" /\ next.key = job[k].key
      /\ next.todo = Tail(job[k].todo) /\ next.load = job[k].load /\ next.out = job[k].out
  BY <1>1 DEF CallFields
<1>3. job' = [job EXCEPT ![k] = next]
  BY DEF Past
<1> HIDE DEF next
<1>4. Place(next) = Place(job[k]) + 1
  BY <1>1, <1>2, PastOk
<1>5. Place(next) \in {4, 5} => Place(job[k]) \in {4, 5}
  BY <1>1, <1>4
<1>6. Place(next) > 5 => Place(job[k]) > 5
  BY <1>1, <1>4
<1>7. Fits(next)
  BY <1>1, <1>2, <1>5, <1>6 DEF CallsFit, Fits
<1>8. QED
  BY <1>3, <1>7, NextFits

LEMMA ScriptNames ==
  /\ "mkdir" \in ChainSteps /\ "in1" \in ChainSteps /\ "out1" \in ChainSteps
  /\ "in2" \in ChainSteps /\ "out2" \in ChainSteps /\ "close" \in ChainSteps
  /\ "state" \in ChainSteps /\ "manifest" \in ChainSteps /\ "whole" \in ChainSteps
BY DEF ChainSteps

LEMMA TouchedType ==
  ASSUME TypeOK, NEW r \in Runs
  PROVE  Touched(r) \subseteq Runs \X Runs
BY DEF Touched, TypeOK

(* A step that leaves the counters, the store and the ladders alone.       *)
LEMMA ChainTyped ==
  ASSUME TypeOK, UNCHANGED <<storeVars, ladder, countVars>>,
         dir' \in [Runs -> Directory], newer' \subseteq Runs \X Runs, last' \in Runs \union {None}
  PROVE  TypeOK'
BY DEF TypeOK, storeVars, countVars

(* A run's directory stays one when one of its files is written.           *)
LEMMA DirMade ==
  ASSUME NEW d \in Directory
  PROVE  [d EXCEPT !.there = TRUE] \in Directory
BY DEF Directory

LEMMA LogClosed ==
  ASSUME NEW d \in Directory
  PROVE  [d EXCEPT !.log = TRUE] \in Directory
BY DEF Directory

LEMMA TwoFields ==
  ASSUME NEW f \in [Runs -> Directory], NEW r \in Runs, NEW out \in Outcome
  PROVE  [f EXCEPT ![r].state = TRUE, ![r].final = out] \in [Runs -> Directory]
<1> DEFINE g == [f EXCEPT ![r].state = TRUE]
<1>1. g \in [Runs -> Directory]
  <2>1. [f[r] EXCEPT !.state = TRUE] \in Directory
    BY DEF Directory
  <2>2. QED
    BY <2>1
<1>2. [g EXCEPT ![r].final = out] \in [Runs -> Directory]
  <2> HIDE DEF g
  <2>1. [g[r] EXCEPT !.final = out] \in Directory
    BY <1>1 DEF Directory
  <2>2. QED
    BY <1>1, <2>1
<1>3. QED
  BY <1>2, Zenon

LEMMA ManifestWritten ==
  ASSUME NEW d \in Directory, NEW m \in {"torn", "whole"}
  PROVE  [d EXCEPT !.manifest = m] \in Directory
BY DEF Directory

LEMMA DirTyped ==
  ASSUME TypeOK, NEW r \in Runs, NEW d \in Directory, dir' = [dir EXCEPT ![r] = d]
  PROVE  dir' \in [Runs -> Directory]
BY DEF TypeOK

LEMMA MkdirKept ==
  ASSUME Kept, NEW k \in Workers, Mkdir(k)
  PROVE  CallsFit' /\ TypeOK'
<1> DEFINE r == job[k].key
<1>1. /\ At(k, "mkdir") /\ job[k].kind = "chain" /\ r \in Runs /\ Place(job[k]) = 1
  BY Here, PlaceOfStep, ScriptNames DEF Mkdir, Kept
<1>2. CASE dir[r].there
  <2>1. Leave(k) /\ UNCHANGED <<chainVars, storeVars, ladder, countVars>>
    BY <1>2 DEF Mkdir
  <2>2. QED
    BY <2>1, LeaveFits, ChainTyped DEF Kept, chainVars, TypeOK
<1>3. CASE ~dir[r].there
  <2>1. /\ dir' = [dir EXCEPT ![r].there = TRUE] /\ newer' = Touched(r) /\ job' = Past(k)
        /\ UNCHANGED last /\ UNCHANGED <<storeVars, ladder, countVars>>
    BY <1>3 DEF Mkdir
  <2>2. dir' \in [Runs -> Directory]
    <3>1. [dir[r] EXCEPT !.there = TRUE] \in Directory
      BY <1>1, DirMade DEF Kept, TypeOK
    <3>2. QED
      BY <1>1, <2>1, <3>1, DirTyped DEF Kept
  <2>3. newer' \subseteq Runs \X Runs /\ last' \in Runs \union {None}
    BY <1>1, <2>1, TouchedType DEF Kept, TypeOK
  <2>4. QED
    BY <1>1, <2>1, <2>2, <2>3, ChainKeepsFit, ChainTyped, ScriptNames DEF Kept
<1>4. QED
  BY <1>2, <1>3

LEMMA StageInKept ==
  ASSUME Kept, NEW k \in Workers, StageIn(k)
  PROVE  CallsFit' /\ TypeOK'
<1> DEFINE r == job[k].key
<1>1. PICK s \in {"in1", "in2"} : At(k, s)
  BY DEF StageIn
<1>2. r \in Runs /\ Place(job[k]) \in {2, 4} /\ s \in ChainSteps
  BY <1>1, Here, PlaceOfStep, ScriptNames DEF Kept
<1>3. newer' = Touched(r) /\ job' = Past(k) /\ UNCHANGED <<dir, last, storeVars, ladder, countVars>>
  BY DEF StageIn
<1>4. newer' \subseteq Runs \X Runs
  BY <1>2, <1>3, TouchedType DEF Kept
<1>5. Place(job[k]) \notin {3, 5, 9}
  BY <1>2
<1>6. CallsFit'
  BY <1>1, <1>2, <1>3, <1>5, ChainKeepsFit DEF Kept
<1>7. TypeOK'
  BY <1>3, <1>4, ChainTyped DEF Kept, TypeOK
<1>8. QED
  BY <1>6, <1>7

LEMMA StageOutKept ==
  ASSUME ExperimentsAssumption, Kept, NEW k \in Workers, StageOut(k)
  PROVE  CallsFit' /\ TypeOK'
<1> DEFINE r == job[k].key
           w == job[k].load
           file == IF w.cal \in Ladders THEN ladder[w.cal] ELSE None
           out == IF At(k, "out1") THEN Undetermined(SpAf(w)) ELSE Bti(w, job[k].out.oracle, file)
           next == [job[k] EXCEPT !.todo = Tail(@), !.out = out]
<1>1. PICK s \in {"out1", "out2"} : At(k, s)
  BY DEF StageOut
<1>2. /\ s \in ChainSteps /\ r \in Runs /\ job[k].kind = "chain"
      /\ s = "out1" => Place(job[k]) = 3
      /\ s = "out2" => Place(job[k]) = 5
      /\ Left(Place(job[k]), dir[r]) /\ Place(job[k]) \in {3, 5}
      /\ DOMAIN job[k] = CallFields /\ CallOk(job[k])
  BY <1>1, Here, PlaceOfStep, ScriptNames DEF Kept, Inv, CallsOk
<1>3. s = "out1" <=> At(k, "out1")
  BY <1>1 DEF At
<1>4. w \in Workload /\ (Place(job[k]) = 5 => job[k].out = Undetermined(SpAf(w)))
  BY <1>2 DEF Kept, CallsFit, Fits
<1>5. IF out = Raised THEN Leave(k) /\ UNCHANGED chainVars
      ELSE /\ dir' = [dir EXCEPT ![r].hops = @ + 1] /\ newer' = Touched(r)
           /\ job' = [Past(k) EXCEPT ![k].out = out] /\ UNCHANGED last
  BY Zenon DEF StageOut
<1>6. UNCHANGED <<storeVars, ladder, countVars>>
  BY DEF StageOut
<1>7. SpAf(w) \in Oracles
  BY DEF SpAf, Oracles
<1>8. /\ out # Raised => out \in Outcome /\ Earned(w, out)
      /\ Place(job[k]) = 3 => out = Undetermined(SpAf(w))
  <2>1. CASE s = "out1"
    <3>1. out = Undetermined(SpAf(w))
      BY <1>3, <2>1
    <3>2. QED
      BY <3>1, <1>7, UndeterminedEarned
  <2>2. CASE s = "out2"
    <3>1. job[k].out.oracle = SpAf(w)
      BY <1>2, <1>4, <2>2 DEF Undetermined
    <3>2. out = Bti(w, SpAf(w), file)
      BY <1>1, <1>3, <2>2, <3>1
    <3> HIDE DEF file, out, w
    <3>3. QED
      BY <1>2, <1>4, <2>2, <3>2, BtiEarned
  <2>3. QED
    BY <2>1, <2>2
<1>9. CASE out = Raised
  BY <1>5, <1>6, <1>9, LeaveFits, ChainTyped DEF Kept, chainVars, TypeOK
<1>10. CASE out # Raised
  <2>1. /\ dir' = [dir EXCEPT ![r].hops = @ + 1] /\ newer' = Touched(r)
        /\ job' = [Past(k) EXCEPT ![k].out = out] /\ UNCHANGED last
    BY <1>5, <1>10
  <2>2. out \in Outcome /\ Earned(w, out) /\ (Place(job[k]) = 3 => out = Undetermined(SpAf(w)))
    BY <1>8, <1>10
  <2> HIDE DEF out
  <2>3. /\ DOMAIN next = CallFields /\ next.kind = "chain" /\ next.key = r
        /\ next.todo = Tail(job[k].todo) /\ next.load = w /\ next.out = out
    BY <1>2 DEF CallFields
  <2>4. job' = [job EXCEPT ![k] = next]
    BY <1>2, <2>1 DEF Past, CallFields, Kept, Inv, CallsOk
  <2> HIDE DEF next
  <2>5. Place(next) = Place(job[k]) + 1
    BY <1>2, <2>3, PastOk
  <2>6. Fits(next)
    BY <1>2, <1>4, <2>2, <2>3, <2>5 DEF Fits
  <2>7. CallsFit'
    BY <2>4, <2>6, NextFits DEF Kept
  <2>8. dir[r].hops \in {0, 1}
    BY <1>2 DEF Left
  <2>9. dir' \in [Runs -> Directory]
    BY <1>2, <2>1, <2>8 DEF Kept, TypeOK, Directory
  <2>10. newer' \subseteq Runs \X Runs /\ last' \in Runs \union {None}
    BY <1>2, <2>1, TouchedType DEF Kept, TypeOK
  <2>11. QED
    BY <1>6, <2>7, <2>9, <2>10, ChainTyped DEF Kept
<1>11. QED
  BY <1>9, <1>10

LEMMA CloseLogKept ==
  ASSUME Kept, NEW k \in Workers, CloseLog(k)
  PROVE  CallsFit' /\ TypeOK'
<1> DEFINE r == job[k].key
<1>1. /\ At(k, "close") /\ r \in Runs /\ Place(job[k]) = 6
  BY Here, PlaceOfStep, ScriptNames DEF CloseLog, Kept
<1>2. /\ dir' = [dir EXCEPT ![r].log = TRUE]
      /\ job' = Past(k) /\ UNCHANGED <<newer, last, storeVars, ladder, countVars>>
  BY DEF CloseLog
<1>3. [dir[r] EXCEPT !.log = TRUE] \in Directory
  BY <1>1, LogClosed DEF Kept, TypeOK
<1>4. dir' \in [Runs -> Directory]
  BY <1>1, <1>2, <1>3, DirTyped DEF Kept
<1>5. QED
  BY <1>1, <1>2, <1>4, ChainKeepsFit, ChainTyped, ScriptNames DEF Kept, TypeOK

LEMMA WriteStateKept ==
  ASSUME Kept, NEW k \in Workers, WriteState(k)
  PROVE  CallsFit' /\ TypeOK'
<1> DEFINE r == job[k].key
<1>1. At(k, "state") /\ r \in Runs /\ Place(job[k]) = 7 /\ job[k].kind = "chain"
  BY Here, PlaceOfStep, ScriptNames DEF WriteState, Kept
<1>2. /\ dir' = [dir EXCEPT ![r].state = TRUE, ![r].final = job[k].out] /\ newer' = Touched(r)
      /\ job' = Past(k) /\ UNCHANGED <<last, storeVars, ladder, countVars>>
  BY DEF WriteState
<1>3. job[k].out \in Outcome
  BY <1>1 DEF Kept, CallsFit, Fits
<1>4. dir' \in [Runs -> Directory]
  BY <1>1, <1>2, <1>3, TwoFields DEF Kept, TypeOK
<1>5. newer' \subseteq Runs \X Runs
  BY <1>1, <1>2, TouchedType DEF Kept
<1>6. QED
  BY <1>1, <1>2, <1>4, <1>5, ChainKeepsFit, ChainTyped, ScriptNames DEF Kept, TypeOK

LEMMA OpenManifestKept ==
  ASSUME Kept, NEW k \in Workers, OpenManifest(k)
  PROVE  CallsFit' /\ TypeOK'
<1> DEFINE r == job[k].key
<1>1. At(k, "manifest") /\ r \in Runs /\ Place(job[k]) = 8
  BY Here, PlaceOfStep, ScriptNames DEF OpenManifest, Kept
<1>2. /\ dir' = [dir EXCEPT ![r].manifest = "torn"] /\ newer' = Touched(r)
      /\ job' = Past(k) /\ UNCHANGED <<last, storeVars, ladder, countVars>>
  BY DEF OpenManifest
<1>3. dir' \in [Runs -> Directory]
  <2>1. [dir[r] EXCEPT !.manifest = "torn"] \in Directory
    BY <1>1, ManifestWritten DEF Kept, TypeOK
  <2>2. QED
    BY <1>1, <1>2, <2>1, DirTyped DEF Kept
<1>4. newer' \subseteq Runs \X Runs
  BY <1>1, <1>2, TouchedType DEF Kept
<1>5. QED
  BY <1>1, <1>2, <1>3, <1>4, ChainKeepsFit, ChainTyped, ScriptNames DEF Kept, TypeOK

LEMMA FillManifestKept ==
  ASSUME Kept, NEW k \in Workers, FillManifest(k)
  PROVE  CallsFit' /\ TypeOK'
<1> DEFINE r == job[k].key
<1>1. At(k, "whole") /\ r \in Runs
  BY Here, ScriptNames DEF FillManifest, Kept
<1>2. /\ dir' = [dir EXCEPT ![r].manifest = "whole"] /\ last' = r
      /\ Leave(k) /\ UNCHANGED <<newer, storeVars, ladder, countVars>>
  BY DEF FillManifest
<1>3. dir' \in [Runs -> Directory]
  <2>1. [dir[r] EXCEPT !.manifest = "whole"] \in Directory
    BY <1>1, ManifestWritten DEF Kept, TypeOK
  <2>2. QED
    BY <1>1, <1>2, <2>1, DirTyped DEF Kept
<1>4. QED
  BY <1>1, <1>2, <1>3, LeaveFits, ChainTyped DEF Kept, TypeOK
(* A step of a ladder's writer.                                            *)
LEMMA LadderNextFits ==
  ASSUME Inv, CallsFit, NEW k \in Workers, NEW next, job' = [job EXCEPT ![k] = next],
         next.kind = "ladder", next.todo \in LadderTodo, next.key \in Ladders
  PROVE  CallsFit'
<1>1. Fits(next)
  BY DEF Fits
<1>2. QED
  BY <1>1, NextFits

LEMMA LadderTyped ==
  ASSUME TypeOK, UNCHANGED <<chainVars, storeVars, countVars>>,
         ladder' \in [Ladders -> {None, "torn", "whole"}]
  PROVE  TypeOK'
BY DEF TypeOK, chainVars, storeVars, countVars

LEMMA LaddersAlone ==
  ASSUME TypeOK, UNCHANGED <<chainVars, storeVars, ladder, countVars>>
  PROVE  TypeOK'
BY DEF TypeOK, chainVars, storeVars, countVars

LEMMA LaddersKept ==
  ASSUME Kept, NEW k \in Workers,
         Parent(k) \/ Child(k) \/ OpenLadder(k) \/ FillLadder(k)
  PROVE  CallsFit' /\ TypeOK'
<1> DEFINE past == [job[k] EXCEPT !.todo = Tail(@)]
<1>1. DOMAIN job[k] = CallFields /\ DOMAIN job = Workers /\ Inv /\ CallsFit /\ TypeOK
  BY DEF Kept, Inv, CallsOk, CallOk
<1>2. /\ past.kind = job[k].kind /\ past.key = job[k].key /\ past.todo = Tail(job[k].todo)
      /\ Past(k) = [job EXCEPT ![k] = past]
  BY <1>1 DEF CallFields, Past
<1> HIDE DEF past
<1>3. CASE Parent(k)
  <2>1. /\ job[k].kind = "ladder" /\ job[k].key \in Ladders /\ job[k].todo = L4
        /\ UNCHANGED <<chainVars, storeVars, ladder, countVars>>
    BY <1>1, <1>3, LadderWriterAt, LadderAt DEF Parent
  <2>2. TypeOK'
    BY <1>1, <2>1, LaddersAlone
  <2>3. CASE job' = Past(k)
    <3>1. past.todo \in LadderTodo
      BY <1>2, <2>1, LadderTails DEF LadderTodo
    <3>2. past.kind = "ladder" /\ past.key \in Ladders /\ job' = [job EXCEPT ![k] = past]
      BY <1>2, <2>1, <2>3
    <3>3. CallsFit'
      BY <1>1, <3>1, <3>2, LadderNextFits
    <3>4. QED
      BY <2>2, <3>3
  <2>4. CASE Leave(k)
    BY <1>1, <2>2, <2>4, LeaveFits
  <2>5. CASE job' = [job EXCEPT ![k].key = "v2", ![k].todo = LadderScript \o <<"child">> \o @]
    <3> DEFINE next == [job[k] EXCEPT !.key = "v2", !.todo = LadderScript \o <<"child">> \o @]
    <3>1. next.kind = "ladder" /\ next.todo = L1 /\ next.key = "v2"
      BY <1>1, <2>1, LadderScripts DEF CallFields
    <3>2. job' = [job EXCEPT ![k] = next]
      BY <1>1, <2>5 DEF CallFields
    <3> HIDE DEF next
    <3>3. next.key \in Ladders /\ next.todo \in LadderTodo
      BY <3>1 DEF Ladders, LadderTodo
    <3>4. CallsFit'
      BY <1>1, <3>1, <3>2, <3>3, LadderNextFits
    <3>5. QED
      BY <2>2, <3>4
  <2>6. QED
    BY <1>3, <2>3, <2>4, <2>5 DEF Parent
<1>4. CASE Child(k)
  <2> DEFINE next == [job[k] EXCEPT !.todo = Tail(@), !.key = "v3"]
  <2>1. /\ job[k].kind = "ladder" /\ job[k].todo = L3
        /\ UNCHANGED <<chainVars, storeVars, ladder, countVars>>
    BY <1>1, <1>4, LadderWriterAt, LadderAt DEF Child
  <2>2. next.kind = "ladder" /\ next.todo = L4 /\ next.key = "v3"
    BY <1>1, <2>1, LadderTails DEF CallFields
  <2>3. job' = [job EXCEPT ![k] = next]
    BY <1>1, <1>4 DEF Child, Past, CallFields
  <2> HIDE DEF next
  <2>4. next.key \in Ladders /\ next.todo \in LadderTodo
    BY <2>2 DEF Ladders, LadderTodo
  <2>5. CallsFit'
    BY <1>1, <2>2, <2>3, <2>4, LadderNextFits
  <2>6. TypeOK'
    BY <1>1, <2>1, LaddersAlone
  <2>7. QED
    BY <2>5, <2>6
<1>5. CASE OpenLadder(k)
  <2>1. /\ job[k].kind = "ladder" /\ job[k].key \in Ladders /\ job[k].todo \in {L1, L5}
        /\ UNCHANGED <<chainVars, storeVars, countVars>> /\ job' = Past(k)
        /\ ladder' = [ladder EXCEPT ![job[k].key] = "torn"]
    BY <1>1, <1>5, LadderWriterAt, LadderAt DEF OpenLadder
  <2>2. Tail(job[k].todo) \in {L2, L6}
    BY <2>1, LadderTails
  <2>3. TypeOK'
    BY <1>1, <2>1, LadderTyped DEF TypeOK
  <2>4. QED
    BY <1>1, <1>2, <2>1, <2>2, <2>3, LadderNextFits DEF LadderTodo
<1>6. CASE FillLadder(k)
  <2>1. /\ job[k].kind = "ladder" /\ job[k].key \in Ladders /\ job[k].todo \in {L2, L6}
        /\ UNCHANGED <<chainVars, storeVars, countVars>>
        /\ ladder' = [ladder EXCEPT ![job[k].key] = "whole"]
        /\ IF Len(job[k].todo) = 1 THEN Leave(k) ELSE job' = Past(k)
    BY <1>1, <1>6, LadderWriterAt, LadderAt DEF FillLadder
  <2>2. TypeOK'
    BY <1>1, <2>1, LadderTyped DEF TypeOK
  <2>3. CASE Leave(k)
    BY <1>1, <2>2, <2>3, LeaveFits
  <2>4. CASE job[k].todo = L2 /\ job' = Past(k)
    <3>1. past.todo = L3 /\ past.kind = "ladder" /\ past.key \in Ladders /\ L3 \in LadderTodo
      BY <1>2, <2>1, <2>4, LadderTails DEF LadderTodo
    <3>2. QED
      BY <1>1, <1>2, <2>2, <2>4, <3>1, LadderNextFits
  <2>5. QED
    BY <2>1, <2>3, <2>4, LadderTails
<1>7. QED
  BY <1>3, <1>4, <1>5, <1>6

(* A step of a receipt's writer.                                           *)
LEMMA WriteNextFits ==
  ASSUME Inv, CallsFit, NEW k \in Workers, NEW next, job' = [job EXCEPT ![k] = next],
         next.kind = "write", next.todo \in WriteTodo, next.key \in Ids, next.out \in Statuses,
         next.seen \subseteq Ids
  PROVE  CallsFit'
<1>1. Fits(next)
  BY DEF Fits
<1>2. QED
  BY <1>1, NextFits

LEMMA WritePastFits ==
  ASSUME Inv, CallsFit, NEW k \in Workers, job[k].kind = "write", job' = Past(k),
         Tail(job[k].todo) \in WriteTodo
  PROVE  CallsFit'
<1> DEFINE past == [job[k] EXCEPT !.todo = Tail(@)]
<1>1. DOMAIN job[k] = CallFields /\ DOMAIN job = Workers
  BY DEF Inv, CallsOk, CallOk
<1>2. /\ past.kind = job[k].kind /\ past.key = job[k].key /\ past.todo = Tail(job[k].todo)
      /\ past.out = job[k].out /\ past.seen = job[k].seen /\ job' = [job EXCEPT ![k] = past]
  BY <1>1 DEF CallFields, Past
<1> HIDE DEF past
<1>3. job[k].key \in Ids /\ job[k].out \in Statuses /\ job[k].seen \subseteq Ids
  BY DEF CallsFit, Fits
<1>4. QED
  BY <1>2, <1>3, WriteNextFits

LEMMA StoreTyped ==
  ASSUME TypeOK, UNCHANGED <<chainVars, ladder, countVars>>,
         json' \in [Ids -> {None, "torn"} \union Statuses],
         md' \in [Ids -> {None, "torn"} \union Statuses],
         index' \in [file : {None, "torn", "whole"}, ids : SUBSET Ids], filed' \subseteq Ids
  PROVE  TypeOK'
BY DEF TypeOK, chainVars, countVars

LEMMA ReadIndexFits ==
  ASSUME Inv, CallsFit, NEW k \in Workers, job[k].kind = "write", job[k].todo = W5,
         NEW ids \in SUBSET Ids, job' = [Past(k) EXCEPT ![k].seen = ids]
  PROVE  CallsFit' /\ job'[k].todo = W6 /\ job'[k].kind = "write" /\ job'[k].seen = ids
         /\ job'[k].key = job[k].key /\ job'[k].out = job[k].out
<1> DEFINE next == [job[k] EXCEPT !.todo = Tail(@), !.seen = ids]
<1>1. DOMAIN job[k] = CallFields /\ DOMAIN job = Workers
  BY DEF Inv, CallsOk, CallOk
<1>2. /\ next.kind = job[k].kind /\ next.key = job[k].key /\ next.todo = Tail(job[k].todo)
      /\ next.out = job[k].out /\ next.seen = ids
  BY <1>1 DEF CallFields
<1>3. job' = [job EXCEPT ![k] = next]
  BY <1>1 DEF Past, CallFields
<1> HIDE DEF next
<1>4. job[k].key \in Ids /\ job[k].out \in Statuses
  BY DEF CallsFit, Fits
<1>5. next.todo = W6
  BY <1>2, WriteTails
<1>6. CallsFit'
  BY <1>2, <1>3, <1>4, <1>5, WriteNextFits DEF WriteTodo
<1>7. QED
  BY <1>1, <1>2, <1>3, <1>5, <1>6

LEMMA StoreKept ==
  ASSUME Kept, NEW k \in Workers,
         \/ OpenReceipt(k) \/ FillReceipt(k) \/ WriteCompanion(k)
         \/ ReadIndex(k) \/ OpenIndex(k) \/ FillIndex(k)
  PROVE  CallsFit' /\ TypeOK'
<1>1. Inv /\ CallsFit /\ TypeOK
  BY DEF Kept
<1>2. CASE OpenReceipt(k)
  <2>1. /\ job[k].kind = "write" /\ job[k].key \in Ids /\ job[k].todo = W1
        /\ UNCHANGED <<chainVars, ladder, countVars>>
    BY <1>1, <1>2, WriterAt, WriteAt DEF OpenReceipt
  <2>2. CASE Leave(k) /\ UNCHANGED storeVars
    BY <1>1, <2>1, <2>2, LeaveFits, StoreTyped DEF TypeOK, storeVars
  <2>3. CASE /\ json' = [json EXCEPT ![job[k].key] = "torn"] /\ filed' = filed \ {job[k].key}
             /\ job' = Past(k) /\ UNCHANGED <<md, index>>
    <3>1. TypeOK'
      BY <1>1, <2>1, <2>3, StoreTyped DEF TypeOK
    <3>2. QED
      BY <1>1, <2>1, <2>3, <3>1, WritePastFits, WriteTails DEF WriteTodo
  <2>4. QED
    BY <1>2, <2>2, <2>3 DEF OpenReceipt
<1>3. CASE FillReceipt(k)
  <2>1. /\ job[k].kind = "write" /\ job[k].key \in Ids /\ job[k].todo = W2
        /\ job[k].out \in Statuses
        /\ json' = [json EXCEPT ![job[k].key] = job[k].out] /\ job' = Past(k)
        /\ UNCHANGED <<md, index, filed, chainVars, ladder, countVars>>
    BY <1>1, <1>3, WriterAt, WriteAt DEF FillReceipt
  <2>2. TypeOK'
    BY <1>1, <2>1, StoreTyped DEF TypeOK
  <2>3. QED
    BY <1>1, <2>1, <2>2, WritePastFits, WriteTails DEF WriteTodo
<1>4. CASE WriteCompanion(k)
  <2>1. /\ job[k].kind = "write" /\ job[k].key \in Ids /\ job[k].todo \in {W3, W4}
        /\ job[k].out \in Statuses
        /\ md' = [md EXCEPT ![job[k].key] = IF At(k, "md") THEN "torn" ELSE job[k].out]
        /\ job' = Past(k)
        /\ UNCHANGED <<json, index, filed, chainVars, ladder, countVars>>
    BY <1>1, <1>4, WriterAt, WriteAt DEF WriteCompanion
  <2>2. TypeOK'
    BY <1>1, <2>1, StoreTyped DEF TypeOK
  <2>3. Tail(job[k].todo) \in WriteTodo
    BY <2>1, WriteTails DEF WriteTodo
  <2>4. QED
    BY <1>1, <2>1, <2>2, <2>3, WritePastFits
<1>5. CASE ReadIndex(k)
  <2>1. /\ job[k].kind = "write" /\ job[k].todo = W5
        /\ UNCHANGED <<storeVars, chainVars, ladder, countVars>>
        /\ Leave(k) \/ job' = [Past(k) EXCEPT ![k].seen = index.ids]
    BY <1>1, <1>5, WriterAt, WriteAt DEF ReadIndex
  <2>2. TypeOK'
    BY <1>1, <2>1, StoreTyped DEF TypeOK, storeVars
  <2>3. index.ids \in SUBSET Ids
    BY <1>1 DEF TypeOK
  <2>4. QED
    BY <1>1, <2>1, <2>2, <2>3, LeaveFits, ReadIndexFits
<1>6. CASE OpenIndex(k)
  <2>1. /\ job[k].kind = "write" /\ job[k].todo = W6
        /\ index' = [file |-> "torn", ids |-> {}] /\ job' = Past(k)
        /\ UNCHANGED <<json, md, filed, chainVars, ladder, countVars>>
    BY <1>1, <1>6, WriterAt, WriteAt DEF OpenIndex
  <2>2. TypeOK'
    BY <1>1, <2>1, StoreTyped DEF TypeOK
  <2>3. QED
    BY <1>1, <2>1, <2>2, WritePastFits, WriteTails DEF WriteTodo
<1>7. CASE FillIndex(k)
  <2>1. /\ job[k].kind = "write" /\ job[k].todo = W7 /\ job[k].key \in Ids
        /\ index' = [file |-> "whole", ids |-> job[k].seen \union {job[k].key}]
        /\ filed' = filed \union {job[k].key} /\ Leave(k)
        /\ UNCHANGED <<json, md, chainVars, ladder, countVars>>
    BY <1>1, <1>7, WriterAt, WriteAt DEF FillIndex
  <2>2. job[k].seen \subseteq Ids
    BY <2>1 DEF Kept, CallsFit, Fits
  <2>3. TypeOK'
    BY <1>1, <2>1, <2>2, StoreTyped DEF TypeOK
  <2>4. QED
    BY <1>1, <2>1, <2>3, LeaveFits
<1>8. QED
  BY <1>2, <1>3, <1>4, <1>5, <1>6, <1>7

(* A call is made, or killed.                                              *)
LEMMA CallTyped ==
  ASSUME ExperimentsAssumption, TypeOK, NEW k \in Workers, NEW call, Call(k, call)
  PROVE  TypeOK'
<1>1. jobs' = jobs + 1 /\ jobs < MaxJobs /\ MaxJobs \in Nat /\ jobs \in 0..MaxJobs
  BY DEF Call, TypeOK, ExperimentsAssumption
<1>2. jobs' \in 0..MaxJobs
  BY <1>1
<1>3. QED
  BY <1>2 DEF Call, TypeOK, chainVars, storeVars

LEMMA CallsKept ==
  ASSUME ExperimentsAssumption, Kept, NEW k \in Workers,
         \/ \E r \in Runs, w \in Workloads : RunChain(k, r, w)
         \/ \E i \in Ids, s \in Statuses, o \in BOOLEAN : WriteReceipt(k, i, s, o)
         \/ \E l \in Ladders : WriteLadder(k, l)
  PROVE  CallsFit' /\ TypeOK'
<1>1. Inv /\ CallsFit /\ TypeOK
  BY DEF Kept
<1>2. ASSUME NEW r \in Runs, NEW w \in Workloads, RunChain(k, r, w)
      PROVE  CallsFit' /\ TypeOK'
  <2> DEFINE call == [Idle EXCEPT !.kind = "chain", !.todo = ChainScript, !.key = r, !.load = w]
  <2>1. call.kind = "chain" /\ call.todo = ChainScript /\ call.load = w
    BY DEF Idle
  <2>2. Call(k, call)
    BY <1>2 DEF RunChain
  <2> HIDE DEF call
  <2>3. Place(call) = 1 /\ w \in Workload
    BY <2>1, ScriptPlaces DEF Place, ExperimentsAssumption
  <2>4. Fits(call)
    BY <2>1, <2>3 DEF Fits
  <2>5. QED
    BY <1>1, <2>2, <2>4, NextFits, CallTyped DEF Call
<1>3. ASSUME NEW i \in Ids, NEW s \in Statuses, NEW o \in BOOLEAN, WriteReceipt(k, i, s, o)
      PROVE  CallsFit' /\ TypeOK'
  <2> DEFINE call == [Idle EXCEPT !.kind = "write", !.todo = WriteScript, !.key = i, !.out = s,
                                  !.again = o]
  <2>1. /\ call.kind = "write" /\ call.todo = W1 /\ call.key = i /\ call.out = s
        /\ call.seen = {}
    BY DEF Idle, WriteScript, W1
  <2>2. Call(k, call)
    BY <1>3 DEF WriteReceipt
  <2> HIDE DEF call
  <2>3. Fits(call)
    BY <2>1 DEF Fits, WriteTodo
  <2>4. QED
    BY <1>1, <2>2, <2>3, NextFits, CallTyped DEF Call
<1>4. ASSUME NEW l \in Ladders, WriteLadder(k, l)
      PROVE  CallsFit' /\ TypeOK'
  <2> DEFINE call == [Idle EXCEPT !.kind = "ladder", !.key = l,
                                  !.todo = IF l = "v3" THEN <<"parent">> \o LadderScript
                                                       ELSE LadderScript]
  <2>1. call.kind = "ladder" /\ call.todo \in {L4, L5} /\ call.key = l
    BY LadderScripts DEF Idle
  <2>2. Call(k, call)
    BY <1>4 DEF WriteLadder
  <2> HIDE DEF call
  <2>3. Fits(call)
    BY <2>1 DEF Fits, LadderTodo
  <2>4. QED
    BY <1>1, <2>2, <2>3, NextFits, CallTyped DEF Call
<1>5. QED
  BY <1>2, <1>3, <1>4

LEMMA KillKept ==
  ASSUME ExperimentsAssumption, Kept, NEW k \in Workers, Kill(k)
  PROVE  CallsFit' /\ TypeOK'
<1>1. kills' = kills + 1 /\ kills < MaxKills /\ MaxKills \in Nat /\ kills \in 0..MaxKills
  BY DEF Kill, Kept, TypeOK, ExperimentsAssumption
<1>2. kills' \in 0..MaxKills
  BY <1>1
<1>3. TypeOK'
  BY <1>2 DEF Kill, Kept, TypeOK, chainVars, storeVars
<1>4. QED
  BY <1>3, LeaveFits DEF Kept, Kill

LEMMA KeptInit ==
  ASSUME ExperimentsAssumption, Init
  PROVE  Kept
<1>1. CallsFit
  BY IdleFits DEF Init, CallsFit
<1>2. NoDir \in Directory
  BY DEF NoDir, Directory
<1>3. MaxJobs \in Nat /\ MaxKills \in Nat
  BY DEF ExperimentsAssumption
<1>4. /\ dir \in [Runs -> Directory]
      /\ ladder \in [Ladders -> {None, "torn", "whole"}]
      /\ json \in [Ids -> {None, "torn"} \union Statuses]
      /\ md \in [Ids -> {None, "torn"} \union Statuses]
  BY <1>2 DEF Init
<1>5. /\ newer \subseteq Runs \X Runs /\ last \in Runs \union {None}
      /\ filed \subseteq Ids /\ tangled \in BOOLEAN
  BY DEF Init
<1>6. index \in [file : {None, "torn", "whole"}, ids : SUBSET Ids]
  BY DEF Init
<1>7. jobs \in 0..MaxJobs /\ kills \in 0..MaxKills
  BY <1>3 DEF Init
<1>8. TypeOK
  BY <1>4, <1>5, <1>6, <1>7 DEF TypeOK
<1>9. QED
  BY <1>1, <1>8, InvInit DEF Kept

LEMMA KeptStep ==
  ASSUME ExperimentsAssumption, Kept, [Next]_vars
  PROVE  Kept'
<1>1. CASE UNCHANGED vars
  BY <1>1, InvStep DEF vars, Kept, CallsFit, TypeOK
<1>2. ASSUME NEW k \in Workers, Step(k)
      PROVE  CallsFit' /\ TypeOK'
  <2>1. CASE Mkdir(k) \/ StageIn(k) \/ StageOut(k)
    BY <2>1, MkdirKept, StageInKept, StageOutKept
  <2>2. CASE CloseLog(k) \/ WriteState(k) \/ OpenManifest(k) \/ FillManifest(k)
    BY <2>2, CloseLogKept, WriteStateKept, OpenManifestKept, FillManifestKept
  <2>3. CASE Parent(k) \/ Child(k) \/ OpenLadder(k) \/ FillLadder(k)
    BY <2>3, LaddersKept
  <2>4. CASE \/ OpenReceipt(k) \/ FillReceipt(k) \/ WriteCompanion(k)
             \/ ReadIndex(k) \/ OpenIndex(k) \/ FillIndex(k)
    BY <2>4, StoreKept
  <2>5. QED
    BY <1>2, <2>1, <2>2, <2>3, <2>4 DEF Step
<1>3. CASE Next
  BY <1>2, <1>3, InvStep, CallsKept, KillKept DEF Next, Kept
<1>4. QED
  BY <1>1, <1>3
-----------------------------------------------------------------------------
(* While no two calls overlapped: the callers but one are idle.            *)
ChainTold == PendingNewest /\ LastFound
Calm == Alone /\ ChainTold /\ Listing

LEMMA OthersIdle ==
  ASSUME Alone, NEW k \in Workers, job[k].kind # "idle"
  PROVE  \A o \in Workers \ {k} : job[o].kind = "idle"
BY DEF Alone

LEMMA StillAlone ==
  ASSUME Alone, NEW k \in Workers, job[k].kind # "idle",
         \A o \in Workers \ {k} : job'[o] = job[o]
  PROVE  Alone'
BY DEF Alone

LEMMA PastCall ==
  ASSUME Inv, NEW k \in Workers, job' = Past(k)
  PROVE  /\ job'[k].kind = job[k].kind /\ job'[k].key = job[k].key /\ job'[k].out = job[k].out
         /\ job'[k].seen = job[k].seen /\ job'[k].todo = Tail(job[k].todo)
         /\ \A o \in Workers \ {k} : job'[o] = job[o]
BY DEF Inv, CallsOk, CallOk, CallFields, Past

LEMMA PastPlace ==
  ASSUME Inv, NEW k \in Workers, job[k].kind = "chain", Place(job[k]) < 9,
         \/ job' = Past(k)
         \/ \E out : job' = [Past(k) EXCEPT ![k].out = out]
  PROVE  /\ job'[k].kind = "chain" /\ job'[k].key = job[k].key
         /\ Place(job'[k]) = Place(job[k]) + 1
         /\ \A o \in Workers \ {k} : job'[o] = job[o]
<1>1. CallOk(job[k]) /\ DOMAIN job = Workers /\ DOMAIN job[k] = CallFields
  BY DEF Inv, CallsOk, CallOk
<1>2. /\ job'[k].kind = "chain" /\ job'[k].key = job[k].key
      /\ job'[k].todo = Tail(job[k].todo) /\ DOMAIN job'[k] = CallFields
      /\ \A o \in Workers \ {k} : job'[o] = job[o]
  BY <1>1 DEF Past, CallFields
<1>3. QED
  BY <1>1, <1>2, PastOk

LEMMA LeftCall ==
  ASSUME Inv, NEW k \in Workers, Leave(k)
  PROVE  /\ job'[k] = Idle /\ job'[k].kind = "idle"
         /\ \A o \in Workers \ {k} : job'[o] = job[o]
BY DEF Inv, CallsOk, Leave, Idle

-----------------------------------------------------------------------------
(* Two newest directories with a manifest are one.                         *)
LEMMA NewestUnique ==
  ASSUME Asymmetric, NEW a \in Runs, NEW b \in Runs, Newest(a), Newest(b)
  PROVE  a = b
<1>1. SUFFICES ASSUME a # b PROVE FALSE
  OBVIOUS
<1>2. <<a, b>> \in newer /\ <<b, a>> \in newer
  BY <1>1 DEF Newest
<1>3. QED
  BY <1>2 DEF Asymmetric

LEMMA TouchedPairs ==
  ASSUME NEW r \in Runs, NEW a \in Runs, NEW b \in Runs
  PROVE  <<a, b>> \in Touched(r) <=> (a = r /\ b # r) \/ (<<a, b>> \in newer /\ b # r)
BY DEF Touched

LEMMA TouchedAsymmetric ==
  ASSUME Asymmetric, newer' = newer \/ \E r \in Runs : newer' = Touched(r)
  PROVE  Asymmetric'
<1>1. CASE newer' = newer
  BY <1>1 DEF Asymmetric
<1>2. ASSUME NEW r \in Runs, newer' = Touched(r)
      PROVE  Asymmetric'
  <2>1. ASSUME NEW a \in Runs, NEW b \in Runs, <<a, b>> \in newer', <<b, a>> \in newer'
        PROVE  FALSE
    <3>1. <<a, b>> \in newer /\ <<b, a>> \in newer
      BY <1>2, <2>1, TouchedPairs
    <3>2. QED
      BY <3>1 DEF Asymmetric
  <2>2. QED
    BY <2>1 DEF Asymmetric
<1>3. QED
  BY <1>1, <1>2

(* No manifest appears or goes, and what is touched has none.              *)
LEMMA SameNewest ==
  ASSUME \A q \in Runs : dir'[q].manifest = dir[q].manifest,
         \/ newer' = newer
         \/ \E r \in Runs : newer' = Touched(r) /\ dir[r].manifest = None,
         NEW q \in Runs
  PROVE  Newest(q)' <=> Newest(q)
<1>1. Candidates' = Candidates /\ Candidates \subseteq Runs
  BY DEF Candidates
<1>2. CASE newer' = newer
  BY <1>1, <1>2 DEF Newest
<1>3. ASSUME NEW r \in Runs, newer' = Touched(r), dir[r].manifest = None
      PROVE  Newest(q)' <=> Newest(q)
  <2>1. r \notin Candidates
    BY <1>3 DEF Candidates
  <2>2. ASSUME q \in Candidates, NEW o \in Candidates
        PROVE  <<q, o>> \in newer' <=> <<q, o>> \in newer
    BY <1>1, <1>3, <2>1, <2>2, TouchedPairs
  <2>3. QED
    BY <1>1, <2>2 DEF Newest
<1>4. QED
  BY <1>2, <1>3

(* A step after which nobody is about to fill a manifest, and that leaves  *)
(* the manifests as they are.                                              *)
LEMMA ToldQuietly ==
  ASSUME Kept, ChainTold, NEW k \in Workers, kills' >= kills, kills \in Nat, last' = last,
         \A q \in Runs : dir'[q].manifest = dir[q].manifest,
         \/ newer' = newer
         \/ \E r \in Runs : newer' = Touched(r) /\ dir[r].manifest = None,
         \A o \in Workers \ {k} : job'[o] = job[o],
         job'[k].kind = "chain" => Place(job'[k]) # 9,
         job[k].kind = "chain" /\ Place(job[k]) = 9 => kills' > 0,
         kills' \in Nat
  PROVE  ChainTold'
<1>1. \A q \in Runs : Newest(q)' <=> Newest(q)
  BY SameNewest
<1>2. PendingNewest'
  <2>1. ASSUME NEW o \in Workers, job'[o].kind = "chain" /\ Place(job'[o]) = 9
        PROVE  Newest(job[o].key)'
    <3>1. o # k /\ job'[o] = job[o]
      BY <2>1
    <3>2. Newest(job[o].key) /\ job[o].key \in Runs
      BY <2>1, <3>1 DEF ChainTold, PendingNewest, Newest, Candidates
    <3>3. PICK q \in Runs : q = job[o].key
      BY <3>2
    <3>4. Newest(q)' /\ q = job'[o].key
      BY <1>1, <3>1, <3>2, <3>3
    <3>5. QED
      BY <3>4 DEF Newest
  <2>2. QED
    BY <2>1 DEF PendingNewest
<1>3. LastFound'
  <2>1. SUFFICES ASSUME last # None
                 PROVE  \/ Newest(last)'
                        \/ \E q \in Runs : /\ Newest(q)' /\ dir'[q].manifest = "torn"
                                           /\ kills' > 0 \/ Pending(q)'
    BY Zenon DEF LastFound
  <2>2. CASE Newest(last)
    BY <1>1, <2>2 DEF Newest, Candidates
  <2>3. ASSUME NEW q \in Runs, Newest(q), dir[q].manifest = "torn", kills > 0 \/ Pending(q)
        PROVE  kills' > 0 \/ Pending(q)'
    <3>1. CASE kills > 0
      BY <3>1
    <3>2. CASE Pending(q)
      <4>1. PICK o \in Workers : Owns(job[o], q) /\ Place(job[o]) = 9
        BY <3>2 DEF Pending
      <4>2. CASE o = k
        BY <4>1, <4>2 DEF Owns
      <4>3. CASE o # k
        BY <4>1, <4>3 DEF Pending
      <4>4. QED
        BY <4>2, <4>3
    <3>3. QED
      BY <2>3, <3>1, <3>2
  <2>4. CASE \E q \in Runs : Newest(q) /\ dir[q].manifest = "torn" /\ (kills > 0 \/ Pending(q))
    <3>1. PICK q \in Runs : Newest(q) /\ dir[q].manifest = "torn" /\ (kills > 0 \/ Pending(q))
      BY <2>4
    <3>2. Newest(q)' /\ dir'[q].manifest = "torn" /\ (kills' > 0 \/ Pending(q)')
      BY <1>1, <2>3, <3>1
    <3>3. QED
      BY <3>2
  <2>5. QED
    BY <2>1, <2>2, <2>4 DEF ChainTold, LastFound
<1>4. QED
  BY <1>2, <1>3 DEF ChainTold

(* Nobody opens or fills a manifest.                                       *)
LEMMA ToldElsewhere ==
  ASSUME Kept, ChainTold, NEW k \in Workers, UNCHANGED chainVars, kills' \in Nat, kills' >= kills,
         \A o \in Workers \ {k} : job'[o] = job[o],
         job'[k].kind = "chain" => Place(job'[k]) # 9,
         job[k].kind = "chain" /\ Place(job[k]) = 9 => kills' > 0
  PROVE  ChainTold'
<1>1. kills \in Nat /\ dir' = dir /\ newer' = newer /\ last' = last
  BY DEF Kept, TypeOK, chainVars
<1>2. \A q \in Runs : dir'[q].manifest = dir[q].manifest
  BY <1>1
<1>3. QED
  BY <1>1, <1>2, ToldQuietly
-----------------------------------------------------------------------------
(* A step of a chain that has not opened its manifest.                     *)
LEMMA WorkTold ==
  ASSUME Kept, ChainTold, NEW k \in Workers, NEW s \in ChainSteps \ {"manifest", "whole"},
         At(k, s), kills' = kills, last' = last,
         \A q \in Runs : dir'[q].manifest = dir[q].manifest,
         newer' = newer \/ newer' = Touched(job[k].key),
         s = "mkdir" => newer' = newer \/ dir[job[k].key].manifest = None,
         \/ Leave(k) \/ job' = Past(k)
         \/ \E out : job' = [Past(k) EXCEPT ![k].out = out]
  PROVE  ChainTold'
<1> DEFINE r == job[k].key
           p == Place(job[k])
<1>1. /\ job[k].kind = "chain" /\ r \in Runs /\ p \in 1..9
      /\ s = ChainScript[p] /\ (p > 1 => Left(p, dir[r])) /\ kills \in Nat /\ Inv
  BY Here DEF Kept, TypeOK
<1>2. p < 8 /\ (p = 1 => s = "mkdir")
  <2>1. p \in {1, 2, 3, 4, 5, 6, 7, 8, 9}
    BY <1>1
  <2>2. QED
    BY <1>1, <2>1, ScriptPlaces
<1>3. p > 1 => dir[r].manifest = None
  BY <1>1, <1>2 DEF Left
<1>4. \A o \in Workers \ {k} : job'[o] = job[o]
  BY <1>1, <1>2, LeftCall, PastPlace
<1>5. job'[k].kind = "chain" => Place(job'[k]) # 9
  BY <1>1, <1>2, LeftCall, PastPlace
<1>6. newer' = newer \/ \E q \in Runs : newer' = Touched(q) /\ dir[q].manifest = None
  BY <1>1, <1>2, <1>3
<1>7. QED
  BY <1>1, <1>2, <1>4, <1>5, <1>6, ToldQuietly

(* A step of a chain keeps what its caller is told.                        *)
LEMMA WorkStepsTold ==
  ASSUME Kept, ChainTold, NEW k \in Workers,
         Mkdir(k) \/ StageIn(k) \/ StageOut(k) \/ CloseLog(k) \/ WriteState(k)
  PROVE  ChainTold'
<1> DEFINE r == job[k].key
<1>1. Inv /\ TypeOK /\ kills' = kills
  BY DEF Kept, Mkdir, StageIn, StageOut, CloseLog, WriteState, countVars
<1>2. CASE Mkdir(k)
  <2>1. At(k, "mkdir") /\ r \in Runs /\ DOMAIN dir = Runs /\ "mkdir" \in ChainSteps
    BY <1>1, <1>2, Here, ScriptNames DEF Mkdir, Inv, DirsOk
  <2>2. ~dir[r].there => dir[r].manifest = None
    BY <1>1, <2>1 DEF Inv, DirsOk, NoDir
  <2>3. CASE dir[r].there
    <3>1. Leave(k) /\ dir' = dir /\ newer' = newer /\ last' = last
      BY <1>2, <2>3 DEF Mkdir, chainVars
    <3>2. QED
      BY <1>1, <2>1, <3>1, WorkTold
  <2>4. CASE ~dir[r].there
    <3>1. /\ dir' = [dir EXCEPT ![r].there = TRUE] /\ newer' = Touched(r) /\ job' = Past(k)
          /\ last' = last
      BY <1>2, <2>4 DEF Mkdir
    <3>2. \A q \in Runs : dir'[q].manifest = dir[q].manifest
      BY <1>1, <2>1, <3>1 DEF TypeOK, Directory
    <3>3. QED
      BY <1>1, <2>1, <2>2, <2>4, <3>1, <3>2, WorkTold
  <2>5. QED
    BY <2>3, <2>4
<1>3. CASE StageIn(k)
  <2>1. PICK s \in {"in1", "in2"} : At(k, s)
    BY <1>3 DEF StageIn
  <2>2. s \in ChainSteps \ {"manifest", "whole"} /\ s # "mkdir"
    BY ScriptNames
  <2>3. newer' = Touched(r) /\ job' = Past(k) /\ dir' = dir /\ last' = last
    BY <1>3 DEF StageIn
  <2>4. QED
    BY <1>1, <2>1, <2>2, <2>3, WorkTold
<1>4. CASE StageOut(k)
  <2> DEFINE w == job[k].load
             file == IF w.cal \in Ladders THEN ladder[w.cal] ELSE None
             out == IF At(k, "out1") THEN Undetermined(SpAf(w)) ELSE Bti(w, job[k].out.oracle, file)
  <2>1. PICK s \in {"out1", "out2"} : At(k, s)
    BY <1>4 DEF StageOut
  <2>2. s \in ChainSteps \ {"manifest", "whole"} /\ s # "mkdir"
    BY ScriptNames
  <2>3. r \in Runs /\ DOMAIN dir = Runs
    BY <1>1, <2>1, <2>2, Here DEF Inv, DirsOk
  <2>4. IF out = Raised THEN Leave(k) /\ UNCHANGED chainVars
        ELSE /\ dir' = [dir EXCEPT ![r].hops = @ + 1] /\ newer' = Touched(r)
             /\ job' = [Past(k) EXCEPT ![k].out = out] /\ UNCHANGED last
    BY <1>4, Zenon DEF StageOut
  <2> HIDE DEF out
  <2>5. CASE out = Raised
    BY <1>1, <2>1, <2>2, <2>4, <2>5, WorkTold DEF chainVars
  <2>6. CASE out # Raised
    <3>1. \A q \in Runs : dir'[q].manifest = dir[q].manifest
      BY <1>1, <2>3, <2>4, <2>6 DEF TypeOK, Directory
    <3>2. QED
      BY <1>1, <2>1, <2>2, <2>4, <2>6, <3>1, WorkTold
  <2>7. QED
    BY <2>5, <2>6
<1>5. CASE CloseLog(k)
  <2>1. /\ At(k, "close") /\ r \in Runs /\ DOMAIN dir = Runs
        /\ "close" \in ChainSteps \ {"manifest", "whole"}
    BY <1>1, <1>5, Here, ScriptNames DEF CloseLog, Inv, DirsOk
  <2>2. /\ dir' = [dir EXCEPT ![r].log = TRUE] /\ job' = Past(k) /\ newer' = newer /\ last' = last
    BY <1>5 DEF CloseLog
  <2>3. \A q \in Runs : dir'[q].manifest = dir[q].manifest
    BY <1>1, <2>1, <2>2 DEF TypeOK, Directory
  <2>4. QED
    BY <1>1, <2>1, <2>2, <2>3, WorkTold
<1>6. CASE WriteState(k)
  <2>1. /\ At(k, "state") /\ r \in Runs /\ DOMAIN dir = Runs
        /\ "state" \in ChainSteps \ {"manifest", "whole"}
    BY <1>1, <1>6, Here, ScriptNames DEF WriteState, Inv, DirsOk
  <2>2. /\ dir' = [dir EXCEPT ![r].state = TRUE, ![r].final = job[k].out]
        /\ job' = Past(k) /\ newer' = Touched(r) /\ last' = last
    BY <1>6 DEF WriteState
  <2>3. \A q \in Runs : dir'[q].manifest = dir[q].manifest
    BY <1>1, <2>1, <2>2 DEF TypeOK, Directory
  <2>4. QED
    BY <1>1, <2>1, <2>2, <2>3, WorkTold
<1>7. QED
  BY <1>2, <1>3, <1>4, <1>5, <1>6

(* The directory whose manifest is opened becomes the newest with one.     *)
LEMMA OpenTold ==
  ASSUME ExperimentsAssumption, Kept, Alone, ChainTold, NEW k \in Workers, OpenManifest(k)
  PROVE  ChainTold'
<1> DEFINE r == job[k].key
<1>1. /\ At(k, "manifest") /\ job[k].kind = "chain" /\ r \in Runs /\ Place(job[k]) = 8
      /\ DOMAIN dir = Runs /\ Inv /\ TypeOK
  BY Here, PlaceOfStep, ScriptNames DEF OpenManifest, Kept, Inv, DirsOk
<1>2. /\ dir' = [dir EXCEPT ![r].manifest = "torn"] /\ newer' = Touched(r) /\ job' = Past(k)
  BY DEF OpenManifest
<1>3. /\ job'[k].kind = "chain" /\ job'[k].key = r /\ Place(job'[k]) = 9
      /\ \A o \in Workers \ {k} : job'[o] = job[o]
  BY <1>1, <1>2, PastPlace
<1>4. dir'[r].manifest = "torn" /\ "torn" # None
  BY <1>1, <1>2 DEF ExperimentsAssumption, TypeOK, Directory
<1>5. \A o \in Runs \ {r} : <<r, o>> \in newer'
  BY <1>1, <1>2, TouchedPairs
<1>6. Newest(r)'
  <2>1. r \in Candidates' /\ Candidates' \subseteq Runs
    BY <1>1, <1>4 DEF Candidates
  <2>2. PICK q \in Runs : q = r
    BY <1>1
  <2>3. q \in Candidates' /\ \A o \in Candidates' \ {q} : <<q, o>> \in newer'
    BY <1>5, <2>1, <2>2
  <2>4. Newest(q)'
    BY <2>3 DEF Newest
  <2>5. q = job'[k].key
    BY <1>3, <2>2
  <2>6. QED
    BY <2>3, <2>5, <1>3 DEF Newest
<1>7. PendingNewest'
  <2>1. ASSUME NEW o \in Workers, job'[o].kind = "chain"
        PROVE  o = k
    BY <1>1, <1>3, <2>1, OthersIdle
  <2>2. QED
    BY <1>6, <2>1 DEF PendingNewest
<1>8. LastFound'
  <2>1. PICK q \in Runs : q = r
    BY <1>1
  <2>2. Newest(q)' /\ dir'[q].manifest = "torn"
    BY <1>3, <1>4, <1>6, <2>1 DEF Newest
  <2>3. Pending(q)'
    BY <1>3, <2>1 DEF Pending, Owns
  <2>4. QED
    BY <2>2, <2>3 DEF LastFound
<1>9. QED
  BY <1>7, <1>8 DEF ChainTold

(* Filling it makes its run the last that returned, and still the newest.  *)
LEMMA FillTold ==
  ASSUME ExperimentsAssumption, Kept, Alone, ChainTold, NEW k \in Workers, FillManifest(k)
  PROVE  ChainTold'
<1> DEFINE r == job[k].key
<1>1. /\ At(k, "whole") /\ job[k].kind = "chain" /\ r \in Runs /\ Place(job[k]) = 9
      /\ DOMAIN dir = Runs /\ Inv /\ TypeOK
  BY Here, PlaceOfStep, ScriptNames DEF FillManifest, Kept, Inv, DirsOk
<1>2. /\ dir' = [dir EXCEPT ![r].manifest = "whole"] /\ last' = r /\ newer' = newer /\ Leave(k)
  BY DEF FillManifest
<1>3. Newest(r)
  BY <1>1 DEF ChainTold, PendingNewest
<1>4. Candidates' = Candidates
  <2>1. dir'[r].manifest = "whole" /\ "whole" # None /\ r \in Candidates
    BY <1>1, <1>2, <1>3 DEF ExperimentsAssumption, TypeOK, Directory, Newest
  <2>2. \A q \in Runs \ {r} : dir'[q] = dir[q]
    BY <1>1, <1>2
  <2>3. QED
    BY <2>1, <2>2 DEF Candidates
<1>5. LastFound'
  <2>1. PICK q \in Runs : q = r
    BY <1>1
  <2>2. Newest(q)'
    BY <1>2, <1>3, <1>4, <2>1 DEF Newest
  <2>3. q = last'
    BY <1>2, <2>1
  <2>4. QED
    BY <2>2, <2>3 DEF LastFound, Newest
<1>6. \A o \in Workers : job'[o].kind # "chain"
  BY <1>1, <1>2, OthersIdle, LeftCall
<1>7. PendingNewest'
  BY <1>6 DEF PendingNewest
<1>8. QED
  BY <1>5, <1>7 DEF ChainTold
-----------------------------------------------------------------------------
(* A step that writes nothing of the store.                                *)
LEMMA StoreQuiet ==
  ASSUME Listing, NEW k \in Workers, UNCHANGED storeVars,
         \A o \in Workers \ {k} : job'[o] = job[o], Writes(job[k])',
         kills' > 0 \/ (kills' = kills /\ (job[k].kind = "write" => job[k].todo # W7))
  PROVE  Listing'
<1>1. json' = json /\ md' = md /\ index' = index /\ filed' = filed
  BY DEF storeVars
<1>2. \A o \in Workers : Writes(job[o])'
  <2>1. ASSUME NEW o \in Workers, o # k
        PROVE  Writes(job[o])'
    <3>1. Writes(job[o])
      BY DEF Listing
    <3>2. job'[o] = job[o]
      BY <2>1
    <3>3. QED
      BY <1>1, <3>1, <3>2 DEF Writes
  <2>2. QED
    BY <2>1
<1>3. index'.file = "torn" =>
        kills' > 0 \/ \E o \in Workers : job'[o].kind = "write" /\ job'[o].todo = W7
  <2>1. SUFFICES ASSUME index.file = "torn", ~(kills' > 0)
                 PROVE  \E o \in Workers : job'[o].kind = "write" /\ job'[o].todo = W7
    BY <1>1
  <2>2. PICK o \in Workers : job[o].kind = "write" /\ job[o].todo = W7
    BY <2>1 DEF Listing
  <2>3. QED
    BY <2>1, <2>2
<1>4. QED
  BY <1>1, <1>2, <1>3 DEF Listing

(* What the store promises of a step of a writer, given its own part.      *)
LEMMA WriterListing ==
  ASSUME Listing, Alone, NEW k \in Workers, job[k].kind = "write",
         \A o \in Workers \ {k} : job'[o] = job[o], Writes(job[k])',
         \A i \in filed' : json'[i] \in Statuses /\ md'[i] = json'[i],
         index'.file = None => filed' = {},
         index'.file = "whole" => filed' \subseteq index'.ids,
         index'.file = "torn" =>
            kills' > 0 \/ \E o \in Workers : job'[o].kind = "write" /\ job'[o].todo = W7
  PROVE  Listing'
<1>1. \A o \in Workers \ {k} : job[o].kind = "idle"
  BY OthersIdle
<1>2. ASSUME NEW o \in Workers
      PROVE  Writes(job[o])'
  <2>1. CASE o = k
    BY <2>1
  <2>2. CASE o # k
    BY <1>1, <2>2 DEF Writes
  <2>3. QED
    BY <2>1, <2>2
<1>3. QED
  BY <1>2 DEF Listing

LEMMA WritesApart ==
  /\ W1 # W2 /\ W1 # W3 /\ W1 # W4 /\ W1 # W5 /\ W1 # W6 /\ W1 # W7
  /\ W2 # W3 /\ W2 # W4 /\ W2 # W5 /\ W2 # W6 /\ W2 # W7
  /\ W3 # W4 /\ W3 # W5 /\ W3 # W6 /\ W3 # W7
  /\ W4 # W5 /\ W4 # W6 /\ W4 # W7 /\ W5 # W6 /\ W5 # W7 /\ W6 # W7
BY WriteTails

LEMMA OpenReceiptListing ==
  ASSUME Kept, Alone, Listing, NEW k \in Workers, OpenReceipt(k)
  PROVE  Listing'
<1> DEFINE i == job[k].key
<1>1. /\ job[k].kind = "write" /\ i \in Ids /\ job[k].todo = W1 /\ Inv /\ TypeOK
      /\ kills' = kills
  BY WriterAt, WriteAt DEF OpenReceipt, Kept, countVars
<1>2. CASE Leave(k) /\ UNCHANGED storeVars
  <2>1. job'[k].kind = "idle" /\ \A o \in Workers \ {k} : job'[o] = job[o]
    BY <1>1, <1>2, LeftCall
  <2>2. Writes(job[k])'
    BY <2>1 DEF Writes
  <2>3. QED
    BY <1>1, <1>2, <2>1, <2>2, StoreQuiet, WritesApart
<1>3. CASE /\ json' = [json EXCEPT ![i] = "torn"] /\ filed' = filed \ {i}
           /\ job' = Past(k) /\ UNCHANGED <<md, index>>
  <2>1. /\ job'[k].kind = "write" /\ job'[k].key = i /\ job'[k].todo = W2
        /\ \A o \in Workers \ {k} : job'[o] = job[o]
    BY <1>1, <1>3, PastCall, WriteTails
  <2>2. Writes(job[k])'
    BY <1>3, <2>1, WritesApart DEF Writes
  <2>3. \A j \in filed' : json'[j] \in Statuses /\ md'[j] = json'[j]
    BY <1>1, <1>3 DEF TypeOK, Listing
  <2>4. /\ index'.file = None => filed' = {}
        /\ index'.file = "whole" => filed' \subseteq index'.ids
    BY <1>3 DEF Listing
  <2>5. index'.file = "torn" => kills' > 0
    <3>1. ASSUME NEW o \in Workers, job[o].kind = "write", job[o].todo = W7
          PROVE  FALSE
      <4>1. o = k
        BY <1>1, <3>1 DEF Alone
      <4>2. QED
        BY <1>1, <3>1, <4>1, WritesApart
    <3>2. QED
      BY <1>1, <1>3, <3>1 DEF Listing
  <2>6. QED
    BY <1>1, <2>1, <2>2, <2>3, <2>4, <2>5, WriterListing
<1>4. QED
  BY <1>2, <1>3 DEF OpenReceipt

(* Before its receipt or companion is filled, no id is told written.       *)
LEMMA FillingListing ==
  ASSUME Kept, Alone, Listing, NEW k \in Workers, FillReceipt(k) \/ WriteCompanion(k)
  PROVE  Listing'
<1> DEFINE i == job[k].key
<1>1. Inv /\ TypeOK /\ CallsFit /\ kills' = kills /\ index' = index /\ filed' = filed
  BY DEF FillReceipt, WriteCompanion, Kept, countVars
<1>2. /\ job[k].kind = "write" /\ i \in Ids /\ job[k].out \in Statuses
      /\ job' = Past(k)
      /\ FillReceipt(k) => job[k].todo = W2
      /\ WriteCompanion(k) => job[k].todo \in {W3, W4}
  BY <1>1, WriterAt, WriteAt DEF FillReceipt, WriteCompanion
<1>3. job[k].todo # W1 /\ job[k].todo # W7
  BY <1>2, WritesApart
<1>4. i \notin filed /\ Writes(job[k])
  BY <1>2, <1>3 DEF Listing, Writes
<1>5. /\ job'[k].kind = "write" /\ job'[k].key = i /\ job'[k].out = job[k].out
      /\ job'[k].todo = Tail(job[k].todo)
      /\ \A o \in Workers \ {k} : job'[o] = job[o]
  BY <1>1, <1>2, PastCall
<1>6. \A j \in filed' : json'[j] = json[j] /\ md'[j] = md[j]
  <2>1. CASE FillReceipt(k)
    BY <1>1, <1>2, <1>4, <2>1 DEF FillReceipt, TypeOK
  <2>2. CASE WriteCompanion(k)
    BY <1>1, <1>2, <1>4, <2>2 DEF WriteCompanion, TypeOK
  <2>3. QED
    BY <2>1, <2>2
<1>7. Writes(job[k])'
  <2>1. CASE FillReceipt(k)
    <3>1. job'[k].todo = W3 /\ json'[i] = job[k].out
      BY <1>1, <1>2, <1>5, <2>1, WriteTails DEF FillReceipt, TypeOK
    <3>2. QED
      BY <1>1, <1>4, <1>5, <3>1, WritesApart DEF Writes
  <2>2. CASE WriteCompanion(k) /\ job[k].todo = W3
    <3>1. job'[k].todo = W4 /\ json'[i] = job[k].out
      BY <1>2, <1>4, <1>5, <2>2, WriteTails DEF WriteCompanion, Writes
    <3>2. QED
      BY <1>1, <1>4, <1>5, <3>1, WritesApart DEF Writes
  <2>3. CASE WriteCompanion(k) /\ job[k].todo = W4
    <3>1. ~At(k, "md")
      BY <2>3, WriteTails DEF At
    <3>2. job'[k].todo = W5 /\ json'[i] = job[k].out /\ md'[i] = job[k].out
      BY <1>1, <1>2, <1>4, <1>5, <2>3, <3>1, WriteTails DEF WriteCompanion, Writes, TypeOK
    <3>3. QED
      BY <1>1, <1>4, <1>5, <3>2, WritesApart DEF Writes
  <2>4. QED
    BY <1>2, <2>1, <2>2, <2>3
<1>8. index'.file = "torn" => kills' > 0
  <2>1. ASSUME NEW o \in Workers, job[o].kind = "write", job[o].todo = W7
        PROVE  FALSE
    <3>1. o = k
      BY <1>2, <2>1 DEF Alone
    <3>2. QED
      BY <1>3, <2>1, <3>1
  <2>2. QED
    BY <1>1, <2>1 DEF Listing
<1>9. /\ \A j \in filed' : json'[j] \in Statuses /\ md'[j] = json'[j]
      /\ index'.file = None => filed' = {}
      /\ index'.file = "whole" => filed' \subseteq index'.ids
  BY <1>1, <1>6 DEF Listing
<1>10. QED
  BY <1>2, <1>5, <1>7, <1>8, <1>9, WriterListing

LEMMA ReadIndexListing ==
  ASSUME Kept, Alone, Listing, NEW k \in Workers, ReadIndex(k)
  PROVE  Listing'
<1>1. /\ Inv /\ CallsFit /\ TypeOK /\ kills' = kills /\ UNCHANGED storeVars
  BY DEF ReadIndex, Kept, countVars
<1>2. job[k].kind = "write" /\ job[k].todo = W5 /\ Writes(job[k])
  BY <1>1, WriterAt, WriteAt DEF ReadIndex, Listing
<1>3. CASE Leave(k)
  <2>1. job'[k].kind = "idle" /\ \A o \in Workers \ {k} : job'[o] = job[o]
    BY <1>1, <1>3, LeftCall
  <2>2. Writes(job[k])'
    BY <2>1 DEF Writes
  <2>3. QED
    BY <1>1, <1>2, <2>1, <2>2, StoreQuiet, WritesApart
<1>4. CASE index.file # "torn" /\ job' = [Past(k) EXCEPT ![k].seen = index.ids]
  <2>1. index.ids \in SUBSET Ids
    BY <1>1 DEF TypeOK
  <2>2. /\ job'[k].todo = W6 /\ job'[k].kind = "write" /\ job'[k].seen = index.ids
        /\ job'[k].key = job[k].key /\ job'[k].out = job[k].out
    BY <1>1, <1>2, <1>4, <2>1, ReadIndexFits
  <2>3. \A o \in Workers \ {k} : job'[o] = job[o]
    BY <1>1, <1>4 DEF Past, Inv, CallsOk
  <2>4. filed \subseteq index.ids
    BY <1>1, <1>4 DEF Listing, TypeOK
  <2>5. Writes(job[k])'
    BY <1>1, <1>2, <2>2, <2>4, WritesApart DEF Writes, storeVars
  <2>6. QED
    BY <1>1, <1>2, <2>3, <2>5, StoreQuiet, WritesApart
<1>5. QED
  BY <1>3, <1>4 DEF ReadIndex

LEMMA OpenIndexListing ==
  ASSUME ExperimentsAssumption, Kept, Alone, Listing, NEW k \in Workers, OpenIndex(k)
  PROVE  Listing'
<1>1. /\ Inv /\ CallsFit /\ TypeOK /\ job' = Past(k)
      /\ index' = [file |-> "torn", ids |-> {}]
      /\ json' = json /\ md' = md /\ filed' = filed
  BY DEF OpenIndex, Kept
<1>2. job[k].kind = "write" /\ job[k].todo = W6 /\ Writes(job[k])
  BY <1>1, WriterAt, WriteAt DEF OpenIndex, Listing
<1>3. /\ job'[k].kind = "write" /\ job'[k].todo = W7 /\ job'[k].key = job[k].key
      /\ job'[k].out = job[k].out /\ job'[k].seen = job[k].seen
      /\ \A o \in Workers \ {k} : job'[o] = job[o]
  BY <1>1, <1>2, PastCall, WriteTails
<1>4. Writes(job[k])'
  BY <1>1, <1>2, <1>3, WritesApart DEF Writes
<1>5. /\ index'.file = "torn" /\ "torn" # None
      /\ \A i \in filed' : json'[i] \in Statuses /\ md'[i] = json'[i]
  BY <1>1 DEF Listing, ExperimentsAssumption
<1>6. QED
  BY <1>2, <1>3, <1>4, <1>5, WriterListing

LEMMA FillIndexListing ==
  ASSUME ExperimentsAssumption, Kept, Alone, Listing, NEW k \in Workers, FillIndex(k)
  PROVE  Listing'
<1> DEFINE i == job[k].key
<1>1. /\ Inv /\ CallsFit /\ TypeOK /\ Leave(k)
      /\ index' = [file |-> "whole", ids |-> job[k].seen \union {i}]
      /\ filed' = filed \union {i} /\ json' = json /\ md' = md
  BY DEF FillIndex, Kept
<1>2. /\ job[k].kind = "write" /\ job[k].todo = W7 /\ Writes(job[k]) /\ job[k].out \in Statuses
  BY <1>1, WriterAt, WriteAt DEF FillIndex, Listing
<1>3. job'[k].kind = "idle" /\ \A o \in Workers \ {k} : job'[o] = job[o]
  BY <1>1, LeftCall
<1>4. Writes(job[k])'
  BY <1>3 DEF Writes
<1>5. json[i] = job[k].out /\ md[i] = job[k].out /\ filed \subseteq job[k].seen
  BY <1>2 DEF Writes
<1> HIDE DEF i
<1>6. \A j \in filed' : json'[j] \in Statuses /\ md'[j] = json'[j]
  BY <1>1, <1>2, <1>5 DEF Listing
<1>7. index'.file = "whole" /\ "whole" # None /\ filed' \subseteq index'.ids
  BY <1>1, <1>5 DEF ExperimentsAssumption
<1>8. QED
  BY <1>2, <1>3, <1>4, <1>6, <1>7, WriterListing
-----------------------------------------------------------------------------
(* A call of a chain or of a ladder writes nothing of the store.           *)
LEMMA OtherListing ==
  ASSUME Kept, Listing, NEW k \in Workers, UNCHANGED storeVars, kills' = kills,
         job[k].kind # "write", job'[k].kind # "write",
         \A o \in Workers \ {k} : job'[o] = job[o]
  PROVE  Listing'
<1>1. Writes(job[k])'
  BY DEF Writes
<1>2. QED
  BY <1>1, StoreQuiet

(* Whoever is idle stays so until it calls.                                *)
LEMMA StepAlone ==
  ASSUME Kept, Alone, NEW k \in Workers, Step(k)
  PROVE  /\ job[k].kind # "idle" /\ Alone'
         /\ \A o \in Workers \ {k} : job'[o] = job[o]
<1>1. Inv /\ CallsFit
  BY DEF Kept
<1>2. \E s : At(k, s)
  BY Zenon DEF Step, Mkdir, StageIn, StageOut, CloseLog, WriteState, OpenManifest, FillManifest,
     Parent, Child, OpenLadder, FillLadder, OpenReceipt, FillReceipt, WriteCompanion, ReadIndex,
     OpenIndex, FillIndex
<1>3. job[k].kind # "idle"
  BY <1>1, <1>2 DEF At, CallsFit, Fits, Idle
<1>4. DOMAIN job = Workers
  BY <1>1 DEF Inv, CallsOk
<1>5. \A o \in Workers \ {k} : job'[o] = job[o]
  <2>1. CASE Mkdir(k) \/ StageIn(k) \/ CloseLog(k) \/ WriteState(k) \/ OpenManifest(k)
    BY <1>4, <2>1 DEF Mkdir, StageIn, CloseLog, WriteState, OpenManifest, Leave, Past
  <2>2. CASE StageOut(k)
    <3>1. Leave(k) \/ \E out : job' = [Past(k) EXCEPT ![k].out = out]
      BY <2>2 DEF StageOut
    <3>2. QED
      BY <1>4, <3>1 DEF Leave, Past
  <2>3. CASE FillManifest(k) \/ Parent(k) \/ Child(k)
    BY <1>4, <2>3 DEF FillManifest, Parent, Child, Leave, Past
  <2>4. CASE OpenLadder(k) \/ FillLadder(k) \/ OpenReceipt(k) \/ FillReceipt(k)
    BY <1>4, <2>4 DEF OpenLadder, FillLadder, OpenReceipt, FillReceipt, Leave, Past
  <2>5. CASE WriteCompanion(k) \/ ReadIndex(k) \/ OpenIndex(k) \/ FillIndex(k)
    BY <1>4, <2>5 DEF WriteCompanion, ReadIndex, OpenIndex, FillIndex, Leave, Past
  <2>6. QED
    BY <2>1, <2>2, <2>3, <2>4, <2>5 DEF Step
<1>6. QED
  BY <1>3, <1>5, StillAlone

(* A step of the store or of a ladder is no chain's, before or after.      *)
LEMMA NoChain ==
  ASSUME Kept, NEW k \in Workers, job[k].kind \in {"write", "ladder"}, Step(k)
  PROVE  job'[k].kind \in {job[k].kind, "idle"}
<1>1. Inv /\ DOMAIN job = Workers /\ DOMAIN job[k] = CallFields
  BY DEF Kept, Inv, CallsOk, CallOk
<1>2. \A s \in ChainSteps : ~At(k, s)
  BY <1>1, Here
<1>3. \/ Parent(k) \/ Child(k) \/ OpenLadder(k) \/ FillLadder(k)
      \/ OpenReceipt(k) \/ FillReceipt(k) \/ WriteCompanion(k)
      \/ ReadIndex(k) \/ OpenIndex(k) \/ FillIndex(k)
  BY <1>2, ScriptNames DEF Step, Mkdir, StageIn, StageOut, CloseLog, WriteState, OpenManifest,
     FillManifest
<1>4. CASE Parent(k) \/ Child(k) \/ OpenLadder(k) \/ FillLadder(k)
  <2>1. Idle.kind = "idle"
    BY DEF Idle
  <2>2. CASE Leave(k) \/ job' = Past(k)
    BY <1>1, <2>1, <2>2 DEF Leave, Past, CallFields
  <2>3. CASE job' = [job EXCEPT ![k].key = "v2", ![k].todo = LadderScript \o <<"child">> \o @]
    BY <1>1, <2>3 DEF CallFields
  <2>4. CASE job' = [Past(k) EXCEPT ![k].key = "v3"]
    BY <1>1, <2>4 DEF Past, CallFields
  <2>5. QED
    BY <1>4, <2>2, <2>3, <2>4 DEF Parent, Child, OpenLadder, FillLadder
<1>5. CASE \/ OpenReceipt(k) \/ FillReceipt(k) \/ WriteCompanion(k)
           \/ ReadIndex(k) \/ OpenIndex(k) \/ FillIndex(k)
  BY <1>1, <1>5 DEF OpenReceipt, FillReceipt, WriteCompanion, ReadIndex, OpenIndex, FillIndex,
     Leave, Past, Idle, CallFields
<1>6. QED
  BY <1>3, <1>4, <1>5

LEMMA StepCalm ==
  ASSUME ExperimentsAssumption, Kept, Calm, NEW k \in Workers, Step(k)
  PROVE  Calm'
<1>1. Inv /\ CallsFit /\ TypeOK /\ Alone /\ ChainTold /\ Listing /\ kills' = kills /\ kills \in Nat
  <2>1. kills' = kills
    BY Zenon DEF Step, Mkdir, StageIn, StageOut, CloseLog, WriteState, OpenManifest,
       FillManifest, Parent, Child, OpenLadder, FillLadder, OpenReceipt, FillReceipt,
       WriteCompanion, ReadIndex, OpenIndex, FillIndex, countVars
  <2>2. QED
    BY <2>1 DEF Kept, Calm, TypeOK
<1>2. Alone' /\ \A o \in Workers \ {k} : job'[o] = job[o]
  BY <1>1, StepAlone
<1>3. CASE Mkdir(k) \/ StageIn(k) \/ StageOut(k) \/ CloseLog(k) \/ WriteState(k)
            \/ OpenManifest(k) \/ FillManifest(k)
  <2>1. PICK s \in ChainSteps : At(k, s)
    BY <1>3, ScriptNames DEF Mkdir, StageIn, StageOut, CloseLog, WriteState, OpenManifest,
       FillManifest
  <2>2. job[k].kind = "chain" /\ Place(job[k]) \in 1..9
    BY <1>1, <2>1, Here
  <2>3. ChainTold'
    BY <1>1, <1>3, WorkStepsTold, OpenTold, FillTold
  <2>4. UNCHANGED storeVars
    BY <1>3 DEF Mkdir, StageIn, StageOut, CloseLog, WriteState, OpenManifest, FillManifest
  <2>5. job'[k].kind \in {"chain", "idle"}
    <3>1. DOMAIN job = Workers /\ DOMAIN job[k] = CallFields
      BY <1>1 DEF Inv, CallsOk, CallOk
    <3>2. \/ Leave(k) \/ job' = Past(k)
          \/ \E out : job' = [Past(k) EXCEPT ![k].out = out]
      BY <1>3 DEF Mkdir, StageIn, StageOut, CloseLog, WriteState, OpenManifest, FillManifest
    <3>3. QED
      BY <2>2, <3>1, <3>2 DEF Leave, Past, Idle, CallFields
  <2>6. Listing'
    BY <1>1, <1>2, <2>2, <2>4, <2>5, OtherListing
  <2>7. QED
    BY <1>2, <2>3, <2>6 DEF Calm
<1>4. CASE Parent(k) \/ Child(k) \/ OpenLadder(k) \/ FillLadder(k)
  <2>1. PICK s \in {"parent", "child", "ladder", "ladderFull"} : At(k, s)
    BY <1>4 DEF Parent, Child, OpenLadder, FillLadder
  <2>2. job[k].kind = "ladder"
    BY <1>1, <2>1, LadderWriterAt
  <2>3. job'[k].kind \in {"ladder", "idle"}
    BY <2>2, NoChain
  <2>4. UNCHANGED storeVars /\ UNCHANGED chainVars
    BY <1>4 DEF Parent, Child, OpenLadder, FillLadder
  <2>5. Listing'
    BY <1>1, <1>2, <2>2, <2>3, <2>4, OtherListing
  <2>6. ChainTold'
    BY <1>1, <1>2, <2>2, <2>3, <2>4, ToldElsewhere
  <2>7. QED
    BY <1>2, <2>5, <2>6 DEF Calm
<1>5. CASE \/ OpenReceipt(k) \/ FillReceipt(k) \/ WriteCompanion(k)
           \/ ReadIndex(k) \/ OpenIndex(k) \/ FillIndex(k)
  <2>1. PICK s \in {"json", "jsonFull", "md", "mdFull", "readIndex", "index", "indexFull"} : At(k, s)
    BY <1>5 DEF OpenReceipt, FillReceipt, WriteCompanion, ReadIndex, OpenIndex, FillIndex
  <2>2. job[k].kind = "write"
    BY <1>1, <2>1, WriterAt
  <2>3. job'[k].kind \in {"write", "idle"}
    BY <2>2, NoChain
  <2>4. UNCHANGED chainVars
    BY <1>5 DEF OpenReceipt, FillReceipt, WriteCompanion, ReadIndex, OpenIndex, FillIndex
  <2>5. ChainTold'
    BY <1>1, <1>2, <2>2, <2>3, <2>4, ToldElsewhere
  <2>6. Listing'
    BY <1>1, <1>5, OpenReceiptListing, FillingListing, ReadIndexListing, OpenIndexListing,
       FillIndexListing
  <2>7. QED
    BY <1>2, <2>5, <2>6 DEF Calm
<1>6. QED
  BY <1>3, <1>4, <1>5 DEF Step

(* The only caller calls.                                                  *)
LEMMA CallCalm ==
  ASSUME Kept, Calm, NEW k \in Workers, NEW call, Call(k, call), ~tangled',
         call.kind = "chain" => Place(call) = 1,
         call.kind = "write" => call.todo = W1
  PROVE  Calm'
<1>1. /\ Inv /\ TypeOK /\ CallsFit /\ kills' = kills /\ kills \in Nat
      /\ UNCHANGED chainVars /\ UNCHANGED storeVars
      /\ ChainTold /\ Listing
  BY DEF Kept, Call, Calm, TypeOK
<1>2. \A o \in Workers : job[o] = Idle
  BY DEF Call
<1>3. /\ job'[k] = call /\ job[k].kind = "idle"
      /\ \A o \in Workers \ {k} : job'[o] = job[o] /\ job'[o].kind = "idle"
  BY <1>1, <1>2 DEF Call, Inv, CallsOk, Idle
<1>4. Alone'
  BY <1>3 DEF Alone
<1>5. ChainTold'
  BY <1>1, <1>3, ToldElsewhere
<1>6. Writes(job[k])'
  BY <1>3, WritesApart DEF Writes
<1>7. Listing'
  BY <1>1, <1>3, <1>6, StoreQuiet
<1>8. QED
  BY <1>4, <1>5, <1>7 DEF Calm

LEMMA CallsCalm ==
  ASSUME Kept, Calm, NEW k \in Workers, ~tangled',
         \/ \E r \in Runs, w \in Workloads : RunChain(k, r, w)
         \/ \E i \in Ids, s \in Statuses, o \in BOOLEAN : WriteReceipt(k, i, s, o)
         \/ \E l \in Ladders : WriteLadder(k, l)
  PROVE  Calm'
<1>1. ASSUME NEW r \in Runs, NEW w \in Workloads, RunChain(k, r, w)
      PROVE  Calm'
  <2> DEFINE call == [Idle EXCEPT !.kind = "chain", !.todo = ChainScript, !.key = r, !.load = w]
  <2>1. Call(k, call) /\ call.kind = "chain" /\ call.todo = ChainScript
    BY <1>1 DEF RunChain, Idle
  <2> HIDE DEF call
  <2>2. Place(call) = 1
    BY <2>1, ScriptPlaces DEF Place
  <2>3. QED
    BY <2>1, <2>2, CallCalm
<1>2. ASSUME NEW i \in Ids, NEW s \in Statuses, NEW o \in BOOLEAN, WriteReceipt(k, i, s, o)
      PROVE  Calm'
  <2> DEFINE call == [Idle EXCEPT !.kind = "write", !.todo = WriteScript, !.key = i, !.out = s,
                                  !.again = o]
  <2>1. Call(k, call) /\ call.kind = "write" /\ call.todo = W1
    BY <1>2 DEF WriteReceipt, Idle, WriteScript, W1
  <2> HIDE DEF call
  <2>2. QED
    BY <2>1, CallCalm
<1>3. ASSUME NEW l \in Ladders, WriteLadder(k, l)
      PROVE  Calm'
  <2> DEFINE call == [Idle EXCEPT !.kind = "ladder", !.key = l,
                                  !.todo = IF l = "v3" THEN <<"parent">> \o LadderScript
                                                       ELSE LadderScript]
  <2>1. Call(k, call) /\ call.kind = "ladder"
    BY <1>3 DEF WriteLadder, Idle
  <2> HIDE DEF call
  <2>2. QED
    BY <2>1, CallCalm
<1>4. QED
  BY <1>1, <1>2, <1>3

LEMMA KillCalm ==
  ASSUME Kept, Calm, NEW k \in Workers, Kill(k)
  PROVE  Calm'
<1>1. /\ Inv /\ TypeOK /\ CallsFit /\ kills' = kills + 1 /\ kills \in Nat
      /\ UNCHANGED chainVars /\ UNCHANGED storeVars /\ ChainTold /\ Listing /\ Alone
  BY DEF Kept, Kill, Calm, TypeOK
<1>2. job'[k].kind = "idle" /\ \A o \in Workers \ {k} : job'[o] = job[o]
  BY <1>1, LeftCall DEF Kill
<1>3. kills' > 0 /\ kills' \in Nat /\ kills' >= kills
  BY <1>1
<1>4. Alone'
  BY <1>1, <1>2 DEF Alone
<1>5. ChainTold'
  BY <1>1, <1>2, <1>3, ToldElsewhere
<1>6. Writes(job[k])'
  BY <1>2 DEF Writes
<1>7. Listing'
  BY <1>1, <1>2, <1>3, <1>6, StoreQuiet
<1>8. QED
  BY <1>4, <1>5, <1>7 DEF Calm

-----------------------------------------------------------------------------
LabInv == Kept /\ Asymmetric /\ (~tangled => Calm)

LEMMA LabInvInit ==
  ASSUME ExperimentsAssumption, Init
  PROVE  LabInv
<1>1. Kept
  BY KeptInit
<1>2. /\ \A k \in Workers : job[k] = Idle /\ job[k].kind = "idle"
      /\ newer = {} /\ last = None /\ filed = {} /\ index.file = None
  BY DEF Init, Idle
<1>3. index.file # "torn"
  BY <1>2 DEF ExperimentsAssumption
<1>4. Asymmetric
  BY <1>2 DEF Asymmetric
<1>5. Alone
  BY <1>2 DEF Alone
<1>6. ChainTold
  BY <1>2 DEF ChainTold, PendingNewest, LastFound
<1>7. Listing
  BY <1>2, <1>3 DEF Listing, Writes
<1>8. QED
  BY <1>1, <1>4, <1>5, <1>6, <1>7 DEF LabInv, Calm

LEMMA LabInvStep ==
  ASSUME ExperimentsAssumption, LabInv, [Next]_vars
  PROVE  LabInv'
<1>1. Kept /\ Kept' /\ Asymmetric
  BY KeptStep DEF LabInv
<1>2. newer' = newer \/ \E r \in Runs : newer' = Touched(r)
  <2>1. CASE UNCHANGED vars
    BY <2>1 DEF vars
  <2>2. ASSUME NEW k \in Workers, Step(k)
        PROVE  newer' = newer \/ \E r \in Runs : newer' = Touched(r)
    <3>1. newer' = newer \/ (newer' = Touched(job[k].key) /\ \E s \in ChainSteps : At(k, s))
      <4>1. CASE Mkdir(k) \/ StageIn(k) \/ StageOut(k) \/ CloseLog(k) \/ WriteState(k)
        BY <4>1, ScriptNames DEF Mkdir, StageIn, StageOut, CloseLog, WriteState, chainVars
      <4>2. CASE OpenManifest(k) \/ FillManifest(k)
        BY <4>2, ScriptNames DEF OpenManifest, FillManifest
      <4>3. CASE \/ Parent(k) \/ Child(k) \/ OpenLadder(k) \/ FillLadder(k)
                 \/ OpenReceipt(k) \/ FillReceipt(k) \/ WriteCompanion(k)
                 \/ ReadIndex(k) \/ OpenIndex(k) \/ FillIndex(k)
        <5>1. UNCHANGED chainVars
          BY <4>3, Zenon DEF Parent, Child, OpenLadder, FillLadder, OpenReceipt, FillReceipt,
             WriteCompanion, ReadIndex, OpenIndex, FillIndex
        <5>2. QED
          BY <5>1 DEF chainVars
      <4>4. QED
        BY <2>2, <4>1, <4>2, <4>3 DEF Step
    <3>2. QED
      BY <1>1, <3>1, Here DEF Kept
  <2>3. ASSUME NEW k \in Workers,
               \/ \E r \in Runs, w \in Workloads : RunChain(k, r, w)
               \/ \E i \in Ids, s \in Statuses, o \in BOOLEAN : WriteReceipt(k, i, s, o)
               \/ \E l \in Ladders : WriteLadder(k, l)
               \/ Kill(k)
        PROVE  newer' = newer
    BY <2>3 DEF RunChain, WriteReceipt, WriteLadder, Kill, Call, chainVars
  <2>4. QED
    BY <2>1, <2>2, <2>3 DEF Next
<1>3. Asymmetric'
  BY <1>1, <1>2, TouchedAsymmetric
<1>4. ASSUME ~tangled'
      PROVE  Calm'
  <2>1. CASE UNCHANGED vars
    <3>1. Calm
      BY <1>4, <2>1 DEF vars, LabInv
    <3>2. QED
      BY <2>1, <3>1 DEF vars, Calm, ChainTold, Alone, PendingNewest, LastFound, Listing, Writes,
         Newest, Candidates, Pending
  <2>2. ASSUME NEW k \in Workers, Step(k)
        PROVE  Calm'
    <3>1. tangled' = tangled
      BY <2>2, Zenon DEF Step, Mkdir, StageIn, StageOut, CloseLog, WriteState, OpenManifest,
         FillManifest, Parent, Child, OpenLadder, FillLadder, OpenReceipt, FillReceipt,
         WriteCompanion, ReadIndex, OpenIndex, FillIndex, countVars
    <3>2. Calm
      BY <1>4, <3>1 DEF LabInv
    <3>3. QED
      BY <1>1, <2>2, <3>2, StepCalm
  <2>3. ASSUME NEW k \in Workers,
               \/ \E r \in Runs, w \in Workloads : RunChain(k, r, w)
               \/ \E i \in Ids, s \in Statuses, o \in BOOLEAN : WriteReceipt(k, i, s, o)
               \/ \E l \in Ladders : WriteLadder(k, l)
        PROVE  Calm'
    <3>1. ~tangled
      BY <1>4, <2>3 DEF RunChain, WriteReceipt, WriteLadder, Call
    <3>2. QED
      BY <1>1, <1>4, <2>3, <3>1, CallsCalm DEF LabInv
  <2>4. ASSUME NEW k \in Workers, Kill(k)
        PROVE  Calm'
    <3>1. ~tangled
      BY <1>4, <2>4 DEF Kill
    <3>2. QED
      BY <1>1, <2>4, <3>1, KillCalm DEF LabInv
  <2>5. QED
    BY <2>1, <2>2, <2>3, <2>4 DEF Next
<1>5. QED
  BY <1>1, <1>3, <1>4 DEF LabInv

(* What the invariant says of the next reader: the three promises.         *)
LEMMA LabHides ==
  ASSUME ExperimentsAssumption, LabInv
  PROVE  HidesNothing
<1> SUFFICES ASSUME ~tangled, last # None
             PROVE  \/ Latest = last
                    \/ /\ dir[Latest].manifest = "torn"
                       /\ kills > 0 \/ \E k \in Workers : job[k].key = Latest
  BY DEF HidesNothing
<1>1. Asymmetric /\ LastFound /\ last \in Runs
  BY DEF LabInv, Calm, ChainTold, Kept, TypeOK
<1>2. ASSUME NEW q \in Runs, Newest(q)
      PROVE  Latest = q
  <2>1. Candidates # {} /\ Latest = CHOOSE r \in Runs : Newest(r)
    BY <1>2 DEF Newest, Latest
  <2>2. Latest \in Runs /\ Newest(Latest)
    BY <1>2, <2>1
  <2>3. QED
    BY <1>1, <1>2, <2>2, NewestUnique
<1>3. CASE Newest(last)
  BY <1>1, <1>2, <1>3
<1>4. CASE \E q \in Runs : Newest(q) /\ dir[q].manifest = "torn" /\ (kills > 0 \/ Pending(q))
  <2>1. PICK q \in Runs : Newest(q) /\ dir[q].manifest = "torn" /\ (kills > 0 \/ Pending(q))
    BY <1>4
  <2>2. Latest = q
    BY <1>2, <2>1
  <2>3. QED
    BY <2>1, <2>2 DEF Pending, Owns
<1>5. QED
  BY <1>1, <1>3, <1>4 DEF LastFound

LEMMA LabEarns ==
  ASSUME Kept
  PROVE  VerdictEarned
<1>1. SUFFICES ASSUME NEW k \in Workers, job[k].kind = "chain", At(k, "close")
               PROVE  Earned(job[k].load, job[k].out)
  BY DEF VerdictEarned
<1>2. Place(job[k]) = 6
  BY <1>1, Here, PlaceOfStep, ScriptNames DEF Kept
<1>3. QED
  BY <1>1, <1>2 DEF Kept, CallsFit, Fits

LEMMA LabLists ==
  ASSUME ExperimentsAssumption, LabInv
  PROVE  FiledIsListed
<1> SUFFICES ASSUME ~tangled, NEW i \in filed
             PROVE  /\ json[i] \in Statuses /\ md[i] = json[i]
                    /\ index.file # "torn" => i \in Listed
                    /\ index.file = "torn" => kills > 0 \/ \E k \in Workers : At(k, "indexFull")
  BY DEF FiledIsListed
<1>1. Listing /\ index.file \in {None, "torn", "whole"} /\ "whole" # None
  BY DEF LabInv, Calm, Kept, TypeOK, ExperimentsAssumption
<1>2. index.file # "torn" => i \in Listed
  BY <1>1 DEF Listing, Listed
<1>3. index.file = "torn" => kills > 0 \/ \E k \in Workers : At(k, "indexFull")
  BY <1>1, WriteTails DEF Listing, At
<1>4. QED
  BY <1>1, <1>2, <1>3 DEF Listing

(* Every variable keeps its type; what the next reader finds after any     *)
(* chain; what the store promises of a receipt whose write returned.       *)
THEOREM LabPromises ==
  ExperimentsAssumption => (Spec => [](TypeOK /\ ChainsTold /\ FiledIsListed))
<1> SUFFICES ASSUME ExperimentsAssumption
             PROVE  Spec => [](TypeOK /\ ChainsTold /\ FiledIsListed)
  OBVIOUS
<1>1. Init => LabInv
  BY LabInvInit
<1>2. LabInv /\ [Next]_vars => LabInv'
  BY LabInvStep
<1>3. LabInv => TypeOK /\ ChainsTold /\ FiledIsListed
  BY LabHides, LabEarns, LabLists DEF LabInv, Kept, Inv, ChainsTold
<1>4. QED
  BY <1>1, <1>2, <1>3, PTL DEF Spec

-----------------------------------------------------------------------------
(***************************************************************************)
(* Rows of the chain: what every embed keeps of the row it is given.       *)
(***************************************************************************)
RowFields == {"feasible", "risk", "bad", "refused", "bill"}

MetricOf == [env_budget |-> "env", storm_env |-> "dose", traverse_mechanical |-> "jerk",
             dust_envelope |-> "dust", materials_thermal |-> "sigma",
             orbit_residual |-> "orbit", thermal_world |-> "cold", isru_sinter |-> "sinter",
             atm_drag |-> "drag", acoustic |-> "sound", li_qc |-> "bearing",
             albedo_dose |-> "albedo", dust_ingress |-> "ingress", janosi |-> "shear",
             radiation_rate |-> "rate", regolith_thermal |-> "conductivity"]
Shared == DOMAIN MetricOf \union {"ballistics_kepler"}

(* The part of the slice, or of two slices, a block takes for condition c. *)
BlockShare(w, c, b) ==
    IF b = "ballistics_kepler" THEN Field!Share(w.metric["hop"], c) + Field!Share(w.metric["kepler"], c)
                               ELSE Field!Share(w.metric[MetricOf[b]], c)

(* A row that refuses is infeasible and at risk, dust that gets in is a    *)
(* risk, every block bills its share, and a storm or a jerk of half a      *)
(* slice is bad.                                                           *)
Judges(w, c, row) ==
    /\ DOMAIN row = RowFields
    /\ row.feasible \in BOOLEAN /\ row.risk \in BOOLEAN
    /\ row.refused # {} \/ "blocked" \in w.found[c] => ~row.feasible /\ row.risk
    /\ "dust_ingress" \in row.bad => row.risk
    /\ \A b \in DOMAIN row.bill \ {"work", "drive_chain"} : row.bill[b] = BlockShare(w, c, b)
    /\ \A b \in {"storm_env", "traverse_mechanical"} :
          b \in DOMAIN row.bill /\ b \notin row.bad => 2 * row.bill[b] < FieldSlice

(* The row after an embed: no risk is taken back, its blocks are billed.   *)
Follows(w, c, row, next, blocks) ==
    /\ Judges(w, c, next)
    /\ row.risk => next.risk
    /\ DOMAIN next.bill = DOMAIN row.bill \union blocks

LEMMA FollowsOn ==
  ASSUME NEW w, NEW c, NEW row, NEW mid, NEW next, NEW these, NEW those,
         Follows(w, c, row, mid, these), Follows(w, c, mid, next, those)
  PROVE  Follows(w, c, row, next, these \union those)
BY DEF Follows

LEMMA FlagFollows ==
  ASSUME NEW w, NEW c, NEW row, Judges(w, c, row),
         NEW refuses \in BOOLEAN, NEW risks \in BOOLEAN
  PROVE  /\ Follows(w, c, row, Field!Flag(row, refuses, risks), {})
         /\ refuses \/ risks => Field!Flag(row, refuses, risks).risk
         /\ refuses => ~Field!Flag(row, refuses, risks).feasible
<1> DEFINE next == Field!Flag(row, refuses, risks)
<1>1. /\ DOMAIN next = RowFields /\ next.bad = row.bad /\ next.refused = row.refused
      /\ next.bill = row.bill
      /\ next.feasible = (row.feasible /\ ~refuses)
      /\ next.risk = (row.risk \/ refuses \/ risks)
  BY DEF Field!Flag, Judges, RowFields
<1> HIDE DEF next
<1>2. next.feasible \in BOOLEAN /\ next.risk \in BOOLEAN
  BY <1>1 DEF Judges
<1>3. /\ next.refused # {} \/ "blocked" \in w.found[c] => ~next.feasible /\ next.risk
      /\ "dust_ingress" \in next.bad => next.risk
      /\ row.risk => next.risk
  BY <1>1 DEF Judges
<1>4. Judges(w, c, next)
  BY <1>1, <1>2, <1>3 DEF Judges
<1>5. Follows(w, c, row, next, {})
  BY <1>1, <1>3, <1>4 DEF Follows
<1>6. QED
  BY <1>1, <1>5 DEF next

LEMMA BilledFollows ==
  ASSUME NEW w, NEW c, NEW row, Judges(w, c, row),
         NEW block, NEW joules, NEW ok \in BOOLEAN,
         block \notin {"work", "drive_chain"} => joules = BlockShare(w, c, block),
         block \in {"storm_env", "traverse_mechanical"} /\ ok => 2 * joules < FieldSlice,
         block = "dust_ingress" => ok \/ row.risk
  PROVE  Follows(w, c, row, Field!Billed(row, block, joules, ok), {block})
<1> DEFINE next == Field!Billed(row, block, joules, ok)
<1>1. /\ DOMAIN next = RowFields /\ next.refused = row.refused
      /\ next.feasible = row.feasible /\ next.risk = row.risk
      /\ next.bad = (IF ok THEN row.bad ELSE row.bad \union {block})
      /\ next.bill = [b \in DOMAIN row.bill \union {block} |->
                         IF b = block THEN joules ELSE row.bill[b]]
  BY DEF Field!Billed, Judges, RowFields
<1> HIDE DEF next
<1>2. /\ DOMAIN next.bill = DOMAIN row.bill \union {block} /\ next.bill[block] = joules
      /\ \A b \in DOMAIN row.bill \ {block} : next.bill[b] = row.bill[b]
  BY <1>1
<1>3. \A b \in DOMAIN next.bill \ {"work", "drive_chain"} : next.bill[b] = BlockShare(w, c, b)
  BY <1>2 DEF Judges
<1>4. ASSUME NEW b \in {"storm_env", "traverse_mechanical"}, b \in DOMAIN next.bill,
             b \notin next.bad
      PROVE  2 * next.bill[b] < FieldSlice
  <2>1. CASE b = block
    <3>1. ok
      BY <1>1, <1>4, <2>1
    <3>2. QED
      BY <1>2, <2>1, <3>1
  <2>2. CASE b # block
    <3>1. b \in DOMAIN row.bill /\ b \notin row.bad
      BY <1>1, <1>2, <1>4, <2>2
    <3>2. QED
      BY <1>2, <2>2, <3>1 DEF Judges
  <2>3. QED
    BY <2>1, <2>2
<1>5. "dust_ingress" \in next.bad => next.risk
  BY <1>1 DEF Judges
<1>6. Judges(w, c, next)
  BY <1>1, <1>3, <1>4, <1>5 DEF Judges
<1>7. QED
  BY <1>1, <1>2, <1>6 DEF Follows, next

LEMMA RefusedFollows ==
  ASSUME NEW w, NEW c, NEW row, Judges(w, c, row), NEW block, NEW refuses \in BOOLEAN,
         refuses => ~row.feasible /\ row.risk
  PROVE  Follows(w, c, row, Field!Refused(row, block, refuses), {})
<1> DEFINE next == Field!Refused(row, block, refuses)
<1>1. /\ DOMAIN next = RowFields /\ next.bad = row.bad /\ next.bill = row.bill
      /\ next.feasible = row.feasible /\ next.risk = row.risk
      /\ next.refused = (IF refuses THEN row.refused \union {block} ELSE row.refused)
  BY DEF Field!Refused, Judges, RowFields
<1> HIDE DEF next
<1>2. next.refused # {} => refuses \/ row.refused # {}
  BY <1>1
<1>3. Judges(w, c, next)
  BY <1>1, <1>2 DEF Judges
<1>4. QED
  BY <1>1, <1>3 DEF Follows, next

(* Flags first and the refusal after it.                                   *)
LEMMA RefusalFollows ==
  ASSUME NEW w, NEW c, NEW row, Judges(w, c, row), NEW block,
         NEW refuses \in BOOLEAN, NEW risks \in BOOLEAN
  PROVE  Follows(w, c, row, Field!Refused(Field!Flag(row, refuses, risks), block, refuses), {})
<1> DEFINE mid == Field!Flag(row, refuses, risks)
<1>1. /\ Follows(w, c, row, mid, {})
      /\ refuses => ~mid.feasible /\ mid.risk
  BY FlagFollows
<1> HIDE DEF mid
<1>2. Follows(w, c, mid, Field!Refused(mid, block, refuses), {})
  BY <1>1, RefusedFollows DEF Follows
<1>3. Follows(w, c, row, Field!Refused(mid, block, refuses), {} \union {})
  BY <1>1, <1>2, FollowsOn
<1>4. QED
  BY <1>3 DEF mid

LEMMA SharedBlocks ==
  /\ MetricOf["env_budget"] = "env" /\ MetricOf["storm_env"] = "dose"
  /\ MetricOf["traverse_mechanical"] = "jerk" /\ MetricOf["dust_envelope"] = "dust"
  /\ MetricOf["materials_thermal"] = "sigma" /\ MetricOf["orbit_residual"] = "orbit"
  /\ MetricOf["thermal_world"] = "cold" /\ MetricOf["isru_sinter"] = "sinter"
  /\ MetricOf["atm_drag"] = "drag" /\ MetricOf["acoustic"] = "sound"
  /\ MetricOf["li_qc"] = "bearing" /\ MetricOf["albedo_dose"] = "albedo"
  /\ MetricOf["dust_ingress"] = "ingress" /\ MetricOf["janosi"] = "shear"
  /\ MetricOf["radiation_rate"] = "rate" /\ MetricOf["regolith_thermal"] = "conductivity"
  /\ Shared = {"env_budget", "storm_env", "traverse_mechanical", "dust_envelope",
               "materials_thermal", "orbit_residual", "thermal_world", "isru_sinter",
               "atm_drag", "acoustic", "li_qc", "albedo_dose", "dust_ingress", "janosi",
               "radiation_rate", "regolith_thermal", "ballistics_kepler"}
  /\ \A b \in DOMAIN MetricOf : MetricOf[b] \in Field!Metrics
BY DEF MetricOf, Shared, Field!Metrics

(* A priced block bills its share and is bad from half a slice on.         *)
LEMMA PricedFollows ==
  ASSUME NEW w, NEW c, NEW row, Judges(w, c, row), NEW block, NEW metric,
         block \notin {"work", "drive_chain", "ballistics_kepler", "dust_ingress"},
         MetricOf[block] = metric
  PROVE  Follows(w, c, row, Field!Priced(w, c, row, block, metric), {block})
<1> DEFINE joules == Field!Share(w.metric[metric], c)
           ok == 2 * joules < FieldSlice
<1>1. joules = BlockShare(w, c, block)
  BY DEF BlockShare
<1>2. ok \in BOOLEAN
  OBVIOUS
<1>3. Field!Priced(w, c, row, block, metric) = Field!Billed(row, block, joules, ok)
  BY DEF Field!Priced
<1>4. ok => 2 * joules < FieldSlice
  OBVIOUS
<1> HIDE DEF joules, ok
<1>5. QED
  BY <1>1, <1>2, <1>3, <1>4, BilledFollows

(* A block that is only billed.                                            *)
LEMMA BillFollows ==
  ASSUME NEW w, NEW c, NEW row, Judges(w, c, row), NEW block,
         block \notin {"work", "drive_chain", "dust_ingress", "storm_env", "traverse_mechanical"},
         NEW joules, joules = BlockShare(w, c, block)
  PROVE  Follows(w, c, row, Field!Billed(row, block, joules, TRUE), {block})
BY BilledFollows

LEMMA ShareOf ==
  ASSUME NEW w, NEW c, NEW block, block # "ballistics_kepler"
  PROVE  BlockShare(w, c, block) = Field!Share(w.metric[MetricOf[block]], c)
BY DEF BlockShare

(* The embeds that price, or only bill, their block.                        *)
LEMMA PricedEmbeds ==
  ASSUME NEW w, NEW c, NEW row, Judges(w, c, row)
  PROVE  /\ Follows(w, c, row, Field!StormEnv(w, c, row), {"storm_env"})
         /\ Follows(w, c, row, Field!TraverseMechanical(w, c, row), {"traverse_mechanical"})
         /\ Follows(w, c, row, Field!MaterialsThermal(w, c, row), {"materials_thermal"})
         /\ Follows(w, c, row, Field!IsruSinter(w, c, row), {"isru_sinter"})
         /\ Follows(w, c, row, Field!Acoustic(w, c, row), {"acoustic"})
         /\ Follows(w, c, row, Field!LiQc(w, c, row), {"li_qc"})
         /\ Follows(w, c, row, Field!AlbedoDose(w, c, row), {"albedo_dose"})
         /\ Follows(w, c, row, Field!Janosi(w, c, row), {"janosi"})
         /\ Follows(w, c, row, Field!RadiationRate(w, c, row), {"radiation_rate"})
         /\ Follows(w, c, row, Field!RegolithThermal(w, c, row), {"regolith_thermal"})
<1>1. Follows(w, c, row, Field!StormEnv(w, c, row), {"storm_env"})
  BY PricedFollows, SharedBlocks DEF Field!StormEnv
<1>2. Follows(w, c, row, Field!TraverseMechanical(w, c, row), {"traverse_mechanical"})
  BY PricedFollows, SharedBlocks DEF Field!TraverseMechanical
<1>3. Follows(w, c, row, Field!MaterialsThermal(w, c, row), {"materials_thermal"})
  BY PricedFollows, SharedBlocks DEF Field!MaterialsThermal
<1>4. Follows(w, c, row, Field!IsruSinter(w, c, row), {"isru_sinter"})
  BY PricedFollows, SharedBlocks DEF Field!IsruSinter
<1>5. Follows(w, c, row, Field!Acoustic(w, c, row), {"acoustic"})
  BY PricedFollows, SharedBlocks DEF Field!Acoustic
<1>6. Follows(w, c, row, Field!LiQc(w, c, row), {"li_qc"})
  BY PricedFollows, SharedBlocks DEF Field!LiQc
<1>7. Follows(w, c, row, Field!AlbedoDose(w, c, row), {"albedo_dose"})
  BY PricedFollows, SharedBlocks DEF Field!AlbedoDose
<1>8. Follows(w, c, row, Field!Janosi(w, c, row), {"janosi"})
  BY PricedFollows, SharedBlocks DEF Field!Janosi
<1>9. Follows(w, c, row, Field!RadiationRate(w, c, row), {"radiation_rate"})
  BY PricedFollows, SharedBlocks DEF Field!RadiationRate
<1>10. Follows(w, c, row, Field!RegolithThermal(w, c, row), {"regolith_thermal"})
  BY PricedFollows, SharedBlocks DEF Field!RegolithThermal
<1>11. QED
  BY <1>1, <1>2, <1>3, <1>4, <1>5, <1>6, <1>7, <1>8, <1>9, <1>10

LEMMA BilledEmbeds ==
  ASSUME NEW w, NEW c, NEW row, Judges(w, c, row)
  PROVE  /\ Follows(w, c, row, Field!EnvBudget(w, c, row), {"env_budget"})
         /\ Follows(w, c, row, Field!OrbitResidual(w, c, row), {"orbit_residual"})
         /\ Follows(w, c, row, Field!AtmDrag(w, c, row), {"atm_drag"})
         /\ Follows(w, c, row, Field!BallisticsKepler(w, c, row), {"ballistics_kepler"})
         /\ Follows(w, c, row, Field!DriveChain(w, c, row), {"drive_chain"})
         /\ Follows(w, c, row, Field!FatigueOptics(w, c, row), {})
<1>1. Follows(w, c, row, Field!EnvBudget(w, c, row), {"env_budget"})
  BY BillFollows, ShareOf, SharedBlocks DEF Field!EnvBudget
<1>2. Follows(w, c, row, Field!OrbitResidual(w, c, row), {"orbit_residual"})
  BY BillFollows, ShareOf, SharedBlocks DEF Field!OrbitResidual
<1>3. Follows(w, c, row, Field!AtmDrag(w, c, row), {"atm_drag"})
  BY BillFollows, ShareOf, SharedBlocks DEF Field!AtmDrag
<1>4. Follows(w, c, row, Field!BallisticsKepler(w, c, row), {"ballistics_kepler"})
  BY BillFollows DEF Field!BallisticsKepler, BlockShare
<1>5. Follows(w, c, row, Field!DriveChain(w, c, row), {"drive_chain"})
  BY BilledFollows DEF Field!DriveChain
<1>6. Follows(w, c, row, Field!FatigueOptics(w, c, row), {})
  BY DEF Field!FatigueOptics, Follows
<1>7. QED
  BY <1>1, <1>2, <1>3, <1>4, <1>5, <1>6

(* The embeds that flag the row.                                           *)
LEMMA FlagEmbeds ==
  ASSUME NEW w, NEW c, NEW row, Judges(w, c, row)
  PROVE  /\ Follows(w, c, row, Field!EarthLane(w, c, row), {})
         /\ Follows(w, c, row, Field!SlopeRut(w, c, row), {})
         /\ Follows(w, c, row, Field!EnvelopeRefuse(w, c, row), {})
         /\ Follows(w, c, row, Field!ThermalWorld(w, c, row), {"thermal_world"})
         /\ Follows(w, c, row, Field!DustEnvelope(w, c, row), {"dust_envelope"})
         /\ c = "hostile" => Field!DustEnvelope(w, c, row).risk
<1>1. Follows(w, c, row, Field!EarthLane(w, c, row), {})
  <2> DEFINE refuses == "earth_refuses" \in w.found[c]
             risks == "earth_risks" \in w.found[c]
  <2>1. refuses \in BOOLEAN /\ risks \in BOOLEAN
    OBVIOUS
  <2>2. Field!EarthLane(w, c, row) = Field!Refused(Field!Flag(row, refuses, risks), "earth_lane", refuses)
    BY DEF Field!EarthLane
  <2> HIDE DEF refuses, risks
  <2>3. QED
    BY <2>1, <2>2, RefusalFollows
<1>2. Follows(w, c, row, Field!SlopeRut(w, c, row), {})
  BY RefusalFollows DEF Field!SlopeRut
<1>3. Follows(w, c, row, Field!EnvelopeRefuse(w, c, row), {})
  <2> DEFINE refuses == "outside" \in w.found[c]
             risks == refuses
  <2>1. refuses \in BOOLEAN /\ risks \in BOOLEAN
    OBVIOUS
  <2>2. Field!EnvelopeRefuse(w, c, row) = Field!Refused(Field!Flag(row, refuses, risks), "envelope_refuse", refuses)
    BY DEF Field!EnvelopeRefuse
  <2> HIDE DEF refuses, risks
  <2>3. QED
    BY <2>1, <2>2, RefusalFollows
<1>4. Follows(w, c, row, Field!ThermalWorld(w, c, row), {"thermal_world"})
  <2> DEFINE mid == Field!Billed(row, "thermal_world", Field!Share(w.metric["cold"], c), TRUE)
  <2>1. Follows(w, c, row, mid, {"thermal_world"})
    BY BillFollows, ShareOf, SharedBlocks
  <2> HIDE DEF mid
  <2>2. Follows(w, c, mid, Field!Flag(mid, FALSE, c = "hostile"), {})
    BY <2>1, FlagFollows DEF Follows
  <2>3. Follows(w, c, row, Field!Flag(mid, FALSE, c = "hostile"), {"thermal_world"} \union {})
    BY <2>1, <2>2, FollowsOn
  <2>4. QED
    BY <2>3 DEF Field!ThermalWorld, mid
<1>5. /\ Follows(w, c, row, Field!DustEnvelope(w, c, row), {"dust_envelope"})
      /\ c = "hostile" => Field!DustEnvelope(w, c, row).risk
  <2> DEFINE mid == Field!Billed(row, "dust_envelope", Field!Share(w.metric["dust"], c), TRUE)
             risks == "lofts" \in w.found[c] \/ c = "hostile"
  <2>1. Follows(w, c, row, mid, {"dust_envelope"})
    BY BillFollows, ShareOf, SharedBlocks
  <2>2. risks \in BOOLEAN /\ (c = "hostile" => risks)
    OBVIOUS
  <2>3. Field!DustEnvelope(w, c, row) = Field!Flag(mid, FALSE, risks)
    BY DEF Field!DustEnvelope
  <2> HIDE DEF mid, risks
  <2>4. /\ Follows(w, c, mid, Field!Flag(mid, FALSE, risks), {})
        /\ risks => Field!Flag(mid, FALSE, risks).risk
    BY <2>1, <2>2, FlagFollows DEF Follows
  <2>5. Follows(w, c, row, Field!Flag(mid, FALSE, risks), {"dust_envelope"} \union {})
    BY <2>1, <2>4, FollowsOn
  <2>6. QED
    BY <2>2, <2>3, <2>4, <2>5
<1>6. QED
  BY <1>1, <1>2, <1>3, <1>4, <1>5

(* Dust ingress: the flag goes with the bad block.                         *)
LEMMA DustIngressFollows ==
  ASSUME NEW w, NEW c, NEW row, Judges(w, c, row)
  PROVE  Follows(w, c, row, Field!DustIngress(w, c, row), {"dust_ingress"})
<1> DEFINE joules == Field!Share(w.metric["ingress"], c)
           ok == 2 * joules < FieldSlice /\ "severe" \notin w.found[c]
           mid == Field!Flag(row, FALSE, ~ok)
<1>1. Field!DustIngress(w, c, row) = Field!Flag(Field!Billed(row, "dust_ingress", joules, ok), FALSE, ~ok)
  BY DEF Field!DustIngress
<1>2. ok \in BOOLEAN /\ joules = BlockShare(w, c, "dust_ingress")
  BY ShareOf, SharedBlocks
<1> HIDE DEF joules, ok
<1>3. Follows(w, c, row, mid, {}) /\ (~ok => mid.risk)
  BY <1>2, FlagFollows
<1>4. Field!Flag(Field!Billed(row, "dust_ingress", joules, ok), FALSE, ~ok)
        = Field!Billed(mid, "dust_ingress", joules, ok)
  BY DEF Field!Flag, Field!Billed, Judges, RowFields
<1> HIDE DEF mid
<1>5. Follows(w, c, mid, Field!Billed(mid, "dust_ingress", joules, ok), {"dust_ingress"})
  BY <1>2, <1>3, BilledFollows DEF Follows
<1>6. Follows(w, c, row, Field!Billed(mid, "dust_ingress", joules, ok), {} \union {"dust_ingress"})
  BY <1>3, <1>5, FollowsOn
<1>7. QED
  BY <1>1, <1>4, <1>6

LEMMA BekkerJudges ==
  ASSUME NEW w, NEW c
  PROVE  Judges(w, c, Field!BekkerRow(w, c)) /\ DOMAIN Field!BekkerRow(w, c).bill = {"work"}
BY DEF Field!BekkerRow, Judges, RowFields

(* The chain of all the embeds: its row judges, the hostile side is always *)
(* at risk, and it bills the same blocks whatever the condition.           *)
LEMMA ChainJudges ==
  ASSUME NEW w, NEW c
  PROVE  /\ Judges(w, c, Field!Chain(w, c))
         /\ c = "hostile" => Field!Chain(w, c).risk
         /\ DOMAIN Field!Chain(w, c).bill = {"work", "drive_chain"} \union Shared
<1> DEFINE a0 == Field!BekkerRow(w, c)
           a1 == Field!EarthLane(w, c, a0)
           a2 == Field!DriveChain(w, c, a1)
           a3 == Field!EnvBudget(w, c, a2)
           a4 == Field!StormEnv(w, c, a3)
           a5 == Field!SlopeRut(w, c, a4)
           a6 == Field!TraverseMechanical(w, c, a5)
           a7 == Field!FatigueOptics(w, c, a6)
           a8 == Field!DustEnvelope(w, c, a7)
           a9 == Field!MaterialsThermal(w, c, a8)
           a10 == Field!OrbitResidual(w, c, a9)
           a11 == Field!BallisticsKepler(w, c, a10)
           a12 == Field!ThermalWorld(w, c, a11)
           a13 == Field!IsruSinter(w, c, a12)
           a14 == Field!AtmDrag(w, c, a13)
           a15 == Field!Acoustic(w, c, a14)
           a16 == Field!LiQc(w, c, a15)
           a17 == Field!AlbedoDose(w, c, a16)
           a18 == Field!DustIngress(w, c, a17)
           a19 == Field!Janosi(w, c, a18)
           a20 == Field!RadiationRate(w, c, a19)
           a21 == Field!EnvelopeRefuse(w, c, a20)
           a22 == Field!RegolithThermal(w, c, a21)
<1>1. Field!Chain(w, c) = a22
  BY DEF Field!Chain
<1>2. /\ a0 = Field!BekkerRow(w, c)
      /\ a1 = Field!EarthLane(w, c, a0)
      /\ a2 = Field!DriveChain(w, c, a1)
      /\ a3 = Field!EnvBudget(w, c, a2)
      /\ a4 = Field!StormEnv(w, c, a3)
      /\ a5 = Field!SlopeRut(w, c, a4)
      /\ a6 = Field!TraverseMechanical(w, c, a5)
      /\ a7 = Field!FatigueOptics(w, c, a6)
      /\ a8 = Field!DustEnvelope(w, c, a7)
      /\ a9 = Field!MaterialsThermal(w, c, a8)
      /\ a10 = Field!OrbitResidual(w, c, a9)
      /\ a11 = Field!BallisticsKepler(w, c, a10)
      /\ a12 = Field!ThermalWorld(w, c, a11)
      /\ a13 = Field!IsruSinter(w, c, a12)
      /\ a14 = Field!AtmDrag(w, c, a13)
      /\ a15 = Field!Acoustic(w, c, a14)
      /\ a16 = Field!LiQc(w, c, a15)
      /\ a17 = Field!AlbedoDose(w, c, a16)
      /\ a18 = Field!DustIngress(w, c, a17)
      /\ a19 = Field!Janosi(w, c, a18)
      /\ a20 = Field!RadiationRate(w, c, a19)
      /\ a21 = Field!EnvelopeRefuse(w, c, a20)
      /\ a22 = Field!RegolithThermal(w, c, a21)
  OBVIOUS
<1> HIDE DEF a0, a1, a2, a3, a4, a5, a6, a7, a8, a9, a10, a11, a12, a13, a14, a15, a16, a17,
   a18, a19, a20, a21, a22
<1>3. Judges(w, c, a0) /\ DOMAIN a0.bill = {"work"}
  BY <1>2, BekkerJudges
<1>4. Follows(w, c, a0, a1, {})
  BY <1>2, <1>3, PricedEmbeds, BilledEmbeds, FlagEmbeds, DustIngressFollows DEF Follows
<1>5. Follows(w, c, a1, a2, {"drive_chain"})
  BY <1>2, <1>4, PricedEmbeds, BilledEmbeds, FlagEmbeds, DustIngressFollows DEF Follows
<1>6. Follows(w, c, a2, a3, {"env_budget"})
  BY <1>2, <1>5, PricedEmbeds, BilledEmbeds, FlagEmbeds, DustIngressFollows DEF Follows
<1>7. Follows(w, c, a3, a4, {"storm_env"})
  BY <1>2, <1>6, PricedEmbeds, BilledEmbeds, FlagEmbeds, DustIngressFollows DEF Follows
<1>8. Follows(w, c, a4, a5, {})
  BY <1>2, <1>7, PricedEmbeds, BilledEmbeds, FlagEmbeds, DustIngressFollows DEF Follows
<1>9. Follows(w, c, a5, a6, {"traverse_mechanical"})
  BY <1>2, <1>8, PricedEmbeds, BilledEmbeds, FlagEmbeds, DustIngressFollows DEF Follows
<1>10. Follows(w, c, a6, a7, {})
  BY <1>2, <1>9, PricedEmbeds, BilledEmbeds, FlagEmbeds, DustIngressFollows DEF Follows
<1>11. Follows(w, c, a7, a8, {"dust_envelope"}) /\ (c = "hostile" => a8.risk)
  BY <1>2, <1>10, PricedEmbeds, BilledEmbeds, FlagEmbeds, DustIngressFollows DEF Follows
<1>12. Follows(w, c, a8, a9, {"materials_thermal"})
  BY <1>2, <1>11, PricedEmbeds, BilledEmbeds, FlagEmbeds, DustIngressFollows DEF Follows
<1>13. Follows(w, c, a9, a10, {"orbit_residual"})
  BY <1>2, <1>12, PricedEmbeds, BilledEmbeds, FlagEmbeds, DustIngressFollows DEF Follows
<1>14. Follows(w, c, a10, a11, {"ballistics_kepler"})
  BY <1>2, <1>13, PricedEmbeds, BilledEmbeds, FlagEmbeds, DustIngressFollows DEF Follows
<1>15. Follows(w, c, a11, a12, {"thermal_world"})
  BY <1>2, <1>14, PricedEmbeds, BilledEmbeds, FlagEmbeds, DustIngressFollows DEF Follows
<1>16. Follows(w, c, a12, a13, {"isru_sinter"})
  BY <1>2, <1>15, PricedEmbeds, BilledEmbeds, FlagEmbeds, DustIngressFollows DEF Follows
<1>17. Follows(w, c, a13, a14, {"atm_drag"})
  BY <1>2, <1>16, PricedEmbeds, BilledEmbeds, FlagEmbeds, DustIngressFollows DEF Follows
<1>18. Follows(w, c, a14, a15, {"acoustic"})
  BY <1>2, <1>17, PricedEmbeds, BilledEmbeds, FlagEmbeds, DustIngressFollows DEF Follows
<1>19. Follows(w, c, a15, a16, {"li_qc"})
  BY <1>2, <1>18, PricedEmbeds, BilledEmbeds, FlagEmbeds, DustIngressFollows DEF Follows
<1>20. Follows(w, c, a16, a17, {"albedo_dose"})
  BY <1>2, <1>19, PricedEmbeds, BilledEmbeds, FlagEmbeds, DustIngressFollows DEF Follows
<1>21. Follows(w, c, a17, a18, {"dust_ingress"})
  BY <1>2, <1>20, PricedEmbeds, BilledEmbeds, FlagEmbeds, DustIngressFollows DEF Follows
<1>22. Follows(w, c, a18, a19, {"janosi"})
  BY <1>2, <1>21, PricedEmbeds, BilledEmbeds, FlagEmbeds, DustIngressFollows DEF Follows
<1>23. Follows(w, c, a19, a20, {"radiation_rate"})
  BY <1>2, <1>22, PricedEmbeds, BilledEmbeds, FlagEmbeds, DustIngressFollows DEF Follows
<1>24. Follows(w, c, a20, a21, {})
  BY <1>2, <1>23, PricedEmbeds, BilledEmbeds, FlagEmbeds, DustIngressFollows DEF Follows
<1>25. Follows(w, c, a21, a22, {"regolith_thermal"})
  BY <1>2, <1>24, PricedEmbeds, BilledEmbeds, FlagEmbeds, DustIngressFollows DEF Follows
<1>26. c = "hostile" => a22.risk
  BY <1>11, <1>12, <1>13, <1>14, <1>15, <1>16, <1>17, <1>18, <1>19, <1>20, <1>21, <1>22, <1>23,
     <1>24, <1>25 DEF Follows
<1>27. DOMAIN a10.bill = {"work"} \union {"drive_chain", "env_budget", "storm_env",
   "traverse_mechanical", "dust_envelope", "materials_thermal", "orbit_residual"}
  BY <1>3, <1>4, <1>5, <1>6, <1>7, <1>8, <1>9, <1>10, <1>11, <1>12, <1>13 DEF Follows
<1>28. DOMAIN a22.bill = DOMAIN a10.bill \union {"ballistics_kepler", "thermal_world",
   "isru_sinter", "atm_drag", "acoustic", "li_qc", "albedo_dose", "dust_ingress", "janosi",
   "radiation_rate", "regolith_thermal"}
  BY <1>14, <1>15, <1>16, <1>17, <1>18, <1>19, <1>20, <1>21, <1>22, <1>23, <1>24, <1>25 DEF
     Follows
<1>29. DOMAIN a22.bill = {"work", "drive_chain"} \union Shared
  BY <1>27, <1>28, SharedBlocks
<1>30. QED
  BY <1>1, <1>25, <1>26, <1>29 DEF Follows

-----------------------------------------------------------------------------
(***************************************************************************)
(* The judgement of a row, and what two sides share.                       *)
(***************************************************************************)
LEMMA RowJudged ==
  ASSUME NEW w, NEW c \in Field!Conditions, NEW row, Judges(w, c, row), c = "hostile" => row.risk
  PROVE  /\ row.refused # {} \/ "blocked" \in w.found[c] =>
              ~row.feasible /\ row.risk /\ ~Field!Allowed(w, c, row)
         /\ Field!Lie(w, c, row) \in {0, 1}
         /\ Field!Lie(w, c, row) = 1 =>
              c = "safe" /\ Field!Modes(w, c, row) \subseteq {"storm_dose", "traverse_jerk", "seal_open"}
         /\ c = "hostile" => ~Field!Allowed(w, c, row) /\ Field!LoopOk(c, row)
<1>1. row.risk => Field!Command(row) = "recover" /\ ~Field!Allowed(w, c, row)
  BY DEF Field!Command, Field!Allowed
<1>2. row.risk => "sinkage_risk" \in Field!Modes(w, c, row)
  BY DEF Field!Modes
<1>3. Field!Command(row) = "recover" => row.risk \/ "traverse_blocked" \in Field!Modes(w, c, row)
  BY DEF Field!Command, Field!Modes
<1>4. Field!Command(row) \in {"recover", "traverse"}
  BY DEF Field!Command
<1>5. Field!Command(row) = "recover" => ~Field!Passes(w, c, row)
  BY <1>2, <1>3 DEF Field!Passes
<1>6. Field!Lie(w, c, row) = 1 => Field!Command(row) = "traverse"
  <2>1. SUFFICES ASSUME Field!Command(row) = "recover" PROVE Field!Lie(w, c, row) # 1
    BY <1>4
  <2>2. (Field!Command(row) = "traverse") = Field!Passes(w, c, row)
    BY <1>5, <2>1 DEF Field!Passes
  <2>3. Field!Lie(w, c, row) = 0
    BY <2>2 DEF Field!Lie
  <2>4. QED
    BY <2>3
<1>7. Field!Command(row) = "traverse" =>
        row.feasible /\ ~row.risk /\ "dust_ingress" \notin row.bad /\ row.refused = {}
  BY DEF Field!Command, Judges
<1>8. Field!Command(row) = "traverse" =>
        Field!Modes(w, c, row) \subseteq {"storm_dose", "traverse_jerk", "seal_open"}
  <2>1. SUFFICES ASSUME Field!Command(row) = "traverse"
                 PROVE  Field!Modes(w, c, row) \subseteq {"storm_dose", "traverse_jerk", "seal_open"}
    OBVIOUS
  <2>2. c # "hostile" /\ row.feasible /\ ~row.risk /\ "dust_ingress" \notin row.bad /\ row.refused = {}
    BY <1>7, <2>1
  <2>3. QED
    BY <2>2 DEF Field!Modes
<1>9. c = "hostile" => Field!LoopOk(c, row)
  BY <1>1 DEF Field!LoopOk, Field!Stub
<1>10. Field!Lie(w, c, row) = 1 => c = "safe"
  BY <1>1, <1>6, <1>7 DEF Field!Conditions
<1>11. row.refused # {} \/ "blocked" \in w.found[c] => ~row.feasible /\ row.risk
  BY DEF Judges
<1>12. Field!Lie(w, c, row) \in {0, 1}
  BY DEF Field!Lie
<1>13. QED
  BY <1>1, <1>6, <1>8, <1>9, <1>10, <1>11, <1>12

LEMMA ShareDivMul ==
  ASSUME NEW a \in Nat, NEW b \in Nat, b # 0
  PROVE  (a * b) \div b = a
<1> DEFINE d == (a * b) \div b
<1>1. d \in Int /\ a * b \in Nat
  OBVIOUS
<1>2. b * d <= a * b /\ a * b < b * (d + 1)
  OBVIOUS
<1> HIDE DEF d
<1>3. ~(d < a)
  <2>1. SUFFICES ASSUME d < a PROVE FALSE
    OBVIOUS
  <2>2. d + 1 <= a
    BY <1>1, <2>1
  <2>3. b * (d + 1) <= b * a
    BY <1>1, <2>2
  <2>4. QED
    BY <1>1, <1>2, <2>3
<1>4. ~(d > a)
  <2>1. SUFFICES ASSUME d > a PROVE FALSE
    OBVIOUS
  <2>2. a + 1 <= d
    BY <1>1, <2>1
  <2>3. b * (a + 1) <= b * d /\ b * (a + 1) = b * a + b
    BY <1>1, <2>2
  <2>4. QED
    BY <1>1, <1>2, <2>3
<1>5. d = a
  <2>1. d \in Int
    BY <1>1
  <2>2. QED
    BY <2>1, <1>3, <1>4
<1>6. QED
  BY <1>5 DEF d

(* The two sides of a pair share out the slice.                            *)
LEMMA PairShares ==
  ASSUME Field!ProbeAssumption, NEW a \in FieldAtlases, NEW lane \in FieldLanes, NEW m \in Field!Metrics
  PROVE  LET pair == a[lane].metric[m]
         IN /\ Field!Share(pair, "safe") \in Nat /\ Field!Share(pair, "hostile") \in Nat
            /\ Field!Share(pair, "safe") + Field!Share(pair, "hostile") \in {0, FieldSlice}
<1> DEFINE pair == a[lane].metric[m]
           s == pair["safe"]
           h == pair["hostile"]
<1>1. a[lane] \in Field!World /\ FieldSlice \in Nat
  BY DEF Field!ProbeAssumption
<1>2. s \in Nat /\ h \in Nat
  BY <1>1 DEF Field!World, Field!Conditions
<1>3. s + h # 0 => \E unit \in 0..FieldSlice : FieldSlice = unit * (s + h)
  BY DEF Field!ProbeAssumption
<1>4. /\ Field!Share(pair, "safe") = IF s + h = 0 THEN 0 ELSE (FieldSlice * s) \div (s + h)
      /\ Field!Share(pair, "hostile") = IF s + h = 0 THEN 0 ELSE (FieldSlice * h) \div (s + h)
  BY DEF Field!Share
<1> HIDE DEF pair, s, h
<1> DEFINE Goal == /\ Field!Share(pair, "safe") \in Nat /\ Field!Share(pair, "hostile") \in Nat
                   /\ Field!Share(pair, "safe") + Field!Share(pair, "hostile") \in {0, FieldSlice}
<1>5. ASSUME s + h = 0 PROVE Goal
  BY <1>4, <1>5
<1>6. ASSUME s + h # 0 PROVE Goal
  <2>1. PICK unit \in 0..FieldSlice : FieldSlice = unit * (s + h)
    BY <1>3, <1>6
  <2>2. unit \in Nat /\ s + h \in Nat
    BY <1>1, <1>2, <2>1
  <2> DEFINE us == unit * s
             uh == unit * h
  <2>3. FieldSlice * s = us * (s + h) /\ FieldSlice * h = uh * (s + h) /\ us \in Nat /\ uh \in Nat
    BY <1>2, <2>1, <2>2
  <2>4. us + uh = FieldSlice
    BY <1>2, <2>1, <2>2
  <2> HIDE DEF us, uh
  <2>5. Field!Share(pair, "safe") = us
    BY <1>4, <1>6, <2>2, <2>3, ShareDivMul
  <2>6. Field!Share(pair, "hostile") = uh
    BY <1>4, <1>6, <2>2, <2>3, ShareDivMul
  <2>7. QED
    BY <2>3, <2>4, <2>5, <2>6
<1>7. QED
  BY <1>5, <1>6 DEF pair

LEMMA SidesShare ==
  ASSUME Field!ProbeAssumption, NEW a \in FieldAtlases, NEW lane \in FieldLanes, NEW b \in Shared
  PROVE  LET w == a[lane]
             sum == BlockShare(w, "safe", b) + BlockShare(w, "hostile", b)
         IN /\ sum \in (IF b = "ballistics_kepler" THEN {0, FieldSlice, 2 * FieldSlice} ELSE {0, FieldSlice})
            /\ BlockShare(w, "safe", b) \in Nat /\ BlockShare(w, "hostile", b) \in Nat
<1>1. FieldSlice \in Nat
  BY DEF Field!ProbeAssumption
<1>2. CASE b = "ballistics_kepler"
  <2>1. "hop" \in Field!Metrics /\ "kepler" \in Field!Metrics
    BY DEF Field!Metrics
  <2>2. QED
    BY <1>1, <1>2, <2>1, PairShares DEF BlockShare
<1>3. CASE b # "ballistics_kepler"
  <2>1. MetricOf[b] \in Field!Metrics
    BY <1>3, SharedBlocks DEF Shared
  <2>2. QED
    BY <1>1, <1>3, <2>1, PairShares DEF BlockShare
<1>4. QED
  BY <1>2, <1>3

-----------------------------------------------------------------------------
(* A receipt tells the judgement of the chain of its lane, which is the    *)
(* lane of the body where the body has one.                                *)
Filed(d, c) ==
    LET w == fieldAtlas[d.lane] IN
    /\ d.cond = c /\ d.lane \in FieldLanes /\ d.row = Field!Chain(w, c)
    /\ d.modes = Field!Modes(w, c, d.row) /\ d.allowed = Field!Allowed(w, c, d.row)
    /\ d.lie = Field!Lie(w, c, d.row) /\ d.loop = Field!LoopOk(c, d.row)
    /\ d.body # None => d.lane = d.body

ProbeInv ==
    /\ fieldAtlas \in FieldAtlases /\ fieldArm \in BOOLEAN
    /\ fieldSession \in FieldLanes \union {None} /\ fieldBound \in FieldLanes \union {None}
    /\ fieldRun # None => /\ fieldRun = [step |-> fieldRun.step, doc |-> fieldRun.doc]
                      /\ fieldRun.step \in {"judge", "file"} /\ fieldRun.doc.cond \in Field!Conditions
                      /\ Filed(fieldRun.doc, fieldRun.doc.cond)
    /\ DOMAIN fieldDocs = Field!Conditions
    /\ \A c \in Field!Conditions : fieldDocs[c] # None => Filed(fieldDocs[c], c)
    /\ fieldLies \in Nat /\ fieldProbes \in 0..FieldMaxRuns /\ fieldLies <= fieldProbes
    /\ fieldRun # None /\ fieldRun.step = "judge" => fieldLies + 1 <= fieldProbes

LEMMA ProbeInvInit ==
  ASSUME Field!ProbeAssumption, Field!Init
  PROVE  ProbeInv
BY DEF Field!Init, ProbeInv, Field!ProbeAssumption

LEMMA StartKeeps ==
  ASSUME Field!ProbeAssumption, ProbeInv, NEW c \in Field!Conditions, Field!Start(c)
  PROVE  ProbeInv'
<1>1. PICK lane \in FieldLanes :
        /\ Field!LaneOf # None => lane = Field!LaneOf
        /\ fieldRun' = [step |-> "judge", doc |-> Field!Receipt(c, Field!Chain(fieldAtlas[lane], c), lane, fieldAtlas[lane])]
  BY DEF Field!Start
<1>0. PICK d : d = Field!Receipt(c, Field!Chain(fieldAtlas[lane], c), lane, fieldAtlas[lane])
  OBVIOUS
<1>2. /\ d.cond = c /\ d.lane = lane /\ d.row = Field!Chain(fieldAtlas[lane], c) /\ d.body = fieldBound
      /\ d.modes = Field!Modes(fieldAtlas[lane], c, d.row) /\ d.allowed = Field!Allowed(fieldAtlas[lane], c, d.row)
      /\ d.lie = Field!Lie(fieldAtlas[lane], c, d.row) /\ d.loop = Field!LoopOk(c, d.row)
  BY <1>0 DEF Field!Receipt
<1>3. fieldRun' = [step |-> "judge", doc |-> d]
  BY <1>0, <1>1
<1>4. fieldRun'.step = "judge" /\ fieldRun'.doc = d
  BY <1>3
<1>5. fieldBound # None => lane = fieldBound
  BY <1>1 DEF Field!LaneOf
<1>6. UNCHANGED <<fieldAtlas, fieldArm, fieldSession, fieldBound, fieldDocs, fieldLies>> /\ fieldProbes' = fieldProbes + 1 /\ fieldProbes < FieldMaxRuns
  BY DEF Field!Start
<1>7. Filed(d, c)'
  BY <1>1, <1>2, <1>5, <1>6 DEF Filed
<1>8. Filed(fieldRun.doc, fieldRun.doc.cond)'
  BY <1>2, <1>4, <1>7 DEF Filed
<1>9. \A o \in Field!Conditions : fieldDocs'[o] # None => Filed(fieldDocs[o], o)'
  BY <1>6 DEF ProbeInv, Filed
<1>10. fieldRun' = [step |-> fieldRun'.step, doc |-> fieldRun'.doc]
  BY <1>3, <1>4
<1>11. fieldLies' \in Nat /\ fieldProbes' \in 0..FieldMaxRuns /\ fieldLies' + 1 <= fieldProbes'
  BY <1>6 DEF ProbeInv, Field!ProbeAssumption
<1>12. QED
  BY <1>2, <1>4, <1>6, <1>8, <1>9, <1>10, <1>11 DEF ProbeInv

LEMMA ProbeJudgeKeeps ==
  ASSUME Field!ProbeAssumption, ProbeInv, Field!Judge
  PROVE  ProbeInv'
<1>1. /\ fieldRun # None /\ fieldRun.step = "judge" /\ fieldLies' = fieldLies + fieldRun.doc.lie
      /\ fieldRun' = [fieldRun EXCEPT !.step = "file"]
      /\ UNCHANGED <<fieldAtlas, fieldArm, fieldSession, fieldBound, fieldDocs, fieldProbes>>
  BY DEF Field!Judge
<1>2. fieldRun'.step = "file" /\ fieldRun'.doc = fieldRun.doc /\ fieldRun' = [step |-> "file", doc |-> fieldRun.doc]
  BY <1>1 DEF ProbeInv
<1>3. fieldRun.doc.lie \in {0, 1}
  BY <1>1 DEF ProbeInv, Filed, Field!Lie
<1>4. fieldLies' \in Nat /\ fieldLies' <= fieldProbes'
  BY <1>1, <1>3 DEF ProbeInv, Field!ProbeAssumption
<1>5. QED
  BY <1>1, <1>2, <1>4 DEF ProbeInv, Filed

LEMMA ProbeInvStep ==
  ASSUME Field!ProbeAssumption, ProbeInv, [Field!Next]_(Field!vars)
  PROVE  ProbeInv'
<1>1. CASE UNCHANGED Field!vars
  BY <1>1 DEF Field!vars, ProbeInv, Filed
<1>2. ASSUME NEW lane \in FieldLanes, Field!SetSession(lane) \/ Field!BindField(lane)
      PROVE  ProbeInv'
  BY <1>2 DEF Field!SetSession, Field!BindField, ProbeInv, Filed
<1>3. CASE Field!File
  BY <1>3 DEF Field!File, ProbeInv, Filed
<1>4. CASE Field!GraspRaises
  BY <1>4 DEF Field!GraspRaises, ProbeInv, Filed
<1>5. QED
  BY <1>1, <1>2, <1>3, <1>4, StartKeeps, ProbeJudgeKeeps DEF Field!Next

LEMMA ReceiptJudged ==
  ASSUME ProbeInv, NEW d \in Field!Receipts
  PROVE  /\ d.cond \in Field!Conditions /\ Filed(d, d.cond)
         /\ Judges(fieldAtlas[d.lane], d.cond, d.row)
         /\ d.cond = "hostile" => d.row.risk
<1>1. PICK c \in Field!Conditions : d = fieldDocs[c] /\ fieldDocs[c] # None
  BY DEF Field!Receipts
<1>2. Filed(d, c) /\ d.cond = c
  BY <1>1 DEF ProbeInv, Filed
<1>3. QED
  BY <1>2, ChainJudges DEF Filed

LEMMA ProbeJudged ==
  ASSUME ProbeInv
  PROVE  Field!JudgedAsMeasured
<1>1. ASSUME NEW d \in Field!Receipts
      PROVE  /\ d.row.refused # {} \/ "blocked" \in fieldAtlas[d.lane].found[d.cond] =>
                  ~d.row.feasible /\ d.row.risk /\ ~d.allowed
             /\ d.lie = 1 => d.cond = "safe"
                             /\ d.modes \subseteq {"storm_dose", "traverse_jerk", "seal_open"}
             /\ d.cond = "hostile" => ~d.allowed /\ d.loop
  <2> DEFINE w == fieldAtlas[d.lane]
             c == d.cond
             row == d.row
  <2>1. /\ c \in Field!Conditions /\ Judges(w, c, row) /\ (c = "hostile" => row.risk)
        /\ d.modes = Field!Modes(w, c, row) /\ d.allowed = Field!Allowed(w, c, row)
        /\ d.lie = Field!Lie(w, c, row) /\ d.loop = Field!LoopOk(c, row)
    BY <1>1, ReceiptJudged DEF Filed
  <2> HIDE DEF w, c, row
  <2>2. /\ row.refused # {} \/ "blocked" \in w.found[c] =>
              ~row.feasible /\ row.risk /\ ~Field!Allowed(w, c, row)
        /\ Field!Lie(w, c, row) = 1 =>
              c = "safe" /\ Field!Modes(w, c, row) \subseteq {"storm_dose", "traverse_jerk", "seal_open"}
        /\ c = "hostile" => ~Field!Allowed(w, c, row) /\ Field!LoopOk(c, row)
    BY <2>1, RowJudged
  <2>3. /\ row.refused # {} \/ "blocked" \in w.found[c] => ~row.feasible /\ row.risk /\ ~d.allowed
        /\ d.lie = 1 => c = "safe" /\ d.modes \subseteq {"storm_dose", "traverse_jerk", "seal_open"}
        /\ c = "hostile" => ~d.allowed /\ d.loop
    BY <2>1, <2>2
  <2>4. QED
    BY <2>3 DEF w, c, row
<1>2. QED
  BY <1>1 DEF Field!JudgedAsMeasured, Field!RefusalSticks, Field!LieSource

LEMMA ProbePartitions ==
  ASSUME Field!ProbeAssumption, ProbeInv
  PROVE  Field!SidesPartition
<1> DEFINE s == fieldDocs["safe"]
           h == fieldDocs["hostile"]
<1>1. SUFFICES ASSUME s # None, h # None, s.body = h.body, s.body # None,
                      NEW b \in DOMAIN s.row.bill \ {"work", "drive_chain"}
      PROVE  LET sum == s.row.bill[b] + h.row.bill[b]
             IN /\ sum \in (IF b = "ballistics_kepler" THEN {0, FieldSlice, 2 * FieldSlice} ELSE {0, FieldSlice})
                /\ (b \in {"storm_env", "traverse_mechanical"} /\ sum # 0) =>
                     b \in s.row.bad \union h.row.bad
  BY DEF Field!SidesPartition
<1>2. Filed(s, "safe") /\ Filed(h, "hostile") /\ fieldAtlas \in FieldAtlases
  BY <1>1 DEF ProbeInv, Field!Conditions
<1>3. s.lane = h.lane /\ s.lane \in FieldLanes
  BY <1>1, <1>2 DEF Filed
<1> DEFINE w == fieldAtlas[s.lane]
<1>4. s.row = Field!Chain(w, "safe") /\ h.row = Field!Chain(w, "hostile")
  BY <1>2, <1>3 DEF Filed
<1>5. /\ Judges(w, "safe", s.row) /\ Judges(w, "hostile", h.row)
      /\ b \in DOMAIN s.row.bill /\ b \in DOMAIN h.row.bill
      /\ b \in Shared
  BY <1>1, <1>4, ChainJudges
<1>6. s.row.bill[b] = BlockShare(w, "safe", b) /\ h.row.bill[b] = BlockShare(w, "hostile", b)
  BY <1>1, <1>5 DEF Judges
<1>7. /\ s.row.bill[b] \in Nat /\ h.row.bill[b] \in Nat
      /\ s.row.bill[b] + h.row.bill[b]
            \in (IF b = "ballistics_kepler" THEN {0, FieldSlice, 2 * FieldSlice} ELSE {0, FieldSlice})
  BY <1>2, <1>3, <1>5, <1>6, SidesShare
<1>8. ASSUME b \in {"storm_env", "traverse_mechanical"}, b \notin s.row.bad, b \notin h.row.bad
      PROVE  s.row.bill[b] + h.row.bill[b] = 0
  <2>1. 2 * s.row.bill[b] < FieldSlice /\ 2 * h.row.bill[b] < FieldSlice
    BY <1>5, <1>8 DEF Judges
  <2>2. s.row.bill[b] + h.row.bill[b] \in {0, FieldSlice} /\ FieldSlice \in Nat
    BY <1>7, <1>8 DEF Field!ProbeAssumption
  <2> HIDE DEF s, h
  <2>3. QED
    BY <1>7, <2>1, <2>2
<1> HIDE DEF s, h
<1>9. QED
  BY <1>7, <1>8

LEMMA ProbeTypes ==
  ASSUME ProbeInv, Field!ProbeAssumption
  PROVE  Field!TypeOK
BY DEF ProbeInv, Filed, Field!TypeOK, Field!ProbeAssumption

(* Whatever the lanes measure like: the probe's variables keep their       *)
(* types, no embed takes back a refusal, only a safe run lies to the gate, *)
(* and the two sides of a body share out every slice.                      *)
THEOREM ProbePromises ==
  Field!ProbeAssumption => (Field!Spec => [](Field!TypeOK /\ Field!JudgedAsMeasured /\ Field!SidesPartition))
<1> SUFFICES ASSUME Field!ProbeAssumption
             PROVE  Field!Spec => [](Field!TypeOK /\ Field!JudgedAsMeasured /\ Field!SidesPartition)
  OBVIOUS
<1>1. Field!Init => ProbeInv
  BY ProbeInvInit
<1>2. ProbeInv /\ [Field!Next]_(Field!vars) => ProbeInv'
  BY ProbeInvStep
<1>3. ProbeInv => Field!TypeOK /\ Field!JudgedAsMeasured /\ Field!SidesPartition
  BY ProbeTypes, ProbeJudged, ProbePartitions
<1>4. QED
  BY <1>1, <1>2, <1>3, PTL DEF Field!Spec

-----------------------------------------------------------------------------
(***************************************************************************)
(* Least and largest elements, and whole shares.                           *)
(***************************************************************************)
LEMMA Least ==
  ASSUME NEW S, S \subseteq Nat, S # {}
  PROVE  \E x \in S : \A y \in S : x <= y
<1> DEFINE R == {ss \in Nat \X Nat : ss[1] < ss[2]}
<1>1. IsWellFoundedOn(R, Nat)
  BY NatLessThanWellFounded DEF OpToRel
<1>2. PICK x \in S : \A y \in S : <<y, x>> \notin R
  BY <1>1, WFMin
<1>3. ASSUME NEW y \in S PROVE x <= y
  <2>1. x \in Nat /\ y \in Nat /\ <<y, x>> \in Nat \X Nat /\ ~(y < x)
    BY <1>2
  <2>2. QED
    BY <2>1
<1>4. QED
  BY <1>3

LEMMA MinIn ==
  ASSUME NEW S, S \subseteq Nat, S # {}
  PROVE  Cave!Min(S) \in S /\ \A y \in S : Cave!Min(S) <= y
BY Least DEF Cave!Min

LEMMA MaxPair ==
  ASSUME NEW a \in Int, NEW b \in Int
  PROVE  Cave!Max({a, b}) \in {a, b} /\ Cave!Max({a, b}) >= a /\ Cave!Max({a, b}) >= b
<1>1. \E x \in {a, b} : \A y \in {a, b} : x >= y
  OBVIOUS
<1>2. QED
  BY <1>1 DEF Cave!Max

LEMMA DivMul ==
  ASSUME NEW a \in Int, NEW b \in Nat, b # 0
  PROVE  (a * b) \div b = a
<1> DEFINE d == (a * b) \div b
<1>1. d \in Int /\ a * b \in Int
  OBVIOUS
<1>2. b * d <= a * b /\ a * b < b * (d + 1)
  OBVIOUS
<1> HIDE DEF d
<1>3. ~(d < a)
  <2>1. SUFFICES ASSUME d < a PROVE FALSE
    OBVIOUS
  <2>2. d + 1 <= a
    BY <1>1, <2>1
  <2>3. b * (d + 1) <= b * a
    BY <1>1, <2>2
  <2>4. QED
    BY <1>1, <1>2, <2>3
<1>4. ~(d > a)
  <2>1. SUFFICES ASSUME d > a PROVE FALSE
    OBVIOUS
  <2>2. a + 1 <= d
    BY <1>1, <2>1
  <2>3. b * (a + 1) <= b * d /\ b * (a + 1) = b * a + b
    BY <1>1, <2>2
  <2>4. QED
    BY <1>1, <1>2, <2>3
<1>5. d = a
  <2>1. d \in Int
    BY <1>1
  <2>2. QED
    BY <2>1, <1>3, <1>4
<1>6. QED
  BY <1>5 DEF d

(* x is so many whole steps of width d.                                    *)
Multiple(x, d) == \E q \in Int : x = q * d

LEMMA ModMultiple ==
  ASSUME NEW x \in Int, NEW d \in Nat \ {0}, x % d = 0
  PROVE  Multiple(x, d)
<1>1. x \div d \in Int /\ x = d * (x \div d) + (x % d)
  OBVIOUS
<1>2. x = (x \div d) * d
  BY <1>1
<1>3. QED
  BY <1>1, <1>2 DEF Multiple

LEMMA MultipleSum ==
  ASSUME NEW x \in Int, NEW y \in Int, NEW d \in Nat, Multiple(x, d), Multiple(y, d)
  PROVE  Multiple(x + y, d) /\ Multiple(x - y, d) /\ Multiple(-x, d)
<1>1. PICK p \in Int : x = p * d
  BY DEF Multiple
<1>2. PICK q \in Int : y = q * d
  BY DEF Multiple
<1>3. x + y = (p + q) * d /\ x - y = (p - q) * d /\ -x = (-p) * d
  BY <1>1, <1>2
<1>4. p + q \in Int /\ p - q \in Int /\ -p \in Int
  OBVIOUS
<1>5. QED
  BY <1>3, <1>4 DEF Multiple

-----------------------------------------------------------------------------
(* The instance counts as the library does.                                *)
LEMMA CaveCounts ==
  \A S : (Cave!IsFiniteSet(S) <=> IsFiniteSet(S)) /\ Cave!Cardinality(S) = Cardinality(S)
BY DEF Cave!IsFiniteSet, IsFiniteSet, Cave!Cardinality, Cardinality

(***************************************************************************)
(* A tick fires Cap events at most.                                        *)
(***************************************************************************)
LEMMA DetectedFew ==
  ASSUME Cave!SlamAssumption, NEW moved \in [Cave!Points -> 0 .. 2]
  PROVE  /\ Cave!Detected(moved) \subseteq Cave!Points
         /\ Cardinality(Cave!Detected(moved)) \in 0 .. CaveCap
<1> DEFINE candidates == {p \in Cave!Points : moved[p] > 0}
           before(p) == {q \in candidates : moved[q] > moved[p] \/ (moved[q] = moved[p] /\ q < p)}
           D == Cave!Detected(moved)
           C(p) == Cardinality(before(p))
<1>1. D = {p \in candidates : C(p) < CaveCap}
  BY CaveCounts DEF Cave!Detected
<1>2. /\ IsFiniteSet(Cave!Points) /\ Cave!Points \subseteq Nat /\ CaveCap \in Nat \ {0}
      /\ D \subseteq candidates /\ candidates \subseteq Cave!Points
      /\ \A p \in Cave!Points : moved[p] \in 0 .. 2
  BY <1>1, CaveCounts DEF Cave!SlamAssumption
<1>3. IsFiniteSet(candidates) /\ IsFiniteSet(D) /\ Cardinality(D) \in Nat
  BY <1>2, FS_Subset, FS_CardinalityType
<1>4. \A p : before(p) \subseteq candidates
  OBVIOUS
<1>5. \A p : IsFiniteSet(before(p)) /\ C(p) \in Nat
  BY <1>3, <1>4, FS_Subset, FS_CardinalityType
<1>6. ASSUME NEW p \in candidates, NEW q \in candidates, q \in before(p)
      PROVE  C(q) < C(p)
  <2>1. q \notin before(q) /\ before(q) \subseteq before(p)
    <3>1. moved[p] \in 0 .. 2 /\ moved[q] \in 0 .. 2 /\ p \in Nat /\ q \in Nat
      BY <1>2
    <3>2. ASSUME NEW r \in before(q) PROVE r \in before(p)
      <4>1. moved[r] \in 0 .. 2 /\ r \in Nat /\ r \in candidates
        BY <1>2, <3>2
      <4>2. QED
        BY <1>6, <3>1, <3>2, <4>1
    <3>3. q \notin before(q)
      BY <3>1
    <3>4. QED
      BY <3>2, <3>3
  <2>2. before(q) \union {q} \subseteq before(p)
    BY <1>6, <2>1
  <2> HIDE DEF before
  <2>3. Cardinality(before(q) \union {q}) = C(q) + 1
    BY <1>5, <2>1, FS_AddElement
  <2>4. Cardinality(before(q) \union {q}) <= C(p)
    BY <1>5, <2>2, FS_Subset
  <2>5. QED
    BY <1>5, <2>3, <2>4
<1>7. CASE D = {}
  BY <1>2, <1>3, <1>7, FS_EmptySet
<1>8. CASE D # {}
  <2> DEFINE left == {CaveCap - C(p) : p \in D}
  <2>1. left \subseteq Nat /\ left # {}
    <3>1. ASSUME NEW q \in D PROVE CaveCap - C(q) \in Nat
      <4>1. C(q) < CaveCap /\ C(q) \in Nat /\ CaveCap \in Nat
        BY <1>1, <1>2, <1>5
      <4> HIDE DEF C
      <4>2. QED
        BY <4>1
    <3> HIDE DEF C, D
    <3>2. QED
      BY <1>8, <3>1
  <2>2. PICK least \in left : \A y \in left : least <= y
    BY <2>1, Least
  <2>3. PICK p \in D : least = CaveCap - C(p)
    BY <2>2
  <2>4. \A q \in D : C(q) <= C(p)
    <3>1. ASSUME NEW q \in D PROVE C(q) <= C(p)
      <4>1. CaveCap - C(p) <= CaveCap - C(q)
        BY <2>2, <2>3
      <4>2. C(p) \in Nat /\ C(q) \in Nat /\ CaveCap \in Nat
        BY <1>2, <1>5
      <4> HIDE DEF C
      <4>3. QED
        BY <4>1, <4>2
    <3>2. QED
      BY <3>1
  <2>5. D \ {p} \subseteq before(p)
    <3>1. ASSUME NEW q \in D, q # p PROVE q \in before(p)
      <4>1. p \in candidates /\ q \in candidates
        BY <1>2
      <4>2. p \notin before(q)
        <5>1. p \in before(q) => C(p) < C(q)
          BY <1>6, <4>1
        <5>2. C(p) \in Nat /\ C(q) \in Nat /\ C(q) <= C(p)
          BY <1>5, <2>4
        <5> HIDE DEF before, C
        <5>3. QED
          BY <5>1, <5>2
      <4>3. moved[p] \in 0 .. 2 /\ moved[q] \in 0 .. 2 /\ p \in Nat /\ q \in Nat
        BY <1>2, <4>1
      <4>4. QED
        BY <3>1, <4>1, <4>2, <4>3
    <3>2. QED
      BY <3>1
  <2>6. Cardinality(D \ {p}) = Cardinality(D) - 1
    BY <1>3, FS_RemoveElement
  <2>7. Cardinality(D \ {p}) <= C(p)
    BY <1>5, <2>5, FS_Subset
  <2>8. C(p) < CaveCap /\ C(p) \in Nat
    BY <1>1, <1>5
  <2> HIDE DEF C, D
  <2>9. QED
    BY <1>2, <1>3, <2>6, <2>7, <2>8 DEF D
<1>9. QED
  BY <1>2, <1>3, <1>7, <1>8

-----------------------------------------------------------------------------
(***************************************************************************)
(* The candidate of a loop, and the walk bent onto it.                     *)
(***************************************************************************)
LEMMA DistanceNat ==
  ASSUME NEW a \in Int, NEW b \in Int
  PROVE  Cave!Distance(a, b) \in Nat
BY DEF Cave!Distance

(* There is a candidate exactly when some pose may be closed on, and it is *)
(* one of them.                                                            *)
LEMMA CandidateEligible ==
  ASSUME Cave!SlamAssumption, NEW poses \in Seq(Int), poses # <<>>
  PROVE  /\ Cave!Eligible(poses) = {} => Cave!Candidate(poses) = Cave!NoLoop
         /\ Cave!Eligible(poses) # {} => Cave!Candidate(poses) \in Cave!Eligible(poses)
         /\ \A i \in Cave!Eligible(poses) : i \in 0 .. Len(poses) - 1 /\ Len(poses) - 1 - i >= 1
<1> DEFINE n == Len(poses)
           E == Cave!Eligible(poses)
           gap(i) == Cave!Distance(poses[Len(poses)], poses[i + 1])
           best == {i \in E : \A j \in E : gap(i) <= gap(j)}
<1>1. n \in Nat /\ n >= 1 /\ \A j \in 1 .. n : poses[j] \in Int
  OBVIOUS
<1>2. CaveMinGap \in Nat \ {0}
  BY DEF Cave!SlamAssumption
<1>3. ASSUME NEW i \in E PROVE i \in 0 .. n - 1 /\ n - 1 - i >= CaveMinGap
  BY <1>3 DEF Cave!Eligible
<1>4. Cave!Candidate(poses) = IF best = {} THEN Cave!NoLoop ELSE Cave!Min(best)
  BY DEF Cave!Candidate
<1>5. ASSUME NEW i \in E PROVE gap(i) \in Nat
  <2>1. i + 1 \in 1 .. n /\ n \in 1 .. n
    BY <1>1, <1>3
  <2>2. QED
    BY <1>1, <2>1, DistanceNat
<1> HIDE DEF gap, E, n
<1>6. E # {} => best # {}
  <2>1. SUFFICES ASSUME E # {} PROVE best # {}
    OBVIOUS
  <2> DEFINE gaps == {gap(i) : i \in E}
  <2>2. gaps \subseteq Nat /\ gaps # {}
    BY <1>5, <2>1
  <2>3. PICK g \in gaps : \A y \in gaps : g <= y
    BY <2>2, Least
  <2>4. PICK i \in E : g = gap(i)
    BY <2>3
  <2>5. i \in best
    BY <2>3, <2>4
  <2>6. QED
    BY <2>5
<1>7. best \subseteq Nat /\ best \subseteq E
  BY <1>1, <1>3
<1>8. best # {} => Cave!Min(best) \in E
  BY <1>7, MinIn
<1>9. \A i \in E : i \in 0 .. n - 1 /\ n - 1 - i >= 1
  <2>1. ASSUME NEW i \in E PROVE n - 1 - i >= 1
    <3>1. i \in 0 .. n - 1 /\ n - 1 - i >= CaveMinGap
      BY <1>3
    <3>2. QED
      BY <1>1, <1>2, <3>1
  <2>2. QED
    BY <1>3, <2>1
<1>10. E = {} => best = {}
  OBVIOUS
<1> HIDE DEF best
<1>11. (E = {} => Cave!Candidate(poses) = Cave!NoLoop) /\ (E # {} => Cave!Candidate(poses) \in E)
  BY <1>4, <1>6, <1>8, <1>10
<1>12. QED
  BY <1>9, <1>11 DEF E, n

(* A shift that can be shared out whole over the steps of any loop.        *)
Whole(x) == \A steps \in 1 .. 2 * (CaveForward - 1) : Multiple(x, steps)

(* The last pose lands on the anchor, the poses up to there stay, and each *)
(* step after it is bent by one share.                                     *)
LEMMA CorrectedCloses ==
  ASSUME Cave!SlamAssumption, NEW poses \in Seq(Int), NEW from \in 0 .. Len(poses) - 1,
         Len(poses) - 1 - from >= 1, Len(poses) <= 2 * CaveForward - 1,
         \A j \in 1 .. Len(poses) : Whole(poses[j])
  PROVE  LET n == Len(poses)
             bent == Cave!Corrected(poses, from)
             bend(j) == (bent[j + 1] - bent[j]) - (poses[j + 1] - poses[j])
         IN /\ bent[n] = poses[from + 1]
            /\ \A j \in 1 .. from + 1 : bent[j] = poses[j]
            /\ \A i, j \in from + 1 .. n - 1 : bend(i) = bend(j)
<1> DEFINE n == Len(poses)
           bent == Cave!Corrected(poses, from)
           bend(j) == (bent[j + 1] - bent[j]) - (poses[j + 1] - poses[j])
           err == poses[from + 1] - poses[n]
           d == n - 1 - from
<1>1. n \in Nat /\ \A j \in 1 .. n : poses[j] \in Int
  OBVIOUS
<1>2. CaveForward \in Nat /\ d \in 1 .. 2 * (CaveForward - 1) /\ from \in Nat
  <2>1. CaveForward \in Nat
    BY DEF Cave!SlamAssumption
  <2>2. QED
    BY <1>1, <2>1
<1>3. from + 1 \in 1 .. n /\ n \in 1 .. n
  BY <1>1
<1>4. Multiple(poses[from + 1], d) /\ Multiple(poses[n], d)
  BY <1>2, <1>3 DEF Whole
<1>5. err \in Int /\ d \in Nat /\ d # 0
  BY <1>1, <1>2, <1>3
<1>6. Multiple(err, d)
  <2>1. poses[from + 1] \in Int /\ poses[n] \in Int
    BY <1>1, <1>3
  <2> HIDE DEF d, n
  <2>2. QED
    BY <1>4, <1>5, <2>1, MultipleSum
<1>7. PICK q \in Int : err = q * d
  <2> HIDE DEF err, d
  <2>1. QED
    BY <1>6 DEF Multiple
<1>8. Cave!Max({d, 1}) = d
  <2> HIDE DEF d
  <2>1. Cave!Max({d, 1}) \in {d, 1} /\ Cave!Max({d, 1}) >= d
    <3>1. d \in Int /\ 1 \in Int
      BY <1>5
    <3>2. QED
      BY <3>1, MaxPair
  <2>2. QED
    BY <1>2, <1>5, <2>1
<1>9. bent = [j \in 1 .. n |-> IF j <= from THEN poses[j]
                              ELSE poses[j] + (err * (j - 1 - from)) \div d]
  BY <1>8 DEF Cave!Corrected
<1> HIDE DEF bent, err, d
<1>10. ASSUME NEW k \in Int PROVE (err * k) \div d = q * k
  <2>1. err * k = (q * k) * d /\ q * k \in Int
    BY <1>5, <1>7
  <2>2. ((q * k) * d) \div d = q * k
    BY <1>5, <2>1, DivMul
  <2>3. QED
    BY <2>1, <2>2
<1>11. ASSUME NEW j \in 1 .. n, j > from
       PROVE  bent[j] = poses[j] + q * (j - 1 - from)
  <2>1. j - 1 - from \in Int /\ ~(j <= from)
    BY <1>1, <1>2, <1>11
  <2>2. QED
    BY <1>9, <1>10, <2>1
<1>12. bent[n] = poses[from + 1]
  <2>1. n > from /\ poses[n] \in Int /\ poses[from + 1] \in Int
    BY <1>1, <1>3
  <2>2. bent[n] = poses[n] + q * (n - 1 - from)
    BY <1>3, <1>11, <2>1
  <2>3. q * (n - 1 - from) = poses[from + 1] - poses[n]
    BY <1>7 DEF err, d
  <2>4. QED
    BY <2>1, <2>2, <2>3
<1>13. ASSUME NEW j \in 1 .. from + 1 PROVE bent[j] = poses[j]
  <2>1. j \in 1 .. n /\ poses[j] \in Int
    BY <1>1, <1>2, <1>3
  <2>2. CASE j <= from
    BY <1>9, <2>1, <2>2
  <2>3. CASE j = from + 1
    <3>1. j > from /\ j - 1 - from = 0 /\ q * 0 = 0
      BY <1>2, <2>3
    <3>2. bent[j] = poses[j] + q * (j - 1 - from)
      BY <1>11, <2>1, <3>1
    <3>3. QED
      BY <2>1, <3>1, <3>2
  <2>4. j \in 1 .. from + 1 /\ from \in Int
    BY <1>2
  <2>5. j <= from \/ j = from + 1
    BY <2>4
  <2>6. QED
    BY <2>2, <2>3, <2>5
<1>14. ASSUME NEW j \in from + 1 .. n - 1 PROVE bend(j) = q
  <2>1. /\ j \in 1 .. n /\ j + 1 \in 1 .. n /\ j > from /\ j + 1 > from
        /\ poses[j] \in Int /\ poses[j + 1] \in Int
    BY <1>1, <1>2
  <2>2. /\ bent[j] = poses[j] + q * (j - 1 - from)
        /\ bent[j + 1] = poses[j + 1] + q * ((j + 1) - 1 - from)
    BY <1>11, <2>1
  <2>3. q * ((j + 1) - 1 - from) = q * (j - 1 - from) + q
    BY <1>2, <2>1
  <2> DEFINE x == q * (j - 1 - from)
  <2>4. x \in Int /\ q \in Int
    BY <1>2, <2>1
  <2>5. bent[j] = poses[j] + x /\ bent[j + 1] = poses[j + 1] + (x + q)
    BY <2>2, <2>3
  <2> HIDE DEF x
  <2>6. QED
    BY <2>1, <2>4, <2>5
<1>15. \A i, j \in from + 1 .. n - 1 : bend(i) = bend(j)
  BY <1>14
<1>16. QED
  BY <1>12, <1>13, <1>15 DEF bent

(* A tile that can take the whole cloud drops none of it: each landmark is *)
(* in the one tile of its place, and there where it was placed.            *)
LEMMA TileOfOne ==
  ASSUME Cave!SlamAssumption, NEW indices \in SUBSET Cave!Points, NEW p \in indices
  PROVE  LET tiles == Cave!Tiling(indices)
             holds == {k \in DOMAIN tiles : p \in DOMAIN tiles[k]}
         IN /\ Cardinality(holds) = 1
            /\ \A k \in holds : tiles[k][p] = Cave!Placed(p)
<1> DEFINE key(q) == Cave!Placed(q) \div CaveVoxel
           before(q) == {r \in indices : r < q /\ key(r) = key(q)}
           taken == {q \in indices : Cardinality(before(q)) < CaveTileCap}
           tiles == Cave!Tiling(indices)
<1>1. tiles = [k \in {key(q) : q \in indices} |->
                 [q \in {r \in taken : key(r) = k} |-> Cave!Placed(q)]]
  BY CaveCounts DEF Cave!Tiling
<1>2. /\ IsFiniteSet(Cave!Points) /\ Cave!Points \subseteq Nat /\ CaveTileCap \in Nat
      /\ Cardinality(Cave!Points) <= CaveTileCap
  BY CaveCounts DEF Cave!SlamAssumption
<1>3. Cardinality(before(p)) < CaveTileCap
  <2>1. p \in Nat /\ p \in Cave!Points /\ p \notin before(p)
    BY <1>2
  <2>2. before(p) \in SUBSET Cave!Points
    OBVIOUS
  <2> HIDE DEF before
  <2>3. /\ Cardinality(before(p)) <= Cardinality(Cave!Points)
        /\ Cardinality(Cave!Points) = Cardinality(before(p)) => Cave!Points = before(p)
        /\ Cardinality(before(p)) \in Nat /\ Cardinality(Cave!Points) \in Nat
    BY <1>2, <2>2, FS_Subset, FS_CardinalityType
  <2>4. QED
    BY <1>2, <2>1, <2>3
<1>4. p \in taken
  BY <1>3
<1> HIDE DEF before, taken, key
<1>5. {k \in DOMAIN tiles : p \in DOMAIN tiles[k]} = {key(p)}
  BY <1>1, <1>4
<1>6. tiles[key(p)][p] = Cave!Placed(p)
  BY <1>1, <1>4
<1>7. QED
  BY <1>5, <1>6, FS_Singleton DEF tiles

-----------------------------------------------------------------------------
(***************************************************************************)
(* What the layers leave for those behind them: the walk is whole shares,  *)
(* the map is what the motor makes of the landmarks, and the correction is *)
(* the one of the walk's candidate.                                        *)
(***************************************************************************)
SlamInv ==
    /\ cavePhase \in {"L1", "L3", "L4", "L5", "judge", "done"} /\ caveSkip \in BOOLEAN
    /\ caveTick \in Nat /\ caveFired \subseteq Cave!Points
    /\ caveEvents \in Nat /\ caveEvents <= CaveTicks * CaveCap
    /\ cavePhase = "L1" => caveTick <= CaveTicks /\ caveEvents <= caveTick * CaveCap
    /\ caveOdom \in Seq(Int) /\ Len(caveOdom) \in 1 .. CaveTicks + 1
    /\ caveMotor \in {0} \union {CaveTruth + e : e \in CaveErrors}
    /\ caveEst \in Seq(Int) /\ caveEst # <<>> /\ (\A j \in 1 .. Len(caveEst) : Whole(caveEst[j]))
    /\ cavePhase \in {"L1", "L3", "L4"} => caveEst = <<0>>
    /\ cavePhase = "L5" => caveTick <= 2 * (CaveForward - 1) /\ Len(caveEst) = caveTick + 1
    /\ cavePhase \in {"L5", "judge", "done"} => caveTiles = Cave!Tiling(caveFired)
    /\ cavePhase \in {"judge", "done"} =>
         /\ Len(caveEst) = 2 * CaveForward - 1
         /\ caveAnchor = Cave!Candidate(caveEst)
         /\ caveAfter = IF caveAnchor = Cave!NoLoop THEN caveEst ELSE Cave!Corrected(caveEst, caveAnchor)
    /\ cavePhase \notin {"judge", "done"} => caveAnchor = Cave!NoLoop
    /\ caveVerdict \in {"none", "PASS", "DEGRADED"}
    /\ caveVerdict = "PASS" => cavePhase = "done" /\ Cave!Fits

LEMMA WholeZero == Whole(0)
<1>1. ASSUME NEW steps \in 1 .. 2 * (CaveForward - 1) PROVE Multiple(0, steps)
  BY DEF Multiple
<1>2. QED
  BY <1>1 DEF Whole

LEMMA WholeSum ==
  ASSUME Cave!SlamAssumption, NEW x \in Int, NEW y \in Int, Whole(x), Whole(y)
  PROVE  Whole(x + y) /\ Whole(x - y) /\ Whole(-x)
<1>1. ASSUME NEW d \in 1 .. 2 * (CaveForward - 1)
      PROVE  Multiple(x + y, d) /\ Multiple(x - y, d) /\ Multiple(-x, d)
  BY MultipleSum DEF Whole, Cave!SlamAssumption
<1>2. QED
  BY <1>1 DEF Whole

LEMMA WholeSteps ==
  ASSUME Cave!SlamAssumption, NEW x \in CaveNoise \union {CaveStride}
  PROVE  x \in Int /\ Whole(x)
<1>1. x \in Int /\ CaveForward \in Nat
  BY DEF Cave!SlamAssumption
<1>2. ASSUME NEW d \in 1 .. 2 * (CaveForward - 1) PROVE Multiple(x, d)
  <2>1. d \in Nat \ {0} /\ x % d = 0
    <3>1. \A y \in CaveNoise \union {CaveStride}, steps \in 1 .. 2 * (CaveForward - 1) : y % steps = 0
      BY DEF Cave!SlamAssumption
    <3>2. x % d = 0
      BY <3>1
    <3>3. QED
      BY <1>1, <3>2
  <2>2. QED
    BY <1>1, <2>1, ModMultiple
<1>3. QED
  BY <1>1, <1>2 DEF Whole

LEMMA MotorInt ==
  ASSUME Cave!SlamAssumption, SlamInv
  PROVE  caveMotor \in Int
BY DEF Cave!SlamAssumption, SlamInv

LEMMA SlamInvInit ==
  ASSUME Cave!SlamAssumption, Cave!Init
  PROVE  SlamInv
<1>1. <<0>> \in Seq(Int) /\ Len(<<0>>) = 1 /\ <<0>>[1] = 0 /\ <<0>> # <<>>
  OBVIOUS
<1>2. \A j \in 1 .. Len(<<0>>) : Whole(<<0>>[j])
  BY <1>1, WholeZero
<1>3. 0 <= CaveTicks * CaveCap /\ 0 <= 0 * CaveCap /\ 1 \in 1 .. CaveTicks + 1 /\ CaveTicks \in Nat /\ CaveCap \in Nat
  BY DEF Cave!SlamAssumption
<1>4. QED
  BY <1>1, <1>2, <1>3 DEF Cave!Init, SlamInv

-----------------------------------------------------------------------------
LEMMA SenseKeeps ==
  ASSUME Cave!SlamAssumption, SlamInv, Cave!Sense
  PROVE  SlamInv'
<1>1. PICK moved \in [Cave!Points -> 0 .. 2] :
        /\ caveFired' = caveFired \union Cave!Detected(moved)
        /\ caveEvents' = caveEvents + Cardinality(Cave!Detected(moved))
  BY CaveCounts DEF Cave!Sense
<1>2. /\ cavePhase = "L1" /\ caveTick < CaveTicks /\ caveTick' = caveTick + 1
      /\ UNCHANGED <<cavePhase, caveSkip, caveOdom, caveMotor, caveTiles, caveEst, caveAfter, caveAnchor, caveVerdict>>
  BY DEF Cave!Sense
<1> DEFINE count == Cardinality(Cave!Detected(moved))
<1>3. Cave!Detected(moved) \subseteq Cave!Points /\ count \in 0 .. CaveCap
  BY DetectedFew
<1>4. /\ caveTick \in Nat /\ caveEvents \in Nat /\ caveEvents <= caveTick * CaveCap
      /\ CaveTicks \in Nat /\ CaveCap \in Nat
  BY <1>2 DEF SlamInv, Cave!SlamAssumption
<1> HIDE DEF count
<1>5. (caveTick + 1) * CaveCap = caveTick * CaveCap + CaveCap /\ caveTick * CaveCap \in Nat
  BY <1>4
<1>6. caveEvents + count \in Nat /\ caveEvents + count <= (caveTick + 1) * CaveCap
  BY <1>3, <1>4, <1>5
<1>7. (caveTick + 1) * CaveCap <= CaveTicks * CaveCap
  BY <1>2, <1>4
<1>8. caveEvents' \in Nat /\ caveEvents' <= caveTick' * CaveCap /\ caveEvents' <= CaveTicks * CaveCap
  <2>1. caveEvents' = caveEvents + count
    BY <1>1 DEF count
  <2>2. (caveTick + 1) * CaveCap \in Nat /\ CaveTicks * CaveCap \in Nat
    BY <1>4
  <2>3. QED
    BY <1>2, <1>6, <1>7, <2>1, <2>2
<1>9. caveTick' \in Nat /\ caveTick' <= CaveTicks /\ caveFired' \subseteq Cave!Points
  BY <1>1, <1>2, <1>3, <1>4 DEF SlamInv
<1>10. Cave!Fits' = Cave!Fits
  BY <1>2 DEF Cave!Fits
<1>11. QED
  BY <1>2, <1>8, <1>9 DEF SlamInv

LEMMA EncodeKeeps ==
  ASSUME Cave!SlamAssumption, SlamInv, Cave!Encode
  PROVE  SlamInv'
<1>1. /\ cavePhase = "L1" /\ caveTick = CaveTicks
      /\ UNCHANGED <<caveSkip, caveFired, caveEvents, caveMotor, caveTiles, caveEst, caveAfter, caveAnchor, caveVerdict>>
  BY DEF Cave!Encode
<1>2. caveVerdict # "PASS"
  BY <1>1 DEF SlamInv
<1>3. CASE Len(caveOdom) <= CaveTicks
  <2>1. PICK n \in CaveNoise : caveOdom' = Append(caveOdom, Cave!Last(caveOdom) + CaveStride + n)
    BY <1>3 DEF Cave!Encode
  <2>2. cavePhase' = cavePhase /\ caveTick' = caveTick
    BY <1>3 DEF Cave!Encode
  <2>3. caveOdom \in Seq(Int) /\ Len(caveOdom) \in 1 .. CaveTicks + 1 /\ CaveTicks \in Nat
    BY DEF SlamInv, Cave!SlamAssumption
  <2>4. Cave!Last(caveOdom) \in Int
    BY <2>3 DEF Cave!Last
  <2>5. Cave!Last(caveOdom) + CaveStride + n \in Int
    BY <2>4 DEF Cave!SlamAssumption
  <2>6. caveOdom' \in Seq(Int) /\ Len(caveOdom') \in 1 .. CaveTicks + 1
    BY <1>3, <2>1, <2>3, <2>5
  <2>7. QED
    BY <1>1, <1>2, <2>2, <2>6 DEF SlamInv
<1>4. CASE ~(Len(caveOdom) <= CaveTicks)
  <2>1. cavePhase' = "L3" /\ caveTick' = 0 /\ caveOdom' = caveOdom
    BY <1>4 DEF Cave!Encode
  <2>2. QED
    BY <1>1, <1>2, <2>1 DEF SlamInv
<1>5. QED
  BY <1>3, <1>4

LEMMA RegisterKeeps ==
  ASSUME Cave!SlamAssumption, SlamInv, Cave!Register
  PROVE  SlamInv'
<1>1. /\ cavePhase = "L3" /\ caveTick' = caveTick + 1
      /\ UNCHANGED <<cavePhase, caveSkip, caveFired, caveEvents, caveOdom, caveTiles, caveEst, caveAfter, caveAnchor, caveVerdict>>
  BY DEF Cave!Register
<1>2. PICK e \in CaveErrors : caveMotor' = caveMotor + (CaveTruth - caveMotor + e)
  BY DEF Cave!Register, Cave!Composed, Cave!Found
<1>3. caveMotor \in Int /\ CaveTruth \in Int /\ e \in Int
  BY MotorInt DEF Cave!SlamAssumption
<1>4. caveMotor' = CaveTruth + e
  BY <1>2, <1>3
<1>5. caveVerdict # "PASS" /\ caveTick \in Nat
  BY <1>1 DEF SlamInv
<1>6. QED
  BY <1>1, <1>4, <1>5 DEF SlamInv

LEMMA HandKeeps ==
  ASSUME SlamInv, Cave!Hand
  PROVE  SlamInv'
<1>1. /\ cavePhase = "L3" /\ cavePhase' = "L4" /\ caveMotor' \in {0, caveMotor}
      /\ UNCHANGED <<caveSkip, caveTick, caveFired, caveEvents, caveOdom, caveTiles, caveEst, caveAfter, caveAnchor, caveVerdict>>
  BY DEF Cave!Hand
<1>2. caveVerdict # "PASS"
  BY <1>1 DEF SlamInv
<1>3. QED
  BY <1>1, <1>2 DEF SlamInv

LEMMA ComposeKeeps ==
  ASSUME Cave!SlamAssumption, SlamInv, Cave!Compose
  PROVE  SlamInv'
<1>1. /\ cavePhase = "L4" /\ cavePhase' = "L5" /\ caveTick' = 0
      /\ caveTiles' = Cave!Tiling(caveFired)
      /\ UNCHANGED <<caveSkip, caveFired, caveEvents, caveOdom, caveMotor, caveEst, caveAfter, caveAnchor, caveVerdict>>
  BY DEF Cave!Compose
<1>2. caveVerdict # "PASS" /\ caveEst = <<0>>
  BY <1>1 DEF SlamInv
<1>3. caveTiles' = Cave!Tiling(caveFired)'
  BY <1>1 DEF Cave!Tiling, Cave!Placed
<1>4. Len(caveEst') = 1 /\ 0 <= 2 * (CaveForward - 1)
  BY <1>1, <1>2 DEF Cave!SlamAssumption
<1>5. QED
  BY <1>1, <1>2, <1>3, <1>4 DEF SlamInv

(* The map stays the tiling while landmarks and motor stay.                *)
LEMMA TilingStays ==
  ASSUME UNCHANGED <<caveFired, caveMotor>>
  PROVE  Cave!Tiling(caveFired)' = Cave!Tiling(caveFired)
<1>1. ASSUME NEW p PROVE Cave!Placed(p)' = Cave!Placed(p)
  BY DEF Cave!Placed
<1>2. QED
  BY <1>1 DEF Cave!Tiling

LEMMA WalkKeeps ==
  ASSUME Cave!SlamAssumption, SlamInv, Cave!Walk
  PROVE  SlamInv'
<1>1. /\ cavePhase = "L5" /\ caveTick < 2 * (CaveForward - 1) /\ caveTick' = caveTick + 1
      /\ UNCHANGED <<cavePhase, caveSkip, caveFired, caveEvents, caveOdom, caveMotor, caveTiles, caveAfter, caveAnchor, caveVerdict>>
  BY DEF Cave!Walk
<1>2. PICK n \in CaveNoise : caveEst' = Append(caveEst, Cave!Last(caveEst) + Cave!Leg(caveTick) + n)
  BY DEF Cave!Walk
<1>3. /\ caveEst \in Seq(Int) /\ caveEst # <<>> /\ caveTick \in Nat /\ Len(caveEst) = caveTick + 1
      /\ \A j \in 1 .. Len(caveEst) : Whole(caveEst[j])
      /\ caveVerdict # "PASS" /\ CaveForward \in Nat
  BY <1>1 DEF SlamInv, Cave!SlamAssumption
<1>4. Cave!Last(caveEst) \in Int /\ Whole(Cave!Last(caveEst))
  BY <1>3 DEF Cave!Last
<1>5. Cave!Leg(caveTick) \in Int /\ Whole(Cave!Leg(caveTick))
  <2>1. CaveStride \in Int /\ Whole(CaveStride)
    BY WholeSteps
  <2>2. -CaveStride \in Int /\ Whole(-CaveStride)
    BY <2>1, WholeSum
  <2>3. QED
    BY <2>1, <2>2 DEF Cave!Leg
<1>6. n \in Int /\ Whole(n)
  BY WholeSteps
<1> DEFINE next == Cave!Last(caveEst) + Cave!Leg(caveTick) + n
<1>7. next \in Int /\ Whole(next)
  <2> DEFINE mid == Cave!Last(caveEst) + Cave!Leg(caveTick)
  <2>1. mid \in Int /\ Whole(mid)
    <3>1. PICK a \in Int : a = Cave!Last(caveEst) /\ Whole(a)
      BY <1>4
    <3>2. PICK b \in Int : b = Cave!Leg(caveTick) /\ Whole(b)
      BY <1>5
    <3>3. a + b \in Int /\ Whole(a + b)
      <4>1. Whole(a + b)
        BY <3>1, <3>2, WholeSum, Zenon
      <4>2. QED
        BY <4>1
    <3>4. mid = a + b
      BY <3>1, <3>2
    <3>5. QED
      BY <3>3, <3>4
  <2> HIDE DEF mid
  <2>2. mid + n \in Int /\ Whole(mid + n)
    BY <1>6, <2>1, WholeSum
  <2>3. QED
    BY <2>2 DEF mid
<1> HIDE DEF next
<1>8. caveEst' = Append(caveEst, next)
  BY <1>2 DEF next
<1>9. /\ caveEst' \in Seq(Int) /\ Len(caveEst') = Len(caveEst) + 1 /\ caveEst' # <<>>
      /\ \A j \in 1 .. Len(caveEst) : caveEst'[j] = caveEst[j]
      /\ caveEst'[Len(caveEst) + 1] = next
  BY <1>3, <1>7, <1>8
<1>10. \A j \in 1 .. Len(caveEst') : Whole(caveEst'[j])
  <2>1. ASSUME NEW j \in 1 .. Len(caveEst') PROVE Whole(caveEst'[j])
    <3>1. CASE j \in 1 .. Len(caveEst)
      BY <1>3, <1>9, <3>1
    <3>2. CASE j = Len(caveEst) + 1
      BY <1>7, <1>9, <3>2
    <3>3. QED
      BY <1>3, <1>9, <3>1, <3>2
  <2>2. QED
    BY <2>1
<1>11. caveTick' \in Nat /\ caveTick' <= 2 * (CaveForward - 1) /\ Len(caveEst') = caveTick' + 1
  BY <1>1, <1>3, <1>9
<1>12. caveTiles' = Cave!Tiling(caveFired)'
  BY <1>1, TilingStays DEF SlamInv
<1>13. (\A j \in 1 .. Len(caveEst) : Whole(caveEst[j]))'
  BY <1>10 DEF Whole
<1>14. /\ cavePhase' = "L5" /\ caveEst' # <<>> /\ (caveEst \in Seq(Int))'
       /\ (caveTick <= 2 * (CaveForward - 1) /\ Len(caveEst) = caveTick + 1)' /\ caveVerdict' # "PASS"
  BY <1>1, <1>3, <1>9, <1>11
<1>15. QED
  BY <1>1, <1>11, <1>12, <1>13, <1>14 DEF SlamInv

LEMMA CloseKeeps ==
  ASSUME Cave!SlamAssumption, SlamInv, Cave!Close
  PROVE  SlamInv'
<1>1. /\ cavePhase = "L5" /\ caveTick = 2 * (CaveForward - 1) /\ cavePhase' = "judge"
      /\ caveAnchor' = Cave!Candidate(caveEst)
      /\ caveAfter' = IF caveAnchor' = Cave!NoLoop THEN caveEst ELSE Cave!Corrected(caveEst, caveAnchor')
      /\ UNCHANGED <<caveSkip, caveTick, caveFired, caveEvents, caveOdom, caveMotor, caveTiles, caveEst, caveVerdict>>
  BY DEF Cave!Close
<1>2. caveVerdict # "PASS" /\ Len(caveEst) = caveTick + 1 /\ CaveForward \in Nat
  BY <1>1 DEF SlamInv, Cave!SlamAssumption
<1>3. Len(caveEst) = 2 * CaveForward - 1
  BY <1>1, <1>2
<1>4. caveAnchor' = Cave!Candidate(caveEst)' /\ caveAfter' = (IF caveAnchor = Cave!NoLoop THEN caveEst ELSE Cave!Corrected(caveEst, caveAnchor))'
  BY <1>1
<1>5. caveTiles' = Cave!Tiling(caveFired)'
  BY <1>1, TilingStays DEF SlamInv
<1>6. Len(caveEst)' = 2 * CaveForward - 1
  BY <1>1, <1>3
<1>7. QED
  BY <1>1, <1>2, <1>4, <1>5, <1>6 DEF SlamInv

LEMMA VerdictKeeps ==
  ASSUME SlamInv, Cave!Judge
  PROVE  SlamInv'
<1>1. /\ cavePhase = "judge" /\ cavePhase' = "done"
      /\ caveVerdict' \in {"PASS", "DEGRADED"} /\ (caveVerdict' = "PASS" => Cave!Fits)
      /\ UNCHANGED <<caveSkip, caveTick, caveFired, caveEvents, caveOdom, caveMotor, caveTiles, caveEst, caveAfter, caveAnchor>>
  BY DEF Cave!Judge
<1>2. caveTiles' = Cave!Tiling(caveFired)' /\ Cave!Fits' = Cave!Fits
  BY <1>1, TilingStays DEF SlamInv, Cave!Fits
<1>3. caveAnchor' = Cave!Candidate(caveEst)' /\ caveAfter' = (IF caveAnchor = Cave!NoLoop THEN caveEst ELSE Cave!Corrected(caveEst, caveAnchor))'
  BY <1>1 DEF SlamInv
<1>4. QED
  BY <1>1, <1>2, <1>3 DEF SlamInv

LEMMA SlamInvStep ==
  ASSUME Cave!SlamAssumption, SlamInv, [Cave!Next]_(Cave!vars)
  PROVE  SlamInv'
<1>1. CASE UNCHANGED Cave!vars
  BY <1>1, TilingStays DEF Cave!vars, SlamInv, Cave!Fits
<1>2. QED
  BY <1>1, SenseKeeps, EncodeKeeps, RegisterKeeps, HandKeeps, ComposeKeeps, WalkKeeps,
     CloseKeeps, VerdictKeeps DEF Cave!Next

-----------------------------------------------------------------------------
LEMMA SlamTypes ==
  ASSUME Cave!SlamAssumption, SlamInv
  PROVE  Cave!TypeOK
<1>1. /\ CaveTicks \in Nat /\ CaveCap \in Nat /\ CaveForward \in Nat \ {0} /\ caveEvents \in 0 .. CaveTicks * CaveCap
  BY DEF SlamInv, Cave!SlamAssumption
<1>2. caveEst \in Seq(Int) /\ caveEst # <<>> /\ caveTick \in Nat
  BY DEF SlamInv
<1>3. Len(caveEst) \in 1 .. 2 * CaveForward - 1
  <2>1. CASE cavePhase \in {"L1", "L3", "L4"}
    <3>1. Len(caveEst) = 1
      BY <2>1 DEF SlamInv
    <3>2. QED
      BY <1>1, <3>1
  <2>2. CASE cavePhase = "L5"
    <3>1. caveTick <= 2 * (CaveForward - 1) /\ Len(caveEst) = caveTick + 1
      BY <2>2 DEF SlamInv
    <3>2. QED
      BY <1>1, <1>2, <3>1
  <2>3. CASE cavePhase \in {"judge", "done"}
    <3>1. Len(caveEst) = 2 * CaveForward - 1
      BY <2>3 DEF SlamInv
    <3>2. QED
      BY <1>1, <3>1
  <2>4. QED
    BY <2>1, <2>2, <2>3 DEF SlamInv
<1>4. caveAnchor \in {Cave!NoLoop} \union (0 .. 2 * CaveForward - 2)
  <2>1. CASE cavePhase \in {"judge", "done"}
    <3>1. caveAnchor = Cave!Candidate(caveEst) /\ Len(caveEst) = 2 * CaveForward - 1
      BY <2>1 DEF SlamInv
    <3>2. caveAnchor = Cave!NoLoop \/ caveAnchor \in 0 .. Len(caveEst) - 1
      BY <1>2, <3>1, CandidateEligible
    <3>3. Len(caveEst) - 1 = 2 * CaveForward - 2
      BY <1>1, <3>1
    <3>4. QED
      BY <3>2, <3>3
  <2>2. CASE cavePhase \notin {"judge", "done"}
    BY <2>2 DEF SlamInv
  <2>3. QED
    BY <2>1, <2>2
<1>5. QED
  BY <1>1, <1>3, <1>4 DEF SlamInv, Cave!TypeOK

LEMMA SlamCloses ==
  ASSUME Cave!SlamAssumption, SlamInv
  PROVE  Cave!LoopCloses
<1>1. SUFFICES ASSUME cavePhase \in {"judge", "done"}
      PROVE  LET n == Len(caveEst)
                 bend(j) == (caveAfter[j + 1] - caveAfter[j]) - (caveEst[j + 1] - caveEst[j])
             IN /\ caveAnchor = Cave!NoLoop <=> Cave!Eligible(caveEst) = {}
                /\ caveAnchor = Cave!NoLoop => caveAfter = caveEst
                /\ caveAnchor # Cave!NoLoop =>
                     /\ caveAfter[n] = caveEst[caveAnchor + 1]
                     /\ \A j \in 1 .. caveAnchor + 1 : caveAfter[j] = caveEst[j]
                     /\ \A i, j \in caveAnchor + 1 .. n - 1 : bend(i) = bend(j)
  BY DEF Cave!LoopCloses
<1>2. /\ caveEst \in Seq(Int) /\ caveEst # <<>> /\ \A j \in 1 .. Len(caveEst) : Whole(caveEst[j])
      /\ Len(caveEst) = 2 * CaveForward - 1 /\ caveAnchor = Cave!Candidate(caveEst)
      /\ caveAfter = IF caveAnchor = Cave!NoLoop THEN caveEst ELSE Cave!Corrected(caveEst, caveAnchor)
  BY <1>1 DEF SlamInv
<1>3. /\ Cave!Eligible(caveEst) = {} => caveAnchor = Cave!NoLoop
      /\ Cave!Eligible(caveEst) # {} => caveAnchor \in Cave!Eligible(caveEst)
      /\ \A i \in Cave!Eligible(caveEst) : i \in 0 .. Len(caveEst) - 1 /\ Len(caveEst) - 1 - i >= 1
  BY <1>2, CandidateEligible
<1>4. Cave!NoLoop \notin Cave!Eligible(caveEst)
  BY <1>2, <1>3 DEF Cave!NoLoop
<1>5. caveAnchor = Cave!NoLoop <=> Cave!Eligible(caveEst) = {}
  BY <1>3, <1>4
<1>6. CASE caveAnchor = Cave!NoLoop
  BY <1>2, <1>5, <1>6
<1>7. CASE caveAnchor # Cave!NoLoop
  <2>1. caveAnchor \in 0 .. Len(caveEst) - 1 /\ Len(caveEst) - 1 - caveAnchor >= 1 /\ Len(caveEst) <= 2 * CaveForward - 1
    <3>1. caveAnchor \in 0 .. Len(caveEst) - 1 /\ Len(caveEst) - 1 - caveAnchor >= 1
      BY <1>3, <1>5, <1>7
    <3>2. Len(caveEst) \in Nat
      BY <1>2
    <3>3. Len(caveEst) <= 2 * CaveForward - 1
      BY <1>2, <3>2
    <3>4. QED
      BY <3>1, <3>3
  <2>2. caveAfter = Cave!Corrected(caveEst, caveAnchor)
    BY <1>2, <1>7
  <2> DEFINE bend(j) == (Cave!Corrected(caveEst, caveAnchor)[j + 1] - Cave!Corrected(caveEst, caveAnchor)[j])
                        - (caveEst[j + 1] - caveEst[j])
  <2>3. /\ Cave!Corrected(caveEst, caveAnchor)[Len(caveEst)] = caveEst[caveAnchor + 1]
        /\ \A j \in 1 .. caveAnchor + 1 : Cave!Corrected(caveEst, caveAnchor)[j] = caveEst[j]
        /\ \A i, j \in caveAnchor + 1 .. Len(caveEst) - 1 : bend(i) = bend(j)
    BY <1>2, <2>1, CorrectedCloses
  <2>4. QED
    BY <1>5, <1>7, <2>2, <2>3
<1>8. QED
  BY <1>6, <1>7

LEMMA SlamEarns ==
  ASSUME Cave!SlamAssumption, SlamInv
  PROVE  Cave!MapEarned
<1>1. SUFFICES ASSUME caveVerdict = "PASS", NEW p \in caveFired
      PROVE  LET holds == {k \in DOMAIN caveTiles : p \in DOMAIN caveTiles[k]}
             IN /\ Cardinality(holds) = 1
                /\ \A k \in holds : Cave!Distance(caveTiles[k][p], CaveAt[p] + CaveTruth) < CaveCeiling
  BY CaveCounts DEF Cave!MapEarned
<1>2. /\ cavePhase = "done" /\ Cave!Fits /\ caveTiles = Cave!Tiling(caveFired)
      /\ p \in Cave!Points /\ caveFired \in SUBSET Cave!Points
  BY <1>1 DEF SlamInv
<1> DEFINE holds == {k \in DOMAIN caveTiles : p \in DOMAIN caveTiles[k]}
<1>3. Cardinality(holds) = 1 /\ \A k \in holds : caveTiles[k][p] = Cave!Placed(p)
  BY <1>2, TileOfOne
<1>4. caveMotor \in Int /\ CaveTruth \in Int /\ CaveAt[p] \in Int /\ CaveCeiling \in Nat
  BY <1>2, MotorInt DEF Cave!SlamAssumption
<1>5. Cave!Distance(Cave!Placed(p), CaveAt[p] + CaveTruth) = Cave!Distance(caveMotor, CaveTruth)
  BY <1>4 DEF Cave!Placed, Cave!Distance
<1>6. QED
  BY <1>2, <1>3, <1>5 DEF Cave!Fits

(* Whatever the cave, the noise and the errors: the pipeline's variables   *)
(* keep their types, the walk is closed on its candidate by even shares,   *)
(* and a PASS is a map within the ceiling.                                 *)
THEOREM SlamPromises ==
  Cave!SlamAssumption => (Cave!Spec => [](Cave!TypeOK /\ Cave!SlamSound))
<1> SUFFICES ASSUME Cave!SlamAssumption
             PROVE  Cave!Spec => [](Cave!TypeOK /\ Cave!SlamSound)
  OBVIOUS
<1>1. Cave!Init => SlamInv
  BY SlamInvInit
<1>2. SlamInv /\ [Cave!Next]_(Cave!vars) => SlamInv'
  BY SlamInvStep
<1>3. SlamInv => Cave!TypeOK /\ Cave!SlamSound
  BY SlamTypes, SlamCloses, SlamEarns DEF Cave!SlamSound
<1>4. QED
  BY <1>1, <1>2, <1>3, PTL DEF Cave!Spec

-----------------------------------------------------------------------------
(***************************************************************************)
(* Folds over finite sets.  A fold whose operation commutes has one value, *)
(* whatever order the elements are taken in: the operation is a function,  *)
(* so that the lemmas can be cited for any.                                *)
(***************************************************************************)
Commutes(f, S, V) ==
    /\ f \in [S \X V -> V]
    /\ \A x, y \in S, v \in V : f[<<x, f[<<y, v>>]>>] = f[<<y, f[<<x, v>>]>>]

FoldsTo(F, f, S, V, base) ==
    /\ F \in [SUBSET S -> V] /\ F[{}] = base
    /\ \A s \in SUBSET S, x \in S : x \in s => F[s] = f[<<x, F[s \ {x}]>>]

LEMMA FoldNone ==
  ASSUME NEW f, NEW V, NEW base \in V
  PROVE  \E F : FoldsTo(F, f, {}, V, base)
<1> DEFINE F == [s \in SUBSET {} |-> base]
<1>1. F \in [SUBSET {} -> V] /\ F[{}] = base
  OBVIOUS
<1>2. FoldsTo(F, f, {}, V, base)
  BY <1>1 DEF FoldsTo
<1>3. QED
  BY <1>2

LEMMA FoldMore ==
  ASSUME NEW S, NEW V, NEW base \in V, NEW f, Commutes(f, S, V),
         NEW T \in SUBSET S, NEW y \in S, y \notin T,
         NEW F, FoldsTo(F, f, T, V, base)
  PROVE  \E G : FoldsTo(G, f, T \union {y}, V, base)
<1> DEFINE U == T \union {y}
           G == [s \in SUBSET U |-> IF y \in s THEN f[<<y, F[s \ {y}]>>] ELSE F[s]]
<1>1. \A s \in SUBSET U : s \ {y} \in SUBSET T /\ (y \notin s => s \in SUBSET T)
  OBVIOUS
<1>2. \A x \in S, v \in V : f[<<x, v>>] \in V
  BY DEF Commutes
<1>3. \A s \in SUBSET T : F[s] \in V
  BY DEF FoldsTo
<1>4. G \in [SUBSET U -> V]
  BY <1>1, <1>2, <1>3
<1>5. \A s \in SUBSET U : G[s] = IF y \in s THEN f[<<y, F[s \ {y}]>>] ELSE F[s]
  OBVIOUS
<1>6. G[{}] = base
  BY <1>5 DEF FoldsTo
<1> HIDE DEF G
<1>7. ASSUME NEW s \in SUBSET U, NEW x \in U, x \in s PROVE G[s] = f[<<x, G[s \ {x}]>>]
  <2>1. s \ {x} \in SUBSET U
    OBVIOUS
  <2>2. CASE x = y
    <3>1. G[s] = f[<<y, F[s \ {y}]>>] /\ G[s \ {x}] = F[s \ {y}]
      BY <1>5, <1>7, <2>1, <2>2
    <3>2. QED
      BY <2>2, <3>1
  <2>3. CASE x # y /\ y \notin s
    <3>1. s \in SUBSET T /\ x \in T
      BY <1>1, <1>7, <2>3
    <3>2. G[s] = F[s] /\ G[s \ {x}] = F[s \ {x}]
      BY <1>5, <2>1, <2>3
    <3>3. F[s] = f[<<x, F[s \ {x}]>>]
      BY <1>7, <3>1 DEF FoldsTo
    <3>4. QED
      BY <3>2, <3>3
  <2>4. CASE x # y /\ y \in s
    <3> DEFINE r == s \ {y}
               v == F[r \ {x}]
    <3>1. r \in SUBSET T /\ x \in T /\ x \in r /\ r \ {x} \in SUBSET T /\ x \in S
      BY <1>1, <1>7, <2>4
    <3>2. F[r] = f[<<x, v>>] /\ v \in V
      BY <1>3, <3>1 DEF FoldsTo
    <3>3. G[s] = f[<<y, F[r]>>]
      BY <1>5, <2>4
    <3>4. y \in s \ {x} /\ (s \ {x}) \ {y} = r \ {x}
      BY <2>4
    <3>5. G[s \ {x}] = f[<<y, v>>]
      BY <1>5, <2>1, <3>4
    <3>6. f[<<x, f[<<y, v>>]>>] = f[<<y, f[<<x, v>>]>>]
      BY <3>1, <3>2 DEF Commutes
    <3>7. QED
      BY <3>2, <3>3, <3>5, <3>6
  <2>5. QED
    BY <2>2, <2>3, <2>4
<1>8. FoldsTo(G, f, U, V, base)
  BY <1>4, <1>6, <1>7 DEF FoldsTo
<1>9. QED
  BY <1>8

LEMMA FoldExists ==
  ASSUME NEW S, IsFiniteSet(S), NEW V, NEW base \in V, NEW f, Commutes(f, S, V)
  PROVE  \E F : FoldsTo(F, f, S, V, base)
<1> DEFINE Ok(T) == \E F : FoldsTo(F, f, T, V, base)
           N == {n \in Nat : \E T \in SUBSET S : Cardinality(T) = n /\ ~Ok(T)}
<1> SUFFICES ASSUME ~Ok(S) PROVE FALSE
  OBVIOUS
<1>1. \A T \in SUBSET S : IsFiniteSet(T) /\ Cardinality(T) \in Nat
  BY FS_Subset, FS_CardinalityType
<1>2. Cardinality(S) \in N
  BY <1>1
<1>3. PICK n \in N : \A m \in N : n <= m
  BY <1>2, Least, N \subseteq Nat
<1>4. PICK T \in SUBSET S : Cardinality(T) = n /\ ~Ok(T)
  BY <1>3
<1>5. T # {}
  BY <1>4, FoldNone
<1>6. PICK y \in T : TRUE
  BY <1>5
<1>7. Cardinality(T \ {y}) = n - 1 /\ T \ {y} \in SUBSET S /\ n \in Nat
  BY <1>1, <1>3, <1>4, <1>6, FS_RemoveElement
<1>8. Cardinality(T \ {y}) \in Nat
  BY <1>1, <1>7
<1>9. Ok(T \ {y})
  <2>1. SUFFICES ASSUME ~Ok(T \ {y}) PROVE FALSE
    OBVIOUS
  <2>2. n - 1 \in N
    BY <1>7, <1>8, <2>1
  <2>3. QED
    BY <1>3, <1>7, <2>2
<1>10. (T \ {y}) \union {y} = T /\ y \in S /\ y \notin T \ {y}
  BY <1>6
<1>11. Ok((T \ {y}) \union {y})
  BY <1>7, <1>9, <1>10, FoldMore
<1>12. QED
  BY <1>4, <1>10, <1>11

(* A recursion that takes some element of each set computes the fold.      *)
Recurs(h, f, S, V) ==
    \A s \in SUBSET S : s # {} => \E x \in s : \A v \in V : h[s \ {x}] = v => h[s] = f[<<x, v>>]

LEMMA FoldIs ==
  ASSUME NEW S, IsFiniteSet(S), NEW V, NEW base, NEW f, NEW F, FoldsTo(F, f, S, V, base),
         NEW h, h[{}] = base, Recurs(h, f, S, V)
  PROVE  \A s \in SUBSET S : h[s] = F[s]
<1> DEFINE N == {n \in Nat : \E s \in SUBSET S : Cardinality(s) = n /\ h[s] # F[s]}
<1> SUFFICES ASSUME NEW r \in SUBSET S, h[r] # F[r] PROVE FALSE
  OBVIOUS
<1>1. \A s \in SUBSET S : IsFiniteSet(s) /\ Cardinality(s) \in Nat
  BY FS_Subset, FS_CardinalityType
<1>2. Cardinality(r) \in N
  BY <1>1
<1>3. PICK n \in N : \A m \in N : n <= m
  BY <1>2, Least, N \subseteq Nat
<1>4. PICK s \in SUBSET S : Cardinality(s) = n /\ h[s] # F[s]
  BY <1>3
<1>5. s # {}
  BY <1>4 DEF FoldsTo
<1>6. PICK x \in s : \A v \in V : h[s \ {x}] = v => h[s] = f[<<x, v>>]
  BY <1>5 DEF Recurs
<1>7. Cardinality(s \ {x}) = n - 1 /\ s \ {x} \in SUBSET S /\ n \in Nat
  BY <1>1, <1>3, <1>4, <1>6, FS_RemoveElement
<1>8. h[s \ {x}] = F[s \ {x}]
  <2>1. SUFFICES ASSUME h[s \ {x}] # F[s \ {x}] PROVE FALSE
    OBVIOUS
  <2>2. n - 1 \in N
    BY <1>1, <1>7, <2>1
  <2>3. QED
    BY <1>3, <1>7, <2>2
<1>9. F[s \ {x}] \in V /\ F[s] = f[<<x, F[s \ {x}]>>]
  BY <1>6, <1>7 DEF FoldsTo
<1>10. QED
  BY <1>4, <1>6, <1>8, <1>9

(* The sum of a function is the fold of its values, in any order.          *)
Adds(g, S) == [z \in S \X Nat |-> g[z[1]] + z[2]]

LEMMA AddsCommute ==
  ASSUME NEW S, NEW g \in [S -> Nat]
  PROVE  Commutes(Adds(g, S), S, Nat)
<1> DEFINE f == Adds(g, S)
<1>1. \A x \in S, v \in Nat : <<x, v>> \in S \X Nat /\ f[<<x, v>>] = g[x] + v /\ g[x] \in Nat
  BY DEF Adds
<1>2. f \in [S \X Nat -> Nat]
  BY DEF Adds
<1> HIDE DEF f
<1>3. ASSUME NEW x \in S, NEW y \in S, NEW v \in Nat
      PROVE  f[<<x, f[<<y, v>>]>>] = f[<<y, f[<<x, v>>]>>]
  <2>1. g[x] \in Nat /\ g[y] \in Nat /\ f[<<y, v>>] = g[y] + v /\ f[<<x, v>>] = g[x] + v
    BY <1>1
  <2>2. f[<<x, g[y] + v>>] = g[x] + (g[y] + v) /\ f[<<y, g[x] + v>>] = g[y] + (g[x] + v)
    BY <1>1, <2>1
  <2>3. f[<<y, v>>] = g[y] + v /\ f[<<x, v>>] = g[x] + v
    BY <2>1
  <2>4. g[x] + (g[y] + v) = g[y] + (g[x] + v)
    BY <2>1
  <2>5. QED
    BY <2>2, <2>3, <2>4
<1>4. QED
  BY <1>2, <1>3 DEF Commutes, f

LEMMA SumIsFold ==
  ASSUME NEW S, IsFiniteSet(S), NEW g, DOMAIN g = S, NEW U, S \subseteq U,
         NEW k \in [U -> Nat], \A x \in S : g[x] = k[x],
         NEW F, FoldsTo(F, Adds(k, U), U, Nat, 0)
  PROVE  Sky!SumFunction(g) = F[S]
<1> DEFINE Rec(h) == h = [s \in SUBSET S |-> IF s = {} THEN 0
                              ELSE g[CHOOSE x \in s : TRUE] + h[s \ {CHOOSE x \in s : TRUE}]]
           iter == CHOOSE h : Rec(h)
           E == [s \in SUBSET S |-> F[s]]
<1>1. Sky!SumFunction(g) = iter[S]
  BY DEF Sky!SumFunction, Sky!SumFunctionOnSet, Sky!FoldFunctionOnSet, Sky!MapThenFoldSet
<1>2. \A s \in SUBSET S : s # {} => (CHOOSE x \in s : TRUE) \in s
  OBVIOUS
<1>3. \A x \in U, v \in Nat : Adds(k, U)[<<x, v>>] = k[x] + v
  BY DEF Adds
<1>4. F \in [SUBSET U -> Nat] /\ F[{}] = 0
      /\ \A s \in SUBSET U, x \in U : x \in s => F[s] = Adds(k, U)[<<x, F[s \ {x}]>>]
  BY DEF FoldsTo
<1>5. \A s \in SUBSET S, x \in S : x \in s => F[s] = g[x] + F[s \ {x}]
  <2> SUFFICES ASSUME NEW s \in SUBSET S, NEW x \in s PROVE F[s] = g[x] + F[s \ {x}]
    OBVIOUS
  <2>1. s \in SUBSET U /\ x \in U /\ s \ {x} \in SUBSET U /\ g[x] = k[x]
    OBVIOUS
  <2>2. F[s \ {x}] \in Nat /\ F[s] = Adds(k, U)[<<x, F[s \ {x}]>>]
    BY <1>4, <2>1
  <2>3. QED
    BY <1>3, <2>1, <2>2
<1>6. Rec(E)
  <2>1. ASSUME NEW s \in SUBSET S
        PROVE  F[s] = IF s = {} THEN 0
                      ELSE g[CHOOSE x \in s : TRUE] + E[s \ {CHOOSE x \in s : TRUE}]
    <3> DEFINE c == CHOOSE x \in s : TRUE
    <3>1. CASE s = {}
      BY <1>4, <3>1
    <3>2. CASE s # {}
      <4>1. c \in s
        BY <3>2
      <4> HIDE DEF c
      <4>2. F[s] = g[c] + F[s \ {c}] /\ E[s \ {c}] = F[s \ {c}]
        BY <1>5, <4>1
      <4>3. F[s] = g[c] + E[s \ {c}]
        BY <4>2
      <4>4. QED
        BY <3>2, <4>3 DEF c
    <3>3. QED
      BY <3>1, <3>2
  <2> DEFINE R == [s \in SUBSET S |-> IF s = {} THEN 0
                     ELSE g[CHOOSE x \in s : TRUE] + E[s \ {CHOOSE x \in s : TRUE}]]
  <2>2. \A s \in SUBSET S : E[s] = R[s]
    BY <2>1
  <2>3. E = R
    BY <2>2, Zenon
  <2>4. QED
    BY <2>3
<1> HIDE DEF Rec, E
<1>7. Rec(iter)
  BY <1>6
<1> HIDE DEF iter
<1>8. iter[{}] = 0
  BY <1>7 DEF Rec
<1>9. ASSUME NEW s \in SUBSET S, s # {}
      PROVE  \E x \in s : iter[s] = g[x] + iter[s \ {x}]
  <2> DEFINE c == CHOOSE x \in s : TRUE
  <2>1. c \in s
    BY <1>9
  <2>2. iter[s] = g[c] + iter[s \ {c}]
    BY <1>7, <1>9 DEF Rec
  <2> HIDE DEF c
  <2>3. QED
    BY <2>1, <2>2
<1> DEFINE D == [s \in SUBSET S |-> F[s]]
<1>10. FoldsTo(D, Adds(g, S), S, Nat, 0)
  <2>1. D \in [SUBSET S -> Nat] /\ D[{}] = 0
    BY <1>4
  <2>2. ASSUME NEW s \in SUBSET S, NEW x \in S, x \in s PROVE D[s] = Adds(g, S)[<<x, D[s \ {x}]>>]
    <3>1. D[s] = F[s] /\ D[s \ {x}] = F[s \ {x}] /\ F[s \ {x}] \in Nat
      BY <1>4
    <3>2. Adds(g, S)[<<x, F[s \ {x}]>>] = g[x] + F[s \ {x}]
      BY <3>1 DEF Adds
    <3>3. QED
      BY <1>5, <2>2, <3>1, <3>2
  <2>3. QED
    BY <2>1, <2>2 DEF FoldsTo
<1> HIDE DEF D
<1>11. Recurs(iter, Adds(g, S), S, Nat)
  <2> SUFFICES ASSUME NEW s \in SUBSET S, s # {}
               PROVE  \E x \in s : \A v \in Nat : iter[s \ {x}] = v => iter[s] = Adds(g, S)[<<x, v>>]
    BY DEF Recurs
  <2>1. PICK x \in s : iter[s] = g[x] + iter[s \ {x}]
    BY <1>9
  <2>2. ASSUME NEW v \in Nat, iter[s \ {x}] = v PROVE iter[s] = Adds(g, S)[<<x, v>>]
    BY <2>1, <2>2 DEF Adds
  <2>3. QED
    BY <2>2
<1>12. \A s \in SUBSET S : iter[s] = D[s]
  BY <1>8, <1>10, <1>11, FoldIs
<1>13. D[S] = F[S]
  BY DEF D
<1>14. QED
  BY <1>1, <1>12, <1>13

LEMMA SumNone == ASSUME NEW g, DOMAIN g = {} PROVE Sky!SumFunction(g) = 0
<1>1. g \in [{} -> Nat] /\ IsFiniteSet({})
  BY FS_EmptySet
<1>2. PICK F : FoldsTo(F, Adds([x \in {} |-> 0], {}), {}, Nat, 0)
  BY FoldNone
<1>3. Sky!SumFunction(g) = F[{}]
  BY <1>1, <1>2, SumIsFold
<1>4. QED
  BY <1>2, <1>3 DEF FoldsTo

LEMMA SumGrows ==
  ASSUME NEW S, IsFiniteSet(S), NEW y, y \notin S, NEW g, DOMAIN g = S,
         NEW k \in [S \union {y} -> Nat], \A x \in S : g[x] = k[x]
  PROVE  /\ Sky!SumFunction(g) \in Nat
         /\ Sky!SumFunction(k) = Sky!SumFunction(g) + k[y]
<1> DEFINE U == S \union {y}
<1>1. IsFiniteSet(U) /\ DOMAIN k = U
  BY FS_AddElement
<1>2. PICK F : FoldsTo(F, Adds(k, U), U, Nat, 0)
  BY <1>1, AddsCommute, FoldExists
<1>3. Sky!SumFunction(g) = F[S]
  BY <1>2, SumIsFold
<1>4. Sky!SumFunction(k) = F[U]
  BY <1>1, <1>2, SumIsFold
<1>5. U \ {y} = S /\ y \in U /\ U \in SUBSET U /\ S \in SUBSET U
  OBVIOUS
<1> HIDE DEF U
<1>6. F[S] \in Nat /\ F[U] = Adds(k, U)[<<y, F[S]>>]
  BY <1>2, <1>5 DEF FoldsTo
<1>7. k[y] \in Nat /\ Adds(k, U)[<<y, F[S]>>] = k[y] + F[S]
  BY <1>5, <1>6 DEF Adds, U
<1>8. QED
  BY <1>3, <1>4, <1>6, <1>7 DEF U

-----------------------------------------------------------------------------
(* The instance counts as the library does.                                *)
LEMMA SkyCounts ==
  \A S : Sky!IsFiniteSet(S) = IsFiniteSet(S) /\ Sky!Cardinality(S) = Cardinality(S)
BY DEF Sky!IsFiniteSet, IsFiniteSet, Sky!Cardinality, Cardinality

SkyEvent == [kind : Sky!Kinds, size : Nat, span : Nat \ {0}, inBand : BOOLEAN]
Window == [event : Sky!Listed, seq : Nat, start : 0 .. Sky!End, stop : Nat]

SameFlares(S, T) ==
  Sky!FoldSet(LAMBDA i, p : p * skyWindows[i].event.size, 1, S)
     = Sky!FoldSet(LAMBDA i, p : p * skyWindows[i].event.size, 1, T)
LEMMA SameFold == ASSUME NEW S, NEW T, S = T PROVE SameFlares(S, T)
<1>1. SameFlares(S, S)
  BY DEF SameFlares
<1>2. QED
  BY <1>1

LEMMA FlareAtSample ==
  ASSUME NEW k \in Nat
  PROVE  Sky!FlareAt(k) = Sky!Clamp(Sky!Product(Sky!ActiveAt(2 * k)), 1, SkyBand)
<1> DEFINE S == Sky!Covering(k, "flare")
           T == Sky!OfKind(Sky!ActiveAt(2 * k), "flare")
<1>1. S = T
  BY DEF Sky!Covering, Sky!Covers, Sky!OfKind, Sky!ActiveAt
<1> HIDE DEF S, T
<1>2. SameFlares(S, T)
  BY <1>1, SameFold
<1>3. QED
  BY <1>2 DEF SameFlares, Sky!FlareAt, Sky!Product, S, T

(* A fold over a set of windows, in the order the recursion takes them.    *)
LEMMA SkyProduct ==
  ASSUME NEW active, IsFiniteSet(active),
         \A i \in active : skyWindows[i].event.size \in Nat
  PROVE  Sky!Product(active) \in Nat
<1> DEFINE S == Sky!OfKind(active, "flare")
           size(i) == skyWindows[i].event.size
           f == [z \in S \X Nat |-> z[2] * size(z[1])]
           Rec(h) == h = [s \in SUBSET S |-> IF s = {} THEN 1
                            ELSE h[s \ {CHOOSE x \in s : TRUE}] * size(CHOOSE x \in s : TRUE)]
           iter == CHOOSE h : Rec(h)
<1>1. Sky!Product(active) = iter[S]
  BY DEF Sky!Product, Sky!FoldSet, Sky!MapThenFoldSet
<1>2. IsFiniteSet(S) /\ \A i \in S : size(i) \in Nat
  BY FS_Subset DEF Sky!OfKind
<1> HIDE DEF S, size
<1>3. \A x \in S, v \in Nat : f[<<x, v>>] = v * size(x) /\ v * size(x) \in Nat
  BY <1>2
<1>4. f \in [S \X Nat -> Nat]
  BY <1>2
<1> HIDE DEF f
<1>5. ASSUME NEW x \in S, NEW y \in S, NEW v \in Nat
      PROVE  f[<<x, f[<<y, v>>]>>] = f[<<y, f[<<x, v>>]>>]
  <2>1. size(x) \in Nat /\ size(y) \in Nat
    BY <1>2
  <2>2. f[<<y, v>>] = v * size(y) /\ f[<<x, v>>] = v * size(x)
        /\ v * size(y) \in Nat /\ v * size(x) \in Nat
    BY <1>3
  <2>3. /\ f[<<x, v * size(y)>>] = (v * size(y)) * size(x)
        /\ f[<<y, v * size(x)>>] = (v * size(x)) * size(y)
    BY <1>3, <2>2
  <2>4. (v * size(y)) * size(x) = (v * size(x)) * size(y)
    BY <2>1
  <2>5. QED
    BY <2>2, <2>3, <2>4
<1>6. Commutes(f, S, Nat)
  BY <1>4, <1>5 DEF Commutes
<1>7. PICK F : FoldsTo(F, f, S, Nat, 1)
  BY <1>2, <1>6, FoldExists
<1>8. F \in [SUBSET S -> Nat] /\ F[{}] = 1
      /\ \A s \in SUBSET S, x \in S : x \in s => F[s] = f[<<x, F[s \ {x}]>>]
  BY <1>7 DEF FoldsTo
<1>9. Rec(F)
  <2> DEFINE R == [s \in SUBSET S |-> IF s = {} THEN 1
                     ELSE F[s \ {CHOOSE x \in s : TRUE}] * size(CHOOSE x \in s : TRUE)]
  <2>1. ASSUME NEW s \in SUBSET S PROVE F[s] = R[s]
    <3> DEFINE c == CHOOSE x \in s : TRUE
    <3>1. CASE s = {}
      BY <1>8, <3>1
    <3>2. CASE s # {}
      <4>1. c \in s
        BY <3>2
      <4> HIDE DEF c
      <4>2. F[s] = f[<<c, F[s \ {c}]>>] /\ F[s \ {c}] \in Nat /\ c \in S
        BY <1>8, <4>1
      <4>3. F[s] = F[s \ {c}] * size(c)
        BY <1>3, <4>2
      <4>4. QED
        BY <3>2, <4>3 DEF c
    <3>3. QED
      BY <3>1, <3>2
  <2> HIDE DEF R
  <2>2. R = [s \in SUBSET S |-> R[s]] /\ F = [s \in SUBSET S |-> F[s]]
    BY <1>8 DEF R
  <2>3. F = R
    BY <2>1, <2>2, Zenon
  <2>4. QED
    BY <2>3 DEF R
<1> HIDE DEF Rec
<1>10. Rec(iter)
  BY <1>9
<1> HIDE DEF iter
<1>11. iter[{}] = 1
  BY <1>10 DEF Rec
<1>12. Recurs(iter, f, S, Nat)
  <2> SUFFICES ASSUME NEW s \in SUBSET S, s # {}
               PROVE  \E x \in s : \A v \in Nat : iter[s \ {x}] = v => iter[s] = f[<<x, v>>]
    BY DEF Recurs
  <2> DEFINE c == CHOOSE x \in s : TRUE
  <2>1. c \in s
    OBVIOUS
  <2>2. iter[s] = iter[s \ {c}] * size(c)
    BY <1>10 DEF Rec
  <2> HIDE DEF c
  <2>3. ASSUME NEW v \in Nat, iter[s \ {c}] = v PROVE iter[s] = f[<<c, v>>]
    BY <1>3, <2>1, <2>2, <2>3
  <2>4. QED
    BY <2>1, <2>3
<1>13. iter[S] = F[S] /\ F[S] \in Nat
  BY <1>2, <1>7, <1>8, <1>11, <1>12, FoldIs
<1>14. QED
  BY <1>1, <1>13

(* The light an eclipse leaves: all, half or none of it.                   *)
LEMMA DimOnce ==
  ASSUME NEW v \in Nat, NEW a \in 0 .. 2
  PROVE  (v * (2 - a)) \div 2 = IF a = 0 THEN v ELSE IF a = 1 THEN v \div 2 ELSE 0
<1>1. CASE a = 0
  BY <1>1
<1>2. CASE a = 1
  BY <1>2
<1>3. CASE a = 2
  BY <1>3
<1>4. QED
  BY <1>1, <1>2, <1>3

LEMMA SkyDimmed ==
  ASSUME NEW active, IsFiniteSet(active), NEW full \in Nat, NEW illum \in 0 .. full,
         \A i \in active : skyWindows[i].event.kind = "eclipse" => skyWindows[i].event.size \in 0 .. 2
  PROVE  Sky!Dimmed(illum, active) \in 0 .. full
<1> DEFINE S == Sky!OfKind(active, "eclipse")
           size(i) == skyWindows[i].event.size
           V == 0 .. full
           f == [z \in S \X V |-> (z[2] * (2 - size(z[1]))) \div 2]
           Rec(h) == h = [s \in SUBSET S |-> IF s = {} THEN illum
                 ELSE (h[s \ {CHOOSE x \in s : TRUE}] * (2 - size(CHOOSE x \in s : TRUE))) \div 2]
           iter == CHOOSE h : Rec(h)
<1>1. Sky!Dimmed(illum, active) = iter[S]
  BY DEF Sky!Dimmed, Sky!FoldSet, Sky!MapThenFoldSet
<1>2. IsFiniteSet(S) /\ \A i \in S : size(i) \in 0 .. 2
  BY FS_Subset DEF Sky!OfKind
<1> HIDE DEF S, size
<1> DEFINE dim(a, v) == IF a = 0 THEN v ELSE IF a = 1 THEN v \div 2 ELSE 0
<1>3. \A x \in S, v \in V : (v * (2 - size(x))) \div 2 = dim(size(x), v) /\ dim(size(x), v) \in V
  <2> SUFFICES ASSUME NEW x \in S, NEW v \in V
               PROVE  (v * (2 - size(x))) \div 2 = dim(size(x), v) /\ dim(size(x), v) \in V
    OBVIOUS
  <2>1. v \in Nat /\ size(x) \in 0 .. 2
    BY <1>2
  <2>2. (v * (2 - size(x))) \div 2 = dim(size(x), v)
    BY <2>1, DimOnce
  <2>3. dim(size(x), v) \in V
    BY <2>1
  <2>4. QED
    BY <2>2, <2>3
<1>4. f \in [S \X V -> V] /\ \A x \in S, v \in V : f[<<x, v>>] = (v * (2 - size(x))) \div 2
  BY <1>3
<1> HIDE DEF f
<1>5. ASSUME NEW x \in S, NEW y \in S, NEW v \in V
      PROVE  f[<<x, f[<<y, v>>]>>] = f[<<y, f[<<x, v>>]>>]
  <2>1. f[<<y, v>>] = dim(size(y), v) /\ f[<<x, v>>] = dim(size(x), v)
        /\ dim(size(y), v) \in V /\ dim(size(x), v) \in V
    BY <1>3, <1>4
  <2>2. /\ f[<<x, dim(size(y), v)>>] = dim(size(x), dim(size(y), v))
        /\ f[<<y, dim(size(x), v)>>] = dim(size(y), dim(size(x), v))
    BY <1>3, <1>4, <2>1
  <2>3. dim(size(x), dim(size(y), v)) = dim(size(y), dim(size(x), v))
    <3>1. size(x) \in 0 .. 2 /\ size(y) \in 0 .. 2 /\ v \in Nat
      BY <1>2
    <3>2. 0 \div 2 = 0
      OBVIOUS
    <3>3. QED
      BY <3>1, <3>2
  <2>4. QED
    BY <2>1, <2>2, <2>3
<1>6. Commutes(f, S, V)
  BY <1>4, <1>5 DEF Commutes
<1>7. PICK F : FoldsTo(F, f, S, V, illum)
  BY <1>2, <1>6, FoldExists
<1>8. F \in [SUBSET S -> V] /\ F[{}] = illum
      /\ \A s \in SUBSET S, x \in S : x \in s => F[s] = f[<<x, F[s \ {x}]>>]
  BY <1>7 DEF FoldsTo
<1>9. Rec(F)
  <2> DEFINE R == [s \in SUBSET S |-> IF s = {} THEN illum
                 ELSE (F[s \ {CHOOSE x \in s : TRUE}] * (2 - size(CHOOSE x \in s : TRUE))) \div 2]
  <2>1. ASSUME NEW s \in SUBSET S PROVE F[s] = R[s]
    <3> DEFINE c == CHOOSE x \in s : TRUE
    <3>1. CASE s = {}
      BY <1>8, <3>1
    <3>2. CASE s # {}
      <4>1. c \in s
        BY <3>2
      <4> HIDE DEF c
      <4>2. F[s] = f[<<c, F[s \ {c}]>>] /\ F[s \ {c}] \in V /\ c \in S
        BY <1>8, <4>1
      <4>3. F[s] = (F[s \ {c}] * (2 - size(c))) \div 2
        BY <1>4, <4>2
      <4>4. QED
        BY <3>2, <4>3 DEF c
    <3>3. QED
      BY <3>1, <3>2
  <2> HIDE DEF R
  <2>2. R = [s \in SUBSET S |-> R[s]] /\ F = [s \in SUBSET S |-> F[s]]
    BY <1>8 DEF R
  <2>3. F = R
    BY <2>1, <2>2, Zenon
  <2>4. QED
    BY <2>3 DEF R
<1> HIDE DEF Rec
<1>10. Rec(iter)
  BY <1>9
<1> HIDE DEF iter
<1>11. iter[{}] = illum
  BY <1>10 DEF Rec
<1>12. Recurs(iter, f, S, V)
  <2> SUFFICES ASSUME NEW s \in SUBSET S, s # {}
               PROVE  \E x \in s : \A v \in V : iter[s \ {x}] = v => iter[s] = f[<<x, v>>]
    BY DEF Recurs
  <2> DEFINE c == CHOOSE x \in s : TRUE
  <2>1. c \in s
    OBVIOUS
  <2>2. iter[s] = (iter[s \ {c}] * (2 - size(c))) \div 2
    BY <1>10 DEF Rec
  <2> HIDE DEF c
  <2>3. ASSUME NEW v \in V, iter[s \ {c}] = v PROVE iter[s] = f[<<c, v>>]
    BY <1>4, <2>1, <2>2, <2>3
  <2>4. QED
    BY <2>1, <2>3
<1>13. iter[S] = F[S] /\ F[S] \in V
  BY <1>2, <1>7, <1>8, <1>11, <1>12, FoldIs
<1>14. QED
  BY <1>1, <1>13

-----------------------------------------------------------------------------
(***************************************************************************)
(* The storm: the fields of its environment are those the schedule says,   *)
(* its peak is the largest of the samples taken so far.                    *)
(***************************************************************************)
SkyShape ==
    /\ skyMode \in {"physics", "deltas"}
    /\ skyPhase \in {"compose", "integrate", "hop", "done", "raised"}
    /\ skyWindows \in Seq(Window) /\ Len(skyWindows) <= SkyMaxEvents
    /\ skyT \in 0 .. SkyHorizon /\ skyPeak \in Nat
    /\ skyHop \in 0 .. Len(skyWindows) /\ skyFails \in 0 .. skyHop
    /\ skyVerdict \in {"none", "PASS", "FAIL"}
    /\ skyEnv \in [flare : Nat \ {0}, illum : 0 .. SkyFull, column : Int, dose : Nat, dust : Nat]
    /\ skyMode = "physics" =>
         /\ skyEnv.flare \in 1 .. SkyBand /\ skyEnv.dust \in 0 .. SkyLoaded
         /\ skyEnv.column \in SkyFull - 1 .. SkyFull + 1

(* Where a storm is in its walk.                                           *)
SkyWalk ==
    /\ skyPhase = "compose" => skyWindows = <<>> /\ skyT = 0 /\ skyPeak = 0 /\ skyEnv = Sky!FreshEnv
    /\ skyPhase \in {"compose", "integrate"} => skyHop = 0
    /\ skyMode = "deltas" => skyT = 0 /\ skyPhase # "integrate"
    /\ skyMode = "physics" /\ skyPhase \in {"hop", "done"} => skyT = SkyHorizon

(* The peak is the largest of the samples in K.                            *)
Sampled(K) ==
    /\ \A k \in K : Cardinality(Sky!ActiveAt(2 * k)) <= skyPeak
    /\ skyPeak = 0 \/ \E k \in K : Cardinality(Sky!ActiveAt(2 * k)) = skyPeak

SkySamples ==
    /\ skyMode = "physics" => Sampled(0 .. skyT - 1)
    /\ skyMode = "deltas" /\ skyPhase # "compose" =>
         \E final \in Nat : /\ \A i \in DOMAIN skyWindows : skyWindows[i].stop <= final
                           /\ Sampled(0 .. final \div 2)

(* The fields, the largest flare as one that none exceeds.                 *)
FlareSizes ==
    {1} \union {skyWindows[i].event.size : i \in Sky!Judged("flare") \union Sky!Judged("plain")}
SkyFields ==
    /\ skyMode = "physics" =>
         /\ skyEnv.dose = Sky!SumFunction([k \in 0 .. skyT - 1 |-> Sky!FlareAt(k)])
         /\ skyEnv.dust = IF Sky!Laden < SkyLoaded THEN Sky!Laden ELSE SkyLoaded
    /\ skyMode = "deltas" =>
         /\ skyEnv.dose = Sky!SumFunction([i \in Sky!Judged("dose") |-> skyWindows[i].event.size])
         /\ skyEnv.flare \in FlareSizes /\ \A n \in FlareSizes : n <= skyEnv.flare

SkyInv == SkyShape /\ SkyWalk /\ SkySamples /\ SkyFields

(* What the assumption and the shape say of the windows.                   *)
LEMMA SkyConstants ==
  ASSUME Sky!StormAssumption
  PROVE  /\ SkyHorizon \in Nat /\ SkyFull \in Nat /\ SkyLoaded \in Nat /\ SkyMaxEvents \in Nat
         /\ SkyBand \in Nat \ {0} /\ Sky!End = 2 * SkyHorizon
         /\ \A e \in Sky!Listed : /\ e \in SkyEvent /\ e.kind # "unlisted"
                                  /\ e.kind = "eclipse" => e.size \in 0 .. 2
BY DEF Sky!StormAssumption, Sky!End, Sky!Listed, SkyEvent, Sky!Event

LEMMA WindowFacts ==
  ASSUME Sky!StormAssumption, skyWindows \in Seq(Window)
  PROVE  /\ DOMAIN skyWindows = 1 .. Len(skyWindows) /\ Len(skyWindows) \in Nat
         /\ \A i \in DOMAIN skyWindows :
              /\ skyWindows[i] \in Window
              /\ skyWindows[i].start \in 0 .. Sky!End /\ skyWindows[i].stop \in Nat
              /\ skyWindows[i].event.size \in Nat
              /\ skyWindows[i].event.kind \in Sky!Kinds \ {"unlisted"}
              /\ skyWindows[i].event.kind = "eclipse" => skyWindows[i].event.size \in 0 .. 2
<1>1. DOMAIN skyWindows = 1 .. Len(skyWindows) /\ Len(skyWindows) \in Nat
  OBVIOUS
<1>2. ASSUME NEW i \in DOMAIN skyWindows
      PROVE  /\ skyWindows[i] \in Window /\ skyWindows[i].event \in Sky!Listed
             /\ skyWindows[i].start \in 0 .. Sky!End /\ skyWindows[i].stop \in Nat
  <2>1. skyWindows[i] \in Window
    BY <1>1, <1>2
  <2>2. QED
    BY <2>1 DEF Window
<1>3. ASSUME NEW i \in DOMAIN skyWindows
      PROVE  /\ skyWindows[i].event \in SkyEvent /\ skyWindows[i].event.kind # "unlisted"
             /\ skyWindows[i].event.kind = "eclipse" => skyWindows[i].event.size \in 0 .. 2
  BY <1>2, <1>3, SkyConstants
<1>4. QED
  BY <1>1, <1>2, <1>3 DEF SkyEvent

(* A set of windows is finite, and no larger than their number.            *)
LEMMA ActiveFinite ==
  ASSUME Sky!StormAssumption, skyWindows \in Seq(Window), NEW S \in SUBSET DOMAIN skyWindows
  PROVE  IsFiniteSet(S) /\ Cardinality(S) \in 0 .. Len(skyWindows)
<1>1. IsFiniteSet(1 .. Len(skyWindows)) /\ Cardinality(1 .. Len(skyWindows)) = Len(skyWindows)
  <2>1. Len(skyWindows) \in Nat
    OBVIOUS
  <2> DEFINE n == Len(skyWindows)
  <2> HIDE DEF n
  <2>2. n \in Nat => IsFiniteSet(1 .. n) /\ Cardinality(1 .. n) = n
    BY FS_Interval
  <2>3. QED
    BY <2>1, <2>2 DEF n
<1>2. IsFiniteSet(S) /\ Cardinality(S) <= Len(skyWindows) /\ Cardinality(S) \in Nat
  BY <1>1, WindowFacts, FS_Subset, FS_CardinalityType
<1>3. QED
  BY <1>2, WindowFacts

LEMMA ActiveWindows == \A k : Sky!ActiveAt(k) \in SUBSET DOMAIN skyWindows
BY DEF Sky!ActiveAt

LEMMA ClampIn ==
  ASSUME NEW x \in Int, NEW lo \in Int, NEW hi \in Int, lo <= hi
  PROVE  /\ Sky!Clamp(x, lo, hi) \in lo .. hi
         /\ x \in lo .. hi => Sky!Clamp(x, lo, hi) = x
BY DEF Sky!Clamp

LEMMA FlareInBand ==
  ASSUME Sky!StormAssumption, skyWindows \in Seq(Window), NEW k \in Nat
  PROVE  Sky!FlareAt(k) \in 1 .. SkyBand
<1> DEFINE active == Sky!ActiveAt(2 * k)
<1>1. IsFiniteSet(active) /\ \A i \in active : skyWindows[i].event.size \in Nat
  BY ActiveWindows, ActiveFinite, WindowFacts
<1> HIDE DEF active
<1>2. Sky!Product(active) \in Nat
  BY <1>1, SkyProduct
<1>3. Sky!FlareAt(k) = Sky!Clamp(Sky!Product(active), 1, SkyBand)
  BY FlareAtSample DEF active
<1>4. QED
  <2>1. Sky!Product(active) \in Int /\ 1 \in Int /\ SkyBand \in Int /\ 1 <= SkyBand
    BY <1>2, SkyConstants
  <2>2. Sky!Clamp(Sky!Product(active), 1, SkyBand) \in 1 .. SkyBand
    BY <2>1, ClampIn
  <2>3. QED
    BY <1>3, <2>2

(* A largest element, and the operator that chooses it.                    *)
LEMMA MaxIs ==
  ASSUME NEW S, S \subseteq Int, NEW m \in S, \A y \in S : y <= m
  PROVE  Sky!Max(S) = m
<1>1. \E x \in S : \A y \in S : x >= y
  OBVIOUS
<1>2. Sky!Max(S) \in S /\ \A y \in S : Sky!Max(S) >= y
  BY <1>1 DEF Sky!Max
<1>3. Sky!Max(S) \in Int /\ m \in Int /\ Sky!Max(S) >= m /\ Sky!Max(S) <= m
  BY <1>2
<1>4. QED
  BY <1>3

LEMMA Largest ==
  ASSUME NEW n \in Nat, NEW S, S \subseteq 0 .. n, S # {}
  PROVE  \E x \in S : \A y \in S : y <= x
<1> DEFINE T == {n - y : y \in S}
<1>1. T \subseteq Nat /\ T # {}
  <2>1. \A y \in S : n - y \in Nat
    OBVIOUS
  <2>2. QED
    BY <2>1
<1>2. PICK d \in T : \A e \in T : d <= e
  BY <1>1, Least
<1>3. PICK x \in S : d = n - x
  BY <1>2
<1>4. \A y \in S : n - x <= n - y
  BY <1>2, <1>3
<1>5. \A y \in S : y <= x
  BY <1>4
<1>6. QED
  BY <1>5

LEMMA MinOfThree ==
  ASSUME NEW a \in Int, NEW b \in Int, NEW c \in Int
  PROVE  /\ Sky!Min({a, b, c}) \in {a, b, c}
         /\ Sky!Min({a, b, c}) <= a /\ Sky!Min({a, b, c}) <= b /\ Sky!Min({a, b, c}) <= c
<1>1. \E x \in {a, b, c} : \A y \in {a, b, c} : x =< y
  OBVIOUS
<1>2. QED
  BY <1>1 DEF Sky!Min

LEMMA MaxOfTwo ==
  ASSUME NEW a \in Int, NEW b \in Int
  PROVE  Sky!Max({a, b}) \in {a, b} /\ Sky!Max({a, b}) >= a /\ Sky!Max({a, b}) >= b
<1>1. \E x \in {a, b} : \A y \in {a, b} : x >= y
  OBVIOUS
<1>2. QED
  BY <1>1 DEF Sky!Max

-----------------------------------------------------------------------------
(* What the samples show of the overlaps.                                  *)
LEMMA MeetSample ==
  ASSUME Sky!StormAssumption, skyWindows \in Seq(Window),
         NEW i \in DOMAIN skyWindows, NEW j \in DOMAIN skyWindows,
         Sky!Meet(skyWindows[i], skyWindows[j])
  PROVE  \E k \in Nat : /\ i \in Sky!ActiveAt(2 * k) /\ j \in Sky!ActiveAt(2 * k)
                        /\ k < SkyHorizon /\ 2 * k < skyWindows[i].stop
<1> DEFINE v == skyWindows[i]
           w == skyWindows[j]
           a == Sky!Max({v.start, w.start})
           b == Sky!Min({v.stop, w.stop, Sky!End})
           k == (a + 1) \div 2
<1>1. v.start \in Nat /\ w.start \in Nat /\ v.stop \in Nat /\ w.stop \in Nat
      /\ SkyHorizon \in Nat /\ Sky!End = 2 * SkyHorizon
  BY WindowFacts, SkyConstants
<1>2. a + 2 <= b
  BY DEF Sky!Meet
<1> HIDE DEF v, w
<1>3. a \in Nat /\ a >= v.start /\ a >= w.start
  <2>1. v.start \in Int /\ w.start \in Int
    BY <1>1
  <2>2. a \in {v.start, w.start} /\ a >= v.start /\ a >= w.start
    BY <2>1, MaxOfTwo
  <2>3. QED
    BY <1>1, <2>2
<1>4. b \in Int /\ b <= v.stop /\ b <= w.stop /\ b <= Sky!End
  <2>1. v.stop \in Int /\ w.stop \in Int /\ Sky!End \in Int
    BY <1>1
  <2>2. b \in {v.stop, w.stop, Sky!End} /\ b <= v.stop /\ b <= w.stop /\ b <= Sky!End
    BY <2>1, MinOfThree
  <2>3. QED
    BY <2>1, <2>2
<1> HIDE DEF a, b
<1>5. k \in Nat /\ 2 * k >= a /\ 2 * k <= a + 1
  BY <1>3
<1> HIDE DEF k
<1>6. v.start <= 2 * k /\ w.start <= 2 * k /\ 2 * k < v.stop /\ 2 * k < w.stop /\ k < SkyHorizon
  BY <1>1, <1>2, <1>3, <1>4, <1>5
<1>7. i \in Sky!ActiveAt(2 * k) /\ j \in Sky!ActiveAt(2 * k)
  BY <1>6 DEF Sky!ActiveAt, v, w
<1>8. QED
  BY <1>5, <1>6, <1>7 DEF v

LEMMA OverlapFound ==
  ASSUME Sky!StormAssumption, SkyInv, skyPhase \in {"hop", "done"},
         NEW i \in DOMAIN skyWindows, NEW j \in DOMAIN skyWindows, i # j,
         Sky!Meet(skyWindows[i], skyWindows[j])
  PROVE  skyPeak >= 2
<1>1. skyWindows \in Seq(Window) /\ skyPeak \in Nat
  BY DEF SkyInv, SkyShape
<1>2. PICK k \in Nat : /\ i \in Sky!ActiveAt(2 * k) /\ j \in Sky!ActiveAt(2 * k)
                       /\ k < SkyHorizon /\ 2 * k < skyWindows[i].stop
  BY <1>1, MeetSample
<1>3. Cardinality(Sky!ActiveAt(2 * k)) <= skyPeak
  <2>1. CASE skyMode = "physics"
    <3>1. Sampled(0 .. SkyHorizon - 1)
      BY <2>1 DEF SkyInv, SkyWalk, SkySamples
    <3>2. k \in 0 .. SkyHorizon - 1
      BY <1>2, SkyConstants
    <3>3. QED
      BY <3>1, <3>2 DEF Sampled
  <2>2. CASE skyMode = "deltas"
    <3>1. PICK final \in Nat : /\ \A n \in DOMAIN skyWindows : skyWindows[n].stop <= final
                               /\ Sampled(0 .. final \div 2)
      BY <2>2 DEF SkyInv, SkyWalk, SkySamples
    <3>2. skyWindows[i].stop \in Nat /\ 2 * k < skyWindows[i].stop /\ skyWindows[i].stop <= final
      BY <1>1, <1>2, <3>1, WindowFacts
    <3>3. k \in 0 .. final \div 2
      BY <3>2
    <3>4. QED
      BY <3>1, <3>3 DEF Sampled
  <2>3. QED
    BY <2>1, <2>2 DEF SkyInv, SkyShape
<1>4. IsFiniteSet(Sky!ActiveAt(2 * k)) /\ Cardinality(Sky!ActiveAt(2 * k)) \in Nat
  BY <1>1, ActiveWindows, ActiveFinite
<1>5. Cardinality({i, j}) = 2
  <2>1. IsFiniteSet({i}) /\ Cardinality({i}) = 1
    BY FS_Singleton
  <2>2. {i, j} = {i} \union {j} /\ j \notin {i}
    OBVIOUS
  <2>3. Cardinality({i} \union {j}) = Cardinality({i}) + 1
    BY <2>1, <2>2, FS_AddElement
  <2>4. QED
    BY <2>1, <2>2, <2>3
<1>6. Cardinality({i, j}) <= Cardinality(Sky!ActiveAt(2 * k))
  BY <1>2, <1>4, FS_Subset
<1>7. QED
  BY <1>1, <1>3, <1>4, <1>5, <1>6

(* The windows of a sample are all open at the latest of their starts.     *)
LEMMA SampleIsOverlap ==
  ASSUME Sky!StormAssumption, skyWindows \in Seq(Window), NEW k \in Nat,
         Sky!ActiveAt(2 * k) # {}
  PROVE  \E i \in DOMAIN skyWindows :
            Cardinality(Sky!ActiveAt(2 * k)) <= Sky!AtOnce(skyWindows[i].start)
<1> DEFINE A == Sky!ActiveAt(2 * k)
           S == {skyWindows[i].start : i \in A}
<1>1. A \in SUBSET DOMAIN skyWindows
  BY ActiveWindows
<1>2. Sky!End \in Nat
  BY SkyConstants
<1>3. S \subseteq 0 .. Sky!End /\ S # {}
  BY <1>1, WindowFacts
<1>4. PICK x \in S : \A y \in S : y <= x
  BY <1>2, <1>3, Largest
<1>5. PICK i \in A : x = skyWindows[i].start
  BY <1>4
<1> DEFINE B == {j \in DOMAIN skyWindows : Sky!Covers(skyWindows[j], skyWindows[i].start)}
<1>6. ASSUME NEW j \in A PROVE j \in B
  <2>1. skyWindows[j].start <= x /\ j \in DOMAIN skyWindows
    BY <1>1, <1>4
  <2>2. x <= 2 * k /\ 2 * k < skyWindows[j].stop
    BY <1>5 DEF Sky!ActiveAt
  <2>3. x \in Nat /\ skyWindows[j].stop \in Nat
    BY <1>1, <1>5, WindowFacts
  <2>4. QED
    BY <1>5, <2>1, <2>2, <2>3 DEF Sky!Covers
<1>7. A \subseteq B /\ B \in SUBSET DOMAIN skyWindows
  BY <1>6
<1>8. IsFiniteSet(B)
  BY <1>7, ActiveFinite
<1>9. Cardinality(A) <= Cardinality(B)
  BY <1>7, <1>8, FS_Subset
<1>10. Sky!AtOnce(skyWindows[i].start) = Cardinality(B)
  BY SkyCounts DEF Sky!AtOnce
<1>11. QED
  BY <1>1, <1>5, <1>9, <1>10

LEMMA PeakIsOverlap ==
  ASSUME Sky!StormAssumption, SkyInv, skyPhase \in {"hop", "done"}
  PROVE  skyPeak <= Sky!Max({0} \union {Sky!AtOnce(skyWindows[i].start) : i \in DOMAIN skyWindows})
<1> DEFINE S == {0} \union {Sky!AtOnce(skyWindows[i].start) : i \in DOMAIN skyWindows}
<1>1. skyWindows \in Seq(Window) /\ skyPeak \in Nat /\ Len(skyWindows) \in Nat
  BY DEF SkyInv, SkyShape
<1>2. \A n : Sky!AtOnce(n) \in 0 .. Len(skyWindows)
  <2> SUFFICES ASSUME NEW n PROVE Sky!AtOnce(n) \in 0 .. Len(skyWindows)
    OBVIOUS
  <2> DEFINE B == {i \in DOMAIN skyWindows : Sky!Covers(skyWindows[i], n)}
  <2>1. Sky!AtOnce(n) = Cardinality(B)
    BY SkyCounts DEF Sky!AtOnce
  <2>2. B \in SUBSET DOMAIN skyWindows
    OBVIOUS
  <2>3. QED
    BY <1>1, <2>1, <2>2, ActiveFinite
<1>3. S \subseteq 0 .. Len(skyWindows) /\ 0 \in S
  BY <1>1, <1>2
<1>4. PICK m \in S : \A y \in S : y <= m
  BY <1>1, <1>3, Largest
<1>5. Sky!Max(S) = m /\ m \in Nat
  <2>1. S \subseteq Int /\ m \in 0 .. Len(skyWindows) /\ m \in S
    BY <1>3, <1>4
  <2> HIDE DEF S
  <2>2. Sky!Max(S) = m
    BY <1>4, <2>1, MaxIs
  <2>3. QED
    BY <1>1, <2>1, <2>2
<1>6. CASE skyPeak = 0
  BY <1>5, <1>6
<1>7. CASE skyPeak # 0
  <2>1. \E k \in Nat : Cardinality(Sky!ActiveAt(2 * k)) = skyPeak
    <3>1. CASE skyMode = "physics"
      BY <1>7, <3>1 DEF SkyInv, SkySamples, Sampled
    <3>2. CASE skyMode = "deltas"
      BY <1>7, <3>2 DEF SkyInv, SkyWalk, SkySamples, Sampled
    <3>3. QED
      BY <3>1, <3>2 DEF SkyInv, SkyShape
  <2>2. PICK k \in Nat : Cardinality(Sky!ActiveAt(2 * k)) = skyPeak
    BY <2>1
  <2>3. Sky!ActiveAt(2 * k) # {}
    BY <1>7, <2>2, FS_EmptySet
  <2>4. PICK i \in DOMAIN skyWindows :
           Cardinality(Sky!ActiveAt(2 * k)) <= Sky!AtOnce(skyWindows[i].start)
    BY <1>1, <2>3, SampleIsOverlap
  <2>5. Sky!AtOnce(skyWindows[i].start) \in S
    OBVIOUS
  <2>6. Sky!AtOnce(skyWindows[i].start) <= m /\ Sky!AtOnce(skyWindows[i].start) \in Nat
    BY <1>2, <1>4, <2>5
  <2>7. QED
    BY <1>1, <1>5, <2>2, <2>4, <2>6
<1>8. QED
  BY <1>6, <1>7

LEMMA SkyShows ==
  ASSUME Sky!StormAssumption, SkyInv
  PROVE  Sky!TypeOK /\ Sky!ScheduleFollowed
<1>1. skyWindows \in Seq(Window) /\ skyPeak \in Nat /\ Len(skyWindows) \in Nat
  BY DEF SkyInv, SkyShape
<1>2. Len(skyWindows) <= SkyMaxEvents /\ SkyMaxEvents \in Nat
  BY SkyConstants DEF SkyInv, SkyShape
<1>3. skyPeak <= SkyMaxEvents
  <2>1. skyPeak = 0 \/ \E k \in Int : Cardinality(Sky!ActiveAt(2 * k)) = skyPeak
    <3>1. CASE skyMode = "physics"
      BY <3>1 DEF SkyInv, SkySamples, Sampled
    <3>2. CASE skyMode = "deltas"
      BY <3>2 DEF SkyInv, SkyWalk, SkySamples, Sampled
    <3>3. QED
      BY <3>1, <3>2 DEF SkyInv, SkyShape
  <2>2. \A k \in Int : Cardinality(Sky!ActiveAt(2 * k)) \in 0 .. Len(skyWindows)
    BY <1>1, ActiveWindows, ActiveFinite
  <2>3. QED
    BY <1>1, <1>2, <2>1, <2>2
<1>4. Sky!TypeOK
  BY <1>1, <1>2, <1>3 DEF SkyInv, SkyShape, Sky!TypeOK, Window
<1>5. Sky!FieldsFollowSchedule
  <2>1. CASE skyMode = "physics"
    BY <2>1 DEF SkyInv, SkyFields, Sky!FieldsFollowSchedule
  <2>2. CASE skyMode = "deltas"
    <3>1. skyEnv.dose = Sky!SumFunction([i \in Sky!Judged("dose") |-> skyWindows[i].event.size])
          /\ skyEnv.flare \in FlareSizes /\ \A n \in FlareSizes : n <= skyEnv.flare
      BY <2>2 DEF SkyInv, SkyFields
    <3>2. Sky!Judged("flare") \union Sky!Judged("plain") \in SUBSET DOMAIN skyWindows
      BY <1>1 DEF Sky!Judged, SkyInv, SkyShape
    <3>3. FlareSizes \subseteq Int
      BY <1>1, <3>2, WindowFacts DEF FlareSizes
    <3>4. skyEnv.flare = Sky!Max(FlareSizes)
      BY <3>1, <3>3, MaxIs
    <3>5. QED
      BY <2>2, <3>1, <3>4 DEF FlareSizes, Sky!FieldsFollowSchedule
  <2>3. QED
    BY <2>1, <2>2 DEF SkyInv, SkyShape
<1>6. Sky!OverlapSeen
  BY OverlapFound, PeakIsOverlap DEF Sky!OverlapSeen
<1>7. QED
  BY <1>4, <1>5, <1>6 DEF Sky!ScheduleFollowed

-----------------------------------------------------------------------------
(* What a step that leaves the windows alone leaves alone.                 *)
FlareOf(ws, k) ==
    Sky!Clamp(Sky!FoldSet(LAMBDA i, p : p * ws[i].event.size, 1,
                          {i \in DOMAIN ws : ws[i].event.kind = "flare" /\ Sky!Covers(ws[i], 2 * k)}),
              1, SkyBand)

LEMMA WindowsKept ==
  ASSUME skyWindows' = skyWindows
  PROVE  /\ \A n : Sky!ActiveAt(n)' = Sky!ActiveAt(n)
         /\ \A k : Sky!FlareAt(k)' = Sky!FlareAt(k)
         /\ \A k, kind : Sky!Covering(k, kind)' = Sky!Covering(k, kind)
<1>1. \A n : Sky!ActiveAt(n)' = Sky!ActiveAt(n)
  BY DEF Sky!ActiveAt
<1>2. ASSUME NEW k PROVE Sky!FlareAt(k)' = Sky!FlareAt(k)
  <2>1. Sky!FlareAt(k) = FlareOf(skyWindows, k)
    BY DEF Sky!FlareAt, FlareOf, Sky!Covering
  <2>2. Sky!FlareAt(k)' = FlareOf(skyWindows', k)
    BY DEF Sky!FlareAt, FlareOf, Sky!Covering, Sky!FoldSet, Sky!MapThenFoldSet
  <2>3. QED
    BY <2>1, <2>2
<1>3. \A k, kind : Sky!Covering(k, kind)' = Sky!Covering(k, kind)
  BY DEF Sky!Covering
<1>4. QED
  BY <1>1, <1>2, <1>3

LEMMA SamplesKept ==
  ASSUME SkySamples, UNCHANGED <<skyMode, skyWindows, skyT, skyPeak>>, skyPhase # "compose"
  PROVE  SkySamples'
<1>1. \A K : Sampled(K) => Sampled(K)'
  BY WindowsKept DEF Sampled
<1>2. QED
  BY <1>1 DEF SkySamples

LEMMA FieldsKept ==
  ASSUME SkyFields, UNCHANGED <<skyMode, skyWindows, skyT, skyEnv>>,
         skyMode = "physics" \/ skyHop' = skyHop
  PROVE  SkyFields'
<1>1. [k \in 0 .. skyT - 1 |-> Sky!FlareAt(k)]' = [k \in 0 .. skyT - 1 |-> Sky!FlareAt(k)]
  BY WindowsKept
<1>2. Sky!Laden' = Sky!Laden
  <2>1. {k \in 0 .. skyT - 1 : Sky!Covering(k, "ingress") # {}}'
          = {k \in 0 .. skyT - 1 : Sky!Covering(k, "ingress") # {}}
    BY WindowsKept
  <2>2. QED
    BY <2>1, SkyCounts DEF Sky!Laden
<1>3. ASSUME skyHop' = skyHop
      PROVE  /\ FlareSizes' = FlareSizes
             /\ [i \in Sky!Judged("dose") |-> skyWindows[i].event.size]'
                  = [i \in Sky!Judged("dose") |-> skyWindows[i].event.size]
  <2>1. \A kind : Sky!Judged(kind)' = Sky!Judged(kind)
    BY <1>3 DEF Sky!Judged
  <2>2. QED
    BY <2>1 DEF FlareSizes
<1>4. QED
  BY <1>1, <1>2, <1>3 DEF SkyFields

-----------------------------------------------------------------------------
LEMMA SkyInvInit == ASSUME Sky!StormAssumption, Sky!Init PROVE SkyInv
<1>1. /\ skyMode \in {"physics", "deltas"} /\ skyPhase = "compose" /\ skyWindows = <<>> /\ skyT = 0
      /\ skyEnv = Sky!FreshEnv /\ skyPeak = 0 /\ skyHop = 0 /\ skyFails = 0 /\ skyVerdict = "none"
  BY DEF Sky!Init
<1>2. /\ Sky!FreshEnv.flare = 1 /\ Sky!FreshEnv.illum = SkyFull /\ Sky!FreshEnv.column = SkyFull
      /\ Sky!FreshEnv.dose = 0 /\ Sky!FreshEnv.dust = 0
      /\ Sky!FreshEnv \in [flare : Nat \ {0}, illum : 0 .. SkyFull, column : Int, dose : Nat, dust : Nat]
  BY SkyConstants DEF Sky!FreshEnv
<1>3. <<>> \in Seq(Window) /\ Len(<<>>) = 0
  OBVIOUS
<1>4. SkyShape
  BY <1>1, <1>2, <1>3, SkyConstants DEF SkyShape
<1>5. SkyWalk
  BY <1>1 DEF SkyWalk
<1>6. 0 .. skyT - 1 = {} /\ \A kind : Sky!Judged(kind) = {}
  BY <1>1 DEF Sky!Judged
<1>7. SkySamples
  BY <1>1, <1>6 DEF SkySamples, Sampled
<1>8. SkyFields
  <2>1. Sky!SumFunction([k \in 0 .. skyT - 1 |-> Sky!FlareAt(k)]) = 0
    BY <1>6, SumNone
  <2>2. Sky!SumFunction([i \in Sky!Judged("dose") |-> skyWindows[i].event.size]) = 0
    BY <1>6, SumNone
  <2>3. Sky!Laden = 0
    <3>1. {k \in 0 .. skyT - 1 : Sky!Covering(k, "ingress") # {}} = {}
      BY <1>6
    <3>2. QED
      BY <3>1, SkyCounts, FS_EmptySet DEF Sky!Laden
  <2>4. FlareSizes = {1}
    BY <1>6 DEF FlareSizes
  <2>5. QED
    BY <1>1, <1>2, <2>1, <2>2, <2>3, <2>4, SkyConstants DEF SkyFields
<1>9. QED
  BY <1>4, <1>5, <1>7, <1>8 DEF SkyInv

LEMMA BaselineKeeps ==
  ASSUME Sky!StormAssumption, SkyInv, Sky!Baseline PROVE SkyInv'
<1>1. /\ skyPhase = "integrate" /\ skyT = SkyHorizon /\ skyPhase' \in {"raised", "hop"}
      /\ UNCHANGED <<skyMode, skyWindows, skyT, skyEnv, skyPeak, skyHop, skyFails, skyVerdict>>
  BY DEF Sky!Baseline
<1>2. SkyShape'
  BY <1>1 DEF SkyInv, SkyShape
<1>3. SkyWalk'
  BY <1>1 DEF SkyInv, SkyWalk
<1>4. SkySamples' /\ SkyFields'
  BY <1>1, SamplesKept, FieldsKept DEF SkyInv
<1>5. QED
  BY <1>2, <1>3, <1>4 DEF SkyInv

LEMMA HopKeeps ==
  ASSUME Sky!StormAssumption, SkyInv, Sky!Hop PROVE SkyInv'
<1>1. /\ skyMode = "physics" /\ skyPhase = "hop" /\ skyHop < Len(skyWindows) /\ skyHop' = skyHop + 1
      /\ skyFails' \in {skyFails, skyFails + 1}
      /\ UNCHANGED <<skyMode, skyPhase, skyWindows, skyT, skyEnv, skyPeak, skyVerdict>>
  BY DEF Sky!Hop
<1>2. SkyShape'
  <2>1. skyHop \in Nat /\ Len(skyWindows) \in Nat /\ skyFails \in 0 .. skyHop
    BY DEF SkyInv, SkyShape
  <2>2. skyHop' \in 0 .. Len(skyWindows) /\ skyFails' \in 0 .. skyHop'
    BY <1>1, <2>1
  <2>3. QED
    BY <1>1, <2>2 DEF SkyInv, SkyShape
<1>3. SkyWalk'
  BY <1>1 DEF SkyInv, SkyWalk
<1>4. SkySamples' /\ SkyFields'
  BY <1>1, SamplesKept, FieldsKept DEF SkyInv
<1>5. QED
  BY <1>2, <1>3, <1>4 DEF SkyInv

LEMMA ConcludeKeeps ==
  ASSUME Sky!StormAssumption, SkyInv, Sky!Conclude \/ Sky!MergeConclude PROVE SkyInv'
<1>1. /\ skyPhase = "hop" /\ skyPhase' = "done" /\ skyVerdict' \in {"PASS", "FAIL"}
      /\ UNCHANGED <<skyMode, skyWindows, skyT, skyEnv, skyPeak, skyHop, skyFails>>
  BY DEF Sky!Conclude, Sky!MergeConclude
<1>2. SkyShape'
  BY <1>1 DEF SkyInv, SkyShape
<1>3. SkyWalk'
  BY <1>1 DEF SkyInv, SkyWalk
<1>4. SkySamples' /\ SkyFields'
  BY <1>1, SamplesKept, FieldsKept DEF SkyInv
<1>5. QED
  BY <1>2, <1>3, <1>4 DEF SkyInv

-----------------------------------------------------------------------------
(* The schedule: what is drawn are windows, and the composer samples them  *)
(* up to their last end.                                                   *)
LEMMA Bounded ==
  ASSUME NEW n \in Nat, NEW f, \A i \in 1 .. n : f[i] \in Nat
  PROVE  \E b \in Nat : \A i \in 1 .. n : f[i] <= b
<1> DEFINE Below(m) == \E b \in Nat : \A i \in 1 .. m : f[i] <= b
           N == {m \in 0 .. n : ~Below(m)}
<1> SUFFICES ASSUME ~Below(n) PROVE FALSE
  OBVIOUS
<1>1. N \subseteq Nat /\ n \in N
  OBVIOUS
<1>2. PICK m \in N : \A x \in N : m <= x
  BY <1>1, Least
<1>3. m # 0
  <2>1. Below(0)
    BY 0 \in Nat
  <2>2. QED
    BY <1>2, <2>1
<1>4. m - 1 \in 0 .. n /\ m - 1 < m /\ m \in 1 .. n
  BY <1>2, <1>3
<1>5. Below(m - 1)
  <2>1. SUFFICES ASSUME m - 1 \in N PROVE FALSE
    BY <1>4
  <2>2. QED
    <3>1. m <= m - 1 /\ m \in Nat
      BY <1>1, <1>2, <2>1
    <3>2. QED
      BY <3>1
<1>6. PICK b \in Nat : \A i \in 1 .. m - 1 : f[i] <= b
  BY <1>5
<1> DEFINE c == IF f[m] <= b THEN b ELSE f[m]
<1>7. f[m] \in Nat
  BY <1>4
<1>8. c \in Nat /\ b <= c /\ f[m] <= c
  BY <1>7
<1> HIDE DEF c
<1>9. ASSUME NEW i \in 1 .. m PROVE f[i] <= c
  <2>1. CASE i = m
    BY <1>8, <2>1
  <2>2. CASE i # m
    <3>1. i \in 1 .. m - 1 /\ i \in 1 .. n
      BY <1>4, <2>2
    <3>2. f[i] <= b /\ f[i] \in Nat
      BY <1>6, <3>1
    <3>3. QED
      BY <1>8, <3>2
  <2>3. QED
    BY <2>1, <2>2
<1>10. Below(m)
  BY <1>8, <1>9
<1>11. QED
  BY <1>2, <1>10

LEMMA StopsBounded ==
  ASSUME NEW ws \in Seq(Window)
  PROVE  \E b \in Nat : \A i \in DOMAIN ws : ws[i].stop <= b
<1> DEFINE n == Len(ws)
           f == [i \in 1 .. n |-> ws[i].stop]
<1>1. n \in Nat /\ DOMAIN ws = 1 .. n /\ \A i \in 1 .. n : ws[i] \in Window
  OBVIOUS
<1>2. \A i \in 1 .. n : f[i] = ws[i].stop /\ f[i] \in Nat
  BY <1>1 DEF Window
<1> HIDE DEF n, f
<1>3. PICK b \in Nat : \A i \in 1 .. n : f[i] <= b
  BY <1>1, <1>2, Bounded
<1>4. QED
  BY <1>1, <1>2, <1>3

LEMMA PeakSampled ==
  ASSUME Sky!StormAssumption, NEW ws \in Seq(Window)
  PROVE  \E final \in Nat :
           /\ \A i \in DOMAIN ws : ws[i].stop <= final
           /\ Sky!SampledPeak(ws) \in Nat
           /\ \A k \in 0 .. final \div 2 :
                Cardinality({i \in DOMAIN ws : ws[i].start <= 2 * k /\ 2 * k < ws[i].stop})
                  <= Sky!SampledPeak(ws)
           /\ \/ Sky!SampledPeak(ws) = 0
              \/ \E k \in 0 .. final \div 2 :
                   Cardinality({i \in DOMAIN ws : ws[i].start <= 2 * k /\ 2 * k < ws[i].stop})
                     = Sky!SampledPeak(ws)
<1> DEFINE Stops == {w.stop : w \in Sky!ToSet(ws)} \union {0}
           final == Sky!Max(Stops)
           Reach(k) == {i \in DOMAIN ws : ws[i].start <= 2 * k /\ 2 * k < ws[i].stop}
           S == {0} \union {Cardinality(Reach(k)) : k \in 0 .. final \div 2}
<1>1. DOMAIN ws = 1 .. Len(ws) /\ Len(ws) \in Nat /\ \A i \in DOMAIN ws : ws[i] \in Window
  OBVIOUS
<1>2. PICK b \in Nat : \A i \in DOMAIN ws : ws[i].stop <= b
  BY StopsBounded
<1>3. Sky!ToSet(ws) = {ws[i] : i \in DOMAIN ws}
  BY DEF Sky!ToSet
<1>4. \A i \in DOMAIN ws : ws[i].stop \in Nat
  BY <1>1 DEF Window
<1>5. Stops \subseteq 0 .. b /\ 0 \in Stops
  BY <1>2, <1>3, <1>4
<1>6. PICK x \in Stops : \A y \in Stops : y <= x
  BY <1>5, Largest
<1>7. final = x /\ x \in Nat
  BY <1>5, <1>6, MaxIs
<1>8. \A i \in DOMAIN ws : ws[i].stop <= final
  BY <1>3, <1>6, <1>7
<1>9. Sky!SampledPeak(ws) = Sky!Max({0} \union {Sky!Cardinality(Reach(k)) : k \in 0 .. final \div 2})
  BY DEF Sky!SampledPeak
<1> HIDE DEF final, Stops
<1>10. Sky!SampledPeak(ws) = Sky!Max(S)
  <2>1. {Sky!Cardinality(Reach(k)) : k \in 0 .. final \div 2} = {Cardinality(Reach(k)) : k \in 0 .. final \div 2}
    BY SkyCounts
  <2>2. QED
    BY <1>9, <2>1
<1>11. \A k : Cardinality(Reach(k)) \in 0 .. Len(ws)
  <2> SUFFICES ASSUME NEW k PROVE Cardinality(Reach(k)) \in 0 .. Len(ws)
    OBVIOUS
  <2> DEFINE n == Len(ws)
  <2>1. n \in Nat /\ Reach(k) \subseteq 1 .. n
    BY <1>1
  <2> HIDE DEF n
  <2>2. IsFiniteSet(1 .. n) /\ Cardinality(1 .. n) = n
    BY <2>1, FS_Interval
  <2>3. IsFiniteSet(Reach(k)) /\ Cardinality(Reach(k)) <= n /\ Cardinality(Reach(k)) \in Nat
    BY <2>1, <2>2, FS_Subset, FS_CardinalityType
  <2>4. QED
    BY <2>1, <2>3 DEF n
<1> HIDE DEF Reach
<1>12. S \subseteq 0 .. Len(ws) /\ 0 \in S
  BY <1>1, <1>11
<1>13. PICK m \in S : \A y \in S : y <= m
  BY <1>1, <1>12, Largest
<1>14. Sky!SampledPeak(ws) = m /\ m \in Nat
  <2>1. S \subseteq Int /\ m \in Nat
    BY <1>1, <1>12
  <2>2. Sky!Max(S) = m
    BY <1>13, <2>1, MaxIs
  <2>3. QED
    BY <1>10, <2>1, <2>2
<1>15. \A k \in 0 .. final \div 2 : Cardinality(Reach(k)) <= m
  BY <1>13
<1>16. m = 0 \/ \E k \in 0 .. final \div 2 : Cardinality(Reach(k)) = m
  BY <1>13
<1>17. QED
  BY <1>7, <1>8, <1>14, <1>15, <1>16 DEF Reach

LEMMA ScheduleDraws ==
  ASSUME Sky!StormAssumption, Sky!Schedule
  PROVE  skyWindows' \in Seq(Window) /\ Len(skyWindows') <= SkyMaxEvents
<1>1. PICK n \in 0 .. SkyMaxEvents :
         \E events \in [1 .. n -> Sky!Listed] :
            \E starts \in [1 .. n -> 0 .. Sky!End], order \in [1 .. n -> 1 .. n] :
               skyWindows' = [i \in 1 .. n |->
                                Sky!Drawn(events[order[i]], order[i], starts[order[i]])]
  BY DEF Sky!Schedule
<1>2. PICK events \in [1 .. n -> Sky!Listed] :
            \E starts \in [1 .. n -> 0 .. Sky!End], order \in [1 .. n -> 1 .. n] :
               skyWindows' = [i \in 1 .. n |->
                                Sky!Drawn(events[order[i]], order[i], starts[order[i]])]
  BY <1>1
<1>3. PICK starts \in [1 .. n -> 0 .. Sky!End], order \in [1 .. n -> 1 .. n] :
               skyWindows' = [i \in 1 .. n |->
                                Sky!Drawn(events[order[i]], order[i], starts[order[i]])]
  BY <1>2
<1>4. n \in Nat /\ SkyMaxEvents \in Nat /\ n <= SkyMaxEvents /\ Sky!End \in Nat
  BY SkyConstants
<1>5. ASSUME NEW i \in 1 .. n
      PROVE  Sky!Drawn(events[order[i]], order[i], starts[order[i]]) \in Window
  <2> DEFINE e == events[order[i]]
             start == starts[order[i]]
  <2>1. order[i] \in 1 .. n /\ order[i] \in Nat
    BY <1>4
  <2>2. e \in Sky!Listed /\ start \in 0 .. Sky!End
    BY <2>1
  <2> HIDE DEF e, start
  <2>3. e.span \in Nat /\ start \in Nat
    BY <1>4, <2>2, SkyConstants DEF SkyEvent
  <2>4. start + e.span \in Nat
    BY <2>3
  <2>5. Sky!Drawn(e, order[i], start) \in Window
    BY <2>1, <2>2, <2>4 DEF Sky!Drawn, Window
  <2>6. QED
    BY <2>5 DEF e, start
<1>6. skyWindows' \in [1 .. n -> Window]
  BY <1>3, <1>5
<1>7. QED
  BY <1>4, <1>6

LEMMA ScheduleKeeps ==
  ASSUME Sky!StormAssumption, SkyInv, Sky!Schedule PROVE SkyInv'
<1>1. /\ skyPhase = "compose"
      /\ skyPeak' = IF skyMode = "deltas" THEN Sky!SampledPeak(skyWindows') ELSE 0
      /\ skyPhase' = IF skyMode = "deltas" THEN "hop" ELSE "integrate"
      /\ UNCHANGED <<skyMode, skyT, skyEnv, skyMerged, skyHop, skyFails, skyVerdict>>
  BY DEF Sky!Schedule
<1>2. skyT = 0 /\ skyEnv = Sky!FreshEnv /\ skyHop = 0 /\ skyFails = 0
  BY <1>1 DEF SkyInv, SkyWalk, SkyShape
<1>3. skyWindows' \in Seq(Window) /\ Len(skyWindows') <= SkyMaxEvents /\ Len(skyWindows') \in Nat
  BY ScheduleDraws
<1>4. PICK final \in Nat :
           /\ \A i \in DOMAIN skyWindows' : skyWindows'[i].stop <= final
           /\ Sky!SampledPeak(skyWindows') \in Nat
           /\ \A k \in 0 .. final \div 2 :
                Cardinality({i \in DOMAIN skyWindows' : skyWindows'[i].start <= 2 * k
                                                        /\ 2 * k < skyWindows'[i].stop})
                  <= Sky!SampledPeak(skyWindows')
           /\ \/ Sky!SampledPeak(skyWindows') = 0
              \/ \E k \in 0 .. final \div 2 :
                   Cardinality({i \in DOMAIN skyWindows' : skyWindows'[i].start <= 2 * k
                                                           /\ 2 * k < skyWindows'[i].stop})
                     = Sky!SampledPeak(skyWindows')
  BY <1>3, PeakSampled
<1>5. skyPeak' \in Nat
  BY <1>1, <1>4
<1>6. SkyShape'
  BY <1>1, <1>2, <1>3, <1>5 DEF SkyInv, SkyShape
<1>7. SkyWalk'
  BY <1>1, <1>2 DEF SkyInv, SkyWalk
<1>8. SkySamples'
  <2>1. CASE skyMode = "deltas"
    <3>1. Sampled(0 .. final \div 2)'
      BY <1>1, <1>4, <2>1 DEF Sampled, Sky!ActiveAt
    <3>2. QED
      BY <1>1, <1>4, <2>1, <3>1 DEF SkySamples
  <2>2. CASE skyMode # "deltas"
    <3>1. (0 .. skyT - 1)' = {} /\ skyPeak' = 0
      BY <1>1, <1>2, <2>2
    <3>2. Sampled(0 .. skyT - 1)'
      BY <3>1 DEF Sampled
    <3>3. QED
      BY <1>1, <2>2, <3>2 DEF SkySamples
  <2>3. QED
    BY <2>1, <2>2
<1>9. SkyFields'
  <2>1. (0 .. skyT - 1)' = {} /\ \A kind : Sky!Judged(kind)' = {}
    BY <1>1, <1>2 DEF Sky!Judged
  <2>2. Sky!SumFunction([k \in 0 .. skyT - 1 |-> Sky!FlareAt(k)]') = 0
    BY <2>1, SumNone
  <2>3. Sky!SumFunction([i \in Sky!Judged("dose") |-> skyWindows[i].event.size]') = 0
    BY <2>1, SumNone
  <2>4. Sky!Laden' = 0
    <3>1. {k \in 0 .. skyT - 1 : Sky!Covering(k, "ingress") # {}}' = {}
      BY <2>1
    <3>2. QED
      BY <3>1, SkyCounts, FS_EmptySet DEF Sky!Laden
  <2>5. FlareSizes' = {1}
    BY <2>1 DEF FlareSizes
  <2>6. skyEnv'.dose = 0 /\ skyEnv'.dust = 0 /\ skyEnv'.flare = 1
    BY <1>1, <1>2 DEF Sky!FreshEnv
  <2>7. QED
    BY <2>2, <2>3, <2>4, <2>5, <2>6, SkyConstants DEF SkyFields
<1>10. QED
  BY <1>6, <1>7, <1>8, <1>9 DEF SkyInv

-----------------------------------------------------------------------------
(* One step of the integrator, law by law.                                 *)
Fields == [flare : Nat \ {0}, illum : 0 .. SkyFull, column : Int, dose : Nat, dust : Nat]

LEMMA CombinedField ==
  ASSUME Sky!StormAssumption, skyWindows \in Seq(Window), NEW e \in Fields, NEW k \in Nat
  PROVE  LET d == Sky!Combined(e, Sky!ActiveAt(2 * k))
         IN /\ d \in Fields /\ d.flare = Sky!FlareAt(k) /\ d.flare \in 1 .. SkyBand
            /\ d.column = e.column /\ d.dose = e.dose /\ d.dust = e.dust
<1> DEFINE active == Sky!ActiveAt(2 * k)
           illum == Sky!Dimmed(e.illum, active)
           flare == Sky!FlareAt(k)
<1>1. active \in SUBSET DOMAIN skyWindows /\ IsFiniteSet(active)
  BY ActiveWindows, ActiveFinite
<1>2. illum \in 0 .. SkyFull
  <2>1. \A i \in active : skyWindows[i].event.kind = "eclipse" => skyWindows[i].event.size \in 0 .. 2
    BY <1>1, WindowFacts
  <2>2. e.illum \in 0 .. SkyFull /\ SkyFull \in Nat
    BY SkyConstants DEF Fields
  <2>3. QED
    BY <1>1, <2>1, <2>2, SkyDimmed
<1>3. flare \in 1 .. SkyBand /\ flare = Sky!Clamp(Sky!Product(active), 1, SkyBand)
  BY FlareInBand, FlareAtSample
<1>4. flare \in Nat \ {0}
  BY <1>3, SkyConstants
<1>5. Sky!Combined(e, active) = [e EXCEPT !.flare = flare, !.illum = illum]
  BY <1>3 DEF Sky!Combined
<1> HIDE DEF active, illum, flare
<1>6. QED
  BY <1>2, <1>3, <1>4, <1>5 DEF Fields, active, flare

LEMMA WarmedField ==
  ASSUME Sky!StormAssumption, NEW e \in Fields
  PROVE  LET d == Sky!Warmed(e)
         IN /\ d \in Fields /\ d.column \in SkyFull - 1 .. SkyFull + 1
            /\ d.flare = e.flare /\ d.dose = e.dose /\ d.dust = e.dust
<1> DEFINE c == IF Sky!Held(e) > e.column THEN e.column + 1
                ELSE IF Sky!Held(e) < e.column THEN e.column - 1 ELSE e.column
           column == Sky!Clamp(c, SkyFull - 1, SkyFull + 1)
<1>1. c \in Int /\ SkyFull \in Int /\ SkyFull - 1 <= SkyFull + 1
  BY SkyConstants DEF Fields
<1> HIDE DEF c
<1>2. column \in SkyFull - 1 .. SkyFull + 1
  BY <1>1, ClampIn
<1>3. column \in Int
  BY <1>1, <1>2
<1>4. Sky!Warmed(e) = [e EXCEPT !.column = column]
  BY DEF Sky!Warmed, c
<1> HIDE DEF column
<1>5. QED
  BY <1>2, <1>3, <1>4 DEF Fields

LEMMA DustedField ==
  ASSUME Sky!StormAssumption, NEW e \in Fields, NEW active
  PROVE  LET d == Sky!Dusted(e, active)
         IN /\ d \in Fields
            /\ d.flare = e.flare /\ d.dose = e.dose /\ d.column = e.column
            /\ d.dust = IF Sky!OfKind(active, "ingress") # {} /\ e.dust < SkyLoaded
                        THEN e.dust + 1 ELSE e.dust
<1>1. SkyLoaded \in Nat /\ e.dust \in Nat /\ e.dust + 1 \in Nat
  BY SkyConstants DEF Fields
<1>2. QED
  BY <1>1 DEF Fields, Sky!Dusted

LEMMA RadiatedField ==
  ASSUME Sky!StormAssumption, NEW e \in Fields, e.flare \in 1 .. SkyBand
  PROVE  LET d == Sky!Radiated(e)
         IN /\ d \in Fields /\ d.dose = e.dose + e.flare
            /\ d.flare = e.flare /\ d.column = e.column /\ d.dust = e.dust
<1>1. Sky!Clamp(e.flare, 1, SkyBand) = e.flare
  <2>1. e.flare \in Int /\ 1 \in Int /\ SkyBand \in Int /\ 1 <= SkyBand
    BY SkyConstants DEF Fields
  <2>2. QED
    BY <2>1, ClampIn
<1>2. e.dose \in Nat /\ e.flare \in Nat /\ e.dose + e.flare \in Nat
  BY DEF Fields
<1>3. QED
  BY <1>1, <1>2 DEF Fields, Sky!Radiated

LEMMA TimeStepFields ==
  ASSUME Sky!StormAssumption, SkyInv, Sky!TimeStep
  PROVE  /\ skyEnv' \in Fields /\ skyEnv'.flare \in 1 .. SkyBand
         /\ skyEnv'.column \in SkyFull - 1 .. SkyFull + 1
         /\ skyEnv'.dose = skyEnv.dose + Sky!FlareAt(skyT)
         /\ skyEnv'.dust = IF Sky!Covering(skyT, "ingress") # {} /\ skyEnv.dust < SkyLoaded
                           THEN skyEnv.dust + 1 ELSE skyEnv.dust
<1> DEFINE active == Sky!ActiveAt(2 * skyT)
           a == Sky!Combined(skyEnv, active)
           b == Sky!Warmed(a)
           c == Sky!Dusted(b, active)
<1>1. skyEnv \in Fields /\ skyWindows \in Seq(Window) /\ skyT \in Nat
  BY SkyConstants DEF SkyInv, SkyShape, Fields
<1>2. skyEnv' = Sky!Radiated(c)
  BY DEF Sky!TimeStep
<1>3. /\ a \in Fields /\ a.flare = Sky!FlareAt(skyT) /\ a.flare \in 1 .. SkyBand
      /\ a.dose = skyEnv.dose /\ a.dust = skyEnv.dust
  BY <1>1, CombinedField
<1>4. Sky!OfKind(active, "ingress") = Sky!Covering(skyT, "ingress")
  BY DEF Sky!Covering, Sky!Covers, Sky!OfKind, Sky!ActiveAt
<1> HIDE DEF a, active
<1>5. /\ b \in Fields /\ b.column \in SkyFull - 1 .. SkyFull + 1
      /\ b.flare = a.flare /\ b.dose = a.dose /\ b.dust = a.dust
  BY <1>3, WarmedField
<1> HIDE DEF b
<1>6. /\ c \in Fields /\ c.flare = b.flare /\ c.dose = b.dose /\ c.column = b.column
      /\ c.dust = IF Sky!OfKind(active, "ingress") # {} /\ b.dust < SkyLoaded
                  THEN b.dust + 1 ELSE b.dust
  BY <1>5, DustedField
<1> HIDE DEF c
<1>7. /\ skyEnv' \in Fields /\ skyEnv'.dose = c.dose + c.flare
      /\ skyEnv'.flare = c.flare /\ skyEnv'.column = c.column /\ skyEnv'.dust = c.dust
  BY <1>2, <1>3, <1>5, <1>6, RadiatedField
<1>8. QED
  BY <1>3, <1>4, <1>5, <1>6, <1>7

LEMMA LadenGrows ==
  ASSUME skyT \in Nat, skyT' = skyT + 1, skyWindows' = skyWindows
  PROVE  /\ Sky!Laden \in Nat
         /\ Sky!Laden' = IF Sky!Covering(skyT, "ingress") # {} THEN Sky!Laden + 1 ELSE Sky!Laden
<1> DEFINE S == {k \in 0 .. skyT - 1 : Sky!Covering(k, "ingress") # {}}
           U == {k \in 0 .. skyT : Sky!Covering(k, "ingress") # {}}
<1>1. S \subseteq 0 .. skyT - 1 /\ IsFiniteSet(0 .. skyT - 1)
  BY FS_Interval
<1>2. IsFiniteSet(S) /\ Cardinality(S) \in Nat
  BY <1>1, FS_Subset, FS_CardinalityType
<1>3. Sky!Laden = Cardinality(S)
  BY SkyCounts DEF Sky!Laden
<1>4. S' = U
  <2>1. \A k : Sky!Covering(k, "ingress")' = Sky!Covering(k, "ingress")
    BY WindowsKept
  <2>2. (0 .. skyT - 1)' = 0 .. skyT
    OBVIOUS
  <2>3. QED
    BY <2>1, <2>2
<1>5. Sky!Laden' = Cardinality(U)
  <2>1. Sky!Laden' = Cardinality(S')
    BY SkyCounts DEF Sky!Laden
  <2>2. QED
    BY <1>4, <2>1
<1>6. U = IF Sky!Covering(skyT, "ingress") # {} THEN S \union {skyT} ELSE S
  OBVIOUS
<1>7. skyT \notin S
  OBVIOUS
<1> HIDE DEF S, U
<1>8. Cardinality(S \union {skyT}) = Cardinality(S) + 1
  BY <1>2, <1>7, FS_AddElement
<1>9. QED
  BY <1>2, <1>3, <1>5, <1>6, <1>8

LEMMA SamplesGrow ==
  ASSUME Sky!StormAssumption, SkyInv, Sky!TimeStep
  PROVE  SkySamples' /\ skyPeak' \in Nat
<1> DEFINE n == Cardinality(Sky!ActiveAt(2 * skyT))
<1>1. /\ skyPhase = "integrate" /\ skyPeak' = IF n > skyPeak THEN n ELSE skyPeak
      /\ skyT' = skyT + 1 /\ UNCHANGED <<skyMode, skyPhase, skyWindows>>
  BY SkyCounts DEF Sky!TimeStep
<1>2. skyMode = "physics" /\ skyT \in Nat /\ skyPeak \in Nat /\ skyWindows \in Seq(Window)
  BY <1>1, SkyConstants DEF SkyInv, SkyWalk, SkyShape
<1>3. \A k : Sky!ActiveAt(2 * k)' = Sky!ActiveAt(2 * k)
  BY <1>1, WindowsKept
<1>4. \A k : Cardinality(Sky!ActiveAt(2 * k)) \in Nat
  BY <1>2, ActiveWindows, ActiveFinite, FS_CardinalityType
<1>5. /\ \A k \in 0 .. skyT - 1 : Cardinality(Sky!ActiveAt(2 * k)) <= skyPeak
      /\ skyPeak = 0 \/ \E k \in 0 .. skyT - 1 : Cardinality(Sky!ActiveAt(2 * k)) = skyPeak
  BY <1>2 DEF SkyInv, SkySamples, Sampled
<1>6. n \in Nat
  BY <1>4
<1>7. skyPeak' \in Nat /\ skyPeak <= skyPeak' /\ n <= skyPeak' /\ skyPeak' \in {n, skyPeak}
  BY <1>1, <1>2, <1>6
<1>8. \A k \in 0 .. skyT : k = skyT \/ k \in 0 .. skyT - 1
  BY <1>2
<1>9. ASSUME NEW k \in 0 .. skyT PROVE Cardinality(Sky!ActiveAt(2 * k)) <= skyPeak'
  <2>1. CASE k = skyT
    BY <1>7, <2>1
  <2>2. CASE k \in 0 .. skyT - 1
    <3>1. Cardinality(Sky!ActiveAt(2 * k)) <= skyPeak /\ Cardinality(Sky!ActiveAt(2 * k)) \in Nat
      BY <1>4, <1>5, <2>2
    <3>2. QED
      BY <1>2, <1>7, <3>1
  <2>3. QED
    BY <1>8, <2>1, <2>2
<1>10. skyPeak' = 0 \/ \E k \in 0 .. skyT : Cardinality(Sky!ActiveAt(2 * k)) = skyPeak'
  <2>1. CASE skyPeak' = n
    BY <1>2, <2>1
  <2>2. CASE skyPeak' = skyPeak
    <3>1. 0 .. skyT - 1 \subseteq 0 .. skyT
      BY <1>2
    <3>2. QED
      BY <1>5, <2>2, <3>1
  <2>3. QED
    BY <1>7, <2>1, <2>2
<1>11. (0 .. skyT - 1)' = 0 .. skyT
  BY <1>1, <1>2
<1> HIDE DEF n
<1>12. Sampled(0 .. skyT - 1)'
  BY <1>3, <1>9, <1>10, <1>11 DEF Sampled
<1>13. QED
  BY <1>1, <1>2, <1>7, <1>12 DEF SkySamples

LEMMA TimeStepKeeps ==
  ASSUME Sky!StormAssumption, SkyInv, Sky!TimeStep PROVE SkyInv'
<1>1. /\ skyPhase = "integrate" /\ skyT < SkyHorizon /\ skyT' = skyT + 1
      /\ UNCHANGED <<skyMode, skyPhase, skyWindows, skyHop, skyFails, skyVerdict>>
  BY DEF Sky!TimeStep
<1>2. skyMode = "physics" /\ skyT \in Nat /\ skyWindows \in Seq(Window)
  BY <1>1, SkyConstants DEF SkyInv, SkyWalk, SkyShape
<1>3. skyEnv.dust \in 0 .. SkyLoaded /\ skyEnv.dose \in Nat
      /\ skyEnv.dose = Sky!SumFunction([k \in 0 .. skyT - 1 |-> Sky!FlareAt(k)])
      /\ skyEnv.dust = IF Sky!Laden < SkyLoaded THEN Sky!Laden ELSE SkyLoaded
  BY <1>2 DEF SkyInv, SkyShape, SkyFields
<1>4. skyEnv'.dust = IF Sky!Laden' < SkyLoaded THEN Sky!Laden' ELSE SkyLoaded
  <2>1. /\ Sky!Laden \in Nat /\ SkyLoaded \in Nat
        /\ Sky!Laden' = IF Sky!Covering(skyT, "ingress") # {} THEN Sky!Laden + 1 ELSE Sky!Laden
    BY <1>1, <1>2, LadenGrows, SkyConstants
  <2>2. skyEnv'.dust = IF Sky!Covering(skyT, "ingress") # {} /\ skyEnv.dust < SkyLoaded
                       THEN skyEnv.dust + 1 ELSE skyEnv.dust
    BY TimeStepFields
  <2>3. QED
    BY <1>3, <2>1, <2>2
<1>5. skyEnv'.dust \in 0 .. SkyLoaded
  <2>1. Sky!Laden' \in Nat /\ SkyLoaded \in Nat
    BY <1>1, <1>2, LadenGrows, SkyConstants
  <2>2. QED
    BY <1>4, <2>1
<1>6. skyEnv'.dose = Sky!SumFunction([k \in 0 .. skyT - 1 |-> Sky!FlareAt(k)]')
  <2> DEFINE S == 0 .. skyT - 1
             g == [k \in S |-> Sky!FlareAt(k)]
             h == [k \in S \union {skyT} |-> Sky!FlareAt(k)]
  <2>1. IsFiniteSet(S) /\ skyT \notin S /\ (0 .. skyT - 1)' = S \union {skyT}
        /\ \A k \in S \union {skyT} : k \in Nat
    <3>1. 0 \in Int /\ skyT - 1 \in Int /\ (0 .. skyT - 1)' = S \union {skyT}
      BY <1>1, <1>2
    <3>2. IsFiniteSet(S)
      BY <3>1, FS_Interval
    <3>3. skyT \notin S /\ \A k \in S \union {skyT} : k \in Nat
      BY <1>2
    <3>4. QED
      BY <3>1, <3>2, <3>3
  <2>2. [k \in 0 .. skyT - 1 |-> Sky!FlareAt(k)]' = h
    <3>1. \A k : Sky!FlareAt(k)' = Sky!FlareAt(k)
      BY <1>1, WindowsKept
    <3>2. QED
      BY <2>1, <3>1
  <2>3. h \in [S \union {skyT} -> Nat]
    <3>1. \A k \in S \union {skyT} : Sky!FlareAt(k) \in Nat
      <4>1. \A k \in S \union {skyT} : Sky!FlareAt(k) \in 1 .. SkyBand
        BY <1>2, <2>1, FlareInBand
      <4>2. 1 .. SkyBand \subseteq Nat
        BY SkyConstants
      <4>3. QED
        BY <4>1, <4>2
    <3>2. QED
      BY <3>1
  <2>4. DOMAIN g = S /\ (\A k \in S : g[k] = h[k]) /\ h[skyT] = Sky!FlareAt(skyT)
    OBVIOUS
  <2> HIDE DEF S, g, h
  <2>5. Sky!SumFunction(h) = Sky!SumFunction(g) + h[skyT]
    BY <2>1, <2>3, <2>4, SumGrows
  <2>6. skyEnv.dose = Sky!SumFunction(g)
    BY <1>3 DEF S, g
  <2>7. skyEnv'.dose = skyEnv.dose + Sky!FlareAt(skyT)
    BY TimeStepFields
  <2>8. QED
    BY <2>2, <2>4, <2>5, <2>6, <2>7
<1>7. SkyFields'
  BY <1>1, <1>2, <1>4, <1>6 DEF SkyFields
<1>8. SkyShape'
  <2>1. skyT' \in 0 .. SkyHorizon /\ skyPeak' \in Nat
    BY <1>1, <1>2, SamplesGrow, SkyConstants
  <2>2. /\ skyEnv' \in Fields /\ skyEnv'.flare \in 1 .. SkyBand
        /\ skyEnv'.column \in SkyFull - 1 .. SkyFull + 1
    BY TimeStepFields
  <2>3. QED
    BY <1>1, <1>5, <2>1, <2>2 DEF SkyInv, SkyShape, Fields
<1>9. SkyWalk'
  BY <1>1, <1>2 DEF SkyInv, SkyWalk
<1>10. QED
  BY <1>7, <1>8, <1>9, SamplesGrow DEF SkyInv

-----------------------------------------------------------------------------
(* One hop of the delta composer.                                          *)
LEMMA DeltaField ==
  ASSUME Sky!StormAssumption, NEW e \in Fields, NEW event \in Sky!Listed
  PROVE  LET d == Sky!Delta(e, event)
         IN /\ d \in Fields
            /\ d.dose = IF event.kind = "dose" THEN e.dose + event.size ELSE e.dose
            /\ d.flare = IF event.kind \in Sky!Brightening /\ event.size > e.flare THEN event.size ELSE e.flare
<1>1. event.size \in Nat /\ SkyFull \in Nat /\ (event.kind = "eclipse" => event.size \in 0 .. 2)
  BY SkyConstants DEF SkyEvent
<1>2. CASE event.kind \in Sky!Brightening
  <2>1. Sky!Delta(e, event) = [e EXCEPT !.flare = IF event.size > @ THEN event.size ELSE @]
    BY <1>2 DEF Sky!Delta, Sky!Brightening
  <2>2. (IF event.size > e.flare THEN event.size ELSE e.flare) \in Nat \ {0}
    BY <1>1 DEF Fields
  <2>3. QED
    BY <1>2, <2>1, <2>2 DEF Fields, Sky!Brightening
<1>3. CASE event.kind = "eclipse"
  <2> DEFINE illum == (SkyFull * (2 - event.size)) \div 2
  <2>1. Sky!Delta(e, event) = [e EXCEPT !.illum = illum, !.column = SkyFull - event.size]
    BY <1>3 DEF Sky!Delta, Sky!Brightening
  <2>2. illum \in 0 .. SkyFull
    BY <1>1, <1>3, DimOnce
  <2>3. SkyFull - event.size \in Int
    BY <1>1
  <2> HIDE DEF illum
  <2>4. QED
    BY <1>3, <2>1, <2>2, <2>3 DEF Fields, Sky!Brightening
<1>4. CASE event.kind = "ingress"
  <2>1. Sky!Delta(e, event) = [e EXCEPT !.dust = @ + event.size]
    BY <1>4 DEF Sky!Delta, Sky!Brightening
  <2>2. e.dust + event.size \in Nat
    BY <1>1 DEF Fields
  <2>3. QED
    BY <1>4, <2>1, <2>2 DEF Fields, Sky!Brightening
<1>5. CASE event.kind = "column"
  <2>1. Sky!Delta(e, event) = [e EXCEPT !.column = event.size]
    BY <1>5 DEF Sky!Delta, Sky!Surface, Sky!Brightening
  <2>2. QED
    BY <1>1, <1>5, <2>1 DEF Fields, Sky!Brightening
<1>6. CASE event.kind = "dose"
  <2>1. Sky!Delta(e, event) = [e EXCEPT !.dose = @ + event.size]
    BY <1>6 DEF Sky!Delta, Sky!Brightening
  <2>2. e.dose + event.size \in Nat
    BY <1>1 DEF Fields
  <2>3. QED
    BY <1>6, <2>1, <2>2 DEF Fields, Sky!Brightening
<1>7. CASE event.kind \notin Sky!Brightening \union {"eclipse", "ingress", "column", "dose"}
  <2>1. Sky!Delta(e, event) = e
    BY <1>7 DEF Sky!Delta, Sky!Brightening
  <2>2. QED
    BY <1>7, <2>1 DEF Sky!Brightening
<1>8. QED
  BY <1>2, <1>3, <1>4, <1>5, <1>6, <1>7

LEMMA JudgedGrows ==
  ASSUME NEW kind, skyHop \in Nat, skyHop' = skyHop + 1, skyWindows' = skyWindows
  PROVE  /\ IsFiniteSet(Sky!Judged(kind)) /\ skyHop + 1 \notin Sky!Judged(kind)
         /\ Sky!Judged(kind)' = IF skyWindows[skyHop + 1].event.kind = kind
                                THEN Sky!Judged(kind) \union {skyHop + 1} ELSE Sky!Judged(kind)
<1>1. Sky!Judged(kind) \subseteq 1 .. skyHop /\ skyHop + 1 \notin Sky!Judged(kind)
  BY DEF Sky!Judged
<1>2. IsFiniteSet(1 .. skyHop)
  <2>1. 1 \in Int /\ skyHop \in Int
    OBVIOUS
  <2>2. QED
    BY <2>1, FS_Interval
<1>3. IsFiniteSet(Sky!Judged(kind))
  BY <1>1, <1>2, FS_Subset
<1>4. 1 .. skyHop' = (1 .. skyHop) \union {skyHop + 1}
  OBVIOUS
<1>5. Sky!Judged(kind)' = {i \in (1 .. skyHop) \union {skyHop + 1} :
                              skyWindows[i].event.kind = kind}
  BY <1>4 DEF Sky!Judged
<1>6. QED
  BY <1>1, <1>3, <1>5 DEF Sky!Judged

LEMMA MergeHopKeeps ==
  ASSUME Sky!StormAssumption, SkyInv, Sky!MergeHop PROVE SkyInv'
<1> DEFINE event == skyWindows[skyHop + 1].event
<1>1. /\ skyMode = "deltas" /\ skyPhase = "hop" /\ skyHop < Len(skyWindows)
      /\ skyPhase' \in {"hop", "raised"}
      /\ UNCHANGED <<skyMode, skyWindows, skyT, skyPeak, skyVerdict>>
      /\ \/ UNCHANGED <<skyEnv, skyHop, skyFails>>
         \/ /\ skyHop' = skyHop + 1 /\ skyFails' \in {skyFails, skyFails + 1}
            /\ skyEnv' = Sky!Delta(skyEnv, event)
  BY DEF Sky!MergeHop
<1>2. /\ skyHop \in Nat /\ Len(skyWindows) \in Nat /\ skyFails \in 0 .. skyHop
      /\ skyEnv \in Fields /\ skyWindows \in Seq(Window)
  BY DEF SkyInv, SkyShape, Fields
<1>3. SkyWalk'
  BY <1>1 DEF SkyInv, SkyWalk
<1>4. SkySamples'
  BY <1>1, SamplesKept DEF SkyInv
<1>5. CASE UNCHANGED <<skyEnv, skyHop, skyFails>>
  <2>1. SkyShape'
    BY <1>1, <1>5 DEF SkyInv, SkyShape
  <2>2. SkyFields'
    BY <1>1, <1>5, FieldsKept DEF SkyInv
  <2>3. QED
    BY <1>3, <1>4, <2>1, <2>2 DEF SkyInv
<1>6. CASE /\ skyHop' = skyHop + 1 /\ skyFails' \in {skyFails, skyFails + 1}
           /\ skyEnv' = Sky!Delta(skyEnv, event)
  <2>1. skyHop + 1 \in DOMAIN skyWindows /\ event \in Sky!Listed /\ event.size \in Nat
    <3>1. skyHop + 1 \in DOMAIN skyWindows
      BY <1>1, <1>2
    <3>2. skyWindows[skyHop + 1] \in Window /\ event.size \in Nat
      BY <1>2, <3>1, WindowFacts
    <3>3. QED
      BY <3>1, <3>2 DEF Window
  <2> HIDE DEF event
  <2>2. /\ skyEnv' \in Fields
        /\ skyEnv'.dose = IF event.kind = "dose" THEN skyEnv.dose + event.size ELSE skyEnv.dose
        /\ skyEnv'.flare = IF event.kind \in Sky!Brightening /\ event.size > skyEnv.flare
                           THEN event.size ELSE skyEnv.flare
    BY <1>2, <1>6, <2>1, DeltaField
  <2>3. SkyShape'
    <3>1. skyHop' \in 0 .. Len(skyWindows) /\ skyFails' \in 0 .. skyHop'
      BY <1>1, <1>2, <1>6
    <3>2. QED
      BY <1>1, <2>2, <3>1 DEF SkyInv, SkyShape, Fields
  <2>4. \A kind : /\ IsFiniteSet(Sky!Judged(kind)) /\ skyHop + 1 \notin Sky!Judged(kind)
                  /\ Sky!Judged(kind)' = IF event.kind = kind
                                         THEN Sky!Judged(kind) \union {skyHop + 1}
                                         ELSE Sky!Judged(kind)
    BY <1>1, <1>2, <1>6, JudgedGrows DEF event
  <2>5. skyEnv.dose = Sky!SumFunction([i \in Sky!Judged("dose") |-> skyWindows[i].event.size])
        /\ skyEnv.flare \in FlareSizes /\ \A n \in FlareSizes : n <= skyEnv.flare
    BY <1>1 DEF SkyInv, SkyFields
  <2>6. skyEnv'.dose = Sky!SumFunction([i \in Sky!Judged("dose") |-> skyWindows[i].event.size]')
    <3> DEFINE S == Sky!Judged("dose")
               size(i) == skyWindows[i].event.size
               g == [i \in S |-> size(i)]
               h == [i \in S \union {skyHop + 1} |-> size(i)]
    <3>1. CASE event.kind # "dose"
      <4>1. [i \in Sky!Judged("dose") |-> skyWindows[i].event.size]' = g
        BY <1>1, <2>4, <3>1
      <4>2. QED
        BY <2>2, <2>5, <3>1, <4>1
    <3>2. CASE event.kind = "dose"
      <4>1. [i \in Sky!Judged("dose") |-> skyWindows[i].event.size]' = h
        BY <1>1, <2>4, <3>2
      <4>2. \A i \in S \union {skyHop + 1} : size(i) \in Nat
        <5>1. S \union {skyHop + 1} \subseteq DOMAIN skyWindows
          BY <1>2, <2>1 DEF Sky!Judged
        <5>2. QED
          BY <1>2, <5>1, WindowFacts
      <4>3. h \in [S \union {skyHop + 1} -> Nat]
        BY <4>2
      <4>4. IsFiniteSet(S) /\ skyHop + 1 \notin S
        BY <2>4
      <4>5. DOMAIN g = S /\ (\A i \in S : g[i] = h[i]) /\ h[skyHop + 1] = event.size
        BY DEF event
      <4>6. skyEnv.dose = Sky!SumFunction(g)
        BY <2>5
      <4> HIDE DEF S, g, h
      <4>7. Sky!SumFunction(h) = Sky!SumFunction(g) + h[skyHop + 1]
        BY <4>3, <4>4, <4>5, SumGrows
      <4>8. skyEnv'.dose = skyEnv.dose + event.size
        BY <2>2, <3>2
      <4>9. QED
        BY <4>1, <4>5, <4>6, <4>7, <4>8
    <3>3. QED
      BY <3>1, <3>2
  <2>7. FlareSizes' = IF event.kind \in Sky!Brightening THEN FlareSizes \union {event.size} ELSE FlareSizes
    BY <1>1, <2>4 DEF FlareSizes, Sky!Brightening, event
  <2>8. FlareSizes \subseteq Nat
    <3>1. Sky!Judged("flare") \union Sky!Judged("plain") \subseteq DOMAIN skyWindows
      BY <1>2, <2>1 DEF Sky!Judged
    <3>2. QED
      BY <1>2, <3>1, WindowFacts DEF FlareSizes
  <2>9. skyEnv'.flare \in FlareSizes' /\ \A n \in FlareSizes' : n <= skyEnv'.flare
    <3> DEFINE old == skyEnv.flare
               new == skyEnv'.flare
               size == event.size
               A == FlareSizes
    <3>1. old \in A /\ A \subseteq Nat /\ size \in Nat /\ \A n \in A : n <= old
      BY <2>1, <2>5, <2>8
    <3>2. new = IF event.kind \in Sky!Brightening /\ size > old THEN size ELSE old
      BY <2>2
    <3>3. FlareSizes' = IF event.kind \in Sky!Brightening THEN A \union {size} ELSE A
      BY <2>7
    <3> HIDE DEF old, new, size, A
    <3>4. CASE event.kind \in Sky!Brightening /\ size > old
      <4>1. new = size /\ FlareSizes' = A \union {size} /\ old < size
        BY <3>1, <3>2, <3>3, <3>4
      <4>2. \A n \in A : n <= size
        BY <3>1, <4>1
      <4>3. new \in FlareSizes' /\ \A n \in FlareSizes' : n <= new
        BY <3>1, <4>1, <4>2
      <4>4. QED
        BY <4>3 DEF new
    <3>5. CASE ~(event.kind \in Sky!Brightening /\ size > old)
      <4>1. new = old /\ (event.kind \in Sky!Brightening => size <= old)
        BY <3>1, <3>2, <3>5
      <4>2. new \in FlareSizes' /\ \A n \in FlareSizes' : n <= new
        BY <3>1, <3>3, <4>1
      <4>3. QED
        BY <4>2 DEF new
    <3>6. QED
      BY <3>4, <3>5
  <2>10. SkyFields'
    BY <1>1, <2>6, <2>9 DEF SkyFields
  <2>11. QED
    BY <1>3, <1>4, <2>3, <2>10 DEF SkyInv
<1>7. QED
  BY <1>1, <1>5, <1>6

LEMMA SkyInvStep ==
  ASSUME Sky!StormAssumption, SkyInv, [Sky!Next]_(Sky!vars) PROVE SkyInv'
<1>1. CASE UNCHANGED Sky!vars
  <2>1. /\ UNCHANGED <<skyMode, skyPhase, skyWindows, skyT, skyEnv, skyPeak>>
        /\ UNCHANGED <<skyHop, skyFails, skyVerdict>>
    BY <1>1 DEF Sky!vars
  <2>2. SkyShape' /\ SkyWalk'
    BY <2>1 DEF SkyInv, SkyShape, SkyWalk
  <2>3. SkyFields'
    BY <2>1, FieldsKept DEF SkyInv
  <2>4. SkySamples'
    <3>1. \A K : Sampled(K) => Sampled(K)'
      BY <2>1, WindowsKept DEF Sampled
    <3>2. QED
      BY <2>1, <3>1 DEF SkyInv, SkySamples
  <2>5. QED
    BY <2>2, <2>3, <2>4 DEF SkyInv
<1>2. CASE Sky!Next
  BY <1>2, ScheduleKeeps, TimeStepKeeps, BaselineKeeps, HopKeeps, ConcludeKeeps, MergeHopKeeps
     DEF Sky!Next
<1>3. QED
  BY <1>1, <1>2

(* Whatever the catalog and the draws: every variable of a storm keeps its *)
(* type, its fields are those the schedule says, and its peak counts the   *)
(* overlaps there are (universe_env_merge_v1, universe_storm_state_v1).    *)
THEOREM StormPromises ==
  Sky!StormAssumption => (Sky!Spec => [](Sky!TypeOK /\ Sky!ScheduleFollowed))
<1> SUFFICES ASSUME Sky!StormAssumption
             PROVE  Sky!Spec => [](Sky!TypeOK /\ Sky!ScheduleFollowed)
  OBVIOUS
<1>1. Sky!Init => SkyInv
  BY SkyInvInit
<1>2. SkyInv /\ [Sky!Next]_(Sky!vars) => SkyInv'
  BY SkyInvStep
<1>3. SkyInv => Sky!TypeOK /\ Sky!ScheduleFollowed
  BY SkyShows
<1>4. QED
  BY <1>1, <1>2, <1>3, PTL DEF Sky!Spec

-----------------------------------------------------------------------------
(***************************************************************************)
(* The composition: a behaviour of Parts is a behaviour of each part, so   *)
(* what holds of a part alone holds of it there.                           *)
(***************************************************************************)

(* A step of the whole is a step of each part, or leaves it alone.         *)
LEMMA PartsSteps ==
  PartsNext \/ UNCHANGED PartsVars =>
    /\ [Next]_vars
    /\ [Fuse!Next]_(Fuse!vars) /\ [Server!Next]_(Server!vars)
    /\ [Field!Next]_(Field!vars) /\ [Fleet!Next]_(Fleet!vars)
    /\ [Sky!Next]_(Sky!vars) /\ [Release!Next]_(Release!vars)
    /\ [Cave!Next]_(Cave!vars)
<1>1. PartsNext \/ UNCHANGED PartsVars => [Next]_vars
  BY DEF PartsNext, Rests, PartsVars
<1>2. PartsNext \/ UNCHANGED PartsVars => [Fuse!Next]_(Fuse!vars)
  BY DEF PartsNext, Rests, PartsVars, fuseVars, Fuse!vars
<1>3. PartsNext \/ UNCHANGED PartsVars => [Server!Next]_(Server!vars)
  BY DEF PartsNext, Rests, PartsVars, serverVars, Server!vars
<1>4. PartsNext \/ UNCHANGED PartsVars => [Field!Next]_(Field!vars)
  BY DEF PartsNext, Rests, PartsVars, fieldVars, Field!vars
<1>5. PartsNext \/ UNCHANGED PartsVars => [Fleet!Next]_(Fleet!vars)
  BY DEF PartsNext, Rests, PartsVars, fleetVars, Fleet!vars
<1>6. PartsNext \/ UNCHANGED PartsVars => [Sky!Next]_(Sky!vars)
  BY DEF PartsNext, Rests, PartsVars, skyVars, Sky!vars
<1>7. PartsNext \/ UNCHANGED PartsVars => [Release!Next]_(Release!vars)
  BY DEF PartsNext, Rests, PartsVars, releaseVars, Release!vars
<1>8. PartsNext \/ UNCHANGED PartsVars => [Cave!Next]_(Cave!vars)
  BY DEF PartsNext, Rests, PartsVars, caveVars, Cave!vars
<1>9. QED
  BY <1>1, <1>2, <1>3, <1>4, <1>5, <1>6, <1>7, <1>8

LEMMA PartsIsParts ==
  PartsSpec => /\ Spec /\ Fuse!Spec /\ Server!Spec /\ Field!Spec /\ Fleet!Spec
               /\ Sky!Spec /\ Release!Spec /\ Cave!Spec
<1>1. PartsInit => /\ Init /\ Fuse!Init /\ Server!Init /\ Field!Init /\ Fleet!Init
                   /\ Sky!Init /\ Release!Init /\ Cave!Init
  BY DEF PartsInit
<1>2. [PartsNext]_PartsVars =>
        /\ [Next]_vars
        /\ [Fuse!Next]_(Fuse!vars) /\ [Server!Next]_(Server!vars)
        /\ [Field!Next]_(Field!vars) /\ [Fleet!Next]_(Fleet!vars)
        /\ [Sky!Next]_(Sky!vars) /\ [Release!Next]_(Release!vars)
        /\ [Cave!Next]_(Cave!vars)
  BY PartsSteps
<1>3. QED
  BY <1>1, <1>2, PTL DEF PartsSpec, Spec, Fuse!Spec, Server!Spec, Field!Spec, Fleet!Spec,
                         Sky!Spec, Release!Spec, Cave!Spec

(* With two callers and two requests at once: no blown fuse reads intact,  *)
(* no step of the code raises a false TAMPER, and no request touches the   *)
(* files of the desk it has no business with (ha_silicon_fuse.c,           *)
(* silicon_fuse_v1.py, desk_server_v1.py).                                 *)
THEOREM OverlapIsHarmless ==
  ~FuseStartsAbsent /\ "bind" \notin FuseCalls => (PartsSpec => OverlapHolds)
<1> SUFFICES ASSUME ~FuseStartsAbsent, "bind" \notin FuseCalls PROVE PartsSpec => OverlapHolds
  OBVIOUS
<1>1. Fuse!FuseAssumption /\ Fuse!CallsAssumption /\ Server!DeskAssumption
  BY PartsAssumption
<1>2. Fuse!Spec => []Fuse!StaysBlown
  BY <1>1, Fuse!OverlapStaysBlown
<1>3. Fuse!Spec => Fuse!OnlyHandsTamper
  BY <1>1, Fuse!NoFalseTamper
<1>4. Server!Spec => []Server!DeskUntouched
  BY <1>1, Server!DeskIsUntouched
<1>5. QED
  BY <1>2, <1>3, <1>4, PartsIsParts, PTL DEF OverlapHolds

(* A carrier hands over only what it drove, whatever the order in which    *)
(* the processes read and replace the state and whoever is killed          *)
(* (robot_carrier_sim_runtime_v1, fleet_live_state_v1).                    *)
THEOREM HandoffsAreEarned == PartsSpec => []HandoffEarned
<1>1. Fleet!Spec => []Fleet!HandoffEarned
  BY PartsAssumption, Fleet!HandoffIsEarned
<1>2. QED
  BY <1>1, PartsIsParts, PTL DEF HandoffEarned

(* A tick that a veto held has moved nothing (governed_actuation_v1).      *)
THEOREM VetoesHold == PartsSpec => VetoHolds
<1>1. Fleet!Spec => Fleet!VetoHolds
  BY PartsAssumption, Fleet!VetoIsHeld
<1>2. QED
  BY <1>1, PartsIsParts, PTL DEF VetoHolds

(* And no tick of a carrier is counted twice, nor one of another undone.   *)
THEOREM TicksCountOnce == PartsSpec => TicksOnce
<1>1. Fleet!Spec => Fleet!TicksOnce
  BY PartsAssumption, Fleet!NoTickTwice
<1>2. QED
  BY <1>1, PartsIsParts, PTL DEF TicksOnce

(* A released pack with a MANIFEST is of one ritual, whatever was killed   *)
(* (release_engineer_pack_v1).                                             *)
THEOREM PacksReverify == PartsSpec => []PackReverifies
<1>1. Release!Spec => []Release!PackReverifies
  BY PartsAssumption, Release!PackAlwaysReverifies
<1>2. QED
  BY <1>1, PartsIsParts, PTL DEF PackReverifies

(* The next reader of a chain finds the newest whole run, and a verdict    *)
(* its stages earned (scheduler.py).                                       *)
THEOREM ChainsAreTold == PartsSpec => []ChainsTold
<1>1. Spec => [](TypeOK /\ ChainsTold /\ FiledIsListed)
  BY PartsAssumption, LabPromises
<1>2. QED
  BY <1>1, PartsIsParts, PTL

(* A receipt whose write returned is whole and listed, until a second      *)
(* writer or a kill comes between (receipt_store.py).                      *)
THEOREM FiledAreListed == PartsSpec => []FiledIsListed
<1>1. Spec => [](TypeOK /\ ChainsTold /\ FiledIsListed)
  BY PartsAssumption, LabPromises
<1>2. QED
  BY <1>1, PartsIsParts, PTL

(* No embed behind a refusal takes it back, and only a safe run lies to    *)
(* the gate (production_gate_v1.py and the embeds).                        *)
THEOREM RefusalsStick == PartsSpec => []JudgedAsMeasured
<1>1. Field!Spec => [](Field!TypeOK /\ Field!JudgedAsMeasured /\ Field!SidesPartition)
  BY PartsAssumption, ProbePromises
<1>2. QED
  BY <1>1, PartsIsParts, PTL DEF JudgedAsMeasured

(* The two sides of a body share out every slice between them, and an      *)
(* event that takes one is bad on a side.                                  *)
THEOREM SidesShareOut == PartsSpec => []SidesPartition
<1>1. Field!Spec => [](Field!TypeOK /\ Field!JudgedAsMeasured /\ Field!SidesPartition)
  BY PartsAssumption, ProbePromises
<1>2. QED
  BY <1>1, PartsIsParts, PTL DEF SidesPartition

(* Loops close by even shares and a PASS is a map within the ceiling       *)
(* (slam_loop_closure_v1.py, slam_integrate_phase_b_engines_v1.py).        *)
THEOREM CavesAreMapped == PartsSpec => []SlamSound
<1>1. Cave!Spec => [](Cave!TypeOK /\ Cave!SlamSound)
  BY PartsAssumption, SlamPromises
<1>2. QED
  BY <1>1, PartsIsParts, PTL DEF SlamSound

(* The dose, the dust and the overlaps of a storm are those its schedule   *)
(* says (universe_env_merge_v1.py, universe_storm_state_v1.py).            *)
THEOREM SchedulesAreFollowed == PartsSpec => []ScheduleFollowed
<1>1. Sky!Spec => [](Sky!TypeOK /\ Sky!ScheduleFollowed)
  BY PartsAssumption, StormPromises
<1>2. QED
  BY <1>1, PartsIsParts, PTL DEF ScheduleFollowed

(* Every variable of every part keeps its type.                            *)
THEOREM PartsTypes == PartsSpec => []PartsTypeOK
<1>1. Fuse!Spec => []Fuse!TypeOK
  BY PartsAssumption, Fuse!TypeCorrect
<1>2. Server!Spec => []Server!TypeOK
  BY PartsAssumption, Server!DeskTypes
<1>3. Spec => [](TypeOK /\ ChainsTold /\ FiledIsListed)
  BY PartsAssumption, LabPromises
<1>4. Field!Spec => [](Field!TypeOK /\ Field!JudgedAsMeasured /\ Field!SidesPartition)
  BY PartsAssumption, ProbePromises
<1>5. Fleet!Spec => []Fleet!TypeOK
  BY PartsAssumption, Fleet!FleetTypes
<1>6. Sky!Spec => [](Sky!TypeOK /\ Sky!ScheduleFollowed)
  BY PartsAssumption, StormPromises
<1>7. Release!Spec => []Release!TypeOK
  BY PartsAssumption, Release!RitualTypes
<1>8. Cave!Spec => [](Cave!TypeOK /\ Cave!SlamSound)
  BY PartsAssumption, SlamPromises
<1>9. QED
  BY <1>1, <1>2, <1>3, <1>4, <1>5, <1>6, <1>7, <1>8, PartsIsParts, PTL DEF PartsTypeOK
=============================================================================
