------------------------- MODULE RunPipelineProofs --------------------------
(***************************************************************************)
(* Proofs about RunPipeline, for any number of runners, runs and faults    *)
(* and any threshold.  Type correctness, the absence of a pardon and the   *)
(* meaning of the world-join law hold however the runs interleave; the     *)
(* exact lie count, the latch across kills and the judgement of the pair   *)
(* hold when the runs of a project do not overlap (Overlap = FALSE).       *)
(***************************************************************************)
EXTENDS RunPipeline, TLAPS

-----------------------------------------------------------------------------
(* The pure judgements.                                                    *)

LEMMA LieIncrementType == \A w : LieIncrement(w) \in {0, 1}
BY DEF LieIncrement

LEMMA NothingType == Nothing \in Memory
<1>1. (CHOOSE j \in Joules : TRUE) \in Joules
  BY LawAssumption
<1>2. QED
  BY <1>1 DEF Nothing, Fresh, Memory, Conditions, Worlds, Verdicts

LEMMA SealK0Type ==
  ASSUME NEW d, NEW l, NEW c, NEW w, NEW s
  PROVE  SealK0(d, l, c, w, s) \in Verdicts
BY DEF SealK0, Verdicts

LEMMA ReceiptType ==
  ASSUME NEW m \in Memory
  PROVE  ReceiptOf(m) \in Receipt
BY DEF ReceiptOf, Memory, Receipt, CurrentAllowed, PhysicsPass

\* The memory of a run keeps its type under each update the steps make.
LEMMA MemoryUpdates ==
  ASSUME NEW m \in Memory, NEW n \in Nat, NEW b \in BOOLEAN
  PROVE  /\ [m EXCEPT !.score = n, !.bit = b] \in Memory
         /\ [m EXCEPT !.blown = b] \in Memory
         /\ [m EXCEPT !.moved = b] \in Memory
         /\ [m EXCEPT !.ts = n] \in Memory
BY DEF Memory

\* A step either begins a run, is one operation of a run, kills a run or
\* tears the fuse file.
LEMMA NextCases ==
  ASSUME Next
  PROVE  \/ \E r \in Runners, c \in Conditions, w \in Worlds, j \in Joules : Begin(r, c, w, j)
         \/ \E r \in Runners, m \in BOOLEAN : Probe(r, m)
         \/ \E r \in Runners : \/ ReadState(r) \/ Gate(r) \/ Truncate(r) \/ Persist(r)
                               \/ Sync(r) \/ Stamp(r) \/ Seal(r) \/ Write(r) \/ Note(r)
                               \/ Crash(r)
         \/ FuseDies
BY DEF Next, Step

-----------------------------------------------------------------------------
(* Type correctness.                                                       *)

LEMMA TypeInit == Init => TypeOK
<1> SUFFICES ASSUME Init PROVE TypeOK
  OBVIOUS
<1>1. Nothing \in Memory
  BY NothingType
<1>2. NoState \in StateFile
  BY DEF NoState, StateFile
<1>3. QED
  BY <1>1, <1>2, PipelineAssumption DEF Init, TypeOK, Labels

LEMMA TypeStep == TypeOK /\ [Next]_vars => TypeOK'
<1> SUFFICES ASSUME TypeOK, [Next]_vars PROVE TypeOK'
  OBVIOUS
<1> USE DEF TypeOK, Goto, bounds, history
<1>0. Nothing \in Memory
  BY NothingType
<1>1. ASSUME NEW r \in Runners, NEW c \in Conditions, NEW w \in Worlds, NEW j \in Joules,
             Begin(r, c, w, j)
      PROVE  TypeOK'
  <2>1. Fresh(c, w, j) \in Memory
    BY DEF Fresh, Memory, Verdicts
  <2>2. started' \in 0..MaxRuns
    BY <1>1, PipelineAssumption DEF Begin
  <2>3. pc' \in [Runners -> Labels] /\ mem' \in [Runners -> Memory]
    BY <1>0, <1>1, <2>1 DEF Begin, Fail, Labels
  <2>4. QED
    BY <1>1, <2>2, <2>3 DEF Begin
<1>2. ASSUME NEW r \in Runners, NEW m \in BOOLEAN, Probe(r, m) PROVE TypeOK'
  <2> DEFINE b == mem[r].moved \/ m
  <2>0. b \in BOOLEAN /\ mem[r] \in Memory
    OBVIOUS
  <2> HIDE DEF b
  <2>1. [mem[r] EXCEPT !.moved = b] \in Memory
    BY <2>0, MemoryUpdates
  <2>4. mem' \in {[mem EXCEPT ![r] = Nothing], [mem EXCEPT ![r] = [mem[r] EXCEPT !.moved = b]]}
    BY <1>2 DEF Probe, Fail, b
  <2>5. mem' \in [Runners -> Memory]
    BY <1>0, <2>1, <2>4
  <2>2. pc' \in [Runners -> Labels]
    BY <1>2 DEF Probe, Fail, Labels
  <2>3. QED
    BY <1>2, <2>5, <2>2 DEF Probe
<1>3. ASSUME NEW r \in Runners, ReadState(r) PROVE TypeOK'
  <2>0. state.score \in Nat /\ state.bit \in BOOLEAN /\ mem[r] \in Memory
    BY DEF StateFile
  <2>4. [mem[r] EXCEPT !.score = state.score, !.bit = state.bit] \in Memory
    BY <2>0, MemoryUpdates
  <2>1. mem' \in [Runners -> Memory]
    BY <1>0, <1>3, <2>4 DEF ReadState, Fail
  <2>2. pc' \in [Runners -> Labels]
    BY <1>3 DEF ReadState, Fail, Labels
  <2>3. QED
    BY <1>3, <2>1, <2>2 DEF ReadState
<1>4. ASSUME NEW r \in Runners, Gate(r) PROVE TypeOK'
  <2>1. LieIncrement(mem[r].world) \in Nat
    BY LieIncrementType
  <2>2. mem[r].score + LieIncrement(mem[r].world) \in Nat
    BY <2>1 DEF Memory
  <2> DEFINE n == mem[r].score + LieIncrement(mem[r].world)
             b == mem[r].bit \/ fuse = "blown" \/ Tripped(n)
  <2>6. n \in Nat /\ b \in BOOLEAN /\ mem[r] \in Memory
    BY <2>2
  <2>7. mem' \in {[mem EXCEPT ![r] = Nothing],
                  [mem EXCEPT ![r] = [mem[r] EXCEPT !.score = n, !.bit = b]]}
    <3>1. CASE fuse = "dead"
      BY <1>4, <3>1 DEF Gate, Fail
    <3>2. CASE fuse # "dead"
      <4>1. mem' = [mem EXCEPT ![r].score = n, ![r].bit = @ \/ fuse = "blown" \/ Tripped(n)]
        BY <1>4, <3>2, Zenon DEF Gate, Emit
      <4>2. QED
        BY <4>1
    <3>3. QED
      BY <3>1, <3>2
  <2> HIDE DEF n, b
  <2>8. [mem[r] EXCEPT !.score = n, !.bit = b] \in Memory
    BY <2>6, MemoryUpdates
  <2>3. mem' \in [Runners -> Memory]
    BY <1>0, <2>7, <2>8
  <2>4. pc' \in [Runners -> Labels]
    BY <1>4 DEF Gate, Fail, Labels
  <2>5. QED
    BY <1>4, <2>3, <2>4 DEF Gate
<1>5. ASSUME NEW r \in Runners, Truncate(r) PROVE TypeOK'
  BY <1>5 DEF Truncate, Labels, StateFile
<1>6. ASSUME NEW r \in Runners, Persist(r) PROVE TypeOK'
  <2>1. lies' \in Nat
    BY <1>6, LieIncrementType DEF Persist
  <2>2. state' \in StateFile
    BY <1>6 DEF Persist, StateFile, Memory
  <2>3. QED
    BY <1>6, <2>1, <2>2 DEF Persist, Labels
<1>7. ASSUME NEW r \in Runners, Sync(r) PROVE TypeOK'
  <2>1. fuse' \in {"intact", "blown", "dead"}
    BY <1>7 DEF Sync, Fuse!Blow
  <2> DEFINE b == (fuse' = "blown")
  <2>5. b \in BOOLEAN /\ mem[r] \in Memory
    OBVIOUS
  <2>6. mem' \in {[mem EXCEPT ![r] = Nothing], [mem EXCEPT ![r] = [mem[r] EXCEPT !.blown = b]]}
    BY <1>7 DEF Sync, Fail
  <2> HIDE DEF b
  <2>7. [mem[r] EXCEPT !.blown = b] \in Memory
    BY <2>5, MemoryUpdates
  <2>2. mem' \in [Runners -> Memory]
    BY <1>0, <2>6, <2>7
  <2>3. pc' \in [Runners -> Labels]
    BY <1>7 DEF Sync, Fail, Labels
  <2>4. QED
    BY <1>7, <2>1, <2>2, <2>3 DEF Sync
<1>8. ASSUME NEW r \in Runners, Stamp(r) PROVE TypeOK'
  <2>1. mem[r] \in Memory /\ clock \in Nat
    OBVIOUS
  <2>2. [mem[r] EXCEPT !.ts = clock] \in Memory
    BY <2>1, MemoryUpdates
  <2>3. mem' = [mem EXCEPT ![r] = [mem[r] EXCEPT !.ts = clock]]
    BY <1>8 DEF Stamp
  <2>4. QED
    BY <1>8, <2>2, <2>3 DEF Stamp, Labels
<1>9. ASSUME NEW r \in Runners, Seal(r) PROVE TypeOK'
  <2>1. SealK0(docs, last, mem[r].cond, mem[r].world, mem[r].spent) \in Verdicts
    BY SealK0Type
  <2>2. QED
    BY <1>9, <2>1 DEF Seal, Labels, Memory
<1>10. ASSUME NEW r \in Runners, Write(r) PROVE TypeOK'
  <2>1. docs' \in Seq(Receipt)
    BY <1>10, ReceiptType DEF Write
  <2>2. QED
    BY <1>10, <2>1 DEF Write, Labels
<1>11. ASSUME NEW r \in Runners, Note(r) PROVE TypeOK'
  <2>1. last' \in Conditions
    BY <1>11 DEF Note, Memory
  <2>2. QED
    BY <1>0, <1>11, <2>1 DEF Note, Labels
<1>12. ASSUME NEW r \in Runners, Crash(r) PROVE TypeOK'
  BY <1>0, <1>12, PipelineAssumption DEF Crash, Fail, Labels
<1>13. ASSUME FuseDies PROVE TypeOK'
  BY <1>13, PipelineAssumption DEF FuseDies, Fuse!Die
<1>14. ASSUME UNCHANGED vars PROVE TypeOK'
  BY <1>14 DEF vars
<1>15. QED
  BY <1>1, <1>2, <1>3, <1>4, <1>5, <1>6, <1>7, <1>8, <1>9, <1>10, <1>11, <1>12, <1>13,
     <1>14, NextCases

\* Every variable keeps its type, whatever overlaps and whatever is killed.
THEOREM PipelineTypes == Spec => []TypeOK
BY TypeInit, TypeStep, PTL DEF Spec

-----------------------------------------------------------------------------
(* What a step does to the runner that takes it; it leaves the others      *)
(* alone.                                                                  *)

Still(q) == pc'[q] = pc[q] /\ mem'[q] = mem[q]

Alone(r) == \A q \in Runners \ {r} : Still(q)

LEMMA BeginEffect ==
  ASSUME TypeOK, NEW r \in Runners, NEW c, NEW w, NEW j, Begin(r, c, w, j)
  PROVE  /\ Alone(r)
         /\ pc'[r] \in {"idle", "stub"}
         /\ ~mem'[r].moved
BY DEF TypeOK, Begin, Goto, Fail, Alone, Still, Nothing, Fresh

LEMMA ProbeEffect ==
  ASSUME TypeOK, NEW r \in Runners, NEW m \in BOOLEAN, Probe(r, m)
  PROVE  /\ Alone(r)
         /\ pc[r] \in {"stub", "planner"} /\ pc'[r] \in {"idle", "planner", "prior"}
         /\ mem'[r].moved => mem[r].moved \/ fuse = "intact"
<1> USE DEF TypeOK, Probe, Goto, Fail
<1>1. mem[r] \in Memory
  OBVIOUS
<1>2. CASE fuse = "dead"
  BY <1>2 DEF Alone, Still, Nothing, Fresh
<1>3. CASE fuse # "dead"
  <2>1. mem'[r] = [mem[r] EXCEPT !.moved = @ \/ m]
    BY <1>3
  <2>2. mem'[r].moved => mem[r].moved \/ m
    BY <1>1, <2>1 DEF Memory
  <2>3. QED
    BY <1>3, <2>2 DEF Alone, Still
<1>4. QED
  BY <1>2, <1>3

LEMMA ReadStateEffect ==
  ASSUME TypeOK, NEW r \in Runners, ReadState(r)
  PROVE  /\ Alone(r)
         /\ pc[r] = "prior"
         /\ \/ pc'[r] = "idle"
            \/ /\ pc'[r] = "gate"
               /\ state.file # "torn"
               /\ mem'[r].score = state.score /\ mem'[r].bit = state.bit
               /\ mem'[r].moved = mem[r].moved
BY DEF TypeOK, Memory, ReadState, Goto, Fail, Alone, Still

LEMMA GateEffect ==
  ASSUME TypeOK, NEW r \in Runners, Gate(r)
  PROVE  /\ Alone(r)
         /\ pc[r] = "gate"
         /\ \/ pc'[r] = "idle"
            \/ /\ pc'[r] = "truncate"
               /\ mem'[r].world = mem[r].world
               /\ mem'[r].score = mem[r].score + LieIncrement(mem[r].world)
               /\ mem'[r].bit <=> (mem[r].bit \/ fuse = "blown" \/ Tripped(mem'[r].score))
               /\ mem'[r].moved = mem[r].moved
<1> USE DEF TypeOK, Gate, Goto, Fail
<1>1. mem[r] \in Memory
  OBVIOUS
<1>2. CASE fuse = "dead"
  BY <1>2 DEF Alone, Still
<1>3. CASE fuse # "dead"
  <2> DEFINE n == mem[r].score + LieIncrement(mem[r].world)
             b == mem[r].bit \/ fuse = "blown" \/ Tripped(n)
  <2>1. mem' = [mem EXCEPT ![r].score = n, ![r].bit = @ \/ fuse = "blown" \/ Tripped(n)]
    BY <1>3, Zenon DEF Emit
  <2>2. mem' = [mem EXCEPT ![r] = [mem[r] EXCEPT !.score = n, !.bit = b]]
    BY <2>1
  <2> HIDE DEF n, b
  <2>3. mem'[r] = [mem[r] EXCEPT !.score = n, !.bit = b] /\ \A q \in Runners \ {r} : mem'[q] = mem[q]
    BY <2>2
  <2>4. /\ mem'[r].world = mem[r].world /\ mem'[r].score = n /\ mem'[r].bit = b
        /\ mem'[r].moved = mem[r].moved
    BY <1>1, <2>3 DEF Memory
  <2>5. pc'[r] = "truncate" /\ \A q \in Runners \ {r} : pc'[q] = pc[q]
    BY <1>3
  <2>6. mem'[r].bit <=> (mem[r].bit \/ fuse = "blown" \/ Tripped(mem'[r].score))
    BY <2>4, Zenon DEF b
  <2>7. QED
    BY <2>3, <2>4, <2>5, <2>6 DEF Alone, Still, n
<1>4. QED
  BY <1>2, <1>3

LEMMA SyncEffect ==
  ASSUME TypeOK, NEW r \in Runners, Sync(r)
  PROVE  /\ Alone(r)
         /\ pc[r] = "sync"
         /\ \/ pc'[r] = "idle" /\ fuse' = fuse
            \/ /\ pc'[r] = "stamp"
               /\ fuse # "dead"
               /\ fuse' = IF mem[r].bit THEN "blown" ELSE fuse
               /\ mem'[r].bit = mem[r].bit
               /\ mem'[r].moved = mem[r].moved
<1> USE DEF TypeOK, Sync, Goto, Fail
<1>1. mem[r] \in Memory
  OBVIOUS
<1>2. CASE fuse = "dead"
  BY <1>2 DEF Alone, Still
<1>3. CASE fuse # "dead"
  <2>1. mem'[r] = [mem[r] EXCEPT !.blown = (fuse' = "blown")]
    BY <1>3
  <2>2. mem'[r].bit = mem[r].bit /\ mem'[r].moved = mem[r].moved
    BY <1>1, <2>1 DEF Memory
  <2>3. fuse' = IF mem[r].bit THEN "blown" ELSE fuse
    BY <1>3 DEF Fuse!Blow
  <2>4. QED
    BY <1>3, <2>2, <2>3 DEF Alone, Still
<1>4. QED
  BY <1>2, <1>3

LEMMA StampEffect ==
  ASSUME TypeOK, NEW r \in Runners, Stamp(r)
  PROVE  /\ Alone(r)
         /\ pc[r] = "stamp" /\ pc'[r] = "seal"
         /\ mem'[r].ts = clock
         /\ mem'[r].bit = mem[r].bit /\ mem'[r].moved = mem[r].moved
BY DEF TypeOK, Memory, Stamp, Goto, Alone, Still

LEMMA SealEffect ==
  ASSUME TypeOK, NEW r \in Runners, Seal(r)
  PROVE  /\ Alone(r)
         /\ pc[r] = "seal" /\ pc'[r] = "write"
         /\ mem'[r].ts = mem[r].ts
         /\ mem'[r].bit = mem[r].bit /\ mem'[r].moved = mem[r].moved
BY DEF TypeOK, Memory, Seal, Goto, Alone, Still

\* The steps that leave the runner's memory alone, and the ones that end a run.
LEMMA MoveEffect ==
  ASSUME TypeOK, NEW r \in Runners
  PROVE  /\ Truncate(r) => Alone(r) /\ pc[r] = "truncate" /\ pc'[r] = "persist" /\ mem' = mem
         /\ Persist(r) => Alone(r) /\ pc[r] = "persist" /\ pc'[r] = "sync" /\ mem' = mem
         /\ Write(r) => Alone(r) /\ pc[r] = "write" /\ pc'[r] = "note" /\ mem' = mem
         /\ Note(r) => Alone(r) /\ pc[r] = "note" /\ pc'[r] = "idle"
         /\ Crash(r) => Alone(r) /\ pc[r] # "idle" /\ pc'[r] = "idle"
BY DEF TypeOK, Truncate, Persist, Write, Note, Crash, Goto, Fail, Alone, Still

-----------------------------------------------------------------------------
(* What only Write does to the receipts, and nothing to the fuse.          *)

\* Receipts are only ever appended, by the last step of a run that writes one.
LEMMA DocsStep ==
  ASSUME TypeOK, [Next]_vars
  PROVE  \/ docs' = docs
         \/ \E r \in Runners : Write(r)
BY NextCases DEF vars, Begin, Probe, ReadState, Gate, Truncate, Persist, Sync, Stamp, Seal,
                 Note, Crash, FuseDies

LEMMA WriteFacts ==
  ASSUME TypeOK, NEW r \in Runners, Write(r)
  PROVE  /\ DOMAIN docs = 1..Len(docs)
         /\ Len(docs) \in Nat
         /\ DOMAIN docs' = 1..(Len(docs) + 1)
         /\ \A i \in DOMAIN docs : docs'[i] = docs[i]
         /\ docs'[Len(docs) + 1] = ReceiptOf(mem[r])
<1>1. docs \in Seq(Receipt) /\ ReceiptOf(mem[r]) \in Receipt
  BY ReceiptType DEF TypeOK
<1>2. docs' = Append(docs, ReceiptOf(mem[r]))
  BY DEF Write
<1>3. QED
  BY <1>1, <1>2

\* A fuse that has left the intact state never returns to it.
LEMMA FuseStep ==
  ASSUME TypeOK, [Next]_vars, fuse # "intact"
  PROVE  fuse' # "intact"
BY NextCases DEF vars, Begin, Probe, ReadState, Gate, Truncate, Persist, Sync, Stamp, Seal,
                 Write, Note, Crash, FuseDies, Fuse!Blow, Fuse!Die

-----------------------------------------------------------------------------
(* No pardon, whatever overlaps: sync_silicon_fuse_after_gate comes before *)
(* the receipt is written, and the law reads the live fuse.                *)

\* A latched bit that is on a receipt, or on its way to one past the sync,
\* has a fuse that is not intact.
Marked ==
  /\ \A i \in DOMAIN docs : docs[i].bit => fuse # "intact"
  /\ \A r \in Runners : pc[r] \in {"stamp", "seal", "write"} /\ mem[r].bit => fuse # "intact"

LEMMA MarkedInit == Init => Marked
BY DEF Init, Marked

LEMMA MarkedStep == TypeOK /\ Marked /\ [Next]_vars => Marked'
<1> SUFFICES ASSUME TypeOK, Marked, [Next]_vars PROVE Marked'
  OBVIOUS
<1>1. \A i \in DOMAIN docs' : docs'[i].bit => fuse' # "intact"
  <2>1. CASE docs' = docs
    BY <2>1, FuseStep DEF Marked
  <2>2. ASSUME NEW r \in Runners, Write(r)
        PROVE  \A i \in DOMAIN docs' : docs'[i].bit => fuse' # "intact"
    <3>1. ReceiptOf(mem[r]).bit = mem[r].bit /\ pc[r] = "write" /\ fuse' = fuse
      BY <2>2 DEF ReceiptOf, Write
    <3>2. \A i \in DOMAIN docs' : i \in DOMAIN docs \/ i = Len(docs) + 1
      BY <2>2, WriteFacts
    <3>3. QED
      BY <2>2, <3>1, <3>2, WriteFacts DEF Marked
  <2>3. QED
    BY <2>1, <2>2, DocsStep
<1>2. ASSUME NEW r \in Runners, pc'[r] \in {"stamp", "seal", "write"}, mem'[r].bit
      PROVE  fuse' # "intact"
  <2>1. CASE Still(r)
    BY <1>2, <2>1, FuseStep DEF Marked, Still
  <2>2. CASE Sync(r)
    BY <1>2, <2>2, SyncEffect
  <2>3. CASE Stamp(r)
    BY <1>2, <2>3, StampEffect, FuseStep DEF Marked
  <2>4. CASE Seal(r)
    BY <1>2, <2>4, SealEffect, FuseStep DEF Marked
  <2>5. Still(r) \/ Sync(r) \/ Stamp(r) \/ Seal(r)
    <3>1. UNCHANGED vars \/ FuseDies => Still(r)
      BY DEF vars, FuseDies, Still
    <3>2. ASSUME NEW q \in Runners, NEW c, NEW w, NEW j, Begin(q, c, w, j) PROVE Still(r)
      BY <1>2, <3>2, BeginEffect DEF Alone
    <3>3. ASSUME NEW q \in Runners, NEW m \in BOOLEAN, Probe(q, m) PROVE Still(r)
      BY <1>2, <3>3, ProbeEffect DEF Alone
    <3>4. ASSUME NEW q \in Runners,
                 \/ ReadState(q) \/ Gate(q) \/ Truncate(q) \/ Persist(q) \/ Sync(q) \/ Stamp(q)
                 \/ Seal(q) \/ Write(q) \/ Note(q) \/ Crash(q)
          PROVE  Still(r) \/ Sync(r) \/ Stamp(r) \/ Seal(r)
      <4>1. CASE q # r
        BY <3>4, <4>1, ReadStateEffect, GateEffect, SyncEffect, StampEffect, SealEffect,
           MoveEffect DEF Alone
      <4>2. CASE q = r
        BY <1>2, <3>4, <4>2, ReadStateEffect, GateEffect, MoveEffect
      <4>3. QED
        BY <4>1, <4>2
    <3>5. QED
      BY <3>1, <3>2, <3>3, <3>4, NextCases
  <2>6. QED
    BY <2>1, <2>2, <2>3, <2>4, <2>5
<1>3. QED
  BY <1>1, <1>2 DEF Marked

\* Once a receipt carries the latched bit, no later receipts make the
\* artifact lawful again, however the runs interleave and wherever they die.
THEOREM ApoptosisIsNotPardoned == Spec => []NoPardon
<1>1. TypeOK /\ Marked => NoPardon
  BY DEF NoPardon, Marked, LawHolds, FuseLawful
<1>2. QED
  BY <1>1, TypeInit, TypeStep, MarkedInit, MarkedStep, PTL DEF Spec

-----------------------------------------------------------------------------
(* The world-join law, whatever overlaps.                                  *)

\* A receipt allows the current exactly if its gate does and the kernel did
\* not refuse the run.
Refused ==
  \A i \in DOMAIN docs :
    docs[i].allowed <=> (CurrentAllowed(docs[i].world) /\ docs[i].k0 # "fail")

LEMMA RefusedInit == Init => Refused
BY DEF Init, Refused

LEMMA RefusedStep == TypeOK /\ Refused /\ [Next]_vars => Refused'
<1> SUFFICES ASSUME TypeOK, Refused, [Next]_vars PROVE Refused'
  OBVIOUS
<1>1. CASE docs' = docs
  BY <1>1 DEF Refused
<1>2. ASSUME NEW r \in Runners, Write(r) PROVE Refused'
  <2>1. ReceiptOf(mem[r]).allowed <=>
          (CurrentAllowed(ReceiptOf(mem[r]).world) /\ ReceiptOf(mem[r]).k0 # "fail")
    BY DEF ReceiptOf
  <2>2. \A i \in DOMAIN docs' : i \in DOMAIN docs \/ i = Len(docs) + 1
    BY <1>2, WriteFacts
  <2>3. QED
    BY <1>2, <2>1, <2>2, WriteFacts DEF Refused
<1>3. QED
  BY <1>1, <1>2, DocsStep

\* A lawful pair that joins met a clear world on the safe side and a soil the
\* planner recovers from on the hostile one.
LEMMA JoinedWorlds ==
  ASSUME NEW s \in Receipt, NEW h \in Receipt, RunLawful(s), RunLawful(h), Joined(s, h)
  PROVE  PhysicsPass(s.world) /\ ~PhysicsPass(h.world) /\ CurrentAllowed(s.world)
<1>1. s.world \in Worlds /\ h.world \in Worlds
  BY DEF Receipt
<1>2. s.world # "soil" /\ h.world = "soil"
  BY <1>1 DEF Joined, Diverged, Planner, Worlds
<1>3. s.world = "clear"
  BY <1>1, <1>2 DEF RunLawful, GovernanceCoherent, Digit, Planner, PhysicsPass, Worlds
<1>4. QED
  BY <1>2, <1>3 DEF PhysicsPass, CurrentAllowed, Digit, Planner

\* An artifact lawful under --world-join rests on a pair that burns (K0) and
\* whose safe run the kernel did not refuse.
THEOREM JoinRestsOnBurn == Spec => []JoinBurns
<1>1. ASSUME TypeOK, Refused, LawHolds(docs, fuse, TRUE)
      PROVE  \E i, j \in DOMAIN docs :
               /\ docs[i].cond = "safe" /\ docs[j].cond = "hostile"
               /\ Latest(docs, docs[i]) /\ Latest(docs, docs[j])
               /\ DualBurns(docs[i].spent, docs[j].spent,
                            PhysicsPass(docs[i].world), PhysicsPass(docs[j].world))
               /\ docs[i].k0 # "fail"
  <2>1. PICK i \in DOMAIN docs, j \in DOMAIN docs :
          /\ docs[i].cond = "safe" /\ docs[j].cond = "hostile"
          /\ Latest(docs, docs[i]) /\ Latest(docs, docs[j])
          /\ RunLawful(docs[i]) /\ RunLawful(docs[j])
          /\ Joined(docs[i], docs[j])
    BY <1>1 DEF LawHolds
  <2>2. docs[i] \in Receipt /\ docs[j] \in Receipt
    BY <1>1 DEF TypeOK
  <2>3. PhysicsPass(docs[i].world) /\ ~PhysicsPass(docs[j].world) /\ CurrentAllowed(docs[i].world)
    BY <2>1, <2>2, JoinedWorlds
  <2>4. docs[i].k0 # "fail"
    BY <1>1, <2>1, <2>3 DEF Refused, RunLawful, GateValid
  <2>5. QED
    BY <2>1, <2>3, <2>4 DEF DualBurns
<1>2. TypeOK /\ Refused => JoinBurns
  BY <1>1 DEF JoinBurns
<1>3. QED
  BY <1>2, TypeInit, TypeStep, RefusedInit, RefusedStep, PTL DEF Spec

-----------------------------------------------------------------------------
(* Runs that do not overlap (Overlap = FALSE): the inductive invariant.    *)

Past == {"sync", "stamp", "seal", "write", "note"}

Latched == lies >= Threshold

\* At most one run is under way.
OneRun == \A q, r \in Runners : (pc[q] # "idle" /\ pc[r] # "idle") => q = r

\* The file says what the history says, except while it is being written.
FileExact ==
  /\ state.file = "absent" => lies = 0 /\ state.score = 0 /\ ~state.bit
  /\ state.file = "ok" => state.score = lies /\ (state.bit <=> Latched)

\* And so does the memory of the run under way, before and after it persists.
MemoryExact ==
  \A r \in Runners :
    /\ pc[r] = "gate" => mem[r].score = lies /\ (mem[r].bit <=> Latched)
    /\ pc[r] \in {"truncate", "persist"} =>
         /\ mem[r].score = lies + LieIncrement(mem[r].world)
         /\ mem[r].bit <=> mem[r].score >= Threshold
    /\ pc[r] \in Past => (mem[r].bit <=> Latched)

\* The fuse is blown by a latched gate only.
BlownLatched == fuse = "blown" => Latched

\* The clock: a run under way that has not been stamped has not used its tick.
ClockBound ==
  /\ clock <= started
  /\ \A r \in Runners : pc[r] \notin {"idle", "seal", "write", "note"} => clock < started

\* When the latch was first stored.
LatchTime ==
  /\ ~Latched => latchAt = MaxRuns
  /\ Latched => latchAt <= clock /\ latchAt < MaxRuns

\* What was stamped since carries the bit, on file or about to be.
Carried ==
  /\ \A i \in DOMAIN docs : docs[i].ts < clock /\ (docs[i].ts >= latchAt => docs[i].bit)
  /\ \A r \in Runners : pc[r] \in {"seal", "write"} =>
       mem[r].ts < clock /\ (mem[r].ts >= latchAt => mem[r].bit)

SerialInv == /\ OneRun /\ FileExact /\ MemoryExact /\ BlownLatched
             /\ ClockBound /\ LatchTime /\ Carried

LEMMA SerialInit == Init => SerialInv
BY LawAssumption, PipelineAssumption
   DEF Init, NoState, SerialInv, OneRun, FileExact, MemoryExact, BlownLatched, ClockBound,
       LatchTime, Carried, Latched, Past

LEMMA LiesNat == TypeOK => lies \in Nat /\ clock \in Nat /\ started \in 0..MaxRuns
                          /\ latchAt \in Nat /\ MaxRuns \in Nat /\ Threshold \in Nat \ {0}
BY LawAssumption, PipelineAssumption DEF TypeOK

LEMMA ReceiptTimes ==
  ASSUME TypeOK
  PROVE  \A i \in DOMAIN docs : docs[i] \in Receipt /\ docs[i].ts \in Nat
<1>1. \A i \in DOMAIN docs : docs[i] \in Receipt
  BY DEF TypeOK
<1>2. QED
  BY <1>1 DEF Receipt

\* With one run under way, the others are idle.
LEMMA OthersIdle ==
  ASSUME OneRun, NEW r \in Runners, pc[r] # "idle"
  PROVE  \A q \in Runners \ {r} : pc[q] = "idle"
BY DEF OneRun

LEMMA SerialStep == ~Overlap /\ TypeOK /\ SerialInv /\ [Next]_vars => SerialInv'
<1> SUFFICES ASSUME ~Overlap, TypeOK, SerialInv, [Next]_vars PROVE SerialInv'
  OBVIOUS
<1> USE DEF SerialInv, Latched, Past
<1>0. /\ lies \in Nat /\ clock \in Nat /\ started \in 0..MaxRuns /\ latchAt \in Nat
      /\ MaxRuns \in Nat /\ Threshold \in Nat \ {0}
  BY LiesNat
<1>1. ASSUME NEW r \in Runners, NEW c \in Conditions, NEW w \in Worlds, NEW j \in Joules,
             Begin(r, c, w, j)
      PROVE  SerialInv'
  <2>1. \A q \in Runners : pc[q] = "idle"
    BY <1>1 DEF Begin, Quiet
  <2>2. \A q \in Runners : q # r => pc'[q] = "idle"
    BY <1>1, <2>1, BeginEffect DEF Alone, Still
  <2>3. pc'[r] \in {"idle", "stub"} /\ started' = started + 1
    BY <1>1, BeginEffect DEF Begin
  <2>4. UNCHANGED <<fuse, state, docs, clock, lies, latchAt>>
    BY <1>1 DEF Begin, history
  <2>5. OneRun' /\ MemoryExact' /\ ClockBound'
    BY <1>0, <2>2, <2>3, <2>4 DEF OneRun, MemoryExact, ClockBound
  <2>6. FileExact' /\ BlownLatched' /\ LatchTime'
    BY <2>4 DEF FileExact, BlownLatched, LatchTime
  <2>7. Carried'
    BY <2>2, <2>3, <2>4 DEF Carried
  <2>8. QED
    BY <2>5, <2>6, <2>7
<1>2. ASSUME NEW r \in Runners, NEW m \in BOOLEAN, Probe(r, m) PROVE SerialInv'
  <2>1. pc[r] \in {"stub", "planner"} /\ pc'[r] \in {"idle", "planner", "prior"}
    BY <1>2, ProbeEffect
  <2>2. \A q \in Runners : q # r => pc'[q] = "idle"
    BY <1>2, <2>1, ProbeEffect, OthersIdle DEF Alone, Still
  <2>3. UNCHANGED <<fuse, state, docs, clock, started, lies, latchAt>>
    BY <1>2 DEF Probe, history, bounds
  <2>4. OneRun' /\ MemoryExact' /\ ClockBound'
    BY <1>0, <2>1, <2>2, <2>3 DEF OneRun, MemoryExact, ClockBound
  <2>5. FileExact' /\ BlownLatched' /\ LatchTime' /\ Carried'
    BY <2>1, <2>2, <2>3 DEF FileExact, BlownLatched, LatchTime, Carried
  <2>6. QED
    BY <2>4, <2>5
<1>3. ASSUME NEW r \in Runners, ReadState(r) PROVE SerialInv'
  <2>1. /\ pc[r] = "prior"
        /\ \/ pc'[r] = "idle"
           \/ /\ pc'[r] = "gate"
              /\ state.file # "torn"
              /\ mem'[r].score = state.score /\ mem'[r].bit = state.bit
    BY <1>3, ReadStateEffect
  <2>2. \A q \in Runners : q # r => pc'[q] = "idle"
    BY <1>3, <2>1, ReadStateEffect, OthersIdle DEF Alone, Still
  <2>3. UNCHANGED <<fuse, state, docs, clock, started, lies, latchAt>>
    BY <1>3 DEF ReadState, history, bounds
  <2>4. state.file \in {"absent", "torn", "ok"}
    BY DEF TypeOK, StateFile
  <2>5. MemoryExact'
    BY <1>0, <2>1, <2>2, <2>3, <2>4 DEF MemoryExact, FileExact
  <2>6. OneRun' /\ ClockBound'
    BY <1>0, <2>1, <2>2, <2>3 DEF OneRun, ClockBound
  <2>7. FileExact' /\ BlownLatched' /\ LatchTime' /\ Carried'
    BY <2>1, <2>2, <2>3 DEF FileExact, BlownLatched, LatchTime, Carried
  <2>8. QED
    BY <2>5, <2>6, <2>7
<1>4. ASSUME NEW r \in Runners, Gate(r) PROVE SerialInv'
  <2>1. /\ pc[r] = "gate"
        /\ \/ pc'[r] = "idle"
           \/ /\ pc'[r] = "truncate"
              /\ mem'[r].world = mem[r].world
              /\ mem'[r].score = mem[r].score + LieIncrement(mem[r].world)
              /\ mem'[r].bit <=> (mem[r].bit \/ fuse = "blown" \/ Tripped(mem'[r].score))
    BY <1>4, GateEffect
  <2>2. \A q \in Runners : q # r => pc'[q] = "idle"
    BY <1>4, <2>1, GateEffect, OthersIdle DEF Alone, Still
  <2>3. UNCHANGED <<fuse, state, docs, clock, started, lies, latchAt>>
    BY <1>4 DEF Gate, history, bounds
  <2>4. LieIncrement(mem[r].world) \in {0, 1}
    BY LieIncrementType
  <2>5. mem[r].score = lies /\ (mem[r].bit <=> Latched)
    BY <2>1 DEF MemoryExact
  <2>6. pc'[r] = "truncate" => /\ mem'[r].score = lies + LieIncrement(mem'[r].world)
                              /\ mem'[r].bit <=> mem'[r].score >= Threshold
    BY <1>0, <2>1, <2>4, <2>5 DEF BlownLatched, Tripped
  <2>7. MemoryExact'
    BY <2>1, <2>2, <2>3, <2>6 DEF MemoryExact
  <2>8. OneRun' /\ ClockBound'
    BY <1>0, <2>1, <2>2, <2>3 DEF OneRun, ClockBound
  <2>9. FileExact' /\ BlownLatched' /\ LatchTime' /\ Carried'
    BY <2>1, <2>2, <2>3 DEF FileExact, BlownLatched, LatchTime, Carried
  <2>10. QED
    BY <2>7, <2>8, <2>9
<1>5. ASSUME NEW r \in Runners, Truncate(r) PROVE SerialInv'
  <2>1. pc[r] = "truncate" /\ pc'[r] = "persist" /\ mem' = mem
    BY <1>5, MoveEffect
  <2>2. \A q \in Runners : q # r => pc'[q] = "idle"
    BY <1>5, <2>1, MoveEffect, OthersIdle DEF Alone, Still
  <2>3. UNCHANGED <<fuse, docs, clock, started, lies, latchAt>> /\ state'.file = "torn"
    BY <1>5 DEF Truncate, history, bounds
  <2>4. OneRun' /\ ClockBound' /\ MemoryExact'
    BY <1>0, <2>1, <2>2, <2>3 DEF OneRun, ClockBound, MemoryExact
  <2>5. FileExact' /\ BlownLatched' /\ LatchTime' /\ Carried'
    BY <2>1, <2>2, <2>3 DEF FileExact, BlownLatched, LatchTime, Carried
  <2>6. QED
    BY <2>4, <2>5
<1>6. ASSUME NEW r \in Runners, Persist(r) PROVE SerialInv'
  <2>1. pc[r] = "persist" /\ pc'[r] = "sync" /\ mem' = mem
    BY <1>6, MoveEffect
  <2>2. \A q \in Runners : q # r => pc'[q] = "idle"
    BY <1>6, <2>1, MoveEffect, OthersIdle DEF Alone, Still
  <2>3. /\ UNCHANGED <<fuse, docs, clock, started>>
        /\ lies' = lies + LieIncrement(mem[r].world)
        /\ state' = [file |-> "ok", score |-> mem[r].score, bit |-> mem[r].bit]
        /\ latchAt' = IF mem[r].bit /\ latchAt = MaxRuns THEN clock ELSE latchAt
    BY <1>6 DEF Persist, bounds
  <2>4. LieIncrement(mem[r].world) \in {0, 1}
    BY LieIncrementType
  <2>5. mem[r].score = lies' /\ (mem[r].bit <=> lies' >= Threshold)
    BY <2>1, <2>3 DEF MemoryExact
  <2>6. FileExact' /\ MemoryExact'
    BY <2>1, <2>2, <2>3, <2>5 DEF FileExact, MemoryExact
  <2>7. OneRun' /\ ClockBound'
    BY <1>0, <2>1, <2>2, <2>3 DEF OneRun, ClockBound
  <2>8. clock < MaxRuns
    BY <1>0, <2>1 DEF ClockBound
  <2>9. LatchTime' /\ BlownLatched'
    BY <1>0, <2>3, <2>4, <2>5, <2>8 DEF LatchTime, BlownLatched
  <2>10. Carried'
    <3>1. ASSUME NEW i \in DOMAIN docs
          PROVE  docs[i].ts < clock /\ (docs[i].ts >= latchAt' => docs[i].bit)
      <4>1. docs[i].ts \in Nat
        BY ReceiptTimes
      <4>2. QED
        BY <1>0, <2>3, <4>1 DEF Carried
    <3>2. QED
      BY <2>1, <2>2, <2>3, <3>1 DEF Carried
  <2>11. QED
    BY <2>6, <2>7, <2>9, <2>10
<1>7. ASSUME NEW r \in Runners, Sync(r) PROVE SerialInv'
  <2>1. /\ pc[r] = "sync"
        /\ \/ pc'[r] = "idle" /\ fuse' = fuse
           \/ /\ pc'[r] = "stamp"
              /\ fuse' = IF mem[r].bit THEN "blown" ELSE fuse
              /\ mem'[r].bit = mem[r].bit
    BY <1>7, SyncEffect
  <2>2. \A q \in Runners : q # r => pc'[q] = "idle"
    BY <1>7, <2>1, SyncEffect, OthersIdle DEF Alone, Still
  <2>3. UNCHANGED <<state, docs, clock, started, lies, latchAt>>
    BY <1>7 DEF Sync, history, bounds
  <2>4. MemoryExact' /\ BlownLatched'
    BY <2>1, <2>2, <2>3 DEF MemoryExact, BlownLatched
  <2>5. OneRun' /\ ClockBound'
    BY <1>0, <2>1, <2>2, <2>3 DEF OneRun, ClockBound
  <2>6. FileExact' /\ LatchTime' /\ Carried'
    BY <2>1, <2>2, <2>3 DEF FileExact, LatchTime, Carried
  <2>7. QED
    BY <2>4, <2>5, <2>6
<1>8. ASSUME NEW r \in Runners, Stamp(r) PROVE SerialInv'
  <2>1. pc[r] = "stamp" /\ pc'[r] = "seal" /\ mem'[r].ts = clock /\ mem'[r].bit = mem[r].bit
    BY <1>8, StampEffect
  <2>2. \A q \in Runners : q # r => pc'[q] = "idle"
    BY <1>8, <2>1, StampEffect, OthersIdle DEF Alone, Still
  <2>3. UNCHANGED <<fuse, state, docs, started, lies, latchAt>> /\ clock' = clock + 1
    BY <1>8 DEF Stamp, history, bounds
  <2>4. clock < started
    BY <2>1 DEF ClockBound
  <2>5. OneRun' /\ MemoryExact' /\ ClockBound'
    BY <1>0, <2>1, <2>2, <2>3, <2>4 DEF OneRun, MemoryExact, ClockBound
  <2>6. FileExact' /\ BlownLatched' /\ LatchTime'
    BY <1>0, <2>3 DEF FileExact, BlownLatched, LatchTime
  <2>7. mem'[r].ts >= latchAt => mem'[r].bit
    BY <1>0, <2>1, <2>4 DEF LatchTime, MemoryExact
  <2>8. Carried'
    <3>1. ASSUME NEW i \in DOMAIN docs PROVE docs[i].ts < clock + 1
      <4>1. docs[i].ts \in Nat
        BY ReceiptTimes
      <4>2. QED
        BY <1>0, <4>1 DEF Carried
    <3>2. QED
      BY <1>0, <2>1, <2>2, <2>3, <2>7, <3>1 DEF Carried
  <2>9. QED
    BY <2>5, <2>6, <2>8
<1>9. ASSUME NEW r \in Runners, Seal(r) PROVE SerialInv'
  <2>1. /\ pc[r] = "seal" /\ pc'[r] = "write"
        /\ mem'[r].ts = mem[r].ts /\ mem'[r].bit = mem[r].bit
    BY <1>9, SealEffect
  <2>2. \A q \in Runners : q # r => pc'[q] = "idle"
    BY <1>9, <2>1, SealEffect, OthersIdle DEF Alone, Still
  <2>3. UNCHANGED <<fuse, state, docs, clock, started, lies, latchAt>>
    BY <1>9 DEF Seal, history, bounds
  <2>4. OneRun' /\ MemoryExact' /\ ClockBound'
    BY <2>1, <2>2, <2>3 DEF OneRun, MemoryExact, ClockBound
  <2>5. FileExact' /\ BlownLatched' /\ LatchTime' /\ Carried'
    BY <2>1, <2>2, <2>3 DEF FileExact, BlownLatched, LatchTime, Carried
  <2>6. QED
    BY <2>4, <2>5
<1>10. ASSUME NEW r \in Runners, Write(r) PROVE SerialInv'
  <2>1. pc[r] = "write" /\ pc'[r] = "note" /\ mem' = mem
    BY <1>10, MoveEffect
  <2>2. \A q \in Runners : q # r => pc'[q] = "idle"
    BY <1>10, <2>1, MoveEffect, OthersIdle DEF Alone, Still
  <2>3. UNCHANGED <<fuse, state, clock, started, lies, latchAt>>
    BY <1>10 DEF Write, history, bounds
  <2>4. OneRun' /\ MemoryExact' /\ ClockBound'
    BY <2>1, <2>2, <2>3 DEF OneRun, MemoryExact, ClockBound
  <2>5. FileExact' /\ BlownLatched' /\ LatchTime'
    BY <2>3 DEF FileExact, BlownLatched, LatchTime
  <2>6. Carried'
    <3>1. ReceiptOf(mem[r]).ts = mem[r].ts /\ ReceiptOf(mem[r]).bit = mem[r].bit
      BY DEF ReceiptOf
    <3>2. ASSUME NEW i \in DOMAIN docs'
          PROVE  docs'[i].ts < clock /\ (docs'[i].ts >= latchAt => docs'[i].bit)
      <4>1. i \in DOMAIN docs \/ i = Len(docs) + 1
        BY <1>10, <3>2, WriteFacts
      <4>2. QED
        BY <1>10, <2>1, <3>1, <4>1, WriteFacts DEF Carried
    <3>3. QED
      BY <2>1, <2>2, <2>3, <3>2 DEF Carried
  <2>7. QED
    BY <2>4, <2>5, <2>6
<1>11. ASSUME NEW r \in Runners, Note(r) \/ Crash(r) PROVE SerialInv'
  <2>1. pc[r] # "idle" /\ pc'[r] = "idle"
    BY <1>11, MoveEffect
  <2>2. \A q \in Runners : pc'[q] = "idle"
    BY <1>11, <2>1, MoveEffect, OthersIdle DEF Alone, Still
  <2>3. UNCHANGED <<fuse, state, docs, clock, started, lies, latchAt>>
    BY <1>11 DEF Note, Crash, history, bounds
  <2>4. OneRun' /\ MemoryExact' /\ ClockBound'
    BY <2>2, <2>3 DEF OneRun, MemoryExact, ClockBound
  <2>5. FileExact' /\ BlownLatched' /\ LatchTime' /\ Carried'
    BY <2>2, <2>3 DEF FileExact, BlownLatched, LatchTime, Carried
  <2>6. QED
    BY <2>4, <2>5
<1>12. ASSUME FuseDies PROVE SerialInv'
  <2>1. fuse' = "dead" /\ UNCHANGED <<state, docs, clock, pc, mem, started, lies, latchAt>>
    BY <1>12 DEF FuseDies, Fuse!Die, history
  <2>2. QED
    BY <2>1 DEF OneRun, FileExact, MemoryExact, BlownLatched, ClockBound, LatchTime, Carried
<1>13. ASSUME UNCHANGED vars PROVE SerialInv'
  BY <1>13 DEF vars, OneRun, FileExact, MemoryExact, BlownLatched, ClockBound, LatchTime,
               Carried
<1>14. QED
  BY <1>1, <1>2, <1>3, <1>4, <1>5, <1>6, <1>7, <1>8, <1>9, <1>10, <1>11, <1>12, <1>13,
     NextCases

\* When the runs of a project do not overlap, the stored score is the exact
\* number of lies and the stored bit follows it, whatever was killed.
THEOREM SerialLatchIsExact == ~Overlap => (Spec => []LatchExact)
<1> SUFFICES ASSUME ~Overlap PROVE Spec => []LatchExact
  OBVIOUS
<1>1. SerialInv => LatchExact
  BY DEF SerialInv, FileExact, LatchExact, Latched
<1>2. TypeOK /\ SerialInv /\ [Next]_vars => SerialInv'
  BY SerialStep
<1>3. QED
  BY <1>1, <1>2, TypeInit, TypeStep, SerialInit, PTL DEF Spec

\* ... and every receipt stamped after the latch was stored carries the bit.
THEOREM SerialLatchCarries == ~Overlap => (Spec => []LatchCarries)
<1> SUFFICES ASSUME ~Overlap PROVE Spec => []LatchCarries
  OBVIOUS
<1>1. SerialInv => LatchCarries
  BY DEF SerialInv, Carried, LatchCarries
<1>2. TypeOK /\ SerialInv /\ [Next]_vars => SerialInv'
  BY SerialStep
<1>3. QED
  BY <1>1, <1>2, TypeInit, TypeStep, SerialInit, PTL DEF Spec

\* After a latched receipt nothing moves, neither on file nor under way.
Stopped ==
  /\ \A i, j \in DOMAIN docs : (i < j /\ docs[i].bit) => ~docs[j].moved
  /\ (\E i \in DOMAIN docs : docs[i].bit) =>
       \A r \in Runners : pc[r] \notin {"idle", "note"} => ~mem[r].moved

LEMMA StoppedInit == Init => Stopped
BY DEF Init, Stopped

LEMMA StoppedStep ==
  TypeOK /\ Marked /\ OneRun /\ Stopped /\ [Next]_vars => Stopped'
<1> SUFFICES ASSUME TypeOK, Marked, OneRun, Stopped, [Next]_vars PROVE Stopped'
  OBVIOUS
<1>1. ASSUME NEW r \in Runners, Write(r) PROVE Stopped'
  <2>1. pc[r] = "write" /\ pc'[r] = "note"
    BY <1>1, MoveEffect
  <2>2. \A q \in Runners : q # r => pc'[q] = "idle"
    BY <1>1, <2>1, MoveEffect, OthersIdle DEF Alone, Still
  <2>3. ReceiptOf(mem[r]).moved = mem[r].moved
    BY DEF ReceiptOf
  <2>4. ASSUME NEW i \in DOMAIN docs', NEW j \in DOMAIN docs', i < j, docs'[i].bit
        PROVE  ~docs'[j].moved
    <3>1. i \in DOMAIN docs /\ (j \in DOMAIN docs \/ j = Len(docs) + 1)
      BY <1>1, <2>4, WriteFacts
    <3>2. docs[i].bit
      BY <1>1, <2>4, <3>1, WriteFacts
    <3>3. QED
      BY <1>1, <2>1, <2>3, <2>4, <3>1, <3>2, WriteFacts DEF Stopped
  <2>5. QED
    BY <2>1, <2>2, <2>4 DEF Stopped
<1>2. CASE docs' = docs
  <2>1. SUFFICES ASSUME NEW i \in DOMAIN docs, docs[i].bit,
                        NEW r \in Runners, pc'[r] \notin {"idle", "note"}
                 PROVE  ~mem'[r].moved
    BY <1>2 DEF Stopped
  <2>2. fuse # "intact" /\ (pc[r] \notin {"idle", "note"} => ~mem[r].moved)
    BY <2>1 DEF Marked, Stopped
  <2>3. ASSUME Still(r) PROVE ~mem'[r].moved
    BY <2>1, <2>2, <2>3 DEF Still
  <2>4. UNCHANGED vars \/ FuseDies => Still(r)
    BY DEF vars, FuseDies, Still
  <2>5. ASSUME NEW q \in Runners, NEW c, NEW w, NEW j, Begin(q, c, w, j) PROVE ~mem'[r].moved
    BY <2>3, <2>5, BeginEffect DEF Alone
  <2>6. ASSUME NEW q \in Runners, NEW m \in BOOLEAN, Probe(q, m) PROVE ~mem'[r].moved
    BY <2>2, <2>3, <2>6, ProbeEffect DEF Alone
  <2>7. ASSUME NEW q \in Runners,
               \/ ReadState(q) \/ Gate(q) \/ Truncate(q) \/ Persist(q) \/ Sync(q) \/ Stamp(q)
               \/ Seal(q) \/ Write(q) \/ Note(q) \/ Crash(q)
        PROVE  ~mem'[r].moved
    <3>1. CASE q # r
      BY <2>3, <2>7, <3>1, ReadStateEffect, GateEffect, SyncEffect, StampEffect, SealEffect,
         MoveEffect DEF Alone
    <3>2. CASE q = r
      BY <2>1, <2>2, <2>7, <3>2, ReadStateEffect, GateEffect, SyncEffect, StampEffect,
         SealEffect, MoveEffect
    <3>3. QED
      BY <3>1, <3>2
  <2>8. QED
    BY <2>3, <2>4, <2>5, <2>6, <2>7, NextCases
<1>3. QED
  BY <1>1, <1>2, DocsStep

\* When the runs of a project do not overlap, no leg of a run moves after a
\* receipt with the latched bit.
THEOREM SerialApoptosisStops == ~Overlap => (Spec => []NoCurrentAfterApoptosis)
<1> SUFFICES ASSUME ~Overlap PROVE Spec => []NoCurrentAfterApoptosis
  OBVIOUS
<1>1. Stopped => NoCurrentAfterApoptosis
  BY DEF Stopped, NoCurrentAfterApoptosis
<1>2. TypeOK /\ SerialInv /\ [Next]_vars => SerialInv'
  BY SerialStep
<1>3. SerialInv => OneRun
  BY DEF SerialInv
<1>4. QED
  BY <1>1, <1>2, <1>3, TypeInit, TypeStep, SerialInit, MarkedInit, MarkedStep, StoppedInit,
     StoppedStep, PTL DEF Spec
-----------------------------------------------------------------------------
(* The kernel's verdicts, when the runs of a project do not overlap and    *)
(* the kernel scans as many receipts as there are runs.                    *)

\* A run that has still to write its receipt has been counted already.
Counted ==
  /\ Len(docs) <= started
  /\ \A r \in Runners : pc[r] \notin {"idle", "note"} => Len(docs) < started

\* The receipts are in the order of their stamps, and a stamped run is newer.
Ordered ==
  /\ \A i, j \in DOMAIN docs : i < j => docs[i].ts < docs[j].ts
  /\ \A r \in Runners : pc[r] \in {"seal", "write"} =>
       \A i \in DOMAIN docs : docs[i].ts < mem[r].ts

\* Of the first n receipts of ds, i is the newest that is not of condition c.
NewestPeer(ds, n, c, i) ==
  i \in 1..n /\ ds[i].cond # c /\ \A q \in 1..n : ds[q].cond # c => q <= i

\* The verdict on m (a receipt, or a run's memory) is K0's against receipt d.
Against(m, d) ==
  (m.k0 = "pass") <=> PairBurns(m.cond, m.world, m.spent, PhysicsPass(d.world), d.spent)

\* What is sealed was judged against the newest peer there was.
Judged ==
  /\ \A i, j \in DOMAIN docs :
       NewestPeer(docs, j - 1, docs[j].cond, i) => Against(docs[j], docs[i])
  /\ \A r \in Runners : pc[r] = "write" =>
       \A i \in DOMAIN docs :
         NewestPeer(docs, Len(docs), mem[r].cond, i) => Against(mem[r], docs[i])

JudgedInv == Counted /\ Ordered /\ Judged

LEMMA JudgedInit == Init => JudgedInv
BY DEF Init, JudgedInv, Counted, Ordered, Judged

LEMMA DocsDomain ==
  ASSUME TypeOK
  PROVE  DOMAIN docs = 1..Len(docs) /\ Len(docs) \in Nat
<1>1. docs \in Seq(Receipt)
  BY DEF TypeOK
<1>2. QED
  BY <1>1

\* If the kernel scans all receipts, the verdict it seals is that against the
\* newest peer.
LEMMA SealJudges ==
  ASSUME TypeOK, Len(docs) <= ScanLimit, NEW c, NEW w, NEW s,
         NEW i \in DOMAIN docs, NewestPeer(docs, Len(docs), c, i)
  PROVE  (SealK0(docs, last, c, w, s) = "pass")
           <=> PairBurns(c, w, s, PhysicsPass(docs[i].world), docs[i].spent)
<1>1. DOMAIN docs = 1..Len(docs) /\ Len(docs) \in Nat /\ ScanLimit \in Nat
  BY DocsDomain, LawAssumption
<1>2. Scanned(docs) = DOMAIN docs
  BY <1>1 DEF Scanned
<1> DEFINE S == Peers(docs, c)
<1>3. S \subseteq Nat /\ i \in S /\ \A j \in S : j <= i
  BY <1>1, <1>2 DEF Peers, NewestPeer
<1>4. Newest(S) = i
  <2>1. Newest(S) \in S /\ \A j \in S : j <= Newest(S)
    BY <1>3 DEF Newest
  <2>2. QED
    BY <1>3, <2>1
<1>5. SealK0(docs, last, c, w, s) =
        IF PairBurns(c, w, s, PhysicsPass(docs[i].world), docs[i].spent) THEN "pass" ELSE "fail"
  BY <1>3, <1>4 DEF SealK0
<1>6. QED
  BY <1>5

\* A run comes to be stamped or sealed by these two steps only.
LEMMA StampedStep ==
  ASSUME TypeOK, [Next]_vars, NEW r \in Runners, pc'[r] \in {"seal", "write"}
  PROVE  Still(r) \/ Stamp(r) \/ Seal(r)
<1>1. UNCHANGED vars \/ FuseDies => Still(r)
  BY DEF vars, FuseDies, Still
<1>2. ASSUME NEW q \in Runners, NEW c, NEW w, NEW j, Begin(q, c, w, j) PROVE Still(r)
  BY <1>2, BeginEffect DEF Alone
<1>3. ASSUME NEW q \in Runners, NEW m \in BOOLEAN, Probe(q, m) PROVE Still(r)
  BY <1>3, ProbeEffect DEF Alone
<1>4. ASSUME NEW q \in Runners,
             \/ ReadState(q) \/ Gate(q) \/ Truncate(q) \/ Persist(q) \/ Sync(q) \/ Stamp(q)
             \/ Seal(q) \/ Write(q) \/ Note(q) \/ Crash(q)
      PROVE  Still(r) \/ Stamp(r) \/ Seal(r)
  <2>1. CASE q # r
    BY <1>4, <2>1, ReadStateEffect, GateEffect, SyncEffect, StampEffect, SealEffect,
       MoveEffect DEF Alone
  <2>2. CASE q = r
    BY <1>4, <2>2, ReadStateEffect, GateEffect, SyncEffect, MoveEffect
  <2>3. QED
    BY <2>1, <2>2
<1>5. QED
  BY <1>1, <1>2, <1>3, <1>4, NextCases

\* Only Begin takes a run out of the idle state, and it counts it.
LEMMA StartedStep ==
  ASSUME TypeOK, [Next]_vars
  PROVE  \/ started' = started + 1 /\ docs' = docs
         \/ /\ started' = started
            /\ \A r \in Runners : pc'[r] \notin {"idle", "note"} => pc[r] \notin {"idle", "note"}
         \/ \E r \in Runners : Write(r)
<1>1. UNCHANGED vars \/ FuseDies => started' = started /\ pc' = pc
  BY DEF vars, FuseDies
<1>2. ASSUME NEW q \in Runners, NEW c, NEW w, NEW j, Begin(q, c, w, j)
      PROVE  started' = started + 1 /\ docs' = docs
  BY <1>2 DEF Begin
<1>3. ASSUME NEW q \in Runners, NEW m \in BOOLEAN, Probe(q, m), NEW r \in Runners,
             pc'[r] \notin {"idle", "note"}
      PROVE  pc[r] \notin {"idle", "note"}
  BY <1>3, ProbeEffect DEF Alone, Still
<1>4. ASSUME NEW q \in Runners,
             \/ ReadState(q) \/ Gate(q) \/ Truncate(q) \/ Persist(q) \/ Sync(q) \/ Stamp(q)
             \/ Seal(q) \/ Note(q) \/ Crash(q),
             NEW r \in Runners, pc'[r] \notin {"idle", "note"}
      PROVE  pc[r] \notin {"idle", "note"}
  BY <1>4, ReadStateEffect, GateEffect, SyncEffect, StampEffect, SealEffect, MoveEffect
     DEF Alone, Still
<1>5. ASSUME NEW q \in Runners, NEW m \in BOOLEAN, Probe(q, m) PROVE started' = started
  BY <1>5 DEF Probe, bounds
<1>6. ASSUME NEW q \in Runners,
             \/ ReadState(q) \/ Gate(q) \/ Truncate(q) \/ Persist(q) \/ Sync(q) \/ Stamp(q)
             \/ Seal(q) \/ Note(q) \/ Crash(q)
      PROVE  started' = started
  BY <1>6 DEF ReadState, Gate, Truncate, Persist, Sync, Stamp, Seal, Note, Crash, bounds
<1>7. QED
  BY <1>1, <1>2, <1>3, <1>4, <1>5, <1>6, NextCases

\* Seal judges the run against its newest peer.
LEMMA SealStep ==
  ASSUME TypeOK, NEW r \in Runners, Seal(r), Len(docs) <= ScanLimit,
         NEW i \in DOMAIN docs, NewestPeer(docs, Len(docs), mem'[r].cond, i)
  PROVE  Against(mem'[r], docs[i])
<1>1. mem[r] \in Memory
  BY DEF TypeOK
<1> DEFINE k == SealK0(docs, last, mem[r].cond, mem[r].world, mem[r].spent)
<1>2. mem'[r] = [mem[r] EXCEPT !.k0 = k]
  BY DEF Seal, TypeOK
<1> HIDE DEF k
<1>3. /\ mem'[r].k0 = k /\ mem'[r].cond = mem[r].cond
      /\ mem'[r].world = mem[r].world /\ mem'[r].spent = mem[r].spent
  BY <1>1, <1>2 DEF Memory
<1>4. (k = "pass") <=> PairBurns(mem[r].cond, mem[r].world, mem[r].spent,
                                 PhysicsPass(docs[i].world), docs[i].spent)
  BY <1>3, SealJudges DEF k
<1>5. QED
  BY <1>3, <1>4 DEF Against

LEMMA JudgedStep ==
  ASSUME ~Overlap, MaxRuns <= ScanLimit, TypeOK, SerialInv, JudgedInv, [Next]_vars
  PROVE  JudgedInv'
<1> USE DEF JudgedInv
<1>0. /\ started \in Nat /\ started <= ScanLimit
      /\ DOMAIN docs = 1..Len(docs) /\ Len(docs) \in Nat
  BY DocsDomain, LiesNat, LawAssumption
<1>1. ASSUME NEW r \in Runners, Write(r) PROVE JudgedInv'
  <2>1. pc[r] = "write" /\ pc'[r] = "note"
    BY <1>1, MoveEffect
  <2>2. \A q \in Runners : q # r => pc'[q] = "idle"
    BY <1>1, <2>1, MoveEffect, OthersIdle DEF Alone, Still, SerialInv
  <2>3. \A q \in Runners : pc'[q] \in {"idle", "note"}
    BY <2>1, <2>2
  <2>4. Counted'
    <3>1. docs \in Seq(Receipt) /\ docs' = Append(docs, ReceiptOf(mem[r]))
      BY <1>1 DEF TypeOK, Write
    <3>2. Len(docs') = Len(docs) + 1 /\ started' = started
      BY <1>1, <3>1 DEF Write, bounds
    <3>3. Len(docs) < started
      BY <2>1 DEF Counted
    <3>4. QED
      BY <1>0, <2>3, <3>2, <3>3 DEF Counted
  <2>5. Ordered'
    <3>1. ReceiptOf(mem[r]).ts = mem[r].ts
      BY DEF ReceiptOf
    <3>2. ASSUME NEW i \in DOMAIN docs', NEW j \in DOMAIN docs', i < j
          PROVE  docs'[i].ts < docs'[j].ts
      <4>1. i \in DOMAIN docs /\ (j \in DOMAIN docs \/ j = Len(docs) + 1)
        BY <1>1, <3>2, WriteFacts
      <4>2. QED
        BY <1>1, <2>1, <3>1, <3>2, <4>1, WriteFacts DEF Ordered
    <3>3. QED
      BY <2>3, <3>2 DEF Ordered
  <2>6. Judged'
    <3>1. ASSUME NEW i \in DOMAIN docs', NEW j \in DOMAIN docs',
                 NewestPeer(docs', j - 1, docs'[j].cond, i)
          PROVE  Against(docs'[j], docs'[i])
      <4>1. i \in DOMAIN docs /\ (j \in DOMAIN docs \/ j = Len(docs) + 1)
        BY <1>1, <3>1, WriteFacts DEF NewestPeer
      <4>2. \A q \in 1..(j - 1) : docs'[q] = docs[q]
        BY <1>1, <4>1, WriteFacts
      <4>3. NewestPeer(docs, j - 1, docs'[j].cond, i)
        BY <3>1, <4>2 DEF NewestPeer
      <4>4. CASE j \in DOMAIN docs
        BY <1>1, <4>1, <4>3, <4>4, WriteFacts DEF Judged
      <4>5. CASE j = Len(docs) + 1
        <5>1. docs'[j] = ReceiptOf(mem[r]) /\ docs'[i] = docs[i] /\ j - 1 = Len(docs)
          BY <1>0, <1>1, <4>1, <4>5, WriteFacts
        <5>2. NewestPeer(docs, Len(docs), mem[r].cond, i)
          BY <4>3, <5>1 DEF ReceiptOf
        <5>3. Against(mem[r], docs[i])
          BY <2>1, <4>1, <5>2 DEF Judged
        <5>4. QED
          BY <5>1, <5>3 DEF Against, ReceiptOf
      <4>6. QED
        BY <4>1, <4>4, <4>5
    <3>2. QED
      BY <2>3, <3>1 DEF Judged
  <2>7. QED
    BY <2>4, <2>5, <2>6
<1>2. ASSUME docs' = docs, ~\E r \in Runners : Write(r) PROVE JudgedInv'
  <2>1. Counted'
    BY <1>0, <1>2, StartedStep DEF Counted
  <2>2. Ordered'
    <3>1. ASSUME NEW r \in Runners, pc'[r] \in {"seal", "write"}, NEW i \in DOMAIN docs
          PROVE  docs[i].ts < mem'[r].ts
      <4>1. CASE Still(r)
        BY <3>1, <4>1 DEF Still, Ordered
      <4>2. CASE Stamp(r)
        BY <4>2, StampEffect DEF SerialInv, Carried
      <4>3. CASE Seal(r)
        BY <4>3, SealEffect DEF Ordered
      <4>4. QED
        BY <3>1, <4>1, <4>2, <4>3, StampedStep
    <3>2. QED
      BY <1>2, <3>1 DEF Ordered
  <2>3. Judged'
    <3>1. ASSUME NEW r \in Runners, pc'[r] = "write", NEW i \in DOMAIN docs,
                 NewestPeer(docs, Len(docs), mem'[r].cond, i)
          PROVE  Against(mem'[r], docs[i])
      <4>1. CASE Still(r)
        BY <3>1, <4>1 DEF Still, Judged
      <4>2. CASE Stamp(r)
        BY <3>1, <4>2, StampEffect
      <4>3. CASE Seal(r)
        <5>1. Len(docs) <= ScanLimit
          BY <1>0, LawAssumption DEF Counted
        <5>2. QED
          BY <3>1, <4>3, <5>1, SealStep
      <4>4. QED
        BY <3>1, <4>1, <4>2, <4>3, StampedStep
    <3>2. QED
      BY <1>2, <3>1 DEF Judged
  <2>4. QED
    BY <2>1, <2>2, <2>3
<1>3. QED
  BY <1>1, <1>2, DocsStep

\* Of the newest safe and the newest hostile receipt, the earlier is the
\* newest peer of the later.
LEMMA LatestIsPeer ==
  ASSUME TypeOK, Ordered, NEW i \in DOMAIN docs, NEW j \in DOMAIN docs, i < j,
         docs[i].cond # docs[j].cond, Latest(docs, docs[i])
  PROVE  NewestPeer(docs, j - 1, docs[j].cond, i)
<1>1. DOMAIN docs = 1..Len(docs) /\ Len(docs) \in Nat
  BY DocsDomain
<1>2. \A q \in DOMAIN docs : docs[q].ts \in Nat /\ docs[q].cond \in Conditions
  BY ReceiptTimes DEF Receipt
<1>3. ASSUME NEW q \in 1..(j - 1), docs[q].cond # docs[j].cond PROVE q <= i
  <2>1. q \in DOMAIN docs
    BY <1>1
  <2>2. docs[q].cond = docs[i].cond
    BY <1>2, <1>3, <2>1 DEF Conditions
  <2>3. docs[q].ts <= docs[i].ts
    BY <2>1, <2>2 DEF Latest
  <2>4. ~(i < q)
    BY <1>2, <2>1, <2>3 DEF Ordered
  <2>5. QED
    BY <1>1, <2>4
<1>4. QED
  BY <1>1, <1>3 DEF NewestPeer

\* When the runs of a project do not overlap and there are no more of them
\* than the kernel scans, the pair the law takes was judged as that pair: the
\* later receipt carries the verdict K0 gives on the two.
THEOREM SerialPairIsJudged ==
  ~Overlap /\ MaxRuns <= ScanLimit => (Spec => []PairJudged)
<1> SUFFICES ASSUME ~Overlap, MaxRuns <= ScanLimit PROVE Spec => []PairJudged
  OBVIOUS
<1>1. ASSUME TypeOK, JudgedInv, NEW i \in DOMAIN docs, NEW j \in DOMAIN docs,
             docs[i].cond = "safe", docs[j].cond = "hostile",
             Latest(docs, docs[i]), Latest(docs, docs[j])
      PROVE  (IF docs[i].ts < docs[j].ts THEN docs[j].k0 ELSE docs[i].k0) = "pass"
               <=> DualBurns(docs[i].spent, docs[j].spent,
                             PhysicsPass(docs[i].world), PhysicsPass(docs[j].world))
  <2>1. i \in Nat /\ j \in Nat /\ i # j
    BY <1>1, DocsDomain
  <2>2. docs[i].ts \in Nat /\ docs[j].ts \in Nat
    BY <1>1, ReceiptTimes
  <2>3. CASE i < j
    <3>1. docs[i].ts < docs[j].ts
      BY <1>1, <2>3 DEF JudgedInv, Ordered
    <3>2. Against(docs[j], docs[i])
      BY <1>1, <2>3, LatestIsPeer DEF JudgedInv, Judged
    <3>3. QED
      BY <1>1, <3>1, <3>2 DEF Against, PairBurns
  <2>4. CASE j < i
    <3>1. ~(docs[i].ts < docs[j].ts)
      BY <1>1, <2>2, <2>4 DEF JudgedInv, Ordered
    <3>2. Against(docs[i], docs[j])
      BY <1>1, <2>4, LatestIsPeer DEF JudgedInv, Judged
    <3>3. QED
      BY <1>1, <3>1, <3>2 DEF Against, PairBurns
  <2>5. QED
    BY <2>1, <2>3, <2>4
<1>2. TypeOK /\ JudgedInv => PairJudged
  BY <1>1 DEF PairJudged
<1>3. TypeOK /\ SerialInv /\ [Next]_vars => SerialInv'
  BY SerialStep
<1>4. TypeOK /\ SerialInv /\ JudgedInv /\ [Next]_vars => JudgedInv'
  BY JudgedStep
<1>5. QED
  BY <1>2, <1>3, <1>4, TypeInit, TypeStep, SerialInit, JudgedInit, PTL DEF Spec
=============================================================================
