-------------------------- MODULE SiliconFuseProofs --------------------------
(***************************************************************************)
(* Proofs about SiliconFuse, for any callers, bodies and saturation count. *)
(* Type correctness and the absence of false TAMPER alarms hold however    *)
(* the callers interleave; the latch and the bind hold when calls do not   *)
(* overlap (Overlap = FALSE), crashes at every file access included.       *)
(***************************************************************************)
EXTENDS SiliconFuse, TLAPS

-----------------------------------------------------------------------------
(* Scripts: what is left of one is a script, and the two operations that   *)
(* rely on the one before them always have it before them.                 *)

\* "unlink" comes right after "intact", "confirm" right after "blow".
Planned(s) ==
  \A i \in 1..(Len(s) - 1) : /\ s[i + 1] = "unlink" => s[i] = "intact"
                             /\ s[i + 1] = "confirm" => s[i] = "blow"

LEMMA TailFacts ==
  ASSUME NEW S, NEW s \in Seq(S), s # <<>>
  PROVE  /\ Head(s) \in S
         /\ Head(s) = s[1]
         /\ Tail(s) \in Seq(S)
         /\ Len(Tail(s)) = Len(s) - 1
         /\ \A i \in 1..Len(Tail(s)) : Tail(s)[i] = s[i + 1]
OBVIOUS

\* Removing the head of a planned script leaves a planned script, and the new
\* head, where it relies on an operation, follows that operation.
LEMMA TailPlanned ==
  ASSUME NEW s \in Seq(Ops), s # <<>>, Planned(s)
  PROVE  /\ Planned(Tail(s))
         /\ Tail(s) # <<>> => /\ Head(Tail(s)) = "unlink" => Head(s) = "intact"
                              /\ Head(Tail(s)) = "confirm" => Head(s) = "blow"
<1>1. Tail(s) \in Seq(Ops) /\ Len(Tail(s)) = Len(s) - 1 /\ Head(s) = s[1]
  BY TailFacts
<1>2. \A i \in 1..Len(Tail(s)) : Tail(s)[i] = s[i + 1]
  BY TailFacts
<1>3. Len(s) \in Nat
  OBVIOUS
<1>4. Planned(Tail(s))
  BY <1>1, <1>2, <1>3 DEF Planned
<1>5. ASSUME Tail(s) # <<>>
      PROVE  /\ Head(Tail(s)) = "unlink" => Head(s) = "intact"
             /\ Head(Tail(s)) = "confirm" => Head(s) = "blow"
  <2>1. Head(Tail(s)) = Tail(s)[1] /\ Len(Tail(s)) > 0
    BY <1>5, <1>1
  <2>2. Head(Tail(s)) = s[2] /\ 1 \in 1..(Len(s) - 1)
    BY <2>1, <1>1, <1>2, <1>3
  <2>3. QED
    BY <2>2, <1>1 DEF Planned
<1>6. QED
  BY <1>4, <1>5

\* Every script is a planned, nonempty sequence of operations that starts
\* with none of the two.
LEMMA ScriptFacts ==
  ASSUME NEW s \in {Script[x] : x \in DOMAIN Script} \cup {RebindScript}
  PROVE  /\ s \in Seq(Ops) /\ s # <<>>
         /\ Planned(s)
         /\ Head(s) \notin {"unlink", "confirm"}
<1>1. \/ s = <<"ensure", "status">>
      \/ s = <<"status">>
      \/ s = <<"blow", "confirm">>
      \/ s = <<"ensure", "status", "bind", "status">>
      \/ s = <<"ensure", "status", "gate">>
      \/ s = <<"ensure", "status", "intact">>
      \/ s = RebindScript
  BY DEF Script
<1>2. CASE s = <<"ensure", "status">>
  BY <1>2 DEF Ops, Planned
<1>3. CASE s = <<"status">>
  BY <1>3 DEF Ops, Planned
<1>4. CASE s = <<"blow", "confirm">>
  BY <1>4 DEF Ops, Planned
<1>5. CASE s = <<"ensure", "status", "bind", "status">>
  BY <1>5 DEF Ops, Planned
<1>6. CASE s = <<"ensure", "status", "gate">>
  BY <1>6 DEF Ops, Planned
<1>7. CASE s = <<"ensure", "status", "intact">>
  BY <1>7 DEF Ops, Planned
<1>8. CASE s = RebindScript
  BY <1>8 DEF RebindScript, Ops, Planned
<1>9. QED
  BY <1>1, <1>2, <1>3, <1>4, <1>5, <1>6, <1>7, <1>8

-----------------------------------------------------------------------------
(* Type correctness.                                                       *)

Local == <<todo, pc, buf, want, result>>

TypeLocal ==
  /\ todo \in [Callers -> Seq(Ops)]
  /\ pc \in [Callers -> Labels]
  /\ buf \in [Callers -> Blob]
  /\ want \in [Callers -> Bodies \cup {Unbound}]
  /\ result \in [Callers -> Results]

TypeDisk == file \in {"absent", "torn", "full"} /\ blob \in Blob

TypeHistory == everBlown \in BOOLEAN /\ epochBody \in Bodies \cup {Unbound}

LEMMA BlankBlob == Blank \in Blob /\ Coherent(Blank) /\ ~Blank.blown /\ Blank.body = Unbound
  BY FuseAssumption DEF Blank, Blob, Coherent

\* Blowing sets the bit and leaves a positive count, saturated or not.
LEMMA BlownBlob ==
  ASSUME NEW b \in Blob
  PROVE  /\ Blown(b) \in Blob
         /\ Coherent(Blown(b))
         /\ Blown(b).blown
         /\ Blown(b).blow_count > 0
         /\ Blown(b).body = b.body
<1> DEFINE n == IF b.blow_count < MaxCount THEN b.blow_count + 1 ELSE b.blow_count
<1>1. b.blow_count \in 0..MaxCount /\ b.body \in Bodies \cup {Unbound}
  BY DEF Blob
<1>2. n \in 0..MaxCount /\ n > 0
  BY <1>1, FuseAssumption
<1>3. Blown(b) = [blown |-> TRUE, blow_count |-> n, body |-> b.body]
  BY DEF Blown, Blob
<1> HIDE DEF n
<1>4. /\ Blown(b).blown /\ Blown(b).blow_count = n /\ Blown(b).body = b.body
      /\ Blown(b) \in Blob
  BY <1>1, <1>2, <1>3 DEF Blob
<1>5. QED
  BY <1>2, <1>4 DEF Coherent

LEMMA GotoType ==
  ASSUME TypeLocal, NEW c \in Callers, NEW l \in Labels, NEW b \in Blob, Goto(c, l, b)
  PROVE  TypeLocal'
  BY DEF TypeLocal, Goto

LEMMA ReturnType ==
  ASSUME TypeLocal, NEW c \in Callers, NEW r \in Results, Return(c, r)
  PROVE  TypeLocal'
<1>1. <<>> \in Seq(Ops)
  OBVIOUS
<1>2. QED
  BY <1>1, BlankBlob DEF TypeLocal, Return, Labels

LEMMA ProceedType ==
  ASSUME TypeLocal, NEW c \in Callers, ~Idle(c), Proceed(c)
  PROVE  TypeLocal'
<1>1. CASE Tail(todo[c]) = <<>>
  BY <1>1, ReturnType DEF Proceed, Results
<1>2. CASE Tail(todo[c]) # <<>>
  <2>1. Tail(todo[c]) \in Seq(Ops)
    BY TailFacts DEF TypeLocal, Idle
  <2>2. QED
    BY <1>2, <2>1, BlankBlob DEF TypeLocal, Proceed, Labels
<1>3. QED
  BY <1>1, <1>2

\* What a caller does to the disk, to its memory and to the history keeps
\* their types.
LEMMA StepType ==
  ASSUME TypeOK, NEW c \in Callers, Step(c)
  PROVE  TypeOK'
<1> USE DEF TypeOK, TypeLocal, TypeDisk, TypeHistory
<1>1. TypeLocal /\ TypeDisk /\ TypeHistory
  OBVIOUS
<1>2. CASE OpenAbsent(c)
  <2>1. TypeLocal'
    BY <1>1, <1>2, BlankBlob, GotoType DEF OpenAbsent, Labels
  <2>2. QED
    BY <1>2, <2>1 DEF OpenAbsent, disk, history
<1>3. CASE OpenPresent(c)
  <2>1. TypeLocal'
    BY <1>1, <1>3, GotoType DEF OpenPresent, Labels
  <2>2. QED
    BY <1>3, <2>1 DEF OpenPresent, disk, history
<1>4. CASE Check(c)
  <2>1. TypeLocal'
    BY <1>1, <1>4, GotoType, ReturnType, ProceedType DEF Check, At, Labels, Results
  <2>2. QED
    BY <1>4, <2>1 DEF Check, disk, history
<1>5. CASE ReadFails(c)
  <2>1. TypeLocal'
    BY <1>1, <1>5, ReturnType DEF ReadFails, Results
  <2>2. QED
    BY <1>5, <2>1 DEF ReadFails, disk, history
<1>6. CASE ReadStatus(c)
  <2>1. TypeLocal'
    BY <1>1, <1>6, ReturnType, ProceedType DEF ReadStatus, At, Results
  <2>2. QED
    BY <1>6, <2>1 DEF ReadStatus, disk, history
<1>7. CASE ReadBlow(c)
  <2>1. TypeLocal'
    BY <1>1, <1>7, BlownBlob, GotoType DEF ReadBlow, Labels
  <2>2. QED
    BY <1>7, <2>1 DEF ReadBlow, disk, history
<1>8. CASE ReadBind(c)
  <2>1. [blob EXCEPT !.body = want[c]] \in Blob
    BY DEF Blob
  <2>2. TypeLocal'
    BY <1>1, <1>8, <2>1, GotoType, ProceedType DEF ReadBind, At, Labels
  <2>3. QED
    BY <1>8, <2>2 DEF ReadBind, disk, history
<1>9. CASE ReadBound(c)
  <2>1. CASE Op(c) = "bind"
    BY <1>9, <2>1, ScriptFacts DEF ReadBound, Labels, disk, history
  <2>2. CASE Op(c) # "bind"
    <3>1. TypeLocal'
      BY <1>1, <1>9, <2>2, ReturnType DEF ReadBound, Results
    <3>2. QED
      BY <1>9, <3>1 DEF ReadBound, disk, history
  <2>3. QED
    BY <2>1, <2>2
<1>10. CASE Unlink(c)
  <2>1. TypeLocal'
    BY <1>1, <1>10, ProceedType DEF Unlink, At
  <2>2. QED
    BY <1>10, <2>1, BlankBlob DEF Unlink
<1>11. CASE Truncate(c)
  <2>1. TypeLocal'
    BY <1>1, <1>11, GotoType DEF Truncate, Labels
  <2>2. QED
    BY <1>11, <2>1, BlankBlob DEF Truncate, history
<1>12. CASE Flush(c)
  <2>1. TypeLocal'
    BY <1>1, <1>12, ProceedType DEF Flush, At
  <2>2. QED
    BY <1>12, <2>1 DEF Flush, WriteOut, Blob
<1>13. CASE CreateFlush(c)
  <2>1. TypeLocal'
    BY <1>1, <1>13, GotoType, ProceedType DEF CreateFlush, At, Labels
  <2>2. QED
    BY <1>13, <2>1 DEF CreateFlush, WriteOut, Blob
<1>14. QED
  BY <1>2, <1>3, <1>4, <1>5, <1>6, <1>7, <1>8, <1>9, <1>10, <1>11, <1>12, <1>13 DEF Step, Read

\* The fuse file, the memory of every caller and the history variables keep
\* their types; in particular blow_count never leaves 0..MaxCount, however
\* often the fuse is blown (ha_silicon_fuse.c:282).
THEOREM TypeCorrect == Spec => []TypeOK
<1>1. Init => TypeOK
  <2> SUFFICES ASSUME Init PROVE TypeOK
    OBVIOUS
  <2>1. todo \in [Callers -> Seq(Ops)]
    <3>1. <<>> \in Seq(Ops)
      OBVIOUS
    <3>2. QED
      BY <3>1 DEF Init
  <2>2. pc \in [Callers -> Labels] /\ result \in [Callers -> Results]
    BY DEF Init, Labels, Results
  <2>3. /\ buf \in [Callers -> Blob] /\ blob \in Blob
        /\ want \in [Callers -> Bodies \cup {Unbound}] /\ epochBody \in Bodies \cup {Unbound}
    BY BlankBlob DEF Init
  <2>4. file \in {"absent", "torn", "full"} /\ everBlown \in BOOLEAN
    BY DEF Init
  <2>5. QED
    BY <2>1, <2>2, <2>3, <2>4 DEF TypeOK
<1>2. TypeOK /\ [Next]_vars => TypeOK'
  <2> SUFFICES ASSUME TypeOK, [Next]_vars PROVE TypeOK'
    OBVIOUS
  <2>1. ASSUME NEW c \in Callers, NEW s \in Calls, NEW d \in Bodies \cup {Unbound},
               Start(c, s, d)
        PROVE  TypeOK'
    <3>1. Script[s] \in Seq(Ops)
      BY ScriptFacts, CallsAssumption
    <3>2. QED
      BY <2>1, <3>1 DEF Start, TypeOK, Labels, disk, history
  <2>2. ASSUME NEW c \in Callers, Step(c) PROVE TypeOK'
    BY <2>2, StepType
  <2>3. ASSUME NEW c \in Callers, Crash(c) PROVE TypeOK'
    <3>1. TypeLocal'
      BY <2>3, ReturnType DEF Crash, TypeOK, TypeLocal, Results
    <3>2. QED
      BY <2>3, <3>1 DEF Crash, TypeOK, TypeLocal, disk, history
  <2>4. CASE HandClear
    BY <2>4 DEF HandClear, TypeOK, Blob, history
  <2>5. CASE UNCHANGED vars
    BY <2>5 DEF vars, TypeOK
  <2>6. QED
    BY <2>1, <2>2, <2>3, <2>4, <2>5 DEF Next
<1>3. QED
  BY <1>1, <1>2, PTL DEF Spec

-----------------------------------------------------------------------------
(* No false TAMPER alarm, whatever the interleaving.                       *)

\* Nothing a caller holds in memory would be rejected by ha_fuse_read.
BufCoherent == \A c \in Callers : Coherent(buf[c])

LEMMA BufCoherentStep ==
  ASSUME TypeOK, BufCoherent, [Next]_vars
  PROVE  BufCoherent'
<1> SUFFICES ASSUME NEW d \in Callers PROVE Coherent(buf'[d])
  BY DEF BufCoherent, Coherent
<1>1. Coherent(buf[d]) /\ Coherent(Blank)
  BY BlankBlob DEF BufCoherent
<1>2. ASSUME NEW c \in Callers, Step(c) PROVE Coherent(buf'[d])
  <2>1. CASE ReadBlow(c)
    <3>1. Coherent(Blown(blob)) /\ buf' = [buf EXCEPT ![c] = Blown(blob)]
      BY <2>1, BlownBlob DEF ReadBlow, Goto, TypeOK
    <3>2. QED
      BY <3>1, <1>1 DEF TypeOK
  <2>2. CASE ReadBind(c)
    <3>1. CASE blob.body = want[c]
      BY <2>2, <3>1, <1>1 DEF ReadBind, Proceed, Return, TypeOK
    <3>2. CASE blob.body # want[c]
      <4>1. Coherent([blob EXCEPT !.body = want[c]])
        BY <2>2 DEF ReadBind, Readable, Coherent, TypeOK, Blob
      <4>2. buf' = [buf EXCEPT ![c] = [blob EXCEPT !.body = want[c]]]
        BY <2>2, <3>2 DEF ReadBind, Goto
      <4>3. QED
        BY <4>1, <4>2, <1>1 DEF TypeOK
    <3>3. QED
      BY <3>1, <3>2
  <2>3. CASE OpenAbsent(c)
    BY <2>3, <1>1 DEF OpenAbsent, Goto, TypeOK
  <2>4. CASE OpenPresent(c)
    BY <2>4, <1>1 DEF OpenPresent, Goto, TypeOK
  <2>5. CASE Check(c)
    BY <2>5, <1>1 DEF Check, Goto, Proceed, Return, TypeOK
  <2>6. CASE ReadFails(c)
    BY <2>6, <1>1 DEF ReadFails, Return, TypeOK
  <2>7. CASE ReadStatus(c)
    BY <2>7, <1>1 DEF ReadStatus, Proceed, Return, TypeOK
  <2>8. CASE ReadBound(c)
    BY <2>8, <1>1 DEF ReadBound, Return, TypeOK
  <2>9. CASE Unlink(c)
    BY <2>9, <1>1 DEF Unlink, Proceed, Return, TypeOK
  <2>10. CASE Truncate(c)
    BY <2>10, <1>1 DEF Truncate, Goto, TypeOK
  <2>11. CASE Flush(c)
    BY <2>11, <1>1 DEF Flush, Proceed, Return, TypeOK
  <2>12. CASE CreateFlush(c)
    BY <2>12, <1>1 DEF CreateFlush, Goto, Proceed, Return, TypeOK
  <2>13. QED
    BY <1>2, <2>1, <2>2, <2>3, <2>4, <2>5, <2>6, <2>7, <2>8, <2>9, <2>10, <2>11, <2>12 DEF Step, Read
<1>3. ASSUME NEW c \in Callers, Crash(c) PROVE Coherent(buf'[d])
  BY <1>3, <1>1 DEF Crash, Return, TypeOK
<1>4. CASE HandClear
  BY <1>4, <1>1 DEF HandClear
<1>5. CASE UNCHANGED vars
  BY <1>5, <1>1 DEF vars
<1>6. ASSUME NEW c \in Callers, NEW s \in Calls, NEW d0 \in Bodies \cup {Unbound},
             Start(c, s, d0)
      PROVE  Coherent(buf'[d])
  BY <1>6, <1>1 DEF Start
<1>7. QED
  BY <1>2, <1>3, <1>4, <1>5, <1>6 DEF Next

\* No interleaving and no crash of the fuse's own operations produces a blob
\* that ha_fuse_read reports as TAMPER: every blob a caller carries to the
\* disk has its blown bit set when its count is positive.
THEOREM NoFalseTamper == Spec => OnlyHandsTamper
<1>1. Init => BufCoherent
  BY BlankBlob DEF Init, BufCoherent
<1>2. TypeOK /\ BufCoherent /\ [Next]_vars
        => [(Coherent(blob) /\ ~Coherent(blob')) => HandClear]_vars
  <2> SUFFICES ASSUME TypeOK, BufCoherent, Next, Coherent(blob), ~HandClear
               PROVE  Coherent(blob')
    BY DEF Coherent
  <2>1. ASSUME NEW c \in Callers, Step(c) PROVE Coherent(blob')
    <3>1. CASE Unlink(c) \/ Truncate(c)
      BY <3>1, BlankBlob DEF Unlink, Truncate
    <3>2. CASE Flush(c) \/ CreateFlush(c)
      BY <3>2 DEF Flush, CreateFlush, WriteOut, BufCoherent
    <3>3. CASE UNCHANGED disk
      BY <3>3 DEF disk
    <3>4. QED
      BY <2>1, <3>1, <3>2, <3>3
         DEF Step, Read, OpenAbsent, OpenPresent, Check, ReadFails, ReadStatus, ReadBlow, ReadBind,
             ReadBound
  <2>2. QED
    BY <2>1 DEF Next, Start, Crash, disk
<1>3. TypeOK /\ BufCoherent /\ [Next]_vars => BufCoherent'
  BY BufCoherentStep
<1>4. QED
  BY <1>1, <1>2, <1>3, TypeCorrect, PTL DEF Spec, OnlyHandsTamper

-----------------------------------------------------------------------------
(* Calls that do not overlap: the inductive invariant.                     *)

Alone == \A c, d \in Callers : ~Idle(c) /\ ~Idle(d) => c = d

\* What a caller may write: a fuse that was blown stays blown, a body that
\* was bound stays bound.
Carries(b) == /\ everBlown => b.blown
              /\ epochBody # Unbound => b.body = epochBody

DiskInv ==
  /\ file = "absent" => ~everBlown /\ epochBody = Unbound /\ blob = Blank
  /\ file = "full" => /\ everBlown => blob.blown \/ blob.blow_count > 0
                      /\ epochBody # Unbound => blob.body = epochBody
                      /\ blob.blown => blob.blow_count > 0

\* The blob in memory is the one on disk, blown or newly bound.
Follows(b) == /\ Coherent(blob)
              /\ \/ b.blown /\ b.body = blob.body
                 \/ b.blown = blob.blown /\ blob.body = Unbound /\ b.body \in Bodies

CallerInv(c) ==
  /\ Planned(todo[c])
  /\ At(c, "create") => file = "absent" /\ buf[c] = Blank
  /\ At(c, "createFlush") => file = "torn" /\ buf[c] = Blank /\ ~everBlown /\ epochBody = Unbound
  /\ At(c, "truncate") => file = "full" /\ Carries(buf[c]) /\ Follows(buf[c])
  /\ At(c, "flush") => file = "torn" /\ Carries(buf[c])
  /\ (At(c, "truncate") \/ At(c, "flush")) => /\ Op(c) \in {"blow", "bind", "rebind"}
                                              /\ Op(c) = "blow" => buf[c].blown
                                              /\ buf[c].blown => buf[c].blow_count > 0
  /\ ~Idle(c) /\ Op(c) = "unlink" => Readable /\ ~blob.blown
  /\ ~Idle(c) /\ Op(c) = "confirm" => everBlown

SerialInv == Alone /\ DiskInv /\ (\A c \in Callers : CallerInv(c)) /\ BlowSticks

\* The effects of the three ways a step ends, on the caller that takes it.
LEMMA GotoEffect ==
  ASSUME TypeOK, NEW c \in Callers, NEW l, NEW b, Goto(c, l, b)
  PROVE  /\ todo' = todo /\ result' = result
         /\ pc'[c] = l /\ buf'[c] = b
  BY DEF Goto, TypeOK

LEMMA ReturnEffect ==
  ASSUME TypeOK, NEW c \in Callers, NEW r, Return(c, r)
  PROVE  /\ todo'[c] = <<>>
         /\ \A d \in Callers : d # c => todo'[d] = todo[d] /\ result'[d] = result[d]
         /\ result'[c] = r
  BY DEF Return, TypeOK

LEMMA ProceedEffect ==
  ASSUME TypeOK, NEW c \in Callers, ~Idle(c), Planned(todo[c]), Proceed(c)
  PROVE  /\ \A d \in Callers : d # c => todo'[d] = todo[d] /\ result'[d] = result[d]
         /\ result'[c] \in {result[c], "ok"}
         /\ Planned(todo'[c])
         /\ \/ todo'[c] = <<>>
            \/ /\ pc'[c] = "open"
               /\ Head(todo'[c]) = "unlink" => Op(c) = "intact"
               /\ Head(todo'[c]) = "confirm" => Op(c) = "blow"
<1>1. todo[c] \in Seq(Ops) /\ todo[c] # <<>>
  BY DEF TypeOK, Idle
<1>2. Planned(<<>>)
  BY DEF Planned
<1>3. CASE Tail(todo[c]) = <<>>
  BY <1>2, <1>3, ReturnEffect DEF Proceed
<1>4. CASE Tail(todo[c]) # <<>>
  <2>1. /\ todo' = [todo EXCEPT ![c] = Tail(todo[c])]
        /\ pc' = [pc EXCEPT ![c] = "open"]
        /\ result' = result
    BY <1>4 DEF Proceed
  <2>2. todo'[c] = Tail(todo[c]) /\ pc'[c] = "open"
    BY <2>1 DEF TypeOK
  <2>3. QED
    BY <1>1, <1>4, <2>1, <2>2, TailPlanned DEF TypeOK, Op
<1>5. QED
  BY <1>3, <1>4

\* A caller that is done has nothing in progress.
LEMMA IdleInv ==
  ASSUME NEW c \in Callers, Idle(c)
  PROVE  CallerInv(c)
  BY DEF CallerInv, At, Idle, Planned

\* One step of the only active caller.
LEMMA SerialStep ==
  ASSUME TypeOK, SerialInv, NEW c \in Callers, Step(c)
  PROVE  DiskInv' /\ CallerInv(c)' /\ BlowSticks'
<1> USE DEF SerialInv
<1>1. CallerInv(c) /\ Planned(todo[c]) /\ ~Idle(c)
  BY DEF CallerInv, Step, Read, OpenAbsent, OpenPresent, Check, ReadFails, ReadStatus, ReadBlow,
         ReadBind, ReadBound, Unlink, Truncate, Flush, CreateFlush, At
<1>2. CASE OpenAbsent(c)
  BY <1>2, <1>1, GotoEffect
     DEF OpenAbsent, disk, history, DiskInv, CallerInv, BlowSticks, At, Idle, Op, Readable
<1>3. CASE OpenPresent(c)
  BY <1>3, <1>1, GotoEffect
     DEF OpenPresent, disk, history, DiskInv, CallerInv, BlowSticks, At, Idle, Op, Readable
<1>4. CASE Check(c)
  <2>1. DiskInv'
    BY <1>4 DEF Check, disk, history, DiskInv
  <2>2. CASE Readable /\ Op(c) = "ensure"
    BY <1>4, <1>1, <2>1, <2>2, ProceedEffect DEF Check, CallerInv, BlowSticks, At, Idle, Op
  <2>3. CASE Readable /\ Op(c) # "ensure"
    BY <1>4, <1>1, <2>1, <2>3, GotoEffect
       DEF Check, disk, history, CallerInv, BlowSticks, At, Idle, Op, Readable
  <2>4. CASE ~Readable
    BY <1>4, <2>1, <2>4, ReturnEffect DEF Check, CallerInv, BlowSticks, At, Idle, Planned
  <2>5. QED
    BY <2>2, <2>3, <2>4
<1>5. CASE ReadFails(c)
  BY <1>5, ReturnEffect
     DEF ReadFails, disk, history, DiskInv, CallerInv, BlowSticks, At, Idle, Planned
<1>6. CASE ReadStatus(c)
  <2>1. DiskInv' /\ (Readable' <=> Readable) /\ blob' = blob /\ everBlown' = everBlown
    BY <1>6 DEF ReadStatus, disk, history, DiskInv, Readable
  <2>2. Op(c) = "confirm" => blob.blown
    BY <1>6, <1>1 DEF ReadStatus, DiskInv, CallerInv, Readable, Coherent, TypeOK, Blob
  <2>3. CASE Proceed(c) /\ Op(c) # "intact"
    BY <1>6, <1>1, <2>1, <2>3, ProceedEffect DEF ReadStatus, CallerInv, BlowSticks, At, Idle, Op
  <2>4. CASE Proceed(c) /\ Op(c) = "intact" /\ ~blob.blown
    BY <1>6, <1>1, <2>1, <2>4, ProceedEffect DEF ReadStatus, CallerInv, BlowSticks, At, Idle, Op
  <2>5. ASSUME NEW r \in {"refused", "block", "allow"}, Return(c, r)
        PROVE  CallerInv(c)' /\ BlowSticks'
    BY <2>5, ReturnEffect DEF CallerInv, BlowSticks, At, Idle, Planned
  <2>6. QED
    BY <1>6, <2>1, <2>2, <2>3, <2>4, <2>5 DEF ReadStatus
<1>7. CASE ReadBlow(c)
  <2>1. /\ Blown(blob).blown /\ Blown(blob).body = blob.body
        /\ Blown(blob).blow_count > 0
    BY BlownBlob DEF TypeOK
  <2>2. QED
    BY <1>7, <1>1, <2>1, GotoEffect
       DEF ReadBlow, disk, history, DiskInv, CallerInv, BlowSticks, Carries, Follows, At, Idle, Op,
           Readable
<1>8. CASE ReadBind(c)
  <2>1. DiskInv' /\ disk' = disk /\ history' = history
    BY <1>8 DEF ReadBind, disk, history, DiskInv
  <2>2. CASE blob.body = want[c]
    BY <1>8, <1>1, <2>1, <2>2, ProceedEffect DEF ReadBind, CallerInv, BlowSticks, At, Idle, Op
  <2>3. CASE blob.body # want[c]
    <3>1. blob.body = Unbound /\ file = "full" /\ Coherent(blob)
      BY <1>8, <2>3 DEF ReadBind, Readable
    <3>2. /\ [blob EXCEPT !.body = want[c]].blown = blob.blown
          /\ [blob EXCEPT !.body = want[c]].blow_count = blob.blow_count
          /\ [blob EXCEPT !.body = want[c]].body = want[c]
      BY DEF TypeOK, Blob
    <3>3. everBlown => blob.blown
      BY <3>1 DEF DiskInv, Coherent, TypeOK, Blob
    <3>4. epochBody = Unbound
      BY <3>1 DEF DiskInv
    <3>5. Goto(c, "truncate", [blob EXCEPT !.body = want[c]]) /\ Op(c) \in {"bind", "rebind"}
      BY <1>8, <2>3 DEF ReadBind
    <3>6. /\ todo' = todo /\ result' = result /\ pc'[c] = "truncate"
          /\ buf'[c] = [blob EXCEPT !.body = want[c]]
      BY <3>5, GotoEffect
    <3>7. Carries(buf[c])'
      BY <3>2, <3>3, <3>4, <3>6, <2>1 DEF Carries, history
    <3>8. Follows(buf[c])' /\ (buf'[c].blown => buf'[c].blow_count > 0)
      <4>1. want[c] \in Bodies
        BY <2>3, <3>1 DEF TypeOK
      <4>2. QED
        BY <4>1, <3>1, <3>2, <3>6, <2>1 DEF Follows, DiskInv, disk, Coherent
    <3>9. QED
      BY <1>1, <2>1, <3>1, <3>5, <3>6, <3>7, <3>8
         DEF disk, history, CallerInv, BlowSticks, At, Idle, Op, Readable
  <2>4. QED
    BY <2>2, <2>3
<1>9. CASE ReadBound(c)
  <2>1. DiskInv'
    BY <1>9 DEF ReadBound, disk, history, DiskInv
  <2>2. CASE Op(c) = "bind"
    <3>1. todo'[c] = RebindScript /\ pc'[c] = "open" /\ result' = result
      BY <1>9, <2>2 DEF ReadBound, TypeOK
    <3>2. QED
      BY <2>1, <3>1, ScriptFacts DEF CallerInv, BlowSticks, At, Idle, Op
  <2>3. CASE Op(c) # "bind"
    BY <1>9, <2>1, <2>3, ReturnEffect DEF ReadBound, CallerInv, BlowSticks, At, Idle, Planned
  <2>4. QED
    BY <2>2, <2>3
<1>10. CASE Unlink(c)
  <2>1. ~everBlown
    BY <1>10, <1>1 DEF Unlink, CallerInv, DiskInv, At, Readable, Coherent, TypeOK, Blob
  <2>2. DiskInv'
    BY <1>10, <2>1 DEF Unlink, DiskInv
  <2>3. QED
    BY <1>10, <1>1, <2>2, ProceedEffect DEF Unlink, CallerInv, BlowSticks, At, Idle, Op
<1>11. CASE Truncate(c)
  <2>1. DiskInv'
    BY <1>11 DEF Truncate, DiskInv
  <2>2. CASE pc[c] = "create"
    BY <1>11, <1>1, <2>1, <2>2, GotoEffect
       DEF Truncate, history, DiskInv, CallerInv, BlowSticks, At, Idle, Op, Readable
  <2>3. CASE pc[c] # "create"
    BY <1>11, <1>1, <2>1, <2>3, GotoEffect
       DEF Truncate, history, CallerInv, BlowSticks, Carries, At, Idle, Op, Readable
  <2>4. QED
    BY <2>2, <2>3
<1>12. CASE Flush(c)
  <2>1. DiskInv'
    BY <1>12, <1>1 DEF Flush, WriteOut, DiskInv, CallerInv, Carries
  <2>2. Op(c) = "blow" => everBlown'
    BY <1>12, <1>1 DEF Flush, WriteOut, CallerInv
  <2>3. QED
    BY <1>12, <1>1, <2>1, <2>2, ProceedEffect DEF Flush, CallerInv, BlowSticks, At, Idle, Op
<1>13. CASE CreateFlush(c)
  <2>1. ~everBlown' /\ epochBody' = Unbound /\ file' = "full" /\ blob' = Blank
    BY <1>13, <1>1, BlankBlob DEF CreateFlush, WriteOut, CallerInv
  <2>2. DiskInv'
    BY <2>1, BlankBlob DEF DiskInv
  <2>3. Readable' /\ ~blob'.blown
    BY <2>1, BlankBlob DEF Readable, Coherent
  <2>4. CASE Op(c) = "ensure"
    BY <1>13, <1>1, <2>2, <2>4, ProceedEffect
       DEF CreateFlush, CallerInv, BlowSticks, At, Idle, Op
  <2>5. CASE Op(c) # "ensure"
    BY <1>13, <1>1, <2>1, <2>2, <2>3, <2>5, GotoEffect
       DEF CreateFlush, CallerInv, BlowSticks, At, Idle, Op
  <2>6. QED
    BY <2>4, <2>5
<1>14. QED
  BY <1>2, <1>3, <1>4, <1>5, <1>6, <1>7, <1>8, <1>9, <1>10, <1>11, <1>12, <1>13 DEF Step, Read

\* A step of c leaves the calls of the others alone.
LEMMA StepLocal ==
  ASSUME TypeOK, NEW c \in Callers, Step(c) \/ Crash(c), NEW d \in Callers, d # c
  PROVE  todo'[d] = todo[d]
  BY DEF Step, Read, Crash, OpenAbsent, OpenPresent, Check, ReadFails, ReadStatus, ReadBlow, ReadBind,
         ReadBound, Unlink, Truncate, Flush, CreateFlush, Goto, Return, Proceed, TypeOK

LEMMA SerialInvStep ==
  ASSUME ~Overlap, TypeOK, SerialInv, [Next]_vars
  PROVE  SerialInv'
<1> USE DEF SerialInv
<1>1. ASSUME NEW c \in Callers, Step(c) PROVE SerialInv'
  <2>1. ~Idle(c)
    BY <1>1 DEF Step, Read, OpenAbsent, OpenPresent, Check, ReadFails, ReadStatus, ReadBlow,
           ReadBind, ReadBound, Unlink, Truncate, Flush, CreateFlush, At
  <2>2. \A d \in Callers : d # c => Idle(d)'
    BY <1>1, <2>1, StepLocal DEF Alone, Idle
  <2>3. Alone'
    BY <2>2 DEF Alone, Idle
  <2>4. \A d \in Callers : d # c => CallerInv(d)'
    BY <2>2 DEF CallerInv, At, Idle, Planned
  <2>5. QED
    BY <1>1, <2>3, <2>4, SerialStep
<1>2. ASSUME NEW c \in Callers, Crash(c) PROVE SerialInv'
  <2>1. todo'[c] = <<>> /\ result'[c] = "killed"
        /\ \A d \in Callers : d # c => todo'[d] = todo[d] /\ result'[d] = result[d]
    BY <1>2, ReturnEffect DEF Crash
  <2>2. \A d \in Callers : Idle(d)'
    BY <1>2, <2>1 DEF Crash, Alone, Idle
  <2>3. QED
    BY <1>2, <2>1, <2>2
       DEF Crash, disk, history, Alone, DiskInv, CallerInv, BlowSticks, At, Idle, Planned
<1>3. ASSUME NEW c \in Callers, NEW s \in Calls, NEW d0 \in Bodies \cup {Unbound},
             Start(c, s, d0)
      PROVE  SerialInv'
  <2>1. /\ \A d \in Callers : Idle(d)
        /\ \A d \in Callers : d # c => todo'[d] = todo[d]
        /\ todo'[c] = Script[s] /\ pc'[c] = "open"
    BY <1>3 DEF Start, Quiet, TypeOK
  <2>2. Planned(Script[s]) /\ Head(Script[s]) \notin {"unlink", "confirm"}
    BY ScriptFacts, CallsAssumption
  <2>3. CallerInv(c)'
    BY <2>1, <2>2 DEF CallerInv, At, Idle, Op
  <2>4. \A d \in Callers : d # c => CallerInv(d)'
    BY <2>1 DEF CallerInv, At, Idle, Planned
  <2>5. QED
    BY <1>3, <2>1, <2>3, <2>4 DEF Start, disk, history, Alone, DiskInv, BlowSticks, Idle
<1>4. CASE HandClear
  <2>1. /\ \A d \in Callers : Idle(d)' /\ Idle(d)
        /\ blob'.blown = FALSE /\ blob'.blow_count = blob.blow_count /\ blob'.body = blob.body
    BY <1>4 DEF HandClear, Quiet, Idle, TypeOK, Blob
  <2>2. \A d \in Callers : CallerInv(d)'
    BY <2>1 DEF CallerInv, At, Idle, Planned
  <2>3. QED
    BY <1>4, <2>1, <2>2 DEF HandClear, history, Alone, DiskInv, BlowSticks
<1>5. CASE UNCHANGED vars
  BY <1>5 DEF vars, Alone, DiskInv, CallerInv, Carries, Follows, BlowSticks, At, Idle, Op, Readable
<1>6. QED
  BY <1>1, <1>2, <1>3, <1>4, <1>5 DEF Next

LEMMA SerialInvInit == Init => SerialInv
  BY BlankBlob DEF Init, SerialInv, Alone, DiskInv, CallerInv, BlowSticks, At, Idle, Planned

LEMMA SerialInvariant == ~Overlap => (Spec => []SerialInv)
<1> SUFFICES ASSUME ~Overlap PROVE Spec => []SerialInv
  OBVIOUS
<1>1. TypeOK /\ SerialInv /\ [Next]_vars => SerialInv'
  BY SerialInvStep
<1>2. QED
  BY <1>1, SerialInvInit, TypeCorrect, PTL DEF Spec

\* When calls do not overlap, a fuse that was blown is never again read as
\* intact, nor deleted for a new epoch, whatever is killed half way and
\* whatever is edited by hand between calls (ha_silicon_fuse.h:2).
THEOREM SerialStaysBlown == ~Overlap => (Spec => []StaysBlown)
<1> SUFFICES ASSUME ~Overlap PROVE Spec => []StaysBlown
  OBVIOUS
<1>1. SerialInv /\ TypeOK => StaysBlown
  BY DEF SerialInv, DiskInv, StaysBlown, Readable, Coherent, TypeOK, Blob
<1>2. QED
  BY <1>1, SerialInvariant, TypeCorrect, PTL

\* When calls do not overlap, the first bind wins until the desk deletes the
\* file (ha_silicon_fuse.c:148).
THEOREM SerialNoSwap == ~Overlap => (Spec => []NoSilentSwap)
<1> SUFFICES ASSUME ~Overlap PROVE Spec => []NoSilentSwap
  OBVIOUS
<1>1. SerialInv => NoSilentSwap
  BY DEF SerialInv, DiskInv, NoSilentSwap, Readable
<1>2. QED
  BY <1>1, SerialInvariant, PTL

\* When calls do not overlap, "blow returned blown=false" is never raised.
THEOREM SerialBlowSticks == ~Overlap => (Spec => []BlowSticks)
<1> SUFFICES ASSUME ~Overlap PROVE Spec => []BlowSticks
  OBVIOUS
<1>1. SerialInv => BlowSticks
  BY DEF SerialInv
<1>2. QED
  BY <1>1, SerialInvariant, PTL

-----------------------------------------------------------------------------
(* A tampered file stays as it is.                                         *)

LEMMA BufCoherentInvariant == Spec => []BufCoherent
<1>1. Init => BufCoherent
  BY BlankBlob DEF Init, BufCoherent
<1>2. TypeOK /\ BufCoherent /\ [Next]_vars => BufCoherent'
  BY BufCoherentStep
<1>3. QED
  BY <1>1, <1>2, TypeCorrect, PTL DEF Spec

\* Only a caller that found the fuse coherent takes the file away.
LEMMA HealStep ==
  ASSUME TypeOK, SerialInv, BufCoherent, [Next]_vars, file = "full", ~Coherent(blob)
  PROVE  file' = "full" /\ ~Coherent(blob')
<1>1. CASE UNCHANGED disk
  BY <1>1 DEF disk, Coherent
<1>2. ASSUME NEW c \in Callers, Unlink(c) \/ Truncate(c) \/ Flush(c) \/ CreateFlush(c)
      PROVE  FALSE
  <2>1. CallerInv(c) /\ ~Idle(c)
    BY <1>2 DEF Unlink, Truncate, Flush, CreateFlush, At, SerialInv
  <2>2. CASE Unlink(c)
    BY <2>1, <2>2 DEF Unlink, CallerInv, At, Readable
  <2>3. CASE Truncate(c)
    <3>1. pc[c] = "truncate" => Follows(buf[c])
      BY <2>1, <2>3 DEF Truncate, CallerInv, At
    <3>2. pc[c] = "create" => file = "absent"
      BY <2>1, <2>3 DEF Truncate, CallerInv, At
    <3>3. QED
      BY <2>3, <3>1, <3>2 DEF Truncate, At, Follows
  <2>4. CASE Flush(c) \/ CreateFlush(c)
    BY <2>1, <2>4 DEF Flush, CreateFlush, CallerInv
  <2>5. QED
    BY <1>2, <2>2, <2>3, <2>4
<1>3. CASE HandClear
  BY <1>3 DEF HandClear, Coherent
<1>4. QED
  BY <1>1, <1>2, <1>3
     DEF Next, Step, Start, Crash, Read, OpenAbsent, OpenPresent, Check, ReadFails, ReadStatus,
         ReadBlow, ReadBind, ReadBound, vars, disk

\* When calls do not overlap, a fuse that reports TAMPER goes on reporting it:
\* no call of the wrapper heals a blob whose blown bit a hand has cleared.
THEOREM SerialTamperStays == ~Overlap => (Spec => TamperNotHealed)
<1> SUFFICES ASSUME ~Overlap PROVE Spec => TamperNotHealed
  OBVIOUS
<1>1. TypeOK /\ SerialInv /\ BufCoherent /\ [Next]_vars
        => [(file = "full" /\ ~Coherent(blob)) => (file' = "full" /\ ~Coherent(blob'))]_vars
  BY HealStep
<1>2. QED
  BY <1>1, SerialInvariant, TypeCorrect, BufCoherentInvariant, PTL DEF Spec, TamperNotHealed

-----------------------------------------------------------------------------
(* Calls that do not overlap implement the latch.                          *)

StateOf(b) == IF ~Coherent(b) THEN "dead" ELSE IF b.blown THEN "blown" ELSE "intact"
BodyOf(b) == IF ~Coherent(b) THEN Unbound ELSE b.body

\* The latch is the blob on disk, or the one its only writer carries, or dead.
Settled ==
  /\ file # "torn" => LatchState = StateOf(blob) /\ LatchBody = BodyOf(blob)
  /\ file = "torn" /\ Writers = {} => LatchState = "dead" /\ LatchBody = Unbound
  /\ \A c \in Callers : file = "torn" /\ Writers = {c}
       => LatchState = StateOf(buf[c]) /\ LatchBody = BodyOf(buf[c])

LEMMA SettledLatch == Settled
<1>1. ASSUME NEW c \in Callers, file = "torn", Writers = {c}
      PROVE  LatchState = StateOf(buf[c]) /\ LatchBody = BodyOf(buf[c])
  <2>1. (CHOOSE d \in Writers : TRUE) = c /\ Writers # {}
    BY <1>1
  <2>2. Latched = buf[c]
    BY <1>1, <2>1 DEF Latched
  <2>3. QED
    BY <1>1, <2>1, <2>2 DEF LatchState, LatchBody, Dead, StateOf, BodyOf
<1>2. QED
  BY <1>1 DEF Settled, LatchState, LatchBody, Dead, Latched, StateOf, BodyOf

LEMMA WriterAlone ==
  ASSUME Alone, NEW c \in Callers, ~Idle(c)
  PROVE  Writers = IF At(c, "flush") \/ At(c, "createFlush") THEN {c} ELSE {}
  BY DEF Alone, Writers, At

LEMMA LatchStep ==
  ASSUME ~Overlap, TypeOK, SerialInv, SerialInv', BufCoherent, [Next]_vars, Settled, Settled'
  PROVE  [Latch!Next]_(Latch!vars)
<1> USE DEF SerialInv, Settled
<1> DEFINE Stutter == LatchState' = LatchState /\ LatchBody' = LatchBody
<1>1. Stutter => [Latch!Next]_(Latch!vars)
  BY DEF Latch!vars
<1>2. LatchState' = "dead" /\ LatchBody' = Unbound => [Latch!Next]_(Latch!vars)
  BY DEF Latch!Next, Latch!Die
<1>3. file # "torn" /\ UNCHANGED disk => Stutter
  BY DEF disk, StateOf, BodyOf, Coherent
<1>4. ASSUME NEW c \in Callers, Step(c) PROVE [Latch!Next]_(Latch!vars)
  <2>1. CallerInv(c) /\ ~Idle(c)
    BY <1>4 DEF Step, Read, OpenAbsent, OpenPresent, Check, ReadFails, ReadStatus, ReadBlow,
           ReadBind, ReadBound, Unlink, Truncate, Flush, CreateFlush, At
  <2>2. \A d \in Callers : d # c => Idle(d) /\ Idle(d)'
    BY <1>4, <2>1, StepLocal DEF Alone, Idle
  <2>3. Writers = IF At(c, "flush") \/ At(c, "createFlush") THEN {c} ELSE {}
    BY <2>1, WriterAlone
  <2>4. CASE Unlink(c)
    <3>1. LatchState = "intact"
      BY <2>1, <2>4 DEF Unlink, CallerInv, At, Readable, StateOf
    <3>2. LatchState' = "intact" /\ LatchBody' = Unbound
      BY <2>4, BlankBlob DEF Unlink, StateOf, BodyOf
    <3>3. QED
      BY <3>1, <3>2 DEF Latch!Next, Latch!NewEpoch
  <2>5. CASE Truncate(c)
    <3>1. /\ file # "torn" /\ file' = "torn" /\ buf'[c] = buf[c]
          /\ ~Idle(c)' /\ pc'[c] \in {"flush", "createFlush"}
      BY <2>1, <2>5, GotoEffect DEF Truncate, CallerInv, At, Idle
    <3>2. Writers' = {c}
      BY <2>2, <3>1 DEF Writers, At
    <3>3. /\ LatchState = StateOf(blob) /\ LatchBody = BodyOf(blob)
          /\ LatchState' = StateOf(buf[c]) /\ LatchBody' = BodyOf(buf[c])
      BY <3>1, <3>2 DEF StateOf, BodyOf
    <3>4. CASE pc[c] = "create"
      <4>1. blob = Blank /\ buf[c] = Blank
        BY <2>1, <2>5, <3>4 DEF Truncate, CallerInv, DiskInv, At
      <4>2. QED
        BY <3>3, <4>1, <1>1
    <3>5. CASE pc[c] = "truncate"
      <4>1. Follows(buf[c]) /\ Coherent(buf[c]) /\ Coherent(blob)
        BY <2>1, <2>5, <3>5 DEF Truncate, CallerInv, At, Follows, BufCoherent
      <4>2. CASE buf[c].blown /\ buf[c].body = blob.body
        BY <3>3, <4>1, <4>2 DEF StateOf, BodyOf, Latch!Next, Latch!Blow
      <4>3. CASE buf[c].blown = blob.blown /\ blob.body = Unbound /\ buf[c].body \in Bodies
        BY <3>3, <4>1, <4>3 DEF StateOf, BodyOf, Latch!Next, Latch!Bind
      <4>4. QED
        BY <4>1, <4>2, <4>3 DEF Follows
    <3>6. QED
      BY <2>5, <3>4, <3>5 DEF Truncate, At
  <2>6. CASE Flush(c) \/ CreateFlush(c)
    <3>1. file = "torn" /\ Writers = {c} /\ file' = "full" /\ blob' = buf[c]
      BY <2>1, <2>3, <2>6 DEF Flush, CreateFlush, WriteOut, CallerInv
    <3>2. QED
      BY <3>1, <1>1 DEF Settled
  <2>7. CASE UNCHANGED disk /\ file = "torn" /\ (OpenPresent(c) \/ Check(c) \/ ReadFails(c))
    <3>1. Writers = {}
      BY <2>3, <2>7 DEF OpenPresent, Check, ReadFails, At
    <3>2. ~At(c, "flush")' /\ ~At(c, "createFlush")'
      BY <2>7, GotoEffect, ReturnEffect DEF OpenPresent, Check, ReadFails, At, Idle, Readable
    <3>3. Writers' = {}
      BY <2>2, <3>2 DEF Writers, At
    <3>4. QED
      BY <2>7, <3>3, <1>2 DEF disk
  <2>8. QED
    BY <1>1, <1>3, <1>4, <2>4, <2>5, <2>6, <2>7
       DEF Step, Read, OpenAbsent, OpenPresent, Check, ReadFails, ReadStatus, ReadBlow, ReadBind,
           ReadBound, Readable, disk
<1>5. ASSUME NEW c \in Callers, Crash(c) PROVE [Latch!Next]_(Latch!vars)
  <2>1. todo'[c] = <<>> /\ \A d \in Callers : d # c => todo'[d] = todo[d]
    BY <1>5, ReturnEffect DEF Crash
  <2>2. Writers' = {}
    BY <1>5, <2>1 DEF Crash, Alone, Writers, At, Idle
  <2>3. QED
    BY <1>1, <1>2, <1>3, <1>5, <2>2 DEF Crash, disk
<1>6. ASSUME NEW c \in Callers, NEW s \in Calls, NEW d0 \in Bodies \cup {Unbound},
             Start(c, s, d0)
      PROVE  [Latch!Next]_(Latch!vars)
  <2>1. Writers' = {}
    BY <1>6 DEF Start, Quiet, Writers, At, Idle, TypeOK
  <2>2. QED
    BY <1>1, <1>2, <1>3, <1>6, <2>1 DEF Start, disk
<1>7. CASE HandClear
  <2>1. file' = "full" /\ ~Coherent(blob')
    BY <1>7 DEF HandClear, DiskInv, Coherent, TypeOK, Blob
  <2>2. QED
    BY <1>2, <2>1 DEF StateOf, BodyOf
<1>8. CASE UNCHANGED vars
  <2>1. LatchState' = LatchState /\ LatchBody' = LatchBody
    BY <1>8 DEF vars, LatchState, LatchBody, Dead, Latched, Writers, Coherent, At, Idle
  <2>2. QED
    BY <1>1, <2>1
<1>9. QED
  BY <1>4, <1>5, <1>6, <1>7, <1>8 DEF Next

\* When calls do not overlap, the file operations implement FuseLatch: every
\* blow and bind takes effect at once, once and for all, or the file is dead.
THEOREM SerialImplementsLatch == ~Overlap => (Spec => ImplementsLatch)
<1> SUFFICES ASSUME ~Overlap PROVE Spec => ImplementsLatch
  OBVIOUS
<1>1. Init => Latch!Init
  <2>1. ASSUME Init PROVE LatchState = "intact" /\ LatchBody = Unbound
    BY <2>1, SettledLatch, BlankBlob DEF Init, Settled, StateOf, BodyOf
  <2>2. QED
    BY <2>1 DEF Latch!Init
<1>2. TypeOK /\ SerialInv /\ SerialInv' /\ BufCoherent /\ Settled /\ Settled' /\ [Next]_vars
        => [Latch!Next]_(Latch!vars)
  BY LatchStep
<1>3. QED
  BY <1>1, <1>2, SerialInvariant, TypeCorrect, BufCoherentInvariant, SettledLatch, PTL
     DEF Spec, ImplementsLatch, Latch!Spec

-----------------------------------------------------------------------------
(* Calls that overlap, where no body is ever bound and the file is there   *)
(* from the start: nobody deletes it and nobody creates it, so that every  *)
(* blob that reaches the disk is a blown one.                              *)

Keeping(s) == \A i \in 1..Len(s) : s[i] \notin {"bind", "rebind", "unlink"}

KeepsBlown ==
  /\ file # "absent"
  /\ file = "full" /\ everBlown => blob.blow_count > 0
  /\ \A c \in Callers :
       /\ Keeping(todo[c])
       /\ pc[c] \notin {"create", "createFlush"}
       /\ pc[c] \in {"truncate", "flush"} => buf[c].blown /\ buf[c].blow_count > 0

LEMMA TailKeeping ==
  ASSUME NEW s \in Seq(Ops), s # <<>>, Keeping(s)
  PROVE  Keeping(Tail(s)) /\ Head(s) \notin {"bind", "rebind", "unlink"}
<1>1. /\ Tail(s) \in Seq(Ops) /\ Len(Tail(s)) = Len(s) - 1 /\ Head(s) = s[1]
      /\ \A i \in 1..Len(Tail(s)) : Tail(s)[i] = s[i + 1]
  BY TailFacts
<1>2. Len(s) \in Nat \ {0} /\ 1 \in 1..Len(s)
  OBVIOUS
<1>3. \A i \in 1..Len(Tail(s)) : i + 1 \in 1..Len(s)
  BY <1>1, <1>2
<1>4. QED
  BY <1>1, <1>2, <1>3 DEF Keeping

LEMMA ScriptKeeping ==
  ASSUME NEW s \in DOMAIN Script, s # "bind"
  PROVE  Keeping(Script[s])
<1>1. \/ Script[s] = <<"ensure", "status">>
      \/ Script[s] = <<"status">>
      \/ Script[s] = <<"blow", "confirm">>
      \/ Script[s] = <<"ensure", "status", "gate">>
      \/ Script[s] = <<"ensure", "status", "intact">>
  BY DEF Script
<1>2. CASE Script[s] = <<"ensure", "status">>
  BY <1>2 DEF Keeping
<1>3. CASE Script[s] = <<"status">>
  BY <1>3 DEF Keeping
<1>4. CASE Script[s] = <<"blow", "confirm">>
  BY <1>4 DEF Keeping
<1>5. CASE Script[s] = <<"ensure", "status", "gate">>
  BY <1>5 DEF Keeping
<1>6. CASE Script[s] = <<"ensure", "status", "intact">>
  BY <1>6 DEF Keeping
<1>7. QED
  BY <1>1, <1>2, <1>3, <1>4, <1>5, <1>6

\* What KeepsBlown says of caller d after a step of caller c.
KeepsCaller(d) ==
  /\ Keeping(todo[d])
  /\ pc[d] \notin {"create", "createFlush"}
  /\ pc[d] \in {"truncate", "flush"} => buf[d].blown /\ buf[d].blow_count > 0

LEMMA EndedKeeps ==
  ASSUME TypeOK, KeepsBlown, NEW c \in Callers,
         (Proceed(c) /\ ~Idle(c)) \/ (\E r : Return(c, r))
  PROVE  \A d \in Callers : KeepsCaller(d)'
<1>1. Keeping(<<>>)
  BY DEF Keeping
<1>2. ~Idle(c) => Keeping(Tail(todo[c]))
  BY TailKeeping DEF Idle, KeepsBlown, TypeOK
<1>3. ASSUME NEW r, Return(c, r) PROVE \A d \in Callers : KeepsCaller(d)'
  BY <1>1, <1>3 DEF Return, TypeOK, KeepsBlown, KeepsCaller
<1>4. CASE Proceed(c) /\ ~Idle(c)
  <2>1. CASE Tail(todo[c]) = <<>>
    BY <1>3, <1>4, <2>1 DEF Proceed
  <2>2. CASE Tail(todo[c]) # <<>>
    <3>1. /\ todo' = [todo EXCEPT ![c] = Tail(@)]
          /\ pc' = [pc EXCEPT ![c] = "open"]
          /\ buf' = [buf EXCEPT ![c] = Blank]
      BY <1>4, <2>2 DEF Proceed
    <3>2. QED
      BY <1>2, <1>4, <3>1 DEF TypeOK, KeepsBlown, KeepsCaller
  <2>3. QED
    BY <2>1, <2>2
<1>5. QED
  BY <1>3, <1>4

LEMMA GoneOnKeeps ==
  ASSUME TypeOK, KeepsBlown, NEW c \in Callers, NEW l, NEW b, Goto(c, l, b),
         l \notin {"create", "createFlush"},
         l \in {"truncate", "flush"} => b.blown /\ b.blow_count > 0
  PROVE  \A d \in Callers : KeepsCaller(d)'
BY DEF Goto, TypeOK, KeepsBlown, KeepsCaller

LEMMA KeepsBlownStep ==
  ASSUME TypeOK, KeepsBlown, "bind" \notin Calls, [Next]_vars
  PROVE  KeepsBlown'
<1>1. ASSUME file' # "absent", file' = "full" /\ everBlown' => blob'.blow_count > 0,
             \A d \in Callers : KeepsCaller(d)'
      PROVE  KeepsBlown'
  BY <1>1 DEF KeepsBlown, KeepsCaller
<1>2. ASSUME NEW c \in Callers, Step(c) PROVE KeepsBlown'
  <2>1. ~Idle(c) /\ Op(c) \notin {"bind", "rebind", "unlink"}
    <3>1. ~Idle(c)
      BY <1>2 DEF Step, Read, OpenAbsent, OpenPresent, Check, ReadFails, ReadStatus, ReadBlow,
                  ReadBind, ReadBound, Unlink, Truncate, Flush, CreateFlush, At
    <3>2. QED
      BY <3>1, TailKeeping DEF Idle, Op, KeepsBlown, TypeOK
  <2>2. CASE OpenPresent(c)
    BY <2>2, <1>1, GoneOnKeeps DEF OpenPresent, disk, history, KeepsBlown
  <2>3. CASE Check(c)
    <3>1. UNCHANGED <<disk, history>> /\ (Proceed(c) \/ Goto(c, "read", buf[c]) \/ Return(c, "error"))
      BY <2>3 DEF Check
    <3>2. \A d \in Callers : KeepsCaller(d)'
      BY <3>1, <2>1, EndedKeeps, GoneOnKeeps
    <3>3. QED
      BY <3>1, <3>2, <1>1 DEF disk, history, KeepsBlown
  <2>4. CASE ReadFails(c) \/ ReadStatus(c)
    <3>1. UNCHANGED <<disk, history>> /\ (Proceed(c) \/ \E r : Return(c, r))
      BY <2>4 DEF ReadFails, ReadStatus
    <3>2. \A d \in Callers : KeepsCaller(d)'
      BY <3>1, <2>1, EndedKeeps
    <3>3. QED
      BY <3>1, <3>2, <1>1 DEF disk, history, KeepsBlown
  <2>5. CASE ReadBlow(c)
    <3>1. UNCHANGED <<disk, history>> /\ Goto(c, "truncate", Blown(blob))
      BY <2>5 DEF ReadBlow
    <3>2. Blown(blob).blown /\ Blown(blob).blow_count > 0
      BY BlownBlob DEF TypeOK
    <3>3. \A d \in Callers : KeepsCaller(d)'
      BY <3>1, <3>2, GoneOnKeeps
    <3>4. QED
      BY <3>1, <3>3, <1>1 DEF disk, history, KeepsBlown
  <2>6. CASE Truncate(c)
    <3>1. pc[c] = "truncate" /\ buf[c].blown /\ buf[c].blow_count > 0
      BY <2>6 DEF Truncate, At, KeepsBlown
    <3>2. Goto(c, "flush", buf[c]) /\ file' = "torn"
      BY <2>6, <3>1 DEF Truncate
    <3>3. \A d \in Callers : KeepsCaller(d)'
      BY <3>1, <3>2, GoneOnKeeps
    <3>4. QED
      BY <3>2, <3>3, <1>1
  <2>7. CASE Flush(c)
    <3>1. buf[c].blow_count > 0 /\ file' = "full" /\ blob' = buf[c] /\ Proceed(c)
      BY <2>7 DEF Flush, WriteOut, At, KeepsBlown
    <3>2. \A d \in Callers : KeepsCaller(d)'
      BY <3>1, <2>1, EndedKeeps
    <3>3. QED
      BY <3>1, <3>2, <1>1
  <2>8. QED
    BY <1>2, <2>1, <2>2, <2>3, <2>4, <2>5, <2>6, <2>7
       DEF Step, Read, OpenAbsent, ReadBind, ReadBound, Unlink, CreateFlush, At, KeepsBlown
<1>3. ASSUME NEW c \in Callers, Crash(c) PROVE KeepsBlown'
  <2>1. \A d \in Callers : KeepsCaller(d)'
    BY <1>3, EndedKeeps DEF Crash
  <2>2. QED
    BY <1>3, <2>1, <1>1 DEF Crash, disk, history, KeepsBlown
<1>4. CASE HandClear
  BY <1>4 DEF HandClear, history, KeepsBlown, TypeOK, Blob
<1>5. CASE UNCHANGED vars
  BY <1>5 DEF vars, KeepsBlown
<1>6. ASSUME NEW c \in Callers, NEW s \in Calls, NEW d0 \in Bodies \cup {Unbound},
             Start(c, s, d0)
      PROVE  KeepsBlown'
  <2>1. Keeping(Script[s])
    BY ScriptKeeping, CallsAssumption
  <2>2. \A d \in Callers : KeepsCaller(d)'
    BY <1>6, <2>1 DEF Start, KeepsBlown, KeepsCaller, TypeOK
  <2>3. QED
    BY <1>6, <2>2, <1>1 DEF Start, disk, history, KeepsBlown
<1>7. QED
  BY <1>2, <1>3, <1>4, <1>5, <1>6 DEF Next

\* A blown fuse stays blown under any overlap of the calls and any kill, as
\* long as the file is there from the start and no body is bound: what can
\* lose a blow (the run fuse_unblown) is creating the file or replacing it.
THEOREM OverlapStaysBlown ==
  ~StartsAbsent /\ "bind" \notin Calls => (Spec => []StaysBlown)
<1> SUFFICES ASSUME ~StartsAbsent, "bind" \notin Calls PROVE Spec => []StaysBlown
  OBVIOUS
<1>1. Init => KeepsBlown
  BY DEF Init, KeepsBlown, Keeping
<1>2. TypeOK /\ KeepsBlown /\ [Next]_vars => KeepsBlown'
  BY KeepsBlownStep
<1>3. TypeOK /\ KeepsBlown => StaysBlown
  BY DEF TypeOK, KeepsBlown, StaysBlown, Readable, Coherent, Blob
<1>4. QED
  BY <1>1, <1>2, <1>3, TypeCorrect, PTL DEF Spec
=============================================================================
