---------------------------- MODULE RitualProofs ----------------------------
(***************************************************************************)
(* Proofs about Ritual, for any number of rituals and kills: a release     *)
(* pack with a MANIFEST is of one ritual and says what its ritual found.   *)
(*                                                                         *)
(* The inductive invariant says that what is left of a plan is the end of  *)
(* its phase's script, what every finished write has left on disk, and     *)
(* that LATEST has no MANIFEST while a pack is being filled.               *)
(***************************************************************************)
EXTENDS Ritual, Integers, TLAPS

(* The documents of the ritual in progress.                                *)
DualDoc  == Content(job.run, "dual", job.good.dual /\ job.good.seal)
FinalDoc == Content(job.run, "final", Ok)
Manifest == Content(job.run, "manifest", Ok)

(* The writes of a phase, and how many of them are done.                   *)
Script == CASE phase = "staging"    -> Kit(job.run, job.good)
            [] phase = "publishing" -> Published(job.run, Ok)
            [] phase = "packing"    -> Pack(job.run, Ok)
            [] OTHER                -> <<>>
Done == Len(Script) - Len(plan)

Elements(s) == {s[i] : i \in 1..Len(s)}
EndOf(s, p) ==
    /\ p \in Seq(Elements(s)) /\ Len(p) \in 0..Len(s)
    /\ \A i \in 1..Len(p) : p[i] = s[Len(s) - Len(p) + i]

OnScript ==
    /\ EndOf(Script, plan)
    /\ open \in BOOLEAN /\ (open => clearing = {} /\ plan # <<>>)
    /\ clearing # {} => Done = 0
    /\ phase \notin {"staging", "packing"} => clearing = {}

Typed ==
    /\ DOMAIN disk = Places
    /\ phase \in {"idle", "fetch", "staging", "publishing", "packing"}
    /\ phase = "staging" => clearing \subseteq Mirror
    /\ phase = "packing" => clearing \subseteq Latest

Staged == phase = "staging" =>
    /\ Done >= 1 => disk["kit_safe"] = DualDoc
    /\ Done >= 2 => disk["kit_hostile"] = DualDoc

Mirrored == phase \in {"publishing", "packing"} =>
    disk["kit_safe"] = DualDoc /\ disk["kit_hostile"] = DualDoc

Announced == phase = "publishing" =>
    /\ Done >= 1 => disk["receipt"] = FinalDoc
    /\ Done >= 2 => disk["board"] = FinalDoc
    /\ Done >= 3 => disk["kit_gate"] = FinalDoc

Packed == phase = "packing" =>
    /\ disk["receipt"] = FinalDoc /\ disk["board"] = FinalDoc /\ disk["kit_gate"] = FinalDoc
    /\ Done >= 1 => disk["pack_gate"] = FinalDoc
    /\ Done >= 2 => disk["pack_board"] = FinalDoc
    /\ Done >= 3 => disk["pack_safe"] = DualDoc
    /\ Done >= 4 => disk["pack_hostile"] = DualDoc
    /\ Done >= 5 => disk["pack_kit_gate"] = FinalDoc

(* LATEST is emptied before it is filled, and MANIFEST comes last.         *)
ManifestLast == phase = "packing" =>
    /\ clearing # {} => Present(Latest) \subseteq clearing
    /\ clearing = {} /\ Done < 6 => disk["pack_manifest"].what # "manifest"

Inv == /\ OnScript /\ Typed /\ Staged /\ Mirrored /\ Announced /\ Packed /\ ManifestLast
       /\ PackReverifies

-----------------------------------------------------------------------------
LEMMA TailFacts ==
  ASSUME NEW S, NEW s \in Seq(S), s # <<>>
  PROVE  /\ Head(s) = s[1] /\ Tail(s) \in Seq(S)
         /\ Len(Tail(s)) = Len(s) - 1 /\ Len(s) \in Nat \ {0}
         /\ \A i \in 1..Len(Tail(s)) : Tail(s)[i] = s[i + 1]
OBVIOUS

LEMMA EndTail ==
  ASSUME NEW s, Len(s) \in Nat, NEW p, EndOf(s, p), p # <<>>
  PROVE  /\ EndOf(s, Tail(p)) /\ Len(Tail(p)) = Len(p) - 1 /\ Len(p) \in 1..Len(s)
         /\ Head(p) = s[Len(s) - Len(p) + 1]
<1>1. p \in Seq(Elements(s)) /\ Len(p) \in 0..Len(s)
  BY DEF EndOf
<1>2. /\ Head(p) = p[1] /\ Tail(p) \in Seq(Elements(s)) /\ Len(Tail(p)) = Len(p) - 1
      /\ Len(p) \in 1..Len(s)
      /\ \A i \in 1..Len(Tail(p)) : Tail(p)[i] = p[i + 1]
  BY <1>1, TailFacts
<1>3. Head(p) = s[Len(s) - Len(p) + 1]
  <2>1. 1 \in 1..Len(p)
    BY <1>2
  <2>2. QED
    BY <1>2, <2>1 DEF EndOf
<1>4. ASSUME NEW i \in 1..Len(Tail(p))
      PROVE  Tail(p)[i] = s[Len(s) - Len(Tail(p)) + i]
  <2>1. i + 1 \in 1..Len(p) /\ i \in Int
    BY <1>2
  <2>2. Tail(p)[i] = s[Len(s) - Len(p) + (i + 1)]
    BY <1>2, <2>1 DEF EndOf
  <2>3. Len(s) - Len(p) + (i + 1) = Len(s) - Len(Tail(p)) + i
    BY <1>2, <2>1
  <2>4. QED
    BY <2>2, <2>3
<1>5. QED
  BY <1>2, <1>3, <1>4 DEF EndOf

(* A whole script, and an empty plan, are ends of a script.                *)
LEMMA WholeIsEnd ==
  ASSUME NEW S, NEW s \in Seq(S)
  PROVE  EndOf(s, s) /\ EndOf(s, <<>>)
<1>1. Len(s) \in Nat /\ s \in Seq(Elements(s))
  BY DEF Elements
<1>2. \A i \in 1..Len(s) : Len(s) - Len(s) + i = i
  BY <1>1
<1>3. EndOf(s, s)
  BY <1>1, <1>2 DEF EndOf
<1>4. EndOf(s, <<>>)
  BY <1>1 DEF EndOf
<1>5. QED
  BY <1>3, <1>4

LEMMA ScriptSteps ==
  ASSUME NEW run, NEW good, NEW ok
  PROVE  /\ Len(Kit(run, good)) = 3 /\ Len(Published(run, ok)) = 3 /\ Len(Pack(run, ok)) = 7
         /\ \E S : Kit(run, good) \in Seq(S)
         /\ \E S : Published(run, ok) \in Seq(S)
         /\ \E S : Pack(run, ok) \in Seq(S)
<1>1. \A a, b, c : <<a, b, c>> \in Seq({a, b, c})
  OBVIOUS
<1>2. \A a, b, c, d, e, f, g : <<a, b, c, d, e, f, g>> \in Seq({a, b, c, d, e, f, g})
  OBVIOUS
<1>3. Len(Kit(run, good)) = 3 /\ \E S : Kit(run, good) \in Seq(S)
  <2> DEFINE a == Put("kit_safe", Content(run, "dual", good.dual /\ good.seal))
             b == Put("kit_hostile", Content(run, "dual", good.dual /\ good.seal))
             c == Put("kit_gate", Content(run, "draft", FALSE))
  <2>1. Kit(run, good) = <<a, b, c>>
    BY DEF Kit
  <2> HIDE DEF a, b, c
  <2>2. <<a, b, c>> \in Seq({a, b, c}) /\ Len(<<a, b, c>>) = 3
    BY <1>1
  <2>3. QED
    BY <2>1, <2>2
<1>4. Len(Published(run, ok)) = 3 /\ \E S : Published(run, ok) \in Seq(S)
  BY <1>1 DEF Published
<1>5. Len(Pack(run, ok)) = 7 /\ \E S : Pack(run, ok) \in Seq(S)
  BY <1>2 DEF Pack
<1>6. QED
  BY <1>3, <1>4, <1>5

LEMMA DocFacts ==
  /\ DualDoc.run = job.run /\ FinalDoc.run = job.run /\ Manifest.run = job.run
  /\ DualDoc.what = "dual" /\ FinalDoc.what = "final" /\ Manifest.what = "manifest"
  /\ Absent.what = "absent" /\ Torn.what = "torn"
  /\ FinalDoc.good = Manifest.good /\ (Manifest.good => DualDoc.good)
BY DEF DualDoc, FinalDoc, Manifest, Content, Absent, Torn, Ok, Reverified

(* What each script writes, and where.                                     *)
LEMMA StagingScript ==
  ASSUME phase = "staging"
  PROVE  /\ Len(Script) = 3
         /\ Script[1] = Put("kit_safe", DualDoc) /\ Script[2] = Put("kit_hostile", DualDoc)
         /\ Script[3].to = "kit_gate"
<1> DEFINE d == Content(job.run, "dual", job.good.dual /\ job.good.seal)
<1>1. Script = <<Put("kit_safe", d), Put("kit_hostile", d),
                 Put("kit_gate", Content(job.run, "draft", FALSE))>>
  BY DEF Script, Kit
<1>2. d = DualDoc
  BY DEF DualDoc
<1> HIDE DEF d
<1>3. QED
  BY <1>1, <1>2 DEF Put

LEMMA PublishingScript ==
  ASSUME phase = "publishing"
  PROVE  /\ Len(Script) = 3
         /\ Script[1] = Put("receipt", FinalDoc) /\ Script[2] = Put("board", FinalDoc)
         /\ Script[3] = Put("kit_gate", FinalDoc)
<1>1. Script = <<Put("receipt", FinalDoc), Put("board", FinalDoc), Put("kit_gate", FinalDoc)>>
  BY DEF Script, Published, FinalDoc
<1>2. QED
  BY <1>1

LEMMA PackingScript ==
  ASSUME phase = "packing"
  PROVE  /\ Len(Script) = 7
         /\ Script[1] = Copy("pack_gate", "receipt") /\ Script[2] = Copy("pack_board", "board")
         /\ Script[3] = Copy("pack_safe", "kit_safe")
         /\ Script[4] = Copy("pack_hostile", "kit_hostile")
         /\ Script[5] = Copy("pack_kit_gate", "kit_gate")
         /\ Script[6] = Put("pack_manifest", Manifest) /\ Script[7] = Put("release", Manifest)
<1>1. Script = <<Copy("pack_gate", "receipt"), Copy("pack_board", "board"),
                 Copy("pack_safe", "kit_safe"), Copy("pack_hostile", "kit_hostile"),
                 Copy("pack_kit_gate", "kit_gate"),
                 Put("pack_manifest", Manifest), Put("release", Manifest)>>
  BY DEF Script, Pack, Manifest
<1>2. QED
  BY <1>1

LEMMA Distinct ==
  /\ {"kit_safe", "kit_hostile", "kit_gate", "receipt", "board", "release"} \cap Latest = {}
  /\ Latest \cap Mirror = {}
  /\ Mirror \subseteq Places /\ Latest \subseteq Places
BY DEF Latest, Mirror, Places

(* The files outside LATEST say nothing of the pack.                       *)
LEMMA PackUnchanged ==
  ASSUME PackReverifies, \A p \in Latest : disk'[p] = disk[p]
  PROVE  PackReverifies'
<1>1. "pack_manifest" \in Latest
  BY DEF Latest
<1>2. QED
  BY <1>1 DEF PackReverifies, Present

(* Nor does a file that is gone.                                           *)
LEMMA PackShrinks ==
  ASSUME PackReverifies, DOMAIN disk = Places, NEW q \in Latest,
         disk' = [disk EXCEPT ![q] = Absent]
  PROVE  PackReverifies'
<1>1. "pack_manifest" \in Latest /\ Latest \subseteq Places /\ Absent.what # "manifest"
  BY DocFacts DEF Latest, Places
<1>2. CASE q = "pack_manifest"
  BY <1>1, <1>2 DEF PackReverifies
<1>3. CASE q # "pack_manifest"
  <2>1. disk'["pack_manifest"] = disk["pack_manifest"]
    BY <1>1, <1>3
  <2>2. \A p \in Latest : disk'[p] # Absent => disk[p] # Absent /\ disk'[p] = disk[p]
    BY <1>1
  <2>3. QED
    BY <2>1, <2>2 DEF PackReverifies, Present
<1>4. QED
  BY <1>2, <1>3

-----------------------------------------------------------------------------
LEMMA EmptyScript ==
  ASSUME OnScript, phase \notin {"staging", "publishing", "packing"}
  PROVE  plan = <<>> /\ clearing = {} /\ ~open
<1>1. Script = <<>>
  BY DEF Script
<1>2. Len(plan) = 0 /\ plan \in Seq(Elements(Script))
  BY <1>1 DEF OnScript, EndOf
<1>3. plan = <<>>
  BY <1>2
<1>4. QED
  BY <1>3 DEF OnScript

(* A phase that starts with its whole script, or ends in rest.             *)
LEMMA NewScript ==
  ASSUME NEW S, Script' \in Seq(S), plan' = Script', open' = FALSE,
         phase' \notin {"staging", "packing"} => clearing' = {}
  PROVE  OnScript' /\ Done' = 0
<1>1. EndOf(Script', Script') /\ Len(Script') \in Nat
  BY WholeIsEnd
<1>2. Done' = 0
  BY <1>1 DEF Done
<1>3. QED
  BY <1>1, <1>2 DEF OnScript

LEMMA FetchInv ==
  ASSUME Inv, StartFetch \/ EndFetch
  PROVE  Inv'
<1>1. phase \in {"idle", "fetch"} /\ phase' \in {"idle", "fetch"}
  BY DEF StartFetch, EndFetch
<1>2. plan = <<>> /\ clearing = {} /\ ~open
  BY <1>1, EmptyScript DEF Inv
<1>3. UNCHANGED <<disk, job, clearing, plan, open, kills>>
  BY DEF StartFetch, EndFetch
<1>4. Script' = <<>> /\ <<>> \in Seq({})
  BY <1>1 DEF Script
<1>5. OnScript'
  BY <1>1, <1>2, <1>3, <1>4, NewScript DEF Inv, OnScript
<1>6. PackReverifies'
  BY <1>3, PackUnchanged DEF Inv
<1>7. QED
  BY <1>1, <1>3, <1>5, <1>6
     DEF Inv, Typed, Staged, Mirrored, Announced, Packed, ManifestLast

LEMMA RestInv ==
  ASSUME Inv, phase' = "idle", clearing' = {}, plan' = <<>>, open' = FALSE, UNCHANGED disk
  PROVE  Inv'
<1>1. Script' = <<>> /\ <<>> \in Seq({})
  BY DEF Script
<1>2. OnScript'
  BY <1>1, NewScript
<1>3. PackReverifies'
  BY PackUnchanged DEF Inv
<1>4. QED
  BY <1>2, <1>3 DEF Inv, Typed, Staged, Mirrored, Announced, Packed, ManifestLast

LEMMA StartInv ==
  ASSUME Inv, StartRitual
  PROVE  Inv'
<1>1. plan = <<>> /\ clearing = {} /\ ~open /\ open \in BOOLEAN
  BY EmptyScript DEF StartRitual, Inv, OnScript
<1>2. /\ phase' = "staging" /\ clearing' \subseteq Mirror /\ open' = FALSE
      /\ plan' = Kit(job'.run, job'.good) /\ UNCHANGED disk
  BY <1>1 DEF StartRitual, Present
<1>3. Script' = plan' /\ \E S : Script' \in Seq(S)
  BY <1>2, ScriptSteps DEF Script
<1>4. OnScript' /\ Done' = 0
  BY <1>2, <1>3, NewScript
<1>5. Staged'
  BY <1>4 DEF Staged
<1>6. PackReverifies'
  BY <1>2, PackUnchanged DEF Inv
<1>7. QED
  BY <1>2, <1>4, <1>5, <1>6 DEF Inv, Typed, Mirrored, Announced, Packed, ManifestLast

(* The whole kit is staged, or nothing of it was to be published.          *)
LEMMA ConcludeInv ==
  ASSUME Inv, Conclude
  PROVE  Inv'
<1>1. /\ phase = "staging" /\ clearing = {} /\ plan = <<>> /\ UNCHANGED <<disk, job, open>>
      /\ clearing' = {}
  BY DEF Conclude
<1>2. ~open /\ open \in BOOLEAN /\ open' = FALSE
  BY <1>1 DEF Inv, OnScript
<1>3. Done = 3
  BY <1>1, StagingScript DEF Done
<1>4. disk["kit_safe"] = DualDoc /\ disk["kit_hostile"] = DualDoc
  BY <1>1, <1>3 DEF Inv, Staged
<1>5. CASE ~job.write
  BY <1>1, <1>2, <1>5, RestInv DEF Conclude
<1>6. CASE job.write
  <2>1. phase' = "publishing" /\ plan' = Published(job'.run, Ok')
    BY <1>1, <1>6 DEF Conclude, Ok, Reverified
  <2>2. Script' = plan' /\ \E S : Script' \in Seq(S)
    BY <2>1, ScriptSteps DEF Script
  <2>3. OnScript' /\ Done' = 0
    BY <1>1, <1>2, <2>1, <2>2, NewScript
  <2>4. Mirrored' /\ Announced'
    BY <1>1, <1>4, <2>3 DEF Mirrored, Announced, DualDoc
  <2>5. PackReverifies'
    BY <1>1, PackUnchanged DEF Inv
  <2>6. QED
    BY <1>1, <2>1, <2>3, <2>4, <2>5 DEF Inv, Typed, Staged, Packed, ManifestLast
<1>7. QED
  BY <1>5, <1>6

(* Receipt, board and mirror are out: LATEST is to be emptied and filled.  *)
LEMMA StagePackInv ==
  ASSUME Inv, StagePack
  PROVE  Inv'
<1>1. /\ phase = "publishing" /\ plan = <<>> /\ UNCHANGED <<disk, job, open>>
      /\ phase' = "packing" /\ clearing' = Present(Latest) /\ plan' = Pack(job'.run, Ok')
  BY DEF StagePack, Released, Ok, Reverified
<1>2. ~open /\ open \in BOOLEAN /\ open' = FALSE
  BY <1>1 DEF Inv, OnScript
<1>3. Done = 3
  BY <1>1, PublishingScript DEF Done
<1>4. /\ disk["kit_safe"] = DualDoc /\ disk["kit_hostile"] = DualDoc
      /\ disk["receipt"] = FinalDoc /\ disk["board"] = FinalDoc /\ disk["kit_gate"] = FinalDoc
  BY <1>1, <1>3 DEF Inv, Mirrored, Announced
<1>5. Script' = plan' /\ \E S : Script' \in Seq(S)
  BY <1>1, ScriptSteps DEF Script
<1>6. OnScript' /\ Done' = 0
  BY <1>1, <1>2, <1>5, NewScript
<1>7. DualDoc' = DualDoc /\ FinalDoc' = FinalDoc
  BY <1>1 DEF DualDoc, FinalDoc, Ok, Reverified
<1>8. Mirrored' /\ Packed'
  BY <1>1, <1>4, <1>6, <1>7 DEF Mirrored, Packed
<1>9. Present(Latest)' = Present(Latest) /\ Present(Latest) \subseteq Latest
  BY <1>1 DEF Present
<1>10. Present(Latest) = {} => disk["pack_manifest"].what # "manifest"
  BY DocFacts DEF Present, Latest
<1>11. ManifestLast'
  BY <1>1, <1>9, <1>10 DEF ManifestLast
<1>12. PackReverifies'
  BY <1>1, PackUnchanged DEF Inv
<1>13. QED
  BY <1>1, <1>6, <1>8, <1>9, <1>11, <1>12 DEF Inv, Typed, Staged, Announced

LEMMA FinishInv ==
  ASSUME Inv, Finish
  PROVE  Inv'
<1>1. /\ plan = <<>> /\ phase \in {"packing", "publishing"} /\ phase' = "idle"
      /\ UNCHANGED <<disk, clearing, plan, open>>
  BY DEF Finish
<1>2. ~open /\ open \in BOOLEAN /\ open' = FALSE
  BY <1>1 DEF Inv, OnScript
<1>3. Done > 0
  BY <1>1, PublishingScript, PackingScript DEF Done
<1>4. clearing = {}
  BY <1>1, <1>3 DEF Inv, OnScript
<1>5. QED
  BY <1>1, <1>2, <1>4, RestInv

LEMMA RemoveInv ==
  ASSUME Inv, Remove
  PROVE  Inv'
<1>1. PICK p \in clearing : disk' = [disk EXCEPT ![p] = Absent] /\ clearing' = clearing \ {p}
  BY DEF Remove
<1>2. UNCHANGED <<phase, job, plan, open>>
  BY DEF Remove
<1>3. clearing # {} /\ phase \in {"staging", "packing"} /\ Done = 0 /\ ~open /\ open \in BOOLEAN
  BY <1>1 DEF Inv, OnScript
<1>4. Script' = Script /\ Done' = 0
  BY <1>2, <1>3 DEF Script, Done, Ok, Reverified
<1>5. OnScript'
  BY <1>2, <1>3, <1>4 DEF Inv, OnScript
<1>6. DOMAIN disk = Places /\ DOMAIN disk' = Places
  BY <1>1 DEF Inv, Typed
<1>7. CASE phase = "staging"
  <2>1. p \in Mirror /\ clearing' \subseteq Mirror
    BY <1>1, <1>7 DEF Inv, Typed
  <2>2. \A q \in Latest : disk'[q] = disk[q]
    BY <1>1, <1>6, <2>1, Distinct
  <2>3. PackReverifies'
    BY <2>2, PackUnchanged DEF Inv
  <2>4. QED
    BY <1>2, <1>4, <1>5, <1>6, <1>7, <2>1, <2>3
       DEF Inv, Typed, Staged, Mirrored, Announced, Packed, ManifestLast
<1>8. CASE phase = "packing"
  <2>1. p \in Latest /\ clearing' \subseteq Latest
    BY <1>1, <1>8 DEF Inv, Typed
  <2>2. PackReverifies'
    BY <1>1, <1>6, <2>1, PackShrinks DEF Inv
  <2>3. \A q \in Places \ Latest : disk'[q] = disk[q]
    BY <1>1, <1>6, <2>1
  <2>4. {"kit_safe", "kit_hostile", "kit_gate", "receipt", "board"} \subseteq Places \ Latest
    BY DEF Places, Latest, Mirror
  <2>5. DualDoc' = DualDoc /\ FinalDoc' = FinalDoc
    BY <1>2 DEF DualDoc, FinalDoc, Ok, Reverified
  <2>6. Mirrored' /\ Packed'
    BY <1>2, <1>4, <1>8, <2>3, <2>4, <2>5 DEF Inv, Mirrored, Packed
  <2>7. Present(Latest)' \subseteq clearing'
    <3>1. \A q \in Latest : disk'[q] # Absent => disk[q] # Absent /\ q # p
      BY <1>1, <1>6, <2>1, Distinct
    <3>2. Present(Latest) \subseteq clearing
      BY <1>3, <1>8 DEF Inv, ManifestLast
    <3>3. QED
      BY <1>1, <3>1, <3>2 DEF Present
  <2>8. clearing' = {} => disk'["pack_manifest"].what # "manifest"
    BY <2>7, DocFacts DEF Present, Latest
  <2>9. ManifestLast'
    BY <2>7, <2>8 DEF ManifestLast
  <2>10. QED
    BY <1>2, <1>5, <1>6, <1>8, <2>1, <2>2, <2>6, <2>9 DEF Inv, Typed, Staged, Announced
<1>9. QED
  BY <1>3, <1>7, <1>8

LEMMA OpenInv ==
  ASSUME Inv, Open
  PROVE  Inv'
<1> DEFINE q == Head(plan).to
<1>1. /\ clearing = {} /\ plan # <<>> /\ ~open /\ open' = TRUE
      /\ disk' = [disk EXCEPT ![q] = Torn] /\ UNCHANGED <<phase, job, clearing, plan>>
  BY DEF Open
<1>2. Script' = Script /\ Done' = Done
  BY <1>1 DEF Script, Done, Ok, Reverified
<1>3. OnScript'
  BY <1>1, <1>2 DEF Inv, OnScript
<1>4. phase \in {"staging", "publishing", "packing"}
  BY <1>1, EmptyScript DEF Inv
<1>5. Len(Script) \in Nat
  BY <1>4, StagingScript, PublishingScript, PackingScript
<1>6. Done \in 0..(Len(Script) - 1) /\ Head(plan) = Script[Done + 1]
  <2>1. Len(plan) \in 1..Len(Script) /\ Head(plan) = Script[Len(Script) - Len(plan) + 1]
    BY <1>1, <1>5, EndTail DEF Inv, OnScript
  <2>2. QED
    BY <1>5, <2>1 DEF Done
<1>7. DOMAIN disk = Places /\ DOMAIN disk' = Places
  BY <1>1 DEF Inv, Typed
<1>8. DualDoc' = DualDoc /\ FinalDoc' = FinalDoc
  BY <1>1 DEF DualDoc, FinalDoc, Ok, Reverified
<1>9. \A p \in Places : p # q => disk'[p] = disk[p]
  BY <1>1, <1>7
<1>10. CASE phase = "staging"
  <2>1. Done \in 0..2 /\ q = Script[Done + 1].to
    <3>1. Len(Script) = 3
      BY <1>10, StagingScript
    <3>2. QED
      BY <1>6, <3>1
  <2>2. /\ Done = 0 => q = "kit_safe"
        /\ Done = 1 => q = "kit_hostile"
        /\ Done = 2 => q = "kit_gate"
    BY <1>10, <2>1, StagingScript DEF Put
  <2>3. q \notin Latest
    BY <2>1, <2>2 DEF Latest
  <2>4. PackReverifies'
    BY <1>9, <2>3, Distinct, PackUnchanged DEF Inv
  <2>5. Staged'
    BY <1>2, <1>8, <1>9, <1>10, <2>1, <2>2 DEF Inv, Staged, Places, Mirror
  <2>6. QED
    BY <1>1, <1>3, <1>7, <1>10, <2>4, <2>5
       DEF Inv, Typed, Mirrored, Announced, Packed, ManifestLast
<1>11. CASE phase = "publishing"
  <2>1. Done \in 0..2 /\ q = Script[Done + 1].to
    <3>1. Len(Script) = 3
      BY <1>11, PublishingScript
    <3>2. QED
      BY <1>6, <3>1
  <2>2. /\ Done = 0 => q = "receipt"
        /\ Done = 1 => q = "board"
        /\ Done = 2 => q = "kit_gate"
    BY <1>11, <2>1, PublishingScript DEF Put
  <2>3. q \notin Latest
    BY <2>1, <2>2 DEF Latest
  <2>4. PackReverifies'
    BY <1>9, <2>3, Distinct, PackUnchanged DEF Inv
  <2>5. Announced' /\ Mirrored'
    BY <1>1, <1>2, <1>8, <1>9, <1>11, <2>1, <2>2 DEF Inv, Announced, Mirrored, Places, Mirror
  <2>6. QED
    BY <1>1, <1>3, <1>7, <1>11, <2>4, <2>5 DEF Inv, Typed, Staged, Packed, ManifestLast
<1>12. CASE phase = "packing"
  <2>1. Done \in 0..6 /\ q = Script[Done + 1].to
    <3>1. Len(Script) = 7
      BY <1>12, PackingScript
    <3>2. QED
      BY <1>6, <3>1
  <2>2. /\ Done = 0 => q = "pack_gate"
        /\ Done = 1 => q = "pack_board"
        /\ Done = 2 => q = "pack_safe"
        /\ Done = 3 => q = "pack_hostile"
        /\ Done = 4 => q = "pack_kit_gate"
        /\ Done = 5 => q = "pack_manifest"
        /\ Done = 6 => q = "release"
    BY <1>12, <2>1, PackingScript DEF Put, Copy
  <2>3. Packed' /\ Mirrored'
    BY <1>1, <1>2, <1>8, <1>9, <1>12, <2>1, <2>2
       DEF Inv, Packed, Mirrored, Places, Mirror, Latest
  <2>4. Done < 6 => disk'["pack_manifest"].what # "manifest"
    BY <1>1, <1>7, <1>9, <1>12, <2>1, <2>2, DocFacts DEF Inv, ManifestLast, Places, Latest
  <2>5. ManifestLast'
    BY <1>1, <1>2, <2>4 DEF ManifestLast
  <2>6. PackReverifies'
    <3>1. CASE Done < 6
      BY <2>4, <3>1 DEF PackReverifies
    <3>2. CASE Done = 6
      <4>1. q \notin Latest
        BY <2>2, <3>2 DEF Latest
      <4>2. QED
        BY <1>9, <4>1, Distinct, PackUnchanged DEF Inv
    <3>3. QED
      BY <2>1, <3>1, <3>2
  <2>7. QED
    BY <1>1, <1>3, <1>7, <1>12, <2>3, <2>5, <2>6 DEF Inv, Typed, Staged, Announced
<1>13. QED
  BY <1>4, <1>10, <1>11, <1>12

(* The write that is under way ends.                                       *)
LEMMA FillInv ==
  ASSUME Inv, Fill
  PROVE  Inv'
<1> DEFINE w == Head(plan)
<1>1. /\ clearing = {} /\ plan # <<>> /\ open' = FALSE /\ plan' = Tail(plan)
      /\ disk' = [disk EXCEPT ![w.to] = IF w.from = w.to THEN w.content ELSE disk[w.from]]
      /\ UNCHANGED <<phase, job, clearing>>
  BY DEF Fill, Inv, OnScript
<1>2. Script' = Script
  BY <1>1 DEF Script, Ok, Reverified
<1>3. phase \in {"staging", "publishing", "packing"}
  BY <1>1, EmptyScript DEF Inv
<1>4. Len(Script) \in Nat
  BY <1>3, StagingScript, PublishingScript, PackingScript
<1>5. /\ Len(plan) \in 1..Len(Script) /\ w = Script[Len(Script) - Len(plan) + 1]
      /\ EndOf(Script, plan') /\ Len(plan') = Len(plan) - 1
  BY <1>1, <1>4, EndTail DEF Inv, OnScript
<1>6. Done \in 0..(Len(Script) - 1) /\ w = Script[Done + 1] /\ Done' = Done + 1
  BY <1>2, <1>4, <1>5 DEF Done
<1>7. OnScript'
  BY <1>1, <1>2, <1>5 DEF Inv, OnScript
<1>8. DOMAIN disk = Places /\ DOMAIN disk' = Places
  BY <1>1 DEF Inv, Typed
<1>9. DualDoc' = DualDoc /\ FinalDoc' = FinalDoc
  BY <1>1 DEF DualDoc, FinalDoc, Ok, Reverified
<1>10. /\ \A p \in Places : p # w.to => disk'[p] = disk[p]
       /\ w.to \in Places => disk'[w.to] = IF w.from = w.to THEN w.content ELSE disk[w.from]
  BY <1>1, <1>8
<1>11. CASE phase = "staging"
  <2>1. Done \in 0..2
    <3>1. Len(Script) = 3
      BY <1>11, StagingScript
    <3>2. QED
      BY <1>6, <3>1
  <2>2. /\ Done = 0 => w.to = "kit_safe" /\ w.from = "kit_safe" /\ w.content = DualDoc
        /\ Done = 1 => w.to = "kit_hostile" /\ w.from = "kit_hostile" /\ w.content = DualDoc
        /\ Done = 2 => w.to = "kit_gate"
    BY <1>6, <1>11, <2>1, StagingScript DEF Put
  <2>3. w.to \notin Latest
    BY <2>1, <2>2 DEF Latest
  <2>4. PackReverifies'
    BY <1>10, <2>3, Distinct, PackUnchanged DEF Inv
  <2>5. Staged'
    BY <1>6, <1>9, <1>10, <1>11, <2>1, <2>2 DEF Inv, Staged, Places, Mirror
  <2>6. QED
    BY <1>1, <1>7, <1>8, <1>11, <2>4, <2>5
       DEF Inv, Typed, Mirrored, Announced, Packed, ManifestLast
<1>12. CASE phase = "publishing"
  <2>1. Done \in 0..2
    <3>1. Len(Script) = 3
      BY <1>12, PublishingScript
    <3>2. QED
      BY <1>6, <3>1
  <2>2. /\ Done = 0 => w.to = "receipt"
        /\ Done = 1 => w.to = "board"
        /\ Done = 2 => w.to = "kit_gate"
        /\ w.from = w.to /\ w.content = FinalDoc
    BY <1>6, <1>12, <2>1, PublishingScript DEF Put
  <2>3. w.to \notin Latest
    BY <2>1, <2>2 DEF Latest
  <2>4. PackReverifies'
    BY <1>10, <2>3, Distinct, PackUnchanged DEF Inv
  <2>5. Announced' /\ Mirrored'
    BY <1>1, <1>6, <1>9, <1>10, <1>12, <2>1, <2>2
       DEF Inv, Announced, Mirrored, Places, Mirror
  <2>6. QED
    BY <1>1, <1>7, <1>8, <1>12, <2>4, <2>5 DEF Inv, Typed, Staged, Packed, ManifestLast
<1>13. CASE phase = "packing"
  <2>1. Done \in 0..6
    <3>1. Len(Script) = 7
      BY <1>13, PackingScript
    <3>2. QED
      BY <1>6, <3>1
  <2>2. /\ Done = 0 => w.to = "pack_gate" /\ w.from = "receipt"
        /\ Done = 1 => w.to = "pack_board" /\ w.from = "board"
        /\ Done = 2 => w.to = "pack_safe" /\ w.from = "kit_safe"
        /\ Done = 3 => w.to = "pack_hostile" /\ w.from = "kit_hostile"
        /\ Done = 4 => w.to = "pack_kit_gate" /\ w.from = "kit_gate"
        /\ Done = 5 => w.to = "pack_manifest" /\ w.from = "pack_manifest" /\ w.content = Manifest
        /\ Done = 6 => w.to = "release"
    BY <1>6, <1>13, <2>1, PackingScript DEF Put, Copy
  <2>3. /\ disk["receipt"] = FinalDoc /\ disk["board"] = FinalDoc /\ disk["kit_gate"] = FinalDoc
        /\ disk["kit_safe"] = DualDoc /\ disk["kit_hostile"] = DualDoc
    BY <1>13 DEF Inv, Packed, Mirrored
  <2>4. Packed' /\ Mirrored'
    BY <1>1, <1>6, <1>9, <1>10, <1>13, <2>1, <2>2, <2>3
       DEF Inv, Packed, Mirrored, Places, Mirror, Latest
  <2>5. Done < 5 => disk'["pack_manifest"].what # "manifest"
    BY <1>1, <1>10, <1>13, <2>1, <2>2 DEF Inv, ManifestLast, Places, Latest
  <2>6. ManifestLast'
    BY <1>1, <1>6, <2>1, <2>5 DEF ManifestLast
  <2>7. PackReverifies'
    <3>1. CASE Done < 5
      BY <2>5, <3>1 DEF PackReverifies
    <3>2. CASE Done = 5
      <4>1. /\ disk'["pack_gate"] = FinalDoc /\ disk'["pack_board"] = FinalDoc
            /\ disk'["pack_safe"] = DualDoc /\ disk'["pack_hostile"] = DualDoc
            /\ disk'["pack_kit_gate"] = FinalDoc
        BY <1>1, <1>6, <1>9, <1>13, <2>4, <3>2 DEF Packed
      <4>2. disk'["pack_manifest"] = Manifest
        BY <1>10, <2>2, <3>2 DEF Places, Latest
      <4>3. \A p \in Latest : disk'[p] \in {FinalDoc, DualDoc, Manifest}
        BY <4>1, <4>2 DEF Latest
      <4>4. QED
        BY <4>2, <4>3, DocFacts DEF PackReverifies, Present
    <3>3. CASE Done = 6
      <4>1. w.to \notin Latest
        BY <2>2, <3>3 DEF Latest
      <4>2. QED
        BY <1>10, <4>1, Distinct, PackUnchanged DEF Inv
    <3>4. QED
      BY <2>1, <3>1, <3>2, <3>3
  <2>8. QED
    BY <1>1, <1>7, <1>8, <1>13, <2>4, <2>6, <2>7 DEF Inv, Typed, Staged, Announced
<1>14. QED
  BY <1>3, <1>11, <1>12, <1>13

LEMMA InvInit == Init => Inv
<1> SUFFICES ASSUME Init PROVE Inv
  OBVIOUS
<1>1. /\ disk = [p \in Places |-> Absent] /\ phase = "idle" /\ clearing = {}
      /\ plan = <<>> /\ open = FALSE
  BY DEF Init
<1>2. Script = <<>>
  BY <1>1 DEF Script
<1>3. EndOf(Script, plan)
  <2>1. <<>> \in Seq({})
    OBVIOUS
  <2>2. QED
    BY <1>1, <1>2, <2>1, WholeIsEnd
<1>4. PackReverifies
  BY <1>1, DocFacts DEF PackReverifies, Places, Latest
<1>5. QED
  BY <1>1, <1>3, <1>4
     DEF Inv, OnScript, Typed, Staged, Mirrored, Announced, Packed, ManifestLast

LEMMA InvStep == Inv /\ [Next]_vars => Inv'
<1> SUFFICES ASSUME Inv, [Next]_vars PROVE Inv'
  OBVIOUS
<1>1. CASE StartFetch \/ EndFetch \/ StartRitual \/ Conclude \/ StagePack \/ Finish
  BY <1>1, FetchInv, StartInv, ConcludeInv, StagePackInv, FinishInv
<1>2. CASE Remove \/ Open \/ Fill
  BY <1>2, RemoveInv, OpenInv, FillInv
<1>3. CASE Kill
  BY <1>3, RestInv DEF Kill
<1>4. CASE UNCHANGED vars
  BY <1>4 DEF vars, Inv, OnScript, Typed, Staged, Mirrored, Announced, Packed, ManifestLast,
              PackReverifies, Present, Script, Done, DualDoc, FinalDoc, Ok, Reverified
<1>5. QED
  BY <1>1, <1>2, <1>3, <1>4 DEF Next

(* However many rituals, packs and fetches follow one another, and         *)
(* wherever any of them is killed: a pack with a MANIFEST holds the files  *)
(* of one ritual only, and a MANIFEST that says PASS stands beside Dual    *)
(* receipts that say so (release_engineer_pack_v1.py).                     *)
THEOREM PackAlwaysReverifies == Spec => []PackReverifies
<1>1. Inv => PackReverifies
  BY DEF Inv
<1>2. QED
  BY InvInit, InvStep, <1>1, PTL DEF Spec

-----------------------------------------------------------------------------
(* What is written is a document of a ritual that was started.             *)
Writes == [to : Places, from : Places, content : Contents]
Goods == [dual : BOOLEAN, seal : BOOLEAN, other : BOOLEAN]

Held ==
    /\ disk \in [Places -> Contents] /\ bins \in {"absent", "torn", "whole"}
    /\ phase \in {"idle", "fetch", "staging", "publishing", "packing"}
    /\ job.run \in 0 .. MaxRituals /\ job.good \in Goods
    /\ clearing \subseteq Mirror \union Latest /\ kills \in 0 .. MaxKills
    /\ plan \in Seq(Writes) /\ open \in BOOLEAN /\ (open => plan # <<>>)

LEMMA Documents ==
  ASSUME RitualAssumption, NEW run \in 0 .. MaxRituals, NEW good \in BOOLEAN,
         NEW what \in {"absent", "torn", "dual", "draft", "final", "manifest"}
  PROVE  Content(run, what, good) \in Contents
BY DEF Content, Contents

LEMMA Empties == RitualAssumption => Absent \in Contents /\ Torn \in Contents
BY DEF RitualAssumption, Content, Absent, Torn, Contents

LEMMA Writing ==
  ASSUME NEW p \in Places, NEW q \in Places, NEW d \in Contents, Absent \in Contents
  PROVE  Put(p, d) \in Writes /\ Copy(p, q) \in Writes
BY DEF Put, Copy, Writes

LEMMA Scripted ==
  ASSUME RitualAssumption, NEW run \in 0 .. MaxRituals, NEW good \in Goods, NEW ok \in BOOLEAN
  PROVE  /\ Kit(run, good) \in Seq(Writes) /\ Published(run, ok) \in Seq(Writes)
         /\ Pack(run, ok) \in Seq(Writes)
<1>1. /\ \A b \in BOOLEAN : /\ Content(run, "dual", b) \in Contents
                            /\ Content(run, "draft", b) \in Contents
                            /\ Content(run, "final", b) \in Contents
                            /\ Content(run, "manifest", b) \in Contents
      /\ Absent \in Contents
  BY Documents, Empties
<1>2. Mirror \subseteq Places /\ Latest \subseteq Places /\ {"receipt", "board", "release"} \subseteq Places
  BY DEF Places
<1>3. (good.dual /\ good.seal) \in BOOLEAN
  BY DEF Goods
<1>4. /\ \A a, b, c \in Writes : <<a, b, c>> \in Seq(Writes)
      /\ \A a, b, c, d, e, f, g \in Writes : <<a, b, c, d, e, f, g>> \in Seq(Writes)
  OBVIOUS
<1>5. Kit(run, good) \in Seq(Writes)
  <2>1. /\ Put("kit_safe", Content(run, "dual", good.dual /\ good.seal)) \in Writes
        /\ Put("kit_hostile", Content(run, "dual", good.dual /\ good.seal)) \in Writes
        /\ Put("kit_gate", Content(run, "draft", FALSE)) \in Writes
    BY <1>1, <1>2, <1>3, Writing DEF Mirror
  <2>2. QED
    BY <1>4, <2>1 DEF Kit
<1>6. Published(run, ok) \in Seq(Writes)
  <2>1. /\ Put("receipt", Content(run, "final", ok)) \in Writes
        /\ Put("board", Content(run, "final", ok)) \in Writes
        /\ Put("kit_gate", Content(run, "final", ok)) \in Writes
    BY <1>1, <1>2, Writing DEF Mirror
  <2>2. QED
    BY <1>4, <2>1 DEF Published
<1>7. Pack(run, ok) \in Seq(Writes)
  <2>1. /\ Copy("pack_gate", "receipt") \in Writes /\ Copy("pack_board", "board") \in Writes
        /\ Copy("pack_safe", "kit_safe") \in Writes
        /\ Copy("pack_hostile", "kit_hostile") \in Writes
        /\ Copy("pack_kit_gate", "kit_gate") \in Writes
        /\ Put("pack_manifest", Content(run, "manifest", ok)) \in Writes
        /\ Put("release", Content(run, "manifest", ok)) \in Writes
    BY <1>1, <1>2, Writing DEF Mirror, Latest
  <2>2. QED
    BY <1>4, <2>1 DEF Pack
<1>8. QED
  BY <1>5, <1>6, <1>7

LEMMA HeldStep ==
  ASSUME RitualAssumption, Held, [Next]_vars
  PROVE  Held'
<1>0. MaxRituals \in Nat /\ MaxKills \in Nat /\ <<>> \in Seq(Writes)
  BY DEF RitualAssumption
<1>1. CASE StartFetch \/ EndFetch \/ Finish
  BY <1>1 DEF StartFetch, EndFetch, Finish, Held
<1>2. CASE StartRitual
  <2>1. PICK write, pack, dual, seal, other \in BOOLEAN :
          job' = [run |-> job.run + 1, write |-> write, pack |-> pack,
                  good |-> [dual |-> dual, seal |-> seal, other |-> other]]
    <3>1. \E write, pack, dual, seal, other \in BOOLEAN :
            job' = [run |-> job.run + 1, write |-> write, pack |-> pack,
                    good |-> [dual |-> dual, seal |-> seal, other |-> other]]
      BY <1>2, ZenonT(40) DEF StartRitual
    <3>2. QED
      BY <3>1
  <2>2. job'.run = job.run + 1 /\ job'.good = [dual |-> dual, seal |-> seal, other |-> other]
    BY <2>1
  <2>3. job'.run \in 0 .. MaxRituals /\ job'.good \in Goods
    BY <1>0, <1>2, <2>2 DEF StartRitual, Held, Goods
  <2>4. plan' \in Seq(Writes) /\ plan' # <<>>
    <3>1. plan' = Kit(job'.run, job'.good)
      BY <1>2 DEF StartRitual
    <3>2. QED
      BY <2>3, <3>1, Scripted DEF Kit
  <2>5. clearing' \subseteq Mirror
    BY <1>2 DEF StartRitual, Present
  <2>6. QED
    BY <1>2, <2>3, <2>4, <2>5 DEF StartRitual, Held
<1>3. CASE Conclude \/ StagePack
  <2>1. Ok \in BOOLEAN
    BY DEF Ok, Reverified, Held, Goods
  <2>2. /\ Published(job.run, Ok) \in Seq(Writes) /\ Pack(job.run, Ok) \in Seq(Writes)
        /\ Pack(job.run, Ok) # <<>>
    BY <2>1, Scripted DEF Held, Pack
  <2>3. CASE Conclude
    <3>1. plan' \in {Published(job.run, Ok), <<>>} /\ (open => plan # <<>>) /\ plan = <<>>
      BY <2>3 DEF Conclude, Held
    <3>2. QED
      BY <1>0, <2>2, <2>3, <3>1 DEF Conclude, Held
  <2>4. CASE StagePack
    <3>1. clearing' \subseteq Latest
      BY <2>4 DEF StagePack, Present
    <3>2. QED
      BY <2>2, <2>4, <3>1 DEF StagePack, Held
  <2>5. QED
    BY <1>3, <2>3, <2>4
<1>4. CASE Remove
  <2>1. Absent \in Contents
    BY Empties
  <2>2. PICK p \in clearing : disk' = [disk EXCEPT ![p] = Absent] /\ clearing' = clearing \ {p}
    BY <1>4 DEF Remove
  <2>3. disk' \in [Places -> Contents]
    BY <2>1, <2>2 DEF Held
  <2>4. QED
    BY <1>4, <2>2, <2>3 DEF Remove, Held
<1>5. CASE Open
  <2>1. Torn \in Contents
    BY Empties
  <2>2. disk' \in [Places -> Contents]
    BY <1>5, <2>1 DEF Open, Held
  <2>3. QED
    BY <1>5, <2>2 DEF Open, Held
<1>6. CASE Fill
  <2>1. plan # <<>> /\ plan \in Seq(Writes)
    BY <1>6 DEF Fill, Held
  <2>2. Head(plan) \in Writes /\ Tail(plan) \in Seq(Writes)
    BY <2>1
  <2> DEFINE w == Head(plan)
             d == IF w.from = w.to THEN w.content ELSE disk[w.from]
  <2>3. disk' = [disk EXCEPT ![w.to] = d]
    BY <1>6 DEF Fill
  <2>4. d \in Contents
    BY <2>2 DEF Held, Writes
  <2> HIDE DEF w, d
  <2>5. disk' \in [Places -> Contents]
    BY <2>3, <2>4 DEF Held
  <2>6. QED
    BY <1>6, <2>2, <2>5 DEF Fill, Held
<1>7. CASE Kill
  <2>1. kills' \in 0 .. MaxKills
    BY <1>0, <1>7 DEF Kill, Held
  <2>2. QED
    BY <1>0, <1>7, <2>1 DEF Kill, Held
<1>8. CASE UNCHANGED vars
  BY <1>8 DEF vars, Held
<1>9. QED
  BY <1>1, <1>2, <1>3, <1>4, <1>5, <1>6, <1>7, <1>8 DEF Next

(* Every variable stays in its domain, for any number of rituals and       *)
(* kills: every step of a script writes a document of a ritual that was    *)
(* started, or copies one, at a place of the kit or the pack.              *)
THEOREM RitualTypes == RitualAssumption => (Spec => []TypeOK)
<1> SUFFICES ASSUME RitualAssumption PROVE Spec => []TypeOK
  OBVIOUS
<1>1. Init => Held
  <2>1. Absent \in Contents /\ 0 \in 0 .. MaxRituals /\ 0 \in 0 .. MaxKills
    <3>1. MaxRituals \in Nat /\ MaxKills \in Nat
      BY DEF RitualAssumption
    <3>2. QED
      BY <3>1, Empties
  <2>2. NoJob.run = 0 /\ NoJob.good \in Goods
    BY DEF NoJob, Goods
  <2>3. <<>> \in Seq(Writes)
    OBVIOUS
  <2>4. QED
    BY <2>1, <2>2, <2>3 DEF Init, Held
<1>2. Held /\ [Next]_vars => Held'
  BY HeldStep
<1>3. Held => TypeOK
  <2> SUFFICES ASSUME Held PROVE TypeOK
    OBVIOUS
  <2>1. \A i \in DOMAIN plan : plan[i] \in Writes
    BY DEF Held
  <2>2. QED
    BY <2>1 DEF Held, TypeOK, Writes
<1>4. QED
  BY <1>1, <1>2, <1>3, PTL DEF Spec
=============================================================================
