----------------------------- MODULE SiliconFuse -----------------------------
(***************************************************************************)
(* The file-backed fuse of one project (SE_FUSE.bin): the C operations of  *)
(* ha_silicon_fuse.c one file access at a time, the ha-silicon-fuse CLI    *)
(* that runs them, and the Python glue of silicon_fuse_v1.py that strings  *)
(* CLI calls together.  Every C operation opens the file again for each    *)
(* access and takes no lock, and a write is a truncating fopen followed by *)
(* one 64-byte flush, so that between any two accesses of one caller       *)
(* another process may run, or the caller may be killed (the glue kills a  *)
(* CLI after its timeout).                                                 *)
(***************************************************************************)
EXTENDS Naturals, Sequences

CONSTANTS
  Callers,      \* threads and processes that call the glue
  Bodies,       \* body digests
  Unbound,      \* the digest field of a blob with body_bound = 0
  Calls,        \* the glue functions called, a subset of DOMAIN Script
  MaxCount,     \* where blow_count saturates (0xffffffff in C)
  Overlap,      \* may two callers be active on the file at once?
  StartsAbsent  \* is the file absent at first, or a blank blob?

ASSUME FuseAssumption == /\ Unbound \notin Bodies
                         /\ MaxCount \in Nat \ {0}
                         /\ Overlap \in BOOLEAN
                         /\ StartsAbsent \in BOOLEAN

VARIABLES
  file,     \* "absent", "torn" (truncated, not yet written) or "full"
  blob,     \* the 64 bytes when file is "full", Blank otherwise
  todo,     \* todo[c]: the operations c has still to run, Head first
  pc,       \* pc[c]: the next file access of Head(todo[c])
  buf,      \* buf[c]: the blob in c's memory
  want,     \* want[c]: the digest c binds
  result,   \* result[c]: how c's last call ended
  everBlown,  \* history: a blown blob has been on disk
  epochBody   \* history: the first digest bound since the file was last deleted

disk    == <<file, blob>>
history == <<everBlown, epochBody>>
vars    == <<file, blob, todo, pc, buf, want, result, everBlown, epochBody>>

Blob  == [blown : BOOLEAN, blow_count : 0..MaxCount, body : Bodies \cup {Unbound}]
Blank == [blown |-> FALSE, blow_count |-> 0, body |-> Unbound]

\* blow_count without the blown bit is a hand-cleared fuse: HA_FUSE_ERR_TAMPER.
Coherent(b) == b.blow_count > 0 => b.blown

\* ha_fuse_read succeeds.
Readable == file = "full" /\ Coherent(blob)

\* Mutant of Blown: the count does not saturate.
BlownUnsaturated(b) == [b EXCEPT !.blown = TRUE, !.blow_count = @ + 1]

\* Mutant of Blown: the blow is counted and the bit is forgotten.
BlownCountOnly(b) == [b EXCEPT !.blow_count = IF @ < MaxCount THEN @ + 1 ELSE @]

Blown(b) == [blown |-> TRUE,
             blow_count |-> IF b.blow_count < MaxCount THEN b.blow_count + 1 ELSE b.blow_count,
             body |-> b.body]

(***************************************************************************)
(* The glue: each function as the C operations it runs, in order.  Rust    *)
(* answers a blow or a bind with a status of its own ("confirm" is the one *)
(* whose blown bit blow_silicon_fuse checks); "intact" is a status the     *)
(* caller refuses when it says blown.                                      *)
(***************************************************************************)
Script == [ensure  |-> <<"ensure", "status">>,
           status  |-> <<"status">>,
           blow    |-> <<"blow", "confirm">>,
           bind    |-> <<"ensure", "status", "bind", "status">>,
           gate    |-> <<"ensure", "status", "gate">>,
           require |-> <<"ensure", "status", "intact">>]

\* Mutant of RebindScript: the file is deleted without asking for its status.
RebindUnchecked == <<"unlink", "ensure", "status", "rebind", "status">>

\* The desk swaps a bound body: check, delete the file, start a new one.
RebindScript == <<"intact", "unlink", "ensure", "status", "rebind", "status">>

ASSUME CallsAssumption == Calls \subseteq DOMAIN Script

Idle(c) == todo[c] = <<>>
At(c, label) == ~Idle(c) /\ pc[c] = label
Op(c) == Head(todo[c])
Quiet == \A c \in Callers : Idle(c)

Init ==
  /\ file = (IF StartsAbsent THEN "absent" ELSE "full")
  /\ blob = Blank
  /\ todo = [c \in Callers |-> <<>>]
  /\ pc = [c \in Callers |-> "open"]
  /\ buf = [c \in Callers |-> Blank]
  /\ want = [c \in Callers |-> Unbound]
  /\ result = [c \in Callers |-> "none"]
  /\ everBlown = FALSE
  /\ epochBody = Unbound

(***************************************************************************)
(* Local effects of a step of caller c.                                    *)
(***************************************************************************)
Goto(c, label, b) ==
  /\ pc' = [pc EXCEPT ![c] = label]
  /\ buf' = [buf EXCEPT ![c] = b]
  /\ UNCHANGED <<todo, want, result>>

\* The call is over, with nothing left in memory.
Return(c, r) ==
  /\ todo' = [todo EXCEPT ![c] = <<>>]
  /\ pc' = [pc EXCEPT ![c] = "open"]
  /\ buf' = [buf EXCEPT ![c] = Blank]
  /\ want' = [want EXCEPT ![c] = Unbound]
  /\ result' = [result EXCEPT ![c] = r]

\* Head(todo[c]) has succeeded: the next operation, or the end of the call.
Proceed(c) ==
  IF Tail(todo[c]) = <<>>
  THEN Return(c, "ok")
  ELSE /\ todo' = [todo EXCEPT ![c] = Tail(@)]
       /\ pc' = [pc EXCEPT ![c] = "open"]
       /\ buf' = [buf EXCEPT ![c] = Blank]
       /\ UNCHANGED <<want, result>>

(***************************************************************************)
(* Starting a call.                                                        *)
(***************************************************************************)
Start(c, s, d) ==
  /\ Idle(c)
  /\ Overlap \/ Quiet
  /\ d \in IF s = "bind" THEN Bodies ELSE {Unbound}
  /\ todo' = [todo EXCEPT ![c] = Script[s]]
  /\ pc' = [pc EXCEPT ![c] = "open"]
  /\ want' = [want EXCEPT ![c] = d]
  /\ UNCHANGED <<disk, buf, result, history>>

(***************************************************************************)
(* ha_fuse_ensure, which every C operation runs first.  An absent file is  *)
(* created blank; a file that cannot be read is reported, never rewritten. *)
(***************************************************************************)
OpenAbsent(c) ==
  /\ At(c, "open") /\ Op(c) # "unlink"
  /\ file = "absent"
  /\ Goto(c, "create", Blank)
  /\ UNCHANGED <<disk, history>>

\* Mutant of OpenPresent: ensure initialises a file that is there.
OpenRecreates(c) ==
  /\ At(c, "open") /\ Op(c) # "unlink"
  /\ file # "absent"
  /\ Goto(c, "create", Blank)
  /\ UNCHANGED <<disk, history>>

OpenPresent(c) ==
  /\ At(c, "open") /\ Op(c) # "unlink"
  /\ file # "absent"
  /\ Goto(c, "check", buf[c])
  /\ UNCHANGED <<disk, history>>

\* Mutant of Check: ensure heals a file it cannot read.
CheckHeals(c) ==
  /\ At(c, "check")
  /\ IF Readable
     THEN IF Op(c) = "ensure" THEN Proceed(c) ELSE Goto(c, "read", buf[c])
     ELSE Goto(c, "create", Blank)
  /\ UNCHANGED <<disk, history>>

Check(c) ==
  /\ At(c, "check")
  /\ IF Readable
     THEN IF Op(c) = "ensure" THEN Proceed(c) ELSE Goto(c, "read", buf[c])
     ELSE Return(c, "error")
  /\ UNCHANGED <<disk, history>>

(***************************************************************************)
(* The second ha_fuse_read of an operation, and what each operation makes  *)
(* of the blob.                                                            *)
(***************************************************************************)
ReadFails(c) ==
  /\ At(c, "read")
  /\ ~Readable
  /\ Return(c, "error")
  /\ UNCHANGED <<disk, history>>

ReadStatus(c) ==
  /\ At(c, "read") /\ Readable
  /\ \/ Op(c) = "status" /\ Proceed(c)
     \/ /\ Op(c) = "intact"
        /\ IF blob.blown THEN Return(c, "refused") ELSE Proceed(c)
     \/ /\ Op(c) = "confirm"
        /\ IF blob.blown THEN Proceed(c) ELSE Return(c, "broken")
     \/ Op(c) = "gate" /\ Return(c, IF blob.blown THEN "block" ELSE "allow")
  /\ UNCHANGED <<disk, history>>

ReadBlow(c) ==
  /\ At(c, "read") /\ Readable
  /\ Op(c) = "blow"
  /\ Goto(c, "truncate", Blown(blob))
  /\ UNCHANGED <<disk, history>>

\* Mutant of ReadBind: HA_FUSE_ERR_BOUND is never returned.
ReadBindSwaps(c) ==
  /\ At(c, "read") /\ Readable
  /\ Op(c) \in {"bind", "rebind"}
  /\ Goto(c, "truncate", [blob EXCEPT !.body = want[c]])
  /\ UNCHANGED <<disk, history>>

ReadBind(c) ==
  /\ At(c, "read") /\ Readable
  /\ Op(c) \in {"bind", "rebind"}
  /\ blob.body \in {Unbound, want[c]}
  /\ IF blob.body = want[c]
     THEN Proceed(c)
     ELSE Goto(c, "truncate", [blob EXCEPT !.body = want[c]])
  /\ UNCHANGED <<disk, history>>

\* HA_FUSE_ERR_BOUND: the glue starts a new epoch once, then gives up.
ReadBound(c) ==
  /\ At(c, "read") /\ Readable
  /\ Op(c) \in {"bind", "rebind"}
  /\ blob.body \notin {Unbound, want[c]}
  /\ IF Op(c) = "bind"
     THEN /\ todo' = [todo EXCEPT ![c] = RebindScript]
          /\ pc' = [pc EXCEPT ![c] = "open"]
          /\ UNCHANGED <<buf, want, result>>
     ELSE Return(c, "error")
  /\ UNCHANGED <<disk, history>>

\* Another process may have truncated the file since ha_fuse_ensure read it.
Read(c) ==
  IF Readable THEN ReadStatus(c) \/ ReadBlow(c) \/ ReadBind(c) \/ ReadBound(c)
              ELSE ReadFails(c)

Unlink(c) ==
  /\ At(c, "open") /\ Op(c) = "unlink"
  /\ file' = "absent"
  /\ blob' = Blank
  /\ epochBody' = Unbound
  /\ Proceed(c)
  /\ UNCHANGED everBlown

(***************************************************************************)
(* ha_fuse_write: fopen "wb", then the flush of all 64 bytes.              *)
(***************************************************************************)
Truncate(c) ==
  /\ At(c, "truncate") \/ At(c, "create")
  /\ file' = "torn"
  /\ blob' = Blank
  /\ Goto(c, IF pc[c] = "create" THEN "createFlush" ELSE "flush", buf[c])
  /\ UNCHANGED history

WriteOut(c) ==
  /\ file' = "full"
  /\ blob' = buf[c]
  /\ everBlown' = (everBlown \/ buf[c].blown)
  /\ epochBody' = IF epochBody = Unbound THEN buf[c].body ELSE epochBody

Flush(c) ==
  /\ At(c, "flush")
  /\ WriteOut(c)
  /\ Proceed(c)

CreateFlush(c) ==
  /\ At(c, "createFlush")
  /\ WriteOut(c)
  /\ IF Op(c) = "ensure" THEN Proceed(c) ELSE Goto(c, "read", buf[c])

(***************************************************************************)
(* What may happen at any time: the caller is killed (a CLI that exceeds   *)
(* its timeout, a desk that stops), a hand clears the blown byte.          *)
(***************************************************************************)
Crash(c) ==
  /\ ~Idle(c)
  /\ Return(c, "killed")
  /\ UNCHANGED <<disk, history>>

HandClear ==
  /\ Overlap \/ Quiet
  /\ file = "full" /\ blob.blown
  /\ blob' = [blob EXCEPT !.blown = FALSE]
  /\ UNCHANGED <<file, todo, pc, buf, want, result, history>>

Step(c) == \/ OpenAbsent(c) \/ OpenPresent(c) \/ Check(c)
           \/ Read(c) \/ Unlink(c) \/ Truncate(c) \/ Flush(c) \/ CreateFlush(c)

Next == \/ \E c \in Callers : \/ \E s \in Calls, d \in Bodies \cup {Unbound} : Start(c, s, d)
                              \/ Step(c)
                              \/ Crash(c)
        \/ HandClear

Spec == Init /\ [][Next]_vars

(***************************************************************************)
(* Properties.                                                             *)
(***************************************************************************)
Ops  == {"ensure", "status", "blow", "confirm", "bind", "rebind", "intact", "unlink", "gate"}
Labels == {"open", "check", "read", "create", "createFlush", "truncate", "flush"}
Results == {"none", "ok", "error", "refused", "broken", "allow", "block", "killed"}

TypeOK ==
  /\ file \in {"absent", "torn", "full"}
  /\ blob \in Blob
  /\ todo \in [Callers -> Seq(Ops)]
  /\ pc \in [Callers -> Labels]
  /\ buf \in [Callers -> Blob]
  /\ want \in [Callers -> Bodies \cup {Unbound}]
  /\ result \in [Callers -> Results]
  /\ everBlown \in BOOLEAN
  /\ epochBody \in Bodies \cup {Unbound}

\* Once a blown blob has reached the disk, no file the oracle can read says
\* the current may flow, and the file is not deleted to start a new epoch:
\* "Once blown, stays blown for this fuse file" (ha_silicon_fuse.h:2).
StaysBlown == everBlown => /\ file # "absent"
                           /\ ~(Readable /\ ~blob.blown)

\* A file bound to a body holds that body or cannot be read, until the desk
\* deletes it: "cannot silently swap body after bind" (ha_silicon_fuse.c:148).
NoSilentSwap == (Readable /\ epochBody # Unbound) => blob.body = epochBody

\* A TAMPER verdict is never a false alarm: no step of the code, at whatever
\* point it is overtaken or killed, turns a coherent blob into one that
\* ha_fuse_read rejects; only the hand does.
OnlyHandsTamper ==
  [][(Coherent(blob) /\ ~Coherent(blob')) => HandClear]_vars

\* blow_silicon_fuse never finds the fuse intact after its own blow (the
\* "C oracle broken" error of silicon_fuse_v1.py:103).
BlowSticks == \A c \in Callers : result[c] # "broken"

\* A hand-cleared fuse is not healed by any later call: the file that reports
\* TAMPER keeps reporting it (ha_silicon_fuse.c:115).
TamperNotHealed ==
  [][(file = "full" /\ ~Coherent(blob)) => (file' = "full" /\ ~Coherent(blob'))]_vars

(***************************************************************************)
(* The latch this file implements.  A write counts from its truncation on, *)
(* unless its writer is killed: then nobody can read the file any more.    *)
(***************************************************************************)
Writers == {c \in Callers : At(c, "flush") \/ At(c, "createFlush")}

\* The blob that is, or is about to be, on disk.
Latched == IF file = "torn" /\ Writers # {} THEN buf[CHOOSE c \in Writers : TRUE] ELSE blob

Dead == (file = "torn" /\ Writers = {}) \/ ~Coherent(Latched)

LatchState == IF Dead THEN "dead" ELSE IF Latched.blown THEN "blown" ELSE "intact"

LatchBody == IF Dead THEN Unbound ELSE Latched.body

Latch == INSTANCE FuseLatch WITH latch <- LatchState, body <- LatchBody

\* Calls that do not overlap implement the latch: every step of every call,
\* killed calls and hand edits included, is a step of FuseLatch or none.
ImplementsLatch == Latch!Spec
=============================================================================
