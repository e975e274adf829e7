----------------------------- MODULE AtomicFile -----------------------------
(***************************************************************************)
(* How the desk replaces a JSON file: atomic_json_v1.py (every project,    *)
(* session and run file) and desk_visitor_v1.py (the visitor vault).  The  *)
(* new text goes to a temporary file that os.replace then moves over the   *)
(* old one.  atomic_json takes a lock per path, names the temporary file   *)
(* by a uuid and tries the move again while a foreign reader holds the     *)
(* destination (Windows); the vault does neither and names its temporary   *)
(* file by the process, which the desk server's threads share.             *)
(*                                                                         *)
(* A name is a pointer to an inode, and an open descriptor keeps pointing  *)
(* to its inode when the name moves: that is what makes a shared temporary *)
(* name dangerous.                                                         *)
(***************************************************************************)
EXTENDS Naturals, FiniteSets

CONSTANTS Writers,     \* threads that write the file
          Texts,       \* complete documents
          Retries,     \* attempts of the move: 12
          Foreign,     \* TRUE: another process may hold the destination open
          MaxKills,    \* bound: writers killed in a behaviour
          Nobody       \* no writer, no inode

ASSUME AtomicAssumption ==
    /\ Retries \in Nat \ {0} /\ Foreign \in BOOLEAN /\ MaxKills \in Nat
    /\ Nobody \notin Writers \union {"first"}
    /\ "half" \notin Texts

VARIABLES private,  \* who writes: TRUE atomic_json_v1, FALSE desk_visitor_v1
          inode,    \* inode -> its text; there is one per writer and the first
          path,     \* the inode the file's name points to
          temp,     \* name of a temporary file -> the inode it points to
          lock,     \* the writer in the path's lock
          held,     \* a foreign reader holds the destination
          pc, text, tries, \* each writer's place, document and attempts
          fd,       \* the inode each writer has open
          kills

vars == <<private, inode, path, temp, lock, held, pc, text, tries, fd, kills>>

Half == "half"
Old  == "old"
Inodes == Writers \union {"first"}
Content == Texts \union {Half, Old}
Names == Writers \union {"shared"}
TempOf(w) == IF private THEN w ELSE "shared"

Init ==
    /\ private \in BOOLEAN
    /\ inode = [i \in Inodes |-> Old]
    /\ path = "first"
    /\ temp = [n \in Names |-> Nobody]
    /\ lock = Nobody /\ held = FALSE
    /\ pc = [w \in Writers |-> "idle"]
    /\ text \in [Writers -> Texts]
    /\ tries = [w \in Writers |-> 0]
    /\ fd = [w \in Writers |-> Nobody]
    /\ kills = 0

(* An inode nobody can reach is free for the next file that is created.    *)
Reachable(i) == i = path \/ \E n \in Names : temp[n] = i \/ \E w \in Writers : fd[w] = i

Enter(w) ==
    /\ pc[w] = "idle"
    /\ private => lock = Nobody
    /\ lock' = IF private THEN w ELSE lock
    /\ pc' = [pc EXCEPT ![w] = "open"]
    /\ tries' = [tries EXCEPT ![w] = 0]
    /\ UNCHANGED <<private, inode, path, temp, held, text, fd, kills>>

\* Mutant of Open: the destination itself is opened and emptied.
OpenInPlace(w) ==
    /\ pc[w] = "open"
    /\ inode' = [inode EXCEPT ![path] = Half]
    /\ fd' = [fd EXCEPT ![w] = path]
    /\ pc' = [pc EXCEPT ![w] = "fill"]
    /\ UNCHANGED <<private, path, temp, lock, held, text, tries, kills>>

(* write_text opens the temporary name: a new file, or the one another     *)
(* writer of this name made, emptied.                                      *)
Open(w) ==
    /\ pc[w] = "open"
    /\ \E i \in Inodes :
         /\ IF temp[TempOf(w)] = Nobody THEN ~Reachable(i) ELSE i = temp[TempOf(w)]
         /\ temp' = [temp EXCEPT ![TempOf(w)] = i]
         /\ inode' = [inode EXCEPT ![i] = Half]
         /\ fd' = [fd EXCEPT ![w] = i]
    /\ pc' = [pc EXCEPT ![w] = "fill"]
    /\ UNCHANGED <<private, path, lock, held, text, tries, kills>>

Fill(w) ==
    /\ pc[w] = "fill"
    /\ inode' = [inode EXCEPT ![fd[w]] = text[w]]
    /\ fd' = [fd EXCEPT ![w] = Nobody]
    /\ pc' = [pc EXCEPT ![w] = "move"]
    /\ UNCHANGED <<private, path, temp, lock, held, text, tries, kills>>

Done(w, how) ==
    /\ pc' = [pc EXCEPT ![w] = how]
    /\ lock' = IF lock = w THEN Nobody ELSE lock

Move(w) ==
    /\ pc[w] = "move" /\ temp[TempOf(w)] # Nobody /\ ~held
    /\ path' = temp[TempOf(w)]
    /\ temp' = [temp EXCEPT ![TempOf(w)] = Nobody]
    /\ Done(w, "done")
    /\ UNCHANGED <<private, inode, held, text, tries, fd, kills>>

\* Mutant of Refused: one retry too many, after which nobody gives up.
RefusedOnceMore(w) ==
    /\ pc[w] = "move" /\ held /\ tries[w] + 1 <= Retries /\ private
    /\ tries' = [tries EXCEPT ![w] = @ + 1]
    /\ UNCHANGED <<private, inode, path, temp, lock, held, pc, text, fd, kills>>

(* The destination is held: sleep and try again, then remove the temporary *)
(* file and raise.  The vault raises at once.                              *)
Refused(w) ==
    /\ pc[w] = "move" /\ held /\ tries[w] + 1 < Retries /\ private
    /\ tries' = [tries EXCEPT ![w] = @ + 1]
    /\ UNCHANGED <<private, inode, path, temp, lock, held, pc, text, fd, kills>>

GiveUp(w) ==
    /\ pc[w] = "move"
    /\ \/ held /\ (tries[w] + 1 = Retries \/ ~private)
       \/ temp[TempOf(w)] = Nobody
    /\ temp' = IF private THEN [temp EXCEPT ![w] = Nobody] ELSE temp
    /\ Done(w, "raised")
    /\ UNCHANGED <<private, inode, path, held, text, tries, fd, kills>>

(* A killed process: its descriptor and its lock go with it, the temporary *)
(* file stays (under a name no later call of atomic_json uses).            *)
Kill(w) ==
    /\ pc[w] \notin {"idle", "done", "raised"} /\ kills < MaxKills
    /\ Done(w, "raised")
    /\ fd' = [fd EXCEPT ![w] = Nobody]
    /\ kills' = kills + 1
    /\ UNCHANGED <<private, inode, path, temp, held, text, tries>>

Again(w) ==
    /\ pc[w] \in {"done", "raised"}
    /\ temp[TempOf(w)] = Nobody \/ ~private
    /\ \E x \in Texts : text' = [text EXCEPT ![w] = x]
    /\ pc' = [pc EXCEPT ![w] = "idle"]
    /\ UNCHANGED <<private, inode, path, temp, lock, held, tries, fd, kills>>

Hold == Foreign /\ held' = ~held /\ UNCHANGED <<private, inode, path, temp, lock, pc, text, tries, fd, kills>>

Step(w) == Enter(w) \/ Open(w) \/ Fill(w) \/ Move(w) \/ Refused(w) \/ GiveUp(w)

Next == Hold \/ \E w \in Writers : Step(w) \/ Kill(w) \/ Again(w)

Spec == Init /\ [][Next]_vars

(* A thread that is not killed keeps running.                              *)
Fairness == \A w \in Writers : WF_vars(Step(w))
FairSpec == Spec /\ Fairness

-----------------------------------------------------------------------------
(* The promise of atomic_json: a register of complete documents.           *)
Register == INSTANCE Register WITH Docs <- Texts,
                                   value <- IF private THEN inode[path] ELSE Old

TypeOK ==
    /\ private \in BOOLEAN
    /\ inode \in [Inodes -> Content] /\ path \in Inodes
    /\ temp \in [Names -> Inodes \union {Nobody}]
    /\ lock \in Writers \union {Nobody} /\ held \in BOOLEAN
    /\ pc \in [Writers -> {"idle", "open", "fill", "move", "done", "raised"}]
    /\ text \in [Writers -> Texts] /\ tries \in [Writers -> 0..(Retries - 1)]
    /\ fd \in [Writers -> Inodes \union {Nobody}] /\ kills \in 0..MaxKills

(* atomic_json_v1: "desk concurrency without corrupt files": whoever reads *)
(* the file, at any moment and after any kill, reads a complete document.  *)
ImplementsRegister == Register!Spec

(* The vault is torn only while the writer whose file another thread moved *)
(* is still filling it, or for good if that writer is killed: _read then   *)
(* finds no document and the desk takes a returning visitor for a new one. *)
TornIsBeingFilled ==
    inode[path] = Half => ~private /\ (kills > 0 \/ \E w \in Writers : fd[w] = path)

(* Every write ends, also while another process keeps the destination      *)
(* open: the retries are bounded (_atomic_replace).                        *)
WritesEnd == \A w \in Writers : pc[w] = "open" ~> pc[w] \in {"done", "raised"}
=============================================================================
