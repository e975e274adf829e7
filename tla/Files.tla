------------------------------- MODULE Files -------------------------------
(***************************************************************************)
(* The files behind the desk, together: the replacement of one file        *)
(* (AtomicFile, extended), the project desk, and what a returning visitor  *)
(* sees.  They share no state here: a behaviour picks a part at the start  *)
(* and steps it, the other parts rest in their initial states.             *)
(*                                                                         *)
(* The project desk is instanced with its proofs, so that its theorems     *)
(* speak of this composition too.                                          *)
(***************************************************************************)
EXTENDS AtomicFile, Sequences

CONSTANTS
  Nil,  \* no value, in every part
  DeskProjects, DeskBodies, DeskMalformed, DeskRegistry, DeskFiles,
  DeskFileOf, DeskThreads, DeskLimit, DeskKeep, DeskMaxRequests, DeskMaxKills,
  BootRobots, BootScenes, BootOneShot, BootMaxBoots, BootMaxScenes

VARIABLES
  part,
  deskDisk, deskActive, deskTwin, deskReq, deskStarted, deskKills,
  deskSettled, deskKept, deskTangled,
  bootShown, bootCopy, bootVault, bootChosen, bootAlive, bootJob, bootRuns,
  bootLastRun, bootLoose

deskVars == <<deskDisk, deskActive, deskTwin, deskReq, deskStarted,
  deskKills, deskSettled, deskKept, deskTangled>>
Desk == INSTANCE ProjectDeskProofs WITH
  Projects <- DeskProjects, Bodies <- DeskBodies, Malformed <- DeskMalformed,
  Registry <- DeskRegistry, Files <- DeskFiles, FileOf <- DeskFileOf,
  Threads <- DeskThreads, Limit <- DeskLimit, Keep <- DeskKeep,
  MaxRequests <- DeskMaxRequests, MaxKills <- DeskMaxKills, None <- Nil,
  disk <- deskDisk, active <- deskActive, twin <- deskTwin, req <- deskReq,
  started <- deskStarted, kills <- deskKills, settled <- deskSettled,
  kept <- deskKept, tangled <- deskTangled

bootVars == <<bootShown, bootCopy, bootVault, bootChosen, bootAlive, bootJob,
  bootRuns, bootLastRun, bootLoose>>
Boot == INSTANCE DeskBoot WITH
  Robots <- BootRobots, Scenes <- BootScenes, OneShot <- BootOneShot,
  MaxBoots <- BootMaxBoots, MaxScenes <- BootMaxScenes, Gone <- Nil,
  shown <- bootShown, copy <- bootCopy, vault <- bootVault,
  chosen <- bootChosen, alive <- bootAlive, job <- bootJob, runs <- bootRuns,
  lastRun <- bootLastRun, loose <- bootLoose
-----------------------------------------------------------------------------
ASSUME FilesAssumption == Desk!ProjectDeskAssumption /\ Boot!DeskBootAssumption

AllVars == <<part, vars, deskVars, bootVars>>

(* The choices of AtomicFile's initial state are open in its own           *)
(* behaviours only.                                                        *)
FilesInit ==
    /\ part \in {"file", "desk", "boot"}
    /\ Init /\ (part # "file" => private /\ text = [w \in Writers |-> CHOOSE x \in Texts : TRUE])
    /\ Desk!Init /\ Boot!Init

FilesNext ==
    /\ UNCHANGED part
    /\ \/ part = "file" /\ Next /\ UNCHANGED <<deskVars, bootVars>>
       \/ part = "desk" /\ Desk!Next /\ UNCHANGED <<vars, bootVars>>
       \/ part = "boot" /\ Boot!Next /\ UNCHANGED <<vars, deskVars>>

(* A writer that is not killed keeps running (AtomicFile!Fairness).        *)
FilesSpec ==
    /\ FilesInit /\ [][FilesNext]_AllVars
    /\ \A w \in Writers : WF_vars(part = "file" /\ Step(w))

-----------------------------------------------------------------------------
(* Every variable of every part stays in its domain.                       *)
FilesTypeOK == TypeOK /\ Desk!TypeOK /\ Boot!TypeOK

(* The properties of the instances, under names of this module; each is    *)
(* stated and explained where it is defined.                               *)
Attested == Desk!Attested
ActiveAlive == Desk!ActiveAlive
AttachKept == Desk!AttachKept
BootPromises == Boot!BootPromises
=============================================================================
