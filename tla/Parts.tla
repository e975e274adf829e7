------------------------------- MODULE Parts -------------------------------
(***************************************************************************)
(* The components that share no state with each other, together: the       *)
(* experiment scheduler (Experiments, extended), the fuse, the desk server,*)
(* the probe, the fleet, the storm, the prove ritual and the SLAM pipeline.*)
(* A behaviour picks a part at the start and steps it, the other parts     *)
(* rest in their initial states.  Each part is an instance whose constants *)
(* and variables carry the part's name; those with proofs of their own are *)
(* instanced with them, so that their theorems speak of this composition   *)
(* too.                                                                    *)
(***************************************************************************)
EXTENDS Experiments

CONSTANTS
  FuseCallers, FuseBodies, FuseCalls, FuseMaxCount, FuseOverlap, FuseStartsAbsent,
  ServerThreads, ServerPacks, ServerDefault, ServerMaxRequests, ServerMaxKills,
  ServerKeep, ServerOverlap,
  FieldLanes, FieldAtlases, FieldSlice, FieldTax, FieldMaxRuns,
  FleetRelay, FleetTicks, FleetStride, FleetZones, FleetSetups,
  FleetMaxVersion, FleetMaxExits,
  SkyCatalog, SkyHorizon, SkyBand, SkyFull, SkyLoaded, SkyMaxEvents,
  ReleaseMaxRituals, ReleaseMaxKills,
  CaveAt, CaveTruth, CaveErrors, CaveIterations, CaveNoise, CaveStride,
  CaveForward, CaveTicks, CaveCap, CaveMinEvents, CaveRadius, CaveMinGap,
  CaveCeiling, CaveVoxel, CaveTileCap

VARIABLES
  part,
  fuseFile, fuseBlob, fuseTodo, fusePc, fuseBuf, fuseWant, fuseResult,
  fuseEverBlown, fuseEpochBody,
  serverUpload, serverCatalog, serverOverride, serverRoot, serverProjects,
  serverLatest, serverFiles, serverIndex, serverReadable, serverPc,
  serverMem, serverRequests, serverKills, serverBoards, serverSaved,
  fieldAtlas, fieldArm, fieldSession, fieldBound, fieldRun, fieldDocs,
  fieldLies, fieldProbes,
  fleetSetup, fleetLive, fleetProc, fleetExits,
  skyMode, skyPhase, skyWindows, skyT, skyEnv, skyPeak, skyMerged, skyHop,
  skyFails, skyVerdict,
  releaseDisk, releaseBins, releasePhase, releaseJob, releaseClearing,
  releasePlan, releaseOpen, releaseKills,
  cavePhase, caveSkip, caveTick, caveFired, caveEvents, caveOdom, caveMotor,
  caveTiles, caveEst, caveAfter, caveAnchor, caveVerdict

fuseVars == <<fuseFile, fuseBlob, fuseTodo, fusePc, fuseBuf, fuseWant,
  fuseResult, fuseEverBlown, fuseEpochBody>>
Fuse == INSTANCE SiliconFuseProofs WITH
  Callers <- FuseCallers, Bodies <- FuseBodies, Unbound <- None,
  Calls <- FuseCalls, MaxCount <- FuseMaxCount, Overlap <- FuseOverlap,
  StartsAbsent <- FuseStartsAbsent, file <- fuseFile, blob <- fuseBlob,
  todo <- fuseTodo, pc <- fusePc, buf <- fuseBuf, want <- fuseWant,
  result <- fuseResult, everBlown <- fuseEverBlown,
  epochBody <- fuseEpochBody

serverVars == <<serverUpload, serverCatalog, serverOverride, serverRoot,
  serverProjects, serverLatest, serverFiles, serverIndex, serverReadable,
  serverPc, serverMem, serverRequests, serverKills, serverBoards, serverSaved>>
Server == INSTANCE DeskServerProofs WITH
  Threads <- ServerThreads, Packs <- ServerPacks, Default <- ServerDefault,
  MaxRequests <- ServerMaxRequests, MaxKills <- ServerMaxKills,
  Keep <- ServerKeep, Overlap <- ServerOverlap, upload <- serverUpload,
  catalog <- serverCatalog, override <- serverOverride, root <- serverRoot,
  projects <- serverProjects, latest <- serverLatest, files <- serverFiles,
  index <- serverIndex, readable <- serverReadable, pc <- serverPc,
  mem <- serverMem, requests <- serverRequests, kills <- serverKills,
  boards <- serverBoards, saved <- serverSaved

fieldVars == <<fieldAtlas, fieldArm, fieldSession, fieldBound, fieldRun,
  fieldDocs, fieldLies, fieldProbes>>
Field == INSTANCE Probe WITH
  Lanes <- FieldLanes, Atlases <- FieldAtlases, Slice <- FieldSlice,
  Tax <- FieldTax, MaxRuns <- FieldMaxRuns, Unset <- None,
  atlas <- fieldAtlas, arm <- fieldArm, session <- fieldSession,
  bound <- fieldBound, run <- fieldRun, docs <- fieldDocs, lies <- fieldLies,
  probes <- fieldProbes

fleetVars == <<fleetSetup, fleetLive, fleetProc, fleetExits>>
Fleet == INSTANCE RobotOsProofs WITH
  Relay <- FleetRelay, Ticks <- FleetTicks, Stride <- FleetStride,
  Zones <- FleetZones, Setups <- FleetSetups, MaxVersion <- FleetMaxVersion,
  MaxExits <- FleetMaxExits,
  setup <- fleetSetup, live <- fleetLive, proc <- fleetProc,
  exits <- fleetExits

skyVars == <<skyMode, skyPhase, skyWindows, skyT, skyEnv, skyPeak, skyMerged,
  skyHop, skyFails, skyVerdict>>
Sky == INSTANCE Storm WITH
  Catalog <- SkyCatalog, Horizon <- SkyHorizon, Band <- SkyBand,
  Full <- SkyFull, Loaded <- SkyLoaded, MaxEvents <- SkyMaxEvents, mode <- skyMode, phase <- skyPhase,
  windows <- skyWindows, t <- skyT, env <- skyEnv, peak <- skyPeak,
  merged <- skyMerged, hop <- skyHop, fails <- skyFails,
  verdict <- skyVerdict

releaseVars == <<releaseDisk, releaseBins, releasePhase, releaseJob,
  releaseClearing, releasePlan, releaseOpen, releaseKills>>
Release == INSTANCE RitualProofs WITH
  MaxRituals <- ReleaseMaxRituals, MaxKills <- ReleaseMaxKills,
  disk <- releaseDisk, bins <- releaseBins, phase <- releasePhase,
  job <- releaseJob, clearing <- releaseClearing, plan <- releasePlan,
  open <- releaseOpen, kills <- releaseKills

caveVars == <<cavePhase, caveSkip, caveTick, caveFired, caveEvents, caveOdom,
  caveMotor, caveTiles, caveEst, caveAfter, caveAnchor, caveVerdict>>
Cave == INSTANCE Slam WITH
  Site <- CaveAt, Truth <- CaveTruth, Errors <- CaveErrors,
  Iterations <- CaveIterations, Noise <- CaveNoise, Stride <- CaveStride,
  Forward <- CaveForward, Ticks <- CaveTicks, Cap <- CaveCap,
  MinEvents <- CaveMinEvents, Radius <- CaveRadius, MinGap <- CaveMinGap,
  Ceiling <- CaveCeiling, Voxel <- CaveVoxel, TileCap <- CaveTileCap,
  phase <- cavePhase, skip <- caveSkip,
  tick <- caveTick, fired <- caveFired, events <- caveEvents,
  odom <- caveOdom, motor <- caveMotor, tiles <- caveTiles, est <- caveEst,
  after <- caveAfter, anchor <- caveAnchor, verdict <- caveVerdict
-----------------------------------------------------------------------------
ASSUME PartsAssumption ==
    /\ Fuse!FuseAssumption /\ Fuse!CallsAssumption
    /\ Server!DeskAssumption
    /\ ExperimentsAssumption
    /\ Field!ProbeAssumption
    /\ Fleet!RobotOsAssumption
    /\ Sky!StormAssumption
    /\ Release!RitualAssumption
    /\ Cave!SlamAssumption

Parts == {"fuse", "server", "lab", "field", "fleet", "sky", "release", "cave"}
PartsVars == <<part, fuseVars, serverVars, vars, fieldVars, fleetVars,
               skyVars, releaseVars, caveVars>>

(* The choices of a part's initial state are open in its own behaviours    *)
(* only.                                                                   *)
PartsInit ==
    /\ part \in Parts
    /\ Fuse!Init /\ Server!Init /\ Init
    /\ Field!Init /\ (part # "field" => fieldAtlas = (CHOOSE a \in FieldAtlases : TRUE) /\ ~fieldArm)
    /\ Fleet!Init /\ (part # "fleet" => fleetSetup = CHOOSE s \in FleetSetups : TRUE)
    /\ Sky!Init /\ (part # "sky" => skyMode = "physics")
    /\ Release!Init /\ (part # "release" => releaseBins = "absent")
    /\ Cave!Init /\ (part # "cave" => ~caveSkip)

Rests ==
    /\ UNCHANGED part
    /\ part # "fuse" => UNCHANGED fuseVars
    /\ part # "server" => UNCHANGED serverVars
    /\ part # "lab" => UNCHANGED vars
    /\ part # "field" => UNCHANGED fieldVars
    /\ part # "fleet" => UNCHANGED fleetVars
    /\ part # "sky" => UNCHANGED skyVars
    /\ part # "release" => UNCHANGED releaseVars
    /\ part # "cave" => UNCHANGED caveVars

PartsNext ==
    /\ Rests
    /\ \/ part = "fuse" /\ Fuse!Next
       \/ part = "server" /\ Server!Next
       \/ part = "lab" /\ Next
       \/ part = "field" /\ Field!Next
       \/ part = "fleet" /\ Fleet!Next
       \/ part = "sky" /\ Sky!Next
       \/ part = "release" /\ Release!Next
       \/ part = "cave" /\ Cave!Next

PartsSpec == PartsInit /\ [][PartsNext]_PartsVars

-----------------------------------------------------------------------------
(* Every variable of every part stays in its domain.                       *)
PartsTypeOK ==
    /\ Fuse!TypeOK /\ Server!TypeOK /\ TypeOK /\ Field!TypeOK
    /\ Fleet!TypeOK /\ Sky!TypeOK /\ Release!TypeOK /\ Cave!TypeOK

(* The properties of the instances, under names of this module; each is    *)
(* stated and explained where it is defined.  The fuse has two callers and *)
(* the desk server two requests at once here.                              *)
OverlapHolds == []Fuse!StaysBlown /\ Fuse!OnlyHandsTamper /\ []Server!DeskUntouched
JudgedAsMeasured == Field!JudgedAsMeasured
SidesPartition == Field!SidesPartition
HandoffEarned == Fleet!HandoffEarned
VetoHolds == Fleet!VetoHolds
TicksOnce == Fleet!TicksOnce
ScheduleFollowed == Sky!ScheduleFollowed
PackReverifies == Release!PackReverifies
SlamSound == Cave!SlamSound
=============================================================================
