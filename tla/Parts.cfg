CONSTANTS
  None = None
  Workers = {"a", "b"}
  Runs = {"r1", "r2"}
  Ids = {"e1", "e2"}
  Workloads <- LabWorkloads
  MaxJobs = 2
  MaxKills = 1
  FuseCallers = {"c1", "c2"}
  FuseBodies = {"b1"}
  FuseCalls = {"ensure", "status", "blow", "gate", "require"}
  FuseMaxCount = 2
  FuseOverlap = TRUE
  FuseStartsAbsent = FALSE
  ServerThreads = {"t1", "t2"}
  ServerPacks = {"packA", "packB"}
  ServerDefault = "default"
  ServerMaxRequests = 2
  ServerMaxKills = 1
  ServerKeep = 2
  ServerOverlap = TRUE
  FieldLanes = {"moon", "earth"}
  FieldAtlases <- Atlases
  FieldSlice = 12
  FieldTax = 1
  FieldMaxRuns = 2
  FleetRelay <- Scouts
  FleetTicks = 4
  FleetStride = 1
  FleetZones <- OneCell
  FleetSetups <- TwoScouts
  FleetMaxVersion = 30
  FleetMaxExits = 1
  SkyCatalog <- SkyEvents
  SkyHorizon = 4
  SkyBand = 5
  SkyFull = 4
  SkyLoaded = 2
  SkyMaxEvents = 2
  ReleaseMaxRituals = 2
  ReleaseMaxKills = 1
  CaveAt <- Shaft
  CaveTruth = 10
  CaveErrors <- PoseErrors
  CaveIterations = 2
  CaveNoise <- TileNoise
  CaveStride = 24
  CaveForward = 3
  CaveTicks = 2
  CaveCap = 2
  CaveMinEvents = 2
  CaveRadius = 30
  CaveMinGap = 2
  CaveCeiling = 2
  CaveVoxel = 6
  CaveTileCap = 3
SPECIFICATION PartsSpec
INVARIANTS
  PartsTypeOK ChainsTold FiledIsListed JudgedAsMeasured SidesPartition
  HandoffEarned ScheduleFollowed PackReverifies SlamSound
PROPERTIES VetoHolds TicksOnce OverlapHolds
CHECK_DEADLOCK FALSE
