CONSTANTS
  w1 = w1
  w2 = w2
  Nobody = Nobody
  Nil = Nil
  Writers <- TwoWriters
  Texts = {"new"}
  Retries = 2
  Foreign = TRUE
  MaxKills = 1
  DeskProjects = {"p1", "p2", "p3"}
  DeskBodies <- Uploads
  DeskMalformed = {"broken"}
  DeskRegistry = {"arm"}
  DeskFiles = {"arm.urdf", "rover.urdf"}
  DeskFileOf <- UploadName
  DeskThreads = {"t1"}
  DeskLimit = 1
  DeskKeep = 1
  DeskMaxRequests = 4
  DeskMaxKills = 1
  BootRobots = {"r1"}
  BootScenes = {"s1", "s2"}
  BootOneShot = "dual"
  BootMaxBoots = 2
  BootMaxScenes = 2
SPECIFICATION FilesSpec
INVARIANTS FilesTypeOK TornIsBeingFilled Attested ActiveAlive AttachKept BootPromises
PROPERTIES ImplementsRegister WritesEnd
CHECK_DEADLOCK FALSE
