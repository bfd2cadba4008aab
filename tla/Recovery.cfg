CONSTANTS
  p1 = p1
  p2 = p2
  Nobody = Nobody
  NoArtifact = NoArtifact
  Process = {p1, p2}
  Artifact = {1, 2}
  MaxVersion = 2
  MaxCrashes = 1
  Faults = {"lock", "publish"}
SPECIFICATION Spec
INVARIANTS TypeOK UsersHoldTheLock StraysAreLeft
PROPERTIES HolderWrites SavesAreInformed WorkIsKept SupersededAreRemoved
