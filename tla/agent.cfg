SPECIFICATION MCSpec
CONSTANTS
  zip1 = zip1 tar1 = tar1 folder1 = folder1
  short = short long = long
  Installed = Installed Broken = Broken None = None
  Sticks = {zip1, folder1}
  Kind <- MCKind
  MaxPlugs = 2
  MaxCrashes = 1
  Names = {short, long}
  EventSize <- MCEventSize
  Capacity = 4
  MaxOpeners = 2
  MaxChanges = 5
INVARIANTS
  PolicyOrBackup
  RestoredAfterFailure
  ArchiveInstalls
  PlatformComesBack
PROPERTIES
  MountedIsConsumed
  ReadyFilesOnly
  SettledIsHanded
CHECK_DEADLOCK FALSE
