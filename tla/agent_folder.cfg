SPECIFICATION MCSpec
CONSTANTS
  zip1 = zip1 tar1 = tar1 folder1 = folder1
  short = short long = long
  Installed = Installed Broken = Broken None = None
  Sticks = {folder1}
  Kind <- MCKind
  MaxPlugs = 1
  MaxCrashes = 0
  Names = {}
  EventSize <- MCEventSize
  Capacity = 4
  MaxOpeners = 1
  MaxChanges = 0
INVARIANT SuccessInstalls
CHECK_DEADLOCK FALSE
