SPECIFICATION Spec
CONSTANTS
  Pool = {p1, p2}
  Handlers = {h1}
  Tools = {t1}
  Scripts = {}
  FreeScripts = {}
  NoCall = NoCall
  NoThread = NoThread
  MaxFaults = 0
  MaxCrashes = 0
SYMMETRY ThreadSymmetry
INVARIANT ContainerIsTracked
CHECK_DEADLOCK FALSE
