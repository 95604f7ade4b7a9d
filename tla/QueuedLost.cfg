SPECIFICATION Spec
CONSTANTS
  Pool = {p1, p2}
  Handlers = {h1}
  Tools = {}
  Scripts = {}
  FreeScripts = {f1}
  NoCall = NoCall
  NoThread = NoThread
  MaxFaults = 0
  MaxCrashes = 1
SYMMETRY ThreadSymmetry
INVARIANT QueuedHasOwner
CHECK_DEADLOCK FALSE
