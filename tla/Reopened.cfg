SPECIFICATION Spec
CONSTANTS
  Pool = {p1, p2}
  Handlers = {h1}
  Tools = {}
  Scripts = {}
  FreeScripts = {f1}
  NoCall = NoCall
  NoThread = NoThread
  MaxFaults = 0
  MaxCrashes = 0
SYMMETRY ThreadSymmetry
PROPERTY EndIsFinal
CHECK_DEADLOCK FALSE
