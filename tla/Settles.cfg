SPECIFICATION FairSpec
CONSTANTS
  Pool = {p1, p2}
  Handlers = {}
  Tools = {t1}
  Scripts = {s1}
  FreeScripts = {}
  NoCall = NoCall
  NoThread = NoThread
  MaxFaults = 0
  MaxCrashes = 0
PROPERTY Settles
CHECK_DEADLOCK FALSE
