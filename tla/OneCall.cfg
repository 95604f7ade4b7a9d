SPECIFICATION Spec
CONSTANTS
  Pool = {p1, p2}
  Handlers = {h1}
  Tools = {t1}
  Scripts = {s1}
  FreeScripts = {f1}
  NoCall = NoCall
  NoThread = NoThread
  MaxFaults = 1
  MaxCrashes = 1
SYMMETRY ThreadSymmetry
CONSTRAINT OneKind
INVARIANT TypeOK
INVARIANT AtMostOnceApproved
INVARIANT OneStarter
INVARIANT ApprovalInv
INVARIANT ScriptRunsApproved
INVARIANT CompletedIsReported
INVARIANT LeasesEndWithRun
INVARIANT EndedRunHasNoToken
INVARIANT TrackedUnlessPaused
PROPERTY ReopenedOnlyByStart
PROPERTY EndedRunIsQuiet
PROPERTY ImplementsContract
CHECK_DEADLOCK FALSE
