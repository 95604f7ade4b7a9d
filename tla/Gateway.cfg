SPECIFICATION Spec
CONSTANTS
  Threads = {t1, t2}
  Keys = {"k1", "k2"}
  Slots <- MCSlots
  Prompts = {p1}
  Calls = {c1, c2}
  Asked = {c2}
  Paths = {f1}
  Branches = {b1}
  Reports = {"completed", "interrupted"}
  None = None
  MaxRequests = 3
  MaxFaults = 1
SYMMETRY Symmetry
INVARIANT TypeOK
INVARIANT EffectOnce
INVARIANT AnsweredIsAudited
INVARIANT EventsInOrder
INVARIANT OneArtifactPerPath
INVARIANT StoresAgree
INVARIANT ReservationEnds
PROPERTY CompletedInTime
PROPERTY EndedRunIsFrozen
PROPERTY ImplementsLog
CHECK_DEADLOCK FALSE
