SPECIFICATION Spec
CONSTANTS
  Clients = {c1}
  None = None
  Workloads <- MCRoles
  MaxRequests = 2
  MaxFaults = 0
  Users = {root, u1, u2}
  OldUsers = {root, u1}
  Root = root
  Roles = {admin, role}
  AdminRole = admin
  Projects = {p}
  FailLimit = 2
  Home = p
  Skills = {s1, s2}
  OldSkills = {s1}
  s1 = s1
  Keys = {k1, k2}
  b = b
  a1 = a1
  a2 = a2
  t1 = t1
  t2 = t2
  Agents = {b, a1, a2}
  Builtin = b
  Texts = {"x", "y"}
  StdText = "x"
  Configs <- MCConfigs
  Catalogs <- MCCatalogs
  Teams = {t1, t2}
  Drafts <- MCDrafts
  Squads <- MCSquads
INVARIANT EveryChangeCounts
CHECK_DEADLOCK FALSE
