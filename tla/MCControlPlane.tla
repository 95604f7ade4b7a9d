---------------------------- MODULE MCControlPlane ----------------------------
EXTENDS ControlPlane, TLC

CONSTANTS b, a1, a2, s1, t1, t2

(* What is requested together, how often, and from which catalog. *)
About(A, n, from, ops) == [ops |-> ops, most |-> n, from |-> from, about |-> A]
Load(n, from, ops) == About(Agents, n, from, ops)
Accounts == {
  Load(2, {"used"}, {"password", "reset", "roles", "role", "bind", "activate", "deactivate",
           "delete", "login", "oidcLogin", "wrongPassword", "createUser", "roleStatus",
           "deleteRole", "grant", "closeSession"}),
  Load(3, {"used"}, {"password", "reset", "login", "delete"}) }
Editing == {
  Load(2, {"used"}, {"create", "save", "import", "available", "publish", "projectStatus"}),
  Load(3, {"used"}, {"save", "publish"}) }
Managing == {
  About({b, a1}, 2, {"used", "handed"}, {"agent.get", "agent.update", "agent.enable", "agent.delete"}),
  Load(2, {"new", "used"}, {"agent.create", "agent.copy", "agent.pin", "agent.migrate"}),
  About({b, a1}, 2, {"lost"}, {"agent.copy", "agent.delete"}),
  About({a1}, 3, {"new"}, {"agent.create", "agent.delete"}) }
Publishing == {
  Load(2, {"used"}, {"team.create", "team.save", "team.publish", "team.enable", "agent.enable"}) }
Talking == { Load(3, {"used"}, {"message", "answer", "snapshot", "team.publish"}) }
MCWorkloads == Accounts \cup Editing \cup Managing \cup Publishing \cup Talking

MCCopying == { Load(1, {"used"}, {"agent.copy"}) }
MCRoles == { Load(2, {"used"}, {"createUser", "roleStatus", "deleteRole", "grant"}) }

MCConfigs == {[on |-> TRUE, text |-> "y", names |-> {s1}], [on |-> FALSE, text |-> "x", names |-> {}]}
Row(on, names, common) ==
  [on |-> on, text |-> "x", names |-> names, binds |-> {}, common |-> common]
Old(rows, at, v) ==
  [agents |-> [a \in Agents |-> IF a \in DOMAIN rows THEN rows[a] ELSE None],
   pointer |-> [at |-> at, ver |-> v]]
(* Nothing; a catalog in use, with an agent of the time before skills were bound;
   one whose default was handed to another agent, the built-in one disabled;
   one whose default cannot be used any more. *)
MCCatalogs == [n \in {"new", "used", "handed", "lost"} |->
  CASE n = "new" -> Old(<<>>, None, 0)
    [] n = "used" -> Old(b :> Row(TRUE, {}, TRUE) @@ a1 :> Row(TRUE, {s1}, FALSE), b, 1)
    [] n = "handed" -> Old(b :> Row(FALSE, {}, TRUE) @@ a1 :> Row(TRUE, {}, TRUE), a1, 1)
    [] n = "lost" -> Old(b :> Row(TRUE, {}, TRUE) @@ a1 :> Row(FALSE, {}, TRUE), a1, 1)]

MCDrafts == {{b, a1}, {a1, a2}}
Member == Row(TRUE, {}, TRUE)
MCSquads == {
  [teams |-> [t \in Teams |-> IF t = t1 THEN [rev |-> 2, draft |-> {b, a1}, on |-> TRUE, current |-> 1]
                              ELSE None],
   teamVersions |-> [t \in Teams |-> IF t = t1
      THEN <<[rev |-> 2, members |-> (b :> Member @@ a1 :> Member)]>> ELSE <<>>]] }
===============================================================================
