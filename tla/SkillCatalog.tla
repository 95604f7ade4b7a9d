----------------------------- MODULE SkillCatalog -----------------------------
(***************************************************************************)
(* The skills of a project: drafts that are edited under a revision, and   *)
(* versions published from them, with packages in an object store.         *)
(*                                                                         *)
(* A handler takes a snapshot of the draft in one transaction, reads or    *)
(* writes packages with no lock held, and commits in a second transaction  *)
(* that locks the skill and compares the draft with the snapshot.  Every   *)
(* package is stored under a key of its own, so a package here is that     *)
(* key, a number; its content never changes.                               *)
(*                                                                         *)
(* past and base are history variables: the package of each revision, and  *)
(* the package each one was edited from.                                   *)
(***************************************************************************)
EXTENDS Sequences, Identity

CONSTANTS
  Skills,       \* skill ids, one name each
  OldSkills,    \* skills that are there from the start, published
  Home,         \* the project of the skills
  Keys          \* idempotency keys of publications

VARIABLES
  skills,       \* Skill and SkillDraft, None when there is no such skill
  versions,     \* SkillVersion of each skill, in order
  stored,       \* how many packages are in the object store
  edits,        \* what the handler of each client works on
  published,    \* what publish answered
  past, base

skillVars == <<skills, versions, stored, edits, published, past, base>>

Packages == Nat \ {0}
Draft == [rev : Nat \ {0}, pkg : Packages]
Skill == [rev : Nat \ {0}, pkg : Packages, enabled : BOOLEAN, current : Nat]
Version == [pkg : Packages, rev : Nat \ {0}, key : Keys \cup {None}]
Edits == [op : {"create", "save", "import", "publish"},
          at : {"put", "commit", "look", "read", "lock", "again"}, on : SUBSET Skills,
          was : [Skills -> Draft \cup {None}], pkgs : [Skills -> Nat],
          key : Keys \cup {None}, rev : Nat]

ASSUME SkillAssumption ==
  /\ Home \in Projects /\ OldSkills \subseteq Skills /\ IsFiniteSet(OldSkills)
  /\ None \notin Skill \cup Draft /\ None \notin Edits

Answer(k, key, rev, n) == [skill |-> k, key |-> key, rev |-> rev, version |-> n]

(* Draft 1 was published under a key that is never used again. *)
SkillInit ==
  /\ \E number \in [OldSkills -> 1..Cardinality(OldSkills)] :
       /\ \A j, k \in OldSkills : number[j] = number[k] => j = k
       /\ skills = [k \in Skills |-> IF k \in OldSkills
                      THEN [rev |-> 2, pkg |-> number[k], enabled |-> TRUE, current |-> 1] ELSE None]
       /\ versions = [k \in Skills |-> IF k \in OldSkills
                      THEN <<[pkg |-> number[k], rev |-> 1, key |-> None]>> ELSE <<>>]
       /\ past = [k \in Skills |-> IF k \in OldSkills THEN <<number[k], number[k]>> ELSE <<>>]
  /\ stored = Cardinality(OldSkills)
  /\ edits = [c \in Clients |-> None]
  /\ published = {}
  /\ base = [n \in 1..Cardinality(OldSkills) |-> 0]

-----------------------------------------------------------------------------
(* Helpers *)

(* require_skill_access, in each transaction: the project must be active. *)
ProjectOpen == Home \in openProjects
Present(k) == skills[k] # None

(* snapshot_draft: what the handler keeps of the draft. *)
Snapshot(k) == IF Present(k) THEN [rev |-> skills[k].rev, pkg |-> skills[k].pkg] ELSE None

(* lock_skill, then the draft compared with the snapshot. *)
Unchanged_Mutant(e, k) == Present(k) /\ ProjectOpen    \* locks, and compares nothing
Unchanged(e, k) == ProjectOpen /\ Snapshot(k) = e.was[k]

(* _advance_draft: every change of a draft is a new revision. *)
Advanced_Mutant(k, pkg) == [skills[k] EXCEPT !.pkg = pkg]
Advanced(k, pkg) == [skills[k] EXCEPT !.rev = @ + 1, !.pkg = pkg]

Snapshots(T) == [k \in Skills |-> IF k \in T THEN Snapshot(k) ELSE None]
Edit(op, at, T) == [op |-> op, at |-> at, on |-> T, was |-> Snapshots(T),
                    pkgs |-> [k \in Skills |-> 0], key |-> None, rev |-> 0]
SkillStep(c, op, at) == edits[c] # None /\ edits[c].op = op /\ edits[c].at = at
Moves(c, at) == GoesOn /\ edits' = [edits EXCEPT ![c].at = at]
Closes(c) == Ends(c) /\ edits' = [edits EXCEPT ![c] = None]

-----------------------------------------------------------------------------
(* create, save_draft, import_bundle: snapshot, packages, commit *)

(* The skills that are there are edited at the revision the client saw, the
   others created; a name in use is refused. *)
BeginEdit(c, op, T) ==
  /\ ProjectOpen /\ Begins(c, op)
  /\ CASE op = "create" -> \E k \in Skills : T = {k} /\ ~Present(k)
       [] op = "save" -> \E k \in Skills : T = {k} /\ Present(k)
       [] op = "import" -> T # {}
  /\ edits' = [edits EXCEPT ![c] = Edit(op, "put", T)]
  /\ UNCHANGED <<skills, versions, stored, published, past, base>>

(* put: one package after the other, each from the package of the snapshot
   (save_draft reads that one, verified, and replaces its manifest). *)
PutPackage(c) ==
  /\ edits[c] # None /\ edits[c].at = "put"
  /\ \E k \in edits[c].on :
       /\ edits[c].pkgs[k] = 0
       /\ stored' = stored + 1
       /\ base' = Append(base, IF edits[c].was[k] = None THEN 0 ELSE edits[c].was[k].pkg)
       /\ edits' = [edits EXCEPT ![c].pkgs[k] = stored + 1,
            ![c].at = IF \A j \in edits[c].on \ {k} : edits[c].pkgs[j] # 0 THEN "commit" ELSE "put"]
  /\ GoesOn /\ UNCHANGED <<skills, versions, published, past>>

(* All of it or nothing; the ids are locked in order. *)
CommitEdit(c) ==
  /\ edits[c] # None /\ edits[c].at = "commit"
  /\ \A k \in edits[c].on : Unchanged(edits[c], k)
  /\ skills' = [k \in Skills |->
       IF k \notin edits[c].on THEN skills[k]
       ELSE IF Present(k) THEN Advanced(k, edits[c].pkgs[k])
       ELSE [rev |-> 1, pkg |-> edits[c].pkgs[k], enabled |-> TRUE, current |-> 0]]
  /\ past' = [k \in Skills |-> IF k \in edits[c].on THEN Append(past[k], edits[c].pkgs[k])
                               ELSE past[k]]
  /\ Closes(c) /\ UNCHANGED <<versions, stored, published, base>>

(* skill_revision_conflict, skill_name_conflict, skill_project_required. *)
RefuseEdit(c) ==
  /\ edits[c] # None /\ edits[c].at = "commit"
  /\ \E k \in edits[c].on : ~Unchanged(edits[c], k)
  /\ Closes(c) /\ UNCHANGED <<skills, versions, stored, published, past, base>>

-----------------------------------------------------------------------------
(* set_enabled: one transaction, at the revision the client saw *)

SetAvailable(k, b) ==
  /\ AtOnce("available") /\ ProjectOpen /\ Present(k)
  /\ skills' = [skills EXCEPT ![k] = [Advanced(k, skills[k].pkg) EXCEPT !.enabled = b]]
  /\ past' = [past EXCEPT ![k] = Append(@, skills[k].pkg)]
  /\ UNCHANGED <<versions, stored, edits, published, base>>

-----------------------------------------------------------------------------
(* publish *)

WithKey(k, key) == {n \in DOMAIN versions[k] : versions[k][n].key = key}

(* find_publish_replay: the same request is answered with its version; another
   request under the key is a conflict. *)
Replayed_Mutant(e, k) == WithKey(k, e.key)               \* forgets the digest
Replayed(e, k) == {n \in WithKey(k, e.key) : versions[k][n].rev = e.rev}
Conflicts(e, k) == \E n \in WithKey(k, e.key) : versions[k][n].rev # e.rev
Answered(e, k, n) == published' = published \cup {Answer(k, e.key, e.rev, n)}

(* The client asks for a revision it has seen. *)
BeginPublish(c, k, key, r) ==
  /\ ProjectOpen /\ Present(k) /\ r \in 1..skills[k].rev /\ Begins(c, "publish")
  /\ edits' = [edits EXCEPT ![c] = [Edit("publish", "look", {k}) EXCEPT !.key = key, !.rev = r]]
  /\ UNCHANGED <<skills, versions, stored, published, past, base>>

(* _publish_replay, at first and again when the draft has moved on or its
   package could not be read. *)
ReplayPublish(c) ==
  /\ edits[c] # None /\ edits[c].op = "publish" /\ edits[c].at # "read"
  /\ ProjectOpen
  /\ \E k \in edits[c].on : \E n \in Replayed(edits[c], k) : Answered(edits[c], k, n)
  /\ Closes(c) /\ UNCHANGED <<skills, versions, stored, past, base>>

(* The snapshot of the draft; its package is read and verified. *)
ReadDraft(c) ==
  /\ SkillStep(c, "publish", "look") /\ ProjectOpen
  /\ \E k \in edits[c].on :
       /\ Replayed(edits[c], k) = {} /\ ~Conflicts(edits[c], k)
       /\ edits' = [edits EXCEPT ![c].was = Snapshots({k}),
                                 ![c].at = IF skills[k].rev = edits[c].rev THEN "read" ELSE "again"]
  /\ GoesOn /\ UNCHANGED <<skills, versions, stored, published, past, base>>

ReadPackage(c) ==
  /\ SkillStep(c, "publish", "read")
  /\ \/ Moves(c, "lock")
     \/ /\ faults < MaxFaults /\ faults' = faults + 1 /\ UNCHANGED <<workload, busy, served>>
        /\ edits' = [edits EXCEPT ![c].at = "again"]
  /\ UNCHANGED <<skills, versions, stored, published, past, base>>

CommitPublish(c) ==
  /\ SkillStep(c, "publish", "lock")
  /\ \E k \in edits[c].on :
       /\ Replayed(edits[c], k) = {} /\ ~Conflicts(edits[c], k) /\ Unchanged(edits[c], k)
       /\ versions' = [versions EXCEPT ![k] =
            Append(@, [pkg |-> skills[k].pkg, rev |-> edits[c].rev, key |-> edits[c].key])]
       /\ skills' = [skills EXCEPT ![k] = [Advanced(k, skills[k].pkg) EXCEPT
                                           !.current = Len(versions[k]) + 1]]
       /\ past' = [past EXCEPT ![k] = Append(@, skills[k].pkg)]
       /\ Answered(edits[c], k, Len(versions[k]) + 1)
  /\ Closes(c) /\ UNCHANGED <<stored, base>>

(* skill_idempotency_conflict, skill_revision_conflict, a package that cannot
   be read, a closed project. *)
RefusePublish(c) ==
  /\ edits[c] # None /\ edits[c].op = "publish"
  /\ \E k \in edits[c].on :
       \/ ~ProjectOpen /\ edits[c].at # "read"
       \/ Conflicts(edits[c], k) /\ edits[c].at # "read"
       \/ Replayed(edits[c], k) = {} /\ edits[c].at = "again"
       \/ Replayed(edits[c], k) = {} /\ edits[c].at = "lock" /\ ~Unchanged(edits[c], k)
  /\ Closes(c) /\ UNCHANGED <<skills, versions, stored, published, past, base>>

(* An outage of the store or the database ends a request where it is. *)
BreakEdit(c) ==
  /\ edits[c] # None /\ BreaksOff(c) /\ edits' = [edits EXCEPT ![c] = None]
  /\ UNCHANGED <<skills, versions, stored, published, past, base>>

-----------------------------------------------------------------------------
SkillBegin(c) ==
  \/ \E op \in {"create", "save", "import"}, T \in SUBSET Skills : BeginEdit(c, op, T)
  \/ \E k \in Skills, key \in Keys : Present(k)
       /\ \E r \in {skills[k].rev - 1, skills[k].rev} : BeginPublish(c, k, key, r)
SkillGoesOn(c) ==
  \/ PutPackage(c) \/ CommitEdit(c) \/ RefuseEdit(c)
  \/ ReplayPublish(c) \/ ReadDraft(c) \/ ReadPackage(c) \/ CommitPublish(c) \/ RefusePublish(c)
SkillNext ==
  \/ \E c \in Clients : SkillBegin(c) \/ SkillGoesOn(c) \/ BreakEdit(c)
  \/ \E k \in Skills, b \in BOOLEAN : SetAvailable(k, b)

-----------------------------------------------------------------------------
SkillTypeOK ==
  /\ skills \in [Skills -> Skill \cup {None}]
  /\ versions \in [Skills -> Seq(Version)] /\ past \in [Skills -> Seq(Packages)]
  /\ base \in Seq(Nat) /\ stored = Len(base)
  /\ edits \in [Clients -> Edits \cup {None}]
  /\ \A k \in Skills : Present(k) => Len(past[k]) = skills[k].rev
                                     /\ skills[k].current \in 0..Len(versions[k])

(* NOTHING IS OVERWRITTEN.  Two editors of one draft, or an editor and an
   import, never lose an edit: every package of a draft was made from the
   package it replaced.  And a version is what its draft was at the revision
   that was asked for, although the package was read with no lock held. *)
NothingOverwritten ==
  \A k \in Skills :
    /\ \A i \in 1..Len(past[k]) - 1 :
         past[k][i + 1] # past[k][i] => base[past[k][i + 1]] = past[k][i]
    /\ \A n \in DOMAIN versions[k] : versions[k][n].pkg = past[k][versions[k][n].rev]

(* PUBLISHED ONCE PER KEY.  A publication that is repeated, also at the same
   time or after a lost answer, makes one version, and every answer under the
   key names a version of the revision that was asked for. *)
PublishedOncePerKey ==
  /\ \A k \in Skills, key \in Keys : Cardinality(WithKey(k, key)) <= 1
  /\ \A a \in published : versions[a.skill][a.version].key = a.key
                          /\ versions[a.skill][a.version].rev = a.rev
=============================================================================
