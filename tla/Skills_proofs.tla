---------------------------- MODULE Skills_proofs ----------------------------
(***************************************************************************)
(* Proofs about the skills of a project for any number of skills, clients, *)
(* keys, requests and faults: no edit of a draft is lost, a version is the *)
(* draft of the revision that was asked for, and a key publishes once.     *)
(*                                                                         *)
(* The invariant says what a handler knows while it holds no lock: the     *)
(* packages it has put were made from the draft of its snapshot, and the   *)
(* snapshot of a publication is of the revision that was asked for.        *)
(***************************************************************************)
EXTENDS ControlPlane, FiniteSetTheorems, TLAPS

(* The last package of a draft's history is the draft's. *)
DraftsAgree ==
  \A k \in Skills :
    IF Present(k) THEN Len(past[k]) = skills[k].rev /\ past[k][Len(past[k])] = skills[k].pkg
    ELSE past[k] = <<>>
PackagesStored == \A k \in Skills : \A i \in DOMAIN past[k] : past[k][i] <= Len(base)
Edited ==
  \A k \in Skills : \A i \in 1..Len(past[k]) - 1 :
    past[k][i + 1] # past[k][i] => base[past[k][i + 1]] = past[k][i]
VersionsAgree ==
  \A k \in Skills : \A n \in DOMAIN versions[k] :
    /\ versions[k][n].rev <= Len(past[k])
    /\ versions[k][n].pkg = past[k][versions[k][n].rev]
(* What a handler relies on between its two transactions. *)
PutFrom(e, k) ==
  e.pkgs[k] # 0 => /\ e.pkgs[k] <= Len(base)
                   /\ base[e.pkgs[k]] = IF e.was[k] = None THEN 0 ELSE e.was[k].pkg
EditAgrees(e) ==
  \A k \in e.on :
    /\ PutFrom(e, k)
    /\ e.at = "commit" => e.pkgs[k] # 0
    /\ e.op = "publish" => Present(k) /\ e.on = {k} /\ e.pkgs[k] = 0 /\ e.at # "put"
    /\ e.op = "publish" /\ e.at \in {"read", "lock"} => e.was[k] # None /\ e.was[k].rev = e.rev
EditsAgree == \A c \in Clients : edits[c] # None => EditAgrees(edits[c])
KeysOnce ==
  \A k \in Skills, key \in Keys : \A m, n \in WithKey(k, key) : m = n
AnswersStand ==
  \A a \in published :
    /\ a.skill \in Skills /\ a.version \in DOMAIN versions[a.skill]
    /\ versions[a.skill][a.version].key = a.key /\ versions[a.skill][a.version].rev = a.rev

SkillTypes ==
  /\ skills \in [Skills -> Skill \cup {None}]
  /\ versions \in [Skills -> Seq(Version)] /\ past \in [Skills -> Seq(Packages)]
  /\ base \in Seq(Nat)
  /\ edits \in [Clients -> Edits \cup {None}]
SkillInv ==
  /\ SkillTypes /\ DraftsAgree /\ PackagesStored /\ Edited /\ VersionsAgree
  /\ stored = Len(base) /\ EditsAgree /\ KeysOnce /\ AnswersStand

LEMMA SkillInvInit ==
  ASSUME SkillInit
  PROVE  SkillInv
<1>1. PICK number \in [OldSkills -> 1..Cardinality(OldSkills)] :
       /\ skills = [k \in Skills |-> IF k \in OldSkills
                      THEN [rev |-> 2, pkg |-> number[k], enabled |-> TRUE, current |-> 1] ELSE None]
       /\ versions = [k \in Skills |-> IF k \in OldSkills
                      THEN <<[pkg |-> number[k], rev |-> 1, key |-> None]>> ELSE <<>>]
       /\ past = [k \in Skills |-> IF k \in OldSkills THEN <<number[k], number[k]>> ELSE <<>>]
  BY DEF SkillInit
<1>2. Cardinality(OldSkills) \in Nat BY SkillAssumption, FS_CardinalityType
<1>3. base \in Seq(Nat) /\ Len(base) = Cardinality(OldSkills) /\ stored = Len(base)
  BY <1>2 DEF SkillInit
<1>4. \A k \in OldSkills : number[k] \in Packages /\ number[k] <= Len(base) BY <1>2, <1>3 DEF Packages
<1>5. skills \in [Skills -> Skill \cup {None}] BY <1>1, <1>4 DEF Skill
<1>6. \A k \in OldSkills : [pkg |-> number[k], rev |-> 1, key |-> None] \in Version
  BY <1>4 DEF Version
<1>7. versions \in [Skills -> Seq(Version)]
  <2>1. \A k \in OldSkills : <<[pkg |-> number[k], rev |-> 1, key |-> None]>> \in Seq(Version) BY <1>6
  <2> QED BY <1>1, <2>1
<1>8. past \in [Skills -> Seq(Packages)]
  <2>1. \A k \in OldSkills : <<number[k], number[k]>> \in Seq(Packages) BY <1>4
  <2> QED BY <1>1, <2>1
<1>9. SkillTypes BY <1>3, <1>5, <1>7, <1>8 DEF SkillTypes, SkillInit
<1>10. \A k \in Skills : Present(k) <=> k \in OldSkills
  <2>1. \A k \in OldSkills : skills[k] \in Skill BY <1>1, <1>4, SkillAssumption DEF Skill
  <2>2. \A k \in Skills \ OldSkills : skills[k] = None BY <1>1
  <2>3. None \notin Skill BY SkillAssumption
  <2> QED BY <2>1, <2>2, <2>3 DEF Present
<1>11. DraftsAgree BY <1>1, <1>10 DEF DraftsAgree
<1>12. PackagesStored BY <1>1, <1>4 DEF PackagesStored
<1>13. Edited BY <1>1 DEF Edited
<1>14. VersionsAgree BY <1>1 DEF VersionsAgree
<1>15. EditsAgree BY DEF EditsAgree, SkillInit
<1>16. KeysOnce BY <1>1 DEF KeysOnce, WithKey
<1>17. AnswersStand BY DEF AnswersStand, SkillInit
<1> QED BY <1>3, <1>9, <1>11, <1>12, <1>13, <1>14, <1>15, <1>16, <1>17 DEF SkillInv

-----------------------------------------------------------------------------
(* A draft that moves on: a new revision, whose package is the one before or
   was made from it. *)
NewDraft(k, p) ==
  /\ past'[k] = Append(past[k], p) /\ p \in Packages /\ p <= Len(base)
  /\ skills'[k] \in Skill /\ skills'[k].pkg = p /\ skills'[k].rev = Len(past[k]) + 1
  /\ Present(k) => p = skills[k].pkg \/ base[p] = skills[k].pkg
SameDraft(k) == past'[k] = past[k] /\ (skills'[k] = skills[k])
DraftsMove ==
  /\ skills' = [k \in Skills |-> skills'[k]] /\ past' = [k \in Skills |-> past'[k]]
  /\ base' = base
  /\ \A k \in Skills : SameDraft(k) \/ \E p \in Packages : NewDraft(k, p)

LEMMA PastGrows ==
  ASSUME SkillInv, DraftsMove, NEW k \in Skills
  PROVE  /\ past'[k] \in Seq(Packages) /\ Len(past[k]) \in Nat /\ Len(past[k]) <= Len(past'[k])
         /\ \A i \in 1..Len(past[k]) : past'[k][i] = past[k][i]
         /\ \A i \in 1..Len(past'[k]) :
              i \in 1..Len(past[k]) \/ (i = Len(past[k]) + 1 /\ ~SameDraft(k))
<1>1. past[k] \in Seq(Packages) BY DEF SkillInv, SkillTypes
<1>2. CASE SameDraft(k) BY <1>1, <1>2 DEF SameDraft
<1>3. CASE ~SameDraft(k)
  <2>1. PICK p \in Packages : past'[k] = Append(past[k], p) BY <1>3 DEF DraftsMove, NewDraft
  <2> QED BY <1>1, <1>3, <2>1
<1> QED BY <1>2, <1>3

LEMMA DraftsMoveKeeps ==
  ASSUME SkillInv, DraftsMove
  PROVE  /\ skills' \in [Skills -> Skill \cup {None}] /\ past' \in [Skills -> Seq(Packages)]
         /\ DraftsAgree' /\ PackagesStored' /\ Edited'
         /\ \A k \in Skills : Present(k) => Present(k)'
<1>1. \A k \in Skills : past'[k] \in Seq(Packages) BY PastGrows
<1>2. \A k \in Skills : skills'[k] \in Skill \cup {None}
  BY DEF DraftsMove, SameDraft, NewDraft, SkillInv, SkillTypes
<1>3. skills' \in [Skills -> Skill \cup {None}] /\ past' \in [Skills -> Seq(Packages)]
  BY <1>1, <1>2 DEF DraftsMove
<1>4. None \notin Skill BY SkillAssumption
<1>5. \A k \in Skills : past[k] \in Seq(Packages) BY DEF SkillInv, SkillTypes
<1>6. DraftsAgree'
  <2> SUFFICES ASSUME NEW k \in Skills
               PROVE  IF Present(k)' THEN /\ Len(past'[k]) = skills'[k].rev
                                          /\ past'[k][Len(past'[k])] = skills'[k].pkg
                      ELSE past'[k] = <<>>
    BY DEF DraftsAgree
  <2>1. CASE SameDraft(k) BY <2>1 DEF SameDraft, SkillInv, DraftsAgree, Present
  <2>2. ASSUME NEW p \in Packages, NewDraft(k, p)
        PROVE  /\ Present(k)' /\ Len(past'[k]) = skills'[k].rev
               /\ past'[k][Len(past'[k])] = skills'[k].pkg
    BY <1>4, <1>5, <2>2 DEF NewDraft, Present
  <2> QED BY <2>1, <2>2 DEF DraftsMove
<1>7. PackagesStored'
  <2> SUFFICES ASSUME NEW k \in Skills, NEW i \in DOMAIN past'[k]
               PROVE  past'[k][i] <= Len(base)
    BY DEF PackagesStored, DraftsMove
  <2>1. CASE SameDraft(k) BY <2>1 DEF SameDraft, SkillInv, PackagesStored
  <2>2. ASSUME NEW p \in Packages, NewDraft(k, p)
        PROVE  past'[k][i] <= Len(base)
    BY <1>5, <2>2 DEF NewDraft, SkillInv, PackagesStored
  <2> QED BY <2>1, <2>2 DEF DraftsMove
<1>8. Edited'
  <2> SUFFICES ASSUME NEW k \in Skills, NEW i \in 1..Len(past'[k]) - 1,
                      past'[k][i + 1] # past'[k][i]
               PROVE  base[past'[k][i + 1]] = past'[k][i]
    BY DEF Edited, DraftsMove
  <2>1. CASE SameDraft(k) BY <2>1 DEF SameDraft, SkillInv, Edited
  <2>2. ASSUME NEW p \in Packages, NewDraft(k, p)
        PROVE  base[past'[k][i + 1]] = past'[k][i]
    <3>1. past'[k] = Append(past[k], p) /\ Len(past'[k]) = Len(past[k]) + 1 /\ Len(past[k]) \in Nat
      BY <1>5, <2>2 DEF NewDraft
    <3>2. CASE i < Len(past[k])
      <4>1. past'[k][i] = past[k][i] /\ past'[k][i + 1] = past[k][i + 1] /\ i \in 1..Len(past[k]) - 1
        BY <1>5, <3>1, <3>2
      <4> QED BY <4>1 DEF SkillInv, Edited
    <3>3. CASE i = Len(past[k])
      <4>1. past'[k][i + 1] = p /\ past'[k][i] = past[k][Len(past[k])] /\ Len(past[k]) > 0
        BY <1>5, <3>1, <3>3
      <4>2. Present(k) BY <4>1 DEF SkillInv, DraftsAgree
      <4>3. past[k][Len(past[k])] = skills[k].pkg BY <4>2 DEF SkillInv, DraftsAgree
      <4> QED BY <2>2, <4>1, <4>2, <4>3 DEF NewDraft
    <3> QED BY <3>1, <3>2, <3>3
  <2> QED BY <2>1, <2>2 DEF DraftsMove
<1>9. ASSUME NEW k \in Skills, Present(k) PROVE Present(k)'
  BY <1>4, <1>9 DEF DraftsMove, SameDraft, NewDraft, Present
<1> QED BY <1>3, <1>6, <1>7, <1>8, <1>9

(* What a version was published from does not change any more. *)
LEMMA VersionsKeep ==
  ASSUME SkillInv, DraftsMove, versions' = versions
  PROVE  VersionsAgree' /\ KeysOnce'
<1>1. VersionsAgree'
  <2> SUFFICES ASSUME NEW k \in Skills, NEW n \in DOMAIN versions[k]
               PROVE  /\ versions[k][n].rev <= Len(past'[k])
                      /\ versions[k][n].pkg = past'[k][versions[k][n].rev]
    BY DEF VersionsAgree
  <2>1. versions[k][n].rev \in Nat \ {0}
    <3>1. versions[k] \in Seq(Version) BY DEF SkillInv, SkillTypes
    <3>2. versions[k][n] \in Version BY <3>1
    <3> QED BY <3>2 DEF Version
  <2>2. /\ versions[k][n].rev <= Len(past[k])
        /\ versions[k][n].pkg = past[k][versions[k][n].rev]
    BY DEF SkillInv, VersionsAgree
  <2>3. past'[k] \in Seq(Packages) BY PastGrows
  <2> QED BY <2>1, <2>2, <2>3, PastGrows
<1> QED BY <1>1 DEF SkillInv, KeysOnce, WithKey

(* An edit stays true while packages are added and skills come; the one of the
   step is what it says. *)
LEMMA EditsKeep ==
  ASSUME SkillInv, base' = base \/ \E n \in Nat : base' = Append(base, n),
         \A k \in Skills : Present(k) => Present(k)',
         NEW c \in Clients, NEW e \in Edits \cup {None}, edits' = [edits EXCEPT ![c] = e],
         e # None => EditAgrees(e)'
  PROVE  edits' \in [Clients -> Edits \cup {None}] /\ EditsAgree'
<1>1. edits' \in [Clients -> Edits \cup {None}] BY DEF SkillInv, SkillTypes
<1>2. base \in Seq(Nat) BY DEF SkillInv, SkillTypes
<1>3. \A i \in 1..Len(base) : i <= Len(base') /\ base'[i] = base[i] BY <1>2
<1>4. ASSUME NEW d \in Clients, d # c, edits[d] # None
      PROVE  EditAgrees(edits[d])'
  <2> DEFINE f == edits[d]
  <2>1. f \in Edits /\ EditAgrees(f) BY <1>4 DEF SkillInv, SkillTypes, EditsAgree
  <2>2. edits'[d] = f BY <1>4 DEF SkillInv, SkillTypes
  <2> HIDE DEF f
  <2>3. \A k \in f.on : k \in Skills /\ f.pkgs[k] \in Nat BY <2>1 DEF Edits
  <2>4. ASSUME NEW k \in f.on, f.pkgs[k] # 0
        PROVE  /\ f.pkgs[k] <= Len(base')
               /\ base'[f.pkgs[k]] = IF f.was[k] = None THEN 0 ELSE f.was[k].pkg
    <3>1. f.pkgs[k] \in 1..Len(base) BY <1>2, <2>1, <2>3, <2>4 DEF EditAgrees, PutFrom
    <3> QED BY <1>3, <2>1, <2>4, <3>1 DEF EditAgrees, PutFrom
  <2> QED BY <2>1, <2>2, <2>3, <2>4 DEF EditAgrees, PutFrom
<1>5. \A d \in Clients : edits'[d] = IF d = c THEN e ELSE edits[d] BY DEF SkillInv, SkillTypes
<1>6. ASSUME NEW d \in Clients, edits'[d] # None
      PROVE  EditAgrees(edits[d])'
  <2>1. CASE d # c BY <1>4, <1>5, <1>6, <2>1
  <2>2. CASE d = c
    <3>1. edits'[d] = e /\ e # None BY <1>5, <1>6, <2>2
    <3> QED BY <3>1 DEF EditAgrees, PutFrom
  <2> QED BY <2>1, <2>2
<1> QED BY <1>1, <1>6 DEF EditsAgree

-----------------------------------------------------------------------------
(* One lemma per kind of step *)

LEMMA SnapshotType ==
  ASSUME SkillInv
  PROVE  /\ \A k \in Skills : Snapshot(k) \in Draft \cup {None}
         /\ \A k \in Skills : Present(k) => Snapshot(k) # None /\ Snapshot(k).rev = skills[k].rev
                                           /\ Snapshot(k).pkg = skills[k].pkg
         /\ \A T \in SUBSET Skills : Snapshots(T) \in [Skills -> Draft \cup {None}]
<1>1. None \notin Draft BY SkillAssumption
<1>2. ASSUME NEW k \in Skills, Present(k)
      PROVE  /\ Snapshot(k) \in Draft /\ Snapshot(k) # None
             /\ Snapshot(k).rev = skills[k].rev /\ Snapshot(k).pkg = skills[k].pkg
  <2>1. skills[k] \in Skill BY <1>2 DEF SkillInv, SkillTypes, Present
  <2> QED BY <1>1, <1>2, <2>1 DEF Snapshot, Skill, Draft
<1>3. \A k \in Skills : Snapshot(k) \in Draft \cup {None} BY <1>2 DEF Snapshot
<1> QED BY <1>2, <1>3 DEF Snapshots

LEMMA EditType ==
  ASSUME SkillInv, NEW op \in {"create", "save", "import", "publish"},
         NEW at \in {"put", "commit", "look", "read", "lock", "again"}, NEW T \in SUBSET Skills
  PROVE  Edit(op, at, T) \in Edits
BY SnapshotType DEF Edit, Edits

(* Nothing but the edit of one client, and what was answered, is different. *)
LEMMA OnlyEdits ==
  ASSUME SkillInv, UNCHANGED <<skills, versions, stored, past, base>>, AnswersStand',
         NEW c \in Clients, NEW e \in Edits \cup {None}, edits' = [edits EXCEPT ![c] = e],
         e # None => EditAgrees(e)
  PROVE  SkillInv'
<1>1. e # None => EditAgrees(e)' BY DEF EditAgrees, PutFrom, Present
<1>2. edits' \in [Clients -> Edits \cup {None}] /\ EditsAgree'
  BY <1>1, EditsKeep DEF Present
<1> QED BY <1>2 DEF SkillInv, SkillTypes, DraftsAgree, PackagesStored, Edited, VersionsAgree,
                    KeysOnce, WithKey, Present

LEMMA AnswersSame ==
  ASSUME SkillInv, UNCHANGED <<versions, published>>
  PROVE  AnswersStand'
BY DEF SkillInv, AnswersStand

LEMMA BeginEditKeeps ==
  ASSUME SkillInv, NEW c \in Clients, NEW op \in {"create", "save", "import"},
         NEW T \in SUBSET Skills, BeginEdit(c, op, T)
  PROVE  SkillInv'
<1>1. PICK e \in Edits : e = Edit(op, "put", T) BY EditType
<1>2. edits' = [edits EXCEPT ![c] = e] /\ UNCHANGED <<skills, versions, stored, published, past, base>>
  BY <1>1 DEF BeginEdit
<1>3. EditAgrees(e)
  <2>1. e.op # "publish" /\ e.at = "put" /\ \A k \in Skills : e.pkgs[k] = 0 BY <1>1 DEF Edit
  <2>2. e.on \subseteq Skills BY DEF Edits
  <2> QED BY <2>1, <2>2 DEF EditAgrees, PutFrom
<1> QED BY <1>2, <1>3, OnlyEdits, AnswersSame

LEMMA BeginPublishKeeps ==
  ASSUME SkillInv, NEW c \in Clients, NEW k \in Skills, NEW key \in Keys, NEW r,
         BeginPublish(c, k, key, r)
  PROVE  SkillInv'
<1>1. skills[k] \in Skill BY DEF BeginPublish, SkillInv, SkillTypes, Present
<1>2. r \in Nat BY <1>1 DEF BeginPublish, Skill
<1>3. Edit("publish", "look", {k}) \in Edits BY EditType
<1>4. PICK e \in Edits : e = [Edit("publish", "look", {k}) EXCEPT !.key = key, !.rev = r]
  BY <1>2, <1>3 DEF Edits
<1>5. edits' = [edits EXCEPT ![c] = e] /\ UNCHANGED <<skills, versions, stored, published, past, base>>
  BY <1>4 DEF BeginPublish
<1>6. EditAgrees(e)
  <2>1. e.at = "look" /\ e.on = {k} /\ e.pkgs[k] = 0 BY <1>4 DEF Edit
  <2>2. Present(k) BY DEF BeginPublish
  <2> QED BY <2>1, <2>2 DEF EditAgrees, PutFrom
<1> QED BY <1>5, <1>6, OnlyEdits, AnswersSame

LEMMA CloseKeeps ==
  ASSUME SkillInv, NEW c \in Clients, edits' = [edits EXCEPT ![c] = None],
         UNCHANGED <<skills, versions, stored, published, past, base>>
  PROVE  SkillInv'
BY OnlyEdits, AnswersSame

(* A request answered again names a version that is there. *)
LEMMA ReplayKeeps ==
  ASSUME SkillInv, NEW c \in Clients, ReplayPublish(c)
  PROVE  SkillInv'
<1>1. edits[c] # None /\ edits' = [edits EXCEPT ![c] = None]
      /\ UNCHANGED <<skills, versions, stored, past, base>>
  BY DEF ReplayPublish, Closes
<1>2. edits[c] \in Edits BY <1>1 DEF SkillInv, SkillTypes
<1>3. PICK k \in edits[c].on : \E n \in Replayed(edits[c], k) : Answered(edits[c], k, n)
  BY DEF ReplayPublish
<1>4. PICK n \in Replayed(edits[c], k) : Answered(edits[c], k, n) BY <1>3
<1>5. k \in Skills /\ n \in DOMAIN versions[k] /\ versions[k][n].key = edits[c].key
      /\ versions[k][n].rev = edits[c].rev
  BY <1>2, <1>3, <1>4 DEF Replayed, WithKey, Edits
<1>6. AnswersStand'
  BY <1>1, <1>4, <1>5 DEF Answered, Answer, AnswersStand, SkillInv
<1> QED BY <1>1, <1>6, OnlyEdits

LEMMA PutKeeps ==
  ASSUME SkillInv, NEW c \in Clients, PutPackage(c)
  PROVE  SkillInv'
<1>1. PICK k \in edits[c].on :
        /\ edits[c].pkgs[k] = 0
        /\ stored' = stored + 1
        /\ base' = Append(base, IF edits[c].was[k] = None THEN 0 ELSE edits[c].was[k].pkg)
        /\ edits' = [edits EXCEPT ![c].pkgs[k] = stored + 1,
             ![c].at = IF \A j \in edits[c].on \ {k} : edits[c].pkgs[j] # 0 THEN "commit" ELSE "put"]
  BY DEF PutPackage
<1>2. edits[c] # None /\ edits[c].at = "put" /\ UNCHANGED <<skills, versions, published, past>>
  BY DEF PutPackage
<1>3. edits[c] \in Edits /\ EditAgrees(edits[c]) BY <1>2 DEF SkillInv, SkillTypes, EditsAgree
<1>4. k \in Skills /\ base \in Seq(Nat) /\ stored = Len(base) BY <1>3 DEF SkillInv, SkillTypes, Edits
<1>5. PICK n \in Nat : n = IF edits[c].was[k] = None THEN 0 ELSE edits[c].was[k].pkg
  BY <1>3, <1>4 DEF Edits, Draft, Packages
<1>6. base' = Append(base, n) /\ stored' = Len(base') /\ base' \in Seq(Nat)
      /\ Len(base') = Len(base) + 1 /\ base'[Len(base) + 1] = n
      /\ \A i \in 1..Len(base) : base'[i] = base[i]
  BY <1>1, <1>4, <1>5
<1>7. PICK p \in {"put", "commit"} :
        p = IF \A j \in edits[c].on \ {k} : edits[c].pkgs[j] # 0 THEN "commit" ELSE "put"
  OBVIOUS
<1>8. PICK e \in Edits : e = [edits[c] EXCEPT !.pkgs[k] = Len(base) + 1, !.at = p]
  <2> DEFINE f == edits[c]
  <2>1. f \in Edits /\ f.pkgs \in [Skills -> Nat] BY <1>3 DEF Edits
  <2>2. [f.pkgs EXCEPT ![k] = Len(base) + 1] \in [Skills -> Nat] BY <1>4, <2>1
  <2> HIDE DEF f
  <2>3. PICK q \in [Skills -> Nat] : q = [f.pkgs EXCEPT ![k] = Len(base) + 1] BY <2>2
  <2>4. [f EXCEPT !.pkgs = q, !.at = p] \in Edits BY <1>7, <2>1, <2>3 DEF Edits
  <2>5. [f EXCEPT !.pkgs[k] = Len(base) + 1, !.at = p] = [f EXCEPT !.pkgs = q, !.at = p]
    BY <2>1, <2>3 DEF Edits
  <2> QED BY <2>4, <2>5 DEF f
<1>9. edits' = [edits EXCEPT ![c] = e] BY <1>1, <1>3, <1>4, <1>7, <1>8
<1>10. /\ e.on = edits[c].on /\ e.on \subseteq Skills /\ e.was = edits[c].was /\ e.op = edits[c].op
       /\ e.at = p /\ e.pkgs[k] = Len(base) + 1
       /\ \A j \in Skills : e.pkgs[j] = IF j = k THEN Len(base) + 1 ELSE edits[c].pkgs[j]
  BY <1>3, <1>4, <1>8 DEF Edits
<1>11. EditAgrees(e)'
  <2> SUFFICES ASSUME NEW j \in e.on
               PROVE  /\ e.pkgs[j] # 0 => /\ e.pkgs[j] <= Len(base')
                                          /\ base'[e.pkgs[j]] = IF e.was[j] = None THEN 0
                                                                ELSE e.was[j].pkg
                      /\ e.at = "commit" => e.pkgs[j] # 0
    <3>1. e.op # "publish" BY <1>2, <1>3, <1>10 DEF EditAgrees
    <3> QED BY <1>2, <1>10, <3>1 DEF EditAgrees, PutFrom, Present
  <2>1. CASE j = k BY <1>3, <1>4, <1>5, <1>6, <1>10, <2>1 DEF EditAgrees
  <2>2. CASE j # k
    <3>1. e.pkgs[j] = edits[c].pkgs[j] /\ e.pkgs[j] \in Nat /\ j \in edits[c].on
      BY <1>3, <1>10, <2>2 DEF Edits
    <3>2. e.at = "commit" => e.pkgs[j] # 0 BY <1>7, <1>10, <2>2, <3>1
    <3>3. e.pkgs[j] # 0 => /\ e.pkgs[j] \in 1..Len(base)
                           /\ base[e.pkgs[j]] = IF e.was[j] = None THEN 0 ELSE e.was[j].pkg
      BY <1>3, <1>4, <1>10, <3>1 DEF EditAgrees, PutFrom
    <3> QED BY <1>4, <1>6, <3>2, <3>3
  <2> QED BY <2>1, <2>2
<1>12. edits' \in [Clients -> Edits \cup {None}] /\ EditsAgree'
  <2>1. \A j \in Skills : Present(j) => Present(j)' BY <1>2 DEF Present
  <2> QED BY <1>6, <1>9, <1>11, <2>1, EditsKeep
<1>13. PackagesStored'
  <2> SUFFICES ASSUME NEW j \in Skills, NEW i \in DOMAIN past[j]
               PROVE  past[j][i] <= Len(base')
    BY <1>2 DEF PackagesStored
  <2>1. past[j] \in Seq(Packages) BY DEF SkillInv, SkillTypes
  <2>2. past[j][i] \in Nat /\ past[j][i] <= Len(base)
    BY <2>1 DEF SkillInv, PackagesStored, Packages
  <2> QED BY <1>4, <1>6, <2>2
<1>14. Edited'
  <2> SUFFICES ASSUME NEW j \in Skills, NEW i \in 1..Len(past[j]) - 1, past[j][i + 1] # past[j][i]
               PROVE  base'[past[j][i + 1]] = past[j][i]
    BY <1>2 DEF Edited
  <2>1. past[j] \in Seq(Packages) BY DEF SkillInv, SkillTypes
  <2>2. i + 1 \in DOMAIN past[j] BY <2>1
  <2>3. past[j][i + 1] \in 1..Len(base)
    BY <1>4, <2>1, <2>2 DEF SkillInv, PackagesStored, Packages
  <2> QED BY <1>6, <2>3 DEF SkillInv, Edited
<1> QED BY <1>2, <1>6, <1>12, <1>13, <1>14, AnswersSame
    DEF SkillInv, SkillTypes, DraftsAgree, VersionsAgree, KeysOnce, WithKey, Present

(* Only the revision and the package of a draft that moves on are other ones. *)
LEMMA AdvancedType ==
  ASSUME NEW k \in Skills, skills[k] \in Skill, NEW p \in Packages
  PROVE  /\ Advanced(k, p) \in Skill
         /\ Advanced(k, p).pkg = p /\ Advanced(k, p).rev = skills[k].rev + 1
<1> DEFINE s == skills[k]
<1>1. PICK r \in Nat \ {0} : r = s.rev + 1 BY DEF Skill
<1>2. Advanced(k, p) = [s EXCEPT !.rev = r, !.pkg = p] BY <1>1 DEF Advanced
<1>3. s \in Skill OBVIOUS
<1> HIDE DEF s
<1>4. [s EXCEPT !.rev = r, !.pkg = p] \in Skill BY <1>1, <1>3 DEF Skill
<1>5. [s EXCEPT !.rev = r, !.pkg = p].pkg = p /\ [s EXCEPT !.rev = r, !.pkg = p].rev = r
  BY <1>3 DEF Skill
<1> QED BY <1>1, <1>2, <1>4, <1>5 DEF s

(* The draft is the one of the snapshot, so nothing came in between. *)
LEMMA UnchangedDraft ==
  ASSUME SkillInv, NEW e \in Edits, NEW k \in e.on, Unchanged(e, k)
  PROVE  /\ k \in Skills
         /\ Present(k) <=> e.was[k] # None
         /\ Present(k) => e.was[k].rev = skills[k].rev /\ e.was[k].pkg = skills[k].pkg
<1>1. k \in Skills BY DEF Edits
<1>2. Snapshot(k) = e.was[k] BY DEF Unchanged
<1> QED BY <1>1, <1>2, SnapshotType DEF Snapshot

LEMMA CommitEditKeeps ==
  ASSUME SkillInv, NEW c \in Clients, CommitEdit(c)
  PROVE  SkillInv'
<1> DEFINE e == edits[c]
<1>1. /\ e # None /\ e.at = "commit" /\ \A k \in e.on : Unchanged(e, k)
      /\ skills' = [k \in Skills |->
           IF k \notin e.on THEN skills[k]
           ELSE IF Present(k) THEN Advanced(k, e.pkgs[k])
           ELSE [rev |-> 1, pkg |-> e.pkgs[k], enabled |-> TRUE, current |-> 0]]
      /\ past' = [k \in Skills |-> IF k \in e.on THEN Append(past[k], e.pkgs[k]) ELSE past[k]]
      /\ edits' = [edits EXCEPT ![c] = None] /\ UNCHANGED <<versions, stored, published, base>>
  BY DEF CommitEdit, Closes
<1>2. e \in Edits /\ EditAgrees(e) BY <1>1 DEF SkillInv, SkillTypes, EditsAgree
<1> HIDE DEF e
<1>3. ASSUME NEW k \in e.on
      PROVE  NewDraft(k, e.pkgs[k]) /\ e.pkgs[k] \in Packages /\ k \in Skills
  <2>1. k \in Skills /\ e.pkgs[k] \in Packages BY <1>1, <1>2 DEF EditAgrees, Edits, Packages
  <2>2. e.pkgs[k] <= Len(base)
        /\ base[e.pkgs[k]] = IF e.was[k] = None THEN 0 ELSE e.was[k].pkg
    BY <1>1, <1>2 DEF EditAgrees, PutFrom
  <2>3. CASE Present(k)
    <3>1. skills[k] \in Skill /\ Len(past[k]) = skills[k].rev
      BY <2>1, <2>3 DEF SkillInv, SkillTypes, DraftsAgree, Present
    <3>2. skills'[k] = Advanced(k, e.pkgs[k]) /\ past'[k] = Append(past[k], e.pkgs[k])
      BY <1>1, <2>1, <2>3
    <3>3. skills'[k] \in Skill /\ skills'[k].pkg = e.pkgs[k] /\ skills'[k].rev = Len(past[k]) + 1
      BY <2>1, <3>1, <3>2, AdvancedType
    <3>4. base[e.pkgs[k]] = skills[k].pkg BY <1>1, <1>2, <2>2, <2>3, UnchangedDraft
    <3> QED BY <2>1, <2>2, <3>2, <3>3, <3>4 DEF NewDraft
  <2>4. CASE ~Present(k)
    <3>1. past[k] = <<>> BY <2>1, <2>4 DEF SkillInv, DraftsAgree
    <3>2. skills'[k] = [rev |-> 1, pkg |-> e.pkgs[k], enabled |-> TRUE, current |-> 0]
          /\ past'[k] = Append(past[k], e.pkgs[k])
      BY <1>1, <2>1, <2>4
    <3> QED BY <2>1, <2>2, <2>4, <3>1, <3>2 DEF NewDraft, Skill
  <2> QED BY <2>3, <2>4
<1>4. DraftsMove
  <2>1. \A k \in Skills : k \notin e.on => SameDraft(k) BY <1>1 DEF SameDraft
  <2> QED BY <1>1, <1>3, <2>1 DEF DraftsMove
<1>5. edits' \in [Clients -> Edits \cup {None}] /\ EditsAgree'
  BY <1>1, <1>4, DraftsMoveKeeps, EditsKeep
<1> QED BY <1>1, <1>4, <1>5, DraftsMoveKeeps, VersionsKeep, AnswersSame DEF SkillInv, SkillTypes

LEMMA AvailableKeeps ==
  ASSUME SkillInv, NEW k \in Skills, NEW b \in BOOLEAN, SetAvailable(k, b)
  PROVE  SkillInv'
<1>1. /\ Present(k)
      /\ skills' = [skills EXCEPT ![k] = [Advanced(k, skills[k].pkg) EXCEPT !.enabled = b]]
      /\ past' = [past EXCEPT ![k] = Append(@, skills[k].pkg)]
      /\ UNCHANGED <<versions, stored, edits, published, base>>
  BY DEF SetAvailable
<1>2. skills[k] \in Skill /\ Len(past[k]) = skills[k].rev /\ past[k][Len(past[k])] = skills[k].pkg
      /\ past[k] \in Seq(Packages)
  BY <1>1 DEF SkillInv, SkillTypes, DraftsAgree, Present
<1>3. skills[k].pkg \in Packages /\ skills[k].pkg <= Len(base)
  <2>1. Len(past[k]) \in DOMAIN past[k] BY <1>2 DEF Skill
  <2> QED BY <1>2, <2>1 DEF Skill, SkillInv, PackagesStored
<1>4. NewDraft(k, skills[k].pkg)
  <2>1. skills'[k] = [Advanced(k, skills[k].pkg) EXCEPT !.enabled = b]
        /\ past'[k] = Append(past[k], skills[k].pkg)
    BY <1>1 DEF SkillInv, SkillTypes
  <2>2. skills'[k] \in Skill /\ skills'[k].pkg = skills[k].pkg /\ skills'[k].rev = Len(past[k]) + 1
    <3>1. PICK s \in Skill : s = Advanced(k, skills[k].pkg) BY <1>2, <1>3, AdvancedType
    <3>2. s.pkg = skills[k].pkg /\ s.rev = Len(past[k]) + 1 BY <1>2, <1>3, <3>1, AdvancedType
    <3>3. [s EXCEPT !.enabled = b] \in Skill BY DEF Skill
    <3>4. [s EXCEPT !.enabled = b].pkg = s.pkg /\ [s EXCEPT !.enabled = b].rev = s.rev BY DEF Skill
    <3> QED BY <2>1, <3>1, <3>2, <3>3, <3>4
  <2> QED BY <1>3, <2>1, <2>2 DEF NewDraft
<1>5. DraftsMove
  BY <1>1, <1>3, <1>4 DEF DraftsMove, SameDraft, SkillInv, SkillTypes
<1>6. EditsAgree' /\ edits' \in [Clients -> Edits \cup {None}]
  <2>1. \A j \in Skills : Present(j) => Present(j)' BY <1>5, DraftsMoveKeeps
  <2> QED BY <1>1, <2>1 DEF SkillInv, SkillTypes, EditsAgree, EditAgrees, PutFrom, Edits
<1> QED BY <1>1, <1>5, <1>6, DraftsMoveKeeps, VersionsKeep, AnswersSame DEF SkillInv, SkillTypes

-----------------------------------------------------------------------------
(* The steps of a publication *)

LEMMA ReadDraftKeeps ==
  ASSUME SkillInv, NEW c \in Clients, ReadDraft(c)
  PROVE  SkillInv'
<1>1. PICK k \in edits[c].on :
        edits' = [edits EXCEPT ![c].was = Snapshots({k}),
                               ![c].at = IF skills[k].rev = edits[c].rev THEN "read" ELSE "again"]
  BY DEF ReadDraft
<1>2. edits[c] # None /\ edits[c].op = "publish"
      /\ UNCHANGED <<skills, versions, stored, published, past, base>>
  BY DEF ReadDraft, SkillStep
<1>3. edits[c] \in Edits /\ EditAgrees(edits[c]) BY <1>2 DEF SkillInv, SkillTypes, EditsAgree
<1>4. k \in Skills /\ Present(k) /\ edits[c].on = {k} /\ edits[c].pkgs[k] = 0
  BY <1>2, <1>3 DEF EditAgrees, Edits
<1>5. PICK p \in {"read", "again"} : p = IF skills[k].rev = edits[c].rev THEN "read" ELSE "again"
  OBVIOUS
<1>6. PICK w \in [Skills -> Draft \cup {None}] : w = Snapshots({k}) BY <1>4, SnapshotType
<1>7. w[k] # None /\ w[k].rev = skills[k].rev
  <2>1. w[k] = Snapshot(k) BY <1>4, <1>6 DEF Snapshots
  <2> QED BY <1>4, <2>1, SnapshotType
<1>8. PICK e \in Edits : e = [edits[c] EXCEPT !.was = w, !.at = p]
  BY <1>3, <1>5 DEF Edits
<1>9. edits' = [edits EXCEPT ![c] = e] BY <1>1, <1>5, <1>6, <1>8
<1>10. EditAgrees(e)
  <2>1. e.on = {k} /\ e.pkgs[k] = 0 /\ e.was = w /\ e.at = p /\ e.rev = edits[c].rev
    BY <1>3, <1>4, <1>8 DEF Edits
  <2>2. e.at = "read" => skills[k].rev = e.rev BY <1>5, <2>1
  <2> QED BY <1>4, <1>5, <1>7, <2>1, <2>2 DEF EditAgrees, PutFrom
<1> QED BY <1>2, <1>9, <1>10, OnlyEdits, AnswersSame

LEMMA ReadPackageKeeps ==
  ASSUME SkillInv, NEW c \in Clients, ReadPackage(c)
  PROVE  SkillInv'
<1>1. PICK p \in {"lock", "again"} : edits' = [edits EXCEPT ![c].at = p]
  BY DEF ReadPackage, Moves
<1>2. edits[c] # None /\ edits[c].op = "publish" /\ edits[c].at = "read"
      /\ UNCHANGED <<skills, versions, stored, published, past, base>>
  BY DEF ReadPackage, SkillStep
<1>3. edits[c] \in Edits /\ EditAgrees(edits[c]) BY <1>2 DEF SkillInv, SkillTypes, EditsAgree
<1>4. PICK e \in Edits : e = [edits[c] EXCEPT !.at = p] BY <1>3 DEF Edits
<1>5. edits' = [edits EXCEPT ![c] = e] BY <1>1, <1>4
<1>6. EditAgrees(e)
  <2>1. /\ e.on = edits[c].on /\ e.was = edits[c].was /\ e.pkgs = edits[c].pkgs
        /\ e.op = edits[c].op /\ e.rev = edits[c].rev /\ e.at = p
    BY <1>3, <1>4 DEF Edits
  <2> QED BY <1>2, <1>3, <2>1 DEF EditAgrees, PutFrom
<1> QED BY <1>2, <1>5, <1>6, OnlyEdits, AnswersSame

(* A version is added under a key that no version of the skill has. *)
LEMMA CommitPublishKeeps ==
  ASSUME SkillInv, NEW c \in Clients, CommitPublish(c)
  PROVE  SkillInv'
<1> DEFINE e == edits[c]
<1>1. PICK k \in e.on :
       /\ Replayed(e, k) = {} /\ ~Conflicts(e, k) /\ Unchanged(e, k)
       /\ versions' = [versions EXCEPT ![k] =
            Append(@, [pkg |-> skills[k].pkg, rev |-> e.rev, key |-> e.key])]
       /\ skills' = [skills EXCEPT ![k] = [Advanced(k, skills[k].pkg) EXCEPT
                                           !.current = Len(versions[k]) + 1]]
       /\ past' = [past EXCEPT ![k] = Append(@, skills[k].pkg)]
       /\ Answered(e, k, Len(versions[k]) + 1)
  BY DEF CommitPublish
<1>2. e # None /\ e.op = "publish" /\ e.at = "lock" /\ edits' = [edits EXCEPT ![c] = None]
      /\ UNCHANGED <<stored, base>>
  BY DEF CommitPublish, SkillStep, Closes
<1>3. e \in Edits /\ EditAgrees(e) BY <1>2 DEF SkillInv, SkillTypes, EditsAgree
<1> HIDE DEF e
<1>4. k \in Skills /\ Present(k) /\ e.rev = skills[k].rev
  <2>1. k \in Skills /\ Present(k) /\ e.was[k].rev = e.rev BY <1>2, <1>3 DEF EditAgrees, Edits
  <2> QED BY <1>1, <1>3, <2>1, UnchangedDraft
<1>5. /\ skills[k] \in Skill /\ Len(past[k]) = skills[k].rev
      /\ past[k][Len(past[k])] = skills[k].pkg /\ past[k] \in Seq(Packages)
      /\ versions[k] \in Seq(Version)
  BY <1>4 DEF SkillInv, SkillTypes, DraftsAgree, Present
<1>6. skills[k].pkg \in Packages /\ skills[k].pkg <= Len(base)
  <2>1. Len(past[k]) \in DOMAIN past[k] BY <1>5 DEF Skill
  <2> QED BY <1>4, <1>5, <2>1 DEF Skill, SkillInv, PackagesStored
<1>7. NewDraft(k, skills[k].pkg)
  <2>1. skills'[k] = [Advanced(k, skills[k].pkg) EXCEPT !.current = Len(versions[k]) + 1]
        /\ past'[k] = Append(past[k], skills[k].pkg)
    BY <1>1, <1>4 DEF SkillInv, SkillTypes
  <2>2. PICK s \in Skill : s = Advanced(k, skills[k].pkg) BY <1>4, <1>5, <1>6, AdvancedType
  <2>3. s.pkg = skills[k].pkg /\ s.rev = Len(past[k]) + 1 BY <1>4, <1>5, <1>6, <2>2, AdvancedType
  <2>4. PICK n \in Nat : n = Len(versions[k]) + 1 BY <1>5
  <2>5. [s EXCEPT !.current = n] \in Skill BY DEF Skill
  <2>6. [s EXCEPT !.current = n].pkg = s.pkg /\ [s EXCEPT !.current = n].rev = s.rev BY DEF Skill
  <2>7. skills'[k] \in Skill /\ skills'[k].pkg = skills[k].pkg /\ skills'[k].rev = Len(past[k]) + 1
    BY <2>1, <2>2, <2>3, <2>4, <2>5, <2>6
  <2> QED BY <1>6, <2>1, <2>7 DEF NewDraft
<1>8. DraftsMove
  BY <1>1, <1>2, <1>4, <1>6, <1>7 DEF DraftsMove, SameDraft, SkillInv, SkillTypes
<1>9. PICK v \in Version : v = [pkg |-> skills[k].pkg, rev |-> e.rev, key |-> e.key]
  BY <1>3, <1>4, <1>5, <1>6 DEF Version, Edits, Skill
<1>10. v.pkg = skills[k].pkg /\ v.rev = skills[k].rev /\ v.key = e.key BY <1>4, <1>9
<1>11. /\ versions' \in [Skills -> Seq(Version)]
       /\ versions'[k] = Append(versions[k], v)
       /\ \A j \in Skills : j # k => versions'[j] = versions[j]
  BY <1>1, <1>4, <1>5, <1>9 DEF SkillInv, SkillTypes
<1>12. /\ DOMAIN versions'[k] = 1..Len(versions[k]) + 1 /\ Len(versions[k]) \in Nat
       /\ DOMAIN versions[k] = 1..Len(versions[k])
       /\ versions'[k][Len(versions[k]) + 1] = v
       /\ \A n \in 1..Len(versions[k]) : versions'[k][n] = versions[k][n]
  BY <1>5, <1>11
<1>13. VersionsAgree'
  <2> SUFFICES ASSUME NEW j \in Skills, NEW n \in DOMAIN versions'[j]
               PROVE  /\ versions'[j][n].rev <= Len(past'[j])
                      /\ versions'[j][n].pkg = past'[j][versions'[j][n].rev]
    BY DEF VersionsAgree
  <2>1. ASSUME n \in DOMAIN versions[j], versions'[j][n] = versions[j][n]
        PROVE  /\ versions'[j][n].rev <= Len(past'[j])
               /\ versions'[j][n].pkg = past'[j][versions'[j][n].rev]
    <3>1. versions[j][n].rev \in Nat \ {0}
      <4>1. versions[j] \in Seq(Version) BY DEF SkillInv, SkillTypes
      <4>2. versions[j][n] \in Version BY <2>1, <4>1
      <4> QED BY <4>2 DEF Version
    <3>2. /\ versions[j][n].rev <= Len(past[j])
          /\ versions[j][n].pkg = past[j][versions[j][n].rev]
      BY <2>1 DEF SkillInv, VersionsAgree
    <3>3. past'[j] \in Seq(Packages) BY <1>8, PastGrows
    <3> QED BY <1>8, <2>1, <3>1, <3>2, <3>3, PastGrows
  <2>2. CASE j # k BY <1>11, <2>1, <2>2
  <2>3. CASE j = k /\ n # Len(versions[k]) + 1 BY <1>12, <2>1, <2>3
  <2>4. CASE j = k /\ n = Len(versions[k]) + 1
    <3>1. versions'[j][n].rev = Len(past[k]) /\ versions'[j][n].pkg = past[k][Len(past[k])]
      BY <1>5, <1>10, <1>12, <2>4
    <3>2. past'[k] = Append(past[k], skills[k].pkg) /\ Len(past[k]) \in Nat \ {0}
      BY <1>5, <1>7 DEF NewDraft, Skill
    <3> QED BY <1>5, <1>6, <2>4, <3>1, <3>2
  <2> QED BY <2>2, <2>3, <2>4
<1>14. \A n \in DOMAIN versions[k] : versions[k][n].key # e.key
  BY <1>1 DEF Replayed, Conflicts, WithKey
<1>15. KeysOnce'
  <2> SUFFICES ASSUME NEW j \in Skills, NEW key \in Keys,
                      NEW m \in DOMAIN versions'[j], NEW n \in DOMAIN versions'[j],
                      versions'[j][m].key = key, versions'[j][n].key = key
               PROVE  m = n
    BY DEF KeysOnce, WithKey
  <2>1. CASE j # k BY <1>11, <2>1 DEF SkillInv, KeysOnce, WithKey
  <2>2. CASE j = k
    <3>1. \A x \in 1..Len(versions[k]) : versions'[k][x].key # versions'[k][Len(versions[k]) + 1].key
      BY <1>10, <1>12, <1>14
    <3>2. CASE m # Len(versions[k]) + 1 /\ n # Len(versions[k]) + 1
      <4>1. m \in DOMAIN versions[k] /\ n \in DOMAIN versions[k] BY <1>12, <2>2, <3>2
      <4>2. versions[k][m].key = key /\ versions[k][n].key = key BY <1>12, <2>2, <4>1
      <4> QED BY <1>4, <4>1, <4>2 DEF SkillInv, KeysOnce, WithKey
    <3> QED BY <1>12, <2>2, <3>1, <3>2
  <2> QED BY <2>1, <2>2
<1>16. AnswersStand'
  <2> SUFFICES ASSUME NEW a \in published'
               PROVE  /\ a.skill \in Skills /\ a.version \in DOMAIN versions'[a.skill]
                      /\ versions'[a.skill][a.version].key = a.key
                      /\ versions'[a.skill][a.version].rev = a.rev
    BY DEF AnswersStand
  <2>1. CASE a \in published
    <3>1. /\ a.skill \in Skills /\ a.version \in DOMAIN versions[a.skill]
          /\ versions[a.skill][a.version].key = a.key /\ versions[a.skill][a.version].rev = a.rev
      BY <2>1 DEF SkillInv, AnswersStand
    <3>2. CASE a.skill # k BY <1>11, <3>1, <3>2
    <3>3. CASE a.skill = k BY <1>12, <3>1, <3>3
    <3> QED BY <3>2, <3>3
  <2>2. CASE a = Answer(k, e.key, e.rev, Len(versions[k]) + 1)
    <3>1. a.skill = k /\ a.key = e.key /\ a.rev = e.rev /\ a.version = Len(versions[k]) + 1
      BY <2>2 DEF Answer
    <3> QED BY <1>4, <1>10, <1>12, <3>1
  <2> QED BY <1>1, <2>1, <2>2 DEF Answered
<1>17. edits' \in [Clients -> Edits \cup {None}] /\ EditsAgree'
  BY <1>2, <1>8, DraftsMoveKeeps, EditsKeep
<1> QED BY <1>2, <1>8, <1>11, <1>13, <1>15, <1>16, <1>17, DraftsMoveKeeps DEF SkillInv, SkillTypes

-----------------------------------------------------------------------------
LEMMA SkillInvNext ==
  ASSUME SkillInv, [Next]_vars
  PROVE  SkillInv'
<1>1. CASE SkillNext
  <2>1. CASE \E c \in Clients : SkillBegin(c)
    BY <2>1, BeginEditKeeps, BeginPublishKeeps DEF SkillBegin
  <2>2. ASSUME NEW c \in Clients, SkillGoesOn(c)
        PROVE  SkillInv'
    <3>1. CASE RefuseEdit(c) \/ RefusePublish(c)
      BY <3>1, CloseKeeps DEF RefuseEdit, RefusePublish, Closes
    <3> QED BY <2>2, <3>1, PutKeeps, CommitEditKeeps, ReplayKeeps, ReadDraftKeeps,
               ReadPackageKeeps, CommitPublishKeeps DEF SkillGoesOn
  <2>3. CASE \E c \in Clients : BreakEdit(c) BY <2>3, CloseKeeps DEF BreakEdit
  <2>4. CASE \E k \in Skills, b \in BOOLEAN : SetAvailable(k, b) BY <2>4, AvailableKeeps
  <2> QED BY <1>1, <2>1, <2>2, <2>3, <2>4 DEF SkillNext
<1>2. CASE UNCHANGED skillVars
  <2>1. SkillTypes' /\ DraftsAgree' /\ PackagesStored'
    BY <1>2 DEF skillVars, SkillInv, SkillTypes, DraftsAgree, PackagesStored, Present
  <2>2. Edited' /\ VersionsAgree' /\ (stored = Len(base))'
    BY <1>2 DEF skillVars, SkillInv, Edited, VersionsAgree
  <2>3. EditsAgree' BY <1>2 DEF skillVars, SkillInv, EditsAgree, EditAgrees, PutFrom, Present
  <2>4. KeysOnce' BY <1>2 DEF skillVars, SkillInv, KeysOnce, WithKey
  <2>5. AnswersStand' BY <1>2, AnswersSame DEF skillVars
  <2> QED BY <2>1, <2>2, <2>3, <2>4, <2>5 DEF SkillInv
<1> QED BY <1>1, <1>2 DEF Next, ByIdentity, BySkills, ByAgents, ByTeams, vars

LEMMA SkillInvariant == Spec => []SkillInv
<1>1. Init => SkillInv BY SkillInvInit DEF Init
<1>2. SkillInv /\ [Next]_vars => SkillInv' BY SkillInvNext
<1> QED BY <1>1, <1>2, PTL DEF Spec

(* What an editor, an import or a publication read with no lock held is still
   so when it commits.  For any number of skills, editors, requests and faults. *)
THEOREM EditsAreKept == Spec => []NothingOverwritten
<1>1. SkillInv => NothingOverwritten
  BY DEF SkillInv, Edited, VersionsAgree, NothingOverwritten
<1> QED BY <1>1, SkillInvariant, PTL

(* The digest of a request is looked for again under the lock, so a key has one
   version however often, and however much at once, a publication is repeated. *)
THEOREM OneVersionPerKey == Spec => []PublishedOncePerKey
<1>1. SkillInv => PublishedOncePerKey
  <2> SUFFICES ASSUME SkillInv PROVE PublishedOncePerKey OBVIOUS
  <2>1. ASSUME NEW k \in Skills, NEW key \in Keys
        PROVE  Cardinality(WithKey(k, key)) <= 1
    <3>1. \A m, n \in WithKey(k, key) : m = n BY DEF SkillInv, KeysOnce
    <3>2. CASE WithKey(k, key) = {} BY <3>2, FS_EmptySet
    <3>3. CASE WithKey(k, key) # {}
      <4>1. PICK n : WithKey(k, key) = {n} BY <3>1, <3>3
      <4> QED BY <4>1, FS_Singleton
    <3> QED BY <3>2, <3>3
  <2> QED BY <2>1 DEF PublishedOncePerKey, SkillInv, AnswersStand
<1> QED BY <1>1, SkillInvariant, PTL
=============================================================================
