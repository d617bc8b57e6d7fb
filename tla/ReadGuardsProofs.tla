--------------------------- MODULE ReadGuardsProofs ---------------------------
(***************************************************************************)
(* Proofs about the two guards that scripts/governed-ansible-exec.py puts  *)
(* around what it reads: the audits of the Git configuration, for any      *)
(* number of changes, and the readers of trusted files, for any files, any *)
(* sizes and any number of changes by others.                              *)
(*                                                                         *)
(* The audits.  Relative to a record, a file is either as it was recorded  *)
(* or gone for good.  A file that was there is gone once its stamp has     *)
(* passed the recorded one; a file that was not there is gone once the     *)
(* stamp of its directory has, because the entry had to come.  What is     *)
(* gone cannot match the second record, and what is not gone has been the  *)
(* same throughout, so the command read nothing else.                      *)
(*                                                                         *)
(* The readers.  While the stamp of the file is the one of the first       *)
(* status, what has been read is a beginning of it; the second status      *)
(* tells whether the stamp still is.                                       *)
(***************************************************************************)
EXTENDS MCReadGuards, SequenceTheorems, TLAPS

Same(f, r) == IF r[f].present THEN files[f] = r[f]
              ELSE ~files[f].present /\ dirs[DirOf(f)] = r[DirOf(f)].stamp

Gone(f, r) == IF r[f].present THEN files[f].present => files[f].stamp > r[f].stamp
              ELSE dirs[DirOf(f)] > r[DirOf(f)].stamp

Stamps ==
  /\ \A f \in Files : files[f].stamp <= changes
  /\ \A d \in Dirs : dirs[d] <= changes
  /\ \A x \in Items : record[x].stamp <= changes /\ before[x].stamp <= changes

FirstAudit ==
  pc = "before" =>
    /\ saw = [f \in Files |-> {}]
    /\ \A d \in Dirs : Rank[d] < next => record[d].stamp <= dirs[d]
    /\ \A f \in Files : Rank[f] < next => Same(f, record) \/ Gone(f, record)
    /\ \A f \in {"dotgit", "commondir", "backlink"} :
         Rank[f] < next => record[f].content = "good"
    /\ 1 < next => record["dotgit"].present

Command ==
  pc \in {"git", "after"} =>
    /\ before["dotgit"].present
    /\ \A f \in Files : before[f].content # "bad" \/ ~before[f].present
    /\ \A f \in Files : \/ Same(f, before) /\ saw[f] \subseteq {Content(before[f])}
                        \/ Gone(f, before)

SecondAudit ==
  pc = "after" =>
    /\ \A f \in Files :
         Rank[f] < next /\ before[f].present /\ record[f] = before[f] =>
           saw[f] \subseteq {Content(before[f])}
    /\ \A f \in Files :
         Rank[DirOf(f)] < next /\ ~before[f].present
           /\ record[DirOf(f)] = before[DirOf(f)] =>
           saw[f] \subseteq {Content(before[f])}

IInv == TypeOK /\ Stamps /\ FirstAudit /\ Command /\ SecondAudit /\ GitReadWhatWasAudited

-----------------------------------------------------------------------------

LEMMA Ranks ==
  /\ Rank["dotgit"] = 1 /\ Rank["gitdir"] = 2 /\ Rank["commondir"] = 3
  /\ Rank["backlink"] = 4 /\ Rank["common"] = 5 /\ Rank["config"] = 6
  /\ Rank["worktree_config"] = 7
BY DEF Rank, Items, Files, Dirs

LEMMA RanksDiffer ==
  ASSUME NEW x \in Items, NEW y \in Items, Rank[x] = Rank[y]
  PROVE  x = y
BY Ranks DEF Items, Files, Dirs

LEMMA RankBounds == \A x \in Items : Rank[x] \in 1..7
BY Ranks DEF Items, Files, Dirs

LEMMA DirBefore ==
  \A f \in Files : /\ DirOf(f) \in Dirs
                   /\ f # "dotgit" => Rank[DirOf(f)] < Rank[f]
BY Ranks DEF DirOf, Files, Dirs

(* The types of the state, without the bound on the stamps.                *)
LEMMA TypesOfState ==
  ASSUME TypeOK
  PROVE  /\ changes \in Nat /\ next \in Nat
         /\ \A f \in Files : /\ files[f].stamp \in Int /\ files[f].present \in BOOLEAN
                            /\ files[f].content \in {"good", "bad"}
                            /\ saw[f] \subseteq Contents
         /\ \A d \in Dirs : dirs[d] \in Int
         /\ \A x \in Items : /\ record[x].stamp \in Int /\ before[x].stamp \in Int
                            /\ record[x].present \in BOOLEAN
                            /\ before[x].present \in BOOLEAN
BY GitConfigGuardAssumption DEF TypeOK, Records, StampValues, ByGit

(* A stale index is left as it is.                                         *)
LEMMA GitLeavesItsFiles == GitEnds => UNCHANGED fs
BY DEF GitEnds, GitEnvironment, fs

LEMMA InitHolds == Init => IInv
<1> SUFFICES ASSUME Init PROVE IInv
  OBVIOUS
<1>1. Unseen \in Records
  BY GitConfigGuardAssumption DEF Unseen, Records, StampValues, ByGit
<1>2. /\ files \in [Files -> [present : BOOLEAN, content : {"good", "bad"},
                            stamp : 0..MaxChanges]]
      /\ \A f \in Files : files[f].stamp = 0
  <2> DEFINE S == {Absent} \cup [present : {TRUE}, content : {"good", "bad"}, stamp : {0}]
  <2>1. files \in [Files -> S]
    BY DEF Init
  <2>2. ASSUME NEW e \in S
        PROVE  /\ e \in [present : BOOLEAN, content : {"good", "bad"},
                         stamp : 0..MaxChanges]
               /\ e.stamp = 0
    <3>1. 0 \in 0..MaxChanges
      BY GitConfigGuardAssumption
    <3>2. CASE e = Absent
      BY <3>1, <3>2 DEF Absent
    <3>3. CASE e \in [present : {TRUE}, content : {"good", "bad"}, stamp : {0}]
      BY <3>1, <3>3
    <3> QED
      BY <2>2, <3>2, <3>3
  <2> HIDE DEF S
  <2> QED
    BY <2>1, <2>2
<1>3. TypeOK
  <2>1. \A x \in Items : record[x] = Unseen <=> Rank[x] >= next
    BY Ranks DEF Init, NothingSeen, Items, Files, Dirs
  <2>2. record \in [Items -> Records] /\ before \in [Items -> Records]
    BY <1>1 DEF Init, NothingSeen
  <2> QED
    BY <1>2, <2>1, <2>2, GitConfigGuardAssumption DEF Init, TypeOK, StampValues, ByGit
<1>4. Stamps
  <2>1. \A f \in Files : files[f].stamp <= 0
    BY <1>2
  <2>2. \A x \in Items : record[x].stamp <= 0 /\ before[x].stamp <= 0
    BY DEF Init, NothingSeen, Unseen
  <2> QED
    BY <2>1, <2>2 DEF Init, Stamps
<1>5. FirstAudit
  BY Ranks DEF Init, FirstAudit, Files, Dirs
<1> QED
  BY <1>3, <1>4, <1>5 DEF Init, IInv, Command, SecondAudit, GitReadWhatWasAudited

-----------------------------------------------------------------------------
(* A change leaves every file as it was recorded or gone for good.         *)

LEMMA ChangeMovesOn ==
  ASSUME TypeOK, Stamps, Change, NEW f \in Files, NEW r,
         r \in {record, before}, f = "dotgit" => r[f].present,
         Same(f, r) \/ Gone(f, r)
  PROVE  /\ (Same(f, r) \/ Gone(f, r))'
         /\ Gone(f, r) => Gone(f, r)'
<1> USE DirBefore, TypesOfState
<1>1. r[f].stamp <= changes /\ r[DirOf(f)].stamp <= changes /\ r[f].present \in BOOLEAN
      /\ r[f].stamp \in Int /\ r[DirOf(f)].stamp \in Int
  BY DEF Stamps, Items
<1>2. r' = r
  BY DEF Change
<1>3. PICK g \in Files :
        \/ /\ files[g].present /\ UNCHANGED dirs
           /\ \E c \in {"good", "bad"} :
                files' = [files EXCEPT ![g] = [present |-> TRUE, content |-> c,
                                               stamp |-> changes + 1]]
        \/ /\ files[g].present /\ Stamp(g)
           /\ files' = [files EXCEPT ![g] = Absent]
        \/ /\ ~files[g].present /\ Stamp(g)
           /\ \E c \in {"good", "bad"} :
                files' = [files EXCEPT ![g] = [present |-> TRUE, content |-> c,
                                               stamp |-> changes + 1]]
  BY DEF Change
<1>4. changes' = changes + 1
  BY DEF Change
<1>5. Stamp(g) => /\ \A d \in Dirs : dirs'[d] \in {dirs[d], changes + 1}
                  /\ g # "dotgit" => dirs'[DirOf(g)] = changes + 1
  BY DEF Stamp, Touched
<1>6. \A h \in Files \ {g} : files'[h] = files[h]
  BY <1>3 DEF TypeOK
<1>7. CASE f # g /\ UNCHANGED dirs
  BY <1>6, <1>7 DEF Same, Gone
<1>8. CASE f # g /\ Stamp(g)
  <2>1. files'[f] = files[f] /\ dirs'[DirOf(f)] \in {dirs[DirOf(f)], changes + 1}
    BY <1>5, <1>6, <1>8
  <2> QED
    BY <1>1, <2>1 DEF Same, Gone
<1>9. CASE f = g /\ files[g].present /\ UNCHANGED dirs
           /\ \E c \in {"good", "bad"} :
                files' = [files EXCEPT ![g] = [present |-> TRUE, content |-> c,
                                               stamp |-> changes + 1]]
  <2>1. files'[f].stamp = changes + 1
    BY <1>9 DEF TypeOK
  <2> QED
    BY <1>1, <1>9, <2>1 DEF Same, Gone
<1>10. CASE f = g /\ files[g].present /\ Stamp(g) /\ files' = [files EXCEPT ![g] = Absent]
  <2>1. /\ files'[f] = Absent /\ ~files'[f].present
        /\ f # "dotgit" => dirs'[DirOf(f)] = changes + 1
    BY <1>5, <1>10 DEF TypeOK, Absent
  <2> QED
    BY <1>1, <2>1 DEF Same, Gone
<1>11. CASE f = g /\ ~files[g].present /\ Stamp(g)
            /\ \E c \in {"good", "bad"} :
                 files' = [files EXCEPT ![g] = [present |-> TRUE, content |-> c,
                                                stamp |-> changes + 1]]
  <2>1. /\ files'[f].stamp = changes + 1
        /\ f # "dotgit" => dirs'[DirOf(f)] = changes + 1
    BY <1>5, <1>11 DEF TypeOK
  <2> QED
    BY <1>1, <2>1 DEF Same, Gone
<1> QED
  BY <1>3, <1>7, <1>8, <1>9, <1>10, <1>11

-----------------------------------------------------------------------------
(* Types.                                                                  *)

(* Noting item x, whose turn it is, keeps a record in step with next.      *)
LEMMA NoteKeepsTypes ==
  ASSUME TypeOK, pc \in {"before", "after"}, NEW x \in Items, Rank[x] = next,
         NEW v \in Records, v # Unseen,
         record' = [record EXCEPT ![x] = v], next' = next + 1,
         UNCHANGED <<layout, fs, pc, before, saw, exit>>
  PROVE  TypeOK'
<1>1. next \in 1..7
  BY RankBounds
<1>2. record' \in [Items -> Records]
  BY DEF TypeOK
<1>3. ASSUME NEW y \in Items PROVE record'[y] = Unseen <=> Rank[y] >= next'
  <2>1. CASE y = x
    BY <1>1, <2>1 DEF TypeOK
  <2>2. CASE y # x
    <3>1. Rank[y] # next /\ Rank[y] \in 1..7
      BY <2>2, RanksDiffer, RankBounds
    <3>2. record'[y] = record[y] /\ (record[y] = Unseen <=> Rank[y] >= next)
      BY <2>2 DEF TypeOK
    <3> QED
      BY <1>1, <3>1, <3>2
  <2> QED
    BY <2>1, <2>2
<1> QED
  BY <1>1, <1>2, <1>3 DEF TypeOK, fs

(* A change puts one file of the right type in place of another.           *)
LEMMA ChangedFile ==
  ASSUME TypeOK, Change
  PROVE  \E g \in Files : \E v \in [present : BOOLEAN, content : {"good", "bad"},
                                   stamp : 0..MaxChanges] :
           files' = [files EXCEPT ![g] = v] /\ v.stamp \in {0, changes + 1}
<1> DEFINE T == [present : BOOLEAN, content : {"good", "bad"}, stamp : 0..MaxChanges]
<1>1. changes + 1 \in 0..MaxChanges /\ 0 \in 0..MaxChanges
  BY GitConfigGuardAssumption DEF Change, TypeOK
<1>2. ASSUME NEW c \in {"good", "bad"}
      PROVE  [present |-> TRUE, content |-> c, stamp |-> changes + 1] \in T
  BY <1>1
<1>3. Absent \in T /\ Absent.stamp = 0
  BY <1>1 DEF Absent
<1>4. PICK g \in Files :
        \/ \E c \in {"good", "bad"} :
             files' = [files EXCEPT ![g] = [present |-> TRUE, content |-> c,
                                            stamp |-> changes + 1]]
        \/ files' = [files EXCEPT ![g] = Absent]
  BY DEF Change
<1>5. CASE files' = [files EXCEPT ![g] = Absent]
  BY <1>3, <1>5
<1>6. CASE \E c \in {"good", "bad"} :
             files' = [files EXCEPT ![g] = [present |-> TRUE, content |-> c,
                                            stamp |-> changes + 1]]
  <2>1. PICK c \in {"good", "bad"} :
          files' = [files EXCEPT ![g] = [present |-> TRUE, content |-> c,
                                         stamp |-> changes + 1]]
    BY <1>6
  <2> DEFINE v == [present |-> TRUE, content |-> c, stamp |-> changes + 1]
  <2>2. v \in T /\ v.stamp = changes + 1 /\ files' = [files EXCEPT ![g] = v]
    BY <1>2, <2>1
  <2> QED
    BY <2>2
<1> QED
  BY <1>4, <1>5, <1>6

LEMMA TypesKept == TypeOK /\ [Next]_vars => TypeOK'
<1> SUFFICES ASSUME TypeOK, [Next]_vars PROVE TypeOK'
  OBVIOUS
<1> USE GitConfigGuardAssumption
<1>1. CASE Change
  <2>1. changes' \in 0..MaxChanges /\ changes + 1 = changes'
    BY <1>1 DEF Change, TypeOK
  <2>2. dirs' \in [Dirs -> StampValues]
    <3>1. changes + 1 \in StampValues
      BY <2>1 DEF StampValues, ByGit
    <3> QED
      BY <1>1, <3>1 DEF Change, Stamp, TypeOK
  <2>3. files' \in [Files -> [present : BOOLEAN, content : {"good", "bad"},
                            stamp : 0..MaxChanges]]
    BY <1>1, ChangedFile DEF TypeOK
  <2> QED
    BY <1>1, <2>1, <2>2, <2>3 DEF Change, TypeOK
<1>2. CASE ReadControlFile
  <2>1. CASE Refuse
    BY <2>1 DEF Refuse, TypeOK, fs
  <2>2. CASE ~Refuse
    <3>1. PICK f \in Files : /\ Rank[f] = next /\ record' = [record EXCEPT ![f] = files[f]]
                            /\ next' = next + 1
                            /\ UNCHANGED <<layout, fs, pc, before, saw, exit>>
      BY <1>2, <2>2 DEF ReadControlFile
    <3>2. files[f] \in Records /\ files[f] # Unseen
      BY DEF TypeOK, Records, Unseen, StampValues, ByGit
    <3>3. f \in Items /\ pc \in {"before", "after"}
      BY <1>2 DEF Items, ReadControlFile, Auditing
    <3> QED
      BY <3>1, <3>2, <3>3, NoteKeepsTypes
  <2> QED
    BY <2>1, <2>2
<1>3. CASE InspectDirectory
  <2>1. PICK d \in Dirs : /\ Rank[d] = next /\ record' = [record EXCEPT ![d] = Directory(d)]
                         /\ next' = next + 1
    BY <1>3 DEF InspectDirectory
  <2>2. Directory(d) \in Records /\ Directory(d) # Unseen
    BY DEF TypeOK, Records, Unseen, Directory
  <2>3. /\ d \in Items /\ pc \in {"before", "after"}
        /\ UNCHANGED <<layout, fs, pc, before, saw, exit>>
    BY <1>3 DEF Items, InspectDirectory, Auditing
  <2> QED
    BY <2>1, <2>2, <2>3, NoteKeepsTypes
<1>4. CASE StartGit
  BY <1>4 DEF StartGit, Refuse, TypeOK, fs
<1>5. CASE GitReads
  <2>1. \A f \in Files : Content(files[f]) \in Contents
    BY DEF Content, Contents, TypeOK
  <2> QED
    BY <1>5, <2>1 DEF GitReads, TypeOK, fs
<1>6. CASE GitEnds
  <2>1. record' \in [Items -> Records]
    BY <1>6 DEF GitEnds, NothingSeen, Unseen, Records, StampValues, ByGit
  <2>2. \A x \in Items : record'[x] = Unseen /\ Rank[x] >= next'
    BY <1>6, RankBounds DEF GitEnds, NothingSeen
  <2> QED
    BY <1>6, <2>1, <2>2, GitLeavesItsFiles DEF GitEnds, TypeOK, fs
<1>7. CASE Compare
  BY <1>7 DEF Compare, Refuse, TypeOK, fs
<1>8. CASE UNCHANGED vars
  BY <1>8 DEF vars, TypeOK, fs
<1> QED
  BY <1>1, <1>2, <1>3, <1>4, <1>5, <1>6, <1>7, <1>8 DEF Next

LEMMA StampsKept == TypeOK /\ Stamps /\ [Next]_vars => Stamps'
<1> SUFFICES ASSUME TypeOK, Stamps, [Next]_vars PROVE Stamps'
  OBVIOUS
<1> USE TypesOfState
<1>1. CASE Change
  <2>1. changes' = changes + 1
    BY <1>1 DEF Change
  <2>2. \A d \in Dirs : dirs'[d] \in {dirs[d], changes + 1}
    BY <1>1 DEF Change, Stamp, TypeOK
  <2>3. \A f \in Files : files'[f].stamp \in {files[f].stamp, changes + 1, 0}
    BY <1>1, ChangedFile DEF TypeOK
  <2>4. record' = record /\ before' = before
    BY <1>1 DEF Change
  <2> QED
    BY <2>1, <2>2, <2>3, <2>4 DEF Stamps
<1>2. CASE ReadControlFile
  <2>1. \A x \in Items : \/ record'[x] = record[x]
                         \/ \E f \in Files : record'[x] = files[f]
    BY <1>2 DEF ReadControlFile, Refuse, TypeOK
  <2> QED
    BY <1>2, <2>1 DEF ReadControlFile, Refuse, Stamps, fs
<1>3. CASE InspectDirectory
  <2>1. \A x \in Items : \/ record'[x] = record[x]
                         \/ \E d \in Dirs : record'[x].stamp = dirs[d]
    BY <1>3 DEF InspectDirectory, Directory, TypeOK
  <2> QED
    BY <1>3, <2>1 DEF InspectDirectory, Stamps, fs
<1>4. CASE GitEnds
  <2>1. \A x \in Items : record'[x].stamp = 0
    BY <1>4 DEF GitEnds, NothingSeen, Unseen
  <2> QED
    BY <1>4, <2>1, GitLeavesItsFiles DEF GitEnds, Stamps, fs
<1>5. CASE StartGit \/ GitReads \/ Compare \/ UNCHANGED vars
  BY <1>5 DEF StartGit, GitReads, Compare, Refuse, vars, Stamps, fs
<1> QED
  BY <1>1, <1>2, <1>3, <1>4, <1>5 DEF Next

-----------------------------------------------------------------------------
(* The phases of a command.                                                *)

LEMMA FirstAuditKept == TypeOK /\ Stamps /\ FirstAudit /\ [Next]_vars => FirstAudit'
<1> SUFFICES ASSUME TypeOK, Stamps, FirstAudit, [Next]_vars, pc' = "before"
             PROVE  FirstAudit'
  BY DEF FirstAudit
<1> USE TypesOfState
<1>1. CASE Change
  <2>1. pc = "before" /\ UNCHANGED <<record, next, saw>>
    BY <1>1 DEF Change
  <2>2. \A f \in Files : Rank[f] < next => (Same(f, record) \/ Gone(f, record))'
    <3>1. \A f \in Files : Rank[f] < next /\ f = "dotgit" => record[f].present
      BY <2>1, Ranks DEF FirstAudit
    <3> QED
      BY <1>1, <2>1, <3>1, ChangeMovesOn DEF FirstAudit, Same, Gone
  <2>3. \A d \in Dirs : Rank[d] < next' => record'[d].stamp <= dirs'[d]
    <3> TAKE d \in Dirs
    <3>1. dirs'[d] \in {dirs[d], changes + 1} /\ dirs[d] <= changes
      BY <1>1 DEF Change, Stamp, Stamps, TypeOK
    <3>2. record[d].stamp \in Int /\ dirs[d] \in Int /\ record'[d] = record[d]
      BY <2>1 DEF Items
    <3>3. Rank[d] < next => record[d].stamp <= dirs[d]
      BY <2>1 DEF FirstAudit
    <3> QED
      BY <2>1, <3>1, <3>2, <3>3
  <2>4. /\ saw' = [f \in Files |-> {}]
        /\ \A f \in {"dotgit", "commondir", "backlink"} :
             Rank[f] < next' => record'[f].content = "good"
        /\ 1 < next' => record'["dotgit"].present
    BY <2>1 DEF FirstAudit
  <2> QED
    BY <2>1, <2>2, <2>3, <2>4 DEF FirstAudit
<1>2. CASE ReadControlFile
  <2>1. PICK f \in Files : /\ Rank[f] = next /\ record' = [record EXCEPT ![f] = files[f]]
                          /\ next' = next + 1 /\ Topology(f)
                          /\ UNCHANGED <<layout, fs, pc, before, saw, exit>>
    BY <1>2 DEF ReadControlFile, Refuse
  <2>2. \A x \in Items \ {f} : record'[x] = record[x] /\ Rank[x] # next
    BY <2>1, RanksDiffer DEF TypeOK, Items
  <2>3. record'[f] = files[f] /\ next' = next + 1 /\ pc = "before"
    BY <2>1 DEF TypeOK, Items
  <2>4. \A x \in Items \ {f} : Rank[x] < next' => Rank[x] < next
    BY <2>2, <2>3, RankBounds
  <2>5. files' = files /\ dirs' = dirs /\ saw' = saw
    BY <2>1 DEF fs
  <2>6. \A d \in Dirs : d \in Items \ {f} /\ (Rank[d] < next' => record'[d].stamp <= dirs'[d])
    BY <2>2, <2>3, <2>4, <2>5 DEF FirstAudit, Items, Files, Dirs
  <2>7. \A g \in Files \ {f} : Rank[g] < next' => (Same(g, record) \/ Gone(g, record))'
    <3> TAKE g \in Files \ {f}
    <3>1. g \in Items \ {f} /\ DirOf(g) \in Items \ {f}
      BY DirBefore DEF Items, Files, Dirs
    <3>2. record'[g] = record[g] /\ record'[DirOf(g)] = record[DirOf(g)]
      BY <2>2, <3>1
    <3>3. Rank[g] < next' => Same(g, record) \/ Gone(g, record)
      BY <2>3, <2>4, <3>1 DEF FirstAudit
    <3> QED
      BY <2>5, <3>2, <3>3 DEF Same, Gone
  <2>8. (Same(f, record) \/ Gone(f, record))'
    <3>1. CASE files[f].present
      BY <2>3, <2>5, <3>1 DEF Same
    <3>2. CASE ~files[f].present
      <4>1. f # "dotgit"
        BY <2>1, <3>2 DEF Topology
      <4>2. DirOf(f) \in Dirs /\ Rank[DirOf(f)] < next
        BY <2>1, <4>1, DirBefore
      <4>3. record[DirOf(f)].stamp <= dirs[DirOf(f)]
        BY <2>3, <4>2 DEF FirstAudit
      <4>4. record'[DirOf(f)] = record[DirOf(f)]
        BY <2>2, <4>2 DEF Items, Files, Dirs
      <4>5. record'[DirOf(f)].stamp \in Int /\ dirs[DirOf(f)] \in Int
        BY <4>2, <4>4 DEF Items
      <4> QED
        BY <2>3, <2>5, <3>2, <4>3, <4>4, <4>5 DEF Same, Gone
    <3> QED
      BY <3>1, <3>2
  <2>9. \A g \in {"dotgit", "commondir", "backlink"} :
          Rank[g] < next' => record'[g].content = "good"
    <3> TAKE g \in {"dotgit", "commondir", "backlink"}
    <3>1. CASE g = f
      BY <2>1, <2>3, <3>1 DEF Topology
    <3>2. CASE g # f
      BY <2>2, <2>3, <2>4, <3>2 DEF FirstAudit, Items, Files
    <3> QED
      BY <3>1, <3>2
  <2>10. 1 < next' => record'["dotgit"].present
    <3>1. CASE f = "dotgit"
      BY <2>1, <2>3, <3>1 DEF Topology
    <3>2. CASE f # "dotgit"
      BY <2>2, <2>3, <2>4, <3>2, Ranks DEF FirstAudit, Items, Files
    <3> QED
      BY <3>1, <3>2
  <2> QED
    BY <2>3, <2>5, <2>6, <2>7, <2>8, <2>9, <2>10 DEF FirstAudit
<1>3. CASE InspectDirectory
  <2>1. PICK d \in Dirs : /\ Rank[d] = next /\ record' = [record EXCEPT ![d] = Directory(d)]
                         /\ next' = next + 1
    BY <1>3 DEF InspectDirectory
  <2>2. \A x \in Items \ {d} : record'[x] = record[x] /\ Rank[x] # next
    BY <2>1, RanksDiffer DEF TypeOK, Items
  <2>3. /\ record'[d].stamp = dirs[d] /\ pc = "before" /\ next' = next + 1
        /\ files' = files /\ dirs' = dirs /\ saw' = saw
    BY <1>3, <2>1 DEF TypeOK, Items, Directory, InspectDirectory, fs
  <2>4. \A x \in Items \ {d} : Rank[x] < next' => Rank[x] < next
    BY <2>2, <2>3, RankBounds
  <2>5. \A e \in Dirs : Rank[e] < next' => record'[e].stamp <= dirs'[e]
    BY <2>2, <2>3, <2>4 DEF FirstAudit, Items
  <2>6. \A g \in Files : Rank[g] < next' => (Same(g, record) \/ Gone(g, record))'
    <3> SUFFICES ASSUME NEW g \in Files, Rank[g] < next'
                 PROVE  (Same(g, record) \/ Gone(g, record))'
      OBVIOUS
    <3>1. g \in Items \ {d} /\ Rank[g] < next
      BY <2>4 DEF Items, Files, Dirs
    <3>2. record'[g] = record[g] /\ (Same(g, record) \/ Gone(g, record))
      BY <2>2, <2>3, <3>1 DEF FirstAudit
    <3>3. CASE g = "dotgit"
      <4>1. record[g].present
        BY <2>3, <3>1, <3>3, Ranks DEF FirstAudit
      <4> QED
        BY <2>3, <3>2, <4>1 DEF Same, Gone
    <3>4. CASE g # "dotgit"
      <4>1. DirOf(g) \in Items /\ Rank[DirOf(g)] < next
        BY <3>1, <3>4, DirBefore, RankBounds DEF Items
      <4>2. DirOf(g) # d
        BY <2>1, <4>1
      <4> QED
        BY <2>2, <2>3, <3>2, <4>1, <4>2 DEF Same, Gone
    <3> QED
      BY <3>3, <3>4
  <2>7. \A g \in {"dotgit", "commondir", "backlink"} :
          g \in Items \ {d} /\ (Rank[g] < next' => record'[g].content = "good")
    BY <2>2, <2>3, <2>4 DEF FirstAudit, Items, Files, Dirs
  <2>8. 1 < next' => record'["dotgit"].present
    <3>1. "dotgit" \in Items \ {d}
      BY DEF Items, Files, Dirs
    <3>2. 1 < next' => 1 < next
      BY <2>2, <2>3, <3>1, Ranks, RankBounds
    <3> QED
      BY <2>2, <2>3, <3>1, <3>2 DEF FirstAudit
  <2> QED
    BY <2>3, <2>5, <2>6, <2>7, <2>8 DEF FirstAudit
<1>4. CASE UNCHANGED vars
  BY <1>4 DEF vars, fs, FirstAudit, Same, Gone
<1> QED
  BY <1>1, <1>2, <1>3, <1>4 DEF Next, StartGit, GitReads, GitEnds, Compare, Refuse

LEMMA CommandKept ==
  TypeOK /\ Stamps /\ FirstAudit /\ Command /\ [Next]_vars => Command'
<1> SUFFICES ASSUME TypeOK, Stamps, FirstAudit, Command, [Next]_vars,
                    pc' \in {"git", "after"}
             PROVE  Command'
  BY DEF Command
<1> USE TypesOfState
<1>1. CASE Change
  <2>1. pc \in {"git", "after"} /\ UNCHANGED <<before, saw>>
    BY <1>1 DEF Change
  <2>2. ASSUME NEW f \in Files
        PROVE  (\/ Same(f, before) /\ saw[f] \subseteq {Content(before[f])}
                \/ Gone(f, before))'
    <3>1. (Same(f, before) \/ Gone(f, before)) /\ (f = "dotgit" => before[f].present)
      BY <2>1 DEF Command
    <3>2. (Same(f, before) \/ Gone(f, before))' /\ (Gone(f, before) => (Gone(f, before))')
      BY <1>1, <2>1, <3>1, ChangeMovesOn DEF Same, Gone
    <3> QED
      BY <2>1, <3>2 DEF Command, Content
  <2> QED
    BY <2>1, <2>2 DEF Command
<1>2. CASE StartGit
  <2>1. pc = "before" /\ next = 8 /\ before' = record /\ ~ConfigRefused
        /\ UNCHANGED <<fs, saw>>
    BY <1>2 DEF StartGit, Refuse
  <2>2. \A f \in Files : Rank[f] < next
    BY <2>1, RankBounds DEF Items
  <2>3. \A f \in Files : record[f].content # "bad" \/ ~record[f].present
    BY <2>1, <2>2 DEF FirstAudit, ConfigRefused, Files
  <2>4. /\ \A f \in Files : Same(f, record) \/ Gone(f, record)
        /\ record["dotgit"].present
    BY <2>1, <2>2 DEF FirstAudit
  <2>5. \A f \in Files : saw'[f] = {}
    BY <2>1 DEF FirstAudit
  <2> QED
    BY <2>1, <2>3, <2>4, <2>5 DEF Command, Same, Gone, fs
<1>3. CASE GitReads
  <2>1. PICK g \in Files : saw' = [saw EXCEPT ![g] = @ \cup {Content(files[g])}]
    BY <1>3 DEF GitReads
  <2>2. pc = "git" /\ UNCHANGED <<files, dirs, before>>
    BY <1>3 DEF GitReads, fs
  <2>3. ASSUME NEW f \in Files
        PROVE  (\/ Same(f, before) /\ saw[f] \subseteq {Content(before[f])}
                \/ Gone(f, before))'
    <3>1. CASE Gone(f, before)
      BY <2>2, <3>1 DEF Gone
    <3>2. CASE Same(f, before) /\ saw[f] \subseteq {Content(before[f])}
      <4>1. Content(files[f]) = Content(before[f])
        BY <3>2 DEF Same, Content
      <4>2. saw'[f] \subseteq {Content(before[f])}
        BY <2>1, <3>2, <4>1 DEF TypeOK
      <4> QED
        BY <2>2, <3>2, <4>2 DEF Same, Content
    <3> QED
      BY <2>2, <3>1, <3>2 DEF Command
  <2> QED
    BY <2>2, <2>3 DEF Command
<1>4. CASE GitEnds \/ ReadControlFile \/ InspectDirectory \/ UNCHANGED vars
  <2>1. pc \in {"git", "after"} /\ UNCHANGED <<files, dirs, before, saw>>
    BY <1>4, GitLeavesItsFiles DEF GitEnds, ReadControlFile, InspectDirectory, Refuse, vars, fs
  <2> QED
    BY <2>1 DEF Command, Same, Gone, Content
<1> QED
  BY <1>1, <1>2, <1>3, <1>4 DEF Next, Compare, Refuse

LEMMA SecondAuditKept ==
  TypeOK /\ Stamps /\ Command /\ SecondAudit /\ [Next]_vars => SecondAudit'
<1> SUFFICES ASSUME TypeOK, Stamps, Command, SecondAudit, [Next]_vars, pc' = "after"
             PROVE  SecondAudit'
  BY DEF SecondAudit
<1> USE TypesOfState
<1>1. CASE GitEnds
  <2>1. \A x \in Items : Rank[x] >= next'
    BY <1>1, RankBounds DEF GitEnds
  <2>2. \A f \in Files : f \in Items /\ DirOf(f) \in Items
    BY DirBefore DEF Items
  <2>3. \A x \in Items : ~(Rank[x] < next')
    BY <1>1, <2>1, RankBounds DEF GitEnds
  <2> QED
    BY <2>2, <2>3 DEF SecondAudit
<1>2. CASE ReadControlFile
  <2>1. PICK f \in Files : /\ Rank[f] = next /\ record' = [record EXCEPT ![f] = files[f]]
                          /\ next' = next + 1
                          /\ UNCHANGED <<layout, fs, pc, before, saw, exit>>
    BY <1>2 DEF ReadControlFile, Refuse
  <2>2. \A x \in Items \ {f} : record'[x] = record[x] /\ Rank[x] # next
    BY <2>1, RanksDiffer DEF TypeOK, Items
  <2>3. record'[f] = files[f] /\ pc = "after"
    BY <2>1 DEF TypeOK, Items
  <2>4. \A x \in Items \ {f} : Rank[x] < next' => Rank[x] < next
    BY <2>1, <2>2, RankBounds
  <2>5. \A d \in Dirs : d \in Items \ {f}
    BY DEF Items, Files, Dirs
  <2>6. before[f].present /\ files[f] = before[f] => saw[f] \subseteq {Content(before[f])}
    <3>1. ~Gone(f, before) => saw[f] \subseteq {Content(before[f])}
      BY <2>3 DEF Command
    <3>2. before[f].stamp \in Int
      BY DEF Items
    <3> QED
      BY <3>1, <3>2 DEF Gone
  <2>7. \A g \in Files : Rank[g] < next' /\ before[g].present /\ record'[g] = before[g] =>
                           saw[g] \subseteq {Content(before[g])}
    BY <2>2, <2>3, <2>4, <2>6 DEF SecondAudit, Items
  <2>8. \A g \in Files : Rank[DirOf(g)] < next' /\ ~before[g].present
                            /\ record'[DirOf(g)] = before[DirOf(g)] =>
                           saw[g] \subseteq {Content(before[g])}
    BY <2>2, <2>3, <2>4, <2>5, DirBefore DEF SecondAudit
  <2> QED
    BY <2>1, <2>7, <2>8 DEF SecondAudit, Content
<1>3. CASE InspectDirectory
  <2>1. PICK d \in Dirs : /\ Rank[d] = next /\ record' = [record EXCEPT ![d] = Directory(d)]
                         /\ next' = next + 1
    BY <1>3 DEF InspectDirectory
  <2>2. \A x \in Items \ {d} : record'[x] = record[x] /\ Rank[x] # next
    BY <2>1, RanksDiffer DEF TypeOK, Items
  <2>3. record'[d] = Directory(d) /\ pc = "after" /\ UNCHANGED <<before, saw>>
    BY <1>3, <2>1 DEF TypeOK, Items, InspectDirectory
  <2>4. \A x \in Items \ {d} : Rank[x] < next' => Rank[x] < next
    BY <2>1, <2>2, RankBounds
  <2>5. \A f \in Files : f \in Items \ {d}
    BY DEF Items, Files, Dirs
  <2>6. ASSUME NEW f \in Files, DirOf(f) = d, ~before[f].present, Directory(d) = before[d]
        PROVE  saw[f] \subseteq {Content(before[f])}
    <3>1. dirs[d] = before[d].stamp /\ dirs[d] \in Int
      BY <2>6 DEF Directory
    <3>2. ~Gone(f, before)
      BY <2>6, <3>1 DEF Gone
    <3> QED
      BY <2>3, <3>2 DEF Command
  <2>7. \A f \in Files : Rank[f] < next' /\ before[f].present /\ record'[f] = before[f] =>
                           saw[f] \subseteq {Content(before[f])}
    BY <2>2, <2>3, <2>4, <2>5 DEF SecondAudit
  <2>8. \A f \in Files : Rank[DirOf(f)] < next' /\ ~before[f].present
                            /\ record'[DirOf(f)] = before[DirOf(f)] =>
                           saw[f] \subseteq {Content(before[f])}
    <3> TAKE f \in Files
    <3>1. CASE DirOf(f) = d
      BY <2>3, <2>6, <3>1
    <3>2. CASE DirOf(f) # d
      BY <2>2, <2>3, <2>4, <3>2, DirBefore DEF SecondAudit, Items
    <3> QED
      BY <3>1, <3>2
  <2> QED
    BY <2>3, <2>7, <2>8 DEF SecondAudit, Content
<1>4. CASE Change \/ UNCHANGED vars
  BY <1>4 DEF Change, vars, SecondAudit, Content
<1> QED
  BY <1>1, <1>2, <1>3, <1>4 DEF Next, StartGit, GitReads, Compare, Refuse

LEMMA ResultKept ==
  TypeOK /\ Command /\ SecondAudit /\ GitReadWhatWasAudited /\ [Next]_vars
    => GitReadWhatWasAudited'
<1> SUFFICES ASSUME TypeOK, Command, SecondAudit, GitReadWhatWasAudited, [Next]_vars,
                    pc' = "accepted"
             PROVE  GitReadWhatWasAudited'
  BY DEF GitReadWhatWasAudited
<1>1. CASE Compare
  <2>1. pc = "after" /\ next = 8 /\ record = before /\ UNCHANGED <<before, saw>>
    BY <1>1 DEF Compare, Refuse, SameRecord
  <2>2. \A x \in Items : Rank[x] < next
    BY <2>1, RankBounds
  <2>3. ASSUME NEW f \in Files
        PROVE  saw[f] \subseteq {Content(before[f])} /\ "bad" \notin saw[f]
    <3>1. f \in Items /\ DirOf(f) \in Items
      BY DirBefore DEF Items
    <3>2. saw[f] \subseteq {Content(before[f])}
      BY <2>1, <2>2, <3>1 DEF SecondAudit
    <3>3. Content(before[f]) # "bad"
      BY <2>1 DEF Command, Content
    <3> QED
      BY <3>2, <3>3
  <2> QED
    BY <2>1, <2>3 DEF GitReadWhatWasAudited, Content
<1>2. CASE Change \/ UNCHANGED vars
  BY <1>2 DEF Change, vars, GitReadWhatWasAudited, Content
<1> QED
  BY <1>1, <1>2 DEF Next, ReadControlFile, InspectDirectory, StartGit, GitReads, GitEnds,
     Refuse, Auditing

LEMMA Inductive == IInv /\ [Next]_vars => IInv'
BY TypesKept, StampsKept, FirstAuditKept, CommandKept, SecondAuditKept, ResultKept
   DEF IInv

-----------------------------------------------------------------------------
(* Nobody changes the repository.                                          *)

Quiet == changes = 0 /\ \A f \in Files : files[f].content # "bad"

(* What an audit that looks now records of a file or directory.            *)
There(x) == IF x \in Files THEN files[x] ELSE Directory(x)

(* What the audits have recorded is what there is, and what there is is    *)
(* what resolve_local_git_config expects.                                  *)
QuietAudit ==
  Quiet =>
    /\ files["dotgit"].present
    /\ \A f \in {"commondir", "backlink"} : files[f].present = (layout = "linked")
    /\ Auditing => \A x \in Items : Rank[x] < next => record[x] = There(x)
    /\ pc \in {"git", "after"} => \A x \in Items : before[x] = There(x)
    /\ pc = "after" => exit \in {"zero", "other"}

LEMMA QuietInit == Init => QuietAudit /\ QuietRepositoryIsServed
<1> SUFFICES ASSUME Init PROVE QuietAudit /\ QuietRepositoryIsServed
  OBVIOUS
<1>1. \A x \in Items : ~(Rank[x] < next)
  BY RankBounds DEF Init
<1> QED
  BY <1>1 DEF Init, QuietAudit, QuietRepositoryIsServed

LEMMA QuietKept ==
  TypeOK /\ QuietAudit /\ QuietRepositoryIsServed /\ [Next]_vars
    => (QuietAudit /\ QuietRepositoryIsServed)'
<1> SUFFICES ASSUME TypeOK, QuietAudit, QuietRepositoryIsServed, [Next]_vars
             PROVE  (QuietAudit /\ QuietRepositoryIsServed)'
  OBVIOUS
<1> USE TypesOfState
<1>1. CASE Change
  <2>1. changes' > 0
    BY <1>1 DEF Change
  <2> QED
    BY <2>1 DEF QuietAudit, Quiet, QuietRepositoryIsServed
<1>2. SUFFICES ASSUME Quiet, UNCHANGED <<layout, fs>>
               PROVE  (QuietAudit /\ QuietRepositoryIsServed)'
  <2>1. CASE UNCHANGED <<layout, fs>>
    <3>1. Quiet' <=> Quiet
      BY <2>1 DEF Quiet, fs
    <3>2. CASE ~Quiet
      <4>1. changes' > 0 \/ \E f \in Files : files'[f].content = "bad"
        BY <2>1, <3>2 DEF Quiet, fs
      <4> QED
        BY <3>1, <3>2, <4>1 DEF QuietAudit, QuietRepositoryIsServed
    <3> QED
      BY <1>2, <2>1, <3>2
  <2> QED
    BY <1>1, <2>1, GitLeavesItsFiles
       DEF Next, vars, ReadControlFile, InspectDirectory, StartGit, GitReads, GitEnds,
           Compare, Refuse
<1>3. /\ pc # "refused" \/ exit = "other"
      /\ files["dotgit"].present
      /\ \A f \in {"commondir", "backlink"} : files[f].present = (layout = "linked")
      /\ Auditing => \A x \in Items : Rank[x] < next => record[x] = There(x)
      /\ pc \in {"git", "after"} => \A x \in Items : before[x] = There(x)
      /\ pc = "after" => exit \in {"zero", "other"}
  BY <1>2 DEF QuietAudit, QuietRepositoryIsServed, Quiet
<1>4. \A x \in Items : There(x)' = There(x)
  BY <1>2 DEF There, Directory, fs
<1>5. \A f \in Files : Topology(f) /\ files[f].content = "good"
  BY <1>2, <1>3 DEF Topology, Quiet, Files
<1>6. SUFFICES /\ pc' # "refused" \/ exit' = "other"
               /\ Auditing' => \A x \in Items : Rank[x] < next' => record'[x] = There(x)
               /\ pc' \in {"git", "after"} => \A x \in Items : before'[x] = There(x)
               /\ pc' = "after" => exit' \in {"zero", "other"}
  BY <1>2, <1>3, <1>4 DEF QuietAudit, QuietRepositoryIsServed, fs
<1>7. CASE ReadControlFile
  <2>1. PICK f \in Files : /\ Rank[f] = next /\ record' = [record EXCEPT ![f] = files[f]]
                           /\ next' = next + 1 /\ UNCHANGED <<layout, fs, pc, before, saw, exit>>
    BY <1>5, <1>7 DEF ReadControlFile
  <2>2. \A x \in Items \ {f} : record'[x] = record[x] /\ Rank[x] # next
    BY <2>1, RanksDiffer DEF TypeOK, Items
  <2>3. record'[f] = There(f)
    BY <2>1 DEF There, TypeOK, Items
  <2>4. \A x \in Items \ {f} : Rank[x] < next' => Rank[x] < next
    BY <2>1, <2>2, RankBounds
  <2> QED
    BY <1>3, <1>7, <2>1, <2>2, <2>3, <2>4 DEF Auditing, ReadControlFile
<1>8. CASE InspectDirectory
  <2>1. PICK d \in Dirs : /\ Rank[d] = next /\ record' = [record EXCEPT ![d] = Directory(d)]
                          /\ next' = next + 1
    BY <1>8 DEF InspectDirectory
  <2>2. \A x \in Items \ {d} : record'[x] = record[x] /\ Rank[x] # next
    BY <2>1, RanksDiffer DEF TypeOK, Items
  <2>3. record'[d] = There(d)
    BY <2>1 DEF There, TypeOK, Items, Files, Dirs
  <2>4. \A x \in Items \ {d} : Rank[x] < next' => Rank[x] < next
    BY <2>1, <2>2, RankBounds
  <2> QED
    BY <1>3, <1>8, <2>1, <2>2, <2>3, <2>4 DEF Auditing, InspectDirectory
<1>9. next = 8 /\ Auditing => (\A x \in Items : record[x] = There(x)) /\ ~ConfigRefused
  <2> SUFFICES ASSUME next = 8, Auditing
               PROVE  (\A x \in Items : record[x] = There(x)) /\ ~ConfigRefused
    OBVIOUS
  <2>1. \A x \in Items : record[x] = There(x)
    BY <1>3, RankBounds
  <2>2. \A f \in Files : record[f] = files[f]
    BY <2>1 DEF There, Items
  <2> QED
    BY <1>5, <2>1, <2>2 DEF ConfigRefused, Files
<1>10. CASE StartGit
  <2>1. before' = record /\ pc' = "git" /\ Auditing /\ next = 8
    BY <1>9, <1>10 DEF StartGit, Auditing
  <2> QED
    BY <1>9, <2>1 DEF Auditing
<1>11. CASE GitReads
  BY <1>3, <1>11 DEF GitReads, Auditing
<1>12. CASE GitEnds
  BY <1>3, <1>12, RankBounds DEF GitEnds
<1>13. CASE Compare
  <2>1. pc = "after" /\ next = 8 /\ exit \in {"zero", "other"}
    BY <1>3, <1>13 DEF Compare
  <2>2. record = before
    <3>1. \A x \in Items : record[x] = before[x]
      BY <1>3, <1>9, <2>1 DEF Auditing
    <3> QED
      BY <3>1 DEF TypeOK
  <2>3. pc' = "accepted" \/ (pc' = "refused" /\ exit' = "other")
    BY <1>9, <1>13, <2>1, <2>2 DEF Compare, SameRecord, Auditing, Refuse
  <2> QED
    BY <2>3 DEF Auditing
<1>14. CASE UNCHANGED vars
  BY <1>3, <1>14 DEF vars, Auditing
<1>15. ~Change
  BY <1>2 DEF Change, fs
<1> QED
  BY <1>7, <1>8, <1>10, <1>11, <1>12, <1>13, <1>14, <1>15 DEF Next

-----------------------------------------------------------------------------
(* The readers of trusted files.                                           *)

(* A file with its metadata, and what the others can do to it: every       *)
(* change moves its stamp beyond the stamps that there are.                *)
FileVersions == [bytes : Seq(Nat), safe : BOOLEAN, stamp : 0..MaxChanges]

FilesOK ==
  /\ file \in [Inodes -> FileVersions] /\ first \in FileVersions
  /\ edits \in 0..MaxChanges /\ payload \in Seq(Nat)
  /\ first.stamp <= edits
  /\ \A i \in Inodes : file[i].stamp <= edits

(* The file that is being read is the one of the first status, or its      *)
(* stamp tells that it is not.                                             *)
Kept == file[fd].stamp = first.stamp

HeldOK ==
  /\ kind = "descriptor" \/ step \in {"stat", "bind", "read", "stat_again"} => fd \in Inodes
  /\ step \in {"bind", "read", "stat_again", "verify", "accepted"} => Trusted!Acceptable(first)
  /\ step \in {"bind", "read", "stat_again"} /\ Kept => file[fd] = first

(* How far the reader has come.                                            *)
PayloadOK ==
  /\ step \in {"check", "open", "stat", "bind"} =>
       payload = <<>> /\ at = 0 /\ (kind = "path" => offset = 0)
  /\ step = "read" => Len(payload) <= MaxSize
  /\ kind = "descriptor" /\ step \in {"read", "stat_again"} =>
       /\ at = Len(payload) /\ at <= Len(first.bytes)
       /\ Kept => payload = SubSeq(first.bytes, 1, at)
  /\ kind = "path" /\ step = "read" /\ Kept =>
       offset <= Len(first.bytes) /\ payload = SubSeq(first.bytes, 1, offset)
  /\ kind = "path" /\ step = "stat_again" /\ Kept => payload = first.bytes
  /\ step \in {"verify", "accepted"} => payload = first.bytes
  /\ step = "accepted" /\ pinned => payload = digest

ReadInv == Trusted!TypeOK /\ FilesOK /\ HeldOK /\ PayloadOK

-----------------------------------------------------------------------------

LEMMA ReadInit == Trusted!Init => ReadInv
<1> SUFFICES ASSUME Trusted!Init PROVE ReadInv
  OBVIOUS
<1> USE TrustedParameters DEF Trusted!Parameters, Trusted!Init
<1>1. PICK n \in [Inodes -> 0..MaxBytes], s \in [Inodes -> BOOLEAN] :
        file = [i \in Inodes |-> [bytes |-> [k \in 1..n[i] |-> 0], safe |-> s[i], stamp |-> 0]]
  OBVIOUS
<1>2. ASSUME NEW i \in Inodes
      PROVE  /\ file[i] \in FileVersions /\ file[i].stamp = 0
             /\ Len(file[i].bytes) <= MaxBytes /\ file[i].safe \in BOOLEAN
  <2>1. n[i] \in 0..MaxBytes /\ s[i] \in BOOLEAN
    OBVIOUS
  <2>2. [k \in 1..n[i] |-> 0] \in Seq(Nat) /\ Len([k \in 1..n[i] |-> 0]) = n[i]
    BY <2>1
  <2>3. file[i] = [bytes |-> [k \in 1..n[i] |-> 0], safe |-> s[i], stamp |-> 0]
    BY <1>1
  <2>4. file[i].bytes = [k \in 1..n[i] |-> 0] /\ file[i].safe = s[i] /\ file[i].stamp = 0
    BY <2>3
  <2>5. file[i] \in FileVersions
    BY <2>1, <2>2, <2>3 DEF FileVersions
  <2> QED
    BY <2>1, <2>2, <2>4, <2>5
<1>3. file \in [Inodes -> FileVersions]
  BY <1>1, <1>2
<1>4. first \in FileVersions /\ payload \in Seq(Nat)
  BY DEF Trusted!Unread, FileVersions
<1>5. FilesOK
  BY <1>2, <1>3, <1>4 DEF FilesOK, Trusted!Unread
<1>6. Trusted!TypeOK
  <2>1. pinned \in BOOLEAN
    BY Zenon
  <2> QED
    BY <1>2, <2>1 DEF Trusted!TypeOK
<1>7. HeldOK /\ PayloadOK
  BY DEF HeldOK, PayloadOK
<1> QED
  BY <1>5, <1>6, <1>7 DEF ReadInv

-----------------------------------------------------------------------------
(* The others.                                                             *)

(* A change of a file replaces one record by one with a new stamp.         *)
LEMMA FileChanged ==
  ASSUME Trusted!TypeOK, FilesOK, Trusted!ChangeFile
  PROVE  \E i \in Inodes, r \in FileVersions :
           /\ file' = [file EXCEPT ![i] = r]
           /\ r.stamp = edits + 1 /\ r.safe \in BOOLEAN /\ Len(r.bytes) <= MaxBytes
<1> USE TrustedParameters DEF Trusted!Parameters, FilesOK
<1>1. edits + 1 \in 0..MaxChanges /\ edits + 1 \in Nat
  BY DEF Trusted!ChangeFile
<1>2. PICK i \in Inodes :
       \/ /\ Len(file[i].bytes) < MaxBytes
          /\ Trusted!Rewrite(i, Append(file[i].bytes, edits + 1))
       \/ \E k \in DOMAIN file[i].bytes :
            \/ Trusted!Rewrite(i, [file[i].bytes EXCEPT ![k] = edits + 1])
            \/ Trusted!Rewrite(i, SubSeq(file[i].bytes, 1, k - 1))
       \/ file' = [file EXCEPT ![i].safe = ~@, ![i].stamp = edits + 1]
  BY Zenon DEF Trusted!ChangeFile
<1>3. /\ file[i] \in FileVersions /\ file[i].bytes \in Seq(Nat)
      /\ Len(file[i].bytes) \in 0..MaxBytes
  BY DEF FileVersions, Trusted!TypeOK
<1>4. file[i].safe \in BOOLEAN /\ (~file[i].safe) \in BOOLEAN
  <2>1. file[i].safe \in BOOLEAN
    BY DEF Trusted!TypeOK
  <2> QED
    BY Zenon, <2>1
<1>5. ASSUME NEW b \in Seq(Nat), Len(b) <= MaxBytes, Trusted!Rewrite(i, b)
      PROVE  \E r \in FileVersions : /\ file' = [file EXCEPT ![i] = r]
                                /\ r.stamp = edits + 1 /\ r.safe \in BOOLEAN
                                /\ Len(r.bytes) <= MaxBytes
  <2> DEFINE r == [file[i] EXCEPT !.bytes = b, !.stamp = edits + 1]
  <2>1. file' = [file EXCEPT ![i] = r]
    BY <1>5 DEF Trusted!Rewrite
  <2>2. r \in FileVersions /\ r.bytes = b /\ r.stamp = edits + 1 /\ r.safe = file[i].safe
    BY <1>1, <1>3 DEF FileVersions
  <2> QED
    BY <1>4, <1>5, <2>1, <2>2
<1>6. CASE /\ Len(file[i].bytes) < MaxBytes
           /\ Trusted!Rewrite(i, Append(file[i].bytes, edits + 1))
  <2>1. /\ Append(file[i].bytes, edits + 1) \in Seq(Nat)
        /\ Len(Append(file[i].bytes, edits + 1)) <= MaxBytes
    BY <1>1, <1>3, <1>6
  <2> QED
    BY <1>5, <1>6, <2>1
<1>7. ASSUME NEW k \in DOMAIN file[i].bytes,
             \/ Trusted!Rewrite(i, [file[i].bytes EXCEPT ![k] = edits + 1])
             \/ Trusted!Rewrite(i, SubSeq(file[i].bytes, 1, k - 1))
      PROVE  \E r \in FileVersions : /\ file' = [file EXCEPT ![i] = r]
                                /\ r.stamp = edits + 1 /\ r.safe \in BOOLEAN
                                /\ Len(r.bytes) <= MaxBytes
  <2>1. k \in 1..Len(file[i].bytes)
    BY <1>3
  <2>2. /\ [file[i].bytes EXCEPT ![k] = edits + 1] \in Seq(Nat)
        /\ Len([file[i].bytes EXCEPT ![k] = edits + 1]) = Len(file[i].bytes)
    BY <1>1, <1>3, <2>1, ExceptSeq
  <2>3. /\ SubSeq(file[i].bytes, 1, k - 1) \in Seq(Nat)
        /\ Len(SubSeq(file[i].bytes, 1, k - 1)) <= MaxBytes
    <3>0. \A j \in 1..Len(file[i].bytes) : file[i].bytes[j] \in Nat
      BY <1>3, ElementOfSeq
    <3>1. k - 1 \in Int /\ \A j \in 1..k - 1 : file[i].bytes[j] \in Nat
      BY <1>3, <2>1, <3>0
    <3>2. /\ SubSeq(file[i].bytes, 1, k - 1) \in Seq(Nat)
          /\ Len(SubSeq(file[i].bytes, 1, k - 1)) = IF 1 <= k - 1 THEN k - 1 - 1 + 1 ELSE 0
      BY <1>3, <3>1, SubSeqProperties
    <3> QED
      BY <1>3, <2>1, <3>2
  <2>4. Len([file[i].bytes EXCEPT ![k] = edits + 1]) <= MaxBytes
    BY <1>3, <2>2
  <2> QED
    BY Zenon, <1>5, <1>7, <2>2, <2>3, <2>4
<1>8. CASE file' = [file EXCEPT ![i].safe = ~@, ![i].stamp = edits + 1]
  <2> DEFINE r == [file[i] EXCEPT !.safe = ~@, !.stamp = edits + 1]
  <2>1. file' = [file EXCEPT ![i] = r]
    BY <1>8
  <2>2. r \in FileVersions /\ r.bytes = file[i].bytes /\ r.stamp = edits + 1
        /\ r.safe = ~file[i].safe
    BY <1>1, <1>3, <1>4 DEF FileVersions
  <2>3. r.safe \in BOOLEAN
    BY Zenon, <1>4, <2>2
  <2>4. Len(r.bytes) <= MaxBytes
    BY <1>3, <2>2
  <2> QED
    BY Zenon, <2>1, <2>2, <2>3, <2>4
<1> QED
  BY <1>2, <1>6, <1>7, <1>8, <1>5

LEMMA OthersStep ==
  ReadInv /\ (Trusted!ChangeFile \/ Trusted!ReplaceName \/ Trusted!MoveOffset) => ReadInv'
<1> SUFFICES ASSUME ReadInv, Trusted!ChangeFile \/ Trusted!ReplaceName \/ Trusted!MoveOffset PROVE ReadInv'
  OBVIOUS
<1> USE TrustedParameters DEF ReadInv, Trusted!Parameters
<1>1. CASE Trusted!ChangeFile
  <2>0. /\ edits < MaxChanges /\ edits' = edits + 1
        /\ UNCHANGED <<kind, pinned, name, step, fd, offset, first, at, payload, digest>>
    BY <1>1 DEF Trusted!ChangeFile
  <2>1. PICK i \in Inodes, r \in FileVersions :
           /\ file' = [file EXCEPT ![i] = r]
           /\ r.stamp = edits + 1 /\ r.safe \in BOOLEAN /\ Len(r.bytes) <= MaxBytes
    BY <1>1, FileChanged
  <2>2. \A j \in Inodes : file'[j] = IF j = i THEN r ELSE file[j]
    BY <2>1 DEF FilesOK
  <2>3. edits' = edits + 1 /\ edits' \in 0..MaxChanges /\ edits \in Nat
    BY <2>0 DEF FilesOK
  <2>4. FilesOK'
    <3>1. file' \in [Inodes -> FileVersions]
      BY <2>1 DEF FilesOK
    <3>2. first.stamp \in Nat /\ \A j \in Inodes : file[j].stamp \in Nat
      BY DEF FilesOK, FileVersions
    <3>3. first.stamp <= edits + 1 /\ \A j \in Inodes : file'[j].stamp <= edits + 1
      BY <2>1, <2>2, <2>3, <3>2 DEF FilesOK
    <3> QED
      BY <2>0, <2>3, <3>1, <3>3 DEF FilesOK
  <2>5. Trusted!TypeOK'
    <3>1. pinned' \in BOOLEAN
      BY Zenon, <2>0 DEF Trusted!TypeOK
    <3>2. ASSUME NEW j \in Inodes
          PROVE  /\ Len(file'[j].bytes) <= MaxBytes /\ file'[j].safe \in BOOLEAN
                 /\ file'[j].stamp \in 0..MaxChanges
      BY <2>1, <2>2, <2>3 DEF Trusted!TypeOK
    <3> QED
      BY <2>0, <3>1, <3>2 DEF Trusted!TypeOK
  <2>6. ASSUME fd \in Inodes, Kept' PROVE Kept /\ file'[fd] = file[fd]
    <3>1. first.stamp \in Nat /\ first.stamp <= edits
      BY DEF FilesOK, FileVersions
    <3>2. file'[fd].stamp = first.stamp
      BY <2>0, <2>6 DEF Kept
    <3>3. fd # i
      BY <2>1, <2>2, <2>3, <3>1, <3>2
    <3> QED
      BY <2>2, <2>6, <3>2, <3>3 DEF Kept
  <2>7. HeldOK'
    BY <2>0, <2>6 DEF HeldOK, Kept
  <2>8. PayloadOK'
    BY <2>0, <2>6 DEF PayloadOK, HeldOK, Kept
  <2> QED
    BY <2>4, <2>5, <2>7, <2>8
<1>2. CASE Trusted!ReplaceName
  <2> USE <1>2 DEF Trusted!ReplaceName
  <2>1. Trusted!TypeOK'
    BY Zenon DEF Trusted!TypeOK
  <2>2. FilesOK'
    BY DEF FilesOK, FileVersions
  <2>3. HeldOK' /\ PayloadOK'
    BY DEF HeldOK, PayloadOK, Kept
  <2> QED
    BY <2>1, <2>2, <2>3
<1>3. CASE Trusted!MoveOffset
  <2> USE <1>3 DEF Trusted!MoveOffset, Trusted!fs
  <2>0. offset' \in 0..MaxBytes
    BY DEF Trusted!TypeOK
  <2>1. Trusted!TypeOK'
    BY Zenon, <2>0 DEF Trusted!TypeOK
  <2>2. FilesOK'
    BY DEF FilesOK
  <2>3. HeldOK' /\ PayloadOK'
    BY DEF HeldOK, PayloadOK, Kept
  <2> QED
    BY <2>1, <2>2, <2>3
<1> QED
  BY <1>1, <1>2, <1>3

-----------------------------------------------------------------------------
(* Both readers.                                                           *)

Steps == {"check", "open", "stat", "bind", "read", "stat_again", "verify", "accepted",
          "refused"}

(* No step of a reader changes a file.                                     *)
LEMMA ReaderFrame ==
  ASSUME Trusted!TypeOK, FilesOK, UNCHANGED <<kind, pinned, Trusted!fs>>,
         step' \in Steps, fd' \in Inodes \cup {Trusted!None},
         offset' \in 0..MaxBytes, at' \in 0..MaxBytes,
         first' \in FileVersions, first'.stamp <= edits,
         payload' \in Seq(Nat), Len(payload') <= MaxSize + Chunk
  PROVE  (Trusted!TypeOK /\ FilesOK)'
<1>1. pinned' \in BOOLEAN
  BY Zenon DEF Trusted!TypeOK
<1>2. FilesOK'
  BY DEF FilesOK, Trusted!fs
<1>3. Trusted!TypeOK'
  BY <1>1 DEF Trusted!TypeOK, Steps, Trusted!fs
<1> QED
  BY <1>2, <1>3

LEMMA GotoFrame ==
  ASSUME Trusted!TypeOK, FilesOK, NEW there \in Steps, Trusted!Goto(there)
  PROVE  (Trusted!TypeOK /\ FilesOK)'
<1>1. /\ fd \in Inodes \cup {Trusted!None} /\ offset \in 0..MaxBytes /\ at \in 0..MaxBytes
      /\ Len(payload) <= MaxSize + Chunk
  BY DEF Trusted!TypeOK
<1>2. first \in FileVersions /\ first.stamp <= edits /\ payload \in Seq(Nat)
  BY DEF FilesOK
<1>3. /\ step' = there
      /\ UNCHANGED <<kind, pinned, Trusted!fs, fd, offset, first, at, payload>>
  BY DEF Trusted!Goto
<1> QED
  BY <1>1, <1>2, <1>3, ReaderFrame

LEMMA RefuseStep == ReadInv /\ Trusted!Refuse => ReadInv'
<1> SUFFICES ASSUME ReadInv, Trusted!Refuse PROVE ReadInv'
  OBVIOUS
<1> USE DEF ReadInv
<1>1. /\ fd \in Inodes \cup {Trusted!None} /\ offset \in 0..MaxBytes /\ at \in 0..MaxBytes
      /\ Len(payload) <= MaxSize + Chunk
  BY DEF Trusted!TypeOK
<1>2. first \in FileVersions /\ first.stamp <= edits /\ payload \in Seq(Nat)
  BY DEF FilesOK
<1>3. /\ step' = "refused" /\ fd' = IF kind = "path" THEN Trusted!None ELSE fd
      /\ UNCHANGED <<kind, pinned, Trusted!fs, offset, first, at, payload>>
  BY DEF Trusted!Refuse
<1>4. (Trusted!TypeOK /\ FilesOK)'
  BY <1>1, <1>2, <1>3, ReaderFrame DEF Steps
<1>5. HeldOK' /\ PayloadOK'
  BY <1>3 DEF HeldOK, PayloadOK
<1> QED
  BY <1>4, <1>5

LEMMA OpeningStep ==
  ReadInv /\ (Trusted!CheckName \/ Trusted!Open \/ Trusted!Stat \/ Trusted!Bind) => ReadInv'
<1> SUFFICES ASSUME ReadInv, Trusted!CheckName \/ Trusted!Open \/ Trusted!Stat \/ Trusted!Bind,
                    ~Trusted!Refuse
             PROVE  ReadInv'
  BY RefuseStep
<1> USE TrustedParameters DEF ReadInv, Trusted!Parameters
<1>1. /\ fd \in Inodes \cup {Trusted!None} /\ offset \in 0..MaxBytes /\ at \in 0..MaxBytes
      /\ Len(payload) <= MaxSize + Chunk /\ kind \in {"path", "descriptor"}
  BY DEF Trusted!TypeOK
<1>2. first \in FileVersions /\ first.stamp <= edits /\ payload \in Seq(Nat)
  BY DEF FilesOK
<1>3. CASE Trusted!CheckName
  <2>1. \/ kind = "descriptor" /\ Trusted!Goto("stat")
        \/ kind = "path" /\ Trusted!Goto("open")
    BY <1>1, <1>3 DEF Trusted!CheckName
  <2>2. (Trusted!TypeOK /\ FilesOK)'
    BY <2>1, GotoFrame DEF Steps
  <2>3. HeldOK' /\ PayloadOK'
    BY <1>3, <2>1 DEF Trusted!CheckName, Trusted!Goto, HeldOK, PayloadOK
  <2> QED
    BY <2>2, <2>3
<1>4. CASE Trusted!Open
  <2>1. /\ step = "open" /\ step' = "stat" /\ fd' = name /\ name # Trusted!Symlink
        /\ UNCHANGED <<kind, pinned, Trusted!fs, offset, first, at, payload>>
    BY <1>4 DEF Trusted!Open
  <2>2. fd' \in Inodes
    BY <2>1 DEF Trusted!TypeOK
  <2>3. (Trusted!TypeOK /\ FilesOK)'
    BY <1>1, <1>2, <2>1, <2>2, ReaderFrame DEF Steps
  <2>4. HeldOK' /\ PayloadOK'
    BY <2>1, <2>2 DEF HeldOK, PayloadOK
  <2> QED
    BY <2>3, <2>4
<1>5. CASE Trusted!Stat
  <2>1. /\ step = "stat" /\ Trusted!Acceptable(file[fd]) /\ first' = file[fd]
        /\ step' = IF kind = "path" THEN "read" ELSE "bind"
        /\ UNCHANGED <<kind, pinned, Trusted!fs, fd, offset, at, payload, digest>>
    BY <1>5 DEF Trusted!Stat
  <2>2. fd \in Inodes
    BY <2>1 DEF HeldOK
  <2>3. first' \in FileVersions /\ first'.stamp <= edits
    BY <2>1, <2>2 DEF FilesOK
  <2>4. (Trusted!TypeOK /\ FilesOK)'
    BY <1>1, <1>2, <2>1, <2>3, ReaderFrame DEF Steps
  <2>5. HeldOK'
    BY <2>1, <2>2 DEF HeldOK, Kept, Trusted!fs, Trusted!Acceptable
  <2>6. PayloadOK'
    <3>1. payload = <<>> /\ at = 0 /\ (kind = "path" => offset = 0)
      BY <2>1 DEF PayloadOK
    <3>2. /\ Len(first'.bytes) \in Nat /\ Len(payload) = 0
          /\ SubSeq(first'.bytes, 1, 0) = <<>>
      BY <2>3, <3>1, SubSeqEmpty DEF FileVersions
    <3> QED
      BY <2>1, <3>1, <3>2 DEF PayloadOK
  <2> QED
    BY <2>4, <2>5, <2>6
<1>6. CASE Trusted!Bind
  <2>1. step = "bind" /\ Trusted!Goto("read")
    BY <1>6 DEF Trusted!Bind
  <2>2. (Trusted!TypeOK /\ FilesOK)'
    BY <2>1, GotoFrame DEF Steps
  <2>3. HeldOK'
    BY <2>1 DEF HeldOK, Trusted!Goto, Kept, Trusted!fs
  <2>4. PayloadOK'
    <3>1. payload = <<>> /\ at = 0 /\ (kind = "path" => offset = 0)
      BY <2>1 DEF PayloadOK
    <3>2. /\ Len(first.bytes) \in Nat /\ Len(payload) = 0
          /\ SubSeq(first.bytes, 1, 0) = <<>>
      BY <1>2, <3>1, SubSeqEmpty DEF FileVersions
    <3> QED
      BY <2>1, <3>1, <3>2 DEF PayloadOK, Trusted!Goto
  <2> QED
    BY <2>2, <2>3, <2>4
<1> QED
  BY <1>3, <1>4, <1>5, <1>6

(* A chunk of an unchanged file continues what has been read of it.        *)
LEMMA SliceExtends ==
  ASSUME NEW s \in Seq(Nat), NEW from \in 0..Len(s), NEW upto \in from..Len(s)
  PROVE  SubSeq(s, 1, from) \o SubSeq(s, from + 1, upto) = SubSeq(s, 1, upto)
<1>1. 1 \in 1..Len(s) + 1 /\ from \in 1 - 1..Len(s) /\ upto \in from..Len(s)
  OBVIOUS
<1> QED
  BY ONLY <1>1, s \in Seq(Nat), ConcatAdjacentSubSeq

(* How long a chunk is, and that it is bytes.                              *)
LEMMA SliceIsBytes ==
  ASSUME NEW s \in Seq(Nat), NEW from \in Nat, NEW upto \in Nat, upto <= Len(s)
  PROVE  /\ SubSeq(s, from + 1, upto) \in Seq(Nat)
         /\ Len(SubSeq(s, from + 1, upto)) = IF from < upto THEN upto - from ELSE 0
         /\ SubSeq(s, from + 1, upto) = <<>> <=> from >= upto
<1>1. \A j \in 1..Len(s) : s[j] \in Nat
  BY ElementOfSeq
<1>2. from + 1 \in Int /\ upto \in Int /\ \A j \in from + 1..upto : s[j] \in Nat
  BY <1>1
<1>3. /\ SubSeq(s, from + 1, upto) \in Seq(Nat)
      /\ Len(SubSeq(s, from + 1, upto)) = IF from + 1 <= upto THEN upto - (from + 1) + 1 ELSE 0
  BY <1>2, SubSeqProperties
<1>4. SubSeq(s, from + 1, upto) = <<>> <=> Len(SubSeq(s, from + 1, upto)) = 0
  BY <1>3
<1> QED
  BY <1>3, <1>4

LEMMA ReadChunkStep == ReadInv /\ Trusted!ReadChunk => ReadInv'
<1> SUFFICES ASSUME ReadInv, Trusted!ReadChunk PROVE ReadInv'
  OBVIOUS
<1> USE TrustedParameters DEF ReadInv, Trusted!Parameters
<1> DEFINE b == file[fd].bytes
           end == Trusted!MinOf(offset + Trusted!MinOf(Chunk, MaxSize + 1), Len(b))
           chunk == SubSeq(b, offset + 1, end)
<1>1. step = "read" /\ kind = "path" /\ fd \in Inodes
  BY DEF Trusted!ReadChunk, HeldOK
<1>2. /\ b \in Seq(Nat) /\ Len(b) \in 0..MaxBytes /\ payload \in Seq(Nat)
      /\ first \in FileVersions /\ first.stamp <= edits /\ first.bytes \in Seq(Nat)
  BY <1>1 DEF FilesOK, FileVersions, Trusted!TypeOK
<1>3. /\ offset \in 0..MaxBytes /\ at \in 0..MaxBytes
      /\ Len(payload) \in Nat /\ Len(payload) <= MaxSize
  BY <1>1, <1>2 DEF Trusted!TypeOK, PayloadOK
<1>4. /\ end \in 0..MaxBytes /\ end <= Len(b) /\ end <= offset + Chunk
      /\ end <= offset => end = Len(b)
  BY <1>2, <1>3 DEF Trusted!MinOf
<1>5. /\ chunk \in Seq(Nat) /\ Len(chunk) = IF offset < end THEN end - offset ELSE 0
      /\ chunk = <<>> <=> offset >= end
  <2>1. offset \in Nat /\ end \in Nat
    BY <1>3, <1>4
  <2> HIDE DEF end, b
  <2> QED
    BY <1>2, <1>4, <2>1, SliceIsBytes
<1>6. Kept => /\ b = first.bytes /\ offset <= Len(b) /\ payload = SubSeq(b, 1, offset)
  BY <1>1 DEF HeldOK, PayloadOK
<1>7. IF chunk = <<>> THEN Trusted!Goto("stat_again")
      ELSE /\ payload' = payload \o chunk /\ offset' = end
           /\ step' = IF Len(payload') > MaxSize THEN "refused" ELSE "read"
           /\ fd' = IF Len(payload') > MaxSize THEN Trusted!None ELSE fd
           /\ UNCHANGED <<kind, pinned, Trusted!fs, first, at, digest>>
  BY DEF Trusted!ReadChunk, Trusted!Slice
<1> HIDE DEF end, chunk, b
<1>8. CASE chunk = <<>>
  <2>1. Trusted!Goto("stat_again")
    BY <1>7, <1>8
  <2>2. (Trusted!TypeOK /\ FilesOK)'
    BY <2>1, GotoFrame DEF Steps
  <2>3. HeldOK'
    BY <1>1, <2>1 DEF HeldOK, Trusted!Goto, Kept, Trusted!fs
  <2>4. Kept => payload = first.bytes
    <3> SUFFICES ASSUME Kept PROVE payload = first.bytes
      OBVIOUS
    <3>1. offset = Len(b)
      BY <1>2, <1>3, <1>4, <1>5, <1>6, <1>8
    <3> QED
      BY <1>2, <1>6, <3>1, SubSeqFull
  <2>5. PayloadOK'
    BY <1>1, <2>1, <2>4 DEF PayloadOK, Trusted!Goto, Kept, Trusted!fs
  <2> QED
    BY <2>2, <2>3, <2>5
<1>9. CASE chunk # <<>>
  <2>1. /\ payload' = payload \o chunk /\ offset' = end
        /\ step' = IF Len(payload') > MaxSize THEN "refused" ELSE "read"
        /\ fd' = IF Len(payload') > MaxSize THEN Trusted!None ELSE fd
        /\ UNCHANGED <<kind, pinned, Trusted!fs, first, at, digest>>
    BY <1>7, <1>9
  <2>2. payload' \in Seq(Nat) /\ Len(payload') = Len(payload) + Len(chunk)
    BY <1>2, <1>5, <2>1, ConcatProperties
  <2>3. Len(payload') <= MaxSize + Chunk /\ Len(payload') \in Nat /\ offset < end
    BY <1>3, <1>4, <1>5, <1>9, <2>2
  <2>4. (Trusted!TypeOK /\ FilesOK)'
    BY <1>1, <1>2, <1>3, <1>4, <2>1, <2>2, <2>3, ReaderFrame DEF Steps
  <2>5. Len(payload') > MaxSize => HeldOK' /\ PayloadOK'
    BY <1>1, <2>1 DEF HeldOK, PayloadOK
  <2>6. ASSUME ~(Len(payload') > MaxSize) PROVE HeldOK' /\ PayloadOK'
    <3>1. step' = "read" /\ fd' = fd /\ file' = file
      BY <2>1, <2>6 DEF Trusted!fs
    <3>2. HeldOK'
      BY <1>1, <2>1, <3>1 DEF HeldOK, Kept
    <3>3. Kept => end <= Len(first.bytes) /\ payload' = SubSeq(first.bytes, 1, end)
      <4> SUFFICES ASSUME Kept PROVE end <= Len(b) /\ payload' = SubSeq(b, 1, end)
        BY <1>6
      <4>1. offset \in 0..Len(b) /\ end \in offset..Len(b)
        BY <1>2, <1>3, <1>4, <1>6, <2>3
      <4>2. SubSeq(b, 1, offset) \o chunk = SubSeq(b, 1, end)
        BY <1>2, <4>1, SliceExtends DEF chunk
      <4>3. payload = SubSeq(b, 1, offset) /\ payload' = payload \o chunk
        BY <1>6, <2>1
      <4>4. end <= Len(b)
        BY <1>2, <4>1
      <4> QED
        BY <4>2, <4>3, <4>4
    <3>4. /\ kind' = "path" /\ first' = first /\ offset' = end /\ Len(payload') <= MaxSize
          /\ Kept' => Kept
      BY <1>1, <2>1, <2>3, <2>6, <3>1 DEF Kept
    <3>5. PayloadOK'
      BY <3>1, <3>3, <3>4 DEF PayloadOK
    <3> QED
      BY <3>2, <3>5
  <2> QED
    BY <2>4, <2>5, <2>6
<1> QED
  BY <1>8, <1>9

LEMMA PreadChunkStep == ReadInv /\ Trusted!PreadChunk => ReadInv'
<1> SUFFICES ASSUME ReadInv, Trusted!PreadChunk PROVE ReadInv'
  OBVIOUS
<1> USE TrustedParameters DEF ReadInv, Trusted!Parameters
<1> DEFINE b == file[fd].bytes
           size == Len(first.bytes)
           end == Trusted!MinOf(at + Trusted!MinOf(Chunk, size - at), Len(b))
           chunk == SubSeq(b, at + 1, end)
<1>1. step = "read" /\ kind = "descriptor" /\ fd \in Inodes
  BY DEF Trusted!PreadChunk, HeldOK
<1>2. /\ b \in Seq(Nat) /\ Len(b) \in 0..MaxBytes /\ payload \in Seq(Nat)
      /\ first \in FileVersions /\ first.stamp <= edits /\ first.bytes \in Seq(Nat)
      /\ size \in 1..MaxSize
  BY <1>1 DEF FilesOK, FileVersions, Trusted!TypeOK, HeldOK, Trusted!Acceptable
<1>3. /\ offset \in 0..MaxBytes /\ at \in 0..MaxBytes
      /\ at = Len(payload) /\ at <= size
  BY <1>1 DEF Trusted!TypeOK, PayloadOK
<1>4. at < size => end \in 0..MaxBytes /\ end <= Len(b) /\ end <= size
  <2> SUFFICES ASSUME at < size
               PROVE  end \in 0..MaxBytes /\ end <= Len(b) /\ end <= size
    OBVIOUS
  <2>1. /\ Trusted!MinOf(Chunk, size - at) \in Nat /\ Trusted!MinOf(Chunk, size - at) <= size - at
    BY <1>2, <1>3 DEF Trusted!MinOf
  <2> DEFINE m == Trusted!MinOf(Chunk, size - at)
  <2>2. at + m \in Nat /\ at + m <= size
    <3> HIDE DEF m, size
    <3> QED
      BY <1>2, <1>3, <2>1 DEF m
  <2>3. end = Trusted!MinOf(at + m, Len(b))
    OBVIOUS
  <2> HIDE DEF m, b, size, end
  <2> QED
    BY <1>2, <2>2, <2>3 DEF Trusted!MinOf
<1>5. at < size => /\ chunk \in Seq(Nat)
                   /\ Len(chunk) = IF at < end THEN end - at ELSE 0
                   /\ chunk = <<>> <=> at >= end
  <2>1. at \in Nat /\ (at < size => end \in Nat)
    BY <1>3, <1>4
  <2> HIDE DEF end, b, size
  <2> QED
    BY <1>2, <1>4, <2>1, SliceIsBytes
<1>6. Kept => /\ b = first.bytes /\ payload = SubSeq(b, 1, at)
  BY <1>1 DEF HeldOK, PayloadOK
<1>7. IF at >= size \/ chunk = <<>> THEN Trusted!Goto("stat_again")
      ELSE /\ payload' = payload \o chunk /\ at' = at + Len(chunk)
           /\ UNCHANGED <<kind, pinned, Trusted!fs, step, fd, offset, first, digest>>
  BY DEF Trusted!PreadChunk, Trusted!Slice
<1> HIDE DEF end, chunk, b
<1>8. CASE at >= size \/ chunk = <<>>
  <2>1. Trusted!Goto("stat_again")
    BY <1>7, <1>8
  <2>2. (Trusted!TypeOK /\ FilesOK)'
    BY <2>1, GotoFrame DEF Steps
  <2>3. HeldOK'
    BY <1>1, <2>1 DEF HeldOK, Trusted!Goto, Kept, Trusted!fs
  <2>5. PayloadOK'
    BY <1>1, <2>1 DEF PayloadOK, Trusted!Goto, Kept, Trusted!fs
  <2> QED
    BY <2>2, <2>3, <2>5
<1>9. CASE at < size /\ chunk # <<>>
  <2>1. /\ payload' = payload \o chunk /\ at' = at + Len(chunk)
        /\ UNCHANGED <<kind, pinned, Trusted!fs, step, fd, offset, first, digest>>
    BY <1>2, <1>3, <1>7, <1>9
  <2>2. payload' \in Seq(Nat) /\ Len(payload') = Len(payload) + Len(chunk)
    BY <1>2, <1>5, <1>9, <2>1, ConcatProperties
  <2>3. /\ at < end /\ at' = end /\ Len(payload') = end /\ end <= size
    <3>1. at \in Nat /\ end \in Nat /\ end <= size /\ Len(payload) = at
      BY <1>3, <1>4, <1>9
    <3>2. at < end /\ Len(chunk) = end - at
      BY <1>5, <1>9, <3>1
    <3> QED
      BY ONLY <2>1, <2>2, <3>1, <3>2
  <2>4. /\ at' \in 0..MaxBytes /\ Len(payload') <= MaxSize + Chunk /\ Len(payload') <= MaxSize
    BY <1>2, <1>4, <1>9, <2>3
  <2>5. fd \in Inodes \cup {Trusted!None} /\ step \in Steps
    BY <1>1 DEF Steps
  <2>6. (Trusted!TypeOK /\ FilesOK)'
    BY <1>2, <1>3, <2>1, <2>2, <2>4, <2>5, ReaderFrame
  <2>7. HeldOK'
    BY <1>1, <2>1 DEF HeldOK, Kept, Trusted!fs
  <2>8. Kept => payload' = SubSeq(first.bytes, 1, end)
    <3> SUFFICES ASSUME Kept PROVE payload' = SubSeq(b, 1, end)
      BY <1>6
    <3>1. at \in 0..Len(b) /\ end \in at..Len(b)
      BY <1>2, <1>3, <1>4, <1>6, <1>9, <2>3
    <3>2. SubSeq(b, 1, at) \o chunk = SubSeq(b, 1, end)
      BY <1>2, <3>1, SliceExtends DEF chunk
    <3> QED
      BY <1>6, <2>1, <3>2
  <2>9. PayloadOK'
    BY <1>1, <2>1, <2>3, <2>4, <2>8 DEF PayloadOK, Kept, Trusted!fs
  <2> QED
    BY <2>6, <2>7, <2>9
<1> QED
  BY <1>2, <1>3, <1>8, <1>9

LEMMA ClosingStep == ReadInv /\ (Trusted!StatAgain \/ Trusted!Verify) => ReadInv'
<1> SUFFICES ASSUME ReadInv, Trusted!StatAgain \/ Trusted!Verify, ~Trusted!Refuse PROVE ReadInv'
  BY RefuseStep
<1> USE TrustedParameters DEF ReadInv, Trusted!Parameters
<1>1. /\ fd \in Inodes \cup {Trusted!None} /\ offset \in 0..MaxBytes /\ at \in 0..MaxBytes
      /\ Len(payload) <= MaxSize + Chunk /\ kind \in {"path", "descriptor"}
  BY DEF Trusted!TypeOK
<1>2. first \in FileVersions /\ first.stamp <= edits /\ payload \in Seq(Nat)
  BY DEF FilesOK
<1>3. CASE Trusted!StatAgain
  <2>1. /\ step = "stat_again" /\ step' = "verify" /\ Kept
        /\ kind = "descriptor" => Len(payload) = Len(first.bytes)
        /\ fd' = IF kind = "path" THEN Trusted!None ELSE fd
        /\ UNCHANGED <<kind, pinned, Trusted!fs, offset, first, at, payload, digest>>
    BY <1>3 DEF Trusted!StatAgain, Trusted!SameIdentity, Kept
  <2>2. (Trusted!TypeOK /\ FilesOK)'
    BY <1>1, <1>2, <2>1, ReaderFrame DEF Steps
  <2>3. payload = first.bytes
    <3>1. CASE kind = "path"
      BY <2>1, <3>1 DEF PayloadOK
    <3>2. CASE kind = "descriptor"
      <4>1. payload = SubSeq(first.bytes, 1, Len(first.bytes))
        BY <2>1, <3>2 DEF PayloadOK
      <4>2. first.bytes \in Seq(Nat)
        BY <1>2 DEF FileVersions
      <4> QED
        BY <4>1, <4>2, SubSeqFull
    <3> QED
      BY <1>1, <3>1, <3>2
  <2>4. HeldOK' /\ PayloadOK'
    BY <2>1, <2>3 DEF HeldOK, PayloadOK
  <2> QED
    BY <2>2, <2>4
<1>4. CASE Trusted!Verify
  <2>1. step = "verify" /\ (pinned => payload = digest) /\ Trusted!Goto("accepted")
    BY <1>4 DEF Trusted!Verify
  <2>2. (Trusted!TypeOK /\ FilesOK)'
    BY <2>1, GotoFrame DEF Steps
  <2>3. HeldOK' /\ PayloadOK'
    BY <2>1 DEF HeldOK, PayloadOK, Trusted!Goto
  <2> QED
    BY <2>2, <2>3
<1> QED
  BY <1>3, <1>4

-----------------------------------------------------------------------------

LEMMA ReadStep == ReadInv /\ [Trusted!Next]_Trusted!vars => ReadInv'
<1> SUFFICES ASSUME ReadInv, [Trusted!Next]_Trusted!vars PROVE ReadInv'
  OBVIOUS
<1>1. CASE UNCHANGED Trusted!vars
  BY <1>1 DEF Trusted!vars, Trusted!fs, ReadInv, Trusted!TypeOK, FilesOK, HeldOK, PayloadOK, Kept
<1> QED
  BY <1>1, OthersStep, OpeningStep, ReadChunkStep, PreadChunkStep, ClosingStep DEF Trusted!Next, Trusted!Reader

-----------------------------------------------------------------------------
(* Nobody changes the file.                                                *)

(* The file a reader is about.                                             *)
Source == IF kind = "path" THEN name ELSE fd

(* The descriptor is open on that file, the first status is that of its    *)
(* only version, and a descriptor has been read to its end.                *)
QuietRead ==
  edits = 0 =>
    /\ name \in Inodes
    /\ kind = "path" /\ step \in {"stat", "read", "stat_again"} => fd = name
    /\ step = "bind" => kind = "descriptor"
    /\ step \in {"bind", "read", "stat_again", "verify"} => first = file[Source]
    /\ kind = "descriptor" /\ step = "stat_again" => at = Len(first.bytes)

LEMMA QuietReadInit == Trusted!Init => QuietRead /\ Trusted!QuietFileIsRead
BY DEF Trusted!Init, QuietRead, Trusted!QuietFileIsRead

(* A read of a file that is as it was stays within the limit.              *)
LEMMA QuietChunk == ReadInv /\ Trusted!ReadChunk /\ Kept => step' # "refused"
<1> SUFFICES ASSUME ReadInv, Trusted!ReadChunk, Kept, step' = "refused" PROVE FALSE
  OBVIOUS
<1> USE TrustedParameters DEF ReadInv, Trusted!Parameters
<1> DEFINE b == file[fd].bytes
           end == Trusted!MinOf(offset + Trusted!MinOf(Chunk, MaxSize + 1), Len(b))
           chunk == SubSeq(b, offset + 1, end)
<1>1. step = "read" /\ kind = "path" /\ fd \in Inodes
  BY DEF Trusted!ReadChunk, HeldOK
<1>2. /\ b \in Seq(Nat) /\ b = first.bytes /\ Len(b) \in 0..MaxSize
      /\ payload = SubSeq(b, 1, offset) /\ offset \in 0..Len(b)
  BY <1>1 DEF FilesOK, FileVersions, HeldOK, PayloadOK, Trusted!Acceptable, Trusted!TypeOK
<1>3. end \in 0..Len(b)
  BY <1>2 DEF Trusted!MinOf
<1>4. /\ payload' = payload \o chunk /\ chunk # <<>>
      /\ Len(payload') > MaxSize
  BY DEF Trusted!ReadChunk, Trusted!Slice, Trusted!Goto
<1> HIDE DEF end, b
<1>5. chunk # <<>> => offset \in 0..Len(b) /\ end \in offset..Len(b)
  BY <1>2, <1>3, SliceIsBytes
<1> HIDE DEF chunk
<1>6. offset \in 0..Len(b) /\ end \in offset..Len(b)
  BY <1>4, <1>5
<1>7. payload' = SubSeq(b, 1, end)
  BY <1>2, <1>4, <1>6, SliceExtends DEF chunk
<1>8. end \in Nat /\ 0 \in Nat /\ end <= Len(b)
  BY <1>2, <1>3
<1>9. Len(SubSeq(b, 0 + 1, end)) = IF 0 < end THEN end - 0 ELSE 0
  BY ONLY <1>2, <1>8, SliceIsBytes
<1> QED
  BY <1>2, <1>3, <1>4, <1>7, <1>9

(* A descriptor whose file is as it was is read to its end.                *)
LEMMA QuietPread ==
  ReadInv /\ Trusted!PreadChunk /\ Kept =>
    /\ step' # "refused"
    /\ step' = "stat_again" => at' = Len(first.bytes)
<1> SUFFICES ASSUME ReadInv, Trusted!PreadChunk, Kept
             PROVE  /\ step' # "refused"
                    /\ step' = "stat_again" => at' = Len(first.bytes)
  OBVIOUS
<1> USE TrustedParameters DEF ReadInv, Trusted!Parameters
<1> DEFINE b == first.bytes
           m == Trusted!MinOf(Chunk, Len(b) - at)
           end == Trusted!MinOf(at + m, Len(b))
           chunk == SubSeq(b, at + 1, end)
<1>1. step = "read" /\ kind = "descriptor" /\ file[fd].bytes = b
  BY DEF Trusted!PreadChunk, HeldOK
<1>2. b \in Seq(Nat) /\ Len(b) \in Nat /\ at \in 0..Len(b)
  BY <1>1 DEF FilesOK, FileVersions, PayloadOK, Trusted!TypeOK
<1>3. IF at >= Len(b) \/ chunk = <<>> THEN step' = "stat_again" /\ at' = at
      ELSE step' = "read"
  BY <1>1 DEF Trusted!PreadChunk, Trusted!Slice, Trusted!Goto
<1>4. at < Len(b) => chunk # <<>>
  <2> SUFFICES ASSUME at < Len(b) PROVE chunk # <<>>
    OBVIOUS
  <2>1. m \in Nat \ {0} /\ m <= Len(b) - at
    BY <1>2 DEF Trusted!MinOf
  <2>2. end = at + m
    BY <1>2, <2>1 DEF Trusted!MinOf
  <2>3. at \in Nat /\ end \in Nat /\ end <= Len(b) /\ ~(at >= end)
    BY <1>2, <2>1, <2>2
  <2> HIDE DEF m, end, b
  <2> QED
    BY <1>2, <2>3, SliceIsBytes
<1> HIDE DEF chunk
<1> QED
  BY <1>2, <1>3, <1>4

LEMMA QuietReadKept ==
  ReadInv /\ QuietRead /\ Trusted!QuietFileIsRead /\ [Trusted!Next]_Trusted!vars
    => (QuietRead /\ Trusted!QuietFileIsRead)'
<1> SUFFICES ASSUME ReadInv, QuietRead, Trusted!QuietFileIsRead, [Trusted!Next]_Trusted!vars
             PROVE  (QuietRead /\ Trusted!QuietFileIsRead)'
  OBVIOUS
<1> USE DEF ReadInv
<1>0. /\ edits \in Nat /\ kind \in {"path", "descriptor"}
      /\ Trusted!None \notin Inodes /\ Trusted!Symlink \notin Inodes
  BY TrustedParameters DEF FilesOK, Trusted!TypeOK, Trusted!Parameters
<1>1. CASE Trusted!ChangeFile \/ Trusted!ReplaceName
  <2>1. edits' # 0
    BY <1>0, <1>1 DEF Trusted!ChangeFile, Trusted!ReplaceName
  <2> QED
    BY <2>1 DEF QuietRead, Trusted!QuietFileIsRead
<1>2. CASE Trusted!MoveOffset \/ UNCHANGED Trusted!vars
  BY <1>2 DEF Trusted!MoveOffset, Trusted!vars, Trusted!fs, QuietRead, Source, Trusted!QuietFileIsRead,
              Trusted!Acceptable
<1>3. ASSUME Trusted!Reader PROVE (QuietRead /\ Trusted!QuietFileIsRead)'
  <2>1. /\ step \notin {"accepted", "refused"}
        /\ UNCHANGED <<kind, pinned, Trusted!fs, digest>>
    BY <1>3 DEF Trusted!Reader, Trusted!CheckName, Trusted!Open, Trusted!Stat, Trusted!Bind,
                Trusted!ReadChunk, Trusted!PreadChunk, Trusted!StatAgain, Trusted!Verify,
                Trusted!Refuse, Trusted!Goto
  <2>2. SUFFICES ASSUME edits = 0 PROVE (QuietRead /\ Trusted!QuietFileIsRead)'
    BY <2>1 DEF QuietRead, Trusted!QuietFileIsRead, Trusted!fs
  <2>3. /\ name \in Inodes /\ name # Trusted!Symlink
        /\ kind = "path" /\ step \in {"stat", "read", "stat_again"} => fd = name
        /\ step = "bind" => kind = "descriptor"
        /\ step \in {"bind", "read", "stat_again", "verify"} => first = file[Source]
        /\ kind = "descriptor" /\ step = "stat_again" => at = Len(first.bytes)
    BY <1>0, <2>2 DEF QuietRead
  <2>4. Source' \in {name, fd, fd'} /\ (kind = "path" \/ fd' = fd => Source' = Source)
    BY <2>1 DEF Source, Trusted!fs
  <2>5. /\ step \in {"stat", "bind", "read", "stat_again"} => fd = Source
        /\ step \in {"bind", "read", "stat_again"} => Kept /\ Trusted!Acceptable(first)
    BY <1>0, <2>3 DEF Source, Kept, HeldOK
  <2>6. CASE Trusted!CheckName \/ Trusted!Open
    <3>1. /\ step' \in {"open", "stat"}
          /\ kind = "path" /\ step' = "stat" => fd' = name
      BY <1>0, <2>3, <2>6 DEF Trusted!CheckName, Trusted!Open, Trusted!Goto
    <3> QED
      BY <2>1, <2>3, <3>1 DEF QuietRead, Trusted!QuietFileIsRead, Trusted!fs
  <2>7. CASE Trusted!Stat
    <3>1. fd = Source
      BY <2>5, <2>7 DEF Trusted!Stat
    <3>2. CASE ~Trusted!Acceptable(file[fd])
      <4>1. Trusted!Refuse
        BY <2>7, <3>2 DEF Trusted!Stat
      <4> QED
        BY <2>1, <2>3, <2>4, <3>1, <3>2, <4>1
           DEF Trusted!Refuse, QuietRead, Trusted!QuietFileIsRead, Trusted!fs, Source, Trusted!Acceptable
    <3>3. CASE Trusted!Acceptable(file[fd])
      <4>1. /\ first' = file[fd] /\ step' = (IF kind = "path" THEN "read" ELSE "bind") /\ fd' = fd
        BY <2>7, <3>3 DEF Trusted!Stat
      <4> QED
        BY <1>0, <2>1, <2>3, <2>4, <2>7, <3>1, <4>1
           DEF QuietRead, Trusted!QuietFileIsRead, Trusted!fs, Trusted!Stat
    <3> QED
      BY <3>2, <3>3
  <2>8. CASE Trusted!Bind
    <3>1. kind = "descriptor" /\ fd = Source /\ first = file[fd]
      BY <2>3, <2>5, <2>8 DEF Trusted!Bind
    <3>2. CASE name = fd /\ file[fd].safe
      <4>1. step' = "read" /\ UNCHANGED <<fd, first, at>>
        BY <2>8, <3>2 DEF Trusted!Bind, Trusted!Goto
      <4> QED
        BY <2>1, <2>3, <2>4, <3>1, <4>1 DEF QuietRead, Trusted!QuietFileIsRead, Trusted!fs
    <3>3. CASE ~(name = fd /\ file[fd].safe)
      <4>1. Trusted!Refuse
        BY <2>8, <3>3 DEF Trusted!Bind
      <4>2. ~Trusted!Acceptable(file[fd]) \/ name # fd
        BY <3>3 DEF Trusted!Acceptable
      <4> QED
        BY <2>1, <2>3, <3>1, <4>1, <4>2
           DEF Trusted!Refuse, QuietRead, Trusted!QuietFileIsRead, Trusted!fs, Trusted!Acceptable
    <3> QED
      BY <3>2, <3>3
  <2>9. CASE Trusted!ReadChunk
    <3>1. /\ step' \in {"read", "stat_again"} /\ step = "read" /\ kind = "path"
          /\ fd' = fd /\ first' = first
      <4>1. step' # "refused"
        BY <2>5, <2>9, QuietChunk DEF Trusted!ReadChunk
      <4> QED
        BY <2>9, <4>1 DEF Trusted!ReadChunk, Trusted!Goto
    <3> QED
      BY <2>1, <2>3, <2>4, <3>1 DEF QuietRead, Trusted!QuietFileIsRead, Trusted!fs
  <2>10. CASE Trusted!PreadChunk
    <3>1. /\ step' \in {"read", "stat_again"} /\ step = "read" /\ kind = "descriptor"
          /\ fd' = fd /\ first' = first
      BY <2>10 DEF Trusted!PreadChunk, Trusted!Goto
    <3>2. step' = "stat_again" => at' = Len(first.bytes)
      BY <2>5, <2>10, <3>1, QuietPread
    <3> QED
      BY <2>1, <2>3, <2>4, <3>1, <3>2 DEF QuietRead, Trusted!QuietFileIsRead, Trusted!fs
  <2>11. CASE Trusted!StatAgain
    <3>1. step = "stat_again" /\ first = file[Source]
      BY <2>3, <2>11 DEF Trusted!StatAgain
    <3>2. Trusted!SameIdentity /\ (kind = "descriptor" => Len(payload) = Len(first.bytes))
      BY <2>3, <2>5, <3>1 DEF Trusted!SameIdentity, PayloadOK
    <3>3. step' = "verify" /\ first' = first /\ fd' = IF kind = "path" THEN Trusted!None ELSE fd
      BY <2>11, <3>2 DEF Trusted!StatAgain
    <3> QED
      BY <2>1, <2>3, <2>4, <3>1, <3>3 DEF QuietRead, Trusted!QuietFileIsRead, Trusted!fs, Source
  <2>12. CASE Trusted!Verify
    <3>1. first = file[Source] /\ payload = first.bytes
      BY <2>3, <2>12 DEF Trusted!Verify, PayloadOK
    <3>2. CASE pinned /\ payload # digest
      <4>1. Trusted!Refuse
        BY <2>12, <3>2 DEF Trusted!Verify
      <4> QED
        BY <2>1, <2>3, <3>1, <3>2, <4>1
           DEF Trusted!Refuse, QuietRead, Trusted!QuietFileIsRead, Trusted!fs, Source
    <3>3. CASE ~(pinned /\ payload # digest)
      <4>1. step' = "accepted"
        BY <2>12, <3>3 DEF Trusted!Verify, Trusted!Goto
      <4> QED
        BY <2>1, <2>3, <4>1 DEF QuietRead, Trusted!QuietFileIsRead, Trusted!fs
    <3> QED
      BY <3>2, <3>3
  <2> QED
    BY <1>3, <2>6, <2>7, <2>8, <2>9, <2>10, <2>11, <2>12 DEF Trusted!Reader
<1> QED
  BY <1>1, <1>2, <1>3 DEF Trusted!Next

-----------------------------------------------------------------------------
(* Both guards in one exploration: whichever runs, each behaves as its own *)
(* module says.                                                            *)

LEMMA EachGuard == MCSpec => Spec /\ Trusted!Spec
<1>1. MCInit => Init /\ Trusted!Init
  BY DEF MCInit
<1>2. [MCNext]_<<guard, vars, reader>> => [Next]_vars /\ [Trusted!Next]_Trusted!vars
  BY DEF MCNext, reader, vars, fs, Trusted!vars, Trusted!fs
<1> QED
  BY <1>1, <1>2, PTL DEF MCSpec, Spec, Trusted!Spec

LEMMA GitInvariant == Spec => [](IInv /\ QuietAudit /\ QuietRepositoryIsServed)
<1>1. Init => IInv /\ QuietAudit /\ QuietRepositoryIsServed
  BY InitHolds, QuietInit
<1>2. /\ IInv /\ QuietAudit /\ QuietRepositoryIsServed /\ [Next]_vars
      => (IInv /\ QuietAudit /\ QuietRepositoryIsServed)'
  BY Inductive, QuietKept DEF IInv
<1> QED
  BY <1>1, <1>2, PTL DEF Spec

LEMMA ReaderInvariant == Trusted!Spec => [](ReadInv /\ QuietRead /\ Trusted!QuietFileIsRead)
<1>1. Trusted!Init => ReadInv /\ QuietRead /\ Trusted!QuietFileIsRead
  BY ReadInit, QuietReadInit
<1>2. /\ ReadInv /\ QuietRead /\ Trusted!QuietFileIsRead /\ [Trusted!Next]_Trusted!vars
      => (ReadInv /\ QuietRead /\ Trusted!QuietFileIsRead)'
  BY ReadStep, QuietReadKept
<1> QED
  BY <1>1, <1>2, PTL DEF Trusted!Spec

(* For any number of changes, at any moments: when the two audits around a *)
(* Git command are equal, the command read exactly the configuration that  *)
(* the first of them found harmless (run_git_streaming).                   *)
THEOREM AuditsBracketTheCommand == MCSpec => []GitReadWhatWasAudited
<1>1. IInv => GitReadWhatWasAudited
  BY DEF IInv
<1> QED
  BY EachGuard, GitInvariant, <1>1, PTL

(* The types of both guards hold, and whatever read_trusted_file and       *)
(* read_trusted_inherited_fd accept is one version of one file, with safe  *)
(* metadata and within the limit, for any files and any number of changes  *)
(* by others at any points of the reading.                                 *)
THEOREM AcceptedReadsAreWhole == MCSpec => []AcceptedIsOneVersion
<1>1. IInv => TypeOK
  BY DEF IInv
<1>2. ReadInv => Trusted!AcceptedIsOneVersion
  BY DEF ReadInv, HeldOK, PayloadOK, Trusted!AcceptedIsOneVersion
<1>3. TypeOK /\ Trusted!AcceptedIsOneVersion => AcceptedIsOneVersion
  BY DEF AcceptedIsOneVersion
<1> QED
  BY EachGuard, GitInvariant, ReaderInvariant, <1>1, <1>2, <1>3, PTL

(* A repository that nobody changes is refused for a bad configuration or  *)
(* a failed command only, and a file that nobody changes for its size, its *)
(* metadata, its name or its digest only, however often the launcher moves *)
(* the offset of the descriptor and whatever the size of the chunks.       *)
THEOREM QuietReadsAreServed == MCSpec => []QuietReadsSucceed
<1>1. QuietRepositoryIsServed /\ Trusted!QuietFileIsRead => QuietReadsSucceed
  BY DEF QuietReadsSucceed
<1> QED
  BY EachGuard, GitInvariant, ReaderInvariant, <1>1, PTL

=============================================================================
