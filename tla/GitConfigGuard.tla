--------------------------- MODULE GitConfigGuard ---------------------------
(***************************************************************************)
(* Every Git command of scripts/governed-ansible-exec.py runs between two  *)
(* audits of the repository's configuration (run_git_streaming): the       *)
(* control files and directories are read one after another before the     *)
(* command and once more after it, and the result counts only when the two *)
(* records are equal.                                                      *)
(*                                                                         *)
(* A file is good or bad: bad stands for a forbidden section or key, a     *)
(* malformed pointer, or one that leads elsewhere.  Its identity (inode,   *)
(* times and the rest of git_path_identity) is the stamp of its last       *)
(* change; a directory changes when an entry comes or goes.  External: the *)
(* writers, and the command, which reads the files when it likes and may   *)
(* refresh a stale index, unless its environment forbids it.  The          *)
(* directories above the repository are taken to stay in place.            *)
(***************************************************************************)
EXTENDS Integers

CONSTANTS
  MaxChanges  \* bound: changes to the control files

ASSUME GitConfigGuardAssumption == MaxChanges \in Nat

Files == {"dotgit", "commondir", "backlink", "config", "worktree_config"}
Dirs  == {"gitdir", "common"}
Items == Files \cup Dirs

(* The order in which resolve_local_git_config looks at them.              *)
Rank == [x \in Items |->
  CASE x = "dotgit"    -> 1 [] x = "gitdir" -> 2 [] x = "commondir" -> 3
    [] x = "backlink"  -> 4 [] x = "common" -> 5 [] x = "config"    -> 6
    [] x = "worktree_config" -> 7]

DirOf(f) == IF f = "config" THEN "common" ELSE "gitdir"

(* "standalone" has a .git directory; in the others .git is a file: of a   *)
(* linked worktree, or a pointer to the one Git directory of a submodule.  *)
Layouts == {"standalone", "linked", "pointer"}

(* The stamps of changes by others count from 1; Git has one of its own.   *)
ByGit  == -1
StampValues == ByGit..MaxChanges

Absent  == [present |-> FALSE, content |-> "good", stamp |-> 0]
Unseen  == [present |-> FALSE, content |-> "unseen", stamp |-> 0]
Records == [present : BOOLEAN, content : {"good", "bad", "unseen"}, stamp : StampValues]

VARIABLES
  layout,
  files, dirs,
  changes,  \* the changes so far: the stamp of the latest
  pc,
  next,     \* the rank of the item the audit reads next
  record,   \* the audit under way
  before,   \* the audit before the command
  saw,      \* what the command read of each file
  exit      \* how it ended

fs   == <<files, dirs, changes>>
vars == <<layout, fs, pc, next, record, before, saw, exit>>

Contents == {"good", "bad", "absent"}
Content(r) == IF r.present THEN r.content ELSE "absent"

TypeOK ==
  /\ layout \in Layouts
  /\ files \in [Files -> [present : BOOLEAN, content : {"good", "bad"},
                          stamp : 0..MaxChanges]]
  /\ dirs \in [Dirs -> StampValues] /\ changes \in 0..MaxChanges
  /\ pc \in {"before", "git", "after", "accepted", "refused"}
  /\ next \in 1..8
  /\ record \in [Items -> Records] /\ before \in [Items -> Records]
  /\ saw \in [Files -> SUBSET Contents]
  /\ exit \in {"running", "zero", "other"}
  /\ pc \in {"before", "after"} => \A x \in Items : record[x] = Unseen <=> Rank[x] >= next

NothingSeen == [x \in Items |-> Unseen]

(* A sound repository; its configuration may be missing or bad.            *)
Init ==
  /\ layout \in Layouts
  /\ files \in [Files -> {Absent} \cup [present : {TRUE}, content : {"good", "bad"},
                                        stamp : {0}]]
  /\ files["dotgit"].present /\ files["dotgit"].content = "good"
  /\ \A f \in {"commondir", "backlink"} :
       files[f].present = (layout = "linked") /\ files[f].content = "good"
  /\ dirs = [d \in Dirs |-> 0] /\ changes = 0
  /\ pc = "before" /\ next = 1 /\ record = NothingSeen /\ before = NothingSeen
  /\ saw = [f \in Files |-> {}] /\ exit = "running"

-----------------------------------------------------------------------------
(* The writers.  An entry that comes or goes changes its directory: that   *)
(* of .git is none of the recorded ones, and the two are one and the same  *)
(* without a linked worktree.                                              *)

Touched(f) == IF f = "dotgit" THEN {}
              ELSE IF layout = "linked" THEN {DirOf(f)} ELSE Dirs

Stamp(f) == dirs' = [d \in Dirs |-> IF d \in Touched(f) THEN changes + 1 ELSE dirs[d]]

Change ==
  /\ changes < MaxChanges /\ changes' = changes + 1
  /\ \E f \in Files \ {g \in {"dotgit"} : layout = "standalone"} :
       \/ /\ files[f].present /\ UNCHANGED dirs
          /\ \E c \in {"good", "bad"} :
               files' = [files EXCEPT ![f] = [present |-> TRUE, content |-> c,
                                              stamp |-> changes + 1]]
       \/ /\ files[f].present /\ Stamp(f)
          /\ files' = [files EXCEPT ![f] = Absent]
       \/ /\ ~files[f].present /\ Stamp(f)
          /\ \E c \in {"good", "bad"} :
               files' = [files EXCEPT ![f] = [present |-> TRUE, content |-> c,
                                              stamp |-> changes + 1]]
  /\ UNCHANGED <<layout, pc, next, record, before, saw, exit>>

-----------------------------------------------------------------------------
(* run_git_streaming.                                                      *)

Refuse == pc' = "refused" /\ UNCHANGED <<layout, fs, next, record, before, saw, exit>>

Auditing == pc \in {"before", "after"}

(* The pointer, and the two files that make a linked worktree.             *)
Topology(f) ==
  CASE f = "dotgit" -> files[f].present /\ files[f].content = "good"
    [] f \in {"commondir", "backlink"} ->
         files[f].present = (layout = "linked") /\ files[f].content = "good"
    [] OTHER -> TRUE

(* read_git_control_file, through one descriptor with two stats: a change  *)
(* in between is refused there.                                            *)
ReadControlFile ==
  /\ Auditing
  /\ \E f \in Files :
       /\ Rank[f] = next
       /\ IF ~Topology(f) THEN Refuse
          ELSE /\ record' = [record EXCEPT ![f] = files[f]] /\ next' = next + 1
               /\ UNCHANGED <<layout, fs, pc, before, saw, exit>>

Directory(d) == [present |-> TRUE, content |-> "good", stamp |-> dirs[d]]

InspectDirectory ==
  /\ Auditing
  /\ \E d \in Dirs :
       /\ Rank[d] = next
       /\ record' = [record EXCEPT ![d] = Directory(d)] /\ next' = next + 1
  /\ UNCHANGED <<layout, fs, pc, before, saw, exit>>

ConfigRefused ==
  \E f \in {"config", "worktree_config"} : record[f].present /\ record[f].content = "bad"

StartGit ==
  /\ pc = "before" /\ next = 8
  /\ IF ConfigRefused THEN Refuse
     ELSE /\ before' = record /\ pc' = "git"
          /\ UNCHANGED <<layout, fs, next, record, saw, exit>>

(* It has no use for the backlink.                                         *)
GitReads ==
  /\ pc = "git"
  /\ \E f \in Files \ {"backlink"} : saw' = [saw EXCEPT ![f] = @ \cup {Content(files[f])}]
  /\ UNCHANGED <<layout, fs, pc, next, record, before, exit>>

(* Seeded defect: the variable is not set, and Git takes its locks.        *)
DefaultEnvironment == [optional_locks |-> "1"]

(* git_environment, as far as it decides what a command writes.            *)
GitEnvironment == [optional_locks |-> "0"]

(* Writing a new index, index.lock comes and goes beside it: the stamp of  *)
(* its directory is none of the changes by others.                         *)
WithNewIndex == [d \in Dirs |-> IF d \in Touched("index") THEN ByGit ELSE dirs[d]]

(* Git would refresh an index that is stale.                               *)
GitEnds ==
  /\ pc = "git" /\ exit' \in {"zero", "other"}
  /\ \E stale \in BOOLEAN :
       dirs' = IF stale /\ GitEnvironment.optional_locks # "0" THEN WithNewIndex ELSE dirs
  /\ pc' = "after" /\ next' = 1 /\ record' = NothingSeen
  /\ UNCHANGED <<layout, files, changes, before, saw>>

(* Seeded defect: digests are compared, identities are not.                *)
SameContents == \A x \in Items : /\ record[x].present = before[x].present
                                 /\ record[x].content = before[x].content

SameRecord == record = before

Compare ==
  /\ pc = "after" /\ next = 8
  /\ IF ~ConfigRefused /\ SameRecord /\ exit = "zero"
     THEN pc' = "accepted" /\ UNCHANGED <<layout, fs, next, record, before, saw, exit>>
     ELSE Refuse

Next == \/ Change \/ ReadControlFile \/ InspectDirectory
        \/ StartGit \/ GitReads \/ GitEnds \/ Compare

Spec == Init /\ [][Next]_vars

-----------------------------------------------------------------------------
(* Properties.                                                             *)

(* The result of a command counts only when everything it read of the      *)
(* configuration, whenever it read it, is what the first audit had read    *)
(* and found harmless: no change in between goes unnoticed, not even one   *)
(* that was taken back, of a file that is there before and after or of one *)
(* that was there only while the command ran.                              *)
GitReadWhatWasAudited ==
  pc = "accepted" =>
    \A f \in Files : /\ saw[f] \subseteq {Content(before[f])}
                     /\ "bad" \notin saw[f]

(* The two audits refuse nothing by themselves: a repository that nobody   *)
(* else changes, with a harmless configuration, loses no successful        *)
(* command, be its index fresh or stale: Git is run so that it does not    *)
(* itself change what the second audit compares.                           *)
QuietRepositoryIsServed ==
  pc = "refused" =>
    changes > 0 \/ exit = "other" \/ \E f \in Files : files[f].content = "bad"

=============================================================================
