---------------------------- MODULE MCReadGuards ----------------------------
(***************************************************************************)
(* The two places where scripts/governed-ansible-exec.py reads files that  *)
(* others may change and looks at them again before it believes what it    *)
(* read: the audits around a Git command (GitConfigGuard) and the readers  *)
(* of trusted files (TrustedRead).  One exploration covers both; which one *)
(* runs is chosen at the start, and the variables of the other one keep a  *)
(* fixed value.                                                            *)
(***************************************************************************)
EXTENDS GitConfigGuard

CONSTANTS Inodes, Pinned, Chunk, MaxSize, MaxBytes

VARIABLES
  guard,
  kind, pinned, name, file, edits, step, fd, offset, first, at, payload, digest

reader == <<kind, pinned, name, file, edits, step, fd, offset, first, at, payload, digest>>

Trusted == INSTANCE TrustedRead WITH pc <- step, changes <- edits

(* The instance that is explored is one the proofs speak of.               *)
ASSUME TrustedParameters == Trusted!Parameters

(* A sound repository and a sound file, for the guard that does not run.   *)
QuietRepository == /\ layout = "standalone"
                   /\ \A f \in Files : files[f].present = (f = "dotgit")

QuietFile ==
  /\ kind = "path" /\ ~pinned /\ name = Pinned
  /\ \A i \in Inodes : file[i].safe /\ file[i].bytes = <<0>>

MCInit ==
  /\ Init /\ Trusted!Init
  /\ \/ guard = "git"  /\ QuietFile
     \/ guard = "file" /\ QuietRepository

MCNext ==
  \/ guard = "git"  /\ Next /\ UNCHANGED <<guard, reader>>
  \/ guard = "file" /\ Trusted!Next /\ UNCHANGED <<guard, vars>>

MCSpec == MCInit /\ [][MCNext]_<<guard, vars, reader>>

(* Both readers of trusted files accept one version of the file and        *)
(* nothing else; the types of both guards are part of it.                  *)
AcceptedIsOneVersion == TypeOK /\ Trusted!AcceptedIsOneVersion

(* Neither guard is its own enemy: a repository or a file that nobody else *)
(* changes is refused for its content, its metadata or its name only,      *)
(* though the index that Git reads may be stale and others may move a      *)
(* shared offset.                                                          *)
QuietReadsSucceed == QuietRepositoryIsServed /\ Trusted!QuietFileIsRead

=============================================================================
