------------------------------ MODULE OwnedFile ------------------------------
(***************************************************************************)
(* The file primitives of scripts/materialize-exact-revision-review.py:    *)
(* open_owned_parent_directory and its three users,                        *)
(* write_owned_regular_file, protected_asset_bytes and                     *)
(* validated_runner_temp.                                                  *)
(*                                                                         *)
(* One call walks its parent chain descriptor by descriptor, does its work *)
(* through the last one and closes everything.  Every system call may fail *)
(* with an OSError.  A close that fails leaves the descriptor in an        *)
(* unknown state: its number may belong to somebody else already.  The     *)
(* process or the machine may stop at any point.                           *)
(***************************************************************************)
EXTENDS Integers

CONSTANTS
  Depth,   \* components of the parent directory below its anchor
  Size     \* bytes of the payload, in units of one os.write

ASSUME OwnedFileAssumption == Depth \in Nat /\ Size \in Nat \ {0}

Calls == {"write", "read", "anchor"}

(* Descriptors: the directories of the walk, the file under its own name   *)
(* (read, or inspected before it is replaced) and the temporary file.      *)
File == Depth + 1
Temp == Depth + 2
Descriptors == 0..Temp

VARIABLES
  call,     \* which function runs
  pc,
  at,       \* the directory descriptor it holds, -1 for none
  fd,       \* fd[d]: what became of descriptor d
  error,    \* an exception is on its way out
  noted,    \* clean-up details attached to it
  (* The directory.                                                        *)
  target,   \* the file under the target's name
  settled,  \* what that name means after a power failure
  temp,     \* the temporary name exists
  written,  \* payload bytes in the temporary file
  synced    \* they have been fsynced

process == <<call, pc, at, fd, error, noted>>
disk    == <<target, settled, temp, written, synced>>
vars    == <<process, disk>>

Targets == {"absent", "old", "unsafe", "new", "torn"}
Ended   == {"returned", "raised", "stopped"}

TypeOK ==
  /\ call \in Calls
  /\ pc \in {"walk", "hop", "file", "inspect", "asset", "create", "fill",
             "check", "close_temp", "replace", "sync_dir", "finally",
             "unlink", "close_dir"} \cup Ended
  /\ at \in -1..Depth
  /\ fd \in [Descriptors -> {"unused", "open", "closed", "unclear", "twice"}]
  /\ error \in BOOLEAN /\ noted \in BOOLEAN
  /\ target \in Targets /\ settled \in Targets
  /\ temp \in BOOLEAN /\ written \in 0..Size /\ synced \in BOOLEAN

Init ==
  /\ call \in Calls
  /\ pc = "walk" /\ at = -1
  /\ fd = [d \in Descriptors |-> "unused"]
  /\ error = FALSE /\ noted = FALSE
  /\ target \in {"absent", "old", "unsafe"} /\ settled = target
  /\ temp = FALSE /\ written = 0 /\ synced = FALSE

-----------------------------------------------------------------------------
(* close_descriptor_after_error makes one attempt and never another.       *)

Closings(d) == IF fd[d] = "open" THEN {"closed", "unclear"} ELSE {"twice"}

(* Seeded defect: a close that failed is tried again.                      *)
FailedHopClosingAgain ==
  \E next \in Closings(at + 1) :
    fd' = [fd EXCEPT ![at] = "twice", ![at + 1] = next]

(* The walk could not close the directory it leaves: that one is not       *)
(* touched again, and the one just opened is closed.                       *)
FailedHop ==
  \E next \in Closings(at + 1) :
    fd' = [fd EXCEPT ![at] = "unclear", ![at + 1] = next]

Opened(d) == fd' = [fd EXCEPT ![d] = "open"]

(* The caller has not entered its own try statement: nothing else is open. *)
WalkFails ==
  /\ pc' = "raised" /\ error' = TRUE /\ at' = -1
  /\ IF at = -1
     THEN UNCHANGED <<fd, noted>>
     ELSE \E c \in Closings(at) :
            /\ fd' = [fd EXCEPT ![at] = c]
            /\ noted' = (c = "unclear")

-----------------------------------------------------------------------------
(* open_owned_parent_directory.                                            *)

OpenNext ==
  /\ pc = "walk" /\ at < Depth
  /\ \/ /\ Opened(at + 1)
        /\ IF at = -1 THEN at' = 0 /\ UNCHANGED pc
                      ELSE pc' = "hop" /\ UNCHANGED at
        /\ UNCHANGED <<error, noted>>
     \/ WalkFails
  /\ UNCHANGED <<call, disk>>

ClosePrevious ==
  /\ pc = "hop"
  /\ \/ /\ fd' = [fd EXCEPT ![at] = "closed"]
        /\ at' = at + 1 /\ pc' = "walk"
        /\ UNCHANGED <<error, noted>>
     \/ /\ FailedHop
        /\ at' = -1 /\ pc' = "raised" /\ error' = TRUE /\ noted' = TRUE
  /\ UNCHANGED <<call, disk>>

(* The directory reached must be a directory of this user that nobody else *)
(* may write to; validated_runner_temp needs no more than that.            *)
ParentChecked ==
  /\ pc = "walk" /\ at = Depth
  /\ \/ /\ pc' = IF call = "anchor" THEN "close_dir" ELSE "file"
        /\ UNCHANGED <<at, fd, error, noted>>
     \/ WalkFails
  /\ UNCHANGED <<call, disk>>

-----------------------------------------------------------------------------
(* The work, inside a try statement.                                       *)

TrySteps == {"file", "inspect", "asset", "create", "fill", "check",
             "close_temp", "replace"}

(* OSError, a failed check, or any other exception.                        *)
Raise ==
  /\ pc \in TrySteps \ {"inspect"}
  /\ error' = TRUE /\ pc' = "finally"
  /\ UNCHANGED <<call, at, fd, noted, disk>>

(* O_NOFOLLOW; a missing file is an error only for the reader.             *)
OpenFile ==
  /\ pc = "file"
  /\ IF target = "absent"
     THEN call = "write" /\ pc' = "create" /\ UNCHANGED fd
     ELSE Opened(File) /\ pc' = IF call = "write" THEN "inspect" ELSE "asset"
  /\ UNCHANGED <<call, at, error, noted, disk>>

(* Seeded defect: what the inspection finds is not acted upon.             *)
InspectTargetOnly ==
  /\ pc = "inspect"
  /\ \E c \in Closings(File) :
       /\ fd' = [fd EXCEPT ![File] = c]
       /\ IF c = "closed"
          THEN pc' = "create" /\ UNCHANGED <<error, noted>>
          ELSE pc' = "finally" /\ error' = TRUE /\ noted' = (c = "unclear")
  /\ UNCHANGED <<call, at, disk>>

(* Type, links, owner and mode of the file about to be replaced.  Its      *)
(* descriptor is closed on both paths.                                     *)
InspectTarget ==
  /\ pc = "inspect"
  /\ \E c \in Closings(File), ok \in BOOLEAN :
       /\ ok => target # "unsafe"
       /\ fd' = [fd EXCEPT ![File] = c]
       /\ IF ok /\ c = "closed"
          THEN pc' = "create" /\ UNCHANGED <<error, noted>>
          ELSE pc' = "finally" /\ error' = TRUE /\ noted' = (c = "unclear")
  /\ UNCHANGED <<call, at, disk>>

ReadAsset ==
  /\ pc = "asset" /\ target # "unsafe"
  /\ pc' = "finally"
  /\ UNCHANGED <<call, at, fd, error, noted, disk>>

CreateTemporary ==
  /\ pc = "create"
  /\ temp' = TRUE /\ Opened(Temp) /\ pc' = "fill"
  /\ UNCHANGED <<call, at, error, noted, target, settled, written, synced>>

(* os.write may take less than it was given.                               *)
WriteSome ==
  /\ pc = "fill" /\ written < Size
  /\ written' \in written + 1..Size
  /\ UNCHANGED <<process, target, settled, temp, synced>>

SyncTemporary ==
  /\ pc = "fill" /\ written = Size
  /\ synced' = TRUE /\ pc' = "check"
  /\ UNCHANGED <<call, at, fd, error, noted, target, settled, temp, written>>

(* Size and content are read back through the descriptor.                  *)
ReadBack ==
  /\ pc = "check"
  /\ pc' = "close_temp"
  /\ UNCHANGED <<call, at, fd, error, noted, disk>>

CloseTemporary ==
  /\ pc = "close_temp"
  /\ \E c \in Closings(Temp) :
       /\ fd' = [fd EXCEPT ![Temp] = c]
       /\ IF c = "closed"
          THEN pc' = "replace" /\ UNCHANGED <<error, noted>>
          ELSE pc' = "finally" /\ error' = TRUE /\ noted' = TRUE
  /\ UNCHANGED <<call, at, disk>>

Replace ==
  /\ pc = "replace"
  /\ target' = "new" /\ temp' = FALSE /\ pc' = "sync_dir"
  /\ UNCHANGED <<call, at, fd, error, noted, settled, written, synced>>

(* Seeded defect: a directory that cannot be fsynced is an error.          *)
SyncDirectoryOrRaise ==
  /\ pc = "sync_dir"
  /\ \/ settled' = target /\ UNCHANGED error
     \/ error' = TRUE /\ UNCHANGED settled
  /\ pc' = "finally"
  /\ UNCHANGED <<call, at, fd, noted, target, temp, written, synced>>

(* An error of this fsync is passed over: the replacement is committed.    *)
SyncDirectory ==
  /\ pc = "sync_dir"
  /\ settled' \in {settled, target}
  /\ pc' = "finally"
  /\ UNCHANGED <<call, at, fd, error, noted, target, temp, written, synced>>

-----------------------------------------------------------------------------
(* The finally clauses.                                                    *)

Replaced == target = "new"

CloseTemporaryAtLast ==
  /\ pc = "finally" /\ call = "write"
  /\ IF fd[Temp] = "open"
     THEN \E c \in Closings(Temp) :
            /\ fd' = [fd EXCEPT ![Temp] = c]
            /\ noted' = (noted \/ c = "unclear")
     ELSE UNCHANGED <<fd, noted>>
  /\ pc' = "unlink"
  /\ UNCHANGED <<call, at, error, disk>>

UnlinkTemporary ==
  /\ pc = "unlink"
  /\ \/ temp' = (temp /\ Replaced) /\ UNCHANGED noted
     \/ ~Replaced /\ noted' = TRUE /\ UNCHANGED temp
  /\ pc' = "close_dir"
  /\ UNCHANGED <<call, at, fd, error, target, settled, written, synced>>

CloseAsset ==
  /\ pc = "finally" /\ call = "read"
  /\ IF fd[File] = "open"
     THEN \E c \in Closings(File) :
            /\ fd' = [fd EXCEPT ![File] = c]
            /\ noted' = (noted \/ c = "unclear")
     ELSE UNCHANGED <<fd, noted>>
  /\ pc' = "close_dir"
  /\ UNCHANGED <<call, at, error, disk>>

(* Clean-up that went wrong raises when nothing else does.                 *)
CloseDirectory ==
  /\ pc = "close_dir"
  /\ \E c \in Closings(at) :
       /\ fd' = [fd EXCEPT ![at] = c]
       /\ noted' = (noted \/ c = "unclear")
  /\ error' = (error \/ noted')
  /\ pc' = IF error' THEN "raised" ELSE "returned"
  /\ at' = -1
  /\ UNCHANGED <<call, disk>>

-----------------------------------------------------------------------------
(* The process is killed, or the power fails: an unsynced name or content  *)
(* may be lost.                                                            *)
Killed ==
  /\ pc \notin Ended
  /\ pc' = "stopped"
  /\ UNCHANGED <<call, at, fd, error, noted, disk>>

PowerFails ==
  /\ pc \notin Ended
  /\ pc' = "stopped"
  /\ \E survivor \in {settled, target} :
       target' = IF survivor = "new" /\ ~synced THEN "torn" ELSE survivor
  /\ UNCHANGED <<call, at, fd, error, noted, settled, temp, written, synced>>

Step ==
  \/ OpenNext \/ ClosePrevious \/ ParentChecked
  \/ OpenFile \/ InspectTarget \/ ReadAsset
  \/ CreateTemporary \/ WriteSome \/ SyncTemporary \/ ReadBack
  \/ CloseTemporary \/ Replace \/ SyncDirectory
  \/ Raise
  \/ CloseTemporaryAtLast \/ UnlinkTemporary \/ CloseAsset \/ CloseDirectory

Next == Step \/ Killed \/ PowerFails

Spec == Init /\ [][Next]_vars

-----------------------------------------------------------------------------
(* Properties.                                                             *)

(* No descriptor number is closed a second time, not even after a close    *)
(* that failed, and a call that has ended by itself has tried to close     *)
(* everything it opened; the types hold throughout.                        *)
ClosedOnce ==
  /\ TypeOK
  /\ \A d \in Descriptors :
       /\ fd[d] # "twice"
       /\ pc \in {"returned", "raised"} => fd[d] # "open"

(* What the caller is told: a return means the work is done and nothing is *)
(* left over; an exception after the replacement is committed has a close  *)
(* that failed as its reason, never a lost fsync of the directory; and a   *)
(* temporary file left behind is mentioned with the exception.             *)
OutcomeIsTold ==
  /\ pc = "returned" =>
       /\ ~temp /\ \A d \in Descriptors : fd[d] \in {"unused", "closed"}
       /\ call = "write" => target = "new"
  /\ pc = "raised" /\ target = "new" => \E d \in 0..Depth : fd[d] = "unclear"
  /\ pc = "raised" /\ temp => noted

Told == IF pc \in Ended THEN pc ELSE "pending"

Abstract == INSTANCE AtomicReplace WITH
  writes <- call = "write", name <- target, durable <- settled, told <- Told

(* Seen from its caller each call, with all its descriptors, fsyncs and     *)
(* clean-up, is one atomic replacement or none: the name never means       *)
(* anything but the old file or the whole new payload, which is on disk    *)
(* before the name is moved to it.                                         *)
ImplementsAtomicReplace == Abstract!Spec

=============================================================================
