----------------------------- MODULE TrustedRead -----------------------------
(***************************************************************************)
(* The two ways in which scripts/governed-ansible-exec.py reads a file     *)
(* that its trust rests on: by its path (read_trusted_file) and through a  *)
(* descriptor that the root launcher left open (read_trusted_inherited_fd).*)
(*                                                                         *)
(* A file is its bytes, its metadata (safe: regular, one link, a trusted   *)
(* owner, not writable for others) and the stamp of its last change, which *)
(* stands for the times, the size and the rest of the identity.  External: *)
(* the owners, who rewrite files and put others in their place, and the    *)
(* launcher, which shares the offset of an inherited descriptor.           *)
(***************************************************************************)
EXTENDS Integers, Sequences

CONSTANTS
  Inodes,      \* files
  Pinned,      \* the file whose digest the caller pins
  Chunk,       \* bytes of one read
  MaxSize,     \* maximum_size
  MaxBytes,    \* bound: bytes of a file
  MaxChanges   \* bound: changes made by others

Symlink == "symlink"
None    == "none"

(* What the constants have to be.                                          *)
Parameters ==
  /\ Pinned \in Inodes /\ Inodes \cap {Symlink, None} = {}
  /\ Chunk \in Nat \ {0} /\ MaxSize \in Nat \ {0} /\ MaxBytes \in Nat /\ MaxChanges \in Nat

VARIABLES
  kind,      \* "path" or "descriptor"
  pinned,    \* whether a digest is pinned; always for a descriptor
  name,      \* what the path names
  file,      \* inode -> bytes, safe, stamp
  changes,
  pc,
  fd,        \* the inode the descriptor is open on
  offset,    \* the offset of the open file
  first,     \* the file at the first fstat
  at,        \* the position of the reader itself
  payload,
  digest     \* the pinned content

fs   == <<name, file, changes>>
vars == <<kind, pinned, fs, pc, fd, offset, first, at, payload, digest>>

Unread == [bytes |-> <<>>, safe |-> FALSE, stamp |-> 0]

TypeOK ==
  /\ kind \in {"path", "descriptor"} /\ pinned \in BOOLEAN
  /\ name \in Inodes \cup {Symlink}
  /\ \A i \in Inodes : /\ Len(file[i].bytes) <= MaxBytes /\ file[i].safe \in BOOLEAN
                       /\ file[i].stamp \in 0..MaxChanges
  /\ pc \in {"check", "open", "stat", "bind", "read", "stat_again", "verify",
             "accepted", "refused"}
  /\ fd \in Inodes \cup {None} /\ offset \in 0..MaxBytes /\ at \in 0..MaxBytes
  /\ Len(payload) <= MaxSize + Chunk

Init ==
  /\ kind \in {"path", "descriptor"} /\ pinned \in BOOLEAN
  /\ kind = "descriptor" => pinned
  /\ name \in Inodes
  /\ \E n \in [Inodes -> 0..MaxBytes], s \in [Inodes -> BOOLEAN] :
       file = [i \in Inodes |-> [bytes |-> [k \in 1..n[i] |-> 0], safe |-> s[i],
                                 stamp |-> 0]]
  /\ changes = 0 /\ pc = "check"
  /\ fd \in IF kind = "descriptor" THEN Inodes ELSE {None}
  /\ offset = 0 /\ first = Unread /\ at = 0 /\ payload = <<>>
  /\ digest = file[Pinned].bytes

-----------------------------------------------------------------------------
(* The others.                                                             *)

Rewrite(i, bytes) ==
  file' = [file EXCEPT ![i].bytes = bytes, ![i].stamp = changes + 1]

ChangeFile ==
  /\ changes < MaxChanges /\ changes' = changes + 1
  /\ \E i \in Inodes :
       \/ /\ Len(file[i].bytes) < MaxBytes
          /\ Rewrite(i, Append(file[i].bytes, changes + 1))
       \/ \E k \in DOMAIN file[i].bytes :
            \/ Rewrite(i, [file[i].bytes EXCEPT ![k] = changes + 1])
            \/ Rewrite(i, SubSeq(file[i].bytes, 1, k - 1))
       \/ file' = [file EXCEPT ![i].safe = ~@, ![i].stamp = changes + 1]
  /\ UNCHANGED <<kind, pinned, name, pc, fd, offset, first, at, payload, digest>>

ReplaceName ==
  /\ changes < MaxChanges /\ changes' = changes + 1
  /\ name' \in (Inodes \cup {Symlink}) \ {name}
  /\ UNCHANGED <<kind, pinned, file, pc, fd, offset, first, at, payload, digest>>

(* The launcher reads from the descriptor that it shares.                  *)
MoveOffset ==
  /\ kind = "descriptor" /\ offset < MaxBytes /\ offset' = offset + 1
  /\ pc \in {"read", "stat_again"}
  /\ UNCHANGED <<kind, pinned, fs, pc, fd, first, at, payload, digest>>

-----------------------------------------------------------------------------
(* Both readers.                                                           *)

Refuse == /\ pc' = "refused" /\ fd' = (IF kind = "path" THEN None ELSE fd)
          /\ UNCHANGED <<kind, pinned, fs, offset, first, at, payload, digest>>

Goto(next) == pc' = next
              /\ UNCHANGED <<kind, pinned, fs, fd, offset, first, at, payload, digest>>

(* The path is absolute and normalized, its parents are trusted directories *)
(* and nothing on it is a link; an inherited descriptor is in its range.    *)
CheckName ==
  /\ pc = "check"
  /\ IF kind = "descriptor" THEN Goto("stat")
     ELSE IF name = Symlink THEN Refuse ELSE Goto("open")

(* O_NOFOLLOW.                                                             *)
Open ==
  /\ pc = "open"
  /\ IF name = Symlink THEN Refuse
     ELSE /\ fd' = name /\ pc' = "stat"
          /\ UNCHANGED <<kind, pinned, fs, offset, first, at, payload, digest>>

Acceptable(f) == f.safe /\ Len(f.bytes) \in 1..MaxSize

Stat ==
  /\ pc = "stat"
  /\ IF ~Acceptable(file[fd]) THEN Refuse
     ELSE /\ first' = file[fd] /\ pc' = (IF kind = "path" THEN "read" ELSE "bind")
          /\ UNCHANGED <<kind, pinned, fs, fd, offset, at, payload, digest>>

(* The second status of the descriptor reader: the path names that file.   *)
Bind ==
  /\ pc = "bind"
  /\ IF name = fd /\ file[fd].safe THEN Goto("read") ELSE Refuse

Slice(from, upto) == SubSeq(file[fd].bytes, from + 1, upto)

MinOf(a, b) == IF a < b THEN a ELSE b

(* read, in chunks, to the end of the file or just beyond the limit.       *)
ReadChunk ==
  /\ pc = "read" /\ kind = "path"
  /\ LET end == MinOf(offset + MinOf(Chunk, MaxSize + 1), Len(file[fd].bytes))
         chunk == Slice(offset, end)
     IN IF chunk = <<>> THEN Goto("stat_again")
        ELSE /\ payload' = payload \o chunk /\ offset' = end
             /\ pc' = IF Len(payload') > MaxSize THEN "refused" ELSE "read"
             /\ fd' = IF Len(payload') > MaxSize THEN None ELSE fd
             /\ UNCHANGED <<kind, pinned, fs, first, at, digest>>

(* Seeded defect: the descriptor is read at its own offset.                *)
ReadSharedChunk ==
  /\ pc = "read" /\ kind = "descriptor"
  /\ LET size == Len(first.bytes)
         chunk == Slice(offset, MinOf(offset + MinOf(Chunk, size - at), Len(file[fd].bytes)))
     IN IF at >= size \/ chunk = <<>> THEN Goto("stat_again")
        ELSE /\ payload' = payload \o chunk /\ at' = at + Len(chunk)
             /\ offset' = offset + Len(chunk)
             /\ UNCHANGED <<kind, pinned, fs, pc, fd, first, digest>>

(* pread, up to the size that the first status told.                       *)
PreadChunk ==
  /\ pc = "read" /\ kind = "descriptor"
  /\ LET size == Len(first.bytes)
         chunk == Slice(at, MinOf(at + MinOf(Chunk, size - at), Len(file[fd].bytes)))
     IN IF at >= size \/ chunk = <<>> THEN Goto("stat_again")
        ELSE /\ payload' = payload \o chunk /\ at' = at + Len(chunk)
             /\ UNCHANGED <<kind, pinned, fs, pc, fd, offset, first, digest>>

(* Seeded defect: the sizes are compared, the times are not.               *)
SameLength == Len(file[fd].bytes) = Len(first.bytes)

SameIdentity == /\ file[fd].stamp = first.stamp
                /\ Len(file[fd].bytes) = Len(first.bytes)

(* The finally clause closes the descriptor that was opened here.          *)
StatAgain ==
  /\ pc = "stat_again"
  /\ IF SameIdentity /\ (kind = "descriptor" => Len(payload) = Len(first.bytes))
     THEN /\ pc' = "verify" /\ fd' = (IF kind = "path" THEN None ELSE fd)
          /\ UNCHANGED <<kind, pinned, fs, offset, first, at, payload, digest>>
     ELSE Refuse

Verify ==
  /\ pc = "verify"
  /\ IF pinned /\ payload # digest THEN Refuse ELSE Goto("accepted")

Reader == \/ CheckName \/ Open \/ Stat \/ Bind \/ ReadChunk \/ PreadChunk
          \/ StatAgain \/ Verify

Next == Reader \/ ChangeFile \/ ReplaceName \/ MoveOffset

Spec == Init /\ [][Next]_vars

-----------------------------------------------------------------------------
(* Properties.                                                             *)

(* An accepted payload is one version of one file: all the bytes that it   *)
(* had when its metadata were found safe, never a mixture of two versions, *)
(* and the pinned content where a digest is pinned.  The types, with the   *)
(* limit of what is held in memory, are part of it.                        *)
AcceptedIsOneVersion ==
  /\ TypeOK
  /\ pc = "accepted" => /\ payload = first.bytes /\ Acceptable(first)
                        /\ pinned => payload = digest

(* A file that nobody changes is not refused for what others do to the     *)
(* descriptor they share: only its size, its metadata, the name or the     *)
(* digest can be the reason.                                               *)
QuietFileIsRead ==
  (pc = "refused" /\ changes = 0) =>
    \/ ~Acceptable(file[IF kind = "path" THEN name ELSE fd])
    \/ kind = "descriptor" /\ name # fd
    \/ pinned /\ file[IF kind = "path" THEN name ELSE fd].bytes # digest

=============================================================================
