------------------------- MODULE RepositorySnapshot -------------------------
(***************************************************************************)
(* The repository snapshots of scripts/governed-ansible-exec.py: the walk  *)
(* that materialises a frozen commit out of the object store, the digest   *)
(* and the read-only modes that close it, and the verification that every  *)
(* boundary repeats.                                                       *)
(*                                                                         *)
(* An object is read by its hash, so the content that a read returns is a  *)
(* function of the identifier, or the read fails.  The digest of a tree    *)
(* stands for the stream that is hashed: frames and contents one after     *)
(* another, without lengths.  A frame is one symbol, which a file may hold *)
(* too; that one begins in a path and ends in a content is left out.       *)
(* External: the working repository, whose HEAD moves on, and whatever     *)
(* changes the private tree later, while it is verified included.          *)
(***************************************************************************)
EXTENDS Integers, Sequences, SequencesExt

CONSTANTS
  Trees,         \* identifiers of tree objects
  Size,          \* blob identifier -> its length
  Text,          \* blob identifier -> its symbols, frames among them
  Fold,          \* name -> its case-folded form
  Order,         \* name -> its place among the sorted names
  Unsafe,        \* names that safe_git_component refuses
  Stores,        \* tree identifier -> entries: the contents a store may have
  Root,          \* commit -> its root tree
  Frozen,        \* the commit of the manifest
  MaxFiles,      \* MAX_SNAPSHOT_FILES
  MaxBytes,      \* MAX_SNAPSHOT_BYTES
  MaxFileBytes,  \* MAX_SNAPSHOT_FILE_BYTES
  MaxDepth,      \* MAX_GIT_TREE_DEPTH
  MaxTampers     \* bound: changes made to the private tree afterwards

ASSUME RepositorySnapshotAssumption ==
  /\ MaxFiles \in Nat \ {0} /\ MaxBytes \in Nat /\ MaxFileBytes \in Nat
  /\ MaxDepth \in Nat /\ MaxTampers \in Nat
  /\ Frozen \in DOMAIN Root /\ \A c \in DOMAIN Root : Root[c] \in Trees
  /\ \A b \in DOMAIN Size : Size[b] \in Nat
  /\ \A s \in Stores :
       /\ s \in [Trees -> Seq([mode : STRING, name : DOMAIN Fold, id : Trees \cup DOMAIN Size])]
       /\ \A t \in Trees : \A i \in DOMAIN s[t] :
            /\ s[t][i].mode = "40000" => s[t][i].id \in Trees
            /\ s[t][i].mode \in {"100644", "100755"} => s[t][i].id \in DOMAIN Size

VARIABLES
  store,    \* the object store
  head,     \* the commit the repository has checked out
  pc,
  stack,    \* the walks in progress: tree, path, next entry
  pending,  \* the tree or blob entry in hand
  seen,     \* collision_keys
  files, bytes, trees,  \* counters
  disk,     \* the private tree: folded path -> node
  evidence, \* what was published about it
  scan,     \* a verification: entries to read, those it has read, whether raced
  tampers

counters == <<files, bytes, trees>>
vars == <<store, head, pc, stack, pending, seen, counters, disk, evidence, scan, tampers>>

Paths(p)    == [i \in DOMAIN p |-> Fold[p[i]]]
ActiveTrees == {stack[i].tree : i \in DOMAIN stack}

(* What a listing of the private tree shows: spelled path, kind, executable *)
(* bit and content.                                                         *)
Shown(k) == [path |-> disk[k].path, kind |-> disk[k].kind, exec |-> disk[k].exec,
             data |-> disk[k].data]

Listing == {Shown(k) : k \in DOMAIN disk}

RegularFiles == {k \in DOMAIN disk : disk[k].kind = "file"}

(* The bytes of the tree, each as its file and its position.               *)
Stored    == UNION {{k} \X (1..disk[k].data.size) : k \in RegularFiles}
DiskBytes == Cardinality(Stored)

TypeOK ==
  /\ head \in DOMAIN Root
  /\ pc \in {"collect", "enter", "entry", "create", "write", "hash", "published",
             "counted", "reading", "refused"}
  /\ Len(stack) <= MaxDepth + 1
  /\ files \in 0..MaxFiles /\ trees \in 0..MaxFiles /\ bytes \in 0..MaxBytes
  /\ \A k \in DOMAIN disk : disk[k].kind \in {"dir", "file", "link"}
  /\ tampers \in 0..MaxTampers

NoEntry    == [mode |-> "none", name |-> "none", id |-> "none"]
NoEvidence == [digest |-> <<>>, files |-> -1, bytes |-> -1]
NoScan     == [todo |-> <<>>, read |-> <<>>, raced |-> FALSE]

Init ==
  /\ store \in Stores /\ head \in DOMAIN Root /\ pc = "collect"
  /\ stack = <<>> /\ pending = NoEntry /\ seen = {}
  /\ files = 0 /\ bytes = 0 /\ trees = 0
  /\ disk = <<>> /\ evidence = NoEvidence /\ scan = NoScan /\ tampers = 0

-----------------------------------------------------------------------------
(* Reading the frozen commit.                                              *)

(* A pull, a checkout or a new commit after the state was collected.       *)
Checkout ==
  /\ pc \notin {"collect", "refused"} /\ head = Frozen
  /\ head' \in DOMAIN Root \ {head}
  /\ UNCHANGED <<store, pc, stack, pending, seen, counters, disk, evidence, scan, tampers>>

Refuse ==
  /\ pc' = "refused"
  /\ UNCHANGED <<store, head, stack, pending, seen, counters, disk, evidence, scan, tampers>>

RootTree == Root[Frozen]

(* The root directory is made, the walk of the root tree is next.          *)
CollectState ==
  /\ pc = "collect"
  /\ IF head # Frozen THEN Refuse
     ELSE /\ pc' = "enter"
          /\ UNCHANGED <<store, head, stack, pending, seen, counters, disk, evidence,
                         scan, tampers>>

NextTree == IF stack = <<>> THEN RootTree ELSE pending.id
NextPath == IF stack = <<>> THEN <<>> ELSE Append(Last(stack).path, pending.name)

MayEnter == Len(stack) <= MaxDepth /\ NextTree \notin ActiveTrees /\ trees + 1 <= MaxFiles

EnterTree ==
  /\ pc = "enter"
  /\ IF ~MayEnter THEN Refuse
     ELSE /\ stack' = Append(stack, [tree |-> NextTree, path |-> NextPath, next |-> 1])
          /\ trees' = trees + 1 /\ pc' = "entry"
          /\ UNCHANGED <<store, head, pending, seen, files, bytes, disk, evidence, scan, tampers>>

Top        == Last(stack)
Entries    == store[Top.tree]
Entry      == Entries[Top.next]
EntryPath  == Append(Top.path, Entry.name)

(* Seeded defect: two names that differ in case are two names.             *)
AcceptableName == Entry.name \notin Unsafe

Acceptable == Entry.name \notin Unsafe /\ Paths(EntryPath) \notin seen

Advance == stack' = Front(stack) \o <<[Top EXCEPT !.next = @ + 1]>>

Node(path, kind, exec, blob, size) ==
  [path |-> path, kind |-> kind, exec |-> exec, mode |-> "private",
   data |-> [blob |-> blob, size |-> size]]

(* The path that a file system shows for a new name in a directory.        *)
Spelled(name) == Append(IF Top.path = <<>> THEN <<>> ELSE disk[Paths(Top.path)].path, name)

AddNode(key, node) == disk' = [k \in DOMAIN disk \cup {key} |-> IF k = key THEN node ELSE disk[k]]

(* An existing directory is taken as it is; the root counts as a directory *)
(* of mode 0700 too.                                                       *)
TakeDirectory ==
  /\ pc = "entry" /\ Top.next <= Len(Entries) /\ Acceptable /\ Entry.mode = "40000"
  /\ seen' = seen \cup {Paths(EntryPath)} /\ pending' = Entry /\ Advance
  /\ IF Paths(EntryPath) \in DOMAIN disk THEN UNCHANGED disk
     ELSE AddNode(Paths(EntryPath), Node(Spelled(Entry.name), "dir", TRUE, "none", 0))
  /\ pc' = "enter"
  /\ UNCHANGED <<store, head, counters, evidence, scan, tampers>>

(* Seeded defect: the file is counted after the check.                     *)
WithinCountedSoFar == files <= MaxFiles /\ bytes <= MaxBytes

WithinLimits == /\ files + 1 <= MaxFiles /\ bytes + Size[Entry.id] <= MaxBytes
                /\ Size[Entry.id] <= MaxFileBytes

TakeFile ==
  /\ pc = "entry" /\ Top.next <= Len(Entries) /\ Acceptable
  /\ Entry.mode \in {"100644", "100755"} /\ WithinLimits
  /\ seen' = seen \cup {Paths(EntryPath)} /\ pending' = Entry
  /\ files' = files + 1 /\ bytes' = bytes + Size[Entry.id]
  /\ pc' = "create"
  /\ UNCHANGED <<store, head, stack, trees, disk, evidence, scan, tampers>>

RefuseEntry ==
  /\ pc = "entry" /\ Top.next <= Len(Entries)
  /\ \/ ~Acceptable
     \/ Entry.mode \notin {"40000", "100644", "100755"}
     \/ Entry.mode \in {"100644", "100755"} /\ ~WithinLimits
  /\ Refuse

(* Any read of an object may fail: git, its limits, or the hash.           *)
ReadFails ==
  /\ \/ pc = "enter" /\ MayEnter
     \/ /\ pc = "entry" /\ Top.next <= Len(Entries)
        /\ Acceptable /\ Entry.mode \in {"100644", "100755"}
  /\ Refuse

(* O_EXCL: on a file system that folds case the name may exist.            *)
CreateFile ==
  /\ pc = "create"
  /\ IF Paths(EntryPath) \in DOMAIN disk THEN Refuse
     ELSE /\ AddNode(Paths(EntryPath), Node(Spelled(Entry.name), "file",
                                            Entry.mode = "100755", Entry.id, 0))
          /\ pc' = "write"
          /\ UNCHANGED <<store, head, stack, pending, seen, counters, evidence, scan, tampers>>

Written == disk[Paths(EntryPath)].data.size = Size[Entry.id]

WriteFile ==
  /\ pc = "write"
  /\ \/ /\ disk[Paths(EntryPath)].data.size < Size[Entry.id]
        /\ \E n \in 1..Size[Entry.id] - disk[Paths(EntryPath)].data.size :
             disk' = [disk EXCEPT ![Paths(EntryPath)].data.size = @ + n]
        /\ UNCHANGED <<store, head, pc, stack, pending, seen, counters, evidence, scan, tampers>>
     \/ /\ Written /\ pc' = "entry" /\ Advance
        /\ UNCHANGED <<store, head, pending, seen, counters, disk, evidence, scan, tampers>>
     \/ Refuse

LeaveTree ==
  /\ pc = "entry" /\ Top.next > Len(Entries)
  /\ stack' = Front(stack)
  /\ pc' = IF Len(stack) = 1 THEN "hash" ELSE "entry"
  /\ UNCHANGED <<store, head, pending, seen, counters, disk, evidence, scan, tampers>>

-----------------------------------------------------------------------------
(* Closing the snapshot and verifying it.                                  *)

(* snapshot_tree_sha256 frames a directory by its path and a file by its   *)
(* path and executable bit, and hashes frame and content.                  *)
Frame(item) == [path |-> item.path, kind |-> item.kind, exec |-> item.exec]

Framed(item) == <<Frame(item)>> \o
                (IF item.kind = "file" THEN SubSeq(Text[item.data.blob], 1, item.data.size)
                 ELSE <<>>)

Digest(listing) == FlattenSeq([i \in DOMAIN listing |-> Framed(listing[i])])

(* Directory by directory in the order of the names.                       *)
Before(p, q) ==
  \/ IsStrictPrefix(p, q)
  \/ \E i \in DOMAIN p \cap DOMAIN q :
       Order[p[i]] < Order[q[i]] /\ SubSeq(p, 1, i - 1) = SubSeq(q, 1, i - 1)

Earlier(k) == {j \in DOMAIN disk : Before(disk[j].path, disk[k].path)}

Sorted == [i \in 1..Cardinality(DOMAIN disk) |->
             CHOOSE k \in DOMAIN disk : Cardinality(Earlier(k)) = i - 1]

Publish ==
  /\ pc = "hash"
  /\ LET sorted == Sorted
     IN evidence' = [digest |-> Digest([i \in DOMAIN sorted |-> Shown(sorted[i])]),
                     files |-> files, bytes |-> bytes]
  /\ disk' = [k \in DOMAIN disk |-> [disk[k] EXCEPT !.mode = "read_only"]]
  /\ pc' = "published"
  /\ UNCHANGED <<store, head, stack, pending, seen, counters, scan, tampers>>

Keys(todo) == {Paths(todo[i]) : i \in DOMAIN todo}

(* A change, since the counts, of what is still to be listed or read.      *)
Unread(keys) ==
  \/ pc = "counted"
  \/ pc = "reading" /\ \E k \in keys : k \notin DOMAIN disk \/ k \in Keys(scan.todo)

Race(keys) == scan' = [scan EXCEPT !.raced = @ \/ Unread(keys)]

Below(k) == {i \in DOMAIN disk : IsPrefix(k, i)}

(* The tree is in use: files change, come, go, become links or writable.   *)
Tamper ==
  /\ pc \in {"published", "counted", "reading"} /\ tampers < MaxTampers
  /\ tampers' = tampers + 1
  /\ \/ \E k \in RegularFiles, b \in DOMAIN Size :
          /\ disk[k].data.blob # b
          /\ disk' = [disk EXCEPT ![k].data = [blob |-> b, size |-> Size[b]]]
          /\ Race({k})
     \/ \E k \in DOMAIN disk : disk' = [disk EXCEPT ![k].mode = "private"] /\ Race({k})
     \/ \E k \in DOMAIN disk : disk' = [disk EXCEPT ![k].kind = "link"] /\ Race({k})
     \/ \E k \in RegularFiles : disk' = [disk EXCEPT ![k].exec = ~@] /\ Race({k})
     \/ \E k \in DOMAIN disk :
          /\ disk' = [i \in DOMAIN disk \ Below(k) |-> disk[i]]
          /\ Race(Below(k))
     \/ \E name \in DOMAIN Fold, b \in DOMAIN Size :
          /\ <<Fold[name]>> \notin DOMAIN disk
          /\ AddNode(<<Fold[name]>>,
               [Node(<<name>>, "file", FALSE, b, Size[b]) EXCEPT !.mode = "read_only"])
          /\ Race({<<Fold[name]>>})
  /\ UNCHANGED <<store, head, pc, stack, pending, seen, counters, evidence>>

(* Seeded defect: the digest is left to tell every difference.             *)
NotCounted == TRUE

SameCounts == Cardinality(RegularFiles) = evidence.files /\ DiskBytes = evidence.bytes

(* The first pass, over the status of every entry.                         *)
ScanModes ==
  /\ pc = "published"
  /\ IF /\ \A k \in DOMAIN disk : disk[k].kind # "link" /\ disk[k].mode = "read_only"
        /\ SameCounts
     THEN /\ pc' = "counted"
          /\ UNCHANGED <<store, head, stack, pending, seen, counters, disk, evidence,
                         scan, tampers>>
     ELSE Refuse

(* The second pass lists the entries and sorts them before it reads one.   *)
ListEntries ==
  /\ pc = "counted" /\ pc' = "reading"
  /\ LET sorted == Sorted
     IN scan' = [scan EXCEPT !.todo = [i \in DOMAIN sorted |-> disk[sorted[i]].path]]
  /\ UNCHANGED <<store, head, stack, pending, seen, counters, disk, evidence, tampers>>

(* A link is refused, and an entry that is gone is an OSError.             *)
ReadEntry ==
  /\ pc = "reading" /\ scan.todo # <<>>
  /\ LET path == Head(scan.todo)
         k    == Paths(path)
     IN IF k \notin DOMAIN disk \/ disk[k].kind = "link" THEN Refuse
        ELSE /\ scan' = [scan EXCEPT !.todo = Tail(@),
                                    !.read = Append(@, [Shown(k) EXCEPT !.path = path])]
             /\ UNCHANGED <<store, head, pc, stack, pending, seen, counters, disk,
                            evidence, tampers>>

CompareDigests ==
  /\ pc = "reading" /\ scan.todo = <<>>
  /\ IF Digest(scan.read) = evidence.digest
     THEN /\ pc' = "published" /\ scan' = NoScan
          /\ UNCHANGED <<store, head, stack, pending, seen, counters, disk, evidence,
                         tampers>>
     ELSE Refuse

Walk == \/ CollectState \/ ReadFails \/ EnterTree \/ TakeDirectory \/ TakeFile
        \/ RefuseEntry \/ CreateFile \/ WriteFile \/ LeaveTree

Verify == ScanModes \/ ListEntries \/ ReadEntry \/ CompareDigests

Next == Walk \/ Publish \/ Verify \/ Checkout \/ Tamper

Spec == Init /\ [][Next]_vars

-----------------------------------------------------------------------------
(* Properties.                                                             *)

(* The chains of entries that lead from the root tree of the frozen commit *)
(* to a file or a directory, to one level below the deepest the walk takes. *)
TreeOf(c, i) == IF i = 1 THEN RootTree ELSE c[i - 1].id

Leads(c) ==
  \A i \in DOMAIN c : (i > 1 => c[i - 1].mode = "40000") /\ c[i] \in Range(store[TreeOf(c, i)])

AllEntries == UNION {Range(store[t]) : t \in Trees}

Chains == {c \in UNION {[1..n -> AllEntries] : n \in 0..MaxDepth + 2} : Leads(c)}

(* What a listing has to show for a chain: the names on the way and what   *)
(* its last entry says.                                                    *)
Item(c) ==
  LET e == Last(c)
  IN [path |-> [i \in DOMAIN c |-> c[i].name],
      kind |-> IF e.mode = "40000" THEN "dir" ELSE "file",
      exec |-> e.mode \in {"40000", "100755"},
      data |-> IF e.mode = "40000" THEN [blob |-> "none", size |-> 0]
               ELSE [blob |-> e.id, size |-> Size[e.id]]]

(* The reference the walk is compared with.                                *)
Contents == {Item(c) : c \in Chains \ {<<>>}}

(* A published snapshot lists exactly the frozen commit, whatever HEAD has *)
(* become since: no file is missing, short, merged with another under one  *)
(* folded name, or of another mode, and the evidence counts its files.     *)
PublishedIsTheCommit ==
  (pc = "published" /\ tampers = 0) =>
    /\ Listing = Contents
    /\ evidence.files = Cardinality(RegularFiles) /\ evidence.bytes = DiskBytes

(* No file of the commit holds a frame.                                    *)
OneReading ==
  \A item \in Contents : item.kind = "file" =>
    \A i \in DOMAIN Text[item.data.blob] :
      DOMAIN Text[item.data.blob][i] # DOMAIN Frame(item)

(* A verification that passes has read the frozen commit, file by file,    *)
(* unless something was changed, after the counts were taken, that it had  *)
(* still to read.  The stream that is hashed has no lengths, so that       *)
(* another listing can hash alike; but it has fewer entries and more bytes *)
(* then, which the counts of the first pass tell, unless a file of the     *)
(* commit itself holds what reads like a frame.                            *)
VerifiedIsTheCommit ==
  [][CompareDigests /\ pc' = "published" /\ ~scan.raced /\ OneReading
       => Range(scan.read) = Contents]_vars

(* The private tree never exceeds the limits, at any moment of the walk    *)
(* and not only when the counters are compared; nor do the counters and    *)
(* the stack of open trees leave their types.                              *)
DiskIsBounded ==
  /\ TypeOK
  /\ tampers = 0 =>
       /\ Cardinality(RegularFiles) <= MaxFiles /\ DiskBytes <= MaxBytes
       /\ \A k \in RegularFiles : disk[k].data.size <= MaxFileBytes
       /\ Cardinality(DOMAIN disk \ RegularFiles) <= MaxFiles
       /\ \A k \in DOMAIN disk : Len(k) <= MaxDepth + 1

=============================================================================
